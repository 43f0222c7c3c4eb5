----------------------------- MODULE MC_Synced -----------------------------
(* An instance of AgendaFS in which a sync tool writes beside users. *)
EXTENDS MC_AgendaFS

ASSUME SyncBeside

=============================================================================
