----------------------------- MODULE MC_Mounted -----------------------------
(* An instance of AgendaFS in which users are alone. *)
EXTENDS MC_AgendaFS

ASSUME UsersAlone

\* Vdirs with a note and a directory that may hold it.
OrderlyVdirs ==
  {D \in [Uids -> {NoFile, note(<<b, txt>>, TRUE, NoExt, <<>>)}
                    \cup {note(<<a>>, FALSE, txt, ps) :
                            ps \in {<<>>} \cup {<<v>> : v \in Uids}}] :
     Orderly(D)}

=============================================================================
