----------------------- MODULE NoteAttributes_proofs -----------------------
(***************************************************************************)
(* The extended attributes of a note keep what the manual pages promise,   *)
(* for any attributes, values, lengths, sizes of buffers and requests, and *)
(* any component that another program has written.                         *)
(***************************************************************************)
EXTENDS NoteAttributesProperties, SequenceTheorems, TLAPS

-----------------------------------------------------------------------------
(* Operators *)

\* The five kinds of attributes exclude each other.
LEMMA KindsOfAttributes ==
  ASSUME NEW attr \in Attributes
  PROVE  /\ attr \in Custom =>
              attr \notin Foreign \cup {"categories", "class", "status", "dtstart",
                                        "uid", "sibling"}
         /\ attr \in Foreign =>
              attr \notin {"categories", "class", "status", "dtstart", "uid",
                           "sibling"}
         /\ \/ attr \in Custom \cup Foreign
            \/ attr \in {"categories", "class", "status", "dtstart", "uid",
                         "sibling"}
  BY NamesAssumption DEF Attributes, Builtin

\* What comes back from the file is a value or nothing.
LEMMA AStoredValue ==
  ASSUME NEW value \in Values
  PROVE  stored(value) \in Values \cup {NoData}
  BY DEF stored

\* A note changed in one of its properties is a note.
LEMMA ChangedNote ==
  ASSUME NEW n \in Note
  PROVE  /\ \A v \in Values \cup {NoData} : [n EXCEPT !.categories = v] \in Note
         /\ \A s \in StatusNames : [n EXCEPT !.status = s] \in Note
         /\ \A d \in Dates \cup {NoData} : [n EXCEPT !.dtstart = d] \in Note
         /\ \A k \in Custom, v \in Values \cup {NoData} :
              [n EXCEPT !.custom[k] = v] \in Note
         /\ \A s \in Seq(ClassNames) : [n EXCEPT !.class = s] \in Note
  BY DEF Note

\* The CLASS properties after one was set or removed.
LEMMA ChangedClass ==
  ASSUME NEW n \in Note
  PROVE  /\ \A c \in ClassNames :
              /\ set_node_class(n, c) \in Note
              /\ n.class # <<>> =>
                   set_node_class(n, c) = [n EXCEPT !.class = [@ EXCEPT ![1] = c]]
         /\ delete_node_class(n) \in Note
  <1>1. n.class \in Seq(ClassNames)
    BY DEF Note
  <1>2. ASSUME NEW c \in ClassNames, n.class # <<>>
        PROVE  /\ set_node_class(n, c) = [n EXCEPT !.class = [@ EXCEPT ![1] = c]]
               /\ set_node_class(n, c) \in Note
    <2>1. [n.class EXCEPT ![1] = c] \in Seq(ClassNames)
      <3>1. Len(n.class) \in Nat /\ Len(n.class) # 0
        BY <1>1, <1>2, EmptySeq, LenProperties
      <3>2. 1 \in 1 .. Len(n.class)
        BY <3>1
      <3> QED
        BY <1>1, <3>2, ExceptSeq
    <2>2. set_node_class(n, c) = [n EXCEPT !.class = [@ EXCEPT ![1] = c]]
      BY <1>2 DEF set_node_class
    <2> QED
      <3>1. [n EXCEPT !.class = [n.class EXCEPT ![1] = c]] \in Note
        BY <2>1, ChangedNote
      <3> QED
        BY <2>2, <3>1
  <1>3. \A c \in ClassNames : n.class = <<>> => set_node_class(n, c) = n
    BY DEF set_node_class
  <1>4. delete_node_class(n) \in Note
    <2>1. CASE n.class = <<>>
      BY <2>1 DEF delete_node_class
    <2>2. CASE n.class # <<>>
      <3>1. Tail(n.class) \in Seq(ClassNames)
        BY <1>1, <2>2, HeadTailProperties
      <3>2. delete_node_class(n) = [n EXCEPT !.class = Tail(n.class)]
        BY <2>2 DEF delete_node_class
      <3> QED
        BY <3>1, <3>2, ChangedNote
    <2> QED
      BY <2>1, <2>2
  <1> QED
    BY <1>2, <1>3, <1>4

\* What passes the checks is what the attribute can be set to.
LEMMA Accepted ==
  ASSUME NEW attr \in Attributes, NEW value \in Values,
         set_error(attr, value) = "OK"
  PROVE  /\ attr \in Custom \cup {"categories", "class", "status", "dtstart"}
         /\ attr = "class" => value \in ClassNames
         /\ attr = "dtstart" => value \in Dates \cup {Empty}
         /\ NameLength[attr] < 256 /\ ValueLength[value] < 64 * 1024
  <1>1. NameLength[attr] \in Nat /\ ValueLength[value] \in Nat
    BY AttributesAssumption
  <1>2. NoData \notin ClassNames
    BY AttributesAssumption
  <1> QED
    BY <1>1, <1>2, KindsOfAttributes DEF set_error, parse_ical_class

\* The branch of set_attribute for each attribute.
LEMMA SetBranches ==
  ASSUME NEW n \in Note, NEW attr \in Attributes, NEW value \in Values
  PROVE  /\ attr = "categories" =>
              set_attribute(n, attr, value) = [n EXCEPT !.categories = stored(value)]
         /\ attr = "class" =>
              set_attribute(n, attr, value)
                = set_node_class(n, parse_ical_class(value))
         /\ attr = "status" =>
              set_attribute(n, attr, value)
                = [n EXCEPT !.status = parse_ical_status(value)]
         /\ attr = "dtstart" =>
              set_attribute(n, attr, value)
                = IF value = Empty THEN n ELSE [n EXCEPT !.dtstart = value]
         /\ attr \in Custom =>
              set_attribute(n, attr, value) = [n EXCEPT !.custom[attr] = stored(value)]
  BY KindsOfAttributes
     DEF set_attribute, clear_dtstart, icalcomponent_set_custom_x_value

\* The branch of remove_attribute for each attribute.
LEMMA RemoveBranches ==
  ASSUME NEW n \in Note, NEW attr \in Attributes
  PROVE  /\ attr = "categories" =>
              remove_attribute(n, attr) = [n EXCEPT !.categories = NoData]
         /\ attr = "class" => remove_attribute(n, attr) = delete_node_class(n)
         /\ attr \in {"dtstart", "uid", "sibling"} => remove_attribute(n, attr) = n
         /\ attr \in Custom =>
              remove_attribute(n, attr) = [n EXCEPT !.custom[attr] = NoData]
  BY KindsOfAttributes DEF remove_attribute, clear_dtstart

-----------------------------------------------------------------------------
(* The type invariant *)

LEMMA SetGivesNote ==
  ASSUME NEW n \in Note, NEW attr \in Attributes, NEW value \in Values,
         set_error(attr, value) = "OK"
  PROVE  set_attribute(n, attr, value) \in Note
  <1>1. attr \in Custom \cup {"categories", "class", "status", "dtstart"}
    BY Accepted
  <1>2. CASE attr = "categories"
    <2>1. set_attribute(n, attr, value) = [n EXCEPT !.categories = stored(value)]
      BY <1>2, SetBranches
    <2> QED
      BY <2>1, AStoredValue, ChangedNote
  <1>3. CASE attr = "class"
    <2>1. parse_ical_class(value) \in ClassNames
      BY <1>3, Accepted DEF parse_ical_class
    <2>2. set_attribute(n, attr, value) = set_node_class(n, parse_ical_class(value))
      BY <1>3, SetBranches
    <2> QED
      BY <2>1, <2>2, ChangedClass
  <1>4. CASE attr = "status"
    <2>1. parse_ical_status(value) \in StatusNames
      BY DEF parse_ical_status, StatusNames
    <2>2. set_attribute(n, attr, value)
            = [n EXCEPT !.status = parse_ical_status(value)]
      BY <1>4, SetBranches
    <2> QED
      BY <2>1, <2>2, ChangedNote
  <1>5. CASE attr = "dtstart"
    <2>1. value \in Dates \cup {Empty}
      BY <1>5, Accepted
    <2> QED
      BY <1>5, <2>1, SetBranches, ChangedNote
  <1>6. CASE attr \in Custom
    <2>1. set_attribute(n, attr, value) = [n EXCEPT !.custom[attr] = stored(value)]
      BY <1>6, SetBranches
    <2> QED
      BY <1>6, <2>1, AStoredValue, ChangedNote
  <1> QED
    BY <1>1, <1>2, <1>3, <1>4, <1>5, <1>6

LEMMA RemoveGivesNote ==
  ASSUME NEW n \in Note, NEW attr \in Attributes, remove_error(attr) = "OK"
  PROVE  remove_attribute(n, attr) \in Note
  <1>1. attr \in Custom \cup {"categories", "class", "dtstart", "uid", "sibling"}
    BY KindsOfAttributes DEF remove_error
  <1> QED
    <2>1. CASE attr = "categories"
      <3>1. remove_attribute(n, attr) = [n EXCEPT !.categories = NoData]
        BY <2>1, RemoveBranches
      <3> QED
        BY <3>1, ChangedNote
    <2>2. CASE attr = "class"
      BY <2>2, RemoveBranches, ChangedClass
    <2>3. CASE attr \in {"dtstart", "uid", "sibling"}
      BY <2>3, RemoveBranches
    <2>4. CASE attr \in Custom
      <3>1. remove_attribute(n, attr) = [n EXCEPT !.custom[attr] = NoData]
        BY <2>4, RemoveBranches
      <3>2. \A v \in Values \cup {NoData} : [n EXCEPT !.custom[attr] = v] \in Note
        BY <2>4, ChangedNote
      <3> QED
        BY <3>1, <3>2
    <2> QED
      BY <1>1, <2>1, <2>2, <2>3, <2>4

\* What the two kinds of requests do.
LEMMA SetStep ==
  ASSUME TypeOK, NEW attr \in Attributes, NEW value \in Values,
         FuseSetxattr(attr, value)
  PROVE  TypeOK'
  <1>1. CASE set_error(attr, value) # "OK"
    BY <1>1 DEF FuseSetxattr, TypeOK, Reply, set_error
  <1>2. CASE set_error(attr, value) = "OK" /\ AtRoot(attr, "set", value)
    <2>1. UNCHANGED note /\ alive' \in BOOLEAN
      BY <1>2 DEF AtRoot, TypeOK
    <2>2. \/ reply' = reply
          \/ reply' = [op |-> "set", attr |-> attr, value |-> value, result |-> "OK"]
      BY <1>2 DEF AtRoot, Reply
    <2> QED
      BY <2>1, <2>2 DEF TypeOK
  <1>3. CASE set_error(attr, value) = "OK" /\ note # RootNote
             /\ Write(set_attribute(note, attr, value), "set", attr, value)
    <2>1. set_attribute(note, attr, value) \in Note
      BY <1>3, SetGivesNote DEF TypeOK
    <2> QED
      BY <1>3, <2>1 DEF Write, TypeOK, Reply
  <1> QED
    BY <1>1, <1>2, <1>3 DEF FuseSetxattr

LEMMA RemoveStep ==
  ASSUME TypeOK, NEW attr \in Attributes, FuseRemovexattr(attr)
  PROVE  TypeOK'
  <1>0. Empty \in Values
    BY AttributesAssumption
  <1>1. CASE remove_error(attr) # "OK"
    BY <1>0, <1>1 DEF FuseRemovexattr, TypeOK, Reply, remove_error
  <1>2. CASE remove_error(attr) = "OK" /\ AtRoot(attr, "remove", Empty)
    <2>1. UNCHANGED note /\ alive' \in BOOLEAN
      BY <1>2 DEF AtRoot, TypeOK
    <2>2. \/ reply' = reply
          \/ reply' = [op |-> "remove", attr |-> attr, value |-> Empty, result |-> "OK"]
      BY <1>2 DEF AtRoot, Reply
    <2> QED
      BY <1>0, <2>1, <2>2 DEF TypeOK
  <1>3. CASE remove_error(attr) = "OK" /\ note # RootNote
             /\ Write(remove_attribute(note, attr), "remove", attr, Empty)
    <2>1. remove_attribute(note, attr) \in Note
      BY <1>3, RemoveGivesNote DEF TypeOK
    <2> QED
      BY <1>0, <1>3, <2>1 DEF Write, TypeOK, Reply
  <1> QED
    BY <1>1, <1>2, <1>3 DEF FuseRemovexattr

\* What reading finds is a value or nothing.
LEMMA AValue ==
  ASSUME NEW n \in Note \cup {RootNote}, NEW attr \in Attributes,
         ~(n = RootNote /\ attr = "uid")
  PROVE  value_of(n, attr) \in Values \cup {NoData}
  <1>1. CASE n = RootNote \/ attr \in Foreign \cup {"sibling"}
    BY <1>1 DEF value_of
  <1>2. CASE n # RootNote /\ attr \in Custom
    BY <1>2, KindsOfAttributes DEF value_of, Note
  <1>3. CASE n # RootNote
             /\ attr \in {"categories", "class", "status", "dtstart", "uid"}
    <2>1. value_of(n, attr) = builtin_value(n, attr)
      BY <1>3, KindsOfAttributes DEF value_of
    <2>2. /\ n.categories \in Values \cup {NoData}
          /\ n.dtstart \in Values \cup {NoData} /\ n.uid \in Values
      BY <1>3, AttributesAssumption DEF Note
    <2>3. get_node_class(n) \in Values \cup {NoData}
      <3>1. n.class \in Seq(ClassNames)
        BY <1>3 DEF Note
      <3>2. CASE n.class = <<>>
        BY <3>2 DEF get_node_class
      <3>3. CASE n.class # <<>>
        <4>1. Len(n.class) \in Nat /\ Len(n.class) # 0
          BY <3>1, <3>3, EmptySeq, LenProperties
        <4>2. n.class[1] \in ClassNames
          BY <3>1, <4>1, ElementOfSeq
        <4> QED
          BY <3>3, <4>2, AttributesAssumption DEF get_node_class
      <3> QED
        BY <3>2, <3>3
    <2>4. format_ical_status(n.status) \in Values \cup {NoData}
      BY AttributesAssumption DEF format_ical_status
    <2> QED
      BY <1>3, <2>1, <2>2, <2>3, <2>4 DEF builtin_value
  <1> QED
    BY <1>1, <1>2, <1>3, KindsOfAttributes

LEMMA GetStep ==
  ASSUME TypeOK, NEW attr \in Attributes, NEW size \in Sizes,
         FuseGetxattr(attr, size)
  PROVE  TypeOK'
  <1>1. CASE note = RootNote /\ attr = "uid"
    BY <1>1 DEF FuseGetxattr, TypeOK
  <1>2. CASE ~(note = RootNote /\ attr = "uid")
    <2>1. value_of(note, attr) \in Values \cup {NoData}
      BY <1>2, AValue DEF TypeOK
    <2>2. fuse_getxattr(note, attr, size).content \in Values \cup {NoData, Cut}
      BY <2>1 DEF fuse_getxattr, snprintf
    <2>3. /\ UNCHANGED <<note, alive>>
          /\ reply' = [op |-> "get", attr |-> attr, size |-> size,
                       answer |-> fuse_getxattr(note, attr, size)]
      BY <1>2 DEF FuseGetxattr
    <2> QED
      BY <2>2, <2>3 DEF TypeOK
  <1> QED
    BY <1>1, <1>2

LEMMA TypeInit == Init => TypeOK
  BY AttributesAssumption DEF Init, TypeOK

LEMMA TypeNext == TypeOK /\ [Next]_vars => TypeOK'
  <1> SUFFICES ASSUME TypeOK, [Next]_vars PROVE TypeOK'
    OBVIOUS
  <1>1. ASSUME NEW r \in SetRequests, FuseSetxattr(r[1], r[2])
        PROVE  TypeOK'
    BY <1>1, SetStep, AttributesAssumption
  <1>2. ASSUME NEW attr \in RemoveRequests, FuseRemovexattr(attr)
        PROVE  TypeOK'
    BY <1>2, RemoveStep, AttributesAssumption
  <1>3. ASSUME NEW attr \in GetRequests, NEW size \in Sizes,
               FuseGetxattr(attr, size)
        PROVE  TypeOK'
    BY <1>3, GetStep, AttributesAssumption
  <1>4. ASSUME NEW size \in Sizes, FuseListxattr(size)
        PROVE  TypeOK'
    <2>1. note' = note /\ alive' \in BOOLEAN
      BY <1>4 DEF FuseListxattr, TypeOK
    <2>2. \E answer : reply' = [op |-> "list", size |-> size, answer |-> answer]
      BY <1>4 DEF FuseListxattr
    <2> QED
      BY <1>4, <2>1, <2>2 DEF TypeOK
  <1>5. CASE UNCHANGED vars
    BY <1>5 DEF vars, TypeOK
  <1> QED
    BY <1>1, <1>2, <1>3, <1>4, <1>5 DEF Next

\* Whatever is set and removed, and whatever component it started from, the
\* file holds a component, and a class and a status that are known (the checks
\* of fuse_setxattr and set_dtstart).
THEOREM AttributesKeepTypes == Spec => []TypeOK
  BY TypeInit, TypeNext, PTL DEF Spec

-----------------------------------------------------------------------------
(* Listing *)

\* listxattr, branch by branch, finds what getxattr finds, branch by branch.
LEMMA ListIsGet ==
  ASSUME NEW n \in Note
  PROVE  fuse_listxattr(n) = {a \in Attributes : value_of(n, a) # NoData}
  <1>0. n # RootNote
    BY AttributesAssumption
  <1>1. n.uid # NoData
    BY AttributesAssumption DEF Note
  <1>2. ASSUME NEW a \in Attributes
        PROVE  a \in fuse_listxattr(n) <=> value_of(n, a) # NoData
    <2>1. CASE a \in Custom
      BY <1>0, <2>1, KindsOfAttributes DEF fuse_listxattr, value_of
    <2>2. CASE a \in Foreign \cup {"sibling"}
      BY <2>2, KindsOfAttributes DEF fuse_listxattr, value_of
    <2>3. CASE a \in {"categories", "dtstart", "class", "status", "uid"}
      <3>1. value_of(n, a) = builtin_value(n, a)
        BY <1>0, <2>3, KindsOfAttributes DEF value_of
      <3>2. builtin_value(n, "uid") = n.uid
        BY DEF builtin_value
      <3> QED
        BY <1>1, <2>3, <3>1, <3>2, KindsOfAttributes DEF fuse_listxattr
    <2> QED
      BY <2>1, <2>2, <2>3, KindsOfAttributes
  <1>3. fuse_listxattr(n) \subseteq Attributes
    BY DEF fuse_listxattr, Attributes, Builtin
  <1> QED
    BY <1>2, <1>3

-----------------------------------------------------------------------------
(* The promises of the manual *)

\* What getxattr reads of a note.
values(n) == [a \in Attributes |-> value_of(n, a)]

\* getxattr reads the property of the attribute and no other.
LEMMA ReadsOneProperty ==
  ASSUME NEW n \in Note, NEW a \in Attributes
  PROVE  /\ a = "categories" => value_of(n, a) = n.categories
         /\ a = "class" => value_of(n, a) = get_node_class(n)
         /\ a = "status" => value_of(n, a) = format_ical_status(n.status)
         /\ a = "dtstart" => value_of(n, a) = n.dtstart
         /\ a = "uid" => value_of(n, a) = n.uid
         /\ a \in Custom => value_of(n, a) = n.custom[a]
         /\ a \in Foreign \cup {"sibling"} => value_of(n, a) = NoData
  <1>1. n # RootNote
    BY AttributesAssumption
  <1> QED
    BY <1>1, KindsOfAttributes DEF value_of, builtin_value

\* Two notes that differ in one property differ in what one attribute reads.
LEMMA OneValueChanges ==
  ASSUME NEW n \in Note, NEW m \in Note, NEW attr \in Attributes, NEW v,
         value_of(m, attr) = v,
         attr = "categories" \/ m.categories = n.categories,
         attr = "class" \/ get_node_class(m) = get_node_class(n),
         attr = "status" \/ m.status = n.status,
         attr = "dtstart" \/ m.dtstart = n.dtstart,
         m.uid = n.uid,
         \A k \in Custom : attr = k \/ m.custom[k] = n.custom[k]
  PROVE  values(m) = [values(n) EXCEPT ![attr] = v]
  <1>1. ASSUME NEW a \in Attributes, a # attr
        PROVE  value_of(m, a) = value_of(n, a)
    <2>1. CASE a \in Custom
      BY <1>1, <2>1, ReadsOneProperty
    <2>2. CASE a \in Foreign \cup {"sibling"}
      BY <2>2, ReadsOneProperty
    <2>3. CASE a \in {"categories", "class", "status", "dtstart", "uid"}
      BY <1>1, <2>3, ReadsOneProperty
    <2> QED
      BY <2>1, <2>2, <2>3, KindsOfAttributes
  <1> QED
    BY <1>1 DEF values

\* A request that is answered with OK and does not deviate changes what its
\* attribute reads into the value, and nothing else.
LEMMA SetKeepsPromise ==
  ASSUME NEW n \in Note, NEW attr \in Attributes, NEW value \in Values,
         set_error(attr, value) = "OK",
         ~(attr = "dtstart" /\ value = Empty),
         ~(attr = "class" /\ n.class = <<>>),
         ~(attr = "status" /\ value \notin StatusNames)
  PROVE  values(set_attribute(n, attr, value))
           = [values(n) EXCEPT ![attr] = IF value = Empty THEN NoData ELSE value]
  <1> DEFINE m == set_attribute(n, attr, value)
             v == IF value = Empty THEN NoData ELSE value
  <1> SUFFICES values(m) = [values(n) EXCEPT ![attr] = v]
    OBVIOUS
  <1> HIDE DEF m, v
  <1>0. /\ m \in Note /\ attr \in Custom \cup {"categories", "class", "status", "dtstart"}
        /\ Empty \notin ClassNames \cup StatusNames
    BY SetGivesNote, Accepted, AttributesAssumption DEF m
  <1>1. CASE attr = "categories"
    <2>1. m = [n EXCEPT !.categories = v]
      BY <1>1, SetBranches DEF stored, m, v
    <2>2. /\ m.categories = v /\ m.status = n.status /\ m.dtstart = n.dtstart
          /\ m.uid = n.uid /\ m.class = n.class /\ m.custom = n.custom
      BY <2>1 DEF Note
    <2>3. value_of(m, attr) = v
      BY <1>0, <1>1, <2>2, ReadsOneProperty
    <2> QED
      BY <1>0, <1>1, <2>2, <2>3, OneValueChanges DEF get_node_class
  <1>2. CASE attr = "class"
    <2>1. value \in ClassNames /\ n.class # <<>>
      BY <1>2, Accepted
    <2>2. m = [n EXCEPT !.class = [@ EXCEPT ![1] = value]]
      <3>1. m = set_node_class(n, value)
        BY <1>2, <2>1, SetBranches DEF parse_ical_class, m
      <3> QED
        BY <2>1, <3>1, ChangedClass
    <2>3. /\ m.class = [n.class EXCEPT ![1] = value]
          /\ m.status = n.status /\ m.dtstart = n.dtstart
          /\ m.uid = n.uid /\ m.categories = n.categories /\ m.custom = n.custom
      BY <2>2 DEF Note
    <2>4. get_node_class(m) = value
      <3>1. n.class \in Seq(ClassNames)
        BY DEF Note
      <3>2. Len(n.class) \in Nat /\ Len(n.class) # 0
        BY <2>1, <3>1, EmptySeq, LenProperties
      <3>3. 1 \in 1 .. Len(n.class)
        BY <3>2
      <3>4. m.class \in Seq(ClassNames) /\ Len(m.class) = Len(n.class)
            /\ m.class[1] = value
        BY <2>1, <2>3, <3>1, <3>3, ExceptSeq
      <3>5. m.class # <<>>
        BY <3>2, <3>4, EmptySeq
      <3> QED
        BY <3>4, <3>5 DEF get_node_class
    <2>5. value_of(m, attr) = v
      BY <1>0, <1>2, <2>1, <2>4, ReadsOneProperty DEF v
    <2> QED
      BY <1>0, <1>2, <2>3, <2>5, OneValueChanges
  <1>3. CASE attr = "status"
    <2>1. value \in StatusNames /\ parse_ical_status(value) = value
      BY <1>3 DEF parse_ical_status, StatusNames
    <2>2. m = [n EXCEPT !.status = value]
      BY <1>3, <2>1, SetBranches DEF m
    <2>3. /\ m.status = value /\ m.categories = n.categories
          /\ m.dtstart = n.dtstart
          /\ m.uid = n.uid /\ m.class = n.class /\ m.custom = n.custom
      BY <2>2 DEF Note
    <2>4. value_of(m, attr) = v
      BY <1>0, <1>3, <2>1, <2>3, ReadsOneProperty
         DEF format_ical_status, v
    <2> QED
      BY <1>0, <1>3, <2>3, <2>4, OneValueChanges DEF get_node_class
  <1>4. CASE attr = "dtstart"
    <2>1. m = [n EXCEPT !.dtstart = value] /\ v = value
      BY <1>4, SetBranches DEF m, v
    <2>2. /\ m.dtstart = value /\ m.status = n.status
          /\ m.categories = n.categories
          /\ m.uid = n.uid /\ m.class = n.class /\ m.custom = n.custom
      BY <2>1 DEF Note
    <2>3. value_of(m, attr) = v
      BY <1>0, <1>4, <2>1, <2>2, ReadsOneProperty
    <2> QED
      BY <1>0, <1>4, <2>2, <2>3, OneValueChanges DEF get_node_class
  <1>5. CASE attr \in Custom
    <2>1. m = [n EXCEPT !.custom[attr] = v]
      BY <1>5, SetBranches DEF stored, m, v
    <2>2. /\ m.custom[attr] = v
          /\ \A k \in Custom : attr = k \/ m.custom[k] = n.custom[k]
          /\ m.status = n.status /\ m.categories = n.categories
          /\ m.uid = n.uid /\ m.class = n.class /\ m.dtstart = n.dtstart
      BY <1>5, <2>1 DEF Note
    <2>3. value_of(m, attr) = v
      BY <1>0, <1>5, <2>2, ReadsOneProperty
    <2> QED
      BY <1>0, <2>2, <2>3, OneValueChanges DEF get_node_class
  <1> QED
    BY <1>0, <1>1, <1>2, <1>3, <1>4, <1>5

LEMMA RemoveKeepsPromise ==
  ASSUME NEW n \in Note, NEW attr \in Attributes,
         remove_error(attr) = "OK", attr \notin {"dtstart", "class", "uid"}
  PROVE  values(remove_attribute(n, attr)) = [values(n) EXCEPT ![attr] = NoData]
  <1> DEFINE m == remove_attribute(n, attr)
  <1> SUFFICES values(m) = [values(n) EXCEPT ![attr] = NoData]
    OBVIOUS
  <1> HIDE DEF m
  <1>0. m \in Note /\ attr \in Custom \cup {"categories", "sibling"}
    BY RemoveGivesNote, KindsOfAttributes DEF remove_error, m
  <1>1. CASE attr = "categories"
    <2>1. m = [n EXCEPT !.categories = NoData]
      BY <1>1, RemoveBranches DEF m
    <2>2. /\ m.categories = NoData /\ m.status = n.status /\ m.dtstart = n.dtstart
          /\ m.uid = n.uid /\ m.class = n.class /\ m.custom = n.custom
      BY <2>1 DEF Note
    <2>3. value_of(m, attr) = NoData
      BY <1>0, <1>1, <2>2, ReadsOneProperty
    <2> QED
      BY <1>0, <1>1, <2>2, <2>3, OneValueChanges DEF get_node_class
  <1>2. CASE attr = "sibling"
    <2>1. m = n
      BY <1>2, RemoveBranches DEF m
    <2>2. value_of(m, attr) = NoData
      BY <1>0, <1>2, ReadsOneProperty
    <2> QED
      BY <1>0, <2>1, <2>2, OneValueChanges
  <1>3. CASE attr \in Custom
    <2>1. m = [n EXCEPT !.custom[attr] = NoData]
      BY <1>3, RemoveBranches DEF m
    <2>2. /\ m.custom[attr] = NoData
          /\ \A k \in Custom : attr = k \/ m.custom[k] = n.custom[k]
          /\ m.status = n.status /\ m.categories = n.categories
          /\ m.uid = n.uid /\ m.class = n.class /\ m.dtstart = n.dtstart
      BY <1>3, <2>1 DEF Note
    <2>3. value_of(m, attr) = NoData
      BY <1>0, <1>3, <2>2, ReadsOneProperty
    <2> QED
      BY <1>0, <2>2, <2>3, OneValueChanges DEF get_node_class
  <1> QED
    BY <1>0, <1>1, <1>2, <1>3

\* What the checks refuse the manual refuses, and the other way round, but for
\* a value of exactly 64 kilobytes and the values that deviate.
LEMMA SameRefusals ==
  ASSUME NEW attr \in Attributes, NEW value \in Values
  PROVE  /\ set_error(attr, value) \in {"OK", "EPERM", "EINVAL", "EMSGSIZE"}
         /\ set_error(attr, value) # "OK" /\ ValueLength[value] # 64 * 1024 =>
              ~Promised!Acceptable(attr, value)
         /\ set_error(attr, value) = "OK" =>
              \/ attr = "status" /\ value \notin StatusNames
              \/ Promised!Acceptable(attr, value)
  <1>0. NameLength[attr] \in Nat /\ ValueLength[value] \in Nat
    BY AttributesAssumption
  <1>1. /\ DOMAIN Promised!Allowed = {"class", "status", "dtstart"}
        /\ Promised!Allowed["class"] = ClassNames
        /\ Promised!Allowed["status"] = StatusNames
        /\ Promised!Allowed["dtstart"] = Dates \cup {Empty}
    BY DEF Promised!Allowed, ClassNames, StatusNames
  <1>2. set_error(attr, value) \in {"OK", "EPERM", "EINVAL", "EMSGSIZE"}
    BY DEF set_error
  <1>3. ASSUME set_error(attr, value) # "OK", ValueLength[value] # 64 * 1024
        PROVE  ~Promised!Acceptable(attr, value)
    <2>1. CASE NameLength[attr] >= 256 \/ ValueLength[value] >= 64 * 1024
      BY <1>0, <1>3, <2>1 DEF Promised!Acceptable
    <2>2. CASE attr \in {"uid", "sibling"} \cup Foreign
      BY <2>2 DEF Promised!Acceptable
    <2>3. CASE attr = "dtstart" /\ value \notin Dates \cup {Empty}
      BY <1>1, <2>3 DEF Promised!Acceptable
    <2>4. CASE attr = "class" /\ parse_ical_class(value) = NoData
      <3>1. value \notin ClassNames
        BY <2>4, AttributesAssumption DEF parse_ical_class
      <3> QED
        BY <1>1, <2>4, <3>1 DEF Promised!Acceptable
    <2>5. parse_ical_status(value) # NoData
      BY AttributesAssumption DEF parse_ical_status, StatusNames
    <2> QED
      BY <1>3, <2>1, <2>2, <2>3, <2>4, <2>5 DEF set_error
  <1>4. ASSUME set_error(attr, value) = "OK",
               ~(attr = "status" /\ value \notin StatusNames)
        PROVE  Promised!Acceptable(attr, value)
    <2>1. /\ attr \in Custom \cup {"categories", "class", "status", "dtstart"}
          /\ attr = "class" => value \in ClassNames
          /\ attr = "dtstart" => value \in Dates \cup {Empty}
          /\ NameLength[attr] < 256 /\ ValueLength[value] < 64 * 1024
      BY <1>4, Accepted
    <2>2. attr \notin {"uid", "sibling"} \cup Foreign
      BY <2>1, KindsOfAttributes
    <2>3. attr \in DOMAIN Promised!Allowed => value \in Promised!Allowed[attr]
      BY <1>1, <1>4, <2>1
    <2>4. NameLength[attr] <= 255 /\ ValueLength[value] <= 64 * 1024
      BY <1>0, <2>1
    <2> QED
      BY <2>2, <2>3, <2>4 DEF Promised!Acceptable
  <1> QED
    <2>1. set_error(attr, value) # "OK" /\ ValueLength[value] # 64 * 1024 =>
            ~Promised!Acceptable(attr, value)
      BY <1>3
    <2>2. set_error(attr, value) = "OK" =>
            \/ attr = "status" /\ value \notin StatusNames
            \/ Promised!Acceptable(attr, value)
      BY <1>4
    <2> QED
      BY <1>2, <2>1, <2>2

LEMMA SetIsPromised ==
  ASSUME TypeOK, note # RootNote, NEW attr \in Attributes, NEW value \in Values,
         FuseSetxattr(attr, value), ~Deviates(reply')
  PROVE  Promised!Set(attr, value)
  <1> DEFINE answer(result) ==
        [op |-> "set", attr |-> attr, value |-> value, result |-> result]
  <1>0. note \in Note
    BY DEF TypeOK
  <1>1. CASE set_error(attr, value) # "OK"
    <2>1. reply' = answer(set_error(attr, value)) /\ note' = note
      BY <1>1 DEF FuseSetxattr, Reply
    <2>2. ValueLength[value] # 64 * 1024
      BY <2>1 DEF Deviates
    <2>3. ~Promised!Acceptable(attr, value)
      BY <1>1, <2>2, SameRefusals
    <2>4. set_error(attr, value) \in {"EPERM", "EINVAL", "EMSGSIZE"}
      BY <1>1, SameRefusals
    <2>5. UNCHANGED values(note)
      BY <2>1
    <2> QED
      BY <2>1, <2>3, <2>4, <2>5 DEF Promised!Set, values
  <1>2. CASE set_error(attr, value) = "OK"
    <2>1. \/ note' = set_attribute(note, attr, value) /\ reply' = answer("OK")
          \/ UNCHANGED note /\ reply' = answer("EIO")
      BY <1>2 DEF FuseSetxattr, AtRoot, Write, Reply
    <2>2. CASE UNCHANGED note /\ reply' = answer("EIO")
      <3>1. UNCHANGED values(note)
        BY <2>2
      <3> QED
        BY <2>2, <3>1 DEF Promised!Set, values
    <2>3. CASE note' = set_attribute(note, attr, value) /\ reply' = answer("OK")
      <3>1. /\ ~(attr = "dtstart" /\ value = Empty)
            /\ ~(attr = "class" /\ note.class = <<>>)
            /\ ~(attr = "status" /\ value \notin StatusNames)
        BY <2>3 DEF Deviates
      <3>2. Promised!Acceptable(attr, value)
        BY <1>2, <3>1, SameRefusals
      <3>3. values(set_attribute(note, attr, value))
              = [values(note) EXCEPT ![attr] = IF value = Empty THEN NoData ELSE value]
        BY <1>0, <1>2, <3>1, SetKeepsPromise
      <3>4. values(note)' = values(set_attribute(note, attr, value))
        BY <2>3
      <3> QED
        BY <2>3, <3>2, <3>3, <3>4 DEF Promised!Set, values
    <2> QED
      BY <2>1, <2>2, <2>3
  <1> QED
    BY <1>1, <1>2

LEMMA RemoveIsPromised ==
  ASSUME TypeOK, note # RootNote, NEW attr \in Attributes,
         FuseRemovexattr(attr), ~Deviates(reply')
  PROVE  Promised!Remove(attr)
  <1> DEFINE answer(result) ==
        [op |-> "remove", attr |-> attr, value |-> Empty, result |-> result]
  <1>0. note \in Note
    BY DEF TypeOK
  <1>1. CASE remove_error(attr) # "OK"
    <2>1. reply' = answer(remove_error(attr)) /\ note' = note
      BY <1>1 DEF FuseRemovexattr, Reply
    <2>2. /\ remove_error(attr) \in {"EPERM", "EINVAL"}
          /\ ~Promised!Removable(attr)
      BY <1>1 DEF remove_error, Promised!Removable
    <2>3. UNCHANGED values(note)
      BY <2>1
    <2> QED
      BY <2>1, <2>2, <2>3 DEF Promised!Remove, values
  <1>2. CASE remove_error(attr) = "OK"
    <2>1. \/ note' = remove_attribute(note, attr) /\ reply' = answer("OK")
          \/ UNCHANGED note /\ reply' = answer("EIO")
      BY <1>2 DEF FuseRemovexattr, AtRoot, Write, Reply
    <2>2. CASE UNCHANGED note /\ reply' = answer("EIO")
      <3>1. UNCHANGED values(note)
        BY <2>2
      <3> QED
        BY <2>2, <3>1 DEF Promised!Remove, values
    <2>3. CASE note' = remove_attribute(note, attr) /\ reply' = answer("OK")
      <3>1. attr \notin {"dtstart", "class", "uid"}
        BY <2>3 DEF Deviates
      <3>2. Promised!Removable(attr)
        BY <1>2, <3>1 DEF remove_error, Promised!Removable
      <3>3. values(remove_attribute(note, attr))
              = [values(note) EXCEPT ![attr] = NoData]
        BY <1>0, <1>2, <3>1, RemoveKeepsPromise
      <3>4. values(note)' = values(remove_attribute(note, attr))
        BY <2>3
      <3> QED
        BY <2>3, <3>2, <3>3, <3>4 DEF Promised!Remove, values
    <2> QED
      BY <2>1, <2>2, <2>3
  <1> QED
    BY <1>1, <1>2

\* A value is read whole when there is room for it and for the NUL.
LEMMA GetIsPromised ==
  ASSUME TypeOK, note # RootNote, NEW attr \in Attributes, NEW size \in Sizes,
         FuseGetxattr(attr, size), ~Deviates(reply')
  PROVE  Promised!Get(attr, size)
  <1> DEFINE v == value_of(note, attr)
  <1>1. /\ note' = note
        /\ reply' = [op |-> "get", attr |-> attr, size |-> size,
                     answer |-> fuse_getxattr(note, attr, size)]
    BY DEF FuseGetxattr
  <1>2. UNCHANGED values(note) /\ values(note)[attr] = v
    BY <1>1 DEF values
  <1>3. CASE v = NoData
    BY <1>1, <1>2, <1>3 DEF Promised!Get, fuse_getxattr, values
  <1>4. CASE v # NoData
    <2>1. ValueLength[v] \in Nat /\ size \in Nat
      <3>1. v \in Values
        BY <1>4, AValue DEF TypeOK
      <3> QED
        BY <3>1, AttributesAssumption
    <2>2. fuse_getxattr(note, attr, size)
            = [result |-> "OK", length |-> ValueLength[v],
               content |-> snprintf(v, size)]
      BY <1>4 DEF fuse_getxattr
    <2>3. size = 0 \/ size > ValueLength[v]
      BY <1>1, <2>1, <2>2 DEF Deviates
    <2>4. snprintf(v, size) = IF size = 0 THEN NoData ELSE v
      BY <2>3 DEF snprintf
    <2>5. Promised!Answer(v, ValueLength[v], size)
            = [result |-> "OK", length |-> ValueLength[v],
               content |-> IF size = 0 THEN NoData ELSE v]
      BY <2>1, <2>3 DEF Promised!Answer
    <2> QED
      BY <1>1, <1>2, <1>4, <2>2, <2>4, <2>5 DEF Promised!Get, values
  <1> QED
    BY <1>3, <1>4

\* A list is right when the buffer is not too small and the daemon survives.
LEMMA ListIsPromised ==
  ASSUME TypeOK, note # RootNote, NEW size \in Sizes,
         FuseListxattr(size), ~Deviates(reply')
  PROVE  Promised!List(size)
  <1> DEFINE names == fuse_listxattr(note)
             length == ListLength[names]
  <1>0. Promised!Attributes = Attributes
    BY DEF Promised!Attributes, Attributes, Builtin
  <1>1. names = {a \in Attributes : values(note)[a] # NoData}
    BY ListIsGet DEF TypeOK, values
  <1>2. length \in Nat /\ size \in Nat
    <2>1. names \in SUBSET Attributes
      BY <1>1
    <2> QED
      BY <2>1, AttributesAssumption
  <1> HIDE DEF names
  <1>3. UNCHANGED values(note)
    BY DEF FuseListxattr
  <1>4. /\ reply' = [op |-> "list", size |-> size,
                     answer |-> [result |-> "OK", length |-> length,
                       content |-> IF size = 0 THEN NoData ELSE names]]
        /\ size = 0 \/ size >= length
    <2>1. CASE /\ size \notin {0, length, length + 1}
               /\ reply' = [op |-> "list", size |-> size,
                           answer |-> [result |-> "none", length |-> length,
                                       content |-> NoData]]
      <3>1. Deviates(reply')
        BY <1>2, <2>1 DEF Deviates
      <3> QED
        BY <3>1
    <2>2. CASE reply' = [op |-> "list", size |-> size,
                         answer |-> [result |-> "OK", length |-> length,
                           content |-> IF size = 0 THEN NoData ELSE names]]
      <3>1. ~(size # 0 /\ size < length)
        BY <2>2 DEF Deviates
      <3> QED
        BY <1>2, <2>2, <3>1
    <2> QED
      BY <2>1, <2>2 DEF FuseListxattr, names
  <1>5. Promised!Answer(names, length, size)
          = [result |-> "OK", length |-> length,
             content |-> IF size = 0 THEN NoData ELSE names]
    BY <1>2, <1>4 DEF Promised!Answer
  <1> QED
    BY <1>0, <1>1, <1>3, <1>4, <1>5 DEF Promised!List, values

\* Every request on a note, but the few that Deviates names, is a step of the
\* store that the manual pages promise: fuse_setxattr and fuse_removexattr accept
\* what is allowed, refuse the rest, change what the attribute reads and leave
\* every other attribute alone; fuse_getxattr and fuse_listxattr, with a buffer
\* that is large enough, give what was set; also after any requests that deviated.
THEOREM AttributesKeepPromises == Spec => KeepsAttributes
  <1>1. ASSUME TypeOK, [Next]_vars
        PROVE  [note = RootNote \/ Deviates(reply') \/ Promised!Next]_vars
    <2>0. Promised!Attributes = Attributes
      BY DEF Promised!Attributes, Attributes, Builtin
    <2> SUFFICES ASSUME Next, note # RootNote, ~Deviates(reply')
                 PROVE  Promised!Next
      BY <1>1
    <2>1. ASSUME NEW r \in SetRequests, FuseSetxattr(r[1], r[2])
          PROVE  Promised!Next
      <3>1. r[1] \in Attributes /\ r[2] \in Values
        BY AttributesAssumption
      <3>2. Promised!Set(r[1], r[2])
        BY <1>1, <2>1, <3>1, SetIsPromised
      <3> QED
        BY <2>0, <3>1, <3>2 DEF Promised!Next
    <2>2. ASSUME NEW attr \in RemoveRequests, FuseRemovexattr(attr)
          PROVE  Promised!Next
      <3>1. attr \in Attributes
        BY AttributesAssumption
      <3>2. Promised!Remove(attr)
        BY <1>1, <2>2, <3>1, RemoveIsPromised
      <3> QED
        BY <2>0, <3>1, <3>2 DEF Promised!Next
    <2>3. ASSUME NEW attr \in GetRequests, NEW size \in Sizes,
                 FuseGetxattr(attr, size)
          PROVE  Promised!Next
      <3>1. attr \in Attributes
        BY AttributesAssumption
      <3>2. Promised!Get(attr, size)
        BY <1>1, <2>3, <3>1, GetIsPromised
      <3> QED
        BY <2>0, <3>1, <3>2 DEF Promised!Next
    <2>4. ASSUME NEW size \in Sizes, FuseListxattr(size)
          PROVE  Promised!Next
      BY <1>1, <2>4, ListIsPromised DEF Promised!Next
    <2> QED
      BY <2>1, <2>2, <2>3, <2>4 DEF Next
  <1> QED
    BY <1>1, AttributesKeepTypes, PTL DEF KeepsAttributes, Spec

=============================================================================
