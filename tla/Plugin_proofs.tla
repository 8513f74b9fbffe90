---------- MODULE Plugin_proofs ----------
(* Proofs about what stands between the server and a plugin: the gate of its operations, the
   manager of its process, and the SDK inside the process.  Each is proved about on its own. *)
EXTENDS Platform, Sequences, FiniteSetTheorems, TLAPS

------------------------------------------------------------------------------
\* The operation gate excludes operations on one plugin from each other, for every set of calls and
\* plugins.  The calls that refer to a plugin all refer to the entry that is in the map, because the
\* counter of an entry is the number of its users and the entry is deleted only by the last one; and
\* the value in the channel of an entry belongs to the one call that is inside.

\* Who refers to an entry refers to the one in the map for its plugin.
Refers ==
  /\ \A a \in Acquisitions :
       pc[a] \in Referring =>
         entryOf[a] \in Acquisitions /\ entries[PluginOf[a]] = entryOf[a]
  /\ \A p \in Plugins :
       entries[p] # None =>
         \E a \in Acquisitions : pc[a] \in Referring /\ PluginOf[a] = p

\* No two plugins share an entry: an entry is named after a call for its plugin.
OwnEntry == \A p \in Plugins : entries[p] # None => PluginOf[entries[p]] = p

\* The counter of an entry is the number of its users.
Counted == \A e \in Acquisitions : references[e] = Cardinality(Users(e))

\* The value in the channel of an entry is that of the call inside.
Channel ==
  /\ \A a \in Acquisitions : pc[a] \in Inside => gate[entryOf[a]] = a

\* A nested call runs under a holder of its plugin.
Nested ==
  \A a \in Acquisitions :
    pc[a] = "nested" =>
      root[a] \in Acquisitions /\ pc[root[a]] = "held" /\ PluginOf[root[a]] = PluginOf[a]

IInv == TypeOK /\ Refers /\ OwnEntry /\ Counted /\ Channel /\ Nested

-----------------------------------------------------------------------------
(* Counting the users of an entry. *)

\* The users of an entry are finitely many, at most all the calls.
LEMMA UsersFinite ==
  ASSUME NEW e \in Acquisitions
  PROVE  /\ IsFiniteSet(Users(e))
         /\ Cardinality(Users(e)) \in Nat
         /\ Cardinality(Users(e)) <= Cardinality(Acquisitions)
  BY AcquisitionsAreFinite, FS_Subset, FS_CardinalityType DEF Users

\* A step of the call a that changes neither who refers to what nor the
\* counters keeps them equal.
LEMMA SameUsers ==
  ASSUME Counted, NEW a \in Acquisitions,
         \A b \in Acquisitions \ {a} : pc'[b] = pc[b] /\ entryOf'[b] = entryOf[b],
         pc[a] \in Referring <=> pc'[a] \in Referring,
         pc[a] \in Referring => entryOf'[a] = entryOf[a],
         references' = references
  PROVE  Counted'
  <1>1. \A e \in Acquisitions : Users(e)' = Users(e)
    BY DEF Users
  <1> QED
    BY <1>1 DEF Counted

\* A last user is alone: nobody else refers to its entry.
LEMMA LastIsAlone ==
  ASSUME Counted, NEW e \in Acquisitions, NEW a \in Users(e), LastReference(e)
  PROVE  Users(e) = {a}
  <1>1. Cardinality(Users(e)) = 1
    BY DEF Counted, LastReference
  <1>2. PICK x : Users(e) = {x}
    BY <1>1, UsersFinite, FS_Singleton
  <1> QED
    BY <1>2

\* Who is not the last user leaves another one behind.
LEMMA OthersRemain ==
  ASSUME Counted, NEW e \in Acquisitions, NEW a \in Users(e), ~LastReference(e)
  PROVE  \E b \in Users(e) : b # a
  <1>1. Cardinality(Users(e)) # 1
    BY DEF Counted, LastReference
  <1>2. Users(e) # {a}
    BY <1>1, FS_Singleton
  <1> QED
    BY <1>2

-----------------------------------------------------------------------------
(* The steps that change an entry. *)

\* Refer: the entry of the plugin gains a user and keeps its name.
LEMMA ReferKeeps ==
  ASSUME IInv, NEW a \in Acquisitions, Refer(a)
  PROVE  IInv'
  <1> DEFINE p == PluginOf[a]
  <1>a. p \in Plugins
    BY PluginOfIsAFunction
  <1>b. PICK e \in Acquisitions : e = IF entries[p] = None THEN a ELSE entries[p]
    BY <1>a DEF IInv, TypeOK
  <1>0. p \in Plugins /\ e \in Acquisitions
    BY <1>a
  <1>1. /\ pc[a] = "idle" /\ a \notin cancelled
        /\ entries' = [entries EXCEPT ![p] = e]
        /\ references' = [references EXCEPT ![e] = @ + 1]
        /\ entryOf' = [entryOf EXCEPT ![a] = e]
        /\ pc' = [pc EXCEPT ![a] = "waiting"]
        /\ UNCHANGED <<gate, root, cancelled>>
    BY <1>b DEF Refer, Goto
  <1>2. \A b \in Acquisitions \ {a} : pc'[b] = pc[b] /\ entryOf'[b] = entryOf[b]
    BY <1>1 DEF IInv, TypeOK
  <1>3. pc'[a] = "waiting" /\ entryOf'[a] = e /\ entries'[p] = e
    BY <1>0, <1>1 DEF IInv, TypeOK
  <1>4. PluginOf[e] = p
    BY <1>0, <1>b DEF IInv, OwnEntry
  <1>5. Counted'
    <2>1. Users(e)' = Users(e) \cup {a} /\ a \notin Users(e)
      BY <1>0, <1>1, <1>2, <1>3 DEF Users, Referring
    <2>2. \A f \in Acquisitions \ {e} : Users(f)' = Users(f)
      BY <1>0, <1>1, <1>2, <1>3 DEF Users, Referring
    <2>3. Cardinality(Users(e)') = Cardinality(Users(e)) + 1
      BY <1>0, <2>1, UsersFinite, FS_AddElement
    <2>4. references'[e] = references[e] + 1
          /\ \A f \in Acquisitions \ {e} : references'[f] = references[f]
      BY <1>0, <1>1 DEF IInv, TypeOK
    <2> QED
      BY <1>0, <2>2, <2>3, <2>4 DEF IInv, Counted
  <1>6. TypeOK'
    <2>1. references' \in [Acquisitions -> 0 .. Cardinality(Acquisitions)]
      <3>1. \A f \in Acquisitions : references'[f] \in 0 .. Cardinality(Acquisitions)
        <4>1. Cardinality(Acquisitions) \in Nat
          BY AcquisitionsAreFinite, FS_CardinalityType
        <4>2. \A f \in Acquisitions :
                 Cardinality(Users(f)') \in Nat
                 /\ Cardinality(Users(f)') <= Cardinality(Acquisitions)
          BY AcquisitionsAreFinite, FS_Subset, FS_CardinalityType DEF Users
        <4> QED
          BY <1>5, <4>1, <4>2 DEF Counted
      <3>2. references' = [f \in Acquisitions |-> references'[f]]
        BY <1>0, <1>1 DEF IInv, TypeOK
      <3> QED
        BY <3>1, <3>2
    <2>2. /\ pc' \in [Acquisitions -> Positions]
          /\ entries' \in [Plugins -> Acquisitions \cup {None}]
          /\ entryOf' \in [Acquisitions -> Acquisitions \cup {None}]
      BY <1>0, <1>1 DEF IInv, TypeOK, Positions
    <2> QED
      BY <1>1, <2>1, <2>2 DEF IInv, TypeOK
  <1>7. Refers'
    <2>1. ASSUME NEW b \in Acquisitions, pc'[b] \in Referring
          PROVE  entryOf'[b] \in Acquisitions /\ entries'[PluginOf[b]] = entryOf'[b]
      <3>1. CASE b = a
        BY <1>0, <1>3, <3>1
      <3>2. CASE b # a
        <4>1. entryOf[b] \in Acquisitions /\ entries[PluginOf[b]] = entryOf[b]
          BY <1>2, <2>1, <3>2 DEF IInv, Refers
        <4>2. entries'[PluginOf[b]] = entries[PluginOf[b]]
          BY <1>0, <1>1, <1>b, <4>1, NoneIsNoAcquisition, PluginOfIsAFunction
             DEF IInv, TypeOK
        <4> QED
          BY <1>2, <3>2, <4>1, <4>2
      <3> QED
        BY <3>1, <3>2
    <2>2. ASSUME NEW q \in Plugins, entries'[q] # None
          PROVE  \E b \in Acquisitions : pc'[b] \in Referring /\ PluginOf[b] = q
      <3>1. CASE q = p
        BY <1>3, <3>1 DEF Referring
      <3>2. CASE q # p
        <4>1. entries[q] # None
          BY <1>1, <2>2, <3>2 DEF IInv, TypeOK
        <4>2. PICK b \in Acquisitions : pc[b] \in Referring /\ PluginOf[b] = q
          BY <4>1 DEF IInv, Refers
        <4> QED
          BY <1>2, <3>2, <4>2
      <3> QED
        BY <3>1, <3>2
    <2> QED
      BY <2>1, <2>2 DEF Refers
  <1>8. OwnEntry'
    BY <1>0, <1>1, <1>3, <1>4 DEF IInv, TypeOK, OwnEntry
  <1>9. Channel'
    BY <1>1, <1>2, <1>3 DEF IInv, Channel, Inside
  <1>10. Nested'
    BY <1>1, <1>2, <1>3 DEF IInv, Nested
  <1> QED
    BY <1>5, <1>6, <1>7, <1>8, <1>9, <1>10 DEF IInv

\* Forget: the entry loses a user, and its place in the map with the last one.
LEMMA ForgetKeeps ==
  ASSUME IInv, NEW a \in Acquisitions, Forget(a)
  PROVE  IInv'
  <1> DEFINE p == PluginOf[a]
  <1>a. p \in Plugins
    BY PluginOfIsAFunction
  <1>b. pc[a] = "forgetting"
    BY DEF Forget
  <1>c. PICK e \in Acquisitions : e = entryOf[a] /\ entries[p] = e
    BY <1>b DEF IInv, Refers, Referring
  <1>1. /\ references' = [references EXCEPT ![e] = @ - 1]
        /\ entries' = [entries EXCEPT ![p] = IF LastReference(e) THEN None ELSE @]
        /\ pc' = [pc EXCEPT ![a] = "done"]
        /\ UNCHANGED <<gate, entryOf, root, cancelled>>
    BY <1>c DEF Forget, Goto
  <1>2. \A b \in Acquisitions \ {a} : pc'[b] = pc[b]
    BY <1>1 DEF IInv, TypeOK
  <1>3. pc'[a] = "done"
    BY <1>1 DEF IInv, TypeOK
  <1>4. a \in Users(e)
    BY <1>b, <1>c DEF Users, Referring
  <1>5. Users(e)' = Users(e) \ {a}
        /\ \A f \in Acquisitions \ {e} : Users(f)' = Users(f)
    BY <1>1, <1>2, <1>3, <1>c DEF Users, Referring
  <1>6. Counted'
    <2>1. Cardinality(Users(e)') = Cardinality(Users(e)) - 1
      BY <1>4, <1>5, UsersFinite, FS_RemoveElement
    <2>2. references'[e] = references[e] - 1
          /\ \A f \in Acquisitions \ {e} : references'[f] = references[f]
      BY <1>1 DEF IInv, TypeOK
    <2> QED
      BY <1>5, <2>1, <2>2 DEF IInv, Counted
  <1>7. TypeOK'
    <2>1. references' \in [Acquisitions -> 0 .. Cardinality(Acquisitions)]
      <3>1. \A f \in Acquisitions : references'[f] \in 0 .. Cardinality(Acquisitions)
        <4>1. Cardinality(Acquisitions) \in Nat
          BY AcquisitionsAreFinite, FS_CardinalityType
        <4>2. \A f \in Acquisitions :
                 Cardinality(Users(f)') \in Nat
                 /\ Cardinality(Users(f)') <= Cardinality(Acquisitions)
          BY AcquisitionsAreFinite, FS_Subset, FS_CardinalityType DEF Users
        <4> QED
          BY <1>6, <4>1, <4>2 DEF Counted
      <3>2. references' = [f \in Acquisitions |-> references'[f]]
        BY <1>1 DEF IInv, TypeOK
      <3> QED
        BY <3>1, <3>2
    <2>2. /\ pc' \in [Acquisitions -> Positions]
          /\ entries' \in [Plugins -> Acquisitions \cup {None}]
      BY <1>1, <1>a DEF IInv, TypeOK, Positions
    <2> QED
      BY <1>1, <2>1, <2>2 DEF IInv, TypeOK
  <1>8. ASSUME NEW b \in Acquisitions, pc'[b] \in Referring
        PROVE  /\ b # a /\ pc[b] \in Referring
               /\ entryOf[b] \in Acquisitions /\ entries[PluginOf[b]] = entryOf[b]
    BY <1>2, <1>3, <1>8 DEF IInv, Refers, Referring
  <1>9. Refers'
    <2>1. ASSUME NEW b \in Acquisitions, pc'[b] \in Referring
          PROVE  entryOf'[b] \in Acquisitions /\ entries'[PluginOf[b]] = entryOf'[b]
      <3>1. CASE PluginOf[b] # p
        BY <1>1, <1>8, <2>1, <3>1, PluginOfIsAFunction DEF IInv, TypeOK
      <3>2. CASE PluginOf[b] = p
        <4>1. b \in Users(e)
          BY <1>8, <1>c, <2>1, <3>2 DEF Users
        <4>2. ~LastReference(e)
          BY <1>4, <1>8, <2>1, <4>1, LastIsAlone DEF IInv
        <4> QED
          BY <1>1, <1>8, <1>a, <2>1, <3>2, <4>2 DEF IInv, TypeOK
      <3> QED
        BY <3>1, <3>2
    <2>2. ASSUME NEW q \in Plugins, entries'[q] # None
          PROVE  \E b \in Acquisitions : pc'[b] \in Referring /\ PluginOf[b] = q
      <3>1. CASE q = p
        <4>1. ~LastReference(e)
          BY <1>1, <1>a, <2>2, <3>1 DEF IInv, TypeOK
        <4>2. PICK b \in Users(e) : b # a
          BY <1>4, <4>1, OthersRemain DEF IInv
        <4>3. b \in Acquisitions /\ pc[b] \in Referring /\ entryOf[b] = e
          BY <4>2 DEF Users
        <4>4. entries[PluginOf[b]] = e
          BY <4>3 DEF IInv, Refers
        <4>5. PluginOf[e] = p /\ PluginOf[e] = PluginOf[b]
          BY <1>a, <1>c, <4>3, <4>4, PluginOfIsAFunction, NoneIsNoAcquisition
             DEF IInv, OwnEntry
        <4> QED
          BY <1>2, <3>1, <4>2, <4>3, <4>5
      <3>2. CASE q # p
        <4>1. entries[q] # None
          BY <1>1, <2>2, <3>2 DEF IInv, TypeOK
        <4>2. PICK b \in Acquisitions : pc[b] \in Referring /\ PluginOf[b] = q
          BY <4>1 DEF IInv, Refers
        <4> QED
          BY <1>2, <3>2, <4>2
      <3> QED
        BY <3>1, <3>2
    <2> QED
      BY <2>1, <2>2 DEF Refers
  <1>10. OwnEntry'
    BY <1>1, <1>a DEF IInv, TypeOK, OwnEntry
  <1>11. Channel'
    BY <1>1, <1>2, <1>3 DEF IInv, Channel, Inside
  <1>12. Nested'
    BY <1>1, <1>2, <1>3, <1>b DEF IInv, Nested
  <1> QED
    BY <1>6, <1>7, <1>9, <1>10, <1>11, <1>12 DEF IInv

\* Enter: the channel was empty, so nobody else is inside.
LEMMA EnterKeeps ==
  ASSUME IInv, NEW a \in Acquisitions, Enter(a)
  PROVE  IInv'
  <1>1. entryOf[a] \in Acquisitions /\ pc[a] = "waiting" /\ gate[entryOf[a]] = None
    BY DEF Enter, IInv, Refers, Referring
  <1>2. TypeOK'
    BY <1>1 DEF Enter, Goto, IInv, TypeOK, Positions
  <1>3. Refers' /\ OwnEntry' /\ Nested'
    BY <1>1 DEF Enter, Goto, IInv, TypeOK, Refers, OwnEntry, Nested, Referring
  <1>4. Counted'
    BY <1>1, SameUsers DEF Enter, Goto, IInv, TypeOK, Referring
  <1>5. Channel'
    <2>1. ASSUME NEW b \in Acquisitions, pc'[b] \in Inside
          PROVE  gate'[entryOf'[b]] = b
      <3>1. CASE b = a
        BY <1>1, <3>1 DEF Enter, IInv, TypeOK
      <3>2. CASE b # a
        <4>1. pc[b] \in Inside /\ gate[entryOf[b]] = b
          BY <2>1, <3>2 DEF Enter, Goto, IInv, TypeOK, Channel
        <4>2. entryOf[b] # entryOf[a]
          BY <1>1, <4>1, NoneIsNoAcquisition
        <4>3. entryOf[b] \in Acquisitions
          BY <4>1 DEF IInv, Refers, Inside, Referring
        <4> QED
          BY <1>1, <4>1, <4>2, <4>3 DEF Enter, IInv, TypeOK
      <3> QED
        BY <3>1, <3>2
    <2> QED
      BY <2>1 DEF Channel
  <1> QED
    BY <1>2, <1>3, <1>4, <1>5 DEF IInv

\* Retract and Leave: the call inside takes its own value out of the channel.
LEMMA LeaveKeeps ==
  ASSUME IInv, NEW a \in Acquisitions, Retract(a) \/ Leave(a)
  PROVE  IInv'
  <1>1. /\ pc[a] \in {"entered", "closing"}
        /\ gate' = [gate EXCEPT ![entryOf[a]] = None]
        /\ pc' = [pc EXCEPT ![a] = "forgetting"]
        /\ UNCHANGED <<entries, references, entryOf, root, cancelled>>
    BY DEF Retract, Leave, Goto
  <1>2. entryOf[a] \in Acquisitions /\ gate[entryOf[a]] = a
    BY <1>1 DEF IInv, Refers, Referring, Channel, Inside
  <1>3. TypeOK'
    BY <1>1, <1>2 DEF IInv, TypeOK, Positions
  <1>4. Refers' /\ OwnEntry' /\ Nested'
    BY <1>1 DEF IInv, TypeOK, Refers, OwnEntry, Nested, Referring
  <1>5. Counted'
    BY <1>1, SameUsers DEF IInv, TypeOK, Referring
  <1>6. Channel'
    <2>1. ASSUME NEW b \in Acquisitions, pc'[b] \in Inside
          PROVE  gate'[entryOf'[b]] = b
      <3>1. b # a /\ pc[b] \in Inside
        BY <1>1, <2>1 DEF IInv, TypeOK, Inside
      <3>2. gate[entryOf[b]] = b /\ entryOf[b] \in Acquisitions
        BY <3>1 DEF IInv, Channel, Refers, Inside, Referring
      <3> QED
        BY <1>1, <1>2, <3>1, <3>2 DEF IInv, TypeOK
    <2> QED
      BY <2>1 DEF Channel
  <1> QED
    BY <1>3, <1>4, <1>5, <1>6 DEF IInv

\* The steps of a call that touch neither its entry nor the channel.
LEMMA WalkKeeps ==
  ASSUME IInv, NEW a \in Acquisitions,
         \/ Refuse(a) \/ GiveUp(a) \/ Confirm(a) \/ Release(a)
         \/ NestedReturn(a) \/ Cancel(a) \/ \E h \in Tokens : Reenter(a, h)
  PROVE  IInv'
  <1>1. CASE Refuse(a) \/ GiveUp(a) \/ Confirm(a) \/ Release(a) \/ NestedReturn(a)
    <2>1. /\ <<pc[a], pc'[a]>> \in
                {<<"idle", "done">>, <<"waiting", "forgetting">>, <<"entered", "held">>,
                 <<"held", "closing">>, <<"nested", "done">>}
          /\ pc' = [pc EXCEPT ![a] = pc'[a]]
          /\ UNCHANGED <<entries, references, gate, entryOf, root, cancelled>>
          /\ pc[a] = "held" => \A b \in Acquisitions : pc[b] = "nested" => root[b] # a
      BY <1>1 DEF Refuse, GiveUp, Confirm, Release, NestedReturn, Goto, IInv, TypeOK
    <2>2. TypeOK'
      BY <2>1 DEF IInv, TypeOK, Positions
    <2>3. Refers' /\ OwnEntry' /\ Channel'
      BY <2>1 DEF IInv, TypeOK, Refers, OwnEntry, Channel, Referring, Inside
    <2>4. Counted'
      BY <2>1, SameUsers DEF IInv, TypeOK, Referring
    <2>5. Nested'
      BY <2>1 DEF IInv, TypeOK, Nested
    <2> QED
      BY <2>2, <2>3, <2>4, <2>5 DEF IInv
  <1>2. CASE Cancel(a)
    BY <1>2 DEF Cancel, IInv, TypeOK, Refers, OwnEntry, Counted, Users, Channel, Nested
  <1>3. ASSUME NEW h \in Tokens, Reenter(a, h)
        PROVE  IInv'
    <2>1. /\ pc[a] = "idle" /\ pc' = [pc EXCEPT ![a] = "nested"]
          /\ root' = [root EXCEPT ![a] = h]
          /\ h \in Acquisitions /\ pc[h] = "held" /\ PluginOf[h] = PluginOf[a]
          /\ UNCHANGED <<entries, references, gate, entryOf, cancelled>>
      BY <1>3 DEF Reenter, LetsIn, Goto, Tokens
    <2>2. TypeOK'
      BY <2>1 DEF IInv, TypeOK, Positions
    <2>3. Refers' /\ OwnEntry' /\ Channel'
      BY <2>1 DEF IInv, TypeOK, Refers, OwnEntry, Channel, Referring, Inside
    <2>4. Counted'
      BY <2>1, SameUsers DEF IInv, TypeOK, Referring
    <2>5. Nested'
      BY <2>1 DEF IInv, TypeOK, Nested
    <2> QED
      BY <2>2, <2>3, <2>4, <2>5 DEF IInv
  <1> QED
    BY <1>1, <1>2, <1>3

-----------------------------------------------------------------------------

LEMMA InitInv == Init => IInv
  <1> SUFFICES ASSUME Init PROVE IInv
    OBVIOUS
  <1>1. TypeOK
    BY AcquisitionsAreFinite, FS_CardinalityType DEF Init, TypeOK, Positions
  <1>2. Counted
    <2>1. \A e \in Acquisitions : Users(e) = {}
      BY DEF Init, Users, Referring
    <2> QED
      BY <2>1, FS_EmptySet DEF Init, Counted
  <1> QED
    BY <1>1, <1>2 DEF Init, IInv, Refers, OwnEntry, Channel, Nested, Referring, Inside

LEMMA NextInv == IInv /\ [Next]_vars => IInv'
  <1> SUFFICES ASSUME IInv, [Next]_vars PROVE IInv'
    OBVIOUS
  <1>1. ASSUME NEW a \in Acquisitions, Begin(a) PROVE IInv'
    BY <1>1, ReferKeeps, WalkKeeps DEF Begin
  <1>2. ASSUME NEW a \in Acquisitions, Proceed(a) PROVE IInv'
    BY <1>2, EnterKeeps, LeaveKeeps, ForgetKeeps, WalkKeeps DEF Proceed
  <1>3. ASSUME NEW a \in Acquisitions, Cancel(a) PROVE IInv'
    BY <1>3, WalkKeeps
  <1>4. CASE UNCHANGED vars
    BY <1>4 DEF vars, IInv, TypeOK, Refers, OwnEntry, Counted, Users, Channel, Nested
  <1> QED
    BY <1>1, <1>2, <1>3, <1>4 DEF Next, Finished

LEMMA Invariant == Spec => []IInv
  BY InitInv, NextInv, PTL DEF Spec

\* Every reachable state of the gate is well typed: in particular no counter
\* of an entry goes below zero or above the number of calls.
THEOREM GateTyped == Spec => []TypeOK
  <1>1. IInv => TypeOK
    BY DEF IInv
  <1> QED
    BY <1>1, Invariant, PTL

\* OperationGate serialises the operations on a plugin: two that overlap are
\* an operation and one of its synchronous callbacks, for any number of calls.
THEOREM GateExcludes == Spec => []Exclusion
  <1>1. IInv => Exclusion
    <2> SUFFICES ASSUME IInv, NEW a \in Acquisitions, NEW b \in Acquisitions,
                        {pc[a], pc[b]} \subseteq {"held", "nested"},
                        PluginOf[a] = PluginOf[b]
                 PROVE  OwnerOf(a) = OwnerOf(b)
      BY DEF Exclusion
    <2>1. /\ OwnerOf(a) \in Acquisitions /\ pc[OwnerOf(a)] = "held"
          /\ PluginOf[OwnerOf(a)] = PluginOf[a]
      BY DEF OwnerOf, IInv, Nested
    <2>2. /\ OwnerOf(b) \in Acquisitions /\ pc[OwnerOf(b)] = "held"
          /\ PluginOf[OwnerOf(b)] = PluginOf[a]
      BY DEF OwnerOf, IInv, Nested
    <2>3. entryOf[OwnerOf(a)] = entryOf[OwnerOf(b)]
      BY <2>1, <2>2 DEF IInv, Refers, Referring
    <2> QED
      BY <2>1, <2>2, <2>3 DEF IInv, Channel, Inside
  <1> QED
    BY <1>1, Invariant, PTL

\* An entry is in the map exactly while calls refer to it, and its counter is
\* their number: gates are neither leaked nor deleted under a waiting call.
THEOREM EntriesAreCounted == Spec => []EntriesCounted
  <1>1. IInv => EntriesCounted
    <2> SUFFICES ASSUME IInv, NEW p \in Plugins, NEW e \in Acquisitions
                 PROVE  entries[p] = e <=> \E a \in Users(e) : PluginOf[a] = p
      BY DEF EntriesCounted, IInv, Counted
    <2>1. ASSUME entries[p] = e
          PROVE  \E a \in Users(e) : PluginOf[a] = p
      <3>1. PICK a \in Acquisitions : pc[a] \in Referring /\ PluginOf[a] = p
        BY <2>1, NoneIsNoAcquisition DEF IInv, Refers
      <3> QED
        BY <2>1, <3>1 DEF IInv, Refers, Users
    <2>2. ASSUME NEW a \in Users(e), PluginOf[a] = p
          PROVE  entries[p] = e
      BY <2>2 DEF IInv, Refers, Users
    <2> QED
      BY <2>1, <2>2
  <1> QED
    BY <1>1, Invariant, PTL

------------------------------------------------------------------------------
\* The plugin runtime: events, actions, frames and crashes are accounted for.

ManagerTypes ==
  /\ proc \in Processes \cup {0} /\ spawned \in Nat /\ snap \in Runtime!States
  /\ starting \in {"idle", "spawning", "init", "cleanup"}
  /\ stopping \in {"idle", "reconciling", "draining", "closing", "failing"}
  /\ os \in [Processes -> {"none", "running", "exited"}]
  /\ reader \in [Processes -> {"off", "reading", "ended"}]
  /\ crashes \in [Processes -> Nat]

DeliveryTypes ==
  /\ delivery \in [Events -> {"new", "registered", "waiting", "returned"}]
  /\ handle \in [Events -> Processes \cup {0}]
  /\ session \in [Events -> {"none", "pending", "closed"}]
  /\ outcome \in [Events -> {"none", "ok", "error"}]
  /\ result \in [Events -> {"none", "ok", "error", "detached"}]
  /\ finishes \in [Events -> Nat]
  /\ view \in [Events -> {"unknown", "open", "ended"}]
  /\ detached \subseteq Events

FrameTypes ==
  /\ executing \subseteq Events \X Runtime!Frames
  /\ asked \subseteq Runtime!Frames /\ answered \subseteq Runtime!Frames
  /\ out \in [Processes -> Seq(Runtime!Frames)]

\* Who holds the lifecycle gate, and what it found and keeps.
GateHeld ==
  /\ lifecycleGate = IF starting # "idle" THEN "start" ELSE IF stopping # "idle" THEN "stop" ELSE "free"
  /\ starting # "idle" => stopping = "idle"
  /\ starting = "spawning" => proc = 0 /\ snap = "starting" /\ spawned + 1 \in Processes
  /\ starting = "init" =>
       /\ proc = spawned /\ proc # 0 /\ snap = "starting" /\ proc \notin reaping
       /\ reader[proc] = "off" /\ \A e \in Events : handle[e] # proc
  /\ stopping # "idle" => spawned \in Processes
  /\ stopping = "reconciling" => os[spawned] = "exited"
  /\ stopping \in {"draining", "closing"} => restart = {} /\ snap # "running"

\* The current process is the last, and what is noted is of it.
ProcessesKept ==
  /\ proc # 0 => proc = spawned /\ crashes[proc] = 0
  /\ snap \in {"stopped", "crashed"} => proc = 0
  /\ \A p \in Processes : os[p] = "running" => proc = p
  /\ \A p \in Processes : p > spawned => os[p] = "none" /\ reader[p] = "off" /\ crashes[p] = 0
  /\ observed \subseteq {proc} /\ observed \subseteq reaping /\ restart \subseteq observed
  /\ \A p \in reaping : p \in Processes /\ p <= spawned
  /\ proc \in reaping => snap = "stopping"

\* An event that is pending is of the current process, which serves events.
EventsHeld ==
  /\ \A e \in Events : handle[e] <= spawned
  /\ \A e \in Events : session[e] = "pending" =>
       /\ handle[e] = proc /\ proc # 0 /\ proc \notin reaping
       /\ snap # "running" => stopping = "draining"

\* What the delivery of an event returns is how the event ended.
EventsEnd ==
  \A e \in Events :
    /\ delivery[e] = "new" <=> session[e] = "none"
    /\ delivery[e] # "new" => handle[e] # 0
    /\ delivery[e] = "returned" /\ e \notin detached => session[e] = "closed"
    /\ session[e] = "closed" <=> outcome[e] # "none"
    /\ delivery[e] = "registered" => outcome[e] # "ok"
    /\ e \in detached => delivery[e] \in {"waiting", "returned"}
    /\ view[e] = "open" => delivery[e] \in {"waiting", "returned"}
    /\ finishes[e] = IF e \in detached /\ session[e] = "closed" THEN 1 ELSE 0
    /\ delivery[e] = "returned" => result[e] = IF e \in detached THEN "detached" ELSE outcome[e]

\* The actions that wait for their answer are counted.
ActionsKept ==
  /\ pending \subseteq executing /\ IsFiniteSet(pending)
  /\ \A x \in executing : x \in pending <=> session[x[1]] = "pending"
  /\ \A x \in executing : session[x[1]] # "none"
  /\ pendingActions = Cardinality(pending) /\ pendingActions <= MaxPending

DetachedKept ==
  IsFiniteSet(detached) /\ Cardinality(Runtime!Pending \cap detached) <= MaxDetached

\* The frames in a pipe; each was sent once.
Pipe(s) == {s[i] : i \in 1 .. Len(s)}
SentOnce(s) == \A i, j \in 1 .. Len(s) : s[i] = s[j] => i = j

\* An event whose frames may be on the way has been written.
Told(e) == delivery[e] \in {"waiting", "returned"}

\* A frame on its way was not served, and a terminal is the last of its event.
FrameKept(p, f) ==
  /\ handle[f.event] = p /\ Told(f.event)
  /\ f \notin answered /\ \A x \in executing : x[2] # f
  /\ f.kind \in Runtime!Ids /\ view[f.event] = "open" => f \in asked
  /\ f.kind \in Terminals =>
       /\ view[f.event] = "ended"
       /\ \A g \in Pipe(out[p]) : g.event = f.event => g = f
       /\ \A x \in pending : x[2].event # f.event
FramesKept ==
  \A p \in Processes : SentOnce(out[p]) /\ \A f \in Pipe(out[p]) : FrameKept(p, f)

\* What is known of a frame that was served.
Served(f) ==
  /\ Told(f.event)
  /\ f.kind \in Terminals => view[f.event] = "ended"
  /\ f.kind \in Runtime!Ids /\ view[f.event] = "open" => f \in asked

\* Frames are served and answered once; without events one at a time, of the
\* event they name.
ServedOnce ==
  /\ \A x, y \in executing : x[2] = y[2] => x = y
  /\ \A x \in executing : Served(x[2])
  /\ \A x \in pending : x[2] \notin answered
  /\ \A f \in answered : Served(f)
  /\ Concurrency # 1 => \A x \in executing : x[1] = x[2].event

\* Of an event that the host has ended, only frames are on the way that the
\* reader of the current process will ignore.
Going(e, p) ==
  /\ handle[e] = p
  /\ \/ delivery[e] = "registered" \/ view[e] = "open"
     \/ \E f \in Pipe(out[p]) : f.event = e
LateFrames ==
  \A p \in Processes : proc = p /\ reader[p] = "reading" /\ p \notin observed =>
    \A e \in Events : Going(e, p) => session[e] = "pending" \/ e \in expired

RuntimeInv ==
  /\ ManagerTypes /\ DeliveryTypes /\ FrameTypes /\ GateHeld /\ ProcessesKept
  /\ EventsHeld /\ EventsEnd /\ ActionsKept /\ DetachedKept /\ FramesKept /\ ServedOnce
  /\ LateFrames /\ Runtime!ConformingSurvives

\* Cardinality is that of the library.
LEMMA RuntimeCardinality == \A S : Runtime!Cardinality(S) = Cardinality(S)
  BY Zenon DEF Runtime!Cardinality, Cardinality

\* What is left of a pipe when its first frame is read.
LEMMA PipeTail ==
  ASSUME NEW S, NEW s \in Seq(S), s # <<>>
  PROVE /\ Tail(s) \in Seq(S)
        /\ Head(s) \in Pipe(s) /\ Head(s) \in S
        /\ Pipe(Tail(s)) \subseteq Pipe(s)
        /\ SentOnce(s) => SentOnce(Tail(s)) /\ Head(s) \notin Pipe(Tail(s))
<1>1. Len(s) \in Nat /\ Len(s) >= 1 /\ 1 \in 1 .. Len(s) /\ Head(s) = s[1]
  OBVIOUS
<1>2. /\ Tail(s) \in Seq(S) /\ Len(Tail(s)) = Len(s) - 1
      /\ \A i \in 1 .. Len(Tail(s)) : i + 1 \in 1 .. Len(s) /\ Tail(s)[i] = s[i + 1]
  BY <1>1
<1>3. Pipe(Tail(s)) \subseteq Pipe(s) /\ Head(s) \in Pipe(s)
  BY <1>1, <1>2 DEF Pipe
<1>4. ASSUME SentOnce(s) PROVE SentOnce(Tail(s)) /\ Head(s) \notin Pipe(Tail(s))
  <2>1. SentOnce(Tail(s))
    <3> SUFFICES ASSUME NEW i \in 1 .. Len(Tail(s)), NEW j \in 1 .. Len(Tail(s)),
                        Tail(s)[i] = Tail(s)[j]
                 PROVE i = j
      BY DEF SentOnce
    <3>1. s[i + 1] = s[j + 1] /\ i + 1 \in 1 .. Len(s) /\ j + 1 \in 1 .. Len(s)
      BY <1>2
    <3>2. i + 1 = j + 1
      BY <1>4, <3>1, Zenon DEF SentOnce
    <3> QED
      BY <3>2
  <2>2. ASSUME NEW i \in 1 .. Len(Tail(s)), Head(s) = Tail(s)[i] PROVE FALSE
    <3>1. s[1] = s[i + 1] /\ i + 1 \in 1 .. Len(s)
      BY <1>1, <1>2, <2>2
    <3>2. 1 = i + 1
      BY <1>1, <1>4, <3>1, Zenon DEF SentOnce
    <3> QED
      BY <3>2
  <2> QED
    BY <2>1, <2>2 DEF Pipe
<1> QED
  BY <1>1, <1>2, <1>3, <1>4

\* A pipe that a frame is written to.
LEMMA PipeAppend ==
  ASSUME NEW S, NEW s \in Seq(S), NEW f \in S
  PROVE /\ Append(s, f) \in Seq(S)
        /\ Pipe(Append(s, f)) = Pipe(s) \cup {f}
        /\ SentOnce(s) /\ f \notin Pipe(s) => SentOnce(Append(s, f))
<1>1. /\ Append(s, f) \in Seq(S) /\ Len(s) \in Nat /\ Len(Append(s, f)) = Len(s) + 1
      /\ \A i \in 1 .. Len(s) : Append(s, f)[i] = s[i]
      /\ Append(s, f)[Len(s) + 1] = f
  OBVIOUS
<1>2. \A i \in 1 .. Len(Append(s, f)) : i \in 1 .. Len(s) \/ i = Len(s) + 1
  BY <1>1
<1>3. \A i \in 1 .. Len(s) : i \in 1 .. Len(Append(s, f))
  BY <1>1
<1>4. Len(s) + 1 \in 1 .. Len(Append(s, f))
  BY <1>1
<1>5. Pipe(Append(s, f)) = Pipe(s) \cup {f}
  BY <1>1, <1>2, <1>3, <1>4, Zenon DEF Pipe
<1>6. SentOnce(s) /\ f \notin Pipe(s) => SentOnce(Append(s, f))
  BY <1>1, <1>2, Zenon DEF Pipe, SentOnce
<1> QED
  BY <1>1, <1>5, <1>6

\* An empty pipe.
LEMMA PipeEmpty == \A S : /\ <<>> \in Seq(S) /\ Pipe(<<>>) = {} /\ SentOnce(<<>>)
  BY DEF Pipe, SentOnce

\* The pipes but for what is read from them.
OutShrinks ==
  /\ out' \in [Processes -> Seq(Runtime!Frames)]
  /\ \A q \in Processes :
       /\ Pipe(out'[q]) \subseteq Pipe(out[q])
       /\ SentOnce(out[q]) => SentOnce(out'[q])

\* A step that leaves the pipes alone.
LEMMA OutStays == ASSUME FrameTypes, UNCHANGED out PROVE OutShrinks
  BY DEF FrameTypes, OutShrinks

\* Reading takes the first frame of a pipe, and no other.
LEMMA OutTail ==
  ASSUME FrameTypes, NEW p \in Processes, out[p] # <<>>, Runtime!Consume(p)
  PROVE /\ OutShrinks /\ Head(out[p]) \in Pipe(out[p]) /\ Head(out[p]) \in Runtime!Frames
        /\ SentOnce(out[p]) => Head(out[p]) \notin Pipe(out'[p])
<1>1. out[p] \in Seq(Runtime!Frames) /\ out' = [out EXCEPT ![p] = Tail(out[p])]
  BY DEF FrameTypes, Runtime!Consume
<1>2. /\ Tail(out[p]) \in Seq(Runtime!Frames)
      /\ Head(out[p]) \in Pipe(out[p]) /\ Head(out[p]) \in Runtime!Frames
      /\ Pipe(Tail(out[p])) \subseteq Pipe(out[p])
      /\ SentOnce(out[p]) => SentOnce(Tail(out[p])) /\ Head(out[p]) \notin Pipe(Tail(out[p]))
  BY <1>1, PipeTail
<1>3. /\ out' \in [Processes -> Seq(Runtime!Frames)] /\ out'[p] = Tail(out[p])
      /\ \A q \in Processes : q # p => out'[q] = out[q]
  BY <1>1, <1>2, Zenon DEF FrameTypes
<1> QED
  BY <1>2, <1>3, Zenon DEF OutShrinks

\* A pipe is closed with all that is in it.
LEMMA OutClears ==
  ASSUME FrameTypes, NEW p, out' = [out EXCEPT ![p] = <<>>] PROVE OutShrinks
<1>1. /\ out' \in [Processes -> Seq(Runtime!Frames)]
      /\ \A q \in Processes : out'[q] = out[q] \/ out'[q] = <<>>
  BY PipeEmpty, Zenon DEF FrameTypes
<1> QED
  BY <1>1, PipeEmpty, Zenon DEF OutShrinks

\* Sessions of pending events are closed.
Shuts(es, how) ==
  /\ es \subseteq Runtime!Pending /\ how \in {"ok", "error"}
  /\ Runtime!CloseSessions(es, how)

\* The events and actions, but for the sessions that are closed.
LEMMA ClosingNothing ==
  ASSUME DeliveryTypes, ActionsKept, UNCHANGED <<session, pendingActions, pending, outcome,
                                                 finishes>>
  PROVE Shuts({}, "ok")
<1>1. Runtime!PendingOf({}) = {} /\ Runtime!Cardinality({}) = 0
  BY RuntimeCardinality, FS_EmptySet DEF Runtime!PendingOf
<1>2. /\ session' = [e \in Events |-> session[e]] /\ outcome' = [e \in Events |-> outcome[e]]
      /\ finishes' = [e \in Events |-> finishes[e]]
  BY DEF DeliveryTypes
<1>3. pendingActions \in Nat
  BY FS_CardinalityType DEF ActionsKept
<1> QED
  BY <1>1, <1>2, <1>3 DEF Shuts, Runtime!CloseSessions

\* What the closing of sessions makes of every session.
LEMMA ClosingEffect ==
  ASSUME DeliveryTypes, NEW es, NEW how, Shuts(es, how)
  PROVE /\ session' \in [Events -> {"none", "pending", "closed"}]
        /\ outcome' \in [Events -> {"none", "ok", "error"}]
        /\ finishes' \in [Events -> Nat]
        /\ \A e \in Events : e \in es =>
             session[e] = "pending" /\ session'[e] = "closed" /\ outcome'[e] = how
        /\ \A e \in Events : e \notin es => session'[e] = session[e] /\ outcome'[e] = outcome[e]
        /\ \A e \in Events :
             finishes'[e] = IF e \in es /\ e \in detached THEN finishes[e] + 1 ELSE finishes[e]
  BY DEF DeliveryTypes, Shuts, Runtime!CloseSessions, Runtime!Pending

\* The actions that wait are counted when sessions are closed, too.
LEMMA ClosingActions ==
  ASSUME ActionsKept, MaxPending \in Nat, DeliveryTypes, FrameTypes, NEW es, NEW how, Shuts(es, how)
  PROVE /\ pending' \subseteq pending /\ IsFiniteSet(pending')
        /\ \A x \in executing : x \in pending' <=> session'[x[1]] = "pending"
        /\ \A x \in executing : session'[x[1]] # "none"
        /\ pendingActions' = Cardinality(pending') /\ pendingActions' <= MaxPending
<1> DEFINE gone == Runtime!PendingOf(es)
<1>1. /\ pending' = pending \ gone /\ gone \subseteq pending
      /\ pendingActions' = pendingActions - Cardinality(gone)
  BY RuntimeCardinality DEF Shuts, Runtime!CloseSessions, Runtime!PendingOf
<1>2. IsFiniteSet(pending) /\ pendingActions = Cardinality(pending) /\ pendingActions <= MaxPending
  BY DEF ActionsKept
<1>3. IsFiniteSet(gone) /\ IsFiniteSet(pending')
  BY <1>1, <1>2, FS_Subset
<1>4. Cardinality(pending') = Cardinality(pending) - Cardinality(pending \cap gone)
  BY <1>1, <1>2, FS_Difference
<1>5. pending \cap gone = gone
  BY <1>1
<1>6. Cardinality(gone) \in Nat /\ Cardinality(pending') \in Nat /\ Cardinality(pending) \in Nat
  BY <1>2, <1>3, FS_CardinalityType
<1>7. pendingActions' = Cardinality(pending') /\ pendingActions' <= MaxPending
  BY <1>1, <1>2, <1>4, <1>5, <1>6
<1>8. ASSUME NEW x \in executing
      PROVE (x \in pending' <=> session'[x[1]] = "pending") /\ session'[x[1]] # "none"
  <2>1. x[1] \in Events
    BY DEF FrameTypes
  <2>2. /\ (x \in pending <=> session[x[1]] = "pending") /\ session[x[1]] # "none"
        /\ (x \in gone <=> x \in pending /\ x[1] \in es)
    BY DEF ActionsKept, Runtime!PendingOf
  <2> QED
    BY <1>1, <2>1, <2>2, ClosingEffect
<1> QED
  BY <1>1, <1>3, <1>7, <1>8
\* The manager of the process and its Start and Stop do nothing.
ManagerStays ==
  UNCHANGED <<proc, snap, spawned, lifecycleGate, starting, stopping, os, reader, observed,
              restart,
              reaping, crashes>>

\* Steps of events, frames and actions that do not fail.
EventSteps(e) ==
  \/ Runtime!Register(e) \/ Runtime!WriteEvent(e) \/ Runtime!Settle(e) \/ Runtime!Timeout(e)
  \/ Runtime!ExpireDetached(e) \/ Runtime!Plugin(e)
FrameSteps(p) ==
  \/ Runtime!IgnoreFrame(p) \/ Runtime!RouteTerminal(p) \/ Runtime!RouteAction(p)
  \/ (Runtime!RefuseAction(p) /\ Runtime!Writable(p)) \/ Runtime!DetachEvent(p)
Serving ==
  \/ \E e \in Events : EventSteps(e)
  \/ \E p \in Processes : FrameSteps(p)
  \/ \E x \in executing : Runtime!Answer(x) \/ Runtime!AnswerDropped(x)

\* Serving leaves the process and the manager alone.
LEMMA ServingStays == ASSUME Serving PROVE ManagerStays
<1> USE DEF Runtime!lifeVars, Runtime!handleVars, Runtime!failFrame, ManagerStays
<1>1. ASSUME NEW e \in Events, EventSteps(e) PROVE ManagerStays
  <2>1. CASE Runtime!Register(e) \/ Runtime!WriteEvent(e) \/ Runtime!Settle(e)
    BY <2>1 DEF Runtime!Register, Runtime!WriteEvent, Runtime!Settle
  <2>2. CASE Runtime!Timeout(e) \/ Runtime!ExpireDetached(e)
    BY <2>2 DEF Runtime!Timeout, Runtime!ExpireDetached
  <2>3. CASE Runtime!Plugin(e)
    BY <2>3 DEF Runtime!Plugin, Runtime!Ask, Runtime!End
  <2> QED
    BY <1>1, <2>1, <2>2, <2>3 DEF EventSteps
<1>2. ASSUME NEW p \in Processes, FrameSteps(p) PROVE ManagerStays
  <2>1. CASE Runtime!IgnoreFrame(p) \/ Runtime!RouteTerminal(p) \/ Runtime!RouteAction(p)
    BY <2>1 DEF Runtime!IgnoreFrame, Runtime!RouteTerminal, Runtime!RouteAction
  <2>2. CASE (Runtime!RefuseAction(p) /\ Runtime!Writable(p)) \/ Runtime!DetachEvent(p)
    BY <2>2 DEF Runtime!RefuseAction, Runtime!DetachEvent, Runtime!Reply
  <2> QED
    BY <1>2, <2>1, <2>2 DEF FrameSteps
<1>3. ASSUME NEW x \in executing, Runtime!Answer(x) \/ Runtime!AnswerDropped(x)
      PROVE ManagerStays
  BY <1>3 DEF Runtime!Answer, Runtime!AnswerDropped
<1> QED
  BY <1>1, <1>2, <1>3 DEF Serving

\* A failure of the process p, wherever it is met.
MetBy(p) ==
  \/ UNCHANGED <<starting, stopping>> /\ (proc = p => starting # "init")
  \/ starting = "init" /\ starting' = "cleanup" /\ UNCHANGED stopping
  \/ p = spawned /\ stopping # "idle" /\ stopping' = "failing" /\ UNCHANGED starting
Failing(p) ==
  /\ p \in Processes /\ p <= spawned /\ Runtime!FailRuntime(p) /\ MetBy(p)
  /\ UNCHANGED <<proc, lifecycleGate, spawned, os, crashes>>
  /\ reader' = reader \/ reader' = [reader EXCEPT ![p] = "ended"]

FailSteps ==
  \/ \E e \in Events : Runtime!WriteFails(e)
  \/ \E p \in Processes :
       \/ Runtime!RefuseAction(p) /\ ~Runtime!Writable(p)
       \/ Runtime!RefuseFrame(p) \/ Runtime!ReadGarbage(p)
  \/ \E x \in executing : Runtime!AnswerFails(x)
  \/ Runtime!InitFails \/ Runtime!StopTimeout

\* Every step that fails, fails the process it has met.
LEMMA FailStepsFail ==
  ASSUME Processes \subseteq Nat \ {0}, DeliveryTypes, FrameTypes, ManagerTypes, GateHeld,
         ProcessesKept, EventsEnd, EventsHeld, FailSteps
  PROVE \E p : Failing(p)
<1> USE DEF Runtime!lifeVars, Runtime!failFrame, Failing, MetBy
<1>1. ASSUME NEW e \in Events, Runtime!WriteFails(e) PROVE Failing(handle[e])
  <2>1. handle[e] \in Processes /\ handle[e] <= spawned
    BY <1>1 DEF Runtime!WriteFails, DeliveryTypes, EventsEnd, EventsHeld
  <2>2. Runtime!FailRuntime(handle[e]) /\ UNCHANGED <<proc, lifecycleGate, starting, stopping,
                                                      spawned, os, crashes, reader>>
    BY <1>1 DEF Runtime!WriteFails
  <2>3. proc = handle[e] => starting # "init"
    BY DEF GateHeld
  <2> QED
    BY <2>1, <2>2, <2>3
<1>2. ASSUME NEW p \in Processes, Runtime!RefuseAction(p) /\ ~Runtime!Writable(p)
      PROVE Failing(p)
  <2>1. (starting # "init" \/ proc # p) /\ p <= spawned
    BY <1>2 DEF Runtime!RefuseAction, Runtime!NextFrame, GateHeld, ProcessesKept, ManagerTypes
  <2>2. /\ Runtime!FailRuntime(p) /\ reader' = [reader EXCEPT ![p] = "ended"]
        /\ UNCHANGED <<proc, lifecycleGate, starting, stopping, spawned, os, crashes>>
    BY <1>2 DEF Runtime!RefuseAction, Runtime!Reply
  <2> QED
    BY <2>1, <2>2
<1>3. ASSUME NEW p \in Processes, Runtime!RefuseFrame(p) \/ Runtime!ReadGarbage(p)
      PROVE Failing(p)
  <2>1. (starting # "init" \/ proc # p) /\ p <= spawned
    BY <1>3 DEF Runtime!RefuseFrame, Runtime!ReadGarbage, Runtime!NextFrame, GateHeld,
                ProcessesKept, ManagerTypes
  <2>2. /\ Runtime!FailRuntime(p) /\ reader' = [reader EXCEPT ![p] = "ended"]
        /\ UNCHANGED <<proc, lifecycleGate, starting, stopping, spawned, os, crashes>>
    BY <1>3 DEF Runtime!RefuseFrame, Runtime!ReadGarbage
  <2> QED
    BY <2>1, <2>2
<1>4. ASSUME NEW x \in executing, Runtime!AnswerFails(x) PROVE Failing(handle[x[1]])
  <2>1. x[1] \in Events
    BY DEF FrameTypes
  <2>2. /\ handle[x[1]] \in Processes /\ (proc = handle[x[1]] => starting # "init")
        /\ handle[x[1]] <= spawned
    BY <1>4, <2>1 DEF Runtime!AnswerFails, EventsHeld, DeliveryTypes, GateHeld
  <2>3. /\ Runtime!FailRuntime(handle[x[1]])
        /\ UNCHANGED <<proc, lifecycleGate, starting, stopping, spawned, os, crashes, reader>>
    BY <1>4 DEF Runtime!AnswerFails
  <2> QED
    BY <2>2, <2>3
<1>5. CASE Runtime!InitFails
  <2>1. spawned \in Processes /\ spawned <= spawned
    BY <1>5 DEF Runtime!InitFails, GateHeld, ManagerTypes
  <2>2. Failing(spawned)
    BY <1>5, <2>1 DEF Runtime!InitFails
  <2> QED
    BY <2>2
<1>6. CASE Runtime!StopTimeout
  <2>1. spawned \in Processes /\ spawned <= spawned
    BY <1>6 DEF Runtime!StopTimeout, GateHeld, ManagerTypes
  <2>2. Failing(spawned)
    BY <1>6, <2>1 DEF Runtime!StopTimeout
  <2> QED
    BY <2>2
<1> QED
  BY <1>1, <1>2, <1>3, <1>4, <1>5, <1>6 DEF FailSteps

\* A failure closes the sessions if the process is the current one, and is ignored otherwise.
LEMMA FailEffect ==
  ASSUME NEW p, Failing(p)
  PROVE \/ /\ proc = p /\ snap' = "stopping" /\ observed' = observed \cup {p}
           /\ reaping' = reaping \cup {p} /\ UNCHANGED expired
           /\ restart' = IF p \notin observed /\ snap = "running" THEN restart \cup {p} ELSE restart
           /\ Shuts(Runtime!Pending, "error")
        \/ /\ proc # p
           /\ UNCHANGED <<snap, observed, reaping, restart, session, expired, pendingActions,
                          pending, outcome, finishes>>
  BY DEF Failing, Runtime!FailRuntime, Shuts, Runtime!sessionVars

\* The end of the process p: nothing is pending afterwards.
Retiring(p) ==
  /\ proc = p /\ proc' = 0 /\ snap' \in {"stopped", "crashed"}
  /\ observed' = observed \ {p} /\ restart' = restart \ {p}
  /\ out' = [out EXCEPT ![p] = <<>>]
  /\ crashes' = crashes \/ crashes' = [crashes EXCEPT ![p] = @ + 1]
  /\ UNCHANGED expired
  /\ Shuts(Runtime!Pending, "error")
NoEnd == UNCHANGED <<proc, snap, observed, restart, out, crashes, expired, session,
                     pendingActions, pending, outcome, finishes>>
Ending(p) ==
  /\ p \in Processes /\ os[p] = "exited" /\ p <= spawned
  /\ (Retiring(p) /\ starting # "init") \/ NoEnd
  /\ UNCHANGED <<spawned, starting, os, reader>>
  /\ \/ UNCHANGED <<lifecycleGate, stopping>>
     \/ stopping \in {"reconciling", "closing"} /\ stopping' = "idle" /\ lifecycleGate' = "free"
  /\ reaping' = reaping \/ (reaping' = reaping \ {p} /\ proc' # p)

EndSteps ==
  \/ \E p \in Processes : Runtime!Reap(p) \/ Runtime!Watch(p)
  \/ Runtime!StopReconcile \/ Runtime!StopDone

\* Where nothing is pending, nothing is closed.
LEMMA ClosingNone ==
  ASSUME DeliveryTypes, ActionsKept, Runtime!Pending = {},
         UNCHANGED <<session, pendingActions, pending, outcome, finishes>>
  PROVE Shuts(Runtime!Pending, "error")
<1>1. Runtime!CloseSessions({}, "ok")
  BY ClosingNothing DEF Shuts
<1>2. Runtime!CloseSessions({}, "error")
  BY <1>1, Zenon DEF Runtime!CloseSessions
<1> QED
  BY <1>2 DEF Shuts

\* No event is pending of a process that failed or does not run.
LEMMA NothingServed ==
  ASSUME DeliveryTypes, EventsHeld, proc \in reaping \/ (snap # "running" /\ stopping # "draining")
  PROVE Runtime!Pending = {}
  BY DEF EventsHeld, Runtime!Pending

\* When the reaping of a failed process ends, the process is retired unless it was before.
LEMMA FinishEnds ==
  ASSUME DeliveryTypes, ActionsKept, EventsHeld, ProcessesKept, NEW p, Runtime!FinishFailed(p),
         proc = p => p \in reaping \/ p \in observed, UNCHANGED Runtime!sessionVars
  PROVE (Retiring(p) /\ proc = p) \/ (NoEnd /\ proc # p)
<1> USE DEF Runtime!sessionVars
<1>1. CASE proc # p
  BY <1>1 DEF Runtime!FinishFailed, Runtime!currentVars, NoEnd
<1>2. CASE proc = p
  <2>1. Runtime!Pending = {}
    BY <1>2, NothingServed DEF ProcessesKept
  <2>2. Shuts(Runtime!Pending, "error")
    BY <2>1, ClosingNone
  <2>3. \/ Runtime!Retire(p, "crashed") /\ Runtime!Crashed(p)
        \/ Runtime!Retire(p, "stopped") /\ UNCHANGED crashes
    BY <1>2 DEF Runtime!FinishFailed
  <2>4. Retiring(p)
    BY <1>2, <2>2, <2>3 DEF Retiring, Runtime!Retire, Runtime!Crashed
  <2> QED
    BY <1>2, <2>4
<1> QED
  BY <1>1, <1>2

\* A process that crashed is retired.
LEMMA CrashEnds ==
  ASSUME NEW p, proc = p, Runtime!CrashOf(p) PROVE Retiring(p)
  BY DEF Retiring, Runtime!CrashOf, Runtime!Retire, Runtime!Crashed, Shuts

\* Every step that retires a process has seen it exit.
LEMMA EndStepsEnd ==
  ASSUME Processes \subseteq Nat \ {0}, DeliveryTypes, ManagerTypes, GateHeld, EventsHeld,
         ProcessesKept, ActionsKept, EndSteps
  PROVE \E p : Ending(p)
<1> USE DEF Runtime!lifeVars, Ending
<1>1. ASSUME NEW p \in Processes, Runtime!Reap(p) PROVE Ending(p)
  <2>1. os[p] = "exited" /\ p <= spawned
    BY <1>1 DEF Runtime!Reap, ProcessesKept
  <2>2. (Retiring(p) /\ proc = p) \/ (NoEnd /\ proc # p)
    BY <1>1, FinishEnds DEF Runtime!Reap
  <2>5. starting = "init" => proc # p
    BY <1>1 DEF Runtime!Reap, GateHeld
  <2>3. /\ UNCHANGED <<spawned, starting, os, reader, lifecycleGate, stopping>>
        /\ reaping' = reaping \ {p}
    BY <1>1 DEF Runtime!Reap
  <2>4. proc' # p
    BY <2>2 DEF Retiring, NoEnd
  <2> QED
    BY <2>1, <2>2, <2>3, <2>4, <2>5
<1>2. ASSUME NEW p \in Processes, Runtime!Watch(p) PROVE Ending(p)
  <2>1. os[p] = "exited" /\ p <= spawned
    BY <1>2 DEF Runtime!Watch, ProcessesKept, ManagerTypes
  <2>2. (Retiring(p) /\ snap = "running") \/ NoEnd
    BY <1>2, CrashEnds DEF Runtime!Watch, NoEnd, Runtime!currentVars, Runtime!sessionVars
  <2>4. snap = "running" => starting # "init"
    BY DEF GateHeld
  <2>3. UNCHANGED <<spawned, starting, os, reader, lifecycleGate, stopping, reaping>>
    BY <1>2 DEF Runtime!Watch
  <2> QED
    BY <2>1, <2>2, <2>3, <2>4
<1>3. CASE Runtime!StopReconcile
  <2>1. /\ spawned \in Processes /\ os[spawned] = "exited" /\ spawned <= spawned
        /\ starting # "init"
    BY <1>3 DEF Runtime!StopReconcile, GateHeld, ManagerTypes
  <2>2. CASE proc = spawned /\ spawned \notin observed /\ snap = "running"
    <3>1. Retiring(spawned)
      BY <1>3, <2>2, CrashEnds DEF Runtime!StopReconcile
    <3> QED
      BY <1>3, <2>1, <3>1 DEF Runtime!StopReconcile, Runtime!StopReturns
  <2>3. CASE proc = spawned /\ spawned \notin observed /\ snap # "running"
    <3>1. Runtime!Retire(spawned, "stopped") /\ UNCHANGED <<crashes, Runtime!sessionVars>>
      BY <1>3, <2>3 DEF Runtime!StopReconcile
    <3>2. Runtime!Pending = {}
      BY <1>3, <2>3, NothingServed DEF Runtime!StopReconcile
    <3>3. Shuts(Runtime!Pending, "error")
      BY <3>1, <3>2, ClosingNone DEF Runtime!sessionVars
    <3>4. Retiring(spawned)
      BY <2>3, <3>1, <3>3 DEF Retiring, Runtime!Retire, Runtime!sessionVars
    <3> QED
      BY <1>3, <2>1, <3>4 DEF Runtime!StopReconcile, Runtime!StopReturns
  <2>4. CASE ~(proc = spawned /\ spawned \notin observed)
    <3>1. Runtime!FinishFailed(spawned) /\ UNCHANGED Runtime!sessionVars
      BY <1>3, <2>4 DEF Runtime!StopReconcile
    <3>2. (Retiring(spawned) /\ proc = spawned) \/ (NoEnd /\ proc # spawned)
      BY <2>4, <3>1, FinishEnds
    <3> QED
      BY <1>3, <2>1, <3>2 DEF Runtime!StopReconcile, Runtime!StopReturns
  <2> QED
    BY <2>2, <2>3, <2>4
<1>4. CASE Runtime!StopDone
  <2>1. /\ spawned \in Processes /\ os[spawned] = "exited" /\ spawned <= spawned
        /\ starting # "init"
    BY <1>4 DEF Runtime!StopDone, GateHeld, ManagerTypes
  <2>2. Runtime!Pending = {}
    BY <1>4, NothingServed DEF Runtime!StopDone, GateHeld
  <2>3. UNCHANGED Runtime!sessionVars
    BY <1>4 DEF Runtime!StopDone
  <2>4. CASE proc = spawned /\ spawned \notin observed
    <3>1. Runtime!Retire(spawned, "stopped") /\ UNCHANGED crashes
      BY <1>4, <2>4 DEF Runtime!StopDone
    <3>3. Shuts(Runtime!Pending, "error")
      BY <2>2, <2>3, ClosingNone DEF Runtime!sessionVars
    <3>4. Retiring(spawned)
      BY <2>3, <2>4, <3>1, <3>3 DEF Retiring, Runtime!Retire, Runtime!sessionVars
    <3> QED
      BY <1>4, <2>1, <3>4 DEF Runtime!StopDone, Runtime!StopReturns
  <2>5. CASE ~(proc = spawned /\ spawned \notin observed)
    <3>1. Runtime!FinishFailed(spawned)
      BY <1>4, <2>5 DEF Runtime!StopDone
    <3>2. (Retiring(spawned) /\ proc = spawned) \/ (NoEnd /\ proc # spawned)
      BY <2>3, <2>5, <3>1, FinishEnds
    <3> QED
      BY <1>4, <2>1, <3>2 DEF Runtime!StopDone, Runtime!StopReturns
  <2> QED
    BY <2>4, <2>5
<1> QED
  BY <1>1, <1>2, <1>3, <1>4 DEF EndSteps

\* Start and Stop.
StartSteps ==
  \/ Runtime!Start \/ Runtime!SpawnFails \/ Runtime!Spawn \/ Runtime!InitDone
  \/ Runtime!InitCanceled \/ Runtime!StartReturns
StopSteps ==
  \/ Runtime!StopNothing \/ Runtime!StopExited \/ Runtime!StopFailed \/ Runtime!Stop
  \/ Runtime!StopShutdown \/ Runtime!StopGivesUp
ExitSteps == \E p \in Processes : Runtime!ReadEnd(p) \/ Runtime!Exit(p)

\* The steps, by what they do to the process.
LEMMA RuntimeSteps ==
  ASSUME Runtime!Next
  PROVE Serving \/ FailSteps \/ EndSteps \/ StartSteps \/ StopSteps \/ ExitSteps
<1>1. ASSUME NEW e \in Events,
             Runtime!Deliver(e) \/ Runtime!ExpireDetached(e) \/ Runtime!Plugin(e)
      PROVE Serving \/ FailSteps
  BY <1>1 DEF Serving, EventSteps, FailSteps, Runtime!Deliver
<1>2. ASSUME NEW p \in Processes, Runtime!Read(p) \/ Runtime!Break(p)
      PROVE Serving \/ FailSteps \/ ExitSteps
  BY <1>2 DEF Serving, FrameSteps, FailSteps, ExitSteps, Runtime!Read, Runtime!Break
<1>3. ASSUME NEW p \in Processes, Runtime!Reap(p) \/ Runtime!Watch(p) \/ Runtime!Exit(p)
      PROVE EndSteps \/ ExitSteps
  BY <1>3 DEF EndSteps, ExitSteps
<1>4. ASSUME NEW x \in executing, Runtime!Respond(x) PROVE Serving \/ FailSteps
  BY <1>4 DEF Serving, FailSteps, Runtime!Respond
<1>5. ASSUME Runtime!Start \/ Runtime!Starting PROVE StartSteps \/ FailSteps
  BY <1>5 DEF StartSteps, FailSteps, Runtime!Starting
<1>6. ASSUME \/ Runtime!StopNothing \/ Runtime!StopExited \/ Runtime!StopFailed \/ Runtime!Stop
             \/ Runtime!Stopping
      PROVE StopSteps \/ FailSteps \/ EndSteps
  BY <1>6 DEF StopSteps, FailSteps, EndSteps, Runtime!Stopping
<1> QED
  BY <1>1, <1>2, <1>3, <1>4, <1>5, <1>6 DEF Runtime!Next

\* A failure keeps the invariant of the manager.
LEMMA FailManager ==
  ASSUME Processes \subseteq Nat \ {0}, ManagerTypes, GateHeld, ProcessesKept, NEW p, Failing(p),
         UNCHANGED handle
  PROVE ManagerTypes' /\ GateHeld' /\ ProcessesKept'
<1>1. p \in Processes /\ p # 0 /\ p <= spawned /\ UNCHANGED <<proc, lifecycleGate, spawned, os,
                                                              crashes>> /\ MetBy(p)
  BY DEF Failing
<1>2. /\ reader' \in [Processes -> {"off", "reading", "ended"}]
      /\ \A q \in Processes : q # p => reader'[q] = reader[q]
      /\ proc # p => reader'[p] \in {reader[p], "ended"}
  BY DEF Failing, ManagerTypes
<1>3. \/ /\ proc = p /\ snap' = "stopping" /\ observed' = observed \cup {p}
         /\ reaping' = reaping \cup {p}
         /\ restart' = IF p \notin observed /\ snap = "running" THEN restart \cup {p} ELSE restart
      \/ proc # p /\ UNCHANGED <<snap, observed, reaping, restart>>
  BY FailEffect
<1>4. ManagerTypes'
  BY <1>1, <1>2, <1>3 DEF ManagerTypes, MetBy, Runtime!States
<1>5. GateHeld'
  BY <1>1, <1>2, <1>3 DEF GateHeld, MetBy, ManagerTypes
<1>6. ProcessesKept'
  <2>1. /\ proc' # 0 => proc' = spawned' /\ crashes'[proc'] = 0
        /\ snap' \in {"stopped", "crashed"} => proc' = 0
        /\ \A q \in Processes : os'[q] = "running" => proc' = q
        /\ proc' \in reaping' => snap' = "stopping"
    BY <1>1, <1>3 DEF ProcessesKept
  <2>2. ASSUME NEW q \in Processes, q > spawned'
        PROVE os'[q] = "none" /\ reader'[q] = "off" /\ crashes'[q] = 0
    <3>1. q > spawned /\ q # p
      BY <1>1, <2>2 DEF ManagerTypes
    <3> QED
      BY <1>1, <1>2, <3>1 DEF ProcessesKept
  <2>3. /\ observed' \subseteq {proc'} /\ observed' \subseteq reaping' /\ restart' \subseteq observed'
        /\ \A q \in reaping' : q \in Processes /\ q <= spawned'
    BY <1>1, <1>3 DEF ProcessesKept
  <2> QED
    BY <2>1, <2>2, <2>3 DEF ProcessesKept
<1> QED
  BY <1>4, <1>5, <1>6

\* A step that retires a process keeps the invariant of the manager.
LEMMA EndManager ==
  ASSUME Processes \subseteq Nat \ {0}, ManagerTypes, GateHeld, ProcessesKept, EventsHeld, NEW p, Ending(p),
         UNCHANGED handle
  PROVE ManagerTypes' /\ GateHeld' /\ ProcessesKept'
<1>1. /\ p \in Processes /\ p # 0 /\ p <= spawned /\ os[p] = "exited"
      /\ UNCHANGED <<spawned, starting, os, reader>>
      /\ \/ UNCHANGED <<lifecycleGate, stopping>>
         \/ stopping \in {"reconciling", "closing"} /\ stopping' = "idle" /\ lifecycleGate' = "free"
      /\ reaping' = reaping \/ (reaping' = reaping \ {p} /\ proc' # p)
  BY DEF Ending
<1>2. \/ /\ proc = p /\ starting # "init" /\ proc' = 0 /\ snap' \in {"stopped", "crashed"}
         /\ observed' = observed \ {p} /\ restart' = restart \ {p}
         /\ crashes' = crashes \/ crashes' = [crashes EXCEPT ![p] = @ + 1]
      \/ UNCHANGED <<proc, snap, observed, restart, crashes>>
  BY DEF Ending, Retiring, NoEnd
<1>3. crashes' \in [Processes -> Nat] /\ \A q \in Processes : q # p => crashes'[q] = crashes[q]
  BY <1>2 DEF ManagerTypes
<1>4. ManagerTypes'
  BY <1>1, <1>2, <1>3 DEF ManagerTypes, Runtime!States
<1>6. GateHeld'
  BY <1>1, <1>2 DEF GateHeld
<1>7. ProcessesKept'
  <2>1. /\ proc' # 0 => proc' = spawned' /\ crashes'[proc'] = 0
        /\ snap' \in {"stopped", "crashed"} => proc' = 0
        /\ \A q \in Processes : os'[q] = "running" => proc' = q
        /\ proc' \in reaping' => snap' = "stopping"
    BY <1>1, <1>2 DEF ProcessesKept
  <2>2. ASSUME NEW q \in Processes, q > spawned'
        PROVE os'[q] = "none" /\ reader'[q] = "off" /\ crashes'[q] = 0
    <3>1. q > spawned /\ q # p
      BY <1>1, <2>2 DEF ManagerTypes
    <3> QED
      BY <1>1, <1>3, <3>1 DEF ProcessesKept
  <2>3. /\ observed' \subseteq {proc'} /\ observed' \subseteq reaping' /\ restart' \subseteq observed'
        /\ \A q \in reaping' : q \in Processes /\ q <= spawned'
    BY <1>1, <1>2 DEF ProcessesKept
  <2> QED
    BY <2>1, <2>2, <2>3 DEF ProcessesKept
<1> QED
  BY <1>4, <1>6, <1>7

\* Serving keeps the invariant of the manager.
LEMMA ServingManager ==
  ASSUME ManagerTypes, GateHeld, ProcessesKept, ManagerStays,
         UNCHANGED handle \/ \E e \in Events : Runtime!Register(e)
  PROVE ManagerTypes' /\ GateHeld' /\ ProcessesKept'
<1>1. ManagerTypes' /\ ProcessesKept'
  BY DEF ManagerStays, ManagerTypes, ProcessesKept
<1>2. starting = "init" => UNCHANGED handle
  BY DEF Runtime!Register, GateHeld
<1>3. GateHeld'
  BY <1>2 DEF ManagerStays, GateHeld
<1> QED
  BY <1>1, <1>3

\* Every step of a start keeps the invariant of the manager.
LEMMA StartManager ==
  ASSUME Processes \subseteq Nat \ {0}, ManagerTypes, GateHeld, ProcessesKept, EventsHeld, StartSteps
  PROVE ManagerTypes' /\ GateHeld' /\ ProcessesKept'
<1> USE DEF Runtime!lifeVars, Runtime!handleVars, Runtime!eventVars
<1>1. CASE Runtime!Start
  BY <1>1 DEF Runtime!Start, ManagerTypes, Runtime!States, GateHeld, ProcessesKept
<1>2. CASE Runtime!SpawnFails
  BY <1>2 DEF Runtime!SpawnFails, ManagerTypes, Runtime!States, GateHeld, ProcessesKept
<1>3. CASE Runtime!Spawn
  <2> DEFINE p == spawned + 1
  <2>1. /\ starting' = "init" /\ spawned' = p /\ proc' = p /\ os' = [os EXCEPT ![p] = "running"]
        /\ UNCHANGED <<snap, lifecycleGate, stopping, reader, observed, restart, reaping, crashes,
                       handle>>
    BY <1>3 DEF Runtime!Spawn
  <2>2. /\ starting = "spawning" /\ stopping = "idle" /\ lifecycleGate = "start" /\ proc = 0
        /\ snap = "starting" /\ p \in Processes /\ p \in Nat /\ p # 0 /\ p > spawned
    BY <1>3 DEF Runtime!Spawn, GateHeld, ManagerTypes
  <2>3. /\ os' \in [Processes -> {"none", "running", "exited"}]
        /\ os'[p] = "running" /\ \A q \in Processes : q # p => os'[q] = os[q]
    BY <2>1, <2>2 DEF ManagerTypes
  <2>4. ManagerTypes'
    BY <2>1, <2>2, <2>3 DEF ManagerTypes
  <2>5. /\ p \notin reaping /\ reader[p] = "off" /\ crashes[p] = 0
        /\ \A e \in Events : handle[e] # p
        /\ observed = {} /\ restart = {}
    BY <2>2 DEF ProcessesKept, EventsHeld, ManagerTypes
  <2>6. GateHeld'
    BY <2>1, <2>2, <2>5 DEF GateHeld
  <2>7. ASSUME NEW q \in Processes, q > p
        PROVE os'[q] = "none" /\ reader'[q] = "off" /\ crashes'[q] = 0
    <3>1. q > spawned /\ q # p
      BY <2>7 DEF ManagerTypes
    <3> QED
      BY <2>1, <2>3, <3>1 DEF ProcessesKept
  <2>8. \A q \in reaping : q \in Processes /\ q <= p
    BY <2>2 DEF ProcessesKept, ManagerTypes
  <2>9. \A q \in Processes : os'[q] = "running" => q = p
    BY <2>2, <2>3 DEF ProcessesKept
  <2> HIDE DEF p
  <2>10. ProcessesKept'
    BY <2>1, <2>2, <2>5, <2>7, <2>8, <2>9 DEF ProcessesKept
  <2> QED
    BY <2>4, <2>6, <2>10
<1>4. CASE Runtime!InitDone
  <2>1. /\ starting' = "idle" /\ lifecycleGate' = "free" /\ snap' = "running"
        /\ reader' = [reader EXCEPT ![spawned] = "reading"]
        /\ UNCHANGED <<proc, spawned, stopping, os, observed, restart, reaping, crashes, handle>>
    BY <1>4 DEF Runtime!InitDone
  <2>2. starting = "init" /\ stopping = "idle" /\ proc = spawned /\ proc # 0 /\ proc \notin reaping
    BY <1>4 DEF Runtime!InitDone, GateHeld
  <2>3. /\ reader' \in [Processes -> {"off", "reading", "ended"}]
        /\ \A q \in Processes : q > spawned => reader'[q] = reader[q]
    <3>1. \A q \in Processes : q > spawned => q # spawned
      BY DEF ManagerTypes
    <3> QED
      BY <2>1, <3>1 DEF ManagerTypes
  <2>4. ManagerTypes' /\ GateHeld'
    BY <2>1, <2>2, <2>3 DEF ManagerTypes, Runtime!States, GateHeld
  <2>5. ProcessesKept'
    BY <2>1, <2>2, <2>3 DEF ProcessesKept
  <2> QED
    BY <2>4, <2>5
<1>5. CASE Runtime!InitCanceled
  <2>1. /\ starting' = "cleanup" /\ snap' = "stopping" /\ reaping' = reaping \cup {spawned}
        /\ reader' = [reader EXCEPT ![spawned] = "ended"]
        /\ UNCHANGED <<proc, lifecycleGate, stopping, spawned, os, observed, restart, crashes,
                       handle>>
    BY <1>5 DEF Runtime!InitCanceled
  <2>2. /\ starting = "init" /\ stopping = "idle" /\ proc = spawned /\ proc # 0
        /\ spawned \in Processes
    BY <1>5 DEF Runtime!InitCanceled, GateHeld, ManagerTypes
  <2>3. /\ reader' \in [Processes -> {"off", "reading", "ended"}]
        /\ \A q \in Processes : q > spawned => reader'[q] = reader[q]
    <3>1. \A q \in Processes : q > spawned => q # spawned
      BY DEF ManagerTypes
    <3> QED
      BY <2>1, <3>1 DEF ManagerTypes
  <2>4. ManagerTypes' /\ GateHeld'
    BY <2>1, <2>2, <2>3 DEF ManagerTypes, Runtime!States, GateHeld
  <2>5. ProcessesKept'
    BY <2>1, <2>2, <2>3 DEF ProcessesKept, ManagerTypes
  <2> QED
    BY <2>4, <2>5
<1>6. CASE Runtime!StartReturns
  BY <1>6 DEF Runtime!StartReturns, ManagerTypes, GateHeld, ProcessesKept
<1> QED
  BY <1>1, <1>2, <1>3, <1>4, <1>5, <1>6 DEF StartSteps

\* Every step of a stop keeps the invariant of the manager.
LEMMA StopManager ==
  ASSUME Processes \subseteq Nat \ {0}, ManagerTypes, GateHeld, ProcessesKept, StopSteps
  PROVE ManagerTypes' /\ GateHeld' /\ ProcessesKept'
<1> USE DEF Runtime!lifeVars, Runtime!handleVars, Runtime!eventVars
<1>1. CASE Runtime!StopNothing
  BY <1>1 DEF Runtime!StopNothing, ManagerTypes, Runtime!States, GateHeld, ProcessesKept
<1>2. CASE Runtime!StopExited
  BY <1>2 DEF Runtime!StopExited, ManagerTypes, GateHeld, ProcessesKept
<1>3. CASE Runtime!StopFailed
  BY <1>3 DEF Runtime!StopFailed, ManagerTypes, GateHeld, ProcessesKept
<1>4. CASE Runtime!Stop
  BY <1>4 DEF Runtime!Stop, ManagerTypes, Runtime!States, GateHeld, ProcessesKept
<1>5. CASE Runtime!StopShutdown
  BY <1>5 DEF Runtime!StopShutdown, ManagerTypes, GateHeld, ProcessesKept
<1>6. CASE Runtime!StopGivesUp
  BY <1>6 DEF Runtime!StopGivesUp, Runtime!StopReturns, ManagerTypes, GateHeld, ProcessesKept
<1> QED
  BY <1>1, <1>2, <1>3, <1>4, <1>5, <1>6 DEF StopSteps

\* The end of a reader and the exit of a process keep the invariant of the manager.
LEMMA ExitManager ==
  ASSUME Processes \subseteq Nat \ {0}, ManagerTypes, GateHeld, ProcessesKept, ExitSteps
  PROVE ManagerTypes' /\ GateHeld' /\ ProcessesKept'
<1> USE DEF Runtime!lifeVars, Runtime!eventVars
<1>1. ASSUME NEW p \in Processes, Runtime!ReadEnd(p)
      PROVE ManagerTypes' /\ GateHeld' /\ ProcessesKept'
  <2>1. /\ reader' \in [Processes -> {"off", "reading", "ended"}]
        /\ reader[p] = "reading" /\ \A q \in Processes : q # p => reader'[q] = reader[q]
        /\ UNCHANGED <<proc, snap, lifecycleGate, starting, stopping, spawned, os, observed,
                       restart,
                       reaping, crashes, handle>>
    BY <1>1 DEF Runtime!ReadEnd, ManagerTypes
  <2>2. ManagerTypes'
    BY <2>1 DEF ManagerTypes
  <2>3. GateHeld'
    BY <2>1 DEF GateHeld, ManagerTypes
  <2>4. ProcessesKept'
    BY <2>1 DEF ProcessesKept
  <2> QED
    BY <2>2, <2>3, <2>4
<1>2. ASSUME NEW p \in Processes, Runtime!Exit(p)
      PROVE ManagerTypes' /\ GateHeld' /\ ProcessesKept'
  <2>1. /\ os' \in [Processes -> {"none", "running", "exited"}] /\ os'[p] = "exited"
        /\ os[p] = "running" /\ \A q \in Processes : q # p => os'[q] = os[q]
        /\ UNCHANGED <<proc, snap, lifecycleGate, starting, stopping, spawned, reader, observed,
                       restart,
                       reaping, crashes, handle>>
    BY <1>2 DEF Runtime!Exit, ManagerTypes
  <2>2. ManagerTypes'
    BY <2>1 DEF ManagerTypes
  <2>3. GateHeld'
    BY <2>1 DEF GateHeld, ManagerTypes
  <2>4. ProcessesKept'
    BY <2>1 DEF ProcessesKept
  <2> QED
    BY <2>2, <2>3, <2>4
<1> QED
  BY <1>1, <1>2 DEF ExitSteps

\* Only the delivery of an event changes what it returns and who was asked.
LEMMA DeliverySteps ==
  ASSUME Runtime!Next
  PROVE UNCHANGED <<delivery, handle, result>> \/ \E e \in Events : Runtime!Deliver(e)
<1> USE DEF Runtime!eventVars
<1>1. ASSUME NEW e \in Events, Runtime!ExpireDetached(e) \/ Runtime!Plugin(e)
      PROVE UNCHANGED <<delivery, handle, result>>
  BY <1>1 DEF Runtime!ExpireDetached, Runtime!Plugin, Runtime!Ask, Runtime!End
<1>2. ASSUME NEW p \in Processes, Runtime!Read(p) \/ Runtime!Break(p)
      PROVE UNCHANGED <<delivery, handle, result>>
  <2>1. CASE Runtime!IgnoreFrame(p) \/ Runtime!RouteTerminal(p) \/ Runtime!RouteAction(p)
    BY <2>1 DEF Runtime!IgnoreFrame, Runtime!RouteTerminal, Runtime!RouteAction
  <2>2. CASE Runtime!RefuseAction(p) \/ Runtime!DetachEvent(p) \/ Runtime!RefuseFrame(p)
    BY <2>2 DEF Runtime!RefuseAction, Runtime!DetachEvent, Runtime!RefuseFrame
  <2>3. CASE Runtime!ReadEnd(p) \/ Runtime!ReadGarbage(p)
    BY <2>3 DEF Runtime!ReadEnd, Runtime!ReadGarbage
  <2> QED
    BY <1>2, <2>1, <2>2, <2>3 DEF Runtime!Read, Runtime!Break
<1>3. ASSUME NEW p \in Processes, Runtime!Reap(p) \/ Runtime!Watch(p) \/ Runtime!Exit(p)
      PROVE UNCHANGED <<delivery, handle, result>>
  BY <1>3 DEF Runtime!Reap, Runtime!Watch, Runtime!Exit
<1>4. ASSUME NEW x \in executing, Runtime!Respond(x) PROVE UNCHANGED <<delivery, handle, result>>
  BY <1>4 DEF Runtime!Respond, Runtime!Answer, Runtime!AnswerDropped, Runtime!AnswerFails
<1>5. ASSUME Runtime!Start \/ Runtime!Starting PROVE UNCHANGED <<delivery, handle, result>>
  <2>1. CASE Runtime!Start \/ Runtime!SpawnFails \/ Runtime!Spawn
    BY <2>1 DEF Runtime!Start, Runtime!SpawnFails, Runtime!Spawn
  <2>2. CASE Runtime!InitDone \/ Runtime!InitFails \/ Runtime!InitCanceled \/ Runtime!StartReturns
    BY <2>2 DEF Runtime!InitDone, Runtime!InitFails, Runtime!InitCanceled, Runtime!StartReturns
  <2> QED
    BY <1>5, <2>1, <2>2 DEF Runtime!Starting
<1>6. ASSUME \/ Runtime!StopNothing \/ Runtime!StopExited \/ Runtime!StopFailed \/ Runtime!Stop
             \/ Runtime!Stopping
      PROVE UNCHANGED <<delivery, handle, result>>
  <2>1. CASE Runtime!StopNothing \/ Runtime!StopExited \/ Runtime!StopFailed \/ Runtime!Stop
    BY <2>1 DEF Runtime!StopNothing, Runtime!StopExited, Runtime!StopFailed, Runtime!Stop
  <2>2. CASE Runtime!StopReconcile \/ Runtime!StopShutdown \/ Runtime!StopDone
    BY <2>2 DEF Runtime!StopReconcile, Runtime!StopShutdown, Runtime!StopDone
  <2>3. CASE Runtime!StopTimeout \/ Runtime!StopGivesUp
    BY <2>3 DEF Runtime!StopTimeout, Runtime!StopGivesUp
  <2> QED
    BY <1>6, <2>1, <2>2, <2>3 DEF Runtime!Stopping
<1> QED
  BY <1>1, <1>2, <1>3, <1>4, <1>5, <1>6 DEF Runtime!Next

\* The sessions es end, none of an event that was not written with success.
SessionsEnd(es, how) ==
  /\ how \in {"ok", "error"} /\ \A e \in es : how = "ok" => Told(e)
  /\ session' \in [Events -> {"none", "pending", "closed"}]
  /\ outcome' \in [Events -> {"none", "ok", "error"}]
  /\ finishes' \in [Events -> Nat]
  /\ \A e \in Events : e \in es =>
       session[e] = "pending" /\ session'[e] = "closed" /\ outcome'[e] = how
  /\ \A e \in Events : e \notin es => session'[e] = session[e] /\ outcome'[e] = outcome[e]
  /\ \A e \in Events :
       finishes'[e] = IF e \in es /\ e \in detached THEN finishes[e] + 1 ELSE finishes[e]

\* What the closing of sessions makes of the events.
LEMMA ClosingEnds ==
  ASSUME DeliveryTypes, NEW es, NEW how, Shuts(es, how), \A e \in es : how = "ok" => Told(e)
  PROVE SessionsEnd(es, how)
<1>1. how \in {"ok", "error"}
  BY DEF Shuts
<1>2. /\ session' \in [Events -> {"none", "pending", "closed"}]
      /\ outcome' \in [Events -> {"none", "ok", "error"}]
      /\ finishes' \in [Events -> Nat]
      /\ \A e \in Events : e \in es =>
           session[e] = "pending" /\ session'[e] = "closed" /\ outcome'[e] = how
      /\ \A e \in Events : e \notin es => session'[e] = session[e] /\ outcome'[e] = outcome[e]
      /\ \A e \in Events :
           finishes'[e] = IF e \in es /\ e \in detached THEN finishes[e] + 1 ELSE finishes[e]
  BY ClosingEffect
<1> QED
  BY <1>1, <1>2 DEF SessionsEnd

\* A step that leaves the sessions alone ends none.
LEMMA StaysEnds ==
  ASSUME DeliveryTypes, UNCHANGED <<session, outcome, finishes>> PROVE SessionsEnd({}, "ok")
  BY DEF DeliveryTypes, SessionsEnd

\* A frame that is read is of an event that was written.
LEMMA ReadFrame ==
  ASSUME FrameTypes, FramesKept, NEW p \in Processes, Runtime!NextFrame(p)
  PROVE /\ Head(out[p]) \in Runtime!Frames /\ Head(out[p]) \in Pipe(out[p])
        /\ FrameKept(p, Head(out[p])) /\ out[p] # <<>>
<1>1. out[p] \in Seq(Runtime!Frames) /\ out[p] # <<>>
  BY DEF FrameTypes, Runtime!NextFrame
<1>2. Head(out[p]) \in Runtime!Frames /\ Head(out[p]) \in Pipe(out[p])
  BY <1>1, PipeTail
<1> QED
  BY <1>1, <1>2, Zenon DEF FramesKept

\* A frame has an event and a kind.
LEMMA FrameRecord ==
  ASSUME NEW f \in Runtime!Frames
  PROVE f.event \in Events /\ f.kind \in Runtime!Ids \cup Terminals
  BY DEF Runtime!Frames

\* But for the registration, and the start and answer of an action, a step does
\* no more to the sessions than to end some.
LEMMA ClosingSteps ==
  ASSUME Processes \subseteq Nat \ {0}, ManagerTypes, DeliveryTypes, FrameTypes, GateHeld,
         ProcessesKept, EventsHeld, EventsEnd, ActionsKept, FramesKept, Runtime!Next
  PROVE \/ \E e \in Events : Runtime!Register(e)
        \/ \E p \in Processes : Runtime!RouteAction(p)
        \/ \E x \in executing : Runtime!Answer(x)
        \/ \E es, how : Shuts(es, how) /\ \A e \in es : how = "ok" => Told(e)
<1> DEFINE Still == UNCHANGED <<session, pendingActions, pending, outcome, finishes>>
           ShutsSome == \E es, how : Shuts(es, how) /\ \A e \in es : how = "ok" => Told(e)
<1> USE DEF Runtime!sessionVars
<1>a. ASSUME Still PROVE ShutsSome
  BY <1>a, ClosingNothing
<1>b. ASSUME NEW es, Shuts(es, "error") PROVE ShutsSome
  BY <1>b
<1>1. ASSUME NEW e \in Events, EventSteps(e) PROVE Runtime!Register(e) \/ ShutsSome
  <2>1. CASE Runtime!WriteEvent(e) \/ Runtime!Settle(e) \/ Runtime!Plugin(e)
    <3>1. Still
      BY <2>1 DEF Runtime!WriteEvent, Runtime!Settle, Runtime!Plugin, Runtime!Ask, Runtime!End
    <3> QED
      BY <1>a, <3>1
  <2>2. CASE Runtime!Timeout(e)
    <3>1. CASE e \in detached \/ session[e] = "closed"
      <4>1. Still
        BY <2>2, <3>1 DEF Runtime!Timeout
      <4> QED
        BY <1>a, <4>1
    <3>2. CASE ~(e \in detached \/ session[e] = "closed")
      <4>1. session[e] = "pending" /\ Runtime!CloseSessions({e}, "error")
        BY <2>2, <3>2 DEF Runtime!Timeout, EventsEnd, DeliveryTypes
      <4>2. Shuts({e}, "error")
        BY <4>1 DEF Shuts, Runtime!Pending
      <4> QED
        BY <1>b, <4>2
    <3> QED
      BY <3>1, <3>2
  <2>3. CASE Runtime!ExpireDetached(e)
    <3>1. Shuts({e}, "error")
      BY <2>3 DEF Runtime!ExpireDetached, Shuts, Runtime!Pending
    <3> QED
      BY <1>b, <3>1
  <2> HIDE DEF ShutsSome
  <2> QED
    BY <1>1, <2>1, <2>2, <2>3 DEF EventSteps
<1>2. ASSUME NEW p \in Processes, FrameSteps(p) PROVE Runtime!RouteAction(p) \/ ShutsSome
  <2>1. CASE Runtime!IgnoreFrame(p) \/ Runtime!DetachEvent(p)
             \/ (Runtime!RefuseAction(p) /\ Runtime!Writable(p))
    <3>1. Still
      BY <2>1 DEF Runtime!IgnoreFrame, Runtime!DetachEvent, Runtime!RefuseAction, Runtime!Reply
    <3> QED
      BY <1>a, <3>1
  <2>2. CASE Runtime!RouteTerminal(p)
    <3> DEFINE f == Head(out[p])
               how == IF f.kind = "error" THEN "error" ELSE "ok"
    <3>1. Told(f.event) /\ f.event \in Events
      BY <2>2, ReadFrame, FrameRecord DEF Runtime!RouteTerminal, FrameKept
    <3>2. session[f.event] = "pending" /\ Runtime!CloseSessions({f.event}, how)
      BY <2>2 DEF Runtime!RouteTerminal
    <3> HIDE DEF f
    <3>3. Shuts({f.event}, how) /\ \A e \in {f.event} : how = "ok" => Told(e)
      BY <3>1, <3>2 DEF Shuts, Runtime!Pending
    <3> QED
      BY <3>3
  <2> HIDE DEF ShutsSome
  <2> QED
    BY <1>2, <2>1, <2>2 DEF FrameSteps
<1>3. ASSUME NEW x \in executing, Runtime!AnswerDropped(x) PROVE ShutsSome
  BY <1>3, <1>a DEF Runtime!AnswerDropped
<1>4. CASE FailSteps
  <2>1. PICK p : Failing(p)
    BY <1>4, FailStepsFail
  <2>2. Shuts(Runtime!Pending, "error") \/ Still
    BY <2>1, FailEffect
  <2> QED
    BY <1>a, <1>b, <2>2
<1>5. CASE EndSteps
  <2>1. PICK p : Ending(p)
    BY <1>5, EndStepsEnd
  <2>2. Shuts(Runtime!Pending, "error") \/ Still
    BY <2>1 DEF Ending, Retiring, NoEnd
  <2> QED
    BY <1>a, <1>b, <2>2
<1>6. CASE StartSteps
  <2>1. Still
    BY <1>6 DEF StartSteps, Runtime!Start, Runtime!SpawnFails, Runtime!Spawn, Runtime!InitDone,
                Runtime!InitCanceled, Runtime!StartReturns
  <2> QED
    BY <1>a, <2>1
<1>7. CASE StopSteps
  <2>1. CASE Runtime!Stop
    <3>1. Shuts(Runtime!Pending \cap detached, "error")
      BY <2>1 DEF Runtime!Stop, Shuts
    <3> QED
      BY <1>b, <3>1
  <2>2. CASE Runtime!StopNothing \/ Runtime!StopExited \/ Runtime!StopFailed
    BY <1>a, <2>2 DEF Runtime!StopNothing, Runtime!StopExited, Runtime!StopFailed
  <2>3. CASE Runtime!StopShutdown \/ Runtime!StopGivesUp
    BY <1>a, <2>3 DEF Runtime!StopShutdown, Runtime!StopGivesUp
  <2> HIDE DEF ShutsSome
  <2> QED
    BY <1>7, <2>1, <2>2, <2>3 DEF StopSteps
<1>8. CASE ExitSteps
  <2>1. ASSUME NEW p \in Processes, Runtime!ReadEnd(p) PROVE ShutsSome
    <3>1. Shuts(Runtime!Pending, "error") \/ Still
      BY <2>1 DEF Runtime!ReadEnd, Shuts
    <3> QED
      BY <1>a, <1>b, <3>1
  <2>2. ASSUME NEW p \in Processes, Runtime!Exit(p) PROVE ShutsSome
    BY <1>a, <2>2 DEF Runtime!Exit
  <2> QED
    BY <1>8, <2>1, <2>2 DEF ExitSteps
<1>9. CASE Serving
  <2> HIDE DEF ShutsSome
  <2>1. \/ \E e \in Events : Runtime!Register(e)
        \/ \E p \in Processes : Runtime!RouteAction(p)
        \/ \E x \in executing : Runtime!Answer(x)
        \/ ShutsSome
    BY <1>9, <1>1, <1>2, <1>3, Zenon DEF Serving
  <2> QED
    BY <2>1 DEF ShutsSome
<1> QED
  BY <1>4, <1>5, <1>6, <1>7, <1>8, <1>9, RuntimeSteps, Zenon

\* But for the registration, a step does no more to the sessions than to end some.
LEMMA SessionSteps ==
  ASSUME Processes \subseteq Nat \ {0}, ManagerTypes, DeliveryTypes, FrameTypes, GateHeld,
         ProcessesKept, EventsHeld, EventsEnd, ActionsKept, FramesKept, Runtime!Next
  PROVE \/ \E e \in Events : Runtime!Register(e)
        \/ \E es, how : SessionsEnd(es, how)
<1>1. ASSUME NEW p \in Processes, Runtime!RouteAction(p) PROVE SessionsEnd({}, "ok")
  BY <1>1, StaysEnds DEF Runtime!RouteAction
<1>2. ASSUME NEW x \in executing, Runtime!Answer(x) PROVE SessionsEnd({}, "ok")
  BY <1>2, StaysEnds DEF Runtime!Answer
<1>3. ASSUME NEW es, NEW how, Shuts(es, how), \A e \in es : how = "ok" => Told(e)
      PROVE SessionsEnd(es, how)
  BY <1>3, ClosingEnds
<1> QED
  BY <1>1, <1>2, <1>3, ClosingSteps, Zenon

\* Only the registration of an event gives it a process.
LEMMA HandleSteps ==
  ASSUME Runtime!Next PROVE UNCHANGED handle \/ \E e \in Events : Runtime!Register(e)
<1>1. ASSUME NEW e \in Events, Runtime!Deliver(e) PROVE UNCHANGED handle \/ Runtime!Register(e)
  BY <1>1
     DEF Runtime!Deliver, Runtime!WriteEvent, Runtime!WriteFails, Runtime!Settle, Runtime!Timeout
<1> QED
  BY <1>1, DeliverySteps

\* Every step keeps the invariant of the manager.
LEMMA ManagerStep ==
  ASSUME Processes \subseteq Nat \ {0}, ManagerTypes, DeliveryTypes, FrameTypes, GateHeld,
         ProcessesKept, EventsHeld, EventsEnd, ActionsKept, Runtime!Next
  PROVE ManagerTypes' /\ GateHeld' /\ ProcessesKept'
<1>1. CASE \E e \in Events : Runtime!Register(e)
  <2>1. Serving
    BY <1>1 DEF Serving, EventSteps
  <2> QED
    BY <1>1, <2>1, ServingStays, ServingManager
<1>2. CASE UNCHANGED handle
  <2>1. CASE Serving
    BY <1>2, <2>1, ServingStays, ServingManager
  <2>2. CASE FailSteps
    BY <1>2, <2>2, FailStepsFail, FailManager
  <2>3. CASE EndSteps
    BY <1>2, <2>3, EndStepsEnd, EndManager
  <2> QED
    BY <2>1, <2>2, <2>3, StartManager, StopManager, ExitManager, RuntimeSteps
<1> QED
  BY <1>1, <1>2, HandleSteps

\* The processes are numbered.
LEMMA HandleNumber ==
  ASSUME Processes \subseteq Nat \ {0}, DeliveryTypes PROVE \A e \in Events : handle[e] \in Nat
<1>1. \A p \in Processes : p \in Nat
  OBVIOUS
<1>2. \A e \in Events : handle[e] \in Processes \/ handle[e] = 0
  BY DEF DeliveryTypes
<1>3. 0 \in Nat
  OBVIOUS
<1> QED
  BY <1>1, <1>2, <1>3, Zenon

\* Where no event is left pending, none is held.
LEMMA NoneHeld ==
  ASSUME DeliveryTypes, EventsHeld, NEW es, NEW how, Shuts(es, how), spawned' \in Nat, spawned \in Nat,
         Processes \subseteq Nat \ {0},
         spawned' >= spawned, UNCHANGED handle, es = Runtime!Pending \/ proc = 0 \/ Runtime!Pending = {}
  PROVE EventsHeld'
<1>1. \A e \in Events : session'[e] # "pending"
  BY ClosingEffect DEF Runtime!Pending, EventsHeld, DeliveryTypes
<1>2. ASSUME NEW e \in Events PROVE handle'[e] <= spawned'
  <2>2. handle[e] \in Nat
    BY HandleNumber
  <2>3. handle[e] <= spawned
    BY DEF EventsHeld
  <2> QED
    BY <2>2, <2>3
<1> QED
  BY <1>1, <1>2 DEF EventsHeld

\* An event that is pending is of the current process after every step.
LEMMA HeldStep ==
  ASSUME Processes \subseteq Nat \ {0}, ManagerTypes, DeliveryTypes, FrameTypes, GateHeld,
         ProcessesKept, EventsHeld, EventsEnd, ActionsKept, FramesKept, Runtime!Next
  PROVE EventsHeld'
<1> USE DEF Runtime!lifeVars, Runtime!handleVars, Runtime!eventVars, Runtime!sessionVars
<1>1. ASSUME NEW e \in Events, Runtime!Register(e) PROVE EventsHeld'
  <2>1. UNCHANGED <<proc, snap, spawned, stopping, reaping>>
    BY <1>1 DEF Runtime!Register
  <2>2. /\ proc # 0 /\ snap = "running" /\ proc \notin reaping /\ proc <= spawned
        /\ handle'[e] = proc /\ \A d \in Events : d # e => handle'[d] = handle[d] /\ session'[d] = session[d]
    BY <1>1 DEF Runtime!Register, ProcessesKept, DeliveryTypes, ManagerTypes
  <2> QED
    BY <2>1, <2>2 DEF EventsHeld
<1>2. CASE ~\E e \in Events : Runtime!Register(e)
  <2>1. UNCHANGED handle
    BY <1>2, HandleSteps
  <2>2. PICK es, how : SessionsEnd(es, how)
    BY <1>2, SessionSteps
  <2>3. \A e \in Events : session'[e] = "pending" => session[e] = "pending"
    BY <2>2 DEF SessionsEnd
  <2>4. ASSUME UNCHANGED <<proc, snap, spawned, stopping, reaping>> PROVE EventsHeld'
    BY <2>1, <2>3, <2>4 DEF EventsHeld
  <2>5. ASSUME Runtime!Pending = {}, UNCHANGED <<spawned>> PROVE EventsHeld'
    BY <2>1, <2>3, <2>5 DEF EventsHeld, Runtime!Pending
  <2>6. CASE Serving
    BY <2>4, <2>6, ServingStays DEF ManagerStays
  <2>7. CASE FailSteps
    <3>1. PICK p : Failing(p)
      BY <2>7, FailStepsFail
    <3>2. CASE proc = p
      <4>1. Shuts(Runtime!Pending, "error") /\ UNCHANGED spawned
        BY <3>1, <3>2, FailEffect DEF Failing
      <4> QED
        BY <2>1, <4>1, NoneHeld DEF ManagerTypes
    <3>3. CASE proc # p
      <4>1. UNCHANGED <<proc, spawned, snap, reaping>>
        BY <3>1, <3>3, FailEffect DEF Failing
      <4>2. UNCHANGED stopping \/ p = spawned
        BY <3>1 DEF Failing, MetBy
      <4>3. CASE p = spawned
        <5>1. Runtime!Pending = {}
          BY <3>3, <4>3 DEF Runtime!Pending, EventsHeld, ProcessesKept
        <5> QED
          BY <2>5, <4>1, <5>1
      <4> QED
        BY <2>4, <4>1, <4>2, <4>3
    <3> QED
      BY <3>2, <3>3
  <2>8. CASE EndSteps
    <3>1. PICK p : Ending(p)
      BY <2>8, EndStepsEnd
    <3>2. UNCHANGED spawned /\ reaping' \subseteq reaping /\ (UNCHANGED stopping \/ stopping # "draining")
      BY <3>1 DEF Ending
    <3>3. CASE Retiring(p)
      BY <2>1, <3>2, <3>3, NoneHeld DEF ManagerTypes, Retiring
    <3>4. CASE NoEnd
      BY <2>1, <2>3, <3>2, <3>4 DEF EventsHeld, NoEnd
    <3> QED
      BY <3>1, <3>3, <3>4 DEF Ending
  <2>9. CASE StartSteps
    <3>1. ASSUME proc = 0 \/ starting = "init" PROVE Runtime!Pending = {}
      BY <3>1 DEF Runtime!Pending, EventsHeld, GateHeld
    <3>2. CASE Runtime!Start \/ Runtime!SpawnFails
      <4>1. proc = 0 /\ UNCHANGED spawned
        BY <3>2 DEF Runtime!Start, Runtime!SpawnFails, GateHeld
      <4> QED
        BY <2>5, <3>1, <4>1
    <3>3. CASE Runtime!Spawn
      <4>1. /\ \A e \in Events : session'[e] # "pending"
            /\ spawned' = spawned + 1
        BY <2>3, <3>1, <3>3 DEF Runtime!Spawn, GateHeld, Runtime!Pending
      <4>2. ASSUME NEW e \in Events PROVE handle'[e] <= spawned'
        <5>1. spawned \in Nat
          BY DEF ManagerTypes
        <5>2. handle[e] \in Nat
          BY HandleNumber
        <5>3. handle[e] <= spawned
          BY DEF EventsHeld
        <5> QED
          BY <2>1, <4>1, <5>1, <5>2, <5>3
      <4> QED
        BY <4>1, <4>2 DEF EventsHeld
    <3>4. CASE Runtime!InitDone \/ Runtime!InitCanceled
      <4>1. starting = "init" /\ UNCHANGED spawned
        BY <3>4 DEF Runtime!InitDone, Runtime!InitCanceled
      <4> QED
        BY <2>5, <3>1, <4>1
    <3>5. CASE Runtime!StartReturns
      BY <2>4, <3>5 DEF Runtime!StartReturns
    <3> QED
      BY <2>9, <3>2, <3>3, <3>4, <3>5 DEF StartSteps
  <2>10. CASE StopSteps
    <3>1. CASE Runtime!StopNothing \/ Runtime!StopShutdown
      <4>1. Runtime!Pending = {} /\ UNCHANGED spawned
        BY <3>1 DEF Runtime!StopNothing, Runtime!StopShutdown, Runtime!Pending, EventsHeld
      <4> QED
        BY <2>5, <4>1
    <3>2. CASE Runtime!StopExited \/ Runtime!StopFailed \/ Runtime!StopGivesUp
      <4>1. UNCHANGED <<proc, snap, spawned, reaping>> /\ stopping # "draining"
        BY <3>2 DEF Runtime!StopExited, Runtime!StopFailed, Runtime!StopGivesUp, GateHeld
      <4> QED
        BY <2>1, <2>3, <4>1 DEF EventsHeld
    <3>3. CASE Runtime!Stop
      <4>1. UNCHANGED <<proc, spawned, reaping>> /\ stopping' = "draining"
        BY <3>3 DEF Runtime!Stop
      <4> QED
        BY <2>1, <2>3, <4>1 DEF EventsHeld
    <3> QED
      BY <2>10, <3>1, <3>2, <3>3 DEF StopSteps
  <2>11. CASE ExitSteps
    <3>1. UNCHANGED <<proc, snap, spawned, stopping, reaping>>
      BY <2>11 DEF ExitSteps, Runtime!ReadEnd, Runtime!Exit
    <3> QED
      BY <2>4, <3>1
  <2> QED
    BY <2>6, <2>7, <2>8, <2>9, <2>10, <2>11, RuntimeSteps
<1> QED
  BY <1>1, <1>2

\* Steps that serve no event and no frame.
Quiet ==
  FailSteps \/ EndSteps \/ StartSteps \/ StopSteps \/ \E p \in Processes : Runtime!ReadEnd(p)

\* A step that fails or retires a process, or starts or stops one, sends and serves nothing.
LEMMA QuietSteps ==
  ASSUME Processes \subseteq Nat \ {0}, ManagerTypes, DeliveryTypes, FrameTypes, GateHeld,
         ProcessesKept, EventsHeld, ActionsKept, Quiet
  PROVE UNCHANGED <<handle, detached, view, asked, answered>> /\ executing' \subseteq executing
        /\ OutShrinks
<1> DEFINE Still == UNCHANGED <<handle, detached, view, asked,
                                answered>> /\ executing' \subseteq executing
<1> USE DEF Runtime!pluginVars, Runtime!eventVars
<1>1. ASSUME NEW e \in Events, Runtime!WriteFails(e) PROVE Still /\ OutShrinks
  BY <1>1, OutStays DEF Runtime!WriteFails
<1>2. ASSUME NEW p \in Processes, Runtime!RefuseAction(p) /\ ~Runtime!Writable(p)
      PROVE Still /\ OutShrinks
  <2>1. OutShrinks
    BY <1>2, OutTail DEF Runtime!RefuseAction, Runtime!NextFrame
  <2> QED
    BY <1>2, <2>1 DEF Runtime!RefuseAction, Runtime!Reply
<1>3. ASSUME NEW p \in Processes, Runtime!RefuseFrame(p) PROVE Still /\ OutShrinks
  <2>1. OutShrinks
    BY <1>3, OutTail DEF Runtime!RefuseFrame, Runtime!NextFrame
  <2> QED
    BY <1>3, <2>1 DEF Runtime!RefuseFrame
<1>4. ASSUME NEW p \in Processes, Runtime!ReadGarbage(p) PROVE Still /\ OutShrinks
  BY <1>4, OutStays DEF Runtime!ReadGarbage
<1>5. ASSUME NEW x \in executing, Runtime!AnswerFails(x) PROVE Still /\ OutShrinks
  BY <1>5, OutStays DEF Runtime!AnswerFails
<1>6. CASE Runtime!InitFails \/ Runtime!StopTimeout
  BY <1>6, OutStays DEF Runtime!InitFails, Runtime!StopTimeout
<1>7. CASE EndSteps
  <2>1. PICK p : Ending(p)
    BY <1>7, EndStepsEnd
  <2>2. OutShrinks
    BY <2>1, OutStays, OutClears DEF Ending, Retiring, NoEnd
  <2> QED
    BY <1>7, <2>2
       DEF EndSteps, Runtime!Reap, Runtime!Watch, Runtime!StopReconcile, Runtime!StopDone
<1>8. CASE StartSteps
  <2>1. CASE Runtime!Start \/ Runtime!SpawnFails \/ Runtime!Spawn
    BY <2>1, OutStays DEF Runtime!Start, Runtime!SpawnFails, Runtime!Spawn
  <2>2. CASE Runtime!InitDone \/ Runtime!InitCanceled \/ Runtime!StartReturns
    BY <2>2, OutStays DEF Runtime!InitDone, Runtime!InitCanceled, Runtime!StartReturns
  <2> QED
    BY <1>8, <2>1, <2>2 DEF StartSteps
<1>9. CASE StopSteps
  <2>1. CASE Runtime!StopNothing \/ Runtime!StopExited \/ Runtime!StopFailed
    BY <2>1, OutStays DEF Runtime!StopNothing, Runtime!StopExited, Runtime!StopFailed
  <2>2. CASE Runtime!Stop \/ Runtime!StopShutdown \/ Runtime!StopGivesUp
    BY <2>2, OutStays DEF Runtime!Stop, Runtime!StopShutdown, Runtime!StopGivesUp
  <2> QED
    BY <1>9, <2>1, <2>2 DEF StopSteps
<1>10. ASSUME NEW p \in Processes, Runtime!ReadEnd(p) PROVE Still /\ OutShrinks
  BY <1>10, OutClears DEF Runtime!ReadEnd
<1> QED
  BY <1>1, <1>2, <1>3, <1>4, <1>5, <1>6, <1>7, <1>8, <1>9, <1>10 DEF Quiet, FailSteps

\* The steps, by whether frames are sent or served.
LEMMA QuietOrServing ==
  ASSUME Runtime!Next PROVE Serving \/ Quiet \/ \E p \in Processes : Runtime!Exit(p)
  BY RuntimeSteps, Zenon DEF Quiet, ExitSteps

\* A plugin learns of an event when it is written, and what has ended for it stays ended.
LEMMA ViewSteps ==
  ASSUME Processes \subseteq Nat \ {0}, ManagerTypes, DeliveryTypes, FrameTypes, GateHeld,
         ProcessesKept, EventsHeld, ActionsKept, Runtime!Next
  PROVE \/ \E e \in Events : Runtime!WriteEvent(e)
        \/ /\ view' \in [Events -> {"unknown", "open", "ended"}]
           /\ \A e \in Events : view'[e] \in {view[e], "ended"}
<1> DEFINE Ends == /\ view' \in [Events -> {"unknown", "open", "ended"}]
                   /\ \A e \in Events : view'[e] \in {view[e], "ended"}
<1> USE DEF Runtime!pluginVars
<1>a. ASSUME UNCHANGED view PROVE Ends
  BY <1>a DEF DeliveryTypes
<1>1. ASSUME NEW e \in Events, EventSteps(e) PROVE Runtime!WriteEvent(e) \/ Ends
  <2>1. CASE Runtime!Register(e) \/ Runtime!Settle(e) \/ Runtime!Timeout(e) \/ Runtime!ExpireDetached(e)
    <3>1. UNCHANGED view
      BY <2>1 DEF Runtime!Register, Runtime!Settle, Runtime!Timeout, Runtime!ExpireDetached
    <3> QED
      BY <1>a, <3>1
  <2>2. ASSUME NEW a \in Runtime!Ids, Runtime!Ask(e, a) PROVE Ends
    <3>1. UNCHANGED view
      BY <2>2 DEF Runtime!Ask
    <3> QED
      BY <1>a, <3>1
  <2>3. ASSUME NEW tag \in Terminals, Runtime!End(e, tag) PROVE Ends
    BY <2>3 DEF Runtime!End, DeliveryTypes
  <2> HIDE DEF Ends
  <2> QED
    BY <1>1, <2>1, <2>2, <2>3 DEF EventSteps, Runtime!Plugin
<1>2. ASSUME NEW p \in Processes, FrameSteps(p) PROVE UNCHANGED view
  <2>1. CASE Runtime!IgnoreFrame(p) \/ Runtime!RouteTerminal(p) \/ Runtime!RouteAction(p)
    BY <2>1 DEF Runtime!IgnoreFrame, Runtime!RouteTerminal, Runtime!RouteAction
  <2>2. CASE Runtime!RefuseAction(p) \/ Runtime!DetachEvent(p)
    BY <2>2 DEF Runtime!RefuseAction, Runtime!DetachEvent
  <2> QED
    BY <1>2, <2>1, <2>2 DEF FrameSteps
<1>3. ASSUME NEW x \in executing, Runtime!Answer(x) \/ Runtime!AnswerDropped(x)
      PROVE UNCHANGED view
  BY <1>3 DEF Runtime!Answer, Runtime!AnswerDropped
<1>4. CASE Quiet
  BY <1>4, <1>a, QuietSteps
<1>5. ASSUME NEW p \in Processes, Runtime!Exit(p) PROVE Ends
  BY <1>5 DEF Runtime!Exit, DeliveryTypes
<1>6. CASE Serving
  <2> HIDE DEF Ends
  <2>1. Ends \/ \E e \in Events : Runtime!WriteEvent(e)
    BY <1>a, <1>1, <1>2, <1>3, <1>6, Zenon DEF Serving
  <2> QED
    BY <2>1 DEF Ends
<1> QED
  BY <1>4, <1>5, <1>6, QuietOrServing

\* Only the reader detaches events.
LEMMA DetachedSteps ==
  ASSUME Processes \subseteq Nat \ {0}, ManagerTypes, DeliveryTypes, FrameTypes, GateHeld,
         ProcessesKept, EventsHeld, ActionsKept, Runtime!Next
  PROVE UNCHANGED detached \/ \E p \in Processes : Runtime!DetachEvent(p)
<1>1. ASSUME NEW e \in Events, EventSteps(e) PROVE UNCHANGED detached
  <2>1. CASE Runtime!Register(e) \/ Runtime!WriteEvent(e) \/ Runtime!Settle(e)
    BY <2>1 DEF Runtime!Register, Runtime!WriteEvent, Runtime!Settle
  <2>2. CASE Runtime!Timeout(e) \/ Runtime!ExpireDetached(e) \/ Runtime!Plugin(e)
    BY <2>2 DEF Runtime!Timeout, Runtime!ExpireDetached, Runtime!Plugin, Runtime!Ask, Runtime!End
  <2> QED
    BY <1>1, <2>1, <2>2 DEF EventSteps
<1>2. ASSUME NEW p \in Processes, FrameSteps(p) PROVE UNCHANGED detached \/ Runtime!DetachEvent(p)
  BY <1>2 DEF FrameSteps, Runtime!IgnoreFrame, Runtime!RouteTerminal, Runtime!RouteAction,
              Runtime!RefuseAction
<1>3. ASSUME NEW x \in executing, Runtime!Answer(x) \/ Runtime!AnswerDropped(x)
      PROVE UNCHANGED detached
  BY <1>3 DEF Runtime!Answer, Runtime!AnswerDropped
<1>4. ASSUME NEW p \in Processes, Runtime!Exit(p) PROVE UNCHANGED detached
  BY <1>4 DEF Runtime!Exit
<1> QED
  BY <1>1, <1>2, <1>3, <1>4, QuietOrServing, QuietSteps DEF Serving

\* Ending sessions keeps the invariant of the ends of events.
LEMMA EndsKept ==
  ASSUME DeliveryTypes, EventsEnd, NEW es, NEW how, SessionsEnd(es, how),
         UNCHANGED <<delivery, handle, result, detached>>,
         \A e \in Events : view'[e] \in {view[e], "ended"}
  PROVE EventsEnd'
<1> SUFFICES ASSUME NEW e \in Events
             PROVE /\ delivery[e] = "new" <=> session'[e] = "none"
                   /\ delivery[e] # "new" => handle[e] # 0
                   /\ delivery[e] = "returned" /\ e \notin detached => session'[e] = "closed"
                   /\ session'[e] = "closed" <=> outcome'[e] # "none"
                   /\ delivery[e] = "registered" => outcome'[e] # "ok"
                   /\ e \in detached => delivery[e] \in {"waiting", "returned"}
                   /\ view'[e] = "open" => delivery[e] \in {"waiting", "returned"}
                   /\ finishes'[e] = IF e \in detached /\ session'[e] = "closed" THEN 1 ELSE 0
                   /\ delivery[e] = "returned" =>
                        result[e] = IF e \in detached THEN "detached" ELSE outcome'[e]
  BY DEF EventsEnd
<1>1. /\ delivery[e] = "new" <=> session[e] = "none"
      /\ delivery[e] # "new" => handle[e] # 0
      /\ delivery[e] = "returned" /\ e \notin detached => session[e] = "closed"
      /\ session[e] = "closed" <=> outcome[e] # "none"
      /\ delivery[e] = "registered" => outcome[e] # "ok"
      /\ e \in detached => delivery[e] \in {"waiting", "returned"}
      /\ view[e] = "open" => delivery[e] \in {"waiting", "returned"}
      /\ finishes[e] = IF e \in detached /\ session[e] = "closed" THEN 1 ELSE 0
      /\ delivery[e] = "returned" => result[e] = IF e \in detached THEN "detached" ELSE outcome[e]
  BY DEF EventsEnd
<1>2. view'[e] \in {view[e], "ended"} /\ how \in {"ok", "error"}
  BY DEF SessionsEnd
<1>3. CASE e \in es
  <2>1. /\ session[e] = "pending" /\ session'[e] = "closed" /\ outcome'[e] = how
        /\ how = "ok" => Told(e)
        /\ finishes'[e] = IF e \in detached THEN finishes[e] + 1 ELSE finishes[e]
    BY <1>3 DEF SessionsEnd
  <2> QED
    BY <1>1, <1>2, <2>1 DEF Told
<1>4. CASE e \notin es
  <2>1. session'[e] = session[e] /\ outcome'[e] = outcome[e] /\ finishes'[e] = finishes[e]
    BY <1>4 DEF SessionsEnd
  <2> QED
    BY <1>1, <1>2, <2>1
<1> QED
  BY <1>3, <1>4

\* What the return of a delivery changes.
LEMMA ReturnedEffect ==
  ASSUME DeliveryTypes, NEW e \in Events, NEW r \in {"ok", "error", "detached"},
         Runtime!Returned(e, r)
  PROVE /\ delivery' \in [Events -> {"new", "registered", "waiting", "returned"}]
        /\ result' \in [Events -> {"none", "ok", "error", "detached"}]
        /\ delivery'[e] = "returned" /\ result'[e] = r
        /\ \A d \in Events : d # e => delivery'[d] = delivery[d] /\ result'[d] = result[d]
  BY DEF DeliveryTypes, Runtime!Returned

\* The delivery of e returns what became of the event.
LEMMA ReturnsEnd ==
  ASSUME DeliveryTypes, EventsEnd, NEW es, NEW how, SessionsEnd(es, how),
         NEW e \in Events, NEW r \in {"ok", "error", "detached"}, Runtime!Returned(e, r),
         delivery[e] \in {"registered", "waiting"},
         e \in detached => r = "detached",
         e \notin detached => session'[e] = "closed" /\ outcome'[e] = r,
         UNCHANGED <<handle, detached, view>>
  PROVE DeliveryTypes' /\ EventsEnd'
<1>1. /\ delivery' \in [Events -> {"new", "registered", "waiting", "returned"}]
      /\ result' \in [Events -> {"none", "ok", "error", "detached"}]
      /\ delivery'[e] = "returned" /\ result'[e] = r
      /\ \A d \in Events : d # e => delivery'[d] = delivery[d] /\ result'[d] = result[d]
  BY ReturnedEffect
<1>2. DeliveryTypes'
  BY <1>1 DEF DeliveryTypes, SessionsEnd
<1>3. ASSUME NEW d \in Events
      PROVE /\ delivery'[d] = "new" <=> session'[d] = "none"
            /\ delivery'[d] # "new" => handle[d] # 0
            /\ delivery'[d] = "returned" /\ d \notin detached => session'[d] = "closed"
            /\ session'[d] = "closed" <=> outcome'[d] # "none"
            /\ delivery'[d] = "registered" => outcome'[d] # "ok"
            /\ d \in detached => delivery'[d] \in {"waiting", "returned"}
            /\ view[d] = "open" => delivery'[d] \in {"waiting", "returned"}
            /\ finishes'[d] = IF d \in detached /\ session'[d] = "closed" THEN 1 ELSE 0
            /\ delivery'[d] = "returned" =>
                 result'[d] = IF d \in detached THEN "detached" ELSE outcome'[d]
  <2>1. /\ delivery[d] = "new" <=> session[d] = "none"
        /\ delivery[d] # "new" => handle[d] # 0
        /\ delivery[d] = "returned" /\ d \notin detached => session[d] = "closed"
        /\ session[d] = "closed" <=> outcome[d] # "none"
        /\ delivery[d] = "registered" => outcome[d] # "ok"
        /\ d \in detached => delivery[d] \in {"waiting", "returned"}
        /\ view[d] = "open" => delivery[d] \in {"waiting", "returned"}
        /\ finishes[d] = IF d \in detached /\ session[d] = "closed" THEN 1 ELSE 0
        /\ delivery[d] = "returned" => result[d] = IF d \in detached THEN "detached" ELSE outcome[d]
    BY DEF EventsEnd
  <2>2. CASE d \in es
    <3>1. /\ session[d] = "pending" /\ session'[d] = "closed" /\ outcome'[d] = how
          /\ how = "ok" => Told(d)
          /\ finishes'[d] = IF d \in detached THEN finishes[d] + 1 ELSE finishes[d]
          /\ how \in {"ok", "error"}
      BY <2>2 DEF SessionsEnd
    <3> QED
      BY <1>1, <2>1, <3>1 DEF Told
  <2>3. CASE d \notin es
    <3>1. session'[d] = session[d] /\ outcome'[d] = outcome[d] /\ finishes'[d] = finishes[d]
      BY <2>3 DEF SessionsEnd
    <3> QED
      BY <1>1, <2>1, <3>1
  <2> QED
    BY <2>2, <2>3
<1>4. EventsEnd'
  BY <1>3 DEF EventsEnd
<1> QED
  BY <1>2, <1>4

\* What the delivery of an event returns is how the event ended after every step.
LEMMA EventsStep ==
  ASSUME Processes \subseteq Nat \ {0}, ManagerTypes, DeliveryTypes, FrameTypes, GateHeld,
         ProcessesKept, EventsHeld, EventsEnd, ActionsKept, FramesKept, Runtime!Next
  PROVE DeliveryTypes' /\ EventsEnd'
<1> USE DEF Runtime!lifeVars, Runtime!handleVars, Runtime!sessionVars, Runtime!pluginVars
<1>1. ASSUME NEW e \in Events, Runtime!Register(e) PROVE DeliveryTypes' /\ EventsEnd'
  <2>1. /\ delivery' = [delivery EXCEPT ![e] = "registered"] /\ handle' = [handle EXCEPT ![e] = proc]
        /\ session' = [session EXCEPT ![e] = "pending"] /\ delivery[e] = "new"
        /\ proc \in Processes /\ proc # 0
        /\ UNCHANGED <<outcome, finishes, result, detached, view>>
    BY <1>1 DEF Runtime!Register, ManagerTypes
  <2>2. DeliveryTypes'
    BY <2>1 DEF DeliveryTypes
  <2>3. EventsEnd'
    BY <2>1 DEF DeliveryTypes, EventsEnd
  <2> QED
    BY <2>2, <2>3
<1>2. ASSUME NEW e \in Events, Runtime!WriteEvent(e) PROVE DeliveryTypes' /\ EventsEnd'
  <2>1. /\ delivery' = [delivery EXCEPT ![e] = "waiting"] /\ view' = [view EXCEPT ![e] = "open"]
        /\ delivery[e] = "registered"
        /\ UNCHANGED <<handle, session, outcome, finishes, result, detached>>
    BY <1>2 DEF Runtime!WriteEvent
  <2>2. DeliveryTypes'
    BY <2>1 DEF DeliveryTypes
  <2>3. EventsEnd'
    BY <2>1 DEF DeliveryTypes, EventsEnd
  <2> QED
    BY <2>2, <2>3
<1>3. ASSUME NEW e \in Events, Runtime!Settle(e) PROVE DeliveryTypes' /\ EventsEnd'
  <2> DEFINE r == IF e \in detached THEN "detached" ELSE outcome[e]
  <2>1. /\ delivery[e] = "waiting" /\ (e \in detached \/ session[e] = "closed")
        /\ Runtime!Returned(e, r) /\ UNCHANGED <<handle, session, outcome, finishes, detached,
                                                 view>>
    BY <1>3 DEF Runtime!Settle
  <2>2. r \in {"ok", "error", "detached"} /\ SessionsEnd({}, "ok")
    BY <2>1, StaysEnds DEF DeliveryTypes, EventsEnd
  <2>3. (e \in detached => r = "detached") /\ (e \notin detached => session'[e] = "closed" /\ outcome'[e] = r)
    BY <2>1
  <2> HIDE DEF r
  <2> QED
    BY <2>1, <2>2, <2>3, ReturnsEnd
<1>4. ASSUME NEW e \in Events, Runtime!Timeout(e) PROVE DeliveryTypes' /\ EventsEnd'
  <2>1. CASE e \in detached \/ session[e] = "closed"
    <3> DEFINE r == IF e \in detached THEN "detached" ELSE outcome[e]
    <3>1. /\ delivery[e] \in {"registered", "waiting"}
          /\ Runtime!Returned(e, r) /\ UNCHANGED <<handle, session, outcome, finishes, detached,
                                                   view>>
      BY <1>4, <2>1 DEF Runtime!Timeout
    <3>2. r \in {"ok", "error", "detached"} /\ SessionsEnd({}, "ok")
      BY <2>1, <3>1, StaysEnds DEF DeliveryTypes, EventsEnd
    <3>3. (e \in detached => r = "detached") /\ (e \notin detached => session'[e] = "closed" /\ outcome'[e] = r)
      BY <2>1, <3>1
    <3> HIDE DEF r
    <3> QED
      BY <3>1, <3>2, <3>3, ReturnsEnd
  <2>2. CASE ~(e \in detached \/ session[e] = "closed")
    <3>1. /\ delivery[e] \in {"registered", "waiting"} /\ Runtime!CloseSessions({e}, "error")
          /\ Runtime!Returned(e, "error") /\ UNCHANGED <<handle, detached, view>>
      BY <1>4, <2>2 DEF Runtime!Timeout
    <3>2. Shuts({e}, "error")
      BY <2>2, <3>1 DEF Shuts, Runtime!Pending, EventsEnd, DeliveryTypes
    <3>3. SessionsEnd({e}, "error")
      BY <3>2, ClosingEnds
    <3>4. session'[e] = "closed" /\ outcome'[e] = "error"
      BY <3>3 DEF SessionsEnd
    <3> QED
      BY <2>2, <3>1, <3>3, <3>4, ReturnsEnd
  <2> QED
    BY <2>1, <2>2
<1>5. ASSUME NEW e \in Events, Runtime!WriteFails(e) PROVE DeliveryTypes' /\ EventsEnd'
  <2>1. /\ delivery[e] = "registered" /\ Runtime!FailRuntime(handle[e])
        /\ Runtime!Returned(e, "error") /\ UNCHANGED <<handle, detached, view>>
    BY <1>5 DEF Runtime!WriteFails
  <2>2. e \notin detached /\ session[e] \in {"pending", "closed"}
        /\ (session[e] = "closed" => outcome[e] = "error")
    BY <2>1 DEF EventsEnd, DeliveryTypes
  <2>3. CASE proc = handle[e]
    <3>1. Shuts(Runtime!Pending, "error")
      BY <2>1, <2>3 DEF Runtime!FailRuntime, Shuts
    <3>2. SessionsEnd(Runtime!Pending, "error")
      BY <3>1, ClosingEnds
    <3>3. session'[e] = "closed" /\ outcome'[e] = "error"
      BY <2>2, <3>2 DEF SessionsEnd, Runtime!Pending
    <3> QED
      BY <2>1, <2>2, <3>2, <3>3, ReturnsEnd
  <2>4. CASE proc # handle[e]
    <3>1. UNCHANGED <<session, outcome, finishes>>
      BY <2>1, <2>4 DEF Runtime!FailRuntime
    <3>2. session[e] = "closed"
      BY <2>2, <2>4 DEF EventsHeld
    <3>3. SessionsEnd({}, "ok")
      BY <3>1, StaysEnds
    <3> QED
      BY <2>1, <2>2, <3>1, <3>2, <3>3, ReturnsEnd
  <2> QED
    BY <2>3, <2>4
<1>6. ASSUME NEW p \in Processes, Runtime!DetachEvent(p) PROVE DeliveryTypes' /\ EventsEnd'
  <2> DEFINE e == Head(out[p]).event
  <2>1. e \in Events /\ Told(e)
    BY <1>6, ReadFrame, FrameRecord DEF Runtime!DetachEvent, FrameKept
  <2>2. /\ session[e] = "pending" /\ detached' = detached \cup {e}
        /\ UNCHANGED <<delivery, handle, result, session, outcome, finishes, view>>
    BY <1>6 DEF Runtime!DetachEvent, Runtime!Reply, Runtime!eventVars
  <2> HIDE DEF e
  <2>3. DeliveryTypes'
    BY <2>1, <2>2 DEF DeliveryTypes
  <2>4. EventsEnd'
    BY <2>1, <2>2 DEF DeliveryTypes, EventsEnd, Told
  <2> QED
    BY <2>3, <2>4
<1>7. CASE /\ ~\E e \in Events : Runtime!Deliver(e)
           /\ ~\E p \in Processes : Runtime!DetachEvent(p)
  <2>1. UNCHANGED <<delivery, handle, result, detached>>
    BY <1>7, DeliverySteps, DetachedSteps
  <2>2. /\ view' \in [Events -> {"unknown", "open", "ended"}]
        /\ \A e \in Events : view'[e] \in {view[e], "ended"}
    BY <1>7, ViewSteps DEF Runtime!Deliver
  <2>3. PICK es, how : SessionsEnd(es, how)
    BY <1>7, SessionSteps DEF Runtime!Deliver
  <2>4. DeliveryTypes'
    BY <2>1, <2>2, <2>3 DEF DeliveryTypes, SessionsEnd
  <2> QED
    BY <2>1, <2>2, <2>3, <2>4, EndsKept
<1> QED
  BY <1>1, <1>2, <1>3, <1>4, <1>5, <1>6, <1>7 DEF Runtime!Deliver

\* An action executes from when it is routed until it is answered.
LEMMA ExecutingSteps ==
  ASSUME Processes \subseteq Nat \ {0}, ManagerTypes, DeliveryTypes, FrameTypes, GateHeld,
         ProcessesKept, EventsHeld, ActionsKept, Runtime!Next
  PROVE \/ UNCHANGED executing
        \/ \E p \in Processes : Runtime!RouteAction(p)
        \/ \E x \in executing : Runtime!Respond(x)
<1>1. ASSUME NEW e \in Events, Runtime!Deliver(e) \/ Runtime!ExpireDetached(e) \/ Runtime!Plugin(e)
      PROVE UNCHANGED executing
  <2>1. CASE Runtime!Register(e) \/ Runtime!WriteEvent(e) \/ Runtime!WriteFails(e)
    BY <2>1 DEF Runtime!Register, Runtime!WriteEvent, Runtime!WriteFails
  <2>2. CASE Runtime!Settle(e) \/ Runtime!Timeout(e)
    BY <2>2 DEF Runtime!Settle, Runtime!Timeout
  <2>3. CASE Runtime!ExpireDetached(e) \/ Runtime!Plugin(e)
    BY <2>3 DEF Runtime!ExpireDetached, Runtime!Plugin, Runtime!Ask, Runtime!End
  <2> QED
    BY <1>1, <2>1, <2>2, <2>3 DEF Runtime!Deliver
<1>2. ASSUME NEW p \in Processes, Runtime!Read(p) \/ Runtime!Break(p)
      PROVE UNCHANGED executing \/ Runtime!RouteAction(p)
  <2>1. CASE Runtime!IgnoreFrame(p) \/ Runtime!RouteTerminal(p)
    BY <2>1 DEF Runtime!IgnoreFrame, Runtime!RouteTerminal
  <2>2. CASE Runtime!RefuseAction(p) \/ Runtime!DetachEvent(p) \/ Runtime!RefuseFrame(p)
    BY <2>2 DEF Runtime!RefuseAction, Runtime!DetachEvent, Runtime!RefuseFrame
  <2>3. CASE Runtime!ReadEnd(p) \/ Runtime!ReadGarbage(p)
    BY <2>3 DEF Runtime!ReadEnd, Runtime!ReadGarbage
  <2> QED
    BY <1>2, <2>1, <2>2, <2>3 DEF Runtime!Read, Runtime!Break
<1>3. ASSUME NEW p \in Processes, Runtime!Reap(p) \/ Runtime!Watch(p) \/ Runtime!Exit(p)
      PROVE UNCHANGED executing
  BY <1>3 DEF Runtime!Reap, Runtime!Watch, Runtime!Exit
<1>4. ASSUME Runtime!Start \/ Runtime!Starting PROVE UNCHANGED executing
  <2>1. CASE Runtime!Start \/ Runtime!SpawnFails \/ Runtime!Spawn
    BY <2>1 DEF Runtime!Start, Runtime!SpawnFails, Runtime!Spawn
  <2>2. CASE Runtime!InitDone \/ Runtime!InitFails \/ Runtime!InitCanceled \/ Runtime!StartReturns
    BY <2>2 DEF Runtime!InitDone, Runtime!InitFails, Runtime!InitCanceled, Runtime!StartReturns
  <2> QED
    BY <1>4, <2>1, <2>2 DEF Runtime!Starting
<1>5. ASSUME \/ Runtime!StopNothing \/ Runtime!StopExited \/ Runtime!StopFailed \/ Runtime!Stop
             \/ Runtime!Stopping
      PROVE UNCHANGED executing
  <2>1. CASE Runtime!StopNothing \/ Runtime!StopExited \/ Runtime!StopFailed \/ Runtime!Stop
    BY <2>1 DEF Runtime!StopNothing, Runtime!StopExited, Runtime!StopFailed, Runtime!Stop
  <2>2. CASE Runtime!StopReconcile \/ Runtime!StopShutdown \/ Runtime!StopDone
    BY <2>2 DEF Runtime!StopReconcile, Runtime!StopShutdown, Runtime!StopDone
  <2>3. CASE Runtime!StopTimeout \/ Runtime!StopGivesUp
    BY <2>3 DEF Runtime!StopTimeout, Runtime!StopGivesUp
  <2> QED
    BY <1>5, <2>1, <2>2, <2>3 DEF Runtime!Stopping
<1> QED
  BY <1>1, <1>2, <1>3, <1>4, <1>5 DEF Runtime!Next

\* Ending sessions and actions keeps the actions counted.
LEMMA ActionsShrink ==
  ASSUME ActionsKept, MaxPending \in Nat, DeliveryTypes, FrameTypes, NEW es, NEW how,
         Shuts(es, how), executing' \subseteq executing,
         \A x \in executing \ executing' : session'[x[1]] # "pending"
  PROVE ActionsKept'
<1>1. /\ pending' \subseteq pending /\ IsFiniteSet(pending')
      /\ \A x \in executing : x \in pending' <=> session'[x[1]] = "pending"
      /\ \A x \in executing : session'[x[1]] # "none"
      /\ pendingActions' = Cardinality(pending') /\ pendingActions' <= MaxPending
  BY ClosingActions
<1>2. pending' \subseteq executing
  BY <1>1 DEF ActionsKept
<1> QED
  BY <1>1, <1>2 DEF ActionsKept

\* What the reader takes for an action, it takes for one of an event.
LEMMA RoutedAction ==
  ASSUME Runtime!RuntimeAssumption, FrameTypes, FramesKept, NEW p \in Processes,
         Runtime!NextFrame(p), Runtime!IsAction(Head(out[p]))
  PROVE /\ Runtime!AskerOf(Head(out[p])) \in Events
        /\ Concurrency # 1 => Runtime!AskerOf(Head(out[p])) = Head(out[p]).event
<1> DEFINE f == Head(out[p])
<1>1. f.event \in Events
  BY ReadFrame, FrameRecord
<1>2. f.kind \in Actions \/ Runtime!Adopted(f)
  BY DEF Runtime!IsAction
<1>3. CASE f.kind = "message"
  <2>1. Runtime!Adopted(f)
    BY <1>2, <1>3 DEF Runtime!RuntimeAssumption
  <2>2. Concurrency = 1 /\ Cardinality(Runtime!Pending) = 1
    BY <2>1, RuntimeCardinality DEF Runtime!Adopted
  <2>3. Runtime!Pending # {}
    BY <2>2, FS_EmptySet
  <2>4. Runtime!AskerOf(f) \in Runtime!Pending
    BY <1>3, <2>3, Zenon DEF Runtime!AskerOf
  <2> QED
    BY <2>2, <2>4 DEF Runtime!Pending
<1>4. CASE f.kind # "message"
  BY <1>1, <1>4 DEF Runtime!AskerOf
<1> QED
  BY <1>3, <1>4

\* The actions that wait are counted after every step.
LEMMA ActionsStep ==
  ASSUME Runtime!RuntimeAssumption, ManagerTypes, DeliveryTypes, FrameTypes, GateHeld,
         ProcessesKept, EventsHeld, EventsEnd, ActionsKept, FramesKept, Runtime!Next
  PROVE ActionsKept'
<1> USE DEF Runtime!lifeVars, Runtime!handleVars, Runtime!sessionVars, Runtime!pluginVars
<1>a. Processes \subseteq Nat \ {0} /\ MaxPending \in Nat
  BY DEF Runtime!RuntimeAssumption
<1>b. pendingActions \in Nat /\ pending \subseteq executing /\ IsFiniteSet(pending)
  BY FS_CardinalityType DEF ActionsKept
<1>1. ASSUME NEW e \in Events, Runtime!Register(e) PROVE ActionsKept'
  <2>1. UNCHANGED <<pending, executing,
                    pendingActions>> /\ session' = [session EXCEPT ![e] = "pending"]
    BY <1>1 DEF Runtime!Register
  <2>2. session[e] = "none"
    BY <1>1 DEF Runtime!Register, EventsEnd
  <2>3. \A x \in executing : x[1] \in Events
    BY DEF FrameTypes
  <2> QED
    BY <2>1, <2>2, <2>3 DEF ActionsKept, DeliveryTypes
<1>2. ASSUME NEW p \in Processes, Runtime!RouteAction(p) PROVE ActionsKept'
  <2> DEFINE f == Head(out[p])
             x == <<Runtime!AskerOf(f), f>>
  <2>1. /\ Runtime!NextFrame(p) /\ Runtime!IsAction(f) /\ session[x[1]] = "pending"
        /\ pendingActions < MaxPending /\ pending' = pending \cup {x}
        /\ pendingActions' = pendingActions + 1 /\ executing' = executing \cup {x}
        /\ UNCHANGED session
    BY <1>2 DEF Runtime!RouteAction
  <2>2. FrameKept(p, f)
    BY <2>1, ReadFrame
  <2>3. x \notin executing
    BY <2>2 DEF FrameKept
  <2> HIDE DEF f, x
  <2>4. IsFiniteSet(pending') /\ x \notin pending
    BY <1>b, <2>1, <2>3, FS_AddElement
  <2>5. Cardinality(pending') = Cardinality(pending) + 1
    BY <1>b, <2>1, <2>4, FS_AddElement
  <2>6. pendingActions' = Cardinality(pending') /\ pendingActions' <= MaxPending
    BY <1>a, <1>b, <2>1, <2>5 DEF ActionsKept
  <2>7. \A y \in executing' : (y \in pending' <=> session'[y[1]] = "pending") /\ session'[y[1]] # "none"
    BY <2>1 DEF ActionsKept
  <2> QED
    BY <1>b, <2>1, <2>4, <2>6, <2>7 DEF ActionsKept
<1>3. ASSUME NEW x \in executing, Runtime!Answer(x) PROVE ActionsKept'
  <2>1. /\ executing' = executing \ {x} /\ session[x[1]] = "pending" /\ pending' = pending \ {x}
        /\ pendingActions' = pendingActions - 1 /\ UNCHANGED session
    BY <1>3 DEF Runtime!Answer
  <2>2. x \in pending
    BY <2>1 DEF ActionsKept
  <2>3. IsFiniteSet(pending')
    BY <1>b, <2>1, FS_RemoveElement
  <2>4. Cardinality(pending') = Cardinality(pending) - 1
    BY <1>b, <2>1, <2>2, FS_RemoveElement
  <2>5. pendingActions' = Cardinality(pending') /\ pendingActions' <= MaxPending
    BY <1>a, <1>b, <2>1, <2>4 DEF ActionsKept
  <2>6. pending' \subseteq executing'
    BY <1>b, <2>1
  <2>7. \A y \in executing' : (y \in pending' <=> session'[y[1]] = "pending") /\ session'[y[1]] # "none"
    BY <2>1 DEF ActionsKept
  <2> QED
    BY <2>3, <2>5, <2>6, <2>7 DEF ActionsKept
<1>4. ASSUME NEW x \in executing, Runtime!AnswerDropped(x) PROVE ActionsKept'
  <2>1. executing' = executing \ {x} /\ UNCHANGED <<session, pendingActions, pending, outcome,
                                                    finishes>>
    BY <1>4 DEF Runtime!AnswerDropped
  <2>2. session[x[1]] # "pending"
    BY <1>4 DEF Runtime!AnswerDropped, EventsHeld, FrameTypes
  <2>3. Shuts({}, "ok")
    BY <2>1, ClosingNothing
  <2> QED
    BY <1>a, <2>1, <2>2, <2>3, ActionsShrink
<1>5. ASSUME NEW x \in executing, Runtime!AnswerFails(x) PROVE ActionsKept'
  <2>1. executing' = executing \ {x} /\ x[1] \in Events
    BY <1>5 DEF Runtime!AnswerFails, FrameTypes
  <2>2. Shuts(Runtime!Pending, "error")
    BY <1>5 DEF Runtime!AnswerFails, Runtime!FailRuntime, Shuts
  <2>3. session'[x[1]] # "pending"
    BY <2>1, <2>2, ClosingEffect DEF Runtime!Pending
  <2> QED
    BY <1>a, <2>1, <2>2, <2>3, ActionsShrink
<1>6. CASE /\ ~\E e \in Events : Runtime!Register(e)
           /\ ~\E p \in Processes : Runtime!RouteAction(p)
           /\ ~\E x \in executing : Runtime!Respond(x)
  <2>1. UNCHANGED executing
    BY <1>6, <1>a, ExecutingSteps
  <2>2. PICK es, how : Shuts(es, how)
    BY <1>6, <1>a, ClosingSteps DEF Runtime!Respond
  <2> QED
    BY <1>a, <2>1, <2>2, ActionsShrink
<1> QED
  BY <1>1, <1>2, <1>3, <1>4, <1>5, <1>6 DEF Runtime!Respond

\* No more events are detached than may be after every step.
LEMMA DetachedStep ==
  ASSUME Runtime!RuntimeAssumption, ManagerTypes, DeliveryTypes, FrameTypes, GateHeld,
         ProcessesKept, EventsHeld, EventsEnd, ActionsKept, DetachedKept, FramesKept, Runtime!Next
  PROVE DetachedKept'
<1>a. Processes \subseteq Nat \ {0} /\ MaxDetached \in Nat
  BY DEF Runtime!RuntimeAssumption
<1> DEFINE S == Runtime!Pending \cap detached
<1>b. IsFiniteSet(detached) /\ IsFiniteSet(S) /\ Cardinality(S) <= MaxDetached
  BY FS_Subset DEF DetachedKept
<1>c. Cardinality(S) \in Nat
  BY <1>b, FS_CardinalityType
<1>1. ASSUME NEW p \in Processes, Runtime!DetachEvent(p) PROVE DetachedKept'
  <2> DEFINE e == Head(out[p]).event
  <2>1. e \in Events
    BY <1>1, ReadFrame, FrameRecord DEF Runtime!DetachEvent
  <2>2. Cardinality(S) < MaxDetached /\ detached' = detached \cup {e} /\ UNCHANGED session
    BY <1>1, RuntimeCardinality DEF Runtime!DetachEvent, Runtime!Reply, Runtime!sessionVars
  <2> HIDE DEF e
  <2>3. IsFiniteSet(detached')
    BY <1>b, <2>2, FS_AddElement
  <2>4. (Runtime!Pending \cap detached)' \subseteq S \cup {e}
    BY <2>2 DEF Runtime!Pending
  <2>5. IsFiniteSet(S \cup {e})
    BY <1>b, FS_AddElement
  <2>6. Cardinality(S \cup {e}) <= Cardinality(S) + 1
    <3> HIDE DEF S
    <3>1. Cardinality(S \cup {e}) = IF e \in S THEN Cardinality(S) ELSE Cardinality(S) + 1
      BY <1>b, FS_AddElement
    <3> QED
      BY <1>c, <3>1
  <2>7. Cardinality((Runtime!Pending \cap detached)') <= Cardinality(S \cup {e})
    BY <2>4, <2>5, FS_Subset
  <2>8. IsFiniteSet((Runtime!Pending \cap detached)')
    BY <2>4, <2>5, FS_Subset
  <2>9. Cardinality((Runtime!Pending \cap detached)') \in Nat /\ Cardinality(S \cup {e}) \in Nat
    BY <2>5, <2>8, FS_CardinalityType
  <2> HIDE DEF S
  <2>10. Cardinality((Runtime!Pending \cap detached)') <= MaxDetached
    BY <1>a, <1>c, <2>2, <2>6, <2>7, <2>9
  <2> QED
    BY <2>3, <2>10 DEF DetachedKept
<1>2. CASE ~\E p \in Processes : Runtime!DetachEvent(p)
  <2>1. UNCHANGED detached
    BY <1>2, <1>a, DetachedSteps
  <2>2. (Runtime!Pending \cap detached)' \subseteq S
    <3>1. ASSUME NEW e \in Events, Runtime!Register(e) PROVE (Runtime!Pending \cap detached)' \subseteq S
      <4>1. e \notin detached /\ session' = [session EXCEPT ![e] = "pending"]
        BY <3>1 DEF Runtime!Register, EventsEnd
      <4> QED
        BY <2>1, <4>1 DEF Runtime!Pending, DeliveryTypes
    <3>2. ASSUME NEW es, NEW how, SessionsEnd(es, how)
          PROVE (Runtime!Pending \cap detached)' \subseteq S
      BY <2>1, <3>2 DEF Runtime!Pending, SessionsEnd
    <3> QED
      BY <1>a, <3>1, <3>2, SessionSteps, Zenon
  <2>3. Cardinality((Runtime!Pending \cap detached)') <= Cardinality(S)
    BY <1>b, <2>2, FS_Subset
  <2>4. IsFiniteSet((Runtime!Pending \cap detached)')
    BY <1>b, <2>2, FS_Subset
  <2>5. Cardinality((Runtime!Pending \cap detached)') \in Nat
    BY <2>4, FS_CardinalityType
  <2> HIDE DEF S
  <2>6. Cardinality((Runtime!Pending \cap detached)') <= MaxDetached
    BY <1>a, <1>b, <1>c, <2>3, <2>5
  <2> QED
    BY <1>b, <2>1, <2>6 DEF DetachedKept
<1> QED
  BY <1>1, <1>2

\* Who writes to a pipe and who reads from it.
LEMMA OutSteps ==
  ASSUME Processes \subseteq Nat \ {0}, ManagerTypes, DeliveryTypes, FrameTypes, GateHeld,
         ProcessesKept, EventsHeld, ActionsKept, Runtime!Next
  PROVE OutShrinks \/ \E e \in Events : Runtime!Plugin(e)
<1>1. ASSUME NEW e \in Events, EventSteps(e) PROVE OutShrinks \/ Runtime!Plugin(e)
  <2>1. CASE Runtime!Register(e) \/ Runtime!WriteEvent(e) \/ Runtime!Settle(e)
    BY <2>1, OutStays DEF Runtime!Register, Runtime!WriteEvent, Runtime!Settle
  <2>2. CASE Runtime!Timeout(e) \/ Runtime!ExpireDetached(e)
    BY <2>2, OutStays DEF Runtime!Timeout, Runtime!ExpireDetached
  <2> QED
    BY <1>1, <2>1, <2>2 DEF EventSteps
<1>2. ASSUME NEW p \in Processes, FrameSteps(p) PROVE OutShrinks
  <2>1. out[p] # <<>> /\ Runtime!Consume(p)
    <3>1. CASE Runtime!IgnoreFrame(p) \/ Runtime!RouteTerminal(p) \/ Runtime!RouteAction(p)
      BY <3>1
         DEF Runtime!IgnoreFrame, Runtime!RouteTerminal, Runtime!RouteAction, Runtime!NextFrame
    <3>2. CASE Runtime!RefuseAction(p) \/ Runtime!DetachEvent(p)
      BY <3>2 DEF Runtime!RefuseAction, Runtime!DetachEvent, Runtime!NextFrame
    <3> QED
      BY <1>2, <3>1, <3>2 DEF FrameSteps
  <2> QED
    BY <2>1, OutTail
<1>3. ASSUME NEW x \in executing, Runtime!Answer(x) \/ Runtime!AnswerDropped(x) PROVE OutShrinks
  BY <1>3, OutStays DEF Runtime!Answer, Runtime!AnswerDropped
<1>4. ASSUME NEW p \in Processes, Runtime!Exit(p) PROVE OutShrinks
  BY <1>4, OutStays DEF Runtime!Exit
<1> QED
  BY <1>1, <1>2, <1>3, <1>4, QuietOrServing, QuietSteps DEF Serving

\* An event that was written stays written.
LEMMA ToldSteps ==
  ASSUME Processes \subseteq Nat \ {0}, ManagerTypes, DeliveryTypes, FrameTypes, GateHeld,
         ProcessesKept, EventsHeld, EventsEnd, ActionsKept, Runtime!Next
  PROVE \A e \in Events : Told(e) =>
          Told(e)' /\ handle'[e] = handle[e] /\ view'[e] \in {view[e], "ended"}
<1> SUFFICES ASSUME NEW e \in Events, Told(e)
             PROVE Told(e)' /\ handle'[e] = handle[e] /\ view'[e] \in {view[e], "ended"}
  OBVIOUS
<1>1. view'[e] \in {view[e], "ended"}
  <2>1. ASSUME NEW d \in Events, Runtime!WriteEvent(d) PROVE view'[e] = view[e]
    BY <2>1 DEF Runtime!WriteEvent, Told, DeliveryTypes
  <2> QED
    BY <2>1, ViewSteps
<1>2. ASSUME NEW d \in Events, Runtime!Deliver(d) PROVE Told(e)' /\ handle'[e] = handle[e]
  <2>1. CASE Runtime!Register(d)
    BY <2>1 DEF Runtime!Register, Told, DeliveryTypes
  <2>2. CASE Runtime!WriteEvent(d)
    BY <2>2 DEF Runtime!WriteEvent, Told, DeliveryTypes
  <2>3. CASE Runtime!WriteFails(d) \/ Runtime!Settle(d) \/ Runtime!Timeout(d)
    <3>1. UNCHANGED handle /\ delivery' = [delivery EXCEPT ![d] = "returned"]
      BY <2>3 DEF Runtime!WriteFails, Runtime!Settle, Runtime!Timeout, Runtime!Returned
    <3> QED
      BY <3>1 DEF Told, DeliveryTypes
  <2> QED
    BY <1>2, <2>1, <2>2, <2>3 DEF Runtime!Deliver
<1>3. CASE UNCHANGED <<delivery, handle, result>>
  BY <1>1, <1>3 DEF Told
<1> QED
  BY <1>1, <1>2, <1>3, DeliverySteps

\* What was served and asked stays, and less is on the way.
LEMMA FramesShrink ==
  ASSUME FrameTypes, FramesKept, ServedOnce, ActionsKept, OutShrinks,
         UNCHANGED <<asked, answered>>, executing' \subseteq executing, pending' \subseteq pending,
         \A e \in Events : Told(e) =>
           Told(e)' /\ handle'[e] = handle[e] /\ view'[e] \in {view[e], "ended"}
  PROVE FramesKept' /\ ServedOnce'
<1>1. ASSUME NEW f \in Runtime!Frames, Served(f) PROVE Served(f)'
  BY <1>1, FrameRecord DEF Served
<1>2. ASSUME NEW p \in Processes, NEW f \in Pipe(out'[p]) PROVE FrameKept(p, f)'
  <2>1. f \in Pipe(out[p]) /\ \A g \in Pipe(out'[p]) : g \in Pipe(out[p])
    BY <1>2 DEF OutShrinks
  <2>2. f \in Runtime!Frames
    BY <2>1 DEF FrameTypes, Pipe
  <2>3. FrameKept(p, f)
    BY <2>1 DEF FramesKept
  <2>4. /\ Told(f.event)' /\ handle'[f.event] = p
        /\ view'[f.event] \in {view[f.event], "ended"}
    BY <2>2, <2>3, FrameRecord DEF FrameKept
  <2> QED
    BY <2>1, <2>3, <2>4 DEF FrameKept
<1>3. FramesKept'
  BY <1>2 DEF FramesKept, OutShrinks
<1>4. \A x \in executing : x[2] \in Runtime!Frames
  BY DEF FrameTypes
<1>5. ServedOnce'
  BY <1>1, <1>4 DEF ServedOnce, FrameTypes
<1> QED
  BY <1>3, <1>5

\* The reader answers a frame itself.
LEMMA FrameAnswered ==
  ASSUME FrameTypes, FramesKept, ServedOnce, ActionsKept, NEW p \in Processes,
         Runtime!NextFrame(p), Runtime!Consume(p),
         answered' = answered \cup {Head(out[p])},
         UNCHANGED <<asked, executing, pending, delivery, handle, view>>
  PROVE FrameTypes' /\ FramesKept' /\ ServedOnce'
<1>0. PICK f : f = Head(out[p])
  OBVIOUS
<1>1. f \in Runtime!Frames /\ f \in Pipe(out[p]) /\ FrameKept(p, f) /\ out[p] # <<>>
  BY <1>0, ReadFrame
<1>2. OutShrinks /\ f \notin Pipe(out'[p])
  BY <1>0, <1>1, OutTail DEF FramesKept
<1>3. FrameTypes'
  BY <1>0, <1>1, <1>2 DEF FrameTypes, OutShrinks
<1>4. ASSUME NEW q \in Processes, NEW g \in Pipe(out'[q]) PROVE FrameKept(q, g)'
  <2>1. g \in Pipe(out[q]) /\ \A h \in Pipe(out'[q]) : h \in Pipe(out[q])
    BY <1>2, <1>4 DEF OutShrinks
  <2>2. FrameKept(q, g)
    BY <2>1 DEF FramesKept
  <2>3. g # f
    BY <1>1, <1>2, <1>4, <2>2 DEF FrameKept
  <2> QED
    BY <1>0, <2>1, <2>2, <2>3 DEF FrameKept, Told
<1>5. FramesKept'
  BY <1>2, <1>4 DEF FramesKept, OutShrinks
<1>6. Served(f)
  BY <1>1 DEF FrameKept, Served
<1>7. \A x \in pending : x[2] # f
  BY <1>1 DEF FrameKept, ActionsKept
<1>8. ServedOnce'
  BY <1>0, <1>6, <1>7 DEF ServedOnce, Served, Told
<1> QED
  BY <1>3, <1>5, <1>8

\* Routing an action keeps what is known of the frames.
LEMMA FrameRouted ==
  ASSUME Runtime!RuntimeAssumption, FrameTypes, FramesKept, ServedOnce, ActionsKept,
         NEW p \in Processes, Runtime!RouteAction(p)
  PROVE FrameTypes' /\ FramesKept' /\ ServedOnce'
<1>a. PICK f, e : f = Head(out[p]) /\ e = Runtime!AskerOf(f)
  OBVIOUS
<1>0. /\ Runtime!NextFrame(p) /\ Runtime!IsAction(f) /\ Runtime!Consume(p)
      /\ pending' = pending \cup {<<e, f>>} /\ executing' = executing \cup {<<e, f>>}
      /\ UNCHANGED <<asked, answered, delivery, handle, view>>
  BY <1>a DEF Runtime!RouteAction, Runtime!pluginVars, Runtime!eventVars
<1>1. f \in Runtime!Frames /\ f \in Pipe(out[p]) /\ FrameKept(p, f) /\ out[p] # <<>>
  BY <1>a, <1>0, ReadFrame
<1>2. OutShrinks /\ f \notin Pipe(out'[p])
  BY <1>a, <1>0, <1>1, OutTail DEF FramesKept
<1>3. e \in Events /\ (Concurrency # 1 => e = f.event)
  BY <1>a, <1>0, RoutedAction
<1>4. FrameTypes'
  BY <1>0, <1>1, <1>2, <1>3 DEF FrameTypes, OutShrinks
<1>5. ASSUME NEW q \in Processes, NEW g \in Pipe(out'[q]) PROVE FrameKept(q, g)'
  <2>1. g \in Pipe(out[q]) /\ \A h \in Pipe(out'[q]) : h \in Pipe(out[q])
    BY <1>2, <1>5 DEF OutShrinks
  <2>2. FrameKept(q, g)
    BY <2>1 DEF FramesKept
  <2>3. g # f
    BY <1>1, <1>2, <1>5, <2>2 DEF FrameKept
  <2>4. \A x \in executing' : x[2] # g
    BY <1>0, <2>2, <2>3 DEF FrameKept
  <2>5. g.kind \in Terminals => f.event # g.event
    BY <1>1, <2>2, <2>3 DEF FrameKept
  <2>6. g.kind \in Terminals => \A x \in pending' : x[2].event # g.event
    BY <1>0, <2>2, <2>5 DEF FrameKept
  <2> QED
    BY <1>0, <2>1, <2>2, <2>4, <2>6 DEF FrameKept, Told
<1>6. FramesKept'
  BY <1>2, <1>5 DEF FramesKept, OutShrinks
<1>7. Served(f)' /\ f \notin answered /\ \A x \in executing : x[2] # f
  BY <1>0, <1>1 DEF FrameKept, Served, Told
<1>8. \A x, y \in executing' : x[2] = y[2] => x = y
  BY <1>0, <1>7 DEF ServedOnce
<1>9. \A x \in executing' : Served(x[2])'
  BY <1>0, <1>7 DEF ServedOnce, Served, Told
<1>10. \A x \in pending' : x[2] \notin answered'
  BY <1>0, <1>7 DEF ServedOnce
<1>11. \A g \in answered' : Served(g)'
  BY <1>0 DEF ServedOnce, Served, Told
<1>12. Concurrency # 1 => \A x \in executing' : x[1] = x[2].event
  BY <1>0, <1>3 DEF ServedOnce
<1>13. ServedOnce'
  BY <1>8, <1>9, <1>10, <1>11, <1>12 DEF ServedOnce
<1> QED
  BY <1>4, <1>6, <1>13

\* The answer of an action keeps what is known of the frames.
LEMMA ActionAnswered ==
  ASSUME FrameTypes, FramesKept, ServedOnce, ActionsKept, NEW x \in executing, Runtime!Answer(x)
  PROVE FrameTypes' /\ FramesKept' /\ ServedOnce'
<1>1. /\ executing' = executing \ {x} /\ pending' = pending \ {x}
      /\ answered' = answered \cup {x[2]}
      /\ UNCHANGED <<out, asked, delivery, handle, view>>
  BY DEF Runtime!Answer, Runtime!eventVars
<1>2. x[2] \in Runtime!Frames /\ Served(x[2])
  BY DEF FrameTypes, ServedOnce
<1>3. FrameTypes'
  BY <1>1, <1>2 DEF FrameTypes
<1>4. FramesKept'
  BY <1>1 DEF FramesKept, FrameKept, Told
<1>5. \A y \in pending' : y[2] # x[2]
  BY <1>1 DEF ServedOnce, ActionsKept
<1>6. ServedOnce'
  BY <1>1, <1>2, <1>5 DEF ServedOnce, Served, Told
<1> QED
  BY <1>3, <1>4, <1>6

\* A plugin that has an event open may send a frame of it.
LEMMA SendEffect ==
  ASSUME FrameTypes, EventsEnd, EventsHeld, DeliveryTypes, NEW e \in Events,
         NEW tag \in Runtime!Ids \cup Terminals, Runtime!Send(e, tag)
  PROVE /\ handle[e] \in Processes /\ Told(e) /\ view[e] = "open"
        /\ Runtime!Frame(e, tag) \in Runtime!Frames
        /\ out' \in [Processes -> Seq(Runtime!Frames)]
        /\ Pipe(out'[handle[e]]) = Pipe(out[handle[e]]) \cup {Runtime!Frame(e, tag)}
        /\ \A q \in Processes : q # handle[e] => out'[q] = out[q]
        /\ SentOnce(out[handle[e]]) /\ Runtime!Frame(e, tag) \notin Pipe(out[handle[e]])
             => SentOnce(out'[handle[e]])
<1> DEFINE p == handle[e]
           f == Runtime!Frame(e, tag)
<1>1. p \in Processes /\ Told(e) /\ view[e] = "open"
  BY DEF Runtime!Send, EventsEnd, Told, DeliveryTypes
<1>2. f \in Runtime!Frames
  BY DEF Runtime!Frame, Runtime!Frames
<1>3. out[p] \in Seq(Runtime!Frames) /\ out' = [out EXCEPT ![p] = Append(out[p], f)]
  BY <1>1 DEF FrameTypes, Runtime!Send
<1>4. /\ Append(out[p], f) \in Seq(Runtime!Frames)
      /\ Pipe(Append(out[p], f)) = Pipe(out[p]) \cup {f}
      /\ SentOnce(out[p]) /\ f \notin Pipe(out[p]) => SentOnce(Append(out[p], f))
  BY <1>2, <1>3, PipeAppend
<1> HIDE DEF p, f
<1>5. /\ out' \in [Processes -> Seq(Runtime!Frames)] /\ out'[p] = Append(out[p], f)
      /\ \A q \in Processes : q # p => out'[q] = out[q]
  BY <1>1, <1>3, <1>4, Zenon DEF FrameTypes
<1> QED
  BY <1>1, <1>2, <1>4, <1>5 DEF p, f

\* A frame that asks keeps what is known of the frames.
LEMMA FrameAsked ==
  ASSUME Runtime!RuntimeAssumption, DeliveryTypes, FrameTypes, EventsHeld, EventsEnd, FramesKept,
         ServedOnce, NEW e \in Events, NEW a \in Runtime!Ids, Runtime!Ask(e, a)
  PROVE FrameTypes' /\ FramesKept' /\ ServedOnce'
<1> DEFINE F == Runtime!Frame(e, a)
           P == handle[e]
<1>0. PICK f, p : f = F /\ p = P
  OBVIOUS
<1>1. /\ f \notin asked /\ asked' = asked \cup {f} /\ Runtime!Send(e, a)
      /\ UNCHANGED <<executing, pending, answered, delivery, handle, view>>
  BY <1>0 DEF Runtime!Ask, Runtime!sessionVars, Runtime!eventVars
<1>2. /\ p \in Processes /\ handle[e] = p /\ Told(e) /\ view[e] = "open" /\ f \in Runtime!Frames
      /\ out' \in [Processes -> Seq(Runtime!Frames)]
      /\ Pipe(out'[p]) = Pipe(out[p]) \cup {f}
      /\ \A q \in Processes : q # p => out'[q] = out[q]
      /\ SentOnce(out[p]) /\ f \notin Pipe(out[p]) => SentOnce(out'[p])
  BY <1>0, <1>1, SendEffect
<1>3. f.event = e /\ f.kind \in Runtime!Ids /\ f.kind \notin Terminals
  BY <1>0 DEF Runtime!Frame, Runtime!RuntimeAssumption
<1> HIDE DEF F, P
<1>4. FrameTypes'
  BY <1>1, <1>2 DEF FrameTypes
<1>5. f \notin Pipe(out[p]) /\ f \notin answered /\ \A x \in executing : x[2] # f
  BY <1>1, <1>2, <1>3 DEF FramesKept, FrameKept, ServedOnce, Served
<1>6. FrameKept(p, f)'
  BY <1>1, <1>2, <1>3, <1>5 DEF FrameKept, Told
<1>7. ASSUME NEW q \in Processes, NEW g \in Pipe(out[q]) PROVE FrameKept(q, g)'
  <2>1. FrameKept(q, g)
    BY <1>7 DEF FramesKept
  <2>2. g.kind \in Terminals => \A h \in Pipe(out'[q]) : h.event = g.event => h = g
    <3>1. g.kind \in Terminals => g.event # e
      BY <1>2, <2>1 DEF FrameKept
    <3> QED
      BY <1>2, <1>3, <2>1, <3>1 DEF FrameKept
  <2> QED
    BY <1>1, <2>1, <2>2 DEF FrameKept, Told
<1>8. FramesKept'
  <2>1. ASSUME NEW q \in Processes, NEW g \in Pipe(out'[q]) PROVE FrameKept(q, g)'
    BY <1>2, <1>6, <1>7, <2>1
  <2>2. ASSUME NEW q \in Processes PROVE SentOnce(out'[q])
    BY <1>2, <1>5 DEF FramesKept
  <2> QED
    BY <2>1, <2>2 DEF FramesKept
<1>9. ServedOnce'
  BY <1>1 DEF ServedOnce, Served, Told
<1> QED
  BY <1>4, <1>8, <1>9

\* A terminal keeps what is known of the frames.
LEMMA TerminalSent ==
  ASSUME Runtime!RuntimeAssumption, DeliveryTypes, FrameTypes, EventsHeld, EventsEnd, ActionsKept,
         FramesKept, ServedOnce, NEW e \in Events, NEW tag \in Terminals, Runtime!End(e, tag)
  PROVE FrameTypes' /\ FramesKept' /\ ServedOnce'
<1> DEFINE F == Runtime!Frame(e, tag)
           P == handle[e]
<1>0. PICK f, p : f = F /\ p = P
  OBVIOUS
<1>1. /\ Runtime!AskedOf(e) \subseteq answered /\ view' = [view EXCEPT ![e] = "ended"]
      /\ Runtime!Send(e, tag)
      /\ UNCHANGED <<executing, pending, asked, answered, delivery, handle>>
  BY <1>0 DEF Runtime!End, Runtime!sessionVars, Runtime!eventVars
<1>2. /\ p \in Processes /\ handle[e] = p /\ Told(e) /\ view[e] = "open" /\ f \in Runtime!Frames
      /\ out' \in [Processes -> Seq(Runtime!Frames)]
      /\ Pipe(out'[p]) = Pipe(out[p]) \cup {f}
      /\ \A q \in Processes : q # p => out'[q] = out[q]
      /\ SentOnce(out[p]) /\ f \notin Pipe(out[p]) => SentOnce(out'[p])
  BY <1>0, <1>1, SendEffect
<1>3. f.event = e /\ f.kind \in Terminals /\ f.kind \notin Runtime!Ids
  BY <1>0 DEF Runtime!Frame, Runtime!RuntimeAssumption
<1>v. view'[e] = "ended" /\ \A d \in Events : view'[d] \in {view[d], "ended"}
  BY <1>1 DEF DeliveryTypes
<1> HIDE DEF F, P
<1>4. FrameTypes'
  BY <1>1, <1>2 DEF FrameTypes
<1>5. f \notin Pipe(out[p]) /\ f \notin answered /\ \A x \in executing : x[2] # f
  BY <1>1, <1>2, <1>3 DEF FramesKept, FrameKept, ServedOnce, Served
<1>6. ASSUME NEW q \in Processes, NEW g \in Pipe(out[q]) PROVE g.event # e
  <2>1. FrameKept(q, g) /\ g \in Runtime!Frames
    BY <1>6 DEF FramesKept, FrameTypes, Pipe
  <2>2. ASSUME g.event = e PROVE FALSE
    <3>1. g.kind \in Runtime!Ids
      BY <1>2, <2>1, <2>2, FrameRecord DEF FrameKept
    <3>2. g \in Runtime!AskedOf(e)
      BY <1>2, <2>1, <2>2, <3>1 DEF FrameKept, Runtime!AskedOf
    <3> QED
      BY <1>1, <2>1, <3>2 DEF FrameKept
  <2> QED
    BY <2>2
<1>7. ASSUME NEW x \in pending PROVE x[2].event # e
  <2>1. x \in executing /\ x[2] \in Runtime!Frames
    BY DEF ActionsKept, FrameTypes
  <2>2. Served(x[2]) /\ x[2] \notin answered
    BY <2>1 DEF ServedOnce
  <2>3. ASSUME x[2].event = e PROVE FALSE
    <3>1. x[2].kind \in Runtime!Ids
      BY <1>2, <2>1, <2>2, <2>3, FrameRecord DEF Served
    <3>2. x[2] \in Runtime!AskedOf(e)
      BY <1>2, <2>2, <2>3, <3>1 DEF Served, Runtime!AskedOf
    <3> QED
      BY <1>1, <2>2, <3>2
  <2> QED
    BY <2>3
<1>8. FrameKept(p, f)'
  <2>1. \A g \in Pipe(out'[p]) : g.event = f.event => g = f
    BY <1>2, <1>3, <1>6
  <2> QED
    BY <1>1, <1>2, <1>3, <1>5, <1>7, <1>v, <2>1 DEF FrameKept, Told
<1>9. ASSUME NEW q \in Processes, NEW g \in Pipe(out[q]) PROVE FrameKept(q, g)'
  <2>1. FrameKept(q, g) /\ g.event # e /\ g \in Runtime!Frames
    BY <1>6, <1>9 DEF FramesKept, FrameTypes, Pipe
  <2>2. \A h \in Pipe(out'[q]) : h.event = g.event => h \in Pipe(out[q])
    BY <1>2, <1>3, <2>1
  <2>3. view'[g.event] = view[g.event]
    BY <1>1, <2>1, FrameRecord DEF DeliveryTypes
  <2> QED
    BY <1>1, <2>1, <2>2, <2>3 DEF FrameKept, Told
<1>10. FramesKept'
  <2>1. ASSUME NEW q \in Processes, NEW g \in Pipe(out'[q]) PROVE FrameKept(q, g)'
    BY <1>2, <1>8, <1>9, <2>1
  <2>2. ASSUME NEW q \in Processes PROVE SentOnce(out'[q])
    BY <1>2, <1>5 DEF FramesKept
  <2> QED
    BY <2>1, <2>2 DEF FramesKept
<1>11. ASSUME NEW g \in Runtime!Frames, Served(g) PROVE Served(g)'
  BY <1>1, <1>11, <1>v, FrameRecord DEF Served, Told
<1>12. ServedOnce'
  BY <1>1, <1>11 DEF ServedOnce, FrameTypes
<1> QED
  BY <1>4, <1>10, <1>12

\* A process that exits sends no more.
LEMMA ProcessExits ==
  ASSUME DeliveryTypes, FrameTypes, FramesKept, ServedOnce, NEW p \in Processes, Runtime!Exit(p)
  PROVE FrameTypes' /\ FramesKept' /\ ServedOnce'
<1>1. /\ asked' = {f \in asked : handle[f.event] # p}
      /\ answered' = {f \in answered : handle[f.event] # p}
      /\ \A e \in Events : view'[e] = IF handle[e] = p THEN "ended" ELSE view[e]
      /\ UNCHANGED <<out, executing, pending, delivery, handle>>
  BY DEF Runtime!Exit, Runtime!sessionVars, Runtime!eventVars
<1>2. FrameTypes'
  BY <1>1 DEF FrameTypes
<1>3. ASSUME NEW q \in Processes, NEW g \in Pipe(out[q]) PROVE FrameKept(q, g)'
  <2>1. FrameKept(q, g) /\ g \in Runtime!Frames
    BY <1>3 DEF FramesKept, FrameTypes, Pipe
  <2> QED
    BY <1>1, <2>1, FrameRecord DEF FrameKept, Told
<1>4. FramesKept'
  BY <1>1, <1>3 DEF FramesKept
<1>5. ASSUME NEW g \in Runtime!Frames, Served(g) PROVE Served(g)'
  BY <1>1, <1>5, FrameRecord DEF Served, Told
<1>6. ServedOnce'
  BY <1>1, <1>5 DEF ServedOnce, FrameTypes
<1> QED
  BY <1>2, <1>4, <1>6

\* Steps that answer and send nothing.
Silent ==
  \/ \E e \in Events : \/ Runtime!Register(e) \/ Runtime!WriteEvent(e) \/ Runtime!Settle(e)
                       \/ Runtime!Timeout(e) \/ Runtime!ExpireDetached(e)
  \/ \E p \in Processes : Runtime!IgnoreFrame(p) \/ Runtime!RouteTerminal(p)
  \/ \E x \in executing : Runtime!AnswerDropped(x)
  \/ Quiet

\* What a silent step leaves alone.
LEMMA SilentSteps ==
  ASSUME Processes \subseteq Nat \ {0}, ManagerTypes, DeliveryTypes, FrameTypes, GateHeld,
         ProcessesKept, EventsHeld, ActionsKept, Silent
  PROVE UNCHANGED <<asked, answered>> /\ executing' \subseteq executing
<1> USE DEF Runtime!pluginVars
<1>1. ASSUME NEW e \in Events,
             Runtime!Register(e) \/ Runtime!WriteEvent(e) \/ Runtime!Settle(e)
      PROVE UNCHANGED <<asked, answered, executing>>
  BY <1>1 DEF Runtime!Register, Runtime!WriteEvent, Runtime!Settle
<1>2. ASSUME NEW e \in Events, Runtime!Timeout(e) \/ Runtime!ExpireDetached(e)
      PROVE UNCHANGED <<asked, answered, executing>>
  BY <1>2 DEF Runtime!Timeout, Runtime!ExpireDetached
<1>3. ASSUME NEW p \in Processes, Runtime!IgnoreFrame(p) \/ Runtime!RouteTerminal(p)
      PROVE UNCHANGED <<asked, answered, executing>>
  BY <1>3 DEF Runtime!IgnoreFrame, Runtime!RouteTerminal
<1>4. ASSUME NEW x \in executing, Runtime!AnswerDropped(x)
      PROVE UNCHANGED <<asked, answered>> /\ executing' \subseteq executing
  BY <1>4 DEF Runtime!AnswerDropped
<1> QED
  BY <1>1, <1>2, <1>3, <1>4, QuietSteps DEF Silent

\* The steps, by whether they are silent.
LEMMA SilentCases ==
  ASSUME Runtime!Next
  PROVE \/ Silent
        \/ \E e \in Events : Runtime!Plugin(e)
        \/ \E p \in Processes : \/ Runtime!RouteAction(p) \/ Runtime!DetachEvent(p) \/ Runtime!Exit(p)
                                \/ Runtime!RefuseAction(p) /\ Runtime!Writable(p)
        \/ \E x \in executing : Runtime!Answer(x)
  BY QuietOrServing DEF Silent, Serving, EventSteps, FrameSteps

\* What is known of the frames holds after every step.
LEMMA FramesStep ==
  ASSUME Runtime!RuntimeAssumption, ManagerTypes, DeliveryTypes, FrameTypes, GateHeld,
         ProcessesKept, EventsHeld, EventsEnd, ActionsKept, FramesKept, ServedOnce, Runtime!Next
  PROVE FrameTypes' /\ FramesKept' /\ ServedOnce'
<1>a. Processes \subseteq Nat \ {0} /\ MaxPending \in Nat
  BY DEF Runtime!RuntimeAssumption
<1>1. ASSUME NEW e \in Events, Runtime!Plugin(e) PROVE FrameTypes' /\ FramesKept' /\ ServedOnce'
  BY <1>1, FrameAsked, TerminalSent DEF Runtime!Plugin
<1>2. ASSUME NEW p \in Processes,
             Runtime!DetachEvent(p) \/ (Runtime!RefuseAction(p) /\ Runtime!Writable(p))
      PROVE FrameTypes' /\ FramesKept' /\ ServedOnce'
  <2>1. CASE Runtime!DetachEvent(p)
    BY <2>1, FrameAnswered
       DEF Runtime!DetachEvent, Runtime!Reply, Runtime!eventVars, Runtime!sessionVars
  <2>2. CASE Runtime!RefuseAction(p) /\ Runtime!Writable(p)
    BY <2>2, FrameAnswered
       DEF Runtime!RefuseAction, Runtime!Reply, Runtime!eventVars, Runtime!sessionVars
  <2> QED
    BY <1>2, <2>1, <2>2
<1>3. ASSUME NEW p \in Processes, Runtime!RouteAction(p) \/ Runtime!Exit(p)
      PROVE FrameTypes' /\ FramesKept' /\ ServedOnce'
  BY <1>3, FrameRouted, ProcessExits
<1>4. ASSUME NEW x \in executing, Runtime!Answer(x) PROVE FrameTypes' /\ FramesKept' /\ ServedOnce'
  BY <1>4, ActionAnswered
<1>5. CASE /\ Silent
           /\ ~\E e \in Events : Runtime!Plugin(e)
           /\ ~\E p \in Processes : Runtime!RouteAction(p)
           /\ ~\E x \in executing : Runtime!Answer(x)
  <2>1. UNCHANGED <<asked, answered>> /\ executing' \subseteq executing
    BY <1>5, <1>a, SilentSteps
  <2>2. OutShrinks
    BY <1>5, <1>a, OutSteps
  <2>3. pending' \subseteq pending
    <3>1. ASSUME NEW e \in Events, Runtime!Register(e) PROVE pending' \subseteq pending
      BY <3>1 DEF Runtime!Register
    <3>2. ASSUME NEW es, NEW how, Shuts(es, how) PROVE pending' \subseteq pending
      BY <3>2 DEF Shuts, Runtime!CloseSessions
    <3> QED
      BY <1>5, <1>a, <3>1, <3>2, ClosingSteps
  <2>4. \A e \in Events : Told(e) =>
          Told(e)' /\ handle'[e] = handle[e] /\ view'[e] \in {view[e], "ended"}
    BY <1>a, ToldSteps
  <2>5. FramesKept' /\ ServedOnce'
    BY <2>1, <2>2, <2>3, <2>4, FramesShrink
  <2>6. FrameTypes'
    BY <2>1, <2>2 DEF FrameTypes, OutShrinks
  <2> QED
    BY <2>5, <2>6
<1> QED
  BY <1>1, <1>2, <1>3, <1>4, <1>5, SilentCases

\* For the reader of a process nothing comes late that did not before.
LEMMA LateKept ==
  ASSUME LateFrames, FrameTypes, NEW p \in Processes, OutShrinks,
         proc = p /\ reader[p] = "reading" /\ p \notin observed, NEW e \in Events, Going(e, p)',
         handle'[e] = p => handle[e] = p,
         delivery'[e] = "registered" => delivery[e] = "registered",
         view'[e] = "open" => view[e] = "open" \/ delivery[e] = "registered"
  PROVE session[e] = "pending" \/ e \in expired
<1>1. Going(e, p)
  BY DEF Going, OutShrinks
<1> QED
  BY <1>1 DEF LateFrames

\* The sessions of this reader that end, end at their deadline.
LEMMA LateStep ==
  ASSUME Runtime!RuntimeAssumption, ManagerTypes, DeliveryTypes, FrameTypes, GateHeld,
         ProcessesKept, EventsHeld, EventsEnd, ActionsKept, FramesKept, ServedOnce, LateFrames,
         Runtime!Next
  PROVE LateFrames'
<1>a. Processes \subseteq Nat \ {0} /\ MaxPending \in Nat
  BY DEF Runtime!RuntimeAssumption
<1> SUFFICES ASSUME NEW p \in Processes, proc' = p, reader'[p] = "reading", p \notin observed',
                    NEW e \in Events, Going(e, p)'
             PROVE session'[e] = "pending" \/ e \in expired'
  BY DEF LateFrames
<1>b. ASSUME proc = p, reader[p] = "reading", p \notin observed, OutShrinks,
             UNCHANGED <<handle, session>>, expired \subseteq expired',
             delivery'[e] = "registered" => delivery[e] = "registered",
             view'[e] = "open" => view[e] = "open" \/ delivery[e] = "registered"
      PROVE session'[e] = "pending" \/ e \in expired'
  BY <1>b, LateKept
<1>c. ASSUME ManagerStays PROVE proc = p /\ reader[p] = "reading" /\ p \notin observed
  BY <1>c DEF ManagerStays
<1> USE DEF Runtime!lifeVars, Runtime!handleVars, Runtime!sessionVars, Runtime!pluginVars, Runtime!eventVars
<1>1. ASSUME NEW d \in Events, EventSteps(d) PROVE session'[e] = "pending" \/ e \in expired'
  <2>0. proc = p /\ reader[p] = "reading" /\ p \notin observed
    BY <1>1, <1>c, ServingStays DEF Serving
  <2>1. CASE Runtime!Register(d)
    <3>1. /\ OutShrinks /\ UNCHANGED <<view,
                                       expired>> /\ session' = [session EXCEPT ![d] = "pending"]
          /\ delivery' = [delivery EXCEPT ![d] = "registered"]
          /\ handle' = [handle EXCEPT ![d] = proc]
      BY <2>1, OutStays DEF Runtime!Register
    <3>2. CASE e = d
      BY <3>1, <3>2 DEF DeliveryTypes
    <3>3. CASE e # d
      <4>1. delivery'[e] = delivery[e] /\ handle'[e] = handle[e] /\ session'[e] = session[e]
        BY <3>1, <3>3 DEF DeliveryTypes
      <4> QED
        BY <2>0, <3>1, <4>1, LateKept
    <3> QED
      BY <3>2, <3>3
  <2>2. CASE Runtime!WriteEvent(d)
    <3>1. /\ OutShrinks /\ UNCHANGED <<handle, session, expired>> /\ delivery[d] = "registered"
          /\ delivery' = [delivery EXCEPT ![d] = "waiting"] /\ view' = [view EXCEPT ![d] = "open"]
      BY <2>2, OutStays DEF Runtime!WriteEvent
    <3>2. /\ delivery'[e] = "registered" => delivery[e] = "registered"
          /\ view'[e] = "open" => view[e] = "open" \/ delivery[e] = "registered"
      BY <3>1 DEF DeliveryTypes
    <3> QED
      BY <2>0, <3>1, <3>2, <1>b
  <2>3. CASE Runtime!Settle(d)
    <3>1. /\ OutShrinks /\ UNCHANGED <<handle, session, expired, view>>
          /\ delivery' = [delivery EXCEPT ![d] = "returned"]
      BY <2>3, OutStays DEF Runtime!Settle, Runtime!Returned
    <3>2. delivery'[e] = "registered" => delivery[e] = "registered"
      BY <3>1 DEF DeliveryTypes
    <3> QED
      BY <2>0, <3>1, <3>2, <1>b
  <2>4. CASE Runtime!Timeout(d)
    <3>1. /\ OutShrinks /\ UNCHANGED <<handle, view>>
          /\ delivery' = [delivery EXCEPT ![d] = "returned"]
          /\ UNCHANGED <<session, expired>> \/ (Runtime!CloseSessions({d},
                         "error") /\ expired' = expired \cup {d})
      BY <2>4, OutStays DEF Runtime!Timeout, Runtime!Returned
    <3>2. delivery'[e] = "registered" => delivery[e] = "registered"
      BY <3>1 DEF DeliveryTypes
    <3>3. session[e] = "pending" \/ e \in expired
      BY <2>0, <3>1, <3>2, LateKept
    <3> QED
      BY <3>1, <3>3 DEF Runtime!CloseSessions
  <2>5. CASE Runtime!ExpireDetached(d)
    <3>1. /\ OutShrinks /\ UNCHANGED <<handle, view, delivery>>
          /\ Runtime!CloseSessions({d}, "error") /\ expired' = expired \cup {d}
      BY <2>5, OutStays DEF Runtime!ExpireDetached
    <3>3. session[e] = "pending" \/ e \in expired
      BY <2>0, <3>1, LateKept
    <3> QED
      BY <3>1, <3>3 DEF Runtime!CloseSessions
  <2>6. CASE Runtime!Plugin(d)
    <3>1. PICK tag \in Runtime!Ids \cup Terminals :
            /\ Runtime!Send(d, tag) /\ UNCHANGED <<handle, session, expired, delivery>>
            /\ UNCHANGED view \/ view' = [view EXCEPT ![d] = "ended"]
      BY <2>6 DEF Runtime!Plugin, Runtime!Ask, Runtime!End
    <3>2. /\ view[d] = "open" /\ Pipe(out'[handle[d]]) = Pipe(out[handle[d]]) \cup {Runtime!Frame(d, tag)}
          /\ \A q \in Processes : q # handle[d] => out'[q] = out[q]
      BY <3>1, SendEffect
    <3>3. view'[e] = "open" => view[e] = "open"
      BY <3>1 DEF DeliveryTypes
    <3>4. \A f \in Pipe(out'[p]) : f \in Pipe(out[p]) \/ (f.event = d /\ handle[d] = p)
      BY <3>2 DEF Runtime!Frame
    <3>5. Going(e, p)
      BY <3>1, <3>2, <3>3, <3>4 DEF Going
    <3> QED
      BY <2>0, <3>1, <3>5 DEF LateFrames
  <2> QED
    BY <1>1, <2>1, <2>2, <2>3, <2>4, <2>5, <2>6 DEF EventSteps
<1>2. ASSUME NEW q \in Processes, FrameSteps(q) PROVE session'[e] = "pending" \/ e \in expired'
  <2>0. proc = p /\ reader[p] = "reading" /\ p \notin observed
    BY <1>2, <1>c, ServingStays DEF Serving
  <2>1. CASE Runtime!IgnoreFrame(q) \/ Runtime!RouteAction(q)
    <3>1. OutShrinks
      BY <2>1, OutTail DEF Runtime!IgnoreFrame, Runtime!RouteAction, Runtime!NextFrame
    <3>2. UNCHANGED <<handle, session, expired, delivery, view>>
      BY <2>1 DEF Runtime!IgnoreFrame, Runtime!RouteAction
    <3> QED
      BY <2>0, <3>1, <3>2, <1>b
  <2>2. CASE Runtime!DetachEvent(q) \/ (Runtime!RefuseAction(q) /\ Runtime!Writable(q))
    <3>1. OutShrinks
      BY <2>2, OutTail DEF Runtime!DetachEvent, Runtime!RefuseAction, Runtime!NextFrame
    <3>2. UNCHANGED <<handle, session, expired, delivery, view>>
      BY <2>2 DEF Runtime!DetachEvent, Runtime!RefuseAction, Runtime!Reply
    <3> QED
      BY <2>0, <3>1, <3>2, <1>b
  <2>3. CASE Runtime!RouteTerminal(q)
    <3>0. PICK f : f = Head(out[q])
      OBVIOUS
    <3>1. /\ Runtime!NextFrame(q) /\ Runtime!Consume(q) /\ f.kind \in Terminals
          /\ UNCHANGED <<handle, expired, delivery, view>>
      BY <2>3, <3>0 DEF Runtime!RouteTerminal
    <3>2. FrameKept(q, f) /\ f \in Pipe(out[q]) /\ out[q] # <<>>
      BY <3>0, <3>1, ReadFrame
    <3>3. OutShrinks /\ f \notin Pipe(out'[q])
      BY <3>0, <3>1, <3>2, OutTail DEF FramesKept
    <3>4. session[e] = "pending" \/ e \in expired
      BY <2>0, <3>1, <3>3, LateKept
    <3>5. \A d \in Events : d # f.event => session'[d] = session[d]
      BY <2>3, <3>0 DEF Runtime!RouteTerminal, Runtime!CloseSessions
    <3>6. e # f.event
      <4>1. SUFFICES ASSUME e = f.event PROVE FALSE
        OBVIOUS
      <4>2. handle[e] = q /\ delivery[e] # "registered" /\ view[e] = "ended"
        BY <3>1, <3>2, <4>1 DEF FrameKept, Told
      <4>3. PICK g \in Pipe(out'[p]) : g.event = e /\ handle[e] = p
        BY <3>1, <4>2 DEF Going
      <4>4. p = q /\ g \in Pipe(out[q])
        BY <3>3, <4>2, <4>3 DEF OutShrinks
      <4>5. g = f
        BY <3>1, <3>2, <4>1, <4>3, <4>4 DEF FrameKept
      <4> QED
        BY <3>3, <4>3, <4>4, <4>5
    <3> QED
      BY <3>1, <3>4, <3>5, <3>6
  <2> QED
    BY <1>2, <2>1, <2>2, <2>3 DEF FrameSteps
<1>3. ASSUME NEW x \in executing, Runtime!Answer(x) \/ Runtime!AnswerDropped(x)
      PROVE session'[e] = "pending" \/ e \in expired'
  <2>0. proc = p /\ reader[p] = "reading" /\ p \notin observed
    BY <1>3, <1>c, ServingStays DEF Serving
  <2>1. UNCHANGED <<handle, session, expired, delivery, view>> /\ OutShrinks
    BY <1>3, OutStays DEF Runtime!Answer, Runtime!AnswerDropped
  <2> QED
    BY <2>0, <2>1, <1>b
<1>4. CASE FailSteps
  <2>1. PICK q : Failing(q)
    BY <1>4, <1>a, FailStepsFail
  <2>2. proc = p /\ proc # q /\ UNCHANGED <<session, expired, observed>>
    BY <2>1, FailEffect DEF Failing
  <2>3. reader[p] = "reading"
    BY <2>1, <2>2 DEF Failing, ManagerTypes
  <2>4. OutShrinks /\ UNCHANGED <<handle, view>>
    BY <1>4, <1>a, QuietSteps DEF Quiet
  <2>5. delivery'[e] = "registered" => delivery[e] = "registered"
    <3>1. ASSUME NEW d \in Events, Runtime!WriteFails(d)
          PROVE delivery'[e] = "registered" => delivery[e] = "registered"
      BY <3>1 DEF Runtime!WriteFails, Runtime!Returned, DeliveryTypes
    <3>2. ASSUME NEW q1 \in Processes,
                 Runtime!RefuseAction(q1) \/ Runtime!RefuseFrame(q1) \/ Runtime!ReadGarbage(q1)
          PROVE UNCHANGED delivery
      BY <3>2 DEF Runtime!RefuseAction, Runtime!RefuseFrame, Runtime!ReadGarbage
    <3>3. ASSUME NEW x \in executing, Runtime!AnswerFails(x) PROVE UNCHANGED delivery
      BY <3>3 DEF Runtime!AnswerFails
    <3>4. ASSUME Runtime!InitFails \/ Runtime!StopTimeout PROVE UNCHANGED delivery
      BY <3>4 DEF Runtime!InitFails, Runtime!StopTimeout
    <3> QED
      BY <1>4, <3>1, <3>2, <3>3, <3>4 DEF FailSteps
  <2> QED
    BY <2>2, <2>3, <2>4, <2>5, <1>b
<1>5. CASE EndSteps
  <2>1. PICK q : Ending(q)
    BY <1>5, <1>a, EndStepsEnd
  <2>2. proc' = 0 \/ NoEnd
    BY <2>1 DEF Ending, Retiring
  <2>3. NoEnd /\ UNCHANGED reader
    BY <1>a, <2>1, <2>2 DEF Ending
  <2>4. OutShrinks /\ UNCHANGED <<handle, view>>
    BY <1>5, <1>a, QuietSteps DEF Quiet
  <2>5. UNCHANGED delivery
    BY <1>5 DEF EndSteps, Runtime!Reap, Runtime!Watch, Runtime!StopReconcile, Runtime!StopDone
  <2> QED
    BY <2>3, <2>4, <2>5, <1>b DEF NoEnd
<1>6. CASE StartSteps
  <2>4. OutShrinks /\ UNCHANGED <<handle, view>>
    BY <1>6, <1>a, QuietSteps DEF Quiet
  <2>1. CASE Runtime!Start \/ Runtime!SpawnFails
    <3>1. proc = 0 /\ UNCHANGED proc
      BY <2>1 DEF Runtime!Start, Runtime!SpawnFails, GateHeld
    <3> QED
      BY <1>a, <3>1
  <2>2. CASE Runtime!Spawn
    <3>1. proc' = spawned + 1 /\ UNCHANGED reader
      BY <2>2 DEF Runtime!Spawn
    <3>2. reader[p] = "off"
      BY <1>a, <3>1 DEF ProcessesKept, ManagerTypes
    <3> QED
      BY <3>1, <3>2
  <2>3. CASE Runtime!InitDone
    <3>1. starting = "init" /\ UNCHANGED <<proc, handle>>
      BY <2>3 DEF Runtime!InitDone
    <3>2. handle[e] # p
      BY <3>1 DEF GateHeld
    <3> QED
      BY <3>1, <3>2 DEF Going
  <2>5. CASE Runtime!InitCanceled
    <3>1. UNCHANGED proc /\ proc = spawned /\ reader' = [reader EXCEPT ![spawned] = "ended"]
      BY <2>5 DEF Runtime!InitCanceled, GateHeld
    <3> QED
      BY <3>1 DEF ManagerTypes
  <2>6. CASE Runtime!StartReturns
    <3>1. UNCHANGED <<proc, reader, observed, session, expired, delivery>>
      BY <2>6 DEF Runtime!StartReturns
    <3> QED
      BY <2>4, <3>1, <1>b
  <2> QED
    BY <1>6, <2>1, <2>2, <2>3, <2>5, <2>6 DEF StartSteps
<1>7. CASE StopSteps
  <2>1. OutShrinks /\ UNCHANGED <<handle, view>>
    BY <1>7, <1>a, QuietSteps DEF Quiet
  <2>2. UNCHANGED <<proc, reader, observed, delivery>>
    BY <1>7 DEF StopSteps, Runtime!StopNothing, Runtime!StopExited, Runtime!StopFailed,
                Runtime!Stop, Runtime!StopShutdown, Runtime!StopGivesUp
  <2>3. CASE Runtime!Stop
    <3>1. session[e] = "pending" \/ e \in expired
      BY <2>1, <2>2, LateKept
    <3>2. /\ Runtime!CloseSessions(Runtime!Pending \cap detached, "error")
          /\ expired' = expired \cup (Runtime!Pending \cap detached)
      BY <2>3 DEF Runtime!Stop
    <3> QED
      BY <3>1, <3>2 DEF Runtime!CloseSessions
  <2>4. CASE ~Runtime!Stop
    <3>1. UNCHANGED <<session, expired>>
      BY <1>7, <2>4 DEF StopSteps, Runtime!StopNothing, Runtime!StopExited, Runtime!StopFailed,
                Runtime!StopShutdown, Runtime!StopGivesUp
    <3> QED
      BY <2>1, <2>2, <3>1, <1>b
  <2> QED
    BY <2>3, <2>4
<1>8. ASSUME NEW q \in Processes, Runtime!ReadEnd(q) PROVE session'[e] = "pending" \/ e \in expired'
  <2>1. OutShrinks /\ UNCHANGED <<handle, view>>
    BY <1>8, <1>a, QuietSteps DEF Quiet
  <2>2. UNCHANGED <<proc, observed, delivery>> /\ reader' = [reader EXCEPT ![q] = "ended"]
    BY <1>8 DEF Runtime!ReadEnd
  <2>3. p # q /\ reader[p] = "reading"
    BY <2>2 DEF ManagerTypes
  <2>4. UNCHANGED <<session, expired>>
    BY <1>8, <2>2, <2>3 DEF Runtime!ReadEnd
  <2> QED
    BY <2>1, <2>2, <2>3, <2>4, <1>b
<1>9. ASSUME NEW q \in Processes, Runtime!Exit(q) PROVE session'[e] = "pending" \/ e \in expired'
  <2>1. OutShrinks /\ UNCHANGED <<handle, proc, reader, observed, session, expired, delivery>>
    BY <1>9, OutStays DEF Runtime!Exit
  <2>2. view'[e] = "open" => view[e] = "open"
    BY <1>9 DEF Runtime!Exit
  <2> QED
    BY <2>1, <2>2, <1>b
<1> QED
  BY <1>1, <1>2, <1>3, <1>4, <1>5, <1>6, <1>7, <1>8, <1>9, RuntimeSteps DEF Serving, ExitSteps

\* A frame that is refused is a message, or of a process that serves events one at a time.
LEMMA ConformingStep ==
  ASSUME Runtime!RuntimeAssumption, FrameTypes, ActionsKept, FramesKept, ServedOnce, LateFrames,
         Runtime!ConformingSurvives, NEW p \in Processes, Runtime!RefuseFrame(p)
  PROVE Runtime!ConformingSurvives'
<1>0. PICK f : f = Head(out[p])
  OBVIOUS
<1>1. FrameKept(p, f) /\ f \in Pipe(out[p]) /\ f.event \in Events
  BY <1>0, ReadFrame, FrameRecord DEF Runtime!RefuseFrame
<1>2. /\ proc = p /\ reader[p] = "reading" /\ Runtime!Violates(p)
      /\ violations' = IF p \in observed THEN violations ELSE violations \cup {<<p, f>>}
  BY <1>0 DEF Runtime!RefuseFrame, Runtime!NextFrame
<1>3. ASSUME p \notin observed, f.kind # "message", Concurrency # 1 PROVE FALSE
  <2>1. session[f.event] = "pending" \/ f.event \in expired
    BY <1>1, <1>2, <1>3 DEF LateFrames, Going, FrameKept
  <2>2. f.kind \in Terminals /\ Runtime!PendingOf({f.event}) # {}
    BY <1>0, <1>2, <1>3, <2>1 DEF Runtime!Violates
  <2>3. PICK x \in pending : x[1] = f.event
    BY <2>2 DEF Runtime!PendingOf
  <2>4. x[2].event = f.event
    BY <1>3, <2>3 DEF ServedOnce, ActionsKept
  <2> QED
    BY <1>1, <2>2, <2>3, <2>4 DEF FrameKept
<1>4. p \in observed \/ f.kind = "message" \/ Concurrency = 1
  BY <1>3
<1>5. \A v \in violations' : v \in violations \/ (v[2] = f /\ p \notin observed)
  BY <1>2
<1> QED
  BY <1>4, <1>5 DEF Runtime!ConformingSurvives

\* A violation is noted by the step that refuses a frame, only.
LEMMA ViolationSteps ==
  ASSUME Processes \subseteq Nat \ {0}, Runtime!Next
  PROVE UNCHANGED violations \/ \E p \in Processes : Runtime!RefuseFrame(p)
<1>1. ASSUME NEW e \in Events, Runtime!Deliver(e) \/ Runtime!ExpireDetached(e) \/ Runtime!Plugin(e)
      PROVE UNCHANGED violations
  <2>1. CASE Runtime!Register(e) \/ Runtime!WriteEvent(e) \/ Runtime!WriteFails(e)
    BY <2>1 DEF Runtime!Register, Runtime!WriteEvent, Runtime!WriteFails
  <2>2. CASE Runtime!Settle(e) \/ Runtime!Timeout(e)
    BY <2>2 DEF Runtime!Settle, Runtime!Timeout
  <2>3. CASE Runtime!ExpireDetached(e) \/ Runtime!Plugin(e)
    BY <2>3 DEF Runtime!ExpireDetached, Runtime!Plugin, Runtime!Ask, Runtime!End
  <2> QED
    BY <1>1, <2>1, <2>2, <2>3 DEF Runtime!Deliver
<1>2. ASSUME NEW p \in Processes, Runtime!Read(p) \/ Runtime!Break(p)
      PROVE UNCHANGED violations \/ Runtime!RefuseFrame(p)
  <2>1. CASE Runtime!IgnoreFrame(p) \/ Runtime!RouteTerminal(p) \/ Runtime!RouteAction(p)
    BY <2>1 DEF Runtime!IgnoreFrame, Runtime!RouteTerminal, Runtime!RouteAction
  <2>2. CASE Runtime!RefuseAction(p) \/ Runtime!DetachEvent(p)
    BY <2>2 DEF Runtime!RefuseAction, Runtime!DetachEvent
  <2>3. CASE Runtime!ReadEnd(p) \/ Runtime!ReadGarbage(p)
    BY <2>3 DEF Runtime!ReadEnd, Runtime!ReadGarbage
  <2> QED
    BY <1>2, <2>1, <2>2, <2>3 DEF Runtime!Read, Runtime!Break
<1>3. ASSUME NEW p \in Processes, Runtime!Reap(p) \/ Runtime!Watch(p) \/ Runtime!Exit(p)
      PROVE UNCHANGED violations
  BY <1>3 DEF Runtime!Reap, Runtime!Watch, Runtime!Exit
<1>4. ASSUME NEW x \in executing, Runtime!Respond(x) PROVE UNCHANGED violations
  BY <1>4 DEF Runtime!Respond, Runtime!Answer, Runtime!AnswerDropped, Runtime!AnswerFails
<1>5. ASSUME Runtime!Start \/ Runtime!Starting PROVE UNCHANGED violations
  <2>1. CASE Runtime!Start \/ Runtime!SpawnFails \/ Runtime!Spawn
    BY <2>1 DEF Runtime!Start, Runtime!SpawnFails, Runtime!Spawn
  <2>2. CASE Runtime!InitDone \/ Runtime!InitFails \/ Runtime!InitCanceled \/ Runtime!StartReturns
    BY <2>2 DEF Runtime!InitDone, Runtime!InitFails, Runtime!InitCanceled, Runtime!StartReturns
  <2> QED
    BY <1>5, <2>1, <2>2 DEF Runtime!Starting
<1>6. ASSUME \/ Runtime!StopNothing \/ Runtime!StopExited \/ Runtime!StopFailed \/ Runtime!Stop
             \/ Runtime!Stopping
      PROVE UNCHANGED violations
  <2>1. CASE Runtime!StopNothing \/ Runtime!StopExited \/ Runtime!StopFailed \/ Runtime!Stop
    BY <2>1 DEF Runtime!StopNothing, Runtime!StopExited, Runtime!StopFailed, Runtime!Stop
  <2>2. CASE Runtime!StopReconcile \/ Runtime!StopShutdown \/ Runtime!StopDone
    BY <2>2 DEF Runtime!StopReconcile, Runtime!StopShutdown, Runtime!StopDone
  <2>3. CASE Runtime!StopTimeout \/ Runtime!StopGivesUp
    BY <2>3 DEF Runtime!StopTimeout, Runtime!StopGivesUp
  <2> QED
    BY <1>6, <2>1, <2>2, <2>3 DEF Runtime!Stopping
<1> QED
  BY <1>1, <1>2, <1>3, <1>4, <1>5, <1>6 DEF Runtime!Next

\* Every step keeps the invariant.
LEMMA RuntimeStep ==
  ASSUME Runtime!RuntimeAssumption, RuntimeInv, [Runtime!Next]_(Runtime!vars) PROVE RuntimeInv'
<1>a. Processes \subseteq Nat \ {0}
  BY DEF Runtime!RuntimeAssumption
<1>b. /\ ManagerTypes /\ DeliveryTypes /\ FrameTypes /\ GateHeld /\ ProcessesKept
      /\ EventsHeld /\ EventsEnd /\ ActionsKept /\ DetachedKept /\ FramesKept /\ ServedOnce
      /\ LateFrames /\ Runtime!ConformingSurvives
  BY DEF RuntimeInv
<1>1. CASE Runtime!Next
  <2>1. ManagerTypes' /\ GateHeld' /\ ProcessesKept'
    BY <1>1, <1>a, <1>b, ManagerStep
  <2>2. EventsHeld'
    BY <1>1, <1>a, <1>b, HeldStep
  <2>3. DeliveryTypes' /\ EventsEnd'
    BY <1>1, <1>a, <1>b, EventsStep
  <2>4. ActionsKept'
    BY <1>1, <1>b, ActionsStep
  <2>5. DetachedKept'
    BY <1>1, <1>b, DetachedStep
  <2>6. FrameTypes' /\ FramesKept' /\ ServedOnce'
    BY <1>1, <1>b, FramesStep
  <2>7. LateFrames'
    BY <1>1, <1>b, LateStep
  <2>8. Runtime!ConformingSurvives'
    <3>1. ASSUME UNCHANGED violations PROVE Runtime!ConformingSurvives'
      BY <1>b, <3>1 DEF Runtime!ConformingSurvives
    <3> QED
      BY <1>1, <1>a, <1>b, <3>1, ViolationSteps, ConformingStep
  <2> QED
    BY <2>1, <2>2, <2>3, <2>4, <2>5, <2>6, <2>7, <2>8 DEF RuntimeInv
<1>2. CASE UNCHANGED Runtime!vars
  <2> USE <1>2 DEF Runtime!vars, Runtime!lifeVars, Runtime!handleVars, Runtime!eventVars,
                   Runtime!sessionVars, Runtime!pluginVars
  <2>1. ManagerTypes' /\ GateHeld' /\ ProcessesKept'
    BY <1>b DEF ManagerTypes, GateHeld, ProcessesKept
  <2>2. EventsHeld' /\ DeliveryTypes' /\ EventsEnd'
    BY <1>b DEF EventsHeld, DeliveryTypes, EventsEnd
  <2>3. ActionsKept' /\ DetachedKept'
    BY <1>b DEF ActionsKept, DetachedKept, Runtime!Pending
  <2>4. FrameTypes' /\ FramesKept'
    BY <1>b DEF FrameTypes, FramesKept, FrameKept, Told
  <2>5. ServedOnce'
    BY <1>b DEF ServedOnce, Served, Told
  <2>6. LateFrames'
    BY <1>b DEF LateFrames, Going
  <2>7. Runtime!ConformingSurvives'
    BY <1>b DEF Runtime!ConformingSurvives
  <2> QED
    BY <2>1, <2>2, <2>3, <2>4, <2>5, <2>6, <2>7 DEF RuntimeInv
<1> QED
  BY <1>1, <1>2

\* The invariant holds at the start.
LEMMA RuntimeInit == ASSUME Runtime!RuntimeAssumption, Runtime!Init PROVE RuntimeInv
<1> USE DEF Runtime!Init
<1>1. ManagerTypes
  BY DEF ManagerTypes, Runtime!States
<1>2. DeliveryTypes
  BY DEF DeliveryTypes
<1>3. FrameTypes
  BY PipeEmpty DEF FrameTypes
<1>4. GateHeld /\ EventsEnd
  BY DEF GateHeld, EventsEnd
<1>5. ProcessesKept /\ EventsHeld
  BY DEF ProcessesKept, EventsHeld
<1>6. IsFiniteSet({}) /\ Cardinality({}) = 0
  BY FS_EmptySet
<1>7. ActionsKept
  BY <1>6 DEF ActionsKept, Runtime!RuntimeAssumption
<1>8. DetachedKept
  <2>1. Runtime!Pending \cap detached = {}
    OBVIOUS
  <2> QED
    BY <1>6, <2>1 DEF DetachedKept, Runtime!RuntimeAssumption
<1>9. FramesKept
  BY PipeEmpty DEF FramesKept
<1>10. ServedOnce
  BY DEF ServedOnce
<1>11. LateFrames
  BY DEF LateFrames
<1>12. Runtime!ConformingSurvives
  BY DEF Runtime!ConformingSurvives
<1> QED
  BY <1>1, <1>2, <1>3, <1>4, <1>5, <1>7, <1>8, <1>9, <1>10, <1>11, <1>12 DEF RuntimeInv

\* What the invariant says of events, actions and their outcomes.
LEMMA RuntimeSound ==
  ASSUME RuntimeInv
  PROVE Runtime!NothingOrphaned /\ Runtime!ActionsCounted /\ Runtime!OutcomesAgree
        /\ Runtime!ConformingSurvives
<1>1. Runtime!NothingOrphaned
  BY DEF RuntimeInv, ProcessesKept, EventsHeld, Runtime!NothingOrphaned, Runtime!Pending
<1>2. Runtime!ActionsCounted
  <2>1. \A p \in Processes : out[p] \in Seq(Runtime!Frames)
    BY DEF RuntimeInv, FrameTypes
  <2>2. pendingActions = Runtime!Cardinality(pending) /\ pendingActions <= MaxPending
    BY RuntimeCardinality DEF RuntimeInv, ActionsKept
  <2>3. pending \subseteq executing /\ \A x \in pending : session[x[1]] = "pending"
    BY DEF RuntimeInv, ActionsKept
  <2>4. Runtime!Cardinality(Runtime!Pending \cap detached) <= MaxDetached
    BY RuntimeCardinality DEF RuntimeInv, DetachedKept
  <2> QED
    BY <2>1, <2>2, <2>3, <2>4 DEF RuntimeInv, ManagerTypes, Runtime!ActionsCounted
<1>3. Runtime!OutcomesAgree
  BY DEF RuntimeInv, EventsEnd, Runtime!OutcomesAgree
<1> QED
  BY <1>1, <1>2, <1>3 DEF RuntimeInv

\* However the frames of events, actions and crashes meet starts, stops, timeouts and failures: no
\* event stays pending once its process is gone, the actions that wait for an answer are counted and
\* bounded, and a delivery returns how its event ended, for any number of events, actions and
\* processes. No process is failed for a frame it sent by the protocol, unless the frame is a message
\* or the process serves events one at a time.
THEOREM EventsStayAccounted ==
  ASSUME Runtime!RuntimeAssumption
  PROVE Runtime!Spec => []EventsAccounted
<1>1. RuntimeInv => EventsAccounted
  BY RuntimeSound DEF EventsAccounted
<1> QED
  BY RuntimeInit, RuntimeStep, <1>1, PTL DEF Runtime!Spec

\* A crash is reported of a process that exited, was not reported before and is not stopped.
LEMMA CrashStep ==
  ASSUME Processes \subseteq Nat \ {0}, RuntimeInv, [Runtime!Next]_(Runtime!vars)
  PROVE Runtime!CrashReportedOnceStep
<1>b. /\ ManagerTypes /\ DeliveryTypes /\ FrameTypes /\ GateHeld /\ ProcessesKept
      /\ EventsHeld /\ EventsEnd /\ ActionsKept
  BY DEF RuntimeInv
<1> SUFFICES ASSUME NEW p \in Processes, crashes'[p] # crashes[p]
             PROVE crashes[p] = 0 /\ os[p] = "exited" /\ stopping \notin {"draining", "closing"}
  BY DEF Runtime!CrashReportedOnceStep
<1>1. EndSteps
  <2>1. ~UNCHANGED crashes
    OBVIOUS
  <2>2. Runtime!Next
    BY <2>1 DEF Runtime!vars, Runtime!handleVars
  <2>3. ~Serving
    BY <2>1, ServingStays DEF ManagerStays
  <2>4. ~FailSteps
    BY <2>1, <1>b, FailStepsFail DEF Failing
  <2>5. ~StartSteps /\ ~StopSteps /\ ~ExitSteps
    <3> USE DEF Runtime!handleVars
    <3>1. ASSUME StartSteps PROVE UNCHANGED crashes
      BY <3>1 DEF StartSteps, Runtime!Start, Runtime!SpawnFails, Runtime!Spawn, Runtime!InitDone,
                  Runtime!InitCanceled, Runtime!StartReturns
    <3>2. ASSUME StopSteps PROVE UNCHANGED crashes
      BY <3>2 DEF StopSteps, Runtime!StopNothing, Runtime!StopExited, Runtime!StopFailed,
                  Runtime!Stop, Runtime!StopShutdown, Runtime!StopGivesUp
    <3>3. ASSUME ExitSteps PROVE UNCHANGED crashes
      BY <3>3 DEF ExitSteps, Runtime!ReadEnd, Runtime!Exit
    <3> QED
      BY <2>1, <3>1, <3>2, <3>3
  <2> QED
    BY <2>2, <2>3, <2>4, <2>5, RuntimeSteps
<1>3. ASSUME NEW q, Runtime!FinishFailed(q) PROVE p = q /\ proc = q /\ q \in restart
  BY <1>3, <1>b DEF Runtime!FinishFailed, Runtime!Crashed, ManagerTypes
<1>4. ASSUME NEW q, Runtime!CrashOf(q) PROVE p = q
  BY <1>4, <1>b DEF Runtime!CrashOf, Runtime!Crashed, ManagerTypes
<1>5. proc = p => crashes[p] = 0
  BY <1>b DEF ProcessesKept
<1>6. restart # {} \/ snap = "running" => stopping \notin {"draining", "closing"}
  BY <1>b DEF GateHeld
<1>7. ASSUME NEW q \in Processes, Runtime!Reap(q)
      PROVE crashes[p] = 0 /\ os[p] = "exited" /\ stopping \notin {"draining", "closing"}
  BY <1>3, <1>5, <1>6, <1>7 DEF Runtime!Reap
<1>8. ASSUME NEW q \in Processes, Runtime!Watch(q)
      PROVE crashes[p] = 0 /\ os[p] = "exited" /\ stopping \notin {"draining", "closing"}
  BY <1>4, <1>5, <1>6, <1>8 DEF Runtime!Watch
<1>9. CASE Runtime!StopReconcile
  <2>1. stopping = "reconciling" /\ os[spawned] = "exited"
    BY <1>9, <1>b DEF Runtime!StopReconcile, GateHeld
  <2> QED
    BY <1>3, <1>4, <1>5, <1>9, <2>1 DEF Runtime!StopReconcile
<1>10. CASE Runtime!StopDone
  <2>1. os[spawned] = "exited" /\ Runtime!FinishFailed(spawned)
    BY <1>10 DEF Runtime!StopDone
  <2> QED
    BY <1>3, <1>5, <1>6, <2>1
<1> QED
  BY <1>1, <1>7, <1>8, <1>9, <1>10 DEF EndSteps

\* A crash is reported once for a process, after the process has exited and never while it is being
\* stopped, whoever notices first that it is gone.
THEOREM CrashesReportedOnce ==
  ASSUME Runtime!RuntimeAssumption PROVE Runtime!Spec => CrashReportedOnce
<1>1. Processes \subseteq Nat \ {0}
  BY DEF Runtime!RuntimeAssumption
<1>2. RuntimeInv /\ [Runtime!Next]_(Runtime!vars) => [Runtime!CrashReportedOnceStep]_runtimeVars
  BY <1>1, CrashStep
<1> QED
  BY RuntimeInit, RuntimeStep, <1>2, PTL DEF Runtime!Spec, CrashReportedOnce

------------------------------------------------------------------------------
\* The plugin SDK: a terminal frame follows the answers of the actions it was sent after.

HandlerPlaces == {"none", "queued", "skipped", "running", "ending", "leaving", "over"}
CallPlaces == {"idle", "registered", "waiting", "returned", "failed"}

SdkTypes ==
  /\ sdkReader \in {"reading", "canceled", "rejecting", "died"}
  /\ handler \in [SdkEvents -> HandlerPlaces]
  /\ lifetime \in [SdkEvents -> {"open", "deadline", "shutdown", "returned"}]
  /\ terminal \in [SdkEvents -> {"none", "draining", "sent", "withheld"}]
  /\ call \in [SdkIds -> CallPlaces]
  /\ permits \subseteq SdkEvents /\ sdkDetached \subseteq SdkEvents
  /\ unsettled \subseteq SdkIds /\ sdkPending \subseteq SdkIds /\ retired \subseteq SdkIds
  /\ rejected \subseteq SdkIds
  /\ written \subseteq SdkIds /\ taken \subseteq written /\ late \subseteq written
  /\ inbox \subseteq taken \X {"result", "error"}

\* An action that was written, or still will be, and has no answer.
Unanswered(x) == call[x] = "registered" \/ x \in written \ taken

\* Until the shutdown the client knows every action that may be answered, once.
KnowsAnswers ==
  /\ \A x \in SdkIds : call[x] \in {"idle", "registered"} => x \notin written
  /\ \A x \in SdkIds : <<x, "result">> \in inbox => <<x, "error">> \notin inbox
  /\ sdkReader = "reading" => \A x \in SdkIds :
       Unanswered(x) \/ (\E m \in inbox : m[1] = x) => x \in sdkPending \cup retired

\* An event that is not cut short waits for the actions without an answer.
WaitsForAnswers ==
  \A x \in SdkIds : Unanswered(x) /\ ~Sdk!Cut(x[1]) =>
    /\ terminal[x[1]] # "sent"
    /\ terminal[x[1]] # "withheld" => Sdk!Closed \/ x \in unsettled

Goroutines ==
  /\ \A x \in SdkIds : call[x] # "idle" => Sdk!Ran(x[1])
  /\ \A e \in sdkDetached : Sdk!Ran(e)
  /\ \A e \in SdkEvents : lifetime[e] = "returned" => handler[e] = "over"
  /\ IsFiniteSet(permits)

SdkInv == /\ SdkTypes /\ KnowsAnswers /\ WaitsForAnswers /\ Goroutines /\ Sdk!SdkSound

\* The instance counts as FiniteSets does.
LEMMA SdkCardinality == \A S : Sdk!Cardinality(S) = Cardinality(S)
  BY Zenon DEF Sdk!Cardinality, Cardinality

\* The invariant holds at the start.
LEMMA SdkInit == ASSUME Sdk!SdkAssumption, Sdk!Init PROVE SdkInv
<1> USE DEF Sdk!Init, Sdk!SdkAssumption
<1>1. SdkTypes
  BY DEF SdkTypes, HandlerPlaces, CallPlaces
<1>2. KnowsAnswers /\ WaitsForAnswers
  BY DEF KnowsAnswers, WaitsForAnswers, Unanswered, Sdk!Ran, Sdk!Cut
<1>3. IsFiniteSet(permits) /\ Cardinality(permits) = 0
  BY FS_EmptySet
<1>4. Goroutines
  BY <1>3 DEF Goroutines
<1>5. Sdk!SdkSound
  BY <1>3, SdkCardinality
     DEF Sdk!SdkSound, Sdk!AnswersRecognised, Sdk!TerminalLast, Sdk!PermitsCounted, Sdk!Of
<1> QED BY <1>1, <1>2, <1>4, <1>5 DEF SdkInv

USE DEF Sdk!readerVars, Sdk!handlerVars, Sdk!endVars, Sdk!callVars, Sdk!clientVars,
        Sdk!hostVars

\* Every step keeps the types.
LEMMA SdkTyped ==
  ASSUME Sdk!SdkAssumption, SdkTypes, [Sdk!Next]_Sdk!vars PROVE SdkTypes'
<1> USE DEF SdkTypes, Sdk!SdkAssumption, CallPlaces, HandlerPlaces
<1>1. CASE Sdk!Shutdown
  BY <1>1 DEF Sdk!Shutdown
<1>2. CASE Sdk!Reading
  BY <1>2 DEF Sdk!Reading, Sdk!Reject, Sdk!RejectOne
<1>3. ASSUME NEW e \in SdkEvents, Sdk!Event(e) PROVE SdkTypes'
  BY <1>3 DEF Sdk!Event
<1>4. ASSUME NEW e \in SdkEvents, Sdk!Goroutine(e) PROVE SdkTypes'
  BY <1>4 DEF Sdk!Goroutine, Sdk!Acquire, Sdk!Skip, Sdk!Expire, Sdk!Cancel, Sdk!Leave,
              Sdk!WriteTerminal, Sdk!TerminalCanceled, Sdk!TerminalWithheld, Sdk!Retire,
              Sdk!Of
<1>5. ASSUME NEW e \in SdkEvents, Sdk!HandlerReturns(e) \/ Sdk!HandlerPanics(e) PROVE SdkTypes'
  BY <1>5 DEF Sdk!HandlerReturns, Sdk!HandlerPanics, Sdk!BeginTerminal
<1>6. ASSUME NEW e \in SdkEvents, NEW how \in SdkTerminals, Sdk!End(e, how) PROVE SdkTypes'
  BY <1>6 DEF Sdk!End, Sdk!BeginTerminal
<1>7. ASSUME NEW x \in SdkIds, Sdk!CallBegins(x) \/ Sdk!Calling(x) PROVE SdkTypes'
  BY <1>7 DEF Sdk!CallBegins, Sdk!Calling, Sdk!CallAbandoned, Sdk!CallWrites,
              Sdk!CallReturns, Sdk!CallGivesUp
<1>8. ASSUME NEW x \in SdkIds, NEW how \in {"result", "error"},
             Sdk!HostIgnores(x) \/ Sdk!HostAnswers(x, how) \/ Sdk!Route(x, how)
      PROVE SdkTypes'
  BY <1>8 DEF Sdk!HostIgnores, Sdk!HostAnswers, Sdk!Route
<1>9. CASE UNCHANGED Sdk!vars
  BY <1>9 DEF Sdk!vars
<1> QED
  BY <1>1, <1>2, <1>3, <1>4, <1>5, <1>6, <1>7, <1>8, <1>9 DEF Sdk!Next

\* Every step keeps what is said of the goroutines and of the permits.
LEMMA SdkGoroutines ==
  ASSUME Sdk!SdkAssumption, SdkTypes, Goroutines, Sdk!PermitsCounted, [Sdk!Next]_Sdk!vars
  PROVE  Goroutines' /\ Sdk!PermitsCounted'
<1> DEFINE Same == UNCHANGED <<handler, permits, lifetime, sdkDetached>>
<1> USE DEF SdkTypes, Sdk!SdkAssumption, HandlerPlaces, CallPlaces, Goroutines, Sdk!PermitsCounted, Sdk!Ran
<1>0. \A S : Sdk!Cardinality(S) = Cardinality(S)
  BY SdkCardinality
<1>1. CASE Same /\ UNCHANGED call
  BY <1>1
<1>2. ASSUME NEW e \in SdkEvents, handler[e] \in {"none", "queued"},
             handler' \in {[handler EXCEPT ![e] = "queued"], [handler EXCEPT ![e] = "skipped"]},
             UNCHANGED <<permits, lifetime, sdkDetached, call>>
      PROVE Goroutines' /\ Sdk!PermitsCounted'
  BY <1>2
<1>3. ASSUME NEW e \in SdkEvents, Sdk!Acquire(e) PROVE Goroutines' /\ Sdk!PermitsCounted'
  <2>1. e \notin permits /\ permits' = permits \cup {e}
    BY <1>3 DEF Sdk!Acquire
  <2>2. Cardinality(permits') = Cardinality(permits) + 1 /\ IsFiniteSet(permits')
        /\ Cardinality(permits) \in Nat
    BY <2>1, FS_AddElement, FS_CardinalityType
  <2>3. Cardinality(permits) < SdkConcurrency
    BY <1>0, <1>3, Zenon DEF Sdk!Acquire
  <2>4. Cardinality(permits') <= SdkConcurrency
    BY <2>2, <2>3
  <2>5. Sdk!Cardinality(permits') = Cardinality(permits')
    BY SdkCardinality
  <2> QED
    BY <1>3, <2>1, <2>2, <2>4, <2>5 DEF Sdk!Acquire
<1>4. ASSUME NEW e \in SdkEvents, permits' = permits \ {e}
      PROVE  IsFiniteSet(permits') /\ Sdk!Cardinality(permits') <= SdkConcurrency
  <2>1. Cardinality(permits) <= SdkConcurrency /\ Cardinality(permits) \in Nat
    BY <1>0, FS_CardinalityType
  <2>2. /\ IsFiniteSet(permits') /\ Cardinality(permits') \in Nat
        /\ Cardinality(permits') <= Cardinality(permits)
    BY <1>4, FS_Subset, FS_CardinalityType
  <2>3. Sdk!Cardinality(permits') = Cardinality(permits')
    BY SdkCardinality
  <2> QED
    BY <2>1, <2>2, <2>3
<1>5. ASSUME NEW e \in SdkEvents, Sdk!Expire(e) \/ Sdk!Cancel(e)
      PROVE  Goroutines' /\ Sdk!PermitsCounted'
  BY <1>5 DEF Sdk!Expire, Sdk!Cancel
<1>6. ASSUME NEW e \in SdkEvents, Sdk!Leave(e) PROVE Goroutines' /\ Sdk!PermitsCounted'
  <2>1. permits' = permits \ {e}
    BY <1>6 DEF Sdk!Leave
  <2>2. /\ handler' = [handler EXCEPT ![e] = "over"]
        /\ handler[e] \in {"ending", "leaving"}
        /\ lifetime' = [lifetime EXCEPT ![e] = IF @ = "open" THEN "returned" ELSE @]
        /\ UNCHANGED <<sdkDetached, call>>
    BY <1>6 DEF Sdk!Leave
  <2> QED
    BY <2>1, <2>2, <1>4
<1>7. ASSUME NEW e \in SdkEvents, Sdk!HandlerReturns(e) \/ Sdk!HandlerPanics(e)
      PROVE  Goroutines' /\ Sdk!PermitsCounted'
  BY <1>7 DEF Sdk!HandlerReturns, Sdk!HandlerPanics
<1>8. ASSUME NEW x \in SdkIds, Sdk!CallReturns(x) PROVE Goroutines' /\ Sdk!PermitsCounted'
  <2>1. CASE x[2] = "detach" /\ response[x] = "result"
    <3>1. /\ permits' = permits \ {x[1]} /\ sdkDetached' = sdkDetached \cup {x[1]}
          /\ call' = [call EXCEPT ![x] = "returned"] /\ call[x] = "waiting"
          /\ UNCHANGED <<handler, lifetime>>
      BY <1>8, <2>1 DEF Sdk!CallReturns
    <3> QED
      BY <3>1, <1>4
  <2>2. CASE ~(x[2] = "detach" /\ response[x] = "result")
    BY <1>8, <2>2 DEF Sdk!CallReturns
  <2> QED
    BY <2>1, <2>2
<1>9. ASSUME NEW x \in SdkIds,
             \/ Sdk!CallBegins(x) \/ Sdk!CallAbandoned(x) \/ Sdk!CallWrites(x)
             \/ Sdk!CallGivesUp(x)
      PROVE  Goroutines' /\ Sdk!PermitsCounted'
  BY <1>9 DEF Sdk!CallBegins, Sdk!CallAbandoned, Sdk!CallWrites, Sdk!CallGivesUp
<1> HIDE DEF SdkTypes, Goroutines, Sdk!PermitsCounted
<1>10. ASSUME NEW e \in SdkEvents, Sdk!Event(e) \/ Sdk!Skip(e)
       PROVE  Goroutines' /\ Sdk!PermitsCounted'
  BY <1>2, <1>10 DEF Sdk!Event, Sdk!Skip
<1>11. ASSUME NEW e \in SdkEvents,
              \/ Sdk!WriteTerminal(e) \/ Sdk!TerminalCanceled(e) \/ Sdk!TerminalWithheld(e)
              \/ \E how \in SdkTerminals : Sdk!End(e, how)
       PROVE  Goroutines' /\ Sdk!PermitsCounted'
  BY <1>1, <1>11 DEF Sdk!WriteTerminal, Sdk!TerminalCanceled, Sdk!TerminalWithheld, Sdk!End
<1>12. CASE Sdk!Shutdown \/ Sdk!Reading
  BY <1>1, <1>12 DEF Sdk!Shutdown, Sdk!Reading, Sdk!Reject, Sdk!RejectOne
<1>13. ASSUME NEW x \in SdkIds, NEW how \in {"result", "error"},
             Sdk!HostIgnores(x) \/ Sdk!HostAnswers(x, how) \/ Sdk!Route(x, how)
       PROVE  Goroutines' /\ Sdk!PermitsCounted'
  BY <1>1, <1>13 DEF Sdk!HostIgnores, Sdk!HostAnswers, Sdk!Route
<1>14. CASE UNCHANGED Sdk!vars
  BY <1>1, <1>14 DEF Sdk!vars
<1> QED
  BY <1>3, <1>5, <1>6, <1>7, <1>8, <1>9, <1>10, <1>11, <1>12, <1>13, <1>14
  DEF Sdk!Next, Sdk!Goroutine, Sdk!Calling

\* The answers and the terminals, without the count of the permits.
Answered == KnowsAnswers /\ WaitsForAnswers /\ Sdk!AnswersRecognised /\ Sdk!TerminalLast

\* Every step keeps what is said of the answers.
LEMMA SdkAnswers ==
  ASSUME Sdk!SdkAssumption, SdkTypes, Goroutines, Answered, [Sdk!Next]_Sdk!vars
  PROVE  Answered'
<1> USE DEF SdkTypes, Sdk!SdkAssumption, HandlerPlaces, CallPlaces, Answered, KnowsAnswers,
            WaitsForAnswers, Unanswered, Sdk!AnswersRecognised, Sdk!TerminalLast, Sdk!Closed,
            Sdk!Cut, Sdk!Of, Goroutines, Sdk!Ran
<1>1. CASE Sdk!Shutdown
  BY <1>1 DEF Sdk!Shutdown
<1>2. CASE Sdk!Reading
  BY <1>2 DEF Sdk!Reading, Sdk!Reject, Sdk!RejectOne
<1>3. ASSUME NEW e \in SdkEvents,
             \/ Sdk!Event(e) \/ Sdk!Acquire(e) \/ Sdk!Skip(e) \/ Sdk!HandlerReturns(e)
             \/ Sdk!HandlerPanics(e) \/ \E how \in SdkTerminals : Sdk!End(e, how)
      PROVE  Answered'
  BY <1>3 DEF Sdk!Event, Sdk!Acquire, Sdk!Skip, Sdk!HandlerReturns, Sdk!HandlerPanics, Sdk!End,
              Sdk!BeginTerminal
<1>4. ASSUME NEW e \in SdkEvents, Sdk!Expire(e) \/ Sdk!Cancel(e) PROVE Answered'
  BY <1>4 DEF Sdk!Expire, Sdk!Cancel
<1>5. ASSUME NEW e \in SdkEvents, Sdk!Leave(e) PROVE Answered'
  BY <1>5 DEF Sdk!Leave, Sdk!Retire
<1>6. ASSUME NEW e \in SdkEvents, Sdk!WriteTerminal(e) PROVE Answered'
  BY <1>6 DEF Sdk!WriteTerminal, Sdk!Settled
<1>7. ASSUME NEW e \in SdkEvents, Sdk!TerminalCanceled(e) \/ Sdk!TerminalWithheld(e)
      PROVE  Answered'
  BY <1>7 DEF Sdk!TerminalCanceled, Sdk!TerminalWithheld, Sdk!Retire
<1>8. ASSUME NEW x \in SdkIds, Sdk!CallBegins(x) PROVE Answered'
  BY <1>8 DEF Sdk!CallBegins
<1>9. ASSUME NEW x \in SdkIds, Sdk!CallAbandoned(x) PROVE Answered'
  BY <1>9 DEF Sdk!CallAbandoned
<1>10. ASSUME NEW x \in SdkIds, Sdk!CallWrites(x) PROVE Answered'
  BY <1>10 DEF Sdk!CallWrites
<1>11. ASSUME NEW x \in SdkIds, Sdk!CallReturns(x) \/ Sdk!CallGivesUp(x) PROVE Answered'
  BY <1>11 DEF Sdk!CallReturns, Sdk!CallGivesUp
<1>12. ASSUME NEW x \in SdkIds, Sdk!HostIgnores(x) PROVE Answered'
  BY <1>12 DEF Sdk!HostIgnores
<1>13. ASSUME NEW x \in SdkIds, NEW how \in {"result", "error"}, Sdk!HostAnswers(x, how)
       PROVE  Answered'
  BY <1>13 DEF Sdk!HostAnswers
<1>14. ASSUME NEW x \in SdkIds, NEW how \in {"result", "error"}, Sdk!Route(x, how)
       PROVE  Answered'
  BY <1>14 DEF Sdk!Route
<1>15. CASE UNCHANGED Sdk!vars
  BY <1>15 DEF Sdk!vars
<1> HIDE DEF Answered
<1> QED
  BY <1>1, <1>2, <1>3, <1>4, <1>5, <1>6, <1>7, <1>8, <1>9, <1>10, <1>11, <1>12, <1>13, <1>14,
     <1>15 DEF Sdk!Next, Sdk!Goroutine, Sdk!Calling

\* An answer finds its action, a terminal is the last frame of its event, and the
\* permits are those of the handlers in the foreground, for any events, actions
\* and concurrency.
THEOREM SdkKeepsProtocol ==
  ASSUME Sdk!SdkAssumption PROVE Sdk!Spec => []SdkSound
<1>1. Sdk!Init => SdkInv
  BY SdkInit
<1>2. SdkInv /\ [Sdk!Next]_Sdk!vars => SdkInv'
  BY SdkTyped, SdkGoroutines, SdkAnswers DEF SdkInv, Sdk!SdkSound, Answered
<1>3. SdkInv => SdkSound
  BY DEF SdkInv, SdkSound
<1> QED
  BY <1>1, <1>2, <1>3, PTL DEF Sdk!Spec
==============================================================================
