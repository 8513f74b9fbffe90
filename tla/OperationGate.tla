--------------------------- MODULE OperationGate ---------------------------
(***************************************************************************)
(* The gate that serialises the operations on one plugin                   *)
(* (plugins/lifecycle/operation_gate.go).  Every enable, disable, reload,  *)
(* crash recovery, install and uninstall of a plugin runs between Acquire  *)
(* and the release function Acquire returned.  The gate of a plugin is an  *)
(* entry that exists only while somebody refers to it: it is created by    *)
(* the first caller, counted, and deleted by the last one, under a mutex   *)
(* that is not held while a caller waits.  The context of a holder carries *)
(* a token; an acquisition for the same plugin under that context enters   *)
(* at once as long as the token has not expired.                           *)
(*                                                                         *)
(* An acquisition is one call of Acquire.  An entry is named after the     *)
(* acquisition that created it.                                            *)
(***************************************************************************)
EXTENDS Naturals, FiniteSets

CONSTANTS
  Acquisitions,  \* the calls of Acquire
  Plugins,
  PluginOf,      \* the plugin each call is for
  None

ASSUME AcquisitionsAreFinite == IsFiniteSet(Acquisitions)
ASSUME PluginOfIsAFunction == PluginOf \in [Acquisitions -> Plugins]
ASSUME NoneIsNoAcquisition == None \notin Acquisitions

VARIABLES
  pc,         \* where each call is
  entries,    \* OperationGate.entries: the entry of each plugin
  references, \* operationEntry.references
  gate,       \* operationEntry.gate: the call whose value is in the channel
  entryOf,    \* the entry a call refers to
  root,       \* the holder whose token let a nested call in
  cancelled   \* the contexts that are done

vars == <<pc, entries, references, gate, entryOf, root, cancelled>>

Positions == {"idle", "waiting", "entered", "held", "nested",
              "closing", "forgetting", "done"}

\* The calls between references++ and references-- of an entry.
Referring == {"waiting", "entered", "held", "closing", "forgetting"}

\* The calls whose value is in the channel of their entry.
Inside == {"entered", "held", "closing"}

Init ==
  /\ pc = [a \in Acquisitions |-> "idle"]
  /\ entries = [p \in Plugins |-> None]
  /\ references = [a \in Acquisitions |-> 0]
  /\ gate = [a \in Acquisitions |-> None]
  /\ entryOf = [a \in Acquisitions |-> None]
  /\ root = [a \in Acquisitions |-> None]
  /\ cancelled = {}

Goto(a, position) == pc' = [pc EXCEPT ![a] = position]

-----------------------------------------------------------------------------
(* Acquire. *)

\* A context that is done on entry is refused.
Refuse(a) ==
  /\ pc[a] = "idle"
  /\ a \in cancelled
  /\ Goto(a, "done")
  /\ UNCHANGED <<entries, references, gate, entryOf, root, cancelled>>

\* Mutant: a token that has expired still lets a nested call in.
LetsInMutant(h, a) == PluginOf[h] = PluginOf[a]

\* The token h lets the call a in: it is for this plugin and its channel
\* is not closed, which release does first of all.
LetsIn(h, a) ==
  /\ PluginOf[h] = PluginOf[a]
  /\ pc[h] = "held"

\* The holders whose context a later call may use, expired ones included.
Tokens == {h \in Acquisitions : pc[h] \in {"held", "closing", "forgetting", "done"}
                                /\ entryOf[h] # None}

Reenter(a, h) ==
  /\ pc[a] = "idle"
  /\ a \notin cancelled
  /\ LetsIn(h, a)
  /\ Goto(a, "nested")
  /\ root' = [root EXCEPT ![a] = h]
  /\ UNCHANGED <<entries, references, gate, entryOf, cancelled>>

\* Without a token that lets it in, the call finds or creates the entry of
\* its plugin and counts itself, under OperationGate.mu.
Refer(a) ==
  LET p == PluginOf[a]
      e == IF entries[p] = None THEN a ELSE entries[p] IN
  /\ pc[a] = "idle"
  /\ a \notin cancelled
  /\ entries' = [entries EXCEPT ![p] = e]
  /\ references' = [references EXCEPT ![e] = @ + 1]
  /\ entryOf' = [entryOf EXCEPT ![a] = e]
  /\ Goto(a, "waiting")
  /\ UNCHANGED <<gate, root, cancelled>>

\* gate <- struct{}{} succeeds.
Enter(a) ==
  /\ pc[a] = "waiting"
  /\ gate[entryOf[a]] = None
  /\ gate' = [gate EXCEPT ![entryOf[a]] = a]
  /\ Goto(a, "entered")
  /\ UNCHANGED <<entries, references, entryOf, root, cancelled>>

\* Mutant: a caller that gives up does not forget its entry.
GiveUpMutant(a) ==
  /\ pc[a] = "waiting"
  /\ a \in cancelled
  /\ Goto(a, "done")
  /\ UNCHANGED <<entries, references, gate, entryOf, root, cancelled>>

\* ctx.Done() is chosen instead.
GiveUp(a) ==
  /\ pc[a] = "waiting"
  /\ a \in cancelled
  /\ Goto(a, "forgetting")
  /\ UNCHANGED <<entries, references, gate, entryOf, root, cancelled>>

\* The context is looked at again after the channel accepted the value.
Confirm(a) ==
  /\ pc[a] = "entered"
  /\ a \notin cancelled
  /\ Goto(a, "held")
  /\ UNCHANGED <<entries, references, gate, entryOf, root, cancelled>>

Retract(a) ==
  /\ pc[a] = "entered"
  /\ a \in cancelled
  /\ gate' = [gate EXCEPT ![entryOf[a]] = None]
  /\ Goto(a, "forgetting")
  /\ UNCHANGED <<entries, references, entryOf, root, cancelled>>

-----------------------------------------------------------------------------
(* release and forget. *)

\* The calls that entered with the token of a call are synchronous callbacks
\* of its operation: they have returned when the operation releases.
Release(a) ==
  /\ pc[a] = "held"
  /\ \A b \in Acquisitions : pc[b] = "nested" => root[b] # a
  /\ Goto(a, "closing")
  /\ UNCHANGED <<entries, references, gate, entryOf, root, cancelled>>

\* <-entry.gate
Leave(a) ==
  /\ pc[a] = "closing"
  /\ gate' = [gate EXCEPT ![entryOf[a]] = None]
  /\ Goto(a, "forgetting")
  /\ UNCHANGED <<entries, references, entryOf, root, cancelled>>

LastReference(e) == references[e] = 1

\* The last one to forget an entry deletes it.
Forget(a) ==
  LET e == entryOf[a] IN
  /\ pc[a] = "forgetting"
  /\ references' = [references EXCEPT ![e] = @ - 1]
  /\ entries' = [entries EXCEPT ![PluginOf[a]] =
                   IF LastReference(e) THEN None ELSE @]
  /\ Goto(a, "done")
  /\ UNCHANGED <<gate, entryOf, root, cancelled>>

\* The release function of a nested call does nothing.
NestedReturn(a) ==
  /\ pc[a] = "nested"
  /\ Goto(a, "done")
  /\ UNCHANGED <<entries, references, gate, entryOf, root, cancelled>>

\* A deadline, a client that disconnects or a shutdown, at any time.
Cancel(a) ==
  /\ pc[a] # "done"
  /\ a \notin cancelled
  /\ cancelled' = cancelled \cup {a}
  /\ UNCHANGED <<pc, entries, references, gate, entryOf, root>>

\* What a call does by itself once it has begun.
Proceed(a) ==
  \/ Enter(a)
  \/ GiveUp(a)
  \/ Confirm(a)
  \/ Retract(a)
  \/ Release(a)
  \/ Leave(a)
  \/ Forget(a)
  \/ NestedReturn(a)

Begin(a) ==
  \/ Refuse(a)
  \/ Refer(a)
  \/ \E h \in Tokens : Reenter(a, h)

\* Every call has returned and every holder has released.
Finished ==
  /\ \A a \in Acquisitions : pc[a] = "done"
  /\ UNCHANGED vars

Next ==
  \/ \E a \in Acquisitions : Begin(a) \/ Proceed(a) \/ Cancel(a)
  \/ Finished

Spec == Init /\ [][Next]_vars

FairSpec == Spec /\ \A a \in Acquisitions : WF_vars(Proceed(a))

-----------------------------------------------------------------------------
(* Properties. *)

\* Typing of the variables; references is bounded by the number of calls.
TypeOK ==
  /\ pc \in [Acquisitions -> Positions]
  /\ entries \in [Plugins -> Acquisitions \cup {None}]
  /\ references \in [Acquisitions -> 0 .. Cardinality(Acquisitions)]
  /\ gate \in [Acquisitions -> Acquisitions \cup {None}]
  /\ entryOf \in [Acquisitions -> Acquisitions \cup {None}]
  /\ root \in [Acquisitions -> Acquisitions \cup {None}]
  /\ cancelled \subseteq Acquisitions

\* The holder an operation runs under.
OwnerOf(a) == IF pc[a] = "nested" THEN root[a] ELSE a

\* Two operations on one plugin overlap only if one is a synchronous
\* callback of the other, whatever entries were deleted and created in
\* between and whoever gave up while waiting (OperationGate's comment:
\* "serializes runtime and package mutations for one plugin").
Exclusion ==
  \A a, b \in Acquisitions :
    /\ {pc[a], pc[b]} \subseteq {"held", "nested"}
    /\ PluginOf[a] = PluginOf[b]
    => OwnerOf(a) = OwnerOf(b)

Users(e) == {a \in Acquisitions : pc[a] \in Referring /\ entryOf[a] = e}

\* An entry is in the map exactly while calls refer to it, and its counter
\* is their number: no gate leaks and none is deleted under a waiting call.
EntriesCounted ==
  /\ \A e \in Acquisitions : references[e] = Cardinality(Users(e))
  /\ \A p \in Plugins, e \in Acquisitions :
       entries[p] = e <=> \E a \in Users(e) : PluginOf[a] = p

\* A call that waits gets in or gives up: no cancellation leaves a value
\* behind in the channel that would keep every later operation out.
WaitersProceed ==
  \A a \in Acquisitions : []<>(pc[a] # "waiting")

=============================================================================
