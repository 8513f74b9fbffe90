----------------------------- MODULE TaskRecords -----------------------------
(***************************************************************************)
(* What the task history promises to whoever reads it, whatever fails: a   *)
(* record appears as "pending", only moves forward, keeps the first        *)
(* outcome it is given, and work that a restart finds unfinished becomes    *)
(* "interrupted".                                                          *)
(***************************************************************************)
EXTENDS Naturals

CONSTANT Tasks

VARIABLE record

Unfinished == {"pending", "running"}
Outcomes == {"succeeded", "failed", "cancelled", "interrupted"}
Statuses == Unfinished \cup Outcomes

(* The order in which the statuses of one record may follow each other.    *)
Rank(s) == CASE s = "none" -> 0
             [] s = "pending" -> 1
             [] s = "running" -> 2
             [] OTHER -> 3

RecordsInit == record = [t \in Tasks |-> "none"]

Create(t) ==
  /\ record[t] = "none"
  /\ record' = [record EXCEPT ![t] = "pending"]

Advance(t) == \E s \in Statuses :
  /\ record[t] # "none"
  /\ Rank(s) > Rank(record[t])
  /\ record' = [record EXCEPT ![t] = s]

InterruptUnfinished ==
  record' = [t \in Tasks |-> IF record[t] \in Unfinished THEN "interrupted"
                             ELSE record[t]]

RecordsNext == InterruptUnfinished \/ \E t \in Tasks : Create(t) \/ Advance(t)

RecordsSpec == RecordsInit /\ [][RecordsNext]_record

=============================================================================
