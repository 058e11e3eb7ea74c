------------------------------ MODULE TaskModel ------------------------------
(***************************************************************************)
(* The data of an inspection task (task.go): its statuses, the table of    *)
(* legal status changes, and the part of the record that the service reads *)
(* when it decides (the subject, well, labels and timestamps are carried   *)
(* along unread and are left out).                                         *)
(***************************************************************************)
EXTENDS Integers

CONSTANTS
  Operators,    \* the operators a request may name
  NoOperator    \* the empty operator name ""

ASSUME NoOperatorAssumption == NoOperator \notin Operators

TaskStatus == {"queued", "assigned", "in_progress", "completed", "cancelled"}

taskTransitionTable ==
  [ queued      |-> {"assigned", "cancelled"},
    assigned    |-> {"in_progress", "cancelled"},
    in_progress |-> {"completed", "cancelled"},
    completed   |-> {},
    cancelled   |-> {} ]

taskCanMove(from, to) == from = to \/ to \in taskTransitionTable[from]

Task ==
  [ id       : Nat,
    status   : TaskStatus,
    operator : Operators \cup {NoOperator},
    rev      : Nat ]

\* The zero value Task{} that error paths return.
ZeroTask == [id |-> 0, status |-> "queued", operator |-> NoOperator, rev |-> 0]

\* normalizeTask: a revision below 1 becomes 1 (the trims and defaults of the
\* other fields touch nothing that is modelled).
normalizeTask(t) == IF t.rev < 1 THEN [t EXCEPT !.rev = 1] ELSE t

==============================================================================
