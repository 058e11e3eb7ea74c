---------------------------- MODULE MCTaskService ----------------------------
(***************************************************************************)
(* Instances of TaskService for TLC.  TaskService!Spec starts from the     *)
(* empty store of newTaskStore.  WarmSpec starts from a store in which     *)
(* earlier requests, all returned, have taken task 1 to some stage of its  *)
(* life, so that two or three concurrent requests reach every race on it.  *)
(***************************************************************************)
EXTENDS TaskService, TLC

CONSTANT o1             \* the operator who has the task in the warm store

symmetry == Permutations(Requests)

stage(status, operator, rev) ==
  [id |-> 1, status |-> status, operator |-> operator, rev |-> rev]

stages ==
  { stage("queued", NoOperator, 1), stage("assigned", o1, 2),
    stage("in_progress", o1, 3), stage("completed", o1, 4) }

WarmInit ==
  /\ \E t \in stages :
       /\ items = (1 :> t)
       /\ completed = IF t.status = "completed" THEN << t >> ELSE << >>
  /\ assigning = {}
  /\ seq = 1
  /\ audit = {}
  /\ pc = [r \in Requests |-> "idle"]
  /\ req = [r \in Requests |-> NoRequest]
  /\ held = [r \in Requests |-> ZeroTask]
  /\ reply = [r \in Requests |-> "none"]
  /\ cancelled = {}

WarmSpec == WarmInit /\ [][Next]_vars

WarmFairSpec == WarmSpec /\ Fairness

==============================================================================
