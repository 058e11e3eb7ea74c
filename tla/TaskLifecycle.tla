---------------------------- MODULE TaskLifecycle ----------------------------
(***************************************************************************)
(* What the task service promises a client that always sends the revision  *)
(* it has seen: tasks change one legal step at a time.  Each step is       *)
(* atomic, starts from the task as it is at that moment, is allowed by the *)
(* transition table, is taken by the assigned operator where the service   *)
(* asks for one, and raises the revision by exactly one.  No task          *)
(* disappears and none is created twice.                                   *)
(***************************************************************************)
EXTENDS TaskModel

VARIABLE tasks          \* the tasks that exist, by id

Init == tasks = << >>

Create(id) ==
  /\ id \notin DOMAIN tasks
  /\ tasks' = [i \in DOMAIN tasks \cup {id} |->
                 IF i = id
                   THEN [id |-> id, status |-> "queued", operator |-> NoOperator, rev |-> 1]
                   ELSE tasks[i]]

\* Replace task id by one with the given status and operator.
Move(id, status, operator) ==
  /\ taskCanMove(tasks[id].status, status)
  /\ tasks' = [tasks EXCEPT ![id] = [tasks[id] EXCEPT !.status   = status,
                                                      !.operator = operator,
                                                      !.rev      = tasks[id].rev + 1]]

Assign(id, operator) == Move(id, "assigned", operator)
Start(id)            == Move(id, "in_progress", tasks[id].operator)
Complete(id)         == Move(id, "completed", tasks[id].operator)

Next ==
  \/ \E id \in DOMAIN tasks' : id \in Nat /\ Create(id)
  \/ \E id \in DOMAIN tasks :
       \/ \E operator \in Operators : Assign(id, operator)
       \/ Start(id)
       \/ Complete(id)

Spec == Init /\ [][Next]_tasks

==============================================================================
