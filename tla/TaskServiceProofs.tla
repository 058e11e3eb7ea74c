-------------------------- MODULE TaskServiceProofs --------------------------
(***************************************************************************)
(* Proofs about TaskService, for any number of requests, task ids,         *)
(* operators and revisions.                                                *)
(*                                                                         *)
(* The invariants of the task service are not inductive as they stand:     *)
(* whether an Update is legal depends on what its handler read some store  *)
(* calls earlier.  IInv says what a handler still knows at each pc, after  *)
(* other requests have written: above all, that a revision which has not   *)
(* moved means that the checks made on the copy still hold of the task.    *)
(*                                                                         *)
(* FlagInv adds what an Assign between BeginAssign and EndAssign has: the  *)
(* flag, alone, unless a Complete has released it.  HistoryInv says which  *)
(* write every entry of the completion history stands for, and that no two *)
(* requests ever make the same write.                                      *)
(***************************************************************************)
EXTENDS TaskService, FiniteSetTheorems, TLAPS

------------------------------------------------------------------------------
(* The inductive invariant.                                                *)

\* Before its handler is at its end a request has no reply.
Pending == PC \ {"deferred_end_assign", "done"}

ControlOK(r) ==
  /\ pc[r] \in Pending => reply[r] = "none"
  /\ pc[r] \in {"new_id", "put"} => req[r].op = "create"
  /\ pc[r] = "begin_assign" => req[r].op = "assign"
  /\ pc[r] \in {"begin_assign", "get", "update"} => req[r].expected \in Expected
  /\ pc[r] \in {"get", "update"} => req[r].op # "create"
  /\ pc[r] \in {"get", "update"} /\ req[r].op = "assign" => req[r].operator # NoOperator

\* A task about to be put has an id of its own.
PutOK(r) ==
  pc[r] = "put" =>
    /\ held[r].id \in 1 .. seq
    /\ held[r].id \notin DOMAIN items
    /\ held[r].status = "queued"
    /\ held[r].operator = NoOperator
    /\ held[r].rev = 1

\* What holds of a copy between Get and Update.
UpdateOK(r) ==
  pc[r] = "update" =>
    /\ req[r].id \in DOMAIN items
    /\ held[r].id = req[r].id
    /\ held[r].status = target[req[r].op]
    /\ held[r].operator = req[r].operator
    /\ held[r].rev <= items[req[r].id].rev
    /\ guarded(r) => held[r].rev = req[r].expected
    /\ held[r].rev = items[req[r].id].rev =>
         /\ taskCanMove(items[req[r].id].status, held[r].status)
         /\ req[r].op # "assign" => items[req[r].id].operator = req[r].operator

\* A committed guarded request has moved the revision past the one it expected.
CommittedOK(r) ==
  committed(r) /\ guarded(r) =>
    req[r].id \in DOMAIN items /\ items[req[r].id].rev > req[r].expected

PutsDiffer ==
  \A r, s \in Requests :
    r # s /\ pc[r] = "put" /\ pc[s] = "put" => held[r].id # held[s].id

IdsMatch == \A id \in DOMAIN items : items[id].id = id

IInv ==
  /\ TypeOK
  /\ \A r \in Requests : ControlOK(r) /\ PutOK(r) /\ UpdateOK(r) /\ CommittedOK(r)
  /\ PutsDiffer
  /\ IdsMatch


------------------------------------------------------------------------------
(* Types.                                                                  *)

LEMMA TargetType == \A op \in Op : target[op] \in TaskStatus
  BY DEF Op, target, TaskStatus

LEMMA ZeroTaskType == ZeroTask \in Task
  BY DEF ZeroTask, Task, TaskStatus

LEMMA InputType ==
  \A input \in Input : /\ input \in Request
                       /\ input.op # "create" => input.expected \in Expected
  BY DEF Input, Request, NoRequest, Op

LEMMA RefusalType ==
  ASSUME NEW r, NEW t
  PROVE  refusal(r, t) \in Error \cup {"none"}
  BY DEF refusal, matches, allowed, Error

LEMMA LastOfType ==
  ASSUME NEW S, NEW s \in Seq(S), NEW n \in Nat
  PROVE  lastOf(s, n) \in Seq(S)
  BY DEF lastOf

LEMMA TypeInit == Init => TypeOK
<1> SUFFICES ASSUME Init PROVE TypeOK
  OBVIOUS
<1>1. DOMAIN items = {} /\ seq = 0 /\ items \in [DOMAIN items -> Task]
  BY DEF Init
<1>2. req \in [Requests -> Request]
  BY DEF Init, NoRequest, Request, Op
<1>3. held \in [Requests -> Task]
  BY ZeroTaskType DEF Init
<1> QED
  BY <1>1, <1>2, <1>3 DEF TypeOK, Init, PC

------------------------------------------------------------------------------
(* Steps that leave the tasks alone.                                       *)

LEMMA InitIInv == Init => IInv
<1> SUFFICES ASSUME Init PROVE IInv
  OBVIOUS
<1>1. TypeOK
  BY TypeInit
<1>2. \A r \in Requests : ControlOK(r) /\ PutOK(r) /\ UpdateOK(r) /\ CommittedOK(r)
  BY DEF Init, ControlOK, PutOK, UpdateOK, CommittedOK, committed
<1>3. PutsDiffer /\ IdsMatch
  BY DEF Init, PutsDiffer, IdsMatch
<1> QED
  BY <1>1, <1>2, <1>3 DEF IInv

\* Only request r moves: what the others know stays true, because it speaks of
\* their own variables and of the tasks.
LEMMA QuietStep ==
  ASSUME IInv, TypeOK', NEW r \in Requests,
         UNCHANGED << items, seq >>,
         \A s \in Requests \ {r} : /\ pc'[s] = pc[s] /\ req'[s] = req[s]
                                   /\ held'[s] = held[s] /\ reply'[s] = reply[s],
         pc'[r] # "put",
         ControlOK(r)', UpdateOK(r)', CommittedOK(r)'
  PROVE  IInv'
<1>1. ASSUME NEW s \in Requests
      PROVE  ControlOK(s)' /\ PutOK(s)' /\ UpdateOK(s)' /\ CommittedOK(s)'
  <2>1. CASE s = r
    BY <2>1 DEF PutOK
  <2>2. CASE s # r
    BY <2>2 DEF IInv, ControlOK, PutOK, UpdateOK, CommittedOK, committed, guarded
  <2> QED
    BY <2>1, <2>2
<1>2. PutsDiffer'
  BY DEF IInv, PutsDiffer
<1>3. IdsMatch'
  BY DEF IInv, IdsMatch
<1> QED
  BY <1>1, <1>2, <1>3 DEF IInv

LEMMA FailStep ==
  ASSUME IInv, NEW r \in Requests, NEW err \in Error, Fail(r, err)
  PROVE  IInv'
<1>1. /\ pc' = [pc EXCEPT ![r] = pc'[r]]
      /\ pc'[r] \in {"deferred_end_assign", "done"}
  BY DEF Fail, goto, afterReturn, IInv, TypeOK
<1>2. TypeOK'
  BY <1>1, ZeroTaskType DEF Fail, IInv, TypeOK, PC, storeVars
<1>3. ControlOK(r)' /\ UpdateOK(r)'
  BY <1>1 DEF ControlOK, UpdateOK, Pending
<1>4. CommittedOK(r)'
  <2>1. reply'[r] # "ok"
    BY DEF Fail, IInv, TypeOK, Error
  <2> QED
    BY <1>1, <2>1 DEF CommittedOK, committed
<1> QED
  BY <1>1, <1>2, <1>3, <1>4, QuietStep DEF Fail, IInv, TypeOK, storeVars

LEMMA ContextDoneStep ==
  ASSUME IInv, NEW r \in Requests, ContextDone(r)
  PROVE  IInv'
  BY FailStep DEF ContextDone, Error

LEMMA ArriveStep ==
  ASSUME IInv, NEW r \in Requests, Arrive(r)
  PROVE  IInv'
<1>1. PICK input \in Input :
        /\ req' = [req EXCEPT ![r] = input]
        /\ pc' = [pc EXCEPT ![r] = firstCall[input.op]]
  BY DEF Arrive, goto
<1>2. /\ pc'[r] \in {"new_id", "begin_assign", "get"}
      /\ req'[r] = input
      /\ pc'[r] = "new_id" => input.op = "create"
      /\ pc'[r] = "begin_assign" => input.op = "assign"
      /\ pc'[r] = "get" => input.op \notin {"create", "assign"}
  BY <1>1, InputType DEF IInv, TypeOK, Request, Op, firstCall
<1>3. TypeOK'
  BY <1>1, <1>2, InputType DEF Arrive, IInv, TypeOK, PC, storeVars
<1>4. ControlOK(r)' /\ UpdateOK(r)'
  <2>1. reply'[r] = "none"
    BY DEF Arrive, IInv, ControlOK, Pending, PC
  <2> QED
    BY <1>2, <2>1, InputType DEF ControlOK, UpdateOK
<1>5. CommittedOK(r)'
  BY <1>2 DEF CommittedOK, committed, Arrive, IInv, ControlOK, Pending, PC
<1> QED
  BY <1>1, <1>2, <1>3, <1>4, <1>5, QuietStep DEF Arrive, IInv, TypeOK, storeVars

LEMMA CancelStep ==
  ASSUME IInv, NEW r \in Requests, Cancel(r)
  PROVE  IInv'
<1>1. TypeOK'
  BY DEF Cancel, IInv, TypeOK, storeVars
<1>2. \A s \in Requests : ControlOK(s)' /\ PutOK(s)' /\ UpdateOK(s)' /\ CommittedOK(s)'
  BY DEF Cancel, storeVars, IInv, ControlOK, PutOK, UpdateOK, CommittedOK, committed, guarded
<1>3. PutsDiffer' /\ IdsMatch'
  BY DEF Cancel, storeVars, IInv, PutsDiffer, IdsMatch
<1> QED
  BY <1>1, <1>2, <1>3 DEF IInv

LEMMA BeginAssignStep ==
  ASSUME IInv, NEW r \in Requests, BeginAssign(r)
  PROVE  IInv'
<1>1. CASE ContextDone(r)
  BY <1>1, ContextDoneStep
<1>2. CASE \E err \in Error : Fail(r, err)
  BY <1>2, FailStep
<1>3. CASE /\ req[r].operator # NoOperator
           /\ req[r].id \in DOMAIN items
           /\ assigning' = assigning \cup {req[r].id}
           /\ goto(r, "get")
           /\ UNCHANGED << items, completed, seq, audit, req, held, reply, cancelled >>
  <2>1. pc' = [pc EXCEPT ![r] = "get"] /\ pc'[r] = "get"
    BY <1>3 DEF goto, IInv, TypeOK
  <2>2. TypeOK'
    BY <1>3, <2>1 DEF IInv, TypeOK, PC
  <2>3. ControlOK(r)' /\ UpdateOK(r)'
    BY <1>3, <2>1 DEF BeginAssign, mayBegin, IInv, ControlOK, UpdateOK, Pending, PC
  <2>4. CommittedOK(r)'
    BY <1>3, <2>1 DEF BeginAssign, mayBegin, CommittedOK, committed, IInv, ControlOK, Pending, PC
  <2> QED
    BY <1>3, <2>1, <2>2, <2>3, <2>4, QuietStep DEF IInv, TypeOK
<1> QED
  BY <1>1, <1>2, <1>3 DEF BeginAssign, mayBegin, Error

LEMMA GetStep ==
  ASSUME IInv, NEW r \in Requests, Get(r)
  PROVE  IInv'
<1> DEFINE id == req[r].id
           t  == items[id]
<1>1. CASE ContextDone(r)
  BY <1>1, ContextDoneStep
<1>2. CASE id \notin DOMAIN items /\ Fail(r, "not_found")
  BY <1>2, FailStep DEF Error
<1>3. CASE refusal(r, t) # "none" /\ Fail(r, refusal(r, t))
  BY <1>3, FailStep, RefusalType
<1>4. CASE /\ id \in DOMAIN items
           /\ refusal(r, t) = "none"
           /\ held' = [held EXCEPT ![r] = [t EXCEPT !.status = target[req[r].op],
                                                    !.operator = req[r].operator]]
           /\ goto(r, "update")
           /\ UNCHANGED << storeVars, audit, req, reply, cancelled >>
  <2>1. pc' = [pc EXCEPT ![r] = "update"] /\ pc'[r] = "update" /\ pc[r] = "get"
    BY <1>4 DEF goto, Get, IInv, TypeOK
  <2>2. t \in Task /\ req[r] \in Request
    BY <1>4 DEF IInv, TypeOK
  <2>3. target[req[r].op] \in TaskStatus
    BY <2>2, TargetType DEF Request
  <2>4. /\ held'[r] \in Task
        /\ held'[r].id = t.id
        /\ held'[r].status = target[req[r].op]
        /\ held'[r].operator = req[r].operator
        /\ held'[r].rev = t.rev
    BY <1>4, <2>2, <2>3 DEF Task, Request, IInv, TypeOK
  <2>5. TypeOK'
    BY <1>4, <2>1, <2>4 DEF IInv, TypeOK, PC, storeVars
  <2>6. ControlOK(r)'
    BY <1>4, <2>1 DEF IInv, ControlOK, Pending, PC
  <2>7. /\ guarded(r) => req[r].expected = t.rev
        /\ req[r].op # "assign" => t.operator = req[r].operator
        /\ taskCanMove(t.status, target[req[r].op])
    BY <1>4 DEF refusal, matches, allowed
  <2>8. UpdateOK(r)'
    BY <1>4, <2>1, <2>2, <2>4, <2>7 DEF UpdateOK, guarded, storeVars, IInv, IdsMatch, Task
  <2>9. CommittedOK(r)'
    BY <1>4, <2>1 DEF CommittedOK, committed, IInv, ControlOK, Pending, PC
  <2> QED
    BY <1>4, <2>1, <2>5, <2>6, <2>8, <2>9, QuietStep DEF IInv, TypeOK, storeVars
<1> QED
  BY <1>1, <1>2, <1>3, <1>4 DEF Get

LEMMA EndAssignStep ==
  ASSUME IInv, NEW r \in Requests, EndAssign(r)
  PROVE  IInv'
<1>1. CASE ContextDone(r)
  BY <1>1, ContextDoneStep
<1>2. CASE /\ assigning' = assigning \ {req[r].id}
           /\ goto(r, "record")
           /\ UNCHANGED << items, completed, seq, audit, req, held, reply, cancelled >>
  <2>1. pc' = [pc EXCEPT ![r] = "record"] /\ pc'[r] = "record" /\ pc[r] = "end_assign"
    BY <1>2 DEF goto, EndAssign, IInv, TypeOK
  <2>2. TypeOK'
    BY <1>2, <2>1 DEF IInv, TypeOK, PC
  <2>3. ControlOK(r)' /\ UpdateOK(r)'
    BY <1>2, <2>1 DEF IInv, ControlOK, UpdateOK, Pending, PC
  <2>4. CommittedOK(r)'
    BY <1>2, <2>1 DEF CommittedOK, committed, guarded, IInv
  <2> QED
    BY <1>2, <2>1, <2>2, <2>3, <2>4, QuietStep DEF IInv, TypeOK
<1> QED
  BY <1>1, <1>2 DEF EndAssign

LEMMA RecordCompletionStep ==
  ASSUME IInv, NEW r \in Requests, RecordCompletion(r)
  PROVE  IInv'
<1>1. CASE ContextDone(r)
  BY <1>1, ContextDoneStep
<1>2. CASE /\ completed' = lastOf(Append(completed, held[r]), MaxHistory)
           /\ goto(r, "audit")
           /\ UNCHANGED << items, assigning, seq, audit, req, held, reply, cancelled >>
  <2>1. pc' = [pc EXCEPT ![r] = "audit"] /\ pc'[r] = "audit" /\ pc[r] = "record"
    BY <1>2 DEF goto, RecordCompletion, IInv, TypeOK
  <2>2. Append(completed, held[r]) \in Seq(Task)
    BY DEF IInv, TypeOK
  <2>3. completed' \in Seq(Task)
    BY <1>2, <2>2, LastOfType, RequestAssumption
  <2>4. TypeOK'
    BY <1>2, <2>1, <2>3 DEF IInv, TypeOK, PC
  <2>5. ControlOK(r)' /\ UpdateOK(r)'
    BY <1>2, <2>1 DEF IInv, ControlOK, UpdateOK, Pending, PC
  <2>6. CommittedOK(r)'
    BY <1>2, <2>1 DEF CommittedOK, committed, guarded, IInv
  <2> QED
    BY <1>2, <2>1, <2>4, <2>5, <2>6, QuietStep DEF IInv, TypeOK
<1> QED
  BY <1>1, <1>2 DEF RecordCompletion

LEMMA AuditAddStep ==
  ASSUME IInv, NEW r \in Requests, AuditAdd(r)
  PROVE  IInv'
<1>1. /\ pc' = [pc EXCEPT ![r] = pc'[r]]
      /\ pc'[r] \in {"deferred_end_assign", "done"}
      /\ pc[r] = "audit"
  BY DEF AuditAdd, goto, afterReturn, IInv, TypeOK
<1>2. TypeOK'
  BY <1>1 DEF AuditAdd, IInv, TypeOK, PC, storeVars
<1>3. ControlOK(r)' /\ UpdateOK(r)'
  BY <1>1 DEF ControlOK, UpdateOK, Pending
<1>4. CommittedOK(r)'
  BY <1>1 DEF AuditAdd, storeVars, CommittedOK, committed, guarded, IInv
<1> QED
  BY <1>1, <1>2, <1>3, <1>4, QuietStep DEF AuditAdd, IInv, TypeOK, storeVars

LEMMA DeferredEndAssignStep ==
  ASSUME IInv, NEW r \in Requests, DeferredEndAssign(r)
  PROVE  IInv'
<1>1. /\ pc' = [pc EXCEPT ![r] = "done"]
      /\ pc'[r] = "done"
      /\ pc[r] = "deferred_end_assign"
  BY DEF DeferredEndAssign, goto, IInv, TypeOK
<1>2. TypeOK'
  BY <1>1 DEF DeferredEndAssign, IInv, TypeOK, PC
<1>3. ControlOK(r)' /\ UpdateOK(r)'
  BY <1>1 DEF ControlOK, UpdateOK, Pending
<1>4. CommittedOK(r)'
  BY <1>1 DEF DeferredEndAssign, CommittedOK, committed, guarded, IInv
<1> QED
  BY <1>1, <1>2, <1>3, <1>4, QuietStep DEF DeferredEndAssign, IInv, TypeOK

------------------------------------------------------------------------------
(* Steps that create or change a task.                                     *)

LEMMA NewIdStep ==
  ASSUME IInv, NEW r \in Requests, NewId(r)
  PROVE  IInv'
<1> DEFINE new == [id |-> seq + 1, status |-> "queued", operator |-> NoOperator, rev |-> 1]
<1>1. CASE ContextDone(r)
  BY <1>1, ContextDoneStep
<1>2. CASE Fail(r, "invalid")
  BY <1>2, FailStep DEF Error
<1>3. CASE /\ seq' = seq + 1
           /\ held' = [held EXCEPT ![r] = new]
           /\ goto(r, "put")
           /\ UNCHANGED << items, assigning, completed, audit, req, reply, cancelled >>
  <2>1. pc' = [pc EXCEPT ![r] = "put"] /\ pc'[r] = "put" /\ pc[r] = "new_id"
    BY <1>3 DEF goto, NewId, counted, IInv, TypeOK
  <2>2. new \in Task /\ held'[r] = new
    BY <1>3 DEF Task, TaskStatus, IInv, TypeOK
  <2>3. TypeOK'
    BY <1>3, <2>1, <2>2 DEF IInv, TypeOK, PC
  <2>4. ASSUME NEW s \in Requests
        PROVE  ControlOK(s)' /\ PutOK(s)' /\ UpdateOK(s)' /\ CommittedOK(s)'
    <3>1. CASE s = r
      <4>1. ControlOK(r)' /\ UpdateOK(r)'
        BY <1>3, <2>1 DEF IInv, ControlOK, UpdateOK, Pending, PC
      <4>2. PutOK(r)'
        BY <1>3, <2>2 DEF IInv, TypeOK, PutOK
      <4>3. CommittedOK(r)'
        BY <1>3, <2>1 DEF CommittedOK, committed, IInv, ControlOK, Pending, PC
      <4> QED
        BY <3>1, <4>1, <4>2, <4>3
    <3>2. CASE s # r
      <4>1. /\ pc'[s] = pc[s] /\ held'[s] = held[s]
            /\ req'[s] = req[s] /\ reply'[s] = reply[s]
        BY <1>3, <2>1, <3>2 DEF IInv, TypeOK
      <4> QED
        BY <1>3, <4>1 DEF IInv, TypeOK, ControlOK, PutOK, UpdateOK, CommittedOK,
                          committed, guarded
    <3> QED
      BY <3>1, <3>2
  <2>5. PutsDiffer'
    BY <1>3, <2>1, <2>2 DEF IInv, TypeOK, PutsDiffer, PutOK
  <2>6. IdsMatch'
    BY <1>3 DEF IInv, IdsMatch
  <2> QED
    BY <2>3, <2>4, <2>5, <2>6 DEF IInv
<1> QED
  BY <1>1, <1>2, <1>3 DEF NewId, counted

\* What a successful Put does.
LEMMA PutEffect ==
  ASSUME IInv, NEW r \in Requests, Put(r), ~ \E err \in Error : Fail(r, err)
  PROVE  /\ pc[r] = "put"
         /\ held[r].id \notin DOMAIN items
         /\ items' = [i \in DOMAIN items \cup {held[r].id} |->
                        IF i = held[r].id THEN held[r] ELSE items[i]]
         /\ pc' = [pc EXCEPT ![r] = "audit"]
         /\ UNCHANGED << assigning, completed, seq, audit, req, held, reply, cancelled >>
<1>1. pc[r] = "put" /\ held[r].rev = 1
  BY DEF Put, IInv, PutOK
<1>2. normalizeTask(held[r]) = held[r]
  BY <1>1 DEF normalizeTask
<1> QED
  BY <1>1, <1>2 DEF Put, ContextDone, Error, goto

LEMMA PutStep ==
  ASSUME IInv, NEW r \in Requests, Put(r)
  PROVE  IInv'
<1> DEFINE id == held[r].id
<1>1. CASE \E err \in Error : Fail(r, err)
  BY <1>1, FailStep
<1>2. CASE ~ \E err \in Error : Fail(r, err)
  <2>1. /\ pc[r] = "put"
        /\ id \notin DOMAIN items
        /\ items' = [i \in DOMAIN items \cup {id} |-> IF i = id THEN held[r] ELSE items[i]]
        /\ pc' = [pc EXCEPT ![r] = "audit"]
        /\ UNCHANGED << assigning, completed, seq, audit, req, held, reply, cancelled >>
    BY <1>2, PutEffect
  <2>2. /\ DOMAIN items' = DOMAIN items \cup {id}
        /\ \A i \in DOMAIN items : items'[i] = items[i]
        /\ items'[id] = held[r]
        /\ id \in 1 .. seq
    BY <2>1 DEF IInv, PutOK
  <2>3. TypeOK'
    <3>1. items' \in [DOMAIN items' -> Task]
      BY <2>1 DEF IInv, TypeOK
    <3> QED
      BY <2>1, <2>2, <3>1 DEF IInv, TypeOK, PC
  <2>4. ASSUME NEW s \in Requests
        PROVE  ControlOK(s)' /\ PutOK(s)' /\ UpdateOK(s)' /\ CommittedOK(s)'
    <3>1. CASE s = r
      <4>1. pc'[r] = "audit" /\ req'[r] = req[r] /\ reply'[r] = reply[r]
        BY <2>1 DEF IInv, TypeOK
      <4>2. req[r].op = "create" /\ reply[r] = "none"
        BY <2>1 DEF IInv, ControlOK, Pending, PC
      <4> QED
        BY <3>1, <4>1, <4>2 DEF ControlOK, PutOK, UpdateOK, CommittedOK, committed
    <3>2. CASE s # r
      <4>1. /\ pc'[s] = pc[s] /\ held'[s] = held[s]
            /\ req'[s] = req[s] /\ reply'[s] = reply[s]
        BY <2>1, <3>2 DEF IInv, TypeOK
      <4>2. ControlOK(s)' /\ UpdateOK(s)' /\ CommittedOK(s)'
        BY <2>2, <4>1 DEF IInv, ControlOK, UpdateOK, CommittedOK, committed, guarded
      <4>3. PutOK(s)'
        BY <2>1, <2>2, <3>2, <4>1 DEF IInv, PutOK, PutsDiffer
      <4> QED
        BY <4>2, <4>3
    <3> QED
      BY <3>1, <3>2
  <2>5. PutsDiffer'
    BY <2>1 DEF IInv, TypeOK, PutsDiffer
  <2>6. IdsMatch'
    BY <2>2 DEF IInv, IdsMatch
  <2> QED
    BY <2>3, <2>4, <2>5, <2>6 DEF IInv
<1> QED
  BY <1>1, <1>2

\* What a successful Update does.
LEMMA UpdateEffect ==
  ASSUME IInv, NEW r \in Requests, Update(r), ~ \E err \in Error : Fail(r, err)
  PROVE  LET id  == req[r].id
             new == [held[r] EXCEPT !.rev = items[id].rev + 1]
         IN /\ pc[r] = "update" /\ id \in DOMAIN items
            /\ guarded(r) => items[id].rev = req[r].expected
            /\ new \in Task
            /\ items' = [items EXCEPT ![id] = new]
            /\ held' = [held EXCEPT ![r] = new]
            /\ pc' = [pc EXCEPT ![r] = pc'[r]]
            /\ pc'[r] \in {"end_assign", "audit"}
            /\ UNCHANGED << assigning, completed, seq, audit, req, reply, cancelled >>
<1> DEFINE id == req[r].id
<1>1. pc[r] = "update" /\ id \in DOMAIN items /\ items[id] \in Task /\ held[r] \in Task
  BY DEF Update, matches, nextRev, IInv, UpdateOK, TypeOK
<1>2. (guarded(r) => items[id].rev = req[r].expected) /\ store(r, items[id].rev + 1)
  BY DEF Update, matches, nextRev, ContextDone, Error
<1>3. [held[r] EXCEPT !.rev = items[id].rev + 1] \in Task
  BY <1>1 DEF Task
<1> QED
  BY <1>1, <1>2, <1>3 DEF store, goto, IInv, TypeOK

LEMMA UpdateStep ==
  ASSUME IInv, NEW r \in Requests, Update(r)
  PROVE  IInv'
<1> DEFINE id  == req[r].id
           new == [held[r] EXCEPT !.rev = items[id].rev + 1]
<1>1. CASE \E err \in Error : Fail(r, err)
  BY <1>1, FailStep
<1>2. CASE ~ \E err \in Error : Fail(r, err)
  <2>1. /\ pc[r] = "update" /\ id \in DOMAIN items
        /\ guarded(r) => items[id].rev = req[r].expected
        /\ new \in Task
        /\ items' = [items EXCEPT ![id] = new]
        /\ held' = [held EXCEPT ![r] = new]
        /\ pc' = [pc EXCEPT ![r] = pc'[r]]
        /\ pc'[r] \in {"end_assign", "audit"}
        /\ UNCHANGED << assigning, completed, seq, audit, req, reply, cancelled >>
    BY <1>2, UpdateEffect
  <2>2. /\ DOMAIN items' = DOMAIN items
        /\ \A i \in DOMAIN items : i # id => items'[i] = items[i]
        /\ items'[id] = new
        /\ new.id = id
        /\ new.rev = items[id].rev + 1
        /\ items[id].rev \in Nat
    BY <2>1 DEF IInv, TypeOK, UpdateOK, Task
  <2>3. TypeOK'
    BY <2>1 DEF IInv, TypeOK, PC
  <2>4. ASSUME NEW s \in Requests
        PROVE  ControlOK(s)' /\ PutOK(s)' /\ UpdateOK(s)' /\ CommittedOK(s)'
    <3>1. CASE s = r
      <4>1. ControlOK(r)' /\ PutOK(r)' /\ UpdateOK(r)'
        BY <2>1 DEF IInv, ControlOK, PutOK, UpdateOK, Pending, PC
      <4>2. req'[r] = req[r] /\ items'[id].rev = items[id].rev + 1
        BY <2>1, <2>2
      <4>3. CommittedOK(r)'
        <5> HIDE DEF new
        <5> QED
          BY <2>1, <2>2, <4>2 DEF CommittedOK, guarded
      <4> QED
        BY <3>1, <4>1, <4>3
    <3>2. CASE s # r
      <4>1. /\ pc'[s] = pc[s] /\ held'[s] = held[s]
            /\ req'[s] = req[s] /\ reply'[s] = reply[s]
        BY <2>1, <3>2 DEF IInv, TypeOK
      <4>2. ControlOK(s)' /\ PutOK(s)'
        BY <2>1, <2>2, <4>1 DEF IInv, ControlOK, PutOK
      \* The revision of s's task has moved past s's copy or it is another task.
      <4>3. UpdateOK(s)'
        BY <2>1, <2>2, <4>1 DEF IInv, TypeOK, UpdateOK, guarded, Task
      <4>4. CommittedOK(s)'
        <5>1. req[s].expected \in Int
          BY RequestAssumption DEF IInv, TypeOK, Request
        <5>2. items'[id].rev = items[id].rev + 1
          BY <2>2
        <5>3. \A i \in DOMAIN items : items[i].rev \in Nat
          BY DEF IInv, TypeOK, Task
        <5>4. CommittedOK(s) /\ (committed(s)' <=> committed(s))
          BY <4>1 DEF IInv, committed
        <5> HIDE DEF new
        <5> QED
          BY <2>2, <4>1, <5>1, <5>2, <5>3, <5>4 DEF CommittedOK, guarded
      <4> QED
        BY <4>2, <4>3, <4>4
    <3> QED
      BY <3>1, <3>2
  <2>5. PutsDiffer'
    BY <2>1 DEF IInv, TypeOK, PutsDiffer
  <2>6. IdsMatch'
    BY <2>2 DEF IInv, IdsMatch
  <2> QED
    BY <2>3, <2>4, <2>5, <2>6 DEF IInv
<1> QED
  BY <1>1, <1>2

------------------------------------------------------------------------------
(* The invariant and what follows from it.                                 *)

LEMMA NextIInv == IInv /\ [Next]_vars => IInv'
<1> SUFFICES ASSUME IInv, [Next]_vars PROVE IInv'
  OBVIOUS
<1>1. ASSUME NEW r \in Requests, Arrive(r) \/ Cancel(r) PROVE IInv'
  BY <1>1, ArriveStep, CancelStep
<1>2. ASSUME NEW r \in Requests, Serve(r) PROVE IInv'
  BY <1>2, NewIdStep, PutStep, BeginAssignStep, GetStep, UpdateStep, EndAssignStep,
     RecordCompletionStep, AuditAddStep, DeferredEndAssignStep DEF Serve
<1>3. CASE UNCHANGED vars
  BY <1>3 DEF vars, IInv, TypeOK, ControlOK, PutOK, UpdateOK, CommittedOK, PutsDiffer,
              IdsMatch, committed, guarded
<1> QED
  BY <1>1, <1>2, <1>3 DEF Next

LEMMA Invariant == Spec => []IInv
  BY InitIInv, NextIInv, PTL DEF Spec

\* Every variable of the service keeps its type: ids in use have been handed
\* out, flags are set on tasks that exist, handlers hold well-formed tasks.
THEOREM TypeCorrect == Spec => []TypeOK
<1>1. IInv => TypeOK
  BY DEF IInv
<1> QED
  BY Invariant, <1>1, PTL

\* Put never refuses an id (task_store.go:29-31 cannot happen): the atomic
\* counter gives every Create an id no task and no other Create has.
THEOREM IdsAreFresh ==
  Spec => [](\A r \in Requests : pc[r] = "put" => held[r].id \notin DOMAIN items)
<1>1. IInv => \A r \in Requests : pc[r] = "put" => held[r].id \notin DOMAIN items
  BY DEF IInv, PutOK
<1> QED
  BY Invariant, <1>1, PTL

\* The pc of a request at its Update is moved by its own Update only.
LEMMA UpdateLeft ==
  ASSUME IInv, [Next]_vars, NEW r \in Requests,
         pc[r] = "update", pc'[r] \in {"end_assign", "audit"}
  PROVE  Update(r) /\ ~ \E err \in Error : Fail(r, err)
<1>1. PICK s \in Requests : Arrive(s) \/ Cancel(s) \/ Serve(s)
  BY DEF Next, vars
<1>2. s = r
  <2>1. pc' = [pc EXCEPT ![s] = pc'[s]]
    BY <1>1 DEF Serve, Arrive, Cancel, NewId, counted, Put, BeginAssign, mayBegin, Get, Update, matches, nextRev, EndAssign,
                RecordCompletion, AuditAdd, DeferredEndAssign, ContextDone, Fail, goto,
                store, IInv, TypeOK
  <2> QED
    BY <2>1 DEF IInv, TypeOK
<1>3. Update(r)
  BY <1>1, <1>2 DEF Serve, Arrive, Cancel, NewId, counted, Put, BeginAssign, mayBegin, Get, EndAssign,
                    RecordCompletion, AuditAdd, DeferredEndAssign
<1>4. ~ \E err \in Error : Fail(r, err)
  BY DEF Fail, goto, afterReturn, IInv, TypeOK
<1> QED
  BY <1>3, <1>4

\* A request that sends a revision writes over that revision only, by a legal
\* move, and Start and Complete for the operator the task has at that moment
\* (task_service.go:46-149, task_store.go:67-85).
THEOREM GuardedWrites == Spec => GuardedWritesLegal
<1> DEFINE Legal(r) ==
      guarded(r) /\ pc[r] = "update" /\ pc'[r] \in {"end_assign", "audit"} =>
        LET old == items[req[r].id]
            new == items'[req[r].id]
        IN /\ old.rev = req[r].expected
           /\ taskCanMove(old.status, new.status)
           /\ req[r].op # "assign" => old.operator = req[r].operator
<1>1. ASSUME IInv, [Next]_vars, NEW r \in Requests PROVE Legal(r)
  <2> SUFFICES ASSUME guarded(r), pc[r] = "update", pc'[r] \in {"end_assign", "audit"}
               PROVE  LET old == items[req[r].id]
                          new == items'[req[r].id]
                      IN /\ old.rev = req[r].expected
                         /\ taskCanMove(old.status, new.status)
                         /\ req[r].op # "assign" => old.operator = req[r].operator
    OBVIOUS
  <2> DEFINE id == req[r].id
  <2>1. Update(r) /\ ~ \E err \in Error : Fail(r, err)
    BY <1>1, UpdateLeft
  <2>2. /\ id \in DOMAIN items
        /\ items[id].rev = req[r].expected
        /\ items' = [items EXCEPT ![id] = [held[r] EXCEPT !.rev = items[id].rev + 1]]
    BY <1>1, <2>1, UpdateEffect
  <2>3. held[r] \in Task /\ items'[id].status = held[r].status
    BY <1>1, <2>2 DEF IInv, TypeOK, Task
  <2>4. /\ held[r].rev = items[id].rev
        /\ taskCanMove(items[id].status, held[r].status)
        /\ req[r].op # "assign" => items[id].operator = req[r].operator
    BY <1>1, <2>2 DEF IInv, UpdateOK
  <2> QED
    BY <2>2, <2>3, <2>4
<1>2. IInv /\ [Next]_vars => [\A r \in Requests : Legal(r)]_vars
  BY <1>1
<1>3. Spec => [][\A r \in Requests : Legal(r)]_vars
  BY <1>2, Invariant, PTL DEF Spec
<1> QED
  BY <1>3 DEF GuardedWritesLegal

\* A request is committed by its own Update and by nothing else, and keeps the
\* task and the revision it named.
LEMMA CommittedBefore ==
  ASSUME IInv, [Next]_vars, NEW r \in Requests, committed(r)'
  PROVE  /\ req'[r] = req[r]
         /\ \/ committed(r)
            \/ /\ pc[r] = "update" /\ pc'[r] \in {"end_assign", "audit"}
               /\ \A s \in Requests \ {r} : committed(s)' => committed(s)
<1>1. CASE UNCHANGED vars
  BY <1>1 DEF vars, committed
<1>2. ASSUME NEW s \in Requests, Arrive(s) \/ Cancel(s) \/ Serve(s), s # r
      PROVE  committed(r) /\ req'[r] = req[r]
  <2>1. pc'[r] = pc[r] /\ req'[r] = req[r] /\ reply'[r] = reply[r]
    BY <1>2 DEF Serve, Arrive, Cancel, NewId, counted, Put, BeginAssign, mayBegin, Get, Update, matches, nextRev, EndAssign,
                RecordCompletion, AuditAdd, DeferredEndAssign, ContextDone, Fail, goto,
                store, IInv, TypeOK
  <2> QED
    BY <2>1 DEF committed
<1>3. ASSUME Arrive(r) PROVE FALSE
  <2>1. reply'[r] = "none" /\ pc'[r] \in {"new_id", "begin_assign", "get"}
    <3>1. PICK input \in Input : pc' = [pc EXCEPT ![r] = firstCall[input.op]]
      BY <1>3 DEF Arrive, goto
    <3>2. firstCall[input.op] \in {"new_id", "begin_assign", "get"}
      BY InputType DEF Request, Op, firstCall
    <3>3. reply[r] = "none" /\ reply' = reply
      BY <1>3 DEF Arrive, IInv, ControlOK, Pending, PC
    <3> QED
      BY <3>1, <3>2, <3>3 DEF IInv, TypeOK
  <2> QED
    BY <2>1 DEF committed
<1>4. CASE Cancel(r)
  BY <1>4 DEF Cancel, committed
<1>5. ASSUME NEW err \in Error, Fail(r, err) PROVE FALSE
  <2>1. reply'[r] = err /\ err # "ok" /\ pc'[r] \in {"deferred_end_assign", "done"}
    BY <1>5 DEF Fail, goto, afterReturn, Error, IInv, TypeOK
  <2> QED
    BY <2>1 DEF committed
<1>6. CASE Serve(r) /\ pc[r] = "update"
  <2>1. Update(r)
    BY <1>6 DEF Serve, NewId, counted, Put, BeginAssign, mayBegin, Get, EndAssign, RecordCompletion,
                AuditAdd, DeferredEndAssign
  <2>2. /\ pc' = [pc EXCEPT ![r] = pc'[r]] /\ pc'[r] \in {"end_assign", "audit"}
        /\ req' = req /\ reply' = reply
    BY <1>5, <2>1, UpdateEffect
  <2>3. \A s \in Requests \ {r} : committed(s)' => committed(s)
    BY <2>2 DEF committed, IInv, TypeOK
  <2> QED
    BY <1>6, <2>2, <2>3
<1>7. CASE Serve(r) /\ pc[r] # "update"
  <2>1. req' = req
    BY <1>7 DEF Serve, NewId, counted, Put, BeginAssign, mayBegin, Get, Update, matches, nextRev, EndAssign, RecordCompletion,
                AuditAdd, DeferredEndAssign, ContextDone, Fail, store
  <2>2. ASSUME req[r].op # "create" PROVE committed(r)
    <3>1. pc[r] \notin {"new_id", "put"}
      BY <2>2 DEF IInv, ControlOK
    <3>2. CASE BeginAssign(r) \/ Get(r)
      <4>1. pc'[r] \in {"get", "update"} /\ reply'[r] = reply[r] /\ reply[r] = "none"
        BY <1>5, <3>2 DEF BeginAssign, mayBegin, Get, ContextDone, Error, goto, IInv, TypeOK,
                          ControlOK, Pending, refusal, matches, allowed
      <4> QED
        BY <4>1 DEF committed
    <3>3. CASE EndAssign(r) \/ RecordCompletion(r) \/ AuditAdd(r)
      BY <2>2, <3>3 DEF EndAssign, RecordCompletion, AuditAdd, committed
    <3>4. CASE DeferredEndAssign(r)
      BY <3>4 DEF DeferredEndAssign, goto, committed, IInv, TypeOK
    <3> QED
      BY <1>7, <3>1, <3>2, <3>3, <3>4 DEF Serve, NewId, counted, Put, Update, matches, nextRev
  <2> QED
    BY <2>1, <2>2 DEF committed
<1> QED
  BY <1>1, <1>2, <1>3, <1>4, <1>6, <1>7 DEF Next

\* Of the requests that expect one revision of one task at most one succeeds,
\* whatever else runs: the check under the lock of TaskStore.Update
\* (task_store.go:79) lets the first write through and moves the revision on.
THEOREM OneWinner == Spec => []OneGuardedWinner
<1>1. Init => OneGuardedWinner
  BY DEF Init, OneGuardedWinner, committed, NoRequest
<1>2. IInv /\ OneGuardedWinner /\ [Next]_vars => OneGuardedWinner'
  <2> SUFFICES ASSUME IInv, OneGuardedWinner, [Next]_vars,
                      NEW r \in Requests, NEW s \in Requests, r # s,
                      guarded(r)', req'[r].id = req'[s].id,
                      req'[r].expected = req'[s].expected,
                      committed(r)', committed(s)'
               PROVE  FALSE
    BY DEF OneGuardedWinner
  <2>1. /\ req'[r] = req[r] /\ req'[s] = req[s]
        /\ guarded(r) /\ guarded(s)
        /\ req[r].id = req[s].id /\ req[r].expected = req[s].expected
    BY CommittedBefore DEF guarded
  <2>2. ASSUME NEW a \in Requests, NEW b \in Requests, guarded(a), guarded(b),
               req[a].id = req[b].id, req[a].expected = req[b].expected, committed(a),
               pc[b] = "update", pc'[b] \in {"end_assign", "audit"}
        PROVE  FALSE
    <3>1. items[req[a].id].rev > req[a].expected /\ req[a].id \in DOMAIN items
      BY <2>2 DEF IInv, CommittedOK
    <3>2. items[req[b].id].rev = req[b].expected
      BY <2>2, UpdateLeft, UpdateEffect
    <3>3. items[req[a].id].rev \in Nat
      BY <3>1 DEF IInv, TypeOK, Task
    <3> QED
      BY <2>2, <3>1, <3>2, <3>3
  <2>3. CASE committed(r) /\ committed(s)
    BY <2>1, <2>3 DEF OneGuardedWinner
  <2>4. CASE ~ committed(r)
    BY <2>1, <2>2, <2>4, CommittedBefore
  <2>5. CASE ~ committed(s)
    BY <2>1, <2>2, <2>5, CommittedBefore
  <2> QED
    BY <2>3, <2>4, <2>5
<1> QED
  BY <1>1, <1>2, Invariant, PTL DEF Spec

------------------------------------------------------------------------------
(* The assignment flag.                                                    *)

\* Which handlers are on the way to their release of the flag.
Routed(r) ==
  /\ pc[r] = "deferred_end_assign" => req[r].op = "assign"
  /\ pc[r] \in {"end_assign", "record"} => req[r].op = "complete"

\* A task that a Start or a Complete has found beyond queued.
BeyondQueue(r) ==
  pc[r] = "end_assign" \/ (pc[r] = "update" /\ req[r].op # "assign") =>
    req[r].id \in DOMAIN items /\ items[req[r].id].status # "queued"

\* A Complete of the task has run and may have cleared its flag.
Released(id) ==
  \E c \in Requests :
    /\ req[c].op = "complete" /\ req[c].id = id
    /\ pc[c] \in {"record", "audit"} \/ reply[c] \in {"ok", "ctx"}

\* An Assign on its way has the flag, and has it alone, but for a Complete.
Flagged(r) ==
  inside(r, req[r].id) => req[r].id \in assigning \/ Released(req[r].id)
Alone(r) ==
  \A s \in Requests \ {r} :
    inside(r, req[r].id) /\ inside(s, req[r].id) => Released(req[r].id)

FlagInv ==
  \A r \in Requests : Routed(r) /\ BeyondQueue(r) /\ Flagged(r) /\ Alone(r)

\* A request's own step leaves the local state of the others alone.
LEMMA OthersUntouched ==
  ASSUME IInv, NEW r \in Requests, Arrive(r) \/ Cancel(r) \/ Serve(r),
         NEW s \in Requests, s # r
  PROVE  pc'[s] = pc[s] /\ req'[s] = req[s] /\ held'[s] = held[s] /\ reply'[s] = reply[s]
<1>1. /\ pc \in [Requests -> PC] /\ req \in [Requests -> Request]
      /\ held \in [Requests -> Task]
      /\ reply \in [Requests -> Error \cup {"none", "ok"}]
  BY DEF IInv, TypeOK
<1>2. CASE Arrive(r) \/ Cancel(r)
  BY <1>1, <1>2 DEF Arrive, Cancel, goto
<1>3. CASE \E err : Fail(r, err)
  BY <1>1, <1>3 DEF Fail, goto
<1>4. CASE NewId(r) \/ Put(r) \/ BeginAssign(r)
  BY <1>1, <1>3, <1>4 DEF NewId, Put, BeginAssign, ContextDone, goto
<1>5. CASE Get(r) \/ Update(r)
  BY <1>1, <1>3, <1>5 DEF Get, Update, store, ContextDone, goto
<1>6. CASE EndAssign(r) \/ RecordCompletion(r) \/ AuditAdd(r) \/ DeferredEndAssign(r)
  BY <1>1, <1>3, <1>6 DEF EndAssign, RecordCompletion, AuditAdd, DeferredEndAssign,
                          ContextDone, goto
<1> QED
  BY <1>2, <1>4, <1>5, <1>6 DEF Serve

\* What each store call of a request does with its pc, its answer and the flags.
LEMMA OwnStep ==
  ASSUME IInv, NEW r \in Requests, Serve(r)
  PROVE  /\ req' = req
         /\ \/ /\ pc[r] \in Pending \ {"idle", "audit"}
               /\ pc'[r] = afterReturn(r) /\ reply'[r] \in Error /\ assigning' = assigning
               /\ pc[r] = "record" => reply'[r] = "ctx"
            \/ /\ reply'[r] = reply[r] /\ assigning' = assigning
               /\ << pc[r], pc'[r] >> \in
                    {<< "new_id", "put" >>, << "put", "audit" >>, << "get", "update" >>,
                     << "update", "end_assign" >>, << "update", "audit" >>,
                     << "record", "audit" >>}
               /\ pc[r] = "update" => (pc'[r] = "end_assign" <=> req[r].op = "complete")
            \/ /\ pc[r] = "begin_assign" /\ pc'[r] = "get" /\ reply'[r] = reply[r]
               /\ req[r].id \notin assigning
               /\ assigning' = assigning \cup {req[r].id}
            \/ /\ pc[r] = "end_assign" /\ pc'[r] = "record" /\ reply'[r] = reply[r]
               /\ assigning' = assigning \ {req[r].id}
            \/ /\ pc[r] = "audit" /\ pc'[r] = afterReturn(r) /\ reply'[r] = "ok"
               /\ assigning' = assigning
            \/ /\ pc[r] = "deferred_end_assign" /\ pc'[r] = "done" /\ reply'[r] = reply[r]
               /\ assigning' = assigning \/ assigning' = assigning \ {req[r].id}
<1>1. pc \in [Requests -> PC] /\ reply \in [Requests -> Error \cup {"none", "ok"}]
  BY DEF IInv, TypeOK
<1>2. ASSUME NEW err \in Error, Fail(r, err), pc[r] \in Pending
      PROVE  /\ pc'[r] = afterReturn(r) /\ reply'[r] \in Error
             /\ assigning' = assigning /\ req' = req /\ reply'[r] = err
  BY <1>1, <1>2 DEF Fail, goto, storeVars
<1>3. CASE NewId(r)
  BY <1>1, <1>2, <1>3 DEF NewId, ContextDone, goto, Pending, PC, Error
<1>4. CASE Put(r)
  BY <1>1, <1>2, <1>4 DEF Put, ContextDone, goto, Pending, PC, Error
<1>5. CASE BeginAssign(r)
  BY <1>1, <1>2, <1>5 DEF BeginAssign, mayBegin, ContextDone, goto, Pending, PC, Error
<1>6. CASE Get(r)
  <2>1. \A t : refusal(r, t) # "none" => refusal(r, t) \in Error
    BY RefusalType
  <2> QED
    BY <1>1, <1>2, <1>6, <2>1 DEF Get, ContextDone, goto, Pending, PC, Error, storeVars
<1>7. CASE Update(r)
  BY <1>1, <1>2, <1>7 DEF Update, store, ContextDone, goto, Pending, PC, Error
<1>8. CASE EndAssign(r)
  BY <1>1, <1>2, <1>8 DEF EndAssign, ContextDone, goto, Pending, PC, Error
<1>9. CASE RecordCompletion(r)
  BY <1>1, <1>2, <1>9 DEF RecordCompletion, ContextDone, goto, Pending, PC, Error
<1>10. CASE AuditAdd(r)
  BY <1>1, <1>10 DEF AuditAdd, goto, storeVars
<1>11. CASE DeferredEndAssign(r)
  BY <1>1, <1>11 DEF DeferredEndAssign, goto
<1> QED
  BY <1>3, <1>4, <1>5, <1>6, <1>7, <1>8, <1>9, <1>10, <1>11 DEF Serve

\* Only a Put or an Update that has not failed changes the tasks.
LEMMA ItemsStep ==
  ASSUME IInv, NEW r \in Requests, Arrive(r) \/ Cancel(r) \/ Serve(r)
  PROVE  \/ items' = items
         \/ Put(r) /\ ~ \E err \in Error : Fail(r, err)
         \/ Update(r) /\ ~ \E err \in Error : Fail(r, err)
<1>1. (\E err : Fail(r, err)) => items' = items
  BY DEF Fail, storeVars
<1>2. CASE Put(r) \/ Update(r)
  BY <1>1, <1>2
<1>3. CASE Arrive(r) \/ Cancel(r) \/ NewId(r) \/ BeginAssign(r) \/ Get(r)
  BY <1>1, <1>3 DEF Arrive, Cancel, NewId, BeginAssign, Get, ContextDone, storeVars
<1>4. CASE EndAssign(r) \/ RecordCompletion(r) \/ AuditAdd(r) \/ DeferredEndAssign(r)
  BY <1>1, <1>4 DEF EndAssign, RecordCompletion, AuditAdd, DeferredEndAssign, ContextDone,
                    storeVars
<1> QED
  BY <1>2, <1>3, <1>4 DEF Serve

\* No task returns to queued: the writers of a task write another status.
LEMMA QueueIsLeft ==
  ASSUME IInv, NEW r \in Requests, Arrive(r) \/ Cancel(r) \/ Serve(r),
         NEW id \in DOMAIN items
  PROVE  /\ id \in DOMAIN items'
         /\ items[id].status # "queued" => items'[id].status # "queued"
<1>1. CASE Put(r) /\ ~ \E err \in Error : Fail(r, err)
  BY <1>1, PutEffect
<1>2. CASE Update(r) /\ ~ \E err \in Error : Fail(r, err)
  <2> DEFINE new == [held[r] EXCEPT !.rev = items[req[r].id].rev + 1]
  <2>1. items' = [items EXCEPT ![req[r].id] = new] /\ pc[r] = "update"
    BY <1>2, UpdateEffect
  <2>2. held[r] \in Task /\ req[r].op \in Op \ {"create"} /\ held[r].status = target[req[r].op]
    BY <2>1 DEF IInv, TypeOK, ControlOK, UpdateOK, Request
  <2>3. new.status # "queued"
    BY <2>2 DEF Task, target, Op
  <2> HIDE DEF new
  <2> QED
    BY <2>1, <2>3
<1> QED
  BY <1>1, <1>2, ItemsStep

\* A release is not forgotten.
LEMMA ReleasedStays ==
  ASSUME IInv, NEW r \in Requests, Arrive(r) \/ Cancel(r) \/ Serve(r),
         NEW id, Released(id)
  PROVE  Released(id)'
<1>1. PICK c \in Requests : /\ req[c].op = "complete" /\ req[c].id = id
                            /\ pc[c] \in {"record", "audit"} \/ reply[c] \in {"ok", "ctx"}
  BY DEF Released
<1>2. CASE c # r
  BY <1>1, <1>2, OthersUntouched DEF Released
<1>3. CASE c = r
  <2>1. pc[r] \notin {"idle", "new_id", "put", "begin_assign", "get", "update", "end_assign"}
    BY <1>1, <1>3 DEF IInv, ControlOK, Pending, PC
  <2>2. CASE Arrive(r) \/ Cancel(r)
    BY <1>1, <1>3, <2>1, <2>2 DEF Arrive, Cancel, Released
  <2>3. CASE Serve(r)
    <3>1. /\ req' = req
          /\ \/ pc'[r] \in {"record", "audit"}
             \/ reply'[r] \in {"ok", "ctx"}
      BY <1>1, <1>3, <2>1, <2>3, OwnStep DEF Pending, PC
    <3> QED
      BY <1>1, <1>3, <3>1 DEF Released
  <2> QED
    BY <2>2, <2>3
<1> QED
  BY <1>2, <1>3

\* A handler gets inside by BeginAssign only, which takes the flag.
LEMMA EntersByFlag ==
  ASSUME IInv, FlagInv, NEW r \in Requests, Arrive(r) \/ Cancel(r) \/ Serve(r),
         NEW s \in Requests, NEW id, inside(s, id)'
  PROVE  \/ inside(s, id)
         \/ s = r /\ id \notin assigning /\ id \in assigning'
<1>1. CASE s # r
  BY <1>1, OthersUntouched DEF inside
<1>2. CASE s = r /\ Serve(r)
  <2>1. req[r].op = "assign" /\ req[r].id = id /\ req' = req
        /\ pc'[r] \in {"get", "update", "audit", "deferred_end_assign"}
    BY <1>2, OwnStep DEF inside
  <2>2. pc[r] \notin {"new_id", "put", "record", "end_assign"}
    BY <2>1 DEF IInv, ControlOK, FlagInv, Routed
  <2> QED
    BY <1>2, <2>1, <2>2, OwnStep DEF inside, afterReturn, Pending, PC
<1>3. CASE s = r /\ Cancel(r)
  BY <1>3 DEF inside, Cancel
<1>4. CASE s = r /\ Arrive(r)
  <2>1. PICK input \in Input : /\ req' = [req EXCEPT ![r] = input]
                              /\ pc' = [pc EXCEPT ![r] = firstCall[input.op]]
    BY <1>4 DEF Arrive, goto
  <2>2. req'[r] = input /\ pc'[r] = firstCall[input.op] /\ input.op \in Op
    BY <2>1, InputType DEF IInv, TypeOK, Request
  <2>3. input.op = "assign" => pc'[r] = "begin_assign"
    BY <2>2 DEF firstCall, Op
  <2> QED
    BY <1>4, <2>2, <2>3 DEF inside
<1> QED
  BY <1>1, <1>2, <1>3, <1>4

\* A flag is cleared by the Assign that has it and by a Complete of its task.
LEMMA FlagCleared ==
  ASSUME IInv, FlagInv, NEW r \in Requests, Arrive(r) \/ Cancel(r) \/ Serve(r),
         NEW id \in assigning, id \notin assigning'
  PROVE  /\ req[r].id = id
         /\ \/ inside(r, id) /\ ~ inside(r, id)'
            \/ pc[r] = "end_assign" /\ Released(id)'
<1>1. Serve(r)
  BY DEF Arrive, Cancel, storeVars
<1>2. req' = req /\ req[r].id = id /\ pc[r] \in {"end_assign", "deferred_end_assign"}
  BY <1>1, OwnStep
<1>3. CASE pc[r] = "end_assign"
  <2>1. pc'[r] = "record" /\ req[r].op = "complete"
    BY <1>1, <1>3, OwnStep DEF FlagInv, Routed
  <2> QED
    BY <1>2, <1>3, <2>1 DEF Released
<1>4. CASE pc[r] = "deferred_end_assign"
  <2>1. pc'[r] = "done" /\ req[r].op = "assign"
    BY <1>1, <1>4, OwnStep DEF FlagInv, Routed, Pending, PC
  <2> QED
    BY <1>2, <1>4, <2>1 DEF inside
<1> QED
  BY <1>2, <1>3, <1>4

LEMMA InitFlagInv == Init => FlagInv
  BY DEF Init, FlagInv, Routed, BeyondQueue, Flagged, Alone, inside

LEMMA FlagInvStep ==
  ASSUME IInv, FlagInv, NEW r \in Requests, Arrive(r) \/ Cancel(r) \/ Serve(r)
  PROVE  FlagInv'
<1>1. ASSUME NEW s \in Requests PROVE Routed(s)'
  <2>1. CASE s # r
    BY <2>1, OthersUntouched DEF FlagInv, Routed
  <2>2. CASE s = r /\ Serve(r)
    BY <2>2, OwnStep DEF FlagInv, Routed, afterReturn, Pending, PC
  <2>3. CASE s = r /\ Cancel(r)
    BY <2>3 DEF Cancel, FlagInv, Routed
  <2>4. CASE s = r /\ Arrive(r)
    <3>1. PICK input \in Input : pc' = [pc EXCEPT ![r] = firstCall[input.op]]
      BY <2>4 DEF Arrive, goto
    <3>2. pc'[r] \in {"new_id", "begin_assign", "get"}
      BY <3>1, InputType DEF IInv, TypeOK, Request, Op, firstCall
    <3> QED
      BY <2>4, <3>2 DEF Routed
  <2> QED
    BY <2>1, <2>2, <2>3, <2>4
<1>2. ASSUME NEW s \in Requests PROVE BeyondQueue(s)'
  <2>1. CASE s # r
    BY <2>1, OthersUntouched, QueueIsLeft DEF FlagInv, BeyondQueue
  <2>2. CASE s = r /\ pc'[r] \notin {"update", "end_assign"}
    BY <2>2 DEF BeyondQueue
  <2>3. CASE s = r /\ Serve(r) /\ pc'[r] = "update"
    <3>1. pc[r] = "get" /\ req' = req
      BY <2>3, OwnStep DEF afterReturn
    <3>2. Get(r)
      BY <2>3, <3>1 DEF Serve, NewId, Put, BeginAssign, Update, EndAssign, RecordCompletion,
                        AuditAdd, DeferredEndAssign
    <3>3. ~ \E err : Fail(r, err)
      BY <2>3 DEF Fail, goto, afterReturn, IInv, TypeOK
    <3>4. /\ items' = items /\ req[r].id \in DOMAIN items
          /\ taskCanMove(items[req[r].id].status, target[req[r].op])
      BY <3>2, <3>3 DEF Get, ContextDone, refusal, allowed, storeVars
    <3>5. req[r].op \in {"assign", "start", "complete"}
      BY <3>1 DEF IInv, TypeOK, ControlOK, Request, Op
    <3> QED
      BY <2>3, <3>1, <3>4, <3>5 DEF BeyondQueue, taskCanMove, taskTransitionTable, target
  <2>4. CASE s = r /\ Serve(r) /\ pc'[r] = "end_assign"
    <3>1. pc[r] = "update" /\ req' = req /\ req[r].op = "complete"
      BY <2>4, OwnStep DEF afterReturn
    <3> QED
      BY <2>4, <3>1, QueueIsLeft DEF FlagInv, BeyondQueue
  <2>5. CASE s = r /\ Cancel(r)
    BY <2>5 DEF Cancel, storeVars, FlagInv, BeyondQueue
  <2>6. CASE Arrive(r)
    <3>1. PICK input \in Input : pc' = [pc EXCEPT ![r] = firstCall[input.op]]
      BY <2>6 DEF Arrive, goto
    <3>2. pc'[r] \notin {"update", "end_assign"}
      BY <3>1, InputType DEF IInv, TypeOK, Request, Op, firstCall
    <3> QED
      BY <2>1, <2>2, <3>2
  <2> QED
    BY <2>1, <2>2, <2>3, <2>4, <2>5, <2>6
<1>3. ASSUME NEW s \in Requests PROVE Flagged(s)'
  <2>1. PICK id : id = req'[s].id
    OBVIOUS
  <2>2. ASSUME inside(s, id)', ~ Released(id)' PROVE id \in assigning'
    <3>1. CASE inside(s, id)
      <4>1. id \in assigning
        BY <2>2, <3>1, ReleasedStays DEF FlagInv, Flagged, inside
      <4>2. CASE id \notin assigning'
        <5>1. inside(r, id) /\ ~ inside(r, id)'
          BY <2>2, <4>1, <4>2, FlagCleared
        <5>2. r # s /\ req[r].id = id
          BY <2>2, <5>1 DEF inside
        <5> QED
          BY <2>2, <3>1, <5>1, <5>2, ReleasedStays DEF FlagInv, Alone
      <4> QED
        BY <4>2
    <3>2. CASE ~ inside(s, id)
      BY <2>2, <3>2, EntersByFlag
    <3> QED
      BY <3>1, <3>2
  <2> QED
    BY <2>1, <2>2 DEF Flagged
<1>4. ASSUME NEW s \in Requests PROVE Alone(s)'
  <2>1. PICK id : id = req'[s].id
    OBVIOUS
  <2>2. ASSUME NEW q \in Requests \ {s}, inside(s, id)', inside(q, id)'
        PROVE  Released(id)'
    <3>1. CASE inside(s, id) /\ inside(q, id)
      BY <2>2, <3>1, ReleasedStays DEF FlagInv, Alone, inside
    <3>2. CASE ~ inside(s, id)
      BY <2>2, <3>2, EntersByFlag, ReleasedStays DEF FlagInv, Flagged, inside
    <3>3. CASE ~ inside(q, id)
      BY <2>2, <3>3, EntersByFlag, ReleasedStays DEF FlagInv, Flagged, inside
    <3> QED
      BY <3>1, <3>2, <3>3
  <2> QED
    BY <2>1, <2>2 DEF Alone
<1> QED
  BY <1>1, <1>2, <1>3, <1>4 DEF FlagInv

LEMMA FlagInvariant == Spec => []FlagInv
<1>1. IInv /\ FlagInv /\ [Next]_vars => FlagInv'
  <2> SUFFICES ASSUME IInv, FlagInv, [Next]_vars PROVE FlagInv'
    OBVIOUS
  <2>1. CASE UNCHANGED vars
    BY <2>1 DEF vars, FlagInv, Routed, BeyondQueue, Flagged, Alone, inside, Released
  <2>2. CASE Next
    BY <2>2, FlagInvStep DEF Next
  <2> QED
    BY <2>1, <2>2
<1> QED
  BY <1>1, InitFlagInv, Invariant, PTL DEF Spec

\* Two Assigns of one task are never between BeginAssign and EndAssign together
\* unless a Complete of the task has cleared the flag under one of them
\* (task_store.go:87-115, task_service.go:56-63, 141).
THEOREM AssignsExclude == Spec => []AssignExclusion
<1>1. FlagInv => AssignExclusion
  <2> SUFFICES ASSUME FlagInv, NEW r \in Requests, NEW s \in Requests, NEW id \in Ids,
                      r # s, inside(r, id), inside(s, id)
               PROVE  Released(id)
    BY DEF AssignExclusion, Released
  <2>1. req[r].id = id
    BY DEF inside
  <2> QED
    BY <2>1 DEF FlagInv, Alone
<1> QED
  BY <1>1, FlagInvariant, PTL

\* A queued task whose flag is set and whose Assign has gone stays like that
\* whatever arrives (task_service.go:63, task_store.go:98-115): nobody else gets
\* past BeginAssign, and whoever writes or completes a task has seen it beyond
\* queued.
THEOREM BlockedTasksStay == Spec => BlockedForGood
<1>1. ASSUME IInv, FlagInv, [Next]_vars, NEW id \in Ids, blocked(id)
      PROVE  blocked(id)'
  <2>1. CASE UNCHANGED vars
    BY <1>1, <2>1 DEF vars, blocked, inside
  <2>2. ASSUME NEW r \in Requests, Arrive(r) \/ Cancel(r) \/ Serve(r)
        PROVE  blocked(id)'
    <3>1. id \in DOMAIN items
      BY <1>1 DEF blocked, IInv, TypeOK
    <3>2. \A s \in Requests : ~ inside(s, id)'
      BY <1>1, <2>2, EntersByFlag DEF blocked
    <3>3. id \in assigning'
      <4> SUFFICES ASSUME id \notin assigning' PROVE FALSE
        OBVIOUS
      <4>1. req[r].id = id /\ pc[r] = "end_assign"
        BY <1>1, <2>2, FlagCleared DEF blocked
      <4> QED
        BY <1>1, <4>1 DEF FlagInv, BeyondQueue, blocked
    <3>4. items'[id].status = "queued"
      <4>1. CASE Put(r) /\ ~ \E err \in Error : Fail(r, err)
        BY <1>1, <3>1, <4>1, PutEffect DEF blocked
      <4>2. CASE Update(r) /\ ~ \E err \in Error : Fail(r, err)
        <5>1. /\ pc[r] = "update"
              /\ \A i \in DOMAIN items : i # req[r].id => items'[i] = items[i]
          BY <1>1, <4>2, UpdateEffect
        <5>2. req[r].id # id
          BY <1>1, <5>1 DEF FlagInv, BeyondQueue, blocked, inside
        <5> QED
          BY <1>1, <3>1, <5>1, <5>2 DEF blocked
      <4> QED
        BY <1>1, <2>2, <4>1, <4>2, ItemsStep DEF blocked
    <3> QED
      BY <3>2, <3>3, <3>4 DEF blocked
  <2> QED
    BY <1>1, <2>1, <2>2 DEF Next
<1>2. IInv /\ FlagInv /\ [Next]_vars => [\A id \in Ids : blocked(id) => blocked(id)']_vars
  BY <1>1
<1> QED
  BY <1>2, Invariant, FlagInvariant, PTL DEF Spec, BlockedForGood

\* A flag that is set has an Assign that will clear it, or one that returned when its
\* client had gone (which of those had set the flag, the state does not tell).
FlagHasCause ==
  \A id \in assigning : \E r \in Requests : inside(r, id) \/ abandoned(r, id)

LEMMA FlagCauseStep ==
  ASSUME IInv, FlagInv, FlagHasCause, NEW r \in Requests, Arrive(r) \/ Cancel(r) \/ Serve(r)
  PROVE  FlagHasCause'
<1> SUFFICES ASSUME NEW id \in assigning'
             PROVE  \E s \in Requests : inside(s, id)' \/ abandoned(s, id)'
  BY DEF FlagHasCause
<1>1. cancelled \subseteq cancelled'
  <2>1. \A err \in Error : Fail(r, err) => cancelled' = cancelled
    BY DEF Fail
  <2>2. CASE Arrive(r) \/ Cancel(r)
    BY <2>2 DEF Arrive, Cancel
  <2>3. CASE NewId(r) \/ Put(r) \/ BeginAssign(r)
    BY <2>1, <2>3 DEF NewId, Put, BeginAssign, ContextDone, Error
  <2>4. CASE Get(r) \/ Update(r)
    BY <2>1, <2>4 DEF Get, Update, store, ContextDone, Error, Fail
  <2>5. CASE EndAssign(r) \/ RecordCompletion(r) \/ AuditAdd(r) \/ DeferredEndAssign(r)
    BY <2>1, <2>5 DEF EndAssign, RecordCompletion, AuditAdd, DeferredEndAssign,
                      ContextDone, Error
  <2> QED
    BY <2>2, <2>3, <2>4, <2>5 DEF Serve
<1>2. CASE id \notin assigning
  <2>1. /\ pc[r] = "begin_assign" /\ pc'[r] = "get" /\ req' = req
        /\ assigning' = assigning \cup {req[r].id}
    <3>1. ~ (Arrive(r) \/ Cancel(r))
      BY <1>2 DEF Arrive, Cancel, storeVars
    <3> QED
      BY <1>2, <3>1, OwnStep
  <2>2. req[r].op = "assign"
    BY <2>1 DEF IInv, ControlOK
  <2> QED
    BY <1>2, <2>1, <2>2 DEF inside
<1>3. CASE id \in assigning
  <2>1. PICK s \in Requests : inside(s, id) \/ abandoned(s, id)
    BY <1>3 DEF FlagHasCause
  <2>2. CASE s # r
    <3>1. pc'[s] = pc[s] /\ req'[s] = req[s]
      BY <2>2, OthersUntouched
    <3> QED
      BY <1>1, <2>1, <3>1 DEF inside, abandoned
  <2>3. CASE s = r
    <3>1. CASE Cancel(r)
      BY <1>1, <2>1, <2>3, <3>1 DEF Cancel, inside, abandoned
    <3>2. CASE Serve(r) /\ pc[r] = "deferred_end_assign"
      <4>1. DeferredEndAssign(r)
        BY <3>2 DEF Serve, NewId, Put, BeginAssign, Get, Update, EndAssign, RecordCompletion,
                    AuditAdd
      <4>2. req'[r] = req[r] /\ pc'[r] = "done"
        BY <3>2, <4>1 DEF DeferredEndAssign, goto, IInv, TypeOK
      <4>3. req[r].op = "assign" /\ req[r].id = id
        BY <2>1, <2>3, <3>2 DEF inside, abandoned
      <4>4. r \in cancelled'
        BY <4>1, <4>3 DEF DeferredEndAssign, live
      <4> QED
        BY <4>2, <4>3, <4>4 DEF abandoned
    <3>3. CASE Serve(r) /\ pc[r] # "deferred_end_assign"
      <4>1. req' = req /\ inside(r, id)
        BY <2>1, <2>3, <3>3, OwnStep DEF abandoned, Pending
      <4>2. pc'[r] \in {"update", "audit", "deferred_end_assign"}
        BY <3>3, <4>1, OwnStep DEF inside, afterReturn
      <4> QED
        BY <4>1, <4>2 DEF inside
    <3>4. ~ Arrive(r)
      BY <2>1, <2>3 DEF Arrive, inside, abandoned
    <3> QED
      BY <3>1, <3>2, <3>3, <3>4
  <2> QED
    BY <2>2, <2>3
<1> QED
  BY <1>2, <1>3

\* No assignment flag is set without a reason: its Assign is still on the way to its
\* deferred EndAssign, or has returned after its client went away, whose context the
\* EndAssign then found done (task_service.go:63, task_store.go:105-115).
THEOREM FlagsAreAccountedFor == Spec => []FlagHasCause
<1>1. Init => FlagHasCause
  BY DEF Init, FlagHasCause
<1>2. IInv /\ FlagInv /\ FlagHasCause /\ [Next]_vars => FlagHasCause'
  <2> SUFFICES ASSUME IInv, FlagInv, FlagHasCause, [Next]_vars PROVE FlagHasCause'
    OBVIOUS
  <2>1. CASE UNCHANGED vars
    BY <2>1 DEF vars, storeVars, FlagHasCause, inside, abandoned
  <2>2. CASE Next
    BY <2>2, FlagCauseStep DEF Next
  <2> QED
    BY <2>1, <2>2
<1> QED
  BY <1>1, <1>2, Invariant, FlagInvariant, PTL DEF Spec

------------------------------------------------------------------------------
(* What is owed to the audit trail.                                        *)

\* A request that was answered with success is in the audit trail.
SuccessAudited == \A r \in Requests : reply[r] = "ok" => r \in audit

\* A request that has changed its task goes on to its audit event, but for a
\* completion whose client has gone.
AuditKept ==
  [][\A r \in Requests :
       committed(r) => committed(r)' \/ (req[r].op = "complete" /\ r \in cancelled)]_vars

LEMMA AuditStep ==
  ASSUME IInv, SuccessAudited, NEW r \in Requests, Arrive(r) \/ Cancel(r) \/ Serve(r)
  PROVE  SuccessAudited'
<1>1. audit \subseteq audit' /\ (AuditAdd(r) => r \in audit')
  <2>1. \A err \in Error : Fail(r, err) => audit' = audit
    BY DEF Fail
  <2>2. CASE Arrive(r) \/ Cancel(r)
    BY <2>2 DEF Arrive, Cancel, AuditAdd
  <2>3. CASE NewId(r) \/ Put(r) \/ BeginAssign(r)
    BY <2>1, <2>3 DEF NewId, Put, BeginAssign, ContextDone, Error, AuditAdd
  <2>4. CASE Get(r) \/ Update(r)
    BY <2>1, <2>4 DEF Get, Update, store, ContextDone, Error, Fail, AuditAdd
  <2>5. CASE EndAssign(r) \/ RecordCompletion(r) \/ AuditAdd(r) \/ DeferredEndAssign(r)
    BY <2>1, <2>5 DEF EndAssign, RecordCompletion, AuditAdd, DeferredEndAssign,
                      ContextDone, Error
  <2> QED
    BY <2>2, <2>3, <2>4, <2>5 DEF Serve
<1>2. reply'[r] = "ok" => r \in audit'
  <2>1. CASE Arrive(r) \/ Cancel(r)
    BY <1>1, <2>1 DEF Arrive, Cancel, SuccessAudited
  <2>2. CASE Serve(r) /\ pc[r] = "audit"
    <3>1. AuditAdd(r)
      BY <2>2 DEF Serve, NewId, Put, BeginAssign, Get, Update, EndAssign, RecordCompletion,
                  DeferredEndAssign
    <3> QED
      BY <1>1, <3>1
  <2>3. CASE Serve(r) /\ pc[r] # "audit"
    <3>1. reply'[r] = reply[r] \/ reply'[r] \in Error
      BY <2>3, OwnStep
    <3>2. "ok" \notin Error
      BY DEF Error
    <3> QED
      BY <1>1, <3>1, <3>2 DEF SuccessAudited
  <2> QED
    BY <2>1, <2>2, <2>3
<1>3. ASSUME NEW s \in Requests, s # r PROVE reply'[s] = "ok" => s \in audit'
  <2>1. reply'[s] = reply[s]
    BY <1>3, OthersUntouched
  <2> QED
    BY <1>1, <2>1 DEF SuccessAudited
<1> QED
  BY <1>2, <1>3 DEF SuccessAudited

LEMMA KeptStep ==
  ASSUME IInv, FlagInv, NEW r \in Requests, Arrive(r) \/ Cancel(r) \/ Serve(r),
         NEW s \in Requests, committed(s)
  PROVE  committed(s)' \/ (req[s].op = "complete" /\ s \in cancelled)
<1>1. CASE s # r
  <2>1. pc'[s] = pc[s] /\ req'[s] = req[s] /\ reply'[s] = reply[s]
    BY <1>1, OthersUntouched
  <2> QED
    BY <2>1 DEF committed
<1>2. CASE s = r /\ Arrive(r)
  <2>1. pc[r] = "idle" /\ reply[r] = "none"
    BY <1>2 DEF Arrive, IInv, ControlOK, Pending, PC
  <2> QED
    BY <1>2, <2>1 DEF committed
<1>3. CASE s = r /\ Cancel(r)
  BY <1>3 DEF Cancel, committed
<1>4. CASE s = r /\ (EndAssign(r) \/ RecordCompletion(r))
  <2>1. pc[r] \in {"end_assign", "record"} /\ req[r].op = "complete"
    BY <1>4 DEF EndAssign, RecordCompletion, FlagInv, Routed
  <2>2. CASE ContextDone(r)
    BY <1>4, <2>1, <2>2 DEF ContextDone
  <2>3. CASE ~ ContextDone(r)
    <3>1. req' = req /\ pc'[r] \in {"record", "audit"}
      BY <1>4, <2>3 DEF EndAssign, RecordCompletion, goto, IInv, TypeOK
    <3> QED
      BY <1>4, <2>1, <3>1 DEF committed
  <2> QED
    BY <2>2, <2>3
<1>5. CASE s = r /\ Serve(r) /\ ~ (EndAssign(r) \/ RecordCompletion(r))
  <2>1. req' = req
    BY <1>5, OwnStep
  <2>2. pc[r] \in {"audit", "deferred_end_assign"}
    <3>1. pc[r] \notin {"end_assign", "record"}
      BY <1>5 DEF Serve, NewId, Put, BeginAssign, Get, Update, AuditAdd, DeferredEndAssign
    <3>2. pc[r] # "done" /\ pc[r] \in PC
      BY <1>5 DEF Serve, NewId, Put, BeginAssign, Get, Update, EndAssign, RecordCompletion,
                  AuditAdd, DeferredEndAssign, IInv, TypeOK
    <3>3. pc[r] \in Pending => reply[r] # "ok"
      BY DEF IInv, ControlOK
    <3> QED
      BY <1>5, <3>1, <3>2, <3>3 DEF committed, Pending
  <2>3. reply'[r] = "ok"
    BY <1>5, <2>2, OwnStep DEF Pending, committed
  <2> QED
    BY <1>5, <2>1, <2>3 DEF committed
<1> QED
  BY <1>1, <1>2, <1>3, <1>4, <1>5

\* A change of a task reaches the audit trail before its request is answered with
\* success, and no context that ends can prevent it, but for a Complete between its
\* Update and RecordCompletion (task_service.go:78-82, 107-111, 137-147): what is left of
\* WritesAreAudited is that the handler is scheduled.
THEOREM WritesOweTheirAudit == Spec => []SuccessAudited /\ AuditKept
<1>1. Init => SuccessAudited
  BY DEF Init, SuccessAudited
<1>2. IInv /\ SuccessAudited /\ [Next]_vars => SuccessAudited'
  <2> SUFFICES ASSUME IInv, SuccessAudited, [Next]_vars PROVE SuccessAudited'
    OBVIOUS
  <2>1. CASE UNCHANGED vars
    BY <2>1 DEF vars, SuccessAudited
  <2>2. CASE Next
    BY <2>2, AuditStep DEF Next
  <2> QED
    BY <2>1, <2>2
<1>3. IInv /\ FlagInv /\ [Next]_vars =>
        [\A r \in Requests :
           committed(r) => committed(r)' \/ (req[r].op = "complete" /\ r \in cancelled)]_vars
  BY KeptStep DEF Next
<1> QED
  BY <1>1, <1>2, <1>3, Invariant, FlagInvariant, PTL DEF Spec, AuditKept

------------------------------------------------------------------------------
(* The completion history.                                                 *)

\* r's Complete has written its task and has not failed since.
wrote(r) == req[r].op = "complete" /\ committed(r)

\* What a Complete that has written holds is a revision of its task.
Written(r) ==
  wrote(r) => /\ held[r].id = req[r].id /\ req[r].id \in DOMAIN items
              /\ held[r].status = "completed"
              /\ held[r].rev <= items[req[r].id].rev

\* No two completions have made the same write.
WritesDiffer ==
  \A r, s \in Requests :
    r # s /\ wrote(r) /\ wrote(s) /\ held[r].id = held[s].id => held[r].rev # held[s].rev

\* The history holds what recorded completions hold, each once, and lacks a
\* recorded one only when it is full of others.
Recorded ==
  /\ \A i \in DOMAIN completed : \E s \in Requests : recorded(s) /\ completed[i] = held[s]
  /\ \A i, j \in DOMAIN completed : i # j => completed[i] # completed[j]
  /\ Len(completed) <= MaxHistory
  /\ \A r \in Requests :
       recorded(r) => \/ \E i \in DOMAIN completed : completed[i] = held[r]
                      \/ Len(completed) = MaxHistory

HistoryInv == (\A r \in Requests : Routed(r) /\ Written(r)) /\ WritesDiffer /\ Recorded

\* What is left of a history of at most n entries when one more is recorded.
LEMMA LastOfAppend ==
  ASSUME NEW S, NEW s \in Seq(S), NEW e \in S, NEW n \in Nat \ {0}, Len(s) <= n
  PROVE  LET t == lastOf(Append(s, e), n)
         IN /\ Len(s) < n => /\ Len(t) = Len(s) + 1
                             /\ \A i \in 1 .. Len(s) : t[i] = s[i]
            /\ Len(s) = n => /\ Len(t) = n
                             /\ \A i \in 1 .. n - 1 : t[i] = s[i + 1]
            /\ t[Len(t)] = e
<1> DEFINE a == Append(s, e)
<1>1. /\ a \in Seq(S) /\ Len(a) = Len(s) + 1 /\ Len(s) \in Nat
      /\ \A i \in 1 .. Len(s) : a[i] = s[i]
      /\ a[Len(s) + 1] = e
  OBVIOUS
<1> HIDE DEF a
<1>2. CASE Len(s) < n
  <2>1. lastOf(a, n) = a
    BY <1>1, <1>2 DEF lastOf
  <2> QED
    BY <1>1, <1>2, <2>1 DEF a
<1>3. CASE Len(s) = n
  <2>1. lastOf(a, n) = SubSeq(a, 2, n + 1)
    BY <1>1, <1>3 DEF lastOf
  <2>2. /\ Len(SubSeq(a, 2, n + 1)) = n
        /\ \A i \in 1 .. n : SubSeq(a, 2, n + 1)[i] = a[i + 1]
    BY <1>1, <1>3
  <2> QED
    BY <1>1, <1>3, <2>1, <2>2 DEF a
<1> QED
  BY <1>1, <1>2, <1>3

\* Only a RecordCompletion that has not failed changes the history.
LEMMA CompletedStep ==
  ASSUME IInv, NEW r \in Requests, Arrive(r) \/ Cancel(r) \/ Serve(r)
  PROVE  \/ completed' = completed /\ ~ (pc[r] = "record" /\ pc'[r] = "audit")
         \/ /\ pc[r] = "record" /\ pc' = [pc EXCEPT ![r] = "audit"]
            /\ completed' = lastOf(Append(completed, held[r]), MaxHistory)
            /\ UNCHANGED << items, req, held, reply >>
<1>1. (\E err : Fail(r, err)) => completed' = completed /\ pc'[r] # "audit"
  BY DEF Fail, goto, afterReturn, storeVars, IInv, TypeOK
<1>2. CASE RecordCompletion(r)
  BY <1>1, <1>2 DEF RecordCompletion, ContextDone, goto
<1>3. CASE Cancel(r)
  BY <1>3 DEF Cancel, storeVars
<1>4. CASE Arrive(r) \/ NewId(r) \/ Put(r) \/ BeginAssign(r) \/ Get(r)
  BY <1>1, <1>4 DEF Arrive, NewId, Put, BeginAssign, Get, ContextDone, storeVars
<1>5. CASE Update(r) \/ EndAssign(r) \/ AuditAdd(r) \/ DeferredEndAssign(r)
  BY <1>1, <1>5 DEF Update, store, EndAssign, AuditAdd, DeferredEndAssign, ContextDone,
                    storeVars
<1> QED
  BY <1>2, <1>3, <1>4, <1>5 DEF Serve

\* After its Update a handler keeps what it holds, until it fails.
LEMMA LateStep ==
  ASSUME IInv, NEW r \in Requests, Arrive(r) \/ Cancel(r) \/ Serve(r),
         pc[r] \in {"end_assign", "record", "audit"} \/ reply[r] = "ok"
  PROVE  /\ req' = req
         /\ held' = held \/ (\E err \in Error : Fail(r, err))
<1>1. pc[r] \notin {"idle", "new_id", "put", "begin_assign", "get", "update"}
  BY DEF IInv, ControlOK, Pending, PC
<1>2. CASE Cancel(r) \/ Arrive(r)
  BY <1>1, <1>2 DEF Cancel, Arrive, storeVars
<1>3. CASE EndAssign(r) \/ RecordCompletion(r) \/ AuditAdd(r) \/ DeferredEndAssign(r)
  BY <1>3 DEF EndAssign, RecordCompletion, AuditAdd, DeferredEndAssign, ContextDone, Fail,
              Error
<1> QED
  BY <1>1, <1>2, <1>3 DEF Serve, NewId, Put, BeginAssign, Get, Update

\* A completion writes by its Update and holds what it wrote from then on.
LEMMA WroteBefore ==
  ASSUME IInv, NEW r \in Requests, Arrive(r) \/ Cancel(r) \/ Serve(r),
         NEW s \in Requests, wrote(s)'
  PROVE  /\ req'[s] = req[s]
         /\ \/ wrote(s) /\ held'[s] = held[s]
            \/ s = r /\ Update(r) /\ ~ \E err \in Error : Fail(r, err)
<1>1. [Next]_vars /\ committed(s)'
  BY DEF Next, wrote
<1>2. req'[s] = req[s]
  BY <1>1, CommittedBefore
<1>3. CASE ~ committed(s)
  <2>1. pc[s] = "update" /\ pc'[s] # "update"
    BY <1>1, <1>3, CommittedBefore
  <2>2. s = r
    BY <2>1, OthersUntouched
  <2> QED
    BY <1>1, <1>2, <1>3, <2>2, CommittedBefore, UpdateLeft
<1>4. CASE committed(s)
  <2>1. wrote(s)
    BY <1>2, <1>4 DEF wrote
  <2>2. CASE s # r
    BY <1>2, <2>1, <2>2, OthersUntouched
  <2>3. CASE s = r
    <3>1. ASSUME NEW err \in Error, Fail(r, err) PROVE FALSE
      <4>1. reply'[r] # "ok" /\ pc'[r] \in {"deferred_end_assign", "done"}
        BY <3>1 DEF Fail, goto, afterReturn, Error, IInv, TypeOK
      <4> QED
        BY <1>1, <2>3, <4>1 DEF committed
    <3> QED
      BY <1>2, <1>4, <2>1, <2>3, <3>1, LateStep DEF committed
  <2> QED
    BY <2>2, <2>3
<1> QED
  BY <1>3, <1>4

\* A recorded completion stays recorded, and another one becomes so by its
\* RecordCompletion.
LEMMA RecordedStep ==
  ASSUME IInv, \A q \in Requests : Routed(q), NEW r \in Requests,
         Arrive(r) \/ Cancel(r) \/ Serve(r), NEW s \in Requests
  PROVE  /\ recorded(s) => recorded(s)' /\ held'[s] = held[s]
         /\ recorded(s)' /\ ~ recorded(s) => s = r /\ pc[r] = "record" /\ pc'[r] = "audit"
<1>1. CASE s # r
  BY <1>1, OthersUntouched DEF recorded
<1>2. ASSUME s = r, recorded(r) PROVE recorded(r)' /\ held'[r] = held[r]
  <2>1. pc[r] = "audit" \/ pc[r] \notin Pending
    BY <1>2 DEF recorded, IInv, ControlOK
  <2>2. /\ req' = req
        /\ held' = held \/ (\E err \in Error : Fail(r, err))
    BY <1>2, LateStep DEF recorded
  <2>3. CASE Serve(r)
    <3>1. pc'[r] = "audit" \/ reply'[r] = "ok"
      BY <1>2, <2>1, <2>3, OwnStep DEF recorded, Pending, PC
    <3>2. ~ \E err \in Error : Fail(r, err)
      BY <3>1 DEF Fail, goto, afterReturn, Error, IInv, TypeOK
    <3> QED
      BY <1>2, <2>2, <3>1, <3>2 DEF recorded
  <2>4. CASE Cancel(r)
    BY <1>2, <2>4 DEF Cancel, recorded
  <2>5. CASE Arrive(r)
    BY <2>1, <2>5 DEF Arrive, Pending, PC
  <2> QED
    BY <2>3, <2>4, <2>5
<1>3. ASSUME s = r, recorded(r)', ~ recorded(r)
      PROVE  pc[r] = "record" /\ pc'[r] = "audit"
  <2>1. wrote(r)'
    BY <1>3 DEF recorded, wrote, committed
  <2>2. req'[r] = req[r] /\ req[r].op = "complete"
    BY <1>3, <2>1, WroteBefore DEF recorded
  <2>3. CASE Serve(r)
    <3>1. reply[r] # "ok" /\ pc[r] # "audit" /\ pc[r] # "put"
      BY <1>3, <2>2 DEF recorded, IInv, ControlOK
    <3>2. afterReturn(r) # "audit"
      BY DEF afterReturn
    <3> QED
      BY <1>3, <2>2, <2>3, <3>1, <3>2, OwnStep DEF recorded, Error
  <2>4. CASE Cancel(r)
    BY <1>3, <2>4 DEF Cancel, recorded
  <2>5. CASE Arrive(r)
    <3>1. PICK input \in Input : pc' = [pc EXCEPT ![r] = firstCall[input.op]]
      BY <2>5 DEF Arrive, goto
    <3>2. pc'[r] # "audit"
      BY <3>1, InputType DEF IInv, TypeOK, Request, Op, firstCall
    <3>3. reply'[r] = "none"
      BY <2>5 DEF Arrive, IInv, ControlOK, Pending, PC
    <3> QED
      BY <1>3, <3>2, <3>3 DEF recorded
  <2> QED
    BY <2>3, <2>4, <2>5
<1> QED
  BY <1>1, <1>2, <1>3

\* A task is never lost, and its revision never falls.
LEMMA RevisionsGrow ==
  ASSUME IInv, NEW r \in Requests, Arrive(r) \/ Cancel(r) \/ Serve(r),
         NEW id \in DOMAIN items
  PROVE  id \in DOMAIN items' /\ items'[id].rev >= items[id].rev
<1>1. items[id].rev \in Nat
  BY DEF IInv, TypeOK, Task
<1>2. CASE Put(r) /\ ~ \E err \in Error : Fail(r, err)
  <2>1. id \in DOMAIN items' /\ items'[id] = items[id]
    BY <1>2, PutEffect
  <2> QED
    BY <1>1, <2>1
<1>3. CASE Update(r) /\ ~ \E err \in Error : Fail(r, err)
  <2> DEFINE new == [held[r] EXCEPT !.rev = items[req[r].id].rev + 1]
  <2>1. items' = [items EXCEPT ![req[r].id] = new] /\ held[r] \in Task
    BY <1>3, UpdateEffect DEF IInv, TypeOK
  <2>2. new.rev = items[req[r].id].rev + 1
    BY <2>1 DEF Task
  <2> HIDE DEF new
  <2> QED
    BY <1>1, <2>1, <2>2
<1> QED
  BY <1>1, <1>2, <1>3, ItemsStep

LEMMA InitHistoryInv == Init => HistoryInv
<1> SUFFICES ASSUME Init PROVE HistoryInv
  OBVIOUS
<1>1. completed = << >> /\ MaxHistory \in Nat
  BY RequestAssumption DEF Init
<1>2. Len(completed) = 0 /\ DOMAIN completed = {}
  BY <1>1
<1>3. \A r \in Requests : ~ wrote(r) /\ ~ recorded(r) /\ Routed(r)
  BY DEF Init, wrote, committed, recorded, Routed
<1> QED
  BY <1>1, <1>2, <1>3 DEF HistoryInv, Written, WritesDiffer, Recorded

\* A successful Update of a Complete makes a write that is newer than every other.
LEMMA NewWrite ==
  ASSUME IInv, NEW r \in Requests, Update(r), ~ \E err \in Error : Fail(r, err),
         req[r].op = "complete"
  PROVE  /\ held'[r] = items'[req[r].id] /\ req[r].id \in DOMAIN items'
         /\ held'[r].id = req[r].id /\ held'[r].status = "completed"
         /\ items[req[r].id].rev \in Nat
         /\ held'[r].rev = items[req[r].id].rev + 1
<1> DEFINE id  == req[r].id
           new == [held[r] EXCEPT !.rev = items[id].rev + 1]
<1>1. /\ pc[r] = "update" /\ id \in DOMAIN items
      /\ items' = [items EXCEPT ![id] = new] /\ held' = [held EXCEPT ![r] = new]
  BY UpdateEffect
<1>2. held[r] \in Task /\ items[id] \in Task /\ held \in [Requests -> Task]
  BY <1>1 DEF IInv, TypeOK
<1>3. held[r].id = id /\ held[r].status = "completed"
  BY <1>1 DEF IInv, UpdateOK, target
<1>4. new.id = id /\ new.status = "completed" /\ new.rev = items[id].rev + 1
  BY <1>2, <1>3 DEF Task
<1>5. items'[id] = new /\ held'[r] = new /\ id \in DOMAIN items' /\ items[id].rev \in Nat
  BY <1>1, <1>2 DEF Task
<1> QED
  BY <1>4, <1>5

LEMMA WritesStep ==
  ASSUME IInv, IInv', HistoryInv, NEW r \in Requests, Arrive(r) \/ Cancel(r) \/ Serve(r)
  PROVE  (\A s \in Requests : Written(s)') /\ WritesDiffer'
<1>1. ASSUME NEW s \in Requests, wrote(s)'
      PROVE  \/ wrote(s) /\ held'[s] = held[s] /\ req'[s] = req[s]
             \/ /\ s = r /\ req'[r] = req[r] /\ req[r].op = "complete"
                /\ Update(r) /\ ~ \E err \in Error : Fail(r, err)
  BY <1>1, WroteBefore DEF wrote
<1>2. ASSUME NEW s \in Requests PROVE Written(s)'
  <2>1. CASE wrote(s)' /\ wrote(s) /\ held'[s] = held[s] /\ req'[s] = req[s]
    <3> DEFINE id == req[s].id
    <3>1. held[s].id = id /\ id \in DOMAIN items /\ held[s].status = "completed"
          /\ held[s].rev <= items[id].rev
      BY <2>1 DEF HistoryInv, Written
    <3>2. id \in DOMAIN items' /\ items'[id].rev >= items[id].rev
      BY <3>1, RevisionsGrow
    <3>3. held[s].rev \in Nat /\ items[id].rev \in Nat /\ items'[id].rev \in Nat
      BY <3>1, <3>2 DEF IInv, TypeOK, Task
    <3>4. held[s].rev <= items'[id].rev
      BY <3>1, <3>2, <3>3
    <3> QED
      BY <2>1, <3>1, <3>2, <3>4 DEF Written
  <2>2. CASE /\ wrote(s)' /\ s = r /\ req'[r] = req[r] /\ req[r].op = "complete"
             /\ Update(r) /\ ~ \E err \in Error : Fail(r, err)
    <3>1. held'[r].rev \in Nat
      BY DEF IInv, TypeOK, Task
    <3> QED
      BY <2>2, <3>1, NewWrite DEF Written
  <2> QED
    BY <1>1, <2>1, <2>2 DEF Written
<1>3. ASSUME NEW s \in Requests, NEW q \in Requests, s # q, wrote(s)', wrote(q)',
             held'[s].id = held'[q].id
      PROVE  held'[s].rev # held'[q].rev
  <2>1. ASSUME NEW a \in Requests, NEW b \in Requests, a # b, wrote(b)', b # r,
               a = r, req[r].op = "complete", Update(r), ~ \E err \in Error : Fail(r, err),
               held'[a].id = held'[b].id
        PROVE  held'[a].rev # held'[b].rev
    <3>1. held'[b] = held[b] /\ wrote(b)
      BY <1>1, <2>1
    <3>2. held[b].id = req[r].id /\ held[b].rev <= items[req[r].id].rev
      BY <2>1, <3>1, NewWrite DEF HistoryInv, Written
    <3>3. held[b].rev \in Nat
      BY DEF IInv, TypeOK, Task
    <3> QED
      BY <2>1, <3>1, <3>2, <3>3, NewWrite
  <2>2. CASE wrote(s) /\ held'[s] = held[s] /\ wrote(q) /\ held'[q] = held[q]
    BY <1>3, <2>2 DEF HistoryInv, WritesDiffer
  <2> QED
    BY <1>1, <1>3, <2>1, <2>2
<1> QED
  BY <1>2, <1>3 DEF WritesDiffer

\* A recorded completion has made a write, and its write is no other's.
LEMMA RecordedWrote ==
  ASSUME NEW r \in Requests, recorded(r) \/ (pc[r] = "record" /\ req[r].op = "complete")
  PROVE  wrote(r)
BY DEF recorded, wrote, committed

LEMMA RecordedInvStep ==
  ASSUME IInv, HistoryInv, NEW r \in Requests, Arrive(r) \/ Cancel(r) \/ Serve(r)
  PROVE  Recorded'
<1> DEFINE n == MaxHistory
<1>1. /\ \A q \in Requests : Routed(q)
      /\ \A s \in Requests : recorded(s) => recorded(s)' /\ held'[s] = held[s]
  BY RecordedStep DEF HistoryInv
<1>2. CASE completed' = completed /\ ~ (pc[r] = "record" /\ pc'[r] = "audit")
  <2>1. \A s \in Requests : recorded(s)' => recorded(s)
    BY <1>1, <1>2, RecordedStep
  <2> QED
    BY <1>1, <1>2, <2>1 DEF HistoryInv, Recorded
<1>3. CASE /\ pc[r] = "record" /\ pc' = [pc EXCEPT ![r] = "audit"]
           /\ completed' = lastOf(Append(completed, held[r]), n)
           /\ UNCHANGED << items, req, held, reply >>
  <2>1. /\ completed \in Seq(Task) /\ held[r] \in Task /\ n \in Nat \ {0}
        /\ Len(completed) <= n /\ Len(completed) \in Nat /\ completed' \in Seq(Task)
    <3>1. completed \in Seq(Task) /\ held[r] \in Task /\ n \in Nat \ {0}
      BY RequestAssumption DEF IInv, TypeOK
    <3>2. Append(completed, held[r]) \in Seq(Task) /\ Len(completed) \in Nat
      BY <3>1
    <3>3. completed' \in Seq(Task)
      BY <1>3, <3>1, <3>2, LastOfType
    <3> QED
      BY <3>1, <3>2, <3>3 DEF HistoryInv, Recorded
  <2>2. /\ DOMAIN completed = 1 .. Len(completed)
        /\ DOMAIN completed' = 1 .. Len(completed')
        /\ Len(completed') \in Nat
    BY <2>1
  <2>3. /\ recorded(r)' /\ wrote(r) /\ ~ recorded(r)
    <3>1. req[r].op = "complete" /\ reply[r] # "ok" /\ pc'[r] = "audit"
      BY <1>1, <1>3 DEF Routed, IInv, TypeOK, ControlOK, Pending, PC
    <3> QED
      BY <1>3, <3>1, RecordedWrote DEF recorded
  \* The new entry is at the end, in front of it are old ones, each once.
  <2>4. completed'[Len(completed')] = held[r] /\ Len(completed') \in 1 .. n
    BY <1>3, <2>1, LastOfAppend
  <2>5. PICK d \in {0, 1} :
          /\ Len(completed') = Len(completed) + 1 - d
          /\ \A i \in 1 .. Len(completed') - 1 : completed'[i] = completed[i + d]
          /\ d = 1 => Len(completed) = n
          /\ d = 0 => Len(completed) < n
    <3>1. CASE Len(completed) < n
      <4>1. /\ Len(completed') = Len(completed) + 1 - 0
            /\ \A i \in 1 .. Len(completed) : completed'[i] = completed[i]
        BY <1>3, <2>1, <3>1, LastOfAppend
      <4>2. \A i \in 1 .. Len(completed') - 1 : completed'[i] = completed[i + 0]
        BY <2>1, <4>1
      <4> QED
        BY <3>1, <4>1, <4>2
    <3>2. CASE Len(completed) = n
      <4>1. /\ Len(completed') = Len(completed) + 1 - 1
            /\ \A i \in 1 .. Len(completed') - 1 : completed'[i] = completed[i + 1]
        BY <1>3, <2>1, <3>2, LastOfAppend
      <4> QED
        BY <2>1, <3>2, <4>1
    <3> QED
      BY <2>1, <3>1, <3>2
  <2>6. ASSUME NEW i \in 1 .. Len(completed') - 1
        PROVE  /\ completed'[i] = completed[i + d] /\ i + d \in DOMAIN completed
               /\ \E s \in Requests \ {r} : recorded(s) /\ completed'[i] = held[s]
    <3>1. completed'[i] = completed[i + d] /\ i + d \in DOMAIN completed
      <4>1. Len(completed) \in Nat /\ Len(completed') = Len(completed) + 1 - d
        BY <2>1, <2>5
      <4>2. i + d \in 1 .. Len(completed)
        BY <4>1
      <4> QED
        BY <2>2, <2>5, <4>2
    <3>2. PICK s \in Requests : recorded(s) /\ completed[i + d] = held[s]
      BY <3>1 DEF HistoryInv, Recorded
    <3> QED
      BY <2>3, <3>1, <3>2
  <2>7. ASSUME NEW s \in Requests \ {r}, recorded(s) PROVE held[s] # held[r]
    BY <2>3, <2>7, RecordedWrote DEF HistoryInv, WritesDiffer
  <2>8. \A i \in DOMAIN completed' : \E s \in Requests : recorded(s)' /\ completed'[i] = held'[s]
    BY <1>1, <1>3, <2>2, <2>3, <2>4, <2>6
  <2>9. ASSUME NEW i \in DOMAIN completed', NEW j \in DOMAIN completed', i < j
        PROVE  completed'[i] # completed'[j]
    <3>1. i \in 1 .. Len(completed') - 1
      BY <2>2, <2>9
    <3>2. CASE j = Len(completed')
      BY <2>4, <2>6, <2>7, <3>1, <3>2
    <3>3. CASE j # Len(completed')
      <4>1. j \in 1 .. Len(completed') - 1
        BY <2>2, <2>9, <3>3
      <4>2. i + d # j + d
        BY <2>2, <2>9
      <4> QED
        <5>1. \A a, b \in DOMAIN completed : a # b => completed[a] # completed[b]
          BY DEF HistoryInv, Recorded
        <5>2. /\ i + d \in DOMAIN completed /\ completed'[i] = completed[i + d]
              /\ j + d \in DOMAIN completed /\ completed'[j] = completed[j + d]
          BY <2>6, <3>1, <4>1
        <5> QED
          BY <4>2, <5>1, <5>2
    <3> QED
      BY <3>2, <3>3
  <2>10. \A i, j \in DOMAIN completed' : i # j => completed'[i] # completed'[j]
    BY <2>2, <2>9
  <2>11. ASSUME NEW s \in Requests, recorded(s)'
         PROVE  \/ \E i \in DOMAIN completed' : completed'[i] = held'[s]
                \/ Len(completed') = n
    <3>1. CASE s = r
      <4>1. Len(completed') \in DOMAIN completed'
        BY <2>2, <2>4
      <4> QED
        BY <1>3, <2>4, <3>1, <4>1
    <3>2. CASE s # r /\ d = 0
      <4>1. recorded(s) /\ held'[s] = held[s]
        BY <1>1, <1>3, <2>11, <3>2, RecordedStep
      <4>2. PICK i \in DOMAIN completed : completed[i] = held[s]
        BY <2>1, <2>5, <3>2, <4>1 DEF HistoryInv, Recorded
      <4>3. i \in 1 .. Len(completed') - 1 /\ i \in DOMAIN completed' /\ i + d = i
        BY <2>2, <2>5, <3>2
      <4>4. completed'[i] = held'[s]
        BY <2>6, <4>1, <4>2, <4>3
      <4> QED
        BY <4>3, <4>4
    <3>3. CASE d = 1
      BY <2>1, <2>5, <3>3
    <3> QED
      BY <3>1, <3>2, <3>3
  <2> QED
    BY <2>4, <2>8, <2>10, <2>11 DEF Recorded
<1> QED
  BY <1>2, <1>3, CompletedStep, RecordedStep

LEMMA HistoryInvariant == Spec => []HistoryInv
<1>1. IInv /\ IInv' /\ FlagInv /\ FlagInv' /\ HistoryInv /\ [Next]_vars => HistoryInv'
  <2> SUFFICES ASSUME IInv, IInv', FlagInv', HistoryInv, [Next]_vars PROVE HistoryInv'
    OBVIOUS
  <2>1. CASE UNCHANGED vars
    BY <2>1 DEF vars, HistoryInv, Routed, Written, WritesDiffer, Recorded, wrote, committed,
                recorded
  <2>2. CASE Next
    <3>1. \A r \in Requests : Routed(r)'
      BY DEF FlagInv
    <3> QED
      BY <2>2, <3>1, WritesStep, RecordedInvStep DEF Next, HistoryInv
  <2> QED
    BY <2>1, <2>2
<1> QED
  BY <1>1, InitHistoryInv, Invariant, FlagInvariant, PTL DEF Spec

\* The completion history holds no write twice and none the store has not made,
\* however Completes interleave and however short it is (task_store.go:117-130).
THEOREM HistoryIsFaithful == Spec => []HistoryFaithful
<1>1. IInv /\ HistoryInv => HistoryFaithful
  <2> SUFFICES ASSUME IInv, HistoryInv PROVE HistoryFaithful
    OBVIOUS
  <2>1. ASSUME NEW i \in DOMAIN completed
        PROVE  /\ completed[i].status = "completed"
               /\ completed[i].id \in DOMAIN items
               /\ completed[i].rev <= items[completed[i].id].rev
    <3>1. PICK s \in Requests : recorded(s) /\ completed[i] = held[s]
      BY DEF HistoryInv, Recorded
    <3>2. wrote(s)
      BY <3>1, RecordedWrote
    <3> QED
      BY <3>1, <3>2 DEF HistoryInv, Written
  <2>2. ASSUME NEW i \in DOMAIN completed, NEW j \in DOMAIN completed, i # j,
               completed[i].id = completed[j].id
        PROVE  completed[i].rev # completed[j].rev
    <3>1. PICK s \in Requests : recorded(s) /\ completed[i] = held[s]
      BY DEF HistoryInv, Recorded
    <3>2. PICK q \in Requests : recorded(q) /\ completed[j] = held[q]
      BY DEF HistoryInv, Recorded
    <3>3. s # q
      BY <2>2, <3>1, <3>2 DEF HistoryInv, Recorded
    <3> QED
      BY <2>2, <3>1, <3>2, <3>3, RecordedWrote DEF HistoryInv, WritesDiffer
  <2> QED
    BY <2>1, <2>2 DEF HistoryFaithful
<1> QED
  BY <1>1, Invariant, HistoryInvariant, PTL

\* A completion that was answered with success is in the history until MaxHistory
\* others have been recorded: no interleaving of the appends loses one
\* (task_store.go:125-128).
THEOREM CompletionsRemembered == Spec => []CompletionRemembered
<1> DEFINE n == MaxHistory
<1>1. ASSUME IInv, HistoryInv, NEW r \in Requests, recorded(r),
             \A i \in DOMAIN completed : completed[i] # held[r]
      PROVE  \E others \in SUBSET (Requests \ {r}) :
               Cardinality(others) = n /\ \A s \in others : recorded(s)
  <2>1. Len(completed) = n /\ n \in Nat /\ DOMAIN completed = 1 .. n
    BY <1>1, RequestAssumption DEF IInv, TypeOK, HistoryInv, Recorded
  <2> DEFINE author == [i \in 1 .. n |->
                          CHOOSE s \in Requests : recorded(s) /\ completed[i] = held[s]]
             others == {author[i] : i \in 1 .. n}
  <2>2. ASSUME NEW i \in 1 .. n
        PROVE  /\ author[i] \in Requests \ {r} /\ recorded(author[i])
               /\ completed[i] = held[author[i]]
    <3>1. \E s \in Requests : recorded(s) /\ completed[i] = held[s]
      BY <1>1, <2>1 DEF HistoryInv, Recorded
    <3>2. /\ author[i] \in Requests /\ recorded(author[i])
          /\ completed[i] = held[author[i]]
      BY <3>1
    <3> QED
      BY <1>1, <2>1, <3>2
  <2> HIDE DEF author
  <2>3. author \in [1 .. n -> others]
    BY DEF author
  <2>4. author \in Surjection(1 .. n, others)
    BY <2>3 DEF Surjection
  <2>5. author \in Injection(1 .. n, others)
    <3>1. ASSUME NEW i \in 1 .. n, NEW j \in 1 .. n, author[i] = author[j] PROVE i = j
      BY <1>1, <2>1, <2>2, <3>1 DEF HistoryInv, Recorded
    <3> QED
      BY <2>3, <3>1 DEF Injection, IsInjective
  <2>6. Cardinality(others) = n
    <3>1. IsFiniteSet(1 .. n) /\ Cardinality(1 .. n) = n
      BY <2>1, FS_Interval
    <3> QED
      BY <2>4, <2>5, <3>1, FS_Surjection
  <2> QED
    BY <2>2, <2>6
<1>2. IInv /\ HistoryInv => CompletionRemembered
  BY <1>1 DEF CompletionRemembered
<1> QED
  BY <1>2, Invariant, HistoryInvariant, PTL

------------------------------------------------------------------------------
(* Refinement.                                                             *)

LEMMA SameMoves == \A a, b : Lifecycle!taskCanMove(a, b) <=> taskCanMove(a, b)
  BY DEF Lifecycle!taskCanMove, Lifecycle!taskTransitionTable,
         taskCanMove, taskTransitionTable

LEMMA StepRefines ==
  ASSUME IInv, [Next]_vars, \A e \in Expected : e > 0
  PROVE  [Lifecycle!Next]_items
<1>1. ASSUME NEW r \in Requests, Put(r), ~ \E err \in Error : Fail(r, err)
      PROVE  Lifecycle!Next
  <2> DEFINE id == held[r].id
  <2>1. /\ pc[r] = "put" /\ id \notin DOMAIN items
        /\ items' = [i \in DOMAIN items \cup {id} |-> IF i = id THEN held[r] ELSE items[i]]
    BY <1>1, PutEffect
  <2>2. held[r] = [id |-> id, status |-> "queued", operator |-> NoOperator, rev |-> 1]
    BY <2>1 DEF IInv, TypeOK, PutOK, Task
  <2>3. id \in DOMAIN items' /\ id \in Nat
    BY <2>1 DEF IInv, TypeOK, Task
  <2>4. Lifecycle!Create(id)
    BY <2>1, <2>2 DEF Lifecycle!Create
  <2> QED
    BY <2>3, <2>4 DEF Lifecycle!Next
<1>2. ASSUME NEW r \in Requests, Update(r), ~ \E err \in Error : Fail(r, err)
      PROVE  Lifecycle!Next
  <2> DEFINE id == req[r].id
  <2>1. /\ pc[r] = "update" /\ id \in DOMAIN items
        /\ guarded(r) => items[id].rev = req[r].expected
        /\ items' = [items EXCEPT ![id] = [held[r] EXCEPT !.rev = items[id].rev + 1]]
    BY <1>2, UpdateEffect
  <2>2. /\ held[r] \in Task /\ items[id] \in Task /\ items[id].id = id
        /\ req[r].op \in {"assign", "start", "complete"}
        /\ req[r].op = "assign" => req[r].operator \in Operators
        /\ guarded(r)
    BY <1>2, <2>1 DEF IInv, TypeOK, IdsMatch, ControlOK, Request, Op, guarded
  <2>3. /\ held[r].id = id
        /\ held[r].status = target[req[r].op]
        /\ held[r].operator = req[r].operator
        /\ taskCanMove(items[id].status, held[r].status)
        /\ req[r].op # "assign" => items[id].operator = req[r].operator
    BY <2>1, <2>2 DEF IInv, UpdateOK
  <2>4. [held[r] EXCEPT !.rev = items[id].rev + 1]
          = [items[id] EXCEPT !.status   = held[r].status,
                              !.operator = held[r].operator,
                              !.rev      = items[id].rev + 1]
    BY <2>2, <2>3 DEF Task
  <2>5. Lifecycle!Move(id, held[r].status, held[r].operator)
    BY <2>1, <2>3, <2>4, SameMoves DEF Lifecycle!Move
  <2>6. CASE req[r].op = "assign"
    BY <2>1, <2>2, <2>3, <2>5, <2>6 DEF target, Lifecycle!Assign, Lifecycle!Next
  <2>7. CASE req[r].op = "start"
    BY <2>1, <2>3, <2>5, <2>7 DEF target, Lifecycle!Start, Lifecycle!Next
  <2>8. CASE req[r].op = "complete"
    BY <2>1, <2>3, <2>5, <2>8 DEF target, Lifecycle!Complete, Lifecycle!Next
  <2> QED
    BY <2>2, <2>6, <2>7, <2>8
<1>3. ASSUME NEW r \in Requests, \E err \in Error : Fail(r, err) PROVE UNCHANGED items
  BY <1>3 DEF Fail, storeVars
<1>4. ASSUME NEW r \in Requests,
             \/ Arrive(r) \/ Cancel(r) \/ NewId(r) \/ BeginAssign(r) \/ Get(r)
             \/ EndAssign(r) \/ RecordCompletion(r) \/ AuditAdd(r) \/ DeferredEndAssign(r)
      PROVE  UNCHANGED items
  BY <1>4 DEF Arrive, Cancel, NewId, counted, BeginAssign, mayBegin, Get, EndAssign, RecordCompletion,
              AuditAdd, DeferredEndAssign, ContextDone, Fail, storeVars
<1> QED
  BY <1>1, <1>2, <1>3, <1>4 DEF Next, Serve, vars

\* When every request sends the revision it has seen, the interleaved, two-call
\* handlers take the tasks through nothing but the atomic, legal, one-at-a-time
\* moves of TaskLifecycle.
THEOREM Refinement ==
  ASSUME \A e \in Expected : e > 0
  PROVE  Spec => ImplementsLifecycle
<1>1. Init => Lifecycle!Init
  BY DEF Init, Lifecycle!Init
<1>2. IInv /\ [Next]_vars => [Lifecycle!Next]_items
  BY StepRefines
<1> QED
  BY <1>1, <1>2, Invariant, PTL DEF Spec, ImplementsLifecycle, Lifecycle!Spec

==============================================================================
