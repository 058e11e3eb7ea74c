----------------------------- MODULE TaskService -----------------------------
(***************************************************************************)
(* The inspection-task service: task_http.go, task_service.go and          *)
(* task_store.go.                                                          *)
(*                                                                         *)
(* Every HTTP request runs its handler on a goroutine of its own.  A       *)
(* handler is not atomic: it is a sequence of store calls, each of which   *)
(* looks at the request's context, takes the store's mutex, and releases   *)
(* it before the handler goes on.  One action below is one store call with *)
(* the handler's local code around it; the pc of a request says which      *)
(* store call comes next, and requests interleave between them.            *)
(*                                                                         *)
(* A request names the task by id and may send the revision it expects.    *)
(* `expected > 0' is the only guard against writing over a change made     *)
(* since the task was read: without it (the web page sends none) the last  *)
(* writer wins.                                                            *)
(*                                                                         *)
(* A definition named Bug... is a deliberately wrong variant of one that   *)
(* follows; no specification uses it.  Put in its place it must make TLC   *)
(* refute a property, which shows that the property watches the code.      *)
(***************************************************************************)
EXTENDS TaskModel, Sequences, FiniteSets

CONSTANTS
  Requests,     \* the requests that may arrive, each served once
  Ids,          \* the task ids a request may name
  Expected,     \* the values of the request's "expected" field
  MaxHistory    \* TaskStore.maxHistory (100 in the code)

ASSUME RequestAssumption ==
  /\ Ids \subseteq Nat
  /\ Expected \subseteq Int
  /\ MaxHistory \in Nat \ {0}

VARIABLES
  items,        \* TaskStore.items
  assigning,    \* TaskStore.assigning, the ids whose flag is set
  completed,    \* TaskStore.completed
  seq,          \* TaskService.seq, the last id number handed out
  audit,        \* the audit trail: the requests that appended an event
  pc,           \* the store call a request makes next
  req,          \* the request's decoded path and body
  held,         \* the handler's local task variable, then its result
  reply,        \* the response: "none" until decided, "ok", or an error
  cancelled     \* the requests whose context is done (client went away)

storeVars == << items, assigning, completed, seq >>
vars == << items, assigning, completed, seq, audit, pc, req, held, reply, cancelled >>

------------------------------------------------------------------------------

Op == {"create", "assign", "start", "complete"}

\* target[op] is the status the operation writes.
target == [create |-> "queued", assign |-> "assigned",
           start |-> "in_progress", complete |-> "completed"]

\* firstCall[op] is the first store call of its handler.
firstCall == [create |-> "new_id", assign |-> "begin_assign",
              start |-> "get", complete |-> "get"]

Error == {"ctx", "invalid", "not_found", "conflict", "policy", "transition"}

PC == {"idle", "new_id", "put", "begin_assign", "get", "update", "end_assign",
       "record", "audit", "deferred_end_assign", "done"}

Request ==
  [op : Op, id : Ids \cup {0}, operator : Operators \cup {NoOperator},
   expected : Expected \cup {0}, blank : BOOLEAN]

NoRequest == [op |-> "create", id |-> 0, operator |-> NoOperator,
              expected |-> 0, blank |-> TRUE]

\* What a client can send: a create whose well or subject may be blank, or an
\* operation on a task id with an operator name (possibly empty) and a revision.
Input ==
  [op : {"create"}, id : {0}, operator : {NoOperator}, expected : {0}, blank : BOOLEAN]
  \cup [op : Op \ {"create"}, id : Ids, operator : Operators \cup {NoOperator},
        expected : Expected, blank : {FALSE}]

guarded(r) == req[r].expected > 0

Init ==
  /\ items = << >>
  /\ assigning = {}
  /\ completed = << >>
  /\ seq = 0
  /\ audit = {}
  /\ pc = [r \in Requests |-> "idle"]
  /\ req = [r \in Requests |-> NoRequest]
  /\ held = [r \in Requests |-> ZeroTask]
  /\ reply = [r \in Requests |-> "none"]
  /\ cancelled = {}

------------------------------------------------------------------------------
(* Control flow shared by the handlers.                                    *)

goto(r, label) == pc' = [pc EXCEPT ![r] = label]

\* Wrong: the release is not deferred but written at the end of the handler, so
\* an early return between BeginAssign and Update skips it.
BugReleaseOnlyAtEnd(r) ==
  IF req[r].op = "assign" /\ pc[r] = "audit" THEN "deferred_end_assign" ELSE "done"

\* Wrong: EndAssign is deferred before BeginAssign is called, so a refused Assign
\* releases the flag of the one that holds it.
BugDeferTooEarly(r) ==
  IF req[r].op = "assign" THEN "deferred_end_assign" ELSE "done"

\* Where the handler's return leads: Assign has deferred EndAssign once
\* BeginAssign has succeeded.
afterReturn(r) ==
  IF req[r].op = "assign" /\ pc[r] # "begin_assign" THEN "deferred_end_assign" ELSE "done"

\* return Task{}, err
Fail(r, err) ==
  /\ reply' = [reply EXCEPT ![r] = err]
  /\ held' = [held EXCEPT ![r] = ZeroTask]
  /\ goto(r, afterReturn(r))
  /\ UNCHANGED << storeVars, audit, req, cancelled >>

\* The select on ctx.Done() that opens every store call.
ContextDone(r) == r \in cancelled /\ Fail(r, "ctx")

live(r) == r \notin cancelled

------------------------------------------------------------------------------
(* The client.                                                             *)

\* The router decodes a request and starts its handler.
Arrive(r) ==
  /\ pc[r] = "idle"
  /\ \E input \in Input :
       /\ req' = [req EXCEPT ![r] = input]
       /\ goto(r, firstCall[input.op])
  /\ UNCHANGED << storeVars, audit, held, reply, cancelled >>

\* The client goes away while its request is being served.
Cancel(r) ==
  /\ pc[r] \notin {"idle", "done"}
  /\ cancelled' = cancelled \cup {r}
  /\ UNCHANGED << storeVars, audit, pc, req, held, reply >>

------------------------------------------------------------------------------
(* Create.                                                                 *)

\* Wrong: the counter is read but not advanced.
BugCounted == seq

\* atomic.AddUint64(&s.seq, 1)
counted == seq + 1

\* Validation, then the id: the id is used up even when Put then fails.
NewId(r) ==
  /\ pc[r] = "new_id"
  /\ \/ ContextDone(r)
     \/ live(r) /\ req[r].blank /\ Fail(r, "invalid")
     \/ /\ live(r)
        /\ ~ req[r].blank
        /\ seq' = counted
        /\ held' = [held EXCEPT ![r] = [id |-> seq + 1, status |-> "queued",
                                        operator |-> NoOperator, rev |-> 1]]
        /\ goto(r, "put")
        /\ UNCHANGED << items, assigning, completed, audit, req, reply, cancelled >>

\* TaskStore.Put
Put(r) ==
  /\ pc[r] = "put"
  /\ LET t == held[r] IN
     \/ ContextDone(r)
     \/ live(r) /\ t.id \in DOMAIN items /\ Fail(r, "conflict")
     \/ /\ live(r)
        /\ t.id \notin DOMAIN items
        /\ items' = [i \in DOMAIN items \cup {t.id} |->
                       IF i = t.id THEN normalizeTask(t) ELSE items[i]]
        /\ goto(r, "audit")
        /\ UNCHANGED << assigning, completed, seq, audit, req, held, reply, cancelled >>

------------------------------------------------------------------------------
(* Assign, Start and Complete.                                             *)

\* Wrong: an Assign that is under way is not looked for.
BugMayBegin(id) == TRUE

mayBegin(id) == id \notin assigning

\* TaskStore.BeginAssign, after Assign has refused an empty operator.
BeginAssign(r) ==
  /\ pc[r] = "begin_assign"
  /\ LET id == req[r].id IN
     \/ ContextDone(r)
     \/ live(r) /\ req[r].operator = NoOperator /\ Fail(r, "invalid")
     \/ /\ live(r) /\ req[r].operator # NoOperator
        /\ \/ id \notin DOMAIN items /\ Fail(r, "not_found")
           \/ id \in DOMAIN items /\ ~ mayBegin(id) /\ Fail(r, "conflict")
           \/ /\ id \in DOMAIN items /\ mayBegin(id)
              /\ assigning' = assigning \cup {id}
              /\ goto(r, "get")
              /\ UNCHANGED << items, completed, seq, audit, req, held, reply, cancelled >>

\* Wrong: any revision is taken for the task's.
BugMatches(r, t) == TRUE

\* The revision the client sends, when it does, is the task's.
matches(r, t) == guarded(r) => t.rev = req[r].expected

\* Wrong: every move is legal.
BugAllowed(r, t) == TRUE

allowed(r, t) == taskCanMove(t.status, target[req[r].op])

\* The checks on the task read, in the order the handlers make them.
refusal(r, t) ==
  IF ~ matches(r, t) THEN "conflict"
  ELSE IF req[r].op # "assign" /\ t.operator # req[r].operator THEN "policy"
  ELSE IF ~ allowed(r, t) THEN "transition"
  ELSE "none"

\* TaskStore.Get and the local code up to Update: the copy now holds the
\* values to write.
Get(r) ==
  /\ pc[r] = "get"
  /\ LET id == req[r].id IN
     \/ ContextDone(r)
     \/ live(r) /\ id \notin DOMAIN items /\ Fail(r, "not_found")
     \/ /\ live(r) /\ id \in DOMAIN items
        /\ LET t == items[id] IN
           \/ refusal(r, t) # "none" /\ Fail(r, refusal(r, t))
           \/ /\ refusal(r, t) = "none"
              \* Start and Complete have just found t.operator = req[r].operator
              /\ held' = [held EXCEPT ![r] = [t EXCEPT !.status = target[req[r].op],
                                                       !.operator = req[r].operator]]
              /\ goto(r, "update")
              /\ UNCHANGED << storeVars, audit, req, reply, cancelled >>

\* Write held[r] with revision rev and go on.
store(r, rev) ==
  /\ LET t == [held[r] EXCEPT !.rev = rev] IN
       /\ items' = [items EXCEPT ![req[r].id] = t]
       /\ held' = [held EXCEPT ![r] = t]
  /\ goto(r, IF req[r].op = "complete" THEN "end_assign" ELSE "audit")
  /\ UNCHANGED << assigning, completed, seq, audit, req, reply, cancelled >>

\* Wrong: the new revision is counted from the copy that was read.
BugNextRev(r) == held[r].rev + 1

nextRev(r) == items[req[r].id].rev + 1

\* Wrong: the handler returns as soon as the task is written.
BugUpdateThenReturn(r) ==
  /\ pc[r] = "update" /\ live(r)
  /\ guarded(r) => items[req[r].id].rev = req[r].expected
  /\ items' = [items EXCEPT ![req[r].id] = [held[r] EXCEPT !.rev = items[req[r].id].rev + 1]]
  /\ reply' = [reply EXCEPT ![r] = "ok"]
  /\ goto(r, afterReturn(r))
  /\ UNCHANGED << assigning, completed, seq, audit, req, held, cancelled >>

\* TaskStore.Update: the whole record is replaced; only the revision is taken
\* from the store.
Update(r) ==
  /\ pc[r] = "update"
  /\ LET id == req[r].id IN
     \/ ContextDone(r)
     \/ live(r) /\ id \notin DOMAIN items /\ Fail(r, "not_found")
     \/ /\ live(r) /\ id \in DOMAIN items
        /\ \/ ~ matches(r, items[id]) /\ Fail(r, "conflict")
           \/ matches(r, items[id]) /\ store(r, nextRev(r))

\* Wrong: EndAssign waits for a live context instead of giving up.
BugEndAssignWaits(r) ==
  /\ pc[r] = "end_assign" /\ live(r)
  /\ assigning' = assigning \ {req[r].id}
  /\ goto(r, "record")
  /\ UNCHANGED << items, completed, seq, audit, req, held, reply, cancelled >>

\* Complete releases the assignment flag of the task, whoever set it.
EndAssign(r) ==
  /\ pc[r] = "end_assign"
  /\ \/ ContextDone(r)
     \/ /\ live(r)
        /\ assigning' = assigning \ {req[r].id}
        /\ goto(r, "record")
        /\ UNCHANGED << items, completed, seq, audit, req, held, reply, cancelled >>

\* Wrong: keeps the oldest.
BugFirstOf(s, n) == IF Len(s) > n THEN SubSeq(s, 1, n) ELSE s

\* Keep the last n elements.
lastOf(s, n) == IF Len(s) > n THEN SubSeq(s, Len(s) - n + 1, Len(s)) ELSE s

\* TaskStore.RecordCompletion
RecordCompletion(r) ==
  /\ pc[r] = "record"
  /\ \/ ContextDone(r)
     \/ /\ live(r)
        /\ completed' = lastOf(Append(completed, held[r]), MaxHistory)
        /\ goto(r, "audit")
        /\ UNCHANGED << items, assigning, seq, audit, req, held, reply, cancelled >>

\* OpsAudit.Add does not look at the context; then the handler returns its result.
AuditAdd(r) ==
  /\ pc[r] = "audit"
  /\ audit' = audit \cup {r}
  /\ reply' = [reply EXCEPT ![r] = "ok"]
  /\ goto(r, afterReturn(r))
  /\ UNCHANGED << storeVars, req, held, cancelled >>

\* defer s.store.EndAssign(ctx, id): with the context done the flag stays set,
\* and the error is dropped.
DeferredEndAssign(r) ==
  /\ pc[r] = "deferred_end_assign"
  /\ assigning' = IF live(r) THEN assigning \ {req[r].id} ELSE assigning
  /\ goto(r, "done")
  /\ UNCHANGED << items, completed, seq, audit, req, held, reply, cancelled >>

------------------------------------------------------------------------------

\* What the goroutine that serves r does next.
Serve(r) ==
  \/ NewId(r) \/ Put(r)
  \/ BeginAssign(r) \/ Get(r) \/ Update(r) \/ EndAssign(r)
  \/ RecordCompletion(r) \/ AuditAdd(r) \/ DeferredEndAssign(r)

Next == \E r \in Requests : Arrive(r) \/ Cancel(r) \/ Serve(r)

Spec == Init /\ [][Next]_vars

\* A runnable goroutine is scheduled, and no store call blocks for good: the
\* mutexes are held only inside one call.  Clients need not do anything.
Fairness == \A r \in Requests : WF_vars(Serve(r))

------------------------------------------------------------------------------
(* Properties.                                                             *)

TypeOK ==
  /\ DOMAIN items \subseteq 1 .. seq
  /\ items \in [DOMAIN items -> Task]
  /\ assigning \subseteq DOMAIN items
  /\ completed \in Seq(Task)
  /\ seq \in Nat
  /\ audit \subseteq Requests
  /\ pc \in [Requests -> PC]
  /\ req \in [Requests -> Request]
  /\ held \in [Requests -> Task]
  /\ reply \in [Requests -> Error \cup {"none", "ok"}]
  /\ cancelled \subseteq Requests

\* r's Update has replaced the task and r has not failed since.
committed(r) ==
  /\ req[r].op # "create"
  /\ pc[r] \in {"end_assign", "record", "audit"} \/ reply[r] = "ok"

\* r is an Assign between its BeginAssign and its deferred EndAssign.
inside(r, id) ==
  /\ req[r].op = "assign" /\ req[r].id = id
  /\ pc[r] \in {"get", "update", "audit", "deferred_end_assign"}

\* r is an Assign that returned after its client had gone: if it had set the flag,
\* its deferred EndAssign has left it.
abandoned(r, id) ==
  /\ req[r].op = "assign" /\ req[r].id = id
  /\ pc[r] = "done" /\ r \in cancelled

\* A request that sends the revision it has seen writes over exactly that
\* revision, by a move the transition table allows, and Start and Complete
\* write only for the operator the task is assigned to at that moment --
\* whatever unguarded requests do between its Get and its Update.
GuardedWritesLegal ==
  [][\A r \in Requests :
       guarded(r) /\ pc[r] = "update" /\ pc'[r] \in {"end_assign", "audit"} =>
         LET old == items[req[r].id]
             new == items'[req[r].id]
         IN /\ old.rev = req[r].expected
            /\ taskCanMove(old.status, new.status)
            /\ req[r].op # "assign" => old.operator = req[r].operator]_vars

\* Of the requests that expect the same revision of the same task at most one
\* succeeds: the others get a conflict, in whatever order the calls interleave.
OneGuardedWinner ==
  \A r, s \in Requests :
    /\ r # s /\ guarded(r)
    /\ req[r].id = req[s].id /\ req[r].expected = req[s].expected
    => ~ (committed(r) /\ committed(s))

\* BeginAssign/EndAssign keep two Assigns of one task apart until a Complete of
\* that task, which clears the flag of whoever holds it, has run.
AssignExclusion ==
  \A r, s \in Requests, id \in Ids :
    r # s /\ inside(r, id) /\ inside(s, id) =>
      \E c \in Requests :
        /\ req[c].op = "complete" /\ req[c].id = id
        /\ pc[c] \in {"record", "audit"} \/ reply[c] \in {"ok", "ctx"}

\* The flag of a queued task is set and no Assign is left to clear it.
blocked(id) ==
  /\ id \in assigning
  /\ items[id].status = "queued"
  /\ \A r \in Requests : ~ inside(r, id)

\* Once an Assign has left the flag of a queued task behind (its EndAssign was
\* refused because the context was done), the task stays queued for good: every
\* later Assign is refused and no other operation can start from queued.
BlockedForGood == [][\A id \in Ids : blocked(id) => blocked(id)']_vars

\* The completion history holds each completing write once, with the status it
\* wrote, and no write the store has not made.
HistoryFaithful ==
  /\ \A i, j \in DOMAIN completed :
       i # j => << completed[i].id, completed[i].rev >> # << completed[j].id, completed[j].rev >>
  /\ \A i \in DOMAIN completed :
       /\ completed[i].status = "completed"
       /\ completed[i].id \in DOMAIN items
       /\ completed[i].rev <= items[completed[i].id].rev

recorded(r) == req[r].op = "complete" /\ (pc[r] = "audit" \/ reply[r] = "ok")

\* A completion that was answered with success is in the history, unless
\* MaxHistory other completions were recorded and pushed it out.
CompletionRemembered ==
  \A r \in Requests :
    recorded(r) =>
      \/ \E i \in DOMAIN completed : completed[i] = held[r]
      \/ \E others \in SUBSET (Requests \ {r}) :
           Cardinality(others) = MaxHistory /\ \A s \in others : recorded(s)

\* Every request that is being served is answered.
EveryRequestReturns == \A r \in Requests : pc[r] # "idle" ~> pc[r] = "done"

\* A change of a task reaches the audit trail, except a completion whose client
\* went away between Update and the end of the handler.
WritesAreAudited ==
  \A r \in Requests :
    committed(r) ~> (r \in audit \/ (req[r].op = "complete" /\ r \in cancelled))

\* The flag that an Assign has set is cleared again, unless that Assign itself
\* returns after its client had gone.
FlagReleased ==
  \A id \in Ids : \A r \in Requests :
    inside(r, id) ~> (id \notin assigning \/ abandoned(r, id))

------------------------------------------------------------------------------
(* Refinement.                                                             *)

Lifecycle == INSTANCE TaskLifecycle WITH tasks <- items

\* When every request sends a revision, the store goes through exactly the
\* atomic lifecycle of TaskLifecycle.
ImplementsLifecycle == Lifecycle!Spec

==============================================================================
