-------------------------------- MODULE Plans --------------------------------
(***************************************************************************)
(* The maintenance plans: plan.go, plan_store.go and plan_service.go.      *)
(*                                                                         *)
(* MarkDone reads a plan, takes the time, and writes the plan back with    *)
(* that time as LastDoneAt and the next due date computed from it.  The    *)
(* clock is looked at between the two store calls, so the request that     *)
(* writes last need not be the one that looked at the clock last.  Only    *)
(* the revision a client sends keeps them in order; a client that sends    *)
(* none may move a plan back in time.                                      *)
(*                                                                         *)
(* One action is one store call or the look at the clock.  A definition    *)
(* named Bug... is a deliberately wrong variant of one that follows; no    *)
(* specification uses it.                                                  *)
(***************************************************************************)
EXTENDS Integers, Sequences, FiniteSets

CONSTANTS
  Requests,     \* the requests that may arrive, each served once
  Ids,          \* the plan ids a MarkDone may name
  Expected,     \* the values of the request's "expected" field
  Intervals,    \* the values of a create's "interval_days"
  DefaultDays,  \* the interval of a plan that is created with none (30)
  MaxTime       \* the clock stops here (a bound for TLC)

ASSUME PlansAssumption ==
  /\ Ids \subseteq Nat
  /\ Expected \subseteq Int /\ Intervals \subseteq Int
  /\ DefaultDays \in Nat \ {0} /\ MaxTime \in Nat

VARIABLES
  items,        \* PlanStore.items
  seq,          \* PlanService.seq
  now,          \* the clock, in days
  pc,           \* what a request does next
  req,          \* the request's decoded path and body
  plan,         \* the handler's local plan
  reply,        \* the response: "none" until decided, "ok", or an error
  cancelled     \* the requests whose client has gone away

vars == << items, seq, now, pc, req, plan, reply, cancelled >>

------------------------------------------------------------------------------

\* The status comes from the body of a create, which nothing validates: "other"
\* is any text that is none of the three.
PlanStatus == {"active", "paused", "archived", "other"}

\* lastDone is -1 for the zero time of a plan that was never done.
Plan ==
  [status : PlanStatus, interval : Nat \ {0}, lastDone : Nat \cup {-1}, due : Nat, rev : Nat]

NoPlan == [status |-> "active", interval |-> DefaultDays, lastDone |-> -1,
           due |-> 0, rev |-> 1]

Request ==
  [kind : {"create", "done"}, id : Nat, expected : Int, interval : Int,
   status : PlanStatus, complete : BOOLEAN]

\* A create whose well or subject may be blank, or a MarkDone.
Input ==
  [kind : {"create"}, id : {0}, expected : {0}, interval : Intervals,
   status : PlanStatus, complete : BOOLEAN]
  \cup [kind : {"done"}, id : Ids, expected : Expected, interval : {0},
        status : {"active"}, complete : {TRUE}]

NoRequest == [kind |-> "done", id |-> 0, expected |-> 0, interval |-> 0,
              status |-> "active", complete |-> FALSE]

guarded(r) == req[r].expected > 0

\* Wrong: an interval that is not set is kept.
BugDaysKept(interval) == interval

\* normalizePlan: no interval is shorter than a day, but for one that is unset.
days(interval) == IF interval < 1 THEN DefaultDays ELSE interval

Init ==
  /\ items = << >> /\ seq = 0 /\ now = 0
  /\ pc = [r \in Requests |-> "idle"]
  /\ req = [r \in Requests |-> NoRequest]
  /\ plan = [r \in Requests |-> NoPlan]
  /\ reply = [r \in Requests |-> "none"]
  /\ cancelled = {}

goto(r, label) == pc' = [pc EXCEPT ![r] = label]

Fail(r, err) ==
  /\ reply' = [reply EXCEPT ![r] = err]
  /\ goto(r, "done")
  /\ UNCHANGED << items, seq, now, req, plan, cancelled >>

live(r) == r \notin cancelled

------------------------------------------------------------------------------
(* The clients and the clock.                                              *)

Tick ==
  /\ now < MaxTime
  /\ now' = now + 1
  /\ UNCHANGED << items, seq, pc, req, plan, reply, cancelled >>

Arrive(r) ==
  /\ pc[r] = "idle"
  /\ \E input \in Input :
       /\ req' = [req EXCEPT ![r] = input]
       /\ goto(r, IF input.kind = "create" THEN "new_id" ELSE "get")
  /\ UNCHANGED << items, seq, now, plan, reply, cancelled >>

Cancel(r) ==
  /\ pc[r] \notin {"idle", "done"} /\ live(r)
  /\ cancelled' = cancelled \cup {r}
  /\ UNCHANGED << items, seq, now, pc, req, plan, reply >>

------------------------------------------------------------------------------
(* Create.                                                                 *)

\* The plan is checked, numbered and given its first due date.
NewId(r) ==
  /\ pc[r] = "new_id"
  /\ \/ ~ live(r) /\ Fail(r, "ctx")
     \/ live(r) /\ ~ req[r].complete /\ Fail(r, "invalid")
     \/ /\ live(r) /\ req[r].complete
        /\ seq' = seq + 1
        /\ req' = [req EXCEPT ![r].id = seq + 1]
        /\ LET interval == days(req[r].interval)
           IN plan' = [plan EXCEPT ![r] =
                [status |-> req[r].status, interval |-> interval, lastDone |-> -1,
                 due |-> now + interval, rev |-> 1]]
        /\ goto(r, "put")
        /\ UNCHANGED << items, now, reply, cancelled >>

Put(r) ==
  /\ pc[r] = "put"
  /\ \/ ~ live(r) /\ Fail(r, "ctx")
     \/ live(r) /\ req[r].id \in DOMAIN items /\ Fail(r, "conflict")
     \/ /\ live(r) /\ req[r].id \notin DOMAIN items
        /\ items' = [i \in DOMAIN items \cup {req[r].id} |->
                       IF i = req[r].id THEN plan[r] ELSE items[i]]
        /\ reply' = [reply EXCEPT ![r] = "ok"]
        /\ goto(r, "done")
        /\ UNCHANGED << seq, now, req, plan, cancelled >>

------------------------------------------------------------------------------
(* MarkDone.                                                               *)

\* Wrong: any revision is taken for the plan's.
BugMatches(r, current) == TRUE

\* The revision the client sends, when it does, is the plan's.
matches(r, current) == guarded(r) => req[r].expected = current.rev

mayBeDone(current) == current.status # "archived"

\* The plan is read; the client's revision, when there is one, is compared, and
\* an archived plan is refused.
Get(r) ==
  /\ pc[r] = "get"
  /\ LET i == req[r].id
     IN \/ ~ live(r) /\ Fail(r, "ctx")
        \/ live(r) /\ i \notin DOMAIN items /\ Fail(r, "not_found")
        \/ /\ live(r) /\ i \in DOMAIN items
           /\ \/ ~ matches(r, items[i]) /\ Fail(r, "conflict")
              \/ matches(r, items[i]) /\ ~ mayBeDone(items[i]) /\ Fail(r, "transition")
              \/ /\ matches(r, items[i]) /\ mayBeDone(items[i])
                 /\ plan' = [plan EXCEPT ![r] = items[i]]
                 /\ goto(r, "stamp")
                 /\ UNCHANGED << items, seq, now, req, reply, cancelled >>

\* The time is taken; a paused plan is resumed.
Stamp(r) ==
  /\ pc[r] = "stamp"
  /\ plan' = [plan EXCEPT ![r] =
       [status |-> IF plan[r].status = "paused" THEN "active" ELSE plan[r].status,
        interval |-> plan[r].interval, lastDone |-> now,
        due |-> now + plan[r].interval, rev |-> plan[r].rev]]
  /\ goto(r, "update")
  /\ UNCHANGED << items, seq, now, req, reply, cancelled >>

\* PlanStore.Update.  Plans are never removed, so it finds the one Get found; the
\* revision is compared again under the lock.
Update(r) ==
  /\ pc[r] = "update"
  /\ LET current == items[req[r].id]
     IN \/ ~ live(r) /\ Fail(r, "ctx")
        \/ live(r) /\ ~ matches(r, current) /\ Fail(r, "conflict")
        \/ /\ live(r) /\ matches(r, current)
           /\ items' = [items EXCEPT ![req[r].id] = [plan[r] EXCEPT !.rev = current.rev + 1]]
           /\ reply' = [reply EXCEPT ![r] = "ok"]
           /\ goto(r, "done")
           /\ UNCHANGED << seq, now, req, plan, cancelled >>

Serve(r) == NewId(r) \/ Put(r) \/ Get(r) \/ Stamp(r) \/ Update(r)

Next == Tick \/ \E r \in Requests : Arrive(r) \/ Cancel(r) \/ Serve(r)

Spec == Init /\ [][Next]_vars

------------------------------------------------------------------------------
(* Properties.                                                             *)

TypeOK ==
  /\ DOMAIN items \subseteq 1 .. seq
  /\ \A i \in DOMAIN items : items[i] \in Plan
  /\ seq \in Nat /\ now \in Nat
  /\ pc \in [Requests -> {"idle", "new_id", "put", "get", "stamp", "update", "done"}]
  /\ req \in [Requests -> Request]
  /\ plan \in [Requests -> Plan]
  /\ reply \in [Requests -> {"none", "ok", "ctx", "invalid", "not_found", "conflict",
                             "transition"}]
  /\ cancelled \subseteq Requests

\* The requests that have marked plan i as done.
doneBy(i) == {r \in Requests : req[r].kind = "done" /\ req[r].id = i /\ reply[r] = "ok"}

\* PlanService.Due: the plans that are active and whose date has come.
Due(time) == {i \in DOMAIN items : items[i].status = "active" /\ items[i].due <= time}

\* Once a MarkDone has returned, its plan is not due again before an interval has
\* passed since the time it took, whatever other clients did to the plan in the
\* meantime.  Every client must send a revision.
DoneIsNotDue ==
  \A i \in DOMAIN items : (\A r \in doneBy(i) : guarded(r)) =>
    \A r \in doneBy(i) :
      /\ items[i].lastDone >= plan[r].lastDone
      /\ i \notin Due(plan[r].lastDone + plan[r].interval - 1)

==============================================================================
