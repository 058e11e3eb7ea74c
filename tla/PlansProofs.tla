----------------------------- MODULE PlansProofs -----------------------------
(***************************************************************************)
(* Theorems of Plans!Spec, for any requests, ids, intervals and days.      *)
(*                                                                         *)
(* A MarkDone writes a copy that may be stale.  What it still knows of the *)
(* plan depends on what other writes can do: the status only moves from    *)
(* paused to active and the interval stays, so for them any copy will do   *)
(* (Copied); the day it was last done does change, and the copy is no      *)
(* earlier only while the revision is the one that was read (Fresh).       *)
(***************************************************************************)
EXTENDS Plans, TLAPS

\* What a request knows of its plan, whoever has written it since.
Copied(r) ==
  pc[r] \in {"stamp", "update"} =>
    /\ req[r].kind = "done" /\ req[r].id \in DOMAIN items
    /\ LET current == items[req[r].id]
       IN  /\ plan[r].interval = current.interval /\ plan[r].rev <= current.rev
           /\ guarded(r) => plan[r].rev = req[r].expected
           /\ plan[r].status # "archived"
           /\ \/ plan[r].status = current.status
              \/ IF pc[r] = "stamp" THEN plan[r].status = "paused" /\ current.status = "active"
                                    ELSE plan[r].status = "active" /\ current.status = "paused"
           /\ pc[r] = "update" => plan[r].status # "paused"

\* What it knows while the revision has not moved.
Fresh(r) ==
  pc[r] = "update" =>
    /\ plan[r].lastDone \in 0 .. now /\ plan[r].due = plan[r].lastDone + plan[r].interval
    /\ plan[r].rev = items[req[r].id].rev => items[req[r].id].lastDone <= plan[r].lastDone

\* The plan a Create is about to put, the kind of every request, and what a reply
\* says of the table.
Created(r) ==
  /\ pc[r] \in {"new_id", "put"} => req[r].kind = "create"
  /\ pc[r] = "get" => req[r].kind = "done"
  /\ req[r].kind = "done" /\ reply[r] = "ok" => req[r].id \in DOMAIN items
  /\ pc[r] = "put" => req[r].id \in 1 .. seq /\ plan[r].lastDone = -1
  /\ pc[r] # "done" => reply[r] = "none"

\* What the plan says of the requests that have marked it as done.
Remembered(i) ==
  (\A r \in doneBy(i) : guarded(r)) =>
    \A r \in doneBy(i) :
      /\ plan[r].interval = items[i].interval /\ plan[r].lastDone >= 0
      /\ items[i].lastDone >= plan[r].lastDone
      /\ items[i].due = items[i].lastDone + items[i].interval

IInv ==
  /\ TypeOK
  /\ \A i \in DOMAIN items : items[i].lastDone <= now /\ Remembered(i)
  /\ \A r \in Requests : Copied(r) /\ Fresh(r) /\ Created(r)

------------------------------------------------------------------------------

LEMMA InitIInv == Init => IInv
<1> SUFFICES ASSUME Init PROVE IInv
  OBVIOUS
<1>1. NoPlan \in Plan /\ NoRequest \in Request
  BY PlansAssumption DEF NoPlan, Plan, NoRequest, Request, PlanStatus
<1>2. TypeOK
  BY <1>1 DEF Init, TypeOK
<1> QED
  BY <1>2 DEF Init, IInv, Copied, Fresh, Created

\* A request that has marked a plan is served, and its local plan stays as it is.
LEMMA DoneByStays ==
  ASSUME IInv, NEW r \in Requests, pc[r] # "done",
         \A q \in Requests \ {r} : req'[q] = req[q] /\ plan'[q] = plan[q] /\ reply'[q] = reply[q],
         reply'[r] # "ok" \/ req'[r].kind # "done", NEW i \in DOMAIN items, items'[i] = items[i]
  PROVE  Remembered(i)'
<1>1. r \notin doneBy(i)
  BY DEF IInv, Created, doneBy
<1>2. \A q \in Requests : q \in doneBy(i)' <=> q \in doneBy(i)
  BY <1>1 DEF doneBy
<1>3. \A q \in doneBy(i) : q \in Requests /\ req'[q] = req[q] /\ plan'[q] = plan[q]
  BY <1>1 DEF doneBy
<1>4. Remembered(i)
  BY DEF IInv
<1>5. doneBy(i)' = doneBy(i)
  BY <1>2 DEF doneBy
<1> QED
  BY <1>3, <1>4, <1>5 DEF Remembered, guarded

\* What the other requests know is not touched while the plans stay.
LEMMA OthersStay ==
  ASSUME IInv, NEW r \in Requests, NEW q \in Requests \ {r},
         UNCHANGED << items, now >>, pc'[q] = pc[q], req'[q] = req[q], plan'[q] = plan[q],
         reply'[q] = reply[q], seq <= seq', seq' \in Nat
  PROVE  Copied(q)' /\ Fresh(q)' /\ Created(q)'
BY DEF IInv, TypeOK, Copied, Fresh, Created, guarded

LEMMA FailStep ==
  ASSUME IInv, NEW r \in Requests, NEW err \in {"ctx", "invalid", "not_found", "conflict",
                                                "transition"},
         pc[r] # "done", Fail(r, err)
  PROVE  IInv'
<1> USE DEF Fail, goto
<1>1. TypeOK'
  BY DEF IInv, TypeOK
<1>2. /\ \A q \in Requests \ {r} :
           pc'[q] = pc[q] /\ req'[q] = req[q] /\ plan'[q] = plan[q] /\ reply'[q] = reply[q]
      /\ pc'[r] = "done" /\ reply'[r] # "ok" /\ UNCHANGED << items, seq, now >>
  BY DEF IInv, TypeOK
<1>3. \A i \in DOMAIN items : Remembered(i)'
  BY <1>2, DoneByStays
<1>4. \A q \in Requests \ {r} : Copied(q)' /\ Fresh(q)' /\ Created(q)'
  BY <1>2, OthersStay DEF IInv, TypeOK
<1>5. Copied(r)' /\ Fresh(r)' /\ Created(r)'
  BY <1>2 DEF Copied, Fresh, Created
<1> QED
  BY <1>1, <1>2, <1>3, <1>4, <1>5 DEF IInv

LEMMA TickStep ==
  ASSUME IInv, Tick
  PROVE  IInv'
<1> USE DEF IInv, TypeOK, Tick
<1>1. TypeOK' /\ \A i \in DOMAIN items' : items'[i].lastDone <= now'
  BY DEF Plan
<1>2. \A i \in DOMAIN items : Remembered(i)'
  BY DEF Remembered, doneBy, guarded
<1>3. \A r \in Requests : Copied(r)' /\ Fresh(r)' /\ Created(r)'
  BY DEF Copied, Fresh, Created, guarded
<1> QED
  BY <1>1, <1>2, <1>3

LEMMA ArriveStep ==
  ASSUME IInv, NEW r \in Requests, Arrive(r)
  PROVE  IInv'
<1> USE DEF IInv, TypeOK
<1>1. PICK input \in Input :
        /\ req' = [req EXCEPT ![r] = input]
        /\ goto(r, IF input.kind = "create" THEN "new_id" ELSE "get")
  BY DEF Arrive
<1>2. input \in Request
  <2>1. CASE input \in [kind : {"create"}, id : {0}, expected : {0}, interval : Intervals,
                        status : PlanStatus, complete : BOOLEAN]
    <3>1. Intervals \subseteq Int
      BY PlansAssumption
    <3>2. /\ input.kind = "create" /\ input.id = 0 /\ input.expected = 0
          /\ input.interval \in Int /\ input.status \in PlanStatus /\ input.complete \in BOOLEAN
          /\ input = [kind |-> input.kind, id |-> input.id, expected |-> input.expected,
                      interval |-> input.interval, status |-> input.status,
                      complete |-> input.complete]
      BY <2>1, <3>1
    <3> QED
      BY <3>2 DEF Request
  <2>2. CASE input \in [kind : {"done"}, id : Ids, expected : Expected, interval : {0},
                        status : {"active"}, complete : {TRUE}]
    <3>1. Ids \subseteq Nat /\ Expected \subseteq Int /\ "active" \in PlanStatus
      BY PlansAssumption DEF PlanStatus
    <3>2. /\ input.kind = "done" /\ input.id \in Nat /\ input.expected \in Int
          /\ input.interval = 0 /\ input.status \in PlanStatus /\ input.complete \in BOOLEAN
          /\ input = [kind |-> input.kind, id |-> input.id, expected |-> input.expected,
                      interval |-> input.interval, status |-> input.status,
                      complete |-> input.complete]
      BY <2>2, <3>1
    <3> QED
      BY <3>2 DEF Request
  <2> QED
    BY <2>1, <2>2 DEF Input
<1>3. /\ \A q \in Requests \ {r} :
           pc'[q] = pc[q] /\ req'[q] = req[q] /\ plan'[q] = plan[q] /\ reply'[q] = reply[q]
      /\ pc[r] = "idle" /\ pc'[r] \in {"new_id", "get"} /\ reply' = reply
      /\ pc'[r] = "new_id" => req'[r].kind = "create"
      /\ pc'[r] = "get" => req'[r].kind = "done"
      /\ UNCHANGED << items, seq, now, plan, cancelled >>
  <2>1. input.kind \in {"create", "done"}
    BY <1>2 DEF Request
  <2> QED
    BY <1>1, <2>1 DEF Arrive, goto
<1>4. TypeOK'
  BY <1>1, <1>2, <1>3 DEF goto
<1>5. reply[r] = "none"
  BY <1>3 DEF Created
<1>6. \A i \in DOMAIN items : Remembered(i)'
  BY <1>3, <1>5, DoneByStays
<1>7. \A q \in Requests \ {r} : Copied(q)' /\ Fresh(q)' /\ Created(q)'
  BY <1>3, OthersStay
<1>8. Copied(r)' /\ Fresh(r)' /\ Created(r)'
  BY <1>3, <1>5 DEF Copied, Fresh, Created
<1> QED
  BY <1>3, <1>4, <1>6, <1>7, <1>8

LEMMA CancelStep ==
  ASSUME IInv, NEW r \in Requests, Cancel(r)
  PROVE  IInv'
<1> USE DEF IInv, TypeOK, Cancel
<1>1. \A i \in DOMAIN items : Remembered(i)'
  BY DEF Remembered, doneBy, guarded
<1>2. \A q \in Requests : Copied(q)' /\ Fresh(q)' /\ Created(q)'
  BY DEF Copied, Fresh, Created, guarded
<1> QED
  BY <1>1, <1>2

LEMMA NewIdStep ==
  ASSUME IInv, NEW r \in Requests, NewId(r)
  PROVE  IInv'
<1> USE DEF IInv, TypeOK
<1>1. CASE Fail(r, "ctx") \/ Fail(r, "invalid")
  BY <1>1, FailStep DEF NewId
<1>2. CASE ~ (Fail(r, "ctx") \/ Fail(r, "invalid"))
  <2> DEFINE interval == days(req[r].interval)
             new == [status |-> req[r].status, interval |-> interval, lastDone |-> -1,
                     due |-> now + interval, rev |-> 1]
  <2>1. /\ pc[r] = "new_id" /\ seq' = seq + 1 /\ req' = [req EXCEPT ![r].id = seq + 1]
        /\ plan' = [plan EXCEPT ![r] = new] /\ goto(r, "put")
        /\ UNCHANGED << items, now, reply, cancelled >>
    BY <1>2 DEF NewId
  <2>2. new \in Plan /\ new.lastDone = -1
    <3>1. req[r].interval \in Int /\ req[r].status \in PlanStatus
      BY DEF Request
    <3>2. interval \in Nat \ {0}
      BY <3>1, PlansAssumption DEF days
    <3> HIDE DEF interval
    <3> QED
      BY <3>1, <3>2 DEF Plan
  <2> HIDE DEF new
  <2>3. /\ req' \in [Requests -> Request] /\ req'[r].id = seq + 1 /\ req'[r].kind = req[r].kind
        /\ \A q \in Requests \ {r} : req'[q] = req[q]
    <3>1. [req[r] EXCEPT !.id = seq + 1] \in Request
      BY DEF Request
    <3>2. req' = [req EXCEPT ![r] = [req[r] EXCEPT !.id = seq + 1]]
      BY <2>1
    <3> QED
      BY <3>1, <3>2 DEF Request
  <2>4. /\ \A q \in Requests \ {r} :
             pc'[q] = pc[q] /\ req'[q] = req[q] /\ plan'[q] = plan[q] /\ reply'[q] = reply[q]
        /\ pc'[r] = "put" /\ plan'[r].lastDone = -1
    BY <2>1, <2>2, <2>3 DEF goto
  <2>5. TypeOK'
    <3>1. DOMAIN items' \subseteq 1 .. seq'
      BY <2>1
    <3> QED
      BY <2>1, <2>2, <2>3, <3>1 DEF goto
  <2>6. req[r].kind = "create" /\ reply[r] = "none"
    BY <2>1 DEF Created
  <2>7. \A i \in DOMAIN items : Remembered(i)'
    BY <2>1, <2>3, <2>4, <2>6, DoneByStays
  <2>8. \A q \in Requests \ {r} : Copied(q)' /\ Fresh(q)' /\ Created(q)'
    BY <2>1, <2>4, OthersStay
  <2>9. Copied(r)' /\ Fresh(r)' /\ Created(r)'
    BY <2>1, <2>3, <2>4, <2>6 DEF Copied, Fresh, Created
  <2> QED
    BY <2>1, <2>5, <2>7, <2>8, <2>9
<1> QED
  BY <1>1, <1>2

LEMMA PutStep ==
  ASSUME IInv, NEW r \in Requests, Put(r)
  PROVE  IInv'
<1> USE DEF IInv, TypeOK
<1>1. CASE Fail(r, "ctx") \/ Fail(r, "conflict")
  BY <1>1, FailStep DEF Put
<1>2. CASE ~ (Fail(r, "ctx") \/ Fail(r, "conflict"))
  <2>0. PICK n : n = req[r].id
    OBVIOUS
  <2>1. /\ pc[r] = "put" /\ n \notin DOMAIN items
        /\ items' = [i \in DOMAIN items \cup {n} |-> IF i = n THEN plan[r] ELSE items[i]]
        /\ reply' = [reply EXCEPT ![r] = "ok"] /\ pc' = [pc EXCEPT ![r] = "done"]
        /\ UNCHANGED << seq, now, req, plan, cancelled >>
    BY <1>2, <2>0 DEF Put, goto
  <2>2. n \in 1 .. seq /\ plan[r].lastDone = -1 /\ req[r].kind = "create"
    BY <2>0, <2>1 DEF Created
  <2>3. /\ DOMAIN items' = DOMAIN items \cup {n} /\ items'[n] = plan[r]
        /\ \A i \in DOMAIN items : items'[i] = items[i]
    BY <2>1
  <2>4. TypeOK' /\ \A i \in DOMAIN items' : items'[i].lastDone <= now'
    BY <2>1, <2>2, <2>3
  <2>5. ASSUME NEW i \in DOMAIN items
        PROVE  Remembered(i)'
    BY <2>1, <2>2, <2>3, DoneByStays
  <2>6. Remembered(n)'
    <3>1. ASSUME NEW q \in Requests, q \in doneBy(n)'
          PROVE  FALSE
      <4>1. req[q].kind = "done" /\ req[q].id = n /\ reply'[q] = "ok"
        BY <2>1, <3>1 DEF doneBy
      <4>2. n \in DOMAIN items
        BY <2>1, <4>1, <2>2 DEF Created
      <4> QED
        BY <2>1, <4>2
    <3>2. doneBy(n)' \subseteq Requests
      BY DEF doneBy
    <3> QED
      BY <3>1, <3>2 DEF Remembered
  <2>7. ASSUME NEW q \in Requests
        PROVE  Copied(q)' /\ Fresh(q)' /\ Created(q)'
    BY <2>0, <2>1, <2>2, <2>3 DEF Copied, Fresh, Created, guarded
  <2>8. \A i \in DOMAIN items' : Remembered(i)'
    BY <2>3, <2>5, <2>6
  <2> QED
    BY <2>4, <2>7, <2>8
<1> QED
  BY <1>1, <1>2

LEMMA GetStep ==
  ASSUME IInv, NEW r \in Requests, Get(r)
  PROVE  IInv'
<1> USE DEF IInv, TypeOK
<1> DEFINE n == req[r].id
<1>1. CASE Fail(r, "ctx") \/ Fail(r, "not_found") \/ Fail(r, "conflict") \/ Fail(r, "transition")
  BY <1>1, FailStep DEF Get
<1>2. CASE ~ (Fail(r, "ctx") \/ Fail(r, "not_found") \/ Fail(r, "conflict")
                \/ Fail(r, "transition"))
  <2>1. /\ pc[r] = "get" /\ n \in DOMAIN items /\ matches(r, items[n]) /\ mayBeDone(items[n])
        /\ plan' = [plan EXCEPT ![r] = items[n]] /\ pc' = [pc EXCEPT ![r] = "stamp"]
        /\ UNCHANGED << items, seq, now, req, reply, cancelled >>
    BY <1>2 DEF Get, goto
  <2>2. TypeOK'
    BY <2>1
  <2>3. reply[r] = "none" /\ req[r].kind = "done"
    BY <2>1 DEF Created, Request
  <2>4. \A i \in DOMAIN items : Remembered(i)'
    BY <2>1, <2>3, DoneByStays
  <2>5. \A q \in Requests \ {r} : Copied(q)' /\ Fresh(q)' /\ Created(q)'
    BY <2>1, OthersStay
  <2>6. Copied(r)' /\ Fresh(r)' /\ Created(r)'
    <3>1. items[n] \in Plan
      BY <2>1
    <3> QED
      BY <2>1, <2>3, <3>1 DEF Copied, Fresh, Created, guarded, matches, mayBeDone, Plan
  <2> QED
    BY <2>1, <2>2, <2>4, <2>5, <2>6
<1> QED
  BY <1>1, <1>2

LEMMA StampStep ==
  ASSUME IInv, NEW r \in Requests, Stamp(r)
  PROVE  IInv'
<1> USE DEF IInv, TypeOK
<1>1. /\ pc[r] = "stamp" /\ pc' = [pc EXCEPT ![r] = "update"]
      /\ UNCHANGED << items, seq, now, req, reply, cancelled >>
  BY DEF Stamp, goto
<1>2. plan[r] \in Plan
  OBVIOUS
<1>3. /\ plan'[r] \in Plan /\ plan'[r].lastDone = now /\ plan'[r].due = now + plan[r].interval
      /\ plan'[r].interval = plan[r].interval /\ plan'[r].rev = plan[r].rev
      /\ plan[r].status = "paused" => plan'[r].status = "active"
      /\ plan[r].status # "paused" => plan'[r].status = plan[r].status
      /\ \A q \in Requests \ {r} : plan'[q] = plan[q]
      /\ plan' \in [Requests -> Plan]
  <2> DEFINE new == [status |-> IF plan[r].status = "paused" THEN "active" ELSE plan[r].status,
                     interval |-> plan[r].interval, lastDone |-> now,
                     due |-> now + plan[r].interval, rev |-> plan[r].rev]
  <2>1. new \in Plan
    BY <1>2 DEF Plan, PlanStatus
  <2>2. plan' = [plan EXCEPT ![r] = new]
    BY DEF Stamp
  <2> QED
    BY <2>1, <2>2
<1>4. TypeOK'
  BY <1>1, <1>3
<1>5. reply[r] = "none"
  BY <1>1 DEF Created
<1>6. \A i \in DOMAIN items : Remembered(i)'
  BY <1>1, <1>3, <1>5, DoneByStays
<1>7. \A q \in Requests \ {r} : Copied(q)' /\ Fresh(q)' /\ Created(q)'
  BY <1>1, <1>3, OthersStay
<1>8. Copied(r)'
  BY <1>1, <1>3 DEF Copied, guarded
<1>9. Fresh(r)' /\ Created(r)'
  <2>1. req[r].id \in DOMAIN items /\ items[req[r].id].lastDone <= now
    BY <1>1 DEF Copied
  <2> QED
    BY <1>1, <1>3, <1>5, <2>1 DEF Fresh, Created
<1> QED
  BY <1>1, <1>4, <1>6, <1>7, <1>8, <1>9

\* What a MarkDone that succeeds writes.
LEMMA UpdateWrites ==
  ASSUME IInv, NEW r \in Requests, Update(r),
         ~ (Fail(r, "ctx") \/ Fail(r, "conflict"))
  PROVE  LET n == req[r].id
             new == [plan[r] EXCEPT !.rev = items[n].rev + 1]
         IN  /\ pc[r] = "update" /\ n \in DOMAIN items /\ matches(r, items[n])
             /\ items' = [items EXCEPT ![n] = new] /\ new \in Plan
             /\ new.rev = items[n].rev + 1 /\ new.interval = items[n].interval
             /\ new.lastDone = plan[r].lastDone /\ new.due = plan[r].due
             /\ new.status = plan[r].status
             /\ reply' = [reply EXCEPT ![r] = "ok"] /\ pc' = [pc EXCEPT ![r] = "done"]
             /\ UNCHANGED << seq, now, req, plan, cancelled >>
<1> DEFINE n == req[r].id
           new == [plan[r] EXCEPT !.rev = items[n].rev + 1]
<1>1. /\ pc[r] = "update" /\ n \in DOMAIN items /\ plan[r].interval = items[n].interval
      /\ items[n] \in Plan /\ plan[r] \in Plan
  BY DEF Update, IInv, TypeOK, Copied
<1>2. /\ new \in Plan /\ new.rev = items[n].rev + 1 /\ new.interval = plan[r].interval
      /\ new.lastDone = plan[r].lastDone /\ new.due = plan[r].due /\ new.status = plan[r].status
  BY <1>1 DEF Plan
<1>3. /\ matches(r, items[n]) /\ items' = [items EXCEPT ![n] = new]
      /\ reply' = [reply EXCEPT ![r] = "ok"] /\ pc' = [pc EXCEPT ![r] = "done"]
      /\ UNCHANGED << seq, now, req, plan, cancelled >>
  BY DEF Update, goto
<1> QED
  BY <1>1, <1>2, <1>3

LEMMA UpdateStep ==
  ASSUME IInv, NEW r \in Requests, Update(r)
  PROVE  IInv'
<1> USE DEF IInv, TypeOK
<1>1. CASE Fail(r, "ctx") \/ Fail(r, "conflict")
  BY <1>1, FailStep DEF Update
<1>2. CASE ~ (Fail(r, "ctx") \/ Fail(r, "conflict"))
  <2>0. PICK n : n = req[r].id
    OBVIOUS
  <2> DEFINE new == [plan[r] EXCEPT !.rev = items[n].rev + 1]
  <2>1. /\ pc[r] = "update" /\ n \in DOMAIN items /\ matches(r, items[n])
        /\ items' = [items EXCEPT ![n] = new] /\ new \in Plan
        /\ new.rev = items[n].rev + 1 /\ new.interval = items[n].interval
        /\ new.lastDone = plan[r].lastDone /\ new.due = plan[r].due
        /\ new.status = plan[r].status
        /\ reply' = [reply EXCEPT ![r] = "ok"] /\ pc' = [pc EXCEPT ![r] = "done"]
        /\ UNCHANGED << seq, now, req, plan, cancelled >>
    BY <1>2, <2>0, UpdateWrites
  <2> HIDE DEF new
  <2>2. /\ DOMAIN items' = DOMAIN items /\ items'[n] = new
        /\ \A i \in DOMAIN items \ {n} : items'[i] = items[i]
    BY <2>1
  <2>3. /\ plan[r].lastDone \in 0 .. now /\ plan[r].due = plan[r].lastDone + plan[r].interval
        /\ plan[r].rev = items[n].rev => items[n].lastDone <= plan[r].lastDone
        /\ guarded(r) => plan[r].rev = req[r].expected
        /\ req[r].kind = "done" /\ req[r].id = n /\ reply[r] = "none"
    BY <2>0, <2>1 DEF Copied, Fresh, Created
  <2>4. TypeOK' /\ \A i \in DOMAIN items' : items'[i].lastDone <= now'
    BY <2>1, <2>2, <2>3
  <2>5. ASSUME NEW i \in DOMAIN items \ {n}
        PROVE  Remembered(i)'
    <3>1. /\ r \notin doneBy(i)
          /\ \A q \in Requests : q \in doneBy(i)' <=> q \in doneBy(i)
      BY <2>1, <2>3 DEF doneBy
    <3>2. doneBy(i)' = doneBy(i)
      BY <3>1 DEF doneBy
    <3>3. items'[i] = items[i] /\ req' = req /\ plan' = plan /\ Remembered(i)
      BY <2>1, <2>2
    <3> QED
      BY <3>2, <3>3 DEF Remembered, guarded
  <2>6. Remembered(n)'
    <3>1. doneBy(n)' = doneBy(n) \cup {r} /\ r \notin doneBy(n)
      <4>1. \A q \in Requests : q \in doneBy(n)' <=> q \in doneBy(n) \/ q = r
        BY <2>1, <2>3 DEF doneBy
      <4>2. doneBy(n) \subseteq Requests /\ doneBy(n)' \subseteq Requests
        BY DEF doneBy
      <4>3. r \notin doneBy(n)
        BY <2>3 DEF doneBy
      <4> QED
        BY <4>1, <4>2, <4>3
    <3>2. SUFFICES ASSUME \A q \in doneBy(n)' : guarded(q)
                   PROVE  \A q \in doneBy(n)' :
                            /\ plan[q].interval = new.interval /\ plan[q].lastDone >= 0
                            /\ new.lastDone >= plan[q].lastDone
                            /\ new.due = new.lastDone + new.interval
      <4>1. items'[n] = new /\ req' = req /\ plan' = plan
        BY <2>1, <2>2
      <4> QED
        BY <4>1 DEF Remembered, guarded
    <3>3. /\ guarded(r)
          /\ \A q \in doneBy(n) :
               /\ plan[q].interval = items[n].interval /\ plan[q].lastDone >= 0
               /\ items[n].lastDone >= plan[q].lastDone
      BY <2>1, <3>1, <3>2 DEF Remembered
    <3>4. items[n].lastDone <= plan[r].lastDone
      BY <2>1, <2>3, <3>3 DEF matches
    <3>5. plan[r].interval = new.interval
      BY <2>0, <2>1 DEF Copied
    <3>6. /\ items[n].lastDone \in Int /\ plan[r].lastDone \in Int
          /\ \A q \in Requests : plan[q].lastDone \in Int
      BY <2>1 DEF Plan
    <3>7. doneBy(n) \subseteq Requests
      BY DEF doneBy
    <3>8. ASSUME NEW q \in doneBy(n)
          PROVE  plan[q].interval = new.interval /\ plan[q].lastDone >= 0
                 /\ new.lastDone >= plan[q].lastDone
      BY <2>1, <3>3, <3>4, <3>6, <3>7
    <3> QED
      BY <2>1, <2>3, <3>1, <3>5, <3>6, <3>8
  <2>7. ASSUME NEW q \in Requests \ {r}
        PROVE  Copied(q)' /\ Fresh(q)' /\ Created(q)'
    <3>1. /\ pc'[q] = pc[q] /\ reply'[q] = reply[q]
          /\ UNCHANGED << req, plan, seq, now >>
      BY <2>1
    <3>2. CASE req[q].id # n \/ pc[q] \notin {"stamp", "update"}
      BY <2>2, <3>1, <3>2 DEF Copied, Fresh, Created, guarded
    <3>3. CASE req[q].id = n /\ pc[q] \in {"stamp", "update"}
      <4>1. /\ items'[n].rev = items[n].rev + 1 /\ items'[n].interval = items[n].interval
            /\ items'[n].status = plan[r].status
        BY <2>1, <2>2
      <4>2. /\ plan[r].status \notin {"archived", "paused"}
            /\ \/ plan[r].status = items[n].status
               \/ plan[r].status = "active" /\ items[n].status = "paused"
        BY <2>0, <2>1 DEF Copied
      <4>3. plan[q].rev \in Nat /\ items[n].rev \in Nat
        BY <2>1 DEF Plan
      <4>4. plan[q].rev <= items[n].rev
        BY <3>3 DEF Copied
      <4>5. Copied(q)'
        BY <2>2, <3>1, <3>3, <4>1, <4>2, <4>3 DEF Copied, guarded
      <4>6. Fresh(q)' /\ Created(q)'
        BY <2>2, <3>1, <3>3, <4>1, <4>3, <4>4 DEF Fresh, Created
      <4> QED
        BY <4>5, <4>6
    <3> QED
      BY <3>2, <3>3
  <2>8. Copied(r)' /\ Fresh(r)' /\ Created(r)'
    BY <2>1 DEF Copied, Fresh, Created
  <2>9. \A i \in DOMAIN items' : Remembered(i)'
    BY <2>2, <2>5, <2>6
  <2>10. \A q \in Requests : Copied(q)' /\ Fresh(q)' /\ Created(q)'
    BY <2>7, <2>8
  <2> QED
    BY <2>4, <2>9, <2>10
<1> QED
  BY <1>1, <1>2

LEMMA StepIInv ==
  ASSUME IInv, [Next]_vars
  PROVE  IInv'
<1>1. CASE Next
  BY <1>1, TickStep, ArriveStep, CancelStep, NewIdStep, PutStep, GetStep, StampStep, UpdateStep
     DEF Next, Serve
<1>2. CASE UNCHANGED vars
  BY <1>2 DEF vars, IInv, TypeOK, Copied, Fresh, Created, Remembered, doneBy, guarded
<1> QED
  BY <1>1, <1>2

------------------------------------------------------------------------------

\* Every variable always has its type.
THEOREM TypeCorrect == Spec => []TypeOK
<1>1. IInv => TypeOK
  BY DEF IInv
<1> QED
  BY InitIInv, StepIInv, <1>1, PTL DEF Spec

\* When the requests that marked a plan sent a revision, none of them is undone: the
\* plan is not due before the interval after each of them has passed.
THEOREM DoneStaysDone == Spec => []DoneIsNotDue
<1>1. IInv => DoneIsNotDue
  <2> SUFFICES ASSUME IInv, NEW i \in DOMAIN items, \A r \in doneBy(i) : guarded(r),
                      NEW r \in doneBy(i)
               PROVE  /\ items[i].lastDone >= plan[r].lastDone
                      /\ i \notin Due(plan[r].lastDone + plan[r].interval - 1)
    BY DEF DoneIsNotDue
  <2>1. /\ plan[r].interval = items[i].interval /\ items[i].lastDone >= plan[r].lastDone
        /\ items[i].due = items[i].lastDone + items[i].interval
    BY DEF IInv, Remembered
  <2>2. items[i] \in Plan /\ plan[r] \in Plan
    BY DEF IInv, TypeOK, doneBy
  <2> QED
    BY <2>1, <2>2 DEF Due, Plan
<1> QED
  BY InitIInv, StepIInv, <1>1, PTL DEF Spec

==============================================================================
