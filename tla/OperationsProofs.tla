--------------------------- MODULE OperationsProofs ---------------------------
(***************************************************************************)
(* Theorems of Operations!Spec, for any requests, ids and revisions.       *)
(*                                                                         *)
(* GuardedMovesLegal is about one step, but the step is legal because of   *)
(* what the request did two calls earlier: it read the record, and the     *)
(* state machine judged the status it read.  What carries that judgement   *)
(* to the write is Judged: while the revision in the store is still the    *)
(* one that was read, so is the status.  It is inductive because every     *)
(* write raises the revision, and a copy is never newer than the store.    *)
(*                                                                         *)
(* CountInv equates the revision of a record with the events about it and  *)
(* the transitions on their way to theirs.  ReplayInv says of a request    *)
(* that has moved but not yet written that its entry would go on where the *)
(* record's own entries end, as long as the revision has not moved.        *)
(***************************************************************************)
EXTENDS Operations, FiniteSetTheorems, TLAPS

\* A number that waits for Put has been counted.
Numbered(r) == pc[r] = "put" => req[r].id \in 1 .. sequence

\* What request r knows of its record while it decides.
Judged(r) ==
  pc[r] \in {"move", "update"} =>
    /\ req[r].id \in DOMAIN items
    /\ record[r].rev <= items[req[r].id].rev
    /\ guarded(r) => record[r].rev = req[r].expected
    /\ record[r].rev = items[req[r].id].rev =>
         /\ pc[r] = "move" => record[r].status = items[req[r].id].status
         /\ pc[r] = "update" => canMove(items[req[r].id].status, record[r].status)

IInv == TypeOK /\ \A r \in Requests : Numbered(r) /\ Judged(r)

------------------------------------------------------------------------------

LEMMA InitIInv == Init => IInv
<1> SUFFICES ASSUME Init PROVE IInv
  OBVIOUS
<1>1. /\ history \in Seq([from : OpsStatus, to : OpsStatus, by : Requests])
      /\ events \in Seq([id : Nat, kind : {"create", "transition"}, by : Requests])
  BY DEF Init
<1>2. /\ NoRequest \in Request /\ NewRecord \in OpsRecord
  BY DEF NoRequest, Request, NewRecord, OpsRecord, OpsStatus
<1>3. TypeOK
  BY <1>1, <1>2 DEF Init, TypeOK
<1>4. \A r \in Requests : pc[r] = "idle"
  BY DEF Init
<1> QED
  BY <1>3, <1>4 DEF IInv, Numbered, Judged

LEMMA ArriveStep ==
  ASSUME IInv, NEW r \in Requests, Arrive(r)
  PROVE  IInv'
<1>1. Input \subseteq Request
  <2> SUFFICES ASSUME NEW input \in Input PROVE input \in Request
    OBVIOUS
  <2>1. CASE input \in [kind : {"create"}, id : {0}, expected : {0}, target : {"queued"},
                        complete : BOOLEAN]
    BY <2>1 DEF Request, OpsStatus
  <2>2. CASE input \in [kind : {"transition"}, id : Ids, expected : Expected,
                        target : OpsStatus, complete : {TRUE}]
    BY <2>2, OperationsAssumption DEF Request
  <2> QED
    BY <2>1, <2>2 DEF Input
<1>2. TypeOK'
  <2>1. PICK input \in Input : /\ req' = [req EXCEPT ![r] = input]
                              /\ goto(r, IF input.kind = "create" THEN "new_id" ELSE "get")
    BY DEF Arrive
  <2>2. req' \in [Requests -> Request]
    BY <1>1, <2>1 DEF IInv, TypeOK
  <2>3. pc' \in [Requests -> {"idle", "new_id", "put", "get", "move", "update", "audit", "done"}]
    BY <2>1 DEF goto, IInv, TypeOK
  <2> QED
    BY <2>2, <2>3 DEF Arrive, IInv, TypeOK
<1>3. \A q \in Requests : Numbered(q)' /\ Judged(q)'
  BY DEF Arrive, goto, IInv, TypeOK, Numbered, Judged, guarded
<1> QED
  BY <1>2, <1>3 DEF IInv

LEMMA ContextEndsStep ==
  ASSUME IInv, NEW r \in Requests, ContextEnds(r)
  PROVE  IInv'
BY DEF ContextEnds, IInv, TypeOK, Numbered, Judged, guarded

LEMMA FailStep ==
  ASSUME IInv, NEW r \in Requests, NEW err \in Error, Fail(r, err)
  PROVE  IInv'
<1>1. TypeOK'
  BY DEF Fail, goto, IInv, TypeOK
<1>2. \A q \in Requests : Numbered(q)' /\ Judged(q)'
  BY DEF Fail, goto, IInv, TypeOK, Numbered, Judged, guarded
<1> QED
  BY <1>1, <1>2 DEF IInv

LEMMA NewIdStep ==
  ASSUME IInv, NEW r \in Requests, NewId(r)
  PROVE  IInv'
<1>1. sequence \in Nat /\ sequence' = sequence + 1
  BY DEF NewId, counted, IInv, TypeOK
<1>2. req' \in [Requests -> Request]
  <2>1. req \in [Requests -> Request]
    BY DEF IInv, TypeOK
  <2>2. [req[r] EXCEPT !.id = sequence + 1] \in Request
    BY <1>1, <2>1 DEF Request
  <2>3. req' = [req EXCEPT ![r] = [req[r] EXCEPT !.id = sequence + 1]]
    BY <2>1 DEF NewId, counted
  <2> QED
    BY <2>1, <2>2, <2>3
<1>3. record' \in [Requests -> OpsRecord]
  BY DEF NewId, counted, IInv, TypeOK, NewRecord, OpsRecord, OpsStatus
<1>4. pc' \in [Requests -> {"idle", "new_id", "put", "get", "move", "update", "audit", "done"}]
      /\ reply' \in [Requests -> Error \cup {"none", "ok"}]
  BY DEF NewId, counted, goto, IInv, TypeOK, Error
<1>5. DOMAIN items \subseteq 1 .. (sequence + 1)
  BY <1>1 DEF IInv, TypeOK
<1>6. TypeOK'
  BY <1>1, <1>2, <1>3, <1>4, <1>5 DEF NewId, counted, IInv, TypeOK
<1>7. ASSUME NEW q \in Requests PROVE Numbered(q)'
  <2>1. CASE q = r
    BY <1>1, <2>1 DEF NewId, counted, IInv, TypeOK, Numbered
  <2>2. CASE q # r
    BY <1>1, <2>2 DEF NewId, counted, goto, IInv, TypeOK, Numbered
  <2> QED
    BY <2>1, <2>2
<1>8. \A q \in Requests : Judged(q)'
  BY DEF NewId, counted, goto, IInv, TypeOK, Judged, guarded
<1> QED
  BY <1>6, <1>7, <1>8 DEF IInv

LEMMA PutStep ==
  ASSUME IInv, NEW r \in Requests, Put(r)
  PROVE  IInv'
<1>1. CASE \E err \in Error : Fail(r, err)
  BY <1>1, FailStep
<1>2. CASE /\ req[r].id \notin DOMAIN items
           /\ items' = [i \in DOMAIN items \cup {req[r].id} |->
                          IF i = req[r].id THEN record[r] ELSE items[i]]
           /\ goto(r, "audit")
           /\ UNCHANGED << history, events, sequence, req, record, reply, ended >>
  <2>1. req[r].id \in 1 .. sequence
    BY DEF Put, IInv, Numbered
  <2>2. TypeOK'
    BY <1>2, <2>1 DEF goto, IInv, TypeOK
  <2>3. \A q \in Requests : Numbered(q)' /\ Judged(q)'
    BY <1>2 DEF goto, IInv, TypeOK, Numbered, Judged, guarded
  <2> QED
    BY <2>2, <2>3 DEF IInv
<1> QED
  BY <1>1, <1>2 DEF Put, Error

LEMMA GetStep ==
  ASSUME IInv, NEW r \in Requests, Get(r)
  PROVE  IInv'
<1>1. CASE \E err \in Error : Fail(r, err)
  BY <1>1, FailStep
<1>2. CASE /\ req[r].id \in DOMAIN items
           /\ guarded(r) => req[r].expected = items[req[r].id].rev
           /\ record' = [record EXCEPT ![r] = items[req[r].id]]
           /\ goto(r, "move")
           /\ UNCHANGED << items, history, events, sequence, req, reply, ended >>
  <2>1. TypeOK'
    BY <1>2 DEF goto, IInv, TypeOK
  <2>2. \A q \in Requests : Numbered(q)' /\ Judged(q)'
    BY <1>2 DEF goto, IInv, TypeOK, OpsRecord, Numbered, Judged, guarded
  <2> QED
    BY <2>1, <2>2 DEF IInv
<1> QED
  BY <1>1, <1>2 DEF Get, matches, Error

LEMMA MoveStep ==
  ASSUME IInv, NEW r \in Requests, Move(r)
  PROVE  IInv'
<1>1. CASE \E err \in Error : Fail(r, err)
  BY <1>1, FailStep
<1>2. CASE /\ canMove(record[r].status, req[r].target)
           /\ history' = IF record[r].status = req[r].target THEN history
                ELSE Append(history,
                       [from |-> record[r].status, to |-> req[r].target, by |-> r])
           /\ record' = [record EXCEPT ![r].status = req[r].target]
           /\ goto(r, "update")
           /\ UNCHANGED << items, events, sequence, req, reply, ended >>
  <2>1. record[r] \in OpsRecord /\ req[r].target \in OpsStatus
    BY DEF IInv, TypeOK, Request
  <2>2. history' \in Seq([from : OpsStatus, to : OpsStatus, by : Requests])
    <3> DEFINE entry == [from |-> record[r].status, to |-> req[r].target, by |-> r]
    <3>1. entry \in [from : OpsStatus, to : OpsStatus, by : Requests]
      BY <2>1 DEF OpsRecord
    <3>2. history \in Seq([from : OpsStatus, to : OpsStatus, by : Requests])
      BY DEF IInv, TypeOK
    <3> HIDE DEF entry
    <3>3. Append(history, entry) \in Seq([from : OpsStatus, to : OpsStatus, by : Requests])
      BY <3>1, <3>2
    <3> QED
      BY <1>2, <3>2, <3>3 DEF entry
  <2>3. record' \in [Requests -> OpsRecord]
    BY <1>2, <2>1 DEF IInv, TypeOK, OpsRecord
  <2>4. TypeOK'
    BY <1>2, <2>2, <2>3 DEF goto, IInv, TypeOK
  <2>5. pc[r] = "move"
    BY DEF Move, allowed
  <2>6. \A q \in Requests : Numbered(q)'
    BY <1>2 DEF goto, IInv, TypeOK, Numbered
  <2>7. ASSUME NEW q \in Requests PROVE Judged(q)'
    <3>1. CASE q = r
      <4>1. /\ record'[r].rev = record[r].rev /\ record'[r].status = req[r].target
            /\ pc'[r] = "update" /\ items' = items /\ req' = req
        BY <1>2, <2>1 DEF goto, IInv, TypeOK, OpsRecord
      <4> QED
        BY <1>2, <2>5, <3>1, <4>1 DEF IInv, Judged, guarded
    <3>2. CASE q # r
      BY <1>2, <3>2 DEF goto, IInv, TypeOK, Judged, guarded
    <3> QED
      BY <3>1, <3>2
  <2> QED
    BY <2>4, <2>6, <2>7 DEF IInv
<1> QED
  BY <1>1, <1>2 DEF Move, allowed, Error

LEMMA UpdateStep ==
  ASSUME IInv, NEW r \in Requests, Update(r)
  PROVE  IInv'
<1>1. CASE \E err \in Error : Fail(r, err)
  BY <1>1, FailStep
<1>2. CASE store(r, items[req[r].id].rev + 1)
  <2> DEFINE i == req[r].id
  <2>1. i \in DOMAIN items /\ items[i] \in OpsRecord /\ record[r] \in OpsRecord
    BY DEF Update, matches, nextRev, IInv, TypeOK, Judged
  <2>2. /\ DOMAIN items' = DOMAIN items
        /\ \A k \in DOMAIN items : k # i => items'[k] = items[k]
        /\ items'[i] = [record[r] EXCEPT !.rev = items[i].rev + 1]
    BY <1>2, <2>1 DEF store
  <2>3. items'[i] \in OpsRecord /\ items'[i].rev = items[i].rev + 1
    BY <2>1, <2>2 DEF OpsRecord
  <2>4. TypeOK'
    BY <1>2, <2>1, <2>2, <2>3 DEF store, goto, IInv, TypeOK
  <2>5. \A q \in Requests : Numbered(q)'
    BY <1>2 DEF store, goto, IInv, TypeOK, Numbered
  <2>6. ASSUME NEW q \in Requests PROVE Judged(q)'
    <3>1. CASE q = r
      BY <1>2, <3>1 DEF store, goto, IInv, TypeOK, Judged
    <3>2. CASE q # r /\ req[q].id = i
      <4>1. record'[q] = record[q] /\ record[q] \in OpsRecord
            /\ pc'[q] = pc[q] /\ req' = req
        BY <1>2, <3>2 DEF store, goto, IInv, TypeOK
      <4>2. Judged(q)
        BY DEF IInv
      <4>3. pc[q] \in {"move", "update"} => record[q].rev < items'[i].rev
        BY <2>1, <2>3, <3>2, <4>1, <4>2 DEF Judged, OpsRecord
      <4>4. record[q].rev \in Nat /\ items'[i].rev \in Nat
        BY <2>3, <4>1 DEF OpsRecord
      <4>5. guarded(q)' <=> guarded(q)
        BY <4>1 DEF guarded
      <4>6. pc[q] \in {"move", "update"} => i \in DOMAIN items'
                                            /\ record[q].rev <= items'[i].rev
                                            /\ record[q].rev # items'[i].rev
        BY <2>1, <2>2, <4>3, <4>4
      <4> HIDE DEF i
      <4>7. req[q].id = i
        BY <3>2
      <4> QED
        BY <4>1, <4>2, <4>5, <4>6, <4>7 DEF Judged
    <3>3. CASE q # r /\ req[q].id # i
      BY <1>2, <2>2, <3>3 DEF store, goto, IInv, TypeOK, Judged, guarded
    <3> QED
      BY <3>1, <3>2, <3>3
  <2> QED
    BY <2>4, <2>5, <2>6 DEF IInv
<1> QED
  BY <1>1, <1>2 DEF Update, matches, nextRev, Error

LEMMA AuditAddStep ==
  ASSUME IInv, NEW r \in Requests, AuditAdd(r)
  PROVE  IInv'
<1> DEFINE event == [id |-> req[r].id, kind |-> req[r].kind, by |-> r]
           Event == [id : Nat, kind : {"create", "transition"}, by : Requests]
<1>1. event \in Event
  BY DEF IInv, TypeOK, Request
<1>2. events \in Seq(Event)
  BY DEF IInv, TypeOK
<1>3. events' = Append(events, event)
  BY DEF AuditAdd
<1>4. events' \in Seq(Event)
  <2> HIDE DEF event, Event
  <2> QED
    BY <1>1, <1>2, <1>3
<1>5. TypeOK'
  BY <1>4 DEF AuditAdd, goto, IInv, TypeOK
<1>6. \A q \in Requests : Numbered(q)' /\ Judged(q)'
  BY DEF AuditAdd, goto, IInv, TypeOK, Numbered, Judged, guarded
<1> QED
  BY <1>5, <1>6 DEF IInv

LEMMA NextIInv == IInv /\ [Next]_vars => IInv'
<1> SUFFICES ASSUME IInv, [Next]_vars PROVE IInv'
  OBVIOUS
<1>1. CASE UNCHANGED vars
  BY <1>1 DEF vars, IInv, TypeOK, Numbered, Judged, guarded
<1>2. ASSUME NEW r \in Requests, Arrive(r) PROVE IInv'
  BY <1>2, ArriveStep
<1>3. ASSUME NEW r \in Requests, ContextEnds(r) PROVE IInv'
  BY <1>3, ContextEndsStep
<1>4. ASSUME NEW r \in Requests, NewId(r) PROVE IInv'
  BY <1>4, NewIdStep
<1>5. ASSUME NEW r \in Requests, Put(r) PROVE IInv'
  BY <1>5, PutStep
<1>6. ASSUME NEW r \in Requests, Get(r) PROVE IInv'
  BY <1>6, GetStep
<1>7. ASSUME NEW r \in Requests, Move(r) PROVE IInv'
  BY <1>7, MoveStep
<1>8. ASSUME NEW r \in Requests, Update(r) PROVE IInv'
  BY <1>8, UpdateStep
<1>9. ASSUME NEW r \in Requests, AuditAdd(r) PROVE IInv'
  BY <1>9, AuditAddStep
<1> QED
  BY <1>1, <1>2, <1>3, <1>4, <1>5, <1>6, <1>7, <1>8, <1>9 DEF Next, Serve

\* The operations service is type correct, for any requests.
THEOREM TypeCorrect == Spec => []TypeOK
<1>1. IInv => TypeOK
  BY DEF IInv
<1> QED
  BY <1>1, InitIInv, NextIInv, PTL DEF Spec

------------------------------------------------------------------------------

\* The step of GuardedMovesLegal, given the invariant.
LEMMA LegalStep ==
  ASSUME IInv, [Next]_vars, NEW r \in Requests,
         pc[r] = "update", pc'[r] = "audit", guarded(r)
  PROVE  /\ items[req[r].id].rev = req[r].expected
         /\ canMove(items[req[r].id].status, items'[req[r].id].status)
<1>1. Update(r)
  <2>1. ~ UNCHANGED vars
    BY DEF vars
  <2>2. PICK q \in Requests : Arrive(q) \/ ContextEnds(q) \/ Serve(q)
    BY <2>1 DEF Next
  <2>3. q = r
    BY <2>2 DEF Arrive, ContextEnds, Serve, NewId, counted, Put, Get, matches, Move, allowed, Update, matches, nextRev, AuditAdd,
                Fail, store, goto, IInv, TypeOK
  <2> QED
    BY <2>2, <2>3 DEF Arrive, ContextEnds, Serve, NewId, counted, Put, Get, matches, Move, allowed, AuditAdd
<1>2. /\ items[req[r].id].rev = req[r].expected
      /\ store(r, items[req[r].id].rev + 1)
  BY <1>1 DEF Update, matches, nextRev, Fail, goto, IInv, TypeOK
<1>3. Judged(r) /\ req[r].id \in DOMAIN items /\ record[r] \in OpsRecord
  BY DEF IInv, Judged, TypeOK
<1>4. items'[req[r].id].status = record[r].status
  BY <1>2, <1>3 DEF store, OpsRecord
<1> QED
  BY <1>2, <1>3, <1>4 DEF Judged

\* A transition that sends a revision changes the record only at that revision and
\* only by a move the table allows from the status the record has at that moment.
THEOREM GuardedTransitions == Spec => GuardedMovesLegal
<1>1. IInv /\ [Next]_vars =>
        [\A r \in Requests :
           pc[r] = "update" /\ pc'[r] = "audit" /\ guarded(r) =>
             /\ items[req[r].id].rev = req[r].expected
             /\ canMove(items[req[r].id].status, items'[req[r].id].status)]_vars
  BY LegalStep
<1> QED
  BY <1>1, InitIInv, NextIInv, PTL DEF Spec, GuardedMovesLegal

------------------------------------------------------------------------------
(* The transitions the store has accepted.                                 *)

\* Where a request can be, by what it asks for, and what that says of its answer.
Routed(r) ==
  /\ pc[r] \in {"new_id", "put"} => req[r].kind = "create"
  /\ pc[r] \in {"get", "move", "update"} => req[r].kind = "transition"
  /\ pc[r] # "done" => reply[r] = "none"
  /\ pc[r] = "put" => record[r] = NewRecord
  /\ committed(r) => req[r].id \in DOMAIN items

\* A request's own step leaves the local state of the others alone.
LEMMA OthersUntouched ==
  ASSUME IInv, NEW r \in Requests, Arrive(r) \/ ContextEnds(r) \/ Serve(r),
         NEW s \in Requests, s # r
  PROVE  pc'[s] = pc[s] /\ req'[s] = req[s] /\ record'[s] = record[s] /\ reply'[s] = reply[s]
<1>1. CASE Arrive(r) \/ ContextEnds(r) \/ NewId(r) \/ Put(r)
  BY <1>1 DEF Arrive, ContextEnds, NewId, Put, Fail, goto, IInv, TypeOK
<1>2. CASE Get(r) \/ Move(r)
  BY <1>2 DEF Get, Move, Fail, goto, IInv, TypeOK
<1>3. CASE Update(r) \/ AuditAdd(r)
  BY <1>3 DEF Update, store, AuditAdd, Fail, goto, IInv, TypeOK
<1> QED
  BY <1>1, <1>2, <1>3 DEF Serve

\* What the store calls of a request do.  A call that fails answers the request and
\* changes nothing else.
failed(r) ==
  /\ pc'[r] = "done" /\ reply'[r] \in Error /\ pc[r] \in {"put", "get", "move", "update"}
  /\ UNCHANGED << items, history, events, sequence, req, record, ended >>

LEMMA ServeStep ==
  ASSUME IInv, NEW r \in Requests, Serve(r)
  PROVE  \/ failed(r)
         \/ /\ pc[r] = "new_id" /\ pc'[r] \in {"put", "done"}
            /\ pc'[r] = "done" => reply'[r] # "ok"
            /\ pc'[r] = "put" => reply'[r] = reply[r] /\ record'[r] = NewRecord
            /\ req'[r].kind = req[r].kind
            /\ UNCHANGED << items, history, events >>
         \/ /\ pc[r] = "put" /\ pc'[r] = "audit" /\ req[r].id \notin DOMAIN items
            /\ items' = [i \in DOMAIN items \cup {req[r].id} |->
                           IF i = req[r].id THEN record[r] ELSE items[i]]
            /\ UNCHANGED << history, events, req, record, reply >>
         \/ /\ pc[r] = "get" /\ pc'[r] = "move"
            /\ UNCHANGED << items, history, events, req, reply >>
         \/ /\ pc[r] = "move" /\ pc'[r] = "update"
            /\ history' = IF record[r].status = req[r].target THEN history
                          ELSE Append(history, [from |-> record[r].status,
                                                to |-> req[r].target, by |-> r])
            /\ record' = [record EXCEPT ![r].status = req[r].target]
            /\ UNCHANGED << items, events, req, reply >>
         \/ /\ pc[r] = "update" /\ pc'[r] = "audit"
            /\ guarded(r) => req[r].expected = items[req[r].id].rev
            /\ items' = [items EXCEPT ![req[r].id] =
                           [record[r] EXCEPT !.rev = items[req[r].id].rev + 1]]
            /\ UNCHANGED << history, events, req, record, reply >>
         \/ /\ pc[r] = "audit" /\ pc'[r] = "done" /\ reply'[r] = "ok"
            /\ events' = Append(events, [id |-> req[r].id, kind |-> req[r].kind, by |-> r])
            /\ UNCHANGED << items, history, req, record >>
<1>1. /\ pc \in [Requests -> {"idle", "new_id", "put", "get", "move", "update", "audit", "done"}]
      /\ reply \in [Requests -> Error \cup {"none", "ok"}]
      /\ req \in [Requests -> Request] /\ record \in [Requests -> OpsRecord]
  BY DEF IInv, TypeOK
<1>2. ASSUME NEW err \in Error, Fail(r, err), pc[r] \in {"put", "get", "move", "update"}
      PROVE  failed(r)
  BY <1>1, <1>2 DEF Fail, goto, failed
<1>3. CASE NewId(r)
  BY <1>1, <1>3 DEF NewId, goto, Request
<1>4. CASE Put(r)
  BY <1>1, <1>2, <1>4 DEF Put, goto, Error
<1>5. CASE Get(r)
  BY <1>1, <1>2, <1>5 DEF Get, goto, Error
<1>6. CASE Move(r)
  BY <1>1, <1>2, <1>6 DEF Move, allowed, goto, Error
<1>7. CASE Update(r)
  BY <1>1, <1>2, <1>7 DEF Update, matches, nextRev, store, goto, Error
<1>8. CASE AuditAdd(r)
  BY <1>1, <1>8 DEF AuditAdd, goto
<1> QED
  BY <1>3, <1>4, <1>5, <1>6, <1>7, <1>8 DEF Serve

\* An accepted transition stays accepted; another is accepted by its own update.
LEMMA CommitStep ==
  ASSUME IInv, \A q \in Requests : Routed(q),
         NEW r \in Requests, Arrive(r) \/ ContextEnds(r) \/ Serve(r), NEW s \in Requests
  PROVE  /\ committed(s) => committed(s)' /\ req'[s] = req[s]
         /\ committed(s)' /\ ~ committed(s) =>
              s = r /\ pc[r] = "update" /\ pc'[r] = "audit"
<1>1. CASE s # r
  BY <1>1, OthersUntouched DEF committed
<1>2. CASE s = r /\ Arrive(r)
  <2>1. PICK input \in Input : goto(r, IF input.kind = "create" THEN "new_id" ELSE "get")
    BY <1>2 DEF Arrive
  <2>2. pc[r] = "idle" /\ pc'[r] \in {"new_id", "get"} /\ reply'[r] = "none" /\ reply[r] = "none"
    BY <1>2, <2>1 DEF Arrive, goto, Routed, IInv, TypeOK
  <2> QED
    BY <1>2, <2>2 DEF committed
<1>3. CASE s = r /\ ContextEnds(r)
  BY <1>3 DEF ContextEnds, committed
<1>4. CASE s = r /\ Serve(r)
  <2>1. Routed(r)
    OBVIOUS
  <2> QED
    BY <1>4, <2>1, ServeStep DEF failed, Routed, committed, Error
<1> QED
  BY <1>1, <1>2, <1>3, <1>4

LEMMA ItemsStep ==
  ASSUME IInv, NEW r \in Requests, Arrive(r) \/ ContextEnds(r) \/ Serve(r)
  PROVE  /\ items' = items \/ (pc[r] \in {"put", "update"} /\ pc'[r] = "audit")
         /\ DOMAIN items \subseteq DOMAIN items'
         /\ history' = history \/ (pc[r] = "move" /\ pc'[r] = "update")
         /\ events' = events \/ (pc[r] = "audit" /\ pc'[r] = "done")
<1>1. CASE Arrive(r) \/ ContextEnds(r)
  BY <1>1 DEF Arrive, ContextEnds
<1>2. CASE Serve(r)
  BY <1>2, ServeStep DEF failed
<1> QED
  BY <1>1, <1>2

LEMMA RoutedStep ==
  ASSUME IInv, \A q \in Requests : Routed(q),
         NEW r \in Requests, Arrive(r) \/ ContextEnds(r) \/ Serve(r), NEW s \in Requests
  PROVE  Routed(s)'
<1>1. ASSUME committed(s)' PROVE req'[s].id \in DOMAIN items'
  <2>1. CASE committed(s)
    BY <2>1, CommitStep, ItemsStep DEF Routed
  <2>2. CASE ~ committed(s)
    <3>1. s = r /\ pc[r] = "update" /\ pc'[r] = "audit"
      BY <1>1, <2>2, CommitStep
    <3>2. req'[r] = req[r]
      BY <3>1, ServeStep DEF failed, Arrive, ContextEnds
    <3> QED
      BY <3>1, <3>2, ItemsStep DEF IInv, Judged
  <2> QED
    BY <2>1, <2>2
<1>2. CASE s # r
  BY <1>1, <1>2, OthersUntouched DEF Routed
<1>3. CASE s = r /\ Arrive(r)
  <2>1. PICK input \in Input : /\ req' = [req EXCEPT ![r] = input]
                              /\ goto(r, IF input.kind = "create" THEN "new_id" ELSE "get")
    BY <1>3 DEF Arrive
  <2>2. /\ req'[r].kind = input.kind
        /\ pc'[r] = IF input.kind = "create" THEN "new_id" ELSE "get"
        /\ reply'[r] = "none" /\ input.kind \in {"create", "transition"}
    BY <1>3, <2>1 DEF Arrive, goto, Routed, IInv, TypeOK, Input
  <2> QED
    BY <1>1, <1>3, <2>2 DEF Routed
<1>4. CASE s = r /\ ContextEnds(r)
  BY <1>1, <1>4 DEF ContextEnds, Routed
<1>5. CASE s = r /\ Serve(r)
  <2>1. Routed(r)
    OBVIOUS
  <2> QED
    BY <1>1, <1>5, <2>1, ServeStep DEF failed, Routed
<1> QED
  BY <1>2, <1>3, <1>4, <1>5

------------------------------------------------------------------------------
(* Revisions and the audit trail.                                          *)

\* The events of record i's transitions, and the accepted ones without an event.
audited(i) == {k \in DOMAIN events : events[k].id = i /\ events[k].kind = "transition"}
late(i) == {r \in moversOf(i) : pc[r] = "audit"}

CountInv ==
  /\ \A r \in Requests : Routed(r)
  /\ \A k \in DOMAIN events : events[k].kind = "transition" => events[k].id \in DOMAIN items
  /\ \A i \in DOMAIN items :
       /\ IsFiniteSet(late(i))
       /\ items[i].rev = 1 + Cardinality(audited(i)) + Cardinality(late(i))

LEMMA AuditedFinite ==
  ASSUME IInv, NEW i
  PROVE  IsFiniteSet(audited(i)) /\ Cardinality(audited(i)) \in Nat
<1>1. Len(events) \in Nat /\ DOMAIN events = 1 .. Len(events)
  BY DEF IInv, TypeOK
<1>2. IsFiniteSet(1 .. Len(events))
  BY <1>1, FS_Interval
<1>3. audited(i) \in SUBSET (1 .. Len(events))
  BY <1>1 DEF audited
<1> QED
  BY <1>2, <1>3, FS_Subset, FS_CardinalityType

\* An event is added to the trail: it counts for its record if it is a transition.
LEMMA AuditedGrows ==
  ASSUME IInv, NEW id \in Nat, NEW kind \in {"create", "transition"}, NEW by \in Requests,
         events' = Append(events, [id |-> id, kind |-> kind, by |-> by]), NEW i
  PROVE  /\ audited(i)' = IF id = i /\ kind = "transition"
                          THEN audited(i) \cup {Len(events) + 1} ELSE audited(i)
         /\ Len(events) + 1 \notin audited(i)
<1> DEFINE Event == [id : Nat, kind : {"create", "transition"}, by : Requests]
           e == [id |-> id, kind |-> kind, by |-> by]
           n == Len(events)
<1>1. events \in Seq(Event) /\ e \in Event
  BY DEF IInv, TypeOK
<1>2. e.id = id /\ e.kind = kind
  OBVIOUS
<1> HIDE DEF e, Event
<1>3. /\ n \in Nat /\ DOMAIN events = 1 .. n /\ DOMAIN events' = 1 .. n + 1
      /\ \A k \in 1 .. n : events'[k] = events[k]
      /\ events'[n + 1] = e
  BY <1>1 DEF e
<1> HIDE DEF n
<1>4. ASSUME NEW k
      PROVE  k \in audited(i)' <=> (k \in audited(i) \/ (k = n + 1 /\ id = i /\ kind = "transition"))
  <2>1. k \in 1 .. n + 1 <=> k \in 1 .. n \/ k = n + 1
    BY <1>3
  <2>2. n + 1 \notin 1 .. n
    BY <1>3
  <2> QED
    BY <1>2, <1>3, <2>1, <2>2 DEF audited
<1>5. n + 1 \notin audited(i)
  BY <1>3 DEF audited
<1> QED
  BY <1>4, <1>5 DEF n

\* A transition is late from its update to its event.
LEMMA LateStep ==
  ASSUME IInv, \A q \in Requests : Routed(q),
         NEW r \in Requests, Arrive(r) \/ ContextEnds(r) \/ Serve(r), NEW i
  PROVE  late(i)' = IF pc[r] = "update" /\ pc'[r] = "audit" /\ req[r].id = i
                    THEN late(i) \cup {r}
                    ELSE IF pc[r] = "audit" /\ pc'[r] = "done" THEN late(i) \ {r}
                    ELSE late(i)
<1>1. \A s : s \in late(i) <=> /\ s \in Requests /\ req[s].kind = "transition"
                               /\ req[s].id = i /\ pc[s] = "audit"
  BY DEF late, moversOf, committed
<1>2. \A s : s \in late(i)' <=> /\ s \in Requests /\ req'[s].kind = "transition"
                                /\ req'[s].id = i /\ pc'[s] = "audit"
  BY DEF late, moversOf, committed
<1>3. \A s \in Requests : s # r => (s \in late(i)' <=> s \in late(i))
  BY <1>1, <1>2, OthersUntouched
<1>4. r \in late(i)' <=> \/ pc[r] = "update" /\ pc'[r] = "audit" /\ req[r].id = i
                         \/ r \in late(i) /\ ~ (pc[r] = "audit" /\ pc'[r] = "done")
  <2>1. CASE Arrive(r)
    <3>1. PICK input \in Input : goto(r, IF input.kind = "create" THEN "new_id" ELSE "get")
      BY <2>1 DEF Arrive
    <3>2. pc[r] = "idle" /\ pc'[r] \in {"new_id", "get"}
      BY <2>1, <3>1 DEF Arrive, goto, IInv, TypeOK
    <3> QED
      BY <1>1, <1>2, <3>2
  <2>2. CASE ContextEnds(r)
    BY <1>1, <1>2, <2>2 DEF ContextEnds
  <2>3. CASE Serve(r)
    <3>1. Routed(r)
      OBVIOUS
    <3>2. \/ pc[r] # "audit" /\ pc'[r] # "audit"
          \/ pc[r] = "put" /\ pc'[r] = "audit" /\ req' = req
          \/ pc[r] = "update" /\ pc'[r] = "audit" /\ req' = req
          \/ pc[r] = "audit" /\ pc'[r] = "done"
      BY <2>3, ServeStep DEF failed
    <3> QED
      BY <1>1, <1>2, <3>1, <3>2 DEF Routed
  <2> QED
    BY <2>1, <2>2, <2>3
<1>5. ASSUME NEW s
      PROVE  s \in late(i)' <=>
               s \in IF pc[r] = "update" /\ pc'[r] = "audit" /\ req[r].id = i
                     THEN late(i) \cup {r}
                     ELSE IF pc[r] = "audit" /\ pc'[r] = "done" THEN late(i) \ {r}
                     ELSE late(i)
  BY <1>1, <1>2, <1>3, <1>4
<1> QED
  BY <1>5

LEMMA InitCountInv == Init => CountInv
<1> SUFFICES ASSUME Init PROVE CountInv
  OBVIOUS
<1>1. DOMAIN items = {} /\ DOMAIN events = {}
  BY DEF Init
<1>2. \A r \in Requests : Routed(r)
  BY DEF Init, Routed, committed, NoRequest
<1> QED
  BY <1>1, <1>2 DEF CountInv

LEMMA CountInvStep ==
  ASSUME IInv, IInv', CountInv, NEW r \in Requests, Arrive(r) \/ ContextEnds(r) \/ Serve(r)
  PROVE  CountInv'
<1> DEFINE audits == pc[r] = "audit" /\ pc'[r] = "done"
           n(i) == Cardinality(audited(i))
           m(i) == Cardinality(late(i))
           Sum(i) == /\ IsFiniteSet(late(i))
                     /\ items[i].rev = 1 + n(i) + m(i)
<1>1. \A q \in Requests : Routed(q) /\ Routed(q)'
  BY RoutedStep DEF CountInv
<1>2. DOMAIN items \subseteq DOMAIN items'
  BY ItemsStep
<1>3. ASSUME audits
      PROVE  /\ events' = Append(events, [id |-> req[r].id, kind |-> req[r].kind, by |-> r])
             /\ items' = items /\ req[r].id \in Nat /\ req[r].kind \in {"create", "transition"}
             /\ req[r].kind = "transition" => req[r].id \in DOMAIN items
  <2>1. Serve(r) /\ Routed(r)
    BY <1>1, <1>3 DEF Arrive, ContextEnds, goto, IInv, TypeOK
  <2> QED
    BY <1>3, <2>1, ServeStep DEF failed, Routed, committed, IInv, TypeOK, Request
<1>4. ASSUME NEW k \in DOMAIN events', events'[k].kind = "transition"
      PROVE  events'[k].id \in DOMAIN items'
  <2>1. CASE ~ audits
    BY <1>2, <1>4, <2>1, ItemsStep DEF CountInv
  <2>2. CASE audits
    <3>1. PICK i : i = events'[k].id
      OBVIOUS
    <3>2. k \in audited(i)'
      BY <1>4, <3>1 DEF audited
    <3>3. CASE k \in audited(i)
      BY <1>2, <3>1, <3>3 DEF audited, CountInv
    <3>4. CASE k \notin audited(i)
      BY <1>2, <1>3, <2>2, <3>1, <3>2, <3>4, AuditedGrows
    <3> QED
      BY <3>3, <3>4
  <2> QED
    BY <2>1, <2>2
<1>5. ASSUME NEW i \in DOMAIN items' PROVE Sum(i)'
  <2>1. CASE i \notin DOMAIN items
    <3>1. /\ items'[i].rev = 1
      <4>1. Serve(r)
        BY <2>1 DEF Arrive, ContextEnds
      <4>2. pc[r] = "put" /\ items'[i] = record[r]
        BY <2>1, <4>1, ServeStep DEF failed
      <4> QED
        BY <1>1, <4>2 DEF Routed, NewRecord
    <3>2. audited(i)' = {}
      <4>1. ~ audits
        BY <1>3, <2>1
      <4>2. events' = events
        BY <4>1, ItemsStep
      <4> QED
        BY <2>1, <4>2 DEF audited, CountInv
    <3>3. late(i)' = {}
      <4>1. late(i) = {} /\ (pc[r] = "update" => req[r].id # i)
        BY <1>1, <2>1 DEF late, moversOf, Routed, IInv, Judged
      <4> QED
        BY <1>1, <4>1, LateStep
    <3> QED
      BY <3>1, <3>2, <3>3, FS_EmptySet
  <2>2. CASE i \in DOMAIN items
    <3>1. /\ IsFiniteSet(late(i)) /\ m(i) \in Nat /\ n(i) \in Nat /\ IsFiniteSet(audited(i))
          /\ items[i].rev = 1 + n(i) + m(i)
      BY <2>2, AuditedFinite, FS_CardinalityType DEF CountInv
    <3>2. CASE pc[r] = "update" /\ pc'[r] = "audit" /\ req[r].id = i
      <4>1. Serve(r)
        BY <3>2 DEF Arrive, ContextEnds, goto, IInv, TypeOK
      <4>2. items'[i] = [record[r] EXCEPT !.rev = items[i].rev + 1] /\ events' = events
        BY <2>2, <3>2, <4>1, ServeStep DEF failed
      <4>3. items'[i].rev = items[i].rev + 1
        BY <4>2 DEF IInv, TypeOK, OpsRecord
      <4>4. late(i)' = late(i) \cup {r} /\ r \notin late(i)
        BY <1>1, <3>2, LateStep DEF late
      <4>5. IsFiniteSet(late(i)') /\ Cardinality(late(i)') = m(i) + 1
        BY <3>1, <4>4, FS_AddElement
      <4>6. audited(i)' = audited(i)
        BY <4>2 DEF audited
      <4> HIDE DEF n, m
      <4>7. n(i)' = n(i) /\ m(i)' = m(i) + 1
        BY <4>5, <4>6 DEF n, m
      <4> QED
        BY <3>1, <4>3, <4>5, <4>7
    <3>3. CASE audits /\ req[r].id = i /\ req[r].kind = "transition"
      <4>1. items' = items /\ late(i)' = late(i) \ {r} /\ r \in late(i)
        <5>1. late(i)' = late(i) \ {r}
          BY <1>1, <3>3, LateStep
        <5>2. r \in late(i)
          BY <3>3 DEF late, moversOf, committed
        <5> QED
          BY <1>3, <3>3, <5>1, <5>2
      <4>2. audited(i)' = audited(i) \cup {Len(events) + 1} /\ Len(events) + 1 \notin audited(i)
        BY <1>3, <3>3, AuditedGrows
      <4>3. IsFiniteSet(late(i)') /\ Cardinality(late(i)') = m(i) - 1
        BY <3>1, <4>1, FS_RemoveElement
      <4>4. Cardinality(audited(i)') = n(i) + 1
        BY <3>1, <4>2, FS_AddElement
      <4> HIDE DEF n, m
      <4>5. n(i)' = n(i) + 1 /\ m(i)' = m(i) - 1
        BY <4>3, <4>4 DEF n, m
      <4> QED
        BY <3>1, <4>1, <4>3, <4>5
    <3>4. CASE audits /\ ~ (req[r].id = i /\ req[r].kind = "transition")
      <4>1. items' = items /\ late(i)' = late(i)
        <5>1. late(i)' = late(i) \ {r}
          BY <1>1, <3>4, LateStep
        <5>2. r \notin late(i)
          BY <3>4 DEF late, moversOf, committed
        <5> QED
          BY <1>3, <3>4, <5>1, <5>2
      <4>2. audited(i)' = audited(i)
        BY <1>3, <3>4, AuditedGrows
      <4> QED
        BY <3>1, <4>1, <4>2
    <3>5. CASE ~ audits /\ ~ (pc[r] = "update" /\ pc'[r] = "audit" /\ req[r].id = i)
      <4>1. late(i)' = late(i) /\ audited(i)' = audited(i)
        BY <1>1, <3>5, LateStep, ItemsStep DEF audited
      <4>2. items'[i] = items[i]
        BY <2>2, <3>5, ServeStep DEF failed, Arrive, ContextEnds
      <4> QED
        BY <3>1, <4>1, <4>2
    <3> QED
      BY <3>2, <3>3, <3>4, <3>5
  <2> QED
    BY <2>1, <2>2
<1> QED
  BY <1>1, <1>4, <1>5 DEF CountInv

LEMMA CountInvariant == Spec => []CountInv
<1>1. IInv /\ IInv' /\ CountInv /\ [Next]_vars => CountInv'
  <2> SUFFICES ASSUME IInv, IInv', CountInv, [Next]_vars PROVE CountInv'
    OBVIOUS
  <2>1. CASE UNCHANGED vars
    <3>1. \A i : audited(i)' = audited(i) /\ late(i)' = late(i)
      BY <2>1 DEF vars, audited, late, moversOf, committed
    <3>2. \A r \in Requests : Routed(r)'
      BY <2>1 DEF vars, CountInv, Routed, committed
    <3> QED
      BY <2>1, <3>1, <3>2 DEF vars, CountInv
  <2>2. CASE Next
    BY <2>2, CountInvStep DEF Next
  <2> QED
    BY <2>1, <2>2
<1> QED
  BY <1>1, InitIInv, NextIInv, InitCountInv, PTL DEF Spec

\* Every revision of a record after its first is an accepted transition that has
\* one event in the audit trail or is about to get it: no write is lost or counted
\* twice, with a revision or without (ops_store.go:65-84, ops_service.go:76-96).
THEOREM RevisionsAreAudited == Spec => []RevisionCountsAudit
<1>1. CountInv => RevisionCountsAudit
  BY DEF CountInv, RevisionCountsAudit, audited, late
<1> QED
  BY <1>1, CountInvariant, PTL

------------------------------------------------------------------------------
(* The history of the state machine.                                       *)

\* leadTo and HistoryReplays, of any sequence of entries h.
Leads(h, ks, status) ==
  \/ ks = {} /\ status = "queued"
  \/ \E last \in ks : (\A k \in ks : k <= last) /\ h[last].to = status

Replayed(h, ks, status) ==
  /\ \A k \in ks : Leads(h, {m \in ks : m < k}, h[k].from)
  /\ Leads(h, ks, status)

allGuarded(i) == \A q \in moversOf(i) : guarded(q)

\* A request leaves at most one entry, by its Move.
Entered(r) ==
  /\ \A k \in DOMAIN history : history[k].by = r => pc[r] \in {"update", "audit", "done"}
  /\ \A k, m \in DOMAIN history : history[k].by = r /\ history[m].by = r => k = m

\* While the record has the revision that was read, the entry of a request before its
\* update comes after those of the record's transitions and goes on where they end.
Continues(r) ==
  pc[r] = "update" /\ record[r].rev = items[req[r].id].rev /\ allGuarded(req[r].id) =>
    /\ \A k \in DOMAIN history : history[k].by = r =>
         /\ history[k].from = items[req[r].id].status
         /\ history[k].to = record[r].status
         /\ \A m \in entriesOf(req[r].id) : m < k
    /\ (\A k \in DOMAIN history : history[k].by # r) =>
         record[r].status = items[req[r].id].status

ReplayInv ==
  /\ \A r \in Requests : Entered(r) /\ Continues(r)
  /\ \A i \in DOMAIN items :
       allGuarded(i) => Replayed(history, entriesOf(i), items[i].status)

\* A replay depends on the entries it speaks of only.
LEMMA ReplayKept ==
  ASSUME NEW h, NEW g, NEW ks, \A k \in ks : g[k] = h[k], NEW status
  PROVE  Replayed(h, ks, status) => Replayed(g, ks, status)
<1>1. \A js \in SUBSET ks : \A st : Leads(h, js, st) => Leads(g, js, st)
  BY DEF Leads
<1>2. \A k \in ks : {m \in ks : m < k} \in SUBSET ks
  OBVIOUS
<1> QED
  BY <1>1, <1>2 DEF Replayed

\* A later entry that begins where the replay ends prolongs it.
LEMMA ReplayProlonged ==
  ASSUME NEW h, NEW ks \in SUBSET Nat, NEW e \in Nat, \A k \in ks : k < e,
         NEW status, Replayed(h, ks, status), h[e].from = status
  PROVE  Replayed(h, ks \cup {e}, h[e].to)
<1>1. {m \in ks \cup {e} : m < e} = ks
  <2>1. ~ e < e
    OBVIOUS
  <2>2. \A m : m \in {n \in ks \cup {e} : n < e} <=> m \in ks
    BY <2>1
  <2> QED
    BY <2>2
<1>2. ASSUME NEW k \in ks PROVE {m \in ks \cup {e} : m < k} = {m \in ks : m < k}
  <2>1. k \in Nat /\ k < e
    OBVIOUS
  <2>2. ~ e < k
    BY <2>1
  <2>3. \A m : m \in {n \in ks \cup {e} : n < k} <=> m \in {n \in ks : n < k}
    BY <2>2
  <2> QED
    BY <2>3
<1>3. Leads(h, ks \cup {e}, h[e].to)
  BY DEF Leads
<1> QED
  BY <1>1, <1>2, <1>3 DEF Replayed

LEMMA MoversStep ==
  ASSUME IInv, CountInv, NEW r \in Requests, Arrive(r) \/ ContextEnds(r) \/ Serve(r), NEW i
  PROVE  /\ moversOf(i)' = IF pc[r] = "update" /\ pc'[r] = "audit" /\ req[r].id = i
                           THEN moversOf(i) \cup {r} ELSE moversOf(i)
         /\ allGuarded(i)' => allGuarded(i)
<1>1. \A s \in Requests :
        /\ committed(s) => committed(s)' /\ req'[s] = req[s]
        /\ committed(s)' /\ ~ committed(s) => s = r /\ pc[r] = "update" /\ pc'[r] = "audit"
  BY CommitStep DEF CountInv
<1>2. pc[r] = "update" /\ pc'[r] = "audit" => req'[r] = req[r] /\ committed(r)'
  <2> SUFFICES ASSUME pc[r] = "update", pc'[r] = "audit"
               PROVE  req'[r] = req[r] /\ committed(r)'
    OBVIOUS
  <2>1. req'[r] = req[r]
    BY ServeStep DEF failed, Arrive, ContextEnds
  <2>2. req[r].kind = "transition"
    BY DEF CountInv, Routed
  <2> QED
    BY <2>1, <2>2 DEF committed
<1>3. ASSUME NEW s
      PROVE  s \in moversOf(i)' <=>
               \/ s \in moversOf(i)
               \/ s = r /\ pc[r] = "update" /\ pc'[r] = "audit" /\ req[r].id = i
  BY <1>1, <1>2 DEF moversOf
<1>4. \A s \in moversOf(i) : s \in moversOf(i)' /\ req'[s] = req[s]
  BY <1>1, <1>3 DEF moversOf
<1>5. allGuarded(i)' => allGuarded(i)
  BY <1>4 DEF allGuarded, guarded
<1> QED
  BY <1>3, <1>5

\* The history grows by at most the entry of the request that moves.
LEMMA HistoryStep ==
  ASSUME IInv, NEW r \in Requests, Arrive(r) \/ ContextEnds(r) \/ Serve(r)
  PROVE  /\ Len(history) \in Nat /\ DOMAIN history = 1 .. Len(history)
         /\ \A k \in DOMAIN history : k \in DOMAIN history' /\ history'[k] = history[k]
         /\ \A k \in DOMAIN history' \ DOMAIN history :
              /\ k = Len(history) + 1 /\ pc[r] = "move" /\ pc'[r] = "update"
              /\ record[r].status # req[r].target
              /\ history'[k] = [from |-> record[r].status, to |-> req[r].target, by |-> r]
         /\ pc[r] = "move" /\ pc'[r] = "update" /\ record[r].status # req[r].target =>
              Len(history) + 1 \in DOMAIN history' \ DOMAIN history
<1> DEFINE Entry == [from : OpsStatus, to : OpsStatus, by : Requests]
           e == [from |-> record[r].status, to |-> req[r].target, by |-> r]
<1>1. /\ history \in Seq(Entry) /\ e \in Entry
  BY DEF IInv, TypeOK, OpsRecord, Request
<1> HIDE DEF e, Entry
<1>2. Len(history) \in Nat /\ DOMAIN history = 1 .. Len(history)
  BY <1>1
<1>3. CASE /\ history' = history
           /\ ~ (pc[r] = "move" /\ pc'[r] = "update" /\ record[r].status # req[r].target)
  BY <1>2, <1>3
<1>4. CASE /\ history' = Append(history, e) /\ pc[r] = "move" /\ pc'[r] = "update"
           /\ record[r].status # req[r].target
  <2>1. /\ DOMAIN history' = 1 .. Len(history) + 1
        /\ \A k \in 1 .. Len(history) : history'[k] = history[k]
        /\ history'[Len(history) + 1] = e
    BY <1>1, <1>4
  <2>2. \A k \in 1 .. Len(history) + 1 : k \in 1 .. Len(history) \/ k = Len(history) + 1
    BY <1>2
  <2>3. \A k \in 1 .. Len(history) : k \in 1 .. Len(history) + 1
    BY <1>2
  <2>4. /\ Len(history) + 1 \in 1 .. Len(history) + 1
        /\ Len(history) + 1 \notin 1 .. Len(history)
    BY <1>2
  <2> QED
    BY <1>2, <1>4, <2>1, <2>2, <2>3, <2>4 DEF e
<1> QED
  BY <1>3, <1>4, ServeStep DEF failed, Arrive, ContextEnds, e

\* A transition brings its entry, if it has one, into the life of its record.
LEMMA EntriesStep ==
  ASSUME IInv, CountInv, NEW r \in Requests, Arrive(r) \/ ContextEnds(r) \/ Serve(r), NEW i
  PROVE  entriesOf(i)' = IF pc[r] = "update" /\ pc'[r] = "audit" /\ req[r].id = i
                         THEN entriesOf(i) \cup {k \in DOMAIN history : history[k].by = r}
                         ELSE entriesOf(i)
<1> DEFINE commits == pc[r] = "update" /\ pc'[r] = "audit" /\ req[r].id = i
<1>1. moversOf(i)' = IF commits THEN moversOf(i) \cup {r} ELSE moversOf(i)
  BY MoversStep
<1>2. \A k \in DOMAIN history : k \in DOMAIN history' /\ history'[k] = history[k]
  BY HistoryStep
<1>3. ASSUME NEW k \in DOMAIN history' \ DOMAIN history PROVE k \notin entriesOf(i)' /\ ~ commits
  <2>1. history'[k].by = r /\ pc[r] = "move"
    BY <1>3, HistoryStep
  <2>2. r \notin moversOf(i)
    BY <2>1 DEF moversOf, committed, CountInv, Routed
  <2> QED
    BY <1>1, <2>1, <2>2 DEF entriesOf
<1>4. ASSUME NEW k
      PROVE  k \in entriesOf(i)' <=>
               k \in IF commits
                     THEN entriesOf(i) \cup {j \in DOMAIN history : history[j].by = r}
                     ELSE entriesOf(i)
  <2> HIDE DEF commits
  <2>1. CASE k \in DOMAIN history
    BY <1>1, <1>2, <2>1 DEF entriesOf
  <2>2. CASE k \notin DOMAIN history
    BY <1>3, <2>2 DEF entriesOf
  <2> QED
    BY <2>1, <2>2
<1> QED
  BY <1>4

LEMMA EnteredStep ==
  ASSUME IInv, ReplayInv, NEW r \in Requests, Arrive(r) \/ ContextEnds(r) \/ Serve(r),
         NEW s \in Requests
  PROVE  Entered(s)'
<1>1. Entered(s)
  BY DEF ReplayInv
<1>2. \A k \in DOMAIN history : k \in DOMAIN history' /\ history'[k] = history[k]
  BY HistoryStep
<1>3. ASSUME NEW k \in DOMAIN history', history'[k].by = s, k \notin DOMAIN history
      PROVE  s = r /\ k = Len(history) + 1 /\ pc[r] = "move" /\ pc'[r] = "update"
  BY <1>3, HistoryStep
<1>4. pc[s] \in {"update", "audit", "done"} => pc'[s] \in {"update", "audit", "done"}
  <2>1. CASE s # r
    BY <2>1, OthersUntouched
  <2>2. CASE s = r /\ Serve(r)
    BY <2>2, ServeStep DEF failed
  <2>3. CASE s = r /\ (Arrive(r) \/ ContextEnds(r))
    BY <2>3 DEF Arrive, ContextEnds
  <2> QED
    BY <2>1, <2>2, <2>3
<1>5. \A k \in DOMAIN history' : history'[k].by = s => pc'[s] \in {"update", "audit", "done"}
  BY <1>1, <1>2, <1>3, <1>4 DEF Entered
<1>6. \A k, m \in DOMAIN history' : history'[k].by = s /\ history'[m].by = s => k = m
  <2>1. CASE pc[s] = "move"
    BY <1>1, <1>2, <1>3, <2>1 DEF Entered
  <2>2. CASE pc[s] # "move"
    BY <1>1, <1>2, <1>3, <2>2 DEF Entered
  <2> QED
    BY <2>1, <2>2
<1> QED
  BY <1>5, <1>6 DEF Entered

\* The record that a request has read is written by updates only, which raise its
\* revision.
LEMMA RecordStep ==
  ASSUME IInv, NEW r \in Requests, Arrive(r) \/ ContextEnds(r) \/ Serve(r),
         NEW i \in DOMAIN items
  PROVE  \/ items'[i] = items[i] /\ ~ (pc[r] = "update" /\ pc'[r] = "audit" /\ req[r].id = i)
         \/ /\ pc[r] = "update" /\ pc'[r] = "audit" /\ req[r].id = i
            /\ guarded(r) => req[r].expected = items[i].rev
            /\ items'[i].status = record[r].status /\ items'[i].rev = items[i].rev + 1
            /\ history' = history
<1>1. CASE Arrive(r) \/ ContextEnds(r)
  BY <1>1 DEF Arrive, ContextEnds, goto, IInv, TypeOK
<1>2. CASE Serve(r)
  <2>1. CASE pc[r] = "update" /\ pc'[r] = "audit" /\ req[r].id = i
    <3>1. /\ guarded(r) => req[r].expected = items[i].rev
          /\ items'[i] = [record[r] EXCEPT !.rev = items[i].rev + 1]
          /\ history' = history
      BY <1>2, <2>1, ServeStep DEF failed
    <3>2. record[r] \in OpsRecord
      BY DEF IInv, TypeOK
    <3> QED
      BY <2>1, <3>1, <3>2 DEF OpsRecord
  <2>2. CASE ~ (pc[r] = "update" /\ pc'[r] = "audit" /\ req[r].id = i)
    BY <1>2, <2>2, ServeStep DEF failed
  <2> QED
    BY <2>1, <2>2
<1> QED
  BY <1>1, <1>2

LEMMA ContinuesStep ==
  ASSUME IInv, CountInv, ReplayInv,
         NEW r \in Requests, Arrive(r) \/ ContextEnds(r) \/ Serve(r), NEW s \in Requests
  PROVE  Continues(s)'
<1>1. SUFFICES ASSUME NEW i, i = req'[s].id, pc'[s] = "update",
                      record'[s].rev = items'[i].rev, allGuarded(i)'
               PROVE  /\ \A k \in DOMAIN history' : history'[k].by = s =>
                           /\ history'[k].from = items'[i].status
                           /\ history'[k].to = record'[s].status
                           /\ \A m \in entriesOf(i)' : m < k
                      /\ (\A k \in DOMAIN history' : history'[k].by # s) =>
                           record'[s].status = items'[i].status
  BY DEF Continues
<1>2. /\ \A k \in DOMAIN history : k \in DOMAIN history' /\ history'[k] = history[k]
      /\ DOMAIN history = 1 .. Len(history) /\ Len(history) \in Nat
  BY HistoryStep
<1>3. allGuarded(i) /\ entriesOf(i) \subseteq DOMAIN history
  BY <1>1, MoversStep DEF entriesOf
<1>4. CASE s # r
  <2>1. pc[s] = "update" /\ req[s].id = i /\ record'[s] = record[s]
    BY <1>1, <1>4, OthersUntouched
  <2>2. i \in DOMAIN items /\ record[s].rev <= items[i].rev /\ items[i].rev \in Nat
    BY <2>1 DEF IInv, Judged, TypeOK, OpsRecord
  <2>3. items'[i] = items[i] /\ ~ (pc[r] = "update" /\ pc'[r] = "audit" /\ req[r].id = i)
    <3>1. items'[i].rev # items[i].rev + 1
      <4>1. record[s].rev \in Nat /\ record[s].rev = items'[i].rev
        BY <1>1, <2>1 DEF IInv, TypeOK, OpsRecord
      <4> QED
        BY <2>2, <4>1
    <3> QED
      BY <2>2, <3>1, RecordStep
  <2>4. entriesOf(i)' = entriesOf(i)
    BY <2>3, EntriesStep
  <2>5. \A k \in DOMAIN history' : history'[k].by = s => k \in DOMAIN history
    BY <1>4, HistoryStep
  <2>6. record[s].rev = items[i].rev
    BY <1>1, <2>1, <2>3
  <2>7. /\ \A k \in DOMAIN history : history[k].by = s =>
             /\ history[k].from = items[i].status /\ history[k].to = record[s].status
             /\ \A m \in entriesOf(i) : m < k
        /\ (\A k \in DOMAIN history : history[k].by # s) => record[s].status = items[i].status
    BY <1>3, <2>1, <2>6 DEF ReplayInv, Continues
  <2> QED
    BY <1>2, <2>1, <2>3, <2>4, <2>5, <2>7
<1>5. CASE s = r /\ ContextEnds(r)
  <2>1. UNCHANGED << items, history, pc, req, record, reply >>
    BY <1>5 DEF ContextEnds
  <2>2. entriesOf(i)' = entriesOf(i)
    BY <2>1 DEF entriesOf, moversOf, committed
  <2> QED
    BY <1>1, <1>3, <1>5, <2>1, <2>2 DEF ReplayInv, Continues
<1>6. CASE s = r /\ Arrive(r)
  <2>1. PICK input \in Input : goto(r, IF input.kind = "create" THEN "new_id" ELSE "get")
    BY <1>6 DEF Arrive
  <2>2. pc'[r] # "update"
    BY <2>1 DEF goto, IInv, TypeOK
  <2> QED
    BY <1>1, <1>6, <2>2
<1>7. CASE s = r /\ Serve(r)
  <2>1. /\ pc[r] = "move" /\ pc'[r] = "update"
        /\ history' = IF record[r].status = req[r].target THEN history
                      ELSE Append(history, [from |-> record[r].status,
                                            to |-> req[r].target, by |-> r])
        /\ record' = [record EXCEPT ![r].status = req[r].target]
        /\ items' = items /\ req' = req
    BY <1>1, <1>7, ServeStep DEF failed
  <2>2. record'[r].rev = record[r].rev /\ record'[r].status = req[r].target
    BY <2>1 DEF IInv, TypeOK, OpsRecord
  <2>3. record[r].status = items[i].status
    BY <1>1, <1>7, <2>1, <2>2 DEF IInv, Judged
  <2>4. entriesOf(i)' = entriesOf(i)
    BY <2>1, EntriesStep
  <2>5. \A k \in DOMAIN history : history[k].by # r
    BY <2>1 DEF ReplayInv, Entered
  <2>6. CASE record[r].status = req[r].target
    BY <1>7, <2>1, <2>2, <2>3, <2>5, <2>6
  <2>7. CASE record[r].status # req[r].target
    <3>1. ASSUME NEW k \in DOMAIN history', history'[k].by = r
          PROVE  /\ history'[k].from = items'[i].status /\ history'[k].to = record'[r].status
                 /\ \A m \in entriesOf(i)' : m < k
      <4>1. k \notin DOMAIN history
        BY <1>2, <2>5, <3>1
      <4>2. /\ k = Len(history) + 1
            /\ history'[k] = [from |-> record[r].status, to |-> req[r].target, by |-> r]
        BY <4>1, HistoryStep
      <4>3. \A m \in entriesOf(i) : m < k
        BY <1>2, <1>3, <4>2
      <4> QED
        BY <2>1, <2>2, <2>3, <2>4, <4>2, <4>3
    <3>2. Len(history) + 1 \in DOMAIN history' /\ history'[Len(history) + 1].by = r
      BY <2>1, <2>7, HistoryStep
    <3> QED
      BY <1>7, <3>1, <3>2
  <2> QED
    BY <2>6, <2>7
<1> QED
  BY <1>4, <1>5, <1>6, <1>7

LEMMA ReplaysStep ==
  ASSUME IInv, CountInv, ReplayInv,
         NEW r \in Requests, Arrive(r) \/ ContextEnds(r) \/ Serve(r),
         NEW i \in DOMAIN items', allGuarded(i)'
  PROVE  Replayed(history', entriesOf(i)', items'[i].status)
<1>1. /\ \A k \in DOMAIN history : k \in DOMAIN history' /\ history'[k] = history[k]
      /\ DOMAIN history = 1 .. Len(history) /\ Len(history) \in Nat
  BY HistoryStep
<1>2. allGuarded(i) /\ entriesOf(i) \subseteq DOMAIN history
  BY MoversStep DEF entriesOf
<1>3. CASE i \notin DOMAIN items
  <2>1. items'[i].status = "queued"
    <3>1. Serve(r)
      BY <1>3 DEF Arrive, ContextEnds
    <3>2. pc[r] = "put" /\ items'[i] = record[r] /\ Routed(r)
      BY <1>3, <3>1, ServeStep DEF failed, CountInv
    <3> QED
      BY <3>2 DEF Routed, NewRecord
  <2>2. entriesOf(i)' = {}
    <3>1. moversOf(i) = {} /\ (pc[r] = "update" => req[r].id # i)
      BY <1>3 DEF moversOf, CountInv, Routed, IInv, Judged
    <3>2. entriesOf(i) = {}
      BY <3>1 DEF entriesOf
    <3> QED
      BY <3>1, <3>2, EntriesStep
  <2> QED
    BY <2>1, <2>2 DEF Replayed, Leads
<1>4. CASE i \in DOMAIN items
  <2>1. Replayed(history, entriesOf(i), items[i].status)
    BY <1>2, <1>4 DEF ReplayInv
  <2>2. CASE items'[i] = items[i] /\ ~ (pc[r] = "update" /\ pc'[r] = "audit" /\ req[r].id = i)
    <3>1. entriesOf(i)' = entriesOf(i)
      BY <2>2, EntriesStep
    <3>2. \A k \in entriesOf(i) : history'[k] = history[k]
      BY <1>1, <1>2
    <3>3. Replayed(history', entriesOf(i), items[i].status)
      BY <2>1, <3>2, ReplayKept
    <3> QED
      BY <2>2, <3>1, <3>3
  <2>3. CASE /\ pc[r] = "update" /\ pc'[r] = "audit" /\ req[r].id = i
             /\ guarded(r) => req[r].expected = items[i].rev
             /\ items'[i].status = record[r].status
             /\ history' = history
    <3>1. guarded(r)
      <4>1. r \in moversOf(i)'
        BY <2>3, MoversStep
      <4>2. req'[r] = req[r]
        BY <2>3, ServeStep DEF failed, Arrive, ContextEnds
      <4> QED
        BY <4>1, <4>2 DEF allGuarded, guarded
    <3>2. record[r].rev = items[req[r].id].rev
      BY <2>3, <3>1 DEF IInv, Judged
    <3>3. Continues(r) /\ Entered(r)
      BY DEF ReplayInv
    <3>4. entriesOf(i)' = entriesOf(i) \cup {k \in DOMAIN history : history[k].by = r}
      BY <2>3, EntriesStep
    <3>5. CASE \A k \in DOMAIN history : history[k].by # r
      <4>1. entriesOf(i)' = entriesOf(i)
        BY <3>4, <3>5
      <4>2. record[r].status = items[i].status
        BY <1>2, <2>3, <3>2, <3>3, <3>5 DEF Continues
      <4> QED
        BY <2>1, <2>3, <4>1, <4>2
    <3>6. ASSUME NEW e \in DOMAIN history, history[e].by = r
          PROVE  Replayed(history', entriesOf(i)', items'[i].status)
      <4>1. {k \in DOMAIN history : history[k].by = r} = {e}
        BY <3>3, <3>6 DEF Entered
      <4>2. /\ history[e].from = items[i].status /\ history[e].to = record[r].status
            /\ \A m \in entriesOf(i) : m < e
        BY <1>2, <2>3, <3>2, <3>3, <3>6 DEF Continues
      <4>3. e \in Nat /\ entriesOf(i) \in SUBSET Nat
        BY <1>1, <1>2
      <4>4. Replayed(history, entriesOf(i) \cup {e}, history[e].to)
        BY <2>1, <4>2, <4>3, ReplayProlonged
      <4> QED
        BY <2>3, <3>4, <4>1, <4>2, <4>4
    <3> QED
      BY <3>5, <3>6
  <2> QED
    BY <1>4, <2>2, <2>3, RecordStep
<1> QED
  BY <1>3, <1>4

LEMMA ReplayInvariant == Spec => []ReplayInv
<1>1. Init => ReplayInv
  BY DEF Init, ReplayInv, Entered, Continues
<1>2. IInv /\ CountInv /\ ReplayInv /\ [Next]_vars => ReplayInv'
  <2> SUFFICES ASSUME IInv, CountInv, ReplayInv, [Next]_vars PROVE ReplayInv'
    OBVIOUS
  <2>1. CASE UNCHANGED vars
    <3>1. \A i : entriesOf(i)' = entriesOf(i) /\ (allGuarded(i)' <=> allGuarded(i))
      BY <2>1 DEF vars, entriesOf, allGuarded, moversOf, committed, guarded
    <3> QED
      BY <2>1, <3>1 DEF vars, ReplayInv, Entered, Continues
  <2>2. ASSUME NEW r \in Requests, Arrive(r) \/ ContextEnds(r) \/ Serve(r)
        PROVE  ReplayInv'
    <3>1. \A s \in Requests : Entered(s)' /\ Continues(s)'
      BY <2>2, EnteredStep, ContinuesStep
    <3>2. \A i \in DOMAIN items' :
            allGuarded(i)' => Replayed(history', entriesOf(i)', items'[i].status)
      BY <2>2, ReplaysStep
    <3> QED
      BY <3>1, <3>2 DEF ReplayInv
  <2> QED
    BY <2>1, <2>2 DEF Next
<1> QED
  BY <1>1, <1>2, InitIInv, NextIInv, CountInvariant, PTL DEF Spec

\* The entries of the accepted transitions are the life of the record, although the
\* machine records a move before the store has accepted it: among requests with a
\* revision, one that is refused or runs out of time leaves its entry where no
\* accepted one follows from it (ops_service.go:76-96, ops_state.go:31-42).
THEOREM HistoryIsReplayable == Spec => []HistoryReplays
<1>1. \A ks, status : leadTo(ks, status) <=> Leads(history, ks, status)
  BY DEF leadTo, Leads
<1>2. ReplayInv => HistoryReplays
  <2> SUFFICES ASSUME ReplayInv, NEW i \in DOMAIN items, \A r \in moversOf(i) : guarded(r)
               PROVE  /\ \A k \in entriesOf(i) :
                           leadTo({m \in entriesOf(i) : m < k}, history[k].from)
                      /\ leadTo(entriesOf(i), items[i].status)
    BY DEF HistoryReplays
  <2>1. Replayed(history, entriesOf(i), items[i].status)
    BY DEF ReplayInv, allGuarded
  <2> QED
    BY <2>1 DEF Replayed, leadTo, Leads
<1> QED
  BY <1>2, ReplayInvariant, PTL

==============================================================================
