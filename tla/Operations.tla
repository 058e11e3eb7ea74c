----------------------------- MODULE Operations -----------------------------
(***************************************************************************)
(* The operations records: ops_service.go with its store (ops_store.go),   *)
(* its state machine (ops_state.go) and its audit trail (ops_audit.go),    *)
(* called by the handlers of ops_http.go.                                  *)
(*                                                                         *)
(* A transition touches three objects that have a mutex each: it reads the *)
(* record from the store, asks the state machine, which appends the move   *)
(* to the service's history, writes the record back, and appends an event  *)
(* to the audit trail.  The move is in the history before the store has    *)
(* accepted the write; a write that is refused leaves it there.            *)
(*                                                                         *)
(* One action is one call on one of the three objects.  A definition named *)
(* Bug... is a deliberately wrong variant of one that follows; no          *)
(* specification uses it.                                                  *)
(***************************************************************************)
EXTENDS Integers, Sequences, FiniteSets

CONSTANTS
  Requests,     \* the requests that may arrive, each served once
  Ids,          \* the record ids a transition may name
  Expected      \* the values of the request's "expected" field

ASSUME OperationsAssumption ==
  /\ Ids \subseteq Nat
  /\ Expected \subseteq Int

VARIABLES
  items,        \* OpsStore.items
  history,      \* OpsStateMachine.history; `by' is the request, for the properties
  events,       \* OpsAudit.events; `by' stands for the actor
  sequence,     \* opsRecordSequence
  pc,           \* the call a request makes next
  req,          \* the request's decoded path and body
  record,       \* the handler's local record
  reply,        \* the response: "none" until decided, "ok", or an error
  ended         \* the requests whose context is done

vars == << items, history, events, sequence, pc, req, record, reply, ended >>

------------------------------------------------------------------------------

OpsStatus == {"queued", "active", "paused", "closed"}

opsTransitionTable ==
  [queued |-> {"active", "closed"}, active |-> {"paused", "closed"},
   paused |-> {"active", "closed"}, closed |-> {}]

canMove(from, to) == from = to \/ to \in opsTransitionTable[from]

OpsRecord == [status : OpsStatus, rev : Nat]
NewRecord == [status |-> "queued", rev |-> 1]

Error == {"ctx", "policy", "conflict", "not_found", "transition"}

\* A create whose owner, site label and priority may be missing, or a transition
\* of a record to a status the handler has validated.
Input ==
  [kind : {"create"}, id : {0}, expected : {0}, target : {"queued"}, complete : BOOLEAN]
  \cup [kind : {"transition"}, id : Ids, expected : Expected, target : OpsStatus,
        complete : {TRUE}]

Request ==
  [kind : {"create", "transition"}, id : Nat, expected : Int, target : OpsStatus,
   complete : BOOLEAN]

NoRequest ==
  [kind |-> "create", id |-> 0, expected |-> 0, target |-> "queued", complete |-> FALSE]

guarded(r) == req[r].expected > 0

Init ==
  /\ items = << >> /\ history = << >> /\ events = << >> /\ sequence = 0
  /\ pc = [r \in Requests |-> "idle"]
  /\ req = [r \in Requests |-> NoRequest]
  /\ record = [r \in Requests |-> NewRecord]
  /\ reply = [r \in Requests |-> "none"]
  /\ ended = {}

goto(r, label) == pc' = [pc EXCEPT ![r] = label]

Fail(r, err) ==
  /\ reply' = [reply EXCEPT ![r] = err]
  /\ goto(r, "done")
  /\ UNCHANGED << items, history, events, sequence, req, record, ended >>

live(r) == r \notin ended

------------------------------------------------------------------------------
(* The client and the clock.                                               *)

Arrive(r) ==
  /\ pc[r] = "idle"
  /\ \E input \in Input :
       /\ req' = [req EXCEPT ![r] = input]
       /\ goto(r, IF input.kind = "create" THEN "new_id" ELSE "get")
  /\ UNCHANGED << items, history, events, sequence, record, reply, ended >>

\* The client goes away, or the three seconds of opsContext have passed.
ContextEnds(r) ==
  /\ pc[r] \notin {"idle", "done"} /\ live(r)
  /\ ended' = ended \cup {r}
  /\ UNCHANGED << items, history, events, sequence, pc, req, record, reply >>

------------------------------------------------------------------------------
(* Create.                                                                 *)

\* Wrong: the number is read and not counted.
BugCounted == sequence

\* atomic.AddUint64(&opsRecordSequence, 1)
counted == sequence + 1

\* Create normalises the record, takes the next number and checks the policy; a
\* refused record has used up its number.
NewId(r) ==
  /\ pc[r] = "new_id"
  /\ sequence' = counted
  /\ req' = [req EXCEPT ![r].id = sequence + 1]
  /\ record' = [record EXCEPT ![r] = NewRecord]
  /\ \/ /\ req[r].complete
        /\ goto(r, "put") /\ UNCHANGED reply
     \/ /\ ~ req[r].complete
        /\ goto(r, "done") /\ reply' = [reply EXCEPT ![r] = "policy"]
  /\ UNCHANGED << items, history, events, ended >>

Put(r) ==
  /\ pc[r] = "put"
  /\ \/ ~ live(r) /\ Fail(r, "ctx")
     \/ live(r) /\ req[r].id \in DOMAIN items /\ Fail(r, "conflict")
     \/ /\ live(r) /\ req[r].id \notin DOMAIN items
        /\ items' = [i \in DOMAIN items \cup {req[r].id} |->
                       IF i = req[r].id THEN record[r] ELSE items[i]]
        /\ goto(r, "audit")
        /\ UNCHANGED << history, events, sequence, req, record, reply, ended >>

------------------------------------------------------------------------------
(* Transition.                                                             *)

\* Wrong: any revision is taken for the record's.
BugMatches(r, current) == TRUE

\* The revision the client sends, when it does, is the record's.
matches(r, current) == guarded(r) => req[r].expected = current.rev

\* The record is read and the client's revision, when there is one, compared.
Get(r) ==
  /\ pc[r] = "get"
  /\ LET i == req[r].id
     IN \/ ~ live(r) /\ Fail(r, "ctx")
        \/ live(r) /\ i \notin DOMAIN items /\ Fail(r, "not_found")
        \/ /\ live(r) /\ i \in DOMAIN items
           /\ ~ matches(r, items[i])
           /\ Fail(r, "conflict")
        \/ /\ live(r) /\ i \in DOMAIN items
           /\ matches(r, items[i])
           /\ record' = [record EXCEPT ![r] = items[i]]
           /\ goto(r, "move")
           /\ UNCHANGED << items, history, events, sequence, req, reply, ended >>

\* Wrong: every move is let through.
BugAllowed(from, to) == TRUE

allowed(from, to) == canMove(from, to)

\* The state machine judges the status that was read.  A move to the same status
\* is allowed and leaves no entry.
Move(r) ==
  /\ pc[r] = "move"
  /\ LET from == record[r].status
         to   == req[r].target
     IN \/ ~ allowed(from, to) /\ Fail(r, "transition")
        \/ /\ allowed(from, to)
           /\ history' = IF from = to THEN history
                                      ELSE Append(history, [from |-> from, to |-> to, by |-> r])
           /\ record' = [record EXCEPT ![r].status = to]
           /\ goto(r, "update")
           /\ UNCHANGED << items, events, sequence, req, reply, ended >>

\* The write, at a revision, that a successful update makes.
store(r, rev) ==
  /\ items' = [items EXCEPT ![req[r].id] = [record[r] EXCEPT !.rev = rev]]
  /\ goto(r, "audit")
  /\ UNCHANGED << history, events, sequence, req, record, reply, ended >>

\* Wrong: the revision follows that of the copy, not that of the record.
BugNextRev(r) == record[r].rev + 1

nextRev(r) == items[req[r].id].rev + 1

\* OpsStore.Update compares the revision again, under the lock.  Records are never
\* deleted, so it finds the record that Get found.
Update(r) ==
  /\ pc[r] = "update"
  /\ LET current == items[req[r].id]
     IN \/ ~ live(r) /\ Fail(r, "ctx")
        \/ live(r) /\ ~ matches(r, current) /\ Fail(r, "conflict")
        \/ live(r) /\ matches(r, current) /\ store(r, nextRev(r))

------------------------------------------------------------------------------

\* OpsAudit.Add, which looks at no context.
AuditAdd(r) ==
  /\ pc[r] = "audit"
  /\ events' = Append(events, [id |-> req[r].id, kind |-> req[r].kind, by |-> r])
  /\ reply' = [reply EXCEPT ![r] = "ok"]
  /\ goto(r, "done")
  /\ UNCHANGED << items, history, sequence, req, record, ended >>

Serve(r) == NewId(r) \/ Put(r) \/ Get(r) \/ Move(r) \/ Update(r) \/ AuditAdd(r)

Next == \E r \in Requests : Arrive(r) \/ ContextEnds(r) \/ Serve(r)

Spec == Init /\ [][Next]_vars

------------------------------------------------------------------------------
(* Properties.                                                             *)

TypeOK ==
  /\ DOMAIN items \subseteq 1 .. sequence
  /\ \A i \in DOMAIN items : items[i] \in OpsRecord
  /\ history \in Seq([from : OpsStatus, to : OpsStatus, by : Requests])
  /\ events \in Seq([id : Nat, kind : {"create", "transition"}, by : Requests])
  /\ sequence \in Nat
  /\ pc \in [Requests -> {"idle", "new_id", "put", "get", "move", "update", "audit", "done"}]
  /\ req \in [Requests -> Request]
  /\ record \in [Requests -> OpsRecord]
  /\ reply \in [Requests -> Error \cup {"none", "ok"}]
  /\ ended \subseteq Requests

\* The transitions the store has accepted.
committed(r) == req[r].kind = "transition" /\ (pc[r] = "audit" \/ reply[r] = "ok")

\* The requests that have moved record i.
moversOf(i) == {r \in Requests : committed(r) /\ req[r].id = i}

\* The entries of the history that the accepted transitions of record i left.
entriesOf(i) == {k \in DOMAIN history : history[k].by \in moversOf(i)}

\* The entries ks, in their order in the history, end at this status; a record
\* starts as queued.
leadTo(ks, status) ==
  \/ ks = {} /\ status = "queued"
  \/ \E last \in ks : (\A k \in ks : k <= last) /\ history[last].to = status

\* Without the entries of refused requests, the machine's history is the life of
\* the record: it starts at queued, every move begins where the one before it
\* ended, and it ends at the status in the store, however requests interleave
\* and wherever their contexts end.  Every client must send a revision.
HistoryReplays ==
  \A i \in DOMAIN items : (\A r \in moversOf(i) : guarded(r)) =>
    /\ \A k \in entriesOf(i) :
         leadTo({m \in entriesOf(i) : m < k}, history[k].from)
    /\ leadTo(entriesOf(i), items[i].status)

\* No accepted transition is lost to another, with a revision or without: the
\* revision has counted each of them, and each is audited once or about to be,
\* even when its client has gone away or its time is up.
RevisionCountsAudit ==
  \A i \in DOMAIN items :
    LET audited == {k \in DOMAIN events : events[k].id = i /\ events[k].kind = "transition"}
        late    == {r \in moversOf(i) : pc[r] = "audit"}
    IN items[i].rev = 1 + Cardinality(audited) + Cardinality(late)

\* A transition with a revision changes the record only by a legal move from the
\* status it has at that moment, and never reopens a closed record.
GuardedMovesLegal ==
  [][\A r \in Requests :
       pc[r] = "update" /\ pc'[r] = "audit" /\ guarded(r) =>
         /\ items[req[r].id].rev = req[r].expected
         /\ canMove(items[req[r].id].status, items'[req[r].id].status)]_vars

==============================================================================
