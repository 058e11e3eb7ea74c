----------------------------- MODULE ServerProofs -----------------------------
(***************************************************************************)
(* Theorems of Server!Spec, for any requests, operators, names and times.  *)
(*                                                                         *)
(* Two arguments that do not meet.  A session belongs to one login:        *)
(* between Draw and the response the number is only in the handler's local *)
(* variable, so the invariant (Login, Distinct) speaks of numbers that are *)
(* drawn, and of the table only through them.  And the counter holds the   *)
(* requests that are inside and those whose Add has panicked, while no     *)
(* request is on its way to it once Shutdown has found the connections     *)
(* quiet (Counted, Quieted).  Only a last Done that wipes the counter out  *)
(* ends this; it wipes out nobody unless an Add has panicked (LastDone),   *)
(* which takes a Shutdown that gave up.                                    *)
(***************************************************************************)
EXTENDS Server, FiniteSetTheorems, TLAPS

\* Where a request can be, by what it asks for.
Place(r) ==
  /\ pc[r] \in {"idle", "handle"} => ask[r].kind = "other"
  /\ pc[r] \in {"credentials", "issue", "number", "enter"} => ask[r].kind = "login"
  /\ pc[r] \in {"verify", "expiry"} => ask[r].kind = "me"
  /\ pc[r] \notin {"idle", "done"} => reply[r] = "none"
  /\ pc[r] = "idle" => reply[r] = "none" \/ (turnedAway(r) /\ stage[r] = "out")
  /\ stage[r] \in {"none", "accepted"} => pc[r] = "idle"
  /\ stage[r] \in {"inside", "last", "release"} => pc[r] # "idle"

\* A login that has its number, and one that has been let through before.
drawn(r) == pc[r] = "enter" \/ loggedIn(r)

Login(r) ==
  /\ pc[r] = "issue" => ask[r].username \in Operators
  /\ pc[r] = "number" \/ drawn(r) =>
       session[r].username \in Operators /\ session[r].expiresAt = session[r].issuedAt + Ttl
  /\ drawn(r) => session[r].token \in 1 .. sessionSequence
  /\ loggedIn(r) => session[r].token \in DOMAIN sessions

Distinct ==
  \A l, m \in Requests : drawn(l) /\ drawn(m) /\ session[l].token = session[m].token => l = m

\* The session s is the one that a login was answered with, and its number is t.
Owned(s, t) == \E l \in Requests : loggedIn(l) /\ session[l] = s /\ s.token = t

Table == \A t \in DOMAIN sessions : Owned(sessions[t], t)

Checked(r) == ask[r].kind = "me" /\ (pc[r] = "expiry" \/ reply[r] = "ok") =>
                Owned(session[r], ask[r].token)

\* The requests that the middleware has counted in and not out.
Inside == {r \in Requests : stage[r] = "inside"}
TurnedAway == {r \in Requests : turnedAway(r)}
Counting == Inside \cup TurnedAway

Counted ==
  /\ IsFiniteSet(Counting)
  /\ phase \in {"serving", "shutdown", "wait", "waiting"} \/ TurnedAway = {} =>
       inflight = Cardinality(Counting)

\* A Done that has left zero to a waiter is alone, and whoever was counted since has
\* followed one whose Add panicked.
LastDone ==
  /\ waiters # 0 => phase \in {"waiting", "stopped"}
  /\ \A r \in Requests : stage[r] \in {"last", "release"} =>
       /\ waiters = 1
       /\ Inside = {} \/ TurnedAway # {}
       /\ \A q \in Requests : stage[q] \in {"last", "release"} => q = r
  /\ TurnedAway # {} => gaveUp

Quieted ==
  phase \in {"wait", "waiting", "woken"} /\ ~ gaveUp => \A r \in Requests : stage[r] # "accepted"

SessionInv ==
  /\ \A r \in Requests : Place(r) /\ Login(r) /\ Checked(r)
  /\ Distinct /\ Table

IInv == TypeOK /\ SessionInv /\ Counted /\ LastDone /\ Quieted

------------------------------------------------------------------------------
(* Types.                                                                  *)

LEMMA Defaults == NoSession \in Session /\ NoAsk \in Ask /\ NoAsk.kind = "other" /\ NoAsk.username \in Operators
<1>1. (CHOOSE name \in Operators : TRUE) \in Operators
  BY SessionsAssumption
<1>2. (CHOOSE name \in Operators \cup Strangers : TRUE) \in Operators \cup Strangers
  BY SessionsAssumption
<1> QED
  BY <1>1, <1>2 DEF NoSession, Session, NoAsk, Ask

LEMMA InitIInv == Init => IInv
<1> SUFFICES ASSUME Init PROVE IInv
  OBVIOUS
<1> USE DEF Init, SessionsInit
<1>1. TypeOK
  <2>1. DOMAIN sessions = {}
    OBVIOUS
  <2>2. ask \in [Requests -> Ask] /\ session \in [Requests -> Session]
    BY Defaults
  <2>3. inflight \in Int /\ inflight \in Nat /\ waiters \in 0 .. 1 /\ now \in Nat /\ sessionSequence \in Nat
    OBVIOUS
  <2> QED
    BY <2>1, <2>2, <2>3 DEF TypeOK, Stage, Phase
<1>2. \A r \in Requests : ask[r].kind = "other" /\ pc[r] = "idle" /\ reply[r] = "none"
  BY Defaults
<1>3. SessionInv
  <2>1. \A r \in Requests : Place(r)
    <3>1. \A r \in Requests : stage[r] = "none"
      OBVIOUS
    <3> HIDE DEF Init, SessionsInit
    <3> QED
      BY <1>2, <3>1 DEF Place
  <2>2. \A r \in Requests : ~ drawn(r) /\ ~ loggedIn(r) /\ Login(r) /\ Checked(r)
    BY <1>2 DEF Login, Checked, drawn, loggedIn
  <2>3. Distinct /\ Table
    BY <2>2 DEF Distinct, Table
  <2> QED
    BY <2>1, <2>2, <2>3 DEF SessionInv
<1>4. Inside = {} /\ TurnedAway = {} /\ Counting = {}
  BY <1>2 DEF Inside, TurnedAway, turnedAway, Counting
<1>5. Counted /\ LastDone /\ Quieted
  BY <1>4, FS_EmptySet DEF Counted, LastDone, Quieted
<1> QED
  BY <1>1, <1>3, <1>5 DEF IInv

LEMMA BeginTypes ==
  ASSUME TypeOK, NEW r \in Requests, Begin(r)
  PROVE  /\ ask' \in [Requests -> Ask]
         /\ pc' \in [Requests -> {"idle", "credentials", "issue", "number", "enter", "verify",
                                  "expiry", "handle", "done"}]
<1> USE DEF TypeOK, goto
<1>1. ASSUME NEW name \in Operators \cup Strangers, NEW right \in BOOLEAN,
             ask' = [ask EXCEPT ![r] = [kind |-> "login", username |-> name, right |-> right,
                                        token |-> 0]]
      PROVE  ask' \in [Requests -> Ask]
  <2>1. [kind |-> "login", username |-> name, right |-> right, token |-> 0] \in Ask
    BY DEF Ask
  <2> QED
    BY <1>1, <2>1
<1>2. ASSUME NEW token \in 0 .. sessionSequence,
             ask' = [ask EXCEPT ![r] = [kind |-> "me", username |-> NoAsk.username,
                                        right |-> FALSE, token |-> token]]
      PROVE  ask' \in [Requests -> Ask]
  <2>1. [kind |-> "me", username |-> NoAsk.username, right |-> FALSE, token |-> token] \in Ask
    BY Defaults DEF Ask
  <2> QED
    BY <1>2, <2>1
<1> QED
  BY <1>1, <1>2 DEF Begin

LEMMA HandlerTypes ==
  ASSUME TypeOK, \A q \in Requests : Login(q), NEW r \in Requests, HandlerStep(r),
         UNCHANGED processVars
  PROVE  TypeOK'
<1> USE DEF TypeOK, goto, return, processVars
<1>1. CASE Credentials(r)
  BY <1>1 DEF Credentials
<1>2. CASE Issue(r)
  <2>1. [token |-> 0, username |-> ask[r].username, issuedAt |-> now, expiresAt |-> now + Ttl]
          \in Session
    <3>1. ask[r] \in Ask
      OBVIOUS
    <3>2. ask[r].username \in Operators \cup Strangers
      BY <3>1 DEF Ask
    <3> QED
      BY <3>2, SessionsAssumption DEF Session
  <2> QED
    BY <1>2, <2>1 DEF Issue
<1>3. CASE Draw(r)
  <2>1. sessionSequence' \in Nat /\ 1 .. sessionSequence \subseteq 1 .. sessionSequence'
    BY <1>3 DEF Draw
  <2>2. [session[r] EXCEPT !.token = number] \in Session
    BY DEF Session, number
  <2>3. session' \in [Requests -> Session]
    BY <1>3, <2>2 DEF Draw
  <2> QED
    BY <1>3, <2>1, <2>3 DEF Draw
<1>4. CASE EnterTable(r)
  <2>1. session[r].token \in 1 .. sessionSequence
    BY <1>4 DEF EnterTable, Login, drawn
  <2> QED
    BY <1>4, <2>1 DEF EnterTable, entered
<1>5. CASE Lookup(r)
  BY <1>5 DEF Lookup
<1>6. CASE CheckExpiry(r)
  BY <1>6 DEF CheckExpiry
<1>7. CASE Handle(r)
  BY <1>7 DEF Handle
<1> QED
  BY <1>1, <1>2, <1>3, <1>4, <1>5, <1>6, <1>7 DEF HandlerStep

LEMMA TypeStep ==
  ASSUME TypeOK, \A q \in Requests : Login(q), LastDone, Counted', LastDone', Next
  PROVE  TypeOK'
<1> USE DEF sessionVars, processVars
<1>0. ~ gaveUp' /\ inflight' \in Int => inflight' \in Nat
  <2>1. ~ gaveUp' => TurnedAway' = {}
    BY DEF LastDone
  <2>2. ~ gaveUp' => inflight' = Cardinality(Counting)'
    BY <2>1 DEF Counted
  <2>3. Cardinality(Counting)' \in Nat
    BY FS_CardinalityType DEF Counted
  <2> QED
    BY <2>2, <2>3
<1>1. CASE Tick /\ UNCHANGED processVars
  BY <1>1 DEF Tick, TypeOK
<1>2. CASE ListenerFails \/ Signal \/ ShutdownReturns \/ WaitReturns \/ Stop
  BY <1>0, <1>2 DEF ListenerFails, Signal, ShutdownReturns, WaitReturns, Stop, TypeOK, Phase
<1>3. CASE Wait
  BY <1>0, <1>3 DEF Wait, TypeOK, Phase, LastDone
<1>4. ASSUME NEW r \in Requests, Accept(r) \/ Drop(r)
      PROVE  TypeOK'
  BY <1>4 DEF Accept, Drop, move, TypeOK, Stage
<1>5. ASSUME NEW r \in Requests, Enter(r)
      PROVE  TypeOK'
  <2>1. stage' \in [Requests -> Stage] /\ inflight' \in Int
    BY <1>5 DEF Enter, move, count, TypeOK, Stage
  <2>2. CASE addPanics
    BY <1>0, <1>5, <2>1, <2>2 DEF Enter, TypeOK
  <2>3. CASE ~ addPanics
    BY <1>0, <1>5, <2>1, <2>3, BeginTypes DEF Enter, Begin, TypeOK
  <2> QED
    BY <2>2, <2>3
<1>6. ASSUME NEW r \in Requests, Serve(r)
      PROVE  TypeOK'
  BY <1>6, HandlerTypes DEF Serve
<1>7. ASSUME NEW r \in Requests, Leave(r) \/ CheckState(r) \/ Release(r)
      PROVE  TypeOK'
  <2>1. /\ inflight' \in Int /\ waiters' \in 0 .. 1 /\ phase' \in Phase
        /\ stage' \in [Requests -> Stage]
    BY <1>7 DEF Leave, CheckState, Release, countDown, move, TypeOK, Stage, Phase
  <2>2. /\ reply' \in [Requests -> {"none", "ok", "unauthorized", "panic", "internal_error"}]
        /\ UNCHANGED << sessions, sessionSequence, now, pc, ask, session, gaveUp >>
    BY <1>7 DEF Leave, CheckState, Release, recover, TypeOK
  <2> QED
    BY <1>0, <2>1, <2>2 DEF TypeOK
<1> QED
  BY <1>1, <1>2, <1>3, <1>4, <1>5, <1>6, <1>7 DEF Next

------------------------------------------------------------------------------
(* The counter.                                                            *)

\* A request is counted in, or out.
LEMMA CountingAdd ==
  ASSUME IsFiniteSet(Counting), NEW r, r \notin Counting, Counting' = Counting \cup {r}
  PROVE  IsFiniteSet(Counting') /\ Cardinality(Counting') = Cardinality(Counting) + 1
  BY FS_AddElement

LEMMA CountingRemove ==
  ASSUME IsFiniteSet(Counting), NEW r, r \in Counting, Counting' = Counting \ {r}
  PROVE  IsFiniteSet(Counting') /\ Cardinality(Counting') = Cardinality(Counting) - 1
  BY FS_RemoveElement

\* No request comes to the middleware once the connections were found quiet.
LEMMA QuietedStep ==
  ASSUME TypeOK, LastDone, Quieted, Next
  PROVE  Quieted'
<1> USE DEF Quieted, processVars, move, TypeOK
<1>1. CASE Tick /\ UNCHANGED processVars
  BY <1>1
<1>2. CASE ListenerFails \/ Signal \/ ShutdownReturns \/ Wait \/ WaitReturns \/ Stop
  BY <1>2 DEF ListenerFails, Signal, ShutdownReturns, Wait, WaitReturns, Stop, quiet
<1>3. ASSUME NEW r \in Requests, Accept(r) \/ Drop(r) \/ Enter(r) \/ Serve(r) \/ Leave(r) \/ CheckState(r)
      PROVE  Quieted'
  BY <1>3 DEF Accept, Drop, Enter, Serve, Leave, CheckState
<1>4. ASSUME NEW r \in Requests, Release(r)
      PROVE  Quieted'
  <2>1. phase = "waiting" \/ phase = "stopped"
    BY <1>4 DEF Release, LastDone
  <2>2. phase = "waiting"
    BY <2>1 DEF Next, alive
  <2> QED
    BY <1>4, <2>2 DEF Release
<1> QED
  BY <1>1, <1>2, <1>3, <1>4 DEF Next

\* Steps that leave the wait group and the places of the requests in it alone.
LEMMA CountKept ==
  ASSUME Counted, LastDone, Inside' = Inside, TurnedAway' = TurnedAway,
         inflight' = inflight, waiters' = waiters,
         phase' \in {"serving", "shutdown", "wait", "waiting"} =>
           phase \in {"serving", "shutdown", "wait", "waiting"},
         waiters # 0 => phase' \in {"waiting", "stopped"},
         \A q \in Requests : stage'[q] \in {"last", "release"} => stage[q] \in {"last", "release"},
         gaveUp => gaveUp'
  PROVE  Counted' /\ LastDone'
<1>1. Counting' = Counting
  BY DEF Counting
<1>2. Counted'
  BY <1>1 DEF Counted
<1>3. LastDone'
  BY DEF LastDone
<1> QED
  BY <1>2, <1>3

LEMMA EnterCounts ==
  ASSUME TypeOK, \A q \in Requests : Place(q), Counted, LastDone, Quieted, alive,
         NEW r \in Requests, Enter(r)
  PROVE  Counted' /\ LastDone'
<1> USE DEF TypeOK, Place, move
<1>1. r \notin Counting /\ ask[r].kind = "other" /\ pc[r] = "idle" /\ reply[r] = "none"
  BY DEF Enter, Counting, Inside, TurnedAway, turnedAway
<1>2. /\ \A q \in Requests : stage'[q] \in {"last", "release"} <=> stage[q] \in {"last", "release"}
      /\ UNCHANGED << waiters, phase, gaveUp >> /\ inflight' = inflight + 1
  BY DEF Enter, count
<1>3. \A q \in Requests \ {r} : /\ pc'[q] = pc[q] /\ reply'[q] = reply[q]
                               /\ stage'[q] = stage[q]
  BY DEF Enter, Begin, goto
<1>4. Counting' = Counting \cup {r} /\ TurnedAway \subseteq TurnedAway'
  <2>1. r \in Inside' \/ r \in TurnedAway'
    BY <1>1 DEF Enter, Inside, TurnedAway, turnedAway
  <2>2. \A q \in Requests \ {r} : /\ q \in Inside' <=> q \in Inside
                                 /\ q \in TurnedAway' <=> q \in TurnedAway
    BY <1>3 DEF Inside, TurnedAway, turnedAway
  <2>3. \A q : q \in Counting' \/ q \in Counting => q \in Requests
    BY DEF Counting, Inside, TurnedAway
  <2>4. r \notin TurnedAway
    BY <1>1 DEF Counting
  <2>5. TurnedAway \subseteq TurnedAway'
    <3>1. \A q \in TurnedAway : q \in Requests \ {r}
      BY <2>4 DEF TurnedAway
    <3> QED
      BY <2>2, <3>1
  <2>6. \A q : q \in Counting' <=> q \in Counting \/ q = r
    <3> HIDE DEF TypeOK, Place, move
    <3> SUFFICES ASSUME NEW q PROVE q \in Counting' <=> q \in Counting \/ q = r
      OBVIOUS
    <3>1. CASE q = r
      BY <2>1, <3>1 DEF Counting
    <3>2. CASE q \in Requests \ {r}
      <4>1. q # r /\ (q \in Inside' <=> q \in Inside)
        BY <1>3, <3>2 DEF Inside
      <4>2. q \in TurnedAway' <=> q \in TurnedAway
        BY <1>3, <3>2 DEF TurnedAway, turnedAway
      <4> QED
        BY <4>1, <4>2 DEF Counting
    <3>3. CASE q \notin Requests
      BY <2>3, <3>3
    <3> QED
      BY <3>1, <3>2, <3>3
  <2> QED
    BY <2>5, <2>6
<1>5. IsFiniteSet(Counting') /\ Cardinality(Counting') = Cardinality(Counting) + 1
      /\ Cardinality(Counting) \in Nat
  BY <1>1, <1>4, CountingAdd, FS_CardinalityType DEF Counted
<1>6. Counted'
  BY <1>2, <1>4, <1>5 DEF Counted
<1>7. addPanics => waiters # 0 \/ TurnedAway # {}
  BY <1>5 DEF addPanics, count, Counted
<1>8. TurnedAway' # {} => gaveUp'
  <2>1. CASE addPanics
    <3>1. waiters # 0 => phase = "waiting"
      BY DEF LastDone, alive
    <3>2. waiters # 0 => gaveUp
      BY <3>1 DEF Quieted, Enter
    <3> QED
      BY <1>2, <1>7, <2>1, <3>2 DEF LastDone
  <2>2. CASE ~ addPanics
    <3>1. r \notin TurnedAway'
      BY <2>2 DEF Enter, Begin, goto, TurnedAway, turnedAway
    <3>2. TurnedAway' = TurnedAway
      BY <1>1, <1>3, <3>1 DEF TurnedAway, turnedAway
    <3> QED
      BY <1>2, <3>2 DEF LastDone
  <2> QED
    BY <2>1, <2>2
<1>9. ASSUME NEW q \in Requests, stage[q] \in {"last", "release"}
      PROVE  TurnedAway' # {}
  <2>1. waiters = 1 /\ phase = "waiting"
    BY <1>9 DEF LastDone, alive
  <2>2. CASE TurnedAway # {}
    BY <1>4, <2>2
  <2>3. CASE TurnedAway = {}
    <3>1. Counting = {}
      BY <1>9, <2>3 DEF LastDone, Counting
    <3>2. inflight = 0
      BY <2>1, <3>1, FS_EmptySet DEF Counted
    <3>3. addPanics
      BY <2>1, <3>2 DEF addPanics, count
    <3>4. r \in TurnedAway'
      BY <1>1, <3>3 DEF Enter, TurnedAway, turnedAway
    <3> QED
      BY <3>4
  <2> QED
    BY <2>2, <2>3
<1>10. LastDone'
  BY <1>2, <1>8, <1>9 DEF LastDone
<1> QED
  BY <1>6, <1>10

\* A Done subtracts.
LEMMA LeaveCounts ==
  ASSUME TypeOK, \A q \in Requests : Place(q), Counted, LastDone, alive,
         NEW r \in Requests, Leave(r)
  PROVE  Counted' /\ LastDone'
<1> USE DEF TypeOK, Place, move
<1>1. /\ r \in Inside /\ pc[r] = "done" /\ stage'[r] \in {"last", "out"}
      /\ UNCHANGED << pc, waiters, phase, gaveUp >> /\ inflight' = inflight - 1
  BY DEF Leave, countDown, Inside, recover, sessionVars
<1>2. /\ \A q \in Requests \ {r} : stage'[q] = stage[q]
      /\ \A q \in Requests : reply'[q] = reply[q] \/ q = r
  BY DEF Leave, recover, sessionVars
<1>3. TurnedAway' = TurnedAway
  BY <1>1, <1>2 DEF TurnedAway, turnedAway
<1>4. Inside' = Inside \ {r} /\ r \notin TurnedAway
  BY <1>1, <1>2 DEF Inside, TurnedAway, turnedAway
<1>5. Counting' = Counting \ {r} /\ r \in Counting
  BY <1>1, <1>3, <1>4 DEF Counting
<1>6. /\ IsFiniteSet(Counting') /\ Cardinality(Counting') = Cardinality(Counting) - 1
      /\ Cardinality(Counting) \in Nat
  BY <1>5, CountingRemove, FS_CardinalityType DEF Counted
<1>7. Counted'
  BY <1>1, <1>3, <1>6 DEF Counted
<1>8. CASE stage'[r] = "out"
  <2>1. ASSUME NEW q \in Requests, stage'[q] \in {"last", "release"}
        PROVE  stage[q] \in {"last", "release"} /\ waiters' = 1 /\ TurnedAway' # {}
    <3>1. q # r
      BY <1>8, <2>1
    <3> QED
      BY <1>1, <1>2, <1>3, <2>1, <3>1 DEF LastDone
  <2>2. TurnedAway' # {} => gaveUp'
    BY <1>1, <1>3 DEF LastDone
  <2>3. waiters' # 0 => phase' \in {"waiting", "stopped"}
    BY <1>1 DEF LastDone
  <2>4. LastDone'
    <3> HIDE DEF TypeOK, Place, move
    <3> QED
      BY <2>1, <2>2, <2>3 DEF LastDone
  <2> QED
    BY <1>7, <2>4
<1>9. CASE stage'[r] = "last"
  <2>1. inflight' = 0 /\ waiters = 1 /\ phase = "waiting"
    BY <1>9 DEF Leave, LastDone, alive
  <2>2. Counting' = {}
    <3>1. Cardinality(Counting') = 0
      BY <1>1, <1>7, <2>1 DEF Counted
    <3> QED
      BY <1>6, <3>1, FS_EmptySet
  <2>3. Inside' = {} /\ TurnedAway = {}
    BY <1>3, <2>2 DEF Counting
  <2>4. \A q \in Requests : stage[q] \notin {"last", "release"}
    BY <1>1, <2>3 DEF LastDone
  <2>5. ASSUME NEW q \in Requests, stage'[q] \in {"last", "release"}
        PROVE  q = r
    BY <1>2, <2>4, <2>5
  <2>6. waiters' = 1 /\ phase' = "waiting" /\ TurnedAway' = {}
    BY <1>1, <1>3, <2>1, <2>3
  <2>7. LastDone'
    <3> HIDE DEF TypeOK, Place, move
    <3> QED
      BY <2>3, <2>5, <2>6 DEF LastDone
  <2> QED
    BY <1>7, <2>7
<1> QED
  BY <1>1, <1>7, <1>8, <1>9

LEMMA CountStep ==
  ASSUME TypeOK, \A q \in Requests : Place(q), Counted, LastDone, Quieted, Next
  PROVE  Counted' /\ LastDone'
<1> USE DEF TypeOK, Place, processVars
<1>1. CASE UNCHANGED processVars /\ (Tick \/ \E r \in Requests : Serve(r))
  <2>1. TurnedAway' = TurnedAway
    <3>1. CASE Tick
      BY <3>1 DEF Tick, TurnedAway, turnedAway
    <3>2. ASSUME NEW r \in Requests, Serve(r)
          PROVE  TurnedAway' = TurnedAway
      <4>1. pc[r] # "idle" /\ pc'[r] # "idle"
        BY <3>2 DEF Serve, HandlerStep, Credentials, Issue, Draw, EnterTable, Lookup, CheckExpiry,
                    Handle, goto, return
      <4>2. \A q \in Requests \ {r} : pc'[q] = pc[q] /\ reply'[q] = reply[q]
        BY <3>2 DEF Serve, HandlerStep, Credentials, Issue, Draw, EnterTable, Lookup, CheckExpiry,
                    Handle, goto, return
      <4> QED
        BY <4>1, <4>2 DEF TurnedAway, turnedAway
    <3> QED
      BY <1>1, <3>1, <3>2
  <2>2. Inside' = Inside
    BY <1>1 DEF Inside
  <2> QED
    BY <1>1, <2>1, <2>2, CountKept DEF LastDone
<1>2. CASE ListenerFails \/ Signal \/ ShutdownReturns \/ WaitReturns \/ Stop
  <2>1. Inside' = Inside /\ TurnedAway' = TurnedAway /\ UNCHANGED << stage, inflight, waiters >>
    BY <1>2 DEF ListenerFails, Signal, ShutdownReturns, WaitReturns, Stop, sessionVars,
                Inside, TurnedAway, turnedAway
  <2>2. /\ phase' \in {"serving", "shutdown", "wait", "waiting"} =>
             phase \in {"serving", "shutdown", "wait", "waiting"}
        /\ waiters # 0 => phase' \in {"waiting", "stopped"}
        /\ gaveUp => gaveUp'
    BY <1>2 DEF ListenerFails, Signal, ShutdownReturns, WaitReturns, Stop, LastDone
  <2> QED
    BY <2>1, <2>2, CountKept
<1>3. CASE Wait
  <2>1. Inside' = Inside /\ TurnedAway' = TurnedAway /\ UNCHANGED << stage, inflight, gaveUp >>
    BY <1>3 DEF Wait, sessionVars, Inside, TurnedAway, turnedAway
  <2>2. waiters = 0 /\ phase = "wait" /\ (waiters' = 0 \/ phase' = "waiting")
    BY <1>3 DEF Wait, LastDone
  <2>3. Counting' = Counting
    BY <2>1 DEF Counting
  <2> QED
    BY <2>1, <2>2, <2>3 DEF Counted, LastDone
<1>4. ASSUME NEW r \in Requests, Accept(r) \/ Drop(r) \/ CheckState(r)
      PROVE  Counted' /\ LastDone'
  <2>0. stage[r] \in Stage
    BY DEF Stage
  <2>1. /\ UNCHANGED << inflight, waiters, phase, gaveUp, pc >>
        /\ \A q \in Requests \ {r} : stage'[q] = stage[q]
        /\ \A q \in Requests : reply'[q] = reply[q] \/ (q = r /\ pc[q] # "idle")
        /\ stage[r] # "inside" /\ stage'[r] # "inside"
        /\ stage'[r] \in {"last", "release"} => stage[r] \in {"last", "release"}
    <3>1. CASE Accept(r) \/ Drop(r)
      BY <3>1 DEF Accept, Drop, move, sessionVars
    <3>2. CASE CheckState(r)
      <4>1. pc[r] # "idle"
        BY <3>2 DEF CheckState
      <4>2. /\ UNCHANGED << inflight, waiters, phase, gaveUp, pc >>
            /\ \A q \in Requests \ {r} : stage'[q] = stage[q]
            /\ stage[r] = "last" /\ stage'[r] # "inside"
        BY <3>2 DEF CheckState, recover, move, sessionVars
      <4>3. \A q \in Requests : reply'[q] = reply[q] \/ q = r
        BY <3>2 DEF CheckState, recover, sessionVars
      <4> QED
        BY <4>1, <4>2, <4>3
    <3> QED
      BY <1>4, <3>1, <3>2
  <2>2. Inside' = Inside /\ TurnedAway' = TurnedAway
    BY <2>1 DEF Inside, TurnedAway, turnedAway
  <2> QED
    BY <2>1, <2>2, CountKept DEF LastDone
<1>5. ASSUME NEW r \in Requests, Enter(r)
      PROVE  Counted' /\ LastDone'
  BY <1>5, EnterCounts DEF Next
<1>6. ASSUME NEW r \in Requests, Leave(r)
      PROVE  Counted' /\ LastDone'
  BY <1>6, LeaveCounts DEF Next
<1>7. ASSUME NEW r \in Requests, Release(r)
      PROVE  Counted' /\ LastDone'
  <2>1. /\ inflight' = 0 /\ waiters' = 0 /\ phase' = "woken" /\ pc' = pc /\ gaveUp' = gaveUp
        /\ stage[r] = "release" /\ stage'[r] = "out"
        /\ \A q \in Requests \ {r} : stage'[q] = stage[q]
        /\ \A q \in Requests : reply'[q] = reply[q] \/ (q = r /\ pc[q] # "idle")
    <3>1. pc[r] # "idle"
      BY <1>7 DEF Release
    <3>2. /\ inflight' = 0 /\ waiters' = 0 /\ phase' = "woken" /\ pc' = pc /\ gaveUp' = gaveUp
          /\ stage[r] = "release" /\ stage'[r] = "out"
          /\ \A q \in Requests \ {r} : stage'[q] = stage[q]
      BY <1>7 DEF Release, recover, move
    <3>3. \A q \in Requests : reply'[q] = reply[q] \/ q = r
      BY <1>7 DEF Release, recover
    <3> QED
      BY <3>1, <3>2, <3>3
  <2>2. Inside' = Inside /\ TurnedAway' = TurnedAway /\ Counting' = Counting
    BY <2>1 DEF Inside, TurnedAway, turnedAway, Counting
  <2>3. TurnedAway = {} => Counting = {}
    BY <2>1 DEF LastDone, Counting
  <2>4. Counted'
    BY <2>1, <2>2, <2>3, FS_EmptySet DEF Counted
  <2>5. \A q \in Requests : stage'[q] \notin {"last", "release"}
    BY <2>1 DEF LastDone
  <2> QED
    BY <2>1, <2>2, <2>4, <2>5 DEF LastDone
<1> QED
  BY <1>1, <1>2, <1>3, <1>4, <1>5, <1>6, <1>7 DEF Next, Serve

------------------------------------------------------------------------------
(* Sessions.                                                               *)

\* What a step leaves as it is outside the handlers.
LEMMA PlaceStep ==
  ASSUME TypeOK, \A q \in Requests : Place(q), Next
  PROVE  \A q \in Requests : Place(q)'
<1> USE DEF TypeOK, Place, turnedAway, sessionVars, processVars, goto, return, move
<1>1. CASE Tick /\ UNCHANGED processVars
  BY <1>1 DEF Tick
<1>2. CASE ListenerFails \/ Signal \/ ShutdownReturns \/ Wait \/ WaitReturns \/ Stop
  BY <1>2 DEF ListenerFails, Signal, ShutdownReturns, Wait, WaitReturns, Stop
<1>3. ASSUME NEW r \in Requests, Accept(r) \/ Drop(r)
      PROVE  \A q \in Requests : Place(q)'
  BY <1>3 DEF Accept, Drop
<1>4. ASSUME NEW r \in Requests, Enter(r)
      PROVE  \A q \in Requests : Place(q)'
  <2>1. \A q \in Requests \ {r} : Place(q)'
    BY <1>4 DEF Enter, Begin
  <2>2. pc[r] = "idle" /\ ask[r].kind = "other" /\ reply[r] = "none"
    BY <1>4 DEF Enter
  <2>3. CASE addPanics
    <3>1. /\ pc'[r] = "idle" /\ ask'[r] = ask[r] /\ stage'[r] = "out"
          /\ reply'[r] = "internal_error"
      BY <1>4, <2>2, <2>3 DEF Enter
    <3> QED
      BY <2>1, <2>2, <3>1
  <2>4. CASE ~ addPanics
    <3>1. stage'[r] = "inside" /\ reply'[r] = "none"
      BY <1>4, <2>2, <2>4 DEF Enter, Begin
    <3>2. \/ ask'[r].kind = "login" /\ pc'[r] = "credentials"
          \/ ask'[r].kind = "me" /\ pc'[r] = "verify"
          \/ ask'[r] = ask[r] /\ pc'[r] = "handle"
      BY <1>4, <2>4 DEF Enter, Begin
    <3> QED
      BY <2>1, <2>2, <3>1, <3>2
  <2> QED
    BY <2>3, <2>4
<1>5. ASSUME NEW r \in Requests, Serve(r)
      PROVE  \A q \in Requests : Place(q)'
  <2>1. CASE Credentials(r)
    BY <1>5, <2>1 DEF Serve, Credentials
  <2>2. CASE Issue(r) \/ Draw(r)
    BY <1>5, <2>2 DEF Serve, Issue, Draw
  <2>3. CASE EnterTable(r)
    BY <1>5, <2>3 DEF Serve, EnterTable
  <2>4. CASE Lookup(r)
    BY <1>5, <2>4 DEF Serve, Lookup
  <2>5. CASE CheckExpiry(r) \/ Handle(r)
    BY <1>5, <2>5 DEF Serve, CheckExpiry, Handle
  <2> QED
    BY <1>5, <2>1, <2>2, <2>3, <2>4, <2>5 DEF Serve, HandlerStep
<1>6. ASSUME NEW r \in Requests, Leave(r) \/ CheckState(r) \/ Release(r)
      PROVE  \A q \in Requests : Place(q)'
  BY <1>6 DEF Leave, CheckState, Release, recover
<1> QED
  BY <1>1, <1>2, <1>3, <1>4, <1>5, <1>6 DEF Next

\* The steps outside the handlers neither make nor check a session.
LEMMA OutsideStep ==
  ASSUME TypeOK, SessionInv, Next, ~ \E r \in Requests : Serve(r)
  PROVE  /\ sessions' = sessions /\ sessionSequence' = sessionSequence /\ session' = session
         /\ \A q \in Requests :
              /\ loggedIn(q)' <=> loggedIn(q)
              /\ \A place \in {"issue", "number", "enter", "expiry"} :
                   pc'[q] = place <=> pc[q] = place
              /\ pc[q] # "idle" => ask'[q] = ask[q]
              /\ reply'[q] = "ok" <=> reply[q] = "ok"
<1> USE DEF TypeOK, SessionInv, Place, loggedIn, sessionVars, processVars, goto, move
<1>1. CASE Tick /\ UNCHANGED processVars
  BY <1>1 DEF Tick
<1>2. CASE ListenerFails \/ Signal \/ ShutdownReturns \/ Wait \/ WaitReturns \/ Stop
  BY <1>2 DEF ListenerFails, Signal, ShutdownReturns, Wait, WaitReturns, Stop
<1>3. ASSUME NEW r \in Requests, Accept(r) \/ Drop(r)
      PROVE  UNCHANGED << sessions, sessionSequence, session, pc, ask, reply >>
  BY <1>3 DEF Accept, Drop
<1>4. CASE \E r \in Requests : Enter(r)
  <2>1. PICK r \in Requests : Enter(r)
    BY <1>4
  <2>2. /\ UNCHANGED << sessions, sessionSequence, session >>
        /\ pc[r] = "idle" /\ ask[r].kind = "other" /\ reply[r] = "none"
    BY <2>1 DEF Enter, Begin, turnedAway
  <2>3. \A q \in Requests \ {r} : ask'[q] = ask[q] /\ pc'[q] = pc[q] /\ reply'[q] = reply[q]
    BY <2>1 DEF Enter, Begin
  <2>4. pc'[r] \in {"idle", "credentials", "verify", "handle"} /\ reply'[r] # "ok"
    BY <2>1, <2>2 DEF Enter, Begin
  <2> QED
    BY <2>2, <2>3, <2>4
<1>5. CASE \E r \in Requests : Leave(r) \/ CheckState(r) \/ Release(r)
  <2>1. PICK r \in Requests : Leave(r) \/ CheckState(r) \/ Release(r)
    BY <1>5
  <2>2. UNCHANGED << sessions, sessionSequence, session, pc, ask >>
    BY <2>1 DEF Leave, CheckState, Release, recover
  <2>3. \A q \in Requests : reply'[q] = "ok" <=> reply[q] = "ok"
    BY <2>1 DEF Leave, CheckState, Release, recover
  <2> QED
    BY <2>2, <2>3
<1> QED
  BY <1>1, <1>2, <1>3, <1>4, <1>5 DEF Next

\* A login that was answered stays as it is.
LEMMA LoggedInStays ==
  ASSUME TypeOK, SessionInv, NEW r \in Requests, Serve(r)
  PROVE  \A l \in Requests : loggedIn(l) => loggedIn(l)' /\ session'[l] = session[l]
<1> USE DEF TypeOK, SessionInv, Place, loggedIn, goto, return
<1>1. pc[r] \notin {"idle", "done"} => reply[r] = "none"
  OBVIOUS
<1>2. pc[r] \notin {"idle", "done"}
  BY DEF Serve, HandlerStep, Credentials, Issue, Draw, EnterTable, Lookup, CheckExpiry, Handle
<1>3. \A l \in Requests \ {r} : ask'[l] = ask[l] /\ reply'[l] = reply[l] /\ session'[l] = session[l]
  <2>1. CASE Credentials(r) \/ EnterTable(r) \/ CheckExpiry(r) \/ Handle(r)
    BY <2>1 DEF Credentials, EnterTable, CheckExpiry, Handle
  <2>2. CASE Issue(r) \/ Draw(r)
    BY <2>2 DEF Issue, Draw
  <2>3. CASE Lookup(r)
    BY <2>3 DEF Lookup
  <2> QED
    BY <2>1, <2>2, <2>3 DEF Serve, HandlerStep
<1> QED
  BY <1>1, <1>2, <1>3

\* Whoever has a number after the step had the same before, or drew a new one.
LEMMA DrawnStep ==
  ASSUME TypeOK, SessionInv, Next
  PROVE  (\A q \in Requests : Login(q)') /\ Distinct'
<1> USE DEF TypeOK, SessionInv, Place, Login, Distinct, drawn, loggedIn, goto, return
<1>1. CASE ~ \E r \in Requests : Serve(r)
  BY <1>1, OutsideStep
<1>2. ASSUME NEW r \in Requests, Serve(r)
      PROVE  (\A q \in Requests : Login(q)') /\ Distinct'
  <2>0. \A t \in DOMAIN sessions : t \in DOMAIN sessions'
    BY <1>2 DEF Serve, HandlerStep, Credentials, Issue, Draw, EnterTable, entered, Lookup,
                CheckExpiry, Handle
  <2>1. CASE Credentials(r)
    BY <1>2, <2>1 DEF Serve, Credentials, verified
  <2>2. CASE Issue(r)
    <3>1. \A q \in Requests \ {r} : pc'[q] = pc[q] /\ session'[q] = session[q]
      BY <2>2 DEF Issue
    <3>2. /\ pc'[r] = "number" /\ session'[r].username = ask[r].username
          /\ session'[r].expiresAt = session'[r].issuedAt + Ttl /\ reply[r] = "none"
      BY <2>2 DEF Issue
    <3>3. UNCHANGED << ask, reply, sessionSequence, sessions >> /\ ask[r].username \in Operators
      BY <2>2 DEF Issue
    <3> QED
      BY <3>1, <3>2, <3>3
  <2>3. CASE Draw(r)
    <3>1. \A q \in Requests \ {r} : pc'[q] = pc[q] /\ session'[q] = session[q]
      BY <2>3 DEF Draw
    <3>2. /\ pc[r] = "number" /\ pc'[r] = "enter" /\ reply[r] = "none"
          /\ session'[r].token = sessionSequence + 1
      BY <2>3 DEF Draw, number, Session
    <3>3. /\ session'[r].username = session[r].username
          /\ session'[r].issuedAt = session[r].issuedAt
          /\ session'[r].expiresAt = session[r].expiresAt
      BY <2>3 DEF Draw, Session
    <3>4. UNCHANGED << ask, reply, sessions >> /\ sessionSequence' = sessionSequence + 1
      BY <2>3 DEF Draw
    <3>5. ASSUME NEW q \in Requests \ {r}
          PROVE  Login(q)' /\ (drawn(q)' => session'[q].token # session'[r].token)
      BY <3>1, <3>2, <3>4
    <3>6. Login(r)'
      BY <3>2, <3>3, <3>4
    <3>7. \A q \in Requests \ {r} : drawn(q)' <=> drawn(q)
      BY <3>1, <3>4
    <3>8. Distinct'
      BY <3>1, <3>5, <3>7
    <3> QED
      BY <3>5, <3>6, <3>8
  <2>4. CASE EnterTable(r)
    <3>1. /\ \A q \in Requests \ {r} : pc'[q] = pc[q] /\ reply'[q] = reply[q]
          /\ pc[r] = "enter" /\ pc'[r] = "done" /\ reply'[r] = "ok" /\ ask[r].kind = "login"
          /\ UNCHANGED << ask, session, sessionSequence >>
      BY <2>4 DEF EnterTable
    <3>2. session[r].token \in DOMAIN sessions'
      BY <2>4 DEF EnterTable, entered
    <3>3. drawn(r) /\ drawn(r)' /\ \A q \in Requests \ {r} : /\ drawn(q)' <=> drawn(q)
                                                          /\ loggedIn(q)' <=> loggedIn(q)
      BY <3>1
    <3>4. Distinct'
      BY <3>1, <3>3
    <3>5. Login(r)'
      BY <3>1, <3>2, <3>3
    <3>6. ASSUME NEW q \in Requests \ {r} PROVE Login(q)'
      BY <2>0, <3>1, <3>3
    <3> QED
      BY <3>4, <3>5, <3>6
  <2>5. CASE Lookup(r)
    <3>1. /\ \A q \in Requests \ {r} : session'[q] = session[q] /\ pc'[q] = pc[q] /\ reply'[q] = reply[q]
          /\ UNCHANGED << ask, sessionSequence, sessions >>
          /\ pc'[r] \in {"expiry", "done"} /\ ask[r].kind = "me"
      BY <2>5 DEF Lookup
    <3>2. ~ drawn(r)' /\ \A q \in Requests \ {r} : drawn(q)' <=> drawn(q)
      BY <3>1
    <3> QED
      BY <3>1, <3>2
  <2>6. CASE CheckExpiry(r) \/ Handle(r)
    BY <1>2, <2>6 DEF Serve, CheckExpiry, Handle
  <2> QED
    BY <1>2, <2>1, <2>2, <2>3, <2>4, <2>5, <2>6 DEF Serve, HandlerStep
<1> QED
  BY <1>1, <1>2

\* The table and the checks show only sessions of logins that were answered.
LEMMA OwnedStep ==
  ASSUME TypeOK, SessionInv, Next
  PROVE  Table' /\ \A q \in Requests : Checked(q)'
<1> USE DEF SessionInv
<1>1. CASE ~ \E r \in Requests : Serve(r)
  <2>1. Table'
    BY <1>1, OutsideStep DEF Table, Owned
  <2>2. ASSUME NEW q \in Requests PROVE Checked(q)'
    <3>1. pc[q] = "idle" => pc'[q] # "expiry" /\ reply'[q] # "ok"
      BY <1>1, OutsideStep DEF Place, turnedAway
    <3>2. pc[q] # "idle" => ask'[q] = ask[q]
      BY <1>1, OutsideStep
    <3> QED
      BY <1>1, OutsideStep, <3>1, <3>2 DEF Checked, Owned
  <2> QED
    BY <2>1, <2>2
<1>2. ASSUME NEW r \in Requests, Serve(r)
      PROVE  Table' /\ \A q \in Requests : Checked(q)'
  <2> DEFINE Still(s, t) == \E l \in Requests : loggedIn(l)' /\ session'[l] = s /\ s.token = t
  <2>1. \A s, t : Owned(s, t) => Still(s, t)
    BY <1>2, LoggedInStays DEF Owned
  <2>2. Table' <=> \A t \in DOMAIN sessions' : Still(sessions'[t], t)
    BY DEF Table, Owned
  <2>3. \A q \in Requests : Checked(q)' <=>
          (ask'[q].kind = "me" /\ (pc'[q] = "expiry" \/ reply'[q] = "ok") =>
             Still(session'[q], ask'[q].token))
    BY DEF Checked, Owned
  <2>4. \A t \in DOMAIN sessions : Still(sessions[t], t)
    BY <2>1 DEF Table
  <2>5. \A q \in Requests : ask[q].kind = "me" /\ (pc[q] = "expiry" \/ reply[q] = "ok") =>
          Still(session[q], ask[q].token)
    BY <2>1 DEF Checked
  <2>6. ask' = ask /\ \A q \in Requests \ {r} :
          pc'[q] = pc[q] /\ reply'[q] = reply[q] /\ session'[q] = session[q]
    <3> USE <1>2 DEF Serve, TypeOK, goto, return
    <3>1. CASE Credentials(r) \/ EnterTable(r) \/ CheckExpiry(r) \/ Handle(r)
      BY <3>1 DEF Credentials, EnterTable, CheckExpiry, Handle
    <3>2. CASE Issue(r) \/ Draw(r)
      BY <3>2 DEF Issue, Draw
    <3>3. CASE Lookup(r)
      BY <3>3 DEF Lookup
    <3> QED
      BY <3>1, <3>2, <3>3 DEF HandlerStep
  <2>7. \A t \in DOMAIN sessions' : Still(sessions'[t], t)
    <3>1. CASE EnterTable(r)
      <4>1. loggedIn(r)' /\ session' = session
        BY <3>1 DEF EnterTable, return, goto, TypeOK, Place, loggedIn
      <4>2. Still(session[r], session[r].token)
        BY <4>1
      <4>3. /\ DOMAIN sessions' = DOMAIN sessions \cup {session[r].token}
            /\ \A t \in DOMAIN sessions' :
                 sessions'[t] = IF t = session[r].token THEN session[r] ELSE sessions[t]
        BY <3>1 DEF EnterTable, entered
      <4> HIDE DEF Still
      <4> QED
        BY <2>4, <4>2, <4>3
    <3>2. CASE ~ EnterTable(r)
      <4>1. sessions' = sessions
        BY <1>2, <3>2 DEF Serve, HandlerStep, Credentials, Issue, Draw, Lookup, CheckExpiry, Handle
      <4> QED
        BY <2>4, <4>1
    <3> QED
      BY <3>1, <3>2
  <2>8. ask[r].kind = "me" /\ (pc'[r] = "expiry" \/ reply'[r] = "ok") =>
          Still(session'[r], ask[r].token)
    <3> USE DEF TypeOK, Place, goto, return
    <3> HIDE DEF Still
    <3>1. CASE Credentials(r) \/ EnterTable(r) \/ Handle(r)
      BY <3>1 DEF Credentials, EnterTable, Handle
    <3>2. CASE Issue(r) \/ Draw(r)
      BY <3>2 DEF Issue, Draw
    <3>3. CASE Lookup(r)
      BY <2>4, <3>3 DEF Lookup
    <3>4. CASE CheckExpiry(r)
      BY <2>5, <3>4 DEF CheckExpiry
    <3> QED
      BY <1>2, <3>1, <3>2, <3>3, <3>4 DEF Serve, HandlerStep
  <2> HIDE DEF Still
  <2> QED
    BY <2>2, <2>3, <2>5, <2>6, <2>7, <2>8
<1> QED
  BY <1>1, <1>2

------------------------------------------------------------------------------

LEMMA StepIInv ==
  ASSUME IInv, [Next]_vars
  PROVE  IInv'
<1>1. CASE Next
  <2>1. Counted' /\ LastDone'
    BY <1>1, CountStep DEF IInv, SessionInv
  <2>2. TypeOK' /\ Quieted'
    BY <1>1, <2>1, TypeStep, QuietedStep DEF IInv, SessionInv
  <2>3. SessionInv'
    BY <1>1, PlaceStep, DrawnStep, OwnedStep DEF IInv, SessionInv
  <2> QED
    BY <2>1, <2>2, <2>3 DEF IInv
<1>2. CASE UNCHANGED vars
  BY <1>2 DEF vars, sessionVars, processVars, IInv, TypeOK, SessionInv, Place, Login, Checked,
              Distinct, Table, Owned, drawn, loggedIn, Counted, LastDone, Inside, TurnedAway,
              turnedAway, Counting, Quieted
<1> QED
  BY <1>1, <1>2

------------------------------------------------------------------------------
(* The properties.                                                         *)

\* Every variable always has its type.
THEOREM TypeCorrect == Spec => []TypeOK
<1>1. IInv => TypeOK
  BY DEF IInv
<1> QED
  BY InitIInv, StepIInv, <1>1, PTL DEF Spec

\* Whatever a request is let through with was issued to an operator by one login, the
\* one whose response named the token.
THEOREM TokensHaveOneOwner == Spec => []TokenIsItsOwners
<1>1. IInv => TokenIsItsOwners
  <2> SUFFICES ASSUME IInv PROVE TokenIsItsOwners
    OBVIOUS
  <2> USE DEF IInv, SessionInv
  <2>1. ASSUME NEW r \in Requests, ask[r].kind = "me", reply[r] = "ok"
        PROVE  \E l \in Requests :
                 /\ loggedIn(l) /\ session[l] = session[r]
                 /\ session[r].token = ask[r].token /\ session[r].username \in Operators
    <3>1. PICK l \in Requests :
            loggedIn(l) /\ session[l] = session[r] /\ session[r].token = ask[r].token
      BY <2>1 DEF Checked, Owned
    <3>2. session[l].username \in Operators
      BY <3>1 DEF Login, drawn
    <3> QED
      BY <3>1, <3>2
  <2>2. \A l, m \in Requests :
          loggedIn(l) /\ loggedIn(m) /\ session[l].token = session[m].token => l = m
    BY DEF Distinct, drawn
  <2> QED
    BY <2>1, <2>2 DEF TokenIsItsOwners
<1> QED
  BY InitIInv, StepIInv, <1>1, PTL DEF Spec

\* A check that begins after a login was answered finds its session in the table, and
\* answers by the time of that login, whatever else was entered meanwhile.
THEOREM HonouredWhileValid == Spec => HonouredForTtl
<1>1. ASSUME IInv, Next, NEW r \in Requests, NEW l \in Requests, ask[r].kind = "me",
             pc[r] \in {"verify", "expiry"}, pc'[r] = "done",
             loggedIn(l), session[l].token = ask[r].token
      PROVE  reply'[r] = "ok" <=> now <= session[l].issuedAt + Ttl
  <2> USE <1>1 DEF IInv, SessionInv
  <2>1. PICK q \in Requests : Serve(q)
    <3>1. CASE ~ \E q \in Requests : Serve(q)
      <4>1. pc[r] = "expiry" => pc'[r] = "expiry"
        BY <3>1, OutsideStep
      <4>2. CASE pc[r] = "verify"
        <5> USE <4>2 DEF TypeOK, sessionVars, processVars, goto, move
        <5>1. CASE \E q \in Requests : Enter(q)
          <6>1. PICK q \in Requests : Enter(q)
            BY <5>1
          <6>2. pc[q] = "idle"
            BY <6>1 DEF Enter, Place
          <6> QED
            BY <6>1, <6>2 DEF Enter, Begin
        <5>2. CASE ~ \E q \in Requests : Enter(q)
          BY <3>1, <5>2 DEF Next, Tick, ListenerFails, Signal, ShutdownReturns, Wait,
             WaitReturns, Stop, Accept, Drop, Leave, CheckState, Release, recover
        <5> QED
          BY <5>1, <5>2
      <4> QED
        BY <4>1, <4>2
    <3> QED
      BY <3>1
  <2>2. q = r
    BY <2>1 DEF TypeOK, goto, return, Serve, HandlerStep, Credentials, Issue, Draw, EnterTable,
                Lookup, CheckExpiry, Handle
  <2>3. session[l].token \in DOMAIN sessions
    BY DEF Login
  <2>4. CheckExpiry(r)
    BY <2>1, <2>2, <2>3 DEF TypeOK, goto, return, Serve, HandlerStep, Credentials, Issue, Draw,
                            EnterTable, Lookup, Handle
  <2>5. PICK m \in Requests :
          loggedIn(m) /\ session[m] = session[r] /\ session[r].token = ask[r].token
    BY <2>4 DEF CheckExpiry, Checked, Owned
  <2>6. session[r] = session[l]
    BY <2>5 DEF Distinct, drawn
  <2>7. session[l].expiresAt = session[l].issuedAt + Ttl
    BY DEF Login, drawn
  <2>8. session[l].expiresAt \in Nat /\ now \in Nat
    BY DEF TypeOK, Session
  <2>9. reply'[r] = IF now > session[r].expiresAt THEN "unauthorized" ELSE "ok"
    BY <2>4 DEF CheckExpiry, return, expired, TypeOK
  <2> QED
    BY <2>6, <2>7, <2>8, <2>9
<1>2. ASSUME IInv, [Next]_vars
      PROVE  [\A r, l \in Requests :
               /\ ask[r].kind = "me" /\ pc[r] \in {"verify", "expiry"} /\ pc'[r] = "done"
               /\ loggedIn(l) /\ session[l].token = ask[r].token
               => (reply'[r] = "ok" <=> now <= session[l].issuedAt + Ttl)]_vars
  BY <1>1, <1>2
<1> QED
  BY InitIInv, StepIInv, <1>2, PTL DEF Spec, HonouredForTtl

\* serveHTTPListener returns after a signal only when the counter has let every
\* handler finish, and with nobody left outside, unless Shutdown gave up; a handler
\* is left behind only after an Add has panicked.
THEOREM DrainsBeforeReturn == Spec => DrainedBeforeReturn
<1>1. ASSUME IInv, Next, phase # "serving", phase' = "returned", NEW r \in Requests
      PROVE  /\ stage[r] = "accepted" => gaveUp
             /\ stage[r] = "inside" => gaveUp /\ \E q \in Requests : turnedAway(q)
  <2> USE <1>1 DEF IInv
  <2>1. phase \in {"wait", "woken"} /\ drained
    BY DEF Next, alive, Tick, ListenerFails, Signal, ShutdownReturns, Wait, WaitReturns, Stop,
           Accept, Drop, Enter, Serve, Leave, CheckState, Release, processVars
  <2>2. TurnedAway = {} => Inside = {}
    BY <2>1, FS_EmptySet DEF drained, Counted, Counting
  <2>3. TurnedAway # {} => gaveUp /\ \E q \in Requests : turnedAway(q)
    BY DEF LastDone, TurnedAway
  <2> QED
    BY <2>1, <2>2, <2>3 DEF Inside, Quieted
<1>2. ASSUME IInv, [Next]_vars
      PROVE  [phase # "serving" /\ phase' = "returned" =>
               \A r \in Requests :
                 /\ stage[r] = "accepted" => gaveUp
                 /\ stage[r] = "inside" => gaveUp /\ \E q \in Requests : turnedAway(q)]_vars
  BY <1>1, <1>2
<1> QED
  BY InitIInv, StepIInv, <1>2, PTL DEF Spec, DrainedBeforeReturn

==============================================================================
