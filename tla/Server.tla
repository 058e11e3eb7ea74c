-------------------------------- MODULE Server --------------------------------
(***************************************************************************)
(* The process around the handlers (runtime.go): the middleware that       *)
(* counts requests, and the shutdown that a signal starts.                 *)
(*                                                                         *)
(* net/http accepts a connection, reads a request and calls the middleware *)
(* on a goroutine; from then on the lifecycle counter holds it.  On a      *)
(* signal http.Server.Shutdown closes the listener and waits until no      *)
(* connection is busy or its time is up, and serveHTTPListener then waits  *)
(* for the counter, with no limit.  A request that was accepted before and *)
(* has not reached the middleware is busy for Shutdown and unknown to the  *)
(* counter: once Shutdown has given up, it may be counted while the wait   *)
(* is ending, which sync.WaitGroup does not allow.  Add, Done and Wait are *)
(* therefore modelled by their accesses to the group's state, a counter    *)
(* and a number of waiters in one word: Done subtracts, looks at the word  *)
(* again and resets it, and any of the three may panic.  Panics of Add and *)
(* Done are caught by the recovery around the middleware.                  *)
(*                                                                         *)
(* The handlers are those of Sessions, composed with the process here.     *)
(***************************************************************************)
EXTENDS Sessions

VARIABLES
  stage,        \* where a request is, see Stage
  inflight,     \* the counter of serverLifecycle.inflight
  waiters,      \* the number of goroutines blocked in its Wait
  phase,        \* where serveHTTPListener is
  gaveUp        \* http.Server.Shutdown has run out of time

processVars == << stage, inflight, waiters, phase, gaveUp >>
vars == << sessionVars, processVars >>

\* Accepted; its handler runs; its Done has found itself the last and looks at the
\* group's state again; its Done lets the waiters go.
Stage == {"none", "accepted", "inside", "last", "release", "out"}
Phase == {"serving", "shutdown", "wait", "waiting", "woken", "returned", "failed",
          "panicked", "stopped"}

\* main ends the process once serveHTTPListener has returned or panicked.
alive == phase \notin {"returned", "failed", "panicked", "stopped"}

Init ==
  /\ SessionsInit
  /\ stage = [r \in Requests |-> "none"]
  /\ inflight = 0 /\ waiters = 0 /\ phase = "serving" /\ gaveUp = FALSE

move(r, to) == stage' = [stage EXCEPT ![r] = to]

------------------------------------------------------------------------------
(* A request.                                                              *)

\* A connection is accepted while the listener is open.
Accept(r) ==
  /\ stage[r] = "none" /\ phase = "serving"
  /\ move(r, "accepted")
  /\ UNCHANGED << sessionVars, inflight, waiters, phase, gaveUp >>

\* No request is read from it in time (ReadHeaderTimeout), or the client leaves.
Drop(r) ==
  /\ stage[r] = "accepted"
  /\ move(r, "out")
  /\ UNCHANGED << sessionVars, inflight, waiters, phase, gaveUp >>

\* Wrong: the request is not counted.
BugCount == inflight

\* inflight.Add(1)
count == inflight + 1

\* Add panics if it has raised the counter from zero under a waiter.  A counter
\* below zero is one that Done has been called on once too often.
addPanics == count < 0 \/ (waiters # 0 /\ count = 1)

\* The middleware counts the request and calls the handler.  If Add panics the request
\* stays counted, as Done is deferred after it; the recovery answers 500.
Enter(r) ==
  /\ stage[r] = "accepted"
  /\ inflight' = count
  /\ \/ ~ addPanics /\ move(r, "inside") /\ Begin(r)
     \/ /\ addPanics /\ move(r, "out")
        /\ reply' = [reply EXCEPT ![r] = "internal_error"]
        /\ UNCHANGED << sessions, sessionSequence, now, pc, ask, session >>
  /\ UNCHANGED << waiters, phase, gaveUp >>

Serve(r) ==
  /\ stage[r] = "inside"
  /\ HandlerStep(r)
  /\ UNCHANGED processVars

\* Wrong: a panic skips the count down.
BugCountDown(r) == IF reply[r] = "panic" THEN inflight ELSE inflight - 1

\* The deferred inflight.Done() runs whether the handler has returned or panics.
countDown(r) == inflight - 1

\* recoveryMiddleware, outside the one that counts, answers a panic with 500.
recover(r) ==
  /\ reply' = [reply EXCEPT ![r] = IF @ = "panic" THEN "internal_error" ELSE @]
  /\ UNCHANGED << sessions, sessionSequence, now, pc, ask, session >>

\* inflight.Done() subtracts.  The one that leaves zero to a waiter goes on, any other
\* returns, or panics if the counter is below zero (the response is out by then).
Leave(r) ==
  /\ stage[r] = "inside" /\ pc[r] = "done"
  /\ inflight' = countDown(r)
  /\ \/ /\ inflight' = 0 /\ waiters # 0
        /\ move(r, "last") /\ UNCHANGED sessionVars
     \/ /\ ~ (inflight' = 0 /\ waiters # 0)
        /\ move(r, "out") /\ recover(r)
  /\ UNCHANGED << waiters, phase, gaveUp >>

\* The last Done panics if the state is not as it left it.
CheckState(r) ==
  /\ stage[r] = "last"
  /\ \/ inflight = 0 /\ waiters # 0 /\ move(r, "release") /\ UNCHANGED sessionVars
     \/ ~ (inflight = 0 /\ waiters # 0) /\ move(r, "out") /\ recover(r)
  /\ UNCHANGED << inflight, waiters, phase, gaveUp >>

\* It resets the state, whatever was added since, and wakes the waiter.
Release(r) ==
  /\ stage[r] = "release"
  /\ inflight' = 0 /\ waiters' = 0 /\ phase' = "woken"
  /\ move(r, "out") /\ recover(r)
  /\ UNCHANGED gaveUp

------------------------------------------------------------------------------
(* serveHTTPListener.                                                      *)

\* Serve has failed: its error is returned at once, whatever still runs.
ListenerFails ==
  /\ phase = "serving" /\ phase' = "failed"
  /\ UNCHANGED << sessionVars, stage, inflight, waiters, gaveUp >>

\* SIGINT or SIGTERM: Shutdown closes the listener.  Later signals are not read.
Signal ==
  /\ phase = "serving" /\ phase' = "shutdown"
  /\ UNCHANGED << sessionVars, stage, inflight, waiters, gaveUp >>

quiet == \A r \in Requests : stage[r] \in {"none", "out"}

\* Shutdown returns: no connection is busy, or its time is up.
ShutdownReturns ==
  /\ phase = "shutdown" /\ phase' = "wait"
  /\ \/ quiet /\ UNCHANGED gaveUp
     \/ gaveUp' = TRUE
  /\ UNCHANGED << sessionVars, stage, inflight, waiters >>

\* Wrong: the counter is not waited for.
BugDrained == TRUE

drained == inflight = 0

\* lifecycle.inflight.Wait() returns at once, and serveHTTPListener with it, or blocks.
Wait ==
  /\ phase = "wait"
  /\ \/ drained /\ phase' = "returned" /\ UNCHANGED waiters
     \/ ~ drained /\ phase' = "waiting" /\ waiters' = waiters + 1
  /\ UNCHANGED << sessionVars, stage, inflight, gaveUp >>

\* Wait goes on after the last Done, and panics if the group is in use again.
WaitReturns ==
  /\ phase = "woken"
  /\ phase' = IF drained /\ waiters = 0 THEN "returned" ELSE "panicked"
  /\ UNCHANGED << sessionVars, stage, inflight, waiters, gaveUp >>

\* The runtime stops the process, which no recovery catches: two goroutines have met
\* in the map of a reading store (Readings!Race, BackfillRunner!Race).
Stop ==
  /\ phase' = "stopped"
  /\ UNCHANGED << sessionVars, stage, inflight, waiters, gaveUp >>

------------------------------------------------------------------------------

Next ==
  /\ alive
  /\ \/ Tick /\ UNCHANGED processVars
     \/ ListenerFails \/ Signal \/ ShutdownReturns \/ Wait \/ WaitReturns \/ Stop
     \/ \E r \in Requests : \/ Accept(r) \/ Drop(r) \/ Enter(r) \/ Serve(r)
                           \/ Leave(r) \/ CheckState(r) \/ Release(r)

\* Runnable goroutines are scheduled as long as the process lives.  An accepted
\* connection is read or dropped in time; no handler waits for anything but its
\* body and its response, which ReadTimeout and WriteTimeout limit; Shutdown has
\* a limit.  Clients, signals and failures may come or not.
Fairness ==
  /\ WF_vars(ShutdownReturns) /\ WF_vars(Wait) /\ WF_vars(WaitReturns)
  /\ \A r \in Requests :
       /\ WF_vars(alive /\ (Enter(r) \/ Drop(r)))
       /\ WF_vars(alive /\ Serve(r))
       /\ WF_vars(alive /\ (Leave(r) \/ CheckState(r) \/ Release(r)))

Spec == Init /\ [][Next]_vars
FairSpec == Spec /\ Fairness

------------------------------------------------------------------------------
(* Properties.                                                             *)

TypeOK ==
  /\ DOMAIN sessions \subseteq 1 .. sessionSequence
  /\ \A t \in DOMAIN sessions : sessions[t] \in Session
  /\ sessionSequence \in Nat /\ now \in Nat
  /\ pc \in [Requests -> {"idle", "credentials", "issue", "number", "enter", "verify",
                          "expiry", "handle", "done"}]
  /\ ask \in [Requests -> Ask]
  /\ session \in [Requests -> Session]
  /\ reply \in [Requests -> {"none", "ok", "unauthorized", "panic", "internal_error"}]
  /\ stage \in [Requests -> Stage]
  /\ inflight \in Int /\ (~ gaveUp => inflight \in Nat) /\ waiters \in 0 .. 1
  /\ phase \in Phase /\ gaveUp \in BOOLEAN

\* A login that was answered with a token.
loggedIn(r) == ask[r].kind = "login" /\ reply[r] = "ok"

\* A request is let through with a token only as the operator whose login was
\* answered with it, however logins and checks overlap, and two logins never get
\* the same token.
TokenIsItsOwners ==
  /\ \A r \in Requests : ask[r].kind = "me" /\ reply[r] = "ok" =>
       \E l \in Requests :
         /\ loggedIn(l) /\ session[l] = session[r]
         /\ session[r].token = ask[r].token /\ session[r].username \in Operators
  /\ \A l, m \in Requests :
       loggedIn(l) /\ loggedIn(m) /\ session[l].token = session[m].token => l = m

\* A token is honoured for Ttl from its login and no longer, once the login has been
\* answered: a check that begins to look at the table after that is let through if it
\* ends within the time, and refused if it ends later, whatever other logins do to the
\* table meanwhile.
HonouredForTtl ==
  [][\A r, l \in Requests :
       /\ ask[r].kind = "me" /\ pc[r] \in {"verify", "expiry"} /\ pc'[r] = "done"
       /\ loggedIn(l) /\ session[l].token = ask[r].token
       => (reply'[r] = "ok" <=> now <= session[l].issuedAt + Ttl)]_vars

\* Its Add has panicked: the request is counted for good.
turnedAway(r) == pc[r] = "idle" /\ reply[r] = "internal_error"

\* When serveHTTPListener returns after a signal no handler is running, panics
\* included, and every accepted request was answered, unless Shutdown gave up; and
\* then a handler can be left behind only by a Done that has wiped it out with
\* another request, whose Add has panicked.
DrainedBeforeReturn ==
  [][phase # "serving" /\ phase' = "returned" =>
       \A r \in Requests :
         /\ stage[r] = "accepted" => gaveUp
         /\ stage[r] = "inside" => gaveUp /\ \E q \in Requests : turnedAway(q)]_vars

\* After a signal serveHTTPListener returns, whether handlers panic or not, unless
\* the runtime stops the process.  Once Shutdown has given up, requests that are
\* counted late may make Wait panic; or an Add that met the last Done has panicked,
\* and Wait is never woken, or is only by a Done that wipes it out.
ShutdownEnds ==
  phase = "shutdown" ~>
    \/ phase \in {"returned", "stopped"}
    \/ gaveUp /\ phase = "panicked"
    \/ gaveUp /\ (\E r \in Requests : turnedAway(r)) /\ [](phase = "waiting")

==============================================================================
