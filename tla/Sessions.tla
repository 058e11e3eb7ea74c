------------------------------- MODULE Sessions -------------------------------
(***************************************************************************)
(* The handlers that deal with sessions: the login (auth_http.go,          *)
(* operator.go), the session table (session.go), and requireAuth before    *)
(* meHandler.  Server runs them inside the process.                        *)
(*                                                                         *)
(* SessionStore.Issue looks at the clock, draws a number and enters the    *)
(* session in three steps, and Verify looks at the table and then at the   *)
(* clock, so logins and checks overlap and time passes between the steps.  *)
(* Nothing ever takes a session out of the table.                          *)
(*                                                                         *)
(* A definition named Bug... is a deliberately wrong variant of one that   *)
(* follows; no specification uses it.                                      *)
(***************************************************************************)
EXTENDS Integers, FiniteSets

CONSTANTS
  Requests,     \* the HTTP requests, each served once
  Operators,    \* OperatorStore.byName, filled once by main
  Strangers,    \* the names a login may give that are no operator's
  Ttl,          \* SessionStore.ttl, one hour
  MaxTime       \* the clock stops here (a bound for TLC)

ASSUME SessionsAssumption ==
  /\ Operators # {} /\ Operators \cap Strangers = {}
  /\ Ttl \in Nat /\ MaxTime \in Nat

VARIABLES
  sessions,         \* SessionStore.sessions, by the number in the token
  sessionSequence,  \* the number of the last token drawn
  now,              \* the wall clock
  pc,               \* what the handler of a request does next
  ask,              \* the request: a login, a check of a token, or any other
  session,          \* the handler's local session, then the one in its context
  reply             \* the response's status, "none" until it is written

sessionVars == << sessions, sessionSequence, now, pc, ask, session, reply >>

------------------------------------------------------------------------------

Session == [token : Nat, username : Operators \cup Strangers, issuedAt : Nat, expiresAt : Nat]
NoSession == [token |-> 0, username |-> CHOOSE name \in Operators \cup Strangers : TRUE,
              issuedAt |-> 0, expiresAt |-> 0]

\* A login with a user name and a password that is right or wrong, a request with
\* a token (0: none or one that was never issued), or a request of another route.
Ask ==
  [kind : {"login"}, username : Operators \cup Strangers, right : BOOLEAN, token : {0}]
  \cup [kind : {"me", "other"}, username : Operators, right : {FALSE}, token : Nat]

NoAsk == [kind |-> "other", username |-> CHOOSE name \in Operators : TRUE,
          right |-> FALSE, token |-> 0]

SessionsInit ==
  /\ sessions = [t \in {} |-> NoSession] /\ sessionSequence = 0 /\ now = 0
  /\ pc = [r \in Requests |-> "idle"]
  /\ ask = [r \in Requests |-> NoAsk]
  /\ session = [r \in Requests |-> NoSession]
  /\ reply = [r \in Requests |-> "none"]

goto(r, label) == pc' = [pc EXCEPT ![r] = label]

return(r, status) == goto(r, "done") /\ reply' = [reply EXCEPT ![r] = status]

\* The handler of r starts on what the client has sent.
Begin(r) ==
  /\ \/ \E name \in Operators \cup Strangers, right \in BOOLEAN :
          /\ ask' = [ask EXCEPT ![r] =
               [kind |-> "login", username |-> name, right |-> right, token |-> 0]]
          /\ goto(r, "credentials")
     \/ \E token \in 0 .. sessionSequence :
          /\ ask' = [ask EXCEPT ![r] =
               [kind |-> "me", username |-> NoAsk.username, right |-> FALSE, token |-> token]]
          /\ goto(r, "verify")
     \/ UNCHANGED ask /\ goto(r, "handle")
  /\ UNCHANGED << sessions, sessionSequence, now, session, reply >>

------------------------------------------------------------------------------
(* loginHandler.                                                           *)

\* OperatorStore.Verify: the operator exists and the password is his.
verified(r) == ask[r].username \in Operators /\ ask[r].right

Credentials(r) ==
  /\ pc[r] = "credentials"
  /\ \/ verified(r) /\ goto(r, "issue") /\ UNCHANGED reply
     \/ ~ verified(r) /\ return(r, "unauthorized")
  /\ UNCHANGED << sessions, sessionSequence, now, ask, session >>

\* now := s.clock.Now()
Issue(r) ==
  /\ pc[r] = "issue"
  /\ session' = [session EXCEPT ![r] =
       [token |-> 0, username |-> ask[r].username, issuedAt |-> now, expiresAt |-> now + Ttl]]
  /\ goto(r, "number")
  /\ UNCHANGED << sessions, sessionSequence, now, ask, reply >>

\* Wrong: the number follows those in the table, not those drawn.
BugNumber == Cardinality(DOMAIN sessions) + 1

\* atomic.AddUint64(&sessionSequence, 1)
number == sessionSequence + 1

Draw(r) ==
  /\ pc[r] = "number"
  /\ sessionSequence' = sessionSequence + 1
  /\ session' = [session EXCEPT ![r].token = number]
  /\ goto(r, "enter")
  /\ UNCHANGED << sessions, now, ask, reply >>

\* Wrong: a login ends the other sessions.
BugEntered(r) == [t \in {session[r].token} |-> session[r]]

\* s.sessions[token] = session
entered(r) == [t \in DOMAIN sessions \cup {session[r].token} |->
                 IF t = session[r].token THEN session[r] ELSE sessions[t]]

\* The session is in the table before its token is in the response.
EnterTable(r) ==
  /\ pc[r] = "enter"
  /\ sessions' = entered(r)
  /\ return(r, "ok")
  /\ UNCHANGED << sessionSequence, now, ask, session >>

------------------------------------------------------------------------------
(* requireAuth and meHandler.                                              *)

\* The table is looked up under the lock.
Lookup(r) ==
  /\ pc[r] = "verify"
  /\ LET token == ask[r].token
     IN \/ /\ token \notin DOMAIN sessions
           /\ return(r, "unauthorized") /\ UNCHANGED session
        \/ /\ token \in DOMAIN sessions
           /\ session' = [session EXCEPT ![r] = sessions[token]]
           /\ goto(r, "expiry") /\ UNCHANGED reply
  /\ UNCHANGED << sessions, sessionSequence, now, ask >>

\* The clock is after ExpiresAt; a token is good at that very moment.
expired(s) == now > s.expiresAt

\* The clock is looked at without the lock; meHandler answers with the user of the
\* session in the request's context.
CheckExpiry(r) ==
  /\ pc[r] = "expiry"
  /\ return(r, IF expired(session[r]) THEN "unauthorized" ELSE "ok")
  /\ UNCHANGED << sessions, sessionSequence, now, ask, session >>

------------------------------------------------------------------------------

\* Any other handler, of which nothing is said but that it returns or panics (the
\* page bounds of OpsService.Search may be out of range, see OpsSearch).
Handle(r) ==
  /\ pc[r] = "handle"
  /\ \E status \in {"ok", "panic"} : return(r, status)
  /\ UNCHANGED << sessions, sessionSequence, now, ask, session >>

HandlerStep(r) ==
  \/ Credentials(r) \/ Issue(r) \/ Draw(r) \/ EnterTable(r)
  \/ Lookup(r) \/ CheckExpiry(r) \/ Handle(r)

Tick ==
  /\ now < MaxTime
  /\ now' = now + 1
  /\ UNCHANGED << sessions, sessionSequence, pc, ask, session, reply >>

==============================================================================
