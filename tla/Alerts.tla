------------------------------- MODULE Alerts -------------------------------
(***************************************************************************)
(* The alerts of one well: alert.go, alert_store.go and alert_service.go.  *)
(*                                                                         *)
(* EvaluateReading goes through the rules a reading breaks.  For each it   *)
(* asks the store whether an alert of that kind is open, takes a number    *)
(* and adds the alert: three steps under different locks, so that two      *)
(* evaluations may both find none and both add one.  Ack reads an alert    *)
(* and puts an acknowledged copy in its place, under two locks: two        *)
(* requests may both find it open, and the later actor stays.              *)
(*                                                                         *)
(* A definition named Bug... is a deliberately wrong variant of one that   *)
(* follows; no specification uses it.                                      *)
(***************************************************************************)
EXTENDS Integers, Sequences, FiniteSets

CONSTANTS
  Evaluations,  \* the calls of EvaluateReading, one reading each
  Acks,         \* the requests to acknowledge an alert
  Pressures,    \* the pressures and temperatures a reading may have
  Temperatures

ASSUME AlertsAssumption ==
  /\ Evaluations \cap Acks = {}
  /\ Pressures \subseteq Int /\ Temperatures \subseteq Int

VARIABLES
  alerts,       \* AlertStore.alerts
  seq,          \* AlertService.seq
  pc,           \* what a caller does next
  kinds,        \* the rules an evaluation has still to look at
  id,           \* the number an evaluation has drawn, the alert an Ack names
  current,      \* an Ack's local copy
  reply,        \* "none" until the call returns, then "ok" or the error
  \* What the program does not keep and the properties need:
  by,           \* by[n], the evaluation that drew number n
  met           \* the pairs of evaluations that were both deciding on one kind

vars == << alerts, seq, pc, kinds, id, current, reply, by, met >>

------------------------------------------------------------------------------

AlertKind == {"pressure_high", "pressure_low", "temperature_high"}
AlertStatus == {"open", "acknowledged"}

Alert == [id : Nat, kind : AlertKind, status : AlertStatus, actor : Acks \cup {"nobody"}]

\* alertsForReading, in the order of alertRules: no pressure is both too high and
\* too low, and the limits themselves break no rule.
alertsForReading(pressure, temperature) ==
  (IF pressure > 1500 THEN << "pressure_high" >> ELSE << >>)
  \o (IF pressure < 300 THEN << "pressure_low" >> ELSE << >>)
  \o (IF temperature > 250 THEN << "temperature_high" >> ELSE << >>)

NoAlert == [id |-> 0, kind |-> "pressure_high", status |-> "open", actor |-> "nobody"]

Init ==
  /\ alerts = << >> /\ seq = 0
  /\ pc = [c \in Evaluations \cup Acks |-> "idle"]
  /\ kinds = [e \in Evaluations |-> << >>]
  /\ id = [c \in Evaluations \cup Acks |-> 0]
  /\ current = [a \in Acks |-> NoAlert]
  /\ reply = [c \in Evaluations \cup Acks |-> "none"]
  /\ by = << >> /\ met = {}

goto(c, label) == pc' = [pc EXCEPT ![c] = label]

return(c, result) == goto(c, "done") /\ reply' = [reply EXCEPT ![c] = result]

------------------------------------------------------------------------------
(* EvaluateReading.                                                        *)

\* The context is looked at once, before anything is decided.
Evaluate(e) ==
  /\ pc[e] = "idle"
  /\ \/ /\ return(e, "ctx")
        /\ UNCHANGED kinds
     \/ \E pressure \in Pressures, temperature \in Temperatures :
          /\ kinds' = [kinds EXCEPT ![e] = alertsForReading(pressure, temperature)]
          /\ goto(e, "next") /\ UNCHANGED reply
  /\ UNCHANGED << alerts, seq, id, current, by, met >>

\* Wrong: only the last alert is looked at.
BugHasOpen(kind) ==
  alerts # << >> /\ alerts[Len(alerts)].kind = kind /\ alerts[Len(alerts)].status = "open"

hasOpen(kind) == \E i \in DOMAIN alerts : alerts[i].kind = kind /\ alerts[i].status = "open"

\* The evaluations that have found no open alert of a kind and not yet added one.
deciding(kind) ==
  {e \in Evaluations : pc[e] \in {"number", "add"} /\ Head(kinds[e]) = kind}

\* The next broken rule: one that has an open alert is passed over.
HasOpen(e) ==
  /\ pc[e] = "next" /\ kinds[e] # << >>
  /\ LET kind == Head(kinds[e])
     IN \/ /\ hasOpen(kind)
           /\ kinds' = [kinds EXCEPT ![e] = Tail(@)]
           /\ UNCHANGED << pc, met >>
        \/ /\ ~ hasOpen(kind)
           /\ goto(e, "number")
           /\ met' = met \cup {{e, o} : o \in deciding(kind)}
           /\ UNCHANGED kinds
  /\ UNCHANGED << alerts, seq, id, current, reply, by >>

\* Wrong: the number is read and not counted.
BugCounted == seq

\* atomic.AddUint64(&s.seq, 1)
counted == seq + 1

Number(e) ==
  /\ pc[e] = "number"
  /\ seq' = counted
  /\ id' = [id EXCEPT ![e] = seq + 1]
  /\ by' = Append(by, e)
  /\ goto(e, "add")
  /\ UNCHANGED << alerts, kinds, current, reply, met >>

\* AlertStore.Add, then the next rule.
Add(e) ==
  /\ pc[e] = "add"
  /\ alerts' = Append(alerts, [id |-> id[e], kind |-> Head(kinds[e]),
                               status |-> "open", actor |-> "nobody"])
  /\ kinds' = [kinds EXCEPT ![e] = Tail(@)]
  /\ goto(e, "next")
  /\ UNCHANGED << seq, id, current, reply, by, met >>

Evaluated(e) ==
  /\ pc[e] = "next" /\ kinds[e] = << >>
  /\ return(e, "ok")
  /\ UNCHANGED << alerts, seq, kinds, id, current, by, met >>

------------------------------------------------------------------------------
(* Ack.                                                                    *)

\* The first alert with a number, or 0.
positionOf(n) ==
  LET found == {i \in DOMAIN alerts : alerts[i].id = n}
  IN IF found = {} THEN 0 ELSE CHOOSE i \in found : \A k \in found : i <= k

\* Wrong: an alert that is acknowledged is acknowledged again.
BugMayAck(i) == TRUE

mayAck(i) == alerts[i].status = "open"

\* The request names an alert; it is read and must be open.
Ack(a) ==
  /\ pc[a] = "idle"
  /\ \/ return(a, "ctx") /\ UNCHANGED << id, current >>
     \/ \E n \in 0 .. seq :
          /\ id' = [id EXCEPT ![a] = n]
          /\ LET i == positionOf(n)
             IN \/ i = 0 /\ return(a, "not_found") /\ UNCHANGED current
                \/ /\ i # 0 /\ ~ mayAck(i)
                   /\ return(a, "conflict") /\ UNCHANGED current
                \/ /\ i # 0 /\ mayAck(i)
                   /\ current' = [current EXCEPT ![a] =
                        [alerts[i] EXCEPT !.status = "acknowledged", !.actor = a]]
                   /\ goto(a, "replace") /\ UNCHANGED reply
  /\ UNCHANGED << alerts, seq, kinds, by, met >>

\* The copy takes the alert's place; alerts are never removed, so it is there.
Replace(a) ==
  /\ pc[a] = "replace"
  /\ alerts' = [alerts EXCEPT ![positionOf(id[a])] = current[a]]
  /\ return(a, "ok")
  /\ UNCHANGED << seq, kinds, id, current, by, met >>

------------------------------------------------------------------------------

Next ==
  \/ \E e \in Evaluations : Evaluate(e) \/ HasOpen(e) \/ Number(e) \/ Add(e) \/ Evaluated(e)
  \/ \E a \in Acks : Ack(a) \/ Replace(a)

Spec == Init /\ [][Next]_vars

------------------------------------------------------------------------------
(* Properties.                                                             *)

TypeOK ==
  /\ alerts \in Seq(Alert) /\ seq \in Nat
  /\ pc \in [Evaluations \cup Acks -> {"idle", "next", "number", "add", "replace", "done"}]
  /\ kinds \in [Evaluations -> Seq(AlertKind)]
  /\ id \in [Evaluations \cup Acks -> 0 .. seq]
  /\ current \in [Acks -> Alert]
  /\ reply \in [Evaluations \cup Acks -> {"none", "ok", "ctx", "not_found", "conflict"}]
  /\ by \in Seq(Evaluations)

\* A number names one alert, so an Ack finds and replaces the alert it was sent
\* for, whatever the order in which concurrent evaluations number and add.
NumbersAreUnique ==
  \A i, k \in DOMAIN alerts : alerts[i].id = alerts[k].id => i = k

\* Two alerts of one kind are open at once only if their evaluations were both
\* between HasOpen and Add for that kind at some moment.
DuplicatesOverlapped ==
  \A i, k \in DOMAIN alerts :
    /\ i # k /\ alerts[i].kind = alerts[k].kind
    /\ alerts[i].status = "open" /\ alerts[k].status = "open"
    => {by[alerts[i].id], by[alerts[k].id]} \in met

\* An alert is settled when it is acknowledged and no Ack that read it while it
\* was open has still to write.
settled(i) ==
  /\ alerts[i].status = "acknowledged"
  /\ \A a \in Acks : pc[a] = "replace" => id[a] # alerts[i].id

\* An acknowledged alert is never open again, and once it is settled nobody takes
\* it over: its actor stays, whoever asks for it later.
AcknowledgedStays ==
  [][\A i \in DOMAIN alerts :
       /\ alerts[i].status = "acknowledged" => alerts'[i].status = "acknowledged"
       /\ settled(i) => settled(i)' /\ alerts'[i] = alerts[i]]_vars

==============================================================================
