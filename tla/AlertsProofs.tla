----------------------------- MODULE AlertsProofs -----------------------------
(***************************************************************************)
(* Theorems of Alerts!Spec, for any evaluations, requests and readings.    *)
(*                                                                         *)
(* Everything rests on the numbers: by[n] is the evaluation that drew n,   *)
(* so two evaluations never hold one number, no alert has a number that is *)
(* still to be added, and positionOf finds the alert an Ack has read.      *)
(* Duplicates are traced through Decided: what an evaluation that has      *)
(* found nothing open would duplicate was added by one it has met.         *)
(***************************************************************************)
EXTENDS Alerts, TLAPS

\* The numbers of an evaluation and of the alerts.
Numbered(e) ==
  /\ pc[e] \in {"number", "add"} => kinds[e] # << >>
  /\ pc[e] = "add" =>
       /\ id[e] \in 1 .. seq /\ by[id[e]] = e
       /\ \A i \in DOMAIN alerts : alerts[i].id # id[e]

\* The alert that an Ack is about to replace.
Held(a) ==
  pc[a] = "replace" =>
    \E i \in DOMAIN alerts :
      /\ alerts[i].id = id[a] /\ current[a].id = id[a] /\ current[a].kind = alerts[i].kind
      /\ current[a].status = "acknowledged"

NumberInv ==
  /\ TypeOK /\ Len(by) = seq
  /\ \A i \in DOMAIN alerts : alerts[i].id \in 1 .. seq
  /\ \A e \in Evaluations : pc[e] # "replace" /\ Numbered(e)
  /\ \A a \in Acks : Held(a) /\ pc[a] \in {"idle", "replace", "done"}
  /\ NumbersAreUnique

\* What an evaluation that has found nothing open has met.
Decided(e) ==
  pc[e] \in {"number", "add"} =>
    /\ \A o \in deciding(Head(kinds[e])) \ {e} : {e, o} \in met
    /\ \A i \in DOMAIN alerts :
         alerts[i].kind = Head(kinds[e]) /\ alerts[i].status = "open" =>
           {e, by[alerts[i].id]} \in met

IInv == NumberInv /\ (\A e \in Evaluations : Decided(e)) /\ DuplicatesOverlapped

------------------------------------------------------------------------------

\* AlertStore.Get and Replace find the alert with a number, if there is one.
LEMMA Position ==
  ASSUME NumberInv, NEW i \in DOMAIN alerts
  PROVE  positionOf(alerts[i].id) = i
<1> DEFINE found == {k \in DOMAIN alerts : alerts[k].id = alerts[i].id}
<1>1. found = {i}
  BY DEF NumberInv, NumbersAreUnique
<1>2. i \in Nat \ {0}
  BY DEF NumberInv, TypeOK
<1>3. (CHOOSE j \in found : \A k \in found : j <= k) = i
  BY <1>1, <1>2
<1> QED
  BY <1>1, <1>3 DEF positionOf

LEMMA NoPosition ==
  ASSUME TypeOK, NEW n, positionOf(n) # 0
  PROVE  \E i \in DOMAIN alerts : alerts[i].id = n
BY DEF positionOf

LEMMA InitIInv == Init => IInv
<1> SUFFICES ASSUME Init PROVE IInv
  OBVIOUS
<1> USE DEF Init
<1>1. /\ alerts \in Seq(Alert) /\ by \in Seq(Evaluations) /\ Len(by) = 0 /\ DOMAIN alerts = {}
      /\ kinds \in [Evaluations -> Seq(AlertKind)] /\ NoAlert \in Alert
  BY DEF NoAlert, Alert, AlertKind, AlertStatus
<1>2. TypeOK
  BY <1>1 DEF TypeOK
<1>3. NumberInv
  BY <1>1, <1>2 DEF NumberInv, Numbered, Held, NumbersAreUnique
<1> QED
  BY <1>1, <1>3 DEF IInv, Decided, DuplicatesOverlapped

LEMMA EvaluateStep ==
  ASSUME IInv, NEW e \in Evaluations, Evaluate(e)
  PROVE  IInv'
<1> USE DEF IInv, NumberInv, TypeOK, goto, return
<1>1. kinds' \in [Evaluations -> Seq(AlertKind)]
  <2>1. ASSUME NEW pressure \in Pressures, NEW temperature \in Temperatures
        PROVE  alertsForReading(pressure, temperature) \in Seq(AlertKind)
    <3>1. /\ << "pressure_high" >> \in Seq(AlertKind) /\ << "pressure_low" >> \in Seq(AlertKind)
          /\ << "temperature_high" >> \in Seq(AlertKind) /\ << >> \in Seq(AlertKind)
      BY DEF AlertKind
    <3>2. \A s, t \in Seq(AlertKind) : s \o t \in Seq(AlertKind)
      OBVIOUS
    <3> QED
      BY <3>1, <3>2 DEF alertsForReading
  <2>2. CASE UNCHANGED kinds
    BY <2>2
  <2>3. ASSUME NEW pressure \in Pressures, NEW temperature \in Temperatures,
               kinds' = [kinds EXCEPT ![e] = alertsForReading(pressure, temperature)]
        PROVE  kinds' \in [Evaluations -> Seq(AlertKind)]
    BY <2>1, <2>3
  <2> QED
    BY <2>2, <2>3 DEF Evaluate
<1>2. /\ \A o \in Evaluations \ {e} : pc'[o] = pc[o] /\ kinds'[o] = kinds[o]
      /\ \A a \in Acks : pc'[a] = pc[a] /\ pc'[e] \in {"next", "done"}
      /\ pc' \in [Evaluations \cup Acks -> {"idle", "next", "number", "add", "replace", "done"}]
  BY AlertsAssumption DEF Evaluate
<1>3. reply' \in [Evaluations \cup Acks -> {"none", "ok", "ctx", "not_found", "conflict"}]
  BY DEF Evaluate
<1>4. UNCHANGED << alerts, seq, id, current, by, met >>
  BY DEF Evaluate
<1>5. pc'[e] \in {"next", "done"}
  BY DEF Evaluate
<1>6. NumberInv'
  BY <1>1, <1>2, <1>3, <1>4, <1>5 DEF Numbered, Held, NumbersAreUnique
<1>7. \A o \in Evaluations : Decided(o)'
  BY <1>2, <1>4, <1>5 DEF Decided, deciding
<1> QED
  BY <1>4, <1>6, <1>7 DEF DuplicatesOverlapped

LEMMA HasOpenStep ==
  ASSUME IInv, NEW e \in Evaluations, HasOpen(e)
  PROVE  IInv'
<1> USE DEF IInv, NumberInv, TypeOK, goto
<1>1. UNCHANGED << alerts, seq, id, current, reply, by >>
  BY DEF HasOpen
<1>2. CASE hasOpen(Head(kinds[e]))
  <2>1. pc' = pc /\ met' = met /\ kinds' = [kinds EXCEPT ![e] = Tail(kinds[e])] /\ pc[e] = "next"
    BY <1>2 DEF HasOpen
  <2>2. Tail(kinds[e]) \in Seq(AlertKind)
    BY DEF HasOpen
  <2>3. NumberInv'
    BY <1>1, <2>1, <2>2 DEF Numbered, Held, NumbersAreUnique
  <2>4. \A o \in Evaluations : Decided(o)'
    BY <1>1, <2>1 DEF Decided, deciding
  <2> QED
    BY <1>1, <2>1, <2>3, <2>4 DEF DuplicatesOverlapped
<1>3. CASE ~ hasOpen(Head(kinds[e]))
  <2> DEFINE kind == Head(kinds[e])
  <2>1. /\ kinds' = kinds /\ pc' = [pc EXCEPT ![e] = "number"] /\ kinds[e] # << >>
        /\ met' = met \cup {{e, o} : o \in deciding(kind)}
    BY <1>3 DEF HasOpen
  <2>2. NumberInv'
    <3>1. /\ pc'[e] = "number" /\ \A c \in (Evaluations \cup Acks) \ {e} : pc'[c] = pc[c]
          /\ pc' \in [Evaluations \cup Acks -> {"idle", "next", "number", "add", "replace", "done"}]
      BY <2>1
    <3>2. TypeOK'
      BY <1>1, <2>1, <3>1
    <3>3. \A c \in Evaluations : pc'[c] # "replace" /\ Numbered(c)'
      BY <1>1, <2>1, <3>1 DEF Numbered
    <3>4. \A a \in Acks : Held(a)' /\ pc'[a] \in {"idle", "replace", "done"}
      BY <1>1, <3>1, AlertsAssumption DEF Held
    <3> QED
      BY <1>1, <3>2, <3>3, <3>4 DEF NumbersAreUnique
  <2>3. ASSUME NEW o \in Evaluations
        PROVE  Decided(o)'
    <3>1. \A k : deciding(k)' = deciding(k) \cup {x \in {e} : Head(kinds[e]) = k}
      BY <2>1 DEF deciding
    <3>2. \A x \in deciding(kind) : {e, x} \in met' /\ {x, e} \in met'
      <4>1. \A x \in deciding(kind) : {e, x} \in met'
        BY <2>1
      <4>2. \A x : {x, e} = {e, x}
        OBVIOUS
      <4> QED
        BY <4>1, <4>2
    <3>3. CASE o = e
      BY <1>1, <1>3, <2>1, <3>1, <3>2, <3>3 DEF Decided, hasOpen
    <3>4. CASE o # e /\ pc[o] \in {"number", "add"}
      <4>1. Head(kinds[o]) = kind => o \in deciding(kind)
        BY <3>4 DEF deciding
      <4> QED
        BY <1>1, <2>1, <3>1, <3>2, <3>4, <4>1 DEF Decided
    <3>5. CASE o # e /\ pc[o] \notin {"number", "add"}
      BY <2>1, <3>5 DEF Decided
    <3> QED
      BY <3>3, <3>4, <3>5
  <2> QED
    BY <1>1, <2>1, <2>2, <2>3 DEF DuplicatesOverlapped
<1> QED
  BY <1>2, <1>3

LEMMA NumberStep ==
  ASSUME IInv, NEW e \in Evaluations, Number(e)
  PROVE  IInv'
<1> USE DEF IInv, NumberInv, TypeOK, goto
<1>1. /\ pc[e] = "number" /\ pc' = [pc EXCEPT ![e] = "add"] /\ seq' = seq + 1
      /\ id' = [id EXCEPT ![e] = seq + 1] /\ by' = Append(by, e)
      /\ UNCHANGED << alerts, kinds, current, reply, met >>
  BY DEF Number, counted
<1>2. /\ by' \in Seq(Evaluations) /\ Len(by') = seq' /\ by'[seq + 1] = e
      /\ \A n \in 1 .. seq : by'[n] = by[n]
  BY <1>1
<1>3. id' \in [Evaluations \cup Acks -> 0 .. seq']
  <2>1. 0 .. seq \subseteq 0 .. seq' /\ seq + 1 \in 0 .. seq'
    BY <1>1
  <2> QED
    BY <1>1, <2>1
<1>4. pc' \in [Evaluations \cup Acks -> {"idle", "next", "number", "add", "replace", "done"}]
  BY <1>1
<1>5. TypeOK'
  BY <1>1, <1>2, <1>3, <1>4
<1>6. \A o \in Evaluations : pc'[o] # "replace" /\ Numbered(o)'
  BY <1>1, <1>2 DEF Numbered
<1>7. \A a \in Acks : Held(a)' /\ pc'[a] \in {"idle", "replace", "done"}
  BY <1>1, AlertsAssumption DEF Held
<1>8. NumberInv'
  BY <1>1, <1>2, <1>5, <1>6, <1>7 DEF NumbersAreUnique
<1>9. \A o \in Evaluations : Decided(o)'
  <2>1. \A k : deciding(k)' = deciding(k)
    BY <1>1 DEF deciding
  <2> QED
    BY <1>1, <1>2, <2>1 DEF Decided
<1>10. \A i \in DOMAIN alerts : by'[alerts[i].id] = by[alerts[i].id]
  BY <1>2
<1>11. DuplicatesOverlapped'
  <2>1. alerts' = alerts /\ met' = met
    BY <1>1
  <2>2. DuplicatesOverlapped
    OBVIOUS
  <2> SUFFICES ASSUME NEW i \in DOMAIN alerts, NEW k \in DOMAIN alerts, i # k,
                      alerts[i].kind = alerts[k].kind,
                      alerts[i].status = "open", alerts[k].status = "open"
               PROVE  {by'[alerts[i].id], by'[alerts[k].id]} \in met
    BY <2>1 DEF DuplicatesOverlapped
  <2>3. {by[alerts[i].id], by[alerts[k].id]} \in met
    BY <2>2 DEF DuplicatesOverlapped
  <2>4. by'[alerts[i].id] = by[alerts[i].id] /\ by'[alerts[k].id] = by[alerts[k].id]
    BY <1>10
  <2> QED
    BY <2>3, <2>4
<1> QED
  BY <1>8, <1>9, <1>11

LEMMA AddStep ==
  ASSUME IInv, NEW e \in Evaluations, Add(e)
  PROVE  IInv'
<1> USE DEF IInv, NumberInv, TypeOK, goto
<1> DEFINE kind == Head(kinds[e])
           new == [id |-> id[e], kind |-> kind, status |-> "open", actor |-> "nobody"]
           n == Len(alerts) + 1
<1>1. /\ pc[e] = "add" /\ pc' = [pc EXCEPT ![e] = "next"] /\ kinds[e] # << >>
      /\ kinds' = [kinds EXCEPT ![e] = Tail(kinds[e])] /\ alerts' = Append(alerts, new)
      /\ UNCHANGED << seq, id, current, reply, by, met >>
  BY DEF Add, Numbered
<1>2. new \in Alert /\ Tail(kinds[e]) \in Seq(AlertKind)
  <2>1. kind \in AlertKind /\ Tail(kinds[e]) \in Seq(AlertKind)
    BY <1>1
  <2> QED
    BY <2>1 DEF Alert, AlertStatus
<1>3. /\ new.id = id[e] /\ new.kind = kind /\ new.status = "open"
  OBVIOUS
<1> HIDE DEF new
<1>4. /\ alerts' \in Seq(Alert) /\ DOMAIN alerts' = DOMAIN alerts \cup {n} /\ n \notin DOMAIN alerts
      /\ alerts'[n] = new /\ \A i \in DOMAIN alerts : alerts'[i] = alerts[i]
  BY <1>1, <1>2
<1> HIDE DEF n
<1>5. TypeOK'
  BY <1>1, <1>2, <1>4
<1>6. id[e] \in 1 .. seq /\ by[id[e]] = e /\ \A i \in DOMAIN alerts : alerts[i].id # id[e]
  BY <1>1 DEF Numbered
<1>7. \A i \in DOMAIN alerts' : alerts'[i].id \in 1 .. seq'
  BY <1>1, <1>3, <1>4, <1>6
<1>8. ASSUME NEW o \in Evaluations
      PROVE  pc'[o] # "replace" /\ Numbered(o)'
  BY <1>1, <1>3, <1>4, <1>6 DEF Numbered
<1>9. ASSUME NEW a \in Acks
      PROVE  Held(a)' /\ pc'[a] \in {"idle", "replace", "done"}
  BY <1>1, <1>4, AlertsAssumption DEF Held
<1>10. NumbersAreUnique'
  BY <1>3, <1>4, <1>6 DEF NumbersAreUnique
<1>11. ASSUME NEW o \in Evaluations
       PROVE  Decided(o)'
  <2>1. SUFFICES ASSUME pc'[o] \in {"number", "add"} PROVE Decided(o)'
    BY DEF Decided
  <2>2. o # e /\ pc'[o] = pc[o] /\ kinds'[o] = kinds[o]
    BY <1>1, <2>1
  <2>3. \A k : deciding(k)' = deciding(k) \ {e}
    BY <1>1 DEF deciding
  <2>4. Head(kinds[o]) = kind => {o, e} \in met
    BY <1>1, <2>1, <2>2 DEF Decided, deciding
  <2>5. /\ \A x \in deciding(Head(kinds[o])) \ {o} : {o, x} \in met
        /\ \A i \in DOMAIN alerts :
             alerts[i].kind = Head(kinds[o]) /\ alerts[i].status = "open" =>
               {o, by[alerts[i].id]} \in met
    BY <2>1, <2>2 DEF Decided
  <2>6. ASSUME NEW i \in DOMAIN alerts', alerts'[i].kind = Head(kinds[o])
        PROVE  alerts'[i].status = "open" => {o, by[alerts'[i].id]} \in met
    <3>1. CASE i = n
      BY <1>3, <1>4, <1>6, <2>4, <2>6, <3>1
    <3>2. CASE i # n
      BY <1>4, <2>5, <2>6, <3>2
    <3> QED
      BY <3>1, <3>2
  <2>7. \A x \in deciding(Head(kinds[o]))' \ {o} : {o, x} \in met
    BY <2>2, <2>3, <2>5
  <2> QED
    BY <1>1, <2>2, <2>6, <2>7 DEF Decided
<1>12. DuplicatesOverlapped'
  <2>1. \A i \in DOMAIN alerts :
          alerts[i].kind = kind /\ alerts[i].status = "open" => {e, by[alerts[i].id]} \in met
    BY <1>1 DEF Decided
  <2>2. ASSUME NEW i \in DOMAIN alerts, alerts[i].kind = kind, alerts[i].status = "open"
        PROVE  {by[alerts[i].id], e} \in met
    <3>1. {by[alerts[i].id], e} = {e, by[alerts[i].id]}
      OBVIOUS
    <3> QED
      BY <2>1, <2>2, <3>1
  <2>3. SUFFICES ASSUME NEW i \in DOMAIN alerts', NEW k \in DOMAIN alerts', i # k,
                        alerts'[i].kind = alerts'[k].kind,
                        alerts'[i].status = "open", alerts'[k].status = "open"
                 PROVE  {by[alerts'[i].id], by[alerts'[k].id]} \in met
    BY <1>1 DEF DuplicatesOverlapped
  <2>4. CASE i = n
    BY <1>3, <1>4, <1>6, <2>1, <2>3, <2>4
  <2>5. CASE k = n
    <3>1. alerts'[i] = alerts[i] /\ alerts'[k].id = id[e] /\ alerts'[k].kind = kind
      BY <1>3, <1>4, <2>3, <2>5
    <3> QED
      BY <1>4, <1>6, <2>2, <2>3, <2>5, <3>1
  <2>6. CASE i # n /\ k # n
    BY <1>4, <2>3, <2>6 DEF DuplicatesOverlapped
  <2> QED
    BY <2>4, <2>5, <2>6
<1> QED
  BY <1>1, <1>5, <1>7, <1>8, <1>9, <1>10, <1>11, <1>12

LEMMA EvaluatedStep ==
  ASSUME IInv, NEW e \in Evaluations, Evaluated(e)
  PROVE  IInv'
<1> USE DEF IInv, NumberInv, TypeOK, goto, return, Evaluated
<1>1. NumberInv'
  BY AlertsAssumption DEF Numbered, Held, NumbersAreUnique
<1>2. \A o \in Evaluations : Decided(o)'
  BY DEF Decided, deciding
<1> QED
  BY <1>1, <1>2 DEF DuplicatesOverlapped

LEMMA AckStep ==
  ASSUME IInv, NEW a \in Acks, Ack(a)
  PROVE  IInv'
<1> USE DEF IInv, NumberInv, TypeOK, goto, return
<1>1. UNCHANGED << alerts, seq, kinds, by, met >>
  BY DEF Ack
<1> DEFINE Good ==
             /\ id' \in [Evaluations \cup Acks -> 0 .. seq] /\ current' \in [Acks -> Alert]
             /\ \A c \in (Evaluations \cup Acks) \ {a} : id'[c] = id[c] /\ pc'[c] = pc[c]
             /\ \A b \in Acks \ {a} : current'[b] = current[b]
             /\ pc' \in [Evaluations \cup Acks ->
                           {"idle", "next", "number", "add", "replace", "done"}]
             /\ pc'[a] \in {"replace", "done"} /\ Held(a)'
             /\ reply' \in [Evaluations \cup Acks ->
                              {"none", "ok", "ctx", "not_found", "conflict"}]
<1>2. ASSUME return(a, "ctx"), UNCHANGED << id, current >>
      PROVE  Good
  BY <1>1, <1>2 DEF Held
<1>3. ASSUME NEW n \in 0 .. seq, id' = [id EXCEPT ![a] = n], UNCHANGED current,
             return(a, "not_found") \/ return(a, "conflict")
      PROVE  Good
  BY <1>1, <1>3 DEF Held
<1>4. ASSUME NEW n \in 0 .. seq, id' = [id EXCEPT ![a] = n], positionOf(n) # 0,
             current' = [current EXCEPT ![a] =
               [alerts[positionOf(n)] EXCEPT !.status = "acknowledged", !.actor = a]],
             goto(a, "replace"), UNCHANGED reply
      PROVE  Good
  <2>1. PICK i \in DOMAIN alerts : alerts[i].id = n /\ positionOf(n) = i
    <3>1. PICK i \in DOMAIN alerts : alerts[i].id = n
      BY <1>4, NoPosition
    <3> QED
      BY <3>1, Position
  <2> DEFINE copy == [alerts[i] EXCEPT !.status = "acknowledged", !.actor = a]
  <2>2. /\ copy \in Alert /\ copy.id = n /\ copy.kind = alerts[i].kind
        /\ copy.status = "acknowledged"
    <3>1. alerts[i] \in Alert
      OBVIOUS
    <3> QED
      BY <2>1, <3>1 DEF Alert, AlertStatus
  <2> HIDE DEF copy
  <2>3. current' = [current EXCEPT ![a] = copy]
    BY <1>4, <2>1 DEF copy
  <2>4. Held(a)'
    BY <1>1, <1>4, <2>1, <2>2, <2>3 DEF Held
  <2> QED
    BY <1>4, <2>2, <2>3, <2>4
<1>5. Good
  BY <1>2, <1>3, <1>4 DEF Ack
<1>6. \A b \in Acks : Held(b)' /\ pc'[b] \in {"idle", "replace", "done"}
  <2>1. ASSUME NEW b \in Acks \ {a}
        PROVE  Held(b)' /\ pc'[b] \in {"idle", "replace", "done"}
    <3>1. alerts' = alerts /\ pc'[b] = pc[b] /\ id'[b] = id[b] /\ current'[b] = current[b]
      BY <1>1, <1>5
    <3>2. Held(b) /\ pc[b] \in {"idle", "replace", "done"}
      OBVIOUS
    <3> QED
      BY <3>1, <3>2 DEF Held
  <2> QED
    BY <1>5, <2>1
<1>7. \A e \in Evaluations : pc'[e] = pc[e] /\ id'[e] = id[e]
  BY <1>5, AlertsAssumption
<1>8. NumberInv'
  BY <1>1, <1>5, <1>6, <1>7 DEF Numbered, NumbersAreUnique
<1>9. \A e \in Evaluations : Decided(e)'
  BY <1>1, <1>7 DEF Decided, deciding
<1> QED
  BY <1>1, <1>8, <1>9 DEF DuplicatesOverlapped

\* What a Replace writes, and where.
LEMMA ReplacePlace ==
  ASSUME NumberInv, NEW a \in Acks, Replace(a)
  PROVE  \E i \in DOMAIN alerts :
           /\ positionOf(id[a]) = i /\ alerts[i].id = id[a]
           /\ alerts' = [alerts EXCEPT ![i] = current[a]]
           /\ current[a] \in Alert /\ current[a].id = id[a] /\ current[a].kind = alerts[i].kind
           /\ current[a].status = "acknowledged"
<1>1. PICK i \in DOMAIN alerts :
        /\ alerts[i].id = id[a] /\ current[a].id = id[a] /\ current[a].kind = alerts[i].kind
        /\ current[a].status = "acknowledged"
  BY DEF NumberInv, Held, Replace
<1>2. positionOf(id[a]) = i
  BY <1>1, Position
<1> QED
  BY <1>1, <1>2 DEF Replace, NumberInv, TypeOK

LEMMA ReplaceStep ==
  ASSUME IInv, NEW a \in Acks, Replace(a)
  PROVE  IInv'
<1> USE DEF IInv, NumberInv, TypeOK, goto, return
<1>1. PICK i \in DOMAIN alerts :
        /\ positionOf(id[a]) = i /\ alerts[i].id = id[a]
        /\ alerts' = [alerts EXCEPT ![i] = current[a]]
        /\ current[a] \in Alert /\ current[a].id = id[a] /\ current[a].kind = alerts[i].kind
        /\ current[a].status = "acknowledged"
  BY ReplacePlace
<1>2. /\ pc' = [pc EXCEPT ![a] = "done"] /\ reply' = [reply EXCEPT ![a] = "ok"]
      /\ UNCHANGED << seq, kinds, id, current, by, met >>
  BY DEF Replace
<1>3. /\ alerts' \in Seq(Alert) /\ DOMAIN alerts' = DOMAIN alerts
      /\ \A k \in DOMAIN alerts :
           /\ alerts'[k].id = alerts[k].id /\ alerts'[k].kind = alerts[k].kind
           /\ alerts'[k].status = "open" => alerts[k].status = "open"
  BY <1>1
<1>4. TypeOK'
  BY <1>2, <1>3
<1>5. ASSUME NEW e \in Evaluations
      PROVE  pc'[e] = pc[e] /\ Numbered(e)'
  <2>1. pc'[e] = pc[e]
    BY <1>2, AlertsAssumption
  <2> QED
    BY <1>2, <1>3, <2>1 DEF Numbered
<1>6. ASSUME NEW b \in Acks
      PROVE  Held(b)' /\ pc'[b] \in {"idle", "replace", "done"}
  <2>1. pc'[b] = pc[b] \/ pc'[b] = "done"
    BY <1>2
  <2>2. id'[b] = id[b] /\ current'[b] = current[b]
    BY <1>2
  <2>3. Held(b) /\ pc[b] \in {"idle", "replace", "done"}
    OBVIOUS
  <2> QED
    BY <1>3, <2>1, <2>2, <2>3 DEF Held
<1>7. NumberInv'
  <2>1. NumbersAreUnique'
    BY <1>3 DEF NumbersAreUnique
  <2>2. \A k \in DOMAIN alerts' : alerts'[k].id \in 1 .. seq'
    BY <1>2, <1>3
  <2>3. \A e \in Evaluations : pc'[e] # "replace"
    BY <1>5
  <2> QED
    BY <1>2, <1>4, <1>5, <1>6, <2>1, <2>2, <2>3
<1>8. \A e \in Evaluations : Decided(e)'
  BY <1>2, <1>3, <1>5 DEF Decided, deciding
<1> QED
  BY <1>2, <1>3, <1>7, <1>8 DEF DuplicatesOverlapped

LEMMA StepIInv ==
  ASSUME IInv, [Next]_vars
  PROVE  IInv'
<1>1. CASE Next
  BY <1>1, EvaluateStep, HasOpenStep, NumberStep, AddStep, EvaluatedStep, AckStep, ReplaceStep
     DEF Next
<1>2. CASE UNCHANGED vars
  BY <1>2 DEF vars, IInv, NumberInv, TypeOK, Numbered, Held, NumbersAreUnique, Decided,
              deciding, DuplicatesOverlapped
<1> QED
  BY <1>1, <1>2

------------------------------------------------------------------------------

\* Every variable always has its type.
THEOREM TypeCorrect == Spec => []TypeOK
<1>1. IInv => TypeOK
  BY DEF IInv, NumberInv
<1> QED
  BY InitIInv, StepIInv, <1>1, PTL DEF Spec

\* No two alerts have one number, however evaluations number and add them.
THEOREM NumbersUnique == Spec => []NumbersAreUnique
<1>1. IInv => NumbersAreUnique
  BY DEF IInv, NumberInv
<1> QED
  BY InitIInv, StepIInv, <1>1, PTL DEF Spec

\* Two open alerts of one kind come from evaluations that overlapped.
THEOREM DuplicatesNeedOverlap == Spec => []DuplicatesOverlapped
<1>1. IInv => DuplicatesOverlapped
  BY DEF IInv
<1> QED
  BY InitIInv, StepIInv, <1>1, PTL DEF Spec

\* An acknowledgement stays, and once nobody is about to write so does its actor.
THEOREM AcksAreFinal == Spec => AcknowledgedStays
<1> DEFINE stays == \A i \in DOMAIN alerts :
             /\ alerts[i].status = "acknowledged" => alerts'[i].status = "acknowledged"
             /\ settled(i) => settled(i)' /\ alerts'[i] = alerts[i]
<1>1. ASSUME IInv, NEW e \in Evaluations,
             Evaluate(e) \/ HasOpen(e) \/ Number(e) \/ Add(e) \/ Evaluated(e)
      PROVE  stays
  <2> USE <1>1 DEF IInv, NumberInv, TypeOK
  <2>1. \A i \in DOMAIN alerts : i \in DOMAIN alerts' /\ alerts'[i] = alerts[i]
    <3>1. CASE Add(e)
      <4> DEFINE new == [id |-> id[e], kind |-> Head(kinds[e]), status |-> "open",
                         actor |-> "nobody"]
      <4>1. alerts' = Append(alerts, new)
        BY <3>1 DEF Add
      <4> HIDE DEF new
      <4> QED
        BY <4>1
    <3>2. CASE Evaluate(e) \/ HasOpen(e) \/ Number(e) \/ Evaluated(e)
      BY <3>2 DEF Evaluate, HasOpen, Number, Evaluated
    <3> QED
      BY <3>1, <3>2
  <2>2. \A a \in Acks : pc'[a] = pc[a] /\ id'[a] = id[a]
    BY AlertsAssumption DEF Evaluate, HasOpen, Number, Add, Evaluated, goto, return
  <2> QED
    BY <2>1, <2>2 DEF settled
<1>2. ASSUME IInv, NEW a \in Acks, Ack(a)
      PROVE  stays
  <2> USE <1>2 DEF IInv, NumberInv, TypeOK
  <2>1. alerts' = alerts /\ \A b \in Acks \ {a} : pc'[b] = pc[b] /\ id'[b] = id[b]
    BY DEF Ack, goto, return
  <2>2. ASSUME NEW i \in DOMAIN alerts, settled(i), pc'[a] = "replace"
        PROVE  id'[a] # alerts[i].id
    <3>1. /\ positionOf(id'[a]) # 0 /\ mayAck(positionOf(id'[a]))
      BY <2>2 DEF Ack, goto, return
    <3>2. positionOf(alerts[i].id) = i
      BY Position
    <3> QED
      BY <2>2, <3>1, <3>2 DEF settled, mayAck
  <2> QED
    BY <2>1, <2>2 DEF settled
<1>3. ASSUME IInv, NEW a \in Acks, Replace(a)
      PROVE  stays
  <2> USE <1>3 DEF IInv, NumberInv, TypeOK
  <2>1. PICK n \in DOMAIN alerts :
          /\ positionOf(id[a]) = n /\ alerts[n].id = id[a]
          /\ alerts' = [alerts EXCEPT ![n] = current[a]]
          /\ current[a] \in Alert /\ current[a].id = id[a] /\ current[a].kind = alerts[n].kind
          /\ current[a].status = "acknowledged"
    BY ReplacePlace
  <2>2. /\ pc[a] = "replace" /\ id' = id
        /\ \A b \in Acks : pc'[b] = "replace" => pc[b] = "replace"
    BY DEF Replace, goto, return
  <2> QED
    BY <2>1, <2>2 DEF settled
<1> HIDE DEF stays
<1>4. IInv /\ [Next]_vars => [stays]_vars
  BY <1>1, <1>2, <1>3 DEF Next
<1> USE DEF stays
<1> QED
  BY InitIInv, StepIInv, <1>4, PTL DEF Spec, AcknowledgedStays

==============================================================================
