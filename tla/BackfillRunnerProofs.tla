------------------------- MODULE BackfillRunnerProofs -------------------------
(***************************************************************************)
(* Proofs about BackfillRunner, for any number of jobs, readings and       *)
(* workers and any channel capacity.                                       *)
(*                                                                         *)
(* NeverSettles is not inductive: it does not say why finalize is not      *)
(* reached.  IInv adds the knot: from the moment run() has started its     *)
(* goroutines the consumer is counted by the wait group, so the group is   *)
(* never empty, ch never closed, and the consumer never past its loop.     *)
(* Of a repaired job it still says that its goroutines are started once    *)
(* and ch is closed only when no worker is left.                           *)
(*                                                                         *)
(* Shared says which lines are between the workers and the store, by the   *)
(* remainders that tell the workers apart; Drained says that a worker of a *)
(* job that is not cancelled leaves only when its lines are sent.          *)
(*                                                                         *)
(* StoreInv follows the lines into the store.  Every slice, the well's and *)
(* those the consumers are extending, holds lines whose Append has written *)
(* (begun), none twice; and a line stored alone is no further from the end *)
(* of any of them than the stores that came after it.  An Append that      *)
(* writes in place writes behind its own slice, which shows the line too,  *)
(* so it cannot be the line that it writes over.                           *)
(***************************************************************************)
EXTENDS BackfillRunner, SequenceTheorems, FiniteSetTheorems, TLAPS

\* Only the step from load to store touches what the name stands for.
USE DEF store

\* The goroutines of job j wait for each other.
Knot(j) ==
  /\ consumer[j] \in {"none", "receive", "load", "append", "store", "bump"}
  /\ consumer[j] # "none" => Consumer \in wg[j]
  /\ \A channel \in {"ch", "done", "finished"} : << j, channel >> \notin closed
  /\ runner[j] \in {"none", "start", "wait_done"}
  /\ status[j] \in {"absent", "queued", "running"}

\* The goroutines of job j are started together, and ch is closed after that and
\* after the last worker has left.
Started(j) ==
  /\ status[j] = "absent" => runner[j] = "none"
  /\ runner[j] \in {"none", "start"} <=> consumer[j] = "none"
  /\ << j, "ch" >> \in closed => consumer[j] # "none" /\ wg[j] \cap Workers = {}

Tied(j) == (j \notin Repaired => Knot(j)) /\ Started(j)

\* The consumer has appended what it counted, and the reading it counts next.
Counted(j) ==
  /\ hand[j] # << >> => consumer[j] \in {"load", "append", "store"}
  /\ consumer[j] \in {"load", "append", "store"} => Len(hand[j]) = 1
  /\ consumer[j] = "none" => hand[j] = << >>
  /\ Len(appended[j]) = inserted[j] + (IF consumer[j] = "bump" THEN 1 ELSE 0)

IInv ==
  /\ TypeOK
  /\ \A j \in Jobs : Tied(j) /\ Counted(j)

------------------------------------------------------------------------------

LEMMA WorkersType ==
  ASSUME TypeOK, NEW j \in Jobs
  PROVE  workers(j) \in 0 .. MaxWorkers
<1>1. total[j] \in Nat /\ MaxWorkers \in Nat
  BY BackfillAssumption DEF TypeOK
<1> QED
  BY <1>1 DEF workers

LEMMA InitIInv == Init => IInv
<1> SUFFICES ASSUME Init PROVE IInv
  OBVIOUS
<1>1. TypeOK
  <2>1. next \in [Jobs -> [Workers -> Nat]]
    BY DEF Init, Workers
  <2>2. /\ status \in [Jobs -> Status] /\ runner \in [Jobs -> RunnerPC]
        /\ consumer \in [Jobs -> ConsumerPC]
    BY DEF Init, Status, RunnerPC, ConsumerPC
  <2>3. /\ hand \in [Jobs -> Seq(Nat)] /\ ch \in [Jobs -> Seq(Nat)]
        /\ appended \in [Jobs -> Seq(Nat)]
    <3>1. << >> \in Seq(Nat)
      OBVIOUS
    <3> QED
      BY <3>1 DEF Init
  <2>4. wg \in [Jobs -> SUBSET (0 .. MaxWorkers)]
    BY DEF Init
  <2>5. /\ byWell \in Seq(Entry) /\ Len(byWell) <= MaxKeep
        /\ slice \in [Jobs -> Seq(Entry)] /\ \A j \in Jobs : Len(slice[j]) <= MaxKeep
        /\ latest \in Seq(SUBSET Entry) /\ Len(latest) <= MaxKeep
    <3>1. << >> \in Seq(Entry) /\ << >> \in Seq(SUBSET Entry) /\ Len(<< >>) = 0
      OBVIOUS
    <3> QED
      BY <3>1, BackfillAssumption DEF Init
  <2> QED
    BY <2>1, <2>2, <2>3, <2>4, <2>5 DEF Init, TypeOK
<1>2. \A j \in Jobs : Tied(j)
  BY DEF Init, Tied, Knot, Started
<1>3. ASSUME NEW j \in Jobs PROVE Counted(j)
  <2>1. /\ hand[j] = << >> /\ appended[j] = << >>
        /\ consumer[j] = "none" /\ inserted[j] = 0
    BY DEF Init
  <2>2. Len(appended[j]) = 0
    BY <2>1
  <2> QED
    BY <2>1, <2>2 DEF Counted
<1> QED
  BY <1>1, <1>2, <1>3 DEF IInv

LEMMA PayloadSize ==
  ASSUME NEW payload \in Payload
  PROVE  Cardinality(lines(payload)) \in Nat
<1>1. PICK n \in 0 .. MaxLines : payload \in [1 .. n -> {"blank", "valid", "bad"}]
  BY DEF Payload
<1>2. IsFiniteSet(1 .. n)
  BY <1>1, BackfillAssumption, FS_Interval
<1>3. lines(payload) \in SUBSET (1 .. n)
  BY <1>1 DEF lines
<1> QED
  BY <1>2, <1>3, FS_Subset, FS_CardinalityType

LEMMA StartStep ==
  ASSUME IInv, NEW j \in Jobs, Start(j)
  PROVE  IInv'
<1>1. TypeOK'
  <2>1. PICK payload \in Payload : total' = [total EXCEPT ![j] = Cardinality(lines(payload))]
    BY DEF Start
  <2>2. total' \in [Jobs -> Nat]
    BY <2>1, PayloadSize DEF IInv, TypeOK
  <2> QED
    BY <2>2 DEF Start, IInv, TypeOK, Status, RunnerPC
<1>2. \A k \in Jobs : Tied(k)'
  BY DEF Start, IInv, TypeOK, Tied, Knot, Started
<1>3. \A k \in Jobs : Counted(k)'
  BY DEF Start, IInv, TypeOK, Counted
<1> QED
  BY <1>1, <1>2, <1>3 DEF IInv

LEMMA LaunchStep ==
  ASSUME IInv, NEW j \in Jobs, Launch(j)
  PROVE  IInv'
<1>1. group(j) \in SUBSET (0 .. MaxWorkers)
  BY WorkersType, BackfillAssumption DEF IInv, group, Consumer
<1>2. TypeOK'
  BY <1>1 DEF Launch, IInv, TypeOK, Status, RunnerPC, ConsumerPC
<1>3. consumer[j] = "none" /\ << j, "ch" >> \notin closed
  BY DEF Launch, IInv, Tied, Started
<1>4. j \notin Repaired => Consumer \in group(j)
  BY DEF group
<1>5. \A k \in Jobs : Tied(k)'
  BY <1>3, <1>4 DEF Launch, IInv, TypeOK, Tied, Knot, Started
<1>6. \A k \in Jobs : Counted(k)'
  BY <1>3 DEF Launch, IInv, TypeOK, Counted
<1> QED
  BY <1>2, <1>5, <1>6 DEF IInv

\* The consumer receives a reading.
LEMMA ReceiveStep ==
  ASSUME IInv, NEW j \in Jobs, Receive(j), ch[j] # << >>
  PROVE  IInv'
<1>1. /\ consumer[j] = "receive"
      /\ hand' = [hand EXCEPT ![j] = << Head(ch[j]) >>]
      /\ ch' = [ch EXCEPT ![j] = Tail(ch[j])]
      /\ consumer' = [consumer EXCEPT ![j] = "load"]
      /\ UNCHANGED << progress, cancelled, runner, next, wg, closed, appended, store, raced >>
  BY DEF Receive
<1>2. TypeOK'
  <2>1. ch[j] \in Seq(Nat)
    BY DEF IInv, TypeOK
  <2>2. Head(ch[j]) \in Nat /\ Tail(ch[j]) \in Seq(Nat)
    BY <2>1
  <2>3. hand' \in [Jobs -> Seq(Nat)] /\ ch' \in [Jobs -> Seq(Nat)]
    BY <1>1, <2>2 DEF IInv, TypeOK
  <2> QED
    BY <1>1, <2>3 DEF IInv, TypeOK, ConsumerPC, progress
<1>3. ASSUME NEW k \in Jobs PROVE Tied(k)'
  BY <1>1 DEF IInv, TypeOK, Tied, Knot, Started, progress
<1>4. ASSUME NEW k \in Jobs PROVE Counted(k)'
  <2>1. CASE k = j
    <3>1. hand'[j] = << Head(ch[j]) >> /\ Len(hand'[j]) = 1
      BY <1>1 DEF IInv, TypeOK
    <3> QED
      BY <1>1, <2>1, <3>1 DEF IInv, TypeOK, Counted, progress
  <2>2. CASE k # j
    BY <1>1, <2>2 DEF IInv, TypeOK, Counted, progress
  <2> QED
    BY <2>1, <2>2
<1> QED
  BY <1>2, <1>3, <1>4 DEF IInv

------------------------------------------------------------------------------
(* Appends.                                                                *)

LEMMA LastOf ==
  ASSUME NEW S, NEW s \in Seq(S), NEW n \in Nat \ {0}
  PROVE  /\ lastOf(s, n) \in Seq(S)
         /\ Len(lastOf(s, n)) = IF Len(s) > n THEN n ELSE Len(s)
         /\ \A i \in 1 .. Len(lastOf(s, n)) :
              lastOf(s, n)[i] = s[i + (IF Len(s) > n THEN Len(s) - n ELSE 0)]
BY DEF lastOf

\* An append behind s changes of another slice t only the place behind s, and that
\* only if t has grown from s.
LEMMA Written ==
  ASSUME NEW S, NEW t \in Seq(S), NEW s \in Seq(S), NEW x \in S, NEW capacity
  PROVE  /\ written(t, s, x, capacity) \in Seq(S)
         /\ Len(written(t, s, x, capacity)) = Len(t)
         /\ \A i \in 1 .. Len(t) :
              \/ written(t, s, x, capacity)[i] = t[i]
              \/ /\ i = Len(s) + 1 /\ written(t, s, x, capacity)[i] = x
                 /\ \A m \in 1 .. Len(s) : m \in 1 .. Len(t) /\ t[m] = s[m]
<1>1. CASE Len(t) \in Len(s) + 1 .. capacity /\ IsPrefix(s, t)
  <2>1. written(t, s, x, capacity) = [t EXCEPT ![Len(s) + 1] = x]
    BY <1>1 DEF written
  <2>2. Len(s) <= Len(t) /\ SubSeq(s, 1, Len(s)) = SubSeq(t, 1, Len(s))
    BY <1>1 DEF IsPrefix
  <2>3. \A m \in 1 .. Len(s) : m \in 1 .. Len(t) /\ t[m] = s[m]
    <3> TAKE m \in 1 .. Len(s)
    <3>1. SubSeq(s, 1, Len(s))[m] = s[m] /\ SubSeq(t, 1, Len(s))[m] = t[m]
      BY <2>2
    <3> QED
      BY <2>2, <3>1
  <2>4. Len(s) + 1 \in 1 .. Len(t)
    BY <1>1
  <2>5. PICK m \in 1 .. Len(t) : m = Len(s) + 1
    BY <2>4
  <2>6. PICK u : u = [t EXCEPT ![m] = x]
    OBVIOUS
  <2>7. /\ u \in Seq(S) /\ Len(u) = Len(t)
        /\ \A i \in 1 .. Len(t) : u[i] = IF i = m THEN x ELSE t[i]
    BY <2>6, ExceptSeq
  <2> QED
    BY <2>1, <2>3, <2>5, <2>6, <2>7
<1>2. CASE ~ (Len(t) \in Len(s) + 1 .. capacity /\ IsPrefix(s, t))
  BY <1>2 DEF written
<1> QED
  BY <1>1, <1>2

LEMMA LoadStep ==
  ASSUME IInv, NEW j \in Jobs, Load(j)
  PROVE  IInv'
<1>1. TypeOK'
  <2>1. /\ slice' \in [Jobs -> Seq(Entry)] /\ \A k \in Jobs : Len(slice'[k]) <= MaxKeep
        /\ overlapped' \subseteq Jobs
    BY DEF Load, inAppend, IInv, TypeOK
  <2>2. Entry' = Entry
    BY DEF Entry
  <2> QED
    BY <2>1, <2>2 DEF Load, IInv, TypeOK, ConsumerPC, progress
<1>2. ASSUME NEW k \in Jobs PROVE Tied(k)' /\ Counted(k)'
  BY DEF Load, IInv, TypeOK, Tied, Knot, Started, Counted, progress
<1> QED
  BY <1>1, <1>2 DEF IInv

LEMMA ReadingType ==
  ASSUME IInv, NEW j \in Jobs, consumer[j] \in {"load", "append", "store"}
  PROVE  reading(j) \in Entry
<1>1. hand[j] \in Seq(Nat) /\ Len(hand[j]) = 1
  BY DEF IInv, TypeOK, Counted
<1> QED
  BY <1>1 DEF reading, Entry

\* What an Append writes, and to which slices.
LEMMA AppendType ==
  ASSUME IInv, NEW j \in Jobs, AppendLocal(j)
  PROVE  /\ reading(j) \in Entry /\ slice[j] \in Seq(Entry)
         /\ \E capacity :
              /\ byWell' = written(byWell, slice[j], reading(j), capacity)
              /\ \A k \in Jobs \ {j} :
                   slice'[k] = written(slice[k], slice[j], reading(j), capacity)
         /\ slice'[j] = keep(Append(slice[j], reading(j)))
         /\ slice' = [k \in Jobs |-> slice'[k]]
<1>1. reading(j) \in Entry /\ slice[j] \in Seq(Entry)
  BY ReadingType DEF AppendLocal, IInv, TypeOK
<1> QED
  BY <1>1 DEF AppendLocal

LEMMA AppendLocalStep ==
  ASSUME IInv, NEW j \in Jobs, AppendLocal(j)
  PROVE  IInv'
<1>1. PICK x \in Entry, s \in Seq(Entry) : x = reading(j) /\ s = slice[j]
  BY AppendType
<1>2. PICK capacity :
        /\ byWell' = written(byWell, s, x, capacity)
        /\ \A k \in Jobs \ {j} : slice'[k] = written(slice[k], s, x, capacity)
  BY <1>1, AppendType
<1>3. byWell' \in Seq(Entry) /\ Len(byWell') <= MaxKeep
  BY <1>2, Written DEF IInv, TypeOK
<1>4. ASSUME NEW k \in Jobs PROVE slice'[k] \in Seq(Entry) /\ Len(slice'[k]) <= MaxKeep
  <2>1. CASE k = j
    <3>1. Append(s, x) \in Seq(Entry)
      OBVIOUS
    <3>2. PICK a \in Seq(Entry) : a = Append(s, x)
      BY <3>1
    <3>3. slice'[k] = lastOf(a, MaxKeep)
      BY <1>1, <2>1, <3>2, AppendType DEF keep
    <3>4. lastOf(a, MaxKeep) \in Seq(Entry) /\ Len(lastOf(a, MaxKeep)) <= MaxKeep
      BY LastOf, BackfillAssumption
    <3> QED
      BY <3>3, <3>4
  <2>2. CASE k # j
    BY <1>2, <2>2, Written DEF IInv, TypeOK
  <2> QED
    BY <2>1, <2>2
<1>5. TypeOK'
  <2>1. slice' \in [Jobs -> Seq(Entry)]
    BY <1>4, AppendType
  <2>2. Entry' = Entry
    BY DEF Entry
  <2> QED
    BY <1>3, <1>4, <2>1, <2>2 DEF AppendLocal, IInv, TypeOK, ConsumerPC, progress
<1>6. ASSUME NEW k \in Jobs PROVE Tied(k)' /\ Counted(k)'
  BY DEF AppendLocal, IInv, TypeOK, Tied, Knot, Started, Counted, progress
<1> QED
  BY <1>5, <1>6 DEF IInv

\* What a Store does to the list of the latest ones.
LEMMA StoreType ==
  ASSUME IInv, NEW j \in Jobs, Store(j)
  PROVE  \E S \in SUBSET Entry :
           /\ \A x \in S : x = reading(j) /\ j \notin overlapped
           /\ latest' = lastOf(Append(latest, S), MaxKeep)
<1> DEFINE S == {reading(k) : k \in {j} \ overlapped}
<1>1. S \in SUBSET Entry
  BY ReadingType DEF Store
<1> QED
  BY <1>1 DEF Store

LEMMA StoreStep ==
  ASSUME IInv, NEW j \in Jobs, Store(j)
  PROVE  IInv'
<1>1. /\ appended[j] \in Seq(Nat) /\ hand[j] \in Seq(Nat)
      /\ Len(hand[j]) = 1
  BY DEF Store, IInv, TypeOK, Counted
<1>2. /\ appended[j] \o hand[j] \in Seq(Nat)
      /\ Len(appended[j] \o hand[j]) = Len(appended[j]) + 1
  <2>1. /\ appended[j] \o hand[j] \in Seq(Nat)
        /\ Len(appended[j] \o hand[j]) = Len(appended[j]) + Len(hand[j])
    BY <1>1, ConcatProperties, Zenon
  <2> QED
    BY <1>1, <2>1
<1>3. TypeOK'
  <2>1. latest' \in Seq(SUBSET Entry) /\ Len(latest') <= MaxKeep
    <3>1. PICK S \in SUBSET Entry : latest' = lastOf(Append(latest, S), MaxKeep)
      BY StoreType
    <3>2. PICK a \in Seq(SUBSET Entry) : a = Append(latest, S)
      <4>1. latest \in Seq(SUBSET Entry)
        BY DEF IInv, TypeOK
      <4>2. Append(latest, S) \in Seq(SUBSET Entry)
        BY <4>1
      <4> QED
        BY <4>2
    <3>3. lastOf(a, MaxKeep) \in Seq(SUBSET Entry) /\ Len(lastOf(a, MaxKeep)) <= MaxKeep
      BY LastOf, BackfillAssumption
    <3> QED
      BY <3>1, <3>2, <3>3
  <2>2. /\ byWell' \in Seq(Entry) /\ Len(byWell') <= MaxKeep
        /\ slice' \in [Jobs -> Seq(Entry)] /\ \A k \in Jobs : Len(slice'[k]) <= MaxKeep
        /\ overlapped' \subseteq Jobs
    <3>1. << >> \in Seq(Entry) /\ Len(<< >>) = 0 /\ MaxKeep \in Nat
      BY BackfillAssumption
    <3> QED
      BY <3>1 DEF Store, IInv, TypeOK
  <2>3. Entry' = Entry
    BY DEF Entry
  <2> QED
    BY <1>2, <2>1, <2>2, <2>3 DEF Store, afterAppend, IInv, TypeOK, ConsumerPC, progress
<1>4. ASSUME NEW k \in Jobs PROVE Tied(k)'
  BY DEF Store, afterAppend, IInv, TypeOK, Tied, Knot, Started, progress
<1>5. ASSUME NEW k \in Jobs PROVE Counted(k)'
  <2>1. CASE k = j
    <3>1. /\ appended'[j] = appended[j] \o hand[j] /\ hand'[j] = << >>
          /\ consumer'[j] = "bump" /\ consumer[j] = "store"
          /\ inserted'[j] = inserted[j]
      BY DEF Store, afterAppend, IInv, TypeOK, progress
    <3>2. Len(appended[j]) = inserted[j] /\ inserted[j] \in Nat
      <4>1. Counted(j) /\ inserted[j] \in Nat
        BY DEF IInv, TypeOK
      <4> QED
        BY <3>1, <4>1 DEF Counted
    <3>3. Len(appended'[j]) = inserted'[j] + 1
      BY <1>2, <3>1, <3>2
    <3>4. Len(hand'[j]) = 0 /\ hand'[j] = << >>
      BY <3>1
    <3> QED
      BY <2>1, <3>1, <3>3, <3>4 DEF Counted
  <2>2. CASE k # j
    BY <2>2 DEF Store, afterAppend, IInv, TypeOK, Counted, progress
  <2> QED
    BY <2>1, <2>2
<1> QED
  BY <1>3, <1>4, <1>5 DEF IInv

------------------------------------------------------------------------------
(* The other steps.                                                        *)

LEMMA BumpInsertedStep ==
  ASSUME IInv, NEW j \in Jobs, BumpInserted(j)
  PROVE  IInv'
<1>1. TypeOK'
  <2>1. inserted' \in [Jobs -> Nat] /\ consumer' \in [Jobs -> ConsumerPC]
    BY DEF BumpInserted, IInv, TypeOK, ConsumerPC
  <2> QED
    BY <2>1 DEF BumpInserted, IInv, TypeOK
<1>2. ASSUME NEW k \in Jobs PROVE Tied(k)'
  BY DEF BumpInserted, IInv, TypeOK, Tied, Knot, Started
<1>3. ASSUME NEW k \in Jobs PROVE Counted(k)'
  <2>1. CASE k = j
    <3>1. /\ inserted'[j] = inserted[j] + 1 /\ consumer[j] = "bump" /\ consumer'[j] = "receive"
          /\ hand' = hand /\ appended' = appended /\ inserted[j] \in Nat
      BY DEF BumpInserted, IInv, TypeOK
    <3>2. Counted(j)
      BY DEF IInv
    <3> QED
      BY <2>1, <3>1, <3>2 DEF Counted
  <2>2. CASE k # j
    BY <2>2 DEF BumpInserted, IInv, TypeOK, Counted
  <2> QED
    BY <2>1, <2>2
<1> QED
  BY <1>1, <1>2, <1>3 DEF IInv

LEMMA SendStep ==
  ASSUME IInv, NEW j \in Jobs, NEW w \in Workers, Send(j, w)
  PROVE  IInv'
<1>1. stride(j) \in Nat
  BY WorkersType, BackfillAssumption DEF IInv, stride
<1>2. next[j][w] \in Nat /\ next[j][w] + stride(j) \in Nat
  BY <1>1 DEF IInv, TypeOK
<1>3. Append(ch[j], next[j][w]) \in Seq(Nat)
  BY <1>2 DEF IInv, TypeOK
<1>4. TypeOK'
  <2>1. ch' \in [Jobs -> Seq(Nat)]
    BY <1>3 DEF Send, IInv, TypeOK
  <2>2. next' \in [Jobs -> [Workers -> Nat]]
    BY <1>2 DEF Send, IInv, TypeOK
  <2> QED
    BY <2>1, <2>2 DEF Send, IInv, TypeOK, progress
<1>5. \A k \in Jobs : Tied(k)' /\ Counted(k)'
  BY DEF Send, IInv, Tied, Knot, Started, Counted, progress
<1> QED
  BY <1>4, <1>5 DEF IInv

LEMMA LeaveStep ==
  ASSUME IInv, NEW j \in Jobs, NEW w \in Workers, Leave(j, w)
  PROVE  IInv'
<1>1. TypeOK'
  BY DEF Leave, IInv, TypeOK, progress
<1>2. w # Consumer
  BY DEF Workers, Consumer
<1>3. ASSUME NEW k \in Jobs PROVE Tied(k)'
  BY <1>2 DEF Leave, IInv, TypeOK, Tied, Knot, Started, progress
<1>4. ASSUME NEW k \in Jobs PROVE Counted(k)'
  BY DEF Leave, IInv, Counted, progress
<1> QED
  BY <1>1, <1>3, <1>4 DEF IInv

\* The consumer finds ch closed and empty.
LEMMA LastReceiveStep ==
  ASSUME IInv, NEW j \in Jobs, Receive(j), ch[j] = << >>
  PROVE  IInv'
<1>1. /\ consumer[j] = "receive" /\ << j, "ch" >> \in closed
      /\ consumer' = [consumer EXCEPT ![j] = "close_done"]
      /\ UNCHANGED << progress, cancelled, runner, hand, next, wg, ch, closed, appended,
                      store, raced >>
  BY DEF Receive
<1>2. TypeOK'
  BY <1>1 DEF IInv, TypeOK, ConsumerPC, progress
<1>3. j \in Repaired
  BY <1>1 DEF IInv, Tied, Knot
<1>4. \A k \in Jobs : Tied(k)' /\ Counted(k)'
  BY <1>1, <1>3 DEF IInv, TypeOK, Tied, Knot, Started, Counted, progress
<1> QED
  BY <1>2, <1>4 DEF IInv

LEMMA CloseDoneStep ==
  ASSUME IInv, NEW j \in Jobs, CloseDone(j)
  PROVE  IInv'
<1>1. TypeOK'
  <2>1. /\ consumer' \in [Jobs -> ConsumerPC]
        /\ closed' \subseteq Jobs \X {"ch", "done", "finished"}
        /\ wg' \in [Jobs -> SUBSET (0 .. MaxWorkers)]
    BY DEF CloseDone, IInv, TypeOK, ConsumerPC
  <2>2. Entry' = Entry
    BY DEF Entry
  <2> QED
    BY <2>1, <2>2 DEF CloseDone, IInv, TypeOK, progress
<1>2. j \in Repaired
  BY DEF CloseDone, IInv, Tied, Knot
<1>3. \A k \in Jobs : Tied(k)' /\ Counted(k)'
  BY <1>2 DEF CloseDone, IInv, TypeOK, Tied, Knot, Started, Counted, progress
<1> QED
  BY <1>1, <1>3 DEF IInv

\* The closer waits for the whole group, so no worker is left to send.
LEMMA CloseChStep ==
  ASSUME IInv, NEW j \in Jobs, CloseCh(j)
  PROVE  IInv'
<1>1. TypeOK'
  <2>1. closed' \subseteq Jobs \X {"ch", "done", "finished"}
    BY DEF CloseCh, IInv, TypeOK
  <2>2. Entry' = Entry
    BY DEF Entry
  <2> QED
    BY <2>1, <2>2 DEF CloseCh, IInv, TypeOK, progress, goroutines
<1>2. j \in Repaired
  BY DEF CloseCh, idle, IInv, Tied, Knot
<1>3. \A k \in Jobs : Tied(k)' /\ Counted(k)'
  BY <1>2 DEF CloseCh, idle, IInv, Tied, Knot, Started, Counted, progress, goroutines
<1> QED
  BY <1>1, <1>3 DEF IInv

\* run() after <-done, which only a repaired job reaches.
LEMMA SettleStep ==
  ASSUME IInv, NEW j \in Jobs, AwaitDone(j) \/ Finalize(j) \/ CloseFinished(j)
  PROVE  IInv'
<1>1. j \in Repaired
  BY DEF AwaitDone, Finalize, CloseFinished, IInv, Tied, Knot
<1>2. CASE AwaitDone(j)
  <2>1. TypeOK'
    BY <1>2 DEF AwaitDone, IInv, TypeOK, RunnerPC, progress
  <2>2. \A k \in Jobs : Tied(k)' /\ Counted(k)'
    BY <1>1, <1>2 DEF AwaitDone, IInv, TypeOK, Tied, Knot, Started, Counted, progress
  <2> QED
    BY <2>1, <2>2 DEF IInv
<1>3. CASE Finalize(j)
  <2>1. TypeOK'
    BY <1>3 DEF Finalize, IInv, TypeOK, RunnerPC, Status
  <2>2. \A k \in Jobs : Tied(k)' /\ Counted(k)'
    BY <1>1, <1>3 DEF Finalize, IInv, TypeOK, Tied, Knot, Started, Counted
  <2> QED
    BY <2>1, <2>2 DEF IInv
<1>4. CASE CloseFinished(j)
  <2>1. TypeOK'
    <3>1. /\ runner' \in [Jobs -> RunnerPC]
          /\ closed' \subseteq Jobs \X {"ch", "done", "finished"}
      BY <1>4 DEF CloseFinished, IInv, TypeOK, RunnerPC
    <3> QED
      BY <1>4, <3>1 DEF CloseFinished, IInv, TypeOK, progress
  <2>2. \A k \in Jobs : Tied(k)' /\ Counted(k)'
    BY <1>1, <1>4 DEF CloseFinished, IInv, TypeOK, Tied, Knot, Started, Counted, progress
  <2> QED
    BY <2>1, <2>2 DEF IInv
<1> QED
  BY <1>2, <1>3, <1>4

LEMMA QuietSteps ==
  ASSUME IInv,
         UNCHANGED vars \/ Race \/ \E j \in Jobs : Cancel(j)
  PROVE  IInv'
<1>1. /\ UNCHANGED << progress, goroutines, ch, closed, appended, store >>
      /\ cancelled' \subseteq Jobs
      /\ raced' \in BOOLEAN
  BY DEF Race, Cancel, vars, IInv, TypeOK
<1>2. TypeOK'
  BY <1>1 DEF IInv, TypeOK, progress, goroutines
<1>3. \A k \in Jobs : Tied(k)' /\ Counted(k)'
  BY <1>1 DEF IInv, Tied, Knot, Started, Counted, progress, goroutines
<1> QED
  BY <1>2, <1>3 DEF IInv

LEMMA NextIInv == IInv /\ [Next]_vars => IInv'
<1> SUFFICES ASSUME IInv, [Next]_vars PROVE IInv'
  OBVIOUS
<1>1. CASE UNCHANGED vars \/ Race \/ \E j \in Jobs : Cancel(j)
  BY <1>1, QuietSteps
<1>2. ASSUME NEW j \in Jobs, Start(j) \/ Run(j) PROVE IInv'
  BY <1>2, StartStep, LaunchStep, SettleStep DEF Run
<1>3. ASSUME NEW j \in Jobs, Consume(j) \/ CloseCh(j) PROVE IInv'
  BY <1>3, ReceiveStep, LastReceiveStep, LoadStep, AppendLocalStep, StoreStep, BumpInsertedStep,
     CloseDoneStep, CloseChStep DEF Consume
<1>4. ASSUME NEW j \in Jobs, NEW w \in Workers, Work(j, w) PROVE IInv'
  BY <1>4, SendStep, LeaveStep DEF Work
<1> QED
  BY <1>1, <1>2, <1>3, <1>4 DEF Next

LEMMA Invariant == Spec => []IInv
  BY InitIInv, NextIInv, PTL DEF Spec

------------------------------------------------------------------------------

\* Every variable of the runner keeps its type; in particular no goroutine is
\* counted by the wait group beyond the consumer and MaxWorkers workers.
THEOREM TypeCorrect == Spec => []TypeOK
<1>1. IInv => TypeOK
  BY DEF IInv
<1> QED
  BY Invariant, <1>1, PTL

\* No job ever settles, whatever its size, the number of workers, the capacity
\* of the channel and the other jobs (backfill.go:207-249): the consumer is in
\* the group that must be empty before its channel is closed.
THEOREM JobsNeverSettle == Spec => []NeverSettles
<1>1. IInv => NeverSettles
  BY DEF IInv, Tied, Knot, NeverSettles
<1> QED
  BY Invariant, <1>1, PTL

\* No worker ever sends on a closed channel, which would panic, for any payload
\* and any number of workers, even in a runner whose closer does get through
\* (backfill.go:228-244).
THEOREM ChannelClosedLast == Spec => []NoSendAfterClose
<1>1. IInv => NoSendAfterClose
  BY DEF IInv, Tied, Started, NoSendAfterClose
<1> QED
  BY Invariant, <1>1, PTL

------------------------------------------------------------------------------
(* Remainders.                                                             *)

LEMMA TimesAtLeast ==
  ASSUME NEW k \in Nat, NEW q \in Int, q >= 1
  PROVE  k * q >= k
<1>1. q - 1 \in Nat
  OBVIOUS
<1>2. k * (q - 1) \in Nat
  BY <1>1
<1>3. k * q = k * (q - 1) + k
  OBVIOUS
<1> QED
  BY <1>2, <1>3

\* Two lines of one worker are at least a stride apart.
LEMMA ModGap ==
  ASSUME NEW k \in Nat \ {0}, NEW a \in Nat, NEW b \in Nat,
         a % k = b % k, a <= b, b < a + k
  PROVE  a = b
<1> DEFINE p == a \div k
           q == b \div k
           r == a % k
<1>1. p \in Int /\ q \in Int /\ r \in Int
  OBVIOUS
<1>2. a = k * p + r /\ b = k * q + (b % k)
  OBVIOUS
<1>3. b - a = k * q - k * p
  <2> HIDE DEF p, q
  <2>1. k * p \in Int /\ k * q \in Int
    BY <1>1
  <2> HIDE DEF r
  <2>2. b = k * q + r
    BY <1>2 DEF r
  <2> QED
    BY <1>1, <1>2, <2>1, <2>2
<1> HIDE DEF p, q, r
<1>4. k * q - k * p = k * (q - p)
  BY <1>1
<1>5. ~ q - p >= 1
  BY <1>1, <1>3, <1>4, TimesAtLeast
<1>6. ~ p - q >= 1
  <2> SUFFICES ASSUME p - q >= 1 PROVE FALSE
    OBVIOUS
  <2>1. k * (p - q) >= k
    BY <1>1, TimesAtLeast
  <2>2. k * (q - p) = - (k * (p - q)) /\ k * (p - q) \in Int
    BY <1>1
  <2> QED
    BY <1>3, <1>4, <2>1, <2>2
<1>7. p = q
  BY <1>1, <1>5, <1>6
<1> QED
  BY <1>1, <1>3, <1>7

LEMMA ModUnique ==
  ASSUME NEW k \in Nat \ {0}, NEW q \in Int, NEW r \in 0 .. k - 1
  PROVE  (k * q + r) % k = r
  OBVIOUS

LEMMA ModNext ==
  ASSUME NEW k \in Nat \ {0}, NEW a \in Nat
  PROVE  (a + k) % k = a % k
<1> DEFINE p == a \div k
           r == a % k
<1>1. p \in Int /\ r \in 0 .. k - 1 /\ a = k * p + r
  OBVIOUS
<1> HIDE DEF p, r
<1>2. k * (p + 1) = k * p + k /\ k * p \in Int
  BY <1>1
<1>3. a + k = k * (p + 1) + r
  BY <1>1, <1>2
<1>4. (k * (p + 1) + r) % k = r
  <2>1. p + 1 \in Int
    BY <1>1
  <2> QED
    BY <1>1, <2>1, ModUnique
<1> QED
  BY <1>3, <1>4 DEF r

\* Every line falls to one of the workers.
LEMMA ModWorker ==
  ASSUME NEW k \in Nat \ {0}, NEW a \in Nat
  PROVE  \E w \in 1 .. k : a % k = w % k
<1>1. a % k \in 0 .. k - 1
  OBVIOUS
<1>2. CASE a % k = 0
  <2>1. k % k = 0 /\ k \in 1 .. k
    OBVIOUS
  <2> QED
    BY <1>2, <2>1
<1>3. CASE a % k # 0
  <2> DEFINE w == a % k
  <2>1. w \in 1 .. k /\ w \in 0 .. k - 1
    BY <1>1, <1>3
  <2> HIDE DEF w
  <2>2. w % k = w
    BY <2>1
  <2> QED
    BY <2>1, <2>2 DEF w
<1> QED
  BY <1>2, <1>3

\* Different workers send different lines.
LEMMA WorkersApart ==
  ASSUME NEW k \in Nat \ {0}, NEW v \in 1 .. k, NEW w \in 1 .. k, v % k = w % k
  PROVE  v = w
<1>1. v \in Nat /\ w \in Nat /\ v < w + k /\ w < v + k
  OBVIOUS
<1>2. v <= w \/ w <= v
  OBVIOUS
<1> QED
  BY <1>1, <1>2, ModGap

------------------------------------------------------------------------------
(* The lines between the workers and the store.                            *)

\* The k workers have put the lines s of a payload of t lines into the pipeline;
\* worker w sends line nx[w] next.
Shared(s, t, k, nx) ==
  /\ \A i \in DOMAIN s : s[i] \in 1 .. t
  /\ \A i, m \in DOMAIN s : i < m /\ s[i] % k = s[m] % k => s[i] < s[m]
  /\ \A w \in 1 .. k :
       /\ nx[w] \in w .. t + k /\ nx[w] % k = w % k
       /\ \A l \in 1 .. t : l % k = w % k =>
            (l < nx[w] <=> \E i \in DOMAIN s : s[i] = l)

\* Nothing is sent before the goroutines are started.
LEMMA SharedAtFirst ==
  ASSUME NEW t \in Nat, NEW k \in Nat, k <= t, NEW nx,
         \A w \in 1 .. k : nx[w] = w
  PROVE  Shared(<< >>, t, k, nx)
<1>1. ASSUME NEW w \in 1 .. k, NEW l \in 1 .. t, l % k = w % k PROVE ~ l < w
  <2>1. /\ k \in Nat \ {0} /\ l \in Nat /\ w \in Nat
        /\ w < l + k
    OBVIOUS
  <2>2. l <= w => l = w
    BY <1>1, <2>1, ModGap
  <2> QED
    BY <2>1, <2>2
<1>2. \A w \in 1 .. k : w \in w .. t + k
  OBVIOUS
<1>3. DOMAIN << >> = {}
  OBVIOUS
<1> QED
  BY <1>1, <1>2, <1>3 DEF Shared

\* A worker sends its next line.
LEMMA SharedSend ==
  ASSUME NEW t \in Nat, NEW k \in Nat \ {0}, NEW s, NEW n \in Nat, DOMAIN s = 1 .. n,
         NEW nx, Shared(s, t, k, nx), NEW w \in 1 .. k, nx[w] <= t,
         NEW s1, DOMAIN s1 = 1 .. n + 1, \A i \in 1 .. n : s1[i] = s[i], s1[n + 1] = nx[w],
         NEW nx1, \A v \in 1 .. k : nx1[v] = IF v = w THEN nx[w] + k ELSE nx[v]
  PROVE  Shared(s1, t, k, nx1)
<1> PICK x \in Nat : x = nx[w]
  BY DEF Shared
<1>1. x \in 1 .. t /\ x \in w .. t + k /\ x % k = w % k /\ x + k \in w .. t + k
  BY DEF Shared
<1>2. \A i \in 1 .. n + 1 : i \in 1 .. n \/ i = n + 1
  OBVIOUS
<1>3. \A i \in DOMAIN s1 : s1[i] \in 1 .. t
  BY <1>1, <1>2 DEF Shared
<1>4. ASSUME NEW i \in DOMAIN s1, NEW m \in DOMAIN s1, i < m, s1[i] % k = s1[m] % k
      PROVE  s1[i] < s1[m]
  <2>1. i \in 1 .. n
    BY <1>4
  <2>2. CASE m \in 1 .. n
    BY <1>4, <2>1, <2>2 DEF Shared
  <2>3. CASE m = n + 1
    <3>1. s[i] \in 1 .. t /\ s[i] % k = w % k
      BY <1>1, <1>4, <2>1, <2>3 DEF Shared
    <3>2. s[i] < nx[w]
      BY <2>1, <3>1 DEF Shared
    <3> QED
      BY <2>1, <2>3, <3>2
  <2> QED
    BY <1>2, <2>2, <2>3
<1>5. ASSUME NEW v \in 1 .. k, NEW l \in 1 .. t, l % k = v % k
      PROVE  l < nx1[v] <=> \E i \in DOMAIN s1 : s1[i] = l
  <2>1. l < nx[v] <=> \E i \in 1 .. n : s[i] = l
    BY <1>5 DEF Shared
  <2>2. (\E i \in DOMAIN s1 : s1[i] = l) <=> l = x \/ \E i \in 1 .. n : s[i] = l
    <3>1. n + 1 \in DOMAIN s1 /\ \A i \in 1 .. n : i \in DOMAIN s1
      OBVIOUS
    <3> QED
      BY <1>2, <3>1
  <2>3. CASE v = w
    <3>1. l \in Nat /\ l % k = x % k
      BY <1>1, <1>5, <2>3
    <3>2. x <= l /\ l < x + k => x = l
      BY <3>1, ModGap
    <3>3. l < x + k <=> l = x \/ l < x
      BY <3>1, <3>2
    <3> QED
      BY <2>1, <2>2, <2>3, <3>3
  <2>4. CASE v # w
    <3>1. l # x
      BY <1>1, <1>5, <2>4, WorkersApart
    <3> QED
      BY <2>1, <2>2, <2>4, <3>1
  <2> QED
    BY <2>3, <2>4
<1>6. ASSUME NEW v \in 1 .. k PROVE nx1[v] \in v .. t + k /\ nx1[v] % k = v % k
  <2>1. CASE v = w
    <3>1. (x + k) % k = w % k
      BY <1>1, ModNext
    <3> QED
      BY <1>1, <2>1, <3>1
  <2>2. CASE v # w
    BY <2>2 DEF Shared
  <2> QED
    BY <2>1, <2>2
<1> QED
  BY <1>3, <1>4, <1>5, <1>6 DEF Shared

LEMMA Associative ==
  ASSUME NEW a \in Seq(Nat), NEW b \in Seq(Nat), NEW c \in Seq(Nat)
  PROVE  (a \o b) \o c = a \o (b \o c)
  BY ConcatAssociative

\* What is in the pipeline does not change when the consumer receives a line,
LEMMA PipelineReceive ==
  ASSUME NEW a \in Seq(Nat), NEW c \in Seq(Nat), c # << >>
  PROVE  a \o << >> \o c = a \o << Head(c) >> \o Tail(c)
<1>1. c = << Head(c) >> \o Tail(c)
  OBVIOUS
<1>2. << Head(c) >> \in Seq(Nat) /\ Tail(c) \in Seq(Nat) /\ << >> \in Seq(Nat)
  OBVIOUS
<1>3. a \o << >> = a
  OBVIOUS
<1>4. a \o << Head(c) >> \o Tail(c) = a \o (<< Head(c) >> \o Tail(c))
  BY <1>2, Associative
<1> QED
  BY <1>1, <1>3, <1>4

\* nor when it appends it; a line that is sent comes last.
LEMMA PipelineSend ==
  ASSUME NEW b \in Seq(Nat), NEW c \in Seq(Nat), NEW x \in Nat
  PROVE  \E n \in Nat :
           /\ DOMAIN (b \o c) = 1 .. n /\ DOMAIN (b \o Append(c, x)) = 1 .. n + 1
           /\ \A i \in 1 .. n : (b \o Append(c, x))[i] = (b \o c)[i]
           /\ (b \o Append(c, x))[n + 1] = x
<1>1. b \o c \in Seq(Nat) /\ << x >> \in Seq(Nat)
  OBVIOUS
<1>2. Append(c, x) = c \o << x >>
  OBVIOUS
<1>3. b \o (c \o << x >>) = (b \o c) \o << x >>
  BY <1>1, Associative
<1>4. b \o Append(c, x) = Append(b \o c, x)
  <2>1. (b \o c) \o << x >> = Append(b \o c, x)
    BY <1>1
  <2> QED
    BY <1>2, <1>3, <2>1
<1>5. PICK d \in Seq(Nat) : d = b \o c
  BY <1>1
<1>6. \E n \in Nat :
        /\ DOMAIN d = 1 .. n /\ DOMAIN Append(d, x) = 1 .. n + 1
        /\ \A i \in 1 .. n : Append(d, x)[i] = d[i]
        /\ Append(d, x)[n + 1] = x
  OBVIOUS
<1> QED
  BY <1>4, <1>5, <1>6, Zenon

Sharing(j) ==
  /\ runner[j] = "none" <=> status[j] = "absent"
  /\ status[j] # "absent" => total[j] # 0
  /\ wg[j] \cap Workers \subseteq 1 .. workers(j)
  /\ consumer[j] = "none" => wg[j] = {}
  /\ consumer[j] = "none" => pipeline(j) = << >> /\ \A w \in Workers : next[j][w] = w
  /\ consumer[j] # "none" => Shared(pipeline(j), total[j], workers(j), next[j])

LEMMA InitSharing ==
  ASSUME Init, NEW j \in Jobs
  PROVE  Sharing(j)
<1>1. << >> \o << >> \o << >> = << >>
  OBVIOUS
<1>2. pipeline(j) = << >> \o << >> \o << >>
  BY DEF Init, pipeline
<1> QED
  BY <1>1, <1>2 DEF Init, Sharing

LEMMA PayloadNotEmpty ==
  ASSUME NEW payload \in Payload, parses(payload)
  PROVE  Cardinality(lines(payload)) # 0
<1>1. PICK n \in 0 .. MaxLines : payload \in [1 .. n -> {"blank", "valid", "bad"}]
  BY DEF Payload
<1>2. IsFiniteSet(1 .. n)
  BY <1>1, BackfillAssumption, FS_Interval
<1>3. lines(payload) \in SUBSET (1 .. n)
  BY <1>1 DEF lines
<1>4. IsFiniteSet(lines(payload))
  BY <1>2, <1>3, FS_Subset
<1> QED
  BY <1>4, FS_EmptySet DEF parses

\* A step that sends nothing keeps what job k has in its pipeline.
LEMMA SharingKept ==
  ASSUME NEW k \in Jobs, Sharing(k), pipeline(k)' = pipeline(k),
         total'[k] = total[k], next'[k] = next[k], wg'[k] \subseteq wg[k],
         runner'[k] = "none" <=> runner[k] = "none",
         status'[k] = "absent" <=> status[k] = "absent",
         consumer'[k] = "none" <=> consumer[k] = "none"
  PROVE  Sharing(k)'
<1>1. workers(k)' = workers(k)
  BY DEF workers
<1> QED
  BY <1>1 DEF Sharing

LEMMA StartSharing ==
  ASSUME IInv, NEW j \in Jobs, Start(j), NEW k \in Jobs, Sharing(k)
  PROVE  Sharing(k)'
<1>1. pipeline(k)' = pipeline(k)
  BY DEF Start, pipeline
<1>2. CASE k = j
  <2>1. PICK payload \in Payload :
          parses(payload) /\ total' = [total EXCEPT ![j] = Cardinality(lines(payload))]
    BY DEF Start
  <2>2. total'[j] # 0
    BY <2>1, PayloadNotEmpty DEF IInv, TypeOK
  <2>3. consumer'[j] = "none"
    BY DEF Start, IInv, Tied, Started
  <2> QED
    BY <1>1, <1>2, <2>2, <2>3 DEF Start, IInv, TypeOK, Sharing
<1>3. CASE k # j
  <2>1. /\ total'[k] = total[k] /\ next'[k] = next[k] /\ runner'[k] = runner[k]
        /\ status'[k] = status[k] /\ consumer'[k] = consumer[k] /\ wg'[k] = wg[k]
    BY <1>3 DEF Start, IInv, TypeOK
  <2> QED
    BY <1>1, <2>1, SharingKept
<1> QED
  BY <1>2, <1>3

LEMMA LaunchSharing ==
  ASSUME IInv, NEW j \in Jobs, Launch(j), NEW k \in Jobs, Sharing(k)
  PROVE  Sharing(k)'
<1>1. pipeline(k)' = pipeline(k)
  BY DEF Launch, pipeline
<1>2. CASE k = j
  <2>1. /\ consumer[j] = "none" /\ status[j] # "absent" /\ total[j] # 0
        /\ total[j] \in Nat /\ MaxWorkers \in Nat \ {0}
    BY <1>2, BackfillAssumption DEF Launch, IInv, TypeOK, Tied, Started, Sharing
  <2>2. workers(j) \in Nat /\ workers(j) <= total[j] /\ workers(j) <= MaxWorkers
    BY <2>1 DEF workers
  <2>3. \A w \in 1 .. workers(j) : next[j][w] = w
    <3>1. \A w \in 1 .. workers(j) : w \in Workers
      BY <2>1, <2>2 DEF Workers
    <3> QED
      BY <1>2, <2>1, <3>1 DEF Sharing
  <2>4. Shared(<< >>, total[j], workers(j), next[j])
    BY <2>1, <2>2, <2>3, SharedAtFirst
  <2>5. Shared(pipeline(j)', total'[j], workers(j)', next'[j])
    <3>1. pipeline(j)' = << >> /\ total' = total /\ next' = next /\ workers(j)' = workers(j)
      BY <1>1, <1>2, <2>1 DEF Launch, Sharing, workers
    <3> QED
      BY <2>4, <3>1
  <2> QED
    <3>1. wg'[j] \cap Workers \subseteq 1 .. workers(j)'
      BY DEF Launch, IInv, TypeOK, workers, group, Workers, Consumer
    <3>2. runner'[j] # "none" /\ status'[j] # "absent" /\ consumer'[j] # "none"
      BY DEF Launch, IInv, TypeOK
    <3>3. total'[j] = total[j]
      BY DEF Launch
    <3> QED
      BY <1>2, <2>1, <2>5, <3>1, <3>2, <3>3 DEF Sharing
<1>3. CASE k # j
  <2>1. /\ total'[k] = total[k] /\ next'[k] = next[k] /\ runner'[k] = runner[k]
        /\ status'[k] = status[k] /\ consumer'[k] = consumer[k] /\ wg'[k] = wg[k]
    BY <1>3 DEF Launch, IInv, TypeOK
  <2> QED
    BY <1>1, <2>1, SharingKept
<1> QED
  BY <1>2, <1>3

LEMMA SendSharing ==
  ASSUME IInv, NEW j \in Jobs, NEW w \in Workers, Send(j, w), NEW k \in Jobs, Sharing(k)
  PROVE  Sharing(k)'
<1>1. CASE k = j
  <2>1. /\ appended[j] \o hand[j] \in Seq(Nat) /\ ch[j] \in Seq(Nat)
        /\ next[j][w] \in Nat
    BY DEF IInv, TypeOK
  <2>2. /\ pipeline(j)' = appended[j] \o hand[j] \o Append(ch[j], next[j][w])
        /\ pipeline(j) = appended[j] \o hand[j] \o ch[j]
    BY DEF Send, IInv, TypeOK, pipeline, progress
  <2>3. PICK n \in Nat :
          /\ DOMAIN pipeline(j) = 1 .. n /\ DOMAIN pipeline(j)' = 1 .. n + 1
          /\ \A i \in 1 .. n : pipeline(j)'[i] = pipeline(j)[i]
          /\ pipeline(j)'[n + 1] = next[j][w]
    <3> PICK x \in Nat : x = next[j][w]
      BY <2>1
    <3> PICK b \in Seq(Nat) : b = appended[j] \o hand[j]
      BY <2>1
    <3> PICK c \in Seq(Nat) : c = ch[j]
      BY <2>1
    <3>1. pipeline(j)' = b \o Append(c, x) /\ pipeline(j) = b \o c
      BY <2>2
    <3>2. \E n \in Nat :
            /\ DOMAIN (b \o c) = 1 .. n /\ DOMAIN (b \o Append(c, x)) = 1 .. n + 1
            /\ \A i \in 1 .. n : (b \o Append(c, x))[i] = (b \o c)[i]
            /\ (b \o Append(c, x))[n + 1] = x
      BY PipelineSend
    <3> QED
      BY <3>1, <3>2, Zenon
  <2>4. /\ consumer[j] # "none" /\ w \in 1 .. workers(j)
        /\ workers(j) \in Nat \ {0}
    <3>1. w \in wg[j] /\ workers(j) \in 0 .. MaxWorkers /\ MaxWorkers \in Nat
      BY WorkersType, BackfillAssumption DEF Send, IInv
    <3>2. consumer[j] # "none" /\ w \in 1 .. workers(j)
      BY <1>1, <3>1 DEF Sharing
    <3> QED
      BY <3>1, <3>2
  <2>5. /\ total'[j] = total[j] /\ workers(j)' = workers(j) /\ total[j] \in Nat
        /\ next[j][w] <= total[j]
        /\ \A v \in Workers : next'[j][v] = IF v = w THEN next[j][w] + workers(j)
                                                     ELSE next[j][v]
    <3>1. ~ next[j][w] > total[j] /\ total[j] \in Nat
      BY DEF Send, over, IInv, TypeOK
    <3>2. next[j][w] <= total[j]
      BY <2>1, <3>1
    <3>3. \A v \in Workers : next'[j][v] = IF v = w THEN next[j][w] + workers(j)
                                                     ELSE next[j][v]
      BY DEF Send, IInv, TypeOK, stride
    <3> QED
      BY <3>1, <3>2, <3>3 DEF Send, workers, progress
  <2>6. \A v \in 1 .. workers(j) : v \in Workers
    BY <2>4, WorkersType, BackfillAssumption DEF IInv, Workers
  <2>7. Shared(pipeline(j)', total[j], workers(j), next'[j])
    <3>1. Shared(pipeline(j), total[j], workers(j), next[j])
      BY <1>1, <2>4 DEF Sharing
    <3>2. \A v \in 1 .. workers(j) :
            next'[j][v] = IF v = w THEN next[j][w] + workers(j) ELSE next[j][v]
      BY <2>5, <2>6
    <3>3. PICK s, s1, nx, nx1, t, m :
            /\ s = pipeline(j) /\ s1 = pipeline(j)' /\ nx = next[j] /\ nx1 = next'[j]
            /\ t = total[j] /\ m = workers(j)
      OBVIOUS
    <3>4. /\ DOMAIN s = 1 .. n /\ Shared(s, t, m, nx) /\ nx[w] <= t
          /\ DOMAIN s1 = 1 .. n + 1 /\ \A i \in 1 .. n : s1[i] = s[i]
          /\ s1[n + 1] = nx[w] /\ t \in Nat /\ m \in Nat \ {0} /\ w \in 1 .. m
      BY <2>3, <2>4, <2>5, <3>1, <3>3
    <3>5. \A v \in 1 .. m : nx1[v] = IF v = w THEN nx[w] + m ELSE nx[v]
      BY <3>2, <3>3
    <3>6. Shared(s1, t, m, nx1)
      BY <3>4, <3>5, SharedSend
    <3> QED
      BY <3>3, <3>6
  <2> QED
    BY <1>1, <2>4, <2>5, <2>7 DEF Send, Sharing, progress
<1>2. CASE k # j
  <2>1. /\ total'[k] = total[k] /\ next'[k] = next[k] /\ runner'[k] = runner[k]
        /\ status'[k] = status[k] /\ consumer'[k] = consumer[k] /\ wg'[k] = wg[k]
        /\ pipeline(k)' = pipeline(k)
    BY <1>2 DEF Send, IInv, TypeOK, progress, pipeline
  <2> QED
    BY <2>1, SharingKept
<1> QED
  BY <1>1, <1>2

LEMMA QuietSharing ==
  ASSUME IInv, NEW j \in Jobs,
         \/ UNCHANGED vars \/ Race \/ Cancel(j) \/ CloseCh(j)
         \/ AwaitDone(j) \/ Finalize(j) \/ CloseFinished(j)
         \/ BumpInserted(j) \/ CloseDone(j)
         \/ \E w \in Workers : Leave(j, w),
         NEW k \in Jobs, Sharing(k)
  PROVE  Sharing(k)'
<1>1. /\ UNCHANGED << total, next, hand, ch, appended >> /\ wg'[k] \subseteq wg[k]
      /\ runner'[k] = "none" <=> runner[k] = "none"
      /\ status'[k] = "absent" <=> status[k] = "absent"
      /\ consumer'[k] = "none" <=> consumer[k] = "none"
  <2>1. CASE UNCHANGED vars \/ Race \/ Cancel(j) \/ CloseCh(j)
    BY <2>1 DEF vars, progress, goroutines, Race, Cancel, CloseCh
  <2>2. CASE AwaitDone(j) \/ CloseFinished(j)
    BY <2>2 DEF progress, AwaitDone, CloseFinished, IInv, TypeOK
  <2>3. CASE Finalize(j)
    BY <2>3 DEF Finalize, IInv, TypeOK, Started, Tied, Sharing
  <2>4. CASE BumpInserted(j) \/ CloseDone(j)
    BY <2>4 DEF progress, BumpInserted, CloseDone, IInv, TypeOK
  <2>5. CASE \E w \in Workers : Leave(j, w)
    BY <2>5 DEF progress, Leave, IInv, TypeOK
  <2> QED
    BY <2>1, <2>2, <2>3, <2>4, <2>5
<1>2. pipeline(k)' = pipeline(k)
  BY <1>1 DEF pipeline
<1> QED
  BY <1>1, <1>2, SharingKept

LEMMA ConsumeSharing ==
  ASSUME IInv, NEW j \in Jobs, Receive(j) \/ Load(j) \/ AppendLocal(j) \/ Store(j),
         NEW k \in Jobs, Sharing(k)
  PROVE  Sharing(k)'
<1>1. /\ UNCHANGED << total, next, wg, runner, status >>
      /\ consumer'[k] = "none" <=> consumer[k] = "none"
  BY DEF Receive, Load, AppendLocal, Store, afterAppend, progress, IInv, TypeOK
<1>2. /\ appended[j] \in Seq(Nat) /\ hand[j] \in Seq(Nat) /\ ch[j] \in Seq(Nat)
      /\ consumer[j] = "receive" => hand[j] = << >>
  BY DEF IInv, TypeOK, Counted
<1>3. pipeline(j)' = pipeline(j)
  <2>1. CASE Receive(j) /\ ch[j] # << >>
    <3>1. /\ appended'[j] = appended[j] /\ hand[j] = << >>
          /\ hand'[j] = << Head(ch[j]) >> /\ ch'[j] = Tail(ch[j])
      BY <1>2, <2>1 DEF Receive, IInv, TypeOK
    <3>2. appended[j] \o << >> \o ch[j] = appended[j] \o << Head(ch[j]) >> \o Tail(ch[j])
      BY <1>2, <2>1, PipelineReceive
    <3> QED
      BY <3>1, <3>2 DEF pipeline
  <2>2. CASE (Receive(j) /\ ch[j] = << >>) \/ Load(j) \/ AppendLocal(j)
    BY <2>2 DEF Receive, Load, AppendLocal, pipeline
  <2>3. CASE Store(j)
    <3>1. /\ appended'[j] = appended[j] \o hand[j] /\ hand'[j] = << >> /\ ch'[j] = ch[j]
      BY <2>3 DEF Store, IInv, TypeOK
    <3>2. (appended[j] \o hand[j]) \o << >> = appended[j] \o hand[j]
      <4>1. appended[j] \o hand[j] \in Seq(Nat)
        BY <1>2
      <4> QED
        BY <4>1, ConcatEmptySeq, Zenon
    <3> QED
      BY <3>1, <3>2 DEF pipeline
  <2> QED
    BY <2>1, <2>2, <2>3
<1>4. k # j => pipeline(k)' = pipeline(k)
  BY DEF Receive, Load, AppendLocal, Store, pipeline, IInv, TypeOK
<1> QED
  BY <1>1, <1>3, <1>4, SharingKept

SharingInv == \A j \in Jobs : Sharing(j)

LEMMA SharingStep == IInv /\ SharingInv /\ [Next]_vars => SharingInv'
<1> SUFFICES ASSUME IInv, SharingInv, [Next]_vars, NEW k \in Jobs PROVE Sharing(k)'
  BY DEF SharingInv
<1>1. Sharing(k)
  BY DEF SharingInv
<1>2. CASE UNCHANGED vars \/ Race
  BY <1>1, <1>2, QuietSharing
<1>3. ASSUME NEW j \in Jobs, Start(j) \/ Cancel(j) \/ Run(j) PROVE Sharing(k)'
  BY <1>1, <1>3, StartSharing, LaunchSharing, QuietSharing DEF Run
<1>4. ASSUME NEW j \in Jobs, Consume(j) \/ CloseCh(j) PROVE Sharing(k)'
  BY <1>1, <1>4, ConsumeSharing, QuietSharing DEF Consume
<1>5. ASSUME NEW j \in Jobs, NEW w \in Workers, Work(j, w) PROVE Sharing(k)'
  BY <1>1, <1>5, SendSharing, QuietSharing DEF Work
<1> QED
  BY <1>2, <1>3, <1>4, <1>5 DEF Next

LEMMA SharingInvariant == Spec => []SharingInv
<1>1. Init => SharingInv
  BY InitSharing DEF SharingInv
<1> QED
  BY <1>1, SharingStep, Invariant, PTL DEF Spec

\* The lines in s that fall to worker w of k are those before the line x.
LinesBefore(s, k, w, x) ==
  \A l : (\E i \in DOMAIN s : s[i] % k = w % k /\ l = s[i])
           <=> l \in w .. x - 1 /\ l % k = w % k

LEMMA SharedLines ==
  ASSUME NEW s, NEW t \in Nat, NEW k \in Nat \ {0}, NEW nx, Shared(s, t, k, nx),
         NEW w \in 1 .. k
  PROVE  LinesBefore(s, k, w, nx[w])
<1> PICK x \in w .. t + k : x = nx[w] /\ x % k = w % k
  BY DEF Shared
<1>1. ASSUME NEW i \in DOMAIN s, s[i] % k = w % k
      PROVE  s[i] \in w .. x - 1
  <2>1. s[i] \in 1 .. t /\ s[i] < x
    BY <1>1 DEF Shared
  <2>2. s[i] < w => s[i] = w
    <3>1. w \in Nat /\ s[i] \in Nat /\ (s[i] < w => s[i] <= w) /\ w < s[i] + k
      BY <2>1
    <3> QED
      BY <1>1, <3>1, ModGap
  <2> QED
    BY <2>1, <2>2
<1>2. ASSUME NEW l \in w .. x - 1, l % k = w % k
      PROVE  \E i \in DOMAIN s : s[i] = l
  <2>1. l <= t
    <3> SUFFICES ASSUME l > t PROVE FALSE
      OBVIOUS
    <3>1. l \in Nat /\ x \in Nat /\ l <= x /\ x < l + k /\ l # x /\ x % k = l % k
      BY <1>2
    <3> QED
      BY <3>1, ModGap
  <2>2. l \in 1 .. t /\ l < x
    BY <2>1
  <2> QED
    BY <1>2, <2>2 DEF Shared
<1> QED
  BY <1>1, <1>2 DEF LinesBefore

\* Every line of a payload reaches Append at most once, none that was sent is lost on
\* the way there, and those of one worker keep their order, with any number of workers
\* and readings and any capacity of the channel (backfill.go:214-240).  It says nothing
\* of what the store makes of a line: see AloneStays.
THEOREM LinesArriveOnce == Spec => []EachLineOnce
<1>1. IInv /\ SharingInv => EachLineOnce
  <2> SUFFICES ASSUME IInv, SharingInv, NEW j \in Jobs, consumer[j] # "none"
               PROVE  /\ \A i \in DOMAIN pipeline(j) : pipeline(j)[i] \in 1 .. total[j]
                      /\ \A w \in 1 .. workers(j) :
                           /\ \A i, m \in linesOf(j, w) :
                                i < m => pipeline(j)[i] < pipeline(j)[m]
                           /\ {pipeline(j)[i] : i \in linesOf(j, w)}
                                = {l \in w .. next[j][w] - 1 : l % workers(j) = w % workers(j)}
    BY DEF EachLineOnce
  <2>1. Shared(pipeline(j), total[j], workers(j), next[j])
    BY DEF SharingInv, Sharing
  <2>2. total[j] \in Nat /\ workers(j) \in Nat
    <3>1. workers(j) \in 0 .. MaxWorkers /\ MaxWorkers \in Nat
      BY WorkersType, BackfillAssumption DEF IInv
    <3> QED
      BY <3>1 DEF IInv, TypeOK
  <2>3. ASSUME NEW w \in 1 .. workers(j)
        PROVE  /\ \A i, m \in linesOf(j, w) : i < m => pipeline(j)[i] < pipeline(j)[m]
               /\ {pipeline(j)[i] : i \in linesOf(j, w)}
                    = {l \in w .. next[j][w] - 1 : l % workers(j) = w % workers(j)}
    <3>1. \A i, m \in linesOf(j, w) : i < m => pipeline(j)[i] < pipeline(j)[m]
      BY <2>1 DEF Shared, linesOf
    <3>2. PICK s, t, k, nx :
            s = pipeline(j) /\ t = total[j] /\ k = workers(j) /\ nx = next[j]
      OBVIOUS
    <3>3. t \in Nat /\ k \in Nat \ {0} /\ w \in 1 .. k /\ Shared(s, t, k, nx)
      BY <2>1, <2>2, <3>2
    <3>4. LinesBefore(s, k, w, nx[w])
      BY <3>3, SharedLines
    <3>5. \A l : l \in {pipeline(j)[i] : i \in linesOf(j, w)}
                 <=> \E i \in DOMAIN s : s[i] % k = w % k /\ l = s[i]
      BY <3>2 DEF linesOf
    <3>6. {pipeline(j)[i] : i \in linesOf(j, w)} = {l \in w .. nx[w] - 1 : l % k = w % k}
      BY <3>4, <3>5 DEF LinesBefore
    <3> QED
      BY <3>1, <3>2, <3>6
  <2> QED
    BY <2>1, <2>3 DEF Shared
<1> QED
  BY <1>1, Invariant, SharingInvariant, PTL

------------------------------------------------------------------------------
(* How a job comes to rest.                                                *)

\* A worker of a job that is not cancelled leaves when it has sent its lines.
Drained(j) ==
  consumer[j] # "none" /\ j \notin cancelled =>
    \A w \in 1 .. workers(j) : w \in wg[j] \/ next[j][w] > total[j]

\* A step that leaves the workers of job k alone, or only cancels it.
LEMMA DrainedKept ==
  ASSUME NEW k \in Jobs, Drained(k), k \notin cancelled' => k \notin cancelled,
         total'[k] = total[k], next'[k] = next[k],
         \A w : w \in wg[k] \ {Consumer} => w \in wg'[k],
         consumer'[k] # "none" => consumer[k] # "none"
  PROVE  Drained(k)'
<1>1. workers(k)' = workers(k)
  BY DEF workers
<1>2. \A w \in 1 .. workers(k) : w # Consumer
  BY DEF Consumer
<1> QED
  BY <1>1, <1>2 DEF Drained

\* A step of any job that starts no goroutines and is not a worker's.
LEMMA OthersDrained ==
  ASSUME IInv, NEW k \in Jobs, Drained(k), NEW j \in Jobs,
         \/ Start(j) \/ Cancel(j) \/ AwaitDone(j) \/ Finalize(j) \/ CloseFinished(j)
         \/ Consume(j) \/ CloseCh(j)
  PROVE  Drained(k)'
<1>1. CASE Start(j)
  <2>1. CASE k = j
    <3>1. consumer'[k] = "none"
      BY <1>1, <2>1 DEF Start, IInv, Tied, Started
    <3> QED
      BY <3>1 DEF Drained
  <2>2. CASE k # j
    <3>1. /\ total'[k] = total[k] /\ cancelled' = cancelled /\ next' = next
          /\ wg' = wg /\ consumer' = consumer
      BY <1>1, <2>2 DEF Start, IInv, TypeOK
    <3> QED
      BY <3>1, DrainedKept
  <2> QED
    BY <2>1, <2>2
<1>2. CASE \/ Cancel(j) \/ AwaitDone(j) \/ Finalize(j) \/ CloseFinished(j) \/ CloseCh(j)
  <2>1. /\ cancelled \subseteq cancelled' /\ total' = total /\ next' = next
        /\ wg' = wg /\ consumer' = consumer
    BY <1>2 DEF Cancel, AwaitDone, Finalize, CloseFinished, CloseCh, progress, goroutines
  <2> QED
    BY <2>1, DrainedKept
<1>3. CASE Consume(j)
  <2>1. /\ UNCHANGED << cancelled, total, next >>
        /\ \A w : w \in wg[k] \ {Consumer} => w \in wg'[k]
        /\ consumer[k] # "none" \/ consumer'[k] = "none"
    BY <1>3 DEF Consume, Receive, Load, AppendLocal, Store, BumpInserted, CloseDone,
                progress, IInv, TypeOK
  <2> QED
    BY <2>1, DrainedKept
<1> QED
  BY <1>1, <1>2, <1>3

LEMMA LaunchDrained ==
  ASSUME IInv, NEW k \in Jobs, Drained(k), NEW j \in Jobs, Launch(j)
  PROVE  Drained(k)'
<1>1. CASE k = j
  <2>1. workers(j)' = workers(j) /\ \A w \in 1 .. workers(j) : w \in wg'[j]
    BY DEF Launch, group, workers, IInv, TypeOK
  <2> QED
    BY <1>1, <2>1 DEF Drained
<1>2. CASE k # j
  <2>1. /\ UNCHANGED << cancelled, total, next >>
        /\ wg'[k] = wg[k] /\ consumer'[k] = consumer[k]
    BY <1>2 DEF Launch, IInv, TypeOK
  <2> QED
    BY <2>1, DrainedKept
<1> QED
  BY <1>1, <1>2

LEMMA WorkDrained ==
  ASSUME IInv, NEW k \in Jobs, Drained(k), NEW j \in Jobs, NEW w \in Workers, Work(j, w)
  PROVE  Drained(k)'
<1>1. UNCHANGED << cancelled, total, consumer >>
  BY DEF Work, Send, Leave, progress
<1>2. CASE k # j
  <2>1. next'[k] = next[k] /\ wg'[k] = wg[k]
    BY <1>2 DEF Work, Send, Leave, progress, IInv, TypeOK
  <2> QED
    BY <1>1, <2>1, DrainedKept
<1>3. CASE k = j /\ Send(j, w)
  <2>1. /\ wg' = wg /\ next[j][w] <= total[j] /\ w \in wg[j]
        /\ \A v \in Workers \ {w} : next'[j][v] = next[j][v]
    BY <1>3 DEF Send, over, progress, IInv, TypeOK
  <2>2. workers(j)' = workers(j) /\ \A v \in 1 .. workers(j) : v \in Workers
    BY <1>1, WorkersType, BackfillAssumption DEF workers, Workers, IInv
  <2> QED
    BY <1>1, <1>3, <2>1, <2>2 DEF Drained
<1>4. CASE k = j /\ Leave(j, w)
  <2>1. /\ next' = next
        /\ next[j][w] > total[j] \/ j \in cancelled
        /\ \A v \in wg[j] : v = w \/ v \in wg'[j]
    BY <1>4 DEF Leave, over, progress, IInv, TypeOK
  <2>2. workers(j)' = workers(j) /\ next' = next
    BY <1>1, <1>4 DEF Leave, workers
  <2> QED
    BY <1>1, <1>4, <2>1, <2>2 DEF Drained
<1> QED
  BY <1>2, <1>3, <1>4 DEF Work

DrainedInv == \A j \in Jobs : Drained(j)

LEMMA DrainedStep == IInv /\ DrainedInv /\ [Next]_vars => DrainedInv'
<1> SUFFICES ASSUME IInv, DrainedInv, [Next]_vars, NEW k \in Jobs
             PROVE  Drained(k)'
  BY DEF DrainedInv
<1>1. Drained(k)
  BY DEF DrainedInv
<1>2. CASE UNCHANGED vars \/ Race
  BY <1>1, <1>2, DrainedKept DEF vars, Race, progress, goroutines
<1>3. ASSUME NEW j \in Jobs, Start(j) \/ Cancel(j) \/ Run(j) \/ Consume(j) \/ CloseCh(j)
      PROVE  Drained(k)'
  BY <1>1, <1>3, OthersDrained, LaunchDrained DEF Run
<1>4. ASSUME NEW j \in Jobs, NEW w \in Workers, Work(j, w) PROVE Drained(k)'
  BY <1>1, <1>4, WorkDrained
<1> QED
  BY <1>2, <1>3, <1>4 DEF Next

LEMMA DrainedInvariant == Spec => []DrainedInv
<1>1. Init => DrainedInv
  BY DEF Init, DrainedInv, Drained
<1> QED
  BY <1>1, DrainedStep, Invariant, PTL DEF Spec

\* The n entries of s are the lines 1 .. t, each of them once.
Enumerates(s, n, t) ==
  /\ \A i \in 1 .. n : s[i] \in 1 .. t
  /\ \A i, m \in 1 .. n : i < m => s[i] # s[m]
  /\ \A l \in 1 .. t : \E i \in 1 .. n : s[i] = l

LEMMA AllLines ==
  ASSUME NEW t \in Nat, NEW n \in Nat, NEW s, Enumerates(s, n, t)
  PROVE  n = t
<1> USE DEF Enumerates
<1> DEFINE f == [i \in 1 .. n |-> s[i]]
<1>1. f \in Bijection(1 .. n, 1 .. t)
  <2>1. f \in [1 .. n -> 1 .. t]
    OBVIOUS
  <2>2. \A i, m \in 1 .. n : f[i] = f[m] => i = m
    <3>1. \A i, m \in 1 .. n : i < m \/ m < i \/ i = m
      OBVIOUS
    <3> QED
      BY <3>1
  <2>3. \A l \in 1 .. t : \E i \in 1 .. n : f[i] = l
    OBVIOUS
  <2> QED
    BY <2>1, <2>2, <2>3 DEF Bijection, Injection, Surjection, IsInjective
<1>2. /\ IsFiniteSet(1 .. n) /\ Cardinality(1 .. n) = n
      /\ Cardinality(1 .. t) = t
  <2>1. /\ Cardinality(1 .. n) = IF 1 > n THEN 0 ELSE n - 1 + 1
        /\ Cardinality(1 .. t) = IF 1 > t THEN 0 ELSE t - 1 + 1
        /\ IsFiniteSet(1 .. n)
    BY FS_Interval
  <2> QED
    BY <2>1
<1>3. Cardinality(1 .. n) = Cardinality(1 .. t)
  BY <1>1, <1>2, FS_Bijection DEF ExistsBijection
<1> QED
  BY <1>2, <1>3

\* A job that has come to rest without being cancelled has had every one of its
\* readings through an Append that returned, and has counted it, for any payload,
\* any number of workers and any capacity of the channel: the Inserted of a job that
\* makes no more progress is its Total (backfill.go:214-240).
THEOREM RestingJobsComplete == Spec => []CompleteAtRest
<1>1. IInv /\ SharingInv /\ DrainedInv => CompleteAtRest
  <2> SUFFICES ASSUME IInv, SharingInv, DrainedInv, NEW j \in Jobs \ cancelled, AtRest(j)
               PROVE  Len(appended[j]) = total[j] /\ inserted[j] = total[j]
    BY DEF CompleteAtRest
  <2>1. /\ consumer[j] = "receive" /\ ch[j] = << >> /\ hand[j] = << >>
        /\ \A w \in 1 .. workers(j) : next[j][w] > total[j]
    <3>1. \A w \in 1 .. workers(j) : w \notin wg[j]
      BY DEF AtRest, Consumer
    <3> QED
      BY <3>1 DEF AtRest, DrainedInv, Drained, IInv, Counted
  <2>2. appended[j] \in Seq(Nat) /\ total[j] \in Nat /\ inserted[j] \in Nat
    BY DEF IInv, TypeOK
  <2>3. pipeline(j) = appended[j]
    <3>1. appended[j] \o << >> \o << >> = appended[j]
      BY <2>2
    <3> QED
      BY <2>1, <3>1 DEF pipeline
  <2>4. Shared(appended[j], total[j], workers(j), next[j])
    BY <2>1, <2>3 DEF SharingInv, Sharing
  <2>5. workers(j) \in Nat \ {0}
    <3>1. workers(j) \in 0 .. MaxWorkers /\ MaxWorkers \in Nat \ {0}
      BY WorkersType, BackfillAssumption DEF IInv
    <3>2. total[j] # 0
      BY <2>1 DEF SharingInv, Sharing, IInv, Tied, Started
    <3> QED
      BY <2>2, <3>1, <3>2 DEF workers
  <2>6. PICK n \in Nat : n = Len(appended[j]) /\ DOMAIN appended[j] = 1 .. n
    BY <2>2
  <2>7. \A l \in 1 .. total[j] : \E i \in 1 .. n : appended[j][i] = l
    <3> TAKE l \in 1 .. total[j]
    <3>1. PICK w \in 1 .. workers(j) : l % workers(j) = w % workers(j)
      <4>1. l \in Nat
        BY <2>2
      <4> QED
        BY <2>5, <4>1, ModWorker
    <3>2. l < next[j][w]
      <4>1. next[j][w] > total[j] /\ next[j][w] \in w .. total[j] + workers(j)
        BY <2>1, <2>4 DEF Shared
      <4> QED
        BY <2>2, <2>5, <4>1
    <3> QED
      BY <2>4, <2>6, <3>1, <3>2 DEF Shared
  <2>8. \A i \in 1 .. n : appended[j][i] \in 1 .. total[j]
    BY <2>4, <2>6 DEF Shared
  <2>9. \A i, m \in 1 .. n : i < m => appended[j][i] # appended[j][m]
    <3> SUFFICES ASSUME NEW i \in 1 .. n, NEW m \in 1 .. n, i < m,
                        appended[j][i] = appended[j][m]
                 PROVE  FALSE
      OBVIOUS
    <3>1. appended[j][i] < appended[j][m]
      BY <2>4, <2>6 DEF Shared
    <3> QED
      BY <2>8, <3>1
  <2>10. n = total[j]
    <3>1. Enumerates(appended[j], n, total[j])
      BY <2>7, <2>8, <2>9 DEF Enumerates
    <3> QED
      BY <2>2, <3>1, AllLines
  <2>11. Len(appended[j]) = inserted[j]
    <3>1. Counted(j)
      BY DEF IInv
    <3> QED
      BY <2>1, <2>2, <3>1 DEF Counted
  <2> QED
    BY <2>6, <2>10, <2>11
<1> QED
  BY <1>1, Invariant, SharingInvariant, DrainedInvariant, PTL

------------------------------------------------------------------------------
(* Progress.                                                               *)

\* A sequence of different lines is no longer than the payload.
LEMMA NoMoreLines ==
  ASSUME NEW t \in Nat, NEW n \in Nat, NEW s,
         \A i \in 1 .. n : s[i] \in 1 .. t /\ \A m \in 1 .. n : i < m => s[i] # s[m]
  PROVE  n <= t
<1> DEFINE f == [i \in 1 .. n |-> s[i]]
<1>1. f \in Injection(1 .. n, 1 .. t)
  <2>1. f \in [1 .. n -> 1 .. t]
    OBVIOUS
  <2>2. \A i, m \in 1 .. n : f[i] = f[m] => i = m
    <3>1. \A i, m \in 1 .. n : i < m \/ m < i \/ i = m
      OBVIOUS
    <3> QED
      BY <3>1
  <2> QED
    BY <2>1, <2>2 DEF Injection, IsInjective
<1>2. /\ IsFiniteSet(1 .. t) /\ Cardinality(1 .. n) = n
      /\ Cardinality(1 .. t) = t
  <2>1. /\ Cardinality(1 .. n) = IF 1 > n THEN 0 ELSE n - 1 + 1
        /\ Cardinality(1 .. t) = IF 1 > t THEN 0 ELSE t - 1 + 1
        /\ IsFiniteSet(1 .. t)
    BY FS_Interval
  <2> QED
    BY <2>1
<1>3. Cardinality(1 .. n) <= Cardinality(1 .. t)
  BY <1>1, <1>2, FS_Injection DEF ExistsInjection
<1> QED
  BY <1>2, <1>3

\* The progress of a job never goes beyond its readings.
ProgressWithin ==
  \A j \in Jobs : inserted[j] <= Len(appended[j]) /\ Len(appended[j]) <= total[j]

\* Whatever the workers and the consumer do, and whenever the job is cancelled, a
\* client that polls a job never reads more inserted than Appends have returned for
\* it, nor more than it has readings (backfill.go:129-146, 183-189, 214-240).
THEOREM ProgressStaysWithin == Spec => []ProgressWithin
<1>1. IInv /\ SharingInv => ProgressWithin
  <2> SUFFICES ASSUME IInv, SharingInv, NEW j \in Jobs
               PROVE  inserted[j] <= Len(appended[j]) /\ Len(appended[j]) <= total[j]
    BY DEF ProgressWithin
  <2>1. /\ appended[j] \in Seq(Nat) /\ hand[j] \o ch[j] \in Seq(Nat)
        /\ total[j] \in Nat /\ inserted[j] \in Nat
    BY DEF IInv, TypeOK
  <2>2. inserted[j] <= Len(appended[j])
    <3>1. Counted(j)
      BY DEF IInv
    <3> QED
      BY <2>1, <3>1 DEF Counted
  <2>3. PICK n \in Nat :
          /\ n = Len(appended[j])
          /\ \A i \in 1 .. n : i \in DOMAIN pipeline(j) /\ pipeline(j)[i] = appended[j][i]
    <3>1. pipeline(j) = appended[j] \o (hand[j] \o ch[j])
      <4>1. hand[j] \in Seq(Nat) /\ ch[j] \in Seq(Nat)
        BY DEF IInv, TypeOK
      <4> QED
        BY <2>1, <4>1, Associative DEF pipeline
    <3>2. PICK a \in Seq(Nat), b \in Seq(Nat) : a = appended[j] /\ b = hand[j] \o ch[j]
      BY <2>1
    <3>3. \A i \in 1 .. Len(a) : i \in DOMAIN (a \o b) /\ (a \o b)[i] = a[i]
      OBVIOUS
    <3>4. PICK n \in Nat : n = Len(a)
      BY <3>2
    <3> QED
      BY <3>1, <3>2, <3>3, <3>4, Zenon
  <2>4. CASE consumer[j] = "none"
    <3>1. n = 0
      <4>1. \A i \in 1 .. n : i \in DOMAIN << >>
        BY <2>3, <2>4 DEF SharingInv, Sharing
      <4>2. DOMAIN << >> = {}
        OBVIOUS
      <4> QED
        BY <4>1, <4>2
    <3> QED
      BY <2>1, <2>2, <2>3, <3>1
  <2>5. CASE consumer[j] # "none"
    <3>1. Shared(pipeline(j), total[j], workers(j), next[j])
      BY <2>5 DEF SharingInv, Sharing
    <3>2. ASSUME NEW i \in 1 .. n
          PROVE  /\ appended[j][i] \in 1 .. total[j]
                 /\ \A m \in 1 .. n : i < m => appended[j][i] # appended[j][m]
      <4>1. pipeline(j)[i] \in 1 .. total[j]
        BY <2>3, <3>1 DEF Shared
      <4>2. ASSUME NEW m \in 1 .. n, i < m, pipeline(j)[i] = pipeline(j)[m] PROVE FALSE
        <5>1. pipeline(j)[i] < pipeline(j)[m]
          BY <2>3, <3>1, <4>2 DEF Shared
        <5> QED
          BY <4>1, <4>2, <5>1
      <4> QED
        BY <2>3, <4>1, <4>2
    <3>3. n <= total[j]
      BY <2>1, <3>2, NoMoreLines
    <3> QED
      BY <2>2, <2>3, <3>3
  <2> QED
    BY <2>4, <2>5
<1> QED
  BY <1>1, Invariant, SharingInvariant, PTL

RestIsFinal == [][\A j \in Jobs \ Repaired : AtRest(j) => AtRest(j)']_vars

\* A job of the code that has come to rest stays there for good, cancelled or not,
\* whatever the other jobs do: its goroutines are leaked (backfill.go:214-244).
THEOREM RestForGood == Spec => RestIsFinal
<1>1. IInv /\ [Next]_vars => [\A j \in Jobs \ Repaired : AtRest(j) => AtRest(j)']_vars
  <2> SUFFICES ASSUME IInv, Next, NEW k \in Jobs \ Repaired, AtRest(k)
               PROVE  AtRest(k)'
    OBVIOUS
  <2>1. /\ << k, "ch" >> \notin closed /\ runner[k] # "start" /\ Consumer \notin Workers
        /\ status[k] # "absent"
    <3>1. consumer[k] = "receive" /\ Tied(k) /\ Knot(k)
      BY DEF IInv, Tied, AtRest
    <3>2. << k, "ch" >> \notin closed
      BY <3>1 DEF Knot
    <3> QED
      BY <3>1, <3>2 DEF Tied, Started, Consumer, Workers
  <2>2. CASE Race
    BY <2>2 DEF Race, goroutines, AtRest
  <2>3. ASSUME NEW j \in Jobs, Start(j) \/ Cancel(j) \/ Run(j) \/ CloseCh(j)
        PROVE  AtRest(k)'
    BY <2>1, <2>3 DEF Start, Cancel, Run, Launch, AwaitDone, Finalize, CloseFinished, CloseCh,
                      progress, goroutines, AtRest, IInv, TypeOK
  <2>4. ASSUME NEW j \in Jobs, Consume(j) PROVE AtRest(k)'
    BY <2>1, <2>4 DEF Consume, Receive, Load, AppendLocal, Store, BumpInserted, CloseDone, progress,
                      AtRest, IInv, TypeOK
  <2>5. ASSUME NEW j \in Jobs, NEW w \in Workers, Work(j, w) PROVE AtRest(k)'
    BY <2>1, <2>5 DEF Work, Send, Leave, progress, AtRest, IInv, TypeOK
  <2> QED
    BY <2>2, <2>3, <2>4, <2>5 DEF Next
<1> QED
  BY <1>1, Invariant, PTL DEF Spec, RestIsFinal

------------------------------------------------------------------------------
(* What the store makes of the lines.                                      *)

\* The readings that an Append has added to a slice.
begun == {x \in Entry :
            \/ \E i \in DOMAIN appended[x[1]] : appended[x[1]][i] = x[2]
            \/ consumer[x[1]] = "store" /\ x = reading(x[1])}

\* s holds members of B, none of them twice.
Once(s, B) ==
  /\ \A i \in DOMAIN s : s[i] \in B
  /\ \A i, m \in DOMAIN s : s[i] = s[m] => i = m

\* x is among the last d + 1 elements of s.
Shows(s, x, d) == \E i \in 1 .. Len(s) : s[i] = x /\ Len(s) - i <= d

\* Where x is if it was stored alone and d stores came after it: an Append that has
\* extended its slice has pushed x one place further.
Kept(x, d) ==
  /\ Shows(byWell, x, d)
  /\ \A k \in Jobs :
       /\ consumer[k] = "append" => Shows(slice[k], x, d)
       /\ consumer[k] = "store" /\ d + 1 < MaxKeep => Shows(slice[k], x, d + 1)

StoreInv ==
  /\ Once(byWell, begun) /\ \A k \in Jobs : Once(slice[k], begun)
  /\ \A j, k \in inAppend : j # k => j \in overlapped
  /\ \A j \in Jobs \ overlapped : consumer[j] = "store" => Shows(slice[j], reading(j), 0)
  /\ \A i \in DOMAIN latest : \A x \in latest[i] : Kept(x, Len(latest) - i)

LEMMA WrittenOnce ==
  ASSUME NEW t \in Seq(Entry), NEW s \in Seq(Entry), NEW x \in Entry, NEW capacity,
         NEW B, NEW C, Once(t, B), x \notin B, B \subseteq C, x \in C
  PROVE  Once(written(t, s, x, capacity), C)
<1>1. PICK u \in Seq(Entry) : u = written(t, s, x, capacity)
  BY Written
<1>2. /\ Len(u) = Len(t)
      /\ \A i \in 1 .. Len(t) : u[i] = t[i] \/ (i = Len(s) + 1 /\ u[i] = x)
  BY <1>1, Written
<1>3. DOMAIN u = 1 .. Len(t) /\ DOMAIN t = 1 .. Len(t)
  BY <1>2
<1>4. Once(u, C)
  BY <1>2, <1>3 DEF Once
<1> QED
  BY <1>1, <1>4

\* a is s with x behind it.
Extends(a, s, x) ==
  /\ a = Append(s, x) /\ Len(a) = Len(s) + 1 /\ a[Len(s) + 1] = x
  /\ \A i \in 1 .. Len(s) : a[i] = s[i]

LEMMA Appended ==
  ASSUME NEW S, NEW s \in Seq(S), NEW x \in S
  PROVE  \E a \in Seq(S) : Extends(a, s, x)
<1>1. /\ Append(s, x) \in Seq(S) /\ Len(Append(s, x)) = Len(s) + 1
      /\ Append(s, x)[Len(s) + 1] = x
      /\ \A i \in 1 .. Len(s) : Append(s, x)[i] = s[i]
  BY AppendProperties
<1> QED
  BY <1>1 DEF Extends

\* b is a cut to MaxKeep, without the first e elements.
Cuts(b, a, e) ==
  /\ b = lastOf(a, MaxKeep) /\ Len(b) + e = Len(a) /\ Len(b) <= MaxKeep
  /\ e > 0 => Len(b) = MaxKeep
  /\ \A i \in 1 .. Len(b) : b[i] = a[i + e]

LEMMA Cut ==
  ASSUME NEW S, NEW a \in Seq(S)
  PROVE  \E b \in Seq(S), e \in Nat : Cuts(b, a, e)
<1>1. PICK b \in Seq(S) : b = lastOf(a, MaxKeep)
  BY LastOf, BackfillAssumption
<1>2. /\ Len(b) = IF Len(a) > MaxKeep THEN MaxKeep ELSE Len(a)
      /\ \A i \in 1 .. Len(b) :
           b[i] = a[i + (IF Len(a) > MaxKeep THEN Len(a) - MaxKeep ELSE 0)]
  BY <1>1, LastOf, BackfillAssumption
<1>3. Len(a) \in Nat /\ MaxKeep \in Nat
  BY BackfillAssumption
<1>4. PICK e \in Nat : e = IF Len(a) > MaxKeep THEN Len(a) - MaxKeep ELSE 0
  <2>1. (IF Len(a) > MaxKeep THEN Len(a) - MaxKeep ELSE 0) \in Nat
    BY <1>3
  <2> QED
    BY <2>1
<1>5. /\ Len(b) + e = Len(a) /\ Len(b) <= MaxKeep
      /\ e > 0 => Len(b) = MaxKeep
  BY <1>2, <1>3, <1>4
<1>6. \A i \in 1 .. Len(b) : b[i] = a[i + e]
  BY <1>2, <1>4
<1> QED
  BY <1>1, <1>5, <1>6 DEF Cuts

LEMMA AppendOnce ==
  ASSUME NEW s \in Seq(Entry), NEW x \in Entry,
         NEW B, NEW C, Once(s, B), x \notin B, B \subseteq C, x \in C
  PROVE  Once(keep(Append(s, x)), C) /\ Shows(keep(Append(s, x)), x, 0)
<1>1. PICK a \in Seq(Entry) : Extends(a, s, x)
  BY Appended
<1>2. \A i \in 1 .. Len(a) : i = Len(s) + 1 \/ i \in 1 .. Len(s)
  BY <1>1 DEF Extends
<1>3. Once(a, C)
  <2>1. DOMAIN a = 1 .. Len(a) /\ DOMAIN s = 1 .. Len(s)
    OBVIOUS
  <2> QED
    BY <1>1, <1>2, <2>1 DEF Once, Extends
<1>4. PICK b \in Seq(Entry), e \in Nat : Cuts(b, a, e)
  BY Cut
<1>5. PICK n \in Nat : n = Len(b) /\ DOMAIN b = 1 .. n /\ DOMAIN a = 1 .. n + e
  <2>1. /\ Len(b) \in Nat /\ DOMAIN b = 1 .. Len(b)
        /\ DOMAIN a = 1 .. Len(a) /\ Len(a) = Len(b) + e
    BY <1>4 DEF Cuts
  <2> QED
    BY <2>1
<1>6. Once(b, C)
  <2>1. \A i \in 1 .. n : i + e \in 1 .. n + e
    OBVIOUS
  <2>2. ASSUME NEW i \in 1 .. n, NEW m \in 1 .. n, b[i] = b[m] PROVE i = m
    <3>1. a[i + e] = a[m + e] /\ i + e \in DOMAIN a /\ m + e \in DOMAIN a
      BY <1>4, <1>5, <2>1, <2>2 DEF Cuts
    <3>2. i + e = m + e
      BY <1>3, <3>1 DEF Once
    <3> QED
      BY <3>2
  <2>3. \A i \in 1 .. n : b[i] \in C
    BY <1>3, <1>4, <1>5, <2>1 DEF Once, Cuts
  <2> QED
    BY <1>5, <2>2, <2>3 DEF Once
<1>7. Shows(b, x, 0)
  <2>1. n \in 1 .. n /\ n + e = Len(s) + 1
    BY <1>1, <1>4, <1>5, BackfillAssumption DEF Extends, Cuts
  <2>2. b[n] = x
    BY <1>1, <1>4, <1>5, <2>1 DEF Extends, Cuts
  <2>3. n - n <= 0
    OBVIOUS
  <2> QED
    BY <1>5, <2>1, <2>2, <2>3 DEF Shows
<1> QED
  BY <1>1, <1>4, <1>6, <1>7 DEF keep, Extends, Cuts

\* An append pushes what is shown one place further, and writes over none of it.
LEMMA AppendShows ==
  ASSUME NEW s \in Seq(Entry), NEW x \in Entry, NEW y, NEW d \in Nat,
         d + 1 < MaxKeep, Shows(s, y, d)
  PROVE  Shows(keep(Append(s, x)), y, d + 1)
<1>1. PICK a \in Seq(Entry) : Extends(a, s, x)
  BY Appended
<1>2. PICK i \in 1 .. Len(s) : s[i] = y /\ Len(s) - i <= d
  BY DEF Shows
<1>3. PICK b \in Seq(Entry), e \in Nat : Cuts(b, a, e)
  BY Cut
<1>4. PICK n \in Nat : n = Len(b) /\ n + e = Len(s) + 1 /\ (e > 0 => n = MaxKeep)
  BY <1>1, <1>3 DEF Extends, Cuts
<1>5. i - e \in 1 .. n /\ n - (i - e) <= d + 1 /\ i - e + e = i
  BY <1>2, <1>4, BackfillAssumption
<1>6. b[i - e] = y
  BY <1>1, <1>2, <1>3, <1>4, <1>5 DEF Extends, Cuts
<1> QED
  BY <1>1, <1>3, <1>4, <1>5, <1>6 DEF keep, Shows, Extends, Cuts

LEMMA WrittenShows ==
  ASSUME NEW t \in Seq(Entry), NEW s \in Seq(Entry), NEW x \in Entry, NEW capacity,
         NEW B, Once(t, B), NEW y, NEW d, NEW e, Shows(s, y, d), Shows(t, y, e)
  PROVE  Shows(written(t, s, x, capacity), y, e)
<1>1. PICK u \in Seq(Entry) : u = written(t, s, x, capacity)
  BY Written
<1>2. /\ Len(u) = Len(t)
      /\ \A i \in 1 .. Len(t) :
           \/ u[i] = t[i]
           \/ i = Len(s) + 1 /\ \A m \in 1 .. Len(s) : m \in 1 .. Len(t) /\ t[m] = s[m]
  BY <1>1, Written
<1>3. PICK i \in 1 .. Len(t) : t[i] = y /\ Len(t) - i <= e
  BY DEF Shows
<1>4. u[i] = y
  <2> SUFFICES ASSUME u[i] # t[i] PROVE FALSE
    BY <1>3
  <2>1. PICK m \in 1 .. Len(s) : s[m] = y
    BY DEF Shows
  <2>2. i = Len(s) + 1 /\ m \in 1 .. Len(t) /\ t[m] = t[i]
    BY <1>2, <1>3, <2>1
  <2>3. m = i
    BY <2>2 DEF Once
  <2> QED
    BY <2>2, <2>3
<1>5. Shows(u, y, e)
  BY <1>2, <1>3, <1>4 DEF Shows
<1> QED
  BY <1>1, <1>5

\* The line that a consumer is about to append has not been in an Append before: the
\* lines of the pipeline are all different.
LEMMA Fresh ==
  ASSUME IInv, SharingInv, NEW j \in Jobs, consumer[j] = "append"
  PROVE  reading(j) \notin begun
<1>1. /\ appended[j] \in Seq(Nat) /\ hand[j] \in Seq(Nat) /\ ch[j] \in Seq(Nat)
      /\ Len(hand[j]) = 1
  BY DEF IInv, TypeOK, Counted
<1>2. PICK a \in Seq(Nat), h \in Seq(Nat), c \in Seq(Nat) :
        a = appended[j] /\ h = hand[j] /\ c = ch[j] /\ Len(h) = 1
  BY <1>1
<1>3. PICK s : s = a \o h \o c /\ s = pipeline(j)
  BY <1>2 DEF pipeline
<1>4. /\ \A i \in 1 .. Len(a) : i \in DOMAIN s /\ s[i] = a[i]
      /\ Len(a) + 1 \in DOMAIN s /\ s[Len(a) + 1] = h[1]
  <2>1. PICK b \in Seq(Nat) :
          /\ b = a \o h /\ Len(b) = Len(a) + Len(h)
          /\ \A i \in 1 .. Len(a) + Len(h) : b[i] = IF i <= Len(a) THEN a[i] ELSE h[i - Len(a)]
    <3>1. /\ a \o h \in Seq(Nat) /\ Len(a \o h) = Len(a) + Len(h)
          /\ \A i \in 1 .. Len(a) + Len(h) :
               (a \o h)[i] = IF i <= Len(a) THEN a[i] ELSE h[i - Len(a)]
      BY ConcatProperties
    <3> QED
      BY <3>1, Zenon
  <2>2. /\ Len(b) = Len(a) + 1 /\ b[Len(a) + 1] = h[1]
        /\ \A i \in 1 .. Len(a) : b[i] = a[i]
    <3>1. PICK n \in Nat : n = Len(a)
      OBVIOUS
    <3>2. \A i \in 1 .. n + 1 : b[i] = IF i <= n THEN a[i] ELSE h[i - n]
      BY <1>2, <2>1, <3>1
    <3>3. n + 1 \in 1 .. n + 1 /\ ~ n + 1 <= n /\ n + 1 - n = 1
      OBVIOUS
    <3>4. b[n + 1] = h[1]
      BY <3>2, <3>3
    <3>5. \A i \in 1 .. n : i \in 1 .. n + 1 /\ i <= n
      OBVIOUS
    <3>6. \A i \in 1 .. n : b[i] = a[i]
      BY <3>2, <3>5
    <3>7. Len(b) = n + 1
      BY <1>2, <2>1, <3>1
    <3> QED
      BY <3>1, <3>4, <3>6, <3>7
  <2>3. \A i \in 1 .. Len(b) : i \in DOMAIN (b \o c) /\ (b \o c)[i] = b[i]
    OBVIOUS
  <2>4. s = b \o c
    BY <1>3, <2>1
  <2>5. PICK n \in Nat : n = Len(a) /\ Len(b) = n + 1
    BY <2>2
  <2>6. n + 1 \in 1 .. n + 1 /\ \A i \in 1 .. n : i \in 1 .. n + 1
    OBVIOUS
  <2> QED
    BY <2>2, <2>3, <2>4, <2>5, <2>6
<1>5. Shared(s, total[j], workers(j), next[j])
  BY <1>3 DEF SharingInv, Sharing
<1>6. ASSUME NEW i \in DOMAIN a, a[i] = h[1] PROVE FALSE
  <2>1. i \in 1 .. Len(a) /\ i < Len(a) + 1 /\ s[i] = s[Len(a) + 1]
    BY <1>4, <1>6
  <2>2. s[i] < s[Len(a) + 1] /\ s[i] \in 1 .. total[j]
    BY <1>4, <1>5, <2>1 DEF Shared
  <2> QED
    BY <2>1, <2>2
<1>7. reading(j) = << j, h[1] >>
  BY <1>2 DEF reading
<1> QED
  BY <1>2, <1>6, <1>7 DEF begun

\* A step that leaves the store alone, and every consumer where it is in its Append.
LEMMA StoreStays ==
  ASSUME StoreInv, UNCHANGED << appended, store >>,
         \A k \in Jobs : /\ consumer'[k] = "append" <=> consumer[k] = "append"
                         /\ consumer'[k] = "store" <=> consumer[k] = "store"
                         /\ consumer[k] = "store" => hand'[k] = hand[k]
  PROVE  StoreInv'
<1>1. begun' = begun
  <2>1. \A x \in Entry : x[1] \in Jobs
    BY DEF Entry
  <2>2. \A k \in Jobs : consumer[k] = "store" => reading(k)' = reading(k)
    BY DEF reading
  <2>3. Entry' = Entry
    BY DEF Entry
  <2> QED
    BY <2>1, <2>2, <2>3 DEF begun
<1>2. inAppend' = inAppend
  BY DEF inAppend
<1>3. Once(byWell, begun)' /\ \A k \in Jobs : Once(slice[k], begun)'
  BY <1>1 DEF StoreInv, Once
<1>4. \A j \in Jobs \ overlapped' : consumer'[j] = "store" => Shows(slice[j], reading(j), 0)'
  BY DEF StoreInv, Shows, reading
<1>5. ASSUME NEW i \in DOMAIN latest, NEW x \in latest[i]
      PROVE  Kept(x, Len(latest) - i)'
  <2>1. PICK d : d = Len(latest) - i /\ Kept(x, d)
    BY DEF StoreInv
  <2>2. Kept(x, d)'
    BY <2>1 DEF Kept, Shows
  <2> QED
    BY <2>1, <2>2 DEF Kept, Shows
<1> QED
  BY <1>1, <1>2, <1>3, <1>4, <1>5 DEF StoreInv

LEMMA LoadStore ==
  ASSUME IInv, StoreInv, NEW j \in Jobs, Load(j)
  PROVE  StoreInv'
<1>1. /\ consumer[j] = "load" /\ consumer'[j] = "append" /\ slice'[j] = byWell
      /\ \A k \in Jobs \ {j} : consumer'[k] = consumer[k] /\ slice'[k] = slice[k]
      /\ UNCHANGED << appended, hand, byWell, latest >>
  BY DEF Load, IInv, TypeOK
<1>2. begun' = begun
  <2>1. \A x \in Entry : x[1] \in Jobs
    BY DEF Entry
  <2>2. Entry' = Entry /\ \A k \in Jobs : reading(k)' = reading(k)
    BY <1>1 DEF Entry, reading
  <2> QED
    BY <1>1, <2>1, <2>2 DEF begun
<1>3. Once(byWell, begun)' /\ \A k \in Jobs : Once(slice[k], begun)'
  BY <1>1, <1>2 DEF StoreInv, Once
<1>4. inAppend' = inAppend \cup {j} /\ j \notin inAppend
  BY <1>1 DEF inAppend
<1>5. \A i, k \in inAppend' : i # k => i \in overlapped'
  BY <1>4 DEF Load, StoreInv
<1>6. ASSUME NEW k \in Jobs \ overlapped', consumer'[k] = "store"
      PROVE  Shows(slice[k], reading(k), 0)'
  <2>1. k # j /\ k \in inAppend /\ k \notin overlapped
    BY <1>1, <1>6 DEF inAppend, Load
  <2> QED
    BY <1>1, <1>6, <2>1 DEF StoreInv, Shows, reading
<1>7. ASSUME NEW i \in DOMAIN latest, NEW x \in latest[i]
      PROVE  Kept(x, Len(latest) - i)'
  <2>1. PICK d : d = Len(latest) - i /\ Kept(x, d)
    BY DEF StoreInv
  <2>2. ASSUME NEW k \in Jobs
        PROVE  /\ consumer'[k] = "append" => Shows(slice'[k], x, d)
               /\ consumer'[k] = "store" /\ d + 1 < MaxKeep => Shows(slice'[k], x, d + 1)
    BY <1>1, <2>1 DEF Kept
  <2>3. Shows(byWell', x, d)
    BY <1>1, <2>1 DEF Kept
  <2> QED
    BY <1>1, <2>1, <2>2, <2>3 DEF Kept, Shows
<1> QED
  BY <1>1, <1>3, <1>5, <1>6, <1>7 DEF StoreInv

LEMMA AppendStore ==
  ASSUME IInv, SharingInv, StoreInv, NEW j \in Jobs, AppendLocal(j)
  PROVE  StoreInv'
<1>1. /\ consumer[j] = "append" /\ consumer'[j] = "store"
      /\ \A k \in Jobs \ {j} : consumer'[k] = consumer[k]
      /\ UNCHANGED << appended, hand, latest, overlapped >>
  BY DEF AppendLocal, IInv, TypeOK
<1>2. PICK x \in Entry, s \in Seq(Entry) : x = reading(j) /\ s = slice[j]
  BY AppendType
<1>3. PICK capacity :
        /\ byWell' = written(byWell, s, x, capacity)
        /\ \A k \in Jobs \ {j} : slice'[k] = written(slice[k], s, x, capacity)
  BY <1>2, AppendType
<1>4. slice'[j] = keep(Append(s, x))
  BY <1>2, AppendType
<1>5. x \notin begun
  BY <1>1, <1>2, Fresh
<1>6. begun \subseteq begun' /\ x \in begun'
  <2>1. \A y \in Entry : y[1] \in Jobs
    BY DEF Entry
  <2>2. Entry' = Entry /\ x[1] = j /\ \A k \in Jobs : reading(k)' = reading(k)
    BY <1>1, <1>2 DEF Entry, reading
  <2> QED
    BY <1>1, <1>2, <2>1, <2>2 DEF begun
<1>7. /\ byWell \in Seq(Entry) /\ \A k \in Jobs : slice[k] \in Seq(Entry)
      /\ latest \in Seq(SUBSET Entry) /\ Len(latest) <= MaxKeep
  BY DEF IInv, TypeOK
<1>8. Once(byWell, begun)'
  <2>1. Once(byWell, begun)
    BY DEF StoreInv
  <2>2. Once(written(byWell, s, x, capacity), begun')
    BY <1>5, <1>6, <1>7, <2>1, WrittenOnce
  <2> QED
    BY <1>3, <2>2 DEF Once
<1>9. ASSUME NEW k \in Jobs PROVE Once(slice[k], begun)'
  <2>1. Once(slice[k], begun)
    BY DEF StoreInv
  <2>2. CASE k = j
    <3>1. Once(keep(Append(s, x)), begun')
      BY <1>2, <1>5, <1>6, <2>1, <2>2, AppendOnce
    <3> QED
      BY <1>4, <2>2, <3>1 DEF Once
  <2>3. CASE k # j
    <3>1. Once(written(slice[k], s, x, capacity), begun')
      BY <1>5, <1>6, <1>7, <2>1, WrittenOnce
    <3> QED
      BY <1>3, <2>3, <3>1 DEF Once
  <2> QED
    BY <2>2, <2>3
<1>10. inAppend' = inAppend /\ j \in inAppend
  BY <1>1 DEF inAppend
<1>11. ASSUME NEW k \in Jobs \ overlapped, consumer'[k] = "store"
       PROVE  Shows(slice[k], reading(k), 0)'
  <2>1. k = j
    BY <1>1, <1>10, <1>11 DEF StoreInv, inAppend
  <2>2. Shows(keep(Append(s, x)), x, 0)
    <3>1. Once(s, begun)
      BY <1>2 DEF StoreInv
    <3> QED
      BY <1>5, <1>6, <3>1, AppendOnce
  <2>3. reading(k)' = x
    BY <1>1, <1>2, <2>1 DEF reading
  <2> QED
    BY <1>4, <2>1, <2>2, <2>3 DEF Shows
<1>12. ASSUME NEW i \in DOMAIN latest, NEW y \in latest[i]
       PROVE  Kept(y, Len(latest) - i)'
  <2>1. PICK d \in Nat : d = Len(latest) - i /\ d < MaxKeep
    BY <1>7, BackfillAssumption
  <2>2. Kept(y, d)
    BY <2>1 DEF StoreInv
  <2>3. Shows(s, y, d)
    BY <1>1, <1>2, <2>2 DEF Kept
  <2>4. Shows(byWell', y, d)
    <3>1. Once(byWell, begun) /\ Shows(byWell, y, d)
      BY <2>2 DEF StoreInv, Kept
    <3> QED
      BY <1>3, <1>7, <2>3, <3>1, WrittenShows
  <2>5. ASSUME NEW k \in Jobs, NEW e, k # j, Shows(slice[k], y, e) PROVE Shows(slice'[k], y, e)
    <3>1. Once(slice[k], begun)
      BY DEF StoreInv
    <3>2. Shows(written(slice[k], s, x, capacity), y, e)
      BY <1>7, <2>3, <2>5, <3>1, WrittenShows
    <3> QED
      BY <1>3, <2>5, <3>2
  <2>6. ASSUME NEW k \in Jobs
        PROVE  /\ consumer'[k] = "append" => Shows(slice'[k], y, d)
               /\ consumer'[k] = "store" /\ d + 1 < MaxKeep => Shows(slice'[k], y, d + 1)
    <3>1. CASE k = j
      BY <1>1, <1>4, <2>3, <3>1, AppendShows
    <3>2. CASE k # j
      BY <1>1, <2>2, <2>5, <3>2 DEF Kept
    <3> QED
      BY <3>1, <3>2
  <2>7. Kept(y, d)'
    BY <2>4, <2>6 DEF Kept, Shows
  <2> QED
    BY <1>1, <2>1, <2>7 DEF Kept, Shows
<1> QED
  BY <1>1, <1>8, <1>9, <1>10, <1>11, <1>12 DEF StoreInv

LEMMA StoreStore ==
  ASSUME IInv, StoreInv, NEW j \in Jobs, Store(j)
  PROVE  StoreInv'
<1>1. /\ consumer[j] = "store" /\ consumer'[j] = "bump"
      /\ byWell' = slice[j] /\ slice'[j] = << >>
      /\ \A k \in Jobs \ {j} : /\ consumer'[k] = consumer[k] /\ slice'[k] = slice[k]
                               /\ hand'[k] = hand[k] /\ appended'[k] = appended[k]
      /\ overlapped' = overlapped \ {j}
  BY DEF Store, afterAppend, IInv, TypeOK
<1>2. begun \subseteq begun'
  <2>1. \A x \in Entry : x[1] \in Jobs
    BY DEF Entry
  <2>2. Entry' = Entry /\ \A k \in Jobs \ {j} : reading(k)' = reading(k)
    BY <1>1 DEF Entry, reading
  <2>3. /\ appended[j] \in Seq(Nat) /\ hand[j] \in Seq(Nat) /\ Len(hand[j]) = 1
        /\ appended'[j] = appended[j] \o hand[j]
    BY DEF Store, IInv, TypeOK, Counted
  <2>4. PICK a \in Seq(Nat), h \in Seq(Nat), n \in Nat :
          /\ a = appended[j] /\ h = hand[j] /\ appended'[j] = a \o h
          /\ Len(h) = 1 /\ n = Len(a) /\ DOMAIN a = 1 .. n
    <3>1. Len(appended[j]) \in Nat /\ DOMAIN appended[j] = 1 .. Len(appended[j])
      BY <2>3
    <3> QED
      BY <2>3, <3>1
  <2>5. /\ \A i \in 1 .. n : i \in DOMAIN (a \o h) /\ (a \o h)[i] = a[i]
        /\ n + 1 \in DOMAIN (a \o h) /\ (a \o h)[n + 1] = h[1]
    <3>1. /\ DOMAIN (a \o h) = 1 .. n + 1
          /\ \A i \in 1 .. n + 1 : (a \o h)[i] = IF i <= n THEN a[i] ELSE h[i - n]
      <4>1. /\ a \o h \in Seq(Nat) /\ Len(a \o h) = Len(a) + Len(h)
            /\ \A i \in 1 .. Len(a) + Len(h) :
                 (a \o h)[i] = IF i <= Len(a) THEN a[i] ELSE h[i - Len(a)]
        BY ConcatProperties
      <4>2. PICK c \in Seq(Nat) :
              /\ c = a \o h /\ Len(c) = n + 1
              /\ \A i \in 1 .. n + 1 : c[i] = IF i <= n THEN a[i] ELSE h[i - n]
        <5>1. Len(a) = n /\ Len(h) = 1
          BY <2>4
        <5>2. PICK c \in Seq(Nat) :
                /\ c = a \o h /\ Len(c) = Len(a) + Len(h)
                /\ \A i \in 1 .. Len(a) + Len(h) :
                     c[i] = IF i <= Len(a) THEN a[i] ELSE h[i - Len(a)]
          BY <4>1, Zenon
        <5> QED
          BY <5>1, <5>2
      <4>3. DOMAIN c = 1 .. n + 1
        BY <4>2
      <4> QED
        BY <4>2, <4>3
    <3> QED
      BY <3>1
  <2>6. reading(j) = << j, h[1] >>
    BY <2>4 DEF reading
  <2>7. ASSUME NEW x \in begun PROVE x \in begun'
    <3>1. CASE x[1] = j
      <4>1. x \in Entry' /\ \/ \E i \in DOMAIN a : a[i] = x[2]
                            \/ x[2] = h[1]
        <5>1. /\ x \in Entry
              /\ \/ \E i \in DOMAIN appended[x[1]] : appended[x[1]][i] = x[2]
                 \/ x = reading(x[1])
          BY <2>7 DEF begun
        <5>2. x = reading(x[1]) => x[2] = h[1]
          BY <2>6, <3>1
        <5> QED
          BY <2>2, <2>4, <3>1, <5>1, <5>2
      <4>2. \E i \in DOMAIN (a \o h) : (a \o h)[i] = x[2]
        BY <2>4, <2>5, <4>1
      <4>3. \E i \in DOMAIN appended'[x[1]] : appended'[x[1]][i] = x[2]
        BY <2>4, <3>1, <4>2
      <4> QED
        BY <4>1, <4>3 DEF begun
    <3>2. CASE x[1] # j
      BY <1>1, <2>1, <2>2, <2>7, <3>2 DEF begun
    <3> QED
      BY <3>1, <3>2
  <2> QED
    BY <2>7
<1>3. Once(byWell, begun)' /\ \A k \in Jobs : Once(slice[k], begun)'
  <2>1. DOMAIN << >> = {}
    OBVIOUS
  <2> QED
    BY <1>1, <1>2, <2>1 DEF StoreInv, Once
<1>4. inAppend' = inAppend \ {j} /\ j \in inAppend
  BY <1>1 DEF inAppend
<1>5. \A i, k \in inAppend' : i # k => i \in overlapped'
  BY <1>1, <1>4 DEF StoreInv
<1>6. ASSUME NEW k \in Jobs \ overlapped', consumer'[k] = "store"
      PROVE  Shows(slice[k], reading(k), 0)'
  BY <1>1, <1>4, <1>6 DEF StoreInv, Shows, reading, inAppend
<1>7. PICK S \in SUBSET Entry :
        /\ \A x \in S : x = reading(j) /\ j \notin overlapped
        /\ latest' = lastOf(Append(latest, S), MaxKeep)
  BY StoreType
<1>8. PICK a \in Seq(SUBSET Entry), n \in Nat :
        /\ a = Append(latest, S) /\ n = Len(latest) /\ n <= MaxKeep /\ Len(a) = n + 1
        /\ a[n + 1] = S /\ \A i \in 1 .. n : i \in DOMAIN latest /\ a[i] = latest[i]
  <2>1. latest \in Seq(SUBSET Entry) /\ Len(latest) <= MaxKeep
    BY DEF IInv, TypeOK
  <2>2. PICK a \in Seq(SUBSET Entry) : Extends(a, latest, S)
    BY <2>1, Appended
  <2>3. PICK n \in Nat : n = Len(latest) /\ DOMAIN latest = 1 .. n
    BY <2>1
  <2> QED
    BY <2>1, <2>2, <2>3 DEF Extends
<1>9. PICK b \in Seq(SUBSET Entry), e \in Nat : Cuts(b, a, e)
  BY Cut
<1>10. /\ b = latest' /\ Len(b) + e = n + 1 /\ Len(b) <= MaxKeep
       /\ \A i \in 1 .. Len(b) : b[i] = a[i + e]
  BY <1>7, <1>8, <1>9 DEF Cuts
<1>11. ASSUME NEW i \in 1 .. Len(b), NEW x \in b[i]
       PROVE  Kept(x, Len(b) - i)'
  <2>1. PICK d \in Nat : d = Len(b) - i /\ d < MaxKeep /\ i + e = n + 1 - d /\ i + e \in 1 .. n + 1
    BY <1>10, BackfillAssumption
  <2>2. x \in a[i + e]
    BY <1>10, <1>11
  <2>3. CASE d = 0
    <3>1. x = reading(j) /\ j \notin overlapped
      BY <1>7, <1>8, <2>1, <2>2, <2>3
    <3>2. Shows(slice[j], x, 0)
      BY <1>1, <3>1 DEF StoreInv
    <3>3. \A k \in Jobs : consumer'[k] \notin {"append", "store"}
      BY <1>1, <3>1 DEF StoreInv, inAppend
    <3> QED
      BY <1>1, <2>1, <2>3, <3>2, <3>3 DEF Kept, Shows
  <2>4. CASE d # 0
    <3>1. PICK f \in Nat : d = f + 1 /\ i + e = n - f /\ i + e \in 1 .. n
      BY <2>1, <2>4
    <3>2. Kept(x, f)
      <4>1. i + e \in DOMAIN latest /\ x \in latest[i + e] /\ f = Len(latest) - (i + e)
        BY <1>8, <2>2, <3>1
      <4> QED
        BY <4>1 DEF StoreInv
    <3>3. Shows(slice[j], x, d)
      BY <1>1, <2>1, <3>1, <3>2 DEF Kept
    <3>4. ASSUME NEW k \in Jobs
          PROVE  /\ consumer'[k] = "append" => Shows(slice'[k], x, d)
                 /\ consumer'[k] = "store" /\ d + 1 < MaxKeep => Shows(slice'[k], x, d + 1)
      <4>1. CASE k = j
        BY <1>1, <4>1
      <4>2. CASE k # j
        <5>1. consumer'[k] = "append" => Shows(slice[k], x, f)
          BY <1>1, <3>2, <4>2 DEF Kept
        <5>2. consumer'[k] = "store" /\ d + 1 < MaxKeep => Shows(slice[k], x, f + 1)
          BY <1>1, <3>1, <3>2, <4>2, BackfillAssumption DEF Kept
        <5>3. PICK l \in Nat : l = Len(slice[k])
          <6>1. Len(slice[k]) \in Nat
            BY DEF IInv, TypeOK
          <6> QED
            BY <6>1
        <5>4. Shows(slice[k], x, f) => Shows(slice[k], x, d)
          BY <3>1, <5>3 DEF Shows
        <5>5. Shows(slice[k], x, f + 1) => Shows(slice[k], x, d + 1)
          BY <3>1, <5>3 DEF Shows
        <5>6. slice'[k] = slice[k]
          BY <1>1, <4>2
        <5> QED
          BY <5>1, <5>2, <5>4, <5>5, <5>6
      <4> QED
        BY <4>1, <4>2
    <3>5. Kept(x, d)'
      BY <1>1, <3>3, <3>4 DEF Kept, Shows
    <3> QED
      BY <2>1, <3>5
  <2> QED
    BY <2>3, <2>4
<1>12. DOMAIN b = 1 .. Len(b)
  OBVIOUS
<1> QED
  BY <1>3, <1>5, <1>6, <1>10, <1>11, <1>12 DEF StoreInv

LEMMA NextStore == IInv /\ SharingInv /\ StoreInv /\ [Next]_vars => StoreInv'
<1> SUFFICES ASSUME IInv, SharingInv, StoreInv, [Next]_vars PROVE StoreInv'
  OBVIOUS
<1>1. CASE UNCHANGED vars \/ Race
  BY <1>1, StoreStays DEF vars, Race, goroutines
<1>2. ASSUME NEW j \in Jobs, Start(j) \/ Cancel(j) \/ Run(j) \/ CloseCh(j) PROVE StoreInv'
  <2>1. /\ UNCHANGED << appended, store, hand >>
        /\ \A k \in Jobs : \/ consumer'[k] = consumer[k]
                           \/ consumer[k] = "none" /\ consumer'[k] = "receive"
    <3>1. CASE Launch(j)
      BY <3>1 DEF Launch, IInv, TypeOK, Tied, Started
    <3>2. CASE Start(j) \/ Cancel(j) \/ CloseCh(j)
      BY <3>2 DEF Start, Cancel, CloseCh, goroutines
    <3>3. CASE AwaitDone(j) \/ Finalize(j) \/ CloseFinished(j)
      BY <3>3 DEF AwaitDone, Finalize, CloseFinished
    <3> QED
      BY <1>2, <3>1, <3>2, <3>3 DEF Run
  <2> QED
    BY <2>1, StoreStays
<1>3. ASSUME NEW j \in Jobs, Receive(j) \/ BumpInserted(j) \/ CloseDone(j) PROVE StoreInv'
  <2>1. /\ UNCHANGED << appended, store >>
        /\ consumer[j] \notin {"append", "store"} /\ consumer'[j] \notin {"append", "store"}
        /\ \A k \in Jobs \ {j} : consumer'[k] = consumer[k] /\ hand'[k] = hand[k]
    BY <1>3 DEF Receive, BumpInserted, CloseDone, IInv, TypeOK
  <2> QED
    BY <2>1, StoreStays
<1>4. ASSUME NEW j \in Jobs, Load(j) \/ AppendLocal(j) \/ Store(j) PROVE StoreInv'
  BY <1>4, LoadStore, AppendStore, StoreStore
<1>5. ASSUME NEW j \in Jobs, NEW w \in Workers, Work(j, w) PROVE StoreInv'
  BY <1>5, StoreStays DEF Work, Send, Leave
<1> QED
  BY <1>1, <1>2, <1>3, <1>4, <1>5 DEF Next, Consume

LEMMA StoreInvariant == Spec => []StoreInv
<1>1. Init => StoreInv
  <2> SUFFICES ASSUME Init PROVE StoreInv
    OBVIOUS
  <2>1. DOMAIN << >> = {}
    OBVIOUS
  <2> QED
    BY <2>1 DEF Init, StoreInv, Once, inAppend
<1> QED
  BY <1>1, NextStore, Invariant, SharingInvariant, PTL DEF Spec

\* However the Appends of any number of jobs overlap, and whatever the runtime makes
\* room for, the store never shows a line twice, and a line whose Append overlapped no
\* other stays until MaxKeep later stores push it out (reading_store.go:22-29).
THEOREM AloneStays == Spec => []AloneIsKept
<1>1. IInv /\ StoreInv => AloneIsKept
  <2> SUFFICES ASSUME IInv, StoreInv PROVE AloneIsKept
    OBVIOUS
  <2>1. \A i, m \in DOMAIN byWell : byWell[i] = byWell[m] => i = m
    BY DEF StoreInv, Once
  <2>2. ASSUME NEW i \in DOMAIN latest, NEW x \in latest[i] PROVE Contains(byWell, x)
    BY DEF StoreInv, Kept, Shows, Contains
  <2> QED
    BY <2>1, <2>2 DEF AloneIsKept
<1> QED
  BY <1>1, Invariant, StoreInvariant, PTL

==============================================================================
