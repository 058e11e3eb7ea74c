---------------------------- MODULE BackfillRunner ----------------------------
(***************************************************************************)
(* The backfill runner (backfill.go): every accepted payload becomes a job *)
(* that runs on goroutines of its own.                                     *)
(*                                                                         *)
(*   workers --ch--> consumer          worker w sends lines w, w+k, w+2k,  *)
(*      \              |               ... of k workers; the consumer      *)
(*       wg.Done       close(done)     appends them to the store; the      *)
(*          \          |               closer closes ch when the wait      *)
(*         closer    runner            group is empty; the runner settles  *)
(*           |         |               the job once done is closed.        *)
(*       close(ch)   finalize                                              *)
(*                                                                         *)
(* The wait group is modelled as the set of goroutines that were added to  *)
(* it and have not called Done.  The consumer is one of them, which ties a *)
(* knot: the closer waits for the consumer, the consumer for close(ch).    *)
(* NeverSettles states what follows.  To show that nothing else keeps a    *)
(* job from settling, the consumer of a job in Repaired, and only that, is *)
(* left out of the group.  In the code Repaired is empty.                  *)
(*                                                                         *)
(* The consumers of all jobs share one ReadingStore, whose Append takes no *)
(* lock: it loads the well's slice from the map, extends it, cuts it and   *)
(* stores it back.  The lines of all payloads are taken to be of one well, *)
(* where the Appends of two jobs disturb each other the most (wells share  *)
(* nothing but the map).  Readings models the same store behind Ingest,    *)
(* with the arrays in memory; here a slice is the sequence that it shows,  *)
(* and an append that writes in place changes whatever shows that place.   *)
(*                                                                         *)
(* A definition named Bug... is a deliberately wrong variant of one that   *)
(* follows; no specification uses it.                                      *)
(***************************************************************************)
EXTENDS Integers, Sequences, FiniteSets, SequencesExt

CONSTANTS
  Jobs,         \* job ids: the counter r.seq never hands one out twice
  Repaired,     \* the jobs whose consumer is not counted: {} in the code
  MaxLines,     \* the longest payload, in lines,
  Sizes,        \* the numbers of readings in one, and
  MaxReadings,  \* the most readings two have together (bounds for TLC)
  MaxWorkers,   \* 4 in the code
  Buffer,       \* the capacity of ch, 8 in the code
  MaxKeep       \* ReadingStore.maxKeep, 5000 in the code

ASSUME BackfillAssumption ==
  /\ MaxLines \in Nat
  /\ MaxWorkers \in Nat \ {0}
  /\ Buffer \in Nat \ {0}
  /\ MaxKeep \in Nat \ {0}

VARIABLES
  status,       \* BackfillJob.Status, "absent" before Start registers the job
  total,        \* BackfillJob.Total
  inserted,     \* BackfillJob.Inserted
  cancelled,    \* the jobs whose run context has been cancelled
  runner,       \* where run() is
  consumer,     \* where the consumer goroutine is
  hand,         \* the line numbers the consumer has received, not yet appended
  next,         \* next[j][w], the line worker w of job j sends next
  wg,           \* the goroutines the wait group still counts
  ch,           \* the channel's buffer
  closed,       \* the channels that are closed: << j, "ch" >>, "done", "finished"
  appended,     \* per job, the lines whose Append has returned, in order
  byWell,       \* ReadingStore.byWell[well], see Entry
  slice,        \* per job, the local slice of the Append its consumer is in
  \* What the program does not keep and the properties need:
  overlapped,   \* the consumers whose Append has overlapped another one
  latest,       \* what the last MaxKeep stores stored: the line, or none if overlapped
  raced         \* two unsynchronised accesses have met: see Race

progress == << status, total, inserted >>
goroutines == << runner, consumer, hand, next, wg >>
store == << byWell, slice, overlapped, latest >>
vars == << progress, cancelled, goroutines, ch, closed, appended, store, raced >>

------------------------------------------------------------------------------

Workers == 1 .. MaxWorkers
Consumer == 0                       \* the consumer's entry in the wait group

Status == {"absent", "queued", "running", "done", "failed"}
RunnerPC == {"none", "start", "wait_done", "finalize", "close_finished", "exit"}
ConsumerPC == {"none", "receive", "load", "append", "store", "bump", "close_done", "exit"}

Entry == Jobs \X Nat                \* a reading in the store: its job and its line

\* Wrong: a worker for every reading.
BugWorkersUncapped(j) == total[j]

\* workers := 4, or the number of readings if that is less
workers(j) == IF MaxWorkers > total[j] THEN total[j] ELSE MaxWorkers

Init ==
  /\ status = [j \in Jobs |-> "absent"]
  /\ total = [j \in Jobs |-> 0]
  /\ inserted = [j \in Jobs |-> 0]
  /\ cancelled = {}
  /\ runner = [j \in Jobs |-> "none"]
  /\ consumer = [j \in Jobs |-> "none"]
  /\ hand = [j \in Jobs |-> << >>]
  /\ next = [j \in Jobs |-> [w \in Workers |-> w]]
  /\ wg = [j \in Jobs |-> {}]
  /\ ch = [j \in Jobs |-> << >>]
  /\ closed = {}
  /\ appended = [j \in Jobs |-> << >>]
  /\ byWell = << >> /\ slice = [j \in Jobs |-> << >>]
  /\ overlapped = {} /\ latest = << >> /\ raced = FALSE

------------------------------------------------------------------------------
(* The callers.                                                            *)

\* A payload's lines: blank, a valid reading, or text that parseBackfillLine
\* refuses (not three fields, not numbers, no well, out of range).
Payload == UNION {[1 .. n -> {"blank", "valid", "bad"}] : n \in 0 .. MaxLines}

\* parseBackfillPayload: blank lines are skipped, a single bad line or the lack
\* of any other refuses the whole payload.
lines(payload) == {i \in DOMAIN payload : payload[i] # "blank"}
parses(payload) == lines(payload) # {} /\ \A i \in lines(payload) : payload[i] = "valid"

\* Start registers the payload's readings as a job and runs it.  A payload that
\* is refused changes nothing.
Start(j) ==
  /\ status[j] = "absent"
  /\ \E payload \in Payload :
       /\ parses(payload) /\ Cardinality(lines(payload)) \in Sizes
       /\ \A k \in Jobs \ {j} : total[k] + Cardinality(lines(payload)) <= MaxReadings
       /\ total' = [total EXCEPT ![j] = Cardinality(lines(payload))]
  /\ status' = [status EXCEPT ![j] = "queued"]
  /\ runner' = [runner EXCEPT ![j] = "start"]
  /\ UNCHANGED << inserted, cancelled, consumer, hand, next, wg, ch, closed,
                  appended, store, raced >>

Cancel(j) ==
  /\ status[j] # "absent"
  /\ cancelled' = cancelled \cup {j}
  /\ UNCHANGED << progress, goroutines, ch, closed, appended, store, raced >>

------------------------------------------------------------------------------
(* run().                                                                  *)

\* Wrong, and the repair: the consumer is left out.
BugGroup(j) == 1 .. workers(j)

\* The goroutines that run() adds to the wait group.
group(j) == 1 .. workers(j) \cup (IF j \in Repaired THEN {} ELSE {Consumer})

\* setStatus(running), then the goroutines are started.  Every wg.Add comes
\* before the closer is started, so starting them is one step.
Launch(j) ==
  /\ runner[j] = "start"
  /\ status' = [status EXCEPT ![j] = "running"]
  /\ consumer' = [consumer EXCEPT ![j] = "receive"]
  /\ wg' = [wg EXCEPT ![j] = group(j)]
  /\ runner' = [runner EXCEPT ![j] = "wait_done"]
  /\ UNCHANGED << total, inserted, cancelled, hand, next, ch, closed, appended,
                  store, raced >>

\* <-done
AwaitDone(j) ==
  /\ runner[j] = "wait_done" /\ << j, "done" >> \in closed
  /\ runner' = [runner EXCEPT ![j] = "finalize"]
  /\ UNCHANGED << progress, cancelled, consumer, hand, next, wg, ch, closed,
                  appended, store, raced >>

Finalize(j) ==
  /\ runner[j] = "finalize"
  /\ status' = [status EXCEPT ![j] = IF j \in cancelled THEN "failed" ELSE "done"]
  /\ runner' = [runner EXCEPT ![j] = "close_finished"]
  /\ UNCHANGED << total, inserted, cancelled, consumer, hand, next, wg, ch, closed,
                  appended, store, raced >>

CloseFinished(j) ==
  /\ runner[j] = "close_finished"
  /\ closed' = closed \cup {<< j, "finished" >>}
  /\ runner' = [runner EXCEPT ![j] = "exit"]
  /\ UNCHANGED << progress, cancelled, consumer, hand, next, wg, ch, appended, store, raced >>

------------------------------------------------------------------------------
(* The consumer.                                                           *)

\* for reading := range ch: take the next line, or leave the loop once ch is
\* closed and empty.
Receive(j) ==
  /\ consumer[j] = "receive"
  /\ \/ /\ ch[j] # << >>
        /\ hand' = [hand EXCEPT ![j] = << Head(ch[j]) >>]
        /\ ch' = [ch EXCEPT ![j] = Tail(@)]
        /\ consumer' = [consumer EXCEPT ![j] = "load"]
     \/ /\ ch[j] = << >> /\ << j, "ch" >> \in closed
        /\ consumer' = [consumer EXCEPT ![j] = "close_done"]
        /\ UNCHANGED << hand, ch >>
  /\ UNCHANGED << progress, cancelled, runner, next, wg, closed, appended, store, raced >>

\* The reading that consumer j is appending, and the consumers that hold a slice.
reading(j) == << j, Head(hand[j]) >>
inAppend == {k \in Jobs : consumer[k] \in {"append", "store"}}

\* items := s.byWell[r.WellID]
Load(j) ==
  /\ consumer[j] = "load"
  /\ slice' = [slice EXCEPT ![j] = byWell]
  /\ consumer' = [consumer EXCEPT ![j] = "append"]
  /\ overlapped' = IF inAppend = {} THEN overlapped ELSE overlapped \cup inAppend \cup {j}
  /\ UNCHANGED << progress, cancelled, runner, hand, next, wg, ch, closed, appended,
                  byWell, latest, raced >>

\* What the slice t shows when x is written behind s, in an array of the given
\* capacity: t has grown in that array from s if it begins with s and fits.
written(t, s, x, capacity) ==
  IF Len(t) \in Len(s) + 1 .. capacity /\ IsPrefix(s, t)
  THEN [t EXCEPT ![Len(s) + 1] = x] ELSE t

\* The last n elements of s, or all of them.
lastOf(s, n) == IF Len(s) > n THEN SubSeq(s, Len(s) - n + 1, Len(s)) ELSE s

\* Wrong: the oldest readings are kept.
BugKeepOldest(items) == IF Len(items) > MaxKeep THEN SubSeq(items, 1, MaxKeep) ELSE items

\* items[len(items)-s.maxKeep:]
keep(items) == lastOf(items, MaxKeep)

\* items = append(items, r), then the cut to maxKeep, which copies.  The capacity
\* of the array is arbitrary: append writes in place if there is room.
AppendLocal(j) ==
  /\ consumer[j] = "append"
  /\ LET s == slice[j]
     IN \E capacity \in Len(s) .. (IF s = << >> THEN 0 ELSE MaxKeep) :
          /\ byWell' = written(byWell, s, reading(j), capacity)
          /\ slice' = [k \in Jobs |->
               IF k = j THEN keep(Append(s, reading(j)))
                        ELSE written(slice[k], s, reading(j), capacity)]
  /\ consumer' = [consumer EXCEPT ![j] = "store"]
  /\ UNCHANGED << progress, cancelled, runner, hand, next, wg, ch, closed, appended,
                  overlapped, latest, raced >>

\* Wrong: the reading is not counted.
BugAfterAppend == "receive"

afterAppend == "bump"

\* s.byWell[r.WellID] = items, and Append returns.
Store(j) ==
  /\ consumer[j] = "store"
  /\ byWell' = slice[j]
  /\ slice' = [slice EXCEPT ![j] = << >>]
  /\ overlapped' = overlapped \ {j}
  /\ latest' = lastOf(Append(latest, {reading(k) : k \in {j} \ overlapped}), MaxKeep)
  /\ appended' = [appended EXCEPT ![j] = @ \o hand[j]]
  /\ hand' = [hand EXCEPT ![j] = << >>]
  /\ consumer' = [consumer EXCEPT ![j] = afterAppend]
  /\ UNCHANGED << progress, cancelled, runner, next, wg, ch, closed, raced >>

BumpInserted(j) ==
  /\ consumer[j] = "bump"
  /\ inserted' = [inserted EXCEPT ![j] = @ + 1]
  /\ consumer' = [consumer EXCEPT ![j] = "receive"]
  /\ UNCHANGED << status, total, cancelled, runner, hand, next, wg, ch, closed,
                  appended, store, raced >>

\* Wrong: done is not closed.
BugDoneLeftOpen(j) ==
  /\ consumer[j] = "close_done"
  /\ wg' = [wg EXCEPT ![j] = @ \ {Consumer}]
  /\ consumer' = [consumer EXCEPT ![j] = "exit"]
  /\ UNCHANGED << progress, cancelled, runner, hand, next, ch, closed, appended, store, raced >>

\* close(done), and the deferred wg.Done.
CloseDone(j) ==
  /\ consumer[j] = "close_done"
  /\ closed' = closed \cup {<< j, "done" >>}
  /\ wg' = [wg EXCEPT ![j] = @ \ {Consumer}]
  /\ consumer' = [consumer EXCEPT ![j] = "exit"]
  /\ UNCHANGED << progress, cancelled, runner, hand, next, ch, appended, store, raced >>

------------------------------------------------------------------------------
(* Worker w of job j, alive while the wait group counts it, and the closer. *)

\* Wrong: the workers do not share the lines out.
BugStride(j) == 1

\* i += workers
stride(j) == workers(j)

\* Wrong: the last line is not sent.
BugOver(j, w) == next[j][w] >= total[j]

\* Worker w has sent its lines: not i < len(readings).
over(j, w) == next[j][w] > total[j]

\* case ch <- readings[i]
Send(j, w) ==
  /\ w \in wg[j] /\ ~ over(j, w)
  /\ Len(ch[j]) < Buffer /\ << j, "ch" >> \notin closed
  /\ ch' = [ch EXCEPT ![j] = Append(@, next[j][w])]
  /\ next' = [next EXCEPT ![j][w] = @ + stride(j)]
  /\ UNCHANGED << progress, cancelled, runner, consumer, hand, wg, closed,
                  appended, store, raced >>

\* The loop is over, or case <-ctx.Done(): the lines left are not sent.
Leave(j, w) ==
  /\ w \in wg[j]
  /\ over(j, w) \/ j \in cancelled
  /\ wg' = [wg EXCEPT ![j] = @ \ {w}]
  /\ UNCHANGED << progress, cancelled, runner, consumer, hand, next, ch, closed,
                  appended, store, raced >>

\* Wrong: ch is closed without waiting for the group.
BugIdle(j) == TRUE

idle(j) == wg[j] = {}

\* wg.Wait(); close(ch)
CloseCh(j) ==
  /\ consumer[j] # "none" /\ << j, "ch" >> \notin closed
  /\ idle(j)
  /\ closed' = closed \cup {<< j, "ch" >>}
  /\ UNCHANGED << progress, cancelled, goroutines, ch, appended, store, raced >>

------------------------------------------------------------------------------

\* Two consumers are in the map, one of them to write; or one writes an element of
\* the array that the other writes or copies.
conflict(j, k) ==
  \/ consumer[j] = "store" /\ consumer[k] \in {"load", "store"}
  \/ /\ consumer[j] = "append" /\ consumer[k] = "append"
     /\ slice[j] # << >> /\ IsPrefix(slice[j], slice[k])

\* Two accesses that meet: the runtime stops the process, or a torn value is left in
\* memory.  Nothing is said of what comes after.  Accesses that follow one another,
\* in any order, are the actions above.
Race ==
  /\ \E j, k \in Jobs : j # k /\ conflict(j, k)
  /\ raced' = TRUE
  /\ UNCHANGED << progress, cancelled, goroutines, ch, closed, appended, store >>

Run(j) == Launch(j) \/ AwaitDone(j) \/ Finalize(j) \/ CloseFinished(j)
Consume(j) ==
  \/ Receive(j) \/ Load(j) \/ AppendLocal(j) \/ Store(j) \/ BumpInserted(j) \/ CloseDone(j)
Work(j, w) == Send(j, w) \/ Leave(j, w)

Next ==
  /\ ~ raced
  /\ \/ Race
     \/ \E j \in Jobs :
          \/ Start(j) \/ Cancel(j)
          \/ Run(j) \/ Consume(j) \/ CloseCh(j)
          \/ \E w \in Workers : Work(j, w)

Spec == Init /\ [][Next]_vars

\* A goroutine that can go on is scheduled; no lock is held across a step.
Fairness ==
  \A j \in Jobs :
    /\ WF_vars(~ raced /\ Run(j))
    /\ WF_vars(~ raced /\ Consume(j))
    /\ WF_vars(~ raced /\ CloseCh(j))
    /\ \A w \in Workers : WF_vars(~ raced /\ Work(j, w))

FairSpec == Spec /\ Fairness

------------------------------------------------------------------------------
(* Properties.                                                             *)

TypeOK ==
  /\ status \in [Jobs -> Status]
  /\ total \in [Jobs -> Nat]
  /\ inserted \in [Jobs -> Nat]
  /\ cancelled \subseteq Jobs
  /\ runner \in [Jobs -> RunnerPC]
  /\ consumer \in [Jobs -> ConsumerPC]
  /\ hand \in [Jobs -> Seq(Nat)]
  /\ next \in [Jobs -> [Workers -> Nat]]
  /\ wg \in [Jobs -> SUBSET (0 .. MaxWorkers)]
  /\ ch \in [Jobs -> Seq(Nat)]
  /\ closed \subseteq Jobs \X {"ch", "done", "finished"}
  /\ appended \in [Jobs -> Seq(Nat)]
  /\ byWell \in Seq(Entry) /\ Len(byWell) <= MaxKeep
  /\ slice \in [Jobs -> Seq(Entry)] /\ \A j \in Jobs : Len(slice[j]) <= MaxKeep
  /\ overlapped \subseteq Jobs /\ latest \in Seq(SUBSET Entry) /\ Len(latest) <= MaxKeep
  /\ raced \in BOOLEAN

\* The lines that workers have sent, in the order the consumer sees them.
pipeline(j) == appended[j] \o hand[j] \o ch[j]

\* Where the lines of worker w of job j are in its pipeline: a line belongs to the
\* worker it is a multiple of the stride away from.
linesOf(j, w) == {i \in DOMAIN pipeline(j) :
                    pipeline(j)[i] % workers(j) = w % workers(j)}

\* What the workers send reaches Append once, complete, and in each worker's order:
\* the lines in the pipeline that fall to worker w are exactly those before the
\* one it sends next, w, w+k, w+2k and so on, whatever is cancelled and however
\* full the channel is.  (What the store makes of them is AloneIsKept.)
EachLineOnce ==
  \A j \in Jobs : consumer[j] # "none" =>
    /\ \A i \in DOMAIN pipeline(j) : pipeline(j)[i] \in 1 .. total[j]
    /\ \A w \in 1 .. workers(j) :
         /\ \A i, m \in linesOf(j, w) : i < m => pipeline(j)[i] < pipeline(j)[m]
         /\ {pipeline(j)[i] : i \in linesOf(j, w)}
              = {l \in w .. next[j][w] - 1 : l % workers(j) = w % workers(j)}

\* However the Appends of several jobs overlap, the store shows no line twice, and
\* a line is lost only to an Append that overlapped its own, or to maxKeep: one
\* that was stored alone stays until MaxKeep later stores push it out.
AloneIsKept ==
  /\ \A i, m \in DOMAIN byWell : byWell[i] = byWell[m] => i = m
  /\ \A i \in DOMAIN latest : \A x \in latest[i] : Contains(byWell, x)

\* No worker can send on a closed channel, which would panic.
NoSendAfterClose ==
  \A j \in Jobs : << j, "ch" >> \in closed => wg[j] \cap Workers = {}

\* No job ever settles.  The consumer stays in the group the closer waits for,
\* so ch is never closed, the consumer never leaves its loop, finalize is never
\* reached: the status never becomes "done" or "failed", cancelled or not, and
\* WaitIdle, which waits for job.finished or its caller's context, has only the
\* context to end it.
NeverSettles ==
  \A j \in Jobs \ Repaired :
    /\ status[j] \notin {"done", "failed"}
    /\ << j, "finished" >> \notin closed
    /\ runner[j] \in {"none", "start", "wait_done"}

\* The workers have left, and the consumer waits for a line.
AtRest(j) == wg[j] \subseteq {Consumer} /\ ch[j] = << >> /\ consumer[j] = "receive"

\* A job that has come to rest without being cancelled is complete: each of its
\* readings went through an Append that has returned, and was counted, so the
\* Inserted that a client reads is Total.
CompleteAtRest ==
  \A j \in Jobs \ cancelled :
    AtRest(j) => Len(appended[j]) = total[j] /\ inserted[j] = total[j]

\* The wait group is all that keeps jobs from settling: a repaired one settles,
\* and WaitIdle's channel is closed, cancelled or not, unless Appends race.
RepairedSettle ==
  \A j \in Repaired :
    status[j] # "absent" ~>
      \/ status[j] \in {"done", "failed"} /\ << j, "finished" >> \in closed
      \/ raced

\* A job nobody cancels gets each of its readings through an Append, and its
\* Inserted up to Total, unless Appends race.
AllInserted ==
  \A j \in Jobs :
    status[j] # "absent" ~>
      \/ inserted[j] = total[j] /\ Len(appended[j]) = total[j]
      \/ j \in cancelled \/ raced

\* A cancelled job comes to rest: its workers leave, what they had sent goes to
\* Append, and its consumer, closer and runner are left waiting for good.
CancelledComesToRest ==
  \A j \in Jobs \ Repaired : j \in cancelled ~> raced \/ []AtRest(j)

==============================================================================
