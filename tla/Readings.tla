------------------------------- MODULE Readings -------------------------------
(***************************************************************************)
(* The readings of one well: reading_store.go and reading_service.go under *)
(* concurrent requests.                                                    *)
(*                                                                         *)
(* ReadingStore.Append takes no lock: it loads the well's slice from the   *)
(* map, appends, and stores the slice back.  Two Appends that overlap may  *)
(* lose a reading, and because append writes in place when the backing     *)
(* array has room, one may overwrite the other's reading.  The slice is    *)
(* therefore modelled as Go has it: a header (array and length) and a      *)
(* memory of arrays.  How much room a growing append leaves is arbitrary.  *)
(*                                                                         *)
(* ReadingService keeps the last answers in two caches.  Ingest refreshes  *)
(* them under the service's mutex; a read that misses looks at the store   *)
(* and fills the cache in two steps, with no lock in between.  Ingest      *)
(* writes the well's id in lower case; Recent and Stats look it up, and    *)
(* cache the answer, under the spelling they are given.                    *)
(*                                                                         *)
(* A definition named Bug... is a deliberately wrong variant of one that   *)
(* follows; no specification uses it.                                      *)
(***************************************************************************)
EXTENDS Integers, Sequences, FiniteSets, SequencesExt

CONSTANTS
  Ingests,      \* the Ingest requests, each for one valid reading
  Reads,        \* the Recent and Stats requests
  WellID,       \* the well's id as normalizeReading spells it
  Spellings,    \* how a Recent or Stats may spell it
  Counts,       \* the values of n a Recent may ask for
  Cuts,         \* the `since' of a Stats: readings numbered above it count
  CacheN,       \* the 10 readings that Ingest caches
  MaxKeep,      \* ReadingStore.maxKeep
  MaxSpare      \* the most room a growing append leaves in the array

ASSUME ReadingsAssumption ==
  /\ Ingests \cap Reads = {} /\ WellID \in Spellings
  /\ Counts \subseteq Nat \ {0}
  /\ Cuts \subseteq Nat
  /\ {CacheN, MaxKeep} \subseteq Nat \ {0}
  /\ MaxSpare \in Nat

VARIABLES
  mem,          \* the backing arrays, each a sequence of cap() readings
  byWell,       \* ReadingStore.byWell[well]: a slice header
  seq,          \* ReadingService.seq
  recentCache,  \* for each spelling its entry, or absent
  statsCache,   \* the same
  pc,           \* what a request does next
  id,           \* the number of an Ingest's reading
  slice,        \* an Append's local slice header
  query,        \* a read's kind, well and parameter
  answer,       \* a read's local items, then its reply
  \* What the program does not keep and the properties need:
  stored,       \* the readings in the order their Appends stored
  overlapped,   \* the Ingests whose Append overlapped another one
  before,       \* before[q], the readings whose Ingest returned before q began
  raced         \* two unsynchronised accesses have met: see Race

service == << seq, recentCache, statsCache >>
ghosts == << stored, overlapped, before >>
vars == << mem, byWell, service, pc, id, slice, query, answer, ghosts, raced >>

------------------------------------------------------------------------------

Empty == 0                          \* an array element never written
nilSlice == [arr |-> 0, len |-> 0]

\* The readings a header shows.
elements(h) == IF h.len = 0 THEN << >> ELSE SubSeq(mem[h.arr], 1, h.len)
capacity(h) == IF h.arr = 0 THEN 0 ELSE Len(mem[h.arr])

\* The last n elements of s, or all of them.
lastOf(s, n) == IF Len(s) > n THEN SubSeq(s, Len(s) - n + 1, Len(s)) ELSE s

\* A cache entry, and who filled it.
entry(items, by) == [present |-> TRUE, items |-> items, by |-> by]
absent == [present |-> FALSE, items |-> << >>, by |-> "nobody"]

Init ==
  /\ mem = << >> /\ byWell = nilSlice
  /\ seq = 0
  /\ recentCache = [well \in Spellings |-> absent]
  /\ statsCache = [well \in Spellings |-> absent]
  /\ pc = [r \in Ingests \cup Reads |-> "idle"]
  /\ id = [p \in Ingests |-> 0]
  /\ slice = [p \in Ingests |-> nilSlice]
  /\ query = [q \in Reads |-> [kind |-> "recent", well |-> WellID, arg |-> 0]]
  /\ answer = [q \in Reads |-> << >>]
  /\ stored = << >> /\ overlapped = {} /\ before = [q \in Reads |-> {}]
  /\ raced = FALSE

goto(r, label) == pc' = [pc EXCEPT ![r] = label]

------------------------------------------------------------------------------
(* Ingest.                                                                 *)

\* Wrong: the number follows those of the stored readings.
BugNumber == Len(stored) + 1

\* atomic.AddUint64(&s.seq, 1)
number == seq + 1

\* A reading in its limits gets its number; one that is not, or whose client has gone
\* away, is refused.
Ingest(p) ==
  /\ pc[p] = "idle"
  /\ \/ /\ seq' = seq + 1
        /\ id' = [id EXCEPT ![p] = number]
        /\ goto(p, "load")
     \/ goto(p, "refused") /\ UNCHANGED << seq, id >>
  /\ UNCHANGED << mem, byWell, recentCache, statsCache, slice, query, answer, ghosts, raced >>

\* items := s.byWell[r.WellID]
Load(p) ==
  /\ pc[p] = "load"
  /\ slice' = [slice EXCEPT ![p] = byWell]
  /\ goto(p, "append")
  /\ LET others == {o \in Ingests : pc[o] \in {"append", "store"}}
     IN overlapped' = IF others = {} THEN overlapped ELSE overlapped \cup others \cup {p}
  /\ UNCHANGED << mem, byWell, service, id, query, answer, stored, before, raced >>

\* A new array that starts with the given readings.
allocate(p, readings) ==
  \E spare \in 0 .. MaxSpare :
    /\ mem' = Append(mem, readings \o [i \in 1 .. spare |-> Empty])
    /\ slice' = [slice EXCEPT ![p] = [arr |-> Len(mem) + 1, len |-> Len(readings)]]

\* Wrong: the oldest readings are kept.
BugKeepOldest(s, n) == IF Len(s) > n THEN SubSeq(s, 1, n) ELSE s

\* Wrong: one reading more than the limit is kept.
BugKeepOneMore(s, n) == lastOf(s, n + 1)

\* items[len(items)-s.maxKeep:]
keep(s, n) == lastOf(s, n)

\* items = append(items, r), then cut to maxKeep, which always copies (what append
\* may have written behind the maxKeep readings is behind every header's length).
AppendLocal(p) ==
  /\ pc[p] = "append"
  /\ LET h    == slice[p]
         grow == Append(elements(h), id[p])
     IN \/ /\ h.len + 1 > MaxKeep
           /\ allocate(p, keep(grow, MaxKeep))
        \/ /\ h.len + 1 <= MaxKeep /\ h.len = capacity(h)
           /\ allocate(p, grow)
        \/ /\ h.len + 1 <= MaxKeep /\ h.len < capacity(h)
           /\ mem' = [mem EXCEPT ![h.arr][h.len + 1] = id[p]]
           /\ slice' = [slice EXCEPT ![p] = [arr |-> h.arr, len |-> h.len + 1]]
  /\ goto(p, "store")
  /\ UNCHANGED << byWell, service, id, query, answer, ghosts, raced >>

\* s.byWell[r.WellID] = items
Store(p) ==
  /\ pc[p] = "store"
  /\ byWell' = slice[p]
  /\ stored' = Append(stored, id[p])
  /\ goto(p, "refresh")
  /\ UNCHANGED << mem, service, id, slice, query, answer, overlapped, before, raced >>

\* Wrong: the slice the Append made, not what the store holds now.
BugLatest(p) == elements(slice[p])

\* s.store.Recent(normalized.WellID, 10)
latest(p) == elements(byWell)

\* Under s.mu: cache the store's last readings, drop the statistics.
Refresh(p) ==
  /\ pc[p] = "refresh"
  /\ recentCache' = [recentCache EXCEPT ![WellID] = entry(lastOf(latest(p), CacheN), "ingest")]
  /\ statsCache' = [statsCache EXCEPT ![WellID] = absent]
  /\ goto(p, "done")
  /\ UNCHANGED << mem, byWell, seq, id, slice, query, answer, ghosts, raced >>

------------------------------------------------------------------------------
(* Recent and Stats.                                                       *)

cacheFor(q) == (IF q.kind = "recent" THEN recentCache ELSE statsCache)[q.well]

\* The answer a cached entry gives: Recent cuts it to n, Stats gives it as it is,
\* whatever `since' it was computed for.
fromCache(q) ==
  IF q.kind = "recent" THEN lastOf(cacheFor(q).items, q.arg) ELSE cacheFor(q).items

Query == [kind : {"recent"}, well : Spellings, arg : Counts]
         \cup [kind : {"stats"}, well : Spellings, arg : Cuts]

\* The cache is looked up under the read lock.
Look(q) ==
  /\ pc[q] = "idle"
  /\ \E asked \in Query :
       /\ query' = [query EXCEPT ![q] = asked]
       /\ \/ /\ cacheFor(asked).present
             /\ answer' = [answer EXCEPT ![q] = fromCache(asked)]
             /\ goto(q, "done")
          \/ /\ ~ cacheFor(asked).present
             /\ goto(q, "read")
             /\ UNCHANGED answer
  /\ before' = [before EXCEPT ![q] = {id[p] : p \in {o \in Ingests : pc[o] = "done"}}]
  /\ UNCHANGED << mem, byWell, service, id, slice, stored, overlapped, raced >>

\* ReadingStore.Recent(well, n), or Range from `since' (the statistics, which do
\* not depend on an order, are represented by the readings they are computed from).
ReadStore(q) ==
  /\ pc[q] = "read"
  /\ LET items == IF query[q].well = WellID THEN elements(byWell) ELSE << >>
     IN answer' = [answer EXCEPT ![q] =
          IF query[q].kind = "recent" THEN lastOf(items, query[q].arg)
                                      ELSE {r \in ToSet(items) : r > query[q].arg}]
  /\ goto(q, "fill")
  /\ UNCHANGED << mem, byWell, service, id, slice, query, ghosts, raced >>

\* The cache is filled with what was read, whatever happened since.
Fill(q) ==
  /\ pc[q] = "fill"
  /\ \/ /\ query[q].kind = "recent"
        /\ recentCache' = [recentCache EXCEPT ![query[q].well] = entry(answer[q], "recent")]
        /\ UNCHANGED statsCache
     \/ /\ query[q].kind = "stats"
        /\ statsCache' = [statsCache EXCEPT ![query[q].well] = entry(answer[q], "stats")]
        /\ UNCHANGED recentCache
  /\ goto(q, "done")
  /\ UNCHANGED << mem, byWell, seq, id, slice, query, answer, ghosts, raced >>

------------------------------------------------------------------------------

\* r is about to access the map byWell, or the array, without the lock the other
\* holds: a map write against a map read or write, or two writes to an array.
conflict(r, s) ==
  \/ pc[r] = "store" /\ pc[s] \in {"load", "store", "refresh", "read"}
  \/ pc[r] = "append" /\ pc[s] = "append" /\ slice[r] = slice[s]

\* Two accesses that meet: the runtime stops the process, or a torn value is
\* left in memory.  Nothing is said of what comes after.  Accesses that follow
\* one another, in any order, are the other actions.
Race ==
  /\ \E r, s \in Ingests \cup Reads : r # s /\ conflict(r, s)
  /\ raced' = TRUE
  /\ UNCHANGED << mem, byWell, service, pc, id, slice, query, answer, ghosts >>

Next ==
  /\ ~ raced
  /\ \/ Race
     \/ \E p \in Ingests : Ingest(p) \/ Load(p) \/ AppendLocal(p) \/ Store(p) \/ Refresh(p)
     \/ \E q \in Reads : Look(q) \/ ReadStore(q) \/ Fill(q)

Spec == Init /\ [][Next]_vars

------------------------------------------------------------------------------
(* Properties.                                                             *)

Slice(h) == h.arr \in 0 .. Len(mem) /\ h.len \in 0 .. capacity(h) /\ h.len <= MaxKeep

TypeOK ==
  /\ \A a \in DOMAIN mem : \A i \in DOMAIN mem[a] : mem[a][i] \in 0 .. seq
  /\ Slice(byWell) /\ \A p \in Ingests : Slice(slice[p])
  /\ seq \in Nat
  /\ pc \in [Ingests \cup Reads -> {"idle", "load", "append", "store", "refresh",
                                    "read", "fill", "done", "refused"}]
  /\ id \in [Ingests -> 0 .. seq]
  /\ \A well \in Spellings :
       /\ Len(recentCache[well].items) <= MaxKeep
       /\ statsCache[well].present => statsCache[well].items \subseteq 0 .. seq
  /\ raced \in BOOLEAN

\* However Appends overlap, the store never shows a slot nobody has written, and
\* shows no reading twice: a header is published only after its last slot.
StoredOnce ==
  /\ \A i \in 1 .. byWell.len : elements(byWell)[i] # Empty
  /\ \A i, j \in 1 .. byWell.len : elements(byWell)[i] = elements(byWell)[j] => i = j

\* A reading is lost only to an Append that overlapped its own, or to maxKeep:
\* one that was stored alone stays until MaxKeep later stores push it out, even
\* if the later ones overlap each other.
AloneIsKept ==
  \A p \in Ingests \ overlapped, i \in DOMAIN stored :
    stored[i] = id[p] /\ Len(stored) - i < MaxKeep => Contains(elements(byWell), id[p])

\* Whatever the order in which concurrent Ingests append and refresh, once they
\* have returned the entry an Ingest left in the cache is the store's own list:
\* only a read that missed can leave an older one.
IngestCacheIsFresh ==
  (\A p \in Ingests : pc[p] \in {"idle", "refused", "done"})
    /\ recentCache[WellID].by = "ingest"
    => recentCache[WellID].items = lastOf(elements(byWell), CacheN)

\* A Recent that asks for as many as Ingest caches returns every reading whose
\* Ingest returned before it began (what the readings test asserts).
RecentShowsIngested ==
  \A q \in Reads :
    pc[q] = "done" /\ query[q].kind = "recent" /\ query[q].arg = CacheN
      /\ query[q].well = WellID
      /\ Cardinality(before[q]) <= CacheN
      => before[q] \subseteq ToSet(answer[q])

\* A Stats counts every reading of its window whose Ingest returned before any
\* read began (what the readings test asserts of the last hour).
StatsCoverWindow ==
  \A q \in Reads, r \in 1 .. seq :
    /\ pc[q] = "done" /\ query[q].kind = "stats" /\ r > query[q].arg
    /\ query[q].well = WellID
    /\ \A o \in Reads : pc[o] # "idle" => r \in before[o]
    => r \in answer[q]

==============================================================================
