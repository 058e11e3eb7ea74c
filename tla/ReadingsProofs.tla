---------------------------- MODULE ReadingsProofs ----------------------------
(***************************************************************************)
(* Theorems of Readings!Spec, for any requests, spellings and limits.      *)
(*                                                                         *)
(* An append in place may change an array that other headers show, but     *)
(* only by the number of its own reading, which is nowhere in the memory   *)
(* before (Unwritten).  So no header ever shows a number twice (Distinct)  *)
(* or an empty slot (Filled); and a reading that was stored alone is in    *)
(* every header that can still be stored, no further from its end than     *)
(* there were stores since (KeptIn), where no later append can reach it.   *)
(***************************************************************************)
EXTENDS Readings, SequenceTheorems, TLAPS

Header == [arr : Nat, len : Nat]

Entry == [present : BOOLEAN, items : Seq(Nat), by : {"nobody", "ingest", "recent"}]

\* What a read is about to put into its cache.
Answered(q) ==
  pc[q] = "fill" =>
    IF query[q].kind = "recent" THEN answer[q] \in Seq(Nat) /\ Len(answer[q]) <= MaxKeep
                                ELSE answer[q] \subseteq 0 .. seq

TypeInv ==
  /\ TypeOK
  /\ mem \in Seq(Seq(Nat)) /\ byWell \in Header /\ slice \in [Ingests -> Header]
  /\ stored \in Seq(Nat)
  /\ recentCache \in [Spellings -> Entry]
  /\ statsCache = [well \in Spellings |-> statsCache[well]]
  /\ query \in [Reads -> [kind : {"recent", "stats"}, well : Spellings, arg : Nat]]
  /\ answer = [q \in Reads |-> answer[q]]
  /\ \A q \in Reads : Answered(q)

\* The numbers of the Ingests.
numbered(p) == pc[p] \notin {"idle", "refused"}

Numbered(p) == IF numbered(p) THEN id[p] # Empty ELSE id[p] = Empty

OneNumberEach ==
  \A p, q \in Ingests : numbered(p) /\ numbered(q) /\ id[p] = id[q] => p = q

\* The memory.
Filled(h) == \A i \in 1 .. h.len : mem[h.arr][i] # Empty

Distinct ==
  \A a \in DOMAIN mem : \A i, j \in DOMAIN mem[a] :
    mem[a][i] # Empty /\ mem[a][i] = mem[a][j] => i = j

Unwritten(p) ==
  pc[p] \in {"load", "append"} => \A a \in DOMAIN mem : \A i \in DOMAIN mem[a] : mem[a][i] # id[p]

MemoryInv ==
  /\ OneNumberEach /\ Distinct /\ Filled(byWell)
  /\ \A p \in Ingests : Numbered(p) /\ Unwritten(p) /\ Filled(slice[p])

\* The entry that an Ingest left is the store's list while no Ingest is about to
\* store or refresh.
CacheInv ==
  recentCache[WellID].by = "ingest" /\ (\A p \in Ingests : pc[p] \notin {"store", "refresh"}) =>
    recentCache[WellID].items = lastOf(elements(byWell), CacheN)

\* A reading that overlaps no other.
Alone(p) ==
  p \notin overlapped =>
    /\ pc[p] \in {"append", "store"} => \A o \in Ingests \ {p} : pc[o] \notin {"append", "store"}
    /\ pc[p] = "store" => slice[p].len >= 1 /\ mem[slice[p].arr][slice[p].len] = id[p]

\* The reading n is among the last k + 1 that h shows, if h need not have dropped it.
KeptIn(h, n, k) == k < MaxKeep => \E j \in 1 .. h.len : mem[h.arr][j] = n /\ h.len - j <= k

Kept(p, i) ==
  /\ KeptIn(byWell, id[p], Len(stored) - i)
  /\ \A q \in Ingests :
       /\ pc[q] = "append" => KeptIn(slice[q], id[p], Len(stored) - i)
       /\ pc[q] = "store" => KeptIn(slice[q], id[p], Len(stored) - i + 1)

KeptInv ==
  /\ \A i \in DOMAIN stored :
       \E p \in Ingests : pc[p] \in {"refresh", "done"} /\ stored[i] = id[p]
  /\ \A p \in Ingests : Alone(p)
  /\ \A p \in Ingests \ overlapped, i \in DOMAIN stored : stored[i] = id[p] => Kept(p, i)

IInv == TypeInv /\ MemoryInv /\ CacheInv /\ KeptInv

------------------------------------------------------------------------------
(* Slices.                                                                 *)

LEMMA Elements ==
  ASSUME NEW h \in Header, mem \in Seq(Seq(Nat)), Slice(h)
  PROVE  /\ elements(h) \in Seq(Nat) /\ Len(elements(h)) = h.len
         /\ \A i \in 1 .. h.len : elements(h)[i] = mem[h.arr][i]
<1>1. CASE h.len = 0
  BY <1>1 DEF elements
<1>2. CASE h.len # 0
  <2>1. h.arr \in DOMAIN mem /\ mem[h.arr] \in Seq(Nat) /\ h.len \in 0 .. Len(mem[h.arr])
    BY <1>2 DEF Slice, capacity, Header
  <2>2. elements(h) = SubSeq(mem[h.arr], 1, h.len)
    BY <1>2 DEF elements
  <2>3. PICK s \in Seq(Nat) : s = mem[h.arr]
    BY <2>1
  <2>4. h.len \in 0 .. Len(s)
    BY <2>1, <2>3
  <2>5. /\ SubSeq(s, 1, h.len) \in Seq(Nat) /\ Len(SubSeq(s, 1, h.len)) = h.len
        /\ \A i \in 1 .. h.len : SubSeq(s, 1, h.len)[i] = s[i]
    BY <2>4
  <2> QED
    BY <2>2, <2>3, <2>5
<1> QED
  BY <1>1, <1>2

LEMMA LastOf ==
  ASSUME NEW s \in Seq(Nat), NEW n \in Nat \ {0}
  PROVE  /\ lastOf(s, n) \in Seq(Nat)
         /\ Len(lastOf(s, n)) = IF Len(s) > n THEN n ELSE Len(s)
         /\ \A i \in 1 .. Len(lastOf(s, n)) :
              lastOf(s, n)[i] = s[i + (IF Len(s) > n THEN Len(s) - n ELSE 0)]
BY DEF lastOf

LEMMA LastOfIsShort ==
  ASSUME NEW s \in Seq(Nat), NEW n \in Nat
  PROVE  lastOf(s, n) \in Seq(Nat) /\ Len(lastOf(s, n)) <= Len(s)
<1>1. CASE Len(s) > n
  BY <1>1 DEF lastOf
<1>2. CASE ~ (Len(s) > n)
  BY <1>2 DEF lastOf
<1> QED
  BY <1>1, <1>2

\* A header shows numbers that were drawn.
LEMMA Shown ==
  ASSUME TypeInv, NEW h \in Header, Slice(h)
  PROVE  \A i \in 1 .. h.len : elements(h)[i] \in 0 .. seq
<1> SUFFICES ASSUME NEW i \in 1 .. h.len PROVE elements(h)[i] \in 0 .. seq
  OBVIOUS
<1>1. h.arr \in DOMAIN mem /\ i \in DOMAIN mem[h.arr]
  BY DEF TypeInv, Slice, capacity, Header
<1>2. elements(h)[i] = mem[h.arr][i]
  BY Elements DEF TypeInv
<1> QED
  BY <1>1, <1>2 DEF TypeInv, TypeOK

------------------------------------------------------------------------------
(* The steps of the reads.                                                 *)

LEMMA InitIInv == Init => IInv
<1> SUFFICES ASSUME Init PROVE IInv
  OBVIOUS
<1> USE ReadingsAssumption DEF Init
<1>1. Slice(nilSlice) /\ nilSlice \in Header /\ absent \in Entry
  BY DEF Slice, capacity, nilSlice, Header, absent, Entry
<1>2. TypeOK
  <2>1. Len(absent.items) <= MaxKeep /\ ~ absent.present
    BY DEF absent
  <2>2. /\ \A a \in DOMAIN mem : \A i \in DOMAIN mem[a] : mem[a][i] \in 0 .. seq
        /\ Slice(byWell) /\ \A p \in Ingests : Slice(slice[p])
    BY <1>1
  <2>3. /\ pc \in [Ingests \cup Reads -> {"idle", "load", "append", "store", "refresh",
                                        "read", "fill", "done", "refused"}]
        /\ id \in [Ingests -> 0 .. seq] /\ seq \in Nat
    OBVIOUS
  <2>4. raced \in BOOLEAN
    OBVIOUS
  <2>5. \A well \in Spellings :
          /\ Len(recentCache[well].items) <= MaxKeep
          /\ statsCache[well].present => statsCache[well].items \subseteq 0 .. seq
    BY <2>1
  <2> QED
    BY <2>2, <2>3, <2>4, <2>5 DEF TypeOK
<1>3. TypeInv
  BY <1>1, <1>2 DEF TypeInv, Answered
<1>4. MemoryInv
  BY DEF MemoryInv, OneNumberEach, Distinct, Filled, numbered, Numbered, Unwritten, nilSlice, Empty
<1>5. CacheInv
  BY DEF CacheInv, absent
<1>6. KeptInv
  BY DEF KeptInv, Alone
<1> QED
  BY <1>3, <1>4, <1>5, <1>6 DEF IInv

\* Nothing is said of the reads by what holds of the memory.
LEMMA MemoryStays ==
  ASSUME IInv, UNCHANGED << mem, byWell, seq, id, slice, stored, overlapped >>,
         \A p \in Ingests : pc'[p] = pc[p]
  PROVE  MemoryInv' /\ KeptInv' /\ elements(byWell)' = elements(byWell)
<1>1. MemoryInv'
  BY DEF IInv, MemoryInv, OneNumberEach, Distinct, Filled, numbered, Numbered, Unwritten
<1>2. KeptInv'
  BY DEF IInv, KeptInv, Alone, Kept, KeptIn
<1>3. elements(byWell)' = elements(byWell)
  BY DEF elements
<1> QED
  BY <1>1, <1>2, <1>3

LEMMA TypeStays ==
  ASSUME TypeInv, UNCHANGED << mem, byWell, seq, id, slice, stored, raced >>
  PROVE  /\ \A a \in DOMAIN mem' : \A i \in DOMAIN mem'[a] : mem'[a][i] \in 0 .. seq'
         /\ Slice(byWell)' /\ \A p \in Ingests : Slice(slice[p])'
         /\ seq' \in Nat /\ id' \in [Ingests -> 0 .. seq'] /\ raced' \in BOOLEAN
         /\ mem' \in Seq(Seq(Nat)) /\ byWell' \in Header /\ slice' \in [Ingests -> Header]
         /\ stored' \in Seq(Nat)
BY DEF TypeInv, TypeOK, Slice, capacity

LEMMA LookStep ==
  ASSUME IInv, NEW q \in Reads, Look(q)
  PROVE  IInv'
<1> USE DEF IInv
<1>1. PICK asked \in Query :
        /\ query' = [query EXCEPT ![q] = asked]
        /\ \/ answer' = [answer EXCEPT ![q] = fromCache(asked)] /\ goto(q, "done")
           \/ goto(q, "read") /\ UNCHANGED answer
  BY DEF Look
<1>2. /\ UNCHANGED << mem, byWell, service, id, slice, stored, overlapped, raced >>
      /\ UNCHANGED << seq, recentCache, statsCache >>
  BY DEF Look, service
<1>3. /\ \A r \in (Ingests \cup Reads) \ {q} : pc'[r] = pc[r]
      /\ pc' \in [Ingests \cup Reads -> {"idle", "load", "append", "store", "refresh",
                                         "read", "fill", "done", "refused"}]
      /\ pc'[q] \in {"read", "done"} /\ \A p \in Ingests : pc'[p] = pc[p]
  BY <1>1, ReadingsAssumption DEF goto, TypeInv, TypeOK
<1>4. TypeInv'
  <2>1. TypeOK'
    BY <1>2, <1>3, TypeStays DEF TypeInv, TypeOK
  <2>2. asked \in [kind : {"recent", "stats"}, well : Spellings, arg : Nat]
    BY ReadingsAssumption DEF Query
  <2>3. /\ query' \in [Reads -> [kind : {"recent", "stats"}, well : Spellings, arg : Nat]]
        /\ answer' = [r \in Reads |-> answer'[r]]
        /\ \A r \in Reads \ {q} : query'[r] = query[r] /\ answer'[r] = answer[r]
    BY <1>1, <2>2 DEF TypeInv
  <2>4. \A r \in Reads : Answered(r)'
    BY <1>2, <1>3, <2>3 DEF TypeInv, Answered
  <2> QED
    BY <1>2, <2>1, <2>3, <2>4, TypeStays DEF TypeInv
<1>5. MemoryInv' /\ KeptInv' /\ elements(byWell)' = elements(byWell)
  BY <1>2, <1>3, MemoryStays
<1>6. CacheInv'
  BY <1>2, <1>3, <1>5 DEF CacheInv
<1> QED
  BY <1>4, <1>5, <1>6

LEMMA ReadStoreStep ==
  ASSUME IInv, NEW q \in Reads, ReadStore(q)
  PROVE  IInv'
<1> USE DEF IInv
<1> DEFINE items == IF query[q].well = WellID THEN elements(byWell) ELSE << >>
           new == IF query[q].kind = "recent" THEN lastOf(items, query[q].arg)
                                              ELSE {r \in ToSet(items) : r > query[q].arg}
<1>1. /\ answer' = [answer EXCEPT ![q] = new] /\ pc[q] = "read" /\ goto(q, "fill")
      /\ UNCHANGED << mem, byWell, id, slice, query, stored, overlapped, raced >>
      /\ UNCHANGED << seq, recentCache, statsCache >>
  BY DEF ReadStore, service, ghosts
<1>2. /\ \A r \in (Ingests \cup Reads) \ {q} : pc'[r] = pc[r]
      /\ pc' \in [Ingests \cup Reads -> {"idle", "load", "append", "store", "refresh",
                                         "read", "fill", "done", "refused"}]
      /\ \A p \in Ingests : pc'[p] = pc[p]
  BY <1>1, ReadingsAssumption DEF goto, TypeInv, TypeOK
<1>3. TypeInv'
  <2>1. TypeOK'
    BY <1>1, <1>2, TypeStays DEF TypeInv, TypeOK
  <2>2. byWell \in Header /\ Slice(byWell) /\ mem \in Seq(Seq(Nat)) /\ byWell.len <= MaxKeep
    BY DEF TypeInv, TypeOK, Slice
  <2>3. items \in Seq(Nat) /\ Len(items) <= MaxKeep /\ \A i \in 1 .. Len(items) : items[i] \in 0 .. seq
    BY <2>2, Elements, Shown, ReadingsAssumption
  <2> HIDE DEF items
  <2>4. query[q].arg \in Nat
    BY DEF TypeInv
  <2>5. lastOf(items, query[q].arg) \in Seq(Nat) /\ Len(lastOf(items, query[q].arg)) <= MaxKeep
    <3>1. /\ lastOf(items, query[q].arg) \in Seq(Nat)
          /\ Len(lastOf(items, query[q].arg)) <= Len(items)
      BY <2>3, <2>4, LastOfIsShort
    <3>2. Len(items) \in Nat /\ Len(items) <= MaxKeep /\ MaxKeep \in Nat
      BY <2>3, ReadingsAssumption
    <3>3. Len(lastOf(items, query[q].arg)) \in Nat
      BY <3>1
    <3> QED
      BY <3>1, <3>2, <3>3
  <2>6. {r \in ToSet(items) : r > query[q].arg} \subseteq 0 .. seq
    BY <2>3 DEF ToSet
  <2> HIDE DEF new
  <2>7. /\ answer' = [r \in Reads |-> answer'[r]] /\ answer'[q] = new
        /\ \A r \in Reads \ {q} : answer'[r] = answer[r]
    BY <1>1 DEF TypeInv
  <2>8. Answered(q)'
    BY <1>1, <2>5, <2>6, <2>7 DEF Answered, new
  <2>9. \A r \in Reads \ {q} : Answered(r)'
    BY <1>1, <1>2, <2>7 DEF TypeInv, Answered
  <2> QED
    BY <1>1, <2>1, <2>7, <2>8, <2>9, TypeStays DEF TypeInv
<1>4. MemoryInv' /\ KeptInv' /\ elements(byWell)' = elements(byWell)
  BY <1>1, <1>2, MemoryStays
<1>5. CacheInv'
  BY <1>1, <1>2, <1>4 DEF CacheInv
<1> QED
  BY <1>3, <1>4, <1>5

LEMMA FillStep ==
  ASSUME IInv, NEW q \in Reads, Fill(q)
  PROVE  IInv'
<1> USE DEF IInv
<1> DEFINE well == query[q].well
<1>1. /\ pc[q] = "fill" /\ goto(q, "done")
      /\ UNCHANGED << mem, byWell, seq, id, slice, query, answer, stored, overlapped, raced >>
      /\ \/ /\ query[q].kind = "recent" /\ UNCHANGED statsCache
            /\ recentCache' = [recentCache EXCEPT ![well] = entry(answer[q], "recent")]
         \/ /\ query[q].kind = "stats" /\ UNCHANGED recentCache
            /\ statsCache' = [statsCache EXCEPT ![well] = entry(answer[q], "stats")]
  BY DEF Fill, ghosts
<1>2. /\ \A r \in (Ingests \cup Reads) \ {q} : pc'[r] = pc[r]
      /\ pc' \in [Ingests \cup Reads -> {"idle", "load", "append", "store", "refresh",
                                         "read", "fill", "done", "refused"}]
      /\ pc'[q] = "done" /\ \A p \in Ingests : pc'[p] = pc[p]
  BY <1>1, ReadingsAssumption DEF goto, TypeInv, TypeOK
<1>3. /\ well \in Spellings
      /\ query[q].kind = "recent" => answer[q] \in Seq(Nat) /\ Len(answer[q]) <= MaxKeep
      /\ query[q].kind = "stats" => answer[q] \subseteq 0 .. seq
  BY <1>1 DEF TypeInv, Answered
<1> HIDE DEF well
<1>4. CASE query[q].kind = "recent"
  <2>1. /\ recentCache' = [recentCache EXCEPT ![well] = entry(answer[q], "recent")]
        /\ UNCHANGED statsCache
    BY <1>1, <1>4
  <2>2. /\ entry(answer[q], "recent") \in Entry
        /\ Len(entry(answer[q], "recent").items) <= MaxKeep
        /\ entry(answer[q], "recent").by = "recent"
    BY <1>3, <1>4 DEF entry, Entry
  <2>3. /\ recentCache' \in [Spellings -> Entry]
        /\ \A w \in Spellings : Len(recentCache'[w].items) <= MaxKeep
        /\ recentCache'[WellID].by = "ingest" => recentCache'[WellID] = recentCache[WellID]
    BY <1>3, <2>1, <2>2, ReadingsAssumption DEF TypeInv, TypeOK
  <2> QED
    <3>1. TypeOK'
      BY <1>1, <1>2, <2>1, <2>3, TypeStays DEF TypeInv, TypeOK
    <3>2. TypeInv'
      BY <1>1, <1>2, <2>1, <2>3, <3>1, TypeStays DEF TypeInv, Answered
    <3>3. MemoryInv' /\ KeptInv' /\ elements(byWell)' = elements(byWell)
      BY <1>1, <1>2, MemoryStays
    <3>4. CacheInv'
      BY <1>2, <2>3, <3>3 DEF CacheInv
    <3> QED
      BY <3>2, <3>3, <3>4
<1>5. CASE query[q].kind = "stats"
  <2>1. /\ statsCache' = [statsCache EXCEPT ![well] = entry(answer[q], "stats")]
        /\ UNCHANGED recentCache
    BY <1>1, <1>5
  <2>2. entry(answer[q], "stats").items \subseteq 0 .. seq
    BY <1>3, <1>5 DEF entry
  <2>3. /\ statsCache' = [w \in Spellings |-> statsCache'[w]]
        /\ \A w \in Spellings : statsCache'[w].present => statsCache'[w].items \subseteq 0 .. seq
    BY <1>3, <2>1, <2>2 DEF TypeInv, TypeOK
  <2> QED
    <3>1. TypeOK'
      BY <1>1, <1>2, <2>1, <2>3, TypeStays DEF TypeInv, TypeOK
    <3>2. TypeInv'
      BY <1>1, <1>2, <2>1, <2>3, <3>1, TypeStays DEF TypeInv, Answered
    <3>3. MemoryInv' /\ KeptInv' /\ elements(byWell)' = elements(byWell)
      BY <1>1, <1>2, MemoryStays
    <3>4. CacheInv'
      BY <1>2, <2>1, <3>3 DEF CacheInv
    <3> QED
      BY <3>2, <3>3, <3>4
<1> QED
  BY <1>1, <1>4, <1>5

------------------------------------------------------------------------------
(* The steps of an Ingest.                                                 *)

LEMMA IngestStep ==
  ASSUME IInv, NEW p \in Ingests, Ingest(p)
  PROVE  IInv'
<1> USE DEF IInv
<1>1. /\ pc[p] = "idle" /\ seq \in Nat
      /\ \/ /\ seq' = seq + 1 /\ id' = [id EXCEPT ![p] = seq + 1] /\ goto(p, "load")
         \/ goto(p, "refused") /\ UNCHANGED << seq, id >>
      /\ UNCHANGED << mem, byWell, recentCache, statsCache, slice, query, answer, stored,
                      overlapped, raced >>
  BY DEF Ingest, number, ghosts, TypeInv, TypeOK
<1>2. /\ \A r \in (Ingests \cup Reads) \ {p} : pc'[r] = pc[r]
      /\ pc' \in [Ingests \cup Reads -> {"idle", "load", "append", "store", "refresh",
                                         "read", "fill", "done", "refused"}]
      /\ \A q \in Reads : pc'[q] = pc[q]
      /\ pc'[p] \in {"load", "refused"}
  BY <1>1, ReadingsAssumption DEF goto, TypeInv, TypeOK
<1>3. /\ seq' \in Nat /\ seq <= seq' /\ id' \in [Ingests -> 0 .. seq']
      /\ \A o \in Ingests \ {p} : id'[o] = id[o]
      /\ IF pc'[p] = "load" THEN id'[p] = seq + 1 /\ seq' = seq + 1 ELSE id'[p] = id[p]
  <2>1. /\ id \in [Ingests -> 0 .. seq]
        /\ pc \in [Ingests \cup Reads -> {"idle", "load", "append", "store", "refresh",
                                         "read", "fill", "done", "refused"}]
    BY DEF TypeInv, TypeOK
  <2>2. CASE seq' = seq + 1 /\ id' = [id EXCEPT ![p] = seq + 1] /\ goto(p, "load")
    <3>1. pc'[p] = "load"
      BY <2>1, <2>2 DEF goto
    <3> QED
      BY <1>1, <2>1, <2>2, <3>1
  <2>3. CASE goto(p, "refused") /\ UNCHANGED << seq, id >>
    <3>1. pc'[p] = "refused"
      BY <2>1, <2>3 DEF goto
    <3> QED
      BY <1>1, <2>1, <2>3, <3>1
  <2> QED
    BY <1>1, <2>2, <2>3
<1>4. TypeInv'
  <2>1. \A a \in DOMAIN mem' : \A i \in DOMAIN mem'[a] : mem'[a][i] \in 0 .. seq'
    BY <1>1, <1>3 DEF TypeInv, TypeOK
  <2>2. Slice(byWell)' /\ \A o \in Ingests : Slice(slice[o])'
    BY <1>1 DEF TypeInv, TypeOK, Slice, capacity
  <2>3. \A well \in Spellings :
          /\ Len(recentCache'[well].items) <= MaxKeep
          /\ statsCache'[well].present => statsCache'[well].items \subseteq 0 .. seq'
    BY <1>1, <1>3 DEF TypeInv, TypeOK
  <2>4. TypeOK'
    BY <1>1, <1>2, <1>3, <2>1, <2>2, <2>3 DEF TypeInv, TypeOK
  <2>5. \A q \in Reads : Answered(q)'
    <3>1. 0 .. seq \subseteq 0 .. seq'
      BY <1>1, <1>3
    <3>2. \A q \in Reads : Answered(q) /\ pc'[q] = pc[q] /\ query' = query /\ answer' = answer
      BY <1>1, <1>2 DEF TypeInv
    <3> QED
      BY <3>1, <3>2 DEF Answered
  <2> QED
    BY <1>1, <2>4, <2>5 DEF TypeInv
<1>5. \A o \in Ingests : id[o] \in 0 .. seq
  BY DEF TypeInv, TypeOK
<1>6. MemoryInv'
  <2>1. OneNumberEach'
    BY <1>1, <1>2, <1>3, <1>5 DEF MemoryInv, OneNumberEach, numbered
  <2>2. Distinct' /\ Filled(byWell)' /\ \A o \in Ingests : Filled(slice[o])'
    BY <1>1 DEF MemoryInv, Distinct, Filled
  <2>3. \A o \in Ingests \ {p} : Numbered(o)' /\ Unwritten(o)'
    BY <1>1, <1>2, <1>3 DEF MemoryInv, Numbered, numbered, Unwritten
  <2>4. Numbered(p)' /\ Unwritten(p)'
    <3>1. id[p] = Empty
      BY <1>1 DEF MemoryInv, Numbered, numbered
    <3>2. \A a \in DOMAIN mem : \A i \in DOMAIN mem[a] : mem[a][i] \in 0 .. seq
      BY DEF TypeInv, TypeOK
    <3>3. Numbered(p)'
      BY <1>1, <1>2, <1>3, <3>1 DEF Numbered, numbered, Empty
    <3>4. Unwritten(p)'
      BY <1>1, <1>2, <1>3, <3>2 DEF Unwritten
    <3> QED
      BY <3>3, <3>4
  <2> QED
    BY <2>1, <2>2, <2>3, <2>4 DEF MemoryInv
<1>7. CacheInv'
  <2>1. elements(byWell)' = elements(byWell)
    BY <1>1 DEF elements
  <2> QED
    BY <1>1, <1>2, <2>1 DEF CacheInv
<1>8. KeptInv'
  <2>1. ASSUME NEW i \in DOMAIN stored
        PROVE  \E o \in Ingests : pc'[o] \in {"refresh", "done"} /\ stored[i] = id'[o]
    BY <1>1, <1>2, <1>3 DEF KeptInv
  <2>2. \A o \in Ingests : Alone(o)'
    BY <1>1, <1>2, <1>3 DEF KeptInv, Alone
  <2>3. ASSUME NEW o \in Ingests \ overlapped, NEW i \in DOMAIN stored, stored[i] = id'[o]
        PROVE  Kept(o, i)'
    <3>1. PICK u \in Ingests : pc[u] \in {"refresh", "done"} /\ stored[i] = id[u]
      BY DEF KeptInv
    <3>2. id[u] # Empty /\ id[u] \in 0 .. seq
      BY <1>5, <3>1 DEF MemoryInv, Numbered, numbered
    <3>3. o # p
      <4>1. id[p] = Empty
        BY <1>1 DEF MemoryInv, Numbered, numbered
      <4>2. id'[p] = id[p] \/ id'[p] = seq + 1
        BY <1>3
      <4>3. id'[p] # id[u]
        BY <1>1, <3>2, <4>1, <4>2
      <4> QED
        BY <2>3, <3>1, <4>3
    <3>4. Kept(o, i)
      BY <1>3, <2>3, <3>3 DEF KeptInv
    <3> QED
      BY <1>1, <1>2, <1>3, <3>3, <3>4 DEF Kept, KeptIn
  <2> QED
    BY <1>1, <2>1, <2>2, <2>3 DEF KeptInv
<1> QED
  BY <1>4, <1>6, <1>7, <1>8

\* What the pc of an Ingest that moves on leaves alone.
LEMMA Moved ==
  ASSUME IInv, NEW p \in Ingests,
         NEW label \in {"append", "store", "refresh", "done"}, goto(p, label)
  PROVE  /\ pc'[p] = label /\ \A r \in (Ingests \cup Reads) \ {p} : pc'[r] = pc[r]
         /\ \A q \in Reads : pc'[q] = pc[q]
         /\ pc' \in [Ingests \cup Reads -> {"idle", "load", "append", "store", "refresh",
                                            "read", "fill", "done", "refused"}]
BY ReadingsAssumption DEF IInv, TypeInv, TypeOK, goto

LEMMA LoadStep ==
  ASSUME IInv, NEW p \in Ingests, Load(p)
  PROVE  IInv'
<1> USE DEF IInv
<1> DEFINE others == {o \in Ingests : pc[o] \in {"append", "store"}}
<1>1. /\ pc[p] = "load" /\ slice' = [slice EXCEPT ![p] = byWell] /\ goto(p, "append")
      /\ overlapped' = IF others = {} THEN overlapped ELSE overlapped \cup others \cup {p}
      /\ UNCHANGED << mem, byWell, id, query, answer, stored, raced >>
      /\ UNCHANGED << seq, recentCache, statsCache >>
  BY DEF Load, service
<1>2. /\ \A r \in (Ingests \cup Reads) \ {p} : pc'[r] = pc[r]
      /\ \A q \in Reads : pc'[q] = pc[q]
      /\ pc' \in [Ingests \cup Reads -> {"idle", "load", "append", "store", "refresh",
                                         "read", "fill", "done", "refused"}]
      /\ pc'[p] = "append"
  BY <1>1, Moved
<1>3. /\ slice' \in [Ingests -> Header] /\ slice'[p] = byWell
      /\ \A o \in Ingests \ {p} : slice'[o] = slice[o]
  BY <1>1 DEF TypeInv
<1>4. TypeInv'
  <2>1. Slice(byWell)' /\ \A o \in Ingests : Slice(slice[o])'
    BY <1>1, <1>3 DEF TypeInv, TypeOK, Slice, capacity
  <2>2. TypeOK'
    BY <1>1, <1>2, <1>3, <2>1 DEF TypeInv, TypeOK
  <2>3. \A q \in Reads : Answered(q)'
    BY <1>1, <1>2 DEF TypeInv, Answered
  <2> QED
    BY <1>1, <1>3, <2>2, <2>3 DEF TypeInv
<1>5. MemoryInv'
  <2>1. OneNumberEach' /\ Distinct' /\ \A o \in Ingests : Numbered(o)' /\ Unwritten(o)'
    BY <1>1, <1>2 DEF MemoryInv, OneNumberEach, Distinct, Numbered, numbered, Unwritten
  <2>2. Filled(byWell)' /\ \A o \in Ingests : Filled(slice[o])'
    BY <1>1, <1>3 DEF MemoryInv, Filled
  <2> QED
    BY <2>1, <2>2 DEF MemoryInv
<1>6. CacheInv'
  <2>1. elements(byWell)' = elements(byWell)
    BY <1>1 DEF elements
  <2> QED
    BY <1>1, <1>2, <2>1 DEF CacheInv
<1>7. KeptInv'
  <2>1. overlapped \subseteq overlapped'
    BY <1>1
  <2>2. \A i \in DOMAIN stored :
          \E o \in Ingests : pc'[o] \in {"refresh", "done"} /\ stored[i] = id[o]
    BY <1>1, <1>2 DEF KeptInv
  <2>3. ASSUME NEW o \in Ingests \ overlapped'
        PROVE  Alone(o)'
    <3>1. CASE o = p
      <4>1. others = {}
        BY <1>1, <3>1, <2>3
      <4> QED
        BY <1>2, <3>1, <4>1 DEF Alone
    <3>2. CASE o # p
      <4>1. o \notin others
        BY <1>1, <2>3
      <4> QED
        BY <1>1, <1>2, <1>3, <3>2, <4>1 DEF KeptInv, Alone
    <3> QED
      BY <3>1, <3>2
  <2>4. ASSUME NEW o \in Ingests \ overlapped', NEW i \in DOMAIN stored, stored[i] = id[o]
        PROVE  Kept(o, i)'
    <3>1. Kept(o, i)
      BY <2>1, <2>4 DEF KeptInv
    <3> QED
      BY <1>1, <1>2, <1>3, <3>1 DEF Kept, KeptIn
  <2>5. \A o \in Ingests : Alone(o)'
    BY <2>3 DEF Alone
  <2> QED
    BY <1>1, <2>2, <2>4, <2>5 DEF KeptInv
<1> QED
  BY <1>4, <1>5, <1>6, <1>7

------------------------------------------------------------------------------
(* The append.                                                             *)

\* What an append does to the memory: the new header g shows the last readings of the
\* old one and then the new reading; of the other slots of the old arrays only the one
\* behind the old header may have changed, and a new array is empty behind g.
Written(p, g) ==
  LET h == slice[p]
      old == h.len + 1 - g.len        \* the readings that are dropped
  IN  /\ slice' = [slice EXCEPT ![p] = g]
      /\ mem' \in Seq(Seq(Nat)) /\ Len(mem) <= Len(mem')
      /\ g.arr \in 1 .. Len(mem') /\ g.len \in 1 .. Len(mem'[g.arr])
      /\ g.len = IF h.len + 1 <= MaxKeep THEN h.len + 1 ELSE MaxKeep
      /\ mem'[g.arr][g.len] = id[p]
      /\ \A i \in 1 .. g.len - 1 : mem'[g.arr][i] = mem[h.arr][i + old]
      /\ \A a \in 1 .. Len(mem) :
           /\ Len(mem'[a]) = Len(mem[a])
           /\ \A i \in 1 .. Len(mem[a]) :
                \/ mem'[a][i] = mem[a][i]
                \/ a = h.arr /\ i = h.len + 1 /\ mem'[a][i] = id[p]
      /\ \A a \in Len(mem) + 1 .. Len(mem') :
           a = g.arr /\ \A i \in g.len + 1 .. Len(mem'[a]) : mem'[a][i] = Empty

\* The array of a growing append.
LEMMA Room ==
  ASSUME NEW readings \in Seq(Nat), NEW spare \in Nat
  PROVE  LET array == readings \o [i \in 1 .. spare |-> Empty]
         IN  /\ array \in Seq(Nat) /\ Len(readings) \in 0 .. Len(array)
             /\ \A i \in 1 .. Len(readings) : array[i] = readings[i]
             /\ \A i \in Len(readings) + 1 .. Len(array) : array[i] = Empty
<1> DEFINE room == [i \in 1 .. spare |-> Empty]
           array == readings \o room
<1>1. room \in Seq(Nat) /\ Len(room) = spare /\ \A i \in 1 .. spare : room[i] = Empty
  BY DEF Empty
<1> HIDE DEF room
<1>2. /\ array \in Seq(Nat) /\ Len(array) = Len(readings) + Len(room)
      /\ \A i \in 1 .. Len(readings) + Len(room) :
           array[i] = IF i <= Len(readings) THEN readings[i] ELSE room[i - Len(readings)]
  BY <1>1, ConcatProperties
<1> HIDE DEF array
<1>3. PICK m \in Nat : m = Len(readings)
  OBVIOUS
<1>4. Len(array) = m + spare
  BY <1>1, <1>2, <1>3
<1>5. m \in 0 .. m + spare
  OBVIOUS
<1>6. ASSUME NEW i \in 1 .. m PROVE array[i] = readings[i]
  <2>1. i \in 1 .. m + spare /\ i <= m
    OBVIOUS
  <2> QED
    BY <1>1, <1>2, <1>3, <2>1
<1>7. ASSUME NEW i \in m + 1 .. m + spare PROVE array[i] = Empty
  <2>1. i \in 1 .. m + spare /\ ~ (i <= m) /\ i - m \in 1 .. spare
    OBVIOUS
  <2> QED
    BY <1>1, <1>2, <1>3, <2>1
<1> QED
  BY <1>2, <1>3, <1>4, <1>5, <1>6, <1>7 DEF array, room

LEMMA Allocated ==
  ASSUME TypeInv, NEW p \in Ingests, NEW readings \in Seq(Nat), allocate(p, readings),
         Len(readings) = IF slice[p].len + 1 <= MaxKeep THEN slice[p].len + 1 ELSE MaxKeep,
         readings[Len(readings)] = id[p],
         \A i \in 1 .. Len(readings) - 1 :
           readings[i] = mem[slice[p].arr][i + (slice[p].len + 1 - Len(readings))]
  PROVE  \E g \in Header : Written(p, g)
<1> DEFINE g == [arr |-> Len(mem) + 1, len |-> Len(readings)]
<1>0. /\ slice[p].len \in Nat /\ MaxKeep \in Nat \ {0} /\ MaxSpare \in Nat
      /\ Len(readings) \in Nat \ {0}
  BY ReadingsAssumption DEF TypeInv, Header
<1>1. mem \in Seq(Seq(Nat)) /\ Len(mem) \in Nat
  BY DEF TypeInv
<1>2. PICK spare \in 0 .. MaxSpare :
        /\ mem' = Append(mem, readings \o [i \in 1 .. spare |-> Empty])
        /\ slice' = [slice EXCEPT ![p] = g]
  BY DEF allocate
<1> DEFINE array == readings \o [i \in 1 .. spare |-> Empty]
<1>3. spare \in Nat
  BY <1>0
<1>4. /\ array \in Seq(Nat) /\ Len(readings) \in 0 .. Len(array)
      /\ \A i \in 1 .. Len(readings) : array[i] = readings[i]
      /\ \A i \in Len(readings) + 1 .. Len(array) : array[i] = Empty
  BY <1>3, Room
<1>5. mem' = Append(mem, array)
  BY <1>2
<1> HIDE DEF array
<1>6. /\ mem' \in Seq(Seq(Nat)) /\ Len(mem') = Len(mem) + 1 /\ mem'[Len(mem) + 1] = array
      /\ \A a \in 1 .. Len(mem) : mem'[a] = mem[a]
  BY <1>1, <1>4, <1>5
<1>7. g \in Header /\ g.arr = Len(mem) + 1 /\ g.len = Len(readings) /\ Len(readings) >= 1
  BY <1>0, <1>1 DEF Header
<1> HIDE DEF g
<1>8. Written(p, g)
  <2>1. g.arr \in 1 .. Len(mem') /\ g.len \in 1 .. Len(mem'[g.arr]) /\ mem'[g.arr] = array
    <3>1. mem'[g.arr] = array /\ Len(mem') = g.arr
      BY <1>6, <1>7
    <3>2. Len(readings) \in 1 .. Len(array)
      BY <1>0, <1>4
    <3>3. g.arr \in 1 .. g.arr
      BY <1>1, <1>7
    <3> QED
      BY <1>7, <3>1, <3>2, <3>3
  <2>2. /\ g.len = IF slice[p].len + 1 <= MaxKeep THEN slice[p].len + 1 ELSE MaxKeep
        /\ mem'[g.arr][g.len] = id[p]
    <3>1. Len(readings) \in 1 .. Len(readings)
      BY <1>0
    <3> QED
      BY <1>4, <1>7, <2>1, <3>1
  <2>3. \A i \in 1 .. g.len - 1 :
          mem'[g.arr][i] = mem[slice[p].arr][i + (slice[p].len + 1 - g.len)]
    <3>1. 1 .. Len(readings) - 1 \subseteq 1 .. Len(readings)
      BY <1>0
    <3> QED
      BY <1>4, <1>7, <2>1, <3>1
  <2>4. \A a \in Len(mem) + 1 .. Len(mem') :
          a = g.arr /\ \A i \in g.len + 1 .. Len(mem'[a]) : mem'[a][i] = Empty
    <3> SUFFICES ASSUME NEW a \in Len(mem) + 1 .. Len(mem')
                 PROVE  a = g.arr /\ \A i \in g.len + 1 .. Len(mem'[a]) : mem'[a][i] = Empty
      OBVIOUS
    <3>1. Len(mem') = Len(mem) + 1
      BY <1>6
    <3>2. a = Len(mem) + 1
      BY <1>1, <3>1
    <3>3. a = g.arr /\ mem'[a] = array
      BY <1>7, <2>1, <3>2
    <3> QED
      BY <1>4, <1>7, <3>3
  <2>5. Len(mem) <= Len(mem')
    BY <1>1, <1>6
  <2> QED
    BY <1>2, <1>6, <2>1, <2>2, <2>3, <2>4, <2>5 DEF Written
<1> QED
  BY <1>7, <1>8

\* The slot behind a header, if its array has one.
LEMMA Behind ==
  ASSUME mem \in Seq(Seq(Nat)), NEW h \in Header, Slice(h), h.len < capacity(h)
  PROVE  h.arr \in 1 .. Len(mem) /\ mem[h.arr] \in Seq(Nat) /\ h.len + 1 \in 1 .. Len(mem[h.arr])
<1>1. h.arr \in Nat /\ h.len \in Nat /\ h.arr \in 0 .. Len(mem)
  BY DEF Header, Slice
<1>2. h.arr # 0
  BY <1>1 DEF capacity
<1>3. h.arr \in 1 .. Len(mem)
  BY <1>1, <1>2
<1>4. mem[h.arr] \in Seq(Nat) /\ h.len < Len(mem[h.arr])
  BY <1>2, <1>3 DEF capacity
<1>5. Len(mem[h.arr]) \in Nat
  BY <1>4
<1>6. h.len + 1 \in 1 .. Len(mem[h.arr])
  BY <1>1, <1>4, <1>5
<1> QED
  BY <1>3, <1>4, <1>6

LEMMA SetSlot ==
  ASSUME NEW S, NEW s \in Seq(S), NEW i \in 1 .. Len(s), NEW x \in S
  PROVE  LET t == [s EXCEPT ![i] = x]
         IN  /\ t \in Seq(S) /\ Len(t) = Len(s) /\ t[i] = x
             /\ \A j \in 1 .. Len(s) : j # i => t[j] = s[j]
BY ExceptSeq

LEMMA AppendWrites ==
  ASSUME IInv, NEW p \in Ingests, AppendLocal(p)
  PROVE  \E g \in Header : Written(p, g)
<1> USE DEF IInv
<1> DEFINE h == slice[p]
           grow == Append(elements(h), id[p])
<1>0. h.len \in Nat /\ MaxKeep \in Nat \ {0}
  BY ReadingsAssumption DEF TypeInv, Header
<1>1. /\ mem \in Seq(Seq(Nat)) /\ h \in Header /\ Slice(h) /\ id[p] \in Nat
      /\ MaxKeep \in Nat \ {0} /\ h.len \in 0 .. MaxKeep
  BY ReadingsAssumption DEF TypeInv, TypeOK, Slice, Header
<1>2. /\ elements(h) \in Seq(Nat) /\ Len(elements(h)) = h.len
      /\ \A i \in 1 .. h.len : elements(h)[i] = mem[h.arr][i]
  BY <1>1, Elements
<1>3. /\ grow \in Seq(Nat) /\ Len(grow) = h.len + 1 /\ grow[h.len + 1] = id[p]
      /\ \A i \in 1 .. h.len : grow[i] = mem[h.arr][i]
  BY <1>1, <1>2
<1> HIDE DEF grow
<1>7. Len(grow) = h.len + 1
  BY <1>3
<1>4. CASE h.len + 1 > MaxKeep /\ allocate(p, keep(grow, MaxKeep))
  <2> DEFINE kept == lastOf(grow, MaxKeep)
  <2>1. /\ kept \in Seq(Nat) /\ Len(kept) = MaxKeep
        /\ \A i \in 1 .. MaxKeep : kept[i] = grow[i + (h.len + 1 - MaxKeep)]
    <3>1. Len(grow) > MaxKeep /\ Len(grow) - MaxKeep = h.len + 1 - MaxKeep
      BY <1>1, <1>3, <1>4
    <3> QED
      BY <1>1, <1>3, <3>1, LastOf
  <2>2. allocate(p, kept)
    BY <1>4 DEF keep
  <2> HIDE DEF kept
  <2>3. kept[MaxKeep] = id[p]
    <3>1. MaxKeep \in 1 .. MaxKeep /\ MaxKeep + (h.len + 1 - MaxKeep) = h.len + 1
      BY <1>1
    <3> QED
      BY <1>3, <2>1, <3>1
  <2>4. \A i \in 1 .. MaxKeep - 1 : kept[i] = mem[h.arr][i + (h.len + 1 - MaxKeep)]
    <3> SUFFICES ASSUME NEW i \in 1 .. MaxKeep - 1
                 PROVE  kept[i] = mem[h.arr][i + (h.len + 1 - MaxKeep)]
      OBVIOUS
    <3>1. i \in 1 .. MaxKeep /\ i + (h.len + 1 - MaxKeep) \in 1 .. h.len
      BY <1>1, <1>4
    <3> QED
      BY <1>3, <2>1, <3>1
  <2>5. Len(kept) = IF h.len + 1 <= MaxKeep THEN h.len + 1 ELSE MaxKeep
    <3>1. ~ (h.len + 1 <= MaxKeep)
      BY <1>0, <1>4
    <3> QED
      BY <2>1, <3>1
  <2>6. /\ kept[Len(kept)] = id[p]
        /\ \A i \in 1 .. Len(kept) - 1 : kept[i] = mem[h.arr][i + (h.len + 1 - Len(kept))]
    BY <2>1, <2>3, <2>4
  <2>7. kept \in Seq(Nat)
    BY <2>1
  <2> QED
    BY <2>2, <2>5, <2>6, <2>7, Allocated
<1>5. CASE h.len + 1 <= MaxKeep /\ allocate(p, grow)
  <2>1. \A i \in 1 .. Len(grow) - 1 : grow[i] = mem[h.arr][i + (h.len + 1 - Len(grow))]
    <3> SUFFICES ASSUME NEW i \in 1 .. Len(grow) - 1
                 PROVE  grow[i] = mem[h.arr][i + (h.len + 1 - Len(grow))]
      OBVIOUS
    <3>1. i \in 1 .. h.len /\ i + (h.len + 1 - Len(grow)) = i
      BY <1>0, <1>7
    <3> QED
      BY <1>3, <3>1
  <2> QED
    BY <1>3, <1>5, <2>1, Allocated
<1>6. CASE /\ h.len + 1 <= MaxKeep /\ h.len < capacity(h)
           /\ mem' = [mem EXCEPT ![h.arr][h.len + 1] = id[p]]
           /\ slice' = [slice EXCEPT ![p] = [arr |-> h.arr, len |-> h.len + 1]]
  <2> DEFINE g == [arr |-> h.arr, len |-> h.len + 1]
             array == [mem[h.arr] EXCEPT ![h.len + 1] = id[p]]
  <2>1. h.arr \in 1 .. Len(mem) /\ mem[h.arr] \in Seq(Nat) /\ h.len + 1 \in 1 .. Len(mem[h.arr])
    BY <1>1, <1>6, Behind
  <2>2. /\ array \in Seq(Nat) /\ Len(array) = Len(mem[h.arr]) /\ array[h.len + 1] = id[p]
        /\ \A i \in 1 .. Len(mem[h.arr]) : i # h.len + 1 => array[i] = mem[h.arr][i]
    <3>1. mem[h.arr] \in Seq(Nat) /\ h.len + 1 \in 1 .. Len(mem[h.arr]) /\ id[p] \in Nat
      BY <1>1, <2>1
    <3> QED
      BY <3>1, SetSlot
  <2>3. mem' = [mem EXCEPT ![h.arr] = array]
    BY <1>6
  <2> HIDE DEF array
  <2>4. /\ mem' \in Seq(Seq(Nat)) /\ Len(mem') = Len(mem) /\ mem'[h.arr] = array
        /\ \A a \in 1 .. Len(mem) : a # h.arr => mem'[a] = mem[a]
    <3>1. mem \in Seq(Seq(Nat)) /\ h.arr \in 1 .. Len(mem) /\ array \in Seq(Nat)
      BY <1>1, <2>1, <2>2
    <3> QED
      BY <2>3, <3>1, SetSlot
  <2>5. g \in Header /\ g.arr = h.arr /\ g.len = h.len + 1 /\ slice' = [slice EXCEPT ![p] = g]
    BY <1>1, <1>6 DEF Header
  <2> HIDE DEF g
  <2>6. Written(p, g)
    <3>1. g.arr \in 1 .. Len(mem') /\ g.len \in 1 .. Len(mem'[g.arr]) /\ mem'[g.arr] = array
      BY <2>1, <2>2, <2>4, <2>5
    <3>2. \A i \in 1 .. g.len - 1 : mem'[g.arr][i] = mem[h.arr][i + (h.len + 1 - g.len)]
      <4> SUFFICES ASSUME NEW i \in 1 .. g.len - 1
                   PROVE  array[i] = mem[h.arr][i + (h.len + 1 - g.len)]
        BY <3>1
      <4>0. g.len = h.len + 1 /\ Len(mem[h.arr]) \in Nat
        BY <2>1, <2>5
      <4>1. i \in 1 .. h.len /\ i + (h.len + 1 - g.len) = i
        BY <1>0, <4>0
      <4>2. h.len + 1 <= Len(mem[h.arr])
        BY <2>1
      <4>3. i \in 1 .. Len(mem[h.arr]) /\ i # h.len + 1
        BY <1>0, <4>0, <4>1, <4>2
      <4> QED
        BY <2>2, <4>1, <4>3
    <3>3. \A a \in 1 .. Len(mem) :
            /\ Len(mem'[a]) = Len(mem[a])
            /\ \A i \in 1 .. Len(mem[a]) :
                 \/ mem'[a][i] = mem[a][i]
                 \/ a = h.arr /\ i = h.len + 1 /\ mem'[a][i] = id[p]
      BY <2>2, <2>4
    <3>4. mem'[g.arr][g.len] = id[p] /\ g.len = h.len + 1
      BY <2>2, <2>5, <3>1
    <3>5. \A a \in Len(mem) + 1 .. Len(mem') : FALSE
      BY <1>1, <2>4
    <3>6. g.len = IF h.len + 1 <= MaxKeep THEN h.len + 1 ELSE MaxKeep
      BY <1>6, <3>4
    <3>7. Len(mem) <= Len(mem')
      BY <1>1, <2>4
    <3>8. \A a \in Len(mem) + 1 .. Len(mem') :
            a = g.arr /\ \A i \in g.len + 1 .. Len(mem'[a]) : mem'[a][i] = Empty
      BY <3>5
    <3> QED
      BY <2>4, <2>5, <3>1, <3>2, <3>3, <3>4, <3>6, <3>7, <3>8 DEF Written
  <2> QED
    BY <2>5, <2>6
<1> QED
  BY <1>4, <1>5, <1>6 DEF AppendLocal, grow

\* The memory is a sequence of sequences.
LEMMA Arrays ==
  ASSUME NEW m \in Seq(Seq(Nat))
  PROVE  /\ Len(m) \in Nat /\ DOMAIN m = 1 .. Len(m)
         /\ \A a \in 1 .. Len(m) :
              m[a] \in Seq(Nat) /\ Len(m[a]) \in Nat /\ DOMAIN m[a] = 1 .. Len(m[a])
OBVIOUS

\* The slots of the new array, if there is one, and of the old ones.
LEMMA Slots ==
  ASSUME IInv, NEW p \in Ingests, pc[p] = "append", NEW g \in Header, Written(p, g)
  PROVE  /\ \A a \in 1 .. Len(mem') : a \notin 1 .. Len(mem) =>
              \A i \in 1 .. Len(mem'[a]) :
                \/ mem'[a][i] = Empty
                \/ i = g.len /\ mem'[a][i] = id[p]
                \/ /\ slice[p].arr \in 1 .. Len(mem)
                   /\ i + (slice[p].len + 1 - g.len) \in 1 .. Len(mem[slice[p].arr])
                   /\ mem'[a][i] = mem[slice[p].arr][i + (slice[p].len + 1 - g.len)]
         /\ g.len \in {slice[p].len, slice[p].len + 1} /\ g.len <= MaxKeep
         /\ slice[p].len \in Nat /\ g.len \in Nat \ {0}
         /\ g.len # slice[p].len + 1 => g.len = MaxKeep
<1> DEFINE h == slice[p]
<1>1. /\ h.len \in Nat /\ h.len <= MaxKeep /\ MaxKeep \in Nat \ {0} /\ g.len \in Nat
      /\ h.arr \in 0 .. Len(mem) /\ (h.len # 0 => h.arr \in 1 .. Len(mem) /\ h.len <= Len(mem[h.arr]))
      /\ mem \in Seq(Seq(Nat))
  <2>1. h \in Header /\ Slice(h) /\ mem \in Seq(Seq(Nat)) /\ MaxKeep \in Nat \ {0}
    BY ReadingsAssumption DEF IInv, TypeInv, TypeOK
  <2>2. h.len \in Nat /\ h.len <= MaxKeep /\ h.arr \in 0 .. Len(mem) /\ h.len \in 0 .. capacity(h)
    BY <2>1 DEF Slice, Header
  <2>3. h.len # 0 => h.arr # 0
    BY <2>2 DEF capacity
  <2>4. h.len # 0 => h.arr \in 1 .. Len(mem) /\ h.len <= Len(mem[h.arr])
    BY <2>1, <2>2, <2>3 DEF capacity
  <2>5. g.len \in Nat
    BY DEF Header
  <2> QED
    BY <2>1, <2>2, <2>4, <2>5
<1>2. g.len = IF h.len + 1 <= MaxKeep THEN h.len + 1 ELSE MaxKeep
  BY DEF Written
<1>3. /\ g.len \in {h.len, h.len + 1} /\ g.len <= MaxKeep /\ g.len \in Nat \ {0}
      /\ g.len # h.len + 1 => g.len = MaxKeep
  BY <1>1, <1>2
<1>4. ASSUME NEW a \in 1 .. Len(mem'), a \notin 1 .. Len(mem), NEW i \in 1 .. Len(mem'[a])
      PROVE  \/ mem'[a][i] = Empty
             \/ i = g.len /\ mem'[a][i] = id[p]
             \/ /\ h.arr \in 1 .. Len(mem) /\ i + (h.len + 1 - g.len) \in 1 .. Len(mem[h.arr])
                /\ mem'[a][i] = mem[h.arr][i + (h.len + 1 - g.len)]
  <2>1. /\ a \in Len(mem) + 1 .. Len(mem') /\ mem' \in Seq(Seq(Nat))
        /\ Len(mem'[a]) \in Nat /\ i \in Nat
    <3>1. mem' \in Seq(Seq(Nat)) /\ Len(mem) \in Nat
      BY <1>1 DEF Written
    <3>2. Len(mem') \in Nat
      BY <3>1
    <3>3. a \in Len(mem) + 1 .. Len(mem')
      BY <1>4, <3>1, <3>2
    <3>4. Len(mem'[a]) \in Nat
      BY <3>1, Arrays
    <3> QED
      BY <3>1, <3>3, <3>4
  <2>2. a = g.arr /\ \A j \in g.len + 1 .. Len(mem'[a]) : mem'[a][j] = Empty
    BY <2>1 DEF Written
  <2>3. CASE i > g.len
    <3>1. i \in g.len + 1 .. Len(mem'[a])
      BY <1>3, <1>4, <2>1, <2>3
    <3> QED
      BY <2>2, <3>1
  <2>4. CASE i = g.len
    BY <2>2, <2>4 DEF Written
  <2>5. CASE i < g.len
    <3>1. i \in 1 .. g.len - 1
      BY <1>3, <1>4, <2>1, <2>5
    <3>2. mem'[a][i] = mem[h.arr][i + (h.len + 1 - g.len)]
      BY <2>2, <3>1 DEF Written
    <3>3. i + (h.len + 1 - g.len) \in 1 .. h.len /\ h.len # 0
      <4>1. i \in Nat /\ h.len \in Nat /\ g.len \in {h.len, h.len + 1} /\ i >= 1 /\ i <= g.len - 1
        BY <1>1, <1>3, <2>1, <3>1
      <4>2. CASE g.len = h.len
        BY <4>1, <4>2
      <4>3. CASE g.len = h.len + 1
        BY <4>1, <4>3
      <4> QED
        BY <4>1, <4>2, <4>3
    <3>4. h.arr \in 1 .. Len(mem) /\ h.len <= Len(mem[h.arr]) /\ Len(mem[h.arr]) \in Nat
      <4>1. h.arr \in 1 .. Len(mem) /\ h.len <= Len(mem[h.arr])
        BY <1>1, <3>3
      <4> QED
        BY <1>1, <4>1, Arrays
    <3>5. 1 .. h.len \subseteq 1 .. Len(mem[h.arr])
      <4>1. h.len \in Nat
        BY <1>1
      <4> QED
        BY <3>4, <4>1
    <3> QED
      BY <3>2, <3>3, <3>4, <3>5
  <2> QED
    BY <1>3, <2>1, <2>3, <2>4, <2>5
<1> QED
  BY <1>1, <1>3, <1>4

\* What other headers, and the old one, show after an append: what they showed, but
\* perhaps for the slot behind the old header.
LEMMA Others ==
  ASSUME IInv, NEW p \in Ingests, pc[p] = "append", NEW g \in Header, Written(p, g),
         UNCHANGED id, NEW e \in Header, Slice(e), Filled(e)
  PROVE  /\ e.arr \in 0 .. Len(mem') /\ (e.arr # 0 => e.len \in 0 .. Len(mem'[e.arr]))
         /\ e.arr = 0 => e.len = 0
         /\ \A i \in 1 .. e.len :
              /\ e.arr \in 1 .. Len(mem) /\ i \in 1 .. Len(mem[e.arr])
              /\ mem'[e.arr][i] # Empty
              /\ \/ mem'[e.arr][i] = mem[e.arr][i]
                 \/ e.arr = slice[p].arr /\ i = slice[p].len + 1
<1>1. /\ mem \in Seq(Seq(Nat)) /\ mem' \in Seq(Seq(Nat)) /\ Len(mem) <= Len(mem')
      /\ e.arr \in 0 .. Len(mem) /\ Len(mem) \in Nat /\ Len(mem') \in Nat
  BY DEF IInv, TypeInv, Slice, Written
<1>2. e.arr # 0 => e.arr \in 1 .. Len(mem) /\ e.len \in 0 .. Len(mem[e.arr])
  BY <1>1 DEF Slice, capacity
<1>3. e.arr = 0 => e.len = 0
  BY DEF Slice, capacity
<1>4. e.arr \in 0 .. Len(mem')
  BY <1>1
<1>5. e.arr # 0 => e.len \in 0 .. Len(mem'[e.arr])
  BY <1>2 DEF Written
<1>6. id[p] # Empty
  BY DEF IInv, MemoryInv, Numbered, numbered
<1>7. ASSUME NEW i \in 1 .. e.len
      PROVE  /\ e.arr \in 1 .. Len(mem) /\ i \in 1 .. Len(mem[e.arr])
             /\ mem'[e.arr][i] # Empty
             /\ \/ mem'[e.arr][i] = mem[e.arr][i]
                \/ e.arr = slice[p].arr /\ i = slice[p].len + 1
  <2>1. e.arr # 0
    BY <1>3, <1>7
  <2>2. e.arr \in 1 .. Len(mem) /\ i \in 1 .. Len(mem[e.arr])
    <3>1. e.arr \in 1 .. Len(mem) /\ e.len \in 0 .. Len(mem[e.arr]) /\ Len(mem[e.arr]) \in Nat
      BY <1>1, <1>2, <2>1
    <3> QED
      BY <1>7, <3>1
  <2>3. \/ mem'[e.arr][i] = mem[e.arr][i]
        \/ e.arr = slice[p].arr /\ i = slice[p].len + 1 /\ mem'[e.arr][i] = id[p]
    BY <2>2 DEF Written
  <2>4. mem[e.arr][i] # Empty
    BY <1>7 DEF Filled
  <2> QED
    BY <1>6, <2>2, <2>3, <2>4
<1> QED
  BY <1>3, <1>4, <1>5, <1>7

LEMMA AppendMemory ==
  ASSUME IInv, NEW p \in Ingests, AppendLocal(p), NEW g \in Header, Written(p, g)
  PROVE  MemoryInv' /\ \A a \in DOMAIN mem' : \A i \in DOMAIN mem'[a] : mem'[a][i] \in 0 .. seq
<1> USE DEF IInv
<1>1. pc[p] = "append" /\ goto(p, "store") /\ UNCHANGED << byWell, id >>
  BY DEF AppendLocal
<1>s. /\ \A a \in 1 .. Len(mem') : a \notin 1 .. Len(mem) =>
           \A i \in 1 .. Len(mem'[a]) :
             \/ mem'[a][i] = Empty
             \/ i = g.len /\ mem'[a][i] = id[p]
             \/ /\ slice[p].arr \in 1 .. Len(mem)
                /\ i + (slice[p].len + 1 - g.len) \in 1 .. Len(mem[slice[p].arr])
                /\ mem'[a][i] = mem[slice[p].arr][i + (slice[p].len + 1 - g.len)]
      /\ g.len \in {slice[p].len, slice[p].len + 1} /\ slice[p].len \in Nat /\ g.len \in Nat \ {0}
  BY <1>1, Slots
<1>2. pc'[p] = "store" /\ \A r \in (Ingests \cup Reads) \ {p} : pc'[r] = pc[r]
  BY <1>1, Moved
<1>3. /\ mem \in Seq(Seq(Nat)) /\ mem' \in Seq(Seq(Nat)) /\ Len(mem) <= Len(mem')
      /\ g.arr \in 1 .. Len(mem') /\ g.len \in 1 .. Len(mem'[g.arr]) /\ mem'[g.arr][g.len] = id[p]
      /\ slice' = [slice EXCEPT ![p] = g] /\ slice \in [Ingests -> Header]
      /\ id[p] # Empty /\ id[p] \in 0 .. seq
  BY <1>1 DEF Written, TypeInv, TypeOK, MemoryInv, Numbered, numbered
<1>4. \A a \in 1 .. Len(mem) :
        /\ Len(mem'[a]) = Len(mem[a])
        /\ \A i \in 1 .. Len(mem[a]) :
             \/ mem'[a][i] = mem[a][i]
             \/ a = slice[p].arr /\ i = slice[p].len + 1 /\ mem'[a][i] = id[p]
  BY DEF Written
<1>0. /\ DOMAIN mem = 1 .. Len(mem) /\ DOMAIN mem' = 1 .. Len(mem')
      /\ \A a \in 1 .. Len(mem) : DOMAIN mem[a] = 1 .. Len(mem[a])
      /\ \A a \in 1 .. Len(mem') : DOMAIN mem'[a] = 1 .. Len(mem'[a])
  BY <1>3, Arrays
<1>5. \A a \in 1 .. Len(mem) : \A i \in 1 .. Len(mem[a]) : mem[a][i] # id[p] /\ mem[a][i] \in 0 .. seq
  <2>1. \A a \in DOMAIN mem : \A i \in DOMAIN mem[a] : mem[a][i] # id[p]
    BY <1>1 DEF MemoryInv, Unwritten
  <2>2. \A a \in DOMAIN mem : \A i \in DOMAIN mem[a] : mem[a][i] \in 0 .. seq
    BY DEF TypeInv, TypeOK
  <2> QED
    BY <1>0, <2>1, <2>2
<1>6. ASSUME NEW a \in 1 .. Len(mem'), NEW i \in 1 .. Len(mem'[a])
      PROVE  \/ mem'[a][i] \in {Empty, id[p]}
             \/ \E b \in 1 .. Len(mem) : \E j \in 1 .. Len(mem[b]) : mem'[a][i] = mem[b][j]
  <2>1. CASE a \in 1 .. Len(mem)
    BY <1>4, <2>1
  <2>2. CASE a \notin 1 .. Len(mem)
    BY <1>s, <2>2
  <2> QED
    BY <2>1, <2>2
<1>7. ASSUME NEW a \in 1 .. Len(mem'), NEW i \in 1 .. Len(mem'[a]) PROVE mem'[a][i] \in 0 .. seq
  <2>1. Empty \in 0 .. seq
    BY DEF Empty, TypeInv, TypeOK
  <2>2. CASE mem'[a][i] \in {Empty, id[p]}
    BY <1>3, <2>1, <2>2
  <2>3. CASE \E b \in 1 .. Len(mem) : \E j \in 1 .. Len(mem[b]) : mem'[a][i] = mem[b][j]
    <3>1. PICK b \in 1 .. Len(mem) : \E j \in 1 .. Len(mem[b]) : mem'[a][i] = mem[b][j]
      BY <2>3
    <3>2. PICK j \in 1 .. Len(mem[b]) : mem'[a][i] = mem[b][j]
      BY <3>1
    <3>3. mem[b][j] \in 0 .. seq
      BY <1>5
    <3> QED
      BY <3>2, <3>3
  <2> QED
    BY <1>6, <2>2, <2>3
<1>8. Distinct'
  <2> SUFFICES ASSUME NEW a \in 1 .. Len(mem'), NEW i \in 1 .. Len(mem'[a]), NEW j \in 1 .. Len(mem'[a]),
                      mem'[a][i] # Empty, mem'[a][i] = mem'[a][j]
               PROVE  i = j
    BY <1>0 DEF Distinct, Empty
  <2>1. CASE a \in 1 .. Len(mem)
    <3>1. /\ a \in DOMAIN mem /\ i \in DOMAIN mem[a] /\ j \in DOMAIN mem[a]
          /\ i \in 1 .. Len(mem[a]) /\ j \in 1 .. Len(mem[a])
      BY <1>0, <1>4, <2>1
    <3>2. mem[a][i] # Empty /\ mem[a][i] = mem[a][j] => i = j
      BY <3>1 DEF MemoryInv, Distinct
    <3>3. /\ mem[a][i] # id[p] /\ mem[a][j] # id[p]
          /\ mem'[a][i] = mem[a][i] \/ (i = slice[p].len + 1 /\ mem'[a][i] = id[p])
          /\ mem'[a][j] = mem[a][j] \/ (j = slice[p].len + 1 /\ mem'[a][j] = id[p])
      BY <1>4, <1>5, <2>1, <3>1
    <3> QED
      BY <3>2, <3>3
  <2>2. CASE a \notin 1 .. Len(mem)
    <3> DEFINE b == slice[p].arr
               old == slice[p].len + 1 - g.len
    <3>1. old \in Nat /\ i \in Nat /\ j \in Nat
      <4>1. old \in {0, 1}
        <5>1. CASE g.len = slice[p].len
          BY <1>s, <5>1
        <5>2. CASE g.len = slice[p].len + 1
          BY <1>s, <5>2
        <5> QED
          BY <1>s, <5>1, <5>2
      <4> QED
        BY <4>1
    <3> HIDE DEF old
    <3>2. /\ \/ i = g.len /\ mem'[a][i] = id[p]
             \/ b \in 1 .. Len(mem) /\ i + old \in 1 .. Len(mem[b]) /\ mem'[a][i] = mem[b][i + old]
          /\ \/ j = g.len /\ mem'[a][j] = id[p]
             \/ b \in 1 .. Len(mem) /\ j + old \in 1 .. Len(mem[b]) /\ mem'[a][j] = mem[b][j + old]
      BY <1>s, <2>2 DEF old
    <3>3. CASE b \in 1 .. Len(mem) /\ i + old \in 1 .. Len(mem[b]) /\ j + old \in 1 .. Len(mem[b])
               /\ mem'[a][i] = mem[b][i + old] /\ mem'[a][j] = mem[b][j + old]
      <4>1. i + old = j + old
        <5>1. b \in DOMAIN mem /\ i + old \in DOMAIN mem[b] /\ j + old \in DOMAIN mem[b]
          BY <1>0, <3>3
        <5>2. mem[b][i + old] # Empty /\ mem[b][i + old] = mem[b][j + old]
          BY <3>3
        <5> QED
          BY <5>1, <5>2 DEF MemoryInv, Distinct
      <4> QED
        BY <3>1, <4>1
    <3> QED
      BY <1>5, <3>2, <3>3
  <2> QED
    BY <2>1, <2>2
<1>9. ASSUME NEW o \in Ingests PROVE Numbered(o)' /\ Unwritten(o)'
  <2>1. Numbered(o)'
    BY <1>1, <1>2 DEF MemoryInv, Numbered, numbered
  <2>2. Unwritten(o)'
    <3> SUFFICES ASSUME pc'[o] \in {"load", "append"},
                        NEW a \in 1 .. Len(mem'), NEW i \in 1 .. Len(mem'[a])
                 PROVE  mem'[a][i] # id[o]
      BY <1>0, <1>1 DEF Unwritten
    <3>1. o # p /\ pc[o] \in {"load", "append"}
      BY <1>2
    <3>2. id[o] # id[p] /\ id[o] # Empty
      BY <1>1, <3>1 DEF MemoryInv, OneNumberEach, Numbered, numbered
    <3>3. \A b \in 1 .. Len(mem) : \A k \in 1 .. Len(mem[b]) : mem[b][k] # id[o]
      BY <1>0, <3>1 DEF MemoryInv, Unwritten
    <3>4. \A b \in 1 .. Len(mem) : \A k \in 1 .. Len(mem[b]) : mem'[a][i] = mem[b][k] => mem'[a][i] # id[o]
      BY <3>3
    <3>5. mem'[a][i] \in {Empty, id[p]} => mem'[a][i] # id[o]
      BY <3>2
    <3> QED
      BY <1>6, <3>4, <3>5
  <2> QED
    BY <2>1, <2>2
<1>10. OneNumberEach'
  BY <1>1, <1>2 DEF MemoryInv, OneNumberEach, numbered
<1>11. Filled(byWell)'
  BY <1>1, Others DEF Filled, MemoryInv, TypeInv, TypeOK
<1>12. ASSUME NEW o \in Ingests PROVE Filled(slice[o])'
  <2>1. CASE o # p
    <3>1. slice'[o] = slice[o]
      BY <1>3, <2>1
    <3> QED
      <4>1. slice[o] \in Header /\ Slice(slice[o]) /\ Filled(slice[o])
        BY DEF MemoryInv, TypeInv, TypeOK
      <4>2. \A i \in 1 .. slice[o].len : mem'[slice[o].arr][i] # Empty
        BY <1>1, <4>1, Others
      <4> QED
        BY <3>1, <4>2 DEF Filled, Empty
  <2>2. CASE o = p
    <3>1. slice'[o] = g
      BY <1>3, <2>2
    <3>2. ASSUME NEW i \in 1 .. g.len PROVE mem'[g.arr][i] # Empty
      <4>1. CASE i = g.len
        BY <1>3, <4>1
      <4>2. CASE i # g.len
        <5> DEFINE k == i + (slice[p].len + 1 - g.len)
        <5>1. i \in 1 .. g.len - 1 /\ k \in 1 .. slice[p].len
          BY <1>s, <4>2
        <5>2. mem'[g.arr][i] = mem[slice[p].arr][k]
          BY <5>1 DEF Written
        <5> HIDE DEF k
        <5> QED
          BY <5>1, <5>2 DEF MemoryInv, Filled
      <4> QED
        BY <4>1, <4>2
    <3> QED
      BY <3>1, <3>2 DEF Filled, Empty
  <2> QED
    BY <2>1, <2>2
<1>13. MemoryInv'
  BY <1>8, <1>9, <1>10, <1>11, <1>12 DEF MemoryInv
<1>14. \A a \in DOMAIN mem' : \A i \in DOMAIN mem'[a] : mem'[a][i] \in 0 .. seq
  BY <1>0, <1>7
<1> QED
  BY <1>13, <1>14

\* A header that shows a reading still does after an append: the slot that the append
\* may change is behind the header it started from, which shows the reading too.
LEMMA ShownStays ==
  ASSUME IInv, NEW p \in Ingests, pc[p] = "append", NEW g \in Header, Written(p, g),
         UNCHANGED id, NEW e \in Header, Slice(e), Filled(e),
         NEW n \in Nat, NEW k \in Nat, NEW k0 \in Nat, k0 <= k,
         KeptIn(slice[p], n, k0), KeptIn(e, n, k)
  PROVE  KeptIn(e, n, k)'
<1> SUFFICES ASSUME k < MaxKeep
             PROVE  \E j \in 1 .. e.len : mem'[e.arr][j] = n /\ e.len - j <= k
  BY DEF KeptIn
<1>0. MaxKeep \in Nat
  BY ReadingsAssumption
<1>1. PICK j \in 1 .. e.len : mem[e.arr][j] = n /\ e.len - j <= k
  BY DEF KeptIn
<1>2. PICK i \in 1 .. slice[p].len : mem[slice[p].arr][i] = n
  BY <1>0 DEF KeptIn
<1>3. /\ e.arr \in 1 .. Len(mem) /\ j \in 1 .. Len(mem[e.arr])
      /\ \/ mem'[e.arr][j] = mem[e.arr][j]
         \/ e.arr = slice[p].arr /\ j = slice[p].len + 1
  BY <1>1, Others
<1>4. CASE e.arr = slice[p].arr /\ j = slice[p].len + 1
  <2>1. mem \in Seq(Seq(Nat)) /\ slice[p].len \in Nat
    BY DEF IInv, TypeInv, Header
  <2>2. DOMAIN mem = 1 .. Len(mem) /\ DOMAIN mem[e.arr] = 1 .. Len(mem[e.arr])
        /\ Len(mem[e.arr]) \in Nat
    BY <1>3, <2>1, Arrays
  <2>3. i # j /\ i \in DOMAIN mem[e.arr] /\ j \in DOMAIN mem[e.arr]
    <3>1. j = slice[p].len + 1 /\ j \in 1 .. Len(mem[e.arr])
      BY <1>3, <1>4
    <3>2. i # j /\ i \in 1 .. Len(mem[e.arr])
      <4>1. slice[p].len \in Nat /\ Len(mem[e.arr]) \in Nat
        BY <2>1, <2>2
      <4>2. i \in 1 .. slice[p].len /\ slice[p].len + 1 <= Len(mem[e.arr])
        BY <3>1
      <4> QED
        BY <3>1, <4>1, <4>2
    <3> QED
      BY <2>2, <3>1, <3>2
  <2>4. mem[e.arr][j] # Empty
    BY <1>1 DEF Filled
  <2>5. mem[e.arr][i] = mem[e.arr][j]
    BY <1>1, <1>2, <1>4
  <2>6. Distinct /\ e.arr \in DOMAIN mem
    BY <1>3, <2>2 DEF IInv, MemoryInv
  <2> QED
    BY <2>3, <2>4, <2>5, <2>6 DEF Distinct
<1>5. CASE mem'[e.arr][j] = mem[e.arr][j]
  BY <1>1, <1>5
<1> QED
  BY <1>3, <1>4, <1>5

\* The new header shows it one place further from its end.
LEMMA ShownMoves ==
  ASSUME IInv, NEW p \in Ingests, pc[p] = "append", NEW g \in Header, Written(p, g),
         NEW n \in Nat, NEW k \in Nat, KeptIn(slice[p], n, k)
  PROVE  KeptIn(g, n, k + 1)'
<1> DEFINE h == slice[p]
<1> SUFFICES ASSUME k + 1 < MaxKeep
             PROVE  \E j \in 1 .. g.len : mem'[g.arr][j] = n /\ g.len - j <= k + 1
  BY DEF KeptIn
<1>1. /\ h.len \in Nat /\ g.len \in Nat \ {0} /\ g.len \in {h.len, h.len + 1}
      /\ g.len # h.len + 1 => g.len = MaxKeep
      /\ MaxKeep \in Nat
  BY Slots, ReadingsAssumption
<1>2. PICK j \in 1 .. h.len : mem[h.arr][j] = n /\ h.len - j <= k
  BY <1>1 DEF KeptIn
<1> DEFINE i == j - (h.len + 1 - g.len)
<1>3. i \in 1 .. g.len - 1 /\ g.len - i <= k + 1 /\ i + (h.len + 1 - g.len) = j /\ i \in 1 .. g.len
  <2>1. CASE g.len = h.len + 1
    BY <1>1, <1>2, <2>1
  <2>2. CASE g.len = h.len /\ g.len = MaxKeep
    BY <1>1, <1>2, <2>2
  <2> QED
    BY <1>1, <2>1, <2>2
<1> HIDE DEF i
<1>4. mem'[g.arr][i] = mem[h.arr][i + (h.len + 1 - g.len)]
  BY <1>3 DEF Written
<1> QED
  BY <1>2, <1>3, <1>4

LEMMA AppendLocalStep ==
  ASSUME IInv, NEW p \in Ingests, AppendLocal(p)
  PROVE  IInv'
<1> USE DEF IInv
<1>1. PICK g \in Header : Written(p, g)
  BY AppendWrites
<1>2. /\ pc[p] = "append" /\ goto(p, "store")
      /\ UNCHANGED << byWell, id, query, answer, stored, overlapped, raced >>
      /\ UNCHANGED << seq, recentCache, statsCache >>
  BY DEF AppendLocal, service, ghosts
<1>3. /\ \A r \in (Ingests \cup Reads) \ {p} : pc'[r] = pc[r]
      /\ \A q \in Reads : pc'[q] = pc[q]
      /\ pc' \in [Ingests \cup Reads -> {"idle", "load", "append", "store", "refresh",
                                         "read", "fill", "done", "refused"}]
      /\ pc'[p] = "store"
  BY <1>2, Moved
<1>4. MemoryInv' /\ \A a \in DOMAIN mem' : \A i \in DOMAIN mem'[a] : mem'[a][i] \in 0 .. seq
  BY <1>1, AppendMemory
<1>5. /\ slice' = [slice EXCEPT ![p] = g] /\ slice' \in [Ingests -> Header] /\ slice'[p] = g
      /\ \A o \in Ingests \ {p} : slice'[o] = slice[o]
      /\ mem' \in Seq(Seq(Nat)) /\ g.arr \in 1 .. Len(mem') /\ g.len \in 1 .. Len(mem'[g.arr])
      /\ mem'[g.arr][g.len] = id[p]
  BY <1>1 DEF Written, TypeInv
<1>6. TypeInv'
  <2>1. ASSUME NEW e \in Header, Slice(e), Filled(e) PROVE Slice(e)'
    <3>1. /\ e.arr \in 0 .. Len(mem') /\ (e.arr # 0 => e.len \in 0 .. Len(mem'[e.arr]))
          /\ e.arr = 0 => e.len = 0
      BY <1>1, <1>2, <2>1, Others
    <3>2. e.len <= MaxKeep
      BY <2>1 DEF Slice
    <3>3. e.len \in 0 .. capacity(e)'
      BY <3>1 DEF capacity
    <3> QED
      BY <3>1, <3>2, <3>3 DEF Slice
  <2>2. Slice(byWell)'
    <3>1. byWell \in Header /\ Slice(byWell) /\ Filled(byWell)
      BY DEF TypeInv, TypeOK, MemoryInv
    <3> QED
      BY <1>2, <2>1, <3>1 DEF Slice, capacity
  <2>3. ASSUME NEW o \in Ingests PROVE Slice(slice[o])'
    <3>1. CASE o # p
      <4>1. slice[o] \in Header /\ Slice(slice[o]) /\ Filled(slice[o]) /\ slice'[o] = slice[o]
        BY <1>5, <3>1 DEF TypeInv, TypeOK, MemoryInv
      <4> QED
        BY <2>1, <4>1 DEF Slice, capacity
    <3>2. CASE o = p
      <4>1. g.len <= MaxKeep
        BY <1>1, <1>2, Slots
      <4>2. g.arr \in 0 .. Len(mem') /\ g.arr # 0 /\ g.len \in 0 .. Len(mem'[g.arr])
        BY <1>5
      <4> QED
        BY <1>5, <3>2, <4>1, <4>2 DEF Slice, capacity
    <3> QED
      BY <3>1, <3>2
  <2>4. TypeOK'
    BY <1>2, <1>3, <1>4, <2>2, <2>3 DEF TypeInv, TypeOK
  <2>5. \A q \in Reads : Answered(q)'
    BY <1>2, <1>3 DEF TypeInv, Answered
  <2> QED
    BY <1>2, <1>5, <2>4, <2>5 DEF TypeInv
<1>7. CacheInv'
  BY <1>3 DEF CacheInv
<1>8. KeptInv'
  <2>1. \A i \in DOMAIN stored :
          \E o \in Ingests : pc'[o] \in {"refresh", "done"} /\ stored[i] = id[o]
    BY <1>2, <1>3 DEF KeptInv
  <2>2. ASSUME NEW o \in Ingests PROVE Alone(o)'
    <3>1. CASE o = p
      <4>1. g.len >= 1
        BY <1>1, <1>2, Slots
      <4> QED
        BY <1>2, <1>3, <1>5, <3>1, <4>1 DEF KeptInv, Alone
    <3>2. CASE o # p
      BY <1>2, <1>3, <3>2 DEF KeptInv, Alone
    <3> QED
      BY <3>1, <3>2
  <2>3. ASSUME NEW o \in Ingests \ overlapped, NEW i \in DOMAIN stored, stored[i] = id[o]
        PROVE  Kept(o, i)'
    <3>1. Kept(o, i)
      BY <2>3 DEF KeptInv
    <3>2. PICK k \in Nat : k = Len(stored) - i
      BY DEF TypeInv
    <3>3. KeptIn(slice[p], id[o], k) /\ id[o] \in Nat
      BY <1>2, <3>1, <3>2 DEF Kept, TypeInv, TypeOK
    <3>4. KeptIn(byWell, id[o], k)'
      <4>1. byWell \in Header /\ Slice(byWell) /\ Filled(byWell) /\ KeptIn(byWell, id[o], k)
        BY <3>1, <3>2 DEF Kept, TypeInv, TypeOK, MemoryInv
      <4>2. KeptIn(byWell, id[o], k)' <=>
              (k < MaxKeep => \E j \in 1 .. byWell.len :
                                mem'[byWell.arr][j] = id[o] /\ byWell.len - j <= k)
        BY <1>2 DEF KeptIn
      <4> QED
        BY <1>1, <1>2, <3>3, <4>1, <4>2, ShownStays DEF KeptIn
    <3>5. ASSUME NEW q \in Ingests, pc'[q] = "append" PROVE KeptIn(slice[q], id[o], k)'
      <4>1. q # p /\ slice'[q] = slice[q] /\ pc[q] = "append"
        BY <1>3, <1>5, <3>5
      <4>2. /\ slice[q] \in Header /\ Slice(slice[q]) /\ Filled(slice[q])
            /\ KeptIn(slice[q], id[o], k)
        BY <3>1, <3>2, <4>1 DEF Kept, TypeInv, TypeOK, MemoryInv
      <4> QED
        BY <1>1, <1>2, <3>3, <4>1, <4>2, ShownStays DEF KeptIn
    <3>6. ASSUME NEW q \in Ingests, pc'[q] = "store" PROVE KeptIn(slice[q], id[o], k + 1)'
      <4>1. CASE q # p
        <5>1. slice'[q] = slice[q] /\ pc[q] = "store"
          BY <1>3, <1>5, <3>6, <4>1
        <5>2. /\ slice[q] \in Header /\ Slice(slice[q]) /\ Filled(slice[q])
              /\ KeptIn(slice[q], id[o], k + 1)
          BY <3>1, <3>2, <5>1 DEF Kept, TypeInv, TypeOK, MemoryInv
        <5> QED
          BY <1>1, <1>2, <3>3, <5>1, <5>2, ShownStays DEF KeptIn
      <4>2. CASE q = p
        <5>1. k + 1 < MaxKeep =>
                \E j \in 1 .. g.len : mem'[g.arr][j] = id[o] /\ g.len - j <= k + 1
          BY <1>1, <1>2, <3>3, ShownMoves DEF KeptIn
        <5> QED
          BY <1>2, <1>5, <4>2, <5>1 DEF KeptIn
      <4> QED
        BY <4>1, <4>2
    <3> QED
      BY <1>2, <3>2, <3>4, <3>5, <3>6 DEF Kept
  <2> QED
    BY <1>2, <2>1, <2>2, <2>3 DEF KeptInv
<1> QED
  BY <1>4, <1>6, <1>7, <1>8

------------------------------------------------------------------------------
(* The store and the refresh.                                              *)

LEMMA KeptLonger ==
  ASSUME NEW e \in Header, NEW n, NEW k \in Nat, KeptIn(e, n, k)
  PROVE  KeptIn(e, n, k + 1)
<1> SUFFICES ASSUME k + 1 < MaxKeep
             PROVE  \E j \in 1 .. e.len : mem[e.arr][j] = n /\ e.len - j <= k + 1
  BY DEF KeptIn
<1>1. e.len \in Nat /\ MaxKeep \in Nat
  BY ReadingsAssumption DEF Header
<1>2. PICK j \in 1 .. e.len : mem[e.arr][j] = n /\ e.len - j <= k
  BY <1>1 DEF KeptIn
<1>3. e.len - j <= k + 1
  BY <1>1, <1>2
<1> QED
  BY <1>2, <1>3

LEMMA StoreStep ==
  ASSUME IInv, NEW p \in Ingests, Store(p)
  PROVE  IInv'
<1> USE DEF IInv
<1>1. /\ pc[p] = "store" /\ goto(p, "refresh")
      /\ byWell' = slice[p] /\ stored' = Append(stored, id[p])
      /\ UNCHANGED << mem, id, slice, query, answer, overlapped, raced >>
      /\ UNCHANGED << seq, recentCache, statsCache >>
  BY DEF Store, service
<1>2. /\ \A r \in (Ingests \cup Reads) \ {p} : pc'[r] = pc[r]
      /\ \A q \in Reads : pc'[q] = pc[q]
      /\ pc' \in [Ingests \cup Reads -> {"idle", "load", "append", "store", "refresh",
                                         "read", "fill", "done", "refused"}]
      /\ pc'[p] = "refresh"
  BY <1>1, Moved
<1>3. /\ slice[p] \in Header /\ id[p] \in Nat /\ stored \in Seq(Nat) /\ stored' \in Seq(Nat)
      /\ Len(stored) \in Nat /\ Len(stored') = Len(stored) + 1 /\ stored'[Len(stored) + 1] = id[p]
      /\ \A i \in DOMAIN stored : stored'[i] = stored[i]
      /\ DOMAIN stored' = DOMAIN stored \cup {Len(stored) + 1}
  BY <1>1 DEF TypeInv, TypeOK
<1>4. TypeInv'
  <2>1. Slice(byWell)' /\ \A o \in Ingests : Slice(slice[o])'
    BY <1>1 DEF TypeInv, TypeOK, Slice, capacity
  <2>2. TypeOK'
    BY <1>1, <1>2, <2>1 DEF TypeInv, TypeOK
  <2>3. \A q \in Reads : Answered(q)'
    BY <1>1, <1>2 DEF TypeInv, Answered
  <2> QED
    BY <1>1, <1>3, <2>2, <2>3 DEF TypeInv
<1>5. MemoryInv'
  <2>1. OneNumberEach' /\ Distinct' /\ \A o \in Ingests : Numbered(o)' /\ Unwritten(o)'
    BY <1>1, <1>2 DEF MemoryInv, OneNumberEach, Distinct, Numbered, numbered, Unwritten
  <2>2. Filled(byWell)' /\ \A o \in Ingests : Filled(slice[o])'
    BY <1>1 DEF MemoryInv, Filled
  <2> QED
    BY <2>1, <2>2 DEF MemoryInv
<1>6. CacheInv'
  BY <1>2 DEF CacheInv
<1>7. KeptInv'
  <2>1. ASSUME NEW i \in DOMAIN stored'
        PROVE  \E o \in Ingests : pc'[o] \in {"refresh", "done"} /\ stored'[i] = id[o]
    <3>1. CASE i \in DOMAIN stored
      <4>1. PICK o \in Ingests : pc[o] \in {"refresh", "done"} /\ stored[i] = id[o]
        BY <3>1 DEF KeptInv
      <4> QED
        BY <1>1, <1>2, <1>3, <3>1, <4>1
    <3>2. CASE i = Len(stored) + 1
      BY <1>2, <1>3, <3>2
    <3> QED
      BY <1>3, <3>1, <3>2
  <2>2. \A o \in Ingests : Alone(o)'
    BY <1>1, <1>2 DEF KeptInv, Alone
  <2>3. ASSUME NEW o \in Ingests \ overlapped, NEW i \in DOMAIN stored', stored'[i] = id[o]
        PROVE  Kept(o, i)'
    <3>1. CASE i = Len(stored) + 1
      <4>1. o = p
        BY <1>1, <1>3, <2>3, <3>1 DEF MemoryInv, OneNumberEach, Numbered, numbered
      <4>2. slice[p].len >= 1 /\ mem[slice[p].arr][slice[p].len] = id[p]
        BY <1>1, <2>3, <4>1 DEF KeptInv, Alone
      <4>3. \A q \in Ingests : pc'[q] \notin {"append", "store"}
        BY <1>1, <1>2, <2>3, <4>1 DEF KeptInv, Alone
      <4>4. slice[p].len \in 1 .. slice[p].len /\ slice[p].len - slice[p].len <= 0
        BY <1>3, <4>2 DEF Header
      <4>5. Len(stored') - i = 0
        BY <1>3, <3>1
      <4>6. KeptIn(byWell, id[p], 0)'
        BY <1>1, <4>2, <4>4 DEF KeptIn
      <4> QED
        BY <1>1, <4>1, <4>3, <4>5, <4>6 DEF Kept
    <3>2. CASE i \in DOMAIN stored
      <4>1. PICK k \in Nat : k = Len(stored) - i
        BY <1>3, <3>2
      <4>2. Len(stored') - i = k + 1 /\ Len(stored') - i + 1 = k + 1 + 1
        BY <1>3, <3>2, <4>1
      <4>3. Kept(o, i)
        BY <1>3, <2>3, <3>2, <1>1 DEF KeptInv
      <4>4. KeptIn(slice[p], id[o], k + 1)
        BY <1>1, <4>1, <4>3 DEF Kept
      <4>5. KeptIn(byWell, id[o], k + 1)'
        BY <1>1, <4>4 DEF KeptIn
      <4>6. ASSUME NEW q \in Ingests, pc'[q] = "append" PROVE KeptIn(slice[q], id[o], k + 1)'
        <5>1. pc[q] = "append" /\ slice[q] \in Header
          BY <1>2, <4>6 DEF TypeInv
        <5>2. KeptIn(slice[q], id[o], k + 1)
          BY <4>1, <4>3, <5>1, KeptLonger DEF Kept
        <5> QED
          BY <1>1, <5>2 DEF KeptIn
      <4>7. ASSUME NEW q \in Ingests, pc'[q] = "store" PROVE KeptIn(slice[q], id[o], k + 1 + 1)'
        <5>1. pc[q] = "store" /\ slice[q] \in Header
          BY <1>2, <4>7 DEF TypeInv
        <5>2. KeptIn(slice[q], id[o], k + 1) /\ k + 1 \in Nat
          BY <4>1, <4>3, <5>1 DEF Kept
        <5>3. KeptIn(slice[q], id[o], k + 1 + 1)
          BY <5>1, <5>2, KeptLonger
        <5> QED
          BY <1>1, <5>3 DEF KeptIn
      <4> QED
        BY <4>2, <4>5, <4>6, <4>7 DEF Kept
    <3> QED
      BY <1>3, <3>1, <3>2
  <2> QED
    BY <1>1, <2>1, <2>2, <2>3 DEF KeptInv
<1> QED
  BY <1>4, <1>5, <1>6, <1>7

LEMMA RefreshStep ==
  ASSUME IInv, NEW p \in Ingests, Refresh(p)
  PROVE  IInv'
<1> USE DEF IInv
<1> DEFINE items == lastOf(elements(byWell), CacheN)
<1>1. /\ pc[p] = "refresh" /\ goto(p, "done")
      /\ recentCache' = [recentCache EXCEPT ![WellID] = entry(items, "ingest")]
      /\ statsCache' = [statsCache EXCEPT ![WellID] = absent]
      /\ UNCHANGED << mem, byWell, seq, id, slice, query, answer, stored, overlapped, raced >>
  BY DEF Refresh, latest, ghosts
<1>2. /\ \A r \in (Ingests \cup Reads) \ {p} : pc'[r] = pc[r]
      /\ \A q \in Reads : pc'[q] = pc[q]
      /\ pc' \in [Ingests \cup Reads -> {"idle", "load", "append", "store", "refresh",
                                         "read", "fill", "done", "refused"}]
      /\ pc'[p] = "done"
  BY <1>1, Moved
<1>3. elements(byWell)' = elements(byWell)
  BY <1>1 DEF elements
<1>4. items \in Seq(Nat) /\ Len(items) <= MaxKeep
  <2>1. byWell \in Header /\ Slice(byWell) /\ mem \in Seq(Seq(Nat)) /\ byWell.len <= MaxKeep
    BY DEF TypeInv, TypeOK, Slice
  <2>2. elements(byWell) \in Seq(Nat) /\ Len(elements(byWell)) = byWell.len
    BY <2>1, Elements
  <2> QED
    BY <2>1, <2>2, LastOf, ReadingsAssumption
<1> HIDE DEF items
<1>5. entry(items, "ingest") \in Entry /\ entry(items, "ingest").items = items /\ ~ absent.present
  BY <1>4 DEF entry, Entry, absent
<1>6. /\ recentCache' \in [Spellings -> Entry] /\ recentCache'[WellID].items = items
      /\ \A w \in Spellings : Len(recentCache'[w].items) <= MaxKeep
      /\ statsCache' = [w \in Spellings |-> statsCache'[w]]
      /\ \A w \in Spellings : statsCache'[w].present => statsCache'[w].items \subseteq 0 .. seq
  BY <1>1, <1>4, <1>5, ReadingsAssumption DEF TypeInv, TypeOK
<1>7. TypeInv'
  <2>1. TypeOK'
    BY <1>1, <1>2, <1>6, TypeStays DEF TypeInv, TypeOK
  <2>2. \A q \in Reads : Answered(q)'
    BY <1>1, <1>2 DEF TypeInv, Answered
  <2> QED
    BY <1>1, <1>6, <2>1, <2>2, TypeStays DEF TypeInv
<1>8. MemoryInv'
  BY <1>1, <1>2 DEF MemoryInv, OneNumberEach, Distinct, Filled, Numbered, numbered, Unwritten
<1>9. CacheInv'
  BY <1>3, <1>6 DEF CacheInv, items
<1>10. KeptInv'
  <2>1. ASSUME NEW i \in DOMAIN stored
        PROVE  \E o \in Ingests : pc'[o] \in {"refresh", "done"} /\ stored[i] = id[o]
    BY <1>1, <1>2 DEF KeptInv
  <2>2. \A o \in Ingests : Alone(o)'
    BY <1>1, <1>2 DEF KeptInv, Alone
  <2>3. ASSUME NEW o \in Ingests \ overlapped, NEW i \in DOMAIN stored, stored[i] = id[o]
        PROVE  Kept(o, i)'
    <3>1. Kept(o, i)
      BY <2>3 DEF KeptInv
    <3> QED
      BY <1>1, <1>2, <3>1 DEF Kept, KeptIn
  <2> QED
    BY <1>1, <2>1, <2>2, <2>3 DEF KeptInv
<1> QED
  BY <1>7, <1>8, <1>9, <1>10

------------------------------------------------------------------------------
(* The theorems.                                                           *)

LEMMA StepIInv == IInv /\ [Next]_vars => IInv'
<1> SUFFICES ASSUME IInv, [Next]_vars PROVE IInv'
  OBVIOUS
<1>1. CASE Race
  <2>1. /\ raced' = TRUE /\ UNCHANGED << mem, byWell, pc, id, slice, query, answer, stored, overlapped >>
        /\ UNCHANGED << seq, recentCache, statsCache >>
    BY <1>1 DEF Race, service, ghosts
  <2>2. TypeInv'
    BY <2>1 DEF IInv, TypeInv, TypeOK, Slice, capacity, Answered
  <2>3. MemoryInv' /\ KeptInv' /\ elements(byWell)' = elements(byWell)
    BY <2>1, MemoryStays
  <2>4. CacheInv'
    BY <2>1, <2>3 DEF IInv, CacheInv
  <2> QED
    BY <2>2, <2>3, <2>4 DEF IInv
<1>2. CASE \E p \in Ingests : Ingest(p) \/ Load(p) \/ AppendLocal(p) \/ Store(p) \/ Refresh(p)
  BY <1>2, IngestStep, LoadStep, AppendLocalStep, StoreStep, RefreshStep
<1>3. CASE \E q \in Reads : Look(q) \/ ReadStore(q) \/ Fill(q)
  BY <1>3, LookStep, ReadStoreStep, FillStep
<1>4. CASE UNCHANGED vars
  <2>1. /\ UNCHANGED << mem, byWell, pc, id, slice, query, answer, stored, overlapped, raced >>
        /\ UNCHANGED << seq, recentCache, statsCache >>
    BY <1>4 DEF vars, service, ghosts
  <2>2. TypeInv'
    BY <2>1 DEF IInv, TypeInv, TypeOK, Slice, capacity, Answered
  <2>3. MemoryInv' /\ KeptInv' /\ elements(byWell)' = elements(byWell)
    BY <2>1, MemoryStays
  <2>4. CacheInv'
    BY <2>1, <2>3 DEF IInv, CacheInv
  <2> QED
    BY <2>2, <2>3, <2>4 DEF IInv
<1> QED
  BY <1>1, <1>2, <1>3, <1>4 DEF Next

LEMMA Inductive == Spec => []IInv
BY InitIInv, StepIInv, PTL DEF Spec

\* Every header, in the store or in an Append's hands, stays within its array and the
\* limit, and every number in the memory was drawn.
THEOREM TypeCorrect == Spec => []TypeOK
<1>1. IInv => TypeOK
  BY DEF IInv, TypeInv
<1> QED
  BY <1>1, Inductive, PTL

\* However many Appends overlap and whatever room they find in the arrays, the store
\* shows no empty slot and no reading twice.
THEOREM NoSlotTwice == Spec => []StoredOnce
<1>1. IInv => StoredOnce
  <2> SUFFICES ASSUME IInv PROVE StoredOnce
    OBVIOUS
  <2>1. byWell \in Header /\ Slice(byWell) /\ mem \in Seq(Seq(Nat)) /\ Filled(byWell) /\ Distinct
    BY DEF IInv, TypeInv, TypeOK, MemoryInv
  <2>2. \A i \in 1 .. byWell.len :
          /\ elements(byWell)[i] = mem[byWell.arr][i] /\ mem[byWell.arr][i] # Empty
          /\ byWell.arr \in DOMAIN mem /\ i \in DOMAIN mem[byWell.arr]
    <3> SUFFICES ASSUME NEW i \in 1 .. byWell.len
                 PROVE  /\ elements(byWell)[i] = mem[byWell.arr][i] /\ mem[byWell.arr][i] # Empty
                        /\ byWell.arr \in DOMAIN mem /\ i \in DOMAIN mem[byWell.arr]
      OBVIOUS
    <3>1. elements(byWell)[i] = mem[byWell.arr][i] /\ mem[byWell.arr][i] # Empty
      BY <2>1, Elements DEF Filled
    <3>2. byWell.arr \in DOMAIN mem /\ i \in DOMAIN mem[byWell.arr]
      BY <2>1 DEF Slice, capacity, Header
    <3> QED
      BY <3>1, <3>2
  <2> QED
    BY <2>1, <2>2 DEF StoredOnce, Distinct
<1> QED
  BY <1>1, Inductive, PTL

\* A reading whose Append met no other one is in the store until MaxKeep later stores
\* have pushed it out, even if those overlap each other.
THEOREM AloneStays == Spec => []AloneIsKept
<1>1. IInv => AloneIsKept
  <2> SUFFICES ASSUME IInv, NEW p \in Ingests \ overlapped, NEW i \in DOMAIN stored,
                      stored[i] = id[p], Len(stored) - i < MaxKeep
               PROVE  Contains(elements(byWell), id[p])
    BY DEF AloneIsKept
  <2>1. byWell \in Header /\ Slice(byWell) /\ mem \in Seq(Seq(Nat))
    BY DEF IInv, TypeInv, TypeOK
  <2>2. KeptIn(byWell, id[p], Len(stored) - i)
    BY DEF IInv, KeptInv, Kept
  <2>3. PICK j \in 1 .. byWell.len : mem[byWell.arr][j] = id[p]
    BY <2>2 DEF KeptIn
  <2>4. elements(byWell)[j] = id[p] /\ j \in 1 .. Len(elements(byWell))
    BY <2>1, <2>3, Elements
  <2> QED
    BY <2>4 DEF Contains
<1> QED
  BY <1>1, Inductive, PTL

\* When every Ingest has returned, the list that the last refresh left in the cache is
\* the one the store answers with, in whatever order the Ingests stored and refreshed.
THEOREM IngestLeavesFresh == Spec => []IngestCacheIsFresh
<1>1. IInv => IngestCacheIsFresh
  BY DEF IInv, CacheInv, IngestCacheIsFresh
<1> QED
  BY <1>1, Inductive, PTL

==============================================================================
