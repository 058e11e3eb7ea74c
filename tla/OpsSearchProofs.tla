--------------------------- MODULE OpsSearchProofs ---------------------------
(***************************************************************************)
(* Theorems of OpsSearch!Spec, for any records, stamps, pages and sizes.   *)
(*                                                                         *)
(* A record that still waits to be shown is at or behind the place where   *)
(* the next page begins (Reached).  Nothing can bring it forward: a record *)
(* that is created can only come before it or after it, and one that is    *)
(* updated in a later second than before goes to the front, because the    *)
(* rank of a stamp stays within its second (KeyGrows).                     *)
(***************************************************************************)
EXTENDS OpsSearch, FiniteSetTheorems, TLAPS

size == defaultSize(query.size)

\* The place in the list where the next page begins, if it is an int.
first == (defaultPage(page) - 1) * size

total == Cardinality(filtered)

\* The records that come before one of the list.
Ahead(id) == {other \in filtered : before(other, id)}

fromStart == defaultPage(query.page) = 1 /\ orderly

Reached ==
  walking /\ fromStart =>
    /\ page >= 2 /\ first <= MaxInt
    /\ \A id \in waiting \ shown : id \in filtered /\ index(id) >= first

IInv == TypeOK /\ Reached /\ NothingMissed

------------------------------------------------------------------------------
(* Arithmetic.                                                             *)

LEMMA NextMultiple ==
  ASSUME NEW a \in Nat, NEW b \in Nat, NEW n \in Nat \ {0}, a < b
  PROVE  n * a + n <= n * b
<1> DEFINE rest == b - a - 1
<1>1. rest \in Nat /\ b = a + 1 + rest
  OBVIOUS
<1>2. n * rest \in Nat
  BY <1>1
<1>3. n * (a + 1 + rest) = n * a + n + n * rest
  BY <1>1
<1> HIDE DEF rest
<1> QED
  BY <1>1, <1>2, <1>3

LEMMA Division ==
  ASSUME NEW t \in Nat, NEW n \in Nat \ {0}
  PROVE  t % n \in 0 .. n - 1 /\ t = n * (t \div n) + (t % n) /\ t \div n \in Nat
<1>1. t % n \in 0 .. n - 1
  OBVIOUS
<1>2. t = n * (t \div n) + (t % n)
  OBVIOUS
<1>3. t \div n \in Nat
  BY <1>1, <1>2
<1> QED
  BY <1>1, <1>2, <1>3

\* A stamp of a later second is a later string.
LEMMA KeyGrows ==
  ASSUME NEW s \in Nat, NEW t \in Nat, s \div Second < t \div Second
  PROVE  newer(t, s) /\ ~ newer(s, t)
<1> DEFINE a == s \div Second
           b == t \div Second
<1>1. /\ a \in Nat /\ s = Second * a + (s % Second) /\ s % Second \in 0 .. Second - 1
      /\ b \in Nat /\ t = Second * b + (t % Second) /\ t % Second \in 0 .. Second - 1
  BY Division, OpsSearchAssumption
<1>2. Second * a + Second <= Second * b
  BY <1>1, NextMultiple, OpsSearchAssumption
<1>3. Second * a \in Nat /\ Second * b \in Nat
  BY <1>1, OpsSearchAssumption
<1> HIDE DEF a, b
<1> QED
  BY <1>1, <1>2, <1>3, OpsSearchAssumption DEF newer, stampKey

LEMMA KeyType == ASSUME NEW t \in Nat PROVE stampKey(t) \in Nat
BY OpsSearchAssumption DEF stampKey

\* Where nothing overflows the int is the number.
LEMMA NotWrapped == ASSUME NEW n \in 0 .. MaxInt PROVE wrapped(n) = n
<1>1. (n + MaxInt + 1) % (2 * (MaxInt + 1)) = n + MaxInt + 1
  BY OpsSearchAssumption
<1> QED
  BY <1>1, OpsSearchAssumption DEF wrapped

------------------------------------------------------------------------------
(* The list.                                                               *)

LEMMA SizeType == ASSUME TypeOK PROVE size \in Nat \ {0}
BY OpsSearchAssumption DEF TypeOK, Query, size, defaultSize

ListOK ==
  /\ IsFiniteSet(filtered) /\ total \in 0 .. MaxInt
  /\ \A id \in filtered : IsFiniteSet(Ahead(id)) /\ index(id) \in 0 .. total - 1

LEMMA ListTypes == TypeOK => ListOK
<1> SUFFICES ASSUME TypeOK PROVE ListOK
  OBVIOUS
<1>1. filtered \in SUBSET Ids
  BY DEF TypeOK, filtered
<1>2. IsFiniteSet(filtered) /\ total <= Cardinality(Ids)
  BY <1>1, FS_Subset, OpsSearchAssumption DEF total
<1>3. total \in 0 .. MaxInt
  BY <1>2, FS_CardinalityType, OpsSearchAssumption DEF total
<1>4. ASSUME NEW id \in filtered
      PROVE  IsFiniteSet(Ahead(id)) /\ index(id) \in 0 .. total - 1
  <2>1. items[id].updatedAt \in Nat
    BY DEF TypeOK, OpsRecord, filtered
  <2>2. id \notin Ahead(id)
    BY <2>1, KeyType, <1>1, OpsSearchAssumption DEF Ahead, before, newer, weight
  <2>3. Ahead(id) \in SUBSET filtered
    BY DEF Ahead
  <2>4. /\ IsFiniteSet(Ahead(id)) /\ Cardinality(Ahead(id)) <= total
        /\ Cardinality(Ahead(id)) # total
    BY <1>2, <2>2, <2>3, FS_Subset DEF total
  <2>5. Cardinality(Ahead(id)) \in Nat
    BY <2>4, FS_CardinalityType
  <2>6. index(id) = Cardinality(Ahead(id))
    BY DEF index, Ahead
  <2> QED
    BY <1>3, <2>4, <2>5, <2>6
<1> QED
  BY <1>2, <1>3, <1>4 DEF ListOK

LEMMA NextListTypes == TypeOK' => ListOK'
BY ListTypes, PTL

\* The bounds of a page whose beginning is an int.
LEMMA PageBounds ==
  ASSUME TypeOK, first <= MaxInt
  PROVE  /\ first \in 0 .. MaxInt
         /\ start(total, defaultPage(page), size) = least(first, total)
         /\ end(total, defaultPage(page), size) = least(least(first, total) + size, total)
<1>1. defaultPage(page) - 1 \in Nat
  BY OpsSearchAssumption DEF TypeOK, defaultPage
<1>2. first \in 0 .. MaxInt
  BY <1>1, SizeType, OpsSearchAssumption DEF first
<1>3. wrapped(first) = first
  BY <1>2, NotWrapped
<1> QED
  BY <1>2, <1>3 DEF start, end, first

------------------------------------------------------------------------------
(* The invariant.                                                          *)

LEMMA InitIInv == Init => IInv
<1> SUFFICES ASSUME Init PROVE IInv
  OBVIOUS
<1>1. Query # {}
  <2>1. PICK p \in Pages, n \in Sizes : TRUE
    BY OpsSearchAssumption
  <2>2. [statuses |-> Statuses, priorities |-> Priorities, page |-> p, size |-> n] \in Query
    BY DEF Query
  <2> QED
    BY <2>2
<1>2. query \in Query
  BY <1>1 DEF Init
<1>3. TypeOK
  BY <1>2, OpsSearchAssumption DEF Init, TypeOK, EmptyMap, Query
<1> QED
  BY <1>3 DEF Init, IInv, Reached, NothingMissed, walking

\* What Search does, whatever the bounds are.
LEMMA SearchStep ==
  ASSUME TypeOK, Search,
         NEW from, from = start(total, defaultPage(page), size),
         NEW to, to = end(total, defaultPage(page), size)
  PROVE  \/ from < 0 /\ pc' = "panic" /\ UNCHANGED << page, shown >>
         \/ /\ from >= 0
            /\ \A id : id \in shown' <=>
                 id \in shown \/ (id \in filtered /\ index(id) \in from .. to - 1)
            /\ LET next == defaultPage(page) + 1
               IN  /\ page' = IF next <= MaxInt THEN next ELSE page
                   /\ pc' = IF to < total /\ next <= MaxInt THEN "asks" ELSE "done"
BY DEF Search, total, size

LEMMA TypeStep ==
  ASSUME TypeOK, Next
  PROVE  TypeOK'
<1> USE DEF TypeOK, clientVars
<1>1. CASE Tick
  BY <1>1 DEF Tick
<1>2. CASE Ask
  BY <1>2, OpsSearchAssumption DEF Ask, Query
<1>3. CASE Search
  <2>1. page' \in -MaxInt - 1 .. MaxInt /\ pc' \in {"asks", "done", "panic"}
    BY <1>3, SearchStep, OpsSearchAssumption DEF defaultPage
  <2>2. filtered \subseteq Ids
    BY DEF filtered
  <2>3. shown' \subseteq Ids
    BY <1>3, <2>2, SearchStep
  <2>4. waiting' \subseteq Ids
    BY <1>3, <2>2 DEF Search
  <2> QED
    BY <1>3, <2>1, <2>3, <2>4 DEF Search
<1>4. ASSUME NEW id \in Ids, Create(id)
      PROVE  TypeOK'
  <2>1. PICK priority \in Priorities :
          drafts' = with(drafts, id, [priority |-> priority, status |-> "queued", updatedAt |-> now])
    BY <1>4 DEF Create
  <2>2. [priority |-> priority, status |-> "queued", updatedAt |-> now] \in OpsRecord
    BY OpsSearchAssumption DEF OpsRecord
  <2> QED
    BY <1>4, <2>1, <2>2 DEF Create, with
<1>5. ASSUME NEW id \in Ids, Put(id)
      PROVE  TypeOK'
  BY <1>5 DEF Put, with
<1>6. ASSUME NEW id \in Ids, Update(id)
      PROVE  TypeOK'
  <2>1. PICK status \in Statuses :
          items' = [items EXCEPT ![id].status = status, ![id].updatedAt = now]
    BY <1>6 DEF Update
  <2>2. /\ DOMAIN items' = DOMAIN items
        /\ \A i \in DOMAIN items : items'[i] \in OpsRecord
    BY <2>1 DEF OpsRecord
  <2>3. orderly' \in BOOLEAN
    BY <1>6 DEF Update
  <2> QED
    BY <1>6, <2>2, <2>3 DEF Update
<1> QED
  BY <1>1, <1>2, <1>3, <1>4, <1>5, <1>6 DEF Next

\* A record before which none disappears does not move forward in the list.
LEMMA MovesBack ==
  ASSUME TypeOK, TypeOK', NEW id \in filtered, id \in filtered',
         Ahead(id) \subseteq Ahead(id)'
  PROVE  index(id) <= index(id)'
<1>1. /\ index(id) = Cardinality(Ahead(id)) /\ IsFiniteSet(Ahead(id))
      /\ Cardinality(Ahead(id)) \in Nat
  BY ListTypes DEF ListOK, index, Ahead
<1>2. index(id)' = Cardinality(Ahead(id)') /\ IsFiniteSet(Ahead(id)')
  BY NextListTypes DEF ListOK, index, Ahead
<1> QED
  BY <1>1, <1>2, FS_Subset


\* A page that is shown: what waits on it is shown, what waits behind it stays there.
LEMMA SearchReaches ==
  ASSUME IInv, Search
  PROVE  Reached' /\ NothingMissed'
<1> DEFINE from == least(first, total)
           to == least(from + size, total)
           next == defaultPage(page) + 1
<1> USE DEF IInv
<1>1. SUFFICES ASSUME fromStart PROVE Reached' /\ NothingMissed'
  BY DEF Search, Reached, NothingMissed, fromStart
<1>2. first <= MaxInt
  <2>1. CASE page = query.page
    BY <1>1, <2>1, SizeType, OpsSearchAssumption DEF fromStart, first
  <2>2. CASE page # query.page
    BY <1>1, <2>2 DEF Reached, walking, Search
  <2> QED
    BY <2>1, <2>2
<1>3. /\ first \in 0 .. MaxInt
      /\ start(total, defaultPage(page), size) = from /\ end(total, defaultPage(page), size) = to
  BY <1>2, PageBounds
<1>4. total \in 0 .. MaxInt /\ size \in Nat \ {0}
  BY ListTypes, SizeType DEF ListOK
<1>5. /\ from >= 0 /\ pc' # "panic"
      /\ \A id : id \in shown' <=>
           id \in shown \/ (id \in filtered /\ index(id) \in from .. to - 1)
      /\ page' = (IF next <= MaxInt THEN next ELSE page)
      /\ pc' = (IF to < total /\ next <= MaxInt THEN "asks" ELSE "done")
  <2>1. from \in Nat
    BY <1>3, <1>4 DEF least
  <2> HIDE DEF from, to, next
  <2>2. \/ from < 0 /\ pc' = "panic" /\ UNCHANGED << page, shown >>
        \/ /\ from >= 0
           /\ \A id : id \in shown' <=>
                id \in shown \/ (id \in filtered /\ index(id) \in from .. to - 1)
           /\ page' = IF next <= MaxInt THEN next ELSE page
           /\ pc' = IF to < total /\ next <= MaxInt THEN "asks" ELSE "done"
    BY <1>3, SearchStep DEF next
  <2>3. (IF to < total /\ next <= MaxInt THEN "asks" ELSE "done") # "panic"
    OBVIOUS
  <2> QED
    BY <2>1, <2>2, <2>3
<1>6. ASSUME NEW id \in waiting' \ shown'
      PROVE  id \in filtered /\ index(id) >= first /\ index(id) >= to /\ index(id) < total
  <2>1. id \in filtered /\ index(id) >= first
    <3>1. CASE page = query.page
      <4>1. id \in filtered
        BY <1>6, <3>1 DEF Search
      <4>2. first = 0
        BY <1>1, <3>1, SizeType DEF fromStart, first
      <4> QED
        BY <4>1, <4>2, ListTypes DEF ListOK
    <3>2. CASE page # query.page
      BY <1>1, <1>5, <1>6, <3>2 DEF Search, Reached, walking
    <3> QED
      BY <3>1, <3>2
  <2>2. index(id) \in 0 .. total - 1
    BY <2>1, ListTypes DEF ListOK
  <2>3. index(id) \notin from .. to - 1
    BY <1>5, <1>6, <2>1
  <2>4. index(id) >= from
    BY <2>1, <2>2, <1>3, <1>4 DEF least
  <2>5. index(id) >= to
    BY <2>2, <2>3, <2>4, <1>3, <1>4 DEF least
  <2> HIDE DEF to
  <2> QED
    BY <2>1, <2>2, <2>5, <1>4
<1>7. \* A page that is not the last one ends where the next begins.
      to < total => to = first + size /\ to < MaxInt /\ next <= MaxInt
  <2>1. SUFFICES ASSUME to < total PROVE to = first + size /\ to < MaxInt /\ next <= MaxInt
    OBVIOUS
  <2>2. to = first + size /\ to < MaxInt
    BY <2>1, <1>3, <1>4, OpsSearchAssumption DEF least
  <2>3. defaultPage(page) \in Nat \ {0}
    BY OpsSearchAssumption DEF TypeOK, defaultPage
  <2>4. defaultPage(page) <= first + size
    <3> DEFINE p == defaultPage(page) - 1
               n == size - 1
    <3>1. p \in Nat /\ n \in Nat /\ first = p * (n + 1)
      BY <1>4, <2>3 DEF first
    <3>2. p * n \in Nat /\ p * (n + 1) = p * n + p
      BY <3>1
    <3> QED
      BY <3>1, <3>2, <1>4, <2>3
  <2> HIDE DEF to
  <2> QED
    BY <2>2, <2>3, <2>4, <1>3, <1>4, OpsSearchAssumption
<1>8. ASSUME pc' = "asks"
      PROVE  page' = next /\ next >= 2 /\ first' = first + size /\ first' <= MaxInt
  <2>1. to < total /\ page' = next
    BY <1>5, <1>8
  <2>2. next >= 2 /\ defaultPage(page') = next /\ defaultPage(page) \in Int
    BY <2>1, OpsSearchAssumption DEF TypeOK, defaultPage
  <2>3. size' = size
    BY DEF Search, size
  <2>4. first' = (next - 1) * size
    BY <2>1, <2>2, <2>3 DEF first
  <2>5. first' = first + size
    BY <2>2, <2>4, <1>4 DEF first
  <2> QED
    BY <2>1, <2>2, <2>5, <1>7, <1>3, <1>4, OpsSearchAssumption
<1>9. UNCHANGED << items, query, orderly >> /\ filtered' = filtered
      /\ \A id : index(id)' = index(id)
  BY DEF Search, filtered, opsMatch, index, before
<1>10. Reached'
  <2>1. SUFFICES ASSUME pc' = "asks"
                 PROVE  /\ page' >= 2 /\ first' <= MaxInt
                        /\ \A id \in waiting' \ shown' : id \in filtered' /\ index(id)' >= first'
    BY DEF Reached, walking
  <2>2. to < total
    BY <1>5, <2>1
  <2> HIDE DEF from, to, next
  <2> QED
    BY <1>6, <1>7, <1>8, <1>9, <2>1, <2>2
<1>11. NothingMissed'
  <2>1. SUFFICES ASSUME pc' = "done", NEW id \in waiting' \ shown' PROVE FALSE
    BY DEF NothingMissed
  <2>2. index(id) >= to /\ index(id) < total /\ index(id) \in Int
    BY <1>6, <2>1, ListTypes DEF ListOK
  <2>3. ~ (to < total)
    BY <1>5, <1>7, <2>1
  <2>4. to \in Int /\ total \in Int
    BY <1>3, <1>4 DEF least
  <2> HIDE DEF from, to
  <2> QED
    BY <2>2, <2>3, <2>4
<1> QED
  BY <1>10, <1>11

\* What waits does not move when another record comes or goes forward.
LEMMA OthersStep ==
  ASSUME IInv, TypeOK', pc = "asks", UNCHANGED << query, page, pc, shown >>,
         waiting' \subseteq waiting, orderly' => orderly,
         walking /\ fromStart' =>
           \A id \in waiting' \cap filtered :
             id \in filtered' /\ Ahead(id) \subseteq Ahead(id)'
  PROVE  Reached' /\ NothingMissed'
<1>1. NothingMissed'
  BY DEF NothingMissed
<1>2. ASSUME walking, fromStart'
      PROVE  /\ page >= 2 /\ first <= MaxInt
             /\ \A id \in waiting' \ shown : id \in filtered' /\ index(id)' >= first
  <2>1. fromStart
    BY <1>2 DEF fromStart
  <2>2. /\ page >= 2 /\ first <= MaxInt
        /\ \A id \in waiting \ shown : id \in filtered /\ index(id) >= first
    BY <1>2, <2>1 DEF IInv, Reached
  <2>3. ASSUME NEW id \in waiting' \ shown
        PROVE  id \in filtered' /\ index(id)' >= first
    <3>1. id \in filtered /\ index(id) >= first
      BY <2>2
    <3>2. id \in filtered' /\ Ahead(id) \subseteq Ahead(id)'
      BY <1>2, <3>1
    <3>3. index(id) <= index(id)'
      BY <3>1, <3>2, MovesBack DEF IInv
    <3>4. index(id) \in Int /\ index(id)' \in Int /\ first \in Int
      <4>1. index(id) \in Int /\ index(id)' \in Int
        BY <3>1, <3>2, ListTypes, NextListTypes DEF IInv, ListOK
      <4>2. first \in Int
        BY <2>2, PageBounds DEF IInv
      <4> QED
        BY <4>1, <4>2
    <3> QED
      BY <3>1, <3>2, <3>3, <3>4
  <2> QED
    BY <2>2, <2>3
<1>3. first' = first /\ walking' = walking
  BY DEF first, size, walking
<1> QED
  BY <1>1, <1>2, <1>3 DEF Reached

LEMMA StepIInv ==
  ASSUME IInv, [Next]_vars
  PROVE  IInv'
<1> USE DEF IInv, TypeOK
<1>1. TypeOK'
  BY TypeStep DEF vars, clientVars
<1>2. ASSUME UNCHANGED << items, clientVars >>
      PROVE  Reached' /\ NothingMissed'
  BY <1>2 DEF clientVars, Reached, NothingMissed, walking, fromStart, first, size, filtered,
              opsMatch, index, before
<1>3. ASSUME Ask
      PROVE  Reached' /\ NothingMissed'
  BY <1>3 DEF Ask, Reached, NothingMissed, walking
<1>4. ASSUME Search
      PROVE  Reached' /\ NothingMissed'
  BY <1>4, SearchReaches
<1>5. ASSUME NEW id \in Ids, Put(id), pc = "asks"
      PROVE  Reached' /\ NothingMissed'
  <2>1. DOMAIN items \subseteq DOMAIN items' /\ \A i \in DOMAIN items : items'[i] = items[i]
    BY <1>5 DEF Put, with
  <2>2. \A i \in filtered : i \in filtered' /\ Ahead(i) \subseteq Ahead(i)'
    BY <1>5, <2>1 DEF Put, clientVars, filtered, opsMatch, Ahead, before
  <2> QED
    BY <1>1, <1>5, <2>2, OthersStep DEF Put, clientVars
<1>6. ASSUME NEW id \in Ids, Put(id) \/ Update(id), pc # "asks"
      PROVE  Reached' /\ NothingMissed'
  BY <1>6 DEF Put, Update, clientVars, Reached, NothingMissed, walking
<1>7. ASSUME NEW id \in Ids, Update(id), pc = "asks"
      PROVE  Reached' /\ NothingMissed'
  <2>1. /\ DOMAIN items' = DOMAIN items /\ id \in DOMAIN items
        /\ \A i \in DOMAIN items \ {id} : items'[i] = items[i]
        /\ items'[id].priority = items[id].priority /\ items'[id].updatedAt = now
    BY <1>7 DEF Update, OpsRecord
  <2>2. ASSUME walking, fromStart', NEW i \in waiting' \cap filtered
        PROVE  i \in filtered' /\ Ahead(i) \subseteq Ahead(i)'
    <3>1. i # id /\ items'[i] = items[i] /\ query' = query
      BY <1>7, <2>1, <2>2 DEF Update, filtered
    <3>2. i \in filtered'
      BY <2>1, <3>1 DEF filtered, opsMatch
    <3>3. ASSUME NEW a \in Ahead(i), a # id
          PROVE  a \in Ahead(i)'
      BY <2>1, <3>1, <3>3 DEF Ahead, filtered, opsMatch, before
    <3>4. ASSUME id \in Ahead(i)
          PROVE  id \in Ahead(i)'
      <4>1. id \in filtered /\ opsMatch(items'[id]) /\ later(id)
        BY <1>7, <2>2, <3>4 DEF Update, Ahead, fromStart
      <4>2. id \in filtered'
        BY <2>1, <3>1, <4>1 DEF filtered, opsMatch
      <4>3. /\ newer(now, items[id].updatedAt) /\ ~ newer(items[id].updatedAt, now)
        BY <2>1, <4>1, KeyGrows DEF later, OpsRecord
      <4>4. before(id, i)'
        <5>1. /\ stampKey(now) \in Nat /\ stampKey(items[id].updatedAt) \in Nat
              /\ stampKey(items[i].updatedAt) \in Nat
          BY <2>1, <2>2, KeyType DEF OpsRecord, filtered
        <5>2. before(id, i)
          BY <3>4 DEF Ahead
        <5>3. newer(items[id].updatedAt, items[i].updatedAt)
                \/ ~ newer(items[i].updatedAt, items[id].updatedAt)
              => newer(now, items[i].updatedAt)
          BY <4>3, <5>1 DEF newer
        <5> QED
          BY <2>1, <3>1, <5>1, <5>2, <5>3 DEF before, weight, newer
      <4> QED
        BY <4>2, <4>4 DEF Ahead
    <3> QED
      BY <3>2, <3>3, <3>4
  <2> QED
    BY <1>1, <1>7, <2>2, OthersStep DEF Update
<1>8. CASE Tick \/ \E id \in Ids : Create(id)
  BY <1>1, <1>2, <1>8 DEF Tick, Create
<1>9. CASE UNCHANGED vars
  BY <1>1, <1>2, <1>9 DEF vars, clientVars
<1> QED
  BY <1>1, <1>3, <1>4, <1>5, <1>6, <1>7, <1>8, <1>9 DEF Next

------------------------------------------------------------------------------

\* A client that walks through all pages misses no record that kept matching and that
\* nobody touched, for any number of records, any page size and any clock.
THEOREM WalkIsComplete == Spec => []NothingMissed
<1>1. IInv => NothingMissed
  BY DEF IInv
<1> QED
  BY InitIInv, StepIInv, <1>1, PTL DEF Spec

\* Every variable always has its type.
THEOREM TypeCorrect == Spec => []TypeOK
<1>1. IInv => TypeOK
  BY DEF IInv
<1> QED
  BY InitIInv, StepIInv, <1>1, PTL DEF Spec

\* opsBounds gives the page that was asked for and never a bound out of range, as long
\* as the product of page and size is an int.
THEOREM PagesAreExact == Spec => PageAsAsked
<1> DEFINE asked == LET n == defaultSize(query.size)
                        f == (defaultPage(page) - 1) * n
                    IN  f <= MaxInt =>
                          /\ pc' # "panic"
                          /\ shown' = shown \cup {id \in filtered : index(id) \in f .. f + n - 1}
<1>1. ASSUME TypeOK, Next, pc = "asks", pc' # "asks" \/ page' # page
      PROVE  asked
  <2>1. Search
    BY <1>1 DEF Next, Tick, Ask, Create, Put, Update, clientVars
  <2>2. SUFFICES ASSUME first <= MaxInt
                 PROVE  /\ pc' # "panic"
                        /\ shown' = shown \cup
                             {id \in filtered : index(id) \in first .. first + size - 1}
    BY DEF first, size
  <2> DEFINE from == least(first, total)
             to == least(from + size, total)
  <2>3. /\ first \in 0 .. MaxInt
        /\ start(total, defaultPage(page), size) = from /\ end(total, defaultPage(page), size) = to
    BY <1>1, <2>2, PageBounds
  <2>4. total \in 0 .. MaxInt /\ size \in Nat \ {0}
    BY <1>1, ListTypes, SizeType DEF ListOK
  <2>5. \A n \in 0 .. total - 1 : n \in from .. to - 1 <=> n \in first .. first + size - 1
    BY <2>3, <2>4, OpsSearchAssumption DEF least
  <2>6. from \in Nat
    BY <2>3, <2>4 DEF least
  <2> HIDE DEF from, to
  <2>7. /\ pc' # "panic"
        /\ \A id : id \in shown' <=>
             id \in shown \/ (id \in filtered /\ index(id) \in from .. to - 1)
    BY <1>1, <2>1, <2>3, <2>6, SearchStep
  <2>8. \A id \in filtered : index(id) \in 0 .. total - 1
    BY <1>1, ListTypes DEF ListOK
  <2> QED
    BY <2>5, <2>7, <2>8
<1> HIDE DEF asked
<1>2. TypeOK /\ [Next]_vars => [pc = "asks" /\ (pc' # "asks" \/ page' # page) => asked]_vars
  BY <1>1
<1> USE DEF asked
<1> QED
  BY TypeCorrect, <1>2, PTL DEF Spec, PageAsAsked

==============================================================================
