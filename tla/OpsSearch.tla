------------------------------ MODULE OpsSearch ------------------------------
(***************************************************************************)
(* A client walks through the pages of OpsService.Search (ops_service.go,  *)
(* ops_query.go, sortOpsRecords in ops_model.go) while records are created *)
(* and updated: every page is cut from the list as it is then.             *)
(*                                                                         *)
(* The list is sorted by priority and then by the time stamp of the last   *)
(* update, both descending, and by id where these are equal, because List  *)
(* sorts by id first and the second sort is stable.  The stamps are        *)
(* compared as strings, and RFC3339Nano drops the zeros at the end of the  *)
(* fraction.  The page's bounds are computed in machine integers.          *)
(*                                                                         *)
(* Search holds the store's lock while it copies the records and works on  *)
(* the copy, so it is one action.  A definition named Bug... is a          *)
(* deliberately wrong variant of one that follows.                         *)
(***************************************************************************)
EXTENDS Integers, FiniteSets

CONSTANTS
  Ids,          \* the records that may be created
  Priorities,   \* OpsPriority
  Statuses,     \* OpsStatus
  Pages, Sizes, \* what a request may give for page and page_size
  DefaultSize,  \* 25
  MaxSize,      \* 200
  MaxInt,       \* the largest int
  Second,       \* the clock's ticks in a second; the fraction has one digit
  MaxTime       \* the clock stops here (a bound for TLC)

ASSUME OpsSearchAssumption ==
  /\ Ids \subseteq Nat /\ "queued" \in Statuses /\ Pages # {} /\ Sizes # {}
  /\ DefaultSize \in Nat \ {0} /\ MaxSize \in Nat /\ DefaultSize <= MaxSize
  /\ MaxInt \in Nat /\ MaxSize <= MaxInt
  /\ IsFiniteSet(Ids) /\ Cardinality(Ids) <= MaxInt     \* len is an int
  /\ Pages \subseteq -MaxInt - 1 .. MaxInt /\ Sizes \subseteq -MaxInt - 1 .. MaxInt
  /\ Second \in Nat \ {0} /\ MaxTime \in Nat

VARIABLES
  drafts,       \* records that Create has stamped and not yet put
  items,        \* OpsStore.items
  now,          \* the clock, in ticks
  query,        \* the client's query, with the page it asks for first
  page,         \* the page it asks for next
  pc,           \* the client: "idle", "asks", "done", or "panic"
  shown,        \* the ids on the pages the client has had
  waiting,      \* matched at the first page and not updated since (for the properties)
  orderly       \* no update since has moved a record back in the list, or out of it

vars == << drafts, items, now, query, page, pc, shown, waiting, orderly >>
clientVars == << query, page, pc, shown, waiting, orderly >>

------------------------------------------------------------------------------
(* The store.                                                              *)

OpsRecord == [priority : Priorities, status : Statuses, updatedAt : Nat]

EmptyMap == [id \in {} |-> 0]

with(f, id, value) == [i \in DOMAIN f \cup {id} |-> IF i = id THEN value ELSE f[i]]

\* A query filters by status, which updates change, and by what they do not change:
\* the priority stands for subject and owner too.
Query == [statuses : {Statuses} \cup {{s} : s \in Statuses},
          priorities : {Priorities} \cup {{p} : p \in Priorities}, page : Pages, size : Sizes]

Init ==
  /\ drafts = EmptyMap /\ items = EmptyMap /\ now = 0
  /\ query = CHOOSE q \in Query : TRUE
  /\ page = query.page /\ pc = "idle" /\ shown = {} /\ waiting = {} /\ orderly = TRUE

\* Create takes a number and stamps the record; others may do so in between.
Create(id) ==
  /\ id \notin DOMAIN drafts \cup DOMAIN items
  /\ \E priority \in Priorities :
       drafts' = with(drafts, id, [priority |-> priority, status |-> "queued", updatedAt |-> now])
  /\ UNCHANGED << items, now, clientVars >>

Put(id) ==
  /\ id \in DOMAIN drafts
  /\ items' = with(items, id, drafts[id])
  /\ drafts' = [i \in DOMAIN drafts \ {id} |-> drafts[i]]
  /\ UNCHANGED << now, clientVars >>

Tick ==
  /\ now < MaxTime /\ now' = now + 1
  /\ UNCHANGED << drafts, items, clientVars >>

------------------------------------------------------------------------------
(* The order of the list and the bounds of a page.                         *)

opsMatch(record) == record.status \in query.statuses /\ record.priority \in query.priorities

filtered == {id \in DOMAIN items : opsMatch(items[id])}

weight(p) ==
  IF p = "critical" THEN 4 ELSE IF p = "high" THEN 3 ELSE IF p = "normal" THEN 2 ELSE 1

\* The rank of a stamp among the strings: that of a whole second has no fraction,
\* and its "Z" comes after the "." of the others of that second.
stampKey(t) == IF t % Second = 0 THEN t + Second ELSE t

\* Wrong: the oldest update first.
BugNewer(s, t) == stampKey(s) < stampKey(t)

newer(s, t) == stampKey(s) > stampKey(t)

before(a, b) ==
  LET r == items[a]
      q == items[b]
  IN  \/ weight(r.priority) > weight(q.priority)
      \/ /\ weight(r.priority) = weight(q.priority)
         /\ \/ newer(r.updatedAt, q.updatedAt)
            \/ ~ newer(q.updatedAt, r.updatedAt) /\ a < b

index(id) == Cardinality({other \in filtered : before(other, id)})

\* Wrong: a page below 0 is the first one, and 0 is left alone.
BugPage(p) == IF p < 0 THEN 1 ELSE p

\* opsQueryDefaults
defaultPage(p) == IF p < 1 THEN 1 ELSE p
defaultSize(n) == IF n < 1 THEN DefaultSize ELSE IF n > MaxSize THEN MaxSize ELSE n

\* An int that has wrapped around.
wrapped(n) == ((n + MaxInt + 1) % (2 * (MaxInt + 1))) - (MaxInt + 1)

least(m, n) == IF m < n THEN m ELSE n

\* opsBounds; the product may be more than an int holds.
start(total, p, size) == least(wrapped((p - 1) * size), total)
end(total, p, size) == least(start(total, p, size) + size, total)

------------------------------------------------------------------------------
(* The client.                                                             *)

Ask ==
  /\ pc = "idle" /\ pc' = "asks"
  /\ query' \in Query /\ page' = query'.page
  /\ UNCHANGED << drafts, items, now, shown, waiting, orderly >>

\* Search, once for each page.  A negative bound makes the slice expression panic.
\* The client asks for the page after the one in the answer while there is one.
Search ==
  /\ pc = "asks"
  /\ LET total == Cardinality(filtered)
         from == start(total, defaultPage(page), defaultSize(query.size))
         to == end(total, defaultPage(page), defaultSize(query.size))
         next == defaultPage(page) + 1
     IN  \/ /\ from < 0
            /\ pc' = "panic" /\ UNCHANGED << page, shown >>
         \/ /\ from >= 0
            /\ shown' = shown \cup {id \in filtered : index(id) \in from .. to - 1}
            /\ page' = IF next <= MaxInt THEN next ELSE page
            /\ pc' = IF to < total /\ next <= MaxInt THEN "asks" ELSE "done"
  /\ waiting' = IF page = query.page THEN filtered ELSE waiting
  /\ UNCHANGED << drafts, items, now, query, orderly >>

\* The client has had a page and wants another.
walking == pc = "asks" /\ page # query.page

\* The record was last stamped in an earlier second.
later(id) == items[id].updatedAt \div Second < now \div Second

\* A transition updates a record, whatever status it has by then (see Operations).
Update(id) ==
  /\ id \in DOMAIN items
  /\ \E status \in Statuses :
       items' = [items EXCEPT ![id].status = status, ![id].updatedAt = now]
  /\ waiting' = waiting \ {id}
  /\ orderly' = (orderly /\ (walking /\ id \in filtered => opsMatch(items'[id]) /\ later(id)))
  /\ UNCHANGED << drafts, now, query, page, pc, shown >>

\* Nothing is said of what comes after the walk.
Next ==
  /\ pc \in {"idle", "asks"}
  /\ \/ Tick \/ Ask \/ Search
     \/ \E id \in Ids : Create(id) \/ Put(id) \/ Update(id)

Spec == Init /\ [][Next]_vars

------------------------------------------------------------------------------
(* Properties.                                                             *)

TypeOK ==
  /\ DOMAIN drafts \cap DOMAIN items = {} /\ DOMAIN drafts \cup DOMAIN items \subseteq Ids
  /\ \A id \in DOMAIN drafts : drafts[id] \in OpsRecord
  /\ \A id \in DOMAIN items : items[id] \in OpsRecord
  /\ now \in Nat /\ query \in Query /\ page \in -MaxInt - 1 .. MaxInt
  /\ pc \in {"idle", "asks", "done", "panic"}
  /\ shown \subseteq Ids /\ waiting \subseteq Ids /\ orderly \in BOOLEAN

\* A client that walks from the first page to the last misses no record that matched
\* all the while and that nobody updated, whatever was created or updated meanwhile,
\* as long as every update moved its record forward: it left it in the result and came
\* in a later second than the one before.
NothingMissed ==
  pc = "done" /\ defaultPage(query.page) = 1 /\ orderly => waiting \subseteq shown

\* A search shows just the records of its page and never panics, unless the number of
\* records before that page is more than an int holds: no page or size below 1, no size
\* above the limit and no page after the last one does any harm.
PageAsAsked ==
  [][pc = "asks" /\ (pc' # "asks" \/ page' # page) =>
       LET size == defaultSize(query.size)
           first == (defaultPage(page) - 1) * size
       IN  first <= MaxInt =>
             /\ pc' # "panic"
             /\ shown' = shown \cup {id \in filtered : index(id) \in first .. first + size - 1}]_vars

==============================================================================
