# Verification of geothermal-well-monitor-service

TLA+ modules of the service's concurrent core, the TLC runs that check them on
small instances, and TLAPS proofs for every size. All definitions are translated
from the Go sources in `src/`; `PROJECT.json` maps each definition to the lines
it stands for.

## 1. The system

One process (`main.go`) holds everything in memory and serves HTTP. `net/http`
runs each request on a goroutine of its own. Nothing is persisted and there is no
other process, so there are no crash-recovery or message-loss questions: what is
hard is the interleaving of handlers, each of which is a *sequence* of calls
on objects that lock only for the length of one call, with the client free to go
away (its context done) between any two of them.

| Component | State | Operations | Interacts with | Hard behaviour | What makes it correct |
|---|---|---|---|---|---|
| Inspection tasks (`task*.go`) | tasks by id, the set of ids being assigned, a bounded completion history, the id counter | Create, Assign, Start, Complete; List, Get, history | audit trail | check and write are separate calls; the `expected` revision is optional; `EndAssign` can itself be refused | guarded writes start from the state they were judged on; one winner per revision; flags and history tell the truth |
| Backfill runner (`backfill*.go`) | job records; per job 1 runner, up to 4 workers, 1 consumer, 1 closer, two channels, a wait group | Start, Get; Cancel and WaitIdle have no route | its own reading store (`main.go:16`), so what it inserts is not shown by `/api/readings` | who waits for whom; closing channels; cancellation; a progress counter under another lock; the consumers of two jobs in a store that takes no lock | every line reaches `Append` once and in order, and is lost there only to an overlapping one; no send on a closed channel; a job at rest is complete; the job settles |
| Readings (`reading*.go`) | a slice per well, two caches, the id counter | Ingest, Recent, Stats (Prune has no caller) | — | `Append` takes no lock; caches are filled with what was read earlier | a reading that was stored alone stays; caches show the store |
| Alerts (`alert*.go`) | the list of alerts, the id counter | EvaluateReading (called by tests only), Ack, List | rules | ask-then-add and read-then-replace | duplicates only from overlapping evaluations; an acknowledgement is final |
| Maintenance plans (`plan*.go`) | plans by id, the id counter | Create, MarkDone, Due, List | clock | the clock is read between two store calls | what MarkDone reported is not undone |
| Operations records (`ops_service.go`, `ops_store.go`, `ops_state.go`, `ops_audit.go`, `ops_http.go`) | records by id, the state machine's history, the audit trail | Create, Transition, Search, Snapshot | audit trail, state machine | the history is written before the store accepts | history, revision and audit trail agree |
| Operations queries (`ops_query.go`, `sortOpsRecords`) | none of their own | match, sort, page bounds | operations records, the clock behind the stamps | every page is cut from the list as it is then; stamps are compared as text; the bounds are a product of machine integers | a walk through the pages misses nothing that waited; a page is the page that was asked for |
| Sessions and operators (`session.go`, `operator.go`, `auth_http.go`) | tokens with an expiry, the token counter, operators | login, `requireAuth` with `/api/me` | clock | a login stamps, numbers and enters its session in three steps; a check looks at the table and then at the clock | a token belongs to one login and is honoured for its time and no longer |
| Process lifecycle (`runtime.go`, `main.go`) | in-flight counter, listener | counting and recovering middleware, signal, shutdown | every handler | `http.Server.Shutdown` has a limit and the wait for the counter has none; handlers may panic; a request accepted before the signal may be counted after Shutdown gave up | returns only when no handler runs; returns, as far as the wait group allows |
| Wells (`model.go`, `store.go`, `service.go`, `validation.go`, `http.go`) | wells by id | list, set status | — | none: each operation is one locked call | — |
| Rule catalogue (`ops_rules_*.go`) | constants | none calls it | — | — | — |
| Configuration, page, health | constants | — | sends the requests | — | — |

The list of hazards, each at its line and with the properties that watch it, is
in `PROJECT.json`.

## 2. Modules

| Module | Role | Checked by | Proofs |
|---|---|---|---|
| `TaskModel` | the task record, statuses and transition table (`task.go`) | through the modules that extend it | |
| `TaskService` | handlers and store of the tasks, one action per store call | `task_races`, `task_liveness` | `TaskServiceProofs` |
| `TaskLifecycle` | abstract specification: tasks move atomically, by the table | `task_guarded` (refinement) | `Refinement` |
| `BackfillRunner` | a job's goroutines, channels and wait group, and the store that the consumers of all jobs append to | `backfill` | `BackfillRunnerProofs` |
| `Readings` | the store's slices and the service's caches, for one well and its spellings | `readings_races`, `readings_stale`, `readings_window` | `ReadingsProofs` |
| `Operations` | records, state machine and audit trail | `operations` | `OperationsProofs` |
| `OpsSearch` | the list of the records, its order and its pages, and a client that walks through them | `ops_search` | `OpsSearchProofs` |
| `Alerts` | evaluation and acknowledgement, for one well | `alerts` | `AlertsProofs` |
| `Plans` | plans and the clock | `plans` | `PlansProofs` |
| `Sessions` | the login, the session table and the check of a token | through `Server` | |
| `Server` | `Sessions` inside the process: middleware, signal and shutdown | `server` | `ServerProofs` |
| `MC...` | initial states, symmetry and constants for TLC | | |

### How state and actions correspond to the code

*Atomicity.* A Go store method looks at its context, locks, works and unlocks;
that is one action, together with the local code up to the next call. The `pc` of
a request names the call that comes next, so everything the scheduler can do
between two calls is a behaviour. The context check and the lock are two moments
in the code; a context that ends between them has the effect of one that
ends after the call, which the models have. `ReadingStore.Append`, which does not
lock, is split into its accesses instead: load, append, store.

*Clients.* `Arrive` gives a request any input the HTTP handler lets through;
`Cancel` (in `Operations`, `ContextEnds`, which also stands for the three-second
limit of `opsContext`) may happen at any time while it is served. Requests that
read only (`List`, `Get`, `Snapshot`) change nothing and are left out, except where
what they return is the question (`Recent`, `Stats`, `Due`, `Search`).

*Errors.* Every early return is a disjunct that sets the reply and leaves the
stores alone, with what the handler has deferred still to run. Malformed JSON,
which ends a request before any of this, is left out.

*Data.* Names and payloads are model values or small sets, ids are the numbers
behind `task-%06d` and its kin, a reading is its number, and statistics are
represented by the readings they are computed from. Operators, text fields and
time stamps that no decision looks at are left out.

`TaskService`: `items`, `assigning`, `completed` and `seq` are the fields of
`TaskStore` and `TaskService`; `held` is the handler's local variable; `afterReturn`
says whether the `defer` of `Assign` is armed. `Start` with an empty operator and
the like are inputs. The status `cancelled` is in the table, but no operation
writes it. `Put`'s conflict cannot occur (`IdsAreFresh`), the branch is kept as
the code has it; so are those of the other stores.

`BackfillRunner`: the wait group is the set of goroutines that have still to call
`Done`. The consumer is added to it (line 212) and leaves it only after `ch` is
closed; the closer closes `ch` only when the group is empty. `Finalize`,
`CloseFinished` and `CloseDone` are therefore never enabled for a job of the code.
The constant `Repaired` is a set of jobs with the single change that the consumer is
not counted; with `Repaired = {}` the module is the code. Repaired jobs
are there to show that nothing else keeps jobs from settling and to check the code
that is otherwise unreachable. The consumers of all jobs call the lockless `Append` of
one store, which is split into its accesses: `Load` (line 23 of `reading_store.go`),
`AppendLocal` (24-27) and `Store` (28). Two that overlap may both succeed, and then the
store may have lost a line that both jobs count; or they meet in the map or in one array
(`Race`): the Go runtime then stops the process, or leaves a torn value, and nothing is
said of what follows. All lines are taken to be of one well, where Appends disturb each
other the most. A slice is the sequence it shows, not an array and a length as in
`Readings`: an append writes in place into every slice that has grown from its own, if
the capacity, which is the runtime's choice, has room. `Total` is bounded for the two
jobs together by `MaxReadings`, and the store by `MaxKeep` (5000 in the code).
`overlapped` and `latest` are kept for `AloneIsKept` only.

`Readings`: a slice header (array, length) and a memory of arrays, since `append`
writes in place when the array has room and how much room growing leaves is the
runtime's choice (`MaxSpare` bounds it). Accesses that really meet are a data
race; the outcome (`Race`) is left open and nothing is said of what follows, so
the properties are about accesses that come one after the other, in any order.
`Ingest` spells the well's id in lower case (`normalizeReading`); `Recent` and `Stats`
look it up, and cache the answer, as it is spelled in the request, so a spelling the
store does not have gets an empty answer and a cache entry of its own. Statistics
are represented by the set of readings they are computed from.

`Operations`: `history` and `events` carry the request that wrote them, which the
program does not keep; only properties look at it.

`OpsSearch`: `Search` works on a copy that it took under the lock, so it is one
action. `stampKey` is the rank of a stamp among the strings: `RFC3339Nano` drops the
zeros at the end of the fraction, a whole second has none at all, and its `Z`
sorts after the `.` of the others; the fraction has one digit of `Second` values. The
page bounds are computed in integers that wrap around at `MaxInt`. `before` is the
order that `List`'s sort by id and the stable sort after it produce together.
`Update` stands for what a transition writes (`Operations` has how it comes
to that); `waiting` and `orderly` are kept for the properties.

`Sessions` and `Server`: `stage` says where `net/http` and the middleware have a
request, `pc` where its handler is. `Enter` and `Leave` are the two ends of the counting
middleware; which panic a handler ends in is left open (`Handle`), and `recover` is
the recovery around the counting, which answers it with 500. `Shutdown` returns when no
connection is busy or when its time is up (`gaveUp`). After that a request may be
counted while the last one is being counted out, so the wait group's own steps are
modelled: `Enter` is `Add`, which panics if it raises the counter from zero under a
waiter; `Leave` is `Done`'s subtraction, `CheckState` its second look at the state, which
panics if there was such an `Add` meanwhile, and `Release` the reset that wakes the
waiter; `Wait` and `WaitReturns` are the two ends of `Wait`, which panics if the group
is in use again when it wakes up. The panics of `Add` and `Done` are in request goroutines and are
recovered: the one in `Add` leaves a request counted for good (its `Done` is not yet
deferred), and with both `Wait` is not woken. The panic in `Wait` ends the process.
`Stop` is the stop by the runtime that `Race` stands for in the two modules above. Any
status the server can answer with is one of a few model values.

`Alerts`: `by` and `met` are kept for the properties only; only tests call
`EvaluateReading`. `Plans`: `Tick` lets days
pass; `status` of a create is whatever the body says, including text that is no
status (`"other"`), because the code validates nothing. The interval is a sum of
unbounded numbers, where `AddDate` would wrap around for one of millions of years, and the
clock never goes back.

### Definitions named `Bug...`

Each is a deliberately wrong variant of the definition that follows it (a dropped
check, a counter not advanced, an early release). No specification uses it. Put
in the place of the right one it makes TLC refute the property `PROJECT.json` pairs
it with, which shows that the property watches that code.

## 3. Runs

`CHECK_DEADLOCK FALSE` everywhere: a finite number of requests or jobs simply ends,
and the models stop after a crash, a data race or the end of the process. What must not stop is
stated as a liveness property.

| Run | Instance | Shows |
|---|---|---|
| `task_races` | 3 requests of any kind on one task at any stage, `expected` 0, 2 or 3, history of 2 | `TypeOK`; guarded writes are legal at the moment they are made; one winner per revision; two Assigns are apart until a Complete clears the flag of one (which the code does, `task_service.go:141`); an abandoned flag keeps a queued task queued for good; history is faithful and remembers successes |
| `task_guarded` | empty store, 4 requests, each with one of the revisions 1 to 3 | the interleaved handlers implement `TaskLifecycle`, completions included |
| `task_liveness` | 2 requests, no symmetry | requests return; commits are audited; flags are released, Assign by Assign; the exceptions are exactly the requests whose client left |
| `backfill` | a job of the code and a repaired one, one of 1 reading and one of 1 or 3, 2 workers, buffer 1, 2 readings kept | lines reach `Append` once and in order; one is lost there only to an Append that overlapped its own, or to `maxKeep`; no send after close; no job of the code ever settles, yet a job that nobody cancels appends and counts all its readings, and is complete whenever it is at rest; a cancelled job comes to rest with three goroutines waiting for each other; the repaired job settles |
| `readings_races` | 3 Ingests, 1 read, 2 readings kept, 2 spellings | no unwritten or doubled reading; losses only from overlap; the cache an Ingest leaves is fresh once Ingests are quiet |
| `readings_stale` | 1 Ingest, 2 Recents | *violated*: a Recent that began earlier overwrites the fresh cache, and a later Recent misses a reading whose Ingest has returned |
| `readings_window` | 1 Ingest, 2 Stats | *violated*: statistics are cached by well whatever the window |
| `operations` | 3 requests on a record, contexts ending anywhere | without the entries of refused requests the history replays each record's life; revision = accepted transitions = audit events; guarded moves are legal |
| `ops_search` | 3 records, 2 priorities, 2 statuses, 3 ticks of half a second, ints of 4 bits, pages 0, 3, 7, sizes 0, 1, 5 | a walk misses no record that waited for it, as long as every update moves its record forward (a later second, still in the result); a page is exact unless the number of records before it is more than an int holds |
| `alerts` | 3 evaluations, 2 acknowledgements | only overlapping evaluations duplicate; acknowledgements stay |
| `plans` | 3 requests, 3 days | a plan that was marked done is not due early, if all MarkDones sent a revision |
| `server` | 3 requests, one operator, one stranger, a token good for one tick of two | a token belongs to one login; from the moment the login is answered it is honoured exactly for its time; `serveHTTPListener` returns with no handler running, and does return, with named exceptions that all need a Shutdown that gave up |

**Bounds.** Every race in these components needs two requests, and the longest
ones known need three (one to change a revision, one that holds a stale copy, one
to notice). Three requests of any kind, from a store that earlier requests have
taken to any stage, therefore reach each of them; `task_guarded` starts from the
empty store and needs four to create, assign, start and complete a task, the last three
with the revisions 1, 2 and 3. One id is enough for these: no step on one task reads another,
except for the history, whose entries of several tasks are covered by the theorems. Two workers with
a buffer smaller than the payload give a full channel, an uneven share-out and a
worker that leaves early; payloads of one reading give fewer workers than
`MaxWorkers`. Two jobs are enough for the shared store: their Appends
overlap in every way, a store of two readings is cut, and repaired jobs append like those of
the code. Three Ingests over a limit
of two overflow the list and overlap in every way. Histories and lists of
length two make their limits bite. Three requests to the server are two logins and a
check, or a handler that panics beside two that delay the shutdown, or a request that is
counted while the last of two others is counted out; all logins are of one operator, and
`TokensHaveOneOwner` covers any number of them; a token that is
good for one tick of three is checked before, at and after its end. Ints of
four bits with pages up to 7 and sizes up to 3 wrap around to both signs; three records
and pages of one give walks of three pages with updates between them. `MaxTime`, `MaxSpare` and the sets of
requests are bounds of the instances, not of the code; the theorems do not depend
on any of them except through the named assumptions.

**Symmetry** is used on requests, ingests and evaluations, and only in runs
without liveness properties.

**Fairness.** Weak fairness for every step of a goroutine that has been started:
the Go scheduler runs a goroutine that can go on, and no lock is held from one
action to the next, so a step that is enabled stays enabled until it is taken or
another takes its place. Nothing is assumed of clients (`Arrive`, `Cancel`, `Start`,
`Accept`), of signals or of the listener's failure. In `Server` an accepted connection
is read or dropped in time (`ReadHeaderTimeout`), a handler waits only for its body and its
response (`ReadTimeout`, `WriteTimeout`), and `Shutdown` has a limit, so each of these
steps is taken in the end. Where the code blocks on a channel or a wait group, the
action is disabled, and fairness does not help it: that is what
`CancelledComesToRest` shows.

### Findings

`PROJECT.json` has the two violated runs with the lines they contradict: the readings
test (`native_test.go:47-74`) expects `Recent` to show what was ingested and `Stats`
to count the window it is given. Other behaviour that a reader may not expect
contradicts nothing the repository says, and is stated positively by a property
that holds: no backfill job settles (`NeverSettles`), an Assign whose client
leaves can block a queued task for good (`BlockedForGood`), a completion whose
client leaves can go unrecorded (`WritesAreAudited` names the exception), refused
transitions stay in the state machine's history (`HistoryReplays` skips them), a page
whose start overflows can make `Search` panic (`PageAsAsked` names the exception; the
recovery answers 500), records updated twice within a second may change places
(`NothingMissed` asks for later seconds), two backfill jobs on one well can lose a line
that both count (`AloneIsKept` names the overlap), and once `Shutdown` has given up, the
wait for the counter may panic, or never return after the panics of an `Add` and a `Done`
that the recovery has swallowed (`ShutdownEnds` names both).

## 4. Proofs

All theorems hold for any sets of requests, jobs, ids, revisions, readings and
limits, under the assumption each module names (types of the constants, mostly; TLC
evaluates them on every run). `TaskServiceProofs!Refinement` also takes it that
every `expected` is positive, as `task_guarded` does.

| Module | Theorem | States |
|---|---|---|
| `TaskServiceProofs` | `TypeCorrect` | `Spec => []TypeOK` |
| | `IdsAreFresh` | a task about to be put has an id nobody has |
| | `GuardedWrites` | `Spec => GuardedWritesLegal` |
| | `OneWinner` | `Spec => []OneGuardedWinner` |
| | `AssignsExclude` | `Spec => []AssignExclusion` |
| | `BlockedTasksStay` | `Spec => BlockedForGood` |
| | `FlagsAreAccountedFor` | a flag that is set has an Assign that will clear it, or one that was abandoned |
| | `WritesOweTheirAudit` | success is answered after the event; only a Complete whose client has gone loses it |
| | `HistoryIsFaithful` | `Spec => []HistoryFaithful` |
| | `CompletionsRemembered` | `Spec => []CompletionRemembered` |
| | `Refinement` | `Spec => Lifecycle!Spec` for guarded requests |
| `OperationsProofs` | `TypeCorrect` | `Spec => []TypeOK` |
| | `GuardedTransitions` | `Spec => GuardedMovesLegal` |
| | `RevisionsAreAudited` | `Spec => []RevisionCountsAudit` |
| | `HistoryIsReplayable` | `Spec => []HistoryReplays` |
| `BackfillRunnerProofs` | `TypeCorrect` | `Spec => []TypeOK` |
| | `JobsNeverSettle` | `Spec => []NeverSettles` |
| | `ChannelClosedLast` | `Spec => []NoSendAfterClose` |
| | `LinesArriveOnce` | `Spec => []EachLineOnce` |
| | `RestingJobsComplete` | `Spec => []CompleteAtRest` |
| | `ProgressStaysWithin` | `inserted` never exceeds the Appends that have returned, nor these `total` |
| | `AloneStays` | `Spec => []AloneIsKept` |
| | `RestForGood` | a job that has come to rest is never moved again |
| `ReadingsProofs` | `TypeCorrect` | `Spec => []TypeOK` |
| | `NoSlotTwice` | `Spec => []StoredOnce` |
| | `AloneStays` | `Spec => []AloneIsKept` |
| | `IngestLeavesFresh` | `Spec => []IngestCacheIsFresh` |
| `AlertsProofs` | `TypeCorrect` | `Spec => []TypeOK` |
| | `NumbersUnique` | no two alerts share a number, so `Ack` replaces the alert it was sent for |
| | `DuplicatesNeedOverlap` | `Spec => []DuplicatesOverlapped` |
| | `AcksAreFinal` | `Spec => AcknowledgedStays` |
| `PlansProofs` | `TypeCorrect` | `Spec => []TypeOK` |
| | `DoneStaysDone` | `Spec => []DoneIsNotDue` |
| `ServerProofs` | `TypeCorrect` | `Spec => []TypeOK` |
| | `TokensHaveOneOwner` | `Spec => []TokenIsItsOwners` |
| | `HonouredWhileValid` | `Spec => HonouredForTtl` |
| | `DrainsBeforeReturn` | `Spec => DrainedBeforeReturn` |
| `OpsSearchProofs` | `TypeCorrect` | `Spec => []TypeOK` |
| | `WalkIsComplete` | `Spec => []NothingMissed` |
| | `PagesAreExact` | `Spec => PageAsAsked` |

**Tasks and operations.** Whether a write is legal
depends on checks made on a copy, several calls earlier, so no property of the
stores alone is inductive. The invariant (`UpdateOK`, `Judged`) says what a handler
still knows when it gets to write: the copy is never newer than the store, and
*as long as the revision has not moved*, neither has what was checked. Every write
raises the revision, so other handlers' writes can only make that premise false.
A guarded write compares the revision under the lock and may use the conclusion;
an unguarded one may not, which is where the theorems stop. `OneWinner`
adds that a committed request has moved the revision past the one it expected.
`Refinement` maps `tasks` to `items`: the initial states agree, an Update that
succeeds is a move of the lifecycle by `UpdateOK`, a Put is a Create, all else
stutters.

**The assignment flag.** `AssignExclusion` names two handlers and no flag, so the
invariant (`FlagInv`) brings it in: an Assign between BeginAssign and EndAssign has
its flag, and has it alone, unless a Complete of the task has run, which clears the
flag whoever set it. `BlockedForGood` needs also that a handler which is about to
write for Start or Complete has found its task beyond queued, and that no task returns
there (`BeyondQueue`); so nothing that is still on its way can free a blocked task.
`FlagsAreAccountedFor` and `WritesOweTheirAudit` are the safety halves of two liveness properties,
`FlagReleased` and `WritesAreAudited`: what the former leave open is only that the
handlers are scheduled.

**The completion history.** An entry is what a Complete holds from its Update on. The
invariant (`HistoryInv`) says that such a copy is a revision the task has had (`Written`),
that no two requests hold the same one, because every write raises the revision
(`WritesDiffer`), and that a recorded one is in the history or has been followed by
`MaxHistory` others (`Recorded`).

**Operations' history.** `RevisionCountsAudit` is an equation between a number and the sizes of two
sets. A write puts its request into the set of late ones, the event moves it over to
the audited, and the library's cardinality theorems do the sums (`CountInv`).
`HistoryReplays` has to skip the entries of transitions that were refused after the
machine had recorded them. While a request is undecided, and the revision it read is
still the record's, its entry comes behind all entries of the record and
begins where they end (`Continues`): if the write succeeds the replay goes on, and if
the revision has moved the write will be refused.

**Plans.** The same, split in two: the interval of a plan never changes, so for it any
copy will do (`Copied`); the day a plan was last done does change, and there a copy counts
only while its revision is the store's (`Fresh`), which is why `DoneStaysDone` asks that
all MarkDones were guarded.

**Backfill.** The invariant (`Knot`) is the circle itself: from launch on
the consumer is in the wait group, so the group is not empty, `ch` is not closed,
and the consumer has not left its loop. For a repaired job it says instead that its
goroutines are started once and that `ch` is closed only when no worker is left.
`Counted` ties `inserted` to what was appended through the consumer's hand.
`EachLineOnce` speaks of the lines whose `Append` has returned, the consumer's hand and the
channel as one sequence, which the consumer only passes along. For that sequence `Shared`
is inductive: `next` stays in its worker's residue class, and the lines of a class that are
in the sequence are those before `next`; two lines of a class are a stride apart
(`ModGap`), so one more line leaves no gap and repeats none. For `CompleteAtRest`,
`Drained` says that a worker of a job nobody has cancelled leaves only with all its lines
sent; when all have left and the channel is empty, different lines that leave none out
are as many as the payload has.

What the store makes of the lines is `StoreInv`. A line that a consumer has written is in
`begun`; no slice, of the well or of a consumer, holds another line or one twice. A line
that was stored alone is, in every slice that can still be stored, no further from the end than
the stores that came after it, and one more in a slice that has been appended to (`Kept`).
An append in place writes behind the slice it started from. That slice shows
the line as well, so the place it writes over is not the line's, since no slice shows
a line twice. `AloneIsKept` is the case of the well's slice; the cut to `MaxKeep` removes
only lines that are further from the end than that.

**Readings.** `StoredOnce` speaks of the store's header, but an append in place
writes into an array that other headers show. The invariant is about the memory: the
number of a reading that is still to be appended is nowhere in it (`Unwritten`), no array has a
number twice (`Distinct`), no header shows an empty slot (`Filled`). `AloneIsKept`
needs more: while a reading that was stored alone has not been pushed out, *every*
header that can still be stored shows it, no further from its end than there were
stores since, one more if it has been appended to (`KeptIn`). An append in place changes
only the slot behind the header it started from; that header shows the reading
before that slot, and by `Distinct` nobody else relied on it being there.
`IngestCacheIsFresh` follows from: the entry an Ingest left is the store's list
as long as no Ingest is about to store or to refresh (`CacheInv`).

**Alerts.** Everything rests on the numbers (`Numbered`): two evaluations never hold one
number, and no alert has one that is still to be added. A duplicate is traced to an
evaluation that was met between the question and the answer (`Decided`).

**Server.** Two arguments that do not meet. A session belongs to one login from the
moment its number is drawn, while the number is only in a handler's local variable
(`Login`, `Distinct`); the table is spoken of only through such numbers, and from the
login's response on it has the session, so a check that begins afterwards finds it
(`HonouredWhileValid`). And the counter is the number of requests inside and of those
whose `Add` has panicked (`Counted`), while none is on its way there once Shutdown has
found the connections quiet (`Quieted`). Only the reset by a last `Done` could make the
counter smaller than that. `LastDone` says that nobody is inside then, unless an `Add` has
panicked, which takes a Shutdown that gave up: these are the exceptions of
`DrainedBeforeReturn`.

**Search.** A record that still waits is at or behind the place where the next page
begins (`Reached`). Creates may push it back but never forward; an update in a later
second than the one before sends its record to the front, because the rank of a stamp
stays within its second (`KeyGrows`). Set sizes come from the library's cardinality
theorems.

Only model-checked: the liveness properties (`EveryRequestReturns`, `WritesAreAudited`,
`FlagReleased`, `RepairedSettle`, `AllInserted`, `CancelledComesToRest`,
`ShutdownEnds`), because fairness speaks of `ENABLED`, which is outside this prover's reach. All other
properties of the passing runs are proved.

## 5. Not modelled

- Wells: every operation is a single locked call, nothing can interleave.
- The rule catalogue: constant tables, joined by `opsRules`, which nothing calls; they
  have no behaviour to model.
- Configuration, page, health: constants and text.
- Parsing of payloads and bodies: a payload is its number of readings, an input what
  the handler accepts.
- Request ids and logging of the middleware: nothing reads them.
- `OpsStore.Delete`, `OpsAudit.Clear`, `OpsStateMachine.Reset`, `ReadingStore.Prune`,
  `planCanMove`: nothing calls them. `BackfillRunner.WaitIdle` waits and changes nothing.
- More than one well in `Readings` and `Alerts`: the wells share maps and a mutex,
  but no operation relates two of them.

## 6. Plan

Done: all components with behaviour of their own, each with its run and its proof
module. What is left, in order:

1. Abstract specifications still worth stating: an atomic record store that both
   `Operations` and `Plans` implement for guarded requests, and a pipeline (a bag of
   lines moved to the store) that `BackfillRunner` implements.
2. `OpsSearch` composed with `Operations`, so that `Update` becomes the transition that
   writes it.
