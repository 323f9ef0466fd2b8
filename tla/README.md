# mock-ocpi-partner in TLA+

A partner service (`cmd/server`) stands in for a roaming partner of a charging
network, Evolt, and speaks OCPI 2.2.1 with it in both directions; a demo
service (`cmd/demo`) drives several partners and Evolt from one screen. All
state of a partner is in PostgreSQL. Every request runs in its own goroutine,
its statements run one by one on a connection pool, and no handler opens a
transaction or takes a lock: the unit of atomicity is the SQL statement, and
between two statements of a request anything may happen. That is what these
modules model.

## 1. Inventory

| Part | Source (`src/internal/`) | State it keeps | Operations that change it |
|---|---|---|---|
| Registrations table | `store/registrations.go` | `registrations`: the two tokens, status, endpoints | insert, whole-row update, delete one, delete all |
| Credentials protocol | `handlers/credentials.go`, `handlers/admin.go` 25-103 and 315-324, `middleware/ocpiauth.go`, `client/evolt.go` 195-487 | the row a request copied, its new token, its rollback snapshot | token A, handshake, rotation, unregistration; POST, PUT, DELETE of Evolt |
| Replica of locations | `store/received.go`, `handlers/emsp.go` | `received_locations`, `received_evses`, `received_connectors` | PUT, PATCH, cached pull, injection, truncation |
| Replica of tariffs | `store/received.go` 161-189 | `received_tariffs` | PUT, DELETE, cached pull |
| Own catalogue, CPO feed | `store/own.go`, `handlers/cpo.go` | `own_locations`, `own_tariffs` | upsert, restamp of a batch, truncation; the paged list reads it |
| Push | `client/evolt.go` 515-637 | none of its own | read, change and persist one own location, then send it |
| Pull | `client/evolt.go` 639-839 | pages walked, objects stored | walk the counterparty's list, cache its objects |
| Seeding | `seed/` | none of its own | apply both batches, top up a missing one, reset |
| Demo orchestration | `demo/handlers.go`, `demo/fanout.go`, `demo/mockadmin.go` | none of its own: it calls the mocks, Evolt and Evolt's database | handshake in either direction, rotation, unpairing, unregister, pull by all partners, status event, batch run |
| Rate limiter | `demo/ratelimit.go` | a bucket per caller | allow, prune |
| Reachability probe | `demo/evolt.go` 270-305 | the last answer and when it was asked | probe |
| Batch jobs | `demo/batchjobs.go` | none | run a child process to its deadline |
| Kafka producer, charger database | `demo/kafka.go`, `demo/chargerdb.go`, `demo/dbbrowse.go` 553-572, 638-706, 841-898 | an EVSE's status in Evolt's database, a topic | flip the status, write an event, delete or read a partner's row |
| The rest | request log, API key, versions, stubs, envelope, routing, configuration, the other views of the database browser | a log, or nothing | see section 8 |

How they interact: `OCPIAuth` copies a row of the registrations table into the
request it lets through, and the credentials handlers write that copy back.
`client.Handshake` and `UpdateCredentials` call Evolt, which calls back with
the new token before it answers. Pushes and pulls take the first REGISTERED
row and present its outbound token. What Evolt pushes and what a pull finds go
through the same `PutReceivedLocationObject`. The demo only makes HTTP calls
to `/admin/...` of each partner and to Evolt.

What is hard here, and hard to test: requests that interleave between two
statements; a row written whole from a copy read before a call; a call whose
reply is lost after it took effect; a caller that hangs up, which cancels the
context every later statement, the rollback's included, runs on; a write in
several statements that stops half-way. `PROJECT.json` lists these hazards
line by line.

What makes each part correct:

* registrations and credentials: an inbound token names one row; a REGISTERED
  row has both tokens and they come from one exchange; tokens that were wiped
  stay dead; a token Evolt may call back with is stored before it is sent;
  nothing but the handshake touches a PENDING row; both sides move together;
* replica: every object embedded in a stored location has a row that a PATCH
  finds; no parent is older than its children; a partial update is partial;
* pull: every object of a feed that stands still is stored, or the cap is
  reached, and the walk ends; feed: a page and its Link header describe one
  table; push: our copy and the counterparty's do not drift apart; seeding: a
  batch is there whole or not at all, and a restart changes no object;
* demo: a pairing that has come apart was reported, or is one of the two cases
  the code passes over; a sweep that is answered ok has swept; the evidence of a
  rotation is this rotation's; a status that did not reach a mock is one whose
  call failed or came late; a batch job that was killed is not answered as one
  that collected;
* rate limiter: no caller gets more than its burst plus its rate in any window;
  probe: one poll at a time probes, and only the others see an old answer.

## 2. Modules

| Module | What it is |
|---|---|
| `RegistrationStore` | the table as a function from ids to rows; one operator per SQL statement |
| `Registration` | the credentials protocol: one action per statement or call of each request, and Evolt as far as it decides what those do |
| `Pairing` | what the protocol promises: both sides exchange, dissolve or forget a pair of tokens, each in one step |
| `RegistrationPairing` | the refinement mapping from `Registration` to `Pairing` |
| `RegistrationMC` | the request slots and the symmetry for TLC |
| `RegistrationProofs` | theorems about `Registration` with requests that overlap |
| `PairingProofs` | theorems about `Registration` one request at a time, and that it implements `Pairing` |
| `Replica` | the three `received_*` tables for one location, and the requests that write them |
| `ReplicaMC` | two EVSEs, a connector and the bodies a location may arrive with |
| `ReplicaProofs` | theorems about `Replica` |
| `Catalogue` | `own_locations` and `own_tariffs`, and all that writes them: pushes, the restamp of the cron batch, resets, seeding at start-up |
| `CatalogueMC` | two locations and two tariffs, one of each in either batch |
| `CatalogueProofs` | theorems about `Catalogue` |
| `Feed` | `Catalogue` with the paged list of it, and a caller that walks its pages |
| `FeedMC` | the same objects as numbers, since the feed orders them by id |
| `FeedProofs` | theorems about `Feed` |
| `Pull` | the page walk over the counterparty's list and the caching of what it finds, beside the calls that tell of changes |
| `PullMC` | a list of three, one of them unstorable |
| `PullProofs` | theorems about `Pull` |
| `Board` | the demo's pairings: the chains of calls to mocks, Evolt and its database that pair, rotate, unpair and unregister |
| `StatusEvent` | `Board` with the two ways a charger's status reaches the mocks: the pull by all of them, and the event through Kafka |
| `Demo` | `StatusEvent` with the batch runs: the demo as a whole |
| `DemoMC` | a board of three partners |
| `DemoProofs` | theorems about `Board`, `StatusEvent` and `Demo` |
| `RateLimiter` | the token buckets, with requests that reach the mutex out of order |
| `StatePoll` | `RateLimiter` with what a poll of the state does behind it: the cached probe of Evolt |
| `StatePollMC` | symmetry for TLC |
| `StatePollProofs` | theorems about `RateLimiter` and `StatePoll` |

### Registration

`regs` is the table, `nextId` its sequence. A token is a number and `fresh` is
the next one nobody has seen, on either side: a UUID does not repeat. A
request occupies a slot `p`; `pc[p]` is its next statement, and `cur`, `prev`,
`tok`, `grant` are the Go variables `reg`, `prev`, `newInbound` and
`granted.Token`. A read takes the row as it is (`CopyOf`), a write puts back
the whole copy (`UpdateRegistration`), as the SQL does. An UPDATE of a row that
is gone changes nothing and the caller is not told. `alive[p]` is the request's
context: `Cancel` ends it, then no statement of `p` runs (`Abort`), and a call
to Evolt may still have taken effect.

`peer` is what Evolt holds of us. Evolt is external: it accepts a POST with its
own token A, a PUT or DELETE with the token it gave us, may refuse, and its
answer may be lost. `agreed` and `dead` are history variables, read by
properties only.

Two things in this code are easy to miss and are kept: `upsertPending` lists
the rows a second time, so the row it updates need not be the one the rollback
would restore; and `registeredOnly` answers 405 but returns nil, so its callers
go on (`Answered405`).

### Replica

One location stands for all: every statement filters by its whole key. Of an
object the model keeps `last_updated`, which stands for whatever arrived with
it, and what is embedded in it. `PutReceivedLocationObject` of a location is
`WriteLocation`, then `WriteEvse` and `WriteConnector` for what is embedded,
each followed by the cascade `BumpEvse`, `BumpLocation`; of an EVSE or a
connector by itself it is the same with one object. `PatchLocationObject` reads
and merges in one step (a read of one row), and writes from that copy.
`CutOff` is a failed statement, a caller that hung up or the process ending.

### Catalogue

`own` is both tables. A row keeps its `last_updated` twice in the code, in a
column and in its payload, and so it does here (`column`, `stamp`): what keeps
them equal is code, not schema. Of the rest of a payload the model keeps the
`last_updated` of each embedded EVSE or connector (`parts`), which stands for
that part's content. A push is four steps: `PushRead` takes the payload,
`PushSource` reads the source in a statement of its own and applies the change
with a time between the two, `PushSave` writes the row, `PushSend` calls the
counterparty, of whom the model knows what it last took (`theirs`). A new batch
takes its time first and then restamps one table after the other; a reset
truncates and seeds object by object. A push changes fields of the object it
addresses, as the screen's calls do (`demo/ui/index.html` 523-535). Start-up runs
before the server listens, so `Begin` waits for `boot = "up"`; `Crash` goes back to it. `torn` and `whole`
are history variables: whether a seeding was cut off, and which resets, none
cut off since they truncated, will have made the tables whole when they end.

### Pull

`feed` is the counterparty's list, which is external: ordered by last change,
as our own feed is, so that an object that changes moves to its end, with each
object in it once, since the id is its key (`ListedAssumption`), and told
of in `calls`, which arrive in any order or not at all. A walk is `GetPage`,
then `CacheObject` or `SkipObject` for each object of the page, then `NextPage`
or `EndPull`, whose condition, `Ends`, is the code's four in its order. The
page is cut to the room under the cap before it is cached, and its length is
taken after the cut, as in the code. `began` is the list when the pull began;
`steady` says that since then the list has only grown and no call has touched
a row of it. The counterparty honours the page length asked for.

### Feed

A walk is `StartWalk`, then `CountRows` and `ReadPage` for each page, each on
the table it finds: the count and the page are two statements. `NoMoreRows` is
the condition of the Link header and `Link` what it carries on: the bounds in
whole seconds. A walk with `keep` is Evolt's pull job: it asks from the newest
date it holds (`Watermark`, which the demo reads back), and adds what it is
given to `held`. An id is a number,
its place in the order of ids (`OrderAssumption`), and a list is its rows by
their `Rank`: the place of a row is one more than the rows before it, which the
provers can expand and a sorting operator they cannot. Every action of
`Catalogue` runs beside it (`CatalogueStep`), and a process that dies takes the
page it was reading with it. Locations are
walked; tariffs go through the same statements.

### Board, StatusEvent, Demo

A request is a slot `q`, `pc[q]` the call it makes next, `todo[q]` the partners
it has yet to go through. A call is one step with every outcome it can have: it
worked, it was refused, or it took effect on either side and its answer was
lost. What it does inside the mock is the business of `Registration`; here it
is a pair of tokens changed on both sides or on one (`BothTake`, `EvoltTakes`,
`MockTakes`), by a fresh number. A mock's row has two tokens, each with the pair
it is of (`mock` the inbound one, `outbound` the other): a rotation that is cut
off leaves the row with one token of the old pair and one of the new
(`MockHalfTakes`), so that calls may pass in one direction only (`MockKnows`,
`EvoltKnows`). A handshake that is cut off leaves the mock PENDING, its old pair
gone (`MockPends`). Nothing undoes a call when the next one fails,
as in the code. `excuse` is the history the properties read: an answer has told
of a failure ("told"), Evolt's row was passed over in silence ("untold"), or two
requests about one partner overlapped ("overlap"); it is emptied when a request
that is alone finds the two sides agreed.

In `StatusEvent` the consumer, which is external, takes an event, reads the row
as it is by then, and PATCHes the partners Evolt is paired with. No status is `Absent`, which is what a mock has of an
EVSE it does not hold (`StatusAssumption`). Pulls read and cache in two steps
per mock. `missed` is the history: the mocks whose status may
not be the row's.

In `Demo` a run is of one of the `Jobs`, each of which collects one kind of object
from a table of its own at every mock (`JobAssumption`: a request that is no run
has no job). A run with refresh has the mocks publish first, which re-dates both
tables, PLG first, whose failure ends the run, while that of another partner is
passed over. Then it starts the job, a child process, which collects from the
partners Evolt is paired with, in any order, or counts one as failed and goes on,
and answers with its exit code. `due[q]` is what makes the property: the mocks
which have published in the table of the run's job and still have what they
published; a job empties the table of its own kind alone, for every run that waits
for it, and a reset empties both. The process is not under `src/`: what the model
knows of it is that its summary counts the partners that failed
(`batchjobs.go:23-28`), that "every partner failed" is one way to exit with another
code than 0 (`batchjobs.go:96-97`) and one partner being down "only costs its own
rows" (`handlers.go:493-494`). So a job that went through its partners and
exits with 0 has not failed at every one. A process that is killed has the code -1.

### RateLimiter, StatePoll

`allow` runs under the mutex, so `Allow` is one step; but a request takes its
time before it waits for the mutex, so `stamp[q]` may be older than the bucket's
date. Time is a counter and nobody waits longer than `MaxWait`. A new bucket has
the zero time as its date while the map is pruned, as in the code. `watched`,
`opened`, `spent` and `dropped` are a window of time over the requests of one
caller, opened at any moment. In `StatePoll` the poll that finds the probe's
time too old refreshes it (`StartProbe`) and stores the answer later
(`EndProbe`), in two steps; `since` and `began` date what it stores.

## 3. Runs

| Run | What it asks | Answer |
|---|---|---|
| `registration_serial` | one request at a time, replies lost: dead tokens, whole pairs, one row, the callback; does the protocol implement `Pairing` | holds |
| `registration_concurrent` | two requests interleaved, cancelled, replies lost: types, unique tokens, complete rows | holds |
| `registration_pending` | does token A alone let a PUT or DELETE change the row | it does, see 7.1 |
| `registration_hangup` | does a failed rotation always restore the pair | not when the caller hangs up, 7.2 |
| `registration_wipe` | do wiped tokens stay dead when a rotation is in flight | no, 7.3 |
| `replica_concurrent` | two writers interleaved, cut off anywhere: is a settled replica split completely, are parents as new as children | holds |
| `catalogue` | pushes, restamps, resets, failures and restarts interleaved with page walks: both batches there, rows in their batch, dates in step, start-up leaves rows alone, walks exact, nothing missed | holds |
| `catalogue_drift` | is our copy ever behind what the counterparty took from us | it is, when two pushes overlap, 7.4 |
| `pull` | a list that changes between pages, late and lost calls: cap, copy, ghosts, and does every pull end | holds |
| `pull_stops` | does a walk stop only for the reasons its comment gives | no, 7.5 |
| `demo` | two requests of the screen interleaved, calls failing anywhere: are mismatches explained, sweeps complete, rotations shown, statuses delivered, batches collected | holds |
| `service` | polls that overlap, a full map, late stamps, probes cut off: rate, one probe, old answers only meanwhile | holds |

Each property of a passing run has a mutant in `PROJECT.json`: a definition of
the model changed as a plausible bug would change the code, which the run then
finds. The mutated operators stand beside the ones they replace.

## 4. Bounds, and why they are enough

* `Procs`: two slots. Every race found is between two requests; a third adds
  no new order of two conflicting writes, and the theorems hold for any number.
  One slot where the property needs requests not to overlap.
* `MaxRequests`: 3 concurrent (one to register, two to race), 5 serial (token
  A, POST, rotation, token A again, one more).
* `MaxTime` of the replica: two times, older and newer.
* `Evses` two, `Connectors` one: one to be bumped and one to be compared with;
  `Bodies` is a list with no EVSE, one with a stamp of its own, one without,
  with and without a connector. Symmetry is over the slots only.
* `Catalogue` and `Feed`: three requests, walks or crashes (`MaxRequests`): a
  reset torn by a crash takes two, a push beside it one more; a walk, the walk
  after it and a push between their statements. One part per location is enough
  where parts are not told apart; drift needs two. `MaxTime` 2: the seed is dated
  0, and a change may be older than, as old as or newer than a restamp. Two
  locations, pages of one and of two: a page boundary, and a page that holds the
  whole list. `Bounds` has a whole second and a half one.
* `Pull`: four objects, three listed at first, pages of two, two pages: one page
  boundary that a change can move, one page beyond it that only a list that
  grew fills. The caps are none, below a page, and one that a broken object
  leaves for the second page. Two changes make a DELETE after a PUT, two pulls
  a pull over the rows of an earlier one. `pull_stops` has a third page.
* `Demo`: three partners, since the first, a middle and the last differ in a
  sweep; two requests in two slots: every property is about one request, or
  about what another does to it. Two statuses, the old and the new; two jobs, as
  in the code, of which one does not collect what the other does. Statuses, jobs
  and slots are symmetric, the partners are not. It is the largest run, with 2.1
  million states. `Board` alone, with its part of `TypeOK`, was also run with three
  requests (5.1 million states), without an error.
* `StatePoll`: a cap of one bucket and two callers, so that the second makes the
  map look for old buckets and the first is old or not; a request costs what two
  units of time earn, so that earnings are partial; `MaxTime` 6 lets a bucket
  grow old, be pruned, be made anew and be emptied, and a probe be repeated.
* `Done` lets a behaviour end when the bound is used up, so a deadlock TLC
  reports is a request that is stuck. Every run checks deadlock.

## 5. Fairness

Only `Pull` assumes any: weak fairness of the steps of a pull in progress
(`Step`). Its goroutine is scheduled by the Go runtime, its HTTP client has a
timeout (`client/evolt.go` 45) and its statements run on a pool, so a step that
can be taken is taken or fails, and failing is a step too. Nothing is assumed
of the counterparty: not that it changes, nor that it stops changing, nor that
its calls arrive. All other properties are safety properties.

## 6. Proofs

Every safety invariant and action property that a passing run checks, and the
refinement of `Pairing`, is a theorem. A run shows it on a small instance, the
theorem for every value of the constants that meets the named assumptions of
the modules, which TLC evaluates in every run that extends them. Each invariant
below was first given to TLC on the instance of a run.

**Registrations, requests that overlap** (`RegistrationProofs`). For any set of
slots and any number of requests, `TypeOK`, `TokenUnique` and
`RegisteredComplete` hold in every state.
`TokenUnique` is not inductive: a request that is about to write a token it
holds in a local could write it twice. The inductive invariant says of every
token in a row, in a copy, in `tok` or in `grant` that it was drawn before
`fresh`, and of an inbound token that it belongs to one row id, wherever it is
held. `RegisteredComplete` needs that every copy which is REGISTERED is
complete and that the steps which will write REGISTERED hold both tokens.

**Registrations, one request at a time** (`PairingProofs`). For the
specification of the serial run, with its one slot, `TokensDie`, `SingleRow` and
`CallbackAuthenticates` hold wherever callers hang up (the run, which has no
hang-ups, asks for less), and `WholePair` and `ImplementsPairing` unless one does
(`ASSUME ~MayCancel`). That is needed, as 7.2 shows: with a hang-up the
pair of a failed rotation is not restored. So is the one slot: with two requests
wiped tokens come back (7.3). Replies may be lost and Evolt may refuse in all of
them.
The invariant, `Serial`, says at each statement of the request what its copies
have to do with the table. From a read to the write that follows, the copy is
the row; from the write of the new inbound token to the end, the row is the
copy with that token, and the snapshot is a row that may be put back: its
tokens are not dead, and if it is REGISTERED and nobody hung up they are of one
exchange. A token
that was drawn and not written is nobody's. For the refinement, each action is
a step of `Pairing` or a stutter: the reads and the write of a new inbound token
are stutters, since our mapped pair is the one a rollback would restore until
Evolt has answered; the call that Evolt takes and answers moves both sides at
once, and the write after it is a stutter again.

**Replica** (`ReplicaProofs`). `TypeOK`, `SplitComplete` and `ParentCovers` for
any sets of EVSEs, connectors, bodies and slots. The last two are about settled states, so
the invariant speaks of debts: what the tables lack is due from a request in
flight. An embedded EVSE without a row is still in the `evsesLeft` of some
request that wrote the location, an embedded connector in its `connsLeft` or
under an EVSE it has left, and a row newer than its location is the row some
request is about to pass to the cascade.

**Catalogue** (`CatalogueProofs`). `TypeOK`, `BatchKept`, `DatedOnce`,
`PartsCovered`, `CatalogueWhole` and `RestartKeeps`. A row is
written from a copy that may be old, so the invariant asks of the copy a push is
about to save what it asks of a row; and of the copy it has just read, that
nothing in it is newer than `time`, the earliest second the push may stamp.
That is why an old copy written back is never older than its own parts. That no
row or copy is dated ahead of the clock (`NoLater`, part of `TypeOK`) is in the
invariant as well: a row is restamped with a time taken earlier, and is read as
of now. `CatalogueWhole` needs to know while rows are
missing who will write them (`SeedInv`): all that is missing is in what one
reset, not cut off since it truncated, has yet to seed (`Covered`); a reset
that truncates beside it takes that over. At start-up, which has the server to
itself, each batch is there whole or not at all, so that one missing row tells
that all are. What start-up has yet to seed has no row, which gives
`RestartKeeps`.

**Feed** (`FeedProofs`). `WalkExact` and `NothingMissed` for any finite set of
locations, any bounds and page lengths, and the catalogue's theorems beside the
walks. The ranks of the matching rows are shown to be the numbers from one to
their count, each once (`RankNumbers`): a row before another has fewer rows
before it, so no two ranks are equal, and as many different ranks as rows fill
the range. So a list has each matching row once, in order.
`WalkExact` follows from what a walk was given being the list up to where its
page begins. `NothingMissed` is inductive only with two things beside it. A
walk of the pull job asked from no later than the watermark, also in its next
page's Link; and what the list had before its page the job holds as it is. Then an object
the job lacks after a page comes after that page, so it is no older than the
newest of it, which may be the new watermark. Any step that would break this
is one that `skewed` records.

**Pull** (`PullProofs`). `TypeOK`; `WithinCap`, from an invariant on the room a
page leaves under the cap; `NoGhost`. A row comes from a PUT under way or from the page
a pull holds, so the invariant asks of those what `NoGhost` asks of rows: that
their object is listed, or its DELETE is to come, was lost or was overtaken.
`ListCopied` speaks of the end of a pull. On the way there, a page begins where
the earlier ones ended, what it holds is what the list, which has only grown,
has there, all before it is copied or was passed over, and a page is short only
at the end of the list or at the cap. A second object of one id would
overwrite the first, which is why a list has each once.

**Demo** (`DemoProofs`). `TypeOK`, `MismatchExplained`, `SweepComplete`,
`RotationShown`, `StatusReaches` and `BatchCollected` for any number of partners
and requests. `BoardInv` says what each call of a request leaves for the next:
what a sweep has wiped at the mocks, what it still has to wipe in Evolt, that
the row a rotation read before its PUT is still the row when it calls. These
are only true while nobody else touches the partner, and the history says
"overlap" of both as long as either of two such requests is in flight: a request
whose partner has no such mark is alone. `SweepComplete` speaks of every sweep
that is answered with nothing left to do, that of a single partner included.
`StatusInv` says where a status is that a mock has not got: in a row some
request is about to write an event for, in the topic, or with the consumer on
its way to that mock (`OnItsWay`). `BatchInv` says that, while a run's exit code is 0,
what is due to it of a partner its job found is left to the job or counted as
failed. A job that is killed with something left to it must change the exit code
in that step.

**Limiter and probe** (`StatePollProofs`). The four properties, for
any rate, burst, cap and number of requests. `WithinRate` is about a history
that no bucket shows, so the invariant `Budget` adds to what the watched caller
was given what its bucket is worth: what it holds and would have earned since
its date. A request takes its cost from that worth, and one that comes with a
time that goes back adds nothing to it. No new bucket is worth more than
`Ceiling`, the burst and what the longest wait earns, and a bucket the prune
takes is worth that much at least, which is where `AgeAssumption` is needed: ten
minutes of earnings are more than a burst and two such waits. `ProbeInv` says
that a poll which probes is the one that set `checked`, `Timeout` ago at most;
a second one would have to find that time `Fresh` ago, which is longer.

**Model-checked only.** `PullEnds`: liveness under fairness is out of the
prover's reach. What the five runs of section 7 refute is shown by their
counterexamples. The absence of deadlock, which needs ENABLED, is shown by
every run on its instance. No theorem is about a recursive definition, and the
modules have none.

## 7. Where the code and its comments disagree

1. `credentials.go:98-99`: "registeredOnly guards GET/PUT/DELETE which are
   meaningless before the handshake completes". The error it returns is that
   of a successful JSON write, nil: PUT and DELETE go on and change the row.
2. `evolt.go:325-326`: "Failure restores the previous pair — a half-rotated
   REGISTERED counterparty would be locked out". The rollback runs on the
   request's context; if the caller hung up, it fails as well.
3. `admin.go:36-38`: re-issuing token A "wipes an active registration (inbound
   + outbound tokens both die)". A rotation in flight writes them back.
4. `evolt.go:548-549`: a push changes our own copy first and "the two sides
   never drift". It writes the whole location from the copy it read, so the
   second of two overlapping pushes undoes the first's change here, not there.
5. `evolt.go:696-697`: a walk goes on "until the feed is exhausted, maxItems
   have been stored, or maxPages (a runaway guard) is hit". A page cut to the
   room under maxItems passes for a short one, so a cut page with an object
   that cannot be stored ends the walk below its cap.

Others came up while modelling and have no run of their own:

* `emsp.go:102`: "PatchLocationObject is the partial update". At location level
  it decomposes the embedded EVSEs again, and they may be older than the EVSE
  rows: rows a PATCH did not name go back to an older state.
* `demo/evolt.go:278`: a poll beside a probe sees "up-to-35s-old data at worst".
  Nothing probes while nobody polls: after a pause the answer is as old as the
  pause. `OldOnlyWhileProbing` says what is left. Also, the probe runs on the
  context of the poll: a screen that goes away stores "unreachable" for 30 s.
* `demo/batchjobs.go:134`: "timed out" is answered only if the process could
  not be started in time. A job killed at its deadline ends in an `ExitError`,
  which is tested first: it is answered ok, with exit code -1. `BatchCollected`
  says that this code keeps it apart from a job that collected.
* `demo/ratelimit.go:40`: beyond 10000 buckets a new one is deleted by the prune
  it triggers, since it has no date yet. Its caller starts with a full burst
  every time. `WithinRate` excuses that caller (`dropped`) and no other.
* `cpo.go:75`: a Link header drops the fractions of a caller's bounds, so the
  second page is cut from another list than the first.
* `demo/handlers.go:870`: an unregistration and a handshake of one partner are
  not kept apart; both may be answered ok and leave the sides apart.

Some properties are narrower than a comment, where the model showed that it
claims too much. `RestartKeeps` ("a restart never clobbers data mutated during
a demo", `seed.go:119`) and `CatalogueWhole` exclude a seeding that was cut off:
then one table may lack a batch, and the next start writes all of it again, or
both have some of it, and no start completes it. `PartsCovered` is about the
hand-picked batch: a restamp takes its time before its statements, so it may
date a cron-batch location before a part a push has just changed. `ListCopied`
excludes a list whose objects change during the walk: the page by offset then
skips one. `NothingMissed` excludes the same in our own feed, and a row that is
dated before the pull job's watermark (a push that took its time before a
restamp did). `SingleRow` and `TokensDie` are for requests that do not overlap: two
first handshakes at once do make two rows, and 7.3 is what overlap does to
`TokensDie`. `RotationShown`,
`MismatchExplained` and `SweepComplete` excuse two requests about one partner
("overlap"). `StatusReaches` is about the last status: one that was overtaken
by another flip is not sent, since the consumer reads the row.

## 8. Not modelled

The request log, the API key, the versions and stub handlers, the OCPI envelope
and its masking keep no state another part reads. Routing, configuration and
start-up are wiring. Of the demo, what only reads (`State`, `FanoutState`,
`EvoltMirror`, `PartnerCache`, the tables, the request logs), the pushes and
resets that hand one call through to a mock, tariff push and backfill at Evolt
(one call), and the seeding of Evolt's own identity (one idempotent transaction
on rows nothing else here touches). Text, formats, URLs, party names and audit columns
are left out everywhere.

Of what is modelled, two inputs are left out. `PushLocationLevel` merges any map
into the object it addresses; a caller that replaced a list of embedded EVSEs or
connectors by one with dates of its own would change several parts at once, which
the screen never does. And `Reachable` answers false without storing anything if a
request cannot be made of the configured URL (`demo/evolt.go` 291-292): no poll of
such a demo probes anything.

## 9. Plan

Done: the registrations table and the credentials protocol with their abstract
specification, the replica of locations and of tariffs, the own catalogue with
push, restamp and seeding, its feed, the pull; the demo's board, status events
and batch runs; the limiter and the probe; a theorem for each safety property
of a passing run, and for the refinement of `Pairing`. Next, in this order:

1. The abstract specification of a pull, a copy of a set taken object by
   object, which `Pull` implements, and the proof that it does.
2. Liveness of the credentials requests and of the catalogue's: every request
   returns, under weak fairness of its steps (by TLC).
