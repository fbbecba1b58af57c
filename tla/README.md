# A TLA+ verification of fastdeal.live

fastdeal.live is a NestJS server that sells tickets for events under traffic spikes. Four containers, each with several
processes (`docker-compose.yml`, `package.json`), stand behind nginx and share one MySQL database (Prisma), a Redis for flags
and refresh tokens, a Redis for the BullMQ job queue and, as configured, one or two for locks. This directory models it in
TLA+, checks the models with TLC and proves the main results with TLAPS. Paths below are relative to the repository; those
that start with `src/` are its server's sources.

## 1. Inventory

| Part | State | Operations | What is hard | What makes it correct | Module |
|---|---|---|---|---|---|
| Seating reservation, `src/modules/reservations/service/reservations.service.ts:32`, `src/modules/tickets/service/tickets.service.ts:43` | lock, sold-out flag (Redis), handler | lock, read flag, read ticket, set flag, add job, remove flag, unlock | every await is a point of interleaving, failure and process death; lock and flag expire on their own | a seat is sold once; answers are true; every claim ends | `SeatingReservation`, `JointSales` |
| Worker, `src/modules/reservations/processor/reservation.processor.ts` | Ticket and Reservation rows (MySQL) | one transaction of two writes, with no check | runs in every process; retries; a lost commit reply; death after the commit | both rows or none; a job's outcome is what is in the database | `SeatingReservation` |
| Queue, `src/infrastructure/queue/service/queue.service.ts` | jobs (Redis) | add, take, complete, fail, back off, stall | stalls against retries, limiter, restart | one owner per job; attempts counted right; every job settles | `ReservationQueue` |
| Standing reservation, `reservations.service.ts:62` | event lock, Ticket and Reservation rows | transaction: create, find any ticket, take it | lock TTL against transaction time-out; snapshot reads | one buyer per ticket | `StandingReservation` |
| Both kinds of sale, on several processes, `docker-compose.yml:30`, `:150` | the same, per lock server | both flows | no kind looks at the other's lock; `LOCK_URL` differs between processes | a ticket is shared only for a known cause | `JointSales` |
| Sessions, `src/modules/auth`, `src/infrastructure/token` | refresh token per user (Redis), tokens held by devices | sign-in, refresh, logout | devices at once, TTL units, lost replies | what a device holds was saved, what is saved a device has or was to get | `Sessions` |
| Users and seller applications, `src/modules/users` | User, SellerApplication rows | sign-up, apply, approve, reject | check-then-insert races, inserts without a look, unordered decisions | one account per e-mail, one application per user, whose status is the last decision | `Accounts` |
| Places, events, tickets, `src/modules/places`, `src/modules/events`, ticket queries | Place, Event, Ticket rows | create, update and remove places; create an event with its tickets; find, count, list, page | transaction against removal; fractional quantities; zero taken for missing; pages by offset over rows that change | an event has a place and tickets 1..quantity, or does not exist; paging misses nothing that stays | `EventCatalog` |
| Guards, envelope, filters, `src/common`, `src/main.ts` | where each request is | public, access, refresh, roles; wrap, map an error, report | order of guards and filters; un-awaited Slack calls | no change without credentials; answers tell effects; no request is lost | `HttpPipeline` |
| Queue events, `src/infrastructure/queue/event/queue.event.ts` | none | log, Slack | runs in every process, has no catch | failed jobs are reported | `HttpPipeline` |
| nginx, `nginx.conf` | which process has a request | forward, try the next | a DELETE may be carried out twice | a booking is not | `HttpPipeline` |
| Lock options, `src/config/lock/lock.ts`; environment, `src/config/env` | configuration | read at start-up | keys without the prefix under which `env.ts` stores them | | constants |
| Logger, Prisma client, Swagger, seed, load tests | none | I/O | | | not modelled |

Interaction: a request passes nginx, guards and pipe, then its handler. A seating handler calls `TicketsService`, which calls
`RedisService` and `TicketsRepository`; it then calls `QueueService`, which adds a job to Redis. Some process's worker takes
the job and calls `ReservationsService` and `TicketsService` inside a transaction. Handler and worker never talk directly:
they share the queue, the flag and the rows. A standing handler does its transaction itself, and meets the others in the
rows only. Whatever a handler returns or throws goes through interceptor or filters, which report their own 5xx answers to Slack, as the
queue's listener reports failed jobs.

The hazards, each with its line and the properties that watch it, are listed in `PROJECT.json`.

## 2. Modules

| Module | What it is |
|---|---|
| `ReservationQueue` | the BullMQ queue under the options the code passes |
| `SeatingReservation` | handlers, workers, Redis, MySQL; EXTENDS the queue |
| `SeatingInvariant` | the inductive invariant `IInv` |
| `StandingReservation`, `StandingInvariant` | the standing flow with its three clocks; its inductive invariant |
| `JointSales`, `JointInvariant` | both flows over the same tickets, on processes with one lock server or several; the inductive invariant |
| `TicketSale`, `SeatingRefinement`, `StandingRefinement` | abstract: what the sale of a ticket promises; how each of the two flows implements it |
| `Sessions` | the refresh token of a user |
| `Accounts` | sign-up, applications, decisions |
| `EventCatalog` | places, events, tickets and the public queries |
| `Catalogue`, `CatalogRefinement` | abstract: how events appear; how `EventCatalog` implements it |
| `HttpPipeline`, `HttpPipelineInvariant` | what happens around every handler, in several processes; the inductive invariant |
| `...Proofs` (8 modules) | the theorems about the module they are named after |
| `MC...` | instances for TLC |

### ReservationQueue

A request adds at most one job, so jobs are named by their requests. `TakeJob` carries the decorator's options:
`concurrency: 1` (a worker that has a job takes no other) and the limiter (`limiterOpen`, one start per window; the window's
length is not modelled, `OpenLimiter` may come at any time). `AfterError` is `attempts: 3` with the fixed backoff:
`attempts` counts runs, first one included. `StopWorker` is the death of a process, or a finished job whose end could not be
written to Redis; `RecoverStalled` is BullMQ's check for active jobs without a worker, with its default of one stall.
BullMQ is external: its order (FIFO) is abstracted to any order, and a live worker that loses its job lock is left out.

### SeatingReservation

A request goes through `pc`: `new`, `lock`, `cache`, `db`, `mark`, `enqueue`, (`unmark`), `unlock`, `done`; each value is
the call that comes next. `CallFails`, `EnqueueFails`, `LockFails` and `UnlockFails` are the calls' rejections: they end in
the answer `error`. A client that tries again is another request. `UnlockFails` leaves the lock to its TTL (a failed release
that did release is like an early expiry). `CrashRequest` is process death. Since
handlers of one process die at once in reality, and separately in the model, the model has more behaviours, not fewer.

A worker goes through `step`: the transaction's writes are invisible until `CommitTx`, which applies them together.
Row locks are not modelled: transactions that touch the same ticket may commit in any order, or fail (`TxFails`).

`booked[r]` counts the Reservation rows of a request, `owner[t]` is the request whose row the ticket is connected to.
Users, prices and events are abstracted away. `want` is chosen once, in `Init`; ids outside `Issued` are ids of no ticket.

Time is not modelled: a TTL may run out at any step. The code has no defence against four mishaps, and the variable
`disturbed` remembers the tickets they happened to:

1. the lock runs out under a handler that is between reading the flag and adding the job;
2. the flag is lost (its 24 hours, or its removal after an `add` that did take effect) while a claim on an unsold ticket is open;
3. the reply to a commit is lost, so that a committed run counts as failed;
4. a worker's process dies after the commit and before the report.

Every promise that is not unconditional is made for tickets outside `disturbed`. This is the result about the code: these
four are the only ways to sell a seat twice. Unconditional are `TxAtomic`, `HonestAnswer`, the first part of `JobOutcome`,
and the liveness properties.

### StandingReservation

One event, several tickets. `pc` goes `new`, `lock`, `begin`, `create`, `find`, `update`, `commit`, `unlock`, `done`; `begin` waits for a
connection, the next four are the calls inside `$transaction`. `view` is the transaction's snapshot: MySQL's default isolation
(repeatable read) fixes it at the first read, which Prisma does when it returns the created row. The update at `update` goes by
the ticket's id and sees the row as it is, so nothing fails if somebody has taken the ticket since; it waits only for a row lock
(the guard of `ReserveTicket`). `Commit` makes both writes visible at once; until then, and after `TxFails` or a crash, nothing is.

Here time is modelled, because the question is which time-out comes first. `Tick` is a second; `lockLeft` is the rest of the
lock's TTL, `left[r]` the rest of the limit a handler is under: `MaxWait` before the transaction, `TxTimeout` in it (the code
passes neither, so they are Prisma's 2 s and 5 s). `Tick` does not go past a limit: there, the handler's call ends or `TxFails`.
Awaits other than these two limits take no time of their own (a process that stalls between taking the lock and opening the
transaction makes matters worse), and expiry and time-out may come in either order within the same second. `late` remembers whose
lock ran out under its transaction. `OnTimeApart` is unconditional: of two buyers of one ticket, one is in `late`.

`StandingRefinement` maps this flow to `TicketSale`, although it has no flag: a ticket is held for the holder of the event's lock
that has picked it, withheld while that holder has failed and not yet freed the lock, and void once a handler in `late` picked it.

### JointSales

The two flows as they meet. A request is given, in `Init`, a key (a ticket: seating; an event: standing) and the process that
nginx picks; `LockUrl` says where that process takes its locks. `pc` and `tx` go through the calls of `SeatingReservation` and
`StandingReservation`, with their transactions as `queued`, `open`, `wrote`, `committed` or `failed`. What those modules count is
left open here: a lock or a flag may expire at any step, a job may be tried again any number of times, a dead handler or one that is
refused the lock is one that takes no further step. A retry after a *committed* run is `SeatingReservation`'s subject and left
out here, so that the causes below are the ones of two requests meeting. `lapsed` remembers whose lock ran out under it, `exposed` which
ticket's flag went while a sale needed it, `before[r]` who had booked when `r` looked at the database. The event id in a
seating request's body is left out: nothing compares it with the ticket's.

### Sessions

One user, because users share nothing; one key in Redis. A token is the second it was signed in, since two tokens of one user and
second are the same string. `Ttl` is what `redis.service.ts` makes of the setting: it divides by 1000, as for milliseconds, a number that
the token library takes for seconds, so the key goes long before the token lives out its time (`StoredIsValid` bounds the time since the
save; a session that is still valid may be forgotten, and a save that comes late may put a token that has run out). `ended` is a history variable: what the
key has held and no longer holds. `HeldWasSaved` compares the tokens themselves, so it speaks of any order of signing and saving: of two
devices the one that signs first may save last, and then the other's token is the younger one, held, and in `ended`. `CheckIsLoggedIn` reads and
drops the result, as `refreshTokens` does (`auth.controller.ts:69`), so that a token that was replaced or logged out still refreshes until
it expires; no doc or test says otherwise.

### Accounts

Each route is two or three calls with an await between them. A sign-up looks for its e-mail before it inserts; an application looks for its
user only (`users.service.ts:72`), never for an earlier application. `CreateUser` and `CreateApplication` are the inserts, which the unique
indexes may refuse. `Body` is what Nest hands to `applyToSeller(@Body() description)`: an object over HTTP, a text in the unit tests.
`ReplyLost` is a write that was carried out and answered with an error. What a decision asks for, an application and a verdict, is fixed in
`Init` (`asks`). The history variable `before` has the pairs of decisions of which one had been answered when the other arrived, so that
`StatusWasDecided` can say which decisions come last, as far as those who send them can tell.

### EventCatalog

An event and its tickets are one transaction: `CreateEvent` locks the place's row by its foreign key (so `RemovePlace` waits or
fails), `CreateTickets` draws the seats, `CommitEvent` shows both. Quantities are halves, since the DTO lets fractions and negative numbers pass;
`SeatNumbers` is the loop of `mapTicketData`. A client's three queries are separate calls: find, count, list. `Matches`
is the `||` chain of the repositories, by which a number of 0 counts as missing; a city that is not given filters nothing either
(`FindPlacesDto` has no validators, while `FindEventsByPlaceDto` requires the city).

Finding places is paged, and the client says where a page begins and how long it is: `Page` has the defaults of the code (a take of 0 is `PageSize`, as is a
missing one) and, from Prisma, the order of the ids for a query that asks for no order, and a negative take counted from the end. Ids are random, so `Rank` is any
order of the places. A client in `Pagers` keeps its filter and asks on, skipping what it has got, until a page is empty. `due` is what was there
for it at first, `came` and `gone` remember the clients whose list another place joined or left meanwhile: added, removed, or edited so that it
matches or no longer does. `PagesComplete` says what each of the two can do to a client.

Which requests come, with what inputs, and which places are there at first, is a member of `Loads`, chosen in `Init`.

`Catalogue` is the same without transactions: an event is listed in one step, with seats `1 .. n` (`n` the quantity, rounded up; a reference
definition, where `SeatNumbers` is the code's loop), at an open place, which then cannot be closed; an event is confirmed only as it is listed.
`CatalogRefinement` maps committed rows to it.

### HttpPipeline

A request's `kind` is its route's guards and its verb; `pc` is the part of the pipeline it comes to next. `RolesGuard` (APP_GUARD) runs before
the global `AccessTokenGuard`, so a staff route's token is verified twice and may expire in between; the role comes from
MySQL. A token may be of a user who is not there: then `findOneById` returns null, `user.role` throws a TypeError (`role.guard.ts:49`), and the
answer is the default filter's bare 500. Such an answer, also a library's own error, is a 5xx that no filter of the API sees, and is never reported. `Work` and `Return` are any handler: it changes something or not, and returns or throws; one that refuses has changed
nothing, which is what the modules above show of their handlers. `Respond` is interceptor and filters. `Report` is `slack.send` without
`await`: its rejection (`SendFails`) is unhandled and ends the process (Node's default), with all requests, events and reports in it.
nginx then tries the next process, except for POST and PATCH; `TriedAgain` is its default. Slack, nginx, Node and pm2 are
external. `ValidationPipe`'s rules, the serialised fields, Swagger and the access log are left out.

## 3. Runs

| Run | Question | Instance |
|---|---|---|
| `queue` | ownership, attempts; does every job settle? | 3 jobs, 2 workers, 3 attempts, 1 stall |
| `seating` | safety of handler, worker and queue together; `IInv` (`OneClaim` is a part of it) | 2 requests, 2 workers, 1 ticket and 1 unknown id, 2 attempts, 1 stall |
| `seating_live` | does every handler and every claim end? does it implement `TicketSale`? | 2 requests, 1 worker, 1 ticket, 1 attempt, no stall |
| `standing` | what survives when locks run out? which TTL is enough? does it implement `TicketSale`? | 2 requests, 2 tickets, locks of 5 s (in force) and 8 s, limits 2 s and 5 s |
| `standing_late` | does every reservation have its ticket? (No: finding) | 2 requests, 2 tickets, limits in force |
| `sessions` | what does Redis keep, what do devices hold? | 3 calls, a second of 2 ms, clock to 7 |
| `accounts` | do races end at the unique indexes? is a status the last decision? | 2 sign-ups, 2 applications, 2 decisions, 2 e-mails |
| `accounts_http` | is an application refused only for cause? (No: finding) | the same, with the body as it comes over HTTP |
| `catalog` | are events complete, queries consistent, pages complete? does it implement `Catalogue`? | two cases: 2 places, 2 events (two of the quantities -1, 1.5 and 2), 1 edit, 1 client; and 2 places, a third that is added, 1 edit, 1 client that pages by 2, by 1, or by 1 from the end, from 0 or 1 |
| `sales` | when can two buyers share a ticket? `JointIInv` | 3 requests, 1 ticket, 1 event, 2 processes with a lock server each |
| `sales_split` | is a seat sold once, if no lock or flag is lost? (No: finding) | the same |
| `pipeline` | what do failures around handlers do? | 2 requests (a staff DELETE or a public GET, beside a logout), 1 job, 2 processes, with NODE_ENV development and production |

Why the bounds are enough. A double sale needs two requests for one ticket; a repeated run needs two attempts or one stall; two workers
are needed for two transactions at once. Seats do not interact, so one real ticket and one unknown id show all there is. In the standing
flow, two requests are a late handler and one that overtakes it; two tickets show a choice; 8 s is one more than both of Prisma's limits. In
`sales`, sharing concerns two buyers and one ticket, and the third request is one that stands in between (it may hold the lock that an
expired one left, or share with both); two processes with two servers give both the placement within a server and across. A
session needs a call that replaces a token, one that reads it and one that is late; two seconds per unit of TTL make the division lose something. Two
sign-ups race for one e-mail; two decisions are an earlier and a later one, or two at once, on one application or on two. A place that comes has the first, the
middle or the last id, and any of three goes: that is a row before the next page, in it, or behind it. Events and pages are two cases of one run, since no
rule joins them; the case of the events has places that are added, removed and edited under it as well. In `pipeline` the second request is there to be lost with the first one's process, and two tries are
a first and a second process; the kinds chosen carry all three guards and differ in what nginx repeats. The theorems remove the bounds of
everything but liveness.

Symmetry is used where no liveness property is checked; requests, workers, tickets, e-mails and cities are interchangeable in every definition where they
are permuted. The symmetry of `sales` also swaps the two processes together with their servers. Liveness runs have none. Every run has
`CHECK_DEADLOCK FALSE`: the system is idle when all requests are answered and all jobs settled. Types: the inductive invariants that
`seating`, `standing`, `sales` and `pipeline` check begin with `TypeOK`; those of the other modules are proved, for all constants.

**Findings.** (1) `standing_late`: `reservations.service.ts:62` holds the event's lock for 5 s over a transaction that may take 2 s + 5 s. The lock
runs out under an open transaction; a second handler picks the same ticket, and the later update takes it from the earlier buyer: two reservations, one ticket. The handler whose lock ran out
cannot free it and answers an error, so at most one of the two clients is told `reserved`, though it may be the one without the ticket. `NeverLate` says what
would be enough: a TTL of more than the sum; then no ticket is ever void (`CoveringLockSpoilsNothing`). (2) `sales_split`: app-1 and app-2 lock in `redis_lock`, app-3 and app-4 in `redis_cache`
(`docker-compose.yml:30`, `:90`, `:150`, `:210`), so two handlers hold the lock of one seat at once and sell it twice. Nothing else is wrong with it:
with one lock server for all processes, the property holds (`OneServerSellsOnce`). (3) `accounts_http`: `@Body()` without a
key hands an object to Prisma's String column, and every application is refused.

Seen while modelling, and not stated as properties: the comment at `reservation.processor.ts:10` has one processor work at a time, which
`concurrency: 1` gives per process only; `redis.service.ts:71` takes the refresh token's seconds for milliseconds; the filters' comments say "production
only" (`http-exception.filter.ts:124`), the code "not development".

**Fairness.** In the queue and the seating flow, weak for every handler step (each awaited call returns or fails), every worker step (Prisma bounds
transactions), backoff, stall check, limiter and the two TTLs, and strong for a waiting job being started by some worker
(workers poll, but the limiter closes in between). Arrivals and crashes have none. `AllAnswered` relies on `LockFails`: the lock's
attempts run out. The standing flow has safety properties only (that its
lock comes free is the TTL's doing). In the pipeline, weak for a
request's next step (guards, handlers and filters return), for a queue event being handled, and for a report being accepted or not; no
process has to come back, since nginx answers when there is none. The other modules have safety properties only.

## 4. Proofs

All theorems hold for every value of the constants allowed by the named assumptions of the modules (`QueueAssumption`, `SeatingAssumption`,
`StandingAssumption`, `JointAssumption`, `SessionsAssumption`, `AccountsAssumption`, `CatalogAssumption`,
`PipelineAssumption`): at least one attempt, one process and one upstream, null values that are not requests or tickets, kinds of requests
that are disjoint, limits that are natural numbers. The runs evaluate them.

* `ReservationQueueProofs`: `QueueIInv` (types, ownership, attempts) is inductive. `QueueStepOK` is stated for any step, and is reused
  by the seating proofs through `QueueUnderNext` (every step of the system is a step of the queue or leaves it alone; hence
  `SeatingUsesQueue`: `Spec` implies `QueueSpec`). `QueueEndIsFinal`: a settled job never runs again.
* `SeatingReservationProofs`: `IInv` is inductive (one lemma for each action, or group of actions of the same shape), and with it
  `TypeOK`, `SoldOnce`, `TxAtomic`, `OneClaim`, `HonestAnswer`, `JobOutcome`, `OnePromise` and the action property `SaleIsFinal`.

The argument for seats. `SoldOnce` alone is not inductive: the worker books without looking, so one must know that its job is the
only one. A *claim* is a handler about to add a job, or a live job. `LockHeld` says who is between reading the flag and
adding the job holds the lock; hence what it has read is still true (`FreshReads`); hence, when it raises the flag, no claim is open;
from then on the flag shields the claim (`FlagGuards`) until the ticket is sold; hence there is one claim (`OneClaim`), and a
worker that commits finds the ticket unsold (`UncommittedClaim`).

* The same module: `Refinement`, that `Spec` implements `TicketSale`. `Allowed` lists how the abstract status of a ticket may
  change in a step; one lemma for each group of actions shows that it changes so (`StatusCases` computes it), `AllowedIsStep` that
  such a change is a step of the sale or a stutter. It uses `IInv` in the state before.
* `StandingReservationProofs`: `StandingIInv` is inductive, hence `TypeOK`, `AllOrNothing`, `OnTimeApart`, `PromiseKept` and `NeverLate` for all values of
  the TTL and the limits. `CoveringLockSells`: with a TTL above the sum of the limits, no two
  reservations share a ticket. The argument: a handler that is on time holds the lock (`LockHeld`), so no other that is on time
  commits while it looks (`FreshView`); and with a long enough lock there is always more time left on it than on the limits
  (`LockCovers`), so nobody is ever late. `StandingRefinesSale`: the flow implements `TicketSale`. It needs that a ticket which no late handler has
  picked is sold only by the holder of the lock, and that nothing is picked before the search or after the transaction has failed (`NothingPicked`).

* `JointSalesProofs`: `JointIInv` is inductive, hence `SharedForCause`, `OverlapOnly` and `OwnerBooked` for any processes, placement of locks, events
  and tickets. The argument: a handler in its critical part whose lock has not run out holds it (`LockHeld`), so of two seat requests of one server only
  one is past its checks while the flag or the unsold ticket would have stopped the other (`SeatsApart`, with `FlagUp`); of two standing ones the later
  looks when the earlier has committed or failed (`StandsApart`). `SeenIsAvoided` is independent of locks: `isAvailable` is never set back, so what a
  request saw sold is never what it takes. `OneServerSellsOnce`: under the hypothesis that all processes have one `LOCK_URL`, `LockSellsOnce`
  holds, which `sales_split` shows to be false for the placement in `docker-compose.yml`.
* `SessionsProofs`: `SessionsIInv`: a token is in Redis, or was, before it is handed out (`AnswerWasSaved`), so that what a device holds was saved
  (`HeldWasSaved`), and the saved one is held, about to be handed out, or lost with its handler (`SavedIsHeld`). A key with a lifetime is within it (`KeyAlive`),
  hence `StoredIsValid`: no token is kept for longer after its save than a token lives.
* `AccountsProofs`: `AccountsIInv`, with `Progress` (which row a handler has written by when, and that a pair in `before` has its first decision answered). The
  argument for `StatusWasDecided`: whoever sets the status has not ended, so nobody that was carried out can have arrived after it, and it is the last
  (`EndsLast`); a later arrival does not change what is before what, until it is carried out and sets the status itself. `RefusedForCause` is proved under
  the hypothesis that the body is a text, which is what `accounts_http` shows to be false over HTTP.
* `EventCatalogProofs`: `CatalogIInv`: what a transaction has drawn is what its commit shows (`Steps`, `Rows`), and what a client found exists (`Seen`).
  `CatalogPagesComplete`: as long as none has come, what a client has got is behind the point it has reached, and as long as none has gone, what it misses is ahead
  (`PagesAhead`). The steps rest on lemmas about any finite set of rows: their indices are `0 .. n - 1` without a gap (`IndexOnto`, from the pigeonhole theorem of
  the library), so the rows of a page are the next ones (`PageContiguous`) and after an empty page there is none (`PageEmpty`).
  `CatalogRefines`: the commit is the step at which the abstract catalogue lists the event; it needs that the place is still there (`PlaceOfEvent`, an invariant
  of open transactions as well) and that the loop's numbers are `1 .. n` (`SeatsAsWished`).
* `HttpPipelineProofs`: `PipelineIInv`: who is in the pipeline is in a live process (`Placed`), within nginx's tries (`ForwardedOnce`), and has shown
  what its part of the pipeline comes after (`Guarded`); whoever is before its handler and has changed something is a DELETE that was repeated (`Effects`). Hence
  `ChangedWithCredentials`, `AnswerTellsEffect`, and that a POST or PATCH goes to one process (`WritesGoOnce`). `LostForCause` alone is not inductive: it
  takes `ReportsTrue`, that a report is of a request already answered or a job that failed, so that a rejected report never takes its own request down.

Only model-checked: liveness (`JobsSettle`, `AllAnswered`, `ClaimResolves`, and the pipeline's `EveryRequestEnds`, `FailedJobReported`,
`FailureReported`), which is out of the prover's reach. Every safety property that a passing run checks is proved.

## 5. Not modelled, and what is left

* Configuration: `lock.ts` reads `wait`, `maxAttempts` and `ignoreUnlockFail` without the `lock.` prefix, so the library's defaults apply. This happens once,
  at start-up; the models leave the number of attempts open and take the TTL as it is in the code.
* A live worker that loses its job lock (a blocked event loop): a stalled job's worker is dead in the models.
* Which fields an answer shows (`@Exclude`, and with it how a client learns an id), the checks of `ValidationPipe` field by field.
* MySQL's lock manager: row locks are guards where they matter (`StandingReservation`, `JointSales`, `EventCatalog`), dead-locks are failed transactions.
* Logger, access log, Swagger, Prisma client, seed and load tests: output, generated code, or not part of the server.

What could still be added: a refinement of `TicketSale` by `JointSales` for the case that locks have one server (the model would have to remember at which
tickets the two kinds of request have met); live stalled workers.
