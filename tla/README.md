# shop-api: a formal model

TLA+ modules, TLC configurations and TLAPS proofs for the `shop-api` service
(`src/api-service`, its SQL schema in `src/migrations`). The service is a REST
API over PostgreSQL. Redis holds the records of the `Idempotency-Key` header,
which are meant to keep mutating requests from being carried out twice.

Contents: [1 Inventory](#1-inventory), [2 Modules](#2-modules),
[3 Runs](#3-runs), [4 Proofs](#4-proofs), [5 Disagreements with the
documentation](#5-disagreements-with-the-documentation),
[6 Not modelled](#6-not-modelled), [7 Plan](#7-plan).

## 1 Inventory

| component | code | state | operations |
|---|---|---|---|
| idempotency layer | `internal/idempotency/idempotency.go` | a Redis hash per key: `request_hash`, `owner_token`, `locked_until`, the stored response, an expiry | `Require` around a handler, `Store.Begin` (claim, poll), `Complete`, `Abort` |
| products, stock, images | `internal/repositories/{product,image}.go`, their services and handlers | tables `products`, `product_categories`, `images` | create, list, get, delete, decrease stock; create, replace, delete, get an image |
| suppliers | `internal/repositories/supplier.go`, service, handler | tables `suppliers`, `addresses` | create, list, get, delete, get and update the address |
| clients | `internal/repositories/client.go`, service, handler | tables `clients`, `addresses` | create, list with filter and pages, delete, get and update the address |
| process lifecycle | `main.go`, `internal/database/postgres.go`, `internal/handlers/health.go` | the pool, the Redis client, the HTTP server, the signal context | start-up, readiness, shutdown with a timeout, deferred closes |
| router and handlers | `internal/handlers/*.go` | none (a static table) | which routes are wrapped in `Require`; decoding, parsing, the status and code for each result of a service |
| configuration | `internal/config/config.go` | none (read once) | `Load` with its bounds |
| data models | `internal/models/*.go` | none | none |
| build, deployment, e2e tests | Dockerfiles, `docker-compose.yaml`, `test/` | Redis's append-only file | a crash of Redis, and its restart from that file |

**Interaction.** A handler goroutine per HTTP request runs `Require` (for
`POST` of suppliers, clients and products and `PATCH` of stock), which calls
Redis to claim the key, then the inner handler, then Redis again to store the
response, and only then answers. The inner handler calls a service, which
validates and calls a repository; a repository runs one transaction, or one
statement, on a connection of the pool. The goroutines share nothing in
memory: they meet in Redis, at the key's record, and in PostgreSQL, at rows,
row locks, foreign keys and the bounded pool. Cancellation reaches all of this
through the request's context.

**What is hard.**

* *Two stores, no common transaction.* The handler's commit and the storing of
  its answer are separate steps; either side can fail or be late.
* *Leases.* A claim is exclusive for a minute of Redis's clock, not for as long
  as its owner runs. Owners can lose the key, retries can take it over, stale
  owners can come back.
* *Lost replies, duplicate and late commands.* The Redis client sends a command
  again when its reply is lost, and a command whose caller has given up may
  still be carried out. The same holds for a `COMMIT`.
* *Statuses as the only evidence.* A handler turns the result of a service into a
  status, and the layer stores it. What a client may conclude from a 201, a 404
  or a 500 depends on all of the handler, the layer and the transaction.
* *Redis forgets.* Its file is written out once a second. What it acknowledged in
  between is gone after a crash, and deadlines go by while it is down.
* *Pages of a moving list.* The client list is ordered by random ids and read by
  offset, so each page is cut from a different list.
* *READ COMMITTED.* Each statement sees what is committed when it runs, so every
  decision taken on one statement's result is at risk at the next, unless a row
  lock or a constraint holds it.
* *Waiting.* Row locks and pool connections are waited for without a queue
  discipline the code controls; waiters for a key poll.

**What makes each component correct.**

* idempotency layer: at most one request has a running lease or a kept answer
  on a key; an acknowledged answer stays for a whole time to live; a request is
  only ever told the answer of its own key and payload; it behaves as one
  write-once register per key; every request is answered; whatever Redis loses, an
  answer that has reached its file survives, and a second execution needs a record
  that was lost or left unanswered.
* handlers with the layer: a success means that exactly one of the tries made with
  the key has taken effect, a refusal that none has or will, as long as the key's
  record was neither lost nor left unanswered.
* the service as a whole, its transactions interleaved statement by statement:
  stock is short of what its keys have paid for, none of them twice or in part; requests
  do what they would do at once and alone.
* repositories: every request has the effect and the answer it would have had,
  had it run at once and alone; references are kept; no stock is lost or sold
  twice; transactions do not wait on one another for ever.
* clients and addresses: an owner and its address live and die together; an
  address update meets either a living owner or "not found"; what a walk through
  the pages misses or repeats is bounded by what was deleted and created under way.
* lifecycle: a signal ends the process whenever it comes; an exit code of zero
  means that every accepted request was answered; no transaction is cut off.

`PROJECT.json` lists the hazards one by one, each at its line, with the
properties that cover it.

## 2 Modules

| module | what it is |
|---|---|
| `AnswerRegister` | abstract: what a key promises, without leases, owners and clocks |
| `Idempotency` | the layer as the code has it; implements `AnswerRegister` |
| `IdempotencyProofs` | theorems about `Idempotency` |
| `MCIdempotency` | its instances for TLC |
| `Durability` | `Idempotency` over a Redis that crashes and comes back with what its file has; still implements `AnswerRegister` |
| `DurabilityProofs` | theorems about `Durability` |
| `MCDurability` | its instance for TLC |
| `Transactions` | what the repositories share: connections of the pool, row locks, broken connections; extended by `Catalog` and `AddressBook` |
| `TransactionsProofs` | lemmas about locks that both use |
| `Shop` | abstract: requests about products carried out in one step each |
| `Catalog` | products, stock, suppliers and images statement by statement; implements `Shop` |
| `CatalogProofs` | theorems about `Catalog`, its refinement of `Shop` included |
| `MCCatalog` | its instances for TLC |
| `Directory` | abstract: owners, each with its address, and requests of one step |
| `AddressBook` | clients and suppliers with their addresses statement by statement; implements `Directory` |
| `AddressBookProofs` | theorems about `AddressBook`, its refinement of `Directory` included |
| `MCAddressBook` | its instance for TLC |
| `ClientPages` | the client list read page by page while clients come and go |
| `ClientPagesProofs` | theorems about `ClientPages` |
| `MCClientPages` | its instance for TLC |
| `Handlers` | the status and code of every handler by the result of its service; used by `Api` and `AddressBook` |
| `Api` | the composition of `Durability`, `Handlers` and `Shop`: the service as its clients see it |
| `MCApi` | its instance for TLC |
| `Service` | `Api` with `Catalog` in the place of `Shop`: the layer around transactions that run statement by statement; implements `Api` |
| `ApiProofs` | theorems about `Api` and `Service` |
| `MCService` | its instance for TLC |
| `Lifecycle` | `main.run`, the serving goroutine, the requests in flight |
| `LifecycleProofs` | theorems about `Lifecycle` |
| `MCLifecycle` | its instances for TLC |

Operators named "Mutant" in a comment are not part of a specification. Each is
a plausible mistake in the definition that follows it, and shows that some
property of a run would notice that mistake.

### Idempotency

A *request* is one HTTP request; a client's retry is a further request with the
same key and fingerprint. `Begin` draws a random owner token per request, so
the request stands for its token. `redis[k]` is the hash under a key: `hash`,
`owner` and `answer` are `request_hash`, `owner_token` and the three response
fields; `lease` and `ttl` are the ticks left until `locked_until` and until the
key expires. Keeping what is left, instead of a clock and absolute times, keeps
the state space finite without a bound on time. The response is abstracted to
who produced it and whether it was a 2xx (`"ok"`), a 4xx (`"refused"`) or a 5xx
(`"failed"`).

`pc` follows `Require`: `arrived`, `claiming` (the claim loop), `waiting` (the
25 ms timer), `running` (the handler), `completing`, then how the request was
answered. Each branch of the two Lua scripts is a predicate (`Reservable`,
`Conflicting`, `Replayable`, `Leased`, `Owned`) and each write an operator
(`Reserve`, `Store`); a script is one atomic step, as Redis runs it.

Failures are actions: a claim or completion that fails and may still be carried
out later (`ClaimFails`, `CompleteFails`, `LateClaim`, `LateComplete`), a reply
that is lost after which the client library sends the command again
(`ClaimReplyLost`, `CompleteReplyLost`; go-redis retries by default and
`main.go` leaves the default), a cancelled wait, and the death of a request at
any point (`Die`: a panic or the end of the process; `Abort` is empty and
nothing releases the key). `RunHandler` writes a 2xx only after it has
committed and a 4xx only if it never will. A 5xx leaves it open, as it does when
the confirmation of a `COMMIT` is lost: `LateEffect` is such a `COMMIT`, carried out
after the 5xx was written or after the request was cut off in its handler (`"cut"`).
This is an assumption about handlers here, and proved of them by `Api`.

`promise` is a history variable that no action reads. When Redis reserves a key
for `p`, it promises `p` the key for `Lease` ticks; when it stores `p`'s answer
it promises to keep it for `TTL` ticks. The properties speak of it.
`LeaseHonoured` says without it what a lease is worth, step by step: until it is over
its record is there and its owner's, only time takes from it, and only the owner
answers.

### Durability

`docker-compose.yaml` (line 34) runs Redis with an append-only file at its default
policy. `disk[k]` is what the file has of key `k`. `Sync` writes out what Redis
knows; `Crash` is a crash with the restart that follows it, after which Redis knows
what was in the file. Deadlines are absolute, so leases and times to live in the
file go by as those in memory do. A Redis that is down is one whose
clients see errors, which `ClaimFails` and `CompleteFails` are. `lapsed` is a history
variable: the keys whose record was ever lost, or whose lease ever ran out with no
answer stored. It is exactly for these that the layer may execute again.

### Catalog

PostgreSQL is outside the repository and is modelled from how the repositories
use it: a statement is atomic and sees what is committed; `FOR UPDATE` and the
implicit locks of foreign keys, upserts and deletes are held until the
transaction ends; a statement whose locks another transaction holds waits;
`COMMIT` makes the writes visible and frees the locks in one step. Ids are
random UUIDs, so a row that a request inserts has the request for its id.

Each of `ProductRepository.Create`, `DecreaseStock` and `SupplierRepository.Delete`
is a sequence of actions, one per statement, between `Begin` (a free connection
of the pool) and `Commit` or the deferred `Rollback`. `ProductRepository.Delete`
and the image operations are one statement each (`Execute`), and so are the reads
(`getProduct`, `listProducts`, `getProductImage`, `getImage`), whose rows are in
`shown`. An image has its product and its content, so that a replacement can be
told from what it replaces. Sentinel errors (`ErrSupplierNotFound` and so on) are the
values of `outcome`. The image id that a decrease's reply carries is left out.

`GiveUp` is the end of the request's context, or of its connection, at any
point: the caller is told of an error, and the server, later, rolls back or,
if it was already sent the `COMMIT` or the only statement, perhaps carries it
out (`ServerRollback`, `ServerCommit`). Until then its locks stay.

`written` is the uncommitted new stock; `applied` is a history variable. With it
`StockMovesByDecreases` does the accounting of stock step by step: a row's
stock moves only by the quantity of the one decrease that is applied in the step.
`StockAccounted` says what that adds up to: the units a product is short of are those
sold (`Sold`, each unit with its buyer). `TriesMakeOneImage` is about the one creation that
the layer does not wrap: however often it is tried, and however late a try is carried
out, the product is given one image until that is deleted (`Given`, `Dropped`), and who is
told that there is an image already has had no effect, even if the image comes from an
earlier try.

`NoDeadlock` says that no set of requests waits on itself. `Awaited` are the locks of which
the next statement of a request takes one: for the foreign key check of a supplier's
deletion these are the locks of all the supplier's products, as PostgreSQL locks the
first it finds, which may be any. A request may have to wait (`WaitsOn` of `Transactions`)
if one of the awaited locks is kept from it, or if others have all the connections, and
`NoDeadlock` takes who may have to wait for waiting. It is stopped (`Stopped`) if it
cannot have any of the awaited locks, or no connection. That these are the locks, and that
nothing else stops a request, is `OnlyWaitersStop`: a request that is not stopped has a
next step, and one that is has none.

### AddressBook

Clients and suppliers deal with their addresses in the same statements, so one
module stands for both; a client is an owner to which no product refers, and
`InUse` are the suppliers to which products do. (`Catalog` has the same deletion
with the products that come and go, and without the address.) `Create` inserts
the address and then the owner, `Delete` locks the owner, deletes it and then
its address; `wrote` are the writes that `Commit` makes visible. `UpdateAddress`
is one statement, which joins the owner's row as it is committed, without a lock,
and locks the address's row: between the two statements of a deletion it can
still come first, afterwards it waits, and once the deletion has committed it
finds no row. `GetAddress`, `GetByID` and the lists are there to observe what
others see meanwhile: `shown` is the content of a reply.

`Directory` says what this adds up to: one function from owners to addresses,
and requests that are carried out in one step each, or refused for a reason
that holds at that moment, or answered with an error and carried out later
or never. `StatusIsTrue` is what this means for the status the caller reads, by way of
`Handlers`. `NoDeadlock` and `OnlyWaitersStop` are as in `Catalog`.

### ClientPages

One caller reads the list with a limit and an offset, as long as a page is full,
while others create clients (with random ids, so anywhere in the order) and delete
them. `ValidOptionalInt` and `ValidFilter` say which parameters are refused: a name
without a surname, a parameter given twice, a limit of zero, a negative offset, a
number beyond 32 bits. The walk ends with the first page that is not full, or when
the handler refuses its parameters. The clients that were there all along and are
missed are no more than those deleted under way (`MissedAreDeletions`); those shown
again are no more than those created under way (`RepeatsAreCreations`).

### Handlers, Api

`Handlers` has an operator per handler: what it answers to `"ok"`, to each sentinel
error, to any other error, and to a request that it turns down before it calls
its service (`"invalid"`). All checks of ids, payloads and JSON are that one choice.

`Api` is the whole path of a request about products, images and suppliers. A
fingerprint is a hash of method, URI and body, so it stands for the operation.
Routes wrapped in `idempotent(...)` (`Wrapped`) go through the layer of `Durability`;
the others call their handler directly. The handler calls a service, which is `Shop`:
the tables change in one step, or the request is refused, or it fails and may
take effect later (`TakeEffect`). That `Shop` may stand for the statements of
`Catalog` is what `Service` shows. `written` is the reply that a request's own
handler wrote, `Told` the one its caller got: a replay is the reply of the request
that stored it. `Tries` are the requests a client cannot tell apart, those made with one
key.

`StatusSettlesTheKey` is what a client may conclude. It says less in three places. A request
without a key is its own only try, so what repeating the creation of an image comes to
is left to `TriesMakeOneImage` of `Catalog`. For a key that has lapsed only the requests
themselves are spoken of, not how many of them took effect. And it is about replies that
are written; the server's write timeout may keep one from arriving (section 6).
`ImplementsLayer` says that
the composition takes only steps of `Durability`, that is, that the handlers keep
what `RunHandler` assumes of them.

### Service

`Service` extends `Api` by the variables of `Catalog` that `Shop` does not have: `stage`
(where a request's transaction is), `held` (its row locks) and `stock` (what its
uncommitted `UPDATE` left). `Db` is `Catalog` over these and `Api`'s tables. Nothing is
carried out at once any more: while a request waits for a lock or a connection, its
claim ages in Redis, a retry may claim the key, Redis may crash, the process may
die. `orders` are the operations that get to a repository: a request that its handler
finds invalid never begins a transaction, and asks the database for nothing.

`Work` is a step of a repository. The handler writes its reply (`WriteReply`) in the step
in which the repository's result is known, as nobody sees it earlier: the commit, the
refusal, or the error of a transaction that has been given up. `Layer` is what the layer
does around the handler; a refused transaction is rolled back by a `defer`, so that the
handler returns, and `Complete` runs, only after that (the guard on `stage`).
`Cut` is the end of a request in its handler, which breaks its connection:
`Settle` is the server that notices, or carries out the `COMMIT` that had been sent.

`ImplementsApi` is the composition's own correctness: two components that are each
right need not be together. `ChargedPerKey` is what all of this is for. It counts the units
that are gone by key and not by request, so that it fails when a retry decreases
the stock again, when a decrease is lost, and when one is carried out in part.

### Lifecycle

`main` follows `main.run`: configuration, PostgreSQL, Redis, the `select`, the
shutdown, then the deferred calls in their order, `closingRedis`,
`closingPool`, `waitingForPool`. `server` is the goroutine that runs
`ListenAndServe` and reports its error to `serverErrors`, a channel of one.
`Signal` is the first SIGINT or SIGTERM, which kills the process before
`NotifyContext` and ends `applicationContext` afterwards. A request is reduced
to its uses of what `run` closes: claim in Redis, transaction in the pool, store
in Redis. Redis and PostgreSQL are well once the start-up has succeeded, so that
what goes wrong is the doing of the process itself; their failures are in the
other modules. `ReportKept` is about the channel: the goroutine never blocks on its
report, and `main.run`, which receives at the `select` or once more after the shutdown,
never waits for a report that cannot come. `ClosePool` is the end of the process, and cuts off what runs.

## 3 Runs

| run | question | result |
|---|---|---|
| `idempotency` | do leases and stored answers exclude one another, are leases honoured, answers kept and genuine, is it a register? | holds |
| `idempotency_live` | is every request answered, whatever its competitors do? | holds |
| `executed_twice` | is an operation never carried out twice? | violated, see 5 |
| `durability` | what survives a crash of Redis, and when can an operation start twice? | holds |
| `catalog` | are requests atomic, references and stock kept, does an image whose creation is tried again stay one, and can nobody deadlock? | holds |
| `catalog_live` | does every transaction end, or can they wait on one another? | holds |
| `address_book` | do owners and addresses live and die together, and are requests about them atomic, truly answered and free of deadlocks? | holds |
| `client_pages` | what can a walk through the client list miss or repeat? | holds |
| `service` | is no key charged twice when transactions interleave with leases, retries and crashes? what does a status say about all the tries made with one key? does the whole do what `Api` says, and the handlers what the layer relies on? | holds |
| `documented_statuses` | are all statuses ones that the API document declares? | violated, see 5 |
| `lifecycle` | does a signal end the process, is a clean exit clean, is no transaction cut off, no report blocked or lost? | holds |
| `committed_unstored` | is the response of whatever has committed stored? | violated, see 5 |

**Bounds.** `idempotency` has three requests, one key and two payloads: an owner
that may still be running, a request that takes over or reuses the key, and one
that reads what is there. Actions touch only their own request and their own
key's record, so further keys add independent copies. `Lease = 2` and
`TTL = 3` make a lease that can be half over and a key that outlives its lease;
time is unbounded. `idempotency_live` has two requests that compete for the same
answer, with the same lease and time to live. `executed_twice` has a
longer `TTL`, so that its trace turns on the lease and not on the expiry of
the key. `durability` has two requests, two payloads, and the same lease and time to
live, so that a crash can bring back a record of which half the lease is left, or none
of it; crashes are unbounded. `catalog` has three requests, of any of the operations (including what
can be done with a product that another request has just created, and the deletion of
an image that another has), a supplier,
a product with two units and an image, and two connections: two transactions
meet while a third waits for the pool. Two units and decreases of one and two
make decreases that fit alone and not together. `catalog_live` has the operations that
take locks another transaction of the run can want; it leaves out reads and the
replacement and deletion of images. `address_book` has three requests, of any
of the operations and also on owners that another request creates, a client,
a supplier in use, two addresses and two connections: an update or a reading
meets a deletion at each of its stages while a third request waits or looks on.
`client_pages` has four clients at the start and three more ids at places between,
before and after them, pages of one and two, and a `MaxInt32` of five, which a walk
that creations keep going reaches. `service` has two requests, two keys and two
connections, for a product with two units: decreases of one, malformed ones (of zero),
and, next to them and outside the layer, the creation of the product's image and its
deletion, which lock the same row. The two are a try and its retry, two purchases under
keys of their own, or one whose product goes away while it waits. `Lease` and `TTL` are
one tick, so that any wait can outlast both, and Redis crashes. More requests than two are
left to `ServiceImplements`, `StatusSettles` and `KeysCharged`. `documented_statuses` has two
readers; its trace needs only one of them.
`lifecycle` has two requests, one that can be ahead of the other at each of the
steps of a shutdown; requests do not interact there, so more would add
nothing. Data is otherwise unbounded by the model: there are no other counters to cap.

**Symmetry** is used in runs without liveness only; requests, keys
and fingerprints are interchangeable.

**Deadlock.** `Idempotency`, `Durability`, `Api` and `Service` never stop, their clock goes
on.
`Catalog` and `AddressBook` stop when every request has its answer, `Lifecycle` when
the process has exited, `ClientPages` when the walk has ended and no id is left, so
their configurations switch TLC's deadlock check off. TLC's check would not do anyway:
two transactions can be stuck while others go on. That nobody is stuck is what
`NoDeadlock`, `catalog_live` and `SignalEnds` show.

**Fairness.** In `Idempotency`, weak fairness of the clock, of the goroutines
(`Begin`, the claim, the handler, the completion) and of the poll timer: the Go
scheduler and the timers provide it, and the handler's own end is what
`catalog_live` shows. Strong fairness of `ClaimReserved` says that the network
does not lose the reply of every single claim that reserves the key; without it a
request could claim, lose the reply and wait for its own lease again and again.
In `Catalog`, weak fairness of the pool, of each request's next statement once all the
locks are free that it may come to need (`Unhindered`: a supplier's deletion is not
obliged to come upon the one product of several whose lock is free), and of
the server's noticing a broken connection. Weak fairness is enough for lock
waits because there are finitely many requests; with an endless stream of
them PostgreSQL's lock queue would be needed. No failure (`Die`, `ClaimFails`,
`GiveUp`, ...) is ever obliged to happen. In `Lifecycle`, weak fairness of
`main.run`, of the serving goroutine and of each request's handler; since the
shutdown's timeout is an action of `main.run` like its success, nothing obliges
the timeout to happen as long as the requests end. Signals, new requests
and a broken start need not happen, but `SignalEnds` holds whenever they do.

## 4 Proofs

`IdempotencyProofs` proves, for every set of requests, keys and fingerprints and
every `Lease` and `TTL`:

* `TypeCorrect`: the type invariant.
* `Exclusive`, `Backed`, `Kept`, `Genuine`: the four safety invariants of the
  run `idempotency`.
* `Implements`: `Idempotency` implements `AnswerRegister`. Refusals are among the
  answers.
* `LeasesHold`: `LeaseHonoured`, a property of steps.
* `OneReply`: in every state the claim script has exactly one of its four replies.

Assumptions: `Lease` is positive; `TTL >= Lease`, which `config.Load` guarantees
by refusing an `IDEMPOTENCY_TTL` below one minute, the lease (without it a
record could expire under a running lease and `PromiseBacked` would be false);
`None` differs from the values it is compared with.

The argument. `OnePromisePerKey` is not inductive: that a claim may be granted
must follow from what the record says, and the record does not mention
promises. The inductive invariant `Inv` adds `PromiseBacked`: a promise in force
is mirrored by the key's record (its owner is the promisee, it lives at
least as long as the promise, and, while unanswered, its lease is what is left
of the promise). Then a reservable record proves that no promise is left on
the key, an owner's record that no other is. `RecordGenuine` and
`ResponseGenuine` trace what is stored, and what is about to be, back to the
request that produced it; with them a replay is genuine. The refinement maps a
record to the answer stored in it, if any: `Complete` (acknowledged or not,
on time or late) is the register's `Settle`, `ClaimReplay` is `Tell`, a tick
that lets keys expire is `Forget`, and every other step, take-overs included,
leaves the register alone. `LeasesHold` needs an invariant of its own, `Outlived`: a
record outlives its lease, which is what `TTL >= Lease` is for.

`DurabilityProofs` proves the same way, for every set of requests, keys and
fingerprints, with Redis crashing at any time:

* `DurableTypes`: the type invariant.
* `SyncedSurvive`: `SyncedAnswersSurvive` of the run `durability`.
* `StartedOnce`: `OneStartUnlessLapsed`, which is what is true of
  `NeverExecutedTwice`.
* `DurableImplements`: the layer still implements `AnswerRegister`. A crash is the
  register's `Forget`, which is all that the register says about keys that expire.

The argument. A crash brings back a record of the past, so the invariant says that
whatever is on disk was once in memory: it is the record of a request that claimed
the key, and an answer on disk is the answer in memory, since nothing but expiry
displaces an answer. For a key that has not lapsed, the request that was first
to start a handler still owns the record, so nobody else can claim it.

`TransactionsProofs` has lemmas that the next two modules share: a lock that
is taken when it is free, and the release of all of a transaction's locks, keep
any two transactions from holding conflicting locks; requests that are not over do not
all wait for connections of one another; who need not wait can have every lock it may
come to need, and who is not stopped the one it needs (`Waiting`, `Free`); a request that has fewer stages
left makes the stages of all fewer (`OneStepLess`).

`CatalogProofs` proves, for every set of requests, all operations they may ask
for, all seed rows and every size of the pool:

* `TypeCorrect`: the type invariant, which says that no stock is negative.
* `References`, `DecisionHolds`: `ReferentialIntegrity` and `StockDecisionHolds` of the
  run `catalog`.
* `StockMovesOnce`: `StockMovesByDecreases`, the accounting of stock step by
  step.
* `StockAddsUp`: `StockAccounted`, the accounting of stock as a whole.
* `TriesAddUp`: `TriesMakeOneImage`, for any number of tries.
* `NobodyDeadlocks`: `NoDeadlock`, however many requests share however small a pool.
* `WaitersStand`, `OthersGoOn`: the two halves of `OnlyWaitersStop`, without `ENABLED`.
* `SomebodyGoesOn`: at any time all is done, or somebody can go on and need not wait for
  any lock it may come to need.
* `RunsOut`: if the requests are finitely many, every step brings one of them closer to
  its end.
* `Implements`: `Catalog` implements `Shop`, the rows in replies included.

Assumptions: the pool has a connection (`config.Load` refuses
`DB_MAX_CONNS` below one); operations and seed rows are well formed, ids of new
rows are fresh (random UUIDs), rows of different tables are told apart
(`RowsAssumption`), seed references are kept; `None` is no value.

The argument. Referential integrity is not inductive: that a `COMMIT` breaks no
reference must follow from what its transaction found several statements
earlier. `Backed` says for each operation what its locks have kept true since: a
creation that has inserted holds a share of its supplier's row, which is still
there; a decrease that has locked its product still finds enough stock, and what
it has written is that stock less the quantity; a deletion that has found no
product of its supplier still finds none. Of two transactions, one that commits
and one that is backed by what the commit would change, there is no such pair, since
locks exclude one another (`LocksExclude`, a part of the invariant that `Lockable` keeps).
`StockAddsUp` counts units instead of summing quantities:
those of the decrease that takes effect in a step are disjoint from those already sold,
and none has been sold of a product that does not exist yet.

`TriesAddUp` needs `ImagesFollow`: every image in the table was given to the product it is
of, and the images that a product was given follow one another (`OneByOne`). A creation
takes effect only when the product has no image, so whatever it was given before is gone,
and while the product is there an image goes only by its own deletion. A product that
is gone is given nothing any more: it does not come back, as its id is that of a request,
which creates once, or of a seed row.

`NobodyDeadlocks` rests on what a transaction may hold at each of its stages
(`HoldsOnly`). A transaction that waits for a category holds nothing, one that waits for
a supplier holds at most a category, one that waits for a product holds at most a
supplier, or that very product already. So whoever keeps a product's row waits for no
lock of another, whoever keeps a supplier's row waits for products at most, and whoever
keeps a category for suppliers at most: in a set that waits on itself nobody waits for
a product, hence nobody for a supplier, hence nobody for a category. As this goes by what
kind of row is awaited, it does not matter which product a supplier's deletion comes
upon. What is left is
waiting for a connection, and those who have the connections do not wait for one.

That the waiting of `NoDeadlock` is the real one has two halves. `Needs` reads off each
statement the locks it cannot do without, so a request that is stopped stands
(`WaitersStand`). For the other half `GoesOn(r)` gives each variable its value in a next
state of `r`, by what the statement finds: nothing (`Finding`), a row and its lock, a
reason to refuse. As it constrains no variable twice, such a state always exists, and
`OthersGoOn` shows that it is reached by a `Begin`, a `Statement` or a `ServerRollback` of
`r`, one operation after the other, and that it is no stutter; this needs `AllInPlace`,
that a transaction is only at stages of its own operation. So `GoesOn` stands for
`ENABLED`, which the prover does not have. `RunsOut` counts the stages all
requests have ahead (`Onward`): nothing is ever retried here, and a failure is a step
forward too. From these `EveryRequestEnds` follows by hand: as steps run out, a behaviour
comes to a state it does not leave; if all were not done there, by `SomebodyGoesOn` and
`OthersGoOn` somebody unhindered could take a step for ever that is weakly fair, and would.
The finiteness of `Requests` is assumed for `RunsOut` only.

For the refinement, `Told` adds that a request under way has no answer and no effect
yet; each effect, in time or late, is then one of `Shop`'s, each refusal one that `Shop` would give at that moment, and every
other step invisible.

`AddressBookProofs` proves, for every set of requests and operations, all seed
rows, every set of suppliers in use and every size of the pool:

* `TypeCorrect`: the type invariant.
* `Together`: `NoOrphans` of the run `address_book`.
* `NobodyDeadlocks`: `NoDeadlock`.
* `WaitersStand`, `OthersGoOn`, `SomebodyGoesOn`, `RunsOut`: as in `CatalogProofs`.
* `StatusTrue`: `StatusIsTrue`, that a 2xx has taken effect and a 4xx has not
  and never will.
* `Implements`: `AddressBook` implements `Directory`, the content of replies
  included.

The argument is the same. `NoOrphans` needs that a transaction has made both of its
writes when it commits; the refinement needs that a deletion which has locked its
owner still finds it at the `COMMIT`, and that what a statement joins from two
tables is one entry of the directory, which is `NoOrphans` again. Only deletions hold
locks; the one that has both waits for nothing, and the one that has its owner's can wait
for an address only.

`ApiProofs` proves, for every set of requests, keys, operations and seed rows:

* `LayerImplemented`: `Api` implements `Durability`.
* `StatusSettles`: `StatusSettlesTheKey` of the run `service`.

Assumptions: those of `Durability`; the kinds of operations are ones the router
knows; `None` is none of the replies and results it is compared with.

The argument. Of the service it is enough to know that what it tells a handler is
true (`ServiceTrue`): `"ok"` is told of what has taken effect, a reason of what has
not and never will, `"error"` leaves it open. Handlers keep this (`HandlerTrue`): a
case for each operation shows that the status written has the class of the result.
So `HandleWrapped` is the layer's `RunHandler`, `TakeEffect` its `LateEffect`, and the
requests outside the layer do not touch it. What has taken effect under a key was
started by the layer (`EffectsTrue`), and by `StartedOnce` only one request was,
unless the key has lapsed. `Genuine` then takes the reply of that one request to all
to whom it is replayed.

About `Service`, for every set of requests, keys, operations and seed rows, and every
size of the pool, it proves:

* `ServiceImplements`: `ImplementsApi`, that `Service` implements `Api`.
* `ServiceSettles`: `StatusSettlesTheKey`, with interleaved transactions.
* `KeysCharged`: `ChargedPerKey` of the run `service`.
* `ServiceAnswersOnce`, `ServiceStartsOnce`: the service as a whole implements
  `AnswerRegister`, and starts a handler again only for a key that has lapsed.
* `ServiceTables`, `ServiceNeverDeadlocks`: `ReferentialIntegrity`, `StockDecisionHolds`,
  `TriesMakeOneImage` and `NoDeadlock` of `Catalog`, for transactions that the layer begins and
  cuts off.

Assumptions: those of `Api` and of `Catalog`, the latter as assumptions of `Service` on
its own constants (`ConnectionsAssumption`, `OrdersAssumption`, `SeedsAssumption`,
`TablesAssumption`); `DbConstants` shows that they imply Catalog's.

The argument. Every step of the service is one of `Catalog` on the transactions
(`ServiceNextDb`), so Catalog's invariants hold of them, as an instance (`ServiceDbHolds`),
and by `Catalog`'s own refinement a step of a repository is an answer of `Shop` or nothing to
it. A step that brings the answer is the handler's step in `Api`, one after the end of the
connection is `TakeEffect`, and any other changes nothing `Api` can see. Two facts
tie the two halves together: a request that its handler turned down has no transaction
(`InvalidQueued`), and one outside the layer has no reply before its outcome
(`DirectPending`). For `KeysCharged`, `StockAddsUp` gives the units gone as units of
requests; a key that has not lapsed started one request (`StartedOnce`), so a unit's
request can be told from its key (`OnePerKey`), and units by key are as many as units by
request (`SameUnits`). The last four are what refinement is for: `Service` implements `Api`,
`Api` implements `Durability`, `Durability` implements `AnswerRegister`; and `Service`, to
its tables, is a `Catalog` (`ServiceIsDb`).

`LifecycleProofs` proves, for any number of requests:

* `TypeCorrect`, and `Clean`: `CleanExit` of the run `lifecycle`.
* `Uncut`: `NoTransactionCut`, a property of steps.
* `ReportIsKept`: `ReportKept`.
* `ProcessGoesOn`: until the process has exited, except where it serves and has not been
  signalled, it has a next step.
* `RunsOut`: if the requests are finitely many, every step is one less to take.

The argument. `CleanExit` needs that what `Shutdown` has found drained stays so
(`DrainedForGood`: nobody is accepted any more), that Redis is open as long as
`main.run` has not returned (`StillOpen`, so that nobody fails to store a
response before), and that nobody is served before both stores have answered
(`NotYetServing`). That the process does not end under a transaction follows from
`pool.Close`, which waits for the connections in use. `ProcessGoesOn` is where
`ReportKept` is needed: a `main.run` that waits for the goroutine's report finds
it, or a goroutine that can still make it. With `RunsOut` the rest of `SignalEnds` is
the argument given for `EveryRequestEnds`.

`ClientPagesProofs` proves, for any clients, ids, names, filters and page sizes:

* `Missed`: `MissedAreDeletions` of the run `client_pages`.
* `Repeated`: `RepeatsAreCreations`.

Assumptions: ids are in an order (natural numbers) and finitely many; the walk starts at
offset zero, or with parameters that the handler refuses.

The argument. Neither property is inductive: both speak of what has been shown, and what
will be shown depends on how the listing has moved under the offset. `Passed` are the
clients that were there all along, were never shown, and stand before the offset by now;
each is paid for by a deletion of its own, since only a deletion moves a client forward,
and it moves one at most over the offset. `Ahead` are the clients that have been shown
and stand behind the offset again; with the repeats already made they are paid for by
creations in the same way. A page turns at most its own rows from "ahead" to "shown
again", and a page that is not full leaves nobody behind its end. Below this are
lemmas about ranks: a client's rank in the listing is its own (`RankInjective`), every
rank up to the length is somebody's (`RankSurjective`), and one creation or deletion
moves a rank by one at most.

Only model-checked: the liveness properties `EveryRequestAnswered`, `EveryRequestEnds`
and `SignalEnds`, as fairness is out of the prover's reach, and `OnlyWaitersStop` as it is
stated, with `ENABLED`. Of `EveryRequestEnds`, `SignalEnds` and `OnlyWaitersStop`
everything else is proved, as said above. `EveryRequestAnswered` has no such count
of steps: a claim whose reply is lost is sent again, and the clock runs on; `OneReply` and
`LeasesHold` are what is proved towards it.

## 5 Disagreements with the documentation

`src/README.md` (lines 12-13) says that Redis protects mutating operations from
being carried out again, and the OpenAPI document (lines 1020-1021) that a repeat
with the same key and body returns the stored result. The run `executed_twice`
shows a trace in which an operation is carried out twice: a request claims the
key, its lease runs out while the handler is still running, the handler commits,
a retry claims the key as the lease is over, and its handler commits as well. The
same comes of a commit whose `Complete` fails (the caller is told 500) and of a
process that dies between the two. What the layer does guarantee is what section 4 proves.

The run `committed_unstored` shows that the process brings this about by itself, with both
stores well. `main.run` defers `pool.Close` (line 79) before it defers closing
Redis (line 88), so Redis is closed first and the pool then waits for the
transactions in use. When `run` returns with requests in flight, because the
server has failed or the shutdown has timed out, a request in a transaction
still gets to its `COMMIT`, then fails to store its response on the closed
client, and tells its caller 500; the repeat does not get a stored result but
executes again after the lease. (Closing the pool first would leave Redis open
for as long as transactions run, though not until their responses are stored.)

The run `documented_statuses` shows a reply that the OpenAPI document (`api.yaml`) does
not declare. `productHandler.get` answers 400 to an id that is no UUID
(`handlers/product.go`, line 124, in `parseProductID`); the document declares 200, 404
and 500 for that operation (lines 372-382), and 204 and 500 for the deletion of a
product (lines 388-392). The same goes for the other operations with an id in the
path and no body, of clients (224-232), suppliers (523-550) and images (656-675,
705-707). Related to it, and not run because it is about the text of a code: the
document's example of a 400 has the code `VALIDATION_ERROR` and that of a 404
`RESOURCE_NOT_FOUND` (lines 1107 and 1116), while `errorCode` in `handlers/router.go`
makes them `INVALID_REQUEST` and `NOT_FOUND`; only the idempotency layer uses
`VALIDATION_ERROR`.

## 6 Not modelled

* Health and readiness: two pings, whose answer nothing in the program relies on.
  HTTP connections below the level of requests: a connection accepted while
  `Shutdown` begins, idle connections, and whether the bytes of a reply arrive. The
  server's write timeout (30 s) belongs here: it is shorter than the lease and
  ends a connection, not a handler, so that its request goes on as one whose caller
  has gone, and its retry meets the layer as any other.
* The encoding of headers, bodies and statuses in Redis, JSON decoding, the checks
  of single fields of payloads (one choice in `Api`: valid or not), texts of messages,
  the Swagger pages.
* The parsing of single variables in `config.Load`. Its bounds appear as the
  assumptions of the modules they protect.
* The creation of clients and suppliers through the layer in `Api` and `Service`: these
  have the products. Their effects and statuses are in `AddressBook`, and to the layer a
  handler with true statuses is like another.
* Commands of a request that are late by so much that Redis carries them out after
  a later command of the same request.
* PostgreSQL's deadlock detector: `NobodyDeadlocks` proves that the modelled
  transactions never need it. Crashes of PostgreSQL, beyond the connections
  they break: its commits are durable.
* The components that `PROJECT.json` lists as not modelled, with the reasons.

## 7 Plan

In order of importance; all of these steps are done.

1. `AnswerRegister`, `Idempotency` and its proofs.
2. `Transactions`, `Shop`, `Catalog` and its runs.
3. `Directory`, `AddressBook` and its run.
4. `Lifecycle`: start-up, shutdown with the order of the deferred closes, the
   requests that outlive the timeout.
5. `CatalogProofs`: type correctness, the stock decision, referential integrity, the
   refinement of `Shop`.
6. `AddressBookProofs` (`NoOrphans`, the refinement of `Directory`) and
   `LifecycleProofs` (`CleanExit`, `NoTransactionCut`).
7. `Durability`: a Redis that forgets what it has acknowledged, and its proofs.
8. `Handlers`, `Api`: the layer, the handlers and the database composed, from the
   client's point of view, and its proofs.
9. `ClientPages`: parameters and pages of the client list.
10. The reads of products and images; the accounting of stock step by step.
11. The absence of deadlocks, the accounting of stock as a whole, and
    `ClientPagesProofs`.
12. `Service`: the layer, the handlers and the transactions composed statement by
    statement, and its refinement of `Api`.
13. What the liveness properties rest on, proved without fairness and `ENABLED`: who
    waits and who goes on, and that steps run out; leases, step by step; the theorems of
    `Durability` and `Catalog` carried over to `Service`.
14. What repeating the creation of an image, outside the layer, comes to; waiting for any
    of the rows that a statement may come upon.

What could still be added: clients and suppliers in `Api`, by composing
`Directory` next to `Shop`; the lifecycle of the process around `Api`, so that a
shutdown is what ends requests there; commands that overtake one another.
