------------------------------ MODULE Service ------------------------------
(***************************************************************************)
(* The whole service: Api, with every request that reaches a handler       *)
(* carried out statement by statement in PostgreSQL (Catalog) instead of   *)
(* at once and alone.  While a request waits for a lock or a connection,   *)
(* its claim ages in Redis, its client may send it again, its process may  *)
(* die, and Redis may crash.                                               *)
(* (api-service/internal/idempotency/idempotency.go: Require;              *)
(* api-service/internal/handlers/product.go, image.go, router.go;          *)
(* api-service/internal/repositories/product.go, supplier.go, image.go)    *)
(***************************************************************************)
EXTENDS Api, FiniteSets

CONSTANTS
    Categories,         \* category names
    Quantities,         \* stock of new products and amounts of decreases
    MaxConns            \* size of the connection pool

VARIABLES
    stage,      \* stage[p]: where p's transaction is
    held,       \* held[p]: the row locks of p's transaction
    stock       \* stock[p]: the stock p's uncommitted UPDATE left, or None

transactions == <<stage, held, stock>>
serviceVars == <<apiVars, transactions>>

(* Requests whose handler turns them down never get to a repository: their *)
(* transactions never begin.                                               *)
orders ==
    [p \in Requests |->
        IF Invalid(asked[p]) THEN [kind |-> "listProducts"] ELSE asked[p]]

Orders == {o \in Fingerprints : ~Invalid(o)} \cup {[kind |-> "listProducts"]}

(* The rows there are at the start.                                        *)
Given(seeds) == {i \in DOMAIN seeds : seeds[i] # None}

ProductSeeds == [i \in Given(SeedProducts) |-> SeedProducts[i]]
ImageSeeds == [i \in Given(SeedImages) |-> SeedImages[i].product]

Db ==
    INSTANCE Catalog WITH
        pc <- stage, written <- stock, op <- orders, Asked <- Orders,
        SeedProducts <- ProductSeeds, SeedImages <- ImageSeeds

ASSUME ConnectionsAssumption == MaxConns \in Nat \ {0}

ASSUME OrdersAssumption == Orders \subseteq Db!Ops /\ Quantities \subseteq Nat

\* Ids are what the seeds have and what requests create; an image has its
\* own content, and its product no other image.
ASSUME SeedsAssumption ==
    /\ SeedProducts \in [Db!ProductIds -> Db!Product \cup {None}]
    /\ SeedImages \in [Db!ImageIds -> [product: Given(SeedProducts), content: Db!ImageIds]
                                        \cup {None}]
    /\ \A i, j \in Given(SeedImages) :
        /\ SeedImages[i].content = i
        /\ SeedImages[i].product = SeedImages[j].product => i = j
    /\ Requests \cap (Given(SeedProducts) \cup Given(SeedImages)) = {}

ASSUME TablesAssumption ==
    /\ SeedSuppliers \cap Db!ProductIds = {}
    /\ SeedSuppliers \cap Categories = {}
    /\ Db!ProductIds \cap Categories = {}
    /\ None \notin Db!Product \cup Db!Image \cup Db!ProductIds \cup Nat \cup Db!Refusals

ServiceInit ==
    /\ ApiInit
    /\ stage = [p \in Requests |-> "queued"]
    /\ held = [p \in Requests |-> {}]
    /\ stock = [p \in Requests |-> None]

-----------------------------------------------------------------------------
(* p's handler writes the reply to the outcome it has been told.           *)
WriteReply(p) ==
    /\ written' = [written EXCEPT ![p] = Route(asked[p].kind, outcome'[p])]
    /\ \/ /\ Wrapped(p)
          /\ pc' = [pc EXCEPT ![p] = "completing"]
          /\ resp' = [resp EXCEPT ![p] = [by |-> p, status |-> Status(written'[p])]]
          /\ effects' = IF p \in applied' THEN effects \cup {p} ELSE effects
       \/ /\ ~Wrapped(p)
          /\ UNCHANGED <<pc, resp, effects>>

(* The repository goes on with p, whose handler has called it: until there *)
(* is an outcome, and then with the rest of the transaction.               *)
Work(p) ==
    /\ ~Invalid(asked[p])
    /\ Wrapped(p) /\ outcome[p] = None => pc[p] = "running"
    /\ UNCHANGED <<redis, call, promise, disk, lapsed>>
    /\ Db!Begin(p) \/ Db!Statement(p) \/ Db!GiveUp(p)
    /\ \/ /\ outcome'[p] = outcome[p]
          /\ UNCHANGED <<pc, resp, effects, written>>
       \/ /\ outcome'[p] # outcome[p]
          /\ WriteReply(p)

(* The handler of p finds the request invalid and calls nothing.           *)
TurnDown(p) ==
    /\ Invalid(asked[p])
    /\ (Wrapped(p) /\ HandleWrapped(p)) \/ HandleDirectly(p)
    /\ UNCHANGED transactions

(* The process dies, or p panics, in p's handler: its connection breaks.   *)
Cut(p) ==
    /\ Wrapped(p)
    /\ pc[p] = "running"
    /\ Die(p)
    /\ UNCHANGED <<disk, lapsed, written>>
    /\ IF Invalid(asked[p]) THEN UNCHANGED <<tables, transactions>> ELSE Db!GiveUp(p)

(* The layer does the rest for p, its completion only after the deferred   *)
(* Rollback of p's transaction.                                            *)
Layer(p) ==
    /\ Wrapped(p)
    /\ Layered(p)
    /\ stage[p] = "refusing" => pc'[p] = "lost"
    /\ UNCHANGED transactions

(* PostgreSQL finds out that p's connection is gone.                       *)
Settle(p) ==
    /\ UNCHANGED <<redis, call, pc, resp, promise, disk, lapsed, written>>
    /\ \/ /\ Db!ServerRollback(p)
          /\ UNCHANGED effects
       \/ /\ Db!ServerCommit(p)
          /\ effects' = IF Wrapped(p) THEN effects \cup {p} ELSE effects

ServiceNext ==
    \/ \E p \in Requests : Work(p) \/ TurnDown(p) \/ Cut(p) \/ Layer(p) \/ Settle(p)
    \/ Surroundings /\ UNCHANGED transactions

ServiceSpec == ServiceInit /\ [][ServiceNext]_serviceVars

-----------------------------------------------------------------------------
(* The layer, the handlers and the transactions together do what Api says  *)
(* of requests that are carried out at once and alone.                     *)
ImplementsApi == ApiSpec

(* The decreases of product i that have taken effect.                      *)
Decreases(i) ==
    {p \in applied : asked[p].kind = "decreaseStock" /\ asked[p].product = i}

(* The units of i that have been bought, with the keys they were bought    *)
(* under.                                                                  *)
BoughtUnder(i) ==
    UNION {{call[p].key} \X (1..asked[p].quantity) : p \in Decreases(i)}

(* The stock that a product is short of is that of its keys, not of its    *)
(* requests: whatever is retried, lost, crashes or is carried out late, no *)
(* key is charged twice, or in part, unless its record lapsed.             *)
ChargedPerKey ==
    \A i \in Db!ProductIds :
        products[i] # None /\ (\A p \in Decreases(i) : call[p].key \notin lapsed) =>
            products[i].stock = Db!Origin(i) - Cardinality(BoughtUnder(i))

=============================================================================
