------------------------------ MODULE Catalog ------------------------------
(***************************************************************************)
(* The repositories of products, stock, suppliers and images over          *)
(* PostgreSQL: each request is a transaction of one or several statements  *)
(* at READ COMMITTED, on a connection of a bounded pool.                   *)
(* (api-service/internal/repositories/{product,supplier,image}.go and      *)
(* migrations/001_initial_schema.sql)                                      *)
(*                                                                         *)
(* A transaction's writes and the release of its locks are one step, its   *)
(* Commit.  Ids are random, so a row that a request inserts has the        *)
(* request for its id.                                                     *)
(***************************************************************************)
EXTENDS Integers, Transactions

CONSTANTS
    SeedSuppliers,      \* suppliers at the start
    SeedProducts,       \* products at the start: [id -> [supplier, stock]]
    SeedImages,         \* images at the start: [id -> product id]
    Categories,         \* category names
    Quantities,         \* stock of new products and amounts of decreases
    Asked,              \* the operations that requests ask for
    None

ProductIds == Requests \cup DOMAIN SeedProducts
ImageIds == Requests \cup DOMAIN SeedImages
Product == [supplier: SeedSuppliers, stock: Nat]

(* The bytes of an image are named by whoever wrote them.                  *)
Image == [product: ProductIds, content: ImageIds]

(* The rows that replies have: of a decreased product, of a product, of an *)
(* image.                                                                  *)
Row ==
    [product: ProductIds, stock: Nat]
    \cup [product: ProductIds, stock: Nat, images: SUBSET ImageIds]
    \cup [image: ImageIds, content: ImageIds]

Ops ==
    [kind: {"createProduct"}, supplier: SeedSuppliers, category: Categories,
     quantity: Quantities]
    \cup [kind: {"decreaseStock"}, product: ProductIds, quantity: Quantities \ {0}]
    \cup [kind: {"deleteSupplier"}, supplier: SeedSuppliers]
    \cup [kind: {"deleteProduct", "createImage", "getProduct", "getProductImage"},
          product: ProductIds]
    \cup [kind: {"replaceImage", "deleteImage", "getImage"}, image: ImageIds]
    \cup [kind: {"listProducts"}]

(* Operations of a single statement, run without an explicit transaction.  *)
SingleStatement ==
    {"deleteProduct", "createImage", "replaceImage", "deleteImage",
     "getProduct", "listProducts", "getProductImage", "getImage"}

Refusals == {"supplierNotFound", "productNotFound", "imageNotFound",
             "insufficient", "inUse", "imageExists"}

ASSUME AskedAssumption == Asked \subseteq Ops

ASSUME SeedAssumption ==
    /\ SeedProducts \in [DOMAIN SeedProducts -> Product]
    /\ SeedImages \in [DOMAIN SeedImages -> DOMAIN SeedProducts]
    /\ \A i, j \in DOMAIN SeedImages : SeedImages[i] = SeedImages[j] => i = j
    /\ Requests \cap (DOMAIN SeedProducts \cup DOMAIN SeedImages) = {}
    /\ Quantities \subseteq Nat

\* Rows of different tables are different rows.
ASSUME RowsAssumption ==
    /\ SeedSuppliers \cap ProductIds = {}
    /\ SeedSuppliers \cap Categories = {}
    /\ ProductIds \cap Categories = {}

ASSUME NoneAssumption ==
    None \notin Product \cup Image \cup ProductIds \cup Nat \cup Refusals \cup {"ok", "error"}

VARIABLES
    suppliers,  \* committed rows of suppliers
    products,   \* committed rows of products, by id, or None
    images,     \* committed rows of images, by id, or None
    op,         \* op[r]: what request r asks for
    written,    \* written[r]: the stock r's uncommitted UPDATE left, or None
    outcome,    \* outcome[r]: the result of r, or None
    shown,      \* shown[r]: the rows in the reply to r
    applied     \* the requests that have taken effect (history variable)

data == <<suppliers, products, images>>
vars == <<suppliers, products, images, op, pc, held, written, outcome, shown, applied>>

Rows == SeedSuppliers \cup ProductIds \cup Categories

(* Where a transaction is between its statements.                          *)
Stages == {"begun", "checked", "categorised", "locked", "ready", "refusing"}

TypeOK ==
    /\ suppliers \in SUBSET SeedSuppliers
    /\ products \in [ProductIds -> Product \cup {None}]
    /\ images \in [ImageIds -> Image \cup {None}]
    /\ op \in [Requests -> Asked]
    /\ pc \in [Requests -> {"queued"} \cup Stages \cup Ended]
    /\ held \in [Requests -> SUBSET (Rows \X Modes)]
    /\ written \in [Requests -> Nat \cup {None}]
    /\ outcome \in [Requests -> Refusals \cup {"ok", "error", None}]
    /\ shown \in [Requests -> SUBSET Row]
    /\ applied \in SUBSET Requests

SeedRows ==
    [i \in ImageIds |-> IF i \in DOMAIN SeedImages
                        THEN [product |-> SeedImages[i], content |-> i] ELSE None]

Init ==
    /\ suppliers = SeedSuppliers
    /\ products = [p \in ProductIds |->
                    IF p \in DOMAIN SeedProducts THEN SeedProducts[p] ELSE None]
    /\ images = SeedRows
    /\ op \in [Requests -> Asked]
    /\ pc = [r \in Requests |-> "queued"]
    /\ held = [r \in Requests |-> {}]
    /\ written = [r \in Requests |-> None]
    /\ outcome = [r \in Requests |-> None]
    /\ shown = [r \in Requests |-> {}]
    /\ applied = {}

PicturesOf(p) == {i \in ImageIds : images[i] # None /\ images[i].product = p}

Pictured(p) == PicturesOf(p) # {}

ProductsOf(s) == {p \in ProductIds : products[p] # None /\ products[p].supplier = s}

-----------------------------------------------------------------------------
(* The ends of a transaction.                                              *)

(* r is refused: its result is known, its transaction not yet rolled back. *)
Refuse(r, from, reason) ==
    /\ Goto(r, from, "refusing")
    /\ outcome' = [outcome EXCEPT ![r] = reason]
    /\ UNCHANGED <<data, op, held, written, shown, applied>>

(* Mutant: a refused transaction returns without its deferred Rollback.    *)
RollbackForgotten(r) ==
    /\ Goto(r, "refusing", "done")
    /\ UNCHANGED <<data, op, held, written, outcome, shown, applied>>

(* The deferred tx.Rollback on the way out.                                *)
Rollback(r) ==
    /\ Goto(r, "refusing", "done")
    /\ Unlock(r)
    /\ UNCHANGED <<data, op, written, outcome, shown, applied>>

(* What the statements of each operation make of the tables, once visible. *)

ProductInserted(r) ==
    /\ op[r].kind = "createProduct"
    /\ products' = [products EXCEPT ![r] =
                        [supplier |-> op[r].supplier, stock |-> op[r].quantity]]
    /\ UNCHANGED <<suppliers, images>>

StockDecreased(r) ==
    /\ op[r].kind = "decreaseStock"
    /\ products' = [products EXCEPT ![op[r].product] =
                        [supplier |-> products[op[r].product].supplier,
                         stock |-> written[r]]]
    /\ UNCHANGED <<suppliers, images>>

SupplierDeleted(r) ==
    /\ op[r].kind = "deleteSupplier"
    /\ suppliers' = suppliers \ {op[r].supplier}
    /\ UNCHANGED <<products, images>>

(* The image goes with its product (ON DELETE CASCADE).                    *)
ProductDeleted(r) ==
    /\ op[r].kind = "deleteProduct"
    /\ products' = [products EXCEPT ![op[r].product] = None]
    /\ images' = [i \in ImageIds |->
                    IF i \in PicturesOf(op[r].product) THEN None ELSE images[i]]
    /\ UNCHANGED suppliers

ImageInserted(r) ==
    /\ op[r].kind = "createImage"
    /\ images' = [images EXCEPT ![r] = [product |-> op[r].product, content |-> r]]
    /\ UNCHANGED <<suppliers, products>>

ImageReplaced(r) ==
    /\ op[r].kind = "replaceImage"
    /\ images' = [images EXCEPT ![op[r].image] =
                    [product |-> images[op[r].image].product, content |-> r]]
    /\ UNCHANGED <<suppliers, products>>

ImageDeleted(r) ==
    /\ op[r].kind = "deleteImage"
    /\ images' = [images EXCEPT ![op[r].image] = None]
    /\ UNCHANGED <<suppliers, products>>

(* ListAvailable and the queries by id only read.                          *)
Selected(r) ==
    /\ op[r].kind \in {"getProduct", "listProducts", "getProductImage", "getImage"}
    /\ UNCHANGED data

Effect(r) ==
    /\ applied' = applied \cup {r}
    /\ \/ ProductInserted(r) \/ StockDecreased(r) \/ SupplierDeleted(r)
       \/ ProductDeleted(r) \/ ImageInserted(r) \/ ImageReplaced(r) \/ ImageDeleted(r)
       \/ Selected(r)

(* The product joined with its image.                                      *)
ProductRow(p) == [product |-> p, stock |-> products[p].stock, images |-> PicturesOf(p)]

ImageRows(S) == {[image |-> i, content |-> images[i].content] : i \in S}

(* What the statements of r return.  (The image in the reply to a decrease *)
(* is left out: it may be gone by the COMMIT.)                             *)
Returned(r) ==
    CASE op[r].kind = "decreaseStock" ->
            {[product |-> op[r].product, stock |-> written[r]]}
      [] op[r].kind = "getProduct" -> {ProductRow(op[r].product)}
      [] op[r].kind = "listProducts" ->
            {ProductRow(p) : p \in {q \in ProductIds :
                                        products[q] # None /\ products[q].stock > 0}}
      [] op[r].kind = "getProductImage" -> ImageRows(PicturesOf(op[r].product))
      [] op[r].kind = "getImage" -> ImageRows({op[r].image})
      [] OTHER -> {}

(* The caller is told of success, and shown what was returned.             *)
Succeed(r) ==
    /\ outcome' = [outcome EXCEPT ![r] = "ok"]
    /\ shown' = [shown EXCEPT ![r] = Returned(r)]

(* tx.Commit succeeds: the writes are visible and the locks are gone.      *)
Commit(r) ==
    /\ Goto(r, "ready", "done")
    /\ Effect(r)
    /\ Unlock(r)
    /\ Succeed(r)
    /\ UNCHANGED <<op, written>>

-----------------------------------------------------------------------------
(* pool.BeginTx and pool.Exec wait for one of the pool's connections.      *)
Begin(r) ==
    /\ Goto(r, "queued", "begun")
    /\ ConnectionFree
    /\ UNCHANGED <<data, op, held, written, outcome, shown, applied>>

(* ProductRepository.Create, statement by statement.                       *)

CheckSupplier(r) ==
    /\ op[r].kind = "createProduct"
    /\ \/ /\ op[r].supplier \in suppliers
          /\ Goto(r, "begun", "checked")
          /\ UNCHANGED <<data, op, held, written, outcome, shown, applied>>
       \/ /\ op[r].supplier \notin suppliers
          /\ Refuse(r, "begun", "supplierNotFound")

(* ON CONFLICT (name) DO UPDATE locks the category, old or new, until the  *)
(* transaction ends.                                                       *)
UpsertCategory(r) ==
    /\ op[r].kind = "createProduct"
    /\ Goto(r, "checked", "categorised")
    /\ Lock(r, op[r].category, "update")
    /\ UNCHANGED <<data, op, written, outcome, shown, applied>>

(* Mutant: the insert relies on the EXISTS check, without a foreign key.   *)
InsertProductUnchecked(r) ==
    /\ op[r].kind = "createProduct"
    /\ Goto(r, "categorised", "ready")
    /\ UNCHANGED <<data, op, held, written, outcome, shown, applied>>

(* The foreign key locks the supplier's row, once nobody deletes it.       *)
InsertProduct(r) ==
    /\ op[r].kind = "createProduct"
    /\ Lockable(r, op[r].supplier, "share")
    /\ \/ /\ op[r].supplier \in suppliers
          /\ Goto(r, "categorised", "ready")
          /\ Lock(r, op[r].supplier, "share")
          /\ UNCHANGED <<data, op, written, outcome, shown, applied>>
       \/ /\ op[r].supplier \notin suppliers
          /\ Refuse(r, "categorised", "supplierNotFound")

(* ProductRepository.DecreaseStock.                                        *)

(* Mutant: the SELECT does not lock the row it decides on.                 *)
LockStockUnlocked(r) ==
    /\ op[r].kind = "decreaseStock"
    /\ \/ /\ products[op[r].product] = None
          /\ Refuse(r, "begun", "productNotFound")
       \/ /\ products[op[r].product] # None
          /\ products[op[r].product].stock < op[r].quantity
          /\ Refuse(r, "begun", "insufficient")
       \/ /\ products[op[r].product] # None
          /\ products[op[r].product].stock >= op[r].quantity
          /\ Goto(r, "begun", "locked")
          /\ UNCHANGED <<data, op, held, written, outcome, shown, applied>>

(* Mutant: a decrease waits until there is enough.                         *)
LockStockPatient(r) ==
    /\ op[r].kind = "decreaseStock"
    /\ Lockable(r, op[r].product, "update")
    /\ \/ /\ products[op[r].product] = None
          /\ Refuse(r, "begun", "productNotFound")
       \/ /\ products[op[r].product] # None
          /\ products[op[r].product].stock >= op[r].quantity
          /\ Goto(r, "begun", "locked")
          /\ Lock(r, op[r].product, "update")
          /\ UNCHANGED <<data, op, written, outcome, shown, applied>>

(* Mutant: the SELECT locks the row FOR SHARE, the UPDATE for update.      *)
LockStockShared(r) ==
    /\ op[r].kind = "decreaseStock"
    /\ Lockable(r, op[r].product, "share")
    /\ \/ /\ products[op[r].product] = None
          /\ Refuse(r, "begun", "productNotFound")
       \/ /\ products[op[r].product] # None
          /\ products[op[r].product].stock < op[r].quantity
          /\ Refuse(r, "begun", "insufficient")
       \/ /\ products[op[r].product] # None
          /\ products[op[r].product].stock >= op[r].quantity
          /\ Goto(r, "begun", "locked")
          /\ Lock(r, op[r].product, "share")
          /\ UNCHANGED <<data, op, written, outcome, shown, applied>>

(* SELECT available_stock ... FOR UPDATE, and the decision taken on it.    *)
LockStock(r) ==
    /\ op[r].kind = "decreaseStock"
    /\ Lockable(r, op[r].product, "update")
    /\ \/ /\ products[op[r].product] = None
          /\ Refuse(r, "begun", "productNotFound")
       \/ /\ products[op[r].product] # None
          /\ products[op[r].product].stock < op[r].quantity
          /\ Goto(r, "begun", "refusing")
          /\ Lock(r, op[r].product, "update")
          /\ outcome' = [outcome EXCEPT ![r] = "insufficient"]
          /\ UNCHANGED <<data, op, written, shown, applied>>
       \/ /\ products[op[r].product] # None
          /\ products[op[r].product].stock >= op[r].quantity
          /\ Goto(r, "begun", "locked")
          /\ Lock(r, op[r].product, "update")
          /\ UNCHANGED <<data, op, written, outcome, shown, applied>>

(* The row the UPDATE finds lets it subtract the quantity.                 *)
Subtractable(r) ==
    /\ products[op[r].product] # None
    /\ products[op[r].product].stock >= op[r].quantity

(* Mutant: the quantity is subtracted in Go and once more in SQL.          *)
UpdateStockTwice(r) ==
    /\ op[r].kind = "decreaseStock"
    /\ Subtractable(r)
    /\ Goto(r, "locked", "ready")
    /\ written' = [written EXCEPT ![r] =
                      products[op[r].product].stock - 2 * op[r].quantity]
    /\ UNCHANGED <<data, op, held, outcome, shown, applied>>

(* UPDATE ... SET available_stock = p.available_stock - $2: fails if the   *)
(* row is gone or the CHECK constraint does not hold of the new value.     *)
UpdateStock(r) ==
    /\ op[r].kind = "decreaseStock"
    /\ Lockable(r, op[r].product, "update")
    /\ \/ /\ Subtractable(r)
          /\ Goto(r, "locked", "ready")
          /\ written' = [written EXCEPT ![r] =
                            products[op[r].product].stock - op[r].quantity]
          /\ Lock(r, op[r].product, "update")
          /\ UNCHANGED <<data, op, outcome, shown, applied>>
       \/ /\ ~Subtractable(r)
          /\ Refuse(r, "locked", "error")

(* SupplierRepository.Delete.                                              *)

(* SELECT address_id ... FOR UPDATE; no row is a success.                  *)
LockSupplier(r) ==
    /\ op[r].kind = "deleteSupplier"
    /\ Lockable(r, op[r].supplier, "update")
    /\ \/ /\ op[r].supplier \in suppliers
          /\ Goto(r, "begun", "locked")
          /\ Lock(r, op[r].supplier, "update")
          /\ UNCHANGED <<data, op, written, outcome, shown, applied>>
       \/ /\ op[r].supplier \notin suppliers
          /\ Goto(r, "begun", "refusing")
          /\ Succeed(r)
          /\ applied' = applied \cup {r}
          /\ UNCHANGED <<data, op, held, written>>

(* The deletes of the supplier and of its address.  RESTRICT looks for a   *)
(* product of the supplier and locks the first it finds, which may be any. *)
RemoveSupplier(r) ==
    /\ op[r].kind = "deleteSupplier"
    /\ \/ /\ ProductsOf(op[r].supplier) = {}
          /\ Goto(r, "locked", "ready")
          /\ UNCHANGED <<data, op, held, written, outcome, shown, applied>>
       \/ /\ \E p \in ProductsOf(op[r].supplier) : Lockable(r, p, "share")
          /\ Refuse(r, "locked", "inUse")

-----------------------------------------------------------------------------
(* The operations of one statement.                                        *)

(* Mutant: nothing tells a second image of a product from the first.       *)
ObstacleWithoutUnique(r) ==
    CASE op[r].kind = "createImage" /\ products[op[r].product] = None -> "productNotFound"
      [] op[r].kind = "getProduct" /\ products[op[r].product] = None -> "productNotFound"
      [] op[r].kind \in {"replaceImage", "getImage"}
            /\ images[op[r].image] = None -> "imageNotFound"
      [] op[r].kind = "getProductImage" /\ ~Pictured(op[r].product) -> "imageNotFound"
      [] OTHER -> None

(* Why the statement of r changes nothing, in the order PostgreSQL finds.  *)
Obstacle(r) ==
    CASE op[r].kind = "createImage" /\ Pictured(op[r].product) -> "imageExists"
      [] op[r].kind = "createImage" /\ ~Pictured(op[r].product)
            /\ products[op[r].product] = None -> "productNotFound"
      [] op[r].kind = "getProduct" /\ products[op[r].product] = None -> "productNotFound"
      [] op[r].kind \in {"replaceImage", "getImage"}
            /\ images[op[r].image] = None -> "imageNotFound"
      [] op[r].kind = "getProductImage" /\ ~Pictured(op[r].product) -> "imageNotFound"
      [] OTHER -> None

(* The row lock the statement of r needs on the product.                   *)
Unobstructed(r) ==
    CASE op[r].kind = "deleteProduct" -> Lockable(r, op[r].product, "update")
      [] op[r].kind = "createImage" ->
            Pictured(op[r].product) \/ Lockable(r, op[r].product, "share")
      [] OTHER -> TRUE

(* ProductRepository.ListAvailable, GetByID and Delete, ImageRepository.   *)
Execute(r) ==
    /\ op[r].kind \in SingleStatement
    /\ Unobstructed(r)
    /\ \/ /\ Obstacle(r) = None
          /\ Goto(r, "begun", "done")
          /\ Effect(r)
          /\ Succeed(r)
          /\ UNCHANGED <<op, held, written>>
       \/ /\ Obstacle(r) # None
          /\ Refuse(r, "begun", Obstacle(r))

-----------------------------------------------------------------------------
(* COMMIT, or the only statement, may have been sent.                      *)
Sent(r) == pc[r] = "ready" \/ (pc[r] = "begun" /\ op[r].kind \in SingleStatement)

(* Mutant: a COMMIT whose confirmation is lost counts as a success.        *)
GiveUpUnnoticed(r) ==
    /\ Break(r, Sent(r))
    /\ outcome' = [outcome EXCEPT ![r] =
                IF pc[r] = "ready" THEN "ok" ELSE IF @ = None THEN "error" ELSE @]
    /\ UNCHANGED <<data, op, held, written, shown, applied>>

(* The request's context is done, or the connection breaks, while r is     *)
(* under way: the caller is told of an error at once (unless the result is *)
(* already known) and the connection is lost; the server finds out later.  *)
GiveUp(r) ==
    /\ Break(r, Sent(r))
    /\ outcome' = [outcome EXCEPT ![r] = IF @ = None THEN "error" ELSE @]
    /\ UNCHANGED <<data, op, held, written, shown, applied>>

(* The server rolls an abandoned transaction back ...                      *)
ServerRollback(r) ==
    /\ \E from \in {"abandoned", "inDoubt"} : Goto(r, from, "done")
    /\ Unlock(r)
    /\ UNCHANGED <<data, op, written, outcome, shown, applied>>

(* ... or carries out what it was sent.                                    *)
ServerCommit(r) ==
    /\ Goto(r, "inDoubt", "done")
    /\ op[r].kind \in SingleStatement => Unobstructed(r) /\ Obstacle(r) = None
    /\ Effect(r)
    /\ Unlock(r)
    /\ UNCHANGED <<op, written, outcome, shown>>

Statement(r) ==
    \/ CheckSupplier(r) \/ UpsertCategory(r) \/ InsertProduct(r)
    \/ LockStock(r) \/ UpdateStock(r)
    \/ LockSupplier(r) \/ RemoveSupplier(r)
    \/ Execute(r)
    \/ Commit(r) \/ Rollback(r)

Next ==
    \E r \in Requests :
        \/ Begin(r) \/ Statement(r)
        \/ GiveUp(r) \/ ServerRollback(r) \/ ServerCommit(r)

Spec == Init /\ [][Next]_vars

(* The locks one of which the next statement of r takes or waits for.      *)
Awaited(r) ==
    CASE op[r].kind = "createProduct" /\ pc[r] = "checked" ->
            {<<op[r].category, "update">>}
      [] op[r].kind = "createProduct" /\ pc[r] = "categorised" ->
            {<<op[r].supplier, "share">>}
      [] op[r].kind = "decreaseStock" /\ pc[r] \in {"begun", "locked"} ->
            {<<op[r].product, "update">>}
      [] op[r].kind = "deleteSupplier" /\ pc[r] = "begun" ->
            {<<op[r].supplier, "update">>}
      [] op[r].kind = "deleteSupplier" /\ pc[r] = "locked" ->
            ProductsOf(op[r].supplier) \X {"share"}
      [] op[r].kind = "deleteProduct" /\ pc[r] = "begun" ->
            {<<op[r].product, "update">>}
      [] op[r].kind = "createImage" /\ pc[r] = "begun" /\ ~Pictured(op[r].product) ->
            {<<op[r].product, "share">>}
      [] OTHER -> {}

(* r need not wait, whichever row its statement comes upon first.          *)
Unhindered(r) == \A lock \in Awaited(r) : Lockable(r, lock[1], lock[2])

(* The pool hands out its connections, the server runs what it is sent     *)
(* once the locks are free that it may come to need, and broken            *)
(* connections are noticed.  No request is obliged to give up.             *)
Fairness ==
    \A r \in Requests :
        /\ WF_vars(Begin(r))
        /\ WF_vars(Unhindered(r) /\ Statement(r))
        /\ WF_vars(ServerRollback(r))

FairSpec == Spec /\ Fairness

-----------------------------------------------------------------------------
(* No product without its supplier, no image without its product, and no   *)
(* product with two images.                                                *)
ReferentialIntegrity ==
    /\ \A p \in ProductIds : products[p] # None => products[p].supplier \in suppliers
    /\ \A i \in ImageIds : images[i] # None => products[images[i].product] # None
    /\ \A p \in ProductIds : \A i, j \in PicturesOf(p) : i = j

(* The images that p has ever been given, those that are gone included.    *)
Given(p) ==
    {i \in DOMAIN SeedImages : SeedImages[i] = p}
    \cup {r \in applied : op[r].kind = "createImage" /\ op[r].product = p}

(* i was deleted, by itself.                                               *)
Dropped(i) == \E d \in applied : op[d].kind = "deleteImage" /\ op[d].image = i

(* Image creations are not wrapped in the idempotency layer, so a client   *)
(* that has lost the answer tries again.  However many tries there are,    *)
(* and however late the server carries one out, they give the product one  *)
(* image until that is deleted, and take none away; who is told that there *)
(* is an image already has had no effect, and there was one, be it from an *)
(* earlier try.                                                            *)
TriesMakeOneImage ==
    \A p \in ProductIds :
        /\ \A i, j \in Given(p) : i # j => Dropped(i) \/ Dropped(j)
        /\ products[p] # None => \A i \in Given(p) : images[i] # None \/ Dropped(i)
        /\ \A r \in Requests :
                op[r].kind = "createImage" /\ op[r].product = p
                /\ outcome[r] = "imageExists" => Given(p) # {} /\ r \notin applied

(* A decrease that found enough stock is never turned down by the CHECK    *)
(* constraint or the row's disappearance between its two statements.       *)
StockDecisionHolds ==
    \A r \in Requests :
        op[r].kind = "decreaseStock" /\ pc[r] = "locked" => Subtractable(r)

Origin(p) == IF p \in Requests THEN op[p].quantity ELSE SeedProducts[p].stock

(* The units of p that decreases have taken, each with its buyer.          *)
Sold(p) ==
    UNION {{r} \X (1..op[r].quantity) :
            r \in {q \in applied : op[q].kind = "decreaseStock" /\ op[q].product = p}}

(* The units a product is short of are those of the decreases that took    *)
(* effect: no update is lost, none is applied twice or half.               *)
StockAccounted ==
    \A p \in ProductIds :
        products[p] # None => products[p].stock = Origin(p) - Cardinality(Sold(p))

(* Decreases of p that take effect in a step.                              *)
Buyers(p) ==
    {r \in applied' \ applied : op[r].kind = "decreaseStock" /\ op[r].product = p}

(* Step by step: the stock of a product that stays moves only by the       *)
(* quantity of the one decrease that takes effect in the step, which has   *)
(* not taken effect before, and never without one.                         *)
StockMove ==
    \A p \in ProductIds :
        products[p] # None /\ products'[p] # None =>
            \/ Buyers(p) = {} /\ products'[p].stock = products[p].stock
            \/ \E r \in Requests :
                /\ Buyers(p) = {r}
                /\ products'[p].stock = products[p].stock - op[r].quantity

StockMovesByDecreases == [][StockMove]_vars

(* Statement by statement, and whatever fails, requests are carried out as *)
(* if each ran at once and alone.                                          *)
Atomic ==
    INSTANCE Shop WITH
        Ops <- Asked,
        SeedProducts <- [p \in ProductIds |->
                    IF p \in DOMAIN SeedProducts THEN SeedProducts[p] ELSE None],
        SeedImages <- SeedRows

ImplementsShop == Atomic!Spec

(* No set of requests waits on itself, be it for locks or connections, nor *)
(* for what a request has kept that is over: whichever product a           *)
(* supplier's deletion comes upon, somebody can go on without waiting for  *)
(* any of them.                                                            *)
NoDeadlock ==
    \A S \in SUBSET (Requests \ Finished) :
        S # {} => \E r \in S : ~WaitsOn(r, Awaited(r), S \cup Finished)

(* A request can go on, if nobody gives up, unless locks or connections    *)
(* stop it: there is an answer or a next statement for all that a          *)
(* statement may find.                                                     *)
OnlyWaitersStop ==
    \A r \in Requests :
        pc[r] # "done" =>
            (ENABLED (Begin(r) \/ Statement(r) \/ ServerRollback(r))
                <=> ~Stopped(r, Awaited(r)))

(* Every request is answered, even if none ever gives up.                  *)
EveryRequestEnds == \A r \in Requests : <>(pc[r] \in Ended)

=============================================================================
