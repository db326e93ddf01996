--------------------------- MODULE CatalogProofs ---------------------------
(***************************************************************************)
(* Theorems about Catalog, for any requests, operations, rows and size of  *)
(* the pool.                                                               *)
(***************************************************************************)
EXTENDS Catalog, TransactionsProofs

(* Stages in which only the COMMIT is left.                                *)
Ready == {"ready", "inDoubt"}

(* What r's locks keep others from changing under its transaction.         *)

CreationBacked(r) ==
    op[r].kind = "createProduct" =>
        /\ pc[r] \in Ready => /\ <<op[r].supplier, "share">> \in held[r]
                              /\ op[r].supplier \in suppliers
        /\ products[r] # None => pc[r] = "done"

DecreaseBacked(r) ==
    op[r].kind = "decreaseStock" =>
        /\ pc[r] \in Ready \cup {"locked"} =>
              <<op[r].product, "update">> \in held[r] /\ Subtractable(r)
        /\ pc[r] \in Ready =>
              written[r] = products[op[r].product].stock - op[r].quantity

DeletionBacked(r) ==
    op[r].kind = "deleteSupplier" =>
        /\ pc[r] \in Ready \cup {"locked"} =>
              <<op[r].supplier, "update">> \in held[r]
        /\ pc[r] \in Ready => ProductsOf(op[r].supplier) = {}

Backed(r) ==
    /\ pc[r] = "ready" => op[r].kind \notin SingleStatement
    /\ CreationBacked(r) /\ DecreaseBacked(r) /\ DeletionBacked(r)

Inv ==
    /\ TypeOK
    /\ LocksExclude
    /\ ReferentialIntegrity
    /\ \A r \in Requests : Backed(r)

-----------------------------------------------------------------------------
(* The operands of each operation are what their names say.                *)
LEMMA Operands ==
    ASSUME NEW r \in Requests, TypeOK
    PROVE  /\ op[r].kind = "createProduct" =>
                /\ op[r].supplier \in SeedSuppliers
                /\ op[r].category \in Categories
                /\ op[r].quantity \in Nat
           /\ op[r].kind = "decreaseStock" =>
                /\ op[r].product \in ProductIds
                /\ op[r].quantity \in Nat
           /\ op[r].kind = "deleteSupplier" => op[r].supplier \in SeedSuppliers
           /\ op[r].kind \in {"deleteProduct", "createImage", "getProduct",
                              "getProductImage"} => op[r].product \in ProductIds
           /\ op[r].kind \in {"replaceImage", "deleteImage", "getImage"} =>
                op[r].image \in ImageIds
           /\ op[r].kind \in SingleStatement \cup
                {"createProduct", "decreaseStock", "deleteSupplier"}
<1>1. op[r] \in Ops
  BY AskedAssumption DEF TypeOK
<1> QED
  BY <1>1, SeedAssumption DEF Ops, SingleStatement

(* A missing row is not taken for one.                                     *)
LEMMA NoneIsNoRow == None \notin Product /\ None \notin Image
BY NoneAssumption

(* The absence of an obstacle is not taken for one.                        *)
LEMMA NoneIsNoReason == None \notin Refusals
BY NoneAssumption

(* Invariant of the seed rows, whose references are kept.                  *)
LEMMA InitInv == Init => Inv
<1> SUFFICES ASSUME Init PROVE Inv
  OBVIOUS
<1>1. TypeOK
  <2>1. products \in [ProductIds -> Product \cup {None}]
    BY SeedAssumption DEF Init, ProductIds
  <2>2. images \in [ImageIds -> Image \cup {None}]
    BY SeedAssumption DEF Init, SeedRows, ImageIds, ProductIds, Image
  <2> QED
    BY <2>1, <2>2 DEF Init, TypeOK
<1>2. LocksExclude
  BY DEF Init, LocksExclude
<1>3. ReferentialIntegrity
  <2>1. \A p \in ProductIds : products[p] # None => products[p].supplier \in suppliers
    BY SeedAssumption DEF Init, Product
  <2>2. \A i \in ImageIds : images[i] # None =>
            i \in DOMAIN SeedImages /\ images[i].product = SeedImages[i]
    BY DEF Init, SeedRows
  <2>3. \A p \in DOMAIN SeedProducts : products[p] # None
    BY SeedAssumption, NoneIsNoRow DEF Init, ProductIds
  <2>4. \A i \in ImageIds : images[i] # None => products[images[i].product] # None
    BY <2>2, <2>3, SeedAssumption
  <2>5. \A p \in ProductIds : \A i, j \in PicturesOf(p) : i = j
    BY <2>2, SeedAssumption DEF PicturesOf
  <2> QED
    BY <2>1, <2>4, <2>5 DEF ReferentialIntegrity
<1>4. \A r \in Requests : Backed(r)
  BY SeedAssumption
     DEF Init, Backed, CreationBacked, DecreaseBacked, DeletionBacked, Ready, ProductIds
<1> QED
  BY <1>1, <1>2, <1>3, <1>4 DEF Inv

-----------------------------------------------------------------------------
(* Steps that leave the tables alone: all but commits.                     *)
LEMMA QuietStep ==
    ASSUME Inv, NEW r \in Requests, UNCHANGED <<data, op>>,
           TypeOK', LocksExclude', Backed(r)',
           \A q \in Requests \ {r} :
                pc'[q] = pc[q] /\ held'[q] = held[q] /\ written'[q] = written[q]
    PROVE  Inv'
<1>1. ReferentialIntegrity'
  BY DEF Inv, ReferentialIntegrity, PicturesOf, data
<1>2. ASSUME NEW q \in Requests \ {r} PROVE Backed(q)'
  BY DEF Inv, Backed, CreationBacked, DecreaseBacked, DeletionBacked, Subtractable,
         ProductsOf, data
<1> QED
  BY <1>1, <1>2 DEF Inv

(* Begin, Refuse, Rollback, GiveUp and ServerRollback.                     *)

(* A transaction begins without locks and without writes.                  *)
LEMMA BeginInv == ASSUME Inv, NEW r \in Requests, Begin(r) PROVE Inv'
<1>1. TypeOK'
  BY DEF Inv, TypeOK, Begin, Goto, data, Stages
<1>2. LocksExclude'
  BY DEF Inv, LocksExclude, Begin
<1>3. Backed(r)'
  BY DEF Inv, TypeOK, Backed, CreationBacked, DecreaseBacked, DeletionBacked, Ready,
         Begin, Goto, data
<1> QED
  BY <1>1, <1>2, <1>3, QuietStep DEF Begin, Goto, Inv, TypeOK

(* A refusal leaves only the rollback to be done.                          *)
LEMMA RefuseInv ==
    ASSUME Inv, NEW r \in Requests, NEW from \in Stages,
           NEW reason \in Refusals \cup {"ok", "error"}, Refuse(r, from, reason)
    PROVE  Inv'
<1>1. TypeOK'
  BY DEF Inv, TypeOK, Refuse, Goto, data, Stages
<1>2. LocksExclude'
  BY DEF Inv, LocksExclude, Refuse
<1>3. Backed(r)'
  BY DEF Inv, TypeOK, Backed, CreationBacked, DecreaseBacked, DeletionBacked, Ready,
         Refuse, Goto, data, Stages
<1> QED
  BY <1>1, <1>2, <1>3, QuietStep DEF Refuse, Goto, Inv, TypeOK

(* The ends without effect of a transaction that may hold locks.           *)
LEMMA EndInv ==
    ASSUME Inv, NEW r \in Requests, Rollback(r) \/ ServerRollback(r)
    PROVE  Inv'
<1> USE DEF Rollback, ServerRollback, Goto
<1>1. LocksExclude' /\ held' \in LocksOn(Rows)
  BY UnlockKeepsExclusion DEF Inv, TypeOK, LocksOn
<1>2. TypeOK'
  BY <1>1 DEF Inv, TypeOK, data, Ended, LocksOn
<1>3. Backed(r)'
  BY DEF Inv, TypeOK, Backed, CreationBacked, DecreaseBacked, DeletionBacked, Ready, data
<1> QED
  BY <1>1, <1>2, <1>3, QuietStep DEF Unlock, Inv, TypeOK

(* A request whose context ends keeps its locks; only one that may have    *)
(* sent its COMMIT or its statement is in doubt.                           *)
LEMMA GiveUpInv == ASSUME Inv, NEW r \in Requests, GiveUp(r) PROVE Inv'
<1> USE DEF GiveUp, Break, Sent
<1>1. TypeOK'
  BY DEF Inv, TypeOK, data, Ended
<1>2. LocksExclude'
  BY DEF Inv, LocksExclude
<1>3. products' = products /\ suppliers' = suppliers /\ op' = op /\ held' = held
        /\ written' = written
  BY DEF data
<1>4. Backed(r)
  BY DEF Inv
<1>5. Backed(r)'
  <2>1. CASE Sent(r)
    <3>1. pc'[r] = "inDoubt"
      BY <2>1 DEF Inv, TypeOK
    <3>2. CASE pc[r] = "ready"
      BY <1>3, <1>4, <3>1, <3>2
         DEF Backed, CreationBacked, DecreaseBacked, DeletionBacked, Ready, ProductsOf, Ended,
             Subtractable
    <3>3. CASE op[r].kind \in SingleStatement
      BY <1>3, <3>1, <3>3
         DEF Backed, CreationBacked, DecreaseBacked, DeletionBacked, SingleStatement
    <3> QED
      BY <2>1, <3>2, <3>3
  <2>2. CASE ~Sent(r)
    <3>1. pc'[r] \in {"done", "abandoned"}
      BY <2>2 DEF Inv, TypeOK
    <3> QED
      BY <1>3, <1>4, <3>1
         DEF Backed, CreationBacked, DecreaseBacked, DeletionBacked, Ready, Ended
  <2> QED
    BY <2>1, <2>2
<1> QED
  BY <1>1, <1>2, <1>5, QuietStep DEF Inv, TypeOK

-----------------------------------------------------------------------------
(* The statements of a product's creation.                                 *)

(* The EXISTS check locks nothing, and nothing relies on it.               *)
LEMMA CheckSupplierInv == ASSUME Inv, NEW r \in Requests, CheckSupplier(r) PROVE Inv'
<1>1. CASE op[r].supplier \in suppliers
  <2> USE <1>1 DEF CheckSupplier, Refuse, Goto
  <2>1. TypeOK'
    BY DEF Inv, TypeOK, data, Stages
  <2>2. LocksExclude'
    BY DEF Inv, LocksExclude
  <2>3. Backed(r)'
    BY DEF Inv, TypeOK, Backed, CreationBacked, DecreaseBacked, DeletionBacked, Ready, data
  <2> QED
    BY <2>1, <2>2, <2>3, QuietStep DEF Inv, TypeOK
<1>2. CASE op[r].supplier \notin suppliers
  BY <1>2, RefuseInv DEF CheckSupplier, Stages, Refusals
<1> QED
  BY <1>1, <1>2

(* The upsert locks the category.                                          *)
LEMMA UpsertCategoryInv == ASSUME Inv, NEW r \in Requests, UpsertCategory(r) PROVE Inv'
<1> USE DEF UpsertCategory, Goto
<1>1. LocksExclude' /\ held' \in LocksOn(Rows)
  BY LockKeepsExclusion, Operands DEF Inv, TypeOK, LocksOn, Rows, Modes
<1>2. TypeOK'
  BY <1>1 DEF Inv, TypeOK, data, Stages, LocksOn
<1>3. Backed(r)'
  BY DEF Inv, TypeOK, Backed, CreationBacked, DecreaseBacked, DeletionBacked, Ready, data
<1> QED
  BY <1>1, <1>2, <1>3, QuietStep DEF Lock, Inv, TypeOK

(* The insert locks the supplier it has found, so that it stays.           *)
LEMMA InsertProductInv == ASSUME Inv, NEW r \in Requests, InsertProduct(r) PROVE Inv'
<1>1. CASE op[r].supplier \in suppliers
  <2> USE <1>1 DEF InsertProduct, Refuse, Goto
  <2>1. LocksExclude' /\ held' \in LocksOn(Rows)
    BY LockKeepsExclusion, Operands DEF Inv, TypeOK, LocksOn, Rows, Modes
  <2>2. TypeOK'
    BY <2>1 DEF Inv, TypeOK, data, Stages, LocksOn
  <2>3. Backed(r)'
    BY DEF Inv, TypeOK, Backed, CreationBacked, DecreaseBacked, DeletionBacked, Ready, data,
           Lock, SingleStatement
  <2> QED
    BY <2>1, <2>2, <2>3, QuietStep DEF Lock, Inv, TypeOK
<1>2. CASE op[r].supplier \notin suppliers
  BY <1>2, RefuseInv DEF InsertProduct, Stages, Refusals
<1> QED
  BY <1>1, <1>2

-----------------------------------------------------------------------------
(* The statements of a decrease.                                           *)

(* FOR UPDATE holds the row whose stock was found sufficient.              *)
LEMMA LockStockInv == ASSUME Inv, NEW r \in Requests, LockStock(r) PROVE Inv'
<1>1. CASE products[op[r].product] = None
  BY <1>1, RefuseInv DEF LockStock, Stages, Refusals
<1>2. CASE products[op[r].product] # None
  <2> USE <1>2 DEF LockStock, Refuse, Goto
  <2>1. LocksExclude' /\ held' \in LocksOn(Rows)
    BY LockKeepsExclusion, Operands DEF Inv, TypeOK, LocksOn, Rows, Modes
  <2>2. TypeOK'
    BY <2>1 DEF Inv, TypeOK, data, Stages, LocksOn, Refusals
  <2>3. Backed(r)'
    BY DEF Inv, TypeOK, Backed, CreationBacked, DecreaseBacked, DeletionBacked, Ready, data,
           Lock, Subtractable
  <2> QED
    BY <2>1, <2>2, <2>3, QuietStep DEF Lock, Inv, TypeOK
<1> QED
  BY <1>1, <1>2

(* The new stock is that of the locked row less the quantity.              *)
LEMMA UpdateStockInv == ASSUME Inv, NEW r \in Requests, UpdateStock(r) PROVE Inv'
<1>1. CASE Subtractable(r)
  <2> USE <1>1 DEF UpdateStock, Refuse, Goto
  <2>1. LocksExclude' /\ held' \in LocksOn(Rows)
    BY LockKeepsExclusion, Operands DEF Inv, TypeOK, LocksOn, Rows, Modes
  <2>2. products[op[r].product].stock - op[r].quantity \in Nat
    <3>1. products[op[r].product] \in Product
      BY Operands DEF Subtractable, Inv, TypeOK
    <3> QED
      BY <3>1, Operands DEF Subtractable, Product, Inv
  <2>3. TypeOK'
    BY <2>1, <2>2 DEF Inv, TypeOK, data, Stages, LocksOn
  <2>4. Backed(r)'
    BY <2>2 DEF Inv, TypeOK, Backed, CreationBacked, DecreaseBacked, DeletionBacked, Ready,
           data, Lock, Subtractable, SingleStatement
  <2> QED
    BY <2>1, <2>3, <2>4, QuietStep DEF Lock, Inv, TypeOK
<1>2. CASE ~Subtractable(r)
  BY <1>2, RefuseInv DEF UpdateStock, Stages
<1> QED
  BY <1>1, <1>2

-----------------------------------------------------------------------------
(* The statements of a supplier's deletion.                                *)

(* A deletion holds the row of the supplier it has found.                  *)
LEMMA LockSupplierInv == ASSUME Inv, NEW r \in Requests, LockSupplier(r) PROVE Inv'
<1>1. CASE op[r].supplier \in suppliers
  <2> USE <1>1 DEF LockSupplier, Goto
  <2>1. LocksExclude' /\ held' \in LocksOn(Rows)
    BY LockKeepsExclusion, Operands DEF Inv, TypeOK, LocksOn, Rows, Modes
  <2>2. TypeOK'
    BY <2>1 DEF Inv, TypeOK, data, Stages, LocksOn
  <2>3. Backed(r)'
    BY DEF Inv, TypeOK, Backed, CreationBacked, DecreaseBacked, DeletionBacked, Ready, data,
           Lock
  <2> QED
    BY <2>1, <2>2, <2>3, QuietStep DEF Lock, Inv, TypeOK
<1>2. CASE op[r].supplier \notin suppliers
  <2> USE <1>2 DEF LockSupplier, Succeed, Returned, Goto
  <2>1. TypeOK'
    BY DEF Inv, TypeOK, data, Stages
  <2>2. LocksExclude'
    BY DEF Inv, LocksExclude
  <2>3. Backed(r)'
    BY DEF Inv, TypeOK, Backed, CreationBacked, DecreaseBacked, DeletionBacked, Ready, data
  <2> QED
    BY <2>1, <2>2, <2>3, QuietStep DEF Inv, TypeOK
<1> QED
  BY <1>1, <1>2

(* It goes on if no product refers to the supplier, and while it holds the *)
(* row none can come to.                                                   *)
LEMMA RemoveSupplierInv == ASSUME Inv, NEW r \in Requests, RemoveSupplier(r) PROVE Inv'
<1>1. CASE ProductsOf(op[r].supplier) = {} /\ Goto(r, "locked", "ready")
  <2> USE <1>1 DEF RemoveSupplier, Refuse, Goto
  <2>1. UNCHANGED <<data, op, held, written, outcome, shown, applied>>
    BY <1>1
  <2>2. TypeOK'
    BY <2>1 DEF Inv, TypeOK, data, Stages
  <2>3. LocksExclude'
    BY <2>1 DEF Inv, LocksExclude
  <2>4. Backed(r)'
    BY <2>1 DEF Inv, TypeOK, Backed, CreationBacked, DecreaseBacked, DeletionBacked, Ready,
           data, ProductsOf, SingleStatement
  <2> QED
    BY <2>1, <2>2, <2>3, <2>4, QuietStep DEF Inv, TypeOK
<1>2. CASE Refuse(r, "locked", "inUse")
  BY <1>2, RefuseInv DEF Stages, Refusals
<1> QED
  BY <1>1, <1>2 DEF RemoveSupplier

-----------------------------------------------------------------------------
(* Steps with an effect on the tables.                                     *)

(* r may take effect: its statements are done, or its only one can be.     *)
Grounded(r) ==
    IF op[r].kind \in SingleStatement
    THEN Unobstructed(r) /\ Obstacle(r) = None
    ELSE pc[r] \in Ready

TablesOK ==
    /\ suppliers \in SUBSET SeedSuppliers
    /\ products \in [ProductIds -> Product \cup {None}]
    /\ images \in [ImageIds -> Image \cup {None}]

(* The row of a product that a decrease is about to change.                *)
LEMMA DecreasedRow ==
    ASSUME Inv, NEW r \in Requests, Grounded(r), StockDecreased(r)
    PROVE  /\ op[r].product \in ProductIds
           /\ products[op[r].product] # None
           /\ [supplier |-> products[op[r].product].supplier, stock |-> written[r]]
                \in Product
           /\ written[r] \in Nat
           /\ <<op[r].product, "update">> \in held[r]
<1>1. pc[r] \in Ready
  BY DEF Grounded, StockDecreased, SingleStatement
<1>2. DecreaseBacked(r)
  BY DEF Inv, Backed
<1>3. op[r].product \in ProductIds
  BY Operands DEF Inv, StockDecreased
<1>4. /\ products[op[r].product] # None
      /\ products[op[r].product].stock >= op[r].quantity
      /\ written[r] = products[op[r].product].stock - op[r].quantity
      /\ <<op[r].product, "update">> \in held[r]
  BY <1>1, <1>2 DEF DecreaseBacked, StockDecreased, Subtractable
<1>5. products[op[r].product] \in Product
  BY <1>3, <1>4 DEF Inv, TypeOK
<1>6. written[r] \in Nat
  BY <1>4, <1>5, Operands DEF Product, Inv, StockDecreased
<1> QED
  BY <1>3, <1>4, <1>5, <1>6 DEF Product

(* An effect leaves well-typed tables.                                     *)
LEMMA EffectTyped ==
    ASSUME Inv, NEW r \in Requests, Grounded(r), Effect(r)
    PROVE  TablesOK'
<1> USE Operands DEF Inv, TypeOK, TablesOK, data
<1>1. CASE ProductInserted(r)
  BY <1>1 DEF ProductInserted, Product, ProductIds
<1>2. CASE StockDecreased(r)
  BY <1>2, DecreasedRow DEF StockDecreased
<1>3. CASE SupplierDeleted(r)
  BY <1>3 DEF SupplierDeleted
<1>4. CASE ProductDeleted(r)
  BY <1>4 DEF ProductDeleted
<1>5. CASE ImageInserted(r)
  BY <1>5 DEF ImageInserted, ImageIds, Image
<1>6. CASE ImageReplaced(r)
  <2>1. op[r].image \in ImageIds /\ images[op[r].image] \in Image
    BY <1>6, NoneIsNoReason
       DEF ImageReplaced, Grounded, SingleStatement, Obstacle, Refusals
  <2> QED
    BY <1>6, <2>1 DEF ImageReplaced, ImageIds, Image
<1>7. CASE ImageDeleted(r)
  BY <1>7 DEF ImageDeleted
<1>8. CASE Selected(r)
  BY <1>8 DEF Selected
<1> QED
  BY <1>1, <1>2, <1>3, <1>4, <1>5, <1>6, <1>7, <1>8 DEF Effect

(* What is returned are rows.                                              *)
LEMMA ReturnedTyped ==
    ASSUME Inv, NEW r \in Requests, Grounded(r), Effect(r)
    PROVE  Returned(r) \in SUBSET Row
<1>1. TypeOK
  BY DEF Inv
<1>2. ASSUME NEW p \in ProductIds, products[p] # None PROVE ProductRow(p) \in Row
  <2>1. products[p].stock \in Nat /\ PicturesOf(p) \in SUBSET ImageIds
    BY <1>1, <1>2 DEF TypeOK, Product, PicturesOf
  <2> QED
    BY <2>1 DEF ProductRow, Row
<1>3. ASSUME NEW S \in SUBSET ImageIds, \A i \in S : images[i] # None
      PROVE  ImageRows(S) \in SUBSET Row
  <2>1. \A i \in S : images[i].content \in ImageIds
    BY <1>1, <1>3 DEF TypeOK, Image
  <2> QED
    BY <2>1 DEF ImageRows, Row
<1>4. CASE op[r].kind = "decreaseStock"
  <2>1. StockDecreased(r)
    BY <1>4 DEF Effect, ProductInserted, SupplierDeleted, ProductDeleted, ImageInserted,
                ImageReplaced, ImageDeleted, Selected
  <2>2. op[r].product \in ProductIds /\ written[r] \in Nat
    BY <2>1, DecreasedRow
  <2> QED
    BY <1>4, <2>2 DEF Returned, Row
<1>5. CASE op[r].kind = "getProduct"
  <2>1. op[r].product \in ProductIds /\ products[op[r].product] # None
    BY <1>1, <1>5, Operands, NoneIsNoReason DEF Grounded, SingleStatement, Obstacle, Refusals
  <2> QED
    BY <1>2, <1>5, <2>1 DEF Returned
<1>6. CASE op[r].kind = "listProducts"
  BY <1>2, <1>6 DEF Returned
<1>7. CASE op[r].kind = "getProductImage"
  BY <1>3, <1>7 DEF Returned, PicturesOf
<1>8. CASE op[r].kind = "getImage"
  <2>1. op[r].image \in ImageIds /\ images[op[r].image] # None
    BY <1>1, <1>8, Operands, NoneIsNoReason DEF Grounded, SingleStatement, Obstacle, Refusals
  <2> QED
    BY <1>3, <1>8, <2>1 DEF Returned
<1> QED
  BY <1>4, <1>5, <1>6, <1>7, <1>8 DEF Returned

(* An effect breaks no reference.                                          *)
LEMMA EffectKeepsReferences ==
    ASSUME Inv, NEW r \in Requests, Grounded(r), Effect(r)
    PROVE  ReferentialIntegrity'
<1> USE Operands DEF ReferentialIntegrity, data
<1>1. TypeOK /\ ReferentialIntegrity /\ Backed(r)
  BY DEF Inv
<1>2. CASE ProductInserted(r)
  <2>1. op[r].supplier \in suppliers /\ r \in ProductIds
    BY <1>1, <1>2 DEF Grounded, ProductInserted, SingleStatement, Backed, CreationBacked,
                      ProductIds
  <2>2. [supplier |-> op[r].supplier, stock |-> op[r].quantity] # None
    BY <1>1, <1>2, NoneIsNoRow DEF ProductInserted, Product
  <2> QED
    BY <1>1, <1>2, <2>1, <2>2 DEF ProductInserted, PicturesOf, TypeOK
<1>3. CASE StockDecreased(r)
  <2>1. [supplier |-> products[op[r].product].supplier, stock |-> written[r]] # None
    BY <1>3, DecreasedRow, NoneIsNoRow
  <2>2. \A p \in ProductIds : products'[p] # None =>
            products[p] # None /\ products'[p].supplier = products[p].supplier
    BY <1>1, <1>3, DecreasedRow DEF StockDecreased, TypeOK
  <2>3. \A p \in ProductIds : products[p] # None => products'[p] # None
    BY <1>1, <1>3, <2>1, DecreasedRow DEF StockDecreased, TypeOK
  <2>4. \A i \in ImageIds : images[i] # None => images[i].product \in ProductIds
    BY <1>1 DEF TypeOK, Image
  <2> QED
    BY <1>1, <1>3, <2>2, <2>3, <2>4 DEF StockDecreased, PicturesOf
<1>4. CASE SupplierDeleted(r)
  <2>1. ProductsOf(op[r].supplier) = {}
    BY <1>1, <1>4 DEF Grounded, SupplierDeleted, SingleStatement, Backed, DeletionBacked
  <2> QED
    BY <1>1, <1>4, <2>1 DEF SupplierDeleted, ProductsOf, PicturesOf
<1>5. CASE ProductDeleted(r)
  <2>1. \A i \in ImageIds : images'[i] # None =>
            images'[i] = images[i] /\ images[i].product # op[r].product
    BY <1>5 DEF ProductDeleted, PicturesOf
  <2>2. \A i \in ImageIds : images[i] # None => images[i].product \in ProductIds
    BY <1>1 DEF TypeOK, Image
  <2>3. \A i \in ImageIds : images'[i] # None => products'[images'[i].product] # None
    BY <1>1, <1>5, <2>1, <2>2 DEF ProductDeleted, TypeOK
  <2>4. \A p \in ProductIds : PicturesOf(p)' \subseteq PicturesOf(p)
    BY <2>1 DEF PicturesOf
  <2> QED
    BY <1>1, <1>5, <2>3, <2>4 DEF ProductDeleted, TypeOK
<1>6. CASE ImageInserted(r)
  <2>1. ~Pictured(op[r].product) /\ products[op[r].product] # None
    BY <1>6, NoneIsNoReason DEF ImageInserted, Grounded, SingleStatement, Obstacle, Refusals
  <2>2. r \in ImageIds /\ PicturesOf(op[r].product) = {}
    BY <2>1 DEF Pictured, ImageIds
  <2>3. \A i \in ImageIds : images'[i] =
            IF i = r THEN [product |-> op[r].product, content |-> r] ELSE images[i]
    BY <1>1, <1>6, <2>2 DEF ImageInserted, TypeOK
  <2>4. \A i \in ImageIds : images'[i] # None => products'[images'[i].product] # None
    BY <1>1, <1>6, <2>1, <2>3 DEF ImageInserted
  <2>5. \A p \in ProductIds : PicturesOf(p)' \subseteq
            IF p = op[r].product THEN {r} ELSE PicturesOf(p)
    BY <2>2, <2>3 DEF PicturesOf
  <2> QED
    BY <1>1, <1>6, <2>4, <2>5 DEF ImageInserted
<1>7. CASE ImageReplaced(r)
  <2>1. op[r].image \in ImageIds /\ images[op[r].image] # None
    BY <1>1, <1>7, NoneIsNoReason
       DEF ImageReplaced, Grounded, SingleStatement, Obstacle, Refusals
  <2>2. \A i \in ImageIds :
            images'[i] # None => images[i] # None /\ images'[i].product = images[i].product
    BY <1>1, <1>7, <2>1 DEF ImageReplaced, TypeOK
  <2> QED
    BY <1>1, <1>7, <2>2 DEF ImageReplaced, PicturesOf
<1>8. CASE ImageDeleted(r)
  <2>1. \A i \in ImageIds : images'[i] # None => images'[i] = images[i]
    BY <1>1, <1>8 DEF ImageDeleted, TypeOK
  <2> QED
    BY <1>1, <1>8, <2>1 DEF ImageDeleted, PicturesOf
<1>9. CASE Selected(r)
  BY <1>1, <1>9 DEF Selected, PicturesOf
<1> QED
  BY <1>2, <1>3, <1>4, <1>5, <1>6, <1>7, <1>8, <1>9 DEF Effect

(* An effect of r leaves the transactions of others what they rely on: r   *)
(* would need a lock that they hold.                                       *)
LEMMA EffectKeepsOthers ==
    ASSUME Inv, NEW r \in Requests, Grounded(r), Effect(r), op' = op, written' = written,
           NEW q \in Requests \ {r}, pc'[q] = pc[q], held'[q] = held[q]
    PROVE  Backed(q)'
<1>1. TypeOK /\ LocksExclude /\ Backed(r) /\ Backed(q)
  BY DEF Inv
<1>2. ASSUME NEW row, <<row, "update">> \in held[q]
      PROVE  /\ \A mode \in Modes : <<row, mode>> \notin held[r]
             /\ ~Lockable(r, row, "update")
  BY <1>1, <1>2 DEF LocksExclude, Lockable, Keeps
<1>3. ASSUME NEW row, <<row, "share">> \in held[q]
      PROVE  <<row, "update">> \notin held[r]
  BY <1>1, <1>3 DEF LocksExclude, Modes
<1>4. CreationBacked(q)'
  <2> SUFFICES ASSUME op[q].kind = "createProduct"
               PROVE  /\ pc[q] \in Ready =>
                            /\ <<op[q].supplier, "share">> \in held[q]
                            /\ op[q].supplier \in suppliers'
                      /\ products'[q] # None => pc[q] = "done"
    BY DEF CreationBacked
  <2>1. CreationBacked(q)
    BY <1>1 DEF Backed
  <2>2. ASSUME pc[q] \in Ready PROVE op[q].supplier \in suppliers'
    <3>1. CASE SupplierDeleted(r)
      <4>1. <<op[r].supplier, "update">> \in held[r]
        BY <1>1, <3>1
           DEF SupplierDeleted, Grounded, SingleStatement, Backed, DeletionBacked
      <4> QED
        BY <1>3, <2>1, <2>2, <3>1, <4>1 DEF SupplierDeleted, CreationBacked
    <3>2. CASE ~SupplierDeleted(r)
      BY <2>1, <2>2, <3>2
         DEF Effect, CreationBacked, ProductInserted, StockDecreased, ProductDeleted,
             ImageInserted, ImageReplaced, ImageDeleted, Selected, data
    <3> QED
      BY <3>1, <3>2
  <2>3. ASSUME products'[q] # None PROVE products[q] # None
    <3>1. q \in ProductIds
      BY DEF ProductIds
    <3>2. CASE StockDecreased(r)
      BY <1>1, <2>3, <3>1, <3>2, DecreasedRow DEF StockDecreased, TypeOK
    <3>3. CASE ~StockDecreased(r)
      BY <1>1, <2>3, <3>1, <3>3
         DEF Effect, TypeOK, ProductInserted, SupplierDeleted, ProductDeleted,
             ImageInserted, ImageReplaced, ImageDeleted, Selected, data
    <3> QED
      BY <3>2, <3>3
  <2> QED
    BY <2>1, <2>2, <2>3 DEF CreationBacked
<1>5. DecreaseBacked(q)'
  <2> SUFFICES ASSUME op[q].kind = "decreaseStock"
               PROVE  DecreaseBacked(q)'
    BY DEF DecreaseBacked
  <2>1. DecreaseBacked(q) /\ op[q].product \in ProductIds
    BY <1>1, Operands DEF Backed
  <2>2. ASSUME pc[q] \in Ready \cup {"locked"}
        PROVE  products'[op[q].product] = products[op[q].product]
    <3>1. <<op[q].product, "update">> \in held[q]
      BY <2>1, <2>2 DEF DecreaseBacked
    <3>2. CASE ProductInserted(r)
      <4>1. products[op[q].product] # None
        BY <2>1, <2>2 DEF DecreaseBacked, Subtractable
      <4>2. products[r] = None
        BY <1>1, <3>2
           DEF ProductInserted, Grounded, SingleStatement, Backed, CreationBacked, Ready
      <4> QED
        BY <1>1, <2>1, <3>2, <4>1, <4>2 DEF ProductInserted, TypeOK
    <3>3. CASE StockDecreased(r)
      <4>1. op[r].product # op[q].product
        BY <1>2, <3>1, <3>3, DecreasedRow DEF Modes
      <4> QED
        BY <1>1, <2>1, <3>3, <4>1 DEF StockDecreased, TypeOK
    <3>4. CASE ProductDeleted(r)
      <4>1. op[r].product # op[q].product
        BY <1>2, <3>1, <3>4 DEF ProductDeleted, Grounded, SingleStatement, Unobstructed
      <4> QED
        BY <1>1, <2>1, <3>4, <4>1 DEF ProductDeleted, TypeOK
    <3>5. CASE ~(ProductInserted(r) \/ StockDecreased(r) \/ ProductDeleted(r))
      BY <3>5 DEF Effect, SupplierDeleted, ImageInserted, ImageReplaced, ImageDeleted,
                  Selected, data
    <3> QED
      BY <3>2, <3>3, <3>4, <3>5
  <2> QED
    BY <2>1, <2>2 DEF DecreaseBacked, Subtractable, Ready
<1>6. DeletionBacked(q)'
  <2> SUFFICES ASSUME op[q].kind = "deleteSupplier", pc[q] \in Ready
               PROVE  ProductsOf(op[q].supplier)' = {}
    BY <1>1 DEF Backed, DeletionBacked
  <2>1. /\ <<op[q].supplier, "update">> \in held[q]
        /\ ProductsOf(op[q].supplier) = {}
    BY <1>1 DEF Backed, DeletionBacked
  <2>2. CASE ProductInserted(r)
    <3>1. op[r].supplier # op[q].supplier
      BY <1>1, <1>2, <2>1, <2>2
         DEF ProductInserted, Grounded, SingleStatement, Backed, CreationBacked, Modes
    <3> QED
      BY <1>1, <2>1, <2>2, <3>1 DEF ProductInserted, ProductsOf, TypeOK
  <2>3. CASE StockDecreased(r)
    BY <1>1, <2>1, <2>3, DecreasedRow DEF StockDecreased, ProductsOf, TypeOK
  <2>4. CASE ProductDeleted(r)
    BY <1>1, <2>1, <2>4 DEF ProductDeleted, ProductsOf, TypeOK
  <2>5. CASE ~(ProductInserted(r) \/ StockDecreased(r) \/ ProductDeleted(r))
    BY <2>1, <2>5 DEF Effect, SupplierDeleted, ImageInserted, ImageReplaced, ImageDeleted,
                      Selected, data, ProductsOf
  <2> QED
    BY <2>2, <2>3, <2>4, <2>5
<1> QED
  BY <1>1, <1>4, <1>5, <1>6 DEF Backed

(* What Commit, Execute and ServerCommit have in common.                   *)
LEMMA EffectInv ==
    ASSUME Inv, NEW r \in Requests, Grounded(r), Effect(r),
           op' = op, written' = written, pc' = [pc EXCEPT ![r] = "done"],
           held' = held \/ Unlock(r),
           outcome' \in [Requests -> Refusals \cup {"ok", "error", None}],
           shown' \in [Requests -> SUBSET Row]
    PROVE  Inv'
<1>1. LocksExclude' /\ held' \in LocksOn(Rows)
  <2>1. CASE held' = held
    BY <2>1 DEF Inv, TypeOK, LocksOn, LocksExclude
  <2>2. CASE Unlock(r)
    BY <2>2, UnlockKeepsExclusion DEF Inv, TypeOK, LocksOn
  <2> QED
    BY <2>1, <2>2
<1>2. TypeOK'
  BY <1>1, EffectTyped DEF Inv, TypeOK, TablesOK, LocksOn, Effect, Ended
<1>3. ReferentialIntegrity'
  BY EffectKeepsReferences
<1>4. ASSUME NEW q \in Requests PROVE Backed(q)'
  <2>1. CASE q = r
    BY <2>1 DEF Inv, TypeOK, Backed, CreationBacked, DecreaseBacked, DeletionBacked, Ready
  <2>2. CASE q # r
    <3>1. pc'[q] = pc[q] /\ held'[q] = held[q]
      BY <2>2 DEF Inv, TypeOK, Unlock
    <3> QED
      BY <2>2, <3>1, EffectKeepsOthers
  <2> QED
    BY <2>1, <2>2
<1> QED
  BY <1>1, <1>2, <1>3, <1>4 DEF Inv

(* A COMMIT, in time or late, keeps the invariant.                         *)
LEMMA CommitInv ==
    ASSUME Inv, NEW r \in Requests, Commit(r) \/ ServerCommit(r)
    PROVE  Inv'
<1>1. Grounded(r)
  BY DEF Commit, ServerCommit, Goto, Grounded, Inv, Backed, Ready
<1>2. pc' = [pc EXCEPT ![r] = "done"]
  BY DEF Commit, ServerCommit, Goto
<1>3. Effect(r)
  BY DEF Commit, ServerCommit
<1>4. /\ outcome' \in [Requests -> Refusals \cup {"ok", "error", None}]
      /\ shown' \in [Requests -> SUBSET Row]
  BY <1>1, <1>3, ReturnedTyped DEF Commit, ServerCommit, Succeed, Inv, TypeOK
<1> QED
  BY <1>1, <1>2, <1>4, EffectInv DEF Commit, ServerCommit

(* A statement that PostgreSQL refuses has no effect.                      *)
LEMMA ObstacleIsReason ==
    ASSUME NEW r \in Requests, Obstacle(r) # None
    PROVE  Obstacle(r) \in Refusals
BY DEF Obstacle, Refusals

(* So does an operation of a single statement.                             *)
LEMMA ExecuteInv == ASSUME Inv, NEW r \in Requests, Execute(r) PROVE Inv'
<1>1. CASE Obstacle(r) = None
  <2>1. Grounded(r)
    BY <1>1 DEF Execute, Grounded
  <2>2. Effect(r) /\ Succeed(r)
    BY <1>1 DEF Execute
  <2>3. /\ outcome' \in [Requests -> Refusals \cup {"ok", "error", None}]
        /\ shown' \in [Requests -> SUBSET Row]
    BY <2>1, <2>2, ReturnedTyped DEF Succeed, Inv, TypeOK
  <2> QED
    BY <1>1, <2>1, <2>3, EffectInv DEF Execute, Goto
<1>2. CASE Obstacle(r) # None
  BY <1>2, ObstacleIsReason, RefuseInv DEF Execute, Stages
<1> QED
  BY <1>1, <1>2

-----------------------------------------------------------------------------
(* The inductive invariant: what a transaction has read or checked stays   *)
(* true until its end, because its locks are held that long.               *)
THEOREM InvHolds == Spec => []Inv
<1>1. ASSUME Inv, NEW r \in Requests, Statement(r) PROVE Inv'
  BY <1>1, CheckSupplierInv, UpsertCategoryInv, InsertProductInv, LockStockInv,
     UpdateStockInv, LockSupplierInv, RemoveSupplierInv, ExecuteInv, CommitInv, EndInv
     DEF Statement
<1>2. Inv /\ Next => Inv'
  BY <1>1, BeginInv, GiveUpInv, EndInv, CommitInv DEF Next
<1>3. ASSUME Inv, UNCHANGED vars PROVE Inv'
  <2>1. TypeOK' /\ LocksExclude' /\ ReferentialIntegrity'
    BY <1>3 DEF vars, Inv, TypeOK, LocksExclude, ReferentialIntegrity, PicturesOf
  <2>2. ASSUME NEW r \in Requests PROVE Backed(r)'
    BY <1>3 DEF vars, Inv, Backed, CreationBacked, DecreaseBacked, DeletionBacked,
                Subtractable, ProductsOf
  <2> QED
    BY <2>1, <2>2 DEF Inv
<1> QED
  BY <1>2, <1>3, InitInv, PTL DEF Spec

(* Rows, locks and results keep their types; in particular no stock is     *)
(* ever negative.                                                          *)
THEOREM TypeCorrect == Spec => []TypeOK
BY InvHolds, PTL DEF Inv

(* No product without supplier, no image without product, no product with  *)
(* two images, whatever is created and deleted at the same time.           *)
THEOREM References == Spec => []ReferentialIntegrity
BY InvHolds, PTL DEF Inv

(* Once a decrease has found enough stock, there is enough for its UPDATE. *)
THEOREM DecisionHolds == Spec => []StockDecisionHolds
<1>1. Inv => StockDecisionHolds
  BY DEF Inv, Backed, DecreaseBacked, StockDecisionHolds
<1> QED
  BY InvHolds, <1>1, PTL

-----------------------------------------------------------------------------
(* Waiting: no set of requests waits on itself.                            *)

(* Which locks r may hold, and from when on; none when it is over.         *)
HoldsOnly(r) ==
    /\ held[r] # {} => pc[r] \notin {"queued", "begun", "checked", "done"}
    /\ \A lock \in held[r] :
        \/ op[r].kind = "createProduct" /\ lock = <<op[r].category, "update">>
        \/ /\ op[r].kind = "createProduct" /\ pc[r] # "categorised"
           /\ lock = <<op[r].supplier, "share">>
        \/ op[r].kind = "decreaseStock" /\ lock = <<op[r].product, "update">>
        \/ op[r].kind = "deleteSupplier" /\ lock = <<op[r].supplier, "update">>

AllHoldOnly == \A r \in Requests : HoldsOnly(r)

(* A step of r without a lock, from a place where it may hold the same.    *)
LEMMA SameLocks ==
    ASSUME TypeOK, AllHoldOnly, NEW r \in Requests, NEW to, op' = op, held' = held,
           pc' = [pc EXCEPT ![r] = to],
           to \notin {"queued", "begun", "checked", "categorised", "done"} \/ held[r] = {}
    PROVE  AllHoldOnly'
<1> SUFFICES ASSUME NEW q \in Requests PROVE HoldsOnly(q)'
  BY DEF AllHoldOnly
<1>1. HoldsOnly(q)
  BY DEF AllHoldOnly
<1>2. CASE q = r
  BY <1>1, <1>2 DEF HoldsOnly, TypeOK
<1>3. CASE q # r
  BY <1>1, <1>3 DEF HoldsOnly, TypeOK
<1> QED
  BY <1>2, <1>3

(* A step in which r takes a lock that it may hold from now on.            *)
LEMMA OneMoreLock ==
    ASSUME TypeOK, AllHoldOnly, NEW r \in Requests, NEW to, NEW lock, op' = op,
           held' = [held EXCEPT ![r] = @ \cup {lock}],
           pc' = [pc EXCEPT ![r] = to],
           to \notin {"queued", "begun", "checked", "done"},
           to = "categorised" => held[r] = {},
           \/ op[r].kind = "createProduct" /\ lock = <<op[r].category, "update">>
           \/ /\ op[r].kind = "createProduct" /\ lock = <<op[r].supplier, "share">>
              /\ to # "categorised"
           \/ op[r].kind = "decreaseStock" /\ lock = <<op[r].product, "update">>
           \/ op[r].kind = "deleteSupplier" /\ lock = <<op[r].supplier, "update">>
    PROVE  AllHoldOnly'
<1> SUFFICES ASSUME NEW q \in Requests PROVE HoldsOnly(q)'
  BY DEF AllHoldOnly
<1>1. HoldsOnly(q)
  BY DEF AllHoldOnly
<1>2. CASE q = r
  <2>1. held'[r] = held[r] \cup {lock} /\ pc'[r] = to
    BY DEF TypeOK
  <2> QED
    BY <1>1, <1>2, <2>1 DEF HoldsOnly
<1>3. CASE q # r
  BY <1>1, <1>3 DEF HoldsOnly, TypeOK
<1> QED
  BY <1>2, <1>3

(* A step that ends r's transaction.                                       *)
LEMMA NoLocksLeft ==
    ASSUME TypeOK, AllHoldOnly, NEW r \in Requests, op' = op, Unlock(r),
           pc' = [pc EXCEPT ![r] = "done"]
    PROVE  AllHoldOnly'
BY DEF AllHoldOnly, HoldsOnly, TypeOK, Unlock

(* Whoever has not come to a lock yet holds none.                          *)
LEMMA NoLocksYet ==
    ASSUME AllHoldOnly, NEW r \in Requests,
           \/ pc[r] \in {"queued", "begun", "checked", "done"}
           \/ op[r].kind \in SingleStatement
    PROVE  held[r] = {}
<1> SUFFICES ASSUME NEW lock \in held[r] PROVE FALSE
  OBVIOUS
<1>1. HoldsOnly(r)
  BY DEF AllHoldOnly
<1>2. /\ pc[r] \notin {"queued", "begun", "checked", "done"}
      /\ op[r].kind \in {"createProduct", "decreaseStock", "deleteSupplier"}
  BY <1>1 DEF HoldsOnly
<1> QED
  BY <1>2 DEF SingleStatement

(* Every step keeps to the locks that r may hold.                          *)
LEMMA AllHoldOnlyInv ==
    ASSUME TypeOK, AllHoldOnly, NEW r \in Requests,
           Begin(r) \/ Statement(r) \/ GiveUp(r) \/ ServerRollback(r) \/ ServerCommit(r)
    PROVE  AllHoldOnly'
<1> USE DEF Goto, Refuse
<1>1. CASE Begin(r)
  BY <1>1, SameLocks, NoLocksYet DEF Begin
<1>2. CASE CheckSupplier(r)
  BY <1>2, SameLocks, NoLocksYet DEF CheckSupplier
<1>3. CASE UpsertCategory(r)
  BY <1>3, OneMoreLock, NoLocksYet DEF UpsertCategory, Lock
<1>4. CASE InsertProduct(r)
  BY <1>4, OneMoreLock, SameLocks DEF InsertProduct, Lock
<1>5. CASE LockStock(r)
  BY <1>5, OneMoreLock, SameLocks DEF LockStock, Lock
<1>6. CASE UpdateStock(r)
  BY <1>6, OneMoreLock, SameLocks DEF UpdateStock, Lock
<1>7. CASE LockSupplier(r)
  BY <1>7, OneMoreLock, SameLocks DEF LockSupplier, Lock
<1>8. CASE RemoveSupplier(r)
  BY <1>8, SameLocks DEF RemoveSupplier
<1>9. CASE Execute(r)
  BY <1>9, SameLocks, NoLocksYet DEF Execute
<1>10. CASE Commit(r) \/ Rollback(r) \/ ServerRollback(r) \/ ServerCommit(r)
  <2>1. op' = op
    BY <1>10 DEF Commit, Rollback, ServerRollback, ServerCommit
  <2> QED
    BY <1>10, <2>1, NoLocksLeft DEF Commit, Rollback, ServerRollback, ServerCommit
<1>11. CASE GiveUp(r)
  <2>1. PICK to \in {"done", "abandoned", "inDoubt"} :
            /\ pc' = [pc EXCEPT ![r] = to]
            /\ to = "done" => pc[r] = "queued"
    BY <1>11 DEF GiveUp, Break
  <2>2. op' = op /\ held' = held
    BY <1>11 DEF GiveUp
  <2> QED
    BY <2>1, <2>2, SameLocks, NoLocksYet
<1> QED
  BY <1>1, <1>2, <1>3, <1>4, <1>5, <1>6, <1>7, <1>8, <1>9, <1>10, <1>11 DEF Statement

-----------------------------------------------------------------------------
(* Locks are taken in the order of categories, suppliers, products, and a  *)
(* transaction that holds a product's waits for nothing: so whoever is the *)
(* last in this order among those that wait does not wait on another.      *)
LEMMA NoneWaits ==
    ASSUME Inv, AllHoldOnly, NEW S \in SUBSET (Requests \ Finished), S # {}
    PROVE  \E r \in S : ~WaitsOn(r, Awaited(r), S \cup Finished)
<1> SUFFICES ASSUME \A r \in S : WaitsOn(r, Awaited(r), S \cup Finished) PROVE FALSE
  OBVIOUS
<1>1. TypeOK /\ LocksExclude
  BY DEF Inv
<1>2. ASSUME NEW q \in S \cup Finished, NEW row, NEW mode, Keeps(q, row, mode)
      PROVE  /\ q \in S /\ q \in Requests
             /\ row \in ProductIds => op[q].kind = "decreaseStock" /\ row = op[q].product
             /\ row \in SeedSuppliers => op[q].kind \in {"createProduct", "deleteSupplier"}
             /\ row \in Categories => op[q].kind = "createProduct"
             /\ pc[q] \notin {"queued", "begun", "checked", "done"}
             /\ row \in SeedSuppliers /\ op[q].kind = "createProduct" => pc[q] # "categorised"
  <2>1. q \in Requests
    BY DEF Finished
  <2>2. PICK lock \in held[q] : lock = <<row, "update">> \/ lock = <<row, "share">>
    BY <1>2 DEF Keeps
  <2>3. HoldsOnly(q)
    BY <2>1 DEF AllHoldOnly
  <2>4. /\ op[q].kind = "createProduct" =>
                op[q].supplier \in SeedSuppliers /\ op[q].category \in Categories
        /\ op[q].kind = "decreaseStock" => op[q].product \in ProductIds
        /\ op[q].kind = "deleteSupplier" => op[q].supplier \in SeedSuppliers
    BY <1>1, <2>1, Operands
  <2>5. pc[q] # "done"
    BY <2>2, <2>3 DEF HoldsOnly
  <2>6. q \in S
    BY <2>5 DEF Finished
  <2>7. lock[1] = row
    BY <2>2
  <2>8. \/ op[q].kind = "createProduct" /\ row = op[q].category
        \/ /\ op[q].kind = "createProduct" /\ row = op[q].supplier
           /\ pc[q] # "categorised"
        \/ op[q].kind = "decreaseStock" /\ row = op[q].product
        \/ op[q].kind = "deleteSupplier" /\ row = op[q].supplier
    BY <2>3, <2>7 DEF HoldsOnly
  <2>9. pc[q] \notin {"queued", "begun", "checked", "done"}
    BY <2>2, <2>3 DEF HoldsOnly
  <2> QED
    BY <2>1, <2>4, <2>6, <2>8, <2>9, RowsAssumption
<1>3. ASSUME NEW r \in S, pc[r] # "queued"
      PROVE  \E lock \in Awaited(r) : \E q \in S \ {r} : Keeps(q, lock[1], lock[2])
  BY <1>2, <1>3 DEF WaitsOn
<1>4. ASSUME NEW r \in S, NEW lock \in Awaited(r), lock[1] \in ProductIds,
             NEW q \in S \ {r}, Keeps(q, lock[1], lock[2])
      PROVE  FALSE
  <2>1. /\ op[q].kind = "decreaseStock" /\ q \in Requests
        /\ pc[q] \notin {"queued", "begun"}
    BY <1>2, <1>4
  <2>2. PICK wanted \in Awaited(q) : \E other \in S \ {q} : Keeps(other, wanted[1], wanted[2])
    BY <1>3, <2>1
  <2>3. PICK other \in S \ {q} : Keeps(other, wanted[1], wanted[2])
    BY <2>2
  <2>4. pc[q] = "locked" /\ wanted = <<op[q].product, "update">>
    BY <2>1 DEF Awaited
  <2>5. <<op[q].product, "update">> \in held[q]
    BY <2>1, <2>4 DEF Inv, Backed, DecreaseBacked
  <2>6. Keeps(other, op[q].product, "update") /\ other \in Requests /\ other # q
    BY <2>3, <2>4
  <2> QED
    BY <1>1, <2>1, <2>5, <2>6 DEF LocksExclude, Keeps, Modes
<1>5. ASSUME NEW r \in S, NEW lock \in Awaited(r), lock[1] \in SeedSuppliers,
             NEW q \in S \ {r}, Keeps(q, lock[1], lock[2])
      PROVE  FALSE
  <2>1. /\ q \in Requests
        /\ op[q].kind \in {"createProduct", "deleteSupplier"}
        /\ pc[q] \notin {"queued", "begun", "checked"}
        /\ op[q].kind = "createProduct" => pc[q] # "categorised"
    BY <1>2, <1>5
  <2>2. PICK wanted \in Awaited(q) : \E other \in S \ {q} : Keeps(other, wanted[1], wanted[2])
    BY <1>3, <2>1
  <2>3. wanted \in ProductsOf(op[q].supplier) \X {"share"}
    BY <2>1 DEF Awaited
  <2>4. wanted[1] \in ProductIds
    BY <2>3 DEF ProductsOf
  <2> QED
    BY <1>4, <2>2, <2>4
<1>6. ASSUME NEW r \in S, NEW lock \in Awaited(r), lock[1] \in Categories,
             NEW q \in S \ {r}, Keeps(q, lock[1], lock[2])
      PROVE  FALSE
  <2>1. /\ q \in Requests
        /\ op[q].kind = "createProduct"
        /\ pc[q] \notin {"queued", "begun", "checked"}
    BY <1>2, <1>6
  <2>2. PICK wanted \in Awaited(q) : \E other \in S \ {q} : Keeps(other, wanted[1], wanted[2])
    BY <1>3, <2>1
  <2>3. wanted = <<op[q].supplier, "share">> /\ op[q].supplier \in SeedSuppliers
    BY <1>1, <2>1, Operands DEF Awaited
  <2>4. wanted[1] \in SeedSuppliers
    BY <2>3
  <2> QED
    BY <1>5, <2>2, <2>4
<1>7. ASSUME NEW r \in S PROVE pc[r] = "queued"
  <2> SUFFICES ASSUME pc[r] # "queued" PROVE FALSE
    OBVIOUS
  <2>1. PICK lock \in Awaited(r) : \E q \in S \ {r} : Keeps(q, lock[1], lock[2])
    BY <1>3
  <2>2. lock[1] \in ProductIds \cup SeedSuppliers \cup Categories
    BY <1>1, <2>1, Operands DEF Awaited, ProductsOf
  <2> QED
    BY <1>4, <1>5, <1>6, <2>1, <2>2
<1>8. ASSUME NEW r \in S PROVE WaitsOn(r, {}, S \cup Finished)
  <2>1. Awaited(r) = {}
    BY <1>7 DEF Awaited
  <2> QED
    BY <2>1
<1> QED
  BY <1>8, ConnectedGoOn

(* However many requests, whatever they ask for and however small the      *)
(* pool: some request of every set does not wait on the set.               *)
THEOREM NobodyDeadlocks == Spec => []NoDeadlock
<1>1. Init => AllHoldOnly
  BY DEF Init, AllHoldOnly, HoldsOnly
<1>2. TypeOK /\ AllHoldOnly /\ [Next]_vars => AllHoldOnly'
  <2>1. ASSUME AllHoldOnly, UNCHANGED vars PROVE AllHoldOnly'
    BY <2>1 DEF AllHoldOnly, HoldsOnly, vars
  <2> QED
    BY <2>1, AllHoldOnlyInv DEF Next
<1>3. Inv /\ AllHoldOnly => NoDeadlock
  BY NoneWaits DEF NoDeadlock
<1> QED
  BY <1>1, <1>2, <1>3, InvHolds, TypeCorrect, PTL DEF Spec

-----------------------------------------------------------------------------
(* A request that is still under way has been told nothing and has had no  *)
(* effect; one whose COMMIT is in doubt has been told of an error.         *)
Told(r) ==
    /\ pc[r] \notin Ended \cup {"refusing"} => outcome[r] = None /\ r \notin applied
    /\ pc[r] = "inDoubt" => outcome[r] = "error" /\ r \notin applied

AllTold == \A r \in Requests : Told(r)

(* Steps of r leave what others have been told alone.                      *)
LEMMA ToldStep ==
    ASSUME TypeOK, AllTold, NEW r \in Requests,
           NEW to, pc' = [pc EXCEPT ![r] = to],
           NEW answer, outcome' = outcome \/ outcome' = [outcome EXCEPT ![r] = answer],
           applied' \in {applied, applied \cup {r}},
           Told(r)'
    PROVE  AllTold'
<1> SUFFICES ASSUME NEW q \in Requests, q # r PROVE Told(q)'
  BY DEF AllTold
<1> QED
  BY DEF AllTold, Told, TypeOK

(* Every step, also one that tells its request something, keeps that so.   *)
LEMMA ToldInv ==
    ASSUME TypeOK, AllTold, NEW r \in Requests,
           Begin(r) \/ Statement(r) \/ GiveUp(r) \/ ServerRollback(r) \/ ServerCommit(r)
    PROVE  AllTold'
<1>1. Told(r)
  BY DEF AllTold
<1> USE DEF Told, Goto, Refuse, Effect, TypeOK, Ended
<1>2. CASE Begin(r)
  BY <1>1, <1>2, ToldStep DEF Begin
<1>3. CASE CheckSupplier(r)
  BY <1>1, <1>3, ToldStep DEF CheckSupplier
<1>4. CASE UpsertCategory(r)
  BY <1>1, <1>4, ToldStep DEF UpsertCategory
<1>5. CASE InsertProduct(r)
  BY <1>1, <1>5, ToldStep DEF InsertProduct
<1>6. CASE LockStock(r)
  BY <1>1, <1>6, ToldStep DEF LockStock
<1>7. CASE UpdateStock(r)
  BY <1>1, <1>7, ToldStep DEF UpdateStock
<1>8. CASE LockSupplier(r)
  BY <1>1, <1>8, ToldStep DEF LockSupplier, Succeed
<1>9. CASE RemoveSupplier(r)
  BY <1>1, <1>9, ToldStep DEF RemoveSupplier
<1>10. CASE Execute(r)
  BY <1>1, <1>10, ToldStep DEF Execute, Succeed
<1>11. CASE Commit(r)
  BY <1>1, <1>11, ToldStep DEF Commit, Succeed
<1>12. CASE Rollback(r) \/ ServerRollback(r)
  BY <1>1, <1>12, ToldStep DEF Rollback, ServerRollback
<1>13. CASE GiveUp(r)
  <2>1. PICK to : pc' = [pc EXCEPT ![r] = to]
    BY <1>13 DEF GiveUp, Break
  <2>2. PICK answer : outcome' = [outcome EXCEPT ![r] = answer]
    BY <1>13 DEF GiveUp
  <2>3. Told(r)'
    BY <1>1, <1>13 DEF GiveUp, Break, Sent
  <2> QED
    BY <1>13, <2>1, <2>2, <2>3, ToldStep DEF GiveUp
<1>14. CASE ServerCommit(r)
  BY <1>1, <1>14, ToldStep DEF ServerCommit
<1> QED
  BY <1>2, <1>3, <1>4, <1>5, <1>6, <1>7, <1>8, <1>9, <1>10, <1>11, <1>12, <1>13, <1>14
     DEF Statement

(* Each step of r brings it closer to its end.                             *)
LEMMA Forward ==
    ASSUME TypeOK, NEW r \in Requests,
           Begin(r) \/ Statement(r) \/ GiveUp(r) \/ ServerRollback(r) \/ ServerCommit(r)
    PROVE  \E to : pc' = [pc EXCEPT ![r] = to] /\ Left(to) < Left(pc[r])
<1>1. CASE Begin(r) \/ ServerRollback(r) \/ ServerCommit(r)
  BY <1>1 DEF Begin, ServerRollback, ServerCommit, Goto, Left
<1>2. CASE Commit(r) \/ Rollback(r) \/ Execute(r)
  BY <1>2 DEF Commit, Rollback, Execute, Refuse, Goto, Left
<1>3. CASE CheckSupplier(r) \/ UpsertCategory(r) \/ InsertProduct(r)
  BY <1>3 DEF CheckSupplier, UpsertCategory, InsertProduct, Refuse, Goto, Left
<1>4. CASE LockStock(r) \/ UpdateStock(r) \/ LockSupplier(r) \/ RemoveSupplier(r)
  BY <1>4 DEF LockStock, UpdateStock, LockSupplier, RemoveSupplier, Refuse, Goto, Left
<1>5. CASE GiveUp(r)
  <2>1. pc[r] \in {"queued"} \cup Stages
    BY <1>5 DEF GiveUp, Break, TypeOK
  <2>2. PICK to \in Ended : pc' = [pc EXCEPT ![r] = to] /\ (to = "done" => pc[r] = "queued")
    BY <1>5 DEF GiveUp, Break, Ended
  <2>3. Left(to) < Left(pc[r])
    BY <2>1, <2>2 DEF Left, Stages, Ended
  <2> QED
    BY <2>2, <2>3
<1> QED
  BY <1>1, <1>2, <1>3, <1>4, <1>5 DEF Statement

(* Steps of r leave the transactions of others where they are.             *)
LEMMA OthersStay ==
    ASSUME TypeOK, NEW r \in Requests, NEW q \in Requests, q # r,
           Begin(r) \/ Statement(r) \/ GiveUp(r) \/ ServerRollback(r) \/ ServerCommit(r)
    PROVE  pc'[q] = pc[q]
<1>1. \E to : pc' = [pc EXCEPT ![r] = to]
  BY DEF Begin, Statement, CheckSupplier, UpsertCategory, InsertProduct, LockStock,
         UpdateStock, LockSupplier, RemoveSupplier, Execute, Commit, Rollback, GiveUp,
         ServerRollback, ServerCommit, Refuse, Break, Goto
<1> QED
  BY <1>1 DEF TypeOK

(* What requests are told: nothing before their effect or refusal, except  *)
(* of an error.                                                            *)
THEOREM ToldHolds == Spec => []AllTold
<1>1. Init => AllTold
  BY DEF Init, AllTold, Told, Ended
<1>2. TypeOK /\ AllTold /\ [Next]_vars => AllTold'
  <2>1. ASSUME AllTold, UNCHANGED vars PROVE AllTold'
    BY <2>1 DEF vars, AllTold, Told
  <2> QED
    BY <2>1, ToldInv DEF Next
<1> QED
  BY <1>1, <1>2, TypeCorrect, PTL DEF Spec

-----------------------------------------------------------------------------
(* Stock.                                                                  *)

(* A step of r that leaves the tables alone.                               *)
Quiet(r) ==
    /\ UNCHANGED data
    /\ \/ applied' = applied
       \/ applied' = applied \cup {r} /\ op[r].kind = "deleteSupplier"

(* Every step of r is quiet or takes the effect it has not had before.     *)
LEMMA StepEffect ==
    ASSUME Inv, NEW r \in Requests, Told(r),
           Begin(r) \/ Statement(r) \/ GiveUp(r) \/ ServerRollback(r) \/ ServerCommit(r)
    PROVE  /\ op' = op
           /\ \/ Quiet(r)
              \/ Grounded(r) /\ r \notin applied /\ Effect(r)
<1>1. CASE Commit(r) \/ ServerCommit(r)
  BY <1>1 DEF Commit, ServerCommit, Goto, Grounded, Inv, Backed, Ready, Told, Ended
<1>2. CASE Execute(r) /\ Obstacle(r) = None
  BY <1>2 DEF Execute, Goto, Grounded, Told, Ended
<1>3. CASE Execute(r) /\ Obstacle(r) # None
  BY <1>3 DEF Execute, Refuse, Quiet, data
<1>4. CASE LockSupplier(r)
  BY <1>4 DEF LockSupplier, Quiet, data
<1>5. CASE Begin(r) \/ GiveUp(r) \/ ServerRollback(r) \/ Rollback(r)
  BY <1>5 DEF Begin, GiveUp, ServerRollback, Rollback, Quiet, data
<1>6. CASE CheckSupplier(r) \/ UpsertCategory(r) \/ InsertProduct(r)
  BY <1>6 DEF CheckSupplier, UpsertCategory, InsertProduct, Refuse, Quiet, data
<1>7. CASE LockStock(r) \/ UpdateStock(r) \/ RemoveSupplier(r)
  BY <1>7 DEF LockStock, UpdateStock, RemoveSupplier, Refuse, Quiet, data
<1> QED
  BY <1>1, <1>2, <1>3, <1>4, <1>5, <1>6, <1>7 DEF Statement

(* The effect of a decrease, and of no other request, moves the stock.     *)
LEMMA EffectMovesStock ==
    ASSUME Inv, NEW r \in Requests, Grounded(r), Effect(r), r \notin applied
    PROVE  StockMove
<1> SUFFICES ASSUME NEW p \in ProductIds, products[p] # None, products'[p] # None
             PROVE  \/ Buyers(p) = {} /\ products'[p].stock = products[p].stock
                    \/ /\ Buyers(p) = {r}
                       /\ products'[p].stock = products[p].stock - op[r].quantity
  BY DEF StockMove
<1>1. TypeOK /\ applied' \ applied = {r}
  BY DEF Inv, Effect
<1>2. CASE StockDecreased(r) /\ op[r].product = p
  <2>1. written[r] = products[p].stock - op[r].quantity
    BY <1>2 DEF Inv, Grounded, StockDecreased, SingleStatement, Backed, DecreaseBacked
  <2>2. Buyers(p) = {r}
    BY <1>1, <1>2 DEF Buyers, StockDecreased
  <2> QED
    BY <1>1, <1>2, <2>1, <2>2 DEF StockDecreased, TypeOK
<1>3. CASE StockDecreased(r) /\ op[r].product # p
  BY <1>1, <1>3 DEF StockDecreased, Buyers, TypeOK
<1>4. CASE ProductInserted(r)
  <2>1. products[r] = None
    BY <1>4 DEF ProductInserted, Grounded, SingleStatement, Inv, Backed, CreationBacked, Ready
  <2> QED
    BY <1>1, <1>4, <2>1 DEF ProductInserted, Buyers, TypeOK
<1>5. CASE ProductDeleted(r)
  BY <1>1, <1>5 DEF ProductDeleted, Buyers, TypeOK
<1>6. CASE SupplierDeleted(r) \/ ImageInserted(r) \/ ImageReplaced(r) \/ ImageDeleted(r)
           \/ Selected(r)
  BY <1>1, <1>6 DEF SupplierDeleted, ImageInserted, ImageReplaced, ImageDeleted, Selected,
                    data, Buyers
<1> QED
  BY <1>2, <1>3, <1>4, <1>5, <1>6 DEF Effect

(* Every decrease that takes effect is subtracted once, and nothing else   *)
(* changes the stock of a product that stays.                              *)
THEOREM StockMovesOnce == Spec => StockMovesByDecreases
<1>1. ASSUME Inv, AllTold, NEW r \in Requests,
             Begin(r) \/ Statement(r) \/ GiveUp(r) \/ ServerRollback(r) \/ ServerCommit(r)
      PROVE  StockMove
  <2>1. Told(r)
    BY <1>1 DEF AllTold
  <2>2. CASE Quiet(r)
    <3>1. \A q \in applied' \ applied : op[q].kind # "decreaseStock"
      BY <2>2 DEF Quiet
    <3>2. \A p : Buyers(p) = {}
      BY <3>1 DEF Buyers
    <3> QED
      BY <2>2, <3>2 DEF Quiet, StockMove, data
  <2> QED
    BY <1>1, <2>1, <2>2, StepEffect, EffectMovesStock
<1>2. Inv /\ AllTold /\ Next => StockMove
  BY <1>1 DEF Next
<1> QED
  BY <1>2, InvHolds, ToldHolds, PTL DEF Spec, StockMovesByDecreases

(* n units of one buyer are n.                                             *)
LEMMA UnitsOfOne ==
    ASSUME NEW r, NEW n \in Nat
    PROVE  IsFiniteSet({r} \X (1..n)) /\ Cardinality({r} \X (1..n)) = n
<1>1. IsFiniteSet(1..n) /\ Cardinality(1..n) = IF 1 > n THEN 0 ELSE n - 1 + 1
  BY FS_Interval
<1>2. IsFiniteSet(1..n) /\ Cardinality(1..n) = n
  BY <1>1
<1>3. IsFiniteSet({r}) /\ Cardinality({r}) = 1
  BY FS_Singleton
<1>4. Cardinality({r} \X (1..n)) = 1 * n /\ IsFiniteSet({r} \X (1..n))
  BY <1>2, <1>3, FS_Product
<1> QED
  BY <1>4

(* Adding a set that is apart from another adds its elements to the count. *)
LEMMA CountApart ==
    ASSUME NEW S, NEW T, IsFiniteSet(S), IsFiniteSet(T), S \cap T = {}
    PROVE  /\ IsFiniteSet(S \cup T)
           /\ Cardinality(S \cup T) = Cardinality(S) + Cardinality(T)
<1>1. Cardinality(S \cap T) = 0
  BY FS_EmptySet
<1>2. Cardinality(S) \in Nat /\ Cardinality(T) \in Nat
  BY FS_CardinalityType
<1>3. /\ IsFiniteSet(S \cup T)
      /\ Cardinality(S \cup T) = Cardinality(S) + Cardinality(T) - Cardinality(S \cap T)
  BY FS_Union
<1> QED
  BY <1>1, <1>2, <1>3

(* A request that takes effect sells its units of the product it asks for, *)
(* which nobody has sold before.                                           *)
LEMMA UnitsSold ==
    ASSUME TypeOK, NEW p \in ProductIds, IsFiniteSet(Sold(p)), op' = op,
           NEW r \in Requests, r \notin applied, applied' = applied \cup {r},
           op[r].kind = "decreaseStock", op[r].product = p
    PROVE  /\ IsFiniteSet(Sold(p)')
           /\ Cardinality(Sold(p)') = Cardinality(Sold(p)) + op[r].quantity
<1> DEFINE Units == {r} \X (1..op[r].quantity)
<1>1. Sold(p)' = Sold(p) \cup Units
  BY DEF Sold
<1>2. Sold(p) \cap Units = {}
  BY DEF Sold
<1>3. op[r].quantity \in Nat
  BY Operands
<1>4. IsFiniteSet(Units) /\ Cardinality(Units) = op[r].quantity
  BY <1>3, UnitsOfOne
<1>5. /\ IsFiniteSet(Sold(p) \cup Units)
      /\ Cardinality(Sold(p) \cup Units) = Cardinality(Sold(p)) + Cardinality(Units)
  BY <1>2, <1>4, CountApart
<1> QED
  BY <1>1, <1>4, <1>5

(* Nobody else sells any.                                                  *)
LEMMA NoUnitsSold ==
    ASSUME NEW p, op' = op, NEW r,
           \/ applied' = applied
           \/ /\ applied' = applied \cup {r}
              /\ ~(op[r].kind = "decreaseStock" /\ op[r].product = p)
    PROVE  Sold(p)' = Sold(p)
<1>1. {q \in applied' : op[q].kind = "decreaseStock" /\ op[q].product = p}
        = {q \in applied : op[q].kind = "decreaseStock" /\ op[q].product = p}
  OBVIOUS
<1> QED
  BY <1>1 DEF Sold

(* The stock of p accounts for the units sold, and before a product is     *)
(* created there are none.                                                 *)
Accounted(p) ==
    /\ IsFiniteSet(Sold(p))
    /\ products[p] # None =>
          Origin(p) \in Nat /\ products[p].stock = Origin(p) - Cardinality(Sold(p))
    /\ p \in Requests /\ (products[p] # None \/ Sold(p) # {}) => p \in applied

(* The effect of r keeps every account.                                    *)
LEMMA EffectAccounted ==
    ASSUME Inv, NEW r \in Requests, Grounded(r), Effect(r), r \notin applied, op' = op,
           NEW p \in ProductIds, Accounted(p)
    PROVE  Accounted(p)'
<1>1. TypeOK /\ applied' = applied \cup {r} /\ Backed(r)
  BY DEF Inv, Effect
<1>2. Origin(p)' = Origin(p)
  BY DEF Origin
<1>3. CASE StockDecreased(r) /\ op[r].product = p
  <2>1. /\ products[p] # None
        /\ products'[p].stock = products[p].stock - op[r].quantity
    <3>1. Subtractable(r) /\ written[r] = products[p].stock - op[r].quantity
      BY <1>1, <1>3 DEF Grounded, StockDecreased, SingleStatement, Backed, DecreaseBacked
    <3> QED
      BY <1>1, <1>3, <3>1 DEF StockDecreased, TypeOK, Subtractable
  <2>2. /\ IsFiniteSet(Sold(p)')
        /\ Cardinality(Sold(p)') = Cardinality(Sold(p)) + op[r].quantity
    BY <1>1, <1>3, UnitsSold DEF Accounted, StockDecreased
  <2>3. Cardinality(Sold(p)) \in Nat /\ op[r].quantity \in Nat
    BY <1>1, <1>3, Operands, FS_CardinalityType DEF Accounted, StockDecreased
  <2>4. products[p].stock \in Nat /\ products[p].stock = Origin(p) - Cardinality(Sold(p))
    BY <1>1, <2>1 DEF Accounted, TypeOK, Product
  <2>5. Origin(p) \in Nat
    BY <2>1 DEF Accounted
  <2> QED
    BY <1>1, <1>2, <2>1, <2>2, <2>3, <2>4, <2>5 DEF Accounted
<1>4. CASE ~(StockDecreased(r) /\ op[r].product = p)
  <2>1. op[r].kind = "decreaseStock" => op[r].product # p
    BY <1>4 DEF Effect, StockDecreased, ProductInserted, SupplierDeleted, ProductDeleted,
                ImageInserted, ImageReplaced, ImageDeleted, Selected
  <2>2. Sold(p)' = Sold(p)
    BY <1>1, <2>1, NoUnitsSold
  <2>3. CASE ProductInserted(r) /\ r = p
    <3>1. Sold(p) = {}
      BY <2>3 DEF Accounted
    <3>2. products'[p].stock = op[p].quantity /\ op[p].quantity \in Nat
      BY <1>1, <2>3, Operands DEF ProductInserted, TypeOK
    <3>3. Cardinality(Sold(p)') = 0 /\ IsFiniteSet(Sold(p)')
      BY <2>2, <3>1, FS_EmptySet
    <3> QED
      BY <1>1, <1>2, <2>3, <3>2, <3>3 DEF Accounted, Origin
  <2>4. CASE ~(ProductInserted(r) /\ r = p)
    <3>1. products'[p] = products[p] \/ products'[p] = None
      BY <1>1, <1>4, <2>4
         DEF Effect, ProductInserted, StockDecreased, SupplierDeleted, ProductDeleted,
             ImageInserted, ImageReplaced, ImageDeleted, Selected, data, TypeOK
    <3> QED
      BY <1>1, <1>2, <2>2, <3>1 DEF Accounted
  <2> QED
    BY <2>3, <2>4
<1> QED
  BY <1>3, <1>4

AllAccounted == \A p \in ProductIds : Accounted(p)

(* Every account is kept.                                                  *)
LEMMA AccountsHold == Spec => []AllAccounted
<1>1. Init => AllAccounted
  <2> SUFFICES ASSUME Init, NEW p \in ProductIds PROVE Accounted(p)
    BY DEF AllAccounted
  <2>1. Sold(p) = {}
    BY DEF Init, Sold
  <2>2. IsFiniteSet(Sold(p)) /\ Cardinality(Sold(p)) = 0
    BY <2>1, FS_EmptySet
  <2>3. products[p] # None => p \notin Requests /\ products[p].stock = SeedProducts[p].stock
                                /\ SeedProducts[p].stock \in Nat
    BY SeedAssumption DEF Init, Product
  <2> QED
    BY <2>1, <2>2, <2>3 DEF Accounted, Origin
<1>2. Inv /\ AllTold /\ AllAccounted /\ [Next]_vars => AllAccounted'
  <2> SUFFICES ASSUME Inv, AllTold, AllAccounted, [Next]_vars, NEW p \in ProductIds
               PROVE  Accounted(p)'
    BY DEF AllAccounted
  <2>0. Accounted(p)
    BY DEF AllAccounted
  <2>1. ASSUME UNCHANGED <<products, op, applied>> PROVE Accounted(p)'
    BY <2>0, <2>1 DEF Accounted, Sold, Origin
  <2>2. ASSUME NEW r \in Requests,
               Begin(r) \/ Statement(r) \/ GiveUp(r) \/ ServerRollback(r) \/ ServerCommit(r)
        PROVE  Accounted(p)'
    <3>1. Told(r)
      BY DEF AllTold
    <3>2. op' = op /\ (Quiet(r) \/ (Grounded(r) /\ r \notin applied /\ Effect(r)))
      BY <2>2, <3>1, StepEffect
    <3>3. CASE Quiet(r)
      <4>1. Sold(p)' = Sold(p)
        BY <3>2, <3>3, NoUnitsSold DEF Quiet
      <4> QED
        BY <2>0, <3>2, <3>3, <4>1 DEF Quiet, Accounted, Origin, data
    <3> QED
      BY <2>0, <3>2, <3>3, EffectAccounted
  <2> QED
    BY <2>1, <2>2 DEF Next, vars, data
<1> QED
  BY <1>1, <1>2, InvHolds, ToldHolds, PTL DEF Spec

(* No update is lost, none is applied twice or half.                       *)
THEOREM StockAddsUp == Spec => []StockAccounted
<1>1. AllAccounted => StockAccounted
  BY DEF AllAccounted, Accounted, StockAccounted
<1> QED
  BY <1>1, AccountsHold, PTL

-----------------------------------------------------------------------------
(* Images.                                                                 *)

(* Every image in the table was given to the product it is of.             *)
AllImagesGiven == \A i \in ImageIds : images[i] # None => i \in Given(images[i].product)

(* The images given to p follow one another, and the last one is there as  *)
(* long as p is, unless it was deleted; p's own creation came before them. *)
OneByOne(p) ==
    /\ \A i, j \in Given(p) : i # j => Dropped(i) \/ Dropped(j)
    /\ products[p] # None => \A i \in Given(p) : images[i] # None \/ Dropped(i)
    /\ p \in Requests /\ op[p].kind = "createProduct" /\ Given(p) # {} => pc[p] = "done"

(* A creation that was told of an image has had no effect.                 *)
Superseded(r) ==
    op[r].kind = "createImage" /\ outcome[r] = "imageExists" =>
        Given(op[r].product) # {} /\ r \notin applied

ImagesFollow ==
    /\ AllImagesGiven
    /\ \A p \in ProductIds : OneByOne(p)
    /\ \A r \in Requests : Superseded(r)

(* The effect of r gives its product an image if r is the creation of one, *)
(* and nothing that was given or deleted is taken back.                    *)
LEMMA EffectGives ==
    ASSUME NEW r \in Requests, op' = op, applied' \in {applied, applied \cup {r}}
    PROVE  /\ \A p : Given(p) \subseteq Given(p)'
           /\ \A p : Given(p)' \subseteq Given(p) \cup {r}
           /\ \A p : ~(op[r].kind = "createImage" /\ op[r].product = p) =>
                        Given(p)' = Given(p)
           /\ \A i : Dropped(i) => Dropped(i)'
BY DEF Given, Dropped

(* No image is given to two products.                                      *)
LEMMA GivenToOne ==
    ASSUME TypeOK, NEW p, NEW q, NEW i, i \in Given(p), i \in Given(q)
    PROVE  p = q
BY SeedAssumption DEF Given, TypeOK

(* The insert of an image makes it the next of its product: the ones       *)
(* before are not there, so they were deleted.                             *)
LEMMA ImageFollows ==
    ASSUME Inv, ImagesFollow, NEW r \in Requests, Grounded(r), ImageInserted(r),
           applied' = applied \cup {r}, op' = op,
           \A q \in Requests \ {r} : pc'[q] = pc[q]
    PROVE  AllImagesGiven' /\ \A p \in ProductIds : OneByOne(p)'
<1>1. TypeOK /\ op[r].kind = "createImage" /\ op[r].product \in ProductIds /\ r \in ImageIds
  BY Operands DEF Inv, ImageInserted, ImageIds
<1>2. ~Pictured(op[r].product) /\ products[op[r].product] # None
  BY <1>1, NoneIsNoReason DEF Grounded, SingleStatement, Obstacle, Refusals
<1>3. \A p : Given(p)' = IF op[r].product = p THEN Given(p) \cup {r} ELSE Given(p)
  BY <1>1 DEF Given
<1>4. \A i : Dropped(i) => Dropped(i)'
  BY EffectGives
<1>5. \A i \in ImageIds :
        images'[i] = IF i = r THEN [product |-> op[r].product, content |-> r] ELSE images[i]
  BY <1>1 DEF ImageInserted, TypeOK
<1>6. AllImagesGiven'
  BY <1>3, <1>5 DEF ImagesFollow, AllImagesGiven
<1>7. ASSUME NEW p \in ProductIds PROVE OneByOne(p)'
  <2>1. OneByOne(p) /\ products' = products
    BY DEF ImagesFollow, ImageInserted
  <2>2. \A i \in Given(p) : images[i] # None => i \in ImageIds /\ images'[i] # None
    <3>1. Given(p) \subseteq ImageIds
      BY <1>1, SeedAssumption DEF Given, ImageIds, TypeOK
    <3>2. [product |-> op[r].product, content |-> r] \in Image
      BY <1>1 DEF Image
    <3> QED
      BY <1>5, <3>1, <3>2, NoneIsNoRow
  <2>3. CASE op[r].product = p
    <3>1. ASSUME NEW i \in Given(p) PROVE Dropped(i)
      <4>1. images[i] # None => i \in ImageIds /\ images[i].product = p
        <5> SUFFICES ASSUME images[i] # None
                     PROVE  i \in ImageIds /\ images[i].product = p
          OBVIOUS
        <5>1. i \in ImageIds
          BY <2>2
        <5>2. i \in Given(images[i].product)
          BY <5>1 DEF ImagesFollow, AllImagesGiven
        <5> QED
          BY <1>1, <3>1, <5>1, <5>2, GivenToOne
      <4>2. images[i] = None
        BY <1>2, <2>3, <4>1 DEF Pictured, PicturesOf
      <4> QED
        BY <1>2, <2>1, <2>3, <4>2 DEF OneByOne
    <3>2. images'[r] # None
      BY <1>1, <1>5, NoneIsNoRow DEF Image
    <3>3. p \in Requests /\ op[p].kind = "createProduct" => pc'[p] = "done"
      BY <1>1, <1>2, <2>3 DEF Inv, Backed, CreationBacked
    <3> QED
      BY <1>3, <1>4, <2>1, <2>3, <3>1, <3>2, <3>3 DEF OneByOne
  <2>4. CASE op[r].product # p
    BY <1>1, <1>3, <1>4, <2>1, <2>2, <2>4 DEF OneByOne
  <2> QED
    BY <2>3, <2>4
<1> QED
  BY <1>6, <1>7

(* Other effects give nothing, and take no image from a product that       *)
(* stays, but by its deletion.                                             *)
LEMMA OthersGiveNothing ==
    ASSUME Inv, ImagesFollow, NEW r \in Requests, Grounded(r), Effect(r), ~ImageInserted(r),
           op' = op, \A q \in Requests \ {r} : pc'[q] = pc[q]
    PROVE  AllImagesGiven' /\ \A p \in ProductIds : OneByOne(p)'
<1>1. TypeOK /\ applied' = applied \cup {r}
  BY DEF Inv, Effect
<1>2. op[r].kind # "createImage"
  BY DEF Effect, ProductInserted, StockDecreased, SupplierDeleted, ProductDeleted,
         ImageReplaced, ImageDeleted, Selected
<1>3. \A p : Given(p)' = Given(p)
  BY <1>1, <1>2, EffectGives
<1>4. \A i : Dropped(i) => Dropped(i)'
  BY <1>1, EffectGives
<1>5. \A p \in ProductIds : Given(p) \subseteq ImageIds
  BY <1>1, SeedAssumption DEF Given, ImageIds, TypeOK
<1>6. ASSUME NEW i \in ImageIds, images'[i] # None
      PROVE  images[i] # None /\ images'[i].product = images[i].product
  <2>1. CASE ImageReplaced(r)
    <3>1. op[r].image \in ImageIds /\ images[op[r].image] # None
      BY <1>1, <2>1, Operands, NoneIsNoReason
         DEF ImageReplaced, Grounded, SingleStatement, Obstacle, Refusals
    <3> QED
      BY <1>1, <1>6, <2>1, <3>1 DEF ImageReplaced, TypeOK
  <2>2. CASE ~ImageReplaced(r)
    BY <1>1, <1>6, <2>2
       DEF Effect, ProductInserted, StockDecreased, SupplierDeleted, ProductDeleted,
           ImageDeleted, Selected, data, TypeOK
  <2> QED
    BY <2>1, <2>2
<1>7. AllImagesGiven'
  BY <1>3, <1>6 DEF ImagesFollow, AllImagesGiven
<1>8. ASSUME NEW p \in ProductIds PROVE OneByOne(p)'
  <2>1. OneByOne(p)
    BY DEF ImagesFollow
  <2>2. p \in Requests /\ op[p].kind = "createProduct" /\ Given(p) # {} => pc'[p] = "done"
    BY <2>1 DEF OneByOne, Grounded, SingleStatement, Ready
  <2>3. ASSUME products'[p] # None, NEW i \in Given(p)
        PROVE  images'[i] # None \/ Dropped(i)'
    <3>1. products[p] # None
      <4>1. CASE ProductInserted(r) /\ r = p
        BY <2>1, <2>3, <4>1 DEF ProductInserted, OneByOne, Grounded, SingleStatement, Ready
      <4>2. CASE StockDecreased(r)
        BY <1>1, <2>3, <4>2, DecreasedRow DEF StockDecreased, TypeOK
      <4>3. CASE ~(ProductInserted(r) /\ r = p) /\ ~StockDecreased(r)
        BY <1>1, <2>3, <4>3
           DEF Effect, ProductInserted, SupplierDeleted, ProductDeleted,
               ImageReplaced, ImageDeleted, Selected, data, TypeOK
      <4> QED
        BY <4>1, <4>2, <4>3
    <3>2. images[i] # None \/ Dropped(i)
      BY <2>1, <3>1 DEF OneByOne
    <3>3. i \in ImageIds
      BY <1>5
    <3>4. CASE images[i] # None
      <4>1. images[i].product = p
        BY <1>1, <3>3, <3>4, GivenToOne DEF ImagesFollow, AllImagesGiven
      <4>2. CASE ProductDeleted(r)
        <5>1. op[r].product # p
          BY <1>1, <2>3, <4>2 DEF ProductDeleted, TypeOK
        <5> QED
          BY <3>3, <3>4, <4>1, <4>2, <5>1 DEF ProductDeleted, PicturesOf
      <4>3. CASE ImageDeleted(r)
        <5>1. CASE op[r].image = i
          BY <1>1, <4>3, <5>1 DEF ImageDeleted, Dropped
        <5>2. CASE op[r].image # i
          BY <1>1, <3>3, <3>4, <4>3, <5>2 DEF ImageDeleted, TypeOK
        <5> QED
          BY <5>1, <5>2
      <4>4. CASE ImageReplaced(r)
        <5>1. op[r].image \in ImageIds /\ images[op[r].image] # None
          BY <1>1, <4>4, Operands, NoneIsNoReason
             DEF ImageReplaced, Grounded, SingleStatement, Obstacle, Refusals
        <5>2. [product |-> images[op[r].image].product, content |-> r] # None
          BY <1>1, <5>1, NoneIsNoRow DEF TypeOK, Image, ImageIds
        <5> QED
          BY <1>1, <3>3, <3>4, <4>4, <5>2 DEF ImageReplaced, TypeOK
      <4>5. CASE ~(ProductDeleted(r) \/ ImageDeleted(r) \/ ImageReplaced(r))
        BY <3>4, <4>5 DEF Effect, ProductInserted, StockDecreased, SupplierDeleted,
                          Selected, data
      <4> QED
        BY <4>2, <4>3, <4>4, <4>5
    <3> QED
      BY <1>4, <3>2, <3>4
  <2> QED
    BY <1>3, <1>4, <2>1, <2>2, <2>3 DEF OneByOne
<1> QED
  BY <1>7, <1>8

(* Who is told of an image has found one, and who takes effect is not told *)
(* of one.                                                                 *)
LEMMA StepSupersedes ==
    ASSUME Inv, AllTold, ImagesFollow, NEW r \in Requests,
           Begin(r) \/ Statement(r) \/ GiveUp(r) \/ ServerRollback(r) \/ ServerCommit(r),
           NEW q \in Requests
    PROVE  Superseded(q)'
<1>1. TypeOK /\ Superseded(q) /\ Told(r)
  BY DEF Inv, ImagesFollow, AllTold
<1>2. op' = op /\ applied' \in {applied, applied \cup {r}}
  BY <1>1, StepEffect DEF Quiet, Effect
<1>3. Given(op[q].product) \subseteq Given(op[q].product)'
  BY <1>2, EffectGives
<1>4. CASE outcome'[q] = outcome[q] /\ (q \in applied' => q \in applied)
  BY <1>1, <1>2, <1>3, <1>4 DEF Superseded
<1>5. CASE outcome'[q] # "imageExists"
  BY <1>2, <1>5 DEF Superseded
<1>6. CASE q # r
  <2>1. \E answer : outcome' = outcome \/ outcome' = [outcome EXCEPT ![r] = answer]
    BY DEF Begin, Statement, CheckSupplier, UpsertCategory, InsertProduct, LockStock,
           UpdateStock, LockSupplier, RemoveSupplier, Execute, Commit, Rollback, GiveUp,
           ServerRollback, ServerCommit, Refuse, Succeed
  <2>2. outcome'[q] = outcome[q]
    BY <1>1, <1>6, <2>1 DEF TypeOK
  <2> QED
    BY <1>2, <1>4, <1>6, <2>2
<1>7. CASE q = r
  <2> USE DEF Goto
  <2>1. None # "imageExists"
    BY NoneAssumption DEF Refusals
  <2>2. CASE Begin(r) \/ Rollback(r) \/ ServerRollback(r)
    BY <1>4, <2>2 DEF Begin, Rollback, ServerRollback
  <2>3. CASE GiveUp(r)
    <3>1. applied' = applied /\ outcome'[r] \in {outcome[r], "error"}
      BY <1>1, <2>3 DEF GiveUp, TypeOK
    <3> QED
      BY <1>4, <1>5, <1>7, <3>1
  <2>4. CASE Commit(r)
    <3>1. outcome'[r] = "ok"
      BY <1>1, <2>4 DEF Commit, Succeed, TypeOK
    <3> QED
      BY <1>5, <1>7, <3>1
  <2>5. CASE ServerCommit(r)
    <3>1. outcome'[r] = "error"
      BY <1>1, <2>5 DEF ServerCommit, Told
    <3> QED
      BY <1>5, <1>7, <3>1
  <2>6. CASE Execute(r)
    <3>1. CASE Obstacle(r) = None
      <4>1. outcome'[r] = "ok"
        BY <1>1, <2>6, <3>1 DEF Execute, Succeed, TypeOK
      <4> QED
        BY <1>5, <1>7, <4>1
    <3>2. CASE Obstacle(r) # None /\ op[r].kind = "createImage" /\ Pictured(op[r].product)
      <4>1. applied' = applied /\ r \notin applied
        BY <1>1, <2>6, <3>2 DEF Execute, Refuse, Told, Ended
      <4>2. PICK i \in ImageIds : images[i] # None /\ images[i].product = op[r].product
        BY <3>2 DEF Pictured, PicturesOf
      <4>3. i \in Given(op[r].product)
        BY <4>2 DEF ImagesFollow, AllImagesGiven
      <4> QED
        BY <1>2, <1>3, <1>7, <4>1, <4>3 DEF Superseded
    <3>3. CASE Obstacle(r) # None /\ ~(op[r].kind = "createImage" /\ Pictured(op[r].product))
      <4>1. outcome'[r] = Obstacle(r) /\ Obstacle(r) # "imageExists"
        BY <1>1, <2>1, <2>6, <3>3 DEF Execute, Refuse, Obstacle, TypeOK
      <4> QED
        BY <1>5, <1>7, <4>1
    <3> QED
      BY <3>1, <3>2, <3>3
  <2>7. CASE CheckSupplier(r) \/ UpsertCategory(r) \/ InsertProduct(r) \/ LockStock(r)
             \/ UpdateStock(r) \/ LockSupplier(r) \/ RemoveSupplier(r)
    <3>1. op[r].kind \in {"createProduct", "decreaseStock", "deleteSupplier"}
      BY <2>7 DEF CheckSupplier, UpsertCategory, InsertProduct, LockStock, UpdateStock,
                  LockSupplier, RemoveSupplier
    <3> QED
      BY <1>2, <1>7, <3>1 DEF Superseded
  <2> QED
    BY <2>2, <2>3, <2>4, <2>5, <2>6, <2>7 DEF Statement
<1> QED
  BY <1>6, <1>7

(* The tries of an image's creation, which no key protects, give one image *)
(* until it is deleted, and none is told of an image that was never there. *)
THEOREM TriesAddUp == Spec => []TriesMakeOneImage
<1>1. Init => ImagesFollow
  <2> SUFFICES ASSUME Init PROVE ImagesFollow
    OBVIOUS
  <2>1. \A p : Given(p) = {i \in DOMAIN SeedImages : SeedImages[i] = p}
    BY DEF Init, Given
  <2>2. \A i \in ImageIds : images[i] =
            IF i \in DOMAIN SeedImages
            THEN [product |-> SeedImages[i], content |-> i] ELSE None
    BY DEF Init, SeedRows
  <2>3. AllImagesGiven
    <3> SUFFICES ASSUME NEW i \in ImageIds, images[i] # None
                 PROVE  i \in Given(images[i].product)
      BY DEF AllImagesGiven
    <3>1. i \in DOMAIN SeedImages /\ images[i].product = SeedImages[i]
      BY DEF Init, SeedRows
    <3> QED
      BY <2>1, <3>1
  <2>4. ASSUME NEW p \in ProductIds PROVE OneByOne(p)
    <3>1. \A i, j \in Given(p) : i = j
      BY <2>1, SeedAssumption
    <3>2. ASSUME NEW i \in Given(p) PROVE images[i] # None
      <4>1. i \in ImageIds /\ images[i] = [product |-> p, content |-> i]
        BY <2>1, <2>2 DEF ImageIds
      <4> QED
        BY <4>1, NoneIsNoRow DEF Image
    <3>3. p \in Requests => Given(p) = {}
      BY <2>1, SeedAssumption
    <3> QED
      BY <3>1, <3>2, <3>3 DEF OneByOne
  <2>5. \A r \in Requests : Superseded(r)
    BY NoneAssumption DEF Init, Superseded, Refusals
  <2> QED
    BY <2>3, <2>4, <2>5 DEF ImagesFollow
<1>2. Inv /\ AllTold /\ ImagesFollow /\ [Next]_vars => ImagesFollow'
  <2> SUFFICES ASSUME Inv, AllTold, ImagesFollow, [Next]_vars PROVE ImagesFollow'
    OBVIOUS
  <2>1. CASE UNCHANGED vars
    BY <2>1 DEF vars, data, ImagesFollow, AllImagesGiven, OneByOne, Superseded, Given, Dropped
  <2>2. ASSUME NEW r \in Requests,
               Begin(r) \/ Statement(r) \/ GiveUp(r) \/ ServerRollback(r) \/ ServerCommit(r)
        PROVE  ImagesFollow'
    <3>1. Told(r) /\ TypeOK
      BY DEF AllTold, Inv
    <3>2. op' = op /\ (Quiet(r) \/ (Grounded(r) /\ r \notin applied /\ Effect(r)))
      BY <2>2, <3>1, StepEffect
    <3>3. \A q \in Requests \ {r} : pc'[q] = pc[q]
      BY <2>2, <3>1, OthersStay
    <3>4. CASE Quiet(r)
      <4>1. products' = products /\ images' = images
        BY <3>4 DEF Quiet, data
      <4>2. (\A p : Given(p)' = Given(p)) /\ \A i : Dropped(i) => Dropped(i)'
        BY <3>2, <3>4 DEF Quiet, Given, Dropped
      <4>3. AllImagesGiven'
        BY <4>1, <4>2 DEF ImagesFollow, AllImagesGiven
      <4>4. ASSUME NEW p \in ProductIds PROVE OneByOne(p)'
        <5>1. p \in Requests /\ pc[p] = "done" => pc'[p] = "done"
          BY <2>2, <3>1, <3>3, Forward DEF Left, TypeOK
        <5> QED
          BY <3>2, <4>1, <4>2, <5>1 DEF ImagesFollow, OneByOne
      <4> QED
        BY <2>2, <4>3, <4>4, StepSupersedes DEF ImagesFollow
    <3>5. CASE Grounded(r) /\ Effect(r)
      <4>1. applied' = applied \cup {r}
        BY <3>5 DEF Effect
      <4>2. AllImagesGiven' /\ \A p \in ProductIds : OneByOne(p)'
        BY <3>2, <3>3, <3>5, <4>1, ImageFollows, OthersGiveNothing
      <4> QED
        BY <2>2, <4>2, StepSupersedes DEF ImagesFollow
    <3> QED
      BY <3>2, <3>4, <3>5
  <2> QED
    BY <2>1, <2>2 DEF Next
<1>3. TypeOK /\ ImagesFollow => TriesMakeOneImage
  BY DEF ImagesFollow, OneByOne, Superseded, TriesMakeOneImage
<1> QED
  BY <1>1, <1>2, <1>3, InvHolds, ToldHolds, TypeCorrect, PTL DEF Spec

-----------------------------------------------------------------------------
(* Catalog implements Shop: each request takes effect in the one step in   *)
(* which its writes become visible, and what it is told is true then.      *)

(* Shop's view of the tables is Catalog's.                                 *)
LEMMA SameView ==
    ASSUME TypeOK
    PROVE  /\ \A p : Atomic!PicturesOf(p) = PicturesOf(p)
           /\ \A p : Atomic!Pictured(p) <=> Pictured(p)
           /\ \A s : Atomic!Stocked(s) <=> ProductsOf(s) # {}
           /\ \A r \in Requests : Atomic!ProductOf(r) = products[op[r].product]
BY DEF TypeOK, Atomic!PicturesOf, PicturesOf, Atomic!Pictured, Pictured, Atomic!Stocked, ProductsOf, Atomic!ProductOf

(* What is about to take effect deserves to.                               *)
LEMMA GroundedVerdict ==
    ASSUME Inv, NEW r \in Requests, Grounded(r), Effect(r)
    PROVE  Atomic!Verdict(r) = "ok"
<1>1. TypeOK /\ Backed(r)
  BY DEF Inv
<1> USE <1>1, SameView DEF Atomic!Verdict
<1>2. CASE op[r].kind = "createProduct"
  BY <1>2 DEF Grounded, SingleStatement, Backed, CreationBacked
<1>3. CASE op[r].kind = "decreaseStock"
  <2>1. Subtractable(r)
    BY <1>3 DEF Grounded, SingleStatement, Backed, DecreaseBacked
  <2>2. products[op[r].product] \in Product /\ op[r].quantity \in Nat
    BY <1>3, <2>1, Operands DEF Subtractable, TypeOK
  <2> QED
    BY <1>3, <2>1, <2>2 DEF Subtractable, Product
<1>4. CASE op[r].kind = "deleteSupplier"
  BY <1>4 DEF Grounded, SingleStatement, Backed, DeletionBacked
<1>5. CASE op[r].kind = "createImage"
  BY <1>5, NoneIsNoReason DEF Grounded, SingleStatement, Obstacle, Refusals
<1>6. CASE op[r].kind \in {"replaceImage", "getProduct", "getProductImage", "getImage"}
  BY <1>6, NoneIsNoReason DEF Grounded, SingleStatement, Obstacle, Refusals
<1>7. CASE op[r].kind \in {"deleteProduct", "deleteImage", "listProducts"}
  BY <1>7
<1> QED
  BY <1>2, <1>3, <1>4, <1>5, <1>6, <1>7, Operands DEF SingleStatement

(* What takes effect in Catalog is the effect of Shop's operation.         *)
LEMMA EffectMaps ==
    ASSUME Inv, NEW r \in Requests, Grounded(r), Effect(r), r \notin applied
    PROVE  Atomic!Effect(r)
<1> DEFINE Same ==
        \/ Atomic!CreateProduct(r) \/ Atomic!DecreaseStock(r) \/ Atomic!DeleteProduct(r)
        \/ Atomic!DeleteSupplier(r) \/ Atomic!CreateImage(r) \/ Atomic!ReplaceImage(r)
        \/ Atomic!DeleteImage(r) \/ Atomic!Read(r)
<1> SUFFICES Same
  BY GroundedVerdict DEF Effect, Atomic!Effect
<1>1. TypeOK
  BY DEF Inv
<1>2. CASE ProductInserted(r)
  BY <1>2 DEF ProductInserted, Atomic!CreateProduct
<1>3. CASE StockDecreased(r)
  <2>1. /\ products[op[r].product] \in Product
        /\ written[r] = products[op[r].product].stock - op[r].quantity
    <3>1. pc[r] \in Ready /\ Backed(r)
      BY <1>3 DEF Inv, Grounded, StockDecreased, SingleStatement
    <3> QED
      BY <1>1, <1>3, <3>1, DecreasedRow DEF Backed, DecreaseBacked, StockDecreased, TypeOK
  <2>2. [supplier |-> products[op[r].product].supplier, stock |-> written[r]]
            = [products[op[r].product] EXCEPT
                    !.stock = products[op[r].product].stock - op[r].quantity]
    BY <2>1 DEF Product
  <2>3. Atomic!DecreaseStock(r)
    BY <1>3, <2>2 DEF StockDecreased, Atomic!DecreaseStock
  <2> QED
    BY <2>3
<1>4. CASE SupplierDeleted(r)
  BY <1>4 DEF SupplierDeleted, Atomic!DeleteSupplier
<1>5. CASE ProductDeleted(r)
  BY <1>1, <1>5, SameView DEF ProductDeleted, Atomic!DeleteProduct, TypeOK
<1>6. CASE ImageInserted(r)
  BY <1>6 DEF ImageInserted, Atomic!CreateImage
<1>7. CASE ImageReplaced(r)
  BY <1>7 DEF ImageReplaced, Atomic!ReplaceImage
<1>8. CASE ImageDeleted(r)
  BY <1>8 DEF ImageDeleted, Atomic!DeleteImage
<1>9. CASE Selected(r)
  BY <1>9 DEF Selected, Atomic!Read, data, Atomic!data
<1> QED
  BY <1>2, <1>3, <1>4, <1>5, <1>6, <1>7, <1>8, <1>9 DEF Effect

(* What the statements return is what Shop answers.                        *)
LEMMA AnswerMaps ==
    ASSUME Inv, NEW r \in Requests, Grounded(r), Effect(r)
    PROVE  Atomic!Answer(r) = Returned(r)
<1>1. TypeOK
  BY DEF Inv
<1> USE <1>1, SameView DEF Atomic!Answer, Returned
<1>2. CASE op[r].kind = "decreaseStock"
  <2>1. pc[r] \in Ready /\ Backed(r)
    BY <1>2 DEF Inv, Grounded, SingleStatement
  <2>2. written[r] = products[op[r].product].stock - op[r].quantity
    BY <1>2, <2>1 DEF Backed, DecreaseBacked
  <2> QED
    BY <1>2, <2>2
<1>3. CASE op[r].kind \in {"getProduct", "listProducts"}
  <2>1. \A p : Atomic!ProductRow(p) = ProductRow(p)
    BY DEF Atomic!ProductRow, ProductRow
  <2>2. DOMAIN products = ProductIds
    BY DEF TypeOK
  <2> QED
    BY <1>3, <2>1, <2>2
<1>4. CASE op[r].kind \in {"getProductImage", "getImage"}
  <2>1. \A S : Atomic!ImageRows(S) = ImageRows(S)
    BY DEF Atomic!ImageRows, ImageRows
  <2> QED
    BY <1>4, <2>1
<1> QED
  BY <1>2, <1>3, <1>4

-----------------------------------------------------------------------------
(* Steps that nobody sees.                                                 *)
LEMMA Stutters ==
    ASSUME UNCHANGED <<data, op, outcome, shown, applied>>
    PROVE  UNCHANGED Atomic!vars
BY DEF data, Atomic!vars

(* Shop answers r.                                                         *)
Answers(r) == Atomic!Serve(r) \/ Atomic!Refuse(r) \/ Atomic!Fail(r)

(* A refusal for a reason that holds is one of Shop's.                     *)
LEMMA RefusalMaps ==
    ASSUME NEW r \in Requests, NEW reason, Told(r),
           pc[r] \notin Ended \cup {"refusing"},
           outcome' = [outcome EXCEPT ![r] = reason],
           UNCHANGED <<data, op, shown, applied>>,
           reason = "error" \/ (reason # "ok" /\ Atomic!Verdict(r) = reason)
    PROVE  Answers(r)
BY DEF Told, data, Atomic!data, Answers, Atomic!Refuse, Atomic!Fail

(* A creation is refused while its supplier is missing.                    *)
LEMMA RefusedCreation ==
    ASSUME Inv, NEW r \in Requests, Told(r), op[r].kind = "createProduct",
           op[r].supplier \notin suppliers,
           NEW from \in {"begun", "categorised"}, Refuse(r, from, "supplierNotFound")
    PROVE  Answers(r)
<1>1. Atomic!Verdict(r) = "supplierNotFound"
  BY DEF Atomic!Verdict
<1> QED
  BY <1>1, RefusalMaps DEF Refuse, Goto, Ended

(* A decrease is refused exactly while the product is missing or its stock *)
(* too small.                                                              *)
LEMMA LockStockMaps ==
    ASSUME Inv, NEW r \in Requests, Told(r), LockStock(r)
    PROVE  Answers(r) \/ UNCHANGED Atomic!vars
<1> USE SameView DEF LockStock, Inv, Atomic!Verdict, Ended, Goto
<1>1. CASE products[op[r].product] = None
  BY <1>1, RefusalMaps DEF Refuse
<1>2. CASE /\ products[op[r].product] # None
           /\ products[op[r].product].stock < op[r].quantity
  <2>1. products[op[r].product] \in Product /\ op[r].quantity \in Nat
    BY <1>2, Operands DEF TypeOK
  <2>2. Atomic!Verdict(r) = "insufficient"
    BY <1>2
  <2>3. outcome' = [outcome EXCEPT ![r] = "insufficient"]
    BY <1>2, <2>1 DEF Product
  <2> QED
    BY <1>2, <2>1, <2>2, <2>3, RefusalMaps DEF Product
<1>3. CASE /\ products[op[r].product] # None
           /\ ~(products[op[r].product].stock < op[r].quantity)
  BY <1>3, Stutters
<1> QED
  BY <1>1, <1>2, <1>3

(* The deletion of a supplier that is not there succeeds.                  *)
LEMMA LockSupplierMaps ==
    ASSUME Inv, NEW r \in Requests, Told(r), LockSupplier(r)
    PROVE  Answers(r) \/ UNCHANGED Atomic!vars
<1>1. CASE op[r].supplier \in suppliers
  BY <1>1, Stutters DEF LockSupplier
<1>2. CASE op[r].supplier \notin suppliers
  <2>1. Atomic!Verdict(r) = "ok"
    BY <1>2 DEF LockSupplier, Atomic!Verdict
  <2>2. Atomic!DeleteSupplier(r)
    BY <1>2 DEF LockSupplier, data, Atomic!DeleteSupplier
  <2>3. outcome[r] = None /\ r \notin applied
    BY <1>2 DEF LockSupplier, Goto, Told, Ended
  <2>4. shown' = [shown EXCEPT ![r] = Atomic!Answer(r)]
    BY <1>2 DEF LockSupplier, Succeed, Returned, Atomic!Answer
  <2> QED
    BY <1>2, <2>1, <2>2, <2>3, <2>4
       DEF LockSupplier, Succeed, Answers, Atomic!Serve, Atomic!Effect
<1> QED
  BY <1>1, <1>2

(* A deletion is refused exactly while a product refers to the supplier.   *)
LEMMA RemoveSupplierMaps ==
    ASSUME Inv, NEW r \in Requests, Told(r), RemoveSupplier(r)
    PROVE  Answers(r) \/ UNCHANGED Atomic!vars
<1>1. CASE UNCHANGED <<data, op, held, written, outcome, shown, applied>>
  BY <1>1, Stutters
<1>2. CASE ProductsOf(op[r].supplier) # {} /\ Refuse(r, "locked", "inUse")
  <2>1. \E p \in ProductIds : products[p] # None /\ products[p].supplier = op[r].supplier
    BY <1>2 DEF ProductsOf
  <2>2. op[r].supplier \in suppliers
    BY <2>1 DEF Inv, ReferentialIntegrity
  <2>3. Atomic!Verdict(r) = "inUse"
    BY <1>2, <2>2, SameView DEF RemoveSupplier, Atomic!Verdict, Inv
  <2> QED
    BY <1>2, <2>3, RefusalMaps DEF Refuse, Goto, Ended
<1> QED
  BY <1>1, <1>2 DEF RemoveSupplier

(* An operation of a single statement is served or refused at once.        *)
LEMMA ExecuteMaps ==
    ASSUME Inv, NEW r \in Requests, Told(r), Execute(r)
    PROVE  Answers(r)
<1>1. outcome[r] = None /\ r \notin applied
  BY DEF Execute, Goto, Refuse, Told, Ended
<1>2. CASE Obstacle(r) = None
  BY <1>1, <1>2, EffectMaps, AnswerMaps
     DEF Execute, Succeed, Grounded, Answers, Atomic!Serve
<1>3. CASE Obstacle(r) # None
  <2>1. Atomic!Verdict(r) = Obstacle(r) /\ Obstacle(r) # "ok"
    BY <1>3, SameView DEF Obstacle, Atomic!Verdict, Inv
  <2> QED
    BY <1>3, <2>1, RefusalMaps DEF Execute, Refuse, Goto, Ended
<1> QED
  BY <1>2, <1>3

(* A COMMIT serves the request.                                            *)
LEMMA CommitMaps ==
    ASSUME Inv, NEW r \in Requests, Told(r), Commit(r)
    PROVE  Answers(r)
<1>1. Grounded(r) /\ r \notin applied
  BY DEF Commit, Goto, Grounded, Inv, Backed, Ready, Told, Ended
<1> QED
  BY <1>1, EffectMaps, AnswerMaps
     DEF Commit, Succeed, Goto, Told, Ended, Answers, Atomic!Serve

(* One that the server carries out late does so after its caller was told  *)
(* of an error.                                                            *)
LEMMA ServerCommitMaps ==
    ASSUME Inv, NEW r \in Requests, Told(r), ServerCommit(r)
    PROVE  Atomic!Belated(r)
<1>1. Grounded(r) /\ r \notin applied
  BY DEF ServerCommit, Goto, Grounded, Inv, Backed, Ready, Told, Ended
<1> QED
  BY <1>1, EffectMaps DEF ServerCommit, Goto, Told, Ended, Atomic!Belated

(* A request that gives up is told of an error if it has no answer yet.    *)
LEMMA GiveUpMaps ==
    ASSUME Inv, NEW r \in Requests, GiveUp(r)
    PROVE  Answers(r) \/ UNCHANGED Atomic!vars
<1>1. CASE outcome[r] = None
  BY <1>1 DEF GiveUp, data, Atomic!data, Answers, Atomic!Fail
<1>2. CASE outcome[r] # None
  <2>1. outcome' = outcome
    BY <1>2 DEF GiveUp, Inv, TypeOK
  <2> QED
    BY <2>1, Stutters DEF GiveUp
<1> QED
  BY <1>1, <1>2

-----------------------------------------------------------------------------
(* What a connected client does for a request is Shop's answer to it, or   *)
(* nothing that Shop sees.                                                 *)
LEMMA ClientMaps ==
    ASSUME Inv, NEW r \in Requests, Told(r), Begin(r) \/ Statement(r) \/ GiveUp(r)
    PROVE  Answers(r) \/ UNCHANGED Atomic!vars
<1>1. CASE Begin(r) \/ UpsertCategory(r) \/ Rollback(r)
  BY <1>1, Stutters DEF Begin, UpsertCategory, Rollback
<1>2. CASE CheckSupplier(r)
  BY <1>2, RefusedCreation, Stutters DEF CheckSupplier
<1>3. CASE InsertProduct(r)
  BY <1>3, RefusedCreation, Stutters DEF InsertProduct
<1>4. CASE UpdateStock(r)
  <2>1. CASE Refuse(r, "locked", "error")
    BY <2>1, RefusalMaps DEF Refuse, Goto, Ended
  <2> QED
    BY <1>4, <2>1, Stutters DEF UpdateStock
<1> QED
  BY <1>1, <1>2, <1>3, <1>4, LockStockMaps, LockSupplierMaps, RemoveSupplierMaps,
     ExecuteMaps, CommitMaps, GiveUpMaps DEF Statement

(* Every step of Catalog is one of Shop or leaves what Shop sees alone.    *)
LEMMA StepMaps == Inv /\ AllTold /\ [Next]_vars => [Atomic!Next]_(Atomic!vars)
<1> SUFFICES ASSUME Inv, AllTold, [Next]_vars
             PROVE  Atomic!Next \/ UNCHANGED Atomic!vars
  OBVIOUS
<1>1. CASE UNCHANGED vars
  BY <1>1 DEF vars, Atomic!vars
<1>2. ASSUME NEW r \in Requests,
             Begin(r) \/ Statement(r) \/ GiveUp(r) \/ ServerRollback(r) \/ ServerCommit(r)
      PROVE  Atomic!Next \/ UNCHANGED Atomic!vars
  <2>1. Told(r)
    BY DEF AllTold
  <2>2. CASE Begin(r) \/ Statement(r) \/ GiveUp(r)
    BY <2>1, <2>2, ClientMaps DEF Answers, Atomic!Next
  <2>3. CASE ServerRollback(r)
    BY <2>3, Stutters DEF ServerRollback
  <2>4. CASE ServerCommit(r)
    BY <2>1, <2>4, ServerCommitMaps DEF Atomic!Next
  <2> QED
    BY <1>2, <2>2, <2>3, <2>4
<1> QED
  BY <1>1, <1>2 DEF Next

(* The repositories, statement by statement, with whatever fails, carry    *)
(* requests out as if each ran at once and alone.                          *)
THEOREM Implements == Spec => ImplementsShop
<1>1. Init => Atomic!Init
  BY DEF Init, Atomic!Init
<1> QED
  BY <1>1, StepMaps, InvHolds, ToldHolds, PTL DEF Spec, ImplementsShop, Atomic!Spec

-----------------------------------------------------------------------------
(* What EveryRequestEnds rests on, but for the fairness itself: unless all *)
(* is done, some request can go on, and each step brings one of finitely   *)
(* many requests closer to its end; so a behaviour that may not stop while *)
(* a request can go on comes to an end at which all is done.               *)

(* Where a transaction may be, given what it is for.                       *)
InPlace(r) ==
    /\ pc[r] \in {"checked", "categorised"} => op[r].kind = "createProduct"
    /\ pc[r] = "locked" => op[r].kind \in {"decreaseStock", "deleteSupplier"}

AllInPlace == \A r \in Requests : InPlace(r)

(* Every step of a transaction leaves all of them in place.                *)
LEMMA InPlaceStep ==
    ASSUME TypeOK, AllInPlace, NEW r \in Requests,
           Begin(r) \/ Statement(r) \/ GiveUp(r) \/ ServerRollback(r) \/ ServerCommit(r)
    PROVE  AllInPlace'
<1>1. op' = op
  BY DEF Begin, Statement, GiveUp, ServerRollback, ServerCommit, CheckSupplier,
         UpsertCategory, InsertProduct, LockStock, UpdateStock, LockSupplier,
         RemoveSupplier, Execute, Commit, Rollback, Refuse
<1>2. PICK to :
        /\ pc' = [pc EXCEPT ![r] = to]
        /\ to \in {"checked", "categorised"} => op[r].kind = "createProduct"
        /\ to = "locked" => op[r].kind \in {"decreaseStock", "deleteSupplier"}
  <2>1. CASE Statement(r)
    BY <2>1 DEF Statement, CheckSupplier, UpsertCategory, InsertProduct, LockStock,
         UpdateStock, LockSupplier, RemoveSupplier, Execute, Commit, Rollback, Refuse, Goto
  <2>2. CASE Begin(r) \/ ServerRollback(r) \/ ServerCommit(r)
    BY <2>2 DEF Begin, ServerRollback, ServerCommit, Goto
  <2>3. CASE GiveUp(r)
    <3>1. PICK to \in {"done", "abandoned", "inDoubt"} : pc' = [pc EXCEPT ![r] = to]
      BY <2>3 DEF GiveUp, Break
    <3> QED
      BY <3>1
  <2> QED
    BY <2>1, <2>2, <2>3
<1> QED
  BY <1>1, <1>2 DEF AllInPlace, InPlace, TypeOK

(* At any time a transaction is where its operation can be: the actions    *)
(* are the statements of each operation in their order.                    *)
THEOREM EachInPlace == Spec => []AllInPlace
<1>1. Init => AllInPlace
  BY DEF Init, AllInPlace, InPlace
<1>2. TypeOK /\ AllInPlace /\ [Next]_vars => AllInPlace'
  <2>1. ASSUME AllInPlace, UNCHANGED vars PROVE AllInPlace'
    BY <2>1 DEF AllInPlace, InPlace, vars
  <2> QED
    BY <2>1, InPlaceStep DEF Next
<1> QED
  BY <1>1, <1>2, TypeCorrect, PTL DEF Spec

(* The locks, or the connection, without which r does not take a step.     *)
LEMMA Needs ==
    ASSUME NEW r \in Requests, Begin(r) \/ Statement(r) \/ ServerRollback(r)
    PROVE  /\ pc[r] = "queued" => ConnectionFree
           /\ op[r].kind = "createProduct" /\ pc[r] = "checked" =>
                Lockable(r, op[r].category, "update")
           /\ op[r].kind = "createProduct" /\ pc[r] = "categorised" =>
                Lockable(r, op[r].supplier, "share")
           /\ op[r].kind = "decreaseStock" /\ pc[r] \in {"begun", "locked"} =>
                Lockable(r, op[r].product, "update")
           /\ op[r].kind = "deleteSupplier" /\ pc[r] = "begun" =>
                Lockable(r, op[r].supplier, "update")
           /\ op[r].kind = "deleteSupplier" /\ pc[r] = "locked" =>
                \/ ProductsOf(op[r].supplier) = {}
                \/ \E p \in ProductsOf(op[r].supplier) : Lockable(r, p, "share")
           /\ op[r].kind \in SingleStatement /\ pc[r] = "begun" => Unobstructed(r)
<1>1. CASE Begin(r) \/ ServerRollback(r) \/ Commit(r) \/ Rollback(r)
  BY <1>1 DEF Begin, ServerRollback, Commit, Rollback, Goto
<1>2. CASE CheckSupplier(r) \/ UpsertCategory(r) \/ InsertProduct(r)
  BY <1>2 DEF CheckSupplier, UpsertCategory, InsertProduct, Refuse, Goto, Lock,
        SingleStatement
<1>3. CASE LockStock(r) \/ UpdateStock(r)
  BY <1>3 DEF LockStock, UpdateStock, Refuse, Goto, SingleStatement
<1>4. CASE LockSupplier(r) \/ RemoveSupplier(r)
  BY <1>4 DEF LockSupplier, RemoveSupplier, Refuse, Goto, SingleStatement
<1>5. CASE Execute(r)
  BY <1>5 DEF Execute, Refuse, Goto, SingleStatement
<1> QED
  BY <1>1, <1>2, <1>3, <1>4, <1>5 DEF Statement

(* A request that is stopped cannot go on: neither begin, nor run a        *)
(* statement, nor be rolled back.                                          *)
THEOREM WaitersStand ==
    ASSUME NEW r \in Requests, Stopped(r, Awaited(r))
    PROVE  ~(Begin(r) \/ Statement(r) \/ ServerRollback(r))
<1> SUFFICES ASSUME Begin(r) \/ Statement(r) \/ ServerRollback(r) PROVE FALSE
  OBVIOUS
<1>1. CASE pc[r] = "queued" /\ ~ConnectionFree
  BY <1>1, Needs
<1>2. CASE Awaited(r) # {} /\ \A lock \in Awaited(r) : ~Lockable(r, lock[1], lock[2])
  <2>1. ASSUME NEW row, NEW mode, <<row, mode>> \in Awaited(r)
        PROVE  ~Lockable(r, row, mode)
    <3> DEFINE lock == <<row, mode>>
    <3>1. ~Lockable(r, lock[1], lock[2])
      BY <1>2, <2>1
    <3> QED
      BY <3>1
  <2>2. CASE op[r].kind = "createProduct"
    BY <1>2, <2>1, <2>2, Needs DEF Awaited
  <2>3. CASE op[r].kind = "decreaseStock"
    BY <1>2, <2>1, <2>3, Needs DEF Awaited
  <2>4. CASE op[r].kind = "deleteSupplier"
    BY <1>2, <2>1, <2>4, Needs DEF Awaited
  <2>5. CASE op[r].kind \in {"deleteProduct", "createImage"}
    BY <1>2, <2>1, <2>5, Needs DEF Awaited, Unobstructed, SingleStatement
  <2> QED
    BY <1>2, <2>2, <2>3, <2>4, <2>5 DEF Awaited
<1> QED
  BY <1>1, <1>2 DEF Stopped

(* What the next statement of r finds that keeps it from going on, or None. *)
Finding(r) ==
    CASE /\ op[r].kind = "createProduct" /\ pc[r] \in {"begun", "categorised"}
         /\ op[r].supplier \notin suppliers -> "supplierNotFound"
      [] /\ op[r].kind = "decreaseStock" /\ pc[r] = "begun"
         /\ products[op[r].product] = None -> "productNotFound"
      [] /\ op[r].kind = "decreaseStock" /\ pc[r] = "begun"
         /\ products[op[r].product] # None /\ ~Subtractable(r) -> "insufficient"
      [] /\ op[r].kind = "decreaseStock" /\ pc[r] = "locked"
         /\ ~Subtractable(r) -> "error"
      [] /\ op[r].kind = "deleteSupplier" /\ pc[r] = "begun"
         /\ op[r].supplier \notin suppliers -> "ok"
      [] /\ op[r].kind = "deleteSupplier" /\ pc[r] = "locked"
         /\ ProductsOf(op[r].supplier) # {} -> "inUse"
      [] op[r].kind \in SingleStatement /\ pc[r] = "begun" -> Obstacle(r)
      [] OTHER -> None

(* r's next step makes its writes visible.                                 *)
Commits(r) ==
    pc[r] = "ready" \/ (pc[r] = "begun" /\ op[r].kind \in SingleStatement /\ Obstacle(r) = None)

NextStage(r) ==
    CASE pc[r] = "queued" -> "begun"
      [] Commits(r) \/ pc[r] \in {"refusing", "abandoned", "inDoubt"} -> "done"
      [] Finding(r) # None -> "refusing"
      [] Finding(r) = None /\ pc[r] = "begun" /\ op[r].kind = "createProduct" -> "checked"
      [] Finding(r) = None /\ pc[r] = "begun" /\ op[r].kind \in {"decreaseStock", "deleteSupplier"} -> "locked"
      [] pc[r] = "checked" -> "categorised"
      [] Finding(r) = None /\ pc[r] \in {"categorised", "locked"} -> "ready"

NextLocks(r) ==
    CASE pc[r] \in {"ready", "refusing", "abandoned", "inDoubt"} -> {}
      [] op[r].kind = "createProduct" /\ pc[r] = "checked" ->
            held[r] \cup {<<op[r].category, "update">>}
      [] op[r].kind = "createProduct" /\ pc[r] = "categorised" /\ Finding(r) = None ->
            held[r] \cup {<<op[r].supplier, "share">>}
      [] op[r].kind = "decreaseStock" /\ pc[r] \in {"begun", "locked"}
            /\ Finding(r) \in {None, "insufficient"} ->
            held[r] \cup {<<op[r].product, "update">>}
      [] op[r].kind = "deleteSupplier" /\ pc[r] = "begun" /\ Finding(r) = None ->
            held[r] \cup {<<op[r].supplier, "update">>}
      [] OTHER -> held[r]

GoesOn(r) ==
    /\ suppliers' = IF Commits(r) /\ op[r].kind = "deleteSupplier"
                    THEN suppliers \ {op[r].supplier} ELSE suppliers
    /\ products' =
        CASE Commits(r) /\ op[r].kind = "createProduct" ->
                [products EXCEPT ![r] =
                    [supplier |-> op[r].supplier, stock |-> op[r].quantity]]
          [] Commits(r) /\ op[r].kind = "decreaseStock" ->
                [products EXCEPT ![op[r].product] =
                    [supplier |-> products[op[r].product].supplier, stock |-> written[r]]]
          [] Commits(r) /\ op[r].kind = "deleteProduct" ->
                [products EXCEPT ![op[r].product] = None]
          [] OTHER -> products
    /\ images' =
        CASE Commits(r) /\ op[r].kind = "deleteProduct" ->
                [i \in ImageIds |->
                    IF i \in PicturesOf(op[r].product) THEN None ELSE images[i]]
          [] Commits(r) /\ op[r].kind = "createImage" ->
                [images EXCEPT ![r] = [product |-> op[r].product, content |-> r]]
          [] Commits(r) /\ op[r].kind = "replaceImage" ->
                [images EXCEPT ![op[r].image] =
                    [product |-> images[op[r].image].product, content |-> r]]
          [] Commits(r) /\ op[r].kind = "deleteImage" ->
                [images EXCEPT ![op[r].image] = None]
          [] OTHER -> images
    /\ op' = op
    /\ pc' = [pc EXCEPT ![r] = NextStage(r)]
    /\ held' = [held EXCEPT ![r] = NextLocks(r)]
    /\ written' = IF op[r].kind = "decreaseStock" /\ pc[r] = "locked" /\ Subtractable(r)
                  THEN [written EXCEPT ![r] = products[op[r].product].stock - op[r].quantity]
                  ELSE written
    /\ outcome' = CASE Commits(r) -> [outcome EXCEPT ![r] = "ok"]
                    [] ~Commits(r) /\ Finding(r) # None -> [outcome EXCEPT ![r] = Finding(r)]
                    [] OTHER -> outcome
    /\ shown' = IF Commits(r) \/ Finding(r) = "ok"
                THEN [shown EXCEPT ![r] = Returned(r)] ELSE shown
    /\ applied' = IF Commits(r) \/ Finding(r) = "ok" THEN applied \cup {r} ELSE applied

(* Steps of GoesOn that commit nothing.                                    *)
LEMMA QuietGo ==
    ASSUME TypeOK, NEW r \in Requests, ~Commits(r), GoesOn(r)
    PROVE  /\ UNCHANGED <<data, op>>
           /\ Goto(r, pc[r], NextStage(r))
           /\ held' = [held EXCEPT ![r] = NextLocks(r)]
           /\ NextLocks(r) = held[r] => UNCHANGED held
           /\ op[r].kind # "decreaseStock" \/ pc[r] # "locked" \/ ~Subtractable(r)
                => UNCHANGED written
           /\ Finding(r) = None => UNCHANGED outcome
           /\ Finding(r) # None => outcome' = [outcome EXCEPT ![r] = Finding(r)]
           /\ Finding(r) # "ok" => UNCHANGED <<shown, applied>>
<1>1. UNCHANGED <<data, op>> /\ Goto(r, pc[r], NextStage(r))
  BY DEF GoesOn, data, Goto
<1>2. held' = [held EXCEPT ![r] = NextLocks(r)] /\ (NextLocks(r) = held[r] => UNCHANGED held)
  BY DEF GoesOn, TypeOK
<1>3. /\ Finding(r) = None => UNCHANGED outcome
      /\ Finding(r) # None => outcome' = [outcome EXCEPT ![r] = Finding(r)]
  BY DEF GoesOn
<1>4. /\ Finding(r) # "ok" => UNCHANGED <<shown, applied>>
      /\ op[r].kind # "decreaseStock" \/ pc[r] # "locked" \/ ~Subtractable(r)
            => UNCHANGED written
  BY DEF GoesOn
<1> QED
  BY <1>1, <1>2, <1>3, <1>4

(* One lemma for each operation of several statements.                     *)

(* A creation that has the locks it needs has a next statement.            *)
LEMMA CreationGoesOn ==
    ASSUME TypeOK, NEW r \in Requests, op[r].kind = "createProduct",
           pc[r] \in {"begun", "checked", "categorised"},
           pc[r] = "checked" => Lockable(r, op[r].category, "update"),
           pc[r] = "categorised" => Lockable(r, op[r].supplier, "share"),
           GoesOn(r)
    PROVE  Statement(r)
<1>1. ~Commits(r)
  BY DEF Commits, SingleStatement
<1>2. "supplierNotFound" # None /\ "supplierNotFound" # "ok"
  BY NoneIsNoReason DEF Refusals
<1>3. CASE pc[r] = "begun"
  <2>1. NextLocks(r) = held[r]
    BY <1>3 DEF NextLocks
  <2>2. CASE op[r].supplier \in suppliers
    <3>1. Finding(r) = None
      BY <1>3, <2>2 DEF Finding, SingleStatement
    <3>2. NextStage(r) = "checked"
      BY <1>1, <1>3, <3>1 DEF NextStage
    <3> QED
      BY <1>1, <1>3, <2>1, <2>2, <3>1, <3>2, QuietGo, NoneAssumption
         DEF Statement, CheckSupplier
  <2>3. CASE op[r].supplier \notin suppliers
    <3>1. Finding(r) = "supplierNotFound"
      BY <1>3, <2>3 DEF Finding, SingleStatement
    <3>2. NextStage(r) = "refusing"
      BY <1>1, <1>2, <1>3, <3>1 DEF NextStage
    <3> QED
      BY <1>1, <1>2, <1>3, <2>1, <2>3, <3>1, <3>2, QuietGo
         DEF Statement, CheckSupplier, Refuse
  <2> QED
    BY <2>2, <2>3
<1>4. CASE pc[r] = "checked"
  <2>1. Finding(r) = None
    BY <1>4 DEF Finding
  <2>2. NextStage(r) = "categorised"
    BY <1>1, <1>4, <2>1 DEF NextStage
  <2>3. NextLocks(r) = held[r] \cup {<<op[r].category, "update">>}
    BY <1>4 DEF NextLocks
  <2>4. Lock(r, op[r].category, "update")
    BY <1>1, <1>4, <2>3, QuietGo DEF Lock
  <2> QED
    BY <1>1, <1>4, <2>1, <2>2, <2>4, QuietGo, NoneAssumption DEF Statement, UpsertCategory
<1>5. CASE pc[r] = "categorised"
  <2>1. CASE op[r].supplier \in suppliers
    <3>1. Finding(r) = None
      BY <1>5, <2>1 DEF Finding
    <3>2. NextStage(r) = "ready"
      BY <1>1, <1>5, <3>1 DEF NextStage
    <3>3. NextLocks(r) = held[r] \cup {<<op[r].supplier, "share">>}
      BY <1>5, <3>1 DEF NextLocks
    <3>4. Lock(r, op[r].supplier, "share")
      BY <1>1, <1>5, <3>3, QuietGo DEF Lock
    <3> QED
      BY <1>1, <1>5, <2>1, <3>1, <3>2, <3>4, QuietGo, NoneAssumption
         DEF Statement, InsertProduct
  <2>2. CASE op[r].supplier \notin suppliers
    <3>1. Finding(r) = "supplierNotFound"
      BY <1>5, <2>2 DEF Finding
    <3>2. NextStage(r) = "refusing"
      BY <1>1, <1>2, <1>5, <3>1 DEF NextStage
    <3>3. NextLocks(r) = held[r]
      BY <1>2, <1>5, <3>1 DEF NextLocks
    <3> QED
      BY <1>1, <1>2, <1>5, <2>2, <3>1, <3>2, <3>3, QuietGo
         DEF Statement, InsertProduct, Refuse
  <2> QED
    BY <2>1, <2>2
<1> QED
  BY <1>3, <1>4, <1>5

(* So has a decrease.                                                      *)
LEMMA DecreaseGoesOn ==
    ASSUME TypeOK, NEW r \in Requests, op[r].kind = "decreaseStock",
           pc[r] \in {"begun", "locked"}, Lockable(r, op[r].product, "update"),
           GoesOn(r)
    PROVE  Statement(r)
<1>1. ~Commits(r)
  BY DEF Commits, SingleStatement
<1>2. /\ None \notin {"productNotFound", "insufficient", "error"}
      /\ None # "ok"
  BY NoneAssumption DEF Refusals
<1>3. op[r].product \in ProductIds /\ op[r].quantity \in Nat
  BY Operands
<1>4. products[op[r].product] # None =>
        products[op[r].product].stock \in Nat
  BY <1>3 DEF TypeOK, Product
<1>5. CASE pc[r] = "begun"
  <2>1. CASE products[op[r].product] = None
    <3>1. Finding(r) = "productNotFound"
      BY <1>5, <2>1 DEF Finding, SingleStatement
    <3>2. NextStage(r) = "refusing"
      BY <1>1, <1>2, <1>5, <3>1 DEF NextStage
    <3>3. NextLocks(r) = held[r]
      BY <1>2, <1>5, <3>1 DEF NextLocks
    <3> QED
      BY <1>1, <1>2, <1>5, <2>1, <3>1, <3>2, <3>3, QuietGo
         DEF Statement, LockStock, Refuse
  <2>2. CASE products[op[r].product] # None /\ ~Subtractable(r)
    <3>1. Finding(r) = "insufficient"
      BY <1>5, <2>2 DEF Finding, SingleStatement
    <3>2. NextStage(r) = "refusing"
      BY <1>1, <1>2, <1>5, <3>1 DEF NextStage
    <3>3. NextLocks(r) = held[r] \cup {<<op[r].product, "update">>}
      BY <1>5, <3>1 DEF NextLocks
    <3>4. Lock(r, op[r].product, "update")
      BY <1>1, <3>3, QuietGo DEF Lock
    <3>5. products[op[r].product].stock < op[r].quantity
      BY <1>3, <1>4, <2>2 DEF Subtractable
    <3> QED
      BY <1>1, <1>2, <1>5, <2>2, <3>1, <3>2, <3>4, <3>5, QuietGo
         DEF Statement, LockStock
  <2>3. CASE Subtractable(r)
    <3>1. Finding(r) = None
      BY <1>5, <2>3 DEF Finding, SingleStatement, Subtractable
    <3>2. NextStage(r) = "locked"
      BY <1>1, <1>5, <3>1 DEF NextStage
    <3>3. NextLocks(r) = held[r] \cup {<<op[r].product, "update">>}
      BY <1>5, <3>1 DEF NextLocks
    <3>4. Lock(r, op[r].product, "update")
      BY <1>1, <3>3, QuietGo DEF Lock
    <3> QED
      BY <1>1, <1>2, <1>5, <2>3, <3>1, <3>2, <3>4, QuietGo
         DEF Statement, LockStock, Subtractable
  <2> QED
    BY <2>1, <2>2, <2>3
<1>6. CASE pc[r] = "locked"
  <2>1. CASE Subtractable(r)
    <3>1. Finding(r) = None
      BY <1>6, <2>1 DEF Finding
    <3>2. NextStage(r) = "ready"
      BY <1>1, <1>6, <3>1 DEF NextStage
    <3>3. NextLocks(r) = held[r] \cup {<<op[r].product, "update">>}
      BY <1>6, <3>1 DEF NextLocks
    <3>4. Lock(r, op[r].product, "update")
      BY <1>1, <3>3, QuietGo DEF Lock
    <3>5. written' = [written EXCEPT ![r] = products[op[r].product].stock - op[r].quantity]
      BY <1>6, <2>1 DEF GoesOn
    <3> QED
      BY <1>1, <1>2, <1>6, <2>1, <3>1, <3>2, <3>4, <3>5, QuietGo
         DEF Statement, UpdateStock
  <2>2. CASE ~Subtractable(r)
    <3>1. Finding(r) = "error"
      BY <1>6, <2>2 DEF Finding
    <3>2. NextStage(r) = "refusing"
      BY <1>1, <1>2, <1>6, <3>1 DEF NextStage
    <3>3. NextLocks(r) = held[r]
      BY <1>2, <1>6, <3>1 DEF NextLocks
    <3> QED
      BY <1>1, <1>2, <1>6, <2>2, <3>1, <3>2, <3>3, QuietGo
         DEF Statement, UpdateStock, Refuse
  <2> QED
    BY <2>1, <2>2
<1> QED
  BY <1>5, <1>6

(* So has a deletion of several statements.                                *)
LEMMA DeletionGoesOn ==
    ASSUME TypeOK, NEW r \in Requests, op[r].kind = "deleteSupplier",
           pc[r] \in {"begun", "locked"},
           pc[r] = "begun" => Lockable(r, op[r].supplier, "update"),
           pc[r] = "locked" /\ ProductsOf(op[r].supplier) # {} =>
                \E p \in ProductsOf(op[r].supplier) : Lockable(r, p, "share"),
           GoesOn(r)
    PROVE  Statement(r)
<1>1. ~Commits(r)
  BY DEF Commits, SingleStatement
<1>2. None \notin {"inUse", "ok"}
  BY NoneAssumption DEF Refusals
<1>3. CASE pc[r] = "begun"
  <2>1. CASE op[r].supplier \in suppliers
    <3>1. Finding(r) = None
      BY <1>3, <2>1 DEF Finding, SingleStatement
    <3>2. NextStage(r) = "locked"
      BY <1>1, <1>3, <3>1 DEF NextStage
    <3>3. NextLocks(r) = held[r] \cup {<<op[r].supplier, "update">>}
      BY <1>3, <3>1 DEF NextLocks
    <3>4. Lock(r, op[r].supplier, "update")
      BY <1>1, <1>3, <3>3, QuietGo DEF Lock
    <3> QED
      BY <1>1, <1>2, <1>3, <2>1, <3>1, <3>2, <3>4, QuietGo DEF Statement, LockSupplier
  <2>2. CASE op[r].supplier \notin suppliers
    <3>1. Finding(r) = "ok"
      BY <1>3, <2>2 DEF Finding, SingleStatement
    <3>2. NextStage(r) = "refusing"
      BY <1>1, <1>2, <1>3, <3>1 DEF NextStage
    <3>3. NextLocks(r) = held[r]
      BY <1>2, <1>3, <3>1 DEF NextLocks
    <3>4. /\ shown' = [shown EXCEPT ![r] = Returned(r)]
          /\ applied' = applied \cup {r}
      BY <3>1 DEF GoesOn
    <3> QED
      BY <1>1, <1>2, <1>3, <2>2, <3>1, <3>2, <3>3, <3>4, QuietGo
         DEF Statement, LockSupplier, Succeed
  <2> QED
    BY <2>1, <2>2
<1>4. CASE pc[r] = "locked"
  <2>1. NextLocks(r) = held[r]
    BY <1>4 DEF NextLocks
  <2>2. CASE ProductsOf(op[r].supplier) = {}
    <3>1. Finding(r) = None
      BY <1>4, <2>2 DEF Finding
    <3>2. NextStage(r) = "ready"
      BY <1>1, <1>4, <3>1 DEF NextStage
    <3> QED
      BY <1>1, <1>2, <1>4, <2>1, <2>2, <3>1, <3>2, QuietGo DEF Statement, RemoveSupplier
  <2>3. CASE ProductsOf(op[r].supplier) # {}
    <3>1. Finding(r) = "inUse"
      BY <1>4, <2>3 DEF Finding
    <3>2. NextStage(r) = "refusing"
      BY <1>1, <1>2, <1>4, <3>1 DEF NextStage
    <3> QED
      BY <1>1, <1>2, <1>4, <2>1, <2>3, <3>1, <3>2, QuietGo
         DEF Statement, RemoveSupplier, Refuse
  <2> QED
    BY <2>2, <2>3
<1> QED
  BY <1>3, <1>4

(* The writes that GoesOn makes visible are those of the operation.        *)
LEMMA CommitGoesOn ==
    ASSUME Inv, NEW r \in Requests, Commits(r), GoesOn(r)
    PROVE  Effect(r) /\ Succeed(r) /\ UNCHANGED <<op, written>>
<1>1. Succeed(r) /\ applied' = applied \cup {r} /\ op' = op
  BY DEF GoesOn, Succeed
<1>2. written' = written
  BY DEF GoesOn, Commits
<1>3. op[r].kind \in SingleStatement \cup
                {"createProduct", "decreaseStock", "deleteSupplier"}
  BY Operands DEF Inv
<1>4. ProductInserted(r) \/ StockDecreased(r) \/ SupplierDeleted(r)
        \/ ProductDeleted(r) \/ ImageInserted(r) \/ ImageReplaced(r) \/ ImageDeleted(r)
        \/ Selected(r)
  <2>1. CASE op[r].kind \in {"createProduct", "decreaseStock", "deleteSupplier"}
    BY <2>1 DEF GoesOn, ProductInserted, StockDecreased, SupplierDeleted
  <2>2. CASE op[r].kind = "deleteProduct"
    BY <2>2 DEF GoesOn, ProductDeleted
  <2>3. CASE op[r].kind \in {"createImage", "replaceImage", "deleteImage"}
    BY <2>3 DEF GoesOn, ImageInserted, ImageReplaced, ImageDeleted
  <2>4. CASE op[r].kind \in {"getProduct", "listProducts", "getProductImage", "getImage"}
    BY <2>4 DEF GoesOn, Selected, data
  <2> QED
    BY <1>3, <2>1, <2>2, <2>3, <2>4 DEF SingleStatement
<1> QED
  BY <1>1, <1>2, <1>4 DEF Effect

(* So has an operation of one statement.                                   *)
LEMMA SingleGoesOn ==
    ASSUME Inv, NEW r \in Requests, op[r].kind \in SingleStatement, pc[r] = "begun",
           Unobstructed(r), GoesOn(r)
    PROVE  Statement(r)
<1>1. op[r].kind \notin {"createProduct", "decreaseStock", "deleteSupplier"}
  BY DEF SingleStatement
<1>2. NextLocks(r) = held[r]
  BY <1>1 DEF NextLocks
<1>3. TypeOK
  BY DEF Inv
<1>4. CASE Obstacle(r) = None
  <2>1. Commits(r)
    BY <1>4 DEF Commits
  <2>2. Finding(r) = None
    BY <1>1, <1>4 DEF Finding
  <2>3. NextStage(r) = "done"
    BY <1>1, <2>1, <2>2 DEF NextStage
  <2>4. Goto(r, "begun", "done") /\ UNCHANGED held
    BY <1>2, <1>3, <2>3 DEF GoesOn, Goto, TypeOK
  <2> QED
    BY <1>4, <2>1, <2>4, CommitGoesOn DEF Statement, Execute
<1>5. CASE Obstacle(r) # None
  <2>1. ~Commits(r)
    BY <1>5 DEF Commits
  <2>2. Finding(r) = Obstacle(r)
    BY <1>1 DEF Finding
  <2>3. NextStage(r) = "refusing"
    BY <1>5, <2>1, <2>2 DEF NextStage
  <2>4. Obstacle(r) # "ok"
    BY ObstacleIsReason, <1>5 DEF Refusals
  <2> QED
    BY <1>1, <1>2, <1>3, <1>5, <2>1, <2>2, <2>3, <2>4, QuietGo
       DEF Statement, Execute, Refuse
<1> QED
  BY <1>4, <1>5

(* The last step of a transaction, be it the client's or the server's.     *)
LEMMA EndGoesOn ==
    ASSUME Inv, NEW r \in Requests, GoesOn(r),
           pc[r] \in {"ready", "refusing", "abandoned", "inDoubt"}
    PROVE  Statement(r) \/ ServerRollback(r)
<1>1. TypeOK /\ NextLocks(r) = {}
  BY DEF Inv, NextLocks
<1>2. Unlock(r)
  BY <1>1 DEF GoesOn, Unlock
<1>3. Finding(r) = None
  BY DEF Finding
<1>4. NextStage(r) = "done"
  BY <1>3 DEF NextStage, Commits
<1>5. Goto(r, pc[r], "done")
  BY <1>4 DEF GoesOn, Goto
<1>6. CASE pc[r] = "ready"
  <2>1. Commits(r)
    BY <1>6 DEF Commits
  <2> QED
    BY <1>2, <1>5, <1>6, <2>1, CommitGoesOn DEF Statement, Commit
<1>7. CASE pc[r] # "ready"
  <2>1. ~Commits(r)
    BY <1>7 DEF Commits
  <2>2. UNCHANGED <<data, op, written, outcome, shown, applied>>
    BY <1>1, <1>3, <2>1, QuietGo, NoneAssumption
  <2> QED
    BY <1>2, <1>5, <1>7, <2>2 DEF Statement, Rollback, ServerRollback
<1> QED
  BY <1>6, <1>7

(* Where nothing stops r, there is a next state in which it has gone on:   *)
(* GoesOn(r) gives every variable its value there, so it can always be     *)
(* taken, and it is a step of those that OnlyWaitersStop is about.         *)
THEOREM OthersGoOn ==
    ASSUME Inv, AllInPlace, NEW r \in Requests, pc[r] # "done",
           ~Stopped(r, Awaited(r)), GoesOn(r)
    PROVE  (Begin(r) \/ Statement(r) \/ ServerRollback(r)) /\ pc' # pc
<1>1. TypeOK /\ pc[r] \in {"queued"} \cup Stages \cup Ended
  BY DEF Inv, TypeOK
<1>2. Begin(r) \/ Statement(r) \/ ServerRollback(r)
  <2>1. CASE pc[r] = "queued"
    <3>1. ~Commits(r) /\ Finding(r) = None /\ NextLocks(r) = held[r]
      BY <2>1 DEF Commits, Finding, NextLocks
    <3>2. NextStage(r) = "begun" /\ ConnectionFree
      BY <2>1, <3>1 DEF NextStage, Stopped
    <3> QED
      BY <1>1, <2>1, <3>1, <3>2, QuietGo, NoneAssumption DEF Begin
  <2>2. CASE pc[r] \in {"ready", "refusing", "abandoned", "inDoubt"}
    BY <2>2, EndGoesOn
  <2>3. CASE pc[r] \in {"begun", "checked", "categorised", "locked"}
    <3>1. op[r].kind \in SingleStatement \cup
                {"createProduct", "decreaseStock", "deleteSupplier"}
      BY <1>1, Operands
    <3>2. InPlace(r)
      BY DEF AllInPlace
    <3>3. CASE op[r].kind = "createProduct"
      <4>1. /\ pc[r] = "checked" => Lockable(r, op[r].category, "update")
            /\ pc[r] = "categorised" => Lockable(r, op[r].supplier, "share")
        BY <3>3, Free DEF Awaited
      <4> QED
        BY <1>1, <2>3, <3>2, <3>3, <4>1, CreationGoesOn DEF InPlace
    <3>4. CASE op[r].kind = "decreaseStock"
      <4>1. pc[r] \in {"begun", "locked"}
        BY <2>3, <3>2, <3>4 DEF InPlace
      <4>2. Lockable(r, op[r].product, "update")
        BY <3>4, <4>1, Free DEF Awaited
      <4> QED
        BY <1>1, <3>4, <4>1, <4>2, DecreaseGoesOn
    <3>5. CASE op[r].kind = "deleteSupplier"
      <4>1. pc[r] \in {"begun", "locked"}
        BY <2>3, <3>2, <3>5 DEF InPlace
      <4>2. pc[r] = "begun" => Lockable(r, op[r].supplier, "update")
        BY <3>5, Free DEF Awaited
      <4>3. pc[r] = "locked" /\ ProductsOf(op[r].supplier) # {} =>
                \E p \in ProductsOf(op[r].supplier) : Lockable(r, p, "share")
        <5> SUFFICES ASSUME pc[r] = "locked", ProductsOf(op[r].supplier) # {}
                     PROVE  \E p \in ProductsOf(op[r].supplier) : Lockable(r, p, "share")
          OBVIOUS
        <5>1. Awaited(r) = ProductsOf(op[r].supplier) \X {"share"}
          BY <3>5 DEF Awaited
        <5>2. Awaited(r) # {}
          <6>1. PICK p \in ProductsOf(op[r].supplier) : TRUE
            OBVIOUS
          <6>2. <<p, "share">> \in Awaited(r)
            BY <5>1
          <6> QED
            BY <6>2
        <5>3. PICK lock \in Awaited(r) : Lockable(r, lock[1], lock[2])
          BY <5>2 DEF Stopped
        <5>4. lock[1] \in ProductsOf(op[r].supplier) /\ lock[2] = "share"
          BY <5>1
        <5> QED
          BY <5>3, <5>4
      <4> QED
        BY <1>1, <3>5, <4>1, <4>2, <4>3, DeletionGoesOn
    <3>6. CASE op[r].kind \in SingleStatement
      <4>1. pc[r] = "begun"
        BY <2>3, <3>2, <3>6 DEF InPlace, SingleStatement
      <4>2. Unobstructed(r)
        BY <3>6, <4>1, Free DEF Awaited, Unobstructed, SingleStatement
      <4> QED
        BY <3>6, <4>1, <4>2, SingleGoesOn
    <3> QED
      BY <3>1, <3>3, <3>4, <3>5, <3>6
  <2> QED
    BY <1>1, <2>1, <2>2, <2>3 DEF Stages, Ended
<1>3. PICK to : pc' = [pc EXCEPT ![r] = to] /\ Left(to) < Left(pc[r])
  BY <1>1, <1>2, Forward
<1>4. pc'[r] # pc[r]
  BY <1>1, <1>3, LeftIsNat DEF TypeOK
<1> QED
  BY <1>2, <1>4

(* At any time, unless all is done, somebody has every lock within reach   *)
(* that it may come to need, and is not stopped: with OthersGoOn, it can   *)
(* go on.                                                                  *)
THEOREM SomebodyGoesOn ==
    Spec => [](Finished = Requests
                \/ \E r \in Requests \ Finished : Unhindered(r) /\ ~Stopped(r, Awaited(r)))
<1>1. NoDeadlock =>
        \/ Finished = Requests
        \/ \E r \in Requests \ Finished : Unhindered(r) /\ ~Stopped(r, Awaited(r))
  <2> SUFFICES ASSUME NoDeadlock, Finished # Requests
               PROVE  \E r \in Requests \ Finished :
                            Unhindered(r) /\ ~Stopped(r, Awaited(r))
    OBVIOUS
  <2> DEFINE S == Requests \ Finished
  <2>1. S # {} /\ S \cup Finished = Requests
    BY DEF Finished
  <2>2. \E r \in S : ~WaitsOn(r, Awaited(r), S \cup Finished)
    BY <2>1 DEF NoDeadlock
  <2> QED
    BY <2>1, <2>2, Waiting DEF Unhindered
<1> QED
  BY <1>1, NobodyDeadlocks, PTL

(* Requests are never retried and their steps run out: in a behaviour of   *)
(* finitely many requests all but finitely many steps stutter.             *)
StepsRunOut == [][Onward]_vars

(* Whatever fails and whoever gives up, each step brings one of the        *)
(* requests closer to its end and none further from it.                    *)
THEOREM RunsOut == ASSUME IsFiniteSet(Requests) PROVE Spec => StepsRunOut
<1>1. ASSUME TypeOK, NEW r \in Requests,
             Begin(r) \/ Statement(r) \/ GiveUp(r) \/ ServerRollback(r) \/ ServerCommit(r)
      PROVE  Onward
  BY <1>1, Forward, OneStepLess DEF TypeOK
<1>2. TypeOK /\ [Next]_vars => [Onward]_vars
  BY <1>1 DEF Next
<1> QED
  BY <1>2, TypeCorrect, PTL DEF Spec, StepsRunOut

=============================================================================
