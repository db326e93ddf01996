------------------------------- MODULE Shop -------------------------------
(***************************************************************************)
(* What the API promises of suppliers, products, their stock and their     *)
(* images: every request is carried out in one step, at once and alone, or *)
(* is refused with the reason that holds at that moment.  A request that   *)
(* is answered with a server error may still take effect, once, later.     *)
(***************************************************************************)
EXTENDS Naturals

CONSTANTS
    Requests,   \* requests; each is also the id of what it creates
    Ops,        \* what a request may ask for
    None,
    SeedSuppliers, SeedProducts, SeedImages

VARIABLES
    suppliers,  \* the suppliers there are
    products,   \* products[p]: its supplier and stock, or None
    images,     \* images[i]: its product and its content, or None
    op,         \* op[r]: what request r asks for
    outcome,    \* outcome[r]: its answer, or None
    shown,      \* shown[r]: the rows its answer has
    applied     \* the requests that have taken effect

data == <<suppliers, products, images>>
vars == <<suppliers, products, images, op, outcome, shown, applied>>

Init ==
    /\ suppliers = SeedSuppliers
    /\ products = SeedProducts
    /\ images = SeedImages
    /\ op \in [Requests -> Ops]
    /\ outcome = [r \in Requests |-> None]
    /\ shown = [r \in Requests |-> {}]
    /\ applied = {}

ProductOf(r) == products[op[r].product]

PicturesOf(p) == {i \in DOMAIN images : images[i] # None /\ images[i].product = p}

Pictured(p) == PicturesOf(p) # {}

Stocked(s) == \E p \in DOMAIN products : products[p] # None /\ products[p].supplier = s

(* The answer request r deserves in the present state.                     *)
Verdict(r) ==
    CASE op[r].kind = "createProduct" ->
            IF op[r].supplier \in suppliers THEN "ok" ELSE "supplierNotFound"
      [] op[r].kind = "decreaseStock" ->
            IF ProductOf(r) = None THEN "productNotFound"
            ELSE IF ProductOf(r).stock < op[r].quantity THEN "insufficient" ELSE "ok"
      [] op[r].kind = "deleteSupplier" ->
            IF op[r].supplier \in suppliers /\ Stocked(op[r].supplier)
            THEN "inUse" ELSE "ok"
      [] op[r].kind = "createImage" ->
            IF Pictured(op[r].product) THEN "imageExists"
            ELSE IF ProductOf(r) = None THEN "productNotFound" ELSE "ok"
      [] op[r].kind \in {"replaceImage", "getImage"} ->
            IF images[op[r].image] = None THEN "imageNotFound" ELSE "ok"
      [] op[r].kind = "getProduct" ->
            IF ProductOf(r) = None THEN "productNotFound" ELSE "ok"
      [] op[r].kind = "getProductImage" ->
            IF Pictured(op[r].product) THEN "ok" ELSE "imageNotFound"
      [] OTHER -> "ok"

CreateProduct(r) ==
    /\ op[r].kind = "createProduct"
    /\ products' = [products EXCEPT ![r] =
                        [supplier |-> op[r].supplier, stock |-> op[r].quantity]]
    /\ UNCHANGED <<suppliers, images>>

DecreaseStock(r) ==
    /\ op[r].kind = "decreaseStock"
    /\ products' = [products EXCEPT ![op[r].product].stock = @ - op[r].quantity]
    /\ UNCHANGED <<suppliers, images>>

DeleteProduct(r) ==
    /\ op[r].kind = "deleteProduct"
    /\ products' = [products EXCEPT ![op[r].product] = None]
    /\ images' = [i \in DOMAIN images |->
                    IF i \in PicturesOf(op[r].product) THEN None ELSE images[i]]
    /\ UNCHANGED suppliers

DeleteSupplier(r) ==
    /\ op[r].kind = "deleteSupplier"
    /\ suppliers' = suppliers \ {op[r].supplier}
    /\ UNCHANGED <<products, images>>

CreateImage(r) ==
    /\ op[r].kind = "createImage"
    /\ images' = [images EXCEPT ![r] = [product |-> op[r].product, content |-> r]]
    /\ UNCHANGED <<suppliers, products>>

ReplaceImage(r) ==
    /\ op[r].kind = "replaceImage"
    /\ images' = [images EXCEPT ![op[r].image] =
                    [product |-> images[op[r].image].product, content |-> r]]
    /\ UNCHANGED <<suppliers, products>>

DeleteImage(r) ==
    /\ op[r].kind = "deleteImage"
    /\ images' = [images EXCEPT ![op[r].image] = None]
    /\ UNCHANGED <<suppliers, products>>

Read(r) ==
    /\ op[r].kind \in {"getProduct", "listProducts", "getProductImage", "getImage"}
    /\ UNCHANGED data

Effect(r) ==
    /\ r \notin applied
    /\ Verdict(r) = "ok"
    /\ applied' = applied \cup {r}
    /\ \/ CreateProduct(r) \/ DecreaseStock(r) \/ DeleteProduct(r)
       \/ DeleteSupplier(r) \/ CreateImage(r) \/ ReplaceImage(r) \/ DeleteImage(r)
       \/ Read(r)

ProductRow(p) == [product |-> p, stock |-> products[p].stock, images |-> PicturesOf(p)]

ImageRows(S) == {[image |-> i, content |-> images[i].content] : i \in S}

(* The rows an answer has: the product after a decrease, the products that *)
(* are in stock, the product or the image that was asked for.              *)
Answer(r) ==
    CASE op[r].kind = "decreaseStock" ->
            {[product |-> op[r].product, stock |-> ProductOf(r).stock - op[r].quantity]}
      [] op[r].kind = "getProduct" -> {ProductRow(op[r].product)}
      [] op[r].kind = "listProducts" ->
            {ProductRow(p) : p \in {q \in DOMAIN products :
                                        products[q] # None /\ products[q].stock > 0}}
      [] op[r].kind = "getProductImage" -> ImageRows(PicturesOf(op[r].product))
      [] op[r].kind = "getImage" -> ImageRows({op[r].image})
      [] OTHER -> {}

(* Request r is carried out and answered.                                  *)
Serve(r) ==
    /\ outcome[r] = None
    /\ Effect(r)
    /\ outcome' = [outcome EXCEPT ![r] = "ok"]
    /\ shown' = [shown EXCEPT ![r] = Answer(r)]
    /\ UNCHANGED op

Refuse(r) ==
    /\ outcome[r] = None
    /\ Verdict(r) # "ok"
    /\ outcome' = [outcome EXCEPT ![r] = Verdict(r)]
    /\ UNCHANGED <<data, op, shown, applied>>

(* Request r is answered with a server error ...                           *)
Fail(r) ==
    /\ outcome[r] = None
    /\ outcome' = [outcome EXCEPT ![r] = "error"]
    /\ UNCHANGED <<data, op, shown, applied>>

(* ... which leaves open whether it is carried out.                        *)
Belated(r) ==
    /\ outcome[r] = "error"
    /\ Effect(r)
    /\ UNCHANGED <<op, outcome, shown>>

Next == \E r \in Requests : Serve(r) \/ Refuse(r) \/ Fail(r) \/ Belated(r)

Spec == Init /\ [][Next]_vars

=============================================================================
