----------------------------- MODULE MCCatalog -----------------------------
(***************************************************************************)
(* Instances of Catalog for TLC.                                           *)
(***************************************************************************)
EXTENDS Catalog, TLC

CONSTANTS s1, p1, i1, c1

(* Two in stock, and an image.                                             *)
MCProducts == p1 :> [supplier |-> s1, stock |-> 2]
MCImages == i1 :> p1

Create(n) == [kind |-> "createProduct", supplier |-> s1, category |-> c1, quantity |-> n]
Decrease(p, n) == [kind |-> "decreaseStock", product |-> p, quantity |-> n]
OnSupplier(k) == [kind |-> k, supplier |-> s1]
OnProduct(k, p) == [kind |-> k, product |-> p]
OnImage(k, i) == [kind |-> k, image |-> i]

(* Everything that can be done with one supplier, a product and its image, *)
(* and what can then be done with a product or an image that a request has *)
(* created.                                                                *)
AllOps ==
    {Create(1), OnSupplier("deleteSupplier"), Decrease(p1, 1), Decrease(p1, 2),
     OnProduct("deleteProduct", p1), OnProduct("createImage", p1),
     OnImage("replaceImage", i1), OnImage("deleteImage", i1),
     OnProduct("getProduct", p1), [kind |-> "listProducts"],
     OnProduct("getProductImage", p1), OnImage("getImage", i1)}
    \cup {Decrease(r, 1) : r \in Requests}
    \cup {OnProduct("createImage", r) : r \in Requests}
    \cup {OnImage("deleteImage", r) : r \in Requests}

(* Those that take or wait for locks.                                      *)
LockingOps ==
    {Create(1), OnSupplier("deleteSupplier"), Decrease(p1, 1), Decrease(p1, 2),
     OnProduct("deleteProduct", p1), OnProduct("createImage", p1)}

Symmetry == Permutations(Requests)

=============================================================================
