-------------------------------- MODULE Api --------------------------------
(***************************************************************************)
(* The service as its clients see it: the router, the idempotency layer    *)
(* around the handlers it wraps (Durability), the handlers (Handlers), and *)
(* the products and suppliers behind them, whose requests are carried out  *)
(* at once and alone or left in doubt (Shop, which Catalog implements).    *)
(*                                                                         *)
(* A fingerprint is a hash of method, URI and body, so that it stands for  *)
(* the operation that a request asks for.                                  *)
(* (api-service/internal/handlers/router.go, product.go, image.go;         *)
(* api-service/internal/idempotency/idempotency.go: Require)               *)
(***************************************************************************)
EXTENDS Durability

CONSTANTS
    SeedSuppliers,      \* suppliers at the start
    SeedProducts,       \* products at the start, by id, or None
    SeedImages          \* images at the start, by id, or None

VARIABLES
    suppliers, products, images,    \* the tables
    outcome,    \* outcome[p]: what the service told the handler, or None
    shown,      \* shown[p]: the rows it handed over
    applied,    \* the requests that have taken effect (history variable)
    written     \* written[p]: the reply that p's handler wrote, or None

H == INSTANCE Handlers

Reply == [status: 100..599, code: H!Codes]

(* The sentinel errors of the services.                                    *)
Reasons ==
    {"supplierNotFound", "productNotFound", "insufficient", "inUse", "imageExists",
     "imageNotFound"}

asked == [p \in Requests |-> call[p].hash]

Goods == INSTANCE Shop WITH op <- asked, Ops <- Fingerprints

tables == <<suppliers, products, images, outcome, shown, applied>>
apiVars == <<durableVars, tables, written>>

ASSUME ApiAssumption == None \notin Reply \cup {"ok", "error"} \cup Reasons

ApiInit ==
    /\ DurableInit
    /\ Goods!Init
    /\ written = [p \in Requests |-> None]

-----------------------------------------------------------------------------
(* newRouter: the routes of products, images and suppliers.                *)

(* Mutant: the route of a decrease is registered without the layer.        *)
CreatesIdempotent == {"createProduct"}

(* The routes that go through idempotent(...).                             *)
Idempotent == {"createProduct", "decreaseStock"}

Wrapped(p) == call[p].hash.kind \in Idempotent

Kinds ==
    {"createProduct", "listProducts", "getProduct", "deleteProduct", "decreaseStock",
     "createImage", "getProductImage", "getImage", "replaceImage", "deleteImage",
     "deleteSupplier"}

ASSUME KindsAssumption == \A o \in Fingerprints : o.kind \in Kinds

(* The handler a route leads to.                                           *)
Route(kind, result) ==
    CASE kind = "createProduct" -> H!createProduct(result)
      [] kind = "listProducts" -> H!getAvailable(result)
      [] kind = "getProduct" -> H!getProduct(result)
      [] kind = "deleteProduct" -> H!deleteProduct(result)
      [] kind = "decreaseStock" -> H!decreaseStock(result)
      [] kind = "createImage" -> H!createImage(result)
      [] kind = "getProductImage" -> H!getForProduct(result)
      [] kind = "getImage" -> H!getImage(result)
      [] kind = "replaceImage" -> H!replaceImage(result)
      [] kind = "deleteImage" -> H!deleteImage(result)
      [] kind = "deleteSupplier" -> H!deleteSupplier(result)

(* parseProductID, parseImageID: the id in the path is no UUID; decodeJSON *)
(* and the checks of the payload.                                          *)
Invalid(o) ==
    \/ "product" \in DOMAIN o /\ o.product \notin DOMAIN SeedProducts
    \/ "image" \in DOMAIN o /\ o.image \notin DOMAIN SeedImages
    \/ o.kind = "decreaseStock" /\ o.quantity <= 0
    \/ o.kind = "createProduct" /\ o.quantity < 0

(* The handler of p parses the request, calls its service and writes its   *)
(* reply.                                                                  *)
Handle(p) ==
    \/ /\ Invalid(asked[p])
       /\ written' = [written EXCEPT ![p] = Route(asked[p].kind, "invalid")]
       /\ UNCHANGED tables
    \/ /\ ~Invalid(asked[p])
       /\ Goods!Serve(p) \/ Goods!Refuse(p) \/ Goods!Fail(p)
       /\ written' = [written EXCEPT ![p] = Route(asked[p].kind, outcome'[p])]

-----------------------------------------------------------------------------
(* Requests of the wrapped routes.                                         *)

Status(reply) ==
    IF H!Succeeded(reply) THEN "ok" ELSE IF H!Refused(reply) THEN "refused" ELSE "failed"

(* next(buffer, r).                                                        *)
HandleWrapped(p) ==
    /\ UNCHANGED <<redis, call, promise, disk, lapsed>>
    /\ Goto(p, "running", "completing")
    /\ Handle(p)
    /\ resp' = [resp EXCEPT ![p] = [by |-> p, status |-> Status(written'[p])]]
    /\ effects' = IF p \in applied' THEN effects \cup {p} ELSE effects

(* The request ends in its handler, which may have sent its COMMIT.        *)
CutWrapped(p) ==
    /\ pc[p] = "running"
    /\ Die(p)
    /\ IF Invalid(asked[p]) THEN UNCHANGED tables ELSE Goods!Fail(p)
    /\ UNCHANGED <<disk, lapsed, written>>

(* Everything else that the layer does for p.                              *)
Layered(p) ==
    /\ \/ RejectRequest(p) \/ Begin(p) \/ BeginFails(p)
       \/ Claim(p) \/ ClaimFails(p) \/ LateClaim(p) \/ ClaimReplyLost(p)
       \/ Poll(p) \/ WaitCancelled(p)
       \/ Finish(p) \/ CompleteFails(p) \/ LateComplete(p) \/ CompleteReplyLost(p)
       \/ pc[p] # "running" /\ Die(p)
    /\ UNCHANGED <<disk, lapsed, tables, written>>

(* Requests of the other routes.                                           *)
HandleDirectly(p) ==
    /\ ~Wrapped(p)
    /\ written[p] = None
    /\ UNCHANGED durableVars
    /\ Handle(p)

(* What the caller was told was an error takes effect after all.           *)
TakeEffect(p) ==
    /\ UNCHANGED <<redis, call, pc, resp, promise, disk, lapsed, written>>
    /\ Goods!Belated(p)
    /\ effects' = IF Wrapped(p) THEN effects \cup {p} ELSE effects

(* Redis's clock, its file and its crashes.                                *)
Surroundings ==
    /\ TimePasses \/ Sync \/ Crash
    /\ UNCHANGED <<tables, written>>

ApiNext ==
    \/ \E p \in Requests :
        \/ Wrapped(p) /\ (HandleWrapped(p) \/ CutWrapped(p) \/ Layered(p))
        \/ HandleDirectly(p)
        \/ TakeEffect(p)
    \/ Surroundings

ApiSpec == ApiInit /\ [][ApiNext]_apiVars

-----------------------------------------------------------------------------
(* The reply that the caller of p gets, if there is one.                   *)
Told(p) ==
    IF ~Wrapped(p) THEN written[p]
    ELSE CASE pc[p] = "executed" -> written[p]
           [] pc[p] = "replayed" -> written[resp[p].by]
           [] pc[p] = "conflict" -> H!Reply(409, "IDEMPOTENCY_KEY_REUSED")
           [] pc[p] = "invalid" -> H!Reply(400, "VALIDATION_ERROR")
           [] pc[p] \in {"error"} \cup Pending -> H!Reply(500, "INTERNAL_ERROR")
           [] OTHER -> None

(* The reply comes from a handler, not from the layer.                     *)
Handled(p) == ~Wrapped(p) \/ pc[p] \in {"executed", "replayed"}

(* The operations whose Idempotency-Key the API document requires.         *)
Keyed(p) == call[p].hash.kind \in {"createProduct", "decreaseStock"}

(* The requests that p cannot be told from: itself, and for operations     *)
(* with a key all those with the same key.                                 *)
Tries(p) ==
    IF Keyed(p) THEN {q \in Requests : Keyed(q) /\ call[q].key = call[p].key} ELSE {p}

(* The request whose handler wrote the reply to p.                         *)
Author(p) == IF Wrapped(p) THEN resp[p].by ELSE p

(* What a client may conclude from a status about all the tries it has     *)
(* made with one key, retries after lost answers included, as long as the  *)
(* key has not lapsed: from a success, that exactly one of them has taken  *)
(* effect, and that one asked for the same; from a handler's refusal, that *)
(* none has or ever will; from a handler's 500, that the service failed    *)
(* and did not refuse.  And a request that the layer turned down with a    *)
(* 4xx has no effect of its own, whatever becomes of the key.              *)
(*                                                                         *)
(* A request without a key is its own only try: what comes of repeating    *)
(* the creation of an image is TriesMakeOneImage of Catalog.  Told is the  *)
(* reply that was written.  That it arrives is not claimed: the server's   *)
(* write timeout ends a connection and not a handler, and is not modelled. *)
StatusSettlesTheKey ==
    \A p \in Requests :
        Told(p) # None =>
            /\ H!Succeeded(Told(p)) =>
                \E q \in Tries(p) :
                    /\ q \in applied /\ call[q] = call[p]
                    /\ call[p].key \in lapsed \/ Tries(p) \cap applied = {q}
            /\ H!Refused(Told(p)) /\ Handled(p) =>
                call[p].key \in lapsed \/ Tries(p) \cap applied = {}
            /\ H!Failed(Told(p)) /\ Handled(p) => outcome[Author(p)] = "error"
            /\ H!Refused(Told(p)) /\ ~Handled(p) => p \notin applied

(* The composition only takes steps of the layer, whatever the handlers    *)
(* do: a reply below 300 is written once the transaction has committed, a  *)
(* 4xx only when it never will, and only a 5xx leaves it open.             *)
ImplementsLayer == DurableSpec

(* The statuses the API document declares for each of the operations,      *)
(* and those it declares for an error of the layer.                        *)
Declared(kind) ==
    CASE kind \in {"createProduct", "createImage"} -> {201, 400, 404, 409, 500}
      [] kind = "listProducts" -> {200, 500}
      [] kind \in {"getProduct", "getProductImage", "getImage"} -> {200, 404, 500}
      [] kind \in {"deleteProduct", "deleteImage"} -> {204, 500}
      [] kind = "decreaseStock" -> {200, 400, 404, 409, 500}
      [] kind = "replaceImage" -> {204, 400, 404, 500}
      [] kind = "deleteSupplier" -> {204, 409, 500}

(* No request is answered with a status that the API document does not     *)
(* declare for its operation.  The code does not keep this.                *)
DeclaredStatuses ==
    \A p \in Requests :
        Told(p) # None => Told(p).status \in Declared(asked[p].kind)

=============================================================================
