------------------------------ MODULE Handlers ------------------------------
(***************************************************************************)
(* The status and the error code with which the HTTP handlers answer, by   *)
(* the result of their service: "ok", "error", the name of one of the      *)
(* services' sentinel errors, or "invalid" for a request that the handler  *)
(* turns down before it calls its service.                                 *)
(* (api-service/internal/handlers/*.go)                                    *)
(***************************************************************************)
EXTENDS Integers

NoCode == "none"

Reply(status, code) == [status |-> status, code |-> code]

(* The codes of errorResponse, and none for a reply that is no error.      *)
Codes ==
    {NoCode, "INVALID_REQUEST", "VALIDATION_ERROR", "INTERNAL_ERROR", "NOT_FOUND",
     "SUPPLIER_NOT_FOUND", "PRODUCT_NOT_FOUND", "CONFLICT", "INSUFFICIENT_STOCK",
     "IMAGE_ALREADY_EXISTS", "SUPPLIER_IN_USE", "IDEMPOTENCY_KEY_REUSED"}

(* writeJSON of a resource, writeImage, or a bare WriteHeader.             *)
Success(status) == Reply(status, NoCode)

errorCode(status) ==
    CASE status = 400 -> "INVALID_REQUEST"
      [] status = 404 -> "NOT_FOUND"
      [] status = 409 -> "CONFLICT"
      [] OTHER -> "INTERNAL_ERROR"

writeError(status) == Reply(status, errorCode(status))

(* The shape of every handler: parse, call the service, errors.Is for each *)
(* refusal the handler knows, 500 for any other error.                     *)
Answer(result, success, refusals) ==
    CASE result = "ok" -> Success(success)
      [] result = "invalid" -> writeError(400)
      [] result \in DOMAIN refusals -> refusals[result]
      [] OTHER -> writeError(500)

NoRefusals == <<>>

-----------------------------------------------------------------------------
(* productHandler                                                          *)

createProduct(result) ==
    Answer(result, 201, [supplierNotFound |-> Reply(404, "SUPPLIER_NOT_FOUND")])

getAvailable(result) == Answer(result, 200, NoRefusals)

getProduct(result) == Answer(result, 200, [productNotFound |-> writeError(404)])

deleteProduct(result) == Answer(result, 204, NoRefusals)

(* Mutant: every error of the service counts as "no such product".         *)
decreaseStockHidingErrors(result) ==
    Answer(result, 200,
           [productNotFound |-> writeError(404), error |-> writeError(404),
            insufficient |-> Reply(409, "INSUFFICIENT_STOCK")])

decreaseStock(result) ==
    Answer(result, 200,
           [productNotFound |-> writeError(404),
            insufficient |-> Reply(409, "INSUFFICIENT_STOCK")])

-----------------------------------------------------------------------------
(* imageHandler                                                            *)

createImage(result) ==
    Answer(result, 201,
           [productNotFound |-> Reply(404, "PRODUCT_NOT_FOUND"),
            imageExists |-> Reply(409, "IMAGE_ALREADY_EXISTS")])

getForProduct(result) == Answer(result, 200, [imageNotFound |-> writeError(404)])

getImage(result) == Answer(result, 200, [imageNotFound |-> writeError(404)])

replaceImage(result) == Answer(result, 204, [imageNotFound |-> writeError(404)])

deleteImage(result) == Answer(result, 204, NoRefusals)

-----------------------------------------------------------------------------
(* supplierHandler                                                         *)

createSupplier(result) == Answer(result, 201, NoRefusals)

getSuppliers(result) == Answer(result, 200, NoRefusals)

getSupplier(result) == Answer(result, 200, [notFound |-> writeError(404)])

deleteSupplier(result) ==
    Answer(result, 204, [inUse |-> Reply(409, "SUPPLIER_IN_USE")])

getSupplierAddress(result) == Answer(result, 200, [notFound |-> writeError(404)])

updateSupplierAddress(result) == Answer(result, 200, [notFound |-> writeError(404)])

-----------------------------------------------------------------------------
(* clientHandler                                                           *)

createClient(result) == Answer(result, 201, NoRefusals)

getClients(result) == Answer(result, 200, NoRefusals)

deleteClient(result) == Answer(result, 204, NoRefusals)

getClientAddress(result) == Answer(result, 200, [notFound |-> writeError(404)])

(* Mutant: every error of the service counts as "no such client".          *)
updateClientAddressHidingErrors(result) ==
    Answer(result, 200, [notFound |-> writeError(404), error |-> writeError(404)])

updateClientAddress(result) == Answer(result, 200, [notFound |-> writeError(404)])

-----------------------------------------------------------------------------
(* What a status says.                                                     *)

Succeeded(reply) == reply.status \in 200..299

Refused(reply) == reply.status \in 400..499

Failed(reply) == reply.status \in 500..599

=============================================================================
