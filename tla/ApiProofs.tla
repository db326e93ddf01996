----------------------------- MODULE ApiProofs -----------------------------
(***************************************************************************)
(* Theorems about Api, for any requests, keys, operations and products:    *)
(* the handlers do what the idempotency layer relies on, and what a status *)
(* tells a client about its tries.  And about Service, in which the same   *)
(* requests go through PostgreSQL statement by statement: it implements    *)
(* Api, so the theorems about Api hold of it, and it charges a key once.   *)
(***************************************************************************)
EXTENDS Service, DurabilityProofs, FiniteSetTheorems

Kind(p) == call[p].hash.kind

(* The reasons for which the service refuses an operation.                 *)
ReasonsOf(kind) ==
    CASE kind = "createProduct" -> {"supplierNotFound"}
      [] kind = "decreaseStock" -> {"productNotFound", "insufficient"}
      [] kind = "deleteSupplier" -> {"inUse"}
      [] kind = "createImage" -> {"imageExists", "productNotFound"}
      [] kind \in {"replaceImage", "getImage", "getProductImage"} -> {"imageNotFound"}
      [] kind = "getProduct" -> {"productNotFound"}
      [] OTHER -> {}

ResultsOf(kind) == {"ok", "error"} \cup ReasonsOf(kind)

(* reply is what a handler should make of a result.                        *)
Truthful(reply, result, reasons) ==
    /\ reply \in Reply
    /\ H!Succeeded(reply) <=> result = "ok"
    /\ H!Refused(reply) <=> result \in {"invalid"} \cup reasons
    /\ H!Failed(reply) <=> result = "error"

(* The chain of errors.Is is truthful if it has a 4xx for every reason.    *)
LEMMA AnswerTrue ==
    ASSUME NEW success \in 200..299, NEW refusals, NEW reasons,
           DOMAIN refusals = reasons,
           \A reason \in reasons :
              refusals[reason] \in Reply /\ refusals[reason].status \in 400..499,
           "ok" \notin reasons, "invalid" \notin reasons, "error" \notin reasons,
           NEW result \in {"ok", "invalid", "error"} \cup reasons
    PROVE  Truthful(H!Answer(result, success, refusals), result, reasons)
<1>. DEFINE reply == H!Answer(result, success, refusals)
<1>1. CASE result = "ok"
  <2>1. reply = H!Reply(success, "none")
    BY <1>1 DEF H!Answer, H!Success, H!NoCode
  <2>2. /\ reply \in Reply
        /\ H!Succeeded(reply) /\ ~H!Refused(reply) /\ ~H!Failed(reply)
    BY <2>1 DEF H!Reply, Reply, H!Codes, H!NoCode,
                H!Succeeded, H!Refused, H!Failed
  <2>. QED
    BY <1>1, <2>2 DEF Truthful
<1>2. CASE result = "invalid"
  <2>1. reply = H!Reply(400, "INVALID_REQUEST")
    BY <1>2 DEF H!Answer, H!writeError, H!errorCode
  <2>2. /\ reply \in Reply
        /\ ~H!Succeeded(reply) /\ H!Refused(reply) /\ ~H!Failed(reply)
    BY <2>1 DEF H!Reply, Reply, H!Codes, H!NoCode,
                H!Succeeded, H!Refused, H!Failed
  <2>. QED
    BY <1>2, <2>2 DEF Truthful
<1>3. CASE result = "error"
  <2>1. reply = H!Reply(500, "INTERNAL_ERROR")
    BY <1>3 DEF H!Answer, H!writeError, H!errorCode
  <2>2. /\ reply \in Reply
        /\ ~H!Succeeded(reply) /\ ~H!Refused(reply) /\ H!Failed(reply)
    BY <2>1 DEF H!Reply, Reply, H!Codes, H!NoCode,
                H!Succeeded, H!Refused, H!Failed
  <2>. QED
    BY <1>3, <2>2 DEF Truthful
<1>4. CASE result \in reasons
  <2>1. reply = refusals[result]
    BY <1>4 DEF H!Answer
  <2>2. reply \in Reply /\ reply.status \in 400..499
    BY <1>4, <2>1
  <2>3. ~H!Succeeded(reply) /\ H!Refused(reply) /\ ~H!Failed(reply)
    <3>. HIDE DEF reply
    <3>1. reply.status \in Int /\ 400 <= reply.status /\ reply.status <= 499
      BY <2>2
    <3>. QED
      BY <3>1 DEF H!Succeeded, H!Refused, H!Failed
  <2>4. result # "ok" /\ result # "error"
    BY <1>4
  <2>. QED
    BY <1>4, <2>2, <2>3, <2>4 DEF Truthful
<1>. QED
  BY <1>1, <1>2, <1>3, <1>4

(* Every handler of the routes is truthful about its own operation.        *)
LEMMA RouteTrue ==
    ASSUME NEW kind \in Kinds, NEW result \in {"invalid"} \cup ResultsOf(kind)
    PROVE  Truthful(Route(kind, result), result, ReasonsOf(kind))
<1>0. H!writeError(404) = H!Reply(404, "NOT_FOUND")
  BY DEF H!writeError, H!errorCode
<1>8. result \in {"ok", "invalid", "error"} \cup ReasonsOf(kind)
  BY DEF ResultsOf
<1>1. CASE kind = "createProduct"
  <2>. DEFINE refusals == [supplierNotFound |-> H!Reply(404, "SUPPLIER_NOT_FOUND")]
  <2>1. ReasonsOf(kind) = {"supplierNotFound"}
    BY <1>1 DEF ReasonsOf
  <2>2. Route(kind, result) = H!Answer(result, 201, refusals)
    BY <1>1 DEF Route, H!createProduct
  <2>3. \A reason \in ReasonsOf(kind) :
          refusals[reason] \in Reply /\ refusals[reason].status \in 400..499
    BY <1>0, <2>1 DEF H!Reply, Reply, H!Codes, H!NoCode
  <2>4. DOMAIN refusals = ReasonsOf(kind)
    BY <2>1
  <2>5. \A success \in 200..299 :
          Truthful(H!Answer(result, success, refusals), result, ReasonsOf(kind))
    <3>. HIDE DEF refusals
    <3>. QED
      BY <1>8, <2>1, <2>3, <2>4, AnswerTrue
  <2>. HIDE DEF refusals
  <2>. QED
    BY <2>2, <2>5
<1>2. CASE kind \in {"listProducts", "deleteProduct", "deleteImage"}
  <2>. DEFINE refusals == <<>>
  <2>1. ReasonsOf(kind) = {}
    BY <1>2 DEF ReasonsOf
  <2>2. \/ Route(kind, result) = H!Answer(result, 200, refusals)
        \/ Route(kind, result) = H!Answer(result, 204, refusals)
    <3>1. CASE kind = "listProducts"
      BY <3>1 DEF Route, H!getAvailable, H!NoRefusals
    <3>2. CASE kind = "deleteProduct"
      BY <3>2 DEF Route, H!deleteProduct, H!NoRefusals
    <3>3. CASE kind = "deleteImage"
      BY <3>3 DEF Route, H!deleteImage, H!NoRefusals
    <3>. QED
      BY <1>2, <3>1, <3>2, <3>3
  <2>3. \A reason \in ReasonsOf(kind) :
          refusals[reason] \in Reply /\ refusals[reason].status \in 400..499
    BY <2>1
  <2>4. DOMAIN refusals = ReasonsOf(kind)
    BY <2>1
  <2>5. \A success \in 200..299 :
          Truthful(H!Answer(result, success, refusals), result, ReasonsOf(kind))
    <3>. HIDE DEF refusals
    <3>. QED
      BY <1>8, <2>1, <2>3, <2>4, AnswerTrue
  <2>. HIDE DEF refusals
  <2>. QED
    BY <2>2, <2>5
<1>3. CASE kind = "getProduct"
  <2>. DEFINE refusals == [productNotFound |-> H!writeError(404)]
  <2>1. ReasonsOf(kind) = {"productNotFound"}
    BY <1>3 DEF ReasonsOf
  <2>2. Route(kind, result) = H!Answer(result, 200, refusals)
    BY <1>3 DEF Route, H!getProduct
  <2>3. \A reason \in ReasonsOf(kind) :
          refusals[reason] \in Reply /\ refusals[reason].status \in 400..499
    BY <1>0, <2>1 DEF H!Reply, Reply, H!Codes, H!NoCode
  <2>4. DOMAIN refusals = ReasonsOf(kind)
    BY <2>1
  <2>5. \A success \in 200..299 :
          Truthful(H!Answer(result, success, refusals), result, ReasonsOf(kind))
    <3>. HIDE DEF refusals
    <3>. QED
      BY <1>8, <2>1, <2>3, <2>4, AnswerTrue
  <2>. HIDE DEF refusals
  <2>. QED
    BY <2>2, <2>5
<1>4. CASE kind = "decreaseStock"
  <2>. DEFINE refusals == [productNotFound |-> H!writeError(404), insufficient |-> H!Reply(409, "INSUFFICIENT_STOCK")]
  <2>1. ReasonsOf(kind) = {"productNotFound", "insufficient"}
    BY <1>4 DEF ReasonsOf
  <2>2. Route(kind, result) = H!Answer(result, 200, refusals)
    BY <1>4 DEF Route, H!decreaseStock
  <2>3. \A reason \in ReasonsOf(kind) :
          refusals[reason] \in Reply /\ refusals[reason].status \in 400..499
    BY <1>0, <2>1 DEF H!Reply, Reply, H!Codes, H!NoCode
  <2>4. DOMAIN refusals = ReasonsOf(kind)
    BY <2>1
  <2>5. \A success \in 200..299 :
          Truthful(H!Answer(result, success, refusals), result, ReasonsOf(kind))
    <3>. HIDE DEF refusals
    <3>. QED
      BY <1>8, <2>1, <2>3, <2>4, AnswerTrue
  <2>. HIDE DEF refusals
  <2>. QED
    BY <2>2, <2>5
<1>5. CASE kind = "createImage"
  <2>. DEFINE refusals == [productNotFound |-> H!Reply(404, "PRODUCT_NOT_FOUND"), imageExists |-> H!Reply(409, "IMAGE_ALREADY_EXISTS")]
  <2>1. ReasonsOf(kind) = {"productNotFound", "imageExists"}
    BY <1>5 DEF ReasonsOf
  <2>2. Route(kind, result) = H!Answer(result, 201, refusals)
    BY <1>5 DEF Route, H!createImage
  <2>3. \A reason \in ReasonsOf(kind) :
          refusals[reason] \in Reply /\ refusals[reason].status \in 400..499
    BY <1>0, <2>1 DEF H!Reply, Reply, H!Codes, H!NoCode
  <2>4. DOMAIN refusals = ReasonsOf(kind)
    BY <2>1
  <2>5. \A success \in 200..299 :
          Truthful(H!Answer(result, success, refusals), result, ReasonsOf(kind))
    <3>. HIDE DEF refusals
    <3>. QED
      BY <1>8, <2>1, <2>3, <2>4, AnswerTrue
  <2>. HIDE DEF refusals
  <2>. QED
    BY <2>2, <2>5
<1>6. CASE kind \in {"getProductImage", "getImage", "replaceImage"}
  <2>. DEFINE refusals == [imageNotFound |-> H!writeError(404)]
  <2>1. ReasonsOf(kind) = {"imageNotFound"}
    BY <1>6 DEF ReasonsOf
  <2>2. \/ Route(kind, result) = H!Answer(result, 200, refusals)
        \/ Route(kind, result) = H!Answer(result, 204, refusals)
    <3>1. CASE kind = "getProductImage"
      BY <3>1 DEF Route, H!getForProduct
    <3>2. CASE kind = "getImage"
      BY <3>2 DEF Route, H!getImage
    <3>3. CASE kind = "replaceImage"
      BY <3>3 DEF Route, H!replaceImage
    <3>. QED
      BY <1>6, <3>1, <3>2, <3>3
  <2>3. \A reason \in ReasonsOf(kind) :
          refusals[reason] \in Reply /\ refusals[reason].status \in 400..499
    BY <1>0, <2>1 DEF H!Reply, Reply, H!Codes, H!NoCode
  <2>4. DOMAIN refusals = ReasonsOf(kind)
    BY <2>1
  <2>5. \A success \in 200..299 :
          Truthful(H!Answer(result, success, refusals), result, ReasonsOf(kind))
    <3>. HIDE DEF refusals
    <3>. QED
      BY <1>8, <2>1, <2>3, <2>4, AnswerTrue
  <2>. HIDE DEF refusals
  <2>. QED
    BY <2>2, <2>5
<1>7. CASE kind = "deleteSupplier"
  <2>. DEFINE refusals == [inUse |-> H!Reply(409, "SUPPLIER_IN_USE")]
  <2>1. ReasonsOf(kind) = {"inUse"}
    BY <1>7 DEF ReasonsOf
  <2>2. Route(kind, result) = H!Answer(result, 204, refusals)
    BY <1>7 DEF Route, H!deleteSupplier
  <2>3. \A reason \in ReasonsOf(kind) :
          refusals[reason] \in Reply /\ refusals[reason].status \in 400..499
    BY <1>0, <2>1 DEF H!Reply, Reply, H!Codes, H!NoCode
  <2>4. DOMAIN refusals = ReasonsOf(kind)
    BY <2>1
  <2>5. \A success \in 200..299 :
          Truthful(H!Answer(result, success, refusals), result, ReasonsOf(kind))
    <3>. HIDE DEF refusals
    <3>. QED
      BY <1>8, <2>1, <2>3, <2>4, AnswerTrue
  <2>. HIDE DEF refusals
  <2>. QED
    BY <2>2, <2>5
<1>. QED
  BY <1>1, <1>2, <1>3, <1>4, <1>5, <1>6, <1>7 DEF Kinds

-----------------------------------------------------------------------------
(* What the service does for a request.                                    *)

(* The service refuses an operation only for one of its reasons.           *)
LEMMA VerdictType ==
    ASSUME NEW p \in Requests
    PROVE  Goods!Verdict(p) \in {"ok"} \cup ReasonsOf(Kind(p))
<1>1. asked[p].kind = Kind(p)
  BY DEF asked, Kind
<1>2. CASE Kind(p) = "createProduct"
  BY <1>1, <1>2 DEF Goods!Verdict, ReasonsOf
<1>3. CASE Kind(p) = "decreaseStock"
  BY <1>1, <1>3 DEF Goods!Verdict, ReasonsOf
<1>4. CASE Kind(p) = "deleteSupplier"
  BY <1>1, <1>4 DEF Goods!Verdict, ReasonsOf
<1>5. CASE Kind(p) = "createImage"
  BY <1>1, <1>5 DEF Goods!Verdict, ReasonsOf
<1>6. CASE Kind(p) \in {"replaceImage", "getImage"}
  BY <1>1, <1>6 DEF Goods!Verdict, ReasonsOf
<1>7. CASE Kind(p) = "getProduct"
  BY <1>1, <1>7 DEF Goods!Verdict, ReasonsOf
<1>8. CASE Kind(p) = "getProductImage"
  BY <1>1, <1>8 DEF Goods!Verdict, ReasonsOf
<1>9. CASE Kind(p) \notin {"createProduct", "decreaseStock", "deleteSupplier", "createImage",
                          "replaceImage", "getImage", "getProduct", "getProductImage"}
  BY <1>1, <1>9 DEF Goods!Verdict
<1>. QED
  BY <1>2, <1>3, <1>4, <1>5, <1>6, <1>7, <1>8, <1>9

(* p's handler is told result; the request has taken effect exactly if the *)
(* result says so.                                                         *)
Carried(p, result) ==
    /\ outcome[p] = None
    /\ outcome' = [outcome EXCEPT ![p] = result]
    /\ applied' = IF result = "ok" THEN applied \cup {p} ELSE applied

(* A request that is served, refused or failed by the service.             *)
LEMMA ServiceStep ==
    ASSUME NEW p \in Requests, Goods!Serve(p) \/ Goods!Refuse(p) \/ Goods!Fail(p)
    PROVE  \E result \in ResultsOf(Kind(p)) : Carried(p, result)
<1>1. CASE Goods!Serve(p)
  BY <1>1 DEF Goods!Serve, Goods!Effect, Carried, ResultsOf
<1>2. CASE Goods!Refuse(p)
  <2>1. Goods!Verdict(p) \in ResultsOf(Kind(p)) /\ Goods!Verdict(p) # "ok"
    BY <1>2, VerdictType DEF Goods!Refuse, ResultsOf
  <2>. QED
    BY <1>2, <2>1 DEF Goods!Refuse, Carried
<1>3. CASE Goods!Fail(p)
  <2>1. "error" \in ResultsOf(Kind(p))
    BY DEF ResultsOf
  <2>2. Carried(p, "error")
    BY <1>3 DEF Goods!Fail, Carried
  <2>. QED
    BY <2>1, <2>2
<1>. QED
  BY <1>1, <1>2, <1>3

(* A handler calls its service unless the request is invalid, and writes   *)
(* what its route makes of the result.                                     *)
LEMMA HandleStep ==
    ASSUME NEW p \in Requests, Handle(p), p \in DOMAIN outcome
    PROVE  \E result \in {"invalid"} \cup ResultsOf(Kind(p)) :
              /\ written' = [written EXCEPT ![p] = Route(Kind(p), result)]
              /\ result = "invalid" => UNCHANGED <<outcome, applied>>
              /\ result # "invalid" => Carried(p, result)
<1>1. asked[p].kind = Kind(p)
  BY DEF asked, Kind
<1>2. CASE Invalid(asked[p])
  BY <1>1, <1>2 DEF Handle, tables
<1>3. CASE ~Invalid(asked[p])
  <2>1. PICK result \in ResultsOf(Kind(p)) : Carried(p, result)
    BY <1>3, ServiceStep DEF Handle
  <2>2. result # "invalid"
    BY DEF ResultsOf, ReasonsOf
  <2>3. outcome'[p] = result
    BY <2>1 DEF Carried
  <2>4. written' = [written EXCEPT ![p] = Route(Kind(p), result)]
    BY <1>1, <1>3, <2>3 DEF Handle
  <2>. QED
    BY <2>1, <2>2, <2>4
<1>. QED
  BY <1>2, <1>3

-----------------------------------------------------------------------------
(* The inductive invariant.                                                *)

ApiTypeOK ==
    /\ outcome \in [Requests -> {None, "ok", "error"} \cup Reasons]
    /\ applied \in SUBSET Requests
    /\ written \in [Requests -> Reply \cup {None}]

(* What the service said of a request is what it did, errors aside.        *)
ServiceTrue(p) ==
    /\ outcome[p] # None => outcome[p] \in ResultsOf(Kind(p))
    /\ outcome[p] = "ok" => p \in applied
    /\ p \in applied => outcome[p] \in {"ok", "error"}

(* The result that p's handler answered.                                   *)
ResultOf(p) == IF outcome[p] = None THEN "invalid" ELSE outcome[p]

(* What a handler wrote is what the service said; only a request that was  *)
(* cut off in its handler has been carried out and nothing written.        *)
HandlerTrue(p) ==
    /\ written[p] # None => Truthful(written[p], ResultOf(p), ReasonsOf(Kind(p)))
    /\ outcome[p] # None /\ written[p] = None =>
            Wrapped(p) /\ pc[p] = "cut" /\ outcome[p] = "error"

(* The layer's buffer has what the handler wrote, and no request has both  *)
(* a handler of its own and another's answer.                              *)
LayerTrue(p) ==
    /\ ~Wrapped(p) => resp[p] = None
    /\ Wrapped(p) /\ written[p] # None =>
            resp[p] # None /\ resp[p].by = p /\ resp[p].status = Status(written[p])
    /\ resp[p] # None /\ resp[p].by = p => written[p] # None
    /\ pc[p] \in {"conflict", "invalid"} => resp[p] = None

EffectsTrue == effects = {p \in applied : Wrapped(p)}

ApiInv ==
    /\ DurableInv
    /\ ApiTypeOK
    /\ EffectsTrue
    /\ \A p \in Requests : ServiceTrue(p) /\ HandlerTrue(p) /\ LayerTrue(p)

(* At the start nothing has been asked of anybody.                         *)
LEMMA ApiInitInv == ApiInit => ApiInv
<1>. SUFFICES ASSUME ApiInit PROVE ApiInv
  OBVIOUS
<1>1. DurableInv
  BY DurableInitInv DEF ApiInit
<1>2. /\ \A p \in Requests :
            outcome[p] = None /\ written[p] = None /\ resp[p] = None /\ pc[p] = "arrived"
      /\ applied = {} /\ effects = {}
  BY DEF ApiInit, Goods!Init, DurableInit, Init
<1>3. ApiTypeOK
  BY DEF ApiInit, Goods!Init, ApiTypeOK
<1>4. EffectsTrue
  BY <1>2 DEF EffectsTrue
<1>5. ASSUME NEW p \in Requests PROVE ServiceTrue(p) /\ HandlerTrue(p) /\ LayerTrue(p)
  BY <1>2, ApiAssumption DEF ServiceTrue, HandlerTrue, LayerTrue
<1>. QED
  BY <1>1, <1>3, <1>4, <1>5 DEF ApiInv

(* The kind of a request is one the router knows.                          *)
LEMMA KindType ==
    ASSUME TypeOK, NEW p \in Requests
    PROVE  Kind(p) \in Kinds
BY HeldType, KindsAssumption DEF Kind

(* The reasons of an operation are sentinel errors.                        *)
LEMMA ReasonsType ==
    ASSUME NEW kind \in Kinds
    PROVE  ReasonsOf(kind) \subseteq Reasons
<1>1. CASE kind = "createProduct"
  BY <1>1 DEF ReasonsOf, Reasons
<1>2. CASE kind = "decreaseStock"
  BY <1>2 DEF ReasonsOf, Reasons
<1>3. CASE kind = "deleteSupplier"
  BY <1>3 DEF ReasonsOf, Reasons
<1>4. CASE kind = "createImage"
  BY <1>4 DEF ReasonsOf, Reasons
<1>5. CASE kind \in {"replaceImage", "getImage", "getProductImage"}
  BY <1>5 DEF ReasonsOf, Reasons
<1>6. CASE kind = "getProduct"
  BY <1>6 DEF ReasonsOf, Reasons
<1>7. CASE kind \in {"listProducts", "deleteProduct", "deleteImage"}
  BY <1>7 DEF ReasonsOf
<1>. QED
  BY <1>1, <1>2, <1>3, <1>4, <1>5, <1>6, <1>7 DEF Kinds

(* The statuses tell the three kinds of results apart.                     *)
LEMMA StatusTrue ==
    ASSUME NEW reply, NEW result, NEW reasons, Truthful(reply, result, reasons)
    PROVE  /\ Status(reply) \in Statuses
           /\ Status(reply) = "ok" <=> result = "ok"
           /\ Status(reply) = "refused" => result \in {"invalid"} \cup reasons
           /\ result = "error" => Status(reply) = "failed"
<1>1. H!Succeeded(reply) => ~H!Refused(reply) /\ ~H!Failed(reply)
  BY DEF Truthful, Reply, H!Succeeded, H!Refused, H!Failed
<1>2. H!Refused(reply) => ~H!Failed(reply)
  BY DEF Truthful, Reply, H!Succeeded, H!Refused, H!Failed
<1>. QED
  BY <1>1, <1>2 DEF Truthful, Status, Statuses

(* A handler has not been here before.                                     *)
Idle(p) == written[p] = None /\ outcome[p] = None /\ p \notin applied

(* A request that is answered at once has effect only if it is served.     *)
LEMMA OnlyServedApplies ==
    ASSUME ApiTypeOK, NEW p \in Requests, Idle(p), Handle(p), p \in applied'
    PROVE  outcome'[p] # "error"
<1>1. PICK result \in {"invalid"} \cup ResultsOf(Kind(p)) :
              /\ result = "invalid" => UNCHANGED <<outcome, applied>>
              /\ result # "invalid" => Carried(p, result)
  BY HandleStep DEF ApiTypeOK
<1>2. CASE result = "invalid"
  BY <1>1, <1>2 DEF Idle
<1>3. CASE result # "invalid"
  BY <1>1, <1>3 DEF Idle, Carried, ApiTypeOK
<1>. QED
  BY <1>2, <1>3

(* A handler leaves its own request with a true reply, and all others      *)
(* alone.                                                                  *)
LEMMA HandleTrue ==
    ASSUME ApiInv, NEW p \in Requests, Idle(p), Handle(p), call' = call
    PROVE  /\ ApiTypeOK'
           /\ ServiceTrue(p)' /\ HandlerTrue(p)' /\ written'[p] # None
           /\ \A q \in Requests :
                q # p => /\ outcome'[q] = outcome[q]
                         /\ written'[q] = written[q]
                         /\ q \in applied' <=> q \in applied
<1>1. TypeOK /\ ApiTypeOK
  BY DEF ApiInv, DurableInv, Inv
<1>2. PICK result \in {"invalid"} \cup ResultsOf(Kind(p)) :
              /\ written' = [written EXCEPT ![p] = Route(Kind(p), result)]
              /\ result = "invalid" => UNCHANGED <<outcome, applied>>
              /\ result # "invalid" => Carried(p, result)
  BY <1>1, HandleStep DEF ApiTypeOK
<1>3. Kind(p) \in Kinds
  BY <1>1, KindType
<1>4. ReasonsOf(Kind(p)) \subseteq Reasons
  BY <1>3, ReasonsType
<1>5. Truthful(Route(Kind(p), result), result, ReasonsOf(Kind(p)))
  BY <1>2, <1>3, RouteTrue
<1>6. Route(Kind(p), result) \in Reply
  BY <1>5 DEF Truthful
<1>7. written'[p] = Route(Kind(p), result) /\ written'[p] # None
  BY <1>1, <1>2, <1>6, ApiAssumption DEF ApiTypeOK
<1>8. Kind(p)' = Kind(p)
  BY DEF Kind
<1>9. CASE result = "invalid"
  <2>1. outcome' = outcome /\ applied' = applied /\ outcome'[p] = None
    BY <1>2, <1>9 DEF Idle
  <2>2. ApiTypeOK'
    BY <1>1, <1>2, <1>6, <2>1 DEF ApiTypeOK
  <2>3. ServiceTrue(p)'
    BY <2>1, ApiAssumption DEF ServiceTrue, Idle
  <2>4. HandlerTrue(p)'
    BY <1>5, <1>7, <1>8, <1>9, <2>1 DEF HandlerTrue, ResultOf
  <2>. QED
    BY <1>1, <1>2, <1>7, <2>1, <2>2, <2>3, <2>4 DEF ApiTypeOK
<1>10. CASE result # "invalid"
  <2>1. result \in {"ok", "error"} \cup ReasonsOf(Kind(p))
    BY <1>2, <1>10 DEF ResultsOf
  <2>2. result # None /\ result \in {None, "ok", "error"} \cup Reasons
    BY <1>4, <2>1, ApiAssumption
  <2>3. /\ outcome' = [outcome EXCEPT ![p] = result]
        /\ applied' = IF result = "ok" THEN applied \cup {p} ELSE applied
        /\ outcome'[p] = result
    BY <1>1, <1>2, <1>10 DEF Carried, ApiTypeOK
  <2>4. ApiTypeOK'
    BY <1>1, <1>2, <1>6, <2>2, <2>3 DEF ApiTypeOK
  <2>5. ServiceTrue(p)'
    BY <1>2, <1>8, <1>10, <2>3 DEF ServiceTrue, Idle
  <2>6. HandlerTrue(p)'
    BY <1>5, <1>7, <1>8, <2>2, <2>3 DEF HandlerTrue, ResultOf
  <2>. QED
    BY <1>1, <1>2, <1>7, <2>3, <2>4, <2>5, <2>6 DEF ApiTypeOK
<1>. QED
  BY <1>9, <1>10

(* What is said of a request that a step leaves alone stays true.          *)
LEMMA RequestKept ==
    ASSUME NEW q \in Requests, ServiceTrue(q), HandlerTrue(q), LayerTrue(q),
           call' = call, pc'[q] = pc[q], resp'[q] = resp[q],
           outcome'[q] = outcome[q], written'[q] = written[q],
           q \in applied' <=> q \in applied
    PROVE  ServiceTrue(q)' /\ HandlerTrue(q)' /\ LayerTrue(q)'
<1>1. Kind(q)' = Kind(q) /\ Wrapped(q)' = Wrapped(q)
  BY DEF Kind, Wrapped
<1>. QED
  BY <1>1 DEF ServiceTrue, HandlerTrue, LayerTrue, ResultOf

(* No handler has been in a request that runs its handler, or waits for it *)
(* in front of a route that is not wrapped.                                *)
LEMMA NotHandled ==
    ASSUME ApiInv, NEW p \in Requests,
           \/ Wrapped(p) /\ pc[p] = "running"
           \/ ~Wrapped(p) /\ written[p] = None
    PROVE  Idle(p)
<1>1. written[p] = None
  <2>1. CASE Wrapped(p) /\ pc[p] = "running"
    <3>1. resp[p] = None
      BY <2>1 DEF ApiInv, DurableInv, Inv, Fresh
    <3>. QED
      BY <2>1, <3>1 DEF ApiInv, LayerTrue
  <2>. QED
    BY <2>1
<1>2. outcome[p] = None
  BY <1>1 DEF ApiInv, HandlerTrue
<1>3. p \notin applied
  BY <1>2, ApiAssumption DEF ApiInv, ServiceTrue
<1>. QED
  BY <1>1, <1>2, <1>3 DEF Idle

(* A handler behind the layer does what the layer expects of it.           *)
LEMMA HandleWrappedInv ==
    ASSUME ApiInv, NEW p \in Requests, Wrapped(p), HandleWrapped(p)
    PROVE  /\ RunHandler(p) /\ UNCHANGED <<disk, lapsed>>
           /\ ApiTypeOK' /\ EffectsTrue'
           /\ \A q \in Requests : ServiceTrue(q)' /\ HandlerTrue(q)' /\ LayerTrue(q)'
<1>0. TypeOK /\ ApiTypeOK
  BY DEF ApiInv, DurableInv, Inv
<1>1. /\ call' = call /\ Handle(p)
      /\ pc[p] = "running" /\ pc' = [pc EXCEPT ![p] = "completing"]
      /\ resp' = [resp EXCEPT ![p] = [by |-> p, status |-> Status(written'[p])]]
      /\ effects' = IF p \in applied' THEN effects \cup {p} ELSE effects
      /\ UNCHANGED <<redis, promise, disk, lapsed>>
  BY DEF HandleWrapped, Goto
<1>2. Idle(p)
  BY <1>1, NotHandled
<1>3. /\ ApiTypeOK'
      /\ ServiceTrue(p)' /\ HandlerTrue(p)' /\ written'[p] # None
      /\ \A q \in Requests :
            q # p => /\ outcome'[q] = outcome[q]
                     /\ written'[q] = written[q]
                     /\ q \in applied' <=> q \in applied
  BY <1>1, <1>2, HandleTrue
<1>4. Wrapped(p)' /\ \A q \in Requests : Wrapped(q)' = Wrapped(q)
  BY <1>1 DEF Wrapped
<1>5. Truthful(written'[p], ResultOf(p)', ReasonsOf(Kind(p))')
  BY <1>3 DEF HandlerTrue
<1>6. /\ Status(written'[p]) \in Statuses
      /\ Status(written'[p]) = "ok" <=> ResultOf(p)' = "ok"
  BY <1>5, StatusTrue
<1>7. p \in applied' <=> ResultOf(p)' = "ok"
  <2>1. CASE ResultOf(p)' = "ok"
    BY <1>3, <2>1 DEF ResultOf, ServiceTrue
  <2>2. CASE p \in applied'
    <3>1. outcome'[p] \in {"ok", "error"}
      BY <1>3, <2>2 DEF ServiceTrue
    <3>2. outcome'[p] # "error"
      BY <1>0, <1>1, <1>2, <2>2, OnlyServedApplies
    <3>. QED
      BY <2>2, <3>1, <3>2, ApiAssumption DEF ResultOf
  <2>. QED
    BY <2>1, <2>2
<1>8. RunHandler(p)
  BY <1>1, <1>6, <1>7 DEF RunHandler, Goto
<1>9. EffectsTrue'
  <2>1. applied \subseteq Requests /\ applied' \subseteq Requests
    BY <1>0, <1>3 DEF ApiTypeOK
  <2>. QED
    BY <1>1, <1>2, <1>3, <1>4, <2>1 DEF EffectsTrue, ApiInv, Idle
<1>10. LayerTrue(p)'
  <2>1. [by |-> p, status |-> Status(written'[p])] \in Response
    BY <1>6 DEF Response
  <2>2. /\ resp'[p] # None /\ resp'[p].by = p
        /\ resp'[p].status = Status(written'[p])
        /\ pc'[p] = "completing"
    BY <1>0, <1>1, <2>1, NoneAssumption DEF TypeOK
  <2>. QED
    BY <1>3, <1>4, <2>2 DEF LayerTrue, Status
<1>11. ASSUME NEW q \in Requests, q # p
       PROVE  ServiceTrue(q)' /\ HandlerTrue(q)' /\ LayerTrue(q)'
  <2>1. pc'[q] = pc[q] /\ resp'[q] = resp[q]
    BY <1>0, <1>1, <1>11 DEF TypeOK
  <2>. QED
    BY <1>1, <1>3, <1>11, <2>1, RequestKept DEF ApiInv
<1>. QED
  BY <1>1, <1>3, <1>8, <1>9, <1>10, <1>11

(* A request that ends in its handler.                                     *)
LEMMA CutWrappedInv ==
    ASSUME ApiInv, NEW p \in Requests, Wrapped(p), CutWrapped(p)
    PROVE  /\ Step(p) /\ UNCHANGED <<disk, lapsed>>
           /\ ApiTypeOK' /\ EffectsTrue'
           /\ \A q \in Requests : ServiceTrue(q)' /\ HandlerTrue(q)' /\ LayerTrue(q)'
<1>0. TypeOK /\ ApiTypeOK
  BY DEF ApiInv, DurableInv, Inv
<1>1. /\ pc[p] = "running" /\ pc' = [pc EXCEPT ![p] = "cut"]
      /\ UNCHANGED <<redis, call, resp, effects, promise, disk, lapsed, written>>
      /\ Die(p)
  BY DEF CutWrapped, Die
<1>2. Idle(p)
  BY <1>1, NotHandled
<1>3. /\ applied' = applied
      /\ \/ outcome' = outcome
         \/ outcome' = [outcome EXCEPT ![p] = "error"]
  BY DEF CutWrapped, tables, Goods!Fail
<1>4. ApiTypeOK'
  BY <1>0, <1>1, <1>3 DEF ApiTypeOK
<1>5. EffectsTrue'
  BY <1>1, <1>3 DEF EffectsTrue, ApiInv, Wrapped
<1>6. /\ pc'[p] = "cut" /\ written'[p] = None /\ p \notin applied'
      /\ outcome'[p] \in {None, "error"}
  BY <1>0, <1>1, <1>2, <1>3 DEF TypeOK, ApiTypeOK, Idle
<1>7. ServiceTrue(p)' /\ HandlerTrue(p)'
  <2>1. Wrapped(p)'
    BY <1>1 DEF Wrapped
  <2>2. "error" \in ResultsOf(Kind(p))'
    BY DEF ResultsOf
  <2>. QED
    BY <1>6, <2>1, <2>2, ApiAssumption DEF ServiceTrue, HandlerTrue
<1>8. LayerTrue(p)'
  <2>1. resp'[p] = None
    BY <1>1 DEF ApiInv, DurableInv, Inv, Fresh
  <2>. QED
    BY <1>6, <2>1 DEF LayerTrue
<1>9. ASSUME NEW q \in Requests, q # p
      PROVE  ServiceTrue(q)' /\ HandlerTrue(q)' /\ LayerTrue(q)'
  <2>1. pc'[q] = pc[q] /\ outcome'[q] = outcome[q]
    BY <1>0, <1>1, <1>3, <1>9 DEF TypeOK, ApiTypeOK
  <2>. QED
    BY <1>1, <1>3, <1>9, <2>1, RequestKept DEF ApiInv
<1>. QED
  BY <1>1, <1>4, <1>5, <1>7, <1>8, <1>9 DEF Step

(* What the layer's own steps leave alone.                                 *)
LEMMA LayeredShape ==
    ASSUME NEW p \in Requests, Layered(p)
    PROVE  /\ Step(p)
           /\ UNCHANGED <<call, effects, disk, lapsed, outcome, applied, written>>
           /\ pc[p] # "cut"
           /\ \E to :
                /\ pc' = [pc EXCEPT ![p] = to]
                /\ to # "cut"
                /\ to \in {"conflict", "invalid"} => pc[p] \in {"arrived", "claiming"}
           /\ resp' = resp \/ ClaimReplay(p)
<1>0. UNCHANGED <<disk, lapsed, outcome, applied, written>>
  BY DEF Layered, tables
<1>1. CASE RejectRequest(p) \/ Begin(p) \/ BeginFails(p)
  BY <1>0, <1>1 DEF RejectRequest, Begin, BeginFails, Goto, Step
<1>2. CASE ClaimReserved(p) \/ ClaimConflict(p) \/ ClaimWait(p)
  BY <1>0, <1>2 DEF ClaimReserved, ClaimConflict, ClaimWait, Goto, Step, Claim
<1>3. CASE ClaimReplay(p)
  BY <1>0, <1>3 DEF ClaimReplay, Goto, Step, Claim
<1>4. CASE ClaimFails(p) \/ LateClaim(p) \/ ClaimReplyLost(p)
  BY <1>0, <1>4 DEF ClaimFails, LateClaim, ClaimReplyLost, Goto, Step
<1>5. CASE Poll(p) \/ WaitCancelled(p)
  BY <1>0, <1>5 DEF Poll, WaitCancelled, Goto, Step
<1>6. CASE Complete(p) \/ CompleteNotOwned(p)
  BY <1>0, <1>6 DEF Complete, CompleteNotOwned, Goto, Step, Finish
<1>7. CASE CompleteFails(p) \/ LateComplete(p) \/ CompleteReplyLost(p)
  BY <1>0, <1>7 DEF CompleteFails, LateComplete, CompleteReplyLost, Goto, Step
<1>8. CASE pc[p] # "running" /\ Die(p)
  <2>1. \E to :
            /\ pc' = [pc EXCEPT ![p] = to]
            /\ to # "cut"
            /\ to \in {"conflict", "invalid"} => pc[p] \in {"arrived", "claiming"}
    <3>1. pc' = [pc EXCEPT ![p] = "lost"]
      BY <1>8 DEF Die
    <3>2. "lost" # "cut" /\ "lost" \notin {"conflict", "invalid"}
      OBVIOUS
    <3>. QED
      BY <3>1, <3>2
  <2>2. /\ UNCHANGED <<call, effects, resp>>
        /\ pc[p] \in InFlight /\ pc[p] # "cut"
    BY <1>8 DEF Die, InFlight
  <2>3. Step(p)
    BY <1>8 DEF Step
  <2>. QED
    BY <1>0, <2>1, <2>2, <2>3
<1>. QED
  BY <1>1, <1>2, <1>3, <1>4, <1>5, <1>6, <1>7, <1>8 DEF Layered, Claim, Finish

(* The layer's own steps.                                                  *)
LEMMA LayeredInv ==
    ASSUME ApiInv, NEW p \in Requests, Wrapped(p), Layered(p)
    PROVE  /\ ApiTypeOK' /\ EffectsTrue'
           /\ \A q \in Requests : ServiceTrue(q)' /\ HandlerTrue(q)' /\ LayerTrue(q)'
<1>0. TypeOK /\ ApiTypeOK
  BY DEF ApiInv, DurableInv, Inv
<1>1. /\ UNCHANGED <<call, effects, disk, lapsed, outcome, applied, written>>
      /\ pc[p] # "cut"
      /\ resp' = resp \/ ClaimReplay(p)
  BY LayeredShape
<1>2. PICK to :
        /\ pc' = [pc EXCEPT ![p] = to]
        /\ to # "cut"
        /\ to \in {"conflict", "invalid"} => pc[p] \in {"arrived", "claiming"}
  BY LayeredShape
<1>3. pc'[p] = to
  BY <1>0, <1>2 DEF TypeOK
<1>4. ApiTypeOK' /\ EffectsTrue'
  BY <1>0, <1>1 DEF ApiTypeOK, EffectsTrue, ApiInv, Wrapped
<1>5. Wrapped(p)' /\ Kind(p)' = Kind(p)
  BY <1>1 DEF Wrapped, Kind
<1>6. ServiceTrue(p)'
  BY <1>1, <1>5 DEF ApiInv, ServiceTrue
<1>7. HandlerTrue(p)'
  BY <1>1, <1>5 DEF ApiInv, HandlerTrue, ResultOf
<1>8. LayerTrue(p)'
  <2>1. CASE resp' = resp
    <3>1. pc'[p] \in {"conflict", "invalid"} => resp[p] = None
      BY <1>2, <1>3 DEF ApiInv, DurableInv, Inv, Fresh
    <3>. QED
      BY <1>1, <1>5, <2>1, <3>1 DEF ApiInv, LayerTrue, Status
  <2>2. CASE ClaimReplay(p)
    <3>1. /\ pc[p] = "claiming" /\ pc'[p] = "replayed"
          /\ resp' = [resp EXCEPT ![p] = Held(p).answer]
          /\ Held(p) # None /\ Held(p).answer # None
      BY <1>0, <2>2 DEF ClaimReplay, Goto, Replayable, TypeOK
    <3>2. resp[p] = None
      BY <3>1 DEF ApiInv, DurableInv, Inv, Fresh
    <3>3. written[p] = None
      BY <3>2 DEF ApiInv, LayerTrue
    <3>4. Held(p).answer.by # p
      <4>1. /\ Held(p).answer.by = Held(p).owner
            /\ Held(p).answer = resp[Held(p).owner]
        BY <1>0, <3>1, HeldType DEF ApiInv, DurableInv, Inv, RecordGenuine, Held
      <4>. QED
        BY <4>1, <3>1, <3>2
    <3>5. resp'[p] = Held(p).answer
      BY <1>0, <3>1 DEF TypeOK
    <3>. QED
      BY <1>1, <1>5, <3>1, <3>3, <3>4, <3>5 DEF LayerTrue
  <2>. QED
    BY <1>1, <2>1, <2>2
<1>9. ASSUME NEW q \in Requests, q # p
      PROVE  ServiceTrue(q)' /\ HandlerTrue(q)' /\ LayerTrue(q)'
  <2>1. pc'[q] = pc[q]
    BY <1>0, <1>2, <1>9 DEF TypeOK
  <2>2. resp'[q] = resp[q]
    BY <1>0, <1>1, <1>9 DEF TypeOK, ClaimReplay
  <2>. QED
    BY <1>1, <1>9, <2>1, <2>2, RequestKept DEF ApiInv
<1>. QED
  BY <1>4, <1>6, <1>7, <1>8, <1>9

(* A handler in front of which there is no layer.                          *)
LEMMA HandleDirectlyInv ==
    ASSUME ApiInv, NEW p \in Requests, HandleDirectly(p)
    PROVE  /\ ApiTypeOK' /\ EffectsTrue'
           /\ \A q \in Requests : ServiceTrue(q)' /\ HandlerTrue(q)' /\ LayerTrue(q)'
<1>0. ApiTypeOK
  BY DEF ApiInv
<1>1. /\ ~Wrapped(p) /\ written[p] = None /\ Handle(p)
      /\ UNCHANGED <<call, pc, resp, effects>>
  BY DEF HandleDirectly, durableVars, vars
<1>2. Idle(p)
  BY <1>1, NotHandled
<1>3. /\ ApiTypeOK'
      /\ ServiceTrue(p)' /\ HandlerTrue(p)' /\ written'[p] # None
      /\ \A q \in Requests :
            q # p => /\ outcome'[q] = outcome[q]
                     /\ written'[q] = written[q]
                     /\ q \in applied' <=> q \in applied
  BY <1>1, <1>2, HandleTrue
<1>4. \A q \in Requests : Wrapped(q)' = Wrapped(q)
  BY <1>1 DEF Wrapped
<1>5. EffectsTrue'
  <2>1. applied \subseteq Requests /\ applied' \subseteq Requests
    BY <1>0, <1>3 DEF ApiTypeOK
  <2>. QED
    BY <1>1, <1>3, <1>4, <2>1 DEF EffectsTrue, ApiInv
<1>6. LayerTrue(p)'
  BY <1>1, <1>4 DEF LayerTrue, ApiInv
<1>7. ASSUME NEW q \in Requests, q # p
      PROVE  ServiceTrue(q)' /\ HandlerTrue(q)' /\ LayerTrue(q)'
  BY <1>1, <1>3, <1>7, RequestKept DEF ApiInv
<1>. QED
  BY <1>3, <1>5, <1>6, <1>7

(* A request that takes effect late was told an error, or cut off.         *)
LEMMA TakeEffectInv ==
    ASSUME ApiInv, NEW p \in Requests, TakeEffect(p)
    PROVE  /\ [Step(p) /\ UNCHANGED <<disk, lapsed>>]_durableVars
           /\ ApiTypeOK' /\ EffectsTrue'
           /\ \A q \in Requests : ServiceTrue(q)' /\ HandlerTrue(q)' /\ LayerTrue(q)'
<1>0. ApiTypeOK
  BY DEF ApiInv
<1>1. /\ UNCHANGED <<redis, call, pc, resp, promise, disk, lapsed, written, outcome>>
      /\ effects' = IF Wrapped(p) THEN effects \cup {p} ELSE effects
      /\ outcome[p] = "error"
      /\ p \notin applied /\ applied' = applied \cup {p}
  BY DEF TakeEffect, Goods!Belated, Goods!Effect
<1>2. [Step(p) /\ UNCHANGED <<disk, lapsed>>]_durableVars
  <2>1. CASE Wrapped(p)
    <3>1. pc[p] = "cut" \/ (resp[p] # None /\ resp[p].by = p /\ resp[p].status = "failed")
      <4>1. outcome[p] # None
        BY <1>1, ApiAssumption
      <4>2. CASE written[p] = None
        BY <4>1, <4>2 DEF ApiInv, HandlerTrue
      <4>3. CASE written[p] # None
        <5>1. Truthful(written[p], "error", ReasonsOf(Kind(p)))
          BY <1>1, <4>1, <4>3 DEF ApiInv, HandlerTrue, ResultOf
        <5>2. Status(written[p]) = "failed"
          BY <5>1, StatusTrue
        <5>. QED
          BY <2>1, <4>3, <5>2 DEF ApiInv, LayerTrue
      <4>. QED
        BY <4>2, <4>3
    <3>2. p \notin effects
      BY <1>1 DEF ApiInv, EffectsTrue
    <3>3. LateEffect(p)
      BY <1>1, <2>1, <3>1, <3>2 DEF LateEffect
    <3>. QED
      BY <1>1, <3>3 DEF Step
  <2>2. CASE ~Wrapped(p)
    BY <1>1, <2>2 DEF durableVars, vars
  <2>. QED
    BY <2>1, <2>2
<1>3. ApiTypeOK'
  BY <1>0, <1>1 DEF ApiTypeOK
<1>4. EffectsTrue'
  <2>1. \A q \in Requests : Wrapped(q)' = Wrapped(q)
    BY <1>1 DEF Wrapped
  <2>. QED
    BY <1>0, <1>1, <1>3, <2>1 DEF EffectsTrue, ApiInv, ApiTypeOK
<1>5. ASSUME NEW q \in Requests
      PROVE  ServiceTrue(q)' /\ HandlerTrue(q)' /\ LayerTrue(q)'
  <2>1. CASE q # p
    BY <1>1, <2>1, RequestKept DEF ApiInv
  <2>2. CASE q = p
    <3>1. Kind(p)' = Kind(p) /\ Wrapped(p)' = Wrapped(p)
      BY <1>1 DEF Kind, Wrapped
    <3>2. ServiceTrue(p)'
      BY <1>1, <3>1 DEF ServiceTrue, ApiInv
    <3>. QED
      BY <1>1, <2>2, <3>1, <3>2 DEF HandlerTrue, LayerTrue, ResultOf, ApiInv
  <2>. QED
    BY <2>1, <2>2
<1>. QED
  BY <1>2, <1>3, <1>4, <1>5

(* Redis's clock, its file and its crashes concern no request.             *)
LEMMA SurroundingsInv ==
    ASSUME ApiInv, Surroundings
    PROVE  /\ DurableNext
           /\ ApiTypeOK' /\ EffectsTrue'
           /\ \A q \in Requests : ServiceTrue(q)' /\ HandlerTrue(q)' /\ LayerTrue(q)'
<1>1. UNCHANGED <<call, pc, resp, effects, outcome, applied, written>>
  BY DEF Surroundings, TimePasses, Tick, Sync, Crash, vars, tables
<1>2. ApiTypeOK' /\ EffectsTrue'
  BY <1>1 DEF ApiTypeOK, EffectsTrue, ApiInv, Wrapped
<1>3. ASSUME NEW q \in Requests
      PROVE  ServiceTrue(q)' /\ HandlerTrue(q)' /\ LayerTrue(q)'
  BY <1>1, RequestKept DEF ApiInv
<1>4. DurableNext
  BY DEF Surroundings, DurableNext
<1>. QED
  BY <1>2, <1>3, <1>4

(* Every step of the service is a step of the layer, or none of it, and    *)
(* keeps the invariant.                                                    *)
LEMMA ApiNextInv ==
    ASSUME ApiInv, [ApiNext]_apiVars
    PROVE  ApiInv' /\ [DurableNext]_durableVars
<1>. DEFINE Stays ==
        /\ [DurableNext]_durableVars
        /\ ApiTypeOK' /\ EffectsTrue'
        /\ \A q \in Requests : ServiceTrue(q)' /\ HandlerTrue(q)' /\ LayerTrue(q)'
<1>1. ASSUME NEW p \in Requests, Wrapped(p), HandleWrapped(p) PROVE Stays
  BY <1>1, HandleWrappedInv DEF DurableNext, Step
<1>2. ASSUME NEW p \in Requests, Wrapped(p), CutWrapped(p) PROVE Stays
  BY <1>2, CutWrappedInv DEF DurableNext
<1>3. ASSUME NEW p \in Requests, Wrapped(p), Layered(p) PROVE Stays
  BY <1>3, LayeredInv, LayeredShape DEF DurableNext
<1>4. ASSUME NEW p \in Requests, HandleDirectly(p) PROVE Stays
  BY <1>4, HandleDirectlyInv DEF HandleDirectly
<1>5. ASSUME NEW p \in Requests, TakeEffect(p) PROVE Stays
  BY <1>5, TakeEffectInv DEF DurableNext
<1>6. ASSUME Surroundings PROVE Stays
  BY <1>6, SurroundingsInv
<1>7. ASSUME UNCHANGED apiVars PROVE Stays
  <2>1. UNCHANGED <<durableVars, call, pc, resp, effects, outcome, applied, written>>
    BY <1>7 DEF apiVars, tables, durableVars, vars
  <2>2. ApiTypeOK' /\ EffectsTrue'
    BY <2>1 DEF ApiTypeOK, EffectsTrue, ApiInv, Wrapped
  <2>3. ASSUME NEW q \in Requests
        PROVE  ServiceTrue(q)' /\ HandlerTrue(q)' /\ LayerTrue(q)'
    BY <2>1, RequestKept DEF ApiInv
  <2>. QED
    BY <2>1, <2>2, <2>3
<1>8. Stays
  BY <1>1, <1>2, <1>3, <1>4, <1>5, <1>6, <1>7 DEF ApiNext
<1>9. DurableInv'
  BY <1>8, DurableNextInv DEF ApiInv
<1>. QED
  BY <1>8, <1>9 DEF ApiInv

(* The inductive invariant of the service as a whole.                      *)
LEMMA ApiInvHolds == ApiSpec => []ApiInv
BY ApiInitInv, ApiNextInv, PTL DEF ApiSpec

(* Whatever the handlers, the database and Redis do, the service only      *)
(* takes steps of the layer: its handlers answer below 300 exactly what    *)
(* has been committed and with a 4xx only what never will be.              *)
THEOREM LayerImplemented == ApiSpec => ImplementsLayer
<1>1. ApiInit => DurableInit
  BY DEF ApiInit
<1>. QED
  BY <1>1, ApiNextInv, ApiInvHolds, PTL DEF ApiSpec, ImplementsLayer, DurableSpec

-----------------------------------------------------------------------------
(* What a status tells.                                                    *)

(* The answer of a request that needs no key speaks for itself.            *)
LEMMA DirectSettles ==
    ASSUME ApiInv, NEW p \in Requests, ~Wrapped(p), Told(p) # None
    PROVE  /\ H!Succeeded(Told(p)) => Tries(p) \cap applied = {p}
           /\ H!Refused(Told(p)) => Tries(p) \cap applied = {}
           /\ H!Failed(Told(p)) => outcome[Author(p)] = "error"
           /\ Handled(p)
<1>1. Told(p) = written[p] /\ Tries(p) = {p} /\ Author(p) = p /\ Handled(p)
  BY DEF Told, Tries, Author, Handled, Keyed, Wrapped, Idempotent
<1>2. Truthful(written[p], ResultOf(p), ReasonsOf(Kind(p))) /\ ServiceTrue(p)
  BY <1>1 DEF ApiInv, HandlerTrue
<1>3. H!Succeeded(written[p]) => outcome[p] = "ok" /\ p \in applied
  BY <1>2 DEF Truthful, ResultOf, ServiceTrue
<1>4. H!Refused(written[p]) => p \notin applied
  <2>1. H!Refused(written[p]) => ResultOf(p) # "ok" /\ ResultOf(p) # "error"
    BY <1>2 DEF Truthful, ReasonsOf
  <2>. QED
    BY <1>2, <2>1, ApiAssumption DEF ResultOf, ServiceTrue
<1>5. H!Failed(written[p]) => outcome[p] = "error"
  BY <1>2 DEF Truthful, ResultOf
<1>. QED
  BY <1>1, <1>3, <1>4, <1>5

(* Whatever has taken effect behind the layer was started by it.           *)
LEMMA AppliedStarted ==
    ASSUME ApiInv, NEW p \in Requests, Wrapped(p), p \in applied
    PROVE  Started(p)
<1>1. outcome[p] # None
  BY ApiAssumption DEF ApiInv, ServiceTrue
<1>2. CASE written[p] = None
  BY <1>1, <1>2 DEF ApiInv, HandlerTrue, Started
<1>3. CASE written[p] # None
  BY <1>3 DEF ApiInv, LayerTrue, Started
<1>. QED
  BY <1>2, <1>3

(* An answer that comes through the layer from a handler speaks for the    *)
(* key.                                                                    *)
LEMMA HandledSettles ==
    ASSUME ApiInv, NEW p \in Requests, Wrapped(p), pc[p] \in {"executed", "replayed"},
           Told(p) # None
    PROVE  /\ H!Succeeded(Told(p)) =>
                \E q \in Tries(p) :
                    /\ q \in applied /\ call[q] = call[p]
                    /\ call[p].key \in lapsed \/ Tries(p) \cap applied = {q}
           /\ H!Refused(Told(p)) =>
                call[p].key \in lapsed \/ Tries(p) \cap applied = {}
           /\ H!Failed(Told(p)) => outcome[Author(p)] = "error"
<1>. DEFINE a == resp[p].by
<1>0. TypeOK
  BY DEF ApiInv, DurableInv, Inv
<1>1. /\ resp[p] # None /\ call[a] = call[p] /\ resp[a] = resp[p]
      /\ a \in Requests
  <2>1. resp[p] # None /\ call[a] = call[p] /\ resp[a] = resp[p]
    BY DEF ApiInv, DurableInv, Inv, ToldGenuine
  <2>. QED
    BY <1>0, <2>1 DEF TypeOK, Response
<1>2. Wrapped(a) /\ written[a] # None /\ Author(p) = a
  BY <1>1 DEF Wrapped, ApiInv, LayerTrue, Author
<1>3. Told(p) = written[a]
  <2>1. CASE pc[p] = "executed"
    <3>1. Told(p) = written[p]
      BY <2>1 DEF Told, Pending
    <3>2. a = p
      BY <3>1 DEF ApiInv, LayerTrue
    <3>. QED
      BY <3>1, <3>2
  <2>2. CASE pc[p] = "replayed"
    BY <2>2 DEF Told, Pending
  <2>. QED
    BY <2>1, <2>2
<1>4. Truthful(written[a], ResultOf(a), ReasonsOf(Kind(a))) /\ ServiceTrue(a)
  BY <1>1, <1>2 DEF ApiInv, HandlerTrue
<1>5. a \in Tries(p) /\ Tries(p) = {q \in Requests : Wrapped(q) /\ call[q].key = call[p].key}
  BY <1>1, <1>2 DEF Tries, Keyed, Wrapped, Idempotent
<1>6. Started(a)
  BY <1>1 DEF Started
<1>7. ASSUME NEW q \in Tries(p) \cap applied PROVE q = a \/ call[p].key \in lapsed
  <2>1. q \in Requests /\ Wrapped(q) /\ call[q].key = call[a].key /\ Started(q)
    BY <1>1, <1>5, AppliedStarted
  <2>2. OneStartUnlessLapsed
    BY DEF ApiInv, DurableInv, StartedHolds, OneStartUnlessLapsed, Held
  <2>. QED
    BY <1>1, <1>6, <2>1, <2>2 DEF OneStartUnlessLapsed
<1>8. ASSUME H!Succeeded(written[a]) PROVE a \in applied
  BY <1>4, <1>8 DEF Truthful, ResultOf, ServiceTrue
<1>9. ASSUME H!Refused(written[a]) PROVE a \notin applied
  <2>1. ResultOf(a) # "ok" /\ ResultOf(a) # "error"
    BY <1>4, <1>9 DEF Truthful, ReasonsOf
  <2>. QED
    BY <1>4, <2>1, ApiAssumption DEF ResultOf, ServiceTrue
<1>10. ASSUME H!Failed(written[a]) PROVE outcome[a] = "error"
  BY <1>4, <1>10 DEF Truthful, ResultOf
<1>. QED
  BY <1>1, <1>2, <1>3, <1>5, <1>7, <1>8, <1>9, <1>10

(* An answer of the layer's own.                                           *)
LEMMA LayerSettles ==
    ASSUME ApiInv, NEW p \in Requests, Wrapped(p), pc[p] \notin {"executed", "replayed"},
           Told(p) # None
    PROVE  /\ ~H!Succeeded(Told(p))
           /\ H!Refused(Told(p)) => p \notin applied
           /\ ~Handled(p)
<1>1. CASE pc[p] \in {"conflict", "invalid"}
  <2>1. resp[p] = None
    BY <1>1 DEF ApiInv, LayerTrue
  <2>2. written[p] = None
    BY <2>1 DEF ApiInv, LayerTrue
  <2>3. p \notin applied
    <3>1. ~Started(p)
      BY <1>1, <2>1 DEF Started
    <3>. QED
      BY <3>1, AppliedStarted
  <2>4. Told(p).status \in {400, 409}
    BY <1>1 DEF Told, H!Reply, Pending
  <2>. QED
    BY <2>3, <2>4 DEF H!Succeeded, Handled
<1>2. CASE pc[p] \in {"error"} \cup Pending
  <2>1. Told(p).status = 500
    BY <1>2 DEF Told, H!Reply, Pending
  <2>. QED
    BY <2>1 DEF H!Succeeded, H!Refused, Handled
<1>3. CASE pc[p] \notin {"conflict", "invalid", "error"} \cup Pending
  BY <1>3 DEF Told, Pending
<1>. QED
  BY <1>1, <1>2, <1>3

(* A client may take a success to mean that exactly one of its tries has   *)
(* taken effect, and a refusal that none has or ever will, as long as its  *)
(* key has not lapsed.                                                     *)
THEOREM StatusSettles == ApiSpec => []StatusSettlesTheKey
<1>1. ApiInv => StatusSettlesTheKey
  <2>. SUFFICES ASSUME ApiInv, NEW p \in Requests, Told(p) # None
                PROVE  /\ H!Succeeded(Told(p)) =>
                            \E q \in Tries(p) :
                                /\ q \in applied /\ call[q] = call[p]
                                /\ call[p].key \in lapsed \/ Tries(p) \cap applied = {q}
                       /\ H!Refused(Told(p)) /\ Handled(p) =>
                            call[p].key \in lapsed \/ Tries(p) \cap applied = {}
                       /\ H!Failed(Told(p)) /\ Handled(p) => outcome[Author(p)] = "error"
                       /\ H!Refused(Told(p)) /\ ~Handled(p) => p \notin applied
    BY DEF StatusSettlesTheKey
  <2>1. CASE ~Wrapped(p)
    <3>1. Tries(p) \cap applied = {p} => p \in Tries(p) /\ p \in applied
      OBVIOUS
    <3>. QED
      BY <2>1, <3>1, DirectSettles
  <2>2. CASE Wrapped(p) /\ pc[p] \in {"executed", "replayed"}
    <3>1. Handled(p)
      BY <2>2 DEF Handled
    <3>. QED
      BY <2>2, <3>1, HandledSettles
  <2>3. CASE Wrapped(p) /\ pc[p] \notin {"executed", "replayed"}
    BY <2>3, LayerSettles
  <2>. QED
    BY <2>1, <2>2, <2>3
<1>. QED
  BY <1>1, ApiInvHolds, PTL

-----------------------------------------------------------------------------
(* The transactions of the service are Catalog's: its theorems, with the   *)
(* orders of the service for its operations.                               *)
DbP ==
    INSTANCE CatalogProofs WITH
        pc <- stage, written <- stock, op <- orders, Asked <- Orders,
        SeedProducts <- ProductSeeds, SeedImages <- ImageSeeds

(* Catalog counts as FiniteSets does.                                      *)
LEMMA SameSize ==
    \A S : /\ DbP!Cardinality(S) = Cardinality(S)
           /\ DbP!IsFiniteSet(S) <=> IsFiniteSet(S)
BY DEF DbP!Cardinality, Cardinality, DbP!IsFiniteSet, IsFiniteSet

(* The constants meet Catalog's assumptions.                               *)
LEMMA DbConstants ==
    /\ MaxConns \in Nat \ {0}
    /\ Orders \subseteq DbP!Ops
    /\ ProductSeeds \in [DOMAIN ProductSeeds -> DbP!Product]
    /\ ImageSeeds \in [DOMAIN ImageSeeds -> DOMAIN ProductSeeds]
    /\ \A i, j \in DOMAIN ImageSeeds : ImageSeeds[i] = ImageSeeds[j] => i = j
    /\ Requests \cap (DOMAIN ProductSeeds \cup DOMAIN ImageSeeds) = {}
    /\ Quantities \subseteq Nat
    /\ SeedSuppliers \cap DbP!ProductIds = {}
    /\ SeedSuppliers \cap Categories = {}
    /\ DbP!ProductIds \cap Categories = {}
    /\ None \notin DbP!Product \cup DbP!Image \cup DbP!ProductIds \cup Nat
                    \cup DbP!Refusals \cup {"ok", "error"}
<1>1. Db!ProductIds = DbP!ProductIds /\ Db!Product = DbP!Product
  BY DEF Db!ProductIds, DbP!ProductIds, Db!Product, DbP!Product
<1>2. Db!ImageIds = DbP!ImageIds
  BY DEF Db!ImageIds, DbP!ImageIds
<1>3. Db!Image = DbP!Image
  BY <1>1, <1>2 DEF Db!Image, DbP!Image
<1>4. Db!Ops = DbP!Ops
  BY <1>1, <1>2 DEF Db!Ops, DbP!Ops
<1>5. Db!Refusals = DbP!Refusals
  BY DEF Db!Refusals, DbP!Refusals
<1>6. /\ DOMAIN ProductSeeds = Given(SeedProducts)
      /\ DOMAIN ImageSeeds = Given(SeedImages)
  BY DEF ProductSeeds, ImageSeeds
<1>7. ProductSeeds \in [DOMAIN ProductSeeds -> DbP!Product]
  BY <1>1, SeedsAssumption DEF ProductSeeds, Given
<1>8. ImageSeeds \in [DOMAIN ImageSeeds -> DOMAIN ProductSeeds]
  BY <1>6, SeedsAssumption DEF ImageSeeds, Given
<1>9. \A i, j \in DOMAIN ImageSeeds : ImageSeeds[i] = ImageSeeds[j] => i = j
  BY <1>6, SeedsAssumption DEF ImageSeeds
<1> QED
  BY <1>1, <1>3, <1>4, <1>5, <1>6, <1>7, <1>8, <1>9, ConnectionsAssumption,
     OrdersAssumption, SeedsAssumption, TablesAssumption, ApiAssumption

(* So its theorems hold.                                                   *)
LEMMA DbInv == DbP!Spec => []DbP!Inv
BY DbP!InvHolds, DbConstants

(* What callers were told is true of the tables.                           *)
LEMMA DbTold == DbP!Spec => []DbP!AllTold
BY DbP!ToldHolds, DbConstants

(* Stock and units sold add up.                                            *)
LEMMA DbAccounted == DbP!Spec => []DbP!AllAccounted
BY DbP!AccountsHold, DbConstants

(* What a handler's repository does is Shop's answer, or nothing to it.    *)
LEMMA DbClient ==
    ASSUME DbP!Inv, DbP!AllTold, NEW p \in Requests,
           DbP!Begin(p) \/ DbP!Statement(p) \/ DbP!GiveUp(p)
    PROVE  DbP!Answers(p) \/ UNCHANGED DbP!Atomic!vars
<1>1. DbP!Told(p)
  BY DEF DbP!AllTold
<1> QED
  BY <1>1, DbP!ClientMaps, DbConstants

(* What the server commits late takes effect late in Shop.                 *)
LEMMA DbServer ==
    ASSUME DbP!Inv, DbP!AllTold, NEW p \in Requests, DbP!ServerCommit(p)
    PROVE  DbP!Atomic!Belated(p)
<1>1. DbP!Told(p)
  BY DEF DbP!AllTold
<1> QED
  BY <1>1, DbP!ServerCommitMaps, DbConstants

(* A step of one transaction leaves the stages of the others alone.        *)
LEMMA DbOthers ==
    ASSUME DbP!Inv, NEW p \in Requests, NEW q \in Requests, q # p,
           \/ DbP!Begin(p) \/ DbP!Statement(p) \/ DbP!GiveUp(p)
           \/ DbP!ServerRollback(p) \/ DbP!ServerCommit(p)
    PROVE  stage'[q] = stage[q]
<1>1. DbP!TypeOK
  BY DEF DbP!Inv
<1> QED
  BY <1>1, DbP!OthersStay, DbConstants

(* Both count the same connections.                                        *)
LEMMA SamePool == Db!ConnectionFree <=> DbP!ConnectionFree
<1>1. {r \in Requests : Db!Connected(r)} = {r \in Requests : DbP!Connected(r)}
  BY DEF Db!Connected, DbP!Connected, Db!Ended, DbP!Ended
<1> QED
  BY <1>1 DEF Db!ConnectionFree, DbP!ConnectionFree, Db!Cardinality, DbP!Cardinality,
              Db!IsFiniteSet, DbP!IsFiniteSet

(* Catalog in the specification and in its theorems are one.               *)
LEMMA SameDb ==
    ASSUME NEW p \in Requests
    PROVE  /\ Db!Begin(p) <=> DbP!Begin(p)
           /\ Db!Statement(p) <=> DbP!Statement(p)
           /\ Db!GiveUp(p) <=> DbP!GiveUp(p)
           /\ Db!ServerRollback(p) <=> DbP!ServerRollback(p)
           /\ Db!ServerCommit(p) <=> DbP!ServerCommit(p)
<1> USE DEF Db!data, DbP!data, Db!Goto, DbP!Goto, Db!Ended, DbP!Ended, Db!Lock, DbP!Lock,
            Db!Lockable, DbP!Lockable, Db!Keeps, DbP!Keeps, Db!Unlock, DbP!Unlock,
            Db!Refuse, DbP!Refuse, Db!SingleStatement, DbP!SingleStatement, Db!ProductIds,
            DbP!ProductIds, Db!ImageIds, DbP!ImageIds, Db!PicturesOf, DbP!PicturesOf,
            Db!Pictured, DbP!Pictured
<1>1. Db!ConnectionFree <=> DbP!ConnectionFree
  BY SamePool
<1>2. Db!Effect(p) <=> DbP!Effect(p)
  BY DEF Db!Effect, DbP!Effect, Db!ProductInserted, DbP!ProductInserted,
         Db!StockDecreased, DbP!StockDecreased, Db!SupplierDeleted, DbP!SupplierDeleted,
         Db!ProductDeleted, DbP!ProductDeleted, Db!ImageInserted, DbP!ImageInserted,
         Db!ImageReplaced, DbP!ImageReplaced, Db!ImageDeleted, DbP!ImageDeleted,
         Db!Selected, DbP!Selected
<1>3. Db!Succeed(p) <=> DbP!Succeed(p)
  BY DEF Db!Succeed, DbP!Succeed, Db!Returned, DbP!Returned, Db!ProductRow,
         DbP!ProductRow, Db!ImageRows, DbP!ImageRows
<1>4. Db!Begin(p) <=> DbP!Begin(p)
  BY <1>1 DEF Db!Begin, DbP!Begin
<1>5. Db!CheckSupplier(p) <=> DbP!CheckSupplier(p)
  BY DEF Db!CheckSupplier, DbP!CheckSupplier
<1>6. Db!UpsertCategory(p) <=> DbP!UpsertCategory(p)
  BY DEF Db!UpsertCategory, DbP!UpsertCategory
<1>7. Db!InsertProduct(p) <=> DbP!InsertProduct(p)
  BY DEF Db!InsertProduct, DbP!InsertProduct
<1>8. Db!LockStock(p) <=> DbP!LockStock(p)
  BY DEF Db!LockStock, DbP!LockStock, Db!Subtractable, DbP!Subtractable
<1>9. Db!UpdateStock(p) <=> DbP!UpdateStock(p)
  BY DEF Db!UpdateStock, DbP!UpdateStock, Db!Subtractable, DbP!Subtractable
<1>10. Db!LockSupplier(p) <=> DbP!LockSupplier(p)
  BY <1>3 DEF Db!LockSupplier, DbP!LockSupplier
<1>11. Db!RemoveSupplier(p) <=> DbP!RemoveSupplier(p)
  BY DEF Db!RemoveSupplier, DbP!RemoveSupplier, Db!ProductsOf, DbP!ProductsOf
<1>12. Db!Execute(p) <=> DbP!Execute(p)
  BY <1>2, <1>3 DEF Db!Execute, DbP!Execute, Db!Unobstructed, DbP!Unobstructed, Db!Obstacle,
                    DbP!Obstacle
<1>13. Db!Commit(p) <=> DbP!Commit(p)
  BY <1>2, <1>3 DEF Db!Commit, DbP!Commit
<1>14. Db!Rollback(p) <=> DbP!Rollback(p)
  BY DEF Db!Rollback, DbP!Rollback
<1>15. Db!GiveUp(p) <=> DbP!GiveUp(p)
  BY DEF Db!GiveUp, DbP!GiveUp, Db!Break, DbP!Break, Db!Sent, DbP!Sent
<1>16. Db!ServerRollback(p) <=> DbP!ServerRollback(p)
  BY DEF Db!ServerRollback, DbP!ServerRollback
<1>17. Db!ServerCommit(p) <=> DbP!ServerCommit(p)
  BY <1>2 DEF Db!ServerCommit, DbP!ServerCommit, Db!Unobstructed, DbP!Unobstructed,
              Db!Obstacle, DbP!Obstacle, Db!Sent, DbP!Sent
<1> QED
  BY <1>4, <1>5, <1>6, <1>7, <1>8, <1>9, <1>10, <1>11, <1>12,
     <1>13, <1>14, <1>15, <1>16, <1>17 DEF Db!Statement, DbP!Statement

(* For a valid request the two Shops are one.                              *)
LEMMA SameShop ==
    ASSUME NEW p \in Requests, ~Invalid(asked[p]), call' = call
    PROVE  /\ DbP!Atomic!Serve(p) => Goods!Serve(p)
           /\ DbP!Atomic!Refuse(p) => Goods!Refuse(p)
           /\ DbP!Atomic!Fail(p) => Goods!Fail(p)
           /\ DbP!Atomic!Belated(p) => Goods!Belated(p)
<1>1. orders[p] = asked[p] /\ asked' = asked
  BY DEF orders, asked
<1>2. DbP!Atomic!Verdict(p) = Goods!Verdict(p)
  BY <1>1 DEF DbP!Atomic!Verdict, Goods!Verdict, DbP!Atomic!ProductOf, Goods!ProductOf,
              DbP!Atomic!Pictured, Goods!Pictured, DbP!Atomic!PicturesOf, Goods!PicturesOf,
              DbP!Atomic!Stocked, Goods!Stocked
<1>3. DbP!Atomic!Effect(p) <=> Goods!Effect(p)
  BY <1>1, <1>2
     DEF DbP!Atomic!Effect, Goods!Effect, DbP!Atomic!CreateProduct, Goods!CreateProduct,
         DbP!Atomic!DecreaseStock, Goods!DecreaseStock, DbP!Atomic!DeleteProduct,
         Goods!DeleteProduct, DbP!Atomic!DeleteSupplier, Goods!DeleteSupplier,
         DbP!Atomic!CreateImage, Goods!CreateImage, DbP!Atomic!ReplaceImage,
         Goods!ReplaceImage, DbP!Atomic!DeleteImage, Goods!DeleteImage, DbP!Atomic!Read,
         Goods!Read, DbP!Atomic!data, Goods!data, DbP!Atomic!PicturesOf, Goods!PicturesOf
<1>4. DbP!Atomic!Answer(p) = Goods!Answer(p)
  BY <1>1
     DEF DbP!Atomic!Answer, Goods!Answer, DbP!Atomic!ProductOf, Goods!ProductOf,
         DbP!Atomic!ProductRow, Goods!ProductRow, DbP!Atomic!ImageRows, Goods!ImageRows,
         DbP!Atomic!PicturesOf, Goods!PicturesOf
<1> QED
  BY <1>1, <1>2, <1>3, <1>4
     DEF DbP!Atomic!Serve, Goods!Serve, DbP!Atomic!Refuse, Goods!Refuse, DbP!Atomic!Fail,
         Goods!Fail, DbP!Atomic!Belated, Goods!Belated, DbP!Atomic!data, Goods!data
-----------------------------------------------------------------------------
(* The service starts as Catalog does.                                     *)
LEMMA ServiceInitDb == ServiceInit => DbP!Init
<1> SUFFICES ASSUME ServiceInit PROVE DbP!Init
  OBVIOUS
<1>1. /\ Db!ProductIds = DbP!ProductIds /\ Db!Product = DbP!Product
      /\ Db!ImageIds = DbP!ImageIds
  BY DEF Db!ProductIds, DbP!ProductIds, Db!Product, DbP!Product, Db!ImageIds, DbP!ImageIds
<1>2. suppliers = SeedSuppliers /\ products = SeedProducts /\ images = SeedImages
  BY DEF ServiceInit, ApiInit, Goods!Init
<1>3. products = [p \in DbP!ProductIds |->
                    IF p \in DOMAIN ProductSeeds THEN ProductSeeds[p] ELSE None]
  BY <1>1, <1>2, SeedsAssumption DEF ProductSeeds, Given
<1>4. images = DbP!SeedRows
  BY <1>1, <1>2, SeedsAssumption DEF DbP!SeedRows, ImageSeeds, Given
<1>5. orders \in [Requests -> Orders]
  BY DEF orders, Orders, asked, ServiceInit, ApiInit, DurableInit, Init, Call
<1> QED
  BY <1>2, <1>3, <1>4, <1>5 DEF DbP!Init, ServiceInit, ApiInit, Goods!Init

(* A step of p's transaction, or of none.                                  *)
DbStep(p) ==
    \/ DbP!Begin(p) \/ DbP!Statement(p) \/ DbP!GiveUp(p)
    \/ DbP!ServerRollback(p) \/ DbP!ServerCommit(p)

(* What the steps of the service do to the transactions.                   *)
LEMMA ServiceDb ==
    ASSUME [ServiceNext]_serviceVars
    PROVE  /\ call' = call
           /\ \/ UNCHANGED <<tables, transactions>>
              \/ \E p \in Requests : ~Invalid(asked[p]) /\ DbStep(p)
              \/ \E p \in Requests : stage[p] # "queued" /\ DbStep(p)
<1>1. ASSUME NEW p \in Requests, Work(p)
      PROVE  call' = call /\ ~Invalid(asked[p]) /\ DbStep(p)
  BY <1>1, SameDb DEF Work, DbStep
<1>2. ASSUME NEW p \in Requests, TurnDown(p)
      PROVE  call' = call /\ UNCHANGED <<tables, transactions>>
  BY <1>2 DEF TurnDown, HandleWrapped, HandleDirectly, Handle, durableVars, vars
<1>3. ASSUME NEW p \in Requests, Cut(p)
      PROVE  /\ call' = call
             /\ \/ UNCHANGED <<tables, transactions>>
                \/ ~Invalid(asked[p]) /\ DbStep(p)
  BY <1>3, SameDb DEF Cut, Die, DbStep
<1>4. ASSUME NEW p \in Requests, Layer(p)
      PROVE  call' = call /\ UNCHANGED <<tables, transactions>>
  BY <1>4, LayeredShape DEF Layer, Layered
<1>5. ASSUME NEW p \in Requests, Settle(p)
      PROVE  call' = call /\ stage[p] # "queued" /\ DbStep(p)
  <2>1. stage[p] # "queued"
    BY <1>5 DEF Settle, Db!ServerRollback, Db!ServerCommit, Db!Goto
  <2> QED
    BY <1>5, <2>1, SameDb DEF Settle, DbStep
<1>6. ASSUME Surroundings, UNCHANGED transactions
      PROVE  call' = call /\ UNCHANGED <<tables, transactions>>
  BY <1>6 DEF Surroundings, TimePasses, Tick, Sync, Crash, vars
<1>7. ASSUME UNCHANGED serviceVars
      PROVE  call' = call /\ UNCHANGED <<tables, transactions>>
  BY <1>7 DEF serviceVars, apiVars, durableVars, vars
<1> QED
  BY <1>1, <1>2, <1>3, <1>4, <1>5, <1>6, <1>7 DEF ServiceNext

(* They are steps of Catalog.                                              *)
LEMMA ServiceNextDb == [ServiceNext]_serviceVars => [DbP!Next]_(DbP!vars)
<1> SUFFICES ASSUME [ServiceNext]_serviceVars PROVE DbP!Next \/ UNCHANGED DbP!vars
  OBVIOUS
<1>1. call' = call
  BY ServiceDb
<1>2. CASE UNCHANGED <<tables, transactions>>
  <2>1. orders' = orders
    BY <1>1 DEF orders, asked
  <2> QED
    BY <1>2, <2>1 DEF tables, transactions, DbP!vars
<1>3. CASE \E p \in Requests : DbStep(p)
  BY <1>3 DEF DbStep, DbP!Next
<1> QED
  BY <1>2, <1>3, ServiceDb

(* The service is, to its tables, a Catalog with orders of its own.        *)
LEMMA ServiceIsDb == ServiceSpec => DbP!Spec
BY ServiceInitDb, ServiceNextDb, PTL DEF ServiceSpec, DbP!Spec

(* So Catalog's invariants hold of the service.                            *)
LEMMA ServiceDbHolds == ServiceSpec => [](DbP!Inv /\ DbP!AllTold /\ DbP!AllAccounted)
BY ServiceIsDb, DbInv, DbTold, DbAccounted, PTL

(* Requests that their handlers turn down have no transaction.             *)
InvalidQueued == \A p \in Requests : Invalid(asked[p]) => stage[p] = "queued"

(* No step of the service begins one for them.                             *)
LEMMA InvalidQueuedNext ==
    ASSUME DbP!Inv, InvalidQueued, [ServiceNext]_serviceVars
    PROVE  InvalidQueued'
<1> SUFFICES ASSUME NEW q \in Requests, Invalid(asked[q]) PROVE stage'[q] = "queued"
  BY ServiceDb DEF InvalidQueued, asked
<1>1. stage[q] = "queued"
  BY DEF InvalidQueued
<1>2. CASE UNCHANGED <<tables, transactions>>
  BY <1>1, <1>2 DEF transactions
<1>3. ASSUME NEW p \in Requests, p # q, DbStep(p) PROVE stage'[q] = "queued"
  BY <1>1, <1>3, DbOthers DEF DbStep
<1> QED
  BY <1>1, <1>2, <1>3, ServiceDb

(* Whoever is answered had no outcome and has one.                         *)
LEMMA AnswerGiven ==
    ASSUME ApiInv, NEW p \in Requests, Goods!Serve(p) \/ Goods!Refuse(p) \/ Goods!Fail(p)
    PROVE  outcome[p] = None /\ outcome'[p] # None
<1>1. TypeOK /\ ApiTypeOK
  BY DEF ApiInv, DurableInv, Inv
<1>2. PICK result \in ResultsOf(Kind(p)) : Carried(p, result)
  BY ServiceStep
<1>3. ReasonsOf(Kind(p)) \subseteq Reasons
  BY <1>1, KindType, ReasonsType
<1>4. result # None
  BY <1>3, ApiAssumption DEF ResultsOf
<1> QED
  BY <1>1, <1>2, <1>4 DEF Carried, ApiTypeOK

(* A request without the layer gets no reply before it has an outcome.     *)
DirectPending ==
    \A p \in Requests :
        ~Wrapped(p) /\ ~Invalid(asked[p]) /\ outcome[p] = None => written[p] = None

(* A handler's reply and its outcome come in one step of Api.              *)
LEMMA DirectPendingNext ==
    ASSUME ApiInv, DirectPending, [ApiNext]_apiVars
    PROVE  DirectPending'
<1>0. ApiTypeOK
  BY DEF ApiInv
<1>1. ASSUME call' = call, written' = written,
             \A q \in Requests : outcome'[q] = None => outcome[q] = None
      PROVE  DirectPending'
  BY <1>1 DEF DirectPending, Wrapped, asked
<1>2. ASSUME NEW p \in Requests, call' = call, Handle(p) PROVE DirectPending'
  <2>1. \E result \in {"invalid"} \cup ResultsOf(Kind(p)) :
            /\ written' = [written EXCEPT ![p] = Route(Kind(p), result)]
            /\ result = "invalid" => UNCHANGED <<outcome, applied>>
            /\ result # "invalid" => Carried(p, result)
    BY <1>0, <1>2, HandleStep DEF ApiTypeOK
  <2>2. \A q \in Requests \ {p} : written'[q] = written[q] /\ outcome'[q] = outcome[q]
    BY <1>0, <2>1 DEF ApiTypeOK, Carried
  <2>3. ~Invalid(asked[p]) => outcome'[p] # None
    BY <1>2, AnswerGiven DEF Handle
  <2> QED
    BY <1>2, <2>2, <2>3 DEF DirectPending, Wrapped, asked
<1>3. ASSUME NEW p \in Requests, HandleWrapped(p) \/ HandleDirectly(p)
      PROVE  DirectPending'
  BY <1>2, <1>3 DEF HandleWrapped, HandleDirectly, durableVars, vars
<1>4. ASSUME NEW p \in Requests, CutWrapped(p) PROVE DirectPending'
  BY <1>0, <1>1, <1>4 DEF CutWrapped, Die, tables, Goods!Fail, ApiTypeOK
<1>5. ASSUME NEW p \in Requests, Layered(p) PROVE DirectPending'
  BY <1>1, <1>5, LayeredShape
<1>6. ASSUME NEW p \in Requests, TakeEffect(p) PROVE DirectPending'
  BY <1>1, <1>6 DEF TakeEffect, Goods!Belated
<1>7. ASSUME Surroundings PROVE DirectPending'
  BY <1>1, <1>7 DEF Surroundings, TimePasses, Tick, Sync, Crash, vars, tables
<1>8. ASSUME UNCHANGED apiVars PROVE DirectPending'
  BY <1>1, <1>8 DEF apiVars, durableVars, vars, tables
<1> QED
  BY <1>3, <1>4, <1>5, <1>6, <1>7, <1>8 DEF ApiNext

-----------------------------------------------------------------------------
(* The service implements Api.                                             *)

(* The step in which a request has its outcome is its handler's in Api, the *)
(* others leave what Api sees alone.                                       *)
LEMMA WorkMaps ==
    ASSUME DbP!Inv, DbP!AllTold, ApiInv, DirectPending, NEW p \in Requests, Work(p)
    PROVE  (Wrapped(p) /\ HandleWrapped(p)) \/ HandleDirectly(p) \/ UNCHANGED apiVars
<1>0. ApiTypeOK /\ call' = call /\ ~Invalid(asked[p])
  BY DEF ApiInv, Work
<1>1. DbP!Answers(p) \/ UNCHANGED DbP!Atomic!vars
  BY SameDb, DbClient DEF Work
<1>2. CASE UNCHANGED DbP!Atomic!vars
  <2>1. UNCHANGED tables
    BY <1>2 DEF DbP!Atomic!vars, tables
  <2>2. UNCHANGED <<pc, resp, effects, written>>
    BY <2>1 DEF Work, tables
  <2> QED
    BY <2>1, <2>2 DEF Work, apiVars, durableVars, vars
<1>3. CASE DbP!Answers(p)
  <2>1. Goods!Serve(p) \/ Goods!Refuse(p) \/ Goods!Fail(p)
    BY <1>0, <1>3, SameShop DEF DbP!Answers
  <2>2. outcome[p] = None /\ outcome'[p] # None
    BY <2>1, AnswerGiven
  <2>3. WriteReply(p)
    BY <2>2 DEF Work
  <2>4. Handle(p)
    BY <1>0, <2>1, <2>3 DEF Handle, WriteReply
  <2>5. CASE Wrapped(p)
    BY <2>2, <2>3, <2>4, <2>5 DEF Work, WriteReply, HandleWrapped, Goto
  <2>6. CASE ~Wrapped(p)
    <3>1. written[p] = None
      BY <1>0, <2>2, <2>6 DEF DirectPending
    <3> QED
      BY <2>3, <2>4, <2>6, <3>1 DEF Work, WriteReply, HandleDirectly, durableVars, vars
  <2> QED
    BY <2>5, <2>6
<1> QED
  BY <1>1, <1>2, <1>3

(* A request cut off in its handler is told of an error in Api.            *)
LEMMA CutMaps ==
    ASSUME ApiInv, NEW p \in Requests, Cut(p)
    PROVE  Wrapped(p) /\ CutWrapped(p)
<1>1. CASE Invalid(asked[p])
  BY <1>1 DEF Cut, CutWrapped
<1>2. CASE ~Invalid(asked[p])
  <2>1. outcome[p] = None
    BY NotHandled DEF Cut, Idle
  <2>2. Db!GiveUp(p) /\ call' = call
    BY <1>2 DEF Cut, Die
  <2>3. asked' = asked
    BY <2>2 DEF asked
  <2>4. Goods!Fail(p)
    BY <2>1, <2>2, <2>3 DEF Db!GiveUp, Db!data, Goods!Fail, Goods!data
  <2> QED
    BY <1>2, <2>4 DEF Cut, CutWrapped
<1> QED
  BY <1>1, <1>2

(* What the server carries out late takes effect late in Api.              *)
LEMMA SettleMaps ==
    ASSUME DbP!Inv, DbP!AllTold, InvalidQueued, NEW p \in Requests, Settle(p)
    PROVE  TakeEffect(p) \/ UNCHANGED apiVars
<1>1. CASE Db!ServerRollback(p) /\ UNCHANGED effects
  BY <1>1 DEF Settle, Db!ServerRollback, Db!data, apiVars, durableVars, vars, tables
<1>2. CASE /\ Db!ServerCommit(p)
           /\ effects' = IF Wrapped(p) THEN effects \cup {p} ELSE effects
  <2>1. ~Invalid(asked[p])
    BY <1>2 DEF InvalidQueued, Db!ServerCommit, Db!Goto
  <2>2. DbP!Atomic!Belated(p)
    BY <1>2, SameDb, DbServer
  <2>3. Goods!Belated(p)
    BY <2>1, <2>2, SameShop DEF Settle
  <2> QED
    BY <1>2, <2>3 DEF Settle, TakeEffect
<1> QED
  BY <1>1, <1>2 DEF Settle

(* Every step of the service is a step of Api, or none.                    *)
LEMMA ServiceMaps ==
    ASSUME DbP!Inv, DbP!AllTold, InvalidQueued, ApiInv, DirectPending,
           [ServiceNext]_serviceVars
    PROVE  [ApiNext]_apiVars
<1>1. ASSUME NEW p \in Requests, Work(p) PROVE [ApiNext]_apiVars
  BY <1>1, WorkMaps DEF ApiNext
<1>2. ASSUME NEW p \in Requests, TurnDown(p) PROVE ApiNext
  BY <1>2 DEF TurnDown, ApiNext
<1>3. ASSUME NEW p \in Requests, Cut(p) PROVE ApiNext
  BY <1>3, CutMaps DEF ApiNext
<1>4. ASSUME NEW p \in Requests, Layer(p) PROVE ApiNext
  BY <1>4 DEF Layer, ApiNext
<1>5. ASSUME NEW p \in Requests, Settle(p) PROVE [ApiNext]_apiVars
  BY <1>5, SettleMaps DEF ApiNext
<1>6. ASSUME Surroundings PROVE ApiNext
  BY <1>6 DEF ApiNext
<1>7. ASSUME UNCHANGED serviceVars PROVE UNCHANGED apiVars
  BY <1>7 DEF serviceVars
<1> QED
  BY <1>1, <1>2, <1>3, <1>4, <1>5, <1>6, <1>7 DEF ServiceNext

(* The invariants of Api hold of the service.                              *)
LEMMA ServiceInvHolds == ServiceSpec => [](InvalidQueued /\ DirectPending /\ ApiInv)
<1>1. ServiceInit => InvalidQueued /\ DirectPending /\ ApiInv
  <2>1. ServiceInit => InvalidQueued
    BY DEF ServiceInit, InvalidQueued
  <2>2. ServiceInit => DirectPending
    BY DEF ServiceInit, ApiInit, DirectPending
  <2>3. ServiceInit => ApiInv
    BY ApiInitInv DEF ServiceInit
  <2> QED
    BY <2>1, <2>2, <2>3
<1>2. /\ DbP!Inv /\ DbP!AllTold /\ DbP!AllAccounted
      /\ InvalidQueued /\ DirectPending /\ ApiInv
      /\ [ServiceNext]_serviceVars
      => (InvalidQueued /\ DirectPending /\ ApiInv)'
  BY InvalidQueuedNext, DirectPendingNext, ServiceMaps, ApiNextInv
<1> QED
  BY <1>1, <1>2, ServiceDbHolds, PTL DEF ServiceSpec

(* The service, statement by statement, does what Api says of requests     *)
(* that are carried out at once and alone.                                 *)
THEOREM ServiceImplements == ServiceSpec => ImplementsApi
<1>1. ServiceInit => ApiInit
  BY DEF ServiceInit
<1>2. /\ DbP!Inv /\ DbP!AllTold /\ DbP!AllAccounted
      /\ InvalidQueued /\ DirectPending /\ ApiInv
      /\ [ServiceNext]_serviceVars
      => [ApiNext]_apiVars
  BY ServiceMaps
<1> QED
  BY <1>1, <1>2, ServiceDbHolds, ServiceInvHolds, PTL DEF ServiceSpec, ImplementsApi, ApiSpec

(* What a client may conclude from a status is true of the service with    *)
(* its transactions.                                                       *)
THEOREM ServiceSettles == ServiceSpec => []StatusSettlesTheKey
BY ServiceImplements, StatusSettles, PTL DEF ImplementsApi

-----------------------------------------------------------------------------
(* What the keys are charged.                                              *)

(* As Catalog counts them, the decreases of a product that took effect.    *)
LEMMA SameDecreases ==
    ASSUME DbP!AllTold, InvalidQueued, ApiInv, NEW i
    PROVE  DbP!Sold(i) =
              UNION {{p} \X (1..asked[p].quantity) : p \in Decreases(i)}
<1>1. applied \subseteq Requests
  BY DEF ApiInv, ApiTypeOK
<1>2. ASSUME NEW p \in applied PROVE orders[p] = asked[p]
  <2>1. stage[p] # "queued"
    BY <1>1, <1>2 DEF DbP!AllTold, DbP!Told, DbP!Ended
  <2> QED
    BY <1>1, <1>2, <2>1 DEF InvalidQueued, orders
<1>3. Decreases(i) =
        {p \in applied : orders[p].kind = "decreaseStock" /\ orders[p].product = i}
  BY <1>2 DEF Decreases
<1>4. \A p \in Decreases(i) : orders[p].quantity = asked[p].quantity
  BY <1>2 DEF Decreases
<1> QED
  BY <1>3, <1>4 DEF DbP!Sold

(* A key that has not lapsed has paid for one decrease.                    *)
LEMMA OnePerKey ==
    ASSUME ApiInv, NEW i, NEW p \in Decreases(i), NEW q \in Decreases(i),
           call[p].key = call[q].key, call[p].key \notin lapsed
    PROVE  p = q
<1>1. p \in Requests /\ q \in Requests /\ p \in applied /\ q \in applied
  BY DEF Decreases, ApiInv, ApiTypeOK
<1>2. Wrapped(p) /\ Wrapped(q)
  BY <1>1 DEF Decreases, asked, Wrapped, Idempotent
<1>3. Started(p) /\ Started(q)
  BY <1>1, <1>2, AppliedStarted
<1>4. OneStartUnlessLapsed
  BY DEF ApiInv, DurableInv, StartedHolds, OneStartUnlessLapsed, Held
<1> QED
  BY <1>1, <1>3, <1>4 DEF OneStartUnlessLapsed

(* Then there are as many units bought under keys as units sold.           *)
LEMMA SameUnits ==
    ASSUME DbP!AllTold, InvalidQueued, ApiInv, NEW i, IsFiniteSet(DbP!Sold(i)),
           \A p \in Decreases(i) : call[p].key \notin lapsed
    PROVE  Cardinality(BoughtUnder(i)) = Cardinality(DbP!Sold(i))
<1> DEFINE Under == [u \in DbP!Sold(i) |-> <<call[u[1]].key, u[2]>>]
<1>1. \A u : u \in DbP!Sold(i) <=>
                \E p \in Decreases(i) : \E n \in 1..asked[p].quantity : u = <<p, n>>
  BY SameDecreases
<1>2. \A b : b \in BoughtUnder(i) <=>
                \E p \in Decreases(i) : \E n \in 1..asked[p].quantity :
                    b = <<call[p].key, n>>
  BY DEF BoughtUnder
<1>3. Under \in [DbP!Sold(i) -> BoughtUnder(i)]
  BY <1>1, <1>2
<1>4. ASSUME NEW u \in DbP!Sold(i), NEW v \in DbP!Sold(i), Under[u] = Under[v]
      PROVE  u = v
  <2>1. PICK p \in Decreases(i) :
            \E n \in 1..asked[p].quantity : u = <<p, n>>
    BY <1>1
  <2>2. PICK q \in Decreases(i) :
            \E m \in 1..asked[q].quantity : v = <<q, m>>
    BY <1>1
  <2>3. call[p].key = call[q].key /\ u[2] = v[2]
    BY <1>4, <2>1, <2>2
  <2>4. p = q
    BY <2>3, OnePerKey
  <2> QED
    BY <2>1, <2>2, <2>3, <2>4
<1>5. ASSUME NEW b \in BoughtUnder(i) PROVE \E u \in DbP!Sold(i) : Under[u] = b
  <2>1. PICK p \in Decreases(i) :
            \E n \in 1..asked[p].quantity : b = <<call[p].key, n>>
    BY <1>2
  <2>2. PICK n \in 1..asked[p].quantity : b = <<call[p].key, n>>
    BY <2>1
  <2>3. <<p, n>> \in DbP!Sold(i) /\ Under[<<p, n>>] = b
    BY <1>1, <2>2
  <2> QED
    BY <2>3
<1>6. Under \in Bijection(DbP!Sold(i), BoughtUnder(i))
  BY <1>3, <1>4, <1>5 DEF Bijection, Injection, Surjection, IsInjective
<1>7. ExistsBijection(DbP!Sold(i), BoughtUnder(i))
  BY <1>6 DEF ExistsBijection
<1> QED
  BY <1>7, FS_Bijection

(* Whatever is retried, lost, crashes or is carried out late, a product is *)
(* short of what has been bought under its keys.                           *)
THEOREM KeysCharged == ServiceSpec => []ChargedPerKey
<1>1. /\ DbP!Inv /\ DbP!AllTold /\ DbP!AllAccounted
      /\ InvalidQueued /\ DirectPending /\ ApiInv
      => ChargedPerKey
  <2> SUFFICES ASSUME DbP!AllTold, DbP!AllAccounted, InvalidQueued, ApiInv,
                      NEW i \in Db!ProductIds, products[i] # None,
                      \A p \in Decreases(i) : call[p].key \notin lapsed
               PROVE  products[i].stock = Db!Origin(i) - Cardinality(BoughtUnder(i))
    BY DEF ChargedPerKey
  <2>1. DbP!Accounted(i)
    BY DEF DbP!AllAccounted, DbP!ProductIds, Db!ProductIds
  <2>2. /\ IsFiniteSet(DbP!Sold(i))
        /\ products[i].stock = DbP!Origin(i) - Cardinality(DbP!Sold(i))
    BY <2>1, SameSize DEF DbP!Accounted
  <2>3. DbP!Origin(i) = Db!Origin(i)
    BY DEF DbP!Origin, Db!Origin
  <2> QED
    BY <2>2, <2>3, SameUnits
<1> QED
  BY <1>1, ServiceDbHolds, ServiceInvHolds, PTL
-----------------------------------------------------------------------------
(* What holds of the layer over Redis, and of the tables under PostgreSQL, *)
(* each with any clients of its own, holds of the two in one service.      *)

(* The service answers every key once: through leases, retries, crashes of *)
(* Redis and of the process, and transactions that are carried out late,   *)
(* no client is told an answer its key was not settled with.               *)
THEOREM ServiceAnswersOnce == ServiceSpec => ImplementsRegister
<1>1. ServiceSpec => DurableSpec
  BY ServiceImplements, LayerImplemented, PTL DEF ImplementsApi, ImplementsLayer
<1> QED
  BY <1>1, DurableImplements, PTL

(* The handler of a key is started again only when its record has lapsed,  *)
(* however long a transaction keeps the first one waiting.                 *)
THEOREM ServiceStartsOnce == ServiceSpec => []OneStartUnlessLapsed
<1>1. ServiceSpec => DurableSpec
  BY ServiceImplements, LayerImplemented, PTL DEF ImplementsApi, ImplementsLayer
<1> QED
  BY <1>1, StartedOnce, PTL

(* Whatever becomes of requests, processes and connections, no row of the  *)
(* service refers to one that is gone, no product has two pictures, what a *)
(* decrease decided of the stock holds until it is committed, and tries of *)
(* an image's creation, which pass the layer by, give one image.           *)
THEOREM ServiceTables ==
    ServiceSpec =>
        [](Db!ReferentialIntegrity /\ Db!StockDecisionHolds /\ Db!TriesMakeOneImage)
<1>1. DbP!ReferentialIntegrity => Db!ReferentialIntegrity
  BY DEF DbP!ReferentialIntegrity, Db!ReferentialIntegrity, DbP!ProductIds, Db!ProductIds,
         DbP!ImageIds, Db!ImageIds, DbP!PicturesOf, Db!PicturesOf
<1>2. DbP!StockDecisionHolds => Db!StockDecisionHolds
  BY DEF DbP!StockDecisionHolds, Db!StockDecisionHolds, DbP!Subtractable, Db!Subtractable
<1>3. DbP!TriesMakeOneImage => Db!TriesMakeOneImage
  BY DEF DbP!TriesMakeOneImage, Db!TriesMakeOneImage, DbP!Given, Db!Given, DbP!Dropped,
         Db!Dropped, DbP!ProductIds, Db!ProductIds
<1>4. DbP!Spec =>
        [](DbP!ReferentialIntegrity /\ DbP!StockDecisionHolds /\ DbP!TriesMakeOneImage)
  BY DbP!References, DbP!DecisionHolds, DbP!TriesAddUp, DbConstants, PTL
<1> QED
  BY <1>1, <1>2, <1>3, <1>4, ServiceIsDb, PTL

(* The transactions that requests wait for, while their claims age, never  *)
(* wait for each other in a circle, nor for a pool that none gives back.   *)
THEOREM ServiceNeverDeadlocks == ServiceSpec => []Db!NoDeadlock
<1>1. \A r \in Requests : Db!Awaited(r) = DbP!Awaited(r)
  BY DEF Db!Awaited, DbP!Awaited, Db!SingleStatement, DbP!SingleStatement, Db!ProductsOf,
         DbP!ProductsOf, Db!Pictured, DbP!Pictured, Db!PicturesOf, DbP!PicturesOf,
         Db!ImageIds, DbP!ImageIds, Db!ProductIds, DbP!ProductIds
<1>2. Db!ConnectionFree <=> DbP!ConnectionFree
  BY SamePool
<1>3. \A r \in Requests : \A S :
        Db!WaitsOn(r, Db!Awaited(r), S) <=> DbP!WaitsOn(r, DbP!Awaited(r), S)
  BY <1>1, <1>2 DEF Db!WaitsOn, DbP!WaitsOn, Db!Keeps, DbP!Keeps, Db!Connected,
                    DbP!Connected, Db!Ended, DbP!Ended
<1>4. DbP!NoDeadlock => Db!NoDeadlock
  BY <1>3 DEF DbP!NoDeadlock, Db!NoDeadlock, DbP!Finished, Db!Finished
<1>5. DbP!Spec => []DbP!NoDeadlock
  BY DbP!NobodyDeadlocks, DbConstants
<1> QED
  BY <1>4, <1>5, ServiceIsDb, PTL

=============================================================================
