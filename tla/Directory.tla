----------------------------- MODULE Directory -----------------------------
(***************************************************************************)
(* What the API promises of clients and suppliers and their addresses: one *)
(* directory, in which every owner there is has its address.  Requests are *)
(* carried out in one step each; one that is answered with a server error  *)
(* may still take effect, once, later.                                     *)
(***************************************************************************)

CONSTANTS
    Requests,   \* requests; each is also the id of the owner it creates
    Ops,        \* what a request may ask for
    InUse,      \* owners that products refer to
    None,
    SeedDirectory

VARIABLES
    directory,  \* directory[o]: the address of owner o, or None
    op,         \* op[r]: what request r asks for
    outcome,    \* outcome[r]: its answer, or None
    shown,      \* shown[r]: the rows <<owner, address>> its answer has
    applied     \* the requests that have taken effect

vars == <<directory, op, outcome, shown, applied>>

Init ==
    /\ directory = SeedDirectory
    /\ op \in [Requests -> Ops]
    /\ outcome = [r \in Requests |-> None]
    /\ shown = [r \in Requests |-> {}]
    /\ applied = {}

Listed(o) == directory[o] # None

(* The answer request r deserves in the present state.                     *)
Verdict(r) ==
    CASE op[r].kind \in {"update", "read"} ->
            IF Listed(op[r].owner) THEN "ok" ELSE "notFound"
      [] op[r].kind = "delete" ->
            IF Listed(op[r].owner) /\ op[r].owner \in InUse THEN "inUse" ELSE "ok"
      [] OTHER -> "ok"

Put(o, address) == directory' = [directory EXCEPT ![o] = address]

Effect(r) ==
    /\ r \notin applied
    /\ Verdict(r) = "ok"
    /\ applied' = applied \cup {r}
    /\ \/ op[r].kind = "create" /\ Put(r, op[r].address)
       \/ op[r].kind = "update" /\ Put(op[r].owner, op[r].address)
       \/ op[r].kind = "delete" /\ Put(op[r].owner, None)
       \/ op[r].kind \in {"read", "list"} /\ UNCHANGED directory

(* The rows an answer has: those asked for, after the effect.              *)
Answer(r) ==
    LET asked == CASE op[r].kind \in {"update", "read"} -> {op[r].owner}
                   [] op[r].kind = "list" -> DOMAIN directory
                   [] OTHER -> {}
    IN  {<<o, directory'[o]>> : o \in {x \in asked : directory'[x] # None}}

Serve(r) ==
    /\ outcome[r] = None
    /\ Effect(r)
    /\ outcome' = [outcome EXCEPT ![r] = "ok"]
    /\ shown' = [shown EXCEPT ![r] = Answer(r)]
    /\ UNCHANGED op

Refuse(r) ==
    /\ outcome[r] = None
    /\ Verdict(r) # "ok"
    /\ outcome' = [outcome EXCEPT ![r] = Verdict(r)]
    /\ UNCHANGED <<directory, op, shown, applied>>

Fail(r) ==
    /\ outcome[r] = None
    /\ outcome' = [outcome EXCEPT ![r] = "error"]
    /\ UNCHANGED <<directory, op, shown, applied>>

Belated(r) ==
    /\ outcome[r] = "error"
    /\ Effect(r)
    /\ UNCHANGED <<op, outcome, shown>>

Next == \E r \in Requests : Serve(r) \/ Refuse(r) \/ Fail(r) \/ Belated(r)

Spec == Init /\ [][Next]_vars

=============================================================================
