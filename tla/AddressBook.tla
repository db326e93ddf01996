---------------------------- MODULE AddressBook ----------------------------
(***************************************************************************)
(* The repositories of clients and of suppliers, as far as they deal with  *)
(* an owner's row and its row in addresses: the two run the same           *)
(* statements (api-service/internal/repositories/{client,supplier}.go).    *)
(*                                                                         *)
(* A transaction's writes are kept aside until its Commit makes them       *)
(* visible.  Ids are random: an owner and the address it is created with   *)
(* have the request that creates them for id.                              *)
(***************************************************************************)
EXTENDS Transactions

CONSTANTS
    SeedAddresses,      \* owners at the start: [id -> address]
    Addresses,          \* what an address may say
    InUse,              \* suppliers that products refer to
    Asked,              \* the operations that requests ask for
    None

Owners == Requests \cup DOMAIN SeedAddresses

Ops ==
    [kind: {"create"}, address: Addresses]
    \cup [kind: {"delete", "read"}, owner: Owners]
    \cup [kind: {"update"}, owner: Owners, address: Addresses]
    \cup [kind: {"list"}]

(* Operations of a single statement, run without an explicit transaction.  *)
SingleStatement == {"update", "read", "list"}

ASSUME AskedAssumption == Asked \subseteq Ops

ASSUME SeedAssumption ==
    /\ SeedAddresses \in [DOMAIN SeedAddresses -> Addresses]
    /\ Requests \cap DOMAIN SeedAddresses = {}
    /\ InUse \subseteq DOMAIN SeedAddresses

ASSUME NoneAssumption ==
    None \notin Addresses \cup {"ok", "notFound", "inUse", "error"}

VARIABLES
    owners,     \* committed rows of clients and suppliers
    addresses,  \* committed rows of addresses, by the owner's id, or None
    op,         \* op[r]: what request r asks for
    wrote,      \* wrote[r]: the writes of r's transaction
    outcome,    \* outcome[r]: the result of r, or None
    shown,      \* shown[r]: the rows <<owner, address>> that r's reply has
    applied     \* the requests that have taken effect (history variable)

data == <<owners, addresses>>
vars == <<owners, addresses, op, pc, held, wrote, outcome, shown, applied>>

Rows == {"owner", "address"} \X Owners
Writes == {"insertAddress", "insertOwner", "deleteOwner", "deleteAddress"}
Stages == {"begun", "addressed", "locked", "disowned", "ready", "refusing"}

TypeOK ==
    /\ owners \in SUBSET Owners
    /\ addresses \in [Owners -> Addresses \cup {None}]
    /\ op \in [Requests -> Asked]
    /\ pc \in [Requests -> {"queued"} \cup Stages \cup Ended]
    /\ held \in [Requests -> SUBSET (Rows \X Modes)]
    /\ wrote \in [Requests -> SUBSET Writes]
    /\ outcome \in [Requests -> {"ok", "notFound", "inUse", "error", None}]
    /\ shown \in [Requests -> SUBSET (Owners \X Addresses)]
    /\ applied \in SUBSET Requests

Init ==
    /\ owners = DOMAIN SeedAddresses
    /\ addresses = [o \in Owners |->
                    IF o \in DOMAIN SeedAddresses THEN SeedAddresses[o] ELSE None]
    /\ op \in [Requests -> Asked]
    /\ pc = [r \in Requests |-> "queued"]
    /\ held = [r \in Requests |-> {}]
    /\ wrote = [r \in Requests |-> {}]
    /\ outcome = [r \in Requests |-> None]
    /\ shown = [r \in Requests |-> {}]
    /\ applied = {}

(* pool.BeginTx and pool.QueryRow wait for a connection of the pool.       *)
Begin(r) ==
    /\ ConnectionFree
    /\ Goto(r, "queued", "begun")
    /\ UNCHANGED <<data, op, held, wrote, outcome, shown, applied>>

(* A statement of r's transaction that writes, and goes on to stage to.    *)
Write(r, from, write, to) ==
    /\ Goto(r, from, to)
    /\ wrote' = [wrote EXCEPT ![r] = @ \cup {write}]
    /\ UNCHANGED <<data, op, outcome, shown, applied>>

-----------------------------------------------------------------------------
(* Create: the address first, as the owner's row refers to it.             *)

InsertAddress(r) ==
    /\ op[r].kind = "create"
    /\ Write(r, "begun", "insertAddress", "addressed")
    /\ UNCHANGED held

InsertOwner(r) ==
    /\ op[r].kind = "create"
    /\ Write(r, "addressed", "insertOwner", "ready")
    /\ UNCHANGED held

(* Delete: the owner first, as its row refers to the address.              *)

(* SELECT address_id ... FOR UPDATE; no row is a success.                  *)
LockOwner(r) ==
    /\ op[r].kind = "delete"
    /\ Lockable(r, <<"owner", op[r].owner>>, "update")
    /\ \/ /\ op[r].owner \in owners
          /\ Goto(r, "begun", "locked")
          /\ Lock(r, <<"owner", op[r].owner>>, "update")
          /\ UNCHANGED <<data, op, wrote, outcome, shown, applied>>
       \/ /\ op[r].owner \notin owners
          /\ Goto(r, "begun", "refusing")
          /\ outcome' = [outcome EXCEPT ![r] = "ok"]
          /\ applied' = applied \cup {r}
          /\ UNCHANGED <<data, op, held, wrote, shown>>

(* Mutant: a supplier in use is waited for, not refused.                   *)
DeleteOwnerPatient(r) ==
    /\ op[r].kind = "delete"
    /\ op[r].owner \notin InUse
    /\ Write(r, "locked", "deleteOwner", "disowned")
    /\ UNCHANGED held

DeleteOwner(r) ==
    /\ op[r].kind = "delete"
    /\ \/ /\ op[r].owner \notin InUse
          /\ Write(r, "locked", "deleteOwner", "disowned")
          /\ UNCHANGED held
       \/ /\ op[r].owner \in InUse
          /\ Goto(r, "locked", "refusing")
          /\ outcome' = [outcome EXCEPT ![r] = "inUse"]
          /\ UNCHANGED <<data, op, held, wrote, shown, applied>>

(* Mutant: the address of a deleted owner is left behind.                  *)
DeleteAddressForgotten(r) ==
    /\ op[r].kind = "delete"
    /\ Goto(r, "disowned", "ready")
    /\ UNCHANGED <<data, op, held, wrote, outcome, shown, applied>>

DeleteAddress(r) ==
    /\ op[r].kind = "delete"
    /\ Lock(r, <<"address", op[r].owner>>, "update")
    /\ Write(r, "disowned", "deleteAddress", "ready")

-----------------------------------------------------------------------------
(* The ends of a transaction.                                              *)

(* What becomes visible when r commits.                                    *)
Effect(r) ==
    /\ owners' = CASE "insertOwner" \in wrote[r] -> owners \cup {r}
                   [] "deleteOwner" \in wrote[r] -> owners \ {op[r].owner}
                   [] OTHER -> owners
    /\ addresses' = CASE "insertAddress" \in wrote[r] ->
                            [addresses EXCEPT ![r] = op[r].address]
                      [] "deleteAddress" \in wrote[r] ->
                            [addresses EXCEPT ![op[r].owner] = None]
                      [] op[r].kind = "update" ->
                            [addresses EXCEPT ![op[r].owner] = op[r].address]
                      [] OTHER -> addresses
    /\ applied' = applied \cup {r}

Commit(r) ==
    /\ Goto(r, "ready", "done")
    /\ Effect(r)
    /\ Unlock(r)
    /\ outcome' = [outcome EXCEPT ![r] = "ok"]
    /\ UNCHANGED <<op, wrote, shown>>

(* Mutant: the early return leaves the transaction open.                   *)
RollbackForgotten(r) ==
    /\ Goto(r, "refusing", "done")
    /\ UNCHANGED <<data, op, held, wrote, outcome, shown, applied>>

Rollback(r) ==
    /\ Goto(r, "refusing", "done")
    /\ Unlock(r)
    /\ UNCHANGED <<data, op, wrote, outcome, shown, applied>>

-----------------------------------------------------------------------------
(* The operations of one statement.                                        *)

(* The owner's row joined with that of its address.                        *)
Joined(o) == o \in owners /\ addresses[o] # None

(* Mutant: UPDATE waits for nobody and reports what it was given.          *)
UpdateAddressBlindly(r) ==
    /\ op[r].kind = "update"
    /\ Goto(r, "begun", "done")
    /\ Effect(r)
    /\ outcome' = [outcome EXCEPT ![r] = "ok"]
    /\ shown' = [shown EXCEPT ![r] = {<<op[r].owner, op[r].address>>}]
    /\ UNCHANGED <<op, held, wrote>>

(* UPDATE addresses ... FROM clients ... RETURNING: the owner's row is     *)
(* joined without a lock, the address's row is locked, once whoever        *)
(* deletes it has committed or rolled back.                                *)
UpdateAddress(r) ==
    /\ op[r].kind = "update"
    /\ Goto(r, "begun", "done")
    /\ \/ /\ Joined(op[r].owner)
          /\ Lockable(r, <<"address", op[r].owner>>, "update")
          /\ Effect(r)
          /\ outcome' = [outcome EXCEPT ![r] = "ok"]
          /\ shown' = [shown EXCEPT ![r] = {<<op[r].owner, op[r].address>>}]
       \/ /\ ~Joined(op[r].owner)
          /\ outcome' = [outcome EXCEPT ![r] = "notFound"]
          /\ UNCHANGED <<data, shown, applied>>
    /\ UNCHANGED <<op, held, wrote>>

(* Mutant: the row is used although the query has found none.              *)
ReadUnchecked(r) ==
    /\ op[r].kind = "read"
    /\ Goto(r, "begun", "done")
    /\ outcome' = [outcome EXCEPT ![r] = "ok"]
    /\ shown' = [shown EXCEPT ![r] = {<<op[r].owner, addresses[op[r].owner]>>}]
    /\ applied' = applied \cup {r}
    /\ UNCHANGED <<data, op, held, wrote>>

(* GetAddress, and GetByID of suppliers.                                   *)
Read(r) ==
    /\ op[r].kind = "read"
    /\ Goto(r, "begun", "done")
    /\ \/ /\ Joined(op[r].owner)
          /\ outcome' = [outcome EXCEPT ![r] = "ok"]
          /\ shown' = [shown EXCEPT ![r] = {<<op[r].owner, addresses[op[r].owner]>>}]
          /\ applied' = applied \cup {r}
       \/ /\ ~Joined(op[r].owner)
          /\ outcome' = [outcome EXCEPT ![r] = "notFound"]
          /\ UNCHANGED <<shown, applied>>
    /\ UNCHANGED <<data, op, held, wrote>>

(* List, without a filter or a page.                                       *)
List(r) ==
    /\ op[r].kind = "list"
    /\ Goto(r, "begun", "done")
    /\ outcome' = [outcome EXCEPT ![r] = "ok"]
    /\ shown' = [shown EXCEPT ![r] = {<<o, addresses[o]>> : o \in {x \in Owners : Joined(x)}}]
    /\ applied' = applied \cup {r}
    /\ UNCHANGED <<data, op, held, wrote>>

-----------------------------------------------------------------------------
(* COMMIT, or the only statement, may have been sent.                      *)
Sent(r) == pc[r] = "ready" \/ (pc[r] = "begun" /\ op[r].kind \in SingleStatement)

(* The request's context is done or its connection breaks.                 *)
GiveUp(r) ==
    /\ Break(r, Sent(r))
    /\ outcome' = [outcome EXCEPT ![r] = IF @ = None THEN "error" ELSE @]
    /\ UNCHANGED <<data, op, held, wrote, shown, applied>>

(* The server rolls an abandoned transaction back ...                      *)
ServerRollback(r) ==
    /\ \E from \in {"abandoned", "inDoubt"} : Goto(r, from, "done")
    /\ Unlock(r)
    /\ UNCHANGED <<data, op, wrote, outcome, shown, applied>>

(* ... or carries out what it was sent.                                    *)
ServerCommit(r) ==
    /\ Goto(r, "inDoubt", "done")
    /\ op[r].kind = "update" =>
        Joined(op[r].owner) /\ Lockable(r, <<"address", op[r].owner>>, "update")
    /\ op[r].kind \notin {"read", "list"}
    /\ Effect(r)
    /\ Unlock(r)
    /\ UNCHANGED <<op, wrote, outcome, shown>>

Statement(r) ==
    \/ InsertAddress(r) \/ InsertOwner(r)
    \/ LockOwner(r) \/ DeleteOwner(r) \/ DeleteAddress(r)
    \/ Commit(r) \/ Rollback(r)
    \/ UpdateAddress(r) \/ Read(r) \/ List(r)

Next ==
    \E r \in Requests :
        Begin(r) \/ Statement(r) \/ GiveUp(r) \/ ServerRollback(r) \/ ServerCommit(r)

Spec == Init /\ [][Next]_vars

-----------------------------------------------------------------------------
(* Owners and addresses come and go together: no client or supplier is     *)
(* left without its address, no address without its owner.                 *)
NoOrphans == \A o \in Owners : o \in owners <=> addresses[o] # None

H == INSTANCE Handlers

(* What the routes of suppliers and of clients make of a result.           *)
SupplierReplies(kind, result) ==
    CASE kind = "create" -> {H!createSupplier(result)}
      [] kind = "list" -> {H!getSuppliers(result)}
      [] kind = "read" -> {H!getSupplier(result), H!getSupplierAddress(result)}
      [] kind = "update" -> {H!updateSupplierAddress(result)}
      [] kind = "delete" -> {H!deleteSupplier(result)}

ClientReplies(kind, result) ==
    CASE kind = "create" -> {H!createClient(result)}
      [] kind = "list" -> {H!getClients(result)}
      [] kind = "read" -> {H!getClientAddress(result)}
      [] kind = "update" -> {H!updateClientAddress(result)}
      [] kind = "delete" -> {H!deleteClient(result)}

(* The replies that r may be given, as a request about a supplier or about *)
(* a client; nothing refers to clients.                                    *)
Replies(r) ==
    SupplierReplies(op[r].kind, outcome[r])
    \cup IF op[r].kind = "delete" /\ op[r].owner \in InUse THEN {}
         ELSE ClientReplies(op[r].kind, outcome[r])

(* A status is final: a success has taken effect, a 4xx has not and never  *)
(* will, not even by a statement that the server has yet to carry out, and *)
(* no refusal is passed off as a failure.                                  *)
StatusIsTrue ==
    \A r \in Requests : outcome[r] # None =>
        \A reply \in Replies(r) :
            /\ H!Succeeded(reply) => r \in applied
            /\ H!Refused(reply) => r \notin applied /\ pc[r] # "inDoubt"
            /\ H!Failed(reply) => outcome[r] = "error"

(* Statement by statement, and whatever fails, the two tables are one      *)
(* directory, in which each request is carried out at once and alone; an   *)
(* update that meets a deletion either precedes it or finds nobody.        *)
Book ==
    INSTANCE Directory WITH
        Ops <- Asked,
        SeedDirectory <- [o \in Owners |->
                    IF o \in DOMAIN SeedAddresses THEN SeedAddresses[o] ELSE None],
        directory <- [o \in Owners |-> IF o \in owners THEN addresses[o] ELSE None]

ImplementsDirectory == Book!Spec

(* The lock that the next statement of r waits for.                        *)
Awaited(r) ==
    CASE op[r].kind = "delete" /\ pc[r] = "begun" ->
            {<<<<"owner", op[r].owner>>, "update">>}
      [] \/ op[r].kind = "delete" /\ pc[r] = "disowned"
         \/ op[r].kind = "update" /\ pc[r] = "begun" /\ Joined(op[r].owner) ->
            {<<<<"address", op[r].owner>>, "update">>}
      [] OTHER -> {}

(* No set of requests waits on itself, be it for locks or connections, nor *)
(* for what a request has kept that is over.                               *)
NoDeadlock ==
    \A S \in SUBSET (Requests \ Finished) :
        S # {} => \E r \in S : ~WaitsOn(r, Awaited(r), S \cup Finished)

(* A request can go on, if nobody gives up, unless a lock or the pool      *)
(* stops it.                                                               *)
OnlyWaitersStop ==
    \A r \in Requests :
        pc[r] # "done" =>
            (ENABLED (Begin(r) \/ Statement(r) \/ ServerRollback(r))
                <=> ~Stopped(r, Awaited(r)))

=============================================================================
