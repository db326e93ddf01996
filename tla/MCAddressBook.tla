--------------------------- MODULE MCAddressBook ---------------------------
(***************************************************************************)
(* An instance of AddressBook for TLC.                                     *)
(***************************************************************************)
EXTENDS AddressBook, TLC

CONSTANTS client, supplier, here, there

MCSeed == client :> here @@ supplier :> here

On(k, o) == [kind |-> k, owner |-> o]
Move(o) == [kind |-> "update", owner |-> o, address |-> there]

(* A client, a supplier with products, and what can then be done with an   *)
(* owner that a request has created.                                       *)
AllOps ==
    {[kind |-> "create", address |-> here], [kind |-> "list"],
     On("delete", client), On("delete", supplier), On("read", client), Move(client)}
    \cup {On("delete", r) : r \in Requests}
    \cup {Move(r) : r \in Requests}

Symmetry == Permutations(Requests)

=============================================================================
