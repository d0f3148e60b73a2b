------------------------------ MODULE Ownership ------------------------------
(***************************************************************************)
(* What a data directory promises, independently of how it is arranged:    *)
(* at most one server incarnation owns it at a time, and the record that   *)
(* tells others how to reach a server is written and withdrawn only by the *)
(* server that owns the directory.  A server may disappear at any time, so *)
(* the record of a dead server can stay behind until the next owner        *)
(* replaces it.                                                            *)
(***************************************************************************)
CONSTANTS Server, NoOne

VARIABLES owner,      \* the server that owns the directory, or NoOne
          published   \* the server the directory's record names, or NoOne

ownershipVars == <<owner, published>>

OwnershipInit == owner = NoOne /\ published = NoOne

Take(s) ==
    /\ owner = NoOne
    /\ owner' = s
    /\ UNCHANGED published

Publish(s) ==
    /\ owner = s
    /\ published' = s
    /\ UNCHANGED owner

Withdraw(s) ==
    /\ owner = s
    /\ published = s
    /\ published' = NoOne
    /\ UNCHANGED owner

Leave(s) ==
    /\ owner = s
    /\ owner' = NoOne
    /\ UNCHANGED published

OwnershipNext ==
    \E s \in Server : Take(s) \/ Publish(s) \/ Withdraw(s) \/ Leave(s)

OwnershipSpec == OwnershipInit /\ [][OwnershipNext]_ownershipVars
=============================================================================
