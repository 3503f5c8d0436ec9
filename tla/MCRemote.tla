------------------------------ MODULE MCRemote ------------------------------
\* Two managers resolve two price changes and a request of a type the node
\* does not know, which a client sends under the key of the first one.
EXTENDS RemoteRequests, TLC

CONSTANTS r1, r2, r3, k1, k2

MCKeyOf == r1 :> k1 @@ r2 :> k2 @@ r3 :> k1
MCKind == r1 :> "price" @@ r2 :> "price" @@ r3 :> "other"
MCWanted == [r \in Requests |-> [sku |-> "a", price |-> IF r = r2 THEN 2 ELSE 1]]
=============================================================================
