--------------------------- MODULE MCPersistence ----------------------------
(* Timestamps for the model of Persistence: the client's clock (first and   *)
(* last) and the server's (second and third) are not synchronised.          *)
EXTENDS Persistence

MCStamps ==
    {<<a, b, b + p, a + d>> : a \in {0, 1, 4}, b \in {0, 2}, p \in {0, 1}, d \in {0, 2, 6}}
=============================================================================
