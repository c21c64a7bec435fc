------------------------------ MODULE MCGateway ------------------------------
(***************************************************************************)
(* A small platform: two channels that differ in priority, weight and      *)
(* protocols, a key on each, one model, and one user with two requests.    *)
(***************************************************************************)
EXTENDS Gateway

CONSTANTS c1, c2, m1, k1, k2, p1, u1, r1, r2, v1, v2, t1, t2

MCKeyOwner == [k \in Key |-> p1]
MCProtocols == {{"anthropic-compatible"}, {"openai-compatible", "azure-openai"}}
MCSeedProtocols ==
    [c \in Channel |-> IF c = c1 THEN {"anthropic-compatible"}
                       ELSE {"openai-compatible", "azure-openai"}]
MCSeedHome == [k \in Key |-> IF k = k1 THEN c1 ELSE c2]
MCUserOf == [r \in Request |-> u1]
MCSpecOf == [r \in Request |-> m1]
MCPriority == [c \in Channel |-> 0]
MCWeight == [c \in Channel |-> IF c = c1 THEN 4 ELSE 0]
=============================================================================
