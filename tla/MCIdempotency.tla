--------------------------- MODULE MCIdempotency -----------------------------
(* Instances of Idempotency for TLC.                                        *)
EXTENDS Idempotency

CONSTANTS i1, i2, k1, r1, r2, r3, h1, h2

\* One key: a call, its repetition under an id of its own (the server's uuid),
\* and a call with another payload that names the first one's id.
OneKey == [r \in Requests |-> k1]
Repeated == (r1 :> i1) @@ (r2 :> i2) @@ (r3 :> i1)
TwoPayloads == (r1 :> h1) @@ (r2 :> h1) @@ (r3 :> h2)

WebhookOnly == {WebhookFailed}
=============================================================================
