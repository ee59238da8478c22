------------------------- MODULE MCWebhookDelivery -------------------------
(* Instances of WebhookDelivery for TLC.                                    *)
EXTENDS WebhookDelivery, TLC

CONSTANTS v1, v2, p1, p2, w1, w2, w3

OneEvent     == {v1}
OneEndpoint  == {p1}
TwoEndpoints == {p1, p2}
TwoWorkers   == {w1, w2}
ThreeWorkers == {w1, w2, w3}
Delayed      == {1, 2}
NoFaults     == {}
AllFaults    == FaultKind

Symmetry == Permutations(ThreeWorkers)
=============================================================================
