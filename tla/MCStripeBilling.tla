-------------------------- MODULE MCStripeBilling --------------------------
(* Instances of StripeBilling for TLC.                                      *)
EXTENDS StripeBilling, TLC

CONSTANTS c1, c2, c3, h1, h2

OneCheckout    == {c1}
TwoCheckouts   == {c1, c2}
ThreeCheckouts == {c1, c2, c3}
OneHandler     == {h1}
TwoHandlers    == {h1, h2}

Symmetry == Permutations(Checkout) \cup Permutations(Handler)
=============================================================================
