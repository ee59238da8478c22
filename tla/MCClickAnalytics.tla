--------------------------- MODULE MCClickAnalytics ---------------------------
(* Instances of ClickAnalytics for TLC.                                     *)
EXTENDS ClickAnalytics

CONSTANTS a1, a2, w1, w2

TwoRedirects == {a1, a2}
TwoWorkers   == {w1, w2}
=============================================================================
