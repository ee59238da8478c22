------------------------ MODULE MCShortLinkRedirect ------------------------
(* Instances of ShortLinkRedirect for TLC.                                  *)
EXTENDS ShortLinkRedirect, TLC

CONSTANTS c1, c2, u1, u2, r1, w1, w2, k1

OneCode    == {c1}
TwoCodes   == {c1, c2}
TwoUrls    == {u1, u2}
OneReader  == {r1}
OneWriter  == {w1}
TwoWriters == {w1, w2}
OneKey     == {k1}
OwnKeys    == [c \in {c1} |-> k1]
SharedKey  == [c \in {c1, c2} |-> k1]
Lifetimes  == {1, 3, Never}
ShortOrNever == {1, Never}
Eternal    == {Never}

\* A body may name any of the fields.
UrlOrDates == {[url |-> u, active |-> Keep, left |-> Keep] : u \in {u1, u2}}
              \cup {[url |-> Keep, active |-> Keep, left |-> n] : n \in {1, Never}}
              \cup {[url |-> Keep, active |-> a, left |-> Keep] : a \in BOOLEAN}
UrlAndState == {[url |-> u, active |-> a, left |-> Keep] : u \in {u1, u2}, a \in BOOLEAN}
=============================================================================
