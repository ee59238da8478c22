------------------------ MODULE MCShortLinkCreation ------------------------
(* Instances of ShortLinkCreation for TLC.                                  *)
EXTENDS ShortLinkCreation, TLC

CONSTANTS r1, r2, r3, o1, o2, k1, b1, b2, c1, c2, c3, free, pro

TwoRequests   == {r1, r2}
ThreeRequests == {r1, r2, r3}
OneOwner      == {o1}
TwoOwners     == {o1, o2}
OneKey        == {k1}
NoKeys        == {}
TwoBodies     == {b1, b2}
OneBody       == {b1}
OnePlan       == {free}
TwoPlans      == {free, pro}
TwoCodes      == {c1, c2}
ReservedCode  == {c2}
NoneReserved  == {}
\* Plans differ in both limits; the free one of the migrations has no endpoints.
Limit(l, e)   == [w \in What |-> IF w = "link" THEN l ELSE e]
TwoLimits     == {Limit(1, 0), Limit(2, 1)}
LimitThree    == {Limit(3, 3)}

Post(o, k, b, a) == [what |-> "link", owner |-> o, key |-> k, body |-> b, alias |-> a]
Endpoint(o)      == [what |-> "endpoint", owner |-> o, key |-> NoKey, body |-> b1,
                     alias |-> Generated]

\* Retries under one key, with the same or another body, an alias or not.
KeyedData ==
    {Post(o1, k1, b, Generated) : b \in {b1, b2}} \cup {Post(o1, NoKey, b1, c1)}

\* Plain creations of one owner.
PlainOneOwner == {Post(o1, NoKey, b1, a) : a \in {Generated, c1}} \cup {Endpoint(o1)}

\* Waits of every sort: for a claim, for a subscription, for a plan, for a code.
MixedData ==
    {Post(o1, k1, b1, Generated), Post(o1, NoKey, b1, c1),
     Post(o2, NoKey, b1, c1), Endpoint(o1)}

Symmetry2 == Permutations(TwoRequests)
Symmetry3 == Permutations(ThreeRequests)
=============================================================================
