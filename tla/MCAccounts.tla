------------------------------ MODULE MCAccounts ------------------------------
(* Instances of Accounts for TLC.                                          *)
EXTENDS Accounts, TLC

CONSTANTS r1, r2, r3, empty, ann, p1, p2, older

ThreeRequests == {r1, r2, r3}
TwoValues     == {empty, ann}
TwoPrefixes   == {p1, p2}

Ask(op, auth, name, avatar) ==
    [op |-> op, auth |-> auth, asked |-> [f \in Field |-> IF f = "name" THEN name ELSE avatar]]

Register  == Ask("register", "none", ann, Omitted)
Google    == Ask("google", "none", ann, Omitted)
Name      == Ask("patch", "jwt", ann, Omitted)
Avatar    == Ask("patch", "key", Omitted, ann)
CreateKey == Ask("create key", "jwt", Omitted, Omitted)
Revoke    == Ask("revoke", "jwt", Omitted, Omitted)
Me        == Ask("me", "key", Omitted, Omitted)

\* Registrations that race, profile changes of one field each, the life of a key.
MixedLoads ==
    UNION {[Request -> d] : d \in {{Register, Google}, {Google, Name, Avatar},
                                   {CreateKey, Revoke, Me}}}

BothFields == {[active |-> TRUE, profile |-> [f \in Field |-> ann]]}

Symmetry == Permutations(ThreeRequests) \cup Permutations(TwoPrefixes)
=============================================================================
