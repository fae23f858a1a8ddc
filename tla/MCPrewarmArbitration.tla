------------------------ MODULE MCPrewarmArbitration ------------------------
(* Small instances of PrewarmArbitration.                                    *)
EXTENDS PrewarmArbitration, TLC

CONSTANTS a, b, k1

OrderAB == (a :> 1) @@ (b :> 2)
ByHand(t, k) == [target |-> t, manual |-> TRUE, key |-> k]
OnItsOwn(t, k) == [target |-> t, manual |-> FALSE, key |-> k]

\* Requests for one window, one of them repeated by hand and automatically.
OneWindowAsks == {ByHand(a, k1), OnItsOwn(a, k1)}
\* The user changes the other target's mode, or makes the first one permanent.
OtherSaves == {<<b, "once">>, <<a, "always">>}
\* Requests by hand for two windows.
TwoWindowAsks == {ByHand(a, None), ByHand(b, None)}
\* The user arms the same target again.
RearmSaves == {<<a, "once">>}

FirstOnce == (a :> "once") @@ (b :> "click")
Symmetry == Permutations(Clients)
=============================================================================
