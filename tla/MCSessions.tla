---------------------------- MODULE MCSessions -----------------------------
(* Sessions on a few calls, a short clock and a "second" of two units.      *)
EXTENDS Sessions, TLC

CONSTANTS r1, r2, r3

TwoRequests   == {r1, r2}
ThreeRequests == {r1, r2, r3}
Settings      == {1, 2, 5}

\* Sound for the safety runs: no definition tells requests apart.
Symmetry == Permutations(Requests)
=============================================================================
