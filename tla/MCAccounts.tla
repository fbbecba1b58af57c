---------------------------- MODULE MCAccounts -----------------------------
(* Accounts on a few requests and two e-mails.                              *)
EXTENDS Accounts, TLC

CONSTANTS s1, s2, a1, a2, d1, d2, e1, e2

TheSignUps   == {s1, s2}
TheApplies   == {a1, a2}
TheDecisions == {d1, d2}
TheEmails    == {e1, e2}

\* Sound for the safety runs: no definition tells requests of one route, or
\* e-mails, apart.
Symmetry == Permutations(SignUps) \cup Permutations(Applies)
              \cup Permutations(Decisions) \cup Permutations(Emails)
=============================================================================
