---------------------------- MODULE MCBacktestLease ----------------------------
(* Small instances of BacktestLease. *)
EXTENDS BacktestLease, TLC

CONSTANTS h1, h2, c1, c2

MCHosts == {h1, h2}
MCOneCancel == {c1}
MCTwoCancels == {c1, c2}

\* Hosts and cancel commands are interchangeable.
Symmetry == Permutations(MCHosts) \cup Permutations(MCTwoCancels)
=============================================================================
