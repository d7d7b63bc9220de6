------------------------------ MODULE MCReplayRun ------------------------------
(* Small instances of ReplayRun. *)
EXTENDS ReplayRun

Quiet == [entry |-> FALSE, exit |-> FALSE, ok |-> TRUE]
Buy == [entry |-> TRUE, exit |-> FALSE, ok |-> TRUE]
Refused == [entry |-> TRUE, exit |-> TRUE, ok |-> FALSE]
Sell == [entry |-> FALSE, exit |-> TRUE, ok |-> TRUE]

Runs(native, markets) == {[native |-> native, bars |-> m] : m \in markets}

\* An order that is filled, one that is refused or stays open, a signal on the
\* last bar.
TwoBars == {<<Buy, Quiet>>, <<Buy, Refused>>, <<Quiet, Buy>>}
MCPrograms == Runs(TRUE, TwoBars) \cup Runs(FALSE, TwoBars \cup {<<Buy, Sell, Quiet>>})
=============================================================================
