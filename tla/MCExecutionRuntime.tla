------------------------- MODULE MCExecutionRuntime -------------------------
(* Small instances of ExecutionRuntime for TLC. *)
EXTENDS ExecutionRuntime

\* For the run about identity: "b" is unrelated to the others; the last input
\* reuses the source of "a" under its own identity.
MCAliasedInput ==
  { [id |-> "a", source |-> "s", runtime_sequence |-> 1, touches |-> {1}],
    [id |-> "b", source |-> "u", runtime_sequence |-> 2, touches |-> {1}],
    [id |-> "c", source |-> "s", runtime_sequence |-> 3, touches |-> {1}] }

\* For the runs about faults: three unrelated inputs that may all be
\* committed, over different owners.
MCChainedInput ==
  { [id |-> "a", source |-> "s", runtime_sequence |-> 1, touches |-> {1}],
    [id |-> "b", source |-> "t", runtime_sequence |-> 2, touches |-> {2}],
    [id |-> "c", source |-> "u", runtime_sequence |-> 3, touches |-> {1, 2}] }
=============================================================================
