---------------------------- MODULE BacktestOutcome ----------------------------
(***************************************************************************)
(* What a backtest run promises to the one who submitted it, without       *)
(* attempts, leases, services or files: its outcome is decided once, a     *)
(* cancelled outcome only after a request, and the run ends with the       *)
(* outcome that was decided.  A run cancelled before it began ends without *)
(* an outcome.                                                             *)
(***************************************************************************)
VARIABLES
  status,    \* the state of the run
  asked,     \* a cancellation was requested while it ran
  outcome    \* the decided outcome, or "none"

outcomeVars == <<status, asked, outcome>>

OutcomeInit ==
  /\ status = "ABSENT"
  /\ asked = FALSE
  /\ outcome = "none"

Submit ==
  /\ status = "ABSENT"
  /\ status' = "QUEUED"
  /\ UNCHANGED <<asked, outcome>>

Begin ==
  /\ status = "QUEUED"
  /\ status' = "RUNNING"
  /\ UNCHANGED <<asked, outcome>>

Withdraw ==
  /\ status = "QUEUED"
  /\ status' = "CANCELLED"
  /\ UNCHANGED <<asked, outcome>>

Ask ==
  /\ status = "RUNNING"
  /\ status' = "CANCEL_REQUESTED"
  /\ asked' = TRUE
  /\ UNCHANGED outcome

Decide(o) ==
  /\ outcome = "none"
  /\ status \in {"RUNNING", "CANCEL_REQUESTED"}
  /\ o = "CANCELLED" => asked
  /\ outcome' = o
  /\ UNCHANGED <<status, asked>>

End ==
  /\ outcome # "none"
  /\ status \in {"RUNNING", "CANCEL_REQUESTED"}
  /\ status' = outcome
  /\ UNCHANGED <<asked, outcome>>

OutcomeNext ==
  \/ Submit \/ Begin \/ Withdraw \/ Ask \/ End
  \/ \E o \in {"COMPLETED", "CANCELLED"} : Decide(o)

OutcomeSpec == OutcomeInit /\ [][OutcomeNext]_outcomeVars
=============================================================================
