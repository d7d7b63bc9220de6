---------------------------- MODULE ExecutionLog ----------------------------
(***************************************************************************)
(* What the durable execution runtime promises to its callers, without     *)
(* owners, projections, checkpoints or processes: a journal of inputs that *)
(* accepts each economic fact at most once, makes it stable before it      *)
(* accepts the next one, and at every moment either serves the state of    *)
(* the complete stable journal or serves nothing.                          *)
(***************************************************************************)
EXTENDS Naturals, Sequences

CONSTANTS
  Input,        \* execution inputs: [id, source, runtime_sequence, touches]
  Unavailable   \* the value of view while reads are refused

VARIABLES
  log,          \* the accepted inputs, in commit order
  stable,       \* how many of them are Ready
  delivered,    \* positions whose events were acknowledged by the consumer
  view          \* the journal that reads are answered from, or Unavailable

logVars == <<log, stable, delivered, view>>

LogInit ==
  /\ log = << >>
  /\ stable = 0
  /\ delivered = {}
  /\ view = << >>

\* x is new: neither its identity nor its source was used, and it is later
\* than everything accepted.
Fresh(x) ==
  \A k \in 1..Len(log) :
    /\ log[k].id # x.id
    /\ log[k].source # x.source
    /\ log[k].runtime_sequence < x.runtime_sequence

Accept(x) ==
  /\ view = Unavailable
  /\ stable = Len(log)
  /\ Fresh(x)
  /\ log' = Append(log, x)
  /\ UNCHANGED <<stable, delivered, view>>

Stabilise ==
  /\ stable < Len(log)
  /\ view = Unavailable
  /\ stable' = Len(log)
  /\ UNCHANGED <<log, delivered, view>>

Serve ==
  /\ stable = Len(log)
  /\ view' = log
  /\ UNCHANGED <<log, stable, delivered>>

Withdraw ==
  /\ view' = Unavailable
  /\ UNCHANGED <<log, stable, delivered>>

\* An acknowledgement may take effect and still be reported as failed, after
\* which reads are refused.
Deliver(n) ==
  /\ n \in 1..stable
  /\ view # Unavailable
  /\ delivered' = delivered \cup {n}
  /\ view' \in {view, Unavailable}
  /\ UNCHANGED <<log, stable>>

LogNext ==
  \/ \E x \in Input : Accept(x)
  \/ Stabilise
  \/ Serve
  \/ Withdraw
  \/ \E n \in 1..Len(log) : Deliver(n)

LogSpec == LogInit /\ [][LogNext]_logVars
=============================================================================
