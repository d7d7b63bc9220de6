-------------------------------- MODULE Risk --------------------------------
(***************************************************************************)
(* The risk authority of a Runtime: crates/risk/src/{manager,pipeline,     *)
(* reservation,model}.rs.                                                  *)
(*                                                                         *)
(* An order request is evaluated against views of what the account, the    *)
(* strategy ledger and the position have to give; if it is accepted, a     *)
(* later command reserves it for an order.  Between the two, and between   *)
(* reading a view and evaluating with it, fills, terminal reports, other   *)
(* reservations and kill switches may come.  Two counters guard against    *)
(* them: an acceptance is void once the admission epoch has moved, and a   *)
(* view is unavailable once the economic watermark has passed it.          *)
(*                                                                         *)
(* The crate owns no cash and no shares: the views are part of the command *)
(* and arrive as they are, old or new, rich or poor or not at all.         *)
(* Whether their figures are still what the owners have when the order is  *)
(* reserved (a withdrawal moves neither counter) is the planner's to see   *)
(* to, which reads, evaluates and reserves in one plan.                    *)
(*                                                                         *)
(* One instrument, amounts are integers.  The checks that read the request *)
(* only (instrument, type, price, sides) and the market's verdict are the  *)
(* choice of which requests arrive.  The order of the checks decides only  *)
(* which refusal is reported.  A command delivered again changes nothing.  *)
(***************************************************************************)
EXTENDS Integers, FiniteSets, FiniteSetsExt

CONSTANTS
  Clusters,
  Request,         \* [id, cluster, open, quantity, notional, fee, cash]; open: buys, else sells
  Views,           \* [cash, shares], each None or [at, account, cluster]: what is there to give
  Rule,            \* [cluster, scope, kind, limit, observing], scope "CLUSTER" or wider
  KillScope,       \* the kill switches that are used: "RUNTIME", "ACCOUNT" or a cluster
  Report,          \* the venue's reports: [op, order, ...] of STAGE, FILL and TERMINAL
  MaxCommands,     \* admission_limits.commands
  MaxReservations, \* admission_limits.reservations
  MaxSequence,     \* bound: commands accepted
  None

VARIABLE risk      \* Manager: holds, decisions, kills, epoch, watermark, sequence, aliases

vars == <<risk>>

Init ==
  risk = [holds |-> <<>>, decisions |-> <<>>, aliases |-> {}, kills |-> {},
          sequence |-> 0, epoch |-> 0, watermark |-> 0]

-----------------------------------------------------------------------------
With(f, x, y) == [i \in DOMAIN f \cup {x} |-> IF i = x THEN y ELSE f[i]]

Active(r) == {o \in DOMAIN r.holds : r.holds[o].state = "ACTIVE"}

RemainingQuantity(h) == h.request.quantity - h.quantity

RemainingNotional(h) == h.request.notional - h.notional

\* What a request needs: its cash requirement is a figure of its own, not its notional.
Required(q) == q.cash + q.fee

\* Hold::cash: the whole envelope until the order ends.
Cash(h) == IF h.request.open THEN Required(h.request) ELSE 0

SumOf(f) == MapThenSumSet(LAMBDA o : f[o], DOMAIN f)

\* The active holds of the clusters in S.
HoldsOf(r, S) == {o \in Active(r) : r.holds[o].request.cluster \in S}

CashHeld(r, S) == SumOf([o \in HoldsOf(r, S) |-> Cash(r.holds[o])])

SharesHeld(r, S) ==
  SumOf([o \in {i \in HoldsOf(r, S) : ~r.holds[i].request.open} |-> RemainingQuantity(r.holds[o])])

Killed(r, w) == r.kills \cap {"RUNTIME", "ACCOUNT", w} # {}

\* The active holds a rule counts.
InScope(r, rule) ==
  {o \in Active(r) : rule.scope = "CLUSTER" => r.holds[o].request.cluster = rule.cluster}

NotionalHeld(r, rule) == SumOf([o \in InScope(r, rule) |-> RemainingNotional(r.holds[o])])

\* What a rule compares with its limit when q is added.
Amount(r, rule, q) ==
  CASE rule.kind = "MAX_ACTIVE_ORDERS" -> Cardinality(InScope(r, rule)) + 1
    [] rule.kind = "MAX_ORDER_QUANTITY" -> q.quantity
    [] rule.kind = "MAX_ORDER_NOTIONAL" -> q.notional
    [] rule.kind = "MAX_RESERVED_NOTIONAL" -> NotionalHeld(r, rule) + q.notional

RulesPass(r, q) ==
  \A rule \in Rule : rule.cluster = q.cluster /\ ~rule.observing => Amount(r, rule, q) <= rule.limit

CashSuffices(r, q, v) ==
  /\ v.account - CashHeld(r, Clusters) >= Required(q)
  /\ v.cluster - CashHeld(r, {q.cluster}) >= Required(q)

SharesSuffice(r, q, v) ==
  /\ v.account - SharesHeld(r, Clusters) >= q.quantity
  /\ v.cluster - SharesHeld(r, {q.cluster}) >= q.quantity

\* envelope: a view that the last fill or terminal report has overtaken is no view.
Available(r, v) == v # None /\ v.at >= r.watermark

\* evaluate: the outcome is ACCEPT.  A close needs no view of the cash.
Accepts(r, q, v) ==
  /\ Available(r, v.shares)
  /\ IF q.open
     THEN /\ ~Killed(r, q.cluster) /\ RulesPass(r, q)
          /\ Available(r, v.cash) /\ CashSuffices(r, q, v.cash)
     ELSE SharesSuffice(r, q, v.shares)

\* The payload, views included, is kept with the decision (request_inputs).
AfterEvaluate(r, q, v) ==
  [r EXCEPT !.decisions =
     With(@, q.id, [accept |-> Accepts(r, q, v), epoch |-> r.epoch, view |-> v])]

-----------------------------------------------------------------------------
\* Mutant: an acceptance is good for ever.
StillAccepted_Once(r, q) == r.decisions[q.id].accept

StillAccepted(r, q) == r.decisions[q.id].accept /\ r.decisions[q.id].epoch = r.epoch

MayReserve(r, q, o) ==
  /\ q.id \in DOMAIN r.decisions
  /\ StillAccepted(r, q)
  /\ o \notin DOMAIN r.holds
  /\ \A i \in DOMAIN r.holds : r.holds[i].request # q

AfterReserve(r, q, o) ==
  [r EXCEPT !.epoch = @ + 1,
            !.holds = With(@, o, [request |-> q, quantity |-> 0, notional |-> 0,
              state |-> "ACTIVE", sent |-> FALSE, unknown |-> FALSE, acknowledged |-> FALSE,
              cancelPending |-> FALSE, terminal |-> None])]

Identities(c) ==
  CASE c.op = "FILL" -> {<<"trade", c.trade>>, <<"fill_source", c.source>>}
    [] c.op = "TERMINAL" -> {<<"terminal_source", c.source>>}
    [] c.op = "STAGE" -> {<<"stage", c.order, c.stage>>}

\* transition: the guards of a report.
MayReport(r, c) ==
  /\ c.order \in Active(r)
  /\ Identities(c) \cap r.aliases = {}
  /\ LET h == r.holds[c.order]
     IN CASE c.op = "FILL" -> /\ 0 < c.quantity /\ c.quantity <= RemainingQuantity(h)
                              /\ c.notional <= RemainingNotional(h)
                              /\ c.final = (c.quantity = RemainingQuantity(h))
          [] c.op = "TERMINAL" -> c.outcome = "NOT_SENT" => ~h.sent
          [] OTHER -> TRUE

Staged(h, stage) ==
  CASE stage = "SENT" -> [h EXCEPT !.sent = TRUE]
    [] stage = "UNKNOWN" -> [h EXCEPT !.sent = TRUE, !.unknown = TRUE]
    [] stage = "ACKNOWLEDGED" -> [h EXCEPT !.sent = TRUE, !.acknowledged = TRUE, !.unknown = FALSE]
    [] stage = "CANCEL_PENDING" -> [h EXCEPT !.sent = TRUE, !.cancelPending = TRUE]

Filled(h, c) ==
  [h EXCEPT !.sent = TRUE, !.quantity = @ + c.quantity, !.notional = @ + c.notional]

\* A hold after a report; what is left of an ended hold counts nowhere.
Reported(h, c) ==
  CASE c.op = "FILL" ->
         IF c.final THEN [Filled(h, c) EXCEPT !.state = "CONSUMED", !.terminal = "FILLED"]
         ELSE Filled(h, c)
    [] c.op = "TERMINAL" -> [h EXCEPT !.state = "RELEASED", !.terminal = c.outcome]
    [] c.op = "STAGE" -> Staged(h, c.stage)

\* n is the Runtime sequence of the command.
AfterReport(r, c, n) ==
  [r EXCEPT !.holds[c.order] = Reported(@, c),
            !.watermark = IF c.op = "STAGE" THEN @ ELSE n,
            !.aliases = @ \cup Identities(c),
            !.epoch = @ + 1]

AfterKill(r, scope, active) ==
  LET kills == IF active THEN r.kills \cup {scope} ELSE r.kills \ {scope}
  IN [r EXCEPT !.kills = kills, !.epoch = IF kills = r.kills THEN @ ELSE @ + 1]

\* apply: admission of new risk stops at the limits, everything else goes on.
Admits(r, open) ==
  open => r.sequence <= MaxCommands /\ Cardinality(DOMAIN r.holds) <= MaxReservations

Applied(r, open) ==
  LET after == [r EXCEPT !.sequence = @ + 1]
  IN Admits(after, open) /\ risk' = after

-----------------------------------------------------------------------------
\* A view of what is still to come is refused.
Evaluate(q, v) ==
  /\ q.id \notin DOMAIN risk.decisions
  /\ \A x \in {v.cash, v.shares} \ {None} : x.at <= risk.sequence + 1
  /\ Applied(AfterEvaluate(risk, q, v), q.open)

Reserve(q, o) ==
  /\ MayReserve(risk, q, o)
  /\ Applied(AfterReserve(risk, q, o), q.open)

Observe(c) ==
  /\ MayReport(risk, c)
  /\ Applied(AfterReport(risk, c, risk.sequence + 1), FALSE)

Kill(scope, active) == Applied(AfterKill(risk, scope, active), FALSE)

Next ==
  /\ risk.sequence < MaxSequence
  /\ \/ \E q \in Request, v \in Views : Evaluate(q, v)
     \/ \E q \in Request, c \in Report : Reserve(q, c.order)
     \/ \E c \in Report : Observe(c)
     \/ \E s \in KillScope, active \in BOOLEAN : Kill(s, active)

Spec == Init /\ [][Next]_vars

-----------------------------------------------------------------------------
\* The limits of a cluster that depend on what is held, with everything that is held.
WithinLimits(r, w) ==
  \A rule \in Rule : rule.cluster = w /\ ~rule.observing =>
    CASE rule.kind = "MAX_ACTIVE_ORDERS" -> Cardinality(InScope(r, rule)) <= rule.limit
      [] rule.kind = "MAX_RESERVED_NOTIONAL" -> NotionalHeld(r, rule) <= rule.limit
      [] OTHER -> TRUE

\* A view no fill has overtaken gives what all holds on it, h included, may take.
Covered(r, h, v) ==
  IF h.request.open
  THEN /\ v.cash.at >= r.watermark
       /\ CashHeld(r, Clusters) <= v.cash.account
       /\ CashHeld(r, {h.request.cluster}) <= v.cash.cluster
  ELSE /\ v.shares.at >= r.watermark
       /\ SharesHeld(r, Clusters) <= v.shares.account
       /\ SharesHeld(r, {h.request.cluster}) <= v.shares.cluster

Justified(r, h) ==
  /\ h.request.open =>
       ~Killed(r, h.request.cluster) /\ WithinLimits(r, h.request.cluster)
  /\ Covered(r, h, r.decisions[h.request.id].view)

(* Whenever an order gets its hold, what its request was accepted for is    *)
(* still so, whatever came between: an order that adds risk is under no     *)
(* kill switch and with it the enforced limits of its cluster are kept; and *)
(* the views it was judged by are not older than any fill or terminal       *)
(* report, and have in the account and in the cluster the cash, or for a    *)
(* sale the shares, for this order and for every other one that is held,    *)
(* those reserved after its evaluation included.                            *)
AdmissionSound ==
  [][\A o \in DOMAIN risk'.holds \ DOMAIN risk.holds :
       Justified(risk', risk'.holds[o])]_vars
=============================================================================
