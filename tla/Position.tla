------------------------------ MODULE Position ------------------------------
(***************************************************************************)
(* The position of one instrument in an account: crates/position/src/      *)
(* manager.rs, reservation.rs and reconciliation.rs.  No command relates   *)
(* two instruments.                                                        *)
(*                                                                         *)
(* The account holds shares that are attributed to clusters, or to none of *)
(* them; a cluster reserves shares before it sells, the venue's fills      *)
(* consume the reservation, and the Broker's view of the position can block*)
(* new reservations.  Every command is applied to a copy of the state,     *)
(* which replaces the state only if it validates.                          *)
(*                                                                         *)
(* Quantities are integers.  Of the cost of the shares and the profit      *)
(* realized with it the model keeps how many decimal places they carry: a  *)
(* close of a part of the shares divides the cost, which adds places that  *)
(* are never dropped before the shares are all sold, and a cost with too   *)
(* many of them is refused.  Fees, the cycles of a position and their      *)
(* history are left out.  A command or a fact delivered again changes      *)
(* nothing here and is no step.                                            *)
(***************************************************************************)
EXTENDS Integers, FiniteSetsExt

CONSTANTS
  Command,      \* the commands that may arrive, each a record with op and time
  Clusters,
  Unallocated,  \* the owner of shares that belong to no cluster, itself none
  MaxQuantity,  \* bound: shares bought, all trades together
  MaxScale,     \* bounded: places a cost may carry beyond those of prices and quantities
  Places,       \* how many a division may add; at least 12 in release_cost
  None

Owners == Clusters \cup {Unallocated}

VARIABLES
  position,     \* Manager.state of the instrument
  live          \* history: the sell orders the venue may still fill

vars == <<position, live>>

Empty == [qty |-> 0, settled |-> 0]

Init ==
  /\ position = [total |-> Empty, updated |-> None, books |-> [w \in Owners |-> Empty],
                 scale |-> [w \in Owners |-> 0], reservations |-> <<>>, restrictions |-> {}, broker |-> None,
                 stale |-> FALSE, watermark |-> None, receipts |-> {}, now |-> 0]
  /\ live = {}

-----------------------------------------------------------------------------
Orders(p) == DOMAIN p.reservations

Remaining(p, S) == MapThenSumSet(LAMBDA o : p.reservations[o].remaining, S)

OrdersOf(p, w) == {o \in Orders(p) : p.reservations[o].cluster = w}

\* Mutant: what the Broker has acknowledged no longer holds the shares of the cluster.
Held_LocalOnly(p, w) == Remaining(p, {o \in OrdersOf(p, w) : ~p.reservations[o].acknowledged})

\* What the open orders of a cluster hold.
Held(p, w) == Remaining(p, OrdersOf(p, w))

Blocked(p) == p.stale \/ (p.broker # None /\ p.broker.blocking)

Restricted(p) ==
  MapThenSumSet(LAMBDA r : r.quantity,
                {r \in p.restrictions : r.from <= p.now /\ (r.until = None \/ p.now < r.until)})

Positive(n) == IF n > 0 THEN n ELSE 0

Least(a, b) == IF a < b THEN a ELSE b

\* The Broker's figure is net of the orders it has acknowledged, not of the others.
BrokerCap(p) ==
  Positive(p.broker.available
           - Remaining(p, {o \in Orders(p) : ~p.reservations[o].acknowledged}))

AccountAvailable(p) ==
  LET own == Positive(p.total.settled - Restricted(p) - Remaining(p, Orders(p)))
  IN IF Blocked(p) THEN 0
     ELSE IF p.broker = None THEN own ELSE Least(own, BrokerCap(p))

ClusterAvailable(p, w) == Least(Positive(p.books[w].settled - Held(p, w)), AccountAvailable(p))

SumOf(f) == MapThenSumSet(LAMBDA w : f[w], DOMAIN f)

\* Manager::validate.  The account's cost carries the places of its owners' costs and no
\* more, so that its own bound refuses nothing theirs allow.
Valid(p) ==
  /\ \A w \in Owners : p.scale[w] <= MaxScale
  /\ \A w \in Owners : /\ 0 <= p.books[w].settled /\ p.books[w].settled <= p.books[w].qty
                       /\ Held(p, w) <= p.books[w].settled
  /\ p.total.qty = SumOf([w \in Owners |-> p.books[w].qty])
  /\ p.total.settled = SumOf([w \in Owners |-> p.books[w].settled])
  /\ \A o \in Orders(p) :
       LET r == p.reservations[o]
       IN r.remaining >= 0 /\ r.quantity = r.remaining + r.consumed + r.released

With(f, x, y) == [i \in DOMAIN f \cup {x} |-> IF i = x THEN y ELSE f[i]]

-----------------------------------------------------------------------------
\* Reservations.

MayReserve(p, c) == c.order \notin Orders(p) /\ c.quantity <= ClusterAvailable(p, c.cluster)

AfterReserve(p, c) ==
  [p EXCEPT !.reservations = With(@, c.order,
     [cluster |-> c.cluster, quantity |-> c.quantity, remaining |-> c.quantity,
      consumed |-> 0, released |-> 0, stage |-> "LOCAL_ONLY", acknowledged |-> FALSE])]

Open(p, c) ==
  /\ c.order \in Orders(p)
  /\ p.reservations[c.order].cluster = c.cluster
  /\ p.reservations[c.order].remaining # 0

\* The acknowledgement of an order whose cancellation was asked for meanwhile.
LateAck(r, c) ==
  c.stage = "BROKER_ACKNOWLEDGED" /\ r.stage = "RELEASE_PENDING" /\ ~r.acknowledged

MayStage(p, c) ==
  /\ Open(p, c)
  /\ LET r == p.reservations[c.order]
     IN \/ LateAck(r, c)
        \/ <<r.stage, c.stage>> \in {<<"LOCAL_ONLY", "SENT_TO_BROKER">>,
                                     <<"SENT_TO_BROKER", "BROKER_ACKNOWLEDGED">>}

Staged(r, c) ==
  [r EXCEPT !.stage = IF LateAck(r, c) THEN @ ELSE c.stage,
            !.acknowledged = @ \/ c.stage = "BROKER_ACKNOWLEDGED"]

AfterStage(p, c) ==
  [p EXCEPT !.reservations = With(@, c.order, Staged(p.reservations[c.order], c))]

\* A release the Broker has not confirmed waits, unless the order never left.
ReleaseWaits(r, c) == ~c.confirmed /\ r.stage # "LOCAL_ONLY"

MayRelease(p, c) ==
  /\ Open(p, c)
  /\ LET r == p.reservations[c.order]
     IN ReleaseWaits(r, c) => r.stage # "RELEASE_PENDING"

Freed(r) == [r EXCEPT !.released = @ + r.remaining, !.remaining = 0, !.stage = "RELEASED"]

Released(r, c) ==
  IF ReleaseWaits(r, c) THEN [r EXCEPT !.stage = "RELEASE_PENDING"] ELSE Freed(r)

AfterRelease(p, c) ==
  [p EXCEPT !.reservations = With(@, c.order, Released(p.reservations[c.order], c))]

-----------------------------------------------------------------------------
\* Trades.

\* (sequence, time, trade) in lexicographic order; a trade name is its rank.
AtMost(a, b) ==
  \/ a[1] < b[1]
  \/ a[1] = b[1] /\ a[2] < b[2]
  \/ a[1] = b[1] /\ a[2] = b[2] /\ a[3] <= b[3]

Place(c) == <<c.sequence, c.time, c.trade>>

StaleTrade(p, c) == p.watermark # None /\ AtMost(Place(c), p.watermark)

\* release_cost: the cost of a part of the shares is a quotient, the cost of all is not.
Divides(p, c) == c.quantity # p.books[c.cluster].qty

\* ratio and bounded: the quotient has a representation within the bound.
Representable(p, c) == Divides(p, c) => p.scale[c.cluster] + c.places <= MaxScale

MayClose(p, c) ==
  /\ c.cluster # Unallocated
  /\ p.books[Unallocated].qty = 0
  /\ Open(p, c)
  /\ c.quantity <= p.reservations[c.order].remaining
  /\ c.quantity <= p.books[c.cluster].settled
  /\ c.quantity <= p.total.settled
  /\ Representable(p, c)
  /\ ~c.terminal => c.quantity # p.reservations[c.order].remaining

MayTrade(p, c) == StaleTrade(p, c) \/ c.side = "BUY" \/ MayClose(p, c)

\* The last fill frees what is left.
Consumed(r, c) ==
  LET s == [r EXCEPT !.remaining = @ - c.quantity, !.consumed = @ + c.quantity]
  IN IF c.terminal /\ s.remaining # 0 THEN Freed(s) ELSE s

Booked(b, c) ==
  IF c.side = "BUY"
  THEN [qty |-> b.qty + c.quantity, settled |-> b.settled + (IF c.settled THEN c.quantity ELSE 0)]
  ELSE [qty |-> b.qty - c.quantity, settled |-> b.settled - c.quantity]

\* The places of the owner's cost: a new cycle starts without, a quotient adds to them.
ScaleAfter(p, c) ==
  CASE c.side = "BUY" /\ p.books[c.cluster].qty = 0 -> 0
    [] c.side = "SELL" /\ Divides(p, c) -> p.scale[c.cluster] + c.places
    [] OTHER -> p.scale[c.cluster]

\* A trade behind the newest one booked is not booked, and blocks the instrument for good.
AfterTrade(p, c) ==
  IF StaleTrade(p, c) THEN [p EXCEPT !.stale = TRUE]
  ELSE [p EXCEPT
    !.total = Booked(@, c), !.updated = c.time, !.watermark = Place(c),
    !.books = With(@, c.cluster, Booked(p.books[c.cluster], c)),
    !.scale = With(@, c.cluster, ScaleAfter(p, c)),
    !.reservations = IF c.side = "BUY" THEN @
                     ELSE With(@, c.order, Consumed(p.reservations[c.order], c))]

-----------------------------------------------------------------------------
\* Restrictions, settlement and the Broker's view.

MayRestrict(p, c) ==
  \A r \in p.restrictions : r.id # c.restriction.id

\* The planner settles the shares of one trade, hence of one owner, at a time.
MaySettle(p, c) == c.quantity <= p.books[c.cluster].qty - p.books[c.cluster].settled

Matured(b, c) == [b EXCEPT !.settled = @ + c.quantity]

AfterSettle(p, c) ==
  [p EXCEPT !.books = With(@, c.cluster, Matured(p.books[c.cluster], c)),
            !.total = Matured(@, c), !.updated = c.time]

StaleView(p, c) ==
  \/ p.broker # None /\ (c.sequence <= p.broker.sequence \/ c.time < p.broker.time)
  \/ p.updated # None /\ c.time < p.updated

\* reconcile: a different total or settled quantity blocks new reservations.
AfterBroker(p, c) ==
  IF StaleView(p, c) THEN p
  ELSE [p EXCEPT !.broker =
    [sequence |-> c.sequence, time |-> c.time, available |-> c.available,
     blocking |-> \/ c.total # p.total.qty \/ c.settled # p.total.settled
                  \/ p.total.qty > 0 /\ c.side # "LONG"]]

-----------------------------------------------------------------------------
\* apply.

Identities(c) ==
  CASE c.op = "TRADE" -> {<<"trade", c.trade>>, <<"venue_trade", c.venue>>}
    [] c.op = "SETTLE" -> {<<"settlement", c.source>>}
    [] c.op = "BROKER" -> {<<"broker", c.snapshot>>}
    [] OTHER -> {}

Allowed(p, c) ==
  /\ c.op \notin {"TRADE", "BROKER"} => c.time >= p.now
  /\ Identities(c) \cap p.receipts = {}
  /\ CASE c.op = "RESERVE" -> MayReserve(p, c)
       [] c.op = "STAGE" -> MayStage(p, c)
       [] c.op = "RELEASE" -> MayRelease(p, c)
       [] c.op = "TRADE" -> MayTrade(p, c)
       [] c.op = "RESTRICTION" -> MayRestrict(p, c)
       [] c.op = "REMOVE_RESTRICTION" -> \E r \in p.restrictions : r.id = c.id
       [] c.op = "SETTLE" -> MaySettle(p, c)
       [] OTHER -> TRUE

Transition(p, c) ==
  CASE c.op = "RESERVE" -> AfterReserve(p, c)
    [] c.op = "STAGE" -> AfterStage(p, c)
    [] c.op = "RELEASE" -> AfterRelease(p, c)
    [] c.op = "TRADE" -> AfterTrade(p, c)
    [] c.op = "RESTRICTION" -> [p EXCEPT !.restrictions = @ \cup {c.restriction}]
    [] c.op = "REMOVE_RESTRICTION" -> [p EXCEPT !.restrictions = {r \in @ : r.id # c.id}]
    [] c.op = "SETTLE" -> AfterSettle(p, c)
    [] c.op = "BROKER" -> AfterBroker(p, c)
    [] c.op = "TICK" -> p

\* The time moves first: it decides which restrictions are in force.
Moved(p, c) == [p EXCEPT !.now = IF c.time > @ THEN c.time ELSE @]

Candidate(p, c) == [Transition(Moved(p, c), c) EXCEPT !.receipts = @ \cup Identities(c)]

Accepted(p, c) == Allowed(Moved(p, c), c) /\ Valid(Candidate(p, c))

\* history: sent to the venue, and neither filled nor confirmed as gone.
LiveAfter(c) ==
  CASE c.op = "STAGE" /\ c.stage = "SENT_TO_BROKER" -> live \cup {c.order}
    [] c.op = "RELEASE" /\ c.confirmed -> live \ {c.order}
    [] c.op = "TRADE" /\ c.side = "SELL" /\ c.terminal /\ ~StaleTrade(position, c) ->
         live \ {c.order}
    [] OTHER -> live

Apply(c) ==
  /\ Accepted(position, c)
  /\ Candidate(position, c).total.qty <= MaxQuantity
  /\ position' = Candidate(position, c)
  /\ live' = LiveAfter(c)

Next == \E c \in Command : Apply(c)

Spec == Init /\ [][Next]_vars

-----------------------------------------------------------------------------
\* The next fill of an order: the venue numbers it, the order knows the last one; the
\* price decides how many places d the quotient adds.
Fill(o, q, d) ==
  LET r == position.reservations[o]
      last == IF position.watermark = None THEN 0 ELSE position.watermark[1]
  IN [op |-> "TRADE", side |-> "SELL", order |-> o, cluster |-> r.cluster, quantity |-> q,
      terminal |-> q + r.consumed = r.quantity, sequence |-> last + 1, time |-> position.now,
      trade |-> None, venue |-> None, places |-> d]

(* Whatever the venue still fills of a sell order can be booked: as long as *)
(* an order may be live at the venue, every quantity up to what it has not  *)
(* filled yet is held, owned, settled and not promised to another order,    *)
(* although a cancellation was asked for, the instrument was blocked or     *)
(* restricted and other clusters traded meanwhile.  There are two           *)
(* exceptions, both the code's own: no close is booked while shares are     *)
(* unallocated, and a close of a part of the cluster's shares is refused    *)
(* once its cost would carry more places than the arithmetic bound allows.  *)
(* The fill that sells all the cluster's shares is always within it.        *)
VenueFillBooks ==
  position.books[Unallocated].qty = 0 =>
    \A o \in live : \A q \in 1 .. MaxQuantity, d \in Places :
      /\ q + position.reservations[o].consumed <= position.reservations[o].quantity
      /\ Representable(position, Fill(o, q, d))
      => Accepted(position, Fill(o, q, d))
=============================================================================
