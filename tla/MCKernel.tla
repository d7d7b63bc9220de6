------------------------------ MODULE MCKernel ------------------------------
(***************************************************************************)
(* The parts of a Runtime for TLC: its account, position and risk owners,  *)
(* its event bus and its virtual clock.  They share no state and call each *)
(* other only through the host, so one run explores them side by side:     *)
(* `part` is the one that moves.                                           *)
(***************************************************************************)
EXTENDS MCAccount, TLC

CONSTANTS Types, Priorities, Ids, Policies, Capacity, MaxEvents, MaxBatch,
          TimerIds, Intervals, Horizon,
          PositionCommand, Unallocated, MaxQuantity, MaxScale, Places,
          Clusters, Request, Views, Rule, KillScope, Report,
          RiskCommands, MaxReservations, MaxSequence

VARIABLES policy, queue, handlers, usedIds, phase, dispatch, driver, dropped, diag,
          accepted, inbox,
          scheduler, callbacks, target, saved,
          position, live,
          risk,
          part

\* The event of a timer dispatch.
Token == [id : TimerIds, deadline : Nat, sequence : Nat, fires : Nat]

\* A queued event, a subscription, and a dispatch with the handlers left to call.
QueuedEvent == [no : Nat, type : Types, priority : Priorities]
Handler == [type : Types, priority : Priorities, sequence : Nat]
Delivery == [event : QueuedEvent, todo : UNION {[S -> Handler] : S \in SUBSET Ids}]

\* What the parser and the planner establish of a position command: the clusters are
\* known, only a cluster reserves, quantities are not negative and a trade is named.
ASSUME PositionAssumption ==
  /\ IsFiniteSet(Clusters) /\ MaxQuantity \in Nat /\ MaxScale \in Nat /\ Places \subseteq Nat
  /\ \A c \in PositionCommand :
       /\ c.op \in {"RESERVE", "STAGE", "RELEASE", "TRADE", "RESTRICTION", "REMOVE_RESTRICTION",
                    "SETTLE", "BROKER", "TICK"}
       /\ c.time \in Nat
       /\ c.op \in {"RESERVE", "SETTLE", "TRADE"} => c.quantity \in Nat
       /\ c.op = "RESERVE" => c.cluster \in Clusters
       /\ c.op \in {"SETTLE", "TRADE"} => c.cluster \in Clusters \cup {Unallocated}
       /\ c.op = "TRADE" => /\ c.side \in {"BUY", "SELL"} /\ c.sequence \in Nat
                            /\ c.trade # None /\ c.venue # None /\ c.places \in Nat

\* What the parsers establish of requests, views and reports; a request id names one
\* request, and the reports carry the stages of an order.
ASSUME RiskAssumption ==
  /\ \A q \in Request : /\ q.cluster \in Clusters /\ q.open \in BOOLEAN
                        /\ q.quantity \in Nat /\ q.notional \in Nat /\ q.fee \in Nat
                        /\ q.cash \in Nat
  /\ \A q, s \in Request : q.id = s.id => q = s
  /\ \A v \in Views : \A x \in {v.cash, v.shares} \ {None} :
       x.at \in Nat /\ x.account \in Nat /\ x.cluster \in Nat
  /\ \A c \in Report :
       /\ c.op \in {"STAGE", "FILL", "TERMINAL"}
       /\ c.op = "STAGE" => c.stage \in {"SENT", "UNKNOWN", "ACKNOWLEDGED", "CANCEL_PENDING"}
       /\ c.op = "FILL" => c.quantity \in Nat /\ c.notional \in Nat /\ c.final \in BOOLEAN

ASSUME KernelAssumption ==
  /\ Capacity \in Nat \ {0}
  /\ Unallocated \notin Clusters
  /\ None \notin Nat \cup Token \cup Delivery \cup {"one", "drain", "close"}
  /\ Priorities \subseteq Nat /\ MaxBatch \in Nat
  /\ Intervals \subseteq Nat \ {0} /\ Horizon \in Nat

Bus == INSTANCE EventBus
Clock == INSTANCE VirtualClock
PositionPart == INSTANCE Position WITH Command <- PositionCommand
RiskPart == INSTANCE Risk WITH MaxCommands <- RiskCommands

busVars == <<policy, queue, handlers, usedIds, phase, dispatch, driver, dropped, diag,
             accepted, inbox>>
clockVars == <<scheduler, callbacks, target, saved>>
positionVars == <<position, live>>
riskVars == <<risk>>

MCPolicies == {"Reject", "DropLowPriority"}

PositionValues == INSTANCE MCPosition
MCPositionCommand == PositionValues!MCCommand

RiskValues == INSTANCE MCRisk
MCRequest == RiskValues!MCRequest
MCRule == RiskValues!MCRule
MCReport == RiskValues!MCReport
MCViews == RiskValues!MCViews

KernelInit ==
  /\ part \in {"account", "position", "risk", "bus", "clock"}
  /\ Init /\ Bus!Init /\ Clock!Init /\ PositionPart!Init /\ RiskPart!Init
  /\ part # "bus" => policy = "Reject"

Others(p) ==
  /\ p # "account" => UNCHANGED vars
  /\ p # "position" => UNCHANGED positionVars
  /\ p # "risk" => UNCHANGED riskVars
  /\ p # "bus" => UNCHANGED busVars
  /\ p # "clock" => UNCHANGED clockVars
  /\ UNCHANGED part

KernelNext ==
  \/ part = "account" /\ Next /\ Others("account")
  \/ part = "position" /\ PositionPart!Next /\ Others("position")
  \/ part = "risk" /\ RiskPart!Next /\ Others("risk")
  \/ part = "bus" /\ Bus!Next /\ Others("bus")
  \/ part = "clock" /\ Clock!Next /\ Others("clock")

kernelVars == <<vars, busVars, clockVars, positionVars, riskVars, part>>

KernelSpec == KernelInit /\ [][KernelNext]_kernelVars

\* What Position states of the venue's fills (src/crates/position/src/manager.rs).
VenueFillBooks == PositionPart!VenueFillBooks

\* What Risk states of new holds (src/crates/risk/src/reservation.rs).
AdmissionSound == RiskPart!AdmissionSound

\* What EventBus states of every accepted event (src/crates/event/src/bus.rs).
AcceptedIsSettled == Bus!AcceptedIsSettled

\* What EventBus states of the order in which handlers see events.
SeenInOrder == Bus!SeenInOrder

\* What VirtualClock states of snapshots (src/crates/clock/src/snapshot.rs).
SavedIsRestorable == Clock!SavedIsRestorable

Symmetry == Permutations(TimerIds)
=============================================================================
