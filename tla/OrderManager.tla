----------------------------- MODULE OrderManager -----------------------------
(***************************************************************************)
(* The order authority of OnlyAlpha: crates/order (Manager).  It takes     *)
(* local commands and venue reports, which may be repeated, reordered,     *)
(* contradictory or late, and answers each with Applied, Duplicate, Stale, *)
(* Conflict or Invalid; only an Applied command changes the state.         *)
(*                                                                         *)
(* A command is a record with the fields of the code's command object; the *)
(* fingerprint of a command is the command itself.  Prices, average prices *)
(* and the contents of fee contracts, rejections and failures are opaque:  *)
(* they are the "body" of a command.  A command the code answers with an   *)
(* error changes nothing and is not distinguished from one never sent.     *)
(***************************************************************************)
EXTENDS Naturals, Sequences, FiniteSetsExt

CONSTANTS
  Request,     \* order requests: [request_id, cluster, account, cause, quantity, expire, close]
  Command,     \* commands on orders, see CommandType
  Time,        \* the times a CREATE may carry
  None,        \* absence of an optional field
  MaxOrders,   \* MAX_ORDERS
  MaxJournal   \* MAX_JOURNAL

External == {"ACCEPT", "FILL", "CANCELLED", "REJECTED", "EXPIRED", "FAILED"}
LocalOp  == {"FEE", "BEGIN_SUBMIT", "SUBMIT_RESULT", "RECONCILE", "CANCEL", "FAIL"}

\* Fields: order, cluster, at for every command; account, event_at, event_id
\* and sequence for venue reports; venue for ACCEPT and FILL; trade,
\* venue_trade and quantity for FILL; request_id for CANCEL; bound_at
\* for FEE; body for FEE, SUBMIT_RESULT (the outcome), FAIL, FAILED and REJECTED.
ASSUME CommandAssumption ==
  /\ \A c \in Command :
       /\ c.op \in External \cup LocalOp
       /\ c.order \in Nat /\ c.at \in Nat
       /\ c.op = "FEE" => c.body # None /\ c.bound_at \in Nat
       /\ c.op = "FILL" => c.quantity \in Nat \ {0} /\ c.trade # None
       /\ c.op = "SUBMIT_RESULT" => c.body \in {"KNOWN_RESULT", "UNKNOWN", "SUPPRESSED"}
       /\ c.op \in External => /\ c.event_at \in Nat
                               /\ c.sequence \in Nat \cup {None}
       /\ c.op = "ACCEPT" => c.venue # None
  /\ \A r \in Request : r.quantity \in Nat \ {0} /\ r.expire \in Nat \cup {None} /\ r.close \in BOOLEAN
  /\ Time \subseteq Nat
  /\ None \notin Nat
  /\ MaxOrders \in Nat /\ MaxJournal \in Nat

VARIABLES
  orders,    \* the entities in creation order; an order id is a position
  receipts,  \* set of [account, key, command]
  venues,    \* set of [account, venue, order]
  cancels,   \* set of [request_id, command identity]
  sequence   \* number of applied commands, the length of the journal

vars == <<orders, receipts, venues, cancels, sequence>>

-----------------------------------------------------------------------------
(* Identity checks *)

Order(c) == orders[c.order]

\* Mutant: a fill is known by its event id only.
Keys_EventOnly(c) == {<<"EVENT", c.event_id>>}

\* The receipt keys of a report: EVENT, and for a fill TRADE and VENUE_TRADE.
Keys(c) ==
  {<<"EVENT", c.event_id>>} \cup
  (IF c.op = "FILL"
   THEN {<<"TRADE", c.trade>>} \cup
        (IF c.venue_trade = None THEN {} ELSE {<<"VENUE_TRADE", c.venue_trade>>})
   ELSE {})

ReportVenue(c) == IF c.op \in {"ACCEPT", "FILL"} THEN c.venue ELSE None

Known(c) == {x \in receipts : x.account = c.account /\ x.key \in Keys(c)}

\* Mutant: nobody asks whether another order has this venue id.
VenueTaken_OwnOnly(c) ==
  /\ ReportVenue(c) # None
  /\ Order(c).venue \notin {None, c.venue}

\* The report's venue id contradicts this order's, or belongs to another one.
VenueTaken(c) ==
  /\ ReportVenue(c) # None
  /\ \/ Order(c).venue \notin {None, c.venue}
     \/ \E x \in venues : x.account = c.account /\ x.venue = c.venue /\ x.order # c.order

NeverDispatched(o) == o.outcome \in {"NOT_DISPATCHED", "SUPPRESSED"}

\* What every venue report has to pass first, in the code's order.
Screen(c) ==
  IF \E x \in Known(c) : x.command # c THEN "Conflict"
  ELSE IF Known(c) # {} THEN "Duplicate"
  ELSE IF VenueTaken(c) THEN "Conflict"
  ELSE IF None \notin {Order(c).last_external_sequence, c.sequence}
          /\ c.sequence < Order(c).last_external_sequence THEN "Stale"
  ELSE IF None \notin {Order(c).last_external_sequence, c.sequence}
          /\ c.sequence = Order(c).last_external_sequence THEN "Conflict"
  ELSE IF NeverDispatched(Order(c)) THEN "Invalid"
  ELSE "Applied"

-----------------------------------------------------------------------------
(* What each operation answers *)

Working == {"Submitted", "Accepted", "PartiallyFilled", "PendingCancel"}
IsOpen  == Working \cup {"Created"}
Closed  == {"Filled", "Cancelled", "Rejected", "Expired", "Failed"}

Undispatched(o) == o.status = "Created" /\ o.outcome = "NOT_DISPATCHED"

FeeVerdict(o, c) ==
  IF ~Undispatched(o) THEN "Invalid"
  ELSE IF o.fee = None THEN "Applied"
  ELSE IF o.fee = c.body THEN "Duplicate" ELSE "Conflict"

BeginSubmitVerdict(o, c) ==
  IF /\ Undispatched(o)
     /\ o.fee # None
     /\ o.request.expire # None => o.request.expire > c.at
  THEN "Applied" ELSE "Invalid"

SubmitResultVerdict(o, c) ==
  IF c.body = o.outcome THEN "Duplicate"
  ELSE IF \/ o.outcome = "DISPATCHING" /\ c.body \in {"KNOWN_RESULT", "UNKNOWN"}
          \/ o.outcome = "NOT_DISPATCHED" /\ c.body = "SUPPRESSED"
       THEN "Applied" ELSE "Invalid"

ReconcileVerdict(o, c) ==
  IF o.outcome = "RECONCILING" THEN "Duplicate"
  ELSE IF o.outcome = "UNKNOWN" THEN "Applied" ELSE "Invalid"

CancelIdentity(c) == [request_id |-> c.request_id, order |-> c.order, cluster |-> c.cluster, body |-> c.body]

\* Mutant: a pending cancellation vouches for any cancel request.
CancelVerdict_PendingIsProof(o, c) ==
  IF o.status = "PendingCancel" THEN "Duplicate"
  ELSE IF o.status \in {"Submitted", "Accepted", "PartiallyFilled"} THEN "Applied" ELSE "Invalid"

CancelVerdict(o, c) ==
  IF \E x \in cancels : x.request_id = c.request_id
  THEN IF CancelIdentity(c) \in cancels THEN "Duplicate" ELSE "Conflict"
  ELSE IF o.status \in {"Submitted", "Accepted", "PartiallyFilled"} THEN "Applied" ELSE "Invalid"

FailVerdict(o, c) == IF Undispatched(o) THEN "Applied" ELSE "Invalid"

AcceptVerdict(o, c) ==
  IF o.status \notin Working \cup {"Filled", "Cancelled"} THEN "Invalid"
  ELSE IF o.status # "Submitted" /\ o.venue = c.venue THEN "Duplicate"
  ELSE "Applied"

FillVerdict(o, c) ==
  IF o.status \in Working /\ o.filled + c.quantity <= o.request.quantity
  THEN "Applied" ELSE "Invalid"

Target(c) ==
  CASE c.op = "CANCELLED" -> "Cancelled"
    [] c.op = "REJECTED"  -> "Rejected"
    [] c.op = "EXPIRED"   -> "Expired"
    [] c.op = "FAILED"    -> "Failed"

TerminalVerdict(o, c) ==
  IF o.status = Target(c)
  THEN IF c.op \in {"REJECTED", "FAILED"} /\ o.reason # c.body THEN "Conflict" ELSE "Duplicate"
  ELSE IF o.status \notin Working \/ (c.op = "EXPIRED" /\ o.status = "Submitted") THEN "Invalid"
  ELSE "Applied"

OpVerdict(o, c) ==
  CASE c.op = "FEE"           -> FeeVerdict(o, c)
    [] c.op = "BEGIN_SUBMIT"  -> BeginSubmitVerdict(o, c)
    [] c.op = "SUBMIT_RESULT" -> SubmitResultVerdict(o, c)
    [] c.op = "RECONCILE"     -> ReconcileVerdict(o, c)
    [] c.op = "CANCEL"        -> CancelVerdict(o, c)
    [] c.op = "FAIL"          -> FailVerdict(o, c)
    [] c.op = "ACCEPT"        -> AcceptVerdict(o, c)
    [] c.op = "FILL"          -> FillVerdict(o, c)
    [] c.op \in {"CANCELLED", "REJECTED", "EXPIRED", "FAILED"} -> TerminalVerdict(o, c)

\* The command is addressed to an existing order in its scope and its times
\* are possible; anything else is an error.
WellScoped(c) ==
  /\ c.order \in 1..Len(orders)
  /\ c.cluster = Order(c).request.cluster
  /\ c.op \in External => /\ c.account = Order(c).request.account
                          /\ c.event_at <= c.at
                          /\ c.event_at >= Order(c).created_at

Verdict(c) ==
  IF c.op \in External /\ Screen(c) # "Applied" THEN Screen(c)
  ELSE IF OpVerdict(Order(c), c) # "Applied" THEN OpVerdict(Order(c), c)
  ELSE IF c.op \notin External /\ c.at < Order(c).updated_at THEN "Stale"
  ELSE "Applied"

-----------------------------------------------------------------------------
(* The operations *)

Init ==
  /\ orders = << >>
  /\ receipts = {}
  /\ venues = {}
  /\ cancels = {}
  /\ sequence = 0

\* A repeated request id is a duplicate or a conflict; openings stop at the
\* capacity, closing orders do not.
Create(r, at) ==
  /\ \A i \in 1..Len(orders) : orders[i].request.request_id # r.request_id
  /\ r.expire # None => r.expire > at
  /\ r.close \/ (Len(orders) < MaxOrders /\ sequence < MaxJournal)
  /\ orders' = Append(orders,
       [request |-> r, status |-> "Created", outcome |-> "NOT_DISPATCHED",
        filled |-> 0, fill_count |-> 0, last_trade |-> None,
        venue |-> None, last_external_sequence |-> None, fee |-> None, submitted |-> FALSE,
        reason |-> None, created_at |-> at, updated_at |-> at, version |-> 1])
  /\ sequence' = sequence + 1
  /\ UNCHANGED <<receipts, venues, cancels>>

Later(s, t) == IF s < t THEN t ELSE s

\* The common end of apply: the changed entity e, stamped, and the indexes.
Stamped(e, c) ==
  [e EXCEPT !.venue = IF ReportVenue(c) = None THEN @ ELSE c.venue,
            !.last_external_sequence =
               IF c.op \in External /\ c.sequence # None THEN c.sequence ELSE @,
            !.outcome = IF c.op \in External THEN "RESOLVED" ELSE @,
            !.updated_at = Later(@, c.at),
            !.version = @ + 1]

Commit(c, e) ==
  /\ orders' = [orders EXCEPT ![c.order] = Stamped(e, c)]
  /\ receipts' = IF c.op \in External
                 THEN receipts \cup {[account |-> c.account, key |-> k, command |-> c] : k \in Keys(c)}
                 ELSE receipts
  /\ venues' = IF ReportVenue(c) = None
               THEN venues
               ELSE venues \cup {[account |-> c.account, venue |-> c.venue, order |-> c.order]}
  /\ cancels' = IF c.op = "CANCEL" THEN cancels \cup {CancelIdentity(c)} ELSE cancels
  /\ sequence' = sequence + 1

\* A binding made before the order or after the command is an error.
Fee(c) ==
  /\ c.op = "FEE"
  /\ c.bound_at \in Order(c).created_at .. c.at
  /\ Commit(c, [Order(c) EXCEPT !.fee = c.body])

BeginSubmit(c) ==
  /\ c.op = "BEGIN_SUBMIT"
  /\ Commit(c, [Order(c) EXCEPT !.status = "Submitted", !.submitted = TRUE, !.outcome = "DISPATCHING"])

SubmitResult(c) ==
  /\ c.op = "SUBMIT_RESULT"
  /\ Commit(c, IF c.body = "SUPPRESSED"
               THEN [Order(c) EXCEPT !.outcome = c.body, !.status = "Failed", !.reason = c.body]
               ELSE [Order(c) EXCEPT !.outcome = c.body])

Reconcile(c) ==
  /\ c.op = "RECONCILE"
  /\ Commit(c, [Order(c) EXCEPT !.outcome = "RECONCILING"])

Cancel(c) ==
  /\ c.op = "CANCEL"
  /\ Commit(c, [Order(c) EXCEPT !.status = "PendingCancel"])

Fail(c) ==
  /\ c.op = "FAIL"
  /\ Commit(c, [Order(c) EXCEPT !.status = "Failed", !.reason = c.body, !.outcome = "SUPPRESSED"])

Accept(c) ==
  /\ c.op = "ACCEPT"
  /\ Commit(c, [Order(c) EXCEPT !.status = IF @ = "Submitted" THEN "Accepted" ELSE @])

\* Mutant: a fill that leaves a remainder takes a pending cancellation back.
Filled_ForgetsCancel(o, c) ==
  [o EXCEPT !.filled = @ + c.quantity,
            !.fill_count = @ + 1,
            !.last_trade = c.trade,
            !.status = IF o.filled + c.quantity = o.request.quantity THEN "Filled" ELSE "PartiallyFilled"]

\* Mutant: completion looks at this fill alone.
Filled_AloneCompletes(o, c) ==
  [o EXCEPT !.filled = @ + c.quantity,
            !.fill_count = @ + 1,
            !.last_trade = c.trade,
            !.status = IF c.quantity = o.request.quantity THEN "Filled"
                       ELSE IF @ = "PendingCancel" THEN @ ELSE "PartiallyFilled"]

Filled(o, c) ==
  [o EXCEPT !.filled = @ + c.quantity,
            !.fill_count = @ + 1,
            !.last_trade = c.trade,
            !.status = IF o.filled + c.quantity = o.request.quantity THEN "Filled"
                       ELSE IF @ = "PendingCancel" THEN @ ELSE "PartiallyFilled"]

Fill(c) ==
  /\ c.op = "FILL"
  /\ Commit(c, Filled(Order(c), c))

Terminate(c) ==
  /\ c.op \in {"CANCELLED", "REJECTED", "EXPIRED", "FAILED"}
  /\ Commit(c, [Order(c) EXCEPT !.status = Target(c),
                                !.reason = IF c.op \in {"REJECTED", "FAILED"} THEN c.body ELSE @])

Apply(c) ==
  /\ WellScoped(c)
  /\ Verdict(c) = "Applied"
  /\ \/ Fee(c) \/ BeginSubmit(c) \/ SubmitResult(c) \/ Reconcile(c) \/ Cancel(c) \/ Fail(c)
     \/ Accept(c) \/ Fill(c) \/ Terminate(c)

Next ==
  \/ \E r \in Request, at \in Time : Create(r, at)
  \/ \E c \in Command : Apply(c)

Spec == Init /\ [][Next]_vars
-----------------------------------------------------------------------------
(* Properties *)

Status  == IsOpen \cup Closed
Outcome == {"NOT_DISPATCHED", "DISPATCHING", "KNOWN_RESULT", "UNKNOWN", "SUPPRESSED",
            "RECONCILING", "RESOLVED"}

Entity ==
  [request : Request, status : Status, outcome : Outcome, filled : Nat, fill_count : Nat,
   last_trade : {c.trade : c \in {d \in Command : d.op = "FILL"}} \cup {None},
   venue : {c.venue : c \in {d \in Command : d.op \in {"ACCEPT", "FILL"}}} \cup {None},
   last_external_sequence : Nat \cup {None},
   fee : {c.body : c \in {d \in Command : d.op = "FEE"}} \cup {None},
   submitted : BOOLEAN,
   reason : {c.body : c \in {d \in Command : d.op \in {"SUBMIT_RESULT", "FAIL", "REJECTED", "FAILED"}}}
              \cup {None},
   created_at : Nat, updated_at : Nat, version : Nat]

\* Every variable has its type, and no order is filled beyond its quantity.
TypeOK ==
  /\ orders \in Seq(Entity)
  /\ \A i \in 1..Len(orders) : orders[i].filled \in 0..orders[i].request.quantity
  /\ sequence \in Nat

Positions == 1..Len(orders)

SoundlyDispatched(o) ==
  /\ o.submitted <=> ~NeverDispatched(o)
  /\ o.status = "Created" <=> o.outcome = "NOT_DISPATCHED"
  /\ NeverDispatched(o) => o.filled = 0 /\ o.venue = None /\ o.status \in {"Created", "Failed"}
  /\ o.submitted => o.fee # None
  /\ o.filled > 0 \/ o.venue # None => o.outcome = "RESOLVED"
  /\ o.status \in Closed => o.outcome \in {"RESOLVED", "SUPPRESSED"}

\* One submission per order: an order is either provably not at the venue
\* (and then has no venue fact at all) or it was submitted with its fee
\* contract bound; whatever the venue reported resolves the outcome.
DispatchSound == \A i \in Positions : SoundlyDispatched(orders[i])

\* The checks of OnlyOrderSnapshot::validate.
ValidSnapshot(o) ==
  /\ o.filled = o.request.quantity <=> o.status = "Filled"
  /\ o.status = "PartiallyFilled" => o.filled > 0
  /\ o.filled = 0 <=> o.fill_count = 0
  /\ o.fill_count = 0 <=> o.last_trade = None

\* The checks of the snapshot constructor are implied by the transitions: an
\* accepted command is never lost to a quantity that is not conserved, and an
\* order is Filled exactly when nothing remains.
SnapshotValid == \A i \in Positions : ValidSnapshot(orders[i])

\* A venue order id belongs to one order per account, and the index the
\* manager looks it up in agrees with the orders.
VenueOwnership ==
  /\ \A i, j \in Positions :
       /\ orders[i].request.account = orders[j].request.account
       /\ orders[i].venue = orders[j].venue
       /\ orders[i].venue # None
       => i = j
  /\ venues = {[account |-> orders[i].request.account, venue |-> orders[i].venue, order |-> i] :
                 i \in {j \in Positions : orders[j].venue # None}}

FillsOf(i) == {x.command : x \in {y \in receipts : y.command.op = "FILL" /\ y.command.order = i}}

\* No venue trade is counted twice, whatever event and order it was reported
\* with: applied fills of one account have different trade ids, and an order's
\* filled quantity is the sum over its recorded trades.
TradesCountOnce ==
  /\ \A x, y \in receipts : LET f == x.command
                                g == y.command IN
       f.op = "FILL" /\ g.op = "FILL" /\ f.account = g.account /\ f # g =>
         /\ f.trade # g.trade
         /\ f.venue_trade # None => f.venue_trade # g.venue_trade
  /\ \A i \in Positions :
       /\ orders[i].filled = MapThenSumSet(LAMBDA f : f.quantity, FillsOf(i))
       /\ orders[i].fill_count = Cardinality(FillsOf(i))

\* The effect a command would have had is there.
Effective(c) ==
  LET o == Order(c) IN
    CASE c.op = "FEE"           -> o.fee = c.body
      [] c.op = "BEGIN_SUBMIT"  -> o.submitted
      [] c.op = "SUBMIT_RESULT" -> /\ o.outcome = c.body
                                   /\ c.body = "SUPPRESSED" => o.status = "Failed" /\ ~o.submitted
      [] c.op = "RECONCILE"     -> o.outcome = "RECONCILING"
      [] c.op = "CANCEL"        -> CancelIdentity(c) \in cancels /\ o.status \in {"PendingCancel"} \cup Closed
      [] c.op = "FAIL"          -> o.status = "Failed"
      [] c.op = "ACCEPT"        -> o.venue = c.venue /\ o.status \notin {"Created", "Submitted"}
      [] c.op = "FILL"          -> c \in FillsOf(c.order) /\ o.filled >= c.quantity
      [] OTHER                  -> o.status = Target(c)

\* A caller may take Duplicate as proof: the very effect it asked for has
\* been recorded, not a similar one and not one of another request.
DuplicateIsProof ==
  \A c \in Command : WellScoped(c) /\ Verdict(c) = "Duplicate" => Effective(c)

Rank(s) ==
  CASE s = "Created" -> 0
    [] s = "Submitted" -> 1
    [] s = "Accepted" -> 2
    [] s = "PartiallyFilled" -> 3
    [] s = "PendingCancel" -> 4
    [] OTHER -> 5

Advances(o, n) ==
  /\ Rank(o.status) <= Rank(n.status)
  /\ Rank(o.status) = Rank(n.status) => o.status = n.status
  /\ o.filled <= n.filled
  /\ o.status \in Closed => o.filled = n.filled /\ o.reason = n.reason
  /\ o.last_external_sequence # None =>
       /\ n.last_external_sequence # None
       /\ o.last_external_sequence <= n.last_external_sequence

StaysSubmitted(o, n) ==
  o.submitted => /\ n.submitted
                 /\ n.outcome = "DISPATCHING" => o.outcome = "DISPATCHING"
                 /\ ~NeverDispatched(n)

\* An order only moves forward: late, repeated or reordered commands never
\* take a status back (a fill does not undo a pending cancellation), a closed
\* order keeps its fills and its reason, report sequences do not decrease, and
\* an order whose submission was started is never submitted again and never
\* declared unsent, in particular not while its outcome is unknown.
LifecycleForward ==
  [][\A i \in Positions : /\ Advances(orders[i], orders'[i])
                         /\ StaysSubmitted(orders[i], orders'[i])]_vars
===============================================================================
