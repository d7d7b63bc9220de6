------------------------------ MODULE Account -------------------------------
(***************************************************************************)
(* The cash account of a Runtime: crates/account/src/manager.rs,           *)
(* reservation.rs and reconciliation.rs.                                   *)
(*                                                                         *)
(* Every command is applied to a copy of the state, which replaces the     *)
(* state only if it validates.  A command is known by its identifier and   *)
(* the fact it carries by the identities of the fact: a fact delivered     *)
(* again under a new command is recorded and not booked again.  A buy order*)
(* reserves cash before it is sent; its fills consume the reservation.     *)
(* A command identifier that has a receipt changes nothing, so the model   *)
(* has the commands with a fresh identifier and counts them.               *)
(*                                                                         *)
(* Amounts are integers.  Margin, valuation, performance and the analytical*)
(* figures (realized, unrealized, fees) are left out, and the five figures *)
(* a Broker snapshot is compared on are represented by the cash.           *)
(***************************************************************************)
EXTENDS Integers, FiniteSets, FiniteSetsExt

CONSTANTS
  Command,      \* the commands that may arrive, each a record with op and time
  InitialCash,
  MaxCommands,  \* MAX_COMMANDS: admission stops when the journal is this long
  MaxJournal,   \* bound: commands ever accepted
  MaxAmount,    \* bound: amounts considered for a fill
  None

ASSUME CashAssumption == InitialCash \in Nat /\ MaxAmount \in Nat

\* What the parser of a payload establishes: nonnegative amounts and known kinds.
ASSUME CommandAssumption ==
  \A c \in Command :
    /\ c.op \in {"RESERVE", "STAGE", "RELEASE", "TRADE", "CASH_CHANGE", "ECONOMIC", "SETTLE",
                 "BROKER"}
    /\ c.time \in Nat
    /\ c.op \in {"RESERVE", "CASH_CHANGE", "SETTLE"} => c.amount \in Nat
    /\ c.op = "ECONOMIC" => c.amount \in Int
    /\ c.op \in {"TRADE", "BROKER"} => c.sequence \in Nat
    /\ c.op = "CASH_CHANGE" => c.kind \in {"DEPOSIT", "WITHDRAWAL"}
    /\ c.op = "STAGE" => c.stage \in {"SENT_TO_BROKER", "SUBMIT_UNKNOWN", "BROKER_ACKNOWLEDGED",
                                     "CANCEL_REQUESTED"}
    /\ c.op = "TRADE" =>
         /\ c.notional \in Nat /\ c.charges \in Nat /\ c.rebates \in Nat
         /\ c.side \in {"BUY", "SELL"} /\ c.terminal \in BOOLEAN /\ c.withdrawable \in BOOLEAN

VARIABLES
  state,        \* Manager.state: the figures and the reservations
  journal,      \* the length of state.journal
  semantic,     \* state.semantic: the command each identity of a fact is bound to
  booked        \* history: the commands whose cash effect was booked

vars == <<state, journal, semantic, booked>>

Init ==
  /\ state = [cash |-> InitialCash, reservations |-> <<>>, receivables |-> <<>>,
              flags |-> {}, sequence |-> 0, now |-> 0, tradeSeq |-> 0, brokerSeq |-> 0]
  /\ journal = 0
  /\ semantic = <<>>
  /\ booked = {}

-----------------------------------------------------------------------------
Reserved(a) ==
  MapThenSumSet(LAMBDA i : a.reservations[i].remaining, DOMAIN a.reservations)

Unsettled(a) == MapThenSumSet(LAMBDA i : a.receivables[i], DOMAIN a.receivables)

Withdrawable(a) == a.cash - Reserved(a) - Unsettled(a)

\* State::validate.
Valid(a) ==
  /\ a.cash >= 0
  /\ Withdrawable(a) >= 0
  /\ \A i \in DOMAIN a.reservations :
       LET r == a.reservations[i]
       IN /\ r.original = r.remaining + r.consumed + r.released
          /\ r.remaining >= 0 /\ r.consumed >= 0 /\ r.released >= 0

With(f, x, y) == [i \in DOMAIN f \cup {x} |-> IF i = x THEN y ELSE f[i]]

Has(a, i) == i \in DOMAIN a.reservations

-----------------------------------------------------------------------------
\* Reservations.

MayReserve(a, c) ==
  /\ a.flags = {}
  /\ c.amount > 0
  /\ c.amount <= Withdrawable(a)
  /\ ~Has(a, c.reservation)
  /\ \A i \in DOMAIN a.reservations : a.reservations[i].order # c.order

AfterReserve(a, c) ==
  [a EXCEPT !.reservations = With(@, c.reservation,
     [order |-> c.order, original |-> c.amount, consumed |-> 0, remaining |-> c.amount,
      released |-> 0, sent |-> FALSE, acknowledged |-> FALSE, unknown |-> FALSE,
      cancelPending |-> FALSE, terminal |-> None])]

MayStage(a, c) ==
  /\ Has(a, c.reservation)
  /\ LET r == a.reservations[c.reservation]
     IN /\ r.remaining # 0
        /\ c.stage = "SENT_TO_BROKER" => ~r.sent
        /\ c.stage = "CANCEL_REQUESTED" => r.sent

AfterStage(a, c) ==
  [a EXCEPT !.reservations[c.reservation] =
     CASE c.stage = "SENT_TO_BROKER" -> [@ EXCEPT !.sent = TRUE]
       [] c.stage = "SUBMIT_UNKNOWN" -> [@ EXCEPT !.sent = TRUE, !.unknown = TRUE]
       [] c.stage = "BROKER_ACKNOWLEDGED" ->
            [@ EXCEPT !.sent = TRUE, !.acknowledged = TRUE, !.unknown = FALSE]
       [] c.stage = "CANCEL_REQUESTED" -> [@ EXCEPT !.cancelPending = TRUE]]

\* A reservation ends once; the same outcome again is a duplicate.
Again(a, c) == a.reservations[c.reservation].terminal = c.outcome

MayRelease(a, c) ==
  /\ Has(a, c.reservation)
  /\ LET r == a.reservations[c.reservation]
     IN \/ r.terminal = c.outcome
        \/ r.terminal = None /\ (c.outcome = "NOT_SENT" => ~r.sent)

Freed(r, outcome) ==
  [r EXCEPT !.released = @ + r.remaining, !.remaining = 0, !.terminal = outcome]

AfterRelease(a, c) ==
  IF Again(a, c) THEN a
  ELSE [a EXCEPT !.reservations[c.reservation] =
     CASE c.outcome = "UNKNOWN" ->
            [@ EXCEPT !.sent = TRUE, !.unknown = TRUE, !.cancelPending = TRUE]
       [] c.outcome = "NOT_SENT" -> Freed(@, c.outcome)
       [] OTHER -> [Freed(@, c.outcome) EXCEPT !.unknown = FALSE, !.cancelPending = FALSE]]

-----------------------------------------------------------------------------
\* Trades.

\* Mutant: the charges are not taken from the reservation.
Gross_WithoutCharges(c) == c.notional

\* What a buy takes from its reservation; rebates are credited to the cash only.
Gross(c) == c.notional + c.charges

MayConsume(a, c) ==
  /\ Has(a, c.reservation)
  /\ LET r == a.reservations[c.reservation]
     IN /\ r.order = c.order
        /\ r.remaining # 0
        /\ Gross(c) <= r.remaining
        /\ ~c.terminal => Gross(c) # r.remaining

\* A fill proves that the order was sent; the last one frees what is left.
Consumed(r, c) ==
  LET s == [r EXCEPT !.sent = TRUE, !.remaining = @ - Gross(c), !.consumed = @ + Gross(c)]
  IN IF c.terminal
     THEN [Freed(s, "FILLED") EXCEPT !.unknown = FALSE, !.cancelPending = FALSE]
     ELSE s

StaleTrade(a, c) == c.sequence <= a.tradeSeq \/ c.time < a.now

MayTrade(a, c) == StaleTrade(a, c) \/ c.side = "SELL" \/ MayConsume(a, c)

CashEffect(c) == c.rebates - c.charges + (IF c.side = "BUY" THEN -c.notional ELSE c.notional)

AfterTrade(a, c) ==
  IF StaleTrade(a, c) THEN [a EXCEPT !.flags = @ \cup {"STALE_TRADE"}]
  ELSE [a EXCEPT
    !.cash = @ + CashEffect(c),
    !.reservations = IF c.side = "BUY"
                     THEN [@ EXCEPT ![c.reservation] = Consumed(a.reservations[c.reservation], c)]
                     ELSE @,
    !.receivables = IF ~c.withdrawable /\ CashEffect(c) > 0
                    THEN With(@, c.trade, CashEffect(c)) ELSE @,
    !.tradeSeq = c.sequence]

-----------------------------------------------------------------------------
\* Cash changes, economic facts, settlement and the Broker's view.

MayChange(a, c) ==
  c.kind = "WITHDRAWAL" => a.flags = {} /\ c.amount <= Withdrawable(a)

AfterChange(a, c) ==
  [a EXCEPT !.cash = IF c.kind = "DEPOSIT" THEN @ + c.amount ELSE @ - c.amount]

AfterEconomic(a, c) == [a EXCEPT !.cash = @ + c.amount]

MaySettle(a, c) ==
  /\ c.source \in DOMAIN a.receivables
  /\ c.amount > 0
  /\ c.amount <= a.receivables[c.source]

AfterSettle(a, c) == [a EXCEPT !.receivables[c.source] = @ - c.amount]

StaleView(a, c) == c.sequence <= a.brokerSeq \/ c.time < a.now

\* observe_broker: a verified view of this very state sets or clears the block.
AfterBroker(a, c) ==
  IF StaleView(a, c) THEN a
  ELSE [a EXCEPT
    !.brokerSeq = c.sequence,
    !.flags = IF ~c.verified \/ c.basis # a.sequence
              THEN @ \cup {"BROKER_PROOF_UNAVAILABLE"}
              ELSE (@ \ {"BROKER_PROOF_UNAVAILABLE", "BROKER_LOCAL_CONFLICT"})
                   \cup (IF c.cash = a.cash THEN {} ELSE {"BROKER_LOCAL_CONFLICT"})]

-----------------------------------------------------------------------------
\* apply_inner.

Identities(c) ==
  CASE c.op = "TRADE" -> {<<"trade", c.trade>>, <<"venue_trade", c.venue>>}
    [] c.op = "RESERVE" -> {<<"reservation", c.reservation>>}
    [] c.op = "CASH_CHANGE" -> {<<"change", c.change>>, <<"source_fact", c.fact>>}
    [] c.op = "ECONOMIC" -> {<<"cashflow", c.cashflow>>, <<"source_fact", c.fact>>}
    [] c.op = "SETTLE" -> {<<"settlement", c.instruction>>}
    [] c.op = "BROKER" -> {<<"broker", c.snapshot>>}
    [] OTHER -> {}

\* Mutant: only the command identifier protects from a second delivery.
Known_ByReceipt(c) == {}

\* The commands the identities of the fact are bound to.
Known(c) == {semantic[i] : i \in Identities(c) \cap DOMAIN semantic}

Admission(c) == c.op \in {"RESERVE", "CASH_CHANGE"}

\* transition: the guards of each operation.
Allowed(a, c) ==
  /\ c.op \notin {"TRADE", "BROKER"} => c.time >= a.now
  /\ CASE c.op = "RESERVE" -> MayReserve(a, c)
       [] c.op = "STAGE" -> MayStage(a, c)
       [] c.op = "RELEASE" -> MayRelease(a, c)
       [] c.op = "TRADE" -> MayTrade(a, c)
       [] c.op = "CASH_CHANGE" -> MayChange(a, c)
       [] c.op = "SETTLE" -> MaySettle(a, c)
       [] OTHER -> TRUE

Transition(a, c) ==
  CASE c.op = "RESERVE" -> AfterReserve(a, c)
    [] c.op = "STAGE" -> AfterStage(a, c)
    [] c.op = "RELEASE" -> AfterRelease(a, c)
    [] c.op = "TRADE" -> AfterTrade(a, c)
    [] c.op = "CASH_CHANGE" -> AfterChange(a, c)
    [] c.op = "ECONOMIC" -> AfterEconomic(a, c)
    [] c.op = "SETTLE" -> AfterSettle(a, c)
    [] c.op = "BROKER" -> AfterBroker(a, c)

Duplicate(a, c) == Known(c) # {} \/ (c.op = "RELEASE" /\ Again(a, c))

\* The candidate: every status but Duplicate advances the sequence and the time.
Candidate(a, c) ==
  IF Duplicate(a, c) THEN a
  ELSE [Transition(a, c) EXCEPT !.sequence = @ + 1,
                                !.now = IF c.time > @ THEN c.time ELSE @]

Books(a, c) ==
  /\ ~Duplicate(a, c)
  /\ c.op \in {"TRADE", "CASH_CHANGE", "ECONOMIC"}
  /\ c.op = "TRADE" => ~StaleTrade(a, c)

Apply(c) ==
  /\ journal < MaxJournal
  /\ Admission(c) => journal < MaxCommands
  /\ Known(c) \subseteq {c}
  /\ Known(c) # {} \/ Allowed(state, c)
  /\ Valid(Candidate(state, c))
  /\ state' = Candidate(state, c)
  /\ journal' = journal + 1
  /\ semantic' = [i \in DOMAIN semantic \cup Identities(c) |->
                    IF i \in Identities(c) THEN c ELSE semantic[i]]
  /\ booked' = IF Books(state, c) THEN booked \cup {c} ELSE booked

Next == \E c \in Command : Apply(c)

Spec == Init /\ [][Next]_vars

-----------------------------------------------------------------------------
Effect(c) ==
  CASE c.op = "TRADE" -> CashEffect(c)
    [] c.op = "CASH_CHANGE" /\ c.kind = "WITHDRAWAL" -> -c.amount
    [] OTHER -> c.amount

(* The cash is the initial cash and the effect of every fact booked, each  *)
(* counted once however often and under whichever command it arrived, and  *)
(* no two booked facts share an identity: a venue trade is never booked    *)
(* under two names, nor a source fact as a cash change and as a cash flow.  *)
BookedOnce ==
  /\ state.cash = InitialCash + MapThenSumSet(Effect, booked)
  /\ \A c, d \in booked : c # d => Identities(c) \cap Identities(d) = {}

Fill(r, i, n, ch, re, terminal) ==
  [side |-> "BUY", reservation |-> i, order |-> r.order, notional |-> n, charges |-> ch,
   rebates |-> re, terminal |-> terminal, withdrawable |-> TRUE, trade |-> None,
   sequence |-> state.tradeSeq + 1, time |-> state.now]

(* What the account checks of amounts never refuses the fill of a funded   *)
(* order: as long as a reservation is open, a fill that fits it leaves a   *)
(* state that validates, whatever was withdrawn, lost, reserved or left    *)
(* unsettled meanwhile, and also while the account is blocked or its       *)
(* journal full by its count of commands. The byte bound of a version 5    *)
(* checkpoint (manager.rs:241-247) can still refuse a trade: bytes are not *)
(* modelled.                                                               *)
FundedFillBooks ==
  \A i \in DOMAIN state.reservations : \A n, ch, re \in 0..MaxAmount : \A terminal \in BOOLEAN :
    LET c == Fill(state.reservations[i], i, n, ch, re, terminal)
    IN MayConsume(state, c) => Valid(AfterTrade(state, c))
=============================================================================
