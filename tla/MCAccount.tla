----------------------------- MODULE MCAccount ------------------------------
(* A small instance of Account: two orders, their fills delivered in and out *)
(* of order and under two names, a sale whose proceeds settle later.         *)
EXTENDS Account

Reserve(o, amount) ==
  [op |-> "RESERVE", time |-> 1, reservation |-> o, order |-> o, amount |-> amount]

Stage(o, s) == [op |-> "STAGE", time |-> 1, reservation |-> o, stage |-> s]

Release(o, s, t) == [op |-> "RELEASE", time |-> t, reservation |-> o, outcome |-> s]

Buy(trade, venue, seq, o, n, charges, rebates, terminal) ==
  [op |-> "TRADE", time |-> 1, trade |-> trade, venue |-> venue, sequence |-> seq,
   side |-> "BUY", reservation |-> o, order |-> o, notional |-> n, charges |-> charges,
   rebates |-> rebates, terminal |-> terminal, withdrawable |-> TRUE]

Sell(trade, seq, n, charges) ==
  [op |-> "TRADE", time |-> 1, trade |-> trade, venue |-> trade, sequence |-> seq,
   side |-> "SELL", reservation |-> None, order |-> None, notional |-> n,
   charges |-> charges, rebates |-> 0, terminal |-> FALSE, withdrawable |-> FALSE]

Change(name, kind, amount) ==
  [op |-> "CASH_CHANGE", time |-> 1, change |-> name, fact |-> name, kind |-> kind,
   amount |-> amount]

View(name, seq, verified, basis, cash) ==
  [op |-> "BROKER", time |-> 2, snapshot |-> name, sequence |-> seq, verified |-> verified,
   basis |-> basis, cash |-> cash]

MCCommand ==
  {Reserve("o1", 2), Reserve("o2", 1)}
  \cup {Stage("o1", s) : s \in {"SENT_TO_BROKER", "SUBMIT_UNKNOWN", "BROKER_ACKNOWLEDGED",
                                "CANCEL_REQUESTED"}}
  \cup {Release("o1", "NOT_SENT", 1), Release("o1", "UNKNOWN", 1), Release("o1", "CANCELLED", 2)}
  \cup {Buy("t1", "v1", 1, "o1", 1, 0, 0, FALSE), Buy("t2", "v2", 2, "o1", 0, 1, 1, TRUE),
        Buy("t3", "v1", 3, "o1", 1, 0, 0, FALSE)}
  \cup {Sell("s1", 4, 2, 1), Sell("s2", 5, 0, 1)}
  \cup {Change("d", "DEPOSIT", 1), Change("w", "WITHDRAWAL", 1)}
  \cup {[op |-> "ECONOMIC", time |-> 1, cashflow |-> "f", fact |-> "w", amount |-> -1],
        [op |-> "SETTLE", time |-> 2, instruction |-> "i", source |-> "s1", amount |-> 1]}
  \cup {View("b1", 1, FALSE, 0, 3), View("b2", 2, TRUE, 2, 3), View("b3", 3, TRUE, 3, 2)}
=============================================================================
