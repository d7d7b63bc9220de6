--------------------------- MODULE MCOrderManager ---------------------------
(* Small instances of OrderManager for TLC. *)
EXTENDS OrderManager

MCRequest ==
  { [request_id |-> "q1", cluster |-> "c", account |-> "a", cause |-> "x",
     quantity |-> 2, expire |-> 3, close |-> FALSE],
    [request_id |-> "q2", cluster |-> "c", account |-> "a", cause |-> "x",
     quantity |-> 1, expire |-> None, close |-> TRUE],
    [request_id |-> "q1", cluster |-> "c", account |-> "a", cause |-> "y",
     quantity |-> 1, expire |-> None, close |-> FALSE] }

LocalCommand(op, n, at, body) ==
  [op |-> op, order |-> n, cluster |-> "c", at |-> at, body |-> body]

FeeCommand(n, at, bound_at, body) ==
  [op |-> "FEE", order |-> n, cluster |-> "c", at |-> at, bound_at |-> bound_at, body |-> body]

CancelCommand(n, at, id) ==
  [op |-> "CANCEL", order |-> n, cluster |-> "c", at |-> at, body |-> "b", request_id |-> id]

AcceptReport(n, event, seq, venue) ==
  [op |-> "ACCEPT", order |-> n, cluster |-> "c", at |-> 2, account |-> "a", event_at |-> 1,
   event_id |-> event, sequence |-> seq, venue |-> venue]

FillReport(n, event, seq, venue, trade, venue_trade, quantity) ==
  [op |-> "FILL", order |-> n, cluster |-> "c", at |-> 2, account |-> "a", event_at |-> 1,
   event_id |-> event, sequence |-> seq, venue |-> venue, trade |-> trade,
   venue_trade |-> venue_trade, quantity |-> quantity]

TerminalReport(op, n, event, seq, body) ==
  [op |-> op, order |-> n, cluster |-> "c", at |-> 2, account |-> "a", event_at |-> 1,
   event_id |-> event, sequence |-> seq, body |-> body]

Preparation(n) ==
  { FeeCommand(n, 1, 1, "f"), LocalCommand("BEGIN_SUBMIT", n, 1, None) }

\* One order, everything that can happen to it.
MCLifecycle ==
  Preparation(1) \cup
  { FeeCommand(1, 1, 1, "g"), FeeCommand(1, 1, 0, "f"),
    LocalCommand("BEGIN_SUBMIT", 1, 3, None),
    LocalCommand("SUBMIT_RESULT", 1, 1, "KNOWN_RESULT"),
    LocalCommand("SUBMIT_RESULT", 1, 2, "UNKNOWN"),
    LocalCommand("SUBMIT_RESULT", 1, 1, "SUPPRESSED"),
    LocalCommand("RECONCILE", 1, 2, None),
    LocalCommand("FAIL", 1, 1, "h"),
    CancelCommand(1, 1, "k1"), CancelCommand(1, 2, "k2"),
    AcceptReport(1, "e1", 1, "v1"), AcceptReport(1, "e9", None, "v2"),
    FillReport(1, "e2", 2, "v1", "t1", None, 1),
    FillReport(1, "e3", 3, None, "t2", "w2", 1),
    FillReport(1, "e4", None, "v1", "t1", None, 1),
    FillReport(1, "e5", 4, "v1", "t3", "w2", 2),
    TerminalReport("CANCELLED", 1, "e6", 5, None),
    TerminalReport("REJECTED", 1, "e7", None, "h"),
    TerminalReport("EXPIRED", 1, "e8", 6, None),
    TerminalReport("FAILED", 1, "e10", 3, "h"),
    TerminalReport("FAILED", 1, "e11", 7, "i") }

\* Two orders of one account, whose reports claim each other's identities.
MCShared ==
  Preparation(1) \cup Preparation(2) \cup
  { AcceptReport(1, "e1", None, "v1"), AcceptReport(2, "e2", None, "v1"),
    AcceptReport(2, "e1", None, "v2"),
    FillReport(1, "e3", None, "v1", "t1", "w1", 1), FillReport(2, "e4", None, "v2", "t1", "w2", 1),
    FillReport(2, "e5", None, None, "t2", "w1", 1), FillReport(1, "e6", None, "v2", "t3", None, 1),
    CancelCommand(1, 2, "k1"), CancelCommand(2, 2, "k1"),
    TerminalReport("CANCELLED", 1, "e7", None, None),
    TerminalReport("CANCELLED", 2, "e7", None, None) }

MCCommand == MCLifecycle \cup MCShared
=============================================================================
