------------------------------- MODULE MCRisk -------------------------------
(* Values for Risk: two clusters of the account "acc", two orders that buy   *)
(* and two that sell the same shares, filled in parts or cancelled.  A cash  *)
(* requirement is above or below the notional of its request.                *)
EXTENDS TLC

CONSTANT None

MCRequest ==
  {[id |-> "q1", cluster |-> "a", open |-> TRUE, quantity |-> 2, notional |-> 2, fee |-> 1,
    cash |-> 3],
   [id |-> "q2", cluster |-> "a", open |-> TRUE, quantity |-> 1, notional |-> 2, fee |-> 0,
    cash |-> 1],
   [id |-> "q3", cluster |-> "b", open |-> FALSE, quantity |-> 1, notional |-> 1, fee |-> 0,
    cash |-> 0],
   [id |-> "q4", cluster |-> "b", open |-> FALSE, quantity |-> 1, notional |-> 2, fee |-> 1,
    cash |-> 0]}

\* Read at the start or later; once without the cash.
MCViews ==
  {[cash |-> [at |-> n, account |-> 5, cluster |-> 4],
    shares |-> [at |-> n, account |-> 2, cluster |-> 1]] : n \in {0, 4}}
  \cup {[cash |-> None, shares |-> [at |-> 2, account |-> 2, cluster |-> 2]]}

MCRule ==
  {[cluster |-> "a", scope |-> "CLUSTER", kind |-> "MAX_RESERVED_NOTIONAL", limit |-> 3,
    observing |-> FALSE],
   [cluster |-> "a", scope |-> "ACCOUNT", kind |-> "MAX_ACTIVE_ORDERS", limit |-> 2,
    observing |-> FALSE],
   [cluster |-> "a", scope |-> "CLUSTER", kind |-> "MAX_ORDER_QUANTITY", limit |-> 1,
    observing |-> TRUE]}

Fill(n, o, q, notional, final) ==
  [op |-> "FILL", order |-> o, trade |-> n, source |-> n, quantity |-> q, notional |-> notional,
   final |-> final]

MCReport ==
  {Fill("t1", "o1", 1, 1, FALSE), Fill("t2", "o1", 1, 1, TRUE), Fill("t3", "o2", 1, 1, TRUE)}
  \cup {[op |-> "STAGE", order |-> "o1", stage |-> "SENT"]}
  \cup {[op |-> "TERMINAL", order |-> "o1", source |-> "x1", outcome |-> x] :
          x \in {"CANCELLED", "NOT_SENT"}}
=============================================================================
