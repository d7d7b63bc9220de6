----------------------------- MODULE MCPosition -----------------------------
(* Commands for Position: two clusters buy shares of which some settle        *)
(* later, two sell orders of one of them and one of the other.                *)
EXTENDS Naturals, TLC

CONSTANTS Unallocated, None

Buy(n, w, q, settled) ==
  [op |-> "TRADE", time |-> 1, trade |-> n, venue |-> n, sequence |-> n, side |-> "BUY",
   order |-> None, cluster |-> w, quantity |-> q, settled |-> settled, terminal |-> FALSE, places |-> 0]

Sell(n, o, w, q, terminal) ==
  [op |-> "TRADE", time |-> 1, trade |-> n, venue |-> n, sequence |-> n, side |-> "SELL",
   order |-> o, cluster |-> w, quantity |-> q, settled |-> TRUE, terminal |-> terminal, places |-> 12]

Order(op, o, w) == [op |-> op, time |-> 1, order |-> o, cluster |-> w]

View(n, total, settled, available) ==
  [op |-> "BROKER", time |-> 2, snapshot |-> n, sequence |-> n, side |-> "LONG",
   total |-> total, settled |-> settled, available |-> available]

MCCommand ==
  {Buy(1, "a", 2, TRUE), Buy(2, "a", 1, FALSE), Buy(3, "b", 1, TRUE), Buy(4, Unallocated, 1, TRUE)}
  \cup {Sell(5, "o1", "a", 1, FALSE), Sell(6, "o1", "a", 1, TRUE), Sell(7, "o2", "a", 1, TRUE)}
  \cup {[quantity |-> IF o = "o1" THEN 2 ELSE 1] @@ Order("RESERVE", o, "a") : o \in {"o1", "o2"}}
  \cup {[quantity |-> 1] @@ Order("RESERVE", "o3", "b")}
  \cup {[stage |-> s] @@ Order("STAGE", o, "a") :
          s \in {"SENT_TO_BROKER", "BROKER_ACKNOWLEDGED"}, o \in {"o1", "o2"}}
  \cup {[confirmed |-> k] @@ Order("RELEASE", "o1", "a") : k \in BOOLEAN}
  \cup {[op |-> "SETTLE", time |-> 2, source |-> "day", cluster |-> "a", quantity |-> 1],
        [op |-> "RESTRICTION", time |-> 1,
         restriction |-> [id |-> "r", quantity |-> 1, from |-> 1, until |-> 2]],
        [op |-> "REMOVE_RESTRICTION", time |-> 1, id |-> "r"],
        [op |-> "TICK", time |-> 2]}
  \cup {View(1, 3, 2, 1), View(2, 2, 2, 2)}
=============================================================================
