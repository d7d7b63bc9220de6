--------------------------- MODULE DurableSegment ---------------------------
(***************************************************************************)
(* What one segment of the market data write-ahead log promises to the     *)
(* recorder that fills it: an observation whose append returned is held    *)
(* until it is sealed, a sealed segment never changes, a segment that      *)
(* accepted anything is never abandoned, and a sealed segment goes away    *)
(* only after the catalog owns all of it.                                  *)
(***************************************************************************)
EXTENDS Naturals

VARIABLES
    phase,      \* "open", "sealed", "abandoned" or "collected"
    accepted,   \* observations whose append returned an ordinal
    held,       \* whole observations the segment holds, in order
    owned       \* observations the catalog owns

segment == <<phase, accepted, held, owned>>

Init == phase = "open" /\ accepted = 0 /\ held = 0 /\ owned = 0

\* An observation is written; until it is accepted a crash may still lose it.
Write ==
    /\ phase = "open"
    /\ held' = held + 1
    /\ UNCHANGED <<phase, accepted, owned>>

Accept ==
    /\ phase = "open"
    /\ accepted < held
    /\ accepted' = accepted + 1
    /\ UNCHANGED <<phase, held, owned>>

\* The recorder sees its write and its acknowledgement as one step.
Append ==
    /\ phase = "open"
    /\ held = accepted
    /\ held' = held + 1
    /\ accepted' = accepted + 1
    /\ UNCHANGED <<phase, owned>>

Lose ==
    /\ phase = "open"
    /\ held' \in accepted .. held
    /\ UNCHANGED <<phase, accepted, owned>>

Seal ==
    /\ phase = "open"
    /\ held > 0
    /\ phase' = "sealed"
    /\ UNCHANGED <<accepted, held, owned>>

Abandon ==
    /\ phase = "open"
    /\ accepted = 0
    /\ phase' = "abandoned"
    /\ held' = 0
    /\ UNCHANGED <<accepted, owned>>

Publish ==
    /\ phase = "sealed"
    /\ owned' = held
    /\ UNCHANGED <<phase, accepted, held>>

Collect ==
    /\ phase = "sealed"
    /\ owned = held
    /\ phase' = "collected"
    /\ held' = 0
    /\ UNCHANGED <<accepted, owned>>

Next == Write \/ Accept \/ Append \/ Lose \/ Seal \/ Abandon \/ Publish \/ Collect

Spec == Init /\ [][Next]_segment
=============================================================================
