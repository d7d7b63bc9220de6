---------------------------- MODULE MCMarketData ----------------------------
(***************************************************************************)
(* The two halves of market data storage for TLC: one segment of the       *)
(* write-ahead log down to its file operations, and the drain of several   *)
(* sealed segments.  `half` is the one that moves; what the drain relies   *)
(* on, that a sealed segment does not change, is what the log implements.  *)
(***************************************************************************)
EXTENDS MarketDataDrain

CONSTANTS b1, b2, r1, MaxRecords, MaxLogFaults, FaultModels

VARIABLES files, up, open, task, todo, gc, born, sealing, failed, records,
          accepted, owned, refused, strikes, logFaults,
          half

ASSUME WalAssumption ==
    /\ MaxRecords \in Nat \ {0}
    /\ MaxLogFaults \in Nat
    /\ FaultModels \subseteq SUBSET {"call", "kill", "power"}

Wal == INSTANCE MarketDataWal WITH MaxFaults <- MaxLogFaults, faults <- logFaults

logVars == <<files, up, open, task, todo, gc, born, sealing, failed, records,
             accepted, owned, refused, strikes, logFaults>>

\* Two segments with bars, one with raw events only.
MCBars == {b1, b2}
MCSegments == {b1, b2, r1}

StorageInit ==
    /\ half \in {"log", "drain"}
    /\ Init /\ Wal!Init
    /\ half = "drain" => strikes = CHOOSE m \in FaultModels : TRUE

StorageNext ==
    \/ half = "log" /\ Wal!Next /\ UNCHANGED <<drainVars, half>>
    \/ half = "drain" /\ Next /\ UNCHANGED <<logVars, half>>

StorageSpec == StorageInit /\ [][StorageNext]_<<drainVars, logVars, half>>

\* What MarketDataWal states: the segment implements DurableSegment.
ImplementsSegment == Wal!ImplementsSegment

\* What MarketDataWal states of startup recovery.
RestartRecovers == Wal!RestartRecovers

\* What MarketDataWal states of startup recovery, collected segments included.
NeverRefused == Wal!NeverRefused
=============================================================================
