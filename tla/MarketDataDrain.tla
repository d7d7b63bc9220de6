--------------------------- MODULE MarketDataDrain ---------------------------
(***************************************************************************)
(* The drain of sealed market data segments: Storage::drain writes the     *)
(* rows of a segment to ClickHouse, reads them back, publishes segment and *)
(* physical proof in PostgreSQL, then the coverage, and only then lets the *)
(* log collect the files; recover_wal_inputs resumes a collection that was *)
(* begun.                                                                  *)
(*                                                                         *)
(* ClickHouse has no transaction over tables and no key: an insert whose   *)
(* answer was lost may have been applied, may be applied later, or never.  *)
(* A second insert of the same rows would double them, so the right to     *)
(* send is a row in PostgreSQL that is written once and whose               *)
(* acknowledged commit alone grants it.                                     *)
(***************************************************************************)
EXTENDS Naturals, Sequences, FiniteSets

CONSTANTS
    Segments,     \* sealed segments
    Bars,         \* those that hold canonical facts, not only raw events
    Raw, Fact,    \* the ClickHouse tables: raw events and one table of facts
    MaxFaults     \* lost answers, stops and lost requests in one behaviour

ASSUME DrainAssumption ==
    /\ Bars \subseteq Segments
    /\ IsFiniteSet(Segments)
    /\ Raw # Fact
    /\ MaxFaults \in Nat

VARIABLES
    wal,         \* segment -> "sealed", "marked" (gc.json) or "gone"
    witness,     \* segments with a STORE_SUBMISSION_STARTED event
    published,   \* segments in market_ingest_segment with their proof
    covered,     \* segments a coverage manifest refers to
    rows,        \* segment -> table -> copies of its rows in ClickHouse
    flight,      \* segment -> table -> inserts the server may still apply
    drain,       \* the drain in progress
    faults       \* faults so far

drainVars == <<wal, witness, published, covered, rows, flight, drain, faults>>

Tables == {Raw, Fact}

\* Rows a segment has in a table: a raw segment has none of facts.
Holds(s, t) == t = Raw \/ s \in Bars

\* A drain goes over its segments once per stage; `left` are those the stage
\* has not reached, `absent` those the first reading found no rows of, and
\* `cur` the segment and the table whose insert is being awaited.
Stages == {"idle", "load", "submit", "insert", "verify", "publish", "cover", "collect"}
Idle == [stage |-> "idle", ids |-> {}, left |-> {}, absent |-> {}, cur |-> <<>>]

TypeOK ==
    /\ wal \in [Segments -> {"sealed", "marked", "gone"}]
    /\ witness \subseteq Segments
    /\ published \subseteq Segments
    /\ covered \subseteq Segments
    /\ rows \in [Segments -> [Tables -> Nat]]
    /\ flight \in [Segments -> [Tables -> Nat]]
    /\ drain \in [stage : Stages, ids : SUBSET Segments, left : SUBSET Segments,
                  absent : SUBSET Segments, cur : {<<>>} \union (Segments \X Tables)]
    /\ faults \in 0 .. MaxFaults

Init ==
    /\ wal = [s \in Segments |-> "sealed"]
    /\ witness = {} /\ published = {} /\ covered = {}
    /\ rows = [s \in Segments |-> [t \in Tables |-> 0]]
    /\ flight = [s \in Segments |-> [t \in Tables |-> 0]]
    /\ drain = Idle
    /\ faults = 0

\* classify: nothing, or exactly the rows of the segment.
Absent(s) == \A t \in Tables : rows[s][t] = 0
Exact(s) == \A t \in Tables : rows[s][t] = IF Holds(s, t) THEN 1 ELSE 0

-----------------------------------------------------------------------------
Goes(stage, left) == drain' = [drain EXCEPT !.stage = stage, !.left = left]
Ends == drain' = Idle
Fault == faults < MaxFaults /\ faults' = faults + 1

\* The stage is done with s: the next stage begins when s was the last one.
Passes(s, next, left) ==
    IF drain.left = {s} THEN Goes(next, left) ELSE Goes(drain.stage, drain.left \ {s})

\* A drain takes published seals: raw segments one by one, bars in groups.
Start(ids) ==
    /\ drain.stage = "idle"
    /\ ids # {}
    /\ \A s \in ids : wal[s] = "sealed"
    /\ ids \subseteq Bars \/ Cardinality(ids) = 1
    /\ drain' = [Idle EXCEPT !.stage = "load", !.ids = ids, !.left = ids]
    /\ UNCHANGED <<wal, witness, published, covered, rows, flight, faults>>

\* One segment is loaded, looked up in the catalog and read from ClickHouse.
\* Rows that are neither absent nor exact end the drain, and so does anything
\* but the exact rows of a segment that is published.
Load(s) ==
    /\ drain.stage = "load" /\ s \in drain.left
    /\ LET absent == drain.absent \union (IF Absent(s) THEN {s} ELSE {}) IN
       IF ~Exact(s) /\ (s \in published \/ ~Absent(s)) THEN Ends
       ELSE IF drain.left = {s}
       THEN drain' = [drain EXCEPT !.absent = absent, !.stage = "submit", !.left = drain.ids]
       ELSE drain' = [drain EXCEPT !.absent = absent, !.left = @ \ {s}]
    /\ UNCHANGED <<wal, witness, published, covered, rows, flight, faults>>

\* Rows that are there already are not sent.
SubmitNothing(s) ==
    /\ drain.stage = "submit" /\ s \in drain.left \ drain.absent
    /\ Passes(s, "verify", drain.ids)
    /\ UNCHANGED <<wal, witness, published, covered, rows, flight, faults>>

\* Mutant: an existing witness grants the right to send again.
MaySend_Existing(s) == TRUE

\* Only the transaction that creates the witness grants its one dispatch.
MaySend(s) == s \notin witness

\* catalog.submission commits and is acknowledged: the raw rows are sent.
Submit(s) ==
    /\ drain.stage = "submit" /\ s \in drain.left \cap drain.absent
    /\ MaySend(s)
    /\ witness' = witness \union {s}
    /\ flight' = [flight EXCEPT ![s][Raw] = @ + 1]
    /\ drain' = [drain EXCEPT !.stage = "insert", !.cur = <<s, Raw>>]
    /\ UNCHANGED <<wal, published, covered, rows, faults>>

\* The witness exists already: rows were sent, with an outcome nobody knows.
SubmitUnknown(s) ==
    /\ drain.stage = "submit" /\ s \in drain.left \cap drain.absent
    /\ ~MaySend(s)
    /\ Ends
    /\ UNCHANGED <<wal, witness, published, covered, rows, flight, faults>>

\* The commit of the witness is not acknowledged: the right to send is lost.
SubmitLost(s) ==
    /\ drain.stage = "submit" /\ s \in drain.left \cap drain.absent
    /\ MaySend(s)
    /\ Fault
    /\ witness' \in {witness, witness \union {s}}
    /\ Ends
    /\ UNCHANGED <<wal, published, covered, rows, flight>>

\* ClickHouse applies an insert and the drain that awaits it gets the answer:
\* after the raw rows it sends those of the facts.
Inserted(s, t) ==
    /\ drain.stage = "insert" /\ drain.cur = <<s, t>>
    /\ flight[s][t] > 0
    /\ rows' = [rows EXCEPT ![s][t] = @ + 1]
    /\ IF t = Raw /\ Holds(s, Fact)
       THEN /\ flight' = [flight EXCEPT ![s][Raw] = @ - 1, ![s][Fact] = @ + 1]
            /\ drain' = [drain EXCEPT !.cur = <<s, Fact>>]
       ELSE /\ flight' = [flight EXCEPT ![s][t] = @ - 1]
            /\ drain' = [drain EXCEPT
                    !.cur = <<>>,
                    !.stage = IF drain.left = {s} THEN "verify" ELSE "submit",
                    !.left = IF drain.left = {s} THEN drain.ids ELSE @ \ {s}]
    /\ UNCHANGED <<wal, witness, published, covered, faults>>

\* An insert nobody waits for any more is applied late, or never.
AppliedLate(s, t) ==
    /\ drain.cur # <<s, t>>
    /\ flight[s][t] > 0
    /\ flight' = [flight EXCEPT ![s][t] = @ - 1]
    /\ rows' = [rows EXCEPT ![s][t] = @ + 1]
    /\ UNCHANGED <<wal, witness, published, covered, drain, faults>>
NeverApplied(s, t) ==
    /\ drain.cur # <<s, t>>
    /\ flight[s][t] > 0
    /\ flight' = [flight EXCEPT ![s][t] = @ - 1]
    /\ UNCHANGED <<wal, witness, published, covered, rows, drain, faults>>

Verify(s) ==
    /\ drain.stage = "verify" /\ s \in drain.left
    /\ IF Exact(s) THEN Passes(s, "publish", {}) ELSE Ends
    /\ UNCHANGED <<wal, witness, published, covered, rows, flight, faults>>

\* Mutant: the files are collected as soon as the segments are published.
AfterPublish_Collects == "collect"

\* Segments with facts get their coverage before anything is collected.
AfterPublish == IF drain.ids \subseteq Bars THEN "cover" ELSE "collect"

Publish ==
    /\ drain.stage = "publish"
    /\ published' = published \union drain.ids
    /\ Goes(AfterPublish, drain.ids)
    /\ UNCHANGED <<wal, witness, covered, rows, flight, faults>>
PublishLost ==
    /\ drain.stage = "publish"
    /\ Fault
    /\ published' \in {published, published \union drain.ids}
    /\ Ends
    /\ UNCHANGED <<wal, witness, covered, rows, flight>>

Cover ==
    /\ drain.stage = "cover"
    /\ covered' = covered \union drain.ids
    /\ Goes("collect", drain.ids)
    /\ UNCHANGED <<wal, witness, published, rows, flight, faults>>
CoverLost ==
    /\ drain.stage = "cover"
    /\ Fault
    /\ covered' \in {covered, covered \union drain.ids}
    /\ Ends
    /\ UNCHANGED <<wal, witness, published, rows, flight>>

\* collect_verified: the marker is written, then the files are removed.
Mark(s) ==
    /\ drain.stage = "collect" /\ s \in drain.left
    /\ wal[s] = "sealed"
    /\ wal' = [wal EXCEPT ![s] = "marked"]
    /\ UNCHANGED <<witness, published, covered, rows, flight, drain, faults>>
Collect(s) ==
    /\ drain.stage = "collect" /\ s \in drain.left
    /\ wal[s] = "marked"
    /\ wal' = [wal EXCEPT ![s] = "gone"]
    /\ IF drain.left = {s} THEN Ends ELSE Goes("collect", drain.left \ {s})
    /\ UNCHANGED <<witness, published, covered, rows, flight, faults>>

\* The answer of an insert is lost, the work is cancelled or the host stops.
Stop ==
    /\ drain.stage # "idle"
    /\ Fault
    /\ Ends
    /\ UNCHANGED <<wal, witness, published, covered, rows, flight>>

\* Startup resumes a collection after it has proved its right to it again.
Resume(s) ==
    /\ drain.stage = "idle"
    /\ wal[s] = "marked"
    /\ s \in published /\ Exact(s)
    /\ s \in Bars => s \in covered
    /\ wal' = [wal EXCEPT ![s] = "gone"]
    /\ UNCHANGED <<witness, published, covered, rows, flight, drain, faults>>

Next ==
    \/ \E ids \in SUBSET Segments : Start(ids)
    \/ \E s \in Segments :
          \/ Load(s) \/ SubmitNothing(s) \/ Submit(s) \/ SubmitUnknown(s)
          \/ SubmitLost(s) \/ Verify(s) \/ Mark(s) \/ Collect(s) \/ Resume(s)
    \/ \E s \in Segments, t \in Tables :
          Inserted(s, t) \/ AppliedLate(s, t) \/ NeverApplied(s, t)
    \/ Publish \/ PublishLost \/ Cover \/ CoverLost \/ Stop

Spec == Init /\ [][Next]_drainVars

-----------------------------------------------------------------------------
(***************************************************************************)
(* Properties.                                                             *)
(***************************************************************************)
\* However often a drain is retried after a lost answer, a cancelled wait or a
\* restart, the rows of a segment are sent at most once: ClickHouse never holds
\* two copies, not even when an insert is applied long after it was given up.
RowsOnce ==
    \A s \in Segments, t \in Tables :
        rows[s][t] + flight[s][t] <= IF Holds(s, t) THEN 1 ELSE 0

\* The log of a segment is collected only after the catalog owns the segment
\* with its proof and its coverage and ClickHouse holds exactly its rows; and no
\* later step of any drain takes that away again.
CollectedIsOwned ==
    \A s \in Segments : wal[s] # "sealed" =>
        /\ s \in published
        /\ Exact(s)
        /\ s \in Bars => s \in covered
=============================================================================
