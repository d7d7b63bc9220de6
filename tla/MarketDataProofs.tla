-------------------------- MODULE MarketDataProofs --------------------------
(***************************************************************************)
(* Theorems about MarketDataDrain, for any finite set of segments and any  *)
(* number of faults, and about MarketDataWal, for any number of records,   *)
(* any number of faults and any fault model: that it implements            *)
(* DurableSegment, and that startup recovery has an answer for the files   *)
(* of every interruption by faults of one kind.                            *)
(***************************************************************************)
EXTENDS MCMarketData, FiniteSetTheorems, TLAPS

-----------------------------------------------------------------------------
(* The drain: the inductive invariant *)

\* Without a witness nothing was ever sent.
Unsent == \A s \in Segments : s \notin witness =>
            \A t \in Tables : rows[s][t] = 0 /\ flight[s][t] = 0

Limit(s, t) == IF Holds(s, t) THEN 1 ELSE 0

\* While the insert of the raw rows is awaited, no fact was sent.
InsertSound ==
    IF drain.stage # "insert" THEN drain.cur = <<>> ELSE
    \E s \in Segments, t \in Tables :
        /\ drain.cur = <<s, t>>
        /\ s \in witness
        /\ Holds(s, t)
        /\ t = Raw => rows[s][Fact] = 0 /\ flight[s][Fact] = 0

\* What the stages of a drain have established of its segments.
StageSound ==
    /\ drain.left \subseteq drain.ids
    /\ drain.ids \subseteq Bars \/ drain.ids \cap Bars = {}
    /\ drain.stage = "verify" => \A s \in drain.ids \ drain.left : Exact(s)
    /\ drain.stage \in {"publish", "cover", "collect"} => \A s \in drain.ids : Exact(s)
    /\ drain.stage \in {"cover", "collect"} => drain.ids \subseteq published
    /\ drain.stage = "collect" => drain.ids \cap Bars \subseteq covered

DrainInvariant ==
    TypeOK /\ Unsent /\ RowsOnce /\ InsertSound /\ StageSound /\ CollectedIsOwned

-----------------------------------------------------------------------------
(* Rows and requests *)

Drain == [stage : Stages, ids : SUBSET Segments, left : SUBSET Segments,
          absent : SUBSET Segments, cur : {<<>>} \union (Segments \X Tables)]

Counts == [Segments -> [Tables -> Nat]]

LEMMA CountsTyped ==
  ASSUME TypeOK, NEW s \in Segments, NEW t \in Tables
  PROVE  rows[s][t] \in Nat /\ flight[s][t] \in Nat
BY DEF TypeOK

\* Rows that are exact stay so: no request is left that could add to them.
LEMMA ExactFinal ==
  ASSUME TypeOK, RowsOnce, NEW s \in Segments, Exact(s), NEW t \in Tables
  PROVE  flight[s][t] = 0
<1>1. rows[s][t] \in Nat /\ flight[s][t] \in Nat  BY CountsTyped
<1>2. rows[s][t] = Limit(s, t)  BY DEF Exact, Limit
<1>3. rows[s][t] + flight[s][t] <= Limit(s, t)  BY DEF RowsOnce, Limit
<1>4. Limit(s, t) \in Nat  BY DEF Limit
<1> QED  BY <1>1, <1>2, <1>3, <1>4

\* What follows from rows and requests alone, and survives every step that
\* moves at most one insert.
LEMMA ExactKept ==
  ASSUME TypeOK, RowsOnce,
         \A s \in Segments, t \in Tables : rows'[s][t] = rows[s][t] \/ flight[s][t] > 0
  PROVE  \A s \in Segments : Exact(s) => Exact(s)'
<1> SUFFICES ASSUME NEW s \in Segments, Exact(s) PROVE Exact(s)'  OBVIOUS
<1>1. \A t \in Tables : flight[s][t] = 0  BY ExactFinal
<1>2. \A t \in Tables : rows'[s][t] = rows[s][t]  BY <1>1
<1> QED  BY <1>2 DEF Exact, Holds

\* A collected segment keeps what it has.
LEMMA OwnedKept ==
  ASSUME CollectedIsOwned, \A s \in Segments : Exact(s) => Exact(s)',
         published \subseteq published', covered \subseteq covered', wal' = wal
  PROVE  CollectedIsOwned'
BY DEF CollectedIsOwned

LEMMA StageKept ==
  ASSUME StageSound, drain.ids \subseteq Segments, \A s \in Segments : Exact(s) => Exact(s)',
         published \subseteq published', covered \subseteq covered', drain' = drain
  PROVE  StageSound'
BY DEF StageSound

LEMMA IdleSound ==
  ASSUME drain' = Idle
  PROVE  InsertSound' /\ StageSound' /\ drain' \in Drain
BY DEF Idle, InsertSound, StageSound, Stages, Drain

LEMMA InitSound == Init => DrainInvariant
<1> SUFFICES ASSUME Init PROVE DrainInvariant  OBVIOUS
<1>1. rows \in Counts /\ flight \in Counts  BY DEF Init, Counts
<1>2. TypeOK  BY <1>1, DrainAssumption DEF Init, TypeOK, Idle, Stages, Counts
<1>3. \A s \in Segments, t \in Tables : rows[s][t] = 0 /\ flight[s][t] = 0  BY DEF Init
<1>4. Unsent /\ RowsOnce  BY <1>3 DEF Unsent, RowsOnce
<1>5. InsertSound /\ StageSound  BY DEF Init, Idle, InsertSound, StageSound
<1>6. CollectedIsOwned  BY DEF Init, CollectedIsOwned
<1> QED  BY <1>2, <1>4, <1>5, <1>6 DEF DrainInvariant

\* A step of the drain that sends nothing and leaves rows, requests and the log alone.
LEMMA QuietStep ==
  ASSUME DrainInvariant, UNCHANGED <<wal, rows, flight>>,
         witness \subseteq witness', witness' \subseteq Segments,
         published \subseteq published', published' \subseteq Segments,
         covered \subseteq covered', covered' \subseteq Segments,
         faults' \in 0 .. MaxFaults, drain' \in Drain, InsertSound', StageSound'
  PROVE  DrainInvariant'
<1>1. TypeOK'  BY DEF DrainInvariant, TypeOK, Drain
<1>2. Unsent' /\ RowsOnce'  BY DEF DrainInvariant, Unsent, RowsOnce, Holds
<1>3. \A s \in Segments : Exact(s) => Exact(s)'  BY DEF Exact, Holds
<1>4. CollectedIsOwned'  BY <1>3, OwnedKept DEF DrainInvariant
<1> QED  BY <1>1, <1>2, <1>4 DEF DrainInvariant

-----------------------------------------------------------------------------
(* Each action keeps the invariant *)

\* The drain ends, by itself or by a fault.
LEMMA EndsSound ==
  ASSUME DrainInvariant, Ends, UNCHANGED <<wal, rows, flight>>,
         witness \subseteq witness', witness' \subseteq Segments,
         published \subseteq published', published' \subseteq Segments,
         covered \subseteq covered', covered' \subseteq Segments, faults' \in 0 .. MaxFaults
  PROVE  DrainInvariant'
BY IdleSound, QuietStep DEF Ends

LEMMA FaultTyped == TypeOK /\ Fault => faults' \in 0 .. MaxFaults
BY DrainAssumption DEF TypeOK, Fault

LEMMA StartSound ==
  ASSUME DrainInvariant, NEW ids \in SUBSET Segments, Start(ids)
  PROVE  DrainInvariant'
<1>1. drain' = [stage |-> "load", ids |-> ids, left |-> ids, absent |-> {}, cur |-> <<>>]
  BY DEF Start, Idle
<1>2. ids \subseteq Bars \/ ids \cap Bars = {}
  <2>1. CASE Cardinality(ids) = 1
    <3>1. IsFiniteSet(ids)  BY DrainAssumption, FS_Subset
    <3>2. PICK x : ids = {x}  BY <2>1, <3>1, FS_Singleton
    <3> QED  BY <3>2
  <2> QED  BY <2>1 DEF Start
<1>3. drain' \in Drain  BY <1>1 DEF Drain, Stages
<1>4. InsertSound'  BY <1>1 DEF InsertSound
<1>5. StageSound'  BY <1>1, <1>2 DEF StageSound
<1> QED  BY <1>3, <1>4, <1>5, QuietStep DEF Start, DrainInvariant, TypeOK

LEMMA LoadSound ==
  ASSUME DrainInvariant, NEW s \in Segments, Load(s)
  PROVE  DrainInvariant'
<1>1. drain \in Drain /\ drain.stage = "load" /\ drain.cur = <<>> /\ StageSound
  BY DEF DrainInvariant, TypeOK, Drain, Load, InsertSound
<1>2. UNCHANGED <<wal, witness, published, covered, rows, flight, faults>>  BY DEF Load
<1>3. PICK absent \in SUBSET Segments :
        \/ Ends
        \/ drain' = [drain EXCEPT !.absent = absent, !.stage = "submit", !.left = drain.ids]
        \/ drain' = [drain EXCEPT !.absent = absent, !.left = drain.left \ {s}]
  <2>1. drain.absent \union (IF Absent(s) THEN {s} ELSE {}) \in SUBSET Segments  BY <1>1 DEF Drain
  <2> QED  BY <2>1 DEF Load
<1>4. CASE Ends  BY <1>2, <1>4, EndsSound DEF DrainInvariant, TypeOK
<1>5. CASE drain' = [drain EXCEPT !.absent = absent, !.stage = "submit", !.left = drain.ids]
  <2>1. drain' \in Drain /\ drain'.stage = "submit"  BY <1>1, <1>5 DEF Drain, Stages
  <2>2. drain'.cur = <<>> /\ drain'.ids = drain.ids /\ drain'.left = drain.ids  BY <1>1, <1>5 DEF Drain
  <2>3. InsertSound' /\ StageSound'  BY <2>1, <2>2, <1>1 DEF InsertSound, StageSound
  <2> QED  BY <2>1, <2>3, <1>2, QuietStep DEF DrainInvariant, TypeOK
<1>6. CASE drain' = [drain EXCEPT !.absent = absent, !.left = drain.left \ {s}]
  <2>1. drain' \in Drain /\ drain'.stage = "load"  BY <1>1, <1>6 DEF Drain, Stages
  <2>2. drain'.cur = <<>> /\ drain'.ids = drain.ids /\ drain'.left = drain.left \ {s}
    BY <1>1, <1>6 DEF Drain
  <2>3. InsertSound' /\ StageSound'  BY <2>1, <2>2, <1>1 DEF InsertSound, StageSound
  <2> QED  BY <2>1, <2>3, <1>2, QuietStep DEF DrainInvariant, TypeOK
<1> QED  BY <1>3, <1>4, <1>5, <1>6

\* A stage that does not insert goes on: what Goes makes of the drain.
LEMMA GoesTyped ==
  ASSUME drain \in Drain, NEW stage \in Stages, NEW left \in SUBSET Segments, Goes(stage, left)
  PROVE  /\ drain' \in Drain /\ drain'.stage = stage /\ drain'.left = left
         /\ drain'.ids = drain.ids /\ drain'.cur = drain.cur
BY DEF Goes, Drain

LEMMA SubmitNothingSound ==
  ASSUME DrainInvariant, NEW s \in Segments, SubmitNothing(s)
  PROVE  DrainInvariant'
<1>1. drain \in Drain /\ drain.stage = "submit" /\ drain.cur = <<>> /\ StageSound
  BY DEF DrainInvariant, TypeOK, Drain, SubmitNothing, InsertSound
<1>2. "verify" \in Stages /\ "submit" \in Stages /\ drain.ids \in SUBSET Segments
      /\ drain.left \ {s} \in SUBSET Segments
  BY <1>1 DEF Stages, Drain
<1>3. Goes("verify", drain.ids) \/ Goes("submit", drain.left \ {s})
  BY <1>1 DEF SubmitNothing, Passes
<1>4. /\ drain' \in Drain /\ drain'.ids = drain.ids /\ drain'.cur = <<>>
      /\ \/ drain'.stage = "verify" /\ drain'.left = drain.ids
         \/ drain'.stage = "submit" /\ drain'.left = drain.left \ {s}
  BY <1>1, <1>2, <1>3, GoesTyped
<1>5. InsertSound' /\ StageSound'  BY <1>1, <1>4 DEF InsertSound, StageSound
<1> QED  BY <1>4, <1>5, QuietStep DEF SubmitNothing, DrainInvariant, TypeOK

LEMMA VerifySound ==
  ASSUME DrainInvariant, NEW s \in Segments, Verify(s)
  PROVE  DrainInvariant'
<1>1. drain \in Drain /\ drain.stage = "verify" /\ drain.cur = <<>> /\ StageSound /\ s \in drain.left
  BY DEF DrainInvariant, TypeOK, Drain, Verify, InsertSound
<1>2. UNCHANGED <<wal, witness, published, covered, rows, flight, faults>>  BY DEF Verify
<1>3. CASE Ends  BY <1>2, <1>3, EndsSound DEF DrainInvariant, TypeOK
<1>4. CASE Exact(s) /\ Passes(s, "publish", {})
  <2>1. "verify" \in Stages /\ "publish" \in Stages /\ {} \in SUBSET Segments
        /\ drain.left \ {s} \in SUBSET Segments
    BY <1>1 DEF Stages, Drain
  <2>2. /\ drain' \in Drain /\ drain'.ids = drain.ids /\ drain'.cur = <<>>
        /\ \/ drain.left = {s} /\ drain'.stage = "publish" /\ drain'.left = {}
           \/ drain'.stage = "verify" /\ drain'.left = drain.left \ {s}
    BY <2>1, <1>1, <1>4, GoesTyped DEF Passes
  <2>3. \A x \in drain.ids \ (drain.left \ {s}) : Exact(x)
    <3>1. \A x \in drain.ids \ drain.left : Exact(x)  BY <1>1 DEF StageSound
    <3> QED  BY <3>1, <1>4
  <2>4. \A x \in drain.ids \ (drain.left \ {s}) : Exact(x)'  BY <2>3, <1>2 DEF Exact
  <2>5. InsertSound'  BY <2>2 DEF InsertSound
  <2>6. StageSound'
    <3>1. drain.left \subseteq drain.ids /\ (drain.ids \subseteq Bars \/ drain.ids \cap Bars = {})
      BY <1>1 DEF StageSound
    <3>2. CASE drain.left = {s} /\ drain'.stage = "publish" /\ drain'.left = {}
      <4>1. \A x \in drain.ids : Exact(x)'  BY <2>4, <3>2
      <4> QED  BY <4>1, <3>1, <3>2, <2>2 DEF StageSound
    <3>3. CASE drain'.stage = "verify" /\ drain'.left = drain.left \ {s}
      BY <2>4, <3>1, <3>3, <2>2 DEF StageSound
    <3> QED  BY <2>2, <3>2, <3>3
  <2> QED  BY <2>2, <2>5, <2>6, <1>2, QuietStep DEF DrainInvariant, TypeOK
<1> QED  BY <1>3, <1>4 DEF Verify

LEMMA PublishSound ==
  ASSUME DrainInvariant, Publish
  PROVE  DrainInvariant'
<1>1. /\ drain \in Drain /\ drain.stage = "publish" /\ drain.cur = <<>> /\ StageSound
      /\ published \subseteq Segments /\ drain.ids \subseteq Segments
  BY DEF DrainInvariant, TypeOK, Drain, Publish, InsertSound
<1>2. UNCHANGED <<wal, witness, covered, rows, flight, faults>> /\ published' = published \union drain.ids
  BY DEF Publish
<1>3. AfterPublish \in Stages /\ AfterPublish \in {"cover", "collect"}  BY DEF AfterPublish, Stages
<1>4. /\ drain' \in Drain /\ drain'.stage = AfterPublish /\ drain'.left = drain.ids
      /\ drain'.ids = drain.ids /\ drain'.cur = <<>>
  <2>1. Goes(AfterPublish, drain.ids)  BY DEF Publish
  <2> QED  BY <2>1, <1>1, <1>3, GoesTyped
<1>5. InsertSound'  BY <1>3, <1>4 DEF InsertSound
<1>6. StageSound'
  <2>1. \A s \in drain.ids : Exact(s)'  BY <1>1, <1>2 DEF StageSound, Exact
  <2>2. AfterPublish = "collect" => drain.ids \cap Bars = {}  BY <1>1 DEF AfterPublish, StageSound
  <2> QED  BY <2>1, <2>2, <1>1, <1>2, <1>3, <1>4 DEF StageSound
<1> QED  BY <1>1, <1>2, <1>4, <1>5, <1>6, QuietStep DEF DrainInvariant, TypeOK

LEMMA CoverSound ==
  ASSUME DrainInvariant, Cover
  PROVE  DrainInvariant'
<1>1. /\ drain \in Drain /\ drain.stage = "cover" /\ drain.cur = <<>> /\ StageSound
      /\ covered \subseteq Segments /\ drain.ids \subseteq Segments
  BY DEF DrainInvariant, TypeOK, Drain, Cover, InsertSound
<1>2. UNCHANGED <<wal, witness, published, rows, flight, faults>> /\ covered' = covered \union drain.ids
  BY DEF Cover
<1>3. /\ drain' \in Drain /\ drain'.stage = "collect" /\ drain'.left = drain.ids
      /\ drain'.ids = drain.ids /\ drain'.cur = <<>>
  <2>1. Goes("collect", drain.ids) /\ "collect" \in Stages  BY DEF Cover, Stages
  <2> QED  BY <2>1, <1>1, GoesTyped
<1>4. InsertSound'  BY <1>3 DEF InsertSound
<1>5. StageSound'
  <2>1. \A s \in drain.ids : Exact(s)'  BY <1>1, <1>2 DEF StageSound, Exact
  <2> QED  BY <2>1, <1>1, <1>2, <1>3 DEF StageSound
<1> QED  BY <1>1, <1>2, <1>3, <1>4, <1>5, QuietStep DEF DrainInvariant, TypeOK

\* The drain ends with or without what its last call did.
LEMMA LostSound ==
  ASSUME DrainInvariant
  PROVE  /\ \A s \in Segments : SubmitUnknown(s) => DrainInvariant'
         /\ \A s \in Segments : SubmitLost(s) => DrainInvariant'
         /\ PublishLost => DrainInvariant'
         /\ CoverLost => DrainInvariant'
         /\ Stop => DrainInvariant'
<1>1. /\ witness \subseteq Segments /\ published \subseteq Segments /\ covered \subseteq Segments
      /\ drain.ids \subseteq Segments /\ faults \in 0 .. MaxFaults /\ TypeOK
  BY DEF DrainInvariant, TypeOK
<1>2. ASSUME NEW s \in Segments, SubmitUnknown(s) PROVE DrainInvariant'
  BY <1>1, <1>2, EndsSound DEF SubmitUnknown
<1>3. ASSUME NEW s \in Segments, SubmitLost(s) PROVE DrainInvariant'
  BY <1>1, <1>3, EndsSound, FaultTyped DEF SubmitLost
<1>4. ASSUME PublishLost PROVE DrainInvariant'  BY <1>1, <1>4, EndsSound, FaultTyped DEF PublishLost
<1>5. ASSUME CoverLost PROVE DrainInvariant'  BY <1>1, <1>5, EndsSound, FaultTyped DEF CoverLost
<1>6. ASSUME Stop PROVE DrainInvariant'  BY <1>1, <1>6, EndsSound, FaultTyped DEF Stop
<1> QED  BY <1>2, <1>3, <1>4, <1>5, <1>6

\* The log of one segment moves on.
LEMMA LogMoves ==
  ASSUME DrainInvariant, NEW s \in Segments, NEW to \in {"marked", "gone"},
         s \in published, Exact(s), s \in Bars => s \in covered,
         wal' = [wal EXCEPT ![s] = to],
         UNCHANGED <<witness, published, covered, rows, flight, faults>>,
         drain' \in Drain, InsertSound', StageSound'
  PROVE  DrainInvariant'
<1>1. TypeOK'  BY DEF DrainInvariant, TypeOK, Drain
<1>2. Unsent' /\ RowsOnce'  BY DEF DrainInvariant, Unsent, RowsOnce, Holds
<1>3. \A x \in Segments : Exact(x) => Exact(x)'  BY DEF Exact, Holds
<1>4. CollectedIsOwned'
  <2> SUFFICES ASSUME NEW x \in Segments, wal'[x] # "sealed"
               PROVE  x \in published /\ Exact(x) /\ (x \in Bars => x \in covered)
    BY <1>3 DEF CollectedIsOwned
  <2>1. CASE x = s  BY <2>1
  <2>2. CASE x # s
    <3>1. wal[x] # "sealed"  BY <2>2 DEF DrainInvariant, TypeOK
    <3> QED  BY <3>1 DEF DrainInvariant, CollectedIsOwned
  <2> QED  BY <2>1, <2>2
<1> QED  BY <1>1, <1>2, <1>4 DEF DrainInvariant

LEMMA CollectionSound ==
  ASSUME DrainInvariant, NEW s \in Segments, Mark(s) \/ Collect(s) \/ Resume(s)
  PROVE  DrainInvariant'
<1>1. drain \in Drain /\ InsertSound /\ StageSound  BY DEF DrainInvariant, TypeOK, Drain
<1>2. drain.stage = "collect" /\ s \in drain.left =>
        s \in published /\ Exact(s) /\ (s \in Bars => s \in covered)
  BY <1>1 DEF StageSound
<1>3. ASSUME UNCHANGED <<witness, published, covered, rows, flight, drain>>
      PROVE  drain' \in Drain /\ InsertSound' /\ StageSound'
  <2>1. \A x \in Segments : Exact(x) => Exact(x)'  BY <1>3 DEF Exact, Holds
  <2>2. drain.ids \subseteq Segments  BY <1>1 DEF Drain
  <2>3. StageSound'  BY <2>1, <2>2, <1>1, <1>3, StageKept
  <2>4. InsertSound'  BY <1>1, <1>3 DEF InsertSound, Holds
  <2> QED  BY <2>3, <2>4, <1>1, <1>3
<1>4. CASE Mark(s)
  <2>1. wal' = [wal EXCEPT ![s] = "marked"] /\ UNCHANGED <<witness, published, covered, rows, flight, drain, faults>>
    BY <1>4 DEF Mark
  <2>2. s \in published /\ Exact(s) /\ (s \in Bars => s \in covered)  BY <1>2, <1>4 DEF Mark
  <2> QED  BY <2>1, <2>2, <1>3, LogMoves
<1>5. CASE Resume(s)
  <2>1. wal' = [wal EXCEPT ![s] = "gone"] /\ UNCHANGED <<witness, published, covered, rows, flight, drain, faults>>
    BY <1>5 DEF Resume
  <2>2. s \in published /\ Exact(s) /\ (s \in Bars => s \in covered)  BY <1>5 DEF Resume
  <2> QED  BY <2>1, <2>2, <1>3, LogMoves
<1>6. CASE Collect(s)
  <2>1. wal' = [wal EXCEPT ![s] = "gone"] /\ UNCHANGED <<witness, published, covered, rows, flight, faults>>
    BY <1>6 DEF Collect
  <2>2. s \in published /\ Exact(s) /\ (s \in Bars => s \in covered)  BY <1>2, <1>6 DEF Collect
  <2>3. drain' \in Drain /\ InsertSound' /\ StageSound'
    <3>1. CASE Ends  BY <3>1, IdleSound DEF Ends
    <3>2. CASE Goes("collect", drain.left \ {s})
      <4>1. "collect" \in Stages /\ drain.left \ {s} \in SUBSET Segments  BY <1>1 DEF Stages, Drain
      <4>2. /\ drain' \in Drain /\ drain'.stage = "collect" /\ drain'.left = drain.left \ {s}
            /\ drain'.ids = drain.ids /\ drain'.cur = drain.cur
        BY <4>1, <3>2, <1>1, GoesTyped
      <4>3. drain.cur = <<>> /\ drain.stage = "collect"  BY <1>1, <1>6 DEF Collect, InsertSound
      <4>4. \A x \in drain.ids : Exact(x)'  BY <2>1, <4>3, <1>1 DEF StageSound, Exact
      <4>5. InsertSound' /\ StageSound'  BY <2>1, <4>2, <4>3, <4>4, <1>1 DEF InsertSound, StageSound
      <4> QED  BY <4>2, <4>5
    <3> QED  BY <3>1, <3>2, <1>6 DEF Collect
  <2> QED  BY <2>1, <2>2, <2>3, LogMoves
<1> QED  BY <1>4, <1>5, <1>6

\* The witness is new: the one dispatch it grants is the first.
LEMMA SubmitSound ==
  ASSUME DrainInvariant, NEW s \in Segments, Submit(s)
  PROVE  DrainInvariant'
<1>1. /\ TypeOK /\ Unsent /\ RowsOnce /\ StageSound /\ CollectedIsOwned /\ drain \in Drain
      /\ witness \subseteq Segments /\ flight \in Counts /\ rows \in Counts
  BY DEF DrainInvariant, TypeOK, Drain, Counts
<1>2. /\ s \notin witness /\ witness' = witness \union {s}
      /\ flight' = [flight EXCEPT ![s][Raw] = flight[s][Raw] + 1]
      /\ drain' = [drain EXCEPT !.stage = "insert", !.cur = <<s, Raw>>] /\ drain.stage = "submit"
      /\ UNCHANGED <<wal, published, covered, rows, faults>>
  BY DEF Submit, MaySend
<1>3. Raw \in Tables /\ Fact \in Tables /\ Raw # Fact  BY DrainAssumption DEF Tables
<1>4. \A t \in Tables : rows[s][t] = 0 /\ flight[s][t] = 0  BY <1>1, <1>2 DEF Unsent
<1>5. /\ flight' \in Counts
      /\ \A x \in Segments, t \in Tables : flight'[x][t] = IF x = s /\ t = Raw THEN 1 ELSE flight[x][t]
  BY <1>1, <1>2, <1>3, <1>4 DEF Counts
<1>6. drain' \in Drain /\ drain'.stage = "insert" /\ drain'.cur = <<s, Raw>> /\ drain'.ids = drain.ids
      /\ drain'.left = drain.left
  <2>1. <<s, Raw>> \in Segments \X Tables  BY <1>3
  <2> QED  BY <2>1, <1>1, <1>2 DEF Drain, Stages
<1>7. TypeOK'  BY <1>1, <1>2, <1>5, <1>6 DEF TypeOK, Counts, Drain
<1>8. Unsent'  BY <1>1, <1>2, <1>5 DEF Unsent
<1>9. RowsOnce'
  <2> SUFFICES ASSUME NEW x \in Segments, NEW t \in Tables
               PROVE  rows[x][t] + flight'[x][t] <= IF Holds(x, t) THEN 1 ELSE 0
    BY <1>2 DEF RowsOnce, Holds
  <2>1. CASE x = s /\ t = Raw  BY <2>1, <1>4, <1>5 DEF Holds
  <2>2. CASE ~(x = s /\ t = Raw)  BY <2>2, <1>1, <1>5 DEF RowsOnce
  <2> QED  BY <2>1, <2>2
<1>10. InsertSound'  BY <1>2, <1>3, <1>4, <1>5, <1>6 DEF InsertSound, Holds
<1>11. StageSound'  BY <1>1, <1>6 DEF StageSound
<1>12. CollectedIsOwned'
  <2>1. \A x \in Segments : Exact(x) => Exact(x)'  BY <1>2 DEF Exact, Holds
  <2> QED  BY <2>1, <1>1, <1>2, OwnedKept
<1> QED  BY <1>7, <1>8, <1>9, <1>10, <1>11, <1>12 DEF DrainInvariant

\* The server applies or forgets a request that nobody waits for.
LEMMA LateSound ==
  ASSUME DrainInvariant, NEW s \in Segments, NEW t \in Tables, AppliedLate(s, t) \/ NeverApplied(s, t)
  PROVE  DrainInvariant'
<1>1. /\ TypeOK /\ Unsent /\ RowsOnce /\ StageSound /\ CollectedIsOwned /\ InsertSound /\ drain \in Drain
      /\ flight \in Counts /\ rows \in Counts
  BY DEF DrainInvariant, TypeOK, Drain, Counts
<1>2. /\ flight[s][t] > 0 /\ flight' = [flight EXCEPT ![s][t] = flight[s][t] - 1]
      /\ rows' = rows \/ rows' = [rows EXCEPT ![s][t] = rows[s][t] + 1]
      /\ UNCHANGED <<wal, witness, published, covered, drain, faults>>
  BY DEF AppliedLate, NeverApplied
<1>3. rows[s][t] \in Nat /\ flight[s][t] \in Nat  BY <1>1, CountsTyped
<1>4. flight[s][t] - 1 \in Nat  BY <1>2, <1>3
<1>5. /\ flight' \in Counts /\ rows' \in Counts
      /\ \A x \in Segments, u \in Tables : ~(x = s /\ u = t) =>
           flight'[x][u] = flight[x][u] /\ rows'[x][u] = rows[x][u]
      /\ flight'[s][t] = flight[s][t] - 1 /\ rows'[s][t] \in {rows[s][t], rows[s][t] + 1}
  BY <1>1, <1>2, <1>3, <1>4 DEF Counts
<1>6. TypeOK'  BY <1>1, <1>2, <1>5 DEF TypeOK, Counts
<1>7. s \in witness  BY <1>1, <1>2 DEF Unsent
<1>8. Unsent'  BY <1>1, <1>2, <1>5, <1>7 DEF Unsent
<1>9. RowsOnce'
  <2> SUFFICES ASSUME NEW x \in Segments, NEW u \in Tables
               PROVE  rows'[x][u] + flight'[x][u] <= Limit(x, u)
    BY DEF RowsOnce, Holds, Limit
  <2>1. rows[x][u] + flight[x][u] <= Limit(x, u) /\ Limit(x, u) \in Nat  BY <1>1 DEF RowsOnce, Limit
  <2>2. CASE x = s /\ u = t
    <3>1. rows'[s][t] + flight'[s][t] <= rows[s][t] + flight[s][t]  BY <1>3, <1>5
    <3>2. rows'[s][t] \in Nat /\ flight'[s][t] \in Nat  BY <1>3, <1>4, <1>5
    <3> QED  BY <2>1, <2>2, <3>1, <3>2, <1>3
  <2>3. CASE ~(x = s /\ u = t)  BY <2>1, <2>3, <1>5
  <2> QED  BY <2>2, <2>3
<1>10. \A x \in Segments : Exact(x) => Exact(x)'
  <2>1. \A x \in Segments, u \in Tables : rows'[x][u] = rows[x][u] \/ flight[x][u] > 0  BY <1>2, <1>5
  <2> QED  BY <2>1, <1>1, ExactKept
<1>11. InsertSound'
  <2>1. CASE drain.stage # "insert"  BY <2>1, <1>1, <1>2 DEF InsertSound
  <2>2. CASE drain.stage = "insert"
    <3>1. PICK x \in Segments, u \in Tables :
             /\ drain.cur = <<x, u>> /\ x \in witness /\ Holds(x, u)
             /\ u = Raw => rows[x][Fact] = 0 /\ flight[x][Fact] = 0
      BY <2>2, <1>1 DEF InsertSound
    <3>2. ASSUME u = Raw PROVE rows'[x][Fact] = 0 /\ flight'[x][Fact] = 0
      <4>1. Fact \in Tables  BY DEF Tables
      <4>2. flight[x][Fact] = 0 /\ rows[x][Fact] = 0  BY <3>1, <3>2
      <4>3. ~(x = s /\ Fact = t)  BY <4>2, <1>2
      <4> QED  BY <4>1, <4>2, <4>3, <1>5
    <3> QED  BY <3>1, <3>2, <2>2, <1>2 DEF InsertSound, Holds
  <2> QED  BY <2>1, <2>2
<1>12. StageSound'
  <2>1. drain.ids \subseteq Segments  BY <1>1 DEF Drain
  <2> QED  BY <2>1, <1>1, <1>2, <1>10, StageKept
<1>13. CollectedIsOwned'  BY <1>1, <1>2, <1>10, OwnedKept
<1> QED  BY <1>6, <1>8, <1>9, <1>11, <1>12, <1>13 DEF DrainInvariant

\* The awaited insert is applied; after the raw rows those of the facts go out.
LEMMA InsertedSound ==
  ASSUME DrainInvariant, NEW s \in Segments, NEW t \in Tables, Inserted(s, t)
  PROVE  DrainInvariant'
<1>1. /\ TypeOK /\ Unsent /\ RowsOnce /\ StageSound /\ CollectedIsOwned /\ InsertSound /\ drain \in Drain
      /\ flight \in Counts /\ rows \in Counts
  BY DEF DrainInvariant, TypeOK, Drain, Counts
<1>2. /\ drain.stage = "insert" /\ drain.cur = <<s, t>> /\ flight[s][t] > 0
      /\ rows' = [rows EXCEPT ![s][t] = rows[s][t] + 1]
      /\ UNCHANGED <<wal, witness, published, covered, faults>>
  BY DEF Inserted
<1>3. s \in witness /\ Holds(s, t) /\ (t = Raw => rows[s][Fact] = 0 /\ flight[s][Fact] = 0)
  BY <1>1, <1>2 DEF InsertSound
<1>4. Raw \in Tables /\ Fact \in Tables /\ Raw # Fact  BY DrainAssumption DEF Tables
<1>5. rows[s][t] \in Nat /\ flight[s][t] \in Nat  BY <1>1, CountsTyped
<1>6. rows[s][t] = 0 /\ flight[s][t] = 1
  <2>1. rows[s][t] + flight[s][t] <= 1  BY <1>1, <1>3 DEF RowsOnce
  <2> QED  BY <2>1, <1>2, <1>5
<1>7. /\ rows' \in Counts
      /\ \A x \in Segments, u \in Tables : rows'[x][u] = IF x = s /\ u = t THEN 1 ELSE rows[x][u]
  BY <1>1, <1>2, <1>6 DEF Counts
<1>8. \A x \in Segments : Exact(x) => Exact(x)'
  <2>1. \A x \in Segments, u \in Tables : rows'[x][u] = rows[x][u] \/ flight[x][u] > 0  BY <1>2, <1>7
  <2> QED  BY <2>1, <1>1, ExactKept
<1>9. CollectedIsOwned'  BY <1>1, <1>2, <1>8, OwnedKept
<1>10. CASE t = Raw /\ Holds(s, Fact)
  <2>1. /\ flight' = [flight EXCEPT ![s][Raw] = flight[s][Raw] - 1, ![s][Fact] = flight[s][Fact] + 1]
        /\ drain' = [drain EXCEPT !.cur = <<s, Fact>>]
    BY <1>4, <1>10 DEF Inserted
  <2>2. rows[s][Raw] = 0 /\ flight[s][Raw] = 1 /\ rows[s][Fact] = 0 /\ flight[s][Fact] = 0
    BY <1>3, <1>6, <1>10
  <2>3. /\ flight' \in Counts
        /\ \A x \in Segments, u \in Tables : flight'[x][u] = IF x # s THEN flight[x][u]
                                                             ELSE IF u = Raw THEN 0 ELSE 1
    <3>1. \A u \in Tables : u = Raw \/ u = Fact  BY DEF Tables
    <3> QED  BY <2>1, <2>2, <3>1, <1>1, <1>4 DEF Counts
  <2>4. /\ drain' \in Drain /\ drain'.stage = "insert" /\ drain'.cur = <<s, Fact>>
        /\ drain'.ids = drain.ids /\ drain'.left = drain.left
    <3>1. <<s, Fact>> \in Segments \X Tables  BY <1>4
    <3> QED  BY <2>1, <3>1, <1>1, <1>2 DEF Drain
  <2>5. TypeOK'  BY <1>1, <1>2, <1>7, <2>3, <2>4 DEF TypeOK, Counts, Drain
  <2>6. Unsent'  BY <1>1, <1>2, <1>3, <1>7, <2>3 DEF Unsent
  <2>7. RowsOnce'
    <3> SUFFICES ASSUME NEW x \in Segments, NEW u \in Tables
                 PROVE  rows'[x][u] + flight'[x][u] <= Limit(x, u)
      BY DEF RowsOnce, Holds, Limit
    <3>1. rows[x][u] + flight[x][u] <= Limit(x, u)  BY <1>1 DEF RowsOnce, Limit
    <3>2. CASE x # s  BY <3>1, <3>2, <1>7, <2>3
    <3>3. CASE x = s /\ u = Raw
      <4>1. rows'[x][u] = 1 /\ flight'[x][u] = 0  BY <3>3, <1>7, <1>10, <2>3
      <4> QED  BY <4>1, <3>3 DEF Limit, Holds
    <3>4. CASE x = s /\ u = Fact
      <4>1. rows'[x][u] = 0 /\ flight'[x][u] = 1  BY <3>4, <1>4, <1>7, <1>10, <2>2, <2>3
      <4> QED  BY <4>1, <3>4, <1>10 DEF Limit
    <3> QED  BY <3>2, <3>3, <3>4 DEF Tables
  <2>8. InsertSound'  BY <1>2, <1>3, <1>4, <1>10, <2>4 DEF InsertSound, Holds
  <2>9. StageSound'  BY <1>1, <1>2, <2>4 DEF StageSound
  <2> QED  BY <1>9, <2>5, <2>6, <2>7, <2>8, <2>9 DEF DrainInvariant
<1>11. CASE ~(t = Raw /\ Holds(s, Fact))
  <2>1. /\ flight' = [flight EXCEPT ![s][t] = flight[s][t] - 1]
        /\ drain' = [drain EXCEPT
                    !.cur = <<>>,
                    !.stage = IF drain.left = {s} THEN "verify" ELSE "submit",
                    !.left = IF drain.left = {s} THEN drain.ids ELSE drain.left \ {s}]
    BY <1>11 DEF Inserted
  <2>2. /\ flight' \in Counts
        /\ \A x \in Segments, u \in Tables : flight'[x][u] = IF x = s /\ u = t THEN 0 ELSE flight[x][u]
    BY <2>1, <1>1, <1>6 DEF Counts
  <2>3. /\ drain' \in Drain /\ drain'.cur = <<>> /\ drain'.ids = drain.ids
        /\ \/ drain'.stage = "verify" /\ drain'.left = drain.ids
           \/ drain'.stage = "submit" /\ drain'.left = drain.left \ {s}
    BY <2>1, <1>1 DEF Drain, Stages
  <2>4. TypeOK'  BY <1>1, <1>2, <1>7, <2>2, <2>3 DEF TypeOK, Counts, Drain
  <2>5. Unsent'  BY <1>1, <1>2, <1>3, <1>7, <2>2 DEF Unsent
  <2>6. RowsOnce'
    <3> SUFFICES ASSUME NEW x \in Segments, NEW u \in Tables
                 PROVE  rows'[x][u] + flight'[x][u] <= Limit(x, u)
      BY DEF RowsOnce, Holds, Limit
    <3>1. rows[x][u] + flight[x][u] <= Limit(x, u)  BY <1>1 DEF RowsOnce, Limit
    <3>2. CASE ~(x = s /\ u = t)  BY <3>1, <3>2, <1>7, <2>2
    <3>3. CASE x = s /\ u = t
      <4>1. rows'[x][u] = 1 /\ flight'[x][u] = 0  BY <3>3, <1>7, <2>2
      <4> QED  BY <4>1, <3>3, <1>3 DEF Limit
    <3> QED  BY <3>2, <3>3
  <2>7. InsertSound' /\ StageSound'  BY <1>1, <2>3 DEF InsertSound, StageSound
  <2> QED  BY <1>9, <2>4, <2>5, <2>6, <2>7 DEF DrainInvariant
<1> QED  BY <1>10, <1>11

LEMMA StepSound == DrainInvariant /\ [Next]_drainVars => DrainInvariant'
<1> SUFFICES ASSUME DrainInvariant, [Next]_drainVars PROVE DrainInvariant'  OBVIOUS
<1>1. CASE Next
  BY <1>1, StartSound, LoadSound, SubmitNothingSound, SubmitSound, LostSound, VerifySound,
     CollectionSound, InsertedSound, LateSound, PublishSound, CoverSound DEF Next
<1>2. CASE UNCHANGED drainVars
  BY <1>2 DEF drainVars, DrainInvariant, TypeOK, Unsent, RowsOnce, InsertSound, StageSound,
              CollectedIsOwned, Exact, Holds
<1> QED  BY <1>1, <1>2

-----------------------------------------------------------------------------
(* Theorems *)

\* What the stages of the drain know of its segments holds at every step
\* (Storage::drain).
THEOREM DrainSound == Spec => []DrainInvariant
BY InitSound, StepSound, PTL DEF Spec

\* ClickHouse never holds two copies of a row, however often a drain is retried
\* and however late an insert is applied (Storage::drain, catalog.submission).
THEOREM RowsNeverDoubled == Spec => []RowsOnce
<1>1. DrainInvariant => RowsOnce  BY DEF DrainInvariant
<1> QED  BY <1>1, DrainSound, PTL

\* The log gives a segment up only after catalog, coverage and ClickHouse own
\* it, and none of them loses it later (collect_verified, recover_wal_inputs).
THEOREM CollectedStaysOwned == Spec => []CollectedIsOwned
<1>1. DrainInvariant => CollectedIsOwned  BY DEF DrainInvariant
<1> QED  BY <1>1, DrainSound, PTL

-----------------------------------------------------------------------------
(* The log: what is on disk *)

LogNames == {"open.wal", "sealed.wal", "gc.wal", "abandoned.wal"}

LogContent == [of : {"log"}, n : Nat, t : 0 .. 2]

\* What was accepted is synced in the open log, which holds no less than is synced.
OpenSound(x, a) ==
    /\ x \in [data : LogContent, safe : LogContent \union {Wal!Nothing}]
    /\ IF x.safe = Wal!Nothing THEN x.data = Wal!Log(0, 0) /\ a = 0
       ELSE a <= x.safe.n /\ x.safe.n <= x.data.n

\* A sealed log is synced, and holds what was accepted and what the catalog owns.
SealedSound(x, a, o) ==
    /\ x \in [data : LogContent, safe : LogContent]
    /\ x.safe = x.data
    /\ x.data.n > 0 /\ a <= x.data.n /\ o \in {0, x.data.n}

AbandonedSound(x, a, o) ==
    /\ x \in [data : {Wal!Log(0, 0)}, safe : {Wal!Log(0, 0), Wal!Nothing}]
    /\ a = 0 /\ o = 0

BlankLog(x) == x.data = Wal!Log(0, 0) /\ x.safe \in {Wal!Log(0, 0), Wal!Nothing}

\* What the files f say when a observations were accepted and the catalog owns o:
\* there is one log, and while the creation is not complete it is empty.
FilesSound(f, a, o) ==
    /\ \A x, y \in LogNames \intersect DOMAIN f : x = y
    /\ "open.wal" \in DOMAIN f => OpenSound(f["open.wal"], a) /\ o = 0
    /\ "sealed.wal" \in DOMAIN f => SealedSound(f["sealed.wal"], a, o)
    /\ "gc.wal" \in DOMAIN f => SealedSound(f["gc.wal"], a, o) /\ o > 0
    /\ "abandoned.wal" \in DOMAIN f => AbandonedSound(f["abandoned.wal"], a, o)
    /\ LogNames \intersect DOMAIN f = {} => a = 0 \/ o > 0
    /\ "open.json.tmp" \in DOMAIN f =>
          /\ "sealed.wal" \notin DOMAIN f /\ "gc.wal" \notin DOMAIN f /\ o = 0
          /\ "open.wal" \in DOMAIN f => BlankLog(f["open.wal"])

\* The phase and the observations of the segment, as MarketDataWal reads them.
PhaseIn(f, o) ==
    IF "sealed.wal" \in DOMAIN f \/ "gc.wal" \in DOMAIN f THEN "sealed"
    ELSE IF "abandoned.wal" \in DOMAIN f /\ f["abandoned.wal"].safe # Wal!Nothing
    THEN "abandoned"
    ELSE IF o > 0 THEN "collected" ELSE "open"

HeldIn(f) ==
    IF "gc.wal" \in DOMAIN f THEN f["gc.wal"].data.n
    ELSE IF "sealed.wal" \in DOMAIN f THEN f["sealed.wal"].data.n
    ELSE IF "open.wal" \in DOMAIN f THEN f["open.wal"].data.n ELSE 0

Same(f, g, o) == PhaseIn(g, o) = PhaseIn(f, o) /\ HeldIn(g) = HeldIn(f)

Abandons(f, g, a, o) ==
    PhaseIn(f, o) = "open" /\ PhaseIn(g, o) = "abandoned" /\ a = 0 /\ HeldIn(g) = 0

\* What losing unsynced data, or syncing directory entries, does to the segment.
Settles(f, g, a, o) ==
    \/ Same(f, g, o)
    \/ Abandons(f, g, a, o)
    \/ PhaseIn(f, o) = "open" /\ PhaseIn(g, o) = "open" /\ HeldIn(g) \in a .. HeldIn(f)

\* What a file operation, or part of one, does to it.
Moves(f, g, a, o) ==
    \/ Settles(f, g, a, o)
    \/ PhaseIn(f, o) = "open" /\ PhaseIn(g, o) = "open" /\ HeldIn(g) \in a .. HeldIn(f) + 1
    \/ PhaseIn(f, o) = "open" /\ PhaseIn(g, o) = "sealed" /\ HeldIn(f) > 0 /\ HeldIn(g) = HeldIn(f)
    \/ /\ PhaseIn(f, o) = "sealed" /\ PhaseIn(g, o) = "collected" /\ o > 0
       /\ HeldIn(f) = o /\ HeldIn(g) = 0

LEMMA LogsDiffer ==
    /\ Wal!Nothing \notin LogContent
    /\ Wal!Log(0, 0) \in LogContent /\ Wal!Log(0, 0).n = 0
    /\ \A n \in Nat, t \in 0 .. 2 : Wal!Log(n, t) \in LogContent /\ Wal!Log(n, t).n = n
    /\ Wal!Empty(Wal!Log(0, 0)) = Wal!Log(0, 0)
  BY DEF Wal!Nothing, Wal!Log, Wal!Content, LogContent, Wal!Empty

\* With no fault after it, an operation and what follows it is one move.
LEMMA MovesSettle ==
  ASSUME NEW f, NEW g, NEW h, NEW a \in Nat, NEW o \in Nat,
         HeldIn(f) \in Nat, HeldIn(g) \in Nat, HeldIn(h) \in Nat,
         Moves(f, g, a, o), Settles(g, h, a, o)
  PROVE  Moves(f, h, a, o)
  BY DEF Moves, Settles, Same, Abandons

\* Two moves of a segment that the catalog owns are one.
LEMMA MovesTwice ==
  ASSUME NEW f, NEW g, NEW h, NEW a \in Nat, NEW o \in Nat, o > 0,
         PhaseIn(f, o) # "open", PhaseIn(g, o) # "open",
         Moves(f, g, a, o), Moves(g, h, a, o)
  PROVE  Moves(f, h, a, o)
  BY DEF Moves, Settles, Same, Abandons

LEMMA HeldTyped ==
  ASSUME NEW f, NEW a \in Nat, NEW o \in Nat, FilesSound(f, a, o)
  PROVE  HeldIn(f) \in Nat /\ (o > 0 => PhaseIn(f, o) # "open")
  <1>1. HeldIn(f) \in Nat
    BY DEF FilesSound, OpenSound, SealedSound, HeldIn, LogContent
  <1>2. o > 0 => PhaseIn(f, o) # "open"
    BY DEF PhaseIn
  <1> QED BY <1>1, <1>2

-----------------------------------------------------------------------------
(* The log: the logs are kept *)

\* The logs are the same, with their directory entries synced perhaps.
LogsKept(f, g) ==
    /\ \A x \in LogNames : x \in DOMAIN f <=> x \in DOMAIN g
    /\ \A x \in LogNames \intersect DOMAIN f :
          \/ g[x] = f[x]
          \/ f[x].safe = Wal!Nothing /\ g[x] = [data |-> f[x].data, safe |-> Wal!Empty(f[x].data)]

TmpKept(f, g) == "open.json.tmp" \in DOMAIN g => "open.json.tmp" \in DOMAIN f

LEMMA KeptSound ==
  ASSUME NEW f, NEW g, NEW a \in Nat, NEW o \in Nat, FilesSound(f, a, o),
         LogsKept(f, g), TmpKept(f, g)
  PROVE  FilesSound(g, a, o) /\ Settles(f, g, a, o)
  <1>0. \A x \in LogNames \intersect DOMAIN f :
           \/ g[x] = f[x]
           \/ f[x].safe = Wal!Nothing /\ g[x] = [data |-> f[x].data, safe |-> Wal!Empty(f[x].data)]
    BY DEF LogsKept
  <1>1. ASSUME "open.wal" \in DOMAIN f
        PROVE  /\ OpenSound(g["open.wal"], a) /\ g["open.wal"].data = f["open.wal"].data
               /\ BlankLog(f["open.wal"]) => BlankLog(g["open.wal"])
    <2> DEFINE x == f["open.wal"]
               y == g["open.wal"]
    <2>1. OpenSound(x, a)
      BY <1>1 DEF FilesSound
    <2>2. y = x \/ (x.safe = Wal!Nothing /\ y = [data |-> x.data, safe |-> Wal!Empty(x.data)])
      BY <1>0, <1>1 DEF LogNames
    <2>3. CASE y = x
      BY <2>1, <2>3
    <2>4. CASE y # x
      <3>1. x.data = Wal!Log(0, 0) /\ a = 0
        BY <2>1, <2>2, <2>4 DEF OpenSound
      <3>2. y = [data |-> Wal!Log(0, 0), safe |-> Wal!Log(0, 0)]
        BY <2>2, <2>4, <3>1, LogsDiffer
      <3> QED BY <3>1, <3>2, LogsDiffer DEF OpenSound, BlankLog
    <2> QED BY <2>3, <2>4
  <1>2. \A x \in {"sealed.wal", "gc.wal"} : x \in DOMAIN f => g[x] = f[x]
    BY LogsDiffer DEF FilesSound, SealedSound, LogsKept, LogNames
  <1>3. ASSUME "abandoned.wal" \in DOMAIN f
        PROVE  /\ AbandonedSound(g["abandoned.wal"], a, o)
               /\ f["abandoned.wal"].safe # Wal!Nothing => g["abandoned.wal"].safe # Wal!Nothing
    <2> DEFINE x == f["abandoned.wal"]
               y == g["abandoned.wal"]
    <2>1. AbandonedSound(x, a, o)
      BY <1>3 DEF FilesSound
    <2>2. y = x \/ (x.safe = Wal!Nothing /\ y = [data |-> x.data, safe |-> Wal!Empty(x.data)])
      BY <1>0, <1>3 DEF LogNames
    <2>3. CASE y = x
      BY <2>1, <2>3
    <2>4. CASE y # x
      <3>1. x.data = Wal!Log(0, 0)
        BY <2>1 DEF AbandonedSound
      <3>2. y = [data |-> Wal!Log(0, 0), safe |-> Wal!Log(0, 0)] /\ x.safe = Wal!Nothing
        BY <2>2, <2>4, <3>1, LogsDiffer
      <3> QED BY <2>1, <3>2 DEF AbandonedSound
    <2> QED BY <2>3, <2>4
  <1>4. \A x \in LogNames : x \in DOMAIN f <=> x \in DOMAIN g
    BY DEF LogsKept
  <1>5. FilesSound(g, a, o)
    BY <1>1, <1>2, <1>3, <1>4 DEF FilesSound, TmpKept, LogNames
  <1>6. HeldIn(g) = HeldIn(f)
    BY <1>1, <1>2, <1>4 DEF HeldIn, LogNames
  <1>7. PhaseIn(g, o) = PhaseIn(f, o) \/ Abandons(f, g, a, o)
    BY <1>3, <1>4, <1>6 DEF PhaseIn, Abandons, LogNames, FilesSound, AbandonedSound, HeldIn
  <1> QED BY <1>5, <1>6, <1>7 DEF Settles, Same

LEMMA SyncKeeps ==
  ASSUME NEW f, NEW a \in Nat, NEW o \in Nat, FilesSound(f, a, o)
  PROVE  LET g == Wal!SyncEntries(f)
         IN LogsKept(f, g) /\ TmpKept(f, g) /\ FilesSound(g, a, o) /\ Settles(f, g, a, o)
  <1> DEFINE g == Wal!SyncEntries(f)
  <1>1. \A x \in LogNames \intersect DOMAIN f : f[x] = [data |-> f[x].data, safe |-> f[x].safe]
    BY DEF FilesSound, OpenSound, SealedSound, AbandonedSound, LogNames
  <1>2. LogsKept(f, g) /\ TmpKept(f, g)
    BY <1>1 DEF LogsKept, TmpKept, Wal!SyncEntries
  <1> QED BY <1>2, KeptSound

-----------------------------------------------------------------------------
(* The log: a power failure *)

\* On the way from one log to a longer one there are only logs between them.
LEMMA BetweenLogs ==
  ASSUME NEW s \in LogContent, NEW d \in LogContent, s.n <= d.n, NEW c \in Wal!Between(s, d)
  PROVE  c \in LogContent /\ s.n <= c.n /\ c.n <= d.n
  <1>1. c \in {s, d} \/ c \in {x \in {Wal!Log(n, t) : n \in 0 .. MaxRecords, t \in 0 .. 2} :
                                Wal!Size(s) <= Wal!Size(x) /\ Wal!Size(x) <= Wal!Size(d)}
    BY DEF Wal!Between, LogContent
  <1>2. CASE c \in {s, d}
    BY <1>2 DEF LogContent
  <1>3. CASE c \notin {s, d}
    <2>1. PICK n \in 0 .. MaxRecords, t \in 0 .. 2 :
             c = Wal!Log(n, t) /\ Wal!Size(s) <= Wal!Size(c) /\ Wal!Size(c) <= Wal!Size(d)
      BY <1>1, <1>3
    <2>2. n \in Nat /\ c \in LogContent /\ c.n = n /\ c.t = t
      BY <2>1, WalAssumption DEF Wal!Log, Wal!Content, LogContent
    <2>3. /\ s.n \in Nat /\ s.t \in 0 .. 2 /\ d.n \in Nat /\ d.t \in 0 .. 2
          /\ 3 * s.n + s.t <= 3 * n + t /\ 3 * n + t <= 3 * d.n + d.t
      BY <2>1, <2>2 DEF Wal!Size, LogContent
    <2>4. s.n <= n /\ n <= d.n
      BY <2>2, <2>3
    <2> QED BY <2>2, <2>4
  <1> QED BY <1>2, <1>3

LEMMA BetweenNothing ==
  ASSUME NEW c \in Wal!Between(Wal!Nothing, Wal!Log(0, 0))
  PROVE  c \in {Wal!Nothing, Wal!Log(0, 0)}
  <1>1. c \in {Wal!Nothing, Wal!Log(0, 0)}
          \/ c \in {x \in {Wal!Log(n, t) : n \in 0 .. MaxRecords, t \in 0 .. 2} :
                       Wal!Size(x) <= Wal!Size(Wal!Log(0, 0))}
    BY DEF Wal!Between, Wal!Log, Wal!Content
  <1>2. CASE c \notin {Wal!Nothing, Wal!Log(0, 0)}
    <2>1. PICK n \in 0 .. MaxRecords, t \in 0 .. 2 :
             c = Wal!Log(n, t) /\ Wal!Size(c) <= Wal!Size(Wal!Log(0, 0))
      BY <1>1, <1>2
    <2>2. n \in Nat /\ 3 * n + t <= 0
      BY <2>1, WalAssumption DEF Wal!Log, Wal!Content, Wal!Size
    <2>3. n = 0 /\ t = 0
      BY <2>2
    <2> QED BY <2>1, <2>3
  <1> QED BY <1>2

\* What a power failure leaves of a file.
LEMMA PowerLeaves ==
  ASSUME NEW f, NEW g \in Wal!PowerLost(f)
  PROVE  /\ DOMAIN g \subseteq DOMAIN f
         /\ \A x \in DOMAIN g :
               \/ g[x] = f[x]
               \/ /\ f[x].data # f[x].safe
                  /\ \E c \in Wal!Between(f[x].safe, f[x].data) :
                        c # Wal!Nothing /\ g[x] = [data |-> c, safe |-> c]
         /\ \A x \in DOMAIN f \ DOMAIN g :
               f[x].data # f[x].safe /\ Wal!Nothing \in Wal!Between(f[x].safe, f[x].data)
  <1>1. PICK left \in [Wal!Dirty(f) -> UNION {Wal!Between(f[x].safe, f[x].data) : x \in Wal!Dirty(f)}] :
           /\ \A x \in Wal!Dirty(f) : left[x] \in Wal!Between(f[x].safe, f[x].data)
           /\ g = Wal!Survives(f, left)
    BY DEF Wal!PowerLost
  <1>2. /\ DOMAIN g = {x \in DOMAIN f : x \notin Wal!Dirty(f) \/ left[x] # Wal!Nothing}
        /\ \A x \in DOMAIN g : g[x] = IF x \in Wal!Dirty(f) THEN Wal!Synced(left[x]) ELSE f[x]
    BY <1>1 DEF Wal!Survives
  <1> QED BY <1>1, <1>2 DEF Wal!Dirty, Wal!Synced

LEMMA PowerSound ==
  ASSUME NEW f, NEW a \in Nat, NEW o \in Nat, FilesSound(f, a, o), NEW g \in Wal!PowerLost(f)
  PROVE  FilesSound(g, a, o) /\ Settles(f, g, a, o)
  <1>1. DOMAIN g \subseteq DOMAIN f
    BY PowerLeaves
  <1>2. \A x \in {"sealed.wal", "gc.wal"} \intersect DOMAIN f : x \in DOMAIN g /\ g[x] = f[x]
    BY PowerLeaves DEF FilesSound, SealedSound
  <1>3. ASSUME "abandoned.wal" \in DOMAIN f
        PROVE  /\ "abandoned.wal" \in DOMAIN g => AbandonedSound(g["abandoned.wal"], a, o)
               /\ f["abandoned.wal"].safe # Wal!Nothing =>
                     "abandoned.wal" \in DOMAIN g /\ g["abandoned.wal"] = f["abandoned.wal"]
    <2> DEFINE x == f["abandoned.wal"]
    <2>1. /\ x \in [data : {Wal!Log(0, 0)}, safe : {Wal!Log(0, 0), Wal!Nothing}]
          /\ a = 0 /\ o = 0
      BY <1>3 DEF FilesSound, AbandonedSound
    <2>2. CASE x.safe = x.data
      <3>1. "abandoned.wal" \in DOMAIN g /\ g["abandoned.wal"] = x
        BY <1>3, <2>2, PowerLeaves
      <3> QED BY <2>1, <3>1 DEF AbandonedSound
    <2>3. CASE x.safe # x.data
      <3>1. x.safe = Wal!Nothing /\ x.data = Wal!Log(0, 0)
        BY <2>1, <2>3
      <3>2. ASSUME "abandoned.wal" \in DOMAIN g, g["abandoned.wal"] # x
            PROVE  g["abandoned.wal"] = [data |-> Wal!Log(0, 0), safe |-> Wal!Log(0, 0)]
        <4>1. PICK c \in Wal!Between(Wal!Nothing, Wal!Log(0, 0)) :
                 c # Wal!Nothing /\ g["abandoned.wal"] = [data |-> c, safe |-> c]
          BY <3>1, <3>2, PowerLeaves
        <4> QED BY <4>1, BetweenNothing
      <3> QED BY <2>1, <3>1, <3>2 DEF AbandonedSound
    <2> QED BY <2>2, <2>3
  <1>4. ASSUME "open.wal" \in DOMAIN f
        PROVE  /\ "open.wal" \in DOMAIN g =>
                     /\ OpenSound(g["open.wal"], a)
                     /\ g["open.wal"].data.n \in a .. f["open.wal"].data.n
                     /\ BlankLog(f["open.wal"]) => BlankLog(g["open.wal"])
               /\ "open.wal" \notin DOMAIN g => a = 0
    <2> DEFINE x == f["open.wal"]
               y == g["open.wal"]
    <2>1. OpenSound(x, a)
      BY <1>4 DEF FilesSound
    <2>2. CASE x.safe = Wal!Nothing
      <3>1. x.data = Wal!Log(0, 0) /\ a = 0
        BY <2>1, <2>2 DEF OpenSound
      <3>2. ASSUME "open.wal" \in DOMAIN g, y # x
            PROVE  y = [data |-> Wal!Log(0, 0), safe |-> Wal!Log(0, 0)]
        <4>1. PICK c \in Wal!Between(Wal!Nothing, Wal!Log(0, 0)) :
                 c # Wal!Nothing /\ y = [data |-> c, safe |-> c]
          BY <2>2, <3>1, <3>2, PowerLeaves
        <4> QED BY <4>1, BetweenNothing
      <3>3. "open.wal" \in DOMAIN g => y.data = Wal!Log(0, 0) /\ OpenSound(y, a) /\ BlankLog(y)
        BY <2>1, <2>2, <3>1, <3>2, LogsDiffer DEF OpenSound, BlankLog
      <3> QED BY <3>1, <3>3, LogsDiffer
    <2>3. CASE x.safe # Wal!Nothing
      <3>1. /\ x \in [data : LogContent, safe : LogContent] /\ a <= x.safe.n /\ x.safe.n <= x.data.n
            /\ x.safe.n \in Nat /\ x.data.n \in Nat
        BY <2>1, <2>3 DEF OpenSound, LogContent
      <3>2. \A c \in Wal!Between(x.safe, x.data) :
               c \in LogContent /\ x.safe.n <= c.n /\ c.n <= x.data.n
        BY <3>1, BetweenLogs
      <3>3. "open.wal" \in DOMAIN g
        BY <1>4, <3>2, LogsDiffer, PowerLeaves
      <3>4. CASE y = x
        BY <2>1, <3>1, <3>3, <3>4
      <3>5. CASE y # x
        <4>1. PICK c \in Wal!Between(x.safe, x.data) : y = [data |-> c, safe |-> c]
          BY <3>3, <3>5, PowerLeaves
        <4>2. c \in LogContent /\ c.n \in Nat /\ x.safe.n <= c.n /\ c.n <= x.data.n
          BY <3>2 DEF LogContent
        <4>3. OpenSound(y, a) /\ y.data.n \in a .. x.data.n
          BY <3>1, <4>1, <4>2, LogsDiffer DEF OpenSound
        <4>4. ~BlankLog(x)
          BY <3>5, <2>3, <3>3, PowerLeaves DEF BlankLog
        <4> QED BY <3>3, <4>3, <4>4
      <3> QED BY <3>4, <3>5
    <2> QED BY <2>2, <2>3
  <1>5. FilesSound(g, a, o)
    <2>1. \A x, y \in LogNames \intersect DOMAIN g : x = y
      BY <1>1 DEF FilesSound
    <2>2. /\ "open.wal" \in DOMAIN g => OpenSound(g["open.wal"], a) /\ o = 0
          /\ "sealed.wal" \in DOMAIN g => SealedSound(g["sealed.wal"], a, o)
          /\ "gc.wal" \in DOMAIN g => SealedSound(g["gc.wal"], a, o) /\ o > 0
          /\ "abandoned.wal" \in DOMAIN g => AbandonedSound(g["abandoned.wal"], a, o)
      BY <1>1, <1>2, <1>3, <1>4 DEF FilesSound
    <2>3. LogNames \intersect DOMAIN g = {} => a = 0 \/ o > 0
      BY <1>1, <1>2, <1>4 DEF FilesSound, LogNames, AbandonedSound
    <2>4. "open.json.tmp" \in DOMAIN g =>
            /\ "sealed.wal" \notin DOMAIN g /\ "gc.wal" \notin DOMAIN g /\ o = 0
            /\ "open.wal" \in DOMAIN g => BlankLog(g["open.wal"])
      BY <1>1, <1>4 DEF FilesSound
    <2> QED BY <2>1, <2>2, <2>3, <2>4 DEF FilesSound
  <1>6. CASE "sealed.wal" \in DOMAIN f \/ "gc.wal" \in DOMAIN f
    <2>1. PhaseIn(f, o) = "sealed" /\ PhaseIn(g, o) = "sealed"
      BY <1>2, <1>6 DEF PhaseIn
    <2>2. HeldIn(g) = HeldIn(f)
      BY <1>1, <1>2, <1>6 DEF HeldIn
    <2> QED BY <1>5, <2>1, <2>2 DEF Settles, Same
  <1>7. CASE "abandoned.wal" \in DOMAIN f
    <2>1. /\ "open.wal" \notin DOMAIN f /\ "sealed.wal" \notin DOMAIN f /\ "gc.wal" \notin DOMAIN f
          /\ a = 0 /\ o = 0
      BY <1>7 DEF FilesSound, LogNames, AbandonedSound
    <2>2. HeldIn(f) = 0 /\ HeldIn(g) = 0
      BY <1>1, <2>1 DEF HeldIn
    <2>3. CASE f["abandoned.wal"].safe # Wal!Nothing
      <3>1. PhaseIn(f, o) = "abandoned" /\ PhaseIn(g, o) = "abandoned"
        BY <1>1, <1>3, <1>7, <2>1, <2>3 DEF PhaseIn
      <3> QED BY <1>5, <2>2, <3>1 DEF Settles, Same
    <2>4. CASE f["abandoned.wal"].safe = Wal!Nothing
      <3>1. PhaseIn(f, o) = "open" /\ PhaseIn(g, o) \in {"open", "abandoned"}
        BY <1>1, <1>7, <2>1, <2>4 DEF PhaseIn
      <3> QED BY <1>5, <2>1, <2>2, <3>1 DEF Settles, Same, Abandons
    <2> QED BY <2>3, <2>4
  <1>8. CASE "open.wal" \in DOMAIN f
    <2>1. /\ "abandoned.wal" \notin DOMAIN f /\ "sealed.wal" \notin DOMAIN f /\ "gc.wal" \notin DOMAIN f
          /\ o = 0 /\ HeldIn(f) \in Nat
      BY <1>8, HeldTyped DEF FilesSound, LogNames
    <2>2. HeldIn(g) \in a .. HeldIn(f)
      <3>1. HeldIn(f) = f["open.wal"].data.n
        BY <1>8, <2>1 DEF HeldIn
      <3>2. CASE "open.wal" \in DOMAIN g
        <4>1. HeldIn(g) = g["open.wal"].data.n
          BY <1>1, <2>1, <3>2 DEF HeldIn
        <4> QED BY <1>4, <1>8, <3>1, <3>2, <4>1
      <3>3. CASE "open.wal" \notin DOMAIN g
        <4>1. HeldIn(g) = 0
          BY <1>1, <2>1, <3>3 DEF HeldIn
        <4> QED BY <1>4, <1>8, <2>1, <3>3, <4>1
      <3> QED BY <3>2, <3>3
    <2>3. PhaseIn(f, o) = "open"
      BY <2>1 DEF PhaseIn
    <2>4. PhaseIn(g, o) = "open"
      BY <1>1, <2>1 DEF PhaseIn
    <2> QED BY <1>5, <2>2, <2>3, <2>4 DEF Settles
  <1>9. CASE LogNames \intersect DOMAIN f = {}
    <2>1. \A x \in LogNames : x \notin DOMAIN f /\ x \notin DOMAIN g
      BY <1>1, <1>9
    <2>2. HeldIn(f) = 0 /\ HeldIn(g) = 0
      BY <2>1 DEF HeldIn, LogNames
    <2>3. PhaseIn(f, o) = PhaseIn(g, o)
      BY <2>1 DEF PhaseIn, LogNames
    <2> QED BY <1>5, <2>2, <2>3 DEF Settles, Same
  <1> QED BY <1>6, <1>7, <1>8, <1>9 DEF LogNames

-----------------------------------------------------------------------------
(* The log: file operations *)

\* Documents: no log, and no creation begins.
Plain(op) ==
    /\ op.do \in {"write", "complete", "rename", "remove"}
    /\ op.at \notin LogNames /\ op.to \notin LogNames
    /\ op.do \in {"write", "complete"} => op.at # "open.json.tmp"
    /\ op.do = "rename" => op.to # "open.json.tmp"

Collecting == {Wal!Rename("sealed.wal", "gc.wal"), Wal!Remove("gc.wal")}

Quiet(op, o) == Plain(op) \/ (op \in Collecting /\ o > 0)

NoLog(f) == LogNames \intersect DOMAIN f = {}

\* The operations on the log that recovery and seal plan, with what they rely on.
Settling(op, f, a, o) ==
    /\ o = 0
    /\ \/ /\ op = Wal!WriteNew("abandoned.wal", Wal!Log(0, 0))
          /\ NoLog(f) /\ a = 0
       \/ /\ op = Wal!Rename("open.wal", "abandoned.wal")
          /\ "open.wal" \in DOMAIN f /\ f["open.wal"].data = Wal!Log(0, 0)
       \/ /\ op = Wal!Rename("open.wal", "sealed.wal")
          /\ "open.wal" \in DOMAIN f /\ f["open.wal"].data.n > 0
       \/ /\ "open.wal" \in DOMAIN f /\ f["open.wal"].data.t > 0
          /\ op = Wal!SetLen(Wal!Log(f["open.wal"].data.n, 0))

Good(f, g, a, o) == FilesSound(g, a, o) /\ Moves(f, g, a, o)

\* The same logs.
Copied(f, g) ==
    /\ \A x \in LogNames : x \in DOMAIN f <=> x \in DOMAIN g
    /\ \A x \in LogNames \intersect DOMAIN f : g[x] = f[x]

\* A rename on disk, before the directory is synced.
Renamed(f, x, y) == Wal!Put(Wal!Drop(f, x), y, Wal!Synced(f[x].data))

\* A step that leaves the logs, followed by the sync of the directory.
LEMMA CopiedKeeps ==
  ASSUME NEW f, NEW g, NEW a \in Nat, NEW o \in Nat, FilesSound(f, a, o),
         Copied(f, g), TmpKept(f, g)
  PROVE  /\ LogsKept(f, g) /\ FilesSound(g, a, o)
         /\ LogsKept(f, Wal!SyncEntries(g)) /\ TmpKept(f, Wal!SyncEntries(g))
  <1>1. LogsKept(f, g)
    BY DEF LogsKept, Copied
  <1>2. FilesSound(g, a, o)
    BY <1>1, KeptSound
  <1>3. LogsKept(g, Wal!SyncEntries(g)) /\ TmpKept(g, Wal!SyncEntries(g))
    BY <1>2, SyncKeeps
  <1>4. LogsKept(f, Wal!SyncEntries(g)) /\ TmpKept(f, Wal!SyncEntries(g))
    BY <1>3 DEF LogsKept, Copied, TmpKept
  <1> QED BY <1>1, <1>2, <1>4

\* A document that comes or goes leaves the logs.
LEMMA DocumentPut ==
  ASSUME NEW f, NEW x, x \notin LogNames, x # "open.json.tmp" \/ x \in DOMAIN f, NEW v
  PROVE  Copied(f, Wal!Put(f, x, v)) /\ TmpKept(f, Wal!Put(f, x, v))
  BY DEF Copied, TmpKept, Wal!Put

LEMMA DocumentDrop ==
  ASSUME NEW f, NEW x, x \notin LogNames
  PROVE  Copied(f, Wal!Drop(f, x)) /\ TmpKept(f, Wal!Drop(f, x))
  BY DEF Copied, TmpKept, Wal!Drop

LEMMA DocumentRenamed ==
  ASSUME NEW f, NEW x, x \notin LogNames, NEW y, y \notin LogNames, y # "open.json.tmp"
  PROVE  Copied(f, Renamed(f, x, y)) /\ TmpKept(f, Renamed(f, x, y))
  BY DEF Renamed, Wal!Put, Wal!Drop, Copied, TmpKept

LEMMA PlainKeeps ==
  ASSUME NEW f, NEW a \in Nat, NEW o \in Nat, FilesSound(f, a, o),
         NEW op, Plain(op), Wal!Possible(f, op)
  PROVE  /\ LogsKept(f, Wal!Result(f, op)) /\ TmpKept(f, Wal!Result(f, op))
         /\ \A g \in Wal!Partial(f, op) : LogsKept(f, g) /\ TmpKept(f, g)
  <1>0. op.at \notin LogNames /\ op.to \notin LogNames
    BY DEF Plain
  <1>1. CASE op.do = "rename"
    <2>1. op.at \in DOMAIN f /\ op.to # "open.json.tmp"
      BY <1>1 DEF Plain, Wal!Possible
    <2>2. Wal!Result(f, op) = Wal!SyncEntries(Renamed(f, op.at, op.to))
      BY <1>1 DEF Wal!Result, Renamed
    <2>3. \A g \in Wal!Partial(f, op) :
             g \in {f, Wal!Result(f, op), Wal!Put(f, op.at, Wal!Synced(f[op.at].data))}
      BY <1>1 DEF Wal!Partial
    <2>4. LogsKept(f, Wal!Result(f, op)) /\ TmpKept(f, Wal!Result(f, op))
      BY <1>0, <2>1, <2>2, DocumentRenamed, CopiedKeeps
    <2>5. LogsKept(f, f) /\ TmpKept(f, f)
      BY DEF LogsKept, TmpKept
    <2> QED BY <1>0, <2>1, <2>3, <2>4, <2>5, DocumentPut, CopiedKeeps
  <1>2. CASE op.do = "remove"
    <2>1. Wal!Result(f, op) = Wal!SyncEntries(Wal!Drop(f, op.at))
      BY <1>2 DEF Wal!Result
    <2>2. \A g \in Wal!Partial(f, op) : g \in {f, Wal!Result(f, op)}
      BY <1>2 DEF Wal!Partial
    <2>3. LogsKept(f, f) /\ TmpKept(f, f)
      BY DEF LogsKept, TmpKept
    <2> QED BY <1>0, <2>1, <2>2, <2>3, DocumentDrop, CopiedKeeps
  <1>3. CASE op.do \in {"write", "complete"}
    <2>1. op.at # "open.json.tmp"
      BY <1>3 DEF Plain
    <2>2. Wal!Result(f, op) = Wal!SyncEntries(Wal!Put(f, op.at, Wal!Synced(op.is)))
      BY <1>3 DEF Wal!Result
    <2>3. ASSUME NEW g \in Wal!Partial(f, op), g # f
          PROVE  \E v : g = Wal!Put(f, op.at, v)
      <3>1. CASE op.do = "write"
        BY <2>3, <3>1 DEF Wal!Partial
      <3>2. CASE op.do = "complete"
        BY <2>3, <3>2 DEF Wal!Partial
      <3> QED BY <1>3, <3>1, <3>2
    <2>4. LogsKept(f, Wal!Result(f, op)) /\ TmpKept(f, Wal!Result(f, op))
      <3>1. /\ Copied(f, Wal!Put(f, op.at, Wal!Synced(op.is)))
            /\ TmpKept(f, Wal!Put(f, op.at, Wal!Synced(op.is)))
        BY <1>0, <2>1, DocumentPut
      <3> QED BY <2>2, <3>1, CopiedKeeps
    <2>5. LogsKept(f, f) /\ TmpKept(f, f)
      BY DEF LogsKept, TmpKept
    <2>6. ASSUME NEW g \in Wal!Partial(f, op)
          PROVE  LogsKept(f, g) /\ TmpKept(f, g)
      <3>1. CASE g = f
        BY <2>5, <3>1
      <3>2. CASE g # f
        <4>1. PICK v : g = Wal!Put(f, op.at, v)
          BY <2>3, <3>2
        <4> QED BY <1>0, <2>1, <4>1, DocumentPut, CopiedKeeps
      <3> QED BY <3>1, <3>2
    <2> QED BY <2>4, <2>6
  <1> QED BY <1>1, <1>2, <1>3 DEF Plain

LEMMA GoodSynced ==
  ASSUME NEW f, NEW g, NEW a \in Nat, NEW o \in Nat, FilesSound(f, a, o), Good(f, g, a, o)
  PROVE  Good(f, Wal!SyncEntries(g), a, o)
  <1>1. FilesSound(g, a, o) /\ Moves(f, g, a, o)
    BY DEF Good
  <1>2. FilesSound(Wal!SyncEntries(g), a, o) /\ Settles(g, Wal!SyncEntries(g), a, o)
    BY <1>1, SyncKeeps
  <1> QED BY <1>1, <1>2, HeldTyped, MovesSettle DEF Good

LEMMA KeptGood ==
  ASSUME NEW f, NEW g, NEW a \in Nat, NEW o \in Nat, FilesSound(f, a, o),
         LogsKept(f, g), TmpKept(f, g)
  PROVE  Good(f, g, a, o)
  BY KeptSound DEF Good, Moves

\* One log in place of another, or of none.
LEMMA OneLog ==
  ASSUME NEW f, NEW g, NEW a \in Nat, NEW o \in Nat, FilesSound(f, a, o),
         NEW x \in LogNames, x \in DOMAIN g, \A y \in LogNames : y \in DOMAIN g => y = x,
         TmpKept(f, g),
         x = "open.wal" => OpenSound(g[x], a) /\ o = 0,
         x = "sealed.wal" => SealedSound(g[x], a, o),
         x = "gc.wal" => SealedSound(g[x], a, o) /\ o > 0,
         x = "abandoned.wal" => AbandonedSound(g[x], a, o),
         "open.json.tmp" \in DOMAIN f =>
            o = 0 /\ x \notin {"sealed.wal", "gc.wal"} /\ (x = "open.wal" => BlankLog(g[x]))
  PROVE  FilesSound(g, a, o)
  BY DEF FilesSound, TmpKept, LogNames

LEMMA CollectingSound ==
  ASSUME NEW f, NEW a \in Nat, NEW o \in Nat, FilesSound(f, a, o), o > 0,
         NEW op \in Collecting, Wal!Possible(f, op)
  PROVE  /\ Good(f, Wal!Result(f, op), a, o)
         /\ \A g \in Wal!Partial(f, op) : Good(f, g, a, o)
  <1>0. Good(f, f, a, o)
    BY KeptGood DEF LogsKept, TmpKept
  <1>1. CASE op = Wal!Rename("sealed.wal", "gc.wal")
    <2>1. op.do = "rename" /\ op.at = "sealed.wal" /\ op.to = "gc.wal"
      BY <1>1 DEF Wal!Rename, Wal!Op
    <2>2. "sealed.wal" \in DOMAIN f
      BY <2>1 DEF Wal!Possible
    <2>3. /\ SealedSound(f["sealed.wal"], a, o)
          /\ \A y \in LogNames : y \in DOMAIN f => y = "sealed.wal"
          /\ "open.json.tmp" \notin DOMAIN f
      BY <2>2 DEF FilesSound, LogNames
    <2>4. f["sealed.wal"] = [data |-> f["sealed.wal"].data, safe |-> f["sealed.wal"].data]
      BY <2>3 DEF SealedSound
    <2> DEFINE g == Renamed(f, "sealed.wal", "gc.wal")
    <2>5. /\ DOMAIN g = (DOMAIN f \ {"sealed.wal"}) \union {"gc.wal"}
          /\ g["gc.wal"] = f["sealed.wal"]
      BY <2>4 DEF Renamed, Wal!Put, Wal!Drop, Wal!Synced
    <2>6. Wal!Result(f, op) = Wal!SyncEntries(g)
      BY <2>1 DEF Wal!Result, Renamed
    <2> HIDE DEF g
    <2>7. FilesSound(g, a, o)
      BY <2>3, <2>5, OneLog DEF TmpKept, LogNames
    <2>8. Same(f, g, o)
      BY <2>2, <2>3, <2>5 DEF Same, PhaseIn, HeldIn, LogNames
    <2>9. Good(f, Wal!SyncEntries(g), a, o)
      BY <2>7, <2>8, GoodSynced DEF Good, Moves, Settles
    <2>10. Good(f, Wal!Put(f, "sealed.wal", Wal!Synced(f["sealed.wal"].data)), a, o)
      <3>1. Wal!Synced(f["sealed.wal"].data) = f["sealed.wal"]
        BY <2>4 DEF Wal!Synced
      <3>2. Copied(f, Wal!Put(f, "sealed.wal", f["sealed.wal"]))
        BY <2>2 DEF Copied, Wal!Put
      <3>3. TmpKept(f, Wal!Put(f, "sealed.wal", f["sealed.wal"]))
        BY DEF TmpKept, Wal!Put
      <3> QED BY <3>1, <3>2, <3>3, CopiedKeeps, KeptGood
    <2>11. \A h \in Wal!Partial(f, op) :
              h \in {f, Wal!Result(f, op), Wal!Put(f, "sealed.wal", Wal!Synced(f["sealed.wal"].data))}
      BY <2>1 DEF Wal!Partial
    <2> QED BY <1>0, <2>6, <2>9, <2>10, <2>11
  <1>2. CASE op = Wal!Remove("gc.wal")
    <2>1. op.do = "remove" /\ op.at = "gc.wal"
      BY <1>2 DEF Wal!Remove, Wal!Op
    <2> DEFINE g == Wal!Drop(f, "gc.wal")
    <2>2. DOMAIN g = DOMAIN f \ {"gc.wal"} /\ \A y \in DOMAIN g : g[y] = f[y]
      BY DEF Wal!Drop
    <2>3. Wal!Result(f, op) = Wal!SyncEntries(g)
      BY <2>1 DEF Wal!Result
    <2>4. \A h \in Wal!Partial(f, op) : h \in {f, Wal!Result(f, op)}
      BY <2>1 DEF Wal!Partial
    <2> HIDE DEF g
    <2>5. Good(f, g, a, o)
      <3>1. CASE "gc.wal" \in DOMAIN f
        <4>1. /\ SealedSound(f["gc.wal"], a, o) /\ f["gc.wal"].data.n = o
              /\ \A y \in LogNames : y \in DOMAIN f => y = "gc.wal"
              /\ "open.json.tmp" \notin DOMAIN f
          BY <3>1 DEF FilesSound, LogNames, SealedSound
        <4>2. FilesSound(g, a, o)
          BY <2>2, <4>1 DEF FilesSound, LogNames
        <4>3. /\ PhaseIn(f, o) = "sealed" /\ PhaseIn(g, o) = "collected"
              /\ HeldIn(f) = o /\ HeldIn(g) = 0
          BY <2>2, <3>1, <4>1 DEF PhaseIn, HeldIn, LogNames
        <4> QED BY <4>2, <4>3 DEF Good, Moves
      <3>2. CASE "gc.wal" \notin DOMAIN f
        BY <2>2, <3>2, KeptGood DEF LogsKept, TmpKept
      <3> QED BY <3>1, <3>2
    <2> QED BY <1>0, <2>3, <2>4, <2>5, GoodSynced
  <1> QED BY <1>1, <1>2 DEF Collecting

\* The data of the open log is synced before it gets another name.
LEMMA OpenSynced ==
  ASSUME NEW f, NEW a \in Nat, NEW o \in Nat, FilesSound(f, a, o), "open.wal" \in DOMAIN f
  PROVE  Good(f, Wal!Put(f, "open.wal", Wal!Synced(f["open.wal"].data)), a, o)
  <1> DEFINE x == f["open.wal"]
             y == [data |-> x.data, safe |-> x.data]
             g == Wal!Put(f, "open.wal", y)
  <1>1. OpenSound(x, a) /\ o = 0 /\ \A z \in LogNames : z \in DOMAIN f => z = "open.wal"
    BY DEF FilesSound, LogNames
  <1>2. x.data \in LogContent /\ a <= x.data.n
    BY <1>1, LogsDiffer DEF OpenSound, LogContent
  <1>3. OpenSound(y, a)
    BY <1>2, LogsDiffer DEF OpenSound, LogContent
  <1>4. BlankLog(x) => BlankLog(y)
    BY DEF BlankLog
  <1>5. "open.json.tmp" \in DOMAIN f => BlankLog(x)
    BY DEF FilesSound
  <1>6. DOMAIN g = DOMAIN f \union {"open.wal"} /\ g["open.wal"] = y
    BY DEF Wal!Put
  <1>7. Wal!Put(f, "open.wal", Wal!Synced(f["open.wal"].data)) = g
    BY DEF Wal!Synced
  <1>8. y.data = x.data
    OBVIOUS
  <1> HIDE DEF g, y
  <1>9. FilesSound(g, a, o)
    BY <1>1, <1>3, <1>4, <1>5, <1>6, OneLog DEF TmpKept, LogNames
  <1>10. Same(f, g, o)
    BY <1>1, <1>6, <1>8 DEF Same, PhaseIn, HeldIn, LogNames
  <1> QED BY <1>7, <1>9, <1>10 DEF Good, Moves, Settles

\* The parts of a rename of the open log.
LEMMA RenameParts ==
  ASSUME NEW f, NEW a \in Nat, NEW o \in Nat, FilesSound(f, a, o), "open.wal" \in DOMAIN f,
         NEW to, NEW op, op = Wal!Rename("open.wal", to), Good(f, Renamed(f, "open.wal", to), a, o)
  PROVE  /\ Good(f, Wal!Result(f, op), a, o)
         /\ \A g \in Wal!Partial(f, op) : Good(f, g, a, o)
  <1>1. op.do = "rename" /\ op.at = "open.wal" /\ op.to = to
    BY DEF Wal!Rename, Wal!Op
  <1>2. Wal!Result(f, op) = Wal!SyncEntries(Renamed(f, "open.wal", to))
    BY <1>1 DEF Wal!Result, Renamed
  <1>3. Good(f, Wal!Result(f, op), a, o)
    BY <1>2, GoodSynced
  <1>4. Good(f, f, a, o)
    BY KeptGood DEF LogsKept, TmpKept
  <1>5. \A g \in Wal!Partial(f, op) :
           g \in {f, Wal!Result(f, op), Wal!Put(f, "open.wal", Wal!Synced(f["open.wal"].data))}
    BY <1>1 DEF Wal!Partial
  <1> QED BY <1>3, <1>4, <1>5, OpenSynced

LEMMA SettlingSound ==
  ASSUME NEW f, NEW a \in Nat, NEW o \in Nat, FilesSound(f, a, o),
         NEW op, Settling(op, f, a, o), Wal!Possible(f, op)
  PROVE  /\ Good(f, Wal!Result(f, op), a, o)
         /\ \A g \in Wal!Partial(f, op) : Good(f, g, a, o)
  <1>0. o = 0 /\ Good(f, f, a, o)
    BY KeptGood DEF LogsKept, TmpKept, Settling
  <1>1. CASE op = Wal!WriteNew("abandoned.wal", Wal!Log(0, 0)) /\ NoLog(f) /\ a = 0
    <2>1. op.do = "write" /\ op.at = "abandoned.wal" /\ op.is = Wal!Log(0, 0)
      BY <1>1 DEF Wal!WriteNew, Wal!Op
    <2>2. ASSUME NEW s \in {Wal!Log(0, 0), Wal!Nothing}
          PROVE  Good(f, Wal!Put(f, "abandoned.wal", [data |-> Wal!Log(0, 0), safe |-> s]), a, o)
      <3> DEFINE x == [data |-> Wal!Log(0, 0), safe |-> s]
                 g == Wal!Put(f, "abandoned.wal", x)
      <3>1. DOMAIN g = DOMAIN f \union {"abandoned.wal"} /\ g["abandoned.wal"] = x
        BY DEF Wal!Put
      <3>2. AbandonedSound(x, a, o)
        BY <1>0, <1>1 DEF AbandonedSound
      <3> HIDE DEF g, x
      <3>3. FilesSound(g, a, o)
        BY <1>0, <1>1, <3>1, <3>2, OneLog DEF TmpKept, LogNames, NoLog
      <3>4. PhaseIn(f, o) = "open" /\ HeldIn(g) = 0 /\ HeldIn(f) = 0
        BY <1>0, <1>1, <3>1 DEF PhaseIn, HeldIn, LogNames, NoLog
      <3>5. PhaseIn(g, o) \in {"open", "abandoned"}
        BY <1>0, <1>1, <3>1 DEF PhaseIn, LogNames, NoLog
      <3> QED BY <1>1, <3>3, <3>4, <3>5 DEF Good, Moves, Settles, Same, Abandons, g, x
    <2>3. Wal!Result(f, op) = Wal!SyncEntries(Wal!Put(f, "abandoned.wal",
                                 [data |-> Wal!Log(0, 0), safe |-> Wal!Log(0, 0)]))
      BY <2>1 DEF Wal!Result, Wal!Synced
    <2>4. ASSUME NEW g \in Wal!Partial(f, op), g # f
          PROVE  g = Wal!Put(f, "abandoned.wal", [data |-> Wal!Log(0, 0), safe |-> Wal!Nothing])
      <3>1. PICK c \in Wal!Between(Wal!Nothing, Wal!Log(0, 0)) \ {Wal!Nothing} :
               g = Wal!Put(f, "abandoned.wal", [data |-> c, safe |-> Wal!Nothing])
        BY <2>1, <2>4 DEF Wal!Partial
      <3>2. c = Wal!Log(0, 0)
        BY BetweenNothing
      <3> QED BY <3>1, <3>2
    <2>5. Good(f, Wal!Result(f, op), a, o)
      BY <2>2, <2>3, GoodSynced
    <2>6. ASSUME NEW g \in Wal!Partial(f, op)
          PROVE  Good(f, g, a, o)
      <3>1. Wal!Nothing \in {Wal!Log(0, 0), Wal!Nothing}
        OBVIOUS
      <3>2. CASE g = f
        BY <1>0, <3>2
      <3>3. CASE g # f
        BY <2>2, <2>4, <3>1, <3>3
      <3> QED BY <3>2, <3>3
    <2> QED BY <2>5, <2>6
  <1>2. CASE /\ op = Wal!Rename("open.wal", "abandoned.wal")
             /\ "open.wal" \in DOMAIN f /\ f["open.wal"].data = Wal!Log(0, 0)
    <2> DEFINE g == Renamed(f, "open.wal", "abandoned.wal")
    <2>1. /\ DOMAIN g = (DOMAIN f \ {"open.wal"}) \union {"abandoned.wal"}
          /\ g["abandoned.wal"] = [data |-> Wal!Log(0, 0), safe |-> Wal!Log(0, 0)]
      BY <1>2 DEF Renamed, Wal!Put, Wal!Drop, Wal!Synced
    <2>2. OpenSound(f["open.wal"], a) /\ \A z \in LogNames : z \in DOMAIN f => z = "open.wal"
      BY <1>2 DEF FilesSound, LogNames
    <2>3. a = 0
      BY <1>2, <2>2, LogsDiffer DEF OpenSound, LogContent
    <2>4. AbandonedSound(g["abandoned.wal"], a, o)
      BY <1>0, <2>1, <2>3 DEF AbandonedSound
    <2> HIDE DEF g
    <2>5. FilesSound(g, a, o)
      BY <1>0, <2>1, <2>2, <2>4, OneLog DEF TmpKept, LogNames
    <2>6. Abandons(f, g, a, o)
      BY <1>0, <2>1, <2>2, <2>3, LogsDiffer DEF Abandons, PhaseIn, HeldIn, LogNames
    <2> QED BY <1>2, <2>5, <2>6, RenameParts DEF Good, Moves, Settles, g
  <1>3. CASE /\ op = Wal!Rename("open.wal", "sealed.wal")
             /\ "open.wal" \in DOMAIN f /\ f["open.wal"].data.n > 0
    <2> DEFINE g == Renamed(f, "open.wal", "sealed.wal")
               x == f["open.wal"]
    <2>1. /\ DOMAIN g = (DOMAIN f \ {"open.wal"}) \union {"sealed.wal"}
          /\ g["sealed.wal"] = [data |-> x.data, safe |-> x.data]
      BY <1>3 DEF Renamed, Wal!Put, Wal!Drop, Wal!Synced
    <2>2. OpenSound(x, a) /\ \A z \in LogNames : z \in DOMAIN f => z = "open.wal"
      BY <1>3 DEF FilesSound, LogNames
    <2>3. x.data \in LogContent /\ a <= x.data.n
      BY <2>2, LogsDiffer DEF OpenSound, LogContent
    <2>4. SealedSound(g["sealed.wal"], a, o) /\ g["sealed.wal"].data = x.data
      BY <1>0, <1>3, <2>1, <2>3 DEF SealedSound
    <2>5. "open.json.tmp" \notin DOMAIN f
      BY <1>3, LogsDiffer DEF FilesSound, BlankLog
    <2> HIDE DEF g
    <2>6. FilesSound(g, a, o)
      BY <1>0, <2>1, <2>2, <2>4, <2>5, OneLog DEF TmpKept, LogNames
    <2>7. /\ PhaseIn(f, o) = "open" /\ PhaseIn(g, o) = "sealed"
          /\ HeldIn(f) > 0 /\ HeldIn(g) = HeldIn(f)
      BY <1>0, <1>3, <2>1, <2>2, <2>4 DEF PhaseIn, HeldIn, LogNames
    <2> QED BY <1>3, <2>6, <2>7, RenameParts DEF Good, Moves, g
  <1>4. CASE /\ "open.wal" \in DOMAIN f /\ f["open.wal"].data.t > 0
             /\ op = Wal!SetLen(Wal!Log(f["open.wal"].data.n, 0))
    <2> DEFINE x == f["open.wal"]
    <2>1. op.do = "truncate" /\ op.at = "open.wal" /\ op.is = Wal!Log(x.data.n, 0)
      BY <1>4 DEF Wal!SetLen, Wal!Op
    <2>2. OpenSound(x, a) /\ \A z \in LogNames : z \in DOMAIN f => z = "open.wal"
      BY <1>4 DEF FilesSound, LogNames
    <2>3. ~BlankLog(x) /\ x.safe # Wal!Nothing
      BY <1>4, <2>2 DEF BlankLog, OpenSound, Wal!Log, Wal!Content
    <2>4. /\ x.data \in LogContent /\ x.safe \in LogContent /\ x.data.n \in Nat
          /\ a <= x.safe.n /\ x.safe.n <= x.data.n
      BY <2>2, <2>3 DEF OpenSound, LogContent
    <2>5. "open.json.tmp" \notin DOMAIN f
      BY <1>4, <2>3 DEF FilesSound
    <2>6. ASSUME NEW c \in LogContent, c.n = x.data.n, NEW s \in {c, x.safe}
          PROVE  Good(f, Wal!Put(f, "open.wal", [data |-> c, safe |-> s]), a, o)
      <3> DEFINE y == [data |-> c, safe |-> s]
                 g == Wal!Put(f, "open.wal", y)
      <3>1. DOMAIN g = DOMAIN f \union {"open.wal"} /\ g["open.wal"] = y
        BY DEF Wal!Put
      <3>2. OpenSound(y, a) /\ y.data.n = x.data.n
        BY <2>4, <2>6, LogsDiffer DEF OpenSound, LogContent
      <3> HIDE DEF g, y
      <3>3. FilesSound(g, a, o)
        BY <1>0, <2>2, <2>5, <3>1, <3>2, OneLog DEF TmpKept, LogNames
      <3>4. Same(f, g, o)
        BY <1>4, <2>2, <3>1, <3>2 DEF Same, PhaseIn, HeldIn, LogNames
      <3> QED BY <3>3, <3>4 DEF Good, Moves, Settles, g, y
    <2>7. op.is \in LogContent /\ op.is.n = x.data.n
      BY <2>1, <2>4, LogsDiffer
    <2>8. Wal!Result(f, op) = Wal!SyncEntries(Wal!Put(f, "open.wal", [data |-> op.is, safe |-> op.is]))
      BY <2>1 DEF Wal!Result, Wal!Synced
    <2>9. Good(f, Wal!Result(f, op), a, o)
      BY <2>6, <2>7, <2>8, GoodSynced
    <2>10. ASSUME NEW g \in Wal!Partial(f, op), g # f
           PROVE  Good(f, g, a, o)
      <3>1. PICK c \in Wal!Between(x.data, op.is) :
               g = Wal!Put(f, "open.wal", [data |-> c, safe |-> x.safe])
        BY <2>1, <2>10 DEF Wal!Partial
      <3>2. c \in LogContent /\ c.n = x.data.n
        <4>1. c \in LogContent /\ x.data.n <= c.n /\ c.n <= op.is.n
          BY <2>4, <2>7, BetweenLogs
        <4> QED BY <2>4, <2>7, <4>1 DEF LogContent
      <3> QED BY <2>6, <3>1, <3>2
    <2> QED BY <1>0, <2>9, <2>10
  <1> QED BY <1>1, <1>2, <1>3, <1>4 DEF Settling

-----------------------------------------------------------------------------
(* The log: the inductive invariant *)

Kinds == {"log", "tail", "nothing", "created", "orphan", "gc", "sealed", "resealed"}
Document == [of : Kinds, n : Nat, t : Nat]
FileOp == [do : {"write", "complete", "rename", "remove", "append", "truncate"},
           at : Wal!Names, to : Wal!Names, is : Document]

QuietList(s, o) == s \in Seq(FileOp) /\ \A i \in DOMAIN s : Quiet(s[i], o)

\* A plan of recovery or seal: one operation at most touches the log.
Planned(s, f, a, o) ==
    /\ s \in Seq(FileOp)
    /\ \A i \in DOMAIN s : Quiet(s[i], o) \/ Settling(s[i], f, a, o)
    /\ \A i, j \in DOMAIN s : ~Quiet(s[i], o) /\ ~Quiet(s[j], o) => i = j

NewTmp == Wal!WriteNew("open.json.tmp", Wal!Creation)
NewLog == Wal!WriteNew("open.wal", Wal!Log(0, 0))
NameIt == Wal!Rename("open.json.tmp", "open.json")

\* create_segment: the log is there before the creation gets its name.
Creating(s, f, a, o) ==
    /\ a = 0 /\ o = 0
    /\ \/ s \in {<<NewTmp, NewLog, NameIt>>, <<NewLog, NameIt>>} /\ NoLog(f)
       \/ /\ s = <<NameIt>> /\ "open.wal" \in DOMAIN f
          /\ f["open.wal"].data = Wal!Log(0, 0) /\ f["open.wal"].safe # Wal!Nothing

\* The recorder's log.
RecordingSound ==
    open /\ ~sealing =>
        /\ "open.wal" \in DOMAIN files /\ "open.json.tmp" \notin DOMAIN files
        /\ files["open.wal"].safe # Wal!Nothing
        /\ records = accepted
        /\ ~failed => files["open.wal"].data = Wal!Log(accepted, 0)

TodoSound ==
    /\ task = "none" => todo = <<>>
    /\ task = "create" => Creating(todo, files, accepted, owned) /\ records = 0 /\ ~open
    /\ task = "append" => todo = <<Wal!Frame(Wal!Log(accepted + 1, 0))>> /\ open /\ ~sealing /\ ~failed
    /\ task \in {"seal", "recover"} => Planned(todo, files, accepted, owned)
    /\ task = "seal" => sealing
    /\ task = "recover" => ~open /\ gc = <<>>

Unborn ==
    /\ DOMAIN files = {} /\ accepted = 0 /\ owned = 0 /\ records = 0
    /\ todo = <<>> /\ gc = <<>> /\ ~open /\ task \in {"none", "recover"}

WalInvariant ==
    /\ up \in BOOLEAN /\ open \in BOOLEAN /\ born \in BOOLEAN /\ sealing \in BOOLEAN /\ failed \in BOOLEAN
    /\ accepted \in Nat /\ owned \in Nat /\ records \in Nat /\ task \in Wal!Tasks
    /\ FilesSound(files, accepted, owned)
    /\ QuietList(gc, owned)
    /\ gc # <<>> => owned > 0
    /\ TodoSound
    /\ RecordingSound
    /\ ~up => todo = <<>> /\ gc = <<>> /\ task = "none" /\ ~open
    /\ ~born => Unborn

-----------------------------------------------------------------------------
(* The log: lists of operations *)

LEMMA QuietJoin ==
  ASSUME NEW s, NEW t, NEW o, QuietList(s, o), QuietList(t, o)
  PROVE  QuietList(s \o t, o)
  <1>1. s \in Seq(FileOp) /\ t \in Seq(FileOp)
    BY DEF QuietList
  <1>2. s \o t \in Seq(FileOp) /\ Len(s \o t) = Len(s) + Len(t)
    BY <1>1
  <1>3. \A i \in 1 .. Len(s) + Len(t) : (s \o t)[i] = IF i <= Len(s) THEN s[i] ELSE t[i - Len(s)]
    BY <1>1
  <1>4. ASSUME NEW i \in DOMAIN (s \o t)
        PROVE  Quiet((s \o t)[i], o)
    <2>1. i \in 1 .. Len(s) + Len(t) /\ Len(s) \in Nat /\ Len(t) \in Nat
      BY <1>1, <1>2
    <2>2. CASE i <= Len(s)
      BY <1>1, <1>3, <2>1, <2>2 DEF QuietList
    <2>3. CASE i > Len(s)
      <3>1. i - Len(s) \in DOMAIN t
        BY <1>1, <2>1, <2>3
      <3> QED BY <1>3, <2>1, <2>3, <3>1 DEF QuietList
    <2> QED BY <2>1, <2>2, <2>3
  <1> QED BY <1>2, <1>4 DEF QuietList

LEMMA QuietOne ==
  ASSUME NEW op \in FileOp, NEW o, Quiet(op, o)
  PROVE  QuietList(<<op>>, o)
  BY DEF QuietList

LEMMA QuietPlanned ==
  ASSUME NEW s, NEW f, NEW a, NEW o, QuietList(s, o)
  PROVE  Planned(s, f, a, o)
  BY DEF QuietList, Planned

LEMMA PlannedOne ==
  ASSUME NEW op \in FileOp, NEW f, NEW a, NEW o, Settling(op, f, a, o)
  PROVE  Planned(<<op>>, f, a, o)
  BY DEF Planned

LEMMA PlannedFirst ==
  ASSUME NEW s, NEW t, NEW f, NEW a, NEW o, Planned(s, f, a, o), QuietList(t, o)
  PROVE  Planned(s \o t, f, a, o)
  <1>1. s \in Seq(FileOp) /\ t \in Seq(FileOp)
    BY DEF QuietList, Planned
  <1>2. s \o t \in Seq(FileOp) /\ Len(s \o t) = Len(s) + Len(t) /\ Len(s) \in Nat /\ Len(t) \in Nat
    BY <1>1
  <1>3. \A i \in 1 .. Len(s) + Len(t) : (s \o t)[i] = IF i <= Len(s) THEN s[i] ELSE t[i - Len(s)]
    BY <1>1
  <1>4. ASSUME NEW i \in DOMAIN (s \o t)
        PROVE  IF i <= Len(s) THEN i \in DOMAIN s /\ (s \o t)[i] = s[i] ELSE Quiet((s \o t)[i], o)
    <2>1. i \in 1 .. Len(s) + Len(t)
      BY <1>2
    <2>2. CASE i <= Len(s)
      BY <1>1, <1>3, <2>1, <2>2
    <2>3. CASE i > Len(s)
      <3>1. i - Len(s) \in DOMAIN t
        BY <1>1, <1>2, <2>1, <2>3
      <3> QED BY <1>2, <1>3, <2>1, <2>3, <3>1 DEF QuietList
    <2> QED BY <1>2, <2>1, <2>2, <2>3
  <1> QED BY <1>2, <1>4 DEF Planned

LEMMA PlannedLast ==
  ASSUME NEW s, NEW t, NEW f, NEW a, NEW o, QuietList(s, o), Planned(t, f, a, o)
  PROVE  Planned(s \o t, f, a, o)
  <1>1. s \in Seq(FileOp) /\ t \in Seq(FileOp)
    BY DEF QuietList, Planned
  <1>2. s \o t \in Seq(FileOp) /\ Len(s \o t) = Len(s) + Len(t) /\ Len(s) \in Nat /\ Len(t) \in Nat
    BY <1>1
  <1>3. \A i \in 1 .. Len(s) + Len(t) : (s \o t)[i] = IF i <= Len(s) THEN s[i] ELSE t[i - Len(s)]
    BY <1>1
  <1>4. ASSUME NEW i \in DOMAIN (s \o t)
        PROVE  /\ i \in Nat
               /\ \/ Quiet((s \o t)[i], o)
                  \/ i - Len(s) \in DOMAIN t /\ (s \o t)[i] = t[i - Len(s)]
    <2>1. i \in 1 .. Len(s) + Len(t)
      BY <1>2
    <2>2. CASE i <= Len(s)
      BY <1>1, <1>3, <2>1, <2>2 DEF QuietList
    <2>3. CASE i > Len(s)
      <3>1. i - Len(s) \in DOMAIN t
        BY <1>1, <1>2, <2>1, <2>3
      <3> QED BY <1>2, <1>3, <2>1, <2>3, <3>1
    <2> QED BY <1>2, <2>1, <2>2, <2>3
  <1>5. ASSUME NEW i \in DOMAIN (s \o t), NEW j \in DOMAIN (s \o t),
               ~Quiet((s \o t)[i], o), ~Quiet((s \o t)[j], o)
        PROVE  i = j
    <2>1. i - Len(s) = j - Len(s)
      BY <1>4, <1>5 DEF Planned
    <2> QED BY <1>2, <1>4, <2>1
  <1>6. \A i \in DOMAIN (s \o t) : Quiet((s \o t)[i], o) \/ Settling((s \o t)[i], f, a, o)
    BY <1>4 DEF Planned
  <1> QED BY <1>2, <1>5, <1>6 DEF Planned

\* What a settling operation relies on does not change with the documents.
LEMMA SettlingKept ==
  ASSUME NEW op, NEW f, NEW g, NEW a, NEW o, Settling(op, f, a, o), LogsKept(f, g)
  PROVE  Settling(op, g, a, o)
  <1>1. "open.wal" \in DOMAIN f => "open.wal" \in DOMAIN g /\ g["open.wal"].data = f["open.wal"].data
    <2> SUFFICES ASSUME "open.wal" \in DOMAIN f
                 PROVE  "open.wal" \in DOMAIN g /\ g["open.wal"].data = f["open.wal"].data
      OBVIOUS
    <2>1. "open.wal" \in LogNames \intersect DOMAIN f
      BY DEF LogNames
    <2>2. \/ g["open.wal"] = f["open.wal"]
          \/ g["open.wal"] = [data |-> f["open.wal"].data, safe |-> Wal!Empty(f["open.wal"].data)]
      BY <2>1 DEF LogsKept
    <2>3. "open.wal" \in DOMAIN g
      BY <2>1 DEF LogsKept
    <2> QED BY <2>2, <2>3
  <1>2. NoLog(f) => NoLog(g)
    BY DEF LogsKept, NoLog
  <1> QED BY <1>1, <1>2 DEF Settling

\* The first operation of a plan is sound, whole or in part, and leaves the rest a plan.
LEMMA PlanStep ==
  ASSUME NEW s, s # <<>>, NEW f, NEW a \in Nat, NEW o \in Nat, FilesSound(f, a, o),
         Planned(s, f, a, o)
  PROVE  /\ \A g \in Wal!Partial(f, Head(s)) : Good(f, g, a, o)
         /\ Wal!Possible(f, Head(s)) =>
               /\ Good(f, Wal!Result(f, Head(s)), a, o)
               /\ Planned(Tail(s), Wal!Result(f, Head(s)), a, o)
  <1> DEFINE op == Head(s)
  <1>1. /\ s \in Seq(FileOp) /\ 1 \in DOMAIN s /\ op = s[1]
        /\ Tail(s) \in Seq(FileOp)
        /\ \A i \in DOMAIN Tail(s) : i + 1 \in DOMAIN s /\ i + 1 # 1 /\ Tail(s)[i] = s[i + 1] /\ i \in Nat
    BY DEF Planned
  <1>2. Quiet(op, o) \/ Settling(op, f, a, o)
    BY <1>1 DEF Planned
  <1>3. /\ \A i \in DOMAIN Tail(s) : Quiet(Tail(s)[i], o) \/ Settling(Tail(s)[i], f, a, o)
        /\ \A i, j \in DOMAIN Tail(s) : ~Quiet(Tail(s)[i], o) /\ ~Quiet(Tail(s)[j], o) => i = j
        /\ ~Quiet(op, o) => \A i \in DOMAIN Tail(s) : Quiet(Tail(s)[i], o)
    BY <1>1 DEF Planned
  <1> HIDE DEF op
  <1>4. CASE ~Wal!Possible(f, op)
    <2>1. Good(f, f, a, o)
      BY KeptGood DEF LogsKept, TmpKept
    <2>2. Wal!Partial(f, op) = {f}
      BY <1>4 DEF Wal!Partial
    <2> QED BY <1>4, <2>1, <2>2 DEF op
  <1>5. CASE Wal!Possible(f, op) /\ Plain(op)
    <2>1. /\ LogsKept(f, Wal!Result(f, op)) /\ TmpKept(f, Wal!Result(f, op))
          /\ \A g \in Wal!Partial(f, op) : LogsKept(f, g) /\ TmpKept(f, g)
      BY <1>5, PlainKeeps
    <2>2. Good(f, Wal!Result(f, op), a, o) /\ \A g \in Wal!Partial(f, op) : Good(f, g, a, o)
      BY <2>1, KeptGood
    <2>3. Planned(Tail(s), Wal!Result(f, op), a, o)
      BY <1>1, <1>3, <2>1, SettlingKept DEF Planned
    <2> QED BY <2>2, <2>3 DEF op
  <1>6. CASE Wal!Possible(f, op) /\ op \in Collecting /\ o > 0
    <2>1. Good(f, Wal!Result(f, op), a, o) /\ \A g \in Wal!Partial(f, op) : Good(f, g, a, o)
      BY <1>6, CollectingSound
    <2>2. Planned(Tail(s), Wal!Result(f, op), a, o)
      BY <1>1, <1>3, <1>6 DEF Planned, Settling
    <2> QED BY <2>1, <2>2 DEF op
  <1>7. CASE Wal!Possible(f, op) /\ ~Quiet(op, o)
    <2>1. Good(f, Wal!Result(f, op), a, o) /\ \A g \in Wal!Partial(f, op) : Good(f, g, a, o)
      BY <1>2, <1>7, SettlingSound
    <2>2. Planned(Tail(s), Wal!Result(f, op), a, o)
      BY <1>1, <1>3, <1>7 DEF Planned
    <2> QED BY <2>1, <2>2 DEF op
  <1> QED BY <1>4, <1>5, <1>6, <1>7 DEF Quiet

-----------------------------------------------------------------------------
(* The log: creation and append *)

\* The open log gets a content between what it holds and one frame more.
LEMMA OpenWritten ==
  ASSUME NEW f, NEW a \in Nat, NEW o \in Nat, FilesSound(f, a, o),
         "open.wal" \in DOMAIN f, f["open.wal"].data = Wal!Log(a, 0),
         f["open.wal"].safe # Wal!Nothing, "open.json.tmp" \notin DOMAIN f
  PROVE  LET op == Wal!Frame(Wal!Log(a + 1, 0)) IN
         /\ \A g \in Wal!Partial(f, op) :
               /\ Good(f, g, a, o)
               /\ "open.wal" \in DOMAIN g /\ "open.json.tmp" \notin DOMAIN g
               /\ g["open.wal"].safe # Wal!Nothing
         /\ LET g == Wal!Result(f, op) IN
            /\ FilesSound(g, a + 1, o)
            /\ PhaseIn(f, o) = "open" /\ PhaseIn(g, o) = "open" /\ o = 0
            /\ HeldIn(f) = a /\ HeldIn(g) = a + 1
            /\ "open.wal" \in DOMAIN g /\ "open.json.tmp" \notin DOMAIN g
            /\ g["open.wal"] = [data |-> Wal!Log(a + 1, 0), safe |-> Wal!Log(a + 1, 0)]
  <1> DEFINE op == Wal!Frame(Wal!Log(a + 1, 0))
             x == f["open.wal"]
  <1>1. op.do = "append" /\ op.at = "open.wal" /\ op.is = Wal!Log(a + 1, 0)
    BY DEF Wal!Frame, Wal!Op
  <1>2. /\ OpenSound(x, a) /\ o = 0 /\ \A z \in LogNames : z \in DOMAIN f => z = "open.wal"
    BY DEF FilesSound, LogNames
  <1>3. /\ x.data \in LogContent /\ x.data.n = a /\ x.safe \in LogContent /\ x.safe.n = a
        /\ op.is \in LogContent /\ op.is.n = a + 1
    BY <1>1, <1>2, LogsDiffer DEF OpenSound, LogContent
  <1>4. ASSUME NEW c \in LogContent, c.n \in a .. a + 1, NEW s \in {c, x.safe}, NEW b \in a .. s.n
        PROVE  LET g == Wal!Put(f, "open.wal", [data |-> c, safe |-> s]) IN
               /\ FilesSound(g, b, o) /\ HeldIn(g) = c.n
               /\ PhaseIn(f, o) = "open" /\ PhaseIn(g, o) = "open" /\ HeldIn(f) = a
               /\ "open.wal" \in DOMAIN g /\ "open.json.tmp" \notin DOMAIN g
               /\ g["open.wal"] = [data |-> c, safe |-> s] /\ s # Wal!Nothing
    <2> DEFINE y == [data |-> c, safe |-> s]
               g == Wal!Put(f, "open.wal", y)
    <2>1. DOMAIN g = DOMAIN f \union {"open.wal"} /\ g["open.wal"] = y
      BY DEF Wal!Put
    <2>2. OpenSound(y, b) /\ y.data.n = c.n /\ s # Wal!Nothing /\ b \in Nat
      BY <1>3, <1>4, LogsDiffer DEF OpenSound, LogContent
    <2> HIDE DEF g, y
    <2>3. FilesSound(g, b, o)
      BY <1>2, <2>1, <2>2 DEF FilesSound, LogNames
    <2>4. PhaseIn(f, o) = "open" /\ PhaseIn(g, o) = "open"
      BY <1>2, <2>1 DEF PhaseIn, LogNames
    <2>5. HeldIn(f) = a
      BY <1>2, <1>3 DEF HeldIn, LogNames
    <2>6. HeldIn(g) = c.n
      BY <1>2, <2>1, <2>2 DEF HeldIn, LogNames
    <2> QED BY <2>1, <2>2, <2>3, <2>4, <2>5, <2>6 DEF g, y
  <1>5. ASSUME NEW g \in Wal!Partial(f, op)
        PROVE  /\ Good(f, g, a, o)
               /\ "open.wal" \in DOMAIN g /\ "open.json.tmp" \notin DOMAIN g
               /\ g["open.wal"].safe # Wal!Nothing
    <2>1. CASE g = f
      BY <2>1, KeptGood DEF LogsKept, TmpKept
    <2>2. CASE g # f
      <3>1. PICK c \in Wal!Between(x.data, op.is) :
               g = Wal!Put(f, "open.wal", [data |-> c, safe |-> x.safe])
        BY <1>1, <2>2, <1>5 DEF Wal!Partial
      <3>2. c \in LogContent /\ a <= c.n /\ c.n <= a + 1
        BY <1>3, <3>1, BetweenLogs
      <3>3. c.n \in a .. a + 1 /\ x.safe \in {c, x.safe} /\ a \in a .. x.safe.n
        BY <1>3, <3>2 DEF LogContent
      <3>4. /\ FilesSound(g, a, o) /\ HeldIn(g) = c.n
            /\ PhaseIn(f, o) = "open" /\ PhaseIn(g, o) = "open" /\ HeldIn(f) = a
            /\ "open.wal" \in DOMAIN g /\ "open.json.tmp" \notin DOMAIN g
            /\ g["open.wal"] = [data |-> c, safe |-> x.safe]
        BY <1>4, <3>1, <3>2, <3>3
      <3> QED BY <3>3, <3>4 DEF Good, Moves
    <2> QED BY <2>1, <2>2
  <1>6. Wal!Result(f, op) = Wal!Put(f, "open.wal", [data |-> op.is, safe |-> op.is])
    BY <1>1 DEF Wal!Result, Wal!Appended, Wal!Synced
  <1>7. op.is.n \in a .. a + 1 /\ a + 1 \in a .. op.is.n
    BY <1>3
  <1>8. op.is = Wal!Log(a + 1, 0) /\ op.is \in LogContent /\ op.is.n = a + 1
    BY <1>1, <1>3
  <1> HIDE DEF op
  <1>9. /\ FilesSound(Wal!Result(f, op), a + 1, o) /\ HeldIn(Wal!Result(f, op)) = op.is.n
        /\ PhaseIn(f, o) = "open" /\ PhaseIn(Wal!Result(f, op), o) = "open" /\ HeldIn(f) = a
        /\ "open.wal" \in DOMAIN Wal!Result(f, op) /\ "open.json.tmp" \notin DOMAIN Wal!Result(f, op)
        /\ Wal!Result(f, op)["open.wal"] = [data |-> op.is, safe |-> op.is]
    <2> DEFINE c == op.is
               b == a + 1
    <2>1. c \in LogContent /\ c.n \in a .. a + 1 /\ c \in {c, x.safe} /\ b \in a .. c.n
      BY <1>7, <1>8
    <2> HIDE DEF c, b, x
    <2>2. LET g == Wal!Put(f, "open.wal", [data |-> c, safe |-> c]) IN
          /\ FilesSound(g, b, o) /\ HeldIn(g) = c.n
          /\ PhaseIn(f, o) = "open" /\ PhaseIn(g, o) = "open" /\ HeldIn(f) = a
          /\ "open.wal" \in DOMAIN g /\ "open.json.tmp" \notin DOMAIN g
          /\ g["open.wal"] = [data |-> c, safe |-> c]
      BY ONLY <1>4, <2>1
    <2> QED BY ONLY <1>6, <2>2 DEF c, b
  <1>10. \A g \in Wal!Partial(f, op) :
            /\ Good(f, g, a, o)
            /\ "open.wal" \in DOMAIN g /\ "open.json.tmp" \notin DOMAIN g
            /\ g["open.wal"].safe # Wal!Nothing
    BY <1>5
  <1>11. o = 0
    BY <1>2
  <1>12. /\ HeldIn(Wal!Result(f, op)) = a + 1
         /\ Wal!Result(f, op)["open.wal"] = [data |-> Wal!Log(a + 1, 0), safe |-> Wal!Log(a + 1, 0)]
    BY <1>8, <1>9
  <1> QED BY ONLY <1>9, <1>10, <1>11, <1>12 DEF op

LEMMA CreateStep ==
  ASSUME NEW s, NEW f, NEW a \in Nat, NEW o \in Nat, FilesSound(f, a, o), Creating(s, f, a, o)
  PROVE  /\ s # <<>>
         /\ \A g \in Wal!Partial(f, Head(s)) : Good(f, g, a, o)
         /\ Wal!Possible(f, Head(s)) =>
               /\ Good(f, Wal!Result(f, Head(s)), a, o)
               /\ Tail(s) # <<>> => Creating(Tail(s), Wal!Result(f, Head(s)), a, o)
               /\ Tail(s) = <<>> =>
                     LET g == Wal!Result(f, Head(s)) IN
                     /\ "open.wal" \in DOMAIN g /\ "open.json.tmp" \notin DOMAIN g
                     /\ g["open.wal"].safe # Wal!Nothing /\ g["open.wal"].data = Wal!Log(0, 0)
  <1> DEFINE op == Head(s)
             g == Wal!Result(f, op)
  <1>0. a = 0 /\ o = 0 /\ Good(f, f, a, o)
    BY KeptGood DEF LogsKept, TmpKept, Creating
  <1>1. ASSUME NEW x \in {"open.wal", "open.json.tmp"}, NEW d, NEW w,
               x = "open.wal" => d = Wal!Log(0, 0) /\ w \in {Wal!Log(0, 0), Wal!Nothing},
               NoLog(f)
        PROVE  Good(f, Wal!Put(f, x, [data |-> d, safe |-> w]), a, o)
    <2> DEFINE y == [data |-> d, safe |-> w]
               h == Wal!Put(f, x, y)
    <2>1. DOMAIN h = DOMAIN f \union {x} /\ h[x] = y
      BY DEF Wal!Put
    <2>2. x = "open.wal" => OpenSound(y, a) /\ BlankLog(y) /\ y.data.n = 0
      BY <1>0, <1>1, LogsDiffer DEF OpenSound, BlankLog
    <2> HIDE DEF h, y
    <2>3. FilesSound(h, a, o)
      BY <1>0, <1>1, <2>1, <2>2 DEF FilesSound, LogNames, NoLog
    <2>4. PhaseIn(f, o) = "open" /\ PhaseIn(h, o) = "open"
      BY <1>0, <1>1, <2>1 DEF PhaseIn, LogNames, NoLog
    <2>5. HeldIn(f) = 0 /\ HeldIn(h) = 0
      BY <1>0, <1>1, <2>1, <2>2 DEF HeldIn, LogNames, NoLog
    <2> QED BY <2>3, <2>4, <2>5 DEF Good, Moves, Settles, Same, h, y
  <1>2. CASE s = <<NewTmp, NewLog, NameIt>> /\ NoLog(f)
    <2>1. s # <<>> /\ op = NewTmp /\ Tail(s) = <<NewLog, NameIt>>
      BY <1>2
    <2>2. op.do = "write" /\ op.at = "open.json.tmp"
      BY <2>1 DEF NewTmp, Wal!WriteNew, Wal!Op
    <2>3. g = Wal!SyncEntries(Wal!Put(f, "open.json.tmp", [data |-> op.is, safe |-> op.is]))
      BY <2>2 DEF Wal!Result, Wal!Synced
    <2>4. Good(f, g, a, o)
      BY <1>1, <1>2, <2>3, GoodSynced
    <2>5. NoLog(g)
      BY <1>2, <2>3 DEF NoLog, Wal!SyncEntries, Wal!Put, LogNames
    <2>6. ASSUME NEW h \in Wal!Partial(f, op), h # f
          PROVE  Good(f, h, a, o)
      <3>1. PICK c : h = Wal!Put(f, "open.json.tmp", [data |-> c, safe |-> Wal!Nothing])
        BY <2>2, <2>6 DEF Wal!Partial
      <3> QED BY <1>1, <1>2, <3>1
    <2> QED BY <1>0, <2>1, <2>4, <2>5, <2>6 DEF Creating
  <1>3. CASE s = <<NewLog, NameIt>> /\ NoLog(f)
    <2>1. s # <<>> /\ op = NewLog /\ Tail(s) = <<NameIt>>
      BY <1>3
    <2>2. op.do = "write" /\ op.at = "open.wal" /\ op.is = Wal!Log(0, 0)
      BY <2>1 DEF NewLog, Wal!WriteNew, Wal!Op
    <2> DEFINE y == [data |-> Wal!Log(0, 0), safe |-> Wal!Log(0, 0)]
    <2>3. g = Wal!SyncEntries(Wal!Put(f, "open.wal", y))
      BY <2>2 DEF Wal!Result, Wal!Synced
    <2>4. Good(f, g, a, o)
      BY <1>1, <1>3, <2>3, GoodSynced
    <2>5. "open.wal" \in DOMAIN g /\ g["open.wal"] = y
      <3>1. /\ "open.wal" \in DOMAIN Wal!Put(f, "open.wal", y)
            /\ Wal!Put(f, "open.wal", y)["open.wal"] = y
        BY DEF Wal!Put
      <3>2. y.safe # Wal!Nothing
        BY LogsDiffer
      <3> QED BY <2>3, <3>1, <3>2 DEF Wal!SyncEntries
    <2>6. ASSUME NEW h \in Wal!Partial(f, op), h # f
          PROVE  Good(f, h, a, o)
      <3>1. PICK c \in Wal!Between(Wal!Nothing, Wal!Log(0, 0)) \ {Wal!Nothing} :
               h = Wal!Put(f, "open.wal", [data |-> c, safe |-> Wal!Nothing])
        BY <2>2, <2>6 DEF Wal!Partial
      <3>2. c = Wal!Log(0, 0)
        BY BetweenNothing
      <3> QED BY <1>1, <1>3, <3>1, <3>2
    <2>7. Creating(<<NameIt>>, g, a, o)
      BY <1>0, <2>5, LogsDiffer DEF Creating
    <2>8. Tail(s) # <<>>
      <3>1. <<NameIt>> # <<>>
        OBVIOUS
      <3> QED BY ONLY <2>1, <3>1
    <2>9. \A h \in Wal!Partial(f, op) : Good(f, h, a, o)
      BY <1>0, <2>6
    <2> HIDE DEF g
    <2>10. Tail(s) # <<>> => Creating(Tail(s), g, a, o)
      BY <2>1, <2>7
    <2> QED BY ONLY <2>1, <2>4, <2>8, <2>9, <2>10 DEF g, op
  <1>4. CASE /\ s = <<NameIt>> /\ "open.wal" \in DOMAIN f
             /\ f["open.wal"].data = Wal!Log(0, 0) /\ f["open.wal"].safe # Wal!Nothing
    <2>1. s # <<>> /\ op = NameIt /\ Tail(s) = <<>>
      BY <1>4
    <2>2. op.do = "rename" /\ op.at = "open.json.tmp" /\ op.to = "open.json"
      BY <2>1 DEF NameIt, Wal!Rename, Wal!Op
    <2>3. Plain(op)
      BY <2>2 DEF Plain, LogNames
    <2>4. g = Wal!SyncEntries(Renamed(f, "open.json.tmp", "open.json"))
      BY <2>2 DEF Wal!Result, Renamed
    <2>5. ASSUME Wal!Possible(f, op)
          PROVE  /\ LogsKept(f, g) /\ TmpKept(f, g)
                 /\ \A h \in Wal!Partial(f, op) : LogsKept(f, h) /\ TmpKept(f, h)
      BY <2>3, <2>5, PlainKeeps
    <2>6. "open.json.tmp" \notin DOMAIN g
      BY <2>4 DEF Wal!SyncEntries, Renamed, Wal!Put, Wal!Drop
    <2>7. ASSUME Wal!Possible(f, op)
          PROVE  "open.wal" \in DOMAIN g /\ g["open.wal"] = f["open.wal"]
      BY <1>4, <2>5, <2>7 DEF LogsKept, LogNames
    <2>8. ~Wal!Possible(f, op) => Wal!Partial(f, op) = {f}
      BY DEF Wal!Partial
    <2>9. \A h \in Wal!Partial(f, op) : Good(f, h, a, o)
      BY <1>0, <2>5, <2>8, KeptGood
    <2>10. Wal!Possible(f, op) => Good(f, g, a, o)
      BY <2>5, KeptGood
    <2> QED BY <1>4, <2>1, <2>6, <2>7, <2>9, <2>10
  <1> QED BY <1>2, <1>3, <1>4 DEF Creating

-----------------------------------------------------------------------------
(* The log: the lists of operations that the handlers plan *)

LEMMA MarkersTyped ==
  /\ Wal!Marker \in Document /\ Wal!Orphan \in Document
  /\ \A n \in Nat, of \in Kinds : Wal!Doc(of, n) \in Document
  /\ \A t \in Nat : Wal!Bytes(t) \in Document
  /\ \A n \in Nat, t \in Nat : Wal!Log(n, t) \in Document
  BY DEF Wal!Marker, Wal!Orphan, Wal!Doc, Wal!Bytes, Wal!Log, Wal!Content, Document, Kinds

LEMMA OpsTyped ==
  ASSUME NEW x \in Wal!Names, NEW y \in Wal!Names, NEW d \in Document
  PROVE  /\ Wal!Rename(x, y) \in FileOp /\ Wal!Remove(x) \in FileOp
         /\ Wal!WriteNew(x, d) \in FileOp /\ Wal!Complete(x, d) \in FileOp
         /\ Wal!Frame(d) \in FileOp /\ Wal!SetLen(d) \in FileOp
  BY DEF Wal!Rename, Wal!Remove, Wal!WriteNew, Wal!Complete, Wal!Frame, Wal!SetLen, Wal!Op,
         Wal!Nothing, Wal!Content, FileOp, Document, Kinds, Wal!Names

LEMMA RenameQuiet ==
  ASSUME NEW x \in Wal!Names, NEW y \in Wal!Names, x \notin LogNames, y \notin LogNames,
         y # "open.json.tmp", NEW o
  PROVE  QuietList(<<Wal!Rename(x, y)>>, o)
  <1>1. Wal!Rename(x, y) \in FileOp
    BY OpsTyped, MarkersTyped
  <1>2. Plain(Wal!Rename(x, y))
    BY DEF Plain, Wal!Rename, Wal!Op
  <1> QED BY <1>1, <1>2, QuietOne DEF Quiet

LEMMA RemoveQuiet ==
  ASSUME NEW x \in Wal!Names, x \notin LogNames, NEW o
  PROVE  QuietList(<<Wal!Remove(x)>>, o)
  <1>1. Wal!Remove(x) \in FileOp
    BY OpsTyped, MarkersTyped
  <1>2. Plain(Wal!Remove(x))
    BY DEF Plain, Wal!Remove, Wal!Op
  <1> QED BY <1>1, <1>2, QuietOne DEF Quiet

LEMMA WriteQuiet ==
  ASSUME NEW x \in Wal!Names, x \notin LogNames, x # "open.json.tmp", NEW d \in Document, NEW o
  PROVE  QuietList(<<Wal!WriteNew(x, d)>>, o) /\ QuietList(<<Wal!Complete(x, d)>>, o)
  <1>1. Wal!WriteNew(x, d) \in FileOp /\ Wal!Complete(x, d) \in FileOp
    BY OpsTyped
  <1>2. Plain(Wal!WriteNew(x, d)) /\ Plain(Wal!Complete(x, d))
    BY DEF Plain, Wal!WriteNew, Wal!Complete, Wal!Op
  <1> QED BY <1>1, <1>2, QuietOne DEF Quiet

LEMMA EmptyQuiet ==
  ASSUME NEW o
  PROVE  QuietList(<<>>, o)
  BY DEF QuietList

LEMMA CollectQuiet ==
  ASSUME NEW o \in Nat, o > 0
  PROVE  /\ QuietList(<<Wal!Rename("sealed.wal", "gc.wal")>>, o)
         /\ QuietList(<<Wal!Remove("gc.wal")>>, o)
  <1>1. Wal!Rename("sealed.wal", "gc.wal") \in FileOp /\ Wal!Remove("gc.wal") \in FileOp
    BY OpsTyped, MarkersTyped DEF Wal!Names
  <1> QED BY <1>1, QuietOne DEF Quiet, Collecting

LEMMA QuietMember ==
  ASSUME NEW x, NEW o, QuietList(<<x>>, o)
  PROVE  x \in FileOp /\ Quiet(x, o)
  <1>1. 1 \in DOMAIN <<x>> /\ <<x>>[1] = x
    OBVIOUS
  <1>2. <<x>> \in Seq(FileOp) /\ Quiet(<<x>>[1], o)
    BY <1>1 DEF QuietList
  <1>3. <<x>>[1] \in FileOp
    BY ONLY <1>1, <1>2
  <1> QED BY <1>1, <1>2, <1>3

LEMMA QuietTwo ==
  ASSUME NEW x, NEW y, NEW o, QuietList(<<x>>, o), QuietList(<<y>>, o)
  PROVE  QuietList(<<x, y>>, o)
  <1>1. x \in FileOp /\ y \in FileOp /\ Quiet(x, o) /\ Quiet(y, o)
    BY QuietMember
  <1>2. \A i \in DOMAIN <<x, y>> : <<x, y>>[i] = x \/ <<x, y>>[i] = y
    OBVIOUS
  <1> QED BY <1>1, <1>2 DEF QuietList

\* Publishing the prepared metadata.
LEMMA PublishQuiet ==
  ASSUME NEW o
  PROVE  QuietList(<<Wal!Rename("segment.json.tmp", "segment.json"), Wal!Remove("open.json")>>, o)
  <1>1. QuietList(<<Wal!Rename("segment.json.tmp", "segment.json")>>, o)
    BY RenameQuiet DEF LogNames, Wal!Names
  <1>2. QuietList(<<Wal!Remove("open.json")>>, o)
    BY RemoveQuiet DEF LogNames, Wal!Names
  <1> QED BY ONLY <1>1, <1>2, QuietTwo

\* What the log needs to be sealed.
Full(f, o) == "open.wal" \in DOMAIN f /\ f["open.wal"].data.n > 0 /\ o = 0

LEMMA PublishPlanned ==
  ASSUME NEW f, NEW a, NEW o
  PROVE  /\ QuietList(Wal!PublishPrepared("sealed.wal"), o)
         /\ Full(f, o) => Planned(Wal!PublishPrepared("open.wal"), f, a, o)
  <1> DEFINE rest == <<Wal!Rename("segment.json.tmp", "segment.json"), Wal!Remove("open.json")>>
             first == <<Wal!Rename("open.wal", "sealed.wal")>>
  <1>1. QuietList(rest, o)
    BY PublishQuiet
  <1>2. /\ Wal!PublishPrepared("sealed.wal") = <<>> \o rest
        /\ Wal!PublishPrepared("open.wal") = first \o rest
    BY DEF Wal!PublishPrepared
  <1>3. QuietList(<<>> \o rest, o)
    BY ONLY <1>1, EmptyQuiet, QuietJoin
  <1>4. Wal!Rename("open.wal", "sealed.wal") \in FileOp
    BY OpsTyped, MarkersTyped DEF Wal!Names
  <1>5. Full(f, o) => Planned(first, f, a, o)
    BY <1>4, PlannedOne DEF Settling, Full
  <1> HIDE DEF rest, first
  <1>6. Full(f, o) => Planned(first \o rest, f, a, o)
    BY <1>1, <1>5, PlannedFirst
  <1> QED BY <1>2, <1>3, <1>6

LEMMA SealPlanned ==
  ASSUME NEW of \in Kinds, NEW a, NEW o
  PROVE  /\ "open.wal" \in DOMAIN files /\ files["open.wal"].data.n \in Nat /\ Full(files, o)
            => Planned(Wal!SealOps(of, "open.wal"), files, a, o)
         /\ "sealed.wal" \in DOMAIN files /\ files["sealed.wal"].data.n \in Nat
            => QuietList(Wal!SealOps(of, "sealed.wal"), o)
  <1>1. ASSUME NEW from, files[from].data.n \in Nat
        PROVE  QuietList(<<Wal!WriteNew("segment.json.tmp", Wal!SealedBy(of, from))>>, o)
    <2>1. Wal!SealedBy(of, from) \in Document
      BY <1>1, MarkersTyped DEF Wal!SealedBy, Wal!Read
    <2> QED BY <2>1, WriteQuiet DEF LogNames, Wal!Names
  <1>2. ASSUME NEW from
        PROVE  Wal!SealOps(of, from) =
                  <<Wal!WriteNew("segment.json.tmp", Wal!SealedBy(of, from))>> \o Wal!PublishPrepared(from)
    BY DEF Wal!SealOps
  <1>3. ASSUME files["open.wal"].data.n \in Nat, Full(files, o)
        PROVE  Planned(Wal!SealOps(of, "open.wal"), files, a, o)
    <2>1. Planned(Wal!PublishPrepared("open.wal"), files, a, o)
      BY <1>3, PublishPlanned
    <2>2. QuietList(<<Wal!WriteNew("segment.json.tmp", Wal!SealedBy(of, "open.wal"))>>, o)
      BY <1>1, <1>3
    <2> QED BY <1>2, <2>1, <2>2, PlannedLast
  <1>4. ASSUME files["sealed.wal"].data.n \in Nat
        PROVE  QuietList(Wal!SealOps(of, "sealed.wal"), o)
    <2>1. QuietList(Wal!PublishPrepared("sealed.wal"), o)
      BY PublishPlanned
    <2>2. QuietList(<<Wal!WriteNew("segment.json.tmp", Wal!SealedBy(of, "sealed.wal"))>>, o)
      BY <1>1, <1>4
    <2> QED BY <1>2, <2>1, <2>2, QuietJoin
  <1> QED BY <1>3, <1>4

LEMMA QuietThree ==
  ASSUME NEW x, NEW y, NEW z, NEW o, QuietList(<<x>>, o), QuietList(<<y>>, o), QuietList(<<z>>, o)
  PROVE  QuietList(<<x, y, z>>, o)
  <1>1. x \in FileOp /\ Quiet(x, o) /\ y \in FileOp /\ Quiet(y, o) /\ z \in FileOp /\ Quiet(z, o)
    BY QuietMember
  <1>2. \A i \in DOMAIN <<x, y, z>> : <<x, y, z>>[i] = x \/ <<x, y, z>>[i] = y \/ <<x, y, z>>[i] = z
    OBVIOUS
  <1> QED BY <1>1, <1>2 DEF QuietList

LEMMA PlannedTwo ==
  ASSUME NEW x \in FileOp, NEW y \in FileOp, NEW f, NEW a, NEW o, Quiet(x, o), Settling(y, f, a, o)
  PROVE  Planned(<<x, y>>, f, a, o)
  <1>1. \A i \in DOMAIN <<x, y>> : (i = 1 /\ <<x, y>>[i] = x) \/ (i = 2 /\ <<x, y>>[i] = y)
    OBVIOUS
  <1>2. <<x, y>> \in Seq(FileOp)
    OBVIOUS
  <1> QED BY ONLY <1>1, <1>2, Quiet(x, o), Settling(y, f, a, o) DEF Planned

LEMMA QuarantinePlanned ==
  ASSUME "open.wal" \in DOMAIN files, files["open.wal"].data \in LogContent,
         files["open.wal"].data.t > 0, NEW a, NEW o, o = 0
  PROVE  Planned(Wal!Quarantine, files, a, o)
  <1> DEFINE c == files["open.wal"].data
             x == IF Wal!Has("corrupt-tail") THEN Wal!Complete("corrupt-tail", Wal!Bytes(c.t))
                  ELSE Wal!WriteNew("corrupt-tail", Wal!Bytes(c.t))
             y == Wal!SetLen(Wal!Log(c.n, 0))
  <1>1. Wal!Quarantine = <<x, y>>
    BY DEF Wal!Quarantine, Wal!Read
  <1>2. Wal!Bytes(c.t) \in Document /\ Wal!Log(c.n, 0) \in Document
    BY MarkersTyped DEF LogContent
  <1>3. Settling(y, files, a, o)
    BY DEF Settling
  <1>4. /\ Wal!Complete("corrupt-tail", Wal!Bytes(c.t)) \in FileOp
        /\ Wal!WriteNew("corrupt-tail", Wal!Bytes(c.t)) \in FileOp
        /\ y \in FileOp
    BY <1>2, OpsTyped DEF Wal!Names
  <1>5. /\ Plain(Wal!Complete("corrupt-tail", Wal!Bytes(c.t)))
        /\ Plain(Wal!WriteNew("corrupt-tail", Wal!Bytes(c.t)))
    BY DEF Plain, Wal!Complete, Wal!WriteNew, Wal!Op, LogNames
  <1>6. x \in FileOp /\ Quiet(x, o)
    BY <1>4, <1>5 DEF Quiet
  <1> HIDE DEF x, y
  <1> QED BY <1>1, <1>3, <1>4, <1>6, PlannedTwo

LEMMA CollectPlanned ==
  ASSUME NEW o \in Nat, o > 0
  PROVE  QuietList(Wal!CollectOps, o)
  <1> DEFINE p == <<IF Wal!Has("gc.json.tmp") THEN Wal!Complete("gc.json.tmp", Wal!Marker)
                    ELSE Wal!WriteNew("gc.json.tmp", Wal!Marker),
                    Wal!Rename("gc.json.tmp", "gc.json")>>
             q == <<Wal!Rename("sealed.wal", "gc.wal")>>
             r == <<Wal!Remove("segment.json"), Wal!Remove("gc.wal"), Wal!Remove("gc.json")>>
  <1>1. QuietList(p, o)
    <2>1. QuietList(<<Wal!Rename("gc.json.tmp", "gc.json")>>, o)
      BY RenameQuiet DEF LogNames, Wal!Names
    <2>2. /\ QuietList(<<Wal!Complete("gc.json.tmp", Wal!Marker)>>, o)
          /\ QuietList(<<Wal!WriteNew("gc.json.tmp", Wal!Marker)>>, o)
      BY WriteQuiet, MarkersTyped DEF LogNames, Wal!Names
    <2> QED BY <2>1, <2>2, QuietTwo
  <1>2. QuietList(q, o)
    BY CollectQuiet
  <1>3. QuietList(r, o)
    <2>1. QuietList(<<Wal!Remove("segment.json")>>, o) /\ QuietList(<<Wal!Remove("gc.json")>>, o)
      BY RemoveQuiet DEF LogNames, Wal!Names
    <2>2. QuietList(<<Wal!Remove("gc.wal")>>, o)
      BY CollectQuiet
    <2> QED BY ONLY <2>1, <2>2, QuietThree
  <1>4. Wal!CollectOps = (IF Wal!Has("gc.json") THEN <<>> ELSE p)
                         \o (IF Wal!Has("sealed.wal") THEN q ELSE <<>>) \o r
    BY DEF Wal!CollectOps
  <1> HIDE DEF p, q, r
  <1> DEFINE u == IF Wal!Has("gc.json") THEN <<>> ELSE p
             v == IF Wal!Has("sealed.wal") THEN q ELSE <<>>
  <1>5. QuietList(u, o) /\ QuietList(v, o)
    BY <1>1, <1>2, EmptyQuiet
  <1> HIDE DEF u, v
  <1>6. QuietList(u \o v, o)
    BY <1>5, QuietJoin
  <1>7. QuietList((u \o v) \o r, o)
    BY <1>3, <1>6, QuietJoin
  <1> QED BY <1>4, <1>7 DEF u, v

LEMMA AbandonPlanned ==
  ASSUME NEW a \in Nat, NEW o \in Nat, FilesSound(files, a, o), ~Wal!AbandonRefused,
         \/ Wal!Has("open.wal") \/ Wal!Has("abandoned.wal")
         \/ NoLog(files) /\ a = 0 /\ o = 0
  PROVE  Planned(Wal!AbandonOps, files, a, o)
  <1> DEFINE p == IF Wal!Incomplete
                  THEN <<Wal!Rename("open.json.tmp", "open.json.incomplete")>> ELSE <<>>
             q == IF Wal!Has("open.wal") THEN <<Wal!Rename("open.wal", "abandoned.wal")>>
                  ELSE IF Wal!Has("abandoned.wal") THEN <<>>
                  ELSE <<Wal!WriteNew("abandoned.wal", Wal!Log(0, 0))>>
             r == IF Wal!Source # "none" THEN <<Wal!Rename(Wal!Source, "abandoned.json")>>
                  ELSE IF ~Wal!Has("abandoned.json") THEN <<Wal!WriteNew("abandoned.json", Wal!Orphan)>>
                  ELSE IF Wal!Torn(Wal!Read("abandoned.json"))
                  THEN <<Wal!Complete("abandoned.json", Wal!Orphan)>> ELSE <<>>
  <1>1. Wal!AbandonOps = p \o q \o r
    BY DEF Wal!AbandonOps
  <1>2. QuietList(p, o)
    <2>1. QuietList(<<Wal!Rename("open.json.tmp", "open.json.incomplete")>>, o)
      BY RenameQuiet DEF LogNames, Wal!Names
    <2> QED BY <2>1, EmptyQuiet
  <1>3. QuietList(r, o)
    <2>1. Wal!Source # "none" => Wal!Source \in {"open.json", "open.json.tmp"}
      BY DEF Wal!Source
    <2>2. Wal!Source # "none" => QuietList(<<Wal!Rename(Wal!Source, "abandoned.json")>>, o)
      <3> DEFINE source == Wal!Source
      <3>1. source \in {"open.json", "open.json.tmp"} => source \in Wal!Names /\ source \notin LogNames
        BY DEF Wal!Names, LogNames
      <3>2. "abandoned.json" \in Wal!Names /\ "abandoned.json" \notin LogNames
        BY DEF Wal!Names, LogNames
      <3> HIDE DEF source
      <3>3. source \in {"open.json", "open.json.tmp"}
            => QuietList(<<Wal!Rename(source, "abandoned.json")>>, o)
        BY <3>1, <3>2, RenameQuiet
      <3> QED BY <2>1, <3>3 DEF source
    <2>3. /\ QuietList(<<Wal!WriteNew("abandoned.json", Wal!Orphan)>>, o)
          /\ QuietList(<<Wal!Complete("abandoned.json", Wal!Orphan)>>, o)
      BY WriteQuiet, MarkersTyped DEF LogNames, Wal!Names
    <2> QED BY <2>2, <2>3, EmptyQuiet
  <1>4. Planned(q, files, a, o)
    <2>1. /\ Wal!Rename("open.wal", "abandoned.wal") \in FileOp
          /\ Wal!WriteNew("abandoned.wal", Wal!Log(0, 0)) \in FileOp
      BY OpsTyped, MarkersTyped DEF Wal!Names
    <2>2. CASE Wal!Has("open.wal")
      <3>1. "open.wal" \in DOMAIN files /\ files["open.wal"].data \in LogContent /\ o = 0
        BY <2>2 DEF Wal!Has, FilesSound, OpenSound
      <3>2. Wal!Size(files["open.wal"].data) <= 0
        BY <2>2, <3>1 DEF Wal!AbandonRefused, Wal!Read, Wal!Size, LogContent
      <3>3. files["open.wal"].data = Wal!Log(0, 0)
        BY <3>1, <3>2 DEF Wal!Size, Wal!Log, Wal!Content, LogContent
      <3>4. Settling(Wal!Rename("open.wal", "abandoned.wal"), files, a, o)
        BY <3>1, <3>3 DEF Settling
      <3> QED BY <2>1, <2>2, <3>4, PlannedOne
    <2>3. CASE ~Wal!Has("open.wal") /\ Wal!Has("abandoned.wal")
      BY <2>3, EmptyQuiet, QuietPlanned
    <2>4. CASE ~Wal!Has("open.wal") /\ ~Wal!Has("abandoned.wal")
      <3>1. Settling(Wal!WriteNew("abandoned.wal", Wal!Log(0, 0)), files, a, o)
        BY <2>4 DEF Settling
      <3> QED BY <2>1, <2>4, <3>1, PlannedOne
    <2> QED BY <2>2, <2>3, <2>4
  <1> HIDE DEF p, q, r
  <1>5. Planned(p \o q, files, a, o)
    BY <1>2, <1>4, PlannedLast
  <1>6. Planned((p \o q) \o r, files, a, o)
    BY <1>3, <1>5, PlannedFirst
  <1> QED BY <1>1, <1>6

IsPlan(p, f, a, o) ==
    p.ok \in BOOLEAN /\ Planned(p.ops, f, a, o) /\ (~p.ok => p.ops = <<>>)

\* What startup recovery plans for any files the log has written.
LEMMA RecoverPlanned ==
  ASSUME NEW a \in Nat, a = accepted, NEW o \in Nat, o = owned, FilesSound(files, a, o)
  PROVE  IsPlan(Wal!RecoverWalInputs, files, a, o)
  <1>1. IsPlan(Wal!Refuse, files, a, o) /\ IsPlan(Wal!Go(<<>>), files, a, o)
    BY EmptyQuiet, QuietPlanned DEF Wal!Refuse, Wal!Go, IsPlan
  <1>2. ASSUME NEW s, Planned(s, files, a, o)
        PROVE  IsPlan(Wal!Go(s), files, a, o)
    BY <1>2 DEF Wal!Go, IsPlan
  <1>3. CASE Wal!GcPending
    <2>1. owned # 0 => Planned(Wal!CollectOps, files, a, o)
      BY CollectPlanned, QuietPlanned
    <2>2. owned # 0 => IsPlan(Wal!Go(Wal!CollectOps), files, a, o)
      BY <1>2, <2>1
    <2> QED BY <1>1, <1>3, <2>2 DEF Wal!RecoverWalInputs
  <1>4. ASSUME "open.wal" \in DOMAIN files
        PROVE  IsPlan(Wal!RecoverOpen, files, a, o)
    <2> DEFINE c == files["open.wal"].data
    <2>1. c \in LogContent /\ o = 0 /\ Wal!Has("open.wal") /\ Wal!Read("open.wal") = c
      BY <1>4 DEF FilesSound, OpenSound, Wal!Has, Wal!Read
    <2>2. Wal!Size(c) = 3 * c.n + c.t /\ c.n \in Nat /\ c.t \in Nat /\ (Wal!Torn(c) <=> c.t > 0)
      BY <2>1 DEF Wal!Size, Wal!Torn, LogContent
    <2> HIDE DEF c
    <2>3. CASE Wal!Size(c) = 0
      <3>1. Wal!RecoverOpen = IF Wal!Has("segment.json.tmp") THEN Wal!Refuse ELSE Wal!Abandon
        BY <2>1, <2>2, <2>3 DEF Wal!RecoverOpen
      <3>2. ~Wal!AbandonRefused => IsPlan(Wal!Go(Wal!AbandonOps), files, a, o)
        BY <1>2, <2>1, AbandonPlanned
      <3>3. IsPlan(Wal!Abandon, files, a, o)
        BY <1>1, <3>2 DEF Wal!Abandon
      <3> QED BY <1>1, <3>1, <3>3
    <2>4. CASE Wal!Size(c) > 0 /\ ~Wal!Has("open.json")
      <3>1. Wal!RecoverOpen = Wal!Refuse
        BY <2>1, <2>2, <2>4 DEF Wal!RecoverOpen
      <3> QED BY <1>1, <3>1
    <2>5. CASE Wal!Has("open.json") /\ c.t > 0
      <3>1. Wal!RecoverOpen = IF Wal!Has("segment.json.tmp") THEN Wal!Refuse ELSE Wal!Go(Wal!Quarantine)
        BY <2>1, <2>2, <2>5 DEF Wal!RecoverOpen
      <3>2. IsPlan(Wal!Go(Wal!Quarantine), files, a, o)
        BY <1>2, <1>4, <2>1, <2>5, QuarantinePlanned DEF c
      <3> QED BY <1>1, <3>1, <3>2
    <2>6. CASE Wal!Has("open.json") /\ c.t = 0 /\ c.n > 0
      <3>1. Wal!RecoverOpen = IF Wal!Has("segment.json.tmp") THEN Wal!RecoverPrepared
                              ELSE Wal!Go(Wal!SealOps("resealed", "open.wal"))
        BY <2>1, <2>2, <2>6 DEF Wal!RecoverOpen
      <3>2. Full(files, o) /\ files["open.wal"].data.n \in Nat
        BY <1>4, <2>1, <2>2, <2>6 DEF Full, c
      <3>3. IsPlan(Wal!Go(Wal!SealOps("resealed", "open.wal")), files, a, o)
        BY <1>2, <1>4, <3>2, SealPlanned DEF Kinds
      <3>4. Planned(Wal!PublishPrepared("open.wal"), files, a, o)
        BY <3>2, PublishPlanned
      <3>5. IsPlan(Wal!Go(Wal!PublishPrepared("open.wal")), files, a, o)
        BY <1>2, <3>4
      <3>6. QuietList(<<Wal!Complete("segment.json.tmp", Wal!SealedBy("resealed", "open.wal"))>>, o)
        <4>1. Wal!SealedBy("resealed", "open.wal") \in Document
          BY <3>2, MarkersTyped DEF Wal!SealedBy, Wal!Read, Kinds
        <4> QED BY <4>1, WriteQuiet DEF LogNames, Wal!Names
      <3>7. IsPlan(Wal!Go(<<Wal!Complete("segment.json.tmp", Wal!SealedBy("resealed", "open.wal"))>>
                           \o Wal!PublishPrepared("open.wal")), files, a, o)
        BY <1>2, <3>4, <3>6, PlannedLast
      <3>8. IsPlan(Wal!Go(<<Wal!Rename("segment.json.tmp", "segment.json.incomplete")>>), files, a, o)
        <4>1. QuietList(<<Wal!Rename("segment.json.tmp", "segment.json.incomplete")>>, o)
          BY RenameQuiet DEF LogNames, Wal!Names
        <4> QED BY <1>2, <4>1, QuietPlanned
      <3>9. IsPlan(Wal!RecoverPrepared, files, a, o)
        BY <1>1, <3>5, <3>7, <3>8 DEF Wal!RecoverPrepared
      <3> QED BY <3>1, <3>3, <3>9
    <2> QED BY <2>2, <2>3, <2>4, <2>5, <2>6
  <1>5. ASSUME "sealed.wal" \in DOMAIN files
        PROVE  IsPlan(Wal!RecoverSealed, files, a, o)
    <2>1. files["sealed.wal"].data.n \in Nat
      BY <1>5 DEF FilesSound, SealedSound, LogContent
    <2>2. IsPlan(Wal!Go(Wal!SealOps("resealed", "sealed.wal")), files, a, o)
      BY <1>2, <1>5, <2>1, SealPlanned, QuietPlanned DEF Kinds
    <2>3. IsPlan(Wal!Go(Wal!PublishPrepared("sealed.wal")), files, a, o)
      BY <1>2, PublishPlanned, QuietPlanned
    <2> QED BY <1>1, <2>2, <2>3 DEF Wal!RecoverSealed
  <1>6. ASSUME Wal!RecoveryPending, Wal!ValidState, ~Wal!Has("open.wal"), ~Wal!Has("sealed.wal"),
               ~Wal!Has("segment.json"), ~Wal!Has("segment.json.tmp")
        PROVE  IsPlan(Wal!Abandon, files, a, o)
    <2>1. Wal!Has("open.json") \/ Wal!Has("open.json.tmp")
      BY <1>6 DEF Wal!RecoveryPending
    <2>2. CASE Wal!Has("abandoned.wal")
      BY <1>1, <1>2, <2>2, AbandonPlanned DEF Wal!Abandon
    <2>3. CASE ~Wal!Has("abandoned.wal")
      <3>1. NoLog(files)
        BY <1>6, <2>3 DEF NoLog, LogNames, Wal!Has, Wal!ValidState
      <3>2. ~Wal!Has("open.json")
        BY <1>6, <2>3 DEF Wal!ValidState
      <3>3. a = 0 /\ o = 0
        BY <2>1, <3>1, <3>2 DEF FilesSound, NoLog, Wal!Has
      <3> QED BY <1>1, <1>2, <3>1, <3>3, AbandonPlanned DEF Wal!Abandon
    <2> QED BY <2>2, <2>3
  <1>7. ASSUME Wal!RecoveryPending
        PROVE  IsPlan(Wal!RecoverSegment, files, a, o)
    BY <1>1, <1>4, <1>5, <1>6, <1>7 DEF Wal!RecoverSegment, Wal!Has
  <1>8. CASE ~Wal!GcPending
    BY <1>1, <1>7, <1>8 DEF Wal!RecoverWalInputs
  <1> QED BY <1>3, <1>8

-----------------------------------------------------------------------------
(* The log: every step keeps the invariant and is a step of the segment *)

SegmentStep == [Wal!Segment!Next]_(Wal!Segment!segment)

LogStep == WalInvariant' /\ SegmentStep

LEMMA ReadAsIn ==
  /\ Wal!phase = PhaseIn(files, owned) /\ Wal!held = HeldIn(files)
  /\ (Wal!phase)' = PhaseIn(files', owned') /\ (Wal!held)' = HeldIn(files')
  BY DEF Wal!phase, Wal!held, PhaseIn, HeldIn, Wal!Has, Wal!Read

\* A move of the files is a step of the segment, or none.
LEMMA MovesImplement ==
  ASSUME accepted \in Nat, owned \in Nat, Moves(files, files', accepted, owned),
         accepted' = accepted, owned' = owned, HeldIn(files) \in Nat, HeldIn(files') \in Nat
  PROVE  SegmentStep
  <1> DEFINE p == PhaseIn(files, owned)
             q == PhaseIn(files', owned)
             m == HeldIn(files)
             n == HeldIn(files')
  <1>1. Wal!phase = p /\ Wal!held = m /\ (Wal!phase)' = q /\ (Wal!held)' = n
    BY ReadAsIn
  <1>2. \/ q = p /\ n = m
        \/ p = "open" /\ q = "abandoned" /\ accepted = 0 /\ n = 0
        \/ p = "open" /\ q = "open" /\ n \in accepted .. m
        \/ p = "open" /\ q = "open" /\ n \in accepted .. m + 1
        \/ p = "open" /\ q = "sealed" /\ m > 0 /\ n = m
        \/ p = "sealed" /\ q = "collected" /\ m = owned /\ n = 0
    BY DEF Moves, Settles, Same, Abandons
  <1> HIDE DEF p, q, m, n
  <1>3. CASE q = p /\ n = m
    BY <1>1, <1>3 DEF SegmentStep, Wal!Segment!segment
  <1>4. CASE p = "open" /\ q = "abandoned" /\ accepted = 0 /\ n = 0
    BY <1>1, <1>4 DEF SegmentStep, Wal!Segment!Next, Wal!Segment!Abandon
  <1>5. CASE p = "open" /\ q = "open" /\ n \in accepted .. m
    BY <1>1, <1>5 DEF SegmentStep, Wal!Segment!Next, Wal!Segment!Lose
  <1>6. CASE p = "open" /\ q = "open" /\ n = m + 1
    BY <1>1, <1>6 DEF SegmentStep, Wal!Segment!Next, Wal!Segment!Write
  <1>7. CASE p = "open" /\ q = "sealed" /\ m > 0 /\ n = m
    BY <1>1, <1>7 DEF SegmentStep, Wal!Segment!Next, Wal!Segment!Seal
  <1>8. CASE p = "sealed" /\ q = "collected" /\ m = owned /\ n = 0
    BY <1>1, <1>8 DEF SegmentStep, Wal!Segment!Next, Wal!Segment!Collect
  <1>9. m \in Nat /\ n \in Nat
    BY DEF m, n
  <1> QED BY <1>2, <1>3, <1>4, <1>5, <1>6, <1>7, <1>8, <1>9

LEMMA GoodImplements ==
  ASSUME WalInvariant, Good(files, files', accepted, owned), accepted' = accepted, owned' = owned
  PROVE  SegmentStep
  <1>1. accepted \in Nat /\ owned \in Nat /\ FilesSound(files, accepted, owned)
    BY DEF WalInvariant
  <1>2. HeldIn(files) \in Nat /\ HeldIn(files') \in Nat
    BY <1>1, HeldTyped DEF Good
  <1> QED BY <1>1, <1>2, MovesImplement DEF Good

LEMMA SameGood ==
  ASSUME NEW f, NEW a \in Nat, NEW o \in Nat, FilesSound(f, a, o)
  PROVE  Good(f, f, a, o)
  BY KeptGood DEF LogsKept, TmpKept

\* The catalog owns the segment: nothing left to do touches the log but its collection.
LEMMA OwnedQuiet ==
  ASSUME WalInvariant, owned > 0
  PROVE  /\ ~(open /\ ~sealing) /\ task \notin {"create", "append"}
         /\ task \in {"seal", "recover"} => \A f : Planned(todo, f, accepted, owned)
  <1>1. ~(open /\ ~sealing)
    BY DEF WalInvariant, RecordingSound, FilesSound
  <1>2. task \notin {"create", "append"}
    BY <1>1 DEF WalInvariant, TodoSound, Creating
  <1>3. task \in {"seal", "recover"} => \A f : Planned(todo, f, accepted, owned)
    BY DEF WalInvariant, TodoSound, Planned, Settling
  <1> QED BY <1>1, <1>2, <1>3

\* Whatever the call in progress does to the files.
LEMMA TodoGood ==
  ASSUME WalInvariant, todo # <<>>
  PROVE  \A g \in Wal!Partial(files, Head(todo)) : Good(files, g, accepted, owned)
  <1>1. accepted \in Nat /\ owned \in Nat /\ FilesSound(files, accepted, owned) /\ TodoSound
        /\ task \in Wal!Tasks
    BY DEF WalInvariant
  <1>2. CASE task = "create"
    BY <1>1, <1>2, CreateStep DEF TodoSound
  <1>3. CASE task = "append"
    <2>1. /\ "open.wal" \in DOMAIN files /\ files["open.wal"].data = Wal!Log(accepted, 0)
          /\ files["open.wal"].safe # Wal!Nothing /\ "open.json.tmp" \notin DOMAIN files
      BY <1>1, <1>3 DEF TodoSound, WalInvariant, RecordingSound
    <2>2. Head(todo) = Wal!Frame(Wal!Log(accepted + 1, 0))
      BY <1>1, <1>3 DEF TodoSound
    <2> QED BY <1>1, <2>1, <2>2, OpenWritten
  <1>4. CASE task \in {"seal", "recover"}
    BY <1>1, <1>4, PlanStep DEF TodoSound
  <1> QED BY <1>1, <1>2, <1>3, <1>4 DEF TodoSound, Wal!Tasks

LEMMA GcGood ==
  ASSUME WalInvariant, gc # <<>>, NEW f, FilesSound(f, accepted, owned)
  PROVE  /\ \A g \in Wal!Partial(f, Head(gc)) : Good(f, g, accepted, owned)
         /\ Wal!Possible(f, Head(gc)) =>
               /\ Good(f, Wal!Result(f, Head(gc)), accepted, owned)
         /\ QuietList(Tail(gc), owned)
  <1>1. accepted \in Nat /\ owned \in Nat /\ QuietList(gc, owned)
    BY DEF WalInvariant
  <1>2. Planned(gc, f, accepted, owned)
    BY <1>1, QuietPlanned
  <1>3. QuietList(Tail(gc), owned)
    BY <1>1 DEF QuietList
  <1> QED BY <1>1, <1>2, <1>3, PlanStep

\* Both lists interrupted at once.
LEMMA InterruptedGood ==
  ASSUME WalInvariant, NEW h \in Wal!Interrupted
  PROVE  Good(files, h, accepted, owned) /\ (~born => h = files)
  <1>1. accepted \in Nat /\ owned \in Nat /\ FilesSound(files, accepted, owned)
        /\ (gc # <<>> => owned > 0) /\ (~born => todo = <<>> /\ gc = <<>>)
    BY DEF WalInvariant, Unborn
  <1>2. PICK f \in Wal!Interrupt(files, todo) : h \in Wal!Interrupt(f, gc)
    BY DEF Wal!Interrupted
  <1>3. Good(files, f, accepted, owned) /\ (todo = <<>> => f = files)
    BY <1>1, <1>2, TodoGood, SameGood DEF Wal!Interrupt
  <1>4. CASE gc = <<>>
    BY <1>1, <1>2, <1>3, <1>4 DEF Wal!Interrupt
  <1>5. CASE gc # <<>>
    <2>1. FilesSound(f, accepted, owned) /\ Moves(files, f, accepted, owned)
      BY <1>3 DEF Good
    <2>2. Good(f, h, accepted, owned)
      BY <1>2, <1>5, <2>1, GcGood DEF Wal!Interrupt
    <2>3. PhaseIn(files, owned) # "open" /\ PhaseIn(f, owned) # "open" /\ owned > 0
      BY <1>1, <1>5, <2>1, HeldTyped
    <2>4. Moves(files, h, accepted, owned)
      BY <1>1, <2>1, <2>2, <2>3, MovesTwice DEF Good
    <2> QED BY <1>1, <1>5, <2>2, <2>4 DEF Good
  <1> QED BY <1>4, <1>5

\* The files are as they were: so is the segment.
LEMMA FilesStay ==
  ASSUME WalInvariant, files' = files, accepted' = accepted, owned' = owned
  PROVE  SegmentStep /\ FilesSound(files', accepted', owned')
  <1>1. accepted \in Nat /\ owned \in Nat /\ FilesSound(files, accepted, owned)
    BY DEF WalInvariant
  <1> QED BY <1>1, SameGood, GoodImplements

LEMMA CreateSegmentKeeps ==
  ASSUME WalInvariant, Wal!CreateSegment
  PROVE  LogStep
  <1>1. /\ files' = files /\ accepted' = accepted /\ owned' = owned /\ gc' = gc /\ open' = open
        /\ records' = records /\ sealing' = sealing /\ failed' = failed /\ up' = up
        /\ up /\ ~open /\ ~born /\ DOMAIN files = {} /\ born' = TRUE /\ task' = "create"
        /\ todo' = <<NewTmp, NewLog, NameIt>>
    BY DEF Wal!CreateSegment, Wal!Begin, NewTmp, NewLog, NameIt
  <1>2. Unborn
    BY <1>1 DEF WalInvariant
  <1>3. Creating(todo', files', accepted', owned')
    BY <1>1, <1>2 DEF Creating, Unborn, NoLog
  <1>4. TodoSound' /\ RecordingSound'
    BY <1>1, <1>2, <1>3 DEF TodoSound, RecordingSound, Unborn
  <1>5. SegmentStep /\ FilesSound(files', accepted', owned')
    BY <1>1, FilesStay
  <1> QED BY <1>1, <1>2, <1>4, <1>5 DEF LogStep, WalInvariant, Wal!Tasks, Unborn

LEMMA RecordKeeps ==
  ASSUME WalInvariant, Wal!Record
  PROVE  LogStep
  <1>1. /\ files' = files /\ accepted' = accepted /\ owned' = owned /\ gc' = gc /\ open' = open
        /\ records' = records /\ sealing' = sealing /\ failed' = failed /\ up' = up /\ born' = born
        /\ up /\ open /\ ~failed /\ ~sealing /\ task' = "append"
        /\ todo' = <<Wal!Frame(Wal!Log(files["open.wal"].data.n + 1, 0))>>
    BY DEF Wal!Record, Wal!Begin, Wal!Read
  <1>2. born /\ accepted \in Nat
    BY <1>1 DEF WalInvariant, Unborn
  <1>3. files["open.wal"].data = Wal!Log(accepted, 0)
    BY <1>1 DEF WalInvariant, RecordingSound
  <1>4. files["open.wal"].data.n = accepted
    BY <1>2, <1>3, LogsDiffer
  <1>5. TodoSound'
    BY <1>1, <1>4 DEF TodoSound
  <1>6. RecordingSound'
    BY <1>1 DEF RecordingSound, WalInvariant
  <1>7. SegmentStep /\ FilesSound(files', accepted', owned')
    BY <1>1, FilesStay
  <1> QED BY <1>1, <1>2, <1>5, <1>6, <1>7 DEF LogStep, WalInvariant, Wal!Tasks

LEMMA RecordRefusedKeeps ==
  ASSUME WalInvariant, Wal!RecordRefused
  PROVE  LogStep
  <1>1. /\ files' = files /\ accepted' = accepted /\ owned' = owned /\ gc' = gc /\ open' = open
        /\ records' = records /\ sealing' = sealing /\ failed' = TRUE /\ up' = up /\ born' = born
        /\ task = "none" /\ task' = task /\ todo' = todo /\ up
    BY DEF Wal!RecordRefused
  <1>2. TodoSound'
    BY <1>1 DEF WalInvariant, TodoSound
  <1>3. RecordingSound'
    BY <1>1 DEF RecordingSound, WalInvariant
  <1>4. SegmentStep /\ FilesSound(files', accepted', owned')
    BY <1>1, FilesStay
  <1> QED BY <1>1, <1>2, <1>3, <1>4 DEF LogStep, WalInvariant, Unborn

LEMMA SealKeeps ==
  ASSUME WalInvariant, Wal!Seal
  PROVE  LogStep
  <1>1. /\ files' = files /\ accepted' = accepted /\ owned' = owned /\ gc' = gc /\ open' = open
        /\ records' = records /\ sealing' = TRUE /\ up' = up /\ born' = born
        /\ up /\ open /\ ~sealing /\ task = "none" /\ records > 0
        /\ \/ failed' = TRUE /\ task' = task /\ todo' = todo
           \/ failed' = failed /\ task' = "seal" /\ todo' = Wal!SealOps("sealed", "open.wal")
    BY DEF Wal!Seal, Wal!Begin
  <1>2. born /\ todo = <<>>
    BY <1>1 DEF WalInvariant, Unborn, TodoSound
  <1>3. /\ "open.wal" \in DOMAIN files /\ files["open.wal"].data.n \in Nat
        /\ Full(files, owned)
    <2>1. /\ "open.wal" \in DOMAIN files /\ files["open.wal"].safe # Wal!Nothing
          /\ records = accepted
      BY <1>1 DEF WalInvariant, RecordingSound
    <2>2. OpenSound(files["open.wal"], accepted) /\ owned = 0 /\ accepted \in Nat
      BY <2>1 DEF WalInvariant, FilesSound
    <2> QED BY <1>1, <2>1, <2>2 DEF OpenSound, LogContent, Full
  <1>4. Planned(Wal!SealOps("sealed", "open.wal"), files, accepted, owned)
    BY <1>3, SealPlanned DEF Kinds
  <1>5. TodoSound'
    BY <1>1, <1>2, <1>4 DEF TodoSound
  <1>6. RecordingSound'
    BY <1>1 DEF RecordingSound
  <1>7. SegmentStep /\ FilesSound(files', accepted', owned')
    BY <1>1, FilesStay
  <1> QED BY <1>1, <1>2, <1>5, <1>6, <1>7 DEF LogStep, WalInvariant, Wal!Tasks

LEMMA RestartKeeps ==
  ASSUME WalInvariant, Wal!Restart
  PROVE  LogStep
  <1>1. /\ files' = files /\ accepted' = accepted /\ owned' = owned /\ gc' = gc /\ open' = open
        /\ records' = records /\ sealing' = sealing /\ failed' = failed /\ born' = born
        /\ ~up /\ up' = TRUE /\ task' = "recover" /\ todo' = todo
    BY DEF Wal!Restart
  <1>2. ~open /\ todo = <<>> /\ gc = <<>>
    BY <1>1 DEF WalInvariant
  <1>3. Planned(<<>>, files, accepted, owned)
    BY EmptyQuiet, QuietPlanned
  <1>4. TodoSound'
    BY <1>1, <1>2, <1>3 DEF TodoSound
  <1>5. RecordingSound'
    BY <1>1, <1>2 DEF RecordingSound
  <1>6. SegmentStep /\ FilesSound(files', accepted', owned')
    BY <1>1, FilesStay
  <1> QED BY <1>1, <1>2, <1>4, <1>5, <1>6 DEF LogStep, WalInvariant, Wal!Tasks, Unborn

LEMMA RecoverKeeps ==
  ASSUME WalInvariant, Wal!Recover
  PROVE  LogStep
  <1> DEFINE plan == Wal!RecoverWalInputs
  <1>1. /\ files' = files /\ accepted' = accepted /\ owned' = owned /\ gc' = gc /\ open' = open
        /\ records' = records /\ sealing' = sealing /\ failed' = failed /\ born' = born
        /\ task = "recover" /\ up' = plan.ok /\ todo' = plan.ops
        /\ task' = IF plan.ok /\ plan.ops # <<>> THEN "recover" ELSE "none"
    BY DEF Wal!Recover
  <1>2. accepted \in Nat /\ owned \in Nat /\ FilesSound(files, accepted, owned)
    BY DEF WalInvariant
  <1>3. IsPlan(plan, files, accepted, owned)
    BY <1>2, RecoverPlanned
  <1>4. ~open /\ gc = <<>>
    BY <1>1 DEF WalInvariant, TodoSound
  <1>5. ~born => plan.ops = <<>> /\ Unborn
    <2>1. ~born => Unborn
      BY DEF WalInvariant
    <2>2. DOMAIN files = {} => plan = Wal!Go(<<>>)
      BY DEF Wal!RecoverWalInputs, Wal!GcPending, Wal!RecoveryPending, Wal!Has
    <2> QED BY <2>1, <2>2 DEF Unborn, Wal!Go
  <1> HIDE DEF plan
  <1>6. TodoSound'
    BY <1>1, <1>3, <1>4 DEF TodoSound, IsPlan
  <1>7. RecordingSound'
    BY <1>1, <1>4 DEF RecordingSound
  <1>8. SegmentStep /\ FilesSound(files', accepted', owned')
    BY <1>1, FilesStay
  <1>9. ~born' => Unborn'
    BY <1>1, <1>4, <1>5 DEF Unborn
  <1>10. ~up' => todo' = <<>> /\ gc' = <<>> /\ task' = "none" /\ ~open'
    BY <1>1, <1>3, <1>4 DEF IsPlan
  <1> QED BY <1>1, <1>3, <1>6, <1>7, <1>8, <1>9, <1>10 DEF LogStep, WalInvariant, Wal!Tasks, IsPlan

LEMMA RecoverConflictKeeps ==
  ASSUME WalInvariant, Wal!RecoverConflict
  PROVE  LogStep
  <1>1. /\ files' = files /\ accepted' = accepted /\ owned' = owned /\ gc' = gc /\ open' = open
        /\ records' = records /\ sealing' = sealing /\ failed' = failed /\ born' = born
        /\ task = "recover" /\ up' = FALSE /\ todo' = <<>> /\ task' = "none"
    BY DEF Wal!RecoverConflict
  <1>2. ~open /\ gc = <<>>
    BY <1>1 DEF WalInvariant, TodoSound
  <1>3. TodoSound' /\ RecordingSound'
    BY <1>1, <1>2 DEF TodoSound, RecordingSound
  <1>4. SegmentStep /\ FilesSound(files', accepted', owned')
    BY <1>1, FilesStay
  <1> QED BY <1>1, <1>2, <1>3, <1>4 DEF LogStep, WalInvariant, Wal!Tasks, Unborn

LEMMA CollectKeeps ==
  ASSUME WalInvariant, Wal!Collect
  PROVE  LogStep
  <1>1. /\ files' = files /\ accepted' = accepted /\ owned' = owned /\ open' = open
        /\ records' = records /\ sealing' = sealing /\ failed' = failed /\ born' = born
        /\ task # "recover" /\ up' = up /\ up /\ todo' = todo /\ task' = task /\ gc' = Wal!CollectOps
        /\ owned > 0 /\ "segment.json" \in DOMAIN files
    BY DEF Wal!Collect, Wal!Loads, Wal!Has
  <1>2. QuietList(gc', owned')
    BY <1>1, CollectPlanned DEF WalInvariant
  <1>3. born
    BY <1>1 DEF WalInvariant, Unborn
  <1>4. TodoSound'
    BY <1>1 DEF TodoSound, WalInvariant
  <1>5. RecordingSound'
    BY <1>1 DEF RecordingSound, WalInvariant
  <1>6. SegmentStep /\ FilesSound(files', accepted', owned')
    BY <1>1, FilesStay
  <1> QED BY <1>1, <1>2, <1>3, <1>4, <1>5, <1>6 DEF LogStep, WalInvariant

\* The drain's step, whole or in part.
LEMMA DrainMoves ==
  ASSUME WalInvariant, gc # <<>>, Good(files, files', accepted, owned), QuietList(gc', owned),
         accepted' = accepted, owned' = owned, open' = open, records' = records, sealing' = sealing,
         failed' = failed, born' = born, up' = up, todo' = todo, task' = task, up
  PROVE  LogStep
  <1>1. owned > 0 /\ born /\ task # "recover" /\ accepted \in Nat /\ owned \in Nat
    BY DEF WalInvariant, Unborn, TodoSound
  <1>2. TodoSound'
    BY <1>1, OwnedQuiet DEF TodoSound, WalInvariant
  <1>3. RecordingSound'
    BY <1>1, OwnedQuiet DEF RecordingSound
  <1>4. SegmentStep /\ FilesSound(files', accepted', owned')
    BY GoodImplements DEF Good
  <1> QED BY <1>1, <1>2, <1>3, <1>4 DEF LogStep, WalInvariant

LEMMA PerformGcKeeps ==
  ASSUME WalInvariant, Wal!PerformGc
  PROVE  LogStep
  <1>1. /\ accepted' = accepted /\ owned' = owned /\ open' = open /\ records' = records
        /\ sealing' = sealing /\ failed' = failed /\ born' = born /\ up' = up /\ up
        /\ todo' = todo /\ task' = task /\ gc # <<>> /\ gc' = Tail(gc)
        /\ Wal!Possible(files, Head(gc)) /\ files' = Wal!Result(files, Head(gc))
    BY DEF Wal!PerformGc
  <1>2. FilesSound(files, accepted, owned)
    BY DEF WalInvariant
  <1>3. Good(files, files', accepted, owned) /\ QuietList(gc', owned)
    BY <1>1, <1>2, GcGood
  <1> QED BY <1>1, <1>3, DrainMoves

LEMMA DrainFailsKeeps ==
  ASSUME WalInvariant, Wal!DrainFails
  PROVE  LogStep
  <1>1. /\ accepted' = accepted /\ owned' = owned /\ open' = open /\ records' = records
        /\ sealing' = sealing /\ failed' = failed /\ born' = born /\ up' = up /\ up
        /\ todo' = todo /\ task' = task /\ gc # <<>> /\ gc' = <<>>
        /\ files' \in Wal!Partial(files, Head(gc))
    BY DEF Wal!DrainFails
  <1>2. FilesSound(files, accepted, owned)
    BY DEF WalInvariant
  <1>3. Good(files, files', accepted, owned) /\ QuietList(gc', owned)
    BY <1>1, <1>2, GcGood, EmptyQuiet
  <1> QED BY <1>1, <1>3, DrainMoves

LEMMA PublishKeeps ==
  ASSUME WalInvariant, Wal!Publish
  PROVE  LogStep
  <1> DEFINE n == files["sealed.wal"].data.n
  <1>1. /\ files' = files /\ accepted' = accepted /\ open' = open /\ records' = records
        /\ sealing' = sealing /\ failed' = failed /\ born' = born /\ up' = up /\ up
        /\ todo' = todo /\ task' = task /\ gc = <<>> /\ gc' = gc /\ task # "recover" /\ owned = 0
        /\ Wal!Loads /\ owned' = files["segment.json"].data.n
    BY DEF Wal!Publish, Wal!Read
  <1>2. "sealed.wal" \in DOMAIN files /\ owned' = n
    BY <1>1 DEF Wal!Loads, Wal!ValidState, Wal!Describes, Wal!Has, Wal!Read
  <1>3. /\ SealedSound(files["sealed.wal"], accepted, 0)
        /\ "open.wal" \notin DOMAIN files /\ "gc.wal" \notin DOMAIN files
        /\ "abandoned.wal" \notin DOMAIN files /\ "open.json.tmp" \notin DOMAIN files
    BY <1>1, <1>2 DEF WalInvariant, FilesSound, LogNames
  <1>4. n \in Nat /\ n > 0 /\ SealedSound(files["sealed.wal"], accepted, n)
    BY <1>3 DEF SealedSound, LogContent
  <1> HIDE DEF n
  <1>5. FilesSound(files', accepted', owned')
    BY <1>1, <1>2, <1>3, <1>4 DEF FilesSound, LogNames
  <1>6. born
    BY <1>2 DEF WalInvariant, Unborn
  <1>7. ~(open /\ ~sealing)
    BY <1>3 DEF WalInvariant, RecordingSound
  <1>8. task \notin {"create", "append"}
    BY <1>2, <1>3, <1>7 DEF WalInvariant, TodoSound, Creating, NoLog, LogNames
  <1>9. task = "seal" => Planned(todo, files, accepted, n)
    <2> SUFFICES ASSUME task = "seal"
                 PROVE  Planned(todo, files, accepted, n)
      OBVIOUS
    <2>1. Planned(todo, files, accepted, 0)
      BY <1>1 DEF WalInvariant, TodoSound
    <2>2. \A op : ~Settling(op, files, accepted, 0)
      BY <1>2, <1>3 DEF Settling, NoLog, LogNames
    <2>3. \A op : Quiet(op, 0) => Quiet(op, n)
      BY <1>4 DEF Quiet
    <2> QED BY <2>1, <2>2, <2>3 DEF Planned
  <1>10. TodoSound'
    BY <1>1, <1>2, <1>8, <1>9 DEF TodoSound, WalInvariant
  <1>11. RecordingSound'
    BY <1>1, <1>7 DEF RecordingSound
  <1>12. SegmentStep
    <2>1. PhaseIn(files, owned) = "sealed" /\ PhaseIn(files', owned') = "sealed"
      BY <1>1, <1>2 DEF PhaseIn
    <2>2. HeldIn(files) = n /\ HeldIn(files') = n
      BY <1>1, <1>2, <1>3 DEF HeldIn, n
    <2> QED BY <1>1, <1>2, <2>1, <2>2, ReadAsIn DEF SegmentStep, Wal!Segment!Next, Wal!Segment!Publish
  <1>13. QuietList(gc', owned')
    BY <1>1, EmptyQuiet
  <1>14. owned' \in Nat
    BY <1>2, <1>4
  <1> QED BY <1>1, <1>5, <1>6, <1>10, <1>11, <1>12, <1>13, <1>14 DEF LogStep, WalInvariant

LEMMA CallFailsKeeps ==
  ASSUME WalInvariant, Wal!CallFails
  PROVE  LogStep
  <1>1. /\ accepted' = accepted /\ owned' = owned /\ open' = open /\ records' = records
        /\ sealing' = sealing /\ failed' = TRUE /\ born' = born /\ up' = up /\ up
        /\ todo # <<>> /\ todo' = <<>> /\ task # "recover" /\ task' = "none" /\ gc' = gc
        /\ files' \in Wal!Partial(files, Head(todo))
    BY DEF Wal!CallFails
  <1>2. Good(files, files', accepted, owned)
    BY <1>1, TodoGood
  <1>3. SegmentStep /\ FilesSound(files', accepted', owned')
    BY <1>1, <1>2, GoodImplements DEF Good
  <1>4. born
    BY <1>1 DEF WalInvariant, Unborn
  <1>5. TodoSound'
    BY <1>1 DEF TodoSound
  <1>6. RecordingSound'
    <2> SUFFICES ASSUME open, ~sealing
                 PROVE  /\ "open.wal" \in DOMAIN files' /\ "open.json.tmp" \notin DOMAIN files'
                        /\ files'["open.wal"].safe # Wal!Nothing /\ records = accepted
      BY <1>1 DEF RecordingSound
    <2>1. task = "append"
      BY <1>1 DEF WalInvariant, TodoSound, Wal!Tasks
    <2>2. /\ "open.wal" \in DOMAIN files /\ files["open.wal"].data = Wal!Log(accepted, 0)
          /\ files["open.wal"].safe # Wal!Nothing /\ "open.json.tmp" \notin DOMAIN files
          /\ records = accepted
      BY <2>1 DEF TodoSound, WalInvariant, RecordingSound
    <2>3. Head(todo) = Wal!Frame(Wal!Log(accepted + 1, 0))
      BY <2>1 DEF TodoSound, WalInvariant
    <2>4. accepted \in Nat /\ owned \in Nat /\ FilesSound(files, accepted, owned)
      BY DEF WalInvariant
    <2>5. files' \in Wal!Partial(files, Wal!Frame(Wal!Log(accepted + 1, 0)))
      BY <1>1, <2>3
    <2>6. /\ "open.wal" \in DOMAIN files' /\ "open.json.tmp" \notin DOMAIN files'
          /\ files'["open.wal"].safe # Wal!Nothing
      BY ONLY <2>2, <2>4, <2>5, OpenWritten
    <2> QED BY <2>2, <2>6
  <1> QED BY <1>1, <1>3, <1>4, <1>5, <1>6 DEF LogStep, WalInvariant, Wal!Tasks

LEMMA PerformKeeps ==
  ASSUME WalInvariant, Wal!Perform
  PROVE  LogStep
  <1>1. /\ owned' = owned /\ sealing' = sealing /\ failed' = failed /\ born' = born /\ up' = up /\ up
        /\ gc' = gc /\ todo # <<>> /\ todo' = Tail(todo)
        /\ Wal!Possible(files, Head(todo)) /\ files' = Wal!Result(files, Head(todo))
        /\ IF Tail(todo) # <<>> \/ task = "recover"
           THEN task' = task /\ open' = open /\ accepted' = accepted /\ records' = records
           ELSE /\ task' = "none" /\ open' = (task # "seal")
                /\ accepted' = IF task = "append" THEN accepted + 1 ELSE accepted
                /\ records' = IF task = "append" THEN records + 1 ELSE records
    BY DEF Wal!Perform
  <1>2. /\ accepted \in Nat /\ owned \in Nat /\ records \in Nat /\ FilesSound(files, accepted, owned)
        /\ TodoSound /\ task \in Wal!Tasks /\ QuietList(gc, owned) /\ (gc # <<>> => owned > 0)
        /\ open \in BOOLEAN
    BY DEF WalInvariant
  <1>3. born /\ task \in {"create", "append", "seal", "recover"}
    BY <1>1, <1>2 DEF WalInvariant, Unborn, TodoSound, Wal!Tasks
  <1>4. ASSUME TodoSound', RecordingSound', SegmentStep, FilesSound(files', accepted', owned'),
               accepted' \in Nat, records' \in Nat
        PROVE  LogStep
    <2>1. task' \in Wal!Tasks /\ open' \in BOOLEAN
      BY <1>1, <1>2 DEF Wal!Tasks
    <2> QED BY <1>1, <1>2, <1>3, <1>4, <2>1 DEF LogStep, WalInvariant
  <1>5. CASE task = "create"
    <2>1. Creating(todo, files, accepted, owned) /\ records = 0 /\ ~open
      BY <1>2, <1>5 DEF TodoSound
    <2>2. accepted' = accepted /\ records' = records
      BY <1>1, <1>5
    <2>3. /\ Good(files, files', accepted, owned)
          /\ todo' # <<>> => Creating(todo', files', accepted, owned)
          /\ todo' = <<>> =>
                /\ "open.wal" \in DOMAIN files' /\ "open.json.tmp" \notin DOMAIN files'
                /\ files'["open.wal"].safe # Wal!Nothing /\ files'["open.wal"].data = Wal!Log(0, 0)
      BY <1>1, <1>2, <2>1, CreateStep
    <2>4. SegmentStep /\ FilesSound(files', accepted', owned')
      BY <1>1, <2>2, <2>3, GoodImplements DEF Good
    <2>5. accepted = 0
      BY <2>1 DEF Creating
    <2>6. TodoSound' /\ RecordingSound'
      <3>1. CASE todo' # <<>>
        BY <1>1, <1>5, <2>1, <2>2, <2>3, <3>1 DEF TodoSound, RecordingSound
      <3>2. CASE todo' = <<>>
        <4>1. task' = "none"
          BY <1>1, <1>5, <3>2
        <4>2. TodoSound'
          BY <3>2, <4>1 DEF TodoSound
        <4>3. RecordingSound'
          BY <2>1, <2>2, <2>3, <2>5, <3>2 DEF RecordingSound
        <4> QED BY <4>2, <4>3
      <3> QED BY <3>1, <3>2
    <2> QED BY <1>2, <1>4, <2>2, <2>4, <2>6
  <1>6. CASE task = "append"
    <2>1. todo = <<Wal!Frame(Wal!Log(accepted + 1, 0))>> /\ open /\ ~sealing /\ ~failed
      BY <1>2, <1>6 DEF TodoSound
    <2>2. /\ "open.wal" \in DOMAIN files /\ files["open.wal"].data = Wal!Log(accepted, 0)
          /\ files["open.wal"].safe # Wal!Nothing /\ "open.json.tmp" \notin DOMAIN files
          /\ records = accepted
      BY <2>1 DEF WalInvariant, RecordingSound
    <2>3. Head(todo) = Wal!Frame(Wal!Log(accepted + 1, 0)) /\ Tail(todo) = <<>>
      BY <2>1
    <2>4. /\ task' = "none" /\ todo' = <<>> /\ accepted' = accepted + 1 /\ records' = records + 1
      BY <1>1, <1>6, <2>3
    <2>5. /\ FilesSound(files', accepted + 1, owned)
          /\ PhaseIn(files, owned) = "open" /\ PhaseIn(files', owned) = "open"
          /\ HeldIn(files) = accepted /\ HeldIn(files') = accepted + 1
          /\ "open.wal" \in DOMAIN files' /\ "open.json.tmp" \notin DOMAIN files'
          /\ files'["open.wal"] = [data |-> Wal!Log(accepted + 1, 0), safe |-> Wal!Log(accepted + 1, 0)]
      <3>1. files' = Wal!Result(files, Wal!Frame(Wal!Log(accepted + 1, 0)))
        BY <1>1, <2>3
      <3> QED BY ONLY <1>2, <2>2, <3>1, OpenWritten
    <2>6. files'["open.wal"].data = Wal!Log(accepted', 0) /\ files'["open.wal"].safe # Wal!Nothing
      <3>1. Wal!Log(accepted + 1, 0) # Wal!Nothing
        BY <1>2, LogsDiffer
      <3> QED BY <2>4, <2>5, <3>1
    <2>7. RecordingSound'
      BY <2>2, <2>4, <2>5, <2>6 DEF RecordingSound
    <2>8. TodoSound'
      BY <2>4 DEF TodoSound
    <2>9. SegmentStep
      BY <1>1, <2>4, <2>5, ReadAsIn DEF SegmentStep, Wal!Segment!Next, Wal!Segment!Append
    <2> QED BY <1>1, <1>2, <1>4, <2>4, <2>5, <2>7, <2>8, <2>9
  <1>7. CASE task \in {"seal", "recover"}
    <2>1. Planned(todo, files, accepted, owned) /\ (task = "seal" => sealing)
          /\ (task = "recover" => ~open /\ gc = <<>>)
      BY <1>2, <1>7 DEF TodoSound
    <2>2. accepted' = accepted /\ records' = records
      BY <1>1, <1>7
    <2>3. Good(files, files', accepted, owned) /\ Planned(todo', files', accepted, owned)
      BY <1>1, <1>2, <2>1, PlanStep
    <2>4. SegmentStep /\ FilesSound(files', accepted', owned')
      BY <1>1, <2>2, <2>3, GoodImplements DEF Good
    <2>5. TodoSound'
      BY <1>1, <1>7, <2>1, <2>2, <2>3 DEF TodoSound
    <2>6. RecordingSound'
      BY <1>1, <1>7, <2>1 DEF RecordingSound
    <2> QED BY <1>2, <1>4, <2>2, <2>4, <2>5, <2>6
  <1> QED BY <1>3, <1>5, <1>6, <1>7

\* The process is gone and its memory with it: what is left is on disk.
LEMMA StoppedKeeps ==
  ASSUME WalInvariant, Wal!Stopped, Good(files, files', accepted, owned),
         ~born => DOMAIN files' = {}
  PROVE  LogStep
  <1>1. /\ up' = FALSE /\ open' = FALSE /\ task' = "none" /\ todo' = <<>> /\ gc' = <<>>
        /\ failed' = FALSE /\ sealing' = FALSE /\ records' = 0
        /\ born' = born /\ accepted' = accepted /\ owned' = owned
    BY DEF Wal!Stopped
  <1>2. TodoSound' /\ RecordingSound'
    BY <1>1 DEF TodoSound, RecordingSound
  <1>3. SegmentStep /\ FilesSound(files', accepted', owned')
    BY <1>1, GoodImplements DEF Good
  <1>4. QuietList(gc', owned')
    BY <1>1, EmptyQuiet
  <1>5. ~born' => Unborn'
    BY <1>1 DEF WalInvariant, Unborn
  <1> QED BY <1>1, <1>2, <1>3, <1>4, <1>5 DEF LogStep, WalInvariant, Wal!Tasks

LEMMA RecoverFailsKeeps ==
  ASSUME WalInvariant, Wal!RecoverFails
  PROVE  LogStep
  <1>1. todo # <<>> /\ files' \in Wal!Partial(files, Head(todo)) /\ Wal!Stopped
    BY DEF Wal!RecoverFails
  <1>2. Good(files, files', accepted, owned)
    BY <1>1, TodoGood
  <1>3. born
    BY <1>1 DEF WalInvariant, Unborn
  <1> QED BY <1>1, <1>2, <1>3, StoppedKeeps

LEMMA KillKeeps ==
  ASSUME WalInvariant, Wal!Kill
  PROVE  LogStep
  <1>1. files' \in Wal!Interrupted /\ Wal!Stopped
    BY DEF Wal!Kill
  <1>2. Good(files, files', accepted, owned) /\ (~born => files' = files)
    BY <1>1, InterruptedGood
  <1>3. ~born => DOMAIN files' = {}
    BY <1>2 DEF WalInvariant, Unborn
  <1> QED BY <1>1, <1>2, <1>3, StoppedKeeps

LEMMA PowerLossKeeps ==
  ASSUME WalInvariant, Wal!PowerLoss
  PROVE  LogStep
  <1>1. Wal!Stopped /\ \E h \in Wal!Interrupted : files' \in Wal!PowerLost(h)
    BY DEF Wal!PowerLoss
  <1>2. PICK h \in Wal!Interrupted : files' \in Wal!PowerLost(h)
    BY <1>1
  <1>3. Good(files, h, accepted, owned) /\ (~born => h = files)
    BY <1>2, InterruptedGood
  <1>4. accepted \in Nat /\ owned \in Nat /\ FilesSound(files, accepted, owned)
    BY DEF WalInvariant
  <1>5. FilesSound(files', accepted, owned) /\ Settles(h, files', accepted, owned)
    BY <1>2, <1>3, <1>4, PowerSound DEF Good
  <1>6. HeldIn(files) \in Nat /\ HeldIn(h) \in Nat /\ HeldIn(files') \in Nat
    BY <1>3, <1>4, <1>5, HeldTyped DEF Good
  <1>7. Good(files, files', accepted, owned)
    BY <1>3, <1>4, <1>5, <1>6, MovesSettle DEF Good
  <1>8. ~born => DOMAIN files' = {}
    BY <1>2, <1>3, PowerLeaves DEF WalInvariant, Unborn
  <1> QED BY <1>1, <1>7, <1>8, StoppedKeeps

LEMMA WalStep ==
  ASSUME WalInvariant, Wal!Next
  PROVE  LogStep
  <1>1. CASE Wal!CreateSegment
    BY <1>1, CreateSegmentKeeps
  <1>2. CASE Wal!Record
    BY <1>2, RecordKeeps
  <1>3. CASE Wal!RecordRefused
    BY <1>3, RecordRefusedKeeps
  <1>4. CASE Wal!Seal
    BY <1>4, SealKeeps
  <1>5. CASE Wal!Perform
    BY <1>5, PerformKeeps
  <1>6. CASE Wal!Publish
    BY <1>6, PublishKeeps
  <1>7. CASE Wal!Collect
    BY <1>7, CollectKeeps
  <1>8. CASE Wal!PerformGc
    BY <1>8, PerformGcKeeps
  <1>9. CASE Wal!Restart
    BY <1>9, RestartKeeps
  <1>10. CASE Wal!Recover
    BY <1>10, RecoverKeeps
  <1>11. CASE Wal!RecoverConflict
    BY <1>11, RecoverConflictKeeps
  <1>12. CASE Wal!CallFails
    BY <1>12, CallFailsKeeps
  <1>13. CASE Wal!DrainFails
    BY <1>13, DrainFailsKeeps
  <1>14. CASE Wal!RecoverFails
    BY <1>14, RecoverFailsKeeps
  <1>15. CASE Wal!Kill
    BY <1>15, KillKeeps
  <1>16. CASE Wal!PowerLoss
    BY <1>16, PowerLossKeeps
  <1> QED BY <1>1, <1>2, <1>3, <1>4, <1>5, <1>6, <1>7, <1>8, <1>9, <1>10, <1>11, <1>12, <1>13,
             <1>14, <1>15, <1>16 DEF Wal!Next

\* Nothing of the log changes.
LEMMA WalStutter ==
  ASSUME WalInvariant, UNCHANGED logVars
  PROVE  LogStep
  <1>1. /\ files' = files /\ up' = up /\ open' = open /\ task' = task /\ todo' = todo /\ gc' = gc
        /\ born' = born /\ sealing' = sealing /\ failed' = failed /\ records' = records
        /\ accepted' = accepted /\ owned' = owned
    BY DEF logVars
  <1>2. TodoSound' /\ RecordingSound'
    BY <1>1 DEF WalInvariant, TodoSound, RecordingSound
  <1>3. SegmentStep /\ FilesSound(files', accepted', owned')
    BY <1>1, FilesStay
  <1> QED BY <1>1, <1>2, <1>3 DEF LogStep, WalInvariant, Unborn

LEMMA WalStarts ==
  ASSUME Wal!Init
  PROVE  WalInvariant /\ Wal!Segment!Init
  <1>1. /\ DOMAIN files = {} /\ up = TRUE /\ open = FALSE /\ task = "none" /\ todo = <<>> /\ gc = <<>>
        /\ born = FALSE /\ sealing = FALSE /\ failed = FALSE /\ records = 0 /\ accepted = 0 /\ owned = 0
    BY DEF Wal!Init
  <1>2. FilesSound(files, accepted, owned)
    BY <1>1 DEF FilesSound
  <1>3. TodoSound /\ RecordingSound /\ Unborn
    BY <1>1 DEF TodoSound, RecordingSound, Unborn
  <1>4. QuietList(gc, owned)
    BY <1>1, EmptyQuiet
  <1>5. WalInvariant
    BY <1>1, <1>2, <1>3, <1>4 DEF WalInvariant, Wal!Tasks
  <1>6. Wal!phase = "open" /\ Wal!held = 0
    BY <1>1, ReadAsIn DEF PhaseIn, HeldIn
  <1> QED BY <1>1, <1>5, <1>6 DEF Wal!Segment!Init

LEMMA StorageStep ==
  ASSUME WalInvariant, [StorageNext]_<<drainVars, logVars, half>>
  PROVE  LogStep
  <1>1. CASE Wal!Next
    BY <1>1, WalStep
  <1>2. CASE UNCHANGED logVars
    BY <1>2, WalStutter
  <1> QED BY <1>1, <1>2 DEF StorageNext

\* The write-ahead log of a segment (wal.rs, wal/recovery.rs, wal/gc.rs) keeps, through every
\* failed call, kill and power failure: one log at a time, with what was accepted synced in
\* it; an empty log while the creation has no name; plans of the recorder, of startup recovery
\* and of the drain that touch the log at most once and only when it may be sealed, cut or
\* abandoned; and a collection only of what the catalog owns.
THEOREM LogSound == StorageSpec => []WalInvariant
  <1>1. StorageInit => WalInvariant
    BY WalStarts DEF StorageInit
  <1>2. WalInvariant /\ [StorageNext]_<<drainVars, logVars, half>> => WalInvariant'
    BY StorageStep DEF LogStep
  <1> QED BY <1>1, <1>2, PTL DEF StorageSpec

\* The log implements DurableSegment: whatever failure strikes, an observation whose append
\* returned is held until the segment is sealed, a sealed segment does not change, one that
\* accepted anything is not abandoned, and its bytes go only once the catalog owns them all.
THEOREM LogImplementsSegment == StorageSpec => ImplementsSegment
  <1>1. StorageInit => Wal!Segment!Init
    BY WalStarts DEF StorageInit
  <1>2. WalInvariant /\ [StorageNext]_<<drainVars, logVars, half>>
        => [Wal!Segment!Next]_(Wal!Segment!segment)
    BY StorageStep DEF LogStep, SegmentStep
  <1> QED BY <1>1, <1>2, LogSound, PTL
          DEF StorageSpec, ImplementsSegment, Wal!ImplementsSegment, Wal!Segment!Spec

-----------------------------------------------------------------------------
(* Restarts: what the files hold, whatever of it is synced *)

Data(f) == [x \in DOMAIN f |-> f[x].data]

Paired(f) == \A x \in DOMAIN f : f[x] = [data |-> f[x].data, safe |-> f[x].safe]

\* Everything written is on disk: between two power failures nothing else is seen.
Clean(f) == \A x \in DOMAIN f : f[x].safe = f[x].data /\ f[x].data # Wal!Nothing

Writing == {"write", "complete", "append", "truncate"}

\* An operation that leaves a document where it writes one.
ProperOp(op) ==
    /\ op \in FileOp
    /\ op.do \in Writing => op.is # Wal!Nothing
    /\ op.do = "rename" => op.at # op.to

\* What an operation makes of the contents, completed or interrupted.
DataResult(d, op) ==
    CASE op.do = "rename" -> Wal!Put(Wal!Drop(d, op.at), op.to, d[op.at])
      [] op.do = "remove" -> Wal!Drop(d, op.at)
      [] OTHER -> Wal!Put(d, op.at, op.is)

DataPartial(d, op) ==
    {d, DataResult(d, op)} \union
    CASE op.do = "write" -> {Wal!Put(d, op.at, c) : c \in Wal!Between(Wal!Nothing, op.is) \ {Wal!Nothing}}
      [] op.do \in {"rename", "remove"} -> {}
      [] OTHER -> {Wal!Put(d, op.at, c) : c \in Wal!Between(d[op.at], op.is)}

LEMMA DropIs ==
  ASSUME NEW d, NEW x
  PROVE  /\ DOMAIN Wal!Drop(d, x) = DOMAIN d \ {x}
         /\ \A y \in DOMAIN d : y # x => Wal!Drop(d, x)[y] = d[y]
  BY DEF Wal!Drop

LEMMA DataPut ==
  ASSUME NEW f, NEW x, NEW v
  PROVE  Data(Wal!Put(f, x, v)) = Wal!Put(Data(f), x, v.data)
  BY DEF Data, Wal!Put

LEMMA DataDrop ==
  ASSUME NEW f, NEW x
  PROVE  Data(Wal!Drop(f, x)) = Wal!Drop(Data(f), x)
  BY DEF Data, Wal!Drop

\* Syncing the entries of a directory changes no content.
LEMMA DataSync ==
  ASSUME NEW f, Paired(f)
  PROVE  Data(Wal!SyncEntries(f)) = Data(f) /\ Paired(Wal!SyncEntries(f))
  BY DEF Data, Wal!SyncEntries, Paired

LEMMA CleanSync ==
  ASSUME NEW f, Clean(f)
  PROVE  Clean(Wal!SyncEntries(f))
  BY DEF Clean, Wal!SyncEntries

LEMMA PairedPut ==
  ASSUME NEW f, Paired(f), NEW x, NEW c, NEW e
  PROVE  Paired(Wal!Put(f, x, [data |-> c, safe |-> e]))
  BY DEF Paired, Wal!Put

LEMMA CleanPut ==
  ASSUME NEW f, Clean(f), NEW x, NEW c, c # Wal!Nothing
  PROVE  Clean(Wal!Put(f, x, Wal!Synced(c)))
  BY DEF Clean, Wal!Put, Wal!Synced

LEMMA PairedDrop ==
  ASSUME NEW f, NEW x
  PROVE  /\ Paired(f) => Paired(Wal!Drop(f, x))
         /\ Clean(f) => Clean(Wal!Drop(f, x))
  BY DEF Paired, Clean, Wal!Drop

\* An operation and what is synced behind it.
LEMMA DataOfResult ==
  ASSUME NEW f, Paired(f), NEW op, ProperOp(op), op.do = "rename" => op.at \in DOMAIN f
  PROVE  /\ Data(Wal!Result(f, op)) = DataResult(Data(f), op)
         /\ Paired(Wal!Result(f, op))
         /\ Clean(f) => Clean(Wal!Result(f, op))
  <1>1. CASE op.do = "rename"
    <2> DEFINE h == Wal!Drop(f, op.at)
               g == Wal!Put(h, op.to, Wal!Synced(f[op.at].data))
    <2>1. Wal!Result(f, op) = Wal!SyncEntries(g)
      BY <1>1 DEF Wal!Result
    <2>2. Paired(h) /\ (Clean(f) => Clean(h)) /\ Data(h) = Wal!Drop(Data(f), op.at)
      BY PairedDrop, DataDrop
    <2>3. Wal!Synced(f[op.at].data) = [data |-> f[op.at].data, safe |-> f[op.at].data]
      BY DEF Wal!Synced
    <2>4. Clean(f) => f[op.at].data # Wal!Nothing
      BY <1>1 DEF Clean
    <2>5. Data(f)[op.at] = f[op.at].data
      BY <1>1 DEF Data
    <2> HIDE DEF h
    <2>6. Paired(g) /\ (Clean(f) => Clean(g))
      BY <2>2, <2>3, <2>4, PairedPut, CleanPut
    <2>7. Data(g) = Wal!Put(Data(h), op.to, f[op.at].data)
      BY <2>3, DataPut
    <2> HIDE DEF g
    <2> QED BY <1>1, <2>1, <2>2, <2>5, <2>6, <2>7, DataSync, CleanSync DEF DataResult
  <1>2. CASE op.do = "remove"
    <2>1. Wal!Result(f, op) = Wal!SyncEntries(Wal!Drop(f, op.at))
      BY <1>2 DEF Wal!Result
    <2> QED BY <1>2, <2>1, PairedDrop, DataDrop, DataSync, CleanSync DEF DataResult
  <1>3. CASE op.do \in Writing
    <2> DEFINE g == Wal!Put(f, op.at, Wal!Synced(op.is))
    <2>1. Wal!Result(f, op) \in {g, Wal!SyncEntries(g)}
      BY <1>3 DEF Wal!Result, Writing, Wal!Appended
    <2>2. Wal!Synced(op.is) = [data |-> op.is, safe |-> op.is]
      BY DEF Wal!Synced
    <2>3. Paired(g) /\ (Clean(f) => Clean(g)) /\ Data(g) = Wal!Put(Data(f), op.at, op.is)
      BY <1>3, <2>2, PairedPut, CleanPut, DataPut DEF ProperOp
    <2>4. DataResult(Data(f), op) = Wal!Put(Data(f), op.at, op.is)
      BY <1>3 DEF DataResult, Writing
    <2> HIDE DEF g
    <2> QED BY <2>1, <2>3, <2>4, DataSync, CleanSync
  <1> QED BY <1>1, <1>2, <1>3 DEF ProperOp, FileOp, Writing

\* What an interrupted operation leaves of a file it writes.
LEMMA PartialWritten ==
  ASSUME NEW f, Paired(f), NEW op, ProperOp(op), op.do \in Writing,
         op.do # "write" => op.at \in DOMAIN f,
         NEW g \in Wal!Partial(f, op), g # f
  PROVE  /\ op.do = "write" =>
              \E c \in Wal!Between(Wal!Nothing, op.is) \ {Wal!Nothing} :
                 g = Wal!Put(f, op.at, [data |-> c, safe |-> Wal!Nothing])
         /\ op.do # "write" =>
              \E c \in Wal!Between(f[op.at].data, op.is) :
                 g = Wal!Put(f, op.at, [data |-> c, safe |-> f[op.at].safe])
  <1>1. Wal!Possible(f, op)
    BY DEF Wal!Partial
  <1>2. CASE op.do = "write"
    <2>1. Wal!Partial(f, op) = {f} \union {Wal!Put(f, op.at, [data |-> c, safe |-> Wal!Nothing]) :
                                             c \in Wal!Between(Wal!Nothing, op.is) \ {Wal!Nothing}}
      BY <1>1, <1>2 DEF Wal!Partial
    <2> QED BY <1>2, <2>1
  <1>3. CASE op.do # "write"
    <2>1. Wal!Partial(f, op) = {f} \union {Wal!Put(f, op.at, [data |-> c, safe |-> f[op.at].safe]) :
                                             c \in Wal!Between(f[op.at].data, op.is)}
      BY <1>1, <1>3 DEF Wal!Partial, Writing
    <2> QED BY <1>3, <2>1
  <1> QED BY <1>2, <1>3

LEMMA PartialMoved ==
  ASSUME NEW f, Paired(f), NEW op, ProperOp(op), op.do \notin Writing,
         op.do = "rename" => op.at \in DOMAIN f, NEW g \in Wal!Partial(f, op)
  PROVE  /\ Data(g) \in {Data(f), DataResult(Data(f), op)} /\ Paired(g)
         /\ Clean(f) => Clean(g)
  <1>1. CASE g \in {f, Wal!Result(f, op)}
    BY <1>1, DataOfResult
  <1>2. CASE op.do = "rename" /\ g = Wal!Put(f, op.at, Wal!Synced(f[op.at].data))
    <2>1. Wal!Synced(f[op.at].data) = [data |-> f[op.at].data, safe |-> f[op.at].data]
      BY DEF Wal!Synced
    <2>2. Data(g) = Wal!Put(Data(f), op.at, f[op.at].data) /\ Paired(g)
      BY <1>2, <2>1, DataPut, PairedPut
    <2>3. Wal!Put(Data(f), op.at, f[op.at].data) = Data(f)
      BY <1>2 DEF Data, Wal!Put
    <2>4. Clean(f) => Clean(g)
      BY <1>2, CleanPut DEF Clean
    <2> QED BY <2>2, <2>3, <2>4
  <1>3. op.do \in {"rename", "remove"}
    BY DEF ProperOp, FileOp, Writing
  <1>4. \/ g \in {f, Wal!Result(f, op)}
        \/ op.do = "rename" /\ g = Wal!Put(f, op.at, Wal!Synced(f[op.at].data))
    BY <1>3 DEF Wal!Partial
  <1> QED BY <1>1, <1>2, <1>4

\* What an interrupted operation leaves.
LEMMA DataOfPartial ==
  ASSUME NEW f, Paired(f), NEW op, ProperOp(op),
         op.do \in {"rename", "complete", "append", "truncate"} => op.at \in DOMAIN f,
         NEW g \in Wal!Partial(f, op)
  PROVE  Data(g) \in DataPartial(Data(f), op) /\ Paired(g)
  <1>1. CASE op.do \notin Writing
    BY <1>1, PartialMoved DEF DataPartial
  <1>2. CASE op.do \in Writing /\ g # f
    <2>1. CASE op.do = "write"
      <3>1. PICK c \in Wal!Between(Wal!Nothing, op.is) \ {Wal!Nothing} :
               g = Wal!Put(f, op.at, [data |-> c, safe |-> Wal!Nothing])
        BY <1>2, <2>1, PartialWritten
      <3>2. Data(g) = Wal!Put(Data(f), op.at, c) /\ Paired(g)
        BY <3>1, DataPut, PairedPut
      <3> QED BY <2>1, <3>2 DEF DataPartial
    <2>2. CASE op.do # "write"
      <3>1. op.at \in DOMAIN f /\ Data(f)[op.at] = f[op.at].data
        BY <1>2, <2>2 DEF Writing, Data
      <3>2. PICK c \in Wal!Between(f[op.at].data, op.is) :
               g = Wal!Put(f, op.at, [data |-> c, safe |-> f[op.at].safe])
        BY <1>2, <2>2, <3>1, PartialWritten
      <3>3. Data(g) = Wal!Put(Data(f), op.at, c) /\ Paired(g)
        BY <3>2, DataPut, PairedPut
      <3> QED BY <1>2, <2>2, <3>1, <3>3 DEF DataPartial, Writing
    <2> QED BY <2>1, <2>2
  <1>3. CASE g = f
    BY <1>3 DEF DataPartial
  <1> QED BY <1>1, <1>2, <1>3

\* After a power failure every file is as it is on disk.
LEMMA PowerLostSynced ==
  ASSUME NEW f, NEW g \in Wal!PowerLost(f), NEW x \in DOMAIN g, f[x].data # f[x].safe
  PROVE  g[x].data = g[x].safe
  <1>1. PICK left : g = Wal!Survives(f, left)
    BY DEF Wal!PowerLost
  <1> QED BY <1>1 DEF Wal!Survives, Wal!Dirty, Wal!Synced

\* What is between the start and a point on the way is on the way.
LEMMA BetweenBetween ==
  ASSUME NEW s, NEW d \in Document, NEW c \in Wal!Between(s, d), c # s,
         NEW e \in Wal!Between(s, c), d.of = "log" => Wal!Size(s) \in Nat
  PROVE  e \in Wal!Between(s, d)
  <1>1. CASE d.of = "log"
    <2> DEFINE Logs == {Wal!Log(n, t) : n \in 0 .. MaxRecords, t \in 0 .. 2}
    <2>1. Wal!Between(s, d) = {s, d} \union {x \in Logs : Wal!Size(s) <= Wal!Size(x) /\ Wal!Size(x) <= Wal!Size(d)}
      BY <1>1 DEF Wal!Between
    <2>2. c = d \/ (c \in Logs /\ Wal!Size(s) <= Wal!Size(c) /\ Wal!Size(c) <= Wal!Size(d))
      BY <2>1
    <2>3. c.of = "log"
      BY <1>1, <2>2 DEF Wal!Log, Wal!Content
    <2>4. Wal!Between(s, c) = {s, c} \union {x \in Logs : Wal!Size(s) <= Wal!Size(x) /\ Wal!Size(x) <= Wal!Size(c)}
      BY <2>3 DEF Wal!Between
    <2>5. \A x \in Logs : Wal!Size(x) \in Nat
      BY WalAssumption DEF Wal!Size, Wal!Log, Wal!Content
    <2>6. Wal!Size(d) \in Nat
      BY DEF Wal!Size, Document
    <2> HIDE DEF Logs
    <2> QED BY <2>1, <2>2, <2>4, <2>5, <2>6
  <1>2. CASE d.of = "tail"
    <2>1. Wal!Between(s, d) = {s} \union {Wal!Bytes(t) : t \in s.t .. d.t}
      BY <1>2 DEF Wal!Between
    <2>2. PICK t \in s.t .. d.t : c = Wal!Bytes(t)
      BY <2>1
    <2>3. c.of = "tail" /\ c.t = t
      BY <2>2 DEF Wal!Bytes, Wal!Content
    <2>4. Wal!Between(s, c) = {s} \union {Wal!Bytes(x) : x \in s.t .. t}
      BY <2>3 DEF Wal!Between
    <2>5. \A x \in s.t .. t : x \in s.t .. d.t
      BY DEF Document
    <2> QED BY <2>1, <2>4, <2>5
  <1>3. CASE d.of \notin {"log", "tail"}
    <2>1. Wal!Between(s, d) = {s, d, [d EXCEPT !.t = 1]}
      BY <1>3 DEF Wal!Between
    <2>2. d = [of |-> d.of, n |-> d.n, t |-> d.t]
      BY DEF Document
    <2>3. [d EXCEPT !.t = 1] = [of |-> d.of, n |-> d.n, t |-> 1]
      BY <2>2
    <2>4. c \in {d, [of |-> d.of, n |-> d.n, t |-> 1]} /\ c.of = d.of
      BY <2>1, <2>3
    <2>5. [c EXCEPT !.t = 1] = [of |-> d.of, n |-> d.n, t |-> 1]
      BY <2>2, <2>4
    <2>6. Wal!Between(s, c) = {s, c, [c EXCEPT !.t = 1]}
      BY <1>3, <2>4 DEF Wal!Between
    <2> QED BY <2>1, <2>3, <2>4, <2>5, <2>6
  <1> QED BY <1>1, <1>2, <1>3

\* Nothing is not on the way from one document to another.
LEMMA BetweenSome ==
  ASSUME NEW s, s # Wal!Nothing, NEW d \in Document, d # Wal!Nothing
  PROVE  Wal!Nothing \notin Wal!Between(s, d)
  <1>1. Wal!Nothing.of = "nothing" /\ Wal!Nothing.t = 0
    BY DEF Wal!Nothing, Wal!Content
  <1>2. CASE d.of = "log"
    <2>1. \A n, t : Wal!Log(n, t).of = "log"
      BY DEF Wal!Log, Wal!Content
    <2>2. \A c \in Wal!Between(s, d) : c = s \/ c = d \/ \E n, t : c = Wal!Log(n, t)
      BY <1>2 DEF Wal!Between
    <2> QED BY <1>1, <1>2, <2>1, <2>2
  <1>3. CASE d.of = "tail"
    <2>1. \A t : Wal!Bytes(t).of = "tail"
      BY DEF Wal!Bytes, Wal!Content
    <2>2. \A c \in Wal!Between(s, d) : c = s \/ \E t : c = Wal!Bytes(t)
      BY <1>3 DEF Wal!Between
    <2> QED BY <1>1, <1>3, <2>1, <2>2
  <1>4. CASE d.of \notin {"log", "tail"}
    <2>1. d = [of |-> d.of, n |-> d.n, t |-> d.t]
      BY DEF Document
    <2>2. [d EXCEPT !.t = 1] = [of |-> d.of, n |-> d.n, t |-> 1]
      BY <2>1
    <2>3. \A c \in Wal!Between(s, d) : c \in {s, d, [of |-> d.of, n |-> d.n, t |-> 1]}
      BY <1>4, <2>2 DEF Wal!Between
    <2> QED BY <1>1, <2>3
  <1> QED BY <1>2, <1>3, <1>4

\* A power failure takes nothing of what is synced.
LEMMA PowerClean ==
  ASSUME NEW f, Clean(f), NEW g \in Wal!PowerLost(f), Paired(f)
  PROVE  Data(g) = Data(f) /\ Clean(g) /\ Paired(g)
  <1>0. \A x \in DOMAIN f : f[x].data = f[x].safe
    BY DEF Clean
  <1>1. /\ DOMAIN g \subseteq DOMAIN f
        /\ \A x \in DOMAIN g : g[x] = f[x] \/ f[x].data # f[x].safe
        /\ \A x \in DOMAIN f \ DOMAIN g : f[x].data # f[x].safe
    BY PowerLeaves
  <1>2. DOMAIN g = DOMAIN f /\ \A x \in DOMAIN g : g[x] = f[x]
    BY <1>0, <1>1
  <1> QED BY <1>2 DEF Data, Clean, Paired

\* A power failure inside an operation leaves no more and no less than a kill there would.
LEMMA DataOfPower ==
  ASSUME NEW f, Paired(f), Clean(f), NEW op, ProperOp(op),
         op.do \in {"rename", "complete", "append", "truncate"} => op.at \in DOMAIN f,
         op.do = "write" => op.at \notin DOMAIN f,
         op.is.of = "log" /\ op.at \in DOMAIN f => Wal!Size(f[op.at].data) \in Nat,
         NEW h \in Wal!Partial(f, op), NEW g \in Wal!PowerLost(h)
  PROVE  Data(g) \in DataPartial(Data(f), op) /\ Clean(g) /\ Paired(g)
  <1>1. CASE op.do \notin Writing \/ h = f
    <2>1. Clean(h) /\ Paired(h) /\ Data(h) \in DataPartial(Data(f), op)
      BY <1>1, PartialMoved, DataOfPartial
    <2> QED BY <2>1, PowerClean
  <1>2. CASE op.do \in Writing /\ h # f
    <2> DEFINE x == op.at
               s == IF op.do = "write" THEN Wal!Nothing ELSE f[x].data
    <2>1. op.is \in Document /\ op.is # Wal!Nothing
      BY <1>2 DEF ProperOp, FileOp
    <2>2. op.do # "write" => x \in DOMAIN f /\ f[x].safe = s /\ s # Wal!Nothing /\ Data(f)[x] = s
      BY <1>2 DEF Writing, Clean, Data
    <2>3. PICK c \in Wal!Between(s, op.is) :
             h = Wal!Put(f, x, [data |-> c, safe |-> s]) /\ (op.do = "write" => c # Wal!Nothing)
      <3>1. CASE op.do = "write"
        <4>1. PICK c \in Wal!Between(Wal!Nothing, op.is) \ {Wal!Nothing} :
                 h = Wal!Put(f, op.at, [data |-> c, safe |-> Wal!Nothing])
          BY <1>2, <3>1, PartialWritten
        <4> QED BY <3>1, <4>1
      <3>2. CASE op.do # "write"
        <4>1. PICK c \in Wal!Between(f[op.at].data, op.is) :
                 h = Wal!Put(f, op.at, [data |-> c, safe |-> f[op.at].safe])
          BY <1>2, <2>2, <3>2, PartialWritten
        <4> QED BY <2>2, <3>2, <4>1
      <3> QED BY <3>1, <3>2
    <2> HIDE DEF x, s
    <2>4. Wal!Size(Wal!Nothing) \in Nat
      BY DEF Wal!Size, Wal!Nothing, Wal!Content
    <2>5. op.is.of = "log" => Wal!Size(s) \in Nat
      BY <2>2, <2>4 DEF x, s
    <2>6. \A e \in Wal!Between(s, op.is) : e # Wal!Nothing => Wal!Put(Data(f), x, e) \in DataPartial(Data(f), op)
      BY <1>2, <2>2 DEF DataPartial, Writing, x, s
    <2>7. op.do # "write" => Wal!Put(Data(f), x, s) = Data(f)
      BY <2>2 DEF Wal!Put, Data
    <2>8. /\ DOMAIN h = DOMAIN f \union {x} /\ h[x] = [data |-> c, safe |-> s]
          /\ \A y \in DOMAIN f : y # x => h[y] = f[y]
      BY <2>3 DEF Wal!Put
    <2>9. \A y \in DOMAIN f : y # x => y \in DOMAIN g /\ g[y] = f[y]
      BY <2>8, PowerLeaves DEF Clean
    <2>10. DOMAIN g \subseteq DOMAIN f \union {x}
      BY <2>8, PowerLeaves
    <2>11. CASE x \notin DOMAIN g
      <3>1. x \notin DOMAIN f
        <4>1. CASE op.do = "write"
          BY <4>1 DEF x
        <4>2. CASE op.do # "write"
          <5>1. c # s /\ Wal!Nothing \in Wal!Between(s, c)
            BY <2>8, <2>11, PowerLeaves
          <5>2. Wal!Nothing \in Wal!Between(s, op.is)
            BY <2>1, <2>5, <5>1, BetweenBetween
          <5>3. FALSE
            BY <2>1, <2>2, <4>2, <5>2, BetweenSome
          <5> QED BY <5>3
        <4> QED BY <4>1, <4>2
      <3>2. DOMAIN g = DOMAIN f /\ \A y \in DOMAIN g : g[y] = f[y]
        BY <2>9, <2>10, <2>11, <3>1
      <3> QED BY <3>2 DEF DataPartial, Data, Clean, Paired
    <2>12. CASE x \in DOMAIN g
      <3>1. DOMAIN g = DOMAIN f \union {x}
        BY <2>9, <2>10, <2>12
      <3>2. \E e \in Wal!Between(s, op.is) : e # Wal!Nothing /\ g[x] = [data |-> e, safe |-> e]
        <4>1. CASE c = s
          <5>1. op.do # "write" /\ g[x] = [data |-> s, safe |-> s]
            BY <2>3, <2>8, <2>12, <4>1, PowerLeaves DEF s
          <5> QED BY <2>2, <2>3, <4>1, <5>1
        <4>2. CASE c # s
          <5>1. g[x] = h[x] \/ \E e \in Wal!Between(s, c) : e # Wal!Nothing /\ g[x] = [data |-> e, safe |-> e]
            BY <2>8, <2>12, <4>2, PowerLeaves
          <5>2. g[x] # h[x]
            BY <2>8, <2>12, <4>2, PowerLostSynced
          <5> QED BY <2>1, <2>5, <4>2, <5>1, <5>2, BetweenBetween
        <4> QED BY <4>1, <4>2
      <3>3. PICK e \in Wal!Between(s, op.is) : e # Wal!Nothing /\ g[x] = [data |-> e, safe |-> e]
        BY <3>2
      <3>4. Data(g) = Wal!Put(Data(f), x, e)
        BY <2>9, <3>1, <3>3 DEF Data, Wal!Put
      <3>5. Clean(g) /\ Paired(g)
        BY <2>9, <3>1, <3>3 DEF Clean, Paired
      <3> QED BY <2>6, <3>3, <3>4, <3>5
    <2> QED BY <2>11, <2>12
  <1> QED BY <1>1, <1>2

-----------------------------------------------------------------------------
(* Restarts: the files an interruption can leave *)

TailKept(d) ==
    "corrupt-tail" \in DOMAIN d => d["corrupt-tail"].t \in Nat /\ d["corrupt-tail"].t > 0

\* Nothing is on disk but perhaps a creation without a name and without a log.
Fresh(d) == DOMAIN d \subseteq {"open.json.tmp"}

\* The creation is written and the log is there; the creation has no name yet.
Laid(d) ==
    /\ DOMAIN d = {"open.json.tmp", "open.wal"}
    /\ ~Wal!Torn(d["open.json.tmp"]) /\ d["open.wal"] = Wal!Log(0, 0)

\* The log is open; its torn end may be set aside, its metadata may be prepared.
OpenFiles == {"open.json", "open.wal"}
Opened(d) ==
    /\ OpenFiles \subseteq DOMAIN d
    /\ DOMAIN d \subseteq OpenFiles \union {"corrupt-tail", "segment.json.tmp", "segment.json.incomplete"}
    /\ d["open.wal"] \in LogContent
    /\ "corrupt-tail" \in DOMAIN d =>
          /\ d["corrupt-tail"].t \in Nat
          /\ IF d["open.wal"].t > 0 THEN d["corrupt-tail"].t <= d["open.wal"].t
             ELSE d["corrupt-tail"].t > 0
    /\ "segment.json.tmp" \in DOMAIN d \/ "segment.json.incomplete" \in DOMAIN d =>
          d["open.wal"].t = 0 /\ d["open.wal"].n > 0
    /\ "segment.json.tmp" \in DOMAIN d => d["segment.json.tmp"].n = d["open.wal"].n
    /\ {"segment.json.tmp", "segment.json.incomplete"} \subseteq DOMAIN d =>
          d["segment.json.tmp"].of = "resealed"

\* The sealed log, described by its metadata.
SealedLog(d, meta) ==
    /\ {"sealed.wal", meta} \subseteq DOMAIN d
    /\ d["sealed.wal"] \in LogContent /\ d["sealed.wal"].t = 0 /\ d["sealed.wal"].n > 0
    /\ ~Wal!Torn(d[meta]) /\ d[meta].n = d["sealed.wal"].n
    /\ TailKept(d)

\* The log is sealed, and its metadata have no name yet.
SealedFiles == {"sealed.wal", "open.json", "corrupt-tail", "segment.json.incomplete"}
Prepared(d, o) ==
    /\ SealedLog(d, "segment.json.tmp")
    /\ DOMAIN d \subseteq SealedFiles \union {"segment.json.tmp"}
    /\ o = 0

\* The segment is sealed; what the catalog owns may be marked for collection.
Stored(d, o) ==
    /\ SealedLog(d, "segment.json")
    /\ DOMAIN d \subseteq SealedFiles \union {"segment.json", "gc.json.tmp", "gc.json"}
    /\ o \in {0, d["sealed.wal"].n}
    /\ "gc.json.tmp" \in DOMAIN d =>
          o > 0 /\ "gc.json" \notin DOMAIN d /\ d["gc.json.tmp"].of = "gc" /\ d["gc.json.tmp"].n = 0
    /\ "gc.json" \in DOMAIN d => o > 0

\* The collection has the log.
Emptied(d, o) ==
    /\ {"gc.wal", "gc.json"} \subseteq DOMAIN d
    /\ DOMAIN d \subseteq {"gc.wal", "gc.json", "segment.json", "open.json", "corrupt-tail",
                           "segment.json.incomplete"}
    /\ o > 0

\* The collection is over, or has nothing left to lose.
Gone(d, o) == NoLog(d) /\ o > 0

\* The segment is abandoned, and its creation kept beside the empty log.
Dropped(d) ==
    /\ "abandoned.wal" \in DOMAIN d /\ d["abandoned.wal"] = Wal!Log(0, 0) /\ TailKept(d)
    /\ DOMAIN d \ {"abandoned.wal", "corrupt-tail"} \in
          {{"open.json"}, {"open.json.tmp"}, {"abandoned.json"}, {"open.json.incomplete"},
           {"open.json.incomplete", "abandoned.json"}}
    /\ "open.json.tmp" \in DOMAIN d => ~Wal!Torn(d["open.json.tmp"])

\* A torn creation is kept, and nothing was logged.
Kept(d) == DOMAIN d = {"open.json.incomplete"}

Shape(d, o) ==
    \/ o = 0 /\ (Fresh(d) \/ Laid(d) \/ Opened(d) \/ Dropped(d) \/ Kept(d))
    \/ Prepared(d, o) \/ Stored(d, o) \/ Emptied(d, o) \/ Gone(d, o)

-----------------------------------------------------------------------------
(* Restarts: what is left to do fits the files *)

Creates(s, d) ==
    \/ s = <<NewTmp, NewLog, NameIt>> /\ DOMAIN d = {}
    \/ s = <<NewLog, NameIt>> /\ DOMAIN d = {"open.json.tmp"} /\ ~Wal!Torn(d["open.json.tmp"])
    \/ s = <<NameIt>> /\ Laid(d)

Appends(s, d) ==
    /\ Opened(d) /\ DOMAIN d = OpenFiles /\ d["open.wal"].t = 0
    /\ s = <<Wal!Frame(Wal!Log(d["open.wal"].n + 1, 0))>>

SealLog == Wal!Rename("open.wal", "sealed.wal")
NameMeta == Wal!Rename("segment.json.tmp", "segment.json")
EndOpen == Wal!Remove("open.json")
SetAside == Wal!Rename("segment.json.tmp", "segment.json.incomplete")

Sealable(d) == Opened(d) /\ d["open.wal"].t = 0 /\ d["open.wal"].n > 0
Meta(k, d) == Wal!Doc(k, d["open.wal"].n)

Describes(s, d) ==
    /\ Sealable(d) /\ "segment.json.tmp" \notin DOMAIN d
    /\ \E k \in {"sealed", "resealed"} :
          /\ "segment.json.incomplete" \in DOMAIN d => k = "resealed"
          /\ s = <<Wal!WriteNew("segment.json.tmp", Meta(k, d)), SealLog, NameMeta, EndOpen>>

DescribesOn(s, d) ==
    /\ Sealable(d) /\ {"segment.json.tmp", "segment.json.incomplete"} \subseteq DOMAIN d
    /\ s = <<Wal!Complete("segment.json.tmp", Meta("resealed", d)), SealLog, NameMeta, EndOpen>>

SetsAside(s, d) ==
    /\ Sealable(d) /\ "segment.json.tmp" \in DOMAIN d /\ "segment.json.incomplete" \notin DOMAIN d
    /\ s = <<SetAside>>

SealsLog(s, d) ==
    /\ Sealable(d) /\ "segment.json.tmp" \in DOMAIN d /\ ~Wal!Torn(d["segment.json.tmp"])
    /\ s = <<SealLog, NameMeta, EndOpen>>

Finishes(s, d, o) ==
    \/ Prepared(d, o) /\ s = <<NameMeta, EndOpen>>
    \/ (Stored(d, o) \/ Emptied(d, o)) /\ s = <<EndOpen>>

CutLog(d) == Wal!SetLen(Wal!Log(d["open.wal"].n, 0))
Tail0(d) == Wal!Bytes(d["open.wal"].t)

Quarantines(s, d) ==
    /\ Opened(d) /\ d["open.wal"].t > 0
    /\ \/ "corrupt-tail" \notin DOMAIN d /\ s = <<Wal!WriteNew("corrupt-tail", Tail0(d)), CutLog(d)>>
       \/ "corrupt-tail" \in DOMAIN d /\ s = <<Wal!Complete("corrupt-tail", Tail0(d)), CutLog(d)>>
       \/ "corrupt-tail" \in DOMAIN d /\ d["corrupt-tail"].t = d["open.wal"].t /\ s = <<CutLog(d)>>

KeepTorn == Wal!Rename("open.json.tmp", "open.json.incomplete")
DropLog == Wal!Rename("open.wal", "abandoned.wal")
NewDropped == Wal!WriteNew("abandoned.wal", Wal!Log(0, 0))
NewOrphan == Wal!WriteNew("abandoned.json", Wal!Orphan)
DropName(x) == Wal!Rename(x, "abandoned.json")

Discards(s, d) ==
    \/ DOMAIN d = {"open.json.tmp"} /\ s = <<KeepTorn, NewDropped, NewOrphan>>
    \/ Kept(d) /\ s = <<NewDropped, NewOrphan>>
    \/ /\ DOMAIN d = {"abandoned.wal", "open.json.incomplete"} /\ d["abandoned.wal"] = Wal!Log(0, 0)
       /\ s = <<NewOrphan>>
    \/ /\ DOMAIN d = {"open.json.tmp"} /\ ~Wal!Torn(d["open.json.tmp"])
       /\ s = <<NewDropped, DropName("open.json.tmp")>>
    \/ Laid(d) /\ s = <<DropLog, DropName("open.json.tmp")>>
    \/ Opened(d) /\ d["open.wal"] = Wal!Log(0, 0) /\ s = <<DropLog, DropName("open.json")>>
    \/ \E x \in {"open.json", "open.json.tmp"} : Dropped(d) /\ x \in DOMAIN d /\ s = <<DropName(x)>>

NameMark == Wal!Rename("gc.json.tmp", "gc.json")
TakeLog == Wal!Rename("sealed.wal", "gc.wal")
EndMeta == Wal!Remove("segment.json")
EndLog == Wal!Remove("gc.wal")
EndMark == Wal!Remove("gc.json")

Marks(s, d, o) ==
    /\ Stored(d, o) /\ o > 0 /\ "gc.json" \notin DOMAIN d
    /\ \/ /\ "gc.json.tmp" \notin DOMAIN d
          /\ s = <<Wal!WriteNew("gc.json.tmp", Wal!Marker), NameMark, TakeLog, EndMeta, EndLog, EndMark>>
       \/ /\ "gc.json.tmp" \in DOMAIN d
          /\ s = <<Wal!Complete("gc.json.tmp", Wal!Marker), NameMark, TakeLog, EndMeta, EndLog, EndMark>>
       \/ "gc.json.tmp" \in DOMAIN d /\ s = <<NameMark, TakeLog, EndMeta, EndLog, EndMark>>

Empties(s, d, o) ==
    \/ Stored(d, o) /\ "gc.json" \in DOMAIN d /\ s = <<TakeLog, EndMeta, EndLog, EndMark>>
    \/ Emptied(d, o) /\ s \in {<<EndMeta, EndLog, EndMark>>, <<EndLog, EndMark>>}

Collects(s, d, o) == Marks(s, d, o) \/ Empties(s, d, o)

Fits(s, d, o) ==
    \/ s = <<>>
    \/ o = 0 /\ (Creates(s, d) \/ Appends(s, d) \/ Describes(s, d) \/ DescribesOn(s, d)
                 \/ SetsAside(s, d) \/ SealsLog(s, d) \/ Quarantines(s, d) \/ Discards(s, d))
    \/ Finishes(s, d, o)
    \/ Collects(s, d, o)
    \/ Gone(d, o)

\* The operation can be performed, and finds what it continues.
Ready(d, op) ==
    /\ op.do = "write" => op.at \notin DOMAIN d
    /\ op.do \in {"rename", "complete", "append", "truncate"} => op.at \in DOMAIN d
    /\ op.do = "rename" => op.to \notin DOMAIN d
    /\ op.do \in {"append", "truncate"} => d[op.at] \in LogContent
    /\ op.do = "complete" =>
          IF op.is.of = "tail" THEN d[op.at].t <= op.is.t
          ELSE op.is.of # "log" /\ d[op.at].of = op.is.of /\ d[op.at].n = op.is.n

\* What the head of a list does, completed or interrupted.
OpStep(s, d, o) ==
    /\ ProperOp(Head(s)) /\ Ready(d, Head(s))
    /\ \A g \in DataPartial(d, Head(s)) : Shape(g, o)
    /\ Fits(Tail(s), DataResult(d, Head(s)), o)
    /\ Head(s) = NameIt => DOMAIN DataResult(d, Head(s)) = OpenFiles
    /\ Head(s).do = "append" => \A g \in DataPartial(d, Head(s)) : DOMAIN g = OpenFiles

-----------------------------------------------------------------------------
(* Restarts: what each operation leaves *)

IsFun(d) == d = [x \in DOMAIN d |-> d[x]]

\* g is d with the file x written anew.
Wrote(d, g, x) == DOMAIN g = DOMAIN d \union {x} /\ \A z \in DOMAIN d : z # x => g[z] = d[z]

LEMMA PutSame ==
  ASSUME NEW d, IsFun(d), NEW x \in DOMAIN d
  PROVE  Wal!Put(d, x, d[x]) = d
  BY DEF IsFun, Wal!Put

Renames(d, op, x, y) ==
    LET e == DataResult(d, op)
    IN /\ ProperOp(op) /\ op.do = "rename" /\ op.at = x /\ op.to = y
       /\ DataPartial(d, op) = {d, e}
       /\ DOMAIN e = (DOMAIN d \ {x}) \union {y} /\ e[y] = d[x]
       /\ \A z \in DOMAIN d : z # x /\ z # y => e[z] = d[z]

LEMMA RenameLeaves ==
  ASSUME NEW d, NEW x \in Wal!Names, NEW y \in Wal!Names, x # y
  PROVE  Renames(d, Wal!Rename(x, y), x, y)
  <1> DEFINE op == Wal!Rename(x, y)
             e == Wal!Put(Wal!Drop(d, x), y, d[x])
  <1>1. op.do = "rename" /\ op.at = x /\ op.to = y
    BY DEF Wal!Rename, Wal!Op
  <1>2. op \in FileOp
    BY OpsTyped, MarkersTyped DEF Wal!Rename
  <1>3. DataResult(d, op) = e /\ DataPartial(d, op) = {d, e}
    BY <1>1 DEF DataResult, DataPartial
  <1>4. ProperOp(op)
    BY <1>1, <1>2 DEF ProperOp, Writing
  <1>5. /\ DOMAIN e = (DOMAIN d \ {x}) \union {y} /\ e[y] = d[x]
        /\ \A z \in DOMAIN d : z # x /\ z # y => e[z] = d[z]
    BY DEF Wal!Put, Wal!Drop
  <1> QED BY <1>1, <1>3, <1>4, <1>5 DEF Renames

Removes(d, op, x) ==
    LET e == DataResult(d, op)
    IN /\ ProperOp(op) /\ op.do = "remove" /\ op.at = x
       /\ DataPartial(d, op) = {d, e}
       /\ DOMAIN e = DOMAIN d \ {x}
       /\ \A z \in DOMAIN d : z # x => e[z] = d[z]

LEMMA RemoveLeaves ==
  ASSUME NEW d, NEW x \in Wal!Names
  PROVE  Removes(d, Wal!Remove(x), x)
  <1> DEFINE op == Wal!Remove(x)
             e == Wal!Drop(d, x)
  <1>1. op.do = "remove" /\ op.at = x
    BY DEF Wal!Remove, Wal!Op
  <1>2. op \in FileOp
    BY OpsTyped, MarkersTyped
  <1>3. DataResult(d, op) = e /\ DataPartial(d, op) = {d, e}
    BY <1>1 DEF DataResult, DataPartial
  <1>4. ProperOp(op)
    BY <1>1, <1>2 DEF ProperOp, Writing
  <1>5. /\ DOMAIN e = DOMAIN d \ {x}
        /\ \A z \in DOMAIN d : z # x => e[z] = d[z]
    BY DropIs
  <1> QED BY <1>1, <1>3, <1>4, <1>5 DEF Removes

\* A document written, or completed, is whole or torn.
LEMMA BetweenDocs ==
  ASSUME NEW s, NEW k \in Kinds, k \notin {"log", "tail", "nothing"}, NEW n \in Nat
  PROVE  /\ Wal!Between(s, Wal!Doc(k, n)) = {s, Wal!Content(k, n, 0), Wal!Content(k, n, 1)}
         /\ Wal!Doc(k, n) = Wal!Content(k, n, 0) /\ Wal!Doc(k, n) \in Document
         /\ Wal!Nothing \notin {Wal!Content(k, n, 0), Wal!Content(k, n, 1)}
  <1>1. Wal!Doc(k, n) = [of |-> k, n |-> n, t |-> 0] /\ Wal!Content(k, n, 0) = [of |-> k, n |-> n, t |-> 0]
        /\ Wal!Content(k, n, 1) = [of |-> k, n |-> n, t |-> 1]
    BY DEF Wal!Doc, Wal!Content
  <1>2. [Wal!Doc(k, n) EXCEPT !.t = 1] = [of |-> k, n |-> n, t |-> 1]
    BY <1>1
  <1>3. Wal!Between(s, Wal!Doc(k, n)) = {s, Wal!Doc(k, n), [Wal!Doc(k, n) EXCEPT !.t = 1]}
    BY <1>1 DEF Wal!Between
  <1>4. Wal!Nothing \notin {Wal!Content(k, n, 0), Wal!Content(k, n, 1)}
    BY <1>1 DEF Wal!Nothing, Wal!Content
  <1>5. Wal!Doc(k, n) \in Document
    BY MarkersTyped
  <1> QED BY <1>1, <1>2, <1>3, <1>4, <1>5

WritesDoc(d, op, x, k, n) ==
    LET e == DataResult(d, op)
    IN /\ ProperOp(op) /\ op.do = "write" /\ op.at = x
       /\ Wrote(d, e, x) /\ e[x] = Wal!Content(k, n, 0) /\ e \in DataPartial(d, op)
       /\ \A g \in DataPartial(d, op) :
             g = d \/ (Wrote(d, g, x) /\ g[x] \in {Wal!Content(k, n, 0), Wal!Content(k, n, 1)})

LEMMA WriteLeaves ==
  ASSUME NEW d, NEW x \in Wal!Names, NEW k \in Kinds, k \notin {"log", "tail", "nothing"}, NEW n \in Nat
  PROVE  WritesDoc(d, Wal!WriteNew(x, Wal!Doc(k, n)), x, k, n)
  <1> DEFINE op == Wal!WriteNew(x, Wal!Doc(k, n))
             e(t) == Wal!Put(d, x, Wal!Content(k, n, t))
  <1>1. op.do = "write" /\ op.at = x /\ op.is = Wal!Doc(k, n)
    BY DEF Wal!WriteNew, Wal!Op
  <1>2. op \in FileOp
    BY OpsTyped, BetweenDocs
  <1>3. Wal!Between(Wal!Nothing, op.is) \ {Wal!Nothing} = {Wal!Content(k, n, 0), Wal!Content(k, n, 1)}
    BY <1>1, BetweenDocs
  <1>4. DataResult(d, op) = e(0)
    BY <1>1, BetweenDocs DEF DataResult
  <1>5. DataPartial(d, op) = {d, DataResult(d, op)} \union
           {Wal!Put(d, x, c) : c \in Wal!Between(Wal!Nothing, op.is) \ {Wal!Nothing}}
    BY <1>1 DEF DataPartial
  <1>6. DataPartial(d, op) = {d, e(0), e(1)}
    BY <1>3, <1>4, <1>5
  <1>7. ProperOp(op)
    BY <1>1, <1>2, BetweenDocs DEF ProperOp
  <1>8. /\ Wrote(d, e(0), x) /\ e(0)[x] = Wal!Content(k, n, 0)
        /\ Wrote(d, e(1), x) /\ e(1)[x] = Wal!Content(k, n, 1)
    BY DEF Wal!Put, Wrote
  <1> HIDE DEF e, op
  <1> QED BY <1>1, <1>4, <1>6, <1>7, <1>8 DEF WritesDoc, op

CompletesDoc(d, op, x, k, n) ==
    LET e == DataResult(d, op)
    IN /\ ProperOp(op) /\ op.do = "complete" /\ op.at = x /\ op.is.of = k /\ op.is.n = n
       /\ Wrote(d, e, x) /\ e[x] = Wal!Content(k, n, 0) /\ e \in DataPartial(d, op)
       /\ \A g \in DataPartial(d, op) :
             g = d \/ (Wrote(d, g, x) /\ g[x] \in {Wal!Content(k, n, 0), Wal!Content(k, n, 1)})

LEMMA CompleteLeaves ==
  ASSUME NEW d, IsFun(d), NEW x \in Wal!Names, x \in DOMAIN d,
         NEW k \in Kinds, k \notin {"log", "tail", "nothing"}, NEW n \in Nat
  PROVE  CompletesDoc(d, Wal!Complete(x, Wal!Doc(k, n)), x, k, n)
  <1> DEFINE op == Wal!Complete(x, Wal!Doc(k, n))
             e(t) == Wal!Put(d, x, Wal!Content(k, n, t))
  <1>1. op.do = "complete" /\ op.at = x /\ op.is = Wal!Doc(k, n)
    BY DEF Wal!Complete, Wal!Op
  <1>2. op \in FileOp
    BY OpsTyped, BetweenDocs
  <1>3. Wal!Between(d[x], op.is) = {d[x], Wal!Content(k, n, 0), Wal!Content(k, n, 1)}
    BY <1>1, BetweenDocs
  <1>4. DataResult(d, op) = e(0)
    BY <1>1, BetweenDocs DEF DataResult
  <1>5. DataPartial(d, op) = {d, DataResult(d, op)} \union {Wal!Put(d, x, c) : c \in Wal!Between(d[x], op.is)}
    BY <1>1 DEF DataPartial
  <1>6. Wal!Put(d, x, d[x]) = d
    BY PutSame
  <1>7. DataPartial(d, op) = {d, e(0), e(1)}
    BY <1>3, <1>4, <1>5, <1>6
  <1>8. ProperOp(op)
    BY <1>1, <1>2, BetweenDocs DEF ProperOp
  <1>9. /\ Wrote(d, e(0), x) /\ e(0)[x] = Wal!Content(k, n, 0)
        /\ Wrote(d, e(1), x) /\ e(1)[x] = Wal!Content(k, n, 1)
    BY DEF Wal!Put, Wrote
  <1>10. op.is.of = k /\ op.is.n = n
    BY <1>1 DEF Wal!Doc, Wal!Content
  <1> HIDE DEF e, op
  <1> QED BY <1>1, <1>4, <1>7, <1>8, <1>9, <1>10 DEF CompletesDoc, op

WritesBlank(d, op, x) ==
    LET e == DataResult(d, op)
    IN /\ ProperOp(op) /\ op.do = "write" /\ op.at = x
       /\ DataPartial(d, op) = {d, e} /\ Wrote(d, e, x) /\ e[x] = Wal!Log(0, 0)

LEMMA BlankLeaves ==
  ASSUME NEW d, NEW x \in Wal!Names
  PROVE  WritesBlank(d, Wal!WriteNew(x, Wal!Log(0, 0)), x)
  <1> DEFINE op == Wal!WriteNew(x, Wal!Log(0, 0))
             e == Wal!Put(d, x, Wal!Log(0, 0))
  <1>1. op.do = "write" /\ op.at = x /\ op.is = Wal!Log(0, 0)
    BY DEF Wal!WriteNew, Wal!Op
  <1>2. op \in FileOp /\ op.is # Wal!Nothing
    BY <1>1, OpsTyped, MarkersTyped, LogsDiffer
  <1>3. Wal!Between(Wal!Nothing, op.is) \ {Wal!Nothing} = {Wal!Log(0, 0)}
    <2>1. Wal!Log(0, 0) \in Wal!Between(Wal!Nothing, op.is)
      BY <1>1 DEF Wal!Between, Wal!Log, Wal!Content
    <2> QED BY <1>1, <1>2, <2>1, BetweenNothing
  <1>4. DataResult(d, op) = e
    BY <1>1 DEF DataResult
  <1>5. DataPartial(d, op) = {d, DataResult(d, op)} \union
           {Wal!Put(d, x, c) : c \in Wal!Between(Wal!Nothing, op.is) \ {Wal!Nothing}}
    BY <1>1 DEF DataPartial
  <1>6. DataPartial(d, op) = {d, e}
    BY <1>3, <1>4, <1>5
  <1>7. ProperOp(op)
    BY <1>1, <1>2 DEF ProperOp
  <1>8. Wrote(d, e, x) /\ e[x] = Wal!Log(0, 0)
    BY DEF Wal!Put, Wrote
  <1> QED BY <1>1, <1>4, <1>6, <1>7, <1>8 DEF WritesBlank

WritesFrame(d, op) ==
    /\ ProperOp(op) /\ op.do = "append" /\ op.at = "open.wal"
    /\ \A g \in DataPartial(d, op) : DOMAIN g = DOMAIN d /\ g["open.wal"] \in LogContent

LEMMA FrameLeaves ==
  ASSUME NEW d, IsFun(d), "open.wal" \in DOMAIN d, NEW n \in Nat, d["open.wal"] = Wal!Log(n, 0)
  PROVE  WritesFrame(d, Wal!Frame(Wal!Log(n + 1, 0)))
  <1> DEFINE op == Wal!Frame(Wal!Log(n + 1, 0))
  <1>1. op.do = "append" /\ op.at = "open.wal" /\ op.is = Wal!Log(n + 1, 0)
    BY DEF Wal!Frame, Wal!Op
  <1>2. /\ Wal!Log(n + 1, 0) \in LogContent /\ Wal!Log(n, 0) \in LogContent
        /\ Wal!Log(n + 1, 0).n = n + 1 /\ Wal!Log(n, 0).n = n /\ Wal!Log(n + 1, 0) # Wal!Nothing
    BY LogsDiffer
  <1>3. op \in FileOp
    BY OpsTyped, MarkersTyped DEF Wal!Names
  <1>4. \A c \in Wal!Between(d["open.wal"], op.is) : c \in LogContent
    BY <1>1, <1>2, BetweenLogs
  <1>5. DataResult(d, op) = Wal!Put(d, "open.wal", op.is)
    BY <1>1 DEF DataResult
  <1>6. DataPartial(d, op) = {d, DataResult(d, op)} \union
           {Wal!Put(d, "open.wal", c) : c \in Wal!Between(d["open.wal"], op.is)}
    BY <1>1 DEF DataPartial
  <1>7. ASSUME NEW g \in DataPartial(d, op)
        PROVE  DOMAIN g = DOMAIN d /\ g["open.wal"] \in LogContent
    <2>1. CASE g = d
      BY <1>2, <2>1
    <2>2. CASE g # d
      <3>1. PICK c \in LogContent : g = Wal!Put(d, "open.wal", c)
        BY <1>1, <1>2, <1>4, <1>5, <1>6, <2>2
      <3> QED BY <3>1 DEF Wal!Put
    <2> QED BY <2>1, <2>2
  <1>8. ProperOp(op)
    BY <1>1, <1>2, <1>3 DEF ProperOp
  <1> QED BY <1>1, <1>6, <1>7, <1>8 DEF WritesFrame

Cuts(d, op) ==
    LET e == DataResult(d, op)
    IN /\ ProperOp(op) /\ op.do = "truncate" /\ op.at = "open.wal"
       /\ DataPartial(d, op) = {d, e} /\ Wrote(d, e, "open.wal")
       /\ e["open.wal"] = Wal!Log(d["open.wal"].n, 0)

LEMMA CutLeaves ==
  ASSUME NEW d, IsFun(d), "open.wal" \in DOMAIN d, d["open.wal"] \in LogContent, d["open.wal"].t > 0
  PROVE  Cuts(d, CutLog(d))
  <1> DEFINE n == d["open.wal"].n
             op == CutLog(d)
             e == Wal!Put(d, "open.wal", Wal!Log(n, 0))
  <1>0. n \in Nat /\ d["open.wal"].t \in Nat
    BY DEF LogContent
  <1>1. op.do = "truncate" /\ op.at = "open.wal" /\ op.is = Wal!Log(n, 0)
    BY DEF CutLog, Wal!SetLen, Wal!Op
  <1>2. op \in FileOp /\ Wal!Log(n, 0) # Wal!Nothing /\ Wal!Log(n, 0).of = "log"
    BY <1>0, OpsTyped, MarkersTyped, LogsDiffer DEF Wal!Names, CutLog, LogContent
  <1>3. Wal!Size(d["open.wal"]) = 3 * n + d["open.wal"].t /\ Wal!Size(Wal!Log(n, 0)) = 3 * n
    BY <1>0 DEF Wal!Size, Wal!Log, Wal!Content
  <1>4. \A m \in 0 .. MaxRecords, t \in 0 .. 2 : Wal!Size(Wal!Log(m, t)) \in Nat
    BY WalAssumption DEF Wal!Size, Wal!Log, Wal!Content
  <1>5. Wal!Between(d["open.wal"], op.is) = {d["open.wal"], Wal!Log(n, 0)}
    <2>1. Wal!Between(d["open.wal"], op.is) = {d["open.wal"], Wal!Log(n, 0)} \union
             {c \in {Wal!Log(m, t) : m \in 0 .. MaxRecords, t \in 0 .. 2} :
                 Wal!Size(d["open.wal"]) <= Wal!Size(c) /\ Wal!Size(c) <= Wal!Size(Wal!Log(n, 0))}
      BY <1>1, <1>2 DEF Wal!Between
    <2>2. \A m \in 0 .. MaxRecords, t \in 0 .. 2 :
             ~(Wal!Size(d["open.wal"]) <= Wal!Size(Wal!Log(m, t))
               /\ Wal!Size(Wal!Log(m, t)) <= Wal!Size(Wal!Log(n, 0)))
      BY <1>0, <1>3, <1>4
    <2> QED BY <2>1, <2>2
  <1>6. DataResult(d, op) = e
    BY <1>1 DEF DataResult
  <1>7. DataPartial(d, op) = {d, DataResult(d, op)} \union
           {Wal!Put(d, "open.wal", c) : c \in Wal!Between(d["open.wal"], op.is)}
    BY <1>1 DEF DataPartial
  <1>8. Wal!Put(d, "open.wal", d["open.wal"]) = d
    BY PutSame
  <1>9. DataPartial(d, op) = {d, e}
    BY <1>5, <1>6, <1>7, <1>8
  <1>10. ProperOp(op)
    BY <1>1, <1>2 DEF ProperOp
  <1>11. Wrote(d, e, "open.wal") /\ e["open.wal"] = Wal!Log(n, 0)
    BY DEF Wal!Put, Wrote
  <1> QED BY <1>1, <1>6, <1>9, <1>10, <1>11 DEF Cuts

\* The bytes of a quarantined tail, all of them or the first ones.
WritesTail(d, op, m) ==
    LET e == DataResult(d, op)
    IN /\ ProperOp(op) /\ op.do \in {"write", "complete"} /\ op.at = "corrupt-tail"
       /\ op.is.of = "tail" /\ op.is.t = m
       /\ Wrote(d, e, "corrupt-tail") /\ e["corrupt-tail"].t = m
       /\ \A g \in DataPartial(d, op) :
             g = d \/ (Wrote(d, g, "corrupt-tail") /\ g["corrupt-tail"].t \in 0 .. m)

LEMMA TailLeaves ==
  ASSUME NEW d, IsFun(d), NEW m \in Nat, NEW op \in {Wal!WriteNew("corrupt-tail", Wal!Bytes(m)),
                                                     Wal!Complete("corrupt-tail", Wal!Bytes(m))},
         IF op.do = "write" THEN "corrupt-tail" \notin DOMAIN d
         ELSE "corrupt-tail" \in DOMAIN d /\ d["corrupt-tail"].t \in 0 .. m
  PROVE  WritesTail(d, op, m)
  <1> DEFINE x == "corrupt-tail"
             e == Wal!Put(d, x, Wal!Bytes(m))
             s == IF op.do = "write" THEN Wal!Nothing ELSE d[x]
  <1>1. op.do \in {"write", "complete"} /\ op.at = x /\ op.is = Wal!Bytes(m)
    BY DEF Wal!WriteNew, Wal!Complete, Wal!Op
  <1>2. op \in FileOp
    BY OpsTyped, MarkersTyped DEF Wal!Names
  <1>3. \A t : Wal!Bytes(t).of = "tail" /\ Wal!Bytes(t).t = t
    BY DEF Wal!Bytes, Wal!Content
  <1>4. Wal!Nothing.of = "nothing" /\ Wal!Nothing.t = 0
    BY DEF Wal!Nothing, Wal!Content
  <1>5. Wal!Between(s, op.is) = {s} \union {Wal!Bytes(t) : t \in s.t .. m}
    BY <1>1, <1>3 DEF Wal!Between
  <1>6. s.t \in 0 .. m
    BY <1>1, <1>4
  <1>7. DataResult(d, op) = e
    BY <1>1 DEF DataResult
  <1>8. \A g \in DataPartial(d, op) : g = d \/ \E c \in Wal!Between(s, op.is) \union {Wal!Bytes(m)} :
                                                  g = Wal!Put(d, x, c) /\ (op.do = "write" => c # Wal!Nothing)
    <2>0. Wal!Bytes(m) # Wal!Nothing
      BY <1>3, <1>4
    <2>1. CASE op.do = "write"
      BY <1>1, <1>7, <2>0, <2>1 DEF DataPartial
    <2>2. CASE op.do = "complete"
      BY <1>1, <1>7, <2>2 DEF DataPartial
    <2> QED BY <1>1, <2>1, <2>2
  <1>9. ASSUME NEW g \in DataPartial(d, op), g # d
        PROVE  Wrote(d, g, x) /\ g[x].t \in 0 .. m
    <2>1. PICK c \in Wal!Between(s, op.is) \union {Wal!Bytes(m)} :
             g = Wal!Put(d, x, c) /\ (op.do = "write" => c # Wal!Nothing)
      BY <1>8, <1>9
    <2>2. c.t \in 0 .. m
      <3>1. CASE c = s
        BY <1>6, <3>1
      <3>2. CASE c # s
        <4>1. PICK t \in 0 .. m : c = Wal!Bytes(t)
          BY <1>5, <1>6, <2>1, <3>2
        <4> QED BY <1>3, <4>1
      <3> QED BY <3>1, <3>2
    <2> QED BY <2>1, <2>2 DEF Wal!Put, Wrote
  <1>10. ProperOp(op)
    BY <1>1, <1>2, <1>3, <1>4 DEF ProperOp
  <1>11. Wrote(d, e, x) /\ e[x] = Wal!Bytes(m)
    BY DEF Wal!Put, Wrote
  <1>12. op.is.of = "tail" /\ op.is.t = m /\ e[x].t = m
    BY <1>1, <1>3, <1>11
  <1> HIDE DEF s
  <1> QED BY <1>1, <1>7, <1>9, <1>10, <1>11, <1>12 DEF WritesTail

-----------------------------------------------------------------------------
(* Restarts: every operation left to do keeps the files recoverable *)

LEMMA TornContent ==
  \A k, n : /\ ~Wal!Torn(Wal!Content(k, n, 0)) /\ Wal!Content(k, n, 0).n = n /\ Wal!Content(k, n, 0).of = k
            /\ Wal!Content(k, n, 1).n = n /\ Wal!Content(k, n, 1).of = k
  BY DEF Wal!Torn, Wal!Content

\* Only the creation and the append of a frame leave the segment open.
LEMMA OthersDiffer ==
  ASSUME NEW op, op.do \in {"write", "complete", "remove", "truncate"} \/ op.to # "open.json"
  PROVE  op # NameIt
  BY DEF NameIt, Wal!Rename, Wal!Op

LEMMA CreatesStep ==
  ASSUME NEW s, NEW d, IsFun(d), NEW o, o = 0, Creates(s, d)
  PROVE  OpStep(s, d, o)
  <1>1. CASE s = <<NewTmp, NewLog, NameIt>> /\ DOMAIN d = {}
    <2> DEFINE e == DataResult(d, NewTmp)
    <2>1. Head(s) = NewTmp /\ Tail(s) = <<NewLog, NameIt>>
      BY <1>1
    <2>2. NewTmp = Wal!WriteNew("open.json.tmp", Wal!Doc("created", 0))
      BY DEF NewTmp, Wal!Creation
    <2>3. WritesDoc(d, NewTmp, "open.json.tmp", "created", 0)
      BY <2>2, WriteLeaves DEF Wal!Names, Kinds
    <2>4. ProperOp(NewTmp) /\ Ready(d, NewTmp)
      BY <1>1, <2>3 DEF Ready, WritesDoc
    <2>5. \A g \in DataPartial(d, NewTmp) : Shape(g, o)
      BY <1>1, <2>3 DEF Shape, Fresh, WritesDoc, Wrote
    <2>6. DOMAIN e = {"open.json.tmp"} /\ ~Wal!Torn(e["open.json.tmp"])
      BY <1>1, <2>3, TornContent DEF WritesDoc, Wrote
    <2>7. Fits(<<NewLog, NameIt>>, e, o)
      BY <2>6 DEF Fits, Creates
    <2>8. NewTmp # NameIt /\ NewTmp.do = "write"
      BY <2>3, OthersDiffer DEF WritesDoc
    <2> QED BY <2>1, <2>4, <2>5, <2>7, <2>8 DEF OpStep
  <1>2. CASE s = <<NewLog, NameIt>> /\ DOMAIN d = {"open.json.tmp"} /\ ~Wal!Torn(d["open.json.tmp"])
    <2> DEFINE e == DataResult(d, NewLog)
    <2>1. Head(s) = NewLog /\ Tail(s) = <<NameIt>>
      BY <1>2
    <2>2. WritesBlank(d, NewLog, "open.wal")
      BY BlankLeaves DEF Wal!Names, NewLog
    <2>3. ProperOp(NewLog) /\ Ready(d, NewLog)
      BY <1>2, <2>2 DEF Ready, WritesBlank
    <2>4. Laid(e)
      BY <1>2, <2>2 DEF Laid, WritesBlank, Wrote
    <2>5. \A g \in DataPartial(d, NewLog) : Shape(g, o)
      BY <1>2, <2>2, <2>4 DEF Shape, Fresh, WritesBlank
    <2>6. Fits(<<NameIt>>, e, o)
      BY <2>4 DEF Fits, Creates
    <2>7. NewLog # NameIt /\ NewLog.do = "write"
      BY <2>2, OthersDiffer DEF WritesBlank
    <2> QED BY <2>1, <2>3, <2>5, <2>6, <2>7 DEF OpStep
  <1>3. CASE s = <<NameIt>> /\ Laid(d)
    <2> DEFINE e == DataResult(d, NameIt)
    <2>1. Head(s) = NameIt /\ Tail(s) = <<>>
      BY <1>3
    <2>2. Renames(d, NameIt, "open.json.tmp", "open.json")
      BY RenameLeaves DEF Wal!Names, NameIt
    <2>3. ProperOp(NameIt) /\ Ready(d, NameIt)
      BY <1>3, <2>2 DEF Ready, Laid, Renames
    <2>4. DOMAIN e = OpenFiles /\ e["open.wal"] = Wal!Log(0, 0)
      BY <1>3, <2>2 DEF Laid, OpenFiles, Renames
    <2>5. Opened(e)
      BY <2>4, LogsDiffer DEF Opened, OpenFiles
    <2>6. \A g \in DataPartial(d, NameIt) : Shape(g, o)
      BY <1>3, <2>2, <2>5 DEF Shape, Renames
    <2>7. Fits(<<>>, e, o) /\ NameIt.do = "rename"
      BY <2>2 DEF Fits, Renames
    <2> QED BY <2>1, <2>3, <2>4, <2>6, <2>7 DEF OpStep
  <1> QED BY <1>1, <1>2, <1>3 DEF Creates

LEMMA AppendsStep ==
  ASSUME NEW s, NEW d, IsFun(d), NEW o, o = 0, Appends(s, d)
  PROVE  OpStep(s, d, o)
  <1> DEFINE n == d["open.wal"].n
             op == Wal!Frame(Wal!Log(n + 1, 0))
  <1>1. /\ Opened(d) /\ DOMAIN d = OpenFiles /\ d["open.wal"] \in LogContent /\ d["open.wal"].t = 0
        /\ s = <<op>> /\ "open.wal" \in DOMAIN d
    BY DEF Appends, Opened, OpenFiles
  <1>2. n \in Nat /\ d["open.wal"] = Wal!Log(n, 0)
    BY <1>1 DEF LogContent, Wal!Log, Wal!Content
  <1>3. WritesFrame(d, op)
    BY <1>1, <1>2, FrameLeaves
  <1>4. Head(s) = op /\ Tail(s) = <<>>
    BY <1>1
  <1> HIDE DEF op, n
  <1>5. ProperOp(op) /\ Ready(d, op)
    BY <1>1, <1>3 DEF Ready, WritesFrame
  <1>6. \A g \in DataPartial(d, op) : Opened(g) /\ DOMAIN g = OpenFiles
    BY <1>1, <1>3 DEF Opened, OpenFiles, WritesFrame
  <1>7. \A g \in DataPartial(d, op) : Shape(g, o)
    BY <1>6 DEF Shape
  <1>8. Fits(<<>>, DataResult(d, op), o)
    BY DEF Fits
  <1>9. op # NameIt
    BY <1>3 DEF NameIt, Wal!Rename, Wal!Op, WritesFrame
  <1> QED BY <1>4, <1>5, <1>6, <1>7, <1>8, <1>9 DEF OpStep

\* The metadata are written, or completed, beside the log that they describe.
LEMMA MetaWritten ==
  ASSUME NEW d, Sealable(d), NEW k \in {"sealed", "resealed"}, NEW g, Wrote(d, g, "segment.json.tmp"),
         "segment.json.incomplete" \in DOMAIN d => k = "resealed",
         g["segment.json.tmp"] \in {Wal!Content(k, d["open.wal"].n, 0), Wal!Content(k, d["open.wal"].n, 1)}
  PROVE  Sealable(g) /\ "segment.json.tmp" \in DOMAIN g /\ g["open.wal"] = d["open.wal"]
  <1>1. g["segment.json.tmp"].n = d["open.wal"].n /\ g["segment.json.tmp"].of = k
    BY TornContent
  <1>2. /\ DOMAIN g = DOMAIN d \union {"segment.json.tmp"} /\ g["open.wal"] = d["open.wal"]
        /\ "corrupt-tail" \in DOMAIN d => g["corrupt-tail"] = d["corrupt-tail"]
    BY DEF Wrote, Sealable, Opened, OpenFiles
  <1> QED BY <1>1, <1>2 DEF Sealable, Opened, OpenFiles

LEMMA DescribesStep ==
  ASSUME NEW s, NEW d, IsFun(d), NEW o, o = 0, Describes(s, d) \/ DescribesOn(s, d)
  PROVE  OpStep(s, d, o)
  <1> DEFINE x == "segment.json.tmp"
             n == d["open.wal"].n
             op == Head(s)
  <1>1. Sealable(d) /\ n \in Nat
    BY DEF Describes, DescribesOn, Sealable, Opened, LogContent
  <1>2. PICK k \in {"sealed", "resealed"} :
           /\ "segment.json.incomplete" \in DOMAIN d => k = "resealed"
           /\ s = <<op, SealLog, NameMeta, EndOpen>>
           /\ \/ op = Wal!WriteNew(x, Wal!Doc(k, n)) /\ x \notin DOMAIN d
              \/ /\ op = Wal!Complete(x, Wal!Doc(k, n)) /\ x \in DOMAIN d
                 /\ "segment.json.incomplete" \in DOMAIN d
    BY DEF Describes, DescribesOn, Meta
  <1>3. k \in Kinds /\ k \notin {"log", "tail", "nothing"} /\ x \in Wal!Names
    BY DEF Kinds, Wal!Names
  <1>4. WritesDoc(d, op, x, k, n) \/ (CompletesDoc(d, op, x, k, n) /\ d[x].of = k /\ d[x].n = n)
    <2>1. CASE op = Wal!WriteNew(x, Wal!Doc(k, n))
      BY <1>1, <1>3, <2>1, WriteLeaves
    <2>2. CASE op = Wal!Complete(x, Wal!Doc(k, n)) /\ x \in DOMAIN d /\ "segment.json.incomplete" \in DOMAIN d
      <3>1. CompletesDoc(d, op, x, k, n)
        BY <1>1, <1>3, <2>2, CompleteLeaves
      <3>2. d[x].of = k /\ d[x].n = n
        BY <1>1, <1>2, <2>2 DEF Sealable, Opened
      <3> QED BY <3>1, <3>2
    <2> QED BY <1>2, <2>1, <2>2
  <1> DEFINE e == DataResult(d, op)
  <1> HIDE DEF n, e, op
  <1>5. Tail(s) = <<SealLog, NameMeta, EndOpen>>
    BY <1>2
  <1>6. ProperOp(op) /\ Ready(d, op) /\ op.do \in {"write", "complete"} /\ op # NameIt
    <2>1. CASE WritesDoc(d, op, x, k, n)
      <3>1. ProperOp(op) /\ op.do = "write" /\ op.at = x
        BY <2>1 DEF WritesDoc
      <3>2. op = Wal!WriteNew(x, Wal!Doc(k, n))
        BY <1>2, <3>1 DEF Wal!Complete, Wal!Op
      <3>3. x \notin DOMAIN d
        BY <1>2, <3>1 DEF Wal!Complete, Wal!Op
      <3> QED BY <3>1, <3>3, OthersDiffer DEF Ready
    <2>2. CASE CompletesDoc(d, op, x, k, n) /\ d[x].of = k /\ d[x].n = n
      <3>1. ProperOp(op) /\ op.do = "complete" /\ op.at = x /\ op.is.of = k /\ op.is.n = n
        BY <2>2 DEF CompletesDoc
      <3>2. x \in DOMAIN d
        BY <1>2, <3>1 DEF Wal!WriteNew, Wal!Op
      <3> QED BY <2>2, <3>1, <3>2, OthersDiffer DEF Ready
    <2> QED BY <1>4, <2>1, <2>2
  <1>7. /\ Wrote(d, e, x) /\ e[x] = Wal!Content(k, n, 0)
        /\ \A g \in DataPartial(d, op) :
              g = d \/ (Wrote(d, g, x) /\ g[x] \in {Wal!Content(k, n, 0), Wal!Content(k, n, 1)})
    BY <1>4 DEF WritesDoc, CompletesDoc, e
  <1>8. \A g \in DataPartial(d, op) : Sealable(g)
    BY <1>1, <1>2, <1>7, MetaWritten DEF n
  <1>9. \A g \in DataPartial(d, op) : Shape(g, o)
    BY <1>8 DEF Shape, Sealable
  <1>10. Sealable(e) /\ x \in DOMAIN e /\ ~Wal!Torn(e[x])
    BY <1>1, <1>2, <1>7, MetaWritten, TornContent DEF n
  <1>11. Fits(<<SealLog, NameMeta, EndOpen>>, e, o)
    BY <1>10 DEF Fits, SealsLog
  <1> QED BY <1>5, <1>6, <1>9, <1>11 DEF OpStep, e, op

LEMMA SetsAsideStep ==
  ASSUME NEW s, NEW d, IsFun(d), NEW o, o = 0, SetsAside(s, d)
  PROVE  OpStep(s, d, o)
  <1> DEFINE e == DataResult(d, SetAside)
  <1>1. /\ Head(s) = SetAside /\ Tail(s) = <<>> /\ Sealable(d)
        /\ "segment.json.tmp" \in DOMAIN d /\ "segment.json.incomplete" \notin DOMAIN d
    BY DEF SetsAside
  <1>2. Renames(d, SetAside, "segment.json.tmp", "segment.json.incomplete")
    BY RenameLeaves DEF Wal!Names, SetAside
  <1>3. /\ ProperOp(SetAside) /\ Ready(d, SetAside) /\ SetAside.do = "rename" /\ SetAside.to # "open.json"
    BY <1>1, <1>2 DEF Renames, Ready
  <1>4. /\ DOMAIN e = (DOMAIN d \ {"segment.json.tmp"}) \union {"segment.json.incomplete"}
        /\ "open.wal" \in DOMAIN d /\ e["open.wal"] = d["open.wal"]
        /\ "corrupt-tail" \in DOMAIN d => e["corrupt-tail"] = d["corrupt-tail"]
        /\ DataPartial(d, SetAside) = {d, e}
    BY <1>1, <1>2 DEF Renames, Sealable, Opened, OpenFiles
  <1> HIDE DEF e
  <1>5. Sealable(e)
    BY <1>1, <1>4 DEF Sealable, Opened, OpenFiles
  <1>6. \A g \in DataPartial(d, SetAside) : Shape(g, o)
    BY <1>1, <1>4, <1>5 DEF Shape, Sealable
  <1>7. Fits(<<>>, e, o)
    BY DEF Fits
  <1> QED BY <1>1, <1>3, <1>6, <1>7, OthersDiffer DEF OpStep, e

LEMMA SealsLogStep ==
  ASSUME NEW s, NEW d, IsFun(d), NEW o, o = 0, SealsLog(s, d)
  PROVE  OpStep(s, d, o)
  <1> DEFINE e == DataResult(d, SealLog)
  <1>1. /\ Head(s) = SealLog /\ Tail(s) = <<NameMeta, EndOpen>> /\ Sealable(d)
        /\ "segment.json.tmp" \in DOMAIN d /\ ~Wal!Torn(d["segment.json.tmp"])
    BY DEF SealsLog
  <1>2. Renames(d, SealLog, "open.wal", "sealed.wal")
    BY RenameLeaves DEF Wal!Names, SealLog
  <1>3. ProperOp(SealLog) /\ Ready(d, SealLog) /\ SealLog.do = "rename" /\ SealLog.to # "open.json"
    BY <1>1, <1>2 DEF Renames, Ready, Sealable, Opened, OpenFiles
  <1>4. /\ DOMAIN e = (DOMAIN d \ {"open.wal"}) \union {"sealed.wal"} /\ e["sealed.wal"] = d["open.wal"]
        /\ "corrupt-tail" \in DOMAIN d => e["corrupt-tail"] = d["corrupt-tail"]
        /\ e["segment.json.tmp"] = d["segment.json.tmp"]
        /\ DataPartial(d, SealLog) = {d, e}
    BY <1>1, <1>2 DEF Renames
  <1> HIDE DEF e
  <1>5. TailKept(e)
    BY <1>1, <1>4 DEF TailKept, Sealable, Opened
  <1>6. SealedLog(e, "segment.json.tmp")
    BY <1>1, <1>4, <1>5 DEF SealedLog, Sealable, Opened
  <1>7. Prepared(e, o)
    BY <1>1, <1>4, <1>6 DEF Prepared, SealedFiles, Sealable, Opened, OpenFiles
  <1>8. \A g \in DataPartial(d, SealLog) : Shape(g, o)
    BY <1>1, <1>4, <1>7 DEF Shape, Sealable
  <1>9. Fits(<<NameMeta, EndOpen>>, e, o)
    BY <1>7 DEF Fits, Finishes
  <1> QED BY <1>1, <1>3, <1>8, <1>9, OthersDiffer DEF OpStep, e

\* Without the creation a sealed segment is what it was.
LEMMA EndOpenKeeps ==
  ASSUME NEW d, NEW o, NEW e, DOMAIN e = DOMAIN d \ {"open.json"},
         \A z \in DOMAIN d : z # "open.json" => e[z] = d[z]
  PROVE  /\ Stored(d, o) => Stored(e, o)
         /\ Emptied(d, o) => Emptied(e, o)
         /\ Gone(d, o) => Gone(e, o)
  <1>1. ASSUME Stored(d, o) PROVE Stored(e, o)
    <2>1. {"sealed.wal", "segment.json"} \subseteq DOMAIN d
      BY <1>1 DEF Stored, SealedLog
    <2>2. /\ e["sealed.wal"] = d["sealed.wal"] /\ e["segment.json"] = d["segment.json"]
          /\ "corrupt-tail" \in DOMAIN d => e["corrupt-tail"] = d["corrupt-tail"]
          /\ "gc.json.tmp" \in DOMAIN d => e["gc.json.tmp"] = d["gc.json.tmp"]
      BY <2>1
    <2>3. SealedLog(e, "segment.json")
      BY <1>1, <2>1, <2>2 DEF Stored, SealedLog, TailKept
    <2> QED BY <1>1, <2>1, <2>2, <2>3 DEF Stored
  <1>2. Emptied(d, o) => Emptied(e, o)
    BY DEF Emptied
  <1>3. Gone(d, o) => Gone(e, o)
    BY DEF Gone, NoLog
  <1> QED BY <1>1, <1>2, <1>3

LEMMA FinishesStep ==
  ASSUME NEW s, NEW d, IsFun(d), NEW o, Finishes(s, d, o)
  PROVE  OpStep(s, d, o)
  <1>1. CASE Prepared(d, o) /\ s = <<NameMeta, EndOpen>>
    <2> DEFINE e == DataResult(d, NameMeta)
    <2>1. Head(s) = NameMeta /\ Tail(s) = <<EndOpen>> /\ SealedLog(d, "segment.json.tmp")
      BY <1>1 DEF Prepared
    <2>2. Renames(d, NameMeta, "segment.json.tmp", "segment.json")
      BY RenameLeaves DEF Wal!Names, NameMeta
    <2>3. ProperOp(NameMeta) /\ Ready(d, NameMeta) /\ NameMeta.do = "rename" /\ NameMeta.to # "open.json"
      BY <1>1, <2>1, <2>2 DEF Renames, Ready, Prepared, SealedLog, SealedFiles
    <2>4. /\ DOMAIN e = (DOMAIN d \ {"segment.json.tmp"}) \union {"segment.json"}
          /\ e["segment.json"] = d["segment.json.tmp"] /\ e["sealed.wal"] = d["sealed.wal"]
          /\ "corrupt-tail" \in DOMAIN d => e["corrupt-tail"] = d["corrupt-tail"]
          /\ DataPartial(d, NameMeta) = {d, e}
      BY <2>1, <2>2 DEF Renames, SealedLog
    <2> HIDE DEF e
    <2>5. SealedLog(e, "segment.json")
      BY <2>1, <2>4 DEF SealedLog, TailKept
    <2>6. Stored(e, o)
      BY <1>1, <2>4, <2>5 DEF Prepared, Stored, SealedFiles
    <2>7. \A g \in DataPartial(d, NameMeta) : Shape(g, o)
      BY <1>1, <2>4, <2>6 DEF Shape
    <2>8. Fits(<<EndOpen>>, e, o)
      BY <2>6 DEF Fits, Finishes
    <2> QED BY <2>1, <2>3, <2>7, <2>8, OthersDiffer DEF OpStep, e
  <1>2. CASE (Stored(d, o) \/ Emptied(d, o)) /\ s = <<EndOpen>>
    <2> DEFINE e == DataResult(d, EndOpen)
    <2>1. Head(s) = EndOpen /\ Tail(s) = <<>>
      BY <1>2
    <2>2. Removes(d, EndOpen, "open.json")
      BY RemoveLeaves DEF Wal!Names, EndOpen
    <2>3. ProperOp(EndOpen) /\ Ready(d, EndOpen) /\ EndOpen.do = "remove"
      BY <2>2 DEF Removes, Ready
    <2>4. /\ DOMAIN e = DOMAIN d \ {"open.json"} /\ DataPartial(d, EndOpen) = {d, e}
          /\ \A z \in DOMAIN d : z # "open.json" => e[z] = d[z]
      BY <2>2 DEF Removes
    <2> HIDE DEF e
    <2>5. Stored(e, o) \/ Emptied(e, o)
      BY <1>2, <2>4, EndOpenKeeps
    <2>6. \A g \in DataPartial(d, EndOpen) : Shape(g, o)
      BY <1>2, <2>4, <2>5 DEF Shape
    <2>7. Fits(<<>>, e, o)
      BY DEF Fits
    <2> QED BY <2>1, <2>3, <2>6, <2>7, OthersDiffer DEF OpStep, e
  <1> QED BY <1>1, <1>2 DEF Finishes

LEMMA QuarantinesStep ==
  ASSUME NEW s, NEW d, IsFun(d), NEW o, o = 0, Quarantines(s, d)
  PROVE  OpStep(s, d, o)
  <1> DEFINE log == d["open.wal"]
             x == "corrupt-tail"
  <1>1. /\ Opened(d) /\ "open.wal" \in DOMAIN d /\ log \in LogContent /\ log.n \in Nat /\ log.t \in Nat /\ log.t > 0
        /\ "segment.json.tmp" \notin DOMAIN d /\ "segment.json.incomplete" \notin DOMAIN d
    BY DEF Quarantines, Opened, OpenFiles, LogContent
  <1>2. ASSUME NEW g, Wrote(d, g, x), g[x].t \in 0 .. log.t
        PROVE  Opened(g) /\ g["open.wal"] = log
    <2>1. DOMAIN g = DOMAIN d \union {x} /\ g["open.wal"] = log
      BY <1>1, <1>2 DEF Wrote
    <2> QED BY <1>1, <1>2, <2>1 DEF Opened, OpenFiles
  <1>3. ASSUME NEW op \in {Wal!WriteNew(x, Tail0(d)), Wal!Complete(x, Tail0(d))},
               s = <<op, CutLog(d)>>,
               IF op.do = "write" THEN x \notin DOMAIN d ELSE x \in DOMAIN d
        PROVE  OpStep(s, d, o)
    <2> DEFINE e == DataResult(d, op)
    <2>1. Head(s) = op /\ Tail(s) = <<CutLog(d)>>
      BY <1>3
    <2>2. x \in DOMAIN d => d[x].t \in 0 .. log.t
      BY <1>1 DEF Opened
    <2>3. WritesTail(d, op, log.t)
      BY <1>1, <1>3, <2>2, TailLeaves DEF Tail0
    <2>4. ProperOp(op) /\ Ready(d, op) /\ op.do \in {"write", "complete"}
      BY <1>1, <1>3, <2>2, <2>3 DEF WritesTail, Ready
    <2>5. \A g \in DataPartial(d, op) : Opened(g)
      BY <1>1, <1>2, <2>3 DEF WritesTail
    <2>6. Wrote(d, e, x) /\ e[x].t = log.t
      BY <2>3 DEF WritesTail
    <2> HIDE DEF e
    <2>7. Opened(e) /\ e["open.wal"] = log /\ x \in DOMAIN e
      BY <1>1, <1>2, <2>6 DEF Wrote
    <2>8. CutLog(d) = CutLog(e)
      BY <2>7 DEF CutLog
    <2>9. Quarantines(<<CutLog(d)>>, e)
      BY <1>1, <2>6, <2>7, <2>8 DEF Quarantines
    <2>10. Fits(<<CutLog(d)>>, e, o)
      BY <2>9 DEF Fits
    <2>11. \A g \in DataPartial(d, op) : Shape(g, o)
      BY <2>5 DEF Shape
    <2> QED BY <2>1, <2>4, <2>10, <2>11, OthersDiffer DEF OpStep, e
  <1>4. CASE x \in DOMAIN d /\ d[x].t = log.t /\ s = <<CutLog(d)>>
    <2> DEFINE op == CutLog(d)
               e == DataResult(d, op)
    <2>1. Head(s) = op /\ Tail(s) = <<>>
      BY <1>4
    <2>2. Cuts(d, op)
      BY <1>1, CutLeaves
    <2>3. ProperOp(op) /\ Ready(d, op) /\ op.do = "truncate"
      BY <1>1, <2>2 DEF Cuts, Ready
    <2>4. /\ DOMAIN e = DOMAIN d /\ e["open.wal"] = Wal!Log(log.n, 0) /\ e[x] = d[x]
          /\ DataPartial(d, op) = {d, e}
      BY <1>1, <1>4, <2>2 DEF Cuts, Wrote
    <2> HIDE DEF e, op
    <2>5. e["open.wal"] \in LogContent /\ e["open.wal"].t = 0
      <3>1. e["open.wal"] = [of |-> "log", n |-> log.n, t |-> 0]
        BY <2>4 DEF Wal!Log, Wal!Content
      <3> QED BY <1>1, <3>1 DEF LogContent
    <2>6. Opened(e)
      BY <1>1, <1>4, <2>4, <2>5 DEF Opened, OpenFiles
    <2>7. \A g \in DataPartial(d, op) : Shape(g, o)
      BY <1>1, <2>4, <2>6 DEF Shape
    <2>8. Fits(<<>>, e, o)
      BY DEF Fits
    <2> QED BY <2>1, <2>3, <2>7, <2>8, OthersDiffer DEF OpStep, e
  <1>5. /\ Wal!WriteNew(x, Tail0(d)).do = "write" /\ Wal!Complete(x, Tail0(d)).do = "complete"
    BY DEF Wal!WriteNew, Wal!Complete, Wal!Op
  <1>6. CASE x \notin DOMAIN d /\ s = <<Wal!WriteNew(x, Tail0(d)), CutLog(d)>>
    BY <1>3, <1>5, <1>6
  <1>7. CASE x \in DOMAIN d /\ s = <<Wal!Complete(x, Tail0(d)), CutLog(d)>>
    BY <1>3, <1>5, <1>7
  <1> QED BY <1>4, <1>6, <1>7 DEF Quarantines

LEMMA DiscardsStep ==
  ASSUME NEW s, NEW d, IsFun(d), NEW o, o = 0, Discards(s, d)
  PROVE  OpStep(s, d, o)
  <1>1. CASE DOMAIN d = {"open.json.tmp"} /\ s = <<KeepTorn, NewDropped, NewOrphan>>
    <2> DEFINE e == DataResult(d, KeepTorn)
    <2>1. Head(s) = KeepTorn /\ Tail(s) = <<NewDropped, NewOrphan>>
      BY <1>1
    <2>2. Renames(d, KeepTorn, "open.json.tmp", "open.json.incomplete")
      BY RenameLeaves DEF Wal!Names, KeepTorn
    <2>3. ProperOp(KeepTorn) /\ Ready(d, KeepTorn) /\ KeepTorn.do = "rename" /\ KeepTorn.to # "open.json"
      BY <1>1, <2>2 DEF Renames, Ready
    <2>4. Kept(e) /\ DataPartial(d, KeepTorn) = {d, e}
      BY <1>1, <2>2 DEF Renames, Kept
    <2> HIDE DEF e
    <2>5. \A g \in DataPartial(d, KeepTorn) : Shape(g, o)
      BY <1>1, <2>4 DEF Shape, Fresh
    <2>6. Fits(<<NewDropped, NewOrphan>>, e, o)
      BY <2>4 DEF Fits, Discards
    <2> QED BY <2>1, <2>3, <2>5, <2>6, OthersDiffer DEF OpStep, e
  <1>2. CASE /\ DOMAIN d \in {{"open.json.tmp"}, {"open.json.incomplete"}}
             /\ \/ Kept(d) /\ s = <<NewDropped, NewOrphan>>
                \/ /\ DOMAIN d = {"open.json.tmp"} /\ ~Wal!Torn(d["open.json.tmp"])
                   /\ s = <<NewDropped, DropName("open.json.tmp")>>
    <2> DEFINE e == DataResult(d, NewDropped)
    <2>1. /\ Head(s) = NewDropped
          /\ \/ Kept(d) /\ Tail(s) = <<NewOrphan>>
             \/ /\ DOMAIN d = {"open.json.tmp"} /\ ~Wal!Torn(d["open.json.tmp"])
                /\ Tail(s) = <<DropName("open.json.tmp")>>
      <3>1. CASE Kept(d) /\ s = <<NewDropped, NewOrphan>>
        BY <3>1
      <3>2. CASE /\ DOMAIN d = {"open.json.tmp"} /\ ~Wal!Torn(d["open.json.tmp"])
                 /\ s = <<NewDropped, DropName("open.json.tmp")>>
        BY <3>2
      <3> QED BY <1>2, <3>1, <3>2
    <2>2. WritesBlank(d, NewDropped, "abandoned.wal")
      BY BlankLeaves DEF Wal!Names, NewDropped
    <2>3. ProperOp(NewDropped) /\ Ready(d, NewDropped) /\ NewDropped.do = "write"
      BY <1>2, <2>2 DEF WritesBlank, Ready
    <2>4. /\ DOMAIN e = DOMAIN d \union {"abandoned.wal"} /\ e["abandoned.wal"] = Wal!Log(0, 0)
          /\ DOMAIN d = {"open.json.tmp"} => e["open.json.tmp"] = d["open.json.tmp"]
          /\ DataPartial(d, NewDropped) = {d, e}
      BY <2>2 DEF WritesBlank, Wrote
    <2> HIDE DEF e
    <2>5. DOMAIN e \ {"abandoned.wal", "corrupt-tail"} = DOMAIN d
      BY <1>2, <2>4
    <2>6. Dropped(e)
      BY <1>2, <2>1, <2>4, <2>5 DEF Dropped, TailKept, Kept
    <2>7. \A g \in DataPartial(d, NewDropped) : Shape(g, o)
      BY <1>2, <2>4, <2>6 DEF Shape, Fresh, Kept
    <2>8. Fits(Tail(s), e, o)
      <3>1. CASE Kept(d) /\ Tail(s) = <<NewOrphan>>
        BY <2>4, <3>1 DEF Fits, Discards, Kept
      <3>2. CASE Tail(s) = <<DropName("open.json.tmp")>> /\ DOMAIN d = {"open.json.tmp"}
        <4>1. "open.json.tmp" \in DOMAIN e
          BY <2>4, <3>2
        <4> QED BY <2>6, <3>2, <4>1 DEF Fits, Discards
      <3> QED BY <2>1, <3>1, <3>2
    <2> QED BY <2>1, <2>3, <2>7, <2>8, OthersDiffer DEF OpStep, e
  <1>3. CASE /\ DOMAIN d = {"abandoned.wal", "open.json.incomplete"} /\ d["abandoned.wal"] = Wal!Log(0, 0)
             /\ s = <<NewOrphan>>
    <2> DEFINE e == DataResult(d, NewOrphan)
    <2>1. Head(s) = NewOrphan /\ Tail(s) = <<>>
      BY <1>3
    <2>2. NewOrphan = Wal!WriteNew("abandoned.json", Wal!Doc("orphan", 0))
      BY DEF NewOrphan, Wal!Orphan
    <2>3. WritesDoc(d, NewOrphan, "abandoned.json", "orphan", 0)
      BY <2>2, WriteLeaves DEF Wal!Names, Kinds
    <2>4. ProperOp(NewOrphan) /\ Ready(d, NewOrphan) /\ NewOrphan.do = "write"
      BY <1>3, <2>3 DEF WritesDoc, Ready
    <2>5. \A g \in DataPartial(d, NewOrphan) :
             g = d \/ (DOMAIN g = DOMAIN d \union {"abandoned.json"} /\ g["abandoned.wal"] = Wal!Log(0, 0))
      BY <1>3, <2>3 DEF WritesDoc, Wrote
    <2>6. \A g \in DataPartial(d, NewOrphan) : Dropped(g)
      <3> TAKE g \in DataPartial(d, NewOrphan)
      <3>1. \/ DOMAIN g = {"abandoned.wal", "open.json.incomplete"}
            \/ DOMAIN g = {"abandoned.wal", "open.json.incomplete", "abandoned.json"}
        BY <1>3, <2>5
      <3>2. /\ DOMAIN g \ {"abandoned.wal", "corrupt-tail"} \in
                  {{"open.json.incomplete"}, {"open.json.incomplete", "abandoned.json"}}
            /\ "abandoned.wal" \in DOMAIN g /\ "open.json.tmp" \notin DOMAIN g /\ "corrupt-tail" \notin DOMAIN g
        BY <3>1
      <3>3. g["abandoned.wal"] = Wal!Log(0, 0)
        BY <1>3, <2>5
      <3> QED BY <3>2, <3>3 DEF Dropped, TailKept
    <2>7. \A g \in DataPartial(d, NewOrphan) : Shape(g, o)
      BY <2>6 DEF Shape
    <2>8. Fits(<<>>, e, o)
      BY DEF Fits
    <2> QED BY <2>1, <2>4, <2>7, <2>8, OthersDiffer DEF OpStep
  <1>4. CASE \E x \in {"open.json", "open.json.tmp"} :
                /\ Laid(d) \/ (Opened(d) /\ d["open.wal"] = Wal!Log(0, 0))
                /\ x \in DOMAIN d /\ s = <<DropLog, DropName(x)>>
    <2> DEFINE e == DataResult(d, DropLog)
    <2>0. PICK x \in {"open.json", "open.json.tmp"} :
             /\ Laid(d) \/ (Opened(d) /\ d["open.wal"] = Wal!Log(0, 0))
             /\ x \in DOMAIN d /\ s = <<DropLog, DropName(x)>>
      BY <1>4
    <2>1. Head(s) = DropLog /\ Tail(s) = <<DropName(x)>>
      BY <2>0
    <2>2. Renames(d, DropLog, "open.wal", "abandoned.wal")
      BY RenameLeaves DEF Wal!Names, DropLog
    <2>3. /\ "open.wal" \in DOMAIN d /\ d["open.wal"] = Wal!Log(0, 0) /\ Wal!Log(0, 0).n = 0 /\ Wal!Log(0, 0).t = 0
          /\ "abandoned.wal" \notin DOMAIN d
      BY <2>0 DEF Laid, Opened, OpenFiles, Wal!Log, Wal!Content
    <2>4. ProperOp(DropLog) /\ Ready(d, DropLog) /\ DropLog.do = "rename" /\ DropLog.to # "open.json"
      BY <2>2, <2>3 DEF Renames, Ready
    <2>5. /\ DOMAIN d \subseteq {x, "open.wal", "corrupt-tail"}
          /\ TailKept(d) /\ ("open.json.tmp" \in DOMAIN d => ~Wal!Torn(d["open.json.tmp"]))
      <3>1. CASE Laid(d)
        BY <2>0, <3>1 DEF Laid, TailKept
      <3>2. CASE Opened(d)
        BY <2>0, <2>3, <3>2 DEF Opened, OpenFiles, TailKept
      <3> QED BY <2>0, <3>1, <3>2
    <2>6. /\ DOMAIN e = (DOMAIN d \ {"open.wal"}) \union {"abandoned.wal"} /\ e["abandoned.wal"] = Wal!Log(0, 0)
          /\ \A z \in DOMAIN d : z # "open.wal" => e[z] = d[z]
          /\ DataPartial(d, DropLog) = {d, e}
      BY <2>2, <2>3 DEF Renames
    <2> HIDE DEF e
    <2>7. DOMAIN e \ {"abandoned.wal", "corrupt-tail"} = {x} /\ x \in DOMAIN e
      BY <2>0, <2>5, <2>6
    <2>8. TailKept(e) /\ ("open.json.tmp" \in DOMAIN e => ~Wal!Torn(e["open.json.tmp"]))
      BY <2>5, <2>6 DEF TailKept
    <2>9. Dropped(e)
      BY <2>6, <2>7, <2>8 DEF Dropped
    <2>10. \A g \in DataPartial(d, DropLog) : Shape(g, o)
      BY <2>0, <2>6, <2>9 DEF Shape
    <2>11. Fits(<<DropName(x)>>, e, o)
      BY <2>7, <2>9 DEF Fits, Discards
    <2> QED BY <2>1, <2>4, <2>10, <2>11, OthersDiffer DEF OpStep, e
  <1>5. CASE \E x \in {"open.json", "open.json.tmp"} : Dropped(d) /\ x \in DOMAIN d /\ s = <<DropName(x)>>
    <2>0. PICK x \in {"open.json", "open.json.tmp"} : Dropped(d) /\ x \in DOMAIN d /\ s = <<DropName(x)>>
      BY <1>5
    <2> DEFINE op == DropName(x)
               e == DataResult(d, op)
    <2>1. Head(s) = op /\ Tail(s) = <<>>
      BY <2>0
    <2>2. Renames(d, op, x, "abandoned.json")
      BY <2>0, RenameLeaves DEF Wal!Names, DropName
    <2>3. DOMAIN d \ {"abandoned.wal", "corrupt-tail"} = {x} /\ "abandoned.wal" \in DOMAIN d
      BY <2>0 DEF Dropped
    <2>4. ProperOp(op) /\ Ready(d, op) /\ op.do = "rename" /\ op.to # "open.json"
      BY <2>0, <2>2, <2>3 DEF Renames, Ready
    <2>5. /\ DOMAIN e = (DOMAIN d \ {x}) \union {"abandoned.json"}
          /\ \A z \in DOMAIN d : z # x /\ z # "abandoned.json" => e[z] = d[z]
          /\ DataPartial(d, op) = {d, e}
      BY <2>2 DEF Renames
    <2> HIDE DEF e, op
    <2>6. DOMAIN e \ {"abandoned.wal", "corrupt-tail"} = {"abandoned.json"} /\ "open.json.tmp" \notin DOMAIN e
      BY <2>0, <2>3, <2>5
    <2>7. e["abandoned.wal"] = Wal!Log(0, 0) /\ "abandoned.wal" \in DOMAIN e /\ TailKept(e)
      BY <2>0, <2>3, <2>5 DEF Dropped, TailKept
    <2>8. Dropped(e)
      BY <2>6, <2>7 DEF Dropped
    <2>9. \A g \in DataPartial(d, op) : Shape(g, o)
      BY <2>0, <2>5, <2>8 DEF Shape
    <2>10. Fits(<<>>, e, o)
      BY DEF Fits
    <2> QED BY <2>1, <2>4, <2>9, <2>10, OthersDiffer DEF OpStep, e
  <1> QED BY <1>1, <1>2, <1>3, <1>4, <1>5 DEF Discards, Kept, Laid, Opened, OpenFiles

\* Every operation of a collection leaves the segment stored, emptied or gone.
LEMMA MarkedStored ==
  ASSUME NEW d, NEW o, Stored(d, o), NEW g,
         \A z \in DOMAIN d : z # "gc.json.tmp" /\ z # "gc.json" => z \in DOMAIN g /\ g[z] = d[z],
         DOMAIN g \subseteq DOMAIN d \union {"gc.json.tmp", "gc.json"}, o > 0,
         "gc.json.tmp" \in DOMAIN g =>
            "gc.json" \notin DOMAIN g /\ g["gc.json.tmp"].of = "gc" /\ g["gc.json.tmp"].n = 0
  PROVE  Stored(g, o)
  <1>1. /\ {"sealed.wal", "segment.json"} \subseteq DOMAIN g
        /\ g["sealed.wal"] = d["sealed.wal"] /\ g["segment.json"] = d["segment.json"]
        /\ "corrupt-tail" \in DOMAIN g => "corrupt-tail" \in DOMAIN d /\ g["corrupt-tail"] = d["corrupt-tail"]
    BY DEF Stored, SealedLog
  <1>2. SealedLog(g, "segment.json")
    BY <1>1 DEF Stored, SealedLog, TailKept
  <1> QED BY <1>1, <1>2 DEF Stored, SealedFiles

LEMMA MarksStep ==
  ASSUME NEW s, NEW d, IsFun(d), NEW o, Marks(s, d, o)
  PROVE  /\ OpStep(s, d, o)
         /\ \A g \in DataPartial(d, Head(s)) : Stored(g, o)
         /\ Collects(Tail(s), DataResult(d, Head(s)), o)
  <1>1. Stored(d, o) /\ o > 0 /\ "gc.json" \notin DOMAIN d
    BY DEF Marks
  <1> DEFINE x == "gc.json.tmp"
             rest == <<NameMark, TakeLog, EndMeta, EndLog, EndMark>>
             op == Head(s)
             e == DataResult(d, op)
  <1>2. Wal!Marker = Wal!Doc("gc", 0)
    BY DEF Wal!Marker
  <1>3. CASE \/ x \notin DOMAIN d /\ s = <<Wal!WriteNew(x, Wal!Marker), NameMark, TakeLog, EndMeta, EndLog, EndMark>>
             \/ x \in DOMAIN d /\ s = <<Wal!Complete(x, Wal!Marker), NameMark, TakeLog, EndMeta, EndLog, EndMark>>
    <2>1. /\ Tail(s) = rest
          /\ \/ op = Wal!WriteNew(x, Wal!Marker) /\ x \notin DOMAIN d
             \/ op = Wal!Complete(x, Wal!Marker) /\ x \in DOMAIN d
      <3>1. CASE x \notin DOMAIN d /\ s = <<Wal!WriteNew(x, Wal!Marker), NameMark, TakeLog, EndMeta, EndLog, EndMark>>
        BY <3>1
      <3>2. CASE x \in DOMAIN d /\ s = <<Wal!Complete(x, Wal!Marker), NameMark, TakeLog, EndMeta, EndLog, EndMark>>
        BY <3>2
      <3> QED BY <1>3, <3>1, <3>2
    <2> HIDE DEF op, e
    <2>2. \/ WritesDoc(d, op, x, "gc", 0) /\ x \notin DOMAIN d
          \/ CompletesDoc(d, op, x, "gc", 0) /\ x \in DOMAIN d
      BY <1>2, <2>1, WriteLeaves, CompleteLeaves DEF Wal!Names, Kinds
    <2>3. x \in DOMAIN d => d[x].of = "gc" /\ d[x].n = 0
      BY <1>1 DEF Stored
    <2>4. ProperOp(op) /\ Ready(d, op) /\ op.do \in {"write", "complete"}
      <3>1. CASE WritesDoc(d, op, x, "gc", 0) /\ x \notin DOMAIN d
        BY <3>1 DEF WritesDoc, Ready
      <3>2. CASE CompletesDoc(d, op, x, "gc", 0) /\ x \in DOMAIN d
        BY <2>3, <3>2 DEF CompletesDoc, Ready
      <3> QED BY <2>2, <3>1, <3>2
    <2>5. /\ \A g \in DataPartial(d, op) :
                g = d \/ (Wrote(d, g, x) /\ g[x].of = "gc" /\ g[x].n = 0)
          /\ Wrote(d, e, x) /\ e[x].of = "gc" /\ e[x].n = 0
      BY <2>2, TornContent DEF WritesDoc, CompletesDoc, e
    <2>6. \A g : Wrote(d, g, x) /\ g[x].of = "gc" /\ g[x].n = 0 => Stored(g, o) /\ x \in DOMAIN g /\ "gc.json" \notin DOMAIN g
      <3> SUFFICES ASSUME NEW g, Wrote(d, g, x) /\ g[x].of = "gc" /\ g[x].n = 0
                   PROVE  Stored(g, o) /\ x \in DOMAIN g /\ "gc.json" \notin DOMAIN g
        OBVIOUS
      <3>1. DOMAIN g = DOMAIN d \union {x} /\ \A z \in DOMAIN d : z # x => g[z] = d[z]
        BY DEF Wrote
      <3> QED BY <1>1, <3>1, MarkedStored
    <2>7. \A g \in DataPartial(d, op) : Stored(g, o)
      BY <1>1, <2>5, <2>6
    <2>8. Marks(rest, e, o)
      BY <1>1, <2>5, <2>6 DEF Marks
    <2>9. Collects(rest, e, o) /\ Fits(rest, e, o) /\ \A g \in DataPartial(d, op) : Shape(g, o)
      BY <2>7, <2>8 DEF Collects, Fits, Shape
    <2>10. op # NameIt
      BY <2>4, OthersDiffer
    <2> QED BY <2>1, <2>4, <2>7, <2>9, <2>10 DEF OpStep, e, op
  <1>4. CASE x \in DOMAIN d /\ s = rest
    <2>1. op = NameMark /\ Tail(s) = <<TakeLog, EndMeta, EndLog, EndMark>>
      BY <1>4
    <2> HIDE DEF op, e
    <2>2. Renames(d, op, "gc.json.tmp", "gc.json")
      BY <2>1, RenameLeaves DEF Wal!Names, NameMark
    <2>3. ProperOp(op) /\ Ready(d, op) /\ op.do = "rename" /\ op.to # "open.json"
      BY <1>1, <1>4, <2>2 DEF Renames, Ready
    <2>4. /\ DOMAIN e = (DOMAIN d \ {"gc.json.tmp"}) \union {"gc.json"} /\ DataPartial(d, op) = {d, e}
          /\ \A z \in DOMAIN d : z # "gc.json.tmp" /\ z # "gc.json" => e[z] = d[z]
      BY <2>2 DEF Renames, e
    <2>5. Stored(e, o)
      BY <1>1, <2>4, MarkedStored
    <2>6. Empties(Tail(s), e, o)
      BY <2>1, <2>4, <2>5 DEF Empties
    <2>7. \A g \in DataPartial(d, op) : Stored(g, o) /\ Shape(g, o)
      BY <1>1, <2>4, <2>5 DEF Shape
    <2>8. Collects(Tail(s), e, o) /\ Fits(Tail(s), e, o)
      BY <2>6 DEF Collects, Fits
    <2>9. op # NameIt
      BY <2>3, OthersDiffer
    <2> QED BY <2>3, <2>7, <2>8, <2>9 DEF OpStep, e, op
  <1> QED BY <1>3, <1>4 DEF Marks

LEMMA EmptiesStep ==
  ASSUME NEW s, NEW d, IsFun(d), NEW o, Empties(s, d, o)
  PROVE  /\ OpStep(s, d, o)
         /\ \A g \in DataPartial(d, Head(s)) : Stored(g, o) \/ Emptied(g, o) \/ Gone(g, o)
         /\ \/ Collects(Tail(s), DataResult(d, Head(s)), o)
            \/ Gone(DataResult(d, Head(s)), o)
  <1> DEFINE op == Head(s)
             e == DataResult(d, op)
  <1>1. CASE Stored(d, o) /\ "gc.json" \in DOMAIN d /\ s = <<TakeLog, EndMeta, EndLog, EndMark>>
    <2>1. op = TakeLog /\ Tail(s) = <<EndMeta, EndLog, EndMark>>
      BY <1>1
    <2> HIDE DEF op, e
    <2>2. Renames(d, op, "sealed.wal", "gc.wal")
      BY <2>1, RenameLeaves DEF Wal!Names, TakeLog
    <2>3. ProperOp(op) /\ Ready(d, op) /\ op.do = "rename" /\ op.to # "open.json"
      BY <1>1, <2>2 DEF Renames, Ready, Stored, SealedLog, SealedFiles
    <2>4. DOMAIN e = (DOMAIN d \ {"sealed.wal"}) \union {"gc.wal"} /\ DataPartial(d, op) = {d, e}
      BY <2>2 DEF Renames, e
    <2>5. Emptied(e, o)
      BY <1>1, <2>4 DEF Emptied, Stored, SealedFiles
    <2>6. Empties(Tail(s), e, o)
      BY <2>1, <2>5 DEF Empties
    <2>7. \A g \in DataPartial(d, op) : (Stored(g, o) \/ Emptied(g, o)) /\ Shape(g, o)
      BY <1>1, <2>4, <2>5 DEF Shape
    <2>8. Collects(Tail(s), e, o) /\ Fits(Tail(s), e, o)
      BY <2>6 DEF Collects, Fits
    <2>9. op # NameIt
      BY <2>3, OthersDiffer
    <2> QED BY <2>3, <2>7, <2>8, <2>9 DEF OpStep, e, op
  <1>2. CASE Emptied(d, o) /\ s = <<EndMeta, EndLog, EndMark>>
    <2>1. op = EndMeta /\ Tail(s) = <<EndLog, EndMark>>
      BY <1>2
    <2> HIDE DEF op, e
    <2>2. Removes(d, op, "segment.json")
      BY <2>1, RemoveLeaves DEF Wal!Names, EndMeta
    <2>3. ProperOp(op) /\ Ready(d, op) /\ op.do = "remove"
      BY <2>2 DEF Removes, Ready
    <2>4. DOMAIN e = DOMAIN d \ {"segment.json"} /\ DataPartial(d, op) = {d, e}
      BY <2>2 DEF Removes, e
    <2>5. Emptied(e, o)
      BY <1>2, <2>4 DEF Emptied
    <2>6. Empties(Tail(s), e, o)
      BY <2>1, <2>5 DEF Empties
    <2>7. \A g \in DataPartial(d, op) : Emptied(g, o) /\ Shape(g, o)
      BY <1>2, <2>4, <2>5 DEF Shape
    <2>8. Collects(Tail(s), e, o) /\ Fits(Tail(s), e, o)
      BY <2>6 DEF Collects, Fits
    <2>9. op # NameIt
      BY <2>3, OthersDiffer
    <2> QED BY <2>3, <2>7, <2>8, <2>9 DEF OpStep, e, op
  <1>3. CASE Emptied(d, o) /\ s = <<EndLog, EndMark>>
    <2>1. op = EndLog
      BY <1>3
    <2> HIDE DEF op, e
    <2>2. Removes(d, op, "gc.wal")
      BY <2>1, RemoveLeaves DEF Wal!Names, EndLog
    <2>3. ProperOp(op) /\ Ready(d, op) /\ op.do = "remove"
      BY <2>2 DEF Removes, Ready
    <2>4. DOMAIN e = DOMAIN d \ {"gc.wal"} /\ DataPartial(d, op) = {d, e}
      BY <2>2 DEF Removes, e
    <2>5. Gone(e, o)
      BY <1>3, <2>4 DEF Emptied, Gone, NoLog, LogNames
    <2>6. \A g \in DataPartial(d, op) : (Emptied(g, o) \/ Gone(g, o)) /\ Shape(g, o)
      BY <1>3, <2>4, <2>5 DEF Shape
    <2>7. Fits(Tail(s), e, o)
      BY <2>5 DEF Fits
    <2>8. op # NameIt
      BY <2>3, OthersDiffer
    <2> QED BY <2>3, <2>5, <2>6, <2>7, <2>8 DEF OpStep, e, op
  <1> QED BY <1>1, <1>2, <1>3 DEF Empties

\* Whatever is left to do, and the files it is to be done with.
LEMMA FitsStep ==
  ASSUME NEW s, NEW d, IsFun(d), NEW o, Fits(s, d, o), s # <<>>, ~Gone(d, o)
  PROVE  OpStep(s, d, o)
  BY CreatesStep, AppendsStep, DescribesStep, SetsAsideStep, SealsLogStep, QuarantinesStep, DiscardsStep,
     FinishesStep, MarksStep, EmptiesStep DEF Fits, Collects

LEMMA CollectsStep ==
  ASSUME NEW s, NEW d, IsFun(d), NEW o, Collects(s, d, o)
  PROVE  /\ OpStep(s, d, o)
         /\ \A g \in DataPartial(d, Head(s)) : Stored(g, o) \/ Emptied(g, o) \/ Gone(g, o)
         /\ \/ Collects(Tail(s), DataResult(d, Head(s)), o)
            \/ Gone(DataResult(d, Head(s)), o)
  BY MarksStep, EmptiesStep DEF Collects

-----------------------------------------------------------------------------
(* Restarts: what recovery plans *)

\* Two lists put together, element by element.
LEMMA Joins ==
  ASSUME NEW S, NEW s \in Seq(S), NEW t \in Seq(S), NEW u \in Seq(S), Len(u) = Len(s) + Len(t),
         \A i \in 1 .. Len(s) : u[i] = s[i], \A i \in 1 .. Len(t) : u[Len(s) + i] = t[i]
  PROVE  s \o t = u
  <1>1. s \o t \in Seq(S) /\ Len(s \o t) = Len(u)
    OBVIOUS
  <1>2. ASSUME NEW i \in 1 .. Len(u)  PROVE (s \o t)[i] = u[i]
    <2>1. CASE i <= Len(s)
      BY <2>1
    <2>2. CASE i > Len(s)
      <3>1. i - Len(s) \in 1 .. Len(t) /\ Len(s) + (i - Len(s)) = i
        BY <2>2
      <3>2. (s \o t)[i] = t[i - Len(s)]
        BY <2>2
      <3> QED BY <3>1, <3>2
    <2> QED BY <2>1, <2>2
  <1> QED BY <1>1, <1>2

LEMMA JoinOneOne ==
  ASSUME NEW a, NEW b
  PROVE  <<a>> \o <<b>> = <<a, b>>
  <1> DEFINE S == {a, b}
             s == <<a>>
             t == <<b>>
             u == <<a, b>>
  <1>1. s \in Seq(S) /\ t \in Seq(S) /\ u \in Seq(S) /\ Len(s) = 1 /\ Len(t) = 1 /\ Len(u) = 2
    OBVIOUS
  <1>2. (\A i \in 1 .. 1 : u[i] = s[i]) /\ \A i \in 1 .. 1 : u[1 + i] = t[i]
    OBVIOUS
  <1> HIDE DEF S, s, t, u
  <1>3. s \o t = u
    <2>1. Len(u) = Len(s) + Len(t)
      BY <1>1
    <2>2. (\A i \in 1 .. Len(s) : u[i] = s[i]) /\ \A i \in 1 .. Len(t) : u[Len(s) + i] = t[i]
      BY <1>1, <1>2
    <2> QED BY ONLY <1>1, <2>1, <2>2, Joins
  <1> QED BY <1>3 DEF s, t, u

LEMMA JoinOneTwo ==
  ASSUME NEW a, NEW b, NEW c
  PROVE  <<a>> \o <<b, c>> = <<a, b, c>>
  <1> DEFINE S == {a, b, c}
             s == <<a>>
             t == <<b, c>>
             u == <<a, b, c>>
  <1>1. s \in Seq(S) /\ t \in Seq(S) /\ u \in Seq(S) /\ Len(s) = 1 /\ Len(t) = 2 /\ Len(u) = 3
    OBVIOUS
  <1>2. (\A i \in 1 .. 1 : u[i] = s[i]) /\ \A i \in 1 .. 2 : u[1 + i] = t[i]
    OBVIOUS
  <1> HIDE DEF S, s, t, u
  <1>3. s \o t = u
    <2>1. Len(u) = Len(s) + Len(t)
      BY <1>1
    <2>2. (\A i \in 1 .. Len(s) : u[i] = s[i]) /\ \A i \in 1 .. Len(t) : u[Len(s) + i] = t[i]
      BY <1>1, <1>2
    <2> QED BY ONLY <1>1, <2>1, <2>2, Joins
  <1> QED BY <1>3 DEF s, t, u

LEMMA JoinTwoOne ==
  ASSUME NEW a, NEW b, NEW c
  PROVE  <<a, b>> \o <<c>> = <<a, b, c>>
  <1> DEFINE S == {a, b, c}
             s == <<a, b>>
             t == <<c>>
             u == <<a, b, c>>
  <1>1. s \in Seq(S) /\ t \in Seq(S) /\ u \in Seq(S) /\ Len(s) = 2 /\ Len(t) = 1 /\ Len(u) = 3
    OBVIOUS
  <1>2. (\A i \in 1 .. 2 : u[i] = s[i]) /\ \A i \in 1 .. 1 : u[2 + i] = t[i]
    OBVIOUS
  <1> HIDE DEF S, s, t, u
  <1>3. s \o t = u
    <2>1. Len(u) = Len(s) + Len(t)
      BY <1>1
    <2>2. (\A i \in 1 .. Len(s) : u[i] = s[i]) /\ \A i \in 1 .. Len(t) : u[Len(s) + i] = t[i]
      BY <1>1, <1>2
    <2> QED BY ONLY <1>1, <2>1, <2>2, Joins
  <1> QED BY <1>3 DEF s, t, u

LEMMA JoinOneThree ==
  ASSUME NEW a, NEW b, NEW c, NEW d
  PROVE  <<a>> \o <<b, c, d>> = <<a, b, c, d>>
  <1> DEFINE S == {a, b, c, d}
             s == <<a>>
             t == <<b, c, d>>
             u == <<a, b, c, d>>
  <1>1. s \in Seq(S) /\ t \in Seq(S) /\ u \in Seq(S) /\ Len(s) = 1 /\ Len(t) = 3 /\ Len(u) = 4
    OBVIOUS
  <1>2. (\A i \in 1 .. 1 : u[i] = s[i]) /\ \A i \in 1 .. 3 : u[1 + i] = t[i]
    OBVIOUS
  <1> HIDE DEF S, s, t, u
  <1>3. s \o t = u
    <2>1. Len(u) = Len(s) + Len(t)
      BY <1>1
    <2>2. (\A i \in 1 .. Len(s) : u[i] = s[i]) /\ \A i \in 1 .. Len(t) : u[Len(s) + i] = t[i]
      BY <1>1, <1>2
    <2> QED BY ONLY <1>1, <2>1, <2>2, Joins
  <1> QED BY <1>3 DEF s, t, u

LEMMA JoinThreeThree ==
  ASSUME NEW a, NEW b, NEW c, NEW d, NEW e, NEW g
  PROVE  <<a, b, c>> \o <<d, e, g>> = <<a, b, c, d, e, g>>
  <1> DEFINE S == {a, b, c, d, e, g}
             s == <<a, b, c>>
             t == <<d, e, g>>
             u == <<a, b, c, d, e, g>>
  <1>1. s \in Seq(S) /\ t \in Seq(S) /\ u \in Seq(S) /\ Len(s) = 3 /\ Len(t) = 3 /\ Len(u) = 6
    OBVIOUS
  <1>2. (\A i \in 1 .. 3 : u[i] = s[i]) /\ \A i \in 1 .. 3 : u[3 + i] = t[i]
    OBVIOUS
  <1> HIDE DEF S, s, t, u
  <1>3. s \o t = u
    <2>1. Len(u) = Len(s) + Len(t)
      BY <1>1
    <2>2. (\A i \in 1 .. Len(s) : u[i] = s[i]) /\ \A i \in 1 .. Len(t) : u[Len(s) + i] = t[i]
      BY <1>1, <1>2
    <2> QED BY ONLY <1>1, <2>1, <2>2, Joins
  <1> QED BY <1>3 DEF s, t, u

LEMMA JoinNone ==
  ASSUME NEW a, NEW b, NEW c
  PROVE  /\ <<>> \o <<a>> = <<a>> /\ <<>> \o <<>> = <<>> /\ <<a>> \o <<>> = <<a>>
         /\ <<>> \o <<a, b>> = <<a, b>> /\ <<>> \o <<a, b, c>> = <<a, b, c>>
  OBVIOUS

\* d is what the files hold.
Reads(d) == DOMAIN d = DOMAIN files /\ \A x \in DOMAIN files : d[x] = files[x].data

Proceeds(d) == Wal!RecoverWalInputs.ok /\ Fits(Wal!RecoverWalInputs.ops, d, owned)

LEMMA Plans ==
  ASSUME NEW s, NEW d, Wal!RecoverWalInputs = Wal!Go(s), Fits(s, d, owned)
  PROVE  Proceeds(d)
  BY DEF Proceeds, Wal!Go

\* Without a mark of the collection recovery turns to the segment.
LEMMA NoMarks ==
  ASSUME {"gc.json", "gc.json.tmp", "gc.wal"} \cap DOMAIN files = {},
         \E x \in {"open.wal", "open.json", "open.json.tmp", "sealed.wal", "segment.json", "segment.json.tmp"} :
            x \in DOMAIN files
  PROVE  Wal!RecoverWalInputs = Wal!RecoverSegment
  BY DEF Wal!RecoverWalInputs, Wal!GcPending, Wal!RecoveryPending, Wal!Has

LEMMA NoPending ==
  ASSUME {"gc.json", "gc.json.tmp", "gc.wal"} \cap DOMAIN files = {},
         \A x \in {"open.wal", "open.json", "open.json.tmp", "sealed.wal", "segment.json", "segment.json.tmp"} :
            x \notin DOMAIN files,
         NEW d
  PROVE  Proceeds(d)
  <1>1. Wal!RecoverWalInputs = Wal!Go(<<>>)
    BY DEF Wal!RecoverWalInputs, Wal!GcPending, Wal!RecoveryPending, Wal!Has
  <1> QED BY <1>1, Plans DEF Fits

LEMMA RecoverFresh ==
  ASSUME NEW d, Reads(d), Fresh(d), owned = 0
  PROVE  Proceeds(d)
  <1>1. CASE DOMAIN files = {}
    BY <1>1, NoPending
  <1>2. CASE DOMAIN files = {"open.json.tmp"}
    <2>1. Wal!RecoverWalInputs = Wal!RecoverSegment
      BY <1>2, NoMarks
    <2>2. Wal!ValidState /\ Wal!TailReadable
      BY <1>2 DEF Wal!ValidState, Wal!TailReadable, Wal!Has
    <2>3. Wal!RecoverSegment = Wal!Abandon
      BY <1>2, <2>2 DEF Wal!RecoverSegment, Wal!Has
    <2>4. Wal!Read("open.json.tmp") = d["open.json.tmp"]
      BY <1>2 DEF Reads, Wal!Read
    <2>5. CASE Wal!Torn(d["open.json.tmp"])
      <3>1. Wal!Incomplete /\ Wal!Source = "none"
        BY <1>2, <2>4, <2>5 DEF Wal!Incomplete, Wal!Source, Wal!Has
      <3>2. ~Wal!AbandonRefused
        BY <1>2, <2>2, <3>1 DEF Wal!AbandonRefused, Wal!Has
      <3>3. Wal!AbandonOps = (<<KeepTorn>> \o <<NewDropped>>) \o <<NewOrphan>>
        BY <1>2, <3>1 DEF Wal!AbandonOps, Wal!Has, KeepTorn, NewDropped, NewOrphan
      <3>4. Wal!AbandonOps = <<KeepTorn, NewDropped, NewOrphan>>
        <4>1. <<KeepTorn>> \o <<NewDropped>> = <<KeepTorn, NewDropped>>
          BY JoinOneOne
        <4>2. <<KeepTorn, NewDropped>> \o <<NewOrphan>> = <<KeepTorn, NewDropped, NewOrphan>>
          BY JoinTwoOne
        <4> QED BY <3>3, <4>1, <4>2
      <3>5. Discards(Wal!AbandonOps, d)
        BY <1>2, <3>4 DEF Discards, Reads
      <3> QED BY <2>1, <2>3, <3>2, <3>5, Plans DEF Wal!Abandon, Fits
    <2>6. CASE ~Wal!Torn(d["open.json.tmp"])
      <3>1. ~Wal!Incomplete /\ Wal!Source = "open.json.tmp"
        BY <1>2, <2>4, <2>6 DEF Wal!Incomplete, Wal!Source, Wal!Has
      <3>2. ~Wal!AbandonRefused
        BY <1>2, <2>2, <3>1 DEF Wal!AbandonRefused, Wal!Has
      <3>3. Wal!AbandonOps = (<<>> \o <<NewDropped>>) \o <<DropName("open.json.tmp")>>
        BY <1>2, <3>1 DEF Wal!AbandonOps, Wal!Has, DropName, NewDropped
      <3>4. Wal!AbandonOps = <<NewDropped, DropName("open.json.tmp")>>
        BY <3>3, JoinOneOne, JoinNone
      <3>5. Discards(Wal!AbandonOps, d)
        BY <1>2, <2>6, <3>4 DEF Discards, Reads
      <3> QED BY <2>1, <2>3, <3>2, <3>5, Plans DEF Wal!Abandon, Fits
    <2> QED BY <2>5, <2>6
  <1> QED BY <1>1, <1>2 DEF Fresh, Reads

LEMMA RecoverLaid ==
  ASSUME NEW d, Reads(d), Laid(d), owned = 0
  PROVE  Proceeds(d)
  <1>1. DOMAIN files = {"open.json.tmp", "open.wal"} /\ Wal!Read("open.json.tmp") = d["open.json.tmp"]
        /\ Wal!Read("open.wal") = Wal!Log(0, 0)
    BY DEF Reads, Laid, Wal!Read
  <1>2. Wal!RecoverWalInputs = Wal!RecoverSegment
    BY <1>1, NoMarks
  <1>3. Wal!ValidState /\ Wal!TailReadable
    BY <1>1 DEF Wal!ValidState, Wal!TailReadable, Wal!Has
  <1>4. Wal!Size(Wal!Read("open.wal")) = 0
    BY <1>1 DEF Wal!Size, Wal!Log, Wal!Content
  <1>5. Wal!RecoverSegment = Wal!Abandon
    BY <1>1, <1>3, <1>4 DEF Wal!RecoverSegment, Wal!RecoverOpen, Wal!Has
  <1>6. ~Wal!Incomplete /\ Wal!Source = "open.json.tmp"
    BY <1>1 DEF Wal!Incomplete, Wal!Source, Wal!Has, Laid
  <1>7. ~Wal!AbandonRefused
    BY <1>1, <1>3, <1>4, <1>6 DEF Wal!AbandonRefused, Wal!Has
  <1>8. Wal!AbandonOps = (<<>> \o <<DropLog>>) \o <<DropName("open.json.tmp")>>
    BY <1>1, <1>6 DEF Wal!AbandonOps, Wal!Has, DropName, DropLog
  <1>9. Wal!AbandonOps = <<DropLog, DropName("open.json.tmp")>>
    BY <1>8, JoinOneOne, JoinNone
  <1>10. Discards(Wal!AbandonOps, d)
    BY <1>9 DEF Discards
  <1> QED BY <1>2, <1>5, <1>7, <1>10, Plans DEF Wal!Abandon, Fits

\* An abandoned segment, and a torn creation alone.
LEMMA RecoverDropped ==
  ASSUME NEW d, Reads(d), Dropped(d) \/ Kept(d), owned = 0
  PROVE  Proceeds(d)
  <1>1. CASE {"open.json", "open.json.tmp"} \cap DOMAIN files = {}
    <2>1. /\ {"gc.json", "gc.json.tmp", "gc.wal"} \cap DOMAIN files = {}
          /\ \A x \in {"open.wal", "open.json", "open.json.tmp", "sealed.wal", "segment.json", "segment.json.tmp"} :
                x \notin DOMAIN files
      BY <1>1 DEF Dropped, Kept, Reads
    <2> QED BY <2>1, NoPending
  <1>2. ASSUME NEW x \in {"open.json", "open.json.tmp"}, x \in DOMAIN files
        PROVE  Proceeds(d)
    <2>0. Dropped(d) /\ x \in DOMAIN d
      BY <1>2 DEF Kept, Reads
    <2>1. /\ "abandoned.wal" \in DOMAIN files /\ DOMAIN files \subseteq {"abandoned.wal", "corrupt-tail", x}
          /\ Wal!Read("abandoned.wal") = Wal!Log(0, 0)
          /\ x = "open.json.tmp" => ~Wal!Torn(Wal!Read(x))
      BY <1>2, <2>0 DEF Dropped, Reads, Wal!Read
    <2>2. Wal!RecoverWalInputs = Wal!RecoverSegment
      BY <1>2, <2>1, NoMarks
    <2>3. Wal!ValidState
      BY <1>2, <2>1 DEF Wal!ValidState, Wal!Has
    <2>4. Wal!TailReadable
      BY <2>0 DEF Wal!TailReadable, Wal!Has, Dropped, TailKept, Reads, Wal!Read, Wal!Torn
    <2>5. Wal!RecoverSegment = Wal!Abandon
      BY <2>1, <2>3 DEF Wal!RecoverSegment, Wal!Has
    <2>6. ~Wal!Incomplete /\ Wal!Source = x
      BY <1>2, <2>1 DEF Wal!Incomplete, Wal!Source, Wal!Has
    <2>7. Wal!Size(Wal!Read("abandoned.wal")) = 0
      BY <2>1 DEF Wal!Size, Wal!Log, Wal!Content
    <2>8. ~Wal!AbandonRefused
      BY <1>2, <2>1, <2>4, <2>6, <2>7 DEF Wal!AbandonRefused, Wal!Has
    <2>9. Wal!AbandonOps = (<<>> \o <<>>) \o <<DropName(x)>>
      BY <1>2, <2>1, <2>6 DEF Wal!AbandonOps, Wal!Has, DropName
    <2>10. Wal!AbandonOps = <<DropName(x)>>
      BY <2>9, JoinNone
    <2>11. Discards(Wal!AbandonOps, d)
      BY <2>0, <2>10 DEF Discards
    <2> QED BY <2>2, <2>5, <2>8, <2>11, Plans DEF Wal!Abandon, Fits
  <1> QED BY <1>1, <1>2

\* The lists that give a sealed log its names.
LEMMA SealLists ==
  ASSUME NEW of
  PROVE  /\ Wal!PublishPrepared("open.wal") = <<SealLog, NameMeta, EndOpen>>
         /\ Wal!PublishPrepared("sealed.wal") = <<NameMeta, EndOpen>>
         /\ Wal!SealOps(of, "open.wal") =
               <<Wal!WriteNew("segment.json.tmp", Wal!Doc(of, Wal!Read("open.wal").n)), SealLog, NameMeta, EndOpen>>
  <1>1. Wal!PublishPrepared("open.wal") = <<SealLog>> \o <<NameMeta, EndOpen>>
    BY DEF Wal!PublishPrepared, SealLog, NameMeta, EndOpen
  <1>2. Wal!PublishPrepared("open.wal") = <<SealLog, NameMeta, EndOpen>>
    BY <1>1, JoinOneTwo
  <1>3. Wal!PublishPrepared("sealed.wal") = <<>> \o <<NameMeta, EndOpen>>
    BY DEF Wal!PublishPrepared, NameMeta, EndOpen
  <1>4. Wal!PublishPrepared("sealed.wal") = <<NameMeta, EndOpen>>
    BY <1>3, JoinNone
  <1> DEFINE w == Wal!WriteNew("segment.json.tmp", Wal!Doc(of, Wal!Read("open.wal").n))
  <1>5. Wal!SealOps(of, "open.wal") = <<w>> \o <<SealLog, NameMeta, EndOpen>>
    BY <1>2 DEF Wal!SealOps, Wal!SealedBy
  <1> HIDE DEF w
  <1>6. <<w>> \o <<SealLog, NameMeta, EndOpen>> = <<w, SealLog, NameMeta, EndOpen>>
    BY JoinOneThree
  <1> QED BY <1>2, <1>4, <1>5, <1>6 DEF w

LEMMA RecoverOpened ==
  ASSUME NEW d, Reads(d), Opened(d), owned = 0
  PROVE  Proceeds(d)
  <1> DEFINE w == d["open.wal"]
  <1>1. /\ OpenFiles \subseteq DOMAIN files
        /\ DOMAIN files \subseteq OpenFiles \union {"corrupt-tail", "segment.json.tmp", "segment.json.incomplete"}
        /\ w \in LogContent /\ w.n \in Nat /\ w.t \in Nat /\ Wal!Read("open.wal") = w
    BY DEF Reads, Opened, Wal!Read, LogContent, OpenFiles
  <1>2. Wal!RecoverWalInputs = Wal!RecoverSegment
    BY <1>1, NoMarks DEF OpenFiles
  <1>3. Wal!ValidState
    BY <1>1 DEF Wal!ValidState, Wal!Has, OpenFiles
  <1>4. Wal!RecoverSegment = Wal!RecoverOpen
    BY <1>1, <1>3 DEF Wal!RecoverSegment, Wal!Has, OpenFiles
  <1>5. Wal!Size(Wal!Read("open.wal")) = 3 * w.n + w.t /\ (Wal!Torn(Wal!Read("open.wal")) <=> w.t > 0)
    BY <1>1 DEF Wal!Size, Wal!Torn
  <1>6. CASE w.n = 0 /\ w.t = 0
    <2>1. "segment.json.tmp" \notin DOMAIN files
      BY <1>6 DEF Opened, Reads
    <2>2. Wal!Size(Wal!Read("open.wal")) = 0
      BY <1>5, <1>6
    <2>3. Wal!RecoverOpen = Wal!Abandon
      BY <1>5, <1>6, <2>1, <2>2 DEF Wal!RecoverOpen, Wal!Has
    <2>4. Wal!TailReadable
      BY <1>6 DEF Wal!TailReadable, Wal!Has, Opened, Reads, Wal!Read, Wal!Torn
    <2>5. ~Wal!Incomplete /\ Wal!Source = "open.json"
      BY <1>1 DEF Wal!Incomplete, Wal!Source, Wal!Has, OpenFiles
    <2>6. ~Wal!AbandonRefused
      BY <1>1, <2>2, <2>4, <2>5 DEF Wal!AbandonRefused, Wal!Has, OpenFiles
    <2>7. Wal!AbandonOps = (<<>> \o <<DropLog>>) \o <<DropName("open.json")>>
      BY <1>1, <2>5 DEF Wal!AbandonOps, Wal!Has, DropName, DropLog, OpenFiles
    <2>8. Wal!AbandonOps = <<DropLog, DropName("open.json")>>
      BY <2>7, JoinOneOne, JoinNone
    <2>9. w = Wal!Log(0, 0)
      BY <1>1, <1>6 DEF LogContent, Wal!Log, Wal!Content
    <2>10. Discards(Wal!AbandonOps, d)
      BY <2>8, <2>9 DEF Discards
    <2> QED BY <1>2, <1>4, <2>3, <2>6, <2>10, Plans DEF Wal!Abandon, Fits
  <1>7. CASE w.t > 0
    <2>1. "segment.json.tmp" \notin DOMAIN files
      BY <1>7 DEF Opened, Reads
    <2>2. Wal!Size(Wal!Read("open.wal")) > 0
      BY <1>1, <1>5, <1>7
    <2>3. Wal!RecoverOpen = Wal!Go(Wal!Quarantine)
      BY <1>1, <1>5, <1>7, <2>1, <2>2 DEF Wal!RecoverOpen, Wal!Has, OpenFiles
    <2>4. Quarantines(Wal!Quarantine, d)
      <3>1. CASE "corrupt-tail" \in DOMAIN d
        BY <1>1, <1>7, <3>1 DEF Quarantines, Wal!Quarantine, Wal!Has, Reads, Tail0, CutLog
      <3>2. CASE "corrupt-tail" \notin DOMAIN d
        BY <1>1, <1>7, <3>2 DEF Quarantines, Wal!Quarantine, Wal!Has, Reads, Tail0, CutLog
      <3> QED BY <3>1, <3>2
    <2> QED BY <1>2, <1>4, <2>3, <2>4, Plans DEF Fits
  <1>8. CASE w.n > 0 /\ w.t = 0 /\ "segment.json.tmp" \notin DOMAIN d
    <2>1. Wal!Size(Wal!Read("open.wal")) > 0
      BY <1>1, <1>5, <1>8
    <2>2. Wal!RecoverOpen = Wal!Go(Wal!SealOps("resealed", "open.wal"))
      BY <1>1, <1>5, <1>8, <2>1 DEF Wal!RecoverOpen, Wal!Has, OpenFiles, Reads
    <2>3. Wal!SealOps("resealed", "open.wal") =
             <<Wal!WriteNew("segment.json.tmp", Meta("resealed", d)), SealLog, NameMeta, EndOpen>>
      BY <1>1, SealLists DEF Meta
    <2>4. Describes(Wal!SealOps("resealed", "open.wal"), d)
      BY <1>8, <2>3 DEF Describes, Sealable
    <2> QED BY <1>2, <1>4, <2>2, <2>4, Plans DEF Fits
  <1>9. CASE w.n > 0 /\ w.t = 0 /\ "segment.json.tmp" \in DOMAIN d
    <2>1. Wal!Size(Wal!Read("open.wal")) > 0
      BY <1>1, <1>5, <1>9
    <2>2. Wal!RecoverOpen = Wal!RecoverPrepared
      BY <1>1, <1>5, <1>9, <2>1 DEF Wal!RecoverOpen, Wal!Has, OpenFiles, Reads
    <2>3. Wal!Read("segment.json.tmp") = d["segment.json.tmp"] /\ d["segment.json.tmp"].n = w.n
      BY <1>9 DEF Reads, Wal!Read, Opened
    <2>4. CASE ~Wal!Torn(d["segment.json.tmp"])
      <3>1. Wal!Describes("segment.json.tmp", "open.wal")
        BY <1>1, <1>5, <1>9, <2>3, <2>4 DEF Wal!Describes
      <3>2. Wal!RecoverPrepared = Wal!Go(<<SealLog, NameMeta, EndOpen>>)
        BY <2>3, <2>4, <3>1, SealLists DEF Wal!RecoverPrepared
      <3>3. SealsLog(<<SealLog, NameMeta, EndOpen>>, d)
        BY <1>9, <2>4 DEF SealsLog, Sealable
      <3> QED BY <1>2, <1>4, <2>2, <3>2, <3>3, Plans DEF Fits
    <2>5. CASE Wal!Torn(d["segment.json.tmp"]) /\ "segment.json.incomplete" \notin DOMAIN d
      <3>1. Wal!RecoverPrepared = Wal!Go(<<SetAside>>)
        BY <2>3, <2>5 DEF Wal!RecoverPrepared, Wal!Has, Reads, SetAside
      <3>2. SetsAside(<<SetAside>>, d)
        BY <1>9, <2>5 DEF SetsAside, Sealable
      <3> QED BY <1>2, <1>4, <2>2, <3>1, <3>2, Plans DEF Fits
    <2>6. CASE Wal!Torn(d["segment.json.tmp"]) /\ "segment.json.incomplete" \in DOMAIN d
      <3> DEFINE c == Wal!Complete("segment.json.tmp", Meta("resealed", d))
      <3>1. Wal!RecoverPrepared = Wal!Go(<<c>> \o <<SealLog, NameMeta, EndOpen>>)
        BY <1>1, <2>3, <2>6, SealLists DEF Wal!RecoverPrepared, Wal!Has, Reads, Wal!SealedBy, Meta
      <3> HIDE DEF c
      <3>2. <<c>> \o <<SealLog, NameMeta, EndOpen>> = <<c, SealLog, NameMeta, EndOpen>>
        BY JoinOneThree
      <3>3. DescribesOn(<<c, SealLog, NameMeta, EndOpen>>, d)
        BY <1>9, <2>6 DEF DescribesOn, Sealable, c
      <3> QED BY <1>2, <1>4, <2>2, <3>1, <3>2, <3>3, Plans DEF Fits
    <2> QED BY <2>4, <2>5, <2>6
  <1> QED BY <1>1, <1>6, <1>7, <1>8, <1>9

LEMMA RecoverPreparedFits ==
  ASSUME NEW d, Reads(d), Prepared(d, owned)
  PROVE  Proceeds(d)
  <1>1. /\ {"sealed.wal", "segment.json.tmp"} \subseteq DOMAIN files
        /\ DOMAIN files \subseteq SealedFiles \union {"segment.json.tmp"}
        /\ Wal!Read("sealed.wal") = d["sealed.wal"] /\ Wal!Read("segment.json.tmp") = d["segment.json.tmp"]
    BY DEF Reads, Prepared, SealedLog, Wal!Read
  <1>2. Wal!RecoverWalInputs = Wal!RecoverSegment
    BY <1>1, NoMarks DEF SealedFiles
  <1>3. Wal!ValidState
    BY <1>1 DEF Wal!ValidState, Wal!Has, SealedFiles
  <1>4. Wal!RecoverSegment = Wal!RecoverSealed
    BY <1>1, <1>3 DEF Wal!RecoverSegment, Wal!Has, SealedFiles
  <1>5. Wal!Describes("segment.json.tmp", "sealed.wal")
    BY <1>1 DEF Wal!Describes, Prepared, SealedLog, Wal!Torn
  <1>6. Wal!RecoverSealed = Wal!Go(<<NameMeta, EndOpen>>)
    BY <1>1, <1>5, SealLists DEF Wal!RecoverSealed, Wal!Has, SealedFiles
  <1> QED BY <1>2, <1>4, <1>6, Plans DEF Finishes, Fits

LEMMA RecoverStored ==
  ASSUME NEW d, Reads(d), Stored(d, owned), owned \in Nat
  PROVE  Proceeds(d)
  <1>1. /\ {"sealed.wal", "segment.json"} \subseteq DOMAIN files
        /\ DOMAIN files \subseteq SealedFiles \union {"segment.json", "gc.json.tmp", "gc.json"}
        /\ Wal!Read("sealed.wal") = d["sealed.wal"] /\ Wal!Read("segment.json") = d["segment.json"]
    BY DEF Reads, Stored, SealedLog, Wal!Read
  <1>2. Wal!Describes("segment.json", "sealed.wal")
    BY <1>1 DEF Wal!Describes, Stored, SealedLog, Wal!Torn
  <1>3. "gc.json" \notin DOMAIN files => Wal!ValidState
    BY <1>1 DEF Wal!ValidState, Wal!Has, SealedFiles
  <1>4. CASE {"gc.json.tmp", "gc.json"} \cap DOMAIN files = {}
    <2>1. Wal!RecoverWalInputs = Wal!RecoverSegment
      BY <1>1, <1>4, NoMarks DEF SealedFiles
    <2>2. Wal!RecoverSegment = Wal!RecoverSealed
      BY <1>1, <1>3, <1>4 DEF Wal!RecoverSegment, Wal!Has, SealedFiles
    <2>3. Wal!TailReadable
      BY DEF Wal!TailReadable, Wal!Has, Stored, SealedLog, TailKept, Reads, Wal!Read, Wal!Torn
    <2>4. Wal!RecoverSealed = Wal!Go(<<>>)
      BY <1>1, <1>2, <2>3 DEF Wal!RecoverSealed, Wal!Has
    <2> QED BY <2>1, <2>2, <2>4, Plans DEF Fits
  <1>5. CASE "gc.json.tmp" \in DOMAIN files
    <2>1. "gc.json" \notin DOMAIN files /\ "gc.wal" \notin DOMAIN files /\ owned > 0 /\ owned # 0
      BY <1>1, <1>5 DEF Stored, Reads, SealedFiles
    <2>2. Wal!Loads
      BY <1>1, <1>2, <1>3, <2>1 DEF Wal!Loads, Wal!Has
    <2>3. Wal!Read("segment.json").n = owned
      BY <1>1, <2>1 DEF Stored, SealedLog
    <2>4. ~Wal!CollectRefused
      BY <2>1, <2>2, <2>3 DEF Wal!CollectRefused, Wal!Has
    <2>5. Wal!RecoverWalInputs = Wal!Go(Wal!CollectOps)
      BY <1>5, <2>1, <2>4 DEF Wal!RecoverWalInputs, Wal!GcPending, Wal!Has
    <2> DEFINE c == Wal!Complete("gc.json.tmp", Wal!Marker)
    <2>6. Wal!CollectOps = (<<c, NameMark>> \o <<TakeLog>>) \o <<EndMeta, EndLog, EndMark>>
      BY <1>1, <1>5, <2>1 DEF Wal!CollectOps, Wal!Has, NameMark, TakeLog, EndMeta, EndLog, EndMark
    <2> HIDE DEF c
    <2>7. <<c, NameMark>> \o <<TakeLog>> = <<c, NameMark, TakeLog>>
      BY JoinTwoOne
    <2>8. <<c, NameMark, TakeLog>> \o <<EndMeta, EndLog, EndMark>> =
             <<c, NameMark, TakeLog, EndMeta, EndLog, EndMark>>
      BY JoinThreeThree
    <2>9. Marks(Wal!CollectOps, d, owned)
      BY <1>5, <2>1, <2>6, <2>7, <2>8 DEF Marks, Reads, c
    <2> QED BY <2>5, <2>9, Plans DEF Collects, Fits
  <1>6. CASE "gc.json" \in DOMAIN files
    <2>1. "gc.json.tmp" \notin DOMAIN files /\ "gc.wal" \notin DOMAIN files /\ owned > 0 /\ owned # 0
      BY <1>1, <1>6 DEF Stored, Reads, SealedFiles
    <2>2. ~Wal!CollectRefused
      BY <1>6, <2>1 DEF Wal!CollectRefused, Wal!Has
    <2>3. Wal!RecoverWalInputs = Wal!Go(Wal!CollectOps)
      BY <1>6, <2>1, <2>2 DEF Wal!RecoverWalInputs, Wal!GcPending, Wal!Has
    <2>4. Wal!CollectOps = (<<>> \o <<TakeLog>>) \o <<EndMeta, EndLog, EndMark>>
      BY <1>1, <1>6 DEF Wal!CollectOps, Wal!Has, TakeLog, EndMeta, EndLog, EndMark
    <2>5. Wal!CollectOps = <<TakeLog, EndMeta, EndLog, EndMark>>
      <3>1. <<>> \o <<TakeLog>> = <<TakeLog>>
        BY JoinNone
      <3>2. <<TakeLog>> \o <<EndMeta, EndLog, EndMark>> = <<TakeLog, EndMeta, EndLog, EndMark>>
        BY JoinOneThree
      <3> QED BY <2>4, <3>1, <3>2
    <2>6. Empties(Wal!CollectOps, d, owned)
      BY <1>6, <2>5 DEF Empties, Reads
    <2> QED BY <2>3, <2>6, Plans DEF Collects, Fits
  <1> QED BY <1>4, <1>5, <1>6

LEMMA RecoverEmptied ==
  ASSUME NEW d, Reads(d), Emptied(d, owned), owned \in Nat
  PROVE  Proceeds(d)
  <1>1. /\ {"gc.wal", "gc.json"} \subseteq DOMAIN files
        /\ "gc.json.tmp" \notin DOMAIN files /\ "sealed.wal" \notin DOMAIN files /\ owned # 0
    BY DEF Reads, Emptied
  <1>2. ~Wal!CollectRefused
    BY <1>1 DEF Wal!CollectRefused, Wal!Has
  <1>3. Wal!RecoverWalInputs = Wal!Go(Wal!CollectOps)
    BY <1>1, <1>2 DEF Wal!RecoverWalInputs, Wal!GcPending, Wal!Has
  <1>4. Wal!CollectOps = (<<>> \o <<>>) \o <<EndMeta, EndLog, EndMark>>
    BY <1>1 DEF Wal!CollectOps, Wal!Has, EndMeta, EndLog, EndMark
  <1>5. Wal!CollectOps = <<EndMeta, EndLog, EndMark>>
    BY <1>4, JoinNone
  <1>6. Empties(Wal!CollectOps, d, owned)
    BY <1>5 DEF Empties
  <1> QED BY <1>3, <1>6, Plans DEF Collects, Fits

\* Recovery never refuses the files an interruption left, as long as they hold data.
LEMMA RecoveryProceeds ==
  ASSUME NEW d, Reads(d), Shape(d, owned), ~Gone(d, owned), owned \in Nat
  PROVE  Proceeds(d)
  BY RecoverFresh, RecoverLaid, RecoverDropped, RecoverOpened, RecoverPreparedFits, RecoverStored,
     RecoverEmptied DEF Shape

-----------------------------------------------------------------------------
(* Restarts: the operations on the files *)

LEMMA DataIs ==
  ASSUME NEW f
  PROVE  IsFun(Data(f)) /\ DOMAIN Data(f) = DOMAIN f /\ \A x \in DOMAIN f : Data(f)[x] = f[x].data
  BY DEF IsFun, Data

\* The operation is performed.
Performed(f, g, s, o) ==
    /\ Data(g) = DataResult(Data(f), Head(s)) /\ Data(g) \in DataPartial(Data(f), Head(s))
    /\ Paired(g) /\ (Clean(f) => Clean(g)) /\ Shape(Data(g), o)

LEMMA PerformedFits ==
  ASSUME NEW f, Paired(f), NEW s, NEW o, OpStep(s, Data(f), o)
  PROVE  Performed(f, Wal!Result(f, Head(s)), s, o)
  <1>1. ProperOp(Head(s)) /\ (Head(s).do = "rename" => Head(s).at \in DOMAIN f)
    BY DataIs DEF OpStep, Ready
  <1>2. /\ Data(Wal!Result(f, Head(s))) = DataResult(Data(f), Head(s))
        /\ Paired(Wal!Result(f, Head(s)))
        /\ Clean(f) => Clean(Wal!Result(f, Head(s)))
    BY <1>1, DataOfResult
  <1>3. DataResult(Data(f), Head(s)) \in DataPartial(Data(f), Head(s))
    BY DEF DataPartial
  <1> QED BY <1>2, <1>3 DEF OpStep, Performed

\* The operation is interrupted.
Breaks(f, g, s, o) ==
    Data(g) \in DataPartial(Data(f), Head(s)) /\ Paired(g) /\ Shape(Data(g), o)

LEMMA PartialFits ==
  ASSUME NEW f, Paired(f), NEW s, NEW o, OpStep(s, Data(f), o), NEW g \in Wal!Partial(f, Head(s))
  PROVE  Breaks(f, g, s, o)
  <1>1. /\ ProperOp(Head(s))
        /\ Head(s).do \in {"rename", "complete", "append", "truncate"} => Head(s).at \in DOMAIN f
    BY DataIs DEF OpStep, Ready
  <1>2. Data(g) \in DataPartial(Data(f), Head(s)) /\ Paired(g)
    BY <1>1, DataOfPartial
  <1> QED BY <1>2 DEF OpStep, Breaks

LEMMA PowerFits ==
  ASSUME NEW f, Paired(f), Clean(f), NEW s, NEW o, OpStep(s, Data(f), o),
         NEW h \in Wal!Partial(f, Head(s)), NEW g \in Wal!PowerLost(h)
  PROVE  Breaks(f, g, s, o) /\ Clean(g)
  <1> DEFINE op == Head(s)
  <1>1. /\ ProperOp(op)
        /\ op.do \in {"rename", "complete", "append", "truncate"} => op.at \in DOMAIN f
        /\ op.do = "write" => op.at \notin DOMAIN f
        /\ op.do \in {"append", "truncate"} => f[op.at].data \in LogContent
        /\ op.do = "complete" => op.is.of # "log"
    BY DataIs DEF OpStep, Ready
  <1>2. CASE op.do \notin Writing
    <2>1. /\ Data(h) \in {Data(f), DataResult(Data(f), op)} /\ Paired(h) /\ Clean(h)
      BY <1>1, <1>2, PartialMoved
    <2>2. Data(g) = Data(h) /\ Clean(g) /\ Paired(g)
      BY <2>1, PowerClean
    <2> QED BY <2>1, <2>2 DEF DataPartial, OpStep, Breaks
  <1>3. CASE op.do \in Writing
    <2>1. \A c \in LogContent : Wal!Size(c) \in Nat
      BY DEF LogContent, Wal!Size
    <2>2. op.is.of = "log" /\ op.at \in DOMAIN f => Wal!Size(f[op.at].data) \in Nat
      BY <1>1, <1>3, <2>1 DEF Writing
    <2> HIDE DEF op
    <2>3. Data(g) \in DataPartial(Data(f), op) /\ Clean(g) /\ Paired(g)
      BY <1>1, <2>2, DataOfPower DEF op
    <2> QED BY <2>3 DEF OpStep, Breaks, op
  <1> QED BY <1>2, <1>3

\* No operation of a list that fits meets a file that contradicts it.
LEMMA NoConflict ==
  ASSUME NEW f, NEW s, NEW o, OpStep(s, Data(f), o)
  PROVE  Wal!Possible(f, Head(s)) /\ ~Wal!MayDiffer(f, Head(s))
  <1> DEFINE op == Head(s)
             d == Data(f)
  <1>1. Ready(d, op) /\ DOMAIN d = DOMAIN f /\ (op.at \in DOMAIN f => d[op.at] = f[op.at].data)
    BY DataIs DEF OpStep
  <1> HIDE DEF op, d
  <1>2. Wal!Possible(f, op)
    BY <1>1 DEF Ready, Wal!Possible
  <1>3. ~Wal!MayDiffer(f, op)
    BY <1>1 DEF Ready, Wal!MayDiffer
  <1> QED BY <1>2, <1>3 DEF op

\* The collection does not notice that the name of the creation goes.
LEMMA EndOpenCollects ==
  ASSUME NEW s, NEW d, NEW o, NEW e, DOMAIN e = DOMAIN d \ {"open.json"},
         \A z \in DOMAIN d : z # "open.json" => e[z] = d[z], Collects(s, d, o)
  PROVE  Collects(s, e, o)
  <1>1. (Stored(d, o) => Stored(e, o)) /\ (Emptied(d, o) => Emptied(e, o))
    BY EndOpenKeeps
  <1>2. \A x \in {"gc.json", "gc.json.tmp"} : x \in DOMAIN e <=> x \in DOMAIN d
    OBVIOUS
  <1>3. CASE Marks(s, d, o)
    BY <1>1, <1>2, <1>3 DEF Marks, Collects
  <1>4. CASE Empties(s, d, o)
    BY <1>1, <1>2, <1>4 DEF Empties, Collects
  <1> QED BY <1>3, <1>4 DEF Collects

LEMMA EndOpenBreaks ==
  ASSUME NEW f, NEW s, NEW o, NEW g, Data(g) \in DataPartial(Data(f), EndOpen), Collects(s, Data(f), o)
  PROVE  Collects(s, Data(g), o)
  <1>1. Removes(Data(f), EndOpen, "open.json")
    BY RemoveLeaves DEF EndOpen, Wal!Names
  <1> DEFINE d == Data(f)
             e == DataResult(d, EndOpen)
  <1>2. DataPartial(d, EndOpen) = {d, e} /\ DOMAIN e = DOMAIN d \ {"open.json"}
        /\ \A z \in DOMAIN d : z # "open.json" => e[z] = d[z]
    BY <1>1 DEF Removes
  <1> HIDE DEF d, e
  <1>3. Collects(s, d, o) /\ Data(g) \in {d, e}
    BY <1>2 DEF d
  <1>4. Collects(s, e, o)
    BY <1>2, <1>3, EndOpenCollects
  <1> QED BY <1>3, <1>4

-----------------------------------------------------------------------------
(* Restarts: the inductive invariant *)

\* Failing calls or kills strike together with power failures.
Mixed == "power" \in strikes /\ strikes # {"power"}

\* The files are ones that recovery brings to an end, whatever of the work in progress is done.
Restartable ==
    /\ ~refused
    /\ Paired(files)
    /\ Shape(Data(files), owned)
    /\ Fits(todo, Data(files), owned)
    /\ gc # <<>> => Collects(gc, Data(files), owned) /\ todo \in {<<>>, <<EndOpen>>}
    /\ open /\ ~sealing => DOMAIN files = OpenFiles
    /\ "power" \in strikes => Clean(files)
    /\ task # "recover" => \A i \in DOMAIN todo : todo[i] # EndMark

RestartInvariant == Mixed \/ Wal!phase = "collected" \/ Restartable

\* The state a step starts from, and what it has to leave.
Going == WalInvariant /\ Restartable /\ ~Mixed /\ Wal!phase # "collected"
GoesOn == Restartable' \/ (Wal!phase)' = "collected"

LEMMA GoneCollected ==
  ASSUME NEW f, NEW o, Gone(Data(f), o)
  PROVE  PhaseIn(f, o) = "collected"
  BY DataIs DEF Gone, NoLog, PhaseIn, LogNames

LEMMA GoingIs ==
  ASSUME Going
  PROVE  /\ owned \in Nat /\ ~Gone(Data(files), owned) /\ IsFun(Data(files))
         /\ todo # <<>> => OpStep(todo, Data(files), owned)
         /\ gc # <<>> => Collects(gc, Data(files), owned) /\ OpStep(gc, Data(files), owned)
         /\ gc # <<>> /\ open => sealing
         /\ Fits(todo, Data(files), owned) /\ Shape(Data(files), owned) /\ Paired(files)
         /\ Reads(Data(files))
         /\ open \in BOOLEAN /\ sealing \in BOOLEAN
  <1>1. owned \in Nat /\ open \in BOOLEAN /\ sealing \in BOOLEAN
    BY DEF Going, WalInvariant
  <1>2. ~Gone(Data(files), owned)
    BY GoneCollected, ReadAsIn DEF Going
  <1>3. IsFun(Data(files)) /\ Reads(Data(files))
    BY DataIs DEF Reads
  <1>4. Fits(todo, Data(files), owned) /\ Shape(Data(files), owned) /\ Paired(files)
        /\ (gc # <<>> => Collects(gc, Data(files), owned))
        /\ (open /\ ~sealing => DOMAIN files = OpenFiles)
    BY DEF Going, Restartable
  <1>5. todo # <<>> => OpStep(todo, Data(files), owned)
    BY <1>2, <1>3, <1>4, FitsStep
  <1>6. gc # <<>> => OpStep(gc, Data(files), owned)
    BY <1>3, <1>4, CollectsStep
  <1>7. DOMAIN files = OpenFiles => ~Collects(gc, Data(files), owned)
    BY DataIs DEF OpenFiles, Collects, Marks, Empties, Stored, SealedLog, Emptied
  <1> QED BY <1>1, <1>2, <1>3, <1>4, <1>5, <1>6, <1>7

\* An open log of a recorder that still records.
LEMMA RecordingIs ==
  ASSUME Going, open, ~sealing
  PROVE  /\ DOMAIN files = OpenFiles /\ Opened(Data(files)) /\ owned = 0 /\ gc = <<>>
         /\ Data(files)["open.wal"] = files["open.wal"].data
  <1>1. DOMAIN files = OpenFiles /\ DOMAIN Data(files) = OpenFiles
        /\ Data(files)["open.wal"] = files["open.wal"].data
    BY DataIs DEF Going, Restartable, OpenFiles
  <1>2. Shape(Data(files), owned) /\ gc = <<>>
    BY GoingIs
  <1>3. owned = 0 /\ Opened(Data(files))
    BY <1>1, <1>2 DEF Shape, OpenFiles, Fresh, Laid, Dropped, Kept, Prepared, Stored, SealedLog, Emptied, Gone,
                      NoLog, LogNames
  <1> QED BY <1>1, <1>2, <1>3

LEMMA OpsDiffer ==
    /\ EndMark \notin {NewTmp, NewLog, NameIt, SealLog, NameMeta, EndOpen}
    /\ \A c : EndMark # Wal!Frame(c)
    /\ \A x, c : EndMark # Wal!WriteNew(x, c)
  BY DEF EndMark, NewTmp, NewLog, NameIt, SealLog, NameMeta, EndOpen, Wal!Frame, Wal!WriteNew, Wal!Rename,
         Wal!Remove, Wal!Op

LEMMA TodoTyped ==
  ASSUME WalInvariant
  PROVE  todo \in Seq(FileOp)
  <1>1. TodoSound /\ task \in Wal!Tasks /\ accepted \in Nat
    BY DEF WalInvariant
  <1>2. NewTmp \in FileOp /\ NewLog \in FileOp /\ NameIt \in FileOp
    <2>1. Wal!Creation \in Document /\ Wal!Log(0, 0) \in Document
      BY MarkersTyped DEF Wal!Creation, Kinds
    <2>2. {"open.json.tmp", "open.json", "open.wal"} \subseteq Wal!Names
      BY DEF Wal!Names
    <2> QED BY <2>1, <2>2, OpsTyped DEF NewTmp, NewLog, NameIt
  <1>3. CASE task = "create"
    <2>1. todo \in {<<NewTmp, NewLog, NameIt>>, <<NewLog, NameIt>>, <<NameIt>>}
      BY <1>1, <1>3 DEF TodoSound, Creating
    <2>2. \A a, b, c \in FileOp : {<<a, b, c>>, <<b, c>>, <<c>>} \subseteq Seq(FileOp)
      OBVIOUS
    <2> QED BY <1>2, <2>1, <2>2
  <1>4. CASE task = "append"
    <2>1. Wal!Frame(Wal!Log(accepted + 1, 0)) \in FileOp
      <3>1. Wal!Log(accepted + 1, 0) \in Document
        BY <1>1, MarkersTyped
      <3>2. "open.wal" \in Wal!Names
        BY DEF Wal!Names
      <3> QED BY <3>1, <3>2, OpsTyped
    <2>2. todo = <<Wal!Frame(Wal!Log(accepted + 1, 0))>>
      BY <1>1, <1>4 DEF TodoSound
    <2>3. \A a \in FileOp : <<a>> \in Seq(FileOp)
      OBVIOUS
    <2> QED BY <2>1, <2>2, <2>3
  <1>5. CASE task \in {"seal", "recover"}
    BY <1>1, <1>5 DEF TodoSound, Planned
  <1>6. CASE task = "none"
    BY <1>1, <1>6 DEF TodoSound
  <1> QED BY <1>1, <1>3, <1>4, <1>5, <1>6 DEF Wal!Tasks

-----------------------------------------------------------------------------
(* Restarts: every step keeps the invariant *)

\* What an action that touches no file has to show.
LEMMA SameFiles ==
  ASSUME Going, files' = files, owned' = owned, strikes' = strikes, refused' = refused,
         Fits(todo', Data(files), owned),
         gc' # <<>> => Collects(gc', Data(files), owned) /\ todo' \in {<<>>, <<EndOpen>>},
         open' /\ ~sealing' => open /\ ~sealing,
         task' # "recover" => \A i \in DOMAIN todo' : todo'[i] # EndMark
  PROVE  GoesOn
  BY DEF Going, Restartable, GoesOn

LEMMA CreateSegmentGoesOn ==
  ASSUME Going, Wal!CreateSegment
  PROVE  GoesOn
  <1>1. /\ files' = files /\ owned' = owned /\ strikes' = strikes /\ refused' = refused /\ gc' = gc
        /\ open' = open /\ sealing' = sealing /\ ~open /\ DOMAIN files = {}
        /\ todo' = <<NewTmp, NewLog, NameIt>>
    BY DEF Wal!CreateSegment, Wal!Begin, NewTmp, NewLog, NameIt
  <1>2. owned = 0
    BY <1>1, GoingIs, DataIs DEF Gone, NoLog
  <1>3. gc = <<>>
    BY <1>1, GoingIs, DataIs DEF Collects, Marks, Empties, Stored, SealedLog, Emptied
  <1>4. Fits(todo', Data(files), owned)
    BY <1>1, <1>2, DataIs DEF Fits, Creates
  <1>5. \A i \in DOMAIN todo' : todo'[i] # EndMark
    BY <1>1, OpsDiffer
  <1> QED BY <1>1, <1>3, <1>4, <1>5, SameFiles

LEMMA RecordGoesOn ==
  ASSUME Going, Wal!Record
  PROVE  GoesOn
  <1> DEFINE c == Wal!Log(files["open.wal"].data.n + 1, 0)
  <1>1. /\ files' = files /\ owned' = owned /\ strikes' = strikes /\ refused' = refused /\ gc' = gc
        /\ open' = open /\ sealing' = sealing /\ open /\ ~sealing
        /\ todo' = <<Wal!Frame(c)>> /\ ~Wal!Torn(files["open.wal"].data)
    BY DEF Wal!Record, Wal!Begin, Wal!Read
  <1>2. /\ DOMAIN files = OpenFiles /\ Opened(Data(files)) /\ owned = 0 /\ gc = <<>>
        /\ Data(files)["open.wal"] = files["open.wal"].data
    BY <1>1, RecordingIs
  <1>3. files["open.wal"].data.t = 0
    BY <1>1, <1>2 DEF Opened, LogContent, Wal!Torn
  <1>4. Appends(todo', Data(files))
    BY <1>1, <1>2, <1>3, DataIs DEF Appends
  <1>5. \A i \in DOMAIN todo' : todo'[i] # EndMark
    <2> HIDE DEF c
    <2> QED BY <1>1, OpsDiffer
  <1>6. Fits(todo', Data(files), owned)
    BY <1>2, <1>4 DEF Fits
  <1> QED BY <1>1, <1>2, <1>5, <1>6, SameFiles

LEMMA SealGoesOn ==
  ASSUME Going, Wal!Seal
  PROVE  GoesOn
  <1>1. /\ files' = files /\ owned' = owned /\ strikes' = strikes /\ refused' = refused /\ gc' = gc
        /\ open' = open /\ sealing' /\ open /\ ~sealing /\ records > 0
    BY DEF Wal!Seal
  <1>2. /\ DOMAIN files = OpenFiles /\ Opened(Data(files)) /\ owned = 0 /\ gc = <<>>
        /\ Data(files)["open.wal"] = files["open.wal"].data
    BY <1>1, RecordingIs
  <1>3. CASE Wal!Torn(Wal!Read("open.wal"))
    <2>1. task' = task /\ todo' = todo
      BY <1>3 DEF Wal!Seal
    <2> QED BY <1>1, <1>2, <2>1, SameFiles DEF Going, Restartable
  <1>4. CASE ~Wal!Torn(Wal!Read("open.wal"))
    <2> DEFINE w == Wal!WriteNew("segment.json.tmp", Meta("sealed", Data(files)))
    <2>1. todo' = Wal!SealOps("sealed", "open.wal")
      BY <1>4 DEF Wal!Seal, Wal!Begin
    <2>2. todo' = <<w, SealLog, NameMeta, EndOpen>>
      BY <1>2, <2>1, SealLists DEF Meta, Wal!Read
    <2>3. Data(files)["open.wal"].t = 0
      BY <1>2, <1>4 DEF Opened, LogContent, Wal!Torn, Wal!Read
    <2>4. Data(files)["open.wal"].n > 0
      <3>1. /\ OpenSound(files["open.wal"], accepted) /\ accepted = records /\ accepted \in Nat
            /\ files["open.wal"].safe # Wal!Nothing
        BY <1>1 DEF Going, WalInvariant, FilesSound, RecordingSound
      <3> QED BY <1>1, <1>2, <3>1 DEF OpenSound, LogContent
    <2>5. Describes(todo', Data(files))
      BY <1>2, <2>2, <2>3, <2>4, DataIs DEF Describes, Sealable, OpenFiles
    <2>6. Fits(todo', Data(files), owned)
      BY <1>2, <2>5 DEF Fits
    <2>7. w # EndMark
      BY OpsDiffer
    <2> HIDE DEF w
    <2>8. \A i \in DOMAIN todo' : todo'[i] # EndMark
      BY <2>2, <2>7, OpsDiffer
    <2> QED BY <1>1, <1>2, <2>6, <2>8, SameFiles
  <1> QED BY <1>3, <1>4

\* The catalog takes, and the drain collects, a segment of which nothing is left to do
\* but the removal of the creation.
LEMMA LoadedIs ==
  ASSUME Going, gc = <<>>, task # "recover", Wal!Loads, ~Wal!Has("gc.json")
  PROVE  /\ Stored(Data(files), owned) /\ todo \in {<<>>, <<EndOpen>>}
         /\ "gc.json" \notin DOMAIN files /\ "sealed.wal" \in DOMAIN files
         /\ Wal!Read("segment.json").n = Data(files)["sealed.wal"].n
         /\ Data(files)["sealed.wal"].n \in Nat /\ Data(files)["sealed.wal"].n > 0
  <1> DEFINE d == Data(files)
  <1>1. /\ "segment.json" \in DOMAIN files /\ "gc.json" \notin DOMAIN files /\ "sealed.wal" \in DOMAIN files
        /\ "open.wal" \notin DOMAIN files
    BY DEF Wal!Loads, Wal!ValidState, Wal!Has
  <1>2. DOMAIN d = DOMAIN files /\ d["segment.json"] = Wal!Read("segment.json")
    BY <1>1, DataIs DEF Wal!Read
  <1> HIDE DEF d
  <1>3. Shape(d, owned) /\ Fits(todo, d, owned)
    BY GoingIs DEF d
  <1>4. Stored(d, owned)
    BY <1>1, <1>2, <1>3 DEF Shape, Fresh, Laid, Opened, OpenFiles, Dropped, Kept, Prepared, SealedFiles, Emptied,
                            Gone, NoLog, LogNames
  <1>5. ~Creates(todo, d) /\ ~Appends(todo, d) /\ ~Describes(todo, d) /\ ~DescribesOn(todo, d)
    BY <1>1, <1>2 DEF Creates, Laid, Appends, Opened, OpenFiles, Describes, DescribesOn, Sealable
  <1>6. ~SetsAside(todo, d) /\ ~SealsLog(todo, d) /\ ~Quarantines(todo, d)
    BY <1>1, <1>2 DEF SetsAside, SealsLog, Quarantines, Sealable, Opened, OpenFiles
  <1>7. ~Discards(todo, d)
    BY <1>1, <1>2 DEF Discards, Kept, Laid, Opened, OpenFiles, Dropped
  <1>8. ~Gone(d, owned) /\ ~Prepared(d, owned)
    BY <1>1, <1>2 DEF Gone, NoLog, LogNames, Prepared, SealedFiles
  <1>9. ~Collects(todo, d, owned)
    <2>1. \A i \in DOMAIN todo : todo[i] # EndMark
      BY DEF Going, Restartable
    <2>2. \A a, b, c, e, g \in FileOp \union {EndMark} :
             /\ <<a, b, c, e, g, EndMark>>[6] = EndMark /\ 6 \in DOMAIN <<a, b, c, e, g, EndMark>>
             /\ <<b, c, e, g, EndMark>>[5] = EndMark /\ 5 \in DOMAIN <<b, c, e, g, EndMark>>
             /\ <<c, e, g, EndMark>>[4] = EndMark /\ 4 \in DOMAIN <<c, e, g, EndMark>>
             /\ <<e, g, EndMark>>[3] = EndMark /\ 3 \in DOMAIN <<e, g, EndMark>>
             /\ <<g, EndMark>>[2] = EndMark /\ 2 \in DOMAIN <<g, EndMark>>
      OBVIOUS
    <2> DEFINE w == Wal!WriteNew("gc.json.tmp", Wal!Marker)
               c == Wal!Complete("gc.json.tmp", Wal!Marker)
    <2>3. w \in FileOp /\ c \in FileOp /\ NameMark \in FileOp /\ TakeLog \in FileOp /\ EndMeta \in FileOp
          /\ EndLog \in FileOp
      BY OpsTyped, MarkersTyped DEF NameMark, TakeLog, EndMeta, EndLog, Wal!Names
    <2> HIDE DEF w, c
    <2>4. Collects(todo, d, owned) =>
             todo \in {<<w, NameMark, TakeLog, EndMeta, EndLog, EndMark>>,
                       <<c, NameMark, TakeLog, EndMeta, EndLog, EndMark>>,
                       <<NameMark, TakeLog, EndMeta, EndLog, EndMark>>,
                       <<TakeLog, EndMeta, EndLog, EndMark>>, <<EndMeta, EndLog, EndMark>>, <<EndLog, EndMark>>}
      BY DEF Collects, Marks, Empties, w, c
    <2> QED BY <2>1, <2>2, <2>3, <2>4
  <1>10. todo \in {<<>>, <<EndOpen>>}
    BY <1>3, <1>5, <1>6, <1>7, <1>8, <1>9 DEF Fits, Finishes
  <1>11. /\ Wal!Read("segment.json").n = d["sealed.wal"].n /\ d["sealed.wal"].n \in Nat /\ d["sealed.wal"].n > 0
    BY <1>2, <1>4 DEF Stored, SealedLog, LogContent
  <1> QED BY <1>1, <1>4, <1>10, <1>11 DEF d

LEMMA PublishGoesOn ==
  ASSUME Going, Wal!Publish
  PROVE  GoesOn
  <1>1. /\ files' = files /\ strikes' = strikes /\ refused' = refused /\ gc' = gc /\ gc = <<>>
        /\ open' = open /\ sealing' = sealing /\ todo' = todo /\ task' = task /\ task # "recover"
        /\ owned = 0 /\ owned' = Wal!Read("segment.json").n /\ Wal!Loads /\ ~Wal!Has("gc.json")
    BY DEF Wal!Publish
  <1> DEFINE d == Data(files)
  <1>2. Stored(d, owned) /\ todo \in {<<>>, <<EndOpen>>} /\ owned' = d["sealed.wal"].n /\ owned' > 0
    BY <1>1, LoadedIs
  <1> HIDE DEF d
  <1>3. Stored(d, owned')
    BY <1>1, <1>2 DEF Stored
  <1>4. Shape(d, owned') /\ Fits(todo, d, owned')
    BY <1>2, <1>3 DEF Shape, Fits, Finishes
  <1>5. Shape(Data(files'), owned') /\ Fits(todo', Data(files'), owned')
    BY <1>1, <1>4 DEF d
  <1> QED BY <1>1, <1>5 DEF Going, Restartable, GoesOn

LEMMA CollectGoesOn ==
  ASSUME Going, Wal!Collect
  PROVE  GoesOn
  <1>1. /\ files' = files /\ strikes' = strikes /\ refused' = refused /\ gc' = Wal!CollectOps /\ gc = <<>>
        /\ open' = open /\ sealing' = sealing /\ todo' = todo /\ task' = task /\ task # "recover"
        /\ owned > 0 /\ owned' = owned /\ Wal!Loads /\ ~Wal!Has("gc.json")
    BY DEF Wal!Collect
  <1>2. /\ Stored(Data(files), owned) /\ todo \in {<<>>, <<EndOpen>>}
        /\ "gc.json" \notin DOMAIN files /\ "sealed.wal" \in DOMAIN files
    BY <1>1, LoadedIs
  <1> DEFINE c == IF "gc.json.tmp" \in DOMAIN files THEN Wal!Complete("gc.json.tmp", Wal!Marker)
                  ELSE Wal!WriteNew("gc.json.tmp", Wal!Marker)
  <1>3. Wal!CollectOps = (<<c, NameMark>> \o <<TakeLog>>) \o <<EndMeta, EndLog, EndMark>>
    BY <1>2 DEF Wal!CollectOps, Wal!Has, NameMark, TakeLog, EndMeta, EndLog, EndMark
  <1> HIDE DEF c
  <1>4. <<c, NameMark>> \o <<TakeLog>> = <<c, NameMark, TakeLog>>
    BY JoinTwoOne
  <1>5. <<c, NameMark, TakeLog>> \o <<EndMeta, EndLog, EndMark>> =
           <<c, NameMark, TakeLog, EndMeta, EndLog, EndMark>>
    BY JoinThreeThree
  <1>6. Marks(gc', Data(files), owned)
    BY <1>1, <1>2, <1>3, <1>4, <1>5, DataIs DEF Marks, c
  <1> QED BY <1>1, <1>2, <1>6, SameFiles DEF Going, Restartable, Collects

LEMMA RecordRefusedGoesOn ==
  ASSUME Going, Wal!RecordRefused
  PROVE  GoesOn
  <1>1. /\ files' = files /\ owned' = owned /\ strikes' = strikes /\ refused' = refused /\ gc' = gc
        /\ open' = open /\ sealing' = sealing /\ todo' = todo /\ task' = task
    BY DEF Wal!RecordRefused
  <1> QED BY <1>1 DEF Going, Restartable, GoesOn

LEMMA RestartGoesOn ==
  ASSUME Going, Wal!Restart
  PROVE  GoesOn
  <1>1. /\ files' = files /\ owned' = owned /\ strikes' = strikes /\ refused' = refused /\ gc' = gc
        /\ open' = open /\ sealing' = sealing /\ todo' = todo /\ task' = "recover"
    BY DEF Wal!Restart
  <1> QED BY <1>1 DEF Going, Restartable, GoesOn

\* Recovery has a plan for the files it finds.
LEMMA RecoverGoesOn ==
  ASSUME Going, Wal!Recover
  PROVE  GoesOn
  <1>1. Proceeds(Data(files))
    BY GoingIs, RecoveryProceeds
  <1>2. Wal!RecoverWalInputs.ok /\ Fits(Wal!RecoverWalInputs.ops, Data(files), owned)
    BY <1>1 DEF Proceeds
  <1>3. /\ files' = files /\ owned' = owned /\ strikes' = strikes /\ gc' = gc
        /\ open' = open /\ sealing' = sealing /\ todo' = Wal!RecoverWalInputs.ops
        /\ refused' = FALSE /\ (task' # "recover" => todo' = <<>>) /\ task = "recover"
    BY <1>2 DEF Wal!Recover
  <1>4. gc = <<>> /\ ~open /\ ~refused
    BY <1>3 DEF Going, WalInvariant, TodoSound, Restartable
  <1>5. task' # "recover" => \A i \in DOMAIN todo' : todo'[i] # EndMark
    BY <1>3
  <1> QED BY <1>2, <1>3, <1>4, <1>5 DEF Going, Restartable, GoesOn

LEMMA RecoverConflictGoesOn ==
  ASSUME Going, Wal!RecoverConflict
  PROVE  GoesOn
  <1>1. todo # <<>> /\ (~Wal!Possible(files, Head(todo)) \/ Wal!MayDiffer(files, Head(todo)))
    BY DEF Wal!RecoverConflict
  <1> QED BY <1>1, GoingIs, NoConflict

\* The recorder's call in progress, done with its operation or broken off in it.
LEMMA RecordingKept ==
  ASSUME Going, todo # <<>>, open, ~sealing, NEW g, Data(g) \in DataPartial(Data(files), Head(todo))
  PROVE  DOMAIN g = OpenFiles
  <1>1. task = "append" /\ todo = <<Wal!Frame(Wal!Log(accepted + 1, 0))>>
    BY DEF Going, WalInvariant, TodoSound, Wal!Tasks
  <1>2. Head(todo).do = "append"
    <2>1. Head(todo) = Wal!Frame(Wal!Log(accepted + 1, 0))
      BY <1>1
    <2> QED BY <2>1 DEF Wal!Frame, Wal!Op
  <1>3. OpStep(todo, Data(files), owned)
    BY GoingIs
  <1> QED BY <1>2, <1>3, DataIs DEF OpStep

\* The collection in progress is not touched by what the recorder has left to do.
LEMMA CollectingKept ==
  ASSUME Going, todo # <<>>, gc # <<>>, NEW g, Data(g) \in DataPartial(Data(files), Head(todo))
  PROVE  Collects(gc, Data(g), owned) /\ Tail(todo) = <<>>
  <1>1. todo = <<EndOpen>> /\ Collects(gc, Data(files), owned)
    BY DEF Going, Restartable
  <1>2. Head(todo) = EndOpen /\ Tail(todo) = <<>>
    BY <1>1
  <1> QED BY <1>1, <1>2, EndOpenBreaks

LEMMA PerformGoesOn ==
  ASSUME Going, Wal!Perform
  PROVE  GoesOn
  <1>1. /\ todo # <<>> /\ files' = Wal!Result(files, Head(todo)) /\ todo' = Tail(todo)
        /\ gc' = gc /\ sealing' = sealing /\ owned' = owned /\ strikes' = strikes /\ refused' = refused
    BY DEF Wal!Perform
  <1>2. OpStep(todo, Data(files), owned) /\ Paired(files)
    BY <1>1, GoingIs
  <1>3. Performed(files, files', todo, owned)
    BY <1>1, <1>2, PerformedFits
  <1>4. /\ Data(files') = DataResult(Data(files), Head(todo))
        /\ Data(files') \in DataPartial(Data(files), Head(todo))
        /\ Paired(files') /\ (Clean(files) => Clean(files')) /\ Shape(Data(files'), owned)
    BY <1>3 DEF Performed
  <1>5. Fits(todo', Data(files'), owned)
    BY <1>1, <1>2, <1>4 DEF OpStep
  <1>6. gc' # <<>> => Collects(gc', Data(files'), owned) /\ todo' \in {<<>>, <<EndOpen>>}
    BY <1>1, <1>4, CollectingKept
  <1>7. ASSUME open', ~sealing'  PROVE DOMAIN files' = OpenFiles
    <2>0. TodoSound /\ task \in Wal!Tasks /\ open \in BOOLEAN
      BY DEF Going, WalInvariant
    <2>1. CASE open
      BY <1>1, <1>4, <1>7, <2>1, RecordingKept
    <2>2. CASE ~open
      <3>1. Tail(todo) = <<>> /\ task # "recover" /\ task # "seal"
        BY <1>7, <2>2 DEF Wal!Perform
      <3>2. Creating(todo, files, accepted, owned)
        BY <1>1, <2>0, <2>2, <3>1 DEF TodoSound, Wal!Tasks
      <3>3. todo \in {<<NewTmp, NewLog, NameIt>>, <<NewLog, NameIt>>, <<NameIt>>}
        BY <3>2 DEF Creating
      <3>4. \A a, b, c : Tail(<<a, b, c>>) # <<>> /\ Tail(<<b, c>>) # <<>>
        OBVIOUS
      <3>5. todo = <<NameIt>>
        BY <3>1, <3>3, <3>4
      <3>6. Head(todo) = NameIt
        BY <3>5
      <3> QED BY <1>2, <1>4, <3>6, DataIs DEF OpStep
    <2> QED BY <2>0, <2>1, <2>2
  <1>8. ASSUME task' # "recover"  PROVE \A i \in DOMAIN todo' : todo'[i] # EndMark
    <2>1. task # "recover"
      BY <1>8 DEF Wal!Perform
    <2>2. \A i \in DOMAIN todo : todo[i] # EndMark
      BY <2>1 DEF Going, Restartable
    <2>3. todo \in Seq(FileOp)
      BY TodoTyped DEF Going
    <2>4. \A i \in DOMAIN Tail(todo) : Tail(todo)[i] = todo[i + 1] /\ i + 1 \in DOMAIN todo
      BY <1>1, <2>3
    <2> QED BY <1>1, <2>2, <2>4
  <1>9. ~refused /\ ("power" \in strikes => Clean(files))
    BY DEF Going, Restartable
  <1>10. Restartable'
    BY <1>1, <1>4, <1>5, <1>6, <1>7, <1>8, <1>9 DEF Restartable
  <1> QED BY <1>10 DEF GoesOn

\* A step of the collection, done or broken off.
LEMMA DrainedFits ==
  ASSUME Going, gc # <<>>, NEW g, Data(g) \in DataPartial(Data(files), Head(gc)), ~Gone(Data(g), owned)
  PROVE  /\ Shape(Data(g), owned) /\ Fits(todo, Data(g), owned)
         /\ ~(open /\ ~sealing) /\ todo \in {<<>>, <<EndOpen>>}
  <1>1. Collects(gc, Data(files), owned) /\ ~(open /\ ~sealing) /\ IsFun(Data(files))
    BY GoingIs
  <1>2. todo \in {<<>>, <<EndOpen>>}
    BY DEF Going, Restartable
  <1>3. Stored(Data(g), owned) \/ Emptied(Data(g), owned)
    BY <1>1, CollectsStep
  <1> QED BY <1>1, <1>2, <1>3 DEF Shape, Fits, Finishes

LEMMA PerformGcGoesOn ==
  ASSUME Going, Wal!PerformGc
  PROVE  GoesOn
  <1>1. /\ gc # <<>> /\ files' = Wal!Result(files, Head(gc)) /\ gc' = Tail(gc)
        /\ todo' = todo /\ task' = task /\ open' = open
        /\ sealing' = sealing /\ owned' = owned /\ strikes' = strikes /\ refused' = refused
    BY DEF Wal!PerformGc
  <1>2. OpStep(gc, Data(files), owned) /\ Paired(files) /\ Collects(gc, Data(files), owned) /\ IsFun(Data(files))
    BY <1>1, GoingIs
  <1>3. Performed(files, files', gc, owned)
    BY <1>1, <1>2, PerformedFits
  <1>4. /\ Data(files') = DataResult(Data(files), Head(gc))
        /\ Data(files') \in DataPartial(Data(files), Head(gc))
        /\ Paired(files') /\ (Clean(files) => Clean(files'))
    BY <1>3 DEF Performed
  <1>5. CASE Gone(Data(files'), owned')
    BY <1>5, GoneCollected, ReadAsIn DEF GoesOn
  <1>6. CASE ~Gone(Data(files'), owned')
    <2>1. /\ Shape(Data(files'), owned) /\ Fits(todo, Data(files'), owned)
          /\ ~(open /\ ~sealing) /\ todo \in {<<>>, <<EndOpen>>}
      BY <1>1, <1>4, <1>6, DrainedFits
    <2>2. Collects(gc', Data(files'), owned)
      BY <1>1, <1>2, <1>4, <1>6, CollectsStep
    <2>3. ~refused /\ ("power" \in strikes => Clean(files))
          /\ (task # "recover" => \A i \in DOMAIN todo : todo[i] # EndMark)
      BY DEF Going, Restartable
    <2>4. Restartable'
      BY <1>1, <1>4, <2>1, <2>2, <2>3 DEF Restartable
    <2> QED BY <2>4 DEF GoesOn
  <1> QED BY <1>5, <1>6

\* A call can only fail where the power does not.
LEMMA NoPower ==
  ASSUME Going, NEW k \in {"call", "kill"}, Wal!Fault(k)
  PROVE  "power" \notin strikes
  BY DEF Going, Mixed, Wal!Fault

LEMMA CallFailsGoesOn ==
  ASSUME Going, Wal!CallFails
  PROVE  GoesOn
  <1>1. /\ todo # <<>> /\ files' \in Wal!Partial(files, Head(todo)) /\ todo' = <<>> /\ gc' = gc
        /\ open' = open /\ sealing' = sealing /\ owned' = owned /\ strikes' = strikes /\ refused' = refused
        /\ Wal!Fault("call")
    BY DEF Wal!CallFails
  <1>2. "power" \notin strikes
    BY <1>1, NoPower
  <1>3. OpStep(todo, Data(files), owned) /\ Paired(files)
    BY <1>1, GoingIs
  <1>4. Breaks(files, files', todo, owned)
    BY <1>1, <1>3, PartialFits
  <1>5. Data(files') \in DataPartial(Data(files), Head(todo)) /\ Paired(files') /\ Shape(Data(files'), owned)
    BY <1>4 DEF Breaks
  <1>6. gc' # <<>> => Collects(gc', Data(files'), owned)
    BY <1>1, <1>5, CollectingKept
  <1>7. open' /\ ~sealing' => DOMAIN files' = OpenFiles
    BY <1>1, <1>5, RecordingKept
  <1>8. ~refused /\ Fits(todo', Data(files'), owned)
    BY <1>1 DEF Going, Restartable, Fits
  <1>9. Restartable'
    BY <1>1, <1>2, <1>5, <1>6, <1>7, <1>8 DEF Restartable
  <1> QED BY <1>9 DEF GoesOn

LEMMA DrainFailsGoesOn ==
  ASSUME Going, Wal!DrainFails
  PROVE  GoesOn
  <1>1. /\ gc # <<>> /\ files' \in Wal!Partial(files, Head(gc)) /\ gc' = <<>>
        /\ todo' = todo /\ task' = task /\ open' = open
        /\ sealing' = sealing /\ owned' = owned /\ strikes' = strikes /\ refused' = refused
        /\ Wal!Fault("call")
    BY DEF Wal!DrainFails
  <1>2. "power" \notin strikes
    BY <1>1, NoPower
  <1>3. OpStep(gc, Data(files), owned) /\ Paired(files)
    BY <1>1, GoingIs
  <1>4. Breaks(files, files', gc, owned)
    BY <1>1, <1>3, PartialFits
  <1>5. Data(files') \in DataPartial(Data(files), Head(gc)) /\ Paired(files')
    BY <1>4 DEF Breaks
  <1>6. CASE Gone(Data(files'), owned')
    BY <1>6, GoneCollected, ReadAsIn DEF GoesOn
  <1>7. CASE ~Gone(Data(files'), owned')
    <2>1. /\ Shape(Data(files'), owned) /\ Fits(todo, Data(files'), owned) /\ ~(open /\ ~sealing)
      BY <1>1, <1>5, <1>7, DrainedFits
    <2>2. ~refused /\ (task # "recover" => \A i \in DOMAIN todo : todo[i] # EndMark)
      BY DEF Going, Restartable
    <2>3. Restartable'
      BY <1>1, <1>2, <1>5, <2>1, <2>2 DEF Restartable
    <2> QED BY <2>3 DEF GoesOn
  <1> QED BY <1>6, <1>7

\* The process is gone: what is left is on disk.
LEMMA StoppedGoesOn ==
  ASSUME Going, Wal!Stopped, Paired(files'), Shape(Data(files'), owned), "power" \in strikes => Clean(files')
  PROVE  GoesOn
  <1>1. /\ open' = FALSE /\ todo' = <<>> /\ gc' = <<>> /\ task' = "none"
        /\ owned' = owned /\ refused' = refused /\ strikes' = strikes
    BY DEF Wal!Stopped
  <1>2. Fits(todo', Data(files'), owned')
    BY <1>1 DEF Fits
  <1> QED BY <1>1, <1>2 DEF Going, Restartable, GoesOn

LEMMA RecoverFailsGoesOn ==
  ASSUME Going, Wal!RecoverFails
  PROVE  GoesOn
  <1>1. todo # <<>> /\ files' \in Wal!Partial(files, Head(todo)) /\ Wal!Stopped /\ Wal!Fault("call")
    BY DEF Wal!RecoverFails
  <1>2. "power" \notin strikes
    BY <1>1, NoPower
  <1>3. Breaks(files, files', todo, owned)
    BY <1>1, GoingIs, PartialFits
  <1> QED BY <1>1, <1>2, <1>3, StoppedGoesOn DEF Breaks

\* The recorder's list is broken off first, then the collection's.
LEMMA FirstBreaks ==
  ASSUME Going, NEW f \in Wal!Interrupt(files, todo)
  PROVE  /\ Paired(f) /\ Shape(Data(f), owned)
         /\ gc # <<>> => Collects(gc, Data(f), owned)
  <1>1. CASE todo = <<>>
    <2>1. f = files
      BY <1>1 DEF Wal!Interrupt
    <2> QED BY <2>1, GoingIs
  <1>2. CASE todo # <<>>
    <2>1. f \in Wal!Partial(files, Head(todo))
      BY <1>2 DEF Wal!Interrupt
    <2>2. Breaks(files, f, todo, owned)
      BY <1>2, <2>1, GoingIs, PartialFits
    <2> QED BY <1>2, <2>2, CollectingKept DEF Breaks
  <1> QED BY <1>1, <1>2

LEMMA KillGoesOn ==
  ASSUME Going, Wal!Kill
  PROVE  GoesOn
  <1>1. files' \in Wal!Interrupted /\ Wal!Stopped /\ Wal!Fault("kill")
    BY DEF Wal!Kill
  <1>2. "power" \notin strikes
    BY <1>1, NoPower
  <1>3. PICK f \in Wal!Interrupt(files, todo) : files' \in Wal!Interrupt(f, gc)
    BY <1>1 DEF Wal!Interrupted
  <1>4. Paired(f) /\ Shape(Data(f), owned) /\ (gc # <<>> => Collects(gc, Data(f), owned))
    BY FirstBreaks
  <1>5. CASE gc = <<>>
    <2>1. files' = f
      BY <1>3, <1>5 DEF Wal!Interrupt
    <2> QED BY <1>1, <1>2, <1>4, <2>1, StoppedGoesOn
  <1>6. CASE gc # <<>>
    <2>1. files' \in Wal!Partial(f, Head(gc))
      BY <1>3, <1>6 DEF Wal!Interrupt
    <2>2. OpStep(gc, Data(f), owned)
      BY <1>4, <1>6, DataIs, CollectsStep
    <2>3. Breaks(f, files', gc, owned)
      BY <1>4, <2>1, <2>2, PartialFits
    <2> QED BY <1>1, <1>2, <2>3, StoppedGoesOn DEF Breaks
  <1> QED BY <1>5, <1>6

\* While the drain collects, nothing the recorder has left to do can be lost.
LEMMA FirstClean ==
  ASSUME Going, Clean(files), gc # <<>>, NEW f \in Wal!Interrupt(files, todo)
  PROVE  Clean(f)
  <1>1. CASE todo = <<>>
    BY <1>1 DEF Wal!Interrupt
  <1>2. CASE todo # <<>>
    <2>1. f \in Wal!Partial(files, Head(todo))
      BY <1>2 DEF Wal!Interrupt
    <2>2. Head(todo) = EndOpen
      <3>1. todo = <<EndOpen>>
        BY <1>2 DEF Going, Restartable
      <3> QED BY <3>1
    <2>3. EndOpen.do = "remove"
      BY DEF EndOpen, Wal!Remove, Wal!Op
    <2>4. ProperOp(Head(todo)) /\ Paired(files)
      BY <1>2, GoingIs DEF OpStep
    <2>5. Head(todo).do \notin Writing /\ Head(todo).do # "rename"
      BY <2>2, <2>3 DEF Writing
    <2> QED BY <2>1, <2>4, <2>5, PartialMoved
  <1> QED BY <1>1, <1>2

LEMMA PowerLossGoesOn ==
  ASSUME Going, Wal!PowerLoss
  PROVE  GoesOn
  <1>1. Wal!Stopped /\ Wal!Fault("power") /\ \E h \in Wal!Interrupted : files' \in Wal!PowerLost(h)
    BY DEF Wal!PowerLoss
  <1>2. PICK h \in Wal!Interrupted : files' \in Wal!PowerLost(h)
    BY <1>1
  <1>3. PICK f \in Wal!Interrupt(files, todo) : h \in Wal!Interrupt(f, gc)
    BY <1>2 DEF Wal!Interrupted
  <1>4. Clean(files) /\ Paired(files) /\ Shape(Data(files), owned)
    BY <1>1 DEF Wal!Fault, Going, Restartable
  <1>5. CASE gc = <<>> /\ todo = <<>>
    <2>1. h = files
      BY <1>3, <1>5 DEF Wal!Interrupt
    <2>2. Data(files') = Data(files) /\ Clean(files') /\ Paired(files')
      BY <1>2, <1>4, <2>1, PowerClean
    <2> QED BY <1>1, <1>4, <2>2, StoppedGoesOn
  <1>6. CASE gc = <<>> /\ todo # <<>>
    <2>1. h \in Wal!Partial(files, Head(todo))
      BY <1>3, <1>6 DEF Wal!Interrupt
    <2>2. OpStep(todo, Data(files), owned)
      BY <1>6, GoingIs
    <2>3. Breaks(files, files', todo, owned) /\ Clean(files')
      BY <1>2, <1>4, <2>1, <2>2, PowerFits
    <2> QED BY <1>1, <2>3, StoppedGoesOn DEF Breaks
  <1>7. CASE gc # <<>>
    <2>1. h \in Wal!Partial(f, Head(gc))
      BY <1>3, <1>7 DEF Wal!Interrupt
    <2>2. Paired(f) /\ Clean(f) /\ Collects(gc, Data(f), owned)
      BY <1>4, <1>7, FirstBreaks, FirstClean
    <2>3. OpStep(gc, Data(f), owned)
      BY <2>2, DataIs, CollectsStep
    <2>4. Breaks(f, files', gc, owned) /\ Clean(files')
      BY <1>2, <2>1, <2>2, <2>3, PowerFits
    <2> QED BY <1>1, <2>4, StoppedGoesOn DEF Breaks
  <1> QED BY <1>5, <1>6, <1>7

LEMMA StepGoesOn ==
  ASSUME Going, Wal!Next
  PROVE  GoesOn
  BY CreateSegmentGoesOn, RecordGoesOn, RecordRefusedGoesOn, SealGoesOn, PerformGoesOn, PublishGoesOn,
     CollectGoesOn, PerformGcGoesOn, RestartGoesOn, RecoverGoesOn, RecoverConflictGoesOn, CallFailsGoesOn,
     DrainFailsGoesOn, RecoverFailsGoesOn, KillGoesOn, PowerLossGoesOn DEF Wal!Next

\* The kinds of fault are those of the behaviour.
LEMMA StrikesStay ==
  ASSUME Wal!Next \/ UNCHANGED logVars
  PROVE  strikes' = strikes
  BY DEF Wal!Next, logVars, Wal!CreateSegment, Wal!Record, Wal!RecordRefused, Wal!Seal, Wal!Perform,
         Wal!Publish, Wal!Collect, Wal!PerformGc, Wal!Restart, Wal!Recover, Wal!RecoverConflict,
         Wal!CallFails, Wal!DrainFails, Wal!RecoverFails, Wal!Kill, Wal!PowerLoss, Wal!Stopped

\* A segment that is collected stays so.
LEMMA CollectedStays ==
  ASSUME SegmentStep, Wal!phase = "collected"
  PROVE  (Wal!phase)' = "collected"
  BY DEF SegmentStep, Wal!Segment!Next, Wal!Segment!segment, Wal!Segment!Write, Wal!Segment!Accept,
         Wal!Segment!Append, Wal!Segment!Lose, Wal!Segment!Seal, Wal!Segment!Abandon, Wal!Segment!Publish,
         Wal!Segment!Collect

LEMMA RestartStep ==
  ASSUME WalInvariant, RestartInvariant, [StorageNext]_<<drainVars, logVars, half>>
  PROVE  RestartInvariant'
  <1>1. Wal!Next \/ UNCHANGED logVars
    BY DEF StorageNext
  <1>2. strikes' = strikes
    BY <1>1, StrikesStay
  <1>3. CASE Mixed
    BY <1>2, <1>3 DEF Mixed, RestartInvariant
  <1>4. CASE Wal!phase = "collected"
    <2>1. SegmentStep
      BY StorageStep DEF LogStep
    <2> QED BY <1>4, <2>1, CollectedStays DEF RestartInvariant
  <1>5. CASE ~Mixed /\ Wal!phase # "collected"
    <2>1. Going
      BY <1>5 DEF RestartInvariant, Going
    <2>2. CASE Wal!Next
      BY <2>1, <2>2, StepGoesOn DEF GoesOn, RestartInvariant
    <2>3. CASE UNCHANGED logVars
      <3>1. /\ files' = files /\ owned' = owned /\ strikes' = strikes /\ refused' = refused /\ gc' = gc
            /\ open' = open /\ sealing' = sealing /\ todo' = todo /\ task' = task
        BY <2>3 DEF logVars
      <3>2. Restartable'
        BY <2>1, <3>1 DEF Going, Restartable
      <3> QED BY <3>2 DEF RestartInvariant
    <2> QED BY <1>1, <2>2, <2>3
  <1> QED BY <1>3, <1>4, <1>5

LEMMA RestartStarts ==
  ASSUME Wal!Init
  PROVE  RestartInvariant
  <1>1. /\ DOMAIN files = {} /\ open = FALSE /\ todo = <<>> /\ gc = <<>> /\ owned = 0 /\ refused = FALSE
    BY DEF Wal!Init
  <1>2. Shape(Data(files), owned) /\ Fits(todo, Data(files), owned)
    BY <1>1, DataIs DEF Shape, Fresh, Fits
  <1>3. Paired(files) /\ Clean(files)
    BY <1>1 DEF Paired, Clean
  <1>4. Restartable
    BY <1>1, <1>2, <1>3 DEF Restartable
  <1> QED BY <1>4 DEF RestartInvariant

-----------------------------------------------------------------------------
(* Restarts: where recovery ends *)

\* A list with an operation in it is not empty.
LEMMA NotEmpty ==
  ASSUME NEW S, NEW s \in Seq(S), NEW t \in Seq(S), s # <<>> \/ t # <<>>
  PROVE  s \o t \in Seq(S) /\ s \o t # <<>>
  <1>1. Len(s) + Len(t) > 0 /\ Len(s \o t) = Len(s) + Len(t) /\ s \o t \in Seq(S)
    OBVIOUS
  <1> QED BY <1>1

LEMMA ShortLists ==
  ASSUME NEW S, NEW a \in S, NEW b \in S, NEW c \in S
  PROVE  /\ <<>> \in Seq(S) /\ <<a>> \in Seq(S) /\ <<a, b>> \in Seq(S) /\ <<a, b, c>> \in Seq(S)
         /\ <<a>> # <<>> /\ <<a, b>> # <<>> /\ <<a, b, c>> # <<>>
  OBVIOUS

\* The collection and the naming of a sealed log have something to do.
LEMMA CollectNotEmpty == Wal!CollectOps # <<>>
  <1> DEFINE c == IF Wal!Has("gc.json.tmp") THEN Wal!Complete("gc.json.tmp", Wal!Marker)
                  ELSE Wal!WriteNew("gc.json.tmp", Wal!Marker)
             s == IF Wal!Has("gc.json") THEN <<>> ELSE <<c, NameMark>>
             t == IF Wal!Has("sealed.wal") THEN <<TakeLog>> ELSE <<>>
             u == <<EndMeta, EndLog, EndMark>>
             S == {c, NameMark, TakeLog, EndMeta, EndLog, EndMark}
  <1>1. Wal!CollectOps = (s \o t) \o u
    BY DEF Wal!CollectOps, NameMark, TakeLog, EndMeta, EndLog, EndMark
  <1> HIDE DEF c
  <1>2. s \in Seq(S) /\ t \in Seq(S) /\ u \in Seq(S) /\ u # <<>>
    <2>1. {c, NameMark, TakeLog, EndMeta, EndLog, EndMark} \subseteq S
      OBVIOUS
    <2> HIDE DEF S
    <2> QED BY <2>1, ShortLists
  <1> HIDE DEF s, t, u, S
  <1>3. s \o t \in Seq(S)
    BY <1>2
  <1> QED BY <1>1, <1>2, <1>3, NotEmpty

LEMMA SealNotEmpty ==
  ASSUME NEW from, NEW k
  PROVE  Wal!PublishPrepared(from) # <<>> /\ Wal!SealOps(k, from) # <<>>
  <1> DEFINE m == Wal!Rename(from, "sealed.wal")
             w == Wal!WriteNew("segment.json.tmp", Wal!SealedBy(k, from))
             s == IF from = "sealed.wal" THEN <<>> ELSE <<m>>
             t == <<NameMeta, EndOpen>>
             S == {w, m, NameMeta, EndOpen}
  <1>1. Wal!PublishPrepared(from) = s \o t /\ Wal!SealOps(k, from) = <<w>> \o Wal!PublishPrepared(from)
    BY DEF Wal!PublishPrepared, Wal!SealOps, NameMeta, EndOpen
  <1> HIDE DEF m, w
  <1>2. s \in Seq(S) /\ t \in Seq(S) /\ t # <<>> /\ <<w>> \in Seq(S)
    <2>1. {w, m, NameMeta, EndOpen} \subseteq S
      OBVIOUS
    <2> HIDE DEF S
    <2> QED BY <2>1, ShortLists
  <1> HIDE DEF s, t, S
  <1>3. s \o t \in Seq(S) /\ s \o t # <<>>
    BY <1>2, NotEmpty
  <1>4. <<w>> \o (s \o t) # <<>>
    BY <1>2, <1>3, NotEmpty
  <1> QED BY <1>1, <1>3, <1>4

\* An open log is never left as it is.
LEMMA OpenNotEmpty ==
  ASSUME "open.wal" \in DOMAIN files
  PROVE  Wal!RecoverOpen # Wal!Go(<<>>)
  <1>1. (\A s : s # <<>> => Wal!Go(s) # Wal!Go(<<>>)) /\ Wal!Refuse # Wal!Go(<<>>)
    BY DEF Wal!Go, Wal!Refuse
  <1>2. Wal!AbandonOps # <<>>
    <2> DEFINE n == Wal!Rename(Wal!Source, "abandoned.json")
               c == Wal!Complete("abandoned.json", Wal!Orphan)
               s == IF Wal!Incomplete THEN <<KeepTorn>> ELSE <<>>
               t == IF Wal!Source # "none" THEN <<n>>
                    ELSE IF ~Wal!Has("abandoned.json") THEN <<NewOrphan>>
                    ELSE IF Wal!Torn(Wal!Read("abandoned.json")) THEN <<c>> ELSE <<>>
               S == {KeepTorn, DropLog, n, NewOrphan, c}
    <2>1. Wal!AbandonOps = (s \o <<DropLog>>) \o t
      BY DEF Wal!AbandonOps, Wal!Has, KeepTorn, DropLog, NewOrphan
    <2> HIDE DEF n, c
    <2>2. s \in Seq(S) /\ t \in Seq(S) /\ <<DropLog>> \in Seq(S) /\ <<DropLog>> # <<>>
      <3>1. {KeepTorn, DropLog, n, NewOrphan, c} \subseteq S
        OBVIOUS
      <3> HIDE DEF S
      <3> QED BY <3>1, ShortLists
    <2> HIDE DEF s, t, S
    <2>3. s \o <<DropLog>> \in Seq(S) /\ s \o <<DropLog>> # <<>>
      BY <2>2, NotEmpty
    <2> QED BY <2>1, <2>2, <2>3, NotEmpty
  <1>3. Wal!Abandon # Wal!Go(<<>>)
    BY <1>1, <1>2 DEF Wal!Abandon
  <1>4. Wal!Go(Wal!Quarantine) # Wal!Go(<<>>)
    <2>1. Wal!Quarantine # <<>>
      BY DEF Wal!Quarantine
    <2> QED BY <1>1, <2>1
  <1>5. Wal!RecoverPrepared # Wal!Go(<<>>)
    <2> DEFINE c == Wal!Complete("segment.json.tmp", Wal!SealedBy("resealed", "open.wal"))
    <2>1. Wal!PublishPrepared("open.wal") = <<SealLog, NameMeta, EndOpen>>
      BY SealLists
    <2> HIDE DEF c
    <2>2. <<c>> \o Wal!PublishPrepared("open.wal") = <<c, SealLog, NameMeta, EndOpen>>
      BY <2>1, JoinOneThree
    <2>3. <<c>> \o Wal!PublishPrepared("open.wal") # <<>> /\ Wal!PublishPrepared("open.wal") # <<>>
          /\ <<SetAside>> # <<>>
      BY <2>1, <2>2
    <2> QED BY <1>1, <2>3 DEF Wal!RecoverPrepared, SetAside, c
  <1>6. Wal!Go(Wal!SealOps("resealed", "open.wal")) # Wal!Go(<<>>)
    BY <1>1, SealNotEmpty
  <1> QED BY <1>1, <1>3, <1>4, <1>5, <1>6 DEF Wal!RecoverOpen

\* Startup recovery (recover_wal_inputs, recover_segment), the recorder and the drain keep to
\* files of a few shapes and to lists of operations that fit them, as long as the failures are of
\* one kind and the segment holds data: the inductive invariant of the two theorems below.
THEOREM RestartSound == StorageSpec => []RestartInvariant
  <1>1. StorageInit => RestartInvariant
    BY RestartStarts DEF StorageInit
  <1>2. WalInvariant /\ RestartInvariant /\ [StorageNext]_<<drainVars, logVars, half>> => RestartInvariant'
    BY RestartStep
  <1> QED BY <1>1, <1>2, LogSound, PTL DEF StorageSpec

\* Startup recovery has an answer for whatever power failures alone, or failing calls and kills
\* without them, leave of a segment at any of its file operations: it refuses only a segment of
\* which the collection has left no data.
THEOREM RestartsRecover == StorageSpec => []RestartRecovers
  <1>1. RestartInvariant => RestartRecovers
    BY DEF RestartInvariant, Mixed, Restartable, RestartRecovers, Wal!RestartRecovers
  <1> QED BY <1>1, RestartSound, PTL

\* The next operation of the recorder, of recovery and of the drain finds the file it acts on,
\* finds none where it creates or renames to one, and completes only what it would have written.
OperationsApply ==
    Mixed \/ Wal!phase = "collected" \/
    /\ todo # <<>> => Wal!Possible(files, Head(todo)) /\ ~Wal!MayDiffer(files, Head(todo))
    /\ gc # <<>> => Wal!Possible(files, Head(gc)) /\ ~Wal!MayDiffer(files, Head(gc))

\* No call on a segment (create_segment, append, seal, recover_segment, collect_verified) ever meets
\* a file it did not leave there, also when the drain collects while the recorder ends its seal:
\* write_new never finds its file, rename never its target, a continued write never other bytes.
THEOREM OperationsAlwaysApply == StorageSpec => []OperationsApply
  <1>1. WalInvariant /\ RestartInvariant => OperationsApply
    <2> SUFFICES ASSUME WalInvariant, RestartInvariant, ~Mixed, Wal!phase # "collected"
                 PROVE  OperationsApply
      BY DEF OperationsApply
    <2>1. Going
      BY DEF RestartInvariant, Going
    <2>2. (todo # <<>> => OpStep(todo, Data(files), owned)) /\ (gc # <<>> => OpStep(gc, Data(files), owned))
      BY <2>1, GoingIs
    <2> QED BY <2>2, NoConflict DEF OperationsApply
  <1> QED BY <1>1, LogSound, RestartSound, PTL

\* Recovery is over when it finds nothing to do: what was accepted is then sealed and loads, or
\* the catalog owns it.
RecoveryComplete ==
    Wal!RecoverWalInputs = Wal!Go(<<>>) => accepted = 0 \/ Wal!phase = "collected" \/ Wal!Loads

\* A startup that goes on without work (recover_wal_inputs) has not left an accepted observation
\* behind: whatever failures came before, of whatever kinds, each is in a sealed segment that
\* load_segment accepts, or was collected.
THEOREM RecoveryLeavesNothing == StorageSpec => []RecoveryComplete
  <1>1. ASSUME WalInvariant, Wal!RecoverWalInputs = Wal!Go(<<>>), accepted # 0, Wal!phase # "collected"
        PROVE  Wal!Loads
    <2>1. accepted \in Nat /\ owned \in Nat /\ FilesSound(files, accepted, owned)
      BY <1>1 DEF WalInvariant
    <2>2. "abandoned.wal" \notin DOMAIN files
      BY <1>1, <2>1 DEF FilesSound, AbandonedSound
    <2>3. "sealed.wal" \in DOMAIN files \/ "open.wal" \in DOMAIN files \/ "gc.wal" \in DOMAIN files
      <3>1. CASE owned = 0
        BY <1>1, <2>1, <2>2, <3>1 DEF FilesSound, LogNames
      <3>2. CASE owned > 0
        BY <1>1, <2>2, <3>2 DEF Wal!phase, Wal!Has
      <3> QED BY <2>1, <3>1, <3>2
    <2>4. \A s : Wal!Go(s) = Wal!Go(<<>>) => s = <<>>
      BY DEF Wal!Go
    <2>5. Wal!Refuse # Wal!Go(<<>>)
      BY DEF Wal!Refuse, Wal!Go
    <2>6. ~Wal!GcPending
      <3>1. Wal!CollectOps # <<>>
        BY CollectNotEmpty
      <3> QED BY <1>1, <2>4, <2>5, <3>1 DEF Wal!RecoverWalInputs
    <2>7. Wal!RecoverSegment = Wal!Go(<<>>) /\ Wal!ValidState /\ "gc.wal" \notin DOMAIN files
      BY <1>1, <2>3, <2>5, <2>6 DEF Wal!RecoverWalInputs, Wal!RecoveryPending, Wal!RecoverSegment, Wal!GcPending,
                                    Wal!Has
    <2>8. "open.wal" \notin DOMAIN files
      <3>1. SUFFICES ASSUME "open.wal" \in DOMAIN files PROVE FALSE
        OBVIOUS
      <3>2. Wal!RecoverOpen = Wal!Go(<<>>)
        BY <2>7, <3>1 DEF Wal!RecoverSegment, Wal!Has
      <3> QED BY <2>4, <2>5, <3>1, <3>2, OpenNotEmpty
    <2>9. Wal!RecoverSealed = Wal!Go(<<>>)
      BY <2>3, <2>7, <2>8 DEF Wal!RecoverSegment, Wal!Has
    <2>10. Wal!PublishPrepared("sealed.wal") # <<>> /\ Wal!SealOps("resealed", "sealed.wal") # <<>>
      BY SealNotEmpty
    <2>11. Wal!Has("segment.json") /\ Wal!Describes("segment.json", "sealed.wal")
      BY <2>4, <2>5, <2>9, <2>10 DEF Wal!RecoverSealed
    <2> QED BY <2>7, <2>11 DEF Wal!Loads
  <1>2. WalInvariant => RecoveryComplete
    BY <1>1 DEF RecoveryComplete
  <1> QED BY <1>2, LogSound, PTL
=============================================================================
