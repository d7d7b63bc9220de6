--------------------------- MODULE ReplayRunProofs ---------------------------
(* Theorems about ReplayRun, for every set of programs, of any length, and  *)
(* any number of pauses and faults.                                         *)
EXTENDS ReplayRun, SequenceTheorems, TLAPS

-----------------------------------------------------------------------------
(* Types *)

Operation == {"ADMIT", "SUBMISSION", "ACCEPT", "FILL", "VALUATION", "CANCEL", "TERMINAL"}
Kind == {"OPEN", "BAR", "INPUT_END", "CANCEL_INPUT", "PAUSE", "RESUME", "TERMINATE"}
Fact == [op : Operation, bar : Nat, ready : BOOLEAN, delivered : BOOLEAN]
Side == {"none", "BUY", "SELL"}
Participant == [pending : [side : Side, bar : Nat], finished : BOOLEAN]
State == [cursor : Nat, status : {"RUNNING", "PAUSED", "TERMINATED"}, phase : {"OPEN", "CLOSE"},
          finished : BOOLEAN, cancelled : BOOLEAN, outcome : Outcomes, part : Participant, clock : Nat]
Mem == [state : State, part : Participant, clock : Nat]
Row == [kind : Kind, outcome : Outcomes, start : Nat, facts : Seq(Fact), state : State, ready : BOOLEAN]
Pc == {"idle", "bind", "recover", "rederive", "prepare", "install", "deliver", "acknowledge"}
Loop == [up : BOOLEAN, healthy : BOOLEAN, rt : BOOLEAN, state : State, part : Participant,
         clock : Nat, known : Seq(Row)]
Call == [pc : Pc, step : Row \cup {<<>>}, done : Nat, deliver : BOOLEAN, events : SUBSET Nat]

Types ==
  /\ program \in Programs
  /\ store \in {"absent", "unbound", "bound"}
  /\ rows \in Seq(Row)
  /\ records \in Seq(Fact)
  /\ consumed \subseteq DOMAIN records
  /\ loop \in Loop
  /\ call \in Call
  /\ faults \in 0..MaxFaults

-----------------------------------------------------------------------------
(* The inductive invariant *)

\* Every stored step comes out again when it is derived from the memory before
\* it and from its own execution prefix.
Chain ==
  \A k \in DOMAIN rows :
    \A mem \in {MemoryAt(k - 1)}, r \in {rows[k]}, prefix \in {Prefix(rows[k])} :
      Rederives(mem, r, prefix)

AllReady == \A k \in DOMAIN rows : rows[k].ready

\* Memory stands at the end of a Ready journal.
Current == loop.known = rows /\ AllReady /\ Memory(loop) = MemoryAt(Len(rows))

\* The derived step is not stored yet.
Preparing ==
  /\ AllReady
  /\ call.step \in Row /\ ~call.step.ready /\ call.done = 0
  /\ \A mem \in {MemoryAt(Len(rows))}, r \in {call.step}, prefix \in {records} :
       Rederives(mem, r, prefix)
  /\ loop.part = call.step.state.part /\ loop.clock = call.step.state.clock

\* The stored step is the last one, and its first facts are executed.
Installing ==
  /\ rows # <<>> /\ call.step = rows[Len(rows)] /\ ~call.step.ready
  /\ call.done <= Len(call.step.facts)
  /\ call.step.start + call.done <= Len(records)
  /\ loop.part = call.step.state.part /\ loop.clock = call.step.state.clock

\* Recovery has derived the first steps again.
Rederiving ==
  /\ Len(loop.known) <= Len(rows)
  /\ \A k \in 1..Len(loop.known) : loop.known[k] = rows[k] /\ rows[k].ready
  /\ Memory(loop) = MemoryAt(Len(loop.known))

Blank == loop.known = <<>> /\ Memory(loop) = [state |-> Initial, part |-> Genesis, clock |-> 0]

LoopSound ==
  /\ store # "bound" => rows = <<>> /\ records = <<>>
  /\ loop.healthy => store = "bound" /\ call.pc \in {"idle", "deliver", "acknowledge"} /\ Current
  /\ call.pc = "bind" => store = "unbound" /\ Blank
  /\ call.pc \in {"prepare", "install", "rederive"} => store = "bound"
  /\ call.pc = "prepare" => Preparing
  /\ call.pc = "install" => Installing
  /\ call.pc = "rederive" => Rederiving

ReplayInvariant == Types /\ Lineage /\ Chain /\ LoopSound

-----------------------------------------------------------------------------
(* What the execution prefix means to a derivation: the operations in it,   *)
(* never the flags of its records.                                          *)

Same(p, q) == Len(p) = Len(q) /\ \A n \in 1..Len(p) : p[n].op = q[n].op

\* The facts of a bar are facts.
LEMMA FactsType ==
  ASSUME NEW names \in Seq(Operation), NEW i \in Nat
  PROVE  Facts(names, i) \in Seq(Fact)
<1>1. Len(names) \in Nat /\ DOMAIN names = 1..Len(names)  OBVIOUS
<1>2. \A n \in 1..Len(names) :
        [op |-> names[n], bar |-> i, ready |-> TRUE, delivered |-> FALSE] \in Fact
  BY <1>1 DEF Fact
<1>3. [n \in 1..Len(names) |->
         [op |-> names[n], bar |-> i, ready |-> TRUE, delivered |-> FALSE]] \in [1..Len(names) -> Fact]
  BY <1>2
<1> QED  BY <1>1, <1>3 DEF Facts

LEMMA NamedFacts ==
  ASSUME NEW i \in Nat
  PROVE  /\ Facts(<<"FILL">>, i) \in Seq(Fact)
         /\ Facts(<<"VALUATION">>, i) \in Seq(Fact)
         /\ Facts(<<"ADMIT", "SUBMISSION", "ACCEPT">>, i) \in Seq(Fact)
         /\ Facts(<<"ADMIT", "SUBMISSION", "ACCEPT", "FILL">>, i) \in Seq(Fact)
         /\ Facts(<<"CANCEL", "TERMINAL">>, i) \in Seq(Fact)
         /\ <<>> \in Seq(Fact)
<1>1. /\ <<"FILL">> \in Seq(Operation)
      /\ <<"VALUATION">> \in Seq(Operation)
      /\ <<"ADMIT", "SUBMISSION", "ACCEPT">> \in Seq(Operation)
      /\ <<"ADMIT", "SUBMISSION", "ACCEPT", "FILL">> \in Seq(Operation)
      /\ <<"CANCEL", "TERMINAL">> \in Seq(Operation)
  BY DEF Operation
<1>2. /\ Facts(<<"FILL">>, i) \in Seq(Fact)
      /\ Facts(<<"VALUATION">>, i) \in Seq(Fact)
      /\ Facts(<<"ADMIT", "SUBMISSION", "ACCEPT">>, i) \in Seq(Fact)
      /\ Facts(<<"ADMIT", "SUBMISSION", "ACCEPT", "FILL">>, i) \in Seq(Fact)
      /\ Facts(<<"CANCEL", "TERMINAL">>, i) \in Seq(Fact)
  BY <1>1, FactsType, Zenon
<1>3. <<>> \in Seq(Fact)  OBVIOUS
<1> QED  BY ONLY <1>2, <1>3, Zenon

LEMMA OpsSame ==
  ASSUME NEW p \in Seq(Fact), NEW q \in Seq(Fact), Same(p, q), NEW names
  PROVE  Ops(p, names) = Ops(q, names)
<1>1. DOMAIN p = 1..Len(p) /\ DOMAIN q = 1..Len(q)  OBVIOUS
<1>2. {n \in DOMAIN p : p[n].op \in names} = {n \in DOMAIN q : q[n].op \in names}
  BY <1>1 DEF Same
<1> QED  BY <1>2 DEF Ops

LEMMA SameBook ==
  ASSUME NEW p \in Seq(Fact), NEW q \in Seq(Fact), Same(p, q)
  PROVE  Active(p) = Active(q) /\ Held(p) = Held(q)
BY OpsSame DEF Active, Held

LEMMA SameConcat ==
  ASSUME NEW p \in Seq(Fact), NEW q \in Seq(Fact), Same(p, q), NEW f \in Seq(Fact)
  PROVE  p \o f \in Seq(Fact) /\ q \o f \in Seq(Fact) /\ Same(p \o f, q \o f)
<1>1. Len(p) = Len(q) /\ Len(p) \in Nat /\ Len(f) \in Nat  BY DEF Same
<1>2. p \o f \in Seq(Fact) /\ q \o f \in Seq(Fact)  OBVIOUS
<1>3. Len(p \o f) = Len(p) + Len(f) /\ Len(q \o f) = Len(q) + Len(f)  OBVIOUS
<1>4. ASSUME NEW n \in 1..Len(p \o f)
      PROVE  (p \o f)[n].op = (q \o f)[n].op
  <2>1. CASE n <= Len(p)
    BY <2>1, <1>1, <1>3 DEF Same
  <2>2. CASE n > Len(p)
    <3>1. (p \o f)[n] = f[n - Len(p)] /\ (q \o f)[n] = f[n - Len(q)]  BY <2>2, <1>1, <1>3
    <3> QED  BY <3>1, <1>1
  <2> QED  BY <2>1, <2>2, <1>1, <1>3
<1> QED  BY <1>1, <1>2, <1>3, <1>4 DEF Same

\* Trading::process asks the candidate only for what works and what is held.
LEMMA BarFactsSame ==
  ASSUME NEW p \in Seq(Fact), NEW q \in Seq(Fact), Same(p, q), NEW i \in Nat
  PROVE  BarFacts(i, p) = BarFacts(i, q) /\ BarFacts(i, p) \in Seq(Fact)
<1> DEFINE fill == IF ~Native /\ Active(p) /\ program.bars[i].ok THEN Facts(<<"FILL">>, i) ELSE <<>>
           exposed == IF Native THEN Held(p) ELSE Ops(p \o fill, {"FILL"}) > 0
           value == IF exposed THEN Facts(<<"VALUATION">>, i) ELSE <<>>
           book == p \o fill \o value
           wanted == IF Held(book) THEN program.bars[i].exit ELSE program.bars[i].entry
           order == IF ~Native /\ ~Active(book) /\ wanted
                      THEN Facts(<<"ADMIT", "SUBMISSION", "ACCEPT">>, i) ELSE <<>>
           exposedQ == IF Native THEN Held(q) ELSE Ops(q \o fill, {"FILL"}) > 0
           bookQ == q \o fill \o value
           wantedQ == IF Held(bookQ) THEN program.bars[i].exit ELSE program.bars[i].entry
<1>1. fill \in Seq(Fact) /\ value \in Seq(Fact) /\ order \in Seq(Fact)
  BY NamedFacts
<1>2. Active(p) = Active(q) /\ Held(p) = Held(q)  BY SameBook
<1>3. p \o fill \in Seq(Fact) /\ q \o fill \in Seq(Fact) /\ Same(p \o fill, q \o fill)
  BY <1>1, SameConcat
<1>4. exposed = exposedQ
  <2>1. Ops(p \o fill, {"FILL"}) = Ops(q \o fill, {"FILL"})
    <3> HIDE DEF fill
    <3> QED  BY <1>3, OpsSame
  <2> QED  BY <2>1, <1>2
<1>5. book \in Seq(Fact) /\ bookQ \in Seq(Fact) /\ Same(book, bookQ)
  <2> HIDE DEF fill, value
  <2> QED  BY <1>1, <1>3, SameConcat
<1>6. Active(book) = Active(bookQ) /\ Held(book) = Held(bookQ)  
  <2> HIDE DEF book, bookQ
  <2> QED  BY <1>5, SameBook
<1>7. BarFacts(i, p) = fill \o value \o order  BY DEF BarFacts
<1>8. BarFacts(i, q) = fill \o value \o order
  <2> DEFINE fillQ == IF ~Native /\ Active(q) /\ program.bars[i].ok THEN Facts(<<"FILL">>, i) ELSE <<>>
             valueQ == IF exposedQ THEN Facts(<<"VALUATION">>, i) ELSE <<>>
             orderQ == IF ~Native /\ ~Active(bookQ) /\ wantedQ
                         THEN Facts(<<"ADMIT", "SUBMISSION", "ACCEPT">>, i) ELSE <<>>
  <2>1. fillQ = fill  BY <1>2
  <2>2. valueQ = value  
    <3> HIDE DEF exposed, exposedQ
    <3> QED  BY <1>4
  <2>3. orderQ = order
    <3> HIDE DEF book, bookQ
    <3> QED  BY <1>6
  <2>4. BarFacts(i, q) = fillQ \o valueQ \o orderQ  BY <2>1, <2>2 DEF BarFacts
  <2> HIDE DEF fillQ, valueQ, orderQ, fill, value, order
  <2> QED  BY <2>1, <2>2, <2>3, <2>4
<1>9. fill \o value \o order \in Seq(Fact)
  <2> HIDE DEF fill, value, order
  <2> QED  BY <1>1
<1> QED  
  <2> HIDE DEF fill, value, order
  <2> QED BY <1>7, <1>8, <1>9

LEMMA DeriveFactsSame ==
  ASSUME NEW p \in Seq(Fact), NEW q \in Seq(Fact), Same(p, q), NEW mem \in Mem, NEW kind
  PROVE  DeriveFacts(mem, p, kind) = DeriveFacts(mem, q, kind) /\ DeriveFacts(mem, p, kind) \in Seq(Fact)
<1> DEFINE i == mem.state.cursor + 1
<1>1. mem.state.cursor \in Nat  BY DEF Mem, State
<1>2. i \in Nat  BY <1>1
<1> HIDE DEF i
<1>3. BarFacts(i, p) = BarFacts(i, q) /\ BarFacts(i, p) \in Seq(Fact)  BY <1>2, BarFactsSame
<1>4. StopFacts(i, p) = StopFacts(i, q) /\ StopFacts(i, p) \in Seq(Fact)
  BY <1>2, SameBook, NamedFacts DEF StopFacts
<1>5. OpeningFacts(mem.part, i) \in Seq(Fact)  BY <1>2, NamedFacts DEF OpeningFacts
<1>6. <<>> \in Seq(Fact)  OBVIOUS
<1>7. \A x : DeriveFacts(mem, x, kind) =
        CASE kind = "OPEN" -> OpeningFacts(mem.part, i)
          [] kind = "BAR" -> BarFacts(i, x)
          [] kind \in {"INPUT_END", "CANCEL_INPUT"} -> StopFacts(i, x)
          [] OTHER -> <<>>
  BY DEF DeriveFacts, i
<1> QED  BY ONLY <1>3, <1>4, <1>5, <1>6, <1>7

\* The memory after derive.
LEMMA DeriveMemorySame ==
  ASSUME NEW p \in Seq(Fact), NEW q \in Seq(Fact), Same(p, q), NEW mem \in Mem, NEW kind
  PROVE  DeriveMemory(mem, p, kind) = DeriveMemory(mem, q, kind)
<1> DEFINE i == mem.state.cursor + 1
           f == DeriveFacts(mem, p, kind)
<1>1. f \in Seq(Fact) /\ DeriveFacts(mem, q, kind) = f  BY DeriveFactsSame
<1> HIDE DEF f
<1>2. Active(p \o f) = Active(q \o f) /\ Held(p \o f) = Held(q \o f)
  BY <1>1, SameConcat, SameBook
<1>3. Signal(mem.part, i, p \o f) = Signal(mem.part, i, q \o f)  BY <1>2 DEF Signal
<1>4. \A x : DeriveMemory(mem, x, kind) =
        CASE kind = "OPEN" -> [mem EXCEPT !.clock = 2 * i - 1, !.part.pending = NoSignal]
          [] kind = "BAR" -> [mem EXCEPT !.clock = 2 * i,
               !.part.pending = IF Native THEN Signal(mem.part, i, x \o DeriveFacts(mem, x, kind)) ELSE NoSignal]
          [] kind \in {"INPUT_END", "CANCEL_INPUT"} ->
               [mem EXCEPT !.part = [pending |-> NoSignal, finished |-> TRUE]]
          [] OTHER -> mem
  BY DEF DeriveMemory
<1> DEFINE after(s) == 
        CASE kind = "OPEN" -> [mem EXCEPT !.clock = 2 * i - 1, !.part.pending = NoSignal]
          [] kind = "BAR" -> [mem EXCEPT !.clock = 2 * i, !.part.pending = IF Native THEN s ELSE NoSignal]
          [] kind \in {"INPUT_END", "CANCEL_INPUT"} ->
               [mem EXCEPT !.part = [pending |-> NoSignal, finished |-> TRUE]]
          [] OTHER -> mem
<1>5. DeriveMemory(mem, p, kind) = after(Signal(mem.part, i, p \o f))  BY <1>4 DEF f
<1>6. DeriveMemory(mem, q, kind) = after(Signal(mem.part, i, q \o f))  BY <1>1, <1>4
<1> HIDE DEF after, i
<1> QED  BY <1>3, <1>5, <1>6

LEMMA ValidSame ==
  ASSUME NEW p \in Seq(Fact), NEW q \in Seq(Fact), Same(p, q), NEW x
  PROVE  ValidExecution(x, p) = ValidExecution(x, q)
BY SameBook DEF ValidExecution

\* A step comes out of a derivation whatever became of the flags of the
\* records since then.
LEMMA RederivesSame ==
  ASSUME NEW p \in Seq(Fact), NEW q \in Seq(Fact), Same(p, q), NEW mem \in Mem, NEW r,
         Rederives(mem, r, p)
  PROVE  Rederives(mem, r, q)
<1> DEFINE f == DeriveFacts(mem, p, r.kind)
           m == DeriveMemory(mem, p, r.kind)
<1>1. f \in Seq(Fact) /\ DeriveFacts(mem, q, r.kind) = f  BY DeriveFactsSame
<1>2. DeriveMemory(mem, q, r.kind) = m  BY DeriveMemorySame
<1>3. Len(p) = Len(q)  BY DEF Same
<1>4. Derive(mem, p, r.kind, r.outcome) = Derive(mem, q, r.kind, r.outcome)
  <2> HIDE DEF f, m
  <2> QED  BY <1>1, <1>2, <1>3 DEF Derive, f, m
<1>5. ValidExecution(mem.part, p) = ValidExecution(mem.part, q)  BY ValidSame
<1>6. ValidExecution(m.part, p \o f) = ValidExecution(m.part, q \o f)
  <2> HIDE DEF f, m
  <2> QED  BY <1>1, SameConcat, ValidSame
<1>7. Quiescent(mem.part, p) = Quiescent(mem.part, q)  BY SameBook DEF Quiescent
<1>8. MayDerive(mem, p, r.kind, r.outcome)  BY DEF Rederives
<1>9. MayDerive(mem, q, r.kind, r.outcome)
  <2> DEFINE v(x) == ValidExecution(DeriveMemory(mem, x, r.kind).part, x \o DeriveFacts(mem, x, r.kind))
  <2>1. v(p) = v(q)  BY <1>1, <1>2, <1>6
  <2> QED  BY <2>1, <1>5, <1>7, <1>8 DEF MayDerive
<1> QED  BY <1>4, <1>9 DEF Rederives

\* The program is pinned: a step that changes no binding changes no derivation.
LEMMA ProgramPinned ==
  ASSUME program' = program, NEW mem, NEW r, NEW p
  PROVE  Rederives(mem, r, p)' = Rederives(mem, r, p)
<1>1. Native' = Native  BY DEF Native
<1>2. ASSUME NEW i, NEW x, NEW y
      PROVE  /\ BarFacts(i, x)' = BarFacts(i, x)
             /\ OpeningFacts(y, i)' = OpeningFacts(y, i)
             /\ Signal(y, i, x)' = Signal(y, i, x)
             /\ Exhausted(y)' = Exhausted(y)
             /\ Quiescent(y, x)' = Quiescent(y, x)
  BY <1>1 DEF BarFacts, OpeningFacts, Signal, Exhausted, Quiescent
<1>3. ASSUME NEW x, NEW kind
      PROVE  DeriveFacts(mem, x, kind)' = DeriveFacts(mem, x, kind)
  BY <1>2 DEF DeriveFacts
<1>4. ASSUME NEW x, NEW kind
      PROVE  DeriveMemory(mem, x, kind)' = DeriveMemory(mem, x, kind)
  BY <1>1, <1>2, <1>3 DEF DeriveMemory
<1>5. Derive(mem, p, r.kind, r.outcome)' = Derive(mem, p, r.kind, r.outcome)
  BY <1>3, <1>4 DEF Derive
<1>6. MayDerive(mem, p, r.kind, r.outcome)' = MayDerive(mem, p, r.kind, r.outcome)
  BY <1>1, <1>2, <1>3, <1>4 DEF MayDerive
<1> QED  BY <1>5, <1>6 DEF Rederives

-----------------------------------------------------------------------------
(* Types of what is derived *)

LEMMA GenesisTyped == NoSignal \in [side : Side, bar : Nat] /\ Genesis \in Participant /\ Initial \in State
<1>1. NoSignal \in [side : Side, bar : Nat]  BY DEF NoSignal, Side
<1>2. Genesis \in Participant  BY <1>1 DEF Genesis, Participant
<1>3. "none" \in Outcomes  BY DEF Outcomes
<1> QED  BY <1>1, <1>2, <1>3 DEF Initial, State

LEMMA SignalTyped ==
  ASSUME NEW x \in Participant, NEW i \in Nat, NEW p
  PROVE  Signal(x, i, p) \in [side : Side, bar : Nat]
BY GenesisTyped DEF Signal, Participant, Side

LEMMA DeriveMemoryTyped ==
  ASSUME NEW mem \in Mem, NEW p, NEW kind
  PROVE  DeriveMemory(mem, p, kind) \in Mem /\ DeriveMemory(mem, p, kind).state = mem.state
<1> DEFINE i == mem.state.cursor + 1
           s == Signal(mem.part, i, p \o DeriveFacts(mem, p, kind))
<1>1. mem.state.cursor \in Nat /\ mem.part \in Participant  BY DEF Mem, State
<1>2. i \in Nat /\ 2 * i - 1 \in Nat /\ 2 * i \in Nat  BY <1>1
<1>3. s \in [side : Side, bar : Nat]
  <2> HIDE DEF i
  <2> QED  BY <1>1, <1>2, SignalTyped
<1>4. DeriveMemory(mem, p, kind) =
        CASE kind = "OPEN" -> [mem EXCEPT !.clock = 2 * i - 1, !.part.pending = NoSignal]
          [] kind = "BAR" -> [mem EXCEPT !.clock = 2 * i, !.part.pending = IF Native THEN s ELSE NoSignal]
          [] kind \in {"INPUT_END", "CANCEL_INPUT"} ->
               [mem EXCEPT !.part = [pending |-> NoSignal, finished |-> TRUE]]
          [] OTHER -> mem
  BY DEF DeriveMemory
<1> HIDE DEF i, s
<1>6. /\ [mem EXCEPT !.part = [pending |-> NoSignal, finished |-> TRUE]] \in Mem
      /\ [mem EXCEPT !.part = [pending |-> NoSignal, finished |-> TRUE]].state = mem.state
  BY GenesisTyped DEF Mem, Participant
<1>7. CASE kind = "OPEN"
  <2>1. DeriveMemory(mem, p, kind) = [mem EXCEPT !.clock = 2 * i - 1, !.part.pending = NoSignal]
    BY <1>7, <1>4
  <2> DEFINE c == 2 * i - 1
  <2>2. c \in Nat  BY <1>2
  <2>3. DeriveMemory(mem, p, kind) = [mem EXCEPT !.clock = c, !.part.pending = NoSignal]  BY <2>1
  <2> HIDE DEF c
  <2> QED  BY <2>2, <2>3, GenesisTyped DEF Mem, Participant
<1>8. CASE kind = "BAR"
  <2> DEFINE c == 2 * i
             x == IF Native THEN s ELSE NoSignal
  <2>1. c \in Nat /\ x \in [side : Side, bar : Nat]  BY <1>2, <1>3, GenesisTyped
  <2>2. DeriveMemory(mem, p, kind) = [mem EXCEPT !.clock = c, !.part.pending = x]  BY <1>8, <1>4
  <2> HIDE DEF c, x
  <2> QED  BY <2>1, <2>2 DEF Mem, Participant
<1>9. CASE kind \in {"INPUT_END", "CANCEL_INPUT"}  BY <1>9, <1>4, <1>6
<1>10. CASE kind \notin {"OPEN", "BAR", "INPUT_END", "CANCEL_INPUT"}  BY <1>10, <1>4
<1> QED  BY <1>7, <1>8, <1>9, <1>10

\* derive returns a step; memory has moved to the participants and the clock
\* that the step's state names.
LEMMA DeriveTyped ==
  ASSUME NEW mem \in Mem, NEW p \in Seq(Fact), NEW kind \in Kind, NEW outcome \in Outcomes
  PROVE  LET step == Derive(mem, p, kind, outcome)
             moved == DeriveMemory(mem, p, kind)
         IN /\ step \in Row /\ ~step.ready
            /\ step.start = Len(p) /\ step.kind = kind /\ step.outcome = outcome
            /\ step.state.part = moved.part /\ step.state.clock = moved.clock
<1> DEFINE moved == DeriveMemory(mem, p, kind)
           f == DeriveFacts(mem, p, kind)
           s == [mem.state EXCEPT !.part = moved.part, !.clock = moved.clock]
           d == DeriveState(mem, moved, kind, outcome)
<1>1. moved \in Mem  BY DeriveMemoryTyped
<1>2. Same(p, p)  BY DEF Same
<1>3. f \in Seq(Fact)  BY <1>2, DeriveFactsSame
<1> HIDE DEF moved, f
<1>4. moved.part \in Participant /\ moved.clock \in Nat /\ mem.state \in State  BY <1>1 DEF Mem
<1>5. s \in State /\ s.part = moved.part /\ s.clock = moved.clock  BY <1>4 DEF State
<1>6. s.cursor + 1 \in Nat
  <2> HIDE DEF s
  <2> QED  BY <1>5 DEF State
<1>7. d = CASE kind = "OPEN" -> [s EXCEPT !.phase = "CLOSE"]
       [] kind = "BAR" -> [s EXCEPT !.cursor = s.cursor + 1, !.phase = "OPEN"]
       [] kind = "INPUT_END" -> [s EXCEPT !.finished = TRUE]
       [] kind = "CANCEL_INPUT" -> [s EXCEPT !.finished = TRUE, !.cancelled = TRUE]
       [] kind = "PAUSE" -> [s EXCEPT !.status = "PAUSED"]
       [] kind = "RESUME" -> [s EXCEPT !.status = "RUNNING"]
       [] kind = "TERMINATE" -> [s EXCEPT !.status = "TERMINATED", !.outcome = outcome]
  BY DEF DeriveState
<1> HIDE DEF s, d
<1>8. d \in State /\ d.part = moved.part /\ d.clock = moved.clock
  <2>1. CASE kind = "OPEN"  BY <2>1, <1>5, <1>7 DEF State
  <2>2. CASE kind = "BAR"  BY <2>2, <1>5, <1>6, <1>7 DEF State
  <2>3. CASE kind = "INPUT_END"  BY <2>3, <1>5, <1>7 DEF State
  <2>4. CASE kind = "CANCEL_INPUT"  BY <2>4, <1>5, <1>7 DEF State
  <2>5. CASE kind = "PAUSE"  BY <2>5, <1>5, <1>7 DEF State
  <2>6. CASE kind = "RESUME"  BY <2>6, <1>5, <1>7 DEF State
  <2>7. CASE kind = "TERMINATE"  BY <2>7, <1>5, <1>7 DEF State
  <2> QED  BY <2>1, <2>2, <2>3, <2>4, <2>5, <2>6, <2>7 DEF Kind
<1>9. Derive(mem, p, kind, outcome) =
        [kind |-> kind, outcome |-> outcome, start |-> Len(p), facts |-> f, state |-> d, ready |-> FALSE]
  BY DEF Derive, f, d, moved
<1>10. Len(p) \in Nat  OBVIOUS
<1> QED  BY <1>3, <1>8, <1>9, <1>10 DEF Row, moved

\* Whatever comes out again as it is stored was stored with the memory it moves to.
LEMMA RederivedMemory ==
  ASSUME NEW mem \in Mem, NEW p \in Seq(Fact), NEW r \in Row, Rederives(mem, r, p)
  PROVE  /\ r.start = Len(p)
         /\ DeriveMemory(mem, p, r.kind).part = r.state.part
         /\ DeriveMemory(mem, p, r.kind).clock = r.state.clock
<1>1. r.kind \in Kind /\ r.outcome \in Outcomes  BY DEF Row
<1>2. Derive(mem, p, r.kind, r.outcome) = [r EXCEPT !.ready = FALSE]  BY DEF Rederives
<1>3. [r EXCEPT !.ready = FALSE].start = r.start /\ [r EXCEPT !.ready = FALSE].state = r.state  BY DEF Row
<1>4. /\ Derive(mem, p, r.kind, r.outcome).start = Len(p)
      /\ Derive(mem, p, r.kind, r.outcome).state.part = DeriveMemory(mem, p, r.kind).part
      /\ Derive(mem, p, r.kind, r.outcome).state.clock = DeriveMemory(mem, p, r.kind).clock
  BY <1>1, DeriveTyped
<1> QED  BY ONLY <1>2, <1>3, <1>4

-----------------------------------------------------------------------------
(* The journal on disk *)

LEMMA MemoryTyped ==
  ASSUME rows \in Seq(Row), NEW k \in 0..Len(rows)
  PROVE  MemoryAt(k) \in Mem
<1> DEFINE s == IF k = 0 THEN Initial ELSE rows[k].state
<1>1. k = 0 \/ k \in 1..Len(rows)  OBVIOUS
<1>2. s \in State
  <2>1. CASE k = 0  BY <2>1, GenesisTyped
  <2>2. CASE k # 0
    <3>1. rows[k] \in Row  BY <2>2
    <3> QED  BY <2>2, <3>1 DEF Row
  <2> QED  BY <2>1, <2>2
<1>3. MemoryAt(k) = [state |-> s, part |-> s.part, clock |-> s.clock]  BY DEF MemoryAt
<1> HIDE DEF s
<1>4. s.part \in Participant /\ s.clock \in Nat  BY <1>2 DEF State
<1> QED  BY <1>2, <1>3, <1>4 DEF Mem

\* Every step starts at a prefix of what was executed.
LEMMA StartsBounded ==
  ASSUME rows \in Seq(Row), records \in Seq(Fact), Lineage, NEW k \in DOMAIN rows
  PROVE  /\ rows[k].start \in Nat /\ rows[k].start <= Len(records)
         /\ Prefix(rows[k]) \in Seq(Fact) /\ Len(Prefix(rows[k])) = rows[k].start
         /\ \A n \in 1..rows[k].start : Prefix(rows[k])[n] = records[n]
<1>1. k \in 1..Len(rows) /\ Len(rows) \in Nat /\ Len(records) \in Nat  OBVIOUS
<1>2. \A j \in 1..Len(rows) : rows[j] \in Row  OBVIOUS
<1>3. \A j \in 1..Len(rows) : rows[j].start \in Nat /\ Len(rows[j].facts) \in Nat  BY <1>2 DEF Row
<1>4. rows[k].start <= Len(records)
  <2>1. CASE k = 1  BY <2>1, <1>1 DEF Lineage
  <2>2. CASE k # 1
    <3>1. k - 1 \in 1..Len(rows) /\ k - 1 < Len(rows)  BY <2>2, <1>1
    <3>2. rows[k - 1].start + Len(rows[k - 1].facts) <= Len(records)  BY <3>1 DEF Lineage
    <3>3. rows[k].start = rows[k - 1].start + Len(rows[k - 1].facts)  BY <2>2, <1>1 DEF Lineage
    <3> QED  BY <3>2, <3>3
  <2> QED  BY <2>1, <2>2
<1>5. rows[k].start \in Nat  BY <1>1, <1>3
<1> DEFINE s == rows[k].start
<1>6. Prefix(rows[k]) = SubSeq(records, 1, s)  BY DEF Prefix
<1> HIDE DEF s
<1>7. s \in Nat /\ s <= Len(records)  BY <1>4, <1>5 DEF s
<1>8. /\ SubSeq(records, 1, s) \in Seq(Fact) /\ Len(SubSeq(records, 1, s)) = s
      /\ \A n \in 1..s : SubSeq(records, 1, s)[n] = records[n]
  BY <1>1, <1>7
<1> QED  BY <1>4, <1>5, <1>6, <1>8 DEF s

\* What was executed is kept: the operation and the bar of every record.
Kept ==
  /\ Len(records') >= Len(records)
  /\ \A n \in 1..Len(records) : Plan(records'[n]) = Plan(records[n])

LEMMA KeptPrefix ==
  ASSUME records \in Seq(Fact), records' \in Seq(Fact), Kept, NEW s \in 0..Len(records)
  PROVE  /\ SubSeq(records, 1, s) \in Seq(Fact) /\ SubSeq(records', 1, s) \in Seq(Fact)
         /\ Same(SubSeq(records, 1, s), SubSeq(records', 1, s))
<1>1. Len(records) \in Nat /\ Len(records') \in Nat /\ Len(records') >= Len(records)  BY DEF Kept
<1>2. /\ SubSeq(records, 1, s) \in Seq(Fact) /\ Len(SubSeq(records, 1, s)) = s
      /\ \A n \in 1..s : SubSeq(records, 1, s)[n] = records[n]
  BY <1>1
<1>3. /\ SubSeq(records', 1, s) \in Seq(Fact) /\ Len(SubSeq(records', 1, s)) = s
      /\ \A n \in 1..s : SubSeq(records', 1, s)[n] = records'[n]
  BY <1>1
<1>4. \A n \in 1..s : records'[n].op = records[n].op
  BY <1>1 DEF Kept, Plan
<1> QED  BY <1>2, <1>3, <1>4 DEF Same

\* Steps that were derived from what is kept come out again.
LEMMA ChainKept ==
  ASSUME rows \in Seq(Row), records \in Seq(Fact), Lineage, Chain,
         records' \in Seq(Fact), Kept, rows' = rows, program' = program
  PROVE  Chain'
<1> SUFFICES ASSUME NEW k \in DOMAIN rows, NEW mem, NEW r, NEW p,
                    mem = MemoryAt(k - 1)', r = rows[k], p = Prefix(rows[k])'
             PROVE  Rederives(mem, r, p)'
  BY DEF Chain
<1> DEFINE q == Prefix(rows[k])
<1>1. k \in 1..Len(rows) /\ Len(rows) \in Nat  OBVIOUS
<1>2. mem = MemoryAt(k - 1)  BY DEF MemoryAt
<1>3. mem \in Mem  BY <1>1, <1>2, MemoryTyped
<1>4. r.start \in 0..Len(records)  BY <1>1, StartsBounded
<1>5. q = SubSeq(records, 1, r.start) /\ p = SubSeq(records', 1, r.start)  BY DEF Prefix
<1>6. q \in Seq(Fact) /\ p \in Seq(Fact) /\ Same(q, p)  BY <1>4, <1>5, KeptPrefix
<1>7. Rederives(mem, r, q)  BY <1>2 DEF Chain
<1> HIDE DEF q
<1>8. Rederives(mem, r, p)  BY <1>3, <1>6, <1>7, RederivesSame
<1> QED  BY <1>8, ProgramPinned

\* Flags of records move.
LEMMA FlagsMove ==
  ASSUME rows \in Seq(Row), records \in Seq(Fact), Lineage, Chain,
         records' \in Seq(Fact), Len(records') = Len(records),
         \A n \in 1..Len(records) : Plan(records'[n]) = Plan(records[n]),
         rows' = rows, program' = program
  PROVE  Lineage' /\ Chain'
<1>1. Len(records) \in Nat  OBVIOUS
<1>2. Kept  BY <1>1 DEF Kept
<1>3. \A k \in DOMAIN rows : rows[k].start \in Nat /\ Len(rows[k].facts) \in Nat
  <2>1. \A k \in DOMAIN rows : rows[k] \in Row  OBVIOUS
  <2> QED  BY <2>1 DEF Row
<1>4. Lineage'
  <2>1. ASSUME NEW k \in DOMAIN rows, NEW n \in 1..Len(rows[k].facts), rows[k].start + n <= Len(records)
        PROVE  Plan(records'[rows[k].start + n]) = Plan(rows[k].facts[n])
    <3>1. rows[k].start + n \in 1..Len(records)  BY <1>1, <1>3, <2>1
    <3>2. Plan(records[rows[k].start + n]) = Plan(rows[k].facts[n])  BY <2>1 DEF Lineage
    <3> QED  BY <3>1, <3>2
  <2> QED  BY <2>1 DEF Lineage, Plan
<1> QED  BY <1>2, <1>4, ChainKept

LEMMA RowParts ==
  ASSUME rows \in Seq(Row), NEW k \in 1..Len(rows)
  PROVE  /\ rows[k] \in Row /\ rows[k].start \in Nat /\ rows[k].facts \in Seq(Fact)
         /\ Len(rows[k].facts) \in Nat /\ rows[k].state \in State
<1>1. rows[k] \in Row  OBVIOUS
<1>2. rows[k].start \in Nat /\ rows[k].facts \in Seq(Fact) /\ rows[k].state \in State  BY <1>1 DEF Row
<1> QED  BY <1>1, <1>2

\* install: the next fact of the proposal is executed.
LEMMA Executed ==
  ASSUME rows \in Seq(Row), records \in Seq(Fact), Lineage, Chain, rows # <<>>,
         NEW d \in Nat, d < Len(rows[Len(rows)].facts), rows[Len(rows)].start + d = Len(records),
         NEW f \in Fact, Plan(f) = Plan(rows[Len(rows)].facts[d + 1]), ~rows[Len(rows)].ready,
         records' = Append(records, f), rows' = rows, program' = program
  PROVE  records' \in Seq(Fact) /\ Lineage' /\ Chain'
<1> DEFINE last == Len(rows)
<1>1. last \in 1..Len(rows) /\ last \in Nat /\ Len(records) \in Nat  BY EmptySeq
<1> HIDE DEF last
<1>2. \A k \in 1..Len(rows) : rows[k].start \in Nat /\ Len(rows[k].facts) \in Nat  BY RowParts
<1>3. /\ records' \in Seq(Fact) /\ Len(records') = Len(records) + 1
      /\ records'[Len(records) + 1] = f
      /\ \A n \in 1..Len(records) : records'[n] = records[n]
  OBVIOUS
<1>4. Kept  BY <1>1, <1>3 DEF Kept, Plan
<1>5. Lineage'
  <2>1. ASSUME NEW k \in 1..Len(rows), NEW n \in 1..Len(rows[k].facts),
               rows[k].start + n <= Len(records')
        PROVE  Plan(records'[rows[k].start + n]) = Plan(rows[k].facts[n])
    <3>0. rows[k].start \in Nat /\ n \in Nat /\ Len(rows[k].facts) \in Nat /\ n <= Len(rows[k].facts)
      BY <1>2
    <3>1. CASE rows[k].start + n <= Len(records)
      <4>1. Plan(records[rows[k].start + n]) = Plan(rows[k].facts[n])  BY <3>1 DEF Lineage
      <4>2. rows[k].start + n \in 1..Len(records)  BY <1>1, <1>2, <3>1
      <4> QED  BY <4>1, <4>2, <1>3
    <3>2. CASE rows[k].start + n > Len(records)
      <4>1. rows[k].start + n = Len(records) + 1  BY ONLY <3>0, <3>2, <2>1, <1>1, <1>3
      <4>2. ~rows[k].ready  
        <5>1. rows[k].ready => rows[k].start + Len(rows[k].facts) <= Len(records)  BY DEF Lineage
        <5> QED  BY <5>1, <4>1, <1>1, <1>2
      <4>3. k = last
        <5>1. k < Len(rows) => rows[k].ready  BY DEF Lineage
        <5> QED  BY <5>1, <4>2, <1>1 DEF last
      <4>4. n = d + 1  BY <4>1, <4>3, <1>1, <1>2 DEF last
      <4> QED  BY <4>1, <4>3, <4>4, <1>3 DEF last
    <3> QED  BY ONLY <3>0, <3>1, <3>2, <1>1
  <2>2. ASSUME NEW k \in 1..Len(rows)
        PROVE  /\ k < Len(rows) => rows[k].ready
               /\ rows[k].start = IF k = 1 THEN 0 ELSE rows[k - 1].start + Len(rows[k - 1].facts)
               /\ rows[k].ready => rows[k].start + Len(rows[k].facts) <= Len(records')
    <3>1. rows[k].start \in Nat /\ Len(rows[k].facts) \in Nat  BY <1>2
    <3>2. /\ k < Len(rows) => rows[k].ready
          /\ rows[k].start = IF k = 1 THEN 0 ELSE rows[k - 1].start + Len(rows[k - 1].facts)
          /\ rows[k].ready => rows[k].start + Len(rows[k].facts) <= Len(records)
      BY DEF Lineage
    <3> QED  BY ONLY <3>1, <3>2, <1>1, <1>3
  <2>3. Len(records') <= rows[Len(rows)].start + Len(rows[Len(rows)].facts)
    BY <1>1, <1>2, <1>3 DEF last
  <2>4. DOMAIN rows = 1..Len(rows)  OBVIOUS
  <2>5. /\ \A k \in DOMAIN rows' :
             /\ k < Len(rows') => rows'[k].ready
             /\ rows'[k].start = IF k = 1 THEN 0 ELSE rows'[k - 1].start + Len(rows'[k - 1].facts)
             /\ \A n \in 1..Len(rows'[k].facts) : rows'[k].start + n <= Len(records') =>
                  Plan(records'[rows'[k].start + n]) = Plan(rows'[k].facts[n])
             /\ rows'[k].ready => rows'[k].start + Len(rows'[k].facts) <= Len(records')
        /\ Len(records') <= rows'[Len(rows')].start + Len(rows'[Len(rows')].facts)
        /\ rows' # <<>>
    BY ONLY rows' = rows, rows # <<>>, <2>1, <2>2, <2>3, <2>4
  <2> QED  BY ONLY <2>5 DEF Lineage, Plan
<1> QED  BY <1>3, <1>4, <1>5, ChainKept

\* prepare_ref: a proposal is stored after a Ready journal.
LEMMA Proposed ==
  ASSUME rows \in Seq(Row), records \in Seq(Fact), Lineage, Chain, AllReady,
         NEW step \in Row, ~step.ready, Rederives(MemoryAt(Len(rows)), step, records),
         rows' = Append(rows, step), records' = records, program' = program
  PROVE  rows' \in Seq(Row) /\ Lineage' /\ Chain'
<1> DEFINE last == Len(rows) 
<1>1. last \in Nat /\ Len(records) \in Nat /\ last \in 0..Len(rows)  OBVIOUS
<1>2. \A k \in 1..last : rows[k].start \in Nat /\ Len(rows[k].facts) \in Nat  BY RowParts
<1>3. /\ rows' \in Seq(Row) /\ Len(rows') = last + 1 /\ rows'[last + 1] = step
      /\ \A k \in 1..last : rows'[k] = rows[k]
      /\ DOMAIN rows' = 1..last + 1 /\ DOMAIN rows = 1..last /\ rows' # <<>>
  OBVIOUS
<1>4. MemoryAt(last) \in Mem  BY <1>1, MemoryTyped
<1>5. step.start = Len(records)  BY <1>4, RederivedMemory DEF last
<1>6. Len(step.facts) \in Nat  BY DEF Row
<1>7. step.start = IF last = 0 THEN 0 ELSE rows[last].start + Len(rows[last].facts)
  <2>1. CASE last = 0
    <3>1. rows = <<>>  BY <2>1
    <3> QED  BY <3>1, <2>1, <1>1, <1>5 DEF Lineage
  <2>2. CASE last # 0
    <3>1. last \in 1..last /\ rows # <<>>  BY <2>2, <1>1
    <3>2. rows[last].ready  BY <3>1, <1>3 DEF AllReady
    <3>3. rows[last].start + Len(rows[last].facts) <= Len(records)  BY <3>1, <3>2, <1>3 DEF Lineage
    <3>4. Len(records) <= rows[last].start + Len(rows[last].facts)  BY <3>1 DEF Lineage
    <3> QED  BY <2>2, <3>1, <3>3, <3>4, <1>1, <1>2, <1>5
  <2> QED  BY <2>1, <2>2
<1> HIDE DEF last
<1>8. Lineage'
  <2>1. ASSUME NEW k \in 1..last + 1
        PROVE  /\ k < Len(rows') => rows'[k].ready
               /\ rows'[k].start = IF k = 1 THEN 0 ELSE rows'[k - 1].start + Len(rows'[k - 1].facts)
               /\ \A n \in 1..Len(rows'[k].facts) : rows'[k].start + n <= Len(records) =>
                    Plan(records[rows'[k].start + n]) = Plan(rows'[k].facts[n])
               /\ rows'[k].ready => rows'[k].start + Len(rows'[k].facts) <= Len(records)
    <3>1. CASE k \in 1..last
      <4>1. rows'[k] = rows[k] /\ (k # 1 => rows'[k - 1] = rows[k - 1])  BY <3>1, <1>1, <1>3
      <4>2. rows[k].ready  BY <3>1, <1>3 DEF AllReady
      <4>3. k \in DOMAIN rows  BY <3>1, <1>3
      <4> QED  BY <4>1, <4>2, <4>3 DEF Lineage
    <3>2. CASE k = last + 1
      <4>1. rows'[k] = step /\ (k # 1 => rows'[k - 1] = rows[last])  BY <3>2, <1>1, <1>3
      <4>2. k = 1 <=> last = 0  BY <3>2, <1>1
      <4>3. \A n \in 1..Len(step.facts) : ~(step.start + n <= Len(records))  BY <1>1, <1>5, <1>6
      <4>4. ~(k < Len(rows'))  BY <3>2, <1>1, <1>3
      <4> QED  BY <4>1, <4>2, <4>3, <4>4, <1>7
    <3> QED  BY <3>1, <3>2, <1>1
  <2>2. Len(records) <= rows'[Len(rows')].start + Len(rows'[Len(rows')].facts)
    BY <1>1, <1>3, <1>5, <1>6
  <2> QED  BY ONLY records' = records, <2>1, <2>2, <1>3 DEF Lineage, Plan
<1>9. Chain'
  <2> SUFFICES ASSUME NEW k \in 1..last + 1, NEW mem, NEW r, NEW p,
                      mem = MemoryAt(k - 1)', r = rows'[k], p = Prefix(rows[k])'
               PROVE  Rederives(mem, r, p)'
    BY <1>3 DEF Chain
  <2>1. Rederives(mem, r, p)
    <3>1. CASE k \in 1..last
      <4>1. rows'[k] = rows[k] /\ (k # 1 => rows'[k - 1] = rows[k - 1]) /\ (k = 1 <=> k - 1 = 0)
        BY <3>1, <1>1, <1>3
      <4>2. mem = MemoryAt(k - 1) /\ r = rows[k] /\ p = Prefix(rows[k])  BY <4>1 DEF MemoryAt, Prefix
      <4>3. k \in DOMAIN rows  BY <3>1, <1>3
      <4> QED  BY <4>2, <4>3 DEF Chain
    <3>2. CASE k = last + 1
      <4>1. k - 1 = last /\ rows'[k] = step  BY <3>2, <1>1, <1>3
      <4>2. last = 0 \/ rows'[last] = rows[last]  BY <1>1, <1>3
      <4>3. mem = MemoryAt(last)  BY <4>1, <4>2 DEF MemoryAt
      <4>4. p = SubSeq(records, 1, Len(records))  BY <4>1, <1>5 DEF Prefix
      <4>5. p = records  BY <4>4
      <4> QED  BY <4>1, <4>3, <4>5 DEF last
    <3> QED  BY <3>1, <3>2, <1>1
  <2> QED  BY <2>1, ProgramPinned
<1> QED  BY <1>3, <1>8, <1>9

\* complete_ref: a proposal that is executed becomes Ready; what it stands for
\* is what it stood for.
LEMMA Completed ==
  ASSUME rows \in Seq(Row), records \in Seq(Fact), Lineage, Chain, rows # <<>>,
         rows[Len(rows)].start + Len(rows[Len(rows)].facts) = Len(records),
         rows' = MadeReady, records' = records, program' = program
  PROVE  /\ rows' \in Seq(Row) /\ Lineage' /\ Chain' /\ AllReady'
         /\ Len(rows') = Len(rows) /\ rows' # <<>> /\ rows'[Len(rows)].state = rows[Len(rows)].state
<1> DEFINE last == Len(rows)
<1>1. last \in 1..Len(rows) /\ last \in Nat /\ Len(records) \in Nat  BY EmptySeq
<1>2. \A k \in 1..last : /\ rows[k] \in Row /\ rows[k].start \in Nat /\ Len(rows[k].facts) \in Nat
                         /\ [rows[k] EXCEPT !.ready = TRUE] \in Row
  <2>1. \A r \in Row : [r EXCEPT !.ready = TRUE] \in Row  BY DEF Row
  <2> QED  BY <2>1, RowParts
<1>3. DOMAIN rows = 1..last /\ rows' = [rows EXCEPT ![last] = [rows[last] EXCEPT !.ready = TRUE]]
  BY DEF MadeReady
<1> HIDE DEF last
<1>4. /\ rows' \in Seq(Row) /\ Len(rows') = last /\ DOMAIN rows' = 1..last
      /\ rows'[last] = [rows[last] EXCEPT !.ready = TRUE]
      /\ \A k \in 1..last : k # last => rows'[k] = rows[k]
  BY <1>1, <1>2, <1>3 DEF last
<1>5. \A k \in 1..last :
        /\ rows'[k].start = rows[k].start /\ rows'[k].facts = rows[k].facts
        /\ rows'[k].state = rows[k].state /\ rows'[k].kind = rows[k].kind
        /\ rows'[k].outcome = rows[k].outcome
        /\ [rows'[k] EXCEPT !.ready = FALSE] = [rows[k] EXCEPT !.ready = FALSE]
  <2>2. rows[last] \in Row  BY <1>1, <1>2
  <2> SUFFICES ASSUME NEW k \in 1..last
               PROVE  /\ rows'[k].start = rows[k].start /\ rows'[k].facts = rows[k].facts
                      /\ rows'[k].state = rows[k].state /\ rows'[k].kind = rows[k].kind
                      /\ rows'[k].outcome = rows[k].outcome
                      /\ [rows'[k] EXCEPT !.ready = FALSE] = [rows[k] EXCEPT !.ready = FALSE]
    OBVIOUS
  <2>3. CASE k = last
    <3>1. rows[k] \in Row /\ rows'[k] = [rows[k] EXCEPT !.ready = TRUE]  BY <2>2, <2>3, <1>4
    <3> QED  BY ONLY <3>1 DEF Row
  <2>4. CASE k # last
    <3>1. rows'[k] = rows[k]  BY <2>4, <1>4
    <3> QED  BY ONLY <3>1
  <2> QED  BY <2>3, <2>4
<1>6. \A k \in 1..last : rows'[k].ready
  <2>1. rows'[last].ready  BY <1>1, <1>2, <1>4 DEF last, Row
  <2>2. \A k \in 1..last : k < last => rows[k].ready  BY <1>3 DEF Lineage, last
  <2>3. ASSUME NEW k \in 1..last, k # last
        PROVE  rows'[k].ready
    <3>1. k < last /\ rows'[k] = rows[k]  BY <2>3, <1>1, <1>4
    <3> QED  BY <3>1, <2>2
  <2> QED  BY <2>1, <2>3
<1>7. Lineage'
  <2>1. rows' # <<>>  BY <1>1, <1>4
  <2>2. ASSUME NEW k \in 1..last
        PROVE  rows[k].start + Len(rows[k].facts) <= Len(records)
    <3>1. CASE k = last  BY <3>1, <1>1 DEF last
    <3>2. CASE k # last
      <4>1. k < Len(rows)  BY <3>2, <1>1 DEF last
      <4> QED  BY <4>1, <1>3 DEF Lineage
    <3> QED  BY <3>1, <3>2
  <2>3. ASSUME NEW k \in 1..last
        PROVE  /\ rows'[k].start = IF k = 1 THEN 0 ELSE rows'[k - 1].start + Len(rows'[k - 1].facts)
               /\ \A n \in 1..Len(rows'[k].facts) : rows'[k].start + n <= Len(records) =>
                    Plan(records[rows'[k].start + n]) = Plan(rows'[k].facts[n])
    <3>1. k = 1 \/ k - 1 \in 1..last  BY <1>1
    <3> QED  BY <3>1, <1>3, <1>5 DEF Lineage
  <2>4. Len(records) <= rows'[last].start + Len(rows'[last].facts)  
    <3>1. /\ rows[last].start + Len(rows[last].facts) = Len(records)
          /\ rows'[last].start = rows[last].start /\ rows'[last].facts = rows[last].facts
      BY <1>1, <1>5 DEF last
    <3> QED  BY <3>1, <1>1
  <2>5. ASSUME NEW k \in 1..last
        PROVE  rows'[k].start + Len(rows'[k].facts) <= Len(records)
    BY <2>2, <1>5
  <2> QED  BY ONLY records' = records, <2>1, <2>3, <2>4, <2>5, <1>4, <1>6 DEF Lineage, Plan
<1>8. Chain'
  <2> SUFFICES ASSUME NEW k \in 1..last, NEW mem, NEW r, NEW p,
                      mem = MemoryAt(k - 1)', r = rows'[k], p = Prefix(rows[k])'
               PROVE  Rederives(mem, r, p)'
    BY <1>4 DEF Chain
  <2>1. k = 1 \/ k - 1 \in 1..last  BY <1>1
  <2>2. k - 1 = 0 <=> k = 1  BY <1>1
  <2>3. mem = MemoryAt(k - 1)  BY <2>1, <2>2, <1>5 DEF MemoryAt
  <2>4. p = Prefix(rows[k])  BY <1>5 DEF Prefix
  <2>5. Rederives(mem, rows[k], p)  BY <2>3, <2>4, <1>3 DEF Chain
  <2>6. Rederives(mem, r, p)  BY <2>5, <1>5 DEF Rederives
  <2> QED  BY <2>6, ProgramPinned
<1> QED  BY <1>1, <1>4, <1>5, <1>6, <1>7, <1>8 DEF AllReady, last

-----------------------------------------------------------------------------
(* Each action keeps the invariant *)

LEMMA IdleTyped == Idle \in Call /\ \A pc \in Pc : [Idle EXCEPT !.pc = pc] \in Call
BY DEF Idle, Call, Pc

LEMMA DownTyped ==
  /\ Down \in Loop
  /\ [Down EXCEPT !.up = TRUE] \in Loop
  /\ [Down EXCEPT !.up = TRUE, !.rt = TRUE] \in Loop
<1>1. <<>> \in Seq(Row)  OBVIOUS
<1>2. Down \in Loop  BY <1>1, GenesisTyped DEF Down, Loop
<1> QED  BY <1>2 DEF Loop

\* Nothing on disk moves.
LEMMA DiskKept ==
  ASSUME Types, Lineage, Chain, UNCHANGED <<program, rows, records>>
  PROVE  Lineage' /\ Chain' /\ AllReady' = AllReady /\ \A k : MemoryAt(k)' = MemoryAt(k)
<1>1. rows \in Seq(Row) /\ records \in Seq(Fact)  BY DEF Types
<1>2. Len(records') = Len(records) /\ \A n \in 1..Len(records) : Plan(records'[n]) = Plan(records[n])
  OBVIOUS
<1>3. Lineage' /\ Chain'  BY <1>1, <1>2, FlagsMove
<1>4. AllReady' = AllReady  BY DEF AllReady
<1>5. \A k : MemoryAt(k)' = MemoryAt(k)  BY DEF MemoryAt
<1> QED  BY <1>3, <1>4, <1>5

LEMMA InitSound == Init => ReplayInvariant
<1> SUFFICES ASSUME Init PROVE ReplayInvariant  OBVIOUS
<1>1. rows = <<>> /\ records = <<>> /\ DOMAIN rows = {} /\ Len(records) = 0  BY DEF Init
<1>2. <<>> \in Seq(Row) /\ <<>> \in Seq(Fact)  OBVIOUS
<1>3. Types  BY <1>1, <1>2, IdleTyped, DownTyped, ReplayAssumption DEF Types, Init
<1>4. Lineage /\ Chain  BY <1>1 DEF Lineage, Chain
<1>5. LoopSound  BY <1>1 DEF LoopSound, Init, Down, Idle
<1> QED  BY <1>3, <1>4, <1>5 DEF ReplayInvariant

LEMMA CreateSound ==
  ASSUME ReplayInvariant, Create
  PROVE  ReplayInvariant'
<1>1. Lineage' /\ Chain'  BY DiskKept DEF ReplayInvariant, Create
<1>2. Types'  BY IdleTyped, DownTyped DEF ReplayInvariant, Types, Create, Pc
<1>3. rows = <<>> /\ records = <<>>  BY DEF ReplayInvariant, LoopSound, Create
<1>4. loop' = [up |-> TRUE, healthy |-> FALSE, rt |-> TRUE, state |-> Initial,
               part |-> Genesis, clock |-> 0, known |-> <<>>]
  BY DEF Create, Down
<1>5. Blank'  BY <1>4 DEF Blank, Memory
<1>6. call'.pc = "bind" /\ store' = "unbound" /\ rows' = <<>> /\ records' = <<>>  BY <1>3 DEF Create, Idle
<1>7. ~loop'.healthy  BY <1>4
<1>8. LoopSound'  BY ONLY <1>5, <1>6, <1>7 DEF LoopSound
<1> QED  BY <1>1, <1>2, <1>8 DEF ReplayInvariant

LEMMA BindSound ==
  ASSUME ReplayInvariant, Bind
  PROVE  ReplayInvariant'
<1>1. Lineage' /\ Chain'  BY DiskKept DEF ReplayInvariant, Bind
<1>2. Types'  BY IdleTyped DEF ReplayInvariant, Types, Bind, Loop
<1>3. rows = <<>> /\ records = <<>> /\ Blank  BY DEF ReplayInvariant, LoopSound, Bind
<1>4. loop \in Loop /\ loop' = [loop EXCEPT !.healthy = TRUE]  BY DEF ReplayInvariant, Types, Bind
<1>5. loop'.known = loop.known /\ Memory(loop)' = Memory(loop)  BY <1>4 DEF Memory, Loop
<1>6. Current'
  <2>1. Len(rows') = 0 /\ DOMAIN rows' = {} /\ rows' = <<>>  BY <1>3 DEF Bind
  <2>2. MemoryAt(Len(rows))' = [state |-> Initial, part |-> Genesis, clock |-> 0]
    BY <2>1 DEF MemoryAt, Initial
  <2> QED  BY <2>1, <2>2, <1>3, <1>5 DEF Current, AllReady, Blank
<1>7. call'.pc = "idle" /\ store' = "bound"  BY DEF Bind, Idle
<1>8. LoopSound'  BY <1>6, <1>7 DEF LoopSound
<1> QED  BY <1>1, <1>2, <1>8 DEF ReplayInvariant

LEMMA CrashSound ==
  ASSUME ReplayInvariant, Crash
  PROVE  ReplayInvariant'
<1>1. Lineage' /\ Chain'  BY DiskKept DEF ReplayInvariant, Crash, diskVars
<1>2. Types'  BY IdleTyped, DownTyped, ReplayAssumption DEF ReplayInvariant, Types, Crash, diskVars, Fault
<1>3. LoopSound'  BY DEF ReplayInvariant, LoopSound, Crash, diskVars, Down, Idle
<1> QED  BY <1>1, <1>2, <1>3 DEF ReplayInvariant

LEMMA OpenSound ==
  ASSUME ReplayInvariant, Open
  PROVE  ReplayInvariant'
<1>1. Lineage' /\ Chain'  BY DiskKept DEF ReplayInvariant, Open, diskVars
<1>2. Types'  BY IdleTyped, DownTyped DEF ReplayInvariant, Types, Open, diskVars, Pc
<1>3. LoopSound'  BY DEF ReplayInvariant, LoopSound, Open, diskVars, Down, Idle
<1> QED  BY <1>1, <1>2, <1>3 DEF ReplayInvariant

\* Recovery of the Runtime moves flags only.
LEMMA SettledFlags ==
  ASSUME records \in Seq(Fact), records' = Settled
  PROVE  /\ records' \in Seq(Fact) /\ Len(records') = Len(records)
         /\ \A n \in 1..Len(records) : Plan(records'[n]) = Plan(records[n])
<1>1. DOMAIN records = 1..Len(records) /\ Len(records) \in Nat  OBVIOUS
<1>2. ASSUME NEW f \in Fact
      PROVE  [f EXCEPT !.ready = TRUE] \in Fact /\ Plan([f EXCEPT !.ready = TRUE]) = Plan(f)
  BY DEF Fact, Plan
<1>3. \A n \in 1..Len(records) : records[n] \in Fact  OBVIOUS
<1>4. records' = [n \in 1..Len(records) |-> [records[n] EXCEPT !.ready = TRUE]]  BY <1>1 DEF Settled
<1>5. records' \in [1..Len(records) -> Fact]  BY <1>2, <1>3, <1>4
<1>6. records' \in Seq(Fact) /\ Len(records') = Len(records)  BY <1>1, <1>4, <1>5
<1>7. \A n \in 1..Len(records) : records'[n] = [records[n] EXCEPT !.ready = TRUE]  BY <1>4
<1> QED  BY ONLY <1>2, <1>3, <1>6, <1>7

LEMMA RecoverSound ==
  ASSUME ReplayInvariant, Recover
  PROVE  ReplayInvariant'
<1>1. /\ records \in Seq(Fact) /\ rows \in Seq(Row) /\ consumed \subseteq DOMAIN records
      /\ records' = Settled /\ rows' = rows /\ program' = program
  BY DEF ReplayInvariant, Types, Recover
<1>2. /\ records' \in Seq(Fact) /\ Len(records') = Len(records)
      /\ \A n \in 1..Len(records) : Plan(records'[n]) = Plan(records[n])
  BY <1>1, SettledFlags
<1>3. Lineage' /\ Chain'  BY <1>1, <1>2, FlagsMove DEF ReplayInvariant
<1>4. consumed' \subseteq DOMAIN records'  BY <1>1, <1>2 DEF Recover
<1>5. Types'  BY <1>2, <1>4, IdleTyped, DownTyped DEF ReplayInvariant, Types, Recover, Pc
<1>6. loop' = [up |-> TRUE, healthy |-> FALSE, rt |-> TRUE, state |-> Initial,
               part |-> Genesis, clock |-> 0, known |-> <<>>]
  BY DEF Recover, Down
<1>7. Rederiving'
  <2>1. loop'.known = <<>> /\ Len(loop'.known) = 0 /\ Len(rows') \in Nat  BY <1>1, <1>6
  <2>2. Memory(loop)' = MemoryAt(0)'  BY <1>6 DEF Memory, MemoryAt, Initial
  <2> QED  BY <2>1, <2>2 DEF Rederiving
<1>8. call'.pc = "rederive" /\ store' = "bound"  BY DEF Recover, Idle
<1>9. LoopSound'  BY <1>6, <1>7, <1>8 DEF LoopSound
<1> QED  BY <1>3, <1>5, <1>9 DEF ReplayInvariant

LEMMA RecoverFailsSound ==
  ASSUME ReplayInvariant, NEW persisted \in BOOLEAN, RecoverFails(persisted)
  PROVE  ReplayInvariant'
<1>1. /\ records \in Seq(Fact) /\ rows \in Seq(Row) /\ consumed \subseteq DOMAIN records
      /\ records' \in {Settled, records} /\ rows' = rows /\ program' = program
  BY DEF ReplayInvariant, Types, RecoverFails
<1>2. /\ records' \in Seq(Fact) /\ Len(records') = Len(records)
      /\ \A n \in 1..Len(records) : Plan(records'[n]) = Plan(records[n])
  BY <1>1, SettledFlags
<1>3. Lineage' /\ Chain'  BY <1>1, <1>2, FlagsMove DEF ReplayInvariant
<1>4. consumed' \subseteq DOMAIN records'  BY <1>1, <1>2 DEF RecoverFails
<1>5. loop' \in Loop /\ ~loop'.healthy
  <2>1. Down \in Loop /\ ~Down.healthy  BY DownTyped DEF Down
  <2>2. loop \in Loop  BY DEF ReplayInvariant, Types
  <2>3. [loop EXCEPT !.healthy = FALSE, !.rt = FALSE] \in Loop  BY <2>2 DEF Loop
  <2>4. ~[loop EXCEPT !.healthy = FALSE, !.rt = FALSE].healthy  BY <2>2 DEF Loop
  <2> QED  BY <2>1, <2>3, <2>4 DEF RecoverFails
<1>6. Types'
  BY <1>2, <1>4, <1>5, IdleTyped, ReplayAssumption DEF ReplayInvariant, Types, RecoverFails, Fault
<1>7. call'.pc = "idle" /\ store' = "bound"  BY DEF RecoverFails, Idle
<1>8. LoopSound'  BY <1>5, <1>7 DEF LoopSound
<1> QED  BY <1>3, <1>6, <1>8 DEF ReplayInvariant

\* Recovery derives the next stored step again. It never comes out differently.
LEMMA RecoverStepSound ==
  ASSUME ReplayInvariant, RecoverStep
  PROVE  ReplayInvariant'
<1> DEFINE k == Len(loop.known)
           r == rows[k + 1]
           moved == DeriveMemory(Memory(loop), Prefix(r), r.kind)
<1>1. /\ rows \in Seq(Row) /\ records \in Seq(Fact) /\ loop \in Loop /\ call \in Call
      /\ loop.known \in Seq(Row) /\ k \in Nat /\ Len(rows) \in Nat
  BY DEF ReplayInvariant, Types, Loop
<1>2. call.pc = "rederive" /\ k < Len(rows) /\ Rederiving /\ store = "bound" /\ ~loop.healthy
  BY DEF ReplayInvariant, LoopSound, RecoverStep
<1>3. k + 1 \in 1..Len(rows) /\ k \in 0..Len(rows) /\ DOMAIN rows = 1..Len(rows)  BY <1>1, <1>2
<1>4. r \in Row /\ Memory(loop) = MemoryAt(k) /\ Memory(loop) \in Mem
  BY <1>1, <1>2, <1>3, MemoryTyped DEF Rederiving
<1>5. r.start \in Nat /\ r.start <= Len(records) /\ Prefix(r) \in Seq(Fact)
  BY <1>1, <1>3, StartsBounded DEF ReplayInvariant
<1>6. Rederives(Memory(loop), r, Prefix(r))
  <2>1. (k + 1) - 1 = k  BY <1>1
  <2> QED  BY <2>1, <1>3, <1>4 DEF ReplayInvariant, Chain
<1>7. moved \in Mem /\ moved.part = r.state.part /\ moved.clock = r.state.clock
  <2> HIDE DEF r
  <2> QED  BY <1>4, <1>5, <1>6, DeriveMemoryTyped, RederivedMemory
<1>8. Lineage' /\ Chain' /\ AllReady' = AllReady /\ \A j : MemoryAt(j)' = MemoryAt(j)
  BY DiskKept DEF ReplayInvariant, RecoverStep, diskVars
<1>9. UNCHANGED <<program, store, rows, records, consumed, faults>>  BY DEF RecoverStep, diskVars
<1>10. \/ /\ r.ready
          /\ loop' = [loop EXCEPT !.state = r.state, !.known = Append(loop.known, r),
                                  !.part = moved.part, !.clock = moved.clock]
          /\ call' = call
       \/ /\ ~r.ready
          /\ loop' = [loop EXCEPT !.part = moved.part, !.clock = moved.clock]
          /\ call' = [Idle EXCEPT !.pc = "install", !.step = r]
  BY <1>6 DEF RecoverStep
<1> HIDE DEF moved, r, k
<1>11. moved.part \in Participant /\ moved.clock \in Nat /\ r.state \in State
  BY <1>4, <1>7 DEF Mem, Row
<1>12. CASE r.ready
  <2>1. /\ loop' = [loop EXCEPT !.state = r.state, !.known = Append(loop.known, r),
                                  !.part = moved.part, !.clock = moved.clock]
        /\ call' = call
    BY <1>10, <1>12
  <2> DEFINE known == Append(loop.known, r)
  <2>2. /\ known \in Seq(Row) /\ Len(known) = k + 1 /\ known[k + 1] = r
        /\ \A j \in 1..k : known[j] = loop.known[j]
    BY <1>1, <1>4 DEF k
  <2> HIDE DEF known
  <2>3. /\ loop' \in Loop /\ ~loop'.healthy /\ loop'.known = known
        /\ Memory(loop)' = [state |-> r.state, part |-> moved.part, clock |-> moved.clock]
    BY <2>1, <2>2, <1>1, <1>2, <1>11 DEF Loop, Memory, known
  <2>4. Types'  BY <2>1, <2>3, <1>9 DEF ReplayInvariant, Types
  <2>5. Memory(loop)' = MemoryAt(k + 1)
    <3>1. k + 1 # 0  BY <1>1
    <3> QED  BY <3>1, <2>3, <1>7 DEF MemoryAt, r
  <2>6. Rederiving'
    <3>1. Len(loop'.known) = k + 1 /\ Len(loop'.known) <= Len(rows')  BY <2>2, <2>3, <1>1, <1>2, <1>9
    <3>2. ASSUME NEW j \in 1..k + 1 PROVE loop'.known[j] = rows'[j] /\ rows'[j].ready
      <4>1. CASE j = k + 1  BY <4>1, <2>2, <2>3, <1>9, <1>12 DEF r
      <4>2. CASE j # k + 1
        <5>1. j \in 1..k  BY <4>2, <1>1
        <5>2. loop.known[j] = rows[j] /\ rows[j].ready  BY <5>1, <1>2 DEF Rederiving, k
        <5> QED  BY <5>1, <5>2, <2>2, <2>3, <1>9
      <4> QED  BY <4>1, <4>2
    <3>3. Memory(loop)' = MemoryAt(Len(loop.known))'  
      <4>1. \A j : j = Len(loop'.known) => MemoryAt(j)' = MemoryAt(Len(loop.known))'  BY DEF MemoryAt
      <4> QED  BY <4>1, <3>1, <2>5, <1>8
    <3> QED  BY <3>1, <3>2, <3>3 DEF Rederiving
  <2>7. call'.pc = "rederive" /\ store' = "bound"  BY <2>1, <1>2, <1>9
  <2>8. LoopSound'  BY ONLY <2>3, <2>6, <2>7 DEF LoopSound
  <2> QED  BY <2>4, <2>8, <1>8 DEF ReplayInvariant
<1>13. CASE ~r.ready
  <2>1. /\ loop' = [loop EXCEPT !.part = moved.part, !.clock = moved.clock]
        /\ call' = [Idle EXCEPT !.pc = "install", !.step = r]
    BY <1>10, <1>13
  <2>2. /\ loop' \in Loop /\ ~loop'.healthy /\ loop'.part = moved.part /\ loop'.clock = moved.clock
    BY <2>1, <1>1, <1>2, <1>11 DEF Loop
  <2>3. call' \in Call /\ call'.pc = "install" /\ call'.step = r /\ call'.done = 0
    BY <2>1, <1>4, IdleTyped DEF Call, Pc, Idle
  <2>4. Types'  BY <2>2, <2>3, <1>9 DEF ReplayInvariant, Types
  <2>5. k + 1 = Len(rows)
    <3>1. k + 1 < Len(rows) => r.ready  BY <1>3 DEF ReplayInvariant, Lineage, r
    <3>2. ~(k + 1 < Len(rows))  BY <3>1, <1>13
    <3>3. k \in Nat /\ Len(rows) \in Nat /\ k < Len(rows)  BY <1>1, <1>2
    <3> QED  BY ONLY <3>2, <3>3
  <2>6. Installing'
    <3>1. rows' # <<>> /\ call'.step = rows'[Len(rows')]  BY <2>3, <2>5, <1>3, <1>9 DEF r
    <3>2. 0 <= Len(r.facts) /\ r.start + 0 <= Len(records')
      <4>1. r.facts \in Seq(Fact)  BY <1>4 DEF Row
      <4> QED  BY <4>1, <1>5, <1>9
    <3> QED  BY <3>1, <3>2, <2>2, <2>3, <1>7, <1>13 DEF Installing
  <2>7. store' = "bound"  BY <1>2, <1>9
  <2>8. LoopSound'  BY ONLY <2>2, <2>3, <2>6, <2>7 DEF LoopSound
  <2> QED  BY <2>4, <2>8, <1>8 DEF ReplayInvariant
<1> QED  BY <1>12, <1>13

LEMMA RecoverDoneSound ==
  ASSUME ReplayInvariant, RecoverDone
  PROVE  ReplayInvariant'
<1>1. /\ rows \in Seq(Row) /\ loop \in Loop /\ Len(rows) \in Nat
      /\ loop' = [loop EXCEPT !.healthy = TRUE] /\ UNCHANGED <<program, store, rows, records, consumed, faults>>
  BY DEF ReplayInvariant, Types, RecoverDone, diskVars
<1>2. call.pc = "rederive" /\ loop.known = rows /\ Rederiving /\ store = "bound"
  BY DEF ReplayInvariant, LoopSound, RecoverDone
<1>3. Lineage' /\ Chain' /\ AllReady' = AllReady /\ \A j : MemoryAt(j)' = MemoryAt(j)
  BY <1>1, DiskKept DEF ReplayInvariant
<1>4. loop' \in Loop /\ loop'.known = loop.known /\ Memory(loop)' = Memory(loop)
  BY <1>1 DEF Memory, Loop
<1>5. Types'  BY <1>1, <1>4, IdleTyped DEF ReplayInvariant, Types, RecoverDone
<1>6. AllReady  
  <2>1. DOMAIN rows = 1..Len(loop.known)  BY <1>1, <1>2
  <2> QED  BY <2>1, <1>2 DEF AllReady, Rederiving
<1>7. Current'
  <2>1. Memory(loop)' = MemoryAt(Len(rows))  BY <1>2, <1>4 DEF Rederiving
  <2>2. MemoryAt(Len(rows))' = MemoryAt(Len(rows))  BY <1>1 DEF MemoryAt
  <2> QED  BY <2>1, <2>2, <1>1, <1>2, <1>3, <1>4, <1>6 DEF Current
<1>8. call'.pc = "idle" /\ store' = "bound"  BY <1>1, <1>2 DEF RecoverDone, Idle
<1>9. LoopSound'  BY ONLY <1>7, <1>8 DEF LoopSound
<1> QED  BY <1>3, <1>5, <1>9 DEF ReplayInvariant

\* transition_after_check: the derived step waits for its store.
LEMMA TransitionSound ==
  ASSUME ReplayInvariant, NEW kind \in Kind, NEW outcome \in Outcomes, NEW deliver \in BOOLEAN,
         Transition(kind, outcome, deliver)
  PROVE  ReplayInvariant'
<1> DEFINE mem == Memory(loop)
           step == Derive(mem, records, kind, outcome)
           moved == DeriveMemory(mem, records, kind)
<1>1. /\ rows \in Seq(Row) /\ records \in Seq(Fact) /\ loop \in Loop /\ call \in Call
      /\ UNCHANGED <<program, store, rows, records, consumed>>
  BY DEF ReplayInvariant, Types, Transition, diskVars
<1>2. call.pc = "idle" /\ loop.healthy /\ store = "bound" /\ Current
  BY DEF ReplayInvariant, LoopSound, Transition, Check
<1>3. mem \in Mem /\ mem = MemoryAt(Len(rows))  
  <2>1. Len(rows) \in 0..Len(rows)  BY <1>1
  <2> QED  BY <2>1, <1>1, <1>2, MemoryTyped DEF Current
<1>4. Lineage' /\ Chain' /\ AllReady' = AllReady  BY <1>1, DiskKept DEF ReplayInvariant
<1>5. AllReady  BY <1>2 DEF Current
<1>6. \/ /\ MayDerive(mem, records, kind, outcome)
         /\ loop' = [loop EXCEPT !.healthy = FALSE, !.part = moved.part, !.clock = moved.clock]
         /\ call' = [Idle EXCEPT !.pc = "prepare", !.deliver = deliver, !.step = step]
         /\ faults' = faults
      \/ /\ Fault /\ loop' = [loop EXCEPT !.healthy = FALSE] /\ call' = call
  BY DEF Transition
<1> HIDE DEF mem
<1>7. /\ step \in Row /\ ~step.ready
      /\ step.start = Len(records) /\ step.kind = kind /\ step.outcome = outcome
      /\ step.state.part = moved.part /\ step.state.clock = moved.clock
  BY <1>1, <1>3, DeriveTyped
<1>8. moved.part \in Participant /\ moved.clock \in Nat
  <2>1. moved \in Mem  BY <1>3, DeriveMemoryTyped
  <2> QED  BY <2>1 DEF Mem
<1>9. MayDerive(mem, records, kind, outcome) => Rederives(mem, step, records)
  <2>1. step = [step EXCEPT !.ready = FALSE]
    <3> HIDE DEF step
    <3> QED  BY <1>7 DEF Row
  <2> QED  BY <2>1, <1>7 DEF Rederives
<1> HIDE DEF step, moved
<1>10. CASE /\ MayDerive(mem, records, kind, outcome)
            /\ loop' = [loop EXCEPT !.healthy = FALSE, !.part = moved.part, !.clock = moved.clock]
            /\ call' = [Idle EXCEPT !.pc = "prepare", !.deliver = deliver, !.step = step]
            /\ faults' = faults
  <2>1. loop' \in Loop /\ ~loop'.healthy /\ loop'.part = moved.part /\ loop'.clock = moved.clock
    BY <1>1, <1>8, <1>10 DEF Loop
  <2>2. call' \in Call /\ call'.pc = "prepare" /\ call'.step = step /\ call'.done = 0
    BY <1>7, <1>10, IdleTyped DEF Call, Pc, Idle
  <2>3. Types'  BY <2>1, <2>2, <1>1, <1>10 DEF ReplayInvariant, Types
  <2>4. \A m \in {MemoryAt(Len(rows))'}, r \in {call'.step}, p \in {records'} : Rederives(m, r, p)'
    <3> SUFFICES ASSUME NEW m, NEW r, NEW p, m = MemoryAt(Len(rows))', r = call'.step, p = records'
                 PROVE  Rederives(m, r, p)'
      OBVIOUS
    <3>1. m = mem /\ r = step /\ p = records  BY <2>2, <1>1, <1>3 DEF MemoryAt
    <3>2. Rederives(m, r, p)  BY <3>1, <1>9, <1>10
    <3> QED  BY <3>2, <1>1, ProgramPinned
  <2>5. Preparing'  BY <2>1, <2>2, <2>4, <1>4, <1>5, <1>7 DEF Preparing
  <2>6. store' = "bound"  BY <1>1, <1>2
  <2>7. LoopSound'  BY ONLY <2>1, <2>2, <2>5, <2>6 DEF LoopSound
  <2> QED  BY <2>3, <2>7, <1>4 DEF ReplayInvariant
<1>11. CASE Fault /\ loop' = [loop EXCEPT !.healthy = FALSE] /\ call' = call
  <2>1. loop' \in Loop /\ ~loop'.healthy  BY <1>1, <1>11 DEF Loop
  <2>2. Types'  BY <2>1, <1>1, <1>11, ReplayAssumption DEF ReplayInvariant, Types, Fault
  <2>3. call'.pc = "idle" /\ store' = "bound"  BY <1>1, <1>2, <1>11
  <2>4. LoopSound'  BY ONLY <2>1, <2>3 DEF LoopSound
  <2> QED  BY <2>2, <2>4, <1>4 DEF ReplayInvariant
<1> QED  BY <1>6, <1>10, <1>11

LEMMA PrepareSound ==
  ASSUME ReplayInvariant, Prepare
  PROVE  ReplayInvariant'
<1> DEFINE step == call.step
<1>1. /\ rows \in Seq(Row) /\ records \in Seq(Fact) /\ call \in Call /\ loop \in Loop
      /\ rows' = Append(rows, step) /\ call' = [call EXCEPT !.pc = "install"]
      /\ UNCHANGED <<program, store, records, consumed, loop, faults>>
  BY DEF ReplayInvariant, Types, Prepare
<1>2. call.pc = "prepare" /\ Preparing /\ store = "bound" /\ ~loop.healthy
  BY DEF ReplayInvariant, LoopSound, Prepare
<1>3. /\ step \in Row /\ ~step.ready /\ AllReady /\ Rederives(MemoryAt(Len(rows)), step, records)
      /\ call.done = 0 /\ loop.part = step.state.part /\ loop.clock = step.state.clock
  BY <1>2 DEF Preparing
<1>4. rows' \in Seq(Row) /\ Lineage' /\ Chain'
  <2> HIDE DEF step
  <2> QED  BY <1>1, <1>3, Proposed DEF ReplayInvariant
<1>5. call' \in Call /\ call'.pc = "install" /\ call'.step = step /\ call'.done = 0
  BY <1>1, <1>3 DEF Call, Pc
<1>6. Types'  BY <1>1, <1>4, <1>5 DEF ReplayInvariant, Types
<1>7. Installing'
  <2>1. rows' # <<>> /\ rows'[Len(rows')] = step  BY <1>1
  <2>2. step.start = Len(records)  BY DEF Prepare, MayPrepare
  <2>3. step.facts \in Seq(Fact) /\ step.start \in Nat  BY <1>3 DEF Row
  <2>4. 0 <= Len(step.facts) /\ step.start + 0 <= Len(records')  BY <2>2, <2>3, <1>1
  <2> QED  BY <2>1, <2>4, <1>1, <1>3, <1>5 DEF Installing
<1>8. store' = "bound" /\ ~loop'.healthy  BY <1>1, <1>2
<1>9. LoopSound'  BY ONLY <1>5, <1>7, <1>8 DEF LoopSound
<1> QED  BY <1>4, <1>6, <1>9 DEF ReplayInvariant

\* What is known while a proposal is installed.
LEMMA InstallingFacts ==
  ASSUME Types, Installing
  PROVE  /\ rows \in Seq(Row) /\ records \in Seq(Fact) /\ call \in Call /\ loop \in Loop
         /\ Len(rows) \in 1..Len(rows) /\ Len(rows) \in Nat /\ Len(records) \in Nat
         /\ call.step \in Row /\ call.step.start \in Nat /\ call.step.facts \in Seq(Fact)
         /\ Len(call.step.facts) \in Nat /\ call.done \in Nat /\ call.step.state \in State
<1>1. rows \in Seq(Row) /\ records \in Seq(Fact) /\ call \in Call /\ loop \in Loop  BY DEF Types
<1>2. rows # <<>> /\ call.step = rows[Len(rows)]  BY DEF Installing
<1>3. Len(rows) \in 1..Len(rows) /\ Len(rows) \in Nat /\ Len(records) \in Nat  BY <1>1, <1>2, EmptySeq
<1>4. call.done \in Nat  BY <1>1 DEF Call
<1> QED  BY <1>1, <1>2, <1>3, <1>4, RowParts

LEMMA InstallSound ==
  ASSUME ReplayInvariant, Install
  PROVE  ReplayInvariant'
<1> DEFINE n == call.step.start + call.done + 1
           fact == call.step.facts[call.done + 1]
<1>1. /\ call.pc = "install" /\ Installing /\ store = "bound" /\ ~loop.healthy
      /\ Types /\ Lineage /\ Chain
  BY DEF ReplayInvariant, LoopSound, Install
<1>2. /\ rows \in Seq(Row) /\ records \in Seq(Fact) /\ call \in Call /\ loop \in Loop
      /\ Len(rows) \in 1..Len(rows) /\ Len(rows) \in Nat /\ Len(records) \in Nat
      /\ call.step \in Row /\ call.step.start \in Nat /\ call.step.facts \in Seq(Fact)
      /\ Len(call.step.facts) \in Nat /\ call.done \in Nat
  BY <1>1, InstallingFacts
<1>3. /\ call.done < Len(call.step.facts) /\ call' = [call EXCEPT !.done = call.done + 1]
      /\ UNCHANGED <<program, store, rows, consumed, loop, faults>>
      /\ IF n <= Len(records) THEN Plan(records[n]) = Plan(fact) /\ UNCHANGED records
                              ELSE records' = Append(records, fact)
  BY DEF Install
<1>4. /\ rows # <<>> /\ call.step = rows[Len(rows)] /\ ~call.step.ready
      /\ call.step.start + call.done <= Len(records)
      /\ loop.part = call.step.state.part /\ loop.clock = call.step.state.clock
  BY <1>1 DEF Installing
<1>5. fact \in Fact
  <2>1. call.done + 1 \in 1..Len(call.step.facts)  BY <1>2, <1>3
  <2> QED  BY <2>1, <1>2
<1>6. /\ records' \in Seq(Fact) /\ Lineage' /\ Chain' /\ Len(records) <= Len(records')
      /\ n <= Len(records')
  <2>1. CASE n <= Len(records)
    <3>1. UNCHANGED <<program, rows, records>>  BY <2>1, <1>3
    <3> QED  BY <2>1, <3>1, <1>1, <1>2, DiskKept
  <2>2. CASE ~(n <= Len(records))
    <3>1. call.step.start + call.done = Len(records)  BY <2>2, <1>2, <1>4
    <3>2. records' = Append(records, fact)  BY <2>2, <1>3
    <3>3. Len(records') = Len(records) + 1  BY <3>2, <1>2, <1>5
    <3>4. n = Len(records) + 1  BY <3>1
    <3> HIDE DEF n, fact
    <3>5. records' \in Seq(Fact) /\ Lineage' /\ Chain'
      <4>1. call.done < Len(rows[Len(rows)].facts) /\ rows[Len(rows)].start + call.done = Len(records)
            /\ Plan(fact) = Plan(rows[Len(rows)].facts[call.done + 1]) /\ ~rows[Len(rows)].ready
        BY <3>1, <1>3, <1>4 DEF fact
      <4> QED  BY <4>1, <3>2, <1>1, <1>2, <1>3, <1>4, <1>5, Executed
    <3> QED  BY <3>3, <3>4, <3>5, <1>2
  <2> QED  BY <2>1, <2>2
<1>7. call' \in Call /\ call'.pc = "install" /\ call'.step = call.step /\ call'.done = call.done + 1
  BY <1>1, <1>2, <1>3 DEF Call
<1>8. consumed' \subseteq DOMAIN records'
  <2>1. consumed \subseteq 1..Len(records)  BY <1>1, <1>2 DEF Types
  <2>2. DOMAIN records' = 1..Len(records')  BY <1>6
  <2>3. 1..Len(records) \subseteq 1..Len(records')  
    <3>1. Len(records') \in Nat  BY <1>6
    <3> QED  BY <3>1, <1>2, <1>6
  <2> QED  BY <2>1, <2>2, <2>3, <1>3
<1>9. Types'  BY <1>1, <1>3, <1>6, <1>7, <1>8 DEF Types
<1>10. Installing'
  <2>1. call'.done <= Len(call'.step.facts)  BY <1>2, <1>3, <1>7
  <2>2. call'.step.start + call'.done <= Len(records')  BY <1>2, <1>6, <1>7
  <2> QED  BY <2>1, <2>2, <1>3, <1>4, <1>7 DEF Installing
<1>11. store' = "bound" /\ ~loop'.healthy  BY <1>1, <1>3
<1>12. LoopSound'  BY ONLY <1>7, <1>10, <1>11 DEF LoopSound
<1> QED  BY <1>6, <1>9, <1>12 DEF ReplayInvariant

\* The proposal is executed and made Ready: what is in memory is the journal.
LEMMA FinishedSound ==
  ASSUME Types, Lineage, Chain, Installing, Installed, rows' = MadeReady, UNCHANGED <<program, records>>
  PROVE  /\ rows' \in Seq(Row) /\ Lineage' /\ Chain' /\ AllReady'
         /\ MemoryAt(Len(rows))' = [state |-> call.step.state, part |-> loop.part, clock |-> loop.clock]
<1>1. /\ rows \in Seq(Row) /\ records \in Seq(Fact)
      /\ Len(rows) \in 1..Len(rows) /\ Len(rows) \in Nat
  BY InstallingFacts
<1>2. /\ rows # <<>> /\ call.step = rows[Len(rows)]
      /\ loop.part = call.step.state.part /\ loop.clock = call.step.state.clock
  BY DEF Installing
<1>3. rows[Len(rows)].start + Len(rows[Len(rows)].facts) = Len(records)
  BY <1>2 DEF Installed
<1>4. /\ rows' \in Seq(Row) /\ Lineage' /\ Chain' /\ AllReady'
      /\ Len(rows') = Len(rows) /\ rows' # <<>> /\ rows'[Len(rows)].state = rows[Len(rows)].state
  BY <1>1, <1>2, <1>3, Completed
<1>5. Len(rows') # 0 /\ rows'[Len(rows')].state = call.step.state  BY <1>1, <1>2, <1>4
<1>6. MemoryAt(Len(rows))' = [state |-> call.step.state, part |-> call.step.state.part,
                              clock |-> call.step.state.clock]
  BY <1>5 DEF MemoryAt
<1> QED  BY <1>2, <1>4, <1>6

LEMMA EventsTyped == records \in Seq(Fact) => Undelivered \subseteq Nat
BY DEF Undelivered

LEMMA CompleteSound ==
  ASSUME ReplayInvariant, Complete
  PROVE  ReplayInvariant'
<1>1. /\ call.pc = "install" /\ Installing /\ store = "bound" /\ Installed
      /\ Types /\ Lineage /\ Chain
  BY DEF ReplayInvariant, LoopSound, Complete, Installed
<1>2. /\ rows' = MadeReady
      /\ loop' = [loop EXCEPT !.healthy = TRUE, !.state = call.step.state, !.known = MadeReady]
      /\ UNCHANGED <<program, store, records, consumed, faults>>
  BY DEF Complete
<1>3. /\ rows' \in Seq(Row) /\ Lineage' /\ Chain' /\ AllReady'
      /\ MemoryAt(Len(rows))' = [state |-> call.step.state, part |-> loop.part, clock |-> loop.clock]
  BY <1>1, <1>2, FinishedSound
<1>4. loop \in Loop /\ call.step.state \in State /\ records \in Seq(Fact)  BY <1>1, InstallingFacts
<1>5. /\ loop' \in Loop /\ loop'.known = rows' /\ loop'.state = call.step.state
      /\ loop'.part = loop.part /\ loop'.clock = loop.clock
  BY <1>2, <1>3, <1>4 DEF Loop
<1>6. call' \in Call /\ call'.pc \in {"idle", "deliver"}
  <2>1. Undelivered \subseteq Nat  BY <1>4, EventsTyped
  <2>2. [Idle EXCEPT !.pc = "deliver", !.events = Undelivered] \in Call
    BY <2>1 DEF Idle, Call, Pc
  <2>3. [Idle EXCEPT !.pc = "deliver", !.events = Undelivered].pc = "deliver" /\ Idle.pc = "idle"  BY DEF Idle
  <2> QED  BY <2>2, <2>3, IdleTyped DEF Complete
<1>7. Types'  BY <1>1, <1>2, <1>3, <1>5, <1>6 DEF Types
<1>8. Current'
  <2>1. Memory(loop)' = [state |-> call.step.state, part |-> loop.part, clock |-> loop.clock]
    BY <1>5 DEF Memory
  <2> QED  BY <2>1, <1>3, <1>5 DEF Current
<1>9. store' = "bound"  BY <1>1, <1>2
<1>10. LoopSound'  BY ONLY <1>6, <1>8, <1>9 DEF LoopSound
<1> QED  BY <1>3, <1>7, <1>10 DEF ReplayInvariant

LEMMA TransitionFailsSound ==
  ASSUME ReplayInvariant, NEW persisted \in BOOLEAN, TransitionFails(persisted)
  PROVE  ReplayInvariant'
<1> DEFINE n == call.step.start + call.done + 1
           applying == call.pc = "install" /\ call.done < Len(call.step.facts)
<1>1. /\ call.pc \in {"prepare", "install"} /\ store = "bound" /\ ~loop.healthy
      /\ (call.pc = "prepare" => Preparing) /\ (call.pc = "install" => Installing)
      /\ Types /\ Lineage /\ Chain
  BY DEF ReplayInvariant, LoopSound, TransitionFails
<1>2. /\ loop' = [loop EXCEPT !.rt = FALSE] /\ call' = Idle
      /\ UNCHANGED <<program, store, consumed>> /\ Fault
      /\ rows' = CASE persisted /\ call.pc = "prepare" -> Append(rows, call.step)
                   [] persisted /\ Installed -> MadeReady
                   [] OTHER -> rows
  BY DEF TransitionFails
<1>3. PICK ready \in BOOLEAN :
        records' = IF persisted /\ applying /\ n > Len(records)
                     THEN Append(records, [call.step.facts[call.done + 1] EXCEPT !.ready = ready])
                     ELSE records
  BY DEF TransitionFails
<1>4. /\ rows \in Seq(Row) /\ records \in Seq(Fact) /\ loop \in Loop /\ consumed \subseteq DOMAIN records
      /\ Len(records) \in Nat
  BY <1>1 DEF Types
<1>5. loop' \in Loop /\ ~loop'.healthy  BY <1>1, <1>2, <1>4 DEF Loop
<1>6. call'.pc = "idle" /\ store' = "bound"  BY <1>1, <1>2 DEF Idle
<1>7. LoopSound'  BY ONLY <1>5, <1>6 DEF LoopSound
<1>8. ASSUME rows' \in Seq(Row), records' \in Seq(Fact), Len(records) <= Len(records')
      PROVE  Types'
  <2>1. consumed' \subseteq DOMAIN records'
    <3>1. DOMAIN records = 1..Len(records) /\ DOMAIN records' = 1..Len(records') /\ Len(records') \in Nat
      BY <1>8, <1>4
    <3>2. 1..Len(records) \subseteq 1..Len(records')  BY <3>1, <1>4, <1>8
    <3> QED  BY <3>1, <3>2, <1>2, <1>4
  <2> QED  BY <2>1, <1>1, <1>2, <1>5, <1>8, IdleTyped, ReplayAssumption DEF Types, Fault
<1>9. ASSUME rows' \in Seq(Row), records' \in Seq(Fact), Len(records) <= Len(records'), Lineage', Chain'
      PROVE  ReplayInvariant'
  BY <1>7, <1>8, <1>9 DEF ReplayInvariant
<1>10. CASE persisted /\ call.pc = "prepare"
  <2>0. ~Installed /\ ~applying  BY <1>10 DEF Installed
  <2>1. rows' = Append(rows, call.step) /\ records' = records  BY <2>0, <1>2, <1>3, <1>10
  <2>2. /\ call.step \in Row /\ ~call.step.ready /\ AllReady
        /\ Rederives(MemoryAt(Len(rows)), call.step, records)
    BY <1>1, <1>10 DEF Preparing
  <2>3. rows' \in Seq(Row) /\ Lineage' /\ Chain'  BY <2>1, <2>2, <1>1, <1>2, <1>4, Proposed
  <2> QED  BY <2>1, <2>3, <1>4, <1>9
<1>11. CASE persisted /\ Installed
  <2>1. call.pc = "install" /\ Installing /\ ~applying  BY <1>1, <1>11, InstallingFacts DEF Installed
  <2>2. rows' = MadeReady /\ records' = records  BY <2>1, <1>2, <1>3, <1>11
  <2>3. rows' \in Seq(Row) /\ Lineage' /\ Chain'  BY <2>1, <2>2, <1>1, <1>2, <1>11, FinishedSound
  <2> QED  BY <2>2, <2>3, <1>4, <1>9
<1>12. CASE persisted /\ applying /\ n > Len(records)
  <2> DEFINE fact == [call.step.facts[call.done + 1] EXCEPT !.ready = ready]
  <2>1. call.pc = "install" /\ Installing  BY <1>1, <1>12
  <2>2. /\ Len(rows) \in 1..Len(rows)
        /\ call.step \in Row /\ call.step.start \in Nat /\ call.step.facts \in Seq(Fact)
        /\ Len(call.step.facts) \in Nat /\ call.done \in Nat
    BY <2>1, <1>1, InstallingFacts
  <2>3. /\ rows # <<>> /\ call.step = rows[Len(rows)] /\ ~call.step.ready
        /\ call.step.start + call.done <= Len(records)
    BY <2>1 DEF Installing
  <2>4. rows' = rows
    <3>1. ~Installed  BY <2>2, <1>12 DEF Installed
    <3> QED  BY <3>1, <2>1, <1>2
  <2>5. records' = Append(records, fact)  BY <1>3, <1>12
  <2>6. call.step.start + call.done = Len(records)  BY <2>2, <2>3, <1>4, <1>12
  <2>7. call.step.facts[call.done + 1] \in Fact
    <3>1. call.done + 1 \in 1..Len(call.step.facts)  BY <2>2, <1>12
    <3> QED  BY <3>1, <2>2
  <2>8. fact \in Fact /\ Plan(fact) = Plan(call.step.facts[call.done + 1])  BY <2>7 DEF Fact, Plan
  <2> HIDE DEF fact, n
  <2>9. records' \in Seq(Fact) /\ Lineage' /\ Chain'
    <3>1. /\ call.done < Len(rows[Len(rows)].facts) /\ rows[Len(rows)].start + call.done = Len(records)
          /\ Plan(fact) = Plan(rows[Len(rows)].facts[call.done + 1]) /\ ~rows[Len(rows)].ready
      BY <2>3, <2>6, <2>8, <1>12
    <3> QED  BY <3>1, <2>2, <2>3, <2>4, <2>5, <2>8, <1>1, <1>2, <1>4, Executed
  <2>10. Len(records') = Len(records) + 1  BY <2>5, <2>8, <1>4
  <2> QED  BY <2>4, <2>9, <2>10, <1>4, <1>9
<1>13. CASE /\ ~(persisted /\ call.pc = "prepare")
            /\ ~(persisted /\ Installed)
            /\ ~(persisted /\ applying /\ n > Len(records))
  <2>1. rows' = rows /\ records' = records  BY <1>2, <1>3, <1>13
  <2>2. Lineage' /\ Chain'  BY <2>1, <1>1, <1>2, DiskKept
  <2> QED  BY <2>1, <2>2, <1>4, <1>9
<1> QED  BY <1>10, <1>11, <1>12, <1>13

LEMMA ObserverFailsSound ==
  ASSUME ReplayInvariant, ObserverFails
  PROVE  ReplayInvariant'
<1>1. /\ call.pc \in {"prepare", "install"} /\ store = "bound" /\ ~loop.healthy
      /\ (call.pc = "install" => Installing)
      /\ Types /\ Lineage /\ Chain /\ loop \in Loop
  BY DEF ReplayInvariant, LoopSound, ObserverFails, Types
<1>2. call' = Idle /\ UNCHANGED <<program, store, records, consumed>> /\ Fault  BY DEF ObserverFails
<1>3. call'.pc = "idle" /\ store' = "bound"  BY <1>1, <1>2 DEF Idle
<1>4. ASSUME rows' \in Seq(Row), Lineage', Chain', loop' \in Loop, ~loop'.healthy
      PROVE  ReplayInvariant'
  <2>1. Types'  BY <1>1, <1>2, <1>4, IdleTyped, ReplayAssumption DEF Types, Fault
  <2>2. LoopSound'  BY ONLY <1>3, <1>4 DEF LoopSound
  <2> QED  BY <2>1, <2>2, <1>4 DEF ReplayInvariant
<1>5. CASE UNCHANGED <<rows, loop>>
  <2>1. Lineage' /\ Chain'  BY <1>1, <1>2, <1>5, DiskKept
  <2>2. rows' \in Seq(Row)  BY <1>1, <1>5 DEF Types
  <2> QED  BY <2>1, <2>2, <1>1, <1>4, <1>5
<1>6. CASE /\ Installed /\ rows' = MadeReady
           /\ loop' = [loop EXCEPT !.state = call.step.state, !.known = MadeReady]
  <2>1. Installing  BY <1>1, <1>6 DEF Installed
  <2>2. rows' \in Seq(Row) /\ Lineage' /\ Chain'  BY <2>1, <1>1, <1>2, <1>6, FinishedSound
  <2>3. call.step.state \in State  BY <2>1, <1>1, InstallingFacts
  <2>4. loop' \in Loop /\ ~loop'.healthy  BY <2>2, <2>3, <1>1, <1>6 DEF Loop
  <2> QED  BY <2>2, <2>4, <1>4
<1> QED  BY <1>5, <1>6 DEF ObserverFails

\* Memory is not touched: a loop that was current stays so.
LEMMA StillCurrent ==
  ASSUME Current, rows' = rows, loop'.known = loop.known, loop'.state = loop.state,
         loop'.part = loop.part, loop'.clock = loop.clock
  PROVE  Current'
<1>1. Memory(loop)' = Memory(loop)  BY DEF Memory
<1>2. MemoryAt(Len(rows))' = MemoryAt(Len(rows))  BY DEF MemoryAt
<1>3. AllReady' = AllReady  BY DEF AllReady
<1> QED  BY <1>1, <1>2, <1>3 DEF Current

\* The actions of a delivery touch the flags of a record and the health of
\* the loop, never what is in memory.
LEMMA DeliverySound ==
  ASSUME ReplayInvariant, call.pc \in {"idle", "deliver", "acknowledge"},
         call' \in Call, call'.pc \in {"idle", "deliver", "acknowledge"},
         loop' \in Loop, loop'.known = loop.known, loop'.state = loop.state,
         loop'.part = loop.part, loop'.clock = loop.clock, loop'.healthy => loop.healthy,
         records' \in Seq(Fact), Len(records') = Len(records),
         \A n \in 1..Len(records) : Plan(records'[n]) = Plan(records[n]),
         consumed' \subseteq DOMAIN records, faults' \in 0..MaxFaults,
         UNCHANGED <<program, store, rows>>
  PROVE  ReplayInvariant'
<1>1. rows \in Seq(Row) /\ records \in Seq(Fact)  BY DEF ReplayInvariant, Types
<1>2. Lineage' /\ Chain'  BY <1>1, FlagsMove DEF ReplayInvariant
<1>3. DOMAIN records' = DOMAIN records  BY <1>1
<1>4. Types'  BY <1>3 DEF ReplayInvariant, Types
<1>5. loop'.healthy => store' = "bound" /\ Current'  BY StillCurrent DEF ReplayInvariant, LoopSound
<1>6. store' # "bound" => rows' = <<>> /\ records' = <<>>
  <2>1. store # "bound" => rows = <<>> /\ Len(records) = 0  BY DEF ReplayInvariant, LoopSound
  <2>2. Len(records') = 0 => records' = <<>>  OBVIOUS
  <2> QED  BY <2>1, <2>2
<1>7. LoopSound'  BY ONLY <1>5, <1>6, call'.pc \in {"idle", "deliver", "acknowledge"} DEF LoopSound
<1> QED  BY <1>2, <1>4, <1>7 DEF ReplayInvariant

LEMMA AcknowledgedFlags ==
  ASSUME records \in Seq(Fact), NEW n \in DOMAIN records
  PROVE  /\ Acknowledged(n) \in Seq(Fact) /\ Len(Acknowledged(n)) = Len(records)
         /\ \A m \in 1..Len(records) : Plan(Acknowledged(n)[m]) = Plan(records[m])
<1> DEFINE f == [records[n] EXCEPT !.delivered = TRUE]
<1>1. records[n] \in Fact  OBVIOUS
<1>2. f \in Fact /\ Plan(f) = Plan(records[n])  BY <1>1 DEF Fact, Plan
<1>3. Acknowledged(n) = [records EXCEPT ![n] = f]  BY DEF Acknowledged
<1> HIDE DEF f
<1> QED  BY <1>2, <1>3

LEMMA DeliverySteps ==
  ASSUME ReplayInvariant
  PROVE  /\ Deliver => ReplayInvariant'
         /\ \A n \in DOMAIN records : Consume(n) => ReplayInvariant'
         /\ \A n \in DOMAIN records : Reject(n) => ReplayInvariant'
<1>1. /\ records \in Seq(Fact) /\ call \in Call /\ loop \in Loop /\ consumed \subseteq DOMAIN records
      /\ faults \in 0..MaxFaults
  BY DEF ReplayInvariant, Types
<1>2. Undelivered \subseteq Nat  BY <1>1, EventsTyped
<1>3. ASSUME UNCHANGED <<program, store, rows, records, loop>>, faults' \in 0..MaxFaults,
             consumed' \subseteq DOMAIN records, call.pc \in {"idle", "deliver", "acknowledge"},
             call' \in Call, call'.pc \in {"idle", "deliver", "acknowledge"}
      PROVE  ReplayInvariant'
  <2>1. Len(records') = Len(records) /\ \A n \in 1..Len(records) : Plan(records'[n]) = Plan(records[n])
    BY <1>3
  <2> QED  BY <2>1, <1>1, <1>3, DeliverySound
<1>4. ASSUME Deliver PROVE ReplayInvariant'
  <2>1. call' \in Call /\ call'.pc = "deliver"  BY <1>2, <1>4 DEF Deliver, Idle, Call, Pc
  <2> QED  BY <2>1, <1>1, <1>3, <1>4 DEF Deliver, diskVars
<1>5. ASSUME NEW n \in DOMAIN records, Consume(n) PROVE ReplayInvariant'
  <2>1. call' \in Call /\ call'.pc = "acknowledge"  BY <1>1, <1>5 DEF Consume, Call, Pc
  <2> QED  BY <2>1, <1>1, <1>3, <1>5 DEF Consume, diskVars
<1>6. ASSUME NEW n \in DOMAIN records, Reject(n) PROVE ReplayInvariant'
  <2>1. call' \in Call /\ call'.pc = "idle"  BY <1>6, IdleTyped DEF Reject, Idle
  <2>2. faults' \in 0..MaxFaults  BY <1>1, <1>6, ReplayAssumption DEF Reject, Fault
  <2> QED  BY <2>1, <2>2, <1>1, <1>3, <1>6 DEF Reject, diskVars
<1> QED  BY <1>4, <1>5, <1>6

LEMMA AcknowledgeSound ==
  ASSUME ReplayInvariant, NEW n \in DOMAIN records, Acknowledge(n)
  PROVE  ReplayInvariant'
<1>1. /\ records \in Seq(Fact) /\ call \in Call /\ loop \in Loop /\ consumed \subseteq DOMAIN records
      /\ faults \in 0..MaxFaults
  BY DEF ReplayInvariant, Types
<1>2. /\ records' \in Seq(Fact) /\ Len(records') = Len(records)
      /\ \A m \in 1..Len(records) : Plan(records'[m]) = Plan(records[m])
  BY <1>1, AcknowledgedFlags DEF Acknowledge
<1>3. call' \in Call /\ call'.pc \in {"idle", "deliver"}
  <2>1. call.events \ {n} \subseteq Nat  BY <1>1 DEF Call
  <2>2. [call EXCEPT !.pc = "deliver", !.events = call.events \ {n}] \in Call
    BY <2>1, <1>1 DEF Call, Pc
  <2>3. [call EXCEPT !.pc = "deliver", !.events = call.events \ {n}].pc = "deliver" /\ Idle.pc = "idle"
    BY <1>1 DEF Call, Idle
  <2> QED  BY <2>2, <2>3, IdleTyped DEF Acknowledge
<1>4. call.pc = "acknowledge" /\ UNCHANGED <<program, store, rows, consumed, loop, faults>>
  BY DEF Acknowledge
<1> QED  BY <1>1, <1>2, <1>3, <1>4, DeliverySound

LEMMA AcknowledgeFailsSound ==
  ASSUME ReplayInvariant, NEW n \in DOMAIN records, NEW persisted \in BOOLEAN,
         AcknowledgeFails(n, persisted)
  PROVE  ReplayInvariant'
<1>1. /\ records \in Seq(Fact) /\ call \in Call /\ loop \in Loop /\ consumed \subseteq DOMAIN records
      /\ faults \in 0..MaxFaults
  BY DEF ReplayInvariant, Types
<1>2. /\ records' \in {records, Acknowledged(n)} /\ call' = Idle /\ call.pc = "acknowledge"
      /\ loop' \in {[loop EXCEPT !.rt = FALSE], [loop EXCEPT !.healthy = FALSE]}
      /\ UNCHANGED <<program, store, rows, consumed>> /\ Fault
  BY DEF AcknowledgeFails
<1>3. /\ records' \in Seq(Fact) /\ Len(records') = Len(records)
      /\ \A m \in 1..Len(records) : Plan(records'[m]) = Plan(records[m])
  BY <1>1, <1>2, AcknowledgedFlags
<1>4. /\ loop' \in Loop /\ loop'.known = loop.known /\ loop'.state = loop.state
      /\ loop'.part = loop.part /\ loop'.clock = loop.clock /\ (loop'.healthy => loop.healthy)
  BY <1>1, <1>2 DEF Loop
<1>5. call' \in Call /\ call'.pc = "idle"  BY <1>2, IdleTyped DEF Idle
<1>6. faults' \in 0..MaxFaults  BY <1>1, <1>2, ReplayAssumption DEF Fault
<1> QED  BY <1>1, <1>2, <1>3, <1>4, <1>5, <1>6, DeliverySound

LEMMA StutterSound == ReplayInvariant /\ UNCHANGED vars => ReplayInvariant'
<1> SUFFICES ASSUME ReplayInvariant, UNCHANGED vars PROVE ReplayInvariant'  OBVIOUS
<1>1. UNCHANGED <<program, store, rows, records, consumed, loop, call, faults>>  BY DEF vars
<1>2. Types /\ Lineage /\ Chain /\ LoopSound  BY DEF ReplayInvariant
<1>3. Lineage' /\ Chain' /\ AllReady' = AllReady  BY <1>1, <1>2, DiskKept
<1>4. Types'  BY <1>1, <1>2 DEF Types
<1>5. Current => Current'  BY <1>1, StillCurrent
<1>6. Blank' = Blank /\ Installing' = Installing  BY <1>1 DEF Blank, Installing, Memory
<1>7. Rederiving' = Rederiving  BY <1>1 DEF Rederiving, Memory, MemoryAt
<1>8. Preparing => Preparing'
  <2> SUFFICES ASSUME Preparing, NEW m, NEW r, NEW p,
                      m = MemoryAt(Len(rows))', r = call'.step, p = records'
               PROVE  Rederives(m, r, p)'
    BY <1>1, <1>3 DEF Preparing
  <2>1. m = MemoryAt(Len(rows)) /\ r = call.step /\ p = records  BY <1>1 DEF MemoryAt
  <2>2. Rederives(m, r, p)  BY <2>1 DEF Preparing
  <2> QED  BY <2>2, <1>1, ProgramPinned
<1>9. LoopSound'  BY <1>1, <1>2, <1>5, <1>6, <1>7, <1>8 DEF LoopSound
<1> QED  BY <1>3, <1>4, <1>9 DEF ReplayInvariant

LEMMA ClientSound == ReplayInvariant /\ Client => ReplayInvariant'
<1> SUFFICES ASSUME ReplayInvariant, Client PROVE ReplayInvariant'  OBVIOUS
<1>1. "none" \in Outcomes /\ "COMPLETED" \in Outcomes /\ "INCOMPLETE" \in Outcomes
  BY DEF Outcomes, Failures
<1>2. CASE Create  BY <1>2, CreateSound
<1>3. CASE Open  BY <1>3, OpenSound
<1>4. ASSUME NEW deliver \in BOOLEAN, Step(deliver) PROVE ReplayInvariant'
  <2>1. PICK kind \in Kind : Transition(kind, "none", deliver)
    <3>1. "OPEN" \in Kind /\ "BAR" \in Kind  BY DEF Kind
    <3> QED  BY <3>1, <1>4 DEF Step
  <2> QED  BY <2>1, <1>1, TransitionSound
<1>5. CASE CloseInput
  <2>1. "INPUT_END" \in Kind /\ Transition("INPUT_END", "none", FALSE)  BY <1>5 DEF CloseInput, Kind
  <2> QED  BY <2>1, <1>1, TransitionSound
<1>6. CASE CancelInput
  <2>1. "CANCEL_INPUT" \in Kind /\ Transition("CANCEL_INPUT", "none", FALSE)  BY <1>6 DEF CancelInput, Kind
  <2> QED  BY <2>1, <1>1, TransitionSound
<1>7. CASE FinishInput
  <2>1. "TERMINATE" \in Kind  BY DEF Kind
  <2>2. PICK outcome \in Outcomes : Transition("TERMINATE", outcome, FALSE)  BY <1>1, <1>7 DEF FinishInput
  <2> QED  BY <2>1, <2>2, TransitionSound
<1>8. CASE Pause
  <2>1. "PAUSE" \in Kind /\ Transition("PAUSE", "none", FALSE)  BY <1>8 DEF Pause, Kind
  <2> QED  BY <2>1, <1>1, TransitionSound
<1>9. CASE Resume
  <2>1. "RESUME" \in Kind /\ Transition("RESUME", "none", FALSE)  BY <1>9 DEF Resume, Kind
  <2> QED  BY <2>1, <1>1, TransitionSound
<1>10. CASE Deliver  BY <1>10, DeliverySteps
<1>11. ASSUME NEW outcome \in Outcomes \ {"none"}, Terminate(outcome) PROVE ReplayInvariant'
  <2>1. "TERMINATE" \in Kind /\ Transition("TERMINATE", outcome, FALSE)  BY <1>11 DEF Terminate, Kind
  <2> QED  BY <2>1, TransitionSound
<1> QED  BY <1>2, <1>3, <1>4, <1>5, <1>6, <1>7, <1>8, <1>9, <1>10, <1>11 DEF Client

LEMMA NextSound == ReplayInvariant /\ Next => ReplayInvariant'
<1> SUFFICES ASSUME ReplayInvariant, Next PROVE ReplayInvariant'  OBVIOUS
<1>1. CASE Work
  <2>1. CASE Bind  BY <2>1, BindSound
  <2>2. CASE Recover  BY <2>2, RecoverSound
  <2>3. CASE Continue
    BY <2>3, RecoverStepSound, RecoverDoneSound, PrepareSound, InstallSound, CompleteSound,
       DeliverySteps, AcknowledgeSound DEF Continue
  <2> QED  BY <1>1, <2>1, <2>2, <2>3 DEF Work
<1>2. CASE Client  BY <1>2, ClientSound
<1>3. CASE Failing
  BY <1>3, CrashSound, ObserverFailsSound, RecoverFailsSound, TransitionFailsSound, DeliverySteps,
     AcknowledgeFailsSound DEF Failing
<1> QED  BY <1>1, <1>2, <1>3 DEF Next

-----------------------------------------------------------------------------
(* Theorems *)

\* The journal and the loop stay in step: what is stored comes out again, and
\* at every point of a call memory is where the journal says it is.
THEOREM RunSound == Spec => []ReplayInvariant
<1>1. ReplayInvariant /\ [Next]_vars => ReplayInvariant'  BY NextSound, StutterSound
<1> QED  BY <1>1, InitSound, PTL DEF Spec

\* Between two calls a loop that answers has in memory exactly what its Ready
\* journal says (RunLoop::check, transition_after_check).
THEOREM MemoryFollowsJournal == Spec => []MemoryIsJournal
<1>1. ReplayInvariant => MemoryIsJournal
  <2> SUFFICES ASSUME ReplayInvariant, loop.healthy, call.pc = "idle"
               PROVE  /\ loop.known = rows
                      /\ \A k \in DOMAIN rows : rows[k].ready
                      /\ loop.state = IF rows = <<>> THEN Initial ELSE rows[Len(rows)].state
                      /\ loop.part = loop.state.part /\ loop.clock = loop.state.clock
    BY DEF MemoryIsJournal
  <2>1. Current /\ rows \in Seq(Row)  BY DEF ReplayInvariant, LoopSound, Types
  <2>2. Len(rows) = 0 <=> rows = <<>>  BY <2>1, EmptySeq
  <2> DEFINE s == IF rows = <<>> THEN Initial ELSE rows[Len(rows)].state
  <2>3. MemoryAt(Len(rows)) = [state |-> s, part |-> s.part, clock |-> s.clock]  BY <2>2 DEF MemoryAt
  <2> HIDE DEF s
  <2>4. loop.state = s /\ loop.part = s.part /\ loop.clock = s.clock
    BY <2>1, <2>3 DEF Current, Memory
  <2> QED  BY <2>1, <2>4 DEF Current, AllReady, s
<1> QED  BY <1>1, RunSound, PTL

\* Whatever failed or stopped, the stored journal can be read and every step of
\* it comes out again: recover never refuses (RunLoop::recover,
\* replay_steps_from_source).
THEOREM JournalAlwaysRederives == Spec => []JournalRederives
<1>1. ReplayInvariant => JournalRederives
  <2> SUFFICES ASSUME ReplayInvariant PROVE JournalRederives  OBVIOUS
  <2>1. Types /\ Lineage /\ Chain  BY DEF ReplayInvariant
  <2>2. TypeOK
    <3>1. \A k \in DOMAIN rows : rows[k].outcome \in Outcomes /\ rows[k].ready \in BOOLEAN
      <4>1. rows \in Seq(Row)  BY <2>1 DEF Types
      <4>2. \A k \in DOMAIN rows : rows[k] \in Row  BY <4>1
      <4> QED  BY <4>2 DEF Row
    <3>2. call.pc \in Pc  BY <2>1 DEF Types, Call
    <3> QED  BY <3>1, <3>2, <2>1 DEF TypeOK, Types, Pc
  <2> QED  BY <2>1, <2>2 DEF JournalRederives, Chain, Prefix
<1> QED  BY <1>1, RunSound, PTL
=============================================================================
