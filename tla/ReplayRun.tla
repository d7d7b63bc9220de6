------------------------------ MODULE ReplayRun ------------------------------
(***************************************************************************)
(* The run loop of a backtest over its replay journal                      *)
(* (crates/backtest/src/run.rs, crates/runtime/src/{replay,references}.rs) *)
(* with its two driver profiles (trading.rs, next_open.rs).                *)
(*                                                                         *)
(* A transition is derived in memory, which moves the clock and the        *)
(* participants at once; then its step is stored as a proposal, its        *)
(* execution facts are applied to the Runtime one by one, and the step is  *)
(* made Ready. Any of these may fail, before or after it was persisted,    *)
(* and the process may stop anywhere. The loop is then unhealthy until     *)
(* recover has derived every stored step again, each from the execution    *)
(* prefix it started from, and has finished the last one.                  *)
(*                                                                         *)
(* The Runtime is what ExecutionLog promises: a record is appended and     *)
(* Ready, or its call fails and the Runtime refuses every call but         *)
(* recover. Hashes are equality, prices and quantities are left out: an    *)
(* execution input is its operation and the bar that caused it. Failing    *)
(* reads change nothing and have no action.                                *)
(***************************************************************************)
EXTENDS Naturals, Sequences, FiniteSets

CONSTANTS
  Programs,    \* what a run can be bound to: [native, bars]
  MaxPauses,   \* bound: PAUSE steps in the journal
  MaxFaults    \* bound: crashes, failing calls, refused transitions

\* What a bar leads to: the strategy's signals, and whether the order of that
\* bar is admitted (native) or the open order is filled (closed bars).
Bar == [entry : BOOLEAN, exit : BOOLEAN, ok : BOOLEAN]

ASSUME ReplayAssumption ==
  /\ \A m \in Programs : m.native \in BOOLEAN /\ m.bars \in Seq(Bar)
  /\ MaxPauses \in Nat
  /\ MaxFaults \in Nat

Failures == {"FAILED", "CANCELLED", "INCOMPLETE", "UNKNOWN"}
Outcomes == {"none", "COMPLETED"} \cup Failures

VARIABLES
  program,     \* the replay binding: the profile and the pinned inputs
  store,       \* the Runtime directory: absent, unbound, bound
  rows,        \* replay_steps: proposals and Ready steps
  records,     \* execution records: [op, bar, ready, delivered]
  consumed,    \* history: records whose event the consumer accepted
  loop,        \* RunLoop in memory
  call,        \* the public call in progress
  faults

vars == <<program, store, rows, records, consumed, loop, call, faults>>
diskVars == <<program, store, rows, records>>

\* opening_phase: the native profile has an OPEN and a BAR step for each bar.
Native == program.native

-----------------------------------------------------------------------------
(* Execution state that the participants read from the candidate. *)

Ops(prefix, names) == Cardinality({n \in DOMAIN prefix : prefix[n].op \in names})

Active(prefix) == Ops(prefix, {"ADMIT"}) > Ops(prefix, {"FILL", "TERMINAL"})
Held(prefix) == Ops(prefix, {"FILL"}) % 2 = 1

\* execution facts of one bar
Facts(names, i) ==
  [n \in DOMAIN names |-> [op |-> names[n], bar |-> i, ready |-> TRUE, delivered |-> FALSE]]

\* The input of a record, without its flags.
Plan(r) == <<r.op, r.bar>>

-----------------------------------------------------------------------------
(* Participants: the native next-open profile keeps a pending signal, the   *)
(* closed-bar profile keeps nothing that the execution state does not say.  *)

NoSignal == [side |-> "none", bar |-> 0]
Genesis == [pending |-> NoSignal, finished |-> FALSE]

\* A pending signal fits the book: no order works, and there is something to
\* buy or to sell.
ValidExecution(p, prefix) ==
  p.pending # NoSignal =>
    /\ ~Active(prefix)
    /\ p.pending.side = "SELL" <=> Held(prefix)

\* NativeReplay::opening: the whole order of the pending signal, which must be
\* the signal of the previous bar, or its rejection.
OpeningOk(p, i) == ~p.finished /\ (p.pending # NoSignal => p.pending.bar + 1 = i)
OpeningFacts(p, i) ==
  IF p.pending # NoSignal /\ program.bars[i].ok
    THEN Facts(<<"ADMIT", "SUBMISSION", "ACCEPT", "FILL">>, i) ELSE <<>>

\* NativeReplay::closed: at most one signal, taken from the book after this
\* bar's valuation.
Signal(p, i, prefix) ==
  IF p.pending # NoSignal \/ Active(prefix) THEN p.pending
  ELSE IF ~Held(prefix) /\ program.bars[i].entry THEN [side |-> "BUY", bar |-> i]
  ELSE IF Held(prefix) /\ program.bars[i].exit THEN [side |-> "SELL", bar |-> i]
  ELSE NoSignal

\* Trading::process: the replies of the broker to an earlier order, the
\* valuation of what is held, a new order of the closed-bar profile.
BarFacts(i, prefix) ==
  LET fill == IF ~Native /\ Active(prefix) /\ program.bars[i].ok THEN Facts(<<"FILL">>, i) ELSE <<>>
      exposed == IF Native THEN Held(prefix) ELSE Ops(prefix \o fill, {"FILL"}) > 0
      value == IF exposed THEN Facts(<<"VALUATION">>, i) ELSE <<>>
      book == prefix \o fill \o value
      wanted == IF Held(book) THEN program.bars[i].exit ELSE program.bars[i].entry
      order == IF ~Native /\ ~Active(book) /\ wanted
                 THEN Facts(<<"ADMIT", "SUBMISSION", "ACCEPT">>, i) ELSE <<>>
  IN fill \o value \o order

\* NativeReplay::stop_input: orders that still work are cancelled.
StopFacts(i, prefix) ==
  IF Active(prefix) THEN Facts(<<"CANCEL", "TERMINAL">>, i) ELSE <<>>

Quiescent(p, prefix) ==
  IF Native THEN p.finished /\ p.pending = NoSignal ELSE ~Active(prefix)

-----------------------------------------------------------------------------
(* derive *)

Initial == [cursor |-> 0, status |-> "RUNNING", phase |-> "OPEN", finished |-> FALSE,
            cancelled |-> FALSE, outcome |-> "none", part |-> Genesis, clock |-> 0]

Going(s) == s.status \in {"RUNNING", "PAUSED"}
Exhausted(s) == s.cursor = Len(program.bars)

DeriveFacts(mem, prefix, kind) ==
  LET i == mem.state.cursor + 1
  IN CASE kind = "OPEN" -> OpeningFacts(mem.part, i)
       [] kind = "BAR" -> BarFacts(i, prefix)
       [] kind \in {"INPUT_END", "CANCEL_INPUT"} -> StopFacts(i, prefix)
       [] OTHER -> <<>>

\* Memory after derive has run: the participants and the clock have moved,
\* the state has not.
DeriveMemory(mem, prefix, kind) ==
  LET i == mem.state.cursor + 1
      p == mem.part
      after == prefix \o DeriveFacts(mem, prefix, kind)
  IN CASE kind = "OPEN" -> [mem EXCEPT !.clock = 2 * i - 1, !.part.pending = NoSignal]
       [] kind = "BAR" -> [mem EXCEPT !.clock = 2 * i,
                             !.part.pending = IF Native THEN Signal(p, i, after) ELSE NoSignal]
       [] kind \in {"INPUT_END", "CANCEL_INPUT"} ->
            [mem EXCEPT !.part = [pending |-> NoSignal, finished |-> TRUE]]
       [] OTHER -> mem

\* The guards of derive, in memory [state, part, clock] at an execution prefix;
\* the participants agree with the execution state before and after it.
MayDerive(mem, prefix, kind, outcome) ==
  LET s == mem.state
      i == s.cursor + 1
  IN /\ ValidExecution(mem.part, prefix)
     /\ ValidExecution(DeriveMemory(mem, prefix, kind).part, prefix \o DeriveFacts(mem, prefix, kind))
     /\ \/ /\ kind = "OPEN" /\ Native
           /\ s.status = "RUNNING" /\ s.phase = "OPEN" /\ ~s.finished /\ ~Exhausted(s)
           /\ mem.clock <= 2 * i - 1
           /\ OpeningOk(mem.part, i)
        \/ /\ kind = "BAR"
           /\ s.status = "RUNNING" /\ ~Exhausted(s)
           /\ Native => s.phase = "CLOSE" /\ ~s.finished /\ ~mem.part.finished
           /\ mem.clock <= 2 * i
        \/ /\ kind = "INPUT_END" /\ Native
           /\ Going(s) /\ Exhausted(s) /\ s.phase = "OPEN" /\ ~s.finished
           /\ ~mem.part.finished
        \/ /\ kind = "CANCEL_INPUT" /\ Native
           /\ Going(s) /\ ~s.finished
           /\ ~mem.part.finished
        \/ kind = "PAUSE" /\ s.status = "RUNNING"
        \/ kind = "RESUME" /\ s.status = "PAUSED"
        \/ /\ kind = "TERMINATE" /\ Going(s)
           /\ \/ outcome \in Failures
              \/ /\ outcome = "COMPLETED"
                 /\ ~s.cancelled /\ Exhausted(s) /\ (Native => s.finished)
                 /\ Quiescent(mem.part, prefix)

DeriveState(mem, moved, kind, outcome) ==
  LET s == [mem.state EXCEPT !.part = moved.part, !.clock = moved.clock]
  IN CASE kind = "OPEN" -> [s EXCEPT !.phase = "CLOSE"]
       [] kind = "BAR" -> [s EXCEPT !.cursor = @ + 1, !.phase = "OPEN"]
       [] kind = "INPUT_END" -> [s EXCEPT !.finished = TRUE]
       [] kind = "CANCEL_INPUT" -> [s EXCEPT !.finished = TRUE, !.cancelled = TRUE]
       [] kind = "PAUSE" -> [s EXCEPT !.status = "PAUSED"]
       [] kind = "RESUME" -> [s EXCEPT !.status = "RUNNING"]
       [] kind = "TERMINATE" -> [s EXCEPT !.status = "TERMINATED", !.outcome = outcome]

\* The step that derive returns. Its index and predecessor are its place in
\* the journal.
Derive(mem, prefix, kind, outcome) ==
  [kind |-> kind, outcome |-> outcome, start |-> Len(prefix),
   facts |-> DeriveFacts(mem, prefix, kind),
   state |-> DeriveState(mem, DeriveMemory(mem, prefix, kind), kind, outcome),
   ready |-> FALSE]

-----------------------------------------------------------------------------
(* The journal as the loop reads it. *)

Memory(l) == [state |-> l.state, part |-> l.part, clock |-> l.clock]

\* replay_steps_from_source: only the last step may be a proposal, steps follow
\* each other without a gap, what they name is what was executed, and nothing
\* was executed that no step names.
Lineage ==
  /\ \A k \in DOMAIN rows :
       LET r == rows[k] IN
       /\ k < Len(rows) => rows[k].ready
       /\ r.start = IF k = 1 THEN 0 ELSE rows[k - 1].start + Len(rows[k - 1].facts)
       /\ \A n \in 1..Len(r.facts) :
            r.start + n <= Len(records) => Plan(records[r.start + n]) = Plan(r.facts[n])
       /\ r.ready => r.start + Len(r.facts) <= Len(records)
  /\ Len(records) <= IF rows = <<>> THEN 0 ELSE rows[Len(rows)].start + Len(rows[Len(rows)].facts)

\* r, derived again from memory and its prefix, comes out as it is stored.
Rederives(mem, r, prefix) ==
  /\ MayDerive(mem, prefix, r.kind, r.outcome)
  /\ Derive(mem, prefix, r.kind, r.outcome) = [r EXCEPT !.ready = FALSE]

\* Mutant: a stored step is derived again from the current head.
Prefix_Head(r) == records

\* DeriveSource::HistoricalPrefix.
Prefix(r) == SubSeq(records, 1, r.start)

\* The memory that the first k steps of the journal stand for.
MemoryAt(k) ==
  LET s == IF k = 0 THEN Initial ELSE rows[k].state
  IN [state |-> s, part |-> s.part, clock |-> s.clock]

\* pending_events: Ready and not acknowledged.
Undelivered == {n \in DOMAIN records : records[n].ready /\ ~records[n].delivered}

-----------------------------------------------------------------------------
(* Life of the process. *)

Idle == [pc |-> "idle", step |-> <<>>, done |-> 0, deliver |-> FALSE, events |-> {}]
Down == [up |-> FALSE, healthy |-> FALSE, rt |-> FALSE, state |-> Initial,
         part |-> Genesis, clock |-> 0, known |-> <<>>]

Init ==
  /\ program \in Programs
  /\ store = "absent"
  /\ rows = <<>> /\ records = <<>> /\ consumed = {}
  /\ loop = Down /\ call = Idle
  /\ faults = 0

Fault == faults < MaxFaults /\ faults' = faults + 1

\* RunLoop::create: Runtime::create, then bind_replay.
Create ==
  /\ ~loop.up /\ store = "absent"
  /\ store' = "unbound"
  /\ loop' = [Down EXCEPT !.up = TRUE, !.rt = TRUE]
  /\ call' = [Idle EXCEPT !.pc = "bind"]
  /\ UNCHANGED <<program, rows, records, consumed, faults>>

Bind ==
  /\ call.pc = "bind"
  /\ store' = "bound"
  /\ loop' = [loop EXCEPT !.healthy = TRUE]
  /\ call' = Idle
  /\ UNCHANGED <<program, rows, records, consumed, faults>>

\* The process stops, or create or open fails and drops the loop.
Crash ==
  /\ loop.up
  /\ Fault
  /\ loop' = Down /\ call' = Idle
  /\ UNCHANGED <<diskVars, consumed>>

\* RunLoop::open: a store without a binding is not permission to begin a run.
Open ==
  /\ ~loop.up /\ store = "bound"
  /\ loop' = [Down EXCEPT !.up = TRUE]
  /\ call' = [Idle EXCEPT !.pc = "recover"]
  /\ UNCHANGED <<diskVars, consumed, faults>>

Settled == [n \in DOMAIN records |-> [records[n] EXCEPT !.ready = TRUE]]

\* RunLoop::recover: Runtime::recover makes the last record Ready, the journal
\* is read and memory starts over. Callers recover a loop that failed.
Recover ==
  /\ loop.up /\ store = "bound"
  /\ call.pc = "recover" \/ (call.pc = "idle" /\ ~(loop.healthy /\ loop.rt))
  /\ Lineage
  /\ records' = Settled
  /\ loop' = [Down EXCEPT !.up = TRUE, !.rt = TRUE]
  /\ call' = [Idle EXCEPT !.pc = "rederive"]
  /\ UNCHANGED <<program, store, rows, consumed, faults>>

\* Its loop over the stored steps: each is derived again; one that comes out
\* differently ends recovery, the last one is installed if it is a proposal.
RecoverStep ==
  /\ call.pc = "rederive" /\ Len(loop.known) < Len(rows)
  /\ LET r == rows[Len(loop.known) + 1]
         moved == DeriveMemory(Memory(loop), Prefix(r), r.kind)
     IN IF ~Rederives(Memory(loop), r, Prefix(r))
          THEN call' = Idle /\ UNCHANGED loop
          ELSE IF r.ready
            THEN /\ loop' = [loop EXCEPT !.state = r.state, !.known = Append(@, r),
                                         !.part = moved.part, !.clock = moved.clock]
                 /\ UNCHANGED call
            ELSE /\ loop' = [loop EXCEPT !.part = moved.part, !.clock = moved.clock]
                 /\ call' = [Idle EXCEPT !.pc = "install", !.step = r]
  /\ UNCHANGED <<diskVars, consumed, faults>>

RecoverDone ==
  /\ call.pc = "rederive" /\ loop.known = rows
  /\ loop' = [loop EXCEPT !.healthy = TRUE]
  /\ call' = Idle
  /\ UNCHANGED <<diskVars, consumed, faults>>

\* The store fails while it is recovered, before or after its last record was
\* made Ready; open drops the loop.
RecoverFails(persisted) ==
  /\ loop.up /\ call.pc \in {"idle", "recover"} /\ store = "bound"
  /\ Fault
  /\ records' = IF persisted THEN Settled ELSE records
  /\ loop' = IF call.pc = "recover" THEN Down ELSE [loop EXCEPT !.healthy = FALSE, !.rt = FALSE]
  /\ call' = Idle
  /\ UNCHANGED <<program, store, rows, consumed>>

-----------------------------------------------------------------------------
(* Transitions. *)

\* Mutant: a call goes on although an earlier one failed halfway.
Check_IgnoresHealth == loop.rt /\ loop.known = rows

\* check: the loop and the Runtime are healthy and the journal is the one this
\* loop wrote.
Check == loop.healthy /\ loop.rt /\ loop.known = rows

\* Mutant: the loop is not marked unhealthy before the derivation.
Transition_KeepsHealthy(kind, outcome, deliver) ==
  /\ call.pc = "idle" /\ Check
  /\ kind = "TERMINATE" /\ outcome = "COMPLETED" => Undelivered = {}
  /\ IF MayDerive(Memory(loop), records, kind, outcome)
       THEN LET moved == DeriveMemory(Memory(loop), records, kind)
            IN /\ loop' = [loop EXCEPT !.part = moved.part, !.clock = moved.clock]
               /\ call' = [Idle EXCEPT !.pc = "prepare", !.deliver = deliver,
                                       !.step = Derive(Memory(loop), records, kind, outcome)]
               /\ UNCHANGED faults
       ELSE /\ Fault
            /\ UNCHANGED loop
            /\ UNCHANGED call
  /\ UNCHANGED <<diskVars, consumed>>

\* transition_after_check up to the stored proposal. A refused derivation
\* leaves the loop unhealthy.
Transition(kind, outcome, deliver) ==
  /\ call.pc = "idle" /\ Check
  /\ kind = "TERMINATE" /\ outcome = "COMPLETED" => Undelivered = {}
  /\ IF MayDerive(Memory(loop), records, kind, outcome)
       THEN LET moved == DeriveMemory(Memory(loop), records, kind)
            IN /\ loop' = [loop EXCEPT !.healthy = FALSE, !.part = moved.part, !.clock = moved.clock]
               /\ call' = [Idle EXCEPT !.pc = "prepare", !.deliver = deliver,
                                       !.step = Derive(Memory(loop), records, kind, outcome)]
               /\ UNCHANGED faults
       ELSE /\ Fault
            /\ loop' = [loop EXCEPT !.healthy = FALSE]
            /\ UNCHANGED call
  /\ UNCHANGED <<diskVars, consumed>>

\* step, step_and_deliver: nothing is left to do when the input is used up or
\* cancelled.
Step(deliver) ==
  /\ ~loop.state.cancelled /\ ~Exhausted(loop.state)
  /\ Transition(IF Native /\ loop.state.phase = "OPEN" THEN "OPEN" ELSE "BAR", "none", deliver)

CloseInput ==
  /\ Native /\ ~loop.state.finished
  /\ Transition("INPUT_END", "none", FALSE)

CancelInput ==
  /\ Native /\ ~loop.state.finished
  /\ Transition("CANCEL_INPUT", "none", FALSE)

\* finish_input after its close_input.
FinishInput ==
  /\ Exhausted(loop.state)
  /\ Native => loop.state.finished /\ ~loop.state.cancelled /\ Undelivered = {}
  /\ Transition("TERMINATE",
                IF Quiescent(loop.part, records) /\ Undelivered = {}
                  THEN "COMPLETED" ELSE "INCOMPLETE", FALSE)

Pause ==
  /\ Cardinality({k \in DOMAIN rows : rows[k].kind = "PAUSE"}) < MaxPauses
  /\ Transition("PAUSE", "none", FALSE)

Resume == Transition("RESUME", "none", FALSE)

Terminate(outcome) == Transition("TERMINATE", outcome, FALSE)

\* prepare_ref: the proposal follows what this loop wrote and starts at the
\* head of the execution journal.
MayPrepare == loop.known = rows /\ call.step.start = Len(records)

Prepare ==
  /\ call.pc = "prepare" /\ MayPrepare
  /\ rows' = Append(rows, call.step)
  /\ call' = [call EXCEPT !.pc = "install"]
  /\ UNCHANGED <<program, store, records, consumed, loop, faults>>

\* install_observed, one plan: a record that recovery found must be this plan.
Install ==
  LET n == call.step.start + call.done + 1
      fact == call.step.facts[call.done + 1]
  IN /\ call.pc = "install" /\ loop.rt
     /\ call.done < Len(call.step.facts)
     /\ IF n <= Len(records) THEN Plan(records[n]) = Plan(fact) /\ UNCHANGED records
                             ELSE records' = Append(records, fact)
     /\ call' = [call EXCEPT !.done = @ + 1]
     /\ UNCHANGED <<program, store, rows, consumed, loop, faults>>

Installed ==
  /\ call.pc = "install" /\ loop.rt
  /\ call.done = Len(call.step.facts)
  /\ call.step.start + call.done = Len(records)

MadeReady == [rows EXCEPT ![Len(rows)].ready = TRUE]

\* complete_ref: the last step is this proposal and all of it is executed.
Complete ==
  /\ Installed
  /\ rows' = MadeReady
  /\ loop' = [loop EXCEPT !.healthy = TRUE, !.state = call.step.state, !.known = MadeReady]
  /\ call' = IF call.deliver /\ Undelivered # {}
               THEN [Idle EXCEPT !.pc = "deliver", !.events = Undelivered] ELSE Idle
  /\ UNCHANGED <<program, store, records, consumed, faults>>

\* A store call of a transition fails, before or after it was persisted; the
\* Runtime and the loop refuse every call but recover.
TransitionFails(persisted) ==
  /\ call.pc \in {"prepare", "install"}
  /\ Fault
  /\ LET n == call.step.start + call.done + 1
         applying == call.pc = "install" /\ call.done < Len(call.step.facts)
     IN /\ rows' = CASE persisted /\ call.pc = "prepare" -> Append(rows, call.step)
                     [] persisted /\ Installed -> MadeReady
                     [] OTHER -> rows
        /\ \E ready \in BOOLEAN :
             records' = IF persisted /\ applying /\ n > Len(records)
                          THEN Append(records, [call.step.facts[call.done + 1] EXCEPT !.ready = ready])
                          ELSE records
  /\ loop' = [loop EXCEPT !.rt = FALSE]
  /\ call' = Idle
  /\ UNCHANGED <<program, store, consumed>>

\* The observer of step_observed or cancel_input_observed fails: the Runtime is
\* as it was, the loop stays unhealthy. The last observation is made after the
\* step is Ready and in memory.
ObserverFails ==
  /\ call.pc \in {"prepare", "install"} /\ ~call.deliver
  /\ Fault
  /\ \/ UNCHANGED <<rows, loop>>
     \/ /\ Installed
        /\ rows' = MadeReady
        /\ loop' = [loop EXCEPT !.state = call.step.state, !.known = MadeReady]
  /\ call' = Idle
  /\ UNCHANGED <<program, store, records, consumed>>

-----------------------------------------------------------------------------
(* Delivery of execution events. *)

Deliver ==
  /\ call.pc = "idle" /\ Check
  /\ Undelivered # {}
  /\ call' = [Idle EXCEPT !.pc = "deliver", !.events = Undelivered]
  /\ UNCHANGED <<diskVars, consumed, loop, faults>>

\* The events of a delivery are taken in the order of the journal.
IsNext(n) == n \in call.events /\ \A m \in call.events : n <= m

Consume(n) ==
  /\ call.pc = "deliver" /\ IsNext(n)
  /\ consumed' = consumed \cup {n}
  /\ call' = [call EXCEPT !.pc = "acknowledge"]
  /\ UNCHANGED <<diskVars, loop, faults>>

\* The consumer rejects the event, or it is not known whether it took it; the
\* event stays pending and the loop healthy.
Reject(n) ==
  /\ call.pc = "deliver" /\ IsNext(n)
  /\ Fault
  /\ consumed' \in {consumed, consumed \cup {n}}
  /\ call' = Idle
  /\ UNCHANGED <<diskVars, loop>>

Acknowledged(n) == [records EXCEPT ![n].delivered = TRUE]

Acknowledge(n) ==
  /\ call.pc = "acknowledge" /\ IsNext(n)
  /\ records' = Acknowledged(n)
  /\ call' = IF call.events # {n}
               THEN [call EXCEPT !.pc = "deliver", !.events = @ \ {n}] ELSE Idle
  /\ UNCHANGED <<program, store, rows, consumed, loop, faults>>

\* The acknowledgement fails: only the Runtime is unhealthy then. When the
\* check after the last one fails, the loop is.
AcknowledgeFails(n, persisted) ==
  /\ call.pc = "acknowledge" /\ IsNext(n)
  /\ Fault
  /\ \/ /\ records' = IF persisted THEN Acknowledged(n) ELSE records
        /\ loop' = [loop EXCEPT !.rt = FALSE]
     \/ /\ call.events = {n}
        /\ records' = Acknowledged(n)
        /\ loop' = [loop EXCEPT !.healthy = FALSE]
  /\ call' = Idle
  /\ UNCHANGED <<program, store, rows, consumed>>

-----------------------------------------------------------------------------
Continue ==
  \/ RecoverStep \/ RecoverDone \/ Prepare \/ Install \/ Complete
  \/ \E n \in DOMAIN records : Consume(n) \/ Acknowledge(n)

Work == Bind \/ Recover \/ Continue

Client ==
  \/ Create \/ Open
  \/ \E deliver \in BOOLEAN : Step(deliver)
  \/ CloseInput \/ CancelInput \/ FinishInput \/ Pause \/ Resume \/ Deliver
  \/ \E outcome \in Outcomes \ {"none"} : Terminate(outcome)

Failing ==
  \/ Crash \/ ObserverFails
  \/ \E persisted \in BOOLEAN : RecoverFails(persisted) \/ TransitionFails(persisted)
  \/ \E n \in DOMAIN records :
       Reject(n) \/ \E persisted \in BOOLEAN : AcknowledgeFails(n, persisted)

Next == Work \/ Client \/ Failing

Spec == Init /\ [][Next]_vars

-----------------------------------------------------------------------------
(* Properties. *)

TypeOK ==
  /\ program \in Programs
  /\ store \in {"absent", "unbound", "bound"}
  /\ \A r \in {rows[k] : k \in DOMAIN rows} : r.outcome \in Outcomes /\ r.ready \in BOOLEAN
  /\ consumed \subseteq DOMAIN records
  /\ call.pc \in {"idle", "bind", "recover", "rederive", "prepare", "install", "deliver", "acknowledge"}
  /\ faults \in 0..MaxFaults

\* Between two calls a loop that answers has in memory exactly what its Ready
\* journal says: its state, its participants and its clock, which a transition
\* moves before anything is durable.
MemoryIsJournal ==
  loop.healthy /\ call.pc = "idle" =>
    /\ loop.known = rows
    /\ \A k \in DOMAIN rows : rows[k].ready
    /\ loop.state = IF rows = <<>> THEN Initial ELSE rows[Len(rows)].state
    /\ loop.part = loop.state.part /\ loop.clock = loop.state.clock

\* Whatever failed or stopped before, the journal on disk can be read, and
\* deriving its steps again, each from its own execution prefix, gives exactly
\* the steps that are stored: recovery never refuses, no execution fact is
\* without a step and nothing follows a terminated run.
JournalRederives ==
  /\ TypeOK /\ Lineage
  /\ \A k \in DOMAIN rows : Rederives(MemoryAt(k - 1), rows[k], SubSeq(records, 1, rows[k].start))

\* What the worker that owns the run does: create it or open it, recover it
\* when a call failed, step it to the end, deliver, and finish it.
Drive ==
  \/ Create \/ Open \/ Resume \/ Deliver
  \/ Step(TRUE) \/ CloseInput \/ FinishInput
  \/ loop.state.cancelled /\ Undelivered = {} /\ Terminate("CANCELLED")

Fairness ==
  /\ WF_vars(Bind) /\ WF_vars(Recover)
  /\ WF_vars(Continue)
  /\ WF_vars(Drive)

FairSpec == Spec /\ Fairness

\* With finitely many failures a run whose journal exists ends: no failure
\* leaves a journal that recovery cannot bring to its end.
RunTerminates ==
  store = "bound" ~> \E k \in DOMAIN rows : rows[k].kind = "TERMINATE" /\ rows[k].ready
=============================================================================
