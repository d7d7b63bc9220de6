-------------------------- MODULE ExecutionRuntime --------------------------
(***************************************************************************)
(* The durable execution transaction of OnlyAlpha: crates/runtime (Runtime *)
(* and its SQLite store) driving crates/execution (planner, coordinator    *)
(* and the six component owners).                                          *)
(*                                                                         *)
(* An input is planned against the owners' current images, committed as    *)
(* one immutable record, then projected into the owners one by one, marked *)
(* Ready in the store, and only then served.  Every step can be cut by a   *)
(* crash or by an error whose durable effect may or may not have happened; *)
(* recovery only ever rolls the committed tail forward.                    *)
(*                                                                         *)
(* Data abstraction: the image of an owner is the sequence of the inputs   *)
(* that changed it, and image equality stands for the equality of the      *)
(* SHA-256 hashes the code compares.  The economic calculation inside one  *)
(* owner is out of scope here; a planner refusal for economic reasons is a *)
(* nondeterministic refusal.                                               *)
(***************************************************************************)
EXTENDS Naturals, Sequences, FiniteSets

CONSTANTS
  N,          \* number of component owners (6 in the code); the last is META
  Input,      \* execution inputs
  Reader,     \* read-only snapshot readers
  None,       \* a value that is no input, no journal of inputs and no cut
  MaxFaults,  \* bound: crashes and failing calls
  MaxPlans    \* bound: plans a caller keeps at the same time

ASSUME NAssumption == N \in Nat \ {0}

ASSUME InputAssumption ==
  /\ None \notin Input
  /\ None \notin Seq(Input)
  /\ \A x \in Input : x.runtime_sequence \in Nat \ {0}

ASSUME BoundAssumption == MaxFaults \in Nat /\ MaxPlans \in Nat

VARIABLES
  (* the SQLite file *)
  records,      \* the journal: sequence of [prepared, ready, delivered]
  checkpoints,  \* set of [sequence, img]
  (* the process that holds the exclusive lease, if any *)
  process,      \* "down" or "up"
  healthy,      \* Runtime.healthy
  call,         \* "idle", "commit", "project", "recover" or "open"
  prepared,     \* the Prepared an apply call is about to commit, or None
  comp,         \* Runtime.components
  fresh,        \* the Components a recovery is rebuilding
  plans,        \* Prepared values callers hold: [prepared, planned]
  (* readers of the file *)
  cut,          \* cut[r]: the snapshot reader r verified, or None
  (* history *)
  confirmed,    \* inputs whose apply returned Ok
  published,    \* Prepared values whose events were handed to the consumer
  faults        \* number of faults so far

store   == <<records, checkpoints>>
session == <<process, healthy, call, prepared, comp, fresh, plans>>
history == <<confirmed, published>>
vars    == <<records, checkpoints, process, healthy, call, prepared, comp,
             fresh, plans, cut, confirmed, published, faults>>

-----------------------------------------------------------------------------
(* Images, plans and the validity of the journal *)

Owner == 1..N
Meta  == N

Genesis == [o \in Owner |-> << >>]

NoPending == [id |-> None, next |-> 0]

NewComponents == [img |-> Genesis, sequence |-> 0, pending |-> NoPending]

\* META records every input; the planner of an operation changes the owners
\* the operation is about.
Touched(x, o) == o = Meta \/ o \in x.touches

Project(img, x) ==
  [o \in Owner |-> IF Touched(x, o) THEN Append(img[o], x) ELSE img[o]]

\* The owners' images after the first n records.
ImageAt(n) == IF n = 0 THEN Genesis ELSE records[n].prepared.after

AllReady(n) == \A k \in 1..n : records[k].ready

\* read_records and ready_prefix: contiguous sequences, unique input ids,
\* before/after lineage, only the last record may be unready.
SourceValid ==
  \A k \in 1..Len(records) :
    /\ records[k].prepared.sequence = k
    /\ \A j \in 1..(k-1) : records[j].prepared.input.id # records[k].prepared.input.id
    /\ records[k].prepared.before = ImageAt(k-1)
    /\ k < Len(records) => records[k].ready

\* verified_checkpoint_prefix: every retained checkpoint is what replaying
\* its Ready prefix gives.
CheckpointsValid ==
  \A cp \in checkpoints :
    /\ cp.sequence <= Len(records)
    /\ AllReady(cp.sequence)
    /\ cp.img = ImageAt(cp.sequence)

\* ready_source and the transaction index of verified_source.
Reconciled(c) ==
  /\ c.pending = NoPending
  /\ c.sequence = Len(records)
  /\ SourceValid
  /\ AllReady(Len(records))
  /\ c.img = ImageAt(Len(records))
  /\ Len(c.img[Meta]) = Len(records)
  /\ \A k \in 1..Len(records) : c.img[Meta][k] = records[k].prepared.input

\* validate_planning_input, against the inputs META has recorded.
ValidPlanningInput(img, x) ==
  \A k \in 1..Len(img[Meta]) :
    /\ img[Meta][k].id # x.id
    /\ img[Meta][k].source # x.source
    /\ img[Meta][k].runtime_sequence < x.runtime_sequence

Plan(img, sequence, x) ==
  [sequence |-> sequence + 1, input |-> x, before |-> img, after |-> Project(img, x)]

-----------------------------------------------------------------------------

Init ==
  /\ records = << >>
  /\ checkpoints = {}
  /\ process = "up"
  /\ healthy = TRUE
  /\ call = "idle"
  /\ prepared = None
  /\ comp = NewComponents
  /\ fresh = NewComponents
  /\ plans = {}
  /\ cut = [r \in Reader |-> None]
  /\ confirmed = {}
  /\ published = {}
  /\ faults = 0

\* require_healthy and with_ready_source, the gate of every public operation.
Serving ==
  /\ process = "up"
  /\ call = "idle"
  /\ healthy
  /\ Reconciled(comp)

-----------------------------------------------------------------------------
(* Runtime::apply and apply_prepared up to the commit *)

\* The same input again: Ok without a second effect.
ApplyDuplicate(x) ==
  /\ Serving
  /\ \E k \in 1..Len(records) : records[k].prepared.input = x
  /\ confirmed' = confirmed \cup {x}
  /\ UNCHANGED <<store, session, cut, published, faults>>

\* An identity conflict, an invalid input, or a planner refusal: the error
\* leaves the runtime unhealthy until recover().
ApplyRefused(x) ==
  /\ Serving
  /\ \A k \in 1..Len(records) : records[k].prepared.input # x
  /\ healthy' = FALSE
  /\ UNCHANGED <<store, process, call, prepared, comp, fresh, plans, cut, history, faults>>

\* Mutant: the owners are changed while planning, before the commit.
ApplyPlanned_ProjectsFirst(x) ==
  /\ Serving
  /\ ValidPlanningInput(comp.img, x)
  /\ prepared' = Plan(comp.img, comp.sequence, x)
  /\ comp' = [comp EXCEPT !.img = Project(@, x)]
  /\ call' = "commit"
  /\ healthy' = FALSE
  /\ UNCHANGED <<store, process, fresh, plans, cut, history, faults>>

ApplyPlanned(x) ==
  /\ Serving
  /\ \A k \in 1..Len(records) : records[k].prepared.input.id # x.id
  /\ ValidPlanningInput(comp.img, x)
  /\ prepared' = Plan(comp.img, comp.sequence, x)
  /\ call' = "commit"
  /\ healthy' = FALSE
  /\ UNCHANGED <<store, process, comp, fresh, plans, cut, history, faults>>

\* Mutant: decoded data is accepted as a plan.
Admissible_Decoded(q) ==
  /\ q.prepared.sequence = comp.sequence + 1
  /\ q.prepared.before = comp.img

\* coordinate admits a Prepared it has not committed yet.
Admissible(q) ==
  /\ q.planned
  /\ q.prepared.sequence = comp.sequence + 1
  /\ q.prepared.before = comp.img

ApplyPrepared(q) ==
  /\ Serving
  /\ IF q.prepared.sequence <= Len(records)
     THEN /\ IF records[q.prepared.sequence].prepared = q.prepared
             THEN /\ confirmed' = confirmed \cup {q.prepared.input}
                  /\ UNCHANGED healthy
             ELSE /\ healthy' = FALSE
                  /\ UNCHANGED confirmed
          /\ UNCHANGED <<call, prepared>>
     ELSE /\ IF Admissible(q)
             THEN prepared' = q.prepared /\ call' = "commit"
             ELSE UNCHANGED <<call, prepared>>
          /\ healthy' = FALSE
          /\ UNCHANGED confirmed
  /\ UNCHANGED <<store, process, comp, fresh, plans, cut, published, faults>>

\* fork_ready: an isolated candidate plans at the Ready head, or on top of
\* one of its own earlier plans; the plan may be stale when it is applied.
ForkAndPlan(x) ==
  /\ Serving
  /\ Cardinality(plans) < MaxPlans
  /\ \E base \in {[img |-> comp.img, sequence |-> comp.sequence]} \cup
                 {[img |-> q.prepared.after, sequence |-> q.prepared.sequence] :
                    q \in {r \in plans : r.planned}} :
       /\ ValidPlanningInput(base.img, x)
       /\ plans' = plans \cup {[prepared |-> Plan(base.img, base.sequence, x), planned |-> TRUE]}
  /\ UNCHANGED <<store, process, healthy, call, prepared, comp, fresh, cut, history, faults>>

\* A Prepared decoded from bytes: well formed, but no planner checked it
\* against this runtime.
DecodePrepared(x) ==
  /\ process = "up"
  /\ call = "idle"
  /\ Cardinality(plans) < MaxPlans
  /\ plans' = plans \cup {[prepared |-> Plan(comp.img, comp.sequence, x), planned |-> FALSE]}
  /\ UNCHANGED <<store, process, healthy, call, prepared, comp, fresh, cut, history, faults>>

-----------------------------------------------------------------------------
(* The coordinator: commit, project, mark Ready, complete *)

\* SqliteStore::commit: one SQL transaction inserts the record and the head.
Commit ==
  /\ call = "commit"
  /\ SourceValid
  /\ \A k \in 1..Len(records) : records[k].prepared.input.id # prepared.input.id
  /\ prepared.sequence = Len(records) + 1
  /\ AllReady(Len(records))
  /\ prepared.before = ImageAt(Len(records))
  /\ records' = Append(records, [prepared |-> prepared, ready |-> FALSE, delivered |-> FALSE])
  /\ call' = "project"
  /\ UNCHANGED <<checkpoints, process, healthy, prepared, comp, fresh, plans, cut, history, faults>>

\* The components resume works on: the runtime's own while applying, a fresh
\* rebuild while recovering.
Resuming == call \in {"project", "recover", "open"}
Driven   == IF call = "project" THEN comp ELSE fresh

SetDriven(c) ==
  IF call = "project" THEN comp' = c /\ UNCHANGED fresh
                      ELSE fresh' = c /\ UNCHANGED comp

\* The record resume is installing is the successor of the driven sequence.
HasTail    == Resuming /\ Driven.sequence < Len(records)
TailRecord == records[Driven.sequence + 1]

\* resume checks the predecessor and the Ready prefix before it installs.
TailAdmissible ==
  /\ TailRecord.prepared.sequence = Driven.sequence + 1
  /\ SourceValid
  /\ AllReady(Driven.sequence)

Installed(c, p, i) ==
  [img      |-> [c.img EXCEPT ![i] = p.after[i]],
   sequence |-> c.sequence,
   pending  |-> [id |-> p.input, next |-> i]]

InstallProjection ==
  /\ HasTail
  /\ TailAdmissible
  /\ Driven.pending = NoPending \/ Driven.pending.id = TailRecord.prepared.input
  /\ Driven.pending.next < N
  /\ LET i == Driven.pending.next + 1
         p == TailRecord.prepared
     IN  /\ Driven.img[i] \in {p.before[i], p.after[i]}
         /\ SetDriven(Installed(Driven, p, i))
  /\ UNCHANGED <<store, process, healthy, call, prepared, plans, cut, history, faults>>

Completed(c) == [img |-> c.img, sequence |-> c.sequence + 1, pending |-> NoPending]

AllInstalled == Driven.pending = [id |-> TailRecord.prepared.input, next |-> N]

MarkReady ==
  /\ HasTail
  /\ TailAdmissible
  /\ AllInstalled
  /\ ~TailRecord.ready
  /\ records' = [records EXCEPT ![Driven.sequence + 1].ready = TRUE]
  /\ UNCHANGED <<checkpoints, session, cut, history, faults>>

\* complete; an apply returns Ok, a recovery goes on with the next record.
Complete ==
  /\ HasTail
  /\ AllInstalled
  /\ TailRecord.ready
  /\ Driven.img = TailRecord.prepared.after
  /\ SetDriven(Completed(Driven))
  /\ IF call = "project"
     THEN /\ confirmed' = confirmed \cup {TailRecord.prepared.input}
          /\ call' = "idle"
          /\ healthy' = TRUE
          /\ prepared' = None
     ELSE UNCHANGED <<confirmed, call, healthy, prepared>>
  /\ UNCHANGED <<store, process, plans, cut, published, faults>>

-----------------------------------------------------------------------------
(* Recovery: Runtime::recover and Runtime::open *)

\* Where recovery starts: the latest checkpoint, or the owners' initial state.
Restored ==
  IF checkpoints = {}
  THEN {NewComponents}
  ELSE {[img |-> cp.img, sequence |-> cp.sequence, pending |-> NoPending] :
          cp \in {c \in checkpoints : \A d \in checkpoints : d.sequence <= c.sequence}}

\* Mutant: recover() is gated like every other operation.
Recover_RequiresHealthy ==
  /\ Serving
  /\ call' = "recover"
  /\ healthy' = FALSE
  /\ fresh' \in Restored
  /\ UNCHANGED <<store, process, prepared, comp, plans, cut, history, faults>>

Recover ==
  /\ process = "up"
  /\ call = "idle"
  /\ SourceValid
  /\ CheckpointsValid
  /\ call' = "recover"
  /\ healthy' = FALSE
  /\ fresh' \in Restored
  /\ UNCHANGED <<store, process, prepared, comp, plans, cut, history, faults>>

\* Opening takes the exclusive lease, which no reader may share.
Open ==
  /\ process = "down"
  /\ \A r \in Reader : cut[r] = None
  /\ SourceValid
  /\ CheckpointsValid
  /\ process' = "up"
  /\ call' = "open"
  /\ fresh' \in Restored
  /\ UNCHANGED <<store, healthy, prepared, comp, plans, cut, history, faults>>

\* Mutant: recovery stops at the latest checkpoint.
RecoverDone_AtCheckpoint ==
  /\ call \in {"recover", "open"}
  /\ fresh.pending = NoPending
  /\ comp' = fresh
  /\ fresh' = NewComponents
  /\ call' = "idle"
  /\ healthy' = TRUE
  /\ UNCHANGED <<store, process, prepared, plans, cut, history, faults>>

RecoverDone ==
  /\ call \in {"recover", "open"}
  /\ Reconciled(fresh)
  /\ comp' = fresh
  /\ fresh' = NewComponents
  /\ call' = "idle"
  /\ healthy' = TRUE
  /\ UNCHANGED <<store, process, prepared, plans, cut, history, faults>>

-----------------------------------------------------------------------------
(* Checkpoints and the event outbox *)

\* ok = FALSE: the row was written but the call reported an error.
Outcome(ok) ==
  /\ healthy' = ok
  /\ ok \/ faults < MaxFaults
  /\ faults' = IF ok THEN faults ELSE faults + 1

\* Mutant: the checkpoint is filed under the next sequence.
SaveCheckpoint_NextSequence(ok) ==
  /\ Serving
  /\ checkpoints' = checkpoints \cup {[sequence |-> Len(records) + 1, img |-> comp.img]}
  /\ Outcome(ok)
  /\ UNCHANGED <<records, process, call, prepared, comp, fresh, plans, cut, history>>

SaveCheckpoint(ok) ==
  /\ Serving
  /\ CheckpointsValid
  /\ checkpoints' = checkpoints \cup {[sequence |-> Len(records), img |-> comp.img]}
  /\ Outcome(ok)
  /\ UNCHANGED <<records, process, call, prepared, comp, fresh, plans, cut, history>>

\* Mutant: the outbox is read without the Ready gate.
PublishEvents_Ungated ==
  /\ process = "up"
  /\ call = "idle"
  /\ published' = published \cup {records[k].prepared : k \in 1..Len(records)}
  /\ UNCHANGED <<store, session, cut, confirmed, faults>>

\* pending_events: the events of Ready records that are not acknowledged.
PublishEvents ==
  /\ Serving
  /\ published' = published \cup
       {records[k].prepared : k \in {j \in 1..Len(records) : records[j].ready /\ ~records[j].delivered}}
  /\ UNCHANGED <<store, session, cut, confirmed, faults>>

\* RunLoop::deliver acknowledges an event after the consumer took it.
Acknowledge(n, ok) ==
  /\ Serving
  /\ records[n].prepared \in published
  /\ AllReady(n)
  /\ records' = [records EXCEPT ![n].delivered = TRUE]
  /\ Outcome(ok)
  /\ UNCHANGED <<checkpoints, process, call, prepared, comp, fresh, plans, cut, history>>

-----------------------------------------------------------------------------
(* Faults *)

\* Mutant: an error leaves the runtime marked healthy.
CallFails_StaysHealthy ==
  /\ process = "up"
  /\ faults < MaxFaults
  /\ call \in {"commit", "project"}
  /\ healthy' = TRUE
  /\ call' = "idle"
  /\ prepared' = None
  /\ faults' = faults + 1
  /\ UNCHANGED <<store, process, comp, fresh, plans, cut, history>>

\* A call returns an error at its current step.  A failed open drops the
\* half-built Runtime and with it the lease.
CallFails ==
  /\ process = "up"
  /\ faults < MaxFaults
  /\ process' = IF call = "open" THEN "down" ELSE "up"
  /\ healthy' = FALSE
  /\ call' = "idle"
  /\ prepared' = None
  /\ fresh' = NewComponents
  /\ faults' = faults + 1
  /\ UNCHANGED <<store, comp, plans, cut, history>>

\* The process ends: its memory and its lease are gone.
Down ==
  /\ process' = "down"
  /\ healthy' = FALSE
  /\ call' = "idle"
  /\ prepared' = None
  /\ comp' = NewComponents
  /\ fresh' = NewComponents
  /\ plans' = {}
  /\ UNCHANGED <<store, cut, history>>

Crash ==
  /\ process = "up"
  /\ faults < MaxFaults
  /\ faults' = faults + 1
  /\ Down

Close ==
  /\ process = "up"
  /\ call = "idle"
  /\ Down
  /\ UNCHANGED faults

-----------------------------------------------------------------------------
(* Read-only snapshots *)

\* Mutant: a reader does not take the shared lease.
ReaderOpen_NoLease(r) ==
  /\ cut[r] = None
  /\ \A k \in 1..Len(records) : records[k].ready /\ records[k].delivered
  /\ \E cp \in checkpoints :
       /\ cp.sequence = Len(records)
       /\ cut' = [cut EXCEPT ![r] = [records |-> records, img |-> cp.img]]
  /\ UNCHANGED <<store, session, history, faults>>

\* read_only takes the shared lease, which a live writer refuses, and
\* read_ready_components asks for a drained journal with a checkpoint at its
\* head.
ReaderOpen(r) ==
  /\ process = "down"
  /\ cut[r] = None
  /\ SourceValid
  /\ CheckpointsValid
  /\ \A k \in 1..Len(records) : records[k].ready /\ records[k].delivered
  /\ \E cp \in checkpoints :
       /\ cp.sequence = Len(records)
       /\ cut' = [cut EXCEPT ![r] = [records |-> records, img |-> cp.img]]
  /\ UNCHANGED <<store, session, history, faults>>

ReaderClose(r) ==
  /\ cut[r] # None
  /\ cut' = [cut EXCEPT ![r] = None]
  /\ UNCHANGED <<store, session, history, faults>>

-----------------------------------------------------------------------------

Step ==
  \/ Commit
  \/ InstallProjection
  \/ MarkReady
  \/ Complete
  \/ Recover
  \/ Open
  \/ RecoverDone
  \/ PublishEvents
  \/ CallFails
  \/ Crash
  \/ Close

Next ==
  \/ Step
  \/ \E x \in Input :
       ApplyDuplicate(x) \/ ApplyRefused(x) \/ ApplyPlanned(x) \/ ForkAndPlan(x) \/ DecodePrepared(x)
  \/ \E q \in plans : ApplyPrepared(q)
  \/ \E ok \in BOOLEAN : SaveCheckpoint(ok)
  \/ \E n \in 1..Len(records), ok \in BOOLEAN : Acknowledge(n, ok)
  \/ \E r \in Reader : ReaderOpen(r) \/ ReaderClose(r)

Spec == Init /\ [][Next]_vars

\* A call that started runs to its end, an unhealthy runtime is recovered and
\* a dead one is reopened.
Fairness ==
  /\ WF_vars(Commit) /\ WF_vars(InstallProjection) /\ WF_vars(MarkReady)
  /\ WF_vars(Complete) /\ WF_vars(RecoverDone) /\ WF_vars(Open)
  /\ WF_vars(~healthy /\ Recover)

FairSpec == Spec /\ Fairness
-----------------------------------------------------------------------------
(* Properties *)

Image      == [Owner -> Seq(Input)]
Payload    == [sequence : Nat \ {0}, input : Input, before : Image, after : Image]
Record     == [prepared : Payload, ready : BOOLEAN, delivered : BOOLEAN]
Pending    == [id : Input \cup {None}, next : 0..N]
Components == [img : Image, sequence : Nat, pending : Pending]

\* Every variable has its type; a call about to commit holds its Prepared.
TypeOK ==
  /\ records \in Seq(Record)
  /\ checkpoints \subseteq [sequence : Nat, img : Image]
  /\ process \in {"down", "up"}
  /\ healthy \in BOOLEAN
  /\ call \in {"idle", "commit", "project", "recover", "open"}
  /\ prepared \in Payload \cup {None}
  /\ call = "commit" => prepared \in Payload
  /\ comp \in Components
  /\ fresh \in Components
  /\ plans \subseteq [prepared : Payload, planned : BOOLEAN]
  /\ confirmed \subseteq Input
  /\ published \subseteq Payload
  /\ faults \in 0..MaxFaults

\* The state a healthy runtime serves is the projection of the complete
\* Ready journal into every owner: no partially installed transaction, no
\* missing or extra record, whatever was interrupted before.
ServedStateIsJournal == healthy => Reconciled(comp)

\* Commit Fact First, Project State Second: whatever an owner in memory
\* holds is its image after some durable record.
NoEffectWithoutRecord ==
  \A o \in Owner :
    /\ \E k \in 0..Len(records) : comp.img[o] = ImageAt(k)[o]
    /\ \E k \in 0..Len(records) : fresh.img[o] = ImageAt(k)[o]

\* No retry, stale plan, decoded plan or crash makes the journal take an
\* economic fact twice or out of order: input ids and source references are
\* unique and runtime sequences increase.
ExactlyOnce ==
  \A j, k \in 1..Len(records) :
    j < k => /\ records[j].prepared.input.id # records[k].prepared.input.id
             /\ records[j].prepared.input.source # records[k].prepared.input.source
             /\ records[j].prepared.input.runtime_sequence
                  < records[k].prepared.input.runtime_sequence

\* The store never writes what its own readers refuse, so it cannot lock
\* itself out of recovery: lineage, sequences and checkpoints verify always.
StoreReadable == SourceValid /\ CheckpointsValid

\* An input whose apply returned Ok is in the journal and Ready for good.
ConfirmedIsDurable ==
  \A x \in confirmed :
    \E k \in 1..Len(records) : records[k].prepared.input = x /\ records[k].ready

\* The consumer never sees an event of a transaction that is not a Ready
\* fact of the journal (now or later), and no event is acknowledged that the
\* consumer never saw.
OutboxSound ==
  /\ \A p \in published :
       \E k \in 1..Len(records) : records[k].prepared = p /\ records[k].ready
  /\ \A k \in 1..Len(records) : records[k].delivered => records[k].prepared \in published

\* While a reader holds its snapshot, the file still is what it verified:
\* nobody writes under a shared lease.
ReaderCutStable ==
  \A r \in Reader :
    cut[r] # None => cut[r].records = records /\ cut[r].img = ImageAt(Len(records))

\* Historical facts are immutable: a step may append one record behind a
\* Ready journal or raise a flag, and never changes or removes a payload.
JournalForwardOnly ==
  [][/\ Len(records') \in {Len(records), Len(records) + 1}
     /\ \A k \in 1..Len(records) :
          /\ records'[k].prepared = records[k].prepared
          /\ records[k].ready => records'[k].ready
          /\ records[k].delivered => records'[k].delivered
     /\ Len(records') > Len(records) => AllReady(Len(records))
    ]_records

\* A committed transaction is never abandoned: it becomes Ready, through
\* forward recovery if its own call was cut.
CommittedBecomesReady ==
  \A x \in Input :
    (\E k \in 1..Len(records) : records[k].prepared.input = x)
      ~> (\E k \in 1..Len(records) : records[k].prepared.input = x /\ records[k].ready)

\* Whatever failed, the runtime serves again: recovery never gets stuck.
RecoversEventually == (~healthy) ~> healthy

\* A Prepared that the planner derived from its own before image.
SoundPlan(p) ==
  /\ p.after = Project(p.before, p.input)
  /\ ValidPlanningInput(p.before, p.input)

\* What the journal is made of: every record is a sound plan on top of its
\* predecessor, and META lists exactly the committed inputs.
JournalSound ==
  /\ SourceValid
  /\ \A k \in 1..Len(records) :
       /\ SoundPlan(records[k].prepared)
       /\ Len(records[k].prepared.after[Meta]) = k
       /\ \A j \in 1..k : records[k].prepared.after[Meta][j] = records[j].prepared.input

\* c has installed the first pending.next owners of the record after its own
\* sequence, and nothing else.
Rolling(c) ==
  /\ c.sequence <= Len(records)
  /\ AllReady(c.sequence)
  /\ IF c.sequence = Len(records)
     THEN c.pending = NoPending /\ c.img = ImageAt(c.sequence)
     ELSE /\ c.pending = NoPending \/ c.pending.id = records[c.sequence + 1].prepared.input
          /\ c.img = [o \in Owner |-> IF o <= c.pending.next
                                      THEN ImageAt(c.sequence + 1)[o]
                                      ELSE ImageAt(c.sequence)[o]]

\* Where each kind of call stands.
CallSound ==
  /\ healthy => process = "up" /\ call = "idle" /\ Reconciled(comp)
  /\ call # "idle" => process = "up"
  /\ call = "commit" =>
       /\ SoundPlan(prepared)
       /\ prepared.sequence = comp.sequence + 1
       /\ prepared.before = comp.img
       /\ Reconciled(comp)
  /\ call = "project" => Rolling(comp) /\ comp.sequence + 1 = Len(records)
  /\ call \in {"recover", "open"} => Rolling(fresh)

PlansSound == \A q \in plans : q.planned => SoundPlan(q.prepared)

\* The inductive invariant behind the theorems: the journal is a chain of
\* sound plans, checkpoints are images of Ready prefixes, held plans are
\* sound, and every running call is at a definite point of the protocol.
ProtocolInvariant ==
  /\ JournalSound
  /\ CheckpointsValid
  /\ PlansSound
  /\ CallSound

\* What a caller can tell of the runtime: the committed inputs, how many of
\* them are Ready, which are acknowledged, and what reads answer from.
JournalInputs == [k \in 1..Len(records) |-> records[k].prepared.input]
ReadyPrefix   == IF AllReady(Len(records)) THEN Len(records) ELSE Len(records) - 1
Acknowledged  == {k \in 1..Len(records) : records[k].delivered}
ServedInputs  == IF healthy THEN comp.img[Meta] ELSE None

\* The runtime implements the abstract journal: reads are refused or answer
\* from the complete log META has recorded.
Log == INSTANCE ExecutionLog WITH
  Unavailable <- None,
  log <- JournalInputs,
  stable <- ReadyPrefix,
  delivered <- Acknowledged,
  view <- ServedInputs

ImplementsLog == Log!LogSpec
=============================================================================
