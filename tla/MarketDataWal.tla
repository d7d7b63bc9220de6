---------------------------- MODULE MarketDataWal ----------------------------
(***************************************************************************)
(* One segment of the market data write-ahead log: the files it is made    *)
(* of, the recorder that creates, appends to and seals it, the drain that  *)
(* hands a sealed segment to the catalog and collects it, and the          *)
(* exclusive recovery at startup.                                          *)
(*                                                                         *)
(* Every handler checks the files and then performs a fixed list of file   *)
(* operations.  A list is in `todo` (recorder or recovery) or in `gc` (the *)
(* drain, which holds its own handle); one operation is one step, with the *)
(* fsync the code puts behind it.  A fault may strike inside an operation: *)
(* a call fails and leaves part of its effect, the process is killed and   *)
(* the page cache survives, or the power fails and what was not synced is  *)
(* lost wholly, partly or not at all.                                      *)
(***************************************************************************)
EXTENDS Naturals, Sequences

CONSTANTS
    MaxRecords,   \* observations the recorder may bring
    MaxFaults,    \* faults in one behaviour
    FaultModels   \* sets of kinds of fault ("call", "kill", "power") that may
                  \* strike together in one behaviour

VARIABLES
    files,      \* name -> what the file holds and what of it is synced
    up,         \* the process runs
    open,       \* Wal::open is set: the recorder's segment is open
    task,       \* the call in progress: see Tasks
    todo,       \* file operations left of that call
    gc,         \* file operations left of the drain's collect_verified
    born,       \* create_segment was called for this identity
    sealing,    \* the recorder called seal
    failed,     \* WalRecorder::failed
    records,    \* WalRecorder::records
    accepted,   \* observations whose append returned an ordinal
    owned,      \* observations the catalog owns (0: none published)
    refused,    \* startup recovery answered with an error of its own
    strikes,    \* the kinds of fault of this behaviour
    faults      \* faults so far

walVars == <<files, up, open, task, todo, gc, born, sealing, failed, records,
             accepted, owned, refused, strikes, faults>>

Tasks == {"none", "create", "append", "seal", "recover"}

-----------------------------------------------------------------------------
(***************************************************************************)
(* File contents.  A log holds n whole frames and t bytes (0, 1 or 2) of   *)
(* one that is torn; a JSON document names n frames and is whole (t = 0)   *)
(* or an EOF prefix (t = 1); a quarantined tail is t bytes long.           *)
(***************************************************************************)
Content(of, n, t) == [of |-> of, n |-> n, t |-> t]
Log(n, t)  == Content("log", n, t)
Doc(of, n) == Content(of, n, 0)
Bytes(t)   == Content("tail", 0, t)
Nothing    == Content("nothing", 0, 0)   \* the entry itself is not durable

Torn(c) == c.t > 0
Size(c) == 3 * c.n + c.t

\* Everything a file may hold on its way from content s to content d.
Between(s, d) ==
    CASE d.of = "log" ->
            {s, d} \union
            {c \in {Log(n, t) : n \in 0 .. MaxRecords, t \in 0 .. 2} :
                Size(s) <= Size(c) /\ Size(c) <= Size(d)}
      [] d.of = "tail" -> {s} \union {Bytes(t) : t \in s.t .. d.t}
      [] OTHER -> {s, d, [d EXCEPT !.t = 1]}

Synced(c) == [data |-> c, safe |-> c]

Names == {"open.json.tmp", "open.json", "open.json.incomplete", "open.wal",
          "segment.json.tmp", "segment.json", "segment.json.incomplete",
          "sealed.wal", "corrupt-tail", "abandoned.wal", "abandoned.json",
          "gc.json.tmp", "gc.json", "gc.wal"}

Has(name)  == name \in DOMAIN files
Read(name) == files[name].data

Put(f, name, file) ==
    [x \in DOMAIN f \union {name} |-> IF x = name THEN file ELSE f[x]]
Drop(f, name) == [x \in DOMAIN f \ {name} |-> f[x]]

-----------------------------------------------------------------------------
(***************************************************************************)
(* File operations.  Each is named with the file it acts on, the new name  *)
(* of a rename and the content it is to leave.                             *)
(***************************************************************************)
Op(do, at, to, is) == [do |-> do, at |-> at, to |-> to, is |-> is]

WriteNew(name, content) == Op("write", name, name, content)
Complete(name, content) == Op("complete", name, name, content)
Rename(from, to)        == Op("rename", from, to, Nothing)
Remove(name)            == Op("remove", name, name, Nothing)
Frame(content)          == Op("append", "open.wal", "open.wal", content)
SetLen(content)         == Op("truncate", "open.wal", "open.wal", content)

\* write_new is exclusive, rename does not replace, remove tolerates absence.
Possible(f, op) ==
    CASE op.do = "write"    -> op.at \notin DOMAIN f
      [] op.do = "rename"   -> op.at \in DOMAIN f /\ op.to \notin DOMAIN f
      [] op.do = "complete" -> op.is.of # "tail" \/ f[op.at].data.t <= op.is.t
      [] OTHER -> TRUE

\* A torn document may hold bytes the completed one does not start with.
MayDiffer(f, op) ==
    /\ op.do = "complete"
    /\ op.is.of # "tail"
    /\ <<f[op.at].data.of, f[op.at].data.n>> # <<op.is.of, op.is.n>>

\* Mutant: the frame is written and its fsync forgotten.
Appended_NoSync(f, op) == [data |-> op.is, safe |-> f[op.at].safe]

\* The log after a frame was written and synced.
Appended(f, op) == Synced(op.is)

\* The directory fsync behind an operation keeps every entry of it, those an
\* earlier interruption left too, with whatever of their bytes is on disk.
Empty(c) ==
    CASE c.of = "log" -> Log(0, 0)
      [] c.of = "tail" -> Bytes(0)
      [] OTHER -> [c EXCEPT !.t = 1]
SyncEntries(f) ==
    [name \in DOMAIN f |->
        IF f[name].safe = Nothing
        THEN [f[name] EXCEPT !.safe = Empty(f[name].data)] ELSE f[name]]

\* The files after an operation and the fsyncs behind it.
Result(f, op) ==
    CASE op.do = "rename" ->
            SyncEntries(Put(Drop(f, op.at), op.to, Synced(f[op.at].data)))
      [] op.do = "remove" -> SyncEntries(Drop(f, op.at))
      [] op.do = "append" -> Put(f, op.at, Appended(f, op))
      [] OTHER -> SyncEntries(Put(f, op.at, Synced(op.is)))

\* The files when an operation is interrupted: anything up to its full effect,
\* none of it synced by this call.
Partial(f, op) ==
    IF ~Possible(f, op) THEN {f} ELSE
    {f} \union
    CASE op.do = "rename" ->
            {Result(f, op), Put(f, op.at, Synced(f[op.at].data))}
      [] op.do = "remove" -> {Result(f, op)}
      [] op.do = "write" ->
            {Put(f, op.at, [data |-> c, safe |-> Nothing]) :
                c \in Between(Nothing, op.is) \ {Nothing}}
      [] OTHER ->
            {Put(f, op.at, [data |-> c, safe |-> f[op.at].safe]) :
                c \in Between(f[op.at].data, op.is)}

\* A list that is interrupted is interrupted in its first operation.
Interrupt(f, ops) == IF ops = <<>> THEN {f} ELSE Partial(f, Head(ops))

\* A power failure leaves of every file something between what was synced and
\* what was written; a file whose entry was not synced may be gone.
Dirty(f) == {name \in DOMAIN f : f[name].data # f[name].safe}
Survives(f, left) ==
    [name \in {x \in DOMAIN f : x \notin Dirty(f) \/ left[x] # Nothing} |->
        IF name \in Dirty(f) THEN Synced(left[name]) ELSE f[name]]
PowerLost(f) ==
    {Survives(f, left) : left \in
        {g \in [Dirty(f) -> UNION {Between(f[x].safe, f[x].data) : x \in Dirty(f)}] :
            \A x \in Dirty(f) : g[x] \in Between(f[x].safe, f[x].data)}}

-----------------------------------------------------------------------------
(***************************************************************************)
(* Startup recovery.  A plan is the list of operations recovery performs   *)
(* next, or a refusal; after them it looks at the files again, as the code *)
(* does by falling through to the next branch.                             *)
(***************************************************************************)
Go(ops) == [ok |-> TRUE, ops |-> ops]
Refuse  == [ok |-> FALSE, ops |-> <<>>]

Creation == Doc("created", 0)
Orphan   == Doc("orphan", 0)
Marker   == Doc("gc", 0)

\* segment_metadata: the frames of the log it describes and when it was
\* sealed, by the recorder or by recovery (which uses the creation time).
SealedBy(of, name) == Doc(of, Read(name).n)
Describes(meta, name) ==
    /\ ~Torn(Read(name))
    /\ Read(name).n > 0
    /\ ~Torn(Read(meta))
    /\ Read(meta).n = Read(name).n

ValidState ==
    /\ ~(Has("open.wal") /\ (Has("sealed.wal") \/ Has("segment.json")))
    /\ ~(/\ Has("abandoned.wal") \/ Has("abandoned.json")
         /\ \/ Has("open.wal") \/ Has("sealed.wal")
            \/ Has("segment.json") \/ Has("segment.json.tmp"))
    /\ ~(/\ Has("open.json.tmp")
         /\ \/ Has("open.json") \/ Has("sealed.wal")
            \/ Has("segment.json") \/ Has("segment.json.tmp"))
    /\ ~(/\ Has("open.json.incomplete")
         /\ \/ Has("open.json") \/ Has("open.json.tmp") \/ Has("sealed.wal")
            \/ Has("segment.json") \/ Has("segment.json.tmp"))
    /\ ~(Has("segment.json") /\ Has("segment.json.tmp"))
    /\ ~(Has("abandoned.json") /\ (Has("open.json") \/ Has("open.json.tmp")))
    /\ ~Has("gc.wal") /\ ~Has("gc.json")
    /\ Has("segment.json") => Has("sealed.wal")
    /\ Has("abandoned.json") => Has("abandoned.wal")
    /\ Has("open.json") =>
          Has("open.wal") \/ Has("sealed.wal") \/ Has("abandoned.wal")

TailReadable == Has("corrupt-tail") => Torn(Read("corrupt-tail"))

\* load_segment of a segment whose metadata is published.
Loads ==
    /\ ValidState
    /\ Has("segment.json")
    /\ Describes("segment.json", "sealed.wal")

PublishPrepared(from) ==
    (IF from = "sealed.wal" THEN <<>> ELSE <<Rename(from, "sealed.wal")>>)
    \o <<Rename("segment.json.tmp", "segment.json"), Remove("open.json")>>

SealOps(of, from) ==
    <<WriteNew("segment.json.tmp", SealedBy(of, from))>> \o PublishPrepared(from)

\* abandon_creation: nothing was accepted, the identity is kept and closed.
Incomplete == Has("open.json.tmp") /\ Torn(Read("open.json.tmp"))
Source ==
    IF Has("open.json") THEN "open.json"
    ELSE IF Has("open.json.tmp") /\ ~Incomplete THEN "open.json.tmp" ELSE "none"
AbandonRefused ==
    \/ Has("open.json") /\ Has("open.json.tmp")
    \/ /\ ~Has("open.wal") /\ ~Has("abandoned.wal")
       /\ Has("open.json") \/ Has("abandoned.json")
    \/ Has("abandoned.wal") /\ Size(Read("abandoned.wal")) > 0
    \/ ~TailReadable
    \/ Has("open.wal") /\ (\/ Size(Read("open.wal")) > 0
                           \/ Has("abandoned.wal") \/ Has("abandoned.json"))
    \/ /\ ~Has("open.wal") /\ ~Has("abandoned.wal") /\ Source = "none"
       /\ ~Incomplete /\ ~Has("open.json.incomplete")
    \/ Source # "none" /\ Has("abandoned.json")
AbandonOps ==
    (IF Incomplete
     THEN <<Rename("open.json.tmp", "open.json.incomplete")>> ELSE <<>>)
    \o (IF Has("open.wal") THEN <<Rename("open.wal", "abandoned.wal")>>
        ELSE IF Has("abandoned.wal") THEN <<>>
        ELSE <<WriteNew("abandoned.wal", Log(0, 0))>>)
    \o (IF Source # "none" THEN <<Rename(Source, "abandoned.json")>>
        ELSE IF ~Has("abandoned.json") THEN <<WriteNew("abandoned.json", Orphan)>>
        ELSE IF Torn(Read("abandoned.json")) THEN <<Complete("abandoned.json", Orphan)>>
        ELSE <<>>)
Abandon == IF AbandonRefused THEN Refuse ELSE Go(AbandonOps)

\* The torn end of a log is kept aside before it is cut off.
\* Mutant: a quarantine begun by an earlier recovery is not continued.
Quarantine_Again ==
    <<WriteNew("corrupt-tail", Bytes(Read("open.wal").t)),
      SetLen(Log(Read("open.wal").n, 0))>>
Quarantine ==
    <<IF Has("corrupt-tail")
      THEN Complete("corrupt-tail", Bytes(Read("open.wal").t))
      ELSE WriteNew("corrupt-tail", Bytes(Read("open.wal").t)),
      SetLen(Log(Read("open.wal").n, 0))>>

RecoverSealed ==
    IF Has("segment.json")
    THEN IF Describes("segment.json", "sealed.wal") /\ TailReadable
         THEN Go(<<>>) ELSE Refuse
    ELSE IF Has("segment.json.tmp")
    THEN IF Describes("segment.json.tmp", "sealed.wal")
         THEN Go(PublishPrepared("sealed.wal")) ELSE Refuse
    ELSE IF Has("open.json") /\ ~Torn(Read("sealed.wal"))
    THEN Go(SealOps("resealed", "sealed.wal")) ELSE Refuse

RecoverPrepared ==
    IF Torn(Read("segment.json.tmp"))
    THEN IF Has("segment.json.incomplete")
         THEN Go(<<Complete("segment.json.tmp", SealedBy("resealed", "open.wal"))>>
                 \o PublishPrepared("open.wal"))
         ELSE Go(<<Rename("segment.json.tmp", "segment.json.incomplete")>>)
    ELSE IF Describes("segment.json.tmp", "open.wal")
         THEN Go(PublishPrepared("open.wal")) ELSE Refuse

RecoverOpen ==
    CASE Size(Read("open.wal")) = 0 ->
            IF Has("segment.json.tmp") THEN Refuse ELSE Abandon
      [] Size(Read("open.wal")) > 0 /\ ~Has("open.json") -> Refuse
      [] Has("open.json") /\ Torn(Read("open.wal")) ->
            IF Has("segment.json.tmp") THEN Refuse ELSE Go(Quarantine)
      [] OTHER ->
            IF Has("segment.json.tmp") THEN RecoverPrepared
            ELSE Go(SealOps("resealed", "open.wal"))

RecoverSegment ==
    IF ~ValidState THEN Refuse
    ELSE IF Has("open.wal") THEN RecoverOpen
    ELSE IF Has("sealed.wal") THEN RecoverSealed
    ELSE IF Has("segment.json") \/ Has("segment.json.tmp") THEN Refuse
    ELSE Abandon

\* collect_verified: the marker first, so that an interrupted collection is
\* continued and never taken for a segment that lost its data.
CollectRefused ==
    \/ Has("gc.json") /\ Has("gc.json.tmp")
    \/ ~Has("gc.json") /\ (Has("gc.wal") \/ ~Loads \/ Read("segment.json").n # owned)
    \/ Has("sealed.wal") /\ Has("gc.wal")
CollectOps ==
    (IF Has("gc.json") THEN <<>>
     ELSE <<IF Has("gc.json.tmp") THEN Complete("gc.json.tmp", Marker)
            ELSE WriteNew("gc.json.tmp", Marker),
            Rename("gc.json.tmp", "gc.json")>>)
    \o (IF Has("sealed.wal") THEN <<Rename("sealed.wal", "gc.wal")>> ELSE <<>>)
    \o <<Remove("segment.json"), Remove("gc.wal"), Remove("gc.json")>>

\* recover_wal_inputs: collections first, then every pending segment.
GcPending == Has("gc.json") \/ Has("gc.json.tmp") \/ Has("gc.wal")
RecoveryPending ==
    \E name \in {"open.wal", "open.json", "open.json.tmp", "sealed.wal",
                 "segment.json", "segment.json.tmp"} : Has(name)
RecoverWalInputs ==
    IF GcPending
    THEN IF CollectRefused \/ owned = 0 THEN Refuse ELSE Go(CollectOps)
    ELSE IF RecoveryPending THEN RecoverSegment ELSE Go(<<>>)

-----------------------------------------------------------------------------
Init ==
    /\ files = [name \in {} |-> Synced(Nothing)]
    /\ up = TRUE /\ open = FALSE /\ task = "none" /\ todo = <<>> /\ gc = <<>>
    /\ born = FALSE /\ sealing = FALSE /\ failed = FALSE
    /\ records = 0 /\ accepted = 0 /\ owned = 0
    /\ refused = FALSE /\ strikes \in FaultModels /\ faults = 0

Begin(call, ops) == task' = call /\ todo' = ops

CreateSegment ==
    /\ up /\ task = "none" /\ ~open /\ ~born
    /\ DOMAIN files = {}
    /\ born' = TRUE
    /\ Begin("create", <<WriteNew("open.json.tmp", Creation),
                         WriteNew("open.wal", Log(0, 0)),
                         Rename("open.json.tmp", "open.json")>>)
    /\ UNCHANGED <<files, up, open, gc, sealing, failed, records, accepted,
                   owned, refused, strikes, faults>>

\* record: one observation is validated and appended.
Record ==
    /\ up /\ task = "none" /\ open /\ ~failed /\ ~sealing
    /\ records < MaxRecords
    /\ ~Torn(Read("open.wal"))
    /\ Begin("append", <<Frame(Log(Read("open.wal").n + 1, 0))>>)
    /\ UNCHANGED <<files, up, open, gc, born, sealing, failed, records,
                   accepted, owned, refused, strikes, faults>>

\* The observation is not admissible, or the log is at its capacity.
RecordRefused ==
    /\ up /\ task = "none" /\ open /\ ~failed /\ ~sealing
    /\ failed' = TRUE
    /\ UNCHANGED <<files, up, open, task, todo, gc, born, sealing, records,
                   accepted, owned, refused, strikes, faults>>

\* seal by the recorder; a history request seals once more what a failed
\* append has left, and is refused when that is torn.
Seal ==
    /\ up /\ task = "none" /\ open /\ ~sealing
    /\ records > 0
    /\ sealing' = TRUE
    /\ IF Torn(Read("open.wal"))
       THEN failed' = TRUE /\ UNCHANGED <<task, todo>>
       ELSE Begin("seal", SealOps("sealed", "open.wal")) /\ UNCHANGED failed
    /\ UNCHANGED <<files, up, open, gc, born, records, accepted, owned,
                   refused, strikes, faults>>

\* One file operation of the call in progress; the last one completes it.
Perform ==
    /\ up /\ todo # <<>>
    /\ Possible(files, Head(todo))
    /\ files' = Result(files, Head(todo))
    /\ todo' = Tail(todo)
    /\ IF Tail(todo) # <<>> \/ task = "recover"
       THEN UNCHANGED <<task, open, accepted, records>>
       ELSE /\ task' = "none"
            /\ open' = (task # "seal")
            /\ accepted' = IF task = "append" THEN accepted + 1 ELSE accepted
            /\ records' = IF task = "append" THEN records + 1 ELSE records
    /\ UNCHANGED <<up, gc, born, sealing, failed, owned, refused, strikes, faults>>

\* The drain publishes a loadable segment and then collects it.
Publish ==
    /\ up /\ task # "recover" /\ gc = <<>>
    /\ ~Has("gc.json")
    /\ Loads
    /\ owned = 0
    /\ owned' = Read("segment.json").n
    /\ UNCHANGED <<files, up, open, task, todo, gc, born, sealing, failed,
                   records, accepted, refused, strikes, faults>>

Collect ==
    /\ up /\ task # "recover" /\ gc = <<>>
    /\ ~Has("gc.json") /\ Loads /\ owned > 0
    /\ ~CollectRefused
    /\ gc' = CollectOps
    /\ UNCHANGED <<files, up, open, task, todo, born, sealing, failed, records,
                   accepted, owned, refused, strikes, faults>>

PerformGc ==
    /\ up /\ gc # <<>>
    /\ Possible(files, Head(gc))
    /\ files' = Result(files, Head(gc))
    /\ gc' = Tail(gc)
    /\ UNCHANGED <<up, open, task, todo, born, sealing, failed, records,
                   accepted, owned, refused, strikes, faults>>

-----------------------------------------------------------------------------
Restart ==
    /\ ~up /\ ~refused
    /\ up' = TRUE
    /\ task' = "recover"
    /\ UNCHANGED <<files, open, todo, gc, born, sealing, failed, records,
                   accepted, owned, refused, strikes, faults>>

\* Recovery looks at the files: it plans, ends, or refuses and stops the host.
Recover ==
    /\ up /\ task = "recover" /\ todo = <<>>
    /\ LET plan == RecoverWalInputs IN
       /\ up' = plan.ok
       /\ refused' = ~plan.ok
       /\ todo' = plan.ops
       /\ task' = IF plan.ok /\ plan.ops # <<>> THEN "recover" ELSE "none"
    /\ UNCHANGED <<files, open, gc, born, sealing, failed, records, accepted,
                   owned, strikes, faults>>

\* An operation of recovery meets a file that contradicts it.
RecoverConflict ==
    /\ up /\ task = "recover" /\ todo # <<>>
    /\ ~Possible(files, Head(todo)) \/ MayDiffer(files, Head(todo))
    /\ up' = FALSE /\ refused' = TRUE
    /\ todo' = <<>> /\ task' = "none"
    /\ UNCHANGED <<files, open, gc, born, sealing, failed, records, accepted,
                   owned, strikes, faults>>

\* The process is gone: its memory with it, the recorder's session too.
Stopped ==
    /\ up' = FALSE /\ open' = FALSE
    /\ task' = "none" /\ todo' = <<>> /\ gc' = <<>>
    /\ failed' = FALSE /\ sealing' = FALSE /\ records' = 0
    /\ UNCHANGED <<born, accepted, owned, refused, strikes>>

Fault(kind) ==
    /\ kind \in strikes
    /\ faults < MaxFaults
    /\ faults' = faults + 1

\* A file operation of the recorder fails: the error is returned, the segment
\* stays open and the recorder takes nothing more.
CallFails ==
    /\ Fault("call")
    /\ up /\ todo # <<>> /\ task # "recover"
    /\ files' \in Partial(files, Head(todo))
    /\ failed' = TRUE
    /\ task' = "none" /\ todo' = <<>>
    /\ UNCHANGED <<up, open, gc, born, sealing, records, accepted, owned, refused, strikes>>

\* An operation of the drain fails: it is tried again by a later drain, or by
\* the next startup when the collection had begun.
DrainFails ==
    /\ Fault("call")
    /\ up /\ gc # <<>>
    /\ files' \in Partial(files, Head(gc))
    /\ gc' = <<>>
    /\ UNCHANGED <<up, open, task, todo, born, sealing, failed, records,
                   accepted, owned, refused, strikes>>

\* Recovery fails with an I/O error and the host stops.
RecoverFails ==
    /\ Fault("call")
    /\ up /\ todo # <<>> /\ task = "recover"
    /\ files' \in Partial(files, Head(todo))
    /\ Stopped

Interrupted == UNION {Interrupt(f, gc) : f \in Interrupt(files, todo)}

\* The host is stopped: by a signal, or by the operator after a failure.
Kill ==
    /\ Fault("kill")
    /\ up
    /\ files' \in Interrupted
    /\ Stopped

PowerLoss ==
    /\ Fault("power")
    /\ files' \in UNION {PowerLost(f) : f \in Interrupted}
    /\ Stopped

Next ==
    \/ CreateSegment \/ Record \/ RecordRefused \/ Seal \/ Perform
    \/ Publish \/ Collect \/ PerformGc
    \/ Restart \/ Recover \/ RecoverConflict
    \/ CallFails \/ DrainFails \/ RecoverFails \/ Kill \/ PowerLoss

Spec == Init /\ [][Next]_walVars

-----------------------------------------------------------------------------
(***************************************************************************)
(* Properties.                                                             *)
(***************************************************************************)
phase ==
    IF Has("sealed.wal") \/ Has("gc.wal") THEN "sealed"
    ELSE IF Has("abandoned.wal") /\ files["abandoned.wal"].safe # Nothing
    THEN "abandoned"
    ELSE IF owned > 0 THEN "collected" ELSE "open"

held ==
    IF Has("gc.wal") THEN Read("gc.wal").n
    ELSE IF Has("sealed.wal") THEN Read("sealed.wal").n
    ELSE IF Has("open.wal") THEN Read("open.wal").n ELSE 0

Segment == INSTANCE DurableSegment

\* An observation the recorder accepted (append returned its ordinal) survives
\* every kill, power failure and failed call until it is sealed; what is sealed
\* does not change; a segment that accepted anything is never abandoned; and its
\* bytes are removed only after the catalog owns every frame of it.
ImplementsSegment == Segment!Spec

\* Whatever the failures of one kind left behind, power failures alone or
\* failing calls and kills without them, startup recovery brings the segment to
\* sealed or abandoned: it never answers Corrupt or Conflict for files that only
\* the log itself has written, as long as they hold data.  (With both kinds the
\* seal after a failed append may describe a frame that the power takes back.)
RestartRecovers ==
    refused => phase = "collected" \/ ("power" \in strikes /\ strikes # {"power"})

\* The stronger reading: startup recovery never refuses what the log itself
\* has written, collected segments included.
NeverRefused == ~refused
=============================================================================
