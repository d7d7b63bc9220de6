---------------------------- MODULE BrokerProtocol ----------------------------
(***************************************************************************)
(* The broker boundary of OnlyAlpha: crates/broker (Broker).  It hands     *)
(* submit and cancel commands to a trading adapter, takes in the facts the *)
(* venue reports, and reconciles commands whose outcome it does not know.  *)
(* All it knows is in an append-only journal; an append that reports an    *)
(* error may nevertheless have been persisted, the process may stop        *)
(* between any two steps, and the adapter's answer may be lost.            *)
(*                                                                         *)
(* The variable journal is the state that a reload of the journal's        *)
(* records computes.  Every call of the process and every append starts    *)
(* with a reload, so decisions are made on the journal itself; the copy    *)
(* that ready() and pending() show between calls is left out.  The maps    *)
(* seen, venues, order_venues and trades of that state are functions of    *)
(* the facts taken in, which the model keeps as one set.  The flags        *)
(* account_known, discovery_complete and stream_trusted are read only      *)
(* together, and none of them is raised without the others: healthy is     *)
(* their conjunction.                                                      *)
(*                                                                         *)
(* The journal driver, the adapter, the venue's discovery answers and the  *)
(* Runtime that applies facts are external.                                *)
(***************************************************************************)
EXTENDS Naturals, Sequences, FiniteSets

CONSTANTS
  Command,    \* [id, op, order, client, request]; a payload alias shares only the id
  Txn,        \* the Runtime transactions a ready intent may name
  Fact,       \* [identity, fingerprint, order, venue, trades]
  View,       \* order views: [order, client, venue, body]
  Answer,     \* discovery answers: [proof, as_of, presence, view, facts]
  Capacity,   \* bound on the facts that wait for the Runtime
  None        \* absence of an optional field

Ids == {c.id : c \in Command}

AnswerType ==
  [proof : {a.proof : a \in Answer}, as_of : Nat,
   presence : {"Present", "AbsentProven", "Inconclusive"},
   view : View \cup {None}, facts : SUBSET Fact]

ASSUME BrokerAssumption ==
  /\ \A c \in Command : c.op \in {"SUBMIT", "CANCEL"}
  /\ IsFiniteSet(Fact)
  /\ \A f, g \in Fact :
       f.identity = g.identity /\ f.fingerprint = g.fingerprint => f = g
  /\ Answer \subseteq AnswerType
  /\ None \notin View \cup AnswerType \cup Txn \cup Command
  /\ Capacity \in Nat \ {0}

VARIABLES
  journal,     \* what the durable records add up to: [commands, facts, pending, conflict]
  proc,        \* the process: its copy of that state, its health, the call it is in
  handed,      \* the commands the adapter was given, in order (external)
  applied,     \* the facts the Runtime has applied and made Ready (external)
  discovered   \* per command, all facts a recorded discovery reported (history)

vars == <<journal, proc, handed, applied, discovered>>

-----------------------------------------------------------------------------
(* The state and what a journal event does to it *)

Uncertain  == {"Unknown", "Reconciling"}
Discovering == {"Unknown", "Known", "Reconciling"}

NoEntry == [state |-> "Absent", command |-> None, txn |-> None,
            result_recorded |-> FALSE, discovery |-> None]

EmptyState ==
  [commands |-> [i \in Ids |-> NoEntry], facts |-> {}, pending |-> {}, conflict |-> FALSE]

SetEntry(s, i, e) == [s EXCEPT !.commands[i] = e]

\* Two facts that cannot both be true of the venue.
Contradict(f, g) ==
  \/ f.identity = g.identity /\ f.fingerprint # g.fingerprint
  \/ /\ None \notin {f.order, g.order}
     /\ \/ /\ None \notin {f.venue, g.venue}
           /\ (f.venue = g.venue) # (f.order = g.order)
        \/ f.order # g.order /\ f.trades \cap g.trades # {}

Clash(s, F) == \E f \in F, g \in s.facts \cup F : Contradict(f, g)

New(s, F) == F \ s.facts

Overflow(s, F) == Cardinality(s.pending) + Cardinality(New(s, F)) > Capacity

AddFacts(s, F) ==
  [s EXCEPT !.facts = @ \cup F, !.pending = @ \cup New(s, F)]

\* Mutant: a cancelled or resolved order may be submitted again.
IntentValid_PerCommand(s, c) == s.commands[c.id].state = "Absent"

IntentValid(s, c) ==
  /\ s.commands[c.id].state = "Absent"
  /\ \A i \in Ids : s.commands[i].state # "Absent" =>
       LET e == s.commands[i]
       IN /\ e.command.client = c.client => e.command.order = c.order
          /\ e.command.request # c.request
          /\ e.command.order = c.order =>
               /\ e.command.client = c.client
               /\ c.op # "SUBMIT"
               /\ e.command.op = c.op => e.state = "Resolved"

Intended(s, c, t) ==
  SetEntry(s, c.id, [NoEntry EXCEPT !.state = "Durable", !.command = c, !.txn = t])

Dispatched(s, i) == SetEntry(s, i, [s.commands[i] EXCEPT !.state = "Unknown"])

ResultValid(s, i) ==
  LET e == s.commands[i]
  IN e.state = "Unknown" /\ ~e.result_recorded /\ e.discovery = None

Answered(s, i, outcome) ==
  SetEntry(s, i, [s.commands[i] EXCEPT !.result_recorded = TRUE,
                                       !.state = IF outcome = "UNKNOWN" THEN @ ELSE "Known"])

\* An answer about command c that Discovery::new accepts.
WellFormed(c, d) ==
  /\ (d.presence = "Present") = (d.view # None)
  /\ d.presence # "Present" => d.facts = {}
  /\ d.view # None => d.view.order = c.order /\ d.view.client = c.client
  /\ \A f \in d.facts : f.order = c.order /\ f.venue \in {None, d.view.venue}
  /\ \A f, g \in d.facts : f.identity = g.identity => f = g

Newer(d, old) == d.proof # old.proof /\ d.as_of >= old.as_of

DiscoveryValid(s, i, d) ==
  LET e == s.commands[i]
  IN /\ e.state \in Discovering
     /\ e.discovery # None =>
          /\ Newer(d, e.discovery)
          /\ e.discovery.presence = "Present" => d.presence = "Present"

\* Mutant: the latest answer replaces what earlier answers reported.
Cumulative_Latest(e, d) == d

\* The answer with all facts that earlier answers reported.
Cumulative(e, d) ==
  IF e.discovery = None THEN d
  ELSE [d EXCEPT !.facts = e.discovery.facts \cup @]

Discovered(s, i, d) ==
  LET e == s.commands[i]
  IN AddFacts(SetEntry(s, i, [e EXCEPT !.state = "Reconciling",
                                       !.discovery = Cumulative(e, d)]),
              Cumulative(e, d).facts)

\* The venue is proven not to have the submission; or venue and Runtime agree
\* on the order and the Runtime has a receipt for every fact reported.
ResolveValid(s, i, d, local) ==
  LET e == s.commands[i]
      old == e.discovery
  IN /\ e.state = "Reconciling"
     /\ Newer(d, old)
     /\ old.facts \subseteq applied
     /\ d.facts = {}
     /\ IF d.presence = "AbsentProven" /\ old.presence = "AbsentProven" /\ e.command.op = "SUBMIT"
        THEN local = None /\ old.facts = {}
        ELSE /\ d.presence = "Present" /\ old.presence = "Present"
             /\ local # None /\ d.view = local /\ old.view = local

Resolved(s, i) ==
  [SetEntry(s, i, [s.commands[i] EXCEPT !.state = "Resolved"])
     EXCEPT !.pending = @ \ s.commands[i].discovery.facts]

-----------------------------------------------------------------------------
(* The process *)

\* A process that just recovered trusts nothing it has not been told.
Recovered ==
  [up |-> TRUE, connection |-> "Disconnected", healthy |-> FALSE,
   at |-> "idle", command |-> None, txn |-> None, outcome |-> None]

\* Nothing of a process survives it.
Stopped == [Recovered EXCEPT !.up = FALSE]

Init ==
  /\ journal = EmptyState
  /\ proc = Recovered
  /\ handed = << >>
  /\ applied = {}
  /\ discovered = [i \in Ids |-> {}]

\* Mutant: a command under reconciliation does not hold back new submits.
Ready_OnlyUnknown(s) ==
  /\ proc.connection = "Ready"
  /\ proc.healthy
  /\ ~s.conflict
  /\ \A i \in Ids : s.commands[i].state # "Unknown"

Ready(s) ==
  /\ proc.connection = "Ready"
  /\ proc.healthy
  /\ ~s.conflict
  /\ \A i \in Ids : s.commands[i].state \notin Uncertain

Idle(p) == [p EXCEPT !.at = "idle", !.command = None, !.txn = None, !.outcome = None]

Running(at) == proc.up /\ proc.at = at

\* The current call returns without an append.
Return == /\ proc' = Idle(proc)
          /\ UNCHANGED <<journal, handed, applied, discovered>>

\* Append the event that leads to state s and go on as process p; or fail,
\* before or after the record was persisted: the process returns with an
\* error and no longer trusts the stream.
Write(s, p) ==
  \/ journal' = s /\ proc' = p
  \/ journal' \in {journal, s} /\ proc' = Idle([p EXCEPT !.healthy = FALSE])

-----------------------------------------------------------------------------
(* dispatch *)

\* The command is new, or recorded with this payload and never dispatched.
MayDispatch(c, t) ==
  LET e == journal.commands[c.id]
  IN /\ e.state \in {"Absent", "Durable"}
     /\ e.state = "Durable" => e.command = c /\ e.txn = t
     /\ c.op = "SUBMIT" => Ready(journal)

DispatchBegin(c, t) ==
  /\ Running("idle")
  /\ MayDispatch(c, t)
  /\ proc' = [proc EXCEPT !.command = c, !.txn = t,
                          !.at = IF journal.commands[c.id].state = "Absent"
                                 THEN "intent" ELSE "dispatch"]
  /\ UNCHANGED <<journal, handed, applied, discovered>>

AppendIntent ==
  /\ Running("intent")
  /\ UNCHANGED <<handed, applied, discovered>>
  /\ IF IntentValid(journal, proc.command)
     THEN Write(Intended(journal, proc.command, proc.txn), [proc EXCEPT !.at = "dispatch"])
     ELSE Return

AppendDispatched ==
  /\ Running("dispatch")
  /\ Write(Dispatched(journal, proc.command.id), [proc EXCEPT !.at = "send"])
  /\ UNCHANGED <<handed, applied, discovered>>

\* adapter.dispatch; an error of the adapter is an unknown outcome.
Send(outcome) ==
  /\ Running("send")
  /\ handed' = handed \o <<proc.command>>
  /\ proc' = [proc EXCEPT !.at = "result", !.outcome = outcome]
  /\ UNCHANGED <<journal, applied, discovered>>

AppendResult ==
  /\ Running("result")
  /\ UNCHANGED <<handed, applied, discovered>>
  /\ IF ResultValid(journal, proc.command.id)
     THEN Write(Answered(journal, proc.command.id, proc.outcome), Idle(proc))
     ELSE Return

-----------------------------------------------------------------------------
(* ingest, acknowledge, reconcile, resolve *)

\* A batch of facts from the venue's stream.  A batch that both clashes and
\* overflows reports whichever its order meets first.
Ingest(F) ==
  /\ Running("idle")
  /\ UNCHANGED <<handed, applied, discovered>>
  /\ \/ /\ ~Clash(journal, F) /\ ~Overflow(journal, F)
        /\ Write(AddFacts(journal, F), proc)
     \/ /\ Clash(journal, F)
        /\ proc' = [proc EXCEPT !.at = "latch"]
        /\ UNCHANGED journal
     \/ /\ Overflow(journal, F)
        /\ proc' = [proc EXCEPT !.healthy = FALSE]
        /\ UNCHANGED journal

\* Record a conflict that ingest or reconcile ran into.
Latch ==
  /\ Running("latch")
  /\ Write([journal EXCEPT !.conflict = TRUE], Idle(proc))
  /\ UNCHANGED <<handed, applied, discovered>>

\* Mutant: the fact is dropped as soon as someone acknowledges it.
Acknowledge_NoReceipt(f) ==
  /\ Running("idle")
  /\ f \in journal.pending
  /\ Write([journal EXCEPT !.pending = @ \ {f}], proc)
  /\ UNCHANGED <<handed, applied, discovered>>

Acknowledge(f) ==
  /\ Running("idle")
  /\ f \in journal.pending
  /\ f \in applied
  /\ Write([journal EXCEPT !.pending = @ \ {f}], proc)
  /\ UNCHANGED <<handed, applied, discovered>>

\* A discovery that starts withdraws the claim that discovery is complete.
Reconcile(i, d) ==
  LET e == journal.commands[i]
      F == Cumulative(e, d).facts
      p == [proc EXCEPT !.healthy = FALSE]
  IN /\ Running("idle")
     /\ e.state \in Discovering
     /\ UNCHANGED <<handed, applied>>
     /\ \/ /\ WellFormed(e.command, d) /\ DiscoveryValid(journal, i, d)
           /\ ~Clash(journal, F) /\ ~Overflow(journal, F)
           /\ Write(Discovered(journal, i, d), p)
           /\ discovered' = IF journal' = journal THEN discovered
                            ELSE [discovered EXCEPT ![i] = @ \cup d.facts]
        \/ /\ WellFormed(e.command, d) /\ DiscoveryValid(journal, i, d)
           /\ Clash(journal, F)
           /\ proc' = [p EXCEPT !.at = "latch"]
           /\ UNCHANGED <<journal, discovered>>
        \/ proc' = p /\ UNCHANGED <<journal, discovered>>  \* no or no valid answer

Resolve(i, d, local) ==
  LET e == journal.commands[i]
  IN /\ Running("idle")
     /\ e.discovery # None
     /\ WellFormed(e.command, d)
     /\ ResolveValid(journal, i, d, local)
     /\ Write(Resolved(journal, i), proc)
     /\ UNCHANGED <<handed, applied, discovered>>

\* A call that cannot read the journal.  Calls that read it and then end, for
\* an unknown or finished command, a payload alias, a missing capability,
\* receipt or view, change nothing.
RefreshFails ==
  /\ Running("idle")
  /\ proc' = [proc EXCEPT !.healthy = FALSE]
  /\ UNCHANGED <<journal, handed, applied, discovered>>

-----------------------------------------------------------------------------
(* Health, the outside world, crashes *)

SetConnection(x) ==
  /\ Running("idle")
  /\ x # proc.connection
  /\ proc' = [proc EXCEPT !.connection = x, !.healthy = FALSE]
  /\ UNCHANGED <<journal, handed, applied, discovered>>

\* set_health: the caller's word on account, discovery and stream together.
SetHealth(x) ==
  /\ Running("idle")
  /\ proc' = [proc EXCEPT !.healthy = x]
  /\ UNCHANGED <<journal, handed, applied, discovered>>

\* The Runtime applies a fact of an identity it was told about, at most one
\* per identity; it may have another version of it.
RuntimeApplies(f) ==
  /\ \E g \in journal.facts : g.identity = f.identity
  /\ \A g \in applied : g.identity # f.identity
  /\ applied' = applied \cup {f}
  /\ UNCHANGED <<journal, proc, handed, discovered>>

Crash ==
  /\ proc.up
  /\ proc' = Stopped
  /\ UNCHANGED <<journal, handed, applied, discovered>>

\* Broker::recover, which reads the journal and calls nobody.
Recover ==
  /\ ~proc.up
  /\ proc' = Recovered
  /\ UNCHANGED <<journal, handed, applied, discovered>>

Dispatch ==
  \/ \E c \in Command, t \in Txn : DispatchBegin(c, t)
  \/ AppendIntent
  \/ AppendDispatched
  \/ \E o \in {"RECEIVED", "REJECTED", "UNKNOWN"} : Send(o)
  \/ AppendResult

Facts ==
  \/ \E F \in SUBSET Fact : Ingest(F)
  \/ Latch
  \/ \E f \in Fact : Acknowledge(f)
  \/ \E i \in Ids, d \in Answer : Reconcile(i, d)
  \/ \E i \in Ids, d \in Answer, v \in View \cup {None} : Resolve(i, d, v)
  \/ RefreshFails

Environment ==
  \/ \E x \in {"Disconnected", "Ready"} : SetConnection(x)
  \/ \E x \in BOOLEAN : SetHealth(x)
  \/ \E f \in Fact : RuntimeApplies(f)
  \/ Crash
  \/ Recover

Next == Dispatch \/ Facts \/ Environment

Spec == Init /\ [][Next]_vars

-----------------------------------------------------------------------------
(* Properties *)

States == {"Absent", "Durable", "Unknown", "Known", "Reconciling", "Resolved"}

EntryType ==
  [state : States, command : Command \cup {None}, txn : Txn \cup {None},
   result_recorded : BOOLEAN,
   discovery : AnswerType \cup {None}]

StateType ==
  [commands : [Ids -> EntryType], facts : SUBSET Fact, pending : SUBSET Fact, conflict : BOOLEAN]

ProcType ==
  [up : BOOLEAN, connection : {"Disconnected", "Ready"},
   healthy : BOOLEAN,
   at : {"idle", "intent", "dispatch", "send", "result", "latch"},
   command : Command \cup {None}, txn : Txn \cup {None},
   outcome : {"RECEIVED", "REJECTED", "UNKNOWN", None}]

\* The shape of the state, and the bound on facts that wait for the Runtime.
TypeOK ==
  /\ journal \in StateType
  /\ proc \in ProcType
  /\ handed \in Seq(Command)
  /\ applied \subseteq Fact
  /\ discovered \in [Ids -> SUBSET Fact]
  /\ Cardinality(journal.pending) <= Capacity

\* The adapter never gets a command twice, nor a second submission of an
\* order, nor two orders under one client identity: whatever was lost, failed
\* or restarted in between, the venue cannot end up with a duplicate order.
NoBlindRetry ==
  \A j, k \in 1..Len(handed) : j < k =>
    /\ handed[j].id # handed[k].id
    /\ handed[j].request # handed[k].request
    /\ handed[j].op = "SUBMIT" /\ handed[k].op = "SUBMIT" => handed[j].order # handed[k].order
    /\ (handed[j].client = handed[k].client) <=> (handed[j].order = handed[k].order)

\* A command the adapter was given is on record as dispatched, with the same
\* payload: a process that starts after a crash knows it must not send it.
HandedIsRecorded ==
  \A k \in 1..Len(handed) :
    LET e == journal.commands[handed[k].id]
    IN e.command = handed[k] /\ e.state \notin {"Absent", "Durable"}

\* A submission leaves only while every other command has a certain outcome
\* and no identity conflict is on record, however old the check is that
\* dispatch made before its two appends.
SubmitsWaitForCertainty ==
  [][ handed' # handed /\ proc.command.op = "SUBMIT" =>
        /\ ~journal.conflict
        /\ \A i \in Ids \ {proc.command.id} : journal.commands[i].state \notin Uncertain
    ]_vars

\* A fact that was taken in stays pending until the Runtime has applied
\* exactly that fact.
FactsAreNotLost == journal.facts \subseteq journal.pending \cup applied

\* A resolved command leaves nothing behind: every fact any discovery ever
\* reported for it was taken in and applied by the Runtime, also the ones a
\* later discovery no longer mentioned.
ResolvedIsSettled ==
  \A i \in Ids : journal.commands[i].state = "Resolved" =>
    discovered[i] \subseteq (journal.facts \cap applied) \ journal.pending

Rank(x) ==
  CASE x = "Absent" -> 0 [] x = "Durable" -> 1 [] x = "Unknown" -> 2
    [] x = "Known" -> 3 [] x = "Reconciling" -> 4 [] x = "Resolved" -> 5

\* No step, crash, failed append or restart takes back what is on record: a
\* command's payload and transaction stay, its state only advances, facts
\* stay taken in and a conflict stays latched.
HistoryForwardOnly ==
  [][ /\ \A i \in Ids :
           LET old == journal.commands[i]
               new == journal'.commands[i]
           IN /\ Rank(old.state) <= Rank(new.state)
              /\ old.state # "Absent" => new.command = old.command /\ new.txn = old.txn
              /\ old.discovery # None => new.discovery # None
      /\ journal.facts \subseteq journal'.facts
      /\ journal.conflict => journal'.conflict
    ]_vars
=============================================================================
