------------------------- MODULE BrokerProtocolProofs -------------------------
(***************************************************************************)
(* Proofs about BrokerProtocol, for any sets of commands, facts, views and *)
(* answers and any capacity.                                               *)
(*                                                                         *)
(* Every journal event is a function on states.  The lemmas of the first   *)
(* part show that each of them keeps JournalSound and only moves forward;  *)
(* since an append either takes effect or not, whatever it reports, that   *)
(* settles all journal properties at once.  CallSound carries the check    *)
(* that dispatch makes at its start over its two appends to the adapter.   *)
(***************************************************************************)
EXTENDS BrokerProtocol, FiniteSetTheorems, TLAPS

EntrySound(s, i, D, A) ==
  LET e == s.commands[i]
  IN /\ e.state # "Absent" => e.command \in Command /\ e.command.id = i
     /\ e.discovery = None => D[i] = {}
     /\ e.discovery # None => /\ e.discovery.facts = D[i]
                              /\ e.state \in {"Reconciling", "Resolved"}
     /\ D[i] \subseteq s.facts
     /\ e.state = "Resolved" => D[i] \subseteq A /\ D[i] \cap s.pending = {}

\* Two recorded commands: what IntentValid established when the later came.
PairSound(e, g) ==
  e.state # "Absent" /\ g.state # "Absent" =>
    /\ e.command.request # g.command.request
    /\ (e.command.client = g.command.client) <=> (e.command.order = g.command.order)
    /\ e.command.op = "SUBMIT" /\ g.command.op = "SUBMIT" => e.command.order # g.command.order

JournalSound(s, D, A) ==
  /\ s \in StateType
  /\ Cardinality(s.pending) <= Capacity
  /\ s.facts \subseteq s.pending \cup A
  /\ \A i \in Ids : EntrySound(s, i, D, A)
  /\ \A i, j \in Ids : i # j => PairSound(s.commands[i], s.commands[j])

EntryForward(e, g) ==
  /\ Rank(e.state) <= Rank(g.state)
  /\ e.state # "Absent" => g.command = e.command /\ g.txn = e.txn
  /\ e.discovery # None => g.discovery # None

Forward(s, r) ==
  /\ \A i \in Ids : EntryForward(s.commands[i], r.commands[i])
  /\ s.facts \subseteq r.facts
  /\ s.conflict => r.conflict

Sending == {"intent", "dispatch", "send"}

CallSound ==
  /\ proc \in ProcType
  /\ proc.at \in Sending \cup {"result"} =>
       LET e == journal.commands[proc.command.id]
       IN /\ proc.command \in Command /\ proc.txn \in Txn
          /\ proc.at = "intent" => e.state = "Absent"
          /\ proc.at # "intent" => e.command = proc.command
          /\ proc.at = "dispatch" => e.state = "Durable"
          /\ proc.at = "send" => /\ e.state = "Unknown"
                                 /\ \A k \in 1..Len(handed) : handed[k].id # proc.command.id
  /\ proc.at \in Sending /\ proc.command.op = "SUBMIT" =>
       /\ ~journal.conflict
       /\ \A i \in Ids \ {proc.command.id} : journal.commands[i].state \notin Uncertain

HandedSound ==
  /\ handed \in Seq(Command)
  /\ HandedIsRecorded
  /\ \A j, k \in 1..Len(handed) : j < k => handed[j].id # handed[k].id

BrokerInv ==
  /\ JournalSound(journal, discovered, applied)
  /\ applied \subseteq Fact
  /\ discovered \in [Ids -> SUBSET Fact]
  /\ CallSound
  /\ HandedSound

-----------------------------------------------------------------------------
(* States and events *)

\* The identity of a command is one of the identities.
LEMMA IdOfCommand ==
  ASSUME NEW c \in Command
  PROVE  c.id \in Ids
BY DEF Ids

\* An event that changes one entry, before any discovery, is sound when the
\* new entry fits the others.
LEMMA EntryChange ==
  ASSUME NEW s, NEW D, NEW A, NEW i \in Ids, NEW e, JournalSound(s, D, A),
         e \in EntryType, e.state # "Absent", e.state # "Resolved",
         e.command \in Command, e.command.id = i,
         e.discovery = None, s.commands[i].discovery = None,
         EntryForward(s.commands[i], e),
         \A j \in Ids : j # i => PairSound(s.commands[j], e)
  PROVE  /\ JournalSound(SetEntry(s, i, e), D, A)
         /\ Forward(s, SetEntry(s, i, e))
<1> DEFINE r == SetEntry(s, i, e)
<1>1. s \in StateType
  BY DEF JournalSound
<1>2. /\ r \in StateType
      /\ r.commands = [s.commands EXCEPT ![i] = e]
      /\ r.facts = s.facts /\ r.pending = s.pending /\ r.conflict = s.conflict
  BY <1>1 DEF SetEntry, StateType
<1>3. r.commands[i] = e /\ \A j \in Ids : j # i => r.commands[j] = s.commands[j]
  BY <1>1, <1>2 DEF StateType
<1> HIDE DEF r
<1>4. \A j \in Ids : EntrySound(r, j, D, A)
  BY <1>2, <1>3 DEF EntrySound, JournalSound
<1>5. \A j, k \in Ids : j # k => PairSound(r.commands[j], r.commands[k])
  <2> SUFFICES ASSUME NEW j \in Ids, NEW k \in Ids, j # k
               PROVE  PairSound(r.commands[j], r.commands[k])
    OBVIOUS
  <2>1. CASE j # i /\ k # i
    BY <2>1, <1>3 DEF JournalSound
  <2>2. CASE k = i
    BY <2>2, <1>3
  <2>3. CASE j = i
    <3>1. PairSound(s.commands[k], e)
      BY <2>3
    <3> QED BY <3>1, <2>3, <1>3 DEF PairSound
  <2> QED BY <2>1, <2>2, <2>3
<1>6. JournalSound(r, D, A)
  BY <1>2, <1>4, <1>5 DEF JournalSound
<1>7. Forward(s, r)
  <2>1. \A j \in Ids : EntryForward(s.commands[j], r.commands[j])
    <3> SUFFICES ASSUME NEW j \in Ids, j # i
                 PROVE  EntryForward(s.commands[j], s.commands[j])
      BY <1>3
    <3>1. s.commands[j].state \in States
      BY <1>1 DEF StateType, EntryType
    <3> QED BY <3>1 DEF EntryForward, Rank, States
  <2> QED BY <2>1, <1>2 DEF Forward
<1> QED BY <1>6, <1>7 DEF r

\* Forward is reflexive on states.
LEMMA ForwardReflexive ==
  ASSUME NEW s \in StateType
  PROVE  Forward(s, s)
<1>1. \A j \in Ids : s.commands[j].state \in States
  BY DEF StateType, EntryType
<1> QED BY <1>1 DEF Forward, EntryForward, Rank, States

\* INTENT: the guard of the event is what PairSound needs.
LEMMA IntendedSound ==
  ASSUME NEW s, NEW D, NEW A, NEW c \in Command, NEW t \in Txn,
         JournalSound(s, D, A), IntentValid(s, c)
  PROVE  /\ JournalSound(Intended(s, c, t), D, A) /\ Forward(s, Intended(s, c, t))
         /\ Intended(s, c, t).commands[c.id].state = "Durable"
         /\ Intended(s, c, t).commands[c.id].command = c
         /\ \A j \in Ids : j # c.id => Intended(s, c, t).commands[j] = s.commands[j]
         /\ Intended(s, c, t).conflict = s.conflict
<1> DEFINE e == [NoEntry EXCEPT !.state = "Durable", !.command = c, !.txn = t]
<1>1. c.id \in Ids
  BY IdOfCommand
<1>2. /\ e \in EntryType /\ e.state = "Durable" /\ e.command = c /\ e.txn = t
      /\ e.discovery = None
  BY DEF NoEntry, EntryType, States
<1>3. s.commands[c.id].state = "Absent" /\ s.commands[c.id] \in EntryType
  BY <1>1 DEF IntentValid, JournalSound, StateType
<1>4. \A j \in Ids : j # c.id => PairSound(s.commands[j], e)
  BY <1>2 DEF IntentValid, PairSound
<1>5. s.commands[c.id].discovery = None
  BY <1>1, <1>3 DEF JournalSound, EntrySound
<1>6. EntryForward(s.commands[c.id], e)
  BY <1>2, <1>3, <1>5 DEF EntryForward, Rank
<1>7. Intended(s, c, t) = SetEntry(s, c.id, e)
  BY DEF Intended
<1>8. /\ SetEntry(s, c.id, e).commands[c.id] = e
      /\ \A j \in Ids : j # c.id => SetEntry(s, c.id, e).commands[j] = s.commands[j]
      /\ SetEntry(s, c.id, e).conflict = s.conflict
  BY <1>1 DEF SetEntry, StateType, JournalSound
<1> HIDE DEF e
<1>9. JournalSound(SetEntry(s, c.id, e), D, A) /\ Forward(s, SetEntry(s, c.id, e))
  BY <1>1, <1>2, <1>4, <1>5, <1>6, EntryChange
<1> QED BY <1>2, <1>7, <1>8, <1>9

\* DISPATCHED: a durable intent becomes a command of unknown outcome.
LEMMA DispatchedSound ==
  ASSUME NEW s, NEW D, NEW A, NEW i \in Ids,
         JournalSound(s, D, A), s.commands[i].state = "Durable"
  PROVE  /\ JournalSound(Dispatched(s, i), D, A) /\ Forward(s, Dispatched(s, i))
         /\ Dispatched(s, i).commands[i].state = "Unknown"
         /\ \A j \in Ids : j # i => Dispatched(s, i).commands[j] = s.commands[j]
         /\ Dispatched(s, i).conflict = s.conflict
<1> DEFINE e == [s.commands[i] EXCEPT !.state = "Unknown"]
<1>1. s \in StateType /\ s.commands[i] \in EntryType
  BY DEF JournalSound, StateType
<1>2. /\ e \in EntryType /\ e.state = "Unknown" /\ e.command = s.commands[i].command
      /\ e.txn = s.commands[i].txn /\ e.discovery = s.commands[i].discovery
  BY <1>1 DEF EntryType, States
<1>3. /\ s.commands[i].discovery = None
      /\ s.commands[i].command \in Command /\ s.commands[i].command.id = i
  BY DEF JournalSound, EntrySound
<1>4. \A j \in Ids : j # i => PairSound(s.commands[j], e)
  BY <1>2 DEF JournalSound, PairSound
<1>5. EntryForward(s.commands[i], e)
  BY <1>2 DEF EntryForward, Rank
<1>6. Dispatched(s, i) = SetEntry(s, i, e)
  BY DEF Dispatched
<1>7. /\ SetEntry(s, i, e).commands[i] = e
      /\ \A j \in Ids : j # i => SetEntry(s, i, e).commands[j] = s.commands[j]
      /\ SetEntry(s, i, e).conflict = s.conflict
  BY <1>1 DEF SetEntry, StateType
<1> HIDE DEF e
<1>8. JournalSound(SetEntry(s, i, e), D, A) /\ Forward(s, SetEntry(s, i, e))
  BY <1>2, <1>3, <1>4, <1>5, EntryChange
<1> QED BY <1>2, <1>6, <1>7, <1>8

\* RESULT: the outcome becomes known, or stays unknown.
LEMMA AnsweredSound ==
  ASSUME NEW s, NEW D, NEW A, NEW i \in Ids, NEW o,
         JournalSound(s, D, A), ResultValid(s, i)
  PROVE  JournalSound(Answered(s, i, o), D, A) /\ Forward(s, Answered(s, i, o))
<1> DEFINE x == IF o = "UNKNOWN" THEN s.commands[i].state ELSE "Known"
           e == [s.commands[i] EXCEPT !.result_recorded = TRUE, !.state = x]
<1>1. s \in StateType /\ s.commands[i] \in EntryType
  BY DEF JournalSound, StateType
<1>2. s.commands[i].state = "Unknown" /\ s.commands[i].discovery = None
  BY DEF ResultValid
<1>3. /\ e \in EntryType /\ e.state = x /\ e.command = s.commands[i].command
      /\ e.txn = s.commands[i].txn /\ e.discovery = s.commands[i].discovery
      /\ x \in {"Unknown", "Known"}
  BY <1>1, <1>2 DEF EntryType, States
<1>4. s.commands[i].command \in Command /\ s.commands[i].command.id = i
  BY <1>2 DEF JournalSound, EntrySound
<1>5. \A j \in Ids : j # i => PairSound(s.commands[j], e)
  BY <1>2, <1>3 DEF JournalSound, PairSound
<1>6. EntryForward(s.commands[i], e)
  BY <1>2, <1>3 DEF EntryForward, Rank
<1>7. Answered(s, i, o) = SetEntry(s, i, e)
  BY <1>1 DEF Answered, EntryType
<1> HIDE DEF e, x
<1> QED BY <1>2, <1>3, <1>4, <1>5, <1>6, <1>7, EntryChange

\* The pending facts are finite in number, and a batch that does not overflow
\* keeps them within the capacity.
LEMMA PendingBound ==
  ASSUME NEW P \in SUBSET Fact, NEW N \in SUBSET Fact,
         ~(Cardinality(P) + Cardinality(N) > Capacity)
  PROVE  Cardinality(P \cup N) <= Capacity
<1>1. IsFiniteSet(P) /\ IsFiniteSet(N) /\ IsFiniteSet(P \cap N)
  BY BrokerAssumption, FS_Subset
<1>2. /\ Cardinality(P) \in Nat /\ Cardinality(N) \in Nat /\ Cardinality(P \cap N) \in Nat
      /\ Cardinality(P \cup N) = Cardinality(P) + Cardinality(N) - Cardinality(P \cap N)
  BY <1>1, FS_CardinalityType, FS_Union
<1> QED BY <1>2, BrokerAssumption

LEMMA PendingShrinks ==
  ASSUME NEW P \in SUBSET Fact, NEW N \in SUBSET P, Cardinality(P) <= Capacity
  PROVE  Cardinality(N) <= Capacity
<1>1. IsFiniteSet(P)
  BY BrokerAssumption, FS_Subset
<1>2. /\ Cardinality(P) \in Nat /\ Cardinality(N) \in Nat
      /\ Cardinality(N) <= Cardinality(P)
  BY <1>1, FS_CardinalityType, FS_Subset
<1> QED BY <1>2, BrokerAssumption

\* A change of facts and pending only, as INGRESS, ACK and CONFLICT make it.
LEMMA FactsChange ==
  ASSUME NEW s, NEW r, NEW D, NEW A, JournalSound(s, D, A), r \in StateType,
         r.commands = s.commands, s.facts \subseteq r.facts, s.conflict => r.conflict,
         r.facts \subseteq r.pending \cup A,
         r.pending \cap s.facts \subseteq s.pending,
         Cardinality(r.pending) <= Capacity
  PROVE  JournalSound(r, D, A) /\ Forward(s, r)
<1>1. \A i \in Ids : EntrySound(r, i, D, A)
  BY DEF JournalSound, EntrySound
<1>2. \A i, j \in Ids : i # j => PairSound(r.commands[i], r.commands[j])
  BY DEF JournalSound
<1>3. JournalSound(r, D, A)
  BY <1>1, <1>2 DEF JournalSound
<1>4. Forward(s, s)
  BY ForwardReflexive DEF JournalSound
<1>5. Forward(s, r)
  BY <1>4 DEF Forward
<1> QED BY <1>3, <1>5

\* INGRESS
LEMMA AddFactsSound ==
  ASSUME NEW s, NEW D, NEW A, NEW F \in SUBSET Fact, JournalSound(s, D, A), ~Overflow(s, F)
  PROVE  JournalSound(AddFacts(s, F), D, A) /\ Forward(s, AddFacts(s, F))
<1> DEFINE r == AddFacts(s, F)
<1>1. s \in StateType
  BY DEF JournalSound
<1>2. /\ r \in StateType /\ r.commands = s.commands /\ r.conflict = s.conflict
      /\ r.facts = s.facts \cup F /\ r.pending = s.pending \cup (F \ s.facts)
  BY <1>1 DEF AddFacts, New, StateType
<1> HIDE DEF r
<1>3. Cardinality(r.pending) <= Capacity
  BY <1>1, <1>2, PendingBound DEF Overflow, New, StateType
<1>4. r.facts \subseteq r.pending \cup A /\ r.pending \cap s.facts \subseteq s.pending
  BY <1>2 DEF JournalSound
<1>5. JournalSound(r, D, A) /\ Forward(s, r)
  BY <1>2, <1>3, <1>4, FactsChange
<1> QED BY <1>5 DEF r

\* ACK
LEMMA AcknowledgedSound ==
  ASSUME NEW s, NEW D, NEW A, NEW f \in A, JournalSound(s, D, A)
  PROVE  /\ JournalSound([s EXCEPT !.pending = @ \ {f}], D, A)
         /\ Forward(s, [s EXCEPT !.pending = @ \ {f}])
<1> DEFINE r == [s EXCEPT !.pending = @ \ {f}]
<1>1. s \in StateType
  BY DEF JournalSound
<1>2. /\ r \in StateType /\ r.commands = s.commands /\ r.conflict = s.conflict
      /\ r.facts = s.facts /\ r.pending = s.pending \ {f}
  BY <1>1 DEF StateType
<1> HIDE DEF r
<1>3. Cardinality(r.pending) <= Capacity
  BY <1>1, <1>2, PendingShrinks DEF JournalSound, StateType
<1>4. r.facts \subseteq r.pending \cup A /\ r.pending \cap s.facts \subseteq s.pending
  BY <1>2 DEF JournalSound
<1>5. JournalSound(r, D, A) /\ Forward(s, r)
  BY <1>2, <1>3, <1>4, FactsChange
<1> QED BY <1>5 DEF r

\* CONFLICT
LEMMA LatchedSound ==
  ASSUME NEW s, NEW D, NEW A, JournalSound(s, D, A)
  PROVE  /\ JournalSound([s EXCEPT !.conflict = TRUE], D, A)
         /\ Forward(s, [s EXCEPT !.conflict = TRUE])
<1> DEFINE r == [s EXCEPT !.conflict = TRUE]
<1>1. s \in StateType
  BY DEF JournalSound
<1>2. /\ r \in StateType /\ r.commands = s.commands /\ r.conflict
      /\ r.facts = s.facts /\ r.pending = s.pending
  BY <1>1 DEF StateType
<1> HIDE DEF r
<1>5. JournalSound(r, D, A) /\ Forward(s, r)
  BY <1>2, FactsChange DEF JournalSound
<1> QED BY <1>5 DEF r

\* Commands that stay recorded with the same payload stay distinct.
LEMMA PairsKept ==
  ASSUME NEW f, NEW g, NEW i \in Ids, f[i].state # "Absent", g[i].command = f[i].command,
         \A j \in Ids : j # i => g[j] = f[j],
         \A j, k \in Ids : j # k => PairSound(f[j], f[k])
  PROVE  \A j, k \in Ids : j # k => PairSound(g[j], g[k])
<1> SUFFICES ASSUME NEW j \in Ids, NEW k \in Ids, j # k
             PROVE  PairSound(g[j], g[k])
  OBVIOUS
<1>1. PairSound(f[j], f[k])
  OBVIOUS
<1>2. CASE j # i /\ k # i
  BY <1>1, <1>2
<1>3. CASE j = i /\ k # i
  BY <1>1, <1>3 DEF PairSound
<1>4. CASE j # i /\ k = i
  BY <1>1, <1>4 DEF PairSound
<1> QED BY <1>2, <1>3, <1>4

\* DISCOVERY: the entry keeps all facts ever reported, and takes in the new.
LEMMA DiscoveredSound ==
  ASSUME NEW s, NEW D \in [Ids -> SUBSET Fact], NEW A, NEW i \in Ids, NEW d \in Answer,
         JournalSound(s, D, A), DiscoveryValid(s, i, d),
         ~Overflow(s, Cumulative(s.commands[i], d).facts)
  PROVE  /\ JournalSound(Discovered(s, i, d), [D EXCEPT ![i] = @ \cup d.facts], A)
         /\ Forward(s, Discovered(s, i, d))
<1> DEFINE c == Cumulative(s.commands[i], d)
           e == [s.commands[i] EXCEPT !.state = "Reconciling", !.discovery = c]
           r == Discovered(s, i, d)
           E == [D EXCEPT ![i] = @ \cup d.facts]
<1>1. s \in StateType /\ s.commands[i] \in EntryType /\ EntrySound(s, i, D, A)
  BY DEF JournalSound, StateType
<1>2. d \in AnswerType
  BY BrokerAssumption
<1>3. s.commands[i].discovery \in AnswerType \cup {None}
  BY <1>1 DEF EntryType
<1>4. c \in AnswerType /\ c.facts = E[i]
  <2>1. CASE s.commands[i].discovery = None
    BY <2>1, <1>1, <1>2 DEF Cumulative, EntrySound, AnswerType
  <2>2. CASE s.commands[i].discovery # None
    BY <2>2, <1>1, <1>2, <1>3 DEF Cumulative, EntrySound, AnswerType
  <2> QED BY <2>1, <2>2
<1>5. c # None /\ c.facts \subseteq Fact
  BY <1>4, BrokerAssumption DEF AnswerType
<1> HIDE DEF c
<1>6. /\ e \in EntryType /\ e.state = "Reconciling" /\ e.discovery = c
      /\ e.command = s.commands[i].command /\ e.txn = s.commands[i].txn
  BY <1>1, <1>4 DEF EntryType, States
<1>7. r = AddFacts(SetEntry(s, i, e), c.facts)
  BY DEF Discovered, c
<1>8. /\ r \in StateType /\ r.commands = [s.commands EXCEPT ![i] = e]
      /\ r.conflict = s.conflict /\ r.facts = s.facts \cup c.facts
      /\ r.pending = s.pending \cup (c.facts \ s.facts)
  <2> HIDE DEF e, r
  <2> QED BY <1>1, <1>5, <1>6, <1>7 DEF AddFacts, SetEntry, New, StateType
<1>9. r.commands[i] = e /\ \A j \in Ids : j # i => r.commands[j] = s.commands[j]
  <2> HIDE DEF e, r
  <2> QED BY <1>1, <1>8 DEF StateType
<1>10. \A j \in Ids : j # i => E[j] = D[j]
  OBVIOUS
<1> HIDE DEF e, r, E
<1>11. Cardinality(r.pending) <= Capacity
  BY <1>1, <1>5, <1>8, PendingBound DEF Overflow, New, StateType, c
<1>12. s.commands[i].state \in Discovering
  BY DEF DiscoveryValid
<1>13. \A j \in Ids : EntrySound(r, j, E, A)
  <2>1. EntrySound(r, i, E, A)
    BY <1>1, <1>4, <1>5, <1>6, <1>8, <1>9, <1>12 DEF EntrySound, Discovering
  <2>2. ASSUME NEW j \in Ids, j # i PROVE EntrySound(r, j, E, A)
    <3>1. EntrySound(s, j, D, A)
      BY DEF JournalSound
    <3> QED BY <3>1, <2>2, <1>8, <1>9, <1>10 DEF EntrySound
  <2> QED BY <2>1, <2>2
<1>14. \A j, k \in Ids : j # k => PairSound(r.commands[j], r.commands[k])
  <2>1. s.commands[i].state # "Absent" /\ r.commands[i].command = s.commands[i].command
    BY <1>6, <1>9, <1>12 DEF Discovering
  <2> QED BY <2>1, <1>9, PairsKept DEF JournalSound
<1>15. r.facts \subseteq r.pending \cup A
  BY <1>8 DEF JournalSound
<1>16. JournalSound(r, E, A)
  BY <1>8, <1>11, <1>13, <1>14, <1>15 DEF JournalSound
<1>17. Forward(s, s)
  BY <1>1, ForwardReflexive
<1>18. EntryForward(s.commands[i], e)
  BY <1>5, <1>6, <1>12 DEF EntryForward, Rank, Discovering
<1>19. Forward(s, r)
  BY <1>8, <1>9, <1>17, <1>18 DEF Forward
<1> QED BY <1>16, <1>19 DEF r, E

\* RESOLVE: the Runtime has applied all facts that leave the pending set.
LEMMA ResolvedSound ==
  ASSUME NEW s, NEW D \in [Ids -> SUBSET Fact], NEW A, NEW i \in Ids, JournalSound(s, D, A),
         s.commands[i].state = "Reconciling", s.commands[i].discovery # None,
         s.commands[i].discovery.facts \subseteq A
  PROVE  JournalSound(Resolved(s, i), D, A) /\ Forward(s, Resolved(s, i))
<1> DEFINE e == [s.commands[i] EXCEPT !.state = "Resolved"]
           r == Resolved(s, i)
<1>1. s \in StateType /\ s.commands[i] \in EntryType /\ EntrySound(s, i, D, A)
  BY DEF JournalSound, StateType
<1>2. s.commands[i].discovery.facts = D[i] /\ D[i] \subseteq A
  BY <1>1 DEF EntrySound
<1>3. /\ e \in EntryType /\ e.state = "Resolved" /\ e.discovery = s.commands[i].discovery
      /\ e.command = s.commands[i].command /\ e.txn = s.commands[i].txn
  BY <1>1 DEF EntryType, States
<1>4. /\ r \in StateType /\ r.commands = [s.commands EXCEPT ![i] = e]
      /\ r.conflict = s.conflict /\ r.facts = s.facts /\ r.pending = s.pending \ D[i]
  BY <1>1, <1>2, <1>3 DEF Resolved, SetEntry, StateType
<1>5. r.commands[i] = e /\ \A j \in Ids : j # i => r.commands[j] = s.commands[j]
  <2> HIDE DEF e, r
  <2> QED BY <1>1, <1>4 DEF StateType
<1> HIDE DEF e, r
<1>6. Cardinality(r.pending) <= Capacity
  BY <1>1, <1>4, PendingShrinks DEF JournalSound, StateType
<1>7. \A j \in Ids : EntrySound(r, j, D, A)
  <2>1. EntrySound(r, i, D, A)
    BY <1>1, <1>2, <1>3, <1>4, <1>5 DEF EntrySound
  <2>2. ASSUME NEW j \in Ids, j # i PROVE EntrySound(r, j, D, A)
    <3>1. EntrySound(s, j, D, A)
      BY DEF JournalSound
    <3> QED BY <3>1, <2>2, <1>4, <1>5 DEF EntrySound
  <2> QED BY <2>1, <2>2
<1>8. \A j, k \in Ids : j # k => PairSound(r.commands[j], r.commands[k])
  <2>1. s.commands[i].state # "Absent" /\ r.commands[i].command = s.commands[i].command
    BY <1>3, <1>5
  <2> QED BY <2>1, <1>5, PairsKept DEF JournalSound
<1>9. JournalSound(r, D, A)
  BY <1>2, <1>4, <1>6, <1>7, <1>8 DEF JournalSound
<1>10. Forward(s, s)
  BY <1>1, ForwardReflexive
<1>11. EntryForward(s.commands[i], e)
  BY <1>3 DEF EntryForward, Rank
<1>12. Forward(s, r)
  BY <1>4, <1>5, <1>10, <1>11 DEF Forward
<1> QED BY <1>9, <1>12 DEF r

\* What the Runtime applies later does not disturb a sound journal.
LEMMA AppliedGrows ==
  ASSUME NEW s, NEW D, NEW A, NEW B, A \subseteq B, JournalSound(s, D, A)
  PROVE  JournalSound(s, D, B)
BY DEF JournalSound, EntrySound

-----------------------------------------------------------------------------
(* Steps *)

\* A process that is not sending owes nothing to the journal.
LEMMA QuietCall ==
  ASSUME proc' \in ProcType, proc'.at \in {"idle", "latch"}
  PROVE  CallSound'
BY DEF CallSound, Sending

\* Records of handed commands stay as the journal moves forward.
LEMMA HandedKept ==
  ASSUME HandedSound, handed' = handed, Forward(journal, journal'),
         journal \in StateType, journal' \in StateType
  PROVE  HandedSound'
<1> SUFFICES ASSUME NEW k \in 1..Len(handed)
             PROVE  /\ journal'.commands[handed[k].id].command = handed[k]
                    /\ journal'.commands[handed[k].id].state \notin {"Absent", "Durable"}
  BY DEF HandedSound, HandedIsRecorded
<1> DEFINE i == handed[k].id
<1>1. i \in Ids
  BY IdOfCommand DEF HandedSound
<1>2. /\ journal.commands[i].command = handed[k]
      /\ journal.commands[i].state \notin {"Absent", "Durable"}
  BY DEF HandedSound, HandedIsRecorded
<1>3. EntryForward(journal.commands[i], journal'.commands[i])
  BY <1>1 DEF Forward
<1>4. journal.commands[i].state \in States /\ journal'.commands[i].state \in States
  BY <1>1 DEF StateType, EntryType
<1> QED BY <1>2, <1>3, <1>4 DEF EntryForward, Rank, States

\* What a failed append leaves of the process.
LEMMA IdleType ==
  ASSUME NEW p \in ProcType
  PROVE  /\ Idle([p EXCEPT !.healthy = FALSE]) \in ProcType
         /\ Idle([p EXCEPT !.healthy = FALSE]).at = "idle"
         /\ Idle(p) \in ProcType
         /\ Idle(p).at = "idle"
BY DEF Idle, ProcType

\* A quiet process after a write of a sound state r, successful or not.
LEMMA QuietWrite ==
  ASSUME BrokerInv, NEW r, NEW p \in ProcType, Write(r, p), p.at \in {"idle", "latch"},
         UNCHANGED <<handed, applied>>, discovered' \in [Ids -> SUBSET Fact],
         JournalSound(journal', discovered', applied), Forward(journal, r)
  PROVE  BrokerInv' /\ Forward(journal, journal')
<1>1. journal \in StateType /\ journal' \in StateType
  BY DEF BrokerInv, JournalSound
<1>2. journal' \in {journal, r} /\ Forward(journal, journal')
  BY <1>1, ForwardReflexive DEF Write
<1>3. proc' \in ProcType /\ proc'.at \in {"idle", "latch"}
  <2>1. CASE proc' = p
    BY <2>1
  <2>2. CASE proc' = Idle([p EXCEPT !.healthy = FALSE])
    BY <2>2, IdleType
  <2> QED BY <2>1, <2>2 DEF Write
<1>4. HandedSound'
  BY <1>1, <1>2, HandedKept DEF BrokerInv
<1>5. CallSound'
  BY <1>3, QuietCall
<1> QED BY <1>2, <1>4, <1>5 DEF BrokerInv

\* The invariant after a step that leaves the journal alone.
LEMMA QuietStep ==
  ASSUME BrokerInv, proc' \in ProcType, proc'.at \in {"idle", "latch"},
         UNCHANGED <<journal, handed, discovered>>,
         applied \subseteq applied', applied' \subseteq Fact
  PROVE  BrokerInv' /\ Forward(journal, journal')
<1>1. journal \in StateType
  BY DEF BrokerInv, JournalSound
<1>2. Forward(journal, journal')
  BY <1>1, ForwardReflexive
<1>3. JournalSound(journal', discovered', applied')
  BY AppliedGrows DEF BrokerInv
<1>4. HandedSound'
  BY <1>1, <1>2, HandedKept DEF BrokerInv
<1>5. CallSound'
  BY QuietCall
<1> QED BY <1>2, <1>3, <1>4, <1>5 DEF BrokerInv

\* Initially nothing is recorded, pending or handed over.
LEMMA InitBroker == Init => BrokerInv
<1> SUFFICES ASSUME Init PROVE BrokerInv
  OBVIOUS
<1>1. EmptyState \in StateType
  BY DEF EmptyState, NoEntry, StateType, EntryType, States
<1>2. JournalSound(EmptyState, discovered, applied)
  <2>1. Cardinality(EmptyState.pending) <= Capacity
    BY FS_EmptySet, BrokerAssumption DEF EmptyState
  <2> QED BY <1>1, <2>1 DEF JournalSound, EntrySound, PairSound, EmptyState, NoEntry, Init
<1>3. CallSound
  BY <1>1 DEF CallSound, Init, Recovered, ProcType, Sending
<1>4. HandedSound
  BY DEF HandedSound, HandedIsRecorded, Init
<1> QED BY <1>2, <1>3, <1>4 DEF BrokerInv, Init

\* dispatch, before its first append: the check of readiness is fresh.
LEMMA DispatchBeginStep ==
  ASSUME BrokerInv, NEW c \in Command, NEW t \in Txn, DispatchBegin(c, t)
  PROVE  BrokerInv' /\ Forward(journal, journal')
<1>1. journal \in StateType /\ proc \in ProcType
  BY DEF BrokerInv, JournalSound, CallSound
<1> DEFINE n == IF journal.commands[c.id].state = "Absent" THEN "intent" ELSE "dispatch"
<1>2. /\ proc' \in ProcType /\ proc'.command = c /\ proc'.txn = t /\ proc'.at = n
      /\ UNCHANGED <<journal, handed, applied, discovered>>
  BY <1>1 DEF DispatchBegin, ProcType
<1>3. Forward(journal, journal')
  BY <1>1, <1>2, ForwardReflexive
<1>4. CallSound'
  <2>1. journal.commands[c.id].state \in {"Absent", "Durable"}
    BY DEF DispatchBegin, MayDispatch
  <2>2. n = "dispatch" => journal.commands[c.id].state = "Durable" /\ journal.commands[c.id].command = c
    BY <2>1 DEF DispatchBegin, MayDispatch
  <2>3. c.op = "SUBMIT" => /\ ~journal.conflict
                           /\ \A i \in Ids : journal.commands[i].state \notin Uncertain
    BY DEF DispatchBegin, MayDispatch, Ready
  <2> QED BY <1>2, <2>1, <2>2, <2>3 DEF CallSound, Sending
<1>5. HandedSound'
  BY <1>1, <1>2, <1>3, HandedKept DEF BrokerInv
<1> QED BY <1>2, <1>3, <1>4, <1>5 DEF BrokerInv

\* An append of dispatch either leaves a quiet process or takes effect.
LEMMA DispatchWrite ==
  ASSUME BrokerInv, NEW r, NEW p \in ProcType, Write(r, p),
         UNCHANGED <<handed, applied, discovered>>,
         JournalSound(r, discovered, applied), Forward(journal, r)
  PROVE  /\ JournalSound(journal', discovered', applied') /\ Forward(journal, journal')
         /\ HandedSound'
         /\ \/ CallSound'
            \/ journal' = r /\ proc' = p
<1>1. journal \in StateType /\ r \in StateType
  BY DEF BrokerInv, JournalSound
<1>2. journal' \in {journal, r} /\ Forward(journal, journal')
  BY <1>1, ForwardReflexive DEF Write
<1>3. JournalSound(journal', discovered', applied')
  BY <1>2 DEF BrokerInv
<1>4. HandedSound'
  BY <1>1, <1>2, HandedKept DEF BrokerInv
<1>5. CASE proc' = Idle([p EXCEPT !.healthy = FALSE])
  BY <1>2, <1>3, <1>4, <1>5, IdleType, QuietCall
<1>6. CASE journal' = r /\ proc' = p
  BY <1>6, <1>2, <1>3, <1>4
<1> QED BY <1>5, <1>6 DEF Write

\* INTENT is appended, refused or lost.
LEMMA AppendIntentStep ==
  ASSUME BrokerInv, AppendIntent
  PROVE  BrokerInv' /\ Forward(journal, journal')
<1> DEFINE c == proc.command
           t == proc.txn
           r == Intended(journal, c, t)
           p == [proc EXCEPT !.at = "dispatch"]
<1>1. /\ proc \in ProcType /\ proc.at = "intent" /\ c \in Command /\ t \in Txn
      /\ journal \in StateType
  BY DEF BrokerInv, CallSound, AppendIntent, Running, Sending, JournalSound
<1>2. c.id \in Ids
  BY <1>1, IdOfCommand
<1>3. CASE ~IntentValid(journal, c)
  <2>1. proc' = Idle(proc) /\ UNCHANGED <<journal, handed, applied, discovered>>
    BY <1>3 DEF AppendIntent, Return
  <2>2. proc' \in ProcType /\ proc'.at = "idle"
    BY <1>1, <2>1, IdleType
  <2> QED BY <2>1, <2>2, QuietStep DEF BrokerInv
<1>4. CASE IntentValid(journal, c)
  <2>1. /\ Write(r, p) /\ UNCHANGED <<handed, applied, discovered>>
    BY <1>4 DEF AppendIntent
  <2>2. /\ JournalSound(r, discovered, applied) /\ Forward(journal, r)
        /\ r.commands[c.id].state = "Durable" /\ r.commands[c.id].command = c
        /\ \A j \in Ids : j # c.id => r.commands[j] = journal.commands[j]
        /\ r.conflict = journal.conflict
    BY <1>1, <1>4, IntendedSound DEF BrokerInv
  <2>3. p \in ProcType /\ p.at = "dispatch" /\ p.command = c /\ p.txn = t
    BY <1>1 DEF ProcType
  <2>5. c.op = "SUBMIT" =>
          /\ ~journal.conflict
          /\ \A i \in Ids \ {c.id} : journal.commands[i].state \notin Uncertain
    BY <1>1 DEF BrokerInv, CallSound, Sending
  <2> HIDE DEF r, p
  <2>6. CASE journal' = r /\ proc' = p
    <3> HIDE DEF c, t
    <3>1. proc' \in ProcType /\ proc'.at = "dispatch" /\ proc'.command = c /\ proc'.txn = t
      BY <2>3, <2>6
    <3>2. CallSound'
      BY <3>1, <1>1, <1>2, <2>2, <2>5, <2>6 DEF CallSound, Sending
    <3> QED BY <3>2, <2>1, <2>2, <2>3, DispatchWrite DEF BrokerInv
  <2>7. CASE CallSound'
    BY <2>7, <2>1, <2>2, <2>3, DispatchWrite DEF BrokerInv
  <2> QED BY <2>1, <2>2, <2>3, <2>6, <2>7, DispatchWrite
<1> QED BY <1>3, <1>4

\* DISPATCHED is appended or lost; the command was never handed over before.
LEMMA AppendDispatchedStep ==
  ASSUME BrokerInv, AppendDispatched
  PROVE  BrokerInv' /\ Forward(journal, journal')
<1> DEFINE c == proc.command
           r == Dispatched(journal, c.id)
           p == [proc EXCEPT !.at = "send"]
<1>1. /\ proc \in ProcType /\ proc.at = "dispatch" /\ c \in Command /\ proc.txn \in Txn
      /\ journal \in StateType
      /\ journal.commands[c.id].state = "Durable" /\ journal.commands[c.id].command = c
  BY DEF BrokerInv, CallSound, AppendDispatched, Running, Sending, JournalSound
<1>2. c.id \in Ids
  BY <1>1, IdOfCommand
<1>3. Write(r, p) /\ UNCHANGED <<handed, applied, discovered>>
  BY DEF AppendDispatched
<1>4. /\ JournalSound(r, discovered, applied) /\ Forward(journal, r)
      /\ r.commands[c.id].state = "Unknown"
      /\ \A j \in Ids : j # c.id => r.commands[j] = journal.commands[j]
      /\ r.conflict = journal.conflict
  BY <1>1, <1>2, DispatchedSound DEF BrokerInv
<1>5. r.commands[c.id].command = c
  BY <1>1, <1>2, <1>4 DEF Forward, EntryForward
<1>6. p \in ProcType /\ p.at = "send" /\ p.command = c /\ p.txn = proc.txn
  BY <1>1 DEF ProcType
<1>8. c.op = "SUBMIT" =>
        /\ ~journal.conflict
        /\ \A i \in Ids \ {c.id} : journal.commands[i].state \notin Uncertain
  BY <1>1 DEF BrokerInv, CallSound, Sending
<1>9. \A k \in 1..Len(handed) : handed[k].id # c.id
  BY <1>1 DEF BrokerInv, HandedSound, HandedIsRecorded
<1> HIDE DEF r, p
<1>10. CASE journal' = r /\ proc' = p
  <2> HIDE DEF c
  <2>1. /\ proc' \in ProcType /\ proc'.at = "send" /\ proc'.command = c /\ proc'.txn = proc.txn
        /\ handed' = handed
    BY <1>3, <1>6, <1>10
  <2>2. CallSound'
    BY <2>1, <1>1, <1>2, <1>4, <1>5, <1>8, <1>9, <1>10 DEF CallSound, Sending
  <2> QED BY <2>2, <1>3, <1>4, <1>6, DispatchWrite DEF BrokerInv
<1>11. CASE CallSound'
  BY <1>11, <1>3, <1>4, <1>6, DispatchWrite DEF BrokerInv
<1> QED BY <1>3, <1>4, <1>6, <1>10, <1>11, DispatchWrite

\* The adapter is called; the journal already knows.
LEMMA SendStep ==
  ASSUME BrokerInv, NEW o \in {"RECEIVED", "REJECTED", "UNKNOWN"}, Send(o)
  PROVE  BrokerInv' /\ Forward(journal, journal')
<1> DEFINE c == proc.command
<1>1. /\ proc \in ProcType /\ proc.at = "send" /\ c \in Command /\ proc.txn \in Txn
      /\ journal \in StateType
      /\ journal.commands[c.id].state = "Unknown" /\ journal.commands[c.id].command = c
      /\ \A k \in 1..Len(handed) : handed[k].id # c.id
  BY DEF BrokerInv, CallSound, Send, Running, Sending, JournalSound
<1>2. /\ proc' \in ProcType /\ proc'.at = "result" /\ proc'.command = c /\ proc'.txn = proc.txn
      /\ UNCHANGED <<journal, applied, discovered>>
  BY <1>1 DEF Send, ProcType
<1>3. /\ handed \in Seq(Command) /\ handed' = handed \o <<c>>
      /\ HandedIsRecorded
      /\ \A j, k \in 1..Len(handed) : j < k => handed[j].id # handed[k].id
  BY DEF Send, BrokerInv, HandedSound
<1> HIDE DEF c
<1>4. /\ handed' \in Seq(Command) /\ Len(handed') = Len(handed) + 1 /\ Len(handed) \in Nat
      /\ handed'[Len(handed) + 1] = c
      /\ \A k \in 1..Len(handed) : handed'[k] = handed[k]
  BY <1>1, <1>3
<1>5. HandedSound'
  <2>1. \A k \in 1..Len(handed') : k \in 1..Len(handed) \/ k = Len(handed) + 1
    BY <1>4
  <2>2. HandedIsRecorded'
    BY <1>1, <1>2, <1>3, <1>4, <2>1 DEF HandedIsRecorded
  <2>3. \A j, k \in 1..Len(handed') : j < k => handed'[j].id # handed'[k].id
    <3> SUFFICES ASSUME NEW j \in 1..Len(handed'), NEW k \in 1..Len(handed'), j < k
                 PROVE  handed'[j].id # handed'[k].id
      OBVIOUS
    <3>1. j \in 1..Len(handed) /\ handed'[j] = handed[j]
      BY <1>4, <2>1
    <3>2. CASE k \in 1..Len(handed)
      BY <1>3, <1>4, <3>1, <3>2
    <3>3. CASE k = Len(handed) + 1
      BY <1>1, <1>4, <3>1, <3>3
    <3> QED BY <2>1, <3>2, <3>3
  <2> QED BY <1>4, <2>2, <2>3 DEF HandedSound
<1>6. CallSound'
  BY <1>1, <1>2 DEF CallSound, Sending
<1>7. Forward(journal, journal')
  BY <1>1, <1>2, ForwardReflexive
<1> QED BY <1>2, <1>5, <1>6, <1>7 DEF BrokerInv

\* RESULT is appended or lost.
LEMMA AppendResultStep ==
  ASSUME BrokerInv, AppendResult
  PROVE  BrokerInv' /\ Forward(journal, journal')
<1> DEFINE i == proc.command.id
           r == Answered(journal, i, proc.outcome)
<1>1. /\ proc \in ProcType /\ proc.command \in Command /\ journal \in StateType
  BY DEF BrokerInv, CallSound, AppendResult, Running, Sending, JournalSound
<1>2. i \in Ids
  BY <1>1, IdOfCommand
<1>3. CASE ~ResultValid(journal, i)
  <2>1. proc' = Idle(proc) /\ UNCHANGED <<journal, handed, applied, discovered>>
    BY <1>3 DEF AppendResult, Return
  <2>2. proc' \in ProcType /\ proc'.at = "idle"
    BY <1>1, <2>1, IdleType
  <2> QED BY <2>1, <2>2, QuietStep DEF BrokerInv
<1>4. CASE ResultValid(journal, i)
  <2>1. Write(r, Idle(proc)) /\ UNCHANGED <<handed, applied, discovered>>
    BY <1>4 DEF AppendResult
  <2>2. JournalSound(r, discovered, applied) /\ Forward(journal, r)
    BY <1>2, <1>4, AnsweredSound DEF BrokerInv
  <2>3. Idle(proc) \in ProcType /\ Idle(proc).at = "idle"
    BY <1>1 DEF Idle, ProcType
  <2>4. journal' \in {journal, r}
    BY <2>1 DEF Write
  <2> HIDE DEF r
  <2> QED BY <2>1, <2>2, <2>3, <2>4, QuietWrite DEF BrokerInv
<1> QED BY <1>3, <1>4

\* A batch of facts is taken in, lost, refused, or found in conflict.
LEMMA IngestStep ==
  ASSUME BrokerInv, NEW F \in SUBSET Fact, Ingest(F)
  PROVE  BrokerInv' /\ Forward(journal, journal')
<1>1. /\ proc \in ProcType /\ proc.at = "idle" /\ journal \in StateType
      /\ UNCHANGED <<handed, applied, discovered>>
  BY DEF BrokerInv, CallSound, Ingest, Running, JournalSound
<1>2. CASE ~Overflow(journal, F) /\ Write(AddFacts(journal, F), proc)
  <2>1. JournalSound(AddFacts(journal, F), discovered, applied) /\ Forward(journal, AddFacts(journal, F))
    BY <1>2, AddFactsSound DEF BrokerInv
  <2>2. journal' \in {journal, AddFacts(journal, F)}
    BY <1>2 DEF Write
  <2> QED BY <1>1, <1>2, <2>1, <2>2, QuietWrite DEF BrokerInv
<1>3. CASE proc' = [proc EXCEPT !.at = "latch"] /\ UNCHANGED journal
  <2>1. proc' \in ProcType /\ proc'.at = "latch"
    BY <1>1, <1>3 DEF ProcType
  <2> QED BY <1>1, <1>3, <2>1, QuietStep DEF BrokerInv
<1>4. CASE proc' = [proc EXCEPT !.healthy = FALSE] /\ UNCHANGED journal
  <2>1. proc' \in ProcType /\ proc'.at = "idle"
    BY <1>1, <1>4 DEF ProcType
  <2> QED BY <1>1, <1>4, <2>1, QuietStep DEF BrokerInv
<1> QED BY <1>2, <1>3, <1>4 DEF Ingest

\* A conflict is latched, or the attempt is lost.
LEMMA LatchStep ==
  ASSUME BrokerInv, Latch
  PROVE  BrokerInv' /\ Forward(journal, journal')
<1> DEFINE r == [journal EXCEPT !.conflict = TRUE]
<1>1. proc \in ProcType /\ Write(r, Idle(proc)) /\ UNCHANGED <<handed, applied, discovered>>
  BY DEF BrokerInv, CallSound, Latch
<1>2. JournalSound(r, discovered, applied) /\ Forward(journal, r)
  BY LatchedSound DEF BrokerInv
<1>3. Idle(proc) \in ProcType /\ Idle(proc).at = "idle"
  BY <1>1 DEF Idle, ProcType
<1>4. journal' \in {journal, r}
  BY <1>1 DEF Write
<1> HIDE DEF r
<1> QED BY <1>1, <1>2, <1>3, <1>4, QuietWrite DEF BrokerInv

\* A fact the Runtime has applied leaves the pending set, or not yet.
LEMMA AcknowledgeStep ==
  ASSUME BrokerInv, NEW f \in Fact, Acknowledge(f)
  PROVE  BrokerInv' /\ Forward(journal, journal')
<1> DEFINE r == [journal EXCEPT !.pending = @ \ {f}]
<1>1. /\ proc \in ProcType /\ proc.at = "idle" /\ f \in applied
      /\ Write(r, proc) /\ UNCHANGED <<handed, applied, discovered>>
  BY DEF BrokerInv, CallSound, Acknowledge, Running
<1>2. JournalSound(r, discovered, applied) /\ Forward(journal, r)
  BY <1>1, AcknowledgedSound DEF BrokerInv
<1>3. journal' \in {journal, r}
  BY <1>1 DEF Write
<1> HIDE DEF r
<1> QED BY <1>1, <1>2, <1>3, QuietWrite DEF BrokerInv

\* A discovery is recorded with its facts, lost, refused or in conflict.
LEMMA ReconcileStep ==
  ASSUME BrokerInv, NEW i \in Ids, NEW d \in Answer, Reconcile(i, d)
  PROVE  BrokerInv' /\ Forward(journal, journal')
<1> DEFINE F == Cumulative(journal.commands[i], d).facts
           p == [proc EXCEPT !.healthy = FALSE]
           r == Discovered(journal, i, d)
           E == [discovered EXCEPT ![i] = @ \cup d.facts]
<1>1. /\ proc \in ProcType /\ proc.at = "idle" /\ journal \in StateType
      /\ UNCHANGED <<handed, applied>> /\ discovered \in [Ids -> SUBSET Fact]
  BY DEF BrokerInv, CallSound, Reconcile, Running, JournalSound
<1>2. p \in ProcType /\ p.at = "idle"
  BY <1>1 DEF ProcType
<1>3. d.facts \subseteq Fact
  BY BrokerAssumption DEF AnswerType
<1>4. CASE /\ DiscoveryValid(journal, i, d) /\ ~Overflow(journal, F)
           /\ Write(r, p)
           /\ discovered' = IF journal' = journal THEN discovered ELSE E
  <2>1. JournalSound(r, E, applied) /\ Forward(journal, r)
    BY <1>1, <1>4, DiscoveredSound DEF BrokerInv
  <2>2. journal' \in {journal, r}
    BY <1>4 DEF Write
  <2>3. E \in [Ids -> SUBSET Fact]
    BY <1>1, <1>3
  <2> HIDE DEF r, E, p
  <2>4. JournalSound(journal', discovered', applied) /\ discovered' \in [Ids -> SUBSET Fact]
    BY <1>1, <1>4, <2>1, <2>2, <2>3 DEF BrokerInv
  <2> QED BY <1>1, <1>2, <1>4, <2>1, <2>4, QuietWrite
<1>5. CASE proc' = [p EXCEPT !.at = "latch"] /\ UNCHANGED <<journal, discovered>>
  <2>1. proc' \in ProcType /\ proc'.at = "latch"
    BY <1>2, <1>5 DEF ProcType
  <2> QED BY <1>1, <1>5, <2>1, QuietStep DEF BrokerInv
<1>6. CASE proc' = p /\ UNCHANGED <<journal, discovered>>
  BY <1>1, <1>2, <1>6, QuietStep DEF BrokerInv
<1> QED BY <1>4, <1>5, <1>6 DEF Reconcile

\* A command is resolved, or the record is lost.
LEMMA ResolveStep ==
  ASSUME BrokerInv, NEW i \in Ids, NEW d \in Answer, NEW v, Resolve(i, d, v)
  PROVE  BrokerInv' /\ Forward(journal, journal')
<1> DEFINE r == Resolved(journal, i)
<1>1. /\ proc \in ProcType /\ proc.at = "idle" /\ discovered \in [Ids -> SUBSET Fact]
      /\ Write(r, proc) /\ UNCHANGED <<handed, applied, discovered>>
      /\ journal.commands[i].state = "Reconciling" /\ journal.commands[i].discovery # None
      /\ journal.commands[i].discovery.facts \subseteq applied
  BY DEF BrokerInv, CallSound, Resolve, ResolveValid, Running
<1>2. JournalSound(r, discovered, applied) /\ Forward(journal, r)
  BY <1>1, ResolvedSound DEF BrokerInv
<1>3. journal' \in {journal, r}
  BY <1>1 DEF Write
<1> HIDE DEF r
<1> QED BY <1>1, <1>2, <1>3, QuietWrite DEF BrokerInv

\* Failed reads, health, crashes and restarts.
LEMMA QuietActions ==
  ASSUME BrokerInv,
         \/ RefreshFails
         \/ \E x \in {"Disconnected", "Ready"} : SetConnection(x)
         \/ \E x \in BOOLEAN : SetHealth(x)
         \/ Crash
         \/ Recover
  PROVE  BrokerInv' /\ Forward(journal, journal')
<1>1. proc \in ProcType /\ journal \in StateType
  BY DEF BrokerInv, CallSound, JournalSound
<1>2. UNCHANGED <<journal, handed, applied, discovered>>
  BY DEF RefreshFails, SetConnection, SetHealth, Crash, Recover
<1>3. proc' \in ProcType /\ proc'.at = "idle"
  <2>1. CASE RefreshFails
    BY <2>1, <1>1 DEF RefreshFails, Running, ProcType
  <2>3. ASSUME NEW x \in {"Disconnected", "Ready"}, SetConnection(x)
        PROVE  proc' \in ProcType /\ proc'.at = "idle"
    BY <2>3, <1>1 DEF SetConnection, Running, ProcType
  <2>4. ASSUME NEW x \in BOOLEAN, SetHealth(x)
        PROVE  proc' \in ProcType /\ proc'.at = "idle"
    BY <2>4, <1>1 DEF SetHealth, Running, ProcType
  <2>5. CASE Crash
    BY <2>5 DEF Crash, Stopped, Recovered, ProcType
  <2>6. CASE Recover
    BY <2>6, <1>1 DEF Recover, Recovered, ProcType
  <2> QED BY <2>1, <2>3, <2>4, <2>5, <2>6
<1> QED BY <1>2, <1>3, QuietStep DEF BrokerInv

\* The Runtime applies a fact while any call may be under way.
LEMMA RuntimeStep ==
  ASSUME BrokerInv, NEW f \in Fact, RuntimeApplies(f)
  PROVE  BrokerInv' /\ Forward(journal, journal')
<1>1. /\ UNCHANGED <<journal, proc, handed, discovered>> /\ journal \in StateType
      /\ applied \subseteq applied' /\ applied' \subseteq Fact
  BY DEF RuntimeApplies, BrokerInv, JournalSound
<1>2. JournalSound(journal', discovered', applied')
  BY <1>1, AppliedGrows DEF BrokerInv
<1>3. CallSound' /\ HandedSound'
  BY <1>1 DEF BrokerInv, CallSound, HandedSound, HandedIsRecorded
<1>4. Forward(journal, journal')
  BY <1>1, ForwardReflexive
<1> QED BY <1>1, <1>2, <1>3, <1>4 DEF BrokerInv

\* Every step keeps the invariant and moves the journal forward.
LEMMA BrokerStep ==
  ASSUME BrokerInv, [Next]_vars
  PROVE  BrokerInv' /\ Forward(journal, journal')
<1>1. CASE UNCHANGED vars
  <2>1. journal \in StateType /\ UNCHANGED <<journal, proc, handed, applied, discovered>>
    BY <1>1 DEF vars, BrokerInv, JournalSound
  <2>2. Forward(journal, journal')
    BY <2>1, ForwardReflexive
  <2> QED BY <2>1, <2>2 DEF BrokerInv, JournalSound, EntrySound, CallSound, HandedSound, HandedIsRecorded
<1>2. CASE Dispatch
  BY <1>2, DispatchBeginStep, AppendIntentStep, AppendDispatchedStep, SendStep, AppendResultStep
     DEF Dispatch
<1>3. CASE Facts
  BY <1>3, IngestStep, LatchStep, AcknowledgeStep, ReconcileStep, ResolveStep, QuietActions DEF Facts
<1>4. CASE Environment
  BY <1>4, QuietActions, RuntimeStep DEF Environment
<1> QED BY <1>1, <1>2, <1>3, <1>4 DEF Next

-----------------------------------------------------------------------------
(* Theorems *)

\* BrokerInv holds in every reachable state of the broker.
THEOREM BrokerCorrect == Spec => []BrokerInv
<1>1. BrokerInv /\ [Next]_vars => BrokerInv'
  BY BrokerStep
<1> QED BY InitBroker, <1>1, PTL DEF Spec

\* The types, and the bound that add_facts puts on pending facts.
THEOREM BrokerTypes == Spec => []TypeOK
<1>1. BrokerInv => TypeOK
  BY DEF BrokerInv, JournalSound, CallSound, HandedSound, TypeOK
<1> QED BY BrokerCorrect, <1>1, PTL

\* dispatch hands no command over twice and no order to the venue twice.
THEOREM BrokerNeverRetriesBlindly == Spec => []NoBlindRetry
<1>1. BrokerInv => NoBlindRetry
  <2> SUFFICES ASSUME BrokerInv, NEW j \in 1..Len(handed), NEW k \in 1..Len(handed), j < k
               PROVE  /\ handed[j].id # handed[k].id
                      /\ handed[j].request # handed[k].request
                      /\ handed[j].op = "SUBMIT" /\ handed[k].op = "SUBMIT" =>
                           handed[j].order # handed[k].order
                      /\ (handed[j].client = handed[k].client) <=> (handed[j].order = handed[k].order)
    BY DEF NoBlindRetry
  <2>1. /\ handed[j].id # handed[k].id
        /\ handed[j].id \in Ids /\ handed[k].id \in Ids
    BY IdOfCommand DEF BrokerInv, HandedSound
  <2>2. PairSound(journal.commands[handed[j].id], journal.commands[handed[k].id])
    BY <2>1 DEF BrokerInv, JournalSound
  <2> QED BY <2>1, <2>2 DEF BrokerInv, HandedSound, HandedIsRecorded, PairSound
<1> QED BY BrokerCorrect, <1>1, PTL

\* DISPATCHED is durable before the adapter is called.
THEOREM BrokerRecordsFirst == Spec => []HandedIsRecorded
<1>1. BrokerInv => HandedIsRecorded
  BY DEF BrokerInv, HandedSound
<1> QED BY BrokerCorrect, <1>1, PTL

\* Ingress, discovery, acknowledgement and resolution lose no fact.
THEOREM BrokerKeepsFacts == Spec => []FactsAreNotLost
<1>1. BrokerInv => FactsAreNotLost
  BY DEF BrokerInv, JournalSound, FactsAreNotLost
<1> QED BY BrokerCorrect, <1>1, PTL

\* resolve leaves no fact of any discovery unapplied.
THEOREM BrokerSettles == Spec => []ResolvedIsSettled
<1>1. BrokerInv => ResolvedIsSettled
  BY DEF BrokerInv, JournalSound, EntrySound, ResolvedIsSettled
<1> QED BY BrokerCorrect, <1>1, PTL

\* The journal is never taken back.
THEOREM BrokerForward == Spec => HistoryForwardOnly
<1>1. BrokerInv /\ [Next]_vars =>
        [ /\ \A i \in Ids :
               LET old == journal.commands[i]
                   new == journal'.commands[i]
               IN /\ Rank(old.state) <= Rank(new.state)
                  /\ old.state # "Absent" => new.command = old.command /\ new.txn = old.txn
                  /\ old.discovery # None => new.discovery # None
          /\ journal.facts \subseteq journal'.facts
          /\ journal.conflict => journal'.conflict ]_vars
  BY BrokerStep DEF Forward, EntryForward
<1> QED BY BrokerCorrect, <1>1, PTL DEF Spec, HistoryForwardOnly

\* dispatch submits only while everything else is certain.
THEOREM BrokerSubmitsSafely == Spec => SubmitsWaitForCertainty
<1>1. BrokerInv /\ [Next]_vars =>
        [ handed' # handed /\ proc.command.op = "SUBMIT" =>
            /\ ~journal.conflict
            /\ \A i \in Ids \ {proc.command.id} : journal.commands[i].state \notin Uncertain ]_vars
  <2> SUFFICES ASSUME BrokerInv, Next, handed' # handed, proc.command.op = "SUBMIT"
               PROVE  /\ ~journal.conflict
                      /\ \A i \in Ids \ {proc.command.id} : journal.commands[i].state \notin Uncertain
    OBVIOUS
  <2>1. proc.at = "send"
    BY DEF Next, Dispatch, Facts, Environment, DispatchBegin, AppendIntent, AppendDispatched, Send,
           AppendResult, Ingest, Latch, Acknowledge, Reconcile, Resolve, RefreshFails, Return,
           SetConnection, SetHealth, RuntimeApplies, Crash, Recover, Running
  <2> QED BY <2>1 DEF BrokerInv, CallSound, Sending
<1> QED BY BrokerCorrect, <1>1, PTL DEF Spec, SubmitsWaitForCertainty
===============================================================================
