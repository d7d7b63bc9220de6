----------------------- MODULE ExecutionRuntimeProofs -----------------------
(* Theorems about ExecutionRuntime, for every number of owners, every set  *)
(* of inputs and readers, and any number of faults and plans.              *)
EXTENDS ExecutionRuntime, SequenceTheorems, TLAPS

\* The owners: META is one of them.
LEMMA MetaIsOwner == Meta \in Owner
  BY NAssumption DEF Meta, Owner

\* The initial images have the type of images, and projecting an input into
\* images gives images.
LEMMA ImageTypes ==
  /\ Genesis \in Image
  /\ \A img \in Image, x \in Input : Project(img, x) \in Image
  <1>1. Genesis \in Image
    BY DEF Genesis, Image
  <1>2. ASSUME NEW img \in Image, NEW x \in Input
        PROVE  Project(img, x) \in Image
    BY DEF Project, Image
  <1> QED BY <1>1, <1>2

\* Freshly created components have the type of components.
LEMMA NewComponentsType == NewComponents \in Components
  BY ImageTypes, NAssumption DEF NewComponents, NoPending, Components, Pending

\* Plan builds a Payload.
LEMMA PlanType ==
  \A img \in Image, s \in Nat, x \in Input : Plan(img, s, x) \in Payload
  BY ImageTypes DEF Plan, Payload

\* The components a recovery starts from are well typed.
LEMMA RestoredType == TypeOK => Restored \subseteq Components
  BY NewComponentsType, NAssumption DEF Restored, TypeOK, Components, Pending, NoPending

\* The components that resume drives, and the record it installs.
LEMMA DrivenType ==
  TypeOK => /\ Driven \in Components
            /\ HasTail => TailRecord \in Record /\ Driven.sequence + 1 \in 1..Len(records)
  <1> SUFFICES ASSUME TypeOK PROVE /\ Driven \in Components
                                   /\ HasTail => TailRecord \in Record /\ Driven.sequence + 1 \in 1..Len(records)
    OBVIOUS
  <1>1. Driven \in Components
    BY DEF TypeOK, Driven
  <1>2. ASSUME HasTail PROVE TailRecord \in Record /\ Driven.sequence + 1 \in 1..Len(records)
    <2>1. Driven.sequence \in Nat /\ Len(records) \in Nat
      BY <1>1 DEF Components, TypeOK
    <2>2. Driven.sequence + 1 \in 1..Len(records)
      BY <1>2, <2>1 DEF HasTail
    <2> QED BY <2>2 DEF TailRecord, TypeOK
  <1> QED BY <1>1, <1>2

\* Installing a projection or completing a transaction keeps the type.
LEMMA InstalledType ==
  ASSUME NEW c \in Components, NEW p \in Payload, NEW i \in 1..N
  PROVE  Installed(c, p, i) \in Components
  <1>1. [c.img EXCEPT ![i] = p.after[i]] \in Image
    BY DEF Components, Payload, Image, Owner
  <1>2. [id |-> p.input, next |-> i] \in Pending
    BY NAssumption DEF Pending, Payload
  <1> QED BY <1>1, <1>2 DEF Installed, Components

LEMMA CompletedType ==
  ASSUME NEW c \in Components
  PROVE  Completed(c) \in Components
  <1>1. NoPending \in Pending
    BY NAssumption DEF NoPending, Pending
  <1> QED BY <1>1 DEF Completed, Components

\* Replacing one element of a sequence.
LEMMA ElementReplaced ==
  ASSUME NEW S, NEW s \in Seq(S), NEW n \in 1..Len(s), NEW e \in S,
         NEW t, t = [s EXCEPT ![n] = e]
  PROVE  /\ t \in Seq(S)
         /\ Len(t) = Len(s)
         /\ \A k \in 1..Len(s) : t[k] = IF k = n THEN e ELSE s[k]
  BY ExceptSeq

\* Raising a flag of a record changes that flag and nothing else.
LEMMA ReadyRaised ==
  ASSUME records \in Seq(Record), NEW n \in 1..Len(records),
         NEW flagged, flagged = [records EXCEPT ![n].ready = TRUE]
  PROVE  /\ flagged \in Seq(Record)
         /\ Len(flagged) = Len(records)
         /\ \A k \in 1..Len(records) : k # n => flagged[k] = records[k]
         /\ flagged[n].prepared = records[n].prepared
         /\ flagged[n].delivered = records[n].delivered
         /\ flagged[n].ready = TRUE
  <1> DEFINE e == [records[n] EXCEPT !.ready = TRUE]
  <1>1. records[n] \in Record
    OBVIOUS
  <1>2. e \in Record
    BY <1>1 DEF Record
  <1>3. flagged = [records EXCEPT ![n] = e]
    OBVIOUS
  <1>4. /\ flagged \in Seq(Record)
        /\ Len(flagged) = Len(records)
        /\ \A k \in 1..Len(records) : flagged[k] = IF k = n THEN e ELSE records[k]
    <2> HIDE DEF e
    <2>1. records \in Seq(Record) /\ n \in 1..Len(records)
      OBVIOUS
    <2> QED BY ONLY <1>2, <1>3, <2>1, ElementReplaced
  <1>5. flagged[n] = e
    BY <1>4
  <1> QED BY <1>1, <1>4, <1>5 DEF Record

LEMMA DeliveredRaised ==
  ASSUME records \in Seq(Record), NEW n \in 1..Len(records),
         NEW flagged, flagged = [records EXCEPT ![n].delivered = TRUE]
  PROVE  /\ flagged \in Seq(Record)
         /\ Len(flagged) = Len(records)
         /\ \A k \in 1..Len(records) : k # n => flagged[k] = records[k]
         /\ flagged[n].prepared = records[n].prepared
         /\ flagged[n].ready = records[n].ready
         /\ flagged[n].delivered = TRUE
  <1> DEFINE e == [records[n] EXCEPT !.delivered = TRUE]
  <1>1. records[n] \in Record
    OBVIOUS
  <1>2. e \in Record
    BY <1>1 DEF Record
  <1>3. flagged = [records EXCEPT ![n] = e]
    OBVIOUS
  <1>4. /\ flagged \in Seq(Record)
        /\ Len(flagged) = Len(records)
        /\ \A k \in 1..Len(records) : flagged[k] = IF k = n THEN e ELSE records[k]
    <2> HIDE DEF e
    <2>1. records \in Seq(Record) /\ n \in 1..Len(records)
      OBVIOUS
    <2> QED BY ONLY <1>2, <1>3, <2>1, ElementReplaced
  <1>5. flagged[n] = e
    BY <1>4
  <1> QED BY <1>1, <1>4, <1>5 DEF Record

\* Type correctness of the initial state and of every step.
LEMMA TypeInit == Init => TypeOK
  BY NewComponentsType, BoundAssumption DEF Init, TypeOK

LEMMA TypeStep == TypeOK /\ [Next]_vars => TypeOK'
  <1> SUFFICES ASSUME TypeOK, [Next]_vars PROVE TypeOK'
    OBVIOUS
  <1> USE DEF store, session, history
  <1>1. CASE Commit
    BY <1>1 DEF Commit, TypeOK, Record
  <1>2. CASE InstallProjection
    <2> DEFINE i == Driven.pending.next + 1
    <2>1. i \in 1..N
      BY <1>2, DrivenType, NAssumption DEF InstallProjection, Components, Pending
    <2>2. Installed(Driven, TailRecord.prepared, i) \in Components
      BY <1>2, <2>1, DrivenType, InstalledType DEF InstallProjection, Record
    <2>3. SetDriven(Installed(Driven, TailRecord.prepared, i))
      BY <1>2 DEF InstallProjection
    <2>4. comp' \in Components /\ fresh' \in Components
      BY <2>2, <2>3 DEF SetDriven, TypeOK
    <2> QED BY <1>2, <2>4 DEF InstallProjection, TypeOK
  <1>3. CASE MarkReady
    <2>1. records' \in Seq(Record)
      <3>1. Driven.sequence + 1 \in 1..Len(records)
        BY <1>3, DrivenType DEF MarkReady
      <3> QED BY <1>3, <3>1, ReadyRaised DEF MarkReady, TypeOK
    <2> QED BY <1>3, <2>1 DEF MarkReady, TypeOK
  <1>4. CASE Complete
    <2> DEFINE c == Completed(Driven)
    <2>1. c \in Components
      BY DrivenType, CompletedType
    <2>2. comp' \in Components /\ fresh' \in Components
      <3>1. SetDriven(c)
        BY <1>4 DEF Complete
      <3> QED BY <2>1, <3>1 DEF SetDriven, TypeOK
    <2>3. confirmed' \subseteq Input
      BY <1>4, DrivenType DEF Complete, TypeOK, Record, Payload
    <2> QED BY <1>4, <2>2, <2>3 DEF Complete, TypeOK
  <1>5. CASE Recover
    BY <1>5, RestoredType DEF Recover, TypeOK
  <1>6. CASE Open
    BY <1>6, RestoredType DEF Open, TypeOK
  <1>7. CASE RecoverDone
    BY <1>7, NewComponentsType DEF RecoverDone, TypeOK
  <1>8. CASE PublishEvents
    <2>1. published' \subseteq Payload
      <3>1. \A k \in 1..Len(records) : records[k] \in Record
        BY DEF TypeOK
      <3>2. \A k \in 1..Len(records) : records[k].prepared \in Payload
        BY <3>1 DEF Record
      <3> QED BY <1>8, <3>2 DEF PublishEvents, TypeOK
    <2> QED BY <1>8, <2>1 DEF PublishEvents, TypeOK
  <1>9. CASE CallFails
    <2>1. faults' \in 0..MaxFaults
      BY <1>9, BoundAssumption DEF CallFails, TypeOK
    <2> QED BY <1>9, <2>1, NewComponentsType DEF CallFails, TypeOK
  <1>10. CASE Crash
    <2>1. faults' \in 0..MaxFaults
      BY <1>10, BoundAssumption DEF Crash, TypeOK
    <2> QED BY <1>10, <2>1, NewComponentsType DEF Crash, Down, TypeOK
  <1>11. CASE Close
    BY <1>11, NewComponentsType DEF Close, Down, TypeOK
  <1>12. ASSUME NEW x \in Input, ApplyDuplicate(x) PROVE TypeOK'
    BY <1>12 DEF ApplyDuplicate, TypeOK
  <1>13. ASSUME NEW x \in Input, ApplyRefused(x) PROVE TypeOK'
    BY <1>13 DEF ApplyRefused, TypeOK
  <1>14. ASSUME NEW x \in Input, ApplyPlanned(x) PROVE TypeOK'
    <2>1. prepared' \in Payload
      BY <1>14, PlanType DEF ApplyPlanned, TypeOK, Components
    <2> QED BY <1>14, <2>1 DEF ApplyPlanned, TypeOK
  <1>15. ASSUME NEW x \in Input, ForkAndPlan(x) PROVE TypeOK'
    <2>1. plans' \subseteq [prepared : Payload, planned : BOOLEAN]
      <3>1. PICK base \in {[img |-> comp.img, sequence |-> comp.sequence]} \cup
                 {[img |-> q.prepared.after, sequence |-> q.prepared.sequence] :
                    q \in {r \in plans : r.planned}} :
             plans' = plans \cup {[prepared |-> Plan(base.img, base.sequence, x), planned |-> TRUE]}
        BY <1>15 DEF ForkAndPlan
      <3>2. base.img \in Image /\ base.sequence \in Nat
        BY DEF TypeOK, Components, Payload
      <3>3. Plan(base.img, base.sequence, x) \in Payload
        BY <3>2, PlanType
      <3>4. [prepared |-> Plan(base.img, base.sequence, x), planned |-> TRUE]
              \in [prepared : Payload, planned : BOOLEAN]
        BY <3>3
      <3> QED BY <3>1, <3>4 DEF TypeOK
    <2> QED BY <1>15, <2>1 DEF ForkAndPlan, TypeOK
  <1>16. ASSUME NEW x \in Input, DecodePrepared(x) PROVE TypeOK'
    <2>1. plans' \subseteq [prepared : Payload, planned : BOOLEAN]
      <3>1. Plan(comp.img, comp.sequence, x) \in Payload
        BY PlanType DEF TypeOK, Components
      <3>2. [prepared |-> Plan(comp.img, comp.sequence, x), planned |-> FALSE]
              \in [prepared : Payload, planned : BOOLEAN]
        BY <3>1
      <3> QED BY <1>16, <3>2 DEF DecodePrepared, TypeOK
    <2> QED BY <1>16, <2>1 DEF DecodePrepared, TypeOK
  <1>17. ASSUME NEW q \in plans, ApplyPrepared(q) PROVE TypeOK'
    BY <1>17 DEF ApplyPrepared, TypeOK, Payload
  <1>18. ASSUME NEW ok \in BOOLEAN, SaveCheckpoint(ok) PROVE TypeOK'
    BY <1>18, BoundAssumption DEF SaveCheckpoint, Outcome, TypeOK, Components
  <1>19. ASSUME NEW n \in 1..Len(records), NEW ok \in BOOLEAN, Acknowledge(n, ok) PROVE TypeOK'
    <2>1. records' \in Seq(Record)
      BY <1>19, DeliveredRaised DEF Acknowledge, TypeOK
    <2> QED BY <1>19, <2>1, BoundAssumption DEF Acknowledge, Outcome, TypeOK
  <1>20. ASSUME NEW r \in Reader, ReaderOpen(r) \/ ReaderClose(r) PROVE TypeOK'
    BY <1>20 DEF ReaderOpen, ReaderClose, TypeOK
  <1>21. CASE UNCHANGED vars
    BY <1>21 DEF vars, TypeOK
  <1> QED
    BY <1>1, <1>2, <1>3, <1>4, <1>5, <1>6, <1>7, <1>8, <1>9, <1>10, <1>11, <1>12, <1>13,
       <1>14, <1>15, <1>16, <1>17, <1>18, <1>19, <1>20, <1>21 DEF Next, Step

\* Every variable keeps its type.
THEOREM TypeCorrect == Spec => []TypeOK
  BY TypeInit, TypeStep, PTL DEF Spec

-----------------------------------------------------------------------------
(* Facts about journals and images *)

\* The images after n records.
LEMMA ImageAtType ==
  ASSUME TypeOK, NEW n \in 0..Len(records)
  PROVE  ImageAt(n) \in Image
  <1>1. CASE n = 0
    BY <1>1, ImageTypes DEF ImageAt
  <1>2. CASE n # 0
    <2>1. n \in 1..Len(records)
      BY <1>2 DEF TypeOK
    <2>2. records[n] \in Record
      BY <2>1 DEF TypeOK
    <2> QED BY <1>2, <2>2 DEF ImageAt, Record, Payload
  <1> QED BY <1>1, <1>2

\* In a sound journal META lists the inputs of the first n records.
LEMMA MetaLists ==
  ASSUME TypeOK, JournalSound, NEW n \in 0..Len(records)
  PROVE  /\ Len(ImageAt(n)[Meta]) = n
         /\ \A j \in 1..n : ImageAt(n)[Meta][j] = records[j].prepared.input
  <1>1. CASE n = 0
    BY <1>1, MetaIsOwner DEF ImageAt, Genesis
  <1>2. CASE n # 0
    <2>1. n \in 1..Len(records)
      BY <1>2 DEF TypeOK
    <2> QED BY <1>2, <2>1 DEF ImageAt, JournalSound
  <1> QED BY <1>1, <1>2

\* Components that rolled forward to the head of a Ready journal can serve.
LEMMA RolledIsReconciled ==
  ASSUME TypeOK, JournalSound, NEW c, Rolling(c), c.sequence = Len(records)
  PROVE  Reconciled(c)
  <1>1. Len(records) \in 0..Len(records)
    BY DEF TypeOK
  <1>2. /\ c.pending = NoPending
        /\ c.img = ImageAt(Len(records))
        /\ AllReady(Len(records))
    BY DEF Rolling
  <1>3. /\ Len(ImageAt(Len(records))[Meta]) = Len(records)
        /\ \A j \in 1..Len(records) : ImageAt(Len(records))[Meta][j] = records[j].prepared.input
    BY <1>1, MetaLists
  <1> QED BY <1>2, <1>3 DEF Reconciled, JournalSound

\* A recovery starts at the image of a Ready prefix.
LEMMA RestoredRolls ==
  ASSUME TypeOK, CheckpointsValid, NEW c \in Restored
  PROVE  Rolling(c)
  <1>0. Len(records) \in Nat
    BY DEF TypeOK
  <1>1. /\ c.sequence \in 0..Len(records)
        /\ AllReady(c.sequence)
        /\ c.img = ImageAt(c.sequence)
        /\ c.pending = NoPending
    <2>1. CASE checkpoints = {}
      <3>1. c = NewComponents
        BY <2>1 DEF Restored
      <3> QED BY <1>0, <3>1 DEF NewComponents, AllReady, ImageAt
    <2>2. CASE checkpoints # {}
      <3>1. PICK cp \in checkpoints :
              c = [img |-> cp.img, sequence |-> cp.sequence, pending |-> NoPending]
        BY <2>2 DEF Restored
      <3>2. /\ cp.sequence \in Nat /\ cp.sequence <= Len(records)
            /\ AllReady(cp.sequence)
            /\ cp.img = ImageAt(cp.sequence)
        BY DEF CheckpointsValid, TypeOK
      <3> QED BY <1>0, <3>1, <3>2
    <2> QED BY <2>1, <2>2
  <1>2. ImageAt(c.sequence) = [o \in Owner |-> ImageAt(c.sequence)[o]]
    BY <1>1, ImageAtType DEF Image
  <1>3. c.pending.next = 0
    BY <1>1 DEF NoPending
  <1>4. [o \in Owner |-> IF o <= c.pending.next
                         THEN ImageAt(c.sequence + 1)[o]
                         ELSE ImageAt(c.sequence)[o]] = ImageAt(c.sequence)
    BY <1>2, <1>3 DEF Owner
  <1> QED BY <1>0, <1>1, <1>4 DEF Rolling

\* Installing the next owner of the tail record keeps the roll-forward shape.
LEMMA InstallRolls ==
  ASSUME TypeOK, NEW c \in Components, Rolling(c), c.sequence < Len(records),
         c.pending.next < N
  PROVE  Rolling(Installed(c, records[c.sequence + 1].prepared, c.pending.next + 1))
  <1> DEFINE i == c.pending.next + 1
             p == records[c.sequence + 1].prepared
             d == Installed(c, p, i)
  <1>1. c.sequence \in Nat /\ Len(records) \in Nat /\ c.pending.next \in Nat /\ i \in Owner
    BY NAssumption DEF Components, Pending, TypeOK, Owner
  <1>2. p.after = ImageAt(c.sequence + 1)
    BY <1>1 DEF ImageAt
  <1>3. /\ c.img = [o \in Owner |-> IF o <= c.pending.next
                                    THEN ImageAt(c.sequence + 1)[o]
                                    ELSE ImageAt(c.sequence)[o]]
        /\ AllReady(c.sequence)
    BY <1>1 DEF Rolling
  <1>4. d.sequence = c.sequence /\ d.pending = [id |-> p.input, next |-> i]
        /\ d.img = [c.img EXCEPT ![i] = p.after[i]]
    BY DEF Installed
  <1>5. d.img = [o \in Owner |-> IF o <= i
                                 THEN ImageAt(c.sequence + 1)[o]
                                 ELSE ImageAt(c.sequence)[o]]
    <2>1. d.img = [o \in Owner |-> IF o = i THEN p.after[i] ELSE c.img[o]]
      BY <1>1, <1>3, <1>4
    <2>2. ASSUME NEW o \in Owner
          PROVE  (IF o = i THEN p.after[i] ELSE c.img[o])
                   = IF o <= i THEN ImageAt(c.sequence + 1)[o] ELSE ImageAt(c.sequence)[o]
      <3>1. o \in Nat
        BY DEF Owner
      <3>2. c.img[o] = IF o <= c.pending.next
                       THEN ImageAt(c.sequence + 1)[o] ELSE ImageAt(c.sequence)[o]
        BY <1>3
      <3>3. CASE o = i
        BY <1>1, <1>2, <3>1, <3>3
      <3>4. CASE o # i
        <4>1. (o <= i) <=> (o <= c.pending.next)
          BY <1>1, <3>1, <3>4
        <4> QED BY <3>2, <3>4, <4>1
      <3> QED BY <3>3, <3>4
    <2> QED BY <2>1, <2>2
  <1>6. /\ d.sequence < Len(records) /\ d.sequence # Len(records)
        /\ d.pending.id = records[d.sequence + 1].prepared.input
        /\ d.pending.next = i
    BY <1>1, <1>4
  <1>7. Rolling(d)
    <2> HIDE DEF d, p, i
    <2> QED BY <1>1, <1>3, <1>4, <1>5, <1>6 DEF Rolling
  <1> QED BY <1>7

\* Completing the fully installed, Ready tail record moves on by one.
LEMMA CompleteRolls ==
  ASSUME TypeOK, NEW c \in Components, Rolling(c), c.sequence < Len(records),
         c.pending.next = N, records[c.sequence + 1].ready
  PROVE  Rolling(Completed(c))
  <1> DEFINE d == Completed(c)
  <1>1. c.sequence \in Nat /\ Len(records) \in Nat /\ c.sequence + 1 \in 0..Len(records)
    BY DEF Components, TypeOK
  <1>2. /\ d.sequence = c.sequence + 1
        /\ d.pending = NoPending
        /\ d.pending.next = 0
        /\ d.img = c.img
    BY DEF Completed, NoPending
  <1>3. AllReady(c.sequence + 1)
    BY <1>1 DEF Rolling, AllReady
  <1>4. ImageAt(c.sequence + 1) = [o \in Owner |-> ImageAt(c.sequence + 1)[o]]
    BY <1>1, ImageAtType DEF Image
  <1>5. c.img = ImageAt(c.sequence + 1)
    <2>1. c.img = [o \in Owner |-> IF o <= N
                                   THEN ImageAt(c.sequence + 1)[o]
                                   ELSE ImageAt(c.sequence)[o]]
      BY <1>1 DEF Rolling
    <2> QED BY <1>4, <2>1, NAssumption DEF Owner
  <1>6. [o \in Owner |-> IF o <= d.pending.next
                         THEN ImageAt(d.sequence + 1)[o]
                         ELSE ImageAt(d.sequence)[o]] = ImageAt(d.sequence)
    <2> HIDE DEF d
    <2>1. ASSUME NEW o \in Owner
          PROVE  (IF o <= d.pending.next THEN ImageAt(d.sequence + 1)[o] ELSE ImageAt(d.sequence)[o])
                   = ImageAt(c.sequence + 1)[o]
      BY <1>2 DEF Owner
    <2> QED BY <1>2, <1>4, <2>1
  <1>7. Rolling(d)
    <2> HIDE DEF d
    <2> QED BY <1>1, <1>2, <1>3, <1>5, <1>6 DEF Rolling
  <1> QED BY <1>7

-----------------------------------------------------------------------------
(* How steps change the journal *)

\* A step appends, raises a flag, or leaves the journal alone.
JournalExtended ==
  /\ Len(records') \in Nat
  /\ Len(records) <= Len(records')
  /\ \A k \in 1..Len(records) :
       /\ records'[k].prepared = records[k].prepared
       /\ records[k].ready => records'[k].ready
       /\ records[k].delivered => records'[k].delivered

LEMMA CommitExtends ==
  ASSUME TypeOK, Commit
  PROVE  /\ JournalExtended
         /\ Len(records') = Len(records) + 1
         /\ records'[Len(records) + 1] = [prepared |-> prepared, ready |-> FALSE, delivered |-> FALSE]
         /\ \A k \in 1..Len(records) : records'[k] = records[k]
  <1> DEFINE r == [prepared |-> prepared, ready |-> FALSE, delivered |-> FALSE]
  <1>1. r \in Record /\ records \in Seq(Record) /\ records' = Append(records, r)
    BY DEF TypeOK, Commit, Record
  <1> HIDE DEF r
  <1>2. /\ Len(records') = Len(records) + 1
        /\ \A k \in 1..Len(records) : records'[k] = records[k]
        /\ records'[Len(records) + 1] = r
    BY ONLY <1>1, AppendProperties
  <1>3. Len(records) \in Nat
    BY <1>1
  <1> QED BY <1>2, <1>3 DEF JournalExtended, r

LEMMA MarkReadyExtends ==
  ASSUME TypeOK, MarkReady
  PROVE  JournalExtended /\ Len(records') = Len(records)
  <1>1. Driven.sequence + 1 \in 1..Len(records) /\ records \in Seq(Record)
    BY DrivenType DEF MarkReady, TypeOK
  <1>2. records' = [records EXCEPT ![Driven.sequence + 1].ready = TRUE]
    BY DEF MarkReady
  <1> DEFINE n == Driven.sequence + 1
  <1>3. /\ Len(records') = Len(records)
        /\ \A k \in 1..Len(records) : k # n => records'[k] = records[k]
        /\ records'[n].prepared = records[n].prepared
        /\ records'[n].delivered = records[n].delivered
        /\ records'[n].ready = TRUE
    BY <1>1, <1>2, ReadyRaised
  <1>4. Len(records) \in Nat
    BY <1>1
  <1> HIDE DEF n
  <1> QED BY <1>3, <1>4 DEF JournalExtended

LEMMA AcknowledgeExtends ==
  ASSUME TypeOK, NEW n \in 1..Len(records), NEW ok \in BOOLEAN, Acknowledge(n, ok)
  PROVE  /\ JournalExtended
         /\ Len(records') = Len(records)
         /\ \A k \in 1..Len(records) : records'[k].ready = records[k].ready
  <1>1. records \in Seq(Record)
    BY DEF TypeOK
  <1>2. records' = [records EXCEPT ![n].delivered = TRUE]
    BY DEF Acknowledge
  <1>3. /\ Len(records') = Len(records)
        /\ \A k \in 1..Len(records) : k # n => records'[k] = records[k]
        /\ records'[n].prepared = records[n].prepared
        /\ records'[n].ready = records[n].ready
        /\ records'[n].delivered = TRUE
    BY <1>1, <1>2, DeliveredRaised
  <1>4. Len(records) \in Nat
    BY <1>1
  <1> QED BY <1>3, <1>4 DEF JournalExtended

\* Every step extends the journal, and only the three steps above change it.
LEMMA StepExtends ==
  ASSUME TypeOK, [Next]_vars
  PROVE  /\ JournalExtended
         /\ \/ UNCHANGED records
            \/ Commit
            \/ MarkReady
            \/ \E n \in 1..Len(records), ok \in BOOLEAN : Acknowledge(n, ok)
  <1> USE DEF store, session, history
  <1>1. UNCHANGED records => JournalExtended
    BY DEF JournalExtended, TypeOK
  <1>2. CASE UNCHANGED vars
    BY <1>1, <1>2 DEF vars
  <1>3. CASE Step
    <2>1. Commit \/ MarkReady \/ UNCHANGED records
      BY <1>3 DEF Step, InstallProjection, Complete, Recover, Open, RecoverDone, PublishEvents,
                  CallFails, Crash, Close, Down
    <2> QED BY <1>1, <2>1, CommitExtends, MarkReadyExtends
  <1>4. CASE \E x \in Input :
               ApplyDuplicate(x) \/ ApplyRefused(x) \/ ApplyPlanned(x) \/ ForkAndPlan(x) \/ DecodePrepared(x)
    BY <1>1, <1>4 DEF ApplyDuplicate, ApplyRefused, ApplyPlanned, ForkAndPlan, DecodePrepared
  <1>5. CASE \E q \in plans : ApplyPrepared(q)
    BY <1>1, <1>5 DEF ApplyPrepared
  <1>6. CASE \E ok \in BOOLEAN : SaveCheckpoint(ok)
    BY <1>1, <1>6 DEF SaveCheckpoint
  <1>7. CASE \E n \in 1..Len(records), ok \in BOOLEAN : Acknowledge(n, ok)
    BY <1>7, AcknowledgeExtends
  <1>8. CASE \E r \in Reader : ReaderOpen(r) \/ ReaderClose(r)
    BY <1>1, <1>8 DEF ReaderOpen, ReaderClose
  <1> QED BY <1>2, <1>3, <1>4, <1>5, <1>6, <1>7, <1>8 DEF Next

\* Images and Ready prefixes survive an extension.
LEMMA ExtensionKeeps ==
  ASSUME TypeOK, JournalExtended, NEW n \in 0..Len(records)
  PROVE  /\ ImageAt(n)' = ImageAt(n)
         /\ AllReady(n) => AllReady(n)'
  <1>1. Len(records) \in Nat
    BY DEF TypeOK
  <1>2. ImageAt(n)' = ImageAt(n)
    BY <1>1 DEF ImageAt, JournalExtended
  <1>3. AllReady(n) => AllReady(n)'
    BY <1>1 DEF AllReady, JournalExtended
  <1> QED BY <1>2, <1>3

\* Historical facts are immutable: the journal moves forward only.
THEOREM ForwardOnly == Spec => JournalForwardOnly
  <1> DEFINE Forward ==
        /\ Len(records') \in {Len(records), Len(records) + 1}
        /\ \A k \in 1..Len(records) :
             /\ records'[k].prepared = records[k].prepared
             /\ records[k].ready => records'[k].ready
             /\ records[k].delivered => records'[k].delivered
        /\ Len(records') > Len(records) => AllReady(Len(records))
  <1>1. TypeOK /\ [Next]_vars => [Forward]_records
    <2> SUFFICES ASSUME TypeOK, [Next]_vars, ~ UNCHANGED records PROVE Forward
      OBVIOUS
    <2>1. JournalExtended /\ Len(records) \in Nat
      BY StepExtends DEF TypeOK
    <2>2. CASE Commit
      BY <2>1, <2>2, CommitExtends DEF JournalExtended, Commit
    <2>3. CASE MarkReady
      BY <2>1, <2>3, MarkReadyExtends DEF JournalExtended
    <2>4. CASE \E n \in 1..Len(records), ok \in BOOLEAN : Acknowledge(n, ok)
      BY <2>1, <2>4, AcknowledgeExtends DEF JournalExtended
    <2> QED BY <2>2, <2>3, <2>4, StepExtends
  <1> QED BY <1>1, TypeCorrect, PTL DEF Spec, JournalForwardOnly

-----------------------------------------------------------------------------
(* The protocol invariant is inductive *)

\* Appending a sound plan for the current head to a sound journal.
LEMMA CommitKeepsJournal ==
  ASSUME TypeOK, JournalSound, CallSound, Commit
  PROVE  JournalSound'
  <1> DEFINE n == Len(records)
  <1>1. n \in Nat /\ n \in 0..n /\ prepared \in Payload
    BY DEF TypeOK, Commit
  <1>2. /\ Len(records') = n + 1
        /\ records'[n + 1].prepared = prepared
        /\ ~ records'[n + 1].ready
        /\ \A k \in 1..n : records'[k] = records[k]
    BY CommitExtends
  <1>3. /\ SoundPlan(prepared)
        /\ prepared.sequence = n + 1
        /\ prepared.before = ImageAt(n)
        /\ AllReady(n)
        /\ \A k \in 1..n : records[k].prepared.input.id # prepared.input.id
    BY DEF Commit, CallSound
  <1>4. \A k \in 0..n : ImageAt(k)' = ImageAt(k)
    BY CommitExtends, ExtensionKeeps
  <1>5. SourceValid'
    <2> SUFFICES ASSUME NEW k \in 1..(n + 1)
                 PROVE  /\ records'[k].prepared.sequence = k
                        /\ \A j \in 1..(k-1) :
                             records'[j].prepared.input.id # records'[k].prepared.input.id
                        /\ records'[k].prepared.before = ImageAt(k-1)'
                        /\ k < n + 1 => records'[k].ready
      BY <1>2 DEF SourceValid
    <2>1. CASE k = n + 1
      BY <1>1, <1>2, <1>3, <1>4, <2>1
    <2>2. CASE k # n + 1
      <3>1. k \in 1..n /\ k - 1 \in 0..n
        BY <1>1, <2>2
      <3>2. SourceValid
        BY DEF JournalSound
      <3>3. records'[k] = records[k] /\ \A j \in 1..(k-1) : records'[j] = records[j]
        BY <1>1, <1>2, <3>1
      <3>4. records[k].ready
        BY <1>3, <3>1 DEF AllReady
      <3> QED BY <1>4, <3>1, <3>2, <3>3, <3>4 DEF SourceValid
    <2> QED BY <2>1, <2>2
  <1>6. ASSUME NEW k \in 1..(n + 1)
        PROVE  /\ SoundPlan(records'[k].prepared)
               /\ Len(records'[k].prepared.after[Meta]) = k
               /\ \A j \in 1..k : records'[k].prepared.after[Meta][j] = records'[j].prepared.input
    <2>1. CASE k = n + 1
      <3>1. prepared.after = Project(ImageAt(n), prepared.input)
        BY <1>3 DEF SoundPlan
      <3>2. ImageAt(n) \in Image /\ prepared.input \in Input
        BY <1>1, ImageAtType DEF Payload
      <3> DEFINE m == ImageAt(n)[Meta]
      <3>3. m \in Seq(Input)
        BY <3>2, MetaIsOwner DEF Image
      <3>4. prepared.after[Meta] = Append(m, prepared.input)
        BY <3>1, MetaIsOwner DEF Project, Touched
      <3>5. Len(m) = n /\ \A j \in 1..n : m[j] = records[j].prepared.input
        BY <1>1, MetaLists
      <3> HIDE DEF m
      <3>6. /\ Len(prepared.after[Meta]) = n + 1
            /\ prepared.after[Meta][n + 1] = prepared.input
            /\ \A j \in 1..n : prepared.after[Meta][j] = m[j]
        BY ONLY <3>2, <3>3, <3>4, <3>5, AppendProperties
      <3> QED BY <1>1, <1>2, <1>3, <2>1, <3>5, <3>6
    <2>2. CASE k # n + 1
      <3>1. k \in 1..n
        BY <1>1, <2>2
      <3>2. records'[k] = records[k] /\ \A j \in 1..k : records'[j] = records[j]
        BY <1>1, <1>2, <3>1
      <3> QED BY <3>1, <3>2 DEF JournalSound
    <2> QED BY <2>1, <2>2
  <1> QED BY <1>2, <1>5, <1>6 DEF JournalSound, SoundPlan, ValidPlanningInput

\* Raising flags keeps a sound journal sound.
LEMMA FlagsKeepJournal ==
  ASSUME TypeOK, JournalSound, JournalExtended, Len(records') = Len(records)
  PROVE  JournalSound'
  <1>1. Len(records) \in Nat
    BY DEF TypeOK
  <1>2. \A k \in 0..Len(records) : ImageAt(k)' = ImageAt(k)
    BY ExtensionKeeps
  <1>3. SourceValid'
    <2> SUFFICES ASSUME NEW k \in 1..Len(records)
                 PROVE  /\ records'[k].prepared.sequence = k
                        /\ \A j \in 1..(k-1) :
                             records'[j].prepared.input.id # records'[k].prepared.input.id
                        /\ records'[k].prepared.before = ImageAt(k-1)'
                        /\ k < Len(records) => records'[k].ready
      BY DEF SourceValid
    <2>1. SourceValid
      BY DEF JournalSound
    <2>2. k - 1 \in 0..Len(records)
      BY <1>1
    <2>3. /\ records'[k].prepared = records[k].prepared
          /\ records[k].ready => records'[k].ready
          /\ \A j \in 1..(k-1) : records'[j].prepared = records[j].prepared
      BY <1>1 DEF JournalExtended
    <2>4. /\ records[k].prepared.sequence = k
          /\ \A j \in 1..(k-1) : records[j].prepared.input.id # records[k].prepared.input.id
          /\ records[k].prepared.before = ImageAt(k-1)
          /\ k < Len(records) => records[k].ready
      BY <2>1 DEF SourceValid
    <2>5. ImageAt(k-1)' = ImageAt(k-1)
      BY <1>2, <2>2
    <2> QED BY <2>3, <2>4, <2>5
  <1>4. ASSUME NEW k \in 1..Len(records)
        PROVE  /\ SoundPlan(records'[k].prepared)
               /\ Len(records'[k].prepared.after[Meta]) = k
               /\ \A j \in 1..k : records'[k].prepared.after[Meta][j] = records'[j].prepared.input
    BY <1>1 DEF JournalSound, JournalExtended
  <1> QED BY <1>3, <1>4 DEF JournalSound, SoundPlan, ValidPlanningInput

LEMMA JournalStep ==
  ASSUME TypeOK, JournalSound, CallSound, [Next]_vars
  PROVE  JournalSound'
  <1>1. CASE UNCHANGED records
    BY <1>1, FlagsKeepJournal, StepExtends
  <1>2. CASE Commit
    BY <1>2, CommitKeepsJournal
  <1>3. CASE MarkReady
    BY <1>3, MarkReadyExtends, FlagsKeepJournal
  <1>4. CASE \E n \in 1..Len(records), ok \in BOOLEAN : Acknowledge(n, ok)
    BY <1>4, AcknowledgeExtends, FlagsKeepJournal
  <1> QED BY <1>1, <1>2, <1>3, <1>4, StepExtends

\* Only SaveCheckpoint writes checkpoints.
LEMMA CheckpointsWritten ==
  ASSUME [Next]_vars
  PROVE  UNCHANGED checkpoints \/ \E ok \in BOOLEAN : SaveCheckpoint(ok)
  <1> USE DEF store, session, history
  <1>1. CASE Step
    BY <1>1 DEF Step, Commit, InstallProjection, MarkReady, Complete, Recover, Open, RecoverDone,
                PublishEvents, CallFails, Crash, Close, Down
  <1>2. CASE \E x \in Input :
               ApplyDuplicate(x) \/ ApplyRefused(x) \/ ApplyPlanned(x) \/ ForkAndPlan(x) \/ DecodePrepared(x)
    BY <1>2 DEF ApplyDuplicate, ApplyRefused, ApplyPlanned, ForkAndPlan, DecodePrepared
  <1>3. CASE \E q \in plans : ApplyPrepared(q)
    BY <1>3 DEF ApplyPrepared
  <1>4. CASE \E n \in 1..Len(records), ok \in BOOLEAN : Acknowledge(n, ok)
    BY <1>4 DEF Acknowledge
  <1>5. CASE \E r \in Reader : ReaderOpen(r) \/ ReaderClose(r)
    BY <1>5 DEF ReaderOpen, ReaderClose
  <1>6. CASE UNCHANGED vars
    BY <1>6 DEF vars
  <1> QED BY <1>1, <1>2, <1>3, <1>4, <1>5, <1>6 DEF Next

LEMMA CheckpointStep ==
  ASSUME TypeOK, CheckpointsValid, [Next]_vars
  PROVE  CheckpointsValid'
  <1>1. JournalExtended /\ Len(records) \in Nat
    BY StepExtends DEF TypeOK
  <1>2. ASSUME NEW cp \in checkpoints
        PROVE  /\ cp.sequence <= Len(records')
               /\ AllReady(cp.sequence)'
               /\ cp.img = ImageAt(cp.sequence)'
    <2>1. cp.sequence \in 0..Len(records)
      BY <1>1 DEF CheckpointsValid, TypeOK
    <2> QED BY <1>1, <2>1, ExtensionKeeps DEF CheckpointsValid, JournalExtended
  <1>3. CASE UNCHANGED checkpoints
    BY <1>2, <1>3 DEF CheckpointsValid
  <1>4. CASE \E ok \in BOOLEAN : SaveCheckpoint(ok)
    <2> DEFINE new == [sequence |-> Len(records), img |-> comp.img]
    <2>1. checkpoints' = checkpoints \cup {new} /\ records' = records /\ Reconciled(comp)
      BY <1>4 DEF SaveCheckpoint, Serving
    <2>2. AllReady(Len(records)) /\ comp.img = ImageAt(Len(records))
      BY <2>1 DEF Reconciled
    <2> SUFFICES ASSUME NEW cp \in checkpoints'
                 PROVE  /\ cp.sequence <= Len(records')
                        /\ AllReady(cp.sequence)'
                        /\ cp.img = ImageAt(cp.sequence)'
      BY DEF CheckpointsValid
    <2>4. CASE cp \in checkpoints
      BY <1>2, <2>4
    <2>5. CASE cp = new
      <3>1. cp.sequence = Len(records) /\ cp.img = comp.img
        BY <2>5
      <3> QED BY <1>1, <2>1, <2>2, <3>1 DEF AllReady, ImageAt
    <2> QED BY <2>1, <2>4, <2>5
  <1> QED BY <1>3, <1>4, CheckpointsWritten

\* Held plans stay sound: a planner validated each of them.
LEMMA PlanIsSound ==
  ASSUME NEW img \in Image, NEW n \in Nat, NEW x \in Input, ValidPlanningInput(img, x)
  PROVE  SoundPlan(Plan(img, n, x))
  <1>1. /\ Plan(img, n, x).before = img
        /\ Plan(img, n, x).input = x
        /\ Plan(img, n, x).after = Project(img, x)
    BY DEF Plan
  <1> QED BY <1>1 DEF SoundPlan

LEMMA PlansStep ==
  ASSUME TypeOK, PlansSound, [Next]_vars
  PROVE  PlansSound'
  <1> USE DEF store, session, history
  <1>1. plans' \subseteq plans => PlansSound'
    BY DEF PlansSound, SoundPlan, ValidPlanningInput
  <1>2. ASSUME NEW x \in Input, ForkAndPlan(x) PROVE PlansSound'
    <2>1. PICK base \in {[img |-> comp.img, sequence |-> comp.sequence]} \cup
                 {[img |-> q.prepared.after, sequence |-> q.prepared.sequence] :
                    q \in {r \in plans : r.planned}} :
             /\ ValidPlanningInput(base.img, x)
             /\ plans' = plans \cup {[prepared |-> Plan(base.img, base.sequence, x), planned |-> TRUE]}
      BY <1>2 DEF ForkAndPlan
    <2>2. base.img \in Image /\ base.sequence \in Nat
      BY DEF TypeOK, Components, Payload
    <2>3. SoundPlan(Plan(base.img, base.sequence, x))
      BY <2>1, <2>2, PlanIsSound
    <2> SUFFICES ASSUME NEW q \in plans', q.planned PROVE SoundPlan(q.prepared)
      BY DEF PlansSound, SoundPlan, ValidPlanningInput
    <2>4. q \in plans \/ q.prepared = Plan(base.img, base.sequence, x)
      BY <2>1
    <2> QED BY <2>3, <2>4 DEF PlansSound
  <1>3. ASSUME NEW x \in Input, DecodePrepared(x) PROVE PlansSound'
    <2> SUFFICES ASSUME NEW q \in plans', q.planned PROVE SoundPlan(q.prepared)
      BY DEF PlansSound, SoundPlan, ValidPlanningInput
    <2>1. q \in plans
      BY <1>3 DEF DecodePrepared
    <2> QED BY <2>1 DEF PlansSound
  <1>4. CASE Step
    <2>1. plans' \subseteq plans
      BY <1>4 DEF Step, Commit, InstallProjection, MarkReady, Complete, Recover, Open, RecoverDone,
                  PublishEvents, CallFails, Crash, Close, Down
    <2> QED BY <1>1, <2>1
  <1>5. CASE \E x \in Input : ApplyDuplicate(x) \/ ApplyRefused(x) \/ ApplyPlanned(x)
    BY <1>1, <1>5 DEF ApplyDuplicate, ApplyRefused, ApplyPlanned
  <1>6. CASE \E q \in plans : ApplyPrepared(q)
    BY <1>1, <1>6 DEF ApplyPrepared
  <1>7. CASE \E ok \in BOOLEAN : SaveCheckpoint(ok)
    BY <1>1, <1>7 DEF SaveCheckpoint
  <1>8. CASE \E n \in 1..Len(records), ok \in BOOLEAN : Acknowledge(n, ok)
    BY <1>1, <1>8 DEF Acknowledge
  <1>9. CASE \E r \in Reader : ReaderOpen(r) \/ ReaderClose(r)
    BY <1>1, <1>9 DEF ReaderOpen, ReaderClose
  <1>10. CASE UNCHANGED vars
    BY <1>1, <1>10 DEF vars
  <1> QED BY <1>2, <1>3, <1>4, <1>5, <1>6, <1>7, <1>8, <1>9, <1>10 DEF Next

\* Components that do not change stay where they are while flags are raised.
LEMMA CompKept ==
  ASSUME TypeOK, JournalSound', JournalExtended, Len(records') = Len(records), UNCHANGED comp
  PROVE  /\ Rolling(comp) => Rolling(comp)'
         /\ Reconciled(comp) => Reconciled(comp)'
  <1>1. Len(records) \in Nat /\ comp.sequence \in Nat
    BY DEF TypeOK, Components
  <1>2. \A k \in 0..Len(records) : ImageAt(k)' = ImageAt(k) /\ (AllReady(k) => AllReady(k)')
    BY ExtensionKeeps
  <1>3. ASSUME Rolling(comp) PROVE Rolling(comp)'
    <2>1. comp.sequence \in 0..Len(records)
      BY <1>1, <1>3 DEF Rolling
    <2>2. CASE comp.sequence = Len(records)
      BY <1>2, <1>3, <2>1, <2>2 DEF Rolling
    <2>3. CASE comp.sequence # Len(records)
      <3>1. comp.sequence + 1 \in 1..Len(records) /\ comp.sequence + 1 \in 0..Len(records)
        BY <1>1, <2>1, <2>3
      <3>2. records'[comp.sequence + 1].prepared = records[comp.sequence + 1].prepared
        BY <3>1 DEF JournalExtended
      <3>3. /\ ImageAt(comp.sequence)' = ImageAt(comp.sequence)
            /\ ImageAt(comp.sequence + 1)' = ImageAt(comp.sequence + 1)
            /\ AllReady(comp.sequence)'
        BY <1>2, <1>3, <2>1, <3>1 DEF Rolling
      <3> QED BY <1>3, <2>3, <3>2, <3>3 DEF Rolling
    <2> QED BY <2>2, <2>3
  <1>4. ASSUME Reconciled(comp) PROVE Reconciled(comp)'
    <2>1. Len(records) \in 0..Len(records)
      BY <1>1
    <2>2. \A k \in 1..Len(records) : records'[k].prepared = records[k].prepared
      BY DEF JournalExtended
    <2>3. SourceValid'
      BY DEF JournalSound
    <2>4. ImageAt(Len(records))' = ImageAt(Len(records)) /\ AllReady(Len(records))'
      BY <1>2, <1>4, <2>1 DEF Reconciled
    <2> QED BY <1>4, <2>2, <2>3, <2>4 DEF Reconciled
  <1> QED BY <1>3, <1>4

\* The same for the components a recovery is rebuilding.
LEMMA FreshKept ==
  ASSUME TypeOK, JournalSound', JournalExtended, Len(records') = Len(records), UNCHANGED fresh
  PROVE  Rolling(fresh) => Rolling(fresh)'
  <1>1. Len(records) \in Nat /\ fresh.sequence \in Nat
    BY DEF TypeOK, Components
  <1>2. \A k \in 0..Len(records) : ImageAt(k)' = ImageAt(k) /\ (AllReady(k) => AllReady(k)')
    BY ExtensionKeeps
  <1>3. ASSUME Rolling(fresh) PROVE Rolling(fresh)'
    <2>1. fresh.sequence \in 0..Len(records)
      BY <1>1, <1>3 DEF Rolling
    <2>2. CASE fresh.sequence = Len(records)
      BY <1>2, <1>3, <2>1, <2>2 DEF Rolling
    <2>3. CASE fresh.sequence # Len(records)
      <3>1. fresh.sequence + 1 \in 1..Len(records) /\ fresh.sequence + 1 \in 0..Len(records)
        BY <1>1, <2>1, <2>3
      <3>2. records'[fresh.sequence + 1].prepared = records[fresh.sequence + 1].prepared
        BY <3>1 DEF JournalExtended
      <3>3. /\ ImageAt(fresh.sequence)' = ImageAt(fresh.sequence)
            /\ ImageAt(fresh.sequence + 1)' = ImageAt(fresh.sequence + 1)
            /\ AllReady(fresh.sequence)'
        BY <1>2, <1>3, <2>1, <3>1 DEF Rolling
      <3> QED BY <1>3, <2>3, <3>2, <3>3 DEF Rolling
    <2> QED BY <2>2, <2>3
  <1> QED BY <1>3

\* New components take over where the lemmas above left them.
LEMMA CompMoves ==
  ASSUME UNCHANGED records, NEW c, comp' = c
  PROVE  /\ Rolling(c) => Rolling(comp)'
         /\ Reconciled(c) => Reconciled(comp)'
  BY DEF Rolling, Reconciled, ImageAt, AllReady, SourceValid, Genesis

LEMMA FreshMoves ==
  ASSUME UNCHANGED records, NEW c, fresh' = c
  PROVE  Rolling(c) => Rolling(fresh)'
  BY DEF Rolling, ImageAt, AllReady, Genesis

\* Every call stays at a definite point of the protocol.
LEMMA CallStep ==
  ASSUME TypeOK, TypeOK', JournalSound, JournalSound', CheckpointsValid, PlansSound, CallSound,
         [Next]_vars
  PROVE  CallSound'
  <1> USE DEF store, session, history
  <1>0. Len(records) \in Nat /\ JournalExtended
    BY StepExtends DEF TypeOK
  \* Steps that leave the journal and the components alone.
  <1>1. ASSUME UNCHANGED records, UNCHANGED comp
        PROVE  /\ Rolling(comp) => Rolling(comp)'
               /\ Reconciled(comp) => Reconciled(comp)'
    BY <1>1, CompMoves
  <1>2. ASSUME UNCHANGED records, UNCHANGED fresh
        PROVE  Rolling(fresh) => Rolling(fresh)'
    BY <1>2, FreshMoves
  <1>3. ASSUME UNCHANGED <<records, process, healthy, call, prepared, comp, fresh>>
        PROVE  CallSound'
    BY <1>1, <1>2, <1>3 DEF CallSound, SoundPlan, ValidPlanningInput
  <1>4. ASSUME UNCHANGED <<records, comp>>, process' = "up", call' = "idle", healthy' => Reconciled(comp)
        PROVE  CallSound'
    BY <1>1, <1>4 DEF CallSound
  <1>5. CASE Commit
    <2>1. /\ Len(records') = Len(records) + 1
          /\ \A k \in 1..Len(records) : records'[k] = records[k]
      BY <1>5, CommitExtends
    <2>2. /\ Reconciled(comp) /\ comp' = comp /\ call' = "project" /\ process' = "up" /\ ~healthy'
      BY <1>5 DEF Commit, CallSound
    <2>3. comp.sequence = Len(records) /\ comp.pending = NoPending /\ comp.img = ImageAt(Len(records))
          /\ AllReady(Len(records))
      BY <2>2 DEF Reconciled
    <2>5. AllReady(comp.sequence)'
      BY <1>0, <2>1, <2>2, <2>3 DEF AllReady
    <2>6. comp'.img = ImageAt(comp.sequence)'
      BY <1>0, <2>1, <2>2, <2>3 DEF ImageAt, Genesis
    <2>7. comp'.img \in Image
      BY DEF TypeOK, Components
    <2>8. comp'.pending.next = 0
      BY <2>2, <2>3 DEF NoPending
    <2>9. comp'.img = [o \in Owner |-> IF o <= comp'.pending.next
                                      THEN ImageAt(comp.sequence + 1)'[o]
                                      ELSE ImageAt(comp.sequence)'[o]]
      <3>1. comp'.img = [o \in Owner |-> comp'.img[o]]
        BY <2>7 DEF Image
      <3>2. \A o \in Owner : ~ (o <= comp'.pending.next)
        BY <2>8 DEF Owner
      <3> QED BY <2>6, <3>1, <3>2
    <2>10. Rolling(comp)'
      BY <1>0, <2>1, <2>2, <2>3, <2>5, <2>9 DEF Rolling
    <2> QED BY <1>0, <2>1, <2>2, <2>3, <2>10 DEF CallSound
  <1>6. CASE InstallProjection
    <2> DEFINE c == Driven
               d == Installed(c, records[c.sequence + 1].prepared, c.pending.next + 1)
    <2>1. c \in Components /\ c.sequence < Len(records) /\ c.pending.next < N /\ Resuming
      BY <1>6, DrivenType DEF InstallProjection, HasTail
    <2>2. Rolling(c)
      BY <2>1 DEF CallSound, Driven, Resuming
    <2>3. Rolling(d)
      BY <2>1, <2>2, InstallRolls
    <2>4. SetDriven(d) /\ UNCHANGED <<records, process, healthy, call, prepared>>
      BY <1>6 DEF InstallProjection, TailRecord
    <2>5. d.sequence = c.sequence
      BY DEF Installed
    <2>6. ~healthy /\ call # "idle" /\ call # "commit" /\ process = "up"
      BY <2>1 DEF Resuming, CallSound
    <2> HIDE DEF d
    <2>7. CASE call = "project"
      <3>1. comp' = d /\ c = comp
        BY <2>4, <2>7 DEF SetDriven, Driven
      <3>2. Rolling(comp)'
        BY <2>3, <2>4, <3>1, CompMoves
      <3> QED BY <2>4, <2>5, <2>6, <2>7, <3>1, <3>2 DEF CallSound
    <2>8. CASE call # "project"
      <3>1. fresh' = d
        BY <2>4, <2>8 DEF SetDriven
      <3>2. Rolling(fresh)'
        BY <2>3, <2>4, <3>1, FreshMoves
      <3> QED BY <2>4, <2>6, <2>8, <3>2 DEF CallSound
    <2> QED BY <2>7, <2>8
  <1>7. CASE MarkReady
    <2>1. UNCHANGED <<process, healthy, call, prepared, comp, fresh>> /\ Resuming
      BY <1>7 DEF MarkReady, HasTail
    <2>2. Len(records') = Len(records)
      BY <1>7, MarkReadyExtends
    <2>3. /\ Rolling(comp) => Rolling(comp)'
          /\ Rolling(fresh) => Rolling(fresh)'
      BY <1>0, <2>1, <2>2, CompKept, FreshKept
    <2> QED BY <2>1, <2>2, <2>3 DEF CallSound, Resuming
  <1>8. CASE Complete
    <2> DEFINE c == Driven
               d == Completed(c)
    <2>1. c \in Components /\ c.sequence < Len(records) /\ Resuming /\ c.pending.next = N
      BY <1>8, DrivenType DEF Complete, HasTail, AllInstalled
    <2>2. Rolling(c)
      BY <2>1 DEF CallSound, Driven, Resuming
    <2>3. records[c.sequence + 1].ready
      BY <1>8 DEF Complete, TailRecord
    <2>4. Rolling(d)
      BY <2>1, <2>2, <2>3, CompleteRolls
    <2>5. SetDriven(d) /\ UNCHANGED <<records, process>>
      BY <1>8 DEF Complete
    <2>6. d.sequence = c.sequence + 1
      BY DEF Completed
    <2>7. ~healthy /\ call # "idle" /\ call # "commit" /\ process = "up"
      BY <2>1 DEF Resuming, CallSound
    <2> HIDE DEF d
    <2>8. CASE call = "project"
      <3>1. comp' = d /\ c = comp /\ d.sequence = Len(records)
        BY <2>5, <2>6, <2>8 DEF SetDriven, Driven, CallSound
      <3>2. Reconciled(d)
        BY <2>4, <3>1, RolledIsReconciled
      <3>3. Reconciled(comp)'
        BY <2>5, <3>1, <3>2, CompMoves
      <3>4. call' = "idle" /\ process' = "up"
        BY <1>8, <2>5, <2>7, <2>8 DEF Complete
      <3> QED BY <3>3, <3>4 DEF CallSound
    <2>9. CASE call # "project"
      <3>1. fresh' = d /\ UNCHANGED <<call, healthy, prepared>>
        BY <1>8, <2>5, <2>9 DEF SetDriven, Complete
      <3>2. Rolling(fresh)'
        BY <2>4, <2>5, <3>1, FreshMoves
      <3> QED BY <2>5, <2>7, <2>9, <3>1, <3>2 DEF CallSound
    <2> QED BY <2>8, <2>9
  <1>9. CASE Recover \/ Open
    <2>1. /\ fresh' \in Restored /\ UNCHANGED records /\ process' = "up"
          /\ call' \in {"recover", "open"} /\ ~healthy'
      BY <1>9 DEF Recover, Open, CallSound, TypeOK
    <2>2. Rolling(fresh)'
      BY <2>1, RestoredRolls, FreshMoves
    <2> QED BY <2>1, <2>2 DEF CallSound
  <1>10. CASE RecoverDone
    <2>1. /\ Reconciled(fresh) /\ comp' = fresh /\ call' = "idle" /\ process' = "up"
          /\ UNCHANGED records
      BY <1>10 DEF RecoverDone, CallSound
    <2>2. Reconciled(comp)'
      BY <2>1, CompMoves
    <2> QED BY <2>1, <2>2 DEF CallSound
  <1>11. CASE PublishEvents
    BY <1>3, <1>11 DEF PublishEvents
  <1>12. CASE CallFails
    BY <1>12 DEF CallFails, CallSound
  <1>13. CASE Crash \/ Close
    BY <1>13 DEF Crash, Close, Down, CallSound
  <1>14. ASSUME NEW x \in Input, ApplyDuplicate(x) \/ ForkAndPlan(x) \/ DecodePrepared(x)
         PROVE  CallSound'
    BY <1>3, <1>14 DEF ApplyDuplicate, ForkAndPlan, DecodePrepared
  <1>15. ASSUME NEW x \in Input, ApplyRefused(x) PROVE CallSound'
    BY <1>4, <1>15 DEF ApplyRefused, Serving
  <1>16. ASSUME NEW x \in Input, ApplyPlanned(x) PROVE CallSound'
    <2>1. /\ Reconciled(comp) /\ UNCHANGED <<records, comp, process>> /\ process = "up"
          /\ call' = "commit" /\ ~healthy' /\ ValidPlanningInput(comp.img, x)
          /\ prepared' = Plan(comp.img, comp.sequence, x)
      BY <1>16 DEF ApplyPlanned, Serving
    <2>2. comp.img \in Image /\ comp.sequence \in Nat
      BY DEF TypeOK, Components
    <2>3. SoundPlan(prepared')
      BY <2>1, <2>2, PlanIsSound
    <2>4. SoundPlan(prepared)'
      BY <2>3 DEF SoundPlan, ValidPlanningInput
    <2>5. prepared'.sequence = comp.sequence + 1 /\ prepared'.before = comp.img
      BY <2>1 DEF Plan
    <2> QED BY <1>1, <2>1, <2>4, <2>5 DEF CallSound
  <1>17. ASSUME NEW q \in plans, ApplyPrepared(q) PROVE CallSound'
    <2>1. /\ Reconciled(comp) /\ UNCHANGED <<records, comp, process>> /\ process = "up" /\ call = "idle"
      BY <1>17 DEF ApplyPrepared, Serving
    <2>2. CASE call' = "idle"
      BY <1>4, <2>1, <2>2
    <2>3. CASE call' # "idle"
      <3>1. /\ q.planned /\ prepared' = q.prepared /\ call' = "commit" /\ ~healthy'
            /\ q.prepared.sequence = comp.sequence + 1 /\ q.prepared.before = comp.img
        BY <1>17, <2>1, <2>3 DEF ApplyPrepared, Admissible
      <3>2. SoundPlan(prepared)'
        BY <3>1 DEF PlansSound, SoundPlan, ValidPlanningInput
      <3> QED BY <1>1, <2>1, <3>1, <3>2 DEF CallSound
    <2> QED BY <2>2, <2>3
  <1>18. ASSUME NEW ok \in BOOLEAN, SaveCheckpoint(ok) PROVE CallSound'
    BY <1>4, <1>18 DEF SaveCheckpoint, Serving
  <1>19. ASSUME NEW n \in 1..Len(records), NEW ok \in BOOLEAN, Acknowledge(n, ok) PROVE CallSound'
    <2>1. /\ Reconciled(comp) /\ UNCHANGED comp /\ process' = "up" /\ call' = "idle"
      BY <1>19 DEF Acknowledge, Serving
    <2>2. Len(records') = Len(records)
      BY <1>19, AcknowledgeExtends
    <2>3. Reconciled(comp)'
      BY <1>0, <2>1, <2>2, CompKept
    <2> QED BY <2>1, <2>3 DEF CallSound
  <1>20. ASSUME NEW r \in Reader, ReaderOpen(r) \/ ReaderClose(r) PROVE CallSound'
    BY <1>3, <1>20 DEF ReaderOpen, ReaderClose
  <1>21. CASE UNCHANGED vars
    BY <1>3, <1>21 DEF vars
  <1> QED
    BY <1>5, <1>6, <1>7, <1>8, <1>9, <1>10, <1>11, <1>12, <1>13, <1>14, <1>15, <1>16, <1>17,
       <1>18, <1>19, <1>20, <1>21 DEF Next, Step

LEMMA ProtocolInit == Init => ProtocolInvariant
  <1> SUFFICES ASSUME Init PROVE ProtocolInvariant
    OBVIOUS
  <1>1. Len(records) = 0 /\ checkpoints = {} /\ plans = {} /\ call = "idle" /\ process = "up"
    BY DEF Init
  <1>2. SourceValid /\ AllReady(0)
    BY <1>1 DEF SourceValid, AllReady
  <1>3. Reconciled(comp)
    <2>1. comp.pending = NoPending /\ comp.sequence = 0 /\ comp.img = Genesis
      BY DEF Init, NewComponents
    <2>2. Len(Genesis[Meta]) = 0
      BY MetaIsOwner DEF Genesis
    <2> QED BY <1>1, <1>2, <2>1, <2>2 DEF Reconciled, ImageAt
  <1> QED BY <1>1, <1>2, <1>3 DEF ProtocolInvariant, JournalSound, CheckpointsValid, PlansSound, CallSound

\* The protocol invariant holds in every reachable state.
THEOREM ProtocolCorrect == Spec => []ProtocolInvariant
  <1>1. TypeOK /\ TypeOK' /\ ProtocolInvariant /\ [Next]_vars => ProtocolInvariant'
    <2> SUFFICES ASSUME TypeOK, TypeOK', ProtocolInvariant, [Next]_vars PROVE ProtocolInvariant'
      OBVIOUS
    <2>1. JournalSound /\ CheckpointsValid /\ PlansSound /\ CallSound
      BY DEF ProtocolInvariant
    <2>2. JournalSound' /\ CheckpointsValid' /\ PlansSound'
      BY <2>1, JournalStep, CheckpointStep, PlansStep
    <2>3. CallSound'
      BY <2>1, <2>2, CallStep
    <2> QED BY <2>2, <2>3 DEF ProtocolInvariant
  <1> QED BY <1>1, ProtocolInit, TypeCorrect, PTL DEF Spec

-----------------------------------------------------------------------------
(* What the protocol invariant gives *)

\* A healthy runtime serves exactly the projection of the Ready journal.
THEOREM ServesJournal == Spec => []ServedStateIsJournal
  <1>1. ProtocolInvariant => ServedStateIsJournal
    BY DEF ProtocolInvariant, CallSound, ServedStateIsJournal
  <1> QED BY <1>1, ProtocolCorrect, PTL

\* The store never writes what its own readers refuse.
THEOREM AlwaysReadable == Spec => []StoreReadable
  <1>1. ProtocolInvariant => StoreReadable
    BY DEF ProtocolInvariant, JournalSound, StoreReadable
  <1> QED BY <1>1, ProtocolCorrect, PTL

\* No economic fact enters the journal twice or out of order.
THEOREM FactsExactlyOnce == Spec => []ExactlyOnce
  <1>1. TypeOK /\ ProtocolInvariant => ExactlyOnce
    <2> SUFFICES ASSUME TypeOK, JournalSound, NEW j \in 1..Len(records), NEW k \in 1..Len(records), j < k
                 PROVE  /\ records[j].prepared.input.id # records[k].prepared.input.id
                        /\ records[j].prepared.input.source # records[k].prepared.input.source
                        /\ records[j].prepared.input.runtime_sequence
                             < records[k].prepared.input.runtime_sequence
      BY DEF ExactlyOnce, ProtocolInvariant
    <2>1. k - 1 \in 0..Len(records) /\ j \in 1..(k-1)
      BY DEF TypeOK
    <2>2. records[k].prepared.before = ImageAt(k-1) /\ SoundPlan(records[k].prepared)
      BY DEF JournalSound, SourceValid
    <2>3. Len(ImageAt(k-1)[Meta]) = k - 1 /\ ImageAt(k-1)[Meta][j] = records[j].prepared.input
      BY <2>1, MetaLists
    <2> QED BY <2>1, <2>2, <2>3 DEF SoundPlan, ValidPlanningInput
  <1> QED BY <1>1, TypeCorrect, ProtocolCorrect, PTL

\* Whatever apply confirmed stays in the journal and stays Ready.
LEMMA ConfirmedStep ==
  ASSUME TypeOK, ConfirmedIsDurable, [Next]_vars
  PROVE  ConfirmedIsDurable'
  <1> USE DEF store, session, history
  <1>0. JournalExtended /\ Len(records) \in Nat
    BY StepExtends DEF TypeOK
  <1>1. ASSUME NEW k \in 1..Len(records), records[k].ready
        PROVE  /\ k \in 1..Len(records')
               /\ records'[k].prepared.input = records[k].prepared.input
               /\ records'[k].ready
    BY <1>0, <1>1 DEF JournalExtended
  <1>2. ASSUME NEW x \in confirmed
        PROVE  \E k \in 1..Len(records') : records'[k].prepared.input = x /\ records'[k].ready
    <2>1. PICK k \in 1..Len(records) : records[k].prepared.input = x /\ records[k].ready
      BY DEF ConfirmedIsDurable
    <2> QED BY <1>1, <2>1
  <1>3. ASSUME NEW k \in 1..Len(records), records[k].ready,
               confirmed' = confirmed \cup {records[k].prepared.input}
        PROVE  ConfirmedIsDurable'
    <2> SUFFICES ASSUME NEW x \in confirmed'
                 PROVE  \E m \in 1..Len(records') : records'[m].prepared.input = x /\ records'[m].ready
      BY DEF ConfirmedIsDurable
    <2>1. CASE x \in confirmed
      BY <1>2, <2>1
    <2>2. CASE x = records[k].prepared.input
      BY <1>1, <1>3, <2>2
    <2> QED BY <1>3, <2>1, <2>2
  <1>4. UNCHANGED confirmed => ConfirmedIsDurable'
    BY <1>2 DEF ConfirmedIsDurable
  <1>5. ASSUME NEW x \in Input, ApplyDuplicate(x) PROVE ConfirmedIsDurable'
    <2>1. PICK k \in 1..Len(records) : records[k].prepared.input = x
      BY <1>5 DEF ApplyDuplicate
    <2>2. records[k].ready /\ confirmed' = confirmed \cup {x}
      BY <1>5 DEF ApplyDuplicate, Serving, Reconciled, AllReady
    <2> QED BY <1>3, <2>1, <2>2
  <1>6. ASSUME NEW q \in plans, ApplyPrepared(q) PROVE ConfirmedIsDurable'
    <2>1. CASE UNCHANGED confirmed
      BY <1>4, <2>1
    <2>2. CASE ~ UNCHANGED confirmed
      <3> DEFINE k == q.prepared.sequence
      <3>1. /\ k <= Len(records) /\ records[k].prepared = q.prepared
            /\ confirmed' = confirmed \cup {q.prepared.input}
        BY <1>6, <2>2 DEF ApplyPrepared
      <3>2. k \in 1..Len(records)
        BY <1>0, <1>6, <3>1 DEF TypeOK, Payload
      <3>3. records[k].ready
        BY <1>6, <3>2 DEF ApplyPrepared, Serving, Reconciled, AllReady
      <3> QED BY <1>3, <3>1, <3>2, <3>3
    <2> QED BY <2>1, <2>2
  <1>7. CASE Complete
    <2>1. CASE UNCHANGED confirmed
      BY <1>4, <2>1
    <2>2. CASE ~ UNCHANGED confirmed
      <3>1. /\ confirmed' = confirmed \cup {TailRecord.prepared.input} /\ TailRecord.ready /\ HasTail
        BY <1>7, <2>2 DEF Complete
      <3> QED BY <1>3, <3>1, DrivenType DEF TailRecord
    <2> QED BY <2>1, <2>2
  <1>8. CASE Step /\ ~Complete
    BY <1>4, <1>8 DEF Step, Commit, InstallProjection, MarkReady, Recover, Open, RecoverDone,
                      PublishEvents, CallFails, Crash, Close, Down
  <1>9. CASE \E x \in Input : ApplyRefused(x) \/ ApplyPlanned(x) \/ ForkAndPlan(x) \/ DecodePrepared(x)
    BY <1>4, <1>9 DEF ApplyRefused, ApplyPlanned, ForkAndPlan, DecodePrepared
  <1>10. CASE \E ok \in BOOLEAN : SaveCheckpoint(ok)
    BY <1>4, <1>10 DEF SaveCheckpoint
  <1>11. CASE \E n \in 1..Len(records), ok \in BOOLEAN : Acknowledge(n, ok)
    BY <1>4, <1>11 DEF Acknowledge
  <1>12. CASE \E r \in Reader : ReaderOpen(r) \/ ReaderClose(r)
    BY <1>4, <1>12 DEF ReaderOpen, ReaderClose
  <1>13. CASE UNCHANGED vars
    BY <1>4, <1>13 DEF vars
  <1> QED
    BY <1>5, <1>6, <1>7, <1>8, <1>9, <1>10, <1>11, <1>12, <1>13 DEF Next

\* An input whose apply returned Ok is a Ready fact for good.
THEOREM ConfirmedForGood == Spec => []ConfirmedIsDurable
  <1>1. Init => ConfirmedIsDurable
    BY DEF Init, ConfirmedIsDurable
  <1> QED BY <1>1, ConfirmedStep, TypeCorrect, PTL DEF Spec

-----------------------------------------------------------------------------
(* The outbox, the readers and the images in memory *)

\* Only PublishEvents hands events to the consumer.
LEMMA PublishedBy ==
  ASSUME [Next]_vars
  PROVE  UNCHANGED published \/ PublishEvents
  <1> USE DEF store, session, history
  <1>1. CASE Step
    BY <1>1 DEF Step, Commit, InstallProjection, MarkReady, Complete, Recover, Open, RecoverDone,
                CallFails, Crash, Close, Down
  <1>2. CASE \E x \in Input :
               ApplyDuplicate(x) \/ ApplyRefused(x) \/ ApplyPlanned(x) \/ ForkAndPlan(x) \/ DecodePrepared(x)
    BY <1>2 DEF ApplyDuplicate, ApplyRefused, ApplyPlanned, ForkAndPlan, DecodePrepared
  <1>3. CASE \E q \in plans : ApplyPrepared(q)
    BY <1>3 DEF ApplyPrepared
  <1>4. CASE \E ok \in BOOLEAN : SaveCheckpoint(ok)
    BY <1>4 DEF SaveCheckpoint
  <1>5. CASE \E n \in 1..Len(records), ok \in BOOLEAN : Acknowledge(n, ok)
    BY <1>5 DEF Acknowledge
  <1>6. CASE \E r \in Reader : ReaderOpen(r) \/ ReaderClose(r)
    BY <1>6 DEF ReaderOpen, ReaderClose
  <1>7. CASE UNCHANGED vars
    BY <1>7 DEF vars
  <1> QED BY <1>1, <1>2, <1>3, <1>4, <1>5, <1>6, <1>7 DEF Next

\* A record that is delivered after a step was delivered before, or the step
\* acknowledged it.
LEMMA DeliveredBy ==
  ASSUME TypeOK, [Next]_vars, NEW k \in 1..Len(records'), records'[k].delivered
  PROVE  /\ k \in 1..Len(records)
         /\ \/ records[k].delivered
            \/ \E ok \in BOOLEAN : Acknowledge(k, ok)
  <1>0. Len(records) \in Nat /\ records \in Seq(Record)
    BY DEF TypeOK
  <1>1. CASE UNCHANGED records
    BY <1>1
  <1>2. CASE Commit
    BY <1>0, <1>2, CommitExtends
  <1>3. CASE MarkReady
    <2> DEFINE n == Driven.sequence + 1
    <2>1. n \in 1..Len(records) /\ records' = [records EXCEPT ![n].ready = TRUE]
      BY <1>3, DrivenType DEF MarkReady
    <2> HIDE DEF n
    <2>2. /\ Len(records') = Len(records)
          /\ \A j \in 1..Len(records) : j # n => records'[j] = records[j]
          /\ records'[n].delivered = records[n].delivered
      BY <1>0, <2>1, ReadyRaised
    <2> QED BY <2>1, <2>2
  <1>4. CASE \E n \in 1..Len(records), ok \in BOOLEAN : Acknowledge(n, ok)
    <2>1. PICK n \in 1..Len(records), ok \in BOOLEAN : Acknowledge(n, ok)
      BY <1>4
    <2>2. records' = [records EXCEPT ![n].delivered = TRUE]
      BY <2>1 DEF Acknowledge
    <2>3. /\ Len(records') = Len(records)
          /\ \A j \in 1..Len(records) : j # n => records'[j] = records[j]
      BY <1>0, <2>2, DeliveredRaised
    <2> QED BY <2>1, <2>3
  <1> QED BY <1>1, <1>2, <1>3, <1>4, StepExtends

LEMMA OutboxStep ==
  ASSUME TypeOK, OutboxSound, [Next]_vars
  PROVE  OutboxSound'
  <1>0. JournalExtended /\ Len(records) \in Nat
    BY StepExtends DEF TypeOK
  <1>1. published \subseteq published'
    BY PublishedBy DEF PublishEvents
  <1>2. ASSUME NEW p \in published'
        PROVE  \E k \in 1..Len(records') : records'[k].prepared = p /\ records'[k].ready
    <2>1. PICK k \in 1..Len(records) : records[k].prepared = p /\ records[k].ready
      <3>1. CASE p \in published
        BY <3>1 DEF OutboxSound
      <3>2. CASE p \notin published
        BY <3>2, PublishedBy DEF PublishEvents
      <3> QED BY <3>1, <3>2
    <2> QED BY <1>0, <2>1 DEF JournalExtended
  <1>3. ASSUME NEW k \in 1..Len(records'), records'[k].delivered
        PROVE  records'[k].prepared \in published'
    <2>1. k \in 1..Len(records) /\ (records[k].delivered \/ \E ok \in BOOLEAN : Acknowledge(k, ok))
      BY <1>3, DeliveredBy
    <2>2. records[k].prepared \in published
      BY <2>1 DEF OutboxSound, Acknowledge
    <2> QED BY <1>0, <1>1, <2>1, <2>2 DEF JournalExtended
  <1> QED BY <1>2, <1>3 DEF OutboxSound

\* pending_events and acknowledge: the consumer only ever sees Ready facts and
\* nothing is acknowledged unseen.
THEOREM OutboxCorrect == Spec => []OutboxSound
  <1>1. Init => OutboxSound
    BY DEF Init, OutboxSound
  <1> QED BY <1>1, OutboxStep, TypeCorrect, PTL DEF Spec

\* The shared lease: no reader has a snapshot while a process may write.
ReadersExcludeWriter ==
  /\ DOMAIN cut = Reader
  /\ process = "up" => \A r \in Reader : cut[r] = None

\* Without a process only Open and the readers can do anything.
LEMMA DownSteps ==
  ASSUME CallSound, process # "up", [Next]_vars
  PROVE  Open \/ UNCHANGED vars \/ \E r \in Reader : ReaderOpen(r) \/ ReaderClose(r)
  <1>1. call = "idle" /\ ~healthy
    BY DEF CallSound
  <1> QED BY <1>1 DEF Next, Step, Commit, InstallProjection, MarkReady, Complete, Recover, RecoverDone,
    PublishEvents, CallFails, Crash, Close, HasTail, Resuming, Serving, ApplyDuplicate, ApplyRefused,
    ApplyPlanned, ForkAndPlan, DecodePrepared, ApplyPrepared, SaveCheckpoint, Acknowledge

\* Only the readers move their cuts.
LEMMA CutsMove ==
  ASSUME [Next]_vars
  PROVE  UNCHANGED cut \/ \E r \in Reader : ReaderOpen(r) \/ ReaderClose(r)
  <1> USE DEF store, session, history
  <1>1. CASE Step
    BY <1>1 DEF Step, Commit, InstallProjection, MarkReady, Complete, Recover, Open, RecoverDone,
                PublishEvents, CallFails, Crash, Close, Down
  <1>2. CASE \E x \in Input :
               ApplyDuplicate(x) \/ ApplyRefused(x) \/ ApplyPlanned(x) \/ ForkAndPlan(x) \/ DecodePrepared(x)
    BY <1>2 DEF ApplyDuplicate, ApplyRefused, ApplyPlanned, ForkAndPlan, DecodePrepared
  <1>3. CASE \E q \in plans : ApplyPrepared(q)
    BY <1>3 DEF ApplyPrepared
  <1>4. CASE \E ok \in BOOLEAN : SaveCheckpoint(ok)
    BY <1>4 DEF SaveCheckpoint
  <1>5. CASE \E n \in 1..Len(records), ok \in BOOLEAN : Acknowledge(n, ok)
    BY <1>5 DEF Acknowledge
  <1>6. CASE UNCHANGED vars
    BY <1>6 DEF vars
  <1> QED BY <1>1, <1>2, <1>3, <1>4, <1>5, <1>6 DEF Next

LEMMA ReadersStep ==
  ASSUME CallSound, ReadersExcludeWriter, ReaderCutStable, [Next]_vars
  PROVE  ReadersExcludeWriter' /\ ReaderCutStable'
  <1> USE DEF store, session, history
  <1>1. CASE process = "up"
    <2>1. UNCHANGED cut \/ \E r \in Reader : ReaderClose(r)
      BY <1>1, CutsMove DEF ReaderOpen
    <2>2. \A r \in Reader : cut'[r] = None
      BY <1>1, <2>1 DEF ReadersExcludeWriter, ReaderClose
    <2>3. DOMAIN cut' = Reader
      BY <2>1 DEF ReadersExcludeWriter, ReaderClose
    <2> QED BY <2>2, <2>3 DEF ReadersExcludeWriter, ReaderCutStable
  <1>2. CASE process # "up"
    <2>1. CASE Open
      <3>1. (\A r \in Reader : cut[r] = None) /\ UNCHANGED <<cut, records>>
        BY <2>1 DEF Open
      <3> QED BY <3>1 DEF ReadersExcludeWriter, ReaderCutStable
    <2>2. ASSUME NEW r \in Reader, ReaderOpen(r)
          PROVE  ReadersExcludeWriter' /\ ReaderCutStable'
      <3>1. PICK cp \in checkpoints :
              /\ cp.sequence = Len(records)
              /\ cut' = [cut EXCEPT ![r] = [records |-> records, img |-> cp.img]]
        BY <2>2 DEF ReaderOpen
      <3>2. cp.img = ImageAt(Len(records)) /\ UNCHANGED <<records, process>>
        BY <2>2, <3>1 DEF ReaderOpen, CheckpointsValid
      <3>3. /\ DOMAIN cut' = Reader
            /\ cut'[r] = [records |-> records, img |-> ImageAt(Len(records))]
            /\ \A q \in Reader \ {r} : cut'[q] = cut[q]
        BY <3>1, <3>2 DEF ReadersExcludeWriter
      <3>4. ImageAt(Len(records))' = ImageAt(Len(records))
        BY <3>2 DEF ImageAt, Genesis
      <3> QED BY <1>2, <3>2, <3>3, <3>4 DEF ReadersExcludeWriter, ReaderCutStable
    <2>3. ASSUME NEW r \in Reader, ReaderClose(r)
          PROVE  ReadersExcludeWriter' /\ ReaderCutStable'
      <3>1. /\ DOMAIN cut' = Reader /\ cut'[r] = None
            /\ \A q \in Reader \ {r} : cut'[q] = cut[q]
            /\ UNCHANGED <<records, process>>
        BY <2>3 DEF ReaderClose, ReadersExcludeWriter
      <3>2. ImageAt(Len(records))' = ImageAt(Len(records))
        BY <3>1 DEF ImageAt, Genesis
      <3> QED BY <1>2, <3>1, <3>2 DEF ReadersExcludeWriter, ReaderCutStable
    <2>4. CASE UNCHANGED vars
      BY <2>4 DEF vars, ReadersExcludeWriter, ReaderCutStable, ImageAt, Genesis
    <2> QED BY <1>2, <2>1, <2>2, <2>3, <2>4, DownSteps
  <1> QED BY <1>1, <1>2

\* read_only and the leases of the store: what a reader verified stays the
\* file's content as long as it reads.
THEOREM CutsStable == Spec => []ReaderCutStable
  <1>1. Init => ReadersExcludeWriter /\ ReaderCutStable
    BY DEF Init, ReadersExcludeWriter, ReaderCutStable
  <1>2. ProtocolInvariant => CallSound
    BY DEF ProtocolInvariant
  <1> QED BY <1>1, <1>2, ReadersStep, ProtocolCorrect, PTL DEF Spec

-----------------------------------------------------------------------------
(* Memory never runs ahead of the journal *)

\* How the images in memory can move in one step.
LEMMA ImagesMove ==
  ASSUME TypeOK, [Next]_vars
  PROVE  \/ InstallProjection
         \/ /\ comp'.img \in {comp.img, fresh.img, Genesis}
            /\ \/ fresh'.img \in {fresh.img, Genesis}
               \/ fresh' \in Restored /\ CheckpointsValid
  <1> USE DEF store, session, history, NewComponents
  <1>1. CASE Step
    <2>1. CASE Complete
      <3>1. SetDriven(Completed(Driven))
        BY <2>1 DEF Complete
      <3> QED BY <3>1 DEF SetDriven, Completed, Driven
    <2>2. CASE Commit \/ MarkReady \/ PublishEvents
      BY <2>2 DEF Commit, MarkReady, PublishEvents
    <2>3. CASE Recover \/ Open
      BY <2>3 DEF Recover, Open
    <2>4. CASE RecoverDone \/ CallFails \/ Crash \/ Close
      BY <2>4 DEF RecoverDone, CallFails, Crash, Close, Down
    <2> QED BY <1>1, <2>1, <2>2, <2>3, <2>4 DEF Step
  <1>2. CASE \E x \in Input :
               ApplyDuplicate(x) \/ ApplyRefused(x) \/ ApplyPlanned(x) \/ ForkAndPlan(x) \/ DecodePrepared(x)
    BY <1>2 DEF ApplyDuplicate, ApplyRefused, ApplyPlanned, ForkAndPlan, DecodePrepared
  <1>3. CASE \E q \in plans : ApplyPrepared(q)
    BY <1>3 DEF ApplyPrepared
  <1>4. CASE \E ok \in BOOLEAN : SaveCheckpoint(ok)
    BY <1>4 DEF SaveCheckpoint
  <1>5. CASE \E n \in 1..Len(records), ok \in BOOLEAN : Acknowledge(n, ok)
    BY <1>5 DEF Acknowledge
  <1>6. CASE \E r \in Reader : ReaderOpen(r) \/ ReaderClose(r)
    BY <1>6 DEF ReaderOpen, ReaderClose
  <1>7. CASE UNCHANGED vars
    BY <1>7 DEF vars
  <1> QED BY <1>1, <1>2, <1>3, <1>4, <1>5, <1>6, <1>7 DEF Next

\* An image that some record explains stays explained.
LEMMA ExplainedKept ==
  ASSUME TypeOK, JournalExtended, NEW v, NEW o, \E k \in 0..Len(records) : v = ImageAt(k)[o]
  PROVE  \E k \in 0..Len(records') : v = ImageAt(k)'[o]
  <1>1. PICK k \in 0..Len(records) : v = ImageAt(k)[o]
    OBVIOUS
  <1>2. ImageAt(k)' = ImageAt(k)
    BY ExtensionKeeps
  <1>3. k \in 0..Len(records')
    BY DEF JournalExtended, TypeOK
  <1> QED BY <1>1, <1>2, <1>3

\* What one owner installs is its image after the tail record.
LEMMA InstallExplained ==
  ASSUME TypeOK, InstallProjection, NEW o \in Owner
  PROVE  /\ comp'.img[o] = comp.img[o] \/ \E k \in 0..Len(records) : comp'.img[o] = ImageAt(k)[o]
         /\ fresh'.img[o] = fresh.img[o] \/ \E k \in 0..Len(records) : fresh'.img[o] = ImageAt(k)[o]
  <1> DEFINE n == Driven.sequence + 1
             i == Driven.pending.next + 1
             c == Installed(Driven, TailRecord.prepared, i)
  <1>1. n \in 1..Len(records) /\ Driven \in Components
    BY DrivenType DEF InstallProjection
  <1>2. SetDriven(c)
    BY DEF InstallProjection
  <1>3. c.img = [Driven.img EXCEPT ![i] = records[n].prepared.after[i]]
    BY DEF Installed, TailRecord
  <1>4. n \in 0..Len(records) /\ ImageAt(n) = records[n].prepared.after
    BY <1>1 DEF ImageAt, TypeOK
  <1>5. DOMAIN Driven.img = Owner
    BY <1>1 DEF Components, Image
  <1>6. c.img[o] = Driven.img[o] \/ c.img[o] = ImageAt(n)[o]
    <2> HIDE DEF n, i, c
    <2> QED BY <1>3, <1>4, <1>5
  <1>7. (comp' = c /\ fresh' = fresh /\ Driven = comp) \/ (fresh' = c /\ comp' = comp /\ Driven = fresh)
    BY <1>2 DEF SetDriven, Driven
  <1> HIDE DEF n, i, c
  <1> QED BY <1>4, <1>6, <1>7

LEMMA NoEffectStep ==
  ASSUME TypeOK, NoEffectWithoutRecord, [Next]_vars
  PROVE  NoEffectWithoutRecord'
  <1>0. JournalExtended /\ Len(records) \in Nat
    BY StepExtends DEF TypeOK
  <1> SUFFICES ASSUME NEW o \in Owner
               PROVE  /\ \E k \in 0..Len(records') : comp'.img[o] = ImageAt(k)'[o]
                      /\ \E k \in 0..Len(records') : fresh'.img[o] = ImageAt(k)'[o]
    BY DEF NoEffectWithoutRecord, Owner
  <1>1. /\ \E k \in 0..Len(records) : comp.img[o] = ImageAt(k)[o]
        /\ \E k \in 0..Len(records) : fresh.img[o] = ImageAt(k)[o]
    BY DEF NoEffectWithoutRecord
  <1>2. \E k \in 0..Len(records) : Genesis[o] = ImageAt(k)[o]
    <2>1. 0 \in 0..Len(records) /\ ImageAt(0) = Genesis
      BY <1>0 DEF ImageAt
    <2> QED BY <2>1
  <1>3. ASSUME NEW c \in Restored, CheckpointsValid
        PROVE  \E k \in 0..Len(records) : c.img[o] = ImageAt(k)[o]
    <2>1. CASE checkpoints = {}
      BY <1>2, <2>1 DEF Restored, NewComponents
    <2>2. CASE checkpoints # {}
      <3>1. PICK cp \in checkpoints : c.img = cp.img
        BY <2>2 DEF Restored
      <3>2. cp.sequence \in 0..Len(records) /\ cp.img = ImageAt(cp.sequence)
        BY <1>0, <1>3 DEF CheckpointsValid, TypeOK
      <3> QED BY <3>1, <3>2
    <2> QED BY <2>1, <2>2
  <1>4. /\ \E k \in 0..Len(records) : comp'.img[o] = ImageAt(k)[o]
        /\ \E k \in 0..Len(records) : fresh'.img[o] = ImageAt(k)[o]
    <2>1. CASE InstallProjection
      BY <1>1, <2>1, InstallExplained
    <2>2. CASE ~InstallProjection
      BY <1>1, <1>2, <1>3, <2>2, ImagesMove
    <2> QED BY <2>1, <2>2
  <1> QED BY <1>0, <1>4, ExplainedKept

\* install_projection never runs before commit: whatever an owner holds in
\* memory, also half way through a projection or a recovery, is its image
\* after some record of the file.
THEOREM EffectsAreRecorded == Spec => []NoEffectWithoutRecord
  <1>1. Init => NoEffectWithoutRecord
    <2>1. Init => comp.img = ImageAt(0) /\ fresh.img = ImageAt(0) /\ 0 \in 0..Len(records)
      BY DEF Init, NewComponents, ImageAt
    <2> QED BY <2>1 DEF NoEffectWithoutRecord
  <1> QED BY <1>1, NoEffectStep, TypeCorrect, PTL DEF Spec

-----------------------------------------------------------------------------
(* The runtime implements the abstract journal *)

\* While the journal stays as it is, reads can only be withdrawn or answer
\* from all of it.
LEMMA SameJournalImplements ==
  ASSUME TypeOK', CallSound', UNCHANGED records
  PROVE  Log!LogNext
  <1>1. UNCHANGED <<JournalInputs, ReadyPrefix, Acknowledged>>
    BY DEF JournalInputs, ReadyPrefix, Acknowledged, AllReady
  <1>2. CASE ~healthy'
    <2>1. ServedInputs' = None
      BY <1>2 DEF ServedInputs
    <2> QED BY <1>1, <2>1 DEF Log!LogNext, Log!Withdraw
  <1>3. CASE healthy'
    <2>1. Reconciled(comp)'
      BY <1>3 DEF CallSound
    <2>2. ReadyPrefix' = Len(records')
      BY <2>1 DEF Reconciled, ReadyPrefix
    <2>3. comp'.img[Meta] \in Seq(Input) /\ records' \in Seq(Record)
      BY MetaIsOwner DEF TypeOK, Components, Image, Meta
    <2>4. /\ Len(comp'.img[Meta]) = Len(records')
          /\ \A k \in 1..Len(records') : comp'.img[Meta][k] = records'[k].prepared.input
      BY <2>1 DEF Reconciled, Meta
    <2>5. comp'.img[Meta] = JournalInputs'
      <3> DEFINE v == comp'.img[Meta]
      <3>1. v = [k \in 1..Len(v) |-> v[k]]
        BY <2>3
      <3> QED BY <2>4, <3>1 DEF JournalInputs
    <2>6. ServedInputs' = JournalInputs
      BY <1>1, <1>3, <2>5 DEF ServedInputs, Meta
    <2>7. Len(JournalInputs) = Len(records)
      BY <2>3 DEF JournalInputs
    <2> QED BY <1>1, <2>2, <2>6, <2>7 DEF Log!LogNext, Log!Serve
  <1> QED BY <1>2, <1>3

\* SqliteStore::commit accepts one new fact, at a Ready journal.
LEMMA CommitImplements ==
  ASSUME TypeOK, TypeOK', CallSound, Commit
  PROVE  Log!LogNext
  <1> DEFINE x == prepared.input
             n == Len(records)
  <1>0. n \in Nat /\ records \in Seq(Record) /\ prepared \in Payload /\ x \in Input /\ call = "commit"
    BY DEF TypeOK, Commit, Payload
  <1>1. /\ Len(records') = n + 1
        /\ records'[n + 1] = [prepared |-> prepared, ready |-> FALSE, delivered |-> FALSE]
        /\ \A k \in 1..n : records'[k] = records[k]
    BY CommitExtends
  <1>2. ~healthy /\ ~healthy'
    BY <1>0 DEF CallSound, Commit
  <1>3. ServedInputs = None /\ ServedInputs' = None
    BY <1>2 DEF ServedInputs
  <1>4. ReadyPrefix = n /\ ReadyPrefix' = n
    <2>1. ~AllReady(Len(records))'
      <3>1. n + 1 \in 1..Len(records') /\ ~records'[n + 1].ready
        BY <1>0, <1>1
      <3> QED BY <3>1 DEF AllReady
    <2>2. AllReady(Len(records))
      BY DEF Commit
    <2> QED BY <1>0, <1>1, <2>1, <2>2 DEF ReadyPrefix
  <1>5. Acknowledged' = Acknowledged
    <2> HIDE DEF n
    <2>1. ~records'[n + 1].delivered
      BY <1>1
    <2>2. \A k : k \in Acknowledged' <=> k \in Acknowledged
      BY <1>0, <1>1, <2>1 DEF Acknowledged, n
    <2> QED BY <2>2 DEF Acknowledged
  <1>6. ASSUME NEW k \in 1..n PROVE records[k].prepared.input \in Input
    <2>1. records[k] \in Record
      BY <1>0
    <2> QED BY <2>1 DEF Record, Payload
  <1>7. /\ JournalInputs \in Seq(Input)
        /\ Len(JournalInputs) = n
        /\ \A k \in 1..n : JournalInputs[k] = records[k].prepared.input
    BY <1>0, <1>6 DEF JournalInputs
  <1>8. JournalInputs' = Append(JournalInputs, x)
    <2>1. JournalInputs' = [k \in 1..(n + 1) |-> records'[k].prepared.input]
      BY <1>1 DEF JournalInputs
    <2>2. Append(JournalInputs, x) = [k \in 1..(n + 1) |-> IF k = n + 1 THEN x ELSE JournalInputs[k]]
      BY <1>0, <1>7
    <2>3. \A k \in 1..(n + 1) : records'[k].prepared.input = IF k = n + 1 THEN x ELSE JournalInputs[k]
      BY <1>0, <1>1, <1>7
    <2> HIDE DEF n, x
    <2> QED BY <2>1, <2>2, <2>3
  <1>9. \A k \in 1..n :
          /\ JournalInputs[k].id # x.id
          /\ JournalInputs[k].source # x.source
          /\ JournalInputs[k].runtime_sequence < x.runtime_sequence
    <2>1. ValidPlanningInput(comp.img, x) /\ Reconciled(comp)
      BY <1>0 DEF CallSound, SoundPlan
    <2>2. /\ Len(comp.img[Meta]) = n
          /\ \A k \in 1..n : comp.img[Meta][k] = records[k].prepared.input
      BY <2>1 DEF Reconciled
    <2> QED BY <1>7, <2>1, <2>2 DEF ValidPlanningInput
  <1> HIDE DEF n, x
  <1>10. Log!Accept(x)
    BY <1>3, <1>4, <1>5, <1>7, <1>8, <1>9 DEF Log!Accept, Log!Fresh
  <1> QED BY <1>0, <1>10 DEF Log!LogNext

\* SqliteStore::mark_ready makes the one unready record stable.
LEMMA MarkReadyImplements ==
  ASSUME TypeOK, TypeOK', CallSound, MarkReady
  PROVE  Log!LogNext
  <1> DEFINE n == Driven.sequence + 1
  <1>0. Len(records) \in Nat /\ records \in Seq(Record) /\ n \in 1..Len(records)
    BY DrivenType DEF TypeOK, MarkReady
  <1>1. ~records[n].ready /\ SourceValid /\ records' = [records EXCEPT ![n].ready = TRUE]
    BY DEF MarkReady, TailRecord, TailAdmissible
  <1>2. ~healthy /\ ~healthy'
    BY DEF CallSound, MarkReady, HasTail, Resuming, session
  <1> HIDE DEF n
  <1>3. n = Len(records) /\ \A k \in 1..Len(records) : k # n => records[k].ready
    BY <1>0, <1>1 DEF SourceValid
  <1>4. /\ Len(records') = Len(records)
        /\ \A k \in 1..Len(records) : k # n => records'[k] = records[k]
        /\ records'[n].prepared = records[n].prepared
        /\ records'[n].delivered = records[n].delivered
        /\ records'[n].ready = TRUE
    BY <1>0, <1>1, ReadyRaised
  <1>5. ReadyPrefix = Len(records) - 1 /\ ReadyPrefix' = Len(records)
    <2>1. ~AllReady(Len(records))
      BY <1>0, <1>1 DEF AllReady
    <2>2. AllReady(Len(records))'
      BY <1>0, <1>3, <1>4 DEF AllReady
    <2> QED BY <1>4, <2>1, <2>2 DEF ReadyPrefix
  <1>6. JournalInputs' = JournalInputs /\ Len(JournalInputs) = Len(records)
    BY <1>0, <1>4 DEF JournalInputs
  <1>7. Acknowledged' = Acknowledged
    BY <1>0, <1>4 DEF Acknowledged
  <1>8. ServedInputs = None /\ ServedInputs' = None
    BY <1>2 DEF ServedInputs
  <1> QED BY <1>0, <1>5, <1>6, <1>7, <1>8 DEF Log!LogNext, Log!Stabilise

\* acknowledge raises one delivered flag of a served journal.
LEMMA AcknowledgeImplements ==
  ASSUME TypeOK, CallSound, NEW n \in 1..Len(records), NEW ok \in BOOLEAN, Acknowledge(n, ok)
  PROVE  Log!LogNext
  <1>0. Len(records) \in Nat /\ records \in Seq(Record) /\ records' = [records EXCEPT ![n].delivered = TRUE]
    BY DEF TypeOK, Acknowledge
  <1>1. /\ Len(records') = Len(records)
        /\ \A k \in 1..Len(records) : k # n => records'[k] = records[k]
        /\ records'[n].prepared = records[n].prepared
        /\ records'[n].ready = records[n].ready
        /\ records'[n].delivered = TRUE
    BY <1>0, DeliveredRaised
  <1>2. healthy /\ AllReady(Len(records)) /\ UNCHANGED comp
    BY DEF Acknowledge, Serving, Reconciled
  <1>3. ReadyPrefix = Len(records) /\ ReadyPrefix' = Len(records)
    <2>1. AllReady(Len(records))'
      BY <1>0, <1>1, <1>2 DEF AllReady
    <2> QED BY <1>1, <1>2, <2>1 DEF ReadyPrefix
  <1>4. JournalInputs' = JournalInputs /\ Len(JournalInputs) = Len(records)
    BY <1>0, <1>1 DEF JournalInputs
  <1>5. Acknowledged' = Acknowledged \cup {n}
    BY <1>0, <1>1 DEF Acknowledged
  <1>6. ServedInputs # None /\ ServedInputs' \in {ServedInputs, None}
    <2>1. ServedInputs = comp.img[Meta] /\ comp.img[Meta] \in Seq(Input)
      BY <1>2, MetaIsOwner DEF ServedInputs, TypeOK, Components, Image
    <2>2. ServedInputs' \in {comp.img[Meta], None}
      BY <1>2 DEF ServedInputs, Meta
    <2> QED BY <2>1, <2>2, InputAssumption
  <1>7. Log!Deliver(n)
    BY <1>3, <1>4, <1>5, <1>6 DEF Log!Deliver
  <1> QED BY <1>4, <1>7 DEF Log!LogNext

LEMMA LogStep ==
  TypeOK /\ TypeOK' /\ ProtocolInvariant /\ ProtocolInvariant' /\ [Next]_vars
    => [Log!LogNext]_(Log!logVars)
  <1> SUFFICES ASSUME TypeOK, TypeOK', ProtocolInvariant, ProtocolInvariant', [Next]_vars
               PROVE  Log!LogNext
    OBVIOUS
  <1>1. CallSound /\ CallSound'
    BY DEF ProtocolInvariant
  <1> QED BY <1>1, StepExtends, SameJournalImplements, CommitImplements, MarkReadyImplements,
             AcknowledgeImplements

\* The durable runtime with its owners, projections, checkpoints, leases,
\* crashes and failing calls implements ExecutionLog: a fact is accepted once
\* and in order, is stable before the next one is accepted, and reads are
\* answered from the complete stable journal or not at all.
THEOREM RuntimeImplementsLog == Spec => ImplementsLog
  <1>1. Init => Log!LogInit
    <2> SUFFICES ASSUME Init PROVE Log!LogInit
      OBVIOUS
    <2>1. records = << >> /\ healthy /\ comp.img[Meta] = << >>
      BY MetaIsOwner DEF Init, NewComponents, Genesis
    <2>2. JournalInputs = << >> /\ Acknowledged = {} /\ ServedInputs = << >>
      BY <2>1 DEF JournalInputs, Acknowledged, ServedInputs
    <2>3. ReadyPrefix = 0
      BY <2>1 DEF ReadyPrefix, AllReady
    <2> QED BY <2>2, <2>3 DEF Log!LogInit
  <1> QED BY <1>1, LogStep, TypeCorrect, ProtocolCorrect, PTL DEF Spec, ImplementsLog, Log!LogSpec
=============================================================================
