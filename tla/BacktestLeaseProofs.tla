------------------------ MODULE BacktestLeaseProofs ------------------------
(* Theorems about BacktestLease, for any set of hosts and cancel commands  *)
(* and any bound on attempts and faults.                                   *)
EXTENDS BacktestLease, SequenceTheorems, TLAPS

(* The inductive invariant *)

\* What the row says of the attempts and of its own end.
RowSound ==
  /\ run.state # "FAILED"
  /\ run.started <=> attempts # <<>>
  /\ run.state \in {"ABSENT", "QUEUED"} => ~run.started
  /\ run.state \in Owned => run.started
  /\ run.state = "CANCEL_REQUESTED" => run.cancel
  /\ run.state \in Ended /\ run.started => run.pin = run.state

\* What the fields of the service of p say of a row r, attempts a, a journal j
\* and evidence e: its claim is its own, its job holds the binding, its result
\* is published, it cancels what was cancelled and releases what is proved.
ServiceSound(s, p, r, a, j, e) ==
  /\ s \in Service1
  /\ s.claim # 0 => s.claim \in DOMAIN a /\ a[s.claim].worker = p
  /\ s.job # "none" => s.claim # 0
  /\ s.job = "done" => s.out # "none"
  /\ s.pc = "finalize" => s.job = "done" /\ s.out \in Completion
  /\ s.job \in {"restore", "directory", "open", "produce", "publish"} => s.held
  /\ s.job = "publish" => j \in Completion
  /\ s.out \in Completion => e = s.out
  /\ s.control = 2 \/ s.seen = "CANCEL_REQUESTED" => r.cancel
  /\ s.pc = "release" => r.state \in Ended /\ (r.started => e = r.state)

ServicesSound == \A p \in Hosts : ServiceSound(svc[p], p, run, attempts, journal, evidence)

LeaseInvariant ==
  /\ TypeOK
  /\ RowSound
  /\ ServicesSound
  /\ EndedByNewestAttempt
  /\ ResultIsEvidence
  /\ CancelHonoured
  /\ BindingOutlivesJobs

-----------------------------------------------------------------------------
(* What a step leaves of the world that services rely on *)

\* Attempts keep their worker, a requested cancellation, a published result, an
\* ended journal and an ended run stay.
Grows(r, a, j, e, r2, a2, j2, e2) ==
  /\ DOMAIN a \subseteq DOMAIN a2
  /\ \A n \in DOMAIN a : a2[n].worker = a[n].worker
  /\ r.cancel => r2.cancel
  /\ j \in Completion => j2 = j
  /\ e # "none" => e2 = e
  /\ r.state \in Ended => r2.state = r.state /\ r2.started = r.started

WorldGrows == Grows(run, attempts, journal, evidence, run', attempts', journal', evidence')

Working == {"directory", "open", "produce", "publish"}

\* A service that does not move stays sound in a world that grows.
LEMMA SoundKept ==
  ASSUME NEW s, NEW p, NEW r, NEW a, NEW j, NEW e, NEW r2, NEW a2, NEW j2, NEW e2,
         ServiceSound(s, p, r, a, j, e), Grows(r, a, j, e, r2, a2, j2, e2)
  PROVE  ServiceSound(s, p, r2, a2, j2, e2)
  <1>1. s.out \in Completion => e2 = s.out
    BY DEF ServiceSound, Grows, Completion
  <1>2. s.pc = "release" => r2.state \in Ended /\ (r2.started => e2 = r2.state)
    BY DEF ServiceSound, Grows, Ended
  <1> QED BY <1>1, <1>2 DEF ServiceSound, Grows

\* A step of the service of p that leaves the binding alone, in a world that
\* grows, keeps the invariants about services: its job starts to use the
\* binding only while there is one.
LEMMA ServiceMoves ==
  ASSUME LeaseInvariant, NEW p \in Hosts, NEW s, Set(p, s), WorldGrows, bound' = bound,
         ServiceSound(s, p, run', attempts', journal', evidence'),
         s.job \in Working => svc[p].job \in Working \/ bound
  PROVE  ServicesSound' /\ BindingOutlivesJobs' /\ svc' \in [Hosts -> Service1]
  <1>1. svc \in [Hosts -> Service1] /\ svc' = [svc EXCEPT ![p] = s]
    BY DEF LeaseInvariant, TypeOK, Set
  <1>2. s \in Service1
    BY DEF ServiceSound
  <1>3. svc'[p] = s /\ \A q \in Hosts \ {p} : svc'[q] = svc[q]
    BY <1>1
  <1>4. ASSUME NEW q \in Hosts
        PROVE  ServiceSound(svc'[q], q, run', attempts', journal', evidence')
    <2>1. CASE q = p
      BY <1>3, <2>1
    <2>2. CASE q # p
      <3>1. ServiceSound(svc[q], q, run, attempts, journal, evidence)
        BY DEF LeaseInvariant, ServicesSound
      <3> QED BY <3>1, <1>3, <2>2, SoundKept DEF WorldGrows
    <2> QED BY <2>1, <2>2
  <1>5. BindingOutlivesJobs'
    <2> SUFFICES ASSUME ~bound
                 PROVE  /\ run'.state \in Ended
                        /\ run'.started => evidence' = run'.state
                        /\ \A q \in Hosts : svc'[q].job \notin Working
      BY DEF BindingOutlivesJobs, Working
    <2>1. /\ run.state \in Ended
          /\ run.started => evidence = run.state
          /\ \A q \in Hosts : svc[q].job \notin Working
      BY DEF LeaseInvariant, BindingOutlivesJobs, Working
    <2>2. run'.state \in Ended /\ (run'.started => evidence' = run'.state)
      BY <2>1 DEF WorldGrows, Grows, Ended
    <2> QED BY <1>3, <2>1, <2>2
  <1> QED BY <1>1, <1>2, <1>4, <1>5 DEF ServicesSound

\* The same when no service moves.
LEMMA NobodyMoves ==
  ASSUME LeaseInvariant, svc' = svc, WorldGrows, bound' = bound
  PROVE  ServicesSound' /\ BindingOutlivesJobs'
  <1>1. ServicesSound'
    <2> SUFFICES ASSUME NEW q \in Hosts
                 PROVE  ServiceSound(svc[q], q, run', attempts', journal', evidence')
      BY DEF ServicesSound
    <2>1. ServiceSound(svc[q], q, run, attempts, journal, evidence)
      BY DEF LeaseInvariant, ServicesSound
    <2> QED BY <2>1, SoundKept DEF WorldGrows
  <1>2. BindingOutlivesJobs'
    BY DEF LeaseInvariant, BindingOutlivesJobs, WorldGrows, Grows, Ended
  <1> QED BY <1>1, <1>2

\* A step that changes neither rows nor files nor the binding.
LEMMA OnlyService ==
  ASSUME LeaseInvariant, NEW p \in Hosts, NEW s, Set(p, s),
         UNCHANGED <<run, attempts, receipts, journal, evidence, bound>>,
         writer' \in Hosts \cup {NoHost}, jlock' \in Hosts \cup {NoHost},
         faults' \in 0..MaxFaults,
         ServiceSound(s, p, run, attempts, journal, evidence),
         s.job \in Working => svc[p].job \in Working \/ bound
  PROVE  LeaseInvariant'
  <1>1. WorldGrows
    BY DEF WorldGrows, Grows
  <1>2. ServicesSound' /\ BindingOutlivesJobs' /\ svc' \in [Hosts -> Service1]
    BY <1>1, ServiceMoves
  <1>3. TypeOK'
    BY <1>2 DEF LeaseInvariant, TypeOK
  <1>4. RowSound' /\ EndedByNewestAttempt' /\ ResultIsEvidence' /\ CancelHonoured'
    BY DEF LeaseInvariant, RowSound, EndedByNewestAttempt, ResultIsEvidence,
           CancelHonoured, CancelIsRequested, CancelKept
  <1> QED BY <1>2, <1>3, <1>4 DEF LeaseInvariant

\* A fault keeps the count of faults in its bound.
LEMMA FaultCount == ASSUME TypeOK, Fault PROVE faults' \in 0..MaxFaults
  BY LeaseAssumption DEF TypeOK, Fault

\* The values the steps of a service put into its fields.
LEMMA Values ==
  /\ {"down", "idle", "observe", "expire", "claim", "run", "finalize", "terminal",
      "release", "exited"} \subseteq ServicePc
  /\ {"none", "load", "restore", "directory", "open", "produce", "publish", "done"}
       \subseteq JobPhase
  /\ {"none", "paused", "failed", "COMPLETED", "CANCELLED"} \subseteq JobResult
  /\ {0, 1, 2} \subseteq Level
  /\ "ABSENT" \in RunState
  BY DEF ServicePc, JobPhase, JobResult, Completion, Level, RunState

\* What the service is left with when it stops, ends or is done.
LEMMA RestSound ==
  ASSUME NEW s, NEW p, NEW r, NEW a, NEW j, NEW e, ServiceSound(s, p, r, a, j, e)
  PROVE  /\ ServiceSound(Stopped, p, r, a, j, e)
         /\ ServiceSound([Stopped EXCEPT !.pc = "idle"], p, r, a, j, e)
         /\ ServiceSound(Exited(s), p, r, a, j, e)
         /\ ServiceSound(Finished(s), p, r, a, j, e)
         /\ Stopped.job \notin Working
         /\ [Stopped EXCEPT !.pc = "idle"].job \notin Working
         /\ Exited(s).job \notin Working
         /\ Finished(s).job \notin Working
  <1>1. /\ s \in Service1
        /\ s.control = 2 \/ s.seen = "CANCEL_REQUESTED" => r.cancel
    BY DEF ServiceSound
  <1>2. ASSUME NEW t \in Service1, t.pc \in {"down", "idle", "exited"}, t.claim = 0,
               t.job = "none", t.out = "none",
               t.control = 2 \/ t.seen = "CANCEL_REQUESTED" => r.cancel
        PROVE  ServiceSound(t, p, r, a, j, e) /\ t.job \notin Working
    BY <1>2 DEF ServiceSound, Working, Completion
  <1>3. Stopped \in Service1 /\ [Stopped EXCEPT !.pc = "idle"] \in Service1
    BY Values DEF Stopped, Service1
  <1>4. Exited(s) \in Service1 /\ Finished(s) \in Service1
    BY <1>1, Values DEF Exited, Finished, Service1
  <1>5. ServiceSound(Stopped, p, r, a, j, e) /\ Stopped.job \notin Working
    BY <1>2, <1>3 DEF Stopped
  <1>6. /\ ServiceSound([Stopped EXCEPT !.pc = "idle"], p, r, a, j, e)
        /\ [Stopped EXCEPT !.pc = "idle"].job \notin Working
    BY <1>2, <1>3 DEF Stopped
  <1>7. ServiceSound(Exited(s), p, r, a, j, e) /\ Exited(s).job \notin Working
    <2>1. /\ Exited(s).pc = "exited" /\ Exited(s).claim = 0
          /\ Exited(s).job = "none" /\ Exited(s).out = "none"
          /\ Exited(s).control = s.control /\ Exited(s).seen = s.seen
      BY <1>1 DEF Exited, Service1
    <2> QED BY ONLY <1>1, <1>2, <1>4, <2>1
  <1>8. ServiceSound(Finished(s), p, r, a, j, e) /\ Finished(s).job \notin Working
    <2>1. /\ Finished(s).pc = "idle" /\ Finished(s).claim = 0
          /\ Finished(s).job = "none" /\ Finished(s).out = "none"
          /\ Finished(s).control = s.control /\ Finished(s).seen = s.seen
      BY <1>1 DEF Finished, Service1
    <2> QED BY ONLY <1>1, <1>2, <1>4, <2>1
  <1> QED BY <1>5, <1>6, <1>7, <1>8

\* What the lemmas about single steps of the service of p start from.
LEMMA Here ==
  ASSUME LeaseInvariant, NEW p \in Hosts
  PROVE  /\ ServiceSound(svc[p], p, run, attempts, journal, evidence)
         /\ svc[p] \in Service1
         /\ writer \in Hosts \cup {NoHost} /\ jlock \in Hosts \cup {NoHost}
         /\ faults \in 0..MaxFaults
  BY DEF LeaseInvariant, ServicesSound, ServiceSound, TypeOK

\* A host starts, is restarted or dies.
LEMMA HostStep ==
  ASSUME LeaseInvariant, NEW p \in Hosts, Start(p) \/ Reboot(p) \/ Crash(p)
  PROVE  LeaseInvariant'
  <1> USE Here, RestSound, OnlyService DEF dbVars, diskVars
  <1>1. CASE Start(p)
    BY <1>1 DEF Start
  <1>2. CASE Reboot(p)
    BY <1>2 DEF Reboot
  <1>3. CASE Crash(p)
    BY <1>3, FaultCount DEF Crash, LeaseInvariant
  <1> QED BY <1>1, <1>2, <1>3

\* A stop is asked for, or the service takes work, an ended run to release, or
\* its own stop.
LEMMA WakeStep ==
  ASSUME LeaseInvariant, NEW p \in Hosts, Stop(p) \/ Scan(p) \/ Cleanup(p)
  PROVE  LeaseInvariant'
  <1> DEFINE s == svc[p]
  <1>1. /\ ServiceSound(s, p, run, attempts, journal, evidence) /\ s \in Service1
        /\ writer \in Hosts \cup {NoHost} /\ jlock \in Hosts \cup {NoHost}
        /\ faults \in 0..MaxFaults
    BY Here
  <1> HIDE DEF s
  <1>2. ASSUME NEW t \in Service1, t.pc \notin {"finalize", "release"} \/ t.pc = s.pc,
               t.job = s.job, t.out = s.out, t.held = s.held, t.claim = s.claim,
               t.control = s.control, t.seen = s.seen
        PROVE  ServiceSound(t, p, run, attempts, journal, evidence)
    BY <1>1, <1>2 DEF ServiceSound
  <1>3. CASE Stop(p)
    <2> DEFINE t == [s EXCEPT !.wake = 2]
    <2>1. t \in Service1
      BY <1>1, Values DEF Service1
    <2>2. /\ t.pc = s.pc /\ t.job = s.job /\ t.out = s.out /\ t.held = s.held
          /\ t.claim = s.claim /\ t.control = s.control /\ t.seen = s.seen
      BY <1>1 DEF Service1
    <2>3. ServiceSound(t, p, run, attempts, journal, evidence)
      BY <1>2, <2>1, <2>2
    <2>4. /\ Set(p, t) /\ UNCHANGED <<run, attempts, receipts, journal, evidence, bound>>
          /\ UNCHANGED <<writer, jlock>> /\ faults' \in 0..MaxFaults
      BY <1>3, FaultCount DEF Stop, dbVars, diskVars, s, LeaseInvariant
    <2> QED BY <1>1, <2>2, <2>3, <2>4, OnlyService DEF s
  <1>4. ASSUME NEW pc0 \in {"observe", "terminal"}, Set(p, [s EXCEPT !.pc = pc0, !.wake = 1]),
               UNCHANGED <<run, attempts, receipts, journal, evidence, bound, writer, jlock, faults>>
        PROVE  LeaseInvariant'
    <2> DEFINE t == [s EXCEPT !.pc = pc0, !.wake = 1]
    <2>1. t \in Service1
      BY <1>1, Values DEF Service1
    <2>2. /\ t.pc = pc0 /\ t.job = s.job /\ t.out = s.out /\ t.held = s.held
          /\ t.claim = s.claim /\ t.control = s.control /\ t.seen = s.seen
      BY <1>1 DEF Service1
    <2>3. ServiceSound(t, p, run, attempts, journal, evidence)
      BY <1>2, <2>1, <2>2
    <2> HIDE DEF t
    <2>4. Set(p, t)
      BY <1>4 DEF t
    <2> QED BY <1>1, <1>4, <2>2, <2>3, <2>4, OnlyService DEF s
  <1>5. CASE Scan(p)
    <2>1. UNCHANGED <<run, attempts, receipts, journal, evidence, bound, writer, jlock, faults>>
      BY <1>5 DEF Scan, dbVars, diskVars
    <2>2. CASE Set(p, [s EXCEPT !.pc = "observe", !.wake = 1])
      BY <1>4, <2>1, <2>2
    <2>3. CASE Set(p, Exited(s))
      BY <1>1, <2>1, <2>3, RestSound, OnlyService
    <2> QED BY <1>5, <2>2, <2>3 DEF Scan, s
  <1>6. CASE Cleanup(p)
    BY <1>4, <1>6 DEF Cleanup, dbVars, diskVars, s
  <1> QED BY <1>3, <1>5, <1>6

\* The service reads the run, or checks the end of it again before a release.
LEMMA ReadStep ==
  ASSUME LeaseInvariant, NEW p \in Hosts, Observe(p) \/ TerminalCheck(p)
  PROVE  LeaseInvariant'
  <1> DEFINE s == svc[p]
  <1>1. /\ ServiceSound(s, p, run, attempts, journal, evidence) /\ s \in Service1
        /\ writer \in Hosts \cup {NoHost} /\ jlock \in Hosts \cup {NoHost}
        /\ faults \in 0..MaxFaults
    BY Here
  <1>2. UNCHANGED <<run, attempts, receipts, journal, evidence, bound, writer, jlock, faults>>
    BY DEF Observe, TerminalCheck, dbVars, diskVars
  <1> HIDE DEF s
  <1>3. CASE Set(p, Exited(s))
    BY <1>1, <1>2, <1>3, RestSound, OnlyService
  <1>4. CASE Observe(p) /\ writer = p
    <2> DEFINE pc0 == IF run.state \in Ended THEN "terminal"
                      ELSE IF run.state \in Owned THEN "expire" ELSE "claim"
               t == [s EXCEPT !.seen = run.state, !.pc = pc0]
    <2>1. pc0 \in {"terminal", "expire", "claim"}
      OBVIOUS
    <2>2. Set(p, t)
      BY <1>4 DEF Observe, s
    <2> HIDE DEF pc0
    <2>3. run.state \in RunState /\ (run.state = "CANCEL_REQUESTED" => run.cancel)
      BY DEF LeaseInvariant, TypeOK, Row, RowSound
    <2>4. t \in Service1
      BY <1>1, <2>1, <2>3, Values DEF Service1
    <2>5. /\ t.pc = pc0 /\ t.job = s.job /\ t.out = s.out /\ t.held = s.held
          /\ t.claim = s.claim /\ t.control = s.control /\ t.seen = run.state
      BY <1>1 DEF Service1
    <2> HIDE DEF t
    <2>6. ServiceSound(t, p, run, attempts, journal, evidence)
      BY <1>1, <2>1, <2>3, <2>4, <2>5 DEF ServiceSound
    <2> QED BY <1>1, <1>2, <2>2, <2>5, <2>6, OnlyService DEF s
  <1>5. CASE TerminalCheck(p) /\ writer = p /\ ProofSeen
    <2> DEFINE t == [s EXCEPT !.pc = "release"]
    <2>1. Set(p, t)
      BY <1>5 DEF TerminalCheck, s
    <2>2. t \in Service1
      BY <1>1, Values DEF Service1
    <2>3. /\ t.pc = "release" /\ t.job = s.job /\ t.out = s.out /\ t.held = s.held
          /\ t.claim = s.claim /\ t.control = s.control /\ t.seen = s.seen
      BY <1>1 DEF Service1
    <2>4. run.state \in Ended /\ (run.started => evidence = run.state)
      BY <1>5 DEF ProofSeen, Ended
    <2> HIDE DEF t
    <2>5. ServiceSound(t, p, run, attempts, journal, evidence)
      BY <1>1, <2>2, <2>3, <2>4 DEF ServiceSound
    <2> QED BY <1>1, <1>2, <2>1, <2>3, <2>5, OnlyService DEF s
  <1> QED BY <1>3, <1>4, <1>5 DEF Observe, TerminalCheck, s

\* A turn of the loop: the control becomes a cancel only for a cancelled run.
LEMMA TickStep ==
  ASSUME LeaseInvariant, NEW p \in Hosts, Tick(p)
  PROVE  LeaseInvariant'
  <1> DEFINE s == svc[p]
  <1>1. /\ ServiceSound(s, p, run, attempts, journal, evidence) /\ s \in Service1
        /\ writer \in Hosts \cup {NoHost} /\ jlock \in Hosts \cup {NoHost}
        /\ faults \in 0..MaxFaults
    BY Here
  <1>2. /\ UNCHANGED <<run, attempts, receipts, journal, evidence, bound, jlock>>
        /\ writer' \in Hosts \cup {NoHost}
        /\ faults' \in 0..MaxFaults
    BY <1>1, FaultCount DEF Tick, dbVars, diskVars, Unknown, LeaseInvariant
  <1> HIDE DEF s
  <1>3. ASSUME NEW c \in Level, c = 2 => run.cancel, NEW t \in Service1, Set(p, t), t.pc = s.pc,
               t.job = s.job, t.out = s.out, t.held = s.held, t.claim = s.claim,
               t.control = c, t.seen = s.seen
        PROVE  LeaseInvariant'
    <2>1. ServiceSound(t, p, run, attempts, journal, evidence)
      BY <1>1, <1>3 DEF ServiceSound
    <2> QED BY <1>1, <1>2, <1>3, <2>1, OnlyService DEF s
  <1>4. s.control \in Level /\ (s.control = 2 => run.cancel)
    BY <1>1 DEF ServiceSound, Service1
  <1>5. Pause(s.control) \in Level /\ (Pause(s.control) = 2 => run.cancel)
    BY <1>4, Values DEF Pause
  <1>6. run.state = "CANCEL_REQUESTED" => run.cancel
    BY DEF LeaseInvariant, RowSound
  <1>7. CASE Set(p, LostLease(s))
    <2> DEFINE t == LostLease(s)
    <2>1. /\ t \in Service1
          /\ t.pc = s.pc /\ t.job = s.job /\ t.out = s.out /\ t.held = s.held
          /\ t.claim = s.claim /\ t.control = Pause(s.control) /\ t.seen = s.seen
      BY <1>1, <1>5 DEF Service1, LostLease
    <2> QED BY <1>3, <1>5, <1>7, <2>1
  <1>8. CASE Set(p, Renewed(s))
    <2> DEFINE t == Renewed(s)
               d == IF s.wake = 2 THEN Pause(s.control) ELSE s.control
               c == IF run.state = "CANCEL_REQUESTED" THEN CancelControl ELSE d
    <2>1. d \in Level /\ (d = 2 => run.cancel)
      BY <1>4, <1>5
    <2>2. c \in Level /\ (c = 2 => run.cancel)
      BY <1>6, <2>1, Values DEF CancelControl
    <2>3. t = [s EXCEPT !.stopping = s.stopping \/ s.wake = 2, !.certain = TRUE, !.control = c]
      BY DEF Renewed
    <2> HIDE DEF c, d, t
    <2>4. /\ t \in Service1
          /\ t.pc = s.pc /\ t.job = s.job /\ t.out = s.out /\ t.held = s.held
          /\ t.claim = s.claim /\ t.control = c /\ t.seen = s.seen
      BY <1>1, <2>2, <2>3 DEF Service1
    <2>5. Set(p, t)
      BY <1>8 DEF t
    <2> QED BY <1>3, <2>2, <2>4, <2>5
  <1> QED BY <1>7, <1>8 DEF Tick, s

\* The end of the job, and the steps of the job that only read the files.
LEMMA JobReadStep ==
  ASSUME LeaseInvariant, NEW p \in Hosts,
         JobDone(p) \/ JobLoad(p) \/ JobRestore(p) \/ JobFail(p)
  PROVE  LeaseInvariant'
  <1> DEFINE s == svc[p]
  <1>1. /\ ServiceSound(s, p, run, attempts, journal, evidence) /\ s \in Service1
        /\ writer \in Hosts \cup {NoHost} /\ jlock \in Hosts \cup {NoHost}
        /\ faults \in 0..MaxFaults
    BY Here
  <1>2. /\ UNCHANGED <<run, attempts, receipts, journal, evidence, bound, writer>>
        /\ jlock' \in Hosts \cup {NoHost}
        /\ faults' \in 0..MaxFaults
    BY <1>1, FaultCount
    DEF JobDone, JobLoad, JobRestore, JobFail, Leave, dbVars, diskVars, LeaseInvariant
  <1> HIDE DEF s
  <1>3. CASE Set(p, Exited(s)) \/ Set(p, Finished(s))
    BY <1>1, <1>2, <1>3, RestSound, OnlyService
  <1>4. ASSUME NEW t, Set(p, t), ServiceSound(t, p, run, attempts, journal, evidence),
               t.job \in Working => s.job \in Working \/ bound
        PROVE  LeaseInvariant'
    BY <1>1, <1>2, <1>4, OnlyService DEF s
  <1>5. CASE Set(p, [s EXCEPT !.pc = "finalize"]) /\ JobDone(p) /\ s.out \notin {"failed", "paused"}
    <2> DEFINE t == [s EXCEPT !.pc = "finalize"]
    <2>1. t \in Service1
      BY <1>1, Values DEF Service1
    <2>2. /\ t.pc = "finalize" /\ t.job = s.job /\ t.out = s.out /\ t.held = s.held
          /\ t.claim = s.claim /\ t.control = s.control /\ t.seen = s.seen
      BY <1>1 DEF Service1
    <2>3. s.job = "done"
      BY <1>5 DEF JobDone, s
    <2>4. s.out \in Completion
      BY <1>1, <1>5, <2>3 DEF ServiceSound, Service1, JobResult
    <2> HIDE DEF t
    <2>5. ServiceSound(t, p, run, attempts, journal, evidence)
      BY <1>1, <2>1, <2>2, <2>3, <2>4 DEF ServiceSound
    <2> QED BY <1>4, <1>5, <2>2, <2>3, <2>5 DEF t, Working
  <1>6. ASSUME NEW job \in JobPhase, NEW out \in JobResult, NEW held \in BOOLEAN,
               NEW t, t = [s EXCEPT !.job = job, !.out = out, !.held = held], Set(p, t),
               s.pc = "run", s.job # "none",
               job \in {"restore", "directory"} => held /\ (job = "directory" => bound),
               job \in {"restore", "directory", "done"},
               job = "done" => out # "none",
               out \in Completion => evidence = out
        PROVE  LeaseInvariant'
    <2>1. t \in Service1
      BY <1>1, <1>6 DEF Service1
    <2>2. /\ t.pc = "run" /\ t.job = job /\ t.out = out /\ t.held = held
          /\ t.claim = s.claim /\ t.control = s.control /\ t.seen = s.seen
      BY <1>1, <1>6 DEF Service1
    <2>3. ServiceSound(t, p, run, attempts, journal, evidence)
      BY <1>1, <1>6, <2>1, <2>2 DEF ServiceSound
    <2> QED BY <1>4, <1>6, <2>2, <2>3 DEF Working
  <1>7. ASSUME s.pc = "run", s.job # "none", Set(p, Fail(s))
        PROVE  LeaseInvariant'
    <2>1. Fail(s) = [s EXCEPT !.job = "done", !.out = "failed", !.held = s.held]
      BY <1>1 DEF Fail, Service1
    <2>2. s.held \in BOOLEAN /\ "done" \in JobPhase /\ "failed" \in JobResult
      BY <1>1, Values DEF Service1
    <2> HIDE DEF Fail
    <2> QED BY <1>6, <1>7, <2>1, <2>2 DEF Completion
  <1>8. CASE JobDone(p)
    BY <1>3, <1>5, <1>8 DEF JobDone, s
  <1>9. CASE JobLoad(p)
    <2>1. s.pc = "run" /\ s.job = "load"
      BY <1>9 DEF JobLoad, JobAt, s
    <2>2. CASE evidence = "none"
      <3>1. Set(p, [s EXCEPT !.job = "restore", !.held = TRUE])
        BY <1>9, <2>2 DEF JobLoad, s
      <3>2. [s EXCEPT !.job = "restore", !.held = TRUE]
              = [s EXCEPT !.job = "restore", !.out = s.out, !.held = TRUE]
        BY <1>1 DEF Service1
      <3>3. s.out \in JobResult /\ "restore" \in JobPhase /\ (s.out \in Completion => evidence = s.out)
        BY <1>1, Values DEF Service1, ServiceSound
      <3> QED BY <1>6, <2>1, <3>1, <3>2, <3>3
    <2>3. CASE evidence # "none" /\ jlock # NoHost
      BY <1>7, <1>9, <2>1, <2>3 DEF JobLoad, s
    <2>4. CASE evidence # "none" /\ jlock = NoHost
      <3>1. Set(p, [s EXCEPT !.job = "done", !.out = evidence, !.held = TRUE])
        BY <1>9, <2>4 DEF JobLoad, s
      <3>2. evidence \in JobResult /\ "done" \in JobPhase
        BY Values DEF LeaseInvariant, TypeOK, Proof, JobResult
      <3> QED BY <1>6, <2>1, <2>4, <3>1, <3>2
    <2> QED BY <2>2, <2>3, <2>4
  <1>10. CASE JobRestore(p)
    <2>1. s.pc = "run" /\ s.job = "restore"
      BY <1>10 DEF JobRestore, JobAt, s
    <2>2. CASE bound
      <3>1. Set(p, [s EXCEPT !.job = "directory"])
        BY <1>10, <2>2 DEF JobRestore, s
      <3>2. s.held = TRUE
        BY <1>1, <2>1 DEF ServiceSound, Service1
      <3>3. [s EXCEPT !.job = "directory"]
              = [s EXCEPT !.job = "directory", !.out = s.out, !.held = TRUE]
        BY <1>1, <3>2 DEF Service1
      <3>4. s.out \in JobResult /\ "directory" \in JobPhase /\ (s.out \in Completion => evidence = s.out)
        BY <1>1, Values DEF Service1, ServiceSound
      <3> QED BY <1>6, <2>1, <2>2, <3>1, <3>3, <3>4
    <2>3. CASE ~bound
      BY <1>7, <1>10, <2>1, <2>3 DEF JobRestore, s
    <2> QED BY <2>2, <2>3
  <1>11. CASE JobFail(p)
    BY <1>7, <1>11 DEF JobFail, s
  <1> QED BY <1>8, <1>9, <1>10, <1>11

-----------------------------------------------------------------------------
(* Steps that change rows *)

\* The fields of a row after a transition.
LEMMA TransitionFields ==
  ASSUME NEW r \in Row, NEW target \in RunState, NEW proof \in Proof
  PROVE  LET n == Transition(r, target, proof) IN
         /\ n \in Row
         /\ n.state = target
         /\ n.started <=> r.started \/ target = "RUNNING"
         /\ n.cancel <=> r.cancel \/ target = "CANCEL_REQUESTED"
         /\ n.pin = proof
  <1>1. /\ r.revision + 1 \in Nat
        /\ (r.started \/ target = "RUNNING") \in BOOLEAN
        /\ (r.cancel \/ target = "CANCEL_REQUESTED") \in BOOLEAN
        /\ (target \in Ended) \in BOOLEAN
    BY DEF Row
  <1> QED BY <1>1 DEF Transition, Row

\* The states of a run.
LEMMA States ==
  /\ RunState = {"ABSENT", "QUEUED", "RUNNING", "CANCEL_REQUESTED", "COMPLETED", "FAILED", "CANCELLED"}
  /\ Pending = {"QUEUED", "RUNNING", "CANCEL_REQUESTED"}
  /\ Owned = {"RUNNING", "CANCEL_REQUESTED"}
  /\ Ended = {"COMPLETED", "FAILED", "CANCELLED"}
  /\ Completion = {"COMPLETED", "CANCELLED"}
  /\ Proof = {"COMPLETED", "CANCELLED", "none"}
  BY DEF RunState, Pending, Owned, Ended, Completion, Proof

\* A commit with an unknown outcome, or one that is known, keeps the session's
\* and the faults' type.
LEMMA CommitTypes ==
  ASSUME TypeOK, UNCHANGED <<writer, faults>> \/ Unknown
  PROVE  writer' \in Hosts \cup {NoHost} /\ faults' \in 0..MaxFaults
  BY FaultCount DEF TypeOK, Unknown

\* The row of a new run.
LEMMA CreateStep ==
  ASSUME LeaseInvariant, Create
  PROVE  LeaseInvariant'
  <1>1. /\ run \in Row /\ run.state = "ABSENT" /\ ~run.started /\ attempts = <<>>
        /\ run' = [run EXCEPT !.state = "QUEUED"]
        /\ UNCHANGED <<attempts, receipts, journal, jlock, evidence, bound, svc>>
    BY DEF LeaseInvariant, TypeOK, RowSound, Create, dbVars, diskVars
  <1>2. /\ run' \in Row /\ run'.state = "QUEUED" /\ run'.started = run.started
        /\ run'.cancel = run.cancel /\ run'.pin = run.pin
    BY <1>1, States DEF Row
  <1>3. WorldGrows
    BY <1>1, <1>2 DEF WorldGrows, Grows, Ended
  <1>4. ServicesSound' /\ BindingOutlivesJobs'
    BY <1>1, <1>3, NobodyMoves
  <1>5. TypeOK'
    BY <1>1, <1>2, CommitTypes DEF LeaseInvariant, TypeOK, Create
  <1>6. RowSound'
    BY <1>1, <1>2, States DEF LeaseInvariant, RowSound
  <1>7. EndedByNewestAttempt'
    BY <1>1, <1>2, States DEF LeaseInvariant, EndedByNewestAttempt
  <1>8. ResultIsEvidence' /\ CancelHonoured'
    BY <1>1, <1>2, States
    DEF LeaseInvariant, ResultIsEvidence, CancelHonoured, CancelIsRequested, CancelKept, Row
  <1> QED BY <1>4, <1>5, <1>6, <1>7, <1>8 DEF LeaseInvariant

\* A cancel command ends a queued run, marks a running one and changes no other.
LEMMA CancelStep ==
  ASSUME LeaseInvariant, NEW c \in Cancels, RequestCancel(c)
  PROVE  LeaseInvariant'
  <1>1. /\ run \in Row /\ run.state # "ABSENT"
        /\ receipts' = receipts \cup {c}
        /\ UNCHANGED <<attempts, journal, jlock, evidence, bound, svc>>
        /\ run' = IF run.state \in {"QUEUED", "RUNNING"}
                    THEN Transition(run, CancelTarget(run.state), "none")
                    ELSE run
    BY DEF LeaseInvariant, TypeOK, RequestCancel, diskVars
  <1>2. /\ run' \in Row /\ run'.started = run.started
        /\ run.cancel => run'.cancel
        /\ \/ run' = run /\ run.state \in {"CANCEL_REQUESTED"} \cup Ended
           \/ run.state = "QUEUED" /\ run'.state = "CANCELLED" /\ run'.pin = "none"
           \/ /\ run.state = "RUNNING" /\ run'.state = "CANCEL_REQUESTED"
              /\ run'.pin = "none" /\ run'.cancel
    <2>1. CASE run.state = "QUEUED"
      <3>1. run' = Transition(run, "CANCELLED", "none")
        BY <1>1, <2>1 DEF CancelTarget
      <3>2. "CANCELLED" \in RunState /\ "none" \in Proof
        BY States
      <3>3. (run'.started <=> run.started) /\ run' \in Row /\ run'.state = "CANCELLED"
            /\ (run.cancel => run'.cancel) /\ run'.pin = "none"
        BY <1>1, <3>1, <3>2, TransitionFields
      <3>4. run'.started = run.started
        BY <1>1, <3>3 DEF Row
      <3> QED BY <2>1, <3>3, <3>4
    <2>2. CASE run.state = "RUNNING"
      <3>1. run' = Transition(run, "CANCEL_REQUESTED", "none")
        BY <1>1, <2>2 DEF CancelTarget
      <3>2. "CANCEL_REQUESTED" \in RunState /\ "none" \in Proof
        BY States
      <3>3. (run'.started <=> run.started) /\ run' \in Row /\ run'.state = "CANCEL_REQUESTED"
            /\ run'.cancel /\ run'.pin = "none"
        BY <1>1, <3>1, <3>2, TransitionFields
      <3>4. run'.started = run.started
        BY <1>1, <3>3 DEF Row
      <3> QED BY <2>2, <3>3, <3>4
    <2>3. CASE run.state \notin {"QUEUED", "RUNNING"}
      BY <1>1, <2>3, States DEF Row
    <2> QED BY <2>1, <2>2, <2>3
  <1>3. WorldGrows
    BY <1>1, <1>2, States DEF WorldGrows, Grows
  <1>4. ServicesSound' /\ BindingOutlivesJobs'
    BY <1>1, <1>3, NobodyMoves
  <1>5. TypeOK'
    BY <1>1, <1>2, CommitTypes DEF LeaseInvariant, TypeOK, RequestCancel
  <1>6. RowSound'
    BY <1>1, <1>2, States DEF LeaseInvariant, RowSound
  <1>7. EndedByNewestAttempt'
    BY <1>1, <1>2, States DEF LeaseInvariant, EndedByNewestAttempt, RowSound
  <1>8. ResultIsEvidence' /\ CancelHonoured'
    BY <1>1, <1>2, States
    DEF LeaseInvariant, ResultIsEvidence, CancelHonoured, CancelIsRequested, CancelKept
  <1> QED BY <1>4, <1>5, <1>6, <1>7, <1>8 DEF LeaseInvariant

\* One attempt changes its state or its lease, and keeps its worker.
LEMMA AttemptReplaced ==
  ASSUME attempts \in Seq(Attempt), NEW n \in DOMAIN attempts, NEW e \in Attempt,
         e.worker = attempts[n].worker, attempts' = [attempts EXCEPT ![n] = e]
  PROVE  /\ attempts' \in Seq(Attempt)
         /\ DOMAIN attempts' = DOMAIN attempts
         /\ Len(attempts') = Len(attempts)
         /\ attempts' # <<>> /\ attempts # <<>>
         /\ n \in 1..Len(attempts)
         /\ attempts'[n] = e
         /\ \A k \in DOMAIN attempts : k # n => attempts'[k] = attempts[k]
         /\ \A k \in DOMAIN attempts : attempts'[k].worker = attempts[k].worker
  <1>1. n \in 1..Len(attempts) /\ DOMAIN attempts = 1..Len(attempts) /\ Len(attempts) \in Nat
    OBVIOUS
  <1>2. /\ attempts' \in Seq(Attempt) /\ Len(attempts') = Len(attempts)
        /\ DOMAIN attempts' = 1..Len(attempts)
        /\ \A k \in 1..Len(attempts) : attempts'[k] = IF k = n THEN e ELSE attempts[k]
    BY <1>1, ExceptSeq
  <1> QED BY <1>1, <1>2

\* A lease lapses, or the lapsed active attempt of an owned run is expired.
LEMMA AttemptStep ==
  ASSUME LeaseInvariant, NEW n \in DOMAIN attempts, NEW e \in Attempt,
         Active(n), e.worker = attempts[n].worker, e.state \in {"ACTIVE", "EXPIRED"},
         attempts' = [attempts EXCEPT ![n] = e],
         UNCHANGED <<run, journal, evidence, receipts>>
  PROVE  /\ WorldGrows /\ attempts' \in Seq(Attempt)
         /\ RowSound' /\ EndedByNewestAttempt' /\ ResultIsEvidence' /\ CancelHonoured'
  <1>1. attempts \in Seq(Attempt)
    BY DEF LeaseInvariant, TypeOK
  <1>2. /\ attempts' \in Seq(Attempt)
        /\ DOMAIN attempts' = DOMAIN attempts
        /\ Len(attempts') = Len(attempts)
        /\ attempts' # <<>> /\ attempts # <<>>
        /\ n \in 1..Len(attempts)
        /\ attempts'[n] = e
        /\ \A k \in DOMAIN attempts : k # n => attempts'[k] = attempts[k]
        /\ \A k \in DOMAIN attempts : attempts'[k].worker = attempts[k].worker
    BY <1>1, AttemptReplaced
  <1>3. WorldGrows
    BY <1>2 DEF WorldGrows, Grows
  <1>4. RowSound'
    BY <1>2 DEF LeaseInvariant, RowSound
  <1>5. /\ attempts[n].state = "ACTIVE" /\ n = Len(attempts)
        /\ Len(attempts) \in DOMAIN attempts
    BY <1>1, <1>2 DEF Active, LeaseInvariant, EndedByNewestAttempt
  <1>6. ~(run.state \in Ended /\ run.started)
    BY <1>5 DEF LeaseInvariant, EndedByNewestAttempt, AttemptEnd
  <1>7. EndedByNewestAttempt'
    BY <1>2, <1>5, <1>6 DEF LeaseInvariant, EndedByNewestAttempt
  <1>8. ResultIsEvidence' /\ CancelHonoured'
    BY DEF LeaseInvariant, ResultIsEvidence, CancelHonoured, CancelIsRequested, CancelKept
  <1> QED BY <1>2, <1>3, <1>4, <1>7, <1>8

LEMMA LapseStep ==
  ASSUME LeaseInvariant, LapseLate \/ LapseOrphan
  PROVE  LeaseInvariant'
  <1>1. PICK n \in DOMAIN attempts :
          Holds(n) /\ attempts' = [attempts EXCEPT ![n].live = FALSE]
    BY DEF LapseLate, LapseOrphan
  <1>2. /\ UNCHANGED <<run, receipts, writer, journal, jlock, evidence, bound, svc>>
        /\ faults' \in 0..MaxFaults
    BY FaultCount DEF LapseLate, LapseOrphan, diskVars, LeaseInvariant, TypeOK
  <1> DEFINE e == [attempts[n] EXCEPT !.live = FALSE]
  <1>3. attempts[n] \in Attempt
    BY DEF LeaseInvariant, TypeOK
  <1>4. e \in Attempt /\ e.worker = attempts[n].worker /\ e.state = attempts[n].state
    BY <1>3 DEF Attempt
  <1>5. attempts' = [attempts EXCEPT ![n] = e]
    BY <1>1
  <1>6. Active(n) /\ e.state = "ACTIVE"
    BY <1>1, <1>4 DEF Holds, Active
  <1> HIDE DEF e
  <1>7. /\ WorldGrows /\ attempts' \in Seq(Attempt)
        /\ RowSound' /\ EndedByNewestAttempt' /\ ResultIsEvidence' /\ CancelHonoured'
    BY <1>2, <1>4, <1>5, <1>6, AttemptStep
  <1>8. ServicesSound' /\ BindingOutlivesJobs'
    BY <1>2, <1>7, NobodyMoves
  <1>9. TypeOK'
    BY <1>2, <1>7 DEF LeaseInvariant, TypeOK
  <1> QED BY <1>7, <1>8, <1>9 DEF LeaseInvariant

LEMMA ExpireStep ==
  ASSUME LeaseInvariant, NEW p \in Hosts, Expire(p)
  PROVE  LeaseInvariant'
  <1> DEFINE s == svc[p]
  <1>1. /\ ServiceSound(s, p, run, attempts, journal, evidence) /\ s \in Service1
        /\ writer \in Hosts \cup {NoHost} /\ jlock \in Hosts \cup {NoHost}
        /\ faults \in 0..MaxFaults
    BY Here
  <1>2. /\ UNCHANGED <<run, receipts, journal, jlock, evidence, bound>>
        /\ writer' \in Hosts \cup {NoHost} /\ faults' \in 0..MaxFaults
        /\ ExpireRow \/ UNCHANGED attempts
    BY <1>1, CommitTypes DEF Expire, diskVars, LeaseInvariant
  <1>3. /\ WorldGrows /\ attempts' \in Seq(Attempt)
        /\ RowSound' /\ EndedByNewestAttempt' /\ ResultIsEvidence' /\ CancelHonoured'
    <2>1. CASE UNCHANGED attempts
      BY <1>2, <2>1 DEF WorldGrows, Grows, LeaseInvariant, TypeOK, RowSound, EndedByNewestAttempt,
        ResultIsEvidence, CancelHonoured, CancelIsRequested, CancelKept
    <2>2. CASE attempts' # attempts
      <3> DEFINE n == CHOOSE i \in DOMAIN attempts : Overdue(i)
      <3>1. /\ n \in DOMAIN attempts /\ Overdue(n)
            /\ attempts' = [attempts EXCEPT ![n].state = "EXPIRED"]
        BY <1>2, <2>2 DEF ExpireRow
      <3> DEFINE e == [attempts[n] EXCEPT !.state = "EXPIRED"]
      <3> HIDE DEF n
      <3>2. attempts[n] \in Attempt
        BY <3>1 DEF LeaseInvariant, TypeOK
      <3>3. e \in Attempt /\ e.worker = attempts[n].worker /\ e.state = "EXPIRED"
        BY <3>2 DEF Attempt, AttemptState
      <3>4. attempts' = [attempts EXCEPT ![n] = e] /\ Active(n)
        BY <3>1 DEF Overdue
      <3> HIDE DEF e
      <3> QED BY <1>2, <3>1, <3>3, <3>4, AttemptStep
    <2> QED BY <2>1, <2>2
  <1> HIDE DEF s
  <1>4. ASSUME NEW t, Set(p, t), ServiceSound(t, p, run, attempts, journal, evidence),
               t.job \in Working => s.job \in Working \/ bound
        PROVE  LeaseInvariant'
    <2>1. ServiceSound(t, p, run', attempts', journal', evidence')
      BY <1>3, <1>4, SoundKept DEF WorldGrows
    <2>2. ServicesSound' /\ BindingOutlivesJobs' /\ svc' \in [Hosts -> Service1]
      BY <1>2, <1>3, <1>4, <2>1, ServiceMoves DEF s
    <2>3. TypeOK'
      BY <1>1, <1>2, <1>3, <2>2 DEF LeaseInvariant, TypeOK
    <2> QED BY <1>3, <2>2, <2>3 DEF LeaseInvariant
  <1>5. CASE Set(p, Exited(s))
    BY <1>1, <1>4, <1>5, RestSound
  <1>6. ASSUME NEW seen0 \in {run.state, s.seen}, Set(p, [s EXCEPT !.pc = "claim", !.seen = seen0])
        PROVE  LeaseInvariant'
    <2> DEFINE t == [s EXCEPT !.pc = "claim", !.seen = seen0]
    <2>1. seen0 \in RunState /\ (seen0 = "CANCEL_REQUESTED" => run.cancel)
      BY <1>1 DEF LeaseInvariant, TypeOK, Row, RowSound, ServiceSound, Service1
    <2>2. t \in Service1
      BY <1>1, <2>1, Values DEF Service1
    <2>3. /\ t.pc = "claim" /\ t.job = s.job /\ t.out = s.out /\ t.held = s.held
          /\ t.claim = s.claim /\ t.control = s.control /\ t.seen = seen0
      BY <1>1 DEF Service1
    <2>4. Set(p, t)
      BY <1>6
    <2> HIDE DEF t
    <2>5. ServiceSound(t, p, run, attempts, journal, evidence)
      BY <1>1, <2>1, <2>2, <2>3 DEF ServiceSound
    <2> QED BY <1>4, <2>3, <2>4, <2>5
  <1>7. CASE Set(p, [s EXCEPT !.pc = "claim",
                        !.seen = IF attempts' # attempts THEN run.state ELSE s.seen])
    <2>1. CASE attempts' # attempts
      BY <1>6, <1>7, <2>1
    <2>2. CASE attempts' = attempts
      BY <1>6, <1>7, <2>2
    <2> QED BY <2>1, <2>2
  <1> QED BY <1>5, <1>7 DEF Expire, s

\* The rows after a claim: one attempt more, behind attempts that all expired.
LEMMA ClaimedRows ==
  ASSUME LeaseInvariant, NEW p \in Hosts, ClaimRows(p),
         UNCHANGED <<journal, evidence, receipts>>
  PROVE  /\ WorldGrows /\ attempts' \in Seq(Attempt) /\ run' \in Row
         /\ Len(attempts) + 1 \in DOMAIN attempts'
         /\ attempts'[Len(attempts) + 1].worker = p
         /\ RowSound' /\ EndedByNewestAttempt' /\ ResultIsEvidence' /\ CancelHonoured'
  <1> DEFINE e == [state |-> "ACTIVE", worker |-> p, live |-> TRUE]
             m == Len(attempts) + 1
  <1>1. e \in Attempt
    BY DEF Attempt, AttemptState
  <1>2. attempts \in Seq(Attempt) /\ attempts' = Append(attempts, e) /\ Len(attempts) \in Nat
    BY DEF LeaseInvariant, TypeOK, ClaimRows
  <1>3. /\ attempts' \in Seq(Attempt) /\ Len(attempts') = m /\ attempts' # <<>>
        /\ DOMAIN attempts' = 1..m /\ DOMAIN attempts = 1..Len(attempts)
        /\ attempts'[m] = e
        /\ \A k \in 1..Len(attempts) : attempts'[k] = attempts[k]
    BY <1>1, <1>2, AppendProperties
  <1>4. e.state = "ACTIVE" /\ e.worker = p
    OBVIOUS
  <1> HIDE DEF e
  <1>5. /\ run \in Row /\ run' \in Row /\ run.state \in Pending /\ run'.state \in Owned
        /\ run'.started /\ (run.cancel => run'.cancel) /\ run'.pin = "none"
        /\ run'.state = "CANCEL_REQUESTED" => run'.cancel
        /\ run.state = "CANCEL_REQUESTED" => run'.state = "CANCEL_REQUESTED"
        /\ receipts # {} => run'.state = "CANCEL_REQUESTED"
    <2>1. run \in Row /\ run.state \in Pending
      BY DEF LeaseInvariant, TypeOK, ClaimRows, Claimable
    <2>2. run.pin = "none"
      BY <2>1, States DEF LeaseInvariant, ResultIsEvidence, Row
    <2>3. CASE run.state = "QUEUED"
      <3>1. run' = Transition(run, "RUNNING", "none") /\ "RUNNING" \in RunState /\ "none" \in Proof
        BY <2>3, States DEF ClaimRows
      <3>2. /\ run' \in Row /\ run'.state = "RUNNING" /\ run'.started /\ run'.pin = "none"
            /\ run.cancel => run'.cancel
        BY <2>1, <3>1, TransitionFields
      <3>3. receipts = {}
        BY <2>3, States DEF LeaseInvariant, CancelHonoured, CancelKept
      <3> QED BY <2>1, <2>3, <3>2, <3>3, States
    <2>4. CASE run.state # "QUEUED"
      <3>1. run' = run /\ run.state \in Owned
        BY <2>1, <2>4, States DEF ClaimRows
      <3>2. run.started /\ (run.state = "CANCEL_REQUESTED" => run.cancel)
        BY <3>1 DEF LeaseInvariant, RowSound
      <3>3. receipts # {} => run.state = "CANCEL_REQUESTED"
        BY <3>1, States DEF LeaseInvariant, CancelHonoured, CancelKept
      <3> QED BY <2>1, <2>2, <3>1, <3>2, <3>3
    <2> QED BY <2>3, <2>4
  <1>6. WorldGrows
    <2>1. DOMAIN attempts \subseteq DOMAIN attempts'
      BY <1>2, <1>3
    <2>2. \A k \in DOMAIN attempts : attempts'[k].worker = attempts[k].worker
      BY <1>3
    <2>3. run.state \notin Ended
      BY <1>5, States
    <2> QED BY <1>5, <2>1, <2>2, <2>3 DEF WorldGrows, Grows
  <1>7. RowSound'
    BY <1>3, <1>5, States DEF RowSound
  <1>8. EndedByNewestAttempt'
    <2>1. \A k \in 1..Len(attempts) : attempts[k].state = "EXPIRED"
      <3> SUFFICES ASSUME NEW k \in 1..Len(attempts) PROVE attempts[k].state = "EXPIRED"
        OBVIOUS
      <3>1. CASE k < Len(attempts)
        BY <1>3, <3>1 DEF LeaseInvariant, EndedByNewestAttempt
      <3>2. CASE k = Len(attempts)
        <4>1. attempts # <<>> /\ run.state \notin Ended
          BY <1>2, <1>5, <3>2, States
        <4>2. attempts[k].state \in {"ACTIVE", "EXPIRED"}
          BY <3>2, <4>1 DEF LeaseInvariant, EndedByNewestAttempt
        <4>3. ~Active(k)
          BY <1>3 DEF ClaimRows, Claimable, NoneActive
        <4> QED BY <1>3, <4>2, <4>3 DEF Active
      <3> QED BY <1>2, <3>1, <3>2
    <2> QED BY <1>2, <1>3, <1>4, <1>5, <2>1, States DEF EndedByNewestAttempt
  <1>9. ResultIsEvidence' /\ CancelHonoured'
    BY <1>5 DEF LeaseInvariant, ResultIsEvidence, CancelHonoured, CancelIsRequested, CancelKept
  <1> QED BY <1>2, <1>3, <1>4, <1>5, <1>6, <1>7, <1>8, <1>9

LEMMA ClaimStep ==
  ASSUME LeaseInvariant, NEW p \in Hosts, Claim(p)
  PROVE  LeaseInvariant'
  <1> DEFINE s == svc[p]
  <1>1. /\ ServiceSound(s, p, run, attempts, journal, evidence) /\ s \in Service1
        /\ writer \in Hosts \cup {NoHost} /\ jlock \in Hosts \cup {NoHost}
        /\ faults \in 0..MaxFaults
    BY Here
  <1>2. /\ UNCHANGED <<receipts, journal, jlock, evidence, bound>>
        /\ writer' \in Hosts \cup {NoHost} /\ faults' \in 0..MaxFaults
    BY <1>1, CommitTypes DEF Claim, diskVars, LeaseInvariant
  <1> HIDE DEF s
  <1>3. CASE UNCHANGED <<run, attempts>> /\ (Set(p, Finished(s)) \/ Set(p, Exited(s)))
    BY <1>1, <1>2, <1>3, RestSound, OnlyService
  <1>4. ASSUME ClaimRows(p), NEW t, Set(p, t),
               ServiceSound(t, p, run', attempts', journal', evidence'), t.job \notin Working
        PROVE  LeaseInvariant'
    <2>1. /\ WorldGrows /\ attempts' \in Seq(Attempt) /\ run' \in Row
          /\ RowSound' /\ EndedByNewestAttempt' /\ ResultIsEvidence' /\ CancelHonoured'
      BY <1>2, <1>4, ClaimedRows
    <2>2. ServicesSound' /\ BindingOutlivesJobs' /\ svc' \in [Hosts -> Service1]
      BY <1>2, <1>4, <2>1, ServiceMoves DEF s
    <2>3. TypeOK'
      BY <1>1, <1>2, <2>1, <2>2 DEF LeaseInvariant, TypeOK
    <2> QED BY <2>1, <2>2, <2>3 DEF LeaseInvariant
  <1>5. CASE ClaimRows(p) /\ Set(p, Exited(s))
    <2>1. ServiceSound(Exited(s), p, run', attempts', journal', evidence') /\ Exited(s).job \notin Working
      BY <1>1, <1>2, <1>5, ClaimedRows, RestSound, SoundKept DEF WorldGrows
    <2> QED BY <1>4, <1>5, <2>1
  <1>6. CASE ClaimRows(p) /\ Set(p, Claimed(s, Len(attempts) + 1))
    <2> DEFINE m == Len(attempts) + 1
               t == Claimed(s, m)
               first == IF s.seen = "CANCEL_REQUESTED" THEN CancelControl ELSE 0
               c == IF s.wake = 2 THEN Pause(first) ELSE first
    <2>1. c \in Level /\ (c = 2 => s.seen = "CANCEL_REQUESTED")
      BY Values DEF CancelControl, Pause
    <2>2. t = [s EXCEPT !.pc = "run", !.claim = m, !.certain = TRUE, !.lost = FALSE,
                        !.control = c, !.stopping = s.wake = 2, !.job = "load", !.out = "none"]
      BY DEF Claimed
    <2>3. m \in Nat /\ m # 0
      BY DEF LeaseInvariant, TypeOK
    <2>4. /\ WorldGrows /\ m \in DOMAIN attempts' /\ attempts'[m].worker = p
      BY <1>2, <1>6, ClaimedRows
    <2>5. Set(p, t)
      BY <1>6
    <2> HIDE DEF c, m, t
    <2>6. /\ t \in Service1 /\ t.pc = "run" /\ t.claim = m /\ t.control = c /\ t.job = "load"
          /\ t.out = "none" /\ t.seen = s.seen
      BY <1>1, <2>1, <2>2, <2>3, Values DEF Service1
    <2>7. s.seen = "CANCEL_REQUESTED" => run'.cancel
      BY <1>1, <2>4 DEF WorldGrows, Grows, ServiceSound
    <2>8. ServiceSound(t, p, run', attempts', journal', evidence')
      BY <2>1, <2>3, <2>4, <2>6, <2>7, States DEF ServiceSound
    <2> QED BY <1>4, <1>6, <2>5, <2>6, <2>8 DEF Working
  <1> QED BY <1>3, <1>5, <1>6 DEF Claim, s

-----------------------------------------------------------------------------
(* Steps of the job that change files *)

\* A step of the job of p that leaves the rows alone.
LEMMA JobMoves ==
  ASSUME LeaseInvariant, NEW p \in Hosts, NEW t, Set(p, t),
         UNCHANGED <<run, attempts, receipts, writer, bound, faults>>,
         journal' \in JournalState, jlock' \in Hosts \cup {NoHost}, evidence' \in Proof,
         journal \in Completion => journal' = journal,
         evidence # "none" => evidence' = evidence,
         evidence' # "none" => evidence' = journal',
         journal' \in {"input_cancelled", "CANCELLED"} => run.cancel,
         ServiceSound(t, p, run, attempts, journal', evidence'),
         t.job \in Working => svc[p].job \in Working
  PROVE  LeaseInvariant'
  <1>1. WorldGrows
    BY DEF WorldGrows, Grows
  <1>2. ServicesSound' /\ BindingOutlivesJobs' /\ svc' \in [Hosts -> Service1]
    BY <1>1, ServiceMoves
  <1>3. TypeOK'
    BY <1>2 DEF LeaseInvariant, TypeOK
  <1>4. RowSound' /\ EndedByNewestAttempt'
    BY DEF LeaseInvariant, RowSound, EndedByNewestAttempt
  <1>5. ResultIsEvidence' /\ CancelHonoured'
    BY DEF LeaseInvariant, ResultIsEvidence, CancelHonoured, CancelIsRequested, CancelKept
  <1> QED BY <1>2, <1>3, <1>4, <1>5 DEF LeaseInvariant

\* The service whose job is in phase job with result out.
PhaseOf(s, job, out) == [s EXCEPT !.job = job, !.out = out]

\* The service of a job that goes on with another phase or ends.
LEMMA PhaseSound ==
  ASSUME NEW s, NEW p, NEW r, NEW a, NEW j, NEW e, NEW j2, NEW e2,
         ServiceSound(s, p, r, a, j, e), s.pc = "run", s.job \in Working,
         NEW job \in Working \cup {"done"}, NEW out \in JobResult,
         job = "done" => out # "none",
         job = "publish" => j2 \in Completion,
         out \in Completion => e2 = out
  PROVE  ServiceSound(PhaseOf(s, job, out), p, r, a, j2, e2)
  <1> DEFINE t == PhaseOf(s, job, out)
  <1>1. s \in Service1 /\ job \in JobPhase
    BY Values DEF ServiceSound, Working
  <1>2. t \in Service1
    BY <1>1 DEF Service1, PhaseOf
  <1>3. /\ t.pc = "run" /\ t.job = job /\ t.out = out /\ t.held = s.held
        /\ t.claim = s.claim /\ t.control = s.control /\ t.seen = s.seen
    BY <1>1 DEF Service1, PhaseOf
  <1> HIDE DEF t
  <1>4. s.held /\ s.claim # 0
    BY DEF ServiceSound, Working
  <1>5. ServiceSound(t, p, r, a, j2, e2)
    BY <1>2, <1>3, <1>4 DEF ServiceSound
  <1> QED BY <1>5 DEF t

\* The files stay as they are, and sound.
Stays ==
  /\ journal' \in JournalState /\ evidence' \in Proof
  /\ UNCHANGED <<journal, evidence>>
  /\ evidence' # "none" => evidence' = journal'
  /\ journal' \in {"input_cancelled", "CANCELLED"} => run.cancel

LEMMA JobFileStep ==
  ASSUME LeaseInvariant, NEW p \in Hosts,
         JobDirectory(p) \/ JobOpen(p) \/ JobProduce(p) \/ JobPublish(p)
  PROVE  LeaseInvariant'
  <1> DEFINE s == svc[p]
  <1>1. /\ ServiceSound(s, p, run, attempts, journal, evidence) /\ s \in Service1
        /\ writer \in Hosts \cup {NoHost} /\ jlock \in Hosts \cup {NoHost}
    BY Here
  <1>2. /\ UNCHANGED <<run, attempts, receipts, writer, bound, faults>>
        /\ jlock' \in Hosts \cup {NoHost}
        /\ s.pc = "run" /\ s.job \in Working
    BY <1>1 DEF JobDirectory, JobOpen, JobProduce, JobPublish, JobAt, Leave, dbVars, Working
  <1>3. /\ s.out \in JobResult /\ (s.out \in Completion => evidence = s.out)
        /\ s.control = 2 => run.cancel
        /\ s.job = "publish" => journal \in Completion
    BY <1>1 DEF ServiceSound, Service1
  <1>4. /\ journal \in JournalState /\ evidence \in Proof
        /\ evidence # "none" => evidence = journal
        /\ evidence # "none" => journal \in Completion
        /\ journal \in {"input_cancelled", "CANCELLED"} => run.cancel
    BY States DEF LeaseInvariant, TypeOK, ResultIsEvidence, CancelHonoured, CancelIsRequested
  <1>5. {"none", "dir", "running", "input_cancelled", "input_finished", "INCOMPLETE",
         "COMPLETED", "CANCELLED"} = JournalState
    BY DEF JournalState, Completion
  <1> HIDE DEF s
  <1>6. ASSUME NEW job \in Working \cup {"done"}, NEW out \in JobResult,
               Set(p, PhaseOf(s, job, out)),
               job = "done" => out # "none",
               job = "publish" => journal' \in Completion,
               out \in Completion => evidence' = out,
               journal' \in JournalState, evidence' \in Proof,
               journal \in Completion => journal' = journal,
               evidence # "none" => evidence' = evidence,
               evidence' # "none" => evidence' = journal',
               journal' \in {"input_cancelled", "CANCELLED"} => run.cancel
        PROVE  LeaseInvariant'
    <2>1. ServiceSound(PhaseOf(s, job, out), p, run, attempts, journal', evidence')
      BY <1>1, <1>2, <1>6, PhaseSound
    <2> QED BY <1>2, <1>6, <2>1, JobMoves DEF s
  <1>7. ASSUME NEW job \in Working, Set(p, [s EXCEPT !.job = job]),
               UNCHANGED evidence, job = "publish" => journal \in Completion,
               journal' = journal \/ (journal \in {"none", "dir"} /\ journal' \in {"dir", "running"})
        PROVE  LeaseInvariant'
    <2>1. [s EXCEPT !.job = job] = PhaseOf(s, job, s.out)
      BY <1>1 DEF Service1, PhaseOf
    <2>2. /\ journal' \in JournalState
          /\ journal \in Completion => journal' = journal
          /\ evidence # "none" => evidence = journal'
          /\ journal' \in {"input_cancelled", "CANCELLED"} => run.cancel
      BY <1>4, <1>5, <1>7, States
    <2>3. job # "done"
      BY DEF Working
    <2>4. /\ evidence' \in Proof /\ (evidence # "none" => evidence' = evidence)
          /\ evidence' # "none" => evidence' = journal'
          /\ s.out \in Completion => evidence' = s.out
          /\ job = "publish" => journal' \in Completion
          /\ job \in Working \cup {"done"} /\ s.out \in JobResult
      BY <1>3, <1>4, <1>7, <2>2
    <2> QED BY ONLY <1>6, <1>7, <2>1, <2>2, <2>3, <2>4
  <1>8. ASSUME NEW out \in {"failed", "paused"}, Set(p, PhaseOf(s, "done", out)),
               UNCHANGED <<journal, evidence>>
        PROVE  LeaseInvariant'
    <2>1. out \in JobResult /\ out \notin Completion /\ out # "none"
      BY Values, States
    <2>2. Stays
      BY <1>4, <1>8 DEF Stays
    <2> QED BY ONLY <1>6, <1>8, <2>1, <2>2 DEF Stays
  <1>9. ASSUME Set(p, Fail(s)), UNCHANGED <<journal, evidence>>
        PROVE  LeaseInvariant'
    BY <1>8, <1>9 DEF Fail, PhaseOf
  <1>10. CASE JobDirectory(p)
    <2>1. UNCHANGED evidence
      BY <1>10 DEF JobDirectory
    <2>2. CASE Set(p, Fail(s)) /\ UNCHANGED journal
      BY <1>9, <2>1, <2>2
    <2>3. CASE /\ Set(p, [s EXCEPT !.job = "open"])
               /\ UNCHANGED journal \/ (journal = "none" /\ journal' = "dir")
      BY <1>7, <2>1, <2>3 DEF Working
    <2> QED BY <1>10, <2>2, <2>3 DEF JobDirectory, s
  <1>11. CASE JobOpen(p)
    <2>1. UNCHANGED evidence
      BY <1>11 DEF JobOpen
    <2>2. CASE Set(p, Fail(s)) /\ UNCHANGED journal
      BY <1>9, <2>1, <2>2
    <2>3. CASE /\ Set(p, [s EXCEPT !.job = "produce"])
               /\ journal' = IF journal = "dir" THEN "running" ELSE journal
      BY <1>7, <2>1, <2>3 DEF Working
    <2> QED BY <1>11, <2>2, <2>3 DEF JobOpen, s
  <1>12. CASE JobProduce(p)
    <2>1. UNCHANGED evidence
      BY <1>12 DEF JobProduce
    <2>2. CASE ProduceStep(s) /\ UNCHANGED svc
      <3>1. svc \in [Hosts -> Service1]
        BY DEF LeaseInvariant, TypeOK
      <3>2. Set(p, s)
        BY <2>2, <3>1 DEF Set, s
      <3>3. /\ journal' \in JournalState /\ journal \notin Completion
            /\ journal' \in {"input_cancelled", "CANCELLED"} => run.cancel
        BY <1>3, <1>4, <1>5, <2>2, States DEF ProduceStep
      <3>4. WorldGrows
        BY <1>2, <2>1, <3>3 DEF WorldGrows, Grows
      <3>5. ServiceSound(s, p, run, attempts, journal', evidence')
        BY <1>1, <1>2, <3>4, SoundKept DEF WorldGrows
      <3> QED BY <1>2, <1>4, <2>1, <3>2, <3>3, <3>5, JobMoves DEF s
    <2>3. CASE Set(p, [s EXCEPT !.job = "done", !.out = "paused"]) /\ UNCHANGED journal
      BY <1>8, <2>1, <2>3 DEF PhaseOf
    <2>4. CASE /\ journal \in Completion
               /\ Set(p, [s EXCEPT !.job = "publish"]) /\ UNCHANGED journal
      BY <1>7, <2>1, <2>4 DEF Working
    <2>5. CASE Set(p, Fail(s)) /\ UNCHANGED journal
      BY <1>9, <2>1, <2>5
    <2> QED BY <1>12, <2>2, <2>3, <2>4, <2>5 DEF JobProduce, s
  <1>13. CASE JobPublish(p)
    <2>1. UNCHANGED journal /\ journal \in Completion
      BY <1>3, <1>13 DEF JobPublish, JobAt, s
    <2>2. CASE Set(p, Fail(s)) /\ UNCHANGED evidence
      BY <1>9, <2>1, <2>2
    <2>3. CASE /\ evidence \in {"none", journal} /\ evidence' = journal
               /\ Set(p, [s EXCEPT !.job = "done", !.out = journal])
      <3>1. journal \in JobResult /\ journal \in Proof /\ journal # "none"
        BY <2>1, States, Values
      <3>2. Set(p, PhaseOf(s, "done", journal))
        BY <2>3 DEF PhaseOf
      <3> QED BY <1>4, <1>6, <2>1, <2>3, <3>1, <3>2
    <2> QED BY <1>13, <2>2, <2>3 DEF JobPublish, s
  <1> QED BY <1>10, <1>11, <1>12, <1>13

-----------------------------------------------------------------------------
(* The end of the run and the release of its binding *)

\* The rows after finalize: the run ends with its evidence, by its newest attempt.
LEMMA EndedRows ==
  ASSUME LeaseInvariant, NEW n, NEW target \in Completion, evidence = target,
         EndRows(n, target), UNCHANGED <<journal, evidence, receipts>>
  PROVE  /\ WorldGrows /\ attempts' \in Seq(Attempt) /\ run' \in Row
         /\ RowSound' /\ EndedByNewestAttempt' /\ ResultIsEvidence' /\ CancelHonoured'
  <1>1. /\ run \in Row /\ run.state \in Owned /\ n \in DOMAIN attempts /\ Active(n)
        /\ attempts \in Seq(Attempt)
    BY DEF LeaseInvariant, TypeOK, EndRows, MayEnd, Holds, Active
  <1>2. target \in RunState /\ target \in Proof /\ target # "none" /\ target \in Ended
        /\ target # "FAILED" /\ target \notin Owned /\ target \notin {"ABSENT", "QUEUED"}
    BY States
  <1>3. run' = Transition(run, target, target)
    BY DEF EndRows
  <1>4. /\ run' \in Row /\ run'.state = target /\ run'.pin = target
        /\ (run'.started <=> run.started) /\ (run.cancel <=> run'.cancel)
    BY <1>1, <1>2, <1>3, TransitionFields, States
  <1>5. run.started
    BY <1>1 DEF LeaseInvariant, RowSound
  <1> DEFINE e == [attempts[n] EXCEPT !.state = AttemptEnd(target)]
  <1>6. attempts[n] \in Attempt
    BY <1>1
  <1>7. AttemptEnd(target) \in AttemptState
    BY DEF AttemptEnd, AttemptState
  <1>8. e \in Attempt /\ e.worker = attempts[n].worker /\ e.state = AttemptEnd(target)
    BY <1>6, <1>7 DEF Attempt
  <1>9. attempts' = [attempts EXCEPT ![n] = e]
    BY DEF EndRows
  <1> HIDE DEF e
  <1>10. /\ attempts' \in Seq(Attempt)
         /\ DOMAIN attempts' = DOMAIN attempts
         /\ Len(attempts') = Len(attempts)
         /\ attempts' # <<>> /\ attempts # <<>>
         /\ n \in 1..Len(attempts)
         /\ attempts'[n] = e
         /\ \A k \in DOMAIN attempts : k # n => attempts'[k] = attempts[k]
         /\ \A k \in DOMAIN attempts : attempts'[k].worker = attempts[k].worker
    BY <1>1, <1>8, <1>9, AttemptReplaced
  <1>11. n = Len(attempts)
    BY <1>1, <1>10 DEF Active, LeaseInvariant, EndedByNewestAttempt
  <1>12. WorldGrows
    <2>1. run.state \notin Ended
      BY <1>1, States
    <2> QED BY <1>4, <1>10, <2>1 DEF WorldGrows, Grows
  <1>13. RowSound'
    <2>1. run'.started
      BY <1>4, <1>5
    <2>2. attempts' # <<>>
      BY <1>10
    <2>3. run'.state # "CANCEL_REQUESTED"
      BY <1>2, <1>4, States
    <2> QED BY <1>2, <1>4, <2>1, <2>2, <2>3 DEF RowSound
  <1>14. EndedByNewestAttempt'
    BY <1>2, <1>4, <1>8, <1>10, <1>11 DEF LeaseInvariant, EndedByNewestAttempt
  <1>15. ResultIsEvidence' /\ CancelHonoured'
    BY <1>2, <1>4 DEF LeaseInvariant, ResultIsEvidence, CancelHonoured, CancelIsRequested, CancelKept
  <1> QED BY <1>4, <1>10, <1>12, <1>13, <1>14, <1>15

LEMMA FinalizeStep ==
  ASSUME LeaseInvariant, NEW p \in Hosts, Finalize(p)
  PROVE  LeaseInvariant'
  <1> DEFINE s == svc[p]
  <1>1. /\ ServiceSound(s, p, run, attempts, journal, evidence) /\ s \in Service1
        /\ writer \in Hosts \cup {NoHost} /\ jlock \in Hosts \cup {NoHost}
        /\ faults \in 0..MaxFaults
    BY Here
  <1>2. /\ UNCHANGED <<receipts, journal, jlock, evidence, bound>>
        /\ writer' \in Hosts \cup {NoHost} /\ faults' \in 0..MaxFaults
    BY <1>1, CommitTypes DEF Finalize, diskVars, LeaseInvariant
  <1>3. s.out \in Completion /\ evidence = s.out /\ s.job = "done"
    BY <1>1 DEF Finalize, ServiceSound
  <1> HIDE DEF s
  <1>4. CASE UNCHANGED <<run, attempts>> /\ Set(p, Exited(s))
    BY <1>1, <1>2, <1>4, RestSound, OnlyService
  <1>5. ASSUME EndRows(s.claim, s.out), NEW t, Set(p, t),
               ServiceSound(t, p, run, attempts, journal, evidence),
               t.job \in Working => s.job \in Working
        PROVE  LeaseInvariant'
    <2>1. /\ WorldGrows /\ attempts' \in Seq(Attempt) /\ run' \in Row
          /\ RowSound' /\ EndedByNewestAttempt' /\ ResultIsEvidence' /\ CancelHonoured'
      BY <1>2, <1>3, <1>5, EndedRows
    <2>2. ServiceSound(t, p, run', attempts', journal', evidence')
      BY <1>5, <2>1, SoundKept DEF WorldGrows
    <2>3. ServicesSound' /\ BindingOutlivesJobs' /\ svc' \in [Hosts -> Service1]
      BY <1>2, <1>5, <2>1, <2>2, ServiceMoves DEF s
    <2>4. TypeOK'
      BY <1>1, <1>2, <2>1, <2>3 DEF LeaseInvariant, TypeOK
    <2> QED BY <2>1, <2>3, <2>4 DEF LeaseInvariant
  <1>6. CASE EndRows(s.claim, s.out) /\ Set(p, Exited(s))
    BY <1>1, <1>5, <1>6, RestSound
  <1>7. CASE /\ EndRows(s.claim, s.out)
             /\ Set(p, [s EXCEPT !.pc = "terminal", !.certain = FALSE, !.held = FALSE])
    <2> DEFINE t == [s EXCEPT !.pc = "terminal", !.certain = FALSE, !.held = FALSE]
    <2>1. t \in Service1
      BY <1>1, Values DEF Service1
    <2>2. /\ t.pc = "terminal" /\ t.job = s.job /\ t.out = s.out
          /\ t.claim = s.claim /\ t.control = s.control /\ t.seen = s.seen
      BY <1>1 DEF Service1
    <2>3. Set(p, t)
      BY <1>7
    <2> HIDE DEF t
    <2>4. ServiceSound(t, p, run, attempts, journal, evidence)
      BY <1>1, <1>3, <2>1, <2>2 DEF ServiceSound
    <2> QED BY <1>5, <1>7, <2>2, <2>3, <2>4
  <1> QED BY <1>4, <1>6, <1>7 DEF Finalize, s

\* Nobody holds the binding that is released, so no job is using it, and the
\* end of the run was proved before.
LEMMA ReleaseStep ==
  ASSUME LeaseInvariant, NEW p \in Hosts, Release(p)
  PROVE  LeaseInvariant'
  <1> DEFINE s == svc[p]
             t == Finished(s)
  <1>1. ServiceSound(s, p, run, attempts, journal, evidence)
    BY Here
  <1>2. /\ UNCHANGED <<run, attempts, receipts, journal, jlock, evidence, writer, faults>>
        /\ svc \in [Hosts -> Service1] /\ svc' = [svc EXCEPT ![p] = t]
        /\ bound' = FALSE /\ s.pc = "release"
        /\ \A q \in Hosts : ~svc[q].held
    BY DEF Release, Set, LeaseInvariant, TypeOK, dbVars, diskVars
  <1>3. ServiceSound(t, p, run, attempts, journal, evidence) /\ t.job \notin Working
    BY <1>1, RestSound
  <1>4. t \in Service1
    BY <1>3 DEF ServiceSound
  <1>5. svc'[p] = t /\ \A q \in Hosts \ {p} : svc'[q] = svc[q]
    BY <1>2
  <1> HIDE DEF t
  <1>6. svc' \in [Hosts -> Service1]
    BY <1>2, <1>4
  <1>7. ServicesSound'
    <2> SUFFICES ASSUME NEW q \in Hosts
                 PROVE  ServiceSound(svc'[q], q, run, attempts, journal, evidence)
      BY <1>2 DEF ServicesSound
    <2>1. CASE q = p
      BY <1>3, <1>5, <2>1
    <2>2. CASE q # p
      BY <1>5, <2>2 DEF LeaseInvariant, ServicesSound
    <2> QED BY <2>1, <2>2
  <1>8. \A q \in Hosts : svc[q].job \notin Working
    BY <1>2 DEF LeaseInvariant, ServicesSound, ServiceSound, Working
  <1>9. run.state \in Ended /\ (run.started => evidence = run.state)
    BY <1>1, <1>2 DEF ServiceSound
  <1>10. BindingOutlivesJobs'
    BY <1>2, <1>3, <1>5, <1>8, <1>9 DEF BindingOutlivesJobs, Working
  <1>11. TypeOK'
    BY <1>2, <1>6 DEF LeaseInvariant, TypeOK
  <1>12. RowSound' /\ EndedByNewestAttempt' /\ ResultIsEvidence' /\ CancelHonoured'
    BY <1>2 DEF LeaseInvariant, RowSound, EndedByNewestAttempt, ResultIsEvidence,
                CancelHonoured, CancelIsRequested, CancelKept
  <1> QED BY <1>7, <1>10, <1>11, <1>12 DEF LeaseInvariant

\* The session breaks, or nothing happens.
LEMMA SessionStep ==
  ASSUME LeaseInvariant, LoseSession \/ UNCHANGED vars
  PROVE  LeaseInvariant'
  <1>1. /\ UNCHANGED <<run, attempts, receipts, journal, jlock, evidence, bound, svc>>
        /\ writer' \in Hosts \cup {NoHost} /\ faults' \in 0..MaxFaults
    BY FaultCount DEF LoseSession, vars, dbVars, diskVars, LeaseInvariant, TypeOK
  <1>2. TypeOK' /\ ServicesSound' /\ BindingOutlivesJobs'
    BY <1>1 DEF LeaseInvariant, TypeOK, ServicesSound, BindingOutlivesJobs
  <1>3. RowSound' /\ EndedByNewestAttempt' /\ ResultIsEvidence' /\ CancelHonoured'
    BY <1>1 DEF LeaseInvariant, RowSound, EndedByNewestAttempt, ResultIsEvidence,
                CancelHonoured, CancelIsRequested, CancelKept
  <1> QED BY <1>2, <1>3 DEF LeaseInvariant

-----------------------------------------------------------------------------
(* The theorems *)

LEMMA LeaseInit == Init => LeaseInvariant
  <1> SUFFICES ASSUME Init PROVE LeaseInvariant
    OBVIOUS
  <1>1. Stopped \in Service1 /\ \A p \in Hosts : svc[p] = Stopped
    BY Values DEF Init, Stopped, Service1
  <1>2. TypeOK
    <2>1. run \in Row
      BY States DEF Init, Row
    <2>2. attempts \in Seq(Attempt) /\ faults \in 0..MaxFaults
      BY LeaseAssumption DEF Init
    <2>3. svc \in [Hosts -> Service1]
      BY <1>1 DEF Init
    <2>4. journal \in JournalState /\ evidence \in Proof
      BY States DEF Init, JournalState
    <2> QED BY <2>1, <2>2, <2>3, <2>4 DEF TypeOK, Init
  <1>3. ServicesSound
    BY <1>1, States DEF ServicesSound, ServiceSound, Stopped
  <1>4. RowSound /\ ResultIsEvidence /\ CancelHonoured /\ BindingOutlivesJobs
    BY States DEF Init, RowSound, ResultIsEvidence, CancelHonoured, CancelIsRequested, CancelKept,
      BindingOutlivesJobs
  <1>5. EndedByNewestAttempt
    BY States DEF Init, EndedByNewestAttempt
  <1> QED BY <1>2, <1>3, <1>4, <1>5 DEF LeaseInvariant

LEMMA LeaseStep == LeaseInvariant /\ [Next]_vars => LeaseInvariant'
  <1> SUFFICES ASSUME LeaseInvariant, [Next]_vars PROVE LeaseInvariant'
    OBVIOUS
  <1>1. CASE Environment
    BY <1>1, CreateStep, CancelStep, SessionStep, LapseStep, HostStep, WakeStep DEF Environment
  <1>2. ASSUME NEW p \in Hosts, Service(p) PROVE LeaseInvariant'
    BY <1>2, WakeStep, ReadStep, ExpireStep, ClaimStep, JobReadStep, FinalizeStep, ReleaseStep
    DEF Service
  <1>3. ASSUME NEW p \in Hosts, Tick(p) \/ Job(p) \/ JobFail(p) PROVE LeaseInvariant'
    BY <1>3, TickStep, JobReadStep, JobFileStep DEF Job
  <1>4. CASE UNCHANGED vars
    BY <1>4, SessionStep
  <1> QED BY <1>1, <1>2, <1>3, <1>4 DEF Next

\* Type correctness and the inductive invariant hold in every state, for any
\* hosts, cancel commands, attempts and faults.
THEOREM LeaseCorrect == Spec => []LeaseInvariant
  BY LeaseInit, LeaseStep, PTL DEF Spec

\* A claim is the position of an attempt of its own worker, so two services
\* never claim the same one.
LEMMA OwnerFollows == LeaseInvariant => LeaseHasOneOwner
  BY DEF LeaseInvariant, ServicesSound, ServiceSound, LeaseHasOneOwner, Active, TypeOK

\* claim, expire and finalize of backtest_run.rs: no attempt but the newest can
\* end the run, and no two services hold the same lease.
THEOREM AttemptsFenced == Spec => []Fenced
  <1>1. LeaseInvariant => Fenced
    BY OwnerFollows DEF LeaseInvariant, Fenced
  <1> QED BY <1>1, LeaseCorrect, PTL

\* Store::commit and finalize: the pinned result is the published evidence and
\* what the journal ended with.
THEOREM ResultPublished == Spec => []ResultIsEvidence
  <1>1. LeaseInvariant => ResultIsEvidence
    BY DEF LeaseInvariant
  <1> QED BY <1>1, LeaseCorrect, PTL

\* request_cancel against claims, expiries, lost leases and completions: no
\* cancellation is invented and none is lost.
THEOREM CancelsHonoured == Spec => []CancelHonoured
  <1>1. LeaseInvariant => CancelHonoured
    BY DEF LeaseInvariant
  <1> QED BY <1>1, LeaseCorrect, PTL

\* release_work_exact: the binding outlives every job that may use it.
THEOREM BindingsOutlive == Spec => []BindingOutlivesJobs
  <1>1. LeaseInvariant => BindingOutlivesJobs
    BY DEF LeaseInvariant
  <1> QED BY <1>1, LeaseCorrect, PTL

-----------------------------------------------------------------------------
(* The refinement of BacktestOutcome *)

\* A step that leaves the state of the run, its cancellation and the evidence
\* alone is a stutter of the abstract run.
LEMMA Stutters ==
  ASSUME run'.state = run.state, run'.cancel = run.cancel, evidence' = evidence
  PROVE  UNCHANGED Outcome!outcomeVars
  BY DEF Outcome!outcomeVars

LEMMA RowsImplement ==
  ASSUME LeaseInvariant, Create \/ \E c \in Cancels : RequestCancel(c)
  PROVE  [Outcome!OutcomeNext]_(Outcome!outcomeVars)
  <1>1. run \in Row /\ run.cancel \in BOOLEAN /\ "none" \in Proof
        /\ "CANCELLED" \in RunState /\ "CANCEL_REQUESTED" \in RunState
    BY States DEF LeaseInvariant, TypeOK, Row
  <1>2. CASE Create
    <2>1. run'.state = "QUEUED" /\ run'.cancel = run.cancel /\ run.state = "ABSENT" /\ evidence' = evidence
      BY <1>1, <1>2 DEF Create, Row, diskVars
    <2> QED BY <2>1 DEF Outcome!OutcomeNext, Outcome!Submit
  <1>3. ASSUME NEW c \in Cancels, RequestCancel(c)
        PROVE  [Outcome!OutcomeNext]_(Outcome!outcomeVars)
    <2>1. evidence' = evidence
      BY <1>3 DEF RequestCancel, diskVars
    <2>2. CASE run.state = "QUEUED"
      <3>1. run' = Transition(run, "CANCELLED", "none")
        BY <1>3, <2>2 DEF RequestCancel, CancelTarget
      <3>2. run'.state = "CANCELLED" /\ (run'.cancel <=> run.cancel) /\ run' \in Row
        BY <1>1, <3>1, TransitionFields
      <3>3. run'.cancel = run.cancel
        BY <1>1, <3>2 DEF Row
      <3> QED BY <2>1, <2>2, <3>2, <3>3 DEF Outcome!OutcomeNext, Outcome!Withdraw
    <2>3. CASE run.state = "RUNNING"
      <3>1. run' = Transition(run, "CANCEL_REQUESTED", "none")
        BY <1>3, <2>3 DEF RequestCancel, CancelTarget
      <3>2. run'.state = "CANCEL_REQUESTED" /\ run'.cancel /\ run' \in Row
        BY <1>1, <3>1, TransitionFields
      <3>3. run'.cancel = TRUE
        BY <3>2 DEF Row
      <3> QED BY <2>1, <2>3, <3>2, <3>3 DEF Outcome!OutcomeNext, Outcome!Ask
    <2>4. CASE run.state \notin {"QUEUED", "RUNNING"}
      BY <1>3, <2>1, <2>4, Stutters DEF RequestCancel
    <2> QED BY <2>2, <2>3, <2>4
  <1> QED BY <1>2, <1>3

LEMMA ClaimImplements ==
  ASSUME LeaseInvariant, NEW p \in Hosts, Claim(p)
  PROVE  [Outcome!OutcomeNext]_(Outcome!outcomeVars)
  <1>1. run \in Row /\ run.cancel \in BOOLEAN /\ "none" \in Proof /\ "RUNNING" \in RunState
    BY States DEF LeaseInvariant, TypeOK, Row
  <1>2. /\ evidence' = evidence
        /\ run' = run \/ (run.state = "QUEUED" /\ run' = Transition(run, "RUNNING", "none"))
    <2>1. evidence' = evidence
      BY DEF Claim, diskVars
    <2>2. UNCHANGED run \/ ClaimRows(p)
      BY DEF Claim
    <2>3. ClaimRows(p) => run' = IF run.state = "QUEUED" THEN Transition(run, "RUNNING", "none") ELSE run
      BY DEF ClaimRows
    <2> QED BY <2>1, <2>2, <2>3
  <1>3. CASE run' = run
    BY <1>2, <1>3, Stutters
  <1>4. CASE run.state = "QUEUED" /\ run' = Transition(run, "RUNNING", "none")
    <2>1. run'.state = "RUNNING" /\ (run'.cancel <=> run.cancel) /\ run' \in Row
      BY <1>1, <1>4, TransitionFields
    <2>2. run'.cancel = run.cancel
      BY <1>1, <2>1 DEF Row
    <2> QED BY <1>2, <1>4, <2>1, <2>2 DEF Outcome!OutcomeNext, Outcome!Begin
  <1> QED BY <1>2, <1>3, <1>4

\* Evidence is published while the run is owned: a job has a claim, so the run
\* has attempts, and an ended run with attempts already has its evidence.
LEMMA PublishImplements ==
  ASSUME LeaseInvariant, NEW p \in Hosts, JobPublish(p)
  PROVE  [Outcome!OutcomeNext]_(Outcome!outcomeVars)
  <1>1. run' = run /\ (evidence' = evidence \/ (evidence = "none" /\ evidence' = journal))
    BY DEF JobPublish, dbVars
  <1>2. CASE evidence' = evidence
    BY <1>1, <1>2, Stutters
  <1>3. CASE evidence = "none" /\ evidence' = journal
    <2>1. ServiceSound(svc[p], p, run, attempts, journal, evidence) /\ svc[p].job = "publish"
      BY DEF LeaseInvariant, ServicesSound, JobPublish, JobAt
    <2>2. journal \in {"COMPLETED", "CANCELLED"} /\ svc[p].claim \in DOMAIN attempts
      BY <2>1, States DEF ServiceSound
    <2>3. run.started /\ run.state \in RunState
      BY <2>2 DEF LeaseInvariant, RowSound, TypeOK, Row
    <2>4. run.state \notin Ended
      BY <1>3, <2>3, States DEF LeaseInvariant, RowSound, ResultIsEvidence
    <2>5. run.state \in {"RUNNING", "CANCEL_REQUESTED"}
      BY <2>3, <2>4, States DEF LeaseInvariant, RowSound
    <2>6. journal = "CANCELLED" => run.cancel
      BY DEF LeaseInvariant, CancelHonoured, CancelIsRequested
    <2> QED BY <1>1, <1>3, <2>2, <2>5, <2>6 DEF Outcome!OutcomeNext, Outcome!Decide
  <1> QED BY <1>1, <1>2, <1>3

LEMMA FinalizeImplements ==
  ASSUME LeaseInvariant, NEW p \in Hosts, Finalize(p)
  PROVE  [Outcome!OutcomeNext]_(Outcome!outcomeVars)
  <1> DEFINE out == svc[p].out
  <1>1. /\ evidence' = evidence
        /\ run' = run \/ (run.state \in Owned /\ run' = Transition(run, out, out))
    BY DEF Finalize, EndRows, MayEnd, diskVars
  <1>2. ServiceSound(svc[p], p, run, attempts, journal, evidence) /\ svc[p].pc = "finalize"
    BY DEF LeaseInvariant, ServicesSound, Finalize
  <1>3. out \in Completion /\ evidence = out
    BY <1>2 DEF ServiceSound
  <1> HIDE DEF out
  <1>4. CASE run' = run
    BY <1>1, <1>4, Stutters
  <1>5. CASE run.state \in Owned /\ run' = Transition(run, out, out)
    <2>1. run \in Row /\ run.cancel \in BOOLEAN /\ out \in RunState /\ out \in Proof
          /\ out # "CANCEL_REQUESTED" /\ out # "none"
      BY <1>3, States DEF LeaseInvariant, TypeOK, Row
    <2>2. run'.state = out /\ (run'.cancel <=> run.cancel) /\ run' \in Row
      BY <1>5, <2>1, TransitionFields
    <2>3. run'.cancel = run.cancel
      BY <2>1, <2>2 DEF Row
    <2> QED BY <1>1, <1>3, <1>5, <2>1, <2>2, <2>3, States DEF Outcome!OutcomeNext, Outcome!End
  <1> QED BY <1>1, <1>4, <1>5

\* No other step touches what the abstract run shows.
LEMMA OthersStutter ==
  ASSUME NEW p \in Hosts,
         \/ LoseSession \/ LapseLate \/ LapseOrphan \/ UNCHANGED vars
         \/ Start(p) \/ Reboot(p) \/ Crash(p) \/ Stop(p) \/ Scan(p) \/ Observe(p) \/ Expire(p)
         \/ JobDone(p) \/ Cleanup(p) \/ TerminalCheck(p) \/ Release(p) \/ Tick(p) \/ JobFail(p)
         \/ JobLoad(p) \/ JobRestore(p) \/ JobDirectory(p) \/ JobOpen(p) \/ JobProduce(p)
  PROVE  UNCHANGED Outcome!outcomeVars
  <1>1. run' = run /\ evidence' = evidence
    BY DEF LoseSession, LapseLate, LapseOrphan, vars, Start, Reboot, Crash, Stop, Scan, Observe,
      Expire, JobDone, Cleanup, TerminalCheck, Release, Tick, JobFail, JobLoad, JobRestore,
      JobDirectory, JobOpen, JobProduce, dbVars, diskVars
  <1> QED BY <1>1, Stutters

\* Every step of the services, their sessions and their files is a step of the
\* abstract run or leaves it alone.
LEMMA OutcomeStep ==
  LeaseInvariant /\ [Next]_vars => [Outcome!OutcomeNext]_(Outcome!outcomeVars)
  <1> SUFFICES ASSUME LeaseInvariant, [Next]_vars
               PROVE  [Outcome!OutcomeNext]_(Outcome!outcomeVars)
    OBVIOUS
  <1>1. CASE LoseSession \/ LapseLate \/ LapseOrphan \/ UNCHANGED vars
    <2>1. run' = run /\ evidence' = evidence
      BY <1>1 DEF LoseSession, LapseLate, LapseOrphan, vars, dbVars, diskVars
    <2> QED BY <2>1, Stutters
  <1>2. CASE Create \/ \E c \in Cancels : RequestCancel(c)
    BY <1>2, RowsImplement
  <1>3. CASE \E p \in Hosts : Start(p) \/ Reboot(p) \/ Crash(p) \/ Stop(p)
    BY <1>3, OthersStutter
  <1>4. ASSUME NEW p \in Hosts, Service(p)
        PROVE  [Outcome!OutcomeNext]_(Outcome!outcomeVars)
    BY <1>4, OthersStutter, ClaimImplements, FinalizeImplements DEF Service
  <1>5. ASSUME NEW p \in Hosts, Tick(p) \/ Job(p) \/ JobFail(p)
        PROVE  [Outcome!OutcomeNext]_(Outcome!outcomeVars)
    BY <1>5, OthersStutter, PublishImplements DEF Job
  <1> QED BY <1>1, <1>2, <1>3, <1>4, <1>5 DEF Next, Environment

\* The services with their leases, their database session, their files and
\* every fault of them implement BacktestOutcome: the outcome is decided once,
\* cancelled only on request, and the run ends with it.
THEOREM LeaseImplementsOutcome == Spec => ImplementsOutcome
  <1>1. Init => Outcome!OutcomeInit
    BY DEF Init, Outcome!OutcomeInit
  <1> QED BY <1>1, OutcomeStep, LeaseCorrect, PTL DEF Spec, ImplementsOutcome, Outcome!OutcomeSpec
=============================================================================
