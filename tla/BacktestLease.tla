----------------------------- MODULE BacktestLease -----------------------------
(***************************************************************************)
(* One backtest run and the services that execute it:                      *)
(* packages/backend, persistence/backtest_run.rs (the run row, its         *)
(* attempts and their leases), persistence/authority_session.rs (the one   *)
(* database session that may write), workers/backtest_worker.rs (the       *)
(* service loop) and workers/backtest_service.rs (the job it spawns).      *)
(*                                                                         *)
(* A service takes a numbered attempt under a lease of 120 seconds, runs   *)
(* the job on a thread of its own while it renews the lease, publishes     *)
(* the evidence of the result in a put-once store and then ends the run    *)
(* in the database.  The session may break, a commit may have an unknown   *)
(* outcome, a process may stop at any step, and a job whose service lost   *)
(* its lease keeps running beside its replacement.                         *)
(*                                                                         *)
(* A transaction of Backtests holds the row lock and, in the process, the  *)
(* mutex of the session, so each is one step.  An attempt's number and its *)
(* fencing token are both its position in attempts.  Server time is only   *)
(* asked whether a lease has lapsed, which is the field live.  Row and     *)
(* proof digests are equalities here, and times of the row are the         *)
(* presence flags that validate_state tests.                               *)
(***************************************************************************)
EXTENDS Naturals, Sequences, FiniteSets

CONSTANTS
  Hosts,        \* the backend processes, one service in each
  NoHost,       \* no process holds the session or the journal
  Cancels,      \* identities of cancel commands
  MaxAttempts,  \* bound: attempts of the run
  MaxFaults     \* bound: crashes, lost sessions, unknown commits, failed jobs, stops

ASSUME LeaseAssumption ==
  /\ NoHost \notin Hosts
  /\ IsFiniteSet(Cancels)
  /\ MaxAttempts \in Nat \ {0}
  /\ MaxFaults \in Nat

VARIABLES
  run,        \* the row of backtest_run
  attempts,   \* the rows of backtest_run_attempt, by attempt number
  receipts,   \* the cancel commands with a stored receipt
  writer,     \* the process whose session holds the advisory lock
  journal,    \* the run's replay journal on disk
  jlock,      \* the process that has the journal open for writing
  evidence,   \* the published completion of the run
  bound,      \* the runtime generation is still bound to the run
  svc,        \* per process, the service and its job
  faults      \* faults so far

vars == <<run, attempts, receipts, writer, journal, jlock, evidence, bound, svc, faults>>

dbVars == <<run, attempts, receipts>>
diskVars == <<journal, jlock, evidence>>

-----------------------------------------------------------------------------
(* The run row *)

Pending == {"QUEUED", "RUNNING", "CANCEL_REQUESTED"}
Owned == {"RUNNING", "CANCEL_REQUESTED"}
Ended == {"COMPLETED", "FAILED", "CANCELLED"}
RunState == {"ABSENT"} \cup Pending \cup Ended
Completion == {"COMPLETED", "CANCELLED"}
Proof == Completion \cup {"none"}

\* The row after transition(current, target, completion).
Transition(row, target, proof) ==
  [state    |-> target,
   revision |-> row.revision + 1,
   started  |-> row.started \/ target = "RUNNING",
   cancel   |-> row.cancel \/ target = "CANCEL_REQUESTED",
   finished |-> target \in Ended,
   pin      |-> proof]

\* What validate_state asks of a row before any reader may use it.
ValidRow(row) ==
  /\ row.finished <=> row.state \in Ended
  /\ row.state = "CANCEL_REQUESTED" <=> row.cancel /\ ~row.finished
  /\ row.state \in Owned \cup {"COMPLETED", "FAILED"} => row.started
  /\ row.started =>
       row.state \in Owned \cup {"COMPLETED", "FAILED", "CANCELLED"}
  /\ row.state = "QUEUED" => row.revision = 0 /\ ~row.started /\ ~row.cancel
  /\ row.state = "COMPLETED" => row.pin # "none"
  /\ row.state = "CANCELLED" /\ row.pin # "none" => row.started
  /\ row.state \notin Ended => row.pin = "none"

Active(n) == n \in DOMAIN attempts /\ attempts[n].state = "ACTIVE"
NoneActive == \A n \in DOMAIN attempts : ~Active(n)
Holds(n) == Active(n) /\ attempts[n].live

-----------------------------------------------------------------------------
(* The service of a process *)

\* The fields of a service that is not running.
Stopped ==
  [pc |-> "down", wake |-> 0, stopping |-> FALSE, seen |-> "ABSENT",
   claim |-> 0, certain |-> FALSE, lost |-> FALSE, control |-> 0,
   job |-> "none", out |-> "none", held |-> FALSE]

Set(p, s) == svc' = [svc EXCEPT ![p] = s]

\* handoff is over: Wake::finish only undoes begin, so a stop stays.
Finished(s) ==
  [s EXCEPT !.pc = "idle", !.wake = IF s.wake = 1 THEN 0 ELSE s.wake,
            !.job = "none", !.out = "none", !.held = FALSE,
            !.claim = 0, !.certain = FALSE, !.lost = FALSE, !.stopping = FALSE]

\* An error ends serve; TaskExit closes admission and every hold is dropped.
Exited(s) ==
  [s EXCEPT !.pc = "exited", !.wake = 2, !.job = "none", !.out = "none",
            !.held = FALSE, !.claim = 0, !.certain = FALSE]

\* Control::request_pause and request_cancel.
Pause(c) == IF c = 0 THEN 1 ELSE c
CancelControl == 2

Fault == faults < MaxFaults /\ faults' = faults + 1

\* AuthoritySession::acquire: one session in the cluster gets the advisory lock.
Start(p) ==
  /\ svc[p].pc = "down"
  /\ writer = NoHost
  /\ writer' = p
  /\ Set(p, [Stopped EXCEPT !.pc = "idle"])
  /\ UNCHANGED <<dbVars, diskVars, bound, faults>>

\* The supervisor restarts a host whose service has ended.
Reboot(p) ==
  /\ svc[p].pc = "exited"
  /\ Set(p, Stopped)
  /\ writer' = IF writer = p THEN NoHost ELSE writer
  /\ UNCHANGED <<dbVars, diskVars, bound, faults>>

\* The process dies with its session, its job and its file locks.
Crash(p) ==
  /\ svc[p].pc # "down"
  /\ Fault
  /\ Set(p, Stopped)
  /\ writer' = IF writer = p THEN NoHost ELSE writer
  /\ jlock' = IF jlock = p THEN NoHost ELSE jlock
  /\ UNCHANGED <<dbVars, journal, evidence, bound>>

\* The connection breaks; the process and its job go on without the session.
LoseSession ==
  /\ writer # NoHost
  /\ Fault
  /\ writer' = NoHost
  /\ UNCHANGED <<dbVars, diskVars, bound, svc>>

\* Wake::stop, from drain or from the end of the host.
Stop(p) ==
  /\ svc[p].pc \notin {"down", "exited"}
  /\ svc[p].wake # 2
  /\ Fault
  /\ Set(p, [svc[p] EXCEPT !.wake = 2])
  /\ UNCHANGED <<dbVars, diskVars, writer, bound>>

\* Server time passes the lease of a renewed attempt: a delayed heartbeat.
LapseLate ==
  /\ \E n \in DOMAIN attempts :
       /\ Holds(n)
       /\ attempts' = [attempts EXCEPT ![n].live = FALSE]
  /\ Fault
  /\ UNCHANGED <<run, receipts, writer, diskVars, bound, svc>>

\* ... or of an attempt that nobody renews any more.
LapseOrphan ==
  /\ \E n \in DOMAIN attempts :
       /\ Holds(n)
       /\ \A p \in Hosts : svc[p].claim = n => svc[p].lost
       /\ attempts' = [attempts EXCEPT ![n].live = FALSE]
  /\ UNCHANGED <<run, receipts, writer, diskVars, bound, svc, faults>>

-----------------------------------------------------------------------------
(* Commands of the API, in the process that holds the session *)

\* A commit whose outcome is not known: finish drops the session.  This is the
\* commit that took effect; one that did not is a lost session before the call.
Unknown == Fault /\ writer' = NoHost

\* create_inner: a new row, or the stored receipt replayed.
Create ==
  /\ writer # NoHost
  /\ run.state = "ABSENT"
  /\ \/ UNCHANGED <<writer, faults>>
     \/ Unknown
  /\ run' = [run EXCEPT !.state = "QUEUED"]
  /\ UNCHANGED <<attempts, receipts, diskVars, bound, svc>>

CancelTarget(state) ==
  CASE state = "QUEUED" -> "CANCELLED"
    [] state = "RUNNING" -> "CANCEL_REQUESTED"

\* request_cancel: idempotent by its command; a queued run ends at once.
RequestCancel(c) ==
  /\ writer # NoHost
  /\ run.state # "ABSENT"
  /\ c \notin receipts
  /\ \/ UNCHANGED <<writer, faults>>
     \/ Unknown
  /\ receipts' = receipts \cup {c}
  /\ run' = IF run.state \in {"QUEUED", "RUNNING"}
              THEN Transition(run, CancelTarget(run.state), "none")
              ELSE run
  /\ UNCHANGED <<attempts, diskVars, bound, svc>>

-----------------------------------------------------------------------------
(* serve and run_one up to the claim *)

\* A scan: the pending run is handed to run_one unless the service is stopped.
Scan(p) ==
  /\ svc[p].pc = "idle"
  /\ \/ /\ svc[p].wake = 0
        /\ run.state \in Pending
        /\ Set(p, [svc[p] EXCEPT !.pc = "observe", !.wake = 1])
     \/ /\ svc[p].wake = 2
        /\ Set(p, Exited(svc[p]))
  /\ UNCHANGED <<dbVars, diskVars, writer, bound, faults>>

\* load and observe: where run_one goes from the state it reads.
Observe(p) ==
  /\ svc[p].pc = "observe"
  /\ Set(p, IF writer # p THEN Exited(svc[p])
            ELSE [svc[p] EXCEPT !.seen = run.state,
                    !.pc = IF run.state \in Ended THEN "terminal"
                           ELSE IF run.state \in Owned THEN "expire" ELSE "claim"])
  /\ UNCHANGED <<dbVars, diskVars, writer, bound, faults>>

\* The attempt expire would end: the active one, with a lapsed lease.
Overdue(n) == run.state \in Owned /\ Active(n) /\ ~attempts[n].live

\* Mutant: only an attempt whose lease has not lapsed is looked for.
ExpireRow_FindsNone == UNCHANGED attempts

ExpireRow ==
  IF \E n \in DOMAIN attempts : Overdue(n)
    THEN LET n == CHOOSE i \in DOMAIN attempts : Overdue(i)
         IN attempts' = [attempts EXCEPT ![n].state = "EXPIRED"]
    ELSE UNCHANGED attempts

\* expire: it ends the attempt, never the run.
Expire(p) ==
  /\ svc[p].pc = "expire"
  /\ \/ /\ writer = p
        /\ ExpireRow
        /\ Set(p, [svc[p] EXCEPT !.pc = "claim",
                     !.seen = IF attempts' # attempts THEN run.state ELSE svc[p].seen])
        /\ UNCHANGED <<writer, faults>>
     \/ /\ writer = p
        /\ Unknown
        /\ ExpireRow
        /\ Set(p, Exited(svc[p]))
     \/ /\ writer # p
        /\ Set(p, Exited(svc[p]))
        /\ UNCHANGED <<attempts, writer, faults>>
  /\ UNCHANGED <<run, receipts, diskVars, bound>>

\* Mutant: the active attempts are not counted.
Claimable_IgnoresActive == run.state \in Pending

Claimable == run.state \in Pending /\ NoneActive

\* Mutant: every claim sets the run to RUNNING.
ClaimRows_Restarts(p) ==
  /\ Claimable
  /\ Len(attempts) < MaxAttempts
  /\ run' = IF run.state = "RUNNING" THEN run ELSE Transition(run, "RUNNING", "none")
  /\ attempts' = Append(attempts, [state |-> "ACTIVE", worker |-> p, live |-> TRUE])

ClaimRows(p) ==
  /\ Claimable
  /\ Len(attempts) < MaxAttempts
  /\ run' = IF run.state = "QUEUED" THEN Transition(run, "RUNNING", "none") ELSE run
  /\ attempts' = Append(attempts, [state |-> "ACTIVE", worker |-> p, live |-> TRUE])

\* The service that got attempt n starts its job with what it has seen so far.
Claimed(s, n) ==
  LET first == IF s.seen = "CANCEL_REQUESTED" THEN CancelControl ELSE 0
  IN [s EXCEPT !.pc = "run", !.claim = n, !.certain = TRUE, !.lost = FALSE,
               !.control = IF s.wake = 2 THEN Pause(first) ELSE first,
               !.stopping = s.wake = 2, !.job = "load", !.out = "none"]

\* claim: nothing to take, the next attempt, or an attempt that nobody owns.
Claim(p) ==
  /\ svc[p].pc = "claim"
  /\ \/ /\ writer = p
        /\ ~Claimable
        /\ Set(p, Finished(svc[p]))
        /\ UNCHANGED <<run, attempts, writer, faults>>
     \/ /\ writer = p
        /\ ClaimRows(p)
        /\ Set(p, Claimed(svc[p], Len(attempts) + 1))
        /\ UNCHANGED <<writer, faults>>
     \/ /\ writer = p
        /\ Unknown
        /\ ClaimRows(p)
        /\ Set(p, Exited(svc[p]))
     \/ /\ writer # p
        /\ Set(p, Exited(svc[p]))
        /\ UNCHANGED <<run, attempts, writer, faults>>
  /\ UNCHANGED <<receipts, diskVars, bound>>

-----------------------------------------------------------------------------
(* The select loop of run_one beside its job *)

\* What one turn of the loop leaves in the service, by the heartbeat's result.
Renewed(s) ==
  LET c == IF s.wake = 2 THEN Pause(s.control) ELSE s.control
  IN [s EXCEPT !.stopping = s.stopping \/ s.wake = 2, !.certain = TRUE,
               !.control = IF run.state = "CANCEL_REQUESTED" THEN CancelControl ELSE c]

\* Mutant: a service that lost its lease cancels its job.
LostLease_Cancels(s) ==
  [s EXCEPT !.stopping = s.stopping \/ s.wake = 2, !.certain = FALSE,
            !.lost = TRUE, !.control = CancelControl]

LostLease(s) ==
  [s EXCEPT !.stopping = s.stopping \/ s.wake = 2, !.certain = FALSE,
            !.lost = TRUE, !.control = Pause(s.control)]

\* A turn of the loop: the stop flag, then heartbeat while nothing is uncertain.
Tick(p) ==
  /\ svc[p].pc = "run"
  /\ ~svc[p].lost
  /\ \/ /\ writer = p
        /\ run.state \in Owned
        /\ Holds(svc[p].claim)
        /\ Set(p, Renewed(svc[p]))
        /\ UNCHANGED <<writer, faults>>
     \/ /\ writer = p
        /\ ~(run.state \in Owned /\ Holds(svc[p].claim))
        /\ Set(p, LostLease(svc[p]))
        /\ UNCHANGED <<writer, faults>>
     \/ /\ writer = p
        /\ Unknown
        /\ Set(p, LostLease(svc[p]))
     \/ /\ writer # p
        /\ Set(p, LostLease(svc[p]))
        /\ UNCHANGED <<writer, faults>>
  /\ UNCHANGED <<dbVars, diskVars, bound>>

\* The job has ended: pause, error, or a proof to finalize with.
JobDone(p) ==
  /\ svc[p].pc = "run"
  /\ svc[p].job = "done"
  /\ Set(p, IF svc[p].out = "failed" \/ svc[p].lost THEN Exited(svc[p])
            ELSE IF svc[p].out = "paused"
              THEN IF svc[p].stopping THEN Finished(svc[p]) ELSE Exited(svc[p])
            ELSE [svc[p] EXCEPT !.pc = "finalize"])
  /\ UNCHANGED <<dbVars, diskVars, writer, bound, faults>>

-----------------------------------------------------------------------------
(* The job: load_completion, Work::restore, produce and Store::commit *)

JobAt(p, phase) == svc[p].pc = "run" /\ svc[p].job = phase

Fail(s) == [s EXCEPT !.job = "done", !.out = "failed"]
Leave(p) == jlock' = IF jlock = p THEN NoHost ELSE jlock

\* Evidence an earlier attempt published ends the job at once; a reader of the
\* journal is refused while a writer has it open.
JobLoad(p) ==
  /\ JobAt(p, "load")
  /\ Set(p, IF evidence = "none"
              THEN [svc[p] EXCEPT !.job = "restore", !.held = TRUE]
            ELSE IF jlock # NoHost THEN Fail(svc[p])
            ELSE [svc[p] EXCEPT !.job = "done", !.out = evidence, !.held = TRUE])
  /\ UNCHANGED <<dbVars, diskVars, writer, bound, faults>>

\* Work::restore needs the runtime generation bound to the run.
JobRestore(p) ==
  /\ JobAt(p, "restore")
  /\ Set(p, IF bound THEN [svc[p] EXCEPT !.job = "directory"] ELSE Fail(svc[p]))
  /\ UNCHANGED <<dbVars, diskVars, writer, bound, faults>>

\* runtime_directory: attempt 1 makes it, every other attempt finds it.
JobDirectory(p) ==
  /\ JobAt(p, "directory")
  /\ \/ /\ svc[p].claim = 1
        /\ journal = "none"
        /\ journal' = "dir"
        /\ Set(p, [svc[p] EXCEPT !.job = "open"])
     \/ /\ svc[p].claim > 1
        /\ journal # "none"
        /\ Set(p, [svc[p] EXCEPT !.job = "open"])
        /\ UNCHANGED journal
     \/ /\ svc[p].claim = 1 <=> journal # "none"
        /\ Set(p, Fail(svc[p]))
        /\ UNCHANGED journal
  /\ UNCHANGED <<dbVars, jlock, evidence, writer, bound, faults>>

\* RunLoop::create or open, under the lock on the journal file.
JobOpen(p) ==
  /\ JobAt(p, "open")
  /\ \/ /\ jlock = NoHost
        /\ svc[p].claim = 1 <=> journal = "dir"
        /\ jlock' = p
        /\ journal' = IF journal = "dir" THEN "running" ELSE journal
        /\ Set(p, [svc[p] EXCEPT !.job = "produce"])
     \/ /\ jlock # NoHost \/ (svc[p].claim = 1 <=> journal # "dir")
        /\ Set(p, Fail(svc[p]))
        /\ UNCHANGED <<journal, jlock>>
  /\ UNCHANGED <<dbVars, evidence, writer, bound, faults>>

\* Mutant: a journal that has ended is cancelled again.
ProduceStep_EndsTwice(s) ==
  \/ /\ journal \in {"running", "COMPLETED"}
     /\ s.control = 2
     /\ journal' = "input_cancelled"
  \/ /\ journal = "running"
     /\ s.control = 0
     /\ journal' = "input_finished"
  \/ /\ journal = "input_cancelled"
     /\ journal' = "CANCELLED"
  \/ /\ journal = "input_finished"
     /\ journal' \in {"COMPLETED", "INCOMPLETE"}

\* The steps of produce: by what the journal says, then by the control.
ProduceStep(s) ==
  \/ /\ journal = "running"
     /\ s.control = 2
     /\ journal' = "input_cancelled"
  \/ /\ journal = "running"
     /\ s.control = 0
     /\ journal' = "input_finished"
  \/ /\ journal = "input_cancelled"
     /\ journal' = "CANCELLED"
  \/ /\ journal = "input_finished"
     /\ journal' \in {"COMPLETED", "INCOMPLETE"}

JobProduce(p) ==
  /\ JobAt(p, "produce")
  /\ \/ ProduceStep(svc[p]) /\ UNCHANGED <<jlock, svc>>
     \/ /\ journal = "running"
        /\ svc[p].control = 1
        /\ Set(p, [svc[p] EXCEPT !.job = "done", !.out = "paused"])
        /\ Leave(p)
        /\ UNCHANGED journal
     \/ /\ journal \in Completion
        /\ Set(p, [svc[p] EXCEPT !.job = "publish"])
        /\ Leave(p)
        /\ UNCHANGED journal
     \/ /\ journal = "INCOMPLETE"
        /\ Set(p, Fail(svc[p]))
        /\ Leave(p)
        /\ UNCHANGED journal
  /\ UNCHANGED <<dbVars, evidence, writer, bound, faults>>

\* Store::commit: put once, or compare with what is there.
JobPublish(p) ==
  /\ JobAt(p, "publish")
  /\ IF jlock # NoHost \/ evidence \notin {"none", journal}
       THEN Set(p, Fail(svc[p])) /\ UNCHANGED evidence
       ELSE /\ evidence' = journal
            /\ Set(p, [svc[p] EXCEPT !.job = "done", !.out = journal])
  /\ UNCHANGED <<dbVars, journal, jlock, writer, bound, faults>>

\* A child process, a file or a reader fails; drain_native joins the children.
JobFail(p) ==
  /\ svc[p].pc = "run"
  /\ svc[p].job \notin {"none", "done"}
  /\ Fault
  /\ Set(p, Fail(svc[p]))
  /\ Leave(p)
  /\ UNCHANGED <<dbVars, journal, evidence, writer, bound>>

-----------------------------------------------------------------------------
(* finalize and terminal *)

AttemptEnd(target) == IF target = "COMPLETED" THEN "SUCCEEDED" ELSE "CANCELLED"

MayEnd(n, target) ==
  /\ run.state \in Owned
  /\ target = "CANCELLED" => run.state = "CANCEL_REQUESTED"
  /\ Holds(n)

EndRows(n, target) ==
  /\ MayEnd(n, target)
  /\ attempts' = [attempts EXCEPT ![n].state = AttemptEnd(target)]
  /\ run' = Transition(run, target, target)

\* finalize: the fence, the lease and the proof, in the transaction that ends the run.
Finalize(p) ==
  /\ svc[p].pc = "finalize"
  /\ \/ /\ writer = p
        /\ svc[p].certain
        /\ EndRows(svc[p].claim, svc[p].out)
        /\ Set(p, [svc[p] EXCEPT !.pc = "terminal", !.certain = FALSE, !.held = FALSE])
        /\ UNCHANGED <<writer, faults>>
     \/ /\ writer = p
        /\ svc[p].certain
        /\ Unknown
        /\ EndRows(svc[p].claim, svc[p].out)
        /\ Set(p, Exited(svc[p]))
     \/ /\ writer = p
        /\ ~(svc[p].certain /\ MayEnd(svc[p].claim, svc[p].out))
        /\ Set(p, Exited(svc[p]))
        /\ UNCHANGED <<run, attempts, writer, faults>>
     \/ /\ writer # p
        /\ Set(p, Exited(svc[p]))
        /\ UNCHANGED <<run, attempts, writer, faults>>
  /\ UNCHANGED <<receipts, diskVars, bound>>

\* cleanup_terminal: an ended run whose binding was never released.
Cleanup(p) ==
  /\ svc[p].pc = "idle"
  /\ svc[p].wake = 0
  /\ run.state \in Ended
  /\ bound
  /\ Set(p, [svc[p] EXCEPT !.pc = "terminal", !.wake = 1])
  /\ UNCHANGED <<dbVars, diskVars, writer, bound, faults>>

\* The proof terminal() wants to see again before it releases anything.
ProofSeen ==
  /\ run.state \in Ended
  /\ IF run.state = "COMPLETED" \/ (run.state = "CANCELLED" /\ run.started)
       THEN evidence = run.state /\ jlock = NoHost
       ELSE run.state = "CANCELLED" /\ run.pin = "none"

TerminalCheck(p) ==
  /\ svc[p].pc = "terminal"
  /\ Set(p, IF writer = p /\ ProofSeen THEN [svc[p] EXCEPT !.pc = "release"]
            ELSE Exited(svc[p]))
  /\ UNCHANGED <<dbVars, diskVars, writer, bound, faults>>

\* Mutant: the registry is not locked against the holds of other services.
Release_IgnoresHolds(p) ==
  /\ svc[p].pc = "release"
  /\ bound' = FALSE
  /\ Set(p, Finished(svc[p]))
  /\ UNCHANGED <<dbVars, diskVars, writer, faults>>

\* release_work_exact waits for the exclusive lock on the runtime registry.
Release(p) ==
  /\ svc[p].pc = "release"
  /\ \A q \in Hosts : ~svc[q].held
  /\ bound' = FALSE
  /\ Set(p, Finished(svc[p]))
  /\ UNCHANGED <<dbVars, diskVars, writer, faults>>

-----------------------------------------------------------------------------
Init ==
  /\ run = [state |-> "ABSENT", revision |-> 0, started |-> FALSE,
            cancel |-> FALSE, finished |-> FALSE, pin |-> "none"]
  /\ attempts = <<>>
  /\ receipts = {}
  /\ writer = NoHost
  /\ journal = "none"
  /\ jlock = NoHost
  /\ evidence = "none"
  /\ bound = TRUE
  /\ svc = [p \in Hosts |-> Stopped]
  /\ faults = 0

Job(p) ==
  \/ JobLoad(p) \/ JobRestore(p) \/ JobDirectory(p)
  \/ JobOpen(p) \/ JobProduce(p) \/ JobPublish(p)

Service(p) ==
  \/ Scan(p) \/ Observe(p) \/ Expire(p) \/ Claim(p) \/ JobDone(p)
  \/ Finalize(p) \/ Cleanup(p) \/ TerminalCheck(p) \/ Release(p)

Environment ==
  \/ Create
  \/ \E c \in Cancels : RequestCancel(c)
  \/ LoseSession
  \/ LapseLate
  \/ LapseOrphan
  \/ \E p \in Hosts : Start(p) \/ Reboot(p) \/ Crash(p) \/ Stop(p)

Next ==
  \/ Environment
  \/ \E p \in Hosts : Service(p) \/ Tick(p) \/ Job(p) \/ JobFail(p)

Spec == Init /\ [][Next]_vars

\* Fairness: the runtime polls the service task and its timers and the job's
\* thread runs; a supervisor restarts an ended host; server time passes a lease
\* that nobody renews.  No command, stop, fault or late heartbeat is assumed.
Fairness ==
  /\ \A p \in Hosts :
       /\ WF_vars(Service(p))
       /\ WF_vars(Job(p))
       /\ WF_vars(Tick(p))
       /\ WF_vars(Start(p))
       /\ WF_vars(Reboot(p))
  /\ WF_vars(LapseOrphan)

FairSpec == Spec /\ Fairness

-----------------------------------------------------------------------------
(* Properties *)

ServicePc ==
  {"down", "idle", "observe", "expire", "claim", "run", "finalize", "terminal",
   "release", "exited"}
JobPhase ==
  {"none", "load", "restore", "directory", "open", "produce", "publish", "done"}
JobResult == {"none", "paused", "failed"} \cup Completion
Level == {0, 1, 2}

Service1 ==
  [pc : ServicePc, wake : Level, stopping : BOOLEAN, seen : RunState, claim : Nat,
   certain : BOOLEAN, lost : BOOLEAN, control : Level, job : JobPhase,
   out : JobResult, held : BOOLEAN]

Row ==
  [state : RunState, revision : Nat, started : BOOLEAN, cancel : BOOLEAN,
   finished : BOOLEAN, pin : Proof]

AttemptState == {"ACTIVE", "SUCCEEDED", "CANCELLED", "EXPIRED"}

Attempt == [state : AttemptState, worker : Hosts, live : BOOLEAN]

JournalState ==
  {"none", "dir", "running", "input_cancelled", "input_finished", "INCOMPLETE"}
    \cup Completion

\* The types of the rows, the files and the services.
TypeOK ==
  /\ run \in Row
  /\ attempts \in Seq(Attempt)
  /\ receipts \subseteq Cancels
  /\ writer \in Hosts \cup {NoHost}
  /\ journal \in JournalState
  /\ jlock \in Hosts \cup {NoHost}
  /\ evidence \in Proof
  /\ bound \in BOOLEAN
  /\ svc \in [Hosts -> Service1]
  /\ faults \in 0..MaxFaults

\* Only the newest attempt can be active or have ended the run, every older one
\* expired, and the run ended if and only if that attempt did: no result is
\* recorded by an attempt that was fenced off.
EndedByNewestAttempt ==
  /\ \A n \in DOMAIN attempts : n < Len(attempts) => attempts[n].state = "EXPIRED"
  /\ run.state \in Ended /\ run.started =>
       /\ attempts # <<>>
       /\ attempts[Len(attempts)].state = AttemptEnd(run.state)
  /\ run.state \notin Ended /\ attempts # <<>> =>
       attempts[Len(attempts)].state \in {"ACTIVE", "EXPIRED"}

\* Two services never both have the lease: one that may still write under its
\* claim owns the newest attempt, and the row names it.
LeaseHasOneOwner ==
  \A p \in Hosts :
    svc[p].pc \in {"run", "finalize"} /\ Active(svc[p].claim) =>
      /\ attempts[svc[p].claim].worker = p
      /\ \A q \in Hosts \ {p} : svc[q].claim # svc[p].claim

\* Fencing: both of the above.
Fenced == EndedByNewestAttempt /\ LeaseHasOneOwner

\* The result pinned in the row is the published evidence, and that is what the
\* journal on disk ended with: whichever of several jobs wrote which of them.
ResultIsEvidence ==
  /\ evidence # "none" => evidence = journal
  /\ run.pin # "none" => run.pin = evidence /\ run.state = run.pin

\* Input is only cancelled, and CANCELLED evidence only published, for a run
\* whose cancellation is recorded: finalize never refuses such evidence.
CancelIsRequested ==
  journal \in {"input_cancelled", "CANCELLED"} => run.cancel

\* A cancel command with a receipt is never undone or forgotten by the claims,
\* the expiries and the completions that race it.
CancelKept == receipts # {} => run.state \in {"CANCEL_REQUESTED"} \cup Ended

\* A cancellation is neither invented nor lost.
CancelHonoured == CancelIsRequested /\ CancelKept

\* The runtime generation stays bound while any job may use it, also the job of
\* a service that lost its lease, and until the end of the run is proved.
BindingOutlivesJobs ==
  ~bound =>
    /\ run.state \in Ended
    /\ run.started => evidence = run.state
    /\ \A p \in Hosts : svc[p].job \notin {"directory", "open", "produce", "publish"}

Outcome == INSTANCE BacktestOutcome WITH
  status <- run.state, asked <- run.cancel, outcome <- evidence

\* The services, their leases and their files implement BacktestOutcome: the
\* published evidence decides the outcome once and the row ends with it.
ImplementsOutcome == Outcome!OutcomeSpec

\* The states in which no attempt can end the run: the journal was never made,
\* or it ended without a result that may be published.
Trapped ==
  \/ Len(attempts) > 1 /\ journal \in {"none", "dir"}
  \/ journal = "INCOMPLETE"

\* A queued run ends, whatever its services survive, unless it is trapped (or
\* the bound on attempts is used up), and the binding of an ended run is
\* released in the end.
RunEnds ==
  /\ run.state = "QUEUED" ~>
       (run.state \in Ended \/ Trapped \/ Len(attempts) = MaxAttempts)
  /\ run.state \in Ended ~> ~bound
=============================================================================
