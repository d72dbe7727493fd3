----------------------------- MODULE RunManager -----------------------------
(***************************************************************************)
(* The manager of agent runs on a Client (internal/agentops/run_manager.go *)
(* with its event journal, run_events.go, and its SQLite store,            *)
(* run_store.go) and the agent_cancel tool that drives it.                 *)
(*                                                                         *)
(* One goroutine executes each accepted run: it waits for one of           *)
(* MaxConcurrent permits, moves the run to running, calls the executor and *)
(* lands on a terminal status.  Every transition happens under the         *)
(* manager's lock and makes two separate durable writes, the event first   *)
(* and the row after it, so a crash can fall between them.  The next       *)
(* process repairs the rows that the previous one left queued or running.  *)
(*                                                                         *)
(* Left out: the contents of a run (task, output, timestamps), the bounded *)
(* ring of progress lines, the ordering of List and the live subscribers.  *)
(***************************************************************************)
EXTENDS Integers, Sequences, FiniteSets

CONSTANTS Runs,          \* identifiers that newRunID may draw
          NoRun,         \* "nobody": the value of mu when the lock is free
          MaxConcurrent, \* capacity of the permit channel sem
          Timed,         \* the runs whose spec has timeout_seconds > 0
          MaxLines,      \* bound: events of one run while it executes
          MaxCrashes,    \* bound: process deaths
          MaxFaults      \* bound: store operations that return an error

ASSUME NoRunAssumption == NoRun \notin Runs
ASSUME RunsAssumption == IsFiniteSet(Runs)
ASSUME ConcurrencyAssumption == MaxConcurrent \in Nat \ {0}
ASSUME TimedAssumption == Timed \subseteq Runs
ASSUME BoundsAssumption == MaxLines \in Nat /\ MaxCrashes \in Nat /\ MaxFaults \in Nat

VARIABLES
  proc,      \* the Client process: up, shutting down, gone, or reopening the store
  storeOpen, \* FALSE when openRunStore failed: the manager runs without persistence
  mu,        \* the run on whose behalf RunManager.mu is held across two store writes
  sem,       \* permits taken from the channel sem
  status,    \* in memory: runState.status, "none" for a run not in the map
  pc,        \* where the goroutine of the run stands in RunManager.run
  lifeDone,  \* lifeCtx is cancelled
  expired,   \* the deadline of execCtx passed before lifeCtx was cancelled
  verdict,   \* the status finishOutcome passes to finish
  seq,       \* runState.eventSeq
  cancelReq, \* a call of agent_cancel for the run
  row,       \* durable: agent_runs.status, "none" when there is no row
  journal,   \* durable: the kinds in agent_run_events, by sequence number
  marked,    \* rows whose interruption is already journalled by this recovery
  crashes, faults

mem == <<status, pc, lifeDone, expired, verdict, seq, cancelReq>>
disk == <<row, journal>>
vars == <<proc, storeOpen, mu, sem, mem, disk, marked, crashes, faults>>

-----------------------------------------------------------------------------
(* Statuses and the state machine of one run.                              *)

TerminalStatuses == {"completed", "failed", "cancelled", "timeout", "interrupted"}
LiveStatuses == {"queued", "running"}
Statuses == LiveStatuses \cup TerminalStatuses

\* runTransitions, as a relation.
canTransition(from, to) ==
  \/ from = "queued" /\ to \in {"running", "cancelled"}
  \/ from = "running" /\ to \in TerminalStatuses

\* What an executor hands back: a harness status, or an error (a panic
\* becomes one in execute).
Reports == {"", "completed", "failed", "timeout", "cancelled", "unknown", "error"}

statusFromResult(report) ==
  IF report = "" THEN "completed"
  ELSE IF report \in {"completed", "failed", "timeout", "cancelled"} THEN report
  ELSE "failed"

\* finishOutcome: a context that is done wins over what the executor reported.
\* The first cause of a context's end is the one Err() keeps.
finishOutcome(r, report) ==
  IF expired[r] THEN "timeout"
  ELSE IF lifeDone[r] THEN "cancelled"
  ELSE statusFromResult(report)

\* finish lands an illegal arrival on cancelled.
Landing(from, to) == IF canTransition(from, to) THEN to ELSE "cancelled"

\* loadedRunState: a row of a dead process is never reported as live.
LoadedStatus(s) == IF s \in LiveStatuses THEN "interrupted" ELSE s

Up == proc \in {"open", "closing"}

\* Slip: the WHERE clause of the recovery forgets queued rows.
Stale_RunningOnly(r) == row[r] = "running"

Stale(r) == row[r] \in LiveStatuses

-----------------------------------------------------------------------------
(* The two durable writes.                                                 *)

\* A sequence number whose append failed stays missing from the table.
Padded(j, n) == [i \in 1..n |-> IF i <= Len(j) THEN j[i] ELSE "missing"]

\* The store call of this step succeeds, or returns an error that the
\* manager only logs.
StoreOutcome(ok) ==
  IF ok THEN UNCHANGED faults
  ELSE storeOpen /\ faults < MaxFaults /\ faults' = faults + 1

\* appendRuntimeEventLocked: the number advances whether or not the write
\* succeeds.
AppendEvent(r, kind, ok) ==
  /\ StoreOutcome(ok)
  /\ seq' = [seq EXCEPT ![r] = @ + 1]
  /\ journal' = IF ok /\ storeOpen
                THEN [journal EXCEPT ![r] = Append(Padded(@, seq[r]), kind)]
                ELSE journal

-----------------------------------------------------------------------------
(* The lock is held from the event append to the row upsert.               *)

\* Where the goroutine goes once the lock is released.
AfterPersist(p) ==
  CASE p = "none"      -> "waiting"
    [] p = "admitted"  -> "executing"
    [] p = "finishing" -> "releasing"
    [] OTHER           -> "gone"

\* transitionLocked up to the journal append; the caller takes the lock.
Transition(r, to, ok) ==
  /\ mu = NoRun
  /\ mu' = r
  /\ status' = [status EXCEPT ![r] = to]
  /\ AppendEvent(r, to, ok)

\* Slip: only final snapshots are written through.
Persist_FinalOnly(r, ok) ==
  /\ mu = r
  /\ StoreOutcome(ok)
  /\ row' = IF ok /\ storeOpen /\ status[r] \in TerminalStatuses
            THEN [row EXCEPT ![r] = status[r]] ELSE row
  /\ mu' = NoRun
  /\ pc' = [pc EXCEPT ![r] = AfterPersist(@)]
  /\ lifeDone' = [lifeDone EXCEPT ![r] = @ \/ status[r] \in TerminalStatuses]
  /\ UNCHANGED <<proc, storeOpen, sem, status, expired, verdict, seq, cancelReq,
                 journal, marked, crashes>>

\* persistLocked, then Unlock.
Persist(r, ok) ==
  /\ mu = r
  /\ StoreOutcome(ok)
  /\ row' = IF ok /\ storeOpen THEN [row EXCEPT ![r] = status[r]] ELSE row
  /\ mu' = NoRun
  /\ pc' = [pc EXCEPT ![r] = AfterPersist(@)]
  /\ lifeDone' = [lifeDone EXCEPT ![r] = @ \/ status[r] \in TerminalStatuses]
  /\ UNCHANGED <<proc, storeOpen, sem, status, expired, verdict, seq, cancelReq,
                 journal, marked, crashes>>

-----------------------------------------------------------------------------
(* RunManager.Start and RunManager.run.                                    *)

Start(r, ok) ==
  /\ proc = "open"
  /\ status[r] = "none" /\ row[r] = "none" /\ journal[r] = <<>>
  /\ Transition(r, "queued", ok)
  /\ UNCHANGED <<proc, storeOpen, sem, pc, lifeDone, expired, verdict, cancelReq,
                 row, marked, crashes>>

\* The select of run: a permit, or the cancellation of the queued run.
Acquire(r) ==
  /\ pc[r] = "waiting"
  /\ sem < MaxConcurrent
  /\ sem' = sem + 1
  /\ pc' = [pc EXCEPT ![r] = "admitted"]
  /\ UNCHANGED <<proc, storeOpen, mu, status, lifeDone, expired, verdict, seq,
                 cancelReq, disk, marked, crashes, faults>>

LeaveQueue(r) ==
  /\ pc[r] = "waiting"
  /\ lifeDone[r]
  /\ verdict' = [verdict EXCEPT ![r] = "cancelled"]
  /\ pc' = [pc EXCEPT ![r] = "quitting"]
  /\ UNCHANGED <<proc, storeOpen, mu, sem, status, lifeDone, expired, seq,
                 cancelReq, disk, marked, crashes, faults>>

\* Slip: the early return comes before the deferred release.
CheckLife_LeaksPermit(r) ==
  /\ pc[r] = "admitted" /\ mu # r
  /\ lifeDone[r]
  /\ verdict' = [verdict EXCEPT ![r] = "cancelled"]
  /\ pc' = [pc EXCEPT ![r] = "quitting"]
  /\ UNCHANGED <<proc, storeOpen, mu, sem, status, lifeDone, expired, seq,
                 cancelReq, disk, marked, crashes, faults>>

\* lifeCtx.Err() is read again once the permit is held, before the lock.
CheckLife(r) ==
  /\ pc[r] = "admitted" /\ mu # r
  /\ lifeDone[r]
  /\ verdict' = [verdict EXCEPT ![r] = "cancelled"]
  /\ pc' = [pc EXCEPT ![r] = "finishing"]
  /\ UNCHANGED <<proc, storeOpen, mu, sem, status, lifeDone, expired, seq,
                 cancelReq, disk, marked, crashes, faults>>

\* The check above may have been passed before lifeCtx was cancelled, so
\* lifeDone is not read here.
BeginRun(r, ok) ==
  /\ pc[r] = "admitted"
  /\ canTransition(status[r], "running")
  /\ Transition(r, "running", ok)
  /\ UNCHANGED <<proc, storeOpen, sem, pc, lifeDone, expired, verdict, cancelReq,
                 row, marked, crashes>>

\* recordEvent, called by the executor for each line of the harness.
RecordEvent(r, ok) ==
  /\ pc[r] = "executing"
  /\ mu = NoRun
  /\ status[r] \notin TerminalStatuses
  /\ seq[r] < MaxLines + 2
  /\ AppendEvent(r, "harness", ok)
  /\ UNCHANGED <<proc, storeOpen, mu, sem, status, pc, lifeDone, expired, verdict,
                 cancelReq, row, marked, crashes>>

Deadline(r) ==
  /\ r \in Timed
  /\ pc[r] = "executing"
  /\ ~lifeDone[r] /\ ~expired[r]
  /\ expired' = [expired EXCEPT ![r] = TRUE]
  /\ UNCHANGED <<proc, storeOpen, mu, sem, status, pc, lifeDone, verdict, seq,
                 cancelReq, disk, marked, crashes, faults>>

\* execute returns and finishOutcome reads execCtx.Err(), without the lock.
Return(r, report) ==
  /\ pc[r] = "executing"
  /\ verdict' = [verdict EXCEPT ![r] = finishOutcome(r, report)]
  /\ pc' = [pc EXCEPT ![r] = "finishing"]
  /\ UNCHANGED <<proc, storeOpen, mu, sem, status, lifeDone, expired, seq,
                 cancelReq, disk, marked, crashes, faults>>

\* Slip: no transition once the manager is closed.
Finish_RefusedWhenClosed(r, ok) ==
  /\ proc = "open"
  /\ pc[r] \in {"finishing", "quitting"}
  /\ status[r] \notin TerminalStatuses
  /\ Transition(r, Landing(status[r], verdict[r]), ok)
  /\ UNCHANGED <<proc, storeOpen, sem, pc, lifeDone, expired, verdict, cancelReq,
                 row, marked, crashes>>

\* finish; lifeStop at its end is part of Persist, which releases the lock.
Finish(r, ok) ==
  /\ pc[r] \in {"finishing", "quitting"}
  /\ status[r] \notin TerminalStatuses
  /\ Transition(r, Landing(status[r], verdict[r]), ok)
  /\ UNCHANGED <<proc, storeOpen, sem, pc, lifeDone, expired, verdict, cancelReq,
                 row, marked, crashes>>

\* The deferred receive from sem.
Release(r) ==
  /\ pc[r] = "releasing"
  /\ sem' = sem - 1
  /\ pc' = [pc EXCEPT ![r] = "gone"]
  /\ UNCHANGED <<proc, storeOpen, mu, status, lifeDone, expired, verdict, seq,
                 cancelReq, disk, marked, crashes, faults>>

-----------------------------------------------------------------------------
(* agent_cancel: look the run up, cancel its context, wait for the run to  *)
(* settle but no longer than cancelSettleTimeout.                          *)

Cancel(r) ==
  /\ Up /\ mu = NoRun
  /\ status[r] \in LiveStatuses
  /\ cancelReq[r] = "idle"
  /\ lifeDone' = [lifeDone EXCEPT ![r] = TRUE]
  /\ cancelReq' = [cancelReq EXCEPT ![r] = "waiting"]
  /\ UNCHANGED <<proc, storeOpen, mu, sem, status, pc, expired, verdict, seq,
                 disk, marked, crashes, faults>>

\* Wait returned the final snapshot: the reply carries the run's own status.
CancelAnswer(r) ==
  /\ cancelReq[r] = "waiting"
  /\ mu = NoRun
  /\ status[r] \in TerminalStatuses
  /\ cancelReq' = [cancelReq EXCEPT ![r] = "answered"]
  /\ UNCHANGED <<proc, storeOpen, mu, sem, status, pc, lifeDone, expired, verdict,
                 seq, disk, marked, crashes, faults>>

\* The settle window closed first: the reply says cancelled.
CancelSettle(r) ==
  /\ cancelReq[r] = "waiting"
  /\ cancelReq' = [cancelReq EXCEPT ![r] = "assumed"]
  /\ UNCHANGED <<proc, storeOpen, mu, sem, status, pc, lifeDone, expired, verdict,
                 seq, disk, marked, crashes, faults>>

-----------------------------------------------------------------------------
(* RunManager.Close.                                                       *)

Close ==
  /\ proc = "open" /\ mu = NoRun
  /\ proc' = "closing"
  /\ UNCHANGED <<storeOpen, mu, sem, mem, disk, marked, crashes, faults>>

\* rootStop cancels the parent of every lifeCtx.
RootStop ==
  /\ proc = "closing"
  /\ \E r \in Runs : ~lifeDone[r]
  /\ lifeDone' = [r \in Runs |-> TRUE]
  /\ UNCHANGED <<proc, storeOpen, mu, sem, status, pc, expired, verdict, seq,
                 cancelReq, disk, marked, crashes, faults>>

\* Slip: the store is closed without wg.Wait.
CloseStore_NoWait ==
  /\ proc = "closing"
  /\ \A r \in Runs : lifeDone[r]
  /\ proc' = "stopped"
  /\ storeOpen' = FALSE
  /\ UNCHANGED <<mu, sem, mem, disk, marked, crashes, faults>>

\* wg.Wait has returned; the store is closed.
CloseStore ==
  /\ proc = "closing"
  /\ \A r \in Runs : lifeDone[r] /\ pc[r] \in {"none", "gone"}
  /\ proc' = "stopped"
  /\ storeOpen' = FALSE
  /\ UNCHANGED <<mu, sem, mem, disk, marked, crashes, faults>>

-----------------------------------------------------------------------------
(* Process death, and openRunStore plus the history load of NewRunManager  *)
(* in the next process.                                                    *)

EmptyMemory ==
  /\ status' = [r \in Runs |-> "none"]
  /\ pc' = [r \in Runs |-> "none"]
  /\ lifeDone' = [r \in Runs |-> FALSE]
  /\ expired' = [r \in Runs |-> FALSE]
  /\ verdict' = [r \in Runs |-> "completed"]
  /\ seq' = [r \in Runs |-> 0]
  /\ cancelReq' = [r \in Runs |-> "idle"]

Crash ==
  /\ proc \in {"open", "closing", "recovering"}
  /\ crashes < MaxCrashes
  /\ crashes' = crashes + 1
  /\ proc' = "down"
  /\ storeOpen' = FALSE /\ mu' = NoRun /\ sem' = 0 /\ marked' = {}
  /\ EmptyMemory
  /\ UNCHANGED <<disk, faults>>

\* The next process begins recordInterruptedRunEvents.
Reopen ==
  /\ proc \in {"down", "stopped"}
  /\ proc' = "recovering"
  /\ storeOpen' = TRUE /\ sem' = 0 /\ marked' = {}
  /\ EmptyMemory
  /\ UNCHANGED <<mu, disk, crashes, faults>>

\* Slip: the row is to be marked, but no event tells it.
RecordInterrupted_Silent(r) ==
  /\ proc = "recovering"
  /\ Stale(r) /\ r \notin marked
  /\ marked' = marked \cup {r}
  /\ UNCHANGED <<proc, storeOpen, mu, sem, mem, disk, crashes, faults>>

\* One INSERT per stale row, each committed on its own.
RecordInterrupted(r) ==
  /\ proc = "recovering"
  /\ Stale(r) /\ r \notin marked
  /\ journal' = [journal EXCEPT ![r] = Append(@, "interrupted")]
  /\ marked' = marked \cup {r}
  /\ UNCHANGED <<proc, storeOpen, mu, sem, mem, row, crashes, faults>>

\* loadedRunState for the rows in rs: no goroutine, done already closed.
LoadRuns(rs, rows) ==
  /\ status' = [r \in Runs |-> IF r \in rs THEN LoadedStatus(rows[r]) ELSE status[r]]
  /\ seq' = [r \in Runs |-> IF r \in rs THEN Len(journal[r]) ELSE seq[r]]
  /\ pc' = [r \in Runs |-> IF r \in rs THEN "gone" ELSE pc[r]]

\* The UPDATE of openRunStore, then the history load of NewRunManager; when
\* the load fails the map stays empty.
MarkInterrupted(loaded) ==
  /\ proc = "recovering"
  /\ \A r \in Runs : Stale(r) => r \in marked
  /\ StoreOutcome(loaded)
  /\ row' = [r \in Runs |-> IF Stale(r) THEN "interrupted" ELSE row[r]]
  /\ LoadRuns({r \in Runs : loaded /\ row[r] # "none"}, row')
  /\ proc' = "open"
  /\ marked' = {}
  /\ UNCHANGED <<storeOpen, mu, sem, lifeDone, expired, verdict, cancelReq, journal, crashes>>

\* openRunStore returned an error at any of its steps: persistence disabled.
RecoveryFails ==
  /\ proc = "recovering"
  /\ StoreOutcome(FALSE)
  /\ proc' = "open"
  /\ storeOpen' = FALSE
  /\ marked' = {}
  /\ UNCHANGED <<mu, sem, mem, disk, crashes>>

\* Get of a run that is not in the map: the store row is cached.
Lookup(r) ==
  /\ Up /\ storeOpen /\ mu = NoRun
  /\ status[r] = "none" /\ row[r] # "none"
  /\ LoadRuns({r}, row)
  /\ UNCHANGED <<proc, storeOpen, mu, sem, lifeDone, expired, verdict, cancelReq,
                 disk, marked, crashes, faults>>

-----------------------------------------------------------------------------
Init ==
  /\ proc = "open" /\ storeOpen = TRUE /\ mu = NoRun /\ sem = 0 /\ marked = {}
  /\ status = [r \in Runs |-> "none"]
  /\ pc = [r \in Runs |-> "none"]
  /\ lifeDone = [r \in Runs |-> FALSE]
  /\ expired = [r \in Runs |-> FALSE]
  /\ verdict = [r \in Runs |-> "completed"]
  /\ seq = [r \in Runs |-> 0]
  /\ cancelReq = [r \in Runs |-> "idle"]
  /\ row = [r \in Runs |-> "none"]
  /\ journal = [r \in Runs |-> <<>>]
  /\ crashes = 0 /\ faults = 0

RunStep(r) ==
  \/ Acquire(r) \/ LeaveQueue(r) \/ CheckLife(r) \/ Deadline(r) \/ Release(r)
  \/ \E report \in Reports : Return(r, report)
  \/ \E ok \in BOOLEAN : \/ Start(r, ok) \/ BeginRun(r, ok) \/ RecordEvent(r, ok)
                         \/ Finish(r, ok) \/ Persist(r, ok)

CallStep(r) == Cancel(r) \/ CancelAnswer(r) \/ CancelSettle(r) \/ Lookup(r)

ProcessStep ==
  \/ Close \/ RootStop \/ CloseStore \/ Crash \/ Reopen \/ RecoveryFails
  \/ \E loaded \in BOOLEAN : MarkInterrupted(loaded)
  \/ \E r \in Runs : RecordInterrupted(r)

Next == ProcessStep \/ \E r \in Runs : RunStep(r) \/ CallStep(r)

(***************************************************************************)
(* Fairness.  Every step a goroutine takes on its own is weakly fair.  The *)
(* steps that compete for the lock or for a permit are strongly fair: Go's *)
(* mutex and the senders waiting on a channel are served in order.  An     *)
(* executor is only assumed to return once its context is done; a crashed  *)
(* or stopped Client is assumed to be started again.  Nobody has to call   *)
(* Start, Cancel or Close.                                                 *)
(***************************************************************************)
Fairness ==
  /\ \A r \in Runs :
       /\ SF_vars(Acquire(r)) /\ WF_vars(LeaveQueue(r)) /\ WF_vars(CheckLife(r))
       /\ SF_vars(\E ok \in BOOLEAN : BeginRun(r, ok))
       /\ SF_vars(\E ok \in BOOLEAN : Finish(r, ok))
       /\ WF_vars(\E ok \in BOOLEAN : Persist(r, ok))
       /\ WF_vars(Deadline(r)) /\ WF_vars(Release(r))
       /\ WF_vars((expired[r] \/ lifeDone[r]) /\ \E report \in Reports : Return(r, report))
       /\ WF_vars(RecordInterrupted(r))
  /\ WF_vars(RootStop) /\ WF_vars(CloseStore) /\ WF_vars(Reopen)
  /\ WF_vars(\E loaded \in BOOLEAN : MarkInterrupted(loaded))

Spec == Init /\ [][Next]_vars
FairSpec == Spec /\ Fairness

-----------------------------------------------------------------------------
(* Properties.                                                             *)

Pcs == {"none", "waiting", "quitting", "admitted", "executing", "finishing",
        "releasing", "gone"}
Kinds == Statuses \cup {"harness", "missing"}

\* Every variable has its type.
TypeOK ==
  /\ proc \in {"open", "closing", "stopped", "down", "recovering"}
  /\ storeOpen \in BOOLEAN
  /\ mu \in Runs \cup {NoRun}
  /\ sem \in Int
  /\ status \in [Runs -> Statuses \cup {"none"}]
  /\ pc \in [Runs -> Pcs]
  /\ lifeDone \in [Runs -> BOOLEAN]
  /\ expired \in [Runs -> BOOLEAN]
  /\ verdict \in [Runs -> TerminalStatuses \ {"interrupted"}]
  /\ seq \in [Runs -> Nat]
  /\ cancelReq \in [Runs -> {"idle", "waiting", "answered", "assumed"}]
  /\ row \in [Runs -> Statuses \cup {"none"}]
  /\ journal \in [Runs -> Seq(Kinds)]
  /\ marked \subseteq Runs
  /\ crashes \in Nat /\ faults \in Nat

Holders == {r \in Runs : pc[r] \in {"admitted", "executing", "finishing", "releasing"}}

\* The permits of the channel sem are exactly the goroutines that hold one:
\* run releases its permit once on every path (cancelled while queued,
\* cancelled after admission, finished) and never one it did not take.
PermitsAccounted == sem = Cardinality(Holders) /\ sem <= MaxConcurrent

\* "At most 2 subagents run concurrently per client": neither the map nor the
\* durable rows ever show more running runs than there are permits, not even
\* while a finishing run hands its permit to the next one or after a crash.
BoundedConcurrency ==
  /\ Cardinality({r \in Runs : status[r] = "running"}) <= MaxConcurrent
  /\ faults = 0 => Cardinality({r \in Runs : row[r] = "running"}) <= MaxConcurrent

\* Only the goroutine of a run moves its status, so its position tells the
\* status and the early returns of run and finish ("already terminal",
\* "transition refused") are never taken.
OwnerDecides ==
  \A r \in Runs : mu # r =>
    /\ pc[r] = "none" => status[r] = "none"
    /\ pc[r] \in {"waiting", "quitting", "admitted"} => status[r] = "queued"
    /\ pc[r] = "executing" => status[r] = "running"
    /\ pc[r] = "finishing" => status[r] \in LiveStatuses
    /\ pc[r] \in {"releasing", "gone"} => status[r] \in TerminalStatuses

\* What a caller of Get, List or Wait can read (the lock is free or held for
\* another run) is already durable, as long as no store call failed: a crash
\* never takes back an answer.
DurableBeforeVisible ==
  faults = 0 /\ Up => \A r \in Runs : mu # r => row[r] = status[r]

\* Event numbers have no gap and the counter in memory is the head of the
\* table, as long as no store call failed, crashes included: replay from any
\* cursor finds the next event.
JournalContiguous ==
  faults = 0 => \A r \in Runs :
    /\ \A i \in DOMAIN journal[r] : journal[r][i] # "missing"
    /\ Up /\ status[r] # "none" => seq[r] = Len(journal[r])

\* The journal tells the status of a run: the last lifecycle event is the
\* status a caller can read, and nothing follows a terminal one, whatever a
\* crash left behind.
JournalTellsStatus ==
  faults = 0 /\ Up => \A r \in Runs : mu # r /\ status[r] # "none" =>
    \E i \in DOMAIN journal[r] :
      /\ journal[r][i] = status[r]
      /\ \A j \in i + 1 .. Len(journal[r]) : journal[r][j] = "harness"
      /\ status[r] \in TerminalStatuses => i = Len(journal[r])

\* After Close nothing of the manager is left: no lock, no permit, no
\* goroutine, and no row that the next process would call interrupted.
CleanClose ==
  proc = "stopped" =>
    /\ mu = NoRun /\ sem = 0
    /\ \A r \in Runs : pc[r] \in {"none", "gone"} /\ status[r] \notin LiveStatuses
    /\ faults = 0 => \A r \in Runs : ~Stale(r)

\* "Terminal statuses never change again": neither in memory nor in the
\* store, over all processes that open it.
TerminalForever ==
  [][\A r \in Runs :
       /\ row[r] \in TerminalStatuses => row'[r] = row[r]
       /\ status[r] \in TerminalStatuses => status'[r] \in {status[r], "none"}]_vars

Lifecycle == INSTANCE RunLifecycle WITH status <- row
\* The rows of agent_runs implement the promise of RunLifecycle.
RefinesLifecycle == Lifecycle!Spec

-----------------------------------------------------------------------------
(* Liveness, under FairSpec.                                               *)

\* A run whose context is cancelled (by agent_cancel or by Close) reaches a
\* terminal status unless its process dies first.
CancelLands ==
  \A r \in Runs : (status[r] \in LiveStatuses /\ lifeDone[r]) ~>
                    (status[r] \in TerminalStatuses \/ ~Up)

\* Close returns: no goroutine keeps wg.Wait waiting.
CloseReturns == (proc = "closing") ~> (proc # "closing")

\* Every accepted run whose row was written ends with a terminal row, in its
\* own process or, after a crash, in the recovery of a later one.
EveryRunSettles == \A r \in Timed : Stale(r) ~> row[r] \in TerminalStatuses

-----------------------------------------------------------------------------
(* Statements of the code's comments that the runs refute.                 *)

\* "A run follows exactly one path": its journal ends once.
OneTerminalEvent ==
  \A r \in Runs : Cardinality({i \in DOMAIN journal[r] : journal[r][i] \in TerminalStatuses}) <= 1

\* agent_cancel: "a cancellation always lands on cancelled", so the answer it
\* gives when the settle window closes is where the run is headed.
AssumedCancelHolds ==
  \A r \in Runs : cancelReq[r] = "assumed" /\ status[r] \in TerminalStatuses =>
                    status[r] = "cancelled"
=============================================================================
