------------------------- MODULE RunManager_proofs --------------------------
(***************************************************************************)
(* Proofs of the safety properties of RunManager, for every set of runs,   *)
(* every number of permits and every number of crashes and store errors.   *)
(***************************************************************************)
EXTENDS RunManager, FiniteSetTheorems, TLAPS

\* Padding a journal keeps it a sequence of event kinds.
LEMMA PaddedType ==
  ASSUME NEW j \in Seq(Kinds), NEW n \in Nat
  PROVE  Padded(j, n) \in Seq(Kinds)
<1>1. \A i \in 1..n : (IF i <= Len(j) THEN j[i] ELSE "missing") \in Kinds
  BY DEF Kinds
<1>2. Padded(j, n) \in [1..n -> Kinds]
  BY <1>1, Zenon DEF Padded
<1> QED
  BY <1>2

\* The journal write of appendRuntimeEventLocked keeps the types.
LEMMA AppendEventType ==
  ASSUME TypeOK, NEW r \in Runs, NEW kind \in Kinds, NEW ok \in BOOLEAN,
         AppendEvent(r, kind, ok)
  PROVE  /\ seq' \in [Runs -> Nat]
         /\ journal' \in [Runs -> Seq(Kinds)]
         /\ faults' \in Nat
<1>1. Append(Padded(journal[r], seq[r]), kind) \in Seq(Kinds)
  BY PaddedType DEF TypeOK
<1>2. journal' \in [Runs -> Seq(Kinds)]
  BY <1>1, Zenon DEF AppendEvent, TypeOK
<1> QED
  BY <1>2 DEF AppendEvent, StoreOutcome, TypeOK

-----------------------------------------------------------------------------
(* Type correctness.                                                       *)

\* transitionLocked keeps the types.
LEMMA TransitionType ==
  ASSUME TypeOK, NEW r \in Runs, NEW to \in Statuses, NEW ok \in BOOLEAN,
         Transition(r, to, ok)
  PROVE  /\ mu' \in Runs \cup {NoRun}
         /\ status' \in [Runs -> Statuses \cup {"none"}]
         /\ seq' \in [Runs -> Nat]
         /\ journal' \in [Runs -> Seq(Kinds)]
         /\ faults' \in Nat
<1>1. to \in Kinds /\ AppendEvent(r, to, ok)
  BY Zenon DEF Kinds, Transition
<1>2. /\ seq' \in [Runs -> Nat]
      /\ journal' \in [Runs -> Seq(Kinds)]
      /\ faults' \in Nat
  BY <1>1, AppendEventType, Zenon
<1>3. /\ mu' \in Runs \cup {NoRun}
      /\ status' \in [Runs -> Statuses \cup {"none"}]
  BY Zenon DEF Transition, TypeOK
<1> QED
  BY <1>2, <1>3, Zenon

\* The steps of a run's goroutine keep the types.
LEMMA RunStepType ==
  ASSUME TypeOK, NEW r \in Runs, RunStep(r)
  PROVE  TypeOK'
<1> USE DEF mem, disk
<1>1. CASE Acquire(r)
  BY <1>1 DEF TypeOK, Acquire, Pcs
<1>2. CASE LeaveQueue(r)
  BY <1>2, Zenon DEF TypeOK, LeaveQueue, Pcs, TerminalStatuses
<1>3. CASE CheckLife(r)
  BY <1>3, Zenon DEF TypeOK, CheckLife, Pcs, TerminalStatuses
<1>4. CASE Deadline(r)
  BY <1>4, Zenon DEF TypeOK, Deadline
<1>5. CASE Release(r)
  BY <1>5 DEF TypeOK, Release, Pcs
<1>6. ASSUME NEW report \in Reports, Return(r, report)
      PROVE  TypeOK'
  <2>1. finishOutcome(r, report) \in TerminalStatuses \ {"interrupted"}
    BY Zenon DEF finishOutcome, statusFromResult, TerminalStatuses
  <2> QED
    BY <2>1, <1>6, Zenon DEF TypeOK, Return, Pcs
<1>7. ASSUME NEW ok \in BOOLEAN, Start(r, ok)
      PROVE  TypeOK'
  <2>1. "queued" \in Statuses /\ Transition(r, "queued", ok)
    BY <1>7, Zenon DEF Start, Statuses, LiveStatuses
  <2> QED
    BY <2>1, <1>7, TransitionType, SMTT(30) DEF TypeOK, Start
<1>8. ASSUME NEW ok \in BOOLEAN, BeginRun(r, ok)
      PROVE  TypeOK'
  <2>1. "running" \in Statuses /\ Transition(r, "running", ok)
    BY <1>8, Zenon DEF BeginRun, Statuses, LiveStatuses
  <2> QED
    BY <2>1, <1>8, TransitionType DEF TypeOK, BeginRun
<1>9. ASSUME NEW ok \in BOOLEAN, RecordEvent(r, ok)
      PROVE  TypeOK'
  <2>1. "harness" \in Kinds /\ AppendEvent(r, "harness", ok)
    BY <1>9, Zenon DEF RecordEvent, Kinds
  <2> QED
    BY <2>1, <1>9, AppendEventType, ZenonT(60) DEF TypeOK, RecordEvent
<1>10. ASSUME NEW ok \in BOOLEAN, Finish(r, ok)
       PROVE  TypeOK'
  <2> DEFINE to == Landing(status[r], verdict[r])
  <2>1. to \in Statuses
    BY Zenon DEF Landing, TypeOK, Statuses, TerminalStatuses
  <2>2. Transition(r, to, ok)
    BY <1>10, Zenon DEF Finish
  <2> HIDE DEF to
  <2> QED
    BY <2>1, <2>2, <1>10, TransitionType DEF TypeOK, Finish
<1>11. ASSUME NEW ok \in BOOLEAN, Persist(r, ok)
       PROVE  TypeOK'
  <2>1. AfterPersist(pc[r]) \in Pcs
    BY Zenon DEF AfterPersist, Pcs
  <2>2. faults' \in Nat
    BY <1>11 DEF Persist, StoreOutcome, TypeOK
  <2> QED
    BY <2>1, <2>2, <1>11, Zenon DEF TypeOK, Persist
<1> QED
  BY <1>1, <1>2, <1>3, <1>4, <1>5, <1>6, <1>7, <1>8, <1>9, <1>10, <1>11, Zenon DEF RunStep

\* The calls of agent_cancel and Get keep the types.
LEMMA CallStepType ==
  ASSUME TypeOK, NEW r \in Runs, CallStep(r)
  PROVE  TypeOK'
<1> USE DEF mem, disk
<1>1. CASE Cancel(r)
  BY <1>1, Zenon DEF TypeOK, Cancel
<1>2. CASE CancelAnswer(r)
  BY <1>2, Zenon DEF TypeOK, CancelAnswer
<1>3. CASE CancelSettle(r)
  BY <1>3, Zenon DEF TypeOK, CancelSettle
<1>4. CASE Lookup(r)
  <2>1. status' \in [Runs -> Statuses \cup {"none"}]
    BY <1>4, Zenon DEF TypeOK, Lookup, LoadRuns, LoadedStatus, Statuses, TerminalStatuses
  <2>2. seq' \in [Runs -> Nat] /\ pc' \in [Runs -> Pcs]
    BY <1>4 DEF TypeOK, Lookup, LoadRuns, Pcs
  <2> QED
    BY <2>1, <2>2, <1>4, Zenon DEF TypeOK, Lookup
<1> QED
  BY <1>1, <1>2, <1>3, <1>4, Zenon DEF CallStep

\* Shutting down, dying and reopening the store keep the types.
LEMMA ProcessStepType ==
  ASSUME TypeOK, ProcessStep
  PROVE  TypeOK'
<1> USE DEF mem, disk
<1>1. CASE Close
  BY <1>1, Zenon DEF TypeOK, Close
<1>2. CASE RootStop
  BY <1>2, Zenon DEF TypeOK, RootStop
<1>3. CASE CloseStore
  BY <1>3, Zenon DEF TypeOK, CloseStore
<1>4. CASE Crash
  <2>1. storeOpen' \in BOOLEAN
    BY <1>4, Zenon DEF Crash
  <2>2. crashes' \in Nat /\ marked' \subseteq Runs
    BY <1>4 DEF TypeOK, Crash
  <2> QED
    BY <2>1, <2>2, <1>4 DEF TypeOK, Crash, EmptyMemory, Pcs, TerminalStatuses
<1>5. CASE Reopen
  BY <1>5 DEF TypeOK, Reopen, EmptyMemory, Pcs, TerminalStatuses
<1>6. CASE RecoveryFails
  <2>1. storeOpen' \in BOOLEAN
    BY <1>6, Zenon DEF RecoveryFails
  <2>2. faults' \in Nat /\ marked' \subseteq Runs
    BY <1>6 DEF TypeOK, RecoveryFails, StoreOutcome
  <2> QED
    BY <2>1, <2>2, <1>6, Zenon DEF TypeOK, RecoveryFails
<1>7. ASSUME NEW loaded \in BOOLEAN, MarkInterrupted(loaded)
      PROVE  TypeOK'
  <2>1. row' \in [Runs -> Statuses \cup {"none"}]
    BY <1>7, Zenon DEF TypeOK, MarkInterrupted, Statuses, TerminalStatuses
  <2>2. status' \in [Runs -> Statuses \cup {"none"}]
    BY <2>1, <1>7, Zenon DEF TypeOK, MarkInterrupted, LoadRuns, LoadedStatus, Statuses, TerminalStatuses
  <2>3. seq' \in [Runs -> Nat] /\ pc' \in [Runs -> Pcs] /\ faults' \in Nat
    BY <1>7 DEF TypeOK, MarkInterrupted, LoadRuns, StoreOutcome, Pcs
  <2> QED
    BY <2>1, <2>2, <2>3, <1>7, Zenon DEF TypeOK, MarkInterrupted
<1>8. ASSUME NEW r \in Runs, RecordInterrupted(r)
      PROVE  TypeOK'
  <2>1. Append(journal[r], "interrupted") \in Seq(Kinds)
    BY DEF TypeOK, Kinds, Statuses, TerminalStatuses
  <2>2. journal' \in [Runs -> Seq(Kinds)]
    BY <2>1, <1>8, Zenon DEF TypeOK, RecordInterrupted
  <2> QED
    BY <2>2, <1>8, Zenon DEF TypeOK, RecordInterrupted
<1> QED
  BY <1>1, <1>2, <1>3, <1>4, <1>5, <1>6, <1>7, <1>8, Zenon DEF ProcessStep

\* Every variable keeps its type in every behaviour of the manager.
THEOREM TypeCorrect == Spec => []TypeOK
<1>1. Init => TypeOK
  <2>1. <<>> \in Seq(Kinds)
    OBVIOUS
  <2> QED
    BY <2>1 DEF Init, TypeOK, Pcs, TerminalStatuses
<1>2. TypeOK /\ [Next]_vars => TypeOK'
  <2> SUFFICES ASSUME TypeOK, [Next]_vars PROVE TypeOK'
    BY Zenon
  <2>1. CASE UNCHANGED vars
    BY <2>1, Zenon DEF TypeOK, vars, mem, disk
  <2>2. CASE Next
    BY <2>2, RunStepType, CallStepType, ProcessStepType, Zenon DEF Next
  <2> QED
    BY <2>1, <2>2, Zenon
<1> QED
  BY <1>1, <1>2, PTL DEF Spec

-----------------------------------------------------------------------------
(* The status of a run follows its goroutine.                              *)

\* While the lock is held between the two writes of a transition, the status
\* has moved and the goroutine has not.
LockShape ==
  \A r \in Runs : mu = r =>
    /\ Up
    /\ \/ pc[r] = "none" /\ status[r] = "queued" /\ proc = "open"
       \/ pc[r] = "admitted" /\ status[r] = "running"
       \/ pc[r] \in {"finishing", "quitting"} /\ status[r] \in TerminalStatuses

\* A process that is not up has no goroutine and no lock holder.
Quiet ==
  /\ proc \in {"down", "recovering"} =>
       \A r \in Runs : pc[r] = "none" /\ status[r] = "none"
  /\ proc = "stopped" => \A r \in Runs : pc[r] \in {"none", "gone"}
  /\ ~Up => mu = NoRun

Shape == OwnerDecides /\ LockShape /\ Quiet

\* The steps of a goroutine keep status, position and lock in step.
LEMMA RunStepShape ==
  ASSUME TypeOK, Shape, NEW r \in Runs, RunStep(r)
  PROVE  Shape'
<1> USE NoRunAssumption DEF mem, disk, Shape, OwnerDecides, LockShape, Quiet, Up, TypeOK,
                            LiveStatuses, TerminalStatuses
<1>1. CASE Acquire(r)
  BY <1>1, ZenonT(60) DEF Acquire
<1>2. CASE LeaveQueue(r)
  BY <1>2, ZenonT(60) DEF LeaveQueue
<1>3. CASE CheckLife(r)
  BY <1>3, ZenonT(60) DEF CheckLife
<1>4. CASE Deadline(r)
  BY <1>4, Zenon DEF Deadline
<1>5. CASE Release(r)
  BY <1>5, ZenonT(60) DEF Release
<1>6. ASSUME NEW report \in Reports, Return(r, report)
      PROVE  Shape'
  BY <1>6, ZenonT(60) DEF Return
<1>7. ASSUME NEW ok \in BOOLEAN, Start(r, ok)
      PROVE  Shape'
  <2>1. mu # r /\ pc[r] = "none"
    BY <1>7, ZenonT(60) DEF Start, Transition, Pcs
  <2> QED
    BY <1>7, <2>1, ZenonT(60) DEF Start, Transition
<1>8. ASSUME NEW ok \in BOOLEAN, BeginRun(r, ok)
      PROVE  Shape'
  BY <1>8, ZenonT(60) DEF BeginRun, Transition
<1>9. ASSUME NEW ok \in BOOLEAN, RecordEvent(r, ok)
      PROVE  Shape'
  BY <1>9, Zenon DEF RecordEvent
<1>10. ASSUME NEW ok \in BOOLEAN, Finish(r, ok)
       PROVE  Shape'
  BY <1>10, ZenonT(60) DEF Finish, Transition, Landing, canTransition
<1>11. ASSUME NEW ok \in BOOLEAN, Persist(r, ok)
       PROVE  Shape'
  BY <1>11, ZenonT(60) DEF Persist, AfterPersist
<1> QED
  BY <1>1, <1>2, <1>3, <1>4, <1>5, <1>6, <1>7, <1>8, <1>9, <1>10, <1>11, ZenonT(60) DEF RunStep

\* Cancelling a context or caching a stored run keeps them in step.
LEMMA CallStepShape ==
  ASSUME TypeOK, Shape, NEW r \in Runs, CallStep(r)
  PROVE  Shape'
<1> USE NoRunAssumption DEF mem, disk, Shape, OwnerDecides, LockShape, Quiet, Up, TypeOK,
                            LiveStatuses, TerminalStatuses
<1>1. CASE Cancel(r)
  BY <1>1, Zenon DEF Cancel
<1>2. CASE CancelAnswer(r)
  BY <1>2, Zenon DEF CancelAnswer
<1>3. CASE CancelSettle(r)
  BY <1>3, Zenon DEF CancelSettle
<1>4. CASE Lookup(r)
  BY <1>4, ZenonT(60) DEF Lookup, LoadRuns, LoadedStatus, Statuses
<1> QED
  BY <1>1, <1>2, <1>3, <1>4, Zenon DEF CallStep

\* Shutdown, death and recovery keep them in step.
LEMMA ProcessStepShape ==
  ASSUME TypeOK, Shape, ProcessStep
  PROVE  Shape'
<1> USE NoRunAssumption DEF mem, disk, Shape, OwnerDecides, LockShape, Quiet, Up, TypeOK,
                            LiveStatuses, TerminalStatuses
<1>1. CASE Close
  BY <1>1, Zenon DEF Close
<1>2. CASE RootStop
  BY <1>2, Zenon DEF RootStop
<1>3. CASE CloseStore
  BY <1>3, ZenonT(60) DEF CloseStore
<1>4. CASE Crash
  BY <1>4, ZenonT(60) DEF Crash, EmptyMemory
<1>5. CASE Reopen
  BY <1>5, Zenon DEF Reopen, EmptyMemory
<1>6. CASE RecoveryFails
  BY <1>6, Zenon DEF RecoveryFails
<1>7. ASSUME NEW loaded \in BOOLEAN, MarkInterrupted(loaded)
      PROVE  Shape'
  BY <1>7, Zenon DEF MarkInterrupted, LoadRuns, LoadedStatus, Stale, Statuses
<1>8. ASSUME NEW r \in Runs, RecordInterrupted(r)
      PROVE  Shape'
  BY <1>8, Zenon DEF RecordInterrupted
<1> QED
  BY <1>1, <1>2, <1>3, <1>4, <1>5, <1>6, <1>7, <1>8, Zenon DEF ProcessStep

\* Shape is inductive relative to the types.
LEMMA ShapeInvariant == Spec => []Shape
<1>1. Init => Shape
  BY NoRunAssumption DEF Init, Shape, OwnerDecides, LockShape, Quiet, Up
<1>2. TypeOK /\ Shape /\ [Next]_vars => Shape'
  <2> SUFFICES ASSUME TypeOK, Shape, [Next]_vars PROVE Shape'
    BY Zenon
  <2>1. CASE UNCHANGED vars
    BY <2>1, Zenon DEF Shape, OwnerDecides, LockShape, Quiet, Up, vars, mem, disk
  <2>2. CASE Next
    BY <2>2, RunStepShape, CallStepShape, ProcessStepShape, Zenon DEF Next
  <2> QED
    BY <2>1, <2>2, Zenon
<1> QED
  BY <1>1, <1>2, TypeCorrect, PTL DEF Spec

\* Only the goroutine of a run moves its status; the early returns of run and
\* finish are never taken, with any number of crashes and store errors.
THEOREM OwnerDecidesHolds == Spec => []OwnerDecides
<1>1. Shape => OwnerDecides
  BY Zenon DEF Shape
<1> QED
  BY <1>1, ShapeInvariant, PTL

-----------------------------------------------------------------------------
(* Permits.                                                                *)

\* The holders of permits form a finite set.
LEMMA HoldersFinite == IsFiniteSet(Holders) /\ Cardinality(Holders) \in Nat
  BY RunsAssumption, FS_Subset, FS_CardinalityType, Zenon DEF Holders

\* A step that leaves the channel alone leaves the set of holders alone, and
\* Acquire and Release change both by one.
LEMMA RunStepPermits ==
  ASSUME TypeOK, Shape, PermitsAccounted, NEW r \in Runs, RunStep(r)
  PROVE  PermitsAccounted'
<1> DEFINE Same == Holders' = Holders /\ sem' = sem
<1>0. Same => PermitsAccounted'
  BY Zenon DEF PermitsAccounted
<1>1. CASE Acquire(r)
  <2>1. r \notin Holders /\ Holders' = Holders \cup {r}
    BY <1>1, Zenon DEF Acquire, Holders, TypeOK
  <2>2. Cardinality(Holders') = Cardinality(Holders) + 1
    BY <2>1, HoldersFinite, FS_AddElement, Zenon
  <2> QED
    BY <2>2, <1>1, HoldersFinite, ConcurrencyAssumption DEF Acquire, PermitsAccounted
<1>2. CASE Release(r)
  <2>1. r \in Holders /\ Holders' = Holders \ {r}
    BY <1>2, Zenon DEF Release, Holders, TypeOK
  <2>2. Cardinality(Holders') = Cardinality(Holders) - 1
    BY <2>1, HoldersFinite, FS_RemoveElement, Zenon
  <2> QED
    BY <2>2, <1>2, HoldersFinite, ConcurrencyAssumption DEF Release, PermitsAccounted
<1>3. CASE LeaveQueue(r)
  BY <1>0, <1>3, Zenon DEF LeaveQueue, Holders, TypeOK
<1>4. CASE CheckLife(r)
  BY <1>0, <1>4, Zenon DEF CheckLife, Holders, TypeOK
<1>5. CASE Deadline(r)
  BY <1>0, <1>5, Zenon DEF Deadline, Holders
<1>6. ASSUME NEW report \in Reports, Return(r, report)
      PROVE  PermitsAccounted'
  BY <1>0, <1>6, Zenon DEF Return, Holders, TypeOK
<1>7. ASSUME NEW ok \in BOOLEAN, Start(r, ok) \/ BeginRun(r, ok) \/ RecordEvent(r, ok) \/ Finish(r, ok)
      PROVE  PermitsAccounted'
  BY <1>0, <1>7, Zenon DEF Start, BeginRun, RecordEvent, Finish, Holders
<1>8. ASSUME NEW ok \in BOOLEAN, Persist(r, ok)
      PROVE  PermitsAccounted'
  <2>1. pc[r] \in {"none", "admitted", "finishing", "quitting"}
    BY <1>8, Zenon DEF Persist, Shape, LockShape
  <2>2. Holders' = Holders
    BY <2>1, <1>8, Zenon DEF Persist, AfterPersist, Holders, TypeOK
  <2> QED
    BY <1>0, <2>2, <1>8, Zenon DEF Persist
<1> QED
  BY <1>1, <1>2, <1>3, <1>4, <1>5, <1>6, <1>7, <1>8, Zenon DEF RunStep

\* The remaining steps start and end with the same holders, or with none.
LEMMA OtherStepPermits ==
  ASSUME TypeOK, Shape, PermitsAccounted,
         ProcessStep \/ \E r \in Runs : CallStep(r)
  PROVE  PermitsAccounted'
<1> USE DEF mem, disk
<1> DEFINE Same == Holders' = Holders /\ sem' = sem
<1>0. Same => PermitsAccounted'
  BY Zenon DEF PermitsAccounted
<1>1. ASSUME NEW r \in Runs, Cancel(r) \/ CancelAnswer(r) \/ CancelSettle(r)
      PROVE  PermitsAccounted'
  BY <1>0, <1>1, Zenon DEF Cancel, CancelAnswer, CancelSettle, Holders
<1>2. ASSUME NEW r \in Runs, Lookup(r)
      PROVE  PermitsAccounted'
  <2>1. pc[r] = "none"
    BY <1>2, NoRunAssumption, Zenon
       DEF Lookup, Shape, OwnerDecides, TypeOK, Pcs, LiveStatuses, TerminalStatuses
  <2>2. pc' = [pc EXCEPT ![r] = "gone"]
    BY <1>2, ZenonT(60) DEF Lookup, LoadRuns, TypeOK
  <2>3. Holders' = Holders
    BY <2>1, <2>2, Zenon DEF Holders, TypeOK
  <2> QED
    BY <1>0, <1>2, <2>3, Zenon DEF Lookup
<1>3. CASE Close \/ RootStop \/ CloseStore \/ RecoveryFails \/ \E r \in Runs : RecordInterrupted(r)
  BY <1>0, <1>3, Zenon DEF Close, RootStop, CloseStore, RecoveryFails, RecordInterrupted, Holders
<1>4. CASE Crash \/ Reopen
  <2>1. Holders' = {} /\ sem' = 0
    BY <1>4, Zenon DEF Crash, Reopen, EmptyMemory, Holders
  <2> QED
    BY <2>1, FS_EmptySet, ConcurrencyAssumption DEF PermitsAccounted
<1>5. ASSUME NEW loaded \in BOOLEAN, MarkInterrupted(loaded)
      PROVE  PermitsAccounted'
  <2>1. Holders = {} /\ Holders' = {}
    BY <1>5, Zenon DEF MarkInterrupted, LoadRuns, Holders, Shape, Quiet
  <2> QED
    BY <1>0, <2>1, <1>5, Zenon DEF MarkInterrupted
<1> QED
  BY <1>1, <1>2, <1>3, <1>4, <1>5, Zenon DEF ProcessStep, CallStep

\* The permits taken from sem are exactly the runs that hold one, and never
\* more than its capacity: no path of run leaks or returns a permit twice.
THEOREM PermitsAccountedHolds == Spec => []PermitsAccounted
<1>1. Init => PermitsAccounted
  <2>1. Init => Holders = {} /\ sem = 0
    BY Zenon DEF Init, Holders
  <2> QED
    BY <2>1, FS_EmptySet, ConcurrencyAssumption DEF PermitsAccounted
<1>2. TypeOK /\ Shape /\ PermitsAccounted /\ [Next]_vars => PermitsAccounted'
  <2> SUFFICES ASSUME TypeOK, Shape, PermitsAccounted, [Next]_vars
               PROVE  PermitsAccounted'
    BY Zenon
  <2>1. CASE UNCHANGED vars
    BY <2>1, Zenon DEF PermitsAccounted, Holders, vars, mem
  <2>2. CASE Next
    BY <2>2, RunStepPermits, OtherStepPermits, Zenon DEF Next
  <2> QED
    BY <2>1, <2>2, Zenon
<1> QED
  BY <1>1, <1>2, TypeCorrect, ShapeInvariant, PTL DEF Spec

-----------------------------------------------------------------------------
(* The durable rows.                                                       *)

\* The row of a run that may still move is not terminal.
RowsOpen ==
  \A r \in Runs :
    mu = r \/ pc[r] \in {"waiting", "quitting", "admitted", "executing", "finishing"}
      => row[r] \notin TerminalStatuses

\* Without store errors a row trails the map by at most the transition whose
\* lock is held.
RowsFollow ==
  faults = 0 =>
    /\ proc \in {"open", "closing", "recovering"} => storeOpen = TRUE
    /\ proc \in {"open", "closing", "stopped"} =>
         \A r \in Runs : mu # r => row[r] = status[r]
    /\ \A r \in Runs : mu = r =>
         \/ pc[r] = "none" /\ row[r] = "none"
         \/ pc[r] = "admitted" /\ row[r] = "queued"
         \/ /\ pc[r] \in {"finishing", "quitting"}
            /\ canTransition(row[r], status[r])
            /\ status[r] # "interrupted"

Rows == RowsOpen /\ RowsFollow

\* The steps of a goroutine.
LEMMA RunStepRows ==
  ASSUME TypeOK, Shape, Rows, NEW r \in Runs, RunStep(r)
  PROVE  Rows'
<1> USE NoRunAssumption DEF mem, disk, Rows, RowsOpen, RowsFollow, TypeOK, TerminalStatuses
<1>1. CASE Acquire(r)
  BY <1>1, ZenonT(60) DEF Acquire
<1>2. CASE LeaveQueue(r)
  BY <1>2, ZenonT(60) DEF LeaveQueue
<1>3. CASE CheckLife(r)
  BY <1>3, ZenonT(60) DEF CheckLife
<1>4. CASE Deadline(r)
  BY <1>4, Zenon DEF Deadline
<1>5. CASE Release(r)
  BY <1>5, Zenon DEF Release
<1>6. ASSUME NEW report \in Reports, Return(r, report)
      PROVE  Rows'
  BY <1>6, ZenonT(60) DEF Return
<1>7. ASSUME NEW ok \in BOOLEAN, Start(r, ok)
      PROVE  Rows'
  <2>1. mu # r /\ pc[r] = "none"
    BY <1>7, ZenonT(60) DEF Start, Transition, Pcs, Shape, OwnerDecides, LiveStatuses
  <2> QED
    BY <1>7, <2>1 DEF Start, Transition, AppendEvent, StoreOutcome
<1>8. ASSUME NEW ok \in BOOLEAN, BeginRun(r, ok)
      PROVE  Rows'
  BY <1>8 DEF BeginRun, Transition, AppendEvent, StoreOutcome, canTransition, Shape, Quiet, Up
<1>9. ASSUME NEW ok \in BOOLEAN, RecordEvent(r, ok)
      PROVE  Rows'
  BY <1>9, SMTT(30) DEF RecordEvent, AppendEvent, StoreOutcome
<1>10. ASSUME NEW ok \in BOOLEAN, Finish(r, ok)
       PROVE  Rows'
  BY <1>10 DEF Finish, Transition, AppendEvent, StoreOutcome, Landing, canTransition,
               Shape, OwnerDecides, Quiet, Up, LiveStatuses
<1>11. ASSUME NEW ok \in BOOLEAN, Persist(r, ok)
       PROVE  Rows'
  BY <1>11 DEF Persist, AfterPersist, StoreOutcome, Shape, LockShape, Up
<1> QED
  BY <1>1, <1>2, <1>3, <1>4, <1>5, <1>6, <1>7, <1>8, <1>9, <1>10, <1>11, ZenonT(60) DEF RunStep

\* The remaining steps; recovery is where rows and map meet again.
LEMMA OtherStepRows ==
  ASSUME TypeOK, Shape, Rows, ProcessStep \/ \E r \in Runs : CallStep(r)
  PROVE  Rows'
<1> USE NoRunAssumption DEF mem, disk, Rows, RowsOpen, RowsFollow, TypeOK, TerminalStatuses
<1>1. ASSUME NEW r \in Runs, Cancel(r) \/ CancelAnswer(r) \/ CancelSettle(r)
      PROVE  Rows'
  BY <1>1, Zenon DEF Cancel, CancelAnswer, CancelSettle
<1>2. ASSUME NEW r \in Runs, Lookup(r)
      PROVE  Rows'
  BY <1>2, Zenon DEF Lookup, LoadRuns, LoadedStatus, Up
<1>3. CASE Close \/ RootStop
  BY <1>3, ZenonT(60) DEF Close, RootStop
<1>4. CASE CloseStore
  BY <1>4, Zenon DEF CloseStore
<1>5. CASE Crash \/ Reopen
  BY <1>5 DEF Crash, Reopen, EmptyMemory, Shape, Quiet, Up
<1>6. CASE RecoveryFails
  BY <1>6 DEF RecoveryFails, StoreOutcome
<1>7. ASSUME NEW loaded \in BOOLEAN, MarkInterrupted(loaded)
      PROVE  Rows'
  BY <1>7 DEF MarkInterrupted, StoreOutcome, LoadRuns, LoadedStatus, Stale, LiveStatuses,
              Shape, Quiet, Up
<1>8. ASSUME NEW r \in Runs, RecordInterrupted(r)
      PROVE  Rows'
  BY <1>8, Zenon DEF RecordInterrupted
<1> QED
  BY <1>1, <1>2, <1>3, <1>4, <1>5, <1>6, <1>7, <1>8, ZenonT(60) DEF ProcessStep, CallStep

\* Rows is inductive relative to Shape.
LEMMA RowsInvariant == Spec => []Rows
<1>1. Init => Rows
  BY NoRunAssumption, Zenon DEF Init, Rows, RowsOpen, RowsFollow, TerminalStatuses
<1>2. TypeOK /\ Shape /\ Rows /\ [Next]_vars => Rows'
  <2> SUFFICES ASSUME TypeOK, Shape, Rows, [Next]_vars PROVE Rows'
    BY Zenon
  <2>1. CASE UNCHANGED vars
    BY <2>1, Zenon DEF Rows, RowsOpen, RowsFollow, vars, mem, disk
  <2>2. CASE Next
    BY <2>2, RunStepRows, OtherStepRows, Zenon DEF Next
  <2> QED
    BY <2>1, <2>2, Zenon
<1> QED
  BY <1>1, <1>2, TypeCorrect, ShapeInvariant, PTL DEF Spec

\* A status a caller can read is already durable as long as no store call
\* failed: a crash never takes back an answer.
THEOREM DurableBeforeVisibleHolds == Spec => []DurableBeforeVisible
<1>1. Rows => DurableBeforeVisible
  BY Zenon DEF Rows, RowsFollow, DurableBeforeVisible, Up
<1> QED
  BY <1>1, RowsInvariant, PTL

\* After Close no lock, permit or goroutine is left and, without store
\* errors, no row that the next process would call interrupted.
THEOREM CleanCloseHolds == Spec => []CleanClose
<1>1. TypeOK /\ Shape /\ Rows /\ PermitsAccounted => CleanClose
  <2> SUFFICES ASSUME TypeOK, Shape, Rows, PermitsAccounted, proc = "stopped"
               PROVE  /\ mu = NoRun /\ sem = 0
                      /\ \A r \in Runs : pc[r] \in {"none", "gone"} /\ status[r] \notin LiveStatuses
                      /\ faults = 0 => \A r \in Runs : ~Stale(r)
    BY Zenon DEF CleanClose
  <2>1. mu = NoRun /\ \A r \in Runs : pc[r] \in {"none", "gone"}
    BY Zenon DEF Shape, Quiet, Up
  <2>2. Holders = {}
    BY <2>1, Zenon DEF Holders
  <2>3. sem = 0
    BY <2>2, FS_EmptySet, Zenon DEF PermitsAccounted
  <2>4. \A r \in Runs : status[r] \notin LiveStatuses
    BY <2>1, NoRunAssumption, Zenon DEF Shape, OwnerDecides, LiveStatuses, TerminalStatuses
  <2>5. faults = 0 => \A r \in Runs : ~Stale(r)
    BY <2>1, <2>4, NoRunAssumption, Zenon DEF Rows, RowsFollow, Stale
  <2> QED
    BY <2>1, <2>3, <2>4, <2>5, Zenon
<1> QED
  BY <1>1, TypeCorrect, ShapeInvariant, RowsInvariant, PermitsAccountedHolds, PTL

\* A terminal status never changes, in memory or in the store, over every
\* process that opens the store and whatever store calls fail.
THEOREM TerminalForeverHolds == Spec => TerminalForever
<1> DEFINE Keeps(r) == /\ row[r] \in TerminalStatuses => row'[r] = row[r]
                       /\ status[r] \in TerminalStatuses => status'[r] \in {status[r], "none"}
<1>1. TypeOK /\ Shape /\ Rows /\ [Next]_vars => [\A r \in Runs : Keeps(r)]_vars
  <2> SUFFICES ASSUME TypeOK, Shape, Rows, Next, NEW r \in Runs PROVE Keeps(r)
    BY Zenon DEF vars
  <2> USE DEF mem, disk, TypeOK
  <2>1. ASSUME NEW q \in Runs, RunStep(q) PROVE Keeps(r)
    <3>1. CASE Acquire(q) \/ LeaveQueue(q) \/ CheckLife(q) \/ Deadline(q) \/ Release(q)
      BY <3>1, Zenon DEF Acquire, LeaveQueue, CheckLife, Deadline, Release
    <3>2. CASE \E report \in Reports : Return(q, report)
      BY <3>2, Zenon DEF Return
    <3>3. ASSUME NEW ok \in BOOLEAN, Start(q, ok) \/ BeginRun(q, ok) \/ RecordEvent(q, ok) \/ Finish(q, ok)
          PROVE  Keeps(r)
      BY <3>3, Zenon DEF Start, BeginRun, RecordEvent, Finish, Transition, canTransition, TerminalStatuses
    <3>4. ASSUME NEW ok \in BOOLEAN, Persist(q, ok) PROVE Keeps(r)
      BY <3>4, Zenon DEF Persist, Rows, RowsOpen
    <3> QED
      BY <2>1, <3>1, <3>2, <3>3, <3>4, Zenon DEF RunStep
  <2>2. ASSUME NEW q \in Runs, CallStep(q) PROVE Keeps(r)
    BY <2>2, Zenon DEF CallStep, Cancel, CancelAnswer, CancelSettle, Lookup, LoadRuns, TerminalStatuses
  <2>3. CASE ProcessStep
    <3>1. CASE Close \/ RootStop \/ CloseStore \/ Crash \/ Reopen \/ RecoveryFails
      BY <3>1, ZenonT(60) DEF Close, RootStop, CloseStore, Crash, Reopen, RecoveryFails, EmptyMemory
    <3>2. ASSUME NEW loaded \in BOOLEAN, MarkInterrupted(loaded) PROVE Keeps(r)
      BY <3>2, Zenon DEF MarkInterrupted, LoadRuns, Stale, LiveStatuses, TerminalStatuses, Shape, Quiet
    <3>3. ASSUME NEW q \in Runs, RecordInterrupted(q) PROVE Keeps(r)
      BY <3>3, Zenon DEF RecordInterrupted
    <3> QED
      BY <2>3, <3>1, <3>2, <3>3, Zenon DEF ProcessStep
  <2> QED
    BY <2>1, <2>2, <2>3, Zenon DEF Next
<1> QED
  BY <1>1, TypeCorrect, ShapeInvariant, RowsInvariant, PTL DEF Spec, TerminalForever

-----------------------------------------------------------------------------
(* Concurrency, and the promise of RunLifecycle.                           *)

RunningRows == {r \in Runs : row[r] = "running"}

\* A row about to be written as running finds fewer than MaxConcurrent
\* running rows: each of them still holds its permit, and so does the writer.
LEMMA RoomToRun ==
  ASSUME TypeOK, Shape, Rows, PermitsAccounted, faults = 0,
         NEW r \in Runs, mu = r, pc[r] = "admitted"
  PROVE  Cardinality(RunningRows) < MaxConcurrent
<1>1. Up
  BY Zenon DEF Shape, LockShape
<1>2. RunningRows \subseteq Holders \ {r}
  <2> SUFFICES ASSUME NEW q \in Runs, row[q] = "running" PROVE q \in Holders \ {r}
    BY Zenon DEF RunningRows
  <2>1. row[r] = "queued"
    BY Zenon DEF Rows, RowsFollow, TerminalStatuses
  <2>2. q # r
    BY <2>1, Zenon
  <2>3. status[q] = "running"
    BY <1>1, <2>2, Zenon DEF Rows, RowsFollow, Up
  <2>4. pc[q] \in {"executing", "finishing"}
    BY <2>2, <2>3, ZenonT(60) DEF Shape, OwnerDecides, TypeOK, Pcs, LiveStatuses, TerminalStatuses
  <2> QED
    BY <2>2, <2>4, Zenon DEF Holders
<1>3. r \in Holders
  BY Zenon DEF Holders
<1>4. IsFiniteSet(Holders \ {r}) /\ Cardinality(Holders \ {r}) = Cardinality(Holders) - 1
  BY <1>3, HoldersFinite, FS_RemoveElement, Zenon
<1>5. Cardinality(RunningRows) <= Cardinality(Holders \ {r}) /\ Cardinality(RunningRows) \in Nat
  BY <1>2, <1>4, FS_Subset, FS_CardinalityType, Zenon
<1> QED
  BY <1>4, <1>5, HoldersFinite, ConcurrencyAssumption DEF PermitsAccounted

\* A step that writes rows is one step of RunLifecycle; every other step
\* leaves the rows alone.
LEMMA StepRefines ==
  ASSUME TypeOK, Shape, Rows, PermitsAccounted, faults = 0, faults' = 0, [Next]_vars
  PROVE  [Lifecycle!Next]_row
<1> USE DEF mem, disk
<1>1. CASE UNCHANGED vars
  BY <1>1, Zenon DEF vars
<1>2. ASSUME NEW r \in Runs, RunStep(r) PROVE [Lifecycle!Next]_row
  <2>1. CASE Acquire(r) \/ LeaveQueue(r) \/ CheckLife(r) \/ Deadline(r) \/ Release(r)
    BY <2>1, Zenon DEF Acquire, LeaveQueue, CheckLife, Deadline, Release
  <2>2. CASE \E report \in Reports : Return(r, report)
    BY <2>2, Zenon DEF Return
  <2>3. ASSUME NEW ok \in BOOLEAN, Start(r, ok) \/ BeginRun(r, ok) \/ RecordEvent(r, ok) \/ Finish(r, ok)
        PROVE  UNCHANGED row
    BY <2>3, Zenon DEF Start, BeginRun, RecordEvent, Finish
  <2>4. ASSUME NEW ok \in BOOLEAN, Persist(r, ok) PROVE [Lifecycle!Next]_row
    <3>1. mu = r /\ Up
      BY <2>4, Zenon DEF Persist, Shape, LockShape
    <3>2. storeOpen = TRUE
      BY <3>1, Zenon DEF Rows, RowsFollow, Up
    <3>3. ok = TRUE
      BY <2>4 DEF Persist, StoreOutcome
    <3>4. row' = [row EXCEPT ![r] = status[r]]
      BY <2>4, <3>2, <3>3, Zenon DEF Persist
    <3>5. CASE pc[r] = "none"
      <4>1. Lifecycle!Accept(r)
        BY <3>1, <3>4, <3>5, Zenon DEF Lifecycle!Accept, Rows, RowsFollow, Shape, LockShape
      <4> QED
        BY <4>1, Zenon DEF Lifecycle!Next
    <3>6. CASE pc[r] = "admitted"
      <4>1. Lifecycle!Cardinality(Lifecycle!Running) < MaxConcurrent
        <5>1. \A S : Lifecycle!Cardinality(S) = Cardinality(S)
          BY Zenon DEF Lifecycle!Cardinality, Cardinality
        <5> QED
          BY <3>1, <3>6, <5>1, RoomToRun, Zenon DEF Lifecycle!Running, RunningRows
      <4>2. Lifecycle!Begin(r)
        BY <3>1, <3>4, <3>6, <4>1, Zenon DEF Lifecycle!Begin, Rows, RowsFollow, Shape, LockShape
      <4> QED
        BY <4>2, Zenon DEF Lifecycle!Next
    <3>7. CASE pc[r] \in {"finishing", "quitting"}
      <4>1. /\ canTransition(row[r], status[r])
            /\ status[r] \in TerminalStatuses \ {"interrupted"}
        BY <3>1, <3>7, Zenon DEF Rows, RowsFollow, Shape, LockShape
      <4>2. Lifecycle!Withdraw(r) \/ Lifecycle!End(r)
        BY <3>4, <4>1, Zenon DEF canTransition, TerminalStatuses, Lifecycle!Withdraw, Lifecycle!End,
                          Lifecycle!Terminal
      <4> QED
        BY <4>2, Zenon DEF Lifecycle!Next
    <3> QED
      BY <3>1, <3>5, <3>6, <3>7, Zenon DEF Shape, LockShape
  <2> QED
    BY <1>2, <2>1, <2>2, <2>3, <2>4, Zenon DEF RunStep
<1>3. ASSUME NEW r \in Runs, CallStep(r) PROVE [Lifecycle!Next]_row
  BY <1>3, Zenon DEF CallStep, Cancel, CancelAnswer, CancelSettle, Lookup
<1>4. CASE ProcessStep
  <2>1. CASE Close \/ RootStop \/ CloseStore \/ Crash \/ Reopen \/ RecoveryFails
             \/ \E r \in Runs : RecordInterrupted(r)
    BY <2>1, ZenonT(60) DEF Close, RootStop, CloseStore, Crash, Reopen, RecoveryFails, RecordInterrupted
  <2>2. ASSUME NEW loaded \in BOOLEAN, MarkInterrupted(loaded) PROVE Lifecycle!Restart
    BY <2>2, Zenon DEF MarkInterrupted, Stale, LiveStatuses, Lifecycle!Restart, Lifecycle!Live
  <2> QED
    BY <1>4, <2>1, <2>2, Zenon DEF ProcessStep, Lifecycle!Next
<1> QED
  BY <1>1, <1>2, <1>3, <1>4, Zenon DEF Next

\* When every store call succeeds, the rows of agent_runs implement
\* RunLifecycle through any number of crashes: legal transitions only, at
\* most MaxConcurrent running, interruption by restart alone.
THEOREM RefinementHolds ==
  ASSUME MaxFaults = 0
  PROVE  Spec => RefinesLifecycle
<1>1. Init => Lifecycle!Init
  BY Zenon DEF Init, Lifecycle!Init
<1>2. TypeOK /\ faults = 0 /\ [Next]_vars => (faults = 0)'
  <2> SUFFICES ASSUME TypeOK, faults = 0, [Next]_vars PROVE faults' = 0
    BY Zenon
  <2> USE DEF mem, disk
  <2>1. CASE UNCHANGED vars
    BY <2>1, Zenon DEF vars
  <2>2. ASSUME NEW r \in Runs, RunStep(r) \/ CallStep(r) PROVE faults' = 0
    <3>1. ASSUME NEW ok \in BOOLEAN, StoreOutcome(ok) PROVE faults' = 0
      BY <3>1 DEF StoreOutcome
    <3>2. CASE Acquire(r) \/ LeaveQueue(r) \/ CheckLife(r) \/ Deadline(r) \/ Release(r) \/ CallStep(r)
      BY <3>2, Zenon DEF Acquire, LeaveQueue, CheckLife, Deadline, Release, CallStep, Cancel,
                  CancelAnswer, CancelSettle, Lookup
    <3>3. CASE \E report \in Reports : Return(r, report)
      BY <3>3, Zenon DEF Return
    <3>4. ASSUME NEW ok \in BOOLEAN, Start(r, ok) PROVE faults' = 0
      BY <3>1, <3>4, Zenon DEF Start, Transition, AppendEvent
    <3>5. ASSUME NEW ok \in BOOLEAN, BeginRun(r, ok) PROVE faults' = 0
      BY <3>1, <3>5, Zenon DEF BeginRun, Transition, AppendEvent
    <3>6. ASSUME NEW ok \in BOOLEAN, RecordEvent(r, ok) PROVE faults' = 0
      BY <3>1, <3>6, Zenon DEF RecordEvent, Transition, AppendEvent
    <3>7. ASSUME NEW ok \in BOOLEAN, Finish(r, ok) PROVE faults' = 0
      BY <3>1, <3>7, Zenon DEF Finish, Transition, AppendEvent
    <3>8. ASSUME NEW ok \in BOOLEAN, Persist(r, ok) PROVE faults' = 0
      BY <3>1, <3>8, Zenon DEF Persist
    <3> QED
      BY <2>2, <3>2, <3>3, <3>4, <3>5, <3>6, <3>7, <3>8, Zenon DEF RunStep
  <2>3. CASE ProcessStep
    <3>1. ~ (faults < MaxFaults)
      OBVIOUS
    <3>2. ~RecoveryFails
      BY <3>1, Zenon DEF RecoveryFails, StoreOutcome
    <3>3. ASSUME NEW loaded \in BOOLEAN, MarkInterrupted(loaded) PROVE faults' = 0
      BY <3>1, <3>3, Zenon DEF MarkInterrupted, StoreOutcome
    <3> QED
      BY <2>3, <3>2, <3>3, Zenon DEF ProcessStep, Close, RootStop, CloseStore, Crash, Reopen,
                              RecordInterrupted
  <2> QED
    BY <2>1, <2>2, <2>3, Zenon DEF Next
<1>3. Init => faults = 0
  BY Zenon DEF Init
<1>4. Spec => [](faults = 0)
  BY <1>2, <1>3, TypeCorrect, PTL DEF Spec
<1>5. TypeOK /\ Shape /\ Rows /\ PermitsAccounted /\ faults = 0 /\ (faults = 0)' /\ [Next]_vars
        => [Lifecycle!Next]_row
  BY StepRefines, Zenon
<1> QED
  BY <1>1, <1>4, <1>5, TypeCorrect, ShapeInvariant, RowsInvariant, PermitsAccountedHolds, PTL
     DEF Spec, RefinesLifecycle, Lifecycle!Spec

RunningRowsBounded == faults = 0 => Cardinality(RunningRows) <= MaxConcurrent

\* Fewer running rows stay within the bound.
LEMMA RunningRowsShrink ==
  ASSUME RunningRowsBounded, faults' = 0 => faults = 0, RunningRows' \subseteq RunningRows
  PROVE  RunningRowsBounded'
<1>1. IsFiniteSet(RunningRows)
  BY RunsAssumption, FS_Subset, Zenon DEF RunningRows
<1>2. /\ Cardinality(RunningRows') \in Nat /\ Cardinality(RunningRows) \in Nat
      /\ Cardinality(RunningRows') <= Cardinality(RunningRows)
  BY <1>1, FS_Subset, FS_CardinalityType, Zenon
<1> QED
  BY <1>2, ConcurrencyAssumption DEF RunningRowsBounded

\* Only the upsert of an admitted run adds a running row, and RoomToRun says
\* that there is room for it.
LEMMA PersistBounded ==
  ASSUME TypeOK, Shape, Rows, PermitsAccounted, RunningRowsBounded,
         NEW r \in Runs, NEW ok \in BOOLEAN, Persist(r, ok)
  PROVE  RunningRowsBounded'
<1>1. faults' = 0 => faults = 0
  BY DEF Persist, StoreOutcome, TypeOK
<1>2. CASE pc[r] = "admitted" /\ faults = 0
  <2>1. Cardinality(RunningRows) < MaxConcurrent
    BY <1>2, RoomToRun, Zenon DEF Persist
  <2>2. RunningRows' \subseteq RunningRows \cup {r} /\ IsFiniteSet(RunningRows)
    BY RunsAssumption, FS_Subset, Zenon DEF Persist, RunningRows, TypeOK
  <2>3. /\ IsFiniteSet(RunningRows \cup {r}) /\ Cardinality(RunningRows) \in Nat
        /\ Cardinality(RunningRows \cup {r}) <= Cardinality(RunningRows) + 1
    <3>1. Cardinality(RunningRows) \in Nat
      BY <2>2, FS_CardinalityType, Zenon
    <3>2. /\ IsFiniteSet(RunningRows \cup {r})
          /\ \/ Cardinality(RunningRows \cup {r}) = Cardinality(RunningRows)
             \/ Cardinality(RunningRows \cup {r}) = Cardinality(RunningRows) + 1
      BY <2>2, FS_AddElement, Zenon
    <3> QED
      BY <3>1, <3>2
  <2>4. /\ Cardinality(RunningRows') <= Cardinality(RunningRows \cup {r})
        /\ Cardinality(RunningRows') \in Nat /\ Cardinality(RunningRows \cup {r}) \in Nat
    BY <2>2, <2>3, FS_Subset, FS_CardinalityType, Zenon
  <2> QED
    BY <2>1, <2>3, <2>4, ConcurrencyAssumption DEF RunningRowsBounded
<1>3. CASE pc[r] # "admitted"
  <2>1. status[r] # "running"
    BY <1>3, Zenon DEF Persist, Shape, LockShape, TerminalStatuses
  <2>2. RunningRows' \subseteq RunningRows
    BY <2>1, Zenon DEF Persist, RunningRows, TypeOK
  <2> QED
    BY <1>1, <2>2, RunningRowsShrink, Zenon
<1>4. CASE faults # 0
  BY <1>1, <1>4, Zenon DEF RunningRowsBounded
<1> QED
  BY <1>2, <1>3, <1>4, Zenon

\* At most MaxConcurrent runs are running, in the map always and in the
\* durable rows as long as no store call failed.
THEOREM BoundedConcurrencyHolds == Spec => []BoundedConcurrency
<1>1. Init => RunningRowsBounded
  <2>1. Init => RunningRows = {}
    BY Zenon DEF Init, RunningRows
  <2> QED
    BY <2>1, FS_EmptySet, ConcurrencyAssumption DEF RunningRowsBounded
<1>2. TypeOK /\ Shape /\ Rows /\ PermitsAccounted /\ RunningRowsBounded /\ [Next]_vars
        => RunningRowsBounded'
  <2> SUFFICES ASSUME TypeOK, Shape, Rows, PermitsAccounted, RunningRowsBounded, [Next]_vars
               PROVE  RunningRowsBounded'
    BY Zenon
  <2> USE DEF mem, disk
  <2> DEFINE Fewer == (faults' = 0 => faults = 0) /\ RunningRows' \subseteq RunningRows
  <2>1. CASE UNCHANGED vars
    BY <2>1, Zenon DEF RunningRowsBounded, RunningRows, vars
  <2>2. ASSUME NEW r \in Runs, RunStep(r) PROVE RunningRowsBounded'
    <3>1. CASE Acquire(r) \/ LeaveQueue(r) \/ CheckLife(r) \/ Deadline(r) \/ Release(r)
      BY <3>1, Zenon DEF Acquire, LeaveQueue, CheckLife, Deadline, Release, RunningRowsBounded, RunningRows
    <3>2. CASE \E report \in Reports : Return(r, report)
      BY <3>2, Zenon DEF Return, RunningRowsBounded, RunningRows
    <3>3. ASSUME NEW ok \in BOOLEAN, Start(r, ok) \/ BeginRun(r, ok) \/ RecordEvent(r, ok) \/ Finish(r, ok)
          PROVE  Fewer
      <4>1. ASSUME row' = row PROVE RunningRows' \subseteq RunningRows
        BY <4>1, Zenon DEF RunningRows
      <4>2. ASSUME StoreOutcome(ok) PROVE faults' = 0 => faults = 0
        BY <4>2 DEF StoreOutcome, TypeOK
      <4>3. CASE Start(r, ok)
        BY <4>1, <4>2, <4>3, Zenon DEF Start, Transition, AppendEvent
      <4>4. CASE BeginRun(r, ok)
        BY <4>1, <4>2, <4>4, Zenon DEF BeginRun, Transition, AppendEvent
      <4>5. CASE RecordEvent(r, ok)
        BY <4>1, <4>2, <4>5, Zenon DEF RecordEvent, AppendEvent
      <4>6. CASE Finish(r, ok)
        BY <4>1, <4>2, <4>6, Zenon DEF Finish, Transition, AppendEvent
      <4> QED
        BY <3>3, <4>3, <4>4, <4>5, <4>6, Zenon
    <3>4. ASSUME NEW ok \in BOOLEAN, Persist(r, ok) PROVE RunningRowsBounded'
      BY <3>4, PersistBounded, Zenon
    <3> QED
      BY <2>2, <3>1, <3>2, <3>3, <3>4, RunningRowsShrink, Zenon DEF RunStep
  <2>3. ASSUME NEW r \in Runs, CallStep(r) PROVE RunningRowsBounded'
    BY <2>3, Zenon DEF CallStep, Cancel, CancelAnswer, CancelSettle, Lookup, RunningRowsBounded, RunningRows
  <2>4. CASE ProcessStep
    <3>1. CASE Close \/ RootStop \/ CloseStore \/ Crash \/ Reopen \/ \E r \in Runs : RecordInterrupted(r)
      BY <3>1, Zenon DEF Close, RootStop, CloseStore, Crash, Reopen, RecordInterrupted,
                  RunningRowsBounded, RunningRows
    <3>2. CASE RecoveryFails
      BY <3>2 DEF RecoveryFails, StoreOutcome, TypeOK, RunningRowsBounded
    <3>3. ASSUME NEW loaded \in BOOLEAN, MarkInterrupted(loaded) PROVE Fewer
      BY <3>3 DEF MarkInterrupted, StoreOutcome, TypeOK, RunningRows
    <3> QED
      BY <2>4, <3>1, <3>2, <3>3, RunningRowsShrink, Zenon DEF ProcessStep
  <2> QED
    BY <2>1, <2>2, <2>3, <2>4, Zenon DEF Next
<1>3. TypeOK /\ Shape /\ PermitsAccounted /\ RunningRowsBounded => BoundedConcurrency
  <2> SUFFICES ASSUME TypeOK, Shape, PermitsAccounted, RunningRowsBounded
               PROVE  BoundedConcurrency
    BY Zenon
  <2> DEFINE RunningNow == {r \in Runs : status[r] = "running"}
  <2>1. RunningNow \subseteq Holders
    BY Zenon DEF Shape, OwnerDecides, LockShape, Holders, TypeOK, Pcs, TerminalStatuses
  <2>2. /\ Cardinality(RunningNow) <= Cardinality(Holders)
        /\ Cardinality(RunningNow) \in Nat
    BY <2>1, HoldersFinite, FS_Subset, FS_CardinalityType, Zenon
  <2>3. Cardinality(RunningNow) <= MaxConcurrent
    BY <2>2, HoldersFinite, ConcurrencyAssumption DEF PermitsAccounted
  <2> QED
    BY <2>3, Zenon DEF BoundedConcurrency, RunningRowsBounded, RunningRows
<1> QED
  BY <1>1, <1>2, <1>3, TypeCorrect, ShapeInvariant, RowsInvariant, PermitsAccountedHolds, PTL DEF Spec
-----------------------------------------------------------------------------
(* The journal.                                                            *)

\* The last lifecycle event of a journal is the status s, at its end if s is terminal.
Tells(j, s) ==
  \E i \in DOMAIN j : /\ j[i] = s
                      /\ \A k \in i + 1 .. Len(j) : j[k] = "harness"
                      /\ s \in TerminalStatuses => i = Len(j)
\* The journal tells the status in memory, also while the lock is held between the
\* two writes, a terminal row, and what recovery is about to write to a row.
RunTold(r) ==
  /\ \A i \in DOMAIN journal[r] : journal[r][i] # "missing"
  /\ Up /\ status[r] # "none" => seq[r] = Len(journal[r]) /\ Tells(journal[r], status[r])
  /\ row[r] \in TerminalStatuses => Tells(journal[r], row[r])
  /\ proc = "recovering" /\ r \in marked => Tells(journal[r], "interrupted")
JournalInv ==
  /\ \A r \in Runs : status[r] = "none" => seq[r] = 0
  /\ faults = 0 => \A r \in Runs : RunTold(r)

\* The count of store errors never falls, and an error raises it.
LEMMA OutcomeCounted ==
  ASSUME TypeOK, NEW ok \in BOOLEAN, StoreOutcome(ok), faults' = 0
  PROVE  faults = 0 /\ ok
BY DEF StoreOutcome, TypeOK

\* An event at the end of a journal: it is the last one, and a progress line leaves
\* the one before it the last lifecycle event.
LEMMA AppendTells ==
  ASSUME NEW j \in Seq(Kinds), NEW kind \in Kinds \ {"missing"},
         \A i \in DOMAIN j : j[i] # "missing"
  PROVE  /\ Tells(Append(j, kind), kind)
         /\ \A s : kind = "harness" /\ s \notin TerminalStatuses /\ Tells(j, s) =>
                     Tells(Append(j, kind), s)
         /\ \A i \in DOMAIN Append(j, kind) : Append(j, kind)[i] # "missing"
         /\ Len(Append(j, kind)) = Len(j) + 1
<1> DEFINE a == Append(j, kind)
           n == Len(j)
<1>1. /\ n \in Nat /\ Len(a) = n + 1 /\ DOMAIN a = 1..(n + 1) /\ DOMAIN j = 1..n
      /\ a[n + 1] = kind /\ \A i \in 1..n : a[i] = j[i]
  OBVIOUS
<1> HIDE DEF a, n
<1>2. Tells(a, kind)
  <2>1. n + 1 \in DOMAIN a /\ \A k \in (n + 1) + 1 .. Len(a) : FALSE
    BY <1>1
  <2> QED
    BY <1>1, <2>1, Zenon DEF Tells
<1>3. ASSUME NEW s, kind = "harness", s \notin TerminalStatuses, Tells(j, s) PROVE Tells(a, s)
  <2>1. PICK i \in 1..n : j[i] = s /\ \A k \in i + 1 .. n : j[k] = "harness"
    BY <1>1, <1>3, Zenon DEF Tells, n
  <2>2. i \in DOMAIN a /\ a[i] = s
    BY <1>1, <2>1
  <2>3. ASSUME NEW k \in i + 1 .. Len(a) PROVE a[k] = "harness"
    BY <1>1, <1>3, <2>1
  <2> QED
    BY <1>3, <2>2, <2>3, Zenon DEF Tells
<1>4. \A i \in DOMAIN a : a[i] # "missing"
  BY <1>1
<1> QED
  BY <1>1, <1>2, <1>3, <1>4, Zenon DEF a, n

\* appendRuntimeEventLocked without an error puts one event at the end of the journal.
LEMMA AppendEventTells ==
  ASSUME TypeOK, NEW r \in Runs, NEW kind, NEW ok \in BOOLEAN, AppendEvent(r, kind, ok),
         faults' = 0, faults = 0 => storeOpen = TRUE /\ seq[r] = Len(journal[r])
  PROVE  /\ faults = 0 /\ journal' = [journal EXCEPT ![r] = Append(journal[r], kind)]
         /\ seq'[r] = Len(journal[r]) + 1
<1>1. faults = 0 /\ ok
  BY OutcomeCounted, Zenon DEF AppendEvent
<1>2. journal[r] \in Seq(Kinds) /\ seq[r] = Len(journal[r])
  BY <1>1, Zenon DEF TypeOK
<1>3. Padded(journal[r], seq[r]) = journal[r]
  BY <1>2 DEF Padded
<1> QED
  BY <1>1, <1>2, <1>3, Zenon DEF AppendEvent, TypeOK


\* A step that touches no journal and no status.
LEMMA StepAsideTells ==
  ASSUME JournalInv, UNCHANGED <<status, seq, journal, row>>, faults' = 0 => faults = 0,
         Up' => Up, proc' = "recovering" => proc = "recovering" /\ marked' \subseteq marked
  PROVE  JournalInv'
<1>1. ASSUME NEW q \in Runs, faults = 0 PROVE RunTold(q)'
  <2>1. RunTold(q)
    BY <1>1, Zenon DEF JournalInv
  <2> QED
    BY <2>1, Zenon DEF RunTold
<1> QED
  BY <1>1, Zenon DEF JournalInv

\* One event at the end of the journal of r, number and table in step, and the
\* status told by the new journal.
LEMMA EventTells ==
  ASSUME TypeOK, Rows, JournalInv, NEW r \in Runs, NEW kind \in Kinds \ {"missing"},
         NEW ok \in BOOLEAN, AppendEvent(r, kind, ok), UNCHANGED <<proc, row, marked>>, Up,
         row[r] \notin TerminalStatuses, status[r] = "none" => journal[r] = <<>>,
         NEW to \in Statuses, status' = [status EXCEPT ![r] = to],
         kind = to \/ (kind = "harness" /\ status[r] = to /\ to \notin TerminalStatuses)
  PROVE  JournalInv'
<1>1. seq' = [seq EXCEPT ![r] = @ + 1] /\ to # "none"
  BY Zenon DEF AppendEvent, Statuses, LiveStatuses, TerminalStatuses
<1>2. \A q \in Runs : status'[q] = "none" => seq'[q] = 0
  BY <1>1, Zenon DEF JournalInv, TypeOK
<1>3. ASSUME faults' = 0 PROVE JournalInv'
  <2>1. faults = 0 => storeOpen = TRUE /\ seq[r] = Len(journal[r])
    <3>1. faults = 0 => storeOpen = TRUE
      BY Zenon DEF Rows, RowsFollow, Up
    <3>2. faults = 0 => seq[r] = Len(journal[r])
      <4>1. CASE status[r] = "none"
        BY <4>1, Zenon DEF JournalInv
      <4>2. CASE status[r] # "none"
        BY <4>2, Zenon DEF JournalInv, RunTold
      <4> QED
        BY <4>1, <4>2, Zenon
    <3> QED
      BY <3>1, <3>2, Zenon
  <2>2. /\ faults = 0 /\ journal' = [journal EXCEPT ![r] = Append(journal[r], kind)]
        /\ seq'[r] = Len(journal[r]) + 1
    BY <1>3, <2>1, AppendEventTells, Zenon
  <2>3. RunTold(r) /\ \A q \in Runs : RunTold(q)
    BY <2>2, Zenon DEF JournalInv
  <2>4. journal[r] \in Seq(Kinds) /\ \A i \in DOMAIN journal[r] : journal[r][i] # "missing"
    BY <2>3, Zenon DEF TypeOK, RunTold
  <2> DEFINE a == Append(journal[r], kind)
  <2>5. /\ Tells(a, kind) /\ Len(a) = Len(journal[r]) + 1
        /\ \A i \in DOMAIN a : a[i] # "missing"
        /\ \A s : kind = "harness" /\ s \notin TerminalStatuses /\ Tells(journal[r], s) => Tells(a, s)
    BY <2>4, AppendTells, Zenon
  <2>6. /\ journal'[r] = a /\ status'[r] = to
        /\ \A q \in Runs \ {r} : journal'[q] = journal[q] /\ status'[q] = status[q] /\ seq'[q] = seq[q]
    BY <1>1, <2>2, Zenon DEF TypeOK
  <2> HIDE DEF a
  <2>7. Tells(a, to)
    BY <1>1, <2>3, <2>5, Zenon DEF RunTold
  <2>8. RunTold(r)'
    <3>1. row'[r] \notin TerminalStatuses /\ proc' # "recovering"
      BY Zenon DEF Up
    <3>2. seq'[r] = Len(journal'[r]) /\ Tells(journal'[r], status'[r])
      BY <2>2, <2>5, <2>6, <2>7, Zenon
    <3>3. \A i \in DOMAIN journal'[r] : journal'[r][i] # "missing"
      BY <2>5, <2>6, Zenon
    <3> QED
      BY <3>1, <3>2, <3>3, Zenon DEF RunTold
  <2>9. ASSUME NEW q \in Runs \ {r} PROVE RunTold(q)'
    <3>1. journal'[q] = journal[q] /\ status'[q] = status[q] /\ seq'[q] = seq[q] /\ RunTold(q)
      BY <2>3, <2>6, Zenon
    <3>2. row' = row /\ proc' = proc /\ marked' = marked
      BY Zenon
    <3> QED
      BY <3>1, <3>2, Zenon DEF RunTold, Up
  <2> QED
    BY <1>2, <2>8, <2>9, Zenon DEF JournalInv
<1>4. ASSUME faults' # 0 PROVE JournalInv'
  BY <1>2, <1>4, Zenon DEF JournalInv
<1> QED
  BY <1>3, <1>4, Zenon

\* The steps of a goroutine: the transitions and the progress lines append one
\* event, Persist makes the row what the journal already tells.
LEMMA RunStepJournal ==
  ASSUME TypeOK, Shape, Rows, JournalInv, NEW r \in Runs, RunStep(r)
  PROVE  JournalInv'
<1>1. CASE Acquire(r) \/ LeaveQueue(r) \/ CheckLife(r) \/ Deadline(r) \/ Release(r)
  <2>1. UNCHANGED <<status, seq, journal, row, faults, proc, marked>>
    BY <1>1, Zenon DEF Acquire, LeaveQueue, CheckLife, Deadline, Release, disk
  <2> QED
    BY <2>1, StepAsideTells, Zenon DEF Up
<1>2. ASSUME NEW report \in Reports, Return(r, report)
      PROVE  JournalInv'
  <2>1. UNCHANGED <<status, seq, journal, row, faults, proc, marked>>
    BY <1>2, Zenon DEF Return, disk
  <2> QED
    BY <2>1, StepAsideTells, Zenon DEF Up
<1>3. ASSUME NEW ok \in BOOLEAN, Start(r, ok)
      PROVE  JournalInv'
  <2>1. /\ AppendEvent(r, "queued", ok) /\ UNCHANGED <<proc, row, marked>> /\ Up
        /\ status' = [status EXCEPT ![r] = "queued"] /\ journal[r] = <<>>
        /\ row[r] \notin TerminalStatuses
    BY <1>3, Zenon DEF Start, Transition, Up, TerminalStatuses
  <2>2. "queued" \in Kinds \ {"missing"} /\ "queued" \in Statuses
    BY Zenon DEF Kinds, Statuses, LiveStatuses
  <2> QED
    BY <1>3, <2>1, <2>2, EventTells, Zenon
<1>4. ASSUME NEW ok \in BOOLEAN, BeginRun(r, ok)
      PROVE  JournalInv'
  <2>1. /\ AppendEvent(r, "running", ok) /\ UNCHANGED <<proc, row, marked>>
        /\ status' = [status EXCEPT ![r] = "running"]
        /\ pc[r] = "admitted" /\ status[r] # "none"
    BY <1>4, Zenon DEF BeginRun, Transition, canTransition
  <2>2. Up /\ row[r] \notin TerminalStatuses
    BY <2>1, Zenon DEF TypeOK, Shape, Quiet, Up, Rows, RowsOpen
  <2>3. "running" \in Kinds \ {"missing"} /\ "running" \in Statuses
    BY Zenon DEF Kinds, Statuses, LiveStatuses
  <2> QED
    BY <1>4, <2>1, <2>2, <2>3, EventTells, Zenon
<1>5. ASSUME NEW ok \in BOOLEAN, RecordEvent(r, ok)
      PROVE  JournalInv'
  <2>1. /\ AppendEvent(r, "harness", ok) /\ UNCHANGED <<proc, row, marked, status>>
        /\ pc[r] = "executing" /\ mu = NoRun /\ status[r] \notin TerminalStatuses
    BY <1>5, Zenon DEF RecordEvent
  <2>2. Up /\ row[r] \notin TerminalStatuses
    BY <2>1, Zenon DEF TypeOK, Shape, Quiet, Up, Rows, RowsOpen
  <2>3. status[r] = "running"
    BY <2>1, NoRunAssumption, Zenon DEF Shape, OwnerDecides
  <2>4. /\ "harness" \in Kinds \ {"missing"} /\ "running" \in Statuses
        /\ status' = [status EXCEPT ![r] = "running"]
    BY <2>1, <2>3, Zenon DEF Kinds, Statuses, LiveStatuses, TypeOK
  <2> QED
    BY <1>5, <2>1, <2>2, <2>3, <2>4, EventTells, Zenon
<1>6. ASSUME NEW ok \in BOOLEAN, Finish(r, ok)
      PROVE  JournalInv'
  <2> DEFINE to == Landing(status[r], verdict[r])
  <2>1. /\ AppendEvent(r, to, ok) /\ UNCHANGED <<proc, row, marked>>
        /\ status' = [status EXCEPT ![r] = to] /\ mu = NoRun
        /\ pc[r] \in {"finishing", "quitting"}
    BY <1>6, Zenon DEF Finish, Transition
  <2>2. Up /\ row[r] \notin TerminalStatuses
    BY <2>1, Zenon DEF TypeOK, Shape, Quiet, Up, Rows, RowsOpen
  <2>3. status[r] # "none"
    BY <2>1, NoRunAssumption, Zenon DEF Shape, OwnerDecides, LiveStatuses
  <2>4. to \in Statuses /\ to \in Kinds \ {"missing"}
    BY Zenon DEF Landing, TypeOK, Kinds, Statuses, TerminalStatuses, LiveStatuses
  <2> HIDE DEF to
  <2> QED
    BY <1>6, <2>1, <2>2, <2>3, <2>4, EventTells, Zenon
<1>7. ASSUME NEW ok \in BOOLEAN, Persist(r, ok)
      PROVE  JournalInv'
  <2>1. /\ mu = r /\ UNCHANGED <<proc, status, seq, journal, marked>> /\ StoreOutcome(ok)
        /\ (row' = [row EXCEPT ![r] = status[r]]) \/ row' = row
    BY <1>7, Zenon DEF Persist
  <2>2. Up /\ status[r] # "none"
    BY <2>1, Zenon DEF Shape, LockShape, TerminalStatuses
  <2>3. faults' = 0 => faults = 0
    BY <2>1, OutcomeCounted, Zenon
  <2>4. ASSUME NEW q \in Runs, faults' = 0 PROVE RunTold(q)'
    <3>1. RunTold(q)
      BY <2>3, <2>4, Zenon DEF JournalInv
    <3>2. row'[q] = row[q] \/ (q = r /\ row'[q] = status[q])
      BY <2>1, ZenonT(60) DEF TypeOK
    <3> QED
      BY <2>1, <2>2, <3>1, <3>2, Zenon DEF RunTold, Up
  <2> QED
    BY <2>1, <2>4, Zenon DEF JournalInv
<1> QED
  BY <1>1, <1>2, <1>3, <1>4, <1>5, <1>6, <1>7, Zenon DEF RunStep

\* The remaining steps; recovery journals an interruption before it marks the row.
LEMMA OtherStepJournal ==
  ASSUME TypeOK, Shape, Rows, JournalInv, ProcessStep \/ \E r \in Runs : CallStep(r)
  PROVE  JournalInv'
<1>1. ASSUME NEW r \in Runs, Cancel(r) \/ CancelAnswer(r) \/ CancelSettle(r)
      PROVE  JournalInv'
  <2>1. UNCHANGED <<status, seq, journal, row, faults, proc, marked>>
    BY <1>1, Zenon DEF Cancel, CancelAnswer, CancelSettle, disk
  <2> QED
    BY <2>1, StepAsideTells, Zenon DEF Up
<1>2. ASSUME NEW r \in Runs, Lookup(r)
      PROVE  JournalInv'
  <2>1. /\ Up /\ mu = NoRun /\ status[r] # row[r] /\ row[r] # "none"
        /\ status' = [q \in Runs |-> IF q \in {r} THEN LoadedStatus(row[q]) ELSE status[q]]
        /\ seq' = [q \in Runs |-> IF q \in {r} THEN Len(journal[q]) ELSE seq[q]]
        /\ UNCHANGED faults
    BY <1>2, Zenon DEF Lookup, LoadRuns
  <2>2. faults # 0
    BY <2>1, NoRunAssumption, Zenon DEF Rows, RowsFollow, Up
  <2>3. \A q \in Runs : status'[q] = "none" => seq'[q] = 0
    BY <2>1, Zenon DEF JournalInv, LoadedStatus
  <2> QED
    BY <2>1, <2>2, <2>3, Zenon DEF JournalInv
<1>3. CASE Close \/ RootStop \/ CloseStore
  <2>1. UNCHANGED <<status, seq, journal, row, faults, marked>> /\ (Up' => Up) /\ proc' # "recovering"
    BY <1>3, Zenon DEF Close, RootStop, CloseStore, mem, disk, Up
  <2> QED
    BY <2>1, StepAsideTells, Zenon
<1>4. CASE Crash \/ Reopen
  <2>1. /\ status' = [r \in Runs |-> "none"] /\ seq' = [r \in Runs |-> 0] /\ marked' = {}
        /\ UNCHANGED <<journal, row, faults>> /\ ~Up'
    BY <1>4, Zenon DEF Crash, Reopen, EmptyMemory, disk, Up
  <2>2. ASSUME NEW q \in Runs, faults = 0 PROVE RunTold(q)'
    <3>1. RunTold(q)
      BY <2>2, Zenon DEF JournalInv
    <3> QED
      BY <2>1, <3>1, Zenon DEF RunTold
  <2> QED
    BY <2>1, <2>2, Zenon DEF JournalInv
<1>5. CASE RecoveryFails
  <2>1. faults' # 0 /\ UNCHANGED <<status, seq>>
    BY <1>5, OutcomeCounted, Zenon DEF RecoveryFails, mem
  <2> QED
    BY <2>1, Zenon DEF JournalInv
<1>6. ASSUME NEW loaded \in BOOLEAN, MarkInterrupted(loaded)
      PROVE  JournalInv'
  <2>1. /\ proc = "recovering" /\ proc' = "open" /\ UNCHANGED journal /\ StoreOutcome(loaded)
        /\ \A q \in Runs : Stale(q) => q \in marked
        /\ \A q \in Runs : row'[q] = IF Stale(q) THEN "interrupted" ELSE row[q]
        /\ \A q \in Runs :
             IF loaded /\ row[q] # "none"
             THEN status'[q] = LoadedStatus(row'[q]) /\ seq'[q] = Len(journal[q])
             ELSE status'[q] = status[q] /\ seq'[q] = seq[q]
    BY <1>6, Zenon DEF MarkInterrupted, LoadRuns
  <2>2. \A q \in Runs : status[q] = "none" /\ seq[q] = 0
    BY <2>1, Zenon DEF Shape, Quiet, JournalInv
  <2>3. \A q \in Runs : /\ row[q] = "none" \/ row[q] \in TerminalStatuses \/ Stale(q)
                        /\ Stale(q) => row[q] # "none" /\ row[q] \notin TerminalStatuses
    BY Zenon DEF TypeOK, Statuses, Stale, LiveStatuses, TerminalStatuses
  <2>4. \A s \in TerminalStatuses : LoadedStatus(s) = s /\ s # "none"
    BY Zenon DEF LoadedStatus, LiveStatuses, TerminalStatuses
  <2>5. "interrupted" \in TerminalStatuses
    BY Zenon DEF TerminalStatuses
  <2>6. \A q \in Runs : status'[q] = "none" => seq'[q] = 0
    BY <2>1, <2>2, <2>3, <2>4, <2>5, Zenon
  <2>7. ASSUME NEW q \in Runs, faults' = 0 PROVE RunTold(q)'
    <3>1. faults = 0
      BY <2>1, <2>7, OutcomeCounted, Zenon
    <3>2. RunTold(q)
      BY <3>1, Zenon DEF JournalInv
    <3>3. row'[q] \in TerminalStatuses => Tells(journal[q], row'[q])
      BY <2>1, <3>2, Zenon DEF RunTold
    <3>4. status'[q] # "none" =>
            status'[q] = row'[q] /\ row'[q] \in TerminalStatuses /\ seq'[q] = Len(journal[q])
      BY <2>1, <2>2, <2>3, <2>4, <2>5, Zenon
    <3>5. proc' # "recovering" /\ journal' = journal
      BY <2>1, Zenon
    <3> QED
      BY <3>2, <3>3, <3>4, <3>5, Zenon DEF RunTold
  <2> QED
    BY <2>6, <2>7, Zenon DEF JournalInv
<1>7. ASSUME NEW r \in Runs, RecordInterrupted(r)
      PROVE  JournalInv'
  <2>1. /\ proc = "recovering" /\ Stale(r) /\ marked' = marked \cup {r}
        /\ journal' = [journal EXCEPT ![r] = Append(journal[r], "interrupted")]
        /\ UNCHANGED <<proc, status, seq, row, faults>>
    BY <1>7, Zenon DEF RecordInterrupted, mem
  <2>2. ~Up' /\ row[r] \notin TerminalStatuses
    BY <2>1, Zenon DEF Up, Stale, LiveStatuses, TerminalStatuses
  <2>3. ASSUME NEW q \in Runs, faults = 0 PROVE RunTold(q)'
    <3>1. RunTold(q)
      BY <2>3, Zenon DEF JournalInv
    <3>2. CASE q = r
      <4>1. /\ journal[r] \in Seq(Kinds) /\ \A i \in DOMAIN journal[r] : journal[r][i] # "missing"
            /\ "interrupted" \in Kinds \ {"missing"}
        BY <3>1, <3>2, Zenon DEF TypeOK, RunTold, Kinds, Statuses, TerminalStatuses
      <4> DEFINE a == Append(journal[r], "interrupted")
      <4>2. Tells(a, "interrupted") /\ \A i \in DOMAIN a : a[i] # "missing"
        BY <4>1, AppendTells, Zenon
      <4>3. journal'[r] = a
        BY <2>1, Zenon DEF TypeOK
      <4> HIDE DEF a
      <4> QED
        BY <2>1, <2>2, <3>2, <4>2, <4>3, Zenon DEF RunTold
    <3>3. CASE q # r
      <4>1. journal'[q] = journal[q] /\ row' = row /\ proc' = proc /\ (q \in marked' => q \in marked)
        BY <2>1, <3>3, Zenon DEF TypeOK
      <4> QED
        BY <2>2, <3>1, <4>1, Zenon DEF RunTold
    <3> QED
      BY <3>2, <3>3, Zenon
  <2> QED
    BY <2>1, <2>3, Zenon DEF JournalInv
<1> QED
  BY <1>1, <1>2, <1>3, <1>4, <1>5, <1>6, <1>7, Zenon DEF ProcessStep, CallStep

\* JournalInv is inductive relative to Shape and Rows.
LEMMA JournalInvariant == Spec => []JournalInv
<1>1. Init => JournalInv
  <2> SUFFICES ASSUME Init PROVE JournalInv
    BY Zenon
  <2>1. \A r \in Runs : /\ status[r] = "none" /\ seq[r] = 0 /\ row[r] \notin TerminalStatuses
                        /\ DOMAIN journal[r] = {} /\ r \notin marked
    BY DEF Init, TerminalStatuses
  <2> QED
    BY <2>1, Zenon DEF JournalInv, RunTold
<1>2. TypeOK /\ Shape /\ Rows /\ JournalInv /\ [Next]_vars => JournalInv'
  <2> SUFFICES ASSUME TypeOK, Shape, Rows, JournalInv, [Next]_vars PROVE JournalInv'
    BY Zenon
  <2>1. CASE UNCHANGED vars
    <3>1. UNCHANGED <<status, seq, journal, row, faults, proc, marked>>
      BY <2>1, Zenon DEF vars, mem, disk
    <3> QED
      BY <3>1, StepAsideTells, Zenon DEF Up
  <2>2. CASE Next
    BY <2>2, RunStepJournal, OtherStepJournal, Zenon DEF Next
  <2> QED
    BY <2>1, <2>2, Zenon
<1> QED
  BY <1>1, <1>2, TypeCorrect, ShapeInvariant, RowsInvariant, PTL DEF Spec

\* The last lifecycle event of a journal is the status a caller can read, and
\* nothing follows a terminal one, over crashes and recoveries alike
\* (transitionLocked, recordEvent, recordInterruptedRunEvents).
THEOREM JournalTellsStatusHolds == Spec => []JournalTellsStatus
<1>1. JournalInv => JournalTellsStatus
  BY Zenon DEF JournalInv, RunTold, Tells, JournalTellsStatus
<1> QED
  BY <1>1, JournalInvariant, PTL

\* Event numbers have no gap and the counter in memory is the head of the table
\* as long as no store call failed (appendRuntimeEventLocked, loadedRunState).
THEOREM JournalContiguousHolds == Spec => []JournalContiguous
<1>1. JournalInv => JournalContiguous
  BY Zenon DEF JournalInv, RunTold, JournalContiguous
<1> QED
  BY <1>1, JournalInvariant, PTL
=============================================================================
