---------------------------- MODULE Client_proofs ----------------------------
(***************************************************************************)
(* Proofs about a tool call at the client: the patches it makes there with *)
(* the checkpoints to undo them, the permission it needs, and the progress *)
(* it shows of the run it waits for.  They hold for any workers, files,    *)
(* patches, callers, deciders and lines.  The three parts have their own   *)
(* variables and assume nothing of each other.                             *)
(***************************************************************************)
EXTENDS PatchStore, ClientPermissions, AgentProgress, TLAPS

(* Patches, checkpoints and rollback *)

PatchSpec == PatchInit /\ [][PatchNext]_patchVars

\* A worker in one of these steps holds writeMu.
Critical == {"checkpoint", "prune", "append", "write", "fill", "undo", "failed",
             "restore", "rolledback", "incomplete"}
IsSeq(s) == Len(s) \in Nat /\ s = [i \in 1..Len(s) |-> s[i]]
\* What files held at one time.
Snapshot(s) ==
  /\ IsSeq(s)
  /\ \A i \in 1..Len(s) : s[i] = [path |-> s[i].path, was |-> s[i].was] /\ s[i].path \in Files
  /\ \A i, j \in 1..Len(s) : s[i].path = s[j].path => s[i].was = s[j].was
Blobbed(s) == \A i \in 1..Len(s) : s[i].was \in blobs \cup {None}

\* A call: the plan is the part of the patch that was gone through.
CallOK(c) ==
  /\ DOMAIN c = DOMAIN Idle /\ c.done \in Nat
  /\ IsSeq(c.patch) /\ (c.patch \in Patches \/ c.patch = <<>>)
  /\ IsSeq(c.plan) /\ Len(c.plan) <= Len(c.patch) /\ \A i \in 1..Len(c.plan) : c.plan[i] = c.patch[i]
  /\ Snapshot(c.saved)
  /\ c.at \in {"idle", "plan", "lock", "relock", "checkpoint", "prune", "append"} => c.done = 0

\* The checkpoint is of the files of the plan, its contents are kept, and from the nth
\* file on it is what the files have now.
Taken(c, n) ==
  /\ Len(c.saved) = Len(c.plan) /\ \A j \in 1..Len(c.plan) : c.saved[j].path = c.plan[j].path
  /\ Blobbed(c.saved)
  /\ \A j \in 1..Len(c.plan) : j >= n => files[c.saved[j].path] = c.saved[j].was
InStore(c) == \E i \in 1..Len(store) : store[i].id = c.cp /\ store[i].files = c.saved
Restored(c, n) == \A i \in 1..n : files[c.saved[i].path] = c.saved[i].was
Progress(c) ==
  /\ c.at \in {"prune", "append"} => Taken(c, 1)
  /\ c.at = "write" => Taken(c, c.done + 1) /\ InStore(c)
  /\ c.at = "fill" => Taken(c, c.done + 2) /\ InStore(c) /\ c.done < Len(c.plan)
  /\ c.at = "undo" => Taken(c, c.done + 2) /\ c.done < Len(c.plan)
  /\ c.at = "failed" =>
       \A i \in 1..Len(c.saved) : i # c.done + 1 => files[c.saved[i].path] = c.saved[i].was
  /\ c.at = "restore" => c.done <= Len(c.saved) /\ Restored(c, c.done)
  /\ c.at = "rolledback" => Restored(c, Len(c.saved))

\* The store, and what may be missing of it.
Retains ==
  /\ IsSeq(store) /\ Len(store) <= Kept
  /\ \A i \in 1..Len(store) : /\ Snapshot(store[i].files)
                              /\ Blobbed(store[i].files) \/ (i = 1 /\ Len(store) = Kept)
PatchInv ==
  /\ files = [f \in Files |-> files[f]] /\ work = [w \in Workers |-> work[w]]
  /\ Retains
  /\ \A w \in Workers : CallOK(work[w]) /\ Progress(work[w])
  /\ \A w \in Workers : work[w].at \in Critical => lock = w

\* A sequence is the function that its elements make.
LEMMA SeqShape ==
  ASSUME NEW S, NEW q \in Seq(S)
  PROVE  IsSeq(q) /\ \A i \in 1..Len(q) : q[i] \in S
<1>1. q \in [1..Len(q) -> S] /\ Len(q) \in Nat
  OBVIOUS
<1> QED
  BY <1>1, Zenon DEF IsSeq

\* What Append adds, and what it keeps: plans and the store grow at the end only.
LEMMA AppendSeq ==
  ASSUME NEW s, IsSeq(s), NEW e
  PROVE  /\ IsSeq(Append(s, e)) /\ Len(Append(s, e)) = Len(s) + 1
         /\ \A i \in 1..Len(s) : Append(s, e)[i] = s[i]
         /\ Append(s, e)[Len(s) + 1] = e
<1> DEFINE S == {s[i] : i \in 1..Len(s)} \cup {e}
<1>1. s \in Seq(S) /\ e \in S
  <2>1. s \in [1..Len(s) -> S] /\ Len(s) \in Nat
    BY Zenon DEF IsSeq
  <2> QED
    BY <2>1
<1> HIDE DEF S
<1>2. /\ Append(s, e) \in Seq(S) /\ Len(Append(s, e)) = Len(s) + 1
      /\ \A i \in 1..Len(s) : Append(s, e)[i] = s[i]
      /\ Append(s, e)[Len(s) + 1] = e
  BY <1>1
<1> QED
  BY <1>2, SeqShape, Zenon

\* What appendCheckpoint writes: the new checkpoint after those of the store, without
\* the oldest if the store is full.
LEMMA RetainedShape ==
  ASSUME IsSeq(store), Len(store) <= Kept, NEW cp
  PROVE  LET r == Retained(Append(store, cp))
             k == IF Len(store) = Kept THEN 1 ELSE 0
         IN /\ IsSeq(r) /\ Len(r) = Len(store) + 1 - k /\ Len(r) <= Kept
            /\ r[Len(r)] = cp /\ \A i \in 1..(Len(r) - 1) : i + k \in 1..Len(store) /\ r[i] = store[i + k]
<1> DEFINE c == Append(store, cp)
<1>0. Len(store) \in Nat /\ Kept \in Nat /\ Kept # 0
  BY PatchAssumption, Zenon DEF IsSeq
<1>1. /\ IsSeq(c) /\ Len(c) = Len(store) + 1 /\ c[Len(store) + 1] = cp
      /\ \A i \in 1..Len(store) : c[i] = store[i]
  BY AppendSeq
<1> HIDE DEF c
<1>2. CASE Len(store) < Kept
  <2>1. Retained(c) = c
    BY <1>0, <1>1, <1>2 DEF Retained
  <2> QED
    BY <1>0, <1>1, <1>2, <2>1 DEF c
<1>3. CASE Len(store) = Kept
  <2> DEFINE r == SubSeq(c, 2, Kept + 1)
             S == {c[i] : i \in 1..Len(c)}
  <2>1. Retained(c) = r
    BY <1>0, <1>1, <1>3 DEF Retained
  <2>2. c \in Seq(S)
    <3>1. c \in [1..Len(c) -> S] /\ Len(c) \in Nat
      BY <1>1, Zenon DEF IsSeq
    <3> QED
      BY <3>1
  <2> HIDE DEF S
  <2>3. r \in Seq(S) /\ Len(r) = Kept
    BY <1>0, <1>1, <1>3, <2>2
  <2>4. \A i \in 1..Kept : r[i] = c[i + 1]
    BY <1>0, <1>1, <1>3, <2>2
  <2>5. IsSeq(r)
    BY <2>3, SeqShape, Zenon
  <2> HIDE DEF r
  <2>6. r[Kept] = cp /\ \A i \in 1..(Kept - 1) : i + 1 \in 1..Len(store) /\ r[i] = store[i + 1]
    BY <1>0, <1>1, <1>3, <2>4
  <2> QED
    BY <1>0, <1>3, <2>1, <2>3, <2>5, <2>6 DEF c
<1> QED
  BY <1>0, <1>2, <1>3

\* Nothing that a call waits for or has done depends on what it does not share.
LEMMA ProgressKept ==
  ASSUME NEW c, Progress(c), c.at \in Critical => UNCHANGED <<files, store, blobs>>
  PROVE  Progress(c)'
<1>1. CASE c.at \in Critical
  BY <1>1, Zenon DEF Progress, Taken, InStore, Restored, Blobbed
<1>2. CASE c.at \notin Critical
  BY <1>2, Zenon DEF Progress, Critical
<1> QED
  BY <1>1, <1>2, Zenon

\* A step of one worker: only the one that holds writeMu changes what is shared.
LEMMA WorkerStep ==
  ASSUME PatchInv, NEW w \in Workers, NEW to, work' = [work EXCEPT ![w] = to], CallOK(to),
         Progress(to)', Retains', files' = [f \in Files |-> files'[f]],
         to.at \in Critical => lock' = w,
         \/ UNCHANGED <<files, store, blobs>> /\ (lock' = lock \/ lock = None)
         \/ work[w].at \in Critical
  PROVE  PatchInv'
<1>1. work' = [v \in Workers |-> work'[v]] /\ work'[w] = to /\ \A v \in Workers \ {w} : work'[v] = work[v]
  BY Zenon DEF PatchInv
<1>2. ASSUME NEW v \in Workers \ {w}, work[v].at \in Critical
      PROVE  UNCHANGED <<files, store, blobs>> /\ lock' = v
  BY <1>2, PatchAssumption, Zenon DEF PatchInv, None
<1>3. ASSUME NEW v \in Workers PROVE CallOK(work'[v]) /\ Progress(work[v])'
  <2>1. CASE v = w
    BY <1>1, <2>1, ZenonT(60) DEF Progress, Taken, InStore, Restored, Blobbed
  <2>2. CASE v # w
    <3>1. CallOK(work[v]) /\ Progress(work[v])
      BY Zenon DEF PatchInv
    <3> DEFINE c == work[v]
    <3>2. c.at \in Critical => UNCHANGED <<files, store, blobs>>
      BY <1>2, <2>2
    <3>3. Progress(work[v])'
      BY <3>1, <3>2, ProgressKept
    <3> QED
      BY <1>1, <2>2, <3>1, <3>3, Zenon
  <2> QED
    BY <2>1, <2>2, Zenon
<1>4. ASSUME NEW v \in Workers, work'[v].at \in Critical PROVE lock' = v
  BY <1>1, <1>2, <1>4, Zenon
<1> QED
  BY <1>1, <1>3, <1>4, Zenon DEF PatchInv, CallOK, Snapshot, IsSeq

\* A worker without a call is outside writeMu and has nothing to account for.
LEMMA IdleOK == CallOK(Idle) /\ Idle.at = "idle" /\ Idle.at \notin Critical /\ (Progress(Idle))' /\ Snapshot(<<>>)
<1>1. IsSeq(<<>>) /\ Len(<<>>) = 0
  BY DEF IsSeq
<1>2. Snapshot(<<>>)
  BY <1>1 DEF Snapshot
<1>3. Idle.at \notin Critical
  BY Zenon DEF Idle, Critical
<1> QED
  BY <1>1, <1>2, <1>3 DEF CallOK, Idle, Progress

\* Nothing of the store changes.
LEMMA StoreKept ==
  ASSUME PatchInv, UNCHANGED <<store, blobs>>
  PROVE  Retains'
<1>1. \A i \in 1..Len(store) : Blobbed(store[i].files)' <=> Blobbed(store[i].files)
  BY Zenon DEF Blobbed
<1> QED
  BY <1>1, Zenon DEF PatchInv, Retains

\* A call that goes on to another step.
LEMMA CallGoes ==
  ASSUME NEW c, CallOK(c), NEW at,
         at \in {"idle", "plan", "lock", "relock", "checkpoint", "prune", "append"} => c.done = 0
  PROVE  LET to == [c EXCEPT !.at = at]
         IN /\ CallOK(to) /\ to.at = at /\ to.patch = c.patch /\ to.plan = c.plan
            /\ to.done = c.done /\ to.cp = c.cp /\ to.saved = c.saved
<1> DEFINE to == [c EXCEPT !.at = at]
<1>1. /\ DOMAIN to = DOMAIN Idle /\ to.at = at /\ to.patch = c.patch /\ to.plan = c.plan
      /\ to.done = c.done /\ to.cp = c.cp /\ to.saved = c.saved
  BY Zenon DEF CallOK, Idle
<1> HIDE DEF to
<1>2. CallOK(to)
  BY <1>1, Zenon DEF CallOK
<1> QED
  BY <1>1, <1>2, Zenon DEF to

\* A call comes, is planned, or waits for writeMu.
LEMMA BeginKeeps ==
  ASSUME PatchInv, NEW w \in Workers, ApplyPatch(w) \/ PlanEdit(w) \/ RollbackPatch(w) \/ Lock(w)
  PROVE  PatchInv'
<1> DEFINE c == work[w]
<1>0. /\ CallOK(c) /\ Retains' /\ files' = [f \in Files |-> files'[f]] /\ UNCHANGED <<files, store, blobs>>
      /\ work = [v \in Workers |-> work[v]]
  <2>1. UNCHANGED <<files, store, blobs>>
    BY Zenon DEF ApplyPatch, PlanEdit, RollbackPatch, Lock
  <2> QED
    BY <2>1, StoreKept, Zenon DEF PatchInv
<1>1. CASE ApplyPatch(w)
  <2>1. PICK p \in Patches : work' = [work EXCEPT ![w] = [Idle EXCEPT !.at = "plan", !.patch = p]]
    BY <1>1, Zenon DEF ApplyPatch
  <2> DEFINE to == [Idle EXCEPT !.at = "plan", !.patch = p]
  <2>2. IsSeq(p)
    BY PatchAssumption, SeqShape, Zenon
  <2>3. CallOK(to) /\ to.at = "plan" /\ Progress(to)'
    BY <2>2, IdleOK DEF CallOK, Idle, Progress, IsSeq
  <2>4. to.at \notin Critical
    BY <2>3, Zenon DEF Critical
  <2>5. lock' = lock
    BY <1>1, Zenon DEF ApplyPatch
  <2> HIDE DEF to
  <2> QED
    BY <1>0, <2>1, <2>3, <2>4, <2>5, WorkerStep, Zenon DEF to
<1>2. CASE PlanEdit(w)
  <2>0. lock' = lock /\ c.at = "plan"
    BY <1>2, Zenon DEF PlanEdit
  <2>1. CASE GoTo(w, "lock")
    <3>0. PICK to : to = [c EXCEPT !.at = "lock"]
      BY Zenon
    <3>1. work' = [work EXCEPT ![w] = to]
      BY <2>1, <3>0, Zenon DEF GoTo
    <3>2. c.done = 0
      BY <1>0, <2>0, Zenon DEF CallOK
    <3>3. CallOK(to) /\ to.at = "lock"
      BY <1>0, <3>0, <3>2, CallGoes
    <3>4. Progress(to)' /\ to.at \notin Critical
      BY <3>3, Zenon DEF Progress, Critical
    <3> QED
      BY <1>0, <2>0, <3>1, <3>3, <3>4, WorkerStep, Zenon
  <2>2. CASE work' = [work EXCEPT ![w] = Idle]
    <3>1. Idle.at \notin Critical
      BY IdleOK, Zenon DEF Critical
    <3> QED
      BY <1>0, <2>0, <2>2, <3>1, IdleOK, WorkerStep, Zenon
  <2>3. CASE /\ Len(c.plan) + 1 <= Len(c.patch)
             /\ work' = [work EXCEPT ![w].plan = Append(@, c.patch[Len(c.plan) + 1])]
    <3> DEFINE new == Append(c.plan, c.patch[Len(c.plan) + 1])
    <3>0. PICK to : to = [c EXCEPT !.plan = new]
      BY Zenon
    <3>1. work' = [work EXCEPT ![w] = to]
      BY <2>3, <3>0, Zenon
    <3>2. /\ IsSeq(new) /\ Len(new) = Len(c.plan) + 1 /\ new[Len(c.plan) + 1] = c.patch[Len(c.plan) + 1]
          /\ \A i \in 1..Len(c.plan) : new[i] = c.plan[i]
      BY <1>0, AppendSeq DEF CallOK
    <3> HIDE DEF new
    <3>3. Len(c.plan) \in Nat /\ \A i \in 1..Len(new) : new[i] = c.patch[i]
      <4>1. Len(c.plan) \in Nat /\ \A i \in 1..Len(c.plan) : c.plan[i] = c.patch[i]
        BY <1>0, Zenon DEF CallOK, IsSeq
      <4> QED
        BY <3>2, <4>1
    <3>4. Len(new) <= Len(c.patch)
      BY <2>3, <3>2, <3>3, Zenon
    <3>5. CallOK(to) /\ to.at = "plan"
      BY <1>0, <2>0, <3>0, <3>2, <3>3, <3>4, Zenon DEF CallOK, Idle
    <3>6. Progress(to)' /\ to.at \notin Critical
      BY <3>5, Zenon DEF Progress, Critical
    <3> QED
      BY <1>0, <2>0, <3>1, <3>5, <3>6, WorkerStep, Zenon
  <2>4. Len(c.plan) \in Nat /\ Len(c.patch) \in Nat
    BY <1>0, Zenon DEF CallOK, IsSeq
  <2> QED
    BY <1>2, <2>1, <2>2, <2>3, <2>4 DEF PlanEdit
<1>3. CASE RollbackPatch(w)
  <2>1. PICK id \in Ids : work' = [work EXCEPT ![w] =
          [Idle EXCEPT !.at = "relock", !.cp = id, !.saved = Find(id).files]]
    BY <1>3, Zenon DEF RollbackPatch
  <2>0. PICK to : to = [Idle EXCEPT !.at = "relock", !.cp = id, !.saved = Find(id).files]
    BY Zenon
  <2>2. \E i \in DOMAIN store : store[i].id = id
    BY Zenon DEF Ids
  <2>3. PICK i \in DOMAIN store : Find(id) = store[i]
    BY <2>2, Zenon DEF Find
  <2>4. Snapshot(Find(id).files)
    BY <2>3, Zenon DEF PatchInv, Retains, IsSeq
  <2>5. CallOK(to) /\ to.at = "relock"
    BY <2>0, <2>4, IdleOK, Zenon DEF CallOK, Idle
  <2>6. Progress(to)' /\ to.at \notin Critical
    BY <2>5, Zenon DEF Progress, Critical
  <2>7. lock' = lock
    BY <1>3, Zenon DEF RollbackPatch
  <2> QED
    BY <1>0, <2>0, <2>1, <2>5, <2>6, <2>7, WorkerStep, Zenon
<1>4. CASE Lock(w)
  <2>0. PICK to : to = [c EXCEPT !.at = IF c.at = "lock" THEN "checkpoint" ELSE "restore"]
    BY Zenon
  <2>1. work' = [work EXCEPT ![w] = to] /\ lock = None /\ lock' = w /\ c.at \in {"lock", "relock"}
    BY <1>4, <2>0, Zenon DEF Lock, GoTo
  <2>2. CallOK(to) /\ to.at \in {"checkpoint", "restore"} /\ to.done = 0
    <3>1. c.done = 0
      BY <1>0, <2>1, Zenon DEF CallOK
    <3> QED
      BY <1>0, <2>0, <3>1, CallGoes
  <2>3. Progress(to)'
    <3>1. Len(to.saved) \in Nat
      BY <2>2, Zenon DEF CallOK, Snapshot, IsSeq
    <3> QED
      BY <2>2, <3>1 DEF Progress, Restored
  <2> QED
    BY <1>0, <2>1, <2>2, <2>3, WorkerStep, Zenon
<1> QED
  BY <1>1, <1>2, <1>3, <1>4, Zenon

\* The checkpoint is made, old contents are pruned, and the store is replaced.
LEMMA CheckpointKeeps ==
  ASSUME PatchInv, NEW w \in Workers, createCheckpoint(w) \/ Prune(w) \/ appendCheckpoint(w)
  PROVE  PatchInv'
<1> DEFINE c == work[w]
<1>0. /\ CallOK(c) /\ Progress(c) /\ c.at \in Critical /\ c.done = 0 /\ lock = w /\ lock' = w
      /\ files' = files /\ files' = [f \in Files |-> files'[f]]
      /\ work = [v \in Workers |-> work[v]]
  <2>1. c.at \in {"checkpoint", "prune", "append"} /\ UNCHANGED <<files, lock>>
    BY Zenon DEF createCheckpoint, Prune, appendCheckpoint
  <2> QED
    BY <2>1, Zenon DEF PatchInv, CallOK, Critical
<1>1. CASE createCheckpoint(w)
  <2> DEFINE plan == c.plan
  <2>1. PICK s : s = [i \in DOMAIN plan |-> [path |-> plan[i].path, was |-> files[plan[i].path]]]
    BY Zenon
  <2>2. /\ blobs' = blobs \cup ({s[i].was : i \in DOMAIN s} \ {None}) /\ store' = store
        /\ work' = [work EXCEPT ![w].at = "prune", ![w].saved = s]
    BY <1>1, <2>1, Zenon DEF createCheckpoint
  <2>3. PICK to : to = [[c EXCEPT !.at = "prune"] EXCEPT !.saved = s]
    BY Zenon
  <2>4. Len(plan) \in Nat /\ DOMAIN plan = 1..Len(plan)
    BY <1>0, Zenon DEF CallOK, IsSeq
  <2>5. Len(s) = Len(plan) /\ DOMAIN s = 1..Len(plan) /\ IsSeq(s)
    BY <2>1, <2>4 DEF IsSeq
  <2>6. ASSUME NEW i \in 1..Len(plan) PROVE plan[i].path \in Files
    <3>1. c.patch # <<>>
      BY <1>0, <2>4 DEF CallOK
    <3>2. c.patch \in Seq([path : Files, old : Contents \cup {0}, new : Contents \cup {0}])
      BY <1>0, <3>1, PatchAssumption, Zenon DEF CallOK
    <3>3. i \in 1..Len(c.patch) /\ plan[i] = c.patch[i]
      BY <1>0, <2>4, <3>2 DEF CallOK
    <3>4. c.patch[i] \in [path : Files, old : Contents \cup {0}, new : Contents \cup {0}]
      BY <3>2, <3>3, SeqShape, Zenon
    <3> QED
      BY <3>3, <3>4, Zenon
  <2>7. \A i \in 1..Len(plan) : /\ s[i] = [path |-> plan[i].path, was |-> files[plan[i].path]]
                                /\ s[i].path = plan[i].path /\ s[i].was = files[plan[i].path]
    BY <2>1, <2>4, Zenon
  <2>8. Snapshot(s)
    <3>1. \A i \in 1..Len(s) : s[i] = [path |-> s[i].path, was |-> s[i].was] /\ s[i].path \in Files
      BY <2>5, <2>6, <2>7, Zenon
    <3>2. \A i, j \in 1..Len(s) : s[i].path = s[j].path => s[i].was = s[j].was
      <4> SUFFICES ASSUME NEW i \in 1..Len(plan), NEW j \in 1..Len(plan), s[i].path = s[j].path
                   PROVE  s[i].was = s[j].was
        BY <2>5, Zenon
      <4> QED
        BY <2>7, ZenonT(60)
    <3> QED
      BY <2>5, <3>1, <3>2, Zenon DEF Snapshot
  <2>9. /\ DOMAIN to = DOMAIN Idle /\ to.at = "prune" /\ to.patch = c.patch /\ to.plan = c.plan
        /\ to.done = c.done /\ to.cp = c.cp /\ to.saved = s
    BY <1>0, <2>3, Zenon DEF CallOK, Idle
  <2>10. CallOK(to)
    BY <1>0, <2>8, <2>9, Zenon DEF CallOK
  <2>11. Progress(to)'
    <3>1. Blobbed(to.saved)'
      BY <2>2, <2>5, <2>9, Zenon DEF Blobbed
    <3>2. Taken(to, 1)'
      BY <1>0, <2>5, <2>7, <2>9, <3>1, ZenonT(60) DEF Taken
    <3> QED
      BY <2>9, <3>2, Zenon DEF Progress
  <2>12. Retains'
    <3>1. \A x : Blobbed(x) => Blobbed(x)'
      BY <2>2, Zenon DEF Blobbed
    <3> QED
      BY <2>2, <3>1, Zenon DEF PatchInv, Retains
  <2>13. work' = [work EXCEPT ![w] = to]
    BY <1>0, <2>2, <2>3, Zenon
  <2> QED
    BY <1>0, <2>10, <2>11, <2>12, <2>13, WorkerStep, Zenon
<1> DEFINE new == [id |-> Fresh, files |-> c.saved]
           r == Retained(Append(store, new))
           k == IF Len(store) = Kept THEN 1 ELSE 0
<1>2. /\ Appended(w) = r /\ IsSeq(r) /\ Len(r) = Len(store) + 1 - k /\ Len(r) <= Kept /\ r[Len(r)] = new
      /\ \A i \in 1..(Len(r) - 1) : i + k \in 1..Len(store) /\ r[i] = store[i + k]
  <2>1. Appended(w) = r
    BY Zenon DEF Appended
  <2> QED
    BY <2>1, RetainedShape, Zenon DEF PatchInv, Retains
<1>3. /\ Len(store) \in Nat /\ k \in {0, 1} /\ (k = 1 <=> Len(store) = Kept)
      /\ Len(r) \in Nat /\ Len(r) # 0 /\ DOMAIN r = 1..Len(r)
  BY <1>2, PatchAssumption DEF PatchInv, Retains, IsSeq
<1> HIDE DEF r, k
<1>4. CASE Prune(w)
  <2>1. PICK to : to = [c EXCEPT !.at = "append"]
    BY Zenon
  <2>2. /\ c.at = "prune" /\ work' = [work EXCEPT ![w] = to] /\ store' = store
        /\ blobs' = pruneBlobs(r)
    BY <1>2, <1>4, <2>1, Zenon DEF Prune, GoTo
  <2>3. CallOK(to) /\ to.at = "append" /\ to.plan = c.plan /\ to.saved = c.saved /\ to.done = c.done
    BY <1>0, <2>1, CallGoes
  <2>4. ASSUME NEW i \in 1..Len(r), NEW x, x = r[i].files, Snapshot(x), Blobbed(x) PROVE Blobbed(x)'
    <3> SUFFICES ASSUME NEW j \in 1..Len(x), x[j].was # None PROVE x[j].was \in blobs'
      BY Zenon DEF Blobbed
    <3>1. x[j].was \in blobs
      BY <2>4, Zenon DEF Blobbed
    <3>2. i \in DOMAIN r /\ j \in DOMAIN r[i].files
      BY <1>3, <2>4, Zenon DEF Snapshot, IsSeq
    <3> QED
      BY <2>2, <2>4, <3>1, <3>2, Zenon DEF pruneBlobs
  <2>5. Taken(c, 1) /\ Snapshot(c.saved)
    BY <1>0, <2>2, Zenon DEF Progress, CallOK
  <2>6. Progress(to)'
    <3>1. to.saved = r[Len(r)].files /\ Len(r) \in 1..Len(r)
      BY <1>2, <1>3, <2>3
    <3>2. Blobbed(to.saved)'
      BY <2>3, <2>4, <2>5, <3>1, Zenon DEF Taken
    <3>3. Taken(to, 1)'
      BY <1>0, <2>3, <2>5, <3>2, Zenon DEF Taken
    <3> QED
      BY <2>3, <3>3, Zenon DEF Progress
  <2>7. ASSUME NEW i \in 1..Len(store), ~(i = 1 /\ Len(store) = Kept) PROVE Blobbed(store[i].files)'
    <3>1. i - k \in 1..(Len(r) - 1) /\ r[i - k] = store[i]
      BY <1>2, <1>3, <2>7
    <3>2. Snapshot(store[i].files) /\ Blobbed(store[i].files)
      BY <2>7, Zenon DEF PatchInv, Retains
    <3>3. i - k \in 1..Len(r)
      BY <1>3, <3>1
    <3>4. PICK x : x = store[i].files
      BY Zenon
    <3>5. Blobbed(x)'
      BY <2>4, <3>1, <3>2, <3>3, <3>4, Zenon
    <3> QED
      BY <2>2, <3>4, <3>5, Zenon DEF Blobbed
  <2>8. Retains'
    BY <2>2, <2>7, Zenon DEF PatchInv, Retains
  <2> QED
    BY <1>0, <2>2, <2>3, <2>6, <2>8, WorkerStep, Zenon
<1>5. CASE appendCheckpoint(w)
  <2>1. PICK to : to = [[c EXCEPT !.at = "write"] EXCEPT !.cp = Fresh]
    BY Zenon
  <2>2. c.at = "append" /\ work' = [work EXCEPT ![w] = to] /\ store' = r /\ blobs' = blobs
    BY <1>0, <1>2, <1>5, <2>1, Zenon DEF appendCheckpoint
  <2>3. /\ DOMAIN to = DOMAIN Idle /\ to.at = "write" /\ to.patch = c.patch /\ to.plan = c.plan
        /\ to.done = c.done /\ to.cp = Fresh /\ to.saved = c.saved
    BY <1>0, <2>1, Zenon DEF CallOK, Idle
  <2>4. CallOK(to)
    BY <1>0, <2>3, Zenon DEF CallOK
  <2>5. Taken(c, 1) /\ Snapshot(c.saved)
    BY <1>0, <2>2, Zenon DEF Progress, CallOK
  <2>6. Progress(to)'
    <3>1. InStore(to)'
      <4>1. Len(r) \in 1..Len(r) /\ r[Len(r)].id = Fresh /\ r[Len(r)].files = c.saved
        BY <1>2, <1>3, SMTT(30)
      <4> QED
        BY <2>2, <2>3, <4>1, Zenon DEF InStore
    <3>2. Taken(to, to.done + 1)'
      BY <1>0, <2>2, <2>3, <2>5 DEF Taken, Blobbed
    <3> QED
      BY <2>3, <3>1, <3>2, Zenon DEF Progress
  <2>7. ASSUME NEW i \in 1..Len(r) PROVE Snapshot(r[i].files) /\ Blobbed(r[i].files)
    <3>1. CASE i = Len(r)
      BY <1>2, <2>5, <3>1 DEF Taken
    <3>2. CASE i # Len(r)
      <4>1. i + k \in 1..Len(store) /\ r[i] = store[i + k] /\ ~(i + k = 1 /\ Len(store) = Kept)
        BY <1>2, <1>3, <3>2
      <4> QED
        BY <4>1, Zenon DEF PatchInv, Retains
    <3> QED
      BY <3>1, <3>2, Zenon
  <2>8. Retains'
    BY <1>2, <2>2, <2>7, ZenonT(60) DEF Retains, Blobbed
  <2> QED
    BY <1>0, <2>2, <2>3, <2>4, <2>6, <2>8, WorkerStep, Zenon
<1> QED
  BY <1>1, <1>4, <1>5, Zenon

\* A plan names files of the workspace, each once.
LEMMA PlanPaths ==
  ASSUME NEW c, CallOK(c), NEW i \in 1..Len(c.plan)
  PROVE  /\ c.plan[i].path \in Files
         /\ \A j \in 1..Len(c.plan) : c.plan[i].path = c.plan[j].path => i = j
<1>1. Len(c.plan) \in Nat /\ Len(c.patch) \in Nat /\ Len(c.plan) <= Len(c.patch)
  BY Zenon DEF CallOK, IsSeq
<1>2. c.patch # <<>>
  BY <1>1
<1>3. /\ c.patch \in Seq([path : Files, old : Contents \cup {0}, new : Contents \cup {0}])
      /\ \A m, n \in DOMAIN c.patch : c.patch[m].path = c.patch[n].path => m = n
  BY <1>2, PatchAssumption, Zenon DEF CallOK
<1>4. \A j \in 1..Len(c.plan) : j \in 1..Len(c.patch) /\ c.plan[j] = c.patch[j]
  BY <1>1 DEF CallOK
<1>5. DOMAIN c.patch = 1..Len(c.patch)
  BY Zenon DEF CallOK, IsSeq
<1>6. c.patch[i] \in [path : Files, old : Contents \cup {0}, new : Contents \cup {0}]
  BY <1>3, <1>4, SeqShape, Zenon
<1> QED
  BY <1>3, <1>4, <1>5, <1>6, Zenon

\* The nth file of the plan is written: what the checkpoint has of the later ones still
\* is what they hold.
LEMMA WriteTaken ==
  ASSUME PatchInv, NEW c, CallOK(c), NEW n \in 1..Len(c.plan), Taken(c, n) \/ Taken(c, n + 1),
         blobs' = blobs, NEW v, files' = files \/ files' = [files EXCEPT ![c.plan[n].path] = v]
  PROVE  Taken(c, n + 1)'
<1>1. n \in Nat /\ Len(c.plan) \in Nat
  BY DEF CallOK, IsSeq
<1>2. Taken(c, n + 1)
  BY <1>1 DEF Taken
<1>3. ASSUME NEW j \in 1..Len(c.plan), j >= n + 1 PROVE files'[c.saved[j].path] = c.saved[j].was
  <2>1. c.saved[j].path # c.plan[n].path /\ c.saved[j].path \in Files
    BY <1>1, <1>2, <1>3, PlanPaths DEF Taken
  <2> QED
    BY <1>2, <1>3, <2>1, Zenon DEF Taken, PatchInv
<1> QED
  BY <1>2, <1>3, Zenon DEF Taken, Blobbed

\* A file of the plan is written, or that fails.
LEMMA WriteKeeps ==
  ASSUME PatchInv, NEW w \in Workers, WriteOpen(w) \/ WriteFill(w) \/ WriteFails(w)
  PROVE  PatchInv'
<1> DEFINE c == work[w]
           n == c.done + 1
<1>0. /\ CallOK(c) /\ Progress(c) /\ c.at \in {"write", "fill"} /\ lock = w /\ lock' = w
      /\ UNCHANGED <<store, blobs>> /\ work = [v \in Workers |-> work[v]] /\ c.at \in Critical
      /\ files = [f \in Files |-> files[f]]
  <2>1. c.at \in {"write", "fill"} /\ UNCHANGED <<store, blobs, lock>>
    BY Zenon DEF WriteOpen, WriteFill, WriteFails
  <2> QED
    BY <2>1, Zenon DEF PatchInv, Critical
<1>1. /\ c.done \in Nat /\ Len(c.plan) \in Nat /\ n \in 1..Len(c.plan)
      /\ (Taken(c, n) \/ Taken(c, n + 1)) /\ InStore(c)
  <2>1. c.done \in Nat /\ Len(c.plan) \in Nat /\ c.done < Len(c.plan)
    BY <1>0, Zenon DEF CallOK, IsSeq, WriteOpen, WriteFill, WriteFails, Remaining, Progress
  <2>2. InStore(c) /\ (Taken(c, c.done + 1) \/ Taken(c, c.done + 2))
    BY <1>0, Zenon DEF Progress
  <2> QED
    BY <2>1, <2>2
<1>2. Retains'
  BY <1>0, StoreKept, Zenon
<1>3. ASSUME NEW v, files' = files \/ files' = [files EXCEPT ![c.plan[n].path] = v],
             NEW to, work' = [work EXCEPT ![w] = to], CallOK(to),
             to.plan = c.plan, to.saved = c.saved, to.cp = c.cp,
             \/ to.at = "write" /\ to.done = n
             \/ to.at \in {"fill", "undo"} /\ to.done = c.done
      PROVE  PatchInv'
  <2>1. files' = [f \in Files |-> files'[f]]
    BY <1>0, <1>3, Zenon
  <2>2. Taken(to, n) \/ Taken(to, n + 1)
    BY <1>1, <1>3, Zenon DEF Taken
  <2>3. PICK m : m = n
    BY Zenon
  <2>4. Taken(to, m + 1)'
    BY <1>0, <1>1, <1>3, <2>2, <2>3, WriteTaken, ZenonT(60)
  <2>5. InStore(to)'
    <3>1. InStore(to)
      BY <1>1, <1>3, Zenon DEF InStore
    <3>2. store' = store
      BY <1>0, Zenon
    <3> QED
      BY <3>1, <3>2, Zenon DEF InStore
  <2>6. Progress(to)'
    <3>1. \/ to.at = "write" /\ to.done + 1 = m + 1
          \/ to.at \in {"fill", "undo"} /\ to.done + 2 = m + 1 /\ to.done < Len(to.plan)
      BY <1>1, <1>3, <2>3
    <3> QED
      BY <2>4, <2>5, <3>1, Zenon DEF Progress
  <2> QED
    BY <1>0, <1>2, <1>3, <2>1, <2>6, WorkerStep, Zenon
<1>4. ASSUME NEW at \in {"fill", "undo"}, GoTo(w, at),
             NEW v, files' = files \/ files' = [files EXCEPT ![c.plan[n].path] = v]
      PROVE  PatchInv'
  <2>1. PICK to : to = [c EXCEPT !.at = at]
    BY Zenon
  <2>2. /\ CallOK(to) /\ to.at = at /\ to.patch = c.patch /\ to.plan = c.plan
        /\ to.done = c.done /\ to.cp = c.cp /\ to.saved = c.saved
    BY <1>0, <2>1, CallGoes
  <2>3. work' = [work EXCEPT ![w] = to]
    BY <1>4, <2>1, Zenon DEF GoTo
  <2> QED
    BY <1>3, <1>4, <2>2, <2>3, Zenon
<1>5. ASSUME work' = [work EXCEPT ![w] = [[c EXCEPT !.at = "write"] EXCEPT !.done = n]],
             NEW v, files' = files \/ files' = [files EXCEPT ![c.plan[n].path] = v]
      PROVE  PatchInv'
  <2>1. PICK to : to = [[c EXCEPT !.at = "write"] EXCEPT !.done = n]
    BY Zenon
  <2>2. /\ DOMAIN to = DOMAIN Idle /\ to.at = "write" /\ to.patch = c.patch /\ to.plan = c.plan
        /\ to.done = n /\ to.cp = c.cp /\ to.saved = c.saved
    BY <1>0, <2>1, Zenon DEF CallOK, Idle
  <2>3. CallOK(to)
    BY <1>0, <1>1, <2>2 DEF CallOK
  <2> QED
    BY <1>3, <1>5, <2>1, <2>2, <2>3, Zenon
<1>6. CASE WriteOpen(w)
  <2>1. CASE files' = [files EXCEPT ![c.plan[n].path] = None] /\ work' = [work EXCEPT ![w].done = @ + 1]
    <3>1. c.at = "write"
      BY <1>6, Zenon DEF WriteOpen
    <3>2. [c EXCEPT !.done = n] = [[c EXCEPT !.at = "write"] EXCEPT !.done = n]
      BY <1>0, <3>1, Zenon DEF CallOK, Idle
    <3> QED
      BY <1>5, <2>1, <3>2, Zenon
  <2>2. CASE files' = [files EXCEPT ![c.plan[n].path] = Cut] /\ GoTo(w, "fill")
    BY <1>4, <2>2, Zenon
  <2>3. CASE GoTo(w, "undo") /\ UNCHANGED files
    BY <1>4, <2>3, Zenon
  <2> QED
    BY <1>6, <2>1, <2>2, <2>3, Zenon DEF WriteOpen, Step
<1>7. CASE WriteFill(w)
  BY <1>5, <1>7, Zenon DEF WriteFill, Step
<1>8. CASE WriteFails(w)
  BY <1>4, <1>8, Zenon DEF WriteFails
<1> QED
  BY <1>6, <1>7, <1>8, Zenon

\* What a failed patch had written is restored.
LEMMA UndoKeeps ==
  ASSUME PatchInv, NEW w \in Workers, restorePartial(w)
  PROVE  PatchInv'
<1> DEFINE c == work[w]
           mine(f) == {i \in 1..c.done : c.saved[i].path = f /\ c.saved[i].was \in blobs \cup {None}}
<1>0. /\ CallOK(c) /\ Progress(c) /\ c.at = "undo" /\ lock = w /\ lock' = w
      /\ UNCHANGED <<store, blobs>> /\ work = [v \in Workers |-> work[v]] /\ c.at \in Critical
  BY Zenon DEF restorePartial, PatchInv, Critical
<1>1. /\ files' = [f \in Files |-> files'[f]]
      /\ \A f \in Files : files'[f] = IF mine(f) = {} THEN files[f]
                                      ELSE c.saved[CHOOSE i \in mine(f) : TRUE].was
  <2> DEFINE Old(f) == IF mine(f) = {} THEN files[f] ELSE c.saved[CHOOSE i \in mine(f) : TRUE].was
  <2>1. files' = [f \in Files |-> Old(f)]
    BY Zenon DEF restorePartial
  <2> HIDE DEF Old
  <2>2. files' = [f \in Files |-> files'[f]] /\ \A f \in Files : files'[f] = Old(f)
    BY <2>1, Zenon
  <2> QED
    BY <2>2, Zenon DEF Old
<1>2. /\ c.done \in Nat /\ c.done < Len(c.plan) /\ Taken(c, c.done + 2) /\ Snapshot(c.saved)
      /\ Len(c.plan) \in Nat
  BY <1>0, Zenon DEF Progress, CallOK, IsSeq
<1>3. ASSUME NEW i \in 1..Len(c.saved), i # c.done + 1 PROVE files'[c.saved[i].path] = c.saved[i].was
  <2> DEFINE f == c.saved[i].path
  <2>0. f \in Files /\ Len(c.saved) = Len(c.plan) /\ c.saved[i].was \in blobs \cup {None}
    BY <1>2, Zenon DEF Snapshot, Taken, Blobbed
  <2>1. CASE i <= c.done
    <3>1. i \in mine(f)
      BY <1>2, <2>0, <2>1
    <3>2. PICK j \in mine(f) : j = CHOOSE m \in mine(f) : TRUE
      BY <3>1, Zenon
    <3>3. c.saved[j].path = f /\ j \in 1..Len(c.saved)
      <4>1. c.saved[j].path = f /\ j \in 1..c.done
        BY <3>2, Zenon
      <4>2. Len(c.saved) \in Nat /\ c.done <= Len(c.saved)
        BY <1>2, <2>0
      <4> QED
        BY <1>2, <4>1, <4>2
    <3>4. c.saved[j].was = c.saved[i].was
      BY <1>2, <3>3, Zenon DEF Snapshot
    <3>5. files'[f] = c.saved[j].was
      <4>1. mine(f) # {}
        BY <3>1, Zenon
      <4> HIDE DEF mine
      <4> QED
        BY <1>1, <2>0, <3>2, <4>1, Zenon
    <3> QED
      BY <3>4, <3>5, Zenon
  <2>2. CASE i > c.done
    <3>1. i >= c.done + 2 /\ i \in 1..Len(c.plan)
      BY <1>2, <1>3, <2>0, <2>2, SMTT(30)
    <3>2. ASSUME NEW m \in mine(f) PROVE FALSE
      <4>0. m \in 1..c.done /\ c.saved[m].path = f
        BY <3>2, Zenon
      <4>1. m \in 1..Len(c.plan) /\ c.plan[m].path = c.plan[i].path
        <5>1. m \in 1..Len(c.plan)
          BY <1>2, <4>0
        <5> QED
          BY <1>2, <3>1, <4>0, <5>1, Zenon DEF Taken
      <4>2. m = i
        BY <1>0, <3>1, <4>1, PlanPaths, Zenon
      <4> QED
        BY <1>2, <2>2, <4>0, <4>2
    <3>3. files'[f] = files[f]
      <4>1. mine(f) = {}
        BY <3>2, Zenon
      <4> QED
        BY <1>1, <2>0, <4>1, Zenon
    <3> QED
      BY <1>2, <3>1, <3>3, Zenon DEF Taken
  <2> QED
    BY <1>2, <2>0, <2>1, <2>2
<1>4. PICK to : to = [c EXCEPT !.at = "failed"]
  BY Zenon
<1>5. CallOK(to) /\ to.at = "failed" /\ to.saved = c.saved /\ to.done = c.done
  BY <1>0, <1>4, CallGoes
<1>6. Progress(to)'
  BY <1>3, <1>5, Zenon DEF Progress
<1>7. work' = [work EXCEPT ![w] = to]
  BY <1>4, Zenon DEF restorePartial, GoTo
<1>8. Retains'
  BY <1>0, StoreKept, Zenon
<1> QED
  BY <1>0, <1>1, <1>5, <1>6, <1>7, <1>8, WorkerStep, Zenon

\* A file of a checkpoint is restored, or that fails.
LEMMA RestoreKeeps ==
  ASSUME PatchInv, NEW w \in Workers, RestoreFile(w) \/ RestoreFails(w)
  PROVE  PatchInv'
<1> DEFINE c == work[w]
           n == c.done + 1
<1>0. /\ CallOK(c) /\ Progress(c) /\ c.at = "restore" /\ lock = w /\ lock' = w
      /\ UNCHANGED <<store, blobs>> /\ work = [v \in Workers |-> work[v]] /\ c.at \in Critical
      /\ files = [f \in Files |-> files[f]]
  BY Zenon DEF RestoreFile, RestoreFails, PatchInv, Critical
<1>1. /\ c.done \in Nat /\ c.done <= Len(c.saved) /\ Restored(c, c.done) /\ Snapshot(c.saved)
      /\ Len(c.saved) \in Nat
  BY <1>0, Zenon DEF Progress, CallOK, Snapshot, IsSeq
<1>2. Retains'
  BY <1>0, StoreKept, Zenon
<1>3. ASSUME GoTo(w, "incomplete"), files' = [f \in Files |-> files'[f]] PROVE PatchInv'
  <2>1. PICK to : to = [c EXCEPT !.at = "incomplete"]
    BY Zenon
  <2>2. CallOK(to) /\ to.at = "incomplete"
    BY <1>0, <2>1, CallGoes
  <2>3. Progress(to)' /\ work' = [work EXCEPT ![w] = to]
    BY <1>3, <2>1, <2>2, Zenon DEF Progress, GoTo
  <2> QED
    BY <1>0, <1>2, <1>3, <2>2, <2>3, WorkerStep, Zenon
<1>4. CASE RestoreFails(w)
  <2>1. files' = [f \in Files |-> files'[f]] /\ GoTo(w, "incomplete")
    BY <1>0, <1>4, Zenon DEF RestoreFails
  <2> QED
    BY <1>3, <2>1, Zenon
<1>5. CASE n > Len(c.saved) /\ GoTo(w, "rolledback") /\ UNCHANGED files
  <2>1. PICK to : to = [c EXCEPT !.at = "rolledback"]
    BY Zenon
  <2>2. CallOK(to) /\ to.at = "rolledback" /\ to.saved = c.saved
    BY <1>0, <2>1, CallGoes
  <2>3. c.done = Len(c.saved)
    BY <1>1, <1>5
  <2>4. Progress(to)'
    BY <1>1, <1>5, <2>2, <2>3, Zenon DEF Progress, Restored
  <2>5. work' = [work EXCEPT ![w] = to]
    BY <1>5, <2>1, Zenon DEF GoTo
  <2> QED
    BY <1>0, <1>2, <1>5, <2>2, <2>4, <2>5, WorkerStep, Zenon
<1>6. CASE /\ n <= Len(c.saved) /\ files' = [files EXCEPT ![c.saved[n].path] = c.saved[n].was]
           /\ work' = [work EXCEPT ![w].done = n]
  <2>1. PICK to : to = [c EXCEPT !.done = n]
    BY Zenon
  <2>2. /\ DOMAIN to = DOMAIN Idle /\ to.at = c.at /\ to.patch = c.patch /\ to.plan = c.plan
        /\ to.done = n /\ to.cp = c.cp /\ to.saved = c.saved
    BY <1>0, <2>1, Zenon DEF CallOK, Idle
  <2>3. CallOK(to)
    BY <1>0, <1>1, <2>2 DEF CallOK
  <2>4. n \in 1..Len(c.saved) /\ c.saved[n].path \in Files
    <3>1. n \in 1..Len(c.saved)
      BY <1>1, <1>6
    <3> QED
      BY <1>1, <3>1, Zenon DEF Snapshot
  <2>5. files' = [f \in Files |-> files'[f]]
    BY <1>0, <1>6, Zenon
  <2>6. ASSUME NEW i \in 1..n PROVE files'[c.saved[i].path] = c.saved[i].was
    <3>0. i \in 1..Len(c.saved)
      BY <1>1, <2>4
    <3>1. i \in 1..Len(c.saved) /\ c.saved[i].path \in Files
      BY <1>1, <3>0, Zenon DEF Snapshot
    <3>2. CASE c.saved[i].path = c.saved[n].path
      BY <1>0, <1>1, <1>6, <2>4, <3>1, <3>2, Zenon DEF Snapshot
    <3>3. CASE c.saved[i].path # c.saved[n].path
      <4>1. i \in 1..c.done
        BY <1>1, <3>3, SMTT(30)
      <4> QED
        BY <1>0, <1>1, <1>6, <3>1, <3>3, <4>1, Zenon DEF Restored
    <3> QED
      BY <3>2, <3>3, Zenon
  <2>7. Progress(to)'
    BY <1>0, <2>2, <2>4, <2>6 DEF Progress, Restored
  <2>8. work' = [work EXCEPT ![w] = to]
    BY <1>6, <2>1, Zenon
  <2> QED
    BY <1>0, <1>2, <2>2, <2>3, <2>5, <2>7, <2>8, WorkerStep, Zenon
<1>7. CASE GoTo(w, "incomplete") /\ UNCHANGED files
  BY <1>0, <1>3, <1>7, Zenon
<1>8. CASE RestoreFile(w)
  <2>1. \/ n > Len(c.saved) /\ GoTo(w, "rolledback") /\ UNCHANGED files
        \/ /\ ~(n > Len(c.saved)) /\ files' = [files EXCEPT ![c.saved[n].path] = c.saved[n].was]
           /\ work' = [work EXCEPT ![w].done = n]
        \/ GoTo(w, "incomplete") /\ UNCHANGED files
    BY <1>8, Zenon DEF RestoreFile
  <2>2. ~(n > Len(c.saved)) => n <= Len(c.saved)
    BY <1>1
  <2> QED
    BY <1>5, <1>6, <1>7, <2>1, <2>2, Zenon
<1> QED
  BY <1>4, <1>8, Zenon

\* A call ends and writeMu is released.
LEMMA EndKeeps ==
  ASSUME PatchInv, NEW w \in Workers, CheckpointFails(w) \/ Return(w)
  PROVE  PatchInv'
<1>1. /\ work[w].at \in Critical /\ UNCHANGED <<files, store, blobs>>
      /\ work' = [work EXCEPT ![w] = Idle]
  BY Zenon DEF CheckpointFails, Return, Critical
<1>2. Retains' /\ files' = [f \in Files |-> files'[f]]
  BY <1>1, StoreKept, Zenon DEF PatchInv
<1>3. Idle.at \notin Critical
  BY IdleOK, Zenon
<1> QED
  BY <1>1, <1>2, <1>3, IdleOK, WorkerStep, Zenon

\* The client dies.
LEMMA CrashKeeps ==
  ASSUME PatchInv, Crash
  PROVE  PatchInv'
<1>1. work' = [w \in Workers |-> Idle] /\ UNCHANGED <<files, store, blobs>>
  BY Zenon DEF Crash
<1>2. Retains' /\ files' = [f \in Files |-> files'[f]]
  BY <1>1, StoreKept, Zenon DEF PatchInv
<1>3. Idle.at \notin Critical
  BY IdleOK, Zenon
<1>4. ASSUME NEW w \in Workers PROVE work'[w] = Idle /\ CallOK(work'[w]) /\ Progress(work[w])'
  BY <1>1, IdleOK, Zenon DEF Progress, Idle
<1> QED
  BY <1>1, <1>2, <1>3, <1>4, Zenon DEF PatchInv

\* PatchInv is inductive: writeMu keeps the calls in applyPatch and RollbackPatch apart,
\* and a checkpoint is of the files as they were when its worker took it.
THEOREM PatchInvariant == PatchSpec => []PatchInv
<1>1. PatchInit => PatchInv
  <2> SUFFICES ASSUME PatchInit PROVE PatchInv
    BY Zenon
  <2>1. Retains
    BY IdleOK, PatchAssumption DEF PatchInit, Retains, IsSeq
  <2>2. ASSUME NEW w \in Workers PROVE CallOK(work[w]) /\ Progress(work[w]) /\ work[w].at \notin Critical
    <3>1. work[w] = Idle /\ CallOK(Idle) /\ Idle.at = "idle"
      BY IdleOK, Zenon DEF PatchInit
    <3>2. Progress(work[w])
      BY <3>1, Zenon DEF Progress
    <3> QED
      BY <3>1, <3>2, Zenon DEF Critical
  <2> QED
    BY <2>1, <2>2, StartAssumption, Zenon DEF PatchInit, PatchInv
<1>2. PatchInv /\ [PatchNext]_patchVars => PatchInv'
  <2> SUFFICES ASSUME PatchInv, [PatchNext]_patchVars PROVE PatchInv'
    BY Zenon
  <2>1. CASE UNCHANGED patchVars
    <3>1. UNCHANGED <<files, store, blobs, lock, work>>
      BY <2>1, Zenon DEF patchVars
    <3>2. Retains'
      BY <3>1, StoreKept, Zenon
    <3>3. ASSUME NEW w \in Workers PROVE Progress(work[w])'
      BY <3>1, Zenon DEF PatchInv, Progress, Taken, InStore, Restored, Blobbed
    <3> QED
      BY <3>1, <3>2, <3>3, Zenon DEF PatchInv
  <2> QED
    BY <2>1, BeginKeeps, CheckpointKeeps, WriteKeeps, UndoKeeps, RestoreKeeps, EndKeeps, CrashKeeps,
       Zenon DEF PatchNext
<1> QED
  BY <1>1, <1>2, PTL DEF PatchSpec

\* A rollback that reports success has put every file of the checkpoint back, with any
\* number of workers and although RollbackPatch finds the checkpoint outside writeMu.
THEOREM RollbackExactHolds == PatchSpec => []RollbackExact
<1>1. PatchInv => RollbackExact
  BY ZenonT(60) DEF PatchInv, Progress, Restored, RollbackExact, CallOK, Snapshot, IsSeq
<1> QED
  BY <1>1, PatchInvariant, PTL

\* After restorePartial every file of a failed patch, but for the one whose write failed,
\* holds what it held before.
THEOREM FailedPatchRestoresHolds == PatchSpec => []FailedPatchRestores
<1>1. PatchInv => FailedPatchRestores
  BY ZenonT(60) DEF PatchInv, Progress, FailedPatchRestores, CallOK, Snapshot, IsSeq
<1> QED
  BY <1>1, PatchInvariant, PTL

\* pruneBlobs takes no contents from a retained checkpoint, but perhaps from the oldest of
\* a full store, through failed writes and crashes between pruning and rename.
THEOREM BlobsKeptHolds == PatchSpec => []BlobsKept
<1>1. PatchInv => BlobsKept
  BY Zenon DEF PatchInv, Retains, BlobsKept, Blobbed, Snapshot, IsSeq
<1> QED
  BY <1>1, PatchInvariant, PTL

\* applyPatch changes a file only when a checkpoint in the store has what the file held.
THEOREM CheckpointedFirstHolds == PatchSpec => CheckpointedFirst
<1> DEFINE Kept1(f, w) == \E i \in DOMAIN store :
             /\ store[i].id = work[w].cp
             /\ \E j \in DOMAIN store[i].files : store[i].files[j] = [path |-> f, was |-> files[f]]
<1>1. ASSUME PatchInv, [PatchNext]_patchVars, NEW f \in Files, NEW w \in Workers,
             files'[f] # files[f], work[w].at = "write", work'[w] # work[w]
      PROVE  Kept1(f, w)
  <2> DEFINE c == work[w]
             n == c.done + 1
  <2>1. /\ CallOK(c) /\ Taken(c, n) /\ InStore(c) /\ lock = w /\ Snapshot(c.saved)
        /\ files = [g \in Files |-> files[g]] /\ work = [v \in Workers |-> work[v]]
    BY <1>1, Zenon DEF PatchInv, Progress, Critical, CallOK
  <2>2. ASSUME NEW v \in Workers, v # w PROVE work[v].at \notin Critical
    BY <1>1, <2>1, <2>2, Zenon DEF PatchInv
  <2>3. PICK v \in Workers : WriteOpen(v) \/ WriteFill(v) \/ restorePartial(v) \/ RestoreFile(v) \/ RestoreFails(v)
    BY <1>1, Zenon DEF PatchNext, patchVars, ApplyPatch, PlanEdit, Lock, createCheckpoint, Prune, appendCheckpoint,
           CheckpointFails, WriteFails, Return, RollbackPatch, Crash
  <2>4. v = w
    BY <2>2, <2>3, Zenon DEF Critical, WriteOpen, WriteFill, restorePartial, RestoreFile, RestoreFails
  <2>5. WriteOpen(w)
    BY <1>1, <2>3, <2>4, Zenon DEF WriteFill, restorePartial, RestoreFile, RestoreFails
  <2>6. n \in 1..Len(c.plan)
    BY <2>1, <2>5 DEF WriteOpen, Remaining, CallOK, IsSeq
  <2>7. f = c.plan[n].path
    <3>1. files' = files \/ \E v1 : files' = [files EXCEPT ![c.plan[n].path] = v1]
      <4> DEFINE e == c.plan[n]
      <4>1. \/ files' = [files EXCEPT ![e.path] = None]
            \/ files' = [files EXCEPT ![e.path] = Cut]
            \/ UNCHANGED files
        BY <2>5, ZenonT(60) DEF WriteOpen, Step
      <4> QED
        BY <4>1, Zenon
    <3> QED
      BY <1>1, <2>1, <3>1, Zenon
  <2>8. /\ n \in 1..Len(c.saved) /\ n \in Nat /\ c.saved[n].path = f /\ c.saved[n].was = files[f]
        /\ c.saved[n] = [path |-> c.saved[n].path, was |-> c.saved[n].was] /\ DOMAIN c.saved = 1..Len(c.saved)
    BY <2>1, <2>6, <2>7 DEF Taken, Snapshot, IsSeq
  <2>9. PICK i \in 1..Len(store) : store[i].id = c.cp /\ store[i].files = c.saved
    BY <2>1, Zenon DEF InStore
  <2>10. i \in DOMAIN store
    BY <1>1, Zenon DEF PatchInv, Retains, IsSeq
  <2> QED
    BY <2>8, <2>9, <2>10, Zenon
<1>2. PatchInv /\ [PatchNext]_patchVars =>
        [\A f \in Files, w \in Workers :
           files'[f] # files[f] /\ work[w].at = "write" /\ work'[w] # work[w] => Kept1(f, w)]_patchVars
  <2> HIDE DEF Kept1
  <2> QED
    BY <1>1, Zenon
<1> QED
  BY <1>2, PatchInvariant, PTL DEF PatchSpec, CheckpointedFirst

-----------------------------------------------------------------------------
(* Grants of permission *)

\* The grants that wait to be used have decisions of their own, none of which was spent.
Assigned(f) ==
  /\ f \in [granted -> Nat]
  /\ \A a \in granted : spent < f[a] /\ f[a] <= decided.once
  /\ \A a, b \in granted : f[a] = f[b] => a = b
GrantsInv ==
  /\ spent \in Nat /\ decided.once \in Nat /\ OneRunPerGrant
  /\ DOMAIN decided = {"once", "all"}
  /\ \E f : Assigned(f)

\* A grant that is used or taken back leaves the others their decisions: if it had not
\* the oldest one, whoever has that one takes its decision.
LEMMA GrantLeaves ==
  ASSUME GrantsInv, NEW id, granted' = granted \ {id}, decided' = decided,
         spent' = spent \/ (id \in granted /\ spent' = spent + 1)
  PROVE  GrantsInv'
<1>1. PICK f : Assigned(f)
  BY Zenon DEF GrantsInv
<1>2. CASE spent' = spent
  <2>1. PICK g : g = [a \in granted' |-> f[a]]
    BY Zenon
  <2>2. Assigned(g)'
    BY <1>1, <1>2, <2>1, Zenon DEF Assigned, GrantsInv
  <2> QED
    BY <1>2, <2>2, Zenon DEF GrantsInv, OneRunPerGrant
<1>3. CASE id \in granted /\ spent' = spent + 1
  <2>1. PICK g : g = [a \in granted' |-> IF f[a] = spent + 1 THEN f[id] ELSE f[a]]
    BY Zenon
  <2>2. /\ f[id] \in Nat /\ spent < f[id] /\ f[id] <= decided.once
        /\ \A a \in granted' : a \in granted /\ f[a] \in Nat /\ f[a] # f[id]
    BY <1>1, <1>3, Zenon DEF Assigned
  <2>3. \A a \in granted' : g[a] \in Nat /\ spent' < g[a] /\ g[a] <= decided.once
    BY <1>1, <1>3, <2>1, <2>2 DEF Assigned, GrantsInv
  <2>4. \A a, b \in granted' : g[a] = g[b] => a = b
    BY <1>1, <2>1, <2>2 DEF Assigned
  <2>5. g \in [granted' -> Nat]
    BY <2>1, <2>3, Zenon
  <2>6. Assigned(g)'
    BY <2>3, <2>4, <2>5, Zenon DEF Assigned
  <2> QED
    BY <1>3, <2>2, <2>6 DEF GrantsInv, OneRunPerGrant
<1> QED
  BY <1>2, <1>3, Zenon

\* A "once" decision is a new one, for the grant it makes or for none.
LEMMA GrantMade ==
  ASSUME GrantsInv, NEW id, granted' = granted \cup {id}, spent' = spent,
         decided' = [decided EXCEPT !.once = @ + 1]
  PROVE  GrantsInv'
<1>1. PICK f : Assigned(f)
  BY Zenon DEF GrantsInv
<1>2. PICK g : g = [a \in granted' |-> IF a \in granted THEN f[a] ELSE decided.once + 1]
  BY Zenon
<1>3. decided'.once = decided.once + 1 /\ DOMAIN decided' = {"once", "all"}
  BY Zenon DEF GrantsInv
<1>4. \A a \in granted' : g[a] \in Nat /\ spent' < g[a] /\ g[a] <= decided'.once
  BY <1>1, <1>2, <1>3 DEF Assigned, GrantsInv, OneRunPerGrant
<1>5. \A a, b \in granted' : g[a] = g[b] => a = b
  BY <1>1, <1>2 DEF Assigned, GrantsInv
<1>6. g \in [granted' -> Nat]
  BY <1>2, <1>4, Zenon
<1>7. Assigned(g)'
  BY <1>4, <1>5, <1>6, Zenon DEF Assigned
<1> QED
  BY <1>3, <1>7 DEF GrantsInv, OneRunPerGrant

\* OneRunPerGrant for any callers, commands and deciders that race, through restarts:
\* consumeGrantOnce deletes the grant in the step that finds it.
THEOREM OneRunPerGrantHolds == PermissionsSpec => []OneRunPerGrant
<1>1. PermissionsInit => GrantsInv
  <2> SUFFICES ASSUME PermissionsInit PROVE GrantsInv
    BY Zenon
  <2>1. granted = {} /\ spent = 0 /\ decided = [once |-> 0, all |-> 0]
    BY Zenon DEF PermissionsInit
  <2>2. PICK f : f = [a \in {} |-> 0]
    BY Zenon
  <2>3. Assigned(f)
    BY <2>1, <2>2, Zenon DEF Assigned
  <2> QED
    BY <2>1, <2>3 DEF GrantsInv, OneRunPerGrant
<1>2. GrantsInv /\ [PermissionsNext]_permissionsVars => GrantsInv'
  <2> SUFFICES ASSUME GrantsInv, [PermissionsNext]_permissionsVars PROVE GrantsInv'
    BY Zenon
  <2>0. ASSUME UNCHANGED <<granted, spent, decided.once>>, DOMAIN decided' = DOMAIN decided PROVE GrantsInv'
    BY <2>0, Zenon DEF GrantsInv, Assigned, OneRunPerGrant
  <2>1. ASSUME NEW p \in Callers, consumeGrantOnce(p) PROVE GrantsInv'
    <3>1. ASSUME NEW id \in granted, granted' = granted \ {id}, spent' = spent + 1, decided' = decided
          PROVE  GrantsInv'
      BY <3>1, GrantLeaves, Zenon
    <3> QED
      BY <2>0, <2>1, <3>1, Zenon DEF consumeGrantOnce
  <2>2. ASSUME NEW d \in Deciders, permissionGrant(d) PROVE GrantsInv'
    BY <2>0, <2>2, GrantMade, GrantLeaves, Zenon DEF permissionGrant
  <2>3. ASSUME NEW d \in Deciders, lookupRequest(d) PROVE GrantsInv'
    <3>1. /\ UNCHANGED <<granted, spent>>
          /\ decided' = decided \/ decided' = [decided EXCEPT !.all = @ + 1]
      BY <2>3, Zenon DEF lookupRequest
    <3>2. decided'.once = decided.once /\ DOMAIN decided' = DOMAIN decided
      BY <3>1, Zenon DEF GrantsInv
    <3> QED
      BY <2>0, <3>1, <3>2, Zenon
  <2>4. ASSUME Restart PROVE GrantsInv'
    <3>1. granted' = {} /\ UNCHANGED <<spent, decided>>
      BY <2>4, Zenon DEF Restart
    <3>2. PICK f : f = [a \in {} |-> 0]
      BY Zenon
    <3>3. Assigned(f)'
      BY <3>1, <3>2, Zenon DEF Assigned
    <3> QED
      BY <3>1, <3>3, Zenon DEF GrantsInv, OneRunPerGrant
  <2>5. ASSUME NEW p \in Callers, Call(p) \/ pendingRequest(p) \/ parkRequest(p) \/ Exec(p)
        PROVE  UNCHANGED <<granted, spent, decided>>
    BY <2>5, Zenon DEF Call, pendingRequest, parkRequest, Exec
  <2>6. ASSUME NEW s \in Savers, SaveOpen(s) \/ SaveWrite(s) \/ SaveRename(s) \/ SaveFails(s)
        PROVE  UNCHANGED <<granted, spent, decided>>
    BY <2>6, Zenon DEF SaveOpen, SaveWrite, SaveRename, SaveFails
  <2>7. ASSUME \/ LoadConfig \/ SaveConfig \/ Reload \/ UNCHANGED permissionsVars
               \/ \E id \in DOMAIN pending : Expire(id)
               \/ \E d \in Deciders : persistRules(d)
        PROVE  UNCHANGED <<granted, spent, decided>>
    BY <2>7, Zenon DEF LoadConfig, SaveConfig, Reload, Expire, persistRules, permissionsVars
  <2> QED
    BY <2>0, <2>1, <2>2, <2>3, <2>4, <2>5, <2>6, <2>7, Zenon DEF PermissionsNext
<1>3. GrantsInv => OneRunPerGrant
  BY Zenon DEF GrantsInv
<1> QED
  BY <1>1, <1>2, <1>3, PTL DEF PermissionsSpec

-----------------------------------------------------------------------------
(* Progress of the agent tool.                                             *)

\* What has been shown reaches at least as far as what is counted; once Wait has answered
\* for the run nothing is recorded any more, so the last flush counts all of it.
ProgressInv ==
  /\ run \in [status : {"none", "running", "done"}, lines : Nat]
  /\ request \in [at : {"idle", "start", "execute", "waiting", "returning", "answered"},
                  tool : {"", "agent", "agent_start", "agent_result", "other"}, budget : Nat]
  /\ poll \in Int /\ counted \in Nat /\ shown \in Seq(Nat)
  /\ poll <= run.lines /\ counted <= run.lines
  /\ counted > 0 => shown # <<>> /\ counted <= shown[Len(shown)] /\ shown[Len(shown)] <= run.lines
  /\ request.at = "execute" => request.tool # "agent"
  /\ request.at = "start" => waited = ""
  /\ request.at \in {"waiting", "returning"} /\ waited = "run" => run.status = "done"
  /\ request.at = "returning" /\ poll >= 0 /\ waited = "run" => poll = run.lines
  /\ reply = "result" /\ request.tool = "agent" => run.status = "done" /\ counted = run.lines

\* What the ring returns for new lines ends with the last one recorded.
LEMMA RingEnds ==
  ASSUME run.lines \in Nat, run.lines > 0, NEW n \in Nat, n > 0
  PROVE  /\ ringTail(n) \in Seq(Nat) /\ ringTail(n) # <<>>
         /\ ringTail(n)[Len(ringTail(n))] = run.lines
<1> DEFINE k == IF n <= RingCap THEN n ELSE RingCap
           m == IF k <= run.lines THEN k ELSE run.lines
<1>1. ringTail(n) = [i \in 1 .. m |-> run.lines - m + i]
  BY Zenon DEF ringTail
<1>2. m \in Nat /\ m > 0 /\ m <= run.lines
  BY ProgressAssumption
<1> HIDE DEF m, k
<1>3. \A i \in 1 .. m : run.lines - m + i \in Nat
  BY <1>2
<1>4. ringTail(n) \in Seq(Nat) /\ Len(ringTail(n)) = m
  BY <1>1, <1>2, <1>3
<1>5. ringTail(n)[m] = run.lines
  BY <1>1, <1>2
<1> QED
  BY <1>2, <1>4, <1>5

\* forwardRunEvents counts up to what Get returned, and shows the last line there is if
\* that is more than before.
LEMMA ForwardCounts ==
  ASSUME ProgressInv, poll >= 0, forwardRunEvents(poll)
  PROVE  /\ counted' \in Nat /\ shown' \in Seq(Nat) /\ counted' <= run.lines /\ counted' >= poll
         /\ counted' > 0 => shown' # <<>> /\ counted' <= shown'[Len(shown')] /\ shown'[Len(shown')] <= run.lines
<1>0. /\ run.lines \in Nat /\ poll \in Int /\ counted \in Nat /\ shown \in Seq(Nat)
      /\ poll <= run.lines /\ counted <= run.lines
      /\ counted > 0 => shown # <<>> /\ counted <= shown[Len(shown)] /\ shown[Len(shown)] <= run.lines
  BY Zenon DEF ProgressInv
<1>1. CASE poll <= counted
  <2>1. counted' = counted /\ shown' = shown
    BY <1>1, Zenon DEF forwardRunEvents
  <2> QED
    BY <1>0, <1>1, <2>1
<1>2. CASE ~(poll <= counted)
  <2>1. counted' = poll /\ shown' = shown \o ringTail(poll - counted)
    BY <1>2, Zenon DEF forwardRunEvents
  <2>2. poll - counted \in Nat /\ poll - counted > 0 /\ run.lines > 0 /\ poll \in Nat
    BY <1>0, <1>2
  <2>3. /\ ringTail(poll - counted) \in Seq(Nat) /\ ringTail(poll - counted) # <<>>
        /\ ringTail(poll - counted)[Len(ringTail(poll - counted))] = run.lines
    BY <1>0, <2>2, RingEnds, Zenon
  <2>4. shown' \in Seq(Nat) /\ shown' # <<>> /\ shown'[Len(shown')] = run.lines
    <3> DEFINE t == ringTail(poll - counted)
    <3>1. t \in Seq(Nat) /\ t # <<>> /\ t[Len(t)] = run.lines /\ shown' = shown \o t
      BY <2>1, <2>3, Zenon
    <3> HIDE DEF t
    <3>2. Len(t) \in Nat \ {0} /\ Len(shown) \in Nat /\ Len(shown') = Len(shown) + Len(t)
      BY <1>0, <3>1
    <3>3. shown'[Len(shown) + Len(t)] = t[Len(t)]
      BY <1>0, <3>1, <3>2
    <3> QED
      BY <1>0, <3>1, <3>2, <3>3
  <2>5. counted' \in Nat /\ counted' <= run.lines /\ counted' >= poll
    <3>1. counted' = poll /\ poll >= poll
      BY <2>1, <2>2
    <3> QED
      BY <1>0, <2>2, <3>1, Zenon
  <2>6. counted' <= shown'[Len(shown')] /\ shown'[Len(shown')] <= run.lines
    <3>1. run.lines <= run.lines
      BY <1>0
    <3> QED
      BY <2>4, <2>5, <3>1, Zenon
  <2> QED
    BY <2>4, <2>5, <2>6, Zenon
<1> QED
  BY <1>1, <1>2, Zenon

\* Every step of the run, of the call and of its poller keeps it.
LEMMA ProgressStep == ProgressInv /\ [ProgressNext]_progressVars => ProgressInv'
<1> SUFFICES ASSUME ProgressInv, [ProgressNext]_progressVars PROVE ProgressInv'
  BY Zenon
<1>0. /\ run \in [status : {"none", "running", "done"}, lines : Nat] /\ run.lines \in Nat
      /\ request \in [at : {"idle", "start", "execute", "waiting", "returning", "answered"},
                      tool : {"", "agent", "agent_start", "agent_result", "other"}, budget : Nat]
      /\ poll \in Int /\ counted \in Nat /\ shown \in Seq(Nat)
  BY Zenon DEF ProgressInv
<1>a. run.lines \in Nat /\ poll \in Int /\ counted \in Nat /\ shown \in Seq(Nat)
  BY <1>0, Zenon
<1>1. CASE Serve
  <2>1. \A tool, timeout : timeout \in {0, 1} => Budget(tool, timeout) \in Nat
    BY DEF Budget
  <2>2. /\ request' \in [at : {"start", "execute"}, tool : {"agent", "agent_start", "agent_result", "other"}, budget : Nat]
        /\ request'.at = "execute" => request'.tool # "agent"
    <3>1. PICK tool \in {"agent", "agent_start", "agent_result", "other"}, timeout \in {0, 1} :
            request' = [at |-> IF tool = "agent" THEN "start" ELSE "execute", tool |-> tool,
                        budget |-> Budget(tool, timeout)]
      BY <1>1, Zenon DEF Serve
    <3>2. Budget(tool, timeout) \in Nat
      BY <2>1, Zenon
    <3>3. CASE tool = "agent"
      BY <3>1, <3>2, <3>3, Zenon
    <3>4. CASE tool # "agent"
      BY <3>1, <3>2, <3>4, Zenon
    <3> QED
      BY <3>3, <3>4, Zenon
  <2>3. /\ waited' = "" /\ reply' = "" /\ run' = run /\ poll' = poll /\ counted' = counted /\ shown' = shown
    BY <1>1, Zenon DEF Serve
  <2>4. request'.at \in {"start", "execute"}
    BY <2>2, Zenon
  <2>5. request' \in [at : {"idle", "start", "execute", "waiting", "returning", "answered"},
                      tool : {"", "agent", "agent_start", "agent_result", "other"}, budget : Nat]
    BY <2>2, Zenon
  <2> QED
    BY <2>2, <2>3, <2>4, <2>5, Zenon DEF ProgressInv
<1>2. CASE StartRun
  <2>1. CASE run' = [run EXCEPT !.status = "running"] /\ request' = [request EXCEPT !.at = "waiting"]
             /\ reply' = reply /\ run.status = "none"
    <3>1. /\ waited = "" /\ waited' = waited /\ poll' = poll /\ counted' = counted /\ shown' = shown
      BY <1>2, Zenon DEF StartRun, ProgressInv
    <3> QED
      BY <1>0, <2>1, <3>1, Zenon DEF ProgressInv
  <2>2. CASE Answer("rejected") /\ run' = run
    <3>1. /\ waited' = waited /\ poll' = poll /\ counted' = counted /\ shown' = shown
          /\ reply' = "rejected" /\ request' = [request EXCEPT !.at = "answered"]
      BY <1>2, <2>2, Zenon DEF StartRun, Answer
    <3> QED
      BY <1>0, <2>2, <3>1, Zenon DEF ProgressInv
  <2> QED
    BY <1>2, <2>1, <2>2, Zenon DEF StartRun
<1>3. CASE Execute
  <2>1. /\ waited' = waited /\ poll' = poll /\ counted' = counted /\ shown' = shown
        /\ request' = [request EXCEPT !.at = "answered"]
        /\ run' = run \/ run' = [run EXCEPT !.status = "running"]
    BY <1>3, Zenon DEF Execute, Answer
  <2>2. request.tool # "agent"
    BY <1>3, Zenon DEF Execute, ProgressInv
  <2> QED
    BY <1>0, <2>1, <2>2, Zenon DEF ProgressInv
<1>4. CASE Record
  <2>1. /\ run.status = "running" /\ run' = [run EXCEPT !.lines = @ + 1]
        /\ request' = request /\ waited' = waited /\ poll' = poll /\ counted' = counted /\ shown' = shown /\ reply' = reply
    BY <1>4, Zenon DEF Record
  <2>2. /\ run' \in [status : {"none", "running", "done"}, lines : Nat]
        /\ run'.status = "running" /\ run'.lines = run.lines + 1
    <3>1. run.lines + 1 \in Nat
      BY <1>a
    <3> QED
      BY <1>0, <2>1, <3>1, Zenon
  <2>3. /\ poll <= run.lines /\ counted <= run.lines
        /\ counted > 0 => shown # <<>> /\ counted <= shown[Len(shown)] /\ shown[Len(shown)] <= run.lines
    BY Zenon DEF ProgressInv
  <2>4. /\ poll <= run'.lines /\ counted <= run'.lines
        /\ counted > 0 => shown # <<>> /\ counted <= shown[Len(shown)] /\ shown[Len(shown)] <= run'.lines
    <3>1. shown # <<>> => shown[Len(shown)] \in Nat
      BY <1>a
    <3>2. run'.lines = run.lines + 1
      BY <2>2, Zenon
    <3> QED
      BY <1>a, <2>3, <3>1, <3>2
  <2>5. ~(request.at \in {"waiting", "returning"} /\ waited = "run") /\ ~(reply = "result" /\ request.tool = "agent")
    BY <2>1, Zenon DEF ProgressInv
  <2> QED
    BY <2>1, <2>2, <2>4, <2>5, Zenon DEF ProgressInv
<1>5. CASE RunEnds
  <2>1. /\ run.status = "running" /\ run' = [run EXCEPT !.status = "done"]
        /\ request' = request /\ waited' = waited /\ poll' = poll /\ counted' = counted /\ shown' = shown /\ reply' = reply
    BY <1>5, Zenon DEF RunEnds
  <2> QED
    BY <1>0, <2>1, Zenon DEF ProgressInv
<1>6. CASE ContextEnds \/ UNCHANGED progressVars
  <2>1. /\ run' = run /\ request' = request /\ waited' = waited /\ poll' = poll
        /\ counted' = counted /\ shown' = shown /\ reply' = reply
    BY <1>6, Zenon DEF ContextEnds, progressVars
  <2> QED
    BY <2>1, Zenon DEF ProgressInv
<1>7. CASE Wait
  <2>1. /\ run' = run /\ request' = request /\ poll' = poll /\ counted' = counted /\ shown' = shown /\ reply' = reply
        /\ request.at = "waiting" /\ (waited' = "run" => run.status = "done")
    BY <1>7, Zenon DEF Wait
  <2> QED
    BY <2>1, Zenon DEF ProgressInv
<1>8. CASE Tick \/ LastFlush
  <2>1. /\ run' = run /\ waited' = waited /\ counted' = counted /\ shown' = shown /\ reply' = reply
        /\ request.at = "waiting" /\ poll' = run.lines
        /\ request' = request \/ request' = [request EXCEPT !.at = "returning"]
    BY <1>8, Zenon DEF Tick, LastFlush
  <2>2. run.lines \in Int /\ run.lines <= run.lines
    BY <1>a
  <2> QED
    BY <1>0, <2>1, <2>2, Zenon DEF ProgressInv
<1>9. CASE Flush
  <2>1. /\ run' = run /\ waited' = waited /\ poll >= 0 /\ poll' = -1 /\ forwardRunEvents(poll)
        /\ \/ request.at # "returning" /\ request' = request /\ reply' = reply
           \/ /\ request.at = "returning" /\ request' = [request EXCEPT !.at = "answered"]
              /\ reply' = IF waited = "run" THEN "result" ELSE "still going"
    BY <1>9, Zenon DEF Flush, Answer
  <2>2. /\ counted' \in Nat /\ shown' \in Seq(Nat) /\ counted' <= run.lines /\ counted' >= poll
        /\ counted' > 0 => shown' # <<>> /\ counted' <= shown'[Len(shown')] /\ shown'[Len(shown')] <= run.lines
    BY <2>1, ForwardCounts, Zenon
  <2>3. poll' \in Int /\ poll' <= run.lines /\ ~(poll' >= 0)
    <3>1. poll' = -1
      BY <2>1, Zenon
    <3> QED
      BY <1>a, <3>1
  <2>4. counted' >= counted
    <3>1. counted' = counted \/ (counted' = poll /\ ~(poll <= counted))
      BY <2>1, Zenon DEF forwardRunEvents
    <3> QED
      BY <1>a, <3>1
  <2>5. CASE request.at # "returning" /\ request' = request /\ reply' = reply
    <3>1. counted = run.lines => counted' = run.lines
      <4>1. counted' \in Nat /\ counted' <= run.lines
        BY <2>2, Zenon
      <4> QED
        BY <1>a, <2>4, <4>1
    <3> QED
      BY <1>0, <2>1, <2>2, <2>3, <2>5, <3>1, Zenon DEF ProgressInv
  <2>6. CASE request.at = "returning" /\ request' = [request EXCEPT !.at = "answered"]
             /\ reply' = IF waited = "run" THEN "result" ELSE "still going"
    <3>1. waited = "run" => run.status = "done" /\ poll = run.lines
      BY <2>1, <2>6, Zenon DEF ProgressInv
    <3>2. poll = run.lines => counted' = run.lines
      <4>1. counted' \in Nat /\ counted' <= run.lines /\ counted' >= poll
        BY <2>2, Zenon
      <4> QED
        BY <1>a, <4>1
    <3>3. request' \in [at : {"idle", "start", "execute", "waiting", "returning", "answered"},
                        tool : {"", "agent", "agent_start", "agent_result", "other"}, budget : Nat]
          /\ request'.at = "answered"
      BY <1>0, <2>6, Zenon
    <3>4. reply' = "result" => run.status = "done" /\ counted' = run.lines
      BY <2>6, <3>1, <3>2, Zenon
    <3> QED
      BY <1>0, <2>1, <2>2, <2>3, <3>3, <3>4, Zenon DEF ProgressInv
  <2> QED
    BY <2>1, <2>5, <2>6, Zenon
<1> QED
  BY <1>1, <1>2, <1>3, <1>4, <1>5, <1>6, <1>7, <1>8, <1>9, Zenon DEF ProgressNext

\* An agent call that returns the result of its run has shown the last line the run
\* recorded, whatever the ring keeps and however ticks, lines and the end of the run
\* interleave.
THEOREM LastLineIsShown == ProgressSpec => []LastLineShown
<1>1. ProgressInit => ProgressInv
  <2> SUFFICES ASSUME ProgressInit PROVE ProgressInv
    BY Zenon
  <2>1. /\ run = [status |-> "none", lines |-> 0] /\ request = [at |-> "idle", tool |-> "", budget |-> 0]
        /\ waited = "" /\ poll = -1 /\ counted = 0 /\ shown = <<>> /\ reply = ""
    BY Zenon DEF ProgressInit
  <2>2. 0 \in Nat /\ -1 \in Int /\ -1 <= 0 /\ 0 <= 0 /\ ~(0 > 0) /\ <<>> \in Seq(Nat)
    OBVIOUS
  <2>3. /\ run \in [status : {"none", "running", "done"}, lines : Nat] /\ run.lines = 0
        /\ request \in [at : {"idle", "start", "execute", "waiting", "returning", "answered"},
                        tool : {"", "agent", "agent_start", "agent_result", "other"}, budget : Nat]
        /\ request.at = "idle"
    BY <2>1, <2>2, Zenon
  <2> QED
    BY <2>1, <2>2, <2>3, Zenon DEF ProgressInv
<1>2. ASSUME ProgressInv PROVE LastLineShown
  <2>1. ASSUME reply = "result", request.tool = "agent", run.lines > 0
        PROVE  shown # <<>> /\ shown[Len(shown)] = run.lines
    <3>1. /\ counted = run.lines /\ run.lines \in Nat /\ shown \in Seq(Nat)
          /\ counted > 0 => shown # <<>> /\ counted <= shown[Len(shown)] /\ shown[Len(shown)] <= run.lines
      BY <1>2, <2>1, Zenon DEF ProgressInv
    <3>2. shown # <<>> => shown[Len(shown)] \in Nat
      BY <3>1
    <3> QED
      BY <2>1, <3>1, <3>2
  <2> QED
    BY <2>1, Zenon DEF LastLineShown
<1> QED
  BY <1>1, <1>2, ProgressStep, PTL DEF ProgressSpec

==============================================================================
