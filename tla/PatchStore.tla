----------------------------- MODULE PatchStore -----------------------------
(***************************************************************************)
(* Write mode of internal/agentops/write.go: apply_patch (and write and    *)
(* edit, which build a patch), rollback_patch, and the checkpoint store    *)
(* with its content-addressed blobs.                                       *)
(*                                                                         *)
(* A patch is planned against the files as they are, then writeMu is taken,*)
(* the files are read again into a checkpoint, and the plan is written     *)
(* file by file; rollback reads the store before it takes writeMu.  The    *)
(* contents of a file are a number, None when it is absent, Cut while or   *)
(* after a write that did not complete.  A blob is named by its contents.  *)
(***************************************************************************)
EXTENDS Integers, Sequences, FiniteSets

CONSTANTS Workers,     \* goroutines that serve the write tools
          Files,       \* paths in a writable workspace
          Contents,    \* contents a file may have
          Patches,     \* the patches that are sent: sequences of edits
          Kept,        \* maxCheckpointsKept
          Start,       \* the files at the start
          MaxCalls,    \* bound on the calls
          MaxFaults    \* bound on failed writes and crashes

\* applyPatch refuses a path twice or outside the workspace; a number is no goroutine.
ASSUME PatchAssumption ==
  /\ Kept \in Nat \ {0} /\ MaxCalls \in Nat /\ 0 \notin Workers
  /\ \A p \in Patches : /\ p \in Seq([path : Files, old : Contents \cup {0}, new : Contents \cup {0}])
                        /\ \A i, j \in DOMAIN p : p[i].path = p[j].path => i = j
ASSUME StartAssumption == Start \in [Files -> Contents \cup {0}]

VARIABLES files,    \* [Files -> contents]
          store,    \* checkpoints.json: a sequence of checkpoints
          blobs,    \* the blob directory
          lock,     \* the worker that holds writeMu, or None
          work,     \* [Workers -> the call it serves]
          calls, ioFaults

patchVars == <<files, store, blobs, lock, work, calls, ioFaults>>

None == 0
Cut == -1
Idle == [at |-> "idle", patch |-> <<>>, plan |-> <<>>, done |-> 0, cp |-> None, saved |-> <<>>]
GoTo(w, at) == work' = [work EXCEPT ![w].at = at]
Ids == {store[i].id : i \in DOMAIN store}
Find(id) == store[CHOOSE i \in DOMAIN store : store[i].id = id]

-----------------------------------------------------------------------------
(* apply_patch *)

\* The call names a patch; write mode, the number of edits, the paths and
\* the sizes are right, or it is refused without an effect.
ApplyPatch(w) ==
  /\ work[w].at = "idle" /\ calls < MaxCalls
  /\ \E p \in Patches : work' = [work EXCEPT ![w] = [Idle EXCEPT !.at = "plan", !.patch = p]]
  /\ calls' = calls + 1
  /\ UNCHANGED <<files, store, blobs, lock, ioFaults>>

\* create: the file must not exist; delete: the whole contents must match;
\* replace: old_text must occur.
Applies(e) == IF e.old = None THEN files[e.path] = None ELSE files[e.path] = e.old

\* One edit is planned from what the file holds now; a preview ends when all
\* are.
PlanEdit(w) ==
  LET n == Len(work[w].plan) + 1
  IN /\ work[w].at = "plan"
     /\ IF n > Len(work[w].patch)
          THEN \/ GoTo(w, "lock")
               \/ work' = [work EXCEPT ![w] = Idle]   \* preview
          ELSE IF Applies(work[w].patch[n])
                 THEN work' = [work EXCEPT ![w].plan = Append(@, work[w].patch[n])]
                 ELSE work' = [work EXCEPT ![w] = Idle]
     /\ UNCHANGED <<files, store, blobs, lock, calls, ioFaults>>

Lock(w) ==
  /\ work[w].at \in {"lock", "relock"} /\ lock = None
  /\ lock' = w
  /\ GoTo(w, IF work[w].at = "lock" THEN "checkpoint" ELSE "restore")
  /\ UNCHANGED <<files, store, blobs, calls, ioFaults>>

\* Mutant: the checkpoint keeps what was planned against.
createCheckpoint_Planned(w) ==
  /\ work[w].at = "checkpoint"
  /\ LET plan == work[w].plan
         entries == [i \in DOMAIN plan |-> [path |-> plan[i].path, was |-> plan[i].old]]
     IN /\ blobs' = blobs \cup ({entries[i].was : i \in DOMAIN entries} \ {None})
        /\ work' = [work EXCEPT ![w].at = "prune", ![w].saved = entries]
  /\ UNCHANGED <<files, store, lock, calls, ioFaults>>

\* createCheckpoint, storeBlob: the files as they are now, absent ones noted.
createCheckpoint(w) ==
  /\ work[w].at = "checkpoint"
  /\ LET plan == work[w].plan
         entries == [i \in DOMAIN plan |-> [path |-> plan[i].path, was |-> files[plan[i].path]]]
     IN /\ blobs' = blobs \cup ({entries[i].was : i \in DOMAIN entries} \ {None})
        /\ work' = [work EXCEPT ![w].at = "prune", ![w].saved = entries]
  /\ UNCHANGED <<files, store, lock, calls, ioFaults>>

Fresh == CHOOSE id \in 1 .. MaxCalls + 1 : id \notin Ids \cup {work[w].cp : w \in Workers}
Retained(cps) == IF Len(cps) > Kept THEN SubSeq(cps, Len(cps) - Kept + 1, Len(cps)) ELSE cps
Appended(w) == Retained(Append(store, [id |-> Fresh, files |-> work[w].saved]))

pruneBlobs(cps) ==
  {b \in blobs : \E i \in DOMAIN cps : \E j \in DOMAIN cps[i].files : cps[i].files[j].was = b}

\* appendCheckpoint prunes before the new store is on disk ...
Prune(w) ==
  /\ work[w].at = "prune"
  /\ blobs' = pruneBlobs(Appended(w))
  /\ GoTo(w, "append")
  /\ UNCHANGED <<files, store, lock, calls, ioFaults>>

\* ... and renames it into place.
appendCheckpoint(w) ==
  /\ work[w].at = "append"
  /\ store' = Appended(w)
  /\ work' = [work EXCEPT ![w].at = "write", ![w].cp = Fresh]
  /\ UNCHANGED <<files, blobs, lock, calls, ioFaults>>

\* A blob or the store cannot be written: the patch is refused, and what was
\* pruned stays pruned.
CheckpointFails(w) ==
  /\ work[w].at \in {"checkpoint", "prune", "append"}
  /\ ioFaults < MaxFaults /\ ioFaults' = ioFaults + 1
  /\ work' = [work EXCEPT ![w] = Idle]
  /\ lock' = None
  /\ UNCHANGED <<files, store, blobs, calls>>

Step(w) == work[w].plan[work[w].done + 1]
Remaining(w) == work[w].done < Len(work[w].plan)

\* Remove, or open with O_EXCL or O_TRUNC.  A file that is there already, or
\* is gone, makes create and delete fail.
WriteOpen(w) ==
  /\ work[w].at = "write" /\ Remaining(w)
  /\ LET e == Step(w)
     IN CASE e.new = None /\ files[e.path] # None ->
               /\ files' = [files EXCEPT ![e.path] = None]
               /\ work' = [work EXCEPT ![w].done = @ + 1]
          [] e.new # None /\ ~(e.old = None /\ files[e.path] # None) ->
               /\ files' = [files EXCEPT ![e.path] = Cut]
               /\ GoTo(w, "fill")
          [] OTHER -> GoTo(w, "undo") /\ UNCHANGED files
  /\ UNCHANGED <<store, blobs, lock, calls, ioFaults>>

WriteFill(w) ==
  /\ work[w].at = "fill"
  /\ files' = [files EXCEPT ![Step(w).path] = Step(w).new]
  /\ work' = [work EXCEPT ![w].at = "write", ![w].done = @ + 1]
  /\ UNCHANGED <<store, blobs, lock, calls, ioFaults>>

\* The remove, the open or the write fails.
WriteFails(w) ==
  /\ work[w].at = "fill" \/ (work[w].at = "write" /\ Remaining(w))
  /\ ioFaults < MaxFaults /\ ioFaults' = ioFaults + 1
  /\ GoTo(w, "undo")
  /\ UNCHANGED <<files, store, blobs, lock, calls>>

\* restorePartial: the edits that were applied, in turn, from their blobs.
restorePartial(w) ==
  /\ work[w].at = "undo"
  /\ files' = [f \in Files |->
       LET mine == {i \in 1 .. work[w].done : /\ work[w].saved[i].path = f
                                              /\ work[w].saved[i].was \in blobs \cup {None}}
       IN IF mine = {} THEN files[f] ELSE work[w].saved[CHOOSE i \in mine : TRUE].was]
  /\ GoTo(w, "failed")
  /\ UNCHANGED <<store, blobs, lock, calls, ioFaults>>

\* The call returns and writeMu is released.
Return(w) ==
  /\ \/ work[w].at \in {"failed", "rolledback", "incomplete"}
     \/ work[w].at = "write" /\ ~Remaining(w)
  /\ work' = [work EXCEPT ![w] = Idle]
  /\ lock' = None
  /\ UNCHANGED <<files, store, blobs, calls, ioFaults>>

-----------------------------------------------------------------------------
(* rollback_patch *)

\* The checkpoint is looked up before writeMu is taken.
RollbackPatch(w) ==
  /\ work[w].at = "idle" /\ calls < MaxCalls
  /\ \E id \in Ids : work' = [work EXCEPT ![w] =
       [Idle EXCEPT !.at = "relock", !.cp = id, !.saved = Find(id).files]]
  /\ calls' = calls + 1
  /\ UNCHANGED <<files, store, blobs, lock, ioFaults>>

\* Mutant: a file the patch created is left.
RestoreFile_Created(w) ==
  /\ work[w].at = "restore"
  /\ LET n == work[w].done + 1
         saved == work[w].saved
     IN IF n > Len(saved) THEN GoTo(w, "rolledback") /\ UNCHANGED files
        ELSE IF saved[n].was \in blobs
               THEN /\ files' = [files EXCEPT ![saved[n].path] = saved[n].was]
                    /\ work' = [work EXCEPT ![w].done = n]
               ELSE work' = [work EXCEPT ![w].done = n] /\ UNCHANGED files
  /\ UNCHANGED <<store, blobs, lock, calls, ioFaults>>

\* One file is restored or removed; a missing blob ends the rollback.
RestoreFile(w) ==
  /\ work[w].at = "restore"
  /\ LET n == work[w].done + 1
         saved == work[w].saved
     IN IF n > Len(saved) THEN GoTo(w, "rolledback") /\ UNCHANGED files
        ELSE IF saved[n].was \in blobs \cup {None}
               THEN /\ files' = [files EXCEPT ![saved[n].path] = saved[n].was]
                    /\ work' = [work EXCEPT ![w].done = n]
               ELSE GoTo(w, "incomplete") /\ UNCHANGED files
  /\ UNCHANGED <<store, blobs, lock, calls, ioFaults>>

\* A file cannot be removed, or its write does not complete.
RestoreFails(w) ==
  /\ work[w].at = "restore" /\ work[w].done < Len(work[w].saved)
  /\ ioFaults < MaxFaults /\ ioFaults' = ioFaults + 1
  /\ LET f == work[w].saved[work[w].done + 1]
     IN files' \in {files} \cup {[files EXCEPT ![f.path] = Cut] : x \in {f.was} \ {None}}
  /\ GoTo(w, "incomplete")
  /\ UNCHANGED <<store, blobs, lock, calls>>

\* The client dies and starts again: what is on disk stays.
Crash ==
  /\ \E w \in Workers : work[w].at # "idle"
  /\ ioFaults < MaxFaults /\ ioFaults' = ioFaults + 1
  /\ work' = [w \in Workers |-> Idle]
  /\ lock' = None
  /\ UNCHANGED <<files, store, blobs, calls>>

-----------------------------------------------------------------------------
PatchInit ==
  /\ files = Start /\ store = <<>> /\ blobs = {} /\ lock = None
  /\ work = [w \in Workers |-> Idle]
  /\ calls = 0 /\ ioFaults = 0

PatchNext ==
  \/ \E w \in Workers :
       \/ ApplyPatch(w) \/ PlanEdit(w) \/ Lock(w) \/ createCheckpoint(w) \/ Prune(w)
       \/ appendCheckpoint(w) \/ CheckpointFails(w) \/ WriteOpen(w) \/ WriteFill(w) \/ WriteFails(w)
       \/ restorePartial(w) \/ Return(w) \/ RollbackPatch(w) \/ RestoreFile(w) \/ RestoreFails(w)
  \/ Crash
-----------------------------------------------------------------------------
(* Properties *)

PatchTypeOK ==
  /\ files \in [Files -> Contents \cup {None, Cut}]
  /\ Len(store) <= Kept
  /\ blobs \subseteq Contents \cup {Cut}
  /\ lock \in Workers \cup {None}

\* A retained checkpoint can be rolled back: every blob it names is there,
\* whatever was pruned and wherever the client died, except that the oldest
\* of a full store may have lost its blobs to a crash or an error between
\* the pruning and the rename of the store.
BlobsKept ==
  \A i \in DOMAIN store :
    \/ \A j \in DOMAIN store[i].files : store[i].files[j].was \in blobs \cup {None}
    \/ i = 1 /\ Len(store) = Kept

\* "always create a local checkpoint before writing": a patch changes a file
\* only when a checkpoint in the store holds what the file had until then,
\* although the patch was planned outside writeMu.
CheckpointedFirst ==
  [][\A f \in Files, w \in Workers :
       files'[f] # files[f] /\ work[w].at = "write" /\ work'[w] # work[w] =>
         \E i \in DOMAIN store : /\ store[i].id = work[w].cp
                                 /\ \E j \in DOMAIN store[i].files :
                                      store[i].files[j] = [path |-> f, was |-> files[f]]]_patchVars

\* A rollback that reports success has put every file of the checkpoint back,
\* and removed those the patch had created.
RollbackExact ==
  \A w \in Workers :
    work[w].at = "rolledback" =>
      \A i \in DOMAIN work[w].saved : files[work[w].saved[i].path] = work[w].saved[i].was

\* A patch that fails leaves every file as it was before, but for the one
\* whose write failed.
FailedPatchRestores ==
  \A w \in Workers :
    work[w].at = "failed" =>
      \A i \in DOMAIN work[w].saved :
        i # work[w].done + 1 => files[work[w].saved[i].path] = work[w].saved[i].was

\* "any single failure aborts the whole patch (files already written are
\* restored from the checkpoint)": no file is left changed.
AllOrNothing ==
  \A w \in Workers :
    work[w].at = "failed" =>
      \A i \in DOMAIN work[w].saved : files[work[w].saved[i].path] = work[w].saved[i].was
=============================================================================
