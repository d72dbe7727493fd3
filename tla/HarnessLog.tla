----------------------------- MODULE HarnessLog -----------------------------
(***************************************************************************)
(* Reading a harness's session file while the harness writes it.           *)
(*                                                                         *)
(* The Codex and the OMP adapter index a JSONL file incrementally          *)
(* (indexSnapshot): the index remembers how far it got and where each      *)
(* record lies, and Read serves a page of the records after a cursor.  The *)
(* two adapters have the same code; they differ in what they read of the   *)
(* metadata and in whether Discover looks at the native id.                *)
(*                                                                         *)
(* Two sessions lie in the harness's directory: `other` is complete and    *)
(* never changes, `own` belongs to the run in question and is written,     *)
(* archived, rewritten or left half-written by its harness.  The context   *)
(* of a call is never cancelled: that only makes it fail with no effect.   *)
(***************************************************************************)
EXTENDS HarnessDiscovery

CONSTANTS Harnesses,    \* subset of {"codex", "omp"}
          PageLimit,    \* limit of a Read call, after clamping
          MaxRecords, MaxLogFaults, \* bounds
          None

ASSUME LogAssumption ==
  /\ PageLimit \in Nat \ {0} /\ MaxRecords \in Nat
  /\ MaxLogFaults \in Nat
  /\ Harnesses \subseteq {"codex", "omp"}

VARIABLES
  harness,  \* the harness of the run
  dir,      \* directory that holds the session: "sessions" or "archived"
  file,     \* its tokens
  pen,      \* the record the harness is writing, or None
  index,    \* adapter.indexes, by directory
  reader,   \* a caller that follows the session: its call, its cursor, what it got
  \* history: how often the file was rewritten, the harness died, the
  \* session was moved
  epoch, crashes, moves

logVars == <<harness, dir, file, pen, index, reader, epoch, crashes, moves>>

Dirs == {"sessions", "archived"}
OwnStart == 2
OtherStart == 3
Script == <<[type |-> "meta", id |-> "own", cwd |-> "root", at |-> OwnStart],
            [type |-> "user", text |-> "task"]>>
Turn == [type |-> "turn", model |-> "m", thinking |-> ""]
Odd == [type |-> "odd"]        \* valid JSON of an unexpected shape

\* Records written so far, whole or not.
Written(f) == Cardinality({i \in DOMAIN f : f[i].t = "half"})
NextRecords(f) ==
  IF Written(f) < Len(Script) THEN {Script[Written(f) + 1]} ELSE {Turn, Odd}

\* The records of a file in which every line is whole.
Complete(f) ==
  LET at == {i \in 1 .. Len(f) - 1 : Valid(SubSeq(f, i, i + 1))}
      order == InOrder(at, f)
  IN [i \in DOMAIN order |-> f[order[i]].of]

OtherMeta == [id |-> "other", cwd |-> "root", started |-> OtherStart,
              model |-> "m", thinking |-> "", users |-> <<"task">>]
Request == [root |-> "root", task |-> "task", at |-> OtherStart, native |-> "own"]

Faults == crashes + epoch + moves

EmptyIndex == [offset |-> 0, records |-> <<>>, epoch |-> epoch]
Idle == [pc |-> "idle", after |-> 0, path |-> "sessions",
         positions |-> <<>>, got |-> <<>>]

LogInit ==
  /\ harness \in Harnesses
  /\ dir = "sessions" /\ file = <<>> /\ pen = None
  /\ epoch = 0 /\ crashes = 0 /\ moves = 0
  /\ index = [d \in Dirs |-> EmptyIndex]
  /\ reader = Idle

-----------------------------------------------------------------------------
(* The harness, which is not part of the repository *)

\* A flush may end in the middle of a record, or before its newline.
WriteHalf ==
  /\ pen = None /\ Written(file) < MaxRecords
  /\ \E r \in NextRecords(file) : pen' = r /\ file' = Append(file, Half(r))
  /\ UNCHANGED <<harness, dir, index, reader, epoch, crashes, moves>>

WriteRest ==
  /\ pen # None /\ file[Len(file)].t = "half"
  /\ file' = Append(file, Rest(pen))
  /\ UNCHANGED <<harness, dir, pen, index, reader, epoch, crashes, moves>>

WriteNewline ==
  /\ pen # None /\ file[Len(file)].t = "rest"
  /\ file' = Append(file, EOL) /\ pen' = None
  /\ UNCHANGED <<harness, dir, index, reader, epoch, crashes, moves>>

\* It is killed in the middle of a line, and a later process appends to it.
Crash ==
  /\ pen # None /\ Faults < MaxLogFaults
  /\ crashes' = crashes + 1 /\ pen' = None
  /\ UNCHANGED <<harness, dir, file, index, reader, epoch, moves>>

\* The file is replaced by a new one; the size check of indexSnapshot is
\* there for this case.
Rewrite ==
  /\ pen = None /\ file # <<>> /\ Faults < MaxLogFaults
  /\ epoch' = epoch + 1 /\ file' = <<>>
  /\ UNCHANGED <<harness, dir, pen, index, reader, crashes, moves>>

Archive ==
  /\ pen = None /\ Faults < MaxLogFaults /\ harness = "codex"
  /\ moves' = moves + 1
  /\ \E d \in Dirs \ {dir} : dir' = d
  /\ UNCHANGED <<harness, file, pen, index, reader, epoch, crashes>>

-----------------------------------------------------------------------------
(* indexSnapshot, under the adapter's mutex *)

\* A file shorter than the index is a new file; otherwise the scan goes on
\* where it stopped, up to the first line that ends and is no JSON.  A last
\* line without an end is taken when it is JSON already.  A record longer
\* than maxCodexRecordBytes fails the scan as such a line does.  A scan that
\* fails keeps what it indexed.
Scan(f, base, stop) ==
  LET new == InOrder({i \in Good(f, base.offset) : i < stop}, f)
      ended == {e \in base.offset + 1 .. stop - 1 : f[e] = EOL}
  IN [ok |-> stop > Len(f),
      index |-> [offset |-> Max({base.offset} \cup ended \cup {new[i] + 1 : i \in DOMAIN new}),
                 records |-> base.records \o
                   [i \in DOMAIN new |-> [from |-> new[i],
                                          to |-> new[i] + IF new[i] + 1 = Len(f) THEN 1 ELSE 2]],
                 epoch |-> base.epoch]]
FirstBad(f, off) == Min({Len(f) + 1} \cup Bad(f, off))
indexSnapshot(f, idx) ==
  LET base == IF Len(f) < idx.offset THEN EmptyIndex ELSE idx
  IN Scan(f, base, FirstBad(f, base.offset))

\* The two adapters that hold such an index.
codexIndexSnapshot(f, idx) == indexSnapshot(f, idx)
ompIndexSnapshot(f, idx) == indexSnapshot(f, idx)

-----------------------------------------------------------------------------
(* Read *)

ReadMeta(f) == IF harness = "codex" THEN readCodexSessionMeta(f, OwnStart)
               ELSE readOMPSessionMeta(f, OwnStart)

\* A reader with a path uses it; one with an id looks for a session file
\* whose metadata has it.
resolveLocator(byId) ==
  IF ~byId THEN reader.path ELSE IF ReadMeta(file).ok THEN dir ELSE None

Indexed == IF harness = "codex" THEN codexIndexSnapshot(file, index[dir])
           ELSE ompIndexSnapshot(file, index[dir])

\* Read up to the snapshot of the index, by the reader's path or else by the
\* id.  The path of a file that was archived meanwhile is gone.
Snapshot ==
  /\ reader.pc = "idle"
  /\ IF \E byId \in BOOLEAN : resolveLocator(byId) = dir
       THEN /\ index' = [index EXCEPT ![dir] = Indexed.index]
            /\ reader' = IF Indexed.ok
                 THEN [reader EXCEPT !.pc = "read", !.path = dir,
                                     !.positions = Indexed.index.records]
                 ELSE [reader EXCEPT !.pc = "failed"]
       ELSE reader' = [reader EXCEPT !.pc = "failed"] /\ UNCHANGED index
  /\ UNCHANGED <<harness, dir, file, pen, epoch, crashes, moves>>

\* The snapshot another caller of the adapter takes.
OtherSnapshot ==
  /\ index' = [index EXCEPT ![dir] = Indexed.index]
  /\ UNCHANGED <<harness, dir, file, pen, reader, epoch, crashes, moves>>

\* What lies in the file at an indexed position now; a short read leaves
\* zero bytes at the end, which are no JSON.
At(pos) == IF pos.to > Len(file) THEN <<>>
           ELSE SelectSeq(SubSeq(file, pos.from, pos.to), LAMBDA t : t # EOL)
Parsed(pos) == Valid(At(pos)) /\ At(pos)[1].of # Odd

\* Mutant: a page that is not full is held back.
Page_Full ==
  SubSeq(reader.positions, reader.after + 1,
         IF reader.after + PageLimit > Len(reader.positions) THEN reader.after
         ELSE reader.after + PageLimit)

\* The page of positions after the cursor.
Page ==
  LET all == reader.positions
      start == Min({reader.after, Len(all)})
  IN SubSeq(all, start + 1, Min({start + PageLimit, Len(all)}))

\* The rest of Read, with its answer: the file is opened again, and one record that does not
\* parse fails the whole page.
ReadPage ==
  /\ reader.pc # "idle"
  /\ reader' =
       IF reader.pc = "read" /\ reader.path = dir /\ \A i \in DOMAIN Page : Parsed(Page[i])
         THEN [reader EXCEPT !.pc = "idle", !.positions = <<>>,
                             !.after = @ + Len(Page),
                             !.got = @ \o [i \in DOMAIN Page |-> At(Page[i])[1].of]]
         ELSE [reader EXCEPT !.pc = "idle", !.positions = <<>>]
  /\ UNCHANGED <<harness, dir, file, pen, index, epoch, crashes, moves>>

\* The metadata a Discover call made now would work from, and what it would
\* return for the run; it changes nothing.
Readable == IF ReadMeta(file).ok THEN <<OtherMeta, ReadMeta(file).meta>>
            ELSE <<OtherMeta>>
Discovered(req) == IF harness = "codex" THEN codexDiscover(Readable, req)
                   ELSE ompDiscover(Readable, req)

LogNext ==
  \/ WriteHalf \/ WriteRest \/ WriteNewline \/ Crash \/ Rewrite \/ Archive
  \/ Snapshot \/ OtherSnapshot \/ ReadPage

\* A harness that is alive ends the line it began.  The reader keeps polling:
\* it always may, so weak fairness of its two steps comes to the last two.
LogFairness ==
  /\ WF_logVars(WriteRest) /\ WF_logVars(WriteNewline)
  /\ []<>(reader.pc # "idle") /\ []<>(reader.pc = "idle")

LogSpec == LogInit /\ [][LogNext]_logVars
LogFairSpec == LogSpec /\ LogFairness
-----------------------------------------------------------------------------
(* Properties *)

Records == {Script[i] : i \in DOMAIN Script} \cup {Turn, Odd}
Positions == [from : Nat, to : Nat]

\* The index of a directory holds positions in the part of the file it has read.
LogTypeOK ==
  /\ dir \in Dirs /\ pen \in Records \cup {None}
  /\ \A i \in DOMAIN file : file[i] = EOL \/ file[i].of \in Records
  /\ \A d \in Dirs : /\ index[d].offset \in Nat
                     /\ \A i \in DOMAIN index[d].records :
                          /\ index[d].records[i] \in Positions
                          /\ index[d].records[i].from < index[d].offset
  /\ reader.pc \in {"idle", "read", "failed"} /\ reader.after \in Nat

\* Every position of an index that was built from the file as it is now is
\* the place of a whole record, and the index skips none: a record the
\* harness had flushed in pieces, or without its newline, is indexed once
\* (indexSnapshot of both adapters).
IndexExact ==
  \A d \in Dirs :
    d = dir /\ index[d].epoch = epoch =>
      IsPrefix([i \in DOMAIN index[d].records |->
                  LET l == At(index[d].records[i]) IN IF Valid(l) THEN l[1].of ELSE None],
               Complete(file))

\* A reader that follows the cursor gets the records of the session in
\* order, none twice and none left out, although pages are cut while the
\* harness writes, callers share the index and the session is archived
\* between two pages (Read; NextCursor is the position of the last record).
PagesExact ==
  epoch = 0 => /\ IsPrefix(reader.got, Complete(file))
               /\ Len(reader.got) = reader.after

Clean == epoch = 0 /\ crashes = 0 /\ \A i \in DOMAIN file : file[i] \notin {Half(Odd)}

\* Every record of a well-formed session reaches a reader that keeps
\* polling, wherever the session lies by then.
Followed ==
  \A n \in 1 .. MaxRecords :
    (Len(Complete(file)) >= n) ~> (Len(reader.got) >= n \/ ~Clean)

\* Discover takes the session whose native id the run learned, if that
\* session can be read at all (CodexSessionAdapter.Discover).
CodexNativePreferred ==
  harness = "codex" /\ ReadMeta(file).ok => Discovered(Request) = Request.native

\* What the comment of SessionDiscoverRequest.NativeID asks of every adapter.
NativePreferred == ReadMeta(file).ok => Discovered(Request) = Request.native
=============================================================================
