---------------------------- MODULE RuntimeStore ----------------------------
(***************************************************************************)
(* The durable runtime store of codebridged (internal/runtime): opening    *)
(* and migrating it, transactions over runs and computer sessions with     *)
(* their journal, and the readers behind runtime.events.                   *)
(* One connection serialises transactions, so a transaction is a working   *)
(* copy of the database that Commit puts in place.  The global position of *)
(* an event is its place in the journal.                                   *)
(***************************************************************************)
EXTENDS Integers, Sequences, FiniteSets

CONSTANTS RunIDs, ProviderSessions,
          SchemaVersion,    \* the version this binary reads and writes
          DefaultPage, MaxPage,   \* events of a page (defaultEventPage, maxEventPage)
          MaxEvents,        \* bound on the journal: a full disk
          MaxOps,           \* bound on the operations of one transaction
          MaxFailures       \* bound on crashes and failed writes

ASSUME StoreAssumption == SchemaVersion \in Nat \ {0} /\ DefaultPage \in Nat \ {0} /\ MaxPage \in Nat \ {0}
                          /\ MaxEvents \in Nat /\ MaxOps \in Nat /\ MaxFailures \in Nat

VARIABLES db,               \* what is committed
          tx,               \* the transaction under way
          store,            \* the process: "closed", "backedUp", "open", "refused"
          backups,          \* snapshots written before a migration
          reader,           \* a subscriber: its cursor and the events it has
          failures

storeVars == <<db, tx, store, backups, reader, failures>>

Terminal == {"completed", "failed", "cancelled", "timeout", "interrupted"}
Active == {"queued", "running"}
NoRun == [status |-> "none", ps |-> "none", last |-> 0]
NoTx == [on |-> FALSE, d |-> [version |-> 0], ops |-> 0]
StreamRun(r) == <<"run", r>>
StreamComputer == <<"computer">>
\* A database without tables; an older build's has tables and no ledger.
Empty == [version |-> 0, tables |-> FALSE, runs |-> [r \in RunIDs |-> NoRun],
          computer |-> [state |-> "none", controller |-> "none", epoch |-> 0], events |-> <<>>]

Fault == failures < MaxFailures /\ failures' = failures + 1

-----------------------------------------------------------------------------
(* Open *)

\* Mutant: the migration starts at once.
prepare_NoBackup ==
  /\ store = "closed"
  /\ store' = CASE db.version > SchemaVersion -> "refused" [] db.version = SchemaVersion -> "open"
                [] OTHER -> "backedUp"
  /\ UNCHANGED <<db, tx, backups, reader, failures>>

prepare ==
  /\ store = "closed"
  /\ store' = CASE db.version > SchemaVersion -> "refused" [] db.version = SchemaVersion -> "open"
                [] OTHER -> "backedUp"
  /\ backups' = IF db.version < SchemaVersion /\ db.tables THEN backups \cup {db} ELSE backups
  /\ UNCHANGED <<db, tx, reader, failures>>

\* The steps above the version, in one transaction with the ledger.
pendingMigrations(from) == (from + 1)..SchemaVersion
migrate ==
  /\ store = "backedUp"
  /\ \/ /\ pendingMigrations(db.version) # {}
        /\ db' = [db EXCEPT !.version = SchemaVersion, !.tables = TRUE]
        /\ store' = "open" /\ UNCHANGED failures
     \/ Fault /\ store' = "closed" /\ UNCHANGED db
  /\ UNCHANGED <<tx, backups, reader>>

\* The process ends at any moment; the open transaction is lost.
CrashStore ==
  /\ store \in {"open", "backedUp"} /\ Fault
  /\ store' = "closed" /\ tx' = NoTx
  /\ UNCHANGED <<db, backups, reader>>

-----------------------------------------------------------------------------
(* Operations on a database d; one that fails gives <<>>. *)

StreamHead(d, s) == Cardinality({i \in DOMAIN d.events : d.events[i].stream = s})
JournalHead(d) == Len(d.events)

\* MAX(seq) + 1 of the stream.
nextSeq(d, s) ==
  LET seqs == {d.events[i].seq : i \in {j \in DOMAIN d.events : d.events[j].stream = s}}
  IN 1 + (IF seqs = {} THEN 0 ELSE CHOOSE m \in seqs : \A n \in seqs : n <= m)

\* The event, and last_seq of the run whose stream it is.
AppendEvent(d, s, kind) ==
  LET n == nextSeq(d, s)
  IN IF Len(d.events) >= MaxEvents THEN <<>>
     ELSE <<[d EXCEPT !.events = Append(@, [stream |-> s, seq |-> n, kind |-> kind]),
                      !.runs = [r \in RunIDs |-> IF s = StreamRun(r) /\ d.runs[r].status # "none"
                                                 THEN [d.runs[r] EXCEPT !.last = n] ELSE d.runs[r]]]>>

\* idx_runs_active_provider_session.
activeConflict(d, r, row) ==
  /\ row.ps # "none" /\ row.status \in Active
  /\ \E q \in RunIDs \ {r} : d.runs[q].ps = row.ps /\ d.runs[q].status \in Active

\* last_seq of a row that is there is left alone.
putRun(d, r, row) ==
  IF activeConflict(d, r, row) THEN <<>>
  ELSE <<[d EXCEPT !.runs[r] = IF @.status = "none" THEN row ELSE [row EXCEPT !.last = d.runs[r].last]]>>

Then(res, Op(_)) == IF res = <<>> THEN <<>> ELSE Op(res[1])

runTransitions == [queued |-> {"running", "cancelled"},
                   running |-> {"completed", "failed", "cancelled", "timeout", "interrupted"}]
canTransition(from, to) == from \in DOMAIN runTransitions /\ to \in runTransitions[from]

\* Mutant: an event that cannot be written is let go.
TransitionRun_Forgives(d, r, to) ==
  IF ~canTransition(d.runs[r].status, to) THEN <<>>
  ELSE Then(putRun(d, r, [d.runs[r] EXCEPT !.status = to]),
            LAMBDA e : LET a == AppendEvent(e, StreamRun(r), to) IN IF a = <<>> THEN <<e>> ELSE a)
TransitionRun(d, r, to) ==
  IF ~canTransition(d.runs[r].status, to) THEN <<>>
  ELSE Then(putRun(d, r, [d.runs[r] EXCEPT !.status = to]), LAMBDA e : AppendEvent(e, StreamRun(r), to))

\* A new row with the event of its status.
CreateRun(d, r, st, ps) ==
  IF d.runs[r].status # "none" THEN <<>>
  ELSE Then(putRun(d, r, [status |-> st, ps |-> ps, last |-> 0]), LAMBDA e : AppendEvent(e, StreamRun(r), st))

\* A row that was read, put back after an event was appended.
UpdateRun(d, r) ==
  IF d.runs[r].status = "none" THEN <<>>
  ELSE Then(AppendEvent(d, StreamRun(r), "agent.message"), LAMBDA e : putRun(e, r, d.runs[r]))

putComputerSession(d, row) == <<[d EXCEPT !.computer = row]>>

SetComputerController(d, c) ==
  IF d.computer.state = "none" THEN <<>>
  ELSE Then(putComputerSession(d, [d.computer EXCEPT !.controller = c, !.epoch = @ + 1]),
            LAMBDA e : AppendEvent(e, StreamComputer, "computer.controller.changed"))

\* A new session, without a controller.
CreateComputerSession(d) ==
  IF d.computer.state # "none" THEN <<>> ELSE putComputerSession(d, [d.computer EXCEPT !.state = "active"])

Results(d) ==
  {CreateRun(d, r, st, ps) : r \in RunIDs, st \in Active, ps \in ProviderSessions}
  \cup {TransitionRun(d, r, to) : r \in RunIDs, to \in {"running", "completed", "cancelled"}}
  \cup {UpdateRun(d, r) : r \in RunIDs}
  \cup {SetComputerController(d, c) : c \in {"agent", "human"}}
  \cup {CreateComputerSession(d)}

-----------------------------------------------------------------------------
(* Update *)

Begin ==
  /\ store = "open" /\ ~tx.on
  /\ tx' = [on |-> TRUE, d |-> db, ops |-> 0]
  /\ UNCHANGED <<db, store, backups, reader, failures>>

Operate ==
  /\ tx.on /\ tx.ops < MaxOps
  /\ \E res \in Results(tx.d) :
       tx' = IF res = <<>> THEN NoTx ELSE [tx EXCEPT !.d = res[1], !.ops = @ + 1]
  /\ UNCHANGED <<db, store, backups, reader, failures>>

Rollback ==
  /\ tx.on /\ Fault
  /\ tx' = NoTx
  /\ UNCHANGED <<db, store, backups, reader>>

Commit ==
  /\ tx.on /\ tx.ops > 0
  /\ db' = tx.d /\ tx' = NoTx
  /\ UNCHANGED <<store, backups, reader, failures>>

-----------------------------------------------------------------------------
(* runtime.events *)

Limits == {0, MaxPage + 1}
eventPageLimit(limit) == IF limit <= 0 THEN DefaultPage ELSE IF limit > MaxPage THEN MaxPage ELSE limit
EventsAfter(pos, limit) ==
  {p \in (pos + 1)..JournalHead(db) : p <= pos + eventPageLimit(limit)}

EventsForStream(s, seq, limit) ==
  SelectSeq(db.events, LAMBDA e : e.stream = s /\ seq < e.seq /\ e.seq <= seq + eventPageLimit(limit))
ValidateContiguous(evs, after) == \A i \in DOMAIN evs : evs[i].seq = after + i

\* Mutant: the cursor of the answer is the head of the journal.
nextPos_Head(after, page) == JournalHead(db)
nextPos(after, page) == IF page = {} THEN after ELSE CHOOSE p \in page : \A q \in page : q <= p

\* The pool has one connection: no read during a transaction.
handleRuntimeEvents ==
  /\ store = "open" /\ ~tx.on
  /\ \E limit \in Limits :
       LET page == EventsAfter(reader.pos, limit)
       IN reader' = [pos |-> nextPos(reader.pos, page), has |-> reader.has \cup {<<p, db.events[p]>> : p \in page}]
  /\ UNCHANGED <<db, tx, store, backups, failures>>

-----------------------------------------------------------------------------
StoreInit ==
  /\ db \in {Empty, [Empty EXCEPT !.tables = TRUE], [Empty EXCEPT !.tables = TRUE, !.version = SchemaVersion + 1]}
  /\ tx = NoTx /\ store = "closed" /\ backups = {} /\ failures = 0
  /\ reader = [pos |-> 0, has |-> {}]

StoreNext == prepare \/ migrate \/ CrashStore \/ Begin \/ Operate \/ Rollback \/ Commit \/ handleRuntimeEvents

-----------------------------------------------------------------------------
(* Properties *)

\* A replay of a stream from any place, page by page, has the numbers that
\* follow, without a gap, and ends only at the head of the stream: through
\* failed transactions, crashes and other streams in between.
ReplayContiguous ==
  \A s \in {StreamRun(r) : r \in RunIDs} \cup {StreamComputer}, limit \in Limits : \A after \in 0..StreamHead(db, s) :
    LET page == EventsForStream(s, after, limit)
    IN ValidateContiguous(page, after) /\ (page = <<>> => after = StreamHead(db, s))

\* last_seq of a run is the head of its stream, also when a row is put back
\* that was read before an event was appended.
LastSeqIsHead == \A r \in RunIDs : db.runs[r].status # "none" => db.runs[r].last = StreamHead(db, StreamRun(r))

\* The journal tells the state: the last lifecycle event of a run is its
\* status.
JournalTellsState ==
  \A r \in RunIDs :
    LET own == {i \in DOMAIN db.events : db.events[i].stream = StreamRun(r) /\ db.events[i].kind # "agent.message"}
    IN db.runs[r].status = IF own = {} THEN "none" ELSE db.events[CHOOSE i \in own : \A j \in own : j <= i].kind

\* At most one active run refers to a provider session
\* (idx_runs_active_provider_session), however runs are created, moved on and put back.
OneActiveRun ==
  \A q, r \in RunIDs : q # r /\ {db.runs[q].status, db.runs[r].status} \subseteq Active =>
    db.runs[q].ps = "none" \/ db.runs[q].ps # db.runs[r].ps

\* A subscriber that follows next_pos has every event up to its cursor, once,
\* and what it has is what the journal says.
ReaderMissesNothing == reader.has = {<<p, db.events[p]>> : p \in 1..reader.pos}

\* Every controller change raises the epoch, and each epoch has its event.
EpochCountsChanges == db.computer.epoch = StreamHead(db, StreamComputer)

\* A migration of a store that had tables leaves a backup of it, and a store of
\* a newer version is never written.
MigrationKeepsOld == [][/\ (db.tables /\ db'.version # db.version => db \in backups)
                        /\ (db.version > SchemaVersion => db' = db)]_storeVars
=============================================================================
