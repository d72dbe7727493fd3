------------------------ MODULE RuntimeStore_proofs ------------------------
(***************************************************************************)
(* Proofs about the runtime store, for any runs, provider sessions, page   *)
(* sizes and bounds.  DbInv says of one database what the invariants say   *)
(* of the committed one; it holds of a transaction's copy between any two  *)
(* operations, so that it may be committed after any of them.  Inside an   *)
(* operation, between the row and its event, it does not hold.             *)
(***************************************************************************)
EXTENDS RuntimeStore, FiniteSetTheorems, TLAPS

StoreSpec == StoreInit /\ [][StoreNext]_storeVars

\* What a value of db or of a transaction's copy looks like.
DbShape(d) ==
  /\ DOMAIN d = DOMAIN Empty /\ d.version \in Nat
  /\ d.runs = [r \in RunIDs |-> d.runs[r]] /\ \A r \in RunIDs : DOMAIN d.runs[r] = DOMAIN NoRun
  /\ DOMAIN d.computer = DOMAIN Empty.computer
  /\ Len(d.events) \in Nat /\ d.events = [i \in 1..Len(d.events) |-> d.events[i]]

\* The events of a stream, and those among them that change the status of a run.
OfStream(d, s) == {i \in DOMAIN d.events : d.events[i].stream = s}
Own(d, r) == {i \in DOMAIN d.events : d.events[i].stream = StreamRun(r) /\ d.events[i].kind # "agent.message"}

\* JournalTellsState, of any database: the status is the kind of the last of them.
Tells(d, r) ==
  IF Own(d, r) = {} THEN d.runs[r].status = "none"
  ELSE \E i \in Own(d, r) : (\A j \in Own(d, r) : j <= i) /\ d.events[i].kind = d.runs[r].status

\* The numbers of a stream are 1 to its head.
Streams == {StreamRun(r) : r \in RunIDs} \cup {StreamComputer}
Numbered(d, s) == StreamHead(d, s) \in Nat /\ {d.events[i].seq : i \in OfStream(d, s)} = 1..StreamHead(d, s)

OneActive(d) ==
  \A q, r \in RunIDs : q # r /\ {d.runs[q].status, d.runs[r].status} \subseteq Active =>
    d.runs[q].ps = "none" \/ d.runs[q].ps # d.runs[r].ps

DbInv(d) ==
  /\ DbShape(d)
  /\ \A r \in RunIDs : Tells(d, r)
  /\ OneActive(d)
  /\ \A s \in Streams : Numbered(d, s)
  /\ \A r \in RunIDs : d.runs[r].status # "none" => d.runs[r].last = StreamHead(d, StreamRun(r))
  /\ d.computer.epoch = StreamHead(d, StreamComputer)

\* e's journal continues d's.
Continues(d, e) == Len(d.events) <= Len(e.events) /\ \A i \in 1..Len(d.events) : e.events[i] = d.events[i]

TxInv ==
  /\ DOMAIN tx = DOMAIN NoTx
  /\ tx.on => store = "open" /\ DbInv(tx.d) /\ tx.d.version = db.version /\ Continues(db, tx.d)
VersionInv ==
  /\ store = "open" => db.version = SchemaVersion
  /\ store = "backedUp" => db.version < SchemaVersion /\ (db.tables => db \in backups)
ReaderInv ==
  /\ DOMAIN reader = {"pos", "has"}
  /\ reader.pos \in Nat /\ reader.pos <= Len(db.events)
  /\ ReaderMissesNothing

StoreInv == DbInv(db) /\ TxInv /\ VersionInv /\ ReaderInv

-----------------------------------------------------------------------------
(* The journal *)

\* What Append does to a journal, entry by entry.
LEMMA AppendShape ==
  ASSUME NEW es, Len(es) \in Nat, es = [i \in 1..Len(es) |-> es[i]], NEW ev
  PROVE  /\ Len(Append(es, ev)) = Len(es) + 1
         /\ Append(es, ev) = [i \in 1..(Len(es) + 1) |-> Append(es, ev)[i]]
         /\ \A i \in 1..Len(es) : Append(es, ev)[i] = es[i]
         /\ Append(es, ev)[Len(es) + 1] = ev
<1>. DEFINE S == {es[i] : i \in 1..Len(es)} \cup {ev}
<1>1. es \in Seq(S) /\ ev \in S
  <2>1. es \in [1..Len(es) -> S]
    BY Zenon
  <2>. QED
    BY <2>1
<1>. HIDE DEF S
<1>2. /\ Append(es, ev) \in Seq(S) /\ Len(Append(es, ev)) = Len(es) + 1
      /\ \A i \in 1..Len(es) : Append(es, ev)[i] = es[i]
      /\ Append(es, ev)[Len(es) + 1] = ev
  BY <1>1
<1>3. ASSUME NEW q \in Seq(S) PROVE q = [i \in 1..Len(q) |-> q[i]]
  <2>1. q \in [1..Len(q) -> S]
    OBVIOUS
  <2>. QED
    BY <2>1, Zenon
<1>. QED
  BY <1>2, <1>3, Zenon

\* AppendEvent that succeeds: one entry more, and only last_seq of the run of
\* the stream changes.
Appended(d, s, kind, e) ==
  /\ DbShape(e) /\ e.version = d.version /\ e.tables = d.tables /\ e.computer = d.computer
  /\ Len(e.events) = Len(d.events) + 1 /\ Continues(d, e)
  /\ LET ev == e.events[Len(d.events) + 1]
     IN ev.stream = s /\ ev.kind = kind /\ ev.seq = nextSeq(d, s)
  /\ \A r \in RunIDs :
       /\ e.runs[r].status = d.runs[r].status /\ e.runs[r].ps = d.runs[r].ps
       /\ e.runs[r].last = IF s = StreamRun(r) /\ d.runs[r].status # "none" THEN nextSeq(d, s) ELSE d.runs[r].last

\* AppendEvent does what Appended says, or nothing.
LEMMA AppendEventAppends ==
  ASSUME NEW d, DbShape(d), NEW s, NEW kind, AppendEvent(d, s, kind) # <<>>
  PROVE  /\ AppendEvent(d, s, kind) = <<AppendEvent(d, s, kind)[1]>>
         /\ Appended(d, s, kind, AppendEvent(d, s, kind)[1])
<1>. DEFINE n == nextSeq(d, s)
            ev == [stream |-> s, seq |-> n, kind |-> kind]
            R == [r \in RunIDs |-> IF s = StreamRun(r) /\ d.runs[r].status # "none"
                                   THEN [d.runs[r] EXCEPT !.last = n] ELSE d.runs[r]]
            e == [d EXCEPT !.events = Append(d.events, ev), !.runs = R]
<1>1. AppendEvent(d, s, kind) = <<e>>
  BY Zenon DEF AppendEvent
<1>2. AppendEvent(d, s, kind)[1] = e
  BY <1>1
<1>3. /\ R = [r \in RunIDs |-> R[r]]
      /\ \A r \in RunIDs : /\ DOMAIN R[r] = DOMAIN NoRun /\ R[r].status = d.runs[r].status /\ R[r].ps = d.runs[r].ps
                           /\ R[r].last = IF s = StreamRun(r) /\ d.runs[r].status # "none" THEN n ELSE d.runs[r].last
  BY Zenon DEF DbShape, NoRun
<1>4. ev.stream = s /\ ev.kind = kind /\ ev.seq = n
  BY Zenon
<1>5. /\ DOMAIN e = DOMAIN Empty /\ e.version = d.version /\ e.tables = d.tables /\ e.computer = d.computer
      /\ e.events = Append(d.events, ev) /\ e.runs = R
  BY Zenon DEF DbShape, Empty
<1>. HIDE DEF n, ev, R, e
<1>6. /\ Len(e.events) = Len(d.events) + 1
      /\ e.events = [i \in 1..Len(e.events) |-> e.events[i]]
      /\ \A i \in 1..Len(d.events) : e.events[i] = d.events[i]
      /\ e.events[Len(d.events) + 1] = ev
  BY <1>5, AppendShape DEF DbShape
<1>7. DbShape(e)
  BY <1>3, <1>5, <1>6 DEF DbShape
<1>8. Appended(d, s, kind, e)
  BY <1>3, <1>4, <1>5, <1>6, <1>7 DEF Appended, Continues, DbShape, n
<1>. QED
  BY <1>1, <1>2, <1>8, Zenon

\* A stream is finite, so its head is a number.
LEMMA OfStreamFinite ==
  ASSUME NEW d, DbShape(d), NEW s
  PROVE  IsFiniteSet(OfStream(d, s)) /\ StreamHead(d, s) = Cardinality(OfStream(d, s))
<1>1. OfStream(d, s) \subseteq 1..Len(d.events)
  BY Zenon DEF OfStream, DbShape
<1>2. IsFiniteSet(1..Len(d.events))
  BY FS_Interval DEF DbShape
<1>. QED
  BY <1>1, <1>2, FS_Subset, Zenon DEF StreamHead, OfStream

\* The head of a stream counts the entry that was appended, and no other.
LEMMA HeadAppended ==
  ASSUME NEW d, DbShape(d), NEW s, NEW kind, NEW e, Appended(d, s, kind, e), NEW t
  PROVE  /\ OfStream(e, t) = OfStream(d, t) \cup (IF t = s THEN {Len(d.events) + 1} ELSE {})
         /\ StreamHead(d, t) \in Nat
         /\ StreamHead(e, t) = StreamHead(d, t) + (IF t = s THEN 1 ELSE 0)
<1>0. DOMAIN d.events = 1..Len(d.events) /\ DOMAIN e.events = 1..(Len(d.events) + 1) /\ Len(d.events) \in Nat
  BY Zenon DEF DbShape, Appended
<1>1. OfStream(e, t) = OfStream(d, t) \cup (IF t = s THEN {Len(d.events) + 1} ELSE {})
  <2>1. \A i \in 1..Len(d.events) : e.events[i] = d.events[i]
    BY Zenon DEF Appended, Continues
  <2>2. e.events[Len(d.events) + 1].stream = s
    BY Zenon DEF Appended
  <2>3. 1..(Len(d.events) + 1) = (1..Len(d.events)) \cup {Len(d.events) + 1}
    BY <1>0
  <2>4. \A i : i \in OfStream(e, t) <=> i \in 1..(Len(d.events) + 1) /\ e.events[i].stream = t
    BY <1>0, Zenon DEF OfStream
  <2>5. \A i : i \in OfStream(d, t) <=> i \in 1..Len(d.events) /\ d.events[i].stream = t
    BY <1>0, Zenon DEF OfStream
  <2>. QED
    BY <2>1, <2>2, <2>3, <2>4, <2>5, Zenon
<1>2. Len(d.events) + 1 \notin OfStream(d, t)
  BY <1>0 DEF OfStream
<1>3. DbShape(e)
  BY Zenon DEF Appended
<1>4. IsFiniteSet(OfStream(d, t)) /\ StreamHead(d, t) = Cardinality(OfStream(d, t))
  BY OfStreamFinite, Zenon
<1>5. StreamHead(e, t) = Cardinality(OfStream(e, t))
  BY <1>3, OfStreamFinite, Zenon
<1>6. Cardinality(OfStream(d, t)) \in Nat
  BY <1>4, FS_CardinalityType, Zenon
<1>7. CASE t = s
  <2>1. OfStream(e, t) = OfStream(d, t) \cup {Len(d.events) + 1}
    BY <1>1, <1>7, Zenon
  <2>2. Cardinality(OfStream(d, t) \cup {Len(d.events) + 1}) = Cardinality(OfStream(d, t)) + 1
    BY <1>2, <1>4, FS_AddElement, Zenon
  <2>. QED
    BY <1>1, <1>4, <1>5, <1>6, <1>7, <2>1, <2>2, Zenon
<1>8. CASE t # s
  BY <1>1, <1>4, <1>5, <1>6, <1>8
<1>. QED
  BY <1>1, <1>4, <1>6, <1>7, <1>8, Zenon

\* MAX(seq) + 1 is the number after the head.
LEMMA NextIsHead ==
  ASSUME NEW d, NEW s, Numbered(d, s)
  PROVE  nextSeq(d, s) = StreamHead(d, s) + 1
<1>. DEFINE h == StreamHead(d, s)
            seqs == {d.events[i].seq : i \in {j \in DOMAIN d.events : d.events[j].stream = s}}
<1>1. h \in Nat /\ seqs = 1..h
  BY Zenon DEF Numbered, OfStream
<1>2. nextSeq(d, s) = 1 + (IF seqs = {} THEN 0 ELSE CHOOSE m \in seqs : \A n \in seqs : n <= m)
  BY Zenon DEF nextSeq
<1>. HIDE DEF h, seqs
<1>3. CASE h = 0
  BY <1>1, <1>2, <1>3 DEF h
<1>4. CASE h # 0
  <2>1. h \in seqs /\ \A n \in seqs : n <= h
    BY <1>1, <1>4
  <2>2. \A m \in seqs : (\A n \in seqs : n <= m) => m = h
    BY <1>1, <2>1
  <2>3. (CHOOSE m \in seqs : \A n \in seqs : n <= m) = h
    BY <2>1, <2>2, Zenon
  <2>4. seqs # {}
    BY <2>1, Zenon
  <2>. QED
    BY <1>1, <1>2, <2>3, <2>4 DEF h
<1>. QED
  BY <1>3, <1>4, Zenon

\* Streams of two runs, and of a run and the computer session, are different.
LEMMA StreamsDiffer ==
  ASSUME NEW q \in RunIDs, NEW r \in RunIDs
  PROVE  (StreamRun(q) = StreamRun(r) => q = r) /\ StreamRun(q) # StreamComputer
BY Zenon DEF StreamRun, StreamComputer

\* What is said of the streams and of the other runs outlives an event.
LEMMA AppendedKeeps ==
  ASSUME NEW d, DbShape(d), \A s \in Streams : Numbered(d, s), NEW s \in Streams, NEW kind, NEW e,
         Appended(d, s, kind, e)
  PROVE  /\ \A t \in Streams : Numbered(e, t)
         /\ \A r \in RunIDs : StreamRun(r) # s \/ kind = "agent.message" => (Tells(d, r) => Tells(e, r))
         /\ \A r \in RunIDs : StreamRun(r) = s /\ kind # "agent.message" /\ kind = d.runs[r].status => Tells(e, r)
         /\ \A r \in RunIDs : IF StreamRun(r) = s /\ d.runs[r].status # "none"
                              THEN e.runs[r].last = StreamHead(e, StreamRun(r))
                              ELSE e.runs[r].last = d.runs[r].last
         /\ OneActive(d) => OneActive(e)
<1>. DEFINE L == Len(d.events)
<1>0. /\ DOMAIN d.events = 1..L /\ DOMAIN e.events = 1..(L + 1) /\ L \in Nat
      /\ \A i \in 1..L : e.events[i] = d.events[i]
      /\ e.events[L + 1].stream = s /\ e.events[L + 1].kind = kind /\ e.events[L + 1].seq = nextSeq(d, s)
  BY Zenon DEF DbShape, Appended, Continues
<1>1. nextSeq(d, s) = StreamHead(d, s) + 1
  BY NextIsHead, Zenon
<1>2. \A t : /\ OfStream(e, t) = OfStream(d, t) \cup (IF t = s THEN {L + 1} ELSE {})
             /\ StreamHead(d, t) \in Nat /\ StreamHead(e, t) = StreamHead(d, t) + (IF t = s THEN 1 ELSE 0)
  BY HeadAppended
<1>3. \A r \in RunIDs : e.runs[r].status = d.runs[r].status /\ e.runs[r].ps = d.runs[r].ps
  BY Zenon DEF Appended
<1>4. ASSUME NEW t \in Streams PROVE Numbered(e, t)
  <2>1. \A i \in OfStream(d, t) : i \in 1..L /\ e.events[i] = d.events[i]
    BY <1>0, Zenon DEF OfStream
  <2>2. {d.events[i].seq : i \in OfStream(d, t)} = 1..StreamHead(d, t)
    BY Zenon DEF Numbered
  <2>3. CASE t = s
    <3>1. OfStream(e, t) = OfStream(d, t) \cup {L + 1}
      BY <1>2, <2>3, Zenon
    <3>2. {e.events[i].seq : i \in OfStream(e, t)} = {d.events[i].seq : i \in OfStream(d, t)} \cup {nextSeq(d, s)}
      <4>1. /\ e.events[L + 1].seq = nextSeq(d, s)
            /\ \A i \in OfStream(d, t) : e.events[i].seq = d.events[i].seq
        BY <1>0, <2>1, Zenon
      <4> QED
        BY <3>1, <4>1, ZenonT(60)
    <3>3. StreamHead(e, t) = StreamHead(d, t) + 1 /\ StreamHead(d, t) \in Nat
      BY <1>2, <2>3, Zenon
    <3>4. (1..StreamHead(d, t)) \cup {StreamHead(d, t) + 1} = 1..(StreamHead(d, t) + 1) /\ StreamHead(d, t) + 1 \in Nat
      BY <3>3
    <3>. QED
      BY <1>1, <2>2, <2>3, <3>2, <3>3, <3>4, Zenon DEF Numbered
  <2>4. CASE t # s
    <3>1. OfStream(e, t) = OfStream(d, t)
      BY <1>2, <2>4, Zenon
    <3>2. StreamHead(e, t) = StreamHead(d, t) /\ StreamHead(d, t) \in Nat
      BY <1>2, <2>4
    <3>3. {e.events[i].seq : i \in OfStream(e, t)} = {d.events[i].seq : i \in OfStream(d, t)}
      BY <2>1, <3>1, Zenon
    <3>. QED
      BY <2>2, <3>2, <3>3, Zenon DEF Numbered
  <2>. QED
    BY <2>3, <2>4, Zenon
<1>5. ASSUME NEW r \in RunIDs
      PROVE  /\ Own(e, r) = Own(d, r) \cup (IF StreamRun(r) = s /\ kind # "agent.message" THEN {L + 1} ELSE {})
             /\ \A i \in Own(d, r) : i \in 1..L /\ e.events[i] = d.events[i]
  <2>1. 1..(L + 1) = (1..L) \cup {L + 1}
    BY <1>0
  <2>2. \A i : i \in Own(e, r) <=> i \in 1..(L + 1) /\ e.events[i].stream = StreamRun(r) /\ e.events[i].kind # "agent.message"
    BY <1>0, Zenon DEF Own
  <2>3. \A i : i \in Own(d, r) <=> i \in 1..L /\ d.events[i].stream = StreamRun(r) /\ d.events[i].kind # "agent.message"
    BY <1>0, Zenon DEF Own
  <2>. QED
    BY <1>0, <2>1, <2>2, <2>3, ZenonT(60)
<1>6. ASSUME NEW r \in RunIDs, StreamRun(r) # s \/ kind = "agent.message", Tells(d, r) PROVE Tells(e, r)
  <2>1. Own(e, r) = Own(d, r)
    BY <1>5, <1>6, Zenon
  <2>. QED
    BY <1>3, <1>5, <1>6, <2>1, Zenon DEF Tells
<1>7. ASSUME NEW r \in RunIDs, StreamRun(r) = s, kind # "agent.message", kind = d.runs[r].status PROVE Tells(e, r)
  <2>1. Own(e, r) = Own(d, r) \cup {L + 1}
    BY <1>5, <1>7, Zenon
  <2>2. \A j \in Own(e, r) : j <= L + 1
    BY <1>0, <1>5, <2>1
  <2>. QED
    BY <1>0, <1>3, <1>7, <2>1, <2>2, Zenon DEF Tells
<1>8. ASSUME NEW r \in RunIDs
      PROVE  IF StreamRun(r) = s /\ d.runs[r].status # "none"
             THEN e.runs[r].last = StreamHead(e, StreamRun(r)) ELSE e.runs[r].last = d.runs[r].last
  BY <1>1, <1>2, Zenon DEF Appended
<1>9. OneActive(d) => OneActive(e)
  BY <1>3 DEF OneActive
<1>. QED
  BY <1>4, <1>6, <1>7, <1>8, <1>9, Zenon

-----------------------------------------------------------------------------
(* The operations of a transaction *)

\* putRun that succeeds: the row of one run, and last_seq only of a new one.
Put(d, r, row, e) ==
  /\ DbShape(e) /\ e.version = d.version /\ e.tables = d.tables /\ e.computer = d.computer /\ e.events = d.events
  /\ \A q \in RunIDs \ {r} : e.runs[q] = d.runs[q]
  /\ e.runs[r].status = row.status /\ e.runs[r].ps = row.ps
  /\ e.runs[r].last = IF d.runs[r].status = "none" THEN row.last ELSE d.runs[r].last
  /\ OneActive(d) => OneActive(e)

\* putRun does what Put says, or nothing.
LEMMA putRunPuts ==
  ASSUME NEW d, DbShape(d), NEW r \in RunIDs, NEW row, DOMAIN row = DOMAIN NoRun, putRun(d, r, row) # <<>>
  PROVE  putRun(d, r, row) = <<putRun(d, r, row)[1]>> /\ Put(d, r, row, putRun(d, r, row)[1])
<1>. DEFINE w == IF d.runs[r].status = "none" THEN row ELSE [row EXCEPT !.last = d.runs[r].last]
            e == [d EXCEPT !.runs[r] = w]
<1>1. putRun(d, r, row) = <<e>> /\ ~activeConflict(d, r, row)
  BY Zenon DEF putRun
<1>2. putRun(d, r, row)[1] = e
  BY <1>1
<1>3. /\ DOMAIN w = DOMAIN NoRun /\ w.status = row.status /\ w.ps = row.ps
      /\ w.last = IF d.runs[r].status = "none" THEN row.last ELSE d.runs[r].last
  BY Zenon DEF NoRun
<1>. HIDE DEF w
<1>4. /\ DOMAIN e = DOMAIN Empty /\ e.version = d.version /\ e.tables = d.tables /\ e.computer = d.computer
      /\ e.events = d.events /\ e.runs = [d.runs EXCEPT ![r] = w]
  BY Zenon DEF DbShape, Empty
<1>. HIDE DEF e
<1>5. /\ e.runs = [q \in RunIDs |-> e.runs[q]] /\ e.runs[r] = w
      /\ \A q \in RunIDs \ {r} : e.runs[q] = d.runs[q]
  BY <1>4, Zenon DEF DbShape
<1>6. DbShape(e)
  BY <1>3, <1>4, <1>5, Zenon DEF DbShape
<1>7. OneActive(d) => OneActive(e)
  <2>. SUFFICES ASSUME OneActive(d), NEW p \in RunIDs, NEW q \in RunIDs, p # q,
                       e.runs[p].status \in Active, e.runs[q].status \in Active, e.runs[p].ps # "none"
                PROVE  e.runs[p].ps # e.runs[q].ps
    BY Zenon DEF OneActive
  <2>1. CASE p # r /\ q # r
    BY <1>5, <2>1 DEF OneActive
  <2>2. CASE p = r
    BY <1>1, <1>3, <1>5, <2>2, Zenon DEF activeConflict
  <2>3. CASE q = r
    BY <1>1, <1>3, <1>5, <2>3, Zenon DEF activeConflict
  <2>. QED
    BY <2>1, <2>2, <2>3, Zenon
<1>8. Put(d, r, row, e)
  BY <1>3, <1>4, <1>5, <1>6, <1>7, Zenon DEF Put
<1>. QED
  BY <1>1, <1>2, <1>8, Zenon

\* What is said of the journal and of the other runs survives a put.
LEMMA PutKeeps ==
  ASSUME NEW d, DbInv(d), NEW r \in RunIDs, NEW row, NEW e, Put(d, r, row, e)
  PROVE  /\ DbShape(e) /\ OneActive(e) /\ \A s : StreamHead(e, s) = StreamHead(d, s)
         /\ \A s \in Streams : Numbered(e, s)
         /\ \A q \in RunIDs \ {r} : Tells(e, q)
<1>1. e.events = d.events /\ \A q \in RunIDs \ {r} : e.runs[q] = d.runs[q]
  BY Zenon DEF Put
<1>2. \A s : StreamHead(e, s) = StreamHead(d, s) /\ OfStream(e, s) = OfStream(d, s)
  BY <1>1, Zenon DEF StreamHead, OfStream
<1>3. ASSUME NEW s \in Streams PROVE Numbered(e, s)
  <2>1. Numbered(d, s)
    BY Zenon DEF DbInv
  <2>. QED
    BY <1>1, <1>2, <2>1 DEF Numbered
<1>4. \A q \in RunIDs : Own(e, q) = Own(d, q)
  BY <1>1, Zenon DEF Own
<1>5. \A q \in RunIDs \ {r} : Tells(e, q)
  BY <1>1, <1>4, Zenon DEF Tells, DbInv
<1>. QED
  BY <1>2, <1>3, <1>5, Zenon DEF Put, DbInv

\* An operation keeps the invariant, the version and the journal so far.
Kept(d, e) == DbInv(e) /\ e.version = d.version /\ Continues(d, e)

\* CreateRun and TransitionRun: a row with another status, then its event.
LEMMA StatusAndEvent ==
  ASSUME NEW d, DbInv(d), NEW r \in RunIDs, NEW row, NEW e, Put(d, r, row, e), NEW f,
         Appended(e, StreamRun(r), row.status, f), row.status \notin {"agent.message", "none"}
  PROVE  Kept(d, f)
<1>0. StreamRun(r) \in Streams
  BY Zenon DEF Streams
<1>1. /\ DbShape(e) /\ OneActive(e) /\ \A s : StreamHead(e, s) = StreamHead(d, s)
      /\ \A s \in Streams : Numbered(e, s)
      /\ \A q \in RunIDs \ {r} : Tells(e, q)
  BY PutKeeps, Zenon
<1>2. /\ \A t \in Streams : Numbered(f, t)
      /\ \A q \in RunIDs : StreamRun(q) # StreamRun(r) \/ row.status = "agent.message" => (Tells(e, q) => Tells(f, q))
      /\ \A q \in RunIDs : StreamRun(q) = StreamRun(r) /\ row.status # "agent.message" /\ row.status = e.runs[q].status
                           => Tells(f, q)
      /\ \A q \in RunIDs : IF StreamRun(q) = StreamRun(r) /\ e.runs[q].status # "none"
                           THEN f.runs[q].last = StreamHead(f, StreamRun(q))
                           ELSE f.runs[q].last = e.runs[q].last
      /\ OneActive(e) => OneActive(f)
  BY <1>0, <1>1, AppendedKeeps, Zenon
<1>3. /\ e.runs[r].status = row.status /\ e.computer = d.computer /\ e.version = d.version /\ e.events = d.events
      /\ \A q \in RunIDs \ {r} : e.runs[q] = d.runs[q]
  BY Zenon DEF Put
<1>4. /\ DbShape(f) /\ f.computer = e.computer /\ f.version = e.version /\ Continues(e, f)
      /\ \A q \in RunIDs : f.runs[q].status = e.runs[q].status
  BY Zenon DEF Appended
<1>5. \A t : t # StreamRun(r) => StreamHead(f, t) = StreamHead(e, t)
  BY <1>1, HeadAppended
<1>6. \A q \in RunIDs : Tells(f, q)
  BY <1>1, <1>2, <1>3, StreamsDiffer, Zenon
<1>7. ASSUME NEW q \in RunIDs, f.runs[q].status # "none" PROVE f.runs[q].last = StreamHead(f, StreamRun(q))
  <2>1. CASE q = r
    BY <1>2, <1>3, <2>1, Zenon
  <2>2. CASE q # r
    <3>1. StreamRun(q) # StreamRun(r)
      BY <2>2, StreamsDiffer, Zenon
    <3>2. d.runs[q].status # "none" => d.runs[q].last = StreamHead(d, StreamRun(q))
      BY Zenon DEF DbInv
    <3>. QED
      BY <1>1, <1>2, <1>3, <1>4, <1>5, <1>7, <2>2, <3>1, <3>2, Zenon
  <2>. QED
    BY <2>1, <2>2, Zenon
<1>8. f.computer.epoch = StreamHead(f, StreamComputer)
  <2>1. StreamComputer # StreamRun(r)
    BY StreamsDiffer, Zenon
  <2>2. d.computer.epoch = StreamHead(d, StreamComputer)
    BY Zenon DEF DbInv
  <2>. QED
    BY <1>1, <1>3, <1>4, <1>5, <2>1, <2>2, Zenon
<1>9. DbInv(f)
  BY <1>1, <1>2, <1>4, <1>6, <1>7, <1>8, Zenon DEF DbInv
<1>. QED
  BY <1>3, <1>4, <1>9, Zenon DEF Kept, Continues

\* TransitionRun: the new status and its event, in one transaction.
LEMMA TransitionRunKeeps ==
  ASSUME NEW d, DbInv(d), NEW r \in RunIDs, NEW to \in {"running", "completed", "cancelled"},
         TransitionRun(d, r, to) # <<>>
  PROVE  Kept(d, TransitionRun(d, r, to)[1])
<1>. DEFINE row == [d.runs[r] EXCEPT !.status = to]
            p == putRun(d, r, row)
            a == AppendEvent(p[1], StreamRun(r), to)
<1>0. DbShape(d)
  BY Zenon DEF DbInv
<1>1. TransitionRun(d, r, to) = a /\ p # <<>> /\ a # <<>>
  BY Zenon DEF TransitionRun, Then
<1>2. DOMAIN row = DOMAIN NoRun /\ row.status = to
  BY <1>0, Zenon DEF DbShape, NoRun
<1>. HIDE DEF row
<1>3. Put(d, r, row, p[1])
  BY <1>0, <1>1, <1>2, putRunPuts, Zenon
<1>. HIDE DEF p
<1>4. DbShape(p[1])
  BY <1>3, Zenon DEF Put
<1>5. Appended(p[1], StreamRun(r), to, a[1])
  BY <1>1, <1>4, AppendEventAppends, Zenon
<1>. HIDE DEF a
<1>6. row.status \notin {"agent.message", "none"}
  BY <1>2, Zenon
<1>7. Kept(d, a[1])
  BY <1>2, <1>3, <1>5, <1>6, StatusAndEvent, Zenon
<1>. QED
  BY <1>1, <1>7, Zenon

\* CreateRun: the row and the event of its first status.
LEMMA CreateRunKeeps ==
  ASSUME NEW d, DbInv(d), NEW r \in RunIDs, NEW st \in Active, NEW ps, CreateRun(d, r, st, ps) # <<>>
  PROVE  Kept(d, CreateRun(d, r, st, ps)[1])
<1>. DEFINE row == [status |-> st, ps |-> ps, last |-> 0]
            p == putRun(d, r, row)
            a == AppendEvent(p[1], StreamRun(r), st)
<1>0. DbShape(d)
  BY Zenon DEF DbInv
<1>1. CreateRun(d, r, st, ps) = a /\ p # <<>> /\ a # <<>>
  BY Zenon DEF CreateRun, Then
<1>2. DOMAIN row = DOMAIN NoRun /\ row.status = st
  BY Zenon DEF NoRun
<1>. HIDE DEF row
<1>3. Put(d, r, row, p[1])
  BY <1>0, <1>1, <1>2, putRunPuts, Zenon
<1>. HIDE DEF p
<1>4. DbShape(p[1])
  BY <1>3, Zenon DEF Put
<1>5. Appended(p[1], StreamRun(r), st, a[1])
  BY <1>1, <1>4, AppendEventAppends, Zenon
<1>. HIDE DEF a
<1>6. row.status \notin {"agent.message", "none"}
  BY <1>2, Zenon DEF Active
<1>7. Kept(d, a[1])
  BY <1>2, <1>3, <1>5, <1>6, StatusAndEvent, Zenon
<1>. QED
  BY <1>1, <1>7, Zenon

\* An event that is no change of status: every row keeps what is said of it.
LEMMA MessageKeeps ==
  ASSUME NEW d, DbInv(d), NEW r \in RunIDs, NEW e, Appended(d, StreamRun(r), "agent.message", e)
  PROVE  DbInv(e)
<1>0. StreamRun(r) \in Streams /\ DbShape(d) /\ OneActive(d) /\ \A s \in Streams : Numbered(d, s)
  BY Zenon DEF Streams, DbInv
<1>1. /\ \A t \in Streams : Numbered(e, t)
      /\ \A q \in RunIDs : Tells(d, q) => Tells(e, q)
      /\ \A q \in RunIDs : IF StreamRun(q) = StreamRun(r) /\ d.runs[q].status # "none"
                           THEN e.runs[q].last = StreamHead(e, StreamRun(q))
                           ELSE e.runs[q].last = d.runs[q].last
      /\ OneActive(e)
  BY <1>0, AppendedKeeps
<1>2. \A t : t # StreamRun(r) => StreamHead(e, t) = StreamHead(d, t)
  BY <1>0, HeadAppended
<1>3. ASSUME NEW q \in RunIDs, e.runs[q].status # "none" PROVE e.runs[q].last = StreamHead(e, StreamRun(q))
  <2>1. d.runs[q].status = e.runs[q].status
    BY Zenon DEF Appended
  <2>2. d.runs[q].status # "none" => d.runs[q].last = StreamHead(d, StreamRun(q))
    BY Zenon DEF DbInv
  <2>. QED
    BY <1>1, <1>2, <1>3, <2>1, <2>2, Zenon
<1>4. e.computer.epoch = StreamHead(e, StreamComputer)
  <2>1. StreamComputer # StreamRun(r)
    BY StreamsDiffer, Zenon
  <2>2. d.computer.epoch = StreamHead(d, StreamComputer) /\ e.computer = d.computer
    BY Zenon DEF DbInv, Appended
  <2>. QED
    BY <1>2, <2>1, <2>2, Zenon
<1>. QED
  BY <1>1, <1>3, <1>4, Zenon DEF DbInv, Appended

\* Putting back a row that was read before an event: last_seq is not undone.
LEMMA UpdateRunKeeps ==
  ASSUME NEW d, DbInv(d), NEW r \in RunIDs, UpdateRun(d, r) # <<>>
  PROVE  Kept(d, UpdateRun(d, r)[1])
<1>. DEFINE a == AppendEvent(d, StreamRun(r), "agent.message")
            p == putRun(a[1], r, d.runs[r])
<1>0. DbShape(d) /\ DOMAIN d.runs[r] = DOMAIN NoRun
  BY Zenon DEF DbInv, DbShape
<1>1. UpdateRun(d, r) = p /\ p # <<>> /\ a # <<>> /\ d.runs[r].status # "none"
  BY Zenon DEF UpdateRun, Then
<1>2. Appended(d, StreamRun(r), "agent.message", a[1])
  BY <1>0, <1>1, AppendEventAppends, Zenon
<1>. HIDE DEF a
<1>3. DbInv(a[1]) /\ DbShape(a[1])
  BY <1>2, MessageKeeps DEF DbInv
<1>4. Put(a[1], r, d.runs[r], p[1])
  BY <1>0, <1>1, <1>3, putRunPuts, Zenon
<1>. HIDE DEF p
<1>5. /\ DbShape(p[1]) /\ OneActive(p[1]) /\ \A s : StreamHead(p[1], s) = StreamHead(a[1], s)
      /\ \A s \in Streams : Numbered(p[1], s)
      /\ \A q \in RunIDs \ {r} : Tells(p[1], q)
  BY <1>3, <1>4, PutKeeps, Zenon
<1>6. \A q \in RunIDs : p[1].runs[q].status = a[1].runs[q].status /\ p[1].runs[q].last = a[1].runs[q].last
  BY <1>1, <1>2, <1>4, ZenonT(60) DEF Put, Appended
<1>7. p[1].events = a[1].events /\ p[1].computer = a[1].computer /\ p[1].version = a[1].version
  BY <1>4, Zenon DEF Put
<1>8. Tells(p[1], r)
  <2>1. Own(p[1], r) = Own(a[1], r)
    BY <1>7, Zenon DEF Own
  <2>2. Tells(a[1], r)
    BY <1>3, Zenon DEF DbInv
  <2>. QED
    BY <1>6, <1>7, <2>1, <2>2, Zenon DEF Tells
<1>9. DbInv(p[1])
  BY <1>3, <1>5, <1>6, <1>7, <1>8, Zenon DEF DbInv
<1>. QED
  BY <1>1, <1>2, <1>7, <1>9, Zenon DEF Kept, Appended, Continues

\* A row of the computer session: nothing but that row changes.
LEMMA ComputerRow ==
  ASSUME NEW d, DbInv(d), NEW row, DOMAIN row = DOMAIN Empty.computer
  PROVE  LET p == putComputerSession(d, row)
         IN /\ p # <<>> /\ DbShape(p[1]) /\ p[1].computer = row /\ p[1].version = d.version
            /\ p[1].events = d.events /\ p[1].runs = d.runs
            /\ \A s \in Streams : Numbered(p[1], s) /\ StreamHead(p[1], s) = StreamHead(d, s)
            /\ \A r \in RunIDs : Tells(p[1], r)
            /\ OneActive(p[1])
<1>. DEFINE e == [d EXCEPT !.computer = row]
<1>1. putComputerSession(d, row) # <<>> /\ putComputerSession(d, row)[1] = e
  BY Zenon DEF putComputerSession
<1>2. /\ DOMAIN e = DOMAIN Empty /\ e.computer = row /\ e.version = d.version /\ e.events = d.events
      /\ e.runs = d.runs
  BY Zenon DEF DbInv, DbShape, Empty
<1>. HIDE DEF e
<1>3. DbShape(e) /\ OneActive(e)
  BY <1>2 DEF DbInv, DbShape, OneActive
<1>4. ASSUME NEW s \in Streams PROVE Numbered(e, s) /\ StreamHead(e, s) = StreamHead(d, s)
  <2>1. Numbered(d, s)
    BY Zenon DEF DbInv
  <2>2. StreamHead(e, s) = StreamHead(d, s) /\ OfStream(e, s) = OfStream(d, s)
    BY <1>2, Zenon DEF StreamHead, OfStream
  <2>. QED
    BY <1>2, <2>1, <2>2, Zenon DEF Numbered
<1>5. ASSUME NEW r \in RunIDs PROVE Tells(e, r)
  <2>1. Own(e, r) = Own(d, r)
    BY <1>2, Zenon DEF Own
  <2>2. Tells(d, r)
    BY Zenon DEF DbInv
  <2>. QED
    BY <1>2, <2>1, <2>2, Zenon DEF Tells
<1>. QED
  BY <1>1, <1>2, <1>3, <1>4, <1>5, Zenon

\* SetComputerController: the epoch rises with the event that tells it.
LEMMA SetComputerControllerKeeps ==
  ASSUME NEW d, DbInv(d), NEW c, SetComputerController(d, c) # <<>>
  PROVE  Kept(d, SetComputerController(d, c)[1])
<1>. DEFINE row == [d.computer EXCEPT !.controller = c, !.epoch = d.computer.epoch + 1]
            p == putComputerSession(d, row)
            a == AppendEvent(p[1], StreamComputer, "computer.controller.changed")
<1>0. StreamComputer \in Streams /\ DbShape(d)
  BY Zenon DEF Streams, DbInv
<1>1. SetComputerController(d, c) = a /\ a # <<>>
  BY Zenon DEF SetComputerController, Then
<1>2. DOMAIN row = DOMAIN Empty.computer /\ row.epoch = d.computer.epoch + 1
  BY <1>0, Zenon DEF DbShape, Empty
<1>. HIDE DEF row
<1>3. /\ DbShape(p[1]) /\ p[1].computer = row /\ p[1].version = d.version
      /\ p[1].events = d.events /\ p[1].runs = d.runs
      /\ \A s \in Streams : Numbered(p[1], s) /\ StreamHead(p[1], s) = StreamHead(d, s)
      /\ \A r \in RunIDs : Tells(p[1], r)
      /\ OneActive(p[1])
  BY <1>2, ComputerRow
<1>. HIDE DEF p
<1>4. Appended(p[1], StreamComputer, "computer.controller.changed", a[1])
  BY <1>1, <1>3, AppendEventAppends, Zenon
<1>. HIDE DEF a
<1>5. /\ \A t \in Streams : Numbered(a[1], t)
      /\ \A r \in RunIDs : StreamRun(r) # StreamComputer => Tells(a[1], r)
      /\ \A r \in RunIDs : StreamRun(r) # StreamComputer => a[1].runs[r].last = p[1].runs[r].last
      /\ OneActive(a[1])
  <2>1. \A s \in Streams : Numbered(p[1], s)
    BY <1>3, Zenon
  <2>. QED
    BY <1>0, <1>3, <1>4, <2>1, AppendedKeeps
<1>6. \A t : StreamHead(a[1], t) = StreamHead(p[1], t) + (IF t = StreamComputer THEN 1 ELSE 0)
             /\ StreamHead(p[1], t) \in Nat
  BY <1>3, <1>4, HeadAppended
<1>7. /\ DbShape(a[1]) /\ a[1].computer = row /\ a[1].version = d.version /\ Continues(p[1], a[1])
      /\ \A r \in RunIDs : a[1].runs[r].status = d.runs[r].status
  BY <1>3, <1>4, Zenon DEF Appended
<1>8. ASSUME NEW r \in RunIDs, a[1].runs[r].status # "none" PROVE a[1].runs[r].last = StreamHead(a[1], StreamRun(r))
  <2>1. StreamRun(r) # StreamComputer /\ StreamRun(r) \in Streams
    BY StreamsDiffer, Zenon DEF Streams
  <2>2. d.runs[r].status # "none" => d.runs[r].last = StreamHead(d, StreamRun(r))
    BY Zenon DEF DbInv
  <2>3. StreamHead(a[1], StreamRun(r)) = StreamHead(p[1], StreamRun(r))
    BY <1>6, <2>1
  <2>. QED
    BY <1>3, <1>5, <1>7, <1>8, <2>1, <2>2, <2>3, Zenon
<1>9. a[1].computer.epoch = StreamHead(a[1], StreamComputer)
  <2>1. d.computer.epoch = StreamHead(d, StreamComputer)
    BY Zenon DEF DbInv
  <2>2. StreamHead(p[1], StreamComputer) = StreamHead(d, StreamComputer)
    BY <1>0, <1>3, Zenon
  <2>. QED
    BY <1>2, <1>6, <1>7, <2>1, <2>2, Zenon
<1>10. \A r \in RunIDs : Tells(a[1], r)
  BY <1>5, StreamsDiffer, Zenon
<1>11. DbInv(a[1])
  BY <1>5, <1>7, <1>8, <1>9, <1>10, Zenon DEF DbInv
<1>. QED
  BY <1>1, <1>3, <1>7, <1>11, Zenon DEF Kept, Continues

\* CreateComputerSession: the epoch is left alone, and no event is due.
LEMMA CreateComputerSessionKeeps ==
  ASSUME NEW d, DbInv(d), CreateComputerSession(d) # <<>>
  PROVE  Kept(d, CreateComputerSession(d)[1])
<1>. DEFINE row == [d.computer EXCEPT !.state = "active"]
            p == putComputerSession(d, row)
<1>0. StreamComputer \in Streams /\ DbShape(d)
  BY Zenon DEF Streams, DbInv
<1>1. CreateComputerSession(d) = p
  BY Zenon DEF CreateComputerSession
<1>2. DOMAIN row = DOMAIN Empty.computer /\ row.epoch = d.computer.epoch
  BY <1>0, Zenon DEF DbShape, Empty
<1>. HIDE DEF row
<1>3. /\ DbShape(p[1]) /\ p[1].computer = row /\ p[1].version = d.version
      /\ p[1].events = d.events /\ p[1].runs = d.runs
      /\ \A s \in Streams : Numbered(p[1], s) /\ StreamHead(p[1], s) = StreamHead(d, s)
      /\ \A r \in RunIDs : Tells(p[1], r)
      /\ OneActive(p[1])
  BY <1>2, ComputerRow
<1>. HIDE DEF p
<1>4. \A r \in RunIDs : p[1].runs[r].status # "none" => p[1].runs[r].last = StreamHead(p[1], StreamRun(r))
  BY <1>3, Zenon DEF DbInv, Streams
<1>5. p[1].computer.epoch = StreamHead(p[1], StreamComputer)
  BY <1>0, <1>2, <1>3, Zenon DEF DbInv
<1>6. DbInv(p[1])
  BY <1>3, <1>4, <1>5, Zenon DEF DbInv
<1>. QED
  BY <1>0, <1>1, <1>3, <1>6 DEF Kept, Continues, DbShape

\* Every operation of a transaction.
LEMMA ResultsKeep ==
  ASSUME NEW d, DbInv(d), NEW res \in Results(d), res # <<>>
  PROVE  Kept(d, res[1])
<1>1. CASE \E r \in RunIDs, st \in Active, ps \in ProviderSessions : res = CreateRun(d, r, st, ps)
  BY <1>1, CreateRunKeeps, Zenon
<1>2. CASE \E r \in RunIDs, to \in {"running", "completed", "cancelled"} : res = TransitionRun(d, r, to)
  BY <1>2, TransitionRunKeeps, Zenon
<1>3. CASE \E r \in RunIDs : res = UpdateRun(d, r)
  BY <1>3, UpdateRunKeeps, Zenon
<1>4. CASE \E c \in {"agent", "human"} : res = SetComputerController(d, c)
  BY <1>4, SetComputerControllerKeeps, Zenon
<1>5. CASE res = CreateComputerSession(d)
  BY <1>5, CreateComputerSessionKeeps, Zenon
<1>. QED
  BY <1>1, <1>2, <1>3, <1>4, <1>5 DEF Results

-----------------------------------------------------------------------------
(* The store *)

\* The invariant holds of every file that Open may find.
LEMMA EmptyInv ==
  ASSUME NEW d, d \in {Empty, [Empty EXCEPT !.tables = TRUE], [Empty EXCEPT !.tables = TRUE, !.version = SchemaVersion + 1]}
  PROVE  DbInv(d) /\ Len(d.events) = 0
<1>1. /\ DOMAIN d = DOMAIN Empty /\ d.version \in Nat /\ d.runs = [r \in RunIDs |-> NoRun] /\ d.events = <<>>
      /\ d.computer = Empty.computer /\ d.computer.epoch = 0
  <2>1. /\ Empty.version = 0 /\ Empty.runs = [r \in RunIDs |-> NoRun] /\ Empty.events = <<>> /\ Empty.computer.epoch = 0
        /\ DOMAIN Empty = {"version", "tables", "runs", "computer", "events"}
    BY Zenon DEF Empty
  <2>2. CASE d = Empty
    BY <2>1, <2>2
  <2>3. CASE d = [Empty EXCEPT !.tables = TRUE]
    BY <2>1, <2>3
  <2>4. CASE d = [Empty EXCEPT !.tables = TRUE, !.version = SchemaVersion + 1]
    BY <2>1, <2>4, StoreAssumption
  <2>. QED
    BY <2>2, <2>3, <2>4, Zenon
<1>2. DbShape(d) /\ Len(d.events) = 0 /\ DOMAIN d.events = {}
  BY <1>1 DEF DbShape
<1>3. \A s : OfStream(d, s) = {} /\ StreamHead(d, s) = 0
  BY <1>2, FS_EmptySet, Zenon DEF OfStream, StreamHead
<1>4. \A s \in Streams : Numbered(d, s)
  BY <1>3 DEF Numbered
<1>5. \A r \in RunIDs : d.runs[r].status = "none"
  BY <1>1 DEF NoRun
<1>6. \A r \in RunIDs : Tells(d, r)
  BY <1>2, <1>5, Zenon DEF Tells, Own
<1>7. OneActive(d)
  BY <1>5, Zenon DEF OneActive, Active
<1>. QED
  BY <1>1, <1>2, <1>3, <1>4, <1>5, <1>6, <1>7, Zenon DEF DbInv

\* A migration changes the version and leaves the contents.
LEMMA MigratedInv ==
  ASSUME NEW d, DbInv(d)
  PROVE  LET e == [d EXCEPT !.version = SchemaVersion, !.tables = TRUE]
         IN DbInv(e) /\ e.version = SchemaVersion /\ e.events = d.events
<1>. DEFINE e == [d EXCEPT !.version = SchemaVersion, !.tables = TRUE]
<1>1. /\ DOMAIN e = DOMAIN Empty /\ e.computer = d.computer /\ e.version = SchemaVersion /\ e.events = d.events
      /\ e.runs = d.runs
  BY Zenon DEF DbInv, DbShape, Empty
<1>. HIDE DEF e
<1>2. DbShape(e) /\ OneActive(e)
  BY <1>1, StoreAssumption DEF DbInv, DbShape, OneActive
<1>3. \A s : StreamHead(e, s) = StreamHead(d, s) /\ OfStream(e, s) = OfStream(d, s)
  BY <1>1, Zenon DEF StreamHead, OfStream
<1>4. ASSUME NEW s \in Streams PROVE Numbered(e, s)
  <2>1. Numbered(d, s)
    BY Zenon DEF DbInv
  <2>. QED
    BY <1>1, <1>3, <2>1 DEF Numbered
<1>5. ASSUME NEW r \in RunIDs PROVE Tells(e, r)
  <2>1. Own(e, r) = Own(d, r)
    BY <1>1, Zenon DEF Own
  <2>2. Tells(d, r)
    BY Zenon DEF DbInv
  <2>. QED
    BY <1>1, <2>1, <2>2, Zenon DEF Tells
<1>6. DbInv(e)
  BY <1>1, <1>2, <1>3, <1>4, <1>5, Zenon DEF DbInv
<1>. QED
  BY <1>1, <1>6, Zenon DEF e

\* The page of handleRuntimeEvents and its next_pos: the page is the next
\* stretch of the journal, and next_pos its end.
LEMMA PageIsNext ==
  ASSUME StoreInv, NEW limit \in Limits
  PROVE  LET page == EventsAfter(reader.pos, limit)
             n == nextPos(reader.pos, page)
         IN n \in Nat /\ n <= Len(db.events) /\ 1..n = (1..reader.pos) \cup page
<1>. DEFINE pos == reader.pos
            L == Len(db.events)
            k == eventPageLimit(limit)
            page == EventsAfter(reader.pos, limit)
            top == IF pos + k <= L THEN pos + k ELSE L
<1>1. pos \in Nat /\ L \in Nat /\ pos <= L
  BY Zenon DEF StoreInv, ReaderInv, DbInv, DbShape
<1>2. k \in Nat /\ k > 0
  BY StoreAssumption DEF eventPageLimit, Limits
<1>. HIDE DEF k
<1>3. page = {p \in (pos + 1)..L : p <= pos + k}
  BY Zenon DEF EventsAfter, JournalHead, k
<1>. HIDE DEF pos, L
<1>4. page = (pos + 1)..top
  BY <1>1, <1>2, <1>3
<1>5. nextPos(pos, page) = IF page = {} THEN pos ELSE CHOOSE p \in page : \A q \in page : q <= p
  BY Zenon DEF nextPos
<1>6. top \in Nat /\ top >= pos /\ top <= L
  BY <1>1, <1>2
<1>. HIDE DEF top, page
<1>7. nextPos(pos, page) = top
  <2>1. CASE top = pos
    BY <1>1, <1>4, <1>5, <2>1
  <2>2. CASE top # pos
    <3>1. top \in page /\ \A q \in page : q <= top
      BY <1>1, <1>4, <1>6, <2>2
    <3>2. \A p \in page : (\A q \in page : q <= p) => p = top
      BY <1>4, <1>6, <3>1, <1>1
    <3>3. (CHOOSE p \in page : \A q \in page : q <= p) = top
      BY <3>1, <3>2, Zenon
    <3>. QED
      BY <1>5, <3>1, <3>3, Zenon
  <2>. QED
    BY <2>1, <2>2, Zenon
<1>8. 1..top = (1..pos) \cup page
  BY <1>1, <1>4, <1>6
<1>. QED
  BY <1>6, <1>7, <1>8, Zenon DEF pos, page, L

\* The invariant holds before Open.
LEMMA StoreInvInit ==
  ASSUME StoreInit
  PROVE  StoreInv
<1>1. DbInv(db) /\ Len(db.events) = 0
  BY EmptyInv, Zenon DEF StoreInit
<1>2. TxInv /\ VersionInv
  BY Zenon DEF StoreInit, TxInv, VersionInv, NoTx
<1>3. ReaderInv
  BY <1>1 DEF StoreInit, ReaderInv, ReaderMissesNothing
<1>. QED
  BY <1>1, <1>2, <1>3, Zenon DEF StoreInv

\* Every step keeps the invariant: a transaction works on its copy, Commit puts it in place.
LEMMA StoreInvStep ==
  ASSUME StoreInv, [StoreNext]_storeVars
  PROVE  StoreInv'
<1>0. DbInv(db) /\ DbShape(db) /\ Len(db.events) \in Nat /\ TxInv /\ VersionInv /\ ReaderInv
  BY Zenon DEF StoreInv, DbInv, DbShape
<1>1. CASE prepare
  <2>1. UNCHANGED <<db, tx, reader>> /\ (tx.on => store = "open") /\ store = "closed"
    BY <1>0, <1>1, Zenon DEF prepare, TxInv
  <2>2. VersionInv'
    BY <1>0, <1>1, StoreAssumption DEF prepare, VersionInv, DbShape
  <2>. QED
    BY <1>0, <2>1, <2>2, Zenon DEF StoreInv, TxInv, ReaderInv, ReaderMissesNothing
<1>2. CASE migrate
  <2>1. UNCHANGED <<tx, backups, reader>> /\ ~tx.on /\ store' \in {"open", "closed"}
    BY <1>0, <1>2, Zenon DEF migrate, TxInv
  <2>2. CASE store' = "open" /\ db' = [db EXCEPT !.version = SchemaVersion, !.tables = TRUE]
    <3>1. DbInv(db') /\ db'.version = SchemaVersion /\ db'.events = db.events
      BY <1>0, <2>2, MigratedInv, Zenon
    <3>. QED
      BY <1>0, <2>1, <2>2, <3>1, Zenon DEF StoreInv, TxInv, VersionInv, ReaderInv, ReaderMissesNothing
  <2>3. CASE store' = "closed" /\ UNCHANGED db
    BY <1>0, <2>1, <2>3, Zenon DEF StoreInv, TxInv, VersionInv, ReaderInv, ReaderMissesNothing
  <2>. QED
    BY <1>2, <2>2, <2>3, Zenon DEF migrate
<1>3. CASE CrashStore \/ Rollback
  <2>1. UNCHANGED <<db, backups, reader>> /\ tx' = NoTx /\ store' \in {store, "closed"}
    BY <1>3, Zenon DEF CrashStore, Rollback
  <2>. QED
    BY <1>0, <2>1, Zenon DEF StoreInv, TxInv, VersionInv, ReaderInv, ReaderMissesNothing, NoTx
<1>4. CASE Begin
  <2>1. tx' = [on |-> TRUE, d |-> db, ops |-> 0] /\ store = "open" /\ UNCHANGED <<db, store, backups, reader>>
    BY <1>4, Zenon DEF Begin
  <2>2. TxInv'
    BY <1>0, <2>1 DEF TxInv, NoTx, Continues
  <2>. QED
    BY <1>0, <2>1, <2>2, Zenon DEF StoreInv, VersionInv, ReaderInv, ReaderMissesNothing
<1>5. CASE Operate
  <2>1. UNCHANGED <<db, store, backups, reader>> /\ tx.on
    BY <1>5, Zenon DEF Operate
  <2>2. PICK res \in Results(tx.d) : tx' = IF res = <<>> THEN NoTx ELSE [tx EXCEPT !.d = res[1], !.ops = tx.ops + 1]
    BY <1>5, Zenon DEF Operate
  <2>3. DbInv(tx.d) /\ tx.d.version = db.version /\ Continues(db, tx.d) /\ Len(tx.d.events) \in Nat /\ store = "open"
    BY <1>0, <2>1, Zenon DEF TxInv, DbInv, DbShape
  <2>4. CASE res = <<>>
    BY <1>0, <2>1, <2>2, <2>4, Zenon DEF StoreInv, TxInv, VersionInv, ReaderInv, ReaderMissesNothing, NoTx
  <2>5. CASE res # <<>>
    <3>1. Kept(tx.d, res[1])
      BY <2>3, <2>5, ResultsKeep, Zenon
    <3>2. DOMAIN tx' = DOMAIN NoTx /\ tx'.on /\ tx'.d = res[1]
      BY <1>0, <2>1, <2>2, <2>5, ZenonT(60) DEF TxInv, NoTx
    <3>3. Continues(db, res[1])
      BY <1>0, <2>3, <3>1 DEF Kept, Continues, DbInv, DbShape
    <3>4. TxInv'
      BY <2>1, <2>3, <3>1, <3>2, <3>3, Zenon DEF TxInv, Kept
    <3>. QED
      BY <1>0, <2>1, <3>4, Zenon DEF StoreInv, VersionInv, ReaderInv, ReaderMissesNothing
  <2>. QED
    BY <2>4, <2>5, Zenon
<1>6. CASE Commit
  <2>1. db' = tx.d /\ tx' = NoTx /\ UNCHANGED <<store, backups, reader>> /\ tx.on
    BY <1>6, Zenon DEF Commit
  <2>2. DbInv(tx.d) /\ tx.d.version = db.version /\ Continues(db, tx.d) /\ Len(tx.d.events) \in Nat /\ store = "open"
    BY <1>0, <2>1, Zenon DEF TxInv, DbInv, DbShape
  <2>3. ReaderInv'
    <3>1. \A p \in 1..reader.pos : db'.events[p] = db.events[p]
      BY <1>0, <2>1, <2>2 DEF ReaderInv, Continues
    <3>2. reader.pos <= Len(db'.events)
      BY <1>0, <2>1, <2>2 DEF ReaderInv, Continues
    <3>3. {<<p, db'.events[p]>> : p \in 1..reader.pos} = {<<p, db.events[p]>> : p \in 1..reader.pos}
      BY <3>1, Zenon
    <3>. QED
      BY <1>0, <2>1, <3>2, <3>3, Zenon DEF ReaderInv, ReaderMissesNothing
  <2>. QED
    BY <1>0, <2>1, <2>2, <2>3, Zenon DEF StoreInv, TxInv, VersionInv, NoTx
<1>7. CASE handleRuntimeEvents
  <2>1. UNCHANGED <<db, tx, store, backups>>
    BY <1>7, Zenon DEF handleRuntimeEvents
  <2>2. PICK limit \in Limits :
          LET page == EventsAfter(reader.pos, limit)
          IN reader' = [pos |-> nextPos(reader.pos, page), has |-> reader.has \cup {<<p, db.events[p]>> : p \in page}]
    BY <1>7, Zenon DEF handleRuntimeEvents
  <2>. DEFINE page == EventsAfter(reader.pos, limit)
              n == nextPos(reader.pos, page)
  <2>3. n \in Nat /\ n <= Len(db.events) /\ 1..n = (1..reader.pos) \cup page
    BY PageIsNext, Zenon
  <2>4. DOMAIN reader' = {"pos", "has"} /\ reader'.pos = n /\ reader'.has = reader.has \cup {<<p, db.events[p]>> : p \in page}
    BY <2>2, Zenon
  <2>. HIDE DEF n, page
  <2>5. reader'.has = {<<p, db.events[p]>> : p \in 1..n}
    <3>1. reader.has = {<<p, db.events[p]>> : p \in 1..reader.pos}
      BY <1>0, Zenon DEF ReaderInv, ReaderMissesNothing
    <3>. QED
      BY <2>3, <2>4, <3>1, Zenon
  <2>6. ReaderInv'
    BY <2>1, <2>3, <2>4, <2>5, Zenon DEF ReaderInv, ReaderMissesNothing
  <2>. QED
    BY <1>0, <2>1, <2>6, Zenon DEF StoreInv, TxInv, VersionInv
<1>8. CASE UNCHANGED storeVars
  BY <1>0, <1>8, Zenon DEF storeVars, StoreInv, TxInv, VersionInv, ReaderInv, ReaderMissesNothing
<1>. QED
  BY <1>1, <1>2, <1>3, <1>4, <1>5, <1>6, <1>7, <1>8, Zenon DEF StoreNext

\* The invariant of the store, for any runs, pages and bounds.
THEOREM StoreInvariant == StoreSpec => []StoreInv
BY StoreInvInit, StoreInvStep, PTL DEF StoreSpec

\* Through every transaction, rollback, crash and migration the status of a
\* run is the kind of its last lifecycle event.
THEOREM JournalTellsStateHolds == StoreSpec => []JournalTellsState
<1>1. ASSUME StoreInv PROVE JournalTellsState
  <2>. SUFFICES ASSUME NEW r \in RunIDs
                PROVE  db.runs[r].status = IF Own(db, r) = {} THEN "none"
                         ELSE db.events[CHOOSE i \in Own(db, r) : \A j \in Own(db, r) : j <= i].kind
    BY Zenon DEF JournalTellsState, Own
  <2>1. Tells(db, r) /\ Own(db, r) \subseteq Nat
    BY <1>1 DEF StoreInv, DbInv, DbShape, Own
  <2>2. CASE Own(db, r) = {}
    BY <2>1, <2>2, Zenon DEF Tells
  <2>3. CASE Own(db, r) # {}
    <3>1. PICK i \in Own(db, r) : (\A j \in Own(db, r) : j <= i) /\ db.events[i].kind = db.runs[r].status
      BY <2>1, <2>3, Zenon DEF Tells
    <3>2. \A k \in Own(db, r) : (\A j \in Own(db, r) : j <= k) => k = i
      BY <2>1, <3>1
    <3>3. (CHOOSE k \in Own(db, r) : \A j \in Own(db, r) : j <= k) = i
      BY <3>1, <3>2, Zenon
    <3>. QED
      BY <2>3, <3>1, <3>3, Zenon
  <2>. QED
    BY <2>2, <2>3, Zenon
<1>. QED
  BY <1>1, StoreInvariant, PTL

\* runtime.events: a subscriber that follows next_pos has exactly the events
\* up to its cursor, at every position and for every page size.
THEOREM ReaderMissesNothingHolds == StoreSpec => []ReaderMissesNothing
<1>1. StoreInv => ReaderMissesNothing
  BY Zenon DEF StoreInv, ReaderInv
<1>. QED
  BY <1>1, StoreInvariant, PTL

\* idx_runs_active_provider_session: one active run for a provider session.
THEOREM OneActiveRunHolds == StoreSpec => []OneActiveRun
<1>1. StoreInv => OneActiveRun
  BY Zenon DEF StoreInv, DbInv, OneActive, OneActiveRun
<1>. QED
  BY <1>1, StoreInvariant, PTL

\* last_seq of a run is the head of its stream, and the epoch of the computer
\* session is the number of its controller changes.
THEOREM CountersFollowJournal == StoreSpec => [](LastSeqIsHead /\ EpochCountsChanges)
<1>1. StoreInv => LastSeqIsHead /\ EpochCountsChanges
  BY Zenon DEF StoreInv, DbInv, LastSeqIsHead, EpochCountsChanges
<1>. QED
  BY <1>1, StoreInvariant, PTL

\* prepare and migrate: no migration of tables without a backup of them, and
\* no write to a store of a newer version.
THEOREM MigrationKeepsOldHolds == StoreSpec => MigrationKeepsOld
<1>. DEFINE A == /\ (db.tables /\ db'.version # db.version => db \in backups)
                 /\ (db.version > SchemaVersion => db' = db)
<1>1. ASSUME StoreInv, [StoreNext]_storeVars PROVE [A]_storeVars
  <2>0. db.version \in Nat /\ TxInv /\ VersionInv
    BY <1>1, Zenon DEF StoreInv, DbInv, DbShape
  <2>1. CASE migrate
    BY <2>0, <2>1, StoreAssumption DEF migrate, VersionInv
  <2>2. CASE Commit
    <3>1. tx.on /\ db' = tx.d /\ store = "open" /\ tx.d.version = db.version
      BY <2>0, <2>2, Zenon DEF Commit, TxInv
    <3>. QED
      BY <2>0, <3>1, StoreAssumption DEF VersionInv
  <2>3. CASE prepare \/ CrashStore \/ Begin \/ Operate \/ Rollback \/ handleRuntimeEvents \/ UNCHANGED storeVars
    BY <2>3, Zenon DEF prepare, CrashStore, Begin, Operate, Rollback, handleRuntimeEvents, storeVars
  <2>. QED
    BY <1>1, <2>1, <2>2, <2>3, Zenon DEF StoreNext
<1>. QED
  BY <1>1, StoreInvariant, PTL DEF StoreSpec, MigrationKeepsOld
=============================================================================
