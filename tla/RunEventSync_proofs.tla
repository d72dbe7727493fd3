------------------------- MODULE RunEventSync_proofs -------------------------
(***************************************************************************)
(* Proofs about the synchronisation of run events, for any number of runs, *)
(* any capacities and any number of failures.  The first inductive         *)
(* invariant says where the events that the Manager may accept come from:  *)
(* every copy of an event, wherever it is, is of an event that the table   *)
(* holds.  The second accounts for the ones it lacks: they are in the list *)
(* of heads, in the live channel, on the stream or under a cursor.         *)
(***************************************************************************)
EXTENDS RunEventSync, FiniteSetTheorems, SequenceTheorems, TLAPS

HeadRecords == [run : Runs, seq : Nat]

\* The types of what the argument is about.  Cursors are left out: what a replay sends is
\* read from the table, whatever was asked for.
SyncType ==
  /\ seqNo \in [Runs -> Nat]
  /\ journal \in [Runs -> SUBSET Nat]
  /\ live \in Seq(HeadRecords)
  /\ listed \in Seq(HeadRecords)
  /\ up \in Seq(Messages)
  /\ stale \subseteq EventMessages
  /\ head \in [Runs -> Nat]
  /\ pending \in [Runs -> SUBSET Nat]
  /\ \A r \in Runs : IsFiniteSet(pending[r])
  /\ faults \in Nat

\* Every copy of an event is of one that the table holds.
CopiesDurable ==
  faults = 0 =>
    /\ \A i \in DOMAIN live : live[i].seq \in journal[live[i].run]
    /\ \A i \in DOMAIN up : up[i].type = "event" => up[i].seq \in journal[up[i].run]
    /\ \A e \in stale : e.seq \in journal[e.run]
    /\ \A r \in Runs : pending[r] \subseteq journal[r] /\ 1 .. head[r] \subseteq journal[r]

SyncInv == SyncType /\ CopiesDurable

\* The first element of a queue, and the rest of it.
LEMMA Dequeue ==
  ASSUME NEW S, NEW s \in Seq(S), s # <<>>
  PROVE  /\ Head(s) = s[1] /\ 1 \in DOMAIN s /\ s[1] \in S
         /\ Tail(s) \in Seq(S) /\ \A i \in DOMAIN Tail(s) : \E j \in DOMAIN s : Tail(s)[i] = s[j]
<1>1. Tail(s) \in Seq(S) /\ Len(s) \in Nat \ {0}
  OBVIOUS
<1>2. ASSUME NEW i \in DOMAIN Tail(s) PROVE i + 1 \in DOMAIN s /\ Tail(s)[i] = s[i + 1]
  OBVIOUS
<1>3. Head(s) = s[1] /\ 1 \in DOMAIN s /\ s[1] \in S
  OBVIOUS
<1> QED
  BY <1>1, <1>2, <1>3, Zenon

\* The live channel holds events of runs.
LEMMA LiveRuns ==
  ASSUME SyncType
  PROVE  \A i \in DOMAIN live : live[i].run \in Runs
<1>1. \A i \in DOMAIN live : live[i] \in HeadRecords
  BY DEF SyncType
<1> QED
  BY <1>1, Zenon DEF HeadRecords

\* Accept keeps the types of what it changes.
LEMMA AcceptType ==
  ASSUME SyncType, NEW r \in Runs, NEW n \in Nat, Accept(r, n)
  PROVE  /\ head' \in [Runs -> Nat] /\ pending' \in [Runs -> SUBSET Nat]
         /\ \A q \in Runs : IsFiniteSet(pending'[q])
<1>1. CASE n <= head[r] \/ n \in pending[r]
  BY <1>1, Zenon DEF Accept, SyncType
<1>2. CASE ~(n <= head[r] \/ n \in pending[r]) /\ n = head[r] + 1
  <2>1. PICK k \in n .. n + Cardinality(pending[r]) :
          head' = [head EXCEPT ![r] = k] /\ pending' = [pending EXCEPT ![r] = @ \ (n .. k)]
    BY <1>2, Zenon DEF Accept
  <2>2. k \in Nat
    BY FS_CardinalityType DEF SyncType
  <2>3. IsFiniteSet(pending[r] \ (n .. k))
    BY FS_Difference, Zenon DEF SyncType
  <2> QED
    BY <2>1, <2>2, <2>3, Zenon DEF SyncType
<1>3. CASE ~(n <= head[r] \/ n \in pending[r]) /\ n # head[r] + 1
  <2>1. IsFiniteSet(pending[r] \cup {n})
    BY FS_AddElement, Zenon DEF SyncType
  <2>2. head' = head /\ (pending' = pending \/ pending' = [pending EXCEPT ![r] = @ \cup {n}])
    BY <1>3, Zenon DEF Accept
  <2> QED
    BY <2>1, <2>2, Zenon DEF SyncType
<1> QED
  BY <1>1, <1>2, <1>3, Zenon

\* If an event is in the table, accepting it leaves a head and early events that are.
LEMMA AcceptDurable ==
  ASSUME SyncType, NEW r \in Runs, NEW n \in journal[r], Accept(r, n),
         \A q \in Runs : pending[q] \subseteq journal[q] /\ 1 .. head[q] \subseteq journal[q]
  PROVE  \A q \in Runs : pending'[q] \subseteq journal[q] /\ 1 .. head'[q] \subseteq journal[q]
<1>0. n \in Nat
  BY Zenon DEF SyncType
<1>1. CASE n <= head[r] \/ n \in pending[r]
  BY <1>1, Zenon DEF Accept, SyncType
<1>2. CASE ~(n <= head[r] \/ n \in pending[r]) /\ n = head[r] + 1
  <2>1. PICK k \in n .. n + Cardinality(pending[r]) :
          /\ (n + 1) .. k \subseteq pending[r]
          /\ head' = [head EXCEPT ![r] = k] /\ pending' = [pending EXCEPT ![r] = @ \ (n .. k)]
    BY <1>2, Zenon DEF Accept, BlockEnd
  <2>2. \A m \in 1 .. k : m \in 1 .. head[r] \/ m = n \/ m \in (n + 1) .. k
    BY <1>0, <1>2 DEF SyncType
  <2>3. 1 .. k \subseteq journal[r]
    BY <2>1, <2>2, Zenon
  <2> QED
    BY <2>1, <2>3, Zenon DEF SyncType
<1>3. CASE ~(n <= head[r] \/ n \in pending[r]) /\ n # head[r] + 1
  BY <1>3, Zenon DEF Accept, SyncType
<1> QED
  BY <1>1, <1>2, <1>3, Zenon

\* Nothing is copied or accepted: the copies that are left, of what is still in the table.
LEMMA FewerCopies ==
  ASSUME SyncInv, faults' \in Nat, faults' = 0 => faults = 0,
         \A r \in Runs : journal[r] \subseteq journal'[r],
         live' = live \/ live' = <<>>, up' = up \/ up' = <<>>,
         stale' \subseteq stale \cup {m \in RangeOf(up) : m.type = "event"},
         \/ head' = head /\ pending' = pending
         \/ head' = [r \in Runs |-> 0] /\ pending' = [r \in Runs |-> {}]
  PROVE  CopiesDurable'
<1> SUFFICES ASSUME faults' = 0
             PROVE  /\ \A i \in DOMAIN live' : live'[i].seq \in journal'[live'[i].run]
                    /\ \A i \in DOMAIN up' : up'[i].type = "event" => up'[i].seq \in journal'[up'[i].run]
                    /\ \A e \in stale' : e.seq \in journal'[e.run]
                    /\ \A r \in Runs : pending'[r] \subseteq journal'[r] /\ 1 .. head'[r] \subseteq journal'[r]
  BY Zenon DEF CopiesDurable
<1>0. faults = 0
  BY Zenon
<1>1. ASSUME NEW i \in DOMAIN live' PROVE live'[i].seq \in journal'[live'[i].run]
  <2>1. live' = live /\ i \in DOMAIN live /\ live[i].run \in Runs
    BY <1>1, LiveRuns DEF SyncInv
  <2> QED
    BY <1>0, <2>1, Zenon DEF SyncInv, CopiesDurable
<1>2. ASSUME NEW i \in DOMAIN up', up'[i].type = "event" PROVE up'[i].seq \in journal'[up'[i].run]
  <2>1. up' = up /\ i \in DOMAIN up /\ up[i] \in Messages
    BY <1>2 DEF SyncInv, SyncType
  <2>2. up[i].run \in Runs
    BY <1>2, <2>1, Zenon DEF Messages, EventMessages
  <2> QED
    BY <1>0, <1>2, <2>1, <2>2, Zenon DEF SyncInv, CopiesDurable
<1>3. ASSUME NEW e \in stale' PROVE e.seq \in journal'[e.run]
  <2>1. CASE e \in stale
    BY <1>0, <2>1, Zenon DEF SyncInv, SyncType, CopiesDurable, EventMessages
  <2>2. CASE e \in RangeOf(up) /\ e.type = "event"
    <3>1. PICK i \in DOMAIN up : e = up[i]
      BY <2>2, Zenon DEF RangeOf
    <3>2. e.run \in Runs
      BY <2>2, <3>1 DEF SyncInv, SyncType, Messages, EventMessages
    <3> QED
      BY <1>0, <2>2, <3>1, <3>2, Zenon DEF SyncInv, CopiesDurable
  <2> QED
    BY <1>3, <2>1, <2>2, Zenon
<1>4. ASSUME NEW r \in Runs PROVE pending'[r] \subseteq journal'[r] /\ 1 .. head'[r] \subseteq journal'[r]
  BY <1>0, <1>4 DEF SyncInv, CopiesDurable
<1> QED
  BY <1>1, <1>2, <1>3, <1>4, Zenon

\* An event is appended to the table and published.
LEMMA AppendKeeps ==
  ASSUME SyncInv, NEW r \in Runs, NEW to, NEW ok \in BOOLEAN, AppendEvent(r, to, ok)
  PROVE  SyncInv'
<1> DEFINE n == seqNo[r] + 1
<1>1. n \in Nat /\ seqNo' \in [Runs -> Nat] /\ faults' \in Nat
  BY DEF SyncInv, SyncType, AppendEvent
<1>2. journal' \in [Runs -> SUBSET Nat] /\ \A q \in Runs : journal[q] \subseteq journal'[q]
  BY <1>1, Zenon DEF SyncInv, SyncType, AppendEvent
<1>3. live' = live \/ live' = Append(live, [run |-> r, seq |-> n])
  BY Zenon DEF AppendEvent, Publish
<1>4. UNCHANGED <<listed, up, stale, head, pending>>
  BY Zenon DEF AppendEvent, broker
<1>5. live' \in Seq(HeadRecords)
  <2>1. [run |-> r, seq |-> n] \in HeadRecords
    BY <1>1, Zenon DEF HeadRecords
  <2>2. live \in Seq(HeadRecords)
    BY Zenon DEF SyncInv, SyncType
  <2> QED
    BY <1>3, <2>1, <2>2, AppendProperties, ZenonT(60)
<1>6. SyncType'
  BY <1>1, <1>2, <1>4, <1>5, Zenon DEF SyncInv, SyncType
<1>7. ASSUME faults' = 0 PROVE faults = 0 /\ n \in journal'[r]
  BY <1>7 DEF SyncInv, SyncType, AppendEvent
<1>8. CASE live' = live
  BY <1>1, <1>2, <1>4, <1>6, <1>7, <1>8, FewerCopies, Zenon DEF SyncInv
<1>9. CASE live' = Append(live, [run |-> r, seq |-> n])
  <2>1. ASSUME faults' = 0, NEW i \in DOMAIN live' PROVE live'[i].seq \in journal'[live'[i].run]
    <3>1. live \in Seq(HeadRecords) /\ live' \in Seq(HeadRecords)
      BY <1>5, Zenon DEF SyncInv, SyncType
    <3>2. (i \in DOMAIN live /\ live'[i] = live[i]) \/ live'[i] = [run |-> r, seq |-> n]
      BY <1>9, <2>1, <3>1, AppendProperties
    <3>3. ASSUME i \in DOMAIN live PROVE live[i].run \in Runs /\ live[i].seq \in journal[live[i].run]
      BY <1>7, <2>1, <3>3, LiveRuns, Zenon DEF SyncInv, CopiesDurable
    <3> QED
      BY <1>2, <1>7, <2>1, <3>2, <3>3
  <2>2. ASSUME faults' = 0, NEW i \in DOMAIN up, up[i].type = "event" PROVE up[i].seq \in journal'[up[i].run]
    <3>1. up[i].run \in Runs
      BY <2>2 DEF SyncInv, SyncType, Messages, EventMessages
    <3> QED
      BY <1>2, <1>7, <2>2, <3>1, Zenon DEF SyncInv, CopiesDurable
  <2>3. ASSUME faults' = 0, NEW e \in stale PROVE e.seq \in journal'[e.run]
    BY <1>2, <1>7, <2>3, Zenon DEF SyncInv, SyncType, CopiesDurable, EventMessages
  <2>4. ASSUME faults' = 0, NEW q \in Runs PROVE pending[q] \subseteq journal'[q] /\ 1 .. head[q] \subseteq journal'[q]
    BY <1>2, <1>7, <2>4, Zenon DEF SyncInv, CopiesDurable
  <2> QED
    BY <1>4, <1>6, <2>1, <2>2, <2>3, <2>4, Zenon DEF SyncInv, CopiesDurable
<1> QED
  BY <1>3, <1>8, <1>9, Zenon

\* A message is put on the stream; if it is an event, the table holds it.
LEMMA SendKeeps ==
  ASSUME SyncInv, NEW m \in Messages, up' = Append(up, m),
         faults = 0 /\ m.type = "event" => m.seq \in journal[m.run],
         seqNo' = seqNo, journal' = journal, stale' = stale, head' = head, pending' = pending, faults' = faults,
         live' = live \/ (live # <<>> /\ live' = Tail(live)),
         listed' = listed \/ listed' = <<>>
  PROVE  SyncInv'
<1>1. up \in Seq(Messages) /\ live \in Seq(HeadRecords) /\ listed \in Seq(HeadRecords)
  BY Zenon DEF SyncInv, SyncType
<1>2. up' \in Seq(Messages)
  BY <1>1, AppendProperties, Zenon
<1>3. live' \in Seq(HeadRecords) /\ \A i \in DOMAIN live' : \E j \in DOMAIN live : live'[i] = live[j]
  <2>1. CASE live' = live
    BY <1>1, <2>1, Zenon
  <2>2. CASE live # <<>> /\ live' = Tail(live)
    BY <1>1, <2>2, Dequeue, ZenonT(60)
  <2> QED
    BY <2>1, <2>2, Zenon
<1>4. listed' \in Seq(HeadRecords)
  BY <1>1, EmptySeq, Zenon
<1>5. SyncType'
  BY <1>2, <1>3, <1>4, Zenon DEF SyncInv, SyncType
<1>6. ASSUME faults = 0, NEW i \in DOMAIN up', up'[i].type = "event" PROVE up'[i].seq \in journal[up'[i].run]
  <2>1. (i \in DOMAIN up /\ up'[i] = up[i]) \/ up'[i] = m
    BY <1>1, <1>2, <1>6, AppendProperties
  <2> QED
    BY <1>6, <2>1, Zenon DEF SyncInv, CopiesDurable
<1> QED
  BY <1>3, <1>5, <1>6, Zenon DEF SyncInv, CopiesDurable

\* The invariant holds initially, and every step of the system keeps it.
LEMMA SyncInvInit == Init => SyncInv
<1> SUFFICES ASSUME Init PROVE SyncInv
  BY Zenon
<1>1. SyncType
  BY FS_EmptySet DEF Init, SyncInit, SyncType
<1>2. CopiesDurable
  BY DEF Init, SyncInit, CopiesDurable
<1> QED
  BY <1>1, <1>2, Zenon DEF SyncInv

\* Every step of client, connection and manager keeps the invariant.
LEMMA SyncInvStep == SyncInv /\ [Next]_vars => SyncInv'
<1> SUFFICES ASSUME SyncInv, [Next]_vars PROVE SyncInv'
  BY Zenon
<1> USE DEF client, session, broker, counters
<1>0. SyncType /\ CopiesDurable
  BY Zenon DEF SyncInv
<1>1. ASSUME NEW r \in Runs, NEW to, NEW ok \in BOOLEAN, AppendEvent(r, to, ok) PROVE SyncInv'
  BY <1>1, AppendKeeps, Zenon
<1>2. CASE Connect \/ SubscribeEvents \/ ReceiveReplay \/ ReplayGap
  <2>1. UNCHANGED <<seqNo, journal, live, listed, up, stale, head, pending, faults>>
    BY <1>2, Zenon DEF Connect, SubscribeEvents, ReceiveReplay, ReplayGap
  <2> QED
    BY <1>0, <2>1, Zenon DEF SyncInv, SyncType, CopiesDurable
<1>3. CASE List
  <2>1. PICK l \in Listings : listed' = [i \in DOMAIN l |-> [run |-> l[i], seq |-> seqNo[l[i]]]]
    BY <1>3, Zenon DEF List
  <2>2. PICK n \in Nat : l \in [1 .. n -> Known]
    <3>1. Cardinality(Known) \in Nat
      BY FS_Subset, FS_CardinalityType, SyncBoundsAssumption, Zenon DEF Known
    <3> QED
      BY <3>1, SyncBoundsAssumption, Zenon DEF Listings
  <2>3. \A i \in 1 .. n : [run |-> l[i], seq |-> seqNo[l[i]]] \in HeadRecords
    BY <1>0, <2>2, Zenon DEF SyncType, HeadRecords, Known
  <2>4. listed' \in Seq(HeadRecords)
    BY <2>1, <2>2, <2>3, IsASeq
  <2>5. UNCHANGED <<seqNo, journal, live, up, stale, head, pending, faults>>
    BY <1>3, Zenon DEF List
  <2> QED
    BY <1>0, <2>4, <2>5, Zenon DEF SyncInv, SyncType, CopiesDurable
<1>4. CASE sendRunHeads
  <2>1. CASE listed = <<>>
    <3>1. UNCHANGED <<seqNo, journal, live, listed, up, stale, head, pending, faults>>
      BY <1>4, <2>1, Zenon DEF sendRunHeads
    <3> QED
      BY <1>0, <3>1, Zenon DEF SyncInv, SyncType, CopiesDurable
  <2>2. CASE listed # <<>>
    <3>1. Heads(listed) \in Messages /\ Heads(listed).type # "event"
      BY <1>0, Zenon DEF SyncType, Heads, Messages, HeadRecords
    <3>2. /\ up' = Append(up, Heads(listed)) /\ live' = live /\ listed' = <<>>
          /\ seqNo' = seqNo /\ journal' = journal /\ stale' = stale
          /\ head' = head /\ pending' = pending /\ faults' = faults
      BY <1>4, <2>2, Zenon DEF sendRunHeads
    <3> QED
      BY <3>1, <3>2, SendKeeps, Zenon
  <2> QED
    BY <2>1, <2>2, Zenon
<1>5. CASE ForwardLive
  <2>1. Head(live) = live[1] /\ 1 \in DOMAIN live /\ live[1] \in HeadRecords
    BY <1>0, <1>5 DEF ForwardLive, SyncType
  <2> DEFINE m == Event(Head(live).run, Head(live).seq)
  <2>2. m \in Messages
    BY <2>1, Zenon DEF Event, HeadRecords, Messages, EventMessages
  <2>3. faults = 0 => m.seq \in journal[m.run]
    BY <1>0, <2>1, Zenon DEF CopiesDurable, Event
  <2> QED
    BY <1>5, <2>2, <2>3, SendKeeps, Zenon DEF ForwardLive
<1>6. CASE ReplayEvent
  <2> DEFINE c == Head(replay)
             m == Event(c.run, c.next + 1)
  <2>1. c.run \in Runs /\ c.next + 1 \in journal[c.run]
    BY <1>6, Zenon DEF ReplayEvent, EventsOf
  <2>2. m \in Messages /\ m.seq \in journal[m.run]
    BY <1>0, <2>1, Zenon DEF Event, Messages, EventMessages, SyncType
  <2>3. /\ up' = Append(up, m)
        /\ seqNo' = seqNo /\ journal' = journal /\ stale' = stale /\ live' = live
        /\ head' = head /\ pending' = pending /\ faults' = faults /\ listed' = listed
    BY <1>6, Zenon DEF ReplayEvent
  <2> QED
    BY <2>2, <2>3, SendKeeps, Zenon
<1>7. CASE Receive
  <2>1. /\ Head(up) = up[1] /\ 1 \in DOMAIN up /\ up[1] \in Messages /\ up' \in Seq(Messages)
        /\ \A i \in DOMAIN up' : \E j \in DOMAIN up : up'[i] = up[j]
    BY <1>0, <1>7, Dequeue, ZenonT(60) DEF Receive, SyncType
  <2>2. UNCHANGED <<seqNo, journal, live, listed, stale, faults>>
    BY <1>7, Zenon DEF Receive
  <2>3. CASE Head(up).type = "event"
    <3>1. Head(up).run \in Runs /\ Head(up).seq \in Nat /\ Accept(Head(up).run, Head(up).seq)
      BY <1>7, <2>1, <2>3, Zenon DEF Receive, Messages, EventMessages
    <3>2. SyncType'
      BY <1>0, <2>1, <2>2, <3>1, AcceptType, Zenon DEF SyncType
    <3>3. faults = 0 => \A q \in Runs : pending'[q] \subseteq journal[q] /\ 1 .. head'[q] \subseteq journal[q]
      BY <1>0, <2>1, <2>3, <3>1, AcceptDurable, Zenon DEF CopiesDurable
    <3> QED
      BY <1>0, <2>1, <2>2, <3>2, <3>3, ZenonT(60) DEF SyncInv, CopiesDurable
  <2>4. CASE Head(up).type # "event"
    <3>1. UNCHANGED <<head, pending>>
      BY <1>7, <2>4, Zenon DEF Receive
    <3> QED
      BY <1>0, <2>1, <2>2, <3>1, ZenonT(60) DEF SyncInv, SyncType, CopiesDurable
  <2> QED
    BY <2>3, <2>4, Zenon
<1>8. CASE ReceiveStale
  <2>1. PICK e \in stale : stale' = stale \ {e} /\ Accept(e.run, e.seq)
    BY <1>8, Zenon DEF ReceiveStale
  <2>2. e.run \in Runs /\ e.seq \in Nat
    BY <1>0, Zenon DEF SyncType, EventMessages
  <2>3. UNCHANGED <<seqNo, journal, live, listed, up, faults>>
    BY <1>8, Zenon DEF ReceiveStale
  <2>4. SyncType'
    BY <1>0, <2>1, <2>2, <2>3, AcceptType, Zenon DEF SyncType
  <2>5. faults = 0 => \A q \in Runs : pending'[q] \subseteq journal[q] /\ 1 .. head'[q] \subseteq journal[q]
    BY <1>0, <2>1, <2>2, AcceptDurable, Zenon DEF CopiesDurable
  <2> QED
    BY <1>0, <2>1, <2>3, <2>4, <2>5, Zenon DEF SyncInv, CopiesDurable
<1>9. CASE LoseStale \/ StreamBreaks
  <2>1. /\ UNCHANGED <<seqNo, journal, head, pending, faults>>
        /\ live' = live \/ live' = <<>>
        /\ up' = up \/ up' = <<>>
        /\ listed' = listed \/ listed' = <<>>
        /\ stale' \subseteq stale \cup {m \in RangeOf(up) : m.type = "event"}
    BY <1>9, Zenon DEF LoseStale, StreamBreaks, SessionLost
  <2>2. {m \in RangeOf(up) : m.type = "event"} \subseteq EventMessages
    BY <1>0 DEF SyncType, RangeOf, Messages
  <2>3. SyncType'
    <3>1. live' \in Seq(HeadRecords) /\ listed' \in Seq(HeadRecords) /\ up' \in Seq(Messages)
      BY <1>0, <2>1, EmptySeq, Zenon DEF SyncType
    <3> QED
      BY <1>0, <2>1, <2>2, <3>1, Zenon DEF SyncType
  <2> QED
    BY <1>0, <2>1, <2>3, FewerCopies, Zenon DEF SyncInv, SyncType
<1>10. CASE ClientRestarts
  <2>1. \A r \in Runs : MaxOf(journal[r]) \in Nat
    BY <1>10 DEF ClientRestarts
  <2>2. /\ seqNo' \in [Runs -> Nat] /\ journal' \in [Runs -> SUBSET Nat]
        /\ \A r \in Runs : journal[r] \subseteq journal'[r]
    BY <1>0, <1>10, <2>1 DEF ClientRestarts, SyncType
  <2>3. /\ UNCHANGED <<head, pending, faults>>
        /\ live' = <<>> /\ up' = <<>> /\ listed' = <<>>
        /\ stale' = stale \cup {m \in RangeOf(up) : m.type = "event"}
    BY <1>10, Zenon DEF ClientRestarts, SessionLost
  <2>4. {m \in RangeOf(up) : m.type = "event"} \subseteq EventMessages
    BY <1>0 DEF SyncType, RangeOf, Messages
  <2>5. SyncType'
    BY <1>0, <2>2, <2>3, <2>4 DEF SyncType
  <2> QED
    BY <1>0, <2>2, <2>3, <2>5, FewerCopies, Zenon DEF SyncInv, SyncType
<1>11. CASE ManagerRestarts
  <2>1. /\ UNCHANGED <<seqNo, journal, faults>>
        /\ live' = <<>> /\ up' = <<>> /\ listed' = <<>> /\ stale' = {}
        /\ head' = [r \in Runs |-> 0] /\ pending' = [r \in Runs |-> {}]
    BY <1>11, Zenon DEF ManagerRestarts, SessionLost
  <2>2. SyncType'
    BY <1>0, <2>1, FS_EmptySet DEF SyncType
  <2> QED
    BY <1>0, <2>1, <2>2, FewerCopies, Zenon DEF SyncInv, SyncType
<1>12. CASE UNCHANGED vars
  BY <1>0, <1>12, Zenon DEF SyncInv, SyncType, CopiesDurable, vars
<1> QED
  BY <1>1, <1>2, <1>3, <1>4, <1>5, <1>6, <1>7, <1>8, <1>9, <1>10, <1>11, <1>12, Zenon DEF Next, SessionStep

\* What the Manager counts as received is in the Client's table, through any breaks and
\* restarts, unless an append failed.
THEOREM HeadsAreDurable == Spec => []HeadIsDurable
<1>1. SyncInv => HeadIsDurable
  BY Zenon DEF SyncInv, CopiesDurable, HeadIsDurable
<1> QED
  BY <1>1, SyncInvInit, SyncInvStep, PTL DEF Spec

\* Only an accepted event and a restart of the Manager change the broker.
LEMMA BrokerSteps ==
  ASSUME SyncInv, [Next]_vars
  PROVE  \/ UNCHANGED <<head, pending>>
         \/ \E r \in Runs, n \in Nat : Event(r, n) \in RangeOf(up) \cup stale /\ Accept(r, n)
         \/ ManagerRestarts
<1> USE DEF client, session, broker, counters
<1>0. SyncType
  BY Zenon DEF SyncInv
<1>1. ASSUME NEW r \in Runs, NEW to, NEW ok \in BOOLEAN, AppendEvent(r, to, ok) PROVE UNCHANGED <<head, pending>>
  BY <1>1, Zenon DEF AppendEvent
<1>2. CASE SessionStep /\ ~Receive
  BY <1>2, Zenon DEF SessionStep, Connect, SubscribeEvents, List, sendRunHeads, ForwardLive, ReceiveReplay, ReplayEvent, ReplayGap
<1>3. CASE Receive
  <2>1. Head(up) = up[1] /\ 1 \in DOMAIN up /\ up[1] \in Messages
    BY <1>0, <1>3, Dequeue, Zenon DEF Receive, SyncType
  <2>2. CASE Head(up).type = "event"
    <3>1. /\ Head(up).run \in Runs /\ Head(up).seq \in Nat
          /\ Event(Head(up).run, Head(up).seq) = Head(up)
      BY <2>1, <2>2, Zenon DEF Messages, EventMessages, Event
    <3>2. Accept(Head(up).run, Head(up).seq)
      BY <1>3, <2>2, Zenon DEF Receive
    <3>3. Head(up) \in RangeOf(up)
      BY <2>1, Zenon DEF RangeOf
    <3> QED
      BY <3>1, <3>2, <3>3, Zenon
  <2>3. CASE Head(up).type # "event"
    BY <1>3, <2>3, Zenon DEF Receive
  <2> QED
    BY <2>2, <2>3, Zenon
<1>4. CASE ReceiveStale
  <2>1. PICK e \in stale : Accept(e.run, e.seq)
    BY <1>4, Zenon DEF ReceiveStale
  <2>2. e.run \in Runs /\ e.seq \in Nat /\ Event(e.run, e.seq) = e
    BY <1>0, Zenon DEF SyncType, EventMessages, Event
  <2> QED
    BY <2>1, <2>2, Zenon
<1>5. CASE LoseStale \/ StreamBreaks \/ ClientRestarts
  BY <1>5, Zenon DEF LoseStale, StreamBreaks, ClientRestarts
<1>6. CASE UNCHANGED vars
  BY <1>6, Zenon DEF vars
<1> QED
  BY <1>1, <1>2, <1>3, <1>4, <1>5, <1>6, Zenon DEF Next

\* Early events stay beyond a gap and within the bound when an event is accepted.
LEMMA AcceptKeepsGap ==
  ASSUME SyncType, PendingBeyondGap, NEW r \in Runs, NEW n \in Nat, Accept(r, n)
  PROVE  PendingBeyondGap'
<1>0. Cardinality(pending[r]) \in Nat
  BY FS_CardinalityType, Zenon DEF SyncType
<1>1. CASE n <= head[r] \/ n \in pending[r]
  BY <1>1, Zenon DEF Accept, PendingBeyondGap
<1>2. CASE ~(n <= head[r] \/ n \in pending[r]) /\ n = head[r] + 1
  <2>1. PICK k \in n .. n + Cardinality(pending[r]) :
          /\ k + 1 \notin pending[r]
          /\ head' = [head EXCEPT ![r] = k] /\ pending' = [pending EXCEPT ![r] = @ \ (n .. k)]
    BY <1>2, Zenon DEF Accept, BlockEnd
  <2>2. \A m \in pending[r] \ (n .. k) : m > k + 1
    <3>1. k \in Nat /\ k >= n /\ pending[r] \subseteq Nat
      BY <1>0 DEF SyncType
    <3>2. \A m \in pending[r] : m > n
      BY <1>2, Zenon DEF PendingBeyondGap
    <3>3. ASSUME NEW m \in pending[r] \ (n .. k) PROVE m > k + 1
      <4>1. m \in Nat /\ m > n /\ ~(m <= k) /\ m # k + 1
        BY <2>1, <3>1, <3>2, <3>3
      <4> QED
        BY <3>1, <4>1
    <3> QED
      BY <3>3, Zenon
  <2>3. Cardinality(pending[r] \ (n .. k)) <= PendingCap
    <3>1. pending[r] \ (n .. k) \in SUBSET pending[r] /\ IsFiniteSet(pending[r])
      BY Zenon DEF SyncType
    <3>2. Cardinality(pending[r] \ (n .. k)) <= Cardinality(pending[r])
      BY <3>1, FS_Subset, Zenon
    <3>3. Cardinality(pending[r] \ (n .. k)) \in Nat
      BY <3>1, FS_Subset, FS_CardinalityType, Zenon
    <3> QED
      BY <1>0, <3>2, <3>3, SyncBoundsAssumption DEF PendingBeyondGap
  <2> QED
    BY <2>1, <2>2, <2>3, Zenon DEF SyncType, PendingBeyondGap
<1>3. CASE ~(n <= head[r] \/ n \in pending[r]) /\ n # head[r] + 1
  <2>1. CASE Cardinality(pending[r]) >= PendingCap
    BY <1>3, <2>1, Zenon DEF Accept, PendingBeyondGap
  <2>2. CASE ~(Cardinality(pending[r]) >= PendingCap)
    <3>1. head' = head /\ pending' = [pending EXCEPT ![r] = @ \cup {n}]
      BY <1>3, <2>2, Zenon DEF Accept
    <3>2. Cardinality(pending[r] \cup {n}) <= PendingCap
      <4>1. Cardinality(pending[r] \cup {n}) = Cardinality(pending[r]) + 1
        BY <1>3, FS_AddElement, Zenon DEF SyncType
      <4> QED
        BY <1>0, <2>2, <4>1, SyncBoundsAssumption
    <3>3. \A m \in pending[r] \cup {n} : m > head[r] + 1
      BY <1>3 DEF SyncType, PendingBeyondGap
    <3> QED
      BY <3>1, <3>2, <3>3, Zenon DEF SyncType, PendingBeyondGap
  <2> QED
    BY <2>1, <2>2, Zenon
<1> QED
  BY <1>1, <1>2, <1>3, Zenon

\* What the broker keeps early is beyond a real gap and within maxPendingRunEvents.
THEOREM EarlyEventsBounded == Spec => []PendingBeyondGap
<1>1. Init => PendingBeyondGap
  BY FS_EmptySet, SyncBoundsAssumption DEF Init, SyncInit, PendingBeyondGap
<1>2. ASSUME SyncInv, PendingBeyondGap, [Next]_vars PROVE PendingBeyondGap'
  <2>1. CASE UNCHANGED <<head, pending>>
    BY <1>2, <2>1, Zenon DEF PendingBeyondGap
  <2>2. ASSUME NEW r \in Runs, NEW n \in Nat, Accept(r, n) PROVE PendingBeyondGap'
    BY <1>2, <2>2, AcceptKeepsGap, Zenon DEF SyncInv
  <2>3. CASE ManagerRestarts
    BY <2>3, FS_EmptySet, SyncBoundsAssumption DEF ManagerRestarts, PendingBeyondGap
  <2> QED
    BY <1>2, <2>1, <2>2, <2>3, BrokerSteps, Zenon
<1> QED
  BY <1>1, <1>2, SyncInvInit, SyncInvStep, PTL DEF Spec

\* Accepting an event moves the head over that event and early ones only.
LEMMA AcceptAdvances ==
  ASSUME SyncType, NEW r \in Runs, NEW n \in Nat, Accept(r, n), NEW q \in Runs
  PROVE  /\ head'[q] >= head[q]
         /\ \A m \in head[q] + 1 .. head'[q] : m \in pending[q] \/ (q = r /\ m = n)
<1>0. Cardinality(pending[r]) \in Nat
  BY FS_CardinalityType, Zenon DEF SyncType
<1>1. CASE n <= head[r] \/ n \in pending[r]
  BY <1>1 DEF Accept, SyncType
<1>2. CASE ~(n <= head[r] \/ n \in pending[r]) /\ n = head[r] + 1
  <2>1. PICK k \in n .. n + Cardinality(pending[r]) :
          /\ (n + 1) .. k \subseteq pending[r]
          /\ head' = [head EXCEPT ![r] = k]
    BY <1>2, Zenon DEF Accept, BlockEnd
  <2>2. k \in Nat /\ k >= n
    BY <1>0
  <2>3. \A m \in n .. k : m = n \/ m \in (n + 1) .. k
    BY <2>2
  <2> QED
    BY <1>2, <2>1, <2>2, <2>3, SMTT(30) DEF SyncType
<1>3. CASE ~(n <= head[r] \/ n \in pending[r]) /\ n # head[r] + 1
  <2>1. head' = head
    BY <1>3, Zenon DEF Accept
  <2> QED
    BY <2>1 DEF SyncType
<1> QED
  BY <1>1, <1>2, <1>3, Zenon

\* Between restarts of the Manager the head of a run never falls, and it moves only over
\* events that have arrived.
THEOREM HeadsOnlyAdvance == Spec => HeadsAdvance
<1> DEFINE Restarts == managerRestarts \in Nat
<1>1. Init => Restarts
  BY DEF Init, SyncInit
<1>2. ASSUME Restarts, [Next]_vars PROVE Restarts' /\ (ManagerRestarts => managerRestarts' # managerRestarts)
  <2> USE DEF client, session, broker, counters
  <2>1. managerRestarts' = managerRestarts \/ managerRestarts' = managerRestarts + 1
    BY <1>2, Zenon DEF Next, vars, SessionStep, AppendEvent, Connect, SubscribeEvents, List, sendRunHeads, ForwardLive,
      ReceiveReplay, ReplayEvent, ReplayGap, Receive, ReceiveStale, LoseStale, StreamBreaks, ClientRestarts, ManagerRestarts
  <2>2. ManagerRestarts => managerRestarts' = managerRestarts + 1
    BY Zenon DEF ManagerRestarts
  <2> QED
    BY <1>2, <2>1, <2>2
<1>3. ASSUME SyncInv, Restarts, [Next]_vars, managerRestarts' = managerRestarts, NEW q \in Runs
      PROVE  /\ head'[q] >= head[q]
             /\ \A m \in head[q] + 1 .. head'[q] :
                  m \in pending[q] \/ Event(q, m) \in RangeOf(up) \cup stale
  <2>1. CASE UNCHANGED <<head, pending>>
    BY <1>3, <2>1 DEF SyncInv, SyncType
  <2>2. ASSUME NEW r \in Runs, NEW n \in Nat, Event(r, n) \in RangeOf(up) \cup stale, Accept(r, n)
        PROVE  /\ head'[q] >= head[q]
               /\ \A m \in head[q] + 1 .. head'[q] :
                    m \in pending[q] \/ Event(q, m) \in RangeOf(up) \cup stale
    BY <1>3, <2>2, AcceptAdvances, Zenon DEF SyncInv
  <2> QED
    BY <1>2, <1>3, <2>1, <2>2, BrokerSteps, Zenon
<1>4. SyncInv /\ Restarts /\ [Next]_vars =>
        [managerRestarts' = managerRestarts =>
           \A r \in Runs :
             /\ head'[r] >= head[r]
             /\ \A n \in head[r] + 1 .. head'[r] :
                  n \in pending[r] \/ Event(r, n) \in RangeOf(up) \cup stale]_vars
  BY <1>3, Zenon
<1> QED
  BY <1>1, <1>2, <1>4, SyncInvInit, SyncInvStep, PTL DEF Spec, HeadsAdvance

-----------------------------------------------------------------------------
(* No event is forgotten.                                                  *)

\* What was advertised or asked for is numbered by the Client.
Told(hs) == \A h \in RangeOf(hs) : h.run \in Runs /\ h.seq \in Nat /\ h.seq <= seqNo[h.run]
Asked(cs) ==
  \A c \in RangeOf(cs) : /\ c.run \in Runs /\ c.next \in Nat /\ c.through \in Nat
                         /\ c.next < c.through /\ c.through <= seqNo[c.run]
WayType ==
  /\ phase \in [Runs -> {"none", "queued", "running", "over"}]
  /\ lossy \in BOOLEAN
  /\ replay \in Seq(Cursors) /\ down \in Seq(Seq(Cursors))
  /\ \A r \in Runs : phase[r] = "none" => seqNo[r] = 0 /\ journal[r] = {}
WayBounds ==
  /\ Told(listed) /\ \A m \in RangeOf(up) : m.type = "heads" => Told(m.heads)
  /\ Asked(replay) /\ \A cs \in RangeOf(down) : Asked(cs)
WholeJournal == faults = 0 => \A r \in Runs : journal[r] = 1 .. seqNo[r]

\* Once the heads are read, an event is in the list or in the live channel; once they
\* are sent, what the Manager lacks is on its way.
InLive(r, n) == [run |-> r, seq |-> n] \in RangeOf(live)
InUp(r, n) == Event(r, n) \in RangeOf(up)
InHeads(r, n) ==
  \E m \in RangeOf(up) : m.type = "heads" /\ \E h \in RangeOf(m.heads) : h.run = r /\ h.seq >= n
Within(cs, r, n) == \E c \in RangeOf(cs) : c.run = r /\ c.next < n /\ n <= c.through
InDown(r, n) == \E cs \in RangeOf(down) : Within(cs, r, n)
InReplay(r, n) == Within(replay, r, n)
Coming(r, n) ==
  n \in pending[r] \/ InLive(r, n) \/ InUp(r, n) \/ InHeads(r, n) \/ InDown(r, n) \/ InReplay(r, n)
InList(r, n) == \E h \in RangeOf(listed) : h.run = r /\ h.seq >= n
ListHolds == \A r \in Runs : \A n \in journal[r] : InLive(r, n) \/ InList(r, n)
WayHolds == \A r \in Runs : \A n \in journal[r] : n > head[r] => Coming(r, n)
Gentle == faults = 0 /\ ~lossy /\ Cardinality(Known) <= MaxHeads
OnWay == Gentle => (sess = "listed" => ListHolds) /\ (sess = "synced" => WayHolds)
WayInv == WayType /\ WayBounds /\ WholeJournal /\ OnWay

\* The elements of a queue that grows.
LEMMA RangeAppend ==
  ASSUME NEW S, NEW s \in Seq(S), NEW x \in S
  PROVE  \A y : y \in RangeOf(Append(s, x)) <=> y \in RangeOf(s) \/ y = x
<1> DEFINE a == Append(s, x)
<1>1. /\ Len(s) \in Nat /\ DOMAIN s = 1 .. Len(s) /\ DOMAIN a = 1 .. (Len(s) + 1)
      /\ a[Len(s) + 1] = x /\ \A i \in 1 .. Len(s) : a[i] = s[i]
  OBVIOUS
<1>2. \A i \in DOMAIN a : i \in DOMAIN s \/ i = Len(s) + 1
  BY <1>1
<1>3. \A i \in DOMAIN s : i \in DOMAIN a
  BY <1>1
<1>4. Len(s) + 1 \in DOMAIN a
  BY <1>1
<1> HIDE DEF a
<1>5. ASSUME NEW y, y \in RangeOf(a) PROVE y \in RangeOf(s) \/ y = x
  BY <1>1, <1>2, <1>5, Zenon DEF RangeOf
<1>6. ASSUME NEW y, y \in RangeOf(s) PROVE y \in RangeOf(a)
  BY <1>1, <1>3, <1>6, Zenon DEF RangeOf
<1>7. x \in RangeOf(a)
  BY <1>1, <1>4, Zenon DEF RangeOf
<1> QED
  BY <1>5, <1>6, <1>7, Zenon DEF a

\* The elements of a queue are its first and those of the rest.
LEMMA RangeDequeue ==
  ASSUME NEW S, NEW s \in Seq(S), s # <<>>
  PROVE  /\ Head(s) \in S /\ Tail(s) \in Seq(S)
         /\ \A y : y \in RangeOf(s) <=> y = Head(s) \/ y \in RangeOf(Tail(s))
<1>1. /\ Head(s) = s[1] /\ 1 \in DOMAIN s /\ s[1] \in S /\ Tail(s) \in Seq(S)
      /\ \A i \in DOMAIN Tail(s) : i + 1 \in DOMAIN s /\ Tail(s)[i] = s[i + 1]
  OBVIOUS
<1>2. \A i \in DOMAIN s : i = 1 \/ (i - 1 \in DOMAIN Tail(s) /\ Tail(s)[i - 1] = s[i])
  OBVIOUS
<1>3. ASSUME NEW y, y \in RangeOf(s) PROVE y = Head(s) \/ y \in RangeOf(Tail(s))
  <2>1. PICK i \in DOMAIN s : y = s[i]
    BY <1>3, Zenon DEF RangeOf
  <2>2. i = 1 \/ \E j \in DOMAIN Tail(s) : Tail(s)[j] = s[i]
    BY <1>2, Zenon
  <2> QED
    BY <1>1, <2>1, <2>2, Zenon DEF RangeOf
<1>4. ASSUME NEW y, y = Head(s) \/ y \in RangeOf(Tail(s)) PROVE y \in RangeOf(s)
  <2>1. \A i \in DOMAIN Tail(s) : \E j \in DOMAIN s : Tail(s)[i] = s[j]
    BY <1>1, Zenon
  <2>2. Head(s) \in RangeOf(s)
    BY <1>1, Zenon DEF RangeOf
  <2>3. ASSUME y \in RangeOf(Tail(s)) PROVE y \in RangeOf(s)
    BY <2>1, <2>3, Zenon DEF RangeOf
  <2> QED
    BY <1>4, <2>2, <2>3, Zenon
<1> QED
  BY <1>1, <1>3, <1>4, Zenon

\* Nothing is on an empty queue.
LEMMA RangeEmpty == \A y : y \notin RangeOf(<<>>)
BY DEF RangeOf

\* The elements of a queue have its type.
LEMMA RangeType ==
  ASSUME NEW S, NEW s \in Seq(S)
  PROVE  RangeOf(s) \subseteq S
BY DEF RangeOf

\* The most that a whole journal holds is its last number.
LEMMA MaxOfWhole ==
  ASSUME NEW n \in Nat
  PROVE  MaxOf(1 .. n) = n
<1>1. CASE n = 0
  BY <1>1 DEF MaxOf
<1>2. CASE n # 0
  <2>1. n \in 1 .. n /\ \A y \in 1 .. n : y <= n
    BY <1>2
  <2>2. \A x \in 1 .. n : (\A y \in 1 .. n : y <= x) => x = n
    BY <2>1
  <2>3. PICK x \in 1 .. n : x = (CHOOSE z \in 1 .. n : \A y \in 1 .. n : y <= z) /\ \A y \in 1 .. n : y <= x
    BY <2>1, Zenon
  <2>4. 1 .. n # {}
    BY <2>1, Zenon
  <2> QED
    BY <2>2, <2>3, <2>4, Zenon DEF MaxOf
<1> QED
  BY <1>1, <1>2, Zenon

\* Accepting an event takes it, and the early ones it connects to, and no other.
LEMMA AcceptOnly ==
  ASSUME SyncType, lossy \in BOOLEAN, NEW r \in Runs, NEW n \in Nat, Accept(r, n), ~lossy'
  PROVE  /\ ~lossy
         /\ \A q \in Runs : \A m \in Nat : m > head'[q] =>
              /\ m > head[q] /\ (m \in pending[q] => m \in pending'[q])
              /\ (q = r /\ m = n => m \in pending'[q])
<1>0. head \in [Runs -> Nat] /\ pending \in [Runs -> SUBSET Nat]
  BY Zenon DEF SyncType
<1>1. CASE n <= head[r] \/ n \in pending[r]
  <2>1. head' = head /\ pending' = pending /\ lossy' = lossy
    BY <1>1, Zenon DEF Accept
  <2> QED
    BY <1>0, <1>1, <2>1
<1>2. CASE ~(n <= head[r] \/ n \in pending[r]) /\ n = head[r] + 1
  <2>1. PICK k \in n .. n + Cardinality(pending[r]) :
          /\ head' = [head EXCEPT ![r] = k] /\ pending' = [pending EXCEPT ![r] = @ \ (n .. k)]
          /\ lossy' = lossy
    BY <1>2, Zenon DEF Accept
  <2>2. k \in Nat /\ k >= n
    BY FS_CardinalityType DEF SyncType
  <2> QED
    BY <1>0, <1>2, <2>1, <2>2, SMTT(30)
<1>3. CASE ~(n <= head[r] \/ n \in pending[r]) /\ n # head[r] + 1
  <2>1. head' = head /\ lossy' = lossy /\ pending' = [pending EXCEPT ![r] = @ \cup {n}]
    BY <1>3, Zenon DEF Accept
  <2> QED
    BY <1>0, <1>3, <2>1, Zenon
<1> QED
  BY <1>1, <1>2, <1>3, Zenon

\* Runs are only added, so a list that can hold them all now could before.
LEMMA KnownGrows ==
  ASSUME \A r \in Runs : phase[r] # "none" => phase'[r] # "none"
  PROVE  Cardinality(Known') <= MaxHeads => Cardinality(Known) <= MaxHeads
<1>1. Known \subseteq Known' /\ Known' \subseteq Runs
  BY Zenon DEF Known
<1>2. IsFiniteSet(Known') /\ IsFiniteSet(Known)
  BY <1>1, FS_Subset, SyncBoundsAssumption, Zenon
<1>3. /\ Cardinality(Known) <= Cardinality(Known')
      /\ Cardinality(Known) \in Nat /\ Cardinality(Known') \in Nat
  BY <1>1, <1>2, FS_Subset, FS_CardinalityType, Zenon
<1> QED
  BY <1>3, SyncBoundsAssumption

\* The list of runs names every run it has room for.
LEMMA ListCovers ==
  ASSUME Cardinality(Known) <= MaxHeads, NEW l \in Listings
  PROVE  \A r \in Known : \E i \in DOMAIN l : l[i] = r
<1>1. IsFiniteSet(Known) /\ Cardinality(Known) \in Nat
  BY FS_Subset, FS_CardinalityType, SyncBoundsAssumption, Zenon DEF Known
<1> DEFINE k == Cardinality(Known)
<1>2. /\ l \in [1 .. k -> Known]
      /\ \A i, j \in 1 .. k : i < j => l[i] # l[j]
  BY Zenon DEF Listings
<1>3. l \in Injection(1 .. k, Known)
  <2>1. \A i, j \in 1 .. k : l[i] = l[j] => i = j
    BY <1>1, <1>2
  <2> QED
    BY <1>2, <2>1, Zenon DEF Injection, IsInjective
<1>4. Cardinality(1 .. k) = k
  BY <1>1, FS_Interval
<1>5. l \in Surjection(1 .. k, Known)
  BY <1>1, <1>3, <1>4, FS_Injection, Zenon
<1> QED
  BY <1>2, <1>5, Zenon DEF Surjection

\* The Manager asks for all it lacks of what was advertised.
LEMMA MissingCovers ==
  ASSUME SyncType, NEW hs \in Seq(HeadRecords), Told(hs), NEW cs \in Missing(hs)
  PROVE  /\ cs \in Seq(Cursors) /\ Asked(cs)
         /\ \A h \in RangeOf(hs), n \in Nat :
              h.seq >= n /\ n > head[h.run] => Within(cs, h.run, n)
<1> DEFINE S == {i \in DOMAIN hs : hs[i].seq > head[hs[i].run]}
           k == Cardinality(S)
           cursor(i) == [run |-> hs[i].run, next |-> head[hs[i].run], through |-> hs[i].seq]
<1>1. PICK f \in [1 .. k -> S] : /\ \A i, j \in DOMAIN f : i < j => f[i] < f[j]
                                /\ cs = [i \in DOMAIN f |-> cursor(f[i])]
  BY Zenon DEF Missing, CursorsOf
<1>2. IsFiniteSet(S) /\ k \in Nat
  <2>1. DOMAIN hs = 1 .. Len(hs) /\ Len(hs) \in Nat
    OBVIOUS
  <2>2. IsFiniteSet(DOMAIN hs)
    BY <2>1, FS_Interval
  <2>3. S \subseteq DOMAIN hs
    BY Zenon
  <2> HIDE DEF S
  <2> QED
    BY <2>2, <2>3, FS_Subset, FS_CardinalityType, Zenon
<1>3. \A i \in S : /\ i \in DOMAIN hs /\ hs[i] \in RangeOf(hs) /\ hs[i] \in HeadRecords
                   /\ hs[i].seq > head[hs[i].run]
  <2>1. \A i \in DOMAIN hs : hs[i] \in HeadRecords
    OBVIOUS
  <2> QED
    BY <2>1, Zenon DEF RangeOf
<1>4. \A j \in DOMAIN hs : hs[j].seq > head[hs[j].run] => j \in S
  BY Zenon
<1>5. S \subseteq Int
  <2>1. DOMAIN hs \subseteq Int
    OBVIOUS
  <2> QED
    BY <2>1, Zenon
<1> HIDE DEF S
<1>6. f \in Surjection(1 .. k, S)
  <2>0. /\ \A i \in 1 .. k : f[i] \in Int
        /\ \A i, j \in 1 .. k : i < j => f[i] < f[j]
    BY <1>1, <1>5, Zenon
  <2>1. \A i, j \in 1 .. k : f[i] = f[j] => i = j
    <3> HIDE DEF k
    <3> QED
      BY <1>2, <2>0
  <2>2. f \in Injection(1 .. k, S)
    BY <1>1, <2>1, Zenon DEF Injection, IsInjective
  <2>3. Cardinality(1 .. k) = k
    BY <1>2, FS_Interval
  <2> QED
    BY <1>2, <2>2, <2>3, FS_Injection, Zenon
<1>7. DOMAIN cs = 1 .. k /\ \A i \in 1 .. k : f[i] \in S /\ cs[i] = cursor(f[i])
  BY <1>1, Zenon
<1>8. ASSUME NEW i \in S
      PROVE  /\ cursor(i) \in Cursors /\ cursor(i).run \in Runs
             /\ cursor(i).next \in Nat /\ cursor(i).through \in Nat
             /\ cursor(i).next < cursor(i).through /\ cursor(i).through <= seqNo[cursor(i).run]
  <2>1. /\ hs[i].run \in Runs /\ hs[i].seq \in Nat /\ hs[i].seq <= seqNo[hs[i].run]
        /\ hs[i].seq > head[hs[i].run] /\ head[hs[i].run] \in Nat
    BY <1>3, Zenon DEF HeadRecords, Told, SyncType
  <2> QED
    BY <2>1, Zenon DEF Cursors
<1> HIDE DEF k
<1>9. cs \in Seq(Cursors)
  <2>1. cs = [i \in 1 .. k |-> cs[i]] /\ \A i \in 1 .. k : cs[i] \in Cursors
    BY <1>1, <1>7, <1>8, Zenon
  <2> QED
    BY <1>2, <2>1, IsASeq
<1>10. Asked(cs)
  <2>1. \A c \in RangeOf(cs) : \E i \in S : c = cursor(i)
    <3> HIDE DEF cursor
    <3>1. ASSUME NEW c \in RangeOf(cs) PROVE \E i \in S : c = cursor(i)
      <4>1. PICK i \in DOMAIN cs : c = cs[i]
        BY <3>1, Zenon DEF RangeOf
      <4> QED
        BY <1>7, <4>1, Zenon
    <3> QED
      BY <3>1, Zenon
  <2>2. ASSUME NEW c \in RangeOf(cs)
        PROVE  /\ c.run \in Runs /\ c.next \in Nat /\ c.through \in Nat
               /\ c.next < c.through /\ c.through <= seqNo[c.run]
    <3>1. PICK i \in S : c = cursor(i)
      BY <2>1, <2>2, Zenon
    <3> HIDE DEF cursor
    <3> QED
      BY <1>8, <3>1, Zenon
  <2> QED
    BY <2>2, Zenon DEF Asked
<1>11. ASSUME NEW h \in RangeOf(hs), NEW n \in Nat, h.seq >= n, n > head[h.run] PROVE Within(cs, h.run, n)
  <2>1. PICK j \in DOMAIN hs : h = hs[j]
    BY Zenon DEF RangeOf
  <2>2. h.run \in Runs /\ h.seq \in Nat /\ head[h.run] \in Nat
    BY Zenon DEF Told, SyncType
  <2>3. h.seq > head[h.run]
    BY <1>11, <2>2
  <2>4. PICK i \in 1 .. k : f[i] = j
    BY <1>4, <1>6, <2>1, <2>3, Zenon DEF Surjection
  <2>5. cs[i] = cursor(j) /\ cs[i] \in RangeOf(cs)
    BY <1>7, <2>4, Zenon DEF RangeOf
  <2>6. cursor(j).run = h.run /\ cursor(j).next = head[h.run] /\ cursor(j).through = h.seq
    BY <2>1, Zenon
  <2>7. head[h.run] < n /\ n <= h.seq
    BY <1>11, <2>2, Zenon
  <2> HIDE DEF cursor
  <2> QED
    BY <2>5, <2>6, <2>7, Zenon DEF Within
<1> QED
  BY <1>9, <1>10, <1>11, Zenon

\* A cursor of which one event was sent, and the ones behind it.
LEMMA CursorStep ==
  ASSUME NEW s \in Seq(Cursors), s # <<>>, NEW t, t = [s EXCEPT ![1].next = @ + 1]
  PROVE  /\ t \in Seq(Cursors)
         /\ \E d \in Cursors :
              /\ d.run = Head(s).run /\ d.next = Head(s).next + 1 /\ d.through = Head(s).through
              /\ \A y : y \in RangeOf(t) <=> y = d \/ y \in RangeOf(Tail(s))
<1> DEFINE d == [run |-> s[1].run, next |-> s[1].next + 1, through |-> s[1].through]
<1>1. /\ Head(s) = s[1] /\ s[1] \in Cursors /\ Len(s) \in Nat /\ 1 \in 1 .. Len(s) /\ DOMAIN s = 1 .. Len(s)
      /\ Tail(s) \in Seq(Cursors)
  OBVIOUS
<1>2. d \in Cursors /\ d.run = s[1].run /\ d.next = s[1].next + 1 /\ d.through = s[1].through
  BY <1>1 DEF Cursors
<1>3. t = [s EXCEPT ![1] = d]
  <2>1. [s[1] EXCEPT !.next = @ + 1] = d
    BY <1>1 DEF Cursors
  <2> QED
    BY <2>1, Zenon
<1> HIDE DEF d
<1>4. /\ t \in Seq(Cursors) /\ Len(t) = Len(s) /\ DOMAIN t = 1 .. Len(t)
      /\ \A j \in 1 .. Len(s) : t[j] = IF j = 1 THEN d ELSE s[j]
  <2>1. /\ t \in Seq(Cursors) /\ Len(t) = Len(s)
        /\ \A j \in 1 .. Len(s) : t[j] = IF j = 1 THEN d ELSE s[j]
    BY <1>1, <1>2, <1>3
  <2> QED
    BY <2>1
<1>5. t # <<>> /\ Head(t) = d
  BY <1>1, <1>4
<1>6. Tail(t) = Tail(s)
  <2>1. Tail(t) \in Seq(Cursors) /\ Len(Tail(t)) = Len(Tail(s))
    BY <1>1, <1>4, <1>5
  <2>2. \A j \in 1 .. Len(Tail(s)) : Tail(t)[j] = Tail(s)[j]
    BY <1>1, <1>4, <1>5
  <2> QED
    BY <1>1, <2>1, <2>2, SeqEqual, Zenon
<1>7. \A y : y \in RangeOf(t) <=> y = d \/ y \in RangeOf(Tail(s))
  <2>1. \A y : y \in RangeOf(t) <=> y = Head(t) \/ y \in RangeOf(Tail(t))
    <3>1. t \in Seq(Cursors) /\ t # <<>>
      BY <1>4, <1>5, Zenon
    <3> QED
      BY <3>1, RangeDequeue, ZenonT(60)
  <2> QED
    BY <1>5, <1>6, <2>1, Zenon
<1> QED
  BY <1>1, <1>2, <1>4, <1>7, Zenon

\* A step that leaves the journal alone has the stream and the session to account for.
LEMMA StepKeepsWay ==
  ASSUME WayInv, UNCHANGED <<phase, seqNo, journal, faults>>, lossy' \in BOOLEAN,
         replay' \in Seq(Cursors), down' \in Seq(Seq(Cursors)), WayBounds',
         Gentle' => (sess' = "listed" => ListHolds') /\ (sess' = "synced" => WayHolds')
  PROVE  WayInv'
<1>1. WayType'
  BY Zenon DEF WayInv, WayType
<1>2. WholeJournal'
  BY Zenon DEF WayInv, WholeJournal
<1> QED
  BY <1>1, <1>2, Zenon DEF WayInv, OnWay

\* An event is journalled: the live channel takes it, or the session has lost one.
LEMMA AppendKeepsWay ==
  ASSUME SyncInv, WayInv, NEW r \in Runs, NEW to \in {"queued", "running", "over"}, NEW ok \in BOOLEAN,
         AppendEvent(r, to, ok)
  PROVE  WayInv'
<1>0. SyncType /\ WayType /\ WayBounds /\ WholeJournal /\ OnWay
  BY Zenon DEF SyncInv, WayInv
<1>a. PICK n \in Nat : n = seqNo[r] + 1
  BY <1>0 DEF SyncType
<1>1. /\ seqNo \in [Runs -> Nat] /\ n \in Nat /\ journal \in [Runs -> SUBSET Nat]
      /\ phase \in [Runs -> {"none", "queued", "running", "over"}] /\ faults \in Nat /\ lossy \in BOOLEAN
  <2> QED
    BY <1>0, <1>a, Zenon DEF SyncType, WayType
<1>2. /\ seqNo' = [seqNo EXCEPT ![r] = n] /\ phase' = [phase EXCEPT ![r] = to]
      /\ journal' = IF ok THEN [journal EXCEPT ![r] = @ \cup {n}] ELSE journal
      /\ faults' = IF ok THEN faults ELSE faults + 1
      /\ sess' = sess /\ listed' = listed /\ replay' = replay /\ up' = up /\ down' = down
      /\ head' = head /\ pending' = pending
  BY <1>a, Zenon DEF AppendEvent, broker
<1>3. \/ sess \notin {"listed", "synced"}
      \/ live' = Append(live, [run |-> r, seq |-> n]) /\ lossy' = lossy
      \/ lossy'
  BY <1>a, Zenon DEF AppendEvent, Publish
<1>4. \A q \in Runs : seqNo[q] \in Nat /\ seqNo'[q] \in Nat /\ seqNo[q] <= seqNo'[q]
  BY <1>1, <1>2, <1>a
<1>5. WayType'
  <2>1. ASSUME NEW q \in Runs, phase'[q] = "none" PROVE seqNo'[q] = 0 /\ journal'[q] = {}
    BY <1>0, <1>1, <1>2, <2>1, Zenon DEF WayType
  <2>2. phase' \in [Runs -> {"none", "queued", "running", "over"}]
    BY <1>1, <1>2, Zenon
  <2>3. lossy' \in BOOLEAN
    BY <1>0, <1>3, Zenon DEF WayType, AppendEvent, Publish
  <2> QED
    BY <1>0, <1>2, <2>1, <2>2, <2>3, Zenon DEF WayType
<1>6. WayBounds'
  <2>1. \A h : h.run \in Runs /\ h.seq \in Nat /\ h.seq <= seqNo[h.run] => h.seq <= seqNo'[h.run]
    BY <1>4
  <2>2. \A c : c.run \in Runs /\ c.through \in Nat /\ c.through <= seqNo[c.run] => c.through <= seqNo'[c.run]
    BY <1>4
  <2>3. Told(listed)' /\ \A m \in RangeOf(up') : m.type = "heads" => Told(m.heads)'
    BY <1>0, <1>2, <2>1, Zenon DEF WayBounds, Told
  <2>4. Asked(replay)' /\ \A cs \in RangeOf(down') : Asked(cs)'
    BY <1>0, <1>2, <2>2, Zenon DEF WayBounds, Asked
  <2> QED
    BY <2>3, <2>4, Zenon DEF WayBounds
<1>7. ASSUME faults' = 0
      PROVE  /\ faults = 0 /\ journal' = [journal EXCEPT ![r] = @ \cup {n}]
             /\ \A q \in Runs : journal'[q] = 1 .. seqNo'[q]
  <2>1. faults = 0 /\ ok
    BY <1>1, <1>2, <1>7
  <2>2. \A q \in Runs : journal[q] = 1 .. seqNo[q]
    BY <1>0, <2>1, Zenon DEF WholeJournal
  <2>3. 1 .. n = 1 .. seqNo[r] \cup {n}
    BY <1>4, <1>a
  <2> QED
    BY <1>1, <1>2, <2>1, <2>2, <2>3, Zenon
<1>8. ASSUME Gentle', sess' \in {"listed", "synced"} PROVE (sess' = "listed" => ListHolds') /\ (sess' = "synced" => WayHolds')
  <2>1. faults' = 0 /\ ~lossy' /\ Cardinality(Known') <= MaxHeads
    BY <1>8, Zenon DEF Gentle
  <2>2. \A q \in Runs : phase[q] # "none" => phase'[q] # "none"
    BY <1>1, <1>2, Zenon
  <2>3. live' = Append(live, [run |-> r, seq |-> n]) /\ ~lossy
    <3>1. sess \in {"listed", "synced"}
      BY <1>2, <1>8, Zenon
    <3> QED
      BY <1>1, <1>3, <2>1, <3>1, Zenon
  <2>4. Gentle
    BY <1>7, <2>1, <2>2, <2>3, KnownGrows, Zenon DEF Gentle
  <2>5. [run |-> r, seq |-> n] \in HeadRecords /\ live \in Seq(HeadRecords)
    BY <1>0, <1>1, Zenon DEF SyncType, HeadRecords
  <2>6. \A y : y \in RangeOf(live') <=> y \in RangeOf(live) \/ y = [run |-> r, seq |-> n]
    <3> DEFINE x == [run |-> r, seq |-> n]
    <3>1. x \in HeadRecords /\ live' = Append(live, x)
      BY <2>3, <2>5, Zenon
    <3> HIDE DEF x
    <3>2. \A y : y \in RangeOf(Append(live, x)) <=> y \in RangeOf(live) \/ y = x
      BY <2>5, <3>1, RangeAppend, Zenon
    <3> QED
      BY <3>1, <3>2, Zenon DEF x
  <2>7. \A q \in Runs : \A m \in journal'[q] : m \in journal[q] \/ (q = r /\ m = n)
    BY <1>1, <1>7, <2>1, Zenon
  <2>8. \A q, m : (InLive(q, m) => InLive(q, m)') /\ (InList(q, m) <=> InList(q, m)')
    BY <1>2, <2>6, Zenon DEF InLive, InList
  <2>9. \A q, m : /\ (InUp(q, m) <=> InUp(q, m)') /\ (InHeads(q, m) <=> InHeads(q, m)')
                  /\ (InDown(q, m) <=> InDown(q, m)') /\ (InReplay(q, m) <=> InReplay(q, m)')
    BY <1>2, Zenon DEF InUp, InHeads, InDown, InReplay
  <2>10. InLive(r, n)'
    BY <2>6, Zenon DEF InLive
  <2>11. sess = "listed" => ListHolds'
    BY <1>0, <2>4, <2>7, <2>8, <2>10, Zenon DEF OnWay, ListHolds
  <2>12. \A q, m : Coming(q, m) => Coming(q, m)'
    BY <1>2, <2>8, <2>9, Zenon DEF Coming
  <2>13. Coming(r, n)'
    BY <2>10, Zenon DEF Coming
  <2>14. sess = "synced" => WayHolds'
    BY <1>0, <1>2, <2>4, <2>7, <2>12, <2>13, ZenonT(60) DEF OnWay, WayHolds
  <2> QED
    BY <1>2, <2>11, <2>14, Zenon
<1>9. OnWay' /\ WholeJournal'
  BY <1>7, <1>8, Zenon DEF OnWay, WholeJournal
<1> QED
  BY <1>5, <1>6, <1>9, Zenon DEF WayInv

\* The heads are read: every run is among them, with its last number.
LEMMA ListKeepsWay ==
  ASSUME SyncInv, WayInv, List
  PROVE  WayInv'
<1>0. SyncType /\ WayType /\ WayBounds /\ WholeJournal
  BY Zenon DEF SyncInv, WayInv
<1>1. /\ phase' = phase /\ seqNo' = seqNo /\ journal' = journal /\ faults' = faults /\ lossy' = lossy
      /\ live' = live /\ replay' = replay /\ up' = up /\ down' = down /\ sess' = "listed"
  BY Zenon DEF List, client, counters
<1>2. PICK l \in Listings : listed' = [i \in DOMAIN l |-> [run |-> l[i], seq |-> seqNo[l[i]]]]
  BY Zenon DEF List
<1>3. \A i \in DOMAIN l : l[i] \in Known /\ l[i] \in Runs
  BY Zenon DEF Listings, Known
<1>4. /\ DOMAIN listed' = DOMAIN l
      /\ \A i \in DOMAIN l : listed'[i].run = l[i] /\ listed'[i].seq = seqNo[l[i]]
  BY <1>2, Zenon
<1>5. \A i \in DOMAIN l : seqNo[l[i]] \in Nat /\ seqNo[l[i]] <= seqNo[l[i]]
  BY <1>0, <1>3 DEF SyncType
<1>6. Told(listed)'
  <2>1. ASSUME NEW h \in RangeOf(listed') PROVE h.run \in Runs /\ h.seq \in Nat /\ h.seq <= seqNo[h.run]
    <3>1. PICK i \in DOMAIN l : h = listed'[i]
      BY <1>4, Zenon DEF RangeOf
    <3> QED
      BY <1>3, <1>4, <1>5, <3>1, Zenon
  <2> QED
    BY <1>1, <2>1, Zenon DEF Told
<1>7. WayBounds'
  BY <1>0, <1>1, <1>6, Zenon DEF WayBounds, Told, Asked
<1>8. ASSUME Gentle' PROVE ListHolds'
  <2>1. faults = 0 /\ Cardinality(Known) <= MaxHeads
    BY <1>1, <1>8, Zenon DEF Gentle, Known
  <2>2. ASSUME NEW r \in Runs, NEW n \in journal[r] PROVE InList(r, n)'
    <3>1. n \in 1 .. seqNo[r] /\ seqNo[r] \in Nat
      BY <1>0, <2>1, <2>2, Zenon DEF WholeJournal, SyncType
    <3>2. seqNo[r] # 0 /\ seqNo[r] >= n
      BY <3>1
    <3>3. r \in Known
      BY <1>0, <3>2, Zenon DEF WayType, Known
    <3>4. PICK i \in DOMAIN l : l[i] = r
      BY <2>1, <3>3, ListCovers, Zenon
    <3>5. listed'[i] \in RangeOf(listed') /\ listed'[i].run = r /\ listed'[i].seq = seqNo[r]
      BY <1>4, <3>4, Zenon DEF RangeOf
    <3> QED
      BY <3>2, <3>5, Zenon DEF InList
  <2> QED
    BY <1>1, <2>2, Zenon DEF ListHolds
<1> QED
  BY <1>0, <1>1, <1>7, <1>8, StepKeepsWay, ZenonT(60) DEF WayType

\* The heads are sent: what was in the list is in the message.
LEMMA SendHeadsKeepsWay ==
  ASSUME SyncInv, WayInv, sendRunHeads
  PROVE  WayInv'
<1>0. SyncType /\ WayType /\ WayBounds /\ OnWay
  BY Zenon DEF SyncInv, WayInv
<1>1. /\ phase' = phase /\ seqNo' = seqNo /\ journal' = journal /\ faults' = faults /\ lossy' = lossy
      /\ live' = live /\ replay' = replay /\ down' = down /\ listed' = <<>> /\ head' = head /\ pending' = pending
      /\ sess = "listed" /\ sess' = "synced"
      /\ up' = IF listed = <<>> THEN up ELSE Append(up, Heads(listed))
  BY Zenon DEF sendRunHeads, client, broker, counters
<1>2. /\ Heads(listed) \in Messages /\ up \in Seq(Messages)
      /\ Heads(listed).type = "heads" /\ Heads(listed).heads = listed
  BY <1>0, Zenon DEF SyncType, Heads, Messages, HeadRecords
<1>3. \A y : y \in RangeOf(up') <=> y \in RangeOf(up) \/ (listed # <<>> /\ y = Heads(listed))
  <2>1. \A y : y \in RangeOf(Append(up, Heads(listed))) <=> y \in RangeOf(up) \/ y = Heads(listed)
    <3> DEFINE x == Heads(listed)
    <3>1. x \in Messages
      BY <1>2, Zenon
    <3> HIDE DEF x
    <3>2. \A y : y \in RangeOf(Append(up, x)) <=> y \in RangeOf(up) \/ y = x
      BY <1>2, <3>1, RangeAppend, Zenon
    <3> QED
      BY <3>2, Zenon DEF x
  <2> QED
    BY <1>1, <2>1, Zenon
<1>4. WayBounds'
  <2>1. Told(listed)'
    BY <1>1, RangeEmpty, Zenon DEF Told
  <2>2. ASSUME NEW m \in RangeOf(up'), m.type = "heads" PROVE Told(m.heads)'
    <3>1. Told(m.heads)
      BY <1>0, <1>2, <1>3, <2>2, Zenon DEF WayBounds
    <3> QED
      BY <1>1, <3>1, Zenon DEF Told
  <2>3. Asked(replay)' /\ \A cs \in RangeOf(down') : Asked(cs)'
    BY <1>0, <1>1, Zenon DEF WayBounds, Asked
  <2> QED
    BY <2>1, <2>2, <2>3, Zenon DEF WayBounds
<1>5. ASSUME Gentle' PROVE WayHolds'
  <2>1. ListHolds
    BY <1>0, <1>1, <1>5, Zenon DEF OnWay, Gentle, Known
  <2>2. ASSUME NEW r \in Runs, NEW n \in journal[r] PROVE Coming(r, n)'
    <3>1. CASE InLive(r, n)
      BY <1>1, <3>1, Zenon DEF InLive, Coming
    <3>2. CASE InList(r, n)
      <4>1. PICK h \in RangeOf(listed) : h.run = r /\ h.seq >= n
        BY <3>2, Zenon DEF InList
      <4>2. listed # <<>>
        BY <4>1, RangeEmpty, Zenon
      <4>3. Heads(listed) \in RangeOf(up')
        BY <1>3, <4>2, Zenon
      <4>4. InHeads(r, n)'
        BY <1>2, <4>1, <4>3, Zenon DEF InHeads
      <4> QED
        BY <4>4, Zenon DEF Coming
    <3> QED
      BY <2>1, <3>1, <3>2, Zenon DEF ListHolds
  <2> QED
    BY <1>1, <2>2, Zenon DEF WayHolds
<1> QED
  BY <1>0, <1>1, <1>4, <1>5, StepKeepsWay, Zenon DEF WayType

\* A step that moves events along loses none that was coming.
LEMMA MoveKeepsWay ==
  ASSUME WayInv, SyncType,
         phase' = phase, seqNo' = seqNo, journal' = journal, faults' = faults, lossy' = lossy, sess' = sess,
         head' = head, listed' = listed, live' = live \/ sess = "synced",
         replay' \in Seq(Cursors), down' \in Seq(Seq(Cursors)), WayBounds',
         faults = 0 => \A r \in Runs, n \in Nat : Coming(r, n) => Coming(r, n)'
  PROVE  WayInv'
<1>1. Gentle' => Gentle /\ faults = 0
  BY Zenon DEF Gentle, Known
<1>2. ASSUME Gentle', sess' = "listed" PROVE ListHolds'
  BY <1>1, <1>2, Zenon DEF WayInv, OnWay, ListHolds, InLive, InList
<1>3. ASSUME Gentle', sess' = "synced" PROVE WayHolds'
  <2>1. \A r \in Runs : journal[r] \subseteq Nat
    BY Zenon DEF SyncType
  <2> QED
    BY <1>1, <1>3, <2>1, Zenon DEF WayInv, OnWay, WayHolds
<1> QED
  BY <1>2, <1>3, StepKeepsWay, Zenon DEF WayInv, WayType

\* A live event is put on the stream.
LEMMA ForwardKeepsWay ==
  ASSUME SyncInv, WayInv, ForwardLive
  PROVE  WayInv'
<1> DEFINE e == Event(Head(live).run, Head(live).seq)
<1>0. SyncType /\ WayType /\ WayBounds
  BY Zenon DEF SyncInv, WayInv
<1>1. /\ phase' = phase /\ seqNo' = seqNo /\ journal' = journal /\ faults' = faults /\ lossy' = lossy
      /\ sess = "synced" /\ sess' = sess /\ listed' = listed /\ replay' = replay /\ down' = down
      /\ head' = head /\ pending' = pending /\ live # <<>> /\ live' = Tail(live) /\ up' = Append(up, e)
  BY Zenon DEF ForwardLive, client, broker, counters
<1>2. live \in Seq(HeadRecords) /\ up \in Seq(Messages)
  BY <1>0, Zenon DEF SyncType
<1>3. /\ Head(live) \in HeadRecords
      /\ \A y : y \in RangeOf(live) <=> y = Head(live) \/ y \in RangeOf(Tail(live))
  BY <1>1, <1>2, RangeDequeue, Zenon
<1>4. e \in Messages /\ e.type # "heads"
  BY <1>3, Zenon DEF Event, Messages, EventMessages, HeadRecords
<1>5. ASSUME NEW r, NEW n, [run |-> r, seq |-> n] = Head(live) PROVE Event(r, n) = e
  <2>1. Head(live).run = r /\ Head(live).seq = n
    BY <1>5
  <2> QED
    BY <2>1, Zenon
<1> HIDE DEF e
<1>6. \A y : y \in RangeOf(up') <=> y \in RangeOf(up) \/ y = e
  BY <1>1, <1>2, <1>4, RangeAppend, Zenon
<1>7. WayBounds'
  BY <1>0, <1>1, <1>4, <1>6, Zenon DEF WayBounds, Told, Asked
<1>8. ASSUME NEW r \in Runs, NEW n \in Nat, Coming(r, n) PROVE Coming(r, n)'
  <2>1. InLive(r, n) => InLive(r, n)' \/ InUp(r, n)'
    BY <1>1, <1>3, <1>5, <1>6, Zenon DEF InLive, InUp
  <2>2. (InUp(r, n) => InUp(r, n)') /\ (InHeads(r, n) => InHeads(r, n)')
    BY <1>6, Zenon DEF InUp, InHeads
  <2>3. (InDown(r, n) => InDown(r, n)') /\ (InReplay(r, n) => InReplay(r, n)')
    BY <1>1, Zenon DEF InDown, InReplay
  <2> QED
    BY <1>1, <1>8, <2>1, <2>2, <2>3, Zenon DEF Coming
<1> QED
  BY <1>0, <1>1, <1>7, <1>8, MoveKeepsWay, Zenon DEF WayType

\* The cursors the Manager asked for are taken up.
LEMMA ReceiveReplayKeepsWay ==
  ASSUME SyncInv, WayInv, ReceiveReplay
  PROVE  WayInv'
<1>0. SyncType /\ WayType /\ WayBounds
  BY Zenon DEF SyncInv, WayInv
<1>1. /\ phase' = phase /\ seqNo' = seqNo /\ journal' = journal /\ faults' = faults /\ lossy' = lossy
      /\ sess' = sess /\ listed' = listed /\ live' = live /\ up' = up /\ head' = head /\ pending' = pending
      /\ down # <<>> /\ replay = <<>> /\ replay' = Head(down) /\ down' = Tail(down)
  BY Zenon DEF ReceiveReplay, client, broker, counters
<1>2. /\ Head(down) \in Seq(Cursors) /\ Tail(down) \in Seq(Seq(Cursors))
      /\ \A y : y \in RangeOf(down) <=> y = Head(down) \/ y \in RangeOf(Tail(down))
  <2>1. down \in Seq(Seq(Cursors))
    BY <1>0, Zenon DEF WayType
  <2> QED
    BY <1>1, <2>1, RangeDequeue, Zenon
<1>3. WayBounds'
  <2>1. Asked(Head(down)) /\ \A cs \in RangeOf(Tail(down)) : Asked(cs)
    BY <1>0, <1>2, Zenon DEF WayBounds
  <2> QED
    BY <1>0, <1>1, <2>1, Zenon DEF WayBounds, Told, Asked
<1>4. ASSUME NEW r \in Runs, NEW n \in Nat, Coming(r, n) PROVE Coming(r, n)'
  <2>1. InDown(r, n) => InDown(r, n)' \/ InReplay(r, n)'
    BY <1>1, <1>2, Zenon DEF InDown, InReplay
  <2>2. ~InReplay(r, n)
    BY <1>1, RangeEmpty, Zenon DEF InReplay, Within
  <2>3. /\ (InLive(r, n) => InLive(r, n)') /\ (InUp(r, n) => InUp(r, n)')
        /\ (InHeads(r, n) => InHeads(r, n)')
    BY <1>1, Zenon DEF InLive, InUp, InHeads
  <2> QED
    BY <1>1, <1>4, <2>1, <2>2, <2>3, Zenon DEF Coming
<1> QED
  BY <1>0, <1>1, <1>2, <1>3, <1>4, MoveKeepsWay, Zenon

\* One event of the current cursor is put on the stream; the cursor keeps the rest.
LEMMA ReplayEventKeepsWay ==
  ASSUME SyncInv, WayInv, ReplayEvent
  PROVE  WayInv'
<1> DEFINE c == Head(replay)
           e == Event(c.run, c.next + 1)
<1>0. SyncType /\ WayType /\ WayBounds
  BY Zenon DEF SyncInv, WayInv
<1>1. /\ phase' = phase /\ seqNo' = seqNo /\ journal' = journal /\ faults' = faults /\ lossy' = lossy
      /\ sess' = sess /\ listed' = listed /\ live' = live /\ down' = down /\ head' = head /\ pending' = pending
      /\ replay # <<>> /\ up' = Append(up, e)
      /\ replay' = IF c.next + 1 = c.through THEN Tail(replay) ELSE [replay EXCEPT ![1].next = @ + 1]
  BY Zenon DEF ReplayEvent, client, broker, counters
<1>2. replay \in Seq(Cursors) /\ up \in Seq(Messages) /\ down \in Seq(Seq(Cursors))
  BY <1>0, Zenon DEF SyncType, WayType
<1>3. /\ c \in Cursors /\ Tail(replay) \in Seq(Cursors)
      /\ \A y : y \in RangeOf(replay) <=> y = c \/ y \in RangeOf(Tail(replay))
  BY <1>1, <1>2, RangeDequeue, Zenon
<1>4. /\ c.run \in Runs /\ c.next \in Nat /\ c.through \in Nat
      /\ c.next < c.through /\ c.through <= seqNo[c.run]
  BY <1>0, <1>3, Zenon DEF WayBounds, Asked
<1>5. e \in Messages /\ e.type # "heads"
  <2>1. c.next + 1 \in Nat
    BY <1>4
  <2> QED
    BY <1>4, <2>1, Zenon DEF Event, Messages, EventMessages
<1>6. \A r, n : r = c.run /\ n = c.next + 1 => Event(r, n) = e
  BY Zenon
<1> HIDE DEF e
<1>7. \A y : y \in RangeOf(up') <=> y \in RangeOf(up) \/ y = e
  BY <1>1, <1>2, <1>5, RangeAppend, Zenon
<1>8. /\ replay' \in Seq(Cursors)
      /\ \A y \in RangeOf(Tail(replay)) : y \in RangeOf(replay')
      /\ \A y \in RangeOf(replay') :
           \/ y \in RangeOf(Tail(replay))
           \/ /\ y.run = c.run /\ y.next = c.next + 1 /\ y.through = c.through /\ c.next + 1 # c.through
      /\ c.next + 1 # c.through =>
           \E d \in RangeOf(replay') : d.run = c.run /\ d.next = c.next + 1 /\ d.through = c.through
  <2>1. CASE c.next + 1 = c.through
    BY <1>1, <1>3, <2>1, Zenon
  <2>2. CASE c.next + 1 # c.through
    <3>1. replay' = [replay EXCEPT ![1].next = @ + 1]
      BY <1>1, <2>2, Zenon
    <3>2. /\ replay' \in Seq(Cursors)
          /\ \E d \in Cursors :
               /\ d.run = Head(replay).run /\ d.next = Head(replay).next + 1 /\ d.through = Head(replay).through
               /\ \A y : y \in RangeOf(replay') <=> y = d \/ y \in RangeOf(Tail(replay))
      BY <1>1, <1>2, <3>1, CursorStep, Zenon
    <3> QED
      BY <2>2, <3>2, Zenon
  <2> QED
    BY <2>1, <2>2, Zenon
<1>9. WayBounds'
  <2>1. ASSUME NEW y \in RangeOf(replay')
        PROVE  /\ y.run \in Runs /\ y.next \in Nat /\ y.through \in Nat
               /\ y.next < y.through /\ y.through <= seqNo[y.run]
    <3>1. CASE y \in RangeOf(Tail(replay))
      BY <1>0, <1>3, <3>1, ZenonT(60) DEF WayBounds, Asked
    <3>2. CASE y.run = c.run /\ y.next = c.next + 1 /\ y.through = c.through /\ c.next + 1 # c.through
      <4> HIDE DEF c
      <4> QED
        BY <1>4, <3>2
    <3> QED
      BY <1>8, <2>1, <3>1, <3>2, Zenon
  <2>2. Asked(replay)'
    BY <1>1, <2>1, Zenon DEF Asked
  <2> QED
    BY <1>0, <1>1, <1>5, <1>7, <2>2, Zenon DEF WayBounds, Told, Asked
<1>10. ASSUME NEW r \in Runs, NEW n \in Nat, Coming(r, n) PROVE Coming(r, n)'
  <2>1. InReplay(r, n) => InReplay(r, n)' \/ InUp(r, n)'
    <3>1. ASSUME NEW y \in RangeOf(replay), y.run = r, y.next < n, n <= y.through
          PROVE  InReplay(r, n)' \/ InUp(r, n)'
      <4>1. CASE y \in RangeOf(Tail(replay))
        BY <1>8, <3>1, <4>1, Zenon DEF InReplay, Within
      <4>2. CASE y = c /\ n = c.next + 1
        BY <1>6, <1>7, <3>1, <4>2, ZenonT(60) DEF InUp
      <4>3. CASE y = c /\ n # c.next + 1
        <5>1. c.next + 1 # c.through /\ c.next + 1 < n
          <6> HIDE DEF c
          <6> QED
            BY <1>4, <3>1, <4>3, SMTT(30)
        <5> QED
          BY <1>8, <3>1, <4>3, <5>1, ZenonT(60) DEF InReplay, Within
      <4> QED
        BY <1>3, <3>1, <4>1, <4>2, <4>3, Zenon
    <3> QED
      BY <3>1, Zenon DEF InReplay, Within
  <2>2. (InUp(r, n) => InUp(r, n)') /\ (InHeads(r, n) => InHeads(r, n)')
    BY <1>7, Zenon DEF InUp, InHeads
  <2>3. (InDown(r, n) => InDown(r, n)') /\ (InLive(r, n) => InLive(r, n)')
    BY <1>1, Zenon DEF InDown, InLive
  <2> QED
    BY <1>1, <1>10, <2>1, <2>2, <2>3, Zenon DEF Coming
<1> QED
  BY <1>0, <1>1, <1>2, <1>8, <1>9, <1>10, MoveKeepsWay, ZenonT(60)

\* A replay stops early only at a hole, and a journal without failed appends has none.
LEMMA ReplayGapKeepsWay ==
  ASSUME SyncInv, WayInv, ReplayGap
  PROVE  WayInv'
<1>0. SyncType /\ WayType /\ WayBounds /\ WholeJournal
  BY Zenon DEF SyncInv, WayInv
<1>1. /\ phase' = phase /\ seqNo' = seqNo /\ journal' = journal /\ faults' = faults /\ lossy' = lossy
      /\ sess' = sess /\ listed' = listed /\ live' = live /\ up' = up /\ down' = down /\ head' = head
      /\ replay # <<>> /\ replay' = <<>> /\ Head(replay).next + 1 \notin EventsOf(Head(replay).run)
  BY Zenon DEF ReplayGap, client, broker, counters
<1>2. replay \in Seq(Cursors) /\ down \in Seq(Seq(Cursors)) /\ replay' \in Seq(Cursors)
  BY <1>0, <1>1, EmptySeq, Zenon DEF WayType
<1>3. Head(replay) \in RangeOf(replay)
  BY <1>1, <1>2, RangeDequeue, Zenon
<1>4. faults # 0
  <2>1. PICK c \in RangeOf(replay) : c = Head(replay)
    BY <1>3, Zenon
  <2>2. /\ c.run \in Runs /\ c.next \in Nat /\ c.through \in Nat
        /\ c.next < c.through /\ c.through <= seqNo[c.run] /\ seqNo[c.run] \in Nat
    BY <1>0, <2>1, Zenon DEF WayBounds, Asked, SyncType
  <2>3. c.next + 1 \in 1 .. seqNo[c.run]
    BY <2>2
  <2>4. c.next + 1 \notin journal[c.run]
    BY <1>1, <2>1, <2>2, Zenon DEF EventsOf
  <2> QED
    BY <1>0, <2>2, <2>3, <2>4, Zenon DEF WholeJournal
<1>5. WayBounds'
  BY <1>0, <1>1, RangeEmpty, Zenon DEF WayBounds, Told, Asked
<1> QED
  BY <1>0, <1>1, <1>2, <1>4, <1>5, MoveKeepsWay, Zenon

\* The Manager accepts an event of a stream: what it does not count yet it holds, or it
\* has discarded one.
LEMMA AcceptKeepsWay ==
  ASSUME SyncInv, WayInv, NEW r \in Runs, NEW n \in Nat, Accept(r, n),
         phase' = phase, seqNo' = seqNo, journal' = journal, faults' = faults, sess' = sess,
         listed' = listed, live' = live, replay' = replay, down' = down,
         \A y \in RangeOf(up') : y \in RangeOf(up),
         \A y \in RangeOf(up) : y \in RangeOf(up') \/ y = Event(r, n)
  PROVE  WayInv'
<1>0. SyncType /\ WayType /\ WayBounds /\ OnWay
  BY Zenon DEF SyncInv, WayInv
<1>1. lossy \in BOOLEAN /\ lossy' \in BOOLEAN
  BY <1>0, Zenon DEF WayType, Accept
<1>2. WayBounds'
  BY <1>0, Zenon DEF WayBounds, Told, Asked
<1>3. ASSUME ~lossy'
      PROVE  /\ ~lossy
             /\ \A q \in Runs : \A m \in Nat : m > head'[q] =>
                  /\ m > head[q] /\ (m \in pending[q] => m \in pending'[q])
                  /\ (q = r /\ m = n => m \in pending'[q])
  BY <1>0, <1>1, <1>3, AcceptOnly, Zenon
<1>4. ASSUME Gentle' PROVE Gentle /\ ~lossy'
  BY <1>3, <1>4, Zenon DEF Gentle, Known
<1>5. ASSUME Gentle', sess' = "listed" PROVE ListHolds'
  BY <1>0, <1>4, <1>5, Zenon DEF OnWay, ListHolds, InLive, InList
<1>6. ASSUME Gentle', sess' = "synced" PROVE WayHolds'
  <2>1. ASSUME NEW q \in Runs, NEW m \in journal[q], m > head'[q] PROVE Coming(q, m)'
    <3>1. m \in Nat
      BY <1>0, <2>1, Zenon DEF SyncType
    <3>2. /\ m > head[q] /\ (m \in pending[q] => m \in pending'[q])
          /\ (q = r /\ m = n => m \in pending'[q])
      BY <1>3, <1>4, <1>6, <2>1, <3>1, ZenonT(60)
    <3>3. Coming(q, m)
      BY <1>0, <1>4, <1>6, <2>1, <3>2, ZenonT(60) DEF OnWay, WayHolds
    <3>4. InUp(q, m) => InUp(q, m)' \/ m \in pending'[q]
      <4>1. Event(q, m) = Event(r, n) => q = r /\ m = n
        BY Zenon DEF Event
      <4> QED
        BY <3>2, <4>1, Zenon DEF InUp
    <3>5. InHeads(q, m) => InHeads(q, m)'
      <4>1. Event(r, n).type # "heads"
        BY Zenon DEF Event
      <4> QED
        BY <4>1, Zenon DEF InHeads
    <3>6. /\ (InLive(q, m) => InLive(q, m)') /\ (InDown(q, m) => InDown(q, m)')
          /\ (InReplay(q, m) => InReplay(q, m)')
      BY Zenon DEF InLive, InDown, InReplay
    <3> QED
      BY <3>2, <3>3, <3>4, <3>5, <3>6, Zenon DEF Coming
  <2> QED
    BY <2>1, Zenon DEF WayHolds
<1> QED
  BY <1>0, <1>1, <1>2, <1>5, <1>6, StepKeepsWay, Zenon DEF WayType

\* The Manager reads heads: it asks for what it lacks of them.
LEMMA HeadsKeepWay ==
  ASSUME SyncInv, WayInv, Receive, Head(up).type # "event"
  PROVE  WayInv'
<1> DEFINE m == Head(up)
<1>0. SyncType /\ WayType /\ WayBounds /\ OnWay
  BY Zenon DEF SyncInv, WayInv
<1>1. /\ phase' = phase /\ seqNo' = seqNo /\ journal' = journal /\ faults' = faults /\ lossy' = lossy
      /\ sess' = sess /\ listed' = listed /\ live' = live /\ replay' = replay /\ head' = head /\ pending' = pending
      /\ up # <<>> /\ up' = Tail(up)
  BY Zenon DEF Receive, client, broker, counters
<1>2. PICK cs \in Missing(m.heads) : down' = IF cs = <<>> THEN down ELSE Append(down, cs)
  BY Zenon DEF Receive
<1>3. m \in Messages /\ \A y : y \in RangeOf(up) <=> y = m \/ y \in RangeOf(up')
  <2>1. up \in Seq(Messages)
    BY <1>0, Zenon DEF SyncType
  <2> QED
    BY <1>1, <2>1, RangeDequeue, Zenon
<1>4. m.type = "heads" /\ m.heads \in Seq(HeadRecords) /\ Told(m.heads)
  <2>1. m.type = "heads" /\ m.heads \in Seq(HeadRecords)
    <3>1. m.type # "event"
      BY Zenon
    <3> HIDE DEF m
    <3> QED
      BY <1>3, <3>1, Zenon DEF Messages, EventMessages, HeadRecords
  <2> QED
    BY <1>0, <1>3, <2>1, Zenon DEF WayBounds
<1>5. /\ cs \in Seq(Cursors) /\ Asked(cs)
      /\ \A h \in RangeOf(m.heads), n \in Nat : h.seq >= n /\ n > head[h.run] => Within(cs, h.run, n)
  BY <1>0, <1>4, MissingCovers, Zenon
<1>6. /\ down \in Seq(Seq(Cursors)) /\ down' \in Seq(Seq(Cursors))
      /\ \A y : y \in RangeOf(down') <=> y \in RangeOf(down) \/ (cs # <<>> /\ y = cs)
  <2>1. down \in Seq(Seq(Cursors))
    BY <1>0, Zenon DEF WayType
  <2>2. /\ Append(down, cs) \in Seq(Seq(Cursors))
        /\ \A y : y \in RangeOf(Append(down, cs)) <=> y \in RangeOf(down) \/ y = cs
    BY <1>5, <2>1, AppendProperties, RangeAppend, Zenon
  <2> QED
    BY <1>2, <2>1, <2>2, Zenon
<1> HIDE DEF m
<1>7. WayBounds'
  <2>1. \A y \in RangeOf(down') : Asked(y)
    <3>1. ASSUME NEW y \in RangeOf(down') PROVE Asked(y)
      <4>1. CASE y \in RangeOf(down)
        BY <1>0, <4>1, Zenon DEF WayBounds
      <4>2. CASE y = cs
        BY <1>5, <4>2, Zenon
      <4> QED
        BY <1>6, <3>1, <4>1, <4>2, Zenon
    <3> QED
      BY <3>1, Zenon
  <2> QED
    BY <1>0, <1>1, <1>3, <2>1, Zenon DEF WayBounds, Told, Asked
<1>8. Gentle' => Gentle
  BY <1>1, Zenon DEF Gentle, Known
<1>9. ASSUME Gentle', sess' = "listed" PROVE ListHolds'
  BY <1>0, <1>1, <1>8, <1>9, Zenon DEF OnWay, ListHolds, InLive, InList
<1>10. ASSUME Gentle', sess' = "synced" PROVE WayHolds'
  <2>1. ASSUME NEW r \in Runs, NEW n \in journal[r], n > head[r] PROVE Coming(r, n)'
    <3>1. Coming(r, n) /\ n \in Nat
      BY <1>0, <1>1, <1>8, <1>10, <2>1, Zenon DEF OnWay, WayHolds, SyncType
    <3>2. InHeads(r, n) => InHeads(r, n)' \/ InDown(r, n)'
      <4>1. ASSUME NEW h \in RangeOf(m.heads), h.run = r, h.seq >= n PROVE InDown(r, n)'
        <5>1. Within(cs, r, n)
          BY <1>5, <2>1, <3>1, <4>1, Zenon
        <5>2. cs # <<>>
          BY <5>1, RangeEmpty, Zenon DEF Within
        <5> QED
          BY <1>6, <5>1, <5>2, Zenon DEF InDown
      <4> QED
        BY <1>3, <4>1, Zenon DEF InHeads
    <3>3. InUp(r, n) => InUp(r, n)'
      <4>1. Event(r, n).type # "heads"
        BY Zenon DEF Event
      <4> QED
        BY <1>3, <1>4, <4>1, Zenon DEF InUp
    <3>4. /\ (InLive(r, n) => InLive(r, n)') /\ (InDown(r, n) => InDown(r, n)')
          /\ (InReplay(r, n) => InReplay(r, n)')
      BY <1>1, <1>6, Zenon DEF InLive, InDown, InReplay
    <3> QED
      BY <1>1, <3>1, <3>2, <3>3, <3>4, Zenon DEF Coming
  <2> QED
    BY <1>1, <2>1, Zenon DEF WayHolds
<1> QED
  BY <1>0, <1>1, <1>6, <1>7, <1>9, <1>10, StepKeepsWay, ZenonT(60) DEF WayType

\* A session that ends leaves nothing to account for.
LEMMA LostKeepsWay ==
  ASSUME WayInv, SyncType', SessionLost, lossy' = lossy, faults' = faults,
         phase' \in [Runs -> {"none", "queued", "running", "over"}],
         \A r \in Runs : phase'[r] = "none" => seqNo'[r] = 0 /\ journal'[r] = {},
         faults = 0 => \A r \in Runs : journal'[r] = 1 .. seqNo'[r]
  PROVE  WayInv'
<1>1. sess' = "off" /\ listed' = <<>> /\ replay' = <<>> /\ up' = <<>> /\ down' = <<>>
  BY Zenon DEF SessionLost
<1>2. WayType'
  BY <1>1, EmptySeq, Zenon DEF WayInv, WayType
<1>3. WayBounds'
  BY <1>1, RangeEmpty, Zenon DEF WayBounds, Told, Asked
<1> QED
  BY <1>1, <1>2, <1>3, Zenon DEF WayInv, WholeJournal, OnWay

\* The Client restarts: it takes its numbers from the journal and ends live runs.
LEMMA RestartKeepsWay ==
  ASSUME SyncInv, SyncInv', WayInv, ClientRestarts
  PROVE  WayInv'
<1>0. SyncType /\ WayType /\ WholeJournal
  BY Zenon DEF SyncInv, WayInv
<1>1. \A r \in Runs : IF r \in Active
        THEN /\ phase'[r] = "over" /\ seqNo'[r] = MaxOf(journal[r]) + 1
             /\ journal'[r] = journal[r] \cup {MaxOf(journal[r]) + 1}
        ELSE phase'[r] = phase[r] /\ seqNo'[r] = MaxOf(journal[r]) /\ journal'[r] = journal[r]
  BY Zenon DEF ClientRestarts
<1>2. phase' = [r \in Runs |-> IF r \in Active THEN "over" ELSE phase[r]]
      /\ SessionLost /\ lossy' = lossy /\ faults' = faults
  BY Zenon DEF ClientRestarts
<1>3. phase' \in [Runs -> {"none", "queued", "running", "over"}]
  BY <1>0, <1>2, Zenon DEF WayType
<1>4. ASSUME NEW r \in Runs, phase'[r] = "none" PROVE seqNo'[r] = 0 /\ journal'[r] = {}
  <2>1. r \notin Active /\ journal[r] = {}
    BY <1>0, <1>1, <1>4, Zenon DEF WayType
  <2> QED
    BY <1>1, <2>1, Zenon DEF MaxOf
<1>5. ASSUME faults = 0, NEW r \in Runs PROVE journal'[r] = 1 .. seqNo'[r]
  <2>1. seqNo[r] \in Nat /\ journal[r] = 1 .. seqNo[r]
    BY <1>0, <1>5, Zenon DEF SyncType, WholeJournal
  <2>2. MaxOf(journal[r]) = seqNo[r]
    BY <2>1, MaxOfWhole, Zenon
  <2>3. 1 .. (seqNo[r] + 1) = 1 .. seqNo[r] \cup {seqNo[r] + 1}
    BY <2>1
  <2> QED
    BY <1>1, <2>1, <2>2, <2>3, Zenon
<1> QED
  BY <1>2, <1>3, <1>4, <1>5, LostKeepsWay, ZenonT(60) DEF SyncInv

\* Every step of Client, stream and Manager keeps the account.
LEMMA WayInvStep == SyncInv /\ WayInv /\ [Next]_vars => WayInv'
<1> SUFFICES ASSUME SyncInv, WayInv, [Next]_vars PROVE WayInv'
  BY Zenon
<1> USE DEF client, session, broker, counters
<1>0. SyncType /\ WayType /\ WayBounds /\ WholeJournal /\ OnWay
  BY Zenon DEF SyncInv, WayInv
<1>a. SyncInv' /\ SyncType'
  BY SyncInvStep, Zenon DEF SyncInv
<1>1. ASSUME NEW r \in Runs, NEW to \in {"queued", "running", "over"}, NEW ok \in BOOLEAN, AppendEvent(r, to, ok)
      PROVE  WayInv'
  BY <1>1, AppendKeepsWay, Zenon
<1>2. CASE Connect \/ SubscribeEvents
  <2>1. /\ phase' = phase /\ seqNo' = seqNo /\ journal' = journal /\ faults' = faults
        /\ listed' = listed /\ replay' = replay /\ up' = up /\ down' = down /\ lossy' \in BOOLEAN
        /\ sess' \notin {"listed", "synced"}
    BY <1>0, <1>2, Zenon DEF Connect, SubscribeEvents, WayType
  <2>2. WayBounds'
    BY <1>0, <2>1, Zenon DEF WayBounds, Told, Asked
  <2> QED
    BY <1>0, <2>1, <2>2, StepKeepsWay, ZenonT(60) DEF WayType
<1>3. CASE List
  BY <1>3, ListKeepsWay, Zenon
<1>4. CASE sendRunHeads
  BY <1>4, SendHeadsKeepsWay, ZenonT(60)
<1>5. CASE ForwardLive
  BY <1>5, ForwardKeepsWay, Zenon
<1>6. CASE ReceiveReplay
  BY <1>6, ReceiveReplayKeepsWay, Zenon
<1>7. CASE ReplayEvent
  BY <1>7, ReplayEventKeepsWay, Zenon
<1>8. CASE ReplayGap
  BY <1>8, ReplayGapKeepsWay, Zenon
<1>9. CASE Receive
  <2>1. CASE Head(up).type = "event"
    <3>1. up \in Seq(Messages) /\ up # <<>> /\ up' = Tail(up)
      BY <1>0, <1>9, Zenon DEF SyncType, Receive
    <3>2. Head(up) \in Messages /\ \A y : y \in RangeOf(up) <=> y = Head(up) \/ y \in RangeOf(up')
      BY <3>1, RangeDequeue, Zenon
    <3>3. Head(up) \in EventMessages
      BY <2>1, <3>2, Zenon DEF Messages
    <3>4. PICK r \in Runs, n \in Nat : r = Head(up).run /\ n = Head(up).seq /\ Head(up) = Event(r, n)
      BY <3>3, Zenon DEF EventMessages, Event
    <3>5. /\ Accept(r, n) /\ phase' = phase /\ seqNo' = seqNo /\ journal' = journal /\ faults' = faults
          /\ sess' = sess /\ listed' = listed /\ live' = live /\ replay' = replay /\ down' = down
      BY <1>9, <2>1, <3>4, Zenon DEF Receive
    <3> QED
      BY <3>2, <3>4, <3>5, AcceptKeepsWay, Zenon
  <2>2. CASE Head(up).type # "event"
    BY <1>9, <2>2, HeadsKeepWay, Zenon
  <2> QED
    BY <2>1, <2>2, Zenon
<1>10. CASE ReceiveStale
  <2>1. PICK e \in stale : Accept(e.run, e.seq)
    BY <1>10, Zenon DEF ReceiveStale
  <2>2. e.run \in Runs /\ e.seq \in Nat
    BY <1>0, Zenon DEF SyncType, EventMessages
  <2>3. /\ phase' = phase /\ seqNo' = seqNo /\ journal' = journal /\ faults' = faults /\ up' = up
        /\ sess' = sess /\ listed' = listed /\ live' = live /\ replay' = replay /\ down' = down
    BY <1>10, Zenon DEF ReceiveStale
  <2> QED
    BY <2>1, <2>2, <2>3, AcceptKeepsWay, Zenon
<1>11. CASE StreamBreaks \/ ManagerRestarts
  <2>1. SessionLost /\ lossy' = lossy /\ faults' = faults /\ phase' = phase /\ seqNo' = seqNo /\ journal' = journal
    BY <1>11, Zenon DEF StreamBreaks, ManagerRestarts
  <2> QED
    BY <1>0, <1>a, <2>1, LostKeepsWay, ZenonT(60) DEF WayType, WholeJournal
<1>12. CASE ClientRestarts
  BY <1>12, <1>a, RestartKeepsWay, Zenon
<1>13. CASE LoseStale \/ UNCHANGED vars
  <2>1. /\ phase' = phase /\ seqNo' = seqNo /\ journal' = journal /\ faults' = faults /\ lossy' = lossy
        /\ sess' = sess /\ listed' = listed /\ live' = live /\ replay' = replay /\ up' = up /\ down' = down
        /\ head' = head /\ pending' = pending
    BY <1>13, Zenon DEF LoseStale, vars
  <2>2. WayBounds'
    BY <1>0, <2>1, Zenon DEF WayBounds, Told, Asked
  <2>3. \A r \in Runs, n \in Nat : Coming(r, n) => Coming(r, n)'
    BY <2>1, Zenon DEF Coming, InLive, InUp, InHeads, InDown, InReplay
  <2> QED
    BY <1>0, <2>1, <2>2, <2>3, MoveKeepsWay, ZenonT(60) DEF WayType
<1> QED
  BY <1>1, <1>2, <1>3, <1>4, <1>5, <1>6, <1>7, <1>8, <1>9, <1>10, <1>11, <1>12, <1>13, ZenonT(60)
  DEF Next, SessionStep

\* Initially nothing is journalled and there is no session.
LEMMA WayInvInit == Init => WayInv
<1> SUFFICES ASSUME Init PROVE WayInv
  BY Zenon
<1>1. /\ phase = [r \in Runs |-> "none"] /\ seqNo = [r \in Runs |-> 0] /\ journal = [r \in Runs |-> {}]
      /\ sess = "off" /\ listed = <<>> /\ replay = <<>> /\ up = <<>> /\ down = <<>> /\ lossy = FALSE
  BY Zenon DEF Init, SyncInit
<1>2. WayType
  BY <1>1, EmptySeq, Zenon DEF WayType
<1>3. WayBounds
  BY <1>1, RangeEmpty, Zenon DEF WayBounds, Told, Asked
<1>4. WholeJournal
  BY <1>1 DEF WholeJournal
<1>5. OnWay
  BY <1>1, Zenon DEF OnWay
<1> QED
  BY <1>2, <1>3, <1>4, <1>5, ZenonT(60) DEF WayInv

\* Because the session subscribes before it reads the heads and forwards live events after
\* it has sent them, every journalled event that the Manager lacks is on its way to it, for
\* any number of runs the advertisement can hold and any capacities, unless an event was
\* discarded in this session or an append to the journal failed.
THEOREM NothingIsForgotten == Spec => []NothingForgotten
<1>1. WayInv => NothingForgotten
  <2> SUFFICES ASSUME WayInv, faults = 0, sess = "synced", ~lossy, Cardinality(Known) <= MaxHeads,
                      NEW r \in Runs, NEW n \in journal[r], n > head[r]
               PROVE  OnTheWay(r, n)
    BY Zenon DEF NothingForgotten
  <2>1. Coming(r, n)
    BY Zenon DEF WayInv, OnWay, Gentle, WayHolds
  <2> QED
    BY <2>1, Zenon DEF OnTheWay, Coming, InLive, InUp, InHeads, InDown, InReplay, Within
<1> QED
  BY <1>1, SyncInvInit, SyncInvStep, WayInvInit, WayInvStep, PTL DEF Spec

=============================================================================
