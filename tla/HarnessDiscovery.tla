-------------------------- MODULE HarnessDiscovery --------------------------
(***************************************************************************)
(* How the session adapters of internal/agentops find a harness's durable  *)
(* session: what they read of a session file (readCodexSessionMeta,        *)
(* readOMPSessionMeta), which sessions they list, and which one they take  *)
(* for a run (Discover).                                                   *)
(*                                                                         *)
(* A session file is a sequence of tokens.  A record is its half and its   *)
(* rest, so that a reader can meet a record the harness has only partly    *)
(* flushed; EOL ends a line.  Times are small numbers, 0 being the zero    *)
(* time; a text is a model value or a string, "" being blank.              *)
(***************************************************************************)
EXTENDS Integers, Sequences, SequencesExt, FiniteSetsExt

CONSTANTS Window,      \* the 30 seconds around a run's start
          ListLimit    \* limit of a List call, after clamping

EOL == [t |-> "nl"]
Half(r) == [t |-> "half", of |-> r]
Rest(r) == [t |-> "rest", of |-> r]

-----------------------------------------------------------------------------
(* Lines *)

\* The members of S, a set of positions of f, in order.
InOrder(S, f) == SelectSeq([i \in DOMAIN f |-> i], LAMBDA i : i \in S)

\* json.Valid, for the tokens of a trimmed line
Valid(l) == Len(l) = 2 /\ l[1].t = "half" /\ l[2] = Rest(l[1].of)

\* Reading on at `off`: where a line begins that is one whole record, ended
\* or the last of the file, and the ends of the lines that are no JSON.
Good(f, off) ==
  {i \in off + 1 .. Len(f) - 1 : /\ i = off + 1 \/ f[i - 1] = EOL
                                 /\ Valid(SubSeq(f, i, i + 1))
                                 /\ i + 1 = Len(f) \/ f[i + 2] = EOL}
\* Mutant: a line that is no JSON is passed over.
Bad_PassedOver(f, off) == {}

Bad(f, off) ==
  {e \in off + 2 .. Len(f) : f[e] = EOL /\ f[e - 1] # EOL /\ e - 2 \notin Good(f, off)}

\* The last line has neither an end nor a whole record.
Torn(f) == f # <<>> /\ f[Len(f)] # EOL /\ Len(f) - 1 \notin Good(f, 0)

-----------------------------------------------------------------------------
(* Session metadata *)

OfType(rs, type) == SelectSeq(rs, LAMBDA r : r.type = type)

\* The last metadata record counts, and the first model and thinking level
\* that are set; firstNonEmptyString is the identity on such values.
FirstSet(texts) == LET set == SelectSeq(texts, LAMBDA x : x # "")
                   IN IF set = <<>> THEN "" ELSE Head(set)
MetaOf(rs) ==
  LET metas == OfType(rs, "meta")
      turns == OfType(rs, "turn")
      users == OfType(rs, "user")
      own == IF metas = <<>> THEN [id |-> "", cwd |-> "", at |-> 0]
             ELSE metas[Len(metas)]
  IN [id |-> own.id, cwd |-> own.cwd, started |-> own.at,
      model |-> FirstSet([i \in DOMAIN turns |-> turns[i].model]),
      thinking |-> FirstSet([i \in DOMAIN turns |-> turns[i].thinking]),
      users |-> [i \in DOMAIN users |-> users[i].text]]

\* What the scan must have seen, besides a message of the user, to stop.
codexSettled == {"id", "cwd", "model"}
ompSettled == {"id", "model", "thinking"}

\* The scan stops at the first line that settles the metadata, and fails on
\* the first line before it that is no JSON: a record still being written
\* is such a line.  The record limit of the scan is out of reach here.
ScanMeta(f, settled) ==
  LET good == InOrder(Good(f, 0), f)
      Upto(n) == MetaOf([i \in 1 .. n |-> f[good[i]].of])
      stops == {n \in DOMAIN good : /\ Upto(n).users # <<>>
                                    /\ \A field \in settled : Upto(n)[field] # ""}
      end == Min(stops \cup {Len(good)})
  IN [ok |-> /\ IF stops = {} THEN Bad(f, 0) = {} /\ ~Torn(f)
                ELSE \A e \in Bad(f, 0) : e > good[end]
             /\ Upto(end).id # "" /\ Upto(end).cwd # "",
      meta |-> Upto(end)]

\* The file's modification time stands in for a missing start time.
readCodexSessionMeta(f, mtime) ==
  LET s == ScanMeta(f, codexSettled)
  IN [s EXCEPT !.meta.started = IF @ = 0 THEN mtime ELSE @]

\* Only the first user message counts for OMP: ompDiscover looks no further.
readOMPSessionMeta(f, mtime) ==
  LET s == ScanMeta(f, ompSettled)
  IN [s EXCEPT !.meta.started = IF @ = 0 THEN mtime ELSE @]

-----------------------------------------------------------------------------
(* Which sessions are listed, and which one a run is matched with *)

Distance(a, b) == IF b = 0 THEN 0 ELSE IF a >= b THEN a - b ELSE b - a

\* Metadata of the session files that can be read, of the wanted root.
InRoot(metas, root) == SelectSeq(metas, LAMBDA m : root \in {"", m.cwd})

\* sort.Slice by start, then id, both descending; then the limit.
Newest(metas, time) ==
  LET later == SortSeq(metas, LAMBDA a, b :
                 a[time] > b[time] \/ (a[time] = b[time] /\ a.rank > b.rank))
  IN SubSeq(later, 1, Min({Len(later), ListLimit}))

codexList(metas, root) == Newest(InRoot(metas, root), "started")
ompList(metas, root) == Newest(InRoot(metas, root), "started")
openCodeList(rows, root) == Newest(InRoot(rows, root), "updated")

\* The first of the closest ones, as the loops keep the first of equals.
Closest(ms, picks, at) ==
  LET dist(i) == Distance(ms[i].started, at)
      best == {i \in picks : \A j \in picks : dist(i) <= dist(j)}
  IN IF picks = {} THEN "" ELSE ms[Min(best)].id

\* Sessions that may be taken for their start time alone.
Near(ms, picks, at) ==
  {i \in picks : at = 0 \/ Distance(ms[i].started, at) <= Window}

\* A session with the run's task wins over one that only started near it.
ByTask(ms, exact, at) ==
  IF exact # {} THEN Closest(ms, exact, at)
  ELSE Closest(ms, Near(ms, DOMAIN ms \ exact, at), at)

codexDiscover(metas, req) ==
  LET ms == InRoot(metas, req.root)
      exact == {i \in DOMAIN ms : req.task # "" /\ req.task \in ToSet(ms[i].users)}
  IN IF req.native # "" /\ \E i \in DOMAIN ms : ms[i].id = req.native
       THEN req.native
       ELSE ByTask(ms, exact, req.at)

\* The native id of the request is not looked at.
ompDiscover(metas, req) ==
  LET ms == InRoot(metas, req.root)
      exact == {i \in DOMAIN ms : req.task # "" /\ ms[i].users # <<>>
                                               /\ ms[i].users[1] = req.task}
  IN ByTask(ms, exact, req.at)
=============================================================================
