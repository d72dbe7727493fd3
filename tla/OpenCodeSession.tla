--------------------------- MODULE OpenCodeSession ---------------------------
(***************************************************************************)
(* The OpenCode adapter, which reads OpenCode's own SQLite database: a     *)
(* caller lists the sessions, has Discover find the one of its run, and    *)
(* then follows that session with Read, a page at a time.                  *)
(*                                                                         *)
(* Each call opens the database for itself with SetMaxOpenConns(1); a      *)
(* result set holds its connection until it is closed, and a query that    *)
(* finds none free waits.  The harness writes the database all the while:  *)
(* a part is a row that is appended, and a tool part is later updated in   *)
(* place.                                                                  *)
(***************************************************************************)
EXTENDS HarnessDiscovery

CONSTANTS Conns,     \* the argument of SetMaxOpenConns
          Tasks,     \* task texts of the requests
          PartLimit, \* limit of a Read call, after clamping
          MaxParts   \* bound on the parts of the session

VARIABLES rows,   \* the session table, newest first
          req,    \* the Discover request
          pc,     \* where the caller is
          held,   \* connections in use by its call
          row,    \* the row its scan is at
          near,   \* the nearest row so far, 0 for none
          found,  \* what Discover returned
          parts,  \* the part table of the session that was found
          got     \* the parts read so far; its length is the cursor

openCodeVars == <<rows, req, pc, held, row, near, found, parts, got>>

Sessions == <<"s1", "s2", "s3">>
Started == 1 .. 3
Before(a, b) == a.started > b.started \/ (a.started = b.started /\ a.rank > b.rank)
Databases ==
  {[i \in 1 .. 3 |-> [id |-> Sessions[i], rank |-> i, cwd |-> cwds[i], started |-> ts[i],
                      updated |-> 3 - ts[i], first |-> IF i = 2 THEN "task" ELSE "other"]] :
   ts \in [1 .. 3 -> Started], cwds \in [1 .. 3 -> {"root", "else"}]}
Requests == [native : {"", "s1", "gone"}, task : Tasks, at : {0, 2}, root : {"root"}]

OpenCodeInit ==
  /\ rows \in Databases /\ req \in Requests
  /\ pc = "native" /\ held = 0 /\ row = 0 /\ near = 0 /\ found = ""
  /\ parts = <<>> /\ got = <<>>

-----------------------------------------------------------------------------
(* Discover *)

\* SELECT ... WHERE directory=? ORDER BY time_created DESC,id DESC
Selected == SortSeq(InRoot(rows, req.root), Before)

Return(id) ==
  /\ found' = id /\ pc' = "found" /\ held' = 0
  /\ UNCHANGED <<rows, req, row, near, parts, got>>

\* queryOpenCodeSession: the row of the native id, if it is in the root.
Native ==
  /\ pc = "native" /\ held < Conns
  /\ IF \E i \in DOMAIN rows : rows[i].id = req.native /\ rows[i].cwd = req.root
       THEN Return(req.native)
       ELSE pc' = "query" /\ UNCHANGED <<rows, req, held, row, near, found, parts, got>>

Query ==
  /\ pc = "query" /\ held < Conns
  /\ held' = held + 1 /\ row' = 1 /\ pc' = "scan"
  /\ UNCHANGED <<rows, req, near, found, parts, got>>

\* openCodeTimeDistance, and the first user text of a session: a query for
\* its messages and, while that is open, one for the parts of a message.
openCodeTimeDistance(i) == Distance(Selected[i].started, req.at)
firstOpenCodeUserText(i) == Selected[i].first

Row ==
  LET r == Selected[row]
      closer == near = 0 \/ openCodeTimeDistance(row) < openCodeTimeDistance(near)
  IN /\ pc = "scan" /\ row <= Len(Selected)
     /\ req.task # "" => held + 2 <= Conns
     /\ IF req.task # "" /\ firstOpenCodeUserText(row) = req.task THEN Return(r.id)
        ELSE /\ near' = IF closer /\ (req.at = 0 \/ openCodeTimeDistance(row) <= Window)
                        THEN row ELSE near
             /\ row' = row + 1
             /\ UNCHANGED <<rows, req, pc, held, found, parts, got>>

Scanned ==
  /\ pc = "scan" /\ row > Len(Selected)
  /\ Return(IF near = 0 THEN "" ELSE Selected[near].id)

\* The caller goes on to read the session; what it searched is forgotten.
Follow ==
  /\ pc = "found" /\ found # ""
  /\ pc' = "reading" /\ rows' = <<>> /\ found' = "" /\ near' = 0 /\ row' = 0
  /\ req' = [req EXCEPT !.native = "", !.at = 0]
  /\ UNCHANGED <<held, parts, got>>

-----------------------------------------------------------------------------
(* The harness, and Read *)

AddPart ==
  /\ pc = "reading" /\ Len(parts) < MaxParts
  /\ \E status \in {"", "running"} : parts' = Append(parts, [n |-> Len(parts) + 1, status |-> status])
  /\ UNCHANGED <<rows, req, pc, held, row, near, found, got>>

UpdatePart ==
  /\ \E i \in DOMAIN parts : /\ parts[i].status = "running"
                             /\ parts' = [parts EXCEPT ![i].status = "completed"]
  /\ UNCHANGED <<rows, req, pc, held, row, near, found, got>>

\* ORDER BY time_created,id LIMIT limit+1 OFFSET after: the row beyond the
\* limit only tells whether there is more.
ReadParts(after) ==
  LET window == SubSeq(parts, after + 1, Min({after + PartLimit + 1, Len(parts)}))
  IN [page |-> SubSeq(window, 1, Min({PartLimit, Len(window)})),
      eof |-> Len(window) <= PartLimit]

\* Mutant: a page that is not full is held back.
Read_FullPages ==
  /\ pc = "reading" /\ Len(ReadParts(Len(got)).page) = PartLimit
  /\ got' = got \o ReadParts(Len(got)).page
  /\ UNCHANGED <<rows, req, pc, held, row, near, found, parts>>

Read ==
  /\ pc = "reading" /\ held < Conns
  /\ ReadParts(Len(got)).page # <<>>
  /\ got' = got \o ReadParts(Len(got)).page
  /\ UNCHANGED <<rows, req, pc, held, row, near, found, parts>>

OpenCodeNext == Native \/ Query \/ Row \/ Scanned \/ Follow \/ AddPart \/ UpdatePart \/ Read
OpenCodeFairness ==
  /\ WF_openCodeVars(Native \/ Query \/ Row \/ Scanned)
  /\ WF_openCodeVars(Follow) /\ WF_openCodeVars(Read)
OpenCodeSpec == OpenCodeInit /\ [][OpenCodeNext]_openCodeVars /\ OpenCodeFairness
-----------------------------------------------------------------------------
(* Properties *)

Eligible == {s \in ToSet(Selected) : req.at = 0 \/ Distance(s.started, req.at) <= Window}

\* A Discover without a task returns the session of the native id, and
\* otherwise one of the root that no other session of it is nearer to the
\* run's start; of equally near ones the newest (openCodeDiscover).
NearestFound ==
  pc = "found" /\ req.task = "" =>
    LET native == {s \in ToSet(Selected) : s.id = req.native}
        best == {s \in Eligible : \A t \in Eligible \ {s} :
                   LET ds == Distance(s.started, req.at)
                       dt == Distance(t.started, req.at)
                   IN ds < dt \/ (ds = dt /\ Before(s, t))}
    IN found \in IF native # {} THEN {req.native}
                 ELSE IF best = {} THEN {""} ELSE {s.id : s \in best}

\* List leaves out no session of the root that is newer than one it shows,
\* in the order of the adapter's own key, and fills the limit if it can.
NewestListed ==
  rows # <<>> =>
    LET Shows(list, Key(_)) ==
          LET all == ToSet(InRoot(rows, req.root))
          IN /\ Len(list) = Min({ListLimit, Cardinality(all)})
             /\ \A i \in DOMAIN list, s \in all :
                  s \notin {list[j] : j \in 1 .. i} =>
                    \/ Key(list[i]) > Key(s)
                    \/ Key(list[i]) = Key(s) /\ list[i].rank > s.rank
    IN /\ Shows(codexList(rows, req.root), LAMBDA s : s.started)
       /\ Shows(ompList(rows, req.root), LAMBDA s : s.started)
       /\ Shows(openCodeList(rows, req.root), LAMBDA s : s.updated)

\* Paging by offset shows every part once and in order, whatever is appended
\* or updated between two pages, and a page that claims the end of the
\* session really was the last one.
PartsExact ==
  /\ \A i \in DOMAIN got : got[i].n = i
  /\ Len(got) <= Len(parts)
  /\ ReadParts(Len(got)).eof => Len(got) + Len(ReadParts(Len(got)).page) = Len(parts)

\* Every Discover call returns.
DiscoverReturns == (pc = "native") ~> (pc \in {"found", "reading"})
\* The parts of the session that Discover found all reach a reader that keeps
\* asking (Read pages by offset).
PartsFollowed == \A n \in 1 .. MaxParts : (Len(parts) >= n) ~> (Len(got) >= n)
=============================================================================
