---------------------------- MODULE CallHistory ----------------------------
(***************************************************************************)
(* The record of tool calls: invokeArgs writes every call to SQLite        *)
(* (internal/mcpcallstore) and then to the JSONL audit log                 *)
(* (internal/auditlog); the admin console pages through the first with     *)
(* requests that calls, restarts and each other overtake.                  *)
(*                                                                         *)
(* Time counts half seconds, so that the text of a time may or may not     *)
(* have a fraction.                                                        *)
(***************************************************************************)
EXTENDS Integers, Sequences, FiniteSets

CONSTANTS ToolCalls,        \* the tool calls that are made
          Errs,             \* what a call may fail with: what errors.Is and the text say of it
          Recorded,         \* the rows that an earlier Manager left
          Filters,          \* the filters an operator applies in the console
          callsLimit,       \* rows the console asks for
          DefaultLimit,     \* rows of a page that asks for none, or for too many
          MaxLimit,         \* rows of a page at most
          Retain,           \* CODEBRIDGE_MCP_DB_RETAIN_DAYS, in half seconds
          MaxClock,         \* bound: how long time goes on
          MaxAsks,          \* bound: pages asked for at once
          MaxApplies,       \* bound: filters applied
          MaxStarts,        \* bound: starts of the Manager
          MaxHistoryFaults  \* bound: writes that fail

ASSUME HistoryAssumption ==
  /\ callsLimit \in 1..MaxLimit /\ DefaultLimit \in 1..MaxLimit
  /\ \A f \in Filters : f.limit = callsLimit

VARIABLES history,  \* the rows of mcp_calls, by id
          audit,    \* ToolCalls -> its lines in the audit log
          made,     \* ToolCalls -> where its invokeArgs is, and what it got
          kept,     \* every row that Insert committed
          unlogged, \* calls whose audit line could not be written
          clock,
          asks,     \* the console's requests to /admin/mcp-calls
          console,  \* the calls pane, and the walk through its pages
          starts, applies, histFaults

historyVars == <<history, audit, made, kept, unlogged, clock, asks, console, starts, applies,
                 histFaults>>

-----------------------------------------------------------------------------
(* A call.                                                                 *)

\* nil is the error of a call that worked.
nil == {"nil"}

\* The kinds in the order in which auditErrorKind looks for them.
ErrorKinds == <<<<"DeadlineExceeded", "timeout">>, <<"Canceled", "canceled">>,
                <<"offline or unknown", "device_unavailable">>, <<"required", "invalid_request">>>>
auditErrorKind(err) ==
  LET fits == {i \in 1..Len(ErrorKinds) : ErrorKinds[i][1] \in err}
  IN IF err = nil THEN ""
     ELSE IF fits = {} THEN "tool_error"
     ELSE ErrorKinds[CHOOSE i \in fits : \A j \in fits : i <= j][2]

Fact(c) == [call |-> c, success |-> made[c].err = nil, kind |-> auditErrorKind(made[c].err)]

\* The handler returns, and the record of its call is put together: its time is read
\* before the database is asked.
invokeArgs(c) ==
  /\ made[c].pc = "new"
  /\ \E err \in Errs \cup {nil} :
       made' = [made EXCEPT ![c] = [pc |-> "stamped", err |-> err, time |-> clock]]
  /\ UNCHANGED <<history, audit, kept, unlogged, clock, asks, console, starts, applies, histFaults>>

Insert(c) ==
  LET row == [fact |-> Fact(c), time |-> made[c].time]
  IN /\ made[c].pc = "stamped"
     /\ \/ history' = Append(history, row) /\ kept' = kept \cup {row} /\ UNCHANGED histFaults
        \/ histFaults < MaxHistoryFaults /\ histFaults' = histFaults + 1 /\ UNCHANGED <<history, kept>>
     /\ made' = [made EXCEPT ![c].pc = "inserted"]
     /\ UNCHANGED <<audit, unlogged, clock, asks, console, starts, applies>>

\* The line is written under the logger's lock, an error is dropped, and the call is
\* answered.
Log(c) ==
  /\ made[c].pc = "inserted"
  /\ \/ audit' = [audit EXCEPT ![c] = Append(@, Fact(c))] /\ UNCHANGED <<unlogged, histFaults>>
     \/ /\ histFaults < MaxHistoryFaults /\ histFaults' = histFaults + 1
        /\ unlogged' = unlogged \cup {c} /\ UNCHANGED audit
  /\ made' = [made EXCEPT ![c].pc = "answered"]
  /\ UNCHANGED <<history, kept, clock, asks, console, starts, applies>>

-----------------------------------------------------------------------------
(* The store.                                                              *)

\* Where the text of a time sorts among others: RFC3339Nano drops zeros at the end of
\* the fraction, and the Z after a whole second sorts after the point of a fraction.
Text(t) == IF t % 2 = 0 THEN t + 1 ELSE t - 1

filterSQL(f, row) ==
  /\ \A k \in DOMAIN f.equal : row.fact[k] = f.equal[k]
  /\ \A t \in f.since : Text(row.time) >= Text(t)
  /\ \A t \in f.until : Text(row.time) <= Text(t)

Matched(f) == SelectSeq(history, LAMBDA row : filterSQL(f, row))

\* Mutant: the largest page is too large.
List_Largest(f, offset) ==
  LET limit == IF f.limit <= 0 \/ f.limit >= MaxLimit THEN DefaultLimit ELSE f.limit
      n == Len(Matched(f))
  IN {Matched(f)[n + 1 - i] : i \in (offset + 1) .. (IF offset + limit < n THEN offset + limit ELSE n)}
\* The rows of a page, the newest id first.
List(f, offset) ==
  LET limit == IF f.limit <= 0 \/ f.limit > MaxLimit THEN DefaultLimit ELSE f.limit
      n == Len(Matched(f))
  IN {Matched(f)[n + 1 - i] : i \in (offset + 1) .. (IF offset + limit < n THEN offset + limit ELSE n)}

Failed(rows) == {row \in rows : ~row.fact.success}
stats(f) ==
  LET m == Matched(f) IN [total |-> Len(m), failed |-> Cardinality({i \in 1..Len(m) : ~m[i].fact.success})]

\* The rows that are left when those of before the retention window are deleted.
pruneCalls == SelectSeq(history, LAMBDA row : ~(Text(row.time) < Text(clock - Retain)))

\* The Manager stops, with what it was doing, and starts: the console's requests fail.
StartManager ==
  /\ starts < MaxStarts /\ starts' = starts + 1
  /\ history' = pruneCalls
  /\ made' = [c \in ToolCalls |-> IF made[c].pc \in {"new", "answered"} THEN made[c]
                                ELSE [made[c] EXCEPT !.pc = "lost"]]
  /\ asks' = {} /\ console' = [console EXCEPT !.walking = FALSE]
  /\ UNCHANGED <<audit, kept, unlogged, clock, applies, histFaults>>

-----------------------------------------------------------------------------
(* The console's pane of calls.                                            *)

Ask(offset) == [n |-> CHOOSE n \in 1..MaxAsks : \A a \in asks : a.n # n, step |-> "sent",
                filter |-> console.filter, offset |-> offset, page |-> {},
                stats |-> [total |-> 0, failed |-> 0]]
loadCalls(offset) == Cardinality(asks) < MaxAsks /\ asks' = asks \cup {Ask(offset)}

\* A filter is applied: the first page of another walk.
Apply ==
  /\ applies < MaxApplies /\ applies' = applies + 1
  /\ \E f \in Filters :
       /\ Cardinality(asks) < MaxAsks
       /\ asks' = asks \cup {[Ask(0) EXCEPT !.filter = f]}
       /\ console' = [console EXCEPT !.filter = f, !.offset = 0, !.seen = {},
                                     !.walking = asks = {},
                                     !.walk = {row \in kept : filterSQL(f, row)
                                                               /\ \E i \in 1..Len(history) : history[i] = row}]
  /\ UNCHANGED <<history, audit, made, kept, unlogged, clock, starts, histFaults>>
\* The buttons, which nothing disables while a page is on its way.
Turns(offset) ==
  /\ loadCalls(offset)
  /\ console' = [console EXCEPT !.offset = offset, !.walking = @ /\ asks = {}]
  /\ UNCHANGED <<history, audit, made, kept, unlogged, clock, starts, applies, histFaults>>
NextPage == console.offset + callsLimit < console.total /\ Turns(console.offset + callsLimit)
PreviousPage ==
  console.offset > 0 /\ Turns(IF console.offset > callsLimit THEN console.offset - callsLimit ELSE 0)

\* handleMCPCalls answers with the rows of one query and the statistics of a later one.
QueryRows(a) ==
  /\ a.step = "sent"
  /\ asks' = (asks \ {a}) \cup {[a EXCEPT !.step = "listed", !.page = List(a.filter, a.offset)]}
  /\ UNCHANGED <<history, audit, made, kept, unlogged, clock, console, starts, applies, histFaults>>
QueryStats(a) ==
  /\ a.step = "listed"
  /\ asks' = (asks \ {a}) \cup {[a EXCEPT !.step = "answered", !.stats = stats(a.filter)]}
  /\ UNCHANGED <<history, audit, made, kept, unlogged, clock, console, starts, applies, histFaults>>
\* An answer is shown, whichever page is turned to by now.
renderCalls(a) ==
  /\ a.step = "answered" /\ asks' = asks \ {a}
  /\ console' = [console EXCEPT !.total = a.stats.total, !.shown = a.page, !.failed = a.stats.failed,
                                !.seen = @ \cup a.page]
  /\ UNCHANGED <<history, audit, made, kept, unlogged, clock, starts, applies, histFaults>>

ClockTicks ==
  /\ clock < MaxClock /\ clock' = clock + 1
  /\ UNCHANGED <<history, audit, made, kept, unlogged, asks, console, starts, applies, histFaults>>

-----------------------------------------------------------------------------
HistoryIdle ==
  /\ history = Recorded /\ kept = {Recorded[i] : i \in 1..Len(Recorded)} /\ unlogged = {} /\ asks = {}
  /\ audit = [c \in ToolCalls |-> <<>>]
  /\ made = [c \in ToolCalls |-> [pc |-> "new", err |-> nil, time |-> 0]]
  /\ console = [filter |-> [equal |-> <<>>, since |-> {}, until |-> {}, limit |-> callsLimit],
                offset |-> 0, total |-> 0, failed |-> 0, shown |-> {},
                walk |-> {}, seen |-> {}, walking |-> FALSE]
HistoryInit == HistoryIdle /\ clock = 0 /\ starts = 0 /\ applies = 0 /\ histFaults = 0
HistoryNext ==
  \/ \E c \in ToolCalls : invokeArgs(c) \/ Insert(c) \/ Log(c)
  \/ StartManager \/ Apply \/ NextPage \/ PreviousPage \/ ClockTicks
  \/ \E a \in asks : QueryRows(a) \/ QueryStats(a) \/ renderCalls(a)
HistorySpec == HistoryInit /\ [][HistoryNext]_historyVars

-----------------------------------------------------------------------------
(* Properties.                                                             *)

\* An operator who waits for every page (pg-next in admin.html) and comes to the last
\* one has been shown every call that was recorded when the first was asked for, with
\* the filter they applied, however many calls were recorded in between: the rows
\* of a page are queried before the number of rows.
WalkComplete ==
  console.walking /\ asks = {} /\ console.offset + callsLimit >= console.total
    => console.walk \subseteq console.seen

\* The page in the pane and the statistics above it come from two queries, and still the
\* page shows no more calls, and no more failed ones, than are counted above it.
StatsCoverPage ==
  /\ Cardinality(console.shown) <= console.total
  /\ Cardinality(Failed(console.shown)) <= console.failed

\* "the JSONL audit log is the append-only source of truth" (mcp_invoke.go:41): through
\* failed inserts, restarts and concurrent calls, a call that was answered has one line in
\* it, unless the line could not be written, and a row in the store never tells otherwise.
AnsweredAudited ==
  \A c \in ToolCalls :
    /\ made[c].pc = "answered" /\ c \notin unlogged => Len(audit[c]) = 1
    /\ \A i \in 1..Len(audit[c]), j \in 1..Len(history) :
         history[j].fact.call = c => history[j].fact = audit[c][i]

\* A call of the retention window is still in the history, though the database compares
\* the texts of times: within a second they may compare wrongly.
RetainedKept ==
  \A row \in kept :
    row.time > clock - Retain + 1 => \E i \in 1..Len(history) : history[i] = row
=============================================================================
