--------------------------- MODULE LanguageServer ---------------------------
(***************************************************************************)
(* find_references with a language server (internal/agentops/lsp.go): one  *)
(* server of a workspace and language is started under the lock of the     *)
(* table of clients, and asked under the lock of its client; whatever goes *)
(* wrong, the lookup falls back to a search of the text.  A line of the    *)
(* server is the id that it answers, 0 if it answers none.                 *)
(***************************************************************************)
EXTENDS Integers, Sequences, FiniteSets

CONSTANTS Lookups,     \* calls of find_references, each in its goroutine
          MaxNotes     \* bound: lines of the server that answer nothing

NoLookup == "none"
ASSUME LookupAssumption == NoLookup \notin Lookups

VARIABLES lspMu,       \* who holds Service.lspMu
          clientMu,    \* who holds lspClient.mu
          cachedClient,\* lspClients has a client
          server,      \* the process: "none", "up", "dead"
          startCtx,    \* the context of the process is done
          nextID, unanswered, stdout, notes,
          look         \* Lookups -> where it is, the id it asked with, the answer it took

lspVars == <<lspMu, clientMu, cachedClient, server, startCtx, nextID, unanswered, stdout, notes, look>>
processVars == <<server, startCtx, nextID, unanswered, stdout, notes>>

\* The lookup searches the text, and gives up what it holds.
fallBack(l) ==
  /\ look' = [look EXCEPT ![l].pc = "textual"]
  /\ lspMu' = IF lspMu = l THEN NoLookup ELSE lspMu
  /\ clientMu' = IF clientMu = l THEN NoLookup ELSE clientMu

findReferences(l) ==
  /\ look[l].pc = "idle" /\ look' = [look EXCEPT ![l].pc = "new"]
  /\ UNCHANGED <<lspMu, clientMu, cachedClient, processVars>>

\* Under lspMu: the client that is there, or a new process that is sent initialize.
lspClientFor(l) ==
  /\ look[l].pc = "new" /\ lspMu = NoLookup
  /\ \/ /\ cachedClient
        /\ look' = [look EXCEPT ![l].pc = "client"]
        /\ UNCHANGED <<lspMu, clientMu, cachedClient, processVars>>
     \/ /\ ~cachedClient                     \* not installed, or it does not start
        /\ fallBack(l) /\ UNCHANGED <<cachedClient, processVars>>
     \/ /\ ~cachedClient
        /\ lspMu' = l /\ server' = "up" /\ startCtx' = FALSE
        /\ nextID' = 1 /\ unanswered' = {1} /\ stdout' = <<>>
        /\ look' = [look EXCEPT ![l] = [@ EXCEPT !.pc = "starting", !.id = 1]]
        /\ UNCHANGED <<clientMu, cachedClient, notes>>

\* Mutant: the context of the start is left alone.
startLSPClient_KeepsContext(l) ==
  /\ look[l].pc = "starting"
  /\ \/ /\ stdout # <<>> /\ Head(stdout) = look[l].id /\ server = "up" /\ stdout' = Tail(stdout)
        /\ look' = [look EXCEPT ![l].pc = "client"] /\ cachedClient' = TRUE /\ lspMu' = NoLookup
        /\ UNCHANGED <<clientMu, server, startCtx>>
     \/ /\ stdout # <<>> \/ server = "dead"
        /\ fallBack(l) /\ server' = "none" /\ UNCHANGED <<cachedClient, startCtx, stdout>>
  /\ UNCHANGED <<nextID, unanswered, notes>>
\* Lines are read until the answer to initialize.  With it there is a client, and the
\* deferred cancel ends the context of the process.  There is none when a line comes too
\* late, when the answer is an error, and when the process is gone.
startLSPClient(l) ==
  /\ look[l].pc = "starting"
  /\ \/ /\ stdout # <<>> /\ Head(stdout) # look[l].id /\ stdout' = Tail(stdout)
        /\ UNCHANGED <<lspMu, clientMu, cachedClient, server, startCtx, look>>
     \/ /\ stdout # <<>> /\ Head(stdout) = look[l].id /\ server = "up" /\ stdout' = Tail(stdout)
        /\ look' = [look EXCEPT ![l].pc = "client"] /\ cachedClient' = TRUE /\ lspMu' = NoLookup
        /\ startCtx' = TRUE /\ UNCHANGED <<clientMu, server>>
     \/ /\ stdout # <<>> \/ server = "dead"
        /\ fallBack(l) /\ server' = "none" /\ startCtx' = TRUE /\ UNCHANGED <<cachedClient, stdout>>
  /\ UNCHANGED <<nextID, unanswered, notes>>

\* The file cannot be read or has no such symbol, or the client is asked: a process that
\* is gone cannot be written to.
references(l) ==
  /\ look[l].pc = "client"
  /\ \/ fallBack(l) /\ UNCHANGED <<cachedClient, processVars>>
     \/ /\ clientMu = NoLookup /\ server = "up" /\ clientMu' = l
        /\ nextID' = nextID + 1 /\ unanswered' = unanswered \cup {nextID'}
        /\ look' = [look EXCEPT ![l] = [@ EXCEPT !.pc = "scanning", !.id = nextID']]
        /\ UNCHANGED <<lspMu, cachedClient, server, startCtx, stdout, notes>>
     \/ /\ clientMu = NoLookup /\ server # "up"
        /\ fallBack(l) /\ nextID' = nextID + 1
        /\ UNCHANGED <<cachedClient, server, startCtx, unanswered, stdout, notes>>

\* Lines are read until the answer; the deadline is looked at when one has come.
request(l) ==
  /\ look[l].pc = "scanning"
  /\ \/ /\ stdout # <<>> /\ stdout' = Tail(stdout)
        /\ \/ fallBack(l)
           \/ /\ Head(stdout) = look[l].id /\ clientMu' = NoLookup
              /\ look' = [look EXCEPT ![l] = [@ EXCEPT !.pc = "lsp", !.answer = Head(stdout)]] /\ UNCHANGED lspMu
           \/ Head(stdout) # look[l].id /\ UNCHANGED <<lspMu, clientMu, look>>
     \/ stdout = <<>> /\ server # "up" /\ fallBack(l) /\ UNCHANGED stdout
  /\ UNCHANGED <<cachedClient, server, startCtx, nextID, unanswered, notes>>

-----------------------------------------------------------------------------
(* The process and its context.                                            *)

\* The 20 seconds of the start are over, or the call is cancelled.
StartTimeout ==
  /\ \E l \in Lookups : look[l].pc = "starting"
  /\ ~startCtx /\ startCtx' = TRUE
  /\ UNCHANGED <<lspMu, clientMu, cachedClient, server, nextID, unanswered, stdout, notes, look>>
\* exec.CommandContext kills the process when its context is done.
KilledByContext ==
  /\ startCtx /\ server = "up" /\ server' = "dead"
  /\ UNCHANGED <<lspMu, clientMu, cachedClient, startCtx, nextID, unanswered, stdout, notes, look>>
ServerAnswers ==
  /\ server = "up"
  /\ \/ \E id \in unanswered : stdout' = Append(stdout, id) /\ unanswered' = unanswered \ {id} /\ UNCHANGED notes
     \/ notes < MaxNotes /\ notes' = notes + 1 /\ stdout' = Append(stdout, 0) /\ UNCHANGED unanswered
  /\ UNCHANGED <<lspMu, clientMu, cachedClient, server, startCtx, nextID, look>>
ServerExits ==
  /\ server = "up" /\ server' = "dead"
  /\ UNCHANGED <<lspMu, clientMu, cachedClient, startCtx, nextID, unanswered, stdout, notes, look>>

-----------------------------------------------------------------------------
LspInit ==
  /\ lspMu = NoLookup /\ clientMu = NoLookup /\ cachedClient = FALSE /\ server = "none" /\ startCtx = FALSE
  /\ nextID = 0 /\ unanswered = {} /\ stdout = <<>> /\ notes = 0
  /\ look = [l \in Lookups |-> [pc |-> "idle", id |-> 0, answer |-> 0]]
Lookup(l) == lspClientFor(l) \/ startLSPClient(l) \/ references(l) \/ request(l)
LspNext ==
  \/ \E l \in Lookups : findReferences(l) \/ Lookup(l)
  \/ StartTimeout \/ KilledByContext \/ ServerAnswers \/ ServerExits
\* Goroutines run, time passes, and a process that is killed dies; a server may never
\* answer.
LspFairness ==
  /\ \A l \in Lookups : WF_lspVars(Lookup(l))
  /\ WF_lspVars(StartTimeout) /\ WF_lspVars(KilledByContext)

-----------------------------------------------------------------------------
(* Properties *)

\* Every lookup ends, with the server's answer or without, though the locks are held
\* while the server is started and asked, and request reads without a time limit: a server
\* that stays silent is killed by its context.
LookupEnds == \A l \in Lookups : look[l].pc = "new" ~> look[l].pc \in {"textual", "lsp"}

\* A lookup is answered with what the server said to it, and not with the answer to an
\* earlier lookup that stopped waiting.
AnswerIsMine == \A l \in Lookups : look[l].pc = "lsp" => look[l].answer = look[l].id

\* "lspClientFor returns a cached running language server" (lsp.go:282).  It does not
\* hold: the deferred cancel in startLSPClient kills the server, and its client stays in
\* the table.
CachedServerRuns == cachedClient /\ (\E l \in Lookups : look[l].pc \in {"idle", "new"}) => server = "up"
=============================================================================
