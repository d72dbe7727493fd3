-------------------------- MODULE MCHarnessSessions --------------------------
(***************************************************************************)
(* The readers of other programs' output in one instance.  The four parts  *)
(* share no state, so a behaviour is one of the log of a harness that is   *)
(* read while it is written, of a conversation that is projected, of the   *)
(* OpenCode database, or of a language server; the variables of the other  *)
(* parts keep their first value.                                           *)
(***************************************************************************)
EXTENDS HarnessLog, HarnessProjection, OpenCodeSession, LanguageServer

VARIABLE part

talkVars == <<agent, said>>
mcVars == <<part, logVars, talkVars, openCodeVars, lspVars>>

NoLog == LogInit /\ harness = "codex"
NoTalk == TalkInit /\ agent = "codex"
NoDatabase ==
  /\ rows = <<>> /\ req = [native |-> "", task |-> "", at |-> 0, root |-> "root"]
  /\ pc = "idle" /\ held = 0 /\ row = 0 /\ near = 0 /\ found = ""
  /\ parts = <<>> /\ got = <<>>

MCInit ==
  \/ part = "log" /\ LogInit /\ NoTalk /\ NoDatabase /\ LspInit
  \/ part = "talk" /\ TalkInit /\ NoLog /\ NoDatabase /\ LspInit
  \/ part = "opencode" /\ OpenCodeInit /\ NoLog /\ NoTalk /\ LspInit
  \/ part = "lsp" /\ LspInit /\ NoLog /\ NoTalk /\ NoDatabase

MCNext ==
  \/ part = "log" /\ LogNext /\ UNCHANGED <<part, talkVars, openCodeVars, lspVars>>
  \/ part = "talk" /\ Talk /\ UNCHANGED <<part, logVars, openCodeVars, lspVars>>
  \/ part = "opencode" /\ OpenCodeNext /\ UNCHANGED <<part, logVars, talkVars, lspVars>>
  \/ part = "lsp" /\ LspNext /\ UNCHANGED <<part, logVars, talkVars, openCodeVars>>

MCSpec ==
  /\ MCInit /\ [][MCNext]_mcVars
  /\ (part = "log" => LogFairness)
  /\ OpenCodeFairness
  /\ (part = "lsp" => LspFairness)
=============================================================================
