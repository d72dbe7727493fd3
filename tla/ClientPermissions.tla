------------------------- MODULE ClientPermissions -------------------------
(***************************************************************************)
(* The client's permission rules, and the config file that keeps them:     *)
(* permissions.go, bash.go and the gates of subagent.go in                 *)
(* internal/agentops, clientconfig.Save and Load, and the parts of         *)
(* cmd/client/main.go that save and reload the configuration.              *)
(*                                                                         *)
(* A command no rule matches is parked as a request and released by        *)
(* permission_grant.  Tool calls, grants and the configuration UI run in   *)
(* goroutines of their own; perms.mu covers each access and nothing        *)
(* covers two of them, and the config file has no lock at all.  A command  *)
(* is a sequence of tokens, blanks included, and starts with its first     *)
(* word.  Of the configuration only the rules and the workspaces are kept. *)
(***************************************************************************)
EXTENDS Integers, Sequences, FiniteSets

CONSTANTS Callers,       \* goroutines that serve bash and agent calls
          Deciders,      \* goroutines that serve permission_grant calls
          Commands,      \* the bash commands that are called
          Clients,       \* the harness binaries that are called
          FileRules,     \* the rules the file starts with
          EnvRules,      \* the rules CODEBRIDGE_BASH_PERMISSIONS appends
          Overlap,       \* whether a grant may overlap a UI save and its reload
          MaxDecisions,  \* bound on the decisions made
          MaxEvents      \* bound on requests parked, forms saved and faults together

VARIABLES rules,      \* perms.rules; only a message depends on their order
          pending,    \* perms.pending: [request id -> request]
          granted,    \* perms.granted
          parked,     \* number of ids handed out
          call,       \* [Callers -> the call being served]
          grant,      \* [Deciders -> the permission_grant being served]
          ui,         \* the operator's form and its save
          disk,       \* the config file and its .tmp
          reload,     \* the one-slot reload channel
          decided,    \* number of "once" and of all decisions
          spent,      \* number of "once" grants a command was run on
          always,     \* the calls an answered "always" covers
          faults      \* number of restarts and failed saves

permissionsVars == <<rules, pending, granted, parked, call, grant, ui, disk, reload,
          decided, spent, always, faults>>

Savers == Deciders \cup {"ui"}
Calls == {[tool |-> "bash", command |-> c] : c \in Commands}
         \cup {[tool |-> "agent", command |-> c] : c \in Clients}
NoConfig == [rules |-> {}, workspaces |-> 0]
Torn == [rules |-> {}, workspaces |-> -1]   \* a file that was not written whole

Events == parked + ui.saves + faults

NoCall == [at |-> "idle", tool |-> "", command |-> <<>>, due |-> {}]
NoGrant == [at |-> "idle", id |-> 0, req |-> [tool |-> ""], cfg |-> NoConfig, fd |-> 0]
NoForm == [at |-> "idle", open |-> FALSE, form |-> NoConfig, cfg |-> NoConfig, fd |-> 0, saves |-> 0]

-----------------------------------------------------------------------------
(* Rules *)

\* "*" and the empty pattern are the glob of no tokens.
ruleMatches(pattern, command) ==
  IF pattern.glob
  THEN /\ Len(pattern.tokens) <= Len(command)
       /\ SubSeq(command, 1, Len(pattern.tokens)) = pattern.tokens
  ELSE pattern.tokens = <<Head(command)>>

\* Deny wins; a rule with any other effect allows.
permissionDecision(tool, command) ==
  LET matching == {r \in rules : r.tool \in {"", tool} /\ ruleMatches(r.pattern, command)}
  IN CASE \E r \in matching : r.effect = "deny" -> "deny"
       [] matching = {} -> "ask"
       [] OTHER -> "allow"

\* Mutant: the rule is the glob of the first word and a blank.
PermissionRuleForRequest_Glob(req) ==
  [effect |-> "allow", tool |-> req.tool,
   pattern |-> [tokens |-> <<Head(req.command), " ">>, glob |-> TRUE]]

PermissionRuleForRequest(req) ==
  [effect |-> "allow", tool |-> req.tool,
   pattern |-> [tokens |-> <<Head(req.command)>>, glob |-> FALSE]]

Without(f, ids) == [i \in DOMAIN f \ ids |-> f[i]]

-----------------------------------------------------------------------------
(* Bash and agent calls *)

At(p, at) == call' = [call EXCEPT ![p] = IF at = "run" THEN [NoCall EXCEPT !.at = at]
                                         ELSE [@ EXCEPT !.at = at]]
Same(p, id) == pending[id].tool = call[p].tool /\ pending[id].command = call[p].command

\* runBash, runSubagent and subagentPreflight: the rules decide.
Call(p) ==
  /\ call[p].at \in {"idle", "asked"}
  /\ \E c \in Calls :
       LET effect == permissionDecision(c.tool, c.command)
           due == {id \in granted \cap DOMAIN pending :
                     pending[id].tool = c.tool /\ pending[id].command = c.command}
       IN call' = [call EXCEPT ![p] =
            CASE effect = "deny" -> NoCall
              [] effect = "allow" -> [NoCall EXCEPT !.at = "run"]
              [] effect = "ask" -> [at |-> IF c.tool = "bash" THEN "grant" ELSE "find",
                                    tool |-> c.tool, command |-> c.command, due |-> due]]
  /\ UNCHANGED <<rules, pending, granted, parked, grant, ui, disk, reload, decided, spent,
                 always, faults>>

\* Mutant: the grant stays for the next call.
consumeGrantOnce_Kept(p) ==
  /\ call[p].at = "grant"
  /\ LET usable == {id \in granted \cap DOMAIN pending : pending[id].command = call[p].command}
     IN IF usable = {} THEN At(p, "find") /\ UNCHANGED spent
                       ELSE At(p, "run") /\ spent' = spent + 1
  /\ UNCHANGED <<rules, pending, granted, parked, grant, ui, disk, reload, decided, always, faults>>

\* consumeGrantOnce: a grant is worth one run while its request is pending,
\* however old the request is.
consumeGrantOnce(p) ==
  /\ call[p].at = "grant"
  /\ LET usable == {id \in granted \cap DOMAIN pending : pending[id].command = call[p].command}
     IN \/ /\ usable = {}
           /\ At(p, "find")
           /\ UNCHANGED <<pending, granted, spent>>
        \/ \E id \in usable :
             /\ granted' = granted \ {id}
             /\ pending' = Without(pending, {id})
             /\ spent' = spent + 1
             /\ At(p, "run")
  /\ UNCHANGED <<rules, parked, grant, ui, disk, reload, decided, always, faults>>

\* pendingBashRequest, pendingSubagentRequest: a live request is answered again.
pendingRequest(p) ==
  /\ call[p].at = "find"
  /\ At(p, IF \E id \in DOMAIN pending : Same(p, id) /\ ~pending[id].expired
             THEN "asked" ELSE "park")
  /\ UNCHANGED <<rules, pending, granted, parked, grant, ui, disk, reload, decided, spent,
                 always, faults>>

\* parkRequest: a fresh request; expired ones are swept.
parkRequest(p) ==
  /\ call[p].at = "park"
  /\ Events < MaxEvents
  /\ parked' = parked + 1
  /\ LET live == {id \in DOMAIN pending : ~pending[id].expired}
     IN pending' = [id \in live \cup {parked'} |->
          IF id = parked' THEN [tool |-> call[p].tool, command |-> call[p].command,
                                expired |-> FALSE]
                          ELSE pending[id]]
  /\ At(p, "asked")
  /\ UNCHANGED <<rules, granted, grant, ui, disk, reload, decided, spent, always, faults>>

\* execBash, or the start of the harness: the workspace must resolve; the
\* command ends, fails or is killed by its timeout.
Exec(p) ==
  /\ call[p].at = "run"
  /\ call' = [call EXCEPT ![p] = NoCall]
  /\ UNCHANGED <<rules, pending, granted, parked, grant, ui, disk, reload, decided, spent,
                 always, faults>>

\* Five minutes pass for a request.
Expire(id) ==
  /\ id \in DOMAIN pending /\ ~pending[id].expired
  /\ pending' = [pending EXCEPT ![id].expired = TRUE]
  /\ UNCHANGED <<rules, granted, parked, call, grant, ui, disk, reload, decided, spent,
                 always, faults>>

-----------------------------------------------------------------------------
(* permission_grant *)

\* lookupRequest: an unknown or expired request is refused.
lookupRequest(d) ==
  /\ grant[d].at = "idle"
  /\ ~Overlap => ui.at = "idle" /\ ~reload
  /\ decided.all < MaxDecisions
  /\ decided' = [decided EXCEPT !.all = @ + 1]
  /\ \E id \in DOMAIN pending, decision \in {"once", "always", "deny"} :
       IF pending[id].expired
         THEN pending' = Without(pending, {id}) /\ UNCHANGED grant
         ELSE /\ grant' = [grant EXCEPT ![d] =
                   [@ EXCEPT !.at = decision, !.id = id, !.req = pending[id]]]
              /\ UNCHANGED pending
  /\ UNCHANGED <<rules, granted, parked, call, ui, disk, reload, spent, always, faults>>

\* permissionGrant, after the lookup: what it found may be gone by now.
permissionGrant(d) ==
  LET id == grant[d].id
  IN /\ \/ /\ grant[d].at = "once"
           /\ granted' = granted \cup {id}
           /\ decided' = [decided EXCEPT !.once = @ + 1]
           /\ grant' = [grant EXCEPT ![d] = NoGrant]
           /\ UNCHANGED <<rules, pending>>
        \/ /\ grant[d].at = "always"
           /\ rules' = rules \cup {PermissionRuleForRequest(grant[d].req)}
           /\ pending' = Without(pending, {id})
           /\ grant' = [grant EXCEPT ![d].at = "persist"]
           /\ UNCHANGED <<granted, decided>>
        \/ /\ grant[d].at = "deny"
           /\ pending' = Without(pending, {id})
           /\ granted' = granted \ {id}
           /\ grant' = [grant EXCEPT ![d] = NoGrant]
           /\ UNCHANGED <<rules, decided>>
     /\ UNCHANGED <<parked, call, ui, disk, reload, spent, always, faults>>

-----------------------------------------------------------------------------
(* The config file.  A name is bound to an inode; Save truncates or creates *)
(* the .tmp, writes it and renames it, and keeps its inode open meanwhile.  *)

Named(name) == disk.data[disk.names[name]]

\* clientconfig.Load, and loadConfigFile, which turns an error into an empty
\* configuration.
loadConfigFile == IF Named("file") = Torn THEN NoConfig ELSE Named("file")

\* The persister main.go installs: the rules, read after the unlock, in the
\* file as it is then.
persistRules(d) ==
  /\ grant[d].at = "persist"
  /\ grant' = [grant EXCEPT ![d].at = "open", ![d].cfg = [loadConfigFile EXCEPT !.rules = rules]]
  /\ UNCHANGED <<rules, pending, granted, parked, call, ui, disk, reload, decided, spent,
                 always, faults>>

Saver(s) == IF s = "ui" THEN ui ELSE grant[s]
SaverDone(s) ==
  IF s = "ui" THEN ui' = [NoForm EXCEPT !.saves = ui.saves] /\ UNCHANGED grant
              ELSE grant' = [grant EXCEPT ![s] = NoGrant] /\ UNCHANGED ui
SaverAt(s, at, fd) ==
  IF s = "ui" THEN ui' = [ui EXCEPT !.at = at, !.fd = fd] /\ UNCHANGED grant
              ELSE grant' = [grant EXCEPT ![s].at = at, ![s].fd = fd] /\ UNCHANGED ui

\* Save: os.WriteFile opens and truncates the .tmp ...
SaveOpen(s) ==
  /\ Saver(s).at = "open"
  /\ LET i == IF disk.names["tmp"] # 0 THEN disk.names["tmp"]
              ELSE CHOOSE j \in DOMAIN disk.data :
                     j # disk.names["file"] /\ \A o \in Savers : Saver(o).fd # j
     IN
       /\ disk' = [disk EXCEPT !.data[i] = Torn, !.names["tmp"] = i]
       /\ SaverAt(s, "write", i)
  /\ UNCHANGED <<rules, pending, granted, parked, call, reload, decided, spent, always, faults>>

\* ... and writes it: over what another Save wrote meanwhile, a mixture may
\* be left.
SaveWrite(s) ==
  /\ Saver(s).at = "write"
  /\ \E data \in {Saver(s).cfg, Torn} :
       /\ data = Torn => disk.data[Saver(s).fd] # Torn
       /\ disk' = [disk EXCEPT !.data[Saver(s).fd] = data]
  /\ SaverAt(s, "rename", 0)
  /\ UNCHANGED <<rules, pending, granted, parked, call, reload, decided, spent, always, faults>>

\* ... and os.Rename, which fails when another Save renamed the .tmp first.
\* The end of a UI save signals the reload; the end of a grant is its answer.
SaveRename(s) ==
  /\ Saver(s).at = "rename"
  /\ LET done == disk.names["tmp"] # 0
     IN /\ disk' = IF done THEN [disk EXCEPT !.names = [file |-> disk.names["tmp"], tmp |-> 0],
                                                !.data[disk.names["file"]] = Torn]
                           ELSE disk
        /\ reload' = (reload \/ (s = "ui" /\ done))
        /\ always' = CASE ~done -> always
                       [] s = "ui" ->
                            {c \in always : \E r \in ui.cfg.rules :
                               r.tool = c.tool /\ ruleMatches(r.pattern, c.command)}
                       [] OTHER -> always \cup {[tool |-> grant[s].req.tool,
                                                 command |-> grant[s].req.command]}
  /\ SaverDone(s)
  /\ UNCHANGED <<rules, pending, granted, parked, call, decided, spent, faults>>

\* A write or the rename fails: a grant only logs it, a UI save reports it.
SaveFails(s) ==
  /\ Saver(s).at \in {"open", "write", "rename"}
  /\ Events < MaxEvents
  /\ faults' = faults + 1
  /\ SaverDone(s)
  /\ UNCHANGED <<rules, pending, granted, parked, call, disk, reload, decided, spent, always>>

-----------------------------------------------------------------------------
(* The configuration UI and the main loop *)

\* The operator opens the form ...
LoadConfig ==
  /\ ui.at = "idle" /\ ~ui.open
  /\ Events < MaxEvents
  /\ ui' = [ui EXCEPT !.open = TRUE, !.form = loadConfigFile]
  /\ UNCHANGED <<rules, pending, granted, parked, call, grant, disk, reload, decided, spent,
                 always, faults>>

\* ... and saves it: the rules of the form replace the file's, and a form
\* without a valid workspace is refused.
SaveConfig ==
  /\ ui.at = "idle" /\ ui.open
  /\ Events < MaxEvents
  /\ ~Overlap => \A d \in Deciders : grant[d].at = "idle"
  /\ \E workspaces \in 0 .. 2 :
       LET cfg == [loadConfigFile EXCEPT !.rules = ui.form.rules, !.workspaces = workspaces]
       IN ui' = IF workspaces = 0 THEN [NoForm EXCEPT !.saves = ui.saves + 1]
                ELSE [NoForm EXCEPT !.at = "open", !.cfg = cfg, !.saves = ui.saves + 1]
  /\ UNCHANGED <<rules, pending, granted, parked, call, grant, disk, reload, decided, spent,
                 always, faults>>

SetPermissions == rules' = loadConfigFile.rules \cup EnvRules

\* The reload case of main: buildRuntime refuses a configuration without
\* workspaces and the previous runtime stays.
Reload ==
  /\ reload
  /\ reload' = FALSE
  /\ IF loadConfigFile.workspaces = 0 THEN UNCHANGED rules ELSE SetPermissions
  /\ UNCHANGED <<pending, granted, parked, call, grant, ui, disk, decided, spent, always, faults>>

\* The process ends at any point and is started again; it does not start
\* with a file that does not parse.
Restart ==
  /\ Events < MaxEvents
  /\ faults' = faults + 1
  /\ Named("file") # Torn
  /\ SetPermissions
  /\ pending' = Without(pending, DOMAIN pending) /\ granted' = {}
  /\ call' = [p \in Callers |-> NoCall]
  /\ grant' = [d \in Deciders |-> NoGrant]
  /\ ui' = [NoForm EXCEPT !.saves = ui.saves]
  /\ reload' = FALSE
  /\ UNCHANGED <<parked, disk, decided, spent, always>>

-----------------------------------------------------------------------------
PermissionsInit ==
  /\ rules = FileRules \cup EnvRules
  /\ pending = [id \in {} |-> NoGrant.req]
  /\ granted = {} /\ parked = 0
  /\ call = [p \in Callers |-> NoCall]
  /\ grant = [d \in Deciders |-> NoGrant]
  /\ ui = NoForm
  /\ disk = [data |-> [i \in 1 .. Cardinality(Savers) + 2 |->
                         IF i = 1 THEN [rules |-> FileRules, workspaces |-> 1] ELSE Torn],
             names |-> [file |-> 1, tmp |-> 0]]
  /\ reload = FALSE
  /\ decided = [once |-> 0, all |-> 0] /\ spent = 0
  /\ always = {}
  /\ faults = 0

PermissionsNext ==
  \/ \E p \in Callers : \/ Call(p) \/ consumeGrantOnce(p) \/ pendingRequest(p)
                        \/ parkRequest(p) \/ Exec(p)
  \/ \E id \in DOMAIN pending : Expire(id)
  \/ \E d \in Deciders : lookupRequest(d) \/ permissionGrant(d) \/ persistRules(d)
  \/ \E s \in Savers : SaveOpen(s) \/ SaveWrite(s) \/ SaveRename(s) \/ SaveFails(s)
  \/ LoadConfig \/ SaveConfig \/ Reload \/ Restart

PermissionsSpec == PermissionsInit /\ [][PermissionsNext]_permissionsVars
-----------------------------------------------------------------------------
(* Properties *)

PermissionsTypeOK ==
  /\ granted \subseteq 1 .. MaxEvents
  /\ DOMAIN pending \subseteq 1 .. MaxEvents
  /\ \A r \in rules : r.effect \in {"allow", "deny"} /\ r.tool \in {"", "bash", "agent"}
  /\ \A p \in Callers : call[p].at \in {"idle", "grant", "find", "park", "run", "asked"}
  /\ \A s \in Savers : Saver(s).fd \in 0 .. Len(disk.data)
  /\ disk.names.file \in DOMAIN disk.data

\* One "once" decision of permission_grant releases at most one run: a
\* decision repeated, a request denied, expired or released by somebody else
\* between the lookup and the grant, and two calls of the same command at
\* once never make two runs of it.
OneRunPerGrant == spent <= decided.once

\* A blocked call that is retried reuses its request (pendingBashRequest): at
\* no time are there more live requests for a command than goroutines that
\* could have looked for one before any was parked.
RequestsBounded ==
  \A c \in Calls :
    Cardinality({id \in DOMAIN pending : /\ pending[id].tool = c.tool
                                         /\ pending[id].command = c.command
                                         /\ ~pending[id].expired}) <= Cardinality(Callers)

\* A bash call is not blocked again on a request that was granted before the
\* call began and is granted still.
BashOnceReleases ==
  \A p \in Callers :
    call[p].at = "asked" /\ call[p].tool = "bash" =>
      call[p].due \cap granted \cap DOMAIN pending = {}

\* The same for any call: "once" releases the blocked call.  The gate of the
\* agent tool does not look for grants.
OnceReleases ==
  \A p \in Callers :
    call[p].at = "asked" => call[p].due \cap granted \cap DOMAIN pending = {}

\* The command whose request was answered "always", and saved, is not asked
\* about again, across reloads and restarts, until the operator saves a form
\* without the rule.
AlwaysKept ==
  \A c \in always : ~reload => permissionDecision(c.tool, c.command) # "ask"

\* Save replaces the config file in one step: whenever another goroutine, or
\* the next start of the client, reads the file, it is whole.
ConfigWhole == Named("file") # Torn
=============================================================================
