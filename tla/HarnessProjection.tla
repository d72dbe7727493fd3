-------------------------- MODULE HarnessProjection --------------------------
(***************************************************************************)
(* The presentation projection of internal/agentops: how the Codex, the    *)
(* OMP and the OpenCode adapter turn a harness's native records into       *)
(* session entries, from the live stream (NormalizeLive) and from the      *)
(* durable session (parse...Durable...), and how runSubagent picks the     *)
(* final message out of the live stream (last...Message).                  *)
(*                                                                         *)
(* A conversation is a sequence of steps the agent takes.  Live and        *)
(* Durable say which native records a harness emits for a step; they are   *)
(* read off the structs, comments and tests of the adapters.  A text is a  *)
(* sequence of the non-blank pieces that strings.Join puts together.       *)
(***************************************************************************)
EXTENDS Integers, Sequences, SequencesExt

CONSTANT MaxSteps   \* bound on the length of a conversation

VARIABLES agent,    \* the harness
          said      \* the steps taken

Said == "said"
Thought == "thought"
Blank == ""
Part(type, text) == [type |-> type, text |-> text]
Entry(kind, role, text, status, call) ==
  [kind |-> kind, role |-> role, text |-> text, status |-> status, call |-> call]

Texts(parts, types) ==
  LET kept == SelectSeq(parts, LAMBDA p : p.type \in types /\ p.text # Blank)
  IN [i \in DOMAIN kept |-> kept[i].text]
firstNonEmptyString(a, b) == IF a # "" THEN a ELSE b

-----------------------------------------------------------------------------
(* Codex *)

codexContentTexts(parts) == Texts(parts, {"input_text", "output_text", "text"})

\* A string, a list of content parts, or null.
codexJSONText(raw) ==
  CASE raw.shape = "null" -> <<>>
    [] raw.shape = "string" -> raw.text
    [] raw.shape = "parts" -> codexContentTexts(raw.parts)

normalizeCodexLiveToolCall(item) ==
  IF item.type \in {"command_execution", "mcp_tool_call"}
    THEN <<Entry("tool_call", "assistant", <<>>,
                 firstNonEmptyString(item.status, "started"), item.id)>>
    ELSE <<>>

\* A non-zero exit code, or an error, overrides the status.
normalizeCodexLiveToolResult(item) ==
  LET status == firstNonEmptyString(item.status, "completed")
      error == item.error.shape # "null"
  IN CASE item.type = "command_execution" ->
            <<Entry("tool_result", "tool", item.output.text,
                    IF item.exit # 0 THEN "error" ELSE status, item.id)>>
       [] item.type = "mcp_tool_call" ->
            <<Entry("tool_result", "tool",
                    IF error /\ codexJSONText(item.output) = <<>>
                      THEN codexJSONText(item.error) ELSE codexJSONText(item.output),
                    IF error THEN "error" ELSE status, item.id)>>
       [] OTHER -> <<>>

codexNormalizeLive(ev) ==
  CASE ev.type = "thread.started" -> <<Entry("runtime", "", <<>>, "started", "")>>
    [] ev.type = "turn.started" -> <<Entry("activity", "", <<>>, "started", "")>>
    [] ev.type = "item.started" -> normalizeCodexLiveToolCall(ev.item)
    [] ev.type = "item.completed" /\ ev.item.type = "agent_message" ->
         IF ev.item.text = <<>> THEN <<>>
         ELSE <<Entry("message", "assistant", ev.item.text, "", "")>>
    [] ev.type = "item.completed" /\ ev.item.type # "agent_message" ->
         normalizeCodexLiveToolResult(ev.item)
    [] ev.type = "turn.completed" -> <<Entry("runtime", "", <<>>, "completed", "")>>
    [] ev.type \in {"turn.failed", "error"} ->
         <<Entry("error", "", codexJSONText(ev.error), "error", "")>>
    [] OTHER -> <<>>

normalizeCodexResponseItem(item) ==
  CASE item.type = "message" ->
         IF item.role \notin {"user", "assistant"} \/ codexContentTexts(item.parts) = <<>>
           THEN <<>>
           ELSE <<Entry("message", item.role, codexContentTexts(item.parts), "", "")>>
    [] item.type = "function_call" ->
         <<Entry("tool_call", "assistant", <<>>, "requested", item.id)>>
    [] item.type = "function_call_output" ->
         <<Entry("tool_result", "tool", codexJSONText(item.output), "completed", item.id)>>
    [] item.type = "custom_tool_call" ->
         <<Entry("tool_call", "assistant", <<>>,
                 firstNonEmptyString(item.status, "requested"), item.id)>>
    [] item.type = "custom_tool_call_output" ->
         <<Entry("tool_result", "tool", codexJSONText(item.output),
                 firstNonEmptyString(item.status, "completed"), item.id)>>
    [] OTHER -> <<>>

parseCodexDurableRecord(env) ==
  CASE env.type = "response_item" -> normalizeCodexResponseItem(env.item)
    [] env.type = "event_msg" /\ env.msg = "task_started" ->
         <<Entry("activity", "", <<>>, "started", "")>>
    [] env.type = "event_msg" /\ env.msg = "task_complete" ->
         <<Entry("activity", "", <<>>, "completed", "")>>
    [] env.type = "event_msg" /\ env.msg = "error" ->
         <<Entry("error", "", <<Said>>, "error", "")>>
    [] OTHER -> <<>>

lastCodexMessage(events) ==
  LET finals == SelectSeq(events, LAMBDA ev :
                  /\ ev.type = "item.completed" /\ ev.item.type = "agent_message"
                  /\ ev.item.text # <<>>)
  IN IF finals = <<>> THEN <<>> ELSE finals[Len(finals)].item.text

-----------------------------------------------------------------------------
(* OMP *)

ompTextContent(parts) == Texts(parts, {"text"})

\* The calls of an assistant message follow its text; its error counts only
\* when there is neither.
normalizeOMPMessage(msg) ==
  LET text == ompTextContent(msg.parts)
      calls == SelectSeq(msg.parts, LAMBDA p : p.type = "toolCall")
      shown == (IF text = <<>> THEN <<>> ELSE <<Entry("message", msg.role, text, "", "")>>)
               \o [i \in DOMAIN calls |->
                     Entry("tool_call", "assistant", <<>>, "requested", calls[i].text)]
  IN CASE msg.role = "user" ->
            IF text = <<>> THEN <<>> ELSE <<Entry("message", "user", text, "", "")>>
       [] msg.role = "assistant" ->
            IF shown = <<>> /\ msg.error # <<>>
              THEN <<Entry("error", "assistant", msg.error, "error", "")>> ELSE shown
       [] msg.role = "toolresult" ->
            <<Entry("tool_result", "tool", text,
                    IF msg.error # <<>> THEN "error" ELSE "completed", msg.id)>>
       [] OTHER -> <<>>

normalizeOMPToolStart(data) == <<Entry("activity", "", <<>>, "started", data.id)>>

ompNormalizeLive(env) ==
  CASE env.type \in {"message_end", "turn_end"} -> normalizeOMPMessage(env.message)
    [] env.type = "tool_execution_start" -> normalizeOMPToolStart(env.data)
    [] OTHER -> <<>>

parseOMPDurableRecord(env) ==
  CASE env.type = "message" -> normalizeOMPMessage(env.message)
    [] env.type = "custom" -> normalizeOMPToolStart(env.data)
    [] OTHER -> <<>>

assistantMessageText(msg) ==
  IF msg.role # "assistant" THEN <<>> ELSE ompTextContent(msg.parts)

\* The texts of the events in order; agent_end repeats every message.
lastOMPMessage(events) ==
  LET msgs(ev) == CASE ev.type \in {"message_end", "turn_end"} -> <<ev.message>>
                    [] ev.type = "agent_end" -> ev.messages
                    [] OTHER -> <<>>
      all == FlattenSeq([i \in DOMAIN events |-> msgs(events[i])])
      texts == SelectSeq(all, LAMBDA m : assistantMessageText(m) # <<>>)
  IN IF texts = <<>> THEN <<>> ELSE assistantMessageText(texts[Len(texts)])

-----------------------------------------------------------------------------
(* OpenCode *)

openCodeToolTerminal(status) ==
  status \in {"completed", "success", "error", "failed", "cancelled"}

\* A finished tool part is a call and its result.
normalizeOpenCodePart(p, role) ==
  LET as == IF role = "" THEN "assistant" ELSE role
      status == IF p.status = "" THEN "requested" ELSE p.status
      call == <<Entry("tool_call", "assistant", <<>>, status, p.id)>>
  IN CASE p.type = "text" ->
            IF p.synthetic \/ p.text = Blank \/ as \notin {"user", "assistant"} THEN <<>>
            ELSE <<Entry("message", as, <<p.text>>, "", "")>>
       [] p.type = "tool" ->
            IF ~openCodeToolTerminal(status) THEN call
            ELSE call \o <<Entry("tool_result", "tool", <<p.text>>,
                                 IF status = "success" THEN "completed" ELSE status, p.id)>>
       [] OTHER -> <<>>

openCodeNormalizeLive(env) == normalizeOpenCodePart(env.part, "assistant")
\* Mutant: the role of the message is not joined to the part.
parseOpenCodeDurablePart_NoRole(row) == normalizeOpenCodePart(row.part, "")

parseOpenCodeDurablePart(row) == normalizeOpenCodePart(row.part, row.role)

lastAssistantMessage(events) ==
  LET finals == SelectSeq(events, LAMBDA ev :
        ev.type = "text" /\ ev.part.type = "text" /\ ev.part.text # Blank)
  IN IF finals = <<>> THEN <<>> ELSE <<finals[Len(finals)].part.text>>

-----------------------------------------------------------------------------
(* The harnesses, which are not part of the repository *)

Texted == {"a", "b"}
Steps == {[do |-> "say", text |-> t] : t \in Texted}
         \cup [do : {"user", "think", "thinkSay", "blank", "call", "result", "broken",
                     "fail", "start", "done"}, text : {"a"}]

Null == [shape |-> "null"]
Str(t) == [shape |-> "string", text |-> <<t>>]
Item(type, text) == [type |-> type, text |-> text, id |-> "c", status |-> "", exit |-> 0,
                     output |-> Null, error |-> Null]
Completed(item) == [type |-> "item.completed", item |-> item]

codexLive(s) ==
  CASE s.do = "say" -> <<Completed(Item("agent_message", <<s.text>>))>>
    [] s.do = "blank" -> <<Completed(Item("agent_message", <<>>))>>
    [] s.do = "think" -> <<Completed(Item("reasoning", <<Thought>>))>>
    [] s.do = "thinkSay" -> <<Completed(Item("reasoning", <<Thought>>)),
                              Completed(Item("agent_message", <<s.text>>))>>
    [] s.do = "call" -> <<[type |-> "item.started", item |-> Item("command_execution", <<>>)]>>
    [] s.do = "result" -> <<Completed([Item("command_execution", <<>>) EXCEPT !.output = Str("out")])>>
    [] s.do = "broken" -> <<Completed([Item("mcp_tool_call", <<>>) EXCEPT !.error = Str("why")])>>
    [] s.do = "fail" -> <<[type |-> "turn.failed", error |-> Str("why")]>>
    [] s.do = "start" -> <<[type |-> "thread.started"], [type |-> "turn.started"]>>
    [] s.do = "done" -> <<[type |-> "turn.completed"]>>
    [] OTHER -> <<>>

Response(type, role, parts, output, status) ==
  <<[type |-> "response_item",
     item |-> [type |-> type, role |-> role, parts |-> parts, id |-> "c",
               output |-> output, status |-> status]]>>
codexDurable(s) ==
  CASE s.do = "user" -> Response("message", "user", <<Part("input_text", s.text)>>, Null, "")
    [] s.do = "say" -> Response("message", "assistant", <<Part("output_text", s.text)>>, Null, "")
    [] s.do = "blank" -> Response("message", "assistant", <<Part("output_text", Blank)>>, Null, "")
    [] s.do = "think" -> Response("reasoning", "", <<Part("summary_text", Thought)>>, Null, "")
    [] s.do = "thinkSay" ->
         Response("message", "assistant",
                  <<Part("reasoning_text", Thought), Part("output_text", s.text)>>, Null, "")
    [] s.do = "call" -> Response("function_call", "", <<>>, Null, "")
    [] s.do = "result" -> Response("function_call_output", "", <<>>,
                            [shape |-> "parts", parts |-> <<Part("output_text", "out")>>], "")
    [] s.do = "broken" -> Response("custom_tool_call_output", "", <<>>, Str("why"), "failed")
    [] s.do = "fail" -> <<[type |-> "event_msg", msg |-> "error"]>>
    [] s.do = "start" -> <<[type |-> "session_meta"], [type |-> "event_msg", msg |-> "task_started"]>>
    [] s.do = "done" -> <<[type |-> "event_msg", msg |-> "task_complete"]>>

\* OMP writes the same message to the stream and to the session.
ompMessages(s) ==
  LET Message(role, parts, error) ==
        <<[role |-> role, parts |-> parts, error |-> error, id |-> "c"]>>
  IN CASE s.do = "user" -> Message("user", <<Part("text", s.text)>>, <<>>)
       [] s.do = "say" -> Message("assistant", <<Part("text", s.text)>>, <<>>)
       [] s.do = "blank" -> Message("assistant", <<Part("text", Blank)>>, <<>>)
       [] s.do = "think" -> Message("assistant", <<Part("thinking", Thought)>>, <<>>)
       [] s.do = "thinkSay" ->
            Message("assistant", <<Part("thinking", Thought), Part("text", s.text)>>, <<>>)
       [] s.do = "call" ->
            Message("assistant", <<Part("text", s.text), Part("toolCall", "c")>>, <<>>)
       [] s.do = "result" -> Message("toolresult", <<Part("text", "out")>>, <<>>)
       [] s.do = "broken" -> Message("toolresult", <<Part("text", "out")>>, <<"why">>)
       [] s.do = "fail" -> Message("assistant", <<>>, <<"why">>)
       [] OTHER -> <<>>
ToolStart(type) == [type |-> type, data |-> [id |-> "c"]]
ompLive(s) ==
  LET of(type) == [i \in DOMAIN ompMessages(s) |->
                     [type |-> type, message |-> ompMessages(s)[i]]]
  IN of("message_end") \o (IF s.do = "call" THEN <<ToolStart("tool_execution_start")>> ELSE <<>>)
     \o (IF s.do \in {"say", "thinkSay"} THEN of("turn_end") ELSE <<>>)
ompDurable(s) ==
  [i \in DOMAIN ompMessages(s) |-> [type |-> "message", message |-> ompMessages(s)[i]]]
  \o (IF s.do = "call" THEN <<ToolStart("custom")>> ELSE <<>>)
ompEnd(steps) ==
  <<[type |-> "agent_end",
     messages |-> FlattenSeq([i \in DOMAIN steps |-> ompMessages(steps[i])])]>>

\* A tool part is written when it finishes; a user message carries parts
\* that OpenCode itself put in.
openCodeParts(s) ==
  LET P(type, text, status, synthetic) ==
        [type |-> type, text |-> text, status |-> status, synthetic |-> synthetic, id |-> "c"]
  IN CASE s.do = "user" -> <<P("text", s.text, "", FALSE), P("text", Thought, "", TRUE)>>
       [] s.do = "say" -> <<P("text", s.text, "", FALSE)>>
       [] s.do = "blank" -> <<P("text", Blank, "", FALSE)>>
       [] s.do = "think" -> <<P("reasoning", Thought, "", FALSE)>>
       [] s.do = "thinkSay" -> <<P("reasoning", Thought, "", FALSE), P("text", s.text, "", FALSE)>>
       [] s.do = "call" -> <<P("tool", "out", "running", FALSE)>>
       [] s.do = "result" -> <<P("tool", "out", "success", FALSE)>>
       [] s.do = "broken" -> <<P("tool", "why", "error", FALSE)>>
       [] OTHER -> <<>>
openCodeLive(s) ==
  IF s.do = "user" THEN <<>>
  ELSE [i \in DOMAIN openCodeParts(s) |->
          [type |-> openCodeParts(s)[i].type, part |-> openCodeParts(s)[i]]]
openCodeDurable(s) ==
  [i \in DOMAIN openCodeParts(s) |->
     [part |-> openCodeParts(s)[i],
      role |-> IF s.do = "user" THEN "user" ELSE "assistant"]]

-----------------------------------------------------------------------------
(* A conversation, and what the two projections make of it *)

Over(steps, F(_)) == FlattenSeq([i \in DOMAIN steps |-> F(steps[i])])
LiveRecords ==
  CASE agent = "codex" -> Over(said, codexLive)
    [] agent = "omp" -> Over(said, ompLive) \o ompEnd(said)
    [] agent = "opencode" -> Over(said, openCodeLive)
LiveEntries ==
  CASE agent = "codex" -> Over(LiveRecords, codexNormalizeLive)
    [] agent = "omp" -> Over(LiveRecords, ompNormalizeLive)
    [] agent = "opencode" -> Over(LiveRecords, openCodeNormalizeLive)
DurableEntries ==
  CASE agent = "codex" -> Over(Over(said, codexDurable), parseCodexDurableRecord)
    [] agent = "omp" -> Over(Over(said, ompDurable), parseOMPDurableRecord)
    [] agent = "opencode" -> Over(Over(said, openCodeDurable), parseOpenCodeDurablePart)
FinalMessage ==
  CASE agent = "codex" -> lastCodexMessage(LiveRecords)
    [] agent = "omp" -> lastOMPMessage(LiveRecords)
    [] agent = "opencode" -> lastAssistantMessage(LiveRecords)

TalkInit == agent \in {"codex", "omp", "opencode"} /\ said = <<>>
Talk ==
  /\ Len(said) < MaxSteps
  /\ \E s \in Steps :
       /\ s.do \in {"result", "broken"} => \E i \in DOMAIN said : said[i].do = "call"
       /\ said' = Append(said, s)
  /\ UNCHANGED agent
-----------------------------------------------------------------------------
(* Properties *)

\* What the agent said, as a list of texts with no immediate repetition.
Spoken(entries) ==
  LET ms == SelectSeq(entries, LAMBDA e : e.kind = "message" /\ e.role = "assistant")
      new == SelectSeq([i \in DOMAIN ms |-> i],
                       LAMBDA i : i = 1 \/ ms[i].text # ms[i - 1].text)
  IN [i \in DOMAIN new |-> ms[new[i]].text]

\* The live stream and the durable session of a conversation show the same
\* assistant messages in the same order, except that OMP's stream may show
\* one twice in a row (message_end and turn_end carry the same message).
SameConversation == Spoken(LiveEntries) = Spoken(DurableEntries)

\* The final message runSubagent returns is the last assistant message the
\* durable session shows, whatever came after it.
FinalIsLastShown ==
  FinalMessage = IF Spoken(DurableEntries) = <<>> THEN <<>>
                 ELSE Spoken(DurableEntries)[Len(Spoken(DurableEntries))]

\* No text an agent only thought, and no text OpenCode put into a message by
\* itself, is shown as an entry, live or durable, although it shares a
\* message with text that is shown.
ReasoningHidden ==
  \A e \in ToSet(LiveEntries) \cup ToSet(DurableEntries) : Thought \notin ToSet(e.text)

\* A tool result is shown only after the call it answers, and a failed one
\* never loses its reason.
ResultsExplained ==
  \A i \in DOMAIN DurableEntries :
    LET e == DurableEntries[i]
    IN e.kind = "tool_result" =>
         /\ \E j \in 1 .. i - 1 : /\ DurableEntries[j].kind = "tool_call"
                                  /\ DurableEntries[j].call = e.call
         /\ e.text # <<>>
=============================================================================
