---------------------------- MODULE Conversation ----------------------------
(***************************************************************************)
(* A conversation through ai.ChatModel: what each dialect makes of the     *)
(* caller's messages, what the model comes to see of them, and what of its *)
(* answers comes back.                                                     *)
(*                                                                         *)
(* The caller keeps a history of ai.Messages and runs the tools the model  *)
(* asks for.  It sends its whole history with every request, or chains the *)
(* responses of a server that stores them: with its new messages only, or  *)
(* with its whole history all the same.  It may go on with another         *)
(* provider at any request, repeats one whose answer is lost, and after    *)
(* ErrInvalidResponseID clears its chain, as ai/errors.go 29-30 asks it    *)
(* to.  The caller, the models and their servers are external.             *)
(*                                                                         *)
(* Texts are numbered in the order in which they are written: a "thing" is *)
(* a text, a tool call or a tool's result, and Content is the things that  *)
(* it is made of.                                                          *)
(*                                                                         *)
(* TalkInit, TalkNext and TalkSpec are named so that the proofs can extend *)
(* this module and Completion.                                             *)
(***************************************************************************)
EXTENDS Integers, SequencesExt, ChatOptions

CONSTANTS Outputs,   \* what a model may answer: sequences of "text" and "call"
          Presets,   \* the presets a caller may use
          MaxTurns,  \* bound: answers
          MaxSystem, \* bound: system messages of the history
          MaxFaults  \* bound: lost answers and lost responses

ASSUME TurnsAssumption == MaxTurns \in Nat /\ MaxSystem \in Nat /\ MaxFaults \in Nat
ASSUME OutputsAssumption == Outputs \subseteq Seq({"text", "call"})

VARIABLES
  \* The caller.
  style,    \* "whole", or how it chains: with "new" messages, or with "all"
  preset,
  history,  \* its []ai.Message
  known,    \* how much of it the response it chains to includes
  rid,      \* the ResponseID it has, or Zero
  place,    \* "talk", "asked"
  req,      \* the request that the server has
  stored,   \* what led to the response, as the server of "responses" has it: a function
            \* from no ResponseID or one, that of an answer the caller may chain to
  \* Ghosts.
  said,     \* every thing, in order: what it is, and where it is in the history
  turns, faults

caller == <<style, preset>>
talkVars == <<caller, history, known, rid, place, req, stored, said, turns, faults>>

\* Of the providers it may turn to.
Dialects == {"completions", "messages", "responses"}

Message(role, content, calls, id) ==
  [Role |-> role, Content |-> content, ToolCalls |-> calls, ToolCallID |-> id]
Item(kind, things) == [kind |-> kind, things |-> things]
Request(instructions, items, prev) ==
  [instructions |-> instructions, items |-> items, prev |-> prev]

ThingsOf(items) == FlattenSeq([i \in DOMAIN items |-> items[i].things])
Flat(messages, Of(_)) == FlattenSeq([i \in DOMAIN messages |-> Of(messages[i])])

(***************************************************************************)
(* buildRequest, in each dialect.                                          *)
(***************************************************************************)
IsSystem(m) == m.Role = "system"
Setting(o)  == IF o["SystemMsg"] = Zero THEN <<>> ELSE <<o["SystemMsg"]>>
Calls(m)    == [i \in DOMAIN m.ToolCalls |-> Item("call", <<m.ToolCalls[i]>>)]
Text(m)     == IF m.Content = <<>> THEN <<>> ELSE <<Item(m.Role, m.Content)>>

\* openai, ollama and openrouter: a message for each, the system's where they are.
CompletionsItems(m) == <<Item(m.Role, m.Content)>> \o Calls(m)

CompletionsRequest(messages, o) ==
  Request(Setting(o), Flat(messages, CompletionsItems), Zero)

\* Fault: a message with tool calls loses its text.
MessagesItemsBare(m) ==
  IF IsSystem(m) THEN <<>>
  ELSE IF m.Role = "tool" THEN <<Item("tool", m.Content)>>
  ELSE IF m.ToolCalls # <<>> THEN Calls(m) ELSE <<Item(m.Role, m.Content)>>

\* anthropic: convertMessage, but for the system messages.
MessagesItems(m) ==
  IF IsSystem(m) THEN <<>>
  ELSE IF m.Role = "tool" THEN <<Item("tool", m.Content)>>
  ELSE IF m.ToolCalls # <<>> THEN Text(m) \o Calls(m) ELSE <<Item(m.Role, m.Content)>>

\* Of the system messages the first, when SystemMsg is empty.
MessagesRequest(messages, o) ==
  LET first == SelectInSeq(messages, IsSystem) IN
  Request(IF Setting(o) # <<>> THEN Setting(o)
          ELSE IF first = 0 THEN <<>> ELSE messages[first].Content,
          Flat(messages, MessagesItems), Zero)

\* Fault: calls are sent to a server that has them.
ResponsesItemsAgain(m, prev) ==
  IF m.Role = "assistant" /\ m.ToolCalls # <<>> THEN Text(m) \o Calls(m)
  ELSE IF m.Role = "system" THEN <<>> ELSE <<Item(m.Role, m.Content)>>

\* openairesponses.  A server that chains has the messages with tool calls.
ResponsesItems(m, prev) ==
  IF m.Role = "assistant" /\ m.ToolCalls # <<>>
  THEN IF prev # Zero THEN <<>> ELSE Text(m) \o Calls(m)
  ELSE IF m.Role = "system" THEN <<>> ELSE <<Item(m.Role, m.Content)>>

\* Fault: a system message takes the place of SystemMsg.
InstructionsLast(messages, o) ==
  LET system == SelectSeq(messages, IsSystem) IN
  IF system = <<>> THEN Setting(o) ELSE system[Len(system)].Content

SystemText(m) == IF IsSystem(m) THEN m.Content ELSE <<>>
Instructions(messages, o) == Setting(o) \o Flat(messages, SystemText)

ResponsesRequest(messages, o) ==
  LET prev == o["PreviousResponseID"]
      ItemsOf(m) == ResponsesItems(m, prev) IN
  Request(Instructions(messages, o), Flat(messages, ItemsOf), prev)

BuildRequest(dialect, messages, o) ==
  CASE dialect = "completions" -> CompletionsRequest(messages, o)
    [] dialect = "messages"    -> MessagesRequest(messages, o)
    [] dialect = "responses"   -> ResponsesRequest(messages, o)

(***************************************************************************)
(* The answer.                                                             *)
(***************************************************************************)
\* convertResponse: one dialect has a ResponseID.
ResponseID(dialect, id) == IF dialect = "responses" THEN id ELSE Zero

\* The texts of the answer are one Content, its calls are ToolCalls; first is the
\* number of its first thing.
ConvertResponse(output, first) ==
  LET Of(kind) == FlattenSeq([i \in DOMAIN output |->
                                IF output[i] = kind THEN <<first + i - 1>> ELSE <<>>]) IN
  Message("assistant", Of("text"), Of("call"), Zero)

\* Fault: a response that is gone is an invalid request like any other.
SentinelInvalid(status, code) ==
  IF status = 400 /\ code = "context_length_exceeded" THEN "ErrContextLengthExceeded"
  ELSE "ErrInvalidRequest"

\* sentinelFor: the codes count with a 400 only.
SentinelFor(status, code) ==
  CASE status = 429 -> "ErrRateLimited"
    [] status \in {401, 403} -> "ErrInvalidAPIKey"
    [] status = 400 /\ code = "context_length_exceeded" -> "ErrContextLengthExceeded"
    [] status = 400 /\ code \in {"invalid_previous_response_id", "previous_response_not_found"} ->
         "ErrInvalidResponseID"
    [] status >= 500 -> "ErrProviderUnavailable"
    [] OTHER -> "ErrInvalidRequest"

(***************************************************************************)
(* The caller.                                                             *)
(***************************************************************************)
NoRequest == [dialect |-> Zero]

TalkInit ==
  /\ style \in {"whole", "new", "all"} /\ preset \in Presets
  /\ history = <<>> /\ known = 0 /\ rid = Zero /\ place = "talk" /\ req = NoRequest
  /\ stored = <<>> /\ said = <<>> /\ turns = 0 /\ faults = 0

\* The calls that wait for their results.
Pending ==
  {n \in DOMAIN said : said[n].kind = "call"} \
  {history[i].ToolCallID : i \in {j \in DOMAIN history : history[j].Role = "tool"}}

\* The caller writes a message with one text of its own.
Write(role, call) ==
  /\ place = "talk"
  /\ history' = Append(history, Message(role, <<Len(said) + 1>>, <<>>, call))
  /\ said' = Append(said, [kind |-> role, of |-> call, at |-> Len(history) + 1])
  /\ UNCHANGED <<caller, known, rid, place, req, stored, turns, faults>>

Fresh == SubSeq(history, known + 1, Len(history))

Say == /\ Pending = {} /\ turns < MaxTurns
       /\ \A i \in DOMAIN Fresh : Fresh[i].Role # "user"
       /\ Write("user", Zero)

Instruct == /\ Pending = {} /\ turns < MaxTurns
            /\ Cardinality({n \in DOMAIN said : said[n].kind = "system"}) < MaxSystem
            /\ Write("system", Zero)

\* Tools that run side by side are ready in any order.
RunTool(call) == call \in Pending /\ Write("tool", call)

\* The preset's options; PreviousResponseID is set in them, as Merge leaves it out.
Ask(dialect) ==
  LET chains == style # "whole" /\ dialect = "responses" /\ rid # Zero
      o == [ToChatOptions(preset) EXCEPT
              !["PreviousResponseID"] = IF chains THEN rid ELSE Zero]
      messages == IF chains /\ style = "new" THEN Fresh ELSE history IN
  /\ place = "talk" /\ Pending = {} /\ turns < MaxTurns
  /\ \E i \in DOMAIN Fresh : Fresh[i].Role # "system"
  /\ req' = [dialect |-> dialect, sent |-> BuildRequest(dialect, messages, o)]
  /\ place' = "asked"
  /\ UNCHANGED <<caller, history, known, rid, stored, said, turns, faults>>

(***************************************************************************)
(* The servers.                                                            *)
(***************************************************************************)
\* What the model sees.
Seen == (IF req.sent.prev = Zero THEN <<>> ELSE stored[req.sent.prev]) \o ThingsOf(req.sent.items)
Instructed == ToSet(req.sent.instructions)
                \cup UNION {ToSet(item.things) :
                            item \in {i \in ToSet(req.sent.items) : i.kind = "system"}}

CanAnswer == place = "asked" /\ (req.sent.prev # Zero => req.sent.prev \in DOMAIN stored)

\* A choice of "completions" has one content, before its tool_calls.
OneMessage(output) == \A i \in DOMAIN output : output[i] = "text" => i = 1

Answer(output) ==
  LET id  == turns + 1
      new == [i \in DOMAIN output |-> Len(said) + i] IN
  /\ CanAnswer
  /\ req.dialect = "completions" => OneMessage(output)
  /\ stored' = IF req.dialect = "responses" /\ style # "whole"
               THEN [i \in {id} |-> Seen \o new] ELSE <<>>
  /\ rid' = IF style = "whole" THEN Zero ELSE ResponseID(req.dialect, id)
  /\ history' = Append(history, ConvertResponse(output, Len(said) + 1))
  /\ said' = said \o [i \in DOMAIN output |->
                        [kind |-> output[i], of |-> Zero, at |-> Len(history) + 1]]
  /\ known' = Len(history) + 1
  /\ turns' = turns + 1 /\ place' = "talk" /\ req' = NoRequest
  /\ UNCHANGED <<caller, faults>>

Fault == faults < MaxFaults /\ faults' = faults + 1

\* The request or its answer is lost: the caller has an error.  What the server may have
\* stored has a ResponseID that nobody knows.
Lose ==
  /\ CanAnswer /\ Fault
  /\ place' = "talk" /\ req' = NoRequest
  /\ UNCHANGED <<caller, history, known, rid, stored, said, turns>>

\* The server does not keep a response for ever.
Expire ==
  /\ stored # <<>> /\ Fault
  /\ stored' = <<>>
  /\ UNCHANGED <<caller, history, known, rid, place, req, said, turns>>

\* The server does not have the response any more and answers 400; the caller clears its
\* chain if it is told so.
Refuse ==
  /\ place = "asked" /\ ~CanAnswer
  /\ place' = "talk" /\ req' = NoRequest
  /\ rid' = IF SentinelFor(400, "previous_response_not_found") = "ErrInvalidResponseID"
            THEN Zero ELSE rid
  /\ UNCHANGED <<caller, history, known, stored, said, turns, faults>>

(***************************************************************************)
(* The specification.                                                      *)
(***************************************************************************)
Asks    == \E dialect \in Dialects : Ask(dialect)
Answers == \E output \in Outputs : Answer(output)

TalkNext == \/ Say \/ Instruct \/ Asks \/ Answers \/ Lose \/ Expire \/ Refuse
        \/ \E call \in DOMAIN said : RunTool(call)

\* A caller that has an error asks again; a server answers.
TalkFairness == WF_talkVars(Asks) /\ WF_talkVars(Answers) /\ WF_talkVars(Refuse)

TalkSpec == TalkInit /\ [][TalkNext]_talkVars /\ TalkFairness

(***************************************************************************)
(* Properties.                                                             *)
(***************************************************************************)
Said(kind) == {n \in DOMAIN said : said[n].kind = kind}

Times(n, seq) == Cardinality({i \in DOMAIN seq : seq[i] = n})

\* Whichever provider a request goes to, and whatever was lost before, the model sees
\* all that was said, in order and once; a caller that chains and sends its whole
\* history has it see texts again, but nothing is missing (model.go 115-120, the
\* three buildRequests, errors.go 29-30).
WholeConversation ==
  CanAnswer => LET seen == Seen IN
         /\ \A n \in DOMAIN said \ Said("system") :
              Times(n, seen) >= 1 /\ (style # "all" => Times(n, seen) = 1)
         /\ style # "all" => \A i \in 2 .. Len(seen) :
                               said[seen[i - 1]].at <= said[seen[i]].at

\* However the conversation got there, a tool call is before the model once, and ahead
\* of any result of it: a server refuses a result without its call, or a call twice
\* (openairesponses/provider.go 402-449, anthropic/provider.go 394-441).
ResultsFindTheirCalls ==
  CanAnswer => LET seen == Seen IN
         /\ \A c \in Said("call") : Times(c, seen) = 1
         /\ \A j \in DOMAIN seen : said[seen[j]].kind = "tool" =>
              \E i \in 1 .. j - 1 : seen[i] = said[seen[j]].of

\* The SystemMsg reaches the model with every request, and so do the system messages
\* the caller has added on the way, except in "messages", which takes one instruction
\* in all, and from a caller that chains with new messages, as a server does not store
\* instructions (openai/provider.go 354-379, anthropic 355-368, openairesponses 378-393).
InstructionsReach ==
  CanAnswer => LET instructed == Instructed IN
         /\ ToSet(Setting(ToChatOptions(preset))) \subseteq instructed
         /\ ~(style = "new" /\ req.sent.prev # Zero) =>
              IF req.dialect = "messages" THEN Said("system") # {} => instructed # {}
              ELSE Said("system") \subseteq instructed

\* Every request is answered in the end, be its answer lost or the response it chains
\* to gone: the caller learns that it is, and begins a new chain with all it has
\* (errors.go 29-30, openairesponses/provider.go 524-543).
EveryTurnIsAnswered ==
  \A t \in 0 .. MaxTurns - 1 : place = "asked" /\ turns = t ~> turns > t
=============================================================================
