----------------------------- MODULE Completion -----------------------------
(***************************************************************************)
(* One call of Chat or ChatStream of the AI providers, from its first      *)
(* request to the last chunk its caller takes:                             *)
(*   "completions"  ai/provider/openai, and ollama and openrouter, which   *)
(*                  wrap it;                                               *)
(*   "messages"     ai/provider/anthropic;                                 *)
(*   "responses"    ai/provider/openairesponses.                           *)
(* Chat repeats a request that is refused for its rate; ChatStream starts  *)
(* a goroutine that turns the server's events into chunks on a bounded     *)
(* channel, which the caller reads for as long as it likes.                *)
(*                                                                         *)
(* The server is external: it may refuse a request, fail, send an error    *)
(* or stop in the middle of a stream; each of its events may be one that   *)
(* does not parse, and tool calls may be mixed.                            *)
(***************************************************************************)
EXTENDS Integers, SequencesExt

CONSTANTS MaxRetries, \* maxRetries of both providers that retry
          Capacity,   \* of the channel
          MaxEvents,  \* bound: events of one stream
          MaxGarbled  \* bound: those of them that do not parse

ASSUME BoundsAssumption == MaxRetries \in Nat /\ Capacity \in Nat \ {0} /\ MaxEvents \in Nat

VARIABLES
  dialect, op,
  \* The call.
  pc,        \* the caller's goroutine, then the stream's
  attempt,
  result,    \* what the call has returned
  bodies,    \* response bodies that are not closed
  out,       \* chunks of the event just read that are not sent yet
  last,      \* the goroutine returns after them
  tool,      \* responses: currentToolCallID, 0 for ""
  chan, closed,
  \* Its caller.
  reader, got,
  \* The server.
  requests, completed, \* ghosts: requests sent, and those the server carried out
  sent,      \* ghost: the events of the stream
  wire,      \* those not read yet
  eof        \* how the stream has ended

call   == <<dialect, op, attempt, result, bodies, requests, completed>>
stream == <<out, last, tool, chan, closed, reader, got, sent, wire, eof>>
vars   == <<pc, call, stream>>

\* Events of a stream, and chunks of the channel.  "id" is the place of the event in
\* the stream; arguments have that of their tool call.  "ok": the event parses.
Kinds  == {"begin", "text", "start", "args", "argsdone", "error", "finish", "end"}
Things == [kind : Kinds, id : 0 .. MaxEvents, ok : BOOLEAN]
Legible(kinds) == [kind : kinds, id : 0 .. MaxEvents, ok : {TRUE}]

NewChunk(kind, id) == [kind |-> kind, id |-> id, ok |-> TRUE]

TypeOK ==
  /\ dialect \in {"completions", "messages", "responses"} /\ op \in {"chat", "stream"}
  /\ pc \in {"send", "limited", "refused", "wait", "decode", "scan", "push", "over"}
  /\ attempt \in 0 .. MaxRetries
  /\ result \in {"none", "ok", "stream", "failed", "rateLimited", "cancelled"}
  /\ bodies \in 0 .. MaxRetries + 1
  /\ out \in Seq(Things) /\ last \in BOOLEAN /\ tool \in 0 .. MaxEvents
  /\ chan \in Seq(Things) /\ Len(chan) <= Capacity /\ closed \in BOOLEAN
  /\ reader \in {"reading", "gone", "done"} /\ got \in Seq(Things)
  /\ requests \in 0 .. MaxRetries + 1 /\ completed \in 0 .. MaxRetries + 1
  /\ sent \in Seq(Things) /\ wire \in Seq(Things) /\ eof \in {"open", "end", "cut"}

Init ==
  /\ dialect \in {"completions", "messages", "responses"} /\ op \in {"chat", "stream"}
  /\ pc = "send" /\ attempt = 0 /\ result = "none" /\ bodies = 0
  /\ out = <<>> /\ last = FALSE /\ tool = 0 /\ chan = <<>> /\ closed = FALSE
  /\ reader = "reading" /\ got = <<>>
  /\ requests = 0 /\ completed = 0 /\ sent = <<>> /\ wire = <<>> /\ eof = "open"

(***************************************************************************)
(* Chat, and the request of ChatStream.                                    *)
(***************************************************************************)
\* The call returns an error; ChatStream has started nothing.
Fails(r) == /\ pc' = "over"
            /\ result' = r

\* Fault: a request that fails is sent again.
SendAgain ==
  /\ pc = "send"
  /\ requests <= MaxRetries
  /\ requests' = requests + 1
  /\ completed' \in {completed, completed + 1}
  /\ UNCHANGED <<pc, dialect, op, attempt, result, bodies, stream>>

\* client.Do fails, by its timeout, its context or the network.  The server may have
\* carried the request out.
SendFails ==
  /\ pc = "send"
  /\ requests' = requests + 1
  /\ completed' \in {completed, completed + 1}
  /\ Fails("failed")
  /\ UNCHANGED <<dialect, op, attempt, bodies, stream>>

\* Statuses other than 200, one for each kind of error that sentinelFor knows.
Statuses == {400, 401, 429, 500}

\* sentinelFor: 429 alone is ErrRateLimited.
Sentinel(status) == IF status = 429 THEN "limited" ELSE "refused"

\* client.Do returns a response: 200, 429, or another status.
Answered ==
  /\ pc = "send"
  /\ requests' = requests + 1
  /\ bodies' = bodies + 1
  /\ \/ /\ completed' = completed + 1
        /\ pc' = IF op = "chat" THEN "decode" ELSE "scan"
        /\ result' = IF op = "chat" THEN "none" ELSE "stream"
     \/ /\ \E status \in Statuses : pc' = Sentinel(status)
        /\ UNCHANGED <<completed, result>>
  /\ UNCHANGED <<dialect, op, attempt, stream>>

\* The body of a 200 is decoded; a body that does not decode is an error.
Decode ==
  /\ pc = "decode"
  /\ bodies' = bodies - 1
  /\ pc' = "over"
  /\ result' \in {"ok", "failed"}
  /\ UNCHANGED <<dialect, op, attempt, requests, completed, stream>>

\* Fault: attempt < maxRetries read as <=.
MayRetryOnceMore == op = "chat" /\ dialect # "responses" /\ attempt <= MaxRetries

\* Who repeats a request, and how often.
MayRetry == op = "chat" /\ dialect # "responses" /\ attempt < MaxRetries

\* parseError and the close of the body.  Only a 429 is tried again.
Refused ==
  /\ pc \in {"limited", "refused"}
  /\ bodies' = bodies - 1
  /\ IF pc = "limited" /\ MayRetry
     THEN pc' = "wait" /\ UNCHANGED result
     ELSE Fails(IF pc = "limited" THEN "rateLimited" ELSE "failed")
  /\ UNCHANGED <<dialect, op, attempt, requests, completed, stream>>

\* The delay, the server's Retry-After or attempt + 1 seconds, is over.
Retry ==
  /\ pc = "wait"
  /\ pc' = "send" /\ attempt' = attempt + 1
  /\ UNCHANGED <<dialect, op, result, bodies, requests, completed, stream>>

\* The context ends during the delay.
Cancelled ==
  /\ pc = "wait"
  /\ Fails("cancelled")
  /\ UNCHANGED <<dialect, op, attempt, bodies, requests, completed, stream>>

(***************************************************************************)
(* The server's side of a stream.                                          *)
(***************************************************************************)
Streaming == pc \in {"scan", "push"}
Has(kind, seq) == \E i \in DOMAIN seq : seq[i].kind = kind

\* What belongs to a set among the first n things of a sequence, and among all.
UpTo(set, seq) == LET kept[n \in Nat] ==
                        IF n = 0 THEN <<>>
                        ELSE IF seq[n] \in set THEN Append(kept[n - 1], seq[n])
                        ELSE kept[n - 1]
                  IN kept
Only(set, seq) == UpTo(set, seq)[Len(seq)]

\* The tool call of arguments is one that has been added, for other events their place.
Ids(kind) == IF kind \in {"args", "argsdone"}
             THEN {i \in DOMAIN sent : sent[i].kind = "start"}
             ELSE {Len(sent) + 1}

\* The next event.  "begin" is the first, "finish" has only "end" behind it, and "end"
\* has nothing.
Emit(kind, ok) ==
  /\ Streaming /\ eof = "open" /\ Len(sent) < MaxEvents
  /\ (kind = "begin") => sent = <<>>
  /\ Has("finish", sent) => kind = "end"
  /\ ~Has("end", sent)
  /\ ~ok => Cardinality({i \in DOMAIN sent : ~sent[i].ok}) < MaxGarbled
  /\ \E id \in Ids(kind) :
       LET e == [kind |-> kind, id |-> id, ok |-> ok]
       IN sent' = Append(sent, e) /\ wire' = Append(wire, e)
  /\ UNCHANGED <<pc, call, out, last, tool, chan, closed, reader, got, eof>>

\* The server ends the body.
EndOfBody ==
  /\ Streaming /\ eof = "open"
  /\ eof' = "end"
  /\ UNCHANGED <<pc, call, out, last, tool, chan, closed, reader, got, sent, wire>>

\* The network, the context or the client's timeout, which covers the body too,
\* ends it: part of what was sent is never read.
Cut ==
  /\ Streaming /\ eof = "open"
  /\ eof' = "cut"
  /\ \E n \in 0 .. Len(wire) : wire' = SubSeq(wire, 1, n)
  /\ UNCHANGED <<pc, call, out, last, tool, chan, closed, reader, got, sent>>

(***************************************************************************)
(* The goroutine of ChatStream.                                            *)
(***************************************************************************)
\* The events of which each client makes a chunk when they parse; it skips the others.
CompletionsShow == {"begin", "text", "start", "args", "finish"}
MessagesShow    == {"begin", "text", "args", "finish"}
ResponsesShow   == {"text", "start", "args", "finish"}

Shown == [completions |-> CompletionsShow, messages |-> MessagesShow,
          responses |-> ResponsesShow]

\* The events that become an error: for the first two clients all that do not parse,
\* but for [DONE], which is compared as it is.  The third ignores what does not parse,
\* and alone knows the server's own error, which it takes in any form.
Fatal(e) == IF dialect = "responses" THEN e.kind = "error"
            ELSE ~e.ok /\ ~(dialect = "completions" /\ e.kind = "end")

\* The events behind which the goroutine returns.
Ends(e) == Fatal(e) \/ e.kind = "end" \/ (dialect = "responses" /\ e.kind = "finish")

\* Only the Responses client puts a tool call's id on arguments: not the one that the
\* event may carry, but that of the call that was added last.
Chunk(e) == NewChunk(e.kind, IF e.kind # "args" THEN e.id
                             ELSE IF dialect = "responses" THEN tool ELSE 0)

\* What an event becomes.
Becomes(e) == IF Fatal(e) THEN <<NewChunk("error", 0)>>
              ELSE IF e.ok /\ e.kind \in Shown[dialect] THEN <<Chunk(e)>> ELSE <<>>

\* Fault: the end of a call's arguments does not reset its id.
TrackNoReset(e) == IF e.kind = "start" /\ e.ok THEN e.id ELSE tool

\* currentToolCallID after an event.
Track(e) == CASE e.kind = "start" /\ e.ok -> e.id
              [] e.kind = "argsdone"      -> 0
              [] OTHER                    -> tool

\* scanner.Scan returns an event.
Scan ==
  LET e == Head(wire) IN
  /\ pc = "scan" /\ wire # <<>>
  /\ wire' = Tail(wire)
  /\ out' = Becomes(e)
  /\ last' = Ends(e)
  /\ tool' = IF dialect = "responses" THEN Track(e) ELSE tool
  /\ pc' = "push"
  /\ UNCHANGED <<call, chan, closed, reader, got, sent, eof>>

\* The body is over: scanner.Err is nil, or becomes the last chunk.
ScanEnds ==
  /\ pc = "scan" /\ wire = <<>> /\ eof # "open"
  /\ out' = IF eof = "cut" THEN <<NewChunk("error", 0)>> ELSE <<>>
  /\ last' = TRUE
  /\ pc' = "push"
  /\ UNCHANGED <<call, tool, chan, closed, reader, got, sent, wire, eof>>

\* Fault: a chunk that finds the channel full is dropped.
PushOrDrop ==
  /\ pc = "push" /\ out # <<>>
  /\ chan' = IF Len(chan) < Capacity THEN chan \o out ELSE chan
  /\ out' = <<>>
  /\ UNCHANGED <<pc, call, last, tool, closed, reader, got, sent, wire, eof>>

\* ch <- chunk, which blocks while the channel is full.
Push ==
  /\ pc = "push" /\ out # <<>>
  /\ Len(chan) < Capacity
  /\ chan' = chan \o out
  /\ out' = <<>>
  /\ UNCHANGED <<pc, call, last, tool, closed, reader, got, sent, wire, eof>>

\* Fault: the channel is not closed.
PushedNoClose ==
  /\ pc = "push" /\ out = <<>>
  /\ pc' = IF last THEN "over" ELSE "scan"
  /\ bodies' = IF last THEN bodies - 1 ELSE bodies
  /\ UNCHANGED <<dialect, op, attempt, result, requests, completed>>
  /\ UNCHANGED <<out, last, tool, chan, closed, reader, got, sent, wire, eof>>

\* The next round, or the deferred closes.
Pushed ==
  /\ pc = "push" /\ out = <<>>
  /\ pc' = IF last THEN "over" ELSE "scan"
  /\ bodies' = IF last THEN bodies - 1 ELSE bodies
  /\ closed' = last
  /\ UNCHANGED <<dialect, op, attempt, result, requests, completed>>
  /\ UNCHANGED <<out, last, tool, chan, reader, got, sent, wire, eof>>

(***************************************************************************)
(* The caller's loop over the channel.                                     *)
(***************************************************************************)
Receive ==
  /\ result = "stream" /\ reader = "reading"
  /\ \/ /\ chan # <<>>
        /\ got' = Append(got, Head(chan)) /\ chan' = Tail(chan)
        /\ UNCHANGED reader
     \/ /\ chan = <<>> /\ closed
        /\ reader' = "done"
        /\ UNCHANGED <<got, chan>>
  /\ UNCHANGED <<pc, call, out, last, tool, closed, sent, wire, eof>>

\* The caller stops before the end.
Leave ==
  /\ result = "stream" /\ reader = "reading"
  /\ reader' = "gone"
  /\ UNCHANGED <<pc, call, out, last, tool, chan, closed, got, sent, wire, eof>>

Do     == SendFails \/ Answered
Client == Decode \/ Refused \/ Retry \/ Scan \/ ScanEnds \/ Push \/ Pushed

Next == \/ Do \/ Client \/ Cancelled
        \/ \E kind \in Kinds, ok \in BOOLEAN : Emit(kind, ok)
        \/ EndOfBody \/ Cut
        \/ Receive \/ Leave

\* The goroutines go on when they can.  client.Timeout is always set, and ends both
\* the wait for a response and a body that does not end.
Spec == /\ Init /\ [][Next]_vars
        /\ WF_vars(Do) /\ WF_vars(Client) /\ WF_vars(Cut) /\ WF_vars(Receive)

(***************************************************************************)
(* Properties.                                                             *)
(***************************************************************************)
\* All that has come out of the stream, in order.
Chunks == got \o chan \o out

Prose  == {"text", "finish"}
Pieces == [kind : Prose, id : 0 .. MaxEvents, ok : BOOLEAN]

\* Completion as a stream that the model writes and the caller is given.
Stream == INSTANCE ChunkStream
            WITH Readable <- Legible(Prose),
                 lenient <- dialect = "responses",
                 due     <- Only(IF dialect = "responses" THEN Legible(Prose) ELSE Pieces, sent),
                 given   <- Only(Legible(Prose), Chunks),
                 state   <- IF closed THEN "closed"
                            ELSE IF Has("error", Chunks) THEN "failed" ELSE "open"

\* However slowly the caller reads and wherever the stream breaks, it is the one of
\* ChunkStream: no piece is repeated or out of order, nothing comes behind an error, and
\* a stream that closes without one has given every piece.  In the Responses dialect,
\* every piece that parses: there one that does not is left out without a word, and a
\* response.completed that does not parse ends the stream as if it were complete
\* (openai 293-346, anthropic 264-335, openairesponses 222-350).
ImplementsStream == Stream!Spec

\* The server's tool calls come one after another: the arguments of each between its
\* start and their end, and their end before the next start.
CallKinds == {"start", "args", "argsdone"}
InTurn(events) ==
  LET calls == Only([kind : CallKinds, id : 0 .. MaxEvents, ok : BOOLEAN], events)
  IN \A i \in DOMAIN calls :
       IF calls[i].kind = "start" THEN i = 1 \/ calls[i - 1].kind = "argsdone"
       ELSE /\ i > 1 /\ calls[i - 1].kind # "argsdone"
            /\ calls[i - 1].id = calls[i].id

\* What the caller should be told of an event: arguments carry their tool call's id, or
\* none when the event that added the call did not parse.
Booked(e, events) ==
  IF e.kind = "args" /\ ~events[e.id].ok THEN NewChunk("args", 0) ELSE e

\* In the Responses dialect, when tool calls come one after another, arguments are never
\* booked on another call than their own, even when what adds a call is lost to the
\* parser, and none that parse are left out or out of order.  When calls are mixed the
\* code books them on the call added last: the call_id of the event is decoded and not
\* used (openairesponses 126-130, 248-288).
ArgsFindTheirCall ==
  dialect = "responses" /\ InTurn(sent) =>
    LET told == Only(Legible({"start", "args"}), Chunks)
        real == Only(Legible({"start", "args"}), sent)
    IN Len(told) <= Len(real) /\ \A i \in DOMAIN told : told[i] = Booked(real[i], sent)

\* The server carries out at most one request of a call: only one it has refused for
\* its rate is sent again, never one whose answer was lost (openai 211-255).
CompletedOnce == completed <= 1

\* Every call ends, and a caller that keeps reading sees its stream closed, even
\* when the server never ends it.
CallEnds == <>(IF result = "stream" THEN reader # "reading" ELSE pc = "over")
=============================================================================
