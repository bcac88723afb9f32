--------------------------- MODULE StreamAdapters ---------------------------
(***************************************************************************)
(* One proxied request, from the events of the backend's Responses stream  *)
(* to what the client makes of the answer: the Messages route with its     *)
(* StreamState (adapters/anthropic_adapter.py), the Chat Completions route *)
(* (services/chatgpt_adapter.py) and the Responses route, streamed or not, *)
(* inside the retry loop of utils/retry.py.  The client and the backend    *)
(* are external: the client assembles the chunks by the rules of its       *)
(* protocol, and sends the answer back as history in its next request.     *)
(***************************************************************************)
EXTENDS Naturals, Sequences, FiniteSets

CONSTANTS
    Token,          \* pieces of text or of call arguments
    Junk,           \* the pieces with which arguments are not JSON
    Call,           \* call ids
    NoCall,         \* of a text item
    MaxEvents,      \* bound: backend events over all attempts of the request
    MaxRetries      \* MAX_RETRIES

VARIABLES
    asked,      \* route and stream, as the client asked
    up,         \* the backend's stream of this attempt, with two history flags
    state,      \* StreamState of the Messages route, kept over attempts
    got,        \* what the client has assembled
    run         \* the retry loop, with two history flags

streamVars == <<asked, up, state, got, run>>

Item(kind, call, body) == [kind |-> kind, call |-> call, body |-> body]
Nothing == [type |-> "none"]

\* A sequence of items with one token more in the k-th of them.
Filled(items, k, token) ==
    [items EXCEPT ![k] = Item(items[k].kind, items[k].call, Append(items[k].body, token))]
LastOf(items) == items[Len(items)]

\* The elements of s at the positions in I, and the sequences in ss one after the other.
Kept(s, I) ==
    LET kept[n \in 0..Len(s)] ==
            IF n = 0 THEN <<>>
            ELSE IF n \in I THEN Append(kept[n - 1], s[n]) ELSE kept[n - 1]
    IN  kept[Len(s)]
Joined(ss) ==
    LET joined[n \in 0..Len(ss)] == IF n = 0 THEN <<>> ELSE joined[n - 1] \o ss[n]
    IN  joined[Len(ss)]

NoStream == [output |-> <<>>, open |-> FALSE, completed |-> FALSE, failed |-> FALSE,
             overtaken |-> FALSE, extra |-> FALSE, last |-> Nothing]
NewState == [index |-> 0, text |-> FALSE, tool |-> FALSE]
NoAnswer == [blocks |-> <<>>, text |-> <<>>, calls |-> <<>>, finish |-> "none"]
NewClient == [blocks |-> <<>>, text |-> <<>>, calls |-> <<>>, finish |-> "none",
              ends |-> 0, open |-> {}, broken |-> FALSE]

Init ==
    /\ asked \in [route: {"messages", "chat", "responses"}, stream: BOOLEAN]
    /\ up = NoStream
    /\ state = NewState
    /\ got = NewClient
    /\ run = [phase |-> "streaming", attempt |-> 0, events |-> 0,
              begun |-> FALSE, disturbed |-> FALSE]

----------------------------------------------------------------------------
\* AnthropicAdapter.convert_stream_event: the new state and the chunks sent.

CompletedEvent(output) == [type |-> "completed", response |-> [output |-> output]]

Step(s, chunks) == [state |-> s, chunks |-> chunks]
CloseText(r) ==
    IF r.state.text
    THEN Step([r.state EXCEPT !.text = FALSE, !.index = @ + 1],
              Append(r.chunks, [type |-> "stop", index |-> r.state.index]))
    ELSE r
CloseTool(r) ==
    IF r.state.tool
    THEN Step([r.state EXCEPT !.tool = FALSE, !.index = @ + 1],
              Append(r.chunks, [type |-> "stop", index |-> r.state.index]))
    ELSE r

IsCall(item) == item.kind = "function_call"
HasCall(output) == \E i \in DOMAIN output : IsCall(output[i])
StopReason(output) == IF HasCall(output) THEN "tool" ELSE "stop"
MessageStop(reason) == << [type |-> "finish", reason |-> reason], [type |-> "end"] >>

BlockStart(s, kind, call) == [type |-> "start", index |-> s.index, kind |-> kind, call |-> call]
BlockDelta(s, kind, token) == [type |-> "delta", index |-> s.index, kind |-> kind, token |-> token]

HandleOutputItemAdded(s, e) ==
    IF e.kind = "function_call"
    THEN Step([s EXCEPT !.tool = TRUE], << BlockStart(s, "function_call", e.call) >>)
    ELSE Step(s, <<>>)

HandleTextDelta(s, e) ==
    Step([s EXCEPT !.text = TRUE],
         (IF s.text THEN <<>> ELSE << BlockStart(s, "message", NoCall) >>)
             \o << BlockDelta(s, "message", e.token) >>)

HandleCompletedLeavingOpen(s, e) == Step(s, MessageStop(StopReason(e.response.output)))

\* The backend may leave out the last "done" event: open blocks are closed first.
HandleCompleted(s, e) ==
    LET closed == CloseTool(CloseText(Step(s, <<>>)))
    IN  [closed EXCEPT !.chunks = @ \o MessageStop(StopReason(e.response.output))]

MessagesEvent(s, e) ==
    CASE e.type = "item_added" -> HandleOutputItemAdded(s, e)
      [] e.type = "text_delta" -> HandleTextDelta(s, e)
      [] e.type = "args_delta" -> Step(s, << BlockDelta(s, "function_call", e.token) >>)
      [] e.type = "text_done"  -> CloseText(Step(s, <<>>))
      [] e.type = "args_done"  -> CloseTool(Step(s, <<>>))
      [] e.type = "completed"  -> HandleCompleted(s, e)
      [] OTHER -> Step(s, <<>>)

ChatEventAlwaysStop(e) ==
    CASE e.type = "item_added" /\ e.kind = "function_call" ->
            << [type |-> "call_start", index |-> 0, call |-> e.call] >>
      [] e.type = "args_delta" -> << [type |-> "call_args", index |-> 0, token |-> e.token] >>
      [] e.type \in {"text_delta", "other"} -> << [type |-> "content", token |-> e.token] >>
      [] e.type = "completed"  -> << [type |-> "finish", reason |-> "stop"] >>
      [] OTHER -> <<>>

\* ChatGPTAdapter.convert_stream_event.  Every call has index 0, and whatever has a delta, a text
\* or a content becomes content.
ChatEvent(e) ==
    CASE e.type = "item_added" /\ e.kind = "function_call" ->
            << [type |-> "call_start", index |-> 0, call |-> e.call] >>
      [] e.type = "args_delta" -> << [type |-> "call_args", index |-> 0, token |-> e.token] >>
      [] e.type \in {"text_delta", "other"} -> << [type |-> "content", token |-> e.token] >>
      [] e.type = "completed"  -> << [type |-> "finish", reason |-> StopReason(e.response.output)] >>
      [] OTHER -> <<>>

\* format_error and append_done; to a client of the Responses route, response.failed too.
ErrorChunks == << [type |-> "finish", reason |-> "error"], [type |-> "end"] >>

\* The Responses route passes every event on; to its client those matter that end the response.
ResponsesEvent(e) ==
    CASE e.type = "completed" -> << [type |-> "result", output |-> e.response.output], [type |-> "end"] >>
      [] e.type = "failed"    -> ErrorChunks
      [] OTHER -> <<>>

Converted(e) ==
    CASE asked.route = "messages"  -> MessagesEvent(state, e)
      [] asked.route = "chat"      -> Step(state, ChatEvent(e))
      [] asked.route = "responses" -> Step(state, ResponsesEvent(e))

ClosingAlways ==
    CASE asked.route = "messages"  -> MessageStop("stop")
      [] asked.route = "chat"      -> << [type |-> "end"] >>
      [] asked.route = "responses" -> ResponsesEvent(CompletedEvent(<<>>))

\* After the last event: a stream that never completed is ended by the route.
Closing ==
    CASE asked.route = "messages"  -> IF up.completed THEN <<>> ELSE MessageStop("stop")
      [] asked.route = "chat"      -> << [type |-> "end"] >>
      [] asked.route = "responses" ->
            IF up.completed THEN <<>> ELSE ResponsesEvent(CompletedEvent(<<>>))

----------------------------------------------------------------------------
\* The client (external): blocks by index, calls by index, text in order.

Received(c, chunk) ==
    CASE chunk.type = "start" ->
            [c EXCEPT !.blocks = Append(@, Item(chunk.kind, chunk.call, <<>>)),
                      !.open = @ \cup {chunk.index},
                      !.broken = @ \/ c.open # {} \/ chunk.index # Len(c.blocks)]
      [] chunk.type = "delta" ->
            IF chunk.index \in c.open /\ chunk.index < Len(c.blocks) /\ c.blocks[chunk.index + 1].kind = chunk.kind
            THEN [c EXCEPT !.blocks = Filled(@, chunk.index + 1, chunk.token)]
            ELSE [c EXCEPT !.broken = TRUE]
      [] chunk.type = "stop" ->
            [c EXCEPT !.open = @ \ {chunk.index}, !.broken = @ \/ chunk.index \notin c.open]
      [] chunk.type = "content" -> [c EXCEPT !.text = Append(@, chunk.token)]
      [] chunk.type = "call_start" ->
            [c EXCEPT !.calls = << Item("function_call", chunk.call,
                                        IF c.calls = <<>> THEN <<>> ELSE c.calls[1].body) >>]
      [] chunk.type = "call_args" ->
            IF c.calls = <<>> THEN [c EXCEPT !.broken = TRUE]
            ELSE [c EXCEPT !.calls = Filled(@, 1, chunk.token)]
      [] chunk.type = "result" -> [c EXCEPT !.blocks = chunk.output, !.finish = "stop"]
      [] chunk.type = "finish" ->
            [c EXCEPT !.finish = chunk.reason,
                      !.broken = @ \/ (c.open # {} /\ chunk.reason # "error")]
      [] chunk.type = "end" -> [c EXCEPT !.ends = @ + 1]

Assembled(c, chunks) ==
    LET after[n \in 0..Len(chunks)] ==
            IF n = 0 THEN c ELSE Received(after[n - 1], chunks[n])
    IN  after[Len(chunks)]

----------------------------------------------------------------------------
\* Answers that are not streamed: to_anthropic_response, convert_non_stream_response.

Texts(output) == Kept(output, {i \in DOMAIN output : ~IsCall(output[i]) /\ output[i].body # <<>>})
Calls(output) == Kept(output, {i \in DOMAIN output : IsCall(output[i])})
Blocks(output) == Kept(output, {i \in DOMAIN output : IsCall(output[i]) \/ output[i].body # <<>>})

\* Arguments that do not parse count as no arguments.
Parses(item) == IsCall(item) => \A n \in DOMAIN item.body : item.body[n] \notin Junk
Parsed(output) ==
    [i \in DOMAIN output |->
        IF Parses(output[i]) THEN output[i] ELSE Item(output[i].kind, output[i].call, <<>>)]

Answer(output) ==
    CASE asked.route = "messages" ->
            [NoAnswer EXCEPT !.blocks = Blocks(Parsed(output)), !.finish = StopReason(output)]
      [] asked.route = "chat" ->
            [NoAnswer EXCEPT !.text = Joined([i \in DOMAIN Texts(output) |-> Texts(output)[i].body]),
                             !.calls = Calls(output), !.finish = StopReason(output)]
      [] asked.route = "responses" -> [NoAnswer EXCEPT !.blocks = output, !.finish = "stop"]

\* The handlers that do not stream call client.responses(stream=True) all the same and convert
\* the last event, reading its "output" as if it were the response.
LastResult == IF "output" \in DOMAIN up.last THEN up.last.output ELSE <<>>

\* _messages_to_input_items of both adapters, for the answer as the client sends it back.  The
\* Messages adapter gathers text blocks until a tool block; the Chat adapter sends either the
\* calls of an assistant message or its text.
FlushPending(acc) ==
    IF acc.pending = <<>> THEN acc
    ELSE [items |-> Append(acc.items, [kind |-> "message", call |-> NoCall, parts |-> acc.pending]),
          pending |-> <<>>]
InputBlockUnflushed(acc, block) ==
    IF block.kind = "message"
    THEN [acc EXCEPT !.pending = Append(@, block.body)]
    ELSE [acc EXCEPT !.items =
             Append(@, [kind |-> "function_call", call |-> block.call, parts |-> <<block.body>>])]
InputBlock(acc, block) ==
    IF block.kind = "message"
    THEN [acc EXCEPT !.pending = Append(@, block.body)]
    ELSE [FlushPending(acc) EXCEPT !.items =
             Append(@, [kind |-> "function_call", call |-> block.call, parts |-> <<block.body>>])]

MessagesInput(blocks) ==
    LET acc[n \in 0..Len(blocks)] ==
            IF n = 0 THEN [items |-> <<>>, pending |-> <<>>]
            ELSE InputBlock(acc[n - 1], blocks[n])
    IN  FlushPending(acc[Len(blocks)]).items
ChatInput(text, calls) ==
    IF calls # <<>>
    THEN [i \in DOMAIN calls |-> [kind |-> "function_call", call |-> calls[i].call, parts |-> <<calls[i].body>>]]
    ELSE << [kind |-> "message", call |-> NoCall, parts |-> <<text>>] >>

\* The items of an input, one for each part.
PartsOf(item) == [j \in DOMAIN item.parts |-> Item(item.kind, item.call, item.parts[j])]
Parts(items) == Joined([i \in DOMAIN items |-> PartsOf(items[i])])

----------------------------------------------------------------------------
\* The backend (external): items one after the other, each added, filled and done, or not done
\* before the next one; the end of the response, completed or not; other events in between.

More == run.phase = "streaming" /\ run.events < MaxEvents /\ ~up.completed /\ ~up.failed

Event(e, stream) ==
    /\ IF asked.stream
       THEN LET step == Converted(e)
            IN  /\ up' = stream
                /\ state' = step.state
                /\ got' = Assembled(got, step.chunks)
                /\ run' = [run EXCEPT !.events = @ + 1, !.begun = @ \/ step.chunks # <<>>]
       ELSE /\ up' = [stream EXCEPT !.last = e]
            /\ run' = [run EXCEPT !.events = @ + 1]
            /\ UNCHANGED <<state, got>>
    /\ UNCHANGED asked

ItemAdded(kind, call) ==
    /\ More /\ (kind = "message" <=> call = NoCall)
    /\ \A i \in DOMAIN up.output : call # NoCall => up.output[i].call # call
    /\ Event([type |-> "item_added", kind |-> kind, call |-> call],
             [up EXCEPT !.output = Append(@, Item(kind, call, <<>>)), !.open = TRUE,
                        !.overtaken = @ \/ got.open # {}])

Delta(token) ==
    /\ More /\ up.open
    /\ Event([type |-> IF LastOf(up.output).kind = "message" THEN "text_delta" ELSE "args_delta",
              token |-> token],
             [up EXCEPT !.output = Filled(@, Len(@), token)])

ItemDone ==
    /\ More /\ up.open
    /\ Event([type |-> IF LastOf(up.output).kind = "message" THEN "text_done" ELSE "args_done"],
             [up EXCEPT !.open = FALSE])

Completed ==
    /\ More
    /\ Event(CompletedEvent(up.output), [up EXCEPT !.completed = TRUE])

\* response.failed or response.incomplete
Failed ==
    /\ More
    /\ Event([type |-> "failed"], [up EXCEPT !.failed = TRUE])

\* An event of another type with a delta, a text or a content: a refusal, a summary of the
\* reasoning.
OtherEvent(token) ==
    /\ More
    /\ Event([type |-> "other", token |-> token], [up EXCEPT !.extra = TRUE])

----------------------------------------------------------------------------
\* The route: the stream is over, or it raises and the retry loop starts it again.

StreamEnds ==
    /\ run.phase = "streaming"
    /\ got' = IF asked.stream THEN Assembled(got, Closing)
              ELSE LET answer == Answer(LastResult)
                   IN  [got EXCEPT !.blocks = answer.blocks, !.text = answer.text,
                                   !.calls = answer.calls, !.finish = answer.finish, !.ends = 1]
    /\ run' = [run EXCEPT !.phase = "ended"]
    /\ UNCHANGED <<asked, up, state>>

Retry(attempt) ==
    /\ up' = NoStream
    /\ run' = [run EXCEPT !.attempt = attempt, !.disturbed = @ \/ run.begun]
    /\ UNCHANGED <<asked, state, got>>

StreamFails(retryable) ==
    /\ run.phase = "streaming"
    /\ IF retryable /\ run.attempt < MaxRetries
       THEN Retry(run.attempt + 1)
       ELSE /\ got' = IF asked.stream THEN Assembled(got, ErrorChunks)
                      ELSE [got EXCEPT !.finish = "error", !.ends = 1]
            /\ run' = [run EXCEPT !.phase = "failed", !.disturbed = @ \/ up.completed \/ up.failed]
            /\ UNCHANGED <<asked, up, state>>

Next ==
    \/ \E kind \in {"message", "function_call"}, call \in Call \cup {NoCall} : ItemAdded(kind, call)
    \/ \E token \in Token : Delta(token)
    \/ \E token \in Token : OtherEvent(token)
    \/ ItemDone \/ Completed \/ Failed \/ StreamEnds
    \/ \E retryable \in BOOLEAN : StreamFails(retryable)

Spec == Init /\ [][Next]_streamVars

----------------------------------------------------------------------------
\* Left out of all of them: an attempt that failed after it had sent something was started again
\* on the same client, or failed after it had ended its response (run.disturbed).

\* Content blocks are well nested for the client: started in order, one at a time, filled and
\* stopped only while open; and the state of the adapter says what the client has open.  Two
\* things break it: a stream that is cut inside a block, where the route's own message_stop
\* leaves the block open, and an item that begins while the block of another is open because
\* the backend left out its "done" event (up.overtaken): only completed closes such a block.
BlocksWellNested ==
    /\ got.broken => run.disturbed \/ up.overtaken \/ (run.phase = "ended" /\ ~up.completed /\ up.open)
    /\ asked.route = "messages" /\ ~run.disturbed /\ ~up.overtaken =>
          /\ got.open = IF state.text \/ state.tool THEN {state.index} ELSE {}
          /\ state.index + Cardinality(got.open) = Len(got.blocks)

\* The Responses route looks for completed only: after a response that failed it announces a
\* completed one as well.
EndsTwice == asked = [route |-> "responses", stream |-> TRUE] /\ up.failed

\* Every other answer ends once, with its end marker or with an error, also when the backend
\* never completes; until then it has not ended.
EndsOnce ==
    ~run.disturbed =>
        /\ run.phase \in {"ended", "failed"} => got.ends = IF EndsTwice THEN 2 ELSE 1
        /\ run.phase = "streaming" /\ got.ends > 0 => up.completed \/ up.failed

\* What a client assembles from the stream is what the same response gives when it is converted
\* as a whole.  The exceptions: on the Messages route a block that was overtaken, and arguments
\* that do not parse (streamed as they come, {} when converted as a whole); in a Chat answer
\* several calls, all of index 0, and text of other events, taken for content.
SameAsWhole ==
    /\ asked.route = "messages" => ~up.overtaken /\ \A i \in DOMAIN up.output : Parses(up.output[i])
    /\ asked.route = "chat" => Len(Calls(up.output)) <= 1 /\ ~up.extra

StreamMatchesAnswer ==
    asked.stream /\ run.phase = "ended" /\ up.completed /\ ~run.disturbed /\ SameAsWhole
    => \A part \in DOMAIN NoAnswer : got[part] = Answer(up.output)[part]

\* An answer that comes back as history reaches the backend as the items it had produced, in
\* order, with the same exceptions.  The Chat adapter drops the text beside a call, which the
\* formula leaves out.
HistoryKept ==
    asked.stream /\ run.phase = "ended" /\ up.completed /\ ~run.disturbed /\ SameAsWhole =>
        /\ asked.route = "messages" =>
              Parts(MessagesInput(got.blocks)) = Answer(up.output).blocks
        /\ asked.route = "chat" =>
              Parts(ChatInput(got.text, got.calls)) =
                  IF HasCall(up.output) THEN Calls(up.output)
                  ELSE << Item("message", NoCall, Answer(up.output).text) >>

\* A Chat Completions answer that is not streamed carries the output of the response
\* ("compatible with the OpenAI Chat Completion format", docs/api-reference.md).
NonStreamCarriesOutput ==
    asked = [route |-> "chat", stream |-> FALSE] /\ run.phase = "ended" /\ up.completed =>
        \A part \in DOMAIN NoAnswer : got[part] = Answer(up.output)[part]
=============================================================================
