------------------------------ MODULE Translation ------------------------------
(***************************************************************************)
(* What the gateway does between a client that speaks one protocol and a   *)
(* backend that speaks another (src/protocol): the conversation on the way *)
(* out, and the answer on the way back, whole or as a stream of events cut *)
(* into network chunks anywhere.                                           *)
(*                                                                         *)
(* A route is a client, "chat" (OpenAI) or "messages" (Anthropic), and a   *)
(* backend, "openai", "anthropic" or "gemini".  Text is a sequence of      *)
(* pieces, each a number of its own, so that a lost, repeated or reordered *)
(* piece shows; an Option is a set of at most one element.  SSE framing is *)
(* reduced to whole events and the one a chunk boundary tears.             *)
(***************************************************************************)
EXTENDS Naturals, FiniteSets, Sequences, SequencesExt

CONSTANTS
    Routes,      \* the <<client, backend>> pairs
    Asked,       \* what one message of a request may hold
    MaxTurns,    \* bound on the messages of a conversation
    MaxPieces,   \* bound on the pieces of text and arguments of an answer
    MaxCalls,    \* bound on its tool calls
    Prompt       \* the tokens the backend counts in the request

VARIABLES
    conv,    \* the conversation being asked, in the client's protocol
    route,   \* where it was sent: an Option
    said,    \* what the backend has said, its own view of its answer
    torn,    \* the event whose first half is in SseDecoder::buf: an Option
    t,       \* StreamTranslator
    c,       \* StreamConverter
    view,    \* the answer as the client has put it together
    scan,    \* the token counts seen on a body that is not translated
    life,    \* "asking", "streaming", "ended", "failed" or "closed"
    booked   \* what was given to the usage reporter

vars == <<conv, route, said, torn, t, c, view, scan, life, booked>>

Only(o) == CHOOSE x \in o : TRUE
Client(r) == r[1]
Backend(r) == r[2]

\* proxy_request, the native_anthropic fork: an Anthropic client of an Anthropic
\* backend, like an OpenAI one of an OpenAI backend, gets the bytes unchanged.
Untranslated(r) == r \in {<<"chat", "openai">>, <<"messages", "anthropic">>}

(***************************************************************************)
(* The request (mod.rs, messages.rs, anthropic.rs, gemini.rs)              *)
(***************************************************************************)

\* An OpenAI message, and an OpenAiMessage's Turn.
Message(role, content, calls, id) ==
    [role |-> role, content |-> content, calls |-> calls, id |-> id]

\* convert_user: tool results first, then what else was said.
convert_user(m) ==
    [i \in 1..Len(m.results) |-> Message("tool", <<>>, <<>>, {m.results[i]})]
    \o (IF m.content = <<>> THEN <<>> ELSE <<Message("user", m.content, <<>>, {})>>)

\* convert_assistant: the text, the tool calls; thinking is dropped.
convert_assistant(m) == <<Message("assistant", m.content, m.calls, {})>>

\* request_to_openai.
convert_message(m) ==
    IF m.role = "user" THEN convert_user(m) ELSE convert_assistant(m)
request_to_openai(ms) == FlattenSeq([i \in 1..Len(ms) |-> convert_message(ms[i])])

\* A chat client's conversation is already in that form.
AsOpenAi(ms) == request_to_openai(ms)

\* split_system: one turn per message, the results of several tool messages in
\* one, each named after the call it answers; an empty turn is dropped.
NameOf(before, id) ==
    LET calls == FlattenSeq([i \in 1..Len(before) |-> before[i].calls])
        made  == SelectSeq(calls, LAMBDA call : call.id = id)
    IN IF made = <<>> THEN id ELSE made[Len(made)].name

Turn(role, content, calls, results) ==
    [role |-> role, content |-> content, calls |-> calls, results |-> results]

push_turn(turns, before, m) ==
    IF m.role # "tool"
    THEN Append(turns, Turn(m.role, m.content, m.calls, <<>>))
    ELSE LET result == [id |-> Only(m.id), name |-> NameOf(before, Only(m.id))]
             k      == Len(turns)
         IN IF k > 0 /\ turns[k].role = "user" /\ turns[k].content = <<>>
            THEN [turns EXCEPT ![k].results = Append(@, result)]
            ELSE Append(turns, Turn("user", <<>>, <<>>, <<result>>))

split_system(ms) ==
    LET all == FoldLeft(LAMBDA acc, i : push_turn(acc, SubSeq(ms, 1, i - 1), ms[i]),
                        <<>>, [i \in 1..Len(ms) |-> i])
    IN SelectSeq(all, LAMBDA u : u.content # <<>> \/ u.calls # <<>> \/ u.results # <<>>)

\* anthropic::blocks and merge_consecutive: neighbours of one role become one
\* message, its tool results sorted to the front.
blocks(u) ==
    [i \in 1..Len(u.results) |-> [type |-> "tool_result", of |-> u.results[i].id]]
    \o [i \in 1..Len(u.content) |-> [type |-> "text", of |-> u.content[i]]]
    \o [i \in 1..Len(u.calls) |-> [type |-> "tool_use", of |-> u.calls[i].id]]

ResultsFirst(bs) ==
    SelectSeq(bs, LAMBDA b : b.type = "tool_result")
    \o SelectSeq(bs, LAMBDA b : b.type # "tool_result")

merge_unsorted(turns) ==
    FoldLeft(LAMBDA acc, u :
               IF acc # <<>> /\ acc[Len(acc)].role = u.role
               THEN [acc EXCEPT ![Len(acc)].blocks = @ \o blocks(u)]
               ELSE Append(acc, [role |-> u.role, blocks |-> blocks(u)]),
             <<>>, turns)
merge_never(turns) == [i \in 1..Len(turns) |-> [role |-> turns[i].role, blocks |-> blocks(turns[i])]]
merge_consecutive(turns) ==
    LET merged == merge_unsorted(turns)
    IN [i \in 1..Len(merged) |-> [merged[i] EXCEPT !.blocks = ResultsFirst(@)]]

\* gemini::parts: a function response carries the function's name, not an id.
parts(u) ==
    [i \in 1..Len(u.results) |-> [part |-> "functionResponse", of |-> u.results[i].name]]
    \o [i \in 1..Len(u.content) |-> [part |-> "text", of |-> u.content[i]]]
    \o [i \in 1..Len(u.calls) |-> [part |-> "functionCall", of |-> u.calls[i].name]]

ToAnthropic(ms) == merge_consecutive(split_system(AsOpenAi(ms)))
ToGemini(ms) ==
    LET turns == split_system(AsOpenAi(ms))
    IN [i \in 1..Len(turns) |-> parts(turns[i])]

(***************************************************************************)
(* The answer of a backend, in its own events                              *)
(***************************************************************************)

\* A piece of a stream: a native event, an OpenAI chunk or an Anthropic frame.
Blank ==
    [kind |-> "chunk", role |-> FALSE, think |-> <<>>, text |-> <<>>, calls |-> <<>>,
     finish |-> {}, usage |-> {}]

Tokens(in, out) == [in |-> in, out |-> out]

\* finish_reason of anthropic.rs, of gemini.rs, and stop_reason of messages.rs.
anthropic_finish_reason(stop) ==
    CASE stop = "max_tokens" -> "length" [] stop = "tool_use" -> "tool_calls" [] OTHER -> "stop"
gemini_finish_reason(stop) ==
    CASE stop = "MAX_TOKENS" -> "length" [] stop = "SAFETY" -> "content_filter" [] OTHER -> "stop"
stop_reason(finish) ==
    CASE finish = "length" -> "max_tokens" [] finish = "tool_calls" -> "tool_use"
      [] OTHER -> "end_turn"

(***************************************************************************)
(* StreamTranslator: native events to OpenAI chunks                        *)
(***************************************************************************)

StreamTranslator ==
    [role_sent |-> FALSE, open |-> {}, next |-> 0, saw |-> FALSE, usage |-> Tokens(0, 0),
     finish |-> {}, done |-> FALSE, include_usage |-> TRUE, out |-> <<>>]

Put(s, chunk) == [s EXCEPT !.out = Append(@, chunk)]

emit_role(s) ==
    IF s.role_sent THEN s
    ELSE Put([s EXCEPT !.role_sent = TRUE], [Blank EXCEPT !.role = TRUE])

emit_text(s, text) ==
    IF text = <<>> THEN s ELSE Put(emit_role(s), [Blank EXCEPT !.text = text])

CallDelta(index, id, args) == [index |-> index, id |-> id, args |-> args]

open_tool_call(s, id) ==
    LET r == emit_role(s)
    IN Put([r EXCEPT !.next = @ + 1, !.open = {r.next}, !.saw = TRUE],
           [Blank EXCEPT !.calls = <<CallDelta(r.next, {id}, <<>>)>>])

emit_tool_arguments(s, args) ==
    IF s.open = {} \/ args = <<>> THEN s
    ELSE Put(s, [Blank EXCEPT !.calls = <<CallDelta(Only(s.open), {}, args)>>])

close_tool_call(s) == [s EXCEPT !.open = {}]

\* finish: the reason if the stream gave none, the counts, and [DONE].
finish(s) ==
    IF s.done THEN s
    ELSE LET reason == IF s.finish # {} THEN s.finish
                       ELSE IF s.saw THEN {"tool_calls"} ELSE {"stop"}
             last   == [Blank EXCEPT !.finish = reason,
                                      !.usage = IF s.include_usage THEN {s.usage} ELSE {}]
         IN Put(Put([s EXCEPT !.done = TRUE, !.finish = reason], last),
                [Blank EXCEPT !.kind = "done"])

message_delta_whole(s, e) ==
    [s EXCEPT !.finish = {anthropic_finish_reason(Only(e.finish))}, !.usage = Only(e.usage)]
message_delta(s, e) ==
    [s EXCEPT !.finish = {anthropic_finish_reason(Only(e.finish))},
              !.usage.out = Only(e.usage).out]
anthropic_on_event(s, e) ==
    CASE e.kind = "message_start"       -> emit_role([s EXCEPT !.usage = Only(e.usage)])
      [] e.kind = "content_block_start" ->
            IF e.calls = <<>> THEN s ELSE open_tool_call(s, Only(e.calls[1].id))
      [] e.kind = "content_block_delta" ->
            emit_tool_arguments(emit_text(s, e.text),
                                IF e.calls = <<>> THEN <<>> ELSE e.calls[1].args)
      [] e.kind = "content_block_stop"  -> close_tool_call(s)
      [] e.kind = "message_delta"       -> message_delta(s, e)
      [] e.kind = "message_stop"        -> finish(s)
      [] OTHER                          -> s

gemini_reason(s, why) == IF s.saw THEN "tool_calls" ELSE gemini_finish_reason(why)

gemini_on_event(s, e) ==
    LET counted == [s EXCEPT !.usage = IF e.usage # {} THEN Only(e.usage) ELSE @]
        spoken  == emit_text(counted, e.text)
        called  == FoldLeft(LAMBDA acc, call :
                              close_tool_call(emit_tool_arguments(
                                  open_tool_call(acc, acc.next), call.args)),
                            spoken, e.calls)
    IN IF e.finish = {} THEN called
       ELSE [called EXCEPT !.finish = {gemini_reason(called, Only(e.finish))}]

on_event(r, s, e) ==
    CASE Backend(r) = "anthropic" -> anthropic_on_event(s, e)
      [] Backend(r) = "gemini"    -> gemini_on_event(s, e)
      [] OTHER                    -> Put(s, e)

(***************************************************************************)
(* StreamConverter: OpenAI chunks to Anthropic frames                      *)
(***************************************************************************)

StreamConverter ==
    [started |-> FALSE, finished |-> FALSE, open |-> [type |-> "none", block |-> 0, of |-> 0],
     next |-> 0, stop |-> {}, usage |-> Tokens(0, 0), out |-> <<>>]

Shut == [type |-> "none", block |-> 0, of |-> 0]
frame(kind, index) == [kind |-> kind, index |-> index, type |-> "", id |-> {}, value |-> <<>>,
                       stop |-> {}, usage |-> {}]

start(s) ==
    IF s.started THEN s
    ELSE Put([s EXCEPT !.started = TRUE], frame("message_start", 0))

close_block(s) ==
    IF s.open.type = "none" THEN s
    ELSE Put([s EXCEPT !.open = Shut], frame("content_block_stop", s.open.block))

open_block(s, type, of, id) ==
    Put([s EXCEPT !.next = @ + 1, !.open = [type |-> type, block |-> s.next, of |-> of]],
        [frame("content_block_start", s.next) EXCEPT !.type = type, !.id = id])

Delta(s, value) ==
    Put(s, [frame("content_block_delta", s.open.block) EXCEPT !.type = s.open.type, !.value = value])

\* thinking and text: continue the open block of that type, or close it and
\* open one.
Spoken(s, type, value) ==
    IF value = <<>> THEN s
    ELSE Delta(IF s.open.type = type THEN s
               ELSE open_block(close_block(s), type, 0, {}), value)

tool_call_unclosed(s, call) ==
    LET cont   == s.open.type = "tool_use" /\ s.open.of = call.index /\ call.id = {}
        opened == IF cont THEN s ELSE open_block(s, "tool_use", call.index, call.id)
    IN IF call.args = <<>> THEN opened ELSE Delta(opened, call.args)
tool_call(s, call) ==
    LET cont   == s.open.type = "tool_use" /\ s.open.of = call.index /\ call.id = {}
        opened == IF cont THEN s
                  ELSE open_block(close_block(s), "tool_use", call.index,
                                  IF call.id # {} THEN call.id ELSE {call.index})
    IN IF call.args = <<>> THEN opened ELSE Delta(opened, call.args)

close(s) ==
    LET ended == close_block(start([s EXCEPT !.finished = TRUE]))
    IN Put(Put(ended, [frame("message_delta", 0) EXCEPT
                         !.stop = IF s.stop # {} THEN s.stop ELSE {"end_turn"},
                         !.usage = {s.usage}]),
           frame("message_stop", 0))

on_data(s, chunk) ==
    IF s.finished THEN s
    ELSE IF chunk.kind = "done" THEN close(s)
    ELSE LET begun   == [start(s) EXCEPT !.usage = IF chunk.usage # {} THEN Only(chunk.usage) ELSE @]
             spoken  == Spoken(Spoken(begun, "thinking", chunk.think), "text", chunk.text)
             called  == FoldLeft(tool_call, spoken, chunk.calls)
         IN IF chunk.finish = {} THEN called
            ELSE [called EXCEPT !.stop = {stop_reason(Only(chunk.finish))}]

converter_finish(s) == IF s.finished THEN s ELSE close(s)

abort(s) ==
    IF s.finished THEN s ELSE Put([s EXCEPT !.finished = TRUE], frame("error", 0))

(***************************************************************************)
(* The same answer, not streamed                                           *)
(***************************************************************************)

\* translate_response of each backend, to an OpenAI completion.
anthropic_translate_response(s) ==
    [text |-> s.text, think |-> <<>>, calls |-> s.calls,
     finish |-> anthropic_finish_reason(s.stop), usage |-> s.usage]

gemini_translate_response(s) ==
    [text |-> s.text, think |-> <<>>,
     calls |-> [i \in 1..Len(s.calls) |-> [s.calls[i] EXCEPT !.id = i - 1]],
     finish |-> IF s.calls # <<>> THEN "tool_calls" ELSE gemini_finish_reason(s.stop),
     usage |-> s.usage]

Completion(s) ==
    [text |-> s.text, think |-> s.think, calls |-> s.calls, finish |-> s.stop, usage |-> s.usage]

translate_response(r, s) ==
    CASE Backend(r) = "anthropic" -> anthropic_translate_response(s)
      [] Backend(r) = "gemini"    -> gemini_translate_response(s)
      [] OTHER                    -> Completion(s)

\* completion_to_message, for an Anthropic client.
Whole(r, s) ==
    LET whole == translate_response(r, s)
    IN IF Client(r) = "messages" THEN [whole EXCEPT !.finish = stop_reason(@)] ELSE whole

(***************************************************************************)
(* What a client puts together from what it reads (external)               *)
(***************************************************************************)

Unread == [begun |-> FALSE, open |-> {}, blocks |-> <<>>, finish |-> {}, usage |-> {},
           over |-> FALSE, bad |-> FALSE]

\* An OpenAI SDK: the role before any content, tool calls appended by index, nothing after
\* the finish but [DONE].
ReadChunk(v, x) ==
    LET call == IF x.calls = <<>> THEN {} ELSE {x.calls[1]}
        nth  == Len(SelectSeq(v.blocks, LAMBDA b : b.type = "tool_use"))
        rude == \/ v.over
                \/ (x.text # <<>> \/ x.calls # <<>>) /\ ~v.begun
                \/ \E d \in call : IF d.id # {} THEN d.index # nth ELSE d.index # nth - 1
                \/ x.kind = "done" /\ v.finish = {}
        said1 == IF x.text = <<>> THEN v.blocks
                 ELSE Append(v.blocks, [type |-> "text", id |-> {}, value |-> x.text])
        calls1 == CASE call = {} -> said1
                    [] call # {} /\ Only(call).id # {} ->
                         Append(said1, [type |-> "tool_use", id |-> Only(call).id,
                                        value |-> Only(call).args])
                    [] OTHER -> [said1 EXCEPT ![Len(said1)].value = @ \o Only(call).args]
    IN IF v.bad \/ rude THEN [v EXCEPT !.bad = TRUE]
       ELSE [v EXCEPT !.begun = @ \/ x.role, !.blocks = calls1, !.over = (x.kind = "done"),
                      !.finish = IF x.finish # {} THEN x.finish ELSE @,
                      !.usage = IF x.usage # {} THEN x.usage ELSE @]

\* An Anthropic SDK: message_start, blocks opened in order and one at a time,
\* deltas into the open one and of its type, a stop reason, message_stop.
ReadFrame(v, f) ==
    LET block == Len(v.blocks)
        rude  == \/ v.over
                 \/ (f.kind = "message_start") = v.begun
                 \/ f.kind = "content_block_start" /\ (v.open # {} \/ f.index # block)
                 \/ f.kind \in {"content_block_delta", "content_block_stop"} /\ v.open # {f.index}
                 \/ f.kind = "content_block_delta" /\ v.blocks[block].type # f.type
                 \/ f.kind = "message_delta" /\ v.open # {}
                 \/ f.kind = "message_stop" /\ v.finish = {}
    IN IF v.bad \/ (f.kind # "error" /\ rude) \/ v.over THEN [v EXCEPT !.bad = TRUE]
       ELSE CASE f.kind = "message_start" -> [v EXCEPT !.begun = TRUE]
              [] f.kind = "content_block_start" ->
                   [v EXCEPT !.open = {f.index},
                      !.blocks = Append(@, [type |-> f.type, id |-> f.id, value |-> <<>>])]
              [] f.kind = "content_block_delta" -> [v EXCEPT !.blocks[block].value = @ \o f.value]
              [] f.kind = "content_block_stop" -> [v EXCEPT !.open = {}]
              [] f.kind = "message_delta" -> [v EXCEPT !.finish = f.stop, !.usage = f.usage]
              [] OTHER -> [v EXCEPT !.over = TRUE]

OfType(v, type) == SelectSeq(v.blocks, LAMBDA b : b.type = type)
Joined(bs) == FlattenSeq([i \in 1..Len(bs) |-> bs[i].value])

\* The answer as the client has it, in the shape of Whole.
Heard(v) ==
    LET calls == OfType(v, "tool_use")
    IN [text |-> Joined(OfType(v, "text")), think |-> Joined(OfType(v, "thinking")),
        calls |-> [i \in 1..Len(calls) |-> [id |-> Only(calls[i].id), args |-> calls[i].value]],
        finish |-> Only(v.finish), usage |-> Only(v.usage)]

(***************************************************************************)
(* The request                                                             *)
(***************************************************************************)

Quiet == [begun |-> FALSE, open |-> "none", text |-> <<>>, think |-> <<>>, calls |-> <<>>,
          stop |-> "", usage |-> Tokens(Prompt, 0), n |-> 0, over |-> FALSE]
Unscanned == [prompt |-> {}, completion |-> {}, tail |-> {}]

Init ==
    /\ conv = <<>> /\ route = {} /\ life = "asking"
    /\ said = Quiet /\ torn = {} /\ booked = <<>>
    /\ t = StreamTranslator /\ c = StreamConverter /\ view = Unread /\ scan = Unscanned

\* The client's conversation grows by a message: tool calls are answered, all
\* of them and in any order, by the message after them.
IdsOf(calls) == {calls[i].id : i \in 1..Len(calls)}
AddMessage(m) ==
    LET pending == IF conv = <<>> THEN {} ELSE IdsOf(conv[Len(conv)].calls)
    IN /\ life = "asking" /\ Len(conv) < MaxTurns
       /\ conv = <<>> => m.role = "user"
       /\ Range(m.results) = pending /\ Len(m.results) = Cardinality(pending)
       /\ conv' = Append(conv, m)
       /\ UNCHANGED <<route, said, torn, t, c, view, scan, life, booked>>

\* messages_request always asks the backend for its counts; a chat client does
\* or does not.
Send(r, include) ==
    /\ life = "asking" /\ conv # <<>>
    /\ Client(r) = "messages" => include
    /\ life' = "streaming" /\ route' = {r} /\ conv' = <<>>
    /\ t' = [t EXCEPT !.include_usage = include]
    /\ UNCHANGED <<said, torn, c, view, scan, booked>>

(***************************************************************************)
(* What a backend may send next, and its answer once it has (external)     *)
(***************************************************************************)

Counted(s) == [s EXCEPT !.n = @ + 1, !.usage.out = @ + 1]
Say(field) == [Counted(said) EXCEPT ![field] = Append(@, said.n + 1)]
Argue == IF said.calls = <<>> THEN said ELSE
         [Counted(said) EXCEPT !.calls[Len(said.calls)].args = Append(@, said.n + 1)]
Call(id, args) == [Counted(said) EXCEPT !.calls = Append(@, [id |-> id, args |-> args])]
Step(e, s) == [event |-> e, said |-> s]
Piece == <<said.n + 1>>
MaySay == said.n < MaxPieces /\ said.begun /\ said.stop = ""
MayCall == MaySay /\ Len(said.calls) < MaxCalls
MayStop == said.begun /\ said.stop = ""
Event(kind) == [Blank EXCEPT !.kind = kind]

AnthropicSteps ==
    LET Open(type, calls, s) ==
            Step([Event("content_block_start") EXCEPT !.calls = calls], [s EXCEPT !.open = type])
        id == 10 + Len(said.calls)
        Block(e, s) == Step([e EXCEPT !.kind = "content_block_delta"], s)
    IN {x \in {Step([Event("message_start") EXCEPT !.usage = {Tokens(Prompt, 0)}],
                    [said EXCEPT !.begun = TRUE])} : ~said.begun}
       \cup {x \in {Open("text", <<>>, said), Open("thinking", <<>>, said)} :
                MaySay /\ said.open = "none"}
       \cup {x \in {Open("tool_use", <<CallDelta(0, {id}, <<>>)>>, Call(id, <<>>))} :
                MayCall /\ said.open = "none"}
       \cup {x \in {Block([Blank EXCEPT !.text = Piece], Say("text"))} : MaySay /\ said.open = "text"}
       \cup {x \in {Block([Blank EXCEPT !.think = Piece], Say("think"))} :
                MaySay /\ said.open = "thinking"}
       \cup {x \in {Block([Blank EXCEPT !.calls = <<CallDelta(0, {}, Piece)>>], Argue)} :
                MaySay /\ said.open = "tool_use"}
       \cup {x \in {Step(Event("content_block_stop"), [said EXCEPT !.open = "none"])} :
                said.open # "none"}
       \cup {x \in {Step([Event("message_delta") EXCEPT
                            !.finish = {why}, !.usage = {Tokens(0, said.n)}],
                         [said EXCEPT !.stop = why]) :
                      why \in {"max_tokens", IF said.calls = <<>> THEN "end_turn" ELSE "tool_use"}} :
                MayStop /\ said.open = "none"}
       \cup {x \in {Step(Event("message_stop"), [said EXCEPT !.over = TRUE])} :
                said.stop # "" /\ ~said.over}

\* The fragments of one call's arguments are not interrupted.
OpenAiSteps ==
    LET last == Len(said.calls) - 1
        id   == 10 + Len(said.calls)
        Now(s, open) == [s EXCEPT !.open = open]
    IN {x \in {Step([Blank EXCEPT !.role = TRUE], [said EXCEPT !.begun = TRUE])} : ~said.begun}
       \cup {x \in {Step([Blank EXCEPT !.text = Piece], Now(Say("text"), "none")),
                    Step([Blank EXCEPT !.think = Piece], Now(Say("think"), "none"))} : MaySay}
       \cup {x \in {Step([Blank EXCEPT !.calls = <<CallDelta(last + 1, {id}, a)>>],
                         Now(Call(id, a), "tool_use")) : a \in {<<>>, Piece}} : MayCall}
       \cup {x \in {Step([Blank EXCEPT !.calls = <<CallDelta(last, {}, Piece)>>], Argue)} :
                MaySay /\ said.open = "tool_use"}
       \cup {x \in {Step([Blank EXCEPT !.finish = {why}], [Now(said, "none") EXCEPT !.stop = why]) :
                      why \in {"length", IF said.calls = <<>> THEN "stop" ELSE "tool_calls"}} : MayStop}
       \cup {x \in {Step([Blank EXCEPT !.usage = {said.usage}], Now(said, "counted"))} :
                said.stop # "" /\ said.open = "none"}
       \cup {x \in {Step(Event("done"), [said EXCEPT !.over = TRUE])} :
                said.open = "counted" /\ ~said.over}

GeminiSteps ==
    LET Part(e, s) == Step([e EXCEPT !.usage = {s.usage}], [s EXCEPT !.begun = TRUE])
        Final(e, s, why) == Step([e EXCEPT !.finish = {why}, !.usage = {s.usage}],
                                [s EXCEPT !.begun = TRUE, !.stop = why, !.over = TRUE])
        parts2 == {<<[Blank EXCEPT !.text = Piece], Say("text")>>,
                   <<[Blank EXCEPT !.calls = <<CallDelta(0, {}, Piece)>>], Call(0, Piece)>>}
    IN IF said.over THEN {}
       ELSE {Part(p[1], p[2]) : p \in {p \in parts2 : said.n < MaxPieces /\ Len(p[2].calls) <= MaxCalls}}
            \cup {Final(p[1], p[2], why) : why \in {"STOP", "MAX_TOKENS", "SAFETY"},
                    p \in {<<Blank, said>>} \cup
                          {p \in parts2 : said.n < MaxPieces /\ Len(p[2].calls) <= MaxCalls}}

Steps(r) ==
    CASE Backend(r) = "anthropic" -> AnthropicSteps
      [] Backend(r) = "gemini"    -> GeminiSteps
      [] OTHER                    -> OpenAiSteps

(***************************************************************************)
(* The body, polled                                                        *)
(***************************************************************************)

\* UsageTracking: the tail of the body, from which the last counts are taken,
\* and StreamUsage beside it.
tail_push(x, e) == IF e.usage # {} THEN e.usage ELSE x.tail
extract_usage(x) == IF x.tail = {} THEN Tokens(0, 0) ELSE Only(x.tail)

Scanned(r, x, e) ==
    [tail |-> tail_push(x, e),
     prompt |-> IF Backend(r) = "anthropic" /\ e.kind = "message_start"
                THEN {Only(e.usage).in} ELSE x.prompt,
     completion |-> IF Backend(r) = "anthropic" /\ e.kind = "message_delta"
                    THEN {Only(e.usage).out} ELSE x.completion]

\* UsageTracking::finish: the stream's counts, the tail's where they are zero.
Tracked(x) ==
    LET prompt == IF x.prompt = {} THEN 0 ELSE Only(x.prompt)
        out    == IF x.completion = {} THEN 0 ELSE Only(x.completion)
    IN Tokens(IF prompt > 0 THEN prompt ELSE extract_usage(x).in,
              IF out > 0 THEN out ELSE extract_usage(x).out)

\* Whether the body is a TranslatedBody, and whether a MessagesStream is
\* around it.
Translates(r) == Backend(r) # "openai" /\ ~Untranslated(r)
Converts(r) == Client(r) = "messages" /\ ~Untranslated(r)

\* What the gateway reads goes through the translator, the converter, or both,
\* to the client.
Chunks(r, s) == IF Converts(r) THEN FoldLeft(on_data, c, s.out) ELSE c
Through(r, s, how) ==
    LET read   == Chunks(r, s)
        conved == CASE Converts(r) /\ how = "ended"  -> converter_finish(read)
                    [] Converts(r) /\ how = "failed" -> abort(read)
                    [] OTHER                         -> read
    IN /\ t' = [s EXCEPT !.out = <<>>]
       /\ c' = [conved EXCEPT !.out = <<>>]
       /\ view' = CASE Untranslated(r) -> view
                    [] Converts(r)     -> FoldLeft(ReadFrame, view, conved.out)
                    [] OTHER           -> FoldLeft(ReadChunk, view, s.out)

Read(r, e) ==
    /\ scan' = IF Translates(r) THEN scan ELSE Scanned(r, scan, e)
    /\ Through(r, IF Untranslated(r) THEN t ELSE on_event(r, t, e), "read")

\* A chunk: a whole event; or the first half of one, which the decoder keeps.
Deliver ==
    /\ life = "streaming" /\ torn = {}
    /\ \E x \in Steps(Only(route)) :
         /\ said' = x.said
         /\ \/ torn' = {} /\ Read(Only(route), x.event)
            \/ torn' = {x.event} /\ UNCHANGED <<t, c, view, scan>>
    /\ UNCHANGED <<conv, route, life, booked>>

\* The second half arrives.
DeliverRest ==
    /\ life = "streaming" /\ torn # {}
    /\ Read(Only(route), Only(torn)) /\ torn' = {}
    /\ UNCHANGED <<conv, route, said, life, booked>>

\* usage_sink.take() and usage_tracking.take().
Record(tokens) == booked' = IF booked = <<>> THEN <<tokens>> ELSE booked
Owed(r, s) == IF Translates(r) THEN s.usage ELSE Tracked(scan)

\* Poll::Ready(None): the answer is closed, whether or not it was complete.
Eof ==
    LET r == Only(route)
        s == IF Translates(r) THEN finish(t) ELSE t
    IN /\ life = "streaming" /\ life' = "ended"
       /\ Through(r, s, "ended")
       /\ Record(Owed(r, s))
       /\ UNCHANGED <<conv, route, said, torn, scan>>

\* Poll::Ready(Some(Err)): TranslatedBody records at once, TrackedBody when it
\* is dropped; MessagesStream ends the stream with an error event.
Fail ==
    LET r == Only(route)
    IN /\ life = "streaming" /\ life' = "failed"
       /\ Through(r, t, "failed")
       /\ IF Translates(r) THEN Record(t.usage) ELSE UNCHANGED booked
       /\ UNCHANGED <<conv, route, said, torn, scan>>

\* PinnedDrop: the body is over, or the client has gone.
Drop ==
    /\ life \in {"streaming", "ended", "failed"} /\ life' = "closed"
    /\ Record(Owed(Only(route), t))
    /\ UNCHANGED <<conv, route, said, torn, t, c, view, scan>>

Next ==
    \/ \E m \in Asked : AddMessage(m)
    \/ \E r \in Routes, include \in BOOLEAN : Send(r, include)
    \/ Deliver
    \/ DeliverRest
    \/ Eof
    \/ Fail
    \/ Drop

Spec == Init /\ [][Next]_vars

(***************************************************************************)
(* Properties                                                              *)
(***************************************************************************)

TextsOf(ms) ==
    FlattenSeq([i \in 1..Len(ms) |-> [j \in 1..Len(ms[i].content) |-> <<ms[i].role, ms[i].content[j]>>]])
TextsSent(ms) ==
    FlattenSeq([i \in 1..Len(ms) |->
        LET texts == SelectSeq(ms[i].blocks, LAMBDA b : b.type = "text")
        IN [j \in 1..Len(texts) |-> <<ms[i].role, texts[j].of>>]])
Ids(m, type) == LET bs == SelectSeq(m.blocks, LAMBDA b : b.type = type)
                IN {bs[j].of : j \in 1..Len(bs)}

\* What an Anthropic backend is sent (merge_consecutive) is a conversation it
\* accepts: the user speaks first, the roles alternate, the message after one
\* with tool calls begins with a result for each of them; and every text is
\* there once, in order, in the mouth it came from.
AnthropicAccepts ==
    LET ms == ToAnthropic(conv)
    IN /\ \A i \in 1..Len(ms) : ms[i].role = IF i % 2 = 1 THEN "user" ELSE "assistant"
       /\ \A i \in 1..(Len(ms) - 1) :
            /\ Ids(ms[i], "tool_use") = Ids(ms[i + 1], "tool_result")
            /\ \A j \in 1..Cardinality(Ids(ms[i], "tool_use")) :
                 ms[i + 1].blocks[j].type = "tool_result"
       /\ TextsSent(ms) = TextsOf(conv)

\* What a Gemini backend is sent: every function response carries the name of
\* the function that was called, though the client only gave the call's id and
\* ids come back in later turns (split_system, parts).
PartsOf(u, part) == LET ps == SelectSeq(u, LAMBDA p : p.part = part)
                    IN [j \in 1..Len(ps) |-> ps[j].of]
GeminiAccepts ==
    LET turns == ToGemini(conv)
    IN \A i \in 2..Len(turns) :
         LET called == PartsOf(turns[i - 1], "functionCall")
             given  == PartsOf(turns[i], "functionResponse")
         IN Range(given) = Range(called) /\ Len(given) = Len(called)

ConversationFaithful == AnthropicAccepts /\ GeminiAccepts

\* Whatever the backend says, wherever the chunks are cut and however the
\* stream ends, a client that reads a translated stream never meets an event its
\* protocol does not allow there (StreamTranslator, StreamConverter), and a
\* stream the gateway closed is closed for the client.
StreamValid ==
    /\ ~view.bad
    /\ life = "ended" /\ ~Untranslated(Only(route)) => view.over

\* A stream the backend completed tells the client what the same answer would
\* have told it whole: the text, the reasoning, the calls with their arguments,
\* why it stopped and what it cost (on_event against translate_response, on_data
\* against completion_to_message).
StreamSaysTheSame ==
    life = "ended" /\ said.over /\ torn = {} =>
      LET r     == Only(route)
          whole == Whole(r, said)
      IN \/ Untranslated(r)
         \/ view.usage = {} /\ ~t.include_usage /\
            [Heard([view EXCEPT !.usage = {whole.usage}]) EXCEPT !.usage = whole.usage] = whole
         \/ view.usage # {} /\ Heard(view) = whole

\* Every answer is booked exactly once, completed, broken off or abandoned
\* (take(), PinnedDrop); a completed one for what the backend reported; and a
\* broken one for its prompt as soon as the backend has said what that was.
UsageBookedOnce ==
    life = "closed" =>
      /\ Len(booked) = 1
      /\ said.over /\ torn = {} => booked[1] = said.usage
      /\ booked[1].out <= said.usage.out
      /\ Backend(Only(route)) # "openai" /\ said.begun /\ torn = {} => booked[1].in = Prompt
=============================================================================
