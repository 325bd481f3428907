----------------------------- MODULE MCDispatch -----------------------------
(***************************************************************************)
(* A request's way to a backend in one run: where it goes (Routing), what  *)
(* is made of it and of its answer on the way (Translation), and what is   *)
(* kept of the answer (ResponseCache).  They share no state: the initial   *)
(* state says which of them is at work, and the others stand still.        *)
(*                                                                         *)
(* Routing: three models on four backends, one of them speaking a protocol *)
(* this build does not know, behind three frontend models that use every   *)
(* condition, a refusal, a jump, a jump to a model that is gone, and a     *)
(* cycle.  Translation: every pairing of client and backend, conversations *)
(* with one or two tool calls whose ids come back, answers of up to four   *)
(* pieces with up to two calls.  The cache: two requests for two bodies,   *)
(* answers of which one fits beside another, two changes of policy.        *)
(***************************************************************************)
EXTENDS Routing, ResponseCache

CONSTANTS Routes, Asked, MaxTurns, MaxPieces, MaxCalls, Prompt

VARIABLES part, conv, sent, said, torn, translator, converter, view, scan, life, booked

routing     == vars
translation == <<conv, sent, said, torn, translator, converter, view, scan, life, booked>>

Always == [principals |-> {}, roles |-> {}, stream |-> {}, min_prompt |-> {}, max_prompt |-> {},
        min_max_tokens |-> {}, max_max_tokens |-> {}, headers |-> {}, class |-> {},
        min_used |-> {}, max_used |-> {}, max_inflight |-> {}, after |-> {}, before |-> {},
        days |-> {}, offset |-> 0, min_cost |-> {}, max_cost |-> {}]

To(m) == [model |-> m, weight |-> 1, members |-> <<>>, policy |-> {}]

PoolOf(members, policy) == [model |-> "pool", weight |-> 1, members |-> members, policy |-> policy]

Route(c, targets) == [conditions |-> c, action |-> [kind |-> "route"], targets |-> targets]
Deny(c) == [conditions |-> c, action |-> [kind |-> "deny", status |-> 403], targets |-> <<>>]
Jump(c, name) == [conditions |-> c, action |-> [kind |-> "jump", to |-> name], targets |-> <<>>]

Split == PoolOf(<<[To("big") EXCEPT !.weight = 2], To("small")>>, {})
Balanced == PoolOf(<<To("small"), To("big")>>, {"least-loaded"})
Quick == PoolOf(<<To("small"), To("far"), To("big")>>, {"lowest-latency"})

MCFrontends ==
  [chat |-> [rules |-> <<Deny([Always EXCEPT !.headers = {"blocked"}]),
                         Jump([Always EXCEPT !.after = {3}, !.before = {1}, !.offset = 1], "night"),
                         Route([Always EXCEPT !.min_used = {90}], <<To("small")>>),
                         Route([Always EXCEPT !.stream = {TRUE}, !.max_prompt = {2}], <<Split>>),
                         Route([Always EXCEPT !.roles = {"staff"}, !.max_inflight = {1}],
                               <<To("small"), To("big")>>)>>,
             default |-> <<To("small"), Balanced, To("big")>>],
   night |-> [rules |-> <<Jump(Always, "gone"),
                          Route([Always EXCEPT !.class = {"code"}, !.min_max_tokens = {1}], <<Quick>>),
                          Route([Always EXCEPT !.min_cost = {4}, !.days = {1}], <<To("far"), To("small")>>)>>,
              default |-> <<To("far"), To("big")>>],
   loop |-> [rules |-> <<Jump([Always EXCEPT !.principals = {"ann"}], "loop")>>, default |-> <<>>]]

MCModelDefs ==
  [big |-> [backends |-> <<[uid |-> 0, protocol |-> "openai", price |-> {2}, window |-> {}],
                           [uid |-> 1, protocol |-> "openai", price |-> {}, window |-> {}]>>,
            policy |-> {}, window |-> {0}],
   small |-> [backends |-> <<[uid |-> 2, protocol |-> "openai", price |-> {1}, window |-> {2}]>>,
              policy |-> {"least-loaded"}, window |-> {9}],
   far |-> [backends |-> <<[uid |-> 3, protocol |-> "later", price |-> {}, window |-> {}]>>,
            policy |-> {}, window |-> {}]]

Ann == [id |-> "ann", roles |-> {"staff"}]

Plain == [caller |-> {Ann}, prompt |-> 1, max_tokens |-> {}, streaming |-> FALSE, headers |-> {},
          now |-> 1, class |-> {}, refines |-> {}]

MCFacts ==
  {Plain,
   [Plain EXCEPT !.headers = {"blocked"}],
   [Plain EXCEPT !.streaming = TRUE],
   [Plain EXCEPT !.max_tokens = {3}, !.caller = {}],
   [Plain EXCEPT !.now = 2, !.class = {"code"}, !.max_tokens = {1}],
   [Plain EXCEPT !.now = 27, !.prompt = 4]}

MCFallback == {"big"}

Msg(role, content, calls, results) ==
    [role |-> role, content |-> content, calls |-> calls, results |-> results]
Made(id, name) == [id |-> id, name |-> name]

MCAsked ==
    {Msg("user", <<1>>, <<>>, <<>>), Msg("user", <<2, 3>>, <<>>, <<>>),
     Msg("user", <<>>, <<>>, <<1>>), Msg("user", <<4>>, <<>>, <<1>>),
     Msg("user", <<>>, <<>>, <<2, 1>>), Msg("user", <<5>>, <<>>, <<1, 2>>),
     Msg("assistant", <<6>>, <<>>, <<>>), Msg("assistant", <<>>, <<Made(1, "f")>>, <<>>),
     Msg("assistant", <<7>>, <<Made(1, "g")>>, <<>>),
     Msg("assistant", <<>>, <<Made(1, "g"), Made(2, "f")>>, <<>>)}

MCRoutes == {"chat", "messages"} \X {"openai", "anthropic", "gemini"}

Wire == INSTANCE Translation WITH route <- sent, t <- translator, c <- converter

MCInit == part \in {"routing", "translation", "cache"} /\ Init /\ Wire!Init /\ CacheInit

MCNext ==
    \/ part = "routing" /\ Next /\ UNCHANGED <<part, translation, caching>>
    \/ part = "translation" /\ Wire!Next /\ UNCHANGED <<part, routing, caching>>
    \/ part = "cache" /\ CacheNext /\ UNCHANGED <<part, routing, translation>>

MCSpec == MCInit /\ [][MCNext]_<<part, routing, translation, caching>>

\* Routing (decide, matches_with_cost, order_candidates): the first rule of the
\* operator's definition that matches decides, on every proxy and along every
\* jump; a rule on spend acts on a spend of the same 5% band; and the failover
\* chain names every model the targets stand for, fit before health before the
\* written order.
RoutedAsWritten == part = "routing" => FirstRuleDecides /\ SpendInBand /\ ChainOrdered

\* Translation: what an Anthropic or Gemini backend is sent is a conversation it
\* accepts, with every text and every tool result where it belongs.
ConversationFaithful == part = "translation" => Wire!ConversationFaithful

\* Translation (StreamTranslator, StreamConverter): no event reaches the client
\* where its protocol does not allow it, wherever the chunks are cut and however
\* the stream ends, and a completed stream tells the client what the same answer
\* would have told it whole.
StreamFaithful == part = "translation" => Wire!StreamValid /\ Wire!StreamSaysTheSame

\* Translation: every answer is booked exactly once, for what the backend said.
UsageBookedOnce == part = "translation" => Wire!UsageBookedOnce
=============================================================================
