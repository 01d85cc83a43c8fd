----------------------------- MODULE ModelReply ------------------------------
(***************************************************************************)
(* What OpenAICompatibleLLMClient makes of the reply of a chat endpoint.   *)
(* A reply has a text or not, a number of calls and of calls in its        *)
(* reasoning, and is cut when the provider ended it for its length.  Of    *)
(* the arguments of its last call the cut leaves the whole, a part, an     *)
(* empty string, or no field at all; "default" is the {} a parser puts in  *)
(* their place.                                                            *)
(***************************************************************************)
EXTENDS Naturals

\* _parse_chat_completion_result: calls in the reasoning count only when
\* there are no proper ones; an empty string is left as it is.
ChatResult(reply) ==
    [text |-> reply.text,
     calls |-> IF reply.calls > 0 THEN reply.calls ELSE reply.reasoned,
     args |-> IF reply.args = "absent" THEN "default" ELSE reply.args,
     finish |-> IF reply.cut THEN "length" ELSE "stop"]

\* Arguments that are missing or empty are taken for none.
OrNone(args) == IF args \in {"empty", "absent"} THEN "default" ELSE args

\* Mutant: a reply with calls is never incomplete.
ResponsesCallsFirst(reply) ==
    [text |-> reply.text,
     calls |-> reply.calls,
     args |-> OrNone(reply.args),
     finish |-> CASE reply.calls > 0 -> "tool_calls"
                  [] reply.calls = 0 /\ reply.cut -> "length"
                  [] OTHER -> "completed"]

\* _parse_responses_result: that a reply is incomplete for its length comes
\* before its calls.
ResponsesResult(reply) ==
    [text |-> reply.text,
     calls |-> reply.calls,
     args |-> OrNone(reply.args),
     finish |-> CASE reply.cut -> "length"
                  [] ~reply.cut /\ reply.calls > 0 -> "tool_calls"
                  [] OTHER -> "completed"]
=============================================================================
