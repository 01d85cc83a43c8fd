------------------------------ MODULE MCAgent ------------------------------
(* The turns of one session on a small instance: what a turn does with an  *)
(* answer, how the model is asked for it, and what it is shown.  They are  *)
(* models of the same turn that share no state, so each is checked by      *)
(* itself: focus says which.                                               *)
EXTENDS SubAgentTurn, ModelClient, ContextWindow

VARIABLE focus

MCInit == /\ AgentInit /\ LlmInit /\ CtxInit
          /\ focus \in {"answers", "requests", "prompts"}
          /\ focus # "answers" => turn_kind = "main"
          /\ focus # "requests" => llm_keys = {}
          /\ focus # "prompts" => ~ctx_sub

MCNext ==
    \/ focus = "answers" /\ AgentNext /\ UNCHANGED <<llm_vars, ctx_vars, focus>>
    \/ focus = "requests" /\ LlmNext /\ UNCHANGED <<agent_vars, ctx_vars, focus>>
    \/ focus = "prompts" /\ CtxNext /\ UNCHANGED <<agent_vars, llm_vars, focus>>

MCSpec == MCInit /\ [][MCNext]_<<agent_vars, llm_vars, ctx_vars, focus>>
=============================================================================
