------------------------- MODULE DeliverableContract -------------------------
(***************************************************************************)
(* The contract a sub-task was delegated with (done_when in the meta of    *)
(* its session) and what is kept of its checks (dc_state): the hooks       *)
(* dc_after_llm_response and dc_before_tool_call with dc_meta and          *)
(* dc_validator.  SubAgentTurn says when they run.                         *)
(*                                                                         *)
(* Whether a rule holds is up to the files and commands of the workspace.  *)
(* A check that takes longer than its hook may is given up with nothing    *)
(* saved, and the turn goes on as if there had been none.                  *)
(***************************************************************************)
EXTENDS Naturals

CONSTANTS
    Rule,           \* rules a contract may have
    Threshold       \* _THRESHOLD: failed checks after which the task fails

ASSUME ContractAssumption == Threshold \in Nat \ {0}

VARIABLES
    dc_rules,       \* the rules of this contract
    dc_count,       \* false_finish_count, counted up to Threshold
    dc_last         \* history: how the last check of this turn came out

dc_vars == <<dc_rules, dc_count, dc_last>>

DcInit == /\ dc_rules \in SUBSET Rule
          /\ dc_count = 0 /\ dc_last = "none"

\* evaluate_done_when over the rules that hold now.
Verdict(holding) == IF dc_rules \subseteq holding THEN "pass" ELSE "fail"

\* A contract without rules is not checked.
CheckContract ==
    \/ /\ dc_rules = {}
       /\ dc_last' = "none"
       /\ UNCHANGED <<dc_rules, dc_count>>
    \/ \E holding \in SUBSET dc_rules :
          /\ dc_rules # {}
          /\ dc_last' = Verdict(holding)
          /\ dc_count' = IF Verdict(holding) = "fail" /\ dc_count < Threshold
                         THEN dc_count + 1 ELSE dc_count
          /\ UNCHANGED dc_rules
    \/ /\ dc_rules # {}
       /\ dc_last' = "late"
       /\ UNCHANGED <<dc_rules, dc_count>>

\* After a failed check the hooks have the task reported as failed when too
\* many did fail, and ask for another turn otherwise.
TooMany == dc_count' >= Threshold
GivesUp == dc_last' = "fail" /\ TooMany
SendsBack == dc_last' = "fail" /\ ~TooMany
=============================================================================
