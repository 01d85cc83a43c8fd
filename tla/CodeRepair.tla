----------------------------- MODULE CodeRepair ------------------------------
(***************************************************************************)
(* The repair workflow of a sub-session that has the capability group      *)
(* CodeRepairOps: code_repair_state in the meta of its session, the four   *)
(* tools and the hooks around them.  SubAgentTurn says when they run.      *)
(*                                                                         *)
(* The state is a record.  What a tool does depends on files and commands: *)
(* "good" is a tool that did its work, "bad" one that found the checks     *)
(* failing, "error" one that returned the text of an error, "broken" one   *)
(* that could not be started.  The hooks finish within their time.         *)
(***************************************************************************)
EXTENDS Naturals

VARIABLE rep_state

\* verified is verification_passed, pending: gate_fail_reasons is not empty.
RepInit == \E on \in BOOLEAN :
              rep_state = [on |-> on, phase |-> "reproduce", verified |-> FALSE,
                           pending |-> FALSE]

\* "guarded" is a patch of a protected file, "hopeless" a patch or a
\* verification without the arguments it needs.
RepairTool == {"collect", "patch", "guarded", "verify", "write", "hopeless"}

Outcome == {"good", "bad", "error", "broken"}

(***************************************************************************)
(* The tools.  An error leaves the state alone.                            *)
(***************************************************************************)
\* Evidence from a command or a log begins the patching.
CollectEvidence(rep) == [rep EXCEPT !.phase = IF @ = "reproduce" THEN "patch" ELSE @]

\* The verdict of an earlier verification is kept.
ApplyPatch(rep) == [rep EXCEPT !.phase = "verify"]

RunVerification(rep, passed) ==
    [rep EXCEPT !.phase = IF passed THEN "report" ELSE "patch",
                !.verified = passed, !.pending = ~passed]

WriteArtifacts(rep) == [rep EXCEPT !.phase = "report"]

ToolDone(rep, tool, outcome) ==
    CASE tool = "verify" /\ outcome \in {"good", "bad"} ->
            RunVerification(rep, outcome = "good")
      [] tool = "collect" /\ outcome = "good" -> CollectEvidence(rep)
      [] tool = "patch" /\ outcome = "good" -> ApplyPatch(rep)
      [] tool = "write" /\ outcome = "good" -> WriteArtifacts(rep)
      [] OTHER -> rep

(***************************************************************************)
(* The hooks.                                                              *)
(***************************************************************************)
\* repair_before_tool_call: a patch of a protected file becomes a note in
\* progress.md, a call that cannot work ends the turn.
Redirected(tool) == IF tool = "guarded" THEN "write" ELSE tool
Hopeless(tool) == tool = "hopeless"

\* A tool that could be started counts as a success, whatever it returned.
NextPhase(rep, tool, started) ==
    CASE tool = "patch" -> IF started THEN "verify" ELSE "patch"
      [] tool = "verify" -> IF rep.verified THEN "report" ELSE "patch"
      [] tool = "write" -> "report"
      [] OTHER -> rep.phase

\* Mutant: the verification is not looked at.
ArtifactsPending(rep, missing) == missing

\* _done_gate: artifacts are asked for once the verification has passed.
GatePending(rep, missing) == ~rep.verified \/ missing

\* repair_after_tool_call.  When the gate is pending the hook goes on to read
\* a field the payload does not have: what it saved stays, what it wanted
\* (a message and the end of the turn) is dropped.
AfterTool(rep, tool, started, missing) ==
    [rep EXCEPT !.phase = NextPhase(rep, tool, started),
                !.pending = GatePending(rep, missing)]

\* repair_after_llm_response of an answer without calls: the call it makes
\* of it, or whether it sends the model back.
ForcedCall(rep) == CASE rep.phase = "reproduce" -> "collect"
                     [] rep.phase = "verify" -> "verify"
                     [] OTHER -> "none"
MustResolve(rep) == rep.phase = "report" /\ rep.pending
=============================================================================
