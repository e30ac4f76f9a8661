---------------------------- MODULE Orchestrator ----------------------------
(***************************************************************************)
(* Approval, sandbox and retry of one tool call after the other            *)
(* (core/src/tools/orchestrator.rs): ask first if the command needs it, run *)
(* it in the sandbox, and if that is denied ask again and run it outside.   *)
(*                                                                         *)
(* The runtime of the tool is another module's: it says how an attempt     *)
(* went by Denied or Fails. All calls here are of the same command and     *)
(* directory: of the keys of the approval cache, only the permissions that *)
(* are asked for tell two calls apart.                                     *)
(***************************************************************************)
EXTENDS Naturals

CONSTANTS Modes,   \* approval policy, and whether the sandbox is open: full
                   \* access, or a platform that has none
          NoRetry  \* the policies under which the tool does not want to be run
                   \* outside the sandbox when it has been denied in it

Policies == {"never", "on_failure", "on_request", "untrusted"}

ASSUME ModesAssumption == Modes \subseteq [policy : Policies, open : BOOLEAN]
ASSUME NoRetryAssumption == "never" \in NoRetry /\ NoRetry \subseteq Policies

VARIABLES mode,      \* of the session
          cached,    \* the keys that are approved for the session
          stage,     \* of ToolOrchestrator::run
          request,   \* what the command needs, and whether it asks to be
                     \* run outside the sandbox
          approved,  \* already_approved
          asks,      \* how often the user has been asked in this run
          boxed      \* the attempt is made in the sandbox

orchestrator == <<mode, cached, stage, request, approved, asks, boxed>>

\* ExecApprovalRequirement; "bypass" is a Skip that bypasses the sandbox.
Requests == [need : {"skip", "bypass", "ask", "forbidden"}, escalated : BOOLEAN]
NoRequest == [need |-> "skip", escalated |-> FALSE]

\* What create_exec_approval_requirement_for_command and the check of the
\* handler let through to the orchestrator.
Possible(r) == /\ mode.policy = "never" => r.need # "ask"
               /\ r.escalated => mode.policy = "on_request"

OrchestratorInit ==
  /\ mode \in Modes /\ cached = {}
  /\ stage = "off" /\ request = NoRequest
  /\ approved = FALSE /\ asks = 0 /\ boxed = FALSE

\* approval_key: the sandbox_permissions of the request.
ApprovalKey == request.escalated

\* select_initial and sandbox_mode_for_first_attempt
FirstBoxed(r) == ~(mode.open \/ r.escalated \/ r.need = "bypass")

OrchestratorBegin(r) ==
  /\ stage = "off" /\ Possible(r)
  /\ request' = r
  /\ stage' = CASE r.need = "forbidden" -> "refused"
                [] r.need = "ask" -> "ask"
                [] OTHER -> "first"
  /\ boxed' = FirstBoxed(r)
  /\ UNCHANGED <<mode, cached, approved, asks>>

\* start_approval_async, of with_cached_approval: the user is asked unless the
\* cache has the answer.
Approval ==
  /\ stage \in {"ask", "again"}
  /\ \/ /\ stage' = IF stage = "ask" THEN "first" ELSE "second"
        /\ approved' = (approved \/ stage = "ask")
        /\ \/ ApprovalKey \in cached /\ UNCHANGED <<cached, asks>>
           \/ /\ ApprovalKey \notin cached /\ asks' = asks + 1
              /\ cached' \in {cached, cached \union {ApprovalKey}}
     \/ /\ ApprovalKey \notin cached /\ asks' = asks + 1
        /\ stage' = "refused"
        /\ UNCHANGED <<approved, cached>>
  /\ UNCHANGED <<mode, request, boxed>>

\* Mutant of Denied: a call that has been approved is asked about again.
Denied_AskAgain ==
  /\ stage = "first" /\ boxed
  /\ IF mode.policy \in NoRetry
     THEN stage' = "refused" /\ UNCHANGED boxed
     ELSE stage' = "again" /\ boxed' = FALSE
  /\ UNCHANGED <<mode, cached, request, approved, asks>>

\* The sandbox has denied the attempt: a second one, if the policy has it.
Denied ==
  /\ stage = "first" /\ boxed
  /\ IF mode.policy \in NoRetry
     THEN stage' = "refused" /\ UNCHANGED boxed
     ELSE /\ stage' = IF approved THEN "second" ELSE "again"
          /\ boxed' = FALSE
  /\ UNCHANGED <<mode, cached, request, approved, asks>>

\* Any other error of an attempt.
Fails ==
  /\ stage \in {"first", "second"}
  /\ stage' = "refused"
  /\ UNCHANGED <<mode, cached, request, approved, asks, boxed>>

\* The caller has its result, or has been dropped while it waited for it.
OrchestratorEnds ==
  /\ stage' = "off" /\ request' = NoRequest
  /\ approved' = FALSE /\ asks' = 0 /\ boxed' = FALSE
  /\ UNCHANGED <<mode, cached>>
-----------------------------------------------------------------------------
OrchestratorTypeOK ==
  /\ mode \in Modes /\ cached \subseteq BOOLEAN
  /\ stage \in {"off", "ask", "first", "again", "second", "refused"}
  /\ request \in Requests
  /\ approved \in BOOLEAN /\ asks \in Nat /\ boxed \in BOOLEAN

\* "No re-approval thanks to caching" (orchestrator.rs:5): a run asks the user
\* at most once, and never under the policy that never asks; a process is
\* outside the sandbox only if there is none, a rule of the policy or the
\* request has it so from the start, or somebody has approved of this run or of
\* its key.
ApprovalsHold ==
  /\ asks <= 1
  /\ mode.policy = "never" => asks = 0
  /\ stage \in {"first", "second"} /\ request.need = "ask" => asks = 1 \/ ApprovalKey \in cached
  /\ stage \in {"first", "second"} /\ ~boxed /\ FirstBoxed(request)
       => asks = 1 \/ ApprovalKey \in cached
=============================================================================
