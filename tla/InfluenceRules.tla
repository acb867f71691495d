--------------------------- MODULE InfluenceRules ---------------------------
(***************************************************************************)
(* What a memory may be used for: the influence policy of a memory, its    *)
(* patches, the state matrix and the evaluator that every surface asks     *)
(* before it releases content (influence.rs, egress.rs).  Nothing here has *)
(* state; EgressGate runs these rules inside a request, and                *)
(* EgressGateProofs says for every input how confirmation and risk act.    *)
(***************************************************************************)
EXTENDS Naturals, FiniteSets

CONSTANTS Task, MAX_TASK_TYPES

ASSUME MaxTaskTypesAssumption == MAX_TASK_TYPES \in Nat

\* An action's risk, from None (0) to Critical (4).
ActionRisk == 0..4
High == 3
Critical == 4

InfluenceState ==
  {"eligible", "quarantined", "reasoning_only", "action_restricted",
   "blocked", "superseded"}

\* An optional depth is a set of at most one number.
FieldType ==
  [version |-> Nat, state |-> InfluenceState,
   allowed_task_types |-> SUBSET Task, denied_task_types |-> SUBSET Task,
   maximum_action_risk |-> ActionRisk,
   requires_original_source |-> BOOLEAN, requires_human_confirmation |-> BOOLEAN,
   maximum_derivation_depth |-> SUBSET Nat]

MemoryInfluencePolicy ==
  [version : Nat, state : InfluenceState,
   allowed_task_types : SUBSET Task, denied_task_types : SUBSET Task,
   maximum_action_risk : ActionRisk,
   requires_original_source : BOOLEAN, requires_human_confirmation : BOOLEAN,
   maximum_derivation_depth : SUBSET Nat]

\* The policy of a memory that has none of its own.
DefaultPolicy ==
  [version |-> 1, state |-> "eligible",
   allowed_task_types |-> {}, denied_task_types |-> {},
   maximum_action_risk |-> Critical,
   requires_original_source |-> FALSE, requires_human_confirmation |-> FALSE,
   maximum_derivation_depth |-> {}]

is_permissive(policy) ==
  policy = [DefaultPolicy EXCEPT !.version = policy.version]

-----------------------------------------------------------------------------
(* Patches: a record with some of a policy's fields. *)

PatchField ==
  {"state", "allowed_task_types", "denied_task_types", "maximum_action_risk",
   "requires_original_source", "requires_human_confirmation",
   "maximum_derivation_depth"}

\* A list of task types becomes the set of its normalized entries.
canonicalize_task_types(patch) ==
  \A f \in DOMAIN patch \intersect {"allowed_task_types", "denied_task_types"} :
    Cardinality(patch[f]) <= MAX_TASK_TYPES

PatchOK(patch) ==
  /\ DOMAIN patch \subseteq PatchField
  /\ \A f \in DOMAIN patch : patch[f] \in FieldType[f]

apply(patch, policy) ==
  LET field(f) == IF f \in DOMAIN patch THEN patch[f] ELSE policy[f] IN
  [version |-> policy.version, state |-> field("state"),
   allowed_task_types |-> field("allowed_task_types"),
   denied_task_types |-> field("denied_task_types"),
   maximum_action_risk |-> field("maximum_action_risk"),
   requires_original_source |-> field("requires_original_source"),
   requires_human_confirmation |-> field("requires_human_confirmation"),
   maximum_derivation_depth |-> field("maximum_derivation_depth")]

\* The request of an operator: not empty, for the version that is current,
\* canonical, and a change.
PatchAccepted(patch, expected_version, policy) ==
  /\ DOMAIN patch # {}
  /\ expected_version = policy.version
  /\ canonicalize_task_types(patch)
  /\ apply(patch, policy) # policy

NextPolicy(patch, policy) ==
  [apply(patch, policy) EXCEPT !.version = policy.version + 1]

\* An operator without namespaces of his own acts in all of them.
authorize(principal, capability, namespace) ==
  /\ principal.namespaces = {} \/ namespace \in principal.namespaces
  /\ capability \in principal.capabilities

-----------------------------------------------------------------------------
(* The evaluator.  A candidate has a policy, a derivation depth and a flag *)
(* whether it is in an unresolved contradiction set.                       *)

ActionUse(purpose) == purpose.action \/ purpose.risk > 0

state_disposition(policy, action_use, risk) ==
  CASE policy.state \in {"blocked", "quarantined", "superseded"} -> "deny"
    [] policy.state = "reasoning_only" ->
         IF action_use THEN "deny" ELSE "allow_reasoning_only"
    [] policy.state = "action_restricted" ->
         IF action_use /\ risk > policy.maximum_action_risk THEN "deny" ELSE "allow"
    [] policy.state = "eligible" -> "allow"

Disposition(policy, purpose) ==
  state_disposition(policy, ActionUse(purpose), purpose.risk)

TaskRefused(policy, purpose) ==
  \/ purpose.task \in policy.denied_task_types
  \/ policy.allowed_task_types # {} /\ purpose.task \notin policy.allowed_task_types

HighRiskDispute(candidate, purpose) ==
  candidate.disputed /\ purpose.risk >= High

SourceRequired(candidate, purpose, config) ==
  \/ candidate.policy.requires_original_source
  \/ purpose.source
  \/ config.high_risk_requires_source /\ purpose.risk >= High
  \/ HighRiskDispute(candidate, purpose) /\ config.contradiction_mode = "source"

ConfirmationRequired(candidate, purpose, config) ==
  \/ candidate.policy.requires_human_confirmation
  \/ config.critical_risk_requires_confirmation /\ purpose.risk = Critical
  \/ HighRiskDispute(candidate, purpose) /\ config.contradiction_mode = "confirmation"

\* What no confirmation can change.
Denied(candidate, purpose, consumer, config) ==
  LET policy == candidate.policy IN
  \/ Disposition(policy, purpose) = "deny"
  \/ Disposition(policy, purpose) = "allow_reasoning_only" /\ ~consumer.reasoning_only_channel
  \/ TaskRefused(policy, purpose)
  \/ purpose.risk > policy.maximum_action_risk
  \/ \E d \in policy.maximum_derivation_depth : candidate.depth > d
  \/ HighRiskDispute(candidate, purpose) /\ config.contradiction_mode = "deny"
  \/ SourceRequired(candidate, purpose, config) /\ ~consumer.exact_source_expansion

Decisions ==
  {"deny", "confirmation", "source", "reasoning", "allow"}

evaluate(candidate, purpose, consumer, confirmed, config) ==
  CASE Denied(candidate, purpose, consumer, config) -> "deny"
    [] OTHER ->
       IF ConfirmationRequired(candidate, purpose, config) /\ ~confirmed
       THEN "confirmation"
       ELSE IF SourceRequired(candidate, purpose, config) THEN "source"
       ELSE IF Disposition(candidate.policy, purpose) = "allow_reasoning_only"
       THEN "reasoning" ELSE "allow"
=============================================================================
