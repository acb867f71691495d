---------------------------- MODULE MCEgressGate ----------------------------
EXTENDS EgressGate, TLC

CONSTANTS m1, m2, c1, c2

Team == [namespace |-> "team", project |-> "p"]

\* A critical action, asked again with the same request id, and a lookup.
Deploy == [id |-> "r1", scope |-> Team, task |-> "deploy", action |-> TRUE,
           risk |-> 4, source |-> FALSE]
Lookup == [id |-> "r2", scope |-> Team, task |-> "review", action |-> FALSE,
           risk |-> 0, source |-> FALSE]

Token(kind, purpose, from, until, risk) ==
  [kind |-> kind, purpose |-> purpose, subject |-> "agent", issued_at |-> from,
   expires_at |-> until, maximum_authorized_risk |-> risk, single_use |-> TRUE]

Attested  == Token("purpose_attestation", Deploy, 0, 1, 4)
Confirmed == Token("confirmation_receipt", Deploy, 0, 1, 4)
ForLess   == Token("confirmation_receipt", Deploy, 0, 1, 2)
Stale     == Token("purpose_attestation", Lookup, -3, -2, 4)
MCTokens  == {Attested, Confirmed, ForLess, Stale}

Plain  == [reasoning_only_channel |-> FALSE, exact_source_expansion |-> FALSE]
Expert == [reasoning_only_channel |-> TRUE, exact_source_expansion |-> TRUE]

Ask(channel, agent, scope, purpose, attestation, confirmation, consumer) ==
  [channel |-> channel, agent |-> agent, scope |-> scope, purpose |-> purpose,
   attestation |-> attestation, confirmation |-> confirmation, consumer |-> consumer]

MCAsks ==
  {Ask("remote", "agent", Team, Deploy, Attested, Confirmed, Plain),
   Ask("remote", "agent", Team, Deploy, Attested, None, Plain),
   Ask("local_operator", None, Team, Deploy, None, Confirmed, Expert),
   Ask("local_operator", None, Team, Deploy, None, ForLess, Expert),
   Ask("local_operator", None, Team, Lookup, None, None, Expert),
   Ask("remote", "agent", Team, Lookup, Stale, None, Plain),
   Ask("remote", None, Team, None, None, None, Plain)}

Config(on, strict, closed, critical) ==
  [enabled |-> on, strict |-> strict, require_purpose |-> strict,
   require_trusted_attestation |-> strict,
   attestation_key |-> TRUE, confirmation_key |-> TRUE,
   confirmation_replay_protection |-> TRUE, record_denials |-> closed,
   fail_closed_on_policy_error |-> closed, high_risk_requires_source |-> FALSE,
   critical_risk_requires_confirmation |-> critical,
   contradiction_mode |-> IF critical THEN "deny" ELSE "source"]

MCConfigs == {Config(TRUE, TRUE, TRUE, TRUE), Config(TRUE, FALSE, FALSE, FALSE),
              Config(FALSE, FALSE, FALSE, FALSE)}

MCPrincipals == {[namespaces |-> {}, capabilities |-> {"influence_policy:write"}],
                 [namespaces |-> {"other"}, capabilities |-> {"influence_policy:write"}]}

MCPatches == {[state |-> "blocked"],
              [state |-> "reasoning_only", requires_human_confirmation |-> TRUE]}

MCNamespace == [m \in Memory |-> "team"]
MCDepth     == [m \in Memory |-> IF m = m1 THEN 0 ELSE 2]
MCTasks     == {"deploy", "review"}

Symmetry == Permutations(Caller)
=============================================================================
