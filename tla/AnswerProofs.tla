---------------------------- MODULE AnswerProofs ----------------------------
(***************************************************************************)
(* Proofs about what an agent is given: about the egress gate, for any     *)
(* calls, tokens, policies, updates and configurations, and the evaluator  *)
(* it asks; and about a search, for any memories, signals, limits and      *)
(* replies of the reranker.  The two share no variable.                    *)
(***************************************************************************)
EXTENDS EgressGate, Search, FiniteSetTheorems, SequenceTheorems, TLAPS

-----------------------------------------------------------------------------
(* The evaluator. *)

\* A confirmation never turns a denial into a release.
THEOREM ConfirmationOnlyConfirms ==
  ASSUME NEW candidate, NEW purpose, NEW consumer, NEW cfg,
         evaluate(candidate, purpose, consumer, FALSE, cfg) = "deny"
  PROVE  evaluate(candidate, purpose, consumer, TRUE, cfg) = "deny"
  BY DEF evaluate

\* A riskier action is never granted what a less risky one, otherwise the
\* same, is refused.
THEOREM RiskNeverHelps ==
  ASSUME NEW candidate, NEW purpose, NEW riskier, NEW consumer, NEW confirmed, NEW cfg,
         candidate.policy \in MemoryInfluencePolicy,
         purpose.risk \in ActionRisk, riskier.risk \in ActionRisk,
         purpose.risk <= riskier.risk, riskier.action = purpose.action,
         riskier.task = purpose.task, riskier.source = purpose.source,
         evaluate(candidate, purpose, consumer, confirmed, cfg) \in {"deny", "confirmation"}
  PROVE  evaluate(candidate, riskier, consumer, confirmed, cfg) \in {"deny", "confirmation"}
<1> USE DEF ActionRisk, High, Critical
<1> DEFINE rules == candidate.policy
<1>0. rules.maximum_action_risk \in ActionRisk /\ rules.state \in InfluenceState
  BY DEF MemoryInfluencePolicy
<1>1. ActionUse(purpose) => ActionUse(riskier)
  BY DEF ActionUse
<1>2. HighRiskDispute(candidate, purpose) => HighRiskDispute(candidate, riskier)
  BY DEF HighRiskDispute
<1>3. SourceRequired(candidate, purpose, cfg) => SourceRequired(candidate, riskier, cfg)
  BY <1>2 DEF SourceRequired
<1>4. Disposition(rules, purpose) = "deny" => Disposition(rules, riskier) = "deny"
  BY <1>0, <1>1 DEF Disposition, state_disposition, InfluenceState
<1>5. Disposition(rules, purpose) = "allow_reasoning_only"
      => Disposition(rules, riskier) \in {"deny", "allow_reasoning_only"}
  BY <1>0 DEF Disposition, state_disposition, InfluenceState
<1>6. TaskRefused(rules, purpose) => TaskRefused(rules, riskier)
  BY DEF TaskRefused
<1>7. purpose.risk > rules.maximum_action_risk => riskier.risk > rules.maximum_action_risk
  BY <1>0
<1>8. Denied(candidate, purpose, consumer, cfg) => Denied(candidate, riskier, consumer, cfg)
  BY <1>2, <1>3, <1>4, <1>5, <1>6, <1>7 DEF Denied
<1>9. ConfirmationRequired(candidate, purpose, cfg)
      => ConfirmationRequired(candidate, riskier, cfg)
  BY <1>2 DEF ConfirmationRequired
<1> QED BY <1>8, <1>9 DEF evaluate

-----------------------------------------------------------------------------
(* Type correctness. *)

\* The program points, spelled out.
LEMMA Points ==
  /\ PC = {"idle", "done", "failed", "purge_attestation", "claim_attestation",
           "purge_confirmation", "claim_confirmation", "policies",
           "contradictions", "record"}
  /\ Claiming = {"purge_attestation", "claim_attestation",
                 "purge_confirmation", "claim_confirmation"}
  /\ Deciding = {"policies", "contradictions", "record"}
  BY DEF PC, Claiming, Deciding

LEMMA AfterAttestationPoint ==
  \A ask : AfterAttestation(ask) \in {"purge_confirmation", "policies"}
  BY DEF AfterAttestation

LEMMA EvaluateType ==
  \A candidate, purpose, consumer, confirmed, cfg :
    evaluate(candidate, purpose, consumer, confirmed, cfg) \in Decisions
  BY DEF evaluate, Decisions

LEMMA DefaultType == DefaultPolicy \in MemoryInfluencePolicy
  BY DEF DefaultPolicy, MemoryInfluencePolicy, InfluenceState, ActionRisk, Critical

LEMMA NextPolicyType ==
  ASSUME NEW p \in MemoryInfluencePolicy, NEW patch, PatchOK(patch)
  PROVE  /\ NextPolicy(patch, p) \in MemoryInfluencePolicy
         /\ NextPolicy(patch, p).version = p.version + 1
<1> DEFINE a == apply(patch, p)
<1>1. a \in MemoryInfluencePolicy
  BY DEF apply, MemoryInfluencePolicy, PatchOK, PatchField, FieldType
<1>2. a.version = p.version
  BY DEF apply
<1>3. p.version + 1 \in Nat
  BY DEF MemoryInfluencePolicy
<1> HIDE DEF a
<1> QED BY <1>1, <1>2, <1>3 DEF NextPolicy, MemoryInfluencePolicy, a

LEMMA ConfigType ==
  ASSUME config \in Configs
  PROVE  /\ config.enabled \in BOOLEAN /\ config.strict \in BOOLEAN
         /\ config.fail_closed_on_policy_error \in BOOLEAN
         /\ config.confirmation_replay_protection \in BOOLEAN
<1>1. ConfigOK(config)
  BY GateAssumption
<1> QED BY <1>1 DEF ConfigOK, Flags

LEMMA DecisionType ==
  ASSUME NEW c, NEW m PROVE Decision(c, m) \in Decisions \union {None}
  BY EvaluateType DEF Decision

(***************************************************************************)
(* A call that is to claim a nonce has the token; TypeOK needs it to type  *)
(* the history of claims.                                                  *)
(***************************************************************************)
TokensInHand ==
  \A c \in Caller :
    /\ pc[c] \in {"purge_attestation", "claim_attestation"}
         => asked[c].attestation # None
    /\ pc[c] \in {"purge_confirmation", "claim_confirmation"}
         => asked[c].confirmation # None

TypeInv == TypeOK /\ TokensInHand

LEMMA InitTypeInv == Init => TypeInv
  BY GateAssumption, DefaultType DEF Init, TypeInv, TypeOK, TokensInHand, NoPolicies, PC

LEMMA NextTypeInv ==
  ASSUME TypeInv, [Next]_vars
  PROVE  TypeInv'
<1> USE Points DEF TypeInv, TypeOK, TokensInHand
<1>1. ASSUME NEW c \in Caller, NEW ask \in Asks, Call(c, ask) PROVE TypeInv'
  <2> DEFINE p == IF ~config.enabled THEN "done"
                  ELSE IF ~Verified(ask) THEN "failed"
                  ELSE IF AttestationNeeded(ask) THEN "purge_attestation"
                  ELSE AfterAttestation(ask)
  <2>a. pc' = [pc EXCEPT ![c] = p]
    BY <1>1 DEF Call, GateDisabled, Verify
  <2>b. /\ p \in {"done", "failed", "purge_attestation", "purge_confirmation", "policies"}
        /\ p = "purge_attestation" => ask.attestation # None
        /\ p = "purge_confirmation" => ask.confirmation # None
    <3>1. /\ AfterAttestation(ask) \in {"purge_confirmation", "policies"}
          /\ AfterAttestation(ask) = "purge_confirmation" => ask.confirmation # None
      BY DEF AfterAttestation, ClaimsConfirmation
    <3>2. Verified(ask) /\ AttestationNeeded(ask) => ask.attestation # None
      BY DEF Verified, TrustedRuntimeVerifier
    <3> QED BY <3>1, <3>2
  <2> HIDE DEF p
  <2>1. pc' \in [Caller -> PC] /\ released' \in [Caller -> SUBSET Memory]
    <3>1. released' \in [Caller -> SUBSET Memory]
      BY <1>1 DEF Call, GateDisabled, Verify
    <3>2. p \in PC
      BY <2>b
    <3> QED BY <2>a, <3>1, <3>2
  <2>2. \A d \in Caller : pc'[d] # "idle" => asked'[d] \in Asks
    BY <1>1, <2>a DEF Call
  <2>4. TokensInHand'
    <3>1. asked' = [asked EXCEPT ![c] = ask]
      BY <1>1 DEF Call
    <3> QED BY <2>a, <2>b, <3>1
  <2>3. /\ asked' \in [Caller -> Asks \union {None}]
        /\ began' \in [Caller -> [Memory -> MemoryInfluencePolicy \union {None}]]
    BY <1>1 DEF Call
  <2> QED BY <1>1, <2>1, <2>2, <2>3, <2>4 DEF Call, stored, bounds
<1>2. ASSUME NEW c \in Caller, PurgeNonces(c) PROVE TypeInv'
  BY <1>2 DEF PurgeNonces, Goto, stored, locals, bounds
<1>3. ASSUME NEW c \in Caller, NEW token \in Tokens, NEW to \in PC,
             pc[c] # "idle", ClaimNonce(c, token, to)
      PROVE  TypeOK'
  <2>1. pc' \in [Caller -> PC] /\ nonces' \subseteq Tokens
    BY <1>3 DEF ClaimNonce
  <2>2. honoured' \subseteq [token : Tokens, call : Caller, at : 0..MaxTime]
    BY <1>3 DEF ClaimNonce
  <2>3. \A d \in Caller : pc'[d] # "idle" => asked'[d] \in Asks
    BY <1>3 DEF ClaimNonce, locals
  <2> QED BY <1>3, <2>1, <2>2, <2>3 DEF ClaimNonce, stored, locals, bounds
<1>4. ASSUME NEW c \in Caller, ReadPolicies(c) PROVE TypeInv'
  <2>1. seen' \in [Caller -> [Memory -> MemoryInfluencePolicy \union {None}]]
    BY <1>4 DEF ReadPolicies
  <2> QED BY <1>4, <2>1 DEF ReadPolicies, Goto, stored, bounds
<1>5. ASSUME NEW c \in Caller, ReadContradictions(c) PROVE TypeInv'
  <2>1. decisions' \in [Caller -> [Memory -> Decisions \union {None}]]
    BY <1>5, DecisionType DEF ReadContradictions
  <2> QED BY <1>5, <2>1 DEF ReadContradictions, Goto, stored, bounds
<1>6. ASSUME NEW c \in Caller, record_influence_decisions(c) PROVE TypeInv'
  BY <1>6 DEF record_influence_decisions, stored, locals, bounds
<1>7. ASSUME NEW c \in Caller, Release(c) PROVE TypeInv'
  <2>1. released' \in [Caller -> SUBSET Memory]
    BY <1>7 DEF Release, Content
  <2> QED BY <1>7, <2>1 DEF Release, Goto, stored, bounds
<1>8. ASSUME NEW c \in Caller, StatementFails(c) PROVE TypeInv'
  BY <1>8, GateAssumption DEF StatementFails, stored, locals
<1>9. ASSUME NEW principal \in Principals, NEW m \in Memory, NEW patch \in Patches,
             NEW expected \in 1..(MaxUpdates + 1),
             update_memory_policy(principal, m, patch, expected)
      PROVE  TypeInv'
  <2>1. policy[m] \in MemoryInfluencePolicy /\ PatchOK(patch)
    BY <1>9, GateAssumption DEF update_memory_policy
  <2>2. NextPolicy(patch, policy[m]) \in MemoryInfluencePolicy
    BY <2>1, NextPolicyType
  <2>3. policy' \in [Memory -> MemoryInfluencePolicy \union {None}]
    BY <1>9, <2>2 DEF update_memory_policy
  <2>4. updates' \in 0..MaxUpdates
    BY <1>9, GateAssumption DEF update_memory_policy
  <2> QED BY <1>9, <2>3, <2>4 DEF update_memory_policy, locals
<1>10. ASSUME NEW m \in Memory, ReviewContradiction(m) PROVE TypeInv'
  BY <1>10, GateAssumption DEF ReviewContradiction, locals
<1>11. ASSUME NEW m \in Memory, Purge(m) PROVE TypeInv'
  BY <1>11, GateAssumption DEF Purge, locals
<1>12. CASE Tick
  BY <1>12, GateAssumption DEF Tick, stored, locals, bounds
<1>13. CASE UNCHANGED vars
  BY <1>13 DEF vars, stored, locals, bounds
<1>14. ASSUME NEW c \in Caller, ClaimAttestation(c) PROVE TypeInv'
  <2>1. asked[c].attestation \in Tokens /\ AfterAttestation(asked[c]) \in PC
    BY <1>14, AfterAttestationPoint, GateAssumption DEF ClaimAttestation, AskOK
  <2>2. TypeOK'
    BY <1>3, <1>14, <2>1 DEF ClaimAttestation
  <2>3. TokensInHand'
    BY <1>14 DEF ClaimAttestation, ClaimNonce, AfterAttestation, ClaimsConfirmation, locals
  <2> QED BY <2>2, <2>3
<1>15. ASSUME NEW c \in Caller, ClaimConfirmation(c) PROVE TypeInv'
  <2>1. asked[c].confirmation \in Tokens
    BY <1>15, GateAssumption DEF ClaimConfirmation, AskOK
  <2>2. TypeOK'
    BY <1>3, <1>15, <2>1 DEF ClaimConfirmation
  <2>3. TokensInHand'
    BY <1>15 DEF ClaimConfirmation, ClaimNonce, locals
  <2> QED BY <2>2, <2>3
<1> QED
  BY <1>1, <1>2, <1>4, <1>5, <1>6, <1>7, <1>8, <1>9, <1>10, <1>11, <1>12, <1>13,
     <1>14, <1>15 DEF Next, CallStep

\* Every table, local and history keeps its type, whatever the inputs.
THEOREM TypeCorrect == Spec => []TypeOK
<1>1. TypeInv => TypeOK
  BY DEF TypeInv
<1> QED BY <1>1, InitTypeInv, NextTypeInv, PTL DEF Spec

-----------------------------------------------------------------------------
(* One claim per token while it is valid. *)

\* The row of a claimed token stays for as long as the token is valid.
RowsKept ==
  \A h \in honoured :
    /\ h.at <= now
    /\ now <= h.token.expires_at => h.token \in nonces

ReplayInv == RowsKept /\ TokenOnce

LEMMA ClaimKeepsReplayInv ==
  ASSUME TypeInv, ReplayInv, NEW c \in Caller, NEW token \in Tokens, NEW to,
         ClaimNonce(c, token, to)
  PROVE  ReplayInv'
<1> USE DEF ReplayInv, TypeInv, TypeOK
<1> DEFINE h == [token |-> token, call |-> c, at |-> now]
<1>1. h.token = token /\ h.call = c /\ h.at = now
  OBVIOUS
<1>2. now' = now /\ nonces' = nonces \union {token}
  BY DEF ClaimNonce
<1>3. CASE token \in nonces
  BY <1>2, <1>3 DEF ClaimNonce, RowsKept, TokenOnce
<1>4. CASE token \notin nonces
  <2>1. honoured' = honoured \union {h}
    BY <1>4 DEF ClaimNonce
  <2>2. now \in Int /\ token.expires_at \in Int
    BY GateAssumption DEF TokenOK
  <2>3. \A k \in honoured : k.token = token => ~ now <= token.expires_at
    BY <1>4 DEF RowsKept
  <2> HIDE DEF h
  <2>4. RowsKept'
    BY <1>1, <1>2, <2>1, <2>2 DEF RowsKept
  <2>5. TokenOnce'
    BY <1>1, <1>2, <2>1, <2>2, <2>3 DEF TokenOnce
  <2> QED BY <2>4, <2>5
<1> QED BY <1>3, <1>4

\* A purge takes only rows of tokens that have expired.
LEMMA PurgeKeepsReplayInv ==
  ASSUME TypeInv, ReplayInv, NEW c \in Caller, PurgeNonces(c)
  PROVE  ReplayInv'
  BY DEF ReplayInv, RowsKept, TokenOnce, TypeInv, TypeOK, PurgeNonces

LEMMA TickKeepsReplayInv ==
  ASSUME TypeInv, ReplayInv, Tick
  PROVE  ReplayInv'
<1>1. \A h \in honoured : h.token \in Tokens /\ h.at \in Int /\ h.token.expires_at \in Int
  BY GateAssumption DEF TypeInv, TypeOK, TokenOK
<1>2. now \in Int /\ now' = now + 1 /\ honoured' = honoured /\ nonces' = nonces
  BY DEF Tick, TypeInv, TypeOK
<1> QED BY <1>1, <1>2 DEF ReplayInv, RowsKept, TokenOnce

LEMMA NextReplayInv ==
  ASSUME TypeInv, ReplayInv, [Next]_vars
  PROVE  ReplayInv'
<1>1. ASSUME UNCHANGED <<now, nonces, honoured>> PROVE ReplayInv'
  BY <1>1 DEF ReplayInv, RowsKept, TokenOnce
<1>2. ASSUME NEW c \in Caller, ClaimAttestation(c) PROVE ReplayInv'
  <2>1. asked[c].attestation \in Tokens
    BY <1>2, GateAssumption DEF ClaimAttestation, AskOK, TypeInv, TypeOK, TokensInHand
  <2> QED BY <1>2, <2>1, ClaimKeepsReplayInv DEF ClaimAttestation
<1>3. ASSUME NEW c \in Caller, ClaimConfirmation(c) PROVE ReplayInv'
  <2>1. asked[c].confirmation \in Tokens
    BY <1>3, GateAssumption DEF ClaimConfirmation, AskOK, TypeInv, TypeOK, TokensInHand
  <2> QED BY <1>3, <2>1, ClaimKeepsReplayInv DEF ClaimConfirmation
<1>4. ASSUME NEW c \in Caller, ~PurgeNonces(c), ~ClaimAttestation(c),
             ~ClaimConfirmation(c), CallStep(c) \/ StatementFails(c)
      PROVE  UNCHANGED <<now, nonces, honoured>>
  BY <1>4 DEF CallStep, ReadPolicies, ReadContradictions,
              record_influence_decisions, Release, StatementFails
<1>5. ASSUME NEW c \in Caller, NEW ask \in Asks, Call(c, ask)
      PROVE  UNCHANGED <<now, nonces, honoured>>
  BY <1>5 DEF Call
<1>6. ASSUME NEW m \in Memory, ReviewContradiction(m) \/ Purge(m)
      PROVE  UNCHANGED <<now, nonces, honoured>>
  BY <1>6 DEF ReviewContradiction, Purge
<1>7. ASSUME NEW principal \in Principals, NEW m \in Memory, NEW patch \in Patches,
             NEW expected \in 1..(MaxUpdates + 1),
             update_memory_policy(principal, m, patch, expected)
      PROVE  UNCHANGED <<now, nonces, honoured>>
  BY <1>7 DEF update_memory_policy
<1>8. ASSUME UNCHANGED vars PROVE UNCHANGED <<now, nonces, honoured>>
  BY <1>8 DEF vars
<1> QED
  BY <1>1, <1>2, <1>3, <1>4, <1>5, <1>6, <1>7, <1>8,
     PurgeKeepsReplayInv, TickKeepsReplayInv DEF Next

\* While it is valid, a token is honoured once, however calls, purges of
\* expired rows and failures interleave.
THEOREM TokensAreHonouredOnce == Spec => []TokenOnce
<1>1. Init => ReplayInv
  BY DEF Init, ReplayInv, RowsKept, TokenOnce
<1>2. ReplayInv => TokenOnce
  BY DEF ReplayInv
<1> QED BY <1>1, <1>2, InitTypeInv, NextTypeInv, NextReplayInv, PTL DEF Spec

-----------------------------------------------------------------------------
(* From the decision to the release. *)

(***************************************************************************)
(* A decision to release rests on a policy that was read, does not deny    *)
(* it, and on a confirmation where one is needed; what a call released is  *)
(* the content it decided to release, with every decision on record.       *)
(***************************************************************************)
Positive == {"allow", "reasoning", "source"}

DecidedInv ==
  \A c \in Caller, m \in Memory :
    pc[c] \in {"record", "done"} /\ config.enabled =>
      /\ decisions[c][m] = None <=> seen[c][m] = None
      /\ decisions[c][m] \in Positive =>
           /\ Disposition(seen[c][m], Purpose(asked[c])) # "deny"
           /\ ConfirmationRequired(Undisputed(c, m), Purpose(asked[c]), config)
                => asked[c].confirmation # None

ReleasedInv ==
  \A c \in Caller :
    pc[c] = "done" /\ config.enabled => released[c] = Content(c) /\ ToRecord(c) = {}

LEMMA PositiveDecision ==
  ASSUME TypeInv, NEW c \in Caller, NEW m \in Memory, Decision(c, m) \in Positive
  PROVE  /\ Disposition(seen[c][m], Purpose(asked[c])) # "deny"
         /\ ConfirmationRequired(Undisputed(c, m), Purpose(asked[c]), config)
              => asked[c].confirmation # None
<1>1. seen[c][m] # None
  BY GateAssumption DEF Decision, Positive, Decisions
<1>2. evaluate(Candidate(c, m), Purpose(asked[c]), asked[c].consumer,
               asked[c].confirmation # None, config) \in Positive
  BY <1>1 DEF Decision
<1>3. /\ Candidate(c, m).policy = seen[c][m]
      /\ Undisputed(c, m).policy = seen[c][m]
      /\ ~Undisputed(c, m).disputed
  BY DEF Candidate, Undisputed
<1>4. ConfirmationRequired(Undisputed(c, m), Purpose(asked[c]), config)
      => ConfirmationRequired(Candidate(c, m), Purpose(asked[c]), config)
  BY <1>3 DEF ConfirmationRequired, HighRiskDispute
<1>5. ~Denied(Candidate(c, m), Purpose(asked[c]), asked[c].consumer, config)
  BY <1>2 DEF evaluate, Positive
<1>6. ConfirmationRequired(Candidate(c, m), Purpose(asked[c]), config)
      => asked[c].confirmation # None
  BY <1>2, <1>5 DEF evaluate, Positive
<1> QED BY <1>3, <1>4, <1>5, <1>6 DEF Denied

LEMMA DecidingKeepsDecidedInv ==
  ASSUME TypeInv, DecidedInv, NEW c \in Caller, ReadContradictions(c)
  PROVE  DecidedInv'
<1>1. /\ decisions' = [decisions EXCEPT ![c] = [m \in Memory |-> Decision(c, m)]]
      /\ pc' = [pc EXCEPT ![c] = "record"]
      /\ UNCHANGED <<seen, asked, config>>
  BY DEF ReadContradictions, Goto
<1>2. \A m \in Memory : Decision(c, m) = None <=> seen[c][m] = None
  BY EvaluateType, GateAssumption DEF Decision
<1>3. \A m \in Memory : Decision(c, m) \in Positive =>
        /\ Disposition(seen[c][m], Purpose(asked[c])) # "deny"
        /\ ConfirmationRequired(Undisputed(c, m), Purpose(asked[c]), config)
             => asked[c].confirmation # None
  BY PositiveDecision
<1> SUFFICES ASSUME NEW d \in Caller, NEW m \in Memory,
                    pc'[d] \in {"record", "done"}, config'.enabled
             PROVE  /\ decisions'[d][m] = None <=> seen'[d][m] = None
                    /\ decisions'[d][m] \in Positive =>
                         /\ Disposition(seen[d][m], Purpose(asked[d])) # "deny"
                         /\ ConfirmationRequired(Undisputed(d, m), Purpose(asked[d]), config)
                              => asked[d].confirmation # None
  BY <1>1 DEF DecidedInv, Undisputed
<1>4. CASE d = c
  BY <1>1, <1>2, <1>3, <1>4 DEF TypeInv, TypeOK
<1>5. CASE d # c
  BY <1>1, <1>5 DEF DecidedInv, TypeInv, TypeOK
<1> QED BY <1>4, <1>5

\* A step that decides nothing and does not touch what a call at "record" or
\* past it has read.
LEMMA FrameDecidedInv ==
  ASSUME TypeInv, DecidedInv, UNCHANGED <<decisions, config>>,
         \A d \in Caller : pc'[d] \in {"record", "done"} /\ config.enabled =>
           pc[d] \in {"record", "done"} /\ seen'[d] = seen[d] /\ asked'[d] = asked[d]
  PROVE  DecidedInv'
  BY DEF DecidedInv, Undisputed

LEMMA NextDecidedInv ==
  ASSUME TypeInv, DecidedInv, [Next]_vars
  PROVE  DecidedInv'
<1> USE Points, AfterAttestationPoint DEF TypeInv, TypeOK
<1> DEFINE Framed ==
      /\ UNCHANGED <<decisions, config>>
      /\ \A d \in Caller : pc'[d] \in {"record", "done"} /\ config.enabled =>
           pc[d] \in {"record", "done"} /\ seen'[d] = seen[d] /\ asked'[d] = asked[d]
<1>1. ASSUME NEW c \in Caller, NEW ask \in Asks, Call(c, ask) PROVE Framed
  BY ZenonT(60), <1>1 DEF Call, GateDisabled, Verify
<1>2. ASSUME NEW c \in Caller, PurgeNonces(c) PROVE Framed
  BY <1>2 DEF PurgeNonces, Goto, locals
<1>3. ASSUME NEW c \in Caller, ClaimAttestation(c) \/ ClaimConfirmation(c) PROVE Framed
  BY <1>3 DEF ClaimAttestation, ClaimConfirmation, ClaimNonce, locals
<1>4. ASSUME NEW c \in Caller, ReadPolicies(c) PROVE Framed
  BY <1>4 DEF ReadPolicies, Goto
<1>5. ASSUME NEW c \in Caller, record_influence_decisions(c) \/ Release(c) PROVE Framed
  BY <1>5 DEF record_influence_decisions, Release, Goto, locals
<1>6. ASSUME NEW c \in Caller, StatementFails(c) PROVE Framed
  BY <1>6 DEF StatementFails, locals
<1>7. ASSUME NEW principal \in Principals, NEW m \in Memory, NEW patch \in Patches,
             NEW expected \in 1..(MaxUpdates + 1),
             update_memory_policy(principal, m, patch, expected)
      PROVE  Framed
  BY <1>7 DEF update_memory_policy, locals
<1>8. ASSUME NEW m \in Memory, ReviewContradiction(m) \/ Purge(m) PROVE Framed
  BY <1>8 DEF ReviewContradiction, Purge, locals
<1>9. ASSUME Tick \/ UNCHANGED vars PROVE Framed
  BY <1>9 DEF Tick, vars, locals
<1>10. Framed => DecidedInv'
  BY FrameDecidedInv
<1> HIDE DEF Framed
<1> QED
  BY <1>1, <1>2, <1>3, <1>4, <1>5, <1>6, <1>7, <1>8, <1>9, <1>10,
     DecidingKeepsDecidedInv DEF Next, CallStep

\* Records only grow, and a finished call's decisions do not change.
LEMMA NextReleasedInv ==
  ASSUME TypeInv, ReleasedInv, [Next]_vars
  PROVE  ReleasedInv'
<1> USE Points, AfterAttestationPoint DEF TypeInv, TypeOK
<1> DEFINE Framed ==
      /\ config' = config /\ events \subseteq events'
      /\ \A d \in Caller : pc'[d] = "done" /\ config.enabled =>
           /\ pc[d] = "done"
           /\ released'[d] = released[d]
           /\ decisions'[d] = decisions[d] /\ seen'[d] = seen[d]
<1>1. ASSUME NEW c \in Caller, NEW ask \in Asks, Call(c, ask) PROVE Framed
  BY <1>1 DEF Call, GateDisabled, Verify
<1>2. ASSUME NEW c \in Caller, PurgeNonces(c) PROVE Framed
  BY <1>2 DEF PurgeNonces, Goto, locals
<1>3. ASSUME NEW c \in Caller, ClaimAttestation(c) \/ ClaimConfirmation(c) PROVE Framed
  BY <1>3 DEF ClaimAttestation, ClaimConfirmation, ClaimNonce, locals
<1>4. ASSUME NEW c \in Caller, ReadPolicies(c) \/ ReadContradictions(c) PROVE Framed
  BY <1>4 DEF ReadPolicies, ReadContradictions, Goto
<1>5. ASSUME NEW c \in Caller, record_influence_decisions(c) PROVE Framed
  BY <1>5 DEF record_influence_decisions, locals
<1>6. ASSUME NEW c \in Caller, StatementFails(c) PROVE Framed
  BY <1>6 DEF StatementFails, locals
<1>7. ASSUME NEW principal \in Principals, NEW m \in Memory, NEW patch \in Patches,
             NEW expected \in 1..(MaxUpdates + 1),
             update_memory_policy(principal, m, patch, expected)
      PROVE  Framed
  BY <1>7 DEF update_memory_policy, locals
<1>8. ASSUME NEW m \in Memory, ReviewContradiction(m) \/ Purge(m) PROVE Framed
  BY <1>8 DEF ReviewContradiction, Purge, locals
<1>9. ASSUME Tick \/ UNCHANGED vars PROVE Framed
  BY <1>9 DEF Tick, vars, locals
<1>10. ASSUME Framed PROVE ReleasedInv'
  <2>1. \A d \in Caller : pc'[d] = "done" /\ config.enabled =>
          Content(d)' = Content(d) /\ ToRecord(d)' \subseteq ToRecord(d)
    BY <1>10 DEF Content, ToRecord, Event
  <2> QED BY <1>10, <2>1 DEF ReleasedInv
<1>11. ASSUME NEW c \in Caller, Release(c) PROVE ReleasedInv'
  <2>1. \A d \in Caller : Content(d)' = Content(d) /\ ToRecord(d)' = ToRecord(d)
    BY <1>11 DEF Release, Content, ToRecord, Event
  <2>2. ToRecord(c) = {} /\ released' = [released EXCEPT ![c] = Content(c)]
        /\ pc' = [pc EXCEPT ![c] = "done"] /\ config' = config
    BY <1>11 DEF Release, Goto
  <2> QED BY <2>1, <2>2 DEF ReleasedInv
<1> HIDE DEF Framed
<1> QED
  BY <1>1, <1>2, <1>3, <1>4, <1>5, <1>6, <1>7, <1>8, <1>9, <1>10, <1>11 DEF Next, CallStep

LEMMA DecidedInit == Init => DecidedInv /\ ReleasedInv
  BY DEF Init, DecidedInv, ReleasedInv

LEMMA ContentIsPositive ==
  ASSUME TypeInv, DecidedInv, ReleasedInv, NEW c \in Caller, NEW m \in Memory,
         pc[c] = "done", m \in released[c], config.enabled, seen[c][m] # None
  PROVE  decisions[c][m] \in Positive
  BY DEF ReleasedInv, DecidedInv, Content, Positive

\* Nothing leaves the gate without its decision on record.
THEOREM ReleasesAreRecorded == Spec => []ReleasedIsRecorded
<1>1. TypeInv /\ DecidedInv /\ ReleasedInv => ReleasedIsRecorded
  <2> SUFFICES ASSUME TypeInv, DecidedInv, ReleasedInv, NEW c \in Caller, NEW m \in Memory,
                      pc[c] = "done", m \in released[c], config.enabled, seen[c][m] # None
               PROVE  \E e \in events : /\ e.call = c /\ e.memory = m
                                        /\ e.version = seen[c][m].version
                                        /\ e.decision \in {"allow", "reasoning", "source"}
    BY DEF ReleasedIsRecorded
  <2>1. decisions[c][m] \in Positive
    BY ContentIsPositive
  <2>2. Event(c, m) \in events
    BY <2>1, GateAssumption DEF ReleasedInv, ToRecord, Positive, Decisions
  <2> WITNESS Event(c, m) \in events
  <2> QED BY <2>1 DEF Event, Positive
<1> QED
  BY <1>1, InitTypeInv, NextTypeInv, DecidedInit, NextDecidedInv, NextReleasedInv, PTL DEF Spec

-----------------------------------------------------------------------------
(* Policies only move forward, and purged metadata does not come back. *)

Newer(new, old) == new # None => old # None /\ old.version <= new.version

ProgressInv ==
  \A c \in Caller, m \in Memory :
    /\ pc[c] # "idle" => Newer(policy[m], began[c][m])
    /\ pc[c] \in {"contradictions", "record", "done"} /\ config.enabled
         => Newer(seen[c][m], began[c][m])

LEMMA PolicyProgress ==
  ASSUME TypeInv, [Next]_vars, NEW m \in Memory
  PROVE  Newer(policy'[m], policy[m])
<1> USE DEF TypeInv, TypeOK, Newer
<1>0. policy[m] # None => policy[m].version \in Nat
  BY DEF MemoryInfluencePolicy
<1>1. ASSUME policy' = policy PROVE Newer(policy'[m], policy[m])
  BY <1>0, <1>1
<1>2. ASSUME NEW principal \in Principals, NEW n \in Memory, NEW patch \in Patches,
             NEW expected \in 1..(MaxUpdates + 1),
             update_memory_policy(principal, n, patch, expected)
      PROVE  Newer(policy'[m], policy[m])
  <2>1. policy[n] \in MemoryInfluencePolicy /\ PatchOK(patch)
    BY <1>2, GateAssumption DEF update_memory_policy
  <2>2. NextPolicy(patch, policy[n]).version = policy[n].version + 1
    BY <2>1, NextPolicyType
  <2>3. policy' = [policy EXCEPT ![n] = NextPolicy(patch, policy[n])]
    BY <1>2 DEF update_memory_policy
  <2>4. CASE m = n
    BY <1>0, <2>1, <2>2, <2>3, <2>4, GateAssumption
  <2>5. CASE m # n
    BY <1>0, <2>3, <2>5
  <2> QED BY <2>4, <2>5
<1>3. ASSUME NEW n \in Memory, Purge(n) PROVE Newer(policy'[m], policy[m])
  BY <1>0, <1>3 DEF Purge
<1>4. ASSUME NEW c \in Caller, CallStep(c) \/ StatementFails(c) PROVE policy' = policy
  BY <1>4 DEF CallStep, PurgeNonces, ClaimAttestation, ClaimConfirmation, ClaimNonce,
              ReadPolicies, ReadContradictions, record_influence_decisions, Release,
              StatementFails, stored
<1>5. ASSUME NEW c \in Caller, NEW ask \in Asks, Call(c, ask) PROVE policy' = policy
  BY <1>5 DEF Call, stored
<1>6. ASSUME NEW n \in Memory, ReviewContradiction(n) PROVE policy' = policy
  BY <1>6 DEF ReviewContradiction
<1>7. ASSUME Tick \/ UNCHANGED vars PROVE policy' = policy
  BY <1>7 DEF Tick, vars, stored
<1> HIDE DEF Newer
<1> QED BY <1>1, <1>2, <1>3, <1>4, <1>5, <1>6, <1>7 DEF Next

LEMMA NewerTransitive ==
  ASSUME NEW p \in MemoryInfluencePolicy \union {None},
         NEW q \in MemoryInfluencePolicy \union {None},
         NEW r \in MemoryInfluencePolicy \union {None},
         Newer(p, q), Newer(q, r)
  PROVE  Newer(p, r)
  BY DEF Newer, MemoryInfluencePolicy

LEMMA NextProgressInv ==
  ASSUME TypeInv, ProgressInv, [Next]_vars
  PROVE  ProgressInv'
<1> USE Points, AfterAttestationPoint
<1>0. TypeOK /\ TypeOK'
  BY NextTypeInv DEF TypeInv
<1> SUFFICES ASSUME NEW d \in Caller, NEW m \in Memory
             PROVE  /\ pc'[d] # "idle" => Newer(policy'[m], began'[d][m])
                    /\ pc'[d] \in {"contradictions", "record", "done"} /\ config'.enabled
                         => Newer(seen'[d][m], began'[d][m])
  BY DEF ProgressInv
<1>1. Newer(policy'[m], policy[m])
  BY PolicyProgress
<1>2. ASSUME pc[d] # "idle" PROVE Newer(policy'[m], began[d][m])
  <2>1. Newer(policy[m], began[d][m])
    BY <1>2 DEF ProgressInv
  <2>2. /\ policy'[m] \in MemoryInfluencePolicy \union {None}
        /\ policy[m] \in MemoryInfluencePolicy \union {None}
        /\ began[d][m] \in MemoryInfluencePolicy \union {None}
    BY <1>0 DEF TypeOK
  <2> QED BY <1>1, <2>1, <2>2, NewerTransitive
<1>3. ASSUME NEW c \in Caller, NEW ask \in Asks, Call(c, ask)
      PROVE  /\ pc'[d] # "idle" => Newer(policy'[m], began'[d][m])
             /\ pc'[d] \in {"contradictions", "record", "done"} /\ config'.enabled
                  => Newer(seen'[d][m], began'[d][m])
  <2>1. CASE d = c
    <3>1. began'[d] = policy /\ policy' = policy
      BY <1>3, <2>1, <1>0 DEF Call, stored, TypeOK
    <3>2. ASSUME config.enabled PROVE pc'[d] \notin {"contradictions", "record", "done"}
      <4>1. AfterAttestation(ask) \in {"purge_confirmation", "policies"}
        BY AfterAttestationPoint
      <4>2. Verify(c, ask) /\ pc \in [Caller -> PC]
        BY <1>3, <3>2, <1>0 DEF Call, GateDisabled, TypeOK
      <4>3. pc'[c] \in {"failed", "purge_attestation", AfterAttestation(ask)}
        BY <4>2 DEF Verify
      <4> QED BY <4>1, <4>3, <2>1
    <3>3. config' = config
      BY <1>3 DEF Call
    <3>4. Newer(policy'[m], began'[d][m])
      BY <3>1, <1>1
    <3> QED BY <3>2, <3>3, <3>4
  <2>2. CASE d # c
    <3>1. /\ pc'[d] = pc[d] /\ began'[d] = began[d] /\ seen' = seen /\ config' = config
      BY <1>3, <2>2, <1>0 DEF Call, GateDisabled, Verify, TypeOK
    <3> QED BY <3>1, <1>2 DEF ProgressInv
  <2> QED BY <2>1, <2>2
<1>4. ASSUME NEW c \in Caller, ReadPolicies(c)
      PROVE  /\ pc'[d] # "idle" => Newer(policy'[m], began'[d][m])
             /\ pc'[d] \in {"contradictions", "record", "done"} /\ config'.enabled
                  => Newer(seen'[d][m], began'[d][m])
  <2>1. began' = began /\ config' = config /\ pc[c] = "policies"
        /\ pc' = [pc EXCEPT ![c] = "contradictions"]
    BY <1>4 DEF ReadPolicies, Goto
  <2>2. pc[d] # "idle" <=> pc'[d] # "idle"
    BY <2>1, <1>0 DEF TypeOK
  <2>3. CASE d = c
    <3>1. seen'[d][m] \in {policy[m], None}
      BY <1>4, <2>3, <1>0 DEF ReadPolicies, TypeOK
    <3>2. Newer(policy[m], began[d][m]) /\ Newer(None, began[d][m])
      BY <2>1, <2>3 DEF ProgressInv, Newer
    <3> QED BY <2>1, <2>2, <3>1, <3>2, <1>2
  <2>4. CASE d # c
    <3>1. seen'[d] = seen[d] /\ pc'[d] = pc[d]
      BY <1>4, <2>1, <2>4, <1>0 DEF ReadPolicies, TypeOK
    <3> QED BY <2>1, <2>2, <3>1, <1>2 DEF ProgressInv
  <2> QED BY <2>3, <2>4
<1> DEFINE Framed ==
      /\ UNCHANGED <<began, seen, config>>
      /\ pc'[d] = "idle" <=> pc[d] = "idle"
      /\ pc'[d] \in {"contradictions", "record", "done"}
           => pc[d] \in {"contradictions", "record", "done"}
<1>5. ASSUME NEW c \in Caller, PurgeNonces(c) \/ ClaimAttestation(c) \/ ClaimConfirmation(c)
      PROVE  Framed
  BY <1>0, <1>5 DEF PurgeNonces, ClaimAttestation, ClaimConfirmation, ClaimNonce, Goto, locals, TypeOK
<1>6. ASSUME NEW c \in Caller, \/ ReadContradictions(c) \/ record_influence_decisions(c)
                               \/ Release(c) \/ StatementFails(c)
      PROVE  Framed
  BY <1>0, <1>6 DEF ReadContradictions, record_influence_decisions, Release, StatementFails,
                    Goto, locals, TypeOK
<1>7. ASSUME NEW principal \in Principals, NEW n \in Memory, NEW patch \in Patches,
             NEW expected \in 1..(MaxUpdates + 1),
             update_memory_policy(principal, n, patch, expected)
      PROVE  Framed
  BY <1>7 DEF update_memory_policy, locals
<1>8. ASSUME NEW n \in Memory, ReviewContradiction(n) \/ Purge(n) PROVE Framed
  BY <1>8 DEF ReviewContradiction, Purge, locals
<1>9. ASSUME Tick \/ UNCHANGED vars PROVE Framed
  BY <1>9 DEF Tick, vars, locals
<1>10. ASSUME Framed
       PROVE  /\ pc'[d] # "idle" => Newer(policy'[m], began'[d][m])
              /\ pc'[d] \in {"contradictions", "record", "done"} /\ config'.enabled
                   => Newer(seen'[d][m], began'[d][m])
  BY <1>2, <1>10 DEF ProgressInv
<1> HIDE DEF Framed
<1> QED
  BY <1>3, <1>4, <1>5, <1>6, <1>7, <1>8, <1>9, <1>10 DEF Next, CallStep

\* A restriction or a purge that was committed before a call began is obeyed
\* by what the call releases.
THEOREM RestrictionsAreObserved == Spec => []RestrictionIsObserved
<1>1. Init => ProgressInv
  BY DEF Init, ProgressInv, NoPolicies
<1>2. TypeInv /\ DecidedInv /\ ReleasedInv /\ ProgressInv => RestrictionIsObserved
  <2> SUFFICES ASSUME TypeInv, DecidedInv, ReleasedInv, ProgressInv,
                      NEW c \in Caller, NEW m \in Memory,
                      pc[c] = "done", m \in released[c], config.enabled,
                      config.fail_closed_on_policy_error
               PROVE  /\ began[c][m] # None
                      /\ seen[c][m].version >= began[c][m].version
                      /\ Disposition(seen[c][m], Purpose(asked[c])) # "deny"
    BY DEF RestrictionIsObserved
  <2>1. seen[c][m] # None
    BY DEF ReleasedInv, DecidedInv, Content
  <2>2. decisions[c][m] \in Positive
    BY <2>1, ContentIsPositive
  <2>3. Newer(seen[c][m], began[c][m])
    BY DEF ProgressInv
  <2>4. seen[c][m] \in MemoryInfluencePolicy /\ began[c][m] \in MemoryInfluencePolicy
    BY <2>1, <2>3 DEF Newer, TypeInv, TypeOK
  <2>5. began[c][m] # None /\ began[c][m].version <= seen[c][m].version
    BY <2>1, <2>3 DEF Newer
  <2>6. seen[c][m].version \in Nat /\ began[c][m].version \in Nat
    BY <2>4 DEF MemoryInfluencePolicy
  <2>7. Disposition(seen[c][m], Purpose(asked[c])) # "deny"
    BY <2>2 DEF DecidedInv
  <2> QED BY <2>5, <2>6, <2>7
<1> QED
  BY <1>1, <1>2, InitTypeInv, NextTypeInv, DecidedInit, NextDecidedInv, NextReleasedInv,
     NextProgressInv, PTL DEF Spec

-----------------------------------------------------------------------------
(* Confirmations. *)

Claimed(c) == \E h \in honoured : h.call = c /\ h.token = asked[c].confirmation

(***************************************************************************)
(* A confirmation in a call that goes on was signed for its purpose and at *)
(* least its risk, and once the call is past the claims it has claimed it. *)
(***************************************************************************)
ClaimInv ==
  \A c \in Caller :
    /\ pc[c] \notin {"idle", "failed"} /\ config.enabled /\ asked[c].confirmation # None
         => /\ asked[c].confirmation.purpose = Purpose(asked[c])
            /\ Purpose(asked[c]).risk <= asked[c].confirmation.maximum_authorized_risk
    /\ (/\ pc[c] \in {"policies", "contradictions", "record", "done"}
        /\ config.enabled /\ config.confirmation_replay_protection
        /\ asked[c].confirmation # None)
         => Claimed(c)

LEMMA NextClaimInv ==
  ASSUME TypeInv, ClaimInv, [Next]_vars
  PROVE  ClaimInv'
<1> USE Points DEF TypeInv, TypeOK
<1> DEFINE Framed ==
      /\ UNCHANGED config /\ honoured \subseteq honoured'
      /\ \A d \in Caller :
           /\ pc'[d] \notin {"idle", "failed"} => pc[d] \notin {"idle", "failed"}
                                               /\ asked'[d] = asked[d]
           /\ pc'[d] \in {"policies", "contradictions", "record", "done"}
                => pc[d] \in {"policies", "contradictions", "record", "done"} \/ Claimed(d)'
                   \/ ~config.confirmation_replay_protection
                   \/ asked[d].confirmation = None
<1>1. ASSUME NEW c \in Caller, NEW ask \in Asks, Call(c, ask) PROVE ClaimInv'
  <2>1. pc[c] = "idle" /\ asked' = [asked EXCEPT ![c] = ask] /\ config' = config
        /\ honoured' = honoured
    BY <1>1 DEF Call
  <2>2. ASSUME config.enabled, pc'[c] # "failed", ask.confirmation # None
        PROVE  verify_confirmation(ask)
    BY <1>1, <2>2 DEF Call, GateDisabled, Verify, Verified
  <2>3. ASSUME config.enabled, pc'[c] \in {"policies", "contradictions", "record", "done"}
        PROVE  ask.confirmation = None \/ ~config.confirmation_replay_protection
    <3>1. pc'[c] \in {"failed", "purge_attestation", AfterAttestation(ask)}
      BY <1>1, <2>3 DEF Call, GateDisabled, Verify
    <3> QED BY <2>3, <3>1 DEF AfterAttestation, ClaimsConfirmation
  <2>4. \A d \in Caller \ {c} : pc'[d] = pc[d] /\ asked'[d] = asked[d]
    BY <1>1 DEF Call, GateDisabled, Verify
  <2>5. asked'[c] = ask
    BY <2>1
  <2> SUFFICES ASSUME NEW d \in Caller
               PROVE  /\ pc'[d] \notin {"idle", "failed"} /\ config.enabled
                           /\ asked'[d].confirmation # None
                           => /\ asked'[d].confirmation.purpose = Purpose(asked'[d])
                              /\ Purpose(asked'[d]).risk
                                   <= asked'[d].confirmation.maximum_authorized_risk
                      /\ (/\ pc'[d] \in {"policies", "contradictions", "record", "done"}
                          /\ config.enabled /\ config.confirmation_replay_protection
                          /\ asked'[d].confirmation # None)
                           => Claimed(d)'
    BY <2>1 DEF ClaimInv, Purpose, LegacyPurpose
  <2>6. CASE d = c
    BY <2>2, <2>3, <2>5, <2>6 DEF verify_confirmation
  <2>7. CASE d # c
    <3>1. pc'[d] = pc[d] /\ asked'[d] = asked[d]
      BY <2>4, <2>7
    <3>2. Claimed(d) => Claimed(d)'
      BY <2>1, <3>1 DEF Claimed
    <3> QED BY <3>1, <3>2 DEF ClaimInv
  <2> QED BY <2>6, <2>7
<1>2. ASSUME NEW c \in Caller, PurgeNonces(c) PROVE Framed
  BY <1>2 DEF PurgeNonces, Goto, locals
<1>3. ASSUME NEW c \in Caller, ClaimAttestation(c) PROVE Framed
  <2>1. pc'[c] \in {"failed", AfterAttestation(asked[c])} /\ asked' = asked /\ config' = config
        /\ honoured \subseteq honoured' /\ pc[c] = "claim_attestation"
        /\ \A d \in Caller \ {c} : pc'[d] = pc[d]
    BY <1>3 DEF ClaimAttestation, ClaimNonce, locals
  <2>2. pc'[c] \in {"policies", "contradictions", "record", "done"}
        => asked[c].confirmation = None \/ ~config.confirmation_replay_protection
    BY <2>1 DEF AfterAttestation, ClaimsConfirmation
  <2> QED BY <2>1, <2>2
<1>4. ASSUME NEW c \in Caller, ClaimConfirmation(c) PROVE Framed
  <2> DEFINE token == asked[c].confirmation
             h == [token |-> token, call |-> c, at |-> now]
  <2>1. asked' = asked /\ config' = config /\ honoured \subseteq honoured'
        /\ pc[c] = "claim_confirmation" /\ \A d \in Caller \ {c} : pc'[d] = pc[d]
    BY <1>4 DEF ClaimConfirmation, ClaimNonce, locals
  <2>2. CASE token \in nonces
    <3>1. pc'[c] = "failed"
      BY <1>4, <2>2 DEF ClaimConfirmation, ClaimNonce
    <3> QED BY <2>1, <3>1
  <2>3. CASE token \notin nonces
    <3>1. h \in honoured'
      BY <1>4, <2>3 DEF ClaimConfirmation, ClaimNonce
    <3>2. h.call = c /\ h.token = asked'[c].confirmation
      BY <2>1
    <3>3. Claimed(c)'
      BY <3>1, <3>2 DEF Claimed
    <3> QED BY <2>1, <3>3
  <2> QED BY <2>2, <2>3
<1>5. ASSUME NEW c \in Caller, ReadPolicies(c) \/ ReadContradictions(c) PROVE Framed
  BY <1>5 DEF ReadPolicies, ReadContradictions, Goto
<1>6. ASSUME NEW c \in Caller, record_influence_decisions(c) \/ Release(c) PROVE Framed
  BY <1>6 DEF record_influence_decisions, Release, Goto, locals
<1>7. ASSUME NEW c \in Caller, StatementFails(c) PROVE Framed
  BY <1>7 DEF StatementFails, locals
<1>8. ASSUME NEW principal \in Principals, NEW m \in Memory, NEW patch \in Patches,
             NEW expected \in 1..(MaxUpdates + 1),
             update_memory_policy(principal, m, patch, expected)
      PROVE  Framed
  BY <1>8 DEF update_memory_policy, locals
<1>9. ASSUME NEW m \in Memory, ReviewContradiction(m) \/ Purge(m) PROVE Framed
  BY <1>9 DEF ReviewContradiction, Purge, locals
<1>10. ASSUME Tick \/ UNCHANGED vars PROVE Framed
  BY <1>10 DEF Tick, vars, locals
<1>11. ASSUME Framed PROVE ClaimInv'
  <2> SUFFICES ASSUME NEW d \in Caller
               PROVE  /\ pc'[d] \notin {"idle", "failed"} /\ config.enabled
                           /\ asked'[d].confirmation # None
                           => /\ asked'[d].confirmation.purpose = Purpose(asked'[d])
                              /\ Purpose(asked'[d]).risk
                                   <= asked'[d].confirmation.maximum_authorized_risk
                      /\ (/\ pc'[d] \in {"policies", "contradictions", "record", "done"}
                          /\ config.enabled /\ config.confirmation_replay_protection
                          /\ asked'[d].confirmation # None)
                           => Claimed(d)'
    BY <1>11 DEF ClaimInv, Purpose, LegacyPurpose
  <2>1. pc'[d] \notin {"idle", "failed"} => pc[d] \notin {"idle", "failed"}
                                         /\ asked'[d] = asked[d]
    BY <1>11
  <2>2. Claimed(d) /\ asked'[d] = asked[d] => Claimed(d)'
    BY <1>11 DEF Claimed
  <2>3. pc'[d] \in {"policies", "contradictions", "record", "done"} =>
          \/ pc[d] \in {"policies", "contradictions", "record", "done"} \/ Claimed(d)'
          \/ ~config.confirmation_replay_protection
          \/ asked[d].confirmation = None
    BY <1>11
  <2> QED BY <2>1, <2>2, <2>3 DEF ClaimInv
<1> HIDE DEF Framed
<1> QED
  BY <1>1, <1>2, <1>3, <1>4, <1>5, <1>6, <1>7, <1>8, <1>9, <1>10, <1>11 DEF Next, CallStep

\* What needs a human's confirmation is released only by a call that claimed
\* a confirmation of its purpose and risk.
THEOREM ReleasesAreConfirmed == Spec => []ConfirmedBeforeRelease
<1>1. Init => ClaimInv
  BY DEF Init, ClaimInv
<1>2. TypeInv /\ DecidedInv /\ ReleasedInv /\ ClaimInv => ConfirmedBeforeRelease
  <2> SUFFICES ASSUME TypeInv, DecidedInv, ReleasedInv, ClaimInv,
                      NEW c \in Caller, NEW m \in Memory,
                      pc[c] = "done", m \in released[c], config.enabled, seen[c][m] # None,
                      config.confirmation_replay_protection,
                      ConfirmationRequired(Undisputed(c, m), Purpose(asked[c]), config)
               PROVE  \E h \in honoured :
                        /\ h.call = c /\ h.token = asked[c].confirmation
                        /\ h.token.purpose = Purpose(asked[c])
                        /\ Purpose(asked[c]).risk <= h.token.maximum_authorized_risk
    BY DEF ConfirmedBeforeRelease
  <2>1. asked[c].confirmation # None
    BY ContentIsPositive DEF DecidedInv
  <2> QED BY <2>1 DEF ClaimInv, Claimed
<1> QED
  BY <1>1, <1>2, InitTypeInv, NextTypeInv, DecidedInit, NextDecidedInv, NextReleasedInv,
     NextClaimInv, PTL DEF Spec

-----------------------------------------------------------------------------
(* Numbering a finite set. *)

LEMMA UptoSize ==
  ASSUME NEW n \in Nat
  PROVE  IsFiniteSet(1 .. n) /\ Cardinality(1 .. n) = n
<1>1. IsFiniteSet(1 .. n) /\ Cardinality(1 .. n) = IF 1 > n THEN 0 ELSE n - 1 + 1
  BY FS_Interval
<1> QED BY <1>1

\* A total order.
Orders(R, S) ==
  /\ \A x \in S : <<x, x>> \in R
  /\ \A x, y \in S : <<x, y>> \in R \/ <<y, x>> \in R
  /\ \A x, y \in S : <<x, y>> \in R /\ <<y, x>> \in R => x = y
  /\ \A x, y, z \in S : <<x, y>> \in R /\ <<y, z>> \in R => <<x, z>> \in R

Upto(S, R, x) == {y \in S : <<y, x>> \in R}
Number(S, R) == [x \in S |-> Cardinality(Upto(S, R, x))]

\* In an order everyone has a number of their own, and the numbers are those up to
\* the number of all.
LEMMA Numbers ==
  ASSUME NEW S, IsFiniteSet(S), NEW R, Orders(R, S)
  PROVE  /\ Number(S, R) \in Bijection(S, 1 .. Cardinality(S))
         /\ \A x, y \in S : <<x, y>> \in R /\ x # y => Number(S, R)[x] < Number(S, R)[y]
<1> DEFINE c    == Cardinality(S)
           rank == Number(S, R)
<1>1. c \in Nat
  BY FS_CardinalityType
<1>2. ASSUME NEW x \in S
      PROVE  /\ IsFiniteSet(Upto(S, R, x)) /\ Upto(S, R, x) \in SUBSET S
             /\ rank[x] = Cardinality(Upto(S, R, x)) /\ rank[x] \in 1 .. c
  <2>1. Upto(S, R, x) \in SUBSET S /\ x \in Upto(S, R, x)
    BY DEF Upto, Orders
  <2>2. IsFiniteSet(Upto(S, R, x)) /\ Cardinality(Upto(S, R, x)) <= c
    BY <2>1, FS_Subset
  <2>3. Cardinality(Upto(S, R, x)) \in Nat /\ Cardinality(Upto(S, R, x)) # 0
    BY <2>1, <2>2, FS_CardinalityType, FS_EmptySet
  <2> QED BY <1>1, <2>1, <2>2, <2>3 DEF Number
<1>3. ASSUME NEW x \in S, NEW y \in S, <<x, y>> \in R, x # y
      PROVE  rank[x] < rank[y]
  <2>1. Upto(S, R, x) \in SUBSET Upto(S, R, y) /\ y \in Upto(S, R, y)
    BY <1>3 DEF Upto, Orders
  <2>2. y \notin Upto(S, R, x)
    BY <1>3 DEF Upto, Orders
  <2>3. /\ Cardinality(Upto(S, R, x)) <= Cardinality(Upto(S, R, y))
        /\ Cardinality(Upto(S, R, x)) # Cardinality(Upto(S, R, y))
    BY <1>2, <2>1, <2>2, FS_Subset
  <2>4. rank[x] \in Nat /\ rank[y] \in Nat
    BY <1>1, <1>2
  <2> QED BY <1>2, <2>3, <2>4
<1>4. rank \in [S -> 1 .. c]
  BY <1>2 DEF Number
<1>5. ASSUME NEW x \in S, NEW y \in S, rank[x] = rank[y] PROVE x = y
  <2>1. rank[x] \in Nat
    BY <1>1, <1>2
  <2>2. ~(rank[x] < rank[y]) /\ ~(rank[y] < rank[x])
    BY <1>5, <2>1
  <2>3. <<x, y>> \in R \/ <<y, x>> \in R
    BY DEF Orders
  <2> QED BY <1>3, <2>2, <2>3
<1>6. rank \in Injection(S, 1 .. c)
  BY <1>4, <1>5 DEF Injection, IsInjective
<1>7. IsFiniteSet(1 .. c) /\ Cardinality(1 .. c) = c
  BY <1>1, UptoSize
<1>8. rank \in Surjection(S, 1 .. c)
  BY <1>6, <1>7, FS_Injection
<1> QED BY <1>3, <1>6, <1>8 DEF Bijection

-----------------------------------------------------------------------------
(* Lists. *)

IsListing(list) == list \in Seq(Memories) /\ IsInjective(list)

LEMMA ListingFacts ==
  ASSUME NEW list, IsListing(list)
  PROVE  /\ Len(list) \in Nat /\ DOMAIN list = 1 .. Len(list)
         /\ list \in [1 .. Len(list) -> Memories]
         /\ \A i, j \in 1 .. Len(list) : list[i] = list[j] => i = j
         /\ ToSet(list) = {list[i] : i \in 1 .. Len(list)}
         /\ ToSet(list) \subseteq Memories
         /\ \A m \in ToSet(list) : Place(list, m) \in 1 .. Len(list) /\ list[Place(list, m)] = m
         /\ \A i \in 1 .. Len(list) : list[i] \in ToSet(list) /\ Place(list, list[i]) = i
<1>1. /\ Len(list) \in Nat /\ DOMAIN list = 1 .. Len(list)
      /\ list \in [1 .. Len(list) -> Memories]
  BY LenProperties DEF IsListing
<1>2. \A i, j \in 1 .. Len(list) : list[i] = list[j] => i = j
  BY <1>1 DEF IsListing, IsInjective
<1>3. ToSet(list) = {list[i] : i \in 1 .. Len(list)}
  BY <1>1 DEF ToSet
<1>4. ASSUME NEW m \in ToSet(list)
      PROVE  Place(list, m) \in 1 .. Len(list) /\ list[Place(list, m)] = m
  <2>1. \E i \in DOMAIN list : list[i] = m
    BY <1>1, <1>3
  <2> QED BY <1>1, <2>1 DEF Place
<1>5. ASSUME NEW i \in 1 .. Len(list)
      PROVE  list[i] \in ToSet(list) /\ Place(list, list[i]) = i
  BY <1>2, <1>3, <1>4
<1> QED BY <1>1, <1>2, <1>3, <1>4, <1>5

\* Nobody is listed twice, so a list is as long as its set is large.
LEMMA ListingSize ==
  ASSUME NEW list, IsListing(list)
  PROVE  IsFiniteSet(ToSet(list)) /\ Cardinality(ToSet(list)) = Len(list)
<1>1. list \in Bijection(1 .. Len(list), ToSet(list))
  BY ListingFacts DEF Bijection, Injection, Surjection, IsInjective
<1>2. IsFiniteSet(1 .. Len(list)) /\ Cardinality(1 .. Len(list)) = Len(list)
  BY ListingFacts, UptoSize
<1>3. ExistsBijection(1 .. Len(list), ToSet(list))
  BY <1>1 DEF ExistsBijection
<1> QED BY <1>2, <1>3, FS_Bijection

LEMMA EmptyListing ==
  IsListing(<<>>) /\ ToSet(<<>>) = {} /\ Len(<<>>) = 0
<1>1. <<>> \in Seq(Memories) /\ Len(<<>>) = 0
  BY EmptySeq
<1>2. DOMAIN <<>> = {}
  BY <1>1, LenProperties
<1> QED BY <1>1, <1>2 DEF IsListing, IsInjective, ToSet

\* What is numbered one to one is listed.
LEMMA ListedIs ==
  ASSUME NEW S, IsFiniteSet(S), NEW rank \in Bijection(S, 1 .. Cardinality(S)),
         NEW val \in [S -> Memories], \A x, y \in S : val[x] = val[y] => x = y
  PROVE  LET list == Listed({<<rank[x], val[x]>> : x \in S})
         IN /\ IsListing(list) /\ ToSet(list) = {val[x] : x \in S}
            /\ Len(list) = Cardinality(S)
            /\ \A x \in S : Place(list, val[x]) = rank[x]
<1> DEFINE c        == Cardinality(S)
           numbered == {<<rank[x], val[x]>> : x \in S}
           list     == Listed(numbered)
<1>1. c \in Nat /\ rank \in [S -> 1 .. c]
  BY FS_CardinalityType DEF Bijection, Injection
<1>2. \A x, y \in S : rank[x] = rank[y] => x = y
  BY DEF Bijection, Injection, IsInjective
<1>3. \A n \in 1 .. c : \E x \in S : rank[x] = n
  BY DEF Bijection, Surjection
<1>4. Cardinality(numbered) = c
  <2> DEFINE pair == [x \in S |-> <<rank[x], val[x]>>]
  <2>1. pair \in Bijection(S, numbered)
    <3>1. pair \in [S -> numbered] /\ \A n \in numbered : \E x \in S : pair[x] = n
      OBVIOUS
    <3>2. \A x, y \in S : pair[x] = pair[y] => x = y
      BY <1>2
    <3> QED BY <3>1, <3>2 DEF Bijection, Injection, Surjection, IsInjective
  <2>2. ExistsBijection(S, numbered)
    BY <2>1 DEF ExistsBijection
  <2> QED BY <2>2, FS_Bijection
<1>5. ASSUME NEW x \in S
      PROVE  (CHOOSE p \in numbered : p[1] = rank[x])[2] = val[x]
  <2>1. <<rank[x], val[x]>> \in numbered /\ <<rank[x], val[x]>>[1] = rank[x]
    OBVIOUS
  <2>2. \A p \in numbered : p[1] = rank[x] => p[2] = val[x]
    BY <1>2
  <2> QED BY <2>1, <2>2
<1>6. list = [n \in 1 .. c |-> (CHOOSE p \in numbered : p[1] = n)[2]]
  BY <1>4 DEF Listed
<1>7. \A x \in S : rank[x] \in 1 .. c /\ list[rank[x]] = val[x]
  BY <1>1, <1>5, <1>6
<1> HIDE DEF numbered, list
<1>8. \A n \in 1 .. c : list[n] \in Memories
  BY <1>3, <1>7
<1>9. list \in [1 .. c -> Memories]
  BY <1>6, <1>8
<1>10. list \in Seq(Memories) /\ Len(list) = c /\ DOMAIN list = 1 .. c
  BY <1>1, <1>9
<1>11. IsInjective(list)
  <2>1. ASSUME NEW n \in 1 .. c, NEW k \in 1 .. c, list[n] = list[k] PROVE n = k
    <3>1. PICK x \in S : rank[x] = n
      BY <1>3
    <3>2. PICK y \in S : rank[y] = k
      BY <1>3
    <3> QED BY <1>7, <2>1, <3>1, <3>2
  <2> QED BY <1>10, <2>1 DEF IsInjective
<1>12. IsListing(list)
  BY <1>10, <1>11 DEF IsListing
<1>13. ToSet(list) = {val[x] : x \in S}
  <2>1. ToSet(list) = {list[n] : n \in 1 .. c}
    BY <1>10, <1>12, ListingFacts
  <2> QED BY <1>3, <1>7, <2>1
<1>14. \A x \in S : Place(list, val[x]) = rank[x]
  BY <1>7, <1>10, <1>12, ListingFacts
<1> QED BY <1>10, <1>12, <1>13, <1>14 DEF list, numbered

\* Members that are in a set are listed as they were.
LEMMA OnlyIs ==
  ASSUME NEW list, IsListing(list), NEW set
  PROVE  /\ IsListing(Only(list, set)) /\ ToSet(Only(list, set)) = ToSet(list) \intersect set
         /\ \A a, b \in ToSet(Only(list, set)) :
              Place(list, a) < Place(list, b) => Place(Only(list, set), a) < Place(Only(list, set), b)
<1> DEFINE kept == {i \in DOMAIN list : list[i] \in set}
           R    == {p \in kept \X kept : p[1] <= p[2]}
           rank == Number(kept, R)
           val  == [i \in kept |-> list[i]]
<1>1. DOMAIN list = 1 .. Len(list) /\ Len(list) \in Nat
  BY ListingFacts
<1>2. IsFiniteSet(kept) /\ kept \subseteq Nat
  <2>1. kept \in SUBSET (1 .. Len(list))
    BY <1>1
  <2>2. IsFiniteSet(1 .. Len(list)) /\ 1 .. Len(list) \subseteq Nat
    BY <1>1, UptoSize
  <2> QED BY <2>1, <2>2, FS_Subset
<1>3. \A i, j \in kept : <<i, j>> \in R <=> i <= j
  OBVIOUS
<1>4. Orders(R, kept)
  <2> HIDE DEF R, kept
  <2> QED BY <1>2, <1>3 DEF Orders
<1>5. /\ rank \in Bijection(kept, 1 .. Cardinality(kept))
      /\ \A i, j \in kept : i < j => rank[i] < rank[j]
  <2> HIDE DEF R, kept
  <2>1. \A i, j \in kept : i < j => <<i, j>> \in R /\ i # j
    BY <1>2, <1>3
  <2>2. /\ rank \in Bijection(kept, 1 .. Cardinality(kept))
        /\ \A i, j \in kept : <<i, j>> \in R /\ i # j => rank[i] < rank[j]
    BY <1>2, <1>4, Numbers
  <2> QED BY <2>1, <2>2
<1>6. \A i \in kept : rank[i] = Cardinality({j \in kept : j <= i})
  <2>1. ASSUME NEW i \in kept PROVE Upto(kept, R, i) = {j \in kept : j <= i}
    BY <1>3 DEF Upto
  <2> QED BY <2>1 DEF Number
<1>7. val \in [kept -> Memories] /\ \A i, j \in kept : val[i] = val[j] => i = j
  BY <1>1, ListingFacts
<1>8. Only(list, set) = Listed({<<rank[i], val[i]>> : i \in kept})
  <2>1. {<<rank[i], val[i]>> : i \in kept}
          = {<<Cardinality({j \in kept : j <= i}), list[i]>> : i \in kept}
    BY <1>6
  <2> QED BY <2>1 DEF Only
<1>9. /\ IsListing(Only(list, set)) /\ ToSet(Only(list, set)) = {val[i] : i \in kept}
      /\ \A i \in kept : Place(Only(list, set), val[i]) = rank[i]
  <2>1. rank \in Bijection(kept, 1 .. Cardinality(kept)) /\ IsFiniteSet(kept)
    BY <1>2, <1>5
  <2> HIDE DEF kept, rank, val, R
  <2> QED BY <2>1, <1>7, <1>8, ListedIs
<1>10. ToSet(Only(list, set)) = ToSet(list) \intersect set
  <2>1. ToSet(list) = {list[i] : i \in DOMAIN list}
    BY <1>1, ListingFacts
  <2> QED BY <1>9, <2>1
<1>11. ASSUME NEW a \in ToSet(Only(list, set)), NEW b \in ToSet(Only(list, set)),
              Place(list, a) < Place(list, b)
       PROVE  Place(Only(list, set), a) < Place(Only(list, set), b)
  <2>1. PICK i \in kept : a = list[i]
    BY <1>9
  <2>2. PICK j \in kept : b = list[j]
    BY <1>9
  <2>3. Place(list, a) = i /\ Place(list, b) = j
    BY <1>1, <2>1, <2>2, ListingFacts
  <2> QED BY <1>5, <1>9, <1>11, <2>1, <2>2, <2>3
<1> QED BY <1>9, <1>10, <1>11

\* A list is ranked by score, and as it was where the scores are the same.
LEMMA RankedIs ==
  ASSUME NEW list, IsListing(list), NEW score, \A m \in ToSet(list) : score[m] \in Int
  PROVE  /\ IsListing(Ranked(list, score)) /\ ToSet(Ranked(list, score)) = ToSet(list)
         /\ \A a, b \in ToSet(list) :
              /\ score[a] >= score[b]
              /\ Place(list, a) < Place(list, b)
              => Place(Ranked(list, score), a) < Place(Ranked(list, score), b)
<1> DEFINE n      == Len(list)
           scored == {<<score[list[i]], i>> : i \in DOMAIN list}
           R      == {p \in scored \X scored : \/ p[1][1] > p[2][1]
                                               \/ p[1][1] = p[2][1] /\ p[1][2] <= p[2][2]}
           rank   == Number(scored, R)
           val    == [s \in scored |-> list[s[2]]]
<1>1. DOMAIN list = 1 .. n /\ n \in Nat
  BY ListingFacts
<1>2. ASSUME NEW s \in scored
      PROVE  s[1] \in Int /\ s[2] \in 1 .. n /\ s[1] = score[list[s[2]]] /\ s = <<s[1], s[2]>>
  <2>1. PICK i \in 1 .. n : s = <<score[list[i]], i>>
    BY <1>1
  <2>2. list[i] \in ToSet(list)
    BY <2>1, ListingFacts
  <2> QED BY <2>1, <2>2
<1>3. IsFiniteSet(scored)
  <2> DEFINE pair == [i \in 1 .. n |-> <<score[list[i]], i>>]
  <2>1. pair \in Bijection(1 .. n, scored)
    BY <1>1 DEF Bijection, Injection, Surjection, IsInjective
  <2>2. ExistsBijection(1 .. n, scored)
    BY <2>1 DEF ExistsBijection
  <2> QED BY <1>1, <2>2, UptoSize, FS_Bijection
<1>4. \A s, t \in scored : <<s, t>> \in R <=> s[1] > t[1] \/ (s[1] = t[1] /\ s[2] <= t[2])
  OBVIOUS
<1>5. \A s \in scored : s[1] \in Int /\ s[2] \in Int
  BY <1>1, <1>2
<1>6. \A s, t \in scored : s[1] = t[1] /\ s[2] = t[2] => s = t
  BY <1>2
<1>7. Orders(R, scored)
  <2> HIDE DEF R, scored
  <2>1. \A s \in scored : <<s, s>> \in R
    BY <1>4, <1>5
  <2>2. ASSUME NEW s \in scored, NEW t \in scored PROVE <<s, t>> \in R \/ <<t, s>> \in R
    <3>1. s[1] > t[1] \/ t[1] > s[1] \/ s[1] = t[1]
      BY <1>5
    <3>2. s[2] <= t[2] \/ t[2] <= s[2]
      BY <1>5
    <3> QED BY <1>4, <3>1, <3>2
  <2>3. \A s, t \in scored : <<s, t>> \in R /\ <<t, s>> \in R => s = t
    BY <1>4, <1>5, <1>6
  <2>4. \A s, t, u \in scored : <<s, t>> \in R /\ <<t, u>> \in R => <<s, u>> \in R
    BY <1>4, <1>5
  <2> QED BY <2>1, <2>2, <2>3, <2>4 DEF Orders
<1>8. /\ rank \in Bijection(scored, 1 .. Cardinality(scored))
      /\ \A s, t \in scored : <<s, t>> \in R /\ s # t => rank[s] < rank[t]
  <2> HIDE DEF R, scored
  <2> QED BY <1>3, <1>7, Numbers
<1>9. \A s \in scored :
        rank[s] = Cardinality({t \in scored : t[1] > s[1] \/ (t[1] = s[1] /\ t[2] <= s[2])})
  <2>1. ASSUME NEW s \in scored
        PROVE  Upto(scored, R, s) = {t \in scored : t[1] > s[1] \/ (t[1] = s[1] /\ t[2] <= s[2])}
    BY <1>4 DEF Upto
  <2> HIDE DEF R, scored
  <2> QED BY <2>1 DEF Number
<1>10. val \in [scored -> Memories] /\ \A s, t \in scored : val[s] = val[t] => s = t
  <2>1. \A s \in scored : val[s] = list[s[2]] /\ list[s[2]] \in Memories
    BY <1>2, ListingFacts
  <2>2. \A s, t \in scored : val[s] = val[t] => s[2] = t[2]
    BY <1>2, <2>1, ListingFacts
  <2>3. \A s, t \in scored : s[2] = t[2] => s = t
    BY <1>2
  <2> QED BY <2>1, <2>2, <2>3
<1>11. Ranked(list, score) = Listed({<<rank[s], val[s]>> : s \in scored})
  <2>1. {<<rank[s], val[s]>> : s \in scored}
          = {<<Cardinality({t \in scored : t[1] > s[1] \/ (t[1] = s[1] /\ t[2] <= s[2])}), list[s[2]]>> :
               s \in scored}
    <3> HIDE DEF scored, rank
    <3> QED BY <1>9
  <2> HIDE DEF rank, val
  <2> QED BY <2>1 DEF Ranked
<1>12. /\ IsListing(Ranked(list, score)) /\ ToSet(Ranked(list, score)) = {val[s] : s \in scored}
       /\ \A s \in scored : Place(Ranked(list, score), val[s]) = rank[s]
  <2> HIDE DEF scored, rank, val
  <2> QED BY <1>3, <1>8, <1>10, <1>11, ListedIs
<1>13. \A i \in 1 .. n : <<score[list[i]], i>> \in scored /\ val[<<score[list[i]], i>>] = list[i]
  BY <1>1
<1>14. ToSet(Ranked(list, score)) = ToSet(list)
  <2>1. ToSet(list) = {list[i] : i \in 1 .. n}
    BY ListingFacts
  <2>2. \A s \in scored : val[s] \in ToSet(list)
    BY <1>2, <2>1
  <2> HIDE DEF val, scored
  <2>3. ToSet(Ranked(list, score)) = {val[s] : s \in scored}
    BY <1>12
  <2>4. \A i \in 1 .. n : \E s \in scored : val[s] = list[i]
    BY <1>13
  <2>5. \A m \in ToSet(list) : \E s \in scored : val[s] = m
    BY <2>1, <2>4
  <2> QED BY <2>2, <2>3, <2>5
<1>15. ASSUME NEW a \in ToSet(list), NEW b \in ToSet(list), score[a] >= score[b],
              Place(list, a) < Place(list, b)
       PROVE  Place(Ranked(list, score), a) < Place(Ranked(list, score), b)
  <2> DEFINE i == Place(list, a)
             j == Place(list, b)
             s == <<score[list[i]], i>>
             t == <<score[list[j]], j>>
  <2>1. i \in 1 .. n /\ j \in 1 .. n /\ list[i] = a /\ list[j] = b
    BY ListingFacts
  <2>2. s \in scored /\ t \in scored /\ val[s] = a /\ val[t] = b
    BY <1>13, <2>1
  <2>3. <<s, t>> \in R /\ s # t
    <3>1. s[1] = score[a] /\ s[2] = i /\ t[1] = score[b] /\ t[2] = j /\ i < j
      BY <1>15, <2>1
    <3>2. score[a] > score[b] \/ score[a] = score[b]
      BY <1>15
    <3> HIDE DEF s, t, i, j, R, scored
    <3> QED BY <1>1, <1>4, <2>1, <2>2, <3>1, <3>2
  <2> HIDE DEF s, t, R, rank, val, scored
  <2> QED BY <1>8, <1>12, <2>2, <2>3
<1> QED BY <1>12, <1>14, <1>15

\* What a second list adds comes behind all of the first.
LEMMA MergedIs ==
  ASSUME NEW first, IsListing(first), NEW second, IsListing(second)
  PROVE  LET merged == Merged(first, second)
             rest   == Only(second, Memories \ ToSet(first))
         IN /\ IsListing(merged) /\ ToSet(merged) = ToSet(first) \union ToSet(second)
            /\ Len(merged) = Len(first) + Len(rest)
            /\ \A a \in ToSet(first) : Place(merged, a) = Place(first, a)
            /\ \A b \in ToSet(rest) : Place(merged, b) = Len(first) + Place(rest, b)
            /\ ToSet(rest) = ToSet(second) \ ToSet(first)
<1> DEFINE rest   == Only(second, Memories \ ToSet(first))
           merged == Merged(first, second)
           n      == Len(first)
           k      == Len(rest)
<1>1. /\ IsListing(rest) /\ ToSet(rest) = ToSet(second) \ ToSet(first)
  <2>1. ToSet(second) \subseteq Memories
    BY ListingFacts
  <2>2. IsListing(rest) /\ ToSet(rest) = ToSet(second) \intersect (Memories \ ToSet(first))
    BY OnlyIs
  <2> QED BY <2>1, <2>2
<1>2. merged = first \o rest
  BY DEF Merged
<1> HIDE DEF rest, merged
<1>3. n \in Nat /\ k \in Nat
  BY <1>1, ListingFacts
<1>4. first \in Seq(Memories) /\ rest \in Seq(Memories)
  BY <1>1 DEF IsListing
<1>5. /\ merged \in Seq(Memories) /\ Len(merged) = n + k
      /\ \A i \in 1 .. n + k : merged[i] = IF i <= n THEN first[i] ELSE rest[i - n]
  BY <1>2, <1>4, ConcatProperties
<1>6. \A i \in 1 .. n : merged[i] = first[i] /\ merged[i] \in ToSet(first)
  <2>1. \A i \in 1 .. n : i \in 1 .. n + k /\ i <= n
    BY <1>3
  <2>2. \A i \in 1 .. n : first[i] \in ToSet(first)
    BY ListingFacts
  <2> QED BY <1>5, <2>1, <2>2
<1>7. \A i \in 1 .. k : merged[n + i] = rest[i] /\ merged[n + i] \in ToSet(rest)
  <2>1. \A i \in 1 .. k : n + i \in 1 .. n + k /\ ~(n + i <= n) /\ (n + i) - n = i
    BY <1>3
  <2>2. \A i \in 1 .. k : rest[i] \in ToSet(rest)
    BY <1>1, ListingFacts
  <2> QED BY <1>5, <2>1, <2>2
<1>8. \A i \in 1 .. n + k : i \in 1 .. n \/ \E j \in 1 .. k : i = n + j
  <2> TAKE i \in 1 .. n + k
  <2>1. i \in 1 .. n \/ (i - n \in 1 .. k /\ i = n + (i - n))
    BY <1>3
  <2> QED BY <2>1
<1>9. \A i, j \in 1 .. n : first[i] = first[j] => i = j
  BY ListingFacts
<1>10. \A i, j \in 1 .. k : rest[i] = rest[j] => i = j
  BY <1>1, ListingFacts
<1>11. DOMAIN merged = 1 .. n + k
  BY <1>5, LenProperties
<1>12. ASSUME NEW i \in 1 .. n + k, NEW j \in 1 .. n + k, merged[i] = merged[j]
       PROVE  i = j
  <2>1. CASE i \in 1 .. n /\ j \in 1 .. n
    <3>1. merged[i] = first[i] /\ merged[j] = first[j]
      BY <1>6, <2>1
    <3> QED BY <1>9, <1>12, <2>1, <3>1
  <2>2. CASE \E a, b \in 1 .. k : i = n + a /\ j = n + b
    BY <1>7, <1>10, <1>12, <2>2
  <2>3. CASE i \in 1 .. n /\ \E b \in 1 .. k : j = n + b
    BY <1>1, <1>6, <1>7, <1>12, <2>3
  <2>4. CASE j \in 1 .. n /\ \E b \in 1 .. k : i = n + b
    BY <1>1, <1>6, <1>7, <1>12, <2>4
  <2> QED BY <1>8, <2>1, <2>2, <2>3, <2>4
<1>13. IsListing(merged)
  BY <1>5, <1>11, <1>12 DEF IsListing, IsInjective
<1>14. ToSet(merged) = ToSet(first) \union ToSet(second)
  <2>1. ToSet(merged) = {merged[i] : i \in 1 .. n + k}
    BY <1>5, <1>13, ListingFacts
  <2>2. \A i \in 1 .. n + k : merged[i] \in ToSet(first) \union ToSet(rest)
    BY <1>6, <1>7, <1>8
  <2>3. ASSUME NEW m \in ToSet(first) PROVE m \in ToSet(merged)
    <3>1. PICK i \in 1 .. n : m = first[i]
      BY ListingFacts
    <3>2. i \in 1 .. n + k
      BY <1>3
    <3> QED BY <1>6, <2>1, <3>1, <3>2
  <2>4. ASSUME NEW m \in ToSet(rest) PROVE m \in ToSet(merged)
    <3>1. PICK i \in 1 .. k : m = rest[i]
      BY <1>1, ListingFacts
    <3>2. n + i \in 1 .. n + k
      BY <1>3
    <3> QED BY <1>7, <2>1, <3>1, <3>2
  <2> QED BY <1>1, <2>1, <2>2, <2>3, <2>4
<1>17. \A i \in 1 .. n + k : Place(merged, merged[i]) = i
  BY <1>5, <1>13, ListingFacts
<1>15. ASSUME NEW a \in ToSet(first) PROVE Place(merged, a) = Place(first, a)
  <2>1. PICK i \in 1 .. n : a = first[i] /\ Place(first, a) = i
    BY ListingFacts
  <2>2. i \in 1 .. n + k /\ merged[i] = a
    BY <1>3, <1>6, <2>1
  <2> QED BY <1>17, <2>1, <2>2
<1>16. ASSUME NEW b \in ToSet(rest) PROVE Place(merged, b) = n + Place(rest, b)
  <2>1. PICK i \in 1 .. k : b = rest[i] /\ Place(rest, b) = i
    BY <1>1, ListingFacts
  <2>2. n + i \in 1 .. n + k /\ merged[n + i] = b
    BY <1>3, <1>7, <2>1
  <2> QED BY <1>17, <2>1, <2>2
<1> QED BY <1>1, <1>5, <1>13, <1>14, <1>15, <1>16 DEF rest, merged

\* The first of a list are those with the lowest places.
LEMMA FirstOfIs ==
  ASSUME NEW list, IsListing(list), NEW n \in Nat
  PROVE  /\ IsListing(FirstOf(list, n))
         /\ Len(FirstOf(list, n)) = Smaller(n, Len(list))
         /\ ToSet(FirstOf(list, n)) = {m \in ToSet(list) : Place(list, m) <= n}
         /\ \A m \in ToSet(FirstOf(list, n)) : Place(FirstOf(list, n), m) = Place(list, m)
<1> DEFINE k     == Smaller(n, Len(list))
           first == FirstOf(list, n)
<1>1. Len(list) \in Nat /\ k \in Nat /\ k <= Len(list) /\ k <= n
  BY ListingFacts DEF Smaller
<1>2. first = SubSeq(list, 1, k)
  BY DEF FirstOf
<1>3. \A i \in 1 .. Len(list) : i <= n <=> i <= k
  BY <1>1 DEF Smaller
<1> HIDE DEF k, first
<1>4. \A i \in 1 .. k : i \in 1 .. Len(list) /\ list[i] \in Memories
  <2>1. \A i \in 1 .. k : i \in 1 .. Len(list)
    BY <1>1
  <2> QED BY <2>1, ListingFacts
<1>5. /\ first \in Seq(Memories) /\ Len(first) = IF 1 <= k THEN k - 1 + 1 ELSE 0
      /\ \A i \in 1 .. k - 1 + 1 : first[i] = list[1 + i - 1]
  <2>1. k \in Int /\ 1 \in Int
    BY <1>1
  <2> QED BY <1>2, <1>4, <2>1, SubSeqProperties
<1>6. Len(first) = k /\ \A i \in 1 .. k : first[i] = list[i]
  BY <1>1, <1>5
<1>7. IsListing(first)
  <2>1. DOMAIN first = 1 .. k
    BY <1>5, <1>6, LenProperties
  <2>2. \A i, j \in 1 .. k : first[i] = first[j] => i = j
    BY <1>4, <1>6, ListingFacts
  <2> QED BY <1>5, <2>1, <2>2 DEF IsListing, IsInjective
<1>8. ToSet(first) = {list[i] : i \in 1 .. k}
  BY <1>6, <1>7, ListingFacts
<1>9. ToSet(first) = {m \in ToSet(list) : Place(list, m) <= n}
  <2>1. ASSUME NEW i \in 1 .. k PROVE list[i] \in ToSet(list) /\ Place(list, list[i]) <= n
    <3>1. i \in 1 .. Len(list) /\ i <= k
      BY <1>1, <1>4
    <3> QED BY <1>3, <3>1, ListingFacts
  <2>2. ASSUME NEW m \in ToSet(list), Place(list, m) <= n
        PROVE  \E i \in 1 .. k : m = list[i]
    <3>1. Place(list, m) \in 1 .. Len(list) /\ list[Place(list, m)] = m
      BY ListingFacts
    <3>2. Place(list, m) <= k
      BY <1>3, <2>2, <3>1
    <3>3. Place(list, m) \in 1 .. k
      BY <1>1, <3>1, <3>2
    <3> QED BY <3>1, <3>3
  <2> QED BY <1>8, <2>1, <2>2
<1>10. ASSUME NEW m \in ToSet(first) PROVE Place(first, m) = Place(list, m)
  <2>1. PICK i \in 1 .. k : m = list[i]
    BY <1>8
  <2>2. first[i] = m /\ i \in 1 .. Len(list) /\ i \in 1 .. Len(first)
    BY <1>4, <1>6, <2>1
  <2> QED BY <1>7, <2>1, <2>2, ListingFacts
<1> QED BY <1>6, <1>7, <1>9, <1>10 DEF k, first

\* What a signal or a model may list.
LEMMA ListsAre ==
  ASSUME NEW set, set \subseteq Memories, NEW depth, NEW list \in Lists(set, depth)
  PROVE  IsListing(list) /\ ToSet(list) \subseteq set
<1>1. PICK n \in 0 .. Smaller(depth, Cardinality(set)) : list \in [1 .. n -> set]
  BY DEF Lists
<1>2. n \in Nat
  OBVIOUS
<1>3. list \in Seq(set) /\ IsInjective(list)
  BY <1>1, <1>2, SeqDef DEF Lists
<1>4. list \in Seq(Memories)
  BY <1>3, SeqMonotonic
<1> QED BY <1>1, <1>3, <1>4 DEF IsListing, ToSet

\* A shorter prefix has all of a list that fits.
LEMMA ShortIsWhole ==
  ASSUME NEW list, IsListing(list), NEW n \in Nat, Len(list) <= n
  PROVE  ToSet(FirstOf(list, n)) = ToSet(list)
<1>1. \A m \in ToSet(list) : Place(list, m) <= n
  <2> TAKE m \in ToSet(list)
  <2>1. Place(list, m) \in 1 .. Len(list) /\ Len(list) \in Nat
    BY ListingFacts
  <2> QED BY <2>1
<1>2. ToSet(FirstOf(list, n)) = {m \in ToSet(list) : Place(list, m) <= n}
  BY FirstOfIs
<1> QED BY <1>1, <1>2

\* Who comes first stays first among some.
LEMMA FirstStays ==
  ASSUME NEW list, IsListing(list), NEW set, list # <<>>, list[1] \in set
  PROVE  /\ list[1] \in ToSet(Only(list, set)) /\ Place(Only(list, set), list[1]) = 1
         /\ Only(list, set) # <<>> /\ Only(list, set)[1] = list[1]
<1> DEFINE some == Only(list, set)
           h    == list[1]
<1>1. 1 \in 1 .. Len(list) /\ Len(list) \in Nat
  <2>1. Len(list) \in Nat \ {0}
    BY EmptySeq DEF IsListing
  <2> QED BY <2>1
<1>2. h \in ToSet(list) /\ Place(list, h) = 1
  BY <1>1, ListingFacts
<1>3. IsListing(some) /\ ToSet(some) = ToSet(list) \intersect set
  BY OnlyIs
<1>4. h \in ToSet(some)
  BY <1>2, <1>3
<1>5. Place(some, h) \in 1 .. Len(some) /\ some[Place(some, h)] = h /\ Len(some) \in Nat
  BY <1>3, <1>4, ListingFacts
<1>6. ASSUME Place(some, h) # 1 PROVE FALSE
  <2> DEFINE b == some[1]
  <2>1. 1 \in 1 .. Len(some)
    BY <1>5
  <2>2. b \in ToSet(some) /\ Place(some, b) = 1
    BY <1>3, <2>1, ListingFacts
  <2>3. b \in ToSet(list) /\ b # h
    BY <1>3, <1>6, <2>2
  <2>4. Place(list, b) \in 1 .. Len(list) /\ list[Place(list, b)] = b
    BY <2>3, ListingFacts
  <2>5. Place(list, b) # 1
    BY <2>3, <2>4
  <2>6. Place(list, h) < Place(list, b)
    BY <1>1, <1>2, <2>4, <2>5
  <2>7. Place(some, h) < Place(some, b)
    BY <1>4, <2>2, <2>6, OnlyIs
  <2> QED BY <1>5, <2>2, <2>7
<1>7. some # <<>>
  BY <1>4, EmptyListing
<1> QED BY <1>4, <1>5, <1>6, <1>7

-----------------------------------------------------------------------------
(* Fusion. *)

\* A quotient falls as its divisor grows.
LEMMA QuotientFalls ==
  ASSUME NEW s \in Nat, NEW p \in Nat \ {0}, NEW q \in Nat, p <= q
  PROVE  s \div p \in Nat /\ s \div q \in Nat /\ s \div q <= s \div p
<1> DEFINE u == s \div q
           v == s \div p
<1>1. q \in Nat \ {0}
  OBVIOUS
<1>2. u \in Nat /\ v \in Nat
  BY <1>1
<1>3. q * u <= s /\ s < p * (v + 1)
  BY <1>1
<1> HIDE DEF u, v
<1>4. p * u <= q * u
  BY <1>1, <1>2
<1>5. ASSUME v + 1 <= u PROVE FALSE
  <2>1. p * (v + 1) <= p * u
    BY <1>2, <1>5
  <2>2. p * (v + 1) \in Nat /\ p * u \in Nat /\ q * u \in Nat
    BY <1>1, <1>2
  <2> QED BY <1>3, <1>4, <2>1, <2>2
<1>6. u <= v
  BY <1>2, <1>5
<1> QED BY <1>2, <1>6 DEF u, v

\* A higher place counts at least as much.
LEMMA ReciprocalFalls ==
  ASSUME NEW i \in Nat \ {0}, NEW j \in Nat, i <= j
  PROVE  Reciprocal(i) \in Nat /\ Reciprocal(j) \in Nat /\ Reciprocal(j) <= Reciprocal(i)
<1>1. Scale \in Nat /\ RRF_K \in Nat \ {0}
  BY ZenonT(60), SearchAssumption
<1>2. RRF_K + i - 1 \in Nat \ {0} /\ RRF_K + j - 1 \in Nat /\ RRF_K + i - 1 <= RRF_K + j - 1
  BY <1>1
<1>3. /\ Scale \div (RRF_K + i - 1) \in Nat /\ Scale \div (RRF_K + j - 1) \in Nat
      /\ Scale \div (RRF_K + j - 1) <= Scale \div (RRF_K + i - 1)
  BY <1>1, <1>2, QuotientFalls
<1> QED BY <1>3 DEF Reciprocal

LEMMA PlaceCounts ==
  ASSUME NEW list, IsListing(list), NEW m \in ToSet(list)
  PROVE  Place(list, m) \in Nat \ {0} /\ Reciprocal(Place(list, m)) \in Nat
<1>1. Place(list, m) \in Nat \ {0}
  BY ListingFacts
<1> QED BY <1>1, ReciprocalFalls

\* Who is named in the first list only is behind those ahead of it there.
LEMMA FusedLists ==
  ASSUME NEW one, IsListing(one), NEW wOne \in Nat, NEW two, IsListing(two), NEW wTwo \in Nat
  PROVE  LET fused == rrf_fuse(one, wOne, two, wTwo)
         IN /\ IsListing(fused) /\ ToSet(fused) = ToSet(one) \union ToSet(two)
            /\ \A a, b \in ToSet(one) :
                 /\ b \notin ToSet(two)
                 /\ Place(one, a) < Place(one, b)
                 => Place(fused, a) < Place(fused, b)
<1> DEFINE order           == Merged(one, two)
           part(list, w, m) == IF m \in ToSet(list) THEN w * Reciprocal(Place(list, m)) ELSE 0
           score == [m \in ToSet(order) |-> part(one, wOne, m) + part(two, wTwo, m)]
           fused == rrf_fuse(one, wOne, two, wTwo)
<1>1. /\ IsListing(order) /\ ToSet(order) = ToSet(one) \union ToSet(two)
      /\ \A a \in ToSet(one) : Place(order, a) = Place(one, a)
  BY MergedIs
<1>2. fused = Ranked(order, score)
  BY DEF rrf_fuse
<1>3. ASSUME NEW m \in Memories PROVE part(one, wOne, m) \in Nat /\ part(two, wTwo, m) \in Nat
  <2>1. \A k \in Nat : wOne * k \in Nat /\ wTwo * k \in Nat
    OBVIOUS
  <2>2. /\ m \in ToSet(one) => Reciprocal(Place(one, m)) \in Nat
        /\ m \in ToSet(two) => Reciprocal(Place(two, m)) \in Nat
    BY PlaceCounts
  <2> QED BY <2>1, <2>2
<1>4. ToSet(order) \subseteq Memories
  BY <1>1, ListingFacts
<1>5. \A m \in ToSet(order) : score[m] = part(one, wOne, m) + part(two, wTwo, m)
  OBVIOUS
<1>6. ASSUME NEW a \in ToSet(one), NEW b \in ToSet(one), b \notin ToSet(two),
             Place(one, a) < Place(one, b)
      PROVE  score[a] >= score[b] /\ Place(order, a) < Place(order, b)
  <2> DEFINE x == Reciprocal(Place(one, a))
             y == Reciprocal(Place(one, b))
  <2>1. Place(one, a) \in Nat \ {0} /\ Place(one, b) \in Nat
    BY PlaceCounts
  <2>2. x \in Nat /\ y \in Nat /\ y <= x
    BY <1>6, <2>1, ReciprocalFalls
  <2>3. part(one, wOne, a) = wOne * x /\ part(one, wOne, b) = wOne * y /\ part(two, wTwo, b) = 0
    BY <1>6
  <2>4. a \in Memories /\ a \in ToSet(order) /\ b \in ToSet(order)
    BY <1>1, <1>4
  <2>5. score[a] = wOne * x + part(two, wTwo, a) /\ score[b] = wOne * y
    <3> HIDE DEF part, x, y, score
    <3>1. part(one, wOne, b) \in Nat /\ b \in Memories
      BY <1>3, <1>4, <2>4
    <3> QED BY <1>5, <2>3, <2>4, <3>1
  <2>6. part(two, wTwo, a) \in Nat
    BY <1>3, <2>4
  <2> HIDE DEF part, x, y, score
  <2>7. wOne * x \in Nat /\ wOne * y \in Nat /\ wOne * y <= wOne * x
    BY <2>2
  <2> QED BY <1>1, <1>6, <2>5, <2>6, <2>7
<1>7. \A m \in ToSet(order) : score[m] \in Int
  <2> HIDE DEF part, score
  <2> QED BY <1>3, <1>4, <1>5
<1>8. /\ IsListing(fused) /\ ToSet(fused) = ToSet(order)
      /\ \A a, b \in ToSet(order) :
           /\ score[a] >= score[b]
           /\ Place(order, a) < Place(order, b)
           => Place(fused, a) < Place(fused, b)
  <2> HIDE DEF score, fused, order
  <2> QED BY <1>1, <1>2, <1>7, RankedIs
<1> HIDE DEF score, fused, order
<1>9. \A a, b \in ToSet(one) :
        /\ b \notin ToSet(two)
        /\ Place(one, a) < Place(one, b)
        => Place(fused, a) < Place(fused, b)
  BY <1>1, <1>6, <1>8
<1> QED BY <1>1, <1>8, <1>9 DEF fused

\* A nudge moves, and neither adds nor drops.
LEMMA BoostedIs ==
  ASSUME NEW list, IsListing(list), NEW bonus, \A m \in Memories : bonus[m] \in Int
  PROVE  IsListing(Boosted(list, bonus)) /\ ToSet(Boosted(list, bonus)) = ToSet(list)
<1> DEFINE score == [m \in ToSet(list) |-> Reciprocal(Place(list, m)) + bonus[m]]
<1>1. \A m \in ToSet(list) : score[m] \in Int
  <2> TAKE m \in ToSet(list)
  <2>1. Reciprocal(Place(list, m)) \in Nat /\ bonus[m] \in Int
    BY PlaceCounts, ListingFacts
  <2> QED BY <2>1
<1>2. Boosted(list, bonus) = list \/ Boosted(list, bonus) = Ranked(list, score)
  BY DEF Boosted
<1> HIDE DEF score
<1> QED BY <1>1, <1>2, RankedIs

LEMMA NudgedIs ==
  ASSUME NEW list, IsListing(list)
  PROVE  IsListing(Nudged(list)) /\ ToSet(Nudged(list)) = ToSet(list)
<1>1. /\ \A m \in Memories : Bonus.trust[m] \in Int
      /\ \A m \in Memories : Bonus.tier[m] \in Int
      /\ \A m \in Memories : Bonus.activation[m] \in Int
  <2>1. \A nudge \in {"trust", "tier", "activation"} : Bonus[nudge] \in [Memories -> Int]
    BY ZenonT(60), SearchAssumption
  <2> QED BY <2>1
<1> DEFINE one   == Boosted(list, Bonus.trust)
           two   == Boosted(one, Bonus.tier)
           three == Demoted(two)
<1>2. IsListing(one) /\ ToSet(one) = ToSet(list)
  BY <1>1, BoostedIs
<1>3. IsListing(two) /\ ToSet(two) = ToSet(list)
  <2> HIDE DEF one
  <2> QED BY <1>1, <1>2, BoostedIs
<1>4. IsListing(three) /\ ToSet(three) = ToSet(list)
  <2> DEFINE bonus == [m \in Memories |-> IF \E n \in ToSet(two) : <<m, n>> \in Outdated
                                            THEN -StaleDemotionWeight ELSE 0]
  <2>1. StaleDemotionWeight \in Nat
    BY ZenonT(60), SearchAssumption
  <2>2. \A m \in Memories : bonus[m] \in Int
    BY <2>1
  <2>3. three = Boosted(two, bonus)
    BY DEF Demoted
  <2> HIDE DEF two, bonus, three
  <2> QED BY <1>3, <2>2, <2>3, BoostedIs
<1>5. Nudged(list) = Boosted(three, Bonus.activation)
  BY DEF Nudged
<1> HIDE DEF three
<1> QED BY <1>1, <1>4, <1>5, BoostedIs

\* Every weight counts.
LEMMA WeightCounts ==
  ASSUME NEW r \in Route, NEW signal \in Signals \union {"fts"}
  PROVE  Weight(r, signal) \in Nat
<1>1. /\ r \in {"Temporal", "MultiHop", "SingleHop", "OpenDomain"}
      /\ TemporalFusionWeight \in Nat /\ ChunkFusionWeight \in Nat
  BY ZenonT(60), SearchAssumption
<1>2. Larger(TemporalFusionWeight, 1) \in Nat
  BY <1>1 DEF Larger
<1> DEFINE field == IF signal \in {"variant_fts", "variant_vector"} THEN "query_variant" ELSE signal
<1>3. field \in {"fts", "vector", "query_variant", "event_year", "temporal_event", "graph", "chunk"}
  BY DEF Signals
<1>4. FusionWeights(r)[field] \in Nat
  <2> HIDE DEF field
  <2>1. CASE r = "Temporal"
    BY <1>2, <1>3, <2>1 DEF FusionWeights
  <2>2. CASE r = "MultiHop"
    BY <1>2, <1>3, <2>2 DEF FusionWeights
  <2>3. CASE r = "SingleHop"
    BY <1>2, <1>3, <2>3 DEF FusionWeights
  <2>4. CASE r = "OpenDomain"
    BY <1>1, <1>2, <1>3, <2>4 DEF FusionWeights
  <2> QED BY <1>1, <2>1, <2>2, <2>3, <2>4
<1> QED BY <1>4 DEF Weight

\* A signal adds to the full-text list and drops nobody.
LEMMA FusedIs ==
  ASSUME IsListing(fts), NEW r \in Route, NEW signal \in Signals, NEW list, IsListing(list)
  PROVE  /\ IsListing(Fused(r, signal, list)) /\ ToSet(fts) \subseteq ToSet(Fused(r, signal, list))
         /\ ToSet(Fused(r, signal, list)) \subseteq ToSet(fts) \union ToSet(list)
<1>1. Weight(r, signal) \in Nat /\ Weight(r, "fts") \in Nat
  BY WeightCounts
<1>2. \/ Fused(r, signal, list) = fts
      \/ Fused(r, signal, list) = rrf_fuse(fts, Weight(r, "fts"), list, Weight(r, signal))
  BY DEF Fused
<1> DEFINE own   == Weight(r, "fts")
           w     == Weight(r, signal)
           fused == rrf_fuse(fts, own, list, w)
<1>3. IsListing(fused) /\ ToSet(fused) = ToSet(fts) \union ToSet(list)
  <2>1. own \in Nat /\ w \in Nat
    BY <1>1
  <2> HIDE DEF own, w
  <2> QED BY <2>1, FusedLists
<1> HIDE DEF fused
<1> QED BY <1>2, <1>3 DEF fused

\* A rerank keeps Limit of its candidates, and one that is left out was passed by
\* none from behind that the model did not name.
LEMMA RerankedIs ==
  ASSUME NEW list, IsListing(list), NEW order, IsListing(order), ToSet(order) \subseteq ToSet(list)
  PROVE  LET result == fuse_rerank(list, order)
         IN /\ IsListing(result) /\ Len(result) <= Limit /\ ToSet(result) \subseteq ToSet(list)
            /\ \A a \in ToSet(list) \ ToSet(result), b \in ToSet(result) :
                 Place(list, a) < Place(list, b) => b \in ToSet(order)
<1> DEFINE fused  == rrf_fuse(list, 1, order, 1)
           whole  == IF order = <<>> THEN list ELSE fused
           result == fuse_rerank(list, order)
<1>1. Limit \in Nat
  BY ZenonT(60), SearchAssumption
<1>2. /\ IsListing(fused) /\ ToSet(fused) = ToSet(list) \union ToSet(order)
      /\ \A a, b \in ToSet(list) :
           /\ b \notin ToSet(order)
           /\ Place(list, a) < Place(list, b)
           => Place(fused, a) < Place(fused, b)
  BY FusedLists
<1>3. /\ IsListing(whole) /\ ToSet(whole) = ToSet(list)
      /\ \A a, b \in ToSet(list) :
           /\ b \notin ToSet(order)
           /\ Place(list, a) < Place(list, b)
           => Place(whole, a) < Place(whole, b)
  BY <1>2
<1>4. result = FirstOf(whole, Limit)
  BY DEF fuse_rerank
<1> HIDE DEF whole, result
<1>5. /\ IsListing(result) /\ Len(result) = Smaller(Limit, Len(whole))
      /\ ToSet(result) = {m \in ToSet(whole) : Place(whole, m) <= Limit}
  BY <1>1, <1>3, <1>4, FirstOfIs
<1>6. Len(result) <= Limit
  <2>1. Len(whole) \in Nat
    BY <1>3, ListingFacts
  <2> QED BY <1>1, <1>5, <2>1 DEF Smaller
<1>7. ASSUME NEW a \in ToSet(list) \ ToSet(result), NEW b \in ToSet(result),
             Place(list, a) < Place(list, b), b \notin ToSet(order)
      PROVE  FALSE
  <2>1. b \in ToSet(list) /\ a \in ToSet(whole) /\ b \in ToSet(whole)
    BY <1>3, <1>5
  <2>2. Place(whole, a) < Place(whole, b) /\ Place(whole, b) <= Limit
    BY <1>3, <1>5, <1>7, <2>1
  <2>3. Place(whole, a) \in Nat /\ Place(whole, b) \in Nat
    BY <1>3, <2>1, PlaceCounts
  <2>4. Place(whole, a) <= Limit
    BY <1>1, <2>2, <2>3
  <2> QED BY <1>5, <2>1, <2>4
<1> QED BY <1>3, <1>5, <1>6, <1>7 DEF result

-----------------------------------------------------------------------------
(* Reserved places. *)

\* The promotion moves the floor to the front of a list that is too long.
LEMMA PromotedIs ==
  ASSUME NEW list, IsListing(list), IsListing(floor), NEW limit \in Nat
  PROVE  LET result == promote_source_fact_floor(list, limit)
         IN /\ IsListing(result) /\ ToSet(result) = ToSet(list)
            /\ limit # 0 /\ floor # <<>> /\ floor[1] \in ToSet(list)
               => Len(result) <= limit \/ (result # <<>> /\ result[1] = floor[1])
<1> DEFINE front  == Only(floor, ToSet(list))
           result == promote_source_fact_floor(list, limit)
<1>1. IsListing(front) /\ ToSet(front) = ToSet(floor) \intersect ToSet(list)
  BY OnlyIs
<1>2. \/ Len(list) <= limit /\ result = list
      \/ limit = 0 /\ result = list
      \/ result = Merged(front, list)
  <2>1. Len(list) <= limit \/ limit = 0 => result = list
    BY DEF promote_source_fact_floor
  <2>2. ~(Len(list) <= limit \/ limit = 0) => result = Merged(front, list)
    BY DEF promote_source_fact_floor
  <2> QED BY <2>1, <2>2
<1> HIDE DEF front, result
<1>3. /\ IsListing(Merged(front, list)) /\ ToSet(Merged(front, list)) = ToSet(front) \union ToSet(list)
      /\ \A a \in ToSet(front) : Place(Merged(front, list), a) = Place(front, a)
  BY <1>1, MergedIs
<1>4. IsListing(result) /\ ToSet(result) = ToSet(list)
  BY <1>1, <1>2, <1>3
<1>5. ASSUME floor # <<>>, floor[1] \in ToSet(list)
      PROVE  /\ Merged(front, list) # <<>> /\ Merged(front, list)[1] = floor[1]
  <2>1. floor[1] \in ToSet(front) /\ Place(front, floor[1]) = 1
    BY <1>5, FirstStays DEF front
  <2>2. Place(Merged(front, list), floor[1]) = 1 /\ floor[1] \in ToSet(Merged(front, list))
    BY <1>3, <2>1
  <2>3. Merged(front, list)[Place(Merged(front, list), floor[1])] = floor[1]
    BY <1>3, <2>2, ListingFacts
  <2>4. Merged(front, list) # <<>>
    BY <2>2, EmptyListing
  <2> QED BY <2>2, <2>3, <2>4
<1> QED BY <1>2, <1>4, <1>5 DEF result

\* The smaller of two numbers is one, at most either, and either way round.
LEMMA SmallerIs ==
  ASSUME NEW a \in Nat, NEW b \in Nat
  PROVE  /\ Smaller(a, b) \in Nat /\ a >= Smaller(a, b) /\ b >= Smaller(a, b)
         /\ Smaller(a, b) = Smaller(b, a)
BY DEF Smaller

LEMMA NarrativeShare ==
  ASSUME NEW limit \in Nat, limit >= 2
  PROVE  narr_slots(limit) \in Nat \ {0} /\ narr_slots(limit) + 1 <= limit
BY DEF narr_slots, Larger

\* The reservation keeps the first row and a share of narratives.
LEMMA ReservedIs ==
  ASSUME NEW list, IsListing(list), NEW limit \in Nat
  PROVE  LET result == reserve_narrative_slots(list, limit)
             told   == {m \in ToSet(list) : kind(m) # "fact"}
         IN /\ IsListing(result) /\ ToSet(result) \subseteq ToSet(list) /\ Len(result) <= limit
            /\ Len(list) <= limit => ToSet(result) = ToSet(list)
            /\ limit >= 2 =>
                 /\ list # <<>> => list[1] \in ToSet(result)
                 /\ Cardinality(told \intersect ToSet(result))
                      >= Smaller(Cardinality(told), narr_slots(limit))
<1> DEFINE told       == {m \in ToSet(list) : kind(m) # "fact"}
           narratives == Only(list, {m \in Memories : kind(m) # "fact"})
           share      == FirstOf(narratives, narr_slots(limit))
           merged     == Merged(share, list)
           chosen     == FirstOf(merged, limit)
           kept       == Only(list, ToSet(chosen))
           result     == reserve_narrative_slots(list, limit)
<1>1. Len(list) \in Nat /\ ToSet(list) \subseteq Memories
  BY ListingFacts
<1>2. IsFiniteSet(told) /\ Cardinality(told) \in Nat
  <2>1. told \in SUBSET ToSet(list)
    OBVIOUS
  <2> QED BY <2>1, ListingSize, FS_Subset, FS_CardinalityType
<1>3. narr_slots(limit) \in Nat
  BY DEF narr_slots, Larger
<1>4. IsListing(narratives) /\ ToSet(narratives) = told
  <2>1. IsListing(narratives)
        /\ ToSet(narratives) = ToSet(list) \intersect {m \in Memories : kind(m) # "fact"}
    BY OnlyIs
  <2> QED BY <1>1, <2>1
<1>5. (Len(list) <= limit => result = list) /\ (~(Len(list) <= limit) => result = kept)
  BY DEF reserve_narrative_slots
<1> HIDE DEF told, result, narratives
<1>6. /\ IsListing(share) /\ Len(share) = Smaller(narr_slots(limit), Cardinality(told))
      /\ ToSet(share) \subseteq told
  <2>1. Len(narratives) = Cardinality(told)
    BY <1>4, ListingSize
  <2> QED BY <1>3, <1>4, <2>1, FirstOfIs
<1> HIDE DEF share
<1>7. /\ IsListing(merged) /\ ToSet(merged) = ToSet(share) \union ToSet(list)
      /\ \A a \in ToSet(share) : Place(merged, a) = Place(share, a)
      /\ \A b \in ToSet(Only(list, Memories \ ToSet(share))) :
           Place(merged, b) = Len(share) + Place(Only(list, Memories \ ToSet(share)), b)
  BY <1>6, MergedIs
<1>8. ToSet(merged) = ToSet(list)
  BY <1>6, <1>7 DEF told
<1> HIDE DEF merged
<1>9. /\ IsListing(chosen) /\ Len(chosen) = Smaller(limit, Len(merged))
      /\ ToSet(chosen) = {m \in ToSet(merged) : Place(merged, m) <= limit}
  BY ZenonT(60), <1>7, FirstOfIs
<1> HIDE DEF chosen
<1>10. IsListing(kept) /\ ToSet(kept) = ToSet(list) \intersect ToSet(chosen)
  BY OnlyIs
<1>11. ToSet(kept) = ToSet(chosen)
  BY <1>8, <1>9, <1>10
<1>12. Len(kept) <= limit
  <2>1. Len(kept) = Len(chosen)
    BY <1>9, <1>10, <1>11, ListingSize
  <2>2. Len(merged) \in Nat
    BY <1>7, ListingFacts
  <2> QED BY <1>9, <2>1, <2>2 DEF Smaller
<1> HIDE DEF kept
<1>13. IsListing(result) /\ ToSet(result) \subseteq ToSet(list) /\ Len(result) <= limit
  BY <1>5, <1>10, <1>12
<1>14. ASSUME limit >= 2, list # <<>> PROVE list[1] \in ToSet(kept)
  <2> DEFINE rest == Only(list, Memories \ ToSet(share))
             h    == list[1]
  <2>1. h \in ToSet(list) /\ h \in Memories
    <3>1. Len(list) # 0
      BY <1>14, EmptySeq DEF IsListing
    <3>2. 1 \in 1 .. Len(list)
      BY <1>1, <3>1
    <3> QED BY <1>1, <3>2, ListingFacts
  <2>2. narr_slots(limit) \in Nat /\ narr_slots(limit) + 1 <= limit
    BY <1>14, NarrativeShare
  <2>3. Len(share) \in Nat /\ Len(share) <= narr_slots(limit)
    BY <1>2, <1>3, <1>6, ListingFacts DEF Smaller
  <2>4. CASE h \in ToSet(share)
    <3>1. Place(share, h) \in 1 .. Len(share)
      BY <1>6, <2>4, ListingFacts
    <3>2. Place(merged, h) <= limit
      BY <1>7, <2>2, <2>3, <2>4, <3>1
    <3> QED BY <1>8, <1>9, <1>11, <2>1, <3>2
  <2>5. CASE h \notin ToSet(share)
    <3>1. h \in ToSet(rest) /\ Place(rest, h) = 1
      BY <1>14, <2>1, <2>5, FirstStays
    <3>2. Place(merged, h) = Len(share) + 1
      BY <1>7, <3>1
    <3>3. Place(merged, h) <= limit
      BY <2>2, <2>3, <3>2
    <3> QED BY <1>8, <1>9, <1>11, <2>1, <3>3
  <2> QED BY <2>4, <2>5
<1>15. ASSUME limit >= 2 PROVE ToSet(share) \subseteq ToSet(kept)
  <2>1. narr_slots(limit) \in Nat /\ narr_slots(limit) + 1 <= limit
    BY <1>15, NarrativeShare
  <2>2. Len(share) \in Nat /\ Len(share) <= narr_slots(limit)
    BY <1>2, <1>3, <1>6, ListingFacts DEF Smaller
  <2>3. ASSUME NEW m \in ToSet(share) PROVE Place(merged, m) <= limit /\ m \in ToSet(merged)
    <3>1. Place(share, m) \in 1 .. Len(share)
      BY <1>6, ListingFacts
    <3>2. Place(merged, m) = Place(share, m) /\ m \in ToSet(merged)
      BY <1>6, <1>7
    <3>3. limit \in Nat /\ narr_slots(limit) \in Nat
      BY <1>3
    <3> QED BY <2>1, <2>2, <3>1, <3>2, <3>3
  <2> QED BY <1>9, <1>11, <2>3
<1>16. ASSUME limit >= 2
       PROVE  Cardinality(told \intersect ToSet(result)) >= Smaller(Cardinality(told), narr_slots(limit))
  <2>1. CASE Len(list) <= limit
    <3>0. result = list /\ told \subseteq ToSet(list)
      BY <1>5, <2>1 DEF told
    <3>1. told \intersect ToSet(result) = told
      BY <3>0
    <3>2. Cardinality(told) >= Smaller(Cardinality(told), narr_slots(limit))
      BY <1>2, <1>3, SmallerIs
    <3> QED BY <3>1, <3>2, Zenon
  <2>2. CASE ~(Len(list) <= limit)
    <3> DEFINE both == told \intersect ToSet(kept)
    <3>1. ToSet(share) \in SUBSET both /\ both \in SUBSET told
      BY <1>6, <1>15, <1>16
    <3>2. IsFiniteSet(both) /\ Cardinality(both) \in Nat
      BY <1>2, <3>1, FS_Subset, FS_CardinalityType
    <3>3. Cardinality(ToSet(share)) <= Cardinality(both)
      BY <3>1, <3>2, FS_Subset
    <3>4. Cardinality(ToSet(share)) = Smaller(narr_slots(limit), Cardinality(told))
      BY <1>6, ListingSize
    <3>5. result = kept
      BY <1>5, <2>2
    <3>6. Smaller(narr_slots(limit), Cardinality(told)) = Smaller(Cardinality(told), narr_slots(limit))
      BY <1>2, <1>3, SmallerIs
    <3>7. Cardinality(both) >= Smaller(Cardinality(told), narr_slots(limit))
      BY <1>2, <1>3, <3>2, <3>3, <3>4, <3>6, SmallerIs
    <3> HIDE DEF both
    <3>8. told \intersect ToSet(result) = both
      BY <3>5 DEF both
    <3> QED BY <3>7, <3>8, Zenon
  <2> QED BY <2>1, <2>2
<1>17. Len(list) <= limit => ToSet(result) = ToSet(list)
  BY <1>5
<1>18. limit >= 2 /\ list # <<>> => list[1] \in ToSet(result)
  <2>1. ASSUME limit >= 2, list # <<>>, Len(list) <= limit PROVE list[1] \in ToSet(list)
    <3>1. Len(list) # 0
      BY <2>1, EmptySeq DEF IsListing
    <3>2. 1 \in 1 .. Len(list)
      BY <1>1, <3>1
    <3> QED BY <3>2, ListingFacts
  <2> QED BY <1>5, <1>14, <2>1
<1> QED BY <1>13, <1>16, <1>17, <1>18 DEF told, result

-----------------------------------------------------------------------------
(* The inductive invariant. *)

Stages == {"idle", "fulltext", "recall", "floor", "quarantine", "reserve", "materialize",
           "rerank", "loop", "final", "done", "error"}

SearchTypes ==
  /\ status \in [Memories -> {"none", "inserted", "kinded", "governed", "gone", "purged"}]
  /\ at \in Stages /\ hop \in 1 .. Larger(MaxHops, 1) /\ wide \in BOOLEAN /\ route \in Route
  /\ IsListing(fts) /\ IsListing(cand) /\ IsListing(floor) /\ IsListing(narrow)
  /\ IsListing(pool) /\ IsListing(named) /\ IsListing(answer)
  /\ hidden \subseteq Memories /\ derived \subseteq Memories /\ failures \in Nat

\* A search that has not begun has read nothing.
Idle ==
  at = "idle" =>
    /\ hidden = {} /\ derived = {} /\ fts = <<>> /\ cand = <<>> /\ floor = <<>>
    /\ narrow = <<>> /\ pool = <<>> /\ named = <<>> /\ answer = <<>>

\* What was forgotten, foreign or an inference stays so.
StaysHidden ==
  /\ \A m \in hidden : status[m] \in Forgotten \/ (status[m] = "governed" /\ Home[m] # Here)
  /\ \A m \in derived : Kind[m] = "inference" /\ status[m] \in {"governed"} \union Forgotten
  /\ \A m \in Stored : status[m] \in {"governed"} \union Forgotten

\* Rows that may be in an answer.
Shown(rows) ==
  /\ rows \intersect hidden = {}
  /\ \A m \in rows \intersect derived : status[m] = "purged"

\* The full-text list names nothing hidden, and past the quarantine a candidate
\* that was an inference has been purged, so that no row is one on record.
Clean ==
  /\ ToSet(fts) \intersect hidden = {}
  /\ at \in {"reserve", "materialize"} =>
       \A m \in ToSet(cand) \intersect derived : status[m] = "purged"
  /\ at = "rerank" => Shown(ToSet(cand))
  /\ Shown(ToSet(narrow) \union ToSet(pool) \union ToSet(answer))

\* Each pass brings its limit of rows and each hop Limit of them.
Short ==
  /\ at = "materialize" => Len(cand) <= PassLimit
  /\ Len(narrow) <= Limit /\ Len(answer) <= Limit
  /\ Len(pool) <= hop * Limit
  /\ at \notin {"loop", "final", "done", "error"} => Len(pool) <= (hop - 1) * Limit

Told == {m \in ToSet(fts) \intersect Stored : Kind[m] = "session"}

\* What the quotas are about is among the candidates until its place is reserved,
\* and the floor's first then is the first.
Offered ==
  /\ at \in {"floor", "quarantine"} => ToSet(fts) \subseteq ToSet(cand)
  /\ at = "quarantine" => ToSet(floor) \subseteq ToSet(fts)
  /\ at = "reserve" /\ PassLimit >= 2 =>
       /\ Told \subseteq ToSet(cand)
       /\ \A m \in ToSet(cand) \intersect Stored : status[m] = "purged" \/ Kind[m] # "inference"
       /\ floor # <<>> /\ Kind[floor[1]] # "inference" =>
            /\ floor[1] \in ToSet(cand)
            /\ Len(cand) <= PassLimit \/ (cand # <<>> /\ cand[1] = floor[1])

\* The narrow rows come first in what is reranked.
Anchored ==
  at = "rerank" =>
    /\ ToSet(narrow) \subseteq ToSet(cand)
    /\ \A a \in ToSet(narrow) : Place(cand, a) = Place(narrow, a)
    /\ \A b \in ToSet(cand) \ ToSet(narrow) : Place(cand, b) > Len(narrow)

SearchInv ==
  /\ SearchTypes /\ Idle /\ StaysHidden /\ Clean /\ Short /\ Offered /\ Anchored
  /\ QuotasHold /\ RerankOnlyPromotes

LEMMA SearchConstants ==
  /\ Limit \in Nat /\ RerankPool \in Nat /\ MaxHops \in Nat
  /\ Stored \subseteq Memories /\ Route # {} /\ Dated \subseteq Memories
  /\ Auxiliary \subseteq Signals
  /\ \A m \in Memories : Kind[m] \in {"session", "fact", "inference"}
<1>1. Limit \in Nat /\ RerankPool \in Nat /\ MaxHops \in Nat
  BY ZenonT(60), SearchAssumption
<1>2. Stored \subseteq Memories /\ Route # {} /\ Dated \subseteq Memories /\ Auxiliary \subseteq Signals
  BY ZenonT(60), SearchAssumption
<1>3. \A m \in Memories : Kind[m] \in {"session", "fact", "inference"}
  BY ZenonT(60), SearchAssumption
<1> QED BY <1>1, <1>2, <1>3

LEMMA PassLimitCounts ==
  ASSUME SearchTypes
  PROVE  PassLimit \in Nat
<1>1. Larger(2 * Limit, RerankPool) \in Nat
  BY SearchConstants DEF Larger
<1> QED BY <1>1, SearchConstants DEF PassLimit, SearchTypes

LEMMA SearchStarts == SearchInit => SearchInv
<1> SUFFICES ASSUME SearchInit PROVE SearchInv
  OBVIOUS
<1>1. IsListing(<<>>) /\ ToSet(<<>>) = {} /\ Len(<<>>) = 0
  BY EmptyListing
<1>2. SearchTypes
  <2>1. route \in Route
    BY SearchConstants DEF SearchInit
  <2>2. 1 \in 1 .. Larger(MaxHops, 1)
    BY SearchConstants DEF Larger
  <2> QED BY <1>1, <2>1, <2>2, SearchConstants DEF SearchInit, SearchTypes, Stages
<1>3. Idle /\ Clean /\ Offered /\ Anchored
  BY <1>1 DEF SearchInit, Idle, Clean, Shown, Offered, Anchored
<1>4. StaysHidden
  BY SearchConstants DEF SearchInit, StaysHidden
<1>5. Short
  BY <1>1, SearchConstants DEF SearchInit, Short
<1>6. QuotasHold /\ RerankOnlyPromotes
  BY DEF SearchInit, QuotasHold, RerankOnlyPromotes
<1> QED BY <1>2, <1>3, <1>4, <1>5, <1>6 DEF SearchInv

-----------------------------------------------------------------------------
(* The steps. *)

\* What a step that leaves the store alone and takes the search to a stage where
\* little is said has to show.
LEMMA RestStays ==
  ASSUME SearchInv, UNCHANGED <<status, hidden, derived, narrow, pool, answer, hop>>,
         at' \in Stages \ {"idle", "loop", "done"}
  PROVE  /\ Idle' /\ StaysHidden' /\ RerankOnlyPromotes'
         /\ Len(narrow') <= Limit /\ Len(answer') <= Limit /\ Len(pool') <= hop' * Limit
         /\ Shown(ToSet(narrow) \union ToSet(pool) \union ToSet(answer))'
<1>1. Idle' /\ StaysHidden'
  BY DEF SearchInv, Idle, StaysHidden
<1>2. RerankOnlyPromotes'
  BY DEF RerankOnlyPromotes
<1> QED BY <1>1, <1>2 DEF SearchInv, Short, Clean, Shown

LEMMA StartStep ==
  ASSUME SearchInv, Start
  PROVE  SearchInv'
<1>1. /\ at = "idle" /\ at' = "fulltext" /\ route' \in Route
      /\ hidden' = Hidden /\ derived' = Derived
      /\ UNCHANGED <<status, failures, fts, cand, floor, hop, wide, narrow, pool, named, answer>>
  BY DEF Start, Then, pass, loop
<1>2. /\ fts = <<>> /\ cand = <<>> /\ narrow = <<>> /\ pool = <<>> /\ answer = <<>>
  BY <1>1 DEF SearchInv, Idle
<1>3. SearchTypes'
  BY <1>1 DEF SearchInv, SearchTypes, Hidden, Derived, Stages
<1>4. StaysHidden'
  BY <1>1 DEF SearchInv, StaysHidden, Hidden, Derived, Forgotten
<1>5. Clean'
  BY <1>1, <1>2, EmptyListing DEF Clean, Shown
<1>6. Short'
  BY <1>1 DEF SearchInv, Short
<1>7. Idle' /\ Offered' /\ Anchored' /\ QuotasHold' /\ RerankOnlyPromotes'
  BY <1>1 DEF Idle, Offered, Anchored, QuotasHold, RerankOnlyPromotes
<1> QED BY <1>3, <1>4, <1>5, <1>6, <1>7 DEF SearchInv

LEMMA FulltextStep ==
  ASSUME SearchInv, Fulltext
  PROVE  SearchInv'
<1>1. /\ at = "fulltext" /\ at' = "recall" /\ fts' \in Lists(Readable, ListDepth("fts"))
      /\ UNCHANGED <<status, failures, cand, floor, hop, wide, narrow, pool, named, answer,
                     route, hidden, derived>>
  BY DEF Fulltext, Then, loop
<1>2. IsListing(fts') /\ ToSet(fts') \subseteq Readable
  BY <1>1, ListsAre DEF Readable
<1>3. SearchTypes'
  BY <1>1, <1>2 DEF SearchInv, SearchTypes, Stages
<1>4. ToSet(fts') \intersect hidden = {}
  BY <1>2 DEF SearchInv, StaysHidden, Readable, Live, InNamespace, Forgotten
<1>5. at' \in Stages \ {"idle", "loop", "done"}
  BY <1>1 DEF Stages
<1>6. Clean' /\ Short'
  BY <1>1, <1>4, <1>5, RestStays DEF SearchInv, Clean, Shown, Short
<1>7. Idle' /\ StaysHidden' /\ RerankOnlyPromotes'
  BY <1>1, <1>5, RestStays
<1>8. Offered' /\ Anchored' /\ QuotasHold'
  BY <1>1 DEF Offered, Anchored, QuotasHold
<1> QED BY <1>3, <1>6, <1>7, <1>8 DEF SearchInv

\* A signal names memories.
LEMMA SignalsName ==
  ASSUME NEW signal \in Signals
  PROVE  Visible(signal) \subseteq Memories
<1>1. \A e : memory_edges_for_entity(e) \subseteq Memories
  BY DEF memory_edges_for_entity
<1>2. graph_ids_for_query \subseteq Memories
  BY <1>1 DEF graph_ids_for_query
<1>3. knn \subseteq Memories /\ search_memory_chunk_parents \subseteq Memories
      /\ Readable \subseteq Memories
  BY DEF knn, search_memory_chunk_parents, Readable
<1>4. memories_by_event_time \subseteq Memories /\ temporal_event_ids_for_query \subseteq Memories
  BY SearchConstants DEF memories_by_event_time, temporal_event_ids_for_query, dated_memories
<1> HIDE DEF graph_ids_for_query
<1> QED BY <1>2, <1>3, <1>4 DEF Visible, Signals

LEMMA RecallStep ==
  ASSUME SearchInv, Recall
  PROVE  SearchInv'
<1>1. /\ at = "recall" /\ at' = "floor"
      /\ UNCHANGED <<status, failures, fts, floor, hop, wide, narrow, pool, named, answer,
                     route, hidden, derived>>
  BY DEF Recall, Then, loop
<1>2. IsListing(fts) /\ route \in Route
  BY DEF SearchInv, SearchTypes
<1>3. IsListing(cand') /\ ToSet(fts) \subseteq ToSet(cand')
  <2>1. CASE cand' = Nudged(fts)
    BY <1>2, <2>1, NudgedIs
  <2>2. CASE \E signal \in Auxiliary : \E list \in Lists(Visible(signal), ListDepth(signal)) :
               cand' = Nudged(Fused(route, signal, list))
    <3>0. PICK signal \in Auxiliary : \E list \in Lists(Visible(signal), ListDepth(signal)) :
                                        cand' = Nudged(Fused(route, signal, list))
      BY <2>2
    <3>1. PICK list \in Lists(Visible(signal), ListDepth(signal)) :
                 cand' = Nudged(Fused(route, signal, list))
      BY <3>0
    <3>2. signal \in Signals
      BY SearchConstants
    <3>3. IsListing(list)
      <4>1. Visible(signal) \subseteq Memories
        BY <3>2, SignalsName
      <4> QED BY <3>1, <4>1, ListsAre
    <3>4. IsListing(Fused(route, signal, list))
          /\ ToSet(fts) \subseteq ToSet(Fused(route, signal, list))
      BY <1>2, <3>2, <3>3, FusedIs
    <3> QED BY <3>1, <3>4, NudgedIs
  <2>3. \/ cand' = Nudged(fts)
        \/ \E signal \in Auxiliary : \E list \in Lists(Visible(signal), ListDepth(signal)) :
             cand' = Nudged(Fused(route, signal, list))
    BY DEF Recall
  <2> QED BY <2>1, <2>2, <2>3
<1>4. SearchTypes'
  BY <1>1, <1>3 DEF SearchInv, SearchTypes, Stages
<1>5. at' \in Stages \ {"idle", "loop", "done"}
  BY <1>1 DEF Stages
<1>6. Clean' /\ Short'
  BY <1>1, <1>5, RestStays DEF SearchInv, Clean, Shown, Short
<1>7. Idle' /\ StaysHidden' /\ RerankOnlyPromotes'
  BY <1>1, <1>5, RestStays
<1>8. Offered' /\ Anchored' /\ QuotasHold'
  BY <1>1, <1>3 DEF Offered, Anchored, QuotasHold
<1> QED BY <1>4, <1>6, <1>7, <1>8 DEF SearchInv

LEMMA FloorStep ==
  ASSUME SearchInv, lexical_source_fact_floor_ids
  PROVE  SearchInv'
<1>1. /\ at = "floor" /\ at' = "quarantine" /\ floor' \in FloorLists(PassLimit)
      /\ UNCHANGED <<status, failures, fts, cand, hop, wide, narrow, pool, named, answer,
                     route, hidden, derived>>
  BY DEF lexical_source_fact_floor_ids, Then, loop
<1>2. IsListing(floor') /\ ToSet(floor') \subseteq ToSet(fts)
  <2> DEFINE facts == {m \in ToSet(fts) : /\ kind(m) # "inference"
                                          /\ m \notin Synthesized
                                          /\ kind(m) = "fact" \/ m \in SourceLinked}
  <2>1. ToSet(fts) \subseteq Memories
    BY ListingFacts DEF SearchInv, SearchTypes
  <2>2. floor' \in Lists(facts, source_fact_floor_slots(PassLimit))
    BY <1>1 DEF FloorLists
  <2>3. facts \subseteq Memories /\ facts \subseteq ToSet(fts)
    BY <2>1
  <2> HIDE DEF facts
  <2> QED BY <2>2, <2>3, ListsAre
<1>3. SearchTypes'
  BY <1>1, <1>2 DEF SearchInv, SearchTypes, Stages
<1>4. at' \in Stages \ {"idle", "loop", "done"}
  BY <1>1 DEF Stages
<1>5. Clean' /\ Short'
  BY <1>1, <1>4, RestStays DEF SearchInv, Clean, Shown, Short
<1>6. Idle' /\ StaysHidden' /\ RerankOnlyPromotes'
  BY <1>1, <1>4, RestStays
<1>7. Offered' /\ Anchored' /\ QuotasHold'
  BY <1>1, <1>2 DEF SearchInv, Offered, Anchored, QuotasHold
<1> QED BY <1>3, <1>5, <1>6, <1>7 DEF SearchInv

LEMMA QuarantineStep ==
  ASSUME SearchInv, Quarantine
  PROVE  SearchInv'
<1> DEFINE list == exclude_derived(cand)
<1>1. /\ at = "quarantine" /\ at' = "reserve"
      /\ cand' = promote_source_fact_floor(list, PassLimit)
      /\ UNCHANGED <<status, failures, fts, floor, hop, wide, narrow, pool, named, answer,
                     route, hidden, derived>>
  BY DEF Quarantine, Then, loop
<1>2. /\ IsListing(cand) /\ IsListing(floor) /\ PassLimit \in Nat /\ PassLimit' = PassLimit
      /\ ToSet(cand) \subseteq Memories /\ ToSet(fts) \subseteq Memories
      /\ status \in [Memories -> {"none", "inserted", "kinded", "governed", "gone", "purged"}]
  BY <1>1, PassLimitCounts, ListingFacts DEF SearchInv, SearchTypes, PassLimit
<1>3. /\ IsListing(list)
      /\ ToSet(list) = ToSet(cand) \intersect {m \in Memories : kind(m) # "inference"}
  BY <1>2, OnlyIs DEF exclude_derived
<1> HIDE DEF list
<1>4. /\ IsListing(cand') /\ ToSet(cand') = ToSet(list)
      /\ PassLimit # 0 /\ floor # <<>> /\ floor[1] \in ToSet(list)
         => Len(cand') <= PassLimit \/ (cand' # <<>> /\ cand'[1] = floor[1])
  BY <1>1, <1>2, <1>3, PromotedIs
<1>5. SearchTypes'
  BY <1>1, <1>4 DEF SearchInv, SearchTypes, Stages
<1>6. at' \in Stages \ {"idle", "loop", "done"}
  BY <1>1 DEF Stages
<1>7. \A m \in derived \union Stored : kind(m) = Kind[m] \/ status[m] = "purged"
  BY DEF SearchInv, StaysHidden, kind, Forgotten
<1>8. /\ \A m \in ToSet(cand') \intersect (derived \union Stored) :
           status[m] = "purged" \/ Kind[m] # "inference"
      /\ \A m \in ToSet(cand') \intersect derived : status[m] = "purged"
  BY <1>3, <1>4, <1>7 DEF SearchInv, StaysHidden
<1>9. Clean' /\ Short'
  BY <1>1, <1>6, <1>8, RestStays DEF SearchInv, Clean, Shown, Short
<1>10. Idle' /\ StaysHidden' /\ RerankOnlyPromotes'
  BY <1>1, <1>6, RestStays
<1>11. Anchored' /\ QuotasHold'
  BY <1>1 DEF Anchored, QuotasHold
<1>12. ToSet(fts) \subseteq ToSet(cand) /\ ToSet(floor) \subseteq ToSet(fts)
  BY <1>1 DEF SearchInv, Offered
<1>13. Told \subseteq ToSet(cand')
  BY <1>2, <1>3, <1>4, <1>12 DEF Told, kind
<1>14. ASSUME PassLimit >= 2, floor # <<>>, Kind[floor[1]] # "inference"
       PROVE  /\ floor[1] \in ToSet(cand')
              /\ Len(cand') <= PassLimit \/ (cand' # <<>> /\ cand'[1] = floor[1])
  <2>1. floor[1] \in ToSet(floor)
    <3>1. Len(floor) \in Nat \ {0}
      BY <1>2, <1>14, EmptySeq DEF IsListing
    <3>2. 1 \in 1 .. Len(floor)
      BY <3>1
    <3> QED BY <1>2, <3>2, ListingFacts
  <2>2. floor[1] \in ToSet(cand) /\ floor[1] \in Memories
    BY <1>2, <1>12, <2>1
  <2>3. kind(floor[1]) # "inference"
    BY <1>14 DEF kind
  <2>4. floor[1] \in ToSet(list)
    BY <1>3, <2>2, <2>3
  <2> QED BY <1>2, <1>4, <1>14, <2>4
<1>15. Offered'
  <2>1. Told' = Told
    BY <1>1 DEF Told
  <2> QED BY <1>1, <1>2, <1>8, <1>13, <1>14, <2>1 DEF Offered
<1> QED BY <1>5, <1>9, <1>10, <1>11, <1>15 DEF SearchInv

LEMMA ReserveStep ==
  ASSUME SearchInv, Reserve
  PROVE  SearchInv'
<1> DEFINE told == {m \in ToSet(cand) : kind(m) # "fact"}
<1>1. /\ at = "reserve" /\ at' = "materialize"
      /\ cand' = reserve_narrative_slots(cand, PassLimit)
      /\ UNCHANGED <<status, failures, fts, floor, hop, wide, narrow, pool, named, answer,
                     route, hidden, derived>>
  BY DEF Reserve, Then, loop
<1>2. /\ IsListing(cand) /\ IsListing(floor) /\ PassLimit \in Nat /\ PassLimit' = PassLimit
      /\ ToSet(cand) \subseteq Memories /\ ToSet(fts) \subseteq Memories /\ IsListing(fts)
  BY <1>1, PassLimitCounts, ListingFacts DEF SearchInv, SearchTypes, PassLimit
<1>3. /\ IsListing(cand') /\ ToSet(cand') \subseteq ToSet(cand) /\ Len(cand') <= PassLimit
      /\ Len(cand) <= PassLimit => ToSet(cand') = ToSet(cand)
      /\ PassLimit >= 2 =>
           /\ cand # <<>> => cand[1] \in ToSet(cand')
           /\ Cardinality(told \intersect ToSet(cand'))
                >= Smaller(Cardinality(told), narr_slots(PassLimit))
  BY <1>1, <1>2, ReservedIs
<1>4. SearchTypes'
  BY <1>1, <1>3 DEF SearchInv, SearchTypes, Stages
<1>5. at' \in Stages \ {"idle", "loop", "done"}
  BY <1>1 DEF Stages
<1>6. \A m \in ToSet(cand') \intersect derived : status[m] = "purged"
  BY <1>1, <1>3 DEF SearchInv, Clean
<1>7. Clean' /\ Short'
  BY <1>1, <1>2, <1>3, <1>5, <1>6, RestStays DEF SearchInv, Clean, Shown, Short
<1>8. Idle' /\ StaysHidden' /\ RerankOnlyPromotes'
  BY <1>1, <1>5, RestStays
<1>9. Offered' /\ Anchored'
  BY <1>1 DEF Offered, Anchored
<1>10. ASSUME PassLimit >= 2
       PROVE  /\ Told \subseteq ToSet(cand)
              /\ \A m \in ToSet(cand) \intersect Stored :
                   status[m] = "purged" \/ Kind[m] # "inference"
              /\ floor # <<>> /\ Kind[floor[1]] # "inference" =>
                   /\ floor[1] \in ToSet(cand)
                   /\ Len(cand) <= PassLimit \/ (cand # <<>> /\ cand[1] = floor[1])
  BY <1>1, <1>10 DEF SearchInv, Offered
<1>11. ASSUME PassLimit >= 2, floor # <<>>, Kind[Head(floor)] # "inference"
       PROVE  Head(floor) \in ToSet(cand')
  <2>1. Head(floor) = floor[1]
    BY <1>2, <1>11 DEF IsListing
  <2> QED BY <1>3, <1>10, <1>11, <2>1
<1>12. ASSUME PassLimit >= 2
       PROVE  LET found == {m \in ToSet(fts) \intersect Stored : Kind[m] = "session"}
                  narratives == {m \in ToSet(cand') : m \in Stored /\ status[m] # "purged"
                                                        => Kind[m] = "session"}
              IN Cardinality(narratives) >= Smaller(Cardinality(found), narr_slots(PassLimit))
  <2> DEFINE found == {m \in ToSet(fts) \intersect Stored : Kind[m] = "session"}
             narratives == {m \in ToSet(cand') : m \in Stored /\ status[m] # "purged"
                                                   => Kind[m] = "session"}
             both  == told \intersect ToSet(cand')
  <2>1. \A m \in Stored : kind(m) = Kind[m] \/ status[m] = "purged"
    BY DEF SearchInv, StaysHidden, kind, Forgotten
  <2>2. found \in SUBSET told
    <3> SUFFICES ASSUME NEW m \in found PROVE m \in told
      OBVIOUS
    <3>1. m \in Told /\ m \in Memories /\ m \in Stored
      BY <1>2 DEF Told
    <3>2. m \in ToSet(cand) /\ Kind[m] = "session"
      BY <1>10, <1>12, <3>1 DEF Told
    <3>3. kind(m) # "fact"
      BY <3>2 DEF kind
    <3> QED BY <3>2, <3>3
  <2>3. both \in SUBSET narratives
    <3> SUFFICES ASSUME NEW m \in both, m \in Stored, status[m] # "purged"
                 PROVE  Kind[m] = "session"
      OBVIOUS
    <3>1. m \in Memories /\ Kind[m] # "fact" /\ Kind[m] # "inference"
      BY <1>2, <1>10, <1>12, <2>1
    <3> QED BY <3>1, SearchConstants
  <2>4. /\ IsFiniteSet(told) /\ IsFiniteSet(narratives) /\ IsFiniteSet(found)
        /\ Cardinality(told) \in Nat /\ Cardinality(narratives) \in Nat
        /\ Cardinality(found) \in Nat
    <3>1. IsFiniteSet(ToSet(cand)) /\ IsFiniteSet(ToSet(cand')) /\ IsFiniteSet(ToSet(fts))
      BY <1>2, <1>3, ListingSize
    <3>2. /\ told \in SUBSET ToSet(cand) /\ narratives \in SUBSET ToSet(cand')
          /\ found \in SUBSET ToSet(fts)
      OBVIOUS
    <3> HIDE DEF told, narratives, found
    <3> QED BY <3>1, <3>2, FS_Subset, FS_CardinalityType
  <2>5. /\ Cardinality(found) <= Cardinality(told)
        /\ Cardinality(both) <= Cardinality(narratives)
    <3> HIDE DEF told, narratives, found, both
    <3> QED BY <2>2, <2>3, <2>4, FS_Subset
  <2>6. Cardinality(both) \in Nat
    <3> HIDE DEF told, narratives, found, both
    <3> QED BY <2>3, <2>4, FS_Subset, FS_CardinalityType
  <2>7. narr_slots(PassLimit) \in Nat
    BY <1>2, <1>12, NarrativeShare
  <2>8. Cardinality(both) >= Smaller(Cardinality(told), narr_slots(PassLimit))
    BY <1>3, <1>12
  <2> HIDE DEF told, narratives, found, both
  <2>9. Cardinality(narratives) >= Smaller(Cardinality(found), narr_slots(PassLimit))
    BY <2>4, <2>5, <2>6, <2>7, <2>8 DEF Smaller
  <2> QED BY <2>9 DEF narratives, found
<1>13. QuotasHold'
  BY <1>1, <1>2, <1>11, <1>12 DEF QuotasHold
<1> QED BY <1>4, <1>7, <1>8, <1>9, <1>13 DEF SearchInv

\* A row is in sight.
LEMMA RowsAreClean ==
  ASSUME SearchInv, at = "materialize"
  PROVE  /\ IsListing(Rows) /\ Shown(ToSet(Rows))
         /\ ToSet(Rows) \subseteq ToSet(cand) /\ Len(Rows) <= Len(cand)
<1>1. IsListing(cand)
  BY DEF SearchInv, SearchTypes
<1>2. /\ IsListing(Rows)
      /\ ToSet(Rows) = ToSet(cand) \intersect ((ToSet(fts) \union Readable) \ OffTopic)
  BY <1>1, OnlyIs DEF Rows
<1>3. Shown(ToSet(Rows))
  <2>1. ASSUME NEW m \in ToSet(Rows), m \in hidden PROVE FALSE
    <3>1. m \in ToSet(fts) \/ m \in Readable
      BY <1>2, <2>1
    <3>2. m \notin ToSet(fts)
      BY <2>1 DEF SearchInv, Clean
    <3> QED BY <2>1, <3>1, <3>2
        DEF SearchInv, StaysHidden, Readable, Live, InNamespace, Forgotten
  <2>2. \A m \in ToSet(Rows) \intersect derived : status[m] = "purged"
    BY <1>2 DEF SearchInv, Clean
  <2> QED BY <2>1, <2>2 DEF Shown
<1>4. Len(Rows) <= Len(cand)
  <2>1. ToSet(Rows) \in SUBSET ToSet(cand)
    BY <1>2
  <2>2. IsFiniteSet(ToSet(cand))
    BY <1>1, ListingSize
  <2>3. Cardinality(ToSet(Rows)) <= Cardinality(ToSet(cand))
    BY <2>1, <2>2, FS_Subset
  <2>4. Cardinality(ToSet(Rows)) = Len(Rows)
    BY <1>2, ListingSize
  <2>5. Cardinality(ToSet(cand)) = Len(cand)
    BY <1>1, ListingSize
  <2> QED BY <2>3, <2>4, <2>5
<1> QED BY <1>2, <1>3, <1>4

LEMMA MaterializeStep ==
  ASSUME SearchInv, Materialize
  PROVE  SearchInv'
<1>1. /\ at = "materialize" /\ fts' = <<>> /\ floor' = <<>>
      /\ UNCHANGED <<status, failures, route, hidden, derived>>
  BY DEF Materialize
<1>2. \/ /\ ~wide /\ at' = "fulltext" /\ wide' = TRUE /\ narrow' = Rows /\ cand' = <<>>
         /\ UNCHANGED <<hop, pool, named, answer>>
      \/ /\ wide /\ at' = "rerank" /\ cand' = reanchor(narrow, Rows)
         /\ UNCHANGED <<hop, wide, narrow, pool, named, answer>>
      \/ /\ ~wide /\ hop = 1 /\ at' = "done" /\ answer' = Rows /\ cand' = <<>>
         /\ UNCHANGED <<hop, wide, narrow, pool, named>>
  BY DEF Materialize, loop
<1>3. /\ IsListing(Rows) /\ Shown(ToSet(Rows)) /\ Len(Rows) <= Len(cand)
  BY <1>1, RowsAreClean
<1>4. /\ IsListing(narrow) /\ IsListing(pool) /\ IsListing(cand)
      /\ Len(pool) \in Nat /\ Len(Rows) \in Nat /\ Len(cand) \in Nat /\ Len(narrow) \in Nat
  BY <1>3, ListingFacts DEF SearchInv, SearchTypes
<1>5. IsListing(<<>>) /\ ToSet(<<>>) = {} /\ Len(<<>>) = 0
  BY EmptyListing
<1>6. ~wide => Len(Rows) <= Limit
  <2>1. Len(cand) <= PassLimit
    BY <1>1 DEF SearchInv, Short
  <2>2. ~wide => PassLimit = Limit
    BY DEF PassLimit
  <2> QED BY <1>3, <1>4, <2>1, <2>2, SearchConstants
<1> HIDE DEF Rows
<1>7. /\ StaysHidden' /\ QuotasHold'
  BY <1>1, <1>2 DEF SearchInv, StaysHidden, QuotasHold
<1>8. Idle' /\ Offered'
  BY <1>1, <1>2 DEF Idle, Offered
<1>9. /\ Len(narrow) <= Limit /\ Len(answer) <= Limit /\ Len(pool) <= hop * Limit
      /\ Len(pool) <= (hop - 1) * Limit
      /\ Shown(ToSet(narrow) \union ToSet(pool) \union ToSet(answer))
  BY <1>1 DEF SearchInv, Short, Clean, Shown
<1>10. CASE /\ ~wide /\ at' = "fulltext" /\ wide' = TRUE /\ narrow' = Rows /\ cand' = <<>>
            /\ UNCHANGED <<hop, pool, named, answer>>
  <2>1. SearchTypes'
    BY <1>1, <1>3, <1>5, <1>10 DEF SearchInv, SearchTypes, Stages
  <2>2. Clean' /\ Short'
    BY <1>1, <1>3, <1>5, <1>6, <1>9, <1>10 DEF Clean, Shown, Short
  <2>3. Anchored' /\ RerankOnlyPromotes'
    BY <1>10 DEF Anchored, RerankOnlyPromotes
  <2> QED BY <1>7, <1>8, <2>1, <2>2, <2>3 DEF SearchInv
<1>11. CASE /\ wide /\ at' = "rerank" /\ cand' = reanchor(narrow, Rows)
            /\ UNCHANGED <<hop, wide, narrow, pool, named, answer>>
  <2> DEFINE rest == Only(Rows, Memories \ ToSet(narrow))
  <2>1. /\ IsListing(cand') /\ ToSet(cand') = ToSet(narrow) \union ToSet(Rows)
        /\ \A a \in ToSet(narrow) : Place(cand', a) = Place(narrow, a)
        /\ \A b \in ToSet(rest) : Place(cand', b) = Len(narrow) + Place(rest, b)
        /\ ToSet(rest) = ToSet(Rows) \ ToSet(narrow)
    <3>1. cand' = Merged(narrow, Rows)
      BY <1>11 DEF reanchor
    <3> DEFINE merged == Merged(narrow, Rows)
    <3>2. /\ IsListing(merged) /\ ToSet(merged) = ToSet(narrow) \union ToSet(Rows)
          /\ \A a \in ToSet(narrow) : Place(merged, a) = Place(narrow, a)
          /\ \A b \in ToSet(rest) : Place(merged, b) = Len(narrow) + Place(rest, b)
          /\ ToSet(rest) = ToSet(Rows) \ ToSet(narrow)
      BY <1>3, <1>4, MergedIs
    <3> HIDE DEF merged, rest
    <3>3. cand' = merged
      BY <3>1 DEF merged
    <3> QED BY <3>2, <3>3
  <2>2. SearchTypes'
    BY <1>1, <1>5, <1>11, <2>1 DEF SearchInv, SearchTypes, Stages
  <2>3. Clean' /\ Short'
    BY <1>1, <1>3, <1>5, <1>9, <1>11, <2>1 DEF Clean, Shown, Short
  <2>4. Anchored'
    <3>1. IsListing(rest)
      BY <1>3, OnlyIs
    <3>2. ASSUME NEW b \in ToSet(cand') \ ToSet(narrow) PROVE Place(cand', b) > Len(narrow)
      <4>1. b \in ToSet(rest)
        BY <2>1, <3>2
      <4>2. Place(rest, b) \in Nat \ {0} /\ Place(cand', b) = Len(narrow) + Place(rest, b)
        BY <2>1, <3>1, <4>1, PlaceCounts
      <4> QED BY <1>4, <4>2
    <3> QED BY <1>11, <2>1, <3>2 DEF Anchored
  <2>5. RerankOnlyPromotes'
    BY <1>11 DEF RerankOnlyPromotes
  <2> QED BY <1>7, <1>8, <2>2, <2>3, <2>4, <2>5 DEF SearchInv
<1>12. CASE /\ ~wide /\ hop = 1 /\ at' = "done" /\ answer' = Rows /\ cand' = <<>>
            /\ UNCHANGED <<hop, wide, narrow, pool, named>>
  <2>1. SearchTypes'
    BY <1>1, <1>3, <1>5, <1>12 DEF SearchInv, SearchTypes, Stages
  <2>2. Clean' /\ Short'
    BY <1>1, <1>3, <1>5, <1>6, <1>9, <1>12 DEF Clean, Shown, Short
  <2>3. ToSet(pool) = {}
    <3>1. Len(pool) = 0
      BY <1>4, <1>9, <1>12, SearchConstants
    <3> QED BY <1>4, <3>1, ListingFacts
  <2>4. Anchored' /\ RerankOnlyPromotes'
    BY <1>12, <2>3 DEF Anchored, RerankOnlyPromotes, Overtaken
  <2> QED BY <1>7, <1>8, <2>1, <2>2, <2>4 DEF SearchInv
<1> QED BY <1>2, <1>10, <1>11, <1>12

\* The reply names candidates, each once.
LEMMA RepliesAre ==
  ASSUME NEW list, IsListing(list), NEW order \in Replies(list)
  PROVE  IsListing(order) /\ ToSet(order) \subseteq ToSet(list)
<1>1. ToSet(list) \subseteq Memories
  BY ListingFacts
<1>2. order = <<>> \/ order \in Lists(ToSet(list), Len(list))
  BY DEF Replies
<1>3. CASE order = <<>>
  BY <1>3, EmptyListing
<1>4. CASE order \in Lists(ToSet(list), Len(list))
  BY <1>1, <1>4, ListsAre
<1> QED BY <1>2, <1>3, <1>4

LEMMA RerankStep ==
  ASSUME SearchInv, rerank_candidates
  PROVE  SearchInv'
<1> DEFINE found == fuse_rerank(cand, named')
           rest  == Only(found, Memories \ ToSet(pool))
<1>1. /\ at = "rerank" /\ named' \in Replies(cand) /\ cand' = <<>>
      /\ pool' = Merged(pool, found)
      /\ at' = IF pool' = pool /\ hop > 1 THEN "final" ELSE "loop"
      /\ UNCHANGED <<status, failures, fts, floor, hop, wide, narrow, answer, route, hidden, derived>>
  BY DEF rerank_candidates
<1>2. /\ IsListing(cand) /\ IsListing(pool) /\ IsListing(narrow)
      /\ Len(pool) \in Nat /\ Len(narrow) \in Nat
      /\ hop \in 1 .. Larger(MaxHops, 1) /\ Limit \in Nat
  BY ListingFacts, SearchConstants DEF SearchInv, SearchTypes
<1>3. IsListing(named') /\ ToSet(named') \subseteq ToSet(cand)
  BY <1>1, <1>2, RepliesAre
<1>4. /\ IsListing(found) /\ Len(found) <= Limit /\ ToSet(found) \subseteq ToSet(cand)
      /\ \A a \in ToSet(cand) \ ToSet(found), b \in ToSet(found) :
           Place(cand, a) < Place(cand, b) => b \in ToSet(named')
  BY <1>2, <1>3, RerankedIs
<1> HIDE DEF found
<1>5. /\ IsListing(pool') /\ ToSet(pool') = ToSet(pool) \union ToSet(found)
      /\ Len(pool') = Len(pool) + Len(rest) /\ ToSet(rest) = ToSet(found) \ ToSet(pool)
  BY <1>1, <1>2, <1>4, MergedIs
<1>6. Len(rest) \in Nat /\ Len(rest) <= Limit
  <2>1. IsListing(rest)
    BY <1>4, OnlyIs
  <2> HIDE DEF rest
  <2>2. ToSet(rest) \in SUBSET ToSet(found) /\ IsFiniteSet(ToSet(found))
    BY <1>4, <1>5, ListingSize
  <2>3. Cardinality(ToSet(rest)) <= Cardinality(ToSet(found))
    BY <2>2, FS_Subset
  <2>4. Cardinality(ToSet(rest)) = Len(rest) /\ Len(rest) \in Nat
    BY <2>1, ListingSize, ListingFacts
  <2>5. Cardinality(ToSet(found)) = Len(found) /\ Len(found) \in Nat
    BY <1>4, ListingSize, ListingFacts
  <2> QED BY <1>2, <1>4, <2>3, <2>4, <2>5
<1> HIDE DEF rest
<1>7. /\ Len(narrow) <= Limit /\ Len(answer) <= Limit /\ Len(pool) <= (hop - 1) * Limit
      /\ Shown(ToSet(narrow) \union ToSet(pool) \union ToSet(answer)) /\ Shown(ToSet(cand))
      /\ ToSet(fts) \intersect hidden = {}
  BY <1>1 DEF SearchInv, Short, Clean, Shown
<1>8. Len(pool') <= hop * Limit
  <2>1. hop * Limit = (hop - 1) * Limit + Limit /\ hop * Limit \in Int /\ (hop - 1) * Limit \in Int
    BY <1>2
  <2> QED BY <1>2, <1>5, <1>6, <1>7, <2>1
<1>9. at' \in {"final", "loop"}
  BY <1>1
<1>10. SearchTypes'
  BY <1>1, <1>3, <1>5, <1>9, EmptyListing DEF SearchInv, SearchTypes, Stages
<1>11. Idle' /\ StaysHidden' /\ Offered' /\ Anchored' /\ QuotasHold'
  BY <1>1, <1>9 DEF SearchInv, Idle, StaysHidden, Offered, Anchored, QuotasHold
<1>12. Clean' /\ Short'
  BY <1>1, <1>4, <1>5, <1>7, <1>8, <1>9 DEF Clean, Shown, Short
<1>13. ASSUME hop = 1, NEW pair \in Overtaken(narrow, pool')
       PROVE  pair[2] \in ToSet(named')
  <2> DEFINE a == pair[1]
             b == pair[2]
  <2>1. ToSet(pool) = {}
    <3>1. Len(pool) = 0
      BY <1>2, <1>7, <1>13
    <3> QED BY <1>2, <3>1, ListingFacts
  <2>2. /\ a \in ToSet(narrow) /\ a \notin ToSet(found) /\ b \in ToSet(found)
        /\ b \in ToSet(narrow) => Place(narrow, b) > Place(narrow, a)
    BY <1>5, <1>13, <2>1 DEF Overtaken
  <2>3. /\ a \in ToSet(cand) /\ Place(cand, a) = Place(narrow, a)
        /\ b \in ToSet(narrow) => Place(cand, b) = Place(narrow, b)
        /\ b \notin ToSet(narrow) => Place(cand, b) > Len(narrow)
    BY <1>1, <1>4, <2>2 DEF SearchInv, Anchored
  <2>4. Place(narrow, a) \in 1 .. Len(narrow)
    BY <1>2, <2>2, ListingFacts
  <2>5. Place(cand, b) \in Nat /\ (b \in ToSet(narrow) => Place(narrow, b) \in Nat)
    BY <1>2, <1>4, <2>2, PlaceCounts
  <2>6. Place(cand, a) < Place(cand, b)
    <3> HIDE DEF a, b
    <3> QED BY <1>2, <2>2, <2>3, <2>4, <2>5
  <2> QED BY <1>4, <2>2, <2>3, <2>6
<1>14. RerankOnlyPromotes'
  <2>1. narrow' = narrow /\ hop' = hop
    BY <1>1
  <2> QED BY <1>9, <1>13, <2>1 DEF RerankOnlyPromotes
<1> QED BY <1>10, <1>11, <1>12, <1>14 DEF SearchInv

\* What the answer takes from the pool, and from the store nothing.
LEMMA ReturnFirstStep ==
  ASSUME SearchInv, ReturnFirst
  PROVE  SearchInv'
<1>1. /\ at = "loop" /\ at' = "done" /\ hop = 1 /\ answer' = pool
      /\ UNCHANGED <<status, failures, fts, cand, floor, hop, wide, narrow, pool, named,
                     route, hidden, derived>>
  BY DEF ReturnFirst, Then, pass
<1>2. SearchTypes'
  BY <1>1 DEF SearchInv, SearchTypes, Stages
<1>3. Len(pool) <= Limit
  <2>1. Len(pool) <= 1 * Limit
    BY <1>1 DEF SearchInv, Short
  <2> QED BY <2>1, SearchConstants
<1>4. Clean' /\ Short'
  BY <1>1, <1>3 DEF SearchInv, Clean, Shown, Short
<1>5. RerankOnlyPromotes'
  BY <1>1 DEF RerankOnlyPromotes, Overtaken
<1>6. Idle' /\ StaysHidden' /\ Offered' /\ Anchored' /\ QuotasHold'
  BY <1>1 DEF SearchInv, Idle, StaysHidden, Offered, Anchored, QuotasHold
<1> QED BY <1>2, <1>4, <1>5, <1>6 DEF SearchInv

LEMMA FollowUpStep ==
  ASSUME SearchInv, FollowUp
  PROVE  SearchInv'
<1>1. /\ at = "loop" /\ at' = "fulltext" /\ hop < MaxHops /\ hop' = hop + 1 /\ wide' = FALSE
      /\ route' \in Route /\ narrow' = <<>> /\ named' = <<>>
      /\ UNCHANGED <<status, failures, fts, cand, floor, pool, answer, hidden, derived>>
  BY DEF FollowUp, Then, pass
<1>2. /\ hop \in 1 .. Larger(MaxHops, 1) /\ Limit \in Nat /\ MaxHops \in Nat
      /\ Len(pool) \in Nat /\ Len(pool) <= hop * Limit
  BY SearchConstants, ListingFacts DEF SearchInv, SearchTypes, Short
<1>3. hop' \in 1 .. Larger(MaxHops, 1) /\ hop \in Nat
  BY <1>1, <1>2 DEF Larger
<1>4. Len(pool) <= (hop' - 1) * Limit /\ Len(pool) <= hop' * Limit
  <2>1. (hop + 1) * Limit = hop * Limit + Limit /\ hop * Limit \in Int
    BY <1>2, <1>3
  <2>2. hop' - 1 = hop
    BY <1>1, <1>3
  <2> QED BY <1>1, <1>2, <2>1, <2>2
<1>5. IsListing(<<>>) /\ ToSet(<<>>) = {} /\ Len(<<>>) = 0
  BY EmptyListing
<1>6. SearchTypes'
  BY <1>1, <1>3, <1>5 DEF SearchInv, SearchTypes, Stages
<1>7. Clean' /\ Short'
  BY <1>1, <1>2, <1>4, <1>5 DEF SearchInv, Clean, Shown, Short
<1>8. Idle' /\ StaysHidden' /\ Offered' /\ Anchored' /\ QuotasHold' /\ RerankOnlyPromotes'
  BY <1>1 DEF SearchInv, Idle, StaysHidden, Offered, Anchored, QuotasHold, RerankOnlyPromotes
<1> QED BY <1>6, <1>7, <1>8 DEF SearchInv

LEMMA StopHopsStep ==
  ASSUME SearchInv, StopHops
  PROVE  SearchInv'
<1>1. /\ at = "loop" /\ at' = "final"
      /\ UNCHANGED <<status, failures, fts, cand, floor, hop, wide, narrow, pool, named, answer,
                     route, hidden, derived>>
  BY DEF StopHops, Then, pass, loop
<1>2. SearchTypes' /\ Clean' /\ Short'
  BY <1>1 DEF SearchInv, SearchTypes, Stages, Clean, Shown, Short
<1>3. Idle' /\ StaysHidden' /\ Offered' /\ Anchored' /\ QuotasHold' /\ RerankOnlyPromotes'
  BY <1>1 DEF SearchInv, Idle, StaysHidden, Offered, Anchored, QuotasHold, RerankOnlyPromotes
<1> QED BY <1>2, <1>3 DEF SearchInv

LEMMA FinalRerankStep ==
  ASSUME SearchInv, FinalRerank
  PROVE  SearchInv'
<1> DEFINE result == fuse_rerank(pool, named')
<1>1. /\ at = "final" /\ at' = "done" /\ named' \in Replies(pool) /\ answer' = result
      /\ UNCHANGED <<status, failures, fts, cand, floor, hop, wide, narrow, pool, route, hidden, derived>>
  BY DEF FinalRerank, Then, pass
<1>2. IsListing(pool)
  BY DEF SearchInv, SearchTypes
<1>3. IsListing(named') /\ ToSet(named') \subseteq ToSet(pool)
  BY <1>1, <1>2, RepliesAre
<1>4. /\ IsListing(result) /\ Len(result) <= Limit /\ ToSet(result) \subseteq ToSet(pool)
      /\ \A a \in ToSet(pool) \ ToSet(result), b \in ToSet(result) :
           Place(pool, a) < Place(pool, b) => b \in ToSet(named')
  BY <1>2, <1>3, RerankedIs
<1> HIDE DEF result
<1>5. SearchTypes'
  BY <1>1, <1>3, <1>4 DEF SearchInv, SearchTypes, Stages
<1>6. Clean' /\ Short'
  BY <1>1, <1>4 DEF SearchInv, Clean, Shown, Short
<1>7. RerankOnlyPromotes'
  <2>1. ASSUME NEW pair \in Overtaken(pool, result) PROVE pair[2] \in ToSet(named')
    <3>1. /\ pair[1] \in ToSet(pool) \ ToSet(result) /\ pair[2] \in ToSet(result)
          /\ pair[2] \in ToSet(pool) => Place(pool, pair[2]) > Place(pool, pair[1])
      BY <2>1 DEF Overtaken
    <3>2. pair[2] \in ToSet(pool)
      BY <1>4, <3>1
    <3>3. Place(pool, pair[1]) \in Nat /\ Place(pool, pair[2]) \in Nat
      BY <1>2, <3>1, <3>2, PlaceCounts
    <3>4. Place(pool, pair[1]) < Place(pool, pair[2])
      BY <3>1, <3>2, <3>3
    <3> QED BY <1>4, <3>1, <3>4
  <2> QED BY <1>1, <2>1 DEF RerankOnlyPromotes
<1>8. Idle' /\ StaysHidden' /\ Offered' /\ Anchored' /\ QuotasHold'
  BY <1>1 DEF SearchInv, Idle, StaysHidden, Offered, Anchored, QuotasHold
<1> QED BY <1>5, <1>6, <1>7, <1>8 DEF SearchInv

LEMMA ReadFailsStep ==
  ASSUME SearchInv, ReadFails
  PROVE  SearchInv'
<1>1. /\ at \in {"fulltext", "recall", "floor", "quarantine", "reserve", "materialize"}
      /\ failures' = failures + 1 /\ at' \in {"error", "final"}
      /\ fts' = <<>> /\ cand' = <<>> /\ floor' = <<>>
      /\ UNCHANGED <<status, hop, wide, narrow, pool, named, answer, route, hidden, derived>>
  BY DEF ReadFails, loop
<1>2. IsListing(<<>>) /\ ToSet(<<>>) = {}
  BY EmptyListing
<1>3. SearchTypes'
  BY <1>1, <1>2 DEF SearchInv, SearchTypes, Stages
<1>4. at' \in Stages \ {"idle", "loop", "done"}
  BY <1>1 DEF Stages
<1>5. Clean' /\ Short'
  BY <1>1, <1>2, <1>4, RestStays DEF SearchInv, Clean, Shown, Short
<1>6. Idle' /\ StaysHidden' /\ RerankOnlyPromotes'
  BY <1>1, <1>4, RestStays
<1>7. Offered' /\ Anchored' /\ QuotasHold'
  BY <1>1 DEF Offered, Anchored, QuotasHold
<1> QED BY <1>3, <1>5, <1>6, <1>7 DEF SearchInv

\* A remember takes no governed memory back, a forget none into sight, and what
\* is purged stays so.
LEMMA OthersStep ==
  ASSUME SearchInv, Others
  PROVE  SearchInv'
<1>1. UNCHANGED <<at, fts, cand, floor, hop, wide, narrow, pool, named, answer, route, hidden,
                  derived, failures>>
  BY DEF Others, pass, loop
<1>2. PICK m \in Memories : remember_with_governance(m) \/ Forget(m) \/ purge_memory(m)
  BY DEF Others
<1>3. PICK from, to : /\ Write(m, from, to)
                      /\ \/ /\ from \in {"none", "inserted", "kinded"}
                            /\ to \in {"inserted", "kinded", "governed"}
                         \/ from = "governed" /\ to = "gone"
                         \/ from = "gone" /\ to = "purged"
  BY <1>2 DEF remember_with_governance, Forget, purge_memory
<1>4. status' = [status EXCEPT ![m] = to] /\ status[m] = from
  BY <1>3 DEF Write
<1>5. status \in [Memories -> {"none", "inserted", "kinded", "governed", "gone", "purged"}]
  BY DEF SearchInv, SearchTypes
<1>6. SearchTypes'
  BY <1>1, <1>3, <1>4, <1>5 DEF SearchInv, SearchTypes
<1>7. StaysHidden'
  <2>1. \A n \in Memories : status'[n] = IF n = m THEN to ELSE status[n]
    BY <1>4, <1>5
  <2>2. hidden \subseteq Memories /\ Stored \subseteq Memories
    BY SearchConstants DEF SearchInv, SearchTypes
  <2>3. ASSUME NEW n \in hidden
        PROVE  status'[n] \in Forgotten \/ (status'[n] = "governed" /\ Home[n] # Here)
    <3>1. status[n] \in Forgotten \/ (status[n] = "governed" /\ Home[n] # Here)
      BY <2>3 DEF SearchInv, StaysHidden
    <3> QED BY <1>3, <1>4, <2>1, <2>2, <3>1 DEF Forgotten
  <2>4. ASSUME NEW n \in derived \union Stored PROVE status'[n] \in {"governed"} \union Forgotten
    <3>1. status[n] \in {"governed"} \union Forgotten
      BY <2>4 DEF SearchInv, StaysHidden
    <3> QED BY <1>3, <1>4, <2>1, <2>2, <3>1 DEF Forgotten
  <2>5. \A n \in derived : Kind[n] = "inference"
    BY DEF SearchInv, StaysHidden
  <2> QED BY <1>1, <2>3, <2>4, <2>5 DEF StaysHidden
<1>p. \A n : status[n] = "purged" => status'[n] = "purged"
  BY <1>3, <1>4, <1>5
<1>8. Idle' /\ Clean'
  BY <1>1, <1>p DEF SearchInv, Idle, Clean, Shown
<1>9. PassLimit' = PassLimit /\ Told' = Told
  BY <1>1 DEF PassLimit, Told
<1>10. Short' /\ Offered' /\ Anchored'
  BY <1>1, <1>9, <1>p DEF SearchInv, Short, Offered, Anchored
<1>11. QuotasHold'
  <2> DEFINE found == {n \in ToSet(fts) \intersect Stored : Kind[n] = "session"}
             narratives == {n \in ToSet(cand) : n \in Stored /\ status[n] # "purged"
                                                  => Kind[n] = "session"}
             later == {n \in ToSet(cand) : n \in Stored /\ status'[n] # "purged"
                                             => Kind[n] = "session"}
  <2>1. narratives \in SUBSET later /\ later \in SUBSET ToSet(cand)
    BY <1>p
  <2>2. IsFiniteSet(ToSet(cand)) /\ IsFiniteSet(ToSet(fts))
    BY ListingSize DEF SearchInv, SearchTypes
  <2>3. found \in SUBSET ToSet(fts)
    OBVIOUS
  <2>4. PassLimit \in Nat
    BY PassLimitCounts DEF SearchInv
  <2> HIDE DEF found, narratives, later
  <2>5. /\ Cardinality(narratives) <= Cardinality(later) /\ Cardinality(later) \in Nat
        /\ Cardinality(narratives) \in Nat /\ Cardinality(found) \in Nat
    BY <2>1, <2>2, <2>3, FS_Subset, FS_CardinalityType
  <2>6. ASSUME at = "materialize", PassLimit >= 2
        PROVE  Cardinality(later) >= Smaller(Cardinality(found), narr_slots(PassLimit))
    <3>1. Cardinality(narratives) >= Smaller(Cardinality(found), narr_slots(PassLimit))
      BY <2>6 DEF SearchInv, QuotasHold, narratives, found
    <3>2. Smaller(Cardinality(found), narr_slots(PassLimit)) \in Nat
      BY <2>4, <2>5, <2>6, NarrativeShare DEF Smaller
    <3> QED BY <2>5, <3>1, <3>2
  <2>7. at = "materialize" /\ PassLimit >= 2 =>
          (floor # <<>> /\ Kind[Head(floor)] # "inference" => Head(floor) \in ToSet(cand))
    BY DEF SearchInv, QuotasHold
  <2> QED BY <1>1, <1>9, <2>6, <2>7 DEF QuotasHold, found, later
<1>12. RerankOnlyPromotes'
  BY <1>1 DEF SearchInv, RerankOnlyPromotes
<1> QED BY <1>6, <1>7, <1>8, <1>10, <1>11, <1>12 DEF SearchInv

LEMMA SearchInvStep ==
  ASSUME SearchInv, [SearchNext]_searchVars
  PROVE  SearchInv'
<1>1. CASE UNCHANGED searchVars
  <2>1. UNCHANGED <<status, at, hop, wide, route, fts, cand, floor, narrow, pool, named, answer,
                    hidden, derived, failures>>
    BY <1>1 DEF searchVars
  <2>2. PassLimit' = PassLimit /\ Told' = Told
    BY <2>1 DEF PassLimit, Told
  <2>3. SearchTypes' /\ Idle' /\ StaysHidden' /\ Clean'
    BY <2>1 DEF SearchInv, SearchTypes, Idle, StaysHidden, Clean, Shown
  <2>4. Short' /\ Offered' /\ Anchored'
    BY <2>1, <2>2 DEF SearchInv, Short, Offered, Anchored
  <2>5. QuotasHold' /\ RerankOnlyPromotes'
    BY <2>1, <2>2 DEF SearchInv, QuotasHold, RerankOnlyPromotes
  <2> QED BY <2>3, <2>4, <2>5 DEF SearchInv
<1>2. CASE Start \/ Fulltext \/ Recall \/ lexical_source_fact_floor_ids
  BY <1>2, StartStep, FulltextStep, RecallStep, FloorStep
<1>3. CASE Quarantine \/ Reserve \/ Materialize \/ ReadFails
  BY <1>3, QuarantineStep, ReserveStep, MaterializeStep, ReadFailsStep
<1>4. CASE rerank_candidates \/ ReturnFirst \/ FollowUp \/ StopHops \/ FinalRerank \/ Others
  BY <1>4, RerankStep, ReturnFirstStep, FollowUpStep, StopHopsStep, FinalRerankStep, OthersStep
<1> QED BY <1>1, <1>2, <1>3, <1>4 DEF SearchNext

LEMMA SearchInvHolds == SearchSpec => []SearchInv
BY SearchStarts, SearchInvStep, PTL DEF SearchSpec

-----------------------------------------------------------------------------
(* The theorems. *)

\* Every list of a search names memories, and each of them once, whatever order
\* the fused scores, the reserved places and the model's reply gave it; the
\* narrow rows fit the asked number and the pool that number for each hop
\* (hybrid_search, rerank_candidates and the hop loop, retrieval.rs).
THEOREM SearchTypeCorrect == SearchSpec => []SearchTypeOK
<1>1. SearchInv => SearchTypeOK
  <2> SUFFICES ASSUME SearchInv PROVE SearchTypeOK
    OBVIOUS
  <2>1. \A list : IsListing(list) => ToSet(list) \subseteq Memories /\ Injective(list)
    BY ListingFacts, ListingSize DEF Injective
  <2>2. \A list \in {fts, cand, floor, narrow, pool, named, answer} :
          ToSet(list) \subseteq Memories /\ Injective(list)
    BY <2>1 DEF SearchInv, SearchTypes
  <2>3. /\ status \in [Memories -> {"none", "inserted", "kinded", "governed", "gone", "purged"}]
        /\ hop \in 1 .. Larger(MaxHops, 1)
        /\ hidden \subseteq Memories /\ derived \subseteq Memories
    BY DEF SearchInv, SearchTypes
  <2>4. Len(narrow) <= Limit /\ Len(pool) <= hop * Limit
    BY DEF SearchInv, Short
  <2> QED BY <2>2, <2>3, <2>4 DEF SearchTypeOK
<1> QED BY <1>1, SearchInvHolds, PTL

\* An answer holds at most the memories asked for and none that was forgotten or
\* in another namespace when the search began, although vector, graph and chunk
\* lists name such ones and earlier passes and hops keep their rows; of the
\* inferences then on record it holds only ones forgotten and purged since, whose
\* kind the quarantine no longer found (the namespace filter and exclude_derived
\* of hybrid_search, retrieval.rs, kinds_for_memories, db.rs).
THEOREM AnswersAreClean == SearchSpec => []AnswerIsClean
<1>1. SearchInv => AnswerIsClean
  BY DEF SearchInv, Clean, Shown, Short, AnswerIsClean
<1> QED BY <1>1, SearchInvHolds, PTL

\* The strongest exact fact and the narratives' share both survive, whatever the
\* signals ranked and for every limit of two or more, where a row without a kind
\* on record counts as a narrative
\* (promote_source_fact_floor and reserve_narrative_slots, retrieval.rs).
THEOREM QuotasAreHeld == SearchSpec => []QuotasHold
<1>1. SearchInv => QuotasHold
  BY DEF SearchInv
<1> QED BY <1>1, SearchInvHolds, PTL

\* No row of the narrow pass, or of the pool before the final rerank, is pushed
\* out by one behind it that the model did not name
\* (reanchor and fuse_rerank of the reranked search, retrieval.rs).
THEOREM RerankOnlyLifts == SearchSpec => []RerankOnlyPromotes
<1>1. SearchInv => RerankOnlyPromotes
  BY DEF SearchInv
<1> QED BY <1>1, SearchInvHolds, PTL

=============================================================================
