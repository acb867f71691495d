----------------------------- MODULE EgressGate -----------------------------
(***************************************************************************)
(* The egress gate: a call that wants to release memories verifies its     *)
(* purpose, claims the nonces of its tokens, reads the candidates'         *)
(* policies and then their unresolved contradictions, decides, records the *)
(* decisions one by one and only then releases.  Each database statement   *)
(* is a step; other calls, operators, reviewers and the clock move in      *)
(* between, a client retries a request with the same tokens, and any       *)
(* statement may fail or the call be dropped after it.                     *)
(***************************************************************************)
EXTENDS InfluenceRules, Integers

CONSTANTS
  Memory,
  Caller,      \* concurrent calls of the gate
  Asks,        \* their inputs
  Configs,     \* the daemon's influence configurations
  Tokens,      \* signed tokens
  Principals,  \* operators who update policies
  Patches,     \* the updates they ask for
  Namespace,   \* of each memory
  Depth,       \* derivation_depth of each memory
  CLOCK_SKEW_SECONDS,
  None,
  MaxTime, MaxUpdates, MaxFaults   \* bounds: seconds, changes, faults

Flags ==
  {"enabled", "strict", "require_purpose", "require_trusted_attestation",
   "attestation_key", "confirmation_key", "confirmation_replay_protection",
   "record_denials", "fail_closed_on_policy_error",
   "high_risk_requires_source", "critical_risk_requires_confirmation"}

\* Strict mode switches its companions on (apply_influence_runtime).
ConfigOK(c) ==
  /\ \A flag \in Flags : c[flag] \in BOOLEAN
  /\ c.strict => /\ c.require_purpose /\ c.require_trusted_attestation
                 /\ c.fail_closed_on_policy_error
  /\ c.contradiction_mode \in {"annotate", "source", "confirmation", "deny"}

\* A token is signed for one purpose: request, scope, task, action and risk.
TokenOK(token) ==
  /\ token.kind \in {"purpose_attestation", "confirmation_receipt"}
  /\ token.issued_at \in Int /\ token.expires_at \in Int
  /\ token.single_use \in BOOLEAN
  /\ token.maximum_authorized_risk \in ActionRisk

\* The tokens travel in the purpose.
AskOK(ask) ==
  /\ ask.channel \in {"local_operator", "remote"}
  /\ {ask.attestation, ask.confirmation} \subseteq Tokens \union {None}
  /\ ask.purpose = None => ask.attestation = None /\ ask.confirmation = None

ASSUME GateAssumption ==
  /\ None \notin Tokens /\ None \notin Asks
  /\ None \notin Decisions /\ None \notin MemoryInfluencePolicy
  /\ \A token \in Tokens : TokenOK(token)
  /\ \A ask \in Asks : AskOK(ask)
  /\ \A c \in Configs : ConfigOK(c)
  /\ \A patch \in Patches : PatchOK(patch)
  /\ Depth \in [Memory -> Nat]
  /\ CLOCK_SKEW_SECONDS \in Nat
  /\ MaxTime \in Nat /\ MaxUpdates \in Nat /\ MaxFaults \in Nat

VARIABLES
  now,
  config,
  policy,      \* memory_influence_policy; None when the metadata is gone
  disputed,    \* the memories in an unresolved contradiction set
  nonces,      \* influence_replay_nonces: the tokens with a row
  events,      \* memory_influence_events
  honoured,    \* history: which call claimed which token, and when
  pc,
  asked,       \* a call's inputs
  began,       \* history: the policies when the call began
  seen,        \* the policies it read
  decisions,   \* what it decided of each candidate with metadata
  released,    \* the memories whose content it returned
  updates, faults

stored == <<policy, disputed>>
locals == <<asked, began, seen, decisions, released>>
bounds == <<updates, faults>>
vars   == <<now, config, stored, nonces, events, honoured, pc, locals, bounds>>

Claiming == {"purge_attestation", "claim_attestation",
             "purge_confirmation", "claim_confirmation"}
Deciding == {"policies", "contradictions", "record"}
PC       == {"idle", "done", "failed"} \union Claiming \union Deciding

TypeOK ==
  /\ now \in 0..MaxTime
  /\ config \in Configs
  /\ policy \in [Memory -> MemoryInfluencePolicy \union {None}]
  /\ disputed \subseteq Memory
  /\ nonces \subseteq Tokens
  /\ honoured \subseteq [token : Tokens, call : Caller, at : 0..MaxTime]
  /\ pc \in [Caller -> PC]
  /\ asked \in [Caller -> Asks \union {None}]
  /\ \A c \in Caller : pc[c] # "idle" => asked[c] \in Asks
  /\ began \in [Caller -> [Memory -> MemoryInfluencePolicy \union {None}]]
  /\ seen \in [Caller -> [Memory -> MemoryInfluencePolicy \union {None}]]
  /\ decisions \in [Caller -> [Memory -> Decisions \union {None}]]
  /\ released \in [Caller -> SUBSET Memory]
  /\ updates \in 0..MaxUpdates /\ faults \in 0..MaxFaults

-----------------------------------------------------------------------------
(* The inputs' verification, which reads the clock once. *)

\* A call without a purpose recalls as it did before purposes existed.
LegacyPurpose(ask) ==
  [id |-> None, scope |-> ask.scope, task |-> "legacy_recall",
   action |-> FALSE, risk |-> 0, source |-> FALSE]

Purpose(ask) == IF ask.purpose = None THEN LegacyPurpose(ask) ELSE ask.purpose

InWindow(token) ==
  /\ token.issued_at < token.expires_at
  /\ token.issued_at <= now + CLOCK_SKEW_SECONDS
  /\ now - CLOCK_SKEW_SECONDS <= token.expires_at

AttestationNeeded(ask) ==
  ask.channel = "remote" /\ (config.strict \/ config.require_trusted_attestation)

TrustedRuntimeVerifier(ask) ==
  LET token == ask.attestation IN
  /\ config.attestation_key
  /\ token # None
  /\ token.kind = "purpose_attestation"
  /\ InWindow(token)
  /\ token.purpose = Purpose(ask)
  /\ ask.agent # None /\ token.subject # None => ask.agent = token.subject

\* Mutant: a confirmation of a smaller risk will do.
verify_confirmation_AnyRisk(ask) ==
  LET token == ask.confirmation IN
  /\ config.confirmation_key
  /\ token.kind = "confirmation_receipt"
  /\ InWindow(token)
  /\ token.purpose = Purpose(ask)

verify_confirmation(ask) ==
  LET token == ask.confirmation IN
  /\ config.confirmation_key
  /\ token.kind = "confirmation_receipt"
  /\ InWindow(token)
  /\ token.purpose = Purpose(ask)
  /\ Purpose(ask).risk <= token.maximum_authorized_risk

Verified(ask) ==
  /\ ask.purpose = None => ~config.require_purpose /\ ~config.strict
  /\ AttestationNeeded(ask) => TrustedRuntimeVerifier(ask)
  /\ Purpose(ask).scope = ask.scope
  /\ ask.confirmation # None => verify_confirmation(ask)

ClaimsConfirmation(ask) ==
  /\ ask.confirmation # None
  /\ ask.confirmation.single_use \/ config.confirmation_replay_protection

-----------------------------------------------------------------------------
(* The call. *)

Goto(c, from, to) == pc[c] = from /\ pc' = [pc EXCEPT ![c] = to]

NoPolicies  == [m \in Memory |-> None]

Init ==
  /\ now = 0
  /\ config \in Configs
  /\ policy = [m \in Memory |-> DefaultPolicy]
  /\ disputed = {}
  /\ nonces = {} /\ events = {} /\ honoured = {}
  /\ pc = [c \in Caller |-> "idle"]
  /\ asked = [c \in Caller |-> None]
  /\ began = [c \in Caller |-> NoPolicies]
  /\ seen = [c \in Caller |-> NoPolicies]
  /\ decisions = [c \in Caller |-> NoPolicies]
  /\ released = [c \in Caller |-> {}]
  /\ updates = 0 /\ faults = 0

AfterAttestation(ask) ==
  IF ClaimsConfirmation(ask) THEN "purge_confirmation" ELSE "policies"

\* A gate that is switched off releases everything.
GateDisabled(c, ask) ==
  /\ ~config.enabled
  /\ pc' = [pc EXCEPT ![c] = "done"]
  /\ released' = [released EXCEPT ![c] = Memory]

Verify(c, ask) ==
  /\ config.enabled
  /\ pc' = [pc EXCEPT ![c] = IF ~Verified(ask) THEN "failed"
                             ELSE IF AttestationNeeded(ask) THEN "purge_attestation"
                             ELSE AfterAttestation(ask)]
  /\ UNCHANGED released

Call(c, ask) ==
  /\ pc[c] = "idle"
  /\ GateDisabled(c, ask) \/ Verify(c, ask)
  /\ asked' = [asked EXCEPT ![c] = ask]
  /\ began' = [began EXCEPT ![c] = policy]
  /\ UNCHANGED <<now, config, stored, nonces, events, honoured, seen, decisions, bounds>>

\* Mutant: a row goes when its token expires, not after it.
PurgeNonces_OffByOne(c) ==
  /\ \/ Goto(c, "purge_attestation", "claim_attestation")
     \/ Goto(c, "purge_confirmation", "claim_confirmation")
  /\ nonces' = {token \in nonces : token.expires_at > now}
  /\ UNCHANGED <<now, config, stored, events, honoured, locals, bounds>>

\* claim_influence_nonce deletes the rows of expired tokens first, ...
PurgeNonces(c) ==
  /\ \/ Goto(c, "purge_attestation", "claim_attestation")
     \/ Goto(c, "purge_confirmation", "claim_confirmation")
  /\ nonces' = {token \in nonces : token.expires_at >= now}
  /\ UNCHANGED <<now, config, stored, events, honoured, locals, bounds>>

\* ... then inserts its own, which fails when the token has one.
ClaimNonce(c, token, to) ==
  /\ pc' = [pc EXCEPT ![c] = IF token \in nonces THEN "failed" ELSE to]
  /\ nonces' = nonces \union {token}
  /\ honoured' = IF token \in nonces THEN honoured
                  ELSE honoured \union {[token |-> token, call |-> c, at |-> now]}
  /\ UNCHANGED <<now, config, stored, events, locals, bounds>>

ClaimAttestation(c) ==
  /\ pc[c] = "claim_attestation"
  /\ ClaimNonce(c, asked[c].attestation, AfterAttestation(asked[c]))

ClaimConfirmation(c) ==
  /\ pc[c] = "claim_confirmation"
  /\ ClaimNonce(c, asked[c].confirmation, "policies")

\* Mutant: the policies another call has read are taken from a cache.
ReadPolicies_Cached(c) ==
  /\ Goto(c, "policies", "contradictions")
  /\ seen' = [seen EXCEPT ![c] =
       IF \E d \in Caller : seen[d] # NoPolicies
       THEN seen[CHOOSE d \in Caller : seen[d] # NoPolicies]
       ELSE [m \in Memory |->
              IF Namespace[m] = asked[c].scope.namespace THEN policy[m] ELSE None]]
  /\ UNCHANGED <<now, config, stored, nonces, events, honoured,
                 asked, began, decisions, released, bounds>>

\* influence_contexts_for: the policies of one namespace, ...
ReadPolicies(c) ==
  /\ Goto(c, "policies", "contradictions")
  /\ seen' = [seen EXCEPT ![c] = [m \in Memory |->
       IF Namespace[m] = asked[c].scope.namespace THEN policy[m] ELSE None]]
  /\ UNCHANGED <<now, config, stored, nonces, events, honoured,
                 asked, began, decisions, released, bounds>>

Candidate(c, m) ==
  [policy |-> seen[c][m], depth |-> Depth[m], disputed |-> m \in disputed]

Decision(c, m) ==
  IF seen[c][m] = None THEN None
  ELSE evaluate(Candidate(c, m), Purpose(asked[c]), asked[c].consumer,
                asked[c].confirmation # None, config)

\* ... and, in a second statement, the unresolved sets; then all decisions.
ReadContradictions(c) ==
  /\ Goto(c, "contradictions", "record")
  /\ decisions' = [decisions EXCEPT ![c] = [m \in Memory |-> Decision(c, m)]]
  /\ UNCHANGED <<now, config, stored, nonces, events, honoured,
                 asked, began, seen, released, bounds>>

Event(c, m) ==
  [call |-> c, memory |-> m, decision |-> decisions[c][m], version |-> seen[c][m].version]

ToRecord(c) ==
  {m \in Memory : /\ decisions[c][m] # None
                  /\ config.record_denials \/ decisions[c][m] \notin {"deny", "confirmation"}
                  /\ Event(c, m) \notin events}

record_influence_decisions(c) ==
  /\ pc[c] = "record"
  /\ \E m \in ToRecord(c) : events' = events \union {Event(c, m)}
  /\ UNCHANGED <<now, config, stored, nonces, honoured, pc, locals, bounds>>

\* A memory without metadata has no decision: closed or released.
Content(c) ==
  {m \in Memory : IF decisions[c][m] = None
                  THEN ~config.fail_closed_on_policy_error
                  ELSE decisions[c][m] \in {"allow", "reasoning", "source"}}

Release(c) ==
  /\ Goto(c, "record", "done")
  /\ ToRecord(c) = {}
  /\ released' = [released EXCEPT ![c] = Content(c)]
  /\ UNCHANGED <<now, config, stored, nonces, events, honoured,
                 asked, began, seen, decisions, bounds>>

\* A statement fails, or the call's future is dropped at an await.
StatementFails(c) ==
  /\ faults < MaxFaults
  /\ pc[c] \in Claiming \union Deciding
  /\ pc' = [pc EXCEPT ![c] = "failed"]
  /\ faults' = faults + 1
  /\ UNCHANGED <<now, config, stored, nonces, events, honoured, locals, updates>>

-----------------------------------------------------------------------------
(* The rest of the daemon. *)

\* One transaction (see Ledger), by an operator who may.
update_memory_policy(principal, m, patch, expected) ==
  /\ updates < MaxUpdates
  /\ authorize(principal, "influence_policy:write", Namespace[m])
  /\ policy[m] # None
  /\ PatchAccepted(patch, expected, policy[m])
  /\ policy' = [policy EXCEPT ![m] = NextPolicy(patch, policy[m])]
  /\ updates' = updates + 1
  /\ UNCHANGED <<now, config, disputed, nonces, events, honoured, pc, locals, faults>>

\* A set is opened or reopened, or resolved (see ClaimGraph).
ReviewContradiction(m) ==
  /\ updates < MaxUpdates
  /\ disputed' = IF m \in disputed THEN disputed \ {m} ELSE disputed \union {m}
  /\ updates' = updates + 1
  /\ UNCHANGED <<now, config, policy, nonces, events, honoured, pc, locals, faults>>

\* A memory's metadata is purged (see Forgetting).
Purge(m) ==
  /\ updates < MaxUpdates
  /\ policy[m] # None
  /\ policy' = [policy EXCEPT ![m] = None]
  /\ updates' = updates + 1
  /\ UNCHANGED <<now, config, disputed, nonces, events, honoured, pc, locals, faults>>

Tick ==
  /\ now < MaxTime
  /\ now' = now + 1
  /\ UNCHANGED <<config, stored, nonces, events, honoured, pc, locals, bounds>>

CallStep(c) ==
  \/ PurgeNonces(c)
  \/ ClaimAttestation(c)
  \/ ClaimConfirmation(c)
  \/ ReadPolicies(c)
  \/ ReadContradictions(c)
  \/ record_influence_decisions(c)
  \/ Release(c)

Next ==
  \/ \E c \in Caller, ask \in Asks : Call(c, ask)
  \/ \E c \in Caller : CallStep(c) \/ StatementFails(c)
  \/ \E principal \in Principals, m \in Memory, patch \in Patches, expected \in 1..(MaxUpdates + 1) :
       update_memory_policy(principal, m, patch, expected)
  \/ \E m \in Memory : ReviewContradiction(m) \/ Purge(m)
  \/ Tick

Spec == Init /\ [][Next]_vars

-----------------------------------------------------------------------------
(* Properties. *)

\* While a token is valid it is honoured once: a retried or concurrent call
\* with the same token fails, whatever failed after the first claim and
\* however purges of expired rows interleave with the inserts.  (Within the
\* clock skew after its expiry a token is honoured again: its row is purged.)
TokenOnce ==
  \A h, k \in honoured :
    /\ h.token = k.token
    /\ h.at <= h.token.expires_at
    /\ k.at <= k.token.expires_at
    => h = k

\* The candidate as if it were in no contradiction set.
Undisputed(c, m) == [policy |-> seen[c][m], depth |-> Depth[m], disputed |-> FALSE]

\* What needs a human's confirmation leaves the gate only in a call that
\* claimed a confirmation of this very purpose, for at least its risk.
ConfirmedBeforeRelease ==
  \A c \in Caller, m \in Memory :
    /\ pc[c] = "done" /\ m \in released[c] /\ config.enabled
    /\ seen[c][m] # None
    /\ config.confirmation_replay_protection
    /\ ConfirmationRequired(Undisputed(c, m), Purpose(asked[c]), config)
    => \E h \in honoured :
         /\ h.call = c /\ h.token = asked[c].confirmation
         /\ h.token.purpose = Purpose(asked[c])
         /\ Purpose(asked[c]).risk <= h.token.maximum_authorized_risk

\* Content leaves the gate only with its decision on record, although the
\* records are written one by one and any of them may fail.
ReleasedIsRecorded ==
  \A c \in Caller, m \in Memory :
    pc[c] = "done" /\ m \in released[c] /\ config.enabled /\ seen[c][m] # None
    => \E e \in events : /\ e.call = c /\ e.memory = m
                         /\ e.version = seen[c][m].version
                         /\ e.decision \in {"allow", "reasoning", "source"}

\* An operator's restriction holds for every call that begins after it: the
\* policy a release rests on is at least as new as the one in force when the
\* call began, and a memory purged before the call is not released by a gate
\* that fails closed.
RestrictionIsObserved ==
  \A c \in Caller, m \in Memory :
    /\ pc[c] = "done" /\ m \in released[c] /\ config.enabled
    /\ config.fail_closed_on_policy_error
    => /\ began[c][m] # None
       /\ seen[c][m].version >= began[c][m].version
       /\ Disposition(seen[c][m], Purpose(asked[c])) # "deny"
=============================================================================
