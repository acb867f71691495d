---------------------------- MODULE MCClaimGraph ----------------------------
(* Two calls against a recorded value. *)
EXTENDS ClaimGraph

CONSTANTS a, b, auth_mode, owner, status_of

\* Memories 1 and 3 agree, and contradict what 2 says.
MCTargetOf == [m \in Memory |-> IF m = 2 THEN b ELSE a]
=============================================================================
