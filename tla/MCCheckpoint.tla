---------------------------- MODULE MCCheckpoint ----------------------------
(***************************************************************************)
(* Two narratives of one session, which was compressed again after a       *)
(* failure: both store and link the same transcript.                       *)
(***************************************************************************)
EXTENDS Checkpoint

MCBlobOf == <<"transcript", "transcript">>
=============================================================================
