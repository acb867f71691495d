------------------------------ MODULE MCStartup ------------------------------
(* Three legacy ids, and stores of several versions: without metadata, a   *)
(* chain against the order of the ids, a lost parent with a row still to   *)
(* come, a cycle, and a root that lacks its row.                           *)
EXTENDS Startup, TLC

\* What the statements up to a list's end have made.
Version1 == Range(SessionGroup \o Tables(<<"memories", "memory_meta">>))
Version2 == Range(BeforeBackfill)
Version3 == Range(BeforeBackfill \o EvidenceGroup \o InfluenceGroup)

Store(made, parents, memories, described, rooted) ==
  [schema |-> made, parent |-> parents, stored |-> memories,
   described |-> described, rooted |-> rooted]

MCStores ==
  {Store(Version1, <<Null, Null, Null>>, {1, 2, 3}, {3}, {}),
   Store(Version2, <<3, 1, Null>>, {1, 2, 3}, {1, 2, 3}, {}),
   Store(Version2, <<Null, Gone, 2>>, {2, 3}, {2, 3}, {}),
   Store(Version2, <<2, 1, Null>>, {1, 2, 3}, {1, 2, 3}, {}),
   Store(Version3, <<Null, Null, 1>>, {1, 2, 3}, {1, 3}, {1})}

\* A table, a column nothing else names, two that an index names, a late one.
MCFallible ==
  {Table("blobs"), Column("observations", "output_blob"),
   Column("memory_meta", "namespace"), Column("memory_meta", "evidence_root_id"),
   Table("sync_events"), Column("sync_events", "signer")}

Symmetry == Permutations(Starter)
=============================================================================
