---------------------------- MODULE StoreProofs ----------------------------
(***************************************************************************)
(* Proofs about a store and its snapshots.                                 *)
(*                                                                         *)
(* Checkpoint, for any transcripts, provenance, limits and bounds: what a  *)
(* snapshot, a delta or a memory refers to is kept, a snapshot restores    *)
(* what was captured, a restore loosens nothing, and what was removed      *)
(* comes back hidden.                                                      *)
(*                                                                         *)
(* Startup, for any stores found, starters and bounds: a store is served   *)
(* only with its whole schema, a new one or a migrated one only with a     *)
(* root for every memory it began with, and the two places of a root agree.*)
(***************************************************************************)
EXTENDS Checkpoint, Startup, FiniteSetTheorems, SequenceTheorems,
        WellFoundedInduction, TLAPS

-----------------------------------------------------------------------------
(* Handles. *)

Rank(S, x) == Cardinality({y \in S : y <= x})

\* A set of handles that is not empty has a highest: ranks are one to one, so
\* some handle has the rank of all.
LEMMA MaxIsIn ==
  ASSUME NEW n \in Nat, NEW S \in SUBSET (0..n), S # {}
  PROVE  Max(S) \in S /\ \A x \in S : x <= Max(S)
<1> DEFINE c       == Cardinality(S)
           Below(x) == {y \in S : y <= x}
           rank    == [x \in S |-> Rank(S, x)]
<1>1. S \subseteq Nat /\ IsFiniteSet(S) /\ c \in Nat /\ c # 0
  <2>1. IsFiniteSet(0..n)
    BY FS_Interval
  <2>2. IsFiniteSet(S)
    BY <2>1, FS_Subset
  <2>3. \A x \in 0..n : x \in Nat
    OBVIOUS
  <2> QED BY <2>2, <2>3, FS_CardinalityType, FS_EmptySet
<1>2. ASSUME NEW x \in S
      PROVE  /\ IsFiniteSet(Below(x)) /\ Rank(S, x) \in 1..c
             /\ Below(x) \in SUBSET S /\ Rank(S, x) = Cardinality(Below(x))
  <2>1. Below(x) \in SUBSET S
    OBVIOUS
  <2>2. IsFiniteSet(Below(x)) /\ Cardinality(Below(x)) <= c
    BY <1>1, <2>1, FS_Subset
  <2>3. x \in Below(x)
    BY <1>1
  <2>4. Cardinality(Below(x)) \in Nat /\ Cardinality(Below(x)) # 0
    BY <2>2, <2>3, FS_CardinalityType, FS_EmptySet
  <2> QED BY <1>1, <2>1, <2>2, <2>4 DEF Rank
<1>3. ASSUME NEW x \in S, NEW y \in S, x < y
      PROVE  Rank(S, x) # Rank(S, y)
  <2>1. Below(x) \in SUBSET Below(y) /\ y \in Below(y) /\ y \notin Below(x)
    <3>1. \A z \in S : z \in Nat
      BY <1>1
    <3>2. \A z \in S : z <= x => z <= y
      BY <1>3, <3>1
    <3>3. ~(y <= x)
      BY <1>3, <3>1
    <3>4. y <= y
      BY <3>1
    <3>5. Below(x) \in SUBSET Below(y)
      BY <3>2
    <3> QED BY <3>3, <3>4, <3>5
  <2> QED BY <1>2, <2>1, FS_Subset
<1>4. rank \in Injection(S, 1..c)
  <2>1. rank \in [S -> 1..c]
    BY <1>2
  <2>2. \A x, y \in S : rank[x] = rank[y] => x = y
    <3> TAKE x, y \in S
    <3>1. x \in Nat /\ y \in Nat
      BY <1>1
    <3>2. x < y \/ y < x \/ x = y
      BY <3>1
    <3> QED BY <1>3, <3>2
  <2> QED BY <2>1, <2>2 DEF Injection, IsInjective
<1>5. IsFiniteSet(1..c) /\ Cardinality(1..c) = c
  <2>1. Cardinality(1..c) = IF 1 > c THEN 0 ELSE c - 1 + 1
    BY SMTT(30), <1>1, FS_Interval
  <2> QED BY <1>1, <2>1, FS_Interval
<1>6. rank \in Surjection(S, 1..c)
  BY <1>1, <1>4, <1>5, FS_Injection
<1>7. PICK x \in S : Rank(S, x) = c
  <2>1. c \in 1..c
    BY <1>1
  <2>2. \A k \in 1..c : \E x \in S : rank[x] = k
    BY <1>6 DEF Surjection
  <2> QED BY <2>1, <2>2
<1>8. Below(x) = S
  BY <1>1, <1>2, <1>7, FS_Subset
<1>9. \A y \in S : x >= y
  BY <1>1, <1>8
<1>10. Max(S) \in S /\ \A y \in S : Max(S) >= y
  BY <1>9 DEF Max
<1> QED BY <1>1, <1>10

-----------------------------------------------------------------------------
(* Maps. *)

LEMMA BindFacts ==
  ASSUME NEW map, NEW key, NEW value
  PROVE  /\ DOMAIN Bind(map, key, value) = DOMAIN map \union {key}
         /\ Bind(map, key, value)[key] = value
         /\ \A k \in DOMAIN map : k # key => Bind(map, key, value)[k] = map[k]
BY DEF Bind

-----------------------------------------------------------------------------
(* The inductive invariant. *)

\* The shape of a state a snapshot holds.
Shaped(state) ==
  /\ state = [tables |-> state.tables, sources |-> state.sources, audit |-> state.audit]
  /\ state.tables = [t \in TABLES |-> state.tables[t]]

Keyed(rows) == \A r, s \in rows : r.id = s.id => r = s

\* Rows of the first n memories.
NumberedTo(rows, n) == rows \subseteq Rows /\ \A r \in rows : r.id <= n /\ r.body <= n

\* Rows of memories born so far.
Numbered(rows) == NumberedTo(rows, born)

PoliciesOK(policies) ==
  Keyed(policies) /\ \A p \in policies : p.version \in 1..MaxVersion

StateOK(state) ==
  /\ Shaped(state)
  /\ Numbered(state.tables.memories) /\ Keyed(state.tables.memories)
  /\ PoliciesOK(state.tables.policies)

CountersOK ==
  /\ born \in Nat /\ born <= MaxMemories
  /\ highwater \in Nat /\ highwater <= born
  /\ ledger \in [1..MaxMemories -> Nat]
  /\ restores \in Nat /\ recreates \in Nat

\* A policy belongs to a row, or to a row whose purge is not over.
TablesOK ==
  /\ tables = [t \in TABLES |-> tables[t]]
  /\ Numbered(tables.memories) /\ Numbered(orphans)
  /\ Keyed(tables.memories) /\ Keyed(orphans)
  /\ ids(tables.memories) \intersect ids(orphans) = {}
  /\ PoliciesOK(tables.policies)
  /\ ids(tables.policies) \subseteq ids(tables.memories) \union ids(orphans)

Counts(map) == \A key \in DOMAIN map : map[key] \in Nat

MapsOK == Counts(sources) /\ Counts(objects)

Stages == {"ledger", "decref", "gc", "delete", "purge"}

TasksOK ==
  /\ writing # None => writing \in [id : 1..MaxMemories, body : 1..MaxMemories,
                                    at : {"govern", "store", "link"}]
  /\ writing # None /\ writing.at # "govern" => BlobOf[writing.body] # None
  /\ forgetting # None => forgetting \in [id : 1..MaxMemories, at : Stages]

\* The parts of an envelope.
Parts(envelope) == {envelope[n] : n \in 1..Len(envelope)}

EnvelopeOK(o) ==
  /\ o \in Seq(Parts(o)) /\ Len(o) >= 1
  /\ \A n \in 1..Len(o) : StateOK(o[n].state_hash)
  /\ load(o)

PastOK(state) == StateOK(state) /\ validate(state)

\* The state a restore has read.
Restoring == IF pending = None THEN {} ELSE {pending.state}

StatesOK ==
  /\ \A o \in DOMAIN objects : EnvelopeOK(o)
  /\ \A s \in DOMAIN snapshots :
       /\ snapshots[s].blob_hash \in DOMAIN objects
       /\ HashOf(snapshots[s].blob_hash) = snapshots[s].taken
  /\ head # None => head \in DOMAIN objects
  /\ \A state \in exports \union Restoring : PastOK(state)

\* No handle that the database has given out is above the mark.
HandedOK == \A h \in handed : h[1] \in Nat /\ h[1] <= highwater

\* A memory that is removed has a ledger entry, which its forget writes first.
GoneOK ==
  /\ gone \subseteq 1..MaxMemories
  /\ \A id \in gone : ledger[id] > 0
  /\ forgetting # None /\ forgetting.at # "ledger" => ledger[forgetting.id] > 0

\* The references to a transcript that rows and a remember in progress hold.
Holders(b) == {link \in credit.held : link[2] = b}
Linking(b) == writing # None /\ writing.at = "link" /\ BlobOf[writing.body] = b
Claimed(b) == Cardinality(Holders(b)) + IF Linking(b) THEN 1 ELSE 0

\* The count covers every reference held, unless it was overdrawn.
CreditOK ==
  /\ credit = [held |-> credit.held, overdrawn |-> credit.overdrawn,
               unbacked |-> credit.unbacked]
  /\ IsFiniteSet(credit.held)
  /\ \A b \in Blob \ credit.overdrawn :
       Claimed(b) > 0 => b \in DOMAIN sources /\ Claimed(b) <= sources[b]

QueryOK ==
  query # None =>
    /\ query = [known |-> query.known, todo |-> query.todo,
                visible |-> query.visible, withheld |-> query.withheld]
    /\ \A e \in query.visible : ~Superseded(e, query.known)


-----------------------------------------------------------------------------
(* The operators. *)

\* The handles in the tables are handles of memories born so far, and so are the
\* ones the mark covers.
LEMMA HandleSet ==
  CountersOK /\ TablesOK =>
    /\ {highwater} \union ids(tables.memories) \union ids(orphans) \in SUBSET (0..born)
    /\ Max({highwater} \union ids(tables.memories) \union ids(orphans)) \in highwater..born
    /\ \A id \in ids(tables.memories) \union ids(orphans) :
         id <= Max({highwater} \union ids(tables.memories) \union ids(orphans))
<1> SUFFICES ASSUME CountersOK, TablesOK
             PROVE  /\ {highwater} \union ids(tables.memories) \union ids(orphans)
                         \in SUBSET (0..born)
                    /\ Max({highwater} \union ids(tables.memories) \union ids(orphans))
                         \in highwater..born
                    /\ \A id \in ids(tables.memories) \union ids(orphans) :
                         id <= Max({highwater} \union ids(tables.memories) \union ids(orphans))
    OBVIOUS
<1> DEFINE S == {highwater} \union ids(tables.memories) \union ids(orphans)
<1>1. S \in SUBSET (0..born)
  <2>1. born \in Nat /\ highwater \in 0..born
    BY DEF CountersOK
  <2>2. ASSUME NEW r \in tables.memories \union orphans PROVE r.id \in 0..born
    <3>1. r.id \in 1..MaxMemories /\ r.id <= born
      BY <2>2 DEF TablesOK, Numbered, NumberedTo, Rows
    <3> QED BY <2>1, <3>1
  <2> QED BY <2>1, <2>2 DEF ids
<1>2. born \in Nat /\ highwater \in Nat /\ highwater \in S
  BY DEF CountersOK
<1> HIDE DEF S
<1>3. Max(S) \in S /\ \A x \in S : x <= Max(S)
  BY <1>1, <1>2, MaxIsIn
<1>4. Max(S) \in highwater..born
  <2>1. Max(S) \in 0..born /\ highwater <= Max(S)
    BY <1>1, <1>2, <1>3
  <2> QED BY <1>2, <2>1
<1>5. \A id \in ids(tables.memories) \union ids(orphans) : id <= Max(S)
  BY <1>3 DEF S
<1> QED BY <1>1, <1>4, <1>5 DEF S

\* The next handle is above the mark and above every row.
LEMMA NextHandleIsFresh ==
  CountersOK /\ TablesOK =>
    /\ NextHandle \in Nat /\ NextHandle \in 1..(born + 1) /\ highwater < NextHandle
    /\ NextHandle \notin ids(tables.memories) \union ids(orphans)
<1> SUFFICES ASSUME CountersOK, TablesOK
             PROVE  /\ NextHandle \in Nat /\ NextHandle \in 1..(born + 1)
                    /\ highwater < NextHandle
                    /\ NextHandle \notin ids(tables.memories) \union ids(orphans)
    OBVIOUS
<1> DEFINE top == Max({highwater} \union ids(tables.memories) \union ids(orphans))
<1>1. /\ top \in highwater..born
      /\ \A id \in ids(tables.memories) \union ids(orphans) : id <= top
  BY HandleSet
<1>2. born \in Nat /\ highwater \in Nat
  BY DEF CountersOK
<1>3. NextHandle = top + 1
  BY DEF NextHandle
<1> HIDE DEF top
<1>4. top \in Nat /\ highwater <= top /\ top <= born
  BY <1>1, <1>2
<1>5. ~(top + 1 <= top)
  BY <1>4
<1>6. NextHandle \notin ids(tables.memories) \union ids(orphans)
  BY <1>1, <1>3, <1>5
<1>7. NextHandle \in Nat /\ NextHandle \in 1..(born + 1) /\ highwater < NextHandle
  BY <1>2, <1>3, <1>4
<1> QED BY <1>6, <1>7

LEMMA RowIs ==
  ASSUME NEW rows, Keyed(rows), NEW r \in rows
  PROVE  Row(rows, r.id) = r
<1>1. \A s \in rows : s.id = r.id => s = r
  BY DEF Keyed
<1> QED BY <1>1 DEF Row

\* What the difference of two states says leads from the one to the other.
LEMMA DeltaLeads ==
  ASSUME NEW base, Shaped(base), NEW next, Shaped(next)
  PROVE  apply_delta(base, difference(base, next)) = next
<1> DEFINE delta == difference(base, next)
<1>1. /\ \A t \in TABLES : delta.removed[t] = base.tables[t] \ next.tables[t]
      /\ \A t \in TABLES : delta.added[t] = next.tables[t] \ base.tables[t]
      /\ delta.sources = next.sources \ base.sources
      /\ delta.removed_sources = base.sources \ next.sources
      /\ delta.audit = next.audit
  BY DEF difference
<1> HIDE DEF delta
<1>2. /\ \A t \in TABLES : delta.removed[t] \subseteq base.tables[t]
      /\ delta.removed_sources \subseteq base.sources
  BY <1>1
<1>3. \A t \in TABLES : (base.tables[t] \ delta.removed[t]) \union delta.added[t]
                        = next.tables[t]
  BY <1>1
<1>4. (base.sources \ delta.removed_sources) \union delta.sources = next.sources
  BY <1>1
<1>5. apply_delta(base, delta) =
        [tables  |-> [t \in TABLES |-> (base.tables[t] \ delta.removed[t]) \union delta.added[t]],
         sources |-> (base.sources \ delta.removed_sources) \union delta.sources,
         audit   |-> delta.audit]
  BY <1>2 DEF apply_delta
<1>6. [t \in TABLES |-> (base.tables[t] \ delta.removed[t]) \union delta.added[t]]
        = next.tables
  <2>1. [t \in TABLES |-> (base.tables[t] \ delta.removed[t]) \union delta.added[t]]
          = [t \in TABLES |-> next.tables[t]]
    BY <1>3
  <2> QED BY <2>1 DEF Shaped
<1>7. apply_delta(base, delta) =
        [tables |-> next.tables, sources |-> next.sources, audit |-> next.audit]
  BY <1>1, <1>4, <1>5, <1>6
<1> QED BY <1>7 DEF Shaped, delta

-----------------------------------------------------------------------------
(* Envelopes. *)

LEMMA PrefixFacts ==
  ASSUME NEW S, NEW o \in Seq(S)
  PROVE  /\ SubSeq(o, 1, Len(o)) = o
         /\ \A n \in 1..(Len(o) - 1) :
              /\ Len(SubSeq(o, 1, n + 1)) = n + 1
              /\ Front(SubSeq(o, 1, n + 1)) = SubSeq(o, 1, n)
<1>1. SubSeq(o, 1, Len(o)) = o /\ Len(o) \in Nat
  BY SubSeqFull, LenProperties
<1>2. ASSUME NEW n \in 1..(Len(o) - 1)
      PROVE  /\ Len(SubSeq(o, 1, n + 1)) = n + 1
             /\ Front(SubSeq(o, 1, n + 1)) = SubSeq(o, 1, n)
  <2> DEFINE p == SubSeq(o, 1, n + 1)
  <2>1. n \in Nat /\ 1 \in 1..Len(o) /\ n + 1 \in 1..Len(o)
    BY <1>1
  <2>2. \A i \in 1..(n + 1) : o[i] \in S
    BY <1>1, <2>1, ElementOfSeq
  <2>3. Len(p) = n + 1
    BY <2>1, <2>2, SubSeqProperties
  <2>4. SubSeq(p, 1, n) = SubSeq(o, 1, n)
    <3>1. 1 \in 1..((n + 1) - 1 + 1) /\ n \in 1..((n + 1) - 1 + 1)
      BY <2>1
    <3>2. SubSeq(p, 1, n) = SubSeq(o, 1 + 1 - 1, 1 + n - 1)
      BY <2>1, <3>1, SubSeqOfSubSeq
    <3>3. 1 + 1 - 1 = 1 /\ 1 + n - 1 = n
      BY <2>1
    <3> QED BY <3>2, <3>3
  <2>5. Len(p) - 1 = n
    BY <2>1, <2>3
  <2>6. Front(p) = SubSeq(p, 1, Len(p) - 1)
    BY DEF Front
  <2> QED BY <2>3, <2>4, <2>5, <2>6
<1> QED BY <1>1, <1>2

LEMMA Appended ==
  ASSUME NEW o, o \in Seq(Parts(o)), NEW e
  PROVE  /\ Append(o, e) \in Seq(Parts(Append(o, e)))
         /\ Len(Append(o, e)) = Len(o) + 1 /\ Len(o) \in Nat
         /\ \A n \in 1..Len(o) : /\ Append(o, e)[n] = o[n]
                                 /\ SubSeq(Append(o, e), 1, n) = SubSeq(o, 1, n)
         /\ Append(o, e)[Len(o) + 1] = e
         /\ SubSeq(Append(o, e), 1, Len(o) + 1) = Append(o, e)
<1> DEFINE S == Parts(o) \union {e}
           p == Append(o, e)
<1>1. o \in Seq(S) /\ e \in S
  BY SeqMonotonic
<1> HIDE DEF S
<1>2. /\ p \in Seq(S) /\ Len(p) = Len(o) + 1 /\ Len(o) \in Nat
      /\ \A n \in 1..Len(o) : p[n] = o[n]
      /\ p[Len(o) + 1] = e
  BY <1>1, AppendProperties, LenProperties
<1>3. SubSeq(p, 1, Len(o) + 1) = p
  BY <1>2, SubSeqFull
<1>4. p \in Seq(Parts(p))
  <2>1. p \in [1..Len(p) -> S] /\ Len(p) \in Nat
    BY <1>2, LenProperties
  <2>2. p \in [1..Len(p) -> Parts(p)]
    BY <2>1 DEF Parts
  <2> HIDE DEF p
  <2> QED BY <2>1, <2>2, SeqDef
<1>5. ASSUME NEW n \in 1..Len(o) PROVE SubSeq(p, 1, n) = SubSeq(o, 1, n)
  <2>1. n \in Nat /\ n \in Int /\ 1 \in Int /\ 1 <= n
    BY <1>2
  <2>2. \A i \in 1..n : i \in 1..Len(o) /\ p[i] = o[i] /\ o[i] \in S
    BY <1>1, <1>2, <2>1, ElementOfSeq
  <2>3. /\ SubSeq(o, 1, n) \in Seq(S) /\ Len(SubSeq(o, 1, n)) = n
        /\ \A i \in 1..n : SubSeq(o, 1, n)[i] = o[i]
    <3>1. \A i \in 1..n : o[i] \in S
      BY <2>2
    <3>2. /\ SubSeq(o, 1, n) \in Seq(S)
          /\ Len(SubSeq(o, 1, n)) = IF 1 <= n THEN n - 1 + 1 ELSE 0
          /\ \A i \in 1..(n - 1 + 1) : SubSeq(o, 1, n)[i] = o[1 + i - 1]
      BY <2>1, <3>1, SubSeqProperties
    <3>3. n - 1 + 1 = n /\ \A i \in 1..n : 1 + i - 1 = i
      BY <2>1
    <3> QED BY <2>1, <3>2, <3>3
  <2>4. /\ SubSeq(p, 1, n) \in Seq(S) /\ Len(SubSeq(p, 1, n)) = n
        /\ \A i \in 1..n : SubSeq(p, 1, n)[i] = p[i]
    <3>1. \A i \in 1..n : p[i] \in S
      BY <2>2
    <3>2. /\ SubSeq(p, 1, n) \in Seq(S)
          /\ Len(SubSeq(p, 1, n)) = IF 1 <= n THEN n - 1 + 1 ELSE 0
          /\ \A i \in 1..(n - 1 + 1) : SubSeq(p, 1, n)[i] = p[1 + i - 1]
      BY <2>1, <3>1, SubSeqProperties
    <3>3. n - 1 + 1 = n /\ \A i \in 1..n : 1 + i - 1 = i
      BY <2>1
    <3> QED BY <2>1, <3>2, <3>3
  <2>5. \A i \in 1..n : SubSeq(p, 1, n)[i] = SubSeq(o, 1, n)[i]
    BY <2>2, <2>3, <2>4
  <2> QED BY <2>3, <2>4, <2>5, SeqEqual
<1> QED BY <1>2, <1>3, <1>4, <1>5

LEMMA StateStands ==
  ASSUME NEW state, StateOK(state), CountersOK, born' \in Nat, born <= born'
  PROVE  StateOK(state)'
<1>1. \A r \in state.tables.memories :
        r \in Rows /\ r.id \in 1..MaxMemories /\ r.body \in 1..MaxMemories
        /\ r.id <= born /\ r.body <= born
  BY DEF StateOK, Numbered, NumberedTo, Rows
<1>2. \A k \in 1..MaxMemories : k <= born => k <= born'
  BY DEF CountersOK
<1>3. Numbered(state.tables.memories)'
  BY <1>1, <1>2 DEF Numbered, NumberedTo, Rows
<1> QED BY <1>3 DEF StateOK, Shaped, Keyed, PoliciesOK

LEMMA PastStands ==
  ASSUME NEW state, PastOK(state), CountersOK, born' \in Nat, born <= born'
  PROVE  PastOK(state)'
<1>1. StateOK(state)'
  BY StateStands DEF PastOK
<1> QED BY <1>1 DEF PastOK, validate, validate_checkpoint, validate_chain, ids, LastEvent

\* An envelope loads as long as the collector leaves its chain.
LEMMA EnvelopeStands ==
  ASSUME NEW o, EnvelopeOK(o), CountersOK, born' \in Nat, born <= born',
         \A n \in 1..Len(o) : SubSeq(o, 1, n) \in DOMAIN objects'
  PROVE  EnvelopeOK(o)'
<1>1. \A n \in 1..Len(o) : StateOK(o[n].state_hash)'
  BY StateStands DEF EnvelopeOK
<1>2. load(o)'
  BY DEF EnvelopeOK, load
<1> QED BY <1>1, <1>2 DEF EnvelopeOK, Parts

LEMMA FullFacts ==
  ASSUME NEW state
  PROVE  /\ Full(state) \in Seq(Parts(Full(state))) /\ Len(Full(state)) = 1
         /\ Full(state)[1].state_hash = state /\ Full(state)[1].content = state
         /\ SubSeq(Full(state), 1, 1) = Full(state)
         /\ HashOf(Full(state)) = state
<1> DEFINE e == [state_hash |-> state, content |-> state]
<1>1. Full(state) = <<e>>
  BY DEF Full
<1>2. e.state_hash = state /\ e.content = state
  OBVIOUS
<1> HIDE DEF e
<1>3. <<e>> \in Seq({e}) /\ Len(<<e>>) = 1 /\ <<e>>[1] = e
  OBVIOUS
<1>4. SubSeq(<<e>>, 1, 1) = <<e>>
  BY <1>3, SubSeqFull
<1>5. Parts(<<e>>) = {e}
  BY <1>3 DEF Parts
<1>6. HashOf(<<e>>) = e.state_hash
  BY <1>3 DEF HashOf
<1> QED BY <1>1, <1>2, <1>3, <1>4, <1>5, <1>6

\* A project whose rows are in order is captured in order.
LEMMA CaptureOK ==
  TablesOK => StateOK(capture)
<1> SUFFICES ASSUME TablesOK PROVE StateOK(capture)
    OBVIOUS
<1> DEFINE live == {p \in tables.policies : p.id \in Handles}
<1>1. capture.tables = [tables EXCEPT !.policies = live]
  BY DEF capture
<1>2. /\ capture.tables = [t \in TABLES |-> capture.tables[t]]
      /\ capture.tables.memories = tables.memories
      /\ capture.tables.policies = live
      /\ capture.tables.events = tables.events
  BY <1>1 DEF TablesOK, TABLES
<1>3. capture = [tables |-> capture.tables, sources |-> capture.sources,
                 audit |-> capture.audit]
  BY DEF capture
<1>4. Shaped(capture)
  BY <1>2, <1>3 DEF Shaped
<1>5. PoliciesOK(capture.tables.policies)
  BY <1>2 DEF TablesOK, PoliciesOK, Keyed
<1> QED BY <1>2, <1>4, <1>5 DEF StateOK, TablesOK

-----------------------------------------------------------------------------
(* The chains of the snapshots. *)

\* What create makes loads, and gives the state it captured.
LEMMA EnvelopeCreated ==
  ASSUME TablesOK, CountersOK, StatesOK, NEW incremental \in BOOLEAN, validate(capture),
         NEW envelope \in Envelopes(capture, incremental), born' = born,
         DOMAIN objects' = DOMAIN objects \union {envelope}
  PROVE  EnvelopeOK(envelope)' /\ HashOf(envelope) = capture
<1>0. StateOK(capture) /\ PastOK(capture)
  BY CaptureOK DEF PastOK
<1>b. born' \in Nat /\ born <= born'
  BY DEF CountersOK
<1> PICK state : state = capture
    OBVIOUS
<1> PICK base : base = head
    OBVIOUS
<1>1. PastOK(state)' /\ StateOK(state) /\ validate(state)
  BY <1>0, <1>b, PastStands DEF PastOK
<1>2. CASE envelope = Full(state)
  <2>1. load(envelope)'
    <3>1. 1 <= MAX_DEPTH + 1
      BY CheckpointAssumption
    <3>2. \A n \in 1..1 : n = 1
      OBVIOUS
    <3>3. \A n \in 2..1 : FALSE
      OBVIOUS
    <3>4. validate(HashOf(envelope))'
      BY <1>1, <1>2, FullFacts DEF PastOK, HashOf
    <3>5. envelope[1].content = envelope[1].state_hash /\ Len(envelope) = 1
      BY <1>2, FullFacts
    <3>6. \A n \in 1..Len(envelope) : SubSeq(envelope, 1, n) \in DOMAIN objects'
      BY <1>2, <3>2, FullFacts
    <3> QED BY <3>1, <3>3, <3>4, <3>5, <3>6 DEF load
  <2>2. \A n \in 1..Len(envelope) : StateOK(envelope[n].state_hash)'
    <3>1. \A n \in 1..1 : n = 1
      OBVIOUS
    <3> QED BY <1>1, <1>2, <3>1, FullFacts DEF PastOK
  <2>3. envelope \in Seq(Parts(envelope)) /\ Len(envelope) >= 1
    BY <1>2, FullFacts
  <2>4. EnvelopeOK(envelope)'
    BY <2>1, <2>2, <2>3 DEF EnvelopeOK, Parts
  <2> QED BY <1>2, <2>4, FullFacts
<1>3. CASE base # None /\ envelope = base /\ HashOf(base) = state
  <2>1. base \in DOMAIN objects /\ EnvelopeOK(base)
    BY <1>3 DEF StatesOK
  <2>2. \A n \in 1..Len(envelope) : SubSeq(envelope, 1, n) \in DOMAIN objects'
    BY <1>3, <2>1 DEF EnvelopeOK, load
  <2> QED BY <1>3, <1>b, <2>1, <2>2, EnvelopeStands
<1>4. CASE /\ base # None /\ Len(base) - 1 < MAX_DEPTH
           /\ envelope = Append(base, [state_hash |-> state,
                                       content |-> difference(HashOf(base), state)])
  <2> DEFINE e == [state_hash |-> state, content |-> difference(HashOf(base), state)]
             last == Len(base) + 1
  <2>1. base \in DOMAIN objects /\ EnvelopeOK(base) /\ base \in Seq(Parts(base))
        /\ Len(base) >= 1
    BY <1>4 DEF StatesOK, EnvelopeOK
  <2>2. e.state_hash = state /\ e.content = difference(HashOf(base), state)
    OBVIOUS
  <2> HIDE DEF e
  <2>3. /\ envelope \in Seq(Parts(envelope)) /\ Len(envelope) = last /\ Len(base) \in Nat
        /\ \A n \in 1..Len(base) : /\ envelope[n] = base[n]
                                   /\ SubSeq(envelope, 1, n) = SubSeq(base, 1, n)
        /\ envelope[last] = e
        /\ SubSeq(envelope, 1, last) = envelope
    BY <1>4, <2>1, Appended DEF e
  <2>4. \A n \in 1..last : n \in 1..Len(base) \/ n = last
    BY <2>3
  <2>5. \A n \in 1..Len(envelope) : StateOK(envelope[n].state_hash)'
    <3>1. \A n \in 1..Len(base) : StateOK(base[n].state_hash)'
      BY <1>b, <2>1, StateStands DEF EnvelopeOK
    <3> QED BY <1>1, <2>2, <2>3, <2>4, <3>1 DEF PastOK
  <2>6. HashOf(envelope) = state
    BY <2>2, <2>3 DEF HashOf
  <2>7. load(envelope)'
    <3>1. Len(envelope) <= MAX_DEPTH + 1
      BY <1>4, <2>3, CheckpointAssumption
    <3>2. \A n \in 1..Len(envelope) : SubSeq(envelope, 1, n) \in DOMAIN objects'
      <4>1. \A n \in 1..Len(base) : SubSeq(base, 1, n) \in DOMAIN objects
        BY <2>1 DEF EnvelopeOK, load
      <4> QED BY <2>3, <2>4, <4>1
    <3>3. envelope[1].content = envelope[1].state_hash
      <4>1. 1 \in 1..Len(base)
        BY <2>1, <2>3
      <4>2. base[1].content = base[1].state_hash
        BY <2>1 DEF EnvelopeOK, load
      <4> QED BY <2>3, <4>1, <4>2
    <3>4. apply_delta(envelope[last - 1].state_hash, envelope[last].content)
            = envelope[last].state_hash
      <4>1. HashOf(base) = base[Len(base)].state_hash
        BY DEF HashOf
      <4>2. Len(base) \in 1..Len(base) /\ last - 1 = Len(base)
        BY <2>1, <2>3
      <4>3. Shaped(HashOf(base)) /\ Shaped(state)
        BY <1>1, <2>1, <4>1, <4>2 DEF EnvelopeOK, StateOK
      <4>4. apply_delta(HashOf(base), difference(HashOf(base), state)) = state
        BY <4>3, DeltaLeads
      <4> QED BY <2>2, <2>3, <4>1, <4>2, <4>4
    <3>5. ASSUME NEW n \in 2..Len(envelope)
          PROVE  apply_delta(envelope[n - 1].state_hash, envelope[n].content)
                   = envelope[n].state_hash
      <4>1. CASE n = last
        BY <3>4, <4>1
      <4>2. CASE n # last
        <5>1. n \in 2..Len(base) /\ n \in 1..Len(base) /\ n - 1 \in 1..Len(base)
          BY <2>3, <4>2
        <5>2. apply_delta(base[n - 1].state_hash, base[n].content) = base[n].state_hash
          BY <2>1, <5>1 DEF EnvelopeOK, load
        <5> QED BY <2>3, <5>1, <5>2
      <4> QED BY <4>1, <4>2
    <3>6. \A n \in 2..Len(envelope) :
            apply_delta(envelope[n - 1].state_hash, envelope[n].content)'
              = envelope[n].state_hash
      BY SMTT(30), <3>5 DEF apply_delta
    <3>7. validate(HashOf(envelope))'
      BY <1>1, <2>6 DEF PastOK, HashOf
    <3> QED BY <3>1, <3>2, <3>3, <3>6, <3>7 DEF load
  <2>8. Len(envelope) >= 1
    BY <2>3
  <2> QED BY <2>3, <2>5, <2>6, <2>7, <2>8 DEF EnvelopeOK, Parts
<1>5. \/ envelope = Full(state)
      \/ base # None /\ envelope = base /\ HashOf(base) = state
      \/ /\ base # None /\ Len(base) - 1 < MAX_DEPTH
         /\ envelope = Append(base, [state_hash |-> state,
                                     content |-> difference(HashOf(base), state)])
  BY DEF Envelopes
<1> QED BY <1>2, <1>3, <1>4, <1>5

\* A step is one of these actions, or leaves everything.
LEMMA Steps ==
  ASSUME [Next]_vars
  PROVE  \/ insert_memory \/ apply_memory_governance
         \/ store_blob \/ set_memory_session_blob
         \/ \E m \in tables.memories, value \in BOOLEAN, s \in tables.events \union {None} :
              append_assertion(m, value, s)
         \/ read_chain \/ answer
         \/ \E e \in IF query = None THEN {} ELSE query.todo : read_evidence(e)
         \/ \E m \in tables.memories : governed_delete_memory(m)
         \/ append_forget \/ decref_memory_session_blob \/ collect
         \/ delete_memory \/ purge_memory
         \/ \E incremental \in BOOLEAN : create(incremental)
         \/ \E s \in DOMAIN snapshots : delete(s)
         \/ \E s \in DOMAIN snapshots : export(s)
         \/ \E s \in DOMAIN snapshots : load_payload(s)
         \/ \E state \in exports : import(state)
         \/ restore
         \/ \E id \in 1..MaxMemories : update_memory_influence_policy(id)
         \/ run_gc \/ Crash \/ Recreate
         \/ UNCHANGED vars
BY Zenon DEF Next, Remembering, Asserting, Forgetting, Snapshotting

\* What the other steps leave alone.
LEMMA BornGrows ==
  ASSUME CountersOK, [Next]_vars
  PROVE  born' \in Nat /\ born <= born'
<1>1. born' = born \/ born' = born + 1
  BY ZenonT(60), Steps DEF insert_memory, apply_memory_governance, store_blob,
     set_memory_session_blob, append_assertion, read_chain, answer, read_evidence, governed_delete_memory,
     append_forget, ForgetGoes, decref_memory_session_blob, collect, delete_memory,
     purge_memory, create, delete, export, load_payload, import, restore,
     update_memory_influence_policy, run_gc, Crash, Recreate, vars, history
<1> QED BY <1>1 DEF CountersOK

\* The chains of the database are left alone, or only the pending restore ends.
LEMMA PointsStay ==
  ASSUME [Next]_vars
  PROVE  \/ UNCHANGED <<objects, snapshots, head, exports>> /\ (pending' = pending \/ pending' = None)
         \/ collect \/ run_gc \/ Recreate
         \/ \E incremental \in BOOLEAN : create(incremental)
         \/ \E s \in DOMAIN snapshots : delete(s) \/ export(s) \/ load_payload(s)
         \/ \E state \in exports : import(state)
<1>1. CASE UNCHANGED vars
  BY <1>1 DEF vars, blobs, points, tasks
<1>2. CASE \/ insert_memory \/ apply_memory_governance
           \/ store_blob \/ set_memory_session_blob
  BY <1>2 DEF insert_memory, apply_memory_governance, store_blob, set_memory_session_blob,
              blobs, points
<1>3. ASSUME NEW m, NEW value, NEW s, append_assertion(m, value, s)
      PROVE  UNCHANGED <<objects, snapshots, head, exports, pending>>
  BY SMTT(30), <1>3 DEF append_assertion, blobs, points, tasks
<1>4. CASE read_chain \/ answer \/ \E e \in IF query = None THEN {} ELSE query.todo : read_evidence(e)
  BY <1>4 DEF read_chain, answer, read_evidence, blobs, points
<1>5. CASE \E m \in tables.memories : governed_delete_memory(m)
  BY <1>5 DEF governed_delete_memory, blobs, points
<1>6. CASE append_forget \/ decref_memory_session_blob \/ delete_memory \/ purge_memory
  BY <1>6 DEF append_forget, decref_memory_session_blob, delete_memory, purge_memory, ForgetGoes,
              blobs, points
<1>7. CASE restore
  BY <1>7 DEF restore, points
<1>8. CASE \E id \in 1..MaxMemories : update_memory_influence_policy(id)
  BY <1>8 DEF update_memory_influence_policy, blobs, points, tasks
<1>9. CASE Crash
  BY <1>9 DEF Crash, blobs, points
<1> QED BY <1>1, <1>2, <1>3, <1>4, <1>5, <1>6, <1>7, <1>8, <1>9, Steps

\* The collector leaves whole chains, and every chain a snapshot, the head or
\* another envelope needs.
LEMMA CollectorKeeps ==
  ASSUME StatesOK, gc_blobs
  PROVE  /\ DOMAIN objects' \subseteq DOMAIN objects
         /\ \A s \in DOMAIN snapshots : snapshots[s].blob_hash \in DOMAIN objects'
         /\ head # None => head \in DOMAIN objects'
         /\ \A o \in DOMAIN objects' : \A n \in 1..Len(o) : SubSeq(o, 1, n) \in DOMAIN objects'
<1>1. DOMAIN objects' = {o \in DOMAIN objects : objects[o] > 0 \/ PinnedObject(o)}
  BY DEF gc_blobs, RestrictDomain, Restrict
<1>2. ASSUME NEW o \in DOMAIN objects', NEW n \in 1..Len(o)
      PROVE  SubSeq(o, 1, n) \in DOMAIN objects'
  <2>1. /\ o \in DOMAIN objects /\ o \in Seq(Parts(o)) /\ Len(o) \in Nat
        /\ \A k \in 1..Len(o) : SubSeq(o, 1, k) \in DOMAIN objects
    BY <1>1, LenProperties DEF StatesOK, EnvelopeOK, load
  <2>2. CASE n = Len(o)
    BY <1>2, <2>1, <2>2, PrefixFacts
  <2>3. CASE n # Len(o)
    <3>1. n \in 1..(Len(o) - 1) /\ n + 1 \in 1..Len(o)
      BY <2>1, <2>3
    <3> PICK child : child = SubSeq(o, 1, n + 1)
      OBVIOUS
    <3>2. child \in DOMAIN objects /\ Len(child) = n + 1 /\ Front(child) = SubSeq(o, 1, n)
      BY <2>1, <3>1, PrefixFacts
    <3>3. Len(child) > 1
      BY <3>1, <3>2
    <3>4. PinnedObject(SubSeq(o, 1, n))
      BY <3>2, <3>3 DEF PinnedObject
    <3> QED BY <1>1, <2>1, <3>4
  <2> QED BY <2>2, <2>3
<1>3. \A s \in DOMAIN snapshots : snapshots[s].blob_hash \in DOMAIN objects'
  BY <1>1 DEF StatesOK, PinnedObject
<1>4. head # None => head \in DOMAIN objects'
  BY <1>1 DEF StatesOK, PinnedObject
<1> QED BY <1>1, <1>2, <1>3, <1>4

LEMMA StatesStep ==
  ASSUME CountersOK, TablesOK, StatesOK, [Next]_vars
  PROVE  StatesOK'
<1>b. born' \in Nat /\ born <= born'
  BY BornGrows
<1>1. ASSUME \A o \in DOMAIN objects' : o \in DOMAIN objects,
             \A o \in DOMAIN objects' : \A n \in 1..Len(o) : SubSeq(o, 1, n) \in DOMAIN objects'
      PROVE  \A o \in DOMAIN objects' : EnvelopeOK(o)'
  BY <1>1, <1>b, EnvelopeStands DEF StatesOK
<1>2. ASSUME DOMAIN objects' = DOMAIN objects
      PROVE  \A o \in DOMAIN objects' : EnvelopeOK(o)'
  <2>1. \A o \in DOMAIN objects' : \A n \in 1..Len(o) : SubSeq(o, 1, n) \in DOMAIN objects'
    BY <1>2 DEF StatesOK, EnvelopeOK, load
  <2> QED BY <1>1, <1>2, <2>1
<1>3. ASSUME \A state \in exports' \union Restoring' :
               state \in exports \union Restoring \/ PastOK(state)
      PROVE  \A state \in exports' \union Restoring' : PastOK(state)'
  <2> TAKE state \in exports' \union Restoring'
  <2>1. PastOK(state)
    BY <1>3 DEF StatesOK
  <2> QED BY <1>b, <2>1, PastStands
<1>4. ASSUME UNCHANGED <<objects, snapshots, head, exports>>, pending' = pending \/ pending' = None
      PROVE  StatesOK'
  <2>1. \A o \in DOMAIN objects' : EnvelopeOK(o)'
    BY <1>2, <1>4
  <2>2. \A state \in exports' \union Restoring' : PastOK(state)'
    BY <1>3, <1>4 DEF Restoring
  <2> QED BY <1>4, <2>1, <2>2 DEF StatesOK, HashOf
<1>5. ASSUME gc_blobs, UNCHANGED <<snapshots, head, exports, pending>>
      PROVE  StatesOK'
  <2>1. \A o \in DOMAIN objects' : EnvelopeOK(o)'
    BY <1>1, <1>5, CollectorKeeps
  <2>2. \A state \in exports' \union Restoring' : PastOK(state)'
    BY <1>3, <1>5 DEF Restoring
  <2>3. /\ \A s \in DOMAIN snapshots : snapshots[s].blob_hash \in DOMAIN objects'
        /\ head # None => head \in DOMAIN objects'
    BY <1>5, CollectorKeeps
  <2> QED BY <1>5, <2>1, <2>2, <2>3 DEF StatesOK, HashOf
<1>6. CASE collect
  BY <1>5, <1>6 DEF collect, ForgetGoes, points
<1>7. CASE run_gc
  BY <1>5, <1>7 DEF run_gc, points, tasks
<1>8. CASE Recreate
  <2>1. /\ DOMAIN objects' = {} /\ DOMAIN snapshots' = {} /\ head' = None
        /\ exports' = exports /\ pending' = None
    BY <1>8 DEF Recreate
  <2>2. \A state \in exports' \union Restoring' : PastOK(state)'
    BY <1>3, <2>1 DEF Restoring
  <2> QED BY <2>1, <2>2 DEF StatesOK
<1>9. ASSUME NEW incremental \in BOOLEAN, create(incremental) PROVE StatesOK'
  <2>1. PICK envelope \in Envelopes(capture, incremental) :
          /\ objects' = Bind(objects, envelope,
                             IF envelope \in DOMAIN objects THEN objects[envelope] + 1 ELSE 1)
          /\ snapshots' = insert_brain_snapshot(envelope)
          /\ head' = envelope
    BY <1>9 DEF create
  <2>2. UNCHANGED <<exports, pending, born>> /\ validate(capture)
    BY <1>9 DEF create, tasks
  <2>3. DOMAIN objects' = DOMAIN objects \union {envelope}
    BY <2>1, BindFacts
  <2>4. EnvelopeOK(envelope)' /\ HashOf(envelope) = capture
    BY <2>2, <2>3, EnvelopeCreated
  <2>5. \A o \in DOMAIN objects' : EnvelopeOK(o)'
    <3> TAKE o \in DOMAIN objects'
    <3>1. CASE o \in DOMAIN objects
      <4>1. EnvelopeOK(o) /\ \A n \in 1..Len(o) : SubSeq(o, 1, n) \in DOMAIN objects'
        BY <2>3, <3>1 DEF StatesOK, EnvelopeOK, load
      <4> QED BY <1>b, <4>1, EnvelopeStands
    <3> QED BY <2>3, <2>4, <3>1
  <2>6. \A s \in DOMAIN snapshots' :
          /\ snapshots'[s].blob_hash \in DOMAIN objects'
          /\ HashOf(snapshots'[s].blob_hash) = snapshots'[s].taken
    <3> PICK point : point = [blob_hash |-> envelope, taken |-> capture]
      OBVIOUS
    <3>1. snapshots' = Bind(snapshots, made + 1, point)
      BY <2>1 DEF insert_brain_snapshot
    <3>2. /\ DOMAIN snapshots' = DOMAIN snapshots \union {made + 1}
          /\ snapshots'[made + 1] = point
          /\ \A s \in DOMAIN snapshots : s # made + 1 => snapshots'[s] = snapshots[s]
      BY <3>1 DEF Bind
    <3>3. point.blob_hash = envelope /\ point.taken = capture
      OBVIOUS
    <3> QED BY <2>3, <2>4, <3>2, <3>3 DEF StatesOK
  <2>7. \A state \in exports' \union Restoring' : PastOK(state)'
    BY <1>3, <2>2 DEF Restoring
  <2> QED BY <2>1, <2>3, <2>5, <2>6, <2>7 DEF StatesOK, HashOf
<1>10. ASSUME NEW s \in DOMAIN snapshots, delete(s) PROVE StatesOK'
  <2>1. /\ objects' = Released(objects, snapshots[s].blob_hash)
        /\ snapshots' = [r \in DOMAIN snapshots \ {s} |-> snapshots[r]]
        /\ UNCHANGED <<exports, pending>>
    <3>1. {r \in DOMAIN snapshots : r # s} = DOMAIN snapshots \ {s}
      OBVIOUS
    <3> QED BY <1>10, <3>1 DEF delete, brain_snapshot, RestrictDomain, Restrict, tasks
  <2>2. head' = head \/ head' = None \/ \E r \in DOMAIN snapshots' : head' = snapshots'[r].blob_hash
    BY <1>10 DEF delete
  <2>3. DOMAIN objects' = DOMAIN objects
    BY <2>1 DEF Released
  <2>4. \A r \in DOMAIN snapshots' : r \in DOMAIN snapshots /\ snapshots'[r] = snapshots[r]
    BY <2>1
  <2>5. \A state \in exports' \union Restoring' : PastOK(state)'
    BY <1>3, <2>1 DEF Restoring
  <2>6. \A o \in DOMAIN objects' : EnvelopeOK(o)'
    BY <1>2, <2>3
  <2>7. \A r \in DOMAIN snapshots' :
          /\ snapshots'[r].blob_hash \in DOMAIN objects'
          /\ HashOf(snapshots'[r].blob_hash) = snapshots'[r].taken
    BY <2>3, <2>4 DEF StatesOK
  <2>8. head' # None => head' \in DOMAIN objects'
    BY <2>2, <2>3, <2>7 DEF StatesOK
  <2> QED BY <2>5, <2>6, <2>7, <2>8 DEF StatesOK, HashOf
<1>11. ASSUME NEW s \in DOMAIN snapshots, export(s) \/ load_payload(s) PROVE StatesOK'
  <2> PICK o : o = snapshots[s].blob_hash
    OBVIOUS
  <2>1. o \in DOMAIN objects /\ EnvelopeOK(o) /\ load(o) /\ Len(o) \in Nat /\ Len(o) >= 1
    BY LenProperties DEF StatesOK, EnvelopeOK
  <2>2. PastOK(HashOf(o))
    <3>1. Len(o) \in 1..Len(o)
      BY <2>1
    <3> QED BY <2>1, <3>1 DEF EnvelopeOK, load, HashOf, PastOK
  <2>3. UNCHANGED <<objects, snapshots, head>>
    BY <1>11 DEF export, load_payload, blobs, points
  <2>4. \A state \in exports' \union Restoring' :
          state \in exports \union Restoring \/ state = HashOf(o)
    <3>1. CASE export(s)
      BY <3>1 DEF export, brain_snapshot, Restoring, tasks
    <3>2. CASE load_payload(s)
      <4> PICK state : state = HashOf(o)
        OBVIOUS
      <4>1. exports' = exports /\ pending' = [state |-> state, snapshot |-> s]
        BY <3>2 DEF load_payload, brain_snapshot, points
      <4>2. pending'.state = state
        BY <4>1
      <4> QED BY <4>1, <4>2 DEF Restoring
    <3> QED BY <1>11, <3>1, <3>2
  <2>5. \A state \in exports' \union Restoring' : PastOK(state)'
    BY <1>3, <2>2, <2>4
  <2>6. \A p \in DOMAIN objects' : EnvelopeOK(p)'
    BY <1>2, <2>3
  <2> QED BY <2>3, <2>5, <2>6 DEF StatesOK, HashOf
<1>12. ASSUME NEW state \in exports, import(state) PROVE StatesOK'
  <2>1. UNCHANGED <<objects, snapshots, head, exports>> /\ pending'.state = state
    BY <1>12 DEF import, blobs, points
  <2>2. \A past \in exports' \union Restoring' : past \in exports \union Restoring
    BY <2>1 DEF Restoring
  <2>3. \A past \in exports' \union Restoring' : PastOK(past)'
    BY <1>3, <2>2
  <2>4. \A o \in DOMAIN objects' : EnvelopeOK(o)'
    BY <1>2, <2>1
  <2> QED BY <2>1, <2>3, <2>4 DEF StatesOK, HashOf
<1> QED BY <1>4, <1>6, <1>7, <1>8, <1>9, <1>10, <1>11, <1>12, PointsStay

-----------------------------------------------------------------------------
(* The tables. *)

LEMMA TablesAs ==
  ASSUME tables = [t \in TABLES |-> tables[t]], NEW t \in TABLES, NEW rows,
         tables' = [tables EXCEPT ![t] = rows]
  PROVE  /\ tables' = [u \in TABLES |-> tables'[u]]
         /\ tables'[t] = rows
         /\ \A u \in TABLES : u # t => tables'[u] = tables[u]
OBVIOUS

LEMMA Replaced ==
  ASSUME NEW rows, Keyed(rows), NEW old \in rows, NEW new, new.id = old.id
  PROVE  /\ Keyed(Without(rows, old.id) \union {new})
         /\ ids(Without(rows, old.id) \union {new}) = ids(rows)
<1>1. \A r \in Without(rows, old.id) : r \in rows /\ r.id # new.id
  BY DEF Without
<1>2. Keyed(Without(rows, old.id) \union {new})
  BY <1>1 DEF Keyed
<1>3. \A r \in rows : r \in Without(rows, old.id) \/ r.id = new.id
  BY DEF Without
<1> QED BY <1>1, <1>2, <1>3 DEF ids

\* A restored row has its handle and its content, and every restriction of the
\* live row; of a memory that is gone and known here it is a hidden row.
LEMMA MergedFacts ==
  ASSUME TablesOK, NEW row \in Rows
  PROVE  /\ Merged(row) \in Rows
         /\ Merged(row).id = row.id /\ Merged(row).body = row.body
         /\ Merged(row).session_blob = row.session_blob
         /\ \A live \in tables.memories : live.id = row.id =>
              /\ live.limits \subseteq Merged(row).limits
              /\ live.tombstoned => Merged(row).tombstoned
         /\ Live(row.id) = {} /\ ledger[row.id] > 0 => Merged(row).tombstoned
<1> DEFINE hidden == row.tombstoned \/ Removed(row.id)
<1>0. /\ row.id \in 1..MaxMemories /\ row.body \in 1..MaxMemories
      /\ row.provenance \in Provenance /\ row.limits \in SUBSET Limit
      /\ row.tombstoned \in BOOLEAN /\ row.session_blob \in Blob \union {None}
  BY DEF Rows
<1>1. CASE Live(row.id) = {}
  <2>1. Merged(row) = [row EXCEPT !.tombstoned = hidden]
    BY <1>1 DEF Merged
  <2>2. hidden \in BOOLEAN
    BY <1>0 DEF Removed
  <2>3. ledger[row.id] > 0 => hidden
    BY DEF Removed
  <2> HIDE DEF hidden
  <2>4. /\ Merged(row) \in Rows
        /\ Merged(row).id = row.id /\ Merged(row).body = row.body
        /\ Merged(row).session_blob = row.session_blob
        /\ Merged(row).tombstoned = hidden
    BY <2>1, <2>2 DEF Rows
  <2>5. \A live \in tables.memories : live.id # row.id
    BY <1>1 DEF Live
  <2> QED BY <2>3, <2>4, <2>5
<1>2. CASE Live(row.id) # {}
  <2>1. PICK live \in tables.memories : live.id = row.id
    BY <1>2 DEF Live
  <2>2. Row(tables.memories, row.id) = live
    BY <2>1, RowIs DEF TablesOK
  <2>3. live \in Rows /\ live.limits \in SUBSET Limit /\ live.tombstoned \in BOOLEAN
    BY <2>1 DEF TablesOK, Numbered, NumberedTo, Rows
  <2>4. Merged(row) = [row EXCEPT !.limits = row.limits \union live.limits,
                                  !.tombstoned = row.tombstoned \/ live.tombstoned]
    BY <1>2, <2>2 DEF Merged
  <2>5. /\ Merged(row) \in Rows
        /\ Merged(row).id = row.id /\ Merged(row).body = row.body
        /\ Merged(row).session_blob = row.session_blob
        /\ Merged(row).limits = row.limits \union live.limits
        /\ Merged(row).tombstoned = (row.tombstoned \/ live.tombstoned)
    BY ZenonT(60), <1>0, <2>3, <2>4 DEF Rows
  <2>6. \A l \in tables.memories : l.id = row.id => l = live
    BY <2>1 DEF TablesOK, Keyed
  <2> QED BY <1>2, <2>5, <2>6
<1> QED BY <1>1, <1>2

\* The row whose link the step has set.
JustLinked(r) ==
  set_memory_session_blob /\ r.id = writing.id /\ r.session_blob = BlobOf[writing.body]

\* Rows with a link are the same rows.
LEMMA LinkFacts ==
  ASSUME NEW rows, NEW n \in Nat, NumberedTo(rows, n), Keyed(rows),
         NEW id, NEW blob \in Blob \union {None}
  PROVE  /\ NumberedTo(LinkedTo(rows, id, blob), n) /\ Keyed(LinkedTo(rows, id, blob))
         /\ ids(LinkedTo(rows, id, blob)) = ids(rows)
         /\ \A r \in LinkedTo(rows, id, blob) : \E s \in rows :
              /\ r.id = s.id /\ r.body = s.body /\ r.tombstoned = s.tombstoned
              /\ r.session_blob = s.session_blob \/ (r.id = id /\ r.session_blob = blob)
<1> DEFINE Link(r) == IF r.id = id THEN [r EXCEPT !.session_blob = blob] ELSE r
<1>1. ASSUME NEW r \in rows
      PROVE  /\ Link(r) \in Rows /\ Link(r).id = r.id /\ Link(r).body = r.body
             /\ Link(r).tombstoned = r.tombstoned
             /\ \/ Link(r).session_blob = r.session_blob
                \/ r.id = id /\ Link(r).session_blob = blob
  <2>1. r \in Rows
    BY DEF NumberedTo
  <2> QED BY <2>1 DEF Rows
<1>2. LinkedTo(rows, id, blob) = {Link(r) : r \in rows}
  BY DEF LinkedTo
<1> HIDE DEF Link
<1>3. Keyed(LinkedTo(rows, id, blob))
  <2>1. \A r, s \in rows : Link(r).id = Link(s).id => Link(r) = Link(s)
    BY <1>1 DEF Keyed
  <2> QED BY <1>2, <2>1 DEF Keyed
<1>4. NumberedTo(LinkedTo(rows, id, blob), n)
  BY <1>1, <1>2 DEF NumberedTo
<1>5. ids(LinkedTo(rows, id, blob)) = ids(rows)
  BY <1>1, <1>2 DEF ids
<1> QED BY <1>1, <1>2, <1>3, <1>4, <1>5

\* The rows of memories a step leaves: the same memories, hidden if they were,
\* each with the transcript it had or with the one it is linked to; or a step
\* that brings rows in.
LEMMA RowsCarry ==
  ASSUME TablesOK, TasksOK, CountersOK, [Next]_vars
  PROVE  \/ insert_memory \/ restore \/ Recreate \/ delete_memory
         \/ /\ tables' = [t \in TABLES |-> tables'[t]]
            /\ \A r \in tables'.memories : \E s \in tables.memories :
                 /\ r.id = s.id /\ r.body = s.body /\ (s.tombstoned => r.tombstoned)
                 /\ r.session_blob = s.session_blob \/ JustLinked(r)
            /\ Numbered(tables'.memories) /\ Keyed(tables'.memories)
            /\ ids(tables'.memories) = ids(tables.memories)
<1>s. /\ tables = [t \in TABLES |-> tables[t]] /\ "memories" \in TABLES
      /\ Numbered(tables.memories) /\ Keyed(tables.memories)
  BY DEF TablesOK, TABLES
<1> DEFINE Carried ==
      /\ tables' = [t \in TABLES |-> tables'[t]]
      /\ \A r \in tables'.memories : \E s \in tables.memories :
           /\ r.id = s.id /\ r.body = s.body /\ (s.tombstoned => r.tombstoned)
           /\ r.session_blob = s.session_blob \/ JustLinked(r)
      /\ Numbered(tables'.memories) /\ Keyed(tables'.memories)
      /\ ids(tables'.memories) = ids(tables.memories)
<1>1. ASSUME tables' = [t \in TABLES |-> tables'[t]], tables'.memories = tables.memories
      PROVE  Carried
  BY <1>1, <1>s
<1>2. ASSUME UNCHANGED tables PROVE Carried
  BY <1>1, <1>2, <1>s
<1>3. ASSUME NEW old \in tables.memories, NEW new \in Rows, new.id = old.id, new.body = old.body,
             old.tombstoned => new.tombstoned,
             new.session_blob = old.session_blob,
             tables' = [tables EXCEPT !.memories = Without(@, old.id) \union {new}]
      PROVE  Carried
  <2>1. /\ tables' = [t \in TABLES |-> tables'[t]]
        /\ tables'.memories = Without(tables.memories, old.id) \union {new}
    BY <1>3, <1>s, TablesAs
  <2>2. Keyed(tables'.memories) /\ ids(tables'.memories) = ids(tables.memories)
    BY <1>3, <1>s, <2>1, Replaced
  <2>3. Numbered(tables'.memories)
    BY <1>3, <1>s, <2>1 DEF Numbered, NumberedTo, Without
  <2>4. \A r \in tables'.memories : r \in tables.memories \/ r = new
    BY <2>1 DEF Without
  <2> QED BY <1>3, <2>1, <2>2, <2>3, <2>4
<1>4. CASE apply_memory_governance
  <2>1. CASE writing.id \in ids(tables.memories)
    <3>1. PICK old \in tables.memories : old.id = writing.id
      BY <2>1 DEF ids
    <3>2. Row(tables.memories, writing.id) = old /\ old \in Rows
      BY <1>s, <3>1, RowIs DEF Numbered, NumberedTo
    <3>3. PICK provenance \in Provenance, limits \in SUBSET Limit :
            tables' = [tables EXCEPT !.memories = Without(@, writing.id) \union
                         {[Row(tables.memories, writing.id) EXCEPT
                             !.provenance = provenance, !.limits = limits]}]
      BY <1>4, <2>1 DEF apply_memory_governance
    <3> PICK new : new = [old EXCEPT !.provenance = provenance, !.limits = limits]
      OBVIOUS
    <3>4. /\ new \in Rows /\ new.id = old.id /\ new.body = old.body
          /\ new.tombstoned = old.tombstoned /\ new.session_blob = old.session_blob
      BY <3>2 DEF Rows
    <3>5. tables' = [tables EXCEPT !.memories = Without(@, old.id) \union {new}]
      BY <3>1, <3>2, <3>3
    <3> QED BY <1>3, <3>4, <3>5
  <2> QED BY <1>2, <1>4, <2>1 DEF apply_memory_governance
<1>5. CASE set_memory_session_blob
  <2> PICK blob : blob = BlobOf[writing.body]
    OBVIOUS
  <2>1. /\ tables' = [tables EXCEPT !.memories = LinkedTo(@, writing.id, blob)]
        /\ writing # None
    BY <1>5 DEF set_memory_session_blob
  <2>2. blob \in Blob \union {None} /\ born \in Nat /\ born' = born
    BY <1>5, <2>1, CheckpointAssumption DEF TasksOK, CountersOK, set_memory_session_blob
  <2>3. /\ tables' = [t \in TABLES |-> tables'[t]]
        /\ tables'.memories = LinkedTo(tables.memories, writing.id, blob)
    BY <1>s, <2>1, TablesAs
  <2>4. /\ Numbered(tables'.memories) /\ Keyed(tables'.memories)
        /\ ids(tables'.memories) = ids(tables.memories)
    BY <1>s, <2>2, <2>3, LinkFacts DEF Numbered
  <2>5. \A r \in tables'.memories : \E s \in tables.memories :
          /\ r.id = s.id /\ r.body = s.body /\ (s.tombstoned => r.tombstoned)
          /\ r.session_blob = s.session_blob \/ JustLinked(r)
    BY <1>5, <1>s, <2>2, <2>3, LinkFacts DEF Numbered, JustLinked
  <2> QED BY <2>3, <2>4, <2>5
<1>6. ASSUME NEW m \in tables.memories, NEW value, NEW s, append_assertion(m, value, s)
      PROVE  Carried
  <2>1. PICK rows : tables' = [tables EXCEPT !.events = rows]
    BY <1>6 DEF append_assertion
  <2>2. "events" \in TABLES /\ "memories" # "events"
    BY DEF TABLES
  <2> QED BY <1>1, <1>s, <2>1, <2>2, TablesAs
<1>7. ASSUME NEW id, update_memory_influence_policy(id) PROVE Carried
  <2>1. PICK rows : tables' = [tables EXCEPT !.policies = rows]
    BY <1>7 DEF update_memory_influence_policy
  <2>2. "policies" \in TABLES /\ "memories" # "policies"
    BY DEF TABLES
  <2> QED BY <1>1, <1>s, <2>1, <2>2, TablesAs
<1>8. CASE purge_memory
  <2>1. PICK rows : tables' = [tables EXCEPT !.policies = rows]
    BY <1>8 DEF purge_memory
  <2>2. "policies" \in TABLES /\ "memories" # "policies"
    BY DEF TABLES
  <2> QED BY <1>1, <1>s, <2>1, <2>2, TablesAs
<1>9. ASSUME NEW m \in tables.memories, governed_delete_memory(m) PROVE Carried
  <2> PICK new : new = [m EXCEPT !.tombstoned = TRUE]
    OBVIOUS
  <2>1. tables' = [tables EXCEPT !.memories = Without(@, m.id) \union {new}]
    BY <1>9 DEF governed_delete_memory
  <2>2. m \in Rows
    BY <1>s DEF Numbered, NumberedTo
  <2>3. /\ new \in Rows /\ new.id = m.id /\ new.body = m.body /\ new.tombstoned
        /\ new.session_blob = m.session_blob
    BY <2>2 DEF Rows
  <2> QED BY <1>3, <2>1, <2>3
<1>10. CASE UNCHANGED vars
  BY <1>2, <1>10 DEF vars, store
<1>11. CASE read_chain \/ answer \/ \E e \in IF query = None THEN {} ELSE query.todo : read_evidence(e)
  BY <1>2, <1>11 DEF read_chain, answer, read_evidence, store
<1>12. CASE \/ append_forget \/ decref_memory_session_blob \/ collect
            \/ run_gc \/ Crash \/ store_blob
  BY <1>2, <1>12 DEF append_forget, decref_memory_session_blob, collect, run_gc, Crash,
                     store_blob, store
<1>13. CASE \E incremental \in BOOLEAN : create(incremental)
  BY <1>2, <1>13 DEF create, store
<1>14. ASSUME NEW stage, delete(stage) \/ export(stage) \/ load_payload(stage) PROVE Carried
  BY <1>2, <1>14 DEF delete, export, load_payload, store
<1>15. CASE \E state \in exports : import(state)
  BY <1>2, <1>15 DEF import, store
<1>16. CASE \E m \in tables.memories, value \in BOOLEAN, s \in tables.events \union {None} :
              append_assertion(m, value, s)
  BY <1>6, <1>16
<1>17. CASE \E m \in tables.memories : governed_delete_memory(m)
  BY <1>9, <1>17
<1>18. CASE \E id \in 1..MaxMemories : update_memory_influence_policy(id)
  BY <1>7, <1>18
<1>19. CASE \/ \E s \in DOMAIN snapshots : delete(s)
            \/ \E s \in DOMAIN snapshots : export(s)
            \/ \E s \in DOMAIN snapshots : load_payload(s)
  BY <1>14, <1>19
<1>20. CASE insert_memory \/ restore \/ Recreate \/ delete_memory
  BY <1>20
<1> QED
  BY <1>4, <1>5, <1>8, <1>10, <1>11, <1>12, <1>13, <1>15, <1>16, <1>17, <1>18, <1>19,
     <1>20, Steps

\* The policies and the purges in progress.
LEMMA PoliciesStay ==
  ASSUME TablesOK, TasksOK, [Next]_vars
  PROVE  \/ insert_memory \/ restore \/ Recreate \/ delete_memory \/ purge_memory
         \/ \E id \in 1..MaxMemories : update_memory_influence_policy(id)
         \/ /\ tables'.policies = tables.policies
            /\ \/ orphans' = orphans
               \/ \E id : \E blob \in Blob \union {None} : orphans' = LinkedTo(orphans, id, blob)
<1>s. /\ tables = [t \in TABLES |-> tables[t]]
      /\ {"memories", "policies", "events"} \subseteq TABLES
  BY DEF TablesOK, TABLES
<1>1. ASSUME NEW rows, tables' = [tables EXCEPT !.memories = rows]
      PROVE  tables'.policies = tables.policies
  BY <1>1, <1>s, TablesAs
<1>2. ASSUME NEW rows, tables' = [tables EXCEPT !.events = rows]
      PROVE  tables'.policies = tables.policies
  BY <1>2, <1>s, TablesAs
<1>3. CASE apply_memory_governance
  BY <1>1, <1>3 DEF apply_memory_governance
<1>4. CASE set_memory_session_blob
  <2>1. \E rows : tables' = [tables EXCEPT !.memories = rows]
    BY <1>4 DEF set_memory_session_blob
  <2>2. BlobOf[writing.body] \in Blob \union {None}
    BY <1>4, CheckpointAssumption DEF set_memory_session_blob, TasksOK
  <2>3. orphans' = LinkedTo(orphans, writing.id, BlobOf[writing.body])
    BY <1>4 DEF set_memory_session_blob
  <2> QED BY <1>1, <2>1, <2>2, <2>3
<1>5. CASE \E m \in tables.memories, value \in BOOLEAN, s \in tables.events \union {None} :
              append_assertion(m, value, s)
  <2>1. \E rows : tables' = [tables EXCEPT !.events = rows]
    BY <1>5 DEF append_assertion
  <2> QED BY <1>2, <1>5, <2>1 DEF append_assertion
<1>6. CASE \E m \in tables.memories : governed_delete_memory(m)
  <2>1. \E rows : tables' = [tables EXCEPT !.memories = rows]
    BY <1>6 DEF governed_delete_memory
  <2> QED BY <1>1, <1>6, <2>1 DEF governed_delete_memory
<1>7. CASE UNCHANGED vars
  BY SMTT(30), <1>7 DEF vars, store
<1>8. CASE read_chain \/ answer \/ \E e \in IF query = None THEN {} ELSE query.todo : read_evidence(e)
  BY <1>8 DEF read_chain, answer, read_evidence, store
<1>9. CASE \/ append_forget \/ decref_memory_session_blob \/ collect
           \/ run_gc \/ Crash \/ store_blob
  BY <1>9 DEF append_forget, decref_memory_session_blob, collect, run_gc, Crash, store_blob,
              store
<1>10. CASE \E incremental \in BOOLEAN : create(incremental)
  BY <1>10 DEF create, store
<1>11. CASE \/ \E s \in DOMAIN snapshots : delete(s)
            \/ \E s \in DOMAIN snapshots : export(s)
            \/ \E s \in DOMAIN snapshots : load_payload(s)
  BY <1>11 DEF delete, export, load_payload, store
<1>12. CASE \E state \in exports : import(state)
  BY <1>12 DEF import, store
<1>13. CASE \/ insert_memory \/ restore \/ Recreate \/ delete_memory \/ purge_memory
            \/ \E id \in 1..MaxMemories : update_memory_influence_policy(id)
  BY <1>13
<1> QED
  BY <1>3, <1>4, <1>5, <1>6, <1>7, <1>8, <1>9, <1>10, <1>11, <1>12, <1>13, Steps

\* A committed restore: the rows of the past, each under the restrictions of now,
\* away from the purges in progress.
LEMMA Restored ==
  ASSUME TablesOK, StatesOK, CountersOK, pending # None, Restorable, restore
  PROVE  LET past == pending.state.tables
         IN  /\ PastOK(pending.state)
             /\ tables' = [t \in TABLES |-> tables'[t]]
             /\ tables'.memories = {Merged(row) : row \in past.memories}
             /\ tables'.events = past.events \union tables.events
             /\ tables'.policies =
                  {p \in past.policies : p.id \notin ids(LivePolicies)} \union LivePolicies
                  \union {p \in tables.policies : p.id \notin Handles}
             /\ ids(tables'.memories) = ids(past.memories)
             /\ ids(past.memories) \intersect ids(orphans) = {}
             /\ orphans' = orphans /\ born' = born
             /\ past.memories \subseteq Rows
<1> DEFINE past == pending.state.tables
           merged == {Merged(row) : row \in past.memories}
           kept == {p \in past.policies : p.id \notin ids(LivePolicies)} \union LivePolicies
           waiting == {p \in tables.policies : p.id \notin Handles}
<1>1. PastOK(pending.state)
  BY DEF StatesOK, Restoring
<1>2. past.memories \subseteq Rows
  BY <1>1 DEF PastOK, StateOK, Numbered, NumberedTo
<1>3. /\ tables' = [Replacement EXCEPT !.policies = @ \union waiting]
      /\ orphans' = orphans /\ born' = born
  BY DEF restore, history
<1>4. Replacement = [memories |-> merged, policies |-> kept,
                     events |-> past.events \union tables.events]
  BY DEF Replacement
<1>5. tables' = [memories |-> merged, policies |-> kept \union waiting,
                 events |-> past.events \union tables.events]
  BY <1>3, <1>4
<1>6. \A row \in past.memories : Merged(row).id = row.id
  BY <1>2, MergedFacts
<1>7. ids(merged) = ids(past.memories)
  <2> HIDE DEF past
  <2> QED BY <1>6 DEF ids
<1>8. ids(merged) \intersect ids(orphans) = {}
  BY <1>4 DEF Restorable
<1> HIDE DEF merged, kept, waiting
<1>9. tables' = [t \in TABLES |-> tables'[t]]
  BY <1>5 DEF TABLES
<1>10. /\ tables'.memories = merged /\ tables'.policies = kept \union waiting
       /\ tables'.events = past.events \union tables.events
  BY <1>5
<1> QED BY <1>1, <1>2, <1>3, <1>7, <1>8, <1>9, <1>10 DEF merged, kept, waiting

\* What insert_memory adds.
LEMMA InsertFacts ==
  ASSUME TablesOK, CountersOK, insert_memory
  PROVE  \E row \in Rows :
           /\ row.id = NextHandle /\ row.body = born + 1
           /\ row.session_blob = None /\ row.tombstoned = FALSE
           /\ tables' = [t \in TABLES |-> tables'[t]]
           /\ tables'.memories = tables.memories \union {row}
           /\ tables'.policies = tables.policies /\ tables'.events = tables.events
           /\ orphans' = orphans /\ born' = born + 1 /\ born + 1 <= MaxMemories
<1> PICK handle : handle = NextHandle
    OBVIOUS
<1> DEFINE row == [id |-> handle, body |-> born + 1, provenance |-> DefaultProvenance,
                   limits |-> {}, tombstoned |-> FALSE, session_blob |-> None]
<1>1. born < MaxMemories /\ born' = born + 1 /\ orphans' = orphans
      /\ tables' = [tables EXCEPT !.memories = @ \union {row}]
  BY DEF insert_memory
<1>2. born \in Nat /\ MaxMemories \in Nat /\ handle \in 1..(born + 1)
  BY NextHandleIsFresh, CheckpointAssumption DEF CountersOK
<1>3. handle \in 1..MaxMemories /\ born + 1 \in 1..MaxMemories /\ born + 1 <= MaxMemories
  BY <1>1, <1>2
<1>4. row \in Rows
  BY <1>3, CheckpointAssumption DEF Rows
<1>5. /\ row.id = handle /\ row.body = born + 1 /\ row.session_blob = None
      /\ row.tombstoned = FALSE
  OBVIOUS
<1> HIDE DEF row
<1>6. /\ tables = [t \in TABLES |-> tables[t]]
      /\ "memories" \in TABLES /\ "policies" \in TABLES /\ "events" \in TABLES
  BY DEF TablesOK, TABLES
<1>7. /\ tables' = [t \in TABLES |-> tables'[t]]
      /\ tables'.memories = tables.memories \union {row}
      /\ tables'.policies = tables.policies /\ tables'.events = tables.events
  BY <1>1, <1>6, TablesAs
<1> QED BY <1>1, <1>3, <1>4, <1>5, <1>7

LEMMA NumberedMore ==
  ASSUME NEW rows, NEW m \in Nat, NEW n \in Nat, m <= n, NumberedTo(rows, m)
  PROVE  NumberedTo(rows, n)
<1>1. \A r \in rows : r.id \in Nat /\ r.body \in Nat
  BY CheckpointAssumption DEF NumberedTo, Rows
<1> QED BY <1>1 DEF NumberedTo

LEMMA TablesStep ==
  ASSUME TablesOK, CountersOK, TasksOK, StatesOK, [Next]_vars
  PROVE  TablesOK'
<1>b. born \in Nat /\ born' \in Nat /\ born <= born' /\ MaxMemories \in Nat
  BY BornGrows, CheckpointAssumption DEF CountersOK
<1>s. /\ tables = [t \in TABLES |-> tables[t]]
      /\ {"memories", "policies", "events"} \subseteq TABLES
  BY DEF TablesOK, TABLES
<1>m. NumberedTo(tables.memories, born') /\ NumberedTo(orphans, born')
  BY <1>b, NumberedMore DEF TablesOK, Numbered
\* What remains to be shown of a step.
<1>t. ASSUME tables' = [t \in TABLES |-> tables'[t]],
             NumberedTo(tables'.memories, born'), NumberedTo(orphans', born'),
             Keyed(tables'.memories), Keyed(orphans'),
             ids(tables'.memories) \intersect ids(orphans') = {},
             PoliciesOK(tables'.policies),
             ids(tables'.policies) \subseteq ids(tables'.memories) \union ids(orphans')
      PROVE  TablesOK'
  BY <1>t DEF TablesOK, Numbered, NumberedTo, Keyed, PoliciesOK, ids
<1>1. CASE insert_memory
  <2>1. PICK row \in Rows :
           /\ row.id = NextHandle /\ row.body = born + 1
           /\ tables' = [t \in TABLES |-> tables'[t]]
           /\ tables'.memories = tables.memories \union {row}
           /\ tables'.policies = tables.policies
           /\ orphans' = orphans /\ born' = born + 1
    BY <1>1, InsertFacts
  <2>2. /\ NextHandle \in 1..(born + 1)
        /\ NextHandle \notin ids(tables.memories) \union ids(orphans)
    BY NextHandleIsFresh
  <2>3. row.id <= born' /\ row.body <= born'
    BY <1>b, <2>1, <2>2
  <2>4. NumberedTo(tables'.memories, born')
    BY <1>m, <2>1, <2>3 DEF NumberedTo
  <2>5. \A r \in tables.memories \union orphans : r.id # row.id
    BY <2>1, <2>2 DEF ids
  <2>6. Keyed(tables'.memories)
    BY <2>1, <2>5 DEF TablesOK, Keyed
  <2>7. ids(tables'.memories) = ids(tables.memories) \union {row.id}
    BY <2>1 DEF ids
  <2>8. row.id \notin ids(orphans)
    BY <2>1, <2>2
  <2>9. /\ Keyed(orphans') /\ NumberedTo(orphans', born')
        /\ ids(tables'.memories) \intersect ids(orphans') = {}
        /\ PoliciesOK(tables'.policies)
        /\ ids(tables'.policies) \subseteq ids(tables'.memories) \union ids(orphans')
    BY <1>m, <2>1, <2>7, <2>8 DEF TablesOK
  <2> QED BY <1>t, <2>1, <2>4, <2>6, <2>9
<1>2. CASE restore
  <2>1. CASE pending # None /\ Restorable
    <3> DEFINE past == pending.state.tables
               kept == {p \in past.policies : p.id \notin ids(LivePolicies)}
               waiting == {p \in tables.policies : p.id \notin Handles}
    <3>1. /\ PastOK(pending.state)
          /\ tables' = [t \in TABLES |-> tables'[t]]
          /\ tables'.memories = {Merged(row) : row \in past.memories}
          /\ tables'.policies = kept \union LivePolicies \union waiting
          /\ ids(tables'.memories) = ids(past.memories)
          /\ ids(past.memories) \intersect ids(orphans) = {}
          /\ orphans' = orphans /\ born' = born
          /\ past.memories \subseteq Rows
      BY <1>2, <2>1, Restored
    <3>2. /\ NumberedTo(past.memories, born) /\ Keyed(past.memories) /\ PoliciesOK(past.policies)
          /\ ids(past.policies) \subseteq ids(past.memories)
      BY <3>1 DEF PastOK, StateOK, Numbered, validate
    <3> HIDE DEF past
    <3>3. ASSUME NEW row \in past.memories
          PROVE  /\ Merged(row) \in Rows /\ Merged(row).id = row.id
                 /\ Merged(row).body = row.body
      BY <3>1, MergedFacts
    <3>4. NumberedTo(tables'.memories, born')
      BY <3>1, <3>2, <3>3 DEF NumberedTo
    <3>5. Keyed(tables'.memories)
      <4>1. \A r, s \in past.memories : Merged(r).id = Merged(s).id => Merged(r) = Merged(s)
        BY <3>2, <3>3 DEF Keyed
      <4> QED BY <3>1, <4>1 DEF Keyed
    <3>6. \A p \in waiting : p \in tables.policies /\ p.id \in ids(orphans)
      BY DEF TablesOK, Handles, ids
    <3>7. \A p \in LivePolicies :
            p \in tables.policies /\ p.id \in Handles /\ p.id \in ids(past.memories)
      BY DEF LivePolicies, past
    <3>8. \A p \in kept : /\ p \in past.policies /\ p.id \notin ids(LivePolicies)
                          /\ p.id \in ids(past.memories)
      BY <3>2 DEF ids
    <3>9. \A p \in LivePolicies : p.id \in ids(LivePolicies)
      BY DEF ids
    <3>10. \A p \in waiting : p.id \notin Handles
      OBVIOUS
    <3>11. \A id \in ids(orphans) : id \notin ids(past.memories)
      BY <3>1
    <3> HIDE DEF kept, waiting
    <3>12. PoliciesOK(tables'.policies)
      <4>1. \A p \in tables.policies : \A q \in tables.policies : p.id = q.id => p = q
        BY DEF TablesOK, PoliciesOK, Keyed
      <4>2. \A p \in past.policies : \A q \in past.policies : p.id = q.id => p = q
        BY <3>2 DEF PoliciesOK, Keyed
      <4>3. Keyed(tables'.policies)
        BY <3>1, <3>6, <3>7, <3>8, <3>9, <3>10, <3>11, <4>1, <4>2 DEF Keyed
      <4>4. \A p \in tables'.policies : p.version \in 1..MaxVersion
        BY <3>1, <3>2, <3>6, <3>7, <3>8 DEF PoliciesOK, TablesOK
      <4> QED BY <4>3, <4>4 DEF PoliciesOK
    <3>13. ids(tables'.policies) \subseteq ids(tables'.memories) \union ids(orphans')
      <4>1. \A p \in tables'.policies : p.id \in ids(past.memories) \union ids(orphans)
        BY <3>1, <3>6, <3>7, <3>8
      <4> QED BY <3>1, <4>1 DEF ids
    <3>14. Keyed(orphans') /\ NumberedTo(orphans', born')
      BY <1>m, <3>1 DEF TablesOK
    <3> QED BY <1>t, <3>1, <3>4, <3>5, <3>12, <3>13, <3>14
  <2>2. CASE ~(pending # None /\ Restorable)
    <3>1. tables' = tables /\ orphans' = orphans
      BY <1>2, <2>2 DEF restore
    <3> QED BY <1>t, <1>m, <3>1 DEF TablesOK
  <2> QED BY <2>1, <2>2
<1>3. CASE Recreate
  <2>1. tables' = [t \in TABLES |-> {}] /\ orphans' = {}
    BY <1>3 DEF Recreate
  <2>2. tables'.memories = {} /\ tables'.policies = {}
    BY <1>s, <2>1
  <2> QED BY <1>t, <2>1, <2>2 DEF NumberedTo, Keyed, PoliciesOK, ids
<1>4. CASE delete_memory
  <2> PICK found : found = {r \in tables.memories : r.id = forgetting.id}
    OBVIOUS
  <2>1. tables' = [tables EXCEPT !.memories = @ \ found] /\ orphans' = orphans \union found
    BY <1>4 DEF delete_memory
  <2>2. /\ tables' = [t \in TABLES |-> tables'[t]]
        /\ tables'.memories = tables.memories \ found
        /\ tables'.policies = tables.policies
    BY <1>s, <2>1, TablesAs
  <2>3. /\ Keyed(tables'.memories) /\ Keyed(orphans')
        /\ ids(tables'.memories) \intersect ids(orphans') = {}
        /\ ids(tables'.memories) \union ids(orphans') = ids(tables.memories) \union ids(orphans)
    <3>1. \A r \in tables.memories : \A s \in tables.memories : r.id = s.id => r = s
      BY DEF TablesOK, Keyed
    <3>2. \A r \in tables.memories : \A s \in orphans : r.id # s.id
      BY DEF TablesOK, ids
    <3>3. \A r \in found : r \in tables.memories
      OBVIOUS
    <3>4. Keyed(tables'.memories) /\ Keyed(orphans')
      BY SMTT(30), <2>1, <2>2, <3>1, <3>2, <3>3 DEF TablesOK, Keyed
    <3>5. ids(tables'.memories) \intersect ids(orphans') = {}
      BY <2>1, <2>2, <3>1, <3>2, <3>3 DEF ids
    <3>6. ids(tables'.memories) \union ids(orphans') = ids(tables.memories) \union ids(orphans)
      BY <2>1, <2>2, <3>3 DEF ids
    <3> QED BY <3>4, <3>5, <3>6
  <2>4. NumberedTo(tables'.memories, born') /\ NumberedTo(orphans', born')
    BY <1>m, <2>1, <2>2 DEF NumberedTo
  <2> QED BY <1>t, <2>2, <2>3, <2>4 DEF TablesOK
<1>5. CASE purge_memory
  <2>1. /\ tables' = [tables EXCEPT !.policies = Without(@, forgetting.id)]
        /\ orphans' = Without(orphans, forgetting.id)
    BY <1>5 DEF purge_memory
  <2>2. /\ tables' = [t \in TABLES |-> tables'[t]]
        /\ tables'.memories = tables.memories
        /\ tables'.policies = Without(tables.policies, forgetting.id)
    BY <1>s, <2>1, TablesAs
  <2>3. Keyed(orphans') /\ NumberedTo(orphans', born') /\ PoliciesOK(tables'.policies)
    BY <1>m, <2>1, <2>2 DEF TablesOK, Keyed, NumberedTo, PoliciesOK, Without
  <2>4. ids(tables'.memories) \intersect ids(orphans') = {}
    BY <2>1, <2>2 DEF TablesOK, ids, Without
  <2>5. ids(tables'.policies) \subseteq ids(tables'.memories) \union ids(orphans')
    <3>1. \A p \in tables'.policies : p \in tables.policies /\ p.id # forgetting.id
      BY <2>2 DEF Without
    <3>2. \A p \in tables.policies : p.id \in ids(tables.memories) \union ids(orphans)
      BY DEF TablesOK, ids
    <3>3. \A id \in ids(orphans) : id # forgetting.id => id \in ids(orphans')
      BY <2>1 DEF ids, Without
    <3>4. \A p \in tables'.policies : p.id \in ids(tables'.memories) \union ids(orphans')
      BY <2>2, <3>1, <3>2, <3>3
    <3> QED BY <3>4 DEF ids
  <2> QED BY <1>t, <1>m, <2>2, <2>3, <2>4, <2>5 DEF TablesOK
<1>6. ASSUME NEW id, update_memory_influence_policy(id) PROVE TablesOK'
  <2> PICK policy : policy = [id |-> id, version |-> Version(id) + 1]
    OBVIOUS
  <2>1. /\ tables' = [tables EXCEPT !.policies = Without(@, id) \union {policy}]
        /\ orphans' = orphans /\ id \in ids(tables.memories) \union ids(orphans)
        /\ Version(id) < MaxVersion
    BY <1>6 DEF update_memory_influence_policy
  <2>2. /\ tables' = [t \in TABLES |-> tables'[t]]
        /\ tables'.memories = tables.memories
        /\ tables'.policies = Without(tables.policies, id) \union {policy}
    BY <1>s, <2>1, TablesAs
  <2>3. policy.id = id /\ policy.version = Version(id) + 1
    OBVIOUS
  <2>4. Version(id) \in Nat
    <3>1. CASE id \in ids(tables.policies)
      <4>1. PICK p \in tables.policies : p.id = id
        BY <3>1 DEF ids
      <4>2. Row(tables.policies, id) = p
        BY <4>1, RowIs DEF TablesOK, PoliciesOK
      <4>3. p.version \in 1..MaxVersion
        BY <4>1 DEF TablesOK, PoliciesOK
      <4>4. \A v \in 1..MaxVersion : v \in Nat
        OBVIOUS
      <4> QED BY <3>1, <4>2, <4>3, <4>4 DEF Version
    <3>2. CASE id \notin ids(tables.policies)
      BY <3>2 DEF Version
    <3> QED BY <3>1, <3>2
  <2>5. policy.version \in 1..MaxVersion
    <3>1. MaxVersion \in Nat
      BY CheckpointAssumption
    <3> QED BY <2>1, <2>3, <2>4, <3>1
  <2>6. PoliciesOK(tables'.policies)
    BY <2>2, <2>3, <2>5, ZenonT(60) DEF TablesOK, PoliciesOK, Keyed, Without
  <2>7. ids(tables'.policies) \subseteq ids(tables'.memories) \union ids(orphans')
    BY ZenonT(60), <2>1, <2>2, <2>3 DEF TablesOK, ids, Without
  <2> QED BY <1>t, <1>m, <2>1, <2>2, <2>6, <2>7 DEF TablesOK
<1>7. CASE /\ tables' = [t \in TABLES |-> tables'[t]]
           /\ Numbered(tables'.memories) /\ Keyed(tables'.memories)
           /\ ids(tables'.memories) = ids(tables.memories)
           /\ tables'.policies = tables.policies
           /\ \/ orphans' = orphans
              \/ \E id : \E blob \in Blob \union {None} : orphans' = LinkedTo(orphans, id, blob)
  <2>1. NumberedTo(tables'.memories, born')
    BY <1>b, <1>7, NumberedMore DEF Numbered
  <2>2. NumberedTo(orphans', born') /\ Keyed(orphans') /\ ids(orphans') = ids(orphans)
    <3>1. Keyed(orphans)
      BY DEF TablesOK
    <3>2. CASE orphans' = orphans
      BY <1>m, <3>1, <3>2
    <3>3. CASE orphans' # orphans
      BY <1>7, <1>b, <1>m, <3>1, <3>3, LinkFacts
    <3> QED BY <3>2, <3>3
  <2> QED BY <1>t, <1>m, <1>7, <2>1, <2>2 DEF TablesOK
<1>8. CASE \E id \in 1..MaxMemories : update_memory_influence_policy(id)
  BY <1>6, <1>8
<1> QED BY <1>1, <1>2, <1>3, <1>4, <1>5, <1>7, <1>8, RowsCarry, PoliciesStay

-----------------------------------------------------------------------------
(* The counters, the counts and the tasks. *)

\* Only these steps give out handles, raise the mark or restore.
LEMMA CountersStay ==
  ASSUME [Next]_vars
  PROVE  \/ insert_memory \/ restore \/ Recreate
         \/ UNCHANGED <<highwater, restores, born, handed, recreates>>
<1>1. CASE UNCHANGED vars
  BY <1>1 DEF vars, store, history
<1>2. CASE apply_memory_governance \/ store_blob \/ set_memory_session_blob
  BY <1>2 DEF apply_memory_governance, store_blob, set_memory_session_blob, store, history
<1>3. CASE \E m \in tables.memories, value \in BOOLEAN, s \in tables.events \union {None} :
              append_assertion(m, value, s)
  BY SMTT(30), <1>3 DEF append_assertion, history
<1>4. CASE read_chain \/ answer \/ \E e \in IF query = None THEN {} ELSE query.todo : read_evidence(e)
  BY <1>4 DEF read_chain, answer, read_evidence, store, history
<1>5. CASE \E m \in tables.memories : governed_delete_memory(m)
  BY <1>5 DEF governed_delete_memory, history
<1>6. CASE append_forget \/ decref_memory_session_blob \/ collect \/ delete_memory \/ purge_memory
  BY <1>6 DEF append_forget, decref_memory_session_blob, collect, delete_memory, purge_memory,
              ForgetGoes, store, history
<1>7. CASE \/ \E incremental \in BOOLEAN : create(incremental)
           \/ \E s \in DOMAIN snapshots : delete(s)
           \/ \E s \in DOMAIN snapshots : export(s)
           \/ \E s \in DOMAIN snapshots : load_payload(s)
           \/ \E state \in exports : import(state)
  BY <1>7 DEF create, delete, export, load_payload, import, store, history
<1>8. CASE \/ \E id \in 1..MaxMemories : update_memory_influence_policy(id)
           \/ run_gc \/ Crash
  BY <1>8 DEF update_memory_influence_policy, run_gc, Crash, store, history
<1>9. CASE insert_memory \/ restore \/ Recreate
  BY <1>9
<1> QED BY <1>1, <1>2, <1>3, <1>4, <1>5, <1>6, <1>7, <1>8, <1>9, Steps

\* The ledger only grows, an entry at a time, but for a new database.
LEMMA LedgerGrows ==
  ASSUME TablesOK, TasksOK, [Next]_vars
  PROVE  Recreate \/ ledger' = ledger \/ \E id \in 1..MaxMemories : Logged(id)
<1>1. CASE UNCHANGED vars
  BY <1>1 DEF vars, store
<1>2. CASE insert_memory \/ store_blob \/ set_memory_session_blob
  BY <1>2 DEF insert_memory, store_blob, set_memory_session_blob, store
<1>3. CASE apply_memory_governance
  BY <1>3 DEF apply_memory_governance, TasksOK
<1>4. CASE \E m \in tables.memories, value \in BOOLEAN, s \in tables.events \union {None} :
              append_assertion(m, value, s)
  <2>1. \A m \in tables.memories : m.id \in 1..MaxMemories
    BY SMTT(30) DEF TablesOK, Numbered, NumberedTo, Rows
  <2> QED BY <1>4, <2>1 DEF append_assertion
<1>5. CASE read_chain \/ answer \/ \E e \in IF query = None THEN {} ELSE query.todo : read_evidence(e)
  BY <1>5 DEF read_chain, answer, read_evidence, store
<1>6. CASE \E m \in tables.memories : governed_delete_memory(m)
  BY <1>6 DEF governed_delete_memory
<1>7. CASE append_forget
  BY <1>7 DEF append_forget, ForgetGoes, TasksOK
<1>8. CASE decref_memory_session_blob \/ collect \/ delete_memory \/ purge_memory
  BY <1>8 DEF decref_memory_session_blob, collect, delete_memory, purge_memory, store
<1>9. CASE \/ \E incremental \in BOOLEAN : create(incremental)
           \/ \E s \in DOMAIN snapshots : delete(s)
           \/ \E s \in DOMAIN snapshots : export(s)
           \/ \E s \in DOMAIN snapshots : load_payload(s)
           \/ \E state \in exports : import(state)
  BY <1>9 DEF create, delete, export, load_payload, import, store
<1>10. CASE \E id \in 1..MaxMemories : update_memory_influence_policy(id)
  BY <1>10 DEF update_memory_influence_policy
<1>11. CASE restore
  BY <1>11 DEF restore
<1>12. CASE run_gc \/ Crash
  BY <1>12 DEF run_gc, Crash, store
<1>13. CASE Recreate
  BY <1>13
<1> QED
  BY <1>1, <1>2, <1>3, <1>4, <1>5, <1>6, <1>7, <1>8, <1>9, <1>10, <1>11, <1>12, <1>13, Steps

LEMMA LedgerKeeps ==
  ASSUME CountersOK, TablesOK, TasksOK, [Next]_vars, ~Recreate
  PROVE  /\ ledger' \in [1..MaxMemories -> Nat]
         /\ \A id \in 1..MaxMemories : ledger[id] > 0 => ledger'[id] > 0
<1>1. ledger \in [1..MaxMemories -> Nat]
  BY DEF CountersOK
<1>2. ASSUME NEW id \in 1..MaxMemories, Logged(id)
      PROVE  /\ ledger' \in [1..MaxMemories -> Nat]
             /\ \A k \in 1..MaxMemories : ledger[k] > 0 => ledger'[k] > 0
  <2>1. ledger' = [ledger EXCEPT ![id] = ledger[id] + 1]
    BY <1>2 DEF Logged
  <2> QED BY <1>1, <2>1
<1> QED BY <1>1, <1>2, LedgerGrows

LEMMA CountersStep ==
  ASSUME CountersOK, TablesOK, TasksOK, [Next]_vars
  PROVE  CountersOK'
<1>m. MaxMemories \in Nat
  BY CheckpointAssumption
<1>1. CASE Recreate
  BY <1>1 DEF Recreate, CountersOK
<1>2. CASE ~Recreate
  <2>1. ledger' \in [1..MaxMemories -> Nat]
    BY <1>2, LedgerKeeps
  <2>2. CASE insert_memory
    <3>1. /\ born < MaxMemories /\ born' = born + 1 /\ highwater' = NextHandle
          /\ UNCHANGED <<restores, recreates>>
      BY <2>2 DEF insert_memory
    <3>2. NextHandle \in Nat /\ NextHandle \in 1..(born + 1)
      BY NextHandleIsFresh
    <3>3. born + 1 <= MaxMemories /\ NextHandle <= born + 1 /\ born + 1 \in Nat
      BY <1>m, <3>1, <3>2 DEF CountersOK
    <3> QED BY <2>1, <3>1, <3>2, <3>3 DEF CountersOK
  <2>3. CASE restore
    <3>1. UNCHANGED <<born, recreates>>
      BY <2>3 DEF restore, history
    <3>2. \/ highwater' = highwater /\ restores' = restores
          \/ /\ highwater' = Max({highwater} \union ids(tables.memories) \union ids(orphans))
             /\ restores' = restores + 1
      BY <2>3 DEF restore, Handles
    <3>3. Max({highwater} \union ids(tables.memories) \union ids(orphans)) \in highwater..born
      BY HandleSet
    <3>4. highwater' \in Nat /\ highwater' <= born /\ restores' \in Nat
      BY <3>2, <3>3 DEF CountersOK
    <3> QED BY <2>1, <3>1, <3>4 DEF CountersOK
  <2>4. CASE UNCHANGED <<highwater, restores, born, handed, recreates>>
    BY <2>1, <2>4 DEF CountersOK
  <2> QED BY <1>2, <2>2, <2>3, <2>4, CountersStay
<1> QED BY <1>1, <1>2

\* A remember and a forget in progress are about memories.
LEMMA TasksStep ==
  ASSUME CountersOK, TablesOK, TasksOK, [Next]_vars
  PROVE  TasksOK'
<1>1. CASE insert_memory
  <2> PICK handle : handle = NextHandle
    OBVIOUS
  <2>1. /\ born < MaxMemories /\ forgetting' = forgetting
        /\ writing' = [id |-> handle, body |-> born + 1, at |-> "govern"]
    BY <1>1 DEF insert_memory
  <2>2. handle \in 1..(born + 1) /\ born \in Nat /\ MaxMemories \in Nat
    BY NextHandleIsFresh, CheckpointAssumption DEF CountersOK
  <2>3. handle \in 1..MaxMemories /\ born + 1 \in 1..MaxMemories
    BY <2>1, <2>2
  <2> QED BY <2>1, <2>3 DEF TasksOK
<1>2. CASE apply_memory_governance
  <2>1. forgetting' = forgetting /\ writing # None
    BY <1>2 DEF apply_memory_governance
  <2>2. \/ writing' = None
        \/ BlobOf[writing.body] # None /\ writing' = [writing EXCEPT !.at = "store"]
    BY <1>2 DEF apply_memory_governance
  <2> QED BY <2>1, <2>2 DEF TasksOK
<1>3. CASE store_blob \/ set_memory_session_blob
  <2>1. /\ writing # None /\ writing.at # "govern" /\ forgetting' = forgetting
        /\ writing' = None \/ writing' = [writing EXCEPT !.at = "link"]
    BY <1>3 DEF store_blob, set_memory_session_blob
  <2> QED BY <2>1 DEF TasksOK
<1>4. CASE \E m \in tables.memories : governed_delete_memory(m)
  <2>1. PICK m \in tables.memories : governed_delete_memory(m)
    BY <1>4
  <2>2. m.id \in 1..MaxMemories
    BY DEF TablesOK, Numbered, NumberedTo, Rows
  <2>3. writing' = writing /\ forgetting' = [id |-> m.id, at |-> "ledger"]
    BY <2>1 DEF governed_delete_memory
  <2> QED BY <2>2, <2>3 DEF TasksOK, Stages
<1>5. ASSUME NEW from, NEW to \in Stages \union {None}, ForgetGoes(from, to) PROVE TasksOK'
  <2>1. /\ forgetting # None /\ writing' = writing
        /\ \/ forgetting' = None
           \/ to \in Stages /\ forgetting' = [forgetting EXCEPT !.at = to]
    BY <1>5 DEF ForgetGoes
  <2> QED BY <1>5, <2>1 DEF TasksOK
<1>6. CASE append_forget \/ decref_memory_session_blob \/ collect \/ delete_memory \/ purge_memory
  BY <1>5, <1>6
     DEF Stages, append_forget, decref_memory_session_blob, collect, delete_memory, purge_memory
<1>7. CASE Crash \/ Recreate
  BY <1>7 DEF Crash, Recreate, TasksOK
<1>8. ASSUME UNCHANGED <<writing, forgetting>> PROVE TasksOK'
  BY <1>8 DEF TasksOK
<1>9. CASE UNCHANGED vars
  BY <1>8, <1>9 DEF vars, tasks
<1>10. CASE \E m \in tables.memories, value \in BOOLEAN, s \in tables.events \union {None} :
               append_assertion(m, value, s)
  BY SMTT(30), <1>8, <1>10 DEF append_assertion, tasks
<1>11. CASE read_chain \/ answer \/ \E e \in IF query = None THEN {} ELSE query.todo : read_evidence(e)
  BY <1>8, <1>11 DEF read_chain, answer, read_evidence
<1>12. CASE \/ \E incremental \in BOOLEAN : create(incremental)
            \/ \E s \in DOMAIN snapshots : delete(s)
            \/ \E s \in DOMAIN snapshots : export(s)
            \/ \E s \in DOMAIN snapshots : load_payload(s)
            \/ \E state \in exports : import(state)
  BY <1>8, <1>12 DEF create, delete, export, load_payload, import, tasks
<1>13. CASE \/ \E id \in 1..MaxMemories : update_memory_influence_policy(id)
            \/ run_gc \/ restore
  BY <1>8, <1>13 DEF update_memory_influence_policy, run_gc, restore, tasks
<1> QED
  BY <1>1, <1>2, <1>3, <1>4, <1>6, <1>7, <1>9, <1>10, <1>11, <1>12, <1>13, Steps

LEMMA CountsStay ==
  ASSUME NEW map, Counts(map), NEW key
  PROVE  /\ Counts(Bind(map, key, IF key \in DOMAIN map THEN map[key] + 1 ELSE 1))
         /\ Counts(Released(map, key)) /\ DOMAIN Released(map, key) = DOMAIN map
<1>1. \A k \in DOMAIN map : map[k] \in Nat
  BY DEF Counts
<1>2. Counts(Bind(map, key, IF key \in DOMAIN map THEN map[key] + 1 ELSE 1))
  BY <1>1 DEF Counts, Bind
<1>3. CASE key \in DOMAIN map /\ map[key] > 0
  <2>1. Released(map, key) = [map EXCEPT ![key] = map[key] - 1]
    BY <1>3 DEF Released
  <2>2. map[key] - 1 \in Nat
    BY <1>1, <1>3
  <2> QED BY <1>1, <1>2, <2>1, <2>2 DEF Counts
<1>4. CASE ~(key \in DOMAIN map /\ map[key] > 0)
  BY <1>2, <1>4 DEF Released
<1> QED BY <1>3, <1>4

\* How the stored transcripts change.
LEMMA SourcesStay ==
  ASSUME [Next]_vars
  PROVE  \/ sources' = sources
         \/ gc_blobs /\ tables' = tables /\ orphans' = orphans
         \/ Recreate
         \/ \E b : sources' = Stored(b) \/ sources' = Released(sources, b)
         \/ restore /\ pending # None /\ Restorable /\ sources' = Reinserted
<1>1. CASE UNCHANGED vars
  BY <1>1 DEF vars, blobs
<1>2. CASE insert_memory \/ apply_memory_governance
  BY <1>2 DEF insert_memory, apply_memory_governance, blobs
<1>3. CASE store_blob \/ set_memory_session_blob
  BY <1>3 DEF store_blob, set_memory_session_blob, blobs
<1>4. CASE \E m \in tables.memories, value \in BOOLEAN, s \in tables.events \union {None} :
              append_assertion(m, value, s)
  BY SMTT(30), <1>4 DEF append_assertion, blobs
<1>5. CASE read_chain \/ answer \/ \E e \in IF query = None THEN {} ELSE query.todo : read_evidence(e)
  BY <1>5 DEF read_chain, answer, read_evidence, blobs
<1>6. CASE \E m \in tables.memories : governed_delete_memory(m)
  BY <1>6 DEF governed_delete_memory, blobs
<1>7. CASE append_forget \/ delete_memory \/ purge_memory
  BY <1>7 DEF append_forget, delete_memory, purge_memory, blobs
<1>8. CASE decref_memory_session_blob
  BY <1>8 DEF decref_memory_session_blob
<1>9. CASE collect \/ run_gc
  BY <1>9 DEF collect, run_gc, store
<1>10. CASE \/ \E incremental \in BOOLEAN : create(incremental)
            \/ \E s \in DOMAIN snapshots : delete(s)
            \/ \E s \in DOMAIN snapshots : export(s)
            \/ \E s \in DOMAIN snapshots : load_payload(s)
            \/ \E state \in exports : import(state)
  BY <1>10 DEF create, delete, export, load_payload, import, blobs
<1>11. CASE restore
  BY <1>11 DEF restore
<1>12. CASE \/ \E id \in 1..MaxMemories : update_memory_influence_policy(id)
            \/ Crash
  BY <1>12 DEF update_memory_influence_policy, Crash, blobs
<1>13. CASE Recreate
  BY <1>13
<1> QED
  BY <1>1, <1>2, <1>3, <1>4, <1>5, <1>6, <1>7, <1>8, <1>9, <1>10, <1>11, <1>12, <1>13, Steps

\* The counts stay counts.
LEMMA MapsStep ==
  ASSUME MapsOK, [Next]_vars
  PROVE  MapsOK'
<1>1. ASSUME gc_blobs PROVE Counts(sources') /\ Counts(objects')
  <2>1. /\ sources' = [b \in {b \in DOMAIN sources : sources[b] > 0 \/ PinnedSource(b)} |->
                         sources[b]]
        /\ objects' = [o \in {o \in DOMAIN objects : objects[o] > 0 \/ PinnedObject(o)} |->
                         objects[o]]
    BY <1>1 DEF gc_blobs, RestrictDomain, Restrict
  <2> QED BY <2>1 DEF MapsOK, Counts
<1>2. Counts(sources')
  <2>1. CASE Recreate
    BY <2>1 DEF Recreate, Counts
  <2>2. ASSUME NEW b, sources' = Stored(b) \/ sources' = Released(sources, b)
        PROVE  Counts(sources')
    BY <2>2, CountsStay DEF MapsOK, Stored
  <2>3. CASE sources' = Reinserted
    BY <2>3 DEF Reinserted, MapsOK, Counts
  <2>4. CASE sources' = sources
    BY <2>4 DEF MapsOK
  <2> QED BY <1>1, <2>1, <2>2, <2>3, <2>4, SourcesStay
<1>3. Counts(objects')
  <2>1. CASE collect \/ run_gc
    BY <1>1, <2>1 DEF collect, run_gc
  <2>2. CASE Recreate
    BY <2>2 DEF Recreate, Counts
  <2>3. CASE \E incremental \in BOOLEAN : create(incremental)
    BY <2>3, CountsStay DEF create, MapsOK
  <2>4. CASE \E s \in DOMAIN snapshots : delete(s) \/ export(s) \/ load_payload(s)
    <3>1. objects' = objects \/ \E o : objects' = Released(objects, o)
      BY <2>4 DEF delete, export, load_payload, blobs
    <3> QED BY <3>1, CountsStay DEF MapsOK
  <2>5. CASE \E state \in exports : import(state)
    BY <2>5 DEF import, blobs, MapsOK
  <2>6. CASE objects' = objects
    BY <2>6 DEF MapsOK
  <2> QED BY <2>1, <2>2, <2>3, <2>4, <2>5, <2>6, PointsStay
<1> QED BY <1>2, <1>3 DEF MapsOK, Counts

\* Only these steps move a reference, or lower the count of a transcript.
LEMMA CreditStay ==
  ASSUME TasksOK, [Next]_vars
  PROVE  \/ store_blob \/ set_memory_session_blob \/ decref_memory_session_blob \/ Recreate
         \/ /\ credit' = credit
            /\ sources' = sources \/ gc_blobs \/ sources' = Reinserted
            /\ writing' = writing \/ writing' = None \/ writing'.at # "link"
<1>1. CASE UNCHANGED vars
  BY <1>1 DEF vars, blobs, tasks, history
<1>2. CASE insert_memory
  <2>1. writing'.at = "govern" /\ credit' = credit /\ sources' = sources
    BY <1>2 DEF insert_memory, blobs
  <2> QED BY <2>1
<1>3. CASE apply_memory_governance
  <2>1. /\ credit' = credit /\ sources' = sources /\ writing # None
        /\ writing' = None \/ writing' = [writing EXCEPT !.at = "store"]
    BY <1>3 DEF apply_memory_governance, blobs, history
  <2>2. writing' = None \/ writing'.at = "store"
    BY <2>1 DEF TasksOK
  <2> QED BY <2>1, <2>2
<1>4. CASE \E m \in tables.memories, value \in BOOLEAN, s \in tables.events \union {None} :
              append_assertion(m, value, s)
  BY SMTT(30), <1>4 DEF append_assertion, blobs, tasks, history
<1>5. CASE read_chain \/ answer \/ \E e \in IF query = None THEN {} ELSE query.todo : read_evidence(e)
  BY <1>5 DEF read_chain, answer, read_evidence, blobs, history
<1>6. CASE \E m \in tables.memories : governed_delete_memory(m)
  BY <1>6 DEF governed_delete_memory, blobs, history
<1>7. CASE append_forget \/ delete_memory \/ purge_memory
  BY <1>7 DEF append_forget, delete_memory, purge_memory, ForgetGoes, blobs, history
<1>8. CASE collect \/ run_gc
  BY <1>8 DEF collect, run_gc, ForgetGoes, tasks, history
<1>9. CASE \/ \E incremental \in BOOLEAN : create(incremental)
           \/ \E s \in DOMAIN snapshots : delete(s)
           \/ \E s \in DOMAIN snapshots : export(s)
           \/ \E s \in DOMAIN snapshots : load_payload(s)
           \/ \E state \in exports : import(state)
  BY <1>9 DEF create, delete, export, load_payload, import, blobs, tasks, history
<1>10. CASE restore
  BY <1>10 DEF restore, history
<1>11. CASE \/ \E id \in 1..MaxMemories : update_memory_influence_policy(id)
            \/ Crash
  BY <1>11 DEF update_memory_influence_policy, Crash, blobs, tasks, history
<1> QED
  BY <1>1, <1>2, <1>3, <1>4, <1>5, <1>6, <1>7, <1>8, <1>9, <1>10, <1>11, Steps

\* How many references are held: at least one by the remember that links.
LEMMA ClaimFacts ==
  ASSUME CreditOK, NEW b
  PROVE  /\ IsFiniteSet(Holders(b)) /\ Cardinality(Holders(b)) \in Nat /\ Claimed(b) \in Nat
         /\ Linking(b) => Claimed(b) = Cardinality(Holders(b)) + 1
         /\ ~Linking(b) => Claimed(b) = Cardinality(Holders(b))
<1>1. Holders(b) \subseteq credit.held /\ IsFiniteSet(credit.held)
  BY DEF Holders, CreditOK
<1>2. IsFiniteSet(Holders(b)) /\ Cardinality(Holders(b)) \in Nat
  BY <1>1, FS_Subset, FS_CardinalityType
<1> QED BY <1>2 DEF Claimed

LEMMA OneFewer ==
  ASSUME NEW S, IsFiniteSet(S), NEW x \in S
  PROVE  Cardinality(S \ {x}) = Cardinality(S) - 1
BY FS_RemoveElement

\* Every transcript whose count was not overdrawn keeps a count that covers the
\* references held.
LEMMA CreditStep ==
  ASSUME CountersOK, TablesOK, MapsOK, MapsOK', TasksOK, CreditOK, [Next]_vars
  PROVE  CreditOK'
<1>c. /\ credit = [held |-> credit.held, overdrawn |-> credit.overdrawn,
                   unbacked |-> credit.unbacked]
      /\ IsFiniteSet(credit.held)
      /\ \A b \in Blob \ credit.overdrawn :
           Claimed(b) > 0 => b \in DOMAIN sources /\ Claimed(b) <= sources[b]
  BY DEF CreditOK
<1>n. /\ \A b \in DOMAIN sources : sources[b] \in Nat
      /\ \A b \in DOMAIN sources' : sources'[b] \in Nat
  BY DEF MapsOK, Counts
<1>1. CASE Recreate
  <2>1. credit' = NoCredit /\ writing' = None
    BY <1>1 DEF Recreate
  <2>2. IsFiniteSet(credit'.held) /\ \A b : Holders(b)' = {} /\ ~Linking(b)'
    BY <2>1, FS_EmptySet DEF NoCredit, Holders, Linking
  <2>3. \A b : Claimed(b)' = 0
    BY <2>2, FS_EmptySet DEF Claimed
  <2> QED BY <2>1, <2>2, <2>3 DEF CreditOK, NoCredit
<1>2. CASE store_blob
  <2> PICK blob : blob = BlobOf[writing.body]
    OBVIOUS
  <2>1. /\ credit' = credit /\ writing # None /\ writing.at = "store"
        /\ sources' = Stored(blob) /\ writing' = [writing EXCEPT !.at = "link"]
    BY <1>2 DEF store_blob, history
  <2>2. writing' # None => writing'.at = "link" /\ writing'.body = writing.body
    BY <2>1 DEF TasksOK
  <2>3. /\ DOMAIN sources' = DOMAIN sources \union {blob}
        /\ sources'[blob] = IF blob \in DOMAIN sources THEN sources[blob] + 1 ELSE 1
        /\ \A b \in DOMAIN sources : b # blob => sources'[b] = sources[b]
    <3> PICK count : count = IF blob \in DOMAIN sources THEN sources[blob] + 1 ELSE 1
      OBVIOUS
    <3>1. sources' = Bind(sources, blob, count)
      BY <2>1 DEF Stored
    <3> QED BY <3>1 DEF Bind
  <2>4. ASSUME NEW b \in Blob \ credit.overdrawn, Claimed(b)' > 0
        PROVE  b \in DOMAIN sources' /\ Claimed(b)' <= sources'[b]
    <3>1. Holders(b)' = Holders(b) /\ ~Linking(b) /\ Claimed(b) = Cardinality(Holders(b))
      BY <2>1, ClaimFacts DEF Holders, Linking
    <3>2. Linking(b)' => b = blob
      BY <2>2 DEF Linking
    <3>3. Claimed(b)' = Claimed(b) \/ (Claimed(b)' = Claimed(b) + 1 /\ b = blob)
      <4>1. Claimed(b) = Cardinality(Holders(b)) /\ Cardinality(Holders(b)) \in Nat
        BY <3>1, ClaimFacts
      <4>2. Claimed(b)' = Cardinality(Holders(b)) + IF Linking(b)' THEN 1 ELSE 0
        BY <3>1 DEF Claimed
      <4>3. CASE Linking(b)'
        BY <3>2, <4>1, <4>2, <4>3
      <4>4. CASE ~Linking(b)'
        BY <4>1, <4>2, <4>4
      <4> QED BY <4>3, <4>4
    <3>4. Claimed(b) \in Nat
      BY ClaimFacts
    <3> QED BY <1>c, <1>n, <2>3, <2>4, <3>3, <3>4
  <2> QED BY <1>c, <2>1, <2>4 DEF CreditOK
<1>3. CASE set_memory_session_blob
  <2> PICK blob : blob = BlobOf[writing.body]
    OBVIOUS
  <2> PICK link : link = <<writing.id, blob>>
    OBVIOUS
  <2>1. /\ writing # None /\ writing.at = "link" /\ writing' = None /\ sources' = sources
        /\ \/ credit' = credit
           \/ \E rows : credit' = [credit EXCEPT !.held = credit.held \union {link},
                                                 !.unbacked = rows]
    BY <1>3 DEF set_memory_session_blob, blobs
  <2>2. /\ credit' = [held |-> credit'.held, overdrawn |-> credit'.overdrawn,
                      unbacked |-> credit'.unbacked]
        /\ credit'.overdrawn = credit.overdrawn
        /\ credit'.held = credit.held \/ credit'.held = credit.held \union {link}
    BY <1>c, <2>1
  <2>3. IsFiniteSet(credit'.held)
    <3>1. IsFiniteSet(credit.held \union {link})
      BY <1>c, FS_AddElement
    <3> QED BY <1>c, <2>2, <3>1
  <2>4. ASSUME NEW b \in Blob \ credit.overdrawn, Claimed(b)' > 0
        PROVE  b \in DOMAIN sources' /\ Claimed(b)' <= sources'[b]
    <3>1. ~Linking(b)' /\ Claimed(b)' = Cardinality(Holders(b)')
      <4>1. ~Linking(b)'
        BY <2>1 DEF Linking
      <4>2. Holders(b)' \subseteq credit'.held
        BY DEF Holders
      <4> QED BY <2>3, <4>1, <4>2, FS_Subset, FS_CardinalityType DEF Claimed
    <3>2. IsFiniteSet(Holders(b)) /\ Cardinality(Holders(b)) \in Nat /\ Claimed(b) \in Nat
      BY ClaimFacts
    <3>3. Cardinality(Holders(b)') <= Claimed(b) /\ Cardinality(Holders(b)') \in Nat
      <4>1. CASE Holders(b)' = Holders(b)
        BY <3>2, <4>1, ClaimFacts
      <4>2. CASE b = blob /\ Holders(b)' = Holders(b) \union {link}
        <5>1. Claimed(b) = Cardinality(Holders(b)) + 1
          BY <2>1, <4>2, ClaimFacts DEF Linking
        <5>2. \/ Cardinality(Holders(b)') = Cardinality(Holders(b))
              \/ Cardinality(Holders(b)') = Cardinality(Holders(b)) + 1
          <6>1. Cardinality(Holders(b) \union {link}) =
                  IF link \in Holders(b) THEN Cardinality(Holders(b))
                  ELSE Cardinality(Holders(b)) + 1
            BY <3>2, FS_AddElement
          <6> QED BY <4>2, <6>1
        <5> QED BY <3>2, <5>1, <5>2
      <4>3. link[2] = blob
        OBVIOUS
      <4> QED BY <2>2, <4>1, <4>2, <4>3 DEF Holders
    <3>4. Claimed(b) > 0 /\ Claimed(b)' <= Claimed(b)
      BY <2>4, <3>1, <3>2, <3>3
    <3>5. b \in DOMAIN sources /\ Claimed(b) <= sources[b]
      BY <1>c, <3>4
    <3>6. sources[b] \in Nat
      BY <1>n, <3>5
    <3>7. sources' = sources /\ Claimed(b)' \in Nat
      BY <2>1, <3>1, <3>3
    <3> QED BY <3>2, <3>4, <3>5, <3>6, <3>7
  <2> QED BY <2>2, <2>3, <2>4 DEF CreditOK
<1>4. CASE decref_memory_session_blob
  <2>w. writing' = writing
    BY <1>4 DEF decref_memory_session_blob, ForgetGoes
  <2>u. ASSUME credit' = credit, sources' = sources PROVE CreditOK'
    <3>1. \A b : Claimed(b)' = Claimed(b)
      BY <2>w, <2>u DEF Claimed, Holders, Linking
    <3> QED BY <1>c, <2>u, <3>1 DEF CreditOK
  <2>1. CASE Linked(forgetting.id) = {}
    BY <1>4, <2>1, <2>u DEF decref_memory_session_blob
  <2>2. CASE Linked(forgetting.id) # {}
    <3> PICK blob : blob = CHOOSE b \in Linked(forgetting.id) : TRUE
      OBVIOUS
    <3> PICK link : link = <<forgetting.id, blob>>
      OBVIOUS
    <3>1. /\ sources' = Released(sources, blob)
          /\ credit' = IF link \in credit.held
                       THEN [credit EXCEPT !.held = credit.held \ {link}]
                       ELSE [credit EXCEPT !.overdrawn = credit.overdrawn \union {blob}]
      BY <1>4, <2>2 DEF decref_memory_session_blob
    <3>2. \A b : b # blob => sources'[b] = sources[b]
      BY <3>1 DEF Released
    <3>3. DOMAIN sources' = DOMAIN sources
      BY <3>1, CountsStay DEF MapsOK
    <3>4. CASE link \in credit.held
      <4>1. /\ credit' = [held |-> credit'.held, overdrawn |-> credit'.overdrawn,
                          unbacked |-> credit'.unbacked]
            /\ credit'.overdrawn = credit.overdrawn
            /\ credit'.held = credit.held \ {link}
        BY <1>c, <3>1, <3>4
      <4>2. IsFiniteSet(credit'.held)
        BY <1>c, <4>1, FS_RemoveElement
      <4>3. ASSUME NEW b \in Blob \ credit.overdrawn, Claimed(b)' > 0
            PROVE  b \in DOMAIN sources' /\ Claimed(b)' <= sources'[b]
        <5>l. link[2] = blob /\ Linking(b)' = Linking(b)
          BY <2>w DEF Linking
        <5>f. IsFiniteSet(Holders(b)) /\ Cardinality(Holders(b)) \in Nat /\ Claimed(b) \in Nat
          BY ClaimFacts
        <5>1. CASE b # blob
          <6>1. Holders(b)' = Holders(b)
            BY <4>1, <5>1, <5>l DEF Holders
          <6>2. Claimed(b)' = Claimed(b)
            BY <5>l, <6>1 DEF Claimed
          <6> QED BY <1>c, <3>2, <3>3, <4>3, <5>1, <6>2
        <5>2. CASE b = blob
          <6>1. Holders(b)' = Holders(b) \ {link} /\ link \in Holders(b)
            BY <3>4, <4>1, <5>2, <5>l DEF Holders
          <6>2. Cardinality(Holders(b)') = Cardinality(Holders(b)) - 1
            BY <5>f, <6>1, OneFewer
          <6>3. Claimed(b)' = Claimed(b) - 1
            BY <5>f, <5>l, <6>2 DEF Claimed
          <6>4. Claimed(b) > 0 /\ b \in DOMAIN sources /\ Claimed(b) <= sources[b]
            BY <1>c, <4>3, <5>f, <6>3
          <6>5. sources[b] \in Nat /\ sources[b] > 0
            BY <1>n, <5>f, <6>4
          <6>6. sources'[b] = sources[b] - 1
            BY <3>1, <5>2, <6>4, <6>5 DEF Released
          <6> QED BY <3>3, <5>f, <6>3, <6>4, <6>5, <6>6
        <5> QED BY <5>1, <5>2
      <4> QED BY <4>1, <4>2, <4>3 DEF CreditOK
    <3>5. CASE link \notin credit.held
      <4>1. /\ credit' = [held |-> credit'.held, overdrawn |-> credit'.overdrawn,
                          unbacked |-> credit'.unbacked]
            /\ credit'.overdrawn = credit.overdrawn \union {blob}
            /\ credit'.held = credit.held
        BY <1>c, <3>1, <3>5
      <4>2. \A b : Claimed(b)' = Claimed(b)
        BY <2>w, <4>1 DEF Claimed, Holders, Linking
      <4> QED BY <1>c, <3>2, <3>3, <4>1, <4>2 DEF CreditOK
    <3> QED BY <3>4, <3>5
  <2> QED BY <2>1, <2>2
<1>5. CASE /\ credit' = credit
           /\ sources' = sources \/ gc_blobs \/ sources' = Reinserted
           /\ writing' = writing \/ writing' = None \/ writing'.at # "link"
  <2>1. ASSUME NEW b, b \in DOMAIN sources, sources[b] > 0
        PROVE  b \in DOMAIN sources' /\ sources'[b] = sources[b]
    <3>1. CASE gc_blobs
      BY <2>1, <3>1 DEF gc_blobs, RestrictDomain, Restrict
    <3>2. CASE sources' = Reinserted
      BY <2>1, <3>2 DEF Reinserted
    <3> QED BY <1>5, <2>1, <3>1, <3>2
  <2>2. ASSUME NEW b \in Blob \ credit.overdrawn, Claimed(b)' > 0
        PROVE  b \in DOMAIN sources' /\ Claimed(b)' <= sources'[b]
    <3>1. Holders(b)' = Holders(b) /\ (Linking(b)' => Linking(b))
      BY <1>5 DEF Holders, Linking
    <3>2. Claimed(b)' \in Nat /\ Claimed(b) \in Nat /\ Claimed(b)' <= Claimed(b)
      BY <3>1, ClaimFacts DEF Claimed
    <3>3. b \in DOMAIN sources /\ Claimed(b) <= sources[b] /\ sources[b] > 0
      BY <1>c, <1>n, <2>2, <3>2
    <3> QED BY <1>n, <2>1, <3>2, <3>3
  <2> QED BY <1>5, <1>c, <2>2 DEF CreditOK
<1> QED BY <1>1, <1>2, <1>3, <1>4, <1>5, CreditStay

\* What was linked without backing is remembered.
LEMMA UnbackedStays ==
  ASSUME TasksOK, CreditOK, [Next]_vars
  PROVE  Recreate \/ credit.unbacked \subseteq credit'.unbacked
<1>c. credit = [held |-> credit.held, overdrawn |-> credit.overdrawn,
                unbacked |-> credit.unbacked]
  BY DEF CreditOK
<1>1. CASE store_blob
  BY <1>1 DEF store_blob, history
<1>2. CASE set_memory_session_blob
  <2> PICK blob : blob = BlobOf[writing.body]
    OBVIOUS
  <2> PICK link : link = <<writing.id, blob>>
    OBVIOUS
  <2>1. \/ credit' = credit
        \/ credit' = [credit EXCEPT !.held = @ \union {link},
                        !.unbacked = IF blob \in credit.overdrawn
                                     THEN @ \union {link} ELSE @]
    BY <1>2 DEF set_memory_session_blob
  <2> QED BY <1>c, <2>1
<1>3. CASE decref_memory_session_blob
  <2>1. \/ credit' = credit
        \/ \E held : credit' = [credit EXCEPT !.held = held]
        \/ \E overdrawn : credit' = [credit EXCEPT !.overdrawn = overdrawn]
    BY <1>3 DEF decref_memory_session_blob
  <2> QED BY <1>c, <2>1
<1> QED BY <1>1, <1>2, <1>3, CreditStay

\* No transcript that a memory names leaves the store, unless the memory was
\* linked to it without backing.
LEMMA SourcesStep ==
  ASSUME CountersOK, TablesOK, MapsOK, TasksOK, StatesOK, CreditOK, SourcesSurvive, [Next]_vars
  PROVE  SourcesSurvive'
<1> DEFINE Kept(r) == r.session_blob # None =>
                        \/ r.session_blob \in DOMAIN sources'
                        \/ <<r.id, r.session_blob>> \in credit'.unbacked
<1>t. ASSUME \A r \in tables'.memories : Kept(r) PROVE SourcesSurvive'
  BY <1>t DEF SourcesSurvive
<1>u. Recreate \/ credit.unbacked \subseteq credit'.unbacked
  BY UnbackedStays
\* A row whose transcript or whose exemption was there.
<1>o. ASSUME ~Recreate, NEW r, NEW s \in tables.memories, r.id = s.id,
             r.session_blob = s.session_blob,
             s.session_blob \in DOMAIN sources => s.session_blob \in DOMAIN sources'
      PROVE  Kept(r)
  BY <1>o, <1>u DEF SourcesSurvive
<1>1. CASE Recreate
  <2>1. tables'.memories = {}
    BY <1>1 DEF Recreate, TABLES
  <2> QED BY <1>t, <2>1
<1>2. CASE gc_blobs /\ tables' = tables
  <2>1. DOMAIN sources' = {b \in DOMAIN sources : sources[b] > 0 \/ PinnedSource(b)}
    BY <1>2 DEF gc_blobs, RestrictDomain, Restrict
  <2>2. \A r \in tables.memories : PinnedSource(r.session_blob)
    BY DEF PinnedSource
  <2>3. CASE ~Recreate
    <3> HIDE DEF Kept
    <3> QED BY <1>2, <1>o, <1>t, <2>1, <2>2, <2>3
  <2> QED BY <1>1, <2>3
<1>3. CASE restore /\ pending # None /\ Restorable /\ sources' = Reinserted
  <2> PICK past : past = pending.state
    OBVIOUS
  <2>1. /\ PastOK(past)
        /\ tables'.memories = {Merged(row) : row \in past.tables.memories}
        /\ past.tables.memories \subseteq Rows
    BY <1>3, Restored
  <2>2. DOMAIN sources' = DOMAIN sources \union past.sources
    BY <1>3 DEF Reinserted
  <2>3. \A row \in past.tables.memories : row.session_blob # None => row.session_blob \in past.sources
    BY <2>1 DEF PastOK, validate
  <2>4. \A row \in past.tables.memories : Merged(row).session_blob = row.session_blob
    BY <2>1, MergedFacts
  <2> QED BY <1>t, <2>1, <2>2, <2>3, <2>4
<1>4. CASE /\ DOMAIN sources \subseteq DOMAIN sources' /\ ~Recreate
           /\ ~(restore /\ pending # None /\ Restorable)
  <2>1. CASE insert_memory
    <3>1. PICK row : row.session_blob = None /\ tables'.memories = tables.memories \union {row}
      BY <2>1, InsertFacts
    <3>2. Kept(row)
      BY <3>1
    <3> HIDE DEF Kept
    <3> QED BY <1>4, <1>o, <1>t, <3>1, <3>2
  <2>2. CASE delete_memory
    <3>1. tables'.memories \subseteq tables.memories
      BY <2>2, TablesAs DEF delete_memory, TablesOK, TABLES
    <3> HIDE DEF Kept
    <3> QED BY <1>4, <1>o, <1>t, <3>1
  <2>3. CASE restore
    <3>1. tables' = tables
      BY <1>4, <2>3 DEF restore
    <3> HIDE DEF Kept
    <3> QED BY <1>4, <1>o, <1>t, <3>1
  <2>4. CASE \A r \in tables'.memories : \E s \in tables.memories :
                r.id = s.id /\ (r.session_blob = s.session_blob \/ JustLinked(r))
    <3>1. ASSUME NEW r \in tables'.memories, JustLinked(r), NEW s \in tables.memories, r.id = s.id
          PROVE  Kept(r)
      <4> PICK blob : blob = BlobOf[writing.body]
        OBVIOUS
      <4>1. /\ set_memory_session_blob /\ r.id = writing.id /\ r.session_blob = blob
            /\ writing # None /\ writing.at = "link" /\ sources' = sources
        BY <3>1 DEF JustLinked, set_memory_session_blob, blobs
      <4>2. writing.id \in ids(tables.memories \union orphans)
        BY <3>1, <4>1 DEF ids
      <4>3. blob \in Blob
        BY <4>1, CheckpointAssumption DEF TasksOK
      <4>4. CASE blob \in credit.overdrawn
        <5>1. credit' = [credit EXCEPT !.held = @ \union {<<writing.id, blob>>},
                           !.unbacked = @ \union {<<writing.id, blob>>}]
          BY <4>1, <4>2, <4>4 DEF set_memory_session_blob
        <5>2. credit'.unbacked = credit.unbacked \union {<<writing.id, blob>>}
          BY <5>1 DEF CreditOK
        <5> QED BY <4>1, <5>2
      <4>5. CASE blob \notin credit.overdrawn
        <5>1. Claimed(blob) > 0
          BY <4>1, ClaimFacts DEF Linking
        <5>2. blob \in DOMAIN sources
          BY <4>3, <4>5, <5>1 DEF CreditOK
        <5> QED BY <4>1, <5>2
      <4> QED BY <4>4, <4>5
    <3> HIDE DEF Kept
    <3> QED BY <1>4, <1>o, <1>t, <2>4, <3>1
  <2> QED BY <1>4, <2>1, <2>2, <2>3, <2>4, RowsCarry
<1>5. ASSUME NEW b, sources' = Stored(b) \/ sources' = Released(sources, b)
      PROVE  DOMAIN sources \subseteq DOMAIN sources'
  <2>1. DOMAIN Released(sources, b) = DOMAIN sources
    BY CountsStay DEF MapsOK
  <2>2. DOMAIN sources \subseteq DOMAIN Stored(b)
    BY DEF Stored, Bind
  <2> QED BY <1>5, <2>1, <2>2
<1>6. restore /\ pending # None /\ Restorable => sources' = Reinserted
  BY DEF restore
<1>7. \/ DOMAIN sources \subseteq DOMAIN sources'
      \/ gc_blobs /\ tables' = tables
      \/ Recreate
      \/ restore /\ pending # None /\ Restorable
  BY <1>5, SourcesStay
<1> QED BY <1>1, <1>2, <1>3, <1>4, <1>6, <1>7

-----------------------------------------------------------------------------
(* The claims. *)

\* Only these steps touch the assertion events, and none but a new database
\* drops one.
LEMMA EventsStay ==
  ASSUME TablesOK, StatesOK, CountersOK, [Next]_vars
  PROVE  \/ Recreate
         \/ tables'.events = tables.events
         \/ tables.events \subseteq tables'.events /\ validate_chain(tables'.events)
<1>s. /\ tables = [t \in TABLES |-> tables[t]]
      /\ "memories" \in TABLES /\ "policies" \in TABLES /\ "events" \in TABLES
  BY DEF TablesOK, TABLES
<1>1. ASSUME NEW rows, tables' = [tables EXCEPT !.memories = rows]
      PROVE  tables'.events = tables.events
  BY <1>1, <1>s, TablesAs
<1>2. ASSUME NEW rows, tables' = [tables EXCEPT !.policies = rows]
      PROVE  tables'.events = tables.events
  BY <1>2, <1>s, TablesAs
<1>3. CASE UNCHANGED tables
  BY <1>3
<1>4. CASE insert_memory
  BY <1>4, InsertFacts
<1>5. CASE apply_memory_governance
  BY <1>1, <1>5 DEF apply_memory_governance
<1>6. CASE set_memory_session_blob
  <2>1. \E rows : tables' = [tables EXCEPT !.memories = rows]
    BY <1>6 DEF set_memory_session_blob
  <2> QED BY <1>1, <2>1
<1>7. ASSUME NEW m, NEW value, NEW s, append_assertion(m, value, s)
      PROVE  tables.events \subseteq tables'.events /\ validate_chain(tables'.events)
  <2>1. PICK event : /\ validate_chain(tables.events \union {event})
                     /\ tables' = [tables EXCEPT !.events = @ \union {event}]
    BY <1>7 DEF append_assertion
  <2>2. tables'.events = tables.events \union {event}
    BY <1>s, <2>1, TablesAs
  <2> QED BY <2>1, <2>2
<1>8. CASE \E m \in tables.memories : governed_delete_memory(m)
  <2>1. \E rows : tables' = [tables EXCEPT !.memories = rows]
    BY <1>8 DEF governed_delete_memory
  <2> QED BY <1>1, <2>1
<1>9. CASE delete_memory
  <2>1. \E rows : tables' = [tables EXCEPT !.memories = rows]
    BY <1>9 DEF delete_memory
  <2> QED BY <1>1, <2>1
<1>10. CASE purge_memory \/ \E id \in 1..MaxMemories : update_memory_influence_policy(id)
  <2>1. \E rows : tables' = [tables EXCEPT !.policies = rows]
    BY <1>10 DEF purge_memory, update_memory_influence_policy
  <2> QED BY <1>2, <2>1
<1>11. CASE restore
  <2>1. CASE pending # None /\ Restorable
    <3>1. tables'.events = pending.state.tables.events \union tables.events
      BY <1>11, <2>1, Restored
    <3>2. validate_chain(Replacement.events)
      BY <2>1 DEF Restorable
    <3>3. Replacement.events = pending.state.tables.events \union tables.events
      BY DEF Replacement
    <3> QED BY <3>1, <3>2, <3>3
  <2> QED BY <1>3, <1>11, <2>1 DEF restore
<1>12. CASE UNCHANGED vars
  BY SMTT(30), <1>3, <1>12 DEF vars, store
<1>13. CASE read_chain \/ answer \/ \E e \in IF query = None THEN {} ELSE query.todo : read_evidence(e)
  BY <1>3, <1>13 DEF read_chain, answer, read_evidence, store
<1>14. CASE \/ append_forget \/ decref_memory_session_blob \/ collect
            \/ run_gc \/ Crash \/ store_blob
  BY <1>3, <1>14 DEF append_forget, decref_memory_session_blob, collect, run_gc, Crash,
                     store_blob, store
<1>15. CASE \/ \E incremental \in BOOLEAN : create(incremental)
            \/ \E s \in DOMAIN snapshots : delete(s)
            \/ \E s \in DOMAIN snapshots : export(s)
            \/ \E s \in DOMAIN snapshots : load_payload(s)
            \/ \E state \in exports : import(state)
  BY <1>3, <1>15 DEF create, delete, export, load_payload, import, store
<1>16. CASE Recreate
  BY <1>16
<1>17. CASE \E m \in tables.memories, value \in BOOLEAN, s \in tables.events \union {None} :
              append_assertion(m, value, s)
  BY <1>7, <1>17
<1> QED
  BY <1>4, <1>5, <1>6, <1>8, <1>9, <1>10, <1>11, <1>12, <1>13, <1>14, <1>15, <1>16, <1>17, Steps

LEMMA ChainStep ==
  ASSUME TablesOK, StatesOK, CountersOK, validate_chain(tables.events), [Next]_vars
  PROVE  validate_chain(tables.events)'
<1>1. CASE Recreate
  <2>1. tables'.events = {}
    BY <1>1 DEF Recreate, TABLES
  <2>2. 1..Cardinality({}) = {}
    BY FS_EmptySet
  <2> QED BY <2>1, <2>2 DEF validate_chain
<1>2. CASE ~Recreate
  <2> PICK events : events = tables'.events
    OBVIOUS
  <2>1. validate_chain(events)
    BY <1>2, EventsStay
  <2> QED BY <2>1 DEF validate_chain
<1> QED BY <1>1, <1>2

\* A query only changes by its reads.
LEMMA QueryStay ==
  ASSUME [Next]_vars
  PROVE  \/ query' = query \/ query' = None \/ read_chain
         \/ query # None /\ \E e : read_evidence(e)
<1>1. CASE UNCHANGED vars
  BY <1>1 DEF vars, tasks
<1>2. CASE \/ insert_memory \/ apply_memory_governance
           \/ store_blob \/ set_memory_session_blob
  BY <1>2 DEF insert_memory, apply_memory_governance, store_blob, set_memory_session_blob
<1>3. CASE \E m \in tables.memories, value \in BOOLEAN, s \in tables.events \union {None} :
              append_assertion(m, value, s)
  BY <1>3 DEF append_assertion, tasks
<1>4. CASE read_chain \/ answer
  BY SMTT(30), <1>4 DEF answer
<1>5. CASE \E e \in IF query = None THEN {} ELSE query.todo : read_evidence(e)
  BY <1>5 DEF read_evidence
<1>6. CASE \E m \in tables.memories : governed_delete_memory(m)
  BY <1>6 DEF governed_delete_memory
<1>7. CASE append_forget \/ decref_memory_session_blob \/ collect \/ delete_memory \/ purge_memory
  BY <1>7 DEF append_forget, decref_memory_session_blob, collect, delete_memory, purge_memory,
              ForgetGoes
<1>8. CASE \/ \E incremental \in BOOLEAN : create(incremental)
           \/ \E s \in DOMAIN snapshots : delete(s)
           \/ \E s \in DOMAIN snapshots : export(s)
           \/ \E s \in DOMAIN snapshots : load_payload(s)
           \/ \E state \in exports : import(state)
  BY <1>8 DEF create, delete, export, load_payload, import, tasks
<1>9. CASE \/ \E id \in 1..MaxMemories : update_memory_influence_policy(id)
           \/ run_gc \/ Crash \/ Recreate \/ restore
  BY <1>9 DEF update_memory_influence_policy, run_gc, Crash, Recreate, restore, tasks
<1> QED BY <1>1, <1>2, <1>3, <1>4, <1>5, <1>6, <1>7, <1>8, <1>9, Steps

\* What a query shows is superseded by nothing it has read.
LEMMA QueryStep ==
  ASSUME QueryOK, [Next]_vars
  PROVE  QueryOK'
<1>t. ASSUME NEW known, NEW todo, NEW visible, NEW withheld,
             query' = [known |-> known, todo |-> todo, visible |-> visible,
                       withheld |-> withheld],
             \A e \in visible : \A new \in known : new.supersedes # e
      PROVE  QueryOK'
  <2>1. /\ query' = [known |-> query'.known, todo |-> query'.todo,
                     visible |-> query'.visible, withheld |-> query'.withheld]
        /\ \A e \in query'.visible : \A new \in query'.known : new.supersedes # e
    BY <1>t
  <2> QED BY <2>1 DEF QueryOK, Superseded
<1>o. query # None =>
        /\ query = [known |-> query.known, todo |-> query.todo,
                    visible |-> query.visible, withheld |-> query.withheld]
        /\ \A e \in query.visible : \A new \in query.known : new.supersedes # e
  BY DEF QueryOK, Superseded
<1>1. CASE query' = query \/ query' = None
  BY <1>1 DEF QueryOK, Superseded
<1>2. CASE read_chain
  <2>1. query' = [known |-> tables.events, todo |-> tables.events,
                  visible |-> {}, withheld |-> FALSE]
    BY <1>2 DEF read_chain
  <2> QED BY <1>t, <2>1
<1>3. ASSUME NEW e, query # None, read_evidence(e) PROVE QueryOK'
  <2>1. CASE ~Candidate(e, query)
    <3>1. query' = [query EXCEPT !.todo = query.todo \ {e}]
      BY <1>3, <2>1 DEF read_evidence
    <3>2. query' = [known |-> query.known, todo |-> query.todo \ {e},
                    visible |-> query.visible, withheld |-> query.withheld]
      BY <1>3, <1>o, <3>1
    <3> QED BY <1>3, <1>o, <1>t, <3>2
  <2>2. CASE Candidate(e, query)
    <3>1. \A new \in query.known : new.supersedes # e
      BY <2>2 DEF Candidate, Superseded
    <3>2. CASE query' = [query EXCEPT !.todo = query.todo \ {e},
                                      !.visible = query.visible \union {e}]
      <4>1. query' = [known |-> query.known, todo |-> query.todo \ {e},
                      visible |-> query.visible \union {e}, withheld |-> query.withheld]
        BY <1>3, <1>o, <3>2
      <4> QED BY <1>3, <1>o, <1>t, <3>1, <4>1
    <3>3. CASE query' = [query EXCEPT !.todo = query.todo \ {e}, !.withheld = TRUE]
      <4>1. query' = [known |-> query.known, todo |-> query.todo \ {e},
                      visible |-> query.visible, withheld |-> TRUE]
        BY <1>3, <1>o, <3>3
      <4> QED BY <1>3, <1>o, <1>t, <4>1
    <3> QED BY <1>3, <2>2, <3>2, <3>3 DEF read_evidence
  <2> QED BY <2>1, <2>2
<1> QED BY <1>1, <1>2, <1>3, QueryStay

-----------------------------------------------------------------------------
(* The handles. *)

\* A new handle is above every handle given out before.
LEMMA HandedStep ==
  ASSUME CountersOK, TablesOK, HandedOK, HandlesAreStable, [Next]_vars
  PROVE  HandedOK' /\ HandlesAreStable'
<1>1. CASE insert_memory
  <2> PICK handle : handle = NextHandle
    OBVIOUS
  <2> PICK new : new = <<handle, born + 1>>
    OBVIOUS
  <2>1. highwater' = handle /\ handed' = handed \union {new}
    BY <1>1 DEF insert_memory
  <2>2. handle \in Nat /\ highwater \in Nat /\ highwater < handle /\ new[1] = handle
    BY NextHandleIsFresh DEF CountersOK
  <2>3. \A h \in handed : h[1] \in Nat /\ h[1] < handle
    BY <2>2 DEF HandedOK
  <2>4. \A h \in handed' : h[1] \in Nat /\ h[1] <= highwater'
    BY <2>1, <2>2, <2>3
  <2>5. \A h \in handed : h[1] # handle
    BY <2>2, <2>3
  <2>6. \A h \in handed : \A g \in handed : h[1] = g[1] => h = g
    BY DEF HandlesAreStable
  <2>7. \A h \in handed' : \A g \in handed' : h[1] = g[1] => h = g
    BY <2>1, <2>2, <2>5, <2>6
  <2> QED BY <2>4, <2>7 DEF HandedOK, HandlesAreStable
<1>2. CASE Recreate
  BY <1>2 DEF Recreate, HandedOK, HandlesAreStable
<1>3. CASE restore
  <2>1. handed' = handed
    BY <1>3 DEF restore, history
  <2>2. \/ highwater' = highwater
        \/ highwater' = Max({highwater} \union ids(tables.memories) \union ids(orphans))
    BY <1>3 DEF restore, Handles
  <2>3. highwater' \in Nat /\ highwater \in Nat /\ highwater <= highwater'
    BY <2>2, HandleSet DEF CountersOK
  <2>4. \A h \in handed : h[1] \in Nat /\ h[1] <= highwater'
    BY <2>3 DEF HandedOK
  <2> QED BY <2>1, <2>4 DEF HandedOK, HandlesAreStable
<1>4. CASE UNCHANGED <<highwater, restores, born, handed, recreates>>
  BY <1>4 DEF HandedOK, HandlesAreStable
<1> QED BY <1>1, <1>2, <1>3, <1>4, CountersStay

\* Only these steps change what is removed, and a forget goes past its ledger
\* entry by writing it.
LEMMA GoneStay ==
  ASSUME [Next]_vars
  PROVE  /\ insert_memory \/ delete_memory \/ Recreate \/ gone' = gone
         /\ \/ append_forget \/ delete_memory
            \/ forgetting' = forgetting \/ forgetting' = None
            \/ forgetting'.at = "ledger"
            \/ /\ forgetting # None /\ forgetting.at # "ledger"
               /\ \E to : forgetting' = [forgetting EXCEPT !.at = to]
<1>1. CASE UNCHANGED vars
  BY <1>1 DEF vars, tasks, history
<1>2. CASE \/ insert_memory \/ apply_memory_governance
           \/ store_blob \/ set_memory_session_blob
  BY <1>2 DEF insert_memory, apply_memory_governance, store_blob, set_memory_session_blob, history
<1>3. CASE \E m \in tables.memories, value \in BOOLEAN, s \in tables.events \union {None} :
              append_assertion(m, value, s)
  BY SMTT(30), <1>3 DEF append_assertion, tasks, history
<1>4. CASE read_chain \/ answer \/ \E e \in IF query = None THEN {} ELSE query.todo : read_evidence(e)
  BY <1>4 DEF read_chain, answer, read_evidence, history
<1>5. CASE \E m \in tables.memories : governed_delete_memory(m)
  <2>1. forgetting'.at = "ledger" /\ gone' = gone
    BY <1>5 DEF governed_delete_memory, history
  <2> QED BY <2>1
<1>6. CASE decref_memory_session_blob \/ collect \/ purge_memory
  BY <1>6 DEF decref_memory_session_blob, collect, purge_memory, ForgetGoes, history
<1>7. CASE \/ \E incremental \in BOOLEAN : create(incremental)
           \/ \E s \in DOMAIN snapshots : delete(s)
           \/ \E s \in DOMAIN snapshots : export(s)
           \/ \E s \in DOMAIN snapshots : load_payload(s)
           \/ \E state \in exports : import(state)
  BY <1>7 DEF create, delete, export, load_payload, import, tasks, history
<1>8. CASE \/ \E id \in 1..MaxMemories : update_memory_influence_policy(id)
           \/ run_gc \/ Crash \/ Recreate \/ restore
  BY <1>8 DEF update_memory_influence_policy, run_gc, Crash, Recreate, restore, tasks, history
<1>9. CASE append_forget
  BY <1>9 DEF append_forget, history
<1>10. CASE delete_memory
  BY <1>10
<1> QED BY <1>1, <1>2, <1>3, <1>4, <1>5, <1>6, <1>7, <1>8, <1>9, <1>10, Steps

\* A memory that is removed has a ledger entry.
LEMMA GoneStep ==
  ASSUME CountersOK, TablesOK, TasksOK, GoneOK, [Next]_vars
  PROVE  GoneOK'
<1>1. CASE Recreate
  BY <1>1 DEF Recreate, GoneOK
<1>2. CASE ~Recreate
  <2>1. \A id \in 1..MaxMemories : ledger[id] > 0 => ledger'[id] > 0
    BY <1>2, LedgerKeeps
  <2>2. CASE delete_memory
    <3>1. /\ forgetting # None /\ forgetting.at = "delete"
          /\ gone' = gone \union ids({r \in tables.memories : r.id = forgetting.id})
          /\ \/ forgetting' = None
             \/ forgetting' = [forgetting EXCEPT !.at = "purge"]
      BY <2>2 DEF delete_memory, ForgetGoes
    <3>2. forgetting.id \in 1..MaxMemories /\ ledger[forgetting.id] > 0
      BY <3>1 DEF TasksOK, GoneOK
    <3>3. gone' \subseteq gone \union {forgetting.id}
      BY <3>1 DEF ids
    <3>4. forgetting' # None => forgetting'.id = forgetting.id
      BY <3>1 DEF TasksOK
    <3> QED BY <2>1, <3>2, <3>3, <3>4 DEF GoneOK
  <2>3. CASE ~delete_memory
    <3>1. gone' \subseteq gone
      <4>1. insert_memory => gone' \subseteq gone
        BY DEF insert_memory
      <4> QED BY <1>2, <2>3, <4>1, GoneStay
    <3>2. gone' \subseteq 1..MaxMemories /\ \A id \in gone' : ledger'[id] > 0
      BY <2>1, <3>1 DEF GoneOK
    <3>3. forgetting' # None /\ forgetting'.at # "ledger" => ledger'[forgetting'.id] > 0
      <4>1. CASE append_forget
        <5>1. /\ forgetting # None /\ Logged(forgetting.id)
              /\ \/ forgetting' = None
                 \/ forgetting' = [forgetting EXCEPT !.at = "decref"]
          BY <4>1 DEF append_forget, ForgetGoes
        <5>2. forgetting \in [id : 1..MaxMemories, at : Stages]
              /\ ledger \in [1..MaxMemories -> Nat]
          BY <5>1 DEF TasksOK, CountersOK
        <5>3. /\ forgetting' # None => forgetting'.id = forgetting.id
              /\ forgetting.id \in 1..MaxMemories
          BY <5>1, <5>2
        <5>4. ledger'[forgetting.id] = ledger[forgetting.id] + 1
          BY <5>1, <5>2 DEF Logged
        <5> QED BY <5>2, <5>3, <5>4
      <4>2. CASE /\ forgetting # None /\ forgetting.at # "ledger"
                 /\ \E to : forgetting' = [forgetting EXCEPT !.at = to]
        <5>1. /\ forgetting \in [id : 1..MaxMemories, at : Stages]
              /\ ledger[forgetting.id] > 0
          BY <4>2 DEF TasksOK, GoneOK
        <5>2. forgetting'.id = forgetting.id
          BY <4>2, <5>1
        <5> QED BY <2>1, <5>1, <5>2
      <4>3. CASE forgetting' = forgetting
        BY <2>1, <4>3 DEF GoneOK, TasksOK
      <4>4. CASE forgetting' = None \/ forgetting'.at = "ledger"
        BY <4>4
      <4> QED BY <2>3, <4>1, <4>2, <4>3, <4>4, GoneStay
    <3> QED BY <3>2, <3>3 DEF GoneOK
  <2> QED BY <2>2, <2>3
<1> QED BY <1>1, <1>2

\* A removed memory that comes back is hidden.
LEMMA RemovedStep ==
  ASSUME CountersOK, TablesOK, TasksOK, StatesOK, GoneOK, RemovedReturnsHidden, [Next]_vars
  PROVE  RemovedReturnsHidden'
<1>t. ASSUME \A r \in tables'.memories : r.id \in gone' => r.tombstoned
      PROVE  RemovedReturnsHidden'
  BY <1>t DEF RemovedReturnsHidden
<1>o. \A r \in tables.memories : r.id \in gone => r.tombstoned
  BY DEF RemovedReturnsHidden
<1>1. CASE insert_memory
  <2> PICK handle : handle = NextHandle
    OBVIOUS
  <2>1. PICK row : row.id = handle /\ tables'.memories = tables.memories \union {row}
    BY <1>1, InsertFacts
  <2>2. gone' = gone \ {handle}
    BY <1>1 DEF insert_memory
  <2> QED BY <1>t, <1>o, <2>1, <2>2
<1>2. CASE Recreate
  BY <1>2 DEF Recreate, RemovedReturnsHidden
<1>3. CASE delete_memory
  <2> PICK found : found = {r \in tables.memories : r.id = forgetting.id}
    OBVIOUS
  <2>1. /\ tables' = [tables EXCEPT !.memories = tables.memories \ found]
        /\ gone' = gone \union ids(found)
    BY <1>3 DEF delete_memory
  <2>2. tables'.memories = tables.memories \ found
    BY <2>1, TablesAs DEF TablesOK, TABLES
  <2>3. \A r \in tables'.memories : r \in tables.memories /\ r.id # forgetting.id
    BY <2>2
  <2>4. \A id \in ids(found) : id = forgetting.id
    BY DEF ids
  <2> QED BY <1>t, <1>o, <2>1, <2>3, <2>4
<1>4. CASE restore
  <2>g. gone' = gone
    BY <1>4 DEF restore, history
  <2>1. CASE pending # None /\ Restorable
    <3> PICK past : past = pending.state.tables.memories
      OBVIOUS
    <3>1. tables'.memories = {Merged(row) : row \in past} /\ past \subseteq Rows
      BY <1>4, <2>1, Restored
    <3>2. ASSUME NEW row \in past, Merged(row).id \in gone
          PROVE  Merged(row).tombstoned
      <4>1. row \in Rows /\ Merged(row).id = row.id
        BY <3>1, MergedFacts
      <4>2. CASE Live(row.id) = {}
        BY <3>2, <4>1, <4>2, MergedFacts DEF GoneOK
      <4>3. CASE Live(row.id) # {}
        <5>1. PICK live \in tables.memories : live.id = row.id
          BY <4>3 DEF Live
        <5>2. live.tombstoned
          BY <1>o, <3>2, <4>1, <5>1
        <5> QED BY <4>1, <5>1, <5>2, MergedFacts
      <4> QED BY <4>2, <4>3
    <3> QED BY <1>t, <2>g, <3>1, <3>2
  <2>2. CASE ~(pending # None /\ Restorable)
    <3>1. tables' = tables
      BY <1>4, <2>2 DEF restore
    <3> QED BY <1>t, <1>o, <2>g, <3>1
  <2> QED BY <2>1, <2>2
<1>5. CASE /\ gone' = gone
           /\ \A r \in tables'.memories : \E s \in tables.memories :
                r.id = s.id /\ (s.tombstoned => r.tombstoned)
  BY <1>t, <1>o, <1>5
<1>6. insert_memory \/ restore \/ Recreate \/ delete_memory
      \/ \A r \in tables'.memories : \E s \in tables.memories :
           r.id = s.id /\ (s.tombstoned => r.tombstoned)
  BY RowsCarry
<1> QED BY <1>1, <1>2, <1>3, <1>4, <1>5, <1>6, GoneStay

-----------------------------------------------------------------------------
(* The theorems. *)

Inv ==
  /\ CountersOK /\ TablesOK /\ MapsOK /\ TasksOK /\ StatesOK /\ validate_chain(tables.events)
  /\ HandedOK /\ HandlesAreStable /\ GoneOK /\ RemovedReturnsHidden /\ QueryOK
  /\ CreditOK /\ SourcesSurvive

LEMMA Invariant == Spec => []Inv
<1>1. Init => Inv
  <2> SUFFICES ASSUME Init PROVE Inv
    OBVIOUS
  <2>1. /\ tables = [t \in TABLES |-> {}]
        /\ tables.memories = {} /\ tables.policies = {} /\ tables.events = {}
        /\ orphans = {}
    BY DEF Init, TABLES
  <2>2. CountersOK
    BY CheckpointAssumption DEF Init, CountersOK
  <2>3. TablesOK
    <3>1. tables = [t \in TABLES |-> tables[t]]
      BY <2>1
    <3> QED BY <2>1, <3>1 DEF TablesOK, Numbered, NumberedTo, Keyed, PoliciesOK, ids
  <2>4. MapsOK /\ TasksOK /\ StatesOK
    BY DEF Init, MapsOK, Counts, TasksOK, StatesOK, Restoring
  <2>5. validate_chain(tables.events)
    <3>1. 1..Cardinality({}) = {}
      BY FS_EmptySet
    <3> QED BY <2>1, <3>1 DEF validate_chain
  <2>6. HandedOK /\ HandlesAreStable /\ GoneOK /\ QueryOK
    BY DEF Init, HandedOK, HandlesAreStable, GoneOK, QueryOK
  <2>7. RemovedReturnsHidden /\ SourcesSurvive
    BY <2>1 DEF RemovedReturnsHidden, SourcesSurvive
  <2>8. CreditOK
    <3>1. credit = NoCredit /\ writing = None
      BY DEF Init
    <3>2. IsFiniteSet(credit.held) /\ \A b : Holders(b) = {} /\ ~Linking(b)
      BY <3>1, FS_EmptySet DEF NoCredit, Holders, Linking
    <3>3. \A b : Claimed(b) = 0
      BY <3>2, FS_EmptySet DEF Claimed
    <3> QED BY <3>1, <3>2, <3>3 DEF CreditOK, NoCredit
  <2> QED BY <2>2, <2>3, <2>4, <2>5, <2>6, <2>7, <2>8 DEF Inv
<1>2. Inv /\ [Next]_vars => Inv'
  <2> SUFFICES ASSUME Inv, [Next]_vars PROVE Inv'
    OBVIOUS
  <2>1. /\ CountersOK /\ TablesOK /\ MapsOK /\ TasksOK /\ StatesOK
        /\ validate_chain(tables.events) /\ HandedOK /\ HandlesAreStable /\ GoneOK
        /\ RemovedReturnsHidden /\ QueryOK /\ CreditOK /\ SourcesSurvive
    BY DEF Inv
  <2>2. CountersOK' /\ TablesOK' /\ MapsOK' /\ TasksOK' /\ StatesOK'
    BY <2>1, CountersStep, TablesStep, MapsStep, TasksStep, StatesStep
  <2>3. validate_chain(tables.events)' /\ QueryOK' /\ CreditOK' /\ SourcesSurvive'
    BY <2>1, <2>2, ChainStep, QueryStep, CreditStep, SourcesStep
  <2>4. HandedOK' /\ HandlesAreStable' /\ GoneOK' /\ RemovedReturnsHidden'
    BY <2>1, HandedStep, GoneStep, RemovedStep
  <2> QED BY <2>2, <2>3, <2>4 DEF Inv
<1> QED BY <1>1, <1>2, PTL DEF Spec

\* The tables keep their keys, the chain of assertions is valid, and no count
\* of a stored transcript or envelope falls below zero (checkpoint.rs restore,
\* db.rs decref_blob).
THEOREM TypeCorrect == Spec => []TypeOK
<1>1. Inv => TypeOK
  <2> SUFFICES ASSUME Inv PROVE TypeOK
    OBVIOUS
  <2>1. TablesOK /\ MapsOK /\ validate_chain(tables.events)
    BY DEF Inv
  <2>2. tables.memories \subseteq Rows /\ orphans \subseteq Rows
    BY <2>1 DEF TablesOK, Numbered, NumberedTo
  <2>3. /\ \A r \in tables.memories : \A s \in tables.memories : r.id = s.id => r = s
        /\ \A r \in orphans : \A s \in orphans : r.id = s.id => r = s
        /\ \A r \in tables.memories : \A s \in orphans : r.id # s.id
    <3>1. \A r \in tables.memories : \A s \in tables.memories : r.id = s.id => r = s
      BY <2>1 DEF TablesOK, Keyed
    <3>2. \A r \in orphans : \A s \in orphans : r.id = s.id => r = s
      BY <2>1 DEF TablesOK, Keyed
    <3>3. ASSUME NEW r \in tables.memories, NEW s \in orphans PROVE r.id # s.id
      <4>1. r.id \in ids(tables.memories) /\ s.id \in ids(orphans)
        BY DEF ids
      <4> QED BY <2>1, <4>1 DEF TablesOK
    <3> QED BY <3>1, <3>2, <3>3
  <2>4. \A r, s \in tables.memories \union orphans : r.id = s.id => r = s
    BY <2>3
  <2>5. /\ \A p, q \in tables.policies : p.id = q.id => p = q
        /\ \A p \in tables.policies : p.version \in 1..MaxVersion
        /\ ids(tables.memories) \intersect ids(orphans) = {}
    BY <2>1 DEF TablesOK, PoliciesOK, Keyed
  <2>6. Range(sources) \subseteq Nat /\ Range(objects) \subseteq Nat
    BY <2>1 DEF MapsOK, Counts, Range
  <2> QED BY <2>1, <2>2, <2>4, <2>5, <2>6 DEF TypeOK
<1> QED BY <1>1, Invariant, PTL

\* The collector takes nothing that a snapshot, a delta or a memory refers to,
\* and every snapshot gives the state it was taken of (checkpoint.rs delete,
\* db.rs gc_blobs).  Exempt is a memory linked to a transcript whose count a row
\* without a reference had drawn on: between the store and the link of a
\* transcript (compress.rs) only its count keeps it, and the invariant is that a
\* count not so drawn on covers every reference held.
THEOREM ReferencedStays == Spec => []ReferencedIsKept
<1>1. Inv => ReferencedIsKept
  <2> SUFFICES ASSUME Inv PROVE ReferencedIsKept
    OBVIOUS
  <2>1. SnapshotsLoad
    BY DEF Inv, StatesOK, EnvelopeOK, SnapshotsLoad
  <2> QED BY <2>1 DEF Inv, ReferencedIsKept
<1> QED BY <1>1, Invariant, PTL

\* A restored row under the handle of a removed memory has a tombstone: a
\* memory goes only after its ledger entry, and restore hides what has one
\* (checkpoint.rs restore, db.rs governed_delete_memory).
THEOREM RemovedStaysHidden == Spec => []RemovedReturnsHidden
<1>1. Inv => RemovedReturnsHidden
  BY DEF Inv
<1> QED BY <1>1, Invariant, PTL

\* The database never gives one handle to two memories it remembers: the next
\* one is above the mark, and no step lowers the mark (db.rs insert_memory).
THEOREM HandlesStay == Spec => []HandlesAreStable
<1>1. Inv => HandlesAreStable
  BY DEF Inv
<1> QED BY <1>1, Invariant, PTL

\* An answer calls no claim current that one it has read supersedes, whatever
\* became of the evidence of the other (assertions.rs handle).
THEOREM SupersededStays == Spec => []SupersededStaysDown
<1>1. Inv => SupersededStaysDown
  <2> SUFFICES ASSUME Inv, query # None, query.todo = {}, current_id(query) # None,
                      NEW e \in query.known
               PROVE  e.supersedes # current_id(query)
    BY DEF SupersededStaysDown
  <2>1. /\ Cardinality(query.visible) = 1
        /\ current_id(query) = CHOOSE c \in query.visible : TRUE
    BY DEF current_id
  <2>2. query.visible # {}
    BY <2>1, FS_EmptySet
  <2>3. current_id(query) \in query.visible
    BY <2>1, <2>2
  <2> QED BY <2>3 DEF Inv, QueryOK, Superseded
<1> QED BY <1>1, Invariant, PTL

\* No step but a new database drops an assertion event: a restore unites the
\* chain of the snapshot with the live one (checkpoint.rs restore).
THEOREM HistoryStays == Spec => HistoryNeverShrinks
<1>1. Inv /\ [Next]_vars =>
        [recreates' = recreates => tables.events \subseteq tables'.events]_vars
  <2> SUFFICES ASSUME Inv, [Next]_vars, recreates' = recreates
               PROVE  tables.events \subseteq tables'.events
    OBVIOUS
  <2>1. ~Recreate
    <3>1. recreates \in Nat
      BY DEF Inv, CountersOK
    <3>2. recreates # recreates + 1
      BY <3>1
    <3> QED BY <3>2 DEF Recreate
  <2> QED BY <2>1, EventsStay DEF Inv
<1> QED BY <1>1, Invariant, PTL DEF Spec, HistoryNeverShrinks

\* A restore lifts no limit, no tombstone and no policy of a memory that is
\* there (checkpoint.rs restore, merge of the live restrictions).
THEOREM RestoreTightens == Spec => RestoreOnlyTightens
<1> DEFINE Tightens ==
      restores' = restores + 1 =>
        \A old \in tables.memories, new \in tables'.memories :
          old.id = new.id =>
            /\ old.limits \subseteq new.limits
            /\ old.tombstoned => new.tombstoned
            /\ \A p \in tables.policies : p.id = old.id => p \in tables'.policies
<1>1. Inv /\ [Next]_vars => Tightens
  <2> SUFFICES ASSUME Inv, [Next]_vars, restores' = restores + 1,
                      NEW old \in tables.memories, NEW new \in tables'.memories,
                      old.id = new.id
               PROVE  /\ old.limits \subseteq new.limits
                      /\ old.tombstoned => new.tombstoned
                      /\ \A p \in tables.policies : p.id = old.id => p \in tables'.policies
    OBVIOUS
  <2>1. TablesOK /\ StatesOK /\ CountersOK
    BY DEF Inv
  <2>2. restore /\ pending # None /\ Restorable
    <3>1. restores \in Nat /\ restores' # restores /\ restores' # 0
      BY <2>1 DEF CountersOK
    <3>2. ~insert_memory /\ ~Recreate
      BY <3>1 DEF insert_memory, Recreate
    <3>3. restore
      BY <3>1, <3>2, CountersStay
    <3> QED BY <3>1, <3>3 DEF restore
  <2> PICK past : past = pending.state.tables.memories
    OBVIOUS
  <2>3. /\ tables'.memories = {Merged(row) : row \in past}
        /\ LivePolicies \subseteq tables'.policies
        /\ past \subseteq Rows
    BY <2>1, <2>2, Restored
  <2>4. PICK row \in past : new = Merged(row)
    BY <2>3
  <2>5. row \in Rows /\ old.id = row.id
    BY <2>1, <2>3, <2>4, MergedFacts
  <2>6. old.limits \subseteq new.limits /\ (old.tombstoned => new.tombstoned)
    BY <2>1, <2>4, <2>5, MergedFacts
  <2>7. \A p \in tables.policies : p.id = old.id => p \in LivePolicies
    <3>1. old.id \in Handles /\ old.id \in ids(pending.state.tables.memories)
      BY <2>4, <2>5 DEF Handles, ids
    <3> QED BY <3>1 DEF LivePolicies
  <2> QED BY <2>3, <2>6, <2>7
<1>2. Inv /\ [Next]_vars => [Tightens]_vars
  BY <1>1
<1> QED BY <1>2, Invariant, PTL DEF Spec, RestoreOnlyTightens


-----------------------------------------------------------------------------
(* Opening a store. *)

\* Ids that are not none have a least.
LEMMA MinIsIn ==
  ASSUME NEW S \in SUBSET Nat, S # {}
  PROVE  Min(S) \in S /\ \A x \in S : Min(S) <= x
<1>1. PICK k \in S : \A l \in S : <<l, k>> \notin OpToRel(<, Nat)
  BY WFMin, NatLessThanWellFounded
<1>2. \A l \in S : k <= l
  <2>1. \A l \in S : ~(l < k)
    BY <1>1 DEF OpToRel
  <2>2. \A l \in S : l \in Nat /\ k \in Nat
    OBVIOUS
  <2> QED BY <2>1, <2>2
<1>3. \E k2 \in S : \A l \in S : k2 =< l
  BY <1>2
<1> QED BY <1>3 DEF Min

\* Every statement makes a table, a column or an index.
IsStatement(s) ==
  \/ \E name : s = Table(name)
  \/ \E table, name : s = Column(table, name)
  \/ \E table, name : s = Index(table, name)

IsList(L) == L \in Seq(Range(L)) /\ \A s \in Range(L) : IsStatement(s)

LEMMA ListDomain ==
  ASSUME NEW L, IsList(L)
  PROVE  Len(L) \in Nat /\ DOMAIN L = 1..Len(L)
BY LenProperties DEF IsList

LEMMA ListConcat ==
  ASSUME NEW s, NEW t, IsList(s), IsList(t)
  PROVE  IsList(s \o t) /\ Range(s \o t) = Range(s) \union Range(t)
<1> DEFINE T == Range(s) \union Range(t)
<1>1. s \in Seq(T) /\ t \in Seq(T)
  BY SeqMonotonic DEF IsList
<1> HIDE DEF T
<1>2. /\ s \o t \in Seq(T) /\ Len(s \o t) = Len(s) + Len(t)
      /\ \A i \in 1..Len(s) + Len(t) :
           (s \o t)[i] = IF i <= Len(s) THEN s[i] ELSE t[i - Len(s)]
  BY <1>1, ConcatProperties
<1>3. /\ Len(s) \in Nat /\ DOMAIN s = 1..Len(s)
      /\ Len(t) \in Nat /\ DOMAIN t = 1..Len(t)
      /\ DOMAIN (s \o t) = 1..Len(s) + Len(t)
  BY <1>1, <1>2, LenProperties
<1>4. ASSUME NEW x \in Range(s \o t) PROVE x \in Range(s) \union Range(t)
  <2>1. PICK i \in 1..Len(s) + Len(t) : x = (s \o t)[i]
    BY <1>3 DEF Range
  <2>2. CASE i <= Len(s)
    <3>1. i \in DOMAIN s /\ x = s[i]
      BY <1>2, <1>3, <2>1, <2>2
    <3> QED BY <3>1 DEF Range
  <2>3. CASE ~(i <= Len(s))
    <3>1. i - Len(s) \in DOMAIN t /\ x = t[i - Len(s)]
      BY <1>2, <1>3, <2>1, <2>3
    <3> QED BY <3>1 DEF Range
  <2> QED BY <2>2, <2>3
<1>5. ASSUME NEW x \in Range(s) PROVE x \in Range(s \o t)
  <2>1. PICK i \in 1..Len(s) : x = s[i]
    BY <1>3 DEF Range
  <2>2. i \in DOMAIN (s \o t) /\ x = (s \o t)[i]
    BY <1>2, <1>3, <2>1
  <2> QED BY <2>2 DEF Range
<1>6. ASSUME NEW x \in Range(t) PROVE x \in Range(s \o t)
  <2>1. PICK i \in 1..Len(t) : x = t[i]
    BY <1>3 DEF Range
  <2>2. Len(s) + i \in DOMAIN (s \o t) /\ x = (s \o t)[Len(s) + i]
    BY <1>2, <1>3, <2>1
  <2> QED BY <2>2 DEF Range
<1>7. Range(s \o t) = Range(s) \union Range(t)
  BY <1>4, <1>5, <1>6
<1>8. s \o t \in Seq(Range(s \o t))
  BY <1>2, <1>7 DEF T
<1> QED BY <1>7, <1>8 DEF IsList

LEMMA TablesList ==
  ASSUME NEW names, Len(names) \in Nat, DOMAIN names = 1..Len(names)
  PROVE  IsList(Tables(names))
<1>1. \A s \in Range(Tables(names)) : IsStatement(s)
  BY DEF Range, Tables, IsStatement
<1>2. Tables(names) \in [1..Len(names) -> Range(Tables(names))]
  BY DEF Range, Tables
<1> QED BY <1>1, <1>2, SeqDef DEF IsList

LEMMA ColumnsList ==
  ASSUME NEW table, NEW names, Len(names) \in Nat, DOMAIN names = 1..Len(names)
  PROVE  IsList(Columns(table, names))
<1>1. \A s \in Range(Columns(table, names)) : IsStatement(s)
  BY DEF Range, Columns, IsStatement
<1>2. Columns(table, names) \in [1..Len(names) -> Range(Columns(table, names))]
  BY DEF Range, Columns
<1> QED BY <1>1, <1>2, SeqDef DEF IsList

LEMMA ListsAreStatements ==
  IsList(BeforeBackfill) /\ IsList(EvidenceGroup) /\ IsList(AfterBackfill)
<1>1. IsList(SessionGroup)
  BY ListConcat, TablesList, ColumnsList DEF SessionGroup
<1>2. IsList(MemoryGroup)
  BY ListConcat, TablesList, ColumnsList DEF MemoryGroup
<1>3. IsList(add_memory_meta_column)
  <2>1. IsList(<<Index("memory_meta", "namespace"),
                 Index("memory_meta", "retention_policy_id")>>)
    BY DEF IsList, IsStatement, Range
  <2> QED BY SMTT(30), <2>1, ListConcat, ColumnsList DEF add_memory_meta_column
<1>4. IsList(EvidenceGroup)
  <2>1. IsList(<<Index("memory_meta", "evidence_root_id")>>)
    BY DEF IsList, IsStatement, Range
  <2> QED BY <2>1, ListConcat, TablesList, ColumnsList DEF EvidenceGroup
<1>5. IsList(SyncGroup)
  BY ListConcat, TablesList, ColumnsList DEF SyncGroup
<1>6. IsList(InfluenceGroup)
  BY TablesList DEF InfluenceGroup
<1>7. IsList(ContradictionGroup)
  BY TablesList DEF ContradictionGroup
<1>8. IsList(LedgerGroup)
  BY TablesList DEF LedgerGroup
<1>9. IsList(GraphGroup)
  BY TablesList DEF GraphGroup
<1>10. IsList(ChunkGroup)
  BY TablesList DEF ChunkGroup
<1>11. IsList(AnchorGroup)
  BY TablesList DEF AnchorGroup
<1>12. IsList(CheckpointGroup)
  BY TablesList DEF CheckpointGroup
<1>13. IsList(AccessGroup)
  BY TablesList DEF AccessGroup
<1>14. IsList(Tables(<<"schema_migrations">>))
  BY TablesList
<1>15. IsList(BeforeBackfill)
  BY <1>1, <1>2, <1>3, <1>14, ListConcat DEF BeforeBackfill
<1>16. IsList(AfterBackfill)
  BY <1>5, <1>6, <1>7, <1>8, <1>9, <1>10, <1>11, <1>12, <1>13, ListConcat
  DEF AfterBackfill
<1> QED BY <1>4, <1>15, <1>16

LEMMA SchemaIsLists ==
  /\ Schema = Range(BeforeBackfill) \union Range(EvidenceGroup) \union Range(AfterBackfill)
  /\ \A s \in Schema : IsStatement(s)
<1>1. IsList(AllStatements)
  BY ListsAreStatements, ListConcat DEF AllStatements
<1>2. Range(AllStatements) =
        Range(BeforeBackfill) \union Range(EvidenceGroup) \union Range(AfterBackfill)
  BY ListsAreStatements, ListConcat DEF AllStatements
<1> QED BY <1>1, <1>2 DEF Schema, IsList

\* What a list of statements leaves when none of them ended the start.
MadeBy(L) ==
  \A i \in DOMAIN L :
    /\ L[i] \in schema \/ (backend = "sqlite" /\ L[i].kind = "column")
    /\ L[i].kind = "index" => Column(L[i].table, L[i].column) \in schema

LEMMA StatementsRun ==
  ASSUME NEW p, NEW from, NEW list, NEW to, to # "down",
         IsList(list), Statements(p, from, list, to)
  PROVE  /\ schema \subseteq schema' /\ schema' \subseteq schema \union Range(list)
         /\ \E end \in {to, "down"} :
              /\ pc[p] = from /\ pc' = [pc EXCEPT ![p] = end]
              /\ end = to => MadeBy(list)'
         /\ UNCHANGED <<backend, storeRows, migration, locals, starts, began, late, torn, lost>>
<1> DEFINE dropped(bad) == bad # 0 /\ backend = "sqlite" /\ list[bad].kind = "column"
           present(bad, i) == {list[j] : j \in (1..i - 1) \ {bad}}
           stops(bad)   == {i \in DOMAIN list :
                              \/ i = bad /\ ~dropped(bad)
                              \/ /\ list[i].kind = "index"
                                 /\ Column(list[i].table, list[i].column)
                                      \notin schema \union present(bad, i)}
           last(bad)    == Min(stops(bad) \union {Len(list) + 1})
<1>1. PICK bad \in {i \in DOMAIN list : list[i] \in Fallible} \union {0} :
        /\ Goto(p, from, IF stops(bad) = {} THEN to ELSE "down")
        /\ schema' = schema \union present(bad, last(bad))
        /\ UNCHANGED <<backend, storeRows, migration, locals, starts, began, late, torn, lost>>
  BY DEF Statements
<1>2. Len(list) \in Nat /\ DOMAIN list = 1..Len(list)
  BY ListDomain
<1>3. last(bad) \in stops(bad) \union {Len(list) + 1}
  <2>1. stops(bad) \union {Len(list) + 1} \in SUBSET Nat
    BY <1>2
  <2> QED BY <2>1, MinIsIn
<1>4. last(bad) \in 1..Len(list) + 1
  <2>1. stops(bad) \subseteq 1..Len(list)
    BY <1>2
  <2> HIDE DEF stops, last
  <2> QED BY <1>2, <1>3, <2>1
<1>5. schema \subseteq schema' /\ schema' \subseteq schema \union Range(list)
  <2>1. \A j \in 1..last(bad) - 1 : j \in DOMAIN list
    BY <1>2, <1>4
  <2>2. \A j \in DOMAIN list : list[j] \in Range(list)
    BY DEF Range
  <2> QED BY <1>1, <2>1, <2>2
<1>6. ASSUME stops(bad) = {} PROVE MadeBy(list)'
  <2>1. last(bad) = Len(list) + 1
    BY <1>3, <1>6
  <2>2. \A i \in DOMAIN list : i \in (1..last(bad) - 1)
    BY <1>2, <2>1
  <2> SUFFICES ASSUME NEW i \in DOMAIN list
               PROVE  /\ list[i] \in schema' \/ (backend' = "sqlite" /\ list[i].kind = "column")
                      /\ list[i].kind = "index" =>
                           Column(list[i].table, list[i].column) \in schema'
    BY DEF MadeBy
  <2>3. i \notin stops(bad)
    BY <1>6
  <2>4. list[i] \in schema' \/ (backend' = "sqlite" /\ list[i].kind = "column")
    <3>1. CASE i = bad
      BY <1>1, <2>3, <3>1
    <3>2. CASE i # bad
      BY <1>1, <2>2, <3>2
    <3> QED BY <3>1, <3>2
  <2>5. ASSUME list[i].kind = "index"
        PROVE  Column(list[i].table, list[i].column) \in schema'
    <3>1. Column(list[i].table, list[i].column) \in schema \union present(bad, i)
      BY <2>3, <2>5
    <3>2. present(bad, i) \subseteq present(bad, last(bad))
      <4>1. 1..i - 1 \subseteq 1..last(bad) - 1
        <5> HIDE DEF last
        <5> QED BY <1>2, <2>1
      <4> HIDE DEF last
      <4> QED BY <4>1
    <3> QED BY <1>1, <3>1, <3>2
  <2> QED BY SMTT(30), <2>4, <2>5
<1>7. CASE stops(bad) = {}
  <2>1. Goto(p, from, to)
    BY <1>1, <1>7
  <2> QED BY <1>1, <1>5, <1>6, <1>7, <2>1 DEF Goto
<1>8. CASE stops(bad) # {}
  <2>1. Goto(p, from, "down")
    BY <1>1, <1>8
  <2> QED BY <1>1, <1>5, <2>1 DEF Goto
<1> QED BY <1>7, <1>8

-----------------------------------------------------------------------------
(* The inductive invariant of a start. *)

Writing     == {"update", "delete", "insert"}
Walking     == {"walk"} \union Writing
Backfilling == {"begin", "select", "progress"} \union Walking
Describing  == Backfilling \union {"evidence", "repair", "read", "complete", "fail", "after"}

StoreTypes ==
  /\ backend \in {"sqlite", "postgres"}
  /\ schema \subseteq Schema
  /\ stored \subseteq Memory /\ meta \subseteq stored
  /\ parent \in [Memory -> Legacy \union {Gone, Null}]
  /\ root \in [Memory -> Memory \union {Null}]
  /\ depth \in [Memory -> Nat]
  /\ primary \subseteq [memory : meta, root : Memory]
  /\ migration \in [status : {"none", "running", "complete", "failed"},
                    cursor : Legacy \union {0}]

ProcessTypes ==
  /\ pc \in [Process -> PC]
  /\ pc[Writer] \in Writing \union {"down", "govern"}
  /\ \A p \in Starter : pc[p] # "govern"
  /\ cursor \in [Process -> Legacy \union {0}]
  /\ batch \in [Process -> SUBSET Legacy]
  /\ at \in [Process -> Legacy \union {Gone, 0}]
  /\ chain \in [Process -> Seq(Legacy)]
  /\ write = [p \in Process |-> write[p]]

PastTypes ==
  /\ began = [p \in Starter |-> began[p]] /\ \A p \in Starter : began[p] \subseteq stored
  /\ torn \subseteq Memory /\ lost \subseteq torn

\* A memory that was remembered has its root from the first on; a row without
\* metadata has none.
RootedOrNot ==
  /\ New \in stored => New \in meta
  /\ New \in meta => root[New] # Null
  /\ New \notin stored => parent[New] = Null /\ depth[New] = 0
  /\ pc[Writer] # "down" => New \in meta
  /\ \A m \in Memory \ meta : root[m] = Null

\* A parent is there or gone, and has metadata when roots are given.
Parents ==
  /\ \A m \in Memory : parent[m] \in stored \union {Gone, Null}
  /\ \A m \in Memory :
       (root[m] # Null \/ \E p \in Starter : pc[p] \in Describing) =>
         parent[m] \notin stored \ meta

\* A backfill is at work, or waits to be resumed.
AtWork == migration.status = "running" \/ \E p \in Starter : pc[p] \in Describing

DescribedBefore ==
  /\ \A p \in Starter : pc[p] \in Describing \union {"ready"} => began[p] \subseteq meta
  /\ AtWork => stored \ late \subseteq meta

\* What a cursor has passed is rooted.
RootedTo(c) == \A m \in stored \ late : m <= c => root[m] # Null

Passed ==
  /\ migration.status = "running" => RootedTo(migration.cursor)
  /\ \A p \in Starter :
       /\ pc[p] \in Backfilling => RootedTo(cursor[p])
       /\ pc[p] \in {"complete", "after", "ready"} =>
            \A m \in began[p] \ late : root[m] # Null

\* What has no root is in the batch or comes after it.
Batches ==
  \A p \in Starter :
    /\ pc[p] \in Walking =>
         /\ batch[p] # {} /\ batch[p] \subseteq meta
         /\ \A m \in stored \ late :
              root[m] = Null => m \in batch[p] \/ \A b \in batch[p] : b < m
    /\ pc[p] \notin Walking \union {"fail"} => chain[p] = <<>>

\* The chain leads from the batch's first memory to the row at hand.
Subject(p) == IF pc[p] = "walk" THEN at[p] ELSE write[p].memory

ChainOf(p) ==
  /\ \A i \in 1..Len(chain[p]) : chain[p][i] \in meta
  /\ \A i \in 1..Len(chain[p]) - 1 : parent[chain[p][i]] = chain[p][i + 1]
  /\ chain[p] = <<>> => Subject(p) = Min(batch[p])
  /\ chain[p] # <<>> => chain[p][1] = Min(batch[p]) /\ parent[Last(chain[p])] = Subject(p)

Chains == \A p \in Starter : pc[p] \in Walking => ChainOf(p)

Inherits(m, r, d) ==
  IF parent[m] \in meta
  THEN r = root[parent[m]] /\ d = depth[parent[m]] + 1
  ELSE r = OwnRoot(m) /\ d = 0

\* A root that is being written is what the memory inherits, and the metadata
\* has it from the first of the three statements on.
WriteOf(p) ==
  /\ write[p] \in [memory : meta, root : Memory, depth : Nat]
  /\ (write[p].memory = New) <=> (p = Writer)
  /\ Inherits(write[p].memory, write[p].root, write[p].depth)
  /\ (pc[p] # "update" \/ p = Writer) =>
       root[write[p].memory] = write[p].root /\ depth[write[p].memory] = write[p].depth

Writes == \A p \in Process : pc[p] \in Writing => WriteOf(p)

RowsMatch ==
  /\ \A row \in primary :
       row.memory \notin torn /\ ~(row.memory = New /\ pc[Writer] \in {"update", "delete"}) =>
         row.root = root[row.memory]
  /\ \A m \in meta \ lost :
       root[m] # Null /\ (\A p \in Process : ~Persisting(p, m)) =>
         [memory |-> m, root |-> root[m]] \in primary

Made ==
  \A p \in Starter :
    /\ pc[p] \notin {"down", "before"} => MadeBy(BeforeBackfill)
    /\ pc[p] \notin {"down", "before", "describe", "evidence"} => MadeBy(EvidenceGroup)
    /\ pc[p] = "ready" => MadeBy(AfterBackfill)

OpenInv ==
  /\ StoreTypes /\ ProcessTypes /\ PastTypes /\ RootedOrNot /\ Parents
  /\ DescribedBefore /\ Passed /\ Batches /\ Chains /\ Writes
  /\ RootsInherit /\ RowsMatch /\ Made

-----------------------------------------------------------------------------
(* One step is one process's. *)

Acts(p) ==
  \/ p \in Starter /\ Migrate(p)
  \/ Update(p) \/ Delete(p) \/ Die(p)
  \/ p = Writer /\ (InsertMemory \/ EndGovernance \/ \E m \in Legacy : govern_new_memory(m))
  \/ \E m \in Legacy : LegacyInsert(m)

LEMMA SomeoneActs ==
  ASSUME OpenNext
  PROVE  \E p \in Process : Acts(p)
<1>1. CASE \E p \in Starter : Migrate(p)
  BY <1>1 DEF Acts, Process
<1>2. CASE \E p \in Process : Update(p) \/ Delete(p) \/ Die(p)
  BY <1>2 DEF Acts
<1>3. CASE InsertMemory \/ EndGovernance \/ \E m \in Legacy : govern_new_memory(m) \/ LegacyInsert(m)
  BY <1>3 DEF Acts, Process
<1> QED BY <1>1, <1>2, <1>3 DEF OpenNext

\* A starter's actions, the walk's five apart.
LEMMA StarterActs ==
  ASSUME NEW p \in Starter, Migrate(p)
  PROVE  \/ Start(p) \/ Close(p)
         \/ \E list : /\ IsList(list)
                      /\ \/ list = BeforeBackfill /\ Statements(p, "before", list, "describe")
                         \/ list = EvidenceGroup /\ Statements(p, "evidence", list, "repair")
                         \/ list = AfterBackfill /\ Statements(p, "after", list, "ready")
         \/ Describe(p) \/ Repair(p) \/ ReadState(p) \/ Begin(p) \/ Select(p)
         \/ resolve_missing_evidence_root(p) \/ Inherit(p) \/ NextInBatch(p)
         \/ Progress(p) \/ Fail(p) \/ Complete(p)
BY ListsAreStatements DEF Migrate

Others(p) == Process \ {p}

\* What is not the mover's own.
LEMMA OthersStand ==
  ASSUME ProcessTypes, PastTypes, NEW p \in Process, Acts(p)
  PROVE  /\ \A q \in Others(p) :
              /\ pc'[q] = pc[q] /\ cursor'[q] = cursor[q] /\ batch'[q] = batch[q]
              /\ at'[q] = at[q] /\ chain'[q] = chain[q] /\ write'[q] = write[q]
         /\ \A q \in Starter : q # p => began'[q] = began[q]
<1> USE DEF Goto, ProcessTypes, PastTypes, Others, locals, storePast
<1>1. CASE p \in Starter /\ Migrate(p)
  <2>1. CASE Start(p) \/ Close(p) \/ Describe(p) \/ Repair(p) \/ ReadState(p) \/ Begin(p)
             \/ Select(p) \/ Progress(p)
    BY <1>1, <2>1 DEF Start, Close, Describe, Repair, ReadState, Begin, Select, Progress,
       store_evidence_migration_state
  <2>2. CASE Fail(p) \/ Complete(p)
    BY <1>1, <2>2 DEF Fail, Complete, Forget, store_evidence_migration_state
  <2>3. ASSUME NEW list, NEW from, NEW to, to # "down",
               IsList(list), Statements(p, from, list, to)
        PROVE  /\ \A q \in Others(p) :
                    /\ pc'[q] = pc[q] /\ cursor'[q] = cursor[q] /\ batch'[q] = batch[q]
                    /\ at'[q] = at[q] /\ chain'[q] = chain[q] /\ write'[q] = write[q]
               /\ began' = began
    BY SMTT(30), <2>3, StatementsRun
  <2>4. CASE resolve_missing_evidence_root(p)
    BY <1>1, <2>4 DEF resolve_missing_evidence_root, ReachCycle, ReachBroken, ReachRoot,
       ReachOrigin, ReachParent
  <2>5. CASE Inherit(p) \/ NextInBatch(p)
    BY <1>1, <2>5 DEF Inherit, NextInBatch, InsertRow
  <2> QED BY <1>1, <2>1, <2>2, <2>3, <2>4, <2>5, StarterActs
<1>2. CASE Update(p) \/ Delete(p) \/ Die(p)
  BY <1>2 DEF Update, Delete, Die, Forget
<1>3. CASE p = Writer /\ (InsertMemory \/ EndGovernance)
  BY <1>3 DEF InsertMemory, EndGovernance, InsertRow
<1>4. CASE p = Writer /\ \E m \in Legacy : govern_new_memory(m)
  BY <1>4 DEF govern_new_memory
<1>5. CASE \E m \in Legacy : LegacyInsert(m)
  BY <1>5 DEF LegacyInsert
<1> QED BY <1>1, <1>2, <1>3, <1>4, <1>5 DEF Acts

LEMMA NewIsNotLegacy ==
  /\ New \notin Legacy /\ Writer \notin Starter
  /\ Null \notin Memory \union {0} /\ Gone \notin Memory \union {0}
  /\ 0 \notin Legacy /\ Memory \subseteq Nat
<1>0. Legacy \subseteq Nat \ {0} /\ New \in Nat /\ \A m \in Legacy : m < New
  BY ZenonT(60), StartupAssumption
<1>1. Memory \subseteq Nat
  BY <1>0 DEF Memory
<1>2. 0 \notin Legacy /\ 0 \in Nat
  BY <1>0
<1>4. New \notin Legacy
  <2>1. ~(New < New)
    BY <1>0
  <2> QED BY <1>0, <2>1
<1>3. Null \notin Nat /\ Gone \notin Nat /\ Writer \notin Starter
  BY StartupAssumption
<1> QED BY <1>1, <1>2, <1>3, <1>4

\* A root that is there is written as it is.
LEMMA RootIsKept ==
  ASSUME OpenInv, NEW p \in Process, Update(p), NEW m \in Memory, root[m] # Null
  PROVE  root'[m] = root[m] /\ depth'[m] = depth[m]
<1> DEFINE w == write[p]
<1>1. StoreTypes /\ WriteOf(p) /\ pc[p] = "update" /\ RootsInherit
  BY DEF OpenInv, Writes, Update, Goto, Writing
<1>2. /\ root' = [root EXCEPT ![w.memory] = w.root]
      /\ depth' = [depth EXCEPT ![w.memory] = w.depth]
      /\ w.memory \in meta
  BY <1>1 DEF Update, WriteOf
<1>3. CASE m = w.memory
  <2>1. Inherits(m, root[m], depth[m])
    BY <1>1, <1>2, <1>3 DEF RootsInherit, Inherits
  <2>2. Inherits(m, w.root, w.depth)
    BY <1>1, <1>3 DEF WriteOf
  <2>3. w.root = root[m] /\ w.depth = depth[m]
    BY <2>1, <2>2 DEF Inherits
  <2> QED BY <1>1, <1>2, <1>3, <2>3 DEF StoreTypes
<1>4. CASE m # w.memory
  BY <1>1, <1>2, <1>4 DEF StoreTypes
<1> QED BY <1>3, <1>4
\* A process goes from place to place, alone.
LEMMA PlacesStep ==
  ASSUME OpenInv, NEW p \in Process, Acts(p)
  PROVE  /\ pc' = [pc EXCEPT ![p] = pc'[p]] /\ pc' \in [Process -> PC]
         /\ pc'[Writer] \in Writing \union {"down", "govern"}
         /\ \A q \in Starter : pc'[q] # "govern"
<1>1. /\ ProcessTypes
      /\ p \in Starter => p # Writer
  BY NewIsNotLegacy DEF OpenInv
<1>2. pc \in [Process -> PC] /\ Writer \in Process /\ Starter \subseteq Process
  BY <1>1 DEF ProcessTypes, Process
<1> DEFINE To(ends) == \E e \in ends : pc' = [pc EXCEPT ![p] = e]
<1>3. ASSUME p \in Starter, NEW e \in PC \ {"govern"}, pc' = [pc EXCEPT ![p] = e]
      PROVE  /\ pc' = [pc EXCEPT ![p] = pc'[p]] /\ pc' \in [Process -> PC]
             /\ pc'[Writer] \in Writing \union {"down", "govern"}
             /\ \A q \in Starter : pc'[q] # "govern"
  BY <1>1, <1>2, <1>3 DEF ProcessTypes
<1>4. ASSUME p = Writer, NEW e \in {"update", "delete", "insert", "down", "govern"},
             pc' = [pc EXCEPT ![p] = e]
      PROVE  /\ pc' = [pc EXCEPT ![p] = pc'[p]] /\ pc' \in [Process -> PC]
             /\ pc'[Writer] \in Writing \union {"down", "govern"}
             /\ \A q \in Starter : pc'[q] # "govern"
  <2>1. e \in PC /\ e \in Writing \union {"down", "govern"}
    BY <1>4 DEF PC, Writing
  <2> QED BY <1>1, <1>2, <1>4, <2>1, NewIsNotLegacy DEF ProcessTypes
<1>5. CASE p \in Starter /\ Migrate(p)
  <2>1. CASE Start(p) \/ Close(p) \/ Describe(p) \/ Repair(p) \/ Begin(p) \/ Progress(p)
             \/ Fail(p) \/ Complete(p)
    <3>1. To({"before", "down", "evidence", "read", "select", "after"})
      BY <2>1 DEF Start, Close, Describe, Repair, Begin, Progress, Fail, Complete, Goto
    <3> QED BY <1>3, <1>5, <3>1 DEF PC
  <2>2. CASE ReadState(p) \/ Select(p)
    <3>1. To({"after", "begin", "complete", "walk"})
      BY <2>2 DEF ReadState, Select, Goto
    <3> QED BY <1>3, <1>5, <3>1 DEF PC
  <2>3. CASE resolve_missing_evidence_root(p)
    <3>1. To({"fail", "down", "update", "walk"})
      BY <2>3 DEF resolve_missing_evidence_root, ReachCycle, ReachBroken, ReachRoot,
         ReachOrigin, ReachParent, Goto
    <3> QED BY <1>3, <1>5, <3>1 DEF PC
  <2>4. CASE Inherit(p) \/ NextInBatch(p)
    <3>1. To({"update", "progress", "walk"})
      BY <2>4 DEF Inherit, NextInBatch, InsertRow, Goto
    <3> QED BY <1>3, <1>5, <3>1 DEF PC
  <2>5. ASSUME NEW list, NEW from, NEW to \in {"describe", "repair", "ready"},
               IsList(list), Statements(p, from, list, to)
        PROVE  To({"describe", "repair", "ready", "down"})
    BY <2>5, StatementsRun
  <2>6. ASSUME To({"describe", "repair", "ready", "down"})
        PROVE  /\ pc' = [pc EXCEPT ![p] = pc'[p]] /\ pc' \in [Process -> PC]
               /\ pc'[Writer] \in Writing \union {"down", "govern"}
               /\ \A q \in Starter : pc'[q] # "govern"
    BY <1>3, <1>5, <2>6 DEF PC
  <2> QED BY <1>5, <2>1, <2>2, <2>3, <2>4, <2>5, <2>6, StarterActs
<1>6. CASE Update(p) \/ Delete(p) \/ Die(p)
  <2>1. To({"delete", "insert", "down"})
    BY <1>6 DEF Update, Delete, Die, Goto
  <2> QED BY <1>3, <1>4, <2>1 DEF PC, Process
<1>7. CASE p = Writer /\ (InsertMemory \/ EndGovernance \/ \E m \in Legacy : govern_new_memory(m))
  <2>1. To({"govern", "down", "update"})
    BY <1>7 DEF InsertMemory, EndGovernance, InsertRow, govern_new_memory, Goto
  <2> QED BY <1>4, <1>7, <2>1
<1>8. CASE \E m \in Legacy : LegacyInsert(m)
  <2>1. pc' = pc
    BY <1>8 DEF LegacyInsert
  <2> QED BY <1>1, <1>2, <2>1 DEF ProcessTypes
<1> QED BY <1>5, <1>6, <1>7, <1>8 DEF Acts

\* The row and the memory that a walk has at hand.
LEMMA SubjectFacts ==
  ASSUME OpenInv, NEW p \in Starter
  PROVE  /\ pc[p] \in Walking =>
              /\ Min(batch[p]) \in batch[p] /\ batch[p] \subseteq Legacy \intersect meta
              /\ chain[p] \in Seq(Legacy) /\ Len(chain[p]) \in Nat
              /\ Subject(p) # 0
         /\ pc[p] \in Writing => WriteOf(p) /\ write[p].memory \in Legacy
<1>1. StoreTypes /\ ProcessTypes /\ Batches /\ Chains /\ Writes /\ p \in Process /\ p # Writer
  BY NewIsNotLegacy DEF OpenInv, Process
<1>2. ASSUME pc[p] \in Writing PROVE WriteOf(p) /\ write[p].memory \in Legacy
  <2>1. WriteOf(p)
    BY <1>1, <1>2 DEF Writes
  <2>2. write[p].memory \in meta /\ write[p].memory # New
    BY <1>1, <2>1 DEF WriteOf
  <2> QED BY <1>1, <2>1, <2>2 DEF StoreTypes, Memory
<1>3. ASSUME pc[p] \in Walking
      PROVE  /\ Min(batch[p]) \in batch[p] /\ batch[p] \subseteq Legacy \intersect meta
             /\ chain[p] \in Seq(Legacy) /\ Len(chain[p]) \in Nat
             /\ Subject(p) # 0
  <2>1. batch[p] # {} /\ batch[p] \subseteq meta /\ ChainOf(p)
    BY <1>1, <1>3 DEF Batches, Chains
  <2>2. batch[p] \subseteq Legacy /\ chain[p] \in Seq(Legacy)
    BY <1>1 DEF ProcessTypes
  <2>3. batch[p] \subseteq Nat
    BY <2>2, NewIsNotLegacy DEF Memory
  <2>4. Min(batch[p]) \in batch[p]
    BY <2>1, <2>3, MinIsIn
  <2>5. Len(chain[p]) \in Nat
    BY <2>2
  <2>6. Subject(p) # 0
    <3>1. CASE chain[p] = <<>>
      BY <2>1, <2>2, <2>4, <3>1, NewIsNotLegacy DEF ChainOf
    <3>2. CASE chain[p] # <<>>
      <4>1. Last(chain[p]) \in Legacy
        BY <2>2, <2>5, <3>2 DEF Last
      <4>2. parent[Last(chain[p])] \in Legacy \union {Gone, Null}
        BY <1>1, <4>1 DEF StoreTypes, Memory
      <4> QED BY <2>1, <3>2, <4>2, NewIsNotLegacy DEF ChainOf
    <3> QED BY <3>1, <3>2
  <2> QED BY <2>1, <2>2, <2>4, <2>5, <2>6
<1> QED BY <1>2, <1>3

LEMMA FrontFacts ==
  ASSUME NEW S, NEW s \in Seq(S), s # <<>>
  PROVE  /\ Front(s) \in Seq(S) /\ Len(s) \in Nat \ {0} /\ Len(Front(s)) = Len(s) - 1
         /\ \A i \in 1..Len(s) - 1 : Front(s)[i] = s[i]
         /\ Last(s) \in S /\ Last(s) = s[Len(s)]
<1>1. Len(s) \in Nat \ {0}
  BY EmptySeq
<1>2. \A i \in 1..Len(s) - 1 : s[i] \in S
  BY <1>1, ElementOfSeq
<1>3. /\ SubSeq(s, 1, Len(s) - 1) \in Seq(S)
      /\ Len(SubSeq(s, 1, Len(s) - 1)) = Len(s) - 1
      /\ \A i \in 1..Len(s) - 1 : SubSeq(s, 1, Len(s) - 1)[i] = s[i]
  <2> DEFINE n == Len(s) - 1
  <2>1. n \in Nat /\ \A i \in 1..n : s[i] \in S
    BY <1>1, <1>2
  <2> HIDE DEF n
  <2>2. /\ SubSeq(s, 1, n) \in Seq(S)
        /\ Len(SubSeq(s, 1, n)) = IF 1 <= n THEN n - 1 + 1 ELSE 0
        /\ \A i \in 1..n - 1 + 1 : SubSeq(s, 1, n)[i] = s[1 + i - 1]
    BY <2>1, SubSeqProperties
  <2>3. /\ Len(SubSeq(s, 1, n)) = n
        /\ \A i \in 1..n : SubSeq(s, 1, n)[i] = s[i]
    <3>1. n - 1 + 1 = n /\ (~(1 <= n) => n = 0) /\ \A i \in 1..n : 1 + i - 1 = i
      BY <2>1
    <3> QED BY <2>2, <3>1
  <2> QED BY <2>2, <2>3 DEF n
<1> QED BY <1>1, <1>3, ElementOfSeq DEF Front, Last

\* A batch is made of legacy memories: the others have their roots.
LEMMA RootlessIsLegacy ==
  ASSUME OpenInv
  PROVE  Rootless \subseteq Legacy /\ Rootless \subseteq meta
BY DEF OpenInv, StoreTypes, RootedOrNot, Rootless, Memory

\* The selected ids are the lowest.
LEMMA SelectedFacts ==
  ASSUME NEW rootless \in SUBSET Legacy, rootless # {}
  PROVE  LET next == {m \in rootless : Cardinality({n \in rootless : n <= m}) <= BATCH}
         IN /\ next # {} /\ next \subseteq rootless /\ Min(next) \in next
            /\ \A m \in rootless \ next : \A b \in next : b < m
<1> DEFINE upTo(m) == {n \in rootless : n <= m}
           next    == {m \in rootless : Cardinality(upTo(m)) <= BATCH}
<1>1. rootless \subseteq Nat /\ BATCH \in Nat \ {0}
  BY StartupAssumption
<1>2. ASSUME NEW m \in rootless PROVE IsFiniteSet(upTo(m)) /\ Cardinality(upTo(m)) \in Nat
  <2>1. upTo(m) \in SUBSET Nat /\ m \in Nat /\ \A n \in upTo(m) : n <= m
    BY <1>1
  <2> HIDE DEF upTo
  <2> QED BY <2>1, FS_BoundedSetOfNaturals, FS_CardinalityType
<1>3. next # {}
  <2> DEFINE first == Min(rootless)
  <2>1. first \in rootless /\ \A n \in rootless : first <= n
    BY <1>1, MinIsIn
  <2> HIDE DEF first
  <2>2. upTo(first) = {first}
    <3>1. \A n \in rootless : n <= first => n = first
      BY <1>1, <2>1
    <3>2. first <= first
      BY <1>1, <2>1
    <3> QED BY <2>1, <3>1, <3>2
  <2>3. Cardinality(upTo(first)) = 1
    BY <2>2, FS_Singleton
  <2>4. 1 <= BATCH
    BY <1>1
  <2> QED BY <2>1, <2>3, <2>4
<1>4. next \subseteq rootless /\ Min(next) \in next
  <2>1. next \in SUBSET Nat
    BY <1>1
  <2> HIDE DEF next
  <2>2. Min(next) \in next
    BY <1>3, <2>1, MinIsIn
  <2> QED BY <2>2 DEF next
<1>5. ASSUME NEW m \in rootless \ next, NEW b \in next PROVE b < m
  <2>1. SUFFICES ASSUME m <= b PROVE FALSE
    BY <1>1
  <2>2. upTo(m) \in SUBSET upTo(b)
    <3>1. \A n \in rootless : n <= m => n <= b
      BY <1>1, <2>1
    <3> QED BY <3>1
  <2>3. Cardinality(upTo(m)) <= Cardinality(upTo(b))
    BY <1>2, <2>2, FS_Subset
  <2>4. /\ Cardinality(upTo(m)) \in Nat /\ Cardinality(upTo(b)) \in Nat
        /\ Cardinality(upTo(b)) <= BATCH /\ ~(Cardinality(upTo(m)) <= BATCH)
    BY <1>2
  <2> HIDE DEF upTo
  <2> QED BY <1>1, <2>3, <2>4
<1> QED BY <1>3, <1>4, <1>5

\* The mover's locals keep their types.
LEMMA LocalsStep ==
  ASSUME OpenInv, NEW p \in Process, Acts(p)
  PROVE  ProcessTypes'
<1>1. StoreTypes /\ ProcessTypes
  BY DEF OpenInv
<1>2. /\ cursor \in [Process -> Legacy \union {0}] /\ batch \in [Process -> SUBSET Legacy]
      /\ at \in [Process -> Legacy \union {Gone, 0}] /\ chain \in [Process -> Seq(Legacy)]
      /\ write = [q \in Process |-> write[q]]
  BY <1>1 DEF ProcessTypes
<1> SUFFICES /\ cursor' \in [Process -> Legacy \union {0}]
             /\ batch' \in [Process -> SUBSET Legacy]
             /\ at' \in [Process -> Legacy \union {Gone, 0}]
             /\ chain' \in [Process -> Seq(Legacy)]
             /\ write' = [q \in Process |-> write'[q]]
  BY PlacesStep DEF ProcessTypes
<1>4. CASE UNCHANGED locals
  BY <1>2, <1>4 DEF locals
<1>5. CASE Forget(p)
  <2>1. <<>> \in Seq(Legacy)
    BY EmptySeq
  <2> QED BY <1>2, <1>5, <2>1 DEF Forget
<1>6. CASE p \in Starter /\ ReadState(p)
  <2>1. migration.cursor \in Legacy \union {0}
    BY <1>1 DEF StoreTypes
  <2> QED BY <1>2, <1>6, <2>1 DEF ReadState
<1>7. CASE p \in Starter /\ Select(p)
  <2> DEFINE rootless  == {m \in Rootless : m > cursor[p]}
             next == {m \in rootless : Cardinality({n \in rootless : n <= m}) <= BATCH}
  <2>1. next \subseteq rootless /\ rootless \subseteq Legacy
    BY RootlessIsLegacy
  <2>2. /\ batch' = [batch EXCEPT ![p] = next] /\ UNCHANGED <<cursor, chain, write>>
        /\ at' = [at EXCEPT ![p] = IF rootless = {} THEN 0 ELSE Min(next)]
    BY <1>7 DEF Select
  <2>3. Min(next) \in Legacy \/ rootless = {}
    BY <2>1, SelectedFacts
  <2> HIDE DEF next, rootless
  <2> QED BY <1>2, <2>1, <2>2, <2>3
<1>8. CASE p \in Starter /\ resolve_missing_evidence_root(p)
  <2>1. /\ UNCHANGED <<cursor, batch>> /\ pc[p] = "walk"
        /\ ReachCycle(p) \/ ReachBroken(p) \/ ReachRoot(p) \/ ReachOrigin(p) \/ ReachParent(p)
    BY <1>8 DEF resolve_missing_evidence_root, ReachCycle, ReachBroken, ReachRoot,
       ReachOrigin, ReachParent, Goto
  <2>2. chain[p] \in Seq(Legacy)
    BY <1>2
  <2>3. CASE ReachCycle(p) \/ ReachRoot(p) \/ ReachOrigin(p)
    BY <1>2, <2>1, <2>3 DEF ReachCycle, ReachRoot, ReachOrigin
  <2>4. CASE ReachBroken(p)
    <3>1. chain[p] # <<>> => Front(chain[p]) \in Seq(Legacy)
      BY <2>2, FrontFacts
    <3> QED BY <1>2, <2>1, <2>4, <3>1 DEF ReachBroken
  <2>5. CASE ReachParent(p)
    <3>1. at[p] \in Legacy
      BY <2>5, RootlessIsLegacy DEF ReachParent
    <3>2. Append(chain[p], at[p]) \in Seq(Legacy)
      BY <2>2, <3>1
    <3>3. parent[at[p]] \in Legacy \union {Gone}
      BY <1>1, <2>5, <3>1 DEF ReachParent, StoreTypes, Memory
    <3> QED BY <1>2, <2>1, <2>5, <3>2, <3>3 DEF ReachParent
  <2> QED BY <2>1, <2>3, <2>4, <2>5
<1>9. CASE p \in Starter /\ Inherit(p)
  <2>1. Front(chain[p]) \in Seq(Legacy)
    BY <1>2, <1>9, FrontFacts DEF Inherit
  <2> QED BY <1>2, <1>9, <2>1 DEF Inherit
<1>10. CASE p \in Starter /\ NextInBatch(p)
  <2> DEFINE done == Min(batch[p])
             rest == batch[p] \ {done}
  <2>1. pc[p] = "insert"
    BY <1>10 DEF NextInBatch, InsertRow, Goto
  <2>2. done \in Legacy /\ rest \subseteq Legacy
    BY <1>2, <1>10, <2>1, SubjectFacts DEF Walking, Writing
  <2>3. rest # {} => Min(rest) \in Legacy
    <3>1. rest \in SUBSET Nat
      BY <2>2, NewIsNotLegacy DEF Memory
    <3> HIDE DEF rest
    <3> QED BY <2>2, <3>1, MinIsIn
  <2>4. /\ batch' = [batch EXCEPT ![p] = rest] /\ UNCHANGED chain
        /\ at' = [at EXCEPT ![p] = IF rest = {} THEN 0 ELSE Min(rest)]
        /\ cursor' = [cursor EXCEPT ![p] = IF rest = {} THEN done ELSE cursor[p]]
        /\ write' = [write EXCEPT ![p] = Null]
    BY <1>2, <1>10 DEF NextInBatch
  <2> HIDE DEF rest, done
  <2> QED BY <1>2, <2>2, <2>3, <2>4
<1>12. CASE p = Writer /\ (EndGovernance \/ \E m \in Legacy : govern_new_memory(m))
  BY <1>2, <1>12 DEF EndGovernance, govern_new_memory
<1>13. CASE p \in Starter /\ Migrate(p)
  <2>1. CASE Start(p) \/ Close(p) \/ Describe(p) \/ Repair(p) \/ Begin(p) \/ Progress(p)
    BY <1>4, <2>1 DEF Start, Close, Describe, Repair, Begin, Progress
  <2>2. CASE Fail(p) \/ Complete(p)
    BY <1>5, <2>2 DEF Fail, Complete
  <2>3. ASSUME NEW list, NEW from, NEW to \in {"describe", "repair", "ready"},
               IsList(list), Statements(p, from, list, to)
        PROVE  UNCHANGED locals
    BY <2>3, StatementsRun
  <2> QED BY <1>4, <1>6, <1>7, <1>8, <1>9, <1>10, <1>13, <2>1, <2>2, <2>3, StarterActs
<1>14. CASE Update(p) \/ Delete(p) \/ Die(p) \/ (p = Writer /\ InsertMemory)
            \/ \E m \in Legacy : LegacyInsert(m)
  BY <1>4, <1>5, <1>14 DEF Update, Delete, Die, InsertMemory, LegacyInsert
<1> QED BY <1>12, <1>13, <1>14 DEF Acts

InsertsRow(p) ==
  /\ pc[p] = "insert"
  /\ primary' = primary \union {[memory |-> write[p].memory, root |-> write[p].root]}
  /\ UNCHANGED <<stored, meta, parent, root, depth>>

\* The actions that change rows.
LEMMA RowActs ==
  ASSUME NEW p \in Process, Acts(p)
  PROVE  \/ UNCHANGED storeRows
         \/ p \in Starter /\ (Describe(p) \/ Repair(p))
         \/ Update(p) \/ Delete(p) \/ InsertsRow(p)
         \/ p = Writer /\ (InsertMemory \/ \E m \in Legacy : govern_new_memory(m))
         \/ \E m \in Legacy : LegacyInsert(m)
<1>1. CASE p \in Starter /\ Migrate(p)
  <2>1. CASE Start(p) \/ Close(p) \/ ReadState(p) \/ Begin(p) \/ Progress(p) \/ Fail(p)
             \/ Complete(p) \/ Select(p) \/ resolve_missing_evidence_root(p)
    <3>1. UNCHANGED storeRows
      BY <2>1 DEF Start, Close, ReadState, Begin, Progress, Fail, Complete, Select,
         resolve_missing_evidence_root, store_evidence_migration_state
    <3> QED BY <3>1
  <2>2. ASSUME NEW list, NEW from, NEW to \in {"describe", "repair", "ready"},
               IsList(list), Statements(p, from, list, to)
        PROVE  UNCHANGED storeRows
    BY <2>2, StatementsRun
  <2>3. CASE Inherit(p) \/ NextInBatch(p)
    BY <2>3 DEF Inherit, NextInBatch, InsertRow, InsertsRow, Goto
  <2> QED BY <1>1, <2>1, <2>2, <2>3, StarterActs
<1>2. CASE Die(p)
  BY <1>2 DEF Die
<1>3. CASE p = Writer /\ EndGovernance
  BY <1>3 DEF EndGovernance, InsertRow, InsertsRow, Goto
<1> QED BY <1>1, <1>2, <1>3 DEF Acts

\* The actions that store the state of the migration.
LEMMA MigrationActs ==
  ASSUME NEW p \in Process, Acts(p)
  PROVE  \/ UNCHANGED migration
         \/ /\ p \in Starter /\ pc[p] \in {"begin", "progress"}
            /\ migration' = [status |-> "running", cursor |-> cursor[p]]
         \/ \E status \in {"failed", "complete"} :
              migration' = [status |-> status, cursor |-> cursor[p]]
<1>1. CASE p \in Starter /\ Migrate(p)
  <2>1. CASE Begin(p) \/ Progress(p) \/ Fail(p) \/ Complete(p)
    BY <1>1, <2>1 DEF Begin, Progress, Fail, Complete, Goto, store_evidence_migration_state
  <2>2. CASE Start(p) \/ Close(p) \/ Describe(p) \/ Repair(p) \/ ReadState(p) \/ Select(p)
             \/ resolve_missing_evidence_root(p) \/ Inherit(p) \/ NextInBatch(p)
    BY <2>2 DEF Start, Close, Describe, Repair, ReadState, Select,
       resolve_missing_evidence_root, Inherit, NextInBatch, InsertRow
  <2>3. ASSUME NEW list, NEW from, NEW to \in {"describe", "repair", "ready"},
               IsList(list), Statements(p, from, list, to)
        PROVE  UNCHANGED migration
    BY <2>3, StatementsRun
  <2> QED BY <1>1, <2>1, <2>2, <2>3, StarterActs
<1>2. CASE Update(p) \/ Delete(p) \/ Die(p)
           \/ (p = Writer /\ (InsertMemory \/ EndGovernance \/ \E m \in Legacy : govern_new_memory(m)))
           \/ \E m \in Legacy : LegacyInsert(m)
  BY <1>2 DEF Update, Delete, Die, InsertMemory, EndGovernance, InsertRow,
     govern_new_memory, LegacyInsert
<1> QED BY <1>1, <1>2 DEF Acts

\* Rows stay, and a memory keeps its parent and its root, except the one that
\* a daemon remembers.
LEMMA RowsStay ==
  ASSUME OpenInv, NEW p \in Process, Acts(p)
  PROVE  /\ stored \subseteq stored' /\ stored' \subseteq Memory
         /\ meta \subseteq meta' /\ meta' \subseteq stored'
         /\ \A m \in Memory : m # New => parent'[m] = parent[m]
         /\ \A m \in Memory : m # New /\ root[m] # Null =>
              root'[m] = root[m] /\ depth'[m] = depth[m]
         /\ root' \in [Memory -> Memory \union {Null}] /\ depth' \in [Memory -> Nat]
         /\ parent' \in [Memory -> Legacy \union {Gone, Null}]
         /\ New \in stored' => New \in meta'
         /\ New \in meta' => root'[New] # Null
<1> DEFINE Goal == /\ stored \subseteq stored' /\ stored' \subseteq Memory
                   /\ meta \subseteq meta' /\ meta' \subseteq stored'
                   /\ \A m \in Memory : m # New => parent'[m] = parent[m]
                   /\ \A m \in Memory : m # New /\ root[m] # Null =>
                        root'[m] = root[m] /\ depth'[m] = depth[m]
                   /\ root' \in [Memory -> Memory \union {Null}]
                   /\ depth' \in [Memory -> Nat]
                   /\ parent' \in [Memory -> Legacy \union {Gone, Null}]
                   /\ New \in stored' => New \in meta'
                   /\ New \in meta' => root'[New] # Null
<1>1. /\ stored \subseteq Memory /\ meta \subseteq stored
      /\ parent \in [Memory -> Legacy \union {Gone, Null}]
      /\ root \in [Memory -> Memory \union {Null}] /\ depth \in [Memory -> Nat]
      /\ New \in stored => New \in meta
      /\ New \in meta => root[New] # Null
      /\ New \in Memory /\ Legacy \subseteq Memory
  BY DEF OpenInv, StoreTypes, RootedOrNot, Memory
<1>2. CASE UNCHANGED <<stored, meta, parent, root, depth>>
  BY <1>1, <1>2
<1>3. CASE UNCHANGED storeRows \/ Delete(p) \/ InsertsRow(p) \/ Repair(p)
  BY <1>2, <1>3 DEF storeRows, Delete, InsertsRow, Repair
<1>4. CASE Describe(p)
  BY <1>1, <1>4 DEF Describe
<1>5. CASE Update(p)
  <2> DEFINE w == write[p]
  <2>1. w.memory \in Memory /\ w.root \in Memory /\ w.depth \in Nat
    BY <1>1, <1>5 DEF OpenInv, Writes, WriteOf, Update, Goto, Writing
  <2>2. /\ root' = [root EXCEPT ![w.memory] = w.root]
        /\ depth' = [depth EXCEPT ![w.memory] = w.depth]
        /\ UNCHANGED <<stored, meta, parent>>
    BY <1>5 DEF Update
  <2>3. \A m \in Memory : root[m] # Null => root'[m] = root[m] /\ depth'[m] = depth[m]
    BY <1>5, RootIsKept
  <2> HIDE DEF w
  <2>4. root' \in [Memory -> Memory \union {Null}] /\ depth' \in [Memory -> Nat]
    BY <1>1, <2>1, <2>2
  <2> QED BY <1>1, <2>2, <2>3, <2>4
<1>6. CASE InsertMemory
  BY <1>1, <1>6, NewIsNotLegacy DEF InsertMemory, OwnRoot
<1>7. ASSUME NEW q \in Legacy, govern_new_memory(q) PROVE Goal
  <2>1. CASE root[q] = Null
    BY <1>2, <1>7, <2>1 DEF govern_new_memory
  <2>2. CASE root[q] # Null
    <3>1. root[q] \in Memory /\ depth[q] + 1 \in Nat
      BY <1>1, <2>2
    <3>2. /\ parent' = [parent EXCEPT ![New] = q] /\ root' = [root EXCEPT ![New] = root[q]]
          /\ depth' = [depth EXCEPT ![New] = depth[q] + 1]
          /\ UNCHANGED <<stored, meta>>
      BY <1>7, <2>2 DEF govern_new_memory
    <3> QED BY <1>1, <2>2, <3>1, <3>2
  <2> QED BY <2>1, <2>2
<1>8. ASSUME NEW m \in Legacy, LegacyInsert(m) PROVE Goal
  BY <1>1, <1>8, NewIsNotLegacy DEF LegacyInsert
<1> QED BY <1>3, <1>4, <1>5, <1>6, <1>7, <1>8, RowActs

\* Where a process writes, the store has the row.
LEMMA StoreStep ==
  ASSUME OpenInv, NEW p \in Process, Acts(p)
  PROVE  StoreTypes'
<1>1. StoreTypes /\ ProcessTypes
  BY DEF OpenInv
<1>2. backend' \in {"sqlite", "postgres"} /\ schema' \subseteq Schema
  <2>1. CASE UNCHANGED <<backend, schema>>
    BY <1>1, <2>1 DEF StoreTypes
  <2>2. ASSUME NEW list, NEW from, NEW to \in {"describe", "repair", "ready"},
               IsList(list), Range(list) \subseteq Schema, Statements(p, from, list, to)
        PROVE  backend' \in {"sqlite", "postgres"} /\ schema' \subseteq Schema
    BY <1>1, <2>2, StatementsRun DEF StoreTypes
  <2>3. CASE p \in Starter /\ Migrate(p)
    <3>1. CASE Start(p) \/ Close(p) \/ Describe(p) \/ Repair(p) \/ ReadState(p) \/ Begin(p)
               \/ Progress(p) \/ Fail(p) \/ Complete(p) \/ Select(p)
               \/ resolve_missing_evidence_root(p) \/ Inherit(p) \/ NextInBatch(p)
      <4>1. UNCHANGED <<backend, schema>>
        BY <3>1 DEF Start, Close, Describe, Repair, ReadState, Begin, Progress, Fail, Complete,
           Select, resolve_missing_evidence_root, store_evidence_migration_state, Inherit,
           NextInBatch, InsertRow
      <4> QED BY <2>1, <4>1
    <3> QED BY <2>2, <2>3, <3>1, StarterActs, SchemaIsLists
  <2>4. CASE Update(p) \/ Delete(p) \/ Die(p)
             \/ (p = Writer /\ (InsertMemory \/ EndGovernance \/ \E m \in Legacy : govern_new_memory(m)))
             \/ \E m \in Legacy : LegacyInsert(m)
    BY <2>1, <2>4 DEF Update, Delete, Die, InsertMemory, EndGovernance, InsertRow,
       govern_new_memory, LegacyInsert
  <2> QED BY <2>3, <2>4 DEF Acts
<1>3. primary' \subseteq [memory : meta', root : Memory]
  <2>1. /\ primary \subseteq [memory : meta, root : Memory] /\ meta \subseteq meta'
        /\ meta \subseteq Memory /\ root \in [Memory -> Memory \union {Null}]
    BY <1>1, RowsStay DEF StoreTypes
  <2>2. primary \subseteq [memory : meta', root : Memory]
    BY <2>1
  <2>3. CASE primary' \subseteq primary
    BY <2>2, <2>3
  <2>4. CASE Repair(p)
    BY <2>1, <2>4 DEF Repair
  <2>5. CASE InsertsRow(p)
    <3>1. write[p].memory \in meta /\ write[p].root \in Memory
      BY <2>5 DEF OpenInv, Writes, WriteOf, InsertsRow, Writing
    <3> QED BY <2>2, <2>5, <3>1 DEF InsertsRow
  <2>6. CASE InsertMemory
    BY <2>2, <2>6 DEF InsertMemory, OwnRoot, Memory
  <2>7. CASE \E m \in Legacy : govern_new_memory(m)
    BY <2>3, <2>7 DEF govern_new_memory
  <2>8. CASE \E m \in Legacy : LegacyInsert(m)
    BY <2>3, <2>8 DEF LegacyInsert
  <2>9. CASE UNCHANGED storeRows \/ Describe(p) \/ Update(p) \/ Delete(p)
    BY <2>3, <2>9 DEF storeRows, Describe, Update, Delete
  <2> QED BY <2>4, <2>5, <2>6, <2>7, <2>8, <2>9, RowActs
<1>4. migration' \in [status : {"none", "running", "complete", "failed"},
                      cursor : Legacy \union {0}]
  <2>1. cursor[p] \in Legacy \union {0}
    BY <1>1 DEF ProcessTypes
  <2> QED BY <1>1, <2>1, MigrationActs DEF StoreTypes
<1> QED BY <1>2, <1>3, <1>4, RowsStay DEF StoreTypes

\* The actions that change what is remembered of the past.
LEMMA PastActs ==
  ASSUME NEW p \in Process, Acts(p)
  PROVE  \/ UNCHANGED <<began, late, torn, lost>>
         \/ p \in Starter /\ (Start(p) \/ Close(p) \/ Repair(p))
         \/ Die(p) \/ \E m \in Legacy : LegacyInsert(m)
<1>1. CASE p \in Starter /\ Migrate(p)
  <2>1. CASE Describe(p) \/ ReadState(p) \/ Begin(p) \/ Progress(p) \/ Fail(p)
             \/ Complete(p) \/ Select(p) \/ resolve_missing_evidence_root(p)
             \/ Inherit(p) \/ NextInBatch(p)
    BY <2>1 DEF Describe, ReadState, Begin, Progress, Fail, Complete, Select, Inherit,
       NextInBatch, InsertRow, resolve_missing_evidence_root, store_evidence_migration_state, storePast
  <2>2. ASSUME NEW list, NEW from, NEW to \in {"describe", "repair", "ready"},
               IsList(list), Statements(p, from, list, to)
        PROVE  UNCHANGED <<began, late, torn, lost>>
    BY <2>2, StatementsRun
  <2> QED BY <1>1, <2>1, <2>2, StarterActs
<1>2. CASE Update(p) \/ Delete(p) \/ (p = Writer /\ (InsertMemory \/ EndGovernance))
  BY <1>2 DEF Update, Delete, InsertMemory, EndGovernance, InsertRow, storePast
<1>3. CASE p = Writer /\ \E m \in Legacy : govern_new_memory(m)
  BY <1>3 DEF govern_new_memory, storePast
<1> QED BY <1>1, <1>2, <1>3 DEF Acts

LEMMA PastStep ==
  ASSUME OpenInv, NEW p \in Process, Acts(p)
  PROVE  PastTypes' /\ late \subseteq late'
<1>1. PastTypes /\ stored \subseteq stored'
  BY RowsStay DEF OpenInv
<1>2. CASE UNCHANGED <<began, late, torn, lost>>
  BY <1>1, <1>2 DEF PastTypes
<1>3. CASE p \in Starter /\ (Start(p) \/ Close(p))
  BY <1>1, <1>3 DEF PastTypes, Start, Close, storeRows
<1>4. CASE Repair(p)
  BY <1>1, <1>4 DEF PastTypes, Repair
<1>5. CASE Die(p)
  BY <1>1, <1>5 DEF PastTypes, Die
<1>6. CASE \E m \in Legacy : LegacyInsert(m)
  BY <1>1, <1>6 DEF PastTypes, LegacyInsert
<1> QED BY <1>2, <1>3, <1>4, <1>5, <1>6, PastActs

\* Where a starter comes from.
LEMMA ComesFrom ==
  ASSUME OpenInv, NEW p \in Starter, Acts(p)
  PROVE  /\ pc'[p] \in Describing => pc[p] \in Describing \/ Describe(p)
         /\ pc'[p] = "ready" => pc[p] \in {"after", "ready"}
         /\ pc'[p] \in Backfilling =>
              \/ pc[p] \in Backfilling /\ cursor'[p] = cursor[p]
              \/ ReadState(p) \/ NextInBatch(p)
         /\ pc'[p] \in {"complete", "after", "ready"} =>
              \/ pc[p] \in {"complete", "after", "ready"}
              \/ Select(p) \/ ReadState(p)
         /\ pc'[p] \in Describing \union {"ready"} => began'[p] = began[p]
         /\ pc'[p] # "down" => pc[p] # "down" \/ pc'[p] = "before"
<1>1. /\ pc' = [pc EXCEPT ![p] = pc'[p]]
      /\ pc \in [Process -> PC] /\ p \in Process /\ p # Writer
  BY PlacesStep, NewIsNotLegacy DEF OpenInv, ProcessTypes, Process
<1> USE DEF Describing, Backfilling, Walking, Writing, Goto
<1>3. CASE Migrate(p)
  <2>1. CASE Start(p) \/ Close(p)
    BY <1>1, <2>1 DEF Start, Close
  <2>2. CASE Describe(p) \/ Repair(p) \/ Begin(p) \/ Progress(p) \/ Fail(p) \/ Complete(p)
    BY <1>1, <2>2 DEF Describe, Repair, Begin, Progress, Fail, Complete, locals, storePast,
       store_evidence_migration_state
  <2>3. CASE ReadState(p) \/ Select(p)
    BY <1>1, <2>3 DEF ReadState, Select, storePast
  <2>4. CASE resolve_missing_evidence_root(p)
    BY <1>1, <2>4 DEF resolve_missing_evidence_root, ReachCycle, ReachBroken, ReachRoot,
       ReachOrigin, ReachParent, storePast
  <2>5. CASE Inherit(p) \/ NextInBatch(p)
    BY <1>1, <2>5 DEF Inherit, NextInBatch, InsertRow, storePast
  <2>6. ASSUME NEW list, NEW from, NEW to,
               <<from, to>> \in {<<"before", "describe">>, <<"evidence", "repair">>,
                                 <<"after", "ready">>},
               IsList(list), Statements(p, from, list, to)
        PROVE  /\ pc[p] = from /\ pc'[p] \in {to, "down"}
               /\ began' = began /\ cursor' = cursor
    BY <1>1, <2>6, StatementsRun DEF locals
  <2>7. CASE \E list : /\ IsList(list)
                       /\ \/ list = BeforeBackfill /\ Statements(p, "before", list, "describe")
                          \/ list = EvidenceGroup /\ Statements(p, "evidence", list, "repair")
                          \/ list = AfterBackfill /\ Statements(p, "after", list, "ready")
    <3>1. \E from, to : /\ <<from, to>> \in {<<"before", "describe">>, <<"evidence", "repair">>,
                                             <<"after", "ready">>}
                        /\ pc[p] = from /\ pc'[p] \in {to, "down"}
                        /\ began' = began /\ cursor' = cursor
      BY <2>6, <2>7
    <3> QED BY <3>1
  <2> QED BY <1>3, <2>1, <2>2, <2>3, <2>4, <2>5, <2>7, StarterActs
<1>4. CASE Update(p) \/ Delete(p) \/ Die(p)
  BY <1>1, <1>4 DEF Update, Delete, Die, storePast, locals
<1>5. CASE \E m \in Legacy : LegacyInsert(m)
  BY <1>5 DEF LegacyInsert, locals
<1> QED BY <1>1, <1>3, <1>4, <1>5 DEF Acts

LEMMA WriterNeedsNew ==
  ASSUME OpenInv, NEW p \in Process, Acts(p), pc'[Writer] # "down"
  PROVE  New \in meta'
<1>1. pc \in [Process -> PC] /\ (pc[Writer] # "down" => New \in meta) /\ meta \subseteq meta'
  BY RowsStay DEF OpenInv, RootedOrNot, ProcessTypes
<1>2. CASE p # Writer
  BY <1>1, <1>2, OthersStand DEF OpenInv, Others, Process
<1>3. CASE p = Writer
  <2>1. CASE InsertMemory
    BY <2>1 DEF InsertMemory
  <2>2. CASE Update(p) \/ Delete(p) \/ Die(p) \/ EndGovernance
             \/ \E m \in Legacy : govern_new_memory(m)
    BY <1>1, <1>3, <2>2 DEF Update, Delete, Die, EndGovernance, InsertRow, govern_new_memory, Goto
  <2>3. CASE \E m \in Legacy : LegacyInsert(m)
    BY <1>1, <2>3 DEF LegacyInsert
  <2> QED BY <1>3, <2>1, <2>2, <2>3, NewIsNotLegacy DEF Acts
<1> QED BY <1>2, <1>3

LEMMA RootedOrNotStep ==
  ASSUME OpenInv, NEW p \in Process, Acts(p)
  PROVE  RootedOrNot'
<1> DEFINE Goal == /\ New \notin stored' => parent'[New] = Null /\ depth'[New] = 0
                   /\ \A m \in Memory \ meta' : root'[m] = Null
<1>1. StoreTypes /\ RootedOrNot /\ New \in Memory /\ Legacy \subseteq Memory
  BY DEF OpenInv, Memory
<1>2. Goal
  <2>1. CASE UNCHANGED <<stored, meta, parent, root, depth>>
    BY <1>1, <2>1 DEF RootedOrNot
  <2>2. CASE UNCHANGED storeRows \/ Repair(p) \/ Delete(p) \/ InsertsRow(p)
    BY <2>1, <2>2 DEF storeRows, Repair, Delete, InsertsRow
  <2>3. CASE Describe(p)
    BY <1>1, <2>3 DEF Describe, RootedOrNot, StoreTypes
  <2>4. CASE Update(p)
    <3>1. /\ write[p].memory \in meta
          /\ write[p].memory = New => New \in stored
      BY <1>1, <2>4 DEF OpenInv, Writes, WriteOf, Writing, Update, Goto, StoreTypes
    <3> QED BY <1>1, <2>4, <3>1 DEF Update, RootedOrNot, StoreTypes
  <2>5. CASE InsertMemory
    BY <1>1, <2>5 DEF InsertMemory, RootedOrNot, StoreTypes
  <2>6. ASSUME NEW q \in Legacy, p = Writer, govern_new_memory(q) PROVE Goal
    <3>1. New \in meta /\ UNCHANGED <<stored, meta>> /\ meta \subseteq stored
      BY <1>1, <2>6 DEF govern_new_memory, Goto, RootedOrNot, StoreTypes
    <3>2. root' = root \/ root' = [root EXCEPT ![New] = root[q]]
      BY <2>6 DEF govern_new_memory
    <3> QED BY <1>1, <3>1, <3>2 DEF RootedOrNot, StoreTypes
  <2>7. ASSUME NEW m \in Legacy, LegacyInsert(m) PROVE Goal
    BY <1>1, <2>7 DEF LegacyInsert, RootedOrNot
  <2> QED BY <2>2, <2>3, <2>4, <2>5, <2>6, <2>7, RowActs
<1> QED BY <1>2, RowsStay, WriterNeedsNew DEF RootedOrNot

LEMMA StaysAtWork ==
  ASSUME OpenInv, NEW p \in Process, Acts(p)
  PROVE  /\ (\E q \in Starter : pc'[q] \in Describing) =>
              (\E q \in Starter : pc[q] \in Describing) \/ Describe(p)
         /\ AtWork' => AtWork \/ Describe(p)
<1>1. ASSUME NEW q \in Starter, pc'[q] \in Describing
      PROVE  pc[q] \in Describing \/ Describe(p)
  <2>1. CASE q = p
    BY <1>1, <2>1, ComesFrom
  <2>2. CASE q # p
    BY <1>1, <2>2, OthersStand DEF OpenInv, Others, Process
  <2> QED BY <2>1, <2>2
<1>2. ASSUME migration'.status = "running", migration.status # "running"
      PROVE  p \in Starter /\ pc[p] \in Describing
  BY <1>2, MigrationActs DEF Describing, Backfilling
<1> QED BY <1>1, <1>2 DEF AtWork

\* A legacy row that comes while a backfill is at work is late.
LEMMA ComesLate ==
  ASSUME OpenInv, NEW p \in Process, Acts(p),
         NEW m \in stored' \ late', m # New
  PROVE  /\ m \in stored \ late \/ ~AtWork
         /\ \A q \in Starter : m \in began'[q] => pc'[q] \in {"before", "down"} \/ m \in began[q] \ late
<1>1. PastTypes /\ late \subseteq late' /\ stored \subseteq Memory
  BY PastStep DEF OpenInv, StoreTypes
<1>2. m \in stored \ late \/ ~AtWork
  <2>1. CASE UNCHANGED stored
    BY <1>1, <2>1
  <2>2. CASE UNCHANGED storeRows \/ Describe(p) \/ Repair(p) \/ Update(p) \/ Delete(p) \/ InsertsRow(p)
             \/ \E n \in Legacy : govern_new_memory(n)
    BY <2>1, <2>2 DEF storeRows, Describe, Repair, Update, Delete, InsertsRow, govern_new_memory
  <2>3. CASE InsertMemory
    BY <1>1, <2>3 DEF InsertMemory
  <2>4. CASE \E n \in Legacy : LegacyInsert(n)
    <3>1. PICK n \in Legacy : LegacyInsert(n)
      BY <2>4
    <3>2. CASE m = n
      BY <3>1, <3>2 DEF LegacyInsert, AtWork, Describing, Backfilling, Walking, Writing
    <3>3. CASE m # n
      BY <1>1, <3>1, <3>3 DEF LegacyInsert
    <3> QED BY <3>2, <3>3
  <2> QED BY <2>2, <2>3, <2>4, RowActs
<1>3. ASSUME NEW q \in Starter, m \in began'[q]
      PROVE  pc'[q] \in {"before", "down"} \/ m \in began[q] \ late
  <2>1. CASE q # p
    BY <1>1, <1>3, <2>1, OthersStand DEF OpenInv
  <2>2. CASE q = p /\ began'[p] = began[p]
    BY <1>1, <1>3, <2>2
  <2>3. CASE q = p /\ (Start(p) \/ Close(p))
    BY <2>3, PlacesStep DEF Start, Close, Goto, OpenInv, ProcessTypes
  <2>4. began' = began \/ Start(p) \/ Close(p)
    BY PastActs DEF Repair, Die, LegacyInsert
  <2> QED BY <2>1, <2>2, <2>3, <2>4
<1> QED BY <1>2, <1>3

LEMMA DescribedStep ==
  ASSUME OpenInv, NEW p \in Process, Acts(p)
  PROVE  DescribedBefore'
<1>1. /\ DescribedBefore /\ PastTypes /\ meta \subseteq meta'
      /\ New \in stored' => New \in meta'
  BY RowsStay DEF OpenInv
<1>2. ASSUME NEW q \in Starter, pc'[q] \in Describing \union {"ready"}
      PROVE  began'[q] \subseteq meta'
  <2>1. CASE q # p
    BY <1>1, <1>2, <2>1, OthersStand DEF OpenInv, Others, Process, DescribedBefore
  <2>2. CASE q = p
    <3>1. began'[p] = began[p]
      BY <1>2, <2>2, ComesFrom
    <3>2. CASE Describe(p)
      BY <1>1, <2>2, <3>1, <3>2 DEF Describe, PastTypes
    <3>3. CASE pc[p] \in Describing \union {"ready"}
      BY <1>1, <2>2, <3>1, <3>3 DEF DescribedBefore
    <3>4. pc[p] \in Describing \union {"ready"} \/ Describe(p)
      BY <1>2, <2>2, ComesFrom DEF Describing
    <3> QED BY <3>2, <3>3, <3>4
  <2> QED BY <2>1, <2>2
<1>3. ASSUME AtWork', NEW m \in stored' \ late' PROVE m \in meta'
  <2>1. CASE Describe(p)
    BY <1>3, <2>1 DEF Describe
  <2>2. CASE ~Describe(p)
    <3>1. AtWork
      BY <1>3, <2>2, StaysAtWork
    <3> QED BY <1>1, <1>3, <3>1, ComesLate DEF DescribedBefore
  <2> QED BY <2>1, <2>2
<1> QED BY <1>2, <1>3 DEF DescribedBefore

LEMMA PassedStep ==
  ASSUME OpenInv, NEW p \in Process, Acts(p)
  PROVE  Passed'
<1>1. StoreTypes /\ ProcessTypes /\ RootedOrNot /\ DescribedBefore /\ Passed /\ Batches
  BY DEF OpenInv
<1>2. ASSUME NEW m \in Memory, root[m] # Null PROVE root'[m] # Null
  BY <1>1, <1>2, RowsStay DEF RootedOrNot, Memory
<1>3. ASSUME AtWork, NEW c, RootedTo(c) PROVE \A m \in stored' \ late' : m <= c => root'[m] # Null
  <2>1. ASSUME NEW m \in stored' \ late', m <= c PROVE root'[m] # Null
    <3>1. CASE m = New
      BY <2>1, <3>1, RowsStay
    <3>2. CASE m # New
      <4>1. m \in stored \ late
        BY <1>3, <2>1, <3>2, ComesLate
      <4> QED BY <1>1, <1>2, <1>3, <2>1, <4>1 DEF RootedTo, StoreTypes
    <3> QED BY <3>1, <3>2
  <2> QED BY <2>1
<1>4. ASSUME NEW q \in Starter, pc'[q] \in Backfilling
      PROVE  \A m \in stored' \ late' : m <= cursor'[q] => root'[m] # Null
  <2>1. CASE pc[q] \in Backfilling /\ cursor'[q] = cursor[q]
    <3>1. AtWork /\ RootedTo(cursor[q])
      BY <1>1, <2>1 DEF AtWork, Describing, Passed
    <3> QED BY <1>3, <2>1, <3>1
  <2>2. CASE q = p /\ ReadState(p)
    <3>1. AtWork /\ cursor'[p] = (IF migration.status = "running" THEN migration.cursor ELSE 0)
      BY <1>1, <2>2 DEF ReadState, Goto, AtWork, Describing, ProcessTypes
    <3>2. CASE migration.status = "running"
      BY <1>1, <1>3, <2>2, <3>1, <3>2 DEF Passed
    <3>3. CASE migration.status # "running"
      <4>1. RootedTo(0)
        <5>1. ASSUME NEW m \in Legacy PROVE ~(m <= 0)
          <6>1. m \in Nat /\ m # 0
            BY NewIsNotLegacy DEF Memory
          <6> QED BY <6>1
        <5> QED BY <1>1, <5>1 DEF RootedTo, RootedOrNot, StoreTypes, Memory
      <4> QED BY <1>3, <2>2, <3>1, <3>3, <4>1
    <3> QED BY <3>2, <3>3
  <2>3. CASE q = p /\ NextInBatch(p)
    <3> DEFINE done == Min(batch[p])
               rest == batch[p] \ {done}
    <3>1. /\ pc[p] = "insert" /\ AtWork /\ pc[p] \in Walking /\ pc[p] \in Backfilling
          /\ pc[p] \in Writing
      BY <2>3 DEF NextInBatch, InsertRow, Goto, AtWork, Describing, Backfilling, Walking, Writing
    <3>2. rest # {}  => cursor'[p] = cursor[p]
      BY <1>1, <2>3 DEF NextInBatch, ProcessTypes
    <3>3. CASE rest # {}
      BY <2>1, <2>3, <3>1, <3>2, <3>3
    <3>4. CASE rest = {}
      <4>1. cursor'[p] = done
        BY <1>1, <2>3, <3>4 DEF NextInBatch, ProcessTypes, Process
      <4>2. batch[p] = {done} /\ done \in Legacy
        BY <2>3, <3>1, <3>4, SubjectFacts
      <4>3. chain[p] = <<>> /\ Subject(p) = done
        BY <2>3, <3>1 DEF NextInBatch, OpenInv, Chains, ChainOf
      <4>4. root[done] # Null
        <5>1. WriteOf(p) /\ write[p].memory = done
          BY <2>3, <3>1, <4>3, SubjectFacts DEF Subject
        <5> QED BY <3>1, <5>1, NewIsNotLegacy DEF WriteOf
      <4>5. RootedTo(done)
        <5>1. SUFFICES ASSUME NEW m \in stored \ late, m <= done, root[m] = Null PROVE FALSE
          BY DEF RootedTo
        <5>2. m \in batch[p] \/ \A b \in batch[p] : b < m
          BY <1>1, <2>3, <3>1, <5>1 DEF Batches
        <5>3. m \in Nat /\ done \in Nat
          BY <1>1, <4>2, NewIsNotLegacy DEF StoreTypes, Memory
        <5> QED BY <4>2, <4>4, <5>1, <5>2, <5>3
      <4> QED BY <1>3, <2>3, <3>1, <4>1, <4>5
    <3> QED BY <3>3, <3>4
  <2> QED BY <1>1, <1>4, <2>1, <2>2, <2>3, ComesFrom, OthersStand DEF Others, Process, OpenInv
<1>5. ASSUME migration'.status = "running"
      PROVE  \A m \in stored' \ late' : m <= migration'.cursor => root'[m] # Null
  <2>1. CASE UNCHANGED migration
    BY <1>1, <1>3, <1>5, <2>1 DEF Passed, AtWork
  <2>2. CASE /\ p \in Starter /\ pc[p] \in {"begin", "progress"}
             /\ migration' = [status |-> "running", cursor |-> cursor[p]]
    <3>1. AtWork /\ RootedTo(cursor[p])
      BY <1>1, <2>2 DEF Passed, AtWork, Describing, Backfilling
    <3> QED BY <1>3, <2>2, <3>1
  <2> QED BY <1>5, <2>1, <2>2, MigrationActs
<1>6. ASSUME NEW q \in Starter, pc'[q] \in {"complete", "after", "ready"},
             NEW m \in began'[q] \ late'
      PROVE  root'[m] # Null
  <2>1. m \in stored' /\ m \in Memory
    BY <1>6, PastStep, RowsStay DEF PastTypes
  <2>2. CASE m = New
    BY <2>1, <2>2, RowsStay
  <2>3. CASE m # New
    <3>1. m \in began[q] \ late
      BY <1>6, <2>1, <2>3, ComesLate
    <3>2. CASE pc[q] \in {"complete", "after", "ready"}
      BY <1>1, <1>2, <2>1, <3>1, <3>2 DEF Passed
    <3>3. CASE q = p /\ (Select(p) \/ ReadState(p))
      <4>1. pc[p] \in Describing /\ m \in meta
        BY <1>1, <3>1, <3>3 DEF Select, ReadState, Goto, Describing, Backfilling, DescribedBefore
      <4>2. CASE ReadState(p)
        <5>1. Rootless = {}
          BY <1>1, <1>6, <3>3, <4>2 DEF ReadState, Goto, ProcessTypes
        <5> QED BY <1>2, <2>1, <4>1, <5>1 DEF Rootless
      <4>3. CASE Select(p)
        <5>1. {x \in Rootless : x > cursor[p]} = {} /\ pc[p] = "select"
          BY <1>1, <1>6, <3>3, <4>3 DEF Select, Goto, ProcessTypes
        <5>2. RootedTo(cursor[p])
          BY <1>1, <3>3, <5>1 DEF Passed, Backfilling
        <5>3. ASSUME root[m] = Null PROVE FALSE
          <6>1. ~(m > cursor[p])
            BY <4>1, <5>1, <5>3 DEF Rootless
          <6>2. m \in Nat /\ cursor[p] \in Nat
            BY <1>1, <2>1, <3>3, NewIsNotLegacy DEF ProcessTypes, Memory
          <6>3. m \in stored \ late
            BY <1>1, <3>1, <4>1 DEF StoreTypes
          <6> QED BY <5>2, <5>3, <6>1, <6>2, <6>3 DEF RootedTo
        <5> QED BY <1>2, <2>1, <5>3
      <4> QED BY <3>3, <4>2, <4>3
    <3> QED BY <1>1, <1>6, <3>2, <3>3, ComesFrom, OthersStand DEF Others, Process, OpenInv
  <2> QED BY <2>2, <2>3
<1> QED BY <1>4, <1>5, <1>6 DEF Passed, RootedTo

\* A parent has metadata before its child has a root, and no row of a lost
\* parent comes back.
LEMMA ParentsStep ==
  ASSUME OpenInv, NEW p \in Process, Acts(p)
  PROVE  Parents'
<1> DEFINE Rooting == \E q \in Starter : pc[q] \in Describing
           Goal(m) == /\ parent'[m] \in stored' \union {Gone, Null}
                      /\ (root'[m] # Null \/ Rooting') => parent'[m] \notin stored' \ meta'
<1>1. /\ StoreTypes /\ RootedOrNot /\ Parents /\ New \in Memory /\ Legacy \subseteq Memory
      /\ stored \subseteq stored'
  BY RowsStay DEF OpenInv, Memory
<1>2. Rooting' => Rooting \/ Describe(p)
  BY StaysAtWork
<1>3. SUFFICES ASSUME NEW m \in Memory PROVE Goal(m)
  BY DEF Parents
<1>4. /\ parent[m] \in stored \union {Gone, Null}
      /\ (root[m] # Null \/ Rooting) => parent[m] \notin stored \ meta
  BY <1>1 DEF Parents
<1> HIDE DEF Rooting
<1>5. CASE Describe(p)
  BY <1>1, <1>4, <1>5 DEF Describe
<1>6. CASE ~Describe(p) /\ UNCHANGED <<stored, meta, parent, root, depth>>
  BY <1>2, <1>4, <1>6
<1>7. CASE UNCHANGED storeRows \/ Repair(p) \/ Delete(p) \/ InsertsRow(p)
  BY <1>5, <1>6, <1>7 DEF storeRows, Repair, Delete, InsertsRow
<1>8. CASE ~Describe(p) /\ Update(p)
  <2>1. UNCHANGED <<stored, meta, parent>>
    BY <1>8 DEF Update
  <2>2. CASE p \in Starter
    <3>1. Rooting
      BY <1>8, <2>2 DEF Rooting, Update, Goto, Describing, Backfilling, Walking, Writing
    <3> QED BY <1>4, <2>1, <3>1
  <2>3. CASE p = Writer
    <3>1. write[p].memory = New /\ root[New] # Null
      BY <1>1, <1>8, <2>3 DEF OpenInv, Writes, WriteOf, Writing, Update, Goto, RootedOrNot
    <3>2. m # New => root'[m] = root[m]
      BY <1>1, <1>8, <3>1 DEF Update, StoreTypes
    <3> QED BY <1>2, <1>4, <1>8, <2>1, <3>1, <3>2
  <2> QED BY <2>2, <2>3 DEF Process
<1>9. CASE ~Describe(p) /\ InsertMemory
  <2>1. parent[New] = Null
    BY <1>1, <1>9 DEF InsertMemory, RootedOrNot
  <2>2. m # New => root'[m] = root[m]
    BY <1>1, <1>9 DEF InsertMemory, StoreTypes
  <2>3. /\ stored' = stored \union {New} /\ meta' = meta \union {New} /\ parent' = parent
        /\ stored' \subseteq Memory
    BY <1>1, <1>9 DEF InsertMemory, StoreTypes
  <2>4. CASE m = New
    BY <2>1, <2>3, <2>4, NewIsNotLegacy
  <2>5. CASE m # New
    BY <1>2, <1>4, <1>9, <2>2, <2>3, <2>5, NewIsNotLegacy
  <2> QED BY <2>4, <2>5
<1>10. ASSUME ~Describe(p), NEW q \in Legacy, govern_new_memory(q) PROVE Goal(m)
  <2>1. CASE root[q] = Null
    BY <1>6, <1>10, <2>1 DEF govern_new_memory
  <2>2. CASE root[q] # Null
    <3>1. /\ parent' = [parent EXCEPT ![New] = q] /\ root' = [root EXCEPT ![New] = root[q]]
          /\ UNCHANGED <<stored, meta>> /\ q \in meta /\ q \in stored
      BY <1>1, <1>10, <2>2 DEF govern_new_memory, StoreTypes
    <3>2. CASE m = New
      BY <1>1, <3>1, <3>2 DEF StoreTypes
    <3>3. CASE m # New
      BY <1>1, <1>2, <1>4, <1>10, <3>1, <3>3 DEF StoreTypes
    <3> QED BY <3>2, <3>3
  <2> QED BY <2>1, <2>2
<1>11. ASSUME ~Describe(p), NEW n \in Legacy, LegacyInsert(n) PROVE Goal(m)
  <2>1. parent[m] # n
    BY <1>1, <1>4, <1>11, NewIsNotLegacy DEF LegacyInsert
  <2> QED BY <1>2, <1>4, <1>11, <2>1 DEF LegacyInsert
<1> QED BY <1>5, <1>7, <1>8, <1>9, <1>10, <1>11, RowActs

\* What a memory inherits it goes on inheriting.
LEMMA InheritsStays ==
  ASSUME OpenInv, NEW p \in Process, Acts(p), NEW m \in meta, parent'[m] = parent[m],
         root[m] # Null \/ \E q \in Starter : pc[q] \in Describing,
         NEW r \in Memory, NEW d, Inherits(m, r, d)
  PROVE  Inherits(m, r, d)'
<1> DEFINE y == parent[m]
<1>1. StoreTypes /\ Parents /\ m \in Memory
  BY DEF OpenInv, StoreTypes
<1>2. y \in stored \union {Gone, Null} /\ y \notin stored \ meta /\ y # New
  BY <1>1, NewIsNotLegacy DEF Parents, StoreTypes, Memory
<1>3. meta \subseteq meta' /\ meta' \subseteq Memory
  BY <1>1, RowsStay
<1>4. y \in meta <=> y \in meta'
  BY <1>2, <1>3, NewIsNotLegacy
<1>5. ASSUME y \in meta PROVE root'[y] = root[y] /\ depth'[y] = depth[y]
  <2>1. root[y] # Null /\ y \in Memory
    BY <1>1, <1>5, NewIsNotLegacy DEF Inherits, StoreTypes
  <2> QED BY <1>2, <2>1, RowsStay
<1> QED BY <1>4, <1>5 DEF Inherits

\* The root of a memory that someone else remembers is kept too.
LEMMA RootsKept ==
  ASSUME OpenInv, NEW p \in Process, Acts(p), NEW m \in Memory, root[m] # Null,
         m # New \/ p # Writer \/ Update(p)
  PROVE  root'[m] = root[m] /\ depth'[m] = depth[m] /\ parent'[m] = parent[m]
<1>1. CASE UNCHANGED storeRows \/ Describe(p) \/ Repair(p) \/ Delete(p) \/ InsertsRow(p)
           \/ \E n \in Legacy : LegacyInsert(n)
  BY <1>1 DEF storeRows, Describe, Repair, Delete, InsertsRow, LegacyInsert
<1>2. CASE Update(p)
  BY <1>2, RootIsKept DEF Update
<1>3. CASE m # New
  BY <1>3, RowsStay
<1> QED BY <1>1, <1>2, <1>3, RowActs

LEMMA InheritStep ==
  ASSUME OpenInv, NEW p \in Process, Acts(p)
  PROVE  RootsInherit'
<1>1. StoreTypes /\ RootedOrNot /\ RootsInherit /\ Legacy \subseteq Memory
  BY DEF OpenInv, Memory
<1>2. SUFFICES ASSUME NEW m \in meta', NEW r \in Memory, NEW d, r = root'[m], d = depth'[m]
               PROVE  Inherits(m, r, d)'
  <2>1. SUFFICES ASSUME NEW m \in meta', root'[m] # Null
                 PROVE  IF parent'[m] \in meta'
                        THEN root'[m] = root'[parent'[m]]
                             /\ depth'[m] = depth'[parent'[m]] + 1
                        ELSE root'[m] = OwnRoot(m) /\ depth'[m] = 0
    BY DEF RootsInherit
  <2>2. root'[m] \in Memory
    BY <1>1, <2>1, RowsStay
  <2> QED BY <1>2, <2>1, <2>2 DEF Inherits
<1>3. m \in Memory /\ r # Null
  BY <1>1, RowsStay, NewIsNotLegacy
<1>4. CASE m \in meta /\ root[m] # Null /\ (m # New \/ p # Writer \/ Update(p))
  <2>1. root'[m] = root[m] /\ depth'[m] = depth[m] /\ parent'[m] = parent[m]
    BY <1>3, <1>4, RootsKept
  <2>2. Inherits(m, r, d)
    BY <1>1, <1>2, <1>4, <2>1 DEF RootsInherit, Inherits
  <2> QED BY <1>4, <2>1, <2>2, InheritsStays
<1>5. CASE root[m] = Null /\ ~(p = Writer /\ m = New)
  <2>1. CASE Update(p)
    <3>1. m = write[p].memory /\ WriteOf(p) /\ pc[p] = "update"
      BY <1>1, <1>2, <1>3, <1>5, <2>1
      DEF OpenInv, Writes, Writing, Update, Goto, StoreTypes
    <3>2. r = write[p].root /\ d = write[p].depth /\ parent' = parent
      BY <1>1, <1>2, <1>3, <2>1, <3>1 DEF Update, StoreTypes
    <3>3. p \in Starter
      BY <1>5, <3>1 DEF WriteOf, Process
    <3>4. \E q \in Starter : pc[q] \in Describing
      BY <3>1, <3>3 DEF Describing, Backfilling, Walking, Writing
    <3>5. m \in meta /\ Inherits(m, r, d)
      BY <3>1, <3>2 DEF WriteOf
    <3> QED BY <3>2, <3>4, <3>5, InheritsStays
  <2>2. CASE UNCHANGED storeRows \/ Describe(p) \/ Repair(p) \/ Delete(p) \/ InsertsRow(p)
             \/ \E n \in Legacy : LegacyInsert(n)
    <3>1. root' = root
      BY <2>2 DEF storeRows, Describe, Repair, Delete, InsertsRow, LegacyInsert
    <3> QED BY <1>2, <1>3, <1>5, <3>1
  <2>3. CASE p = Writer /\ (InsertMemory \/ \E n \in Legacy : govern_new_memory(n))
    <3>1. root'[m] = root[m]
      BY <1>1, <1>3, <1>5, <2>3 DEF InsertMemory, govern_new_memory, StoreTypes
    <3> QED BY <1>2, <1>3, <1>5, <3>1
  <2> QED BY <2>1, <2>2, <2>3, RowActs
<1>6. CASE p = Writer /\ m = New
  <2>1. CASE InsertMemory
    <3>1. parent'[New] = Null /\ r = New /\ d = 0 /\ meta' \subseteq Memory
      BY <1>1, <1>2, <1>6, <2>1, RowsStay DEF InsertMemory, RootedOrNot, StoreTypes, OwnRoot
    <3> QED BY <1>6, <3>1, NewIsNotLegacy DEF Inherits, OwnRoot
  <2>2. ASSUME NEW q \in Legacy, govern_new_memory(q) PROVE Inherits(m, r, d)'
    <3>1. New \in meta /\ root[New] # Null
      BY <1>1, <1>6, <2>2 DEF govern_new_memory, Goto, RootedOrNot
    <3>2. CASE root[q] = Null
      <4>1. UNCHANGED <<meta, parent, root, depth>>
        BY <2>2, <3>2 DEF govern_new_memory
      <4>2. Inherits(m, r, d)
        BY <1>1, <1>2, <1>6, <3>1, <4>1 DEF RootsInherit, Inherits
      <4> QED BY <4>1, <4>2 DEF Inherits
    <3>3. CASE root[q] # Null
      <4>1. /\ parent'[New] = q /\ q \in meta' /\ q # New
            /\ root' = [root EXCEPT ![New] = root[q]]
            /\ depth' = [depth EXCEPT ![New] = depth[q] + 1]
        BY <1>1, <1>3, <1>6, <2>2, <3>3 DEF govern_new_memory, StoreTypes
      <4>2. r = root'[q] /\ d = depth'[q] + 1
        BY <1>1, <1>2, <1>3, <1>6, <4>1 DEF StoreTypes
      <4> QED BY <1>6, <4>1, <4>2 DEF Inherits
    <3> QED BY <3>2, <3>3
  <2>3. CASE Update(p)
    <3>1. m \in meta /\ root[m] # Null
      BY <1>1, <1>6, <2>3 DEF Update, Goto, RootedOrNot
    <3> QED BY <1>4, <2>3, <3>1
  <2>4. CASE UNCHANGED <<parent, root, depth>> /\ (Describe(p) \/ UNCHANGED meta)
    <3>1. m \in meta /\ root[m] # Null
      BY <1>1, <1>2, <1>3, <1>6, <2>4 DEF Describe, RootedOrNot
    <3>2. Inherits(m, r, d)
      BY <1>1, <1>2, <2>4, <3>1 DEF RootsInherit, Inherits
    <3> QED BY <2>4, <3>1, <3>2, InheritsStays
  <2>5. CASE UNCHANGED storeRows \/ Describe(p) \/ Repair(p) \/ Delete(p) \/ InsertsRow(p)
             \/ \E n \in Legacy : LegacyInsert(n)
    BY <2>4, <2>5 DEF storeRows, Describe, Repair, Delete, InsertsRow, LegacyInsert
  <2> QED BY <2>1, <2>2, <2>3, <2>5, RowActs
<1> QED
  <2>1. m \notin meta => root[m] = Null
    BY <1>1, <1>3 DEF RootedOrNot
  <2> QED BY <1>4, <1>5, <1>6, <2>1

\* A step that is not the starter's own leaves its walk, as do the statements
\* that persist a root.
LEMMA WalksFrom ==
  ASSUME OpenInv, NEW p \in Starter, Acts(p)
  PROVE  /\ pc'[p] \in Walking =>
              \/ pc[p] \in Walking /\ batch'[p] = batch[p]
              \/ Select(p) \/ NextInBatch(p)
         /\ pc'[p] \notin Walking \union {"fail"} => chain'[p] = <<>>
<1>1. /\ pc' = [pc EXCEPT ![p] = pc'[p]] /\ p \in Process /\ p # Writer
      /\ ProcessTypes /\ Batches /\ pc \in [Process -> PC]
  BY PlacesStep, NewIsNotLegacy DEF OpenInv, ProcessTypes, Process
<1>2. pc[p] \notin Walking \union {"fail"} => chain[p] = <<>>
  BY <1>1 DEF Batches
<1> DEFINE Goal == /\ pc'[p] \in Walking =>
                        \/ pc[p] \in Walking /\ batch'[p] = batch[p]
                        \/ Select(p) \/ NextInBatch(p)
                   /\ pc'[p] \notin Walking \union {"fail"} => chain'[p] = <<>>
<1> USE DEF Walking, Writing, Goto, ProcessTypes
<1>3. CASE Migrate(p)
  <2>1. CASE Start(p) \/ Close(p) \/ Describe(p) \/ Repair(p) \/ Begin(p) \/ Progress(p)
    BY <1>1, <1>2, <2>1 DEF Start, Close, Describe, Repair, Begin, Progress, locals
  <2>2. CASE Fail(p) \/ Complete(p)
    BY <1>1, <2>2 DEF Fail, Complete, Forget
  <2>3. CASE ReadState(p) \/ Select(p)
    BY <1>1, <1>2, <2>3 DEF ReadState, Select
  <2>4. CASE resolve_missing_evidence_root(p)
    <3>1. /\ pc[p] = "walk" /\ batch' = batch
          /\ pc'[p] \in {"fail", "down", "update", "walk"}
          /\ pc'[p] = "down" => chain'[p] = <<>>
      BY <1>1, <2>4 DEF resolve_missing_evidence_root, ReachCycle, ReachBroken, ReachRoot,
         ReachOrigin, ReachParent
    <3> QED BY <3>1
  <2>5. CASE Inherit(p)
    BY <1>1, <2>5 DEF Inherit, InsertRow
  <2>6. CASE NextInBatch(p)
    BY <1>1, <2>6 DEF NextInBatch
  <2>7. ASSUME NEW list, NEW from, NEW to,
               <<from, to>> \in {<<"before", "describe">>, <<"evidence", "repair">>,
                                 <<"after", "ready">>},
               IsList(list), Statements(p, from, list, to)
        PROVE  Goal
    <3>1. pc[p] = from /\ pc'[p] \in {to, "down"} /\ UNCHANGED locals
      BY <1>1, <2>7, StatementsRun
    <3> QED BY <1>2, <2>7, <3>1 DEF locals
  <2>8. CASE \E list : /\ IsList(list)
                       /\ \/ list = BeforeBackfill /\ Statements(p, "before", list, "describe")
                          \/ list = EvidenceGroup /\ Statements(p, "evidence", list, "repair")
                          \/ list = AfterBackfill /\ Statements(p, "after", list, "ready")
    BY <2>7, <2>8
  <2> QED BY <1>3, <2>1, <2>2, <2>3, <2>4, <2>5, <2>6, <2>8, StarterActs
<1>4. CASE Update(p) \/ Delete(p)
  BY <1>1, <1>4 DEF Update, Delete, locals
<1>5. CASE Die(p)
  BY <1>1, <1>5 DEF Die, Forget
<1>6. CASE \E m \in Legacy : LegacyInsert(m)
  BY <1>1, <1>2, <1>6 DEF LegacyInsert, locals
<1> QED BY <1>1, <1>3, <1>4, <1>5, <1>6 DEF Acts

LEMMA BatchesStep ==
  ASSUME OpenInv, NEW p \in Process, Acts(p)
  PROVE  Batches'
<1>1. /\ StoreTypes /\ ProcessTypes /\ PastTypes /\ RootedOrNot /\ DescribedBefore
      /\ Passed /\ Batches
      /\ meta \subseteq meta' /\ stored' \subseteq Memory
  BY RowsStay DEF OpenInv
<1>2. SUFFICES ASSUME NEW q \in Starter
      PROVE  /\ pc'[q] \in Walking =>
                  /\ batch'[q] # {} /\ batch'[q] \subseteq meta'
                  /\ \A m \in stored' \ late' :
                       root'[m] = Null => m \in batch'[q] \/ \A b \in batch'[q] : b < m
             /\ pc'[q] \notin Walking \union {"fail"} => chain'[q] = <<>>
  BY DEF Batches
<1>3. ASSUME AtWork, NEW m \in stored' \ late', root'[m] = Null
      PROVE  m \in stored \ late /\ root[m] = Null
  <2>1. m # New /\ m \in Memory
    BY <1>1, <1>3, RowsStay
  <2> QED BY <1>3, <2>1, ComesLate, RowsStay
<1>4. ASSUME pc'[q] \notin Walking \union {"fail"} PROVE chain'[q] = <<>>
  BY <1>1, <1>4, WalksFrom, OthersStand DEF Batches, Others, Process, OpenInv
<1>5. ASSUME pc'[q] \in Walking
      PROVE  /\ batch'[q] # {} /\ batch'[q] \subseteq meta'
             /\ \A m \in stored' \ late' :
                  root'[m] = Null => m \in batch'[q] \/ \A b \in batch'[q] : b < m
  <2>1. CASE pc[q] \in Walking /\ batch'[q] = batch[q]
    <3>1. AtWork
      BY <2>1 DEF AtWork, Describing, Backfilling
    <3>2. /\ batch[q] # {} /\ batch[q] \subseteq meta
          /\ \A m \in stored \ late :
               root[m] = Null => m \in batch[q] \/ \A b \in batch[q] : b < m
      BY <1>1, <2>1 DEF Batches
    <3> QED BY <1>1, <1>3, <2>1, <3>1, <3>2
  <2>2. CASE q = p /\ Select(p)
    <3> DEFINE rootless  == {m \in Rootless : m > cursor[p]}
               next == {m \in rootless : Cardinality({n \in rootless : n <= m}) <= BATCH}
    <3>1. pc[p] = "select" /\ rootless # {} /\ batch'[p] = next
      BY <1>1, <1>5, <2>2 DEF Select, Goto, ProcessTypes, Walking, Writing
    <3>2. AtWork /\ RootedTo(cursor[p]) /\ cursor[p] \in Nat
      BY <1>1, <2>2, <3>1, NewIsNotLegacy
      DEF AtWork, Describing, Backfilling, Passed, ProcessTypes, Memory
    <3>3. rootless \in SUBSET Legacy /\ rootless \subseteq meta
      BY RootlessIsLegacy
    <3>4. /\ next # {} /\ next \subseteq rootless
          /\ \A m \in rootless \ next : \A b \in next : b < m
      <4> HIDE DEF rootless
      <4> QED BY <3>1, <3>3, SelectedFacts
    <3>5. ASSUME NEW m \in stored' \ late', root'[m] = Null PROVE m \in rootless
      <4>1. m \in stored \ late /\ root[m] = Null
        BY <1>3, <3>2, <3>5
      <4>2. m \in meta /\ m \in Nat
        BY <1>1, <3>2, <4>1, NewIsNotLegacy DEF DescribedBefore, StoreTypes
      <4>3. m > cursor[p]
        <5>1. ~(m <= cursor[p])
          BY <3>2, <4>1 DEF RootedTo
        <5> QED BY <3>2, <4>2, <5>1
      <4> QED BY <4>1, <4>2, <4>3 DEF Rootless
    <3> HIDE DEF next, rootless
    <3> QED BY <1>1, <2>2, <3>1, <3>3, <3>4, <3>5
  <2>3. CASE q = p /\ NextInBatch(p)
    <3> DEFINE done == Min(batch[p])
               rest == batch[p] \ {done}
    <3>1. /\ pc[p] = "insert" /\ chain[p] = <<>> /\ rest # {} /\ batch'[p] = rest
          /\ pc[p] \in Writing /\ pc[p] \in Walking
      BY <1>1, <1>5, <2>3 DEF NextInBatch, InsertRow, Goto, ProcessTypes, Walking, Writing
    <3>2. AtWork
      BY <2>3, <3>1 DEF AtWork, Describing, Backfilling
    <3>3. root[done] # Null
      <4>1. WriteOf(p) /\ write[p].memory = Subject(p)
        BY <2>3, <3>1, SubjectFacts DEF Subject
      <4>2. Subject(p) = done
        BY <2>3, <3>1 DEF OpenInv, Chains, ChainOf
      <4> QED BY <3>1, <4>1, <4>2, NewIsNotLegacy DEF WriteOf
    <3>4. /\ batch[p] \subseteq meta
          /\ \A m \in stored \ late :
               root[m] = Null => m \in batch[p] \/ \A b \in batch[p] : b < m
      BY <1>1, <2>3, <3>1 DEF Batches
    <3>5. ASSUME NEW m \in stored' \ late', root'[m] = Null
          PROVE  m \in rest \/ \A b \in rest : b < m
      <4>1. m \in stored \ late /\ root[m] = Null
        BY <1>3, <3>2, <3>5
      <4> QED BY <3>3, <3>4, <4>1
    <3> QED BY <1>1, <2>3, <3>1, <3>4, <3>5
  <2> QED BY <1>1, <1>5, <2>1, <2>2, <2>3, WalksFrom, OthersStand DEF Others, Process, OpenInv
<1> QED BY <1>4, <1>5

\* A walk whose subject and chain stay as they are.
LEMMA ChainStands ==
  ASSUME OpenInv, NEW p \in Process, Acts(p), NEW q \in Starter, pc[q] \in Walking,
         chain'[q] = chain[q], Subject(q)' = Subject(q), batch'[q] = batch[q]
  PROVE  ChainOf(q)'
<1>1. /\ ChainOf(q) /\ chain[q] \in Seq(Legacy) /\ Len(chain[q]) \in Nat
      /\ meta \subseteq meta' /\ \A m \in Legacy : parent'[m] = parent[m]
  BY SubjectFacts, RowsStay, NewIsNotLegacy DEF OpenInv, Chains, Memory
<1>2. \A i \in 1..Len(chain[q]) : chain[q][i] \in Legacy
  BY <1>1, ElementOfSeq
<1>3. chain[q] # <<>> => Last(chain[q]) \in Legacy
  BY <1>1, FrontFacts
<1> QED BY SMTT(30), <1>1, <1>2, <1>3 DEF ChainOf

\* A walk that goes one row back.
LEMMA ChainPopped ==
  ASSUME OpenInv, NEW p \in Process, Acts(p), NEW q \in Starter, pc[q] \in Walking,
         chain[q] # <<>>, chain'[q] = Front(chain[q]), Subject(q)' = Last(chain[q]),
         batch'[q] = batch[q]
  PROVE  ChainOf(q)'
<1> DEFINE s == chain[q]
           n == Len(s)
<1>1. /\ ChainOf(q) /\ s \in Seq(Legacy)
      /\ meta \subseteq meta' /\ \A m \in Legacy : parent'[m] = parent[m]
  BY SubjectFacts, RowsStay, NewIsNotLegacy DEF OpenInv, Chains, Memory
<1>2. /\ Front(s) \in Seq(Legacy) /\ n \in Nat \ {0} /\ Len(Front(s)) = n - 1
      /\ \A i \in 1..n - 1 : Front(s)[i] = s[i]
      /\ Last(s) = s[n] /\ \A i \in 1..n : s[i] \in Legacy
  BY <1>1, FrontFacts, ElementOfSeq
<1>3. /\ \A i \in 1..n : s[i] \in meta
      /\ \A i \in 1..n - 1 : parent[s[i]] = s[i + 1]
      /\ s[1] = Min(batch[q])
  BY <1>1 DEF ChainOf
<1> HIDE DEF s, n
<1>4. \A i \in 1..n - 1 : Front(s)[i] \in meta'
  BY <1>1, <1>2, <1>3
<1>5. \A i \in 1..(n - 1) - 1 : parent'[Front(s)[i]] = Front(s)[i + 1]
  <2>1. ASSUME NEW i \in 1..(n - 1) - 1 PROVE parent'[Front(s)[i]] = Front(s)[i + 1]
    <3>1. i \in 1..n - 1 /\ i + 1 \in 1..n - 1 /\ i \in 1..n
      BY <1>2
    <3> QED BY ZenonT(60), <1>1, <1>2, <1>3, <3>1
  <2> QED BY <2>1
<1>6. Front(s) = <<>> => Last(s) = Min(batch[q])
  <2>1. Front(s) = <<>> => n - 1 = 0
    BY <1>2, EmptySeq
  <2> QED BY <1>2, <1>3, <2>1
<1>7. Front(s) # <<>> => /\ Front(s)[1] = Min(batch[q])
                         /\ parent'[Last(Front(s))] = Last(s)
  <2>1. ASSUME Front(s) # <<>> PROVE n - 1 \in 1..n - 1 /\ 1 \in 1..n - 1 /\ n - 1 \in 1..n
    <3>1. n - 1 # 0
      BY <1>2, <2>1, EmptySeq
    <3> QED BY <1>2, <3>1
  <2>2. Last(Front(s)) = Front(s)[n - 1]
    BY <1>2 DEF Last
  <2>3. (n - 1) + 1 = n
    BY <1>2
  <2> QED BY <1>1, <1>2, <1>3, <2>1, <2>2, <2>3
<1> QED BY <1>2, <1>4, <1>5, <1>6, <1>7 DEF ChainOf, s

\* A walk that goes one row towards the root.
LEMMA ChainPushed ==
  ASSUME OpenInv, NEW p \in Starter, Acts(p), ReachParent(p), UNCHANGED <<batch, meta, parent>>
  PROVE  ChainOf(p)'
<1> DEFINE s == chain[p]
           n == Len(s)
           x == at[p]
<1>1. /\ ProcessTypes /\ pc[p] = "walk" /\ pc'[p] = "walk" /\ pc[p] \in Walking
      /\ p \in Process /\ x \in meta
  BY DEF OpenInv, ProcessTypes, ReachParent, Goto, Walking, Process, Rootless
<1>2. /\ ChainOf(p) /\ s \in Seq(Legacy) /\ n \in Nat /\ Subject(p) = x /\ x \in Legacy
  BY <1>1, SubjectFacts, RootlessIsLegacy DEF OpenInv, Chains, Subject, ReachParent
<1>3. chain'[p] = Append(s, x) /\ at'[p] = parent[x]
  BY <1>1 DEF ReachParent, ProcessTypes
<1>4. Subject(p)' = parent[x]
  BY <1>1, <1>3 DEF Subject
<1>5. /\ \A i \in 1..n : s[i] \in meta
      /\ \A i \in 1..n - 1 : parent[s[i]] = s[i + 1]
      /\ s = <<>> => x = Min(batch[p])
      /\ s # <<>> => s[1] = Min(batch[p]) /\ parent[s[n]] = x
  BY <1>2 DEF ChainOf, Last
<1>6. /\ Len(Append(s, x)) = n + 1 /\ Append(s, x)[n + 1] = x
      /\ \A i \in 1..n : Append(s, x)[i] = s[i]
      /\ Append(s, x) # <<>>
  BY <1>2, AppendProperties
<1>7. s = <<>> <=> n = 0
  BY <1>2, EmptySeq
<1> HIDE DEF s, n, x
<1>8. \A i \in 1..n + 1 : Append(s, x)[i] \in meta
  <2>1. \A i \in 1..n + 1 : i = n + 1 \/ i \in 1..n
    BY <1>2
  <2> QED BY <1>1, <1>5, <1>6, <2>1
<1>9. \A i \in 1..(n + 1) - 1 : parent[Append(s, x)[i]] = Append(s, x)[i + 1]
  <2>1. ASSUME NEW i \in 1..(n + 1) - 1 PROVE parent[Append(s, x)[i]] = Append(s, x)[i + 1]
    <3>1. CASE i = n
      BY <1>2, <1>5, <1>6, <1>7, <2>1, <3>1
    <3>2. CASE i # n
      <4>1. i \in 1..n - 1 /\ i \in 1..n /\ i + 1 \in 1..n
        BY <1>2, <2>1, <3>2
      <4> QED BY <1>5, <1>6, <4>1
    <3> QED BY <3>1, <3>2
  <2> QED BY <2>1
<1>10. Append(s, x)[1] = Min(batch[p])
  <2>1. CASE n = 0
    BY <1>5, <1>6, <1>7, <2>1
  <2>2. CASE n # 0
    <3>1. 1 \in 1..n
      BY <1>2, <2>2
    <3> QED BY <1>5, <1>6, <1>7, <2>2, <3>1
  <2> QED BY <2>1, <2>2
<1>11. Last(Append(s, x)) = x
  BY <1>6 DEF Last
<1> QED BY <1>3, <1>4, <1>6, <1>8, <1>9, <1>10, <1>11 DEF ChainOf

\* A walk that begins at the batch's next memory.
LEMMA ChainBegun ==
  ASSUME NEW p \in Starter, chain'[p] = <<>>, pc'[p] = "walk", at'[p] = Min(batch'[p])
  PROVE  ChainOf(p)'
<1>1. Subject(p)' = Min(batch'[p])
  BY DEF Subject
<1>2. Len(chain'[p]) = 0
  OBVIOUS
<1>3. \A i \in 1..Len(chain'[p]) : FALSE
  BY <1>2
<1>4. \A i \in 1..Len(chain'[p]) - 1 : FALSE
  BY <1>2
<1> QED BY <1>1, <1>3, <1>4 DEF ChainOf

LEMMA ChainsStep ==
  ASSUME OpenInv, NEW p \in Process, Acts(p)
  PROVE  Chains'
<1>1. SUFFICES ASSUME NEW q \in Starter, pc'[q] \in Walking PROVE ChainOf(q)'
  BY DEF Chains
<1>2. ProcessTypes /\ q \in Process
  BY DEF OpenInv, Process
<1>3. CASE /\ pc'[q] = pc[q] /\ chain'[q] = chain[q] /\ at'[q] = at[q]
           /\ write'[q] = write[q] /\ batch'[q] = batch[q]
  <2>1. Subject(q)' = Subject(q)
    BY <1>3 DEF Subject
  <2> QED BY <1>1, <1>3, <2>1, ChainStands
<1>4. CASE q # p
  BY <1>2, <1>3, <1>4, OthersStand DEF OpenInv, Others
<1>5. CASE q = p
  <2>1. CASE Update(p) \/ Delete(p)
    <3>1. pc[p] \in Walking /\ Subject(p)' = Subject(p) /\ UNCHANGED locals
      BY <1>2, <1>5, <2>1 DEF Update, Delete, Goto, Subject, ProcessTypes, locals, Walking, Writing
    <3> QED BY <1>5, <3>1, ChainStands DEF locals
  <2>2. CASE Select(p)
    <3> DEFINE rootless  == {m \in Rootless : m > cursor[p]}
    <3>1. pc[p] = "select" /\ rootless # {} /\ pc'[p] = "walk"
      BY <1>1, <1>2, <1>5, <2>2 DEF Select, Goto, ProcessTypes, Walking, Writing
    <3>2. at'[p] = Min(batch'[p]) /\ chain' = chain
      BY <1>2, <1>5, <2>2, <3>1 DEF Select, ProcessTypes
    <3>3. chain[p] = <<>>
      BY <1>5, <3>1 DEF OpenInv, Batches, Walking, Writing
    <3> QED BY <1>5, <3>1, <3>2, <3>3, ChainBegun
  <2>3. CASE NextInBatch(p)
    <3>1. pc'[p] = "walk" /\ at'[p] = Min(batch'[p]) /\ chain'[p] = <<>>
      BY <1>1, <1>2, <1>5, <2>3
      DEF NextInBatch, InsertRow, Goto, ProcessTypes, Walking, Writing
    <3> QED BY <1>5, <3>1, ChainBegun
  <2>4. CASE Inherit(p)
    <3>1. /\ pc[p] \in Walking /\ pc'[p] = "update" /\ batch' = batch /\ chain[p] # <<>>
          /\ chain'[p] = Front(chain[p]) /\ write'[p].memory = Last(chain[p])
      BY <1>2, <1>5, <2>4
      DEF Inherit, InsertRow, Goto, ProcessTypes, Walking, Writing, Root
    <3>2. Subject(p)' = Last(chain[p])
      BY <3>1 DEF Subject
    <3> QED BY <1>5, <3>1, <3>2, ChainPopped
  <2>5. CASE resolve_missing_evidence_root(p)
    <3>1. UNCHANGED <<batch, storeRows>> /\ pc[p] = "walk" /\ pc[p] \in Walking
      BY <2>5 DEF resolve_missing_evidence_root, ReachCycle, ReachBroken, ReachRoot,
         ReachOrigin, ReachParent, Goto, Walking
    <3>2. CASE ReachCycle(p)
      BY <1>1, <1>2, <1>5, <3>2 DEF ReachCycle, Goto, ProcessTypes, Walking, Writing
    <3>3. CASE ReachBroken(p)
      <4>1. /\ pc'[p] = "update" /\ chain[p] # <<>> /\ chain'[p] = Front(chain[p])
            /\ write'[p].memory = Last(chain[p])
        BY <1>1, <1>2, <1>5, <3>3 DEF ReachBroken, Goto, ProcessTypes, Walking, Writing, Root
      <4>2. Subject(p)' = Last(chain[p])
        BY <4>1 DEF Subject
      <4> QED BY <1>5, <3>1, <4>1, <4>2, ChainPopped
    <3>4. CASE ReachRoot(p) \/ ReachOrigin(p)
      <4>1. pc'[p] = "update" /\ write'[p].memory = at[p] /\ chain' = chain
        BY <1>2, <1>5, <3>4 DEF ReachRoot, ReachOrigin, Goto, ProcessTypes, Root
      <4>2. Subject(p)' = Subject(p)
        BY <3>1, <4>1 DEF Subject
      <4> QED BY <1>5, <3>1, <4>1, <4>2, ChainStands
    <3>5. CASE ReachParent(p)
      BY <1>5, <3>1, <3>5, ChainPushed DEF storeRows
    <3> QED BY <2>5, <3>2, <3>3, <3>4, <3>5 DEF resolve_missing_evidence_root
  <2>6. CASE \E m \in Legacy : LegacyInsert(m)
    BY <1>3, <1>5, <2>6 DEF LegacyInsert, locals
  <2>7. CASE Start(p) \/ Close(p) \/ Describe(p) \/ Repair(p) \/ ReadState(p) \/ Begin(p)
             \/ Progress(p) \/ Fail(p) \/ Complete(p) \/ Die(p)
    <3>1. pc'[p] \in {"before", "down", "evidence", "read", "after", "begin", "select"}
      BY <1>2, <1>5, <2>7 DEF Start, Close, Describe, Repair, ReadState, Begin, Progress, Fail,
         Complete, Die, Goto, ProcessTypes
    <3> QED BY <1>1, <1>5, <3>1 DEF Walking, Writing
  <2>8. ASSUME NEW list, NEW from, NEW to \in {"describe", "repair", "ready"},
               IsList(list), Statements(p, from, list, to)
        PROVE  pc'[p] \in {"describe", "repair", "ready", "down"}
    BY <1>2, <1>5, <2>8, StatementsRun DEF ProcessTypes
  <2>9. CASE Migrate(p)
    <3>1. pc'[p] \notin {"describe", "repair", "ready", "down"}
      BY <1>1, <1>5 DEF Walking, Writing
    <3> QED BY <1>5, <2>2, <2>3, <2>4, <2>5, <2>7, <2>8, <2>9, <3>1, StarterActs
  <2> QED BY <1>5, <2>1, <2>6, <2>7, <2>9, NewIsNotLegacy DEF Acts
<1> QED BY <1>4, <1>5

LEMMA WriteIs ==
  ASSUME NEW q \in Process, NEW m \in meta', NEW r \in Memory, NEW d \in Nat,
         write'[q] = Root(m, r, d), (m = New) <=> (q = Writer), Inherits(m, r, d)',
         (pc'[q] # "update" \/ q = Writer) => root'[m] = r /\ depth'[m] = d
  PROVE  WriteOf(q)'
<1>1. /\ write'[q] \in [memory : meta', root : Memory, depth : Nat]
      /\ write'[q].memory = m /\ write'[q].root = r /\ write'[q].depth = d
  BY DEF Root
<1>2. Inherits(write[q].memory, write[q].root, write[q].depth)'
  BY <1>1 DEF Inherits
<1> QED BY <1>1, <1>2 DEF WriteOf

\* What is being written stays right: others give a parent no other root.
LEMMA WriteStands ==
  ASSUME OpenInv, NEW p \in Process, Acts(p), NEW q \in Process, pc[q] \in Writing,
         write'[q] = write[q],
         \/ pc'[q] = pc[q] /\ (q # p \/ UNCHANGED <<parent, root, depth>>)
         \/ q = p /\ (Update(p) \/ Delete(p))
  PROVE  WriteOf(q)'
<1>1. /\ WriteOf(q) /\ StoreTypes /\ ProcessTypes /\ RootedOrNot /\ meta \subseteq meta'
      /\ New \in Memory
  BY RowsStay DEF OpenInv, Writes, Memory
<1>2. PICK m \in meta, r \in Memory, d \in Nat : write[q] = Root(m, r, d)
  BY <1>1 DEF WriteOf, Root
<1>3. write[q].memory = m /\ write[q].root = r /\ write[q].depth = d
  BY <1>2 DEF Root
<1>4. /\ (m = New) <=> (q = Writer)
      /\ Inherits(m, r, d) /\ m \in Memory
      /\ (pc[q] # "update" \/ q = Writer) => root[m] = r /\ depth[m] = d
  BY <1>1, <1>3 DEF WriteOf, StoreTypes
<1>5. \/ m # New \/ p # Writer \/ Update(p)
      \/ UNCHANGED <<parent, root, depth>>
  BY <1>4 DEF Delete
<1>6. root[m] # Null \/ \E s \in Starter : pc[s] \in Describing
  <2>1. CASE q = Writer
    BY <1>1, <1>4, <2>1 DEF RootedOrNot
  <2>2. CASE q # Writer
    BY <2>2 DEF Process, Describing, Backfilling, Walking
  <2> QED BY <2>1, <2>2
<1>7. root[m] # Null => root'[m] = root[m] /\ depth'[m] = depth[m]
  BY <1>4, <1>5, RootsKept
<1>8. parent'[m] = parent[m]
  <2>1. CASE m # New
    BY <1>4, <2>1, RowsStay
  <2>2. CASE m = New
    BY <1>1, <1>2, <1>4, <1>5, <2>2, RootsKept DEF RootedOrNot
  <2> QED BY <2>1, <2>2
<1>9. Inherits(m, r, d)'
  BY <1>2, <1>4, <1>6, <1>8, InheritsStays
<1>10. ASSUME pc'[q] # "update" \/ q = Writer PROVE root'[m] = r /\ depth'[m] = d
  <2>1. CASE pc[q] # "update" \/ q = Writer
    BY <1>2, <1>4, <1>7, <2>1, NewIsNotLegacy
  <2>2. CASE pc[q] = "update" /\ q # Writer
    <3>1. Update(q)
      BY <1>10, <2>2 DEF Delete, Goto
    <3> QED BY <1>1, <1>3, <1>4, <3>1 DEF Update, StoreTypes
  <2> QED BY <2>1, <2>2
<1> QED BY <1>1, <1>2, <1>4, <1>9, <1>10, WriteIs

LEMMA WritesStep ==
  ASSUME OpenInv, NEW p \in Process, Acts(p)
  PROVE  Writes'
<1>1. SUFFICES ASSUME NEW q \in Process, pc'[q] \in Writing PROVE WriteOf(q)'
  BY DEF Writes
<1>2. /\ StoreTypes /\ ProcessTypes /\ PastTypes /\ RootsInherit /\ Legacy \subseteq Memory
      /\ New \in Memory
  BY DEF OpenInv, Memory
<1>3. CASE q # p
  <2>1. pc'[q] = pc[q] /\ write'[q] = write[q]
    BY <1>2, <1>3, OthersStand DEF Others
  <2> QED BY <1>1, <1>3, <2>1, WriteStands
<1>4. CASE q = p
  <2>1. CASE Update(p) \/ Delete(p)
    <3>1. pc[p] \in Writing /\ write' = write
      BY <2>1 DEF Update, Delete, Goto, Writing, locals
    <3> QED BY <1>4, <2>1, <3>1, WriteStands
  <2>2. CASE \E m \in Legacy : LegacyInsert(m)
    <3>1. pc' = pc /\ write' = write /\ UNCHANGED <<parent, root, depth>>
      BY <2>2 DEF LegacyInsert, locals
    <3> QED BY <1>1, <1>4, <3>1, WriteStands
  <2>3. CASE p = Writer /\ \E n \in Legacy : govern_new_memory(n)
    <3>1. PICK n \in Legacy : govern_new_memory(n)
      BY <2>3
    <3>2. /\ root[n] # Null /\ n \in meta /\ n # New /\ meta' = meta
          /\ parent' = [parent EXCEPT ![New] = n]
          /\ root' = [root EXCEPT ![New] = root[n]]
          /\ depth' = [depth EXCEPT ![New] = depth[n] + 1]
          /\ write' = [write EXCEPT ![p] = Root(New, root[n], depth[n] + 1)]
      BY <1>1, <1>2, <1>4, <2>3, <3>1, NewIsNotLegacy
      DEF govern_new_memory, Goto, ProcessTypes, Writing
    <3>3. PICK r \in Memory, d \in Nat : r = root[n] /\ d = depth[n] + 1
      BY <1>2, <3>2 DEF StoreTypes
    <3>4. root'[n] = r /\ depth'[n] + 1 = d /\ root'[New] = r /\ depth'[New] = d /\ parent'[New] = n
      BY <1>2, <3>2, <3>3 DEF StoreTypes
    <3>5. Inherits(New, r, d)'
      BY <3>2, <3>4 DEF Inherits
    <3>6. New \in meta' /\ write'[p] = Root(New, r, d)
      BY <1>2, <1>4, <2>3, <3>1, <3>2, <3>3
      DEF ProcessTypes, OpenInv, RootedOrNot, govern_new_memory, Goto
    <3> QED BY <1>2, <1>4, <2>3, <3>4, <3>5, <3>6, WriteIs
  <2>4. CASE p \in Starter /\ Inherit(p)
    <3> DEFINE m == write[p].memory
               x == Last(chain[p])
    <3>1. /\ pc[p] = "insert" /\ pc'[p] = "update" /\ chain[p] # <<>>
          /\ pc[p] \in Walking /\ pc[p] \in Writing
          /\ write'[p] = Root(x, write[p].root, write[p].depth + 1)
          /\ UNCHANGED <<meta, parent, root, depth>>
      BY <1>2, <1>4, <2>4
      DEF Inherit, InsertRow, Goto, ProcessTypes, Walking, Writing
    <3>2. WriteOf(p) /\ Subject(p) = m /\ ChainOf(p) /\ chain[p] \in Seq(Legacy)
      BY <2>4, <3>1, SubjectFacts DEF Subject, OpenInv, Chains
    <3>3. x \in Legacy /\ x \in meta /\ parent[x] = m
      BY <3>1, <3>2, FrontFacts DEF ChainOf
    <3>4. PICK r \in Memory, d \in Nat : r = write[p].root /\ d = write[p].depth + 1
      <4>1. write[p].root \in Memory /\ write[p].depth \in Nat
        BY <3>2 DEF WriteOf
      <4> QED BY <4>1
    <3>5. root[m] = r /\ depth[m] + 1 = d /\ m \in meta
      BY <3>1, <3>2, <3>4 DEF WriteOf
    <3> HIDE DEF m, x
    <3>6. ASSUME NEW y, y = x PROVE Inherits(y, r, d)'
      BY <3>1, <3>3, <3>5, <3>6 DEF Inherits
    <3>7. x # New /\ p # Writer
      BY <2>4, <3>3, NewIsNotLegacy
    <3>8. PICK y \in meta' : y = x
      BY <3>1, <3>3
    <3> QED BY <1>4, <3>1, <3>4, <3>6, <3>7, <3>8, WriteIs
  <2>5. CASE p \in Starter /\ resolve_missing_evidence_root(p)
    <3>1. /\ UNCHANGED <<meta, parent, root, depth>> /\ pc[p] = "walk" /\ pc[p] \in Walking
          /\ ReachCycle(p) \/ ReachBroken(p) \/ ReachRoot(p) \/ ReachOrigin(p) \/ ReachParent(p)
      BY <2>5 DEF resolve_missing_evidence_root, ReachCycle, ReachBroken, ReachRoot,
         ReachOrigin, ReachParent, Goto, Walking, storeRows
    <3>2. p # Writer /\ at[p] # 0 /\ ChainOf(p) /\ chain[p] \in Seq(Legacy)
      BY <2>5, <3>1, SubjectFacts, NewIsNotLegacy DEF Subject, OpenInv, Chains
    <3>3. at[p] \in meta => at[p] \in Legacy
      BY <1>2, <3>2, NewIsNotLegacy DEF ProcessTypes, StoreTypes
    <3>4. ASSUME NEW m \in meta, m \in Legacy, NEW r \in Memory, NEW d \in Nat,
                 pc'[p] = "update", write'[p] = Root(m, r, d), Inherits(m, r, d)
          PROVE  WriteOf(q)'
      <4>1. Inherits(m, r, d)'
        BY <3>1, <3>4 DEF Inherits
      <4> QED BY <1>4, <3>1, <3>2, <3>4, <4>1, NewIsNotLegacy, WriteIs
    <3>5. CASE ReachBroken(p)
      <4> DEFINE x == Last(chain[p])
      <4>1. /\ chain[p] # <<>> /\ pc'[p] = "update" /\ at[p] \notin meta
            /\ write'[p] = Root(x, OwnRoot(x), 0)
        BY <1>1, <1>2, <1>4, <3>5 DEF ReachBroken, Goto, ProcessTypes, Writing
      <4>2. x \in Legacy /\ x \in meta /\ parent[x] = at[p]
        BY <3>1, <3>2, <4>1, FrontFacts DEF ChainOf, Subject
      <4>3. Inherits(x, OwnRoot(x), 0) /\ OwnRoot(x) \in Memory
        BY <1>2, <4>1, <4>2 DEF Inherits, OwnRoot
      <4>4. PICK y \in meta : y = x
        BY <4>2
      <4>5. y \in Legacy /\ write'[p] = Root(y, OwnRoot(y), 0) /\ Inherits(y, OwnRoot(y), 0)
        BY <4>1, <4>2, <4>3, <4>4
      <4>6. OwnRoot(y) \in Memory /\ 0 \in Nat
        BY <4>3, <4>4
      <4> QED BY <3>4, <4>1, <4>5, <4>6
    <3>6. CASE ReachRoot(p)
      <4>1. /\ at[p] \in meta /\ pc'[p] = "update" /\ root[at[p]] # Null
            /\ write'[p] = Root(at[p], root[at[p]], depth[at[p]])
        BY <1>2, <1>4, <3>6 DEF ReachRoot, Goto, ProcessTypes
      <4>2. root[at[p]] \in Memory /\ depth[at[p]] \in Nat
        BY <1>2, <3>3, <4>1 DEF StoreTypes
      <4>3. Inherits(at[p], root[at[p]], depth[at[p]])
        BY <1>2, <4>1 DEF RootsInherit, Inherits
      <4>4. PICK y \in meta, r \in Memory, d \in Nat :
              y = at[p] /\ r = root[at[p]] /\ d = depth[at[p]]
        BY <4>1, <4>2
      <4> QED BY <3>3, <3>4, <4>1, <4>3, <4>4
    <3>7. CASE ReachOrigin(p)
      <4>1. /\ at[p] \in meta /\ pc'[p] = "update" /\ parent[at[p]] = Null
            /\ write'[p] = Root(at[p], OwnRoot(at[p]), 0)
        BY <1>2, <1>4, <3>7 DEF ReachOrigin, Goto, ProcessTypes, Rootless
      <4>2. Inherits(at[p], OwnRoot(at[p]), 0) /\ OwnRoot(at[p]) \in Memory
        BY <1>2, <3>3, <4>1, NewIsNotLegacy DEF Inherits, OwnRoot, StoreTypes
      <4>3. PICK y \in meta, r \in Memory : y = at[p] /\ r = OwnRoot(at[p])
        BY <4>1, <4>2
      <4> QED BY <3>3, <3>4, <4>1, <4>2, <4>3
    <3>8. CASE ReachCycle(p) \/ ReachParent(p)
      BY <1>1, <1>2, <1>4, <3>8 DEF ReachCycle, ReachParent, Goto, ProcessTypes, Writing
    <3> QED BY <3>1, <3>5, <3>6, <3>7, <3>8
  <2>6. CASE \/ p \in Starter /\ (Start(p) \/ Close(p) \/ Describe(p) \/ Repair(p) \/ ReadState(p)
                  \/ Begin(p) \/ Progress(p) \/ Fail(p) \/ Complete(p) \/ Select(p)
                  \/ NextInBatch(p))
             \/ Die(p) \/ (p = Writer /\ (InsertMemory \/ EndGovernance))
    <3>1. pc'[p] \in {"before", "down", "evidence", "read", "after", "begin", "select",
                      "complete", "walk", "progress", "govern"}
      BY <1>2, <1>4, <2>6 DEF Start, Close, Describe, Repair, ReadState, Begin, Progress, Fail,
         Complete, Die, Select, NextInBatch, InsertRow, InsertMemory, EndGovernance, Goto,
         ProcessTypes
    <3> QED BY <1>1, <1>4, <3>1 DEF Writing
  <2>7. ASSUME NEW list, NEW from, NEW to \in {"describe", "repair", "ready"},
               IsList(list), Statements(p, from, list, to)
        PROVE  pc'[p] \in {"describe", "repair", "ready", "down"}
    BY <1>2, <1>4, <2>7, StatementsRun DEF ProcessTypes
  <2>8. CASE p \in Starter /\ Migrate(p)
    <3>1. pc'[p] \notin {"describe", "repair", "ready", "down"}
      BY <1>1, <1>4 DEF Writing
    <3> QED BY <2>4, <2>5, <2>6, <2>7, <2>8, <3>1, StarterActs
  <2> QED BY <2>1, <2>2, <2>3, <2>6, <2>8 DEF Acts
<1> QED BY <1>3, <1>4

\* Whoever was persisting still is, has inserted the row or has died.
LEMMA PersistsOn ==
  ASSUME OpenInv, NEW p \in Process, Acts(p), NEW m
  PROVE  /\ \A q \in Others(p) : Persisting(q, m)' <=> Persisting(q, m)
         /\ Persisting(p, m) => Persisting(p, m)' \/ InsertsRow(p) \/ Die(p)
<1>1. ProcessTypes /\ PastTypes
  BY DEF OpenInv
<1>2. \A q \in Others(p) : Persisting(q, m)' <=> Persisting(q, m)
  BY <1>1, OthersStand DEF Persisting
<1>3. ASSUME Persisting(p, m) PROVE Persisting(p, m)' \/ InsertsRow(p) \/ Die(p)
  <2>1. /\ pc[p] \in {"delete", "insert"} \/ (p = Writer /\ pc[p] = "update")
        /\ write[p].memory = m
    BY <1>3 DEF Persisting
  <2>2. CASE p \in Starter /\ Migrate(p)
    <3>1. pc[p] \in {"delete", "insert"}
      BY <2>1, <2>2, NewIsNotLegacy
    <3>2. CASE Inherit(p) \/ NextInBatch(p)
      BY <3>2 DEF Inherit, NextInBatch, InsertRow, InsertsRow, Goto
    <3>3. CASE Start(p) \/ Close(p) \/ Describe(p) \/ Repair(p) \/ ReadState(p) \/ Begin(p)
               \/ Progress(p) \/ Fail(p) \/ Complete(p) \/ Select(p)
               \/ resolve_missing_evidence_root(p)
      BY <3>1, <3>3 DEF Start, Close, Describe, Repair, ReadState, Begin, Progress, Fail,
         Complete, Select, resolve_missing_evidence_root, ReachCycle, ReachBroken, ReachRoot,
         ReachOrigin, ReachParent, Goto
    <3>4. ASSUME NEW list, NEW from \in {"before", "evidence", "after"}, NEW to, to # "down",
                 IsList(list), Statements(p, from, list, to)
          PROVE  FALSE
      <4>1. pc[p] = from
        BY <3>4, StatementsRun
      <4> QED BY <3>1, <4>1
    <3> QED BY <2>2, <3>2, <3>3, <3>4, StarterActs
  <2>3. CASE Update(p) \/ Delete(p)
    BY <1>1, <2>1, <2>3 DEF Update, Delete, Goto, ProcessTypes, Persisting, locals
  <2>4. CASE p = Writer /\ EndGovernance
    BY <2>4 DEF EndGovernance, InsertRow, InsertsRow, Goto
  <2>5. CASE p = Writer /\ (InsertMemory \/ \E n \in Legacy : govern_new_memory(n))
    BY <2>1, <2>5 DEF InsertMemory, govern_new_memory, Goto
  <2>6. CASE \E n \in Legacy : LegacyInsert(n)
    BY <2>1, <2>6 DEF LegacyInsert, Persisting, locals
  <2> QED BY <2>2, <2>3, <2>4, <2>5, <2>6 DEF Acts
<1> QED BY <1>2, <1>3

\* The rows that come and the rows that go.
LEMMA PrimaryStep ==
  ASSUME OpenInv, NEW p \in Process, Acts(p)
  PROVE  /\ \A row \in primary : row \in primary' \/ (Delete(p) /\ row.memory = write[p].memory)
         /\ \A row \in primary' : row \notin primary => row.root = root'[row.memory]
<1>1. StoreTypes
  BY DEF OpenInv
<1>2. CASE UNCHANGED primary
  BY <1>2
<1>3. CASE UNCHANGED storeRows \/ Describe(p) \/ Update(p)
           \/ (\E n \in Legacy : govern_new_memory(n) \/ LegacyInsert(n))
  BY <1>2, <1>3 DEF storeRows, Describe, Update, govern_new_memory, LegacyInsert
<1>4. CASE Repair(p)
  BY <1>4 DEF Repair
<1>5. CASE Delete(p)
  BY <1>5 DEF Delete
<1>6. CASE InsertsRow(p)
  <2>1. WriteOf(p) /\ root[write[p].memory] = write[p].root
    BY <1>6 DEF OpenInv, Writes, WriteOf, InsertsRow, Writing
  <2> QED BY <1>6, <2>1 DEF InsertsRow
<1>7. CASE InsertMemory
  BY <1>1, <1>7 DEF InsertMemory, StoreTypes, Memory, OwnRoot
<1> QED BY <1>3, <1>4, <1>5, <1>6, <1>7, RowActs

\* The actions that put a row under question or clear it.
LEMMA TornStep ==
  ASSUME OpenInv, NEW p \in Process, Acts(p)
  PROVE  /\ torn \subseteq torn'
         /\ lost \subseteq lost' \/ Repair(p)
         /\ Die(p) => \A m \in Memory : Persisting(p, m) => m \in torn' /\ m \in lost'
<1>1. CASE UNCHANGED <<began, late, torn, lost>> /\ ~Die(p)
  BY <1>1
<1>2. CASE Die(p)
  BY <1>2 DEF Die
<1>3. CASE Start(p) \/ Close(p) \/ Repair(p) \/ \E m \in Legacy : LegacyInsert(m)
  BY <1>2, <1>3 DEF Start, Close, Repair, LegacyInsert
<1> QED BY <1>1, <1>2, <1>3, PastActs

LEMMA RowsStep ==
  ASSUME OpenInv, NEW p \in Process, Acts(p)
  PROVE  RowsMatch'
<1>1. /\ StoreTypes /\ ProcessTypes /\ RootedOrNot /\ RowsMatch /\ Writes
      /\ New \in Memory /\ meta \subseteq Memory /\ Writer \in Process
      /\ Null \notin Memory
  BY NewIsNotLegacy DEF OpenInv, StoreTypes, Memory, Process
<1>2. ASSUME NEW row \in primary', row.memory \notin torn',
             ~(row.memory = New /\ pc'[Writer] \in {"update", "delete"})
      PROVE  row.root = root'[row.memory]
  <2> DEFINE m == row.memory
  <2>1. CASE row \notin primary
    BY <1>2, <2>1, PrimaryStep
  <2>2. CASE row \in primary
    <3>1. m \in meta /\ row.root \in Memory /\ m \notin torn
      BY <1>1, <1>2, <2>2, TornStep DEF StoreTypes
    <3>2. CASE m = New /\ pc[Writer] \in {"update", "delete"}
      <4>1. p = Writer
        <5>1. p # Writer => pc'[Writer] = pc[Writer]
          BY <1>1, OthersStand DEF Others, OpenInv
        <5> QED BY <1>2, <3>2, <5>1
      <4>2. WriteOf(p) /\ write[p].memory = New
        BY <1>1, <3>2, <4>1 DEF Writes, WriteOf, Writing
      <4>3. Persisting(p, m)
        BY <3>2, <4>1, <4>2 DEF Persisting
      <4>4. ~Die(p)
        BY <1>1, <1>2, <3>1, <4>3, TornStep
      <4>5. ~InsertsRow(p)
        BY <3>2, <4>1 DEF InsertsRow
      <4>6. CASE Delete(p)
        BY <1>2, <3>2, <4>2, <4>6 DEF Delete
      <4>7. CASE Update(p)
        BY <1>1, <1>2, <3>2, <4>1, <4>7 DEF Update, Goto, ProcessTypes
      <4>8. CASE InsertMemory \/ EndGovernance \/ \E n \in Legacy : govern_new_memory(n)
        BY <3>2, <4>8 DEF InsertMemory, EndGovernance, InsertRow, govern_new_memory, Goto
      <4>9. CASE \E n \in Legacy : LegacyInsert(n)
        BY <1>2, <3>2, <4>9 DEF LegacyInsert
      <4> QED BY <4>1, <4>4, <4>6, <4>7, <4>8, <4>9, NewIsNotLegacy DEF Acts
    <3>3. CASE ~(m = New /\ pc[Writer] \in {"update", "delete"})
      <4>1. row.root = root[m] /\ root[m] # Null /\ m \in Memory
        BY <1>1, <2>2, <3>1, <3>3 DEF RowsMatch
      <4>2. CASE m # New \/ p # Writer \/ Update(p)
        BY <4>1, <4>2, RootsKept
      <4>3. CASE m = New /\ InsertMemory
        BY <1>1, <3>1, <4>3 DEF InsertMemory, StoreTypes
      <4>4. CASE m = New /\ p = Writer /\ \E n \in Legacy : govern_new_memory(n)
        <5>1. root' = root
          BY <1>1, <1>2, <4>4 DEF govern_new_memory, Goto, ProcessTypes
        <5> QED BY <4>1, <5>1
      <4>5. CASE UNCHANGED storeRows \/ Describe(p) \/ Repair(p) \/ Delete(p) \/ InsertsRow(p)
                 \/ \E n \in Legacy : LegacyInsert(n)
        <5>1. root' = root
          BY <4>5 DEF storeRows, Describe, Repair, Delete, InsertsRow, LegacyInsert
        <5> QED BY <4>1, <5>1
      <4> QED BY <4>2, <4>3, <4>4, <4>5, RowActs
    <3> QED BY <3>2, <3>3
  <2> QED BY <2>1, <2>2
<1>3. ASSUME NEW m \in meta' \ lost', root'[m] # Null,
             \A q \in Process : ~Persisting(q, m)'
      PROVE  [memory |-> m, root |-> root'[m]] \in primary'
  <2>1. m \in Memory /\ ~Persisting(p, m)'
    BY <1>3, RowsStay
  <2>2. CASE Persisting(p, m)
    <3>1. ~Die(p) /\ InsertsRow(p)
      BY <1>3, <2>1, <2>2, PersistsOn, TornStep
    <3>2. write[p].memory = m /\ root[m] = write[p].root /\ root' = root
      BY <1>1, <2>2, <3>1 DEF Persisting, InsertsRow, Writes, WriteOf, Writing
    <3> QED BY <3>1, <3>2 DEF InsertsRow
  <2>3. CASE ~Persisting(p, m)
    <3>1. \A q \in Process : ~Persisting(q, m)
      BY <1>3, <2>3, PersistsOn DEF Others
    <3>2. CASE Repair(p)
      BY <1>3, <3>2 DEF Repair
    <3>3. CASE InsertMemory /\ m = New
      BY <1>1, <3>3 DEF InsertMemory, StoreTypes, OwnRoot
    <3>4. CASE m \in meta /\ root'[m] = root[m] /\ ~Repair(p)
      <4>1. m \notin lost
        BY <1>3, <3>4, TornStep
      <4>2. [memory |-> m, root |-> root[m]] \in primary
        BY <1>1, <1>3, <3>1, <3>4, <4>1 DEF RowsMatch
      <4>3. ~(Delete(p) /\ m = write[p].memory)
        <5>1. SUFFICES ASSUME Delete(p), m = write[p].memory PROVE FALSE
          OBVIOUS
        <5>2. Persisting(p, m)'
          BY <1>1, <5>1 DEF Delete, Goto, ProcessTypes, Persisting, locals
        <5> QED BY <1>3, <5>2
      <4> QED BY <3>4, <4>2, <4>3, PrimaryStep
    <3>5. CASE Update(p) /\ m = write[p].memory
      <4>1. Persisting(p, m)'
        BY <1>1, <3>5 DEF Update, Goto, ProcessTypes, Persisting, locals
      <4> QED BY <1>3, <4>1
    <3>6. CASE Update(p) /\ m # write[p].memory
      <4>1. m \in meta /\ root'[m] = root[m]
        BY <1>1, <1>3, <2>1, <3>6 DEF Update, StoreTypes
      <4> QED BY <3>2, <3>4, <4>1
    <3>7. CASE InsertMemory /\ m # New
      <4>1. m \in meta /\ root'[m] = root[m]
        BY <1>1, <1>3, <2>1, <3>7 DEF InsertMemory, StoreTypes
      <4> QED BY <3>2, <3>4, <4>1
    <3>8. CASE Describe(p)
      <4>1. root' = root /\ m \in meta
        BY <1>1, <1>3, <2>1, <3>8 DEF Describe, RootedOrNot
      <4> QED BY <3>2, <3>4, <4>1
    <3>9. CASE UNCHANGED <<meta, root>>
      BY <1>3, <3>2, <3>4, <3>9
    <3>10. CASE UNCHANGED storeRows \/ Delete(p) \/ InsertsRow(p) \/ \E n \in Legacy : LegacyInsert(n)
      BY <3>9, <3>10 DEF storeRows, Delete, InsertsRow, LegacyInsert
    <3>11. CASE p = Writer /\ \E n \in Legacy : govern_new_memory(n)
      <4>1. CASE root' = root
        BY <3>9, <3>11, <4>1 DEF govern_new_memory
      <4>2. CASE root' # root /\ m # New
        <5>1. meta' = meta /\ root'[m] = root[m]
          BY <1>1, <2>1, <3>11, <4>2 DEF govern_new_memory, StoreTypes
        <5> QED BY <1>3, <3>2, <3>4, <5>1
      <4>3. CASE root' # root /\ m = New
        <5>1. pc'[p] = "update" /\ write'[p].memory = New
          BY <1>1, <3>11, <4>3 DEF govern_new_memory, Goto, ProcessTypes, Root
        <5>2. Persisting(p, m)'
          BY <3>11, <4>3, <5>1 DEF Persisting
        <5> QED BY <1>3, <5>2
      <4> QED BY <4>1, <4>2, <4>3
    <3> QED BY <3>2, <3>3, <3>5, <3>6, <3>7, <3>8, <3>10, <3>11, RowActs
  <2> QED BY <2>2, <2>3
<1> QED BY <1>2, <1>3 DEF RowsMatch

LEMMA MadeStep ==
  ASSUME OpenInv, NEW p \in Process, Acts(p)
  PROVE  Made'
<1>1. ProcessTypes /\ Made
  BY DEF OpenInv
<1>2. schema \subseteq schema' /\ backend' = backend
  <2>1. CASE UNCHANGED <<backend, schema>>
    BY <2>1
  <2>2. CASE p \in Starter /\ Migrate(p)
    <3>1. CASE Start(p) \/ Close(p) \/ Describe(p) \/ Repair(p) \/ ReadState(p) \/ Begin(p)
               \/ Progress(p) \/ Fail(p) \/ Complete(p) \/ Select(p)
               \/ resolve_missing_evidence_root(p) \/ Inherit(p) \/ NextInBatch(p)
      BY <3>1 DEF Start, Close, Describe, Repair, ReadState, Begin, Progress, Fail, Complete,
         Select, resolve_missing_evidence_root, store_evidence_migration_state, Inherit,
         NextInBatch, InsertRow
    <3>2. ASSUME NEW list, NEW from, NEW to, to # "down",
                 IsList(list), Statements(p, from, list, to)
          PROVE  schema \subseteq schema' /\ backend' = backend
      BY <3>2, StatementsRun
    <3> QED BY <2>2, <3>1, <3>2, StarterActs
  <2>3. CASE Update(p) \/ Delete(p) \/ Die(p)
             \/ (p = Writer /\ (InsertMemory \/ EndGovernance \/ \E m \in Legacy : govern_new_memory(m)))
             \/ \E m \in Legacy : LegacyInsert(m)
    BY <2>3 DEF Update, Delete, Die, InsertMemory, EndGovernance, InsertRow,
       govern_new_memory, LegacyInsert
  <2> QED BY <2>2, <2>3 DEF Acts
<1>3. ASSUME NEW L, MadeBy(L) PROVE MadeBy(L)'
  BY <1>2, <1>3 DEF MadeBy
<1> DEFINE From(q) == /\ pc'[q] \notin {"down", "before"} =>
                           pc[q] \notin {"down", "before"} \/ MadeBy(BeforeBackfill)'
                      /\ pc'[q] \notin {"down", "before", "describe", "evidence"} =>
                           \/ pc[q] \notin {"down", "before", "describe", "evidence"}
                           \/ MadeBy(EvidenceGroup)'
                      /\ pc'[q] = "ready" => pc[q] = "ready" \/ MadeBy(AfterBackfill)'
<1>4. ASSUME NEW q \in Starter PROVE From(q)
  <2>1. CASE pc'[q] = pc[q] \/ pc'[q] \in {"down", "before"}
    BY <2>1
  <2>2. CASE q # p
    BY <1>1, <2>1, <2>2, OthersStand DEF Others, Process, OpenInv
  <2>3. CASE q = p /\ Migrate(p)
    <3>1. CASE Start(p) \/ Close(p) \/ Describe(p) \/ Repair(p) \/ ReadState(p) \/ Begin(p)
               \/ Progress(p) \/ Fail(p) \/ Complete(p) \/ Select(p) \/ Inherit(p) \/ NextInBatch(p)
      BY <1>1, <2>3, <3>1 DEF Start, Close, Describe, Repair, ReadState, Begin, Progress, Fail,
         Complete, Select, Inherit, NextInBatch, InsertRow, Goto, ProcessTypes, Process
    <3>2. CASE resolve_missing_evidence_root(p)
      BY <1>1, <2>3, <3>2 DEF resolve_missing_evidence_root, ReachCycle, ReachBroken, ReachRoot,
         ReachOrigin, ReachParent, Goto, ProcessTypes, Process
    <3>3. CASE Statements(p, "before", BeforeBackfill, "describe")
      <4>1. pc'[p] = "down" \/ (pc'[p] = "describe" /\ MadeBy(BeforeBackfill)')
        BY <1>1, <3>3, ListsAreStatements, StatementsRun DEF ProcessTypes
      <4> QED BY <2>3, <4>1
    <3>4. CASE Statements(p, "evidence", EvidenceGroup, "repair")
      <4>1. pc[p] = "evidence" /\ (pc'[p] = "down" \/ (pc'[p] = "repair" /\ MadeBy(EvidenceGroup)'))
        BY <1>1, <3>4, ListsAreStatements, StatementsRun DEF ProcessTypes
      <4> QED BY <2>3, <4>1
    <3>5. CASE Statements(p, "after", AfterBackfill, "ready")
      <4>1. pc[p] = "after" /\ (pc'[p] = "down" \/ (pc'[p] = "ready" /\ MadeBy(AfterBackfill)'))
        BY <1>1, <3>5, ListsAreStatements, StatementsRun DEF ProcessTypes
      <4> QED BY <2>3, <4>1
    <3> QED BY <2>3, <3>1, <3>2, <3>3, <3>4, <3>5 DEF Migrate
  <2>4. CASE q = p /\ (Update(p) \/ Delete(p) \/ Die(p))
    BY <1>1, <2>4 DEF Update, Delete, Die, Goto, ProcessTypes
  <2>5. CASE \E m \in Legacy : LegacyInsert(m)
    BY <2>1, <2>5 DEF LegacyInsert
  <2> QED BY <2>2, <2>3, <2>4, <2>5, NewIsNotLegacy DEF Acts
<1>5. ASSUME NEW q \in Starter
      PROVE  /\ pc'[q] \notin {"down", "before"} => MadeBy(BeforeBackfill)'
             /\ pc'[q] \notin {"down", "before", "describe", "evidence"} => MadeBy(EvidenceGroup)'
             /\ pc'[q] = "ready" => MadeBy(AfterBackfill)'
  BY <1>1, <1>3, <1>4 DEF Made
<1> QED BY <1>5 DEF Made

LEMMA OpenInvStep ==
  ASSUME OpenInv, [OpenNext]_openVars
  PROVE  OpenInv'
<1>1. CASE OpenNext
  <2>1. PICK p \in Process : Acts(p)
    BY <1>1, SomeoneActs
  <2> QED BY <2>1, StoreStep, LocalsStep, PastStep, RootedOrNotStep, ParentsStep, DescribedStep,
       PassedStep, BatchesStep, ChainsStep, WritesStep, InheritStep, RowsStep, MadeStep
      DEF OpenInv
<1>2. CASE UNCHANGED openVars
  <2> USE DEF openVars, storeRows, locals, storePast
  <2>1. StoreTypes' /\ ProcessTypes' /\ PastTypes' /\ RootedOrNot' /\ Parents'
    BY <1>2 DEF OpenInv, StoreTypes, ProcessTypes, PastTypes, RootedOrNot, Parents
  <2>2. DescribedBefore' /\ Passed' /\ Batches'
    BY <1>2 DEF OpenInv, DescribedBefore, AtWork, Passed, RootedTo, Batches
  <2>3. ASSUME NEW q PROVE Subject(q)' = Subject(q)
    BY <1>2 DEF Subject
  <2>4. Chains'
    BY <1>2, <2>3 DEF OpenInv, Chains, ChainOf
  <2>5. Writes'
    BY <1>2 DEF OpenInv, Writes, WriteOf, Inherits
  <2>6. RootsInherit'
    BY <1>2 DEF OpenInv, RootsInherit
  <2>7. ASSUME NEW q, NEW m PROVE Persisting(q, m)' <=> Persisting(q, m)
    BY <1>2 DEF Persisting
  <2>8. RowsMatch'
    BY <1>2, <2>7 DEF OpenInv, RowsMatch
  <2>9. ASSUME NEW L PROVE MadeBy(L)' <=> MadeBy(L)
    BY <1>2 DEF MadeBy
  <2>10. Made'
    BY <1>2, <2>9 DEF OpenInv, Made
  <2> QED BY <2>1, <2>2, <2>4, <2>5, <2>6, <2>8, <2>10 DEF OpenInv
<1> QED BY <1>1, <1>2

LEMMA OpenInvHolds == OpenSpec => []OpenInv
<1>1. OpenInit => OpenInv
  <2> SUFFICES ASSUME OpenInit PROVE OpenInv
    OBVIOUS
  <2>1. PICK s \in Stores :
          /\ backend \in {"sqlite", "postgres"}
          /\ schema = s.schema
          /\ stored = s.stored /\ meta = s.described
          /\ parent = [m \in Memory |-> IF m \in Legacy THEN s.parent[m] ELSE Null]
          /\ root = [m \in Memory |-> IF m \in s.rooted THEN OwnRoot(m) ELSE Null]
          /\ late = {} /\ torn = s.rooted /\ lost = s.rooted
    BY DEF OpenInit
  <2>2. /\ depth = [m \in Memory |-> 0] /\ primary = {}
        /\ migration = [status |-> "none", cursor |-> 0]
        /\ pc = [p \in Process |-> "down"]
        /\ cursor = [p \in Process |-> 0] /\ batch = [p \in Process |-> {}]
        /\ at = [p \in Process |-> 0] /\ chain = [p \in Process |-> <<>>]
        /\ write = [p \in Process |-> Null]
        /\ began = [p \in Starter |-> {}]
    BY DEF OpenInit
  <2>3. late = {} /\ torn = s.rooted /\ lost = s.rooted
    BY <2>1
  <2>4. /\ s.schema \subseteq Schema
        /\ s.described \subseteq s.stored /\ s.stored \subseteq Legacy
        /\ s.parent \in [Legacy -> s.stored \union {Gone, Null}]
        /\ s.rooted \subseteq {m \in s.described : s.parent[m] \notin s.stored}
        /\ \A m \in Legacy \ s.described : s.parent[m] = Null
    BY StartupAssumption
  <2>5. /\ Legacy \subseteq Memory /\ Writer \in Process /\ Starter \subseteq Process
        /\ \A m \in Legacy : parent[m] = s.parent[m]
        /\ parent[New] = Null
    BY <2>1, NewIsNotLegacy DEF Memory, Process
  <2>6. StoreTypes
    <3>1. parent \in [Memory -> Legacy \union {Gone, Null}]
      <4>1. \A m \in Legacy : s.parent[m] \in Legacy \union {Gone, Null}
        BY <2>4
      <4> QED BY <2>1, <4>1
    <3>2. root \in [Memory -> Memory \union {Null}]
      BY <2>1 DEF OwnRoot
    <3> QED BY <2>1, <2>2, <2>4, <2>5, <3>1, <3>2 DEF StoreTypes
  <2>7. ProcessTypes
    <3>1. <<>> \in Seq(Legacy)
      BY EmptySeq
    <3> QED BY <2>2, <2>5, <3>1 DEF ProcessTypes, PC
  <2>8. PastTypes
    BY <2>2, <2>3, <2>4, <2>5 DEF PastTypes
  <2>9. RootedOrNot
    <3>1. New \notin stored /\ New \notin meta
      BY <2>1, <2>4, NewIsNotLegacy
    <3>2. depth[New] = 0
      BY <2>2 DEF Memory
    <3>3. \A m \in Memory \ meta : root[m] = Null
      BY <2>1, <2>4
    <3>4. pc[Writer] = "down"
      BY <2>2, <2>5
    <3> QED BY <2>5, <3>1, <3>2, <3>3, <3>4 DEF RootedOrNot
  <2>10. \A p \in Process : pc[p] = "down"
    BY <2>2
  <2>11. Parents
    <3>1. \A m \in Memory : parent[m] \in stored \union {Gone, Null}
      BY <2>1, <2>4, <2>5 DEF Memory
    <3>2. ASSUME NEW m \in Memory, root[m] # Null PROVE parent[m] \notin stored
      BY <2>1, <2>4, <2>5, <3>2
    <3> QED BY <2>5, <2>10, <3>1, <3>2
        DEF Parents, Describing, Backfilling, Walking, Writing
  <2>12. DescribedBefore /\ Passed /\ Batches /\ Chains /\ Writes /\ Made
    BY <2>2, <2>5, <2>10 DEF DescribedBefore, AtWork, Passed, Batches, Chains, Writes, Made,
       Describing, Backfilling, Walking, Writing
  <2>13. RootsInherit
    <3>1. ASSUME NEW m \in meta, root[m] # Null
          PROVE  parent[m] \notin meta /\ root[m] = OwnRoot(m) /\ depth[m] = 0
      <4>1. m \in Memory /\ m \in s.rooted /\ m \in Legacy
        BY <2>1, <2>4, <2>5, <3>1
      <4> QED BY <2>1, <2>2, <2>4, <2>5, <4>1
    <3> QED BY <3>1 DEF RootsInherit
  <2>14. RowsMatch
    <3>1. ASSUME NEW m \in meta \ lost PROVE root[m] = Null
      BY <2>1, <2>3, <2>4, <2>5, <3>1
    <3> QED BY <2>2, <3>1 DEF RowsMatch
  <2> QED BY <2>6, <2>7, <2>8, <2>9, <2>11, <2>12, <2>13, <2>14 DEF OpenInv
<1>2. OpenInv /\ [OpenNext]_openVars => OpenInv'
  BY OpenInvStep
<1> QED BY <1>1, <1>2, PTL DEF OpenSpec

\* The rows and the positions of every process keep their types (db.rs
\* migrate, backfill_evidence_roots).
THEOREM OpenTypeCorrect == OpenSpec => []OpenTypeOK
<1>1. OpenInv => OpenTypeOK
  <2> SUFFICES ASSUME OpenInv PROVE OpenTypeOK
    OBVIOUS
  <2>1. StoreTypes /\ ProcessTypes /\ Writes /\ Legacy \subseteq Memory
    BY DEF OpenInv, Memory
  <2>2. \A p \in Process : pc[p] \in {"update", "delete", "insert"} =>
          write[p] \in [memory : meta, root : Memory, depth : Nat]
    BY <2>1 DEF Writes, WriteOf, Writing
  <2>3. /\ migration \in [status : {"none", "running", "complete", "failed"},
                           cursor : Memory \union {0}]
        /\ parent \in [Memory -> Memory \union {Gone, Null}]
    BY <2>1 DEF StoreTypes
  <2>4. cursor \in [Process -> Memory \union {0}]
    BY <2>1 DEF ProcessTypes
  <2> QED BY <2>1, <2>2, <2>3, <2>4 DEF StoreTypes, ProcessTypes, OpenTypeOK
<1> QED BY <1>1, OpenInvHolds, PTL

\* A start that returns has run every statement, in its own list or in that of
\* an earlier start, and only a column may be missing (db.rs migrate).
THEOREM StartMigrates == OpenSpec => []ReadyIsMigrated
<1>1. OpenInv => ReadyIsMigrated
  <2> SUFFICES ASSUME OpenInv, NEW p \in Starter, pc[p] = "ready",
                      NEW missing \in Schema \ schema
               PROVE  /\ backend = "sqlite" /\ missing.kind = "column"
                      /\ Index(missing.table, missing.column) \notin Schema
    BY DEF ReadyIsMigrated
  <2>1. \A L \in {BeforeBackfill, EvidenceGroup, AfterBackfill} : MadeBy(L)
    BY DEF OpenInv, Made
  <2>2. \A x \in Schema : \E L \in {BeforeBackfill, EvidenceGroup, AfterBackfill} :
          \E i \in DOMAIN L : x = L[i]
    BY SchemaIsLists DEF Range
  <2>3. \A x \in Schema :
          /\ x \in schema \/ (backend = "sqlite" /\ x.kind = "column")
          /\ x.kind = "index" => Column(x.table, x.column) \in schema
    BY <2>1, <2>2 DEF MadeBy
  <2>4. backend = "sqlite" /\ missing.kind = "column"
    BY <2>3
  <2>5. PICK table, name : missing = Column(table, name)
    <3>1. \A name : Table(name).kind = "table"
      BY DEF Table
    <3>2. \A table, name : Index(table, name).kind = "index"
      BY DEF Index
    <3>3. IsStatement(missing)
      BY SchemaIsLists
    <3> QED BY <2>4, <3>1, <3>2, <3>3 DEF IsStatement
  <2>6. ASSUME Index(missing.table, missing.column) \in Schema PROVE FALSE
    <3>1. missing.table = table /\ missing.column = name
      BY <2>5 DEF Column
    <3>2. /\ Index(table, name).kind = "index" /\ Index(table, name).table = table
          /\ Index(table, name).column = name
      BY DEF Index
    <3>3. Column(table, name) \in schema
      BY <2>3, <2>6, <3>1, <3>2
    <3> QED BY <2>5, <3>3
  <2> QED BY <2>4, <2>6
<1> QED BY <1>1, OpenInvHolds, PTL

\* A start that returns has rooted what it began with: what has no root is
\* above the cursor of every backfill that is at work, which the batch keeps
\* (db.rs backfill_evidence_roots).
THEOREM StartRoots == OpenSpec => []ReadyIsRooted
<1>1. OpenInv => ReadyIsRooted
  BY DEF OpenInv, Passed, ReadyIsRooted
<1> QED BY <1>1, OpenInvHolds, PTL

\* A memory has the root of its parent and one row that says so: a root that
\* is being written is what its memory inherits, whoever else writes it
\* (db.rs resolve_missing_evidence_root, persist_primary_evidence_root).
THEOREM RootsStayAgreed == OpenSpec => []RootsAgree
<1>1. OpenInv => RootsAgree
  <2> SUFFICES ASSUME OpenInv PROVE PrimaryRowMatches
    BY DEF OpenInv, RootsAgree
  <2>1. StoreTypes /\ ProcessTypes /\ PastTypes /\ RowsMatch /\ Writes /\ Writer \in Process
    BY DEF OpenInv, Process
  <2>2. SUFFICES ASSUME NEW m \in meta, root[m] # Null, \A p \in Process : ~Persisting(p, m)
                 PROVE  LET of == {row.root : row \in {r \in primary : r.memory = m}} IN
                        /\ m \notin torn => of = {root[m]}
                        /\ m \notin lost => root[m] \in of
    BY DEF PrimaryRowMatches
  <2> DEFINE of == {row.root : row \in {r \in primary : r.memory = m}}
  <2>3. m \notin lost => root[m] \in of
    <3>1. m \notin lost => [memory |-> m, root |-> root[m]] \in primary
      BY <2>1, <2>2 DEF RowsMatch
    <3> QED BY <3>1
  <2>4. m \notin torn => \A row \in primary : row.memory = m => row.root = root[m]
    <3>1. ~(m = New /\ pc[Writer] \in {"update", "delete"})
      <4>1. pc[Writer] \in {"update", "delete"} => write[Writer].memory = New
        BY <2>1 DEF Writes, WriteOf, Writing
      <4> QED BY <2>1, <2>2, <4>1 DEF Persisting
    <3> QED BY <2>1, <3>1 DEF RowsMatch
  <2>5. m \notin torn => m \notin lost
    BY <2>1 DEF PastTypes
  <2> QED BY <2>3, <2>4, <2>5
<1> QED BY <1>1, OpenInvHolds, PTL

=============================================================================
