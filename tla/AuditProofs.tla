---------------------------- MODULE AuditProofs ----------------------------
(***************************************************************************)
(* The audit log stays linked and its archive stays findable, for any      *)
(* number of writers, overlapping runs, customers, rows and faults.        *)
(*                                                                         *)
(* The chain: what a flush has read as its tail is still the last row that *)
(* it sees when it inserts, because whoever has read or inserted holds the *)
(* lock, and what is rolled back is at the log's end.                      *)
(*                                                                         *)
(* The archive: the rows of one scope and tier are archived from the       *)
(* oldest on, and what a run holds of them has no gaps.  So the first and  *)
(* the last row of a group determine the rows between, and two runs that   *)
(* write one key write one object.                                         *)
(***************************************************************************)
EXTENDS AuditTrail, FiniteSetTheorems, SequenceTheorems, TLAPS

\* The history's own order; a row's scope, tier and date never change.
Old == DOMAIN History
Before(i, j) == \/ History[i].at < History[j].at
                \/ History[i].at = History[j].at /\ i < j
Alike(i, j)  == History[i].of = History[j].of /\ History[i].tier = History[j].tier
First(S) == CHOOSE i \in S : \A j \in S : ~Before(j, i)
Final(S) == CHOOSE i \in S : \A j \in S : ~Before(i, j)
Stretch(k) == {i \in Old : Alike(i, k[1]) /\ ~Before(i, k[1]) /\ ~Before(k[2], i)}

\* What a run puts next, in these terms.
Part(batch)  == {i \in batch : History[i].of = History[First(batch)].of}
Label(batch) == <<First(Part(batch)), Final(Part(batch))>>

ChainTypes ==
    /\ DOMAIN log \subseteq Nat \ {Genesis} /\ IsFiniteSet(DOMAIN log)
    /\ log \in [DOMAIN log -> [of : Scopes, prev : Nat, tier : {"free", "pro", NoTier},
                              at : Int, key : {NoKey} \union DOMAIN store, seenBy : Views]]
    /\ view \in [Sessions -> Views \union {NoView}]
    /\ step \in [Sessions -> {"out", "locked", "hashed"}] /\ tail \in [Sessions -> Nat]
    /\ pending \in [Sessions -> SUBSET DOMAIN log]

LockOK ==
    \A s \in Sessions :
        /\ step[s] # "out" \/ pending[s] # {} => lock = s
        /\ step[s] # "out" => view[s] \in Views

\* What the writer of row i could see of the rows before it.
InView(i) == {j \in DOMAIN log : j < i /\ Sees(log[i].seenBy, log[j].of)}

LogOK ==
    /\ \A s \in Sessions : \A i \in pending[s], j \in Committed : j < i
    /\ \A s \in Sessions : step[s] = "hashed" => tail[s] = Highest(Readable(s))
    /\ \A i \in DOMAIN log : log[i].prev = Highest(InView(i))

HistoryOK ==
    /\ Old \subseteq Committed
    /\ \A i \in Old : /\ log[i].of = History[i].of
                      /\ log[i].tier = History[i].tier
                      /\ log[i].at = History[i].at
    /\ \A i \in DOMAIN log \ Old : log[i].tier = NoTier

ChainInv == ChainTypes /\ LockOK /\ LogOK /\ HistoryOK

\* Rows of one tier: of each scope, a batch skips none and leaves out none
\* that is older and not yet stamped.
NoGaps(batch) ==
    /\ batch # {} /\ batch \subseteq Old
    /\ \A i, j \in batch : History[i].tier = History[j].tier
    /\ \A i, k \in batch, j \in Old :
         Alike(i, j) /\ Alike(j, k) /\ Before(i, j) /\ Before(j, k) => j \in batch
    /\ \A i \in batch, j \in Old : Alike(i, j) /\ Before(j, i) => j \in batch \union stamped

Archiving == {"group", "stored", "marked", "emitted"}

RunOK(a) ==
    LET batch == run[a].batch
        pc    == run[a].pc
    IN  /\ pc \in Archiving => NoGaps(batch)
        /\ pc \in {"stored", "marked", "emitted"} => Label(batch) \in DOMAIN store
        /\ IF pc \in {"marked", "emitted"}
           THEN marked[a] \subseteq Part(batch) /\ Part(batch) \subseteq marked[a] \union stamped
           ELSE marked[a] = {}
        /\ pc = "emitted" => \E e \in pending[a] : log[e].key = Label(batch)

RunType == [pc : {"idle", "scan"} \union Archiving, tier : DOMAIN Tiers,
            cutoff : 0..Horizon, batch : SUBSET Old, full : BOOLEAN]

RunTypes ==
    /\ run \in [Runs -> RunType]
    /\ marked \in [Runs -> SUBSET Old]

\* An object holds the stretch that its key names, whoever has written it.
StoreOK   == \A k \in DOMAIN store : store[k] = Stretch(k)
StampedOK ==
    /\ stamped \subseteq Old
    /\ \A i \in stamped, j \in Old : Alike(i, j) /\ Before(j, i) => j \in stamped

ColdInv ==
    /\ RunTypes /\ StoreOK /\ StampedOK
    /\ \A a \in Runs : RunOK(a)
    /\ ColdIsFindable

Clocks == s3 \in {"up", "down"} /\ now \in 0..Horizon /\ faults \in 0..MaxFaults

AInv == ChainInv /\ ColdInv /\ Clocks

-----------------------------------------------------------------------------
(* Facts about finite orders.                                              *)

(* A finite set has a first element in every irreflexive transitive order. *)
LEMMA HasFirst ==
    ASSUME NEW S, IsFiniteSet(S), S # {}, NEW R,
           \A i \in S : <<i, i>> \notin R,
           \A i, j, k \in S : <<i, j>> \in R /\ <<j, k>> \in R => <<i, k>> \in R
    PROVE  \E i \in S : \A j \in S : <<j, i>> \notin R
<1> DEFINE Below(i) == {j \in S : <<j, i>> \in R}
           Belows   == {Below(i) : i \in S}
<1>1. Belows \subseteq FiniteSubsetsOf(S) /\ Belows # {}
  <2>1. \A T \in SUBSET S : T \in FiniteSubsetsOf(S)
    BY FS_Subset DEF FiniteSubsetsOf
  <2>2. \A i \in S : Below(i) \in SUBSET S
    OBVIOUS
  <2> HIDE DEF Below
  <2> QED BY <2>1, <2>2
<1>2. PICK B \in Belows : \A C \in Belows : <<C, B>> \notin StrictSubsetOrdering(S)
  <2> HIDE DEF Belows
  <2> QED BY <1>1, FS_StrictSubsetOrderingWellFounded, WFMin
<1>3. PICK i \in S : B = Below(i)
  BY <1>2
<1>4. ASSUME NEW j \in S, <<j, i>> \in R PROVE FALSE
  <2>1. Below(j) \subseteq Below(i)
    BY <1>4
  <2>2. j \in Below(i) /\ j \notin Below(j)
    BY <1>4
  <2>3. <<Below(j), Below(i)>> \in StrictSubsetOrdering(S)
    BY <2>1, <2>2 DEF StrictSubsetOrdering
  <2> QED BY <1>2, <1>3, <2>3
<1> QED BY <1>4

(* Highest returns the greatest of a finite set of ids, or Genesis.        *)
LEMMA HighestIs ==
    ASSUME NEW ids, IsFiniteSet(ids), ids \subseteq Nat
    PROVE  /\ Highest(ids) \in ids \union {Genesis}
           /\ \A j \in ids : j <= Highest(ids)
           /\ Highest(ids) \in Nat
<1>1. CASE ids = {}
  BY <1>1 DEF Highest, Genesis
<1>2. CASE ids # {}
  <2> DEFINE R == {p \in Nat \X Nat : p[2] < p[1]}
  <2>1. /\ \A i \in ids : <<i, i>> \notin R
        /\ \A i, j, k \in ids : <<i, j>> \in R /\ <<j, k>> \in R => <<i, k>> \in R
    OBVIOUS
  <2>2. PICK i \in ids : \A j \in ids : <<j, i>> \notin R
    <3> HIDE DEF R
    <3> QED BY <2>1, <1>2, HasFirst
  <2>3. ASSUME NEW j \in ids PROVE j <= i
    <3>1. i \in Nat /\ j \in Nat
      OBVIOUS
    <3>2. ~(i < j)
      BY <3>1, <2>2
    <3> QED BY <3>1, <3>2
  <2>4. \E k \in ids \union {Genesis} : \A j \in ids : j <= k
    BY <2>3
  <2>5. Highest(ids) \in ids \union {Genesis} /\ \A j \in ids : j <= Highest(ids)
    BY <2>4 DEF Highest
  <2>6. Genesis \in Nat
    BY DEF Genesis
  <2> QED BY <2>5, <2>6
<1> QED BY <1>1, <1>2

(* The history's dates are integers, so that Before is a linear order.     *)
LEMMA BeforeIsOrder ==
    /\ Old \subseteq Nat \ {0} /\ IsFiniteSet(Old)
    /\ \A i \in Old : History[i] \in [of : Scopes, tier : {"free", "pro"}, at : Int]
    /\ \A i \in Old : ~Before(i, i)
    /\ \A i, j, k \in Old : Before(i, j) /\ Before(j, k) => Before(i, k)
    /\ \A i, j \in Old : i = j \/ Before(i, j) \/ Before(j, i)
<1>1. Old = 1..Len(History) /\ Len(History) \in Nat
  BY HistoryAssumption, LenProperties DEF Old
<1>2. \A i \in Old : History[i] \in [of : Scopes, tier : {"free", "pro"}, at : Int]
  BY <1>1, HistoryAssumption, ElementOfSeq
<1>3. IsFiniteSet(Old)
  BY <1>1, FS_Interval
<1> QED BY <1>1, <1>2, <1>3 DEF Before

(* First and Final return the ends of a part of the history.               *)
LEMMA FirstIs ==
    ASSUME NEW S, S \subseteq Old, S # {}
    PROVE  First(S) \in S /\ \A j \in S : ~Before(j, First(S))
<1> DEFINE R == {p \in Old \X Old : Before(p[1], p[2])}
<1>1. IsFiniteSet(S)
  BY BeforeIsOrder, FS_Subset
<1>2. /\ \A i \in S : <<i, i>> \notin R
      /\ \A i, j, k \in S : <<i, j>> \in R /\ <<j, k>> \in R => <<i, k>> \in R
  BY BeforeIsOrder
<1>3. PICK i \in S : \A j \in S : <<j, i>> \notin R
  <2> HIDE DEF R
  <2> QED BY <1>1, <1>2, HasFirst
<1>4. \E k \in S : \A j \in S : ~Before(j, k)
  BY <1>3
<1> QED BY <1>4 DEF First

LEMMA FinalIs ==
    ASSUME NEW S, S \subseteq Old, S # {}
    PROVE  Final(S) \in S /\ \A j \in S : ~Before(Final(S), j)
<1> DEFINE R == {p \in Old \X Old : Before(p[2], p[1])}
<1>1. IsFiniteSet(S)
  BY BeforeIsOrder, FS_Subset
<1>2. /\ \A i \in S : <<i, i>> \notin R
      /\ \A i, j, k \in S : <<i, j>> \in R /\ <<j, k>> \in R => <<i, k>> \in R
  BY BeforeIsOrder
<1>3. PICK i \in S : \A j \in S : <<j, i>> \notin R
  <2> HIDE DEF R
  <2> QED BY <1>1, <1>2, HasFirst
<1>4. \E k \in S : \A j \in S : ~Before(k, j)
  BY <1>3
<1> QED BY <1>4 DEF Final

(* What the archiver calls oldest and newest are First and Final.          *)
LEMMA AsInHistory ==
    ASSUME HistoryOK, NEW S, S \subseteq Old, S # {}
    PROVE  Oldest(S) = First(S) /\ Newest(S) = Final(S)
<1>1. \A i, j \in S : Older(i, j) <=> Before(i, j)
  BY DEF HistoryOK, Older, Before
<1>2. First(S) \in S /\ \A j \in S : ~Before(j, First(S))
  BY FirstIs
<1>3. Final(S) \in S /\ \A j \in S : ~Before(Final(S), j)
  BY FinalIs
<1>4. Oldest(S) \in S /\ \A j \in S : ~Older(j, Oldest(S))
  <2>1. \E i \in S : \A j \in S : ~Older(j, i)
    BY <1>1, <1>2
  <2> QED BY <2>1 DEF Oldest
<1>5. Newest(S) \in S /\ \A j \in S : ~Older(Newest(S), j)
  <2>1. \E i \in S : \A j \in S : ~Older(i, j)
    BY <1>1, <1>3
  <2> QED BY <2>1 DEF Newest
<1>6. Oldest(S) = First(S)
  BY <1>1, <1>2, <1>4, BeforeIsOrder
<1>7. Newest(S) = Final(S)
  BY <1>1, <1>3, <1>5, BeforeIsOrder
<1> QED BY <1>6, <1>7

(* A run's next part is not empty, and its rows have one scope and tier.   *)
LEMMA PartIs ==
    ASSUME NEW batch, NoGaps(batch)
    PROVE  /\ Part(batch) # {} /\ Part(batch) \subseteq batch /\ Part(batch) \subseteq Old
           /\ \A i, j \in Part(batch) : Alike(i, j)
           /\ \A i \in Part(batch), j \in batch : Alike(i, j) => j \in Part(batch)
<1>1. batch # {} /\ batch \subseteq Old /\ First(batch) \in batch
  BY FirstIs DEF NoGaps
<1>2. First(batch) \in Part(batch)
  BY <1>1 DEF Part
<1> QED BY <1>1, <1>2 DEF Part, NoGaps, Alike

(* The key of a part determines its rows.                                  *)
LEMMA PartIsStretch ==
    ASSUME NEW batch, NoGaps(batch)
    PROVE  Part(batch) = Stretch(Label(batch))
<1> DEFINE P == Part(batch)
           f == First(Part(batch))
           l == Final(Part(batch))
<1>1. /\ P # {} /\ P \subseteq batch /\ P \subseteq Old
      /\ \A i, j \in P : Alike(i, j)
      /\ \A i \in P, j \in batch : Alike(i, j) => j \in P
  BY PartIs
<1>2. f \in P /\ \A j \in P : ~Before(j, f)
  BY <1>1, FirstIs
<1>3. l \in P /\ \A j \in P : ~Before(l, j)
  BY <1>1, FinalIs
<1>4. Stretch(Label(batch)) = {i \in Old : Alike(i, f) /\ ~Before(i, f) /\ ~Before(l, i)}
  BY DEF Stretch, Label
<1> HIDE DEF P, f, l
<1>5. ASSUME NEW i \in Old, Alike(i, f), ~Before(i, f), ~Before(l, i)
      PROVE  i \in P
  <2>1. Alike(f, i) /\ Alike(i, l) /\ Alike(f, l)
    BY <1>1, <1>2, <1>3, <1>5 DEF Alike
  <2>2. CASE i = f \/ i = l
    BY <2>2, <1>2, <1>3
  <2>3. CASE i # f /\ i # l
    <3>1. Before(f, i) /\ Before(i, l)
      BY <2>3, <1>1, <1>2, <1>3, <1>5, BeforeIsOrder
    <3>2. i \in batch
      BY <3>1, <2>1, <1>1, <1>2, <1>3 DEF NoGaps
    <3> QED BY <3>2, <2>1, <1>1, <1>2
  <2> QED BY <2>2, <2>3
<1>6. P = {i \in Old : Alike(i, f) /\ ~Before(i, f) /\ ~Before(l, i)}
  BY <1>1, <1>2, <1>3, <1>5
<1> QED BY <1>4, <1>6 DEF P

(* When a part is archived or given up, the rest has no gaps either.       *)
LEMMA RestHasNoGaps ==
    ASSUME NEW batch, NoGaps(batch), batch \ Part(batch) # {}
    PROVE  NoGaps(batch \ Part(batch))
<1> DEFINE rest == batch \ Part(batch)
<1>1. \A i \in rest, j \in batch : Alike(i, j) => j \in rest
  BY DEF Part, Alike
<1>2. \A i, k \in rest, j \in Old :
        Alike(i, j) /\ Alike(j, k) /\ Before(i, j) /\ Before(j, k) => j \in rest
  BY <1>1 DEF NoGaps
<1>3. \A i \in rest, j \in Old : Alike(i, j) /\ Before(j, i) => j \in rest \union stamped
  BY <1>1 DEF NoGaps
<1> QED BY <1>2, <1>3 DEF NoGaps

(* The code's Group and Key are Part and Label.                            *)
LEMMA GroupIsPart ==
    ASSUME HistoryOK, NEW a \in Runs, NoGaps(run[a].batch)
    PROVE  /\ Group(a) = Part(run[a].batch) /\ Key(a) = Label(run[a].batch)
           /\ Oldest(run[a].batch) \in Old
<1> DEFINE batch == run[a].batch
<1>1. batch # {} /\ batch \subseteq Old
  BY DEF NoGaps
<1>2. Oldest(batch) = First(batch) /\ First(batch) \in batch
  BY <1>1, AsInHistory, FirstIs
<1>3. Group(a) = Part(batch)
  BY <1>1, <1>2 DEF Group, Scope, Part, HistoryOK
<1>4. Group(a) # {} /\ Group(a) \subseteq Old
  BY <1>3, PartIs
<1>5. Key(a) = Label(batch)
  BY <1>3, <1>4, AsInHistory DEF Key, Label
<1> QED BY <1>1, <1>2, <1>3, <1>5

(* What the SELECT returns has no gaps: the rows that it leaves to the     *)
(* next batch are younger, and those that are stamped already are older.   *)
LEMMA BatchHasNoGaps ==
    ASSUME HistoryOK, StampedOK, NEW a \in Runs, Due(a) # {},
           run[a].tier \in DOMAIN Tiers, run[a].cutoff \in Int
    PROVE  NoGaps(Batch(a))
<1> DEFINE Ahead(i) == {j \in Due(a) : Older(j, i)}
<1>1. /\ Due(a) \subseteq Old
      /\ \A i \in Due(a) : History[i].tier = Tiers[run[a].tier] /\ i \notin stamped
  <2>1. Tiers[run[a].tier] \in {"free", "pro"}
    BY DEF Tiers
  <2>2. ASSUME NEW i \in Due(a) PROVE i \in Old
    BY <2>1 DEF Due, HistoryOK, Committed, NoTier
  <2> QED BY <2>2 DEF Due, HistoryOK
<1>2. IsFiniteSet(Due(a))
  BY <1>1, BeforeIsOrder, FS_Subset
<1>3. \A i, j \in Old : Older(i, j) <=> Before(i, j)
  BY DEF HistoryOK, Older, Before
<1>4. \A i \in Due(a) : IsFiniteSet(Ahead(i)) /\ Cardinality(Ahead(i)) \in Nat
  BY <1>2, FS_Subset, FS_CardinalityType
<1>5. Batch(a) = {i \in Due(a) : Cardinality(Ahead(i)) < BatchSize}
  BY DEF Batch
<1>6. First(Due(a)) \in Batch(a)
  <2>1. First(Due(a)) \in Due(a) /\ \A j \in Due(a) : ~Before(j, First(Due(a)))
    BY <1>1, FirstIs
  <2>2. Ahead(First(Due(a))) = {}
    BY <2>1, <1>1, <1>3
  <2>3. Cardinality(Ahead(First(Due(a)))) = 0
    BY <2>2, FS_EmptySet
  <2> QED BY <2>1, <2>3, <1>5, NumberAssumption
<1>7. ASSUME NEW i \in Batch(a), NEW j \in Old, Alike(i, j), Before(j, i), j \notin stamped
      PROVE  j \in Batch(a)
  <2>1. i \in Due(a) /\ i \in Old /\ Cardinality(Ahead(i)) < BatchSize
    BY <1>1, <1>5
  <2>2. j \in Due(a)
    <3>1. log[j].tier = log[i].tier /\ log[j].at <= log[i].at
      BY <2>1, <1>7, BeforeIsOrder DEF HistoryOK, Alike, Before
    <3>2. /\ log[j].at \in Int /\ log[i].at \in Int
          /\ log[i].tier \in {"free", "pro"} /\ Window[log[i].tier] \in Int
      BY <2>1, BeforeIsOrder, NumberAssumption DEF HistoryOK
    <3>3. log[i].tier = Tiers[run[a].tier] /\ Expired(i, run[a].cutoff)
      BY <2>1 DEF Due
    <3>4. Expired(j, run[a].cutoff)
      BY <3>1, <3>2, <3>3 DEF Expired
    <3>5. j \in Committed \ stamped
      BY <1>7 DEF HistoryOK
    <3> QED BY <3>1, <3>3, <3>4, <3>5 DEF Due
  <2>3. Ahead(j) \subseteq Ahead(i)
    BY <2>1, <2>2, <1>1, <1>3, <1>7, BeforeIsOrder
  <2>4. Cardinality(Ahead(j)) <= Cardinality(Ahead(i))
    BY <2>1, <2>3, <1>4, FS_Subset
  <2> HIDE DEF Ahead
  <2> QED BY <2>1, <2>2, <2>4, <1>4, <1>5, NumberAssumption
<1>8. Batch(a) \subseteq Old /\ \A i, j \in Batch(a) : History[i].tier = History[j].tier
  BY <1>1, <1>5
<1>9. ASSUME NEW i \in Batch(a), NEW k \in Batch(a), NEW j \in Old,
             Alike(i, j), Alike(j, k), Before(i, j), Before(j, k)
      PROVE  j \in Batch(a)
  <2>1. j \notin stamped
    <3>1. i \notin stamped /\ i \in Old
      BY <1>1, <1>5
    <3> QED BY <3>1, <1>9 DEF StampedOK, Alike
  <2> QED BY <2>1, <1>7, <1>9 DEF Alike
<1> QED BY <1>6, <1>7, <1>8, <1>9 DEF NoGaps

LEMMA IdleIs == Idle \in RunType /\ Idle.pc = "idle"
<1>1. 1 \in DOMAIN Tiers /\ 0 \in 0..Horizon
  BY NumberAssumption DEF Tiers
<1> QED BY <1>1 DEF Idle, RunType

LEMMA NextTierIs ==
    ASSUME NEW r \in RunType
    PROVE  NextTier(r) \in RunType /\ NextTier(r).pc \in {"idle", "scan"}
<1>1. DOMAIN Tiers = {1, 2} /\ Len(Tiers) = 2
  BY DEF Tiers
<1>2. Idle \in RunType /\ Idle.pc = "idle"
  BY IdleIs
<1>3. CASE r.tier = 1
  <2>1. NextTier(r) = [r EXCEPT !.pc = "scan", !.tier = 2, !.batch = {}]
    BY <1>1, <1>3 DEF NextTier, RunType
  <2> QED BY <2>1, <1>1 DEF RunType
<1>4. CASE r.tier = 2
  BY <1>1, <1>2, <1>4 DEF NextTier
<1> QED BY <1>1, <1>3, <1>4 DEF RunType

(* After a group a run goes on with the rest, the tier or the next one.    *)
LEMMA NextGroupIs ==
    ASSUME HistoryOK, RunTypes, NEW a \in Runs, NoGaps(run[a].batch)
    PROVE  /\ NextGroup(a) \in RunType
           /\ \/ NextGroup(a).pc \in {"idle", "scan"}
              \/ NextGroup(a).pc = "group" /\ NoGaps(NextGroup(a).batch)
<1> DEFINE rest == run[a].batch \ Part(run[a].batch)
<1>1. Group(a) = Part(run[a].batch)
  BY GroupIsPart
<1>2. rest # {} => NoGaps(rest)
  BY RestHasNoGaps
<1>3. rest \subseteq Old
  BY DEF NoGaps
<1>4. NextGroup(a) = IF rest # {} THEN [run[a] EXCEPT !.pc = "group", !.batch = rest]
                     ELSE IF run[a].full THEN [run[a] EXCEPT !.pc = "scan", !.batch = {}]
                     ELSE NextTier(run[a])
  BY <1>1 DEF NextGroup
<1>5. run[a] \in RunType
  BY DEF RunTypes, RunType
<1>6. NextTier(run[a]) \in RunType /\ NextTier(run[a]).pc \in {"idle", "scan"}
  BY <1>5, NextTierIs
<1> HIDE DEF rest
<1> QED BY <1>2, <1>3, <1>4, <1>5, <1>6 DEF Archiving, RunType

-----------------------------------------------------------------------------
(* The chain, one step of the flush or of the transaction at a time.       *)

\* What a step leaves of the committed rows and of the sessions' own ones.
Keeps(sessions) ==
    /\ Committed \subseteq Committed'
    /\ \A i \in Committed : log'[i] = log[i]
    /\ \A t \in sessions : /\ pending'[t] = pending[t]
                           /\ \A i \in pending[t] : log'[i] = log[i]

(* The greatest of a finite set of ids is the one that has no greater.     *)
LEMMA HighestUnique ==
    ASSUME NEW ids, IsFiniteSet(ids), ids \subseteq Nat,
           NEW h \in ids \union {Genesis}, \A j \in ids : j <= h
    PROVE  Highest(ids) = h
<1>1. /\ Highest(ids) \in ids \union {Genesis}
      /\ \A j \in ids : j <= Highest(ids)
      /\ Highest(ids) \in Nat
  BY HighestIs
<1>2. h \in Nat
  BY DEF Genesis
<1>3. h <= Highest(ids) /\ Highest(ids) <= h
  BY <1>1, <1>2 DEF Genesis
<1> QED BY <1>1, <1>2, <1>3

(* Who holds the lock is the only one that has rows or a tail.             *)
LEMMA HolderReads ==
    ASSUME ChainTypes, LockOK, NEW s \in Sessions, lock = s
    PROVE  /\ \A t \in Sessions \ {s} : pending[t] = {} /\ step[t] = "out"
           /\ DOMAIN log = Committed \union pending[s]
<1>1. \A t \in Sessions \ {s} : pending[t] = {} /\ step[t] = "out"
  BY DEF LockOK
<1>2. pending[s] \subseteq DOMAIN log
  BY DEF ChainTypes
<1>3. UNION {pending[t] : t \in Sessions} = pending[s]
  BY <1>1
<1>4. DOMAIN log = Committed \union pending[s]
  BY <1>2, <1>3 DEF Committed
<1> QED BY <1>1, <1>4

LEMMA TakeLockKeeps ==
    ASSUME ChainInv, NEW s \in Sessions, NEW v \in Views, TakeLock(s, v)
    PROVE  ChainInv' /\ Keeps(Sessions) /\ UNCHANGED <<cold, s3, now, faults>>
<1>1. /\ UNCHANGED <<log, pending, tail, cold, s3, now, faults>> /\ step[s] = "out"
      /\ lock' = s /\ lock \in {Free, s}
      /\ step' = [step EXCEPT ![s] = "locked"] /\ view' = [view EXCEPT ![s] = v]
  BY DEF TakeLock
<1>2. UNCHANGED <<stamped, marked, run, store>>
  BY <1>1 DEF cold
<1>3. Committed' = Committed
  BY <1>1 DEF Committed
<1>4. ChainTypes'
  BY <1>1, <1>2 DEF ChainInv, ChainTypes
<1>5. \A t \in Sessions \ {s} : pending[t] = {} /\ step[t] = "out"
  BY <1>1, ActorAssumption DEF ChainInv, LockOK
<1>6. LockOK'
  BY <1>1, <1>5 DEF ChainInv, ChainTypes, LockOK
<1>7. \A t \in Sessions : step'[t] # "hashed"
  BY <1>1, <1>5 DEF ChainInv, ChainTypes
<1>8. \A i \in DOMAIN log : InView(i)' = InView(i)
  BY <1>1 DEF InView, Sees
<1>9. LogOK'
  BY <1>1, <1>3, <1>7, <1>8 DEF ChainInv, LogOK
<1>10. HistoryOK'
  BY <1>1, <1>3 DEF ChainInv, HistoryOK
<1> QED BY <1>1, <1>3, <1>4, <1>6, <1>9, <1>10 DEF ChainInv, Keeps

LEMMA ReadTailKeeps ==
    ASSUME ChainInv, NEW s \in Sessions, ReadTail(s)
    PROVE  ChainInv' /\ Keeps(Sessions) /\ UNCHANGED <<cold, s3, now, faults>>
<1>1. /\ UNCHANGED <<log, view, pending, lock, cold, s3, now, faults>> /\ step[s] = "locked"
      /\ step' = [step EXCEPT ![s] = "hashed"]
      /\ tail' = [tail EXCEPT ![s] = Highest(Readable(s))]
  BY DEF ReadTail
<1>2. UNCHANGED <<stamped, marked, run, store>>
  BY <1>1 DEF cold
<1>3. Committed' = Committed /\ \A t \in Sessions : Readable(t)' = Readable(t)
  BY <1>1 DEF Committed, Readable, Sees
<1>4. IsFiniteSet(Readable(s)) /\ Readable(s) \subseteq Nat
  <2>1. Readable(s) \subseteq DOMAIN log
    BY DEF Readable, Committed, ChainInv, ChainTypes
  <2> QED BY <2>1, FS_Subset DEF ChainInv, ChainTypes
<1>5. Highest(Readable(s)) \in Nat
  BY <1>4, HighestIs
<1>6. ChainTypes'
  BY <1>1, <1>2, <1>5 DEF ChainInv, ChainTypes
<1>7. LockOK'
  BY <1>1 DEF ChainInv, ChainTypes, LockOK
<1>8. \A i \in DOMAIN log : InView(i)' = InView(i)
  BY <1>1 DEF InView, Sees
<1>9. \A t \in Sessions : step'[t] = "hashed" => tail'[t] = Highest(Readable(t))
  BY <1>1 DEF ChainInv, ChainTypes, LogOK
<1>10. LogOK'
  BY <1>1, <1>3, <1>8, <1>9 DEF ChainInv, LogOK
<1>11. HistoryOK'
  BY <1>1, <1>3 DEF ChainInv, HistoryOK
<1> QED BY <1>1, <1>3, <1>6, <1>7, <1>10, <1>11 DEF ChainInv, Keeps

LEMMA InsertKeeps ==
    ASSUME ChainInv, NEW s \in Sessions, NEW scope \in Scopes,
           NEW key \in {NoKey} \union DOMAIN store, Insert(s, scope, key)
    PROVE  /\ ChainInv' /\ Keeps(Sessions \ {s})
           /\ UNCHANGED <<stamped, store, s3, now, faults>>
           /\ \E e \in pending'[s] : log'[e].key = key
<1> DEFINE id == Highest(DOMAIN log) + 1
<1>1. /\ step[s] = "hashed" /\ UNCHANGED <<view, lock, stamped, store, s3, now, faults>>
      /\ log' = [i \in DOMAIN log \union {id} |->
                   IF i = id THEN [of |-> scope, prev |-> tail[s], tier |-> NoTier,
                                   at |-> 0, key |-> key, seenBy |-> view[s]]
                             ELSE log[i]]
      /\ pending' = [pending EXCEPT ![s] = @ \union {id}]
      /\ step' = [step EXCEPT ![s] = "out"] /\ tail' = [tail EXCEPT ![s] = Genesis]
  BY DEF Insert
<1>2. /\ id \in Nat \ {Genesis} /\ id \notin DOMAIN log
      /\ \A i \in DOMAIN log : i < id /\ i \in Nat
  <2>1. /\ Highest(DOMAIN log) \in Nat
        /\ \A i \in DOMAIN log : i <= Highest(DOMAIN log) /\ i \in Nat
    BY HighestIs DEF ChainInv, ChainTypes
  <2> QED BY <2>1 DEF Genesis
<1> HIDE DEF id
<1>3. lock = s /\ view[s] \in Views
  BY <1>1 DEF ChainInv, LockOK
<1>4. /\ \A t \in Sessions \ {s} : pending[t] = {} /\ step[t] = "out"
      /\ DOMAIN log = Committed \union pending[s]
  BY <1>3, HolderReads DEF ChainInv
<1>5. /\ DOMAIN log' = DOMAIN log \union {id}
      /\ \A i \in DOMAIN log : log'[i] = log[i]
      /\ log'[id] = [of |-> scope, prev |-> tail[s], tier |-> NoTier,
                     at |-> 0, key |-> key, seenBy |-> view[s]]
  BY <1>1, <1>2
<1>6. /\ \A t \in Sessions \ {s} : pending'[t] = {}
      /\ pending'[s] = pending[s] \union {id}
      /\ \A t \in Sessions : step'[t] = "out"
  BY <1>1, <1>4 DEF ChainInv, ChainTypes
<1>7. Committed' = Committed
  <2>1. UNION {pending[t] : t \in Sessions} = pending[s]
    BY <1>4
  <2>2. UNION {pending'[t] : t \in Sessions} = pending[s] \union {id}
    BY <1>6
  <2> QED BY <2>1, <2>2, <1>2, <1>5 DEF Committed
<1>8. ChainTypes'
  <2>1. tail[s] \in Nat /\ IsFiniteSet(DOMAIN log')
    BY <1>5, FS_AddElement DEF ChainInv, ChainTypes
  <2>2. log'[id] \in [of : Scopes, prev : Nat, tier : {"free", "pro", NoTier},
                      at : Int, key : {NoKey} \union DOMAIN store', seenBy : Views]
    BY <2>1, <1>1, <1>3, <1>5 DEF ChainInv, ChainTypes
  <2>3. \A i \in DOMAIN log : log'[i] \in [of : Scopes, prev : Nat, tier : {"free", "pro", NoTier},
                      at : Int, key : {NoKey} \union DOMAIN store', seenBy : Views]
    BY <1>1, <1>5 DEF ChainInv, ChainTypes
  <2>4. log' \in [DOMAIN log' -> [of : Scopes, prev : Nat, tier : {"free", "pro", NoTier},
                      at : Int, key : {NoKey} \union DOMAIN store', seenBy : Views]]
    BY <2>2, <2>3, <1>1, <1>5
  <2>5. /\ view' \in [Sessions -> Views \union {NoView}]
        /\ step' \in [Sessions -> {"out", "locked", "hashed"}] /\ tail' \in [Sessions -> Nat]
        /\ DOMAIN log' \subseteq Nat \ {Genesis}
    BY <1>1, <1>2, <1>5 DEF ChainInv, ChainTypes, Genesis
  <2>6. pending' \in [Sessions -> SUBSET DOMAIN log']
    BY <1>1, <1>5 DEF ChainInv, ChainTypes
  <2> QED BY <2>1, <2>4, <2>5, <2>6 DEF ChainTypes
<1>9. LockOK'
  BY <1>1, <1>3, <1>6 DEF LockOK
<1>10. \A t \in Sessions : \A i \in pending'[t], j \in Committed' : j < i
  <2>1. \A i \in pending[s], j \in Committed : j < i
    BY DEF ChainInv, LogOK
  <2>2. \A j \in Committed : j < id
    BY <1>2 DEF Committed
  <2> QED BY <2>1, <2>2, <1>6, <1>7
<1>11. ASSUME NEW i \in DOMAIN log' PROVE log'[i].prev = Highest(InView(i)')
  <2>1. CASE i = id
    <3>1. InView(i)' = {j \in DOMAIN log : Sees(view[s], log[j].of)}
      BY <2>1, <1>2, <1>5 DEF InView, Sees
    <3>2. Readable(s) = {j \in DOMAIN log : Sees(view[s], log[j].of)}
      BY <1>4 DEF Readable
    <3>3. tail[s] = Highest(Readable(s))
      BY <1>1 DEF ChainInv, LogOK
    <3> QED BY <3>1, <3>2, <3>3, <2>1, <1>5
  <2>2. CASE i # id
    <3>1. i \in DOMAIN log
      BY <2>2, <1>5
    <3>2. InView(i)' = InView(i)
      BY <3>1, <1>2, <1>5 DEF InView, Sees
    <3> QED BY <3>1, <3>2, <1>5 DEF ChainInv, LogOK
  <2> QED BY <2>1, <2>2
<1>12. LogOK'
  BY <1>6, <1>10, <1>11 DEF LogOK
<1>13. HistoryOK'
  BY <1>2, <1>5, <1>7 DEF ChainInv, HistoryOK, Committed
<1>14. Keeps(Sessions \ {s})
  BY <1>4, <1>5, <1>6, <1>7 DEF Keeps, Committed
<1> QED BY <1>1, <1>5, <1>6, <1>8, <1>9, <1>12, <1>13, <1>14 DEF ChainInv

(* How a transaction ends, for the others.                                 *)
LEMMA EndIs ==
    ASSUME ChainInv, NEW s \in Sessions, EndTransaction(s)
    PROVE  /\ \A t \in Sessions \ {s} : /\ pending'[t] = pending[t] /\ view'[t] = view[t]
                                       /\ step'[t] = step[t] /\ tail'[t] = tail[t]
           /\ pending'[s] = {} /\ step'[s] = "out" /\ LockOK'
           /\ view' \in [Sessions -> Views \union {NoView}]
           /\ step' \in [Sessions -> {"out", "locked", "hashed"}] /\ tail' \in [Sessions -> Nat]
           /\ pending' = [pending EXCEPT ![s] = {}]
           /\ UNION {pending'[t] : t \in Sessions} = UNION {pending[t] : t \in Sessions \ {s}}
           /\ \A t \in Sessions \ {s} : step[t] # "out" \/ pending[t] # {} => pending[s] = {}
<1>1. /\ view' = [view EXCEPT ![s] = NoView] /\ pending' = [pending EXCEPT ![s] = {}]
      /\ lock' = IF lock = s THEN Free ELSE lock
      /\ step' = [step EXCEPT ![s] = "out"] /\ tail' = [tail EXCEPT ![s] = Genesis]
  BY DEF EndTransaction
<1>2. /\ \A t \in Sessions \ {s} : /\ pending'[t] = pending[t] /\ view'[t] = view[t]
                                   /\ step'[t] = step[t] /\ tail'[t] = tail[t]
      /\ pending'[s] = {} /\ step'[s] = "out"
  BY <1>1 DEF ChainInv, ChainTypes
<1>3. /\ view' \in [Sessions -> Views \union {NoView}]
      /\ step' \in [Sessions -> {"out", "locked", "hashed"}] /\ tail' \in [Sessions -> Nat]
  BY <1>1 DEF ChainInv, ChainTypes, Genesis
<1>4. \A t \in Sessions \ {s} : step[t] # "out" \/ pending[t] # {} => pending[s] = {}
  BY DEF ChainInv, LockOK
<1>5. LockOK'
  BY <1>1, <1>2 DEF ChainInv, LockOK
<1>6. UNION {pending'[t] : t \in Sessions} = UNION {pending[t] : t \in Sessions \ {s}}
  BY <1>2
<1> QED BY <1>1, <1>2, <1>3, <1>4, <1>5, <1>6

LEMMA CommitKeeps ==
    ASSUME ChainInv, NEW s \in Sessions, CommitRows(s), UNCHANGED store
    PROVE  /\ ChainInv' /\ Keeps(Sessions \ {s})
           /\ \A e \in pending[s] : e \in Committed' /\ log'[e] = log[e]
<1>1. EndTransaction(s) /\ UNCHANGED log
  BY DEF CommitRows
<1>2. /\ \A t \in Sessions \ {s} : /\ pending'[t] = pending[t] /\ view'[t] = view[t]
                                   /\ step'[t] = step[t] /\ tail'[t] = tail[t]
      /\ pending'[s] = {} /\ step'[s] = "out" /\ LockOK'
      /\ view' \in [Sessions -> Views \union {NoView}]
      /\ step' \in [Sessions -> {"out", "locked", "hashed"}] /\ tail' \in [Sessions -> Nat]
      /\ pending' = [pending EXCEPT ![s] = {}]
      /\ UNION {pending'[t] : t \in Sessions} = UNION {pending[t] : t \in Sessions \ {s}}
      /\ \A t \in Sessions \ {s} : step[t] # "out" \/ pending[t] # {} => pending[s] = {}
  BY <1>1, EndIs
<1>3. Committed \subseteq Committed' /\ (pending[s] = {} => Committed' = Committed)
  BY <1>1, <1>2 DEF Committed
<1>4. \A e \in pending[s] : e \in Committed'
  BY <1>1, <1>2 DEF Committed, ChainInv, ChainTypes
<1>5. ChainTypes'
  BY <1>1, <1>2 DEF ChainInv, ChainTypes
<1>6. \A t \in Sessions : \A i \in pending'[t], j \in Committed' : j < i
  BY <1>2, <1>3 DEF ChainInv, LogOK
<1>7. ASSUME NEW t \in Sessions, step'[t] = "hashed" PROVE tail'[t] = Highest(Readable(t)')
  <2>1. t # s /\ step[t] = "hashed" /\ pending[s] = {}
    BY <1>2, <1>7
  <2>2. Readable(t)' = Readable(t)
    BY <2>1, <1>1, <1>2, <1>3 DEF Readable, Sees
  <2> QED BY <2>1, <2>2, <1>2 DEF ChainInv, LogOK
<1>8. \A i \in DOMAIN log : InView(i)' = InView(i)
  BY <1>1 DEF InView, Sees
<1>9. LogOK'
  BY <1>1, <1>6, <1>7, <1>8 DEF ChainInv, LogOK
<1>10. HistoryOK'
  BY <1>1, <1>3 DEF ChainInv, HistoryOK
<1> QED BY <1>1, <1>2, <1>3, <1>4, <1>5, <1>9, <1>10 DEF ChainInv, Keeps

LEMMA UndoKeeps ==
    ASSUME ChainInv, NEW s \in Sessions, UndoRows(s), UNCHANGED store
    PROVE  ChainInv' /\ Keeps(Sessions \ {s})
<1>1. EndTransaction(s) /\ log' = [i \in DOMAIN log \ pending[s] |-> log[i]]
  BY DEF UndoRows
<1>2. /\ \A t \in Sessions \ {s} : /\ pending'[t] = pending[t] /\ view'[t] = view[t]
                                   /\ step'[t] = step[t] /\ tail'[t] = tail[t]
      /\ pending'[s] = {} /\ step'[s] = "out" /\ LockOK'
      /\ view' \in [Sessions -> Views \union {NoView}]
      /\ step' \in [Sessions -> {"out", "locked", "hashed"}] /\ tail' \in [Sessions -> Nat]
      /\ pending' = [pending EXCEPT ![s] = {}]
      /\ UNION {pending'[t] : t \in Sessions} = UNION {pending[t] : t \in Sessions \ {s}}
      /\ \A t \in Sessions \ {s} : step[t] # "out" \/ pending[t] # {} => pending[s] = {}
  BY <1>1, EndIs
<1>3. DOMAIN log' = DOMAIN log \ pending[s] /\ \A i \in DOMAIN log' : log'[i] = log[i]
  BY <1>1
<1>4. Committed' = Committed
  BY <1>2, <1>3 DEF Committed
<1>5. \A t \in Sessions \ {s} : pending[t] \subseteq DOMAIN log'
  BY <1>2, <1>3 DEF ChainInv, ChainTypes
<1>6. ChainTypes'
  <2>1. IsFiniteSet(DOMAIN log') /\ DOMAIN log' \subseteq Nat \ {Genesis}
    BY <1>3, FS_Subset DEF ChainInv, ChainTypes
  <2>2. log' \in [DOMAIN log' -> [of : Scopes, prev : Nat, tier : {"free", "pro", NoTier},
                      at : Int, key : {NoKey} \union DOMAIN store', seenBy : Views]]
    BY <1>1, <1>3 DEF ChainInv, ChainTypes
  <2>3. pending' \in [Sessions -> SUBSET DOMAIN log']
    BY <1>2, <1>5 DEF ChainInv, ChainTypes
  <2> QED BY <2>1, <2>2, <2>3, <1>2 DEF ChainTypes
<1>7. \A t \in Sessions : \A i \in pending'[t], j \in Committed' : j < i
  BY <1>2, <1>4 DEF ChainInv, LogOK
<1>8. ASSUME NEW t \in Sessions, step'[t] = "hashed" PROVE tail'[t] = Highest(Readable(t)')
  <2>1. t # s /\ step[t] = "hashed" /\ pending[s] = {}
    BY <1>2, <1>8
  <2>2. Readable(t)' = Readable(t)
    BY <2>1, <1>2, <1>3, <1>4, <1>5 DEF Readable, Sees, Committed
  <2> QED BY <2>1, <2>2, <1>2 DEF ChainInv, LogOK
<1>9. ASSUME NEW i \in DOMAIN log' PROVE log'[i].prev = Highest(InView(i)')
  <2>1. \A j \in pending[s] : ~(j < i)
    <3>1. CASE i \in Committed
      <4>1. \A j \in pending[s] : i < j /\ i \in Nat /\ j \in Nat
        BY <3>1 DEF ChainInv, ChainTypes, LogOK, Committed
      <4> QED BY <4>1
    <3>2. CASE i \notin Committed
      <4>1. PICK t \in Sessions \ {s} : i \in pending[t]
        BY <3>2, <1>3 DEF Committed
      <4> QED BY <4>1, <1>2
    <3> QED BY <3>1, <3>2
  <2>2. InView(i)' = InView(i)
    BY <2>1, <1>3 DEF InView, Sees
  <2> QED BY <2>2, <1>3 DEF ChainInv, LogOK
<1>10. LogOK'
  BY <1>7, <1>8, <1>9 DEF LogOK
<1>11. HistoryOK'
  BY <1>3, <1>4 DEF ChainInv, HistoryOK, Committed
<1> QED BY <1>2, <1>3, <1>4, <1>5, <1>6, <1>10, <1>11 DEF ChainInv, Keeps, Committed

(* Steps that leave the log and its sessions alone.                        *)
LEMMA ChainKept ==
    ASSUME ChainInv, UNCHANGED chain, DOMAIN store \subseteq DOMAIN store'
    PROVE  ChainInv' /\ Keeps(Sessions)
<1>1. UNCHANGED <<log, view, pending, lock, step, tail>>
  BY DEF chain
<1>2. Committed' = Committed /\ \A t \in Sessions : Readable(t)' = Readable(t)
  BY <1>1 DEF Committed, Readable, Sees
<1>3. ChainTypes'
  <2>1. \A i \in DOMAIN log : log[i] \in [of : Scopes, prev : Nat, tier : {"free", "pro", NoTier},
                      at : Int, key : {NoKey} \union DOMAIN store', seenBy : Views]
    BY DEF ChainInv, ChainTypes
  <2> QED BY <2>1, <1>1 DEF ChainInv, ChainTypes
<1>4. \A i \in DOMAIN log : InView(i)' = InView(i)
  BY <1>1 DEF InView, Sees
<1>5. LogOK'
  BY <1>1, <1>2, <1>4 DEF ChainInv, LogOK
<1>6. LockOK' /\ HistoryOK'
  BY <1>1, <1>2 DEF ChainInv, LockOK, HistoryOK
<1> QED BY <1>1, <1>2, <1>3, <1>5, <1>6 DEF ChainInv, Keeps

-----------------------------------------------------------------------------
(* The archive, one action at a time.                                      *)

(* A run that does not step keeps what it has, whoever else does: stamps   *)
(* and objects are only added, and no one takes back its own rows.         *)
LEMMA OtherRun ==
    ASSUME NEW b \in Runs, RunOK(b), Keeps({b}),
           run'[b] = run[b], marked'[b] = marked[b],
           stamped \subseteq stamped', DOMAIN store \subseteq DOMAIN store'
    PROVE  RunOK(b)'
<1>1. NoGaps(run[b].batch) => NoGaps(run[b].batch)'
  BY DEF NoGaps
<1>2. ASSUME run[b].pc \in Archiving PROVE NoGaps(run[b].batch)'
  BY <1>1, <1>2 DEF RunOK
<1>3. pending'[b] = pending[b] /\ \A i \in pending[b] : log'[i] = log[i]
  BY DEF Keeps
<1> QED BY <1>2, <1>3 DEF RunOK

(* What is left to show of an action on the archive.                       *)
LEMMA ColdStep ==
    ASSUME ColdInv, NEW R \in SUBSET Runs, Keeps(R),
           \A b \in R : run'[b] = run[b] /\ marked'[b] = marked[b],
           \A b \in Runs \ R : RunOK(b)',
           RunTypes', StoreOK', StampedOK',
           stamped \subseteq stamped', DOMAIN store \subseteq DOMAIN store',
           \A i \in stamped' \ stamped : \E e \in Committed' :
               log'[e].key \in DOMAIN store' /\ i \in store'[log'[e].key]
    PROVE  ColdInv'
<1>1. ASSUME NEW b \in Runs PROVE RunOK(b)'
  <2>1. CASE b \in R
    <3>1. Keeps({b})
      BY <2>1 DEF Keeps
    <3> QED BY <3>1, <2>1, OtherRun DEF ColdInv
  <2> QED BY <2>1
<1>2. ASSUME NEW i \in stamped
      PROVE  \E e \in Committed' : log'[e].key \in DOMAIN store' /\ i \in store'[log'[e].key]
  <2>1. PICK e \in Committed : log[e].key \in DOMAIN store /\ i \in store[log[e].key]
    BY DEF ColdInv, ColdIsFindable
  <2>2. e \in Committed' /\ log'[e] = log[e]
    BY DEF Keeps
  <2>3. store'[log[e].key] = store[log[e].key]
    BY <2>1 DEF ColdInv, StoreOK
  <2> QED BY <2>1, <2>2, <2>3
<1>3. ColdIsFindable'
  BY <1>2 DEF ColdIsFindable
<1> QED BY <1>1, <1>3 DEF ColdInv

LEMMA ColdKept ==
    ASSUME ColdInv, Keeps(Runs), UNCHANGED cold
    PROVE  ColdInv'
<1>1. UNCHANGED <<stamped, marked, run, store>>
  BY DEF cold
<1>2. RunTypes' /\ StoreOK' /\ StampedOK'
  BY <1>1 DEF ColdInv, RunTypes, StoreOK, StampedOK
<1> QED BY <1>1, <1>2, ColdStep

LEMMA StartCold ==
    ASSUME ColdInv, Clocks, NEW a \in Runs, Keeps(Runs), Start(a)
    PROVE  ColdInv'
<1>1. /\ run[a].pc = "idle" /\ UNCHANGED <<stamped, marked, store>>
      /\ run' = [run EXCEPT ![a] = [Idle EXCEPT !.pc = "scan", !.cutoff = now]]
  BY DEF Start
<1>2. [Idle EXCEPT !.pc = "scan", !.cutoff = now] \in RunType
  <2>1. 1 \in DOMAIN Tiers
    BY DEF Tiers
  <2> QED BY <2>1 DEF Idle, RunType, Clocks
<1>3. RunTypes' /\ StoreOK' /\ StampedOK'
  BY <1>1, <1>2 DEF ColdInv, RunTypes, RunType, StoreOK, StampedOK
<1>4. run'[a].pc = "scan" /\ \A b \in Runs \ {a} : run'[b] = run[b]
  BY <1>1 DEF ColdInv, RunTypes, Idle
<1>5. RunOK(a)'
  BY <1>1, <1>4 DEF ColdInv, RunOK, Archiving
<1>6. Keeps(Runs \ {a})
  BY DEF Keeps
<1> QED BY <1>1, <1>3, <1>4, <1>5, <1>6, ColdStep

LEMMA FetchCold ==
    ASSUME ColdInv, HistoryOK, NEW a \in Runs, Keeps(Runs), Fetch(a)
    PROVE  ColdInv'
<1>1. /\ run[a].pc = "scan" /\ UNCHANGED <<stamped, marked, store>>
      /\ run' = [run EXCEPT ![a] =
                   IF Due(a) = {} THEN NextTier(@)
                   ELSE [@ EXCEPT !.pc = "group", !.batch = Batch(a),
                                  !.full = Cardinality(Batch(a)) = BatchSize]]
  BY DEF Fetch
<1>2. run[a] \in RunType /\ run'[a] \in RunType
  <2>1. run[a] \in RunType
    BY DEF ColdInv, RunTypes, RunType
  <2>2. Due(a) # {} => NoGaps(Batch(a))
    BY <2>1, BatchHasNoGaps DEF ColdInv, RunType
  <2>3. Due(a) # {} => Batch(a) \subseteq Old
    BY <2>2 DEF NoGaps
  <2>4. NextTier(run[a]) \in RunType
    BY <2>1, NextTierIs
  <2> QED BY <2>1, <2>3, <2>4, <1>1 DEF ColdInv, RunTypes, RunType, Archiving
<1>3. RunTypes' /\ StoreOK' /\ StampedOK'
  BY <1>1, <1>2 DEF ColdInv, RunTypes, RunType, StoreOK, StampedOK
<1>4. \A b \in Runs \ {a} : run'[b] = run[b]
  BY <1>1 DEF ColdInv, RunTypes
<1>5. RunOK(a)'
  <2>1. marked'[a] = {}
    BY <1>1 DEF ColdInv, RunOK
  <2>2. CASE Due(a) = {}
    <3>1. run'[a].pc \in {"idle", "scan"}
      BY <2>2, <1>1, <1>2, NextTierIs DEF ColdInv, RunTypes
    <3> QED BY <3>1, <2>1 DEF RunOK, Archiving
  <2>3. CASE Due(a) # {}
    <3>1. run'[a].pc = "group" /\ run'[a].batch = Batch(a)
      BY <2>3, <1>1, <1>2 DEF ColdInv, RunTypes, RunType
    <3>2. NoGaps(Batch(a))
      BY <2>3, <1>2, BatchHasNoGaps DEF ColdInv, RunType
    <3>3. NoGaps(run[a].batch)'
      BY <3>1, <3>2, <1>1 DEF NoGaps
    <3> QED BY <3>1, <3>3, <2>1 DEF RunOK
  <2> QED BY <2>2, <2>3
<1>6. Keeps(Runs \ {a})
  BY DEF Keeps
<1> QED BY <1>1, <1>3, <1>4, <1>5, <1>6, ColdStep

(* The object is the one that any other run writes under the same key.     *)
LEMMA PutObjectCold ==
    ASSUME ColdInv, HistoryOK, NEW a \in Runs, Keeps(Runs), PutObject(a)
    PROVE  ColdInv' /\ DOMAIN store \subseteq DOMAIN store'
<1>1. /\ run[a].pc = "group" /\ UNCHANGED <<stamped, marked>>
      /\ store' = [k \in DOMAIN store \union {Key(a)} |->
                     IF k = Key(a) THEN Group(a) ELSE store[k]]
      /\ run' = [run EXCEPT ![a].pc = "stored"]
  BY DEF PutObject, Goto
<1>2. NoGaps(run[a].batch)
  BY <1>1 DEF ColdInv, RunOK, Archiving
<1>3. Group(a) = Part(run[a].batch) /\ Key(a) = Label(run[a].batch)
  BY <1>2, GroupIsPart
<1>4. Group(a) = Stretch(Key(a))
  BY <1>2, <1>3, PartIsStretch
<1>5. /\ DOMAIN store' = DOMAIN store \union {Key(a)}
      /\ \A k \in DOMAIN store' : store'[k] = IF k = Key(a) THEN Group(a) ELSE store[k]
  BY <1>1
<1>6. StoreOK'
  BY <1>4, <1>5 DEF ColdInv, StoreOK
<1>7. StampedOK'
  BY <1>1 DEF ColdInv, StampedOK
<1>8. /\ RunTypes' /\ \A b \in Runs \ {a} : run'[b] = run[b]
      /\ run'[a].pc = "stored" /\ run'[a].batch = run[a].batch
  BY <1>1 DEF ColdInv, RunTypes, RunType, Archiving
<1>9. RunOK(a)'
  <2>1. NoGaps(run[a].batch)'
    BY <1>1, <1>2, <1>8 DEF NoGaps
  <2>2. Label(run'[a].batch) \in DOMAIN store'
    BY <1>3, <1>5, <1>8
  <2>3. marked'[a] = {}
    BY <1>1 DEF ColdInv, RunOK
  <2> QED BY <2>1, <2>2, <2>3, <1>8 DEF RunOK
<1>10. Keeps(Runs \ {a})
  BY DEF Keeps
<1> QED BY <1>1, <1>5, <1>6, <1>7, <1>8, <1>9, <1>10, ColdStep

(* A group is left, archived or not: the run goes on with nothing marked.  *)
LEMMA LeaveGroup ==
    ASSUME ColdInv, HistoryOK, NEW a \in Runs, run[a].pc \in Archiving,
           run' = [run EXCEPT ![a] = NextGroup(a)],
           marked' = [marked EXCEPT ![a] = {}], stamped \subseteq stamped'
    PROVE  /\ RunTypes' /\ RunOK(a)'
           /\ \A b \in Runs \ {a} : run'[b] = run[b] /\ marked'[b] = marked[b]
<1>1. NoGaps(run[a].batch)
  BY DEF ColdInv, RunOK
<1>2. /\ NextGroup(a) \in RunType
      /\ \/ NextGroup(a).pc \in {"idle", "scan"}
         \/ NextGroup(a).pc = "group" /\ NoGaps(NextGroup(a).batch)
  BY <1>1, NextGroupIs DEF ColdInv
<1>3. /\ RunTypes' /\ run'[a] = NextGroup(a) /\ marked'[a] = {}
      /\ \A b \in Runs \ {a} : run'[b] = run[b] /\ marked'[b] = marked[b]
  BY <1>2 DEF ColdInv, RunTypes
<1>4. RunOK(a)'
  <2>1. CASE NextGroup(a).pc \in {"idle", "scan"}
    BY <2>1, <1>3 DEF RunOK, Archiving
  <2>2. CASE NextGroup(a).pc = "group" /\ NoGaps(NextGroup(a).batch)
    <3>1. NoGaps(run[a].batch)'
      BY <2>2, <1>3 DEF NoGaps
    <3> QED BY <3>1, <2>2, <1>3 DEF RunOK
  <2> QED BY <2>1, <2>2, <1>2
<1> QED BY <1>3, <1>4

LEMMA PutFailsCold ==
    ASSUME ColdInv, HistoryOK, NEW a \in Runs, Keeps(Runs), PutFails(a)
    PROVE  ColdInv'
<1>1. /\ run[a].pc = "group" /\ UNCHANGED <<stamped, marked, store>>
      /\ run' = [run EXCEPT ![a] = NextGroup(a)]
  BY DEF PutFails
<1>2. marked' = [marked EXCEPT ![a] = {}]
  <2>1. marked[a] = {}
    BY <1>1 DEF ColdInv, RunOK
  <2> QED BY <2>1, <1>1 DEF ColdInv, RunTypes
<1>3. /\ RunTypes' /\ RunOK(a)'
      /\ \A b \in Runs \ {a} : run'[b] = run[b] /\ marked'[b] = marked[b]
  BY <1>1, <1>2, LeaveGroup DEF Archiving
<1>4. StoreOK' /\ StampedOK' /\ Keeps(Runs \ {a})
  BY <1>1 DEF ColdInv, StoreOK, StampedOK, Keeps
<1> QED BY <1>1, <1>3, <1>4, ColdStep

LEMMA MarkCold ==
    ASSUME ColdInv, HistoryOK, NEW a \in Runs, Keeps(Runs), Mark(a)
    PROVE  ColdInv'
<1>1. /\ run[a].pc = "stored" /\ UNCHANGED <<stamped, store>>
      /\ marked' = [marked EXCEPT ![a] = Group(a) \ stamped]
      /\ run' = [run EXCEPT ![a].pc = "marked"]
  BY DEF Mark, Goto
<1>2. NoGaps(run[a].batch) /\ Label(run[a].batch) \in DOMAIN store
  BY <1>1 DEF ColdInv, RunOK, Archiving
<1>3. Group(a) = Part(run[a].batch) /\ Group(a) \subseteq Old
  BY <1>2, GroupIsPart, PartIs
<1>4. /\ RunTypes' /\ run'[a].pc = "marked" /\ run'[a].batch = run[a].batch
      /\ marked'[a] = Group(a) \ stamped
      /\ \A b \in Runs \ {a} : run'[b] = run[b] /\ marked'[b] = marked[b]
  BY <1>1, <1>3 DEF ColdInv, RunTypes, RunType, Archiving
<1>5. RunOK(a)'
  <2>1. NoGaps(run[a].batch)'
    BY <1>1, <1>2, <1>4 DEF NoGaps
  <2> QED BY <2>1, <1>1, <1>2, <1>3, <1>4 DEF RunOK
<1>6. StoreOK' /\ StampedOK' /\ Keeps(Runs \ {a})
  BY <1>1 DEF ColdInv, StoreOK, StampedOK, Keeps
<1> QED BY <1>1, <1>4, <1>5, <1>6, ColdStep

(* The batch's own row names the object that is in the bucket.             *)
LEMMA EmitCold ==
    ASSUME ColdInv, ChainInv, NEW a \in Runs, EmitBatchAudit(a)
    PROVE  ColdInv' /\ ChainInv' /\ UNCHANGED <<s3, now, faults>>
<1>1. /\ run[a].pc = "marked" /\ Insert(a, Scope(a), Key(a))
      /\ run' = [run EXCEPT ![a].pc = "emitted"] /\ UNCHANGED marked
  BY DEF EmitBatchAudit, Goto
<1>2. NoGaps(run[a].batch) /\ Label(run[a].batch) \in DOMAIN store
  BY <1>1 DEF ColdInv, RunOK, Archiving
<1>3. Key(a) = Label(run[a].batch) /\ Oldest(run[a].batch) \in Old
  BY <1>2, GroupIsPart DEF ChainInv
<1>4. Scope(a) \in Scopes
  BY <1>3, BeforeIsOrder DEF Scope, ChainInv, HistoryOK
<1>5. /\ ChainInv' /\ Keeps(Sessions \ {a})
      /\ UNCHANGED <<stamped, store, s3, now, faults>>
      /\ \E e \in pending'[a] : log'[e].key = Key(a)
  BY <1>1, <1>2, <1>3, <1>4, InsertKeeps DEF Sessions
<1>6. /\ RunTypes' /\ run'[a].pc = "emitted" /\ run'[a].batch = run[a].batch
      /\ \A b \in Runs \ {a} : run'[b] = run[b]
  BY <1>1 DEF ColdInv, RunTypes, RunType, Archiving
<1>7. RunOK(a)'
  <2>1. NoGaps(run[a].batch)'
    BY <1>2, <1>5, <1>6 DEF NoGaps
  <2>2. marked[a] \subseteq Part(run[a].batch) /\ Part(run[a].batch) \subseteq marked[a] \union stamped
    BY <1>1 DEF ColdInv, RunOK
  <2> QED BY <2>1, <2>2, <1>1, <1>2, <1>3, <1>5, <1>6 DEF RunOK
<1>8. StoreOK' /\ StampedOK' /\ Keeps(Runs \ {a})
  BY <1>5 DEF ColdInv, StoreOK, StampedOK, Keeps, Sessions
<1> QED BY <1>1, <1>5, <1>6, <1>7, <1>8, ColdStep

(* The stamps and the row that names the object become visible together.   *)
LEMMA CommitGroupCold ==
    ASSUME ColdInv, ChainInv, NEW a \in Runs, CommitGroup(a)
    PROVE  ColdInv' /\ ChainInv' /\ UNCHANGED <<s3, now, faults>>
<1> DEFINE part == Part(run[a].batch)
<1>1. /\ run[a].pc = "emitted" /\ CommitRows(a)
      /\ stamped' = stamped \union marked[a] /\ marked' = [marked EXCEPT ![a] = {}]
      /\ run' = [run EXCEPT ![a] = NextGroup(a)]
      /\ UNCHANGED <<store, s3, now, faults>>
  BY DEF CommitGroup
<1>2. /\ NoGaps(run[a].batch) /\ Label(run[a].batch) \in DOMAIN store
      /\ marked[a] \subseteq part /\ part \subseteq marked[a] \union stamped
      /\ \E e \in pending[a] : log[e].key = Label(run[a].batch)
  BY <1>1 DEF ColdInv, RunOK, Archiving
<1>3. /\ ChainInv' /\ Keeps(Sessions \ {a})
      /\ \A e \in pending[a] : e \in Committed' /\ log'[e] = log[e]
  BY <1>1, CommitKeeps DEF Sessions
<1>4. /\ part \subseteq Old /\ part \subseteq run[a].batch
      /\ \A i \in part, j \in run[a].batch : Alike(i, j) => j \in part
  BY <1>2, PartIs
<1>5. StampedOK'
  <2>1. ASSUME NEW i \in marked[a], NEW j \in Old, Alike(i, j), Before(j, i)
        PROVE  j \in stamped'
    <3>1. i \in part /\ i \in run[a].batch
      BY <1>2, <1>4
    <3>2. j \in run[a].batch \union stamped
      BY <2>1, <3>1, <1>2 DEF NoGaps
    <3>3. j \in part \union stamped
      BY <2>1, <3>1, <3>2, <1>4
    <3> QED BY <3>3, <1>1, <1>2
  <2>2. \A i \in stamped, j \in Old : Alike(i, j) /\ Before(j, i) => j \in stamped
    BY DEF ColdInv, StampedOK
  <2> QED BY <2>1, <2>2, <1>1, <1>2, <1>4 DEF ColdInv, StampedOK
<1>6. ASSUME NEW i \in stamped' \ stamped
      PROVE  \E e \in Committed' : log'[e].key \in DOMAIN store' /\ i \in store'[log'[e].key]
  <2>1. i \in part
    BY <1>1, <1>2
  <2>2. store[Label(run[a].batch)] = part
    BY <1>2, PartIsStretch DEF ColdInv, StoreOK
  <2>3. PICK e \in pending[a] : log[e].key = Label(run[a].batch)
    BY <1>2
  <2>4. log'[e].key = Label(run[a].batch) /\ e \in Committed'
    BY <2>3, <1>3
  <2> QED BY <2>1, <2>2, <2>4, <1>1, <1>2
<1>7. /\ RunTypes' /\ RunOK(a)'
      /\ \A b \in Runs \ {a} : run'[b] = run[b] /\ marked'[b] = marked[b]
  BY <1>1, LeaveGroup DEF Archiving, ChainInv
<1>8. StoreOK' /\ Keeps(Runs \ {a})
  BY <1>1, <1>3 DEF ColdInv, StoreOK, Keeps, Sessions
<1> QED BY <1>1, <1>3, <1>5, <1>6, <1>7, <1>8, ColdStep

LEMMA GroupFailsCold ==
    ASSUME ColdInv, ChainInv, NEW a \in Runs, GroupFails(a)
    PROVE  ColdInv' /\ ChainInv' /\ UNCHANGED <<s3, now>>
<1>1. /\ run[a].pc \in Archiving /\ run' = [run EXCEPT ![a] = NextGroup(a)]
      /\ UndoRows(a) /\ marked' = [marked EXCEPT ![a] = {}]
      /\ UNCHANGED <<stamped, store, s3, now>>
  BY DEF GroupFails, Undo, Archiving
<1>2. ChainInv' /\ Keeps(Sessions \ {a})
  BY <1>1, UndoKeeps DEF Sessions
<1>3. /\ RunTypes' /\ RunOK(a)'
      /\ \A b \in Runs \ {a} : run'[b] = run[b] /\ marked'[b] = marked[b]
  BY <1>1, LeaveGroup DEF ChainInv
<1>4. StoreOK' /\ StampedOK' /\ Keeps(Runs \ {a})
  BY <1>1, <1>2 DEF ColdInv, StoreOK, StampedOK, Keeps, Sessions
<1> QED BY <1>1, <1>2, <1>3, <1>4, ColdStep

LEMMA CrashCold ==
    ASSUME ColdInv, ChainInv, NEW a \in Runs, Crash(a)
    PROVE  ColdInv' /\ ChainInv' /\ UNCHANGED <<s3, now>>
<1>1. /\ run' = [run EXCEPT ![a] = Idle]
      /\ UndoRows(a) /\ marked' = [marked EXCEPT ![a] = {}]
      /\ UNCHANGED <<stamped, store, s3, now>>
  BY DEF Crash, Undo
<1>2. ChainInv' /\ Keeps(Sessions \ {a})
  BY <1>1, UndoKeeps DEF Sessions
<1>3. /\ RunTypes' /\ run'[a] = Idle /\ marked'[a] = {}
      /\ \A b \in Runs \ {a} : run'[b] = run[b] /\ marked'[b] = marked[b]
  BY <1>1, IdleIs DEF ColdInv, RunTypes
<1>4. RunOK(a)'
  BY <1>3, IdleIs DEF RunOK, Archiving
<1>5. StoreOK' /\ StampedOK' /\ Keeps(Runs \ {a})
  BY <1>1, <1>2 DEF ColdInv, StoreOK, StampedOK, Keeps, Sessions
<1> QED BY <1>1, <1>2, <1>3, <1>4, <1>5, ColdStep

-----------------------------------------------------------------------------
(* The theorems.                                                           *)

LEMMA InitAInv == Init => AInv
<1> SUFFICES ASSUME Init PROVE AInv
  OBVIOUS
<1> USE DEF Init
<1>1. /\ DOMAIN log = Old /\ Committed = Old
      /\ \A i \in Old : log[i] = [of |-> History[i].of, prev |-> i - 1, tier |-> History[i].tier,
                                 at |-> History[i].at, key |-> NoKey, seenBy |-> Everything]
  BY DEF Old, Committed
<1>2. Old = 1..Len(History) /\ Len(History) \in Nat
  BY HistoryAssumption, LenProperties DEF Old
<1>3. DOMAIN store = {}
  OBVIOUS
<1>4. ChainTypes
  <2>1. \A i \in Old : log[i] \in [of : Scopes, prev : Nat, tier : {"free", "pro", NoTier},
                      at : Int, key : {NoKey} \union DOMAIN store, seenBy : Views]
    BY <1>1, BeforeIsOrder DEF Views
  <2>2. log \in [Old -> [of : Scopes, prev : Nat, tier : {"free", "pro", NoTier},
                      at : Int, key : {NoKey} \union DOMAIN store, seenBy : Views]]
    BY <2>1 DEF Old
  <2> QED BY <2>2, <1>1, BeforeIsOrder DEF ChainTypes, Genesis
<1>5. LockOK
  BY DEF LockOK
<1>6. LogOK
  <2>1. ASSUME NEW i \in Old PROVE log[i].prev = Highest(InView(i))
    <3>1. InView(i) = {j \in Old : j < i}
      BY <1>1 DEF InView, Sees
    <3>2. IsFiniteSet(InView(i)) /\ InView(i) \subseteq Nat
      BY <3>1, BeforeIsOrder, FS_Subset
    <3>3. i - 1 \in InView(i) \union {Genesis} /\ \A j \in InView(i) : j <= i - 1
      BY <3>1, <1>2 DEF Genesis
    <3> QED BY <3>2, <3>3, <1>1, HighestUnique
  <2> QED BY <2>1, <1>1 DEF LogOK
<1>7. HistoryOK
  BY <1>1 DEF HistoryOK
<1>8. ColdInv
  <2>1. RunTypes /\ \A a \in Runs : RunOK(a)
    BY IdleIs DEF RunTypes, RunOK, Archiving
  <2> QED BY <2>1, <1>3 DEF ColdInv, StoreOK, StampedOK, ColdIsFindable
<1>9. Clocks
  BY NumberAssumption DEF Clocks
<1> QED BY <1>4, <1>5, <1>6, <1>7, <1>8, <1>9 DEF AInv, ChainInv

LEMMA WriterKeepsAInv ==
    ASSUME AInv, NEW w \in Writers, WriterStep(w) \/ Rollback(w)
    PROVE  ChainInv' /\ ColdInv' /\ UNCHANGED <<s3, now>> /\ faults' \in 0..MaxFaults
<1>1. w \in Sessions /\ Runs \subseteq Sessions \ {w} /\ Runs \subseteq Sessions
  BY ActorAssumption DEF Sessions
<1>2. ChainInv /\ ColdInv /\ faults \in 0..MaxFaults
  BY DEF AInv, Clocks
<1>3. \A T : Keeps(T) /\ Runs \subseteq T => Keeps(Runs)
  BY DEF Keeps
<1>4. ASSUME NEW v \in Scopes, WantRecord(w, v) PROVE ChainInv' /\ ColdInv' /\ UNCHANGED <<s3, now, faults>>
  <2>1. ChainInv' /\ Keeps(Sessions) /\ UNCHANGED <<cold, s3, now, faults>>
    BY <1>1, <1>2, <1>4, TakeLockKeeps DEF WantRecord, Views
  <2> QED BY <2>1, <1>1, <1>2, <1>3, ColdKept
<1>5. CASE ReadTail(w)
  <2>1. ChainInv' /\ Keeps(Sessions) /\ UNCHANGED <<cold, s3, now, faults>>
    BY <1>1, <1>2, <1>5, ReadTailKeeps
  <2> QED BY <2>1, <1>1, <1>2, <1>3, ColdKept
<1>6. ASSUME NEW scope \in Scopes, Record(w, scope) PROVE ChainInv' /\ ColdInv' /\ UNCHANGED <<s3, now, faults>>
  <2>1. /\ ChainInv' /\ Keeps(Sessions \ {w})
        /\ UNCHANGED <<stamped, store, s3, now, faults>>
    BY <1>1, <1>2, <1>6, InsertKeeps DEF Record
  <2>2. UNCHANGED cold
    BY <2>1, <1>6 DEF Record, cold
  <2> QED BY <2>1, <2>2, <1>1, <1>2, <1>3, ColdKept
<1>7. CASE Commit(w)
  <2>1. CommitRows(w) /\ UNCHANGED <<cold, s3, now, faults>>
    BY <1>7 DEF Commit
  <2>2. ChainInv' /\ Keeps(Sessions \ {w})
    BY <2>1, <1>1, <1>2, CommitKeeps DEF cold
  <2> QED BY <2>1, <2>2, <1>1, <1>2, <1>3, ColdKept
<1>8. CASE Rollback(w)
  <2>1. UndoRows(w) /\ Fault /\ UNCHANGED <<cold, s3, now>>
    BY <1>8 DEF Rollback
  <2>2. ChainInv' /\ Keeps(Sessions \ {w})
    BY <2>1, <1>1, <1>2, UndoKeeps DEF cold
  <2>3. faults' \in 0..MaxFaults
    BY <2>1, <1>2, NumberAssumption DEF Fault
  <2> QED BY <2>1, <2>2, <2>3, <1>1, <1>2, <1>3, ColdKept
<1> QED BY <1>2, <1>4, <1>5, <1>6, <1>7, <1>8 DEF WriterStep

LEMMA RunKeepsAInv ==
    ASSUME AInv, NEW a \in Runs, RunStep(a) \/ GroupFails(a) \/ Crash(a)
    PROVE  ChainInv' /\ ColdInv' /\ UNCHANGED <<s3, now>> /\ faults' \in 0..MaxFaults
<1>1. a \in Sessions /\ Everything \in Views
  BY DEF Sessions, Views
<1>2. ChainInv /\ ColdInv /\ HistoryOK /\ Clocks /\ faults \in 0..MaxFaults
  BY DEF AInv, ChainInv, Clocks
<1>3. \A T : Keeps(T) /\ Runs \subseteq T => Keeps(Runs)
  BY DEF Keeps
<1>4. Runs \subseteq Sessions
  BY DEF Sessions
<1>5. ASSUME UNCHANGED <<chain, s3, now, faults>>, DOMAIN store \subseteq DOMAIN store'
      PROVE  ChainInv' /\ Keeps(Runs)
  BY <1>2, <1>3, <1>4, <1>5, ChainKept
<1>6. CASE Start(a)
  <2>1. UNCHANGED <<chain, s3, now, faults>> /\ UNCHANGED store
    BY <1>6 DEF Start
  <2> QED BY <2>1, <1>2, <1>5, <1>6, StartCold
<1>7. CASE Fetch(a)
  <2>1. UNCHANGED <<chain, s3, now, faults>> /\ UNCHANGED store
    BY <1>7 DEF Fetch
  <2> QED BY <2>1, <1>2, <1>5, <1>7, FetchCold
<1>8. CASE PutObject(a)
  <2>1. UNCHANGED <<chain, s3, now, faults>> /\ DOMAIN store \subseteq DOMAIN store'
    BY <1>8 DEF PutObject
  <2> QED BY <2>1, <1>2, <1>5, <1>8, PutObjectCold
<1>9. CASE PutFails(a)
  <2>1. UNCHANGED <<chain, s3, now, faults>> /\ UNCHANGED store
    BY <1>9 DEF PutFails
  <2> QED BY <2>1, <1>2, <1>5, <1>9, PutFailsCold
<1>10. CASE Mark(a)
  <2>1. UNCHANGED <<chain, s3, now, faults>> /\ UNCHANGED store
    BY <1>10 DEF Mark
  <2> QED BY <2>1, <1>2, <1>5, <1>10, MarkCold
<1>11. CASE WantBatchAudit(a)
  <2>1. ChainInv' /\ Keeps(Sessions) /\ UNCHANGED <<cold, s3, now, faults>>
    BY <1>1, <1>2, <1>11, TakeLockKeeps DEF WantBatchAudit
  <2> QED BY <2>1, <1>2, <1>3, <1>4, ColdKept
<1>12. CASE ReadTail(a)
  <2>1. ChainInv' /\ Keeps(Sessions) /\ UNCHANGED <<cold, s3, now, faults>>
    BY <1>1, <1>2, <1>12, ReadTailKeeps
  <2> QED BY <2>1, <1>2, <1>3, <1>4, ColdKept
<1>13. CASE EmitBatchAudit(a)
  BY <1>2, <1>13, EmitCold
<1>14. CASE CommitGroup(a)
  BY <1>2, <1>14, CommitGroupCold
<1>15. Fault => faults' \in 0..MaxFaults
  BY <1>2, NumberAssumption DEF Fault
<1>16. CASE GroupFails(a)
  BY <1>2, <1>15, <1>16, GroupFailsCold DEF GroupFails
<1>17. CASE Crash(a)
  BY <1>2, <1>15, <1>17, CrashCold DEF Crash
<1> QED BY <1>2, <1>6, <1>7, <1>8, <1>9, <1>10, <1>11, <1>12, <1>13, <1>14, <1>16, <1>17 DEF RunStep

LEMMA AInvInductive == AInv /\ [Next]_vars => AInv'
<1> SUFFICES ASSUME AInv, [Next]_vars PROVE AInv'
  OBVIOUS
<1>1. ChainInv /\ ColdInv /\ Clocks
  BY DEF AInv
<1>2. ASSUME UNCHANGED <<chain, cold>> PROVE ChainInv' /\ ColdInv'
  <2>1. ChainInv' /\ Keeps(Sessions)
    BY <1>1, <1>2, ChainKept DEF cold
  <2>2. Keeps(Runs)
    BY <2>1 DEF Keeps, Sessions
  <2> QED BY <2>1, <2>2, <1>1, <1>2, ColdKept
<1>3. CASE \E w \in Writers : WriterStep(w) \/ Rollback(w)
  BY <1>1, <1>3, WriterKeepsAInv DEF AInv, Clocks
<1>4. CASE \E a \in Runs : RunStep(a) \/ GroupFails(a) \/ Crash(a)
  BY <1>1, <1>4, RunKeepsAInv DEF AInv, Clocks
<1>5. CASE Outage \/ Repair \/ Tick
  <2>1. UNCHANGED <<chain, cold>>
    BY <1>5 DEF Outage, Repair, Tick
  <2>2. Clocks'
    BY <1>1, <1>5, NumberAssumption DEF Clocks, Outage, Repair, Tick, Fault
  <2> QED BY <2>1, <2>2, <1>2 DEF AInv
<1>6. CASE UNCHANGED vars
  BY <1>1, <1>2, <1>6 DEF AInv, vars, Clocks
<1> QED BY <1>3, <1>4, <1>5, <1>6 DEF Next

(* Everything that the archive and the chain rest on holds at all times.   *)
THEOREM AuditInvariant == Spec => []AInv
BY InitAInv, AInvInductive, PTL DEF Spec

(* The log is well typed: what is stamped is committed, a row's key is     *)
(* that of an object in the bucket, and only the holder of the advisory    *)
(* lock has rows that are not committed.                                   *)
THEOREM AuditTypes == Spec => []TypeOK
<1>1. AInv => TypeOK
  <2> SUFFICES ASSUME AInv PROVE TypeOK
    OBVIOUS
  <2>1. ChainTypes /\ RunTypes /\ Clocks
    BY DEF AInv, ChainInv, ColdInv
  <2>2. Old \subseteq Committed /\ stamped \subseteq Committed /\ Old \subseteq DOMAIN log
    BY DEF AInv, ChainInv, ColdInv, HistoryOK, StampedOK, Committed
  <2>3. \A s \in Sessions : pending[s] # {} => lock = s
    BY DEF AInv, ChainInv, LockOK
  <2>4. run \in [Runs -> [pc : {"idle", "scan", "group", "stored", "marked", "emitted"},
                         tier : DOMAIN Tiers, cutoff : 0..Horizon,
                         batch : SUBSET DOMAIN log, full : BOOLEAN]]
    BY <2>1, <2>2 DEF RunTypes, RunType, Archiving
  <2> QED BY <2>1, <2>2, <2>3, <2>4 DEF TypeOK, ChainTypes, Clocks
<1> QED BY <1>1, AuditInvariant, PTL

(* A committed row names the last row before it that its writer could see, *)
(* whatever was inserted, rolled back or committed meanwhile; so it names   *)
(* the row with the next-lower id exactly if its writer could see that one. *)
THEOREM ChainedInView == Spec => []PredecessorInView
<1>1. AInv => PredecessorInView
  <2> SUFFICES ASSUME AInv, NEW i \in Committed
               PROVE  /\ log[i].prev = Highest({j \in Committed : j < i /\ Sees(log[i].seenBy, log[j].of)})
                      /\ log[i].prev = NextLower(i) <=> Known(i, NextLower(i))
    BY DEF PredecessorInView
  <2> DEFINE lower == {j \in Committed : j < i}
             seen  == {j \in Committed : j < i /\ Sees(log[i].seenBy, log[j].of)}
  <2>1. ChainTypes /\ LogOK
    BY DEF AInv, ChainInv
  <2>2. ASSUME NEW j \in DOMAIN log, j < i PROVE j \in Committed
    <3> SUFFICES ASSUME NEW s \in Sessions, j \in pending[s] PROVE FALSE
      BY DEF Committed
    <3>1. i < j /\ i \in Nat /\ j \in Nat
      BY <2>1 DEF LogOK, ChainTypes, Committed
    <3> QED BY <3>1, <2>2
  <2>3. InView(i) = seen
    BY <2>2 DEF InView, Committed
  <2>4. i \in DOMAIN log
    BY DEF Committed
  <2>5. log[i].prev = Highest(seen)
    BY <2>1, <2>3, <2>4 DEF LogOK
  <2>6. lower \subseteq DOMAIN log /\ seen \subseteq lower /\ NextLower(i) = Highest(lower)
    BY DEF Committed, NextLower
  <2>7. lower \subseteq Nat \ {Genesis} /\ IsFiniteSet(lower) /\ IsFiniteSet(seen)
    BY <2>1, <2>6, FS_Subset DEF ChainTypes
  <2> HIDE DEF lower
  <2>8. /\ Highest(lower) \in lower \union {Genesis}
        /\ \A j \in lower : j <= Highest(lower)
    BY <2>7, HighestIs
  <2>9. Highest(seen) \in seen \union {Genesis}
    BY <2>6, <2>7, HighestIs
  <2>10. CASE Highest(lower) = Genesis
    <3>1. lower = {}
      BY <2>7, <2>8, <2>10 DEF Genesis
    <3>2. Highest(seen) = Genesis
      BY <3>1, <2>6, <2>9
    <3> QED BY <3>2, <2>5, <2>6, <2>10 DEF Known
  <2>11. CASE Highest(lower) # Genesis /\ Sees(log[i].seenBy, log[Highest(lower)].of)
    <3>1. Highest(lower) \in seen
      BY <2>8, <2>11 DEF lower
    <3>2. \A j \in seen : j <= Highest(lower)
      BY <2>6, <2>8
    <3>3. Highest(seen) = Highest(lower)
      BY <3>1, <3>2, <2>6, <2>7, HighestUnique
    <3> QED BY <3>3, <2>5, <2>6, <2>11 DEF Known
  <2>12. CASE Highest(lower) # Genesis /\ ~Sees(log[i].seenBy, log[Highest(lower)].of)
    <3>1. Highest(lower) \notin seen
      BY <2>12
    <3>2. Highest(seen) # Highest(lower)
      BY <3>1, <2>9, <2>12
    <3> QED BY <3>2, <2>5, <2>6, <2>12 DEF Known
  <2> QED BY <2>5, <2>10, <2>11, <2>12
<1> QED BY <1>1, AuditInvariant, PTL

(* A row stamped as archived is in an object of the bucket, and a committed *)
(* audit row names that object, however runs overlap, fail and are killed.  *)
THEOREM ArchivedIsFindable == Spec => []ColdIsFindable
<1>1. AInv => ColdIsFindable
  BY DEF AInv, ColdInv
<1> QED BY <1>1, AuditInvariant, PTL

\* What an object's name is worth: it is written again only with what it holds.
ObjectsStay == \A k \in DOMAIN store : k \in DOMAIN store' /\ store'[k] = store[k]

(* An object of the cold archive is final: an overlapping run, or one that  *)
(* repeats what a killed one had put, never overwrites it with other rows,  *)
(* so what a forensic walk reads under a key is what was archived under it. *)
THEOREM ObjectsAreFinal == Spec => [][ObjectsStay]_vars
<1>1. AInv /\ AInv' /\ [Next]_vars => ObjectsStay
  <2> SUFFICES ASSUME AInv, AInv', [Next]_vars PROVE ObjectsStay
    OBVIOUS
  <2>1. StoreOK /\ StoreOK'
    BY DEF AInv, ColdInv
  <2>2. DOMAIN store \subseteq DOMAIN store'
    <3>1. CASE \E a \in Runs : PutObject(a)
      BY <3>1 DEF PutObject
    <3>2. CASE ~\E a \in Runs : PutObject(a)
      <4>1. store' = store
        BY <3>2 DEF Next, WriterStep, RunStep, Rollback, GroupFails, Crash, Outage, Repair, Tick,
           WantRecord, TakeLock, ReadTail, Record, Insert, Commit, CommitRows, UndoRows, Undo,
           EndTransaction, Start, Fetch, PutFails, Mark, WantBatchAudit, EmitBatchAudit,
           CommitGroup, vars, cold
      <4> QED BY <4>1
    <3> QED BY <3>1, <3>2
  <2>3. \A k \in DOMAIN store : store'[k] = Stretch(k) /\ store[k] = Stretch(k)
    BY <2>1, <2>2 DEF StoreOK, Stretch
  <2> QED BY <2>2, <2>3 DEF ObjectsStay
<1> QED BY <1>1, AuditInvariant, PTL DEF Spec
=============================================================================
