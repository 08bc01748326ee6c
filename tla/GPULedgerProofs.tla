--------------------------- MODULE GPULedgerProofs ---------------------------
(***************************************************************************)
(* What the operators of GPULedger return and preserve, for every value of *)
(* the constants: the lemmas the proofs about the reconciler cite.         *)
(***************************************************************************)
EXTENDS GPULedger, FiniteSetTheorems, WellFoundedInduction, TLAPS

(* Put and Drop keep a partial map a partial map.                          *)
LEMMA PutIsMapOf ==
    ASSUME NEW S, NEW T, NEW m, IsMapOf(m, S, T), NEW k \in S, NEW v \in T
    PROVE  IsMapOf(Put(m, k, v), S, T)
BY DEF IsMapOf, Put

(* Removing keys from a partial map keeps it a partial map.                *)
LEMMA DropIsMapOf ==
    ASSUME NEW S, NEW T, NEW m, IsMapOf(m, S, T), NEW K
    PROVE  IsMapOf(Drop(m, K), S, T)
BY DEF IsMapOf, Drop

(* The occupancy arithmetic stays in the integers.                         *)
LEMMA HGODeltaType ==
    ASSUME NEW sm \in Int, NEW quota \in Int
    PROVE  HGODelta(sm, quota) \in Int
<1>1. TruncDiv(sm, 100) \in Int
  BY DEF TruncDiv
<1> QED
  BY <1>1 DEF HGODelta, TruncDiv

(* A GPU nobody has booked on is a ledger entry like any other.            *)
LEMMA BareGPUType == IsHASGPUInfo(BareGPU)
BY DEF IsHASGPUInfo, BareGPU, IsMapOf, EmptyMap, NoSM, Row, GPUSMConfigNum

(* Replacing, adding and dropping entries keeps the ledger a ledger.       *)
LEMMA PutIsLedger ==
    ASSUME NEW gpus, IsLedger(gpus), NEW g \in GPUId, NEW info, IsHASGPUInfo(info)
    PROVE  IsLedger(Put(gpus, g, info))
BY DEF IsLedger, Put

(* Removing GPUs keeps the ledger a ledger.                                *)
LEMMA DropIsLedger ==
    ASSUME NEW gpus, IsLedger(gpus), NEW K
    PROVE  IsLedger(Drop(gpus, K))
BY DEF IsLedger, Drop

(* The entry of a GPU, or the bare one, is well formed.                    *)
LEMMA InfoOfType ==
    ASSUME NEW gpus, IsLedger(gpus), NEW g
    PROVE  IsHASGPUInfo(InfoOf(gpus, g))
BY BareGPUType DEF IsLedger, InfoOf

(* A configuration read from an entry is integers, missing ones too.       *)
LEMMA ConfOfType ==
    ASSUME NEW info, IsHASGPUInfo(info), NEW n
    PROVE  ConfOf(info, n) \in HASResConfig
BY DEF IsHASGPUInfo, IsMapOf, ConfOf, HASResConfig

(* An empty or too small choice apart, the least and the greatest row of a *)
(* set of rows are rows.                                                   *)
LEMMA LeastRow ==
    ASSUME NEW S \in SUBSET Row, S # {}
    PROVE  Min(S) \in S /\ \A r \in S : Min(S) <= r
<1>1. S \subseteq {1, 2}
  BY DEF Row, GPUSMConfigNum
<1>2. \E x \in S : \A y \in S : x =< y
  <2>1. CASE 1 \in S
    BY <1>1, <2>1
  <2>2. CASE 1 \notin S
    <3>1. S = {2}
      BY <1>1, <2>2
    <3> QED
      BY <3>1
  <2> QED
    BY <2>1, <2>2
<1> QED
  BY <1>2 DEF Min

(* The greatest row of a set of rows is a row.                             *)
LEMMA GreatestRow ==
    ASSUME NEW S \in SUBSET Row, S # {}
    PROVE  Max(S) \in S /\ \A r \in S : r <= Max(S)
<1>1. S \subseteq {1, 2}
  BY DEF Row, GPUSMConfigNum
<1>2. \E x \in S : \A y \in S : x >= y
  <2>1. CASE 2 \in S
    BY <1>1, <2>1
  <2>2. CASE 2 \notin S
    <3>1. S = {1}
      BY <1>1, <2>2
    <3> QED
      BY <3>1
  <2> QED
    BY <2>1, <2>2
<1>3. Max(S) \in S /\ \A y \in S : Max(S) >= y
  BY <1>2 DEF Max
<1> QED
  BY <1>1, <1>3

(* The row an adopted pod is booked in is a row.                           *)
LEMMA GreatestOrFirstRow ==
    ASSUME NEW S \in SUBSET Row
    PROVE  (IF S = {} THEN 1 ELSE Max(S)) \in Row
<1>1. 1 \in Row
  BY DEF Row, GPUSMConfigNum
<1> QED
  BY <1>1, GreatestRow

(* The partition a pod gets in a row is an integer.                        *)
LEMMA EffectiveSMType ==
    ASSUME NEW info, IsHASGPUInfo(info), NEW r \in Row, NEW sm \in Int
    PROVE  EffectiveSM(info, r, sm) \in Int
BY DEF IsHASGPUInfo, EffectiveSM

(* Booking a pod.                                                          *)
LEMMA OneMoreType ==
    ASSUME NEW row, IsMapOf(row, Name, Nat), NEW n \in Name
    PROVE  IsMapOf(OneMore(row, n), Name, Nat)
<1>1. (IF n \in DOMAIN row THEN row[n] + 1 ELSE 1) \in Nat
  BY DEF IsMapOf
<1> QED
  BY <1>1, PutIsMapOf DEF OneMore

(* addPodtoHASGPU keeps the ledger a ledger.                               *)
LEMMA AddPodIsLedger ==
    ASSUME NEW gpus, IsLedger(gpus), NEW g \in GPUId, NEW n \in Name,
           NEW sm \in Int, NEW quota \in Int, NEW r \in Row
    PROVE  /\ IsLedger(addPodtoHASGPU(gpus, g, n, sm, quota, r))
           /\ DOMAIN addPodtoHASGPU(gpus, g, n, sm, quota, r) = DOMAIN gpus \cup {g}
<1> DEFINE info == InfoOf(gpus, g)
           esm  == EffectiveSM(info, r, sm)
           new  == [alloc |-> TRUE,
                    sm    |-> [info.sm EXCEPT ![r] = esm],
                    rows  |-> [info.rows EXCEPT ![r] = OneMore(@, n)],
                    conf  |-> Put(info.conf, n, [sm |-> esm, quota |-> quota]),
                    hgo   |-> info.hgo + HGODelta(esm, quota)]
<1>1. IsHASGPUInfo(info)
  BY InfoOfType
<1>2. esm \in Int
  BY <1>1, EffectiveSMType
<1> HIDE DEF info, esm
<1>3. new.sm \in [Row -> Int]
  BY <1>1, <1>2 DEF IsHASGPUInfo
<1>4. /\ new.rows = [s \in Row |-> new.rows[s]]
      /\ \A s \in Row : IsMapOf(new.rows[s], Name, Nat)
  BY <1>1, OneMoreType DEF IsHASGPUInfo
<1>5. IsMapOf(new.conf, Name, HASResConfig)
  <2>1. [sm |-> esm, quota |-> quota] \in HASResConfig
    BY <1>2 DEF HASResConfig
  <2>2. IsMapOf(info.conf, Name, HASResConfig)
    BY <1>1 DEF IsHASGPUInfo
  <2> QED
    BY <2>1, <2>2, PutIsMapOf
<1>6. new.hgo \in Int
  BY <1>1, <1>2, HGODeltaType DEF IsHASGPUInfo
<1>7. IsHASGPUInfo(new)
  BY <1>3, <1>4, <1>5, <1>6 DEF IsHASGPUInfo
<1>8. addPodtoHASGPU(gpus, g, n, sm, quota, r) = Put(gpus, g, new)
  BY DEF addPodtoHASGPU, info, esm
<1> HIDE DEF new
<1> QED
  BY <1>7, <1>8, PutIsLedger DEF Put

(* Giving partitions to unused rows.                                       *)
LEMMA UpdateSMConfigType ==
    ASSUME NEW info, IsHASGPUInfo(info), NEW R, NEW sm \in Int
    PROVE  IsHASGPUInfo(updateSMConfigForGPU(info, R, sm))
BY DEF IsHASGPUInfo, updateSMConfigForGPU

(* Booking another quota.                                                  *)
LEMMA SetQuotaIsLedger ==
    ASSUME NEW gpus, IsLedger(gpus), NEW g \in DOMAIN gpus, NEW n \in Name, NEW quota \in Int
    PROVE  /\ IsLedger(SetQuota(gpus, g, n, quota))
           /\ DOMAIN SetQuota(gpus, g, n, quota) = DOMAIN gpus
<1> DEFINE info == gpus[g]
           old  == ConfOf(info, n)
           new  == Rebooked(info, info.rows, Put(info.conf, n, [sm |-> old.sm, quota |-> quota]),
                            info.hgo + HGODelta(old.sm, quota - old.quota))
<1>1. IsHASGPUInfo(info)
  BY DEF IsLedger
<1>2. old.sm \in Int /\ old.quota \in Int
  BY <1>1, ConfOfType DEF HASResConfig
<1>3. SetQuota(gpus, g, n, quota) = Put(gpus, g, new)
  BY DEF SetQuota
<1> HIDE DEF info, old
<1>4. HGODelta(old.sm, quota - old.quota) \in Int
  <2>1. quota - old.quota \in Int
    BY <1>2
  <2> QED
    BY <1>2, <2>1, HGODeltaType
<1>5. IsMapOf(Put(info.conf, n, [sm |-> old.sm, quota |-> quota]), Name, HASResConfig)
  <2>1. [sm |-> old.sm, quota |-> quota] \in HASResConfig
    BY <1>2 DEF HASResConfig
  <2>2. IsMapOf(info.conf, Name, HASResConfig)
    BY <1>1 DEF IsHASGPUInfo
  <2> QED
    BY <2>1, <2>2, PutIsMapOf
<1>6. IsHASGPUInfo(new)
  BY <1>1, <1>4, <1>5 DEF IsHASGPUInfo, Rebooked
<1>7. g \in GPUId
  BY DEF IsLedger
<1> HIDE DEF new
<1> QED
  BY <1>3, <1>6, <1>7, PutIsLedger DEF Put

(* Taking a pod out of its row.                                            *)
LEMMA RemovePodIsLedger ==
    ASSUME NEW gpus, IsLedger(gpus), NEW g \in DOMAIN gpus, NEW n
    PROVE  /\ IsLedger(RemovePod(gpus, g, n))
           /\ DOMAIN RemovePod(gpus, g, n) = DOMAIN gpus
<1> DEFINE info == gpus[g]
           r    == Min(RowsOf(info, n))
           old  == ConfOf(info, n)
           new  == Rebooked(info, [info.rows EXCEPT ![r] = Drop(@, {n})], Drop(info.conf, {n}),
                            info.hgo - HGODelta(old.sm, old.quota))
<1>1. CASE RowsOf(info, n) = {}
  BY <1>1 DEF RemovePod
<1>2. CASE RowsOf(info, n) # {}
  <2>1. IsHASGPUInfo(info)
    BY DEF IsLedger
  <2>2. r \in Row
    BY <1>2, LeastRow DEF RowsOf
  <2>3. HGODelta(old.sm, old.quota) \in Int
    BY <2>1, ConfOfType, HGODeltaType DEF HASResConfig
  <2>4. RemovePod(gpus, g, n) = Put(gpus, g, new)
    BY <1>2 DEF RemovePod
  <2> HIDE DEF info, r, old
  <2>5. IsMapOf(Drop(info.conf, {n}), Name, HASResConfig)
    BY <2>1, DropIsMapOf DEF IsHASGPUInfo
  <2>6. IsMapOf(Drop(info.rows[r], {n}), Name, Nat)
    BY <2>1, <2>2, DropIsMapOf DEF IsHASGPUInfo
  <2>7. IsHASGPUInfo(new)
    BY <2>1, <2>2, <2>3, <2>5, <2>6 DEF IsHASGPUInfo, Rebooked
  <2>8. g \in GPUId
    BY DEF IsLedger
  <2> HIDE DEF new
  <2> QED
    BY <2>4, <2>7, <2>8, PutIsLedger DEF Put
<1> QED
  BY <1>1, <1>2

(* The row the autoscaler books in is a row.                               *)
LEMMA OptimalRowIsRow ==
    ASSUME NEW info, NEW sm, NEW r \in FindOptimalRowIdx(info, sm)
    PROVE  r \in Row
BY DEF FindOptimalRowIdx, Row, GPUSMConfigNum

-----------------------------------------------------------------------------
(* No operation on the ledger repartitions a row in use.                   *)
LEMMA RowsKeptTransitive ==
    ASSUME NEW a, NEW b, NEW c, RowsKept(a, b), RowsKept(b, c), DOMAIN a \subseteq DOMAIN b
    PROVE  RowsKept(a, c)
BY DEF RowsKept

(* Removing GPUs repartitions no row.                                      *)
LEMMA DropKeepsRows ==
    ASSUME NEW gpus, NEW K
    PROVE  RowsKept(gpus, Drop(gpus, K))
BY DEF RowsKept, Drop

(* An entry that keeps its own rows keeps those of the ledger.             *)
LEMMA PutKeepsRows ==
    ASSUME NEW gpus, NEW g, NEW info,
           \A r \in Row : InfoOf(gpus, g).sm[r] > 0 => info.sm[r] = InfoOf(gpus, g).sm[r]
    PROVE  RowsKept(gpus, Put(gpus, g, info))
BY DEF RowsKept, Put, InfoOf

(* addPodtoHASGPU gives a partition only to a row without one.             *)
LEMMA AddPodKeepsRows ==
    ASSUME NEW gpus, IsLedger(gpus), NEW g, NEW n, NEW sm, NEW quota, NEW r \in Row
    PROVE  RowsKept(gpus, addPodtoHASGPU(gpus, g, n, sm, quota, r))
<1> DEFINE info == InfoOf(gpus, g)
           esm  == EffectiveSM(info, r, sm)
           new  == [alloc |-> TRUE,
                    sm    |-> [info.sm EXCEPT ![r] = esm],
                    rows  |-> [info.rows EXCEPT ![r] = OneMore(@, n)],
                    conf  |-> Put(info.conf, n, [sm |-> esm, quota |-> quota]),
                    hgo   |-> info.hgo + HGODelta(esm, quota)]
<1>1. info.sm \in [Row -> Int]
  BY InfoOfType DEF IsHASGPUInfo
<1>2. \A s \in Row : info.sm[s] > 0 => new.sm[s] = info.sm[s]
  BY <1>1 DEF EffectiveSM, NoSM
<1>3. addPodtoHASGPU(gpus, g, n, sm, quota, r) = Put(gpus, g, new)
  BY DEF addPodtoHASGPU
<1> HIDE DEF new
<1> QED
  BY <1>2, <1>3, PutKeepsRows

(* updateSMConfigForGPU gives partitions only to rows without one.         *)
LEMMA ClaimKeepsRows ==
    ASSUME NEW gpus, IsLedger(gpus), NEW g \in DOMAIN gpus, NEW R, NEW sm
    PROVE  RowsKept(gpus, Put(gpus, g, updateSMConfigForGPU(gpus[g], R, sm)))
<1> DEFINE new == updateSMConfigForGPU(gpus[g], R, sm)
<1>1. IsHASGPUInfo(gpus[g]) /\ InfoOf(gpus, g) = gpus[g]
  BY DEF IsLedger, InfoOf
<1>2. \A s \in Row : gpus[g].sm[s] > 0 => new.sm[s] = gpus[g].sm[s]
  BY <1>1 DEF IsHASGPUInfo, updateSMConfigForGPU
<1> HIDE DEF new
<1>3. RowsKept(gpus, Put(gpus, g, new))
  BY <1>1, <1>2, PutKeepsRows
<1> QED
  BY <1>3 DEF new

(* Booking another quota repartitions no row.                              *)
LEMMA SetQuotaKeepsRows ==
    ASSUME NEW gpus, NEW g \in DOMAIN gpus, NEW n, NEW quota
    PROVE  RowsKept(gpus, SetQuota(gpus, g, n, quota))
BY DEF RowsKept, Put, SetQuota, Rebooked

(* Taking a pod out of its row repartitions no row.                        *)
LEMMA RemovePodKeepsRows ==
    ASSUME NEW gpus, NEW g \in DOMAIN gpus, NEW n
    PROVE  RowsKept(gpus, RemovePod(gpus, g, n))
BY DEF RowsKept, Put, RemovePod, Rebooked

-----------------------------------------------------------------------------
(* Sums.  SumFunctionOnSet takes the elements of a set one after the other *)
(* in the order of CHOOSE; the lemmas below say that the order does not    *)
(* matter.  They are proved by induction on how many elements there are,   *)
(* and the induction is made of the least element of a set of numbers.     *)

(* A set of numbers with 0 and every successor has them all.               *)
LEMMA SetInduction ==
    ASSUME NEW T \in SUBSET Nat, 0 \in T, \A n \in T : n + 1 \in T
    PROVE  T = Nat
<1> DEFINE U == Nat \ T
           R == OpToRel(<, Nat)
<1> SUFFICES ASSUME U # {} PROVE FALSE
  OBVIOUS
<1>1. IsWellFoundedOn(R, Nat)
  BY NatLessThanWellFounded
<1>2. PICK x \in U : \A y \in U : ~(<<y, x>> \in R)
  <2> HIDE DEF R
  <2> QED
    BY <1>1, WFMin
<1>3. x \in Nat /\ x # 0
  OBVIOUS
<1>4. x - 1 \in U
  BY <1>3
<1>5. <<x - 1, x>> \in R
  BY <1>3 DEF OpToRel
<1> QED
  BY <1>2, <1>4, <1>5

(* What the fold takes next, and the function it computes on the subsets.  *)
Chosen(s) == CHOOSE x \in s : TRUE

FoldStep(h, f, s) == IF s = {} THEN 0 ELSE f[Chosen(s)] + h[s \ {Chosen(s)}]

IsSum(h, f, S) == h = [s \in SUBSET S |-> FoldStep(h, f, s)]

(* SumFunctionOnSet is the value of such a function at the whole set.      *)
LEMMA SumIsFold ==
    ASSUME NEW f, NEW S
    PROVE  SumFunctionOnSet(f, S) = (CHOOSE h : IsSum(h, f, S))[S]
BY DEF SumFunctionOnSet, FoldFunctionOnSet, MapThenFoldSet, IsSum, FoldStep, Chosen

(* The integers that f gives to the elements of S.                         *)
Summable(f, S) == IsFiniteSet(S) /\ \A i \in S : f[i] \in Int

(* One element less.                                                       *)
LEMMA SmallerSets ==
    ASSUME NEW S, IsFiniteSet(S), NEW s \in SUBSET S, NEW x \in s
    PROVE  /\ IsFiniteSet(s) /\ IsFiniteSet(s \ {x}) /\ s \ {x} \in SUBSET S
           /\ Cardinality(s) \in Nat /\ Cardinality(s) > 0
           /\ Cardinality(s \ {x}) \in Nat /\ Cardinality(s \ {x}) = Cardinality(s) - 1
<1>1. IsFiniteSet(s)
  BY FS_Subset
<1>2. IsFiniteSet(s \ {x}) /\ Cardinality(s \ {x}) = Cardinality(s) - 1
  BY <1>1, FS_RemoveElement
<1>3. Cardinality(s) \in Nat /\ Cardinality(s \ {x}) \in Nat
  BY <1>1, <1>2, FS_CardinalityType
<1> QED
  BY <1>1, <1>2, <1>3

(* The fold takes an element of the set.                                   *)
LEMMA ChosenIsIn ==
    ASSUME NEW s, s # {}
    PROVE  Chosen(s) \in s
BY DEF Chosen

(* A function that is right on all subsets of at most n elements.          *)
RightUpTo(h, f, S, n) ==
    /\ h \in [SUBSET S -> Int]
    /\ \A s \in SUBSET S : Cardinality(s) <= n => h[s] = FoldStep(h, f, s)

(* There is a function that the fold describes.                            *)
LEMMA SumExists ==
    ASSUME NEW f, NEW S, Summable(f, S)
    PROVE  \E h \in [SUBSET S -> Int] : IsSum(h, f, S)
<1> DEFINE T == {n \in Nat : \E h : RightUpTo(h, f, S, n)}
<1>1. \A s \in SUBSET S : IsFiniteSet(s) /\ Cardinality(s) \in Nat
  BY FS_Subset, FS_CardinalityType DEF Summable
<1>2. 0 \in T
  <2> DEFINE h == [s \in SUBSET S |-> 0]
  <2>1. h \in [SUBSET S -> Int]
    OBVIOUS
  <2>2. ASSUME NEW s \in SUBSET S, Cardinality(s) <= 0
        PROVE  h[s] = FoldStep(h, f, s)
    <3>1. s = {}
      BY <1>1, <2>2, FS_EmptySet
    <3> QED
      BY <3>1 DEF FoldStep
  <2>3. RightUpTo(h, f, S, 0)
    BY <2>1, <2>2 DEF RightUpTo
  <2> QED
    BY <2>3
<1>3. ASSUME NEW n \in T PROVE n + 1 \in T
  <2>1. n \in Nat /\ n + 1 \in Nat
    OBVIOUS
  <2>2. PICK h : RightUpTo(h, f, S, n)
    OBVIOUS
  <2> DEFINE k == [s \in SUBSET S |-> FoldStep(h, f, s)]
  <2>3. h \in [SUBSET S -> Int]
    BY <2>2 DEF RightUpTo
  <2>4. k \in [SUBSET S -> Int]
    <3>1. ASSUME NEW s \in SUBSET S PROVE FoldStep(h, f, s) \in Int
      <4>1. CASE s = {}
        BY <4>1 DEF FoldStep
      <4>2. CASE s # {}
        <5>1. Chosen(s) \in s
          BY <4>2, ChosenIsIn
        <5>2. f[Chosen(s)] \in Int /\ s \ {Chosen(s)} \in SUBSET S
          BY <5>1 DEF Summable
        <5>3. h[s \ {Chosen(s)}] \in Int
          BY <2>3, <5>2
        <5> QED
          BY <4>2, <5>2, <5>3 DEF FoldStep
      <4> QED
        BY <4>1, <4>2
    <3> QED
      BY <3>1
  <2>5. ASSUME NEW s \in SUBSET S, Cardinality(s) <= n + 1
        PROVE  k[s] = FoldStep(k, f, s)
    <3>1. CASE s = {}
      BY <3>1 DEF FoldStep
    <3>2. CASE s # {}
      <4> DEFINE t == s \ {Chosen(s)}
      <4>1. Chosen(s) \in s
        BY <3>2, ChosenIsIn
      <4>2. t \in SUBSET S /\ Cardinality(t) = Cardinality(s) - 1
        BY <4>1, SmallerSets DEF Summable
      <4>3. Cardinality(t) <= n
        BY <1>1, <2>1, <2>5, <4>2
      <4>4. h[t] = FoldStep(h, f, t)
        BY <2>2, <4>2, <4>3 DEF RightUpTo
      <4>5. k[t] = h[t]
        BY <4>2, <4>4
      <4>6. k[s] = f[Chosen(s)] + h[t]
        BY <3>2 DEF FoldStep
      <4> QED
        BY <3>2, <4>5, <4>6 DEF FoldStep
    <3> QED
      BY <3>1, <3>2
  <2>6. RightUpTo(k, f, S, n + 1)
    BY <2>4, <2>5 DEF RightUpTo
  <2> QED
    BY <2>1, <2>6
<1>4. T = Nat
  <2> HIDE DEF T
  <2>1. T \in SUBSET Nat
    BY DEF T
  <2> QED
    BY <1>2, <1>3, <2>1, SetInduction
<1>5. Cardinality(S) \in Nat
  BY <1>1
<1>6. PICK h : RightUpTo(h, f, S, Cardinality(S))
  BY <1>4, <1>5
<1>7. ASSUME NEW s \in SUBSET S PROVE h[s] = FoldStep(h, f, s)
  <2>1. Cardinality(s) <= Cardinality(S)
    BY FS_Subset DEF Summable
  <2> QED
    BY <1>6, <2>1 DEF RightUpTo
<1>8. h \in [SUBSET S -> Int]
  BY <1>6 DEF RightUpTo
<1>9. h = [s \in SUBSET S |-> h[s]]
  BY <1>8
<1>10. IsSum(h, f, S)
  BY <1>7, <1>9 DEF IsSum
<1> QED
  BY <1>8, <1>10

(* Such a function takes the chosen element.                               *)
LEMMA SumSteps ==
    ASSUME NEW h, NEW f, NEW S, IsSum(h, f, S), NEW s \in SUBSET S
    PROVE  /\ s = {} => h[s] = 0
           /\ s # {} => h[s] = f[Chosen(s)] + h[s \ {Chosen(s)}]
BY DEF IsSum, FoldStep

(* A sum of integers is an integer.                                        *)
LEMMA SumIsInteger ==
    ASSUME NEW h, NEW f, NEW S, IsSum(h, f, S), Summable(f, S), NEW s \in SUBSET S
    PROVE  h[s] \in Int
<1> DEFINE T == {n \in Nat : \A t \in SUBSET S : Cardinality(t) = n => h[t] \in Int}
<1>1. \A t \in SUBSET S : IsFiniteSet(t) /\ Cardinality(t) \in Nat
  BY FS_Subset, FS_CardinalityType DEF Summable
<1>2. 0 \in T
  <2>1. SUFFICES ASSUME NEW t \in SUBSET S, Cardinality(t) = 0 PROVE h[t] \in Int
    OBVIOUS
  <2>2. t = {}
    BY <1>1, <2>1, FS_EmptySet
  <2>3. h[t] = 0
    BY <2>2, SumSteps
  <2> QED
    BY <2>3
<1>3. ASSUME NEW n \in T PROVE n + 1 \in T
  <2>1. SUFFICES ASSUME NEW t \in SUBSET S, Cardinality(t) = n + 1
                 PROVE  h[t] \in Int
    OBVIOUS
  <2>2. t # {}
    BY <1>1, <2>1, FS_EmptySet
  <2>3. Chosen(t) \in t
    BY <2>2, ChosenIsIn
  <2>4. t \ {Chosen(t)} \in SUBSET S /\ Cardinality(t \ {Chosen(t)}) = Cardinality(t) - 1
    BY <2>3, SmallerSets DEF Summable
  <2>5. h[t \ {Chosen(t)}] \in Int
    BY <2>1, <2>4
  <2>6. f[Chosen(t)] \in Int
    BY <2>3 DEF Summable
  <2> QED
    BY <2>2, <2>5, <2>6, SumSteps
<1>4. T = Nat
  <2> HIDE DEF T
  <2>1. T \in SUBSET Nat
    BY DEF T
  <2> QED
    BY <1>2, <1>3, <2>1, SetInduction
<1> QED
  BY <1>1, <1>4

(* Whichever element is taken first, the sum is the same.                  *)
LEMMA SumTakesAny ==
    ASSUME NEW h, NEW f, NEW S, IsSum(h, f, S), Summable(f, S),
           NEW s \in SUBSET S, NEW x \in s
    PROVE  h[s] = f[x] + h[s \ {x}]
<1> DEFINE T == {n \in Nat : \A t \in SUBSET S : Cardinality(t) = n =>
                                \A y \in t : h[t] = f[y] + h[t \ {y}]}
<1>1. \A t \in SUBSET S : IsFiniteSet(t) /\ Cardinality(t) \in Nat
  BY FS_Subset, FS_CardinalityType DEF Summable
<1>2. 0 \in T
  BY <1>1, FS_EmptySet
<1>3. ASSUME NEW n \in T PROVE n + 1 \in T
  <2>1. SUFFICES ASSUME NEW t \in SUBSET S, Cardinality(t) = n + 1, NEW y \in t
                 PROVE  h[t] = f[y] + h[t \ {y}]
    OBVIOUS
  <2> DEFINE c == Chosen(t)
  <2>2. c \in t
    BY <2>1, ChosenIsIn
  <2> HIDE DEF c
  <2>3. h[t] = f[c] + h[t \ {c}]
    BY <2>2, SumSteps DEF c
  <2>4. CASE y = c
    BY <2>3, <2>4
  <2>5. CASE y # c
    <3>1. /\ t \ {c} \in SUBSET S /\ Cardinality(t \ {c}) = n /\ y \in t \ {c}
          /\ t \ {y} \in SUBSET S /\ Cardinality(t \ {y}) = n /\ c \in t \ {y}
      BY <1>1, <2>1, <2>2, <2>5, SmallerSets DEF Summable
    <3> DEFINE rest == h[(t \ {c}) \ {y}]
    <3>2. h[t \ {c}] = f[y] + rest
      BY <3>1
    <3>3. (t \ {y}) \ {c} = (t \ {c}) \ {y} /\ (t \ {c}) \ {y} \in SUBSET S
      OBVIOUS
    <3>4. h[t \ {y}] = f[c] + h[(t \ {y}) \ {c}]
      BY <3>1
    <3>5. h[t \ {y}] = f[c] + rest
      BY <3>3, <3>4
    <3>6. rest \in Int
      BY <3>3, SumIsInteger
    <3>7. f[c] \in Int /\ f[y] \in Int
      BY <2>1, <2>2 DEF Summable
    <3> HIDE DEF rest
    <3>8. h[t] = f[c] + (f[y] + rest)
      BY <2>3, <3>2
    <3> QED
      BY <3>5, <3>6, <3>7, <3>8
  <2> QED
    BY <2>4, <2>5
<1>4. T = Nat
  <2> HIDE DEF T
  <2>1. T \in SUBSET Nat
    BY DEF T
  <2> QED
    BY <1>2, <1>3, <2>1, SetInduction
<1> QED
  BY <1>1, <1>4


(* Two sums of the same numbers over the same elements are equal.          *)
LEMMA SumsAgree ==
    ASSUME NEW h, NEW f, NEW S, IsSum(h, f, S), NEW k, NEW g, NEW U, IsSum(k, g, U),
           Summable(f, S), NEW s \in SUBSET S, s \subseteq U, \A i \in s : f[i] = g[i]
    PROVE  h[s] = k[s]
<1> DEFINE T == {n \in Nat : \A t \in SUBSET s : Cardinality(t) = n => h[t] = k[t]}
<1>1. \A t \in SUBSET s : IsFiniteSet(t) /\ Cardinality(t) \in Nat
  BY FS_Subset, FS_CardinalityType DEF Summable
<1>2. 0 \in T
  <2>1. SUFFICES ASSUME NEW t \in SUBSET s, Cardinality(t) = 0 PROVE h[t] = k[t]
    OBVIOUS
  <2>2. t = {} /\ t \in SUBSET S /\ t \in SUBSET U
    BY <1>1, <2>1, FS_EmptySet
  <2>3. h[t] = 0
    BY <2>2, SumSteps
  <2>4. k[t] = 0
    BY <2>2, SumSteps
  <2> QED
    BY <2>3, <2>4
<1>3. ASSUME NEW n \in T PROVE n + 1 \in T
  <2>1. SUFFICES ASSUME NEW t \in SUBSET s, Cardinality(t) = n + 1 PROVE h[t] = k[t]
    OBVIOUS
  <2> DEFINE c == Chosen(t)
  <2>2. t # {} /\ t \in SUBSET S /\ t \in SUBSET U
    BY <1>1, <2>1, FS_EmptySet
  <2>3. c \in t
    BY <2>2, ChosenIsIn
  <2>4. t \ {c} \in SUBSET s /\ Cardinality(t \ {c}) = n
    BY <1>1, <2>1, <2>2, <2>3, SmallerSets DEF Summable
  <2>5. h[t \ {c}] = k[t \ {c}]
    BY <2>4
  <2>6. h[t] = f[c] + h[t \ {c}]
    BY <2>2, SumSteps
  <2>7. k[t] = g[c] + k[t \ {c}]
    BY <2>2, SumSteps
  <2> QED
    BY <2>3, <2>5, <2>6, <2>7
<1>4. T = Nat
  <2> HIDE DEF T
  <2>1. T \in SUBSET Nat
    BY DEF T
  <2> QED
    BY <1>2, <1>3, <2>1, SetInduction
<1> QED
  BY <1>1, <1>4

(* What SumFunctionOnSet gives is the value of such a function.            *)
LEMMA SumOnSet ==
    ASSUME NEW f, NEW S, Summable(f, S)
    PROVE  \E h : IsSum(h, f, S) /\ SumFunctionOnSet(f, S) = h[S]
<1>1. \E h : IsSum(h, f, S)
  BY SumExists
<1>2. IsSum(CHOOSE h : IsSum(h, f, S), f, S)
  BY <1>1
<1> QED
  BY <1>2, SumIsFold

(* The sum over no elements is 0.                                          *)
LEMMA SumOfNone ==
    ASSUME NEW f
    PROVE  SumFunctionOnSet(f, {}) = 0
<1>1. Summable(f, {})
  BY FS_EmptySet DEF Summable
<1>2. PICK h : IsSum(h, f, {}) /\ SumFunctionOnSet(f, {}) = h[{}]
  BY <1>1, SumOnSet
<1>3. h[{}] = 0
  BY <1>2, SumSteps
<1> QED
  BY <1>2, <1>3

(* The sum over a finite set of integers is an integer.                    *)
LEMMA SumType ==
    ASSUME NEW f, NEW S, Summable(f, S)
    PROVE  SumFunctionOnSet(f, S) \in Int
<1>1. PICK h : IsSum(h, f, S) /\ SumFunctionOnSet(f, S) = h[S]
  BY SumOnSet
<1>2. h[S] \in Int
  BY <1>1, SumIsInteger
<1> QED
  BY <1>1, <1>2

(* The sum depends on the numbers only.                                    *)
LEMMA SumAgrees ==
    ASSUME NEW f, NEW S, Summable(f, S), NEW g, \A i \in S : g[i] = f[i]
    PROVE  SumFunctionOnSet(g, S) = SumFunctionOnSet(f, S)
<1>1. Summable(g, S)
  BY DEF Summable
<1>2. PICK h : IsSum(h, f, S) /\ SumFunctionOnSet(f, S) = h[S]
  BY SumOnSet
<1>3. PICK k : IsSum(k, g, S) /\ SumFunctionOnSet(g, S) = k[S]
  BY <1>1, SumOnSet
<1>4. S \in SUBSET S /\ \A i \in S : f[i] = g[i]
  OBVIOUS
<1>5. h[S] = k[S]
  BY <1>2, <1>3, <1>4, SumsAgree
<1> QED
  BY <1>2, <1>3, <1>5

(* A sum is any of its numbers and the sum of the others.                  *)
LEMMA SumWithout ==
    ASSUME NEW f, NEW S, Summable(f, S), NEW x \in S
    PROVE  /\ Summable(f, S \ {x})
           /\ f[x] \in Int
           /\ SumFunctionOnSet(f, S \ {x}) \in Int
           /\ SumFunctionOnSet(f, S) = f[x] + SumFunctionOnSet(f, S \ {x})
<1> DEFINE U == S \ {x}
<1>1. Summable(f, U) /\ f[x] \in Int
  BY FS_Subset DEF Summable
<1>2. PICK h : IsSum(h, f, S) /\ SumFunctionOnSet(f, S) = h[S]
  BY SumOnSet
<1> HIDE DEF U
<1>3. PICK k : IsSum(k, f, U) /\ SumFunctionOnSet(f, U) = k[U]
  BY <1>1, SumOnSet
<1>4. U \in SUBSET U /\ U \subseteq S /\ \A i \in U : f[i] = f[i]
  BY DEF U
<1>5. k[U] = h[U]
  BY <1>1, <1>2, <1>3, <1>4, SumsAgree
<1>6. S \in SUBSET S
  OBVIOUS
<1>7. h[S] = f[x] + h[S \ {x}]
  BY <1>2, <1>6, SumTakesAny
<1>8. SumFunctionOnSet(f, U) \in Int
  BY <1>1, SumType
<1>9. SumFunctionOnSet(f, S) = f[x] + SumFunctionOnSet(f, U)
  BY <1>2, <1>3, <1>5, <1>7 DEF U
<1> QED
  BY <1>1, <1>8, <1>9 DEF U

(* A sum is the same over the names that an injection gives the elements.  *)
LEMMA SumRenamed ==
    ASSUME NEW f, NEW S, Summable(f, S), NEW g, NEW U, Summable(g, U), NEW b \in [S -> U],
           \A i, j \in S : b[i] = b[j] => i = j,
           \A i \in S : g[b[i]] = f[i]
    PROVE  SumFunctionOnSet(f, S) = SumFunctionOnSet(g, {b[i] : i \in S})
<1> DEFINE T == {n \in Nat : \A t \in SUBSET S : Cardinality(t) = n =>
                    SumFunctionOnSet(f, t) = SumFunctionOnSet(g, {b[i] : i \in t})}
<1>1. \A t \in SUBSET S : IsFiniteSet(t) /\ Cardinality(t) \in Nat
  BY FS_Subset, FS_CardinalityType DEF Summable
<1>2. 0 \in T
  <2>1. SUFFICES ASSUME NEW t \in SUBSET S, Cardinality(t) = 0
                 PROVE  SumFunctionOnSet(f, t) = SumFunctionOnSet(g, {b[i] : i \in t})
    OBVIOUS
  <2>2. t = {}
    BY <1>1, <2>1, FS_EmptySet
  <2>3. {b[i] : i \in t} = {}
    BY <2>2
  <2>4. SumFunctionOnSet(f, {}) = 0 /\ SumFunctionOnSet(g, {}) = 0
    BY SumOfNone
  <2> QED
    BY <2>2, <2>3, <2>4
<1>3. ASSUME NEW n \in T PROVE n + 1 \in T
  <2>1. SUFFICES ASSUME NEW t \in SUBSET S, Cardinality(t) = n + 1
                 PROVE  SumFunctionOnSet(f, t) = SumFunctionOnSet(g, {b[i] : i \in t})
    OBVIOUS
  <2>2. t # {}
    BY <1>1, <2>1, FS_EmptySet
  <2>3. PICK c \in t : TRUE
    BY <2>2
  <2> DEFINE u == t \ {c}
             B == {b[i] : i \in t}
  <2>4. u \in SUBSET S /\ Cardinality(u) = n
    BY <1>1, <2>1, SmallerSets DEF Summable
  <2>5. SumFunctionOnSet(f, u) = SumFunctionOnSet(g, {b[i] : i \in u})
    BY <2>4
  <2>6. b[c] \in B /\ {b[i] : i \in u} = B \ {b[c]}
    OBVIOUS
  <2>7. g[b[c]] = f[c]
    OBVIOUS
  <2>8. Summable(f, t) /\ Summable(g, B)
    <3>1. B \subseteq U
      OBVIOUS
    <3> HIDE DEF B
    <3> QED
      BY <1>1, <3>1, FS_Subset DEF Summable
  <2> HIDE DEF u, B
  <2>9. SumFunctionOnSet(f, t) = f[c] + SumFunctionOnSet(f, u)
    BY <2>8, SumWithout DEF u
  <2>10. SumFunctionOnSet(g, B) = g[b[c]] + SumFunctionOnSet(g, B \ {b[c]})
    BY <2>6, <2>8, SumWithout
  <2>11. SumFunctionOnSet(f, t) = SumFunctionOnSet(g, B)
    BY <2>5, <2>6, <2>7, <2>9, <2>10
  <2> QED
    BY <2>11 DEF B
<1>4. T = Nat
  <2> HIDE DEF T
  <2>1. T \in SUBSET Nat
    BY DEF T
  <2> QED
    BY <1>2, <1>3, <2>1, SetInduction
<1> QED
  BY <1>1, <1>4

(* SumFunction is the sum over a function's whole domain.                  *)
LEMMA SumIsSum ==
    ASSUME NEW f, Summable(f, DOMAIN f)
    PROVE  SumFunction(f) \in Int /\ SumFunction(f) = SumFunctionOnSet(f, DOMAIN f)
BY SumType DEF SumFunction

(* One more element adds its number.                                       *)
LEMMA SumWithMore ==
    ASSUME NEW f, Summable(f, DOMAIN f), NEW g, Summable(g, DOMAIN g), NEW x \in DOMAIN g,
           x \notin DOMAIN f, DOMAIN g = DOMAIN f \cup {x}, \A i \in DOMAIN f : g[i] = f[i]
    PROVE  SumFunction(g) = SumFunction(f) + g[x]
<1> DEFINE S == DOMAIN f
           U == DOMAIN g
<1>1. U \ {x} = S
  OBVIOUS
<1> HIDE DEF S, U
<1>2. SumFunctionOnSet(g, U) = g[x] + SumFunctionOnSet(g, S) /\ g[x] \in Int
  BY <1>1, SumWithout DEF U
<1>3. SumFunctionOnSet(g, S) = SumFunctionOnSet(f, S)
  BY SumAgrees DEF S
<1>4. SumFunctionOnSet(f, S) \in Int
  BY SumType DEF S
<1>5. SumFunction(g) = SumFunctionOnSet(g, U) /\ SumFunction(f) = SumFunctionOnSet(f, S)
  BY DEF SumFunction, S, U
<1> QED
  BY <1>1, <1>2, <1>3, <1>4, <1>5

(* Another number for one element adds the difference.                     *)
LEMMA SumWithOther ==
    ASSUME NEW f, Summable(f, DOMAIN f), NEW g, Summable(g, DOMAIN g), NEW x \in DOMAIN f,
           DOMAIN g = DOMAIN f, \A i \in DOMAIN f \ {x} : g[i] = f[i]
    PROVE  SumFunction(g) = SumFunction(f) + g[x] - f[x]
<1> DEFINE S == DOMAIN f
           U == S \ {x}
<1> HIDE DEF S, U
<1>1. /\ SumFunctionOnSet(f, S) = f[x] + SumFunctionOnSet(f, U)
      /\ f[x] \in Int /\ Summable(f, U) /\ SumFunctionOnSet(f, U) \in Int
  BY SumWithout DEF S, U
<1>2. SumFunctionOnSet(g, S) = g[x] + SumFunctionOnSet(g, U) /\ g[x] \in Int
  BY SumWithout DEF S, U
<1>3. \A i \in U : g[i] = f[i]
  BY DEF S, U
<1>4. SumFunctionOnSet(g, U) = SumFunctionOnSet(f, U)
  BY <1>1, <1>3, SumAgrees
<1>5. SumFunction(g) = SumFunctionOnSet(g, S) /\ SumFunction(f) = SumFunctionOnSet(f, S)
  BY DEF SumFunction, S
<1> QED
  BY <1>1, <1>2, <1>4, <1>5

(* Other names for all the elements change nothing.                        *)
LEMMA SumWithNames ==
    ASSUME NEW f, Summable(f, DOMAIN f), NEW g, Summable(g, DOMAIN g),
           NEW b \in [DOMAIN f -> DOMAIN g],
           \A i, j \in DOMAIN f : b[i] = b[j] => i = j,
           \A k \in DOMAIN g : \E i \in DOMAIN f : b[i] = k,
           \A i \in DOMAIN f : g[b[i]] = f[i]
    PROVE  SumFunction(f) = SumFunction(g)
<1>1. SumFunctionOnSet(f, DOMAIN f) = SumFunctionOnSet(g, {b[i] : i \in DOMAIN f})
  BY SumRenamed
<1>2. {b[i] : i \in DOMAIN f} = DOMAIN g
  OBVIOUS
<1> QED
  BY <1>1, <1>2 DEF SumFunction

=============================================================================
