------------------------------ MODULE GPULedger ------------------------------
(***************************************************************************)
(* The controller's book of the GPUs: the map hasGPUs of                   *)
(* fastfunc_controller.go and the helpers of has_autoscaling.go that read  *)
(* and write it.  A GPU is cut into GPUSMConfigNum rows; a row has one SM  *)
(* partition and shares its time (100 % of quota) among the pods in it.    *)
(*                                                                         *)
(* Everything here is a pure operator on a map  GPU -> HASGPUInfo ; the    *)
(* machines that use it are HASAutoscaler and HASReconciler.               *)
(***************************************************************************)
EXTENDS Integers, FiniteSets, FiniteSetsExt

CONSTANTS
    Func,    \* the names a FaSTFunc can have
    GPU,     \* the vGPU ids of the cluster; an id determines its node
    NoGPU    \* the empty node name and GPU id, ""

ASSUME NoGPUAssumption == NoGPU \notin GPU

GPUId == GPU \cup {NoGPU}

GPUSMConfigNum == 2
Row == 1 .. GPUSMConfigNum

NoSM == -1          \* SMConfigs[row] of a row nobody has used yet

-----------------------------------------------------------------------------
(* Partial maps: Go's map with only the keys it holds in its domain.       *)
IsMapOf(m, S, T) == DOMAIN m \subseteq S /\ m \in [DOMAIN m -> T]
EmptyMap == [x \in {} |-> 0]
Put(m, k, v) == [x \in DOMAIN m \cup {k} |-> IF x = k THEN v ELSE m[x]]
Drop(m, K) == [x \in DOMAIN m \ K |-> m[x]]

(***************************************************************************)
(* Names.  getResKeyName(quota, sm) gives the provisional name of a pod    *)
(* the autoscaler plans (every pod of one function with the same quota and *)
(* SM partition gets the same one); configs2FaSTPods adds a random suffix, *)
(* here the number k, that makes the name of a real FaSTPod unique.        *)
(***************************************************************************)
Name == Func \X Int \X Int \X Nat
Provisional(f, quota, sm) == <<f, quota, sm, 0>>
RealName(f, k) == <<f, 0, 0, k>>
FuncOf(n) == n[1]
IsReal(n) == n[4] > 0

HASResConfig == [sm : Int, quota : Int]

(* alloc: SMConfigs and RowPods are allocated.  getGPUDeviceTopology leaves *)
(* them nil; the first addPodtoHASGPU makes them.  rows is RowPods, the     *)
(* names in a row with their number of copies.                             *)
IsHASGPUInfo(info) ==
    /\ info = [alloc |-> info.alloc, sm |-> info.sm, rows |-> info.rows,
               conf |-> info.conf, hgo |-> info.hgo]
    /\ info.alloc \in BOOLEAN
    /\ info.sm \in [Row -> Int]
    /\ info.rows = [r \in Row |-> info.rows[r]]
    /\ \A r \in Row : IsMapOf(info.rows[r], Name, Nat)
    /\ IsMapOf(info.conf, Name, HASResConfig)
    /\ info.hgo \in Int

IsLedger(gpus) ==
    /\ DOMAIN gpus \subseteq GPUId
    /\ gpus = [g \in DOMAIN gpus |-> gpus[g]]
    /\ \A g \in DOMAIN gpus : IsHASGPUInfo(gpus[g])

BareGPU == [alloc |-> FALSE,
            sm    |-> [r \in Row |-> NoSM],
            rows  |-> [r \in Row |-> EmptyMap],
            conf  |-> EmptyMap,
            hgo   |-> 0]

InfoOf(gpus, g) == IF g \in DOMAIN gpus THEN gpus[g] ELSE BareGPU

(* A key Go's map does not hold reads as the zero value.                   *)
ConfOf(info, n) ==
    IF n \in DOMAIN info.conf THEN info.conf[n] ELSE [sm |-> 0, quota |-> 0]

RowQuota(info, r) ==
    SumFunction([n \in DOMAIN info.rows[r] |-> info.rows[r][n] * ConfOf(info, n).quota])
AvailQuota(info, r) == 100 - RowQuota(info, r)

-----------------------------------------------------------------------------
(* The HGO arithmetic is done on int64 and converted afterwards, so both   *)
(* divisions truncate towards zero.                                        *)
TruncDiv(a, b) == IF a >= 0 THEN a \div b ELSE -((-a) \div b)
HGODelta(sm, quota) == TruncDiv(TruncDiv(sm, 100) * quota, 100)

(* Faulty variant of EffectiveSM: whatever was asked for.                  *)
EffectiveSMAsGiven(info, r, sm) == sm

(* Faulty variant of EffectiveSM: ignores the partition the row has.        *)
EffectiveSMOfPod(info, r, sm) == IF sm > 0 THEN sm ELSE 50

(* The partition a pod gets in row r: the row's own once it has one.       *)
EffectiveSM(info, r, sm) ==
    IF info.sm[r] # NoSM THEN info.sm[r] ELSE IF sm > 0 THEN sm ELSE 50

OneMore(row, n) == Put(row, n, IF n \in DOMAIN row THEN row[n] + 1 ELSE 1)

addPodtoHASGPU(gpus, g, n, sm, quota, r) ==
    LET info == InfoOf(gpus, g)
        esm  == EffectiveSM(info, r, sm)
    IN  Put(gpus, g,
            [alloc |-> TRUE,
             sm    |-> [info.sm EXCEPT ![r] = esm],
             rows  |-> [info.rows EXCEPT ![r] = OneMore(@, n)],
             conf  |-> Put(info.conf, n, [sm |-> esm, quota |-> quota]),
             hgo   |-> info.hgo + HGODelta(esm, quota)])

(* Faulty variant of updateSMConfigForGPU: rows in use take sm, too.        *)
updateSMConfigAlways(info, R, sm) ==
    [info EXCEPT !.sm = [r \in Row |-> IF r \in R THEN sm ELSE info.sm[r]]]

(* updateSMConfigForGPU on the rows R: only an unused row takes sm.        *)
updateSMConfigForGPU(info, R, sm) ==
    [info EXCEPT !.sm = [r \in Row |-> IF r \in R /\ info.sm[r] <= 0
                                       THEN sm ELSE info.sm[r]]]

(* A GPU with other bookings on the same rows.                             *)
Rebooked(info, rows, conf, hgo) ==
    [alloc |-> info.alloc, sm |-> info.sm, rows |-> rows, conf |-> conf, hgo |-> hgo]

(* Faulty variant of SetQuota: HGO follows, PodsConfig does not.            *)
SetQuotaOfGPUOnly(gpus, g, n, quota) ==
    LET old == ConfOf(gpus[g], n)
    IN  [gpus EXCEPT ![g].hgo = @ + HGODelta(old.sm, quota - old.quota)]

SetQuota(gpus, g, n, quota) ==
    LET info == gpus[g]
        old  == ConfOf(info, n)
    IN  Put(gpus, g,
            Rebooked(info, info.rows, Put(info.conf, n, [sm |-> old.sm, quota |-> quota]),
                     info.hgo + HGODelta(old.sm, quota - old.quota)))

RowsOf(info, n) == {r \in Row : n \in DOMAIN info.rows[r]}

(* RetriveMaxAvailQuotaForPod: what is left in the row of the pod, and in  *)
(* row 0 for a pod that is in no row.                                      *)
RetriveMaxAvailQuotaForPod(info, n) ==
    AvailQuota(info, IF RowsOf(info, n) = {} THEN 1 ELSE Max(RowsOf(info, n)))

(* Faulty variant of RemovePod: evicted pods stay booked.                   *)
RemovePodNever(gpus, g, n) == gpus

(* Faulty variant of RemovePod: the name stays in its row.                  *)
RemovePodConfigOnly(gpus, g, n) == [gpus EXCEPT ![g].conf = Drop(@, {n})]

(* The second pass of scale-down takes the name out of its first row.      *)
RemovePod(gpus, g, n) ==
    LET info == gpus[g]
        r    == Min(RowsOf(info, n))
        old  == ConfOf(info, n)
    IN  IF RowsOf(info, n) = {} THEN gpus
        ELSE Put(gpus, g,
                 Rebooked(info, [info.rows EXCEPT ![r] = Drop(@, {n})], Drop(info.conf, {n}),
                          info.hgo - HGODelta(old.sm, old.quota)))

(* Faulty variant of RowsEmpty: one empty row is enough.                    *)
SomeRowEmpty(info) == \E r \in Row : DOMAIN info.rows[r] = {}

RowsEmpty(info) == \A r \in Row : DOMAIN info.rows[r] = {}

(* From one ledger to the next, every row in use keeps its partition.      *)
RowsKept(before, after) ==
    \A g \in DOMAIN before \cap DOMAIN after, r \in Row :
        before[g].sm[r] > 0 => after[g].sm[r] = before[g].sm[r]

-----------------------------------------------------------------------------
(* RetrieveUsedGPU, with the threshold in hundredths of a GPU.             *)
RetrieveUsedGPU(gpus, maxhgo) == {g \in DOMAIN gpus : 100 * gpus[g].hgo < maxhgo}

(* sort.Slice by HGO, ties in any order: the GPUs that may come first.     *)
LeastHGO(gpus, G) == {g \in G : \A h \in G : gpus[g].hgo <= gpus[h].hgo}

RetrieveNewGPU(gpus, nodeGPUs) == nodeGPUs \ RetrieveUsedGPU(gpus, 10010)

(* FindOptimalRowIdx, as the set that holds its answer: the first row with *)
(* this partition, else the first unused row, else the first of the rows   *)
(* with most quota left (row 0 if every row is overdrawn).                 *)
FindOptimalRowIdx(info, sm) ==
    LET same  == {r \in Row : info.sm[r] = sm}
        free  == {r \in Row : info.sm[r] = NoSM}
        roomy == {r \in Row : /\ AvailQuota(info, r) > -1
                              /\ \A s \in Row : AvailQuota(info, s) <= AvailQuota(info, r)}
        best  == IF ~info.alloc THEN {1}
                 ELSE IF same # {} THEN same
                 ELSE IF free # {} THEN free
                 ELSE IF roomy # {} THEN roomy ELSE {1}
    IN  {r \in best : \A s \in best : r <= s}

=============================================================================
