---------------------------- MODULE HASAutoscaler ----------------------------
(***************************************************************************)
(* HASFuncAutoScale of has_autoscaling.go: the decision to scale one       *)
(* function, and the loops of HASFuncScaleUp and HASFuncScaleDown, one     *)
(* step per pod or GPU they visit.  The loops run in one goroutine and     *)
(* make no API call; they read a list of pods, write the ledger hasGPUs    *)
(* at once, and leave a list of actions for the reconciler to carry out.   *)
(*                                                                         *)
(* Request rates (RPS) are integers, in tenths of a request per second;    *)
(* the deficit or surplus deltaR is in hundredths, so that the factors     *)
(* 0.9 and 0.3 of the code are exact.                                      *)
(***************************************************************************)
EXTENDS GPULedger, Sequences, SequencesExt

CONSTANTS
    NoFunc,      \* no function is being reconciled
    Profile,     \* <<function, SM partition, quota>> -> the answers rapp may give
    FuncType     \* function -> what getFunctionTypeFromName makes of its name

ASSUME ProfileAssumption ==
    \A x \in DOMAIN Profile : Profile[x] \subseteq Nat /\ Profile[x] # {}
ASSUME NoFuncAssumption == NoFunc \notin Func

VARIABLES
    hasGPUs,     \* the ledger: tracked GPU -> HASGPUInfo
    nodeGPUMap,  \* the GPUs found when the process read the topology
    cooling,     \* functions whose last scale-down is younger than the cooldown
    pc,          \* where the goroutine is
    cur,         \* the function it is reconciling
    pred,        \* the predicted RPS of cur
    total,       \* GetFuncRPSCapability of the listed pods
    pods,        \* podsinfo, the listed pods in the order they are visited
    deltaR,      \* what is still missing (up) or still to be given back (down)
    idx,         \* the position of the loop over pods
    pending,     \* the GPUs the horizontal loop has still to visit
    marked,      \* emptyGPUs, the GPUs that may have become empty
    actions      \* the actions planned so far

ledgerVars == <<hasGPUs, nodeGPUMap, cooling>>
localVars == <<pred, total, pods, deltaR, idx, pending, marked, actions>>
scalerVars == <<hasGPUs, nodeGPUMap, cooling, pc, cur, localVars>>

DeltaIq == 10
MinQuota == 10
HGOThredshold == 95
MinRPS == 1                       \* 0.1 RPS

HASPodInfo == [name : Name, gpu : GPUId, sm : Int, quota : Int, rps : Nat]
HASAction == [type : {-1, 0, 1}, pod : HASPodInfo]

(* Faulty variant of rapp: the -1 of getLatency is passed on.             *)
rappMinusOne(f, sm, quota) ==
    IF <<f, sm, quota>> \in DOMAIN Profile
    THEN {IF t = 0 THEN -1 ELSE t : t \in Profile[<<f, sm, quota>>]} ELSE {-1}

(* rapp(), as the set of answers a call may give: every call asks the RaPP *)
(* service anew, and what the local tables hold is the answer when the     *)
(* service gives none.  Two calls with the same arguments may differ.      *)
rapp(f, sm, quota) ==
    IF <<f, sm, quota>> \in DOMAIN Profile THEN Profile[<<f, sm, quota>>] ELSE {0}

getOptimalSMPartition(f, missing) ==
    CASE FuncType[f] = "bert"      -> IF missing > 3000 THEN 70 ELSE 50
      [] FuncType[f] = "resnet"    -> IF missing > 2500 THEN 50 ELSE 30
      [] FuncType[f] = "convnext"  -> IF missing > 3000 THEN 70 ELSE 30
      [] FuncType[f] = "mobilenet" -> IF missing > 4000 THEN 70 ELSE 30
      [] FuncType[f] = "gpt"       -> 80
      [] FuncType[f] = "rapp"      -> 10
      [] OTHER                     -> 50

ScaleUpTriggered == 10 * pred > 9 * total
ScaleDownTriggered == 10 * pred < 3 * total /\ ~ScaleUpTriggered

Act(type, pod) == [type |-> type, pod |-> pod]
Resized(pod, quota, rps) ==
    [name |-> pod.name, gpu |-> pod.gpu, sm |-> pod.sm, quota |-> quota, rps |-> rps]

(* sort.Slice, which may order equal partitions in any way.                *)
SortedBy(Before(_, _), s) ==
    {t \in [DOMAIN s -> Range(s)] :
        /\ Range(t) = Range(s)
        /\ \A i, j \in DOMAIN s : i < j => Before(t[i], t[j])}

BeginScaleUp ==
    /\ ScaleUpTriggered
    /\ pods' \in SortedBy(LAMBDA p, q : p.sm >= q.sm, pods)
    /\ deltaR' = 10 * pred - 9 * total
    /\ pc' = "vertical"
    /\ idx' = 1
    /\ UNCHANGED <<ledgerVars, cur, pred, total, pending, marked, actions>>

BeginScaleDown ==
    /\ ScaleDownTriggered
    /\ cur \notin cooling
    /\ pods' \in SortedBy(LAMBDA p, q : p.sm <= q.sm, pods)
    /\ deltaR' = 9 * total - 10 * pred
    /\ pc' = "shrink"
    /\ idx' = 1
    /\ UNCHANGED <<ledgerVars, cur, pred, total, pending, marked, actions>>

-----------------------------------------------------------------------------
(* Faulty variant of Gain: forgets what the pod served before.            *)
GainGross(pod, cap) == 10 * cap

(* Scale-up, vertical: raise the quota of each pod in steps of DeltaIq     *)
(* until its row is full or nothing is missing any more.  The gain is that *)
(* of the last answer over what the pod served at first.                   *)
Gain(pod, cap) == 10 * (cap - pod.rps)

CapRaised(pod, n) == IF n = 0 THEN {pod.rps} ELSE rapp(cur, pod.sm, pod.quota + DeltaIq * n)

(* Faulty variant of RaisedBy: one step more than the row has left.       *)
RaisedByOneMore(pod, avail, n, cap) ==
    /\ cap \in CapRaised(pod, n)
    /\ \A k \in 1 .. n : /\ DeltaIq * (k - 1) <= avail
                         /\ \E c \in CapRaised(pod, k - 1) : Gain(pod, c) < deltaR
    /\ DeltaIq * n > avail \/ Gain(pod, cap) >= deltaR

(* The loop takes n steps and leaves with the answer cap.                  *)
RaisedBy(pod, avail, n, cap) ==
    /\ cap \in CapRaised(pod, n)
    /\ \A k \in 1 .. n : /\ DeltaIq * k <= avail
                         /\ \E c \in CapRaised(pod, k - 1) : Gain(pod, c) < deltaR
    /\ DeltaIq * (n + 1) > avail \/ Gain(pod, cap) >= deltaR

OnAllocatedGPU(pod) == pod.gpu \in DOMAIN hasGPUs /\ hasGPUs[pod.gpu].alloc

VerticalScale ==
    /\ pc = "vertical"
    /\ idx <= Len(pods)
    /\ OnAllocatedGPU(pods[idx])
    /\ LET pod   == pods[idx]
           avail == RetriveMaxAvailQuotaForPod(hasGPUs[pod.gpu], pod.name)
       IN  \E n \in 0 .. 100 \div DeltaIq :
           \E cap \in {c \in CapRaised(pod, n) : RaisedBy(pod, avail, n, c)} :
             LET new == Resized(pod, pod.quota + DeltaIq * n, cap)
             IN  /\ deltaR' = deltaR - Gain(pod, cap)
                 /\ pods' = [pods EXCEPT ![idx] = new]
                 /\ actions' = Append(actions, Act(0, new))
                 /\ hasGPUs' = SetQuota(hasGPUs, pod.gpu, pod.name, new.quota)
    /\ idx' = idx + 1
    /\ UNCHANGED <<nodeGPUMap, cooling, pc, cur, pred, total, pending, marked>>

(* RowPods[rowIdx] of a GPU that is not tracked, or has no rows: the       *)
(* process dies with an index out of range.                                *)
VerticalPanics ==
    /\ pc = "vertical"
    /\ idx <= Len(pods)
    /\ ~OnAllocatedGPU(pods[idx])
    /\ pc' = "panicRow"
    /\ UNCHANGED <<ledgerVars, cur, localVars>>

VerticalDone ==
    /\ pc = "vertical"
    /\ idx > Len(pods)
    /\ pc' = "horizontal"
    /\ pending' = RetrieveUsedGPU(hasGPUs, HGOThredshold)
    /\ UNCHANGED <<ledgerVars, cur, pred, total, pods, deltaR, idx, marked, actions>>

-----------------------------------------------------------------------------
(* Scale-up, horizontal: on each used GPU, least occupied first, plan the  *)
(* pod with most throughput that fits in a row.                            *)
OpenRows(info) ==
    IF info.alloc THEN {r \in Row : AvailQuota(info, r) > 0} ELSE {}

(* Rows without a partition are given one before it is known whether a pod *)
(* will use it.                                                            *)
Claimed(info) ==
    updateSMConfigForGPU(info, OpenRows(info), getOptimalSMPartition(cur, deltaR))

Offers(info) ==
    {o \in OpenRows(info) \X {DeltaIq * n : n \in 1 .. 10} : o[2] <= AvailQuota(info, o[1])}

CapOffered(info, o) == rapp(cur, Claimed(info).sm[o[1]], o[2])

(* Offer o is taken with the answer cap: the first one, in row then quota  *)
(* order, with the strictly largest answer.                                *)
BestOffer(info, o, cap) ==
    LET before(p, q) == p[1] < q[1] \/ (p[1] = q[1] /\ p[2] < q[2])
    IN  /\ cap > 0
        /\ \A p \in Offers(info) \ {o} :
             \E c \in CapOffered(info, p) : c < cap \/ (c = cap /\ before(o, p))

NothingOffered(info) == \A o \in Offers(info) : 0 \in CapOffered(info, o)

PlanPod(gpus, g, sm, quota, rps) ==
    \E r \in FindOptimalRowIdx(gpus[g], sm) :
      LET n   == Provisional(cur, quota, sm)
          pod == [name |-> n, gpu |-> g, sm |-> EffectiveSM(gpus[g], r, sm),
                  quota |-> quota, rps |-> rps]
      IN  /\ hasGPUs' = addPodtoHASGPU(gpus, g, n, sm, quota, r)
          /\ actions' = Append(actions, Act(1, pod))
          /\ deltaR' = deltaR - 10 * rps

(* The partition in the new pod is the copy read before the row was given  *)
(* one: -1 if the row was unused.                                          *)
HorizontalScale ==
    /\ pc = "horizontal"
    /\ deltaR > 0
    /\ \E g \in LeastHGO(hasGPUs, pending) :
         LET info    == hasGPUs[g]
             claimed == Put(hasGPUs, g, Claimed(info))
         IN  \E o \in Offers(info) :
             \E cap \in {c \in CapOffered(info, o) : BestOffer(info, o, c)} :
               /\ PlanPod(claimed, g, info.sm[o[1]], o[2], cap)
               /\ pending' = pending \ {g}
    /\ UNCHANGED <<nodeGPUMap, cooling, pc, cur, pred, total, pods, idx, marked>>

(* Faulty variant of HorizontalSkip: the GPU is not crossed off.           *)
HorizontalRetry ==
    /\ pc = "horizontal"
    /\ deltaR > 0
    /\ \E g \in LeastHGO(hasGPUs, pending) :
         /\ NothingOffered(hasGPUs[g])
         /\ hasGPUs' = Put(hasGPUs, g, Claimed(hasGPUs[g]))
    /\ UNCHANGED <<nodeGPUMap, cooling, pc, cur, localVars>>

HorizontalSkip ==
    /\ pc = "horizontal"
    /\ deltaR > 0
    /\ \E g \in LeastHGO(hasGPUs, pending) :
         /\ NothingOffered(hasGPUs[g])
         /\ hasGPUs' = Put(hasGPUs, g, Claimed(hasGPUs[g]))
         /\ pending' = pending \ {g}
    /\ UNCHANGED <<nodeGPUMap, cooling, pc, cur, pred, total, pods, deltaR, idx, marked, actions>>

HorizontalDone ==
    /\ pc = "horizontal"
    /\ deltaR <= 0
    /\ pc' = "apply"
    /\ UNCHANGED <<ledgerVars, cur, localVars>>

NoUsedGPULeft == pc = "horizontal" /\ deltaR > 0 /\ pending = {}

(* A new GPU is taken with GetMostEfficientConfig(), which reads           *)
(* funcname[0] of its empty argument list.                                 *)
NewGPUPanics ==
    /\ NoUsedGPULeft
    /\ RetrieveNewGPU(hasGPUs, nodeGPUMap) # {}
    /\ pc' = "panicConfig"
    /\ UNCHANGED <<ledgerVars, cur, localVars>>

NoNewGPU ==
    /\ NoUsedGPULeft
    /\ RetrieveNewGPU(hasGPUs, nodeGPUMap) = {}
    /\ pc' = "fallback"
    /\ UNCHANGED <<ledgerVars, cur, localVars>>

(* The fallback: a minimal pod on the least occupied of all tracked GPUs.  *)
Fallback ==
    /\ pc = "fallback"
    /\ \E g \in LeastHGO(hasGPUs, DOMAIN hasGPUs) :
         LET info == hasGPUs[g]
             r    == Min(OpenRows(info))
             sm   == IF info.sm[r] <= 0 THEN 50 ELSE info.sm[r]
         IN  /\ OpenRows(info) # {}
             /\ \E quota \in 1 .. MinQuota : \E cap \in rapp(cur, sm, quota) :
                  /\ quota = Min({MinQuota, AvailQuota(info, r)})
                  /\ PlanPod(Put(hasGPUs, g, updateSMConfigForGPU(info, {r}, 50)),
                             g, sm, quota, cap)
    /\ pc' = "apply"
    /\ UNCHANGED <<nodeGPUMap, cooling, cur, pred, total, pods, idx, pending, marked>>

FallbackFindsNothing ==
    /\ pc = "fallback"
    /\ \/ DOMAIN hasGPUs = {}
       \/ \E g \in LeastHGO(hasGPUs, DOMAIN hasGPUs) : OpenRows(hasGPUs[g]) = {}
    /\ pc' = "apply"
    /\ UNCHANGED <<ledgerVars, cur, localVars>>

-----------------------------------------------------------------------------
(* Scale-down, first pass: lower the quota of each pod in steps of DeltaIq *)
(* until enough is given back.  The test that protects the last pod comes  *)
(* after newQuota has been lowered.                                        *)
Loss(pod, cap) == 10 * (pod.rps - cap)

CapLowered(pod, n) == IF n = 0 THEN {pod.rps} ELSE rapp(cur, pod.sm, pod.quota - DeltaIq * n)

(* The loop takes n steps and leaves with the answer cap.                  *)
LoweredBy(pod, n, cap) ==
    LET spared(k, c) == k > 0 /\ Len(pods) = 1 /\ c < MinRPS
    IN  /\ cap \in CapLowered(pod, n)
        /\ \A k \in 1 .. n :
             /\ pod.quota - DeltaIq * k > 0
             /\ \E c \in CapLowered(pod, k - 1) : Loss(pod, c) < deltaR /\ ~spared(k - 1, c)
        /\ \/ pod.quota - DeltaIq * (n + 1) <= 0
           \/ Loss(pod, cap) >= deltaR
           \/ spared(n, cap)

ShrinkPod ==
    /\ pc = "shrink"
    /\ deltaR > 0
    /\ idx <= Len(pods)
    /\ LET pod == pods[idx]
       IN  \E n \in 1 .. pod.quota \div DeltaIq :
           \E cap \in {c \in CapLowered(pod, n) : LoweredBy(pod, n, c)} :
             LET new == Resized(pod, pod.quota - DeltaIq * n, cap)
             IN  /\ deltaR' = deltaR - Loss(pod, cap)
                 /\ pods' = [pods EXCEPT ![idx] = new]
                 /\ actions' = Append(actions, Act(0, new))
                 /\ hasGPUs' = IF pod.gpu \in DOMAIN hasGPUs
                               THEN SetQuota(hasGPUs, pod.gpu, pod.name, new.quota)
                               ELSE hasGPUs
                 /\ marked' = IF new.quota <= DeltaIq THEN marked \cup {pod.gpu} ELSE marked
    /\ idx' = idx + 1
    /\ UNCHANGED <<nodeGPUMap, cooling, pc, cur, pred, total, pending>>

ShrinkSkip ==
    /\ pc = "shrink"
    /\ deltaR > 0
    /\ idx <= Len(pods)
    /\ pods[idx].rps \in {c \in CapLowered(pods[idx], 0) : LoweredBy(pods[idx], 0, c)}
    /\ idx' = idx + 1
    /\ UNCHANGED <<ledgerVars, pc, cur, pred, total, pods, deltaR, pending, marked, actions>>

ShrinkDone ==
    /\ pc = "shrink"
    /\ \/ deltaR <= 0 /\ pc' = "clean"
       \/ deltaR > 0 /\ idx > Len(pods) /\ pc' = "evict"
    /\ idx' = 1
    /\ UNCHANGED <<ledgerVars, cur, pred, total, pods, deltaR, pending, marked, actions>>

(* Scale-down, second pass: remove pods whose whole throughput is still    *)
(* too much.                                                               *)
MayEvict == deltaR > 0 /\ Len(pods) > 1 /\ idx <= Len(pods)
Evictable(pod) == pod.sm <= 50 /\ 10 * pod.rps <= deltaR

LeavesRowEmpty(info, n) ==
    RowsOf(info, n) # {} /\ DOMAIN info.rows[Min(RowsOf(info, n))] = {n}

EvictPod ==
    /\ pc = "evict"
    /\ MayEvict
    /\ LET pod == pods[idx]
           tracked == pod.gpu \in DOMAIN hasGPUs
           gpus == IF tracked THEN RemovePod(hasGPUs, pod.gpu, pod.name) ELSE hasGPUs
       IN  /\ Evictable(pod)
           /\ deltaR' = deltaR - 10 * pod.rps
           /\ actions' = Append(actions, Act(-1, pod))
           /\ hasGPUs' = gpus
           /\ marked' = IF tracked /\ LeavesRowEmpty(hasGPUs[pod.gpu], pod.name)
                        THEN marked \cup {pod.gpu} ELSE marked
    /\ pods' = RemoveAt(pods, idx)
    /\ UNCHANGED <<nodeGPUMap, cooling, pc, cur, pred, total, idx, pending>>

EvictSkip ==
    /\ pc = "evict"
    /\ MayEvict
    /\ ~Evictable(pods[idx])
    /\ idx' = idx + 1
    /\ UNCHANGED <<ledgerVars, pc, cur, pred, total, pods, deltaR, pending, marked, actions>>

EvictDone ==
    /\ pc = "evict"
    /\ ~MayEvict
    /\ pc' = "clean"
    /\ UNCHANGED <<ledgerVars, cur, localVars>>

(* The marked GPUs whose rows are all empty leave the ledger, and a        *)
(* scale-down that planned something starts the cooldown of cur.           *)
CleanUp ==
    /\ pc = "clean"
    /\ hasGPUs' = Drop(hasGPUs, {g \in marked \cap DOMAIN hasGPUs : RowsEmpty(hasGPUs[g])})
    /\ cooling' = IF actions # <<>> THEN cooling \cup {cur} ELSE cooling
    /\ pc' = "apply"
    /\ UNCHANGED <<nodeGPUMap, cur, localVars>>

AutoscaleStep ==
    \/ VerticalScale \/ VerticalPanics \/ VerticalDone
    \/ HorizontalScale \/ HorizontalSkip \/ HorizontalDone
    \/ NewGPUPanics \/ NoNewGPU \/ Fallback \/ FallbackFindsNothing
    \/ ShrinkPod \/ ShrinkSkip \/ ShrinkDone
    \/ EvictPod \/ EvictSkip \/ EvictDone \/ CleanUp

=============================================================================
