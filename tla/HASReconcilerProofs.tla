------------------------- MODULE HASReconcilerProofs -------------------------
(***************************************************************************)
(* Theorems about HASReconciler, for every value of its constants.         *)
(***************************************************************************)
EXTENDS HASReconciler, GPULedgerProofs, SequenceTheorems

(* An empty map is a partial map, and an empty ledger.                     *)
LEMMA EmptyMapType ==
    /\ IsLedger(EmptyMap) /\ DOMAIN EmptyMap = {}
    /\ \A S, T : IsMapOf(EmptyMap, S, T)
BY DEF IsLedger, IsMapOf, EmptyMap

(* No answer of rapp is negative, whatever it is asked.                    *)
LEMMA RappType == \A f, sm, quota : rapp(f, sm, quota) \subseteq Nat
BY ProfileAssumption DEF rapp

LEMMA ReadQuotaType == \A quota \in Int : ReadQuota(quota) \in Int
BY DEF ReadQuota

(* Nor is an answer the vertical loop or the first pass of scale-down      *)
(* leaves with, and what it gains or gives back is an integer.             *)
LEMMA LoopAnswerType ==
    ASSUME NEW pod \in HASPodInfo, NEW n,
           NEW cap \in CapRaised(pod, n) \cup CapLowered(pod, n)
    PROVE  cap \in Nat /\ Gain(pod, cap) \in Int /\ Loss(pod, cap) \in Int
<1>1. cap \in Nat
  <2>1. pod.rps \in Nat
    BY DEF HASPodInfo
  <2> QED
    BY <2>1, RappType DEF CapRaised, CapLowered
<1> QED
  BY <1>1 DEF Gain, Loss, HASPodInfo

(* An answer for an offer is a rate.                                       *)
LEMMA OfferAnswerType ==
    ASSUME NEW info, NEW o, NEW cap \in CapOffered(info, o)
    PROVE  cap \in Nat
BY RappType DEF CapOffered

(* The partition chosen for a function is an integer.                      *)
LEMMA OptimalSMType == \A f, missing : getOptimalSMPartition(f, missing) \in Int
BY DEF getOptimalSMPartition

(* While it works on a function, the goroutine knows it.                   *)
LEMMA CurType ==
    ASSUME TypeOK, pc \notin BetweenFunctions
    PROVE  cur \in Func /\ cur \in DOMAIN podsInfo /\ podsInfo[cur] \subseteq Name
BY DEF TypeOK, IsMapOf

(* The FaSTPods of a function are FaSTPods, and have names.                *)
LEMMA PodsOfType ==
    ASSUME TypeOK, NEW f
    PROVE  PodsOf(f) \subseteq DOMAIN fastPod /\ PodsOf(f) \subseteq Name
BY DEF TypeOK, PodsOf, IsMapOf

(* A generated name is a name a FaSTPod can have.                          *)
LEMMA FreshNameType ==
    ASSUME NEW f, NEW n \in FreshName(f)
    PROVE  n \in Name
BY DEF FreshName

(* Sorting leaves the listed pods a list of pods.                          *)
LEMMA SortedByType ==
    ASSUME NEW S, NEW s \in Seq(S), NEW Before(_, _), NEW t \in SortedBy(Before, s)
    PROVE  t \in Seq(S)
<1>1. t \in [1 .. Len(s) -> Range(s)]
  BY DEF SortedBy
<1>2. Range(s) \subseteq S
  BY DEF Range
<1> QED
  BY <1>1, <1>2

(* Removing a listed pod leaves a list of pods.                            *)
LEMMA RemoveAtType ==
    ASSUME NEW S, NEW s \in Seq(S), NEW i \in 1 .. Len(s)
    PROVE  RemoveAt(s, i) \in Seq(S)
<1>1. SubSeq(s, 1, i - 1) \in Seq(S)
  BY SubSeqProperties
<1>2. SubSeq(s, i + 1, Len(s)) \in Seq(S)
  BY SubSeqProperties
<1> QED
  BY <1>1, <1>2, ConcatProperties DEF RemoveAt

(* What a step of the loops plans is well formed.                          *)
LEMMA ResizedType ==
    ASSUME NEW pod \in HASPodInfo, NEW quota \in Int, NEW rps \in Nat
    PROVE  Resized(pod, quota, rps) \in HASPodInfo
BY DEF Resized, HASPodInfo

(* A planned action keeps the plan a list of actions.                      *)
LEMMA ActType ==
    ASSUME TypeOK, NEW type \in {-1, 0, 1}, NEW pod \in HASPodInfo
    PROVE  Append(actions, Act(type, pod)) \in Seq(HASAction)
<1>1. Act(type, pod) \in HASAction
  BY DEF Act, HASAction
<1> QED
  BY <1>1 DEF TypeOK

(* The pod the loop is at is a pod, and may be replaced by one.            *)
LEMMA ListedPodType ==
    ASSUME TypeOK, idx <= Len(pods)
    PROVE  /\ pods[idx] \in HASPodInfo
           /\ idx \in 1 .. Len(pods)
           /\ \A pod \in HASPodInfo : [pods EXCEPT ![idx] = pod] \in Seq(HASPodInfo)
<1>1. idx \in 1 .. Len(pods)
  BY DEF TypeOK
<1> QED
  BY <1>1, ElementOfSeq, ExceptSeq DEF TypeOK

(* Planning a pod leaves a ledger, a list of actions and a number.         *)
LEMMA PlanPodType ==
    ASSUME TypeOK, cur \in Func,
           NEW gpus, IsLedger(gpus), DOMAIN gpus = DOMAIN hasGPUs, NEW g \in DOMAIN gpus,
           NEW sm \in Int, NEW quota \in Int, NEW rps \in Nat,
           PlanPod(gpus, g, sm, quota, rps)
    PROVE  /\ IsLedger(hasGPUs') /\ DOMAIN hasGPUs' = DOMAIN hasGPUs
           /\ actions' \in Seq(HASAction)
           /\ deltaR' \in Int
<1> DEFINE n == Provisional(cur, quota, sm)
           pod(r) == [name |-> n, gpu |-> g, sm |-> EffectiveSM(gpus[g], r, sm),
                      quota |-> quota, rps |-> rps]
<1>1. PICK r \in FindOptimalRowIdx(gpus[g], sm) :
          /\ hasGPUs' = addPodtoHASGPU(gpus, g, n, sm, quota, r)
          /\ actions' = Append(actions, Act(1, pod(r)))
          /\ deltaR' = deltaR - 10 * rps
  BY DEF PlanPod
<1>2. r \in Row
  BY OptimalRowIsRow
<1>3. n \in Name /\ g \in GPUId
  BY DEF Provisional, Name, IsLedger
<1> HIDE DEF n
<1>4. EffectiveSM(gpus[g], r, sm) \in Int
  BY <1>2, EffectiveSMType DEF IsLedger
<1>5. pod(r) \in HASPodInfo
  BY <1>3, <1>4 DEF HASPodInfo
<1> HIDE DEF pod
<1>6. actions' \in Seq(HASAction)
  BY <1>1, <1>5, ActType
<1>7. /\ IsLedger(addPodtoHASGPU(gpus, g, n, sm, quota, r))
      /\ DOMAIN addPodtoHASGPU(gpus, g, n, sm, quota, r) = DOMAIN gpus \cup {g}
  <2>1. \A h \in GPUId, m \in Name, x \in Int, y \in Int, z \in Row :
           /\ IsLedger(addPodtoHASGPU(gpus, h, m, x, y, z))
           /\ DOMAIN addPodtoHASGPU(gpus, h, m, x, y, z) = DOMAIN gpus \cup {h}
    BY AddPodIsLedger
  <2>2. \A x \in Int, y \in Int, z \in Row :
           /\ IsLedger(addPodtoHASGPU(gpus, g, n, x, y, z))
           /\ DOMAIN addPodtoHASGPU(gpus, g, n, x, y, z) = DOMAIN gpus \cup {g}
    BY <1>3, <2>1
  <2>3. \A x \in Int, y \in Int :
           /\ IsLedger(addPodtoHASGPU(gpus, g, n, x, y, r))
           /\ DOMAIN addPodtoHASGPU(gpus, g, n, x, y, r) = DOMAIN gpus \cup {g}
    BY <1>2, <2>2
  <2> QED
    BY <2>3, Zenon
<1>8. IsLedger(hasGPUs') /\ DOMAIN hasGPUs' = DOMAIN hasGPUs
  BY <1>1, <1>7
<1>9. deltaR' \in Int
  BY <1>1 DEF TypeOK
<1> QED
  BY <1>6, <1>8, <1>9

(* Claiming rows changes no more than their partitions.                    *)
LEMMA ClaimIsLedger ==
    ASSUME NEW gpus, IsLedger(gpus), NEW g \in DOMAIN gpus, NEW R, NEW sm \in Int
    PROVE  /\ IsLedger(Put(gpus, g, updateSMConfigForGPU(gpus[g], R, sm)))
           /\ DOMAIN Put(gpus, g, updateSMConfigForGPU(gpus[g], R, sm)) = DOMAIN gpus
<1>1. IsHASGPUInfo(updateSMConfigForGPU(gpus[g], R, sm)) /\ g \in GPUId
  BY UpdateSMConfigType DEF IsLedger
<1> QED
  BY <1>1, PutIsLedger DEF Put

(* The pod of the action that is carried out next, and the bookkeeping     *)
(* after an API call.                                                      *)
LEMMA TargetType ==
    ASSUME TypeOK, actions # <<>>
    PROVE  Target \in HASPodInfo /\ Tail(actions) \in Seq(HASAction)
<1>1. Head(actions) \in HASAction /\ Tail(actions) \in Seq(HASAction)
  BY HeadTailProperties DEF TypeOK
<1> QED
  BY <1>1 DEF Target, HASAction

(* The entries of podsInfo stay sets of names.                             *)
LEMMA TrackType ==
    ASSUME TypeOK, cur \in DOMAIN podsInfo, NEW n \in Name
    PROVE  IsMapOf(Track(n), Func, SUBSET Name) /\ cur \in DOMAIN Track(n)
<1>1. cur \in Func /\ podsInfo[cur] \cup {n} \in SUBSET Name
  BY DEF TypeOK, IsMapOf
<1>2. IsMapOf(Track(n), Func, SUBSET Name)
  BY <1>1, PutIsMapOf DEF Track, TypeOK
<1> QED
  BY <1>2 DEF Track, Put

(* A FaSTPod with another quota is a FaSTPod.                              *)
LEMMA SetPodQuotaType ==
    ASSUME NEW m, IsMapOf(m, Name, FaSTPod), NEW n \in DOMAIN m, NEW quota \in Int
    PROVE  IsMapOf([m EXCEPT ![n].quota = quota], Name, FaSTPod)
BY DEF IsMapOf, FaSTPod

(* The process is started in a well-typed state.                           *)
LEMMA TypeOKInit == Init => TypeOK
<1> SUFFICES ASSUME Init PROVE TypeOK
  OBVIOUS
<1>1. /\ IsLedger(hasGPUs) /\ DOMAIN hasGPUs = {}
      /\ IsMapOf(fastPod, Name, FaSTPod) /\ IsMapOf(podsInfo, Func, SUBSET Name)
  BY EmptyMapType DEF Init
<1> QED
  BY <1>1, BoundsAssumption DEF Init, TypeOK, PC, BetweenFunctions, Panics

(* TypeOK is inductive: one step per action, one conjunct at a time.       *)
LEMMA TypeOKStep == TypeOK /\ [Next]_vars => TypeOK'
<1> SUFFICES ASSUME TypeOK, [Next]_vars PROVE TypeOK'
  OBVIOUS
<1> USE BoundsAssumption
<1> USE DEF PC, BetweenFunctions, Panics, ledgerVars, localVars, scalerVars, clusterVars,
            memoryVars, boundVars, Forget, NextFunction, LoseMemory, ApplyRest, NextAction,
            Planned, HeadIs, Account, Outcomes, ReadOutcomes
<1>1. CASE Start
  <2>1. IsLedger(hasGPUs') /\ nodeGPUMap' \subseteq GPU
    BY <1>1, TopologyAssumption, BareGPUType DEF Start, getGPUDeviceTopology, IsLedger, GPUId
  <2> QED
    BY <1>1, <2>1 DEF Start, getGPUDeviceTopology, TypeOK
<1>2. CASE RestartAfterPanic
  <2>1. IsLedger(hasGPUs') /\ DOMAIN hasGPUs' = {} /\ IsMapOf(podsInfo', Func, SUBSET Name)
    BY <1>2, EmptyMapType DEF RestartAfterPanic
  <2> QED
    BY <1>2, <2>1 DEF RestartAfterPanic, TypeOK
<1>3. CASE Tick
  BY <1>3 DEF Tick, TypeOK
<1>4. CASE TickEnds
  BY <1>4 DEF TickEnds, TypeOK
<1>5. CASE VisitNew
  <2>1. PICK f \in todo : podsInfo' = Put(podsInfo, f, {}) /\ cur' = f /\ todo' = todo \ {f}
    BY <1>5 DEF VisitNew
  <2>2. IsMapOf(podsInfo', Func, SUBSET Name)
    BY <2>1, PutIsMapOf DEF TypeOK
  <2>3. cur' \in DOMAIN podsInfo'
    BY <2>1 DEF Put
  <2> QED
    BY <1>5, <2>1, <2>2, <2>3 DEF VisitNew, TypeOK
<1>6. CASE VisitKnown
  BY <1>6 DEF VisitKnown, TypeOK
<1>7. CASE InitCheckFails
  BY <1>7 DEF InitCheckFails, TypeOK
<1>8. CASE InitCheckFindsNone
  BY <1>8 DEF InitCheckFindsNone, TypeOK
<1>9. CASE InitCheckFindsPods
  <2>1. cur \in Func /\ PodsOf(cur) \subseteq Name /\ PodsOf(cur) \subseteq DOMAIN fastPod
    BY <1>9, CurType, PodsOfType DEF InitCheckFindsPods
  <2>2. podsInfo' = Put(podsInfo, cur, PodsOf(cur)) /\ cur' = cur
    BY <1>9 DEF InitCheckFindsPods
  <2>3. IsMapOf(podsInfo', Func, SUBSET Name)
    BY <2>1, <2>2, PutIsMapOf DEF TypeOK
  <2>4. cur' \in DOMAIN podsInfo'
    BY <2>2 DEF Put
  <2>5. fastPods' \in [Func -> SUBSET Name]
    BY <1>9, <2>1 DEF InitCheckFindsPods, TypeOK
  <2> QED
    BY <1>9, <2>1, <2>3, <2>4, <2>5 DEF InitCheckFindsPods, TypeOK
<1>10. CASE AdoptPod
  <2>1. PICK n \in unread :
          LET pod  == fastPod[n]
              rows == RowsOf(InfoOf(hasGPUs, pod.gpu), n)
              r    == IF rows = {} THEN 1 ELSE Max(rows)
          IN  /\ hasGPUs' = addPodtoHASGPU(hasGPUs, pod.gpu, n, pod.sm, ReadQuota(pod.quota), r)
              /\ unread' = unread \ {n}
    BY <1>10 DEF AdoptPod
  <2> DEFINE rows == RowsOf(InfoOf(hasGPUs, fastPod[n].gpu), n)
             r    == IF rows = {} THEN 1 ELSE Max(rows)
  <2>2. n \in Name /\ fastPod[n] \in FaSTPod
    BY DEF TypeOK, IsMapOf
  <2>3. r \in Row
    BY GreatestOrFirstRow DEF RowsOf
  <2> HIDE DEF r
  <2>4. IsLedger(addPodtoHASGPU(hasGPUs, fastPod[n].gpu, n, fastPod[n].sm,
                                 ReadQuota(fastPod[n].quota), r))
    BY <2>2, <2>3, ReadQuotaType, AddPodIsLedger DEF TypeOK, FaSTPod
  <2>5. IsLedger(hasGPUs')
    BY <2>1, <2>4 DEF r
  <2> QED
    BY <1>10, <2>1, <2>5 DEF AdoptPod, TypeOK
<1>11. CASE AdoptEnds
  BY <1>11 DEF AdoptEnds, TypeOK
<1>12. CASE InitPod
  <2>0. PICK g \in InitGPUs, n \in FreshName(cur), o \in Outcomes("create"),
             config \in InitialConfig[cur] :
          \E r \in FindOptimalRowIdx(InfoOf(hasGPUs, g), config.sm) :
            LET seen == o = "ok" /\ Admitted(o)
            IN  /\ fastPod' = AfterCreate(o, n, [gpu |-> g, sm |-> config.sm, quota |-> config.quota])
                /\ hasGPUs' = IF seen THEN addPodtoHASGPU(hasGPUs, g, n, config.sm, config.quota, r)
                                      ELSE hasGPUs
                /\ podsInfo' = IF seen THEN Track(n) ELSE podsInfo
                /\ Account(o)
    BY <1>12 DEF InitPod, configs2FaSTPods
  <2>1. PICK r \in FindOptimalRowIdx(InfoOf(hasGPUs, g), config.sm) :
          LET seen == o = "ok" /\ Admitted(o)
          IN  /\ fastPod' = AfterCreate(o, n, [gpu |-> g, sm |-> config.sm, quota |-> config.quota])
              /\ hasGPUs' = IF seen THEN addPodtoHASGPU(hasGPUs, g, n, config.sm, config.quota, r)
                                    ELSE hasGPUs
              /\ podsInfo' = IF seen THEN Track(n) ELSE podsInfo
              /\ Account(o)
    BY <2>0
  <2>2. /\ cur \in Func /\ cur \in DOMAIN podsInfo /\ podsInfo[cur] \subseteq Name
        /\ g \in GPUId /\ n \in Name /\ r \in Row
        /\ config.sm \in Int /\ config.quota \in Int
    <3>1. g \in GPUId
      BY DEF InitGPUs, RetrieveUsedGPU, RetrieveNewGPU, LeastHGO, TypeOK, IsLedger, GPUId
    <3>2. cur \in Func /\ cur \in DOMAIN podsInfo /\ podsInfo[cur] \subseteq Name
      BY <1>12, CurType DEF InitPod, configs2FaSTPods
    <3> QED
      BY <3>1, <3>2, FreshNameType, OptimalRowIsRow, ConfigAssumption
  <2>3. IsMapOf(fastPod', Name, FaSTPod)
    <3>1. [gpu |-> g, sm |-> config.sm, quota |-> config.quota] \in FaSTPod
      BY <2>2 DEF FaSTPod
    <3> QED
      BY <2>1, <2>2, <3>1, PutIsMapOf DEF AfterCreate, TypeOK
  <2>4. IsLedger(hasGPUs')
    BY <2>1, <2>2, AddPodIsLedger DEF TypeOK
  <2>5. IsMapOf(podsInfo', Func, SUBSET Name) /\ cur \in DOMAIN podsInfo'
    BY <2>1, <2>2, TrackType DEF TypeOK
  <2>6. unread = {}
    BY <1>12 DEF InitPod, configs2FaSTPods, TypeOK
  <2> QED
    BY <1>12, <2>1, <2>2, <2>3, <2>4, <2>5, <2>6 DEF InitPod, configs2FaSTPods, AfterInit, TypeOK
<1>13. CASE InitPodPanics
  BY <1>13 DEF InitPodPanics, TypeOK
<1>14. CASE QueryFails
  BY <1>14 DEF QueryFails, TypeOK
<1>15. CASE Query
  BY <1>15, PredsAssumption DEF Query, TypeOK
<1>16. CASE QueryForNothing
  BY <1>16 DEF QueryForNothing, TypeOK
<1>17. CASE CheckGivesUp
  BY <1>17 DEF CheckGivesUp, TypeOK
<1>18. CASE CheckFindsPods
  <2>1. cur \in Func /\ PodsOf(cur) \subseteq Name /\ PodsOf(cur) \subseteq DOMAIN fastPod
    BY <1>18, CurType, PodsOfType DEF CheckFindsPods
  <2>2. fastPods' \in [Func -> SUBSET Name]
    BY <1>18, <2>1 DEF CheckFindsPods, TypeOK
  <2> QED
    BY <1>18, <2>1, <2>2 DEF CheckFindsPods, TypeOK
<1>19. CASE ConvertPod
  <2>1. PICK n \in unread : \E cap \in rapp(cur, fastPod[n].sm, ReadQuota(fastPod[n].quota)) :
          /\ pods' = Append(pods, PodInfoOf(n, cap))
          /\ total' = total + cap
          /\ unread' = unread \ {n}
    BY <1>19 DEF ConvertPod
  <2>0. PICK cap \in rapp(cur, fastPod[n].sm, ReadQuota(fastPod[n].quota)) :
          /\ pods' = Append(pods, PodInfoOf(n, cap))
          /\ total' = total + cap
          /\ unread' = unread \ {n}
    BY <2>1
  <2>2. n \in Name /\ fastPod[n] \in FaSTPod
    BY DEF TypeOK, IsMapOf
  <2>3. cap \in Nat /\ PodInfoOf(n, cap) \in HASPodInfo
    BY <2>2, RappType, ReadQuotaType DEF PodInfoOf, FaSTPod, HASPodInfo
  <2>4. pods' \in Seq(HASPodInfo) /\ total' \in Nat
    BY <2>0, <2>3 DEF TypeOK, HASPodInfo
  <2> QED
    BY <1>19, <2>0, <2>4 DEF ConvertPod, TypeOK
<1>20. CASE ConvertEnds
  BY <1>20 DEF ConvertEnds, TypeOK
<1>21. CASE Decide
  <2>1. pods' \in Seq(HASPodInfo)
    <3>1. CASE BeginScaleUp
      BY <3>1, SortedByType DEF BeginScaleUp, TypeOK
    <3>2. CASE BeginScaleDown
      BY <3>2, SortedByType DEF BeginScaleDown, TypeOK
    <3> QED
      BY <1>21, <3>1, <3>2 DEF Decide
  <2>2. /\ pc = "decide" /\ pc' \in {"vertical", "shrink"}
        /\ deltaR' \in {10 * pred - 9 * total, 9 * total - 10 * pred}
        /\ idx' = 1
        /\ UNCHANGED <<ledgerVars, cur, pred, total, pending, marked, actions>>
    BY <1>21, Zenon DEF Decide, BeginScaleUp, BeginScaleDown
  <2>3. deltaR' \in Int
    BY <2>2 DEF TypeOK
  <2>4. UNCHANGED <<clusterVars, memoryVars, boundVars>>
    BY <1>21 DEF Decide
  <2> QED
    BY <2>1, <2>2, <2>3, <2>4 DEF TypeOK
<1>22. CASE NoScaling
  BY <1>22 DEF NoScaling, TypeOK
<1>23. CASE ApplyDelete
  <2>1. /\ cur \in Func /\ cur \in DOMAIN podsInfo /\ podsInfo[cur] \subseteq Name
        /\ Target \in HASPodInfo /\ actions' \in Seq(HASAction)
    BY <1>23, CurType, TargetType DEF ApplyDelete
  <2>2. PICK o \in Outcomes("delete") :
          LET n    == Target.name
              sent == n \in fastPods[cur]
              seen == sent /\ o = "ok" /\ Exists(o, n)
          IN  /\ fastPod' = IF sent THEN AfterDelete(o, n) ELSE fastPod
              /\ fastPods' = IF seen THEN [fastPods EXCEPT ![cur] = @ \ {n}] ELSE fastPods
              /\ podsInfo' = IF seen THEN Untrack(n) ELSE podsInfo
              /\ Account(o)
    BY <1>23 DEF ApplyDelete
  <2>3. IsMapOf(fastPod', Name, FaSTPod)
    BY <2>2, DropIsMapOf DEF AfterDelete, TypeOK
  <2>4. IsMapOf(podsInfo', Func, SUBSET Name) /\ cur \in DOMAIN podsInfo'
    <3>1. IsMapOf(Untrack(Target.name), Func, SUBSET Name)
      BY <2>1, PutIsMapOf DEF Untrack, TypeOK
    <3>2. cur \in DOMAIN Untrack(Target.name)
      BY DEF Untrack, Put
    <3> QED
      BY <2>1, <2>2, <3>1, <3>2 DEF TypeOK
  <2>5. fastPods' \in [Func -> SUBSET Name]
    BY <2>1, <2>2 DEF TypeOK
  <2>6. unread = {}
    BY <1>23 DEF ApplyDelete, TypeOK
  <2> QED
    BY <1>23, <2>1, <2>2, <2>3, <2>4, <2>5, <2>6 DEF ApplyDelete, TypeOK
<1>24. CASE ApplyUpdateUntracked
  BY <1>24 DEF ApplyUpdateUntracked, TypeOK
<1>25. CASE ApplyUpdate
  <2>1. /\ cur \in Func /\ cur \in DOMAIN podsInfo /\ podsInfo[cur] \subseteq Name
        /\ Target \in HASPodInfo /\ actions' \in Seq(HASAction)
    BY <1>25, CurType, TargetType DEF ApplyUpdate
  <2> DEFINE n     == Target.name
             g     == Target.gpu
             quota == IF Target.quota < 5 THEN 5 ELSE Target.quota
  <2>2. PICK o \in Outcomes("update") :
          /\ fastPod' = AfterUpdate(o, n, quota)
          /\ hasGPUs' = IF /\ o = "ok" /\ Exists(o, n)
                           /\ g \in DOMAIN hasGPUs /\ n \in DOMAIN hasGPUs[g].conf
                        THEN SetQuota(hasGPUs, g, n, quota) ELSE hasGPUs
          /\ Account(o)
    BY <1>25 DEF ApplyUpdate
  <2>3. n \in Name /\ quota \in Int
    BY <2>1 DEF HASPodInfo
  <2> HIDE DEF n, g, quota
  <2>4. IsMapOf(AfterUpdate(o, n, quota), Name, FaSTPod)
    BY <2>3, SetPodQuotaType DEF AfterUpdate, Exists, TypeOK
  <2>5. IsLedger(hasGPUs')
    BY <2>2, <2>3, SetQuotaIsLedger DEF TypeOK
  <2>6. unread = {}
    BY <1>25 DEF ApplyUpdate, TypeOK
  <2> QED
    BY <1>25, <2>1, <2>2, <2>4, <2>5, <2>6 DEF ApplyUpdate, TypeOK
<1>26. CASE ApplyCreateRefused \/ ApplyLookup
  <2>1. CASE ApplyCreateRefused
    <3>1. \E o \in ReadOutcomes("lookup") : Account(o)
      BY <2>1 DEF ApplyCreateRefused
    <3>2. faults' \in 0 .. MaxFaults
      BY <3>1 DEF TypeOK
    <3>3. actions' \in Seq(HASAction)
      BY <2>1, TargetType DEF ApplyCreateRefused
    <3> QED
      BY <2>1, <3>2, <3>3 DEF ApplyCreateRefused, TypeOK
  <2>2. CASE ApplyLookup
    BY <2>2 DEF ApplyLookup, TypeOK
  <2> QED
    BY <1>26, <2>1, <2>2
<1>27. CASE ApplyCreate
  <2>1. /\ cur \in Func /\ cur \in DOMAIN podsInfo /\ podsInfo[cur] \subseteq Name
        /\ Target \in HASPodInfo /\ actions' \in Seq(HASAction)
    BY <1>27, CurType, TargetType DEF ApplyCreate, configs2FaSTPods
  <2> DEFINE pod == [gpu |-> Target.gpu, sm |-> Target.sm, quota |-> Target.quota]
  <2>2. PICK n \in FreshName(cur), o \in Outcomes("create") :
          LET seen == o = "ok" /\ Admitted(o)
          IN  /\ fastPod' = AfterCreate(o, n, pod)
              /\ fastPods' = IF seen THEN [fastPods EXCEPT ![cur] = @ \cup {n}] ELSE fastPods
              /\ podsInfo' = IF seen THEN Track(n) ELSE podsInfo
              /\ Account(o)
    BY <1>27 DEF ApplyCreate, configs2FaSTPods
  <2>3. n \in Name /\ pod \in FaSTPod
    BY <2>1, FreshNameType DEF HASPodInfo, FaSTPod
  <2> HIDE DEF pod
  <2>4. IsMapOf(fastPod', Name, FaSTPod)
    BY <2>2, <2>3, PutIsMapOf DEF AfterCreate, TypeOK
  <2>5. IsMapOf(podsInfo', Func, SUBSET Name) /\ cur \in DOMAIN podsInfo'
    BY <2>1, <2>2, <2>3, TrackType DEF TypeOK
  <2>6. fastPods' \in [Func -> SUBSET Name]
    BY <2>1, <2>2, <2>3 DEF TypeOK
  <2>7. unread = {}
    BY <1>27 DEF ApplyCreate, configs2FaSTPods, TypeOK
  <2> QED
    BY <1>27, <2>1, <2>2, <2>4, <2>5, <2>6, <2>7 DEF ApplyCreate, configs2FaSTPods, TypeOK
<1>28. CASE ApplyEnds
  BY <1>28 DEF ApplyEnds, TypeOK
<1>29. CASE Crash
  <2>1. IsLedger(hasGPUs') /\ DOMAIN hasGPUs' = {} /\ IsMapOf(podsInfo', Func, SUBSET Name)
    BY <1>29, EmptyMapType DEF Crash
  <2> QED
    BY <1>29, <2>1 DEF Crash, TypeOK
<1>30. CASE DeleteFunc
  BY <1>30 DEF DeleteFunc, TypeOK
<1>31. CASE AddFunc
  BY <1>31 DEF AddFunc, TypeOK
<1>32. CASE Collect
  <2>1. PICK n \in DOMAIN fastPod : fastPod' = Drop(fastPod, {n})
    BY <1>32 DEF Collect
  <2>2. IsMapOf(fastPod', Name, FaSTPod)
    BY <2>1, DropIsMapOf DEF TypeOK
  <2>3. unread = {}
    BY <1>32 DEF Collect, EnvMayMove, LocalPCs, TypeOK
  <2> QED
    BY <1>32, <2>2, <2>3 DEF Collect, TypeOK
<1>33. CASE CooldownExpires
  BY <1>33 DEF CooldownExpires, TypeOK
<1>34. CASE Autoscale /\ VerticalScale
  <2> DEFINE pod   == pods[idx]
             avail == RetriveMaxAvailQuotaForPod(hasGPUs[pod.gpu], pod.name)
             quota(n) == pod.quota + DeltaIq * n
             new(n, c) == Resized(pod, quota(n), c)
  <2>0. PICK n \in 0 .. 100 \div DeltaIq :
          \E cap \in CapRaised(pod, n) :
             /\ deltaR' = deltaR - Gain(pod, cap)
             /\ pods' = [pods EXCEPT ![idx] = new(n, cap)]
             /\ actions' = Append(actions, Act(0, new(n, cap)))
             /\ hasGPUs' = SetQuota(hasGPUs, pod.gpu, pod.name, new(n, cap).quota)
    BY <1>34 DEF VerticalScale
  <2>1. PICK cap \in CapRaised(pod, n) :
          /\ deltaR' = deltaR - Gain(pod, cap)
          /\ pods' = [pods EXCEPT ![idx] = new(n, cap)]
          /\ actions' = Append(actions, Act(0, new(n, cap)))
          /\ hasGPUs' = SetQuota(hasGPUs, pod.gpu, pod.name, new(n, cap).quota)
    BY <2>0
  <2>2. idx <= Len(pods) /\ pod.gpu \in DOMAIN hasGPUs
    BY <1>34 DEF VerticalScale, OnAllocatedGPU
  <2>3. pod \in HASPodInfo
    BY <2>2, ListedPodType
  <2>4. quota(n) \in Int /\ pod.name \in Name /\ pod.rps \in Nat
    BY <2>3 DEF HASPodInfo, DeltaIq
  <2>6. cap \in Nat /\ Gain(pod, cap) \in Int
    BY <2>3, LoopAnswerType
  <2>5. new(n, cap) \in HASPodInfo /\ new(n, cap).quota \in Int
    BY <2>3, <2>4, <2>6, ResizedType DEF Resized
  <2> HIDE DEF new, quota, pod
  <2>7. pods' \in Seq(HASPodInfo)
    BY <2>1, <2>2, <2>5, ListedPodType
  <2>8. actions' \in Seq(HASAction)
    BY <2>1, <2>5, ActType
  <2>9. IsLedger(hasGPUs')
    BY <2>1, <2>2, <2>4, <2>5, SetQuotaIsLedger DEF TypeOK
  <2>10. deltaR' \in Int /\ idx' \in Nat \ {0}
    BY <1>34, <2>1, <2>6 DEF VerticalScale, TypeOK
  <2> QED
    BY <1>34, <2>7, <2>8, <2>9, <2>10 DEF Autoscale, VerticalScale, TypeOK
<1>35. CASE Autoscale /\ VerticalPanics
  BY <1>35 DEF VerticalPanics, Autoscale, TypeOK
<1>36. CASE Autoscale /\ VerticalDone
  <2>1. pending' \subseteq DOMAIN hasGPUs /\ pending' \subseteq GPUId
    BY <1>36 DEF VerticalDone, RetrieveUsedGPU, TypeOK, IsLedger
  <2> QED
    BY <1>36, <2>1 DEF Autoscale, VerticalDone, TypeOK
<1>37. CASE Autoscale /\ HorizontalScale
  <2>1. PICK g \in LeastHGO(hasGPUs, pending) :
          \E o \in Offers(hasGPUs[g]) : \E cap \in CapOffered(hasGPUs[g], o) :
             /\ PlanPod(Put(hasGPUs, g, Claimed(hasGPUs[g])), g, hasGPUs[g].sm[o[1]], o[2], cap)
             /\ pending' = pending \ {g}
    BY <1>37 DEF HorizontalScale
  <2>2. PICK o \in Offers(hasGPUs[g]) : \E cap \in CapOffered(hasGPUs[g], o) :
          /\ PlanPod(Put(hasGPUs, g, Claimed(hasGPUs[g])), g, hasGPUs[g].sm[o[1]], o[2], cap)
          /\ pending' = pending \ {g}
    BY <2>1
  <2>0. PICK cap \in CapOffered(hasGPUs[g], o) :
          /\ PlanPod(Put(hasGPUs, g, Claimed(hasGPUs[g])), g, hasGPUs[g].sm[o[1]], o[2], cap)
          /\ pending' = pending \ {g}
    BY <2>2
  <2>3. pc = "horizontal" /\ g \in DOMAIN hasGPUs /\ IsHASGPUInfo(hasGPUs[g])
    BY <1>37 DEF HorizontalScale, LeastHGO, TypeOK, IsLedger
  <2>4. cur \in Func
    BY <2>3, CurType
  <2>5. o[1] \in Row /\ o[2] \in Int
    BY DEF Offers, OpenRows, DeltaIq
  <2>6. hasGPUs[g].sm[o[1]] \in Int
    BY <2>3, <2>5 DEF IsHASGPUInfo
  <2>7. /\ IsLedger(Put(hasGPUs, g, Claimed(hasGPUs[g])))
        /\ DOMAIN Put(hasGPUs, g, Claimed(hasGPUs[g])) = DOMAIN hasGPUs
    BY <2>3, OptimalSMType, ClaimIsLedger DEF Claimed, TypeOK
  <2>8. /\ IsLedger(hasGPUs') /\ DOMAIN hasGPUs' = DOMAIN hasGPUs
        /\ actions' \in Seq(HASAction) /\ deltaR' \in Int
    BY <2>0, <2>3, <2>4, <2>5, <2>6, <2>7, OfferAnswerType, PlanPodType
  <2> QED
    BY <1>37, <2>0, <2>8 DEF Autoscale, HorizontalScale, TypeOK
<1>38. CASE Autoscale /\ HorizontalSkip
  <2>1. PICK g \in LeastHGO(hasGPUs, pending) :
          /\ hasGPUs' = Put(hasGPUs, g, Claimed(hasGPUs[g]))
          /\ pending' = pending \ {g}
    BY <1>38 DEF HorizontalSkip
  <2>2. pc = "horizontal" /\ g \in DOMAIN hasGPUs
    BY <1>38 DEF HorizontalSkip, LeastHGO, TypeOK
  <2>3. IsLedger(hasGPUs') /\ DOMAIN hasGPUs' = DOMAIN hasGPUs
    BY <2>1, <2>2, OptimalSMType, ClaimIsLedger DEF Claimed, TypeOK
  <2> QED
    BY <1>38, <2>1, <2>2, <2>3 DEF Autoscale, HorizontalSkip, TypeOK
<1>39. CASE Autoscale /\ HorizontalDone
  BY <1>39 DEF HorizontalDone, Autoscale, TypeOK
<1>40. CASE Autoscale /\ NewGPUPanics
  BY <1>40 DEF NewGPUPanics, NoUsedGPULeft, Autoscale, TypeOK
<1>41. CASE Autoscale /\ NoNewGPU
  BY <1>41 DEF NoNewGPU, NoUsedGPULeft, Autoscale, TypeOK
<1>42. CASE Autoscale /\ Fallback
  <2>1. PICK g \in LeastHGO(hasGPUs, DOMAIN hasGPUs) :
          LET info == hasGPUs[g]
              r    == Min(OpenRows(info))
              sm   == IF info.sm[r] <= 0 THEN 50 ELSE info.sm[r]
          IN  /\ OpenRows(info) # {}
              /\ \E quota \in 1 .. MinQuota : \E cap \in rapp(cur, sm, quota) :
                   PlanPod(Put(hasGPUs, g, updateSMConfigForGPU(info, {r}, 50)), g, sm, quota,
                           cap)
    BY <1>42 DEF Fallback
  <2> DEFINE info == hasGPUs[g]
             r    == Min(OpenRows(info))
             sm   == IF info.sm[r] <= 0 THEN 50 ELSE info.sm[r]
  <2>2. PICK quota \in 1 .. MinQuota, cap \in Nat :
          PlanPod(Put(hasGPUs, g, updateSMConfigForGPU(info, {r}, 50)), g, sm, quota, cap)
    BY <2>1, RappType
  <2>3. g \in DOMAIN hasGPUs /\ IsHASGPUInfo(info)
    BY DEF LeastHGO, TypeOK, IsLedger
  <2>4. r \in Row
    BY <2>1, LeastRow DEF OpenRows
  <2>5. sm \in Int
    BY <2>3, <2>4 DEF IsHASGPUInfo
  <2>6. cur \in Func /\ quota \in Int
    BY <1>42, CurType DEF Fallback, MinQuota
  <2> HIDE DEF r, sm
  <2>7. /\ IsLedger(Put(hasGPUs, g, updateSMConfigForGPU(info, {r}, 50)))
        /\ DOMAIN Put(hasGPUs, g, updateSMConfigForGPU(info, {r}, 50)) = DOMAIN hasGPUs
    BY <2>3, ClaimIsLedger DEF TypeOK
  <2>8. /\ IsLedger(hasGPUs') /\ actions' \in Seq(HASAction) /\ deltaR' \in Int
    BY <2>2, <2>3, <2>5, <2>6, <2>7, PlanPodType
  <2> QED
    BY <1>42, <2>8 DEF Autoscale, Fallback, TypeOK
<1>43. CASE Autoscale /\ FallbackFindsNothing
  BY <1>43 DEF FallbackFindsNothing, Autoscale, TypeOK
<1>44. CASE Autoscale /\ ShrinkPod
  <2> DEFINE pod == pods[idx]
             quota(n) == pod.quota - DeltaIq * n
             new(n, c) == Resized(pod, quota(n), c)
             shrunk(n, c) ==
               /\ deltaR' = deltaR - Loss(pod, c)
               /\ pods' = [pods EXCEPT ![idx] = new(n, c)]
               /\ actions' = Append(actions, Act(0, new(n, c)))
               /\ hasGPUs' = IF pod.gpu \in DOMAIN hasGPUs
                             THEN SetQuota(hasGPUs, pod.gpu, pod.name, new(n, c).quota)
                             ELSE hasGPUs
               /\ marked' = IF new(n, c).quota <= DeltaIq THEN marked \cup {pod.gpu} ELSE marked
  <2>0. PICK n \in 1 .. pod.quota \div DeltaIq :
          \E cap \in CapLowered(pod, n) : shrunk(n, cap)
    BY <1>44 DEF ShrinkPod
  <2>1. PICK cap \in CapLowered(pod, n) : shrunk(n, cap)
    BY <2>0
  <2>2. idx <= Len(pods)
    BY <1>44 DEF ShrinkPod
  <2>3. pod \in HASPodInfo
    BY <2>2, ListedPodType
  <2>4. quota(n) \in Int /\ pod.name \in Name /\ pod.gpu \in GPUId
    BY <2>3 DEF HASPodInfo, DeltaIq
  <2>6. cap \in Nat /\ Loss(pod, cap) \in Int
    BY <2>3, LoopAnswerType
  <2>5. new(n, cap) \in HASPodInfo /\ new(n, cap).quota \in Int
    BY <2>3, <2>4, <2>6, ResizedType DEF Resized
  <2> HIDE DEF new, quota, pod
  <2>7. pods' \in Seq(HASPodInfo)
    BY <2>1, <2>2, <2>5, ListedPodType
  <2>8. actions' \in Seq(HASAction)
    BY <2>1, <2>5, ActType
  <2>9. IsLedger(hasGPUs')
    BY <2>1, <2>4, <2>5, SetQuotaIsLedger DEF TypeOK
  <2>10. deltaR' \in Int /\ idx' \in Nat \ {0} /\ marked' \subseteq GPUId
    BY <1>44, <2>1, <2>4, <2>6 DEF ShrinkPod, TypeOK
  <2> QED
    BY <1>44, <2>7, <2>8, <2>9, <2>10 DEF Autoscale, ShrinkPod, TypeOK
<1>45. CASE Autoscale /\ ShrinkSkip
  BY <1>45 DEF ShrinkSkip, Autoscale, TypeOK
<1>46. CASE Autoscale /\ ShrinkDone
  BY <1>46 DEF ShrinkDone, Autoscale, TypeOK
<1>47. CASE Autoscale /\ EvictPod
  <2> DEFINE pod == pods[idx]
  <2>1. pc = "evict" /\ idx <= Len(pods)
    BY <1>47 DEF EvictPod, MayEvict
  <2>2. pod \in HASPodInfo /\ idx \in 1 .. Len(pods)
    BY <2>1, ListedPodType
  <2>3. pods' \in Seq(HASPodInfo)
    BY <1>47, <2>2, RemoveAtType DEF EvictPod, TypeOK
  <2>4. actions' \in Seq(HASAction)
    BY <1>47, <2>2, ActType DEF EvictPod
  <2>5. IsLedger(hasGPUs')
    BY <1>47, RemovePodIsLedger DEF EvictPod, TypeOK
  <2>6. pod.rps \in Nat /\ pod.gpu \in GPUId
    BY <2>2 DEF HASPodInfo
  <2>7. deltaR' \in Int
    BY <1>47, <2>6 DEF EvictPod, TypeOK
  <2>8. marked' \subseteq GPUId
    BY <1>47, <2>6 DEF EvictPod, TypeOK
  <2> QED
    BY <1>47, <2>1, <2>3, <2>4, <2>5, <2>7, <2>8 DEF Autoscale, EvictPod, TypeOK
<1>48. CASE Autoscale /\ EvictSkip
  BY <1>48 DEF EvictSkip, Autoscale, TypeOK
<1>49. CASE Autoscale /\ EvictDone
  BY <1>49 DEF EvictDone, Autoscale, TypeOK
<1>50. CASE Autoscale /\ CleanUp
  <2>1. IsLedger(hasGPUs')
    BY <1>50, DropIsLedger DEF CleanUp, TypeOK
  <2>2. cur \in Func
    BY <1>50, CurType DEF CleanUp
  <2> QED
    BY <1>50, <2>1, <2>2 DEF Autoscale, CleanUp, TypeOK
<1>51. CASE UNCHANGED vars
  BY <1>51 DEF vars, TypeOK
<1> QED
  BY <1>1, <1>2, <1>3, <1>4, <1>5, <1>6, <1>7, <1>8, <1>9, <1>10, <1>11,
     <1>12, <1>13, <1>14, <1>15, <1>16, <1>17, <1>18, <1>19, <1>20, <1>21,
     <1>22, <1>23, <1>24, <1>25, <1>26, <1>27, <1>28, <1>29, <1>30, <1>31,
     <1>32, <1>33, <1>34, <1>35, <1>36, <1>37, <1>38, <1>39, <1>40, <1>41,
     <1>42, <1>43, <1>44, <1>45, <1>46, <1>47, <1>48, <1>49, <1>50, <1>51 DEF
     Next, ControllerStep, EnvStep, InitialiseStep, ObserveStep, ApplyStep,
     Autoscale, AutoscaleStep

(* Every variable holds what it is meant to hold, in every state.          *)
THEOREM TypeCorrect == Spec => []TypeOK
BY TypeOKInit, TypeOKStep, PTL DEF Spec

-----------------------------------------------------------------------------
(* The steps that write the ledger; every other step leaves it alone.      *)
LEMMA LedgerWriters ==
    ASSUME [Next]_vars
    PROVE  \/ hasGPUs' = hasGPUs
           \/ Start \/ RestartAfterPanic \/ Crash
           \/ AdoptPod \/ InitPod \/ ApplyUpdate
           \/ VerticalScale \/ HorizontalScale \/ HorizontalSkip \/ Fallback
           \/ ShrinkPod \/ EvictPod \/ CleanUp
<1> USE DEF ledgerVars, scalerVars
<1>1. CASE InitialiseStep
  BY <1>1 DEF InitialiseStep, InitCheckFails, InitCheckFindsNone, InitCheckFindsPods, AdoptEnds,
              InitPodPanics
<1>2. CASE ObserveStep
  BY <1>2, Zenon DEF ObserveStep, QueryFails, Query, QueryForNothing, CheckGivesUp, CheckFindsPods,
              ConvertPod, ConvertEnds, Decide, NoScaling, BeginScaleUp, BeginScaleDown
<1>3. CASE Autoscale
  BY <1>3 DEF Autoscale, AutoscaleStep, VerticalPanics, VerticalDone, HorizontalDone,
              NewGPUPanics, NoNewGPU, FallbackFindsNothing, ShrinkSkip, ShrinkDone, EvictSkip,
              EvictDone
<1>4. CASE ApplyStep
  BY <1>4 DEF ApplyStep, ApplyDelete, ApplyUpdateUntracked, ApplyCreateRefused, ApplyLookup,
              ApplyCreate, configs2FaSTPods, ApplyEnds
<1>5. CASE Tick \/ TickEnds \/ VisitNew \/ VisitKnown
  BY <1>5 DEF Tick, TickEnds, VisitNew, VisitKnown
<1>6. CASE DeleteFunc \/ AddFunc \/ Collect \/ CooldownExpires
  BY <1>6 DEF DeleteFunc, AddFunc, Collect, CooldownExpires
<1>7. CASE UNCHANGED vars
  BY <1>7 DEF vars
<1> QED
  BY <1>1, <1>2, <1>3, <1>4, <1>5, <1>6, <1>7 DEF Next, ControllerStep, EnvStep

(* Planning a pod repartitions no row in use.                              *)
LEMMA PlanPodKeepsRows ==
    ASSUME NEW gpus, IsLedger(gpus), NEW g, NEW sm, NEW quota, NEW rps,
           PlanPod(gpus, g, sm, quota, rps)
    PROVE  RowsKept(gpus, hasGPUs')
<1>1. PICK r \in FindOptimalRowIdx(gpus[g], sm) :
          hasGPUs' = addPodtoHASGPU(gpus, g, Provisional(cur, quota, sm), sm, quota, r)
  BY DEF PlanPod
<1>2. r \in Row
  BY OptimalRowIsRow
<1>3. RowsKept(gpus, addPodtoHASGPU(gpus, g, Provisional(cur, quota, sm), sm, quota, r))
  BY <1>2, AddPodKeepsRows
<1> QED
  BY <1>1, <1>3

(* A claim followed by a booking keeps the rows as each of the two does.   *)
LEMMA ClaimAndPlanKeepRows ==
    ASSUME TypeOK, NEW g \in DOMAIN hasGPUs, NEW R, NEW claim \in Int,
           NEW sm, NEW quota, NEW rps,
           PlanPod(Put(hasGPUs, g, updateSMConfigForGPU(hasGPUs[g], R, claim)), g, sm, quota, rps)
    PROVE  RowsKept(hasGPUs, hasGPUs')
<1> DEFINE claimed == Put(hasGPUs, g, updateSMConfigForGPU(hasGPUs[g], R, claim))
<1>1. IsLedger(hasGPUs)
  BY DEF TypeOK
<1>2. IsLedger(claimed) /\ DOMAIN claimed = DOMAIN hasGPUs
  BY <1>1, ClaimIsLedger
<1>3. RowsKept(hasGPUs, claimed)
  BY <1>1, ClaimKeepsRows
<1> HIDE DEF claimed
<1>4. RowsKept(claimed, hasGPUs')
  BY <1>2, PlanPodKeepsRows DEF claimed
<1> QED
  BY <1>2, <1>3, <1>4, RowsKeptTransitive

(* Every step of a process that stays up keeps the rows in use: only the   *)
(* writers of the ledger matter, and each is a lemma about its operator.   *)
LEMMA RowsKeptStep ==
    ASSUME TypeOK, [Next]_vars, ProcessUp'
    PROVE  RowsKept(hasGPUs, hasGPUs')
<1>1. IsLedger(hasGPUs)
  BY DEF TypeOK
<1>2. CASE hasGPUs' = hasGPUs
  BY <1>2 DEF RowsKept
<1>3. CASE Start
  BY <1>3 DEF Start, getGPUDeviceTopology, TypeOK, RowsKept
<1>4. CASE RestartAfterPanic \/ Crash
  BY <1>4 DEF RestartAfterPanic, Crash, ProcessUp
<1>5. CASE AdoptPod
  <2>1. PICK n \in unread :
          LET pod  == fastPod[n]
              rows == RowsOf(InfoOf(hasGPUs, pod.gpu), n)
              r    == IF rows = {} THEN 1 ELSE Max(rows)
          IN  hasGPUs' = addPodtoHASGPU(hasGPUs, pod.gpu, n, pod.sm, ReadQuota(pod.quota), r)
    BY <1>5 DEF AdoptPod
  <2> DEFINE rows == RowsOf(InfoOf(hasGPUs, fastPod[n].gpu), n)
             r    == IF rows = {} THEN 1 ELSE Max(rows)
  <2>2. r \in Row
    BY GreatestOrFirstRow DEF RowsOf
  <2>3. hasGPUs' = addPodtoHASGPU(hasGPUs, fastPod[n].gpu, n, fastPod[n].sm, ReadQuota(fastPod[n].quota), r)
    BY <2>1
  <2> HIDE DEF r
  <2> QED
    BY <1>1, <2>2, <2>3, AddPodKeepsRows
<1>6. CASE InitPod
  <2>1. PICK g \in InitGPUs, n \in FreshName(cur), config \in InitialConfig[cur] :
          \E r \in FindOptimalRowIdx(InfoOf(hasGPUs, g), config.sm) :
             \/ hasGPUs' = addPodtoHASGPU(hasGPUs, g, n, config.sm, config.quota, r)
             \/ hasGPUs' = hasGPUs
    BY <1>6 DEF InitPod, configs2FaSTPods
  <2>2. PICK r \in FindOptimalRowIdx(InfoOf(hasGPUs, g), config.sm) :
             \/ hasGPUs' = addPodtoHASGPU(hasGPUs, g, n, config.sm, config.quota, r)
             \/ hasGPUs' = hasGPUs
    BY <2>1
  <2>3. r \in Row
    BY OptimalRowIsRow
  <2> QED
    BY <1>1, <1>2, <2>2, <2>3, AddPodKeepsRows
<1>7. CASE ApplyUpdate
  <2>1. \/ hasGPUs' = hasGPUs
        \/ /\ Target.gpu \in DOMAIN hasGPUs
           /\ \E quota : hasGPUs' = SetQuota(hasGPUs, Target.gpu, Target.name, quota)
    BY <1>7 DEF ApplyUpdate
  <2> QED
    BY <1>2, <2>1, SetQuotaKeepsRows
<1>8. CASE VerticalScale
  <2>1. /\ pods[idx].gpu \in DOMAIN hasGPUs
        /\ \E quota : hasGPUs' = SetQuota(hasGPUs, pods[idx].gpu, pods[idx].name, quota)
    BY <1>8 DEF VerticalScale, OnAllocatedGPU
  <2> QED
    BY <2>1, SetQuotaKeepsRows
<1>9. CASE HorizontalScale
  <2>1. PICK g \in LeastHGO(hasGPUs, pending) :
          \E o \in Offers(hasGPUs[g]) : \E cap :
             PlanPod(Put(hasGPUs, g, Claimed(hasGPUs[g])), g, hasGPUs[g].sm[o[1]], o[2], cap)
    BY <1>9 DEF HorizontalScale
  <2>2. g \in DOMAIN hasGPUs
    BY <1>9 DEF HorizontalScale, LeastHGO, TypeOK
  <2> QED
    BY <2>1, <2>2, OptimalSMType, ClaimAndPlanKeepRows DEF Claimed
<1>10. CASE HorizontalSkip
  <2>1. PICK g \in LeastHGO(hasGPUs, pending) : hasGPUs' = Put(hasGPUs, g, Claimed(hasGPUs[g]))
    BY <1>10 DEF HorizontalSkip
  <2>2. g \in DOMAIN hasGPUs
    BY <1>10 DEF HorizontalSkip, LeastHGO, TypeOK
  <2> QED
    BY <1>1, <2>1, <2>2, ClaimKeepsRows DEF Claimed
<1>11. CASE Fallback
  <2>1. PICK g \in LeastHGO(hasGPUs, DOMAIN hasGPUs) :
          \E R, sm, quota, rps :
             PlanPod(Put(hasGPUs, g, updateSMConfigForGPU(hasGPUs[g], R, 50)), g, sm, quota, rps)
    BY <1>11 DEF Fallback
  <2>2. g \in DOMAIN hasGPUs
    BY DEF LeastHGO
  <2> QED
    BY <2>1, <2>2, ClaimAndPlanKeepRows
<1>12. CASE ShrinkPod
  <2>1. \/ hasGPUs' = hasGPUs
        \/ /\ pods[idx].gpu \in DOMAIN hasGPUs
           /\ \E quota : hasGPUs' = SetQuota(hasGPUs, pods[idx].gpu, pods[idx].name, quota)
    BY <1>12 DEF ShrinkPod
  <2> QED
    BY <1>2, <2>1, SetQuotaKeepsRows
<1>13. CASE EvictPod
  BY <1>2, <1>13, RemovePodKeepsRows DEF EvictPod
<1>14. CASE CleanUp
  BY <1>14, DropKeepsRows DEF CleanUp
<1> QED
  BY <1>2, <1>3, <1>4, <1>5, <1>6, <1>7, <1>8, <1>9, <1>10, <1>11, <1>12, <1>13, <1>14,
     LedgerWriters

(* As long as the process lives, a row in use keeps its partition.         *)
THEOREM RowsStayPartitioned == Spec => RowSMStable
<1>1. TypeOK /\ [Next]_vars => [ProcessUp' => RowsKept(hasGPUs, hasGPUs')]_vars
  BY RowsKeptStep
<1> QED
  BY <1>1, TypeCorrect, PTL DEF Spec, RowSMStable

-----------------------------------------------------------------------------
(* Between the check that found no FaSTPod and the creation of the first   *)
(* one, nobody else creates one.                                           *)
NoneFound == pc = "initCreate" => PodsOf(cur) = {}

(* The process is not about to create anything when it starts.             *)
LEMMA NoneFoundInit == Init => NoneFound
BY DEF Init, NoneFound

(* NoneFound is inductive: only the check that finds no FaSTPod leads to   *)
(* "initCreate", and no step adds a FaSTPod while the goroutine is there.  *)
LEMMA NoneFoundStep == NoneFound /\ [Next]_vars => NoneFound'
<1> SUFFICES ASSUME NoneFound, [Next]_vars, pc' = "initCreate" PROVE PodsOf(cur)' = {}
  BY DEF NoneFound
<1> USE DEF ledgerVars, localVars, scalerVars, clusterVars, Forget, NextFunction
<1>1. CASE InitialiseStep
  BY <1>1 DEF InitialiseStep, InitCheckFails, InitCheckFindsNone, InitCheckFindsPods, AdoptPod,
              AdoptEnds, InitPod, AfterInit, InitPodPanics, PodsOf
<1>2. CASE ObserveStep
  BY <1>2, Zenon DEF ObserveStep, QueryFails, Query, QueryForNothing, CheckGivesUp,
              CheckFindsPods, ConvertPod, ConvertEnds, Decide, NoScaling, BeginScaleUp,
              BeginScaleDown
<1>3. CASE Autoscale
  BY <1>3 DEF Autoscale, AutoscaleStep, VerticalScale, VerticalPanics, VerticalDone,
              HorizontalScale, HorizontalSkip, HorizontalDone, NoUsedGPULeft, NewGPUPanics,
              NoNewGPU, Fallback, FallbackFindsNothing, ShrinkPod, ShrinkSkip, ShrinkDone,
              EvictPod, EvictSkip, EvictDone, CleanUp
<1>4. CASE ApplyStep
  BY <1>4 DEF ApplyStep, ApplyDelete, ApplyUpdateUntracked, ApplyUpdate, ApplyCreateRefused,
              ApplyLookup, ApplyCreate, ApplyEnds, Planned, ApplyRest
<1>5. CASE Start \/ RestartAfterPanic \/ Crash \/ Tick \/ TickEnds \/ VisitNew \/ VisitKnown
  BY <1>5 DEF Start, getGPUDeviceTopology, RestartAfterPanic, Crash, Tick, TickEnds, VisitNew, VisitKnown
<1>6. CASE DeleteFunc \/ AddFunc \/ CooldownExpires \/ UNCHANGED vars
  BY <1>6 DEF DeleteFunc, AddFunc, CooldownExpires, vars, PodsOf, NoneFound
<1>7. CASE Collect
  BY <1>7 DEF Collect, PodsOf, NoneFound, Drop
<1> QED
  BY <1>1, <1>2, <1>3, <1>4, <1>5, <1>6, <1>7 DEF Next, ControllerStep, EnvStep

(* The first FaSTPod of a function is created only where there is none.    *)
THEOREM FirstInstanceOnce == Spec => OneFirstInstance
<1>1. NoneFound /\ [Next]_vars
        => [pc = "initCreate" /\ fastPod' # fastPod => PodsOf(cur) = {}]_vars
  BY DEF NoneFound
<1> QED
  BY <1>1, NoneFoundInit, NoneFoundStep, PTL DEF Spec, OneFirstInstance

==============================================================================
