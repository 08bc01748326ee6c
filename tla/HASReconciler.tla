---------------------------- MODULE HASReconciler ----------------------------
(***************************************************************************)
(* The HAS-GPU controller process and the cluster around it:               *)
(* persistentReconcile, the goroutine that every tick lists the FaSTFuncs  *)
(* and, one after the other, initialises, observes and scales each; the    *)
(* API server that holds FaSTFuncs and FaSTPods; users, the garbage        *)
(* collector, failing API calls and crashes.                               *)
(*                                                                         *)
(* What the process knows lives in package variables and is lost when it   *)
(* dies.  A step of the goroutine ends at its next API call.               *)
(***************************************************************************)
EXTENDS HASAutoscaler

CONSTANTS
    InitialConfig,  \* function -> the [sm, quota] its first pod may get
    RappFunc,       \* functions with "rapp" in their name
    ForeignFunc,    \* functions whose FaSTFunc is not in fast-gshare-fn
    Preds,          \* the predictions the predictor can give
    Topologies,     \* the sets of GPUs whose dummy pods a start can find
    MaxPods,        \* how many FaSTPods the namespace admits
    MaxQuota,       \* a function with a larger quota is not scaled any more
    FaultyCalls,    \* the API calls that may fail
    MaxFaults,      \* how many of them do
    MaxCrashes,     \* how often the process is killed
    MaxChurn        \* how often a FaSTFunc is deleted

ASSUME ConfigAssumption ==
    \A f \in Func : InitialConfig[f] \subseteq [sm : Nat \ {0}, quota : Nat \ (0 .. 4)]
ASSUME PredsAssumption == Preds \subseteq Nat
ASSUME TopologyAssumption == Topologies \subseteq SUBSET GPU
ASSUME BoundsAssumption ==
    MaxPods \in Nat /\ MaxFaults \in Nat /\ MaxCrashes \in Nat /\ MaxChurn \in Nat

VARIABLES
    funcs,      \* the FaSTFuncs that exist
    fastPod,    \* the FaSTPods that exist: name -> [gpu, sm, quota]
    todo,       \* the FaSTFuncs of this tick that are not reconciled yet
    podsInfo,   \* function -> the names its entries in podsInfo hold
    fastPods,   \* function -> the names of its listed FaSTPods
    unread,     \* listed FaSTPods that are not adopted or converted yet
    faults, crashes, churn  \* how much of each bound is used

clusterVars == <<funcs, fastPod>>
memoryVars == <<todo, podsInfo, fastPods, unread>>
boundVars == <<faults, crashes, churn>>
vars == <<scalerVars, clusterVars, memoryVars, boundVars>>

Panics == {"panicName", "panicRow", "panicConfig"}

(* Between two API calls the goroutine is alone with its memory.           *)
LocalPCs == {"vertical", "horizontal", "fallback", "shrink", "evict", "clean",
             "adopt", "convert"}
ProcessUp == pc \notin Panics \cup {"down"}

PodsOf(f) == {n \in DOMAIN fastPod : FuncOf(n) = f}

NamesInRows == UNION {DOMAIN hasGPUs[g].rows[r] : g \in DOMAIN hasGPUs, r \in Row}
NamesInUse == DOMAIN fastPod \cup NamesInRows
              \cup (UNION {podsInfo[f] : f \in DOMAIN podsInfo})
              \cup (UNION {fastPods[f] : f \in Func})

(* generateRandomString never repeats a suffix that is still in use.       *)
FreshName(f) ==
    LET fresh == {k \in 1 .. Cardinality(NamesInUse) + 1 : RealName(f, k) \in Name \ NamesInUse}
    IN  {RealName(f, k) : k \in {k \in fresh : \A j \in fresh : k <= j}}

-----------------------------------------------------------------------------
(* An API call does what it says ("ok"), fails without effect ("error"),   *)
(* or takes effect while the controller sees an error ("lost").            *)
Outcomes(call) ==
    {"ok"} \cup (IF call \in FaultyCalls /\ faults < MaxFaults
                 THEN {"error", "lost"} ELSE {})
ReadOutcomes(call) == Outcomes(call) \ {"lost"}
Account(outcome) == faults' = IF outcome = "ok" THEN faults ELSE faults + 1

Forget ==
    /\ pred' = 0
    /\ total' = 0
    /\ pods' = <<>>
    /\ deltaR' = 0
    /\ idx' = 1
    /\ pending' = {}
    /\ marked' = {}
    /\ actions' = <<>>
    /\ unread' = {}

(* Faulty variant of Track: the entry of a function is written anew.       *)
TrackOnly(n) == Put(podsInfo, cur, {n})

(* What the process writes into its maps after a call it saw succeed.      *)
Track(n) == Put(podsInfo, cur, podsInfo[cur] \cup {n})
(* Faulty variant of Untrack: a deleted pod stays in podsInfo.              *)
UntrackNothing(n) == podsInfo

Untrack(n) == Put(podsInfo, cur, podsInfo[cur] \ {n})

(* The FaSTPod that is made of a configuration.                            *)
configs2FaSTPods(g, config) == [gpu |-> g, sm |-> config.sm, quota |-> config.quota]

(* FaSTPods after a call with this outcome.                                *)
Admitted(o) == o # "error" /\ Cardinality(DOMAIN fastPod) < MaxPods
Exists(o, n) == o # "error" /\ n \in DOMAIN fastPod

AfterCreate(o, n, pod) == IF Admitted(o) THEN Put(fastPod, n, pod) ELSE fastPod
(* Faulty variant of AfterDelete: deletes by label instead of by name.      *)
AfterDeleteAll(o, n) == IF Exists(o, n) THEN Drop(fastPod, PodsOf(FuncOf(n))) ELSE fastPod

AfterDelete(o, n) == IF Exists(o, n) THEN Drop(fastPod, {n}) ELSE fastPod
(* Faulty variant of AfterUpdate: delete and create, stopped half-way.      *)
AfterReplace(o, n, quota) ==
    IF o = "error" THEN Drop(fastPod, {n})
    ELSE IF Exists(o, n) THEN [fastPod EXCEPT ![n].quota = quota] ELSE fastPod

AfterUpdate(o, n, quota) ==
    IF Exists(o, n) THEN [fastPod EXCEPT ![n].quota = quota] ELSE fastPod

(* "continue" of the loop over the FaSTFuncs.                              *)
NextFunction ==
    /\ Forget
    /\ cur' = NoFunc
    /\ pc' = "loop"
    /\ todo' = todo

Init ==
    /\ funcs = Func
    /\ fastPod = EmptyMap
    /\ hasGPUs = EmptyMap
    /\ nodeGPUMap = {}
    /\ cooling = {}
    /\ pc = "down"
    /\ cur = NoFunc
    /\ pred = 0
    /\ total = 0
    /\ pods = <<>>
    /\ deltaR = 0
    /\ idx = 1
    /\ pending = {}
    /\ marked = {}
    /\ actions = <<>>
    /\ todo = {}
    /\ podsInfo = EmptyMap
    /\ fastPods = [f \in Func |-> {}]
    /\ unread = {}
    /\ faults = 0
    /\ crashes = 0
    /\ churn = 0

-----------------------------------------------------------------------------
(* Start and end of the process.  The first FaSTFunc event runs            *)
(* getGPUDeviceTopology, once, and starts the goroutine, once.  It finds   *)
(* the GPUs that have a dummy pod, and none if the pods cannot be listed.  *)
getGPUDeviceTopology(o, dummyPods) == IF o = "ok" THEN dummyPods ELSE {}

Start ==
    /\ pc = "down"
    /\ funcs # {}
    /\ \E o \in ReadOutcomes("topology"), t \in Topologies :
         LET found == getGPUDeviceTopology(o, t)
         IN  /\ nodeGPUMap' = found
             /\ hasGPUs' = [g \in found |-> BareGPU]
             /\ Account(o)
    /\ pc' = "idle"
    /\ UNCHANGED <<cooling, cur, localVars, clusterVars, memoryVars, crashes, churn>>

LoseMemory ==
    /\ Forget
    /\ cur' = NoFunc
    /\ hasGPUs' = EmptyMap
    /\ nodeGPUMap' = {}
    /\ cooling' = {}
    /\ todo' = {}
    /\ podsInfo' = EmptyMap
    /\ fastPods' = [f \in Func |-> {}]

Crash ==
    /\ ProcessUp
    /\ crashes < MaxCrashes
    /\ crashes' = crashes + 1
    /\ LoseMemory
    /\ pc' = "down"
    /\ UNCHANGED <<clusterVars, faults, churn>>

(* A panic in the goroutine ends the process; its pod is restarted.        *)
RestartAfterPanic ==
    /\ pc \in Panics
    /\ LoseMemory
    /\ pc' = "down"
    /\ UNCHANGED <<clusterVars, boundVars>>

-----------------------------------------------------------------------------
(* One tick of persistentReconcile.                                        *)
Tick ==
    /\ pc = "idle"
    /\ \E o \in ReadOutcomes("listFuncs") :
         /\ IF o = "ok" THEN pc' = "loop" /\ todo' = funcs
                        ELSE pc' = "stopped" /\ todo' = {}
         /\ Account(o)
    /\ UNCHANGED <<ledgerVars, cur, localVars, clusterVars, podsInfo, fastPods, unread,
                   crashes, churn>>

TickEnds ==
    /\ pc = "loop"
    /\ todo = {}
    /\ pc' = "idle"
    /\ UNCHANGED <<ledgerVars, cur, localVars, clusterVars, memoryVars, boundVars>>

(* A function without an entry in podsInfo gets an empty one before        *)
(* anything else is done for it.                                           *)
VisitNew ==
    /\ pc = "loop"
    /\ \E f \in todo :
         /\ f \notin DOMAIN podsInfo
         /\ podsInfo' = Put(podsInfo, f, {})
         /\ cur' = f
         /\ todo' = todo \ {f}
    /\ pc' = "initCheck"
    /\ UNCHANGED <<ledgerVars, localVars, clusterVars, fastPods, unread, boundVars>>

VisitKnown ==
    /\ pc = "loop"
    /\ \E f \in todo :
         /\ f \in DOMAIN podsInfo
         /\ todo' = todo \ {f}
         /\ IF f \in RappFunc THEN pc' = "loop" /\ cur' = NoFunc
                              ELSE pc' = "query" /\ cur' = f
    /\ UNCHANGED <<ledgerVars, localVars, clusterVars, podsInfo, fastPods, unread, boundVars>>

-----------------------------------------------------------------------------
(* Initialisation: checkFaSTPodsForFunction tells whether the function     *)
(* already has pods to adopt.                                              *)
InitCheckFails ==
    /\ pc = "initCheck"
    /\ \E o \in ReadOutcomes("check") : o # "ok" /\ Account(o)
    /\ NextFunction
    /\ UNCHANGED <<ledgerVars, clusterVars, podsInfo, fastPods, crashes, churn>>

(* Faulty variant of InitCheckFindsNone: creates whatever the check found.  *)
InitCheckIgnored ==
    /\ pc = "initCheck"
    /\ pc' = "initCreate"
    /\ UNCHANGED <<ledgerVars, cur, localVars, clusterVars, memoryVars, boundVars>>

(* Faulty variant of InitCheckFindsNone: leaves creation to the next tick.  *)
InitCheckGivesUp ==
    /\ pc = "initCheck"
    /\ PodsOf(cur) = {}
    /\ NextFunction
    /\ UNCHANGED <<ledgerVars, clusterVars, podsInfo, fastPods, boundVars>>

InitCheckFindsNone ==
    /\ pc = "initCheck"
    /\ PodsOf(cur) = {}
    /\ pc' = "initCreate"
    /\ UNCHANGED <<ledgerVars, cur, localVars, clusterVars, memoryVars, boundVars>>

(* Faulty variant of InitCheckFindsPods: tracked pods are not booked.       *)
InitCheckTracksOnly ==
    /\ pc = "initCheck"
    /\ PodsOf(cur) # {}
    /\ fastPods' = [fastPods EXCEPT ![cur] = PodsOf(cur)]
    /\ podsInfo' = Put(podsInfo, cur, PodsOf(cur))
    /\ pc' = "adopt"
    /\ UNCHANGED <<ledgerVars, cur, localVars, clusterVars, todo, unread, boundVars>>

InitCheckFindsPods ==
    /\ pc = "initCheck"
    /\ PodsOf(cur) # {}
    /\ fastPods' = [fastPods EXCEPT ![cur] = PodsOf(cur)]
    /\ podsInfo' = Put(podsInfo, cur, PodsOf(cur))
    /\ unread' = PodsOf(cur)
    /\ pc' = "adopt"
    /\ UNCHANGED <<ledgerVars, cur, localVars, clusterVars, todo, boundVars>>

(* Faulty variant of AdoptPod: books the quota a pod had at first.          *)
AdoptPodAsInitial ==
    /\ pc = "adopt"
    /\ \E n \in unread, config \in InitialConfig[cur] :
         /\ hasGPUs' = addPodtoHASGPU(hasGPUs, fastPod[n].gpu, n, fastPod[n].sm, config.quota, 1)
         /\ unread' = unread \ {n}
    /\ UNCHANGED <<nodeGPUMap, cooling, pc, cur, localVars, clusterVars, todo, podsInfo,
                   fastPods, boundVars>>

(* A quota is written as the text of a fraction, "0.29", and read back as  *)
(* a hundred times that, truncated: some come back one smaller.  The list  *)
(* goes to 255; no quota here is larger.                                   *)
TruncatedQuotas ==
    {29, 57, 58, 113, 114, 115, 116, 201, 203, 205, 207, 226, 228, 230, 232, 251, 253, 255}
ReadQuota(quota) == IF quota \in TruncatedQuotas THEN quota - 1 ELSE quota

(* An adopted pod goes to the row that already holds its name, and to row  *)
(* 0 if none does.                                                         *)
AdoptPod ==
    /\ pc = "adopt"
    /\ \E n \in unread :
         LET pod  == fastPod[n]
             rows == RowsOf(InfoOf(hasGPUs, pod.gpu), n)
             r    == IF rows = {} THEN 1 ELSE Max(rows)
         IN  /\ hasGPUs' = addPodtoHASGPU(hasGPUs, pod.gpu, n, pod.sm, ReadQuota(pod.quota), r)
             /\ unread' = unread \ {n}
    /\ UNCHANGED <<nodeGPUMap, cooling, pc, cur, localVars, clusterVars, todo, podsInfo,
                   fastPods, boundVars>>

AdoptEnds ==
    /\ pc = "adopt"
    /\ unread = {}
    /\ NextFunction
    /\ UNCHANGED <<ledgerVars, clusterVars, podsInfo, fastPods, boundVars>>

(* Where the first pod goes: a GPU less than half occupied, else one that  *)
(* is not tracked, else any, else the empty id.                            *)
InitGPUs ==
    LET low == RetrieveUsedGPU(hasGPUs, 50)
        new == RetrieveNewGPU(hasGPUs, nodeGPUMap)
    IN  IF low # {} THEN LeastHGO(hasGPUs, low)
        ELSE IF new # {} THEN new
        ELSE IF nodeGPUMap # {} THEN nodeGPUMap ELSE {NoGPU}

AfterInit == IF cur \in RappFunc THEN "loop" ELSE "query"

InitPod ==
    /\ pc = "initCreate"
    /\ cur \notin ForeignFunc
    /\ \E g \in InitGPUs, n \in FreshName(cur), o \in Outcomes("create"),
          config \in InitialConfig[cur] :
         LET seen == o = "ok" /\ Admitted(o)
         IN  \E r \in FindOptimalRowIdx(InfoOf(hasGPUs, g), config.sm) :
               /\ fastPod' = AfterCreate(o, n, configs2FaSTPods(g, config))
               /\ hasGPUs' = IF seen THEN addPodtoHASGPU(hasGPUs, g, n, config.sm, config.quota, r)
                                     ELSE hasGPUs
               /\ podsInfo' = IF seen THEN Track(n) ELSE podsInfo
               /\ Account(o)
    /\ pc' = AfterInit
    /\ cur' = IF cur \in RappFunc THEN NoFunc ELSE cur
    /\ UNCHANGED <<nodeGPUMap, cooling, localVars, funcs, todo, fastPods, unread, crashes, churn>>

(* SetControllerReference refuses an owner in another namespace, and the   *)
(* error is not looked at before fastpods[0] is.                           *)
InitPodPanics ==
    /\ pc = "initCreate"
    /\ cur \in ForeignFunc
    /\ pc' = "panicName"
    /\ UNCHANGED <<ledgerVars, cur, localVars, clusterVars, memoryVars, boundVars>>

-----------------------------------------------------------------------------
(* Observation: the request rate from Prometheus, a prediction from it,    *)
(* and, if the function has an entry in podsInfo, its FaSTPods.            *)
QueryFails ==
    /\ pc = "query"
    /\ NextFunction
    /\ UNCHANGED <<ledgerVars, clusterVars, podsInfo, fastPods, boundVars>>

Query ==
    /\ pc = "query"
    /\ podsInfo[cur] # {}
    /\ \A n \in PodsOf(cur) : fastPod[n].quota <= MaxQuota
    /\ pred' \in Preds
    /\ pc' = "check"
    /\ UNCHANGED <<ledgerVars, cur, total, pods, deltaR, idx, pending, marked, actions,
                   clusterVars, memoryVars, boundVars>>

QueryForNothing ==
    /\ pc = "query"
    /\ podsInfo[cur] = {}
    /\ NextFunction
    /\ UNCHANGED <<ledgerVars, clusterVars, podsInfo, fastPods, boundVars>>

(* Either of the two checks fails, finds no FaSTPod, or none that is ready.*)
CheckGivesUp ==
    /\ pc \in {"check", "decide"}
    /\ NextFunction
    /\ UNCHANGED <<ledgerVars, clusterVars, podsInfo, fastPods, boundVars>>

(* Faulty variant of CheckFindsPods: every check adopts what it lists.      *)
CheckAdoptsPods ==
    /\ pc = "check"
    /\ PodsOf(cur) # {}
    /\ fastPods' = [fastPods EXCEPT ![cur] = PodsOf(cur)]
    /\ unread' = PodsOf(cur)
    /\ pc' = "adopt"
    /\ UNCHANGED <<ledgerVars, cur, localVars, clusterVars, todo, podsInfo, boundVars>>

CheckFindsPods ==
    /\ pc = "check"
    /\ PodsOf(cur) # {}
    /\ fastPods' = [fastPods EXCEPT ![cur] = PodsOf(cur)]
    /\ unread' = PodsOf(cur)
    /\ pc' = "convert"
    /\ UNCHANGED <<ledgerVars, cur, localVars, clusterVars, todo, podsInfo, boundVars>>

(* convertFastPodToHASPodInfo reads the annotations of a FaSTPod back, and *)
(* asks rapp what it serves.                                               *)
PodInfoOf(n, cap) ==
    [name |-> n, gpu |-> fastPod[n].gpu, sm |-> fastPod[n].sm,
     quota |-> ReadQuota(fastPod[n].quota), rps |-> cap]

ConvertPod ==
    /\ pc = "convert"
    /\ \E n \in unread : \E cap \in rapp(cur, fastPod[n].sm, ReadQuota(fastPod[n].quota)) :
         /\ pods' = Append(pods, PodInfoOf(n, cap))
         /\ total' = total + cap
         /\ unread' = unread \ {n}
    /\ UNCHANGED <<ledgerVars, pc, cur, pred, deltaR, idx, pending, marked, actions, clusterVars,
                   todo, podsInfo, fastPods, boundVars>>

ConvertEnds ==
    /\ pc = "convert"
    /\ unread = {}
    /\ pc' = "decide"
    /\ UNCHANGED <<ledgerVars, cur, localVars, clusterVars, memoryVars, boundVars>>

Decide ==
    /\ pc = "decide"
    /\ PodsOf(cur) # {}
    /\ BeginScaleUp \/ BeginScaleDown
    /\ UNCHANGED <<clusterVars, memoryVars, boundVars>>

NoScaling ==
    /\ pc = "decide"
    /\ ~ScaleUpTriggered
    /\ ScaleDownTriggered => cur \in cooling
    /\ NextFunction
    /\ UNCHANGED <<ledgerVars, clusterVars, podsInfo, fastPods, boundVars>>

Autoscale == AutoscaleStep /\ UNCHANGED <<clusterVars, memoryVars, boundVars>>

-----------------------------------------------------------------------------
(* The actions, carried out one API call after the other; a failed one is  *)
(* logged and the next one taken.                                          *)
HeadIs(type) == actions # <<>> /\ Head(actions).type = type
Planned(type) == pc = "apply" /\ HeadIs(type)
NextAction == actions' = Tail(actions)
Target == Head(actions).pod

ApplyRest ==
    /\ pc' = "apply"
    /\ UNCHANGED <<cur, nodeGPUMap, cooling, pred, total, pods, deltaR, idx, pending, marked,
                   funcs, todo, unread, crashes, churn>>

ApplyDelete ==
    /\ Planned(-1)
    /\ \E o \in Outcomes("delete") :
         LET n    == Target.name
             sent == n \in fastPods[cur]
             seen == sent /\ o = "ok" /\ Exists(o, n)
         IN  /\ fastPod' = IF sent THEN AfterDelete(o, n) ELSE fastPod
             /\ fastPods' = IF seen THEN [fastPods EXCEPT ![cur] = @ \ {n}] ELSE fastPods
             /\ podsInfo' = IF seen THEN Untrack(n) ELSE podsInfo
             /\ Account(o)
    /\ NextAction
    /\ UNCHANGED hasGPUs
    /\ ApplyRest

(* An update needs the pod in fastPods; the loop over podsInfo that looks  *)
(* for its partition does nothing when the pod has no entry there.         *)
ApplyUpdateUntracked ==
    /\ Planned(0)
    /\ Target.name \notin fastPods[cur] \cap podsInfo[cur]
    /\ NextAction
    /\ UNCHANGED <<hasGPUs, fastPod, podsInfo, fastPods, faults>>
    /\ ApplyRest

ApplyUpdate ==
    /\ Planned(0)
    /\ Target.name \in fastPods[cur] \cap podsInfo[cur]
    /\ \E o \in Outcomes("update") :
         LET n     == Target.name
             g     == Target.gpu
             quota == IF Target.quota < 5 THEN 5 ELSE Target.quota
         IN  /\ fastPod' = AfterUpdate(o, n, quota)
             /\ hasGPUs' = IF /\ o = "ok" /\ Exists(o, n)
                              /\ g \in DOMAIN hasGPUs /\ n \in DOMAIN hasGPUs[g].conf
                           THEN SetQuota(hasGPUs, g, n, quota) ELSE hasGPUs
             /\ Account(o)
    /\ NextAction
    /\ UNCHANGED <<podsInfo, fastPods>>
    /\ ApplyRest

(* Faulty variant of CreateRefused: the plan outlives its FaSTFunc.         *)
CreateForDeleted == Target.gpu = NoGPU \/ cur \in ForeignFunc

CreateRefused ==
    \/ Target.gpu = NoGPU
    \/ cur \notin funcs
    \/ cur \in ForeignFunc

ApplyCreateRefused ==
    /\ Planned(1)
    /\ \E o \in ReadOutcomes("lookup") : (CreateRefused \/ o # "ok") /\ Account(o)
    /\ NextAction
    /\ UNCHANGED <<hasGPUs, fastPod, podsInfo, fastPods>>
    /\ ApplyRest

(* The lookup has found the FaSTFunc; by the time of the create, which is  *)
(* another call, it may be gone.                                           *)
ApplyLookup ==
    /\ Planned(1)
    /\ ~CreateRefused
    /\ pc' = "create"
    /\ UNCHANGED <<ledgerVars, cur, localVars, clusterVars, memoryVars, boundVars>>

(* The new pod has a new name; the ledger keeps the provisional one.       *)
ApplyCreate ==
    /\ pc = "create"
    /\ HeadIs(1)
    /\ \E n \in FreshName(cur), o \in Outcomes("create") :
         LET seen == o = "ok" /\ Admitted(o)
         IN  /\ fastPod' = AfterCreate(o, n, configs2FaSTPods(Target.gpu, Target))
             /\ fastPods' = IF seen THEN [fastPods EXCEPT ![cur] = @ \cup {n}] ELSE fastPods
             /\ podsInfo' = IF seen THEN Track(n) ELSE podsInfo
             /\ Account(o)
    /\ NextAction
    /\ UNCHANGED hasGPUs
    /\ ApplyRest

ApplyEnds ==
    /\ pc = "apply"
    /\ actions = <<>>
    /\ NextFunction
    /\ UNCHANGED <<ledgerVars, clusterVars, podsInfo, fastPods, boundVars>>

-----------------------------------------------------------------------------
(* The surroundings.  They move where the goroutine waits for an API call  *)
(* or for the ticker: its local steps commute with theirs.                 *)
EnvMayMove == pc \notin LocalPCs

DeleteFunc ==
    /\ EnvMayMove
    /\ churn < MaxChurn
    /\ churn' = churn + 1
    /\ \E f \in funcs : funcs' = funcs \ {f}
    /\ UNCHANGED <<scalerVars, fastPod, memoryVars, faults, crashes>>

(* A FaSTFunc is created anew when nothing is left of the former one.      *)
AddFunc ==
    /\ EnvMayMove
    /\ \E f \in Func \ funcs : PodsOf(f) = {} /\ funcs' = funcs \cup {f}
    /\ UNCHANGED <<scalerVars, fastPod, memoryVars, boundVars>>

(* The garbage collector removes the pods of a deleted FaSTFunc.           *)
Collect ==
    /\ EnvMayMove
    /\ \E n \in DOMAIN fastPod : FuncOf(n) \notin funcs /\ fastPod' = Drop(fastPod, {n})
    /\ UNCHANGED <<scalerVars, funcs, memoryVars, boundVars>>

CooldownExpires ==
    /\ pc = "idle"
    /\ \E f \in cooling : cooling' = cooling \ {f}
    /\ UNCHANGED <<hasGPUs, nodeGPUMap, pc, cur, localVars, clusterVars, memoryVars, boundVars>>

-----------------------------------------------------------------------------
InitialiseStep ==
    \/ InitCheckFails \/ InitCheckFindsNone \/ InitCheckFindsPods
    \/ AdoptPod \/ AdoptEnds \/ InitPod \/ InitPodPanics

ObserveStep ==
    \/ QueryFails \/ Query \/ QueryForNothing \/ CheckGivesUp \/ CheckFindsPods
    \/ ConvertPod \/ ConvertEnds \/ Decide \/ NoScaling

ApplyStep ==
    \/ ApplyDelete \/ ApplyUpdateUntracked \/ ApplyUpdate
    \/ ApplyCreateRefused \/ ApplyLookup \/ ApplyCreate \/ ApplyEnds

ControllerStep ==
    \/ Start \/ RestartAfterPanic \/ Tick \/ TickEnds \/ VisitNew \/ VisitKnown
    \/ InitialiseStep \/ ObserveStep \/ Autoscale \/ ApplyStep

EnvStep == Crash \/ DeleteFunc \/ AddFunc \/ Collect \/ CooldownExpires

Next == ControllerStep \/ EnvStep

Spec == Init /\ [][Next]_vars

(* The goroutine runs on: the ticker fires, API calls return, and a        *)
(* process that died is started again.  Nobody promises anything else.     *)
Fairness == WF_vars(ControllerStep)
FairSpec == Spec /\ Fairness

-----------------------------------------------------------------------------
(* Properties.                                                             *)

PC == {"down", "idle", "loop", "stopped", "initCheck", "adopt", "initCreate", "query",
       "check", "convert", "decide", "vertical", "horizontal", "fallback", "shrink",
       "evict", "clean", "apply", "create"} \cup Panics

BetweenFunctions == {"down", "idle", "loop", "stopped"}

FaSTPod == [gpu : GPUId, sm : Int, quota : Int]

(* The type invariant: what every variable can hold.                       *)
TypeOK ==
    /\ IsLedger(hasGPUs)
    /\ nodeGPUMap \subseteq GPU
    /\ cooling \subseteq Func
    /\ pc \in PC
    /\ cur \in Func \cup {NoFunc}
    /\ pc \in BetweenFunctions => cur = NoFunc
    /\ pc \notin BetweenFunctions => cur \in DOMAIN podsInfo
    /\ pc = "down" => DOMAIN hasGPUs = {}
    /\ pred \in Nat /\ total \in Nat
    /\ pods \in Seq(HASPodInfo)
    /\ deltaR \in Int
    /\ idx \in Nat \ {0}
    /\ pending \subseteq GPUId
    /\ pc = "horizontal" => pending \subseteq DOMAIN hasGPUs
    /\ marked \subseteq GPUId
    /\ actions \in Seq(HASAction)
    /\ funcs \subseteq Func
    /\ IsMapOf(fastPod, Name, FaSTPod)
    /\ todo \subseteq Func
    /\ IsMapOf(podsInfo, Func, SUBSET Name)
    /\ fastPods \in [Func -> SUBSET Name]
    /\ unread \subseteq DOMAIN fastPod
    /\ pc \notin {"adopt", "convert"} => unread = {}
    /\ faults \in 0 .. MaxFaults /\ crashes \in 0 .. MaxCrashes /\ churn \in 0 .. MaxChurn

(* Every name in a row has its configuration: RowPods and PodsConfig are   *)
(* written by different branches, and a name without configuration would   *)
(* take no quota of its row.                                               *)
LedgerNamed ==
    \A g \in DOMAIN hasGPUs, r \in Row :
        DOMAIN hasGPUs[g].rows[r] \subseteq DOMAIN hasGPUs[g].conf

(* A row is one SM partition: all its pods are booked with the row's, and  *)
(* a row with a pod has one.                                               *)
RowSMAgrees ==
    \A g \in DOMAIN hasGPUs, r \in Row : \A n \in DOMAIN hasGPUs[g].rows[r] :
        hasGPUs[g].sm[r] > 0 /\ ConfOf(hasGPUs[g], n).sm = hasGPUs[g].sm[r]

(* A FaSTPod is booked at most once: one GPU, one row, one copy, although  *)
(* initialisation, adoption and a restart may each book it.                *)
RealNamesOnce ==
    \A n \in {m \in NamesInRows : IsReal(m)} :
        /\ Cardinality({x \in (DOMAIN hasGPUs) \X Row : n \in DOMAIN hasGPUs[x[1]].rows[x[2]]}) = 1
        /\ \A g \in DOMAIN hasGPUs : \A r \in RowsOf(hasGPUs[g], n) : hasGPUs[g].rows[r][n] = 1

RPSOf(ps) == SumFunction([i \in DOMAIN ps |-> ps[i].rps])
Creations == {i \in DOMAIN actions : actions[i].type = 1}

(* Whatever the loops have done, what is missing is the predicted rate     *)
(* less 0.9 of the listed and all of the newly planned capacity; and on    *)
(* the way down nothing is given back that has not been taken from a pod.  *)
PlannedCapacity ==
    /\ pc \in {"vertical", "horizontal", "fallback"} =>
         deltaR = 10 * pred + total - 10 * RPSOf(pods)
                  - 10 * SumFunction([i \in Creations |-> actions[i].pod.rps])
    /\ pc \in {"shrink", "evict", "clean"} =>
         deltaR = 10 * RPSOf(pods) - total - 10 * pred

(* The quota loops write PodsConfig of a tracked GPU without looking       *)
(* whether the map was made: no listed pod is on such a GPU.               *)
NilMapNeverWritten ==
    pc = "shrink" =>
        \A i \in DOMAIN pods :
            pods[i].gpu \in DOMAIN hasGPUs => hasGPUs[pods[i].gpu].alloc

(* No FaSTPod is created or left with a partition of -1 or no time at all, *)
(* although the autoscaler works with a copy of the row's partition that   *)
(* may be -1.  An update never leaves less than 5, but a creation may: the *)
(* fallback gives a pod whatever its row has left.                         *)
ServablePods ==
    \A n \in DOMAIN fastPod : fastPod[n].sm > 0 /\ fastPod[n].quota > 0

(* Scale-to-1: a function that has a FaSTPod and is not deleted keeps one, *)
(* whichever calls fail and wherever the process dies.                     *)
KeepsOneInstance ==
    [][\A f \in funcs \cap funcs' : PodsOf(f) # {} => PodsOf(f)' # {}]_vars

(* The first instance is created only where there is none, also when the   *)
(* creation before it was reported to have failed, or the process died.    *)
OneFirstInstance ==
    [][pc = "initCreate" /\ fastPod' # fastPod => PodsOf(cur) = {}]_vars

(* A row in use is never repartitioned under its pods.                     *)
RowSMStable == [][ProcessUp' => RowsKept(hasGPUs, hasGPUs')]_vars

(* Between ticks the book is right about the pods it knows by name: each   *)
(* is a FaSTPod of that GPU and has the quota that is booked.              *)
LedgerInSync ==
    pc = "idle" =>
        \A g \in DOMAIN hasGPUs : \A n \in UNION {DOMAIN hasGPUs[g].rows[r] : r \in Row} :
            IsReal(n) => /\ n \in DOMAIN fastPod
                         /\ fastPod[n].gpu = g
                         /\ fastPod[n].quota = hasGPUs[g].conf[n].quota

(* As long as no update fails, raising quotas overbooks no row: a row that *)
(* loses more than it has left was found by the wrong name, was shared     *)
(* with another pod of the loop, or lost one step too many.                *)
RaisesFit ==
    [][pc = "vertical" =>
        \A g \in DOMAIN hasGPUs \cap DOMAIN hasGPUs', r \in Row :
            \/ AvailQuota(hasGPUs'[g], r) >= 0
            \/ AvailQuota(hasGPUs'[g], r) >= AvailQuota(hasGPUs[g], r)]_vars

(* Between ticks podsInfo of a visited function holds exactly the FaSTPods *)
(* of that function.                                                       *)
MemoryMatchesCluster ==
    pc = "idle" => \A f \in DOMAIN podsInfo \cap funcs : podsInfo[f] = PodsOf(f)

(* Between ticks podsInfo lacks no FaSTPod of a visited function, even if  *)
(* the function was deleted and created again meanwhile and podsInfo kept  *)
(* its old entry: a FaSTPod that is missing there stays unknown, since the *)
(* function is not initialised again.  Creates and checks must not fail.   *)
NothingForgotten ==
    pc = "idle" => \A f \in DOMAIN podsInfo : PodsOf(f) \subseteq podsInfo[f]

(* A GPU leaves the ledger only without its pods, so that the quota loop   *)
(* never indexes the rows of a GPU nobody tracks.                          *)
NoRowPanic == pc # "panicRow"

(* The controller, its cluster and their failures implement the abstract   *)
(* life of instances: the FaSTPods of a function are its instances, and a  *)
(* lookup that found its FaSTFunc is a grant.                              *)
Lifecycle == INSTANCE InstanceLifecycle WITH
    Function <- Func, wanted <- funcs,
    instances <- [f \in Func |-> Cardinality(PodsOf(f))],
    granted <- IF pc = "create" THEN {cur} ELSE {}
ImplementsLifecycle == Lifecycle!Spec

(* A tick comes to its end, or the process does.                           *)
TickCompletes == (pc = "loop") ~> (pc \in {"idle", "down"})

(* Scale-to-1, the other half: a FaSTFunc that stays has a FaSTPod again   *)
(* and again, if calls do not fail.                                        *)
ScaleToOne == \A f \in Func : [](f \in funcs) => []<>(PodsOf(f) # {})

=============================================================================
