------------------------------ MODULE SyncProofs ------------------------------
(***************************************************************************)
(* What the process remembers agrees with the cluster.                     *)
(*                                                                         *)
(* The first part holds whatever happens: a GPU that holds a FaSTPod of a  *)
(* function the process has visited is one it has booked on, so that the   *)
(* quota loops write no nil map, and what is planned can be served.  The   *)
(* second part needs API calls that do not fail, and says which.           *)
(***************************************************************************)
EXTENDS BookingProofs

Emptying == Start \/ RestartAfterPanic \/ Crash

(* A GPU that is tracked has been booked on.                               *)
Allocated(g) == g \in DOMAIN hasGPUs => hasGPUs[g].alloc

(* A function whose FaSTPods the process has seen, and has not all deleted.*)
Visited(f) == f \in DOMAIN podsInfo /\ podsInfo[f] # {}

(* A FaSTPod that the process has adopted, or created, itself.             *)
Seen(n) == Visited(FuncOf(n)) /\ (pc = "adopt" => n \notin unread)

Working == {"check", "convert", "decide", "vertical", "horizontal", "fallback", "shrink",
            "evict", "clean"}

Phases ==
    /\ pc = "down" => DOMAIN podsInfo = {}
    /\ pc \in {"initCheck", "initCreate"} => podsInfo[cur] = {}
    /\ pc \in Working => podsInfo[cur] # {}
    /\ pc \in {"apply", "create"} /\ PlannedCreates # {} => podsInfo[cur] # {}

SeenAllocated == \A n \in DOMAIN fastPod : Seen(n) => Allocated(fastPod[n].gpu)

ListedAllocated == \A i \in DOMAIN pods : Allocated(pods[i].gpu)

PlannedServable ==
    \A i \in DOMAIN actions :
        actions[i].type = 1 => /\ Allocated(actions[i].pod.gpu)
                               /\ actions[i].pod.sm > 0 /\ actions[i].pod.quota > 0

SeenInv == Phases /\ SeenAllocated /\ ListedAllocated /\ PlannedServable /\ ServablePods

(* What has been proved of every state so far.                             *)
Known == TypeOK /\ IInv /\ NoneFound /\ BookInv

LEMMA KnownAlways == Spec => []Known
BY TypeCorrect, PlansAreRight, BookIsConsistent, NoneFoundInit, NoneFoundStep, PTL
   DEF Spec, Known

-----------------------------------------------------------------------------
(* A process that ends, or starts, has seen nothing.                       *)
LEMMA EmptyingForgets ==
    ASSUME Phases, Emptying
    PROVE  /\ DOMAIN podsInfo' = {} /\ Emptied
           /\ pc' \in {"down", "idle"}
           /\ fastPod' = fastPod
           /\ RestartAfterPanic \/ Crash => pods' = <<>> /\ actions' = <<>>
           /\ Start => pods' = pods /\ actions' = actions /\ pc = "down"
BY DEF Emptying, Phases, Start, getGPUDeviceTopology, RestartAfterPanic, Crash, LoseMemory,
       Forget, Emptied, EmptyMap, memoryVars, localVars, clusterVars

(* A GPU that has been booked on stays one while the process lives.        *)
LEMMA AllocatedStays ==
    ASSUME Known, [Next]_vars
    PROVE  Emptying \/ \A g : Allocated(g) => Allocated(g)'
<1>0. TypeOK /\ BookInv
  BY DEF Known
<1>1. ASSUME NEW g, NEW new, new.alloc, hasGPUs' = Put(hasGPUs, g, new)
      PROVE  \A h : Allocated(h) => Allocated(h)'
  BY <1>1 DEF Allocated, Put
<1>2. ASSUME NEW g \in DOMAIN hasGPUs, NEW new, new.alloc = hasGPUs[g].alloc,
             hasGPUs' = Put(hasGPUs, g, new)
      PROVE  \A h : Allocated(h) => Allocated(h)'
  BY <1>2 DEF Allocated, Put
<1>3. ASSUME NEW g, NEW n, NEW sm, NEW quota, NEW r, Books(g, n, sm, quota, r)
      PROVE  \A h : Allocated(h) => Allocated(h)'
  <2>1. Added(InfoOf(hasGPUs, g), n, sm, quota, r).alloc
    BY DEF Added
  <2> QED
    BY <1>1, <1>3, <2>1 DEF Books
<1>4. ASSUME NEW g, NEW R, NEW claim, ClaimsOnly(g, R, claim)
      PROVE  \A h : Allocated(h) => Allocated(h)'
  <2>1. updateSMConfigForGPU(hasGPUs[g], R, claim).alloc = hasGPUs[g].alloc
    BY <1>0, <1>4 DEF updateSMConfigForGPU, ClaimsOnly, TypeOK, IsLedger, IsHASGPUInfo
  <2> QED
    BY <1>2, <1>4, <2>1 DEF ClaimsOnly
<1>5. ASSUME NEW g, NEW R, NEW claim, NEW sm, NEW quota, NEW r, Plans(g, R, claim, sm, quota, r)
      PROVE  \A h : Allocated(h) => Allocated(h)'
  <2> DEFINE new == Added(updateSMConfigForGPU(hasGPUs[g], R, claim),
                          Provisional(cur, quota, sm), sm, quota, r)
  <2>1. new.alloc /\ hasGPUs' = Put(hasGPUs, g, new)
    BY <1>5 DEF Added, Plans
  <2> HIDE DEF new
  <2> QED
    BY <1>1, <2>1
<1>6. ASSUME NEW g, NEW n, NEW quota, Requotes(g, n, quota)
      PROVE  \A h : Allocated(h) => Allocated(h)'
  <2>1. Requoted(hasGPUs[g], n, quota).alloc = hasGPUs[g].alloc
    BY DEF Requoted, Rebooked
  <2> QED
    BY <1>2, <1>6, <2>1 DEF Requotes
<1>7. ASSUME NEW g, NEW n, Evicts(g, n)
      PROVE  \A h : Allocated(h) => Allocated(h)'
  <2>1. Evicted(hasGPUs[g], n).alloc = hasGPUs[g].alloc
    BY DEF Evicted, Rebooked
  <2> QED
    BY <1>2, <1>7, <2>1 DEF Evicts
<1>8. CASE (\E G : Cleans(G)) \/ Untouched
  BY <1>8 DEF Cleans, Untouched, Drop, Allocated
<1> QED
  BY <1>0, <1>3, <1>4, <1>5, <1>6, <1>7, <1>8, LedgerMoves DEF Emptying, Adopts

(* The steps that write podsInfo.                                          *)
LEMMA MemoryWriters ==
    ASSUME [Next]_vars
    PROVE  \/ Emptying \/ podsInfo' = podsInfo
           \/ VisitNew \/ InitCheckFindsPods \/ InitPod \/ ApplyCreate \/ ApplyDelete
<1> USE DEF memoryVars
<1>1. CASE InitialiseStep
  BY <1>1 DEF InitialiseStep, InitCheckFails, InitCheckFindsNone, AdoptPod, AdoptEnds,
              InitPodPanics
<1>2. CASE ObserveStep
  BY <1>2, Zenon DEF ObserveStep, QueryFails, Query, QueryForNothing, CheckGivesUp,
              CheckFindsPods, ConvertPod, ConvertEnds, Decide, NoScaling
<1>3. CASE Autoscale
  BY <1>3 DEF Autoscale
<1>4. CASE ApplyStep
  BY <1>4 DEF ApplyStep, ApplyUpdateUntracked, ApplyUpdate, ApplyCreateRefused, ApplyLookup,
              ApplyEnds
<1>5. CASE Tick \/ TickEnds \/ VisitKnown
  BY <1>5 DEF Tick, TickEnds, VisitKnown
<1>6. CASE DeleteFunc \/ AddFunc \/ Collect \/ CooldownExpires
  BY <1>6 DEF DeleteFunc, AddFunc, Collect, CooldownExpires
<1>7. CASE UNCHANGED vars
  BY <1>7 DEF vars
<1> QED
  BY <1>1, <1>2, <1>3, <1>4, <1>5, <1>6, <1>7 DEF Next, ControllerStep, EnvStep, Emptying

(* The first action of a plan is gone: the rest was planned before.        *)
LEMMA TailPlan ==
    ASSUME TypeOK, actions # <<>>, actions' = Tail(actions)
    PROVE  /\ PlannedCreates' \subseteq PlannedCreates
           /\ PlannedDeletes' \subseteq PlannedDeletes
           /\ \A j \in DOMAIN actions' : \E i \in DOMAIN actions : actions'[j] = actions[i]
           /\ Head(actions) = actions[1] /\ 1 \in DOMAIN actions
<1>1. actions \in Seq(HASAction)
  BY DEF TypeOK
<1>2. /\ NamesIn(Tail(actions), 1) \subseteq NamesIn(actions, 1)
      /\ NamesIn(Tail(actions), -1) \subseteq NamesIn(actions, -1)
  BY <1>1, TailNames
<1>3. /\ Len(actions) \in Nat \ {0} /\ DOMAIN actions = 1 .. Len(actions)
      /\ DOMAIN Tail(actions) = 1 .. Len(actions) - 1
      /\ Head(actions) = actions[1]
      /\ \A i \in DOMAIN Tail(actions) : Tail(actions)[i] = actions[i + 1]
  BY <1>1, TailShape
<1> QED
  BY <1>2, <1>3 DEF PlannedCreates, PlannedDeletes

(* What is at hand when an action of the plan is carried out.              *)
Applies == ApplyDelete \/ ApplyUpdateUntracked \/ ApplyUpdate \/ ApplyCreateRefused \/ ApplyCreate

LEMMA ApplyShape ==
    ASSUME TypeOK, Applies
    PROVE  /\ pc \in {"apply", "create"} /\ pc' = "apply"
           /\ cur' = cur /\ pods' = pods /\ unread' = unread /\ funcs' = funcs
           /\ actions # <<>> /\ actions' = Tail(actions)
           /\ Target \in HASPodInfo /\ 1 \in DOMAIN actions /\ Target = actions[1].pod
           /\ Head(actions) = actions[1]
           /\ ApplyDelete => actions[1].type = -1 /\ Target.name \in PlannedDeletes
           /\ actions[1].type = -1 => ApplyDelete
           /\ ApplyCreate => actions[1].type = 1 /\ Target.name \in PlannedCreates
<1>1. /\ pc \in {"apply", "create"} /\ pc' = "apply"
      /\ cur' = cur /\ pods' = pods /\ unread' = unread /\ funcs' = funcs
      /\ actions # <<>> /\ actions' = Tail(actions)
      /\ ApplyDelete => Head(actions).type = -1
      /\ Head(actions).type = -1 => ApplyDelete
      /\ ApplyCreate => Head(actions).type = 1
  BY DEF Applies, ApplyDelete, ApplyUpdateUntracked, ApplyUpdate, ApplyCreateRefused, ApplyCreate, Planned,
         HeadIs, NextAction, ApplyRest
<1>2. Head(actions) = actions[1] /\ 1 \in DOMAIN actions /\ Target \in HASPodInfo
  BY <1>1, TailPlan, TargetType
<1>3. \A t : actions[1].type = t => actions[1].pod.name \in NamesIn(actions, t)
  BY <1>2 DEF NamesIn
<1> QED
  BY <1>1, <1>2, <1>3 DEF Target, PlannedDeletes, PlannedCreates

(* Where the goroutine is tells what podsInfo holds for its function.      *)
LEMMA PhasesStep ==
    ASSUME Known, Phases, [Next]_vars
    PROVE  Phases'
<1>0. TypeOK /\ OneDirection
  BY DEF Known, IInv, PlanInv
<1> USE DEF memoryVars, localVars, scalerVars, Forget, NextFunction, Phases, Working
<1>1. CASE Emptying
  BY <1>1, EmptyingForgets
<1>2. CASE InitialiseStep
  BY <1>2 DEF InitialiseStep, InitCheckFails, InitCheckFindsNone, InitCheckFindsPods, AdoptPod,
              AdoptEnds, InitPod, AfterInit, InitPodPanics, Panics
<1>3. CASE ObserveStep
  BY <1>3, Zenon DEF ObserveStep, QueryFails, Query, QueryForNothing, CheckGivesUp,
              CheckFindsPods, ConvertPod, ConvertEnds, Decide, NoScaling, BeginScaleUp,
              BeginScaleDown, Panics
<1>4. CASE Autoscale
  <2>1. /\ podsInfo' = podsInfo /\ cur' = cur
        /\ pc \in {"vertical", "horizontal", "fallback", "shrink", "evict", "clean"}
        /\ pc' \notin {"down", "initCheck", "initCreate"}
    BY <1>4 DEF Autoscale, AutoscaleStep, VerticalScale, VerticalPanics, VerticalDone,
              HorizontalScale, HorizontalSkip, HorizontalDone, NoUsedGPULeft, NewGPUPanics,
              NoNewGPU, Fallback, FallbackFindsNothing, ShrinkPod, ShrinkSkip, ShrinkDone,
              EvictPod, EvictSkip, EvictDone, CleanUp
  <2> QED
    BY <2>1
<1>5. CASE Applies
  <2>1. /\ pc \in {"apply", "create"} /\ pc' = "apply" /\ cur' = cur
        /\ PlannedCreates' \subseteq PlannedCreates
        /\ ApplyDelete => PlannedCreates = {}
    BY <1>0, <1>5, ApplyShape, TailPlan DEF OneDirection
  <2>2. ~ApplyDelete /\ podsInfo[cur] # {} => podsInfo'[cur] # {}
    BY <1>5 DEF Applies, ApplyUpdateUntracked, ApplyUpdate, ApplyCreateRefused, ApplyCreate,
                Track, Put
  <2> QED
    BY <2>1, <2>2
<1>6. CASE ApplyLookup \/ ApplyEnds
  <2>1. UNCHANGED <<podsInfo, cur, actions>> \/ pc' = "loop"
    BY <1>6 DEF ApplyLookup, ApplyEnds
  <2> QED
    BY <1>6, <2>1 DEF ApplyLookup, ApplyEnds, Planned, PlannedCreates
<1>7. CASE Tick \/ TickEnds \/ VisitNew \/ VisitKnown
  BY <1>7 DEF Tick, TickEnds, VisitNew, VisitKnown, Put
<1>8. CASE DeleteFunc \/ AddFunc \/ Collect \/ CooldownExpires \/ UNCHANGED vars
  BY <1>8 DEF DeleteFunc, AddFunc, Collect, CooldownExpires, vars, PlannedCreates
<1> QED
  BY <1>1, <1>2, <1>3, <1>4, <1>5, <1>6, <1>7, <1>8
  DEF Next, ControllerStep, EnvStep, ApplyStep, Applies, Emptying

(* A function becomes visited by its initialisation.                       *)
LEMMA VisitedMoves ==
    ASSUME Known, Phases, [Next]_vars, NEW f, Visited(f)'
    PROVE  Visited(f) \/ (f = cur /\ (InitCheckFindsPods \/ InitPod))
<1>0. TypeOK
  BY DEF Known
<1>1. CASE Emptying
  BY <1>1, EmptyingForgets DEF Visited
<1>2. ASSUME NEW h, NEW S, podsInfo' = Put(podsInfo, h, S)
      PROVE  Visited(f) \/ (f = h /\ S # {})
  BY <1>2 DEF Visited, Put
<1>3. CASE podsInfo' = podsInfo \/ VisitNew \/ InitCheckFindsPods \/ InitPod
  <2>1. CASE podsInfo' = podsInfo
    BY <2>1 DEF Visited
  <2>2. CASE VisitNew
    BY <1>2, <2>2 DEF VisitNew
  <2>3. CASE InitCheckFindsPods
    BY <1>2, <2>3 DEF InitCheckFindsPods
  <2>4. CASE InitPod
    <3>1. podsInfo' = podsInfo \/ \E n : podsInfo' = Put(podsInfo, cur, podsInfo[cur] \cup {n})
      BY <2>4 DEF InitPod, Track
    <3> QED
      BY <1>2, <2>1, <2>4, <3>1
  <2> QED
    BY <1>3, <2>1, <2>2, <2>3, <2>4
<1>4. CASE ApplyCreate
  <2>1. Visited(cur)
    BY <1>0, <1>4, ApplyShape, CurType DEF Applies, Phases, Visited, BetweenFunctions
  <2> QED
    BY <1>4, <2>1 DEF Visited, ApplyCreate, Track, Put
<1>5. CASE ApplyDelete
  <2>1. podsInfo' = podsInfo \/ podsInfo' = Untrack(Target.name)
    BY <1>5 DEF ApplyDelete
  <2>2. cur \in DOMAIN podsInfo
    BY <1>0, <1>5, ApplyShape, CurType DEF Applies, BetweenFunctions
  <2> QED
    BY <2>1, <2>2 DEF Visited, Untrack, Put
<1> QED
  BY <1>1, <1>3, <1>4, <1>5, MemoryWriters

(* What is listed for adoption is booked, one by one, and all of it.       *)
LEMMA AdoptionMoves ==
    ASSUME Known, [Next]_vars, pc = "adopt", NEW n \in unread
    PROVE  \/ Emptying
           \/ pc' = "adopt" /\ n \in unread'
           \/ /\ AdoptPod /\ pc' = "adopt"
              /\ \E r : Books(fastPod[n].gpu, n, fastPod[n].sm, ReadQuota(fastPod[n].quota), r)
<1>1. TypeOK /\ BookInv
  BY DEF Known
<1>2. CASE AdoptPod
  <2>1. PICK m \in unread : Adopts(m)
    BY <1>1, <1>2, AdoptPodMoves
  <2>2. pc' = "adopt"
    BY <1>2 DEF AdoptPod
  <2> QED
    BY <1>2, <2>1, <2>2 DEF Adopts
<1>3. CASE AdoptEnds
  BY <1>3 DEF AdoptEnds
<1>4. CASE ~AdoptPod /\ ~AdoptEnds /\ ~Emptying
  <2>1. pc' = pc /\ unread' = unread
    <3>1. ~InitialiseStep \/ UNCHANGED <<pc, unread>>
      BY <1>4 DEF InitialiseStep, InitCheckFails, InitCheckFindsNone, InitCheckFindsPods,
                  InitPod, InitPodPanics
    <3>2. ~ObserveStep
      BY Zenon DEF ObserveStep, QueryFails, Query, QueryForNothing, CheckGivesUp,
              CheckFindsPods, ConvertPod, ConvertEnds, Decide, NoScaling
    <3>3. ~Autoscale
      BY DEF Autoscale, AutoscaleStep, VerticalScale, VerticalPanics, VerticalDone,
              HorizontalScale, HorizontalSkip, HorizontalDone, NoUsedGPULeft, NewGPUPanics,
              NoNewGPU, Fallback, FallbackFindsNothing, ShrinkPod, ShrinkSkip, ShrinkDone,
              EvictPod, EvictSkip, EvictDone, CleanUp
    <3>4. ~ApplyStep
      BY DEF ApplyStep, ApplyDelete, ApplyUpdateUntracked, ApplyUpdate, ApplyCreateRefused,
             ApplyLookup, ApplyCreate, ApplyEnds, Planned
    <3>5. ~(Tick \/ TickEnds \/ VisitNew \/ VisitKnown)
      BY DEF Tick, TickEnds, VisitNew, VisitKnown
    <3>6. CASE DeleteFunc \/ AddFunc \/ Collect \/ CooldownExpires \/ UNCHANGED vars
      BY <3>6 DEF DeleteFunc, AddFunc, Collect, CooldownExpires, vars, scalerVars, memoryVars
    <3> QED
      BY <1>4, <3>1, <3>2, <3>3, <3>4, <3>5, <3>6 DEF Next, ControllerStep, EnvStep, Emptying
  <2> QED
    BY <2>1
<1> QED
  BY <1>2, <1>3, <1>4

(* A FaSTPod that is there before and after a step is seen afterwards only *)
(* if it was before, or has just been adopted.                             *)
LEMMA SeenMoves ==
    ASSUME Known, Phases, [Next]_vars, NEW n \in DOMAIN fastPod, Seen(n)'
    PROVE  \/ Seen(n)
           \/ /\ AdoptPod
              /\ \E r : Books(fastPod[n].gpu, n, fastPod[n].sm, ReadQuota(fastPod[n].quota), r)
<1>1. ~Emptying
  BY EmptyingForgets DEF Seen, Visited
<1>2. CASE Visited(FuncOf(n))
  BY <1>1, <1>2, AdoptionMoves DEF Seen
<1>3. CASE ~Visited(FuncOf(n))
  <2>1. FuncOf(n) = cur /\ (InitCheckFindsPods \/ InitPod) /\ n \in PodsOf(cur)
    BY <1>3, VisitedMoves DEF Seen, PodsOf
  <2>2. ~InitPod
    BY <2>1 DEF Known, NoneFound, InitPod
  <2>3. pc' = "adopt" /\ unread' = PodsOf(cur)
    BY <2>1, <2>2 DEF InitCheckFindsPods
  <2> QED
    BY <2>1, <2>3 DEF Seen
<1> QED
  BY <1>2, <1>3

(* The GPU of a FaSTPod that has been seen has been booked on.             *)
LEMMA SeenAllocatedStep ==
    ASSUME Known, SeenInv, [Next]_vars
    PROVE  SeenAllocated'
<1>0. TypeOK /\ Phases /\ SeenAllocated /\ PlannedServable
  BY DEF Known, SeenInv
<1>1. SUFFICES ASSUME ~Emptying,
                      NEW n \in DOMAIN fastPod', Seen(n)', NEW g, g = fastPod'[n].gpu
               PROVE  Allocated(g)'
  <2>1. Emptying => SeenAllocated'
    BY <1>0, EmptyingForgets DEF SeenAllocated, Seen, Visited
  <2>2. (\A n \in DOMAIN fastPod' : Seen(n)' => \A g : g = fastPod'[n].gpu => Allocated(g)')
           => SeenAllocated'
    BY DEF SeenAllocated, Allocated
  <2> QED
    BY <2>1, <2>2
<1>2. \A h : Allocated(h) => Allocated(h)'
  BY <1>1, AllocatedStays
<1>3. \A h, m, sm, quota, r : Books(h, m, sm, quota, r) => Allocated(h)'
  BY DEF Books, Put, Added, Allocated
<1>4. CASE n \in DOMAIN fastPod
  <2>1. g = fastPod[n].gpu
    BY <1>0, <1>1, <1>4, FaSTPodMoves DEF PodsNotAdded, PodAdded, Put
  <2>2. CASE Seen(n)
    BY <1>0, <1>2, <1>4, <2>1, <2>2 DEF SeenAllocated
  <2>3. CASE \E r : Books(fastPod[n].gpu, n, fastPod[n].sm, ReadQuota(fastPod[n].quota), r)
    BY <1>3, <2>1, <2>3
  <2> QED
    BY <1>0, <1>1, <1>4, <2>2, <2>3, SeenMoves
<1>5. CASE n \notin DOMAIN fastPod
  <2>1. CASE InitPod
    <3>1. CASE FirstBooked
      <4>1. PICK m, h, config, r : /\ Books(h, m, config.sm, config.quota, r)
                                   /\ PodAdded(m, configs2FaSTPods(h, config))
        BY <3>1 DEF FirstBooked
      <4>2. g = h
        BY <1>1, <1>5, <4>1 DEF PodAdded, Put, configs2FaSTPods
      <4> QED
        BY <1>3, <4>1, <4>2
    <3>2. CASE FirstUnseen
      <4>1. FuncOf(n) = cur
        BY <1>5, <3>2 DEF FirstUnseen, PodAdded, Put
      <4>2. podsInfo[cur] = {} /\ podsInfo' = podsInfo
        BY <1>0, <2>1, <3>2 DEF Phases, InitPod, FirstUnseen
      <4> QED
        BY <1>1, <4>1, <4>2 DEF Seen, Visited
    <3> QED
      BY <1>0, <2>1, <3>1, <3>2, InitPodMoves
  <2>2. CASE ApplyCreate
    <3>1. Allocated(Target.gpu)
      BY <1>0, <2>2, ApplyShape DEF Applies, PlannedServable
    <3>2. PICK m : PodAdded(m, configs2FaSTPods(Target.gpu, Target))
      BY <1>0, <1>5, <2>2, FaSTPodMoves DEF PodsNotAdded, InitPod, ApplyCreate
    <3>3. g = Target.gpu
      BY <1>1, <1>5, <3>2 DEF PodAdded, Put, configs2FaSTPods
    <3> QED
      BY <1>2, <3>1, <3>3
  <2> QED
    BY <1>0, <1>5, <2>1, <2>2, FaSTPodMoves DEF PodsNotAdded
<1> QED
  BY <1>4, <1>5

(* So is the GPU of a listed one.                                          *)
LEMMA ListedAllocatedStep ==
    ASSUME Known, SeenInv, [Next]_vars
    PROVE  ListedAllocated'
<1>0. TypeOK /\ Phases /\ SeenAllocated /\ ListedAllocated /\ ListIsRight /\ MadeAnew
  BY DEF Known, SeenInv, IInv, PlanInv
<1>1. CASE Emptying
  <2>1. pods' = <<>>
    BY <1>0, <1>1, EmptyingForgets DEF MadeAnew, BeforeList, Emptying
  <2> QED
    BY <2>1 DEF ListedAllocated
<1>2. CASE ~Emptying
  <2>1. \A g : Allocated(g) => Allocated(g)'
    BY <1>2, AllocatedStays
  <2>2. CASE PodsKept
    BY <1>0, <2>1, <2>2 DEF PodsKept, SamePod, ListedAllocated
  <2>3. ASSUME NEW n, ConvertPod, PodListed(n)
        PROVE  ListedAllocated'
    <3>1. n \in PodsOf(cur) /\ pc = "convert" /\ cur \in DOMAIN podsInfo
      BY <1>0, <2>3, CurType DEF ListIsRight, ConvertPod, PodListed, BetweenFunctions
    <3>2. n \in DOMAIN fastPod /\ Seen(n)
      BY <1>0, <3>1 DEF PodsOf, Seen, Visited, Phases, Working
    <3>3. Allocated(fastPod[n].gpu)
      BY <1>0, <3>2 DEF SeenAllocated
    <3> QED
      BY <1>0, <2>1, <2>3, <3>3 DEF PodListed, SamePod, ListedAllocated
  <2> QED
    BY <1>0, <2>2, <2>3, ListMoves
<1> QED
  BY <1>1, <1>2

(* The steps that write the plan, by what they make of it.                 *)
PlanMakers ==
    \/ Emptying
    \/ actions' = actions
    \/ Applies /\ actions # <<>> /\ actions' = Tail(actions)
    \/ (VerticalScale \/ ShrinkPod) /\ \E quota, rps : Resizes(quota, rps)
    \/ EvictPod /\ actions' = Append(actions, Act(-1, pods[idx]))
    \/ /\ HorizontalScale \/ Fallback
       /\ \E g, R, claim, sm, quota, r : Plans(g, R, claim, sm, quota, r) /\ PlansPod(g, quota)

LEMMA PlanMoves ==
    ASSUME Known, [Next]_vars
    PROVE  PlanMakers
<1> USE DEF localVars, scalerVars, Forget, NextFunction, LoseMemory, PlanMakers
<1>0. TypeOK /\ SoundLedger /\ (pc \in BeforeList \cup {"decide"} => actions = <<>>)
  BY DEF Known, BookInv, IInv, PlanInv, MadeAnew
<1>1. CASE Emptying
  BY <1>1
<1>2. CASE VerticalScale \/ ShrinkPod
  BY <1>0, <1>2, ResizeMoves
<1>3. CASE HorizontalScale \/ Fallback
  BY <1>0, <1>3, HorizontalPlans, FallbackPlans
<1>4. CASE EvictPod
  BY <1>4 DEF EvictPod
<1>5. CASE InitialiseStep
  BY <1>0, <1>5 DEF InitialiseStep, InitCheckFails, InitCheckFindsNone, InitCheckFindsPods,
              AdoptPod, AdoptEnds, InitPod, InitPodPanics, BeforeList
<1>6. CASE ObserveStep
  <2>1. \/ actions' = actions
        \/ pc \in {"query", "check", "decide"} /\ actions' = <<>>
    BY <1>6, Zenon DEF ObserveStep, QueryFails, Query, QueryForNothing, CheckGivesUp,
              CheckFindsPods, ConvertPod, ConvertEnds, Decide, NoScaling, BeginScaleUp,
              BeginScaleDown
  <2> QED
    BY <1>0, <2>1 DEF BeforeList
<1>7. CASE Autoscale
  <2>1. \/ VerticalScale \/ ShrinkPod \/ HorizontalScale \/ Fallback \/ EvictPod
        \/ actions' = actions
    BY <1>7 DEF Autoscale, AutoscaleStep, VerticalPanics, VerticalDone, HorizontalSkip,
              HorizontalDone, NewGPUPanics, NoNewGPU, FallbackFindsNothing, ShrinkSkip,
              ShrinkDone, EvictSkip, EvictDone, CleanUp
  <2> QED
    BY <1>1, <1>2, <1>3, <1>4, <2>1
<1>8. CASE Applies
  BY <1>0, <1>8, ApplyShape
<1>9. CASE ApplyLookup \/ ApplyEnds \/ Tick \/ TickEnds \/ VisitNew \/ VisitKnown
  BY <1>9 DEF ApplyLookup, ApplyEnds, Tick, TickEnds, VisitNew, VisitKnown
<1>10. CASE DeleteFunc \/ AddFunc \/ Collect \/ CooldownExpires \/ UNCHANGED vars
  BY <1>10 DEF DeleteFunc, AddFunc, Collect, CooldownExpires, vars
<1> QED
  BY <1>1, <1>2, <1>3, <1>4, <1>5, <1>6, <1>7, <1>8, <1>9, <1>10
  DEF Next, ControllerStep, EnvStep, ApplyStep, Applies, Emptying

(* An action appended to the plan, and those that were in it before.       *)
LEMMA PlanAppends ==
    ASSUME TypeOK, NEW t, NEW pod \in HASPodInfo, t \in {-1, 0, 1},
           actions' = Append(actions, Act(t, pod))
    PROVE  \A j \in DOMAIN actions' :
              \/ \E i \in DOMAIN actions : actions'[j] = actions[i]
              \/ actions'[j].type = t /\ actions'[j].pod = pod
<1>1. actions \in Seq(HASAction) /\ Act(t, pod) \in HASAction
  BY DEF TypeOK, Act, HASAction
<1>2. Act(t, pod).type = t /\ Act(t, pod).pod = pod
  BY DEF Act
<1> QED
  BY <1>1, <1>2, AppendShape

(* What is planned to be created has been planned before, or just now.     *)
LEMMA CreationMoves ==
    ASSUME Known, [Next]_vars
    PROVE  \/ Emptying
           \/ \A j \in DOMAIN actions' :
                actions'[j].type = 1 =>
                  \/ \E i \in DOMAIN actions : actions'[j] = actions[i]
                  \/ /\ actions'[j].pod.sm > 0 /\ actions'[j].pod.quota > 0
                     /\ \E R, claim, sm, quota, r :
                           Plans(actions'[j].pod.gpu, R, claim, sm, quota, r)
<1>0. TypeOK
  BY DEF Known
<1>1. CASE actions' = actions
  BY <1>1
<1>2. CASE actions # <<>> /\ actions' = Tail(actions)
  BY <1>0, <1>2, TailPlan
<1>3. ASSUME NEW t \in {-1, 0}, NEW pod \in HASPodInfo, actions' = Append(actions, Act(t, pod))
      PROVE  \A j \in DOMAIN actions' :
                actions'[j].type = 1 => \E i \in DOMAIN actions : actions'[j] = actions[i]
  BY <1>0, <1>3, PlanAppends
<1>4. ASSUME NEW g, NEW R, NEW claim, NEW sm, NEW quota, NEW r,
             Plans(g, R, claim, sm, quota, r), PlansPod(g, quota)
      PROVE  \A j \in DOMAIN actions' :
                \/ \E i \in DOMAIN actions : actions'[j] = actions[i]
                \/ /\ actions'[j].pod.sm > 0 /\ actions'[j].pod.quota > 0
                   /\ actions'[j].pod.gpu = g
  <2>1. PICK pod \in HASPodInfo :
          /\ pod.gpu = g /\ pod.quota > 0 /\ pod.sm > 0
          /\ actions' = Append(actions, Act(1, pod))
    BY <1>4 DEF PlansPod
  <2> QED
    BY <1>0, <2>1, PlanAppends
<1>5. ASSUME NEW quota, NEW rps, Resizes(quota, rps)
      PROVE  \A j \in DOMAIN actions' :
                actions'[j].type = 1 => \E i \in DOMAIN actions : actions'[j] = actions[i]
  <2>1. Resized(pods[idx], quota, rps) \in HASPodInfo
    BY <1>5, ResizedType DEF Resizes
  <2> QED
    BY <1>3, <1>5, <2>1 DEF Resizes
<1>6. CASE EvictPod /\ actions' = Append(actions, Act(-1, pods[idx]))
  <2>1. pods[idx] \in HASPodInfo
    BY <1>0, <1>6, ListedPodType DEF EvictPod, MayEvict, TypeOK
  <2> QED
    BY <1>3, <1>6, <2>1
<1> QED
  BY <1>1, <1>2, <1>4, <1>5, <1>6, PlanMoves DEF PlanMakers

(* What is planned to be created can be served.                            *)
LEMMA PlannedServableStep ==
    ASSUME Known, SeenInv, [Next]_vars
    PROVE  PlannedServable'
<1>0. TypeOK /\ PlannedServable /\ Phases /\ MadeAnew
  BY DEF Known, SeenInv, IInv, PlanInv
<1>1. CASE Emptying
  <2>1. actions' = <<>>
    BY <1>0, <1>1, EmptyingForgets DEF MadeAnew, BeforeList, Emptying
  <2> QED
    BY <2>1 DEF PlannedServable
<1>2. CASE ~Emptying
  <2>1. \A g : Allocated(g) => Allocated(g)'
    BY <1>2, AllocatedStays
  <2>2. \A g, R, claim, sm, quota, r : Plans(g, R, claim, sm, quota, r) => Allocated(g)
    BY DEF Plans, Allocated
  <2> QED
    BY <1>0, <1>2, <2>1, <2>2, CreationMoves DEF PlannedServable
<1> QED
  BY <1>1, <1>2

(* No call leaves a FaSTPod without a partition, or without time.          *)
LEMMA ServablePodsStep ==
    ASSUME Known, SeenInv, [Next]_vars
    PROVE  ServablePods'
<1>0. TypeOK /\ PlannedServable /\ ServablePods
  BY DEF Known, SeenInv
<1>1. ASSUME NEW n, NEW pod, PodAdded(n, pod), pod.sm > 0, pod.quota > 0
      PROVE  ServablePods'
  BY <1>0, <1>1 DEF PodAdded, Put, ServablePods
<1>2. CASE InitPod
  <2>0. cur \in Func
    BY <1>0, <1>2, CurType DEF InitPod, BetweenFunctions
  <2>1. ASSUME NEW n, NEW g, NEW config \in InitialConfig[cur],
               PodAdded(n, configs2FaSTPods(g, config))
        PROVE  ServablePods'
    <3>1. config.sm \in Nat \ {0} /\ config.quota \in Nat \ (0 .. 4)
      BY <2>0, ConfigAssumption
    <3>2. configs2FaSTPods(g, config).sm > 0 /\ configs2FaSTPods(g, config).quota > 0
      BY <3>1 DEF configs2FaSTPods
    <3> QED
      BY <1>1, <2>1, <3>2
  <2> QED
    BY <1>0, <1>2, <2>1, InitPodMoves DEF FirstBooked, FirstUnseen, ServablePods
<1>3. CASE ApplyCreate
  <2>1. Target.sm > 0 /\ Target.quota > 0
    BY <1>0, <1>3, ApplyShape DEF Applies, PlannedServable
  <2>2. fastPod' = fastPod \/ \E n : PodAdded(n, configs2FaSTPods(Target.gpu, Target))
    <3>1. PICK n \in FreshName(cur) : \E o :
            fastPod' = AfterCreate(o, n, configs2FaSTPods(Target.gpu, Target))
      BY <1>3 DEF ApplyCreate
    <3> QED
      BY <3>1, FreshNames DEF AfterCreate, PodAdded
  <2> QED
    BY <1>0, <1>1, <2>1, <2>2 DEF configs2FaSTPods, ServablePods
<1>4. CASE ApplyUpdate
  <2>1. PICK o, quota : fastPod' = AfterUpdate(o, Target.name, quota) /\ quota \in Int /\ quota >= 5
    <3>1. Target.quota \in Int
      BY <1>0, <1>4, ApplyShape DEF Applies, HASPodInfo
    <3> QED
      BY <1>4, <3>1 DEF ApplyUpdate
  <2>2. IsMapOf(fastPod, Name, FaSTPod)
    BY <1>0 DEF TypeOK
  <2> QED
    BY <1>0, <2>1, <2>2 DEF AfterUpdate, IsMapOf, FaSTPod, ServablePods
<1>5. CASE ApplyDelete
  <2>1. fastPod' = fastPod \/ \E o : fastPod' = AfterDelete(o, Target.name)
    BY <1>5 DEF ApplyDelete
  <2> QED
    BY <1>0, <2>1 DEF AfterDelete, Drop, ServablePods
<1>6. CASE DeleteFunc \/ AddFunc \/ Collect
  BY <1>0, <1>6 DEF DeleteFunc, AddFunc, Collect, Drop, ServablePods
<1> QED
  BY <1>0, <1>2, <1>3, <1>4, <1>5, <1>6, ClusterWriters DEF ServablePods

-----------------------------------------------------------------------------
(* The process starts without anything to remember.                        *)
LEMMA SeenInvInit == Init => SeenInv
BY DEF Init, SeenInv, Phases, SeenAllocated, Seen, Visited, Working, ListedAllocated,
       PlannedServable, ServablePods, EmptyMap

(* What the process has seen lies on GPUs it has booked on.                *)
THEOREM MemoryIsBooked == Spec => []SeenInv
<1>1. Known /\ SeenInv /\ [Next]_vars => SeenInv'
  BY PhasesStep, SeenAllocatedStep, ListedAllocatedStep, PlannedServableStep, ServablePodsStep
     DEF SeenInv
<1> QED
  BY <1>1, SeenInvInit, KnownAlways, PTL DEF Spec

(* The quota loops write into no nil map: the GPU of every listed FaSTPod  *)
(* that is tracked has been booked on, whichever calls fail.               *)
THEOREM NoNilMap == Spec => []NilMapNeverWritten
<1>1. SeenInv => NilMapNeverWritten
  BY DEF SeenInv, ListedAllocated, Allocated, NilMapNeverWritten
<1> QED
  BY <1>1, MemoryIsBooked, PTL

(* Every FaSTPod has a partition and some time on it, always.              *)
THEOREM PodsAreServable == Spec => []ServablePods
<1>1. SeenInv => ServablePods
  BY DEF SeenInv
<1> QED
  BY <1>1, MemoryIsBooked, PTL

-----------------------------------------------------------------------------
(* What is listed or planned is what the process has found: the FaSTPods   *)
(* in its fastPods.  Only a plan that is carried out may lag behind.       *)
PlannedUpdates == NamesIn(actions, 0)
FoundPods == IF cur \in Func THEN fastPods[cur] ELSE {}

KnownNames ==
    /\ Listed \subseteq FoundPods
    /\ pc = "convert" => unread \subseteq FoundPods
    /\ (PlannedDeletes \cup PlannedUpdates) \cap DOMAIN fastPod \subseteq FoundPods
    /\ pc \notin {"apply", "create"} \/ PlannedCreates # {} => PlannedUpdates \subseteq FoundPods

LEMMA KnownStep == Known /\ [Next]_vars => Known'
<1> SUFFICES ASSUME Known, [Next]_vars PROVE Known'
  OBVIOUS
<1>1. TypeOK'
  BY TypeOKStep DEF Known
<1>2. IInv'
  BY FinitelyManyStep, OwnFaSTPodsStep, PlanInvStep DEF Known, IInv
<1>3. NoneFound'
  BY NoneFoundStep DEF Known
<1>4. BookInv'
  BY SoundLedgerStep, OnceBookedStep, VisitedOnlyStep, OwnUnreadStep, RealNamesStep
     DEF Known, BookInv
<1> QED
  BY <1>1, <1>2, <1>3, <1>4 DEF Known

(* How the goroutine gets beyond the listing, and what it keeps there.     *)
LEMMA ListPhases ==
    ASSUME Known, [Next]_vars
    PROVE  /\ pc \in {"apply", "create"} => pc' \in {"apply", "create"} \cup BeforeList
           /\ pc' = "convert" => CheckFindsPods \/ (pc = "convert" /\ unread' \subseteq unread)
           /\ \/ pc' \in BeforeList \/ CheckFindsPods \/ ApplyDelete \/ ApplyCreate
              \/ fastPods' = fastPods /\ cur' = cur
<1> USE DEF memoryVars, localVars, scalerVars, Forget, NextFunction, LoseMemory, Planned,
            ApplyRest, BeforeList, Panics
<1>1. CASE InitialiseStep
  BY <1>1 DEF InitialiseStep, InitCheckFails, InitCheckFindsNone, InitCheckFindsPods, AdoptPod,
              AdoptEnds, InitPod, AfterInit, InitPodPanics
<1>2. CASE ObserveStep
  <2>1. /\ pc \notin {"apply", "create"}
        /\ pc' = "convert" => CheckFindsPods \/ (pc = "convert" /\ unread' \subseteq unread)
        /\ pc' = "loop" \/ CheckFindsPods \/ (fastPods' = fastPods /\ cur' = cur)
    BY <1>2, Zenon DEF ObserveStep, QueryFails, Query, QueryForNothing, CheckGivesUp,
              CheckFindsPods, ConvertPod, ConvertEnds, Decide, NoScaling, BeginScaleUp,
              BeginScaleDown
  <2> QED
    BY <2>1
<1>3. CASE Autoscale
  <2>1. pc \notin {"apply", "create"} /\ pc' # "convert" /\ fastPods' = fastPods /\ cur' = cur
    BY <1>3 DEF Autoscale, AutoscaleStep, VerticalScale, VerticalPanics, VerticalDone,
              HorizontalScale, HorizontalSkip, HorizontalDone, NoUsedGPULeft, NewGPUPanics,
              NoNewGPU, Fallback, FallbackFindsNothing, ShrinkPod, ShrinkSkip, ShrinkDone,
              EvictPod, EvictSkip, EvictDone, CleanUp
  <2> QED
    BY <2>1
<1>4. CASE ApplyStep
  BY <1>4 DEF ApplyStep, ApplyDelete, ApplyUpdateUntracked, ApplyUpdate, ApplyCreateRefused,
              ApplyLookup, ApplyCreate, ApplyEnds
<1>5. CASE Start \/ RestartAfterPanic \/ Crash \/ Tick \/ TickEnds \/ VisitNew \/ VisitKnown
  BY <1>5 DEF Start, getGPUDeviceTopology, RestartAfterPanic, Crash, Tick, TickEnds, VisitNew,
              VisitKnown
<1>6. CASE DeleteFunc \/ AddFunc \/ Collect \/ CooldownExpires \/ UNCHANGED vars
  BY <1>6 DEF DeleteFunc, AddFunc, Collect, CooldownExpires, vars
<1> QED
  BY <1>1, <1>2, <1>3, <1>4, <1>5, <1>6 DEF Next, ControllerStep, EnvStep

(* What the first action of the plan leaves of the names of a type.        *)
LEMMA TailKeeps ==
    ASSUME TypeOK, actions # <<>>, actions' = Tail(actions), NEW t, NEW n \in NamesIn(actions, t)
    PROVE  n \in NamesIn(actions', t) \/ (Head(actions).type = t /\ Head(actions).pod.name = n)
<1>1. actions \in Seq(HASAction)
  BY DEF TypeOK
<1>2. PICK i \in DOMAIN actions : actions[i].type = t /\ actions[i].pod.name = n
  BY NamesInMember
<1>3. CASE i = 1
  BY <1>1, <1>2, <1>3, TailShape
<1>4. CASE i # 1
  <2>1. i - 1 \in DOMAIN actions' /\ actions'[i - 1] = actions[i]
    BY <1>1, <1>4, TailShape
  <2>2. actions'[i - 1].type = t /\ actions'[i - 1].pod.name = n
    BY <1>2, <2>1
  <2> QED
    BY <2>1, <2>2 DEF NamesIn
<1> QED
  BY <1>3, <1>4

(* A plan names what it named before, and what a loop takes from the list. *)
LEMMA PlanNames ==
    ASSUME Known, [Next]_vars
    PROVE  \/ pc' \in BeforeList
           \/ /\ PlannedDeletes' \subseteq PlannedDeletes \cup Listed
              /\ PlannedUpdates' \subseteq PlannedUpdates \cup Listed
              /\ pc \in {"apply", "create"} =>
                   /\ PlannedDeletes' \subseteq PlannedDeletes
                   /\ PlannedUpdates' \subseteq PlannedUpdates
                   /\ PlannedCreates' \subseteq PlannedCreates
<1>0. TypeOK /\ actions \in Seq(HASAction)
  BY DEF Known, TypeOK
<1>1. CASE Emptying
  BY <1>1 DEF Emptying, Start, RestartAfterPanic, Crash, BeforeList
<1>2. CASE actions' = actions
  BY <1>2 DEF PlannedDeletes, PlannedUpdates, PlannedCreates
<1>4. CASE actions # <<>> /\ actions' = Tail(actions)
  BY <1>0, <1>4, TailNames DEF PlannedDeletes, PlannedUpdates, PlannedCreates
<1>5. ASSUME NEW t, NEW pod, actions' = Append(actions, Act(t, pod))
      PROVE  \A k : NamesIn(actions', k) = IF k = t THEN NamesIn(actions, k) \cup {pod.name}
                                                    ELSE NamesIn(actions, k)
  <2>1. Act(t, pod).type = t /\ Act(t, pod).pod = pod
    BY DEF Act
  <2> QED
    BY <1>0, <1>5, <2>1, AppendNames
<1>6. ASSUME VerticalScale \/ ShrinkPod, NEW quota, NEW rps, Resizes(quota, rps)
      PROVE  /\ pc \notin {"apply", "create"}
             /\ PlannedDeletes' = PlannedDeletes
             /\ PlannedUpdates' = PlannedUpdates \cup {pods[idx].name} /\ pods[idx].name \in Listed
  <2>1. pc \in {"vertical", "shrink"}
    BY <1>6 DEF VerticalScale, ShrinkPod
  <2>2. Resized(pods[idx], quota, rps).name = pods[idx].name
    BY DEF Resized
  <2> QED
    BY <1>5, <1>6, <2>1, <2>2 DEF Resizes, PlannedDeletes, PlannedUpdates, Listed, Names
<1>7. CASE EvictPod /\ actions' = Append(actions, Act(-1, pods[idx]))
  <2>1. pods[idx].name \in Listed /\ pc = "evict"
    BY <1>0, <1>7, ListedPodType DEF EvictPod, MayEvict, Listed, Names, TypeOK
  <2> QED
    BY <1>5, <1>7, <2>1 DEF PlannedDeletes, PlannedUpdates
<1>8. ASSUME HorizontalScale \/ Fallback, NEW g, NEW quota, PlansPod(g, quota)
      PROVE  /\ PlannedDeletes' = PlannedDeletes /\ PlannedUpdates' = PlannedUpdates
             /\ pc \notin {"apply", "create"}
  <2>1. pc \in {"horizontal", "fallback"}
    BY <1>8 DEF HorizontalScale, Fallback
  <2> QED
    BY <1>5, <1>8, <2>1 DEF PlansPod, PlannedDeletes, PlannedUpdates
<1> QED
  BY <1>1, <1>2, <1>4, <1>6, <1>7, <1>8, PlanMoves DEF PlanMakers

LEMMA KnownNamesStep ==
    ASSUME Known, KnownNames, [Next]_vars
    PROVE  KnownNames'
<1>0. /\ TypeOK /\ MadeAnew /\ MadeAnew' /\ KeptOrDeleted /\ OneDirection
      /\ pc \notin BetweenFunctions => cur \in Func
  BY KnownStep, CurType DEF Known, IInv, PlanInv
<1>1. CASE pc' \in BeforeList
  <2>1. pods' = <<>> /\ actions' = <<>> /\ pc' # "convert"
    BY <1>0, <1>1 DEF MadeAnew, BeforeList
  <2>2. Listed' = {} /\ PlannedDeletes' = {} /\ PlannedUpdates' = {}
    BY <2>1 DEF Listed, Names, PlannedDeletes, PlannedUpdates, NamesIn
  <2> QED
    BY <2>1, <2>2 DEF KnownNames
<1>2. CASE CheckFindsPods
  <2>1. pods' = <<>> /\ actions' = <<>> /\ pc' = "convert"
    BY <1>0, <1>2 DEF CheckFindsPods, MadeAnew, BeforeList, localVars, scalerVars
  <2>2. Listed' = {} /\ PlannedDeletes' = {} /\ PlannedUpdates' = {}
    BY <2>1 DEF Listed, Names, PlannedDeletes, PlannedUpdates, NamesIn
  <2>3. unread' \subseteq FoundPods'
    BY <1>0, <1>2 DEF CheckFindsPods, FoundPods, TypeOK, BetweenFunctions, localVars, scalerVars
  <2> QED
    BY <2>1, <2>2, <2>3 DEF KnownNames
<1>3. CASE ApplyDelete
  <2> DEFINE n == Target.name
  <2>1. /\ pc' = "apply" /\ cur' = cur /\ pods' = pods /\ cur \in Func
        /\ n \in PlannedDeletes
    BY <1>0, <1>3, ApplyShape DEF Applies, BetweenFunctions
  <2>2. /\ Listed' = Listed /\ PlannedCreates' = {} /\ n \notin Listed
        /\ PlannedDeletes' \subseteq PlannedDeletes /\ PlannedUpdates' \subseteq PlannedUpdates
    <3>1. actions # <<>> /\ actions' = Tail(actions) /\ actions \in Seq(HASAction)
      BY <1>0, <1>3, ApplyShape DEF Applies, TypeOK
    <3>2. \A t : NamesIn(actions', t) \subseteq NamesIn(actions, t)
      BY <3>1, TailNames
    <3>3. PlannedCreates = {}
      BY <1>0, <2>1 DEF OneDirection
    <3> QED
      BY <1>0, <2>1, <3>2, <3>3 DEF PlannedDeletes, PlannedUpdates, PlannedCreates, KeptOrDeleted,
         Listed
  <2>3. \/ FoundPods' = FoundPods /\ DOMAIN fastPod' \subseteq DOMAIN fastPod
        \/ FoundPods' = FoundPods \ {n} /\ DOMAIN fastPod' = DOMAIN fastPod \ {n}
    <3>1. PICK o \in Outcomes("delete") :
            LET sent == n \in fastPods[cur]
                seen == sent /\ o = "ok" /\ Exists(o, n)
            IN  /\ fastPod' = IF sent THEN AfterDelete(o, n) ELSE fastPod
                /\ fastPods' = IF seen THEN [fastPods EXCEPT ![cur] = @ \ {n}] ELSE fastPods
      BY <1>3 DEF ApplyDelete
    <3> QED
      BY <1>0, <2>1, <3>1 DEF FoundPods, AfterDelete, Drop, Exists, TypeOK
  <2> QED
    BY <2>1, <2>2, <2>3 DEF KnownNames
<1>4. CASE ApplyCreate
  <2>1. /\ pc' = "apply" /\ cur' = cur /\ pods' = pods /\ cur \in Func
        /\ PlannedCreates # {}
    BY <1>0, <1>4, ApplyShape DEF Applies, BetweenFunctions
  <2>2. /\ Listed' = Listed /\ PlannedDeletes' = {} /\ PlannedUpdates' \subseteq PlannedUpdates
    <3>1. actions # <<>> /\ actions' = Tail(actions) /\ actions \in Seq(HASAction)
      BY <1>0, <1>4, ApplyShape DEF Applies, TypeOK
    <3>2. \A t : NamesIn(actions', t) \subseteq NamesIn(actions, t)
      BY <3>1, TailNames
    <3>3. PlannedDeletes = {}
      BY <1>0, <2>1 DEF OneDirection
    <3> QED
      BY <1>0, <2>1, <3>2, <3>3 DEF PlannedDeletes, PlannedUpdates, Listed
  <2>3. FoundPods \subseteq FoundPods'
    <3>1. fastPods' = fastPods \/ \E n : fastPods' = [fastPods EXCEPT ![cur] = @ \cup {n}]
      BY <1>4 DEF ApplyCreate
    <3> QED
      BY <1>0, <2>1, <3>1 DEF FoundPods, TypeOK
  <2> QED
    BY <2>1, <2>2, <2>3 DEF KnownNames
<1>5. CASE pc' \notin BeforeList /\ fastPods' = fastPods /\ cur' = cur
           /\ ~CheckFindsPods /\ ~ApplyCreate
  <2>1. FoundPods' = FoundPods
    BY <1>5 DEF FoundPods
  <2>2. Listed' \subseteq FoundPods
    <3>1. Listed \subseteq FoundPods /\ (pc = "convert" => unread \subseteq FoundPods)
      BY DEF KnownNames
    <3>2. PodsKept \/ (ConvertPod /\ \E n : PodListed(n))
      BY <1>0, ListMoves
    <3> QED
      BY <3>1, <3>2 DEF PodsKept, PodListed, SamePod, ConvertPod, Listed, Names
  <2>3. DOMAIN fastPod' \subseteq DOMAIN fastPod
    <3>1. ~InitPod
      BY <1>5 DEF InitPod, AfterInit, BeforeList
    <3> QED
      BY <1>0, <1>5, <3>1, FaSTPodMoves DEF PodsNotAdded
  <2> QED
    BY <1>5, <2>1, <2>2, <2>3, PlanNames, ListPhases DEF KnownNames
<1> QED
  BY <1>1, <1>2, <1>3, <1>4, <1>5, ListPhases

LEMMA KnownNamesInit == Init => KnownNames
BY DEF Init, KnownNames, Listed, Names, PlannedDeletes, PlannedUpdates, NamesIn

-----------------------------------------------------------------------------
(* As long as deletions do not fail, a GPU leaves the ledger only without  *)
(* its FaSTPods.  A FaSTPod whose creation was not seen to succeed is in   *)
(* no row, but the name that was planned for it is, and stays there.       *)
HoldsPlan(g) ==
    g \in DOMAIN hasGPUs /\ \E r \in Row : \E m \in DOMAIN hasGPUs[g].rows[r] : ~IsReal(m)

HasPlace(n, g) ==
    \/ HoldsPlan(g)
    \/ g \in DOMAIN hasGPUs /\ \E r \in Row : n \in DOMAIN hasGPUs[g].rows[r]

SeenPlaced ==
    \A n \in DOMAIN fastPod : Seen(n) /\ n \notin PlannedDeletes => HasPlace(n, fastPod[n].gpu)

ListedPlaced == \A i \in DOMAIN pods : HasPlace(pods[i].name, pods[i].gpu)

PlannedPlaced == \A i \in DOMAIN actions : actions[i].type = 1 => HoldsPlan(actions[i].pod.gpu)

PlacedInv == SeenPlaced /\ ListedPlaced /\ PlannedPlaced /\ NoRowPanic

(* All that has been proved of every state, whichever calls fail.          *)
Remembered == Known /\ SeenInv /\ KnownNames

LEMMA RememberedAlways == Spec => []Remembered
<1>1. Known /\ KnownNames /\ [Next]_vars => KnownNames'
  BY KnownNamesStep
<1> QED
  BY <1>1, KnownAlways, KnownNamesInit, MemoryIsBooked, PTL DEF Spec, Remembered

(* A name leaves a row when its pod is evicted, or the process ends.       *)
RowsStay(X) ==
    \A g \in DOMAIN hasGPUs : \A r \in Row : \A m \in DOMAIN hasGPUs[g].rows[r] :
        m \in X \/ (g \in DOMAIN hasGPUs' /\ m \in DOMAIN hasGPUs'[g].rows[r])

LEMMA PutStays ==
    ASSUME NEW g, NEW new, hasGPUs' = Put(hasGPUs, g, new), NEW X,
           g \in DOMAIN hasGPUs =>
             \A r \in Row : DOMAIN hasGPUs[g].rows[r] \subseteq DOMAIN new.rows[r] \cup X
    PROVE  RowsStay(X)
BY DEF Put, RowsStay

LEMMA NamesStay ==
    ASSUME Known, [Next]_vars
    PROVE  \/ Emptying \/ RowsStay({})
           \/ EvictPod /\ IsReal(pods[idx].name) /\ RowsStay({pods[idx].name})
<1>0. TypeOK /\ BookInv /\ \A g \in DOMAIN hasGPUs : IsHASGPUInfo(hasGPUs[g])
  BY DEF Known, TypeOK, IsLedger
<1>1. CASE Untouched
  BY <1>1 DEF Untouched, RowsStay
<1>2. ASSUME NEW g, NEW n, NEW sm, NEW quota, NEW r, Books(g, n, sm, quota, r)
      PROVE  RowsStay({})
  <2>1. BookedIn(g, n, r)
    BY <1>0, <1>2, BookedRows
  <2> QED
    BY <2>1 DEF BookedIn, RowsStay
<1>3. ASSUME NEW g, NEW R, NEW claim, ClaimsOnly(g, R, claim)
      PROVE  RowsStay({})
  <2>1. updateSMConfigForGPU(hasGPUs[g], R, claim).rows = hasGPUs[g].rows
    BY <1>0, <1>3 DEF updateSMConfigForGPU, ClaimsOnly, IsHASGPUInfo
  <2> QED
    BY <1>3, <2>1, PutStays DEF ClaimsOnly
<1>4. ASSUME NEW g, NEW R, NEW claim, NEW sm, NEW quota, NEW r, Plans(g, R, claim, sm, quota, r)
      PROVE  RowsStay({})
  <2> DEFINE claimed == updateSMConfigForGPU(hasGPUs[g], R, claim)
             n == Provisional(cur, quota, sm)
             new == Added(claimed, n, sm, quota, r)
  <2>1. g \in DOMAIN hasGPUs /\ hasGPUs' = Put(hasGPUs, g, new) /\ r \in Row /\ claim \in Int
    BY <1>4 DEF Plans
  <2>2. IsHASGPUInfo(claimed)
    BY <1>0, <2>1, UpdateSMConfigType
  <2>3. claimed.rows = hasGPUs[g].rows
    BY <1>0, <2>1 DEF updateSMConfigForGPU, IsHASGPUInfo
  <2> HIDE DEF claimed, n
  <2>4. IsAdded(claimed, new, n, EffectiveSM(claimed, r, sm), quota, r)
    BY <2>1, <2>2, AddedParts
  <2> HIDE DEF new
  <2> QED
    BY <2>1, <2>3, <2>4, PutStays DEF IsAdded
<1>5. ASSUME NEW g, NEW n, NEW quota, Requotes(g, n, quota)
      PROVE  RowsStay({})
  <2>1. Requoted(hasGPUs[g], n, quota).rows = hasGPUs[g].rows
    BY DEF Requoted, Rebooked
  <2> QED
    BY <1>5, <2>1, PutStays DEF Requotes
<1>6. ASSUME NEW g, NEW n, Evicts(g, n)
      PROVE  IsReal(n) /\ RowsStay({n})
  <2>1. \A s \in Row : Evicted(hasGPUs[g], n).rows[s]
                         = IF s = Min(RowsOf(hasGPUs[g], n)) THEN Drop(hasGPUs[g].rows[s], {n})
                                                             ELSE hasGPUs[g].rows[s]
    BY <1>0, <1>6, EvictedParts DEF Evicts
  <2>2. \A s \in Row :
          DOMAIN hasGPUs[g].rows[s] \subseteq DOMAIN Evicted(hasGPUs[g], n).rows[s] \cup {n}
    BY <2>1 DEF Drop
  <2> QED
    BY <1>6, <2>2, PutStays DEF Evicts
<1>7. ASSUME NEW G, Cleans(G)
      PROVE  RowsStay({})
  BY <1>7 DEF Cleans, Drop, RowsEmpty, RowsStay
<1> QED
  BY <1>0, <1>1, <1>2, <1>3, <1>4, <1>5, <1>6, <1>7, LedgerMoves DEF Emptying, Adopts

(* So a place is lost by the pod that is evicted only.                     *)
LEMMA PlacesStay ==
    ASSUME Known, [Next]_vars, ~Emptying
    PROVE  /\ \A g : HoldsPlan(g) => HoldsPlan(g)'
           /\ \A n, g : HasPlace(n, g) => HasPlace(n, g)' \/ (EvictPod /\ n = pods[idx].name)
<1>1. CASE RowsStay({})
  BY <1>1 DEF RowsStay, HoldsPlan, HasPlace
<1>2. CASE EvictPod /\ IsReal(pods[idx].name) /\ RowsStay({pods[idx].name})
  BY <1>2 DEF RowsStay, HoldsPlan, HasPlace
<1> QED
  BY <1>1, <1>2, NamesStay

LEMMA BookedPlace ==
    ASSUME Known, NEW g, NEW n, NEW sm, NEW quota, NEW r, Books(g, n, sm, quota, r)
    PROVE  HasPlace(n, g)'
<1>1. TypeOK /\ r \in Row
  BY DEF Known, Books
<1>2. BookedIn(g, n, r)
  BY <1>1, BookedRows
<1> QED
  BY <1>1, <1>2 DEF BookedIn, HasPlace

LEMMA PlannedPlace ==
    ASSUME Known, NEW g, NEW R, NEW claim, NEW sm, NEW quota, NEW r,
           Plans(g, R, claim, sm, quota, r)
    PROVE  HoldsPlan(g)'
<1> DEFINE claimed == updateSMConfigForGPU(hasGPUs[g], R, claim)
           n == Provisional(cur, quota, sm)
           new == Added(claimed, n, sm, quota, r)
<1>1. g \in DOMAIN hasGPUs /\ hasGPUs' = Put(hasGPUs, g, new) /\ r \in Row /\ claim \in Int
  BY DEF Plans
<1>2. IsHASGPUInfo(claimed)
  BY <1>1, UpdateSMConfigType DEF Known, TypeOK, IsLedger
<1>3. ~IsReal(n)
  BY DEF IsReal, Provisional
<1> HIDE DEF claimed, n
<1>4. IsAdded(claimed, new, n, EffectiveSM(claimed, r, sm), quota, r)
  BY <1>1, <1>2, AddedParts
<1> HIDE DEF new
<1>5. g \in DOMAIN hasGPUs' /\ hasGPUs'[g] = new /\ n \in DOMAIN new.rows[r]
  BY <1>1, <1>4 DEF IsAdded, Put
<1> QED
  BY <1>1, <1>3, <1>5 DEF HoldsPlan

(* A deletion that does not fail removes the FaSTPod it was planned for.   *)
LEMMA DeletionHappens ==
    ASSUME Remembered, "delete" \notin FaultyCalls, ApplyDelete
    PROVE  Target.name \notin DOMAIN fastPod'
<1> DEFINE n == Target.name
<1>1. n \in PlannedDeletes /\ cur \in Func
  BY ApplyShape, CurType DEF Applies, Remembered, Known, BetweenFunctions
<1>2. n \in DOMAIN fastPod => n \in fastPods[cur]
  BY <1>1 DEF Remembered, KnownNames, FoundPods
<1>3. PICK o \in Outcomes("delete") :
         fastPod' = IF n \in fastPods[cur] THEN AfterDelete(o, n) ELSE fastPod
  BY DEF ApplyDelete
<1>4. o = "ok"
  BY DEF Outcomes
<1> QED
  BY <1>2, <1>3, <1>4 DEF AfterDelete, Exists, Drop

(* What leaves the list of planned deletions is no FaSTPod any more.       *)
LEMMA DeletesStay ==
    ASSUME Remembered, "delete" \notin FaultyCalls, [Next]_vars, ~Emptying,
           NEW n \in DOMAIN fastPod', n \in PlannedDeletes
    PROVE  n \in PlannedDeletes'
<1>0. TypeOK /\ Known /\ actions \in Seq(HASAction)
  BY DEF Remembered, Known, TypeOK
<1>1. CASE Applies /\ actions # <<>> /\ actions' = Tail(actions)
  <2>1. SUFFICES ASSUME n \notin PlannedDeletes' PROVE FALSE
    OBVIOUS
  <2>2. Head(actions).type = -1 /\ Head(actions).pod.name = n
    BY <1>0, <1>1, <2>1, TailKeeps DEF PlannedDeletes
  <2>3. ApplyDelete /\ Target.name = n
    BY <1>0, <1>1, <2>2, ApplyShape DEF Target
  <2> QED
    BY <2>3, DeletionHappens
<1>2. ASSUME NEW t, NEW pod, actions' = Append(actions, Act(t, pod))
      PROVE  PlannedDeletes \subseteq PlannedDeletes'
  BY <1>0, <1>2, PlannedNames
<1>3. CASE actions' = actions
  BY <1>3 DEF PlannedDeletes
<1> QED
  BY <1>0, <1>1, <1>2, <1>3, PlanMoves DEF PlanMakers, Resizes, PlansPod

LEMMA SeenPlacedStep ==
    ASSUME Remembered, "delete" \notin FaultyCalls, PlacedInv, [Next]_vars
    PROVE  SeenPlaced'
<1>0. /\ TypeOK /\ Known /\ Phases /\ SeenInv /\ SeenPlaced /\ PlannedPlaced
  BY DEF Remembered, Known, SeenInv, PlacedInv
<1>1. SUFFICES ASSUME ~Emptying, NEW n \in DOMAIN fastPod', Seen(n)', n \notin PlannedDeletes',
                      NEW g, g = fastPod'[n].gpu
               PROVE  HasPlace(n, g)'
  <2>1. Emptying => SeenPlaced'
    BY <1>0, EmptyingForgets DEF SeenPlaced, Seen, Visited
  <2>2. (\A n \in DOMAIN fastPod' : Seen(n)' /\ n \notin PlannedDeletes' =>
            \A g : g = fastPod'[n].gpu => HasPlace(n, g)')
           => SeenPlaced'
    BY DEF SeenPlaced, HasPlace, HoldsPlan
  <2> QED
    BY <2>1, <2>2
<1>2. \A m, sm, quota, r : Books(g, m, sm, quota, r) => HasPlace(m, g)'
  BY <1>0, BookedPlace
<1>3. CASE n \in DOMAIN fastPod
  <2>1. g = fastPod[n].gpu
    BY <1>0, <1>1, <1>3, FaSTPodMoves DEF PodsNotAdded, PodAdded, Put
  <2>2. CASE \E r : Books(fastPod[n].gpu, n, fastPod[n].sm, ReadQuota(fastPod[n].quota), r)
    BY <1>2, <2>1, <2>2
  <2>3. CASE Seen(n)
    <3>1. n \notin PlannedDeletes
      BY <1>0, <1>1, DeletesStay
    <3>2. HasPlace(n, g)
      BY <1>0, <1>3, <2>1, <2>3, <3>1 DEF SeenPlaced
    <3>3. ~(EvictPod /\ n = pods[idx].name)
      <4>1. EvictPod => pods[idx].name \in PlannedDeletes'
        BY <1>0, PlannedNames DEF EvictPod
      <4> QED
        BY <1>1, <4>1
    <3> QED
      BY <1>0, <1>1, <3>2, <3>3, PlacesStay
  <2> QED
    BY <1>0, <1>1, <1>3, <2>2, <2>3, SeenMoves
<1>4. CASE n \notin DOMAIN fastPod
  <2>1. CASE InitPod
    <3>1. CASE FirstBooked
      <4>1. PICK m, h, config, r : /\ Books(h, m, config.sm, config.quota, r)
                                   /\ PodAdded(m, configs2FaSTPods(h, config))
        BY <3>1 DEF FirstBooked
      <4>2. g = h /\ n = m
        BY <1>1, <1>4, <4>1 DEF PodAdded, Put, configs2FaSTPods
      <4> QED
        BY <1>2, <4>1, <4>2
    <3>2. CASE FirstUnseen
      <4>1. FuncOf(n) = cur
        BY <1>4, <3>2 DEF FirstUnseen, PodAdded, Put
      <4>2. podsInfo[cur] = {} /\ podsInfo' = podsInfo
        BY <1>0, <2>1, <3>2 DEF Phases, InitPod, FirstUnseen
      <4> QED
        BY <1>1, <4>1, <4>2 DEF Seen, Visited
    <3> QED
      BY <1>0, <2>1, <3>1, <3>2, InitPodMoves
  <2>2. CASE ApplyCreate
    <3>1. HoldsPlan(Target.gpu)
      BY <1>0, <2>2, ApplyShape DEF Applies, PlannedPlaced
    <3>2. PICK m : PodAdded(m, configs2FaSTPods(Target.gpu, Target))
      BY <1>0, <1>4, <2>2, FaSTPodMoves DEF PodsNotAdded, InitPod, ApplyCreate
    <3>3. g = Target.gpu
      BY <1>1, <1>4, <3>2 DEF PodAdded, Put, configs2FaSTPods
    <3>4. HoldsPlan(g)'
      BY <1>0, <1>1, <3>1, <3>3, PlacesStay
    <3> QED
      BY <3>4 DEF HasPlace
  <2> QED
    BY <1>0, <1>4, <2>1, <2>2, FaSTPodMoves DEF PodsNotAdded
<1> QED
  BY <1>3, <1>4

LEMMA ListedPlacedStep ==
    ASSUME Remembered, "delete" \notin FaultyCalls, PlacedInv, [Next]_vars
    PROVE  ListedPlaced'
<1>0. /\ TypeOK /\ Known /\ Phases /\ SeenPlaced /\ ListedPlaced /\ ListIsRight /\ MadeAnew
      /\ KeptOrDeleted'
  BY KnownStep DEF Remembered, Known, SeenInv, PlacedInv, IInv, PlanInv
<1>1. CASE Emptying
  <2>1. pods' = <<>>
    BY <1>0, <1>1, EmptyingForgets DEF MadeAnew, BeforeList, Emptying
  <2> QED
    BY <2>1 DEF ListedPlaced
<1>2. CASE ~Emptying
  <2>1. SUFFICES ASSUME NEW j \in DOMAIN pods', NEW n, n = pods'[j].name, NEW g, g = pods'[j].gpu
                 PROVE  HasPlace(n, g)'
    BY DEF ListedPlaced, HasPlace, HoldsPlan
  <2>2. ~(EvictPod /\ n = pods[idx].name)
    <3>1. EvictPod => pods[idx].name \in PlannedDeletes'
      BY <1>0, PlannedNames DEF EvictPod
    <3>2. n \in Listed'
      BY <2>1 DEF Listed, Names
    <3> QED
      BY <1>0, <3>1, <3>2 DEF KeptOrDeleted
  <2>3. SUFFICES HasPlace(n, g)
    BY <1>0, <1>2, <2>2, PlacesStay
  <2>4. CASE \E i \in DOMAIN pods : SamePod(pods'[j], pods[i])
    BY <1>0, <2>1, <2>4 DEF ListedPlaced, SamePod
  <2>5. ASSUME ConvertPod, NEW m, PodListed(m), n = m, g = fastPod[m].gpu
        PROVE  HasPlace(n, g)
    <3>1. m \in PodsOf(cur) /\ pc = "convert" /\ cur \in DOMAIN podsInfo /\ actions = <<>>
      BY <1>0, <2>5, CurType DEF ListIsRight, ConvertPod, PodListed, BetweenFunctions, MadeAnew
    <3>2. m \in DOMAIN fastPod /\ Seen(m) /\ m \notin PlannedDeletes
      BY <1>0, <3>1 DEF PodsOf, Seen, Visited, Phases, Working, PlannedDeletes, NamesIn
    <3> QED
      BY <1>0, <2>5, <3>2 DEF SeenPlaced
  <2> QED
    BY <1>0, <2>1, <2>4, <2>5, ListMoves DEF PodsKept, PodListed
<1> QED
  BY <1>1, <1>2

LEMMA PlannedPlacedStep ==
    ASSUME Remembered, PlacedInv, [Next]_vars
    PROVE  PlannedPlaced'
<1>0. Known /\ PlannedPlaced /\ Phases /\ MadeAnew
  BY DEF Remembered, Known, SeenInv, IInv, PlanInv, PlacedInv
<1>1. CASE Emptying
  <2>1. actions' = <<>>
    BY <1>0, <1>1, EmptyingForgets DEF MadeAnew, BeforeList, Emptying
  <2> QED
    BY <2>1 DEF PlannedPlaced
<1>2. CASE ~Emptying
  <2>1. \A g : HoldsPlan(g) => HoldsPlan(g)'
    BY <1>0, <1>2, PlacesStay
  <2>2. \A g, R, claim, sm, quota, r : Plans(g, R, claim, sm, quota, r) => HoldsPlan(g)'
    BY <1>0, PlannedPlace
  <2>3. ASSUME NEW j \in DOMAIN actions', actions'[j].type = 1, NEW g, g = actions'[j].pod.gpu
        PROVE  HoldsPlan(g)'
    BY <1>0, <1>2, <2>1, <2>2, <2>3, CreationMoves DEF PlannedPlaced
  <2> QED
    BY <2>3 DEF PlannedPlaced, HoldsPlan
<1> QED
  BY <1>1, <1>2

(* Only the vertical loop indexes the rows of a GPU without looking.       *)
LEMMA RowPanics ==
    ASSUME [Next]_vars, pc' = "panicRow"
    PROVE  pc = "panicRow" \/ VerticalPanics
<1> USE DEF memoryVars, localVars, scalerVars, Forget, NextFunction, LoseMemory, Planned, ApplyRest
<1>1. CASE InitialiseStep
  BY <1>1 DEF InitialiseStep, InitCheckFails, InitCheckFindsNone, InitCheckFindsPods, AdoptPod,
              AdoptEnds, InitPod, AfterInit, InitPodPanics
<1>2. CASE ObserveStep
  <2>1. pc' # "panicRow" \/ pc' = pc
    BY <1>2, Zenon DEF ObserveStep, QueryFails, Query, QueryForNothing, CheckGivesUp,
              CheckFindsPods, ConvertPod, ConvertEnds, Decide, NoScaling, BeginScaleUp,
              BeginScaleDown
  <2> QED
    BY <2>1
<1>3. CASE Autoscale
  BY <1>3 DEF Autoscale, AutoscaleStep, VerticalScale, VerticalDone,
              HorizontalScale, HorizontalSkip, HorizontalDone, NoUsedGPULeft, NewGPUPanics,
              NoNewGPU, Fallback, FallbackFindsNothing, ShrinkPod, ShrinkSkip, ShrinkDone,
              EvictPod, EvictSkip, EvictDone, CleanUp
<1>4. CASE ApplyStep
  BY <1>4 DEF ApplyStep, ApplyDelete, ApplyUpdateUntracked, ApplyUpdate, ApplyCreateRefused,
              ApplyLookup, ApplyCreate, ApplyEnds
<1>5. CASE Start \/ RestartAfterPanic \/ Crash \/ Tick \/ TickEnds \/ VisitNew \/ VisitKnown
  BY <1>5 DEF Start, getGPUDeviceTopology, RestartAfterPanic, Crash, Tick, TickEnds, VisitNew,
              VisitKnown
<1>6. CASE DeleteFunc \/ AddFunc \/ Collect \/ CooldownExpires \/ UNCHANGED vars
  BY <1>6 DEF DeleteFunc, AddFunc, Collect, CooldownExpires, vars
<1> QED
  BY <1>1, <1>2, <1>3, <1>4, <1>5, <1>6 DEF Next, ControllerStep, EnvStep

LEMMA NoRowPanicStep ==
    ASSUME Remembered, PlacedInv, [Next]_vars
    PROVE  NoRowPanic'
<1>1. SUFFICES ASSUME VerticalPanics PROVE FALSE
  BY RowPanics DEF PlacedInv, NoRowPanic
<1>2. idx \in DOMAIN pods /\ ~OnAllocatedGPU(pods[idx])
  BY <1>1, ListedPodType DEF VerticalPanics, Remembered, Known, TypeOK
<1>3. pods[idx].gpu \in DOMAIN hasGPUs
  BY <1>2 DEF PlacedInv, ListedPlaced, HasPlace, HoldsPlan
<1> QED
  BY <1>2, <1>3 DEF Remembered, SeenInv, ListedAllocated, Allocated, OnAllocatedGPU

(* The vertical loop finds the GPU of every pod on its list tracked, and   *)
(* the process does not die there, if no deletion fails: a failed one      *)
(* leaves a FaSTPod that is no longer booked, on a GPU that may be dropped.*)
THEOREM RowsAreThere ==
    ASSUME "delete" \notin FaultyCalls
    PROVE  Spec => []NoRowPanic
<1>1. Init => PlacedInv
  BY DEF Init, PlacedInv, SeenPlaced, ListedPlaced, PlannedPlaced, NoRowPanic, EmptyMap
<1>2. Remembered /\ PlacedInv /\ [Next]_vars => PlacedInv'
  BY SeenPlacedStep, ListedPlacedStep, PlannedPlacedStep, NoRowPanicStep DEF PlacedInv
<1>3. PlacedInv => NoRowPanic
  BY DEF PlacedInv
<1> QED
  BY <1>1, <1>2, <1>3, RememberedAlways, PTL DEF Spec

-----------------------------------------------------------------------------
(* If neither creations, deletions nor checks fail, and no FaSTFunc is     *)
(* deleted, podsInfo is right about every function, at all times but the   *)
(* moment between a first visit and the check that follows it.             *)
FuncsStay == funcs = Func

Remembers(f) == podsInfo[f] = PodsOf(f)

MemoryInv ==
    /\ FuncsStay
    /\ \A f \in DOMAIN podsInfo : Remembers(f) \/ (pc = "initCheck" /\ f = cur)

(* The functions that exist do not change.                                 *)
LEMMA FuncsStayStep ==
    ASSUME MaxChurn = 0, Known, FuncsStay, [Next]_vars
    PROVE  FuncsStay' /\ ~Collect /\ ~DeleteFunc /\ ~AddFunc
<1>1. ~DeleteFunc
  BY DEF DeleteFunc, Known, TypeOK
<1>2. ~AddFunc
  BY DEF AddFunc, FuncsStay
<1>3. ~Collect
  <2>1. \A n \in Name : FuncOf(n) \in Func
    BY DEF Name, FuncOf, RealName, Provisional
  <2> QED
    BY <2>1 DEF Collect, FuncsStay, Known, TypeOK, IsMapOf
<1>4. funcs' = funcs
  BY <1>1, <1>2, <1>3, ClusterWriters
     DEF InitPod, ApplyDelete, ApplyUpdate, ApplyCreate, ApplyRest
<1> QED
  BY <1>1, <1>2, <1>3, <1>4 DEF FuncsStay

(* The check that follows a first visit ends in one of three ways.         *)
LEMMA InitCheckEnds ==
    ASSUME [Next]_vars, pc = "initCheck", ~(pc' = "initCheck" /\ cur' = cur)
    PROVE  Emptying \/ InitCheckFails \/ InitCheckFindsNone \/ InitCheckFindsPods
<1>1. CASE InitialiseStep
  BY <1>1 DEF InitialiseStep, AdoptPod, AdoptEnds, InitPod, InitPodPanics
<1>2. ~ObserveStep
  BY Zenon DEF ObserveStep, QueryFails, Query, QueryForNothing, CheckGivesUp, CheckFindsPods,
      ConvertPod, ConvertEnds, Decide, NoScaling
<1>3. ~Autoscale
  BY DEF Autoscale, AutoscaleStep, VerticalScale, VerticalPanics, VerticalDone,
         HorizontalScale, HorizontalSkip, HorizontalDone, NoUsedGPULeft, NewGPUPanics,
         NoNewGPU, Fallback, FallbackFindsNothing, ShrinkPod, ShrinkSkip, ShrinkDone,
         EvictPod, EvictSkip, EvictDone, CleanUp
<1>4. ~ApplyStep
  BY DEF ApplyStep, ApplyDelete, ApplyUpdateUntracked, ApplyUpdate, ApplyCreateRefused,
         ApplyLookup, ApplyCreate, ApplyEnds, Planned
<1>5. ~(Tick \/ TickEnds \/ VisitNew \/ VisitKnown)
  BY DEF Tick, TickEnds, VisitNew, VisitKnown
<1>6. ~(DeleteFunc \/ AddFunc \/ Collect \/ CooldownExpires \/ UNCHANGED vars)
  BY DEF DeleteFunc, AddFunc, Collect, CooldownExpires, vars, scalerVars
<1> QED
  BY <1>1, <1>2, <1>3, <1>4, <1>5, <1>6 DEF Next, ControllerStep, EnvStep, Emptying

(* What a call makes of the FaSTPods of a function, and of what podsInfo   *)
(* holds for it.                                                           *)
LEMMA BothGain ==
    ASSUME cur \in DOMAIN podsInfo, Remembers(cur), NEW n, FuncOf(n) = cur, NEW pod,
           fastPod' = Put(fastPod, n, pod), podsInfo' = Track(n)
    PROVE  \A f \in DOMAIN podsInfo' :
              f \in DOMAIN podsInfo /\ (Remembers(f) => podsInfo'[f] = PodsOf(f)')
BY DEF Put, Track, PodsOf, Remembers

LEMMA BothLose ==
    ASSUME cur \in DOMAIN podsInfo, Remembers(cur), NEW n, FuncOf(n) = cur,
           fastPod' = Drop(fastPod, {n}), podsInfo' = Untrack(n)
    PROVE  \A f \in DOMAIN podsInfo' :
              f \in DOMAIN podsInfo /\ (Remembers(f) => podsInfo'[f] = PodsOf(f)')
BY DEF Put, Drop, Untrack, PodsOf, Remembers

LEMMA BothStay ==
    ASSUME DOMAIN fastPod' = DOMAIN fastPod, podsInfo' = podsInfo
    PROVE  \A f \in DOMAIN podsInfo' :
              f \in DOMAIN podsInfo /\ (Remembers(f) => podsInfo'[f] = PodsOf(f)')
BY DEF PodsOf, Remembers

LEMMA MemoryInvStep ==
    ASSUME FaultyCalls \cap {"create", "delete", "check"} = {}, MaxChurn = 0,
           Known, Phases, MemoryInv, [Next]_vars
    PROVE  MemoryInv'
<1> DEFINE Kept == \A f \in DOMAIN podsInfo' :
              f \in DOMAIN podsInfo /\ (Remembers(f) => podsInfo'[f] = PodsOf(f)')
<1>0. /\ TypeOK /\ NoneFound /\ OwnFaSTPods /\ FuncsStay'
      /\ ~Collect /\ ~DeleteFunc /\ ~AddFunc
      /\ pc \notin BetweenFunctions => cur \in DOMAIN podsInfo /\ cur \in Func
      /\ \A f \in DOMAIN podsInfo : Remembers(f) \/ (pc = "initCheck" /\ f = cur)
      /\ pc \notin BetweenFunctions \cup {"initCheck"} => Remembers(cur)
  BY FuncsStayStep, CurType DEF Known, IInv, MemoryInv, BetweenFunctions
<1>1. Outcomes("create") = {"ok"} /\ Outcomes("delete") = {"ok"} /\ ~InitCheckFails
  BY DEF Outcomes, ReadOutcomes, InitCheckFails
<1>2. SUFFICES ASSUME NEW f \in DOMAIN podsInfo', ~(pc' = "initCheck" /\ f = cur')
               PROVE  podsInfo'[f] = PodsOf(f)'
  BY <1>0 DEF MemoryInv, Remembers, PodsOf
<1>3. CASE Kept /\ (pc = "initCheck" => pc' = "initCheck" /\ cur' = cur)
  BY <1>0, <1>2, <1>3
<1>4. CASE Emptying
  BY <1>2, <1>4, EmptyingForgets DEF Known
<1>5. CASE VisitNew
  <2>1. \E h : podsInfo' = Put(podsInfo, h, {}) /\ cur' = h /\ pc' = "initCheck" /\ pc = "loop"
               /\ fastPod' = fastPod
    BY <1>5 DEF VisitNew, clusterVars
  <2>2. f \in DOMAIN podsInfo /\ podsInfo'[f] = podsInfo[f]
    BY <1>2, <2>1 DEF Put
  <2> QED
    BY <1>0, <2>1, <2>2 DEF Remembers, PodsOf
<1>6. CASE InitCheckFindsPods
  <2>1. podsInfo' = Put(podsInfo, cur, PodsOf(cur)) /\ fastPod' = fastPod
    BY <1>6 DEF InitCheckFindsPods, clusterVars
  <2> QED
    BY <1>0, <1>2, <2>1 DEF Put, Remembers, PodsOf
<1>7. CASE InitPod
  <2>0. pc = "initCreate" /\ cur \in DOMAIN podsInfo /\ Remembers(cur)
    BY <1>0, <1>7 DEF InitPod, BetweenFunctions
  <2>1. PICK g \in InitGPUs, n \in FreshName(cur), o \in Outcomes("create"),
             config \in InitialConfig[cur] :
          /\ fastPod' = AfterCreate(o, n, configs2FaSTPods(g, config))
          /\ podsInfo' = IF o = "ok" /\ Admitted(o) THEN Track(n) ELSE podsInfo
    BY <1>7 DEF InitPod
  <2>2. o = "ok" /\ FuncOf(n) = cur
    BY <1>1, FreshNames
  <2>3. Kept
    BY <2>0, <2>1, <2>2, BothGain, BothStay DEF AfterCreate
  <2> QED
    BY <1>3, <2>0, <2>3
<1>8. CASE ApplyCreate
  <2>0. pc = "create" /\ cur \in DOMAIN podsInfo /\ Remembers(cur)
    BY <1>0, <1>8 DEF ApplyCreate, BetweenFunctions
  <2>1. PICK n \in FreshName(cur), o \in Outcomes("create") :
          /\ fastPod' = AfterCreate(o, n, configs2FaSTPods(Target.gpu, Target))
          /\ podsInfo' = IF o = "ok" /\ Admitted(o) THEN Track(n) ELSE podsInfo
    BY <1>8 DEF ApplyCreate
  <2>2. o = "ok" /\ FuncOf(n) = cur
    BY <1>1, FreshNames
  <2>3. Kept
    BY <2>0, <2>1, <2>2, BothGain, BothStay DEF AfterCreate
  <2> QED
    BY <1>3, <2>0, <2>3
<1>9. CASE ApplyDelete
  <2> DEFINE n == Target.name
  <2>0. pc = "apply" /\ cur \in DOMAIN podsInfo /\ Remembers(cur) /\ cur \in Func
    BY <1>0, <1>9 DEF ApplyDelete, Planned, BetweenFunctions
  <2>1. PICK o \in Outcomes("delete") :
          LET sent == n \in fastPods[cur]
              seen == sent /\ o = "ok" /\ Exists(o, n)
          IN  /\ fastPod' = IF sent THEN AfterDelete(o, n) ELSE fastPod
              /\ podsInfo' = IF seen THEN Untrack(n) ELSE podsInfo
    BY <1>9 DEF ApplyDelete
  <2>2. o = "ok" /\ (n \in fastPods[cur] => FuncOf(n) = cur)
    BY <1>0, <1>1, <2>0 DEF OwnFaSTPods
  <2> HIDE DEF n
  <2>3. Kept
    BY <2>0, <2>1, <2>2, BothLose, BothStay DEF AfterDelete
  <2> QED
    BY <1>3, <2>0, <2>3
<1>10. CASE podsInfo' = podsInfo /\ ~Emptying /\ ~InitPod /\ ~ApplyCreate /\ ~ApplyDelete
  <2>1. DOMAIN fastPod' = DOMAIN fastPod
    <3>1. CASE ApplyUpdate
      <4>1. \E o, m, quota : fastPod' = AfterUpdate(o, m, quota)
        BY <3>1 DEF ApplyUpdate
      <4> QED
        BY <4>1 DEF AfterUpdate
    <3> QED
      BY <1>0, <1>10, <3>1, ClusterWriters
  <2>2. Kept
    BY <1>10, <2>1, BothStay
  <2>3. CASE InitCheckFindsNone
    <3>1. PodsOf(cur) = {} /\ podsInfo[cur] = {}
      BY <2>3 DEF InitCheckFindsNone, Phases
    <3>2. \A h \in DOMAIN podsInfo : Remembers(h)
      BY <1>0, <3>1 DEF Remembers
    <3> QED
      BY <1>2, <2>2, <3>2
  <2> QED
    BY <1>1, <1>3, <1>6, <1>10, <2>2, <2>3, InitCheckEnds
<1> QED
  BY <1>4, <1>5, <1>6, <1>7, <1>8, <1>9, <1>10, MemoryWriters

(* Between ticks podsInfo holds exactly the FaSTPods of every visited      *)
(* function, if those calls do not fail: no other call can make the two    *)
(* differ, and neither can a crash.                                        *)
THEOREM MemoryIsRight ==
    ASSUME FaultyCalls \cap {"create", "delete", "check"} = {}, MaxChurn = 0
    PROVE  Spec => []MemoryMatchesCluster
<1>1. Init => MemoryInv
  BY DEF Init, MemoryInv, FuncsStay, EmptyMap
<1>2. Known /\ SeenInv /\ MemoryInv /\ [Next]_vars => MemoryInv'
  BY MemoryInvStep DEF SeenInv
<1>3. MemoryInv => MemoryMatchesCluster
  BY DEF MemoryInv, MemoryMatchesCluster, Remembers
<1> QED
  BY <1>1, <1>2, <1>3, KnownAlways, MemoryIsBooked, PTL DEF Spec

-----------------------------------------------------------------------------
(* If neither creations nor checks fail, podsInfo lacks no FaSTPod of a    *)
(* visited function, at all times but the moment between a first visit and *)
(* the check that follows it; deletions may fail, and FaSTFuncs go.        *)
Tracks(f) == PodsOf(f) \subseteq podsInfo[f]

TrackInv == \A f \in DOMAIN podsInfo : Tracks(f) \/ (pc = "initCheck" /\ f = cur)

(* What a call makes of the FaSTPods of a function that podsInfo has.      *)
LEMMA CreatedTracked ==
    ASSUME cur \in DOMAIN podsInfo, NEW n, FuncOf(n) = cur, NEW pod,
           fastPod' = Put(fastPod, n, pod), podsInfo' = Track(n)
    PROVE  \A f \in DOMAIN podsInfo' :
              f \in DOMAIN podsInfo /\ (Tracks(f) => PodsOf(f)' \subseteq podsInfo'[f])
BY DEF Put, Track, PodsOf, Tracks

LEMMA DeletedUntracked ==
    ASSUME cur \in DOMAIN podsInfo, NEW n,
           fastPod' = Drop(fastPod, {n}), podsInfo' \in {podsInfo, Untrack(n)}
    PROVE  \A f \in DOMAIN podsInfo' :
              f \in DOMAIN podsInfo /\ (Tracks(f) => PodsOf(f)' \subseteq podsInfo'[f])
BY DEF Put, Drop, Untrack, PodsOf, Tracks

LEMMA FewerTracked ==
    ASSUME DOMAIN fastPod' \subseteq DOMAIN fastPod, podsInfo' = podsInfo
    PROVE  \A f \in DOMAIN podsInfo' :
              f \in DOMAIN podsInfo /\ (Tracks(f) => PodsOf(f)' \subseteq podsInfo'[f])
BY DEF PodsOf, Tracks

LEMMA TrackInvStep ==
    ASSUME FaultyCalls \cap {"create", "check"} = {}, Known, Phases, TrackInv, [Next]_vars
    PROVE  TrackInv'
<1> DEFINE Kept == \A f \in DOMAIN podsInfo' :
              f \in DOMAIN podsInfo /\ (Tracks(f) => PodsOf(f)' \subseteq podsInfo'[f])
<1>0. /\ TypeOK
      /\ pc \notin BetweenFunctions => cur \in DOMAIN podsInfo /\ cur \in Func
      /\ \A f \in DOMAIN podsInfo : Tracks(f) \/ (pc = "initCheck" /\ f = cur)
  BY CurType DEF Known, TrackInv, BetweenFunctions
<1>1. Outcomes("create") = {"ok"} /\ ~InitCheckFails
  BY DEF Outcomes, ReadOutcomes, InitCheckFails
<1>2. SUFFICES ASSUME NEW f \in DOMAIN podsInfo', ~(pc' = "initCheck" /\ f = cur')
               PROVE  PodsOf(f)' \subseteq podsInfo'[f]
  BY DEF TrackInv, Tracks, PodsOf
<1>3. CASE Kept /\ (pc = "initCheck" => pc' = "initCheck" /\ cur' = cur)
  BY <1>0, <1>2, <1>3
<1>4. CASE Emptying
  BY <1>2, <1>4, EmptyingForgets DEF Known
<1>5. CASE VisitNew
  <2>1. \E h : podsInfo' = Put(podsInfo, h, {}) /\ cur' = h /\ pc' = "initCheck" /\ pc = "loop"
               /\ fastPod' = fastPod
    BY <1>5 DEF VisitNew, clusterVars
  <2>2. f \in DOMAIN podsInfo /\ podsInfo'[f] = podsInfo[f]
    BY <1>2, <2>1 DEF Put
  <2> QED
    BY <1>0, <2>1, <2>2 DEF Tracks, PodsOf
<1>6. CASE InitCheckFindsPods
  <2>1. podsInfo' = Put(podsInfo, cur, PodsOf(cur)) /\ fastPod' = fastPod
    BY <1>6 DEF InitCheckFindsPods, clusterVars
  <2> QED
    BY <1>0, <1>2, <2>1 DEF Put, Tracks, PodsOf
<1>7. CASE InitPod
  <2>0. pc = "initCreate" /\ cur \in DOMAIN podsInfo
    BY <1>0, <1>7 DEF InitPod, BetweenFunctions
  <2>1. PICK g \in InitGPUs, n \in FreshName(cur), o \in Outcomes("create"),
             config \in InitialConfig[cur] :
          /\ fastPod' = AfterCreate(o, n, configs2FaSTPods(g, config))
          /\ podsInfo' = IF o = "ok" /\ Admitted(o) THEN Track(n) ELSE podsInfo
    BY <1>7 DEF InitPod
  <2>2. o = "ok" /\ FuncOf(n) = cur
    BY <1>1, FreshNames
  <2>3. Kept
    BY <2>0, <2>1, <2>2, CreatedTracked, FewerTracked DEF AfterCreate
  <2> QED
    BY <1>3, <2>0, <2>3
<1>8. CASE ApplyCreate
  <2>0. pc = "create" /\ cur \in DOMAIN podsInfo
    BY <1>0, <1>8 DEF ApplyCreate, BetweenFunctions
  <2>1. PICK n \in FreshName(cur), o \in Outcomes("create") :
          /\ fastPod' = AfterCreate(o, n, configs2FaSTPods(Target.gpu, Target))
          /\ podsInfo' = IF o = "ok" /\ Admitted(o) THEN Track(n) ELSE podsInfo
    BY <1>8 DEF ApplyCreate
  <2>2. o = "ok" /\ FuncOf(n) = cur
    BY <1>1, FreshNames
  <2>3. Kept
    BY <2>0, <2>1, <2>2, CreatedTracked, FewerTracked DEF AfterCreate
  <2> QED
    BY <1>3, <2>0, <2>3
<1>9. CASE ApplyDelete
  <2> DEFINE n == Target.name
  <2>0. pc = "apply" /\ cur \in DOMAIN podsInfo
    BY <1>0, <1>9 DEF ApplyDelete, Planned, BetweenFunctions
  <2>1. PICK o \in Outcomes("delete") :
          LET sent == n \in fastPods[cur]
              seen == sent /\ o = "ok" /\ Exists(o, n)
          IN  /\ fastPod' = IF sent THEN AfterDelete(o, n) ELSE fastPod
              /\ podsInfo' = IF seen THEN Untrack(n) ELSE podsInfo
    BY <1>9 DEF ApplyDelete
  <2> HIDE DEF n
  <2>2. Kept
    BY <2>0, <2>1, DeletedUntracked, FewerTracked DEF AfterDelete
  <2> QED
    BY <1>3, <2>0, <2>2
<1>10. CASE podsInfo' = podsInfo /\ ~Emptying /\ ~InitPod /\ ~ApplyCreate /\ ~ApplyDelete
  <2>1. DOMAIN fastPod' \subseteq DOMAIN fastPod
    <3>1. CASE ApplyUpdate
      <4>1. \E o, m, quota : fastPod' = AfterUpdate(o, m, quota)
        BY <3>1 DEF ApplyUpdate
      <4> QED
        BY <4>1 DEF AfterUpdate
    <3>2. CASE Collect
      BY <3>2 DEF Collect, Drop
    <3>3. CASE DeleteFunc \/ AddFunc
      BY <3>3 DEF DeleteFunc, AddFunc
    <3> QED
      BY <1>10, <3>1, <3>2, <3>3, ClusterWriters
  <2>2. Kept
    BY <1>10, <2>1, FewerTracked
  <2>3. CASE InitCheckFindsNone
    <3>1. PodsOf(cur) = {}
      BY <2>3 DEF InitCheckFindsNone
    <3>2. \A h \in DOMAIN podsInfo : Tracks(h)
      BY <1>0, <3>1 DEF Tracks
    <3> QED
      BY <1>2, <2>2, <3>2
  <2> QED
    BY <1>1, <1>3, <1>6, <1>10, <2>2, <2>3, InitCheckEnds
<1> QED
  BY <1>4, <1>5, <1>6, <1>7, <1>8, <1>9, <1>10, MemoryWriters

(* Between ticks podsInfo lacks no FaSTPod of a visited function, though   *)
(* FaSTFuncs are deleted and created again, deletions fail and the process *)
(* dies: only a creation or a check that fails can hide one from it.       *)
THEOREM NothingIsForgotten ==
    ASSUME FaultyCalls \cap {"create", "check"} = {}
    PROVE  Spec => []NothingForgotten
<1>1. Init => TrackInv
  BY DEF Init, TrackInv, EmptyMap
<1>2. Known /\ SeenInv /\ TrackInv /\ [Next]_vars => TrackInv'
  BY TrackInvStep DEF SeenInv
<1>3. TrackInv => NothingForgotten
  BY DEF TrackInv, NothingForgotten, Tracks
<1> QED
  BY <1>1, <1>2, <1>3, KnownAlways, MemoryIsBooked, PTL DEF Spec

-----------------------------------------------------------------------------
(* The list and the planned updates are about FaSTPods where they are: no  *)
(* name is used again while the process remembers it.                      *)
ListedWhereItIs ==
    \A i \in DOMAIN pods :
        pods[i].name \in DOMAIN fastPod => pods[i].gpu = fastPod[pods[i].name].gpu

UpdatedWhereItIs ==
    \A i \in DOMAIN actions :
        LET pod == actions[i].pod
        IN  actions[i].type = 0 =>
              IsReal(pod.name) /\ (pod.name \in DOMAIN fastPod => pod.gpu = fastPod[pod.name].gpu)

(* A pod is updated once in a plan, and before the loop goes on.           *)
UpdatedOnce ==
    \A i, j \in DOMAIN actions :
        actions[i].type = 0 /\ actions[j].type = 0 /\ actions[i].pod.name = actions[j].pod.name
          => i = j

UpdatedBefore ==
    pc \in {"vertical", "shrink"} =>
        \A i \in DOMAIN actions :
            actions[i].type = 0 =>
              \E k \in DOMAIN pods : k < idx /\ pods[k].name = actions[i].pod.name

(* What is adopted is in podsInfo already.                                 *)
AdoptedKnown == pc = "adopt" => unread \subseteq podsInfo[cur]

UpdateInv == ListedWhereItIs /\ UpdatedWhereItIs /\ UpdatedOnce /\ UpdatedBefore /\ AdoptedKnown

(* A FaSTPod that is new is neither listed nor planned to be updated.      *)
LEMMA NewIsUnknown ==
    ASSUME Remembered, [Next]_vars, NEW n \in DOMAIN fastPod', n \notin DOMAIN fastPod
    PROVE  n \notin Listed /\ n \notin PlannedUpdates /\ pods' \in {pods, <<>>} /\ pc' # "convert"
<1>0. TypeOK /\ MadeAnew /\ KnownNames
  BY DEF Remembered, Known, IInv, PlanInv
<1>1. CASE InitPod
  <2>1. pods = <<>> /\ actions = <<>> /\ pods' = pods /\ pc' # "convert"
    BY <1>0, <1>1 DEF InitPod, AfterInit, MadeAnew, BeforeList, localVars, scalerVars
  <2> QED
    BY <2>1 DEF Listed, Names, PlannedUpdates, NamesIn
<1>2. CASE ApplyCreate
  <2>1. PICK m \in FreshName(cur) : \E o :
          fastPod' = AfterCreate(o, m, configs2FaSTPods(Target.gpu, Target))
    BY <1>2 DEF ApplyCreate
  <2>2. n = m
    BY <2>1 DEF AfterCreate, Put
  <2>3. cur \in Func /\ PlannedCreates # {} /\ pc' = "apply" /\ pods' = pods
    BY <1>0, <1>2, ApplyShape, CurType DEF Applies, BetweenFunctions
  <2>4. n \notin NamesInUse
    BY <2>1, <2>2 DEF FreshName
  <2>5. n \notin FoundPods
    <3> DEFINE lists == {fastPods[f] : f \in Func}
    <3>1. UNION lists \subseteq NamesInUse
      BY DEF NamesInUse
    <3>2. fastPods[cur] \in lists
      BY <2>3
    <3> HIDE DEF lists
    <3> QED
      BY <2>3, <2>4, <3>1, <3>2 DEF FoundPods
  <2> QED
    BY <1>0, <2>3, <2>5 DEF KnownNames
<1> QED
  BY <1>0, <1>1, <1>2, FaSTPodMoves DEF PodsNotAdded

(* An update is planned for the pod a loop has just resized.               *)
LEMMA UpdateMoves ==
    ASSUME Known, [Next]_vars
    PROVE  \/ Emptying
           \/ \A j \in DOMAIN actions' :
                actions'[j].type = 0 =>
                  \/ \E i \in DOMAIN actions : actions'[j] = actions[i]
                  \/ /\ VerticalScale \/ ShrinkPod
                     /\ idx \in DOMAIN pods
                     /\ actions'[j].pod.name = pods[idx].name
                     /\ actions'[j].pod.gpu = pods[idx].gpu
<1>0. TypeOK
  BY DEF Known
<1>1. CASE actions' = actions
  BY <1>1
<1>2. CASE actions # <<>> /\ actions' = Tail(actions)
  BY <1>0, <1>2, TailPlan
<1>3. ASSUME NEW t \in {-1, 1}, NEW pod \in HASPodInfo, actions' = Append(actions, Act(t, pod))
      PROVE  \A j \in DOMAIN actions' :
                actions'[j].type = 0 => \E i \in DOMAIN actions : actions'[j] = actions[i]
  BY <1>0, <1>3, PlanAppends
<1>4. ASSUME NEW quota, NEW rps, Resizes(quota, rps)
      PROVE  \A j \in DOMAIN actions' :
                \/ \E i \in DOMAIN actions : actions'[j] = actions[i]
                \/ /\ idx \in DOMAIN pods
                   /\ actions'[j].pod.name = pods[idx].name
                   /\ actions'[j].pod.gpu = pods[idx].gpu
  <2>1. Resized(pods[idx], quota, rps) \in HASPodInfo
    BY <1>4, ResizedType DEF Resizes
  <2>2. \A j \in DOMAIN actions' :
          \/ \E i \in DOMAIN actions : actions'[j] = actions[i]
          \/ actions'[j].pod = Resized(pods[idx], quota, rps)
    BY <1>0, <1>4, <2>1, PlanAppends DEF Resizes
  <2> QED
    BY <1>4, <2>2 DEF Resizes, Resized
<1>5. CASE EvictPod /\ actions' = Append(actions, Act(-1, pods[idx]))
  <2>1. pods[idx] \in HASPodInfo
    BY <1>0, <1>5, ListedPodType DEF EvictPod, MayEvict, TypeOK
  <2> QED
    BY <1>3, <1>5, <2>1
<1> QED
  BY <1>1, <1>2, <1>3, <1>4, <1>5, PlanMoves DEF PlanMakers, PlansPod

LEMMA ListedWhereItIsStep ==
    ASSUME Remembered, UpdateInv, [Next]_vars
    PROVE  ListedWhereItIs'
<1>0. TypeOK /\ ListedWhereItIs
  BY DEF Remembered, Known, UpdateInv
<1>1. SUFFICES ASSUME NEW j \in DOMAIN pods', NEW n \in DOMAIN fastPod', pods'[j].name = n
               PROVE  pods'[j].gpu = fastPod'[n].gpu
  BY DEF ListedWhereItIs
<1>2. CASE n \in DOMAIN fastPod
  <2>1. fastPod'[n].gpu = fastPod[n].gpu
    BY <1>0, <1>2, FaSTPodMoves DEF PodsNotAdded, PodAdded, Put
  <2> QED
    BY <1>0, <1>1, <1>2, <2>1, ListMoves DEF PodsKept, PodListed, SamePod, ListedWhereItIs
<1>3. CASE n \notin DOMAIN fastPod
  <2>1. n \notin Listed /\ pods' \in {pods, <<>>}
    BY <1>3, NewIsUnknown
  <2> QED
    BY <1>1, <2>1 DEF Listed, Names
<1> QED
  BY <1>2, <1>3

LEMMA UpdatedWhereItIsStep ==
    ASSUME Remembered, UpdateInv, [Next]_vars
    PROVE  UpdatedWhereItIs'
<1>0. TypeOK /\ Known /\ Phases /\ ListedWhereItIs /\ UpdatedWhereItIs /\ RealNames /\ MadeAnew
  BY DEF Remembered, Known, UpdateInv, BookInv, SeenInv, IInv, PlanInv
<1>1. CASE Emptying
  <2>1. actions' = <<>>
    BY <1>0, <1>1, EmptyingForgets DEF MadeAnew, BeforeList, Emptying
  <2> QED
    BY <2>1 DEF UpdatedWhereItIs
<1>2. CASE ~Emptying
  <2>1. SUFFICES ASSUME NEW j \in DOMAIN actions', actions'[j].type = 0,
                        NEW n, n = actions'[j].pod.name
                 PROVE  IsReal(n) /\ (n \in DOMAIN fastPod' => actions'[j].pod.gpu = fastPod'[n].gpu)
    BY DEF UpdatedWhereItIs
  <2>2. n \in DOMAIN fastPod' /\ n \in DOMAIN fastPod => fastPod'[n].gpu = fastPod[n].gpu
    BY <1>0, FaSTPodMoves DEF PodsNotAdded, PodAdded, Put
  <2>3. ASSUME NEW i \in DOMAIN actions, actions'[j] = actions[i]
        PROVE  IsReal(n) /\ (n \in DOMAIN fastPod' => actions'[j].pod.gpu = fastPod'[n].gpu)
    <3>1. n \in PlannedUpdates
      BY <2>1, <2>3 DEF PlannedUpdates, NamesIn
    <3>2. n \in DOMAIN fastPod' => n \in DOMAIN fastPod
      BY <3>1, NewIsUnknown
    <3> QED
      BY <1>0, <2>1, <2>2, <2>3, <3>2 DEF UpdatedWhereItIs
  <2>4. ASSUME idx \in DOMAIN pods, n = pods[idx].name, actions'[j].pod.gpu = pods[idx].gpu
        PROVE  IsReal(n) /\ (n \in DOMAIN fastPod' => actions'[j].pod.gpu = fastPod'[n].gpu)
    <3>1. n \in Listed
      BY <2>4 DEF Listed, Names
    <3>2. n \in DOMAIN fastPod' => n \in DOMAIN fastPod
      BY <3>1, NewIsUnknown
    <3> QED
      BY <1>0, <2>2, <2>4, <3>1, <3>2 DEF ListedWhereItIs, RealNames
  <2> QED
    BY <1>0, <1>2, <2>1, <2>3, <2>4, UpdateMoves
<1> QED
  BY <1>1, <1>2

(* How the goroutine gets into a loop that resizes pods, and how it stays. *)
LEMMA LoopPhases ==
    ASSUME TypeOK, [Next]_vars, pc' \in {"vertical", "shrink"}
    PROVE  \/ VerticalScale \/ ShrinkPod \/ Decide
           \/ /\ pc \in {"vertical", "shrink"}
              /\ actions' = actions /\ pods' = pods /\ (idx' = idx \/ idx' = idx + 1)
<1> USE DEF memoryVars, localVars, scalerVars, Forget, NextFunction, LoseMemory, Planned, ApplyRest
<1>1. CASE InitialiseStep
  BY <1>1 DEF InitialiseStep, InitCheckFails, InitCheckFindsNone, InitCheckFindsPods, AdoptPod,
              AdoptEnds, InitPod, AfterInit, InitPodPanics
<1>2. CASE ObserveStep
  BY <1>2, Zenon DEF ObserveStep, QueryFails, Query, QueryForNothing, CheckGivesUp,
              CheckFindsPods, ConvertPod, ConvertEnds, NoScaling
<1>3. CASE Autoscale
  BY <1>3 DEF Autoscale, AutoscaleStep, VerticalPanics, VerticalDone,
              HorizontalScale, HorizontalSkip, HorizontalDone, NoUsedGPULeft, NewGPUPanics,
              NoNewGPU, Fallback, FallbackFindsNothing, ShrinkSkip, ShrinkDone,
              EvictPod, EvictSkip, EvictDone, CleanUp
<1>4. CASE ApplyStep
  BY <1>4 DEF ApplyStep, ApplyDelete, ApplyUpdateUntracked, ApplyUpdate, ApplyCreateRefused,
              ApplyLookup, ApplyCreate, ApplyEnds
<1>5. CASE Start \/ RestartAfterPanic \/ Crash \/ Tick \/ TickEnds \/ VisitNew \/ VisitKnown
  BY <1>5 DEF Start, getGPUDeviceTopology, RestartAfterPanic, Crash, Tick, TickEnds, VisitNew,
              VisitKnown
<1>6. CASE DeleteFunc \/ AddFunc \/ Collect \/ CooldownExpires \/ UNCHANGED vars
  BY <1>6 DEF DeleteFunc, AddFunc, Collect, CooldownExpires, vars
<1> QED
  BY <1>1, <1>2, <1>3, <1>4, <1>5, <1>6 DEF Next, ControllerStep, EnvStep

LEMMA UpdatedOnceStep ==
    ASSUME Remembered, UpdateInv, [Next]_vars
    PROVE  UpdatedOnce'
<1>0. TypeOK /\ Known /\ Phases /\ MadeAnew /\ ListedOnce /\ UpdatedOnce /\ UpdatedBefore
  BY DEF Remembered, Known, UpdateInv, SeenInv, IInv, PlanInv
<1>1. CASE Emptying
  <2>1. actions' = <<>>
    BY <1>0, <1>1, EmptyingForgets DEF MadeAnew, BeforeList, Emptying
  <2> QED
    BY <2>1 DEF UpdatedOnce
<1>2. CASE actions' = actions
  BY <1>0, <1>2 DEF UpdatedOnce
<1>3. CASE actions # <<>> /\ actions' = Tail(actions)
  <2>1. \A i \in DOMAIN actions' : i \in Nat /\ i + 1 \in DOMAIN actions /\ actions'[i] = actions[i + 1]
    <3>1. actions \in Seq(HASAction)
      BY <1>0 DEF TypeOK
    <3> QED
      BY <1>3, <3>1, TailShape
  <2>2. SUFFICES ASSUME NEW i \in DOMAIN actions', NEW j \in DOMAIN actions',
                        actions'[i].type = 0, actions'[j].type = 0,
                        actions'[i].pod.name = actions'[j].pod.name
                 PROVE  i = j
    BY DEF UpdatedOnce
  <2>3. i + 1 = j + 1
    BY <1>0, <2>1, <2>2 DEF UpdatedOnce
  <2> QED
    BY <2>1, <2>3
<1>4. ASSUME NEW t \in {-1, 0, 1}, NEW pod \in HASPodInfo, actions' = Append(actions, Act(t, pod)),
             t = 0 => \A i \in DOMAIN actions : actions[i].type = 0 => actions[i].pod.name # pod.name
      PROVE  UpdatedOnce'
  <2>1. actions \in Seq(HASAction) /\ Act(t, pod) \in HASAction
    BY <1>0 DEF TypeOK, Act, HASAction
  <2>2. \A i \in DOMAIN actions' :
          \/ i \in DOMAIN actions /\ actions'[i] = actions[i]
          \/ i = Len(actions) + 1 /\ actions'[i].type = t /\ actions'[i].pod = pod
    BY <1>4, <2>1, AppendShape DEF Act
  <2> QED
    BY <1>0, <1>4, <2>2 DEF UpdatedOnce
<1>5. CASE VerticalScale \/ ShrinkPod
  <2>1. PICK quota, rps : Resizes(quota, rps)
    BY <1>0, <1>5, ResizeMoves
  <2>2. /\ idx \in DOMAIN pods /\ pods[idx] \in HASPodInfo
        /\ Resized(pods[idx], quota, rps) \in HASPodInfo
        /\ actions' = Append(actions, Act(0, Resized(pods[idx], quota, rps)))
    BY <2>1, ResizedType DEF Resizes
  <2>3. \A i \in DOMAIN actions : actions[i].type = 0 => actions[i].pod.name # pods[idx].name
    <3>1. pc \in {"vertical", "shrink"} /\ idx \in Nat
      BY <1>0, <1>5 DEF VerticalScale, ShrinkPod, TypeOK
    <3>2. SUFFICES ASSUME NEW k \in DOMAIN pods, k < idx, pods[k].name = pods[idx].name
                   PROVE  FALSE
      BY <1>0, <3>1 DEF UpdatedBefore
    <3>3. k = idx
      BY <1>0, <2>2, <3>2 DEF ListedOnce, Distinct
    <3> QED
      BY <3>1, <3>2, <3>3
  <2>4. Resized(pods[idx], quota, rps).name = pods[idx].name
    BY DEF Resized
  <2> QED
    BY <1>4, <2>2, <2>3, <2>4
<1>6. CASE EvictPod /\ actions' = Append(actions, Act(-1, pods[idx]))
  <2>1. pods[idx] \in HASPodInfo
    BY <1>0, <1>6, ListedPodType DEF EvictPod, MayEvict
  <2> QED
    BY <1>4, <1>6, <2>1
<1>7. ASSUME NEW g, NEW quota, PlansPod(g, quota)
      PROVE  UpdatedOnce'
  BY <1>4, <1>7 DEF PlansPod
<1> QED
  BY <1>0, <1>1, <1>2, <1>3, <1>5, <1>6, <1>7, PlanMoves DEF PlanMakers

LEMMA UpdatedBeforeStep ==
    ASSUME Remembered, UpdateInv, [Next]_vars
    PROVE  UpdatedBefore'
<1>0. TypeOK /\ Known /\ MadeAnew /\ UpdatedBefore
  BY DEF Remembered, Known, UpdateInv, IInv, PlanInv
<1>1. CASE Decide
  <2>1. actions' = <<>>
    BY <1>0, <1>1 DEF Decide, BeginScaleUp, BeginScaleDown, MadeAnew
  <2> QED
    BY <2>1 DEF UpdatedBefore
<1>2. CASE VerticalScale \/ ShrinkPod
  <2>1. PICK quota, rps : Resizes(quota, rps)
    BY <1>0, <1>2, ResizeMoves
  <2>2. pc \in {"vertical", "shrink"} /\ idx \in Nat /\ pods \in Seq(HASPodInfo)
    BY <1>0, <1>2 DEF VerticalScale, ShrinkPod, TypeOK
  <2>3. /\ idx \in DOMAIN pods /\ idx' = idx + 1
        /\ DOMAIN pods' = DOMAIN pods
        /\ \A k \in DOMAIN pods : pods'[k].name = pods[k].name
    BY <2>1, <2>2 DEF Resizes, Resized
  <2>4. SUFFICES ASSUME NEW j \in DOMAIN actions', actions'[j].type = 0
                 PROVE  \E k \in DOMAIN pods' : k < idx' /\ pods'[k].name = actions'[j].pod.name
    BY DEF UpdatedBefore
  <2>5. CASE \E i \in DOMAIN actions : actions'[j] = actions[i]
    <3>1. PICK k \in DOMAIN pods : k < idx /\ pods[k].name = actions'[j].pod.name
      BY <1>0, <2>2, <2>4, <2>5 DEF UpdatedBefore
    <3>2. k \in Nat
      BY <2>2
    <3> QED
      BY <2>2, <2>3, <3>1, <3>2
  <2>6. CASE actions'[j].pod.name = pods[idx].name
    BY <2>2, <2>3, <2>6
  <2>7. ~Emptying
    BY <2>2, <2>1, <1>2 DEF Emptying, Start, RestartAfterPanic, Crash, LoseMemory, Forget, Resizes,
                            Panics, VerticalScale, ShrinkPod
  <2> QED
    BY <1>0, <2>4, <2>5, <2>6, <2>7, UpdateMoves
<1>3. CASE /\ pc \in {"vertical", "shrink"}
           /\ actions' = actions /\ pods' = pods /\ (idx' = idx \/ idx' = idx + 1)
  <2>1. idx \in Nat /\ DOMAIN pods \subseteq Nat
    BY <1>0 DEF TypeOK
  <2> QED
    BY <1>0, <1>3, <2>1 DEF UpdatedBefore
<1>4. CASE pc' \notin {"vertical", "shrink"}
  BY <1>4 DEF UpdatedBefore
<1> QED
  BY <1>0, <1>1, <1>2, <1>3, <1>4, LoopPhases

LEMMA AdoptedKnownStep ==
    ASSUME Known, AdoptedKnown, [Next]_vars
    PROVE  AdoptedKnown'
<1>1. SUFFICES ASSUME pc' = "adopt"
               PROVE  unread' \subseteq podsInfo'[cur']
  BY DEF AdoptedKnown
<1>2. TypeOK /\ cur' = cur
  BY <1>1, InitialisePhases DEF Known
<1>3. CASE InitCheckFindsPods
  BY <1>2, <1>3 DEF InitCheckFindsPods, Put
<1>4. CASE ~InitCheckFindsPods
  <2>1. pc = "adopt" /\ unread' \subseteq unread
    BY <1>1, <1>2, <1>4, InitialisePhases, InitCheckEnds
       DEF Emptying, Start, RestartAfterPanic, Crash, InitCheckFails, NextFunction,
           InitCheckFindsNone
  <2>2. podsInfo' = podsInfo
    BY <1>1, <1>4, <2>1, MemoryWriters
       DEF Emptying, Start, RestartAfterPanic, Crash, VisitNew, InitPod, ApplyCreate, ApplyDelete,
           Planned
  <2> QED
    BY <1>2, <2>1, <2>2 DEF AdoptedKnown
<1> QED
  BY <1>3, <1>4

LEMMA UpdateInvInit == Init => UpdateInv
BY DEF Init, UpdateInv, ListedWhereItIs, UpdatedWhereItIs, UpdatedOnce, UpdatedBefore, AdoptedKnown

(* What is planned for a FaSTPod is planned once, and for where it is.     *)
LEMMA UpdatesAreRight == Spec => []UpdateInv
<1>1. Remembered /\ UpdateInv /\ [Next]_vars => UpdateInv'
  BY ListedWhereItIsStep, UpdatedWhereItIsStep, UpdatedOnceStep, UpdatedBeforeStep,
     AdoptedKnownStep DEF UpdateInv, Remembered
<1> QED
  BY <1>1, UpdateInvInit, RememberedAlways, PTL DEF Spec

-----------------------------------------------------------------------------
(* What one step makes of the FaSTPods in the book: apart from those in X, *)
(* each stands where it stood, with the quota that was booked.             *)
QuotaOf(info, n) == ConfOf(info, n).quota

BookKept(X) ==
    \A g \in DOMAIN hasGPUs' : \A r \in Row : \A m \in DOMAIN hasGPUs'[g].rows[r] :
        IsReal(m) /\ m \notin X =>
          /\ g \in DOMAIN hasGPUs /\ m \in DOMAIN hasGPUs[g].rows[r]
          /\ QuotaOf(hasGPUs'[g], m) = QuotaOf(hasGPUs[g], m)

(* One entry of the ledger and another that is put in its place.           *)
EntryKept(new, old, X) ==
    \A r \in Row : \A m \in DOMAIN new.rows[r] :
        IsReal(m) /\ m \notin X =>
          m \in DOMAIN old.rows[r] /\ QuotaOf(new, m) = QuotaOf(old, m)

LEMMA PutKeepsBook ==
    ASSUME NEW g, NEW new, NEW X, EntryKept(new, InfoOf(hasGPUs, g), X),
           hasGPUs' = Put(hasGPUs, g, new)
    PROVE  BookKept(X)
<1>1. g \notin DOMAIN hasGPUs => \A r \in Row : DOMAIN InfoOf(hasGPUs, g).rows[r] = {}
  BY DEF InfoOf, BareGPU, EmptyMap
<1>2. g \in DOMAIN hasGPUs => InfoOf(hasGPUs, g) = hasGPUs[g]
  BY DEF InfoOf
<1>3. \A h \in DOMAIN hasGPUs' :
         IF h = g THEN hasGPUs'[h] = new ELSE h \in DOMAIN hasGPUs /\ hasGPUs'[h] = hasGPUs[h]
  BY DEF Put
<1> QED
  BY <1>1, <1>2, <1>3 DEF BookKept, EntryKept

(* Requoting changes one quota, and no row.                                *)
LEMMA RequotedParts ==
    ASSUME NEW info, NEW n, NEW quota
    PROVE  /\ Requoted(info, n, quota).rows = info.rows
           /\ \A m : QuotaOf(Requoted(info, n, quota), m) = IF m = n THEN quota ELSE QuotaOf(info, m)
<1>1. /\ Requoted(info, n, quota).rows = info.rows
      /\ Requoted(info, n, quota).conf = Put(info.conf, n, [sm |-> ConfOf(info, n).sm, quota |-> quota])
  BY DEF Requoted, Rebooked
<1> QED
  BY <1>1 DEF QuotaOf, ConfOf, Put

LEMMA RequotesKeep ==
    ASSUME NEW g, NEW n, NEW quota, Requotes(g, n, quota)
    PROVE  /\ BookKept({n})
           /\ DOMAIN hasGPUs' = DOMAIN hasGPUs /\ g \in DOMAIN hasGPUs
           /\ QuotaOf(hasGPUs'[g], n) = quota
           /\ \A h \in DOMAIN hasGPUs : hasGPUs'[h].rows = hasGPUs[h].rows
<1> DEFINE new == Requoted(hasGPUs[g], n, quota)
<1>1. g \in DOMAIN hasGPUs /\ hasGPUs' = Put(hasGPUs, g, new) /\ InfoOf(hasGPUs, g) = hasGPUs[g]
  BY DEF Requotes, InfoOf
<1>2. new.rows = hasGPUs[g].rows
      /\ \A m : QuotaOf(new, m) = IF m = n THEN quota ELSE QuotaOf(hasGPUs[g], m)
  BY RequotedParts
<1> HIDE DEF new
<1>3. BookKept({n})
  BY <1>1, <1>2, PutKeepsBook DEF EntryKept
<1> QED
  BY <1>1, <1>2, <1>3 DEF Put

(* A booking adds its pod, with its quota.                                 *)
LEMMA BooksKeep ==
    ASSUME TypeOK, NEW g, NEW n, NEW sm, NEW quota, NEW r, Books(g, n, sm, quota, r)
    PROVE  /\ BookKept({n})
           /\ g \in DOMAIN hasGPUs' /\ QuotaOf(hasGPUs'[g], n) = quota
<1> DEFINE new == Added(InfoOf(hasGPUs, g), n, sm, quota, r)
<1>1. hasGPUs' = Put(hasGPUs, g, new) /\ r \in Row
  BY DEF Books
<1>2. IsHASGPUInfo(InfoOf(hasGPUs, g))
  BY InfoOfType DEF TypeOK
<1>3. IsAdded(InfoOf(hasGPUs, g), new, n, EffectiveSM(InfoOf(hasGPUs, g), r, sm), quota, r)
  BY <1>1, <1>2, AddedParts
<1> HIDE DEF new
<1>4. EntryKept(new, InfoOf(hasGPUs, g), {n}) /\ QuotaOf(new, n) = quota
  BY <1>3 DEF IsAdded, EntryKept, QuotaOf
<1> QED
  BY <1>1, <1>4, PutKeepsBook DEF Put

(* A planned pod is no FaSTPod yet.                                        *)
LEMMA PlansKeep ==
    ASSUME TypeOK, NEW g, NEW R, NEW claim, NEW sm, NEW quota, NEW r,
           Plans(g, R, claim, sm, quota, r)
    PROVE  BookKept({})
<1> DEFINE claimed == updateSMConfigForGPU(hasGPUs[g], R, claim)
           n == Provisional(cur, quota, sm)
           new == Added(claimed, n, sm, quota, r)
<1>1. /\ g \in DOMAIN hasGPUs /\ hasGPUs' = Put(hasGPUs, g, new) /\ r \in Row /\ claim \in Int
      /\ InfoOf(hasGPUs, g) = hasGPUs[g]
  BY DEF Plans, InfoOf
<1>2. IsHASGPUInfo(hasGPUs[g])
  BY <1>1 DEF TypeOK, IsLedger
<1>3. claimed.rows = hasGPUs[g].rows /\ claimed.conf = hasGPUs[g].conf
  BY <1>2 DEF updateSMConfigForGPU, IsHASGPUInfo
<1>4. ~IsReal(n)
  BY DEF IsReal, Provisional
<1>5. IsHASGPUInfo(claimed)
  BY <1>1, <1>2, UpdateSMConfigType
<1> HIDE DEF claimed, n
<1>6. IsAdded(claimed, new, n, EffectiveSM(claimed, r, sm), quota, r)
  BY <1>1, <1>5, AddedParts
<1> HIDE DEF new
<1>7. EntryKept(new, hasGPUs[g], {})
  BY <1>3, <1>4, <1>6 DEF IsAdded, EntryKept, QuotaOf, ConfOf
<1> QED
  BY <1>1, <1>7, PutKeepsBook

(* An evicted FaSTPod stands in no row of its GPU afterwards.              *)
LEMMA EvictsKeep ==
    ASSUME TypeOK, OnceBooked, NEW g, NEW n, Evicts(g, n)
    PROVE  /\ BookKept({})
           /\ \A h \in DOMAIN hasGPUs' : \A s \in Row : n \notin DOMAIN hasGPUs'[h].rows[s]
<1> DEFINE new == Evicted(hasGPUs[g], n)
           out == Min(RowsOf(hasGPUs[g], n))
<1>1. /\ g \in DOMAIN hasGPUs /\ hasGPUs' = Put(hasGPUs, g, new) /\ IsReal(n)
      /\ RowsOf(hasGPUs[g], n) # {} /\ InfoOf(hasGPUs, g) = hasGPUs[g]
  BY DEF Evicts, InfoOf
<1>2. IsHASGPUInfo(hasGPUs[g])
  BY <1>1 DEF TypeOK, IsLedger
<1>3. /\ new.conf = Drop(hasGPUs[g].conf, {n})
      /\ \A s \in Row : new.rows[s] = IF s = out THEN Drop(hasGPUs[g].rows[s], {n})
                                                 ELSE hasGPUs[g].rows[s]
  BY <1>1, <1>2, EvictedParts
<1>4. out \in RowsOf(hasGPUs[g], n)
  BY <1>1, LeastRow DEF RowsOf
<1>5. out \in Row /\ n \in DOMAIN hasGPUs[g].rows[out]
  BY <1>4 DEF RowsOf
<1> HIDE DEF new, out
<1>6. \A h \in DOMAIN hasGPUs : \A s \in Row : n \in DOMAIN hasGPUs[h].rows[s] => h = g /\ s = out
  BY <1>1, <1>5 DEF OnceBooked
<1>7. \A s \in Row : n \notin DOMAIN new.rows[s]
  BY <1>1, <1>3, <1>6 DEF Drop
<1>8. EntryKept(new, hasGPUs[g], {})
  BY <1>3, <1>7 DEF EntryKept, QuotaOf, ConfOf, Drop
<1>9. BookKept({})
  BY <1>1, <1>8, PutKeepsBook
<1> QED
  BY <1>1, <1>6, <1>7, <1>9 DEF Put

(* The steps that change what is booked for a FaSTPod.                     *)
LEMMA BookMoves ==
    ASSUME Known, [Next]_vars
    PROVE  \/ Emptying /\ Emptied
           \/ AdoptPod /\ \E n \in unread : Adopts(n) /\ BookKept({n})
           \/ InitPod /\ (FirstBooked \/ BookKept({}))
           \/ (VerticalScale \/ ShrinkPod \/ ApplyUpdate) /\ \E g, n, quota : Requotes(g, n, quota)
           \/ BookKept({})
<1>0. TypeOK /\ BookInv /\ OnceBooked
  BY DEF Known, BookInv
<1>1. CASE Untouched
  BY <1>1 DEF Untouched, BookKept
<1>2. CASE AdoptPod /\ \E n \in unread : Adopts(n)
  BY <1>0, <1>2, BooksKeep DEF Adopts
<1>3. CASE InitPod
  <2>1. FirstUnseen => BookKept({})
    BY DEF FirstUnseen, BookKept
  <2> QED
    BY <1>0, <1>3, <2>1, InitPodMoves
<1>4. ASSUME NEW g, NEW R, NEW claim, ClaimsOnly(g, R, claim)
      PROVE  BookKept({})
  <2>1. g \in DOMAIN hasGPUs /\ InfoOf(hasGPUs, g) = hasGPUs[g]
    BY <1>4 DEF ClaimsOnly, InfoOf
  <2>2. IsHASGPUInfo(hasGPUs[g])
    BY <1>0, <2>1 DEF TypeOK, IsLedger
  <2>3. EntryKept(updateSMConfigForGPU(hasGPUs[g], R, claim), hasGPUs[g], {})
    BY <2>2 DEF EntryKept, updateSMConfigForGPU, IsHASGPUInfo, QuotaOf, ConfOf
  <2> QED
    BY <1>4, <2>1, <2>3, PutKeepsBook DEF ClaimsOnly
<1>5. ASSUME NEW G, Cleans(G)
      PROVE  BookKept({})
  BY <1>5 DEF Cleans, Drop, BookKept
<1> QED
  BY <1>0, <1>1, <1>2, <1>3, <1>4, <1>5, LedgerMoves, PlansKeep, EvictsKeep DEF Emptying

-----------------------------------------------------------------------------
(* Whichever calls fail, the book is right about where a FaSTPod in it is, *)
(* as long as there is one, and nothing plans to delete it.  If no update  *)
(* fails, it is right about the quota too: the FaSTPod has it, or will     *)
(* when the update that is planned for it is carried out.                  *)
BookedThere ==
    \A g \in DOMAIN hasGPUs : \A r \in Row : \A n \in DOMAIN hasGPUs[g].rows[r] :
        IsReal(n) =>
          /\ n \in DOMAIN fastPod => fastPod[n].gpu = g
          /\ n \in podsInfo[FuncOf(n)]
          /\ n \notin PlannedDeletes

(* A FaSTPod on the list is booked on the GPU it was listed with.          *)
ListedWhereBooked ==
    \A i \in DOMAIN pods : \A g \in DOMAIN hasGPUs : \A r \in Row :
        pods[i].name \in DOMAIN hasGPUs[g].rows[r] => pods[i].gpu = g

(* An adopted FaSTPod is booked with the quota that is read back.          *)
BookedQuota ==
    \A g \in DOMAIN hasGPUs : \A r \in Row : \A n \in DOMAIN hasGPUs[g].rows[r] :
        IsReal(n) /\ n \in DOMAIN fastPod /\ n \notin PlannedUpdates =>
          QuotaOf(hasGPUs[g], n) \in {fastPod[n].quota, ReadQuota(fastPod[n].quota)}

UpdatesMatch ==
    \A g \in DOMAIN hasGPUs : \A r \in Row : \A n \in DOMAIN hasGPUs[g].rows[r] :
        IsReal(n) =>
          \A i \in DOMAIN actions :
              actions[i].type = 0 /\ actions[i].pod.name = n
                => actions[i].pod.quota = QuotaOf(hasGPUs[g], n)

SyncInv == BookedThere /\ ListedWhereBooked /\ BookedQuota /\ UpdatesMatch

(* A FaSTPod goes only when a deletion is carried out.                     *)
LEMMA PodsStay ==
    ASSUME TypeOK, [Next]_vars, ~Collect, NEW n \in DOMAIN fastPod
    PROVE  n \in DOMAIN fastPod' \/ (ApplyDelete /\ n = Target.name)
<1>1. CASE ApplyDelete
  <2>1. \E o : fastPod' = fastPod \/ fastPod' = AfterDelete(o, Target.name)
    BY <1>1 DEF ApplyDelete
  <2>2. n # Target.name => n \in DOMAIN fastPod'
    BY <2>1 DEF AfterDelete, Drop
  <2> QED
    BY <1>1, <2>2
<1>2. CASE ApplyUpdate
  <2>1. \E o, m, quota : fastPod' = AfterUpdate(o, m, quota)
    BY <1>2 DEF ApplyUpdate
  <2> QED
    BY <2>1 DEF AfterUpdate
<1>3. CASE InitPod
  <2>1. \E o, m, pod : fastPod' = AfterCreate(o, m, pod)
    BY <1>3 DEF InitPod
  <2> QED
    BY <2>1 DEF AfterCreate, Put
<1>4. CASE ApplyCreate
  <2>1. \E o, m, pod : fastPod' = AfterCreate(o, m, pod)
    BY <1>4 DEF ApplyCreate
  <2> QED
    BY <2>1 DEF AfterCreate, Put
<1>5. CASE fastPod' = fastPod \/ DeleteFunc \/ AddFunc
  BY <1>5 DEF DeleteFunc, AddFunc
<1> QED
  BY <1>1, <1>2, <1>3, <1>4, <1>5, ClusterWriters

(* A FaSTPod that is new is in no row yet: its name is one nobody uses.    *)
LEMMA NewIsUnbooked ==
    ASSUME TypeOK, [Next]_vars, NEW n \in DOMAIN fastPod', n \notin DOMAIN fastPod
    PROVE  \A g \in DOMAIN hasGPUs : \A r \in Row : n \notin DOMAIN hasGPUs[g].rows[r]
<1>1. n \in FreshName(cur)
  BY FaSTPodMoves DEF PodsNotAdded, PodAdded, Put
<1>2. n \notin NamesInRows
  BY <1>1, FreshNames
<1> QED
  BY <1>2 DEF NamesInRows

(* So does a name in podsInfo, while the process lives.                    *)
LEMMA NamesRemembered ==
    ASSUME Known, Phases, [Next]_vars, NEW f \in DOMAIN podsInfo, NEW n \in podsInfo[f]
    PROVE  \/ Emptying
           \/ f \in DOMAIN podsInfo' /\ n \in podsInfo'[f]
           \/ ApplyDelete /\ n = Target.name
<1>1. CASE VisitNew
  BY <1>1 DEF VisitNew, Put
<1>2. CASE InitCheckFindsPods
  <2>1. podsInfo' = Put(podsInfo, cur, PodsOf(cur)) /\ podsInfo[cur] = {}
    BY <1>2 DEF InitCheckFindsPods, Phases
  <2> QED
    BY <2>1 DEF Put
<1>3. CASE InitPod \/ ApplyCreate
  <2>1. podsInfo' = podsInfo \/ \E m : podsInfo' = Track(m)
    <3>1. CASE InitPod
      BY <3>1 DEF InitPod
    <3>2. CASE ApplyCreate
      BY <3>2 DEF ApplyCreate
    <3> QED
      BY <1>3, <3>1, <3>2
  <2> QED
    BY <2>1 DEF Track, Put
<1>4. CASE ApplyDelete
  <2>1. podsInfo' = podsInfo \/ podsInfo' = Untrack(Target.name)
    BY <1>4 DEF ApplyDelete
  <2>2. n # Target.name => f \in DOMAIN podsInfo' /\ n \in podsInfo'[f]
    BY <2>1 DEF Untrack, Put
  <2> QED
    BY <1>4, <2>2
<1> QED
  BY <1>1, <1>2, <1>3, <1>4, MemoryWriters

(* Only an eviction plans a deletion.                                      *)
LEMMA DeletesGrow ==
    ASSUME Known, [Next]_vars, NEW n \in PlannedDeletes'
    PROVE  Emptying \/ n \in PlannedDeletes \/ (EvictPod /\ n = pods[idx].name)
<1>0. TypeOK
  BY DEF Known
<1>1. CASE actions' = actions
  BY <1>1 DEF PlannedDeletes
<1>2. CASE actions # <<>> /\ actions' = Tail(actions)
  BY <1>0, <1>2, TailPlan
<1>3. ASSUME NEW quota, NEW rps, Resizes(quota, rps)
      PROVE  n \in PlannedDeletes
  BY <1>0, <1>3, PlannedNames DEF Resizes
<1>4. CASE EvictPod /\ actions' = Append(actions, Act(-1, pods[idx]))
  BY <1>0, <1>4, PlannedNames
<1>5. ASSUME NEW g, NEW quota, PlansPod(g, quota)
      PROVE  n \in PlannedDeletes
  BY <1>0, <1>5, PlannedNames DEF PlansPod
<1> QED
  BY <1>1, <1>2, <1>3, <1>4, <1>5, PlanMoves DEF PlanMakers

(* An update leaves the plan when it is carried out.                       *)
LEMMA UpdatesStay ==
    ASSUME Known, [Next]_vars, ~Emptying, NEW n \in PlannedUpdates
    PROVE  n \in PlannedUpdates' \/ ((ApplyUpdate \/ ApplyUpdateUntracked) /\ n = Target.name)
<1>0. TypeOK
  BY DEF Known
<1>1. PICK i \in DOMAIN actions : actions[i].type = 0 /\ actions[i].pod.name = n
  BY NamesInMember DEF PlannedUpdates
<1>2. ASSUME NEW t \in {-1, 0, 1}, NEW pod \in HASPodInfo, actions' = Append(actions, Act(t, pod))
      PROVE  n \in PlannedUpdates'
  <2>1. actions \in Seq(HASAction) /\ Act(t, pod) \in HASAction
    BY <1>0 DEF TypeOK, Act, HASAction
  <2>2. i \in DOMAIN actions' /\ actions'[i] = actions[i]
    BY <1>1, <1>2, <2>1, AppendShape
  <2> QED
    BY <1>1, <2>2 DEF PlannedUpdates, NamesIn
<1>3. CASE actions' = actions
  BY <1>3 DEF PlannedUpdates
<1>4. CASE Applies
  <2>1. actions # <<>> /\ actions' = Tail(actions) /\ Target = Head(actions).pod
    BY <1>0, <1>4, ApplyShape DEF Target
  <2>2. n \in PlannedUpdates' \/ (Head(actions).type = 0 /\ Head(actions).pod.name = n)
    <3>1. n \in NamesIn(actions', 0) \/ (Head(actions).type = 0 /\ Head(actions).pod.name = n)
      BY <1>0, <2>1, TailKeeps DEF PlannedUpdates
    <3> QED
      BY <3>1 DEF PlannedUpdates
  <2>3. Head(actions).type = 0 => ApplyUpdate \/ ApplyUpdateUntracked
    BY <1>4 DEF Applies, ApplyDelete, ApplyCreateRefused, ApplyCreate, Planned, HeadIs
  <2> QED
    BY <2>1, <2>2, <2>3
<1>5. CASE VerticalScale \/ ShrinkPod
  <2>1. PICK quota, rps : Resizes(quota, rps)
    BY <1>0, <1>5, ResizeMoves
  <2>2. Resized(pods[idx], quota, rps) \in HASPodInfo
        /\ actions' = Append(actions, Act(0, Resized(pods[idx], quota, rps)))
    BY <2>1, ResizedType DEF Resizes
  <2> QED
    BY <1>2, <2>2
<1>6. CASE EvictPod /\ actions' = Append(actions, Act(-1, pods[idx]))
  <2>1. pods[idx] \in HASPodInfo
    BY <1>0, <1>6, ListedPodType DEF EvictPod, MayEvict
  <2> QED
    BY <1>2, <1>6, <2>1
<1>7. ASSUME NEW g, NEW quota, PlansPod(g, quota)
      PROVE  n \in PlannedUpdates'
  <2>1. PICK pod \in HASPodInfo : actions' = Append(actions, Act(1, pod))
    BY <1>7 DEF PlansPod
  <2> QED
    BY <1>2, <2>1
<1> QED
  BY <1>3, <1>4, <1>5, <1>6, <1>7, PlanMoves DEF PlanMakers

(* An evicted FaSTPod is in no row: if it was booked, it was booked there. *)
LEMMA EvictedIsGone ==
    ASSUME Known, ListedWhereBooked, [Next]_vars, EvictPod
    PROVE  \A g \in DOMAIN hasGPUs' : \A r \in Row :
              pods[idx].name \notin DOMAIN hasGPUs'[g].rows[r]
<1> DEFINE n == pods[idx].name
           g == pods[idx].gpu
<1>0. TypeOK /\ OnceBooked /\ RealNames
  BY DEF Known, BookInv
<1>1. idx \in DOMAIN pods /\ IsReal(n)
  <2>1. idx \in DOMAIN pods
    BY <1>0, ListedPodType DEF EvictPod, MayEvict, TypeOK
  <2> QED
    BY <1>0, <2>1 DEF RealNames, Listed, Names
<1>2. \A h \in DOMAIN hasGPUs : \A r \in Row : n \in DOMAIN hasGPUs[h].rows[r] => h = g
  BY <1>1 DEF ListedWhereBooked
<1>3. CASE g \in DOMAIN hasGPUs /\ RowsOf(hasGPUs[g], n) # {}
  <2>1. hasGPUs' = RemovePod(hasGPUs, g, n)
    BY <1>3 DEF EvictPod
  <2>2. Evicts(g, n)
    BY <1>1, <1>3, <2>1, RemovePodPuts DEF Evicts
  <2> HIDE DEF g, n
  <2> QED
    BY <1>0, <2>2, EvictsKeep DEF n
<1>4. CASE ~(g \in DOMAIN hasGPUs /\ RowsOf(hasGPUs[g], n) # {})
  <2>1. hasGPUs' = hasGPUs
    BY <1>4, RemovePodPuts DEF EvictPod
  <2>2. \A r \in Row : g \in DOMAIN hasGPUs => n \notin DOMAIN hasGPUs[g].rows[r]
    BY <1>4 DEF RowsOf
  <2> HIDE DEF g, n
  <2>3. \A h \in DOMAIN hasGPUs' : \A r \in Row : n \notin DOMAIN hasGPUs'[h].rows[r]
    BY <1>2, <2>1, <2>2
  <2> QED
    BY <2>3 DEF n
<1> QED
  BY <1>3, <1>4

(* What is in the book stays, and is neither deleted nor forgotten.        *)
LEMMA BookedThereStep ==
    ASSUME Remembered, UpdateInv, ListedWhereBooked, BookedThere, [Next]_vars
    PROVE  BookedThere'
<1>0. TypeOK /\ Known /\ Phases /\ MadeAnew /\ BookInv /\ VisitedOnly /\ AdoptedKnown
  BY DEF Remembered, Known, UpdateInv, SeenInv, IInv, PlanInv, BookInv
<1>1. CASE Emptied
  BY <1>1, NothingBooked DEF BookedThere
<1>2. CASE ~Emptying
  <2>1. SUFFICES ASSUME NEW g \in DOMAIN hasGPUs', NEW r \in Row,
                        NEW n \in DOMAIN hasGPUs'[g].rows[r], IsReal(n)
                 PROVE  /\ n \in DOMAIN fastPod' => fastPod'[n].gpu = g
                        /\ n \in podsInfo'[FuncOf(n)]
                        /\ n \notin PlannedDeletes'
    BY DEF BookedThere
  <2>2. ASSUME g \in DOMAIN hasGPUs, n \in DOMAIN hasGPUs[g].rows[r]
        PROVE  /\ n \in DOMAIN fastPod' => fastPod'[n].gpu = g
               /\ n \in podsInfo'[FuncOf(n)]
               /\ n \notin PlannedDeletes'
    <3>1. /\ n \in DOMAIN fastPod => fastPod[n].gpu = g
          /\ n \in podsInfo[FuncOf(n)] /\ n \notin PlannedDeletes
          /\ FuncOf(n) \in DOMAIN podsInfo
      BY <1>0, <2>1, <2>2 DEF BookedThere, VisitedOnly
    <3>2. ApplyDelete => n # Target.name
      BY <1>0, <3>1, ApplyShape DEF Applies
    <3>3. n \in DOMAIN fastPod' => fastPod'[n].gpu = g
      <4>1. n \in DOMAIN fastPod' => n \in DOMAIN fastPod
        BY <1>0, <2>2, NewIsUnbooked
      <4>2. n \in DOMAIN fastPod /\ n \in DOMAIN fastPod' => fastPod'[n].gpu = fastPod[n].gpu
        BY <1>0, FaSTPodMoves DEF PodsNotAdded, PodAdded, Put
      <4> QED
        BY <3>1, <4>1, <4>2
    <3>4. n \in podsInfo'[FuncOf(n)]
      BY <1>0, <1>2, <3>1, <3>2, NamesRemembered
    <3>5. n \notin PlannedDeletes'
      BY <1>0, <1>2, <2>1, <3>1, EvictedIsGone, DeletesGrow
    <3> QED
      BY <3>3, <3>4, <3>5
  <2>3. CASE AdoptPod /\ \E m \in unread : Adopts(m) /\ BookKept({m})
    <3>1. PICK m \in unread : Adopts(m) /\ BookKept({m})
      BY <2>3
    <3>2. pc = "adopt" /\ fastPod' = fastPod /\ podsInfo' = podsInfo /\ actions' = <<>>
      BY <1>0, <2>3 DEF AdoptPod, clusterVars, localVars, MadeAnew, BeforeList
    <3>3. CASE n = m
      <4>1. n \in DOMAIN fastPod /\ n \in podsInfo[cur] /\ FuncOf(n) = cur
        BY <1>0, <3>2, <3>3 DEF TypeOK, AdoptedKnown, BookInv, OwnUnread
      <4>2. PICK s : Books(fastPod[m].gpu, m, fastPod[m].sm, ReadQuota(fastPod[m].quota), s)
        BY <3>1 DEF Adopts
      <4>3. fastPod[m].gpu = g
        BY <1>0, <2>1, <3>3, <4>2, BookedRows DEF RowsGain
      <4>4. n \notin PlannedDeletes'
        BY <3>2 DEF PlannedDeletes, NamesIn
      <4> QED
        BY <3>2, <3>3, <4>1, <4>3, <4>4
    <3>4. CASE n # m
      BY <2>1, <2>2, <3>1, <3>4 DEF BookKept
    <3> QED
      BY <3>3, <3>4
  <2>4. CASE InitPod /\ FirstBooked
    <3>1. PICK m : \E h \in InitGPUs, config \in InitialConfig[cur] : \E s :
                /\ Books(h, m, config.sm, config.quota, s)
                /\ podsInfo' = Track(m)
                /\ PodAdded(m, configs2FaSTPods(h, config))
      BY <2>4 DEF FirstBooked
    <3>2. PICK h \in InitGPUs, config \in InitialConfig[cur] : \E s :
                /\ Books(h, m, config.sm, config.quota, s)
                /\ podsInfo' = Track(m)
                /\ PodAdded(m, configs2FaSTPods(h, config))
      BY <3>1
    <3>3. PICK s : /\ Books(h, m, config.sm, config.quota, s)
                   /\ podsInfo' = Track(m)
                   /\ PodAdded(m, configs2FaSTPods(h, config))
      BY <3>2
    <3>4. CASE n = m
      <4>1. fastPod' = Put(fastPod, m, configs2FaSTPods(h, config)) /\ FuncOf(n) = cur
        BY <3>3, <3>4 DEF PodAdded
      <4>2. n \in DOMAIN fastPod' /\ fastPod'[n].gpu = h
        BY <3>4, <4>1 DEF Put, configs2FaSTPods
      <4>3. n \in podsInfo'[cur]
        BY <3>3, <3>4 DEF Track, Put
      <4>4. h = g
        BY <1>0, <2>1, <3>3, <3>4, BookedRows DEF RowsGain
      <4>5. actions' = <<>>
        BY <1>0, <2>4 DEF InitPod, localVars, MadeAnew, BeforeList
      <4>6. n \notin PlannedDeletes'
        BY <4>5 DEF PlannedDeletes, NamesIn
      <4> QED
        BY <4>1, <4>2, <4>3, <4>4, <4>6
    <3>5. CASE n # m
      <4>1. BookKept({m})
        BY <1>0, <3>3, BooksKeep
      <4> QED
        BY <2>1, <2>2, <3>5, <4>1 DEF BookKept
    <3> QED
      BY <3>4, <3>5
  <2>5. CASE BookKept({})
    BY <2>1, <2>2, <2>5 DEF BookKept
  <2>6. ASSUME NEW h, NEW m, NEW quota, Requotes(h, m, quota)
        PROVE  /\ n \in DOMAIN fastPod' => fastPod'[n].gpu = g
               /\ n \in podsInfo'[FuncOf(n)]
               /\ n \notin PlannedDeletes'
    <3>1. g \in DOMAIN hasGPUs /\ hasGPUs'[g].rows = hasGPUs[g].rows
      BY <2>1, <2>6, RequotesKeep
    <3> QED
      BY <2>1, <2>2, <3>1
  <2> QED
    BY <1>0, <1>2, <2>3, <2>4, <2>5, <2>6, BookMoves
<1> QED
  BY <1>0, <1>1, <1>2, EmptyingForgets

(* What is listed is booked where it is, and stays listed as it is.        *)
LEMMA ListedWhereBookedStep ==
    ASSUME Remembered, BookedThere, ListedWhereBooked, [Next]_vars
    PROVE  ListedWhereBooked'
<1>0. TypeOK /\ Known /\ Phases /\ MadeAnew /\ BookInv /\ RealNames'
  BY KnownStep DEF Remembered, Known, SeenInv, IInv, PlanInv, BookInv
<1>1. CASE Emptied
  BY <1>1, NothingBooked DEF ListedWhereBooked
<1>2. CASE ~Emptying
  <2>1. SUFFICES ASSUME NEW j \in DOMAIN pods', NEW g \in DOMAIN hasGPUs', NEW r \in Row,
                        NEW n \in DOMAIN hasGPUs'[g].rows[r], pods'[j].name = n
                 PROVE  pods'[j].gpu = g
    BY DEF ListedWhereBooked
  <2>2. IsReal(n)
    BY <1>0, <2>1 DEF RealNames, Listed, Names
  <2>3. CASE AdoptPod \/ InitPod
    <3>1. pods' = <<>>
      BY <1>0, <2>3 DEF AdoptPod, InitPod, MadeAnew, BeforeList, localVars
    <3> QED
      BY <2>1, <3>1
  <2>4. CASE ~AdoptPod /\ ~InitPod
    <3>1. BookKept({}) \/ \E h, m, quota : Requotes(h, m, quota)
      BY <1>0, <1>2, <2>4, BookMoves
    <3>2. g \in DOMAIN hasGPUs /\ n \in DOMAIN hasGPUs[g].rows[r]
      BY <2>1, <2>2, <3>1, RequotesKeep DEF BookKept
    <3>3. CASE PodsKept
      BY <2>1, <3>2, <3>3 DEF PodsKept, SamePod, ListedWhereBooked
    <3>4. ASSUME NEW m, PodListed(m)
          PROVE  pods'[j].gpu = g
      <4>1. m \in DOMAIN fastPod
        BY <1>0, <3>4 DEF TypeOK, PodListed
      <4> QED
        BY <2>1, <2>2, <3>2, <3>4, <4>1 DEF PodListed, SamePod, ListedWhereBooked, BookedThere
    <3> QED
      BY <1>0, <3>3, <3>4, ListMoves
  <2> QED
    BY <2>3, <2>4
<1> QED
  BY <1>0, <1>1, <1>2, EmptyingForgets

(* Two planned updates of one FaSTPod would be the same action.            *)
LEMMA PlannedOnce ==
    ASSUME TypeOK, UpdatedOnce, actions # <<>>, actions' = Tail(actions), Head(actions).type = 0,
           NEW j \in DOMAIN actions', actions'[j].type = 0
    PROVE  actions'[j].pod.name # Target.name
<1>1. actions \in Seq(HASAction)
  BY DEF TypeOK
<1>2. j \in Nat /\ j # 0 /\ j + 1 \in DOMAIN actions /\ actions'[j] = actions[j + 1]
  BY <1>1, TailShape
<1>3. 1 \in DOMAIN actions /\ Head(actions) = actions[1]
  BY <1>1, TailShape
<1>4. actions'[j].pod.name = actions[1].pod.name => j + 1 = 1
  BY <1>2, <1>3 DEF UpdatedOnce
<1> QED
  BY <1>2, <1>3, <1>4 DEF Target

(* What carrying out an update makes of the book and of its FaSTPod.       *)
UpdateDone(n) ==
    \/ n \notin DOMAIN fastPod /\ hasGPUs' = hasGPUs /\ fastPod' = fastPod
    \/ \E quota \in Int :
          /\ n \in DOMAIN fastPod /\ fastPod' = [fastPod EXCEPT ![n].quota = quota]
          /\ IF Target.gpu \in DOMAIN hasGPUs /\ n \in DOMAIN hasGPUs[Target.gpu].conf
             THEN Requotes(Target.gpu, n, quota) ELSE hasGPUs' = hasGPUs

LEMMA UpdateHappens ==
    ASSUME "update" \notin FaultyCalls, TypeOK, ApplyUpdate
    PROVE  UpdateDone(Target.name)
<1> DEFINE n == Target.name
           quota == IF Target.quota < 5 THEN 5 ELSE Target.quota
<1>1. Outcomes("update") = {"ok"}
  BY DEF Outcomes
<1>2. Target \in HASPodInfo
  BY ApplyShape DEF Applies
<1>3. quota \in Int /\ n \in Name
  BY <1>2 DEF HASPodInfo
<1>4. \E o \in Outcomes("update") :
         /\ fastPod' = AfterUpdate(o, n, quota)
         /\ hasGPUs' = IF /\ o = "ok" /\ Exists(o, n)
                          /\ Target.gpu \in DOMAIN hasGPUs /\ n \in DOMAIN hasGPUs[Target.gpu].conf
                       THEN SetQuota(hasGPUs, Target.gpu, n, quota) ELSE hasGPUs
  BY DEF ApplyUpdate
<1> HIDE DEF n, quota
<1>5. /\ fastPod' = IF n \in DOMAIN fastPod THEN [fastPod EXCEPT ![n].quota = quota] ELSE fastPod
      /\ hasGPUs' = IF /\ n \in DOMAIN fastPod
                       /\ Target.gpu \in DOMAIN hasGPUs /\ n \in DOMAIN hasGPUs[Target.gpu].conf
                    THEN SetQuota(hasGPUs, Target.gpu, n, quota) ELSE hasGPUs
  BY <1>1, <1>4 DEF AfterUpdate, Exists
<1>6. Target.gpu \in DOMAIN hasGPUs /\ hasGPUs' = SetQuota(hasGPUs, Target.gpu, n, quota)
         => Requotes(Target.gpu, n, quota)
  BY <1>3, SetQuotaPuts DEF Requotes
<1>7. UpdateDone(n)
  BY <1>3, <1>5, <1>6 DEF UpdateDone
<1> QED
  BY <1>7 DEF n

(* What is planned for a booked FaSTPod is in the book already.            *)
LEMMA UpdatesMatchStep ==
    ASSUME "update" \notin FaultyCalls, Remembered, UpdateInv,
           ListedWhereBooked, UpdatesMatch, [Next]_vars
    PROVE  UpdatesMatch'
<1>0. /\ TypeOK /\ Known /\ MadeAnew /\ BookInv /\ ListedOnce /\ RealNames
      /\ ListedWhereItIs /\ UpdatedOnce /\ UpdatedBefore
  BY DEF Remembered, Known, UpdateInv, SeenInv, IInv, PlanInv, BookInv
<1>1. CASE Emptied
  BY <1>1, NothingBooked DEF UpdatesMatch
<1>2. CASE ~Emptying
  <2>1. SUFFICES ASSUME NEW g \in DOMAIN hasGPUs', NEW r \in Row,
                        NEW n \in DOMAIN hasGPUs'[g].rows[r], IsReal(n),
                        NEW j \in DOMAIN actions', actions'[j].type = 0, actions'[j].pod.name = n
                 PROVE  actions'[j].pod.quota = QuotaOf(hasGPUs'[g], n)
    BY DEF UpdatesMatch
  <2>2. CASE VerticalScale \/ ShrinkPod
    <3>1. PICK quota, rps : Resizes(quota, rps)
      BY <1>0, <2>2, ResizeMoves
    <3> DEFINE m == pods[idx].name
               h == pods[idx].gpu
    <3>2. /\ idx \in DOMAIN pods
          /\ actions' = Append(actions, Act(0, Resized(pods[idx], quota, rps)))
          /\ Resized(pods[idx], quota, rps) \in HASPodInfo
          /\ IF h \in DOMAIN hasGPUs THEN Requotes(h, m, quota) ELSE hasGPUs' = hasGPUs
      BY <3>1, ResizedType DEF Resizes
    <3>3. Resized(pods[idx], quota, rps).name = m /\ Resized(pods[idx], quota, rps).quota = quota
      BY DEF Resized
    <3>4. IsReal(m)
      BY <1>0, <3>2 DEF RealNames, Listed, Names
    <3>5. \A i \in DOMAIN actions : actions[i].type = 0 => actions[i].pod.name # m
      <4>1. pc \in {"vertical", "shrink"} /\ idx \in Nat
        BY <1>0, <2>2 DEF VerticalScale, ShrinkPod, TypeOK
      <4>2. \A k \in DOMAIN pods : pods[k].name = m => k = idx
        BY <1>0, <3>2 DEF ListedOnce, Distinct
      <4> QED
        BY <1>0, <4>1, <4>2 DEF UpdatedBefore
    <3>6. \A k \in DOMAIN hasGPUs : m \in DOMAIN hasGPUs[k].rows[r] => k = h
      BY <3>2 DEF ListedWhereBooked
    <3> HIDE DEF m, h
    <3>7. g \in DOMAIN hasGPUs /\ n \in DOMAIN hasGPUs[g].rows[r]
      BY <2>1, <3>2, RequotesKeep
    <3>8. n # m => QuotaOf(hasGPUs'[g], n) = QuotaOf(hasGPUs[g], n)
      BY <2>1, <3>2, RequotesKeep DEF BookKept
    <3>9. n = m => QuotaOf(hasGPUs'[g], n) = quota
      BY <3>2, <3>6, <3>7, RequotesKeep
    <3>10. \/ \E i \in DOMAIN actions : actions'[j] = actions[i]
           \/ actions'[j].pod = Resized(pods[idx], quota, rps)
      BY <1>0, <2>1, <3>2, PlanAppends
    <3> QED
      BY <1>0, <2>1, <3>3, <3>5, <3>7, <3>8, <3>9, <3>10 DEF UpdatesMatch
  <2>3. CASE ~VerticalScale /\ ~ShrinkPod
    <3>1. PICK i \in DOMAIN actions : actions'[j] = actions[i]
      BY <1>0, <1>2, <2>1, <2>3, UpdateMoves
    <3>2. ASSUME g \in DOMAIN hasGPUs, n \in DOMAIN hasGPUs[g].rows[r],
                 QuotaOf(hasGPUs'[g], n) = QuotaOf(hasGPUs[g], n)
          PROVE  actions'[j].pod.quota = QuotaOf(hasGPUs'[g], n)
      BY <2>1, <3>1, <3>2 DEF UpdatesMatch
    <3>3. CASE AdoptPod \/ InitPod
      BY <1>0, <3>1, <3>3 DEF AdoptPod, InitPod, MadeAnew, BeforeList
    <3>4. CASE BookKept({})
      BY <2>1, <3>2, <3>4 DEF BookKept
    <3>5. CASE ApplyUpdate
      <4>1. UpdateDone(Target.name)
        BY <1>0, <3>5, UpdateHappens
      <4>2. n # Target.name
        <5>1. actions # <<>> /\ actions' = Tail(actions) /\ Head(actions).type = 0
          BY <3>5 DEF ApplyUpdate, Planned, HeadIs, NextAction
        <5> QED
          BY <1>0, <2>1, <5>1, PlannedOnce
      <4>3. CASE hasGPUs' = hasGPUs
        BY <2>1, <3>2, <4>3
      <4>4. ASSUME NEW quota, Requotes(Target.gpu, Target.name, quota)
            PROVE  actions'[j].pod.quota = QuotaOf(hasGPUs'[g], n)
        BY <2>1, <3>2, <4>2, <4>4, RequotesKeep DEF BookKept
      <4> QED
        BY <4>1, <4>3, <4>4 DEF UpdateDone
    <3> QED
      BY <1>0, <1>2, <2>3, <3>3, <3>4, <3>5, BookMoves
  <2> QED
    BY <2>2, <2>3
<1> QED
  BY <1>0, <1>1, <1>2, EmptyingForgets DEF Remembered, SeenInv

(* The quota of a FaSTPod changes when an update is carried out.           *)
LEMMA QuotasStay ==
    ASSUME TypeOK, [Next]_vars, NEW n \in DOMAIN fastPod, n \in DOMAIN fastPod'
    PROVE  fastPod'[n].quota = fastPod[n].quota \/ (ApplyUpdate /\ n = Target.name)
<1>1. CASE InitPod \/ ApplyCreate
  <2>1. \E o, m, pod : m \notin DOMAIN fastPod /\ fastPod' = AfterCreate(o, m, pod)
    <3>1. CASE InitPod
      BY <3>1, FreshNames DEF InitPod
    <3>2. CASE ApplyCreate
      BY <3>2, FreshNames DEF ApplyCreate
    <3> QED
      BY <1>1, <3>1, <3>2
  <2> QED
    BY <2>1 DEF AfterCreate, Put
<1>2. CASE ApplyDelete
  <2>1. \E o : fastPod' = fastPod \/ fastPod' = AfterDelete(o, Target.name)
    BY <1>2 DEF ApplyDelete
  <2> QED
    BY <2>1 DEF AfterDelete, Drop
<1>3. CASE ApplyUpdate
  <2>1. \E o, quota : fastPod' = AfterUpdate(o, Target.name, quota)
    BY <1>3 DEF ApplyUpdate
  <2>2. n # Target.name => fastPod'[n].quota = fastPod[n].quota
    BY <2>1 DEF AfterUpdate, Exists
  <2> QED
    BY <1>3, <2>2
<1>4. CASE fastPod' = fastPod \/ DeleteFunc \/ AddFunc
  BY <1>4 DEF DeleteFunc, AddFunc
<1>5. CASE Collect
  BY <1>5 DEF Collect, Drop
<1> QED
  BY <1>1, <1>2, <1>3, <1>4, <1>5, ClusterWriters

(* An update that is planned for a booked FaSTPod finds it tracked.        *)
LEMMA BookedIsTracked ==
    ASSUME Remembered, BookedThere, ApplyUpdateUntracked,
           NEW g \in DOMAIN hasGPUs, NEW r \in Row, NEW n \in DOMAIN hasGPUs[g].rows[r], IsReal(n),
           n \in DOMAIN fastPod
    PROVE  n # Target.name
<1>0. TypeOK /\ OwnFaSTPods /\ KnownNames
  BY DEF Remembered, Known, IInv
<1>1. SUFFICES ASSUME n = Target.name
               PROVE  n \in fastPods[cur] \cap podsInfo[cur]
  BY DEF ApplyUpdateUntracked
<1>2. n \in podsInfo[FuncOf(n)]
  BY DEF BookedThere
<1>3. n \in PlannedUpdates
  BY <1>0, <1>1, TailNames
     DEF ApplyUpdateUntracked, Planned, HeadIs, Target, PlannedUpdates, TypeOK
<1>4. cur \in Func
  BY <1>0, CurType DEF ApplyUpdateUntracked, Planned, BetweenFunctions
<1>5. n \in fastPods[cur]
  BY <1>0, <1>2, <1>3, <1>4 DEF KnownNames, FoundPods
<1> QED
  BY <1>0, <1>2, <1>4, <1>5 DEF OwnFaSTPods

(* A FaSTPod for which nothing is planned has the quota that is booked.    *)
LEMMA BookedQuotaStep ==
    ASSUME "update" \notin FaultyCalls, Remembered, UpdateInv,
           BookedThere, BookedQuota, [Next]_vars
    PROVE  BookedQuota'
<1>0. TypeOK /\ Known /\ MadeAnew /\ BookInv /\ SoundLedger /\ UpdatedWhereItIs
  BY DEF Remembered, Known, UpdateInv, IInv, PlanInv, BookInv
<1>1. CASE Emptied
  BY <1>1, NothingBooked DEF BookedQuota
<1>2. CASE ~Emptying
  <2>1. SUFFICES ASSUME NEW g \in DOMAIN hasGPUs', NEW r \in Row,
                        NEW n \in DOMAIN hasGPUs'[g].rows[r], IsReal(n),
                        n \in DOMAIN fastPod', n \notin PlannedUpdates'
                 PROVE  QuotaOf(hasGPUs'[g], n) \in {fastPod'[n].quota, ReadQuota(fastPod'[n].quota)}
    BY DEF BookedQuota
  <2>2. ASSUME g \in DOMAIN hasGPUs, n \in DOMAIN hasGPUs[g].rows[r],
               QuotaOf(hasGPUs'[g], n) = QuotaOf(hasGPUs[g], n),
               ~(ApplyUpdate /\ n = Target.name)
        PROVE  QuotaOf(hasGPUs'[g], n) \in {fastPod'[n].quota, ReadQuota(fastPod'[n].quota)}
    <3>1. n \in DOMAIN fastPod
      BY <1>0, <2>1, <2>2, NewIsUnbooked
    <3>2. fastPod'[n].quota = fastPod[n].quota
      BY <1>0, <2>1, <2>2, <3>1, QuotasStay
    <3>3. n \notin PlannedUpdates
      BY <1>0, <1>2, <2>1, <2>2, <3>1, UpdatesStay, BookedIsTracked
    <3> QED
      BY <2>1, <2>2, <3>1, <3>2, <3>3 DEF BookedQuota
  <2>3. CASE AdoptPod /\ \E m \in unread : Adopts(m) /\ BookKept({m})
    <3>1. PICK m \in unread : Adopts(m) /\ BookKept({m})
      BY <2>3
    <3>2. fastPod' = fastPod /\ ~ApplyUpdate
      BY <2>3 DEF AdoptPod, clusterVars, ApplyUpdate, Planned
    <3>3. CASE n = m
      <4>1. PICK s : Books(fastPod[m].gpu, m, fastPod[m].sm, ReadQuota(fastPod[m].quota), s)
        BY <3>1 DEF Adopts
      <4>2. fastPod[m].gpu = g
        BY <1>0, <2>1, <3>3, <4>1, BookedRows DEF RowsGain
      <4>3. QuotaOf(hasGPUs'[g], n) = ReadQuota(fastPod[n].quota)
        BY <1>0, <3>3, <4>1, <4>2, BooksKeep
      <4> QED
        BY <3>2, <4>3
    <3>4. CASE n # m
      BY <2>1, <2>2, <3>1, <3>2, <3>4 DEF BookKept
    <3> QED
      BY <3>3, <3>4
  <2>4. CASE InitPod /\ FirstBooked
    <3>1. PICK m : \E h \in InitGPUs, config \in InitialConfig[cur] : \E s :
                /\ Books(h, m, config.sm, config.quota, s)
                /\ podsInfo' = Track(m)
                /\ PodAdded(m, configs2FaSTPods(h, config))
      BY <2>4 DEF FirstBooked
    <3>2. PICK h \in InitGPUs, config \in InitialConfig[cur] : \E s :
                /\ Books(h, m, config.sm, config.quota, s)
                /\ podsInfo' = Track(m)
                /\ PodAdded(m, configs2FaSTPods(h, config))
      BY <3>1
    <3>3. PICK s : /\ Books(h, m, config.sm, config.quota, s)
                   /\ PodAdded(m, configs2FaSTPods(h, config))
      BY <3>2
    <3>4. BookKept({m}) /\ QuotaOf(hasGPUs'[h], m) = config.quota
      BY <1>0, <3>3, BooksKeep
    <3>5. CASE n = m
      <4>1. h = g
        BY <1>0, <2>1, <3>3, <3>5, BookedRows DEF RowsGain
      <4>2. fastPod'[n].quota = config.quota
        BY <3>3, <3>5 DEF PodAdded, Put, configs2FaSTPods
      <4> QED
        BY <3>4, <3>5, <4>1, <4>2
    <3>6. CASE n # m
      <4>1. ~ApplyUpdate
        BY <2>4 DEF InitPod, ApplyUpdate, Planned
      <4> QED
        BY <2>1, <2>2, <3>4, <3>6, <4>1 DEF BookKept
    <3> QED
      BY <3>5, <3>6
  <2>5. CASE VerticalScale \/ ShrinkPod
    <3>1. PICK quota, rps : Resizes(quota, rps)
      BY <1>0, <2>5, ResizeMoves
    <3> DEFINE m == pods[idx].name
               new == Resized(pods[idx], quota, rps)
    <3>2. /\ actions' = Append(actions, Act(0, new)) /\ new \in HASPodInfo
          /\ (\E h : Requotes(h, m, quota)) \/ hasGPUs' = hasGPUs
      BY <3>1, ResizedType DEF Resizes
    <3>3. n # m
      <4>1. actions \in Seq(HASAction)
        BY <1>0 DEF TypeOK
      <4>2. NamesIn(actions', 0) = NamesIn(actions, 0) \cup {m}
        BY <3>2, <4>1, AppendNames DEF Act, Resized
      <4>3. m \in PlannedUpdates'
        BY <4>2 DEF PlannedUpdates
      <4> QED
        BY <2>1, <4>3
    <3> HIDE DEF m, new
    <3>4. BookKept({m}) \/ BookKept({})
      BY <3>2, RequotesKeep DEF BookKept
    <3>5. ~ApplyUpdate
      BY <2>5 DEF VerticalScale, ShrinkPod, ApplyUpdate, Planned
    <3> QED
      BY <2>1, <2>2, <3>3, <3>4, <3>5 DEF BookKept
  <2>6. CASE ApplyUpdate
    <3> DEFINE m == Target.name
    <3>1. UpdateDone(m)
      BY <1>0, <2>6, UpdateHappens
    <3>2. actions # <<>> /\ Head(actions).type = 0
      BY <2>6 DEF ApplyUpdate, Planned, HeadIs
    <3>3. m \in DOMAIN fastPod => Target.gpu = fastPod[m].gpu
      BY <1>0, <2>6, <3>2, ApplyShape DEF Applies, UpdatedWhereItIs
    <3>4. \A h \in DOMAIN hasGPUs : \A s \in Row :
             DOMAIN hasGPUs[h].rows[s] \subseteq DOMAIN hasGPUs[h].conf
      BY <1>0 DEF SoundLedger, Sound, RowsNamed
    <3> HIDE DEF m
    <3>5. g \in DOMAIN hasGPUs /\ n \in DOMAIN hasGPUs[g].rows[r]
      BY <2>1, <3>1, RequotesKeep DEF UpdateDone
    <3>6. n \in DOMAIN fastPod /\ fastPod[n].gpu = g
      BY <1>0, <2>1, <3>5, NewIsUnbooked DEF BookedThere
    <3>7. CASE n = m
      <4>1. PICK quota \in Int :
              /\ fastPod' = [fastPod EXCEPT ![n].quota = quota]
              /\ Requotes(g, n, quota)
        BY <3>1, <3>3, <3>4, <3>5, <3>6, <3>7 DEF UpdateDone
      <4>2. fastPod[n] \in FaSTPod
        BY <1>0, <3>6 DEF TypeOK, IsMapOf
      <4>3. fastPod'[n].quota = quota
        BY <3>6, <4>1, <4>2 DEF FaSTPod
      <4> QED
        BY <4>1, <4>3, RequotesKeep
    <3>8. CASE n # m
      <4>1. QuotaOf(hasGPUs'[g], n) = QuotaOf(hasGPUs[g], n)
        BY <2>1, <3>1, <3>5, <3>8, RequotesKeep DEF UpdateDone, BookKept
      <4> QED
        BY <2>2, <3>5, <3>8, <4>1 DEF m
    <3> QED
      BY <3>7, <3>8
  <2>7. CASE BookKept({}) /\ ~ApplyUpdate
    BY <2>1, <2>2, <2>7 DEF BookKept
  <2> QED
    BY <1>0, <1>2, <2>3, <2>4, <2>5, <2>6, <2>7, BookMoves
<1> QED
  BY <1>0, <1>1, <1>2, EmptyingForgets DEF Remembered, SeenInv

(* No quota on a FaSTPod is one of those that are read back smaller.       *)
QuotasReadBack == \A n \in DOMAIN fastPod : ReadQuota(fastPod[n].quota) = fastPod[n].quota

(* What is booked for a FaSTPod is where it is, is kept, and has its quota *)
(* or the one planned for it, if no update fails.                          *)
LEMMA SyncInvAlways ==
    ASSUME "update" \notin FaultyCalls
    PROVE  Spec => []SyncInv
<1>1. Init => SyncInv
  BY DEF Init, SyncInv, BookedThere, ListedWhereBooked, BookedQuota, UpdatesMatch, EmptyMap
<1>2. Remembered /\ UpdateInv /\ SyncInv /\ [Next]_vars => SyncInv'
  BY BookedThereStep, ListedWhereBookedStep, BookedQuotaStep, UpdatesMatchStep DEF SyncInv
<1> QED
  BY <1>1, <1>2, RememberedAlways, UpdatesAreRight, PTL DEF Spec

(* As long as no FaSTFunc is deleted, what is booked exists: the deletion  *)
(* of a FaSTPod is planned when it leaves the book, and not before.        *)
BookedExists ==
    \A g \in DOMAIN hasGPUs : \A r \in Row : \A n \in DOMAIN hasGPUs[g].rows[r] :
        IsReal(n) => n \in DOMAIN fastPod

LEMMA BookedExistsStep ==
    ASSUME MaxChurn = 0, Remembered, FuncsStay, BookedThere, BookedExists, [Next]_vars
    PROVE  BookedExists'
<1>0. TypeOK /\ Known /\ Phases /\ MadeAnew /\ ~Collect
  BY FuncsStayStep DEF Remembered, Known, SeenInv, IInv, PlanInv
<1>1. CASE Emptied
  BY <1>1, NothingBooked DEF BookedExists
<1>2. CASE ~Emptying
  <2>1. SUFFICES ASSUME NEW g \in DOMAIN hasGPUs', NEW r \in Row,
                        NEW n \in DOMAIN hasGPUs'[g].rows[r], IsReal(n)
                 PROVE  n \in DOMAIN fastPod'
    BY DEF BookedExists
  <2>2. ASSUME g \in DOMAIN hasGPUs, n \in DOMAIN hasGPUs[g].rows[r]
        PROVE  n \in DOMAIN fastPod'
    <3>1. n \in DOMAIN fastPod /\ n \notin PlannedDeletes
      BY <2>1, <2>2 DEF BookedExists, BookedThere
    <3>2. ApplyDelete => n # Target.name
      BY <1>0, <3>1, ApplyShape DEF Applies
    <3> QED
      BY <1>0, <3>1, <3>2, PodsStay
  <2>3. CASE AdoptPod /\ \E m \in unread : Adopts(m) /\ BookKept({m})
    <3>1. PICK m \in unread : BookKept({m})
      BY <2>3
    <3>2. m \in DOMAIN fastPod' /\ fastPod' = fastPod
      BY <1>0, <2>3 DEF TypeOK, AdoptPod, clusterVars
    <3> QED
      BY <2>1, <2>2, <3>1, <3>2 DEF BookKept
  <2>4. CASE InitPod /\ FirstBooked
    <3>1. PICK m : \E h \in InitGPUs, config \in InitialConfig[cur] : \E s :
                /\ Books(h, m, config.sm, config.quota, s)
                /\ podsInfo' = Track(m)
                /\ PodAdded(m, configs2FaSTPods(h, config))
      BY <2>4 DEF FirstBooked
    <3>2. BookKept({m}) /\ m \in DOMAIN fastPod'
      BY <1>0, <3>1, BooksKeep DEF PodAdded, Put
    <3> QED
      BY <2>1, <2>2, <3>2 DEF BookKept
  <2>5. CASE BookKept({})
    BY <2>1, <2>2, <2>5 DEF BookKept
  <2>6. ASSUME NEW h, NEW m, NEW quota, Requotes(h, m, quota)
        PROVE  n \in DOMAIN fastPod'
    <3>1. g \in DOMAIN hasGPUs /\ hasGPUs'[g].rows = hasGPUs[g].rows
      BY <2>1, <2>6, RequotesKeep
    <3> QED
      BY <2>1, <2>2, <3>1
  <2> QED
    BY <1>0, <1>2, <2>3, <2>4, <2>5, <2>6, BookMoves
<1> QED
  BY <1>0, <1>1, <1>2, EmptyingForgets

(* Between ticks every FaSTPod in the book is one of that GPU, with the    *)
(* quota that is booked, if no update fails, no FaSTFunc is deleted, and   *)
(* quotas are read back as they were written.  Creations, deletions,       *)
(* checks and listings may fail, and the process may die at any time.      *)
THEOREM BookIsInSync ==
    ASSUME "update" \notin FaultyCalls, MaxChurn = 0
    PROVE  Spec => [](QuotasReadBack => LedgerInSync)
<1>1. Init => FuncsStay /\ BookedExists
  BY DEF Init, FuncsStay, BookedExists, EmptyMap
<1>2. /\ Remembered /\ SyncInv /\ FuncsStay /\ BookedExists /\ [Next]_vars
      => (FuncsStay /\ BookedExists)'
  BY FuncsStayStep, BookedExistsStep DEF Remembered, SyncInv
<1>3. Remembered /\ SyncInv /\ BookedExists => (QuotasReadBack => LedgerInSync)
  <2>1. SUFFICES ASSUME Remembered, SyncInv, BookedExists, QuotasReadBack, pc = "idle",
                        NEW g \in DOMAIN hasGPUs, NEW r \in Row,
                        NEW n \in DOMAIN hasGPUs[g].rows[r], IsReal(n)
                 PROVE  /\ n \in DOMAIN fastPod /\ fastPod[n].gpu = g
                        /\ fastPod[n].quota = hasGPUs[g].conf[n].quota
    BY DEF LedgerInSync
  <2>2. n \in DOMAIN fastPod /\ fastPod[n].gpu = g
    BY <2>1 DEF SyncInv, BookedThere, BookedExists
  <2>3. PlannedUpdates = {}
    BY <2>1 DEF Remembered, Known, IInv, PlanInv, MadeAnew, BeforeList, PlannedUpdates, NamesIn
  <2>4. QuotaOf(hasGPUs[g], n) = fastPod[n].quota
    BY <2>1, <2>2, <2>3 DEF SyncInv, BookedQuota, QuotasReadBack
  <2>5. n \in DOMAIN hasGPUs[g].conf
    BY <2>1 DEF Remembered, Known, BookInv, SoundLedger, Sound, RowsNamed
  <2> QED
    BY <2>2, <2>4, <2>5 DEF QuotaOf, ConfOf
<1> QED
  BY <1>1, <1>2, <1>3, RememberedAlways, SyncInvAlways, PTL DEF Spec

-----------------------------------------------------------------------------
(* Rows hold finitely many names: what their pods take is a sum.           *)
FiniteEntry(info) == \A r \in Row : IsFiniteSet(DOMAIN info.rows[r])
FiniteRows == \A g \in DOMAIN hasGPUs : FiniteEntry(hasGPUs[g])

LEMMA PutIsFinite ==
    ASSUME FiniteRows, NEW g, NEW new, FiniteEntry(new), hasGPUs' = Put(hasGPUs, g, new)
    PROVE  FiniteRows'
BY DEF FiniteRows, Put

LEMMA BareIsFinite == FiniteEntry(BareGPU)
<1>1. \A r \in Row : DOMAIN BareGPU.rows[r] = {}
  BY DEF BareGPU, EmptyMap
<1> QED
  BY <1>1, FS_EmptySet DEF FiniteEntry

(* A booking adds one name.                                                *)
LEMMA AddedIsFinite ==
    ASSUME NEW info, IsHASGPUInfo(info), FiniteEntry(info), NEW n, NEW sm, NEW quota, NEW r \in Row
    PROVE  FiniteEntry(Added(info, n, sm, quota, r))
<1> DEFINE new == Added(info, n, sm, quota, r)
<1>0. IsAdded(info, new, n, EffectiveSM(info, r, sm), quota, r)
  BY AddedParts
<1> HIDE DEF new
<1>1. \A s \in Row : DOMAIN new.rows[s]
                       = IF s = r THEN DOMAIN info.rows[r] \cup {n} ELSE DOMAIN info.rows[s]
  BY <1>0 DEF IsAdded
<1>2. IsFiniteSet(DOMAIN info.rows[r] \cup {n})
  BY FS_AddElement DEF FiniteEntry
<1> QED
  BY <1>1, <1>2 DEF FiniteEntry, new

LEMMA FiniteRowsStep ==
    ASSUME TypeOK, BookInv, FiniteRows, [Next]_vars
    PROVE  FiniteRows'
<1>0. IsLedger(hasGPUs)
  BY DEF TypeOK
<1>1. \A g \in DOMAIN hasGPUs : FiniteEntry(hasGPUs[g]) /\ IsHASGPUInfo(hasGPUs[g])
  BY <1>0 DEF FiniteRows, IsLedger
<1>2. CASE Untouched
  BY <1>2 DEF Untouched, FiniteRows
<1>3. CASE Emptied
  BY <1>3, BareIsFinite DEF Emptied, FiniteRows
<1>4. ASSUME NEW g, NEW n, NEW sm, NEW quota, NEW r, Books(g, n, sm, quota, r)
      PROVE  FiniteRows'
  <2>1. IsHASGPUInfo(InfoOf(hasGPUs, g)) /\ FiniteEntry(InfoOf(hasGPUs, g))
    BY <1>1, BareIsFinite, BareGPUType DEF InfoOf
  <2>2. FiniteEntry(Added(InfoOf(hasGPUs, g), n, sm, quota, r))
    BY <1>4, <2>1, AddedIsFinite DEF Books
  <2> QED
    BY <1>4, <2>2, PutIsFinite DEF Books
<1>5. ASSUME NEW g \in DOMAIN hasGPUs, NEW R, NEW claim
      PROVE  FiniteEntry(updateSMConfigForGPU(hasGPUs[g], R, claim))
  <2>1. updateSMConfigForGPU(hasGPUs[g], R, claim).rows = hasGPUs[g].rows
    BY <1>1 DEF updateSMConfigForGPU, IsHASGPUInfo
  <2> QED
    BY <1>1, <2>1 DEF FiniteEntry
<1>6. ASSUME NEW g, NEW R, NEW claim, ClaimsOnly(g, R, claim)
      PROVE  FiniteRows'
  BY <1>5, <1>6, PutIsFinite DEF ClaimsOnly
<1>7. ASSUME NEW g, NEW R, NEW claim, NEW sm, NEW quota, NEW r, Plans(g, R, claim, sm, quota, r)
      PROVE  FiniteRows'
  <2> DEFINE claimed == updateSMConfigForGPU(hasGPUs[g], R, claim)
  <2>1. IsHASGPUInfo(claimed) /\ FiniteEntry(claimed)
    BY <1>1, <1>5, <1>7, UpdateSMConfigType DEF Plans
  <2>2. /\ hasGPUs' = Put(hasGPUs, g, Added(claimed, Provisional(cur, quota, sm), sm, quota, r))
        /\ r \in Row
    BY <1>7 DEF Plans
  <2> HIDE DEF claimed
  <2> QED
    BY <2>1, <2>2, AddedIsFinite, PutIsFinite
<1>8. ASSUME NEW g, NEW n, NEW quota, Requotes(g, n, quota)
      PROVE  FiniteRows'
  <2>1. FiniteEntry(Requoted(hasGPUs[g], n, quota))
    BY <1>1, <1>8, RequotedParts DEF Requotes, FiniteEntry
  <2> QED
    BY <1>8, <2>1, PutIsFinite DEF Requotes
<1>9. ASSUME NEW g, NEW n, Evicts(g, n)
      PROVE  FiniteRows'
  <2>0. \A s \in Row : Evicted(hasGPUs[g], n).rows[s]
                        \in {Drop(hasGPUs[g].rows[s], {n}), hasGPUs[g].rows[s]}
    BY <1>1, <1>9, EvictedParts DEF Evicts
  <2>1. \A s \in Row : DOMAIN Evicted(hasGPUs[g], n).rows[s] \subseteq DOMAIN hasGPUs[g].rows[s]
    BY <2>0 DEF Drop
  <2>2. FiniteEntry(Evicted(hasGPUs[g], n))
    BY <1>1, <1>9, <2>1, FS_Subset DEF Evicts, FiniteEntry
  <2> QED
    BY <1>9, <2>2, PutIsFinite DEF Evicts
<1>10. ASSUME NEW G, Cleans(G)
       PROVE  FiniteRows'
  BY <1>1, <1>10 DEF Cleans, Drop, FiniteRows
<1> QED
  BY <1>2, <1>3, <1>4, <1>6, <1>7, <1>8, <1>9, <1>10, LedgerMoves DEF Adopts

(* So the rest of a row is a number.                                       *)
Taken(info, r) == [n \in DOMAIN info.rows[r] |-> info.rows[r][n] * ConfOf(info, n).quota]

LEMMA RowIsSummable ==
    ASSUME NEW info, IsHASGPUInfo(info), FiniteEntry(info), NEW r \in Row
    PROVE  /\ Summable(Taken(info, r), DOMAIN Taken(info, r))
           /\ RowQuota(info, r) = SumFunction(Taken(info, r))
           /\ RowQuota(info, r) \in Int
<1>1. \A n \in DOMAIN info.rows[r] : info.rows[r][n] \in Int /\ ConfOf(info, n).quota \in Int
  BY ConfOfType DEF IsHASGPUInfo, IsMapOf, HASResConfig
<1>2. Summable(Taken(info, r), DOMAIN Taken(info, r))
  BY <1>1 DEF Summable, Taken, FiniteEntry
<1> QED
  BY <1>2, SumIsSum DEF RowQuota, Taken

(* Requoting a pod that stands in a row once changes what the row has left *)
(* by as much as its quota, and what other rows have not at all.           *)
LEMMA RequotedRow ==
    ASSUME NEW info, IsHASGPUInfo(info), FiniteEntry(info), NEW n \in Name, NEW quota \in Int,
           NEW r \in Row, n \in DOMAIN info.rows[r] => info.rows[r][n] = 1
    PROVE  AvailQuota(Requoted(info, n, quota), r)
             = IF n \in DOMAIN info.rows[r] THEN AvailQuota(info, r) + QuotaOf(info, n) - quota
                                            ELSE AvailQuota(info, r)
<1> DEFINE new == Requoted(info, n, quota)
<1>1. /\ new.rows = info.rows
      /\ \A m : ConfOf(new, m).quota = IF m = n THEN quota ELSE ConfOf(info, m).quota
  BY RequotedParts DEF QuotaOf
<1>2. FiniteEntry(new)
  BY <1>1 DEF FiniteEntry
<1>3. \A m \in DOMAIN info.rows[r] : info.rows[r][m] \in Int /\ ConfOf(info, m).quota \in Int
  BY ConfOfType DEF IsHASGPUInfo, IsMapOf, HASResConfig
<1>4. /\ Summable(Taken(info, r), DOMAIN Taken(info, r)) /\ RowQuota(info, r) \in Int
      /\ RowQuota(info, r) = SumFunction(Taken(info, r))
  BY RowIsSummable
<1> HIDE DEF new
<1>5. /\ DOMAIN Taken(new, r) = DOMAIN info.rows[r]
      /\ DOMAIN Taken(info, r) = DOMAIN info.rows[r]
      /\ \A m \in DOMAIN info.rows[r] \ {n} : Taken(new, r)[m] = Taken(info, r)[m]
  BY <1>1 DEF Taken
<1>6. \A m \in DOMAIN info.rows[r] : Taken(new, r)[m] \in Int
  BY <1>1, <1>3 DEF Taken
<1>7. Summable(Taken(new, r), DOMAIN Taken(new, r))
  BY <1>2, <1>4, <1>5, <1>6 DEF Summable
<1>8. RowQuota(new, r) = SumFunction(Taken(new, r))
  BY DEF RowQuota, Taken
<1>9. CASE n \in DOMAIN info.rows[r]
  <2>1. Taken(new, r)[n] = quota /\ Taken(info, r)[n] = QuotaOf(info, n) /\ QuotaOf(info, n) \in Int
    BY <1>1, <1>3, <1>9 DEF Taken, QuotaOf
  <2>2. SumFunction(Taken(new, r))
          = SumFunction(Taken(info, r)) + Taken(new, r)[n] - Taken(info, r)[n]
    BY <1>4, <1>5, <1>7, <1>9, SumWithOther
  <2>3. RowQuota(new, r) = RowQuota(info, r) + quota - QuotaOf(info, n)
    BY <1>4, <1>8, <2>1, <2>2
  <2> QED
    BY <1>4, <1>9, <2>1, <2>3 DEF AvailQuota, new
<1>10. CASE n \notin DOMAIN info.rows[r]
  <2>1. Taken(new, r) = Taken(info, r)
    BY <1>1, <1>5, <1>10 DEF Taken
  <2> QED
    BY <1>4, <1>8, <1>10, <2>1 DEF AvailQuota, new
<1> QED
  BY <1>9, <1>10


-----------------------------------------------------------------------------
(* What a FaSTPod on the list had when it was listed is not more than what *)
(* is booked for it, until the vertical loop gets to it: the list is read  *)
(* back from its annotations, which may lose a hundredth.                  *)
ListedBooked ==
    pc \in {"convert", "decide", "vertical"} =>
        \A i \in DOMAIN pods :
            (pc = "vertical" => i >= idx) =>
                \A g \in DOMAIN hasGPUs : \A r \in Row :
                    pods[i].name \in DOMAIN hasGPUs[g].rows[r]
                      => pods[i].quota <= QuotaOf(hasGPUs[g], pods[i].name)

(* How the goroutine gets to the vertical loop, and how it stays there.    *)
LEMMA RaisePhases ==
    ASSUME TypeOK, [Next]_vars, pc' \in {"convert", "decide", "vertical"}
    PROVE  \/ CheckFindsPods \/ ConvertPod \/ Decide \/ VerticalScale
           \/ /\ pc \in {"convert", "decide", "vertical"}
              /\ pc' = "vertical" <=> pc = "vertical"
              /\ hasGPUs' = hasGPUs /\ pods' = pods /\ idx' = idx
<1> USE DEF memoryVars, localVars, ledgerVars, scalerVars, Forget, NextFunction, LoseMemory,
            Planned, ApplyRest
<1>1. CASE InitialiseStep
  BY <1>1 DEF InitialiseStep, InitCheckFails, InitCheckFindsNone, InitCheckFindsPods, AdoptPod,
              AdoptEnds, InitPod, AfterInit, InitPodPanics
<1>2. CASE ObserveStep
  BY <1>2, Zenon DEF ObserveStep, QueryFails, Query, QueryForNothing, CheckGivesUp,
              ConvertEnds, NoScaling
<1>3. CASE Autoscale
  BY <1>3 DEF Autoscale, AutoscaleStep, VerticalPanics, VerticalDone,
              HorizontalScale, HorizontalSkip, HorizontalDone, NoUsedGPULeft, NewGPUPanics,
              NoNewGPU, Fallback, FallbackFindsNothing, ShrinkPod, ShrinkSkip, ShrinkDone,
              EvictPod, EvictSkip, EvictDone, CleanUp
<1>4. CASE ApplyStep
  BY <1>4 DEF ApplyStep, ApplyDelete, ApplyUpdateUntracked, ApplyUpdate, ApplyCreateRefused,
              ApplyLookup, ApplyCreate, ApplyEnds
<1>5. CASE Start \/ RestartAfterPanic \/ Crash \/ Tick \/ TickEnds \/ VisitNew \/ VisitKnown
  BY <1>5 DEF Start, getGPUDeviceTopology, RestartAfterPanic, Crash, Tick, TickEnds, VisitNew,
              VisitKnown
<1>6. CASE DeleteFunc \/ AddFunc \/ Collect \/ CooldownExpires \/ UNCHANGED vars
  BY <1>6 DEF DeleteFunc, AddFunc, Collect, CooldownExpires, vars
<1> QED
  BY <1>1, <1>2, <1>3, <1>4, <1>5, <1>6 DEF Next, ControllerStep, EnvStep

LEMMA ListedBookedStep ==
    ASSUME Remembered, SyncInv, ListedBooked, [Next]_vars
    PROVE  ListedBooked'
<1>0. TypeOK /\ BookInv /\ IInv
  BY DEF Remembered, Known
<1>1. SUFFICES ASSUME pc' \in {"convert", "decide", "vertical"},
                      NEW i \in DOMAIN pods', pc' = "vertical" => i >= idx',
                      NEW g \in DOMAIN hasGPUs', NEW r \in Row,
                      pods'[i].name \in DOMAIN hasGPUs'[g].rows[r]
               PROVE  pods'[i].quota <= QuotaOf(hasGPUs'[g], pods'[i].name)
  BY DEF ListedBooked
<1>2. CASE CheckFindsPods
  <2>1. pods' = <<>>
    BY <1>0, <1>2 DEF CheckFindsPods, localVars, IInv, PlanInv, MadeAnew, BeforeList
  <2> QED
    BY <1>1, <2>1
<1>3. CASE ConvertPod
  <2>1. pc = "convert" /\ hasGPUs' = hasGPUs
    BY <1>3 DEF ConvertPod, ledgerVars
  <2>2. PICK n \in unread : \E cap \in rapp(cur, fastPod[n].sm, ReadQuota(fastPod[n].quota)) :
                               pods' = Append(pods, PodInfoOf(n, cap))
    BY <1>3 DEF ConvertPod
  <2>3. PICK cap \in rapp(cur, fastPod[n].sm, ReadQuota(fastPod[n].quota)) :
                pods' = Append(pods, PodInfoOf(n, cap))
    BY <2>2
  <2>4. n \in DOMAIN fastPod /\ fastPod[n] \in FaSTPod /\ IsReal(n)
    BY <1>0, <2>2 DEF TypeOK, IsMapOf, BookInv, RealNames
  <2>5. (i \in DOMAIN pods /\ pods'[i] = pods[i]) \/ pods'[i] = PodInfoOf(n, cap)
    BY <1>0, <1>1, <2>3 DEF TypeOK
  <2>6. CASE i \in DOMAIN pods /\ pods'[i] = pods[i]
    BY <1>1, <2>1, <2>6 DEF ListedBooked
  <2>7. CASE pods'[i] = PodInfoOf(n, cap)
    <3>1. pods'[i].name = n /\ pods'[i].quota = ReadQuota(fastPod[n].quota)
      BY <2>7 DEF PodInfoOf
    <3>2. n \notin PlannedUpdates
      BY <1>0, <2>1 DEF IInv, PlanInv, MadeAnew, PlannedUpdates, NamesIn
    <3>3. QuotaOf(hasGPUs[g], n) \in {fastPod[n].quota, ReadQuota(fastPod[n].quota)}
      BY <1>1, <2>1, <2>4, <3>1, <3>2 DEF SyncInv, BookedQuota
    <3>4. fastPod[n].quota \in Int
      BY <2>4 DEF FaSTPod
    <3> QED
      BY <2>1, <3>1, <3>3, <3>4 DEF ReadQuota
  <2> QED
    BY <2>5, <2>6, <2>7
<1>4. CASE Decide
  <2>1. pc = "decide" /\ hasGPUs' = hasGPUs /\ pods' \in [DOMAIN pods -> Range(pods)]
    BY <1>4 DEF Decide, BeginScaleUp, BeginScaleDown, SortedBy, ledgerVars
  <2>2. PICK j \in DOMAIN pods : pods'[i] = pods[j]
    BY <1>1, <2>1 DEF Range
  <2> QED
    BY <1>1, <2>1, <2>2 DEF ListedBooked
<1>5. CASE VerticalScale
  <2>1. pc = "vertical" /\ pc' = "vertical"
    BY <1>5 DEF VerticalScale
  <2>2. PICK quota, rps : Resizes(quota, rps)
    BY <1>0, <1>5, ResizeMoves
  <2>3. /\ idx \in DOMAIN pods /\ idx' = idx + 1
        /\ pods' = [pods EXCEPT ![idx] = Resized(pods[idx], quota, rps)]
    BY <2>2 DEF Resizes
  <2>4. idx \in Nat /\ i >= idx + 1 /\ i \in Nat
    BY <1>0, <1>1, <2>1, <2>3 DEF TypeOK
  <2>5. i \in DOMAIN pods /\ pods'[i] = pods[i]
    BY <1>1, <2>3, <2>4
  <2>6. pods[i].name # pods[idx].name
    BY <1>0, <2>3, <2>4, <2>5 DEF IInv, PlanInv, ListedOnce, Distinct
  <2>7. IsReal(pods[i].name)
    BY <1>0, <2>5 DEF BookInv, RealNames, Listed, Names
  <2>8. BookKept({pods[idx].name}) \/ hasGPUs' = hasGPUs
    BY <2>2, RequotesKeep DEF Resizes
  <2>9. /\ g \in DOMAIN hasGPUs /\ pods[i].name \in DOMAIN hasGPUs[g].rows[r]
        /\ QuotaOf(hasGPUs'[g], pods[i].name) = QuotaOf(hasGPUs[g], pods[i].name)
    BY <1>1, <2>5, <2>6, <2>7, <2>8 DEF BookKept
  <2>10. pods[i].quota <= QuotaOf(hasGPUs[g], pods[i].name)
    BY <2>1, <2>4, <2>5, <2>9 DEF ListedBooked
  <2> QED
    BY <2>5, <2>9, <2>10
<1>6. CASE /\ pc \in {"convert", "decide", "vertical"}
           /\ pc' = "vertical" <=> pc = "vertical"
           /\ hasGPUs' = hasGPUs /\ pods' = pods /\ idx' = idx
  BY <1>1, <1>6 DEF ListedBooked
<1> QED
  BY <1>0, <1>1, <1>2, <1>3, <1>4, <1>5, <1>6, RaisePhases

(* A pod on the list stands in at most one row of its GPU, and the loop    *)
(* measures that row.                                                      *)
LEMMA RowIsMeasured ==
    ASSUME OnceBooked, NEW g \in DOMAIN hasGPUs, NEW r \in Row,
           NEW n \in DOMAIN hasGPUs[g].rows[r], IsReal(n)
    PROVE  /\ hasGPUs[g].rows[r][n] = 1
           /\ RetriveMaxAvailQuotaForPod(hasGPUs[g], n) = AvailQuota(hasGPUs[g], r)
<1>1. hasGPUs[g].rows[r][n] = 1
  BY DEF OnceBooked
<1>2. RowsOf(hasGPUs[g], n) = {r}
  BY DEF OnceBooked, RowsOf
<1>3. Max({r}) = r
  BY GreatestRow
<1> QED
  BY <1>1, <1>2, <1>3 DEF RetriveMaxAvailQuotaForPod

(* What a step of the loop leaves of a row.                                *)
LEMMA RaiseFits ==
    ASSUME Remembered, FiniteRows, ListedBooked, VerticalScale,
           NEW g \in DOMAIN hasGPUs, g \in DOMAIN hasGPUs', NEW r \in Row
    PROVE  \/ AvailQuota(hasGPUs'[g], r) >= 0
           \/ AvailQuota(hasGPUs'[g], r) >= AvailQuota(hasGPUs[g], r)
<1>0. TypeOK /\ BookInv /\ IsLedger(hasGPUs)
  BY DEF Remembered, Known, TypeOK
<1>1. IsHASGPUInfo(hasGPUs[g]) /\ FiniteEntry(hasGPUs[g])
  BY <1>0 DEF IsLedger, FiniteRows
<1>2. AvailQuota(hasGPUs[g], r) \in Int
  BY <1>1, RowIsSummable DEF AvailQuota
<1> DEFINE pod   == pods[idx]
           avail == RetriveMaxAvailQuotaForPod(hasGPUs[pod.gpu], pod.name)
<1>3. PICK n \in 0 .. 100 \div DeltaIq :
           \E cap \in CapRaised(pod, n) :
              /\ RaisedBy(pod, avail, n, cap)
              /\ hasGPUs' = SetQuota(hasGPUs, pod.gpu, pod.name, pod.quota + DeltaIq * n)
  BY DEF VerticalScale, Resized
<1>4. n \in Nat /\ (n = 0 \/ 10 * n <= avail)
  BY <1>3 DEF RaisedBy, DeltaIq
<1>5. /\ pod \in HASPodInfo /\ idx \in DOMAIN pods
      /\ pod.gpu \in DOMAIN hasGPUs
  BY <1>0, ListedPodType DEF VerticalScale, OnAllocatedGPU, TypeOK
<1>6. IsReal(pod.name) /\ pod.name \in Name /\ pod.quota \in Int
  BY <1>0, <1>5 DEF BookInv, RealNames, Listed, Names, HASPodInfo
<1> DEFINE quota == pod.quota + 10 * n
<1>7. quota \in Int
  BY <1>4, <1>6
<1>8. hasGPUs' = Put(hasGPUs, pod.gpu, Requoted(hasGPUs[pod.gpu], pod.name, quota))
  BY <1>3, SetQuotaPuts DEF DeltaIq
<1>9. CASE g # pod.gpu
  BY <1>2, <1>8, <1>9 DEF Put
<1>10. CASE g = pod.gpu
  <2>1. hasGPUs'[g] = Requoted(hasGPUs[g], pod.name, quota)
    BY <1>8, <1>10 DEF Put
  <2>2. CASE pod.name \in DOMAIN hasGPUs[g].rows[r]
    <3>1. hasGPUs[g].rows[r][pod.name] = 1 /\ avail = AvailQuota(hasGPUs[g], r)
      BY <1>0, <1>6, <1>10, <2>2, RowIsMeasured DEF BookInv
    <3>2. AvailQuota(hasGPUs'[g], r)
            = AvailQuota(hasGPUs[g], r) + QuotaOf(hasGPUs[g], pod.name) - quota
      BY <1>1, <1>6, <1>7, <2>1, <2>2, <3>1, RequotedRow
    <3>3. pod.quota <= QuotaOf(hasGPUs[g], pod.name)
      BY <1>0, <1>5, <2>2 DEF ListedBooked, VerticalScale, TypeOK
    <3>4. QuotaOf(hasGPUs[g], pod.name) \in Int
      BY <1>1, ConfOfType DEF QuotaOf, HASResConfig
    <3> HIDE DEF pod, avail
    <3> QED
      BY <1>2, <1>4, <1>6, <3>1, <3>2, <3>3, <3>4
  <2>3. CASE pod.name \notin DOMAIN hasGPUs[g].rows[r]
    <3>1. AvailQuota(hasGPUs'[g], r) = AvailQuota(hasGPUs[g], r)
      BY <1>1, <1>6, <1>7, <2>1, <2>3, RequotedRow
    <3> QED
      BY <1>2, <3>1
  <2> QED
    BY <2>2, <2>3
<1> QED
  BY <1>9, <1>10

(* Raising quotas overbooks no row: a step of the vertical loop leaves     *)
(* every row with as much as it had, or with no less than nothing, if no   *)
(* update fails.  The loop adds to what it read back from the annotations, *)
(* and measures the row before, so this needs the book to be right about   *)
(* every pod on the list.                                                  *)
THEOREM RaisesNeverOverbook ==
    ASSUME "update" \notin FaultyCalls
    PROVE  Spec => RaisesFit
<1>1. Init => FiniteRows /\ ListedBooked
  BY DEF Init, FiniteRows, ListedBooked, EmptyMap
<1>2. /\ FiniteRows /\ ListedBooked /\ Remembered /\ SyncInv
      /\ [Next]_vars
      => (FiniteRows /\ ListedBooked)'
  BY FiniteRowsStep, ListedBookedStep DEF Remembered, Known
<1>3. /\ FiniteRows /\ ListedBooked /\ Remembered
      /\ [Next]_vars
      => [pc = "vertical" =>
            \A g \in DOMAIN hasGPUs \cap DOMAIN hasGPUs', r \in Row :
                \/ AvailQuota(hasGPUs'[g], r) >= 0
                \/ AvailQuota(hasGPUs'[g], r) >= AvailQuota(hasGPUs[g], r)]_vars
  <2>1. SUFFICES ASSUME FiniteRows, ListedBooked, Remembered, [Next]_vars, pc = "vertical",
                        NEW g \in DOMAIN hasGPUs, g \in DOMAIN hasGPUs', NEW r \in Row
                 PROVE  \/ AvailQuota(hasGPUs'[g], r) >= 0
                        \/ AvailQuota(hasGPUs'[g], r) >= AvailQuota(hasGPUs[g], r)
    BY Zenon
  <2>2. CASE VerticalScale
    BY <2>1, <2>2, RaiseFits
  <2>3. CASE hasGPUs' = hasGPUs
    <3>1. IsHASGPUInfo(hasGPUs[g]) /\ FiniteEntry(hasGPUs[g])
      BY <2>1 DEF Remembered, Known, TypeOK, IsLedger, FiniteRows
    <3>2. AvailQuota(hasGPUs[g], r) \in Int
      BY <3>1, RowIsSummable DEF AvailQuota
    <3> QED
      BY <2>3, <3>2
  <2>4. CASE Crash
    BY <2>1, <2>4 DEF Crash, LoseMemory, EmptyMap
  <2>5. VerticalScale \/ hasGPUs' = hasGPUs \/ Crash
    BY <2>1, LedgerWriters DEF Start, RestartAfterPanic, Panics, AdoptPod, InitPod, ApplyUpdate,
           Planned, HorizontalScale, HorizontalSkip, Fallback, ShrinkPod, EvictPod, CleanUp
  <2> QED
    BY <2>2, <2>3, <2>4, <2>5
<1> QED
  BY <1>1, <1>2, <1>3, RememberedAlways, SyncInvAlways, PTL DEF Spec, RaisesFit

=============================================================================
