---------------------------- MODULE InstanceProofs ----------------------------
(***************************************************************************)
(* HASReconciler implements InstanceLifecycle, and so keeps one instance   *)
(* of every function that is wanted, for every value of its constants.     *)
(*                                                                         *)
(* The hard step is the deletion of a FaSTPod.  It is planned from a list  *)
(* of FaSTPods that is older than the plan, and carried out while users    *)
(* and the garbage collector move; what protects the last FaSTPod is that  *)
(* a plan with deletions names another one, which it keeps.  The invariant *)
(* follows that one from the list to the call.                             *)
(*                                                                         *)
(* The last part is about the same lists and plans: the deficit or surplus *)
(* the autoscaler works off is what the rates on them add up to.           *)
(***************************************************************************)
EXTENDS HASReconcilerProofs

(* The names on a list of pods, and those of the actions of one type.      *)
Names(ps) == {ps[i].name : i \in DOMAIN ps}
NamesIn(plan, t) == {plan[i].pod.name : i \in {j \in DOMAIN plan : plan[j].type = t}}
Distinct(ps) == \A i, j \in DOMAIN ps : ps[i].name = ps[j].name => i = j

Listed == Names(pods)
PlannedDeletes == NamesIn(actions, -1)
PlannedCreates == NamesIn(actions, 1)

BeforeList == {"down", "idle", "loop", "stopped", "initCheck", "adopt", "initCreate", "query",
               "check"}

(* There are finitely many FaSTPods, and a listed one is its function's.   *)
FinitelyMany == IsFiniteSet(DOMAIN fastPod)
OwnFaSTPods == \A f \in Func : \A n \in fastPods[f] : FuncOf(n) = f

(* No FaSTPod is twice on the list, and none is kept and deleted.          *)
ListedOnce == Distinct(pods)
KeptOrDeleted == Listed \cap PlannedDeletes = {}
SomeKept == PlannedDeletes # {} => pods # <<>>

(* A plan deletes or creates, as it came from scale-down or scale-up.      *)
OneDirection ==
    /\ PlannedDeletes = {} \/ PlannedCreates = {}
    /\ pc \in {"vertical", "horizontal", "fallback"} => PlannedDeletes = {}
    /\ pc \in {"shrink", "evict", "clean"} => PlannedCreates = {}

(* The list and the plan are made anew for every function.                 *)
MadeAnew ==
    /\ pc \in BeforeList => pods = <<>>
    /\ pc \in BeforeList \cup {"convert", "decide"} => actions = <<>>

(* What is listed of a function that still exists is there, or everything  *)
(* that was there is gone: it has been deleted and created again since.    *)
ListIsRight ==
    /\ pc = "convert" => Listed \cup unread = PodsOf(cur) /\ Listed \cap unread = {}
    /\ pc = "decide" /\ cur \in funcs => Listed \subseteq PodsOf(cur) \/ PodsOf(cur) = {}
    /\ pc \in {"shrink", "evict", "clean"} /\ cur \in funcs => Listed \subseteq PodsOf(cur)
    /\ pc \in {"apply", "create"} /\ cur \in funcs =>
         Listed \subseteq PodsOf(cur) \/ PlannedDeletes \cap PodsOf(cur) = {}

PlanInv ==
    /\ ListedOnce /\ KeptOrDeleted /\ SomeKept
    /\ OneDirection /\ MadeAnew /\ ListIsRight

IInv == FinitelyMany /\ OwnFaSTPods /\ PlanInv

-----------------------------------------------------------------------------
(* Lists and plans.  A name is that of an action, or of a pod.             *)
LEMMA NamesInMember ==
    ASSUME NEW plan, NEW t, NEW n
    PROVE  n \in NamesIn(plan, t)
             <=> \E i \in DOMAIN plan : plan[i].type = t /\ plan[i].pod.name = n
BY DEF NamesIn

(* One more element at the end of a sequence.                              *)
LEMMA AppendShape ==
    ASSUME NEW S, NEW s \in Seq(S), NEW e \in S
    PROVE  /\ Len(s) \in Nat /\ DOMAIN s = 1 .. Len(s)
           /\ DOMAIN Append(s, e) = 1 .. Len(s) + 1
           /\ Append(s, e)[Len(s) + 1] = e
           /\ \A i \in DOMAIN s : Append(s, e)[i] = s[i]
<1>1. /\ Append(s, e) \in Seq(S) /\ Len(Append(s, e)) = Len(s) + 1
      /\ \A i \in 1 .. Len(s) : Append(s, e)[i] = s[i]
      /\ Append(s, e)[Len(s) + 1] = e
  BY AppendProperties
<1> QED
  BY <1>1, LenProperties

(* One element less at its head.                                           *)
LEMMA TailShape ==
    ASSUME NEW S, NEW s \in Seq(S), s # <<>>
    PROVE  /\ Len(s) \in Nat \ {0} /\ DOMAIN s = 1 .. Len(s)
           /\ DOMAIN Tail(s) = 1 .. Len(s) - 1
           /\ Head(s) = s[1]
           /\ \A i \in DOMAIN Tail(s) : Tail(s)[i] = s[i + 1]
<1>1. /\ Tail(s) \in Seq(S) /\ Len(Tail(s)) = Len(s) - 1
      /\ \A i \in 1 .. Len(Tail(s)) : Tail(s)[i] = s[i + 1]
  BY HeadTailProperties
<1>2. Len(s) \in Nat \ {0} /\ DOMAIN s = 1 .. Len(s)
  BY LenProperties, EmptySeq
<1>3. Head(s) = s[1]
  <2>1. 1 \in 1 .. Len(s) /\ Len(s) \in 1 .. Len(s) /\ SubSeq(s, 1, Len(s)) = s
    BY <1>2, SubSeqFull
  <2>2. Head(SubSeq(s, 1, Len(s))) = s[1]
    BY <2>1, HeadTailOfSubSeq
  <2> QED
    BY <2>1, <2>2
<1>4. DOMAIN Tail(s) = 1 .. Len(s) - 1
  BY <1>1, LenProperties
<1> QED
  BY <1>1, <1>2, <1>3, <1>4

(* An appended action adds its name to those of its type.                  *)
LEMMA AppendNames ==
    ASSUME NEW plan \in Seq(HASAction), NEW a, NEW t
    PROVE  NamesIn(Append(plan, a), t)
             = IF a.type = t THEN NamesIn(plan, t) \cup {a.pod.name} ELSE NamesIn(plan, t)
<1> DEFINE rest == Append(plan, a)
<1>1. /\ Len(plan) \in Nat /\ DOMAIN plan = 1 .. Len(plan) /\ DOMAIN rest = 1 .. Len(plan) + 1
      /\ rest[Len(plan) + 1] = a
      /\ \A i \in DOMAIN plan : rest[i] = plan[i]
  <2>1. plan \in Seq(HASAction \cup {a})
    BY SeqMonotonic
  <2>2. a \in HASAction \cup {a}
    OBVIOUS
  <2> QED
    BY <2>1, <2>2, AppendShape
<1> HIDE DEF rest
<1>2. ASSUME NEW n \in NamesIn(plan, t) PROVE n \in NamesIn(rest, t)
  <2>1. PICK i \in DOMAIN plan : plan[i].type = t /\ plan[i].pod.name = n
    BY <1>2, NamesInMember
  <2>2. i \in DOMAIN rest /\ rest[i] = plan[i]
    BY <1>1
  <2> QED
    BY <2>1, <2>2, NamesInMember
<1>3. ASSUME a.type = t PROVE a.pod.name \in NamesIn(rest, t)
  <2>1. Len(plan) + 1 \in DOMAIN rest /\ rest[Len(plan) + 1].type = t
    BY <1>1, <1>3
  <2> QED
    BY <1>1, <2>1, NamesInMember
<1>4. ASSUME NEW n \in NamesIn(rest, t)
      PROVE  n \in NamesIn(plan, t) \/ (a.type = t /\ n = a.pod.name)
  <2>1. PICK i \in DOMAIN rest : rest[i].type = t /\ rest[i].pod.name = n
    BY <1>4, NamesInMember
  <2>2. CASE i = Len(plan) + 1
    BY <1>1, <2>1, <2>2
  <2>3. CASE i \in DOMAIN plan
    <3>1. plan[i].type = t /\ plan[i].pod.name = n
      BY <1>1, <2>1, <2>3
    <3> QED
      BY <2>3, <3>1, NamesInMember
  <2>4. i = Len(plan) + 1 \/ i \in DOMAIN plan
    BY <1>1
  <2> QED
    BY <2>2, <2>3, <2>4
<1> QED
  BY <1>2, <1>3, <1>4 DEF rest

(* Taking the next action leaves a part of the plan.                       *)
LEMMA TailNames ==
    ASSUME NEW plan \in Seq(HASAction), plan # <<>>, NEW t
    PROVE  /\ NamesIn(Tail(plan), t) \subseteq NamesIn(plan, t)
           /\ Head(plan).type = t => Head(plan).pod.name \in NamesIn(plan, t)
<1> DEFINE rest == Tail(plan)
<1>1. /\ Len(plan) \in Nat \ {0} /\ DOMAIN plan = 1 .. Len(plan) /\ DOMAIN rest = 1 .. Len(plan) - 1
      /\ Head(plan) = plan[1]
      /\ \A i \in DOMAIN rest : rest[i] = plan[i + 1]
  BY TailShape
<1> HIDE DEF rest
<1>2. ASSUME NEW n \in NamesIn(rest, t) PROVE n \in NamesIn(plan, t)
  <2>1. PICK i \in DOMAIN rest : rest[i].type = t /\ rest[i].pod.name = n
    BY <1>2, NamesInMember
  <2>2. i + 1 \in DOMAIN plan /\ rest[i] = plan[i + 1]
    BY <1>1
  <2> QED
    BY <2>1, <2>2, NamesInMember
<1>3. Head(plan).type = t => Head(plan).pod.name \in NamesIn(plan, t)
  <2>1. 1 \in DOMAIN plan /\ Head(plan) = plan[1]
    BY <1>1
  <2> QED
    BY <2>1, NamesInMember
<1> QED
  BY <1>2, <1>3 DEF rest

(* An appended pod with a new name.                                        *)
LEMMA AppendPodNames ==
    ASSUME NEW ps \in Seq(HASPodInfo), NEW pod \in HASPodInfo
    PROVE  /\ Names(Append(ps, pod)) = Names(ps) \cup {pod.name}
           /\ Distinct(ps) /\ pod.name \notin Names(ps) => Distinct(Append(ps, pod))
<1> DEFINE qs == Append(ps, pod)
<1>1. /\ Len(ps) \in Nat /\ DOMAIN ps = 1 .. Len(ps) /\ DOMAIN qs = 1 .. Len(ps) + 1
      /\ qs[Len(ps) + 1] = pod
      /\ \A i \in DOMAIN ps : qs[i] = ps[i]
  BY AppendShape
<1> HIDE DEF qs
<1>2. Names(qs) = Names(ps) \cup {pod.name}
  BY <1>1 DEF Names
<1>3. Distinct(ps) /\ pod.name \notin Names(ps) => Distinct(qs)
  BY <1>1 DEF Names, Distinct
<1> QED
  BY <1>2, <1>3 DEF qs

(* A pod with another quota keeps its place and its name.                  *)
LEMMA ResizedNames ==
    ASSUME NEW ps \in Seq(HASPodInfo), NEW i \in 1 .. Len(ps), NEW quota, NEW rps
    PROVE  LET qs == [ps EXCEPT ![i] = Resized(ps[i], quota, rps)]
           IN  /\ Names(qs) = Names(ps)
               /\ Distinct(ps) => Distinct(qs)
               /\ ps # <<>> /\ qs # <<>>
<1> DEFINE qs == [ps EXCEPT ![i] = Resized(ps[i], quota, rps)]
<1>1. DOMAIN qs = DOMAIN ps /\ i \in DOMAIN ps
  OBVIOUS
<1>2. \A k \in DOMAIN ps : qs[k].name = ps[k].name
  BY DEF Resized
<1>3. Names(qs) = Names(ps) /\ (Distinct(ps) => Distinct(qs))
  BY <1>1, <1>2 DEF Names, Distinct
<1>4. ps # <<>> /\ qs # <<>>
  BY <1>1
<1> QED
  BY <1>3, <1>4

(* Sorting moves the pods of a list and leaves their names distinct.       *)
LEMMA PermutedNames ==
    ASSUME NEW ps \in Seq(HASPodInfo), NEW qs \in [DOMAIN ps -> Range(ps)], Range(qs) = Range(ps)
    PROVE  /\ Names(qs) = Names(ps)
           /\ Distinct(ps) => Distinct(qs)
<1>1. Names(qs) = Names(ps)
  <2>1. Names(qs) = {pod.name : pod \in Range(qs)}
    BY DEF Names, Range
  <2>2. Names(ps) = {pod.name : pod \in Range(ps)}
    BY DEF Names, Range
  <2> QED
    BY <2>1, <2>2
<1>2. ASSUME Distinct(ps) PROVE Distinct(qs)
  <2>1. DOMAIN ps = 1 .. Len(ps) /\ Len(ps) \in Nat
    OBVIOUS
  <2>2. IsFiniteSet(DOMAIN ps)
    BY <2>1, FS_Interval
  <2>3. ps \in Bijection(DOMAIN ps, Range(ps))
    <3>1. ps \in [DOMAIN ps -> Range(ps)] /\ \A x \in Range(ps) : \E i \in DOMAIN ps : ps[i] = x
      BY DEF Range
    <3>2. \A i, j \in DOMAIN ps : ps[i] = ps[j] => i = j
      BY <1>2 DEF Distinct
    <3> QED
      BY <3>1, <3>2 DEF Bijection, Injection, IsInjective, Surjection
  <2>4. Cardinality(Range(ps)) = Cardinality(DOMAIN ps)
    BY <2>2, <2>3, FS_Surjection DEF Bijection
  <2>5. qs \in Surjection(DOMAIN ps, Range(ps))
    BY DEF Surjection, Range
  <2>6. qs \in Injection(DOMAIN ps, Range(ps))
    BY <2>2, <2>4, <2>5, FS_Surjection
  <2>7. \A x, y \in Range(ps) : x.name = y.name => x = y
    BY <1>2 DEF Distinct, Range
  <2> QED
    BY <2>6, <2>7 DEF Distinct, Injection, IsInjective
<1> QED
  BY <1>1, <1>2

(* Removing a pod from a list moves those behind it one place forward.     *)
LEMMA RemovedShape ==
    ASSUME NEW ps \in Seq(HASPodInfo), NEW k \in 1 .. Len(ps)
    PROVE  /\ Len(ps) \in Nat /\ DOMAIN ps = 1 .. Len(ps)
           /\ RemoveAt(ps, k) \in Seq(HASPodInfo)
           /\ Len(RemoveAt(ps, k)) = Len(ps) - 1
           /\ DOMAIN RemoveAt(ps, k) = 1 .. Len(ps) - 1
           /\ \A i \in 1 .. Len(ps) - 1 :
                RemoveAt(ps, k)[i] = IF i < k THEN ps[i] ELSE ps[i + 1]
<1> DEFINE a  == SubSeq(ps, 1, k - 1)
           b  == SubSeq(ps, k + 1, Len(ps))
           qs == a \o b
<1>1. /\ a \in Seq(HASPodInfo) /\ Len(a) = k - 1
      /\ \A i \in 1 .. k - 1 : a[i] = ps[i]
  <2>1. k - 1 \in Int /\ \A i \in 1 .. k - 1 : ps[i] \in HASPodInfo
    OBVIOUS
  <2> QED
    BY <2>1, SubSeqProperties
<1>2. /\ b \in Seq(HASPodInfo) /\ Len(b) = Len(ps) - k
      /\ \A i \in 1 .. Len(ps) - k : b[i] = ps[k + i]
  <2>1. k + 1 \in Int /\ Len(ps) \in Int /\ \A i \in k + 1 .. Len(ps) : ps[i] \in HASPodInfo
    OBVIOUS
  <2> QED
    BY <2>1, SubSeqProperties
<1> HIDE DEF a, b
<1>3. /\ qs \in Seq(HASPodInfo) /\ Len(qs) = Len(ps) - 1
      /\ \A i \in 1 .. Len(ps) - 1 : qs[i] = IF i < k THEN ps[i] ELSE ps[i + 1]
  <2>0. Len(ps) \in Nat /\ Len(a) + Len(b) = Len(ps) - 1
    BY <1>1, <1>2, LenProperties
  <2>1. /\ qs \in Seq(HASPodInfo) /\ Len(qs) = Len(ps) - 1
        /\ \A i \in 1 .. Len(ps) - 1 :
             qs[i] = IF i <= Len(a) THEN a[i] ELSE b[i - Len(a)]
    <3>1. /\ qs \in Seq(HASPodInfo) /\ Len(qs) = Len(a) + Len(b)
          /\ \A i \in 1 .. Len(a) + Len(b) :
               qs[i] = IF i <= Len(a) THEN a[i] ELSE b[i - Len(a)]
      BY <1>1, <1>2, ConcatProperties
    <3> QED
      BY <2>0, <3>1
  <2> HIDE DEF qs
  <2>2. ASSUME NEW i \in 1 .. Len(ps) - 1
        PROVE  qs[i] = IF i < k THEN ps[i] ELSE ps[i + 1]
    <3>1. CASE i < k
      BY <1>1, <2>0, <2>1, <3>1
    <3>2. CASE ~(i < k)
      <4>1. i - Len(a) \in 1 .. Len(ps) - k /\ k + (i - Len(a)) = i + 1 /\ ~(i <= Len(a))
        BY <1>1, <2>0, <3>2
      <4> QED
        BY <1>2, <2>1, <3>2, <4>1
    <3> QED
      BY <3>1, <3>2
  <2> QED
    BY <2>1, <2>2
<1>4. RemoveAt(ps, k) = qs
  BY DEF RemoveAt, a, b
<1> HIDE DEF qs
<1>5. DOMAIN qs = 1 .. Len(ps) - 1 /\ DOMAIN ps = 1 .. Len(ps) /\ Len(ps) \in Nat
  BY <1>3
<1> QED
  BY <1>3, <1>4, <1>5

(* Removing one of several pods from a list removes its name, and leaves   *)
(* a list.                                                                 *)
LEMMA RemovedNames ==
    ASSUME NEW ps \in Seq(HASPodInfo), Distinct(ps), NEW k \in 1 .. Len(ps), Len(ps) > 1
    PROVE  /\ Names(RemoveAt(ps, k)) = Names(ps) \ {ps[k].name}
           /\ Distinct(RemoveAt(ps, k))
           /\ RemoveAt(ps, k) # <<>>
<1> DEFINE qs == RemoveAt(ps, k)
<1>1. /\ qs \in Seq(HASPodInfo) /\ Len(qs) = Len(ps) - 1
      /\ \A i \in 1 .. Len(ps) - 1 : qs[i] = IF i < k THEN ps[i] ELSE ps[i + 1]
  BY RemovedShape
<1>2. DOMAIN qs = 1 .. Len(ps) - 1 /\ DOMAIN ps = 1 .. Len(ps) /\ Len(ps) \in Nat
  BY RemovedShape
<1> HIDE DEF qs
<1>3. Names(qs) = Names(ps) \ {ps[k].name}
  <2>1. ASSUME NEW i \in DOMAIN ps, ps[i].name # ps[k].name
        PROVE  ps[i].name \in Names(qs)
    <3>1. CASE i < k
      BY <1>1, <1>2, <3>1 DEF Names
    <3>2. CASE i > k
      <4>1. i - 1 \in DOMAIN qs /\ qs[i - 1] = ps[i]
        BY <1>1, <1>2, <3>2
      <4> QED
        BY <4>1 DEF Names
    <3> QED
      BY <1>2, <2>1, <3>1, <3>2
  <2>2. \A i \in DOMAIN qs : qs[i].name \in Names(ps) /\ qs[i].name # ps[k].name
    BY <1>1, <1>2 DEF Names, Distinct
  <2> QED
    BY <2>1, <2>2 DEF Names
<1>4. Distinct(qs)
  BY <1>1, <1>2 DEF Distinct
<1>5. qs # <<>>
  BY <1>1
<1> QED
  BY <1>3, <1>4, <1>5 DEF qs

-----------------------------------------------------------------------------
(* A generated name is of its function, and no FaSTPod has it.             *)
LEMMA FreshNameIsNew ==
    ASSUME NEW f, NEW n \in FreshName(f)
    PROVE  FuncOf(n) = f /\ n \notin DOMAIN fastPod
<1>1. n \notin NamesInUse /\ \E k : n = RealName(f, k)
  BY DEF FreshName
<1>2. DOMAIN fastPod \subseteq NamesInUse
  BY DEF NamesInUse
<1> QED
  BY <1>1, <1>2 DEF RealName, FuncOf

(* The steps that write the cluster; every other step leaves it alone.     *)
LEMMA ClusterWriters ==
    ASSUME [Next]_vars
    PROVE  \/ funcs' = funcs /\ fastPod' = fastPod
           \/ InitPod \/ ApplyDelete \/ ApplyUpdate \/ ApplyCreate
           \/ DeleteFunc \/ AddFunc \/ Collect
<1> USE DEF clusterVars
<1>1. CASE InitialiseStep
  BY <1>1 DEF InitialiseStep, InitCheckFails, InitCheckFindsNone, InitCheckFindsPods, AdoptPod,
              AdoptEnds, InitPodPanics
<1>2. CASE ObserveStep
  BY <1>2, Zenon DEF ObserveStep, QueryFails, Query, QueryForNothing, CheckGivesUp, CheckFindsPods,
              ConvertPod, ConvertEnds, Decide, NoScaling
<1>3. CASE Autoscale
  BY <1>3 DEF Autoscale
<1>4. CASE ApplyStep
  BY <1>4 DEF ApplyStep, ApplyUpdateUntracked, ApplyCreateRefused, ApplyLookup, ApplyRest, ApplyEnds
<1>5. CASE Tick \/ TickEnds \/ VisitNew \/ VisitKnown \/ Start \/ RestartAfterPanic
  BY <1>5 DEF Tick, TickEnds, VisitNew, VisitKnown, Start, getGPUDeviceTopology, RestartAfterPanic
<1>6. CASE Crash \/ CooldownExpires
  BY <1>6 DEF Crash, CooldownExpires
<1>7. CASE UNCHANGED vars
  BY <1>7 DEF vars
<1> QED
  BY <1>1, <1>2, <1>3, <1>4, <1>5, <1>6, <1>7 DEF Next, ControllerStep, EnvStep

(* No call makes infinitely many FaSTPods.                                 *)
LEMMA FinitelyManyStep == FinitelyMany /\ [Next]_vars => FinitelyMany'
<1> SUFFICES ASSUME FinitelyMany, [Next]_vars PROVE FinitelyMany'
  OBVIOUS
<1>1. IsFiniteSet(DOMAIN fastPod)
  BY DEF FinitelyMany
<1>2. \A n : IsFiniteSet(DOMAIN fastPod \cup {n}) /\ IsFiniteSet(DOMAIN fastPod \ {n})
  BY <1>1, FS_AddElement, FS_RemoveElement
<1>3. \/ DOMAIN fastPod' = DOMAIN fastPod
      \/ \E n : DOMAIN fastPod' \in {DOMAIN fastPod \cup {n}, DOMAIN fastPod \ {n}}
  <2>1. CASE InitPod \/ ApplyCreate
    <3>1. \E n, o, pod : fastPod' = AfterCreate(o, n, pod)
      BY <2>1 DEF InitPod, configs2FaSTPods, ApplyCreate
    <3> QED
      BY <3>1 DEF AfterCreate, Put
  <2>2. CASE ApplyDelete
    <3>1. \/ fastPod' = fastPod
          \/ \E o : fastPod' = AfterDelete(o, Target.name)
      BY <2>2 DEF ApplyDelete
    <3> QED
      BY <3>1 DEF AfterDelete, Drop
  <2>3. CASE ApplyUpdate
    <3>1. \E o, quota : fastPod' = AfterUpdate(o, Target.name, quota)
      BY <2>3 DEF ApplyUpdate
    <3> QED
      BY <3>1 DEF AfterUpdate
  <2>5. CASE DeleteFunc \/ AddFunc \/ Collect
    BY <2>5 DEF DeleteFunc, AddFunc, Collect, Drop
  <2> QED
    BY <2>1, <2>2, <2>3, <2>5, ClusterWriters
<1> QED
  BY <1>1, <1>2, <1>3 DEF FinitelyMany

(* Only listed or created FaSTPods of a function enter its list.           *)
LEMMA OwnFaSTPodsStep == TypeOK /\ OwnFaSTPods /\ [Next]_vars => OwnFaSTPods'
<1> SUFFICES ASSUME TypeOK, OwnFaSTPods, [Next]_vars PROVE OwnFaSTPods'
  OBVIOUS
<1> USE DEF OwnFaSTPods, memoryVars, Forget, NextFunction, LoseMemory, ApplyRest
<1>0. fastPods \in [Func -> SUBSET Name]
  BY DEF TypeOK
<1>1. CASE fastPods' = fastPods
  BY <1>1
<1>2. CASE InitCheckFindsPods \/ CheckFindsPods
  BY <1>0, <1>2 DEF InitCheckFindsPods, CheckFindsPods, PodsOf
<1>3. CASE ApplyDelete
  BY <1>0, <1>3 DEF ApplyDelete
<1>4. CASE ApplyCreate
  <2>1. PICK n \in FreshName(cur) :
          fastPods' \in {fastPods, [fastPods EXCEPT ![cur] = @ \cup {n}]}
    BY <1>4 DEF ApplyCreate, configs2FaSTPods
  <2> QED
    BY <1>0, <2>1, FreshNameIsNew
<1>5. CASE RestartAfterPanic \/ Crash
  BY <1>5 DEF RestartAfterPanic, Crash
<1>6. CASE InitialiseStep
  BY <1>1, <1>2, <1>6 DEF InitialiseStep, InitCheckFails, InitCheckFindsNone, AdoptPod, AdoptEnds,
              InitPod, InitPodPanics
<1>7. CASE ObserveStep
  <2>1. CheckFindsPods \/ fastPods' = fastPods
    BY <1>7, Zenon DEF ObserveStep, QueryFails, Query, QueryForNothing, CheckGivesUp,
                       ConvertPod, ConvertEnds, Decide, NoScaling
  <2> QED
    BY <1>1, <1>2, <2>1
<1>8. CASE Autoscale
  BY <1>1, <1>8 DEF Autoscale
<1>9. CASE ApplyStep
  BY <1>1, <1>3, <1>4, <1>9 DEF ApplyStep, ApplyUpdateUntracked, ApplyUpdate, ApplyCreateRefused,
              ApplyLookup, ApplyEnds
<1>10. CASE Tick \/ TickEnds \/ VisitNew \/ VisitKnown \/ Start
  BY <1>1, <1>10 DEF Tick, TickEnds, VisitNew, VisitKnown, Start, getGPUDeviceTopology
<1>11. CASE DeleteFunc \/ AddFunc \/ Collect \/ CooldownExpires \/ UNCHANGED vars
  BY <1>1, <1>11 DEF DeleteFunc, AddFunc, Collect, CooldownExpires, vars
<1> QED
  BY <1>5, <1>6, <1>7, <1>8, <1>9, <1>10, <1>11 DEF Next, ControllerStep, EnvStep

-----------------------------------------------------------------------------
(* Nothing can be wrong with an empty list and an empty plan.              *)
LEMMA NothingPlanned ==
    ASSUME pods' = <<>>, actions' = <<>>, pc' # "convert"
    PROVE  PlanInv'
<1>1. Listed' = {} /\ PlannedDeletes' = {} /\ PlannedCreates' = {}
  BY DEF Listed, Names, PlannedDeletes, PlannedCreates, NamesIn
<1>2. ListedOnce'
  BY DEF ListedOnce, Distinct
<1> QED
  BY <1>1, <1>2 DEF PlanInv, KeptOrDeleted, SomeKept, OneDirection, MadeAnew, ListIsRight

(* All steps outside one function's list and plan leave both empty.        *)
LEMMA NothingPlannedSteps ==
    ASSUME MadeAnew,
           \/ Start \/ RestartAfterPanic \/ Crash \/ Tick \/ TickEnds \/ VisitNew \/ VisitKnown
           \/ InitialiseStep \/ QueryFails \/ Query \/ QueryForNothing \/ CheckGivesUp
           \/ NoScaling \/ ApplyEnds
    PROVE  PlanInv'
<1> USE DEF Forget, NextFunction, LoseMemory, localVars, MadeAnew, BeforeList
<1>1. CASE Start \/ Tick \/ TickEnds \/ VisitNew \/ VisitKnown \/ Query
  BY <1>1, NothingPlanned DEF Start, getGPUDeviceTopology, Tick, TickEnds, VisitNew, VisitKnown, Query
<1>2. CASE InitialiseStep
  BY <1>2, NothingPlanned DEF InitialiseStep, InitCheckFails, InitCheckFindsNone,
     InitCheckFindsPods, AdoptPod, AdoptEnds, InitPod, InitPodPanics, AfterInit
<1>3. CASE RestartAfterPanic \/ Crash \/ QueryFails \/ QueryForNothing \/ CheckGivesUp
           \/ NoScaling \/ ApplyEnds
  BY <1>3, NothingPlanned DEF RestartAfterPanic, Crash, QueryFails, QueryForNothing,
     CheckGivesUp, NoScaling, ApplyEnds
<1> QED
  BY <1>1, <1>2, <1>3

(* Listing the FaSTPods of a function, converting them one by one, and     *)
(* deciding what to do with them.                                          *)
LEMMA ListSteps ==
    ASSUME TypeOK, PlanInv, CheckFindsPods \/ ConvertPod \/ ConvertEnds
    PROVE  PlanInv'
<1> USE DEF MadeAnew, BeforeList, localVars, memoryVars, clusterVars
<1>0. /\ pods \in Seq(HASPodInfo) /\ MadeAnew /\ OneDirection
      /\ Distinct(pods) /\ Listed \cap PlannedDeletes = {}
  BY DEF TypeOK, PlanInv, ListedOnce, KeptOrDeleted
<1>1. CASE CheckFindsPods
  <2>1. pods = <<>> /\ actions = <<>> /\ pods' = pods /\ actions' = actions
    BY <1>0, <1>1 DEF CheckFindsPods
  <2>2. Listed' = {} /\ PlannedDeletes' = {} /\ PlannedCreates' = {} /\ ListedOnce'
    BY <2>1 DEF Listed, Names, PlannedDeletes, PlannedCreates, NamesIn, ListedOnce, Distinct
  <2>3. pc' = "convert" /\ unread' = PodsOf(cur)'
    BY <1>1 DEF CheckFindsPods, PodsOf
  <2> QED
    BY <2>1, <2>2, <2>3 DEF PlanInv, KeptOrDeleted, SomeKept, OneDirection, ListIsRight
<1>2. CASE ConvertPod
  <2>1. PICK n \in unread, cap \in Nat :
          /\ pods' = Append(pods, PodInfoOf(n, cap))
          /\ unread' = unread \ {n}
    BY <1>2, RappType DEF ConvertPod
  <2>2. PodInfoOf(n, cap) \in HASPodInfo /\ PodInfoOf(n, cap).name = n
    <3>1. n \in Name /\ fastPod[n] \in FaSTPod
      BY DEF TypeOK, IsMapOf
    <3> QED
      BY <3>1, ReadQuotaType DEF PodInfoOf, FaSTPod, HASPodInfo
  <2>3. /\ pc = "convert" /\ pc' = pc /\ actions = <<>> /\ actions' = actions
        /\ PodsOf(cur)' = PodsOf(cur)
    BY <1>0, <1>2 DEF ConvertPod, PodsOf
  <2>4. Listed \cup unread = PodsOf(cur) /\ Listed \cap unread = {}
    BY <2>3 DEF PlanInv, ListIsRight
  <2>5. Listed' = Listed \cup {n} /\ ListedOnce'
    BY <1>0, <2>1, <2>2, <2>4, AppendPodNames DEF Listed, ListedOnce
  <2>6. PlannedDeletes' = {} /\ PlannedCreates' = {}
    BY <2>3 DEF PlannedDeletes, PlannedCreates, NamesIn
  <2> QED
    BY <2>1, <2>3, <2>4, <2>5, <2>6 DEF PlanInv, KeptOrDeleted, SomeKept, OneDirection,
       ListIsRight
<1>3. CASE ConvertEnds
  <2>1. /\ pc = "convert" /\ pc' = "decide" /\ unread = {} /\ actions = <<>>
        /\ pods' = pods /\ actions' = actions /\ PodsOf(cur)' = PodsOf(cur)
    BY <1>0, <1>3 DEF ConvertEnds, PodsOf
  <2>2. /\ Listed = PodsOf(cur)
        /\ Listed' = Listed /\ PlannedDeletes' = PlannedDeletes /\ ListedOnce'
        /\ PlannedCreates' = PlannedCreates
    BY <1>0, <2>1 DEF PlanInv, ListIsRight, Listed, PlannedDeletes, PlannedCreates, ListedOnce
  <2>3. SomeKept'
    BY <2>1 DEF SomeKept, PlannedDeletes, NamesIn
  <2> QED
    BY <1>0, <2>1, <2>2, <2>3 DEF PlanInv, KeptOrDeleted, OneDirection, ListIsRight
<1> QED
  BY <1>1, <1>2, <1>3

(* The second check has just found FaSTPods of the function, so what was   *)
(* listed of it is still there; sorting changes no name.                   *)
LEMMA DecideStep ==
    ASSUME TypeOK, PlanInv, Decide
    PROVE  PlanInv'
<1>1. /\ pods \in Seq(HASPodInfo) /\ pods' \in [DOMAIN pods -> Range(pods)]
      /\ Range(pods') = Range(pods)
      /\ pc = "decide" /\ pc' \in {"vertical", "shrink"} /\ PodsOf(cur) # {}
      /\ UNCHANGED <<fastPod, funcs, cur, actions>>
  <2>1. CASE BeginScaleUp
    BY <2>1 DEF Decide, BeginScaleUp, SortedBy, TypeOK, clusterVars
  <2>2. CASE BeginScaleDown
    BY <2>2 DEF Decide, BeginScaleDown, SortedBy, TypeOK, clusterVars
  <2> QED
    BY <2>1, <2>2 DEF Decide
<1>2. Distinct(pods) /\ actions = <<>>
  BY <1>1 DEF PlanInv, ListedOnce, MadeAnew
<1>3. Listed' = Listed /\ ListedOnce'
  BY <1>1, <1>2, PermutedNames DEF Listed, ListedOnce
<1>4. PlannedDeletes' = {} /\ PlannedCreates' = {}
  BY <1>1, <1>2 DEF PlannedDeletes, PlannedCreates, NamesIn
<1>5. cur' \in funcs' => Listed' \subseteq PodsOf(cur)'
  BY <1>1, <1>3 DEF PlanInv, ListIsRight, PodsOf
<1> QED
  BY <1>1, <1>3, <1>4, <1>5 DEF PlanInv, KeptOrDeleted, SomeKept, OneDirection, MadeAnew,
     BeforeList, ListIsRight

(* A step that leaves the list and the plan alone, and does not make them  *)
(* anew, needs only the list to be right.                                  *)
LEMMA SamePlan ==
    ASSUME PlanInv, UNCHANGED <<pods, actions>>, MadeAnew', ListIsRight',
           pc' \in {"vertical", "horizontal", "fallback"} => PlannedDeletes = {},
           pc' \in {"shrink", "evict", "clean"} => PlannedCreates = {}
    PROVE  PlanInv'
<1>1. /\ Listed' = Listed /\ PlannedDeletes' = PlannedDeletes
      /\ PlannedCreates' = PlannedCreates /\ ListedOnce'
  BY DEF PlanInv, Listed, PlannedDeletes, PlannedCreates, ListedOnce
<1> QED
  BY <1>1 DEF PlanInv, KeptOrDeleted, SomeKept, OneDirection

(* What an action appended to the plan adds to it.                         *)
LEMMA PlannedNames ==
    ASSUME TypeOK, NEW t, NEW pod,
           actions' = Append(actions, Act(t, pod))
    PROVE  /\ PlannedDeletes' = IF t = -1 THEN PlannedDeletes \cup {pod.name} ELSE PlannedDeletes
           /\ PlannedCreates' = IF t = 1 THEN PlannedCreates \cup {pod.name} ELSE PlannedCreates
<1>1. actions \in Seq(HASAction) /\ Act(t, pod).type = t /\ Act(t, pod).pod = pod
  BY DEF TypeOK, Act
<1>2. \A k : NamesIn(actions', k)
               = IF t = k THEN NamesIn(actions, k) \cup {pod.name} ELSE NamesIn(actions, k)
  BY <1>1, AppendNames
<1> QED
  BY <1>2 DEF PlannedDeletes, PlannedCreates

(* Scale-up plans no deletion, and keeps the names on the list.            *)
LEMMA ScaleUpSteps ==
    ASSUME TypeOK, PlanInv,
           \/ VerticalScale \/ VerticalPanics \/ VerticalDone \/ HorizontalScale \/ HorizontalSkip
           \/ HorizontalDone \/ NewGPUPanics \/ NoNewGPU \/ Fallback \/ FallbackFindsNothing
    PROVE  PlanInv'
<1> DEFINE pcs == {"vertical", "horizontal", "fallback"}
<1>0. /\ pc \in pcs /\ pc' \in pcs \cup {"apply", "panicRow", "panicConfig"}
      /\ PlannedDeletes = {}
  <2>1. pc \in pcs /\ pc' \in pcs \cup {"apply", "panicRow", "panicConfig"}
    BY DEF VerticalScale, VerticalPanics, VerticalDone, HorizontalScale, HorizontalSkip,
           HorizontalDone, NoUsedGPULeft, NewGPUPanics, NoNewGPU, Fallback, FallbackFindsNothing
  <2> QED
    BY <2>1 DEF PlanInv, OneDirection
<1>1. ASSUME PlannedDeletes' = {}, ListedOnce' PROVE PlanInv'
  BY <1>0, <1>1 DEF PlanInv, KeptOrDeleted, SomeKept, OneDirection, MadeAnew, BeforeList,
     ListIsRight
<1>2. CASE UNCHANGED <<pods, actions>>
  BY <1>0, <1>1, <1>2 DEF PlannedDeletes, ListedOnce, PlanInv
<1>3. CASE VerticalScale
  <2> DEFINE pod   == pods[idx]
             new(n, c) == Resized(pod, pod.quota + DeltaIq * n, c)
  <2>1. PICK n \in 0 .. 100 \div DeltaIq :
          \E cap \in CapRaised(pod, n) :
             /\ pods' = [pods EXCEPT ![idx] = new(n, cap)]
             /\ actions' = Append(actions, Act(0, new(n, cap)))
    BY <1>3 DEF VerticalScale
  <2>2. PICK cap \in CapRaised(pod, n) :
          /\ pods' = [pods EXCEPT ![idx] = new(n, cap)]
          /\ actions' = Append(actions, Act(0, new(n, cap)))
    BY <2>1
  <2>3. idx <= Len(pods)
    BY <1>3 DEF VerticalScale
  <2>4. idx \in 1 .. Len(pods) /\ pods \in Seq(HASPodInfo)
    BY <2>3, ListedPodType DEF TypeOK
  <2>7. Distinct(pods) => Distinct([pods EXCEPT ![idx] = new(n, cap)])
    BY <2>4, ResizedNames
  <2> HIDE DEF new, pod
  <2>8. PlannedDeletes' = PlannedDeletes
    BY <2>2, PlannedNames
  <2>9. ListedOnce'
    BY <2>2, <2>7 DEF PlanInv, ListedOnce
  <2> QED
    BY <1>0, <1>1, <2>8, <2>9
<1>4. CASE HorizontalScale \/ Fallback
  <2>1. \E gpus, g, sm, quota, rps : PlanPod(gpus, g, sm, quota, rps)
    BY <1>4 DEF HorizontalScale, Fallback
  <2>2. PICK pod : actions' = Append(actions, Act(1, pod))
    BY <2>1 DEF PlanPod
  <2>3. PlannedDeletes' = PlannedDeletes
    BY <2>2, PlannedNames
  <2>4. ListedOnce'
    BY <1>4 DEF HorizontalScale, Fallback, PlanInv, ListedOnce
  <2> QED
    BY <1>0, <1>1, <2>3, <2>4
<1>5. VerticalScale \/ HorizontalScale \/ Fallback \/ UNCHANGED <<pods, actions>>
  BY DEF VerticalPanics, VerticalDone, HorizontalSkip, HorizontalDone, NewGPUPanics, NoNewGPU,
         FallbackFindsNothing, localVars
<1> QED
  BY <1>2, <1>3, <1>4, <1>5

(* The first pass of scale-down changes no name on the list, and plans no  *)
(* deletion.                                                               *)
LEMMA ShrinkStep ==
    ASSUME TypeOK, PlanInv, ShrinkPod, UNCHANGED clusterVars
    PROVE  PlanInv'
<1> DEFINE pod == pods[idx]
           new(n, c) == Resized(pod, pod.quota - DeltaIq * n, c)
<1>1. PICK n \in 1 .. pod.quota \div DeltaIq :
        \E cap \in CapLowered(pod, n) :
           /\ pods' = [pods EXCEPT ![idx] = new(n, cap)]
           /\ actions' = Append(actions, Act(0, new(n, cap)))
  BY DEF ShrinkPod
<1>2. PICK cap \in CapLowered(pod, n) :
        /\ pods' = [pods EXCEPT ![idx] = new(n, cap)]
        /\ actions' = Append(actions, Act(0, new(n, cap)))
  BY <1>1
<1>3. /\ pc = "shrink" /\ pc' = pc /\ cur' = cur /\ fastPod' = fastPod /\ funcs' = funcs
      /\ idx <= Len(pods)
  BY DEF ShrinkPod, clusterVars
<1>4. idx \in 1 .. Len(pods) /\ pods \in Seq(HASPodInfo)
  BY <1>3, ListedPodType DEF TypeOK
<1>5. /\ Names([pods EXCEPT ![idx] = new(n, cap)]) = Names(pods)
      /\ Distinct(pods) => Distinct([pods EXCEPT ![idx] = new(n, cap)])
      /\ [pods EXCEPT ![idx] = new(n, cap)] # <<>>
  BY <1>4, ResizedNames
<1> HIDE DEF new, pod
<1>6. Listed' = Listed /\ ListedOnce' /\ pods' # <<>>
  BY <1>2, <1>5 DEF PlanInv, ListedOnce, Listed
<1>7. PlannedDeletes' = PlannedDeletes /\ PlannedCreates' = PlannedCreates
  BY <1>2, PlannedNames
<1>8. PodsOf(cur)' = PodsOf(cur)
  BY <1>3 DEF PodsOf
<1> QED
  BY <1>3, <1>6, <1>7, <1>8 DEF PlanInv, KeptOrDeleted, SomeKept, OneDirection, MadeAnew,
     BeforeList, ListIsRight

(* The second pass moves one of several pods from the list to the plan.    *)
LEMMA EvictStep ==
    ASSUME TypeOK, PlanInv, EvictPod, UNCHANGED clusterVars
    PROVE  PlanInv'
<1> DEFINE pod == pods[idx]
<1>1. /\ pc = "evict" /\ pc' = pc /\ cur' = cur /\ fastPod' = fastPod /\ funcs' = funcs
      /\ Len(pods) > 1 /\ idx <= Len(pods)
      /\ pods' = RemoveAt(pods, idx)
      /\ actions' = Append(actions, Act(-1, pod))
  BY DEF EvictPod, MayEvict, clusterVars
<1>2. idx \in 1 .. Len(pods) /\ pods \in Seq(HASPodInfo) /\ Distinct(pods)
  BY <1>1, ListedPodType DEF TypeOK, PlanInv, ListedOnce
<1>3. Listed' = Listed \ {pod.name} /\ ListedOnce' /\ pods' # <<>>
  BY <1>1, <1>2, RemovedNames DEF Listed, ListedOnce
<1>4. PlannedDeletes' = PlannedDeletes \cup {pod.name} /\ PlannedCreates' = PlannedCreates
  BY <1>1, PlannedNames
<1>5. PodsOf(cur)' = PodsOf(cur)
  BY <1>1 DEF PodsOf
<1> QED
  BY <1>1, <1>3, <1>4, <1>5 DEF PlanInv, KeptOrDeleted, SomeKept, OneDirection, MadeAnew,
     BeforeList, ListIsRight

(* Scale-down keeps a pod for every one it deletes.                        *)
LEMMA ScaleDownSteps ==
    ASSUME TypeOK, PlanInv, UNCHANGED clusterVars,
           \/ ShrinkPod \/ ShrinkSkip \/ ShrinkDone
           \/ EvictPod \/ EvictSkip \/ EvictDone \/ CleanUp
    PROVE  PlanInv'
<1>1. CASE ShrinkPod
  BY <1>1, ShrinkStep
<1>2. CASE EvictPod
  BY <1>2, EvictStep
<1>3. CASE ShrinkSkip \/ ShrinkDone \/ EvictSkip \/ EvictDone \/ CleanUp
  <2>1. /\ pc \in {"shrink", "evict", "clean"} /\ pc' \in {"shrink", "evict", "clean", "apply"}
        /\ cur' = cur /\ UNCHANGED <<pods, actions>>
    BY <1>3 DEF ShrinkSkip, ShrinkDone, EvictSkip, EvictDone, CleanUp, localVars
  <2>2. PodsOf(cur)' = PodsOf(cur) /\ funcs' = funcs /\ Listed' = Listed
    BY <2>1 DEF clusterVars, PodsOf, Listed
  <2>3. MadeAnew' /\ ListIsRight' /\ PlannedCreates = {}
    BY <2>1, <2>2 DEF PlanInv, MadeAnew, BeforeList, ListIsRight, OneDirection
  <2> QED
    BY <2>1, <2>3, SamePlan
<1> QED
  BY <1>1, <1>2, <1>3

(* A call takes one action off the plan; deletions go on only among the    *)
(* names that are planned to be deleted, creations only without deletions. *)
LEMMA ApplySteps ==
    ASSUME TypeOK, IInv,
           \/ ApplyDelete \/ ApplyUpdateUntracked \/ ApplyUpdate
           \/ ApplyCreateRefused \/ ApplyCreate
    PROVE  PlanInv'
<1>1. /\ pc \in {"apply", "create"} /\ pc' = "apply" /\ cur' = cur /\ funcs' = funcs
      /\ pods' = pods /\ actions # <<>> /\ actions' = Tail(actions)
  BY DEF ApplyDelete, ApplyUpdateUntracked, ApplyUpdate, ApplyCreateRefused, ApplyCreate, configs2FaSTPods,
         Planned, HeadIs, NextAction, ApplyRest
<1>2. /\ PlannedDeletes' \subseteq PlannedDeletes /\ PlannedCreates' \subseteq PlannedCreates
      /\ Head(actions).type = -1 => Target.name \in PlannedDeletes
      /\ Head(actions).type = 1 => Target.name \in PlannedCreates
  <2>1. actions \in Seq(HASAction)
    BY DEF TypeOK
  <2> QED
    BY <1>1, <2>1, TailNames DEF PlannedDeletes, PlannedCreates, Target
<1>3. Listed' = Listed /\ ListedOnce' /\ Listed \cap PlannedDeletes = {}
  BY <1>1 DEF IInv, PlanInv, Listed, ListedOnce, KeptOrDeleted
<1>4. cur' \in funcs' => Listed' \subseteq PodsOf(cur)' \/ PlannedDeletes' \cap PodsOf(cur)' = {}
  <2>0. cur \in funcs => Listed \subseteq PodsOf(cur) \/ PlannedDeletes \cap PodsOf(cur) = {}
    BY <1>1 DEF IInv, PlanInv, ListIsRight
  <2>1. CASE PodsOf(cur)' = PodsOf(cur)
    BY <1>1, <1>2, <1>3, <2>0, <2>1
  <2>2. CASE ApplyDelete
    <3>1. \/ fastPod' = fastPod
          \/ \E o : fastPod' = AfterDelete(o, Target.name)
      BY <2>2 DEF ApplyDelete
    <3>2. PodsOf(cur)' \in {PodsOf(cur), PodsOf(cur) \ {Target.name}}
      BY <1>1, <3>1 DEF AfterDelete, Drop, PodsOf
    <3>3. Target.name \notin Listed
      BY <1>2, <1>3, <2>2 DEF ApplyDelete, Planned, HeadIs
    <3> QED
      BY <1>1, <1>2, <1>3, <2>0, <3>2, <3>3
  <2>3. CASE ApplyUpdate
    <3>1. \E o, quota : fastPod' = AfterUpdate(o, Target.name, quota)
      BY <2>3 DEF ApplyUpdate
    <3>2. PodsOf(cur)' = PodsOf(cur)
      BY <1>1, <3>1 DEF AfterUpdate, PodsOf
    <3> QED
      BY <2>1, <3>2
  <2>4. CASE ApplyCreate
    BY <1>2, <2>4 DEF ApplyCreate, configs2FaSTPods, HeadIs, IInv, PlanInv, OneDirection
  <2>5. CASE ApplyUpdateUntracked \/ ApplyCreateRefused
    BY <1>1, <2>1, <2>5 DEF ApplyUpdateUntracked, ApplyCreateRefused, PodsOf
  <2> QED
    BY <2>2, <2>3, <2>4, <2>5
<1> QED
  BY <1>1, <1>2, <1>3, <1>4 DEF IInv, PlanInv, KeptOrDeleted, SomeKept, OneDirection, MadeAnew,
     BeforeList, ListIsRight

(* A lookup changes neither the list nor the plan.                         *)
LEMMA LookupStep ==
    ASSUME PlanInv, ApplyLookup
    PROVE  PlanInv'
<1>1. UNCHANGED <<pods, actions, cur, funcs, fastPod>> /\ pc = "apply" /\ pc' = "create"
  BY DEF ApplyLookup, Planned, localVars, clusterVars
<1>2. ListIsRight'
  BY <1>1 DEF PlanInv, ListIsRight, Listed, PlannedDeletes, PodsOf
<1> QED
  BY <1>1, <1>2, SamePlan DEF PlanInv, MadeAnew, BeforeList

(* What the surroundings do while the goroutine waits: the list is right   *)
(* about a function that exists, unless it was deleted and made again.     *)
LEMMA EnvSteps ==
    ASSUME PlanInv,
           DeleteFunc \/ AddFunc \/ Collect \/ CooldownExpires \/ UNCHANGED vars
    PROVE  PlanInv'
<1> USE DEF scalerVars, localVars, clusterVars, memoryVars
<1>1. UNCHANGED <<pods, actions, pc, cur, unread>>
  BY DEF DeleteFunc, AddFunc, Collect, CooldownExpires, vars
<1>2. /\ Listed' = Listed /\ PlannedDeletes' = PlannedDeletes /\ PlannedCreates' = PlannedCreates
      /\ MadeAnew'
  BY <1>1 DEF Listed, PlannedDeletes, PlannedCreates, PlanInv, MadeAnew
<1>3. ListIsRight'
  <2>0. ListIsRight
    BY DEF PlanInv
  <2>1. CASE UNCHANGED <<funcs, fastPod>>
    BY <1>1, <1>2, <2>0, <2>1 DEF ListIsRight, PodsOf
  <2>2. CASE DeleteFunc \/ AddFunc \/ Collect
    <3>1. pc \notin LocalPCs
      BY <2>2 DEF DeleteFunc, AddFunc, Collect, EnvMayMove
    <3>2. cur \in funcs' => \/ cur \in funcs /\ PodsOf(cur)' = PodsOf(cur)
                            \/ PodsOf(cur)' = {}
      <4>1. CASE DeleteFunc
        BY <1>1, <4>1 DEF DeleteFunc, PodsOf
      <4>2. CASE AddFunc
        BY <1>1, <4>2 DEF AddFunc, PodsOf
      <4>3. CASE Collect
        BY <1>1, <4>3 DEF Collect, PodsOf, Drop
      <4> QED
        BY <2>2, <4>1, <4>2, <4>3
    <3> QED
      BY <1>1, <1>2, <2>0, <3>1, <3>2 DEF ListIsRight, LocalPCs
  <2>3. CASE CooldownExpires \/ UNCHANGED vars
    BY <2>1, <2>3 DEF CooldownExpires, vars
  <2> QED
    BY <2>2, <2>3
<1> QED
  BY <1>1, <1>2, <1>3, SamePlan DEF PlanInv, OneDirection

LEMMA PlanInvStep ==
    ASSUME TypeOK, IInv, [Next]_vars
    PROVE  PlanInv'
<1>0. PlanInv /\ MadeAnew
  BY DEF IInv, PlanInv
<1>1. CASE Start \/ RestartAfterPanic \/ Tick \/ TickEnds \/ VisitNew \/ VisitKnown
           \/ InitialiseStep \/ Crash
  BY <1>0, <1>1, NothingPlannedSteps
<1>2. CASE ObserveStep
  BY <1>0, <1>2, NothingPlannedSteps, ListSteps, DecideStep DEF ObserveStep
<1>3. CASE Autoscale
  <2>1. AutoscaleStep /\ UNCHANGED clusterVars
    BY <1>3 DEF Autoscale
  <2> QED
    BY <1>0, <2>1, ScaleUpSteps, ScaleDownSteps DEF AutoscaleStep
<1>4. CASE ApplyStep
  BY <1>0, <1>4, NothingPlannedSteps, ApplySteps, LookupStep DEF ApplyStep
<1>5. CASE DeleteFunc \/ AddFunc \/ Collect \/ CooldownExpires \/ UNCHANGED vars
  BY <1>0, <1>5, EnvSteps
<1> QED
  BY <1>1, <1>2, <1>3, <1>4, <1>5 DEF Next, ControllerStep, EnvStep

LEMMA IInvInit == Init => IInv
<1> SUFFICES ASSUME Init PROVE IInv
  OBVIOUS
<1>1. Listed = {} /\ PlannedDeletes = {} /\ PlannedCreates = {} /\ ListedOnce
  BY DEF Init, Listed, Names, PlannedDeletes, PlannedCreates, NamesIn, ListedOnce, Distinct
<1>2. DOMAIN fastPod = {}
  BY DEF Init, EmptyMap
<1>3. FinitelyMany
  BY <1>2, FS_EmptySet DEF FinitelyMany
<1>4. PlanInv
  BY <1>1 DEF Init, PlanInv, KeptOrDeleted, SomeKept, OneDirection, MadeAnew, ListIsRight
<1> QED
  BY <1>3, <1>4 DEF Init, IInv, OwnFaSTPods

(* What is listed and planned is right about the cluster, in every state.  *)
THEOREM PlansAreRight == Spec => []IInv
<1>1. TypeOK /\ IInv /\ [Next]_vars => IInv'
  BY PlanInvStep, FinitelyManyStep, OwnFaSTPodsStep DEF IInv
<1> QED
  BY <1>1, IInvInit, TypeCorrect, PTL DEF Spec


-----------------------------------------------------------------------------
(* The things that can happen to the cluster, and to the grant to create.  *)
Granted == IF pc = "create" THEN {cur} ELSE {}

Nothing == funcs' = funcs /\ DOMAIN fastPod' = DOMAIN fastPod /\ Granted' = Granted

Found(f) ==
    /\ f \in funcs \ Granted
    /\ Granted' = Granted \cup {f}
    /\ funcs' = funcs /\ DOMAIN fastPod' = DOMAIN fastPod

Unused(f) ==
    /\ f \in Func \cap Granted
    /\ Granted' = Granted \ {f}
    /\ funcs' = funcs /\ DOMAIN fastPod' = DOMAIN fastPod

Created(n) ==
    /\ n \notin DOMAIN fastPod /\ FuncOf(n) \in Func
    /\ FuncOf(n) \in Granted \/ PodsOf(FuncOf(n)) = {}
    /\ DOMAIN fastPod' = DOMAIN fastPod \cup {n}
    /\ funcs' = funcs /\ Granted' = Granted \ {FuncOf(n)}

Removed(n) ==
    /\ n \in DOMAIN fastPod /\ FuncOf(n) \in Func
    /\ FuncOf(n) \in funcs => PodsOf(FuncOf(n)) # {n}
    /\ DOMAIN fastPod' = DOMAIN fastPod \ {n}
    /\ funcs' = funcs /\ Granted' = Granted

Unwanted(f) ==
    /\ f \in funcs /\ funcs' = funcs \ {f}
    /\ fastPod' = fastPod /\ Granted' = Granted

WantedAgain(f) ==
    /\ f \in Func \ funcs /\ PodsOf(f) = {}
    /\ funcs' = funcs \cup {f}
    /\ fastPod' = fastPod /\ Granted' = Granted

(* Only a lookup grants, and only the create or a crash uses the grant up. *)
LEMMA GrantWriters ==
    ASSUME [Next]_vars
    PROVE  Granted' = Granted \/ ApplyLookup \/ ApplyCreate \/ Crash
<1> USE DEF NextFunction, scalerVars
<1>1. CASE pc # "create" /\ pc' # "create"
  BY <1>1 DEF Granted
<1>2. CASE pc' = pc /\ cur' = cur
  BY <1>2 DEF Granted
<1>3. CASE InitialiseStep
  BY <1>1, <1>3 DEF InitialiseStep, InitCheckFails, InitCheckFindsNone, InitCheckFindsPods, AdoptPod,
                    AdoptEnds, InitPod, InitPodPanics, AfterInit
<1>4. CASE ObserveStep
  <2>1. pc # "create" /\ pc' # "create"
    BY <1>4, Zenon DEF ObserveStep, QueryFails, Query, QueryForNothing, CheckGivesUp,
       CheckFindsPods, ConvertPod, ConvertEnds, Decide, NoScaling, BeginScaleUp, BeginScaleDown
  <2> QED
    BY <1>1, <2>1
<1>5. CASE Autoscale
  BY <1>1, <1>5 DEF Autoscale, AutoscaleStep, VerticalScale, VerticalPanics, VerticalDone,
     HorizontalScale, HorizontalSkip, HorizontalDone, NoUsedGPULeft, NewGPUPanics, NoNewGPU,
     Fallback, FallbackFindsNothing, ShrinkPod, ShrinkSkip, ShrinkDone, EvictPod, EvictSkip,
     EvictDone, CleanUp
<1>6. CASE ApplyStep
  BY <1>1, <1>6 DEF ApplyStep, ApplyDelete, ApplyUpdateUntracked, ApplyUpdate, ApplyCreateRefused,
                    ApplyEnds, Planned, ApplyRest
<1>7. CASE Start \/ RestartAfterPanic \/ Tick \/ TickEnds \/ VisitNew \/ VisitKnown
  BY <1>1, <1>7 DEF Start, RestartAfterPanic, Panics, Tick, TickEnds, VisitNew, VisitKnown
<1>8. CASE DeleteFunc \/ AddFunc \/ Collect \/ CooldownExpires \/ UNCHANGED vars
  BY <1>2, <1>8 DEF DeleteFunc, AddFunc, Collect, CooldownExpires, vars
<1> QED
  BY <1>3, <1>4, <1>5, <1>6, <1>7, <1>8 DEF Next, ControllerStep, EnvStep

(* A deletion leaves the pods that the plan keeps.                         *)
LEMMA DeletionKeepsOne ==
    ASSUME TypeOK, IInv, ApplyDelete
    PROVE  Nothing \/ \E n : Removed(n)
<1> DEFINE n == Target.name
<1>1. /\ pc = "apply" /\ actions # <<>> /\ Head(actions).type = -1 /\ funcs' = funcs
      /\ actions \in Seq(HASAction) /\ cur \in Func /\ Granted' = Granted
  BY CurType DEF ApplyDelete, Planned, HeadIs, ApplyRest, TypeOK, BetweenFunctions, Granted
<1>2. \/ fastPod' = fastPod
      \/ n \in fastPods[cur] /\ \E o : fastPod' = AfterDelete(o, n)
  BY DEF ApplyDelete
<1>3. n \in PlannedDeletes
  BY <1>1, TailNames DEF PlannedDeletes, Target
<1> HIDE DEF n
<1>4. CASE Nothing
  BY <1>4
<1>5. CASE ~Nothing
  <2>1. /\ n \in DOMAIN fastPod /\ DOMAIN fastPod' = DOMAIN fastPod \ {n}
        /\ n \in fastPods[cur]
    BY <1>1, <1>2, <1>5 DEF Nothing, AfterDelete, Exists, Drop
  <2>2. FuncOf(n) = cur
    BY <1>1, <2>1 DEF IInv, OwnFaSTPods
  <2>3. cur \in funcs => PodsOf(cur) # {n}
    <3>1. SUFFICES ASSUME cur \in funcs, PodsOf(cur) = {n} PROVE FALSE
      OBVIOUS
    <3>2. Listed \subseteq {n}
      BY <1>1, <1>3, <3>1 DEF IInv, PlanInv, ListIsRight
    <3>3. Listed = {}
      BY <1>3, <3>2 DEF IInv, PlanInv, KeptOrDeleted
    <3>4. pods \in Seq(HASPodInfo) /\ pods # <<>>
      BY <1>3 DEF TypeOK, IInv, PlanInv, SomeKept
    <3>5. 1 \in DOMAIN pods
      BY <3>4
    <3> QED
      BY <3>3, <3>5 DEF Listed, Names
  <2>4. Removed(n)
    BY <1>1, <2>1, <2>2, <2>3 DEF Removed
  <2> QED
    BY <2>4
<1> QED
  BY <1>4, <1>5

LEMMA ClusterMoves ==
    ASSUME TypeOK, IInv, NoneFound, [Next]_vars
    PROVE  \/ Nothing
           \/ \E f : Found(f) \/ Unused(f)
           \/ \E n : Created(n) \/ Removed(n)
           \/ \E f : Unwanted(f) \/ WantedAgain(f)
<1>1. CASE UNCHANGED <<funcs, fastPod>> /\ Granted' = Granted
  BY <1>1 DEF Nothing
<1>2. CASE InitPod
  <2>1. cur \in Func /\ funcs' = funcs /\ PodsOf(cur) = {} /\ Granted = {} /\ Granted' = {}
    BY <1>2, CurType DEF InitPod, AfterInit, NoneFound, BetweenFunctions, Granted
  <2>2. PICK n \in FreshName(cur) : \E o, pod : fastPod' = AfterCreate(o, n, pod)
    BY <1>2 DEF InitPod, configs2FaSTPods
  <2>3. FuncOf(n) = cur /\ n \notin DOMAIN fastPod
    BY FreshNameIsNew
  <2>4. DOMAIN fastPod' \in {DOMAIN fastPod, DOMAIN fastPod \cup {n}}
    BY <2>2 DEF AfterCreate, Put
  <2> QED
    BY <2>1, <2>3, <2>4 DEF Nothing, Created
<1>3. CASE ApplyCreate
  <2>1. cur \in Func /\ funcs' = funcs /\ Granted = {cur} /\ Granted' = {}
    BY <1>3, CurType DEF ApplyCreate, ApplyRest, BetweenFunctions, Granted
  <2>2. PICK n \in FreshName(cur) : \E o, pod : fastPod' = AfterCreate(o, n, pod)
    BY <1>3 DEF ApplyCreate, configs2FaSTPods
  <2>3. FuncOf(n) = cur /\ n \notin DOMAIN fastPod
    BY FreshNameIsNew
  <2>4. DOMAIN fastPod' \in {DOMAIN fastPod, DOMAIN fastPod \cup {n}}
    BY <2>2 DEF AfterCreate, Put
  <2>5. Unused(cur) \/ Created(n)
    BY <2>1, <2>3, <2>4 DEF Unused, Created
  <2> QED
    BY <2>5
<1>4. CASE ApplyLookup
  <2>1. /\ cur \in funcs /\ Granted = {} /\ Granted' = {cur}
        /\ funcs' = funcs /\ fastPod' = fastPod
    BY <1>4 DEF ApplyLookup, Planned, CreateRefused, Granted, clusterVars
  <2> QED
    BY <2>1 DEF Found
<1>5. CASE Crash
  <2>1. funcs' = funcs /\ fastPod' = fastPod /\ Granted' = {} /\ Granted \in {{}, {cur}}
    BY <1>5 DEF Crash, Granted, clusterVars
  <2>2. pc = "create" => cur \in Func
    BY CurType DEF BetweenFunctions
  <2>3. Nothing \/ Unused(cur)
    BY <2>1, <2>2 DEF Nothing, Unused, Granted
  <2> QED
    BY <2>3
<1>6. CASE ApplyDelete
  BY <1>6, DeletionKeepsOne
<1>7. CASE ApplyUpdate
  <2>1. /\ funcs' = funcs /\ Granted' = Granted
        /\ \E o, quota : fastPod' = AfterUpdate(o, Target.name, quota)
    BY <1>7 DEF ApplyUpdate, ApplyRest, Planned, Granted
  <2> QED
    BY <2>1 DEF AfterUpdate, Nothing
<1>8. CASE DeleteFunc \/ AddFunc \/ Collect
  <2>1. Granted' = Granted
    BY <1>8 DEF DeleteFunc, AddFunc, Collect, Granted, scalerVars
  <2>2. CASE DeleteFunc
    BY <2>1, <2>2 DEF DeleteFunc, Unwanted
  <2>3. CASE AddFunc
    BY <2>1, <2>3 DEF AddFunc, WantedAgain
  <2>4. CASE Collect
    <3>1. PICK n \in DOMAIN fastPod : FuncOf(n) \notin funcs /\ fastPod' = Drop(fastPod, {n})
      BY <2>4 DEF Collect
    <3>2. FuncOf(n) \in Func
      BY DEF TypeOK, IsMapOf, Name, FuncOf
    <3>3. Removed(n)
      BY <2>1, <2>4, <3>1, <3>2 DEF Collect, Drop, Removed
    <3> QED
      BY <3>3
  <2> QED
    BY <1>8, <2>2, <2>3, <2>4
<1> QED
  BY <1>1, <1>2, <1>3, <1>4, <1>5, <1>6, <1>7, <1>8, ClusterWriters, GrantWriters

(* No call, failure, crash or user takes the last FaSTPod of a function    *)
(* that stays.                                                             *)
THEOREM LastInstanceStays == Spec => KeepsOneInstance
<1>1. ASSUME TypeOK, IInv, NoneFound, [Next]_vars
      PROVE  \A f \in funcs \cap funcs' : PodsOf(f) # {} => PodsOf(f)' # {}
  <2>1. CASE Nothing \/ (\E f : Found(f) \/ Unused(f)) \/ \E n : Created(n)
    BY <2>1 DEF Nothing, Found, Unused, Created, PodsOf
  <2>2. CASE \E n : Removed(n)
    BY <2>2 DEF Removed, PodsOf
  <2>3. CASE \E f : Unwanted(f) \/ WantedAgain(f)
    BY <2>3 DEF Unwanted, WantedAgain, PodsOf
  <2> QED
    BY <1>1, <2>1, <2>2, <2>3, ClusterMoves
<1> QED
  BY <1>1, PlansAreRight, TypeCorrect, NoneFoundInit, NoneFoundStep, PTL
  DEF Spec, KeepsOneInstance

-----------------------------------------------------------------------------
(* Refinement.                                                             *)
Instances == [f \in Func |-> Cardinality(PodsOf(f))]

LEMMA InstanceCount ==
    ASSUME IInv, NEW f
    PROVE  /\ IsFiniteSet(PodsOf(f)) /\ Cardinality(PodsOf(f)) \in Nat
           /\ Cardinality(PodsOf(f)) = 0 <=> PodsOf(f) = {}
           /\ \A n : Cardinality(PodsOf(f)) = 1 /\ n \in PodsOf(f) => PodsOf(f) = {n}
<1>1. IsFiniteSet(PodsOf(f))
  <2>1. PodsOf(f) \in SUBSET DOMAIN fastPod
    BY DEF PodsOf
  <2> QED
    BY <2>1, FS_Subset DEF IInv, FinitelyMany
<1> QED
  BY <1>1, FS_CardinalityType, FS_EmptySet, FS_Singleton

LEMMA StepImplements ==
    ASSUME TypeOK, IInv, NoneFound, [Next]_vars
    PROVE  [Lifecycle!Next]_(Lifecycle!vars)
<1> USE DEF Lifecycle!vars
<1>0. ASSUME funcs' = funcs, DOMAIN fastPod' = DOMAIN fastPod PROVE Instances' = Instances
  BY <1>0 DEF Instances, PodsOf
<1>1. CASE Nothing
  BY <1>0, <1>1 DEF Nothing, Instances, Granted
<1>6. CASE \E f : Found(f)
  <2>1. PICK f : Found(f)
    BY <1>6
  <2>2. f \in Func /\ Instances' = Instances
    BY <1>0, <2>1 DEF Found, TypeOK
  <2>3. Lifecycle!Grant(f)
    BY <2>1, <2>2 DEF Found, Lifecycle!Grant, Instances, Granted
  <2> QED
    BY <2>2, <2>3 DEF Lifecycle!Next
<1>7. CASE \E f : Unused(f)
  <2>1. PICK f : Unused(f)
    BY <1>7
  <2>2. f \in Func /\ Instances' = Instances
    BY <1>0, <2>1 DEF Unused
  <2>3. Lifecycle!Waste(f)
    BY <2>1, <2>2 DEF Unused, Lifecycle!Waste, Instances, Granted
  <2> QED
    BY <2>2, <2>3 DEF Lifecycle!Next
<1>2. CASE \E n : Created(n)
  <2>1. PICK n : Created(n)
    BY <1>2
  <2> DEFINE f == FuncOf(n)
  <2>2. /\ PodsOf(f)' = PodsOf(f) \cup {n} /\ n \notin PodsOf(f)
        /\ \A h \in Func \ {f} : PodsOf(h)' = PodsOf(h)
    BY <2>1 DEF Created, PodsOf
  <2>3. Cardinality(PodsOf(f)') = Cardinality(PodsOf(f)) + 1
    BY <2>2, InstanceCount, FS_AddElement
  <2>4. /\ f \in Func /\ funcs' = funcs /\ Granted' = Granted \ {f}
        /\ f \in Granted \/ PodsOf(f) = {}
    BY <2>1 DEF Created
  <2> HIDE DEF f
  <2>5. Instances' = [Instances EXCEPT ![f] = @ + 1]
    BY <2>2, <2>3, <2>4 DEF Instances
  <2>6. CASE PodsOf(f) = {}
    <3>1. Instances[f] = 0
      BY <2>4, <2>6, InstanceCount DEF Instances
    <3>2. Instances' = [Instances EXCEPT ![f] = 1]
      BY <2>4, <2>5, <3>1 DEF Instances
    <3>3. Lifecycle!FirstInstance(f)
      BY <2>4, <3>1, <3>2 DEF Lifecycle!FirstInstance, Instances, Granted
    <3> QED
      BY <2>4, <3>3 DEF Lifecycle!Next
  <2>7. CASE PodsOf(f) # {}
    <3>1. Instances[f] > 0
      BY <2>4, <2>7, InstanceCount DEF Instances
    <3>2. Lifecycle!ScaleOut(f)
      BY <2>4, <2>5, <2>7, <3>1 DEF Lifecycle!ScaleOut, Instances, Granted
    <3> QED
      BY <2>4, <3>2 DEF Lifecycle!Next
  <2> QED
    BY <2>6, <2>7
<1>3. CASE \E n : Removed(n)
  <2>1. PICK n : Removed(n)
    BY <1>3
  <2> DEFINE f == FuncOf(n)
  <2>2. /\ PodsOf(f)' = PodsOf(f) \ {n} /\ n \in PodsOf(f)
        /\ \A h \in Func \ {f} : PodsOf(h)' = PodsOf(h)
    BY <2>1 DEF Removed, PodsOf
  <2>3. Cardinality(PodsOf(f)') = Cardinality(PodsOf(f)) - 1
    BY <2>2, InstanceCount, FS_RemoveElement
  <2>4. /\ f \in Func /\ funcs' = funcs /\ Granted' = Granted
        /\ f \in funcs => PodsOf(f) # {n}
    BY <2>1 DEF Removed
  <2> HIDE DEF f
  <2>5. Instances' = [Instances EXCEPT ![f] = @ - 1]
    BY <2>2, <2>3, <2>4 DEF Instances
  <2>6. Instances[f] \in Nat \ {0} /\ (Instances[f] = 1 => PodsOf(f) = {n})
    BY <2>2, <2>4, InstanceCount DEF Instances
  <2>7. CASE f \notin funcs
    <3>1. Lifecycle!Collect(f)
      BY <2>4, <2>5, <2>6, <2>7 DEF Lifecycle!Collect, Instances, Granted
    <3> QED
      BY <2>4, <3>1 DEF Lifecycle!Next
  <2>8. CASE f \in funcs
    <3>1. Instances[f] > 1
      BY <2>4, <2>6, <2>8
    <3>2. Lifecycle!ScaleIn(f)
      BY <2>4, <2>5, <3>1 DEF Lifecycle!ScaleIn, Instances, Granted
    <3> QED
      BY <2>4, <3>2 DEF Lifecycle!Next
  <2> QED
    BY <2>7, <2>8
<1>4. CASE \E f : Unwanted(f)
  <2>1. PICK f : Unwanted(f)
    BY <1>4
  <2>2. f \in Func /\ Instances' = Instances
    BY <2>1 DEF Unwanted, TypeOK, Instances, PodsOf
  <2>3. Lifecycle!Withdraw(f)
    BY <2>1, <2>2 DEF Unwanted, Lifecycle!Withdraw, Instances, Granted
  <2> QED
    BY <2>2, <2>3 DEF Lifecycle!Next
<1>5. CASE \E f : WantedAgain(f)
  <2>1. PICK f : WantedAgain(f)
    BY <1>5
  <2>2. f \in Func /\ Instances' = Instances /\ Instances[f] = 0
    BY <2>1, InstanceCount DEF WantedAgain, Instances, PodsOf
  <2>3. Lifecycle!Request(f)
    BY <2>1, <2>2 DEF WantedAgain, Lifecycle!Request, Instances, Granted
  <2> QED
    BY <2>2, <2>3 DEF Lifecycle!Next
<1> QED
  BY <1>1, <1>2, <1>3, <1>4, <1>5, <1>6, <1>7, ClusterMoves

(* HASReconciler implements InstanceLifecycle.                             *)
THEOREM Implementation == Spec => ImplementsLifecycle
<1>1. Init => Lifecycle!Init
  <2>1. SUFFICES ASSUME Init PROVE Lifecycle!Init
    OBVIOUS
  <2>2. \A f : PodsOf(f) = {}
    BY <2>1 DEF Init, PodsOf, EmptyMap
  <2> QED
    BY <2>1, <2>2, FS_EmptySet DEF Init, Lifecycle!Init
<1>2. TypeOK /\ IInv /\ NoneFound /\ [Next]_vars => [Lifecycle!Next]_(Lifecycle!vars)
  BY StepImplements
<1> QED
  BY <1>1, <1>2, PlansAreRight, TypeCorrect, NoneFoundInit, NoneFoundStep, PTL
  DEF Spec, ImplementsLifecycle, Lifecycle!Spec


-----------------------------------------------------------------------------
(* The deficit and the surplus.  What is missing is kept in a variable of  *)
(* its own while pods are listed, sorted, resized, removed and planned; it *)
(* stays what the lists say because each of these changes the sum of the   *)
(* rates on the list, or in the plan, by what the variable changes.        *)
RatesOf(ps) == [i \in DOMAIN ps |-> ps[i].rps]

CreationsOf(plan) == {i \in DOMAIN plan : plan[i].type = 1}
PlannedRates(plan) == [i \in CreationsOf(plan) |-> plan[i].pod.rps]
PlannedRPS(plan) == SumFunction(PlannedRates(plan))

(* A list of pods and a plan have rates, and their sums are integers.      *)
LEMMA RatesAreSummable ==
    ASSUME NEW ps \in Seq(HASPodInfo)
    PROVE  /\ Summable(RatesOf(ps), DOMAIN RatesOf(ps))
           /\ RPSOf(ps) \in Int /\ RPSOf(ps) = SumFunction(RatesOf(ps))
<1> DEFINE f == RatesOf(ps)
<1>1. DOMAIN f = 1 .. Len(ps) /\ Len(ps) \in Nat
  BY LenProperties DEF RatesOf
<1>2. IsFiniteSet(DOMAIN f)
  BY <1>1, FS_Interval
<1>3. \A i \in DOMAIN f : f[i] \in Int
  <2>1. SUFFICES ASSUME NEW i \in 1 .. Len(ps) PROVE f[i] \in Int
    BY <1>1
  <2>2. ps[i] \in HASPodInfo
    BY ElementOfSeq
  <2>3. ps[i].rps \in Nat
    BY <2>2 DEF HASPodInfo
  <2> QED
    BY <1>1, <2>3 DEF RatesOf
<1>4. RPSOf(ps) = SumFunction(f)
  BY DEF RPSOf, RatesOf
<1> HIDE DEF f
<1>5. Summable(f, DOMAIN f)
  BY <1>2, <1>3 DEF Summable
<1>6. SumFunction(f) \in Int
  BY <1>5, SumIsSum
<1> QED
  BY <1>4, <1>5, <1>6 DEF f

LEMMA PlanIsSummable ==
    ASSUME NEW plan \in Seq(HASAction)
    PROVE  /\ Summable(PlannedRates(plan), DOMAIN PlannedRates(plan))
           /\ DOMAIN PlannedRates(plan) = CreationsOf(plan)
           /\ PlannedRPS(plan) \in Int
<1> DEFINE f == PlannedRates(plan)
<1>1. DOMAIN plan = 1 .. Len(plan) /\ Len(plan) \in Nat /\ DOMAIN f = CreationsOf(plan)
  BY LenProperties DEF PlannedRates
<1>2. IsFiniteSet(DOMAIN plan) /\ DOMAIN f \subseteq DOMAIN plan
  BY <1>1, FS_Interval DEF CreationsOf
<1>3. IsFiniteSet(DOMAIN f)
  BY <1>2, FS_Subset
<1>4. \A i \in DOMAIN f : f[i] \in Int
  <2>1. SUFFICES ASSUME NEW i \in CreationsOf(plan) PROVE f[i] \in Int
    BY <1>1
  <2>2. i \in 1 .. Len(plan)
    BY <1>1, <1>2
  <2>3. plan[i] \in HASAction
    BY <2>2, ElementOfSeq
  <2>4. plan[i].pod.rps \in Nat
    BY <2>3 DEF HASAction, HASPodInfo
  <2> QED
    BY <2>4 DEF PlannedRates
<1>5. PlannedRPS(plan) = SumFunction(f)
  BY DEF PlannedRPS
<1> HIDE DEF f
<1>6. Summable(f, DOMAIN f)
  BY <1>3, <1>4 DEF Summable
<1>7. SumFunction(f) \in Int
  BY <1>6, SumIsSum
<1> QED
  BY <1>1, <1>5, <1>6, <1>7 DEF f

(* Nothing is listed, nothing is planned.                                  *)
LEMMA EmptyRPS == RPSOf(<<>>) = 0 /\ PlannedRPS(<<>>) = 0
<1>1. DOMAIN RatesOf(<<>>) = {} /\ DOMAIN PlannedRates(<<>>) = {}
  BY DEF RatesOf, PlannedRates, CreationsOf
<1>2. \A f : SumFunctionOnSet(f, {}) = 0
  BY SumOfNone
<1>3. SumFunction(RatesOf(<<>>)) = 0 /\ SumFunction(PlannedRates(<<>>)) = 0
  BY <1>1, <1>2 DEF SumFunction
<1> QED
  BY <1>3 DEF RPSOf, RatesOf, PlannedRPS

(* One more pod on the list.                                               *)
LEMMA AppendedRPS ==
    ASSUME NEW ps \in Seq(HASPodInfo), NEW pod \in HASPodInfo
    PROVE  RPSOf(Append(ps, pod)) = RPSOf(ps) + pod.rps
<1> DEFINE f == RatesOf(ps)
           g == RatesOf(Append(ps, pod))
           x == Len(ps) + 1
<1>1. /\ Len(ps) \in Nat /\ DOMAIN ps = 1 .. Len(ps) /\ DOMAIN Append(ps, pod) = 1 .. Len(ps) + 1
      /\ Append(ps, pod)[Len(ps) + 1] = pod
      /\ \A i \in DOMAIN ps : Append(ps, pod)[i] = ps[i]
  BY AppendShape
<1>2. /\ DOMAIN f = 1 .. Len(ps) /\ DOMAIN g = DOMAIN f \cup {x} /\ x \in DOMAIN g
      /\ x \notin DOMAIN f /\ g[x] = pod.rps /\ \A i \in DOMAIN f : g[i] = f[i]
  BY <1>1 DEF RatesOf
<1>3. Append(ps, pod) \in Seq(HASPodInfo)
  BY AppendProperties
<1>4. Summable(f, DOMAIN f) /\ RPSOf(ps) = SumFunction(f)
  BY RatesAreSummable
<1>5. Summable(g, DOMAIN g) /\ RPSOf(Append(ps, pod)) = SumFunction(g)
  BY <1>3, RatesAreSummable
<1> HIDE DEF f, g, x
<1>6. SumFunction(g) = SumFunction(f) + g[x]
  BY <1>2, <1>4, <1>5, SumWithMore
<1> QED
  BY <1>2, <1>4, <1>5, <1>6

(* Another rate for a listed pod.                                          *)
LEMMA ResizedRPS ==
    ASSUME NEW ps \in Seq(HASPodInfo), NEW k \in 1 .. Len(ps), NEW quota \in Int, NEW rps \in Nat
    PROVE  RPSOf([ps EXCEPT ![k] = Resized(ps[k], quota, rps)]) = RPSOf(ps) + rps - ps[k].rps
<1> DEFINE qs == [ps EXCEPT ![k] = Resized(ps[k], quota, rps)]
           f  == RatesOf(ps)
           g  == RatesOf(qs)
<1>1. DOMAIN ps = 1 .. Len(ps) /\ ps[k] \in HASPodInfo
  BY LenProperties, ElementOfSeq
<1>2. Resized(ps[k], quota, rps) \in HASPodInfo
  BY <1>1, ResizedType
<1>3. qs \in Seq(HASPodInfo)
  BY <1>2, ExceptSeq
<1>4. /\ DOMAIN g = DOMAIN f /\ k \in DOMAIN f /\ g[k] = rps /\ f[k] = ps[k].rps
      /\ \A i \in DOMAIN f \ {k} : g[i] = f[i]
  BY <1>1 DEF RatesOf, Resized
<1>5. Summable(f, DOMAIN f) /\ RPSOf(ps) = SumFunction(f)
  BY RatesAreSummable
<1> HIDE DEF qs
<1>6. Summable(g, DOMAIN g) /\ RPSOf(qs) = SumFunction(g)
  BY <1>3, RatesAreSummable
<1> HIDE DEF f, g
<1>7. SumFunction(g) = SumFunction(f) + g[k] - f[k]
  BY <1>4, <1>5, <1>6, SumWithOther
<1>8. RPSOf(qs) = RPSOf(ps) + rps - ps[k].rps
  BY <1>4, <1>5, <1>6, <1>7
<1> QED
  BY <1>8 DEF qs

(* Another order of a list on which no pod is twice.                       *)
LEMMA PermutedRPS ==
    ASSUME NEW ps \in Seq(HASPodInfo), Distinct(ps),
           NEW qs \in [DOMAIN ps -> Range(ps)], Range(qs) = Range(ps)
    PROVE  RPSOf(qs) = RPSOf(ps)
<1> DEFINE f == RatesOf(qs)
           g == RatesOf(ps)
           D == DOMAIN ps
           b == [i \in D |-> CHOOSE j \in D : ps[j] = qs[i]]
<1>1. /\ DOMAIN ps = 1 .. Len(ps) /\ Len(ps) \in Nat /\ qs \in Seq(HASPodInfo)
      /\ Range(ps) \subseteq HASPodInfo
  <2>1. DOMAIN ps = 1 .. Len(ps) /\ Len(ps) \in Nat /\ Range(ps) \subseteq HASPodInfo
    BY LenProperties, ElementOfSeq DEF Range
  <2> QED
    BY <2>1
<1>2. DOMAIN qs = D /\ DOMAIN f = D /\ DOMAIN g = D
  BY DEF RatesOf
<1>3. \A i \in D : b[i] \in D /\ ps[b[i]] = qs[i]
  BY DEF Range
<1>4. Distinct(qs)
  BY PermutedNames
<1>5. Summable(g, DOMAIN g) /\ RPSOf(ps) = SumFunction(g)
  BY RatesAreSummable
<1>6. Summable(f, DOMAIN f) /\ RPSOf(qs) = SumFunction(f)
  BY <1>1, RatesAreSummable
<1> HIDE DEF b
<1>7. b \in [D -> D]
  <2>1. b = [i \in D |-> b[i]]
    BY DEF b
  <2> QED
    BY <1>3, <2>1
<1>8. \A i, j \in D : b[i] = b[j] => i = j
  BY <1>2, <1>3, <1>4 DEF Distinct
<1>9. \A j \in D : \E i \in D : b[i] = j
  <2>1. SUFFICES ASSUME NEW j \in D PROVE \E i \in D : b[i] = j
    OBVIOUS
  <2>2. ps[j] \in Range(qs)
    BY DEF Range
  <2>3. PICK i \in D : qs[i] = ps[j]
    BY <1>2, <2>2 DEF Range
  <2>4. ps[b[i]] = ps[j] /\ b[i] \in D
    BY <1>3, <2>3
  <2>5. b[i] = j
    BY <2>4 DEF Distinct
  <2> QED
    BY <2>5
<1>10. \A i \in D : g[b[i]] = f[i]
  BY <1>2, <1>3 DEF RatesOf
<1> HIDE DEF f, g, D
<1>11. SumFunction(f) = SumFunction(g)
  BY <1>2, <1>5, <1>6, <1>7, <1>8, <1>9, <1>10, SumWithNames
<1> QED
  BY <1>5, <1>6, <1>11

(* One pod less on the list.                                               *)
LEMMA RemovedRPS ==
    ASSUME NEW ps \in Seq(HASPodInfo), NEW k \in 1 .. Len(ps)
    PROVE  RPSOf(RemoveAt(ps, k)) = RPSOf(ps) - ps[k].rps
<1> DEFINE qs == RemoveAt(ps, k)
           f  == RatesOf(qs)
           g  == RatesOf(ps)
           b  == [i \in DOMAIN qs |-> IF i < k THEN i ELSE i + 1]
           U  == DOMAIN ps
<1>1. /\ Len(ps) \in Nat /\ U = 1 .. Len(ps) /\ qs \in Seq(HASPodInfo)
      /\ DOMAIN qs = 1 .. Len(ps) - 1
      /\ \A i \in 1 .. Len(ps) - 1 : qs[i] = IF i < k THEN ps[i] ELSE ps[i + 1]
  BY RemovedShape
<1>2. Summable(f, DOMAIN f) /\ RPSOf(qs) = SumFunction(f)
  BY <1>1, RatesAreSummable
<1>3. Summable(g, DOMAIN g) /\ RPSOf(ps) = SumFunction(g)
  BY RatesAreSummable
<1>4. DOMAIN g = U /\ DOMAIN f = DOMAIN qs /\ k \in U
  BY <1>1 DEF RatesOf
<1> HIDE DEF qs
<1>5. /\ b \in [DOMAIN f -> U] /\ {b[i] : i \in DOMAIN f} = U \ {k}
      /\ \A i, j \in DOMAIN f : b[i] = b[j] => i = j
      /\ \A i \in DOMAIN f : g[b[i]] = f[i]
  <2>1. /\ b \in [DOMAIN f -> U] /\ \A i \in DOMAIN f : b[i] # k
        /\ \A i, j \in DOMAIN f : b[i] = b[j] => i = j
    BY <1>1, <1>4
  <2>2. ASSUME NEW j \in U \ {k} PROVE \E i \in DOMAIN f : b[i] = j
    <3>1. CASE j < k
      <4>1. j \in DOMAIN f /\ b[j] = j
        BY <1>1, <1>4, <3>1
      <4> QED
        BY <4>1
    <3>2. CASE j > k
      <4>1. j - 1 \in DOMAIN f /\ b[j - 1] = j
        BY <1>1, <1>4, <3>2
      <4> QED
        BY <4>1
    <3> QED
      BY <1>1, <2>2, <3>1, <3>2
  <2>3. \A i \in DOMAIN f : g[b[i]] = f[i]
    <3>1. SUFFICES ASSUME NEW i \in DOMAIN f PROVE g[b[i]] = f[i]
      OBVIOUS
    <3>2. b[i] \in U /\ ps[b[i]] = qs[i]
      BY <1>1, <1>4
    <3> QED
      BY <1>4, <3>2 DEF RatesOf
  <2>4. {b[i] : i \in DOMAIN f} = U \ {k}
    <3> HIDE DEF b
    <3> QED
      BY <2>1, <2>2
  <2> QED
    BY <2>1, <2>3, <2>4
<1> HIDE DEF f, g, b, U
<1>6. SumFunctionOnSet(f, DOMAIN f) = SumFunctionOnSet(g, U \ {k})
  BY <1>2, <1>3, <1>4, <1>5, SumRenamed
<1>7. /\ SumFunctionOnSet(g, U) = g[k] + SumFunctionOnSet(g, U \ {k})
      /\ g[k] \in Int /\ SumFunctionOnSet(g, U \ {k}) \in Int
  BY <1>3, <1>4, SumWithout
<1>8. g[k] = ps[k].rps
  BY <1>4 DEF g, RatesOf, U
<1>9. RPSOf(qs) = RPSOf(ps) - ps[k].rps
  BY <1>2, <1>3, <1>4, <1>6, <1>7, <1>8 DEF SumFunction
<1> QED
  BY <1>9 DEF qs

(* One more action in the plan.                                            *)
LEMMA AppendedPlan ==
    ASSUME NEW plan \in Seq(HASAction), NEW type \in {-1, 0, 1}, NEW pod \in HASPodInfo
    PROVE  PlannedRPS(Append(plan, Act(type, pod)))
             = PlannedRPS(plan) + (IF type = 1 THEN pod.rps ELSE 0)
<1> DEFINE more == Append(plan, Act(type, pod))
           f == PlannedRates(plan)
           g == PlannedRates(more)
           x == Len(plan) + 1
<1>1. Act(type, pod) \in HASAction /\ Act(type, pod).type = type /\ Act(type, pod).pod = pod
  BY DEF Act, HASAction
<1>2. more \in Seq(HASAction)
  BY <1>1, AppendProperties
<1>3. /\ Len(plan) \in Nat /\ DOMAIN plan = 1 .. Len(plan) /\ DOMAIN more = 1 .. Len(plan) + 1
      /\ more[x] = Act(type, pod)
      /\ \A i \in DOMAIN plan : more[i] = plan[i]
  BY <1>1, AppendShape
<1> HIDE DEF more
<1>4. Summable(f, DOMAIN f) /\ DOMAIN f = CreationsOf(plan) /\ PlannedRPS(plan) = SumFunction(f)
  BY PlanIsSummable DEF PlannedRPS
<1>5. Summable(g, DOMAIN g) /\ DOMAIN g = CreationsOf(more) /\ PlannedRPS(more) = SumFunction(g)
  BY <1>2, PlanIsSummable DEF PlannedRPS
<1>6. \A i \in CreationsOf(plan) : i \in CreationsOf(more) /\ g[i] = f[i]
  BY <1>3 DEF CreationsOf, PlannedRates
<1>7. CASE type = 1
  <2>1. CreationsOf(more) = CreationsOf(plan) \cup {x} /\ x \notin CreationsOf(plan)
    BY <1>1, <1>3, <1>7 DEF CreationsOf
  <2>2. g[x] = pod.rps
    BY <1>1, <1>3, <2>1 DEF PlannedRates
  <2> HIDE DEF f, g, x
  <2>3. SumFunction(g) = SumFunction(f) + g[x]
    BY <1>4, <1>5, <1>6, <2>1, SumWithMore
  <2> QED
    BY <1>4, <1>5, <1>7, <2>2, <2>3 DEF more
<1>8. CASE type # 1
  <2>1. CreationsOf(more) = CreationsOf(plan)
    BY <1>1, <1>3, <1>8 DEF CreationsOf
  <2> HIDE DEF f, g, x
  <2>2. SumFunction(g) = SumFunction(f)
    BY <1>4, <1>5, <1>6, <2>1, SumAgrees DEF SumFunction
  <2>3. SumFunction(f) \in Int
    BY <1>4, SumIsSum
  <2> QED
    BY <1>4, <1>5, <1>8, <2>2, <2>3 DEF more
<1> QED
  BY <1>7, <1>8


(* The total of the listed pods is that of the list.                       *)
ListedCapacity ==
    /\ pc \in BeforeList => total = 0
    /\ pc \in {"convert", "decide"} => total = RPSOf(pods)

CapInv == ListedCapacity /\ PlannedCapacity

ScaleUpPCs == {"vertical", "horizontal", "fallback"}
ScaleDownPCs == {"shrink", "evict", "clean"}

(* PlannedCapacity speaks of the rates in the plan.                        *)
LEMMA CapacityOfPlan ==
    PlannedCapacity <=>
        /\ pc \in ScaleUpPCs =>
             deltaR = 10 * pred + total - 10 * RPSOf(pods) - 10 * PlannedRPS(actions)
        /\ pc \in ScaleDownPCs => deltaR = 10 * RPSOf(pods) - total - 10 * pred
<1>1. SumFunction([i \in Creations |-> actions[i].pod.rps]) = PlannedRPS(actions)
  BY DEF Creations, PlannedRPS, PlannedRates, CreationsOf
<1> QED
  BY <1>1 DEF PlannedCapacity, ScaleUpPCs, ScaleDownPCs

(* The same in the next state.                                             *)
LEMMA CapacityOfNextPlan ==
    PlannedCapacity' <=>
        /\ pc' \in ScaleUpPCs =>
             deltaR' = 10 * pred' + total' - 10 * RPSOf(pods') - 10 * PlannedRPS(actions')
        /\ pc' \in ScaleDownPCs => deltaR' = 10 * RPSOf(pods') - total' - 10 * pred'
<1>1. SumFunction([i \in Creations |-> actions[i].pod.rps])' = PlannedRPS(actions')
  BY DEF Creations, PlannedRPS, PlannedRates, CreationsOf
<1> QED
  BY <1>1 DEF PlannedCapacity, ScaleUpPCs, ScaleDownPCs

(* The arithmetic of the steps: a change of one sum by x is one of the     *)
(* balance by ten times x.                                                 *)
LEMMA Balance ==
    ASSUME NEW d \in Int, NEW p \in Int, NEW t \in Int, NEW r \in Int, NEW x \in Int,
           NEW y \in Int
    PROVE  /\ d = 10 * p + t - 10 * r - 10 * y =>
                d - 10 * x = 10 * p + t - 10 * (r + x) - 10 * y
           /\ d = 10 * p + t - 10 * r - 10 * y =>
                d - 10 * x = 10 * p + t - 10 * r - 10 * (y + x)
           /\ d = 10 * r - t - 10 * p => d - 10 * x = 10 * (r - x) - t - 10 * p
OBVIOUS

(* Nothing scales between functions, and applying looks at no rate.        *)
LEMMA CapacityElsewhere ==
    ASSUME CapInv,
           \/ Start \/ RestartAfterPanic \/ Crash \/ Tick \/ TickEnds \/ VisitNew \/ VisitKnown
           \/ InitialiseStep \/ QueryFails \/ Query \/ QueryForNothing \/ CheckGivesUp
           \/ NoScaling \/ ApplyStep
    PROVE  CapInv'
<1> USE DEF Forget, NextFunction, LoseMemory, localVars, ListedCapacity, BeforeList
<1>1. pc' \notin ScaleUpPCs \cup ScaleDownPCs \cup {"convert", "decide"}
  <2>1. CASE \/ Start \/ RestartAfterPanic \/ Crash \/ Tick \/ TickEnds \/ VisitNew
             \/ VisitKnown \/ InitialiseStep
    BY <2>1 DEF ScaleUpPCs, ScaleDownPCs, Start, RestartAfterPanic, Crash, Tick, TickEnds,
       VisitNew, VisitKnown, InitialiseStep, InitCheckFails, InitCheckFindsNone,
       InitCheckFindsPods, AdoptPod, AdoptEnds, InitPod, InitPodPanics, AfterInit
  <2>2. CASE QueryFails \/ Query \/ QueryForNothing \/ CheckGivesUp \/ NoScaling \/ ApplyStep
    BY <2>2 DEF ScaleUpPCs, ScaleDownPCs, QueryFails, Query, QueryForNothing, CheckGivesUp,
       NoScaling, ApplyStep, ApplyDelete, ApplyUpdateUntracked, ApplyUpdate,
       ApplyCreateRefused, ApplyLookup, ApplyCreate, ApplyEnds, ApplyRest
  <2> QED
    BY <2>1, <2>2
<1>2. pc' \in BeforeList => total' = 0
  <2>1. CASE \/ Start \/ Tick \/ TickEnds \/ VisitNew \/ VisitKnown \/ Query
    BY <2>1 DEF CapInv, Start, Tick, TickEnds, VisitNew, VisitKnown, Query
  <2>2. CASE InitialiseStep
    BY <2>2 DEF CapInv, InitialiseStep, InitCheckFails, InitCheckFindsNone,
       InitCheckFindsPods, AdoptPod, AdoptEnds, InitPod, InitPodPanics, AfterInit
  <2>3. CASE RestartAfterPanic \/ Crash \/ QueryFails \/ QueryForNothing \/ CheckGivesUp \/ NoScaling
    BY <2>3 DEF RestartAfterPanic, Crash, QueryFails, QueryForNothing, CheckGivesUp, NoScaling
  <2>4. CASE ApplyStep
    BY <2>4 DEF ApplyStep, ApplyDelete, ApplyUpdateUntracked, ApplyUpdate,
       ApplyCreateRefused, ApplyLookup, ApplyCreate, ApplyEnds, ApplyRest
  <2> QED
    BY <2>1, <2>2, <2>3, <2>4
<1>3. PlannedCapacity'
  BY <1>1, CapacityOfNextPlan
<1> QED
  BY <1>1, <1>2, <1>3 DEF CapInv

(* Listing: every converted pod adds what rapp says it serves.             *)
LEMMA CapacityListed ==
    ASSUME TypeOK, PlanInv, CapInv, CheckFindsPods \/ ConvertPod \/ ConvertEnds
    PROVE  CapInv'
<1> USE DEF ListedCapacity, BeforeList
<1>1. pc' \in {"convert", "decide"}
  BY DEF CheckFindsPods, ConvertPod, ConvertEnds
<1>2. PlannedCapacity'
  BY <1>1, CapacityOfNextPlan DEF ScaleUpPCs, ScaleDownPCs
<1>3. total' = RPSOf(pods')
  <2>1. CASE CheckFindsPods
    <3>1. pods = <<>> /\ total = 0 /\ pods' = pods /\ total' = total
      BY <2>1 DEF CheckFindsPods, PlanInv, MadeAnew, CapInv, localVars
    <3> QED
      BY <3>1, EmptyRPS
  <2>2. CASE ConvertPod
    <3>1. PICK n \in unread, cap \in Nat :
            pods' = Append(pods, PodInfoOf(n, cap)) /\ total' = total + cap
      BY <2>2, RappType DEF ConvertPod
    <3>2. n \in Name /\ fastPod[n] \in FaSTPod /\ pods \in Seq(HASPodInfo)
      BY DEF TypeOK, IsMapOf
    <3>3. PodInfoOf(n, cap) \in HASPodInfo /\ PodInfoOf(n, cap).rps = cap
      BY <3>2, ReadQuotaType DEF PodInfoOf, FaSTPod, HASPodInfo
    <3>4. RPSOf(pods') = RPSOf(pods) + PodInfoOf(n, cap).rps
      BY <3>1, <3>2, <3>3, AppendedRPS
    <3>5. total = RPSOf(pods)
      BY <2>2 DEF ConvertPod, CapInv
    <3> QED
      BY <3>1, <3>3, <3>4, <3>5
  <2>3. CASE ConvertEnds
    BY <2>3 DEF ConvertEnds, CapInv, localVars
  <2> QED
    BY <2>1, <2>2, <2>3
<1> QED
  BY <1>1, <1>2, <1>3 DEF CapInv

(* The decision: sorting keeps the sum, and nothing is planned yet.        *)
LEMMA CapacityDecided ==
    ASSUME TypeOK, PlanInv, CapInv, Decide
    PROVE  CapInv'
<1>1. /\ pods \in Seq(HASPodInfo) /\ pods' \in [DOMAIN pods -> Range(pods)]
      /\ Range(pods') = Range(pods)
      /\ pc = "decide" /\ UNCHANGED <<pred, total, actions>>
      /\ \/ pc' = "vertical" /\ deltaR' = 10 * pred - 9 * total
         \/ pc' = "shrink" /\ deltaR' = 9 * total - 10 * pred
  <2>1. CASE BeginScaleUp
    BY <2>1 DEF Decide, BeginScaleUp, SortedBy, TypeOK
  <2>2. CASE BeginScaleDown
    BY <2>2 DEF Decide, BeginScaleDown, SortedBy, TypeOK
  <2> QED
    BY <2>1, <2>2 DEF Decide
<1>2. Distinct(pods) /\ actions = <<>> /\ total = RPSOf(pods)
  BY <1>1 DEF PlanInv, ListedOnce, MadeAnew, CapInv, ListedCapacity
<1>3. RPSOf(pods') = RPSOf(pods)
  BY <1>1, <1>2, PermutedRPS
<1>4. PlannedRPS(actions') = 0
  BY <1>1, <1>2, EmptyRPS
<1>5. total \in Nat /\ pred \in Nat
  BY DEF TypeOK
<1>6. PlannedCapacity'
  BY <1>1, <1>2, <1>3, <1>4, <1>5, CapacityOfNextPlan DEF ScaleUpPCs, ScaleDownPCs
<1> QED
  BY <1>1, <1>6 DEF CapInv, ListedCapacity, BeforeList

(* Scale-up: a raised pod gives what it serves more, a planned pod what it *)
(* will serve.                                                             *)
LEMMA CapacityRaised ==
    ASSUME TypeOK, CapInv, VerticalScale
    PROVE  CapInv'
<1> DEFINE pod == pods[idx]
           new(n, c) == Resized(pod, pod.quota + DeltaIq * n, c)
<1>1. PICK n \in 0 .. 100 \div DeltaIq :
        \E cap \in CapRaised(pod, n) :
           /\ deltaR' = deltaR - Gain(pod, cap)
           /\ pods' = [pods EXCEPT ![idx] = new(n, cap)]
           /\ actions' = Append(actions, Act(0, new(n, cap)))
  BY DEF VerticalScale
<1>2. PICK cap \in CapRaised(pod, n) :
        /\ deltaR' = deltaR - Gain(pod, cap)
        /\ pods' = [pods EXCEPT ![idx] = new(n, cap)]
        /\ actions' = Append(actions, Act(0, new(n, cap)))
  BY <1>1
<1>3. pc = "vertical" /\ pc' = pc /\ pred' = pred /\ total' = total /\ idx <= Len(pods)
  BY DEF VerticalScale
<1>4. idx \in 1 .. Len(pods) /\ pod \in HASPodInfo /\ pods \in Seq(HASPodInfo)
  BY <1>3, ListedPodType DEF TypeOK
<1>5. cap \in Nat
  BY <1>4, LoopAnswerType
<1>6. pod.quota + DeltaIq * n \in Int
  <2>1. pod.quota \in Int /\ n \in Int
    BY <1>4 DEF HASPodInfo
  <2> QED
    BY <2>1 DEF DeltaIq
<1>7. RPSOf(pods') = RPSOf(pods) + cap - pod.rps
  BY <1>2, <1>4, <1>5, <1>6, ResizedRPS
<1>8. new(n, cap) \in HASPodInfo
  BY <1>4, <1>5, <1>6, ResizedType
<1> HIDE DEF new
<1>9. PlannedRPS(actions') = PlannedRPS(actions) + 0
  <2>1. actions \in Seq(HASAction) /\ 0 \in {-1, 0, 1} /\ 0 # 1
    BY DEF TypeOK
  <2> QED
    BY <1>2, <1>8, <2>1, AppendedPlan
<1>10. RPSOf(pods) \in Int /\ PlannedRPS(actions) \in Int /\ pod.rps \in Nat
  BY <1>4, RatesAreSummable, PlanIsSummable DEF TypeOK, HASPodInfo
<1>11. deltaR = 10 * pred + total - 10 * RPSOf(pods) - 10 * PlannedRPS(actions)
  BY <1>3, CapacityOfPlan DEF CapInv, ScaleUpPCs
<1>12. total \in Nat /\ pred \in Nat
  BY DEF TypeOK
<1> HIDE DEF pod
<1>13. deltaR' = 10 * pred' + total' - 10 * RPSOf(pods') - 10 * PlannedRPS(actions')
  <2> DEFINE x == cap - pod.rps
  <2>1. x \in Int /\ deltaR \in Int
    BY <1>5, <1>10 DEF TypeOK
  <2>2. RPSOf(pods') = RPSOf(pods) + x /\ PlannedRPS(actions') = PlannedRPS(actions)
    BY <1>5, <1>7, <1>9, <1>10
  <2>3. deltaR' = deltaR - 10 * x
    BY <1>2 DEF Gain
  <2> HIDE DEF x
  <2>4. deltaR - 10 * x = 10 * pred + total - 10 * (RPSOf(pods) + x) - 10 * PlannedRPS(actions)
    BY <1>10, <1>11, <1>12, <2>1, Balance
  <2> QED
    BY <1>3, <2>2, <2>3, <2>4
<1>14. PlannedCapacity'
  BY <1>3, <1>13, CapacityOfNextPlan DEF ScaleUpPCs, ScaleDownPCs
<1> QED
  BY <1>3, <1>14 DEF CapInv, ListedCapacity, BeforeList

(* Planning a pod takes what it will serve off the deficit.                *)
LEMMA PlanPodPlans ==
    ASSUME cur \in Func, NEW gpus, IsLedger(gpus), NEW g \in DOMAIN gpus,
           NEW sm \in Int, NEW quota \in Int, NEW rps \in Nat,
           PlanPod(gpus, g, sm, quota, rps)
    PROVE  \E pod \in HASPodInfo : /\ actions' = Append(actions, Act(1, pod))
                                    /\ deltaR' = deltaR - 10 * pod.rps
<1> DEFINE n == Provisional(cur, quota, sm)
           pod(r) == [name |-> n, gpu |-> g, sm |-> EffectiveSM(gpus[g], r, sm),
                      quota |-> quota, rps |-> rps]
<1>1. PICK r \in FindOptimalRowIdx(gpus[g], sm) :
          /\ actions' = Append(actions, Act(1, pod(r)))
          /\ deltaR' = deltaR - 10 * rps
  BY DEF PlanPod
<1>2. EffectiveSM(gpus[g], r, sm) \in Int
  BY OptimalRowIsRow, EffectiveSMType DEF IsLedger
<1>3. n \in Name /\ g \in GPUId
  BY DEF Provisional, Name, IsLedger
<1> HIDE DEF n
<1>4. pod(r) \in HASPodInfo /\ pod(r).rps = rps
  BY <1>2, <1>3 DEF HASPodInfo
<1> HIDE DEF pod
<1> QED
  BY <1>1, <1>4

(* A planned pod.                                                          *)
LEMMA CapacityPlanned ==
    ASSUME TypeOK, CapInv, HorizontalScale \/ Fallback
    PROVE  CapInv'
<1>1. cur \in Func /\ pc \in {"horizontal", "fallback"} /\ pc' \in {"horizontal", "apply"}
      /\ pred' = pred /\ total' = total /\ pods' = pods
  BY CurType DEF HorizontalScale, Fallback, BetweenFunctions
<1>2. PICK pod \in HASPodInfo : /\ actions' = Append(actions, Act(1, pod))
                                /\ deltaR' = deltaR - 10 * pod.rps
  <2>1. CASE HorizontalScale
    <3>1. PICK g \in LeastHGO(hasGPUs, pending) :
            \E o \in Offers(hasGPUs[g]) : \E cap \in CapOffered(hasGPUs[g], o) :
               PlanPod(Put(hasGPUs, g, Claimed(hasGPUs[g])), g, hasGPUs[g].sm[o[1]], o[2], cap)
      BY <2>1 DEF HorizontalScale
    <3>2. PICK o \in Offers(hasGPUs[g]) : \E cap \in CapOffered(hasGPUs[g], o) :
            PlanPod(Put(hasGPUs, g, Claimed(hasGPUs[g])), g, hasGPUs[g].sm[o[1]], o[2], cap)
      BY <3>1
    <3>3. PICK cap \in CapOffered(hasGPUs[g], o) :
            PlanPod(Put(hasGPUs, g, Claimed(hasGPUs[g])), g, hasGPUs[g].sm[o[1]], o[2], cap)
      BY <3>2
    <3>4. g \in DOMAIN hasGPUs /\ IsHASGPUInfo(hasGPUs[g])
      BY <2>1 DEF HorizontalScale, LeastHGO, TypeOK, IsLedger
    <3>5. o[1] \in Row /\ o[2] \in Int
      BY DEF Offers, OpenRows, DeltaIq
    <3>6. hasGPUs[g].sm[o[1]] \in Int
      BY <3>4, <3>5 DEF IsHASGPUInfo
    <3>7. /\ IsLedger(Put(hasGPUs, g, Claimed(hasGPUs[g])))
          /\ DOMAIN Put(hasGPUs, g, Claimed(hasGPUs[g])) = DOMAIN hasGPUs
      BY <3>4, OptimalSMType, ClaimIsLedger DEF Claimed, TypeOK
    <3> QED
      BY <1>1, <3>3, <3>4, <3>5, <3>6, <3>7, OfferAnswerType, PlanPodPlans
  <2>2. CASE Fallback
    <3>1. PICK g \in LeastHGO(hasGPUs, DOMAIN hasGPUs) :
            LET info == hasGPUs[g]
                r    == Min(OpenRows(info))
                sm   == IF info.sm[r] <= 0 THEN 50 ELSE info.sm[r]
            IN  /\ OpenRows(info) # {}
                /\ \E quota \in 1 .. MinQuota : \E cap \in rapp(cur, sm, quota) :
                     PlanPod(Put(hasGPUs, g, updateSMConfigForGPU(info, {r}, 50)), g, sm, quota,
                             cap)
      BY <2>2 DEF Fallback
    <3> DEFINE info == hasGPUs[g]
               r    == Min(OpenRows(info))
               sm   == IF info.sm[r] <= 0 THEN 50 ELSE info.sm[r]
    <3>2. PICK quota \in 1 .. MinQuota, cap \in Nat :
            PlanPod(Put(hasGPUs, g, updateSMConfigForGPU(info, {r}, 50)), g, sm, quota, cap)
      BY <3>1, RappType
    <3>3. g \in DOMAIN hasGPUs /\ IsHASGPUInfo(info) /\ quota \in Int
      BY DEF LeastHGO, TypeOK, IsLedger, MinQuota
    <3>4. r \in Row
      BY <3>1, LeastRow DEF OpenRows
    <3>5. sm \in Int
      BY <3>3, <3>4 DEF IsHASGPUInfo
    <3> HIDE DEF r, sm
    <3>6. /\ IsLedger(Put(hasGPUs, g, updateSMConfigForGPU(info, {r}, 50)))
          /\ DOMAIN Put(hasGPUs, g, updateSMConfigForGPU(info, {r}, 50)) = DOMAIN hasGPUs
      BY <3>3, ClaimIsLedger DEF TypeOK
    <3> QED
      BY <1>1, <3>2, <3>3, <3>5, <3>6, PlanPodPlans
  <2> QED
    BY <2>1, <2>2
<1>3. PlannedRPS(actions') = PlannedRPS(actions) + pod.rps
  <2>1. actions \in Seq(HASAction) /\ 1 \in {-1, 0, 1}
    BY DEF TypeOK
  <2> QED
    BY <1>2, <2>1, AppendedPlan
<1>4. RPSOf(pods) \in Int /\ PlannedRPS(actions) \in Int /\ pod.rps \in Nat
  BY RatesAreSummable, PlanIsSummable DEF TypeOK, HASPodInfo
<1>5. deltaR = 10 * pred + total - 10 * RPSOf(pods) - 10 * PlannedRPS(actions)
  BY <1>1, CapacityOfPlan DEF CapInv, ScaleUpPCs
<1>6. total \in Nat /\ pred \in Nat
  BY DEF TypeOK
<1>7. deltaR' = 10 * pred' + total' - 10 * RPSOf(pods') - 10 * PlannedRPS(actions')
  <2> DEFINE x == pod.rps
  <2>1. x \in Int /\ deltaR \in Int
    BY <1>4 DEF TypeOK
  <2>2. PlannedRPS(actions') = PlannedRPS(actions) + x /\ deltaR' = deltaR - 10 * x
    BY <1>2, <1>3
  <2> HIDE DEF x
  <2>3. deltaR - 10 * x = 10 * pred + total - 10 * RPSOf(pods) - 10 * (PlannedRPS(actions) + x)
    BY <1>4, <1>5, <1>6, <2>1, Balance
  <2> QED
    BY <1>1, <2>2, <2>3
<1>8. PlannedCapacity'
  BY <1>1, <1>7, CapacityOfNextPlan DEF ScaleUpPCs, ScaleDownPCs
<1> QED
  BY <1>1, <1>8 DEF CapInv, ListedCapacity, BeforeList

(* Scale-down: a shrunk pod gives back what it serves less, an evicted one *)
(* all it serves.                                                          *)
LEMMA CapacityLowered ==
    ASSUME TypeOK, CapInv, ShrinkPod
    PROVE  CapInv'
<1> DEFINE pod == pods[idx]
           new(n, c) == Resized(pod, pod.quota - DeltaIq * n, c)
<1>1. PICK n \in 1 .. pod.quota \div DeltaIq :
        \E cap \in CapLowered(pod, n) :
           /\ deltaR' = deltaR - Loss(pod, cap)
           /\ pods' = [pods EXCEPT ![idx] = new(n, cap)]
  BY DEF ShrinkPod
<1>2. PICK cap \in CapLowered(pod, n) :
        /\ deltaR' = deltaR - Loss(pod, cap)
        /\ pods' = [pods EXCEPT ![idx] = new(n, cap)]
  BY <1>1
<1>3. pc = "shrink" /\ pc' = pc /\ pred' = pred /\ total' = total /\ idx <= Len(pods)
  BY DEF ShrinkPod
<1>4. idx \in 1 .. Len(pods) /\ pod \in HASPodInfo /\ pods \in Seq(HASPodInfo)
  BY <1>3, ListedPodType DEF TypeOK
<1>5. cap \in Nat
  BY <1>4, LoopAnswerType
<1>6. pod.quota - DeltaIq * n \in Int
  <2>1. pod.quota \in Int /\ n \in Int
    BY <1>4 DEF HASPodInfo
  <2> QED
    BY <2>1 DEF DeltaIq
<1>7. RPSOf(pods') = RPSOf(pods) + cap - pod.rps
  BY <1>2, <1>4, <1>5, <1>6, ResizedRPS
<1> HIDE DEF new
<1>8. RPSOf(pods) \in Int /\ pod.rps \in Nat
  BY <1>4, RatesAreSummable DEF HASPodInfo
<1>9. deltaR = 10 * RPSOf(pods) - total - 10 * pred
  BY <1>3, CapacityOfPlan DEF CapInv, ScaleDownPCs
<1>10. total \in Nat /\ pred \in Nat
  BY DEF TypeOK
<1> HIDE DEF pod
<1>11. deltaR' = 10 * RPSOf(pods') - total' - 10 * pred'
  <2> DEFINE x == pod.rps - cap
  <2>1. x \in Int /\ deltaR \in Int
    BY <1>5, <1>8 DEF TypeOK
  <2>2. RPSOf(pods') = RPSOf(pods) - x /\ deltaR' = deltaR - 10 * x
    BY <1>2, <1>5, <1>7, <1>8 DEF Loss
  <2> HIDE DEF x
  <2>3. deltaR - 10 * x = 10 * (RPSOf(pods) - x) - total - 10 * pred
    <3>1. 0 \in Int
      OBVIOUS
    <3> QED
      BY <1>8, <1>9, <1>10, <2>1, <3>1, Balance
  <2> QED
    BY <1>3, <2>2, <2>3
<1>12. PlannedCapacity'
  BY <1>3, <1>11, CapacityOfNextPlan DEF ScaleUpPCs, ScaleDownPCs
<1> QED
  BY <1>3, <1>12 DEF CapInv, ListedCapacity, BeforeList

(* An evicted pod.                                                         *)
LEMMA CapacityEvicted ==
    ASSUME TypeOK, CapInv, EvictPod
    PROVE  CapInv'
<1> DEFINE pod == pods[idx]
<1>1. /\ pc = "evict" /\ pc' = pc /\ pred' = pred /\ total' = total /\ idx <= Len(pods)
      /\ pods' = RemoveAt(pods, idx)
      /\ deltaR' = deltaR - 10 * pod.rps
  BY DEF EvictPod, MayEvict
<1>2. idx \in 1 .. Len(pods) /\ pod \in HASPodInfo /\ pods \in Seq(HASPodInfo)
  BY <1>1, ListedPodType DEF TypeOK
<1>3. RPSOf(pods') = RPSOf(pods) - pod.rps
  BY <1>1, <1>2, RemovedRPS
<1>4. RPSOf(pods) \in Int /\ pod.rps \in Nat
  BY <1>2, RatesAreSummable DEF HASPodInfo
<1>5. deltaR = 10 * RPSOf(pods) - total - 10 * pred
  BY <1>1, CapacityOfPlan DEF CapInv, ScaleDownPCs
<1>6. total \in Nat /\ pred \in Nat
  BY DEF TypeOK
<1> HIDE DEF pod
<1>7. deltaR' = 10 * RPSOf(pods') - total' - 10 * pred'
  BY <1>1, <1>3, <1>4, <1>5, <1>6
<1>8. PlannedCapacity'
  BY <1>1, <1>7, CapacityOfNextPlan DEF ScaleUpPCs, ScaleDownPCs
<1> QED
  BY <1>1, <1>8 DEF CapInv, ListedCapacity, BeforeList

(* The other steps of the loops change no rate.                            *)
LEMMA CapacityKept ==
    ASSUME CapInv,
           \/ VerticalPanics \/ VerticalDone \/ HorizontalSkip \/ HorizontalDone \/ NewGPUPanics
           \/ NoNewGPU \/ FallbackFindsNothing \/ ShrinkSkip \/ ShrinkDone \/ EvictSkip
           \/ EvictDone \/ CleanUp
    PROVE  CapInv'
<1>1. /\ UNCHANGED <<pred, total, pods, deltaR, actions>>
      /\ \/ pc \in ScaleUpPCs /\ pc' \in ScaleUpPCs \cup {"apply", "panicRow", "panicConfig"}
         \/ pc \in ScaleDownPCs /\ pc' \in ScaleDownPCs \cup {"apply"}
  BY DEF VerticalPanics, VerticalDone, HorizontalSkip, HorizontalDone, NewGPUPanics, NoNewGPU,
         NoUsedGPULeft, FallbackFindsNothing, ShrinkSkip, ShrinkDone, EvictSkip, EvictDone,
         CleanUp, localVars, ScaleUpPCs, ScaleDownPCs
<1>2. PlannedCapacity'
  BY <1>1, CapacityOfPlan, CapacityOfNextPlan DEF CapInv, ScaleUpPCs, ScaleDownPCs
<1> QED
  BY <1>1, <1>2 DEF CapInv, ListedCapacity, BeforeList, ScaleUpPCs, ScaleDownPCs

(* The surroundings change neither list nor plan.                          *)
LEMMA CapacityAlone ==
    ASSUME CapInv, DeleteFunc \/ AddFunc \/ Collect \/ CooldownExpires \/ UNCHANGED vars
    PROVE  CapInv'
<1>1. UNCHANGED <<pc, pred, total, pods, deltaR, actions>>
  BY DEF DeleteFunc, AddFunc, Collect, CooldownExpires, vars, scalerVars, localVars
<1>2. PlannedCapacity'
  BY <1>1, CapacityOfPlan, CapacityOfNextPlan DEF CapInv
<1> QED
  BY <1>1, <1>2 DEF CapInv, ListedCapacity

(* Whatever the loops have done, what is missing, or too much, is what the *)
(* list and the plan say: PlannedCapacity, for every profile of rapp.      *)
THEOREM CapacityIsPlanned == Spec => []PlannedCapacity
<1>1. Init => CapInv
  <2>1. SUFFICES ASSUME Init PROVE CapInv
    OBVIOUS
  <2>2. pc = "down" /\ total = 0
    BY <2>1 DEF Init
  <2>3. PlannedCapacity
    BY <2>2, CapacityOfPlan DEF ScaleUpPCs, ScaleDownPCs
  <2> QED
    BY <2>2, <2>3 DEF CapInv, ListedCapacity
<1>2. TypeOK /\ IInv /\ CapInv /\ [Next]_vars => CapInv'
  <2> SUFFICES ASSUME TypeOK, PlanInv, CapInv, [Next]_vars PROVE CapInv'
    BY DEF IInv
  <2>1. CASE Start \/ RestartAfterPanic \/ Tick \/ TickEnds \/ VisitNew \/ VisitKnown
             \/ InitialiseStep \/ Crash \/ ApplyStep
    BY <2>1, CapacityElsewhere
  <2>2. CASE ObserveStep
    BY <2>2, CapacityElsewhere, CapacityListed, CapacityDecided DEF ObserveStep
  <2>3. CASE Autoscale
    BY <2>3, CapacityRaised, CapacityPlanned, CapacityLowered, CapacityEvicted, CapacityKept
    DEF Autoscale, AutoscaleStep
  <2>4. CASE DeleteFunc \/ AddFunc \/ Collect \/ CooldownExpires \/ UNCHANGED vars
    BY <2>4, CapacityAlone
  <2> QED
    BY <2>1, <2>2, <2>3, <2>4 DEF Next, ControllerStep, EnvStep
<1>3. CapInv => PlannedCapacity
  BY DEF CapInv
<1> QED
  BY <1>1, <1>2, <1>3, PlansAreRight, TypeCorrect, PTL DEF Spec

=============================================================================
