------------------------ MODULE EfficientConfigProofs ------------------------
(***************************************************************************)
(* GetMostEfficientConfig for any names, any order of its loops and any    *)
(* answers of the service: it returns a configuration that meets the       *)
(* requirement and that no other beats, or the default.                    *)
(*                                                                         *)
(* The loop compares every answer only with the best one so far.  What it  *)
(* has passed by stays beaten because "more throughput per resource unit"  *)
(* is transitive; it is, since no profile has a partition or a quota of 0. *)
(***************************************************************************)
EXTENDS EfficientConfig, TLAPS

(* What the loops have visited, and the best of it.                        *)
Meeting == {c \in DOMAIN answered : answered[c] >= RequiredThroughput}

NothingMeets == Meeting = {} /\ best = DefaultConfig /\ bestRPS = 0

BestMeets ==
    /\ best \in Meeting /\ bestRPS = answered[best]
    /\ \A c \in Meeting : ~MoreEfficient(c, answered[c], best, bestRPS)

Visited(model) ==
    /\ left \cup DOMAIN answered = ConfigsOf(model)
    /\ left \cap DOMAIN answered = {}
    /\ funcname = NoName => DOMAIN answered = {}
    /\ \A c \in DOMAIN answered : answered[c] \in AnswersFor(funcname, c)

Searching == place = "search" \/ (place = "done" /\ "rapp" \notin funcname)

IInv ==
    /\ place \in {"idle", "search", "done", "panic"}
    /\ place = "search" => funcname = NoName \/ (funcname \in Names /\ "rapp" \notin funcname)
    /\ place = "done" => funcname \in Names
    /\ place = "done" /\ "rapp" \in funcname => best = RappConfig
    /\ place = "done" /\ "rapp" \notin funcname => left = {}
    /\ Searching => \E model \in ModelOf(funcname) : Visited(model)
    /\ Searching => NothingMeets \/ BestMeets

-----------------------------------------------------------------------------
(* The tables.  No profile is of partition or quota 0, and none is of a    *)
(* latency below 10 ms; 35 RPS take 1.4 ms at a batch of 4.                *)
IsProfile(p) ==
    /\ p.sm \in Nat /\ p.sm > 0 /\ p.quota \in Nat /\ p.quota > 0
    /\ p.batch \in {2, 4}
    /\ p.latency \in Nat /\ p.latency >= 100000

Measured(e) == e[1] \in Nat /\ e[1] > 0 /\ e[2] \in Nat /\ e[2] >= 100000

LEMMA ProfilesAreMade ==
    ASSUME NEW sm \in Nat, sm > 0, NEW batch \in {2, 4},
           NEW entries, \A e \in entries : Measured(e)
    PROVE  \A p \in Profiles(sm, batch, entries) : IsProfile(p)
BY DEF Profiles, IsProfile, Measured

LEMMA Resnet50Profiles == \A p \in resnet50 : IsProfile(p)
<1> DEFINE a == {<<10, 2522491>>, <<20, 773300>>, <<30, 537186>>, <<40, 351840>>,
                 <<50, 318869>>, <<70, 211681>>, <<90, 208474>>, <<100, 209031>>}
           b == {<<10, 2460224>>, <<20, 778447>>, <<30, 546511>>, <<40, 359069>>,
                 <<50, 319668>>, <<70, 211510>>, <<90, 213813>>}
<1>1. \A e \in a : Measured(e)
  BY DEF Measured
<1>2. \A e \in b : Measured(e)
  BY DEF Measured
<1>3. resnet50 = Profiles(30, 4, a) \cup Profiles(50, 4, b)
  BY DEF resnet50
<1> HIDE DEF a, b
<1> QED
  BY <1>1, <1>2, <1>3, ProfilesAreMade

LEMMA ConvnextProfiles == \A p \in convnext_large : IsProfile(p)
<1> DEFINE a == {<<10, 4049708>>, <<20, 1402963>>, <<30, 967166>>, <<40, 680341>>,
                 <<50, 599109>>, <<70, 565727>>, <<80, 564936>>, <<90, 565984>>,
                 <<100, 566035>>}
           b == {<<30, 967185>>, <<50, 617110>>, <<70, 426626>>}
<1>1. \A e \in a : Measured(e)
  BY DEF Measured
<1>2. \A e \in b : Measured(e)
  BY DEF Measured
<1>3. convnext_large = Profiles(50, 4, a) \cup Profiles(70, 4, b)
  BY DEF convnext_large
<1> HIDE DEF a, b
<1> QED
  BY <1>1, <1>2, <1>3, ProfilesAreMade

LEMMA MobilenetProfiles == \A p \in mobilenet_v3_large : IsProfile(p)
<1> DEFINE a == {<<10, 3197108>>, <<20, 922712>>, <<30, 654417>>, <<40, 452021>>,
                 <<50, 362635>>, <<70, 261822>>, <<80, 150624>>, <<90, 137754>>,
                 <<100, 107394>>}
           b == {<<50, 261822>>, <<70, 226579>>, <<90, 133941>>}
<1>1. \A e \in a : Measured(e)
  BY DEF Measured
<1>2. \A e \in b : Measured(e)
  BY DEF Measured
<1>3. mobilenet_v3_large = Profiles(30, 4, a) \cup Profiles(50, 4, b)
  BY DEF mobilenet_v3_large
<1> HIDE DEF a, b
<1> QED
  BY <1>1, <1>2, <1>3, ProfilesAreMade

LEMMA ShufflenetProfiles == \A p \in shufflenet_v2 : IsProfile(p)
<1> DEFINE a == {<<20, 273490>>, <<50, 101810>>, <<70, 101810>>, <<90, 101810>>}
           b == {<<20, 281956>>, <<50, 103387>>, <<70, 102795>>, <<90, 102639>>}
<1>1. \A e \in a : Measured(e)
  BY DEF Measured
<1>2. \A e \in b : Measured(e)
  BY DEF Measured
<1>3. shufflenet_v2 = Profiles(50, 4, a) \cup Profiles(70, 4, b)
  BY DEF shufflenet_v2
<1> HIDE DEF a, b
<1> QED
  BY <1>1, <1>2, <1>3, ProfilesAreMade

LEMMA BertProfiles == \A p \in bert_qt : IsProfile(p)
<1> DEFINE a == {<<10, 2409081>>, <<20, 1654163>>, <<30, 1069170>>, <<40, 954823>>,
                 <<50, 928406>>, <<60, 871840>>, <<70, 761591>>, <<80, 771591>>,
                 <<90, 761591>>, <<100, 751591>>}
           b == {<<10, 2304163>>, <<20, 1594163>>, <<30, 1099170>>, <<40, 994823>>,
                 <<50, 878406>>, <<70, 751591>>, <<90, 731591>>, <<100, 711591>>}
<1>1. \A e \in a : Measured(e)
  BY DEF Measured
<1>2. \A e \in b : Measured(e)
  BY DEF Measured
<1>3. bert_qt = Profiles(30, 4, a) \cup Profiles(50, 4, b)
  BY DEF bert_qt
<1> HIDE DEF a, b
<1> QED
  BY <1>1, <1>2, <1>3, ProfilesAreMade

LEMMA RappProfiles == \A p \in rapp_table : IsProfile(p)
<1> DEFINE a == {<<10 * k, rapp_latency>> : k \in 2 .. 10}
           b == {<<10 * k, rapp_latency>> : k \in 1 .. 10}
<1>1. \A e \in a : Measured(e)
  BY DEF Measured, rapp_latency
<1>2. \A e \in b : Measured(e)
  BY DEF Measured, rapp_latency
<1>3. rapp_table = (UNION {Profiles(sm, 2, a) : sm \in {10, 20}})
                   \cup (UNION {Profiles(sm, 4, b) : sm \in {30, 50}})
  BY DEF rapp_table
<1> HIDE DEF a, b
<1>4. ASSUME NEW sm \in {10, 20} PROVE \A p \in Profiles(sm, 2, a) : IsProfile(p)
  BY <1>1, ProfilesAreMade
<1>5. ASSUME NEW sm \in {30, 50} PROVE \A p \in Profiles(sm, 4, b) : IsProfile(p)
  BY <1>2, ProfilesAreMade
<1> QED
  BY <1>3, <1>4, <1>5

(* The models the process works with, and their tables.                    *)
LEMMA CachedModels == modelNamesCache = DefaultModels
<1>1. ~ValidPath(ProfilingDir)
  <2>1. 1 \in DOMAIN ProfilingDir /\ ProfilingDir[1] = "." /\ ProfilingDir # <<".">>
    BY DEF ProfilingDir
  <2> QED
    BY <2>1 DEF ValidPath
<1> QED
  BY <1>1 DEF modelNamesCache

LEMMA ModelNames ==
    Range(DefaultModels) = {"resnet50", "convnext-large", "mobilenet-v3-large",
                            "shufflenet-v2-0.5", "bert-qt", "rapp"}
BY DEF Range, DefaultModels

LEMMA ProfilesOfModels ==
    ASSUME NEW model \in DOMAIN DefaultData, NEW p \in DefaultData[model]
    PROVE  IsProfile(p)
<1>1. model \in Range(DefaultModels)
  BY DEF DefaultData
<1>2. \/ model = "resnet50" /\ DefaultData[model] = resnet50
      \/ model = "convnext-large" /\ DefaultData[model] = convnext_large
      \/ model = "mobilenet-v3-large" /\ DefaultData[model] = mobilenet_v3_large
      \/ model = "shufflenet-v2-0.5" /\ DefaultData[model] = shufflenet_v2
      \/ model = "bert-qt" /\ DefaultData[model] = bert_qt
      \/ model = "rapp" /\ DefaultData[model] = rapp_table
  BY <1>1, ModelNames DEF DefaultData
<1> QED
  BY <1>2, Resnet50Profiles, ConvnextProfiles, MobilenetProfiles, ShufflenetProfiles,
     BertProfiles, RappProfiles

(* A configuration of the tables takes something of a GPU.                 *)
IsConfig(c) ==
    /\ c.sm \in Nat /\ c.sm > 0 /\ c.quota \in Nat /\ c.quota > 0
    /\ c.batch \in {2, 4}

LEMMA ConfigsAreOfProfiles ==
    ASSUME NEW model, NEW c \in ConfigsOf(model)
    PROVE  IsConfig(c)
<1>1. model \in Range(DefaultModels)
  BY CachedModels DEF ConfigsOf
<1>2. model \in DOMAIN DefaultData
  BY <1>1 DEF DefaultData
<1>3. PICK p \in DefaultData[model] : c = [sm |-> p.sm, quota |-> p.quota, batch |-> p.batch]
  BY <1>1, CachedModels DEF ConfigsOf
<1>4. IsProfile(p)
  BY <1>2, ProfilesOfModels
<1> QED
  BY <1>3, <1>4 DEF IsProfile, IsConfig

(* A call without arguments finds something to visit.                      *)
LEMMA Resnet50IsProfiled == ConfigsOf("resnet50") # {}
<1>1. "resnet50" \in Range(DefaultModels)
  BY ModelNames
<1>2. DefaultData["resnet50"] = resnet50
  BY <1>1 DEF DefaultData
<1>3. resnet50 # {}
  <2> DEFINE a == {<<10, 2522491>>, <<20, 773300>>, <<30, 537186>>, <<40, 351840>>,
                   <<50, 318869>>, <<70, 211681>>, <<90, 208474>>, <<100, 209031>>}
  <2>1. <<10, 2522491>> \in a
    OBVIOUS
  <2>2. Profiles(30, 4, a) \subseteq resnet50
    BY DEF resnet50
  <2> HIDE DEF a
  <2> DEFINE p(e) == [sm |-> 30, batch |-> 4, quota |-> e[1], latency |-> e[2]]
  <2>3. Profiles(30, 4, a) = {p(e) : e \in a}
    BY DEF Profiles
  <2>4. p(<<10, 2522491>>) \in Profiles(30, 4, a)
    BY <2>1, <2>3
  <2> QED
    BY <2>2, <2>4
<1>4. ConfigsOf("resnet50")
        = {[sm |-> p.sm, quota |-> p.quota, batch |-> p.batch] : p \in resnet50}
  BY <1>1, <1>2, CachedModels DEF ConfigsOf
<1> QED
  BY <1>3, <1>4

-----------------------------------------------------------------------------
(* Throughput, and what is more efficient.                                 *)
LEMMA ThroughputType ==
    ASSUME NEW latency \in Nat, NEW batch \in Nat
    PROVE  Throughput(latency, batch) \in Nat
BY DEF Throughput

LEMMA TablesAreSlow ==
    ASSUME NEW latency \in Nat, latency >= 100000, NEW batch \in {2, 4}
    PROVE  Throughput(latency, batch) < RequiredThroughput
<1>1. CASE batch = 2
  BY <1>1 DEF Throughput, RequiredThroughput
<1>2. CASE batch = 4
  BY <1>2 DEF Throughput, RequiredThroughput
<1> QED
  BY <1>1, <1>2

LEMMA getThroughputBelow ==
    ASSUME NEW model, NEW sm, NEW batch, NEW quota
    PROVE  /\ getThroughput(model, sm, batch, quota) \in Nat
           /\ getThroughput(model, sm, batch, quota) < RequiredThroughput
<1> DEFINE found == {p \in IF model \in DOMAIN DefaultData THEN DefaultData[model] ELSE {} :
                       p.sm = sm /\ p.batch = batch /\ p.quota = quota}
           q == CHOOSE p \in found : TRUE
<1>1. getThroughput(model, sm, batch, quota)
        = IF found = {} THEN 0 ELSE Throughput(q.latency, batch)
  BY DEF getThroughput
<1>2. CASE found = {}
  BY <1>1, <1>2 DEF RequiredThroughput
<1>3. CASE found # {}
  <2>1. q \in found
    BY <1>3
  <2>2. model \in DOMAIN DefaultData /\ q \in DefaultData[model] /\ q.batch = batch
    BY <2>1
  <2> HIDE DEF found, q
  <2>3. IsProfile(q)
    BY <2>2, ProfilesOfModels
  <2>4. q.latency \in Nat /\ q.latency >= 100000
    BY <2>3 DEF IsProfile
  <2>5. batch \in {2, 4} /\ batch \in Nat
    BY <2>2, <2>3 DEF IsProfile
  <2>6. /\ Throughput(q.latency, batch) \in Nat
        /\ Throughput(q.latency, batch) < RequiredThroughput
    <3>1. \A l \in Nat : Throughput(l, batch) \in Nat
      BY <2>5, ThroughputType
    <3>2. \A l \in Nat : l >= 100000 => Throughput(l, batch) < RequiredThroughput
      BY <2>5, TablesAreSlow
    <3> QED
      BY <2>4, <3>1, <3>2
  <2>7. getThroughput(model, sm, batch, quota) = Throughput(q.latency, batch)
    BY <1>1, <1>3
  <2> QED
    BY <2>6, <2>7
<1> QED
  BY <1>2, <1>3

LEMMA AnswersAreThroughputs ==
    ASSUME NEW words, NEW c, IsConfig(c), NEW t \in AnswersFor(words, c)
    PROVE  t \in Nat
<1>1. c.batch \in Nat /\ c.batch # 0
  BY DEF IsConfig
<1>2. PICK model \in extractModelName(words) :
         t \in CASE model = "rapp"    -> {Throughput(100000, c.batch)}
                 [] model = "bert-qt" -> {getThroughput(model, c.sm, c.batch, c.quota)}
                 [] OTHER -> {getThroughput(model, c.sm, c.batch, c.quota)}
                             \cup {Throughput(l, c.batch) : l \in RemoteLatency}
  BY <1>1 DEF AnswersFor, RappAnswers
<1>3. getThroughput(model, c.sm, c.batch, c.quota) \in Nat
  BY getThroughputBelow
<1>4. \A l \in Nat : Throughput(l, c.batch) \in Nat
  BY <1>1, ThroughputType
<1> HIDE DEF Throughput
<1>5. RemoteLatency \subseteq Nat /\ 100000 \in Nat
  BY RemoteLatencyAssumption
<1> QED
  BY <1>2, <1>3, <1>4, <1>5

(* Nothing beats itself; and what is not better than the best is not       *)
(* better than what beats the best.                                        *)
LEMMA NotBetterThanItself ==
    ASSUME NEW c, IsConfig(c), NEW t \in Nat
    PROVE  ~MoreEfficient(c, t, c, t)
BY DEF MoreEfficient, IsConfig

LEMMA EfficiencyOrder ==
    ASSUME NEW t \in Nat, NEW u \in Nat, NEW v \in Nat,
           NEW rb \in Nat, NEW rc \in Nat, NEW rn \in Nat, rb > 0, rc > 0, rn > 0,
           t * rb <= u * rc, u * rn < v * rb
    PROVE  t * rn <= v * rc
OBVIOUS

LEMMA BeatenStaysBeaten ==
    ASSUME NEW b, IsConfig(b), NEW c, IsConfig(c), NEW n, IsConfig(n),
           NEW t \in Nat, NEW u \in Nat, NEW v \in Nat,
           ~MoreEfficient(c, t, b, u), MoreEfficient(n, v, b, u)
    PROVE  ~MoreEfficient(c, t, n, v)
<1> DEFINE rb == b.sm * b.quota
           rc == c.sm * c.quota
           rn == n.sm * n.quota
<1>1. /\ rb \in Nat /\ rb > 0 /\ rc \in Nat /\ rc > 0 /\ rn \in Nat /\ rn > 0
  BY DEF IsConfig
<1>2. ~(t * rb > u * rc) /\ v * rb > u * rn
  BY DEF MoreEfficient
<1> HIDE DEF rb, rc, rn
<1>3. t * rb <= u * rc /\ u * rn < v * rb
  BY <1>1, <1>2
<1>4. t * rn <= v * rc
  BY <1>1, <1>3, EfficiencyOrder
<1>5. ~(t * rn > v * rc)
  BY <1>1, <1>4
<1> QED
  BY <1>5 DEF MoreEfficient, rn, rc

-----------------------------------------------------------------------------
(* What the comparisons need to know of what has been answered.            *)
LEMMA AnswersOfConfigs ==
    ASSUME NEW model, Visited(model), NEW c \in DOMAIN answered
    PROVE  IsConfig(c) /\ answered[c] \in Nat
<1>1. c \in ConfigsOf(model)
  BY DEF Visited
<1>2. IsConfig(c)
  BY <1>1, ConfigsAreOfProfiles
<1>3. answered[c] \in AnswersFor(funcname, c)
  BY DEF Visited
<1> QED
  BY <1>2, <1>3, AnswersAreThroughputs

LEMMA InitHolds == Init => IInv
BY DEF Init, IInv, Searching

LEMMA CallForRappStep ==
    ASSUME IInv, CallForRapp
    PROVE  IInv'
<1>1. /\ funcname' \in Names /\ "rapp" \in funcname'
      /\ best' = RappConfig /\ place' = "done"
  BY DEF CallForRapp
<1> QED
  BY <1>1 DEF IInv, Searching

(* A call starts with nothing visited.                                     *)
LEMMA CallStep ==
    ASSUME IInv, Call
    PROVE  IInv'
<1>1. /\ place' = "search" /\ best' = DefaultConfig /\ bestRPS' = 0 /\ answered' = <<>>
      /\ funcname' = NoName \/ (funcname' \in Names /\ "rapp" \notin funcname')
  BY DEF Call
<1>2. PICK model \in ModelOf(funcname') : left' = ConfigsOf(model)
  BY DEF Call
<1>3. DOMAIN answered' = {}
  BY <1>1
<1>4. Visited(model)'
  BY <1>2, <1>3 DEF Visited
<1>5. NothingMeets'
  BY <1>1, <1>3 DEF NothingMeets, Meeting
<1>6. (\E m \in ModelOf(funcname) : Visited(m))'
  BY <1>2, <1>4
<1> QED
  BY <1>1, <1>5, <1>6 DEF IInv, Searching

(* The configuration that is visited, and its answer.                      *)
Answers(config, t) ==
    /\ left' = left \ {config}
    /\ answered' = [c \in DOMAIN answered \cup {config} |->
                      IF c = config THEN t ELSE answered[c]]
    /\ IF Improves(config, t) THEN best' = config /\ bestRPS' = t
                              ELSE UNCHANGED <<best, bestRPS>>
    /\ UNCHANGED <<place, funcname>>

LEMMA VisitedStep ==
    ASSUME NEW model, Visited(model), funcname # NoName,
           NEW config \in left, NEW t \in AnswersFor(funcname, config), Answers(config, t)
    PROVE  Visited(model)'
<1>1. /\ DOMAIN answered' = DOMAIN answered \cup {config}
      /\ answered'[config] = t
      /\ \A c \in DOMAIN answered : c # config => answered'[c] = answered[c]
      /\ left' = left \ {config} /\ funcname' = funcname
  BY DEF Answers
<1>2. /\ left' \cup DOMAIN answered' = ConfigsOf(model)
      /\ left' \cap DOMAIN answered' = {}
  BY <1>1 DEF Visited
<1>3. \A c \in DOMAIN answered' : answered'[c] \in AnswersFor(funcname', c)
  BY <1>1 DEF Visited
<1>4. funcname' = NoName => DOMAIN answered' = {}
  BY <1>1
<1> HIDE DEF AnswersFor, ConfigsOf
<1> QED
  BY <1>2, <1>3, <1>4 DEF Visited

LEMMA BestStep ==
    ASSUME NEW model, Visited(model), NothingMeets \/ BestMeets,
           NEW config \in left, NEW t \in AnswersFor(funcname, config), Answers(config, t)
    PROVE  (NothingMeets \/ BestMeets)'
<1>1. config \notin DOMAIN answered /\ config \in ConfigsOf(model)
  BY DEF Visited
<1>2. IsConfig(config) /\ t \in Nat
  BY <1>1, ConfigsAreOfProfiles, AnswersAreThroughputs
<1>3. /\ DOMAIN answered' = DOMAIN answered \cup {config}
      /\ answered'[config] = t
      /\ \A c \in DOMAIN answered : answered'[c] = answered[c]
  BY <1>1 DEF Answers
<1>4. Meeting' = IF t >= RequiredThroughput THEN Meeting \cup {config} ELSE Meeting
  BY <1>1, <1>3 DEF Meeting
<1>5. config \notin Meeting
  BY <1>1 DEF Meeting
<1>6. \A c \in Meeting : IsConfig(c) /\ answered[c] \in Nat /\ answered'[c] = answered[c]
  BY <1>3, AnswersOfConfigs DEF Meeting
<1>7. CASE ~(t >= RequiredThroughput)
  <2>1. best' = best /\ bestRPS' = bestRPS
    BY <1>7 DEF Answers, Improves
  <2>2. Meeting' = Meeting
    BY <1>4, <1>7
  <2>3. CASE NothingMeets
    BY <2>1, <2>2, <2>3 DEF NothingMeets
  <2>4. CASE BestMeets
    BY <1>6, <2>1, <2>2, <2>4 DEF BestMeets
  <2> QED
    BY <2>3, <2>4
<1>8. CASE t >= RequiredThroughput /\ NothingMeets
  <2>1. best' = config /\ bestRPS' = t
    BY <1>8 DEF Answers, Improves, NothingMeets
  <2>2. Meeting' = {config}
    BY <1>4, <1>8 DEF NothingMeets
  <2>3. ~MoreEfficient(config, t, config, t)
    BY <1>2, NotBetterThanItself
  <2> QED
    BY <1>3, <2>1, <2>2, <2>3 DEF BestMeets
<1>9. CASE t >= RequiredThroughput /\ BestMeets
  <2>1. /\ best \in Meeting /\ bestRPS = answered[best]
        /\ \A c \in Meeting : ~MoreEfficient(c, answered[c], best, bestRPS)
    BY <1>9 DEF BestMeets
  <2>2. IsConfig(best) /\ bestRPS \in Nat /\ bestRPS # 0
    BY <1>6, <2>1 DEF Meeting, RequiredThroughput
  <2>3. Meeting' = Meeting \cup {config}
    BY <1>4, <1>9
  <2>4. CASE MoreEfficient(config, t, best, bestRPS)
    <3>1. best' = config /\ bestRPS' = t
      BY <1>9, <2>4 DEF Answers, Improves
    <3>2. ~MoreEfficient(config, t, config, t)
      BY <1>2, NotBetterThanItself
    <3>3. ASSUME NEW c \in Meeting
          PROVE  ~MoreEfficient(c, answered[c], config, t)
      BY <1>2, <1>6, <2>1, <2>2, <2>4, BeatenStaysBeaten
    <3>4. \A c \in Meeting' : ~MoreEfficient(c, answered'[c], best', bestRPS')
      BY <1>3, <1>6, <2>3, <3>1, <3>2, <3>3
    <3> QED
      BY <1>3, <2>3, <3>1, <3>4 DEF BestMeets
  <2>5. CASE ~MoreEfficient(config, t, best, bestRPS)
    <3>1. best' = best /\ bestRPS' = bestRPS
      BY <2>2, <2>5 DEF Answers, Improves
    <3>2. \A c \in Meeting' : ~MoreEfficient(c, answered'[c], best', bestRPS')
      BY <1>3, <1>6, <2>1, <2>3, <2>5, <3>1
    <3>3. best' \in Meeting' /\ bestRPS' = answered'[best']
      BY <1>6, <2>1, <2>3, <3>1
    <3> QED
      BY <3>2, <3>3 DEF BestMeets
  <2> QED
    BY <2>4, <2>5
<1> QED
  BY <1>7, <1>8, <1>9

LEMMA VisitStep ==
    ASSUME IInv, Visit
    PROVE  IInv'
<1>1. /\ place = "search" /\ funcname # NoName /\ place' = "search" /\ funcname' = funcname
  BY DEF Visit
<1>2. PICK model \in ModelOf(funcname) : Visited(model)
  BY <1>1 DEF IInv, Searching
<1>3. NothingMeets \/ BestMeets
  BY <1>1 DEF IInv, Searching
<1>4. PICK config \in left : \E t \in AnswersFor(funcname, config) : Answers(config, t)
  BY DEF Visit, Answers
<1>5. PICK t \in AnswersFor(funcname, config) : Answers(config, t)
  BY <1>4
<1>6. Visited(model)'
  BY <1>1, <1>2, <1>5, VisitedStep
<1>7. (NothingMeets \/ BestMeets)'
  BY <1>2, <1>3, <1>5, BestStep
<1>8. (\E m \in ModelOf(funcname) : Visited(m))'
  BY <1>1, <1>2, <1>6
<1>9. funcname \in Names /\ "rapp" \notin funcname
  BY <1>1 DEF IInv
<1> QED
  BY <1>1, <1>7, <1>8, <1>9 DEF IInv, Searching

LEMMA VisitPanicsStep ==
    ASSUME IInv, VisitPanics
    PROVE  IInv'
BY DEF IInv, VisitPanics, Searching

(* The loop over no argument always has something to visit.                *)
LEMMA ReturnStep ==
    ASSUME IInv, Return
    PROVE  IInv'
<1>1. /\ place = "search" /\ left = {} /\ place' = "done"
      /\ UNCHANGED <<funcname, left, best, bestRPS, answered>>
  BY DEF Return
<1>2. PICK model \in ModelOf(funcname) : Visited(model)
  BY <1>1 DEF IInv, Searching
<1>3. funcname # NoName
  <2> SUFFICES ASSUME funcname = NoName PROVE FALSE
    OBVIOUS
  <2>1. model = "resnet50"
    BY <1>2 DEF ModelOf
  <2>2. ConfigsOf(model) = {}
    BY <1>1, <1>2 DEF Visited
  <2> QED
    BY <2>1, <2>2, Resnet50IsProfiled
<1>4. funcname \in Names /\ "rapp" \notin funcname
  BY <1>1, <1>3 DEF IInv
<1>5. (NothingMeets \/ BestMeets)
  BY <1>1 DEF IInv, Searching
<1>6. (NothingMeets \/ BestMeets)'
  BY <1>1, <1>5 DEF NothingMeets, BestMeets, Meeting
<1>7. Visited(model)'
  BY <1>1, <1>2 DEF Visited
<1>8. (\E m \in ModelOf(funcname) : Visited(m))'
  BY <1>1, <1>2, <1>7
<1> QED
  BY <1>1, <1>4, <1>6, <1>8 DEF IInv, Searching

LEMMA StutterStep ==
    ASSUME IInv, UNCHANGED vars
    PROVE  IInv'
<1>1. UNCHANGED <<place, funcname, left, best, bestRPS, answered>>
  BY DEF vars
<1> QED
  BY <1>1 DEF IInv, Searching, NothingMeets, BestMeets, Meeting, Visited

LEMMA IInvAlways == Spec => []IInv
<1>1. IInv /\ [Next]_vars => IInv'
  BY CallForRappStep, CallStep, VisitStep, VisitPanicsStep, ReturnStep, StutterStep DEF Next
<1> QED
  BY <1>1, InitHolds, PTL DEF Spec

-----------------------------------------------------------------------------
(* GetMostEfficientConfig returns the best answer that meets 35 RPS, or    *)
(* the default if none does, however its maps are walked: the early        *)
(* winners it forgets would not have won later either.                     *)
THEOREM SearchIsRight == Spec => []ChoiceIsEfficient
<1>1. IInv => ChoiceIsEfficient
  <2> SUFFICES ASSUME IInv, place = "done", "rapp" \notin funcname
               PROVE  IF Meeting = {} THEN best = DefaultConfig
                      ELSE /\ best \in Meeting
                           /\ \A c \in Meeting :
                                ~MoreEfficient(c, answered[c], best, answered[best])
    BY DEF ChoiceIsEfficient, Meeting
  <2>1. NothingMeets \/ BestMeets
    BY DEF IInv, Searching
  <2> QED
    BY <2>1 DEF NothingMeets, BestMeets
<1> QED
  BY <1>1, IInvAlways, PTL

(* What EfficientConfigs allows for the tables of one model.               *)
AllowedOf(words, all) ==
    {c \in all : \E t \in AnswersFor(words, c) :
        /\ t >= RequiredThroughput
        /\ \A d \in all \ {c} : \E u \in AnswersFor(words, d) :
             ~(u >= RequiredThroughput) \/ ~MoreEfficient(d, u, c, t)}
    \cup {c \in {DefaultConfig} :
            \A d \in all : \E u \in AnswersFor(words, d) : ~(u >= RequiredThroughput)}

LEMMA AllowedForModels ==
    ASSUME NEW words, "rapp" \notin words, NEW model \in extractModelName(words)
    PROVE  AllowedOf(words, ConfigsOf(model)) \subseteq EfficientConfigs(words)
<1> HIDE DEF ConfigsOf, AnswersFor
<1> QED
  BY DEF AllowedOf, EfficientConfigs

(* The answers of one call are a choice of one answer for each             *)
(* configuration, so the search returns a configuration the reconciler     *)
(* reckons with: EfficientConfigs is all that the models of the first pod  *)
(* know of the search.                                                     *)
THEOREM SearchIsAllowed == Spec => []ChoiceIsAllowed
<1>1. IInv => ChoiceIsAllowed
  <2> SUFFICES ASSUME IInv, place = "done"
               PROVE  best \in EfficientConfigs(funcname)
    BY DEF ChoiceIsAllowed
  <2>1. CASE "rapp" \in funcname
    BY <2>1 DEF IInv, EfficientConfigs
  <2>2. CASE "rapp" \notin funcname
    <3>1. Searching /\ left = {} /\ funcname \in Names /\ funcname # NoName
      BY <2>2, NamesAssumption DEF IInv, Searching
    <3>2. PICK model \in ModelOf(funcname) : Visited(model)
      BY <3>1 DEF IInv
    <3>3. model \in extractModelName(funcname)
      BY <3>1, <3>2 DEF ModelOf
    <3> DEFINE all == ConfigsOf(model)
    <3>4. /\ DOMAIN answered = all
          /\ \A c \in all : answered[c] \in AnswersFor(funcname, c)
      BY <3>1, <3>2 DEF Visited
    <3> HIDE DEF all
    <3>5. CASE NothingMeets
      <4>1. \A d \in all : ~(answered[d] >= RequiredThroughput)
        BY <3>4, <3>5 DEF NothingMeets, Meeting
      <4>2. best \in AllowedOf(funcname, all)
        BY <3>4, <3>5, <4>1 DEF AllowedOf, NothingMeets
      <4> QED
        BY <2>2, <3>3, <4>2, AllowedForModels DEF all
    <3>6. CASE BestMeets
      <4>1. best \in all /\ answered[best] >= RequiredThroughput
        BY <3>4, <3>6 DEF BestMeets, Meeting
      <4>2. ASSUME NEW d \in all \ {best}
            PROVE  ~(answered[d] >= RequiredThroughput)
                   \/ ~MoreEfficient(d, answered[d], best, answered[best])
        BY <3>4, <3>6 DEF BestMeets, Meeting
      <4>3. \A d \in all \ {best} : \E u \in AnswersFor(funcname, d) :
              ~(u >= RequiredThroughput) \/ ~MoreEfficient(d, u, best, answered[best])
        BY <3>4, <4>2
      <4>4. best \in AllowedOf(funcname, all)
        BY <3>4, <4>1, <4>3 DEF AllowedOf
      <4> QED
        BY <2>2, <3>3, <4>4, AllowedForModels DEF all
    <3> QED
      BY <3>1, <3>5, <3>6 DEF IInv
  <2> QED
    BY <2>1, <2>2
<1> QED
  BY <1>1, IInvAlways, PTL

(* No profile of the tables meets 35 RPS, so without the service the       *)
(* search returns the default configuration for every function.            *)
THEOREM TablesNeverMeet == Spec => []TablesGiveDefault
<1>1. IInv => TablesGiveDefault
  <2> SUFFICES ASSUME IInv, place = "search", bestRPS > 0,
                      NEW model \in extractModelName(funcname)
               PROVE  bestRPS # getThroughput(model, best.sm, best.batch, best.quota)
    BY DEF TablesGiveDefault
  <2>1. BestMeets
    BY DEF IInv, Searching, NothingMeets
  <2>2. bestRPS >= RequiredThroughput
    BY <2>1 DEF BestMeets, Meeting
  <2>3. /\ getThroughput(model, best.sm, best.batch, best.quota) \in Nat
        /\ getThroughput(model, best.sm, best.batch, best.quota) < RequiredThroughput
    BY getThroughputBelow
  <2> QED
    BY <2>2, <2>3 DEF RequiredThroughput
<1> QED
  BY <1>1, IInvAlways, PTL

=============================================================================
