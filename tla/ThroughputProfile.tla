-------------------------- MODULE ThroughputProfile --------------------------
(***************************************************************************)
(* What a pod of a configuration serves: the profile tables and rapp() of  *)
(* tmp_database.go.  A latency is an integer in ten-thousandths of a       *)
(* millisecond, the precision of the tables; a throughput is in tenths of  *)
(* a request per second, as in HASAutoscaler.                              *)
(*                                                                         *)
(* The RaPP service is outside this repository.  It may answer any call    *)
(* with any latency of RemoteLatency, or not at all.                       *)
(***************************************************************************)
EXTENDS Integers, SequencesExt

CONSTANT RemoteLatency   \* the latencies the RaPP service may report
ASSUME RemoteLatencyAssumption == RemoteLatency \subseteq Nat \ {0}

(* A function name, by the words that the code looks for in it.            *)
Word == {"rapp", "resnet", "resnet50", "convnext", "convnext-large", "mobilenet",
         "mobilenet-v3-large", "shufflenet", "shufflenet-v2-0.5", "bert", "bert-qt", "gpt"}

-----------------------------------------------------------------------------
(* The tables of initializeDefaultProfilingData.  The code nests four maps,  *)
(* model -> SM partition -> batch size -> quota -> latency; here a model has *)
(* a set of profiles, written as the quotas of a partition and a batch size  *)
(* with their latencies.                                                     *)
Profiles(sm, batch, entries) ==
    {[sm |-> sm, batch |-> batch, quota |-> e[1], latency |-> e[2]] : e \in entries}

resnet50 ==
    Profiles(30, 4, {<<10, 2522491>>, <<20, 773300>>, <<30, 537186>>, <<40, 351840>>,
                     <<50, 318869>>, <<70, 211681>>, <<90, 208474>>, <<100, 209031>>})
    \cup
    Profiles(50, 4, {<<10, 2460224>>, <<20, 778447>>, <<30, 546511>>, <<40, 359069>>,
                     <<50, 319668>>, <<70, 211510>>, <<90, 213813>>})

convnext_large ==
    Profiles(50, 4, {<<10, 4049708>>, <<20, 1402963>>, <<30, 967166>>, <<40, 680341>>,
                     <<50, 599109>>, <<70, 565727>>, <<80, 564936>>, <<90, 565984>>,
                     <<100, 566035>>})
    \cup
    Profiles(70, 4, {<<30, 967185>>, <<50, 617110>>, <<70, 426626>>})

mobilenet_v3_large ==
    Profiles(30, 4, {<<10, 3197108>>, <<20, 922712>>, <<30, 654417>>, <<40, 452021>>,
                     <<50, 362635>>, <<70, 261822>>, <<80, 150624>>, <<90, 137754>>,
                     <<100, 107394>>})
    \cup
    Profiles(50, 4, {<<50, 261822>>, <<70, 226579>>, <<90, 133941>>})

shufflenet_v2 ==
    Profiles(50, 4, {<<20, 273490>>, <<50, 101810>>, <<70, 101810>>, <<90, 101810>>})
    \cup
    Profiles(70, 4, {<<20, 281956>>, <<50, 103387>>, <<70, 102795>>, <<90, 102639>>})

bert_qt ==
    Profiles(30, 4, {<<10, 2409081>>, <<20, 1654163>>, <<30, 1069170>>, <<40, 954823>>,
                     <<50, 928406>>, <<60, 871840>>, <<70, 761591>>, <<80, 771591>>,
                     <<90, 761591>>, <<100, 751591>>})
    \cup
    Profiles(50, 4, {<<10, 2304163>>, <<20, 1594163>>, <<30, 1099170>>, <<40, 994823>>,
                     <<50, 878406>>, <<70, 751591>>, <<90, 731591>>, <<100, 711591>>})

(* The table of "rapp" holds one latency throughout.                       *)
rapp_latency == 1000000
rapp_table ==
    (UNION {Profiles(sm, 2, {<<10 * k, rapp_latency>> : k \in 2 .. 10}) : sm \in {10, 20}})
    \cup
    (UNION {Profiles(sm, 4, {<<10 * k, rapp_latency>> : k \in 1 .. 10}) : sm \in {30, 50}})

(* The models in the order initializeDefaultProfilingData adds them.       *)
DefaultModels == <<"resnet50", "convnext-large", "mobilenet-v3-large", "shufflenet-v2-0.5",
                   "bert-qt", "rapp">>

DefaultData ==
    [model \in Range(DefaultModels) |->
       CASE model = "resnet50"           -> resnet50
         [] model = "convnext-large"     -> convnext_large
         [] model = "mobilenet-v3-large" -> mobilenet_v3_large
         [] model = "shufflenet-v2-0.5"  -> shufflenet_v2
         [] model = "bert-qt"            -> bert_qt
         [] model = "rapp"               -> rapp_table]

(* The profiles in graph_features, by model.  What they say is left out.   *)
EmbeddedModels == <<"convnext_large", "mobilenet_v3_large", "resnet50", "shufflenet_v2_x0_5">>

(* fs.ValidPath: embed.FS opens no path with an element "." or "..", save  *)
(* the path "." itself.                                                    *)
ValidPath(path) == path = <<".">> \/ \A i \in DOMAIN path : path[i] \notin {"", ".", ".."}
ProfilingDir == <<".", "graph_features">>

(* initializeProfilingData: the models it puts into modelNamesCache.       *)
modelNamesCache == IF ValidPath(ProfilingDir) THEN EmbeddedModels ELSE DefaultModels

-----------------------------------------------------------------------------
(* Faulty variant of Throughput: 30 ms are added, as the comment says.     *)
ThroughputPlus30(latency, batch) == (50000000 * (batch + 1)) \div (latency + 300000)

(* getThroughput and the answer of the service are made from a latency by  *)
(* the same formula:  1000 / (latency + 70) * (batch + 1) / 2.             *)
Throughput(latency, batch) == (50000000 * (batch + 1)) \div (latency + 700000)

(* getLatency finds nothing for a configuration outside the tables, and    *)
(* getThroughput makes 0 of that.                                          *)
getThroughput(model, sm, batch, quota) ==
    LET found == {p \in IF model \in DOMAIN DefaultData THEN DefaultData[model] ELSE {} :
                    p.sm = sm /\ p.batch = batch /\ p.quota = quota}
    IN  IF found = {} THEN 0 ELSE Throughput((CHOOSE p \in found : TRUE).latency, batch)

modelMappings ==
    [word \in {"resnet", "convnext", "mobilenet", "shufflenet", "bert"} |->
       CASE word = "resnet"     -> "resnet50"
         [] word = "convnext"   -> "convnext-large"
         [] word = "mobilenet"  -> "mobilenet_v3_large"
         [] word = "shufflenet" -> "shufflenet_v2_x0_5"
         [] word = "bert"       -> "bert-qt"]

(* extractModelName, as the set of its possible results: the first model   *)
(* of the cache that the name contains; else one of the mappings, a map    *)
(* that is walked in any order; else "rapp".                               *)
extractModelName(words) ==
    LET named  == SelectSeq(modelNamesCache, LAMBDA m : m \in words)
        mapped == {modelMappings[w] : w \in words \cap DOMAIN modelMappings}
    IN  IF "rapp" \in words THEN {"rapp"}
        ELSE IF named # <<>> THEN {Head(named)}
        ELSE IF mapped # {} THEN mapped ELSE {"rapp"}

defaultBatchSize(model) ==
    CASE model = "shufflenet_v2_x0_5" -> 8
      [] model = "rapp"               -> 2
      [] OTHER                        -> 4

(* rapp(), as the set of its possible results.                             *)
RappAnswers(words, batch, sm, quota) ==
    UNION {LET b     == IF batch = 0 THEN defaultBatchSize(model) ELSE batch
               table == getThroughput(model, sm, b, quota)
           IN  CASE model = "rapp"    -> {Throughput(100000, b)}
                 [] model = "bert-qt" -> {table}
                 [] OTHER -> {table} \cup {Throughput(l, b) : l \in RemoteLatency}
           : model \in extractModelName(words)}

(* getFunctionTypeFromName.                                                *)
FunctionTypes == <<"bert", "resnet", "convnext", "gpt", "mobilenet", "rapp">>
getFunctionTypeFromName(words) ==
    LET found == SelectSeq(FunctionTypes, LAMBDA t : t \in words)
    IN  IF found = <<>> THEN "unknown" ELSE Head(found)

-----------------------------------------------------------------------------
(* The configurations GetMostEfficientConfig can return for a name.        *)
RappConfig == [sm |-> 10, quota |-> 20, batch |-> 2]
DefaultConfig == [sm |-> 30, quota |-> 30, batch |-> 4]
RequiredThroughput == 350

ConfigsOf(model) ==
    IF model \notin Range(modelNamesCache) THEN {}
    ELSE {[sm |-> p.sm, quota |-> p.quota, batch |-> p.batch] : p \in DefaultData[model]}

AnswersFor(words, config) == RappAnswers(words, config.batch, config.sm, config.quota)

(* More throughput per resource unit, SM partition times quota.            *)
MoreEfficient(c, t, d, u) == t * (d.sm * d.quota) > u * (c.sm * c.quota)

(* The reference: of the configurations whose answer meets the requirement *)
(* one that no other beats; the default when none does.                    *)
EfficientConfigs(words) ==
    IF "rapp" \in words THEN {RappConfig}
    ELSE UNION {LET meets(t) == t >= RequiredThroughput
                    all == ConfigsOf(model)
                IN  {c \in all : \E t \in AnswersFor(words, c) :
                        /\ meets(t)
                        /\ \A d \in all \ {c} : \E u \in AnswersFor(words, d) :
                             ~meets(u) \/ ~MoreEfficient(d, u, c, t)}
                    \cup {c \in {DefaultConfig} :
                            \A d \in all : \E u \in AnswersFor(words, d) : ~meets(u)}
                : model \in extractModelName(words)}

=============================================================================
