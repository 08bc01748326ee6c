--------------------------- MODULE MCHASReconciler ---------------------------
(***************************************************************************)
(* Values for the constants of HASReconciler.  What rapp may answer, and   *)
(* the configuration of a first pod, come from ThroughputProfile.          *)
(***************************************************************************)
EXTENDS HASDocumented

CONSTANTS f1, f2, g1, g2

(* The tables alone, and with a service that may report 40 ms at any time. *)
Tables == INSTANCE ThroughputProfile WITH RemoteLatency <- {}
Service == INSTANCE ThroughputProfile WITH RemoteLatency <- {400000}

(* Partition and quota; the batch size is 4 throughout.  TLC evaluates a   *)
(* table once if it is the right-hand side of @@.                          *)
Configs == {30, 50, 70} \X {10 * k : k \in 1 .. 20}
Table(answers) == <<>> @@ answers
ProfileOf(table) == [x \in {<<f>> \o c : f \in Func, c \in Configs} |-> table[<<x[2], x[3]>>]]

FirstPods(configs) == {[sm |-> c.sm, quota |-> c.quota] : c \in configs}

(* A function "bert", which is never looked up in the service.             *)
Bert == {"bert"}
BertTable == Table([c \in Configs |-> Tables!RappAnswers(Bert, 4, c[1], c[2])])
BertProfile == ProfileOf(BertTable)
AllBert == [f \in Func |-> Tables!getFunctionTypeFromName(Bert)]
BertPods == FirstPods(Tables!EfficientConfigs(Bert))
BertConfig == [f \in Func |-> BertPods]

(* A function "rapp" beside it, which gets an instance and nothing else.   *)
RappPods == FirstPods(Tables!EfficientConfigs({"rapp"}))
RappConfig == [f \in Func |-> IF f \in RappFunc THEN RappPods ELSE BertPods]

(* A function "resnet", for which the service answers or does not.         *)
Resnet == {"resnet"}
ResnetTable == Table([c \in Configs |-> Service!RappAnswers(Resnet, 4, c[1], c[2])])
ResnetProfile == ProfileOf(ResnetTable)
AllResnet == [f \in Func |-> Tables!getFunctionTypeFromName(Resnet)]
ResnetPods == FirstPods(Service!EfficientConfigs(Resnet))
ResnetConfig == [f \in Func |-> ResnetPods]

AllGPUs == {GPU}

(* Function names like "bert-base": two parts that are words.              *)
WordNames == [f \in Func |-> <<Word, Word>>]

(* The functions, and the GPUs, are interchangeable where all get the      *)
(* same configuration; used without liveness properties only.              *)
Symmetry == Permutations(Func) \cup Permutations(GPU)

=============================================================================
