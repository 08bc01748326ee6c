--------------------------- MODULE EfficientConfig ---------------------------
(***************************************************************************)
(* The search of GetMostEfficientConfig, called for one name after the     *)
(* other: a loop over three nested maps, which Go walks in any order, and  *)
(* one call of rapp per round, which the RaPP service may answer or not.   *)
(***************************************************************************)
EXTENDS ThroughputProfile

CONSTANTS
    Names,     \* the names it is called with, as sets of words
    NoName     \* a call without arguments
ASSUME NamesAssumption == Names \subseteq SUBSET Word /\ NoName \notin Names

VARIABLES
    place,     \* "idle", "search", "done" or "panic"
    funcname,  \* the argument
    left,      \* the configurations the loops have still to visit
    best,      \* bestSM, bestQuota, bestBatch
    bestRPS,   \* the answer bestEfficiency was made of, 0 at first
    answered   \* what this call has been answered: configuration -> throughput

vars == <<place, funcname, left, best, bestRPS, answered>>

Init ==
    /\ place = "idle"
    /\ funcname = NoName
    /\ left = {}
    /\ best = DefaultConfig
    /\ bestRPS = 0
    /\ answered = <<>>

ModelOf(name) == IF name = NoName THEN {"resnet50"} ELSE extractModelName(name)

CallForRapp ==
    /\ place \in {"idle", "done"}
    /\ funcname' \in {name \in Names : "rapp" \in name}
    /\ best' = RappConfig
    /\ place' = "done"
    /\ answered' = <<>>
    /\ UNCHANGED <<left, bestRPS>>

(* A model without profile leaves nothing to visit.                        *)
Call ==
    /\ place \in {"idle", "done"}
    /\ funcname' \in {NoName} \cup {name \in Names : "rapp" \notin name}
    /\ \E model \in ModelOf(funcname') : left' = ConfigsOf(model)
    /\ best' = DefaultConfig
    /\ bestRPS' = 0
    /\ answered' = <<>>
    /\ place' = "search"

(* Faulty variant of Improves: an answer is compared with the best one,    *)
(* whatever it takes.                                                      *)
AnswersMore(config, t) == t >= RequiredThroughput /\ t > bestRPS

(* Faulty variant of Improves: any answer will do.                         *)
ImprovesAnyhow(config, t) == bestRPS = 0 \/ MoreEfficient(config, t, best, bestRPS)

Improves(config, t) ==
    /\ t >= RequiredThroughput
    /\ bestRPS = 0 \/ MoreEfficient(config, t, best, bestRPS)

Visit ==
    /\ place = "search"
    /\ funcname # NoName
    /\ \E config \in left : \E t \in AnswersFor(funcname, config) :
         /\ left' = left \ {config}
         /\ answered' = [c \in DOMAIN answered \cup {config} |->
                            IF c = config THEN t ELSE answered[c]]
         /\ IF Improves(config, t) THEN best' = config /\ bestRPS' = t
                                  ELSE UNCHANGED <<best, bestRPS>>
    /\ UNCHANGED <<place, funcname>>

(* The loop reads funcname[0], which a call without arguments has not.     *)
VisitPanics ==
    /\ place = "search"
    /\ funcname = NoName
    /\ left # {}
    /\ place' = "panic"
    /\ UNCHANGED <<funcname, left, best, bestRPS, answered>>

Return ==
    /\ place = "search"
    /\ left = {}
    /\ place' = "done"
    /\ UNCHANGED <<funcname, left, best, bestRPS, answered>>

Next == CallForRapp \/ Call \/ Visit \/ VisitPanics \/ Return

Spec == Init /\ [][Next]_vars

-----------------------------------------------------------------------------
(* Whatever the order of the maps and whoever answers, the search returns  *)
(* one of the configurations that HASReconciler may give to a first pod.   *)
ChoiceIsAllowed == place = "done" => best \in EfficientConfigs(funcname)

(* Of the answers of this call, the search has found one that meets 35 RPS *)
(* and is beaten by no other, or the default if none does.                 *)
ChoiceIsEfficient ==
    place = "done" /\ "rapp" \notin funcname =>
        LET meeting == {c \in DOMAIN answered : answered[c] >= RequiredThroughput}
        IN  IF meeting = {} THEN best = DefaultConfig
            ELSE /\ best \in meeting
                 /\ \A c \in meeting : ~MoreEfficient(c, answered[c], best, answered[best])

(* Only the service leads away from the default configuration: no profile  *)
(* of the tables the process works with reaches 35 RPS.                    *)
TablesGiveDefault ==
    place = "search" /\ bestRPS > 0 =>
        \A model \in extractModelName(funcname) :
            bestRPS # getThroughput(model, best.sm, best.batch, best.quota)

=============================================================================
