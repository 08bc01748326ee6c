----------------------------- MODULE UsageRecord -----------------------------
(***************************************************************************)
(* recordGPUUsageData, which at the end of every tick appends to a file    *)
(* what the ledger says of each GPU: a line for every entry of PodsConfig. *)
(* It takes the function, and if need be the partition, from the name of   *)
(* the pod, which the code splits at its hyphens.                          *)
(***************************************************************************)
EXTENDS HASReconciler

CONSTANT FuncParts      \* function -> the parts of its name

(* A part of a name: its letter if that is "q" or "p", and what follows    *)
(* the letter if that is a number.                                         *)
NoNumber == -1
Word == [letter |-> "other", number |-> NoNumber]
Part(letter, number) == [letter |-> letter, number |-> number]

IsPart(part, letter) == part.letter = letter /\ part.number # NoNumber

(* No part of a function's name looks like a quota or a partition.         *)
ASSUME FuncPartsAssumption ==
    \A f \in Func : /\ FuncParts[f] \in Seq([letter : {"q", "p", "other"}, number : {NoNumber}])
                    /\ FuncParts[f] # <<>>
                    /\ \A i \in DOMAIN FuncParts[f] : FuncParts[f][i].letter # "p"

-----------------------------------------------------------------------------
(* Names as they are made: -q30-p50, with a suffix for a FaSTPod; a        *)
(* negative partition is a part of its own, behind a bare "p".             *)
SMParts(sm) == IF sm < 0 THEN <<Part("p", NoNumber), Word>> ELSE <<Part("p", sm)>>

PartsOf(f, quota, sm, suffix) ==
    FuncParts[f] \o <<Part("q", quota)>> \o SMParts(sm) \o suffix

PartsOfName(n) ==
    IF IsReal(n) THEN PartsOf(FuncOf(n), fastPod[n].quota, fastPod[n].sm, <<Word>>)
    ELSE PartsOf(n[1], n[2], n[3], <<>>)

(* What stands before the first quota, if a partition comes right after.   *)
extractFunctionNameFromPod(parts) ==
    LET quotas == {i \in DOMAIN parts : IsPart(parts[i], "q")}
        q      == Min(quotas)
    IN  IF /\ Len(parts) >= 3
           /\ quotas # {} /\ q > 1
           /\ q < Len(parts) /\ IsPart(parts[q + 1], "p")
        THEN SubSeq(parts, 1, q - 1) ELSE parts

(* Faulty variant of extractPartitionFromPodName: reads the quota.          *)
extractFirstNumber(parts) ==
    LET numbered == {i \in DOMAIN parts : parts[i].number # NoNumber}
    IN  IF numbered = {} THEN 0 ELSE parts[Min(numbered)].number

(* The number behind the first "p", and 0 if there is none.                *)
extractPartitionFromPodName(parts) ==
    LET ps == {i \in DOMAIN parts : parts[i].letter = "p"}
    IN  IF ps = {} \/ ~IsPart(parts[Min(ps)], "p") THEN 0 ELSE parts[Min(ps)].number

-----------------------------------------------------------------------------
(* A partition the ledger does not know is read from the name.             *)
RecordedSM(info, n) ==
    LET known == ConfOf(info, n).sm
        named == extractPartitionFromPodName(PartsOfName(n))
    IN  IF known > 0 THEN known ELSE IF named > 0 THEN named ELSE 50

Line(g, n) ==
    [gpu |-> g, pod |-> n, function |-> extractFunctionNameFromPod(PartsOfName(n)),
     sm |-> RecordedSM(hasGPUs[g], n), quota |-> ConfOf(hasGPUs[g], n).quota]

(* What one tick appends; a GPU without pods has a line of zeros, left out *)
(* here.                                                                   *)
RecordedPods == UNION {{g} \X DOMAIN hasGPUs[g].conf : g \in DOMAIN hasGPUs}

-----------------------------------------------------------------------------
(* Properties.                                                             *)

(* A FaSTPod is recorded for its function, with the partition of its row   *)
(* or, when no row names it, with its own, which only its name still says: *)
(* the quota loop leaves an entry without one for a pod that its row holds *)
(* under the provisional name.                                             *)
RecordedPartition ==
    pc = "idle" =>
        \A x \in {y \in RecordedPods : y[2] \in DOMAIN fastPod} :
            LET info == hasGPUs[x[1]]
                line == Line(x[1], x[2])
                rows == RowsOf(info, x[2])
            IN  /\ line.function = FuncParts[FuncOf(x[2])]
                /\ line.sm \in IF rows = {} THEN {fastPod[x[2]].sm} ELSE {info.sm[r] : r \in rows}

=============================================================================
