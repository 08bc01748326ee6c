--------------------------- MODULE UsageRecordProofs ---------------------------
(***************************************************************************)
(* What a tick records of a FaSTPod is right, for any names of functions   *)
(* that do not look like quotas or partitions.  The quota and the          *)
(* partition can be told from the rest of the name because they are        *)
(* positive, which the proof takes from SyncProofs, and the ledger entry   *)
(* is right, or says nothing, which it takes from BookingProofs.           *)
(***************************************************************************)
EXTENDS UsageRecord, SyncProofs

(* A sequence with one element behind it.                                  *)
Extends(st, s, t, S) ==
    /\ st \in Seq(S) /\ Len(st) = Len(s) + 1
    /\ \A i \in 1 .. Len(s) : st[i] = s[i]
    /\ st[Len(s) + 1] = t[1]

LEMMA OneMorePart ==
    ASSUME NEW S, NEW s \in Seq(S), NEW t \in Seq(S), Len(t) = 1
    PROVE  Extends(s \o t, s, t, S)
<1> DEFINE k == Len(s)
<1>1. /\ s \o t \in Seq(S) /\ Len(s \o t) = k + Len(t)
      /\ \A i \in 1 .. k + Len(t) : (s \o t)[i] = IF i <= k THEN s[i] ELSE t[i - k]
  BY ConcatProperties
<1>2. k \in Nat
  BY LenProperties
<1> QED
  BY <1>1, <1>2 DEF Extends

(* The parts of the name of a FaSTPod with a positive quota and partition. *)
MadeOf(parts, f, quota, sm, k) ==
    /\ k \in Nat /\ k > 0
    /\ DOMAIN parts = 1 .. k + 3 /\ Len(parts) = k + 3
    /\ \A i \in 1 .. k : /\ parts[i] = FuncParts[f][i]
                         /\ parts[i].number = NoNumber /\ parts[i].letter # "p"
    /\ parts[k + 1] = Part("q", quota)
    /\ parts[k + 2] = Part("p", sm)
    /\ parts[k + 3] = Word

LEMMA PartsOfFaSTPod ==
    ASSUME NEW f \in Func, NEW quota \in Int, quota > 0, NEW sm \in Int, sm > 0,
           NEW parts, parts = PartsOf(f, quota, sm, <<Word>>)
    PROVE  MadeOf(parts, f, quota, sm, Len(FuncParts[f]))
<1> DEFINE k == Len(FuncParts[f])
           PartRecord == [letter : {"q", "p", "other"}, number : {NoNumber}]
           Parts == [letter : {"q", "p", "other"}, number : Int]
           name == FuncParts[f]
           q == <<Part("q", quota)>>
           p == <<Part("p", sm)>>
           w == <<Word>>
<1>1. /\ name \in Seq(PartRecord) /\ name # <<>>
      /\ \A i \in DOMAIN name : name[i].letter # "p"
  BY FuncPartsAssumption
<1>2. /\ k \in Nat /\ k > 0 /\ DOMAIN name = 1 .. k
      /\ \A i \in 1 .. k : name[i].number = NoNumber /\ name[i].letter # "p"
  <2>1. /\ k = Len(name) /\ k \in Nat /\ DOMAIN name = 1 .. k /\ k > 0
    BY <1>1, LenProperties, EmptySeq
  <2>2. ASSUME NEW i \in 1 .. k
        PROVE  name[i].number = NoNumber /\ name[i].letter # "p"
    <3>1. name[i] \in PartRecord
      BY <1>1, <2>1, ElementOfSeq
    <3> QED
      BY <1>1, <2>1, <3>1
  <2> QED
    BY <2>1, <2>2
<1>3. parts = ((name \o q) \o p) \o w
  <2>1. SMParts(sm) = p
    BY DEF SMParts
  <2> QED
    BY <2>1 DEF PartsOf
<1>4. /\ q \in Seq(Parts) /\ Len(q) = 1 /\ q[1] = Part("q", quota)
      /\ p \in Seq(Parts) /\ Len(p) = 1 /\ p[1] = Part("p", sm)
      /\ w \in Seq(Parts) /\ Len(w) = 1 /\ w[1] = Word
  BY DEF Part, Word, NoNumber
<1>5. name \in Seq(Parts)
  <2>1. PartRecord \subseteq Parts
    BY DEF NoNumber
  <2> HIDE DEF PartRecord, Parts, name
  <2> QED
    BY <1>1, <2>1, SeqMonotonic
<1>6. k = Len(name)
  OBVIOUS
<1> HIDE DEF name, k, q, p, w, Parts, PartRecord
<1>7. /\ name \o q \in Seq(Parts) /\ Len(name \o q) = k + 1
      /\ \A i \in 1 .. k : (name \o q)[i] = name[i]
      /\ (name \o q)[k + 1] = Part("q", quota)
  <2>1. Extends(name \o q, name, q, Parts)
    BY <1>4, <1>5, OneMorePart
  <2> QED
    BY <1>4, <1>6, <2>1 DEF Extends
<1>8. /\ (name \o q) \o p \in Seq(Parts) /\ Len((name \o q) \o p) = k + 2
      /\ \A i \in 1 .. k + 1 : ((name \o q) \o p)[i] = (name \o q)[i]
      /\ ((name \o q) \o p)[k + 2] = Part("p", sm)
  <2>1. k + 1 \in Nat /\ (k + 1) + 1 = k + 2
    BY <1>2
  <2>2. Extends((name \o q) \o p, name \o q, p, Parts)
    BY <1>4, <1>7, OneMorePart
  <2> QED
    BY <1>4, <1>7, <2>1, <2>2 DEF Extends
<1>9. /\ parts \in Seq(Parts) /\ Len(parts) = k + 3
      /\ \A i \in 1 .. k + 2 : parts[i] = ((name \o q) \o p)[i]
      /\ parts[k + 3] = Word
  <2>1. k + 2 \in Nat /\ (k + 2) + 1 = k + 3
    BY <1>2
  <2>2. Extends(parts, (name \o q) \o p, w, Parts)
    BY <1>3, <1>4, <1>8, OneMorePart
  <2> QED
    BY <1>4, <1>8, <2>1, <2>2 DEF Extends
<1>10. DOMAIN parts = 1 .. k + 3
  BY <1>9, LenProperties
<1>11. ASSUME NEW i \in 1 .. k
       PROVE  parts[i] = name[i]
  <2>1. i \in 1 .. k + 1 /\ i \in 1 .. k + 2
    BY <1>2
  <2> QED
    BY <2>1, <1>7, <1>8, <1>9
<1>12. /\ k + 1 \in 1 .. k + 1 /\ k + 1 \in 1 .. k + 2 /\ k + 2 \in 1 .. k + 2
  BY <1>2
<1>13. parts[k + 1] = Part("q", quota) /\ parts[k + 2] = Part("p", sm)
  BY <1>7, <1>8, <1>9, <1>12
<1> QED
  BY <1>2, <1>9, <1>10, <1>11, <1>13 DEF MadeOf, name, k

LEMMA MinOfOne ==
    ASSUME NEW i \in Int
    PROVE  Min({i}) = i
BY DEF Min

(* The function is what stands before the quota.                           *)
LEMMA FunctionIsExtracted ==
    ASSUME NEW f \in Func, NEW quota \in Int, quota > 0, NEW sm \in Int, sm > 0
    PROVE  extractFunctionNameFromPod(PartsOf(f, quota, sm, <<Word>>)) = FuncParts[f]
<1> SUFFICES ASSUME NEW parts, parts = PartsOf(f, quota, sm, <<Word>>),
                    NEW k, k = Len(FuncParts[f])
             PROVE  extractFunctionNameFromPod(parts) = FuncParts[f]
  OBVIOUS
<1> DEFINE quotas == {i \in DOMAIN parts : IsPart(parts[i], "q")}
<1>1. /\ k \in Nat /\ k > 0
      /\ DOMAIN parts = 1 .. k + 3 /\ Len(parts) = k + 3
      /\ \A i \in 1 .. k : parts[i] = FuncParts[f][i] /\ parts[i].number = NoNumber
      /\ parts[k + 1] = Part("q", quota)
      /\ parts[k + 2] = Part("p", sm)
      /\ parts[k + 3] = Word
  <2>1. MadeOf(parts, f, quota, sm, k)
    BY PartsOfFaSTPod
  <2> QED
    BY <2>1 DEF MadeOf
<1>2. FuncParts[f] \in Seq([letter : {"q", "p", "other"}, number : {NoNumber}])
  BY FuncPartsAssumption
<1>3. extractFunctionNameFromPod(parts)
        = IF /\ Len(parts) >= 3
             /\ quotas # {} /\ Min(quotas) > 1
             /\ Min(quotas) < Len(parts) /\ IsPart(parts[Min(quotas) + 1], "p")
          THEN SubSeq(parts, 1, Min(quotas) - 1) ELSE parts
  BY DEF extractFunctionNameFromPod
<1>4. quotas = {k + 1}
  <2>1. IsPart(parts[k + 1], "q") /\ k + 1 \in Int
    BY <1>1 DEF IsPart, Part, NoNumber
  <2>2. ~IsPart(parts[k + 2], "q") /\ ~IsPart(parts[k + 3], "q")
    BY <1>1 DEF IsPart, Part, Word
  <2>3. \A i \in 1 .. k : ~IsPart(parts[i], "q")
    BY <1>1 DEF IsPart
  <2>4. \A i \in 1 .. k + 3 : i \in 1 .. k \/ i = k + 1 \/ i = k + 2 \/ i = k + 3
    <3>1. k \in Nat
      BY <1>1
    <3> QED
      BY <3>1
  <2>5. k + 1 \in 1 .. k + 3
    BY <1>1
  <2> QED
    BY <1>1, <2>1, <2>2, <2>3, <2>4, <2>5
<1>5. Min(quotas) = k + 1
  BY <1>1, <1>4, MinOfOne
<1> HIDE DEF quotas
<1>6. IsPart(parts[(k + 1) + 1], "p")
  <2>1. (k + 1) + 1 = k + 2
    BY <1>1
  <2> QED
    BY <1>1, <2>1 DEF IsPart, Part, NoNumber
<1>7. extractFunctionNameFromPod(parts) = SubSeq(parts, 1, k)
  <2>1. Len(parts) >= 3 /\ k + 1 > 1 /\ k + 1 < Len(parts) /\ (k + 1) - 1 = k
    BY <1>1
  <2> QED
    BY <1>3, <1>4, <1>5, <1>6, <2>1
<1>8. SubSeq(parts, 1, k) = FuncParts[f]
  <2> DEFINE PartRecord == [letter : {"q", "p", "other"}, number : {NoNumber}]
             name == FuncParts[f]
             sub == SubSeq(parts, 1, k)
  <2>1. name \in Seq(PartRecord) /\ Len(name) = k
    BY <1>2
  <2> HIDE DEF name, PartRecord
  <2>2. \A i \in 1 .. k : parts[i] = name[i]
    BY <1>1 DEF name
  <2>3. \A i \in 1 .. k : parts[i] \in PartRecord
    BY <2>1, <2>2, ElementOfSeq
  <2>4. 1 \in Int /\ k \in Int /\ k - 1 + 1 = k /\ 1 <= k
    BY <1>1
  <2>5. /\ sub \in Seq(PartRecord) /\ Len(sub) = k
        /\ \A i \in 1 .. k : sub[i] = parts[1 + i - 1]
    BY <2>3, <2>4, SubSeqProperties
  <2> HIDE DEF sub
  <2>6. \A i \in 1 .. k : sub[i] = name[i]
    BY <2>2, <2>5, <1>1
  <2>7. sub = name
    BY <2>1, <2>5, <2>6, SeqEqual
  <2> QED
    BY <2>7 DEF sub, name
<1> QED
  BY <1>7, <1>8

(* The partition is the number behind the only "p".                        *)
LEMMA PartitionIsExtracted ==
    ASSUME NEW f \in Func, NEW quota \in Int, quota > 0, NEW sm \in Int, sm > 0
    PROVE  extractPartitionFromPodName(PartsOf(f, quota, sm, <<Word>>)) = sm
<1> SUFFICES ASSUME NEW parts, parts = PartsOf(f, quota, sm, <<Word>>),
                    NEW k, k = Len(FuncParts[f])
             PROVE  extractPartitionFromPodName(parts) = sm
  OBVIOUS
<1> DEFINE ps == {i \in DOMAIN parts : parts[i].letter = "p"}
<1>1. /\ k \in Nat
      /\ DOMAIN parts = 1 .. k + 3
      /\ \A i \in 1 .. k : parts[i].letter # "p"
      /\ parts[k + 1] = Part("q", quota)
      /\ parts[k + 2] = Part("p", sm)
      /\ parts[k + 3] = Word
  <2>1. MadeOf(parts, f, quota, sm, k)
    BY PartsOfFaSTPod
  <2> QED
    BY <2>1 DEF MadeOf
<1>2. extractPartitionFromPodName(parts)
        = IF ps = {} \/ ~IsPart(parts[Min(ps)], "p") THEN 0 ELSE parts[Min(ps)].number
  BY DEF extractPartitionFromPodName
<1>3. ps = {k + 2}
  <2>1. parts[k + 1].letter # "p" /\ parts[k + 2].letter = "p" /\ parts[k + 3].letter # "p"
    BY <1>1 DEF Part, Word
  <2>2. \A i \in 1 .. k + 3 : i \in 1 .. k \/ i = k + 1 \/ i = k + 2 \/ i = k + 3
    BY <1>1
  <2>3. k + 2 \in 1 .. k + 3
    BY <1>1
  <2> QED
    BY <1>1, <2>1, <2>2, <2>3
<1>4. Min(ps) = k + 2
  BY <1>1, <1>3, MinOfOne
<1> HIDE DEF ps
<1>5. IsPart(parts[k + 2], "p") /\ parts[k + 2].number = sm
  BY <1>1 DEF IsPart, Part, NoNumber
<1> QED
  BY <1>2, <1>3, <1>4, <1>5

-----------------------------------------------------------------------------
(* A line for one FaSTPod of the ledger.                                   *)
LEMMA LineIsRight ==
    ASSUME Remembered, BookInv, ServablePods,
           NEW g \in DOMAIN hasGPUs, NEW n \in DOMAIN hasGPUs[g].conf, n \in DOMAIN fastPod
    PROVE  /\ Line(g, n).function = FuncParts[FuncOf(n)]
           /\ Line(g, n).sm \in IF RowsOf(hasGPUs[g], n) = {} THEN {fastPod[n].sm}
                                ELSE {hasGPUs[g].sm[r] : r \in RowsOf(hasGPUs[g], n)}
<1> DEFINE info == hasGPUs[g]
           sm == fastPod[n].sm
           quota == fastPod[n].quota
<1>1. TypeOK
  BY DEF Remembered, Known
<1>2. n \in Name /\ FuncOf(n) \in Func /\ sm \in Int /\ quota \in Int
  BY <1>1 DEF TypeOK, IsMapOf, Name, FuncOf, FaSTPod
<1>3. IsReal(n) /\ sm > 0 /\ quota > 0
  BY DEF BookInv, RealNames, ServablePods
<1>4. PartsOfName(n) = PartsOf(FuncOf(n), quota, sm, <<Word>>)
  BY <1>3 DEF PartsOfName
<1>5. /\ extractFunctionNameFromPod(PartsOfName(n)) = FuncParts[FuncOf(n)]
      /\ extractPartitionFromPodName(PartsOfName(n)) = sm
  BY <1>2, <1>3, <1>4, FunctionIsExtracted, PartitionIsExtracted
<1>6. /\ Line(g, n).function = FuncParts[FuncOf(n)]
      /\ Line(g, n).sm = IF ConfOf(info, n).sm > 0 THEN ConfOf(info, n).sm ELSE sm
  BY <1>3, <1>5 DEF Line, RecordedSM
<1>7. Sound(info)
  BY DEF BookInv, SoundLedger
<1> HIDE DEF info, sm, quota
<1>8. CASE RowsOf(info, n) = {}
  <2>1. \A r \in Row : n \notin DOMAIN info.rows[r]
    BY <1>8 DEF RowsOf
  <2>2. ConfOf(info, n).sm = 0
    BY <1>3, <1>7, <2>1 DEF Sound, LooseIsBare, ConfOf, info
  <2> QED
    BY <1>6, <1>8, <2>2 DEF info, sm
<1>9. CASE RowsOf(info, n) # {}
  <2>1. PICK r \in Row : n \in DOMAIN info.rows[r]
    BY <1>9 DEF RowsOf
  <2>2. info.sm[r] > 0 /\ ConfOf(info, n).sm = info.sm[r]
    BY <1>7, <2>1 DEF Sound, RowsAgree
  <2>3. r \in RowsOf(info, n)
    BY <2>1 DEF RowsOf
  <2> QED
    BY <1>6, <1>9, <2>2, <2>3 DEF info
<1> QED
  BY <1>8, <1>9

(* Every line a tick records of a FaSTPod names its function, and the      *)
(* partition of its row, or its own if no row names it: the splitting of   *)
(* pod names in updateGPUUsageData is right for the names the controller   *)
(* makes, for every function name without a part that looks like one.      *)
THEOREM RecordsAreRight == Spec => []RecordedPartition
<1>1. Remembered /\ BookInv /\ ServablePods => RecordedPartition
  <2> SUFFICES ASSUME Remembered, BookInv, ServablePods,
                      NEW x \in {y \in RecordedPods : y[2] \in DOMAIN fastPod}
               PROVE  /\ Line(x[1], x[2]).function = FuncParts[FuncOf(x[2])]
                      /\ Line(x[1], x[2]).sm
                           \in IF RowsOf(hasGPUs[x[1]], x[2]) = {} THEN {fastPod[x[2]].sm}
                               ELSE {hasGPUs[x[1]].sm[r] : r \in RowsOf(hasGPUs[x[1]], x[2])}
    BY DEF RecordedPartition
  <2>1. x[1] \in DOMAIN hasGPUs /\ x[2] \in DOMAIN hasGPUs[x[1]].conf /\ x[2] \in DOMAIN fastPod
    BY DEF RecordedPods
  <2> QED
    BY <2>1, LineIsRight
<1> QED
  BY <1>1, RememberedAlways, BookIsConsistent, PodsAreServable, PTL

=============================================================================
