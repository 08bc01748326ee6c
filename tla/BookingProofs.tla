----------------------------- MODULE BookingProofs -----------------------------
(***************************************************************************)
(* The book of the GPUs is consistent in every state, whichever calls fail *)
(* and wherever the process dies: a name in a row has its configuration, a *)
(* row is one partition, and a FaSTPod is booked once.                     *)
(*                                                                         *)
(* Provisional names are the hard part.  All pods of one function that are *)
(* planned with the same quota and partition share one, so it may stand in *)
(* several rows of a GPU while PodsConfig holds one entry for it.  This is *)
(* sound because the partition in the name is that of the row, or -1, and  *)
(* -1 is planned at most once for a GPU: the plan leaves it no row without *)
(* a partition.                                                            *)
(***************************************************************************)
EXTENDS InstanceProofs

(* One entry of the ledger.                                                *)
RowsPartitioned(info) == \A r \in Row : info.sm[r] = NoSM \/ info.sm[r] > 0

RowsNamed(info) == \A r \in Row : DOMAIN info.rows[r] \subseteq DOMAIN info.conf

RowsAgree(info) ==
    \A r \in Row : \A n \in DOMAIN info.rows[r] :
        info.sm[r] > 0 /\ ConfOf(info, n).sm = info.sm[r]

PlannedPartition(info) ==
    \A r \in Row : \A n \in DOMAIN info.rows[r] :
        \/ IsReal(n)
        \/ n[3] = info.sm[r]
        \/ n[3] = NoSM /\ \A s \in Row : info.sm[s] # NoSM

(* An entry of PodsConfig for a FaSTPod that stands in no row was written  *)
(* by a quota loop, which knows no partition.                              *)
LooseIsBare(info) ==
    \A n \in DOMAIN info.conf :
        IsReal(n) /\ (\A r \in Row : n \notin DOMAIN info.rows[r]) => info.conf[n].sm = 0

Sound(info) ==
    /\ RowsPartitioned(info) /\ RowsNamed(info) /\ RowsAgree(info)
    /\ PlannedPartition(info) /\ LooseIsBare(info)

SoundLedger == \A g \in DOMAIN hasGPUs : Sound(hasGPUs[g])

(* A FaSTPod is in one row of one GPU, and its function has been visited   *)
(* by this process; while its function is adopted, those that are still to *)
(* be booked are in no row.                                                *)
OnceBooked ==
    \A g, h \in DOMAIN hasGPUs : \A r, s \in Row : \A n \in DOMAIN hasGPUs[g].rows[r] :
        IsReal(n) =>
          /\ hasGPUs[g].rows[r][n] = 1
          /\ n \in DOMAIN hasGPUs[h].rows[s] => g = h /\ r = s

VisitedOnly ==
    \A g \in DOMAIN hasGPUs : \A r \in Row : \A n \in DOMAIN hasGPUs[g].rows[r] :
        IsReal(n) =>
          /\ FuncOf(n) \in DOMAIN podsInfo
          /\ pc = "initCheck" => FuncOf(n) # cur
          /\ pc = "adopt" => n \notin unread

OwnUnread == pc = "adopt" => \A n \in unread : FuncOf(n) = cur

(* Provisional names stay in the ledger.                                   *)
RealNames ==
    /\ \A n \in DOMAIN fastPod : IsReal(n)
    /\ \A n \in Listed : IsReal(n)

BookInv == SoundLedger /\ OnceBooked /\ VisitedOnly /\ OwnUnread /\ RealNames

-----------------------------------------------------------------------------
(* What addPodtoHASGPU makes of the entry of the GPU.                      *)
Added(info, n, sm, quota, r) ==
    LET esm == EffectiveSM(info, r, sm)
    IN  [alloc |-> TRUE,
         sm    |-> [info.sm EXCEPT ![r] = esm],
         rows  |-> [info.rows EXCEPT ![r] = OneMore(@, n)],
         conf  |-> Put(info.conf, n, [sm |-> esm, quota |-> quota]),
         hgo   |-> info.hgo + HGODelta(esm, quota)]

LEMMA AddPodPuts ==
    ASSUME NEW gpus, NEW g, NEW n, NEW sm, NEW quota, NEW r
    PROVE  addPodtoHASGPU(gpus, g, n, sm, quota, r)
             = Put(gpus, g, Added(InfoOf(gpus, g), n, sm, quota, r))
BY DEF addPodtoHASGPU, Added

(* A GPU nobody has booked on is sound.                                    *)
LEMMA BareIsSound == Sound(BareGPU)
BY DEF Sound, RowsPartitioned, RowsNamed, RowsAgree, PlannedPartition, LooseIsBare, BareGPU,
       EmptyMap, NoSM

LEMMA EffectiveSMPositive ==
    ASSUME NEW info, IsHASGPUInfo(info), RowsPartitioned(info), NEW r \in Row, NEW sm \in Int
    PROVE  EffectiveSM(info, r, sm) \in Int /\ EffectiveSM(info, r, sm) > 0
BY DEF IsHASGPUInfo, RowsPartitioned, EffectiveSM

(* The rows, the partitions and the configurations after a booking.        *)
IsAdded(info, new, n, esm, quota, r) ==
    /\ \A s \in Row : new.sm[s] = IF s = r THEN esm ELSE info.sm[s]
    /\ \A s \in Row : DOMAIN new.rows[s] = IF s = r THEN DOMAIN info.rows[r] \cup {n}
                                                    ELSE DOMAIN info.rows[s]
    /\ \A s \in Row : \A m \in DOMAIN info.rows[s] :
          m # n => new.rows[s][m] = info.rows[s][m]
    /\ n \notin DOMAIN info.rows[r] => new.rows[r][n] = 1
    /\ DOMAIN new.conf = DOMAIN info.conf \cup {n}
    /\ \A m : ConfOf(new, m) = IF m = n THEN [sm |-> esm, quota |-> quota] ELSE ConfOf(info, m)
    /\ new.alloc = TRUE

LEMMA AddedParts ==
    ASSUME NEW info, IsHASGPUInfo(info), NEW n, NEW sm, NEW quota, NEW r \in Row
    PROVE  IsAdded(info, Added(info, n, sm, quota, r), n, EffectiveSM(info, r, sm), quota, r)
<1> DEFINE esm == EffectiveSM(info, r, sm)
           new == Added(info, n, sm, quota, r)
<1>1. /\ info.sm \in [Row -> Int]
      /\ info.rows = [s \in Row |-> info.rows[s]]
  BY DEF IsHASGPUInfo
<1>2. /\ new.sm = [info.sm EXCEPT ![r] = esm]
      /\ new.rows = [info.rows EXCEPT ![r] = OneMore(info.rows[r], n)]
      /\ new.conf = Put(info.conf, n, [sm |-> esm, quota |-> quota])
      /\ new.alloc = TRUE
  BY DEF Added
<1> HIDE DEF new, esm
<1>3. \A s \in Row : new.sm[s] = IF s = r THEN esm ELSE info.sm[s]
  BY <1>1, <1>2
<1>4. \A s \in Row : new.rows[s] = IF s = r THEN OneMore(info.rows[r], n) ELSE info.rows[s]
  BY <1>1, <1>2
<1>5. /\ DOMAIN OneMore(info.rows[r], n) = DOMAIN info.rows[r] \cup {n}
      /\ \A m \in DOMAIN info.rows[r] : m # n => OneMore(info.rows[r], n)[m] = info.rows[r][m]
      /\ n \notin DOMAIN info.rows[r] => OneMore(info.rows[r], n)[n] = 1
  BY DEF OneMore, Put
<1>6. /\ DOMAIN new.conf = DOMAIN info.conf \cup {n}
      /\ \A m : ConfOf(new, m) = IF m = n THEN [sm |-> esm, quota |-> quota] ELSE ConfOf(info, m)
  BY <1>2 DEF Put, ConfOf
<1>7. IsAdded(info, new, n, esm, quota, r)
  BY <1>2, <1>3, <1>4, <1>5, <1>6 DEF IsAdded
<1> QED
  BY <1>7 DEF new, esm

(* Booking a pod keeps a sound entry sound, if its name stands in no other *)
(* row with another partition, and does not tell a wrong one.              *)
LEMMA AddedIsSound ==
    ASSUME NEW info, IsHASGPUInfo(info), Sound(info),
           NEW n \in Name, NEW sm \in Int, NEW quota \in Int, NEW r \in Row,
           \A s \in Row \ {r} : n \in DOMAIN info.rows[s] =>
              ~IsReal(n) /\ info.sm[s] = EffectiveSM(info, r, sm),
           ~IsReal(n) => \/ n[3] = EffectiveSM(info, r, sm)
                         \/ n[3] = NoSM /\ \A s \in Row \ {r} : info.sm[s] # NoSM
    PROVE  Sound(Added(info, n, sm, quota, r))
<1> DEFINE esm == EffectiveSM(info, r, sm)
           new == Added(info, n, sm, quota, r)
<1>1. esm \in Int /\ esm > 0
  BY EffectiveSMPositive DEF Sound
<1>0. IsAdded(info, new, n, esm, quota, r)
  BY AddedParts
<1>2. /\ \A s \in Row : new.sm[s] = IF s = r THEN esm ELSE info.sm[s]
      /\ \A s \in Row : DOMAIN new.rows[s]
                          = IF s = r THEN DOMAIN info.rows[r] \cup {n} ELSE DOMAIN info.rows[s]
      /\ DOMAIN new.conf = DOMAIN info.conf \cup {n}
      /\ \A m : ConfOf(new, m) = IF m = n THEN [sm |-> esm, quota |-> quota] ELSE ConfOf(info, m)
  BY <1>0 DEF IsAdded
<1>3. info.sm[r] # NoSM => esm = info.sm[r]
  BY DEF EffectiveSM
<1>4. /\ \A s \in Row \ {r} : n \in DOMAIN info.rows[s] => info.sm[s] = esm
      /\ IsReal(n) \/ n[3] = esm \/ (n[3] = NoSM /\ \A s \in Row \ {r} : info.sm[s] # NoSM)
  OBVIOUS
<1> HIDE DEF new, esm
<1>5. RowsPartitioned(new)
  BY <1>1, <1>2 DEF Sound, RowsPartitioned
<1>6. RowsNamed(new)
  BY <1>2 DEF Sound, RowsNamed
<1>7. RowsAgree(new)
  <2>1. SUFFICES ASSUME NEW s \in Row, NEW m \in DOMAIN new.rows[s]
                 PROVE  new.sm[s] > 0 /\ ConfOf(new, m).sm = new.sm[s]
    BY DEF RowsAgree
  <2>2. CASE m = n
    BY <1>1, <1>2, <1>4, <2>2
  <2>3. CASE m # n
    <3>1. m \in DOMAIN info.rows[s]
      BY <1>2, <2>3
    <3>2. info.sm[s] > 0 /\ ConfOf(info, m).sm = info.sm[s]
      BY <3>1 DEF Sound, RowsAgree
    <3>3. s = r => esm = info.sm[s]
      BY <1>3, <3>2 DEF NoSM
    <3> QED
      BY <1>2, <2>3, <3>2, <3>3
  <2> QED
    BY <2>2, <2>3
<1>8. PlannedPartition(new)
  <2>1. SUFFICES ASSUME NEW s \in Row, NEW m \in DOMAIN new.rows[s], ~IsReal(m)
                 PROVE  m[3] = new.sm[s] \/ (m[3] = NoSM /\ \A t \in Row : new.sm[t] # NoSM)
    BY DEF PlannedPartition
  <2>2. CASE m = n
    BY <1>1, <1>2, <1>4, <2>1, <2>2 DEF NoSM
  <2>3. CASE m # n
    <3>1. m \in DOMAIN info.rows[s]
      BY <1>2, <2>3
    <3>2. /\ info.sm[s] > 0
          /\ m[3] = info.sm[s] \/ (m[3] = NoSM /\ \A t \in Row : info.sm[t] # NoSM)
      BY <2>1, <3>1 DEF Sound, RowsAgree, PlannedPartition
    <3>3. s = r => esm = info.sm[s]
      BY <1>3, <3>2 DEF NoSM
    <3> QED
      BY <1>1, <1>2, <3>2, <3>3 DEF NoSM
  <2> QED
    BY <2>2, <2>3
<1>9. LooseIsBare(new)
  <2>1. SUFFICES ASSUME NEW m \in DOMAIN new.conf, IsReal(m),
                        \A s \in Row : m \notin DOMAIN new.rows[s]
                 PROVE  new.conf[m].sm = 0
    BY DEF LooseIsBare
  <2>2. m # n /\ \A s \in Row : m \notin DOMAIN info.rows[s]
    BY <1>2, <2>1
  <2>3. m \in DOMAIN info.conf /\ info.conf[m].sm = 0
    BY <1>2, <2>1, <2>2 DEF Sound, LooseIsBare
  <2> QED
    BY <1>2, <2>1, <2>2, <2>3 DEF ConfOf
<1> QED
  BY <1>5, <1>6, <1>7, <1>8, <1>9 DEF Sound, new

(* Giving partitions to unused rows: nothing stands in them yet.           *)
LEMMA ClaimIsSound ==
    ASSUME NEW info, IsHASGPUInfo(info), Sound(info), NEW R, NEW sm \in Int, sm > 0
    PROVE  Sound(updateSMConfigForGPU(info, R, sm))
<1> DEFINE new == updateSMConfigForGPU(info, R, sm)
<1>1. info.sm \in [Row -> Int]
  BY DEF IsHASGPUInfo
<1>2. /\ new.rows = info.rows /\ new.conf = info.conf
      /\ \A r \in Row : new.sm[r] = IF r \in R /\ info.sm[r] <= 0 THEN sm ELSE info.sm[r]
  BY DEF IsHASGPUInfo, updateSMConfigForGPU
<1> HIDE DEF new
<1>3. \A r \in Row : info.sm[r] > 0 => new.sm[r] = info.sm[r]
  BY <1>1, <1>2
<1>4. RowsPartitioned(new)
  BY <1>1, <1>2 DEF Sound, RowsPartitioned
<1>5. RowsNamed(new)
  BY <1>2 DEF Sound, RowsNamed
<1>6. RowsAgree(new)
  BY <1>1, <1>2, <1>3 DEF Sound, RowsAgree, ConfOf
<1>7. PlannedPartition(new)
  <2>1. SUFFICES ASSUME NEW r \in Row, NEW n \in DOMAIN info.rows[r], ~IsReal(n)
                 PROVE  n[3] = new.sm[r] \/ (n[3] = NoSM /\ \A s \in Row : new.sm[s] # NoSM)
    BY <1>2 DEF PlannedPartition
  <2>2. new.sm[r] = info.sm[r]
    BY <1>3 DEF Sound, RowsAgree
  <2>3. n[3] = info.sm[r] \/ (n[3] = NoSM /\ \A s \in Row : info.sm[s] # NoSM)
    BY <2>1 DEF Sound, PlannedPartition
  <2>4. \A s \in Row : info.sm[s] # NoSM => new.sm[s] # NoSM
    BY <1>2 DEF NoSM
  <2> QED
    BY <2>2, <2>3, <2>4
<1>8. LooseIsBare(new)
  BY <1>2 DEF Sound, LooseIsBare
<1> QED
  BY <1>4, <1>5, <1>6, <1>7, <1>8 DEF Sound, new

(* What booking another quota and taking out a pod make of an entry.       *)
Requoted(info, n, quota) ==
    Rebooked(info, info.rows, Put(info.conf, n, [sm |-> ConfOf(info, n).sm, quota |-> quota]),
             info.hgo + HGODelta(ConfOf(info, n).sm, quota - ConfOf(info, n).quota))

Evicted(info, n) ==
    Rebooked(info, [info.rows EXCEPT ![Min(RowsOf(info, n))] = Drop(@, {n})],
             Drop(info.conf, {n}), info.hgo - HGODelta(ConfOf(info, n).sm, ConfOf(info, n).quota))

LEMMA SetQuotaPuts ==
    ASSUME NEW gpus, NEW g, NEW n, NEW quota
    PROVE  SetQuota(gpus, g, n, quota) = Put(gpus, g, Requoted(gpus[g], n, quota))
BY DEF SetQuota, Requoted

LEMMA RemovePodPuts ==
    ASSUME NEW gpus, NEW g, NEW n
    PROVE  RemovePod(gpus, g, n)
             = IF RowsOf(gpus[g], n) = {} THEN gpus ELSE Put(gpus, g, Evicted(gpus[g], n))
BY DEF RemovePod, Evicted

(* The quota of a pod is no part of what a sound entry says.               *)
LEMMA RequotedIsSound ==
    ASSUME NEW info, Sound(info), NEW n, NEW quota
    PROVE  Sound(Requoted(info, n, quota))
<1> DEFINE new == Requoted(info, n, quota)
<1>1. /\ new.sm = info.sm /\ new.rows = info.rows
      /\ new.conf = Put(info.conf, n, [sm |-> ConfOf(info, n).sm, quota |-> quota])
  BY DEF Requoted, Rebooked
<1> HIDE DEF new
<1>2. DOMAIN info.conf \subseteq DOMAIN new.conf
  BY <1>1 DEF Put
<1>3. \A m : ConfOf(new, m).sm = ConfOf(info, m).sm
  BY <1>1 DEF ConfOf, Put
<1>4. LooseIsBare(new)
  BY <1>1, <1>3 DEF Sound, LooseIsBare, ConfOf, Put
<1> QED
  BY <1>1, <1>2, <1>3, <1>4 DEF Sound, RowsPartitioned, RowsNamed, RowsAgree, PlannedPartition, new

(* The row a pod is taken out of, and what is left in the others.          *)
LEMMA EvictedParts ==
    ASSUME NEW info, IsHASGPUInfo(info), NEW n, RowsOf(info, n) # {}
    PROVE  /\ Evicted(info, n).sm = info.sm /\ Evicted(info, n).alloc = info.alloc
           /\ Evicted(info, n).conf = Drop(info.conf, {n})
           /\ Min(RowsOf(info, n)) \in Row
           /\ \A s \in Row : Evicted(info, n).rows[s]
                              = IF s = Min(RowsOf(info, n)) THEN Drop(info.rows[s], {n})
                                                            ELSE info.rows[s]
<1>1. Min(RowsOf(info, n)) \in Row
  BY LeastRow DEF RowsOf
<1>2. info.rows = [s \in Row |-> info.rows[s]]
  BY DEF IsHASGPUInfo
<1> QED
  BY <1>1, <1>2 DEF Evicted, Rebooked

(* A pod of one row leaves with its configuration.                         *)
LEMMA EvictedIsSound ==
    ASSUME NEW info, IsHASGPUInfo(info), Sound(info), NEW n,
           \A r, s \in Row : n \in DOMAIN info.rows[r] /\ n \in DOMAIN info.rows[s] => r = s,
           RowsOf(info, n) # {}
    PROVE  Sound(Evicted(info, n))
<1> DEFINE new == Evicted(info, n)
           out == Min(RowsOf(info, n))
<1>1. /\ new.sm = info.sm /\ new.conf = Drop(info.conf, {n}) /\ out \in Row
      /\ \A s \in Row : new.rows[s] = IF s = out THEN Drop(info.rows[s], {n}) ELSE info.rows[s]
  BY EvictedParts
<1>2. out \in RowsOf(info, n)
  BY LeastRow DEF RowsOf
<1>3. n \in DOMAIN info.rows[out]
  BY <1>2 DEF RowsOf
<1> HIDE DEF new, out
<1>4. \A s \in Row : DOMAIN new.rows[s] = DOMAIN info.rows[s] \ {n}
  BY <1>1, <1>3 DEF Drop
<1>5. \A m : m # n => ConfOf(new, m) = ConfOf(info, m)
  BY <1>1 DEF ConfOf, Drop
<1>6. DOMAIN new.conf = DOMAIN info.conf \ {n}
  BY <1>1 DEF Drop
<1>7. LooseIsBare(new)
  BY <1>1, <1>4, <1>5, <1>6 DEF Sound, LooseIsBare, ConfOf
<1> QED
  BY <1>1, <1>4, <1>5, <1>6, <1>7
  DEF Sound, RowsPartitioned, RowsNamed, RowsAgree, PlannedPartition, new

(* The row that is chosen for a planned pod: it has the partition the pod  *)
(* is planned with, or the pod is planned with -1, and no other row is     *)
(* without a partition.                                                    *)
ChosenFor(info, claimed, sm, r) ==
    \/ sm > 0 /\ claimed.sm[r] = sm
    \/ /\ sm = NoSM
       /\ \E s \in Row : info.sm[s] = NoSM
       /\ \A s \in Row \ {r} : claimed.sm[s] # NoSM

(* A claim and a booking in the chosen row keep a sound entry sound.       *)
LEMMA PlanIsSound ==
    ASSUME NEW info, IsHASGPUInfo(info), Sound(info), NEW R, NEW claim \in Int, claim > 0,
           NEW f \in Func, NEW sm \in Int, NEW quota \in Int, NEW r \in Row,
           ChosenFor(info, updateSMConfigForGPU(info, R, claim), sm, r)
    PROVE  Sound(Added(updateSMConfigForGPU(info, R, claim), Provisional(f, quota, sm),
                       sm, quota, r))
<1> DEFINE claimed == updateSMConfigForGPU(info, R, claim)
           n == Provisional(f, quota, sm)
           esm == EffectiveSM(claimed, r, sm)
<1>1. IsHASGPUInfo(claimed) /\ Sound(claimed)
  BY ClaimIsSound, UpdateSMConfigType
<1>2. claimed.rows = info.rows
  BY DEF updateSMConfigForGPU, IsHASGPUInfo
<1>3. n \in Name /\ ~IsReal(n) /\ n[3] = sm
  BY DEF Provisional, Name, IsReal
<1>4. ChosenFor(info, claimed, sm, r)
  OBVIOUS
<1>5. esm = IF claimed.sm[r] # NoSM THEN claimed.sm[r] ELSE IF sm > 0 THEN sm ELSE 50
  BY DEF EffectiveSM
<1> HIDE DEF claimed, n, esm
<1>6. ASSUME NEW s \in Row \ {r}, n \in DOMAIN claimed.rows[s]
      PROVE  claimed.sm[s] = esm
  <2>1. claimed.sm[s] > 0 /\ info.sm[s] > 0
    BY <1>1, <1>2, <1>6 DEF Sound, RowsAgree
  <2>2. n[3] = claimed.sm[s] \/ (n[3] = NoSM /\ \A t \in Row : claimed.sm[t] # NoSM)
    BY <1>1, <1>3, <1>6 DEF Sound, PlannedPartition
  <2>3. n[3] = info.sm[s] \/ (n[3] = NoSM /\ \A t \in Row : info.sm[t] # NoSM)
    BY <1>2, <1>3, <1>6 DEF Sound, PlannedPartition
  <2>4. CASE sm > 0
    BY <1>3, <1>4, <1>5, <2>2, <2>4 DEF ChosenFor, NoSM
  <2>5. CASE sm = NoSM /\ \E t \in Row : info.sm[t] = NoSM
    BY <1>3, <2>1, <2>3, <2>5 DEF NoSM
  <2> QED
    BY <1>4, <2>4, <2>5 DEF ChosenFor
<1>7. n[3] = esm \/ (n[3] = NoSM /\ \A s \in Row \ {r} : claimed.sm[s] # NoSM)
  BY <1>3, <1>4, <1>5 DEF ChosenFor, NoSM
<1>8. Sound(Added(claimed, n, sm, quota, r))
  BY <1>1, <1>3, <1>6, <1>7, AddedIsSound DEF esm
<1> QED
  BY <1>8 DEF claimed, n

(* FindOptimalRowIdx chooses such a row, if the partition is that of a row *)
(* or of a row that has just been given one.                               *)
LEMMA OptimalRowIsChosen ==
    ASSUME NEW info, NEW claimed, claimed.alloc, NEW sm,
           NEW t \in Row,
           \/ sm > 0 /\ claimed.sm[t] = sm
           \/ sm = NoSM /\ info.sm[t] = NoSM /\ claimed.sm[t] # NoSM,
           NEW r \in FindOptimalRowIdx(claimed, sm)
    PROVE  ChosenFor(info, claimed, sm, r)
<1> DEFINE same == {s \in Row : claimed.sm[s] = sm}
<1>1. same # {} => r \in same
  BY DEF FindOptimalRowIdx
<1>2. r \in Row
  BY OptimalRowIsRow
<1>3. CASE sm > 0 /\ claimed.sm[t] = sm
  BY <1>1, <1>3 DEF ChosenFor
<1>4. CASE sm = NoSM /\ info.sm[t] = NoSM /\ claimed.sm[t] # NoSM
  <2>1. CASE same = {}
    BY <1>4, <2>1 DEF ChosenFor
  <2>2. CASE same # {}
    <3>1. r # t
      BY <1>1, <1>4, <2>2
    <3>2. Row \ {r} = {t}
      BY <1>2, <3>1 DEF Row, GPUSMConfigNum
    <3> QED
      BY <1>4, <3>2 DEF ChosenFor
  <2> QED
    BY <2>1, <2>2
<1> QED
  BY <1>3, <1>4

(* The default partitions are partitions.                                  *)
LEMMA OptimalSMPositive ==
    \A f, missing : getOptimalSMPartition(f, missing) \in Int /\ getOptimalSMPartition(f, missing) > 0
BY DEF getOptimalSMPartition

-----------------------------------------------------------------------------
(* What one step makes of the ledger.                                      *)
Untouched == hasGPUs' = hasGPUs

Emptied == \A g \in DOMAIN hasGPUs' : hasGPUs'[g] = BareGPU

Books(g, n, sm, quota, r) ==
    /\ g \in GPUId /\ n \in Name /\ sm \in Int /\ quota \in Int /\ r \in Row
    /\ hasGPUs' = Put(hasGPUs, g, Added(InfoOf(hasGPUs, g), n, sm, quota, r))
    /\ IsReal(n) /\ n \notin NamesInRows
    /\ FuncOf(n) = cur

ClaimsOnly(g, R, claim) ==
    /\ g \in DOMAIN hasGPUs /\ claim \in Int /\ claim > 0
    /\ hasGPUs' = Put(hasGPUs, g, updateSMConfigForGPU(hasGPUs[g], R, claim))

Plans(g, R, claim, sm, quota, r) ==
    LET claimed == updateSMConfigForGPU(hasGPUs[g], R, claim)
        n       == Provisional(cur, quota, sm)
    IN  /\ g \in DOMAIN hasGPUs /\ claim \in Int /\ claim > 0
        /\ sm \in Int /\ quota \in Int /\ r \in Row /\ cur \in Func
        /\ hasGPUs[g].alloc
        /\ ChosenFor(hasGPUs[g], claimed, sm, r)
        /\ hasGPUs' = Put(hasGPUs, g, Added(claimed, n, sm, quota, r))

(* The action that is planned with it.                                     *)
PlansPod(g, quota) ==
    \E pod \in HASPodInfo :
        /\ pod.gpu = g /\ pod.quota = quota /\ quota > 0 /\ pod.sm > 0
        /\ actions' = Append(actions, Act(1, pod))

Requotes(g, n, quota) ==
    /\ g \in DOMAIN hasGPUs /\ n \in Name /\ quota \in Int
    /\ hasGPUs' = Put(hasGPUs, g, Requoted(hasGPUs[g], n, quota))

Evicts(g, n) ==
    /\ g \in DOMAIN hasGPUs /\ IsReal(n) /\ RowsOf(hasGPUs[g], n) # {}
    /\ hasGPUs' = Put(hasGPUs, g, Evicted(hasGPUs[g], n))

Cleans(G) ==
    /\ \A g \in G : RowsEmpty(hasGPUs[g])
    /\ hasGPUs' = Drop(hasGPUs, G)

(* A booking in the row that a claim leaves open.                          *)
LEMMA ClaimThenPlan ==
    ASSUME TypeOK, SoundLedger, cur \in Func, NEW g \in DOMAIN hasGPUs, hasGPUs[g].alloc,
           NEW R, NEW claim \in Int, claim > 0,
           NEW sm \in Int, NEW quota \in Int, quota > 0, NEW rps \in Nat, NEW t \in Row,
           \/ sm > 0 /\ updateSMConfigForGPU(hasGPUs[g], R, claim).sm[t] = sm
           \/ /\ sm = NoSM /\ hasGPUs[g].sm[t] = NoSM
              /\ updateSMConfigForGPU(hasGPUs[g], R, claim).sm[t] # NoSM,
           PlanPod(Put(hasGPUs, g, updateSMConfigForGPU(hasGPUs[g], R, claim)), g, sm, quota, rps)
    PROVE  (\E r : Plans(g, R, claim, sm, quota, r)) /\ PlansPod(g, quota)
<1> DEFINE claimed == updateSMConfigForGPU(hasGPUs[g], R, claim)
           gpus == Put(hasGPUs, g, claimed)
           n == Provisional(cur, quota, sm)
<1>1. gpus[g] = claimed /\ InfoOf(gpus, g) = claimed
  BY DEF Put, InfoOf
<1>2. PICK r \in FindOptimalRowIdx(claimed, sm) :
        /\ hasGPUs' = addPodtoHASGPU(gpus, g, n, sm, quota, r)
        /\ actions' = Append(actions, Act(1, [name |-> n, gpu |-> g,
                                              sm |-> EffectiveSM(claimed, r, sm),
                                              quota |-> quota, rps |-> rps]))
  BY <1>1 DEF PlanPod
<1>3. claimed.alloc
  BY DEF updateSMConfigForGPU, TypeOK, IsLedger, IsHASGPUInfo
<1>4. r \in Row /\ ChosenFor(hasGPUs[g], claimed, sm, r)
  <2> HIDE DEF claimed
  <2>1. \/ sm > 0 /\ claimed.sm[t] = sm
        \/ sm = NoSM /\ hasGPUs[g].sm[t] = NoSM /\ claimed.sm[t] # NoSM
    BY DEF claimed
  <2> QED
    BY <1>3, <2>1, OptimalRowIsChosen, OptimalRowIsRow
<1>5. hasGPUs' = Put(gpus, g, Added(claimed, n, sm, quota, r))
  BY <1>1, <1>2, AddPodPuts
<1>6. hasGPUs' = Put(hasGPUs, g, Added(claimed, n, sm, quota, r))
  BY <1>5 DEF Put
<1>7. Plans(g, R, claim, sm, quota, r)
  BY <1>4, <1>6 DEF Plans
<1>8. EffectiveSM(claimed, r, sm) \in Int /\ EffectiveSM(claimed, r, sm) > 0
  <2>1. IsHASGPUInfo(hasGPUs[g]) /\ Sound(hasGPUs[g])
    BY DEF TypeOK, IsLedger, SoundLedger
  <2>2. IsHASGPUInfo(claimed) /\ RowsPartitioned(claimed)
    BY <2>1, UpdateSMConfigType, ClaimIsSound DEF Sound
  <2> HIDE DEF claimed
  <2> QED
    BY <1>4, <2>2, EffectiveSMPositive
<1>9. PlansPod(g, quota)
  <2> DEFINE pod == [name |-> n, gpu |-> g, sm |-> EffectiveSM(claimed, r, sm),
                     quota |-> quota, rps |-> rps]
  <2>1. n \in Name /\ g \in GPUId
    BY DEF Provisional, Name, TypeOK, IsLedger
  <2>2. pod \in HASPodInfo /\ pod.gpu = g /\ pod.quota = quota /\ pod.sm > 0
    BY <1>8, <2>1 DEF HASPodInfo
  <2>3. actions' = Append(actions, Act(1, pod))
    BY <1>2
  <2> HIDE DEF pod
  <2> QED
    BY <2>2, <2>3 DEF PlansPod
<1> QED
  BY <1>7, <1>9

(* A generated name is real, and no row has it.                            *)
LEMMA FreshNameIsReal ==
    ASSUME NEW f, NEW n \in FreshName(f)
    PROVE  IsReal(n) /\ n \notin NamesInRows /\ FuncOf(n) = f
<1>1. n \notin NamesInUse /\ \E k \in Nat \ {0} : n = RealName(f, k)
  BY DEF FreshName
<1>2. NamesInRows \subseteq NamesInUse
  BY DEF NamesInUse
<1> QED
  BY <1>1, <1>2 DEF RealName, IsReal, FuncOf

(* An offer on a GPU is planned in a row that its partition leads to.      *)
LEMMA HorizontalPlans ==
    ASSUME TypeOK, SoundLedger, HorizontalScale
    PROVE  \E g, R, claim, sm, quota, r : Plans(g, R, claim, sm, quota, r) /\ PlansPod(g, quota)
<1>1. PICK g \in LeastHGO(hasGPUs, pending) :
        \E o \in Offers(hasGPUs[g]) : \E cap \in CapOffered(hasGPUs[g], o) :
           PlanPod(Put(hasGPUs, g, Claimed(hasGPUs[g])), g, hasGPUs[g].sm[o[1]], o[2], cap)
  BY DEF HorizontalScale
<1>2. PICK o \in Offers(hasGPUs[g]) : \E cap \in CapOffered(hasGPUs[g], o) :
        PlanPod(Put(hasGPUs, g, Claimed(hasGPUs[g])), g, hasGPUs[g].sm[o[1]], o[2], cap)
  BY <1>1
<1>3. g \in DOMAIN hasGPUs /\ pc = "horizontal"
  BY DEF HorizontalScale, LeastHGO, TypeOK
<1>4. IsHASGPUInfo(hasGPUs[g]) /\ cur \in Func /\ RowsPartitioned(hasGPUs[g])
  BY <1>3, CurType DEF TypeOK, IsLedger, BetweenFunctions, SoundLedger, Sound
<1>5. /\ o[1] \in OpenRows(hasGPUs[g]) /\ o[1] \in Row /\ hasGPUs[g].alloc
      /\ o[2] \in Int /\ o[2] > 0
  BY DEF Offers, OpenRows, DeltaIq
<1> DEFINE info == hasGPUs[g]
           R == OpenRows(info)
           claim == getOptimalSMPartition(cur, deltaR)
           sm == info.sm[o[1]]
           claimed == updateSMConfigForGPU(info, R, claim)
<1>6. claim \in Int /\ claim > 0
  BY OptimalSMPositive
<1>7. sm \in Int /\ (sm = NoSM \/ sm > 0)
  BY <1>4, <1>5 DEF IsHASGPUInfo, RowsPartitioned
<1>8. claimed.sm[o[1]] = IF sm <= 0 THEN claim ELSE sm
  BY <1>4, <1>5 DEF updateSMConfigForGPU, IsHASGPUInfo
<1>9. PICK cap \in Nat : PlanPod(Put(hasGPUs, g, claimed), g, sm, o[2], cap)
  BY <1>2, OfferAnswerType DEF Claimed
<1>10. \/ sm > 0 /\ claimed.sm[o[1]] = sm
       \/ sm = NoSM /\ hasGPUs[g].sm[o[1]] = NoSM /\ claimed.sm[o[1]] # NoSM
  BY <1>6, <1>7, <1>8 DEF NoSM
<1> HIDE DEF R, claim, sm
<1>11. (\E r : Plans(g, R, claim, sm, o[2], r)) /\ PlansPod(g, o[2])
  BY <1>3, <1>4, <1>5, <1>6, <1>7, <1>9, <1>10, ClaimThenPlan
<1> QED
  BY <1>11

(* So is the pod of the fallback.                                          *)
LEMMA FallbackPlans ==
    ASSUME TypeOK, SoundLedger, Fallback
    PROVE  \E g, R, claim, sm, quota, r : Plans(g, R, claim, sm, quota, r) /\ PlansPod(g, quota)
<1>1. PICK g \in LeastHGO(hasGPUs, DOMAIN hasGPUs) :
        LET info == hasGPUs[g]
            t    == Min(OpenRows(info))
            sm   == IF info.sm[t] <= 0 THEN 50 ELSE info.sm[t]
        IN  /\ OpenRows(info) # {}
            /\ \E quota \in 1 .. MinQuota : \E cap \in rapp(cur, sm, quota) :
                 PlanPod(Put(hasGPUs, g, updateSMConfigForGPU(info, {t}, 50)), g, sm, quota, cap)
  BY DEF Fallback
<1> DEFINE info == hasGPUs[g]
           t == Min(OpenRows(info))
           R == {t}
           sm == IF info.sm[t] <= 0 THEN 50 ELSE info.sm[t]
           claimed == updateSMConfigForGPU(info, R, 50)
<1>2. PICK quota \in 1 .. MinQuota : \E cap \in rapp(cur, sm, quota) :
        PlanPod(Put(hasGPUs, g, claimed), g, sm, quota, cap)
  BY <1>1
<1>3. PICK cap \in Nat : PlanPod(Put(hasGPUs, g, claimed), g, sm, quota, cap)
  BY <1>2, RappType
<1>4. g \in DOMAIN hasGPUs /\ IsHASGPUInfo(info) /\ cur \in Func
  BY CurType DEF LeastHGO, TypeOK, IsLedger, BetweenFunctions, Fallback
<1>5. t \in Row /\ info.alloc
  BY <1>1, LeastRow DEF OpenRows
<1>6. info.sm \in [Row -> Int]
  BY <1>4 DEF IsHASGPUInfo
<1>7. sm \in Int /\ sm > 0 /\ claimed.sm[t] = sm
  BY <1>5, <1>6 DEF updateSMConfigForGPU
<1>8. quota \in Int /\ quota > 0
  BY DEF MinQuota
<1> HIDE DEF t, sm, R
<1>9. (\E r : Plans(g, R, 50, sm, quota, r)) /\ PlansPod(g, quota)
  BY <1>3, <1>4, <1>5, <1>7, <1>8, ClaimThenPlan
<1> QED
  BY <1>9

(* A FaSTPod with a generated name of the function is created.             *)
PodAdded(n, pod) ==
    /\ n \in FreshName(cur) /\ n \in Name /\ IsReal(n) /\ FuncOf(n) = cur
    /\ n \notin DOMAIN fastPod
    /\ fastPod' = Put(fastPod, n, pod)

LEMMA FreshNames ==
    \A n \in FreshName(cur) : n \in Name /\ IsReal(n) /\ FuncOf(n) = cur
                              /\ n \notin DOMAIN fastPod /\ n \notin NamesInRows
BY FreshNameIsReal, FreshNameIsNew, FreshNameType

(* The first FaSTPod of a function: it is booked and tracked if its        *)
(* creation was seen to succeed, and neither if not.                       *)
FirstBooked ==
    \E n : \E g \in InitGPUs, config \in InitialConfig[cur] : \E r :
        /\ Books(g, n, config.sm, config.quota, r)
        /\ podsInfo' = Track(n)
        /\ PodAdded(n, configs2FaSTPods(g, config))

FirstUnseen ==
    /\ hasGPUs' = hasGPUs /\ podsInfo' = podsInfo
    /\ \/ fastPod' = fastPod
       \/ \E n : \E g \in InitGPUs, config \in InitialConfig[cur] :
             PodAdded(n, configs2FaSTPods(g, config))

LEMMA InitPodMoves ==
    ASSUME TypeOK, InitPod
    PROVE  FirstBooked \/ FirstUnseen
<1>1. PICK g \in InitGPUs, n \in FreshName(cur), o \in Outcomes("create"),
           config \in InitialConfig[cur] :
        \E r \in FindOptimalRowIdx(InfoOf(hasGPUs, g), config.sm) :
          /\ fastPod' = AfterCreate(o, n, configs2FaSTPods(g, config))
          /\ hasGPUs' = IF o = "ok" /\ Admitted(o)
                        THEN addPodtoHASGPU(hasGPUs, g, n, config.sm, config.quota, r)
                        ELSE hasGPUs
          /\ podsInfo' = IF o = "ok" /\ Admitted(o) THEN Track(n) ELSE podsInfo
  BY DEF InitPod
<1> DEFINE pod == configs2FaSTPods(g, config)
<1>2. PICK r \in FindOptimalRowIdx(InfoOf(hasGPUs, g), config.sm) :
          /\ fastPod' = AfterCreate(o, n, pod)
          /\ hasGPUs' = IF o = "ok" /\ Admitted(o)
                        THEN addPodtoHASGPU(hasGPUs, g, n, config.sm, config.quota, r)
                        ELSE hasGPUs
          /\ podsInfo' = IF o = "ok" /\ Admitted(o) THEN Track(n) ELSE podsInfo
  BY <1>1
<1>3. cur \in Func
  BY CurType DEF InitPod, BetweenFunctions
<1>4. g \in GPUId
  BY DEF InitGPUs, RetrieveUsedGPU, RetrieveNewGPU, LeastHGO, TypeOK, IsLedger, GPUId
<1>5. r \in Row /\ config.sm \in Int /\ config.quota \in Int
  BY <1>3, OptimalRowIsRow, ConfigAssumption
<1>6. n \in Name /\ IsReal(n) /\ n \notin NamesInRows /\ FuncOf(n) = cur /\ n \notin DOMAIN fastPod
  BY FreshNames
<1>7. fastPod' = fastPod \/ PodAdded(n, pod)
  BY <1>2, <1>6 DEF AfterCreate, PodAdded
<1>8. CASE o = "ok" /\ Admitted(o)
  <2>1. hasGPUs' = addPodtoHASGPU(hasGPUs, g, n, config.sm, config.quota, r) /\ podsInfo' = Track(n)
    BY <1>2, <1>8
  <2>2. Books(g, n, config.sm, config.quota, r)
    BY <1>4, <1>5, <1>6, <2>1, AddPodPuts DEF Books
  <2>3. PodAdded(n, pod)
    BY <1>2, <1>6, <1>8 DEF AfterCreate, PodAdded
  <2> QED
    BY <2>1, <2>2, <2>3 DEF FirstBooked
<1>9. CASE ~(o = "ok" /\ Admitted(o))
  <2>1. hasGPUs' = hasGPUs /\ podsInfo' = podsInfo
    BY <1>2, <1>9
  <2> HIDE DEF pod
  <2> QED
    BY <1>7, <2>1 DEF FirstUnseen, pod
<1> QED
  BY <1>8, <1>9

(* An adopted FaSTPod is booked on its GPU, with its partition.            *)
Adopts(n) ==
    /\ n \in unread /\ unread' = unread \ {n}
    /\ \E r : Books(fastPod[n].gpu, n, fastPod[n].sm, ReadQuota(fastPod[n].quota), r)

LEMMA AdoptPodMoves ==
    ASSUME TypeOK, BookInv, AdoptPod
    PROVE  \E n \in unread : Adopts(n)
<1>1. PICK n \in unread :
        LET pod  == fastPod[n]
            rows == RowsOf(InfoOf(hasGPUs, pod.gpu), n)
            r    == IF rows = {} THEN 1 ELSE Max(rows)
        IN  /\ hasGPUs' = addPodtoHASGPU(hasGPUs, pod.gpu, n, pod.sm, ReadQuota(pod.quota), r)
            /\ unread' = unread \ {n}
  BY DEF AdoptPod
<1> DEFINE g == fastPod[n].gpu
           rows == RowsOf(InfoOf(hasGPUs, g), n)
           r    == IF rows = {} THEN 1 ELSE Max(rows)
           quota == ReadQuota(fastPod[n].quota)
<1>2. n \in Name /\ fastPod[n] \in FaSTPod /\ n \in DOMAIN fastPod
  BY DEF TypeOK, IsMapOf
<1>3. r \in Row
  BY GreatestOrFirstRow DEF RowsOf
<1>4. g \in GPUId /\ fastPod[n].sm \in Int /\ quota \in Int
  BY <1>2, ReadQuotaType DEF FaSTPod
<1>5. IsReal(n) /\ FuncOf(n) = cur
  BY <1>2 DEF BookInv, RealNames, OwnUnread, AdoptPod
<1>6. n \notin NamesInRows
  BY <1>5 DEF NamesInRows, BookInv, VisitedOnly, AdoptPod
<1>7. hasGPUs' = addPodtoHASGPU(hasGPUs, g, n, fastPod[n].sm, quota, r) /\ unread' = unread \ {n}
  BY <1>1
<1> HIDE DEF r, quota, g
<1>8. hasGPUs' = Put(hasGPUs, g, Added(InfoOf(hasGPUs, g), n, fastPod[n].sm, quota, r))
  BY <1>7, AddPodPuts
<1>9. Books(g, n, fastPod[n].sm, quota, r)
  BY <1>2, <1>3, <1>4, <1>5, <1>6, <1>8 DEF Books
<1> QED
  BY <1>7, <1>9 DEF Adopts, g, quota

(* A quota loop writes the new quota of a pod on the list into the list,   *)
(* into the plan and, if it tracks the GPU, into the book.                 *)
Resizes(quota, rps) ==
    LET pod == pods[idx]
        new == Resized(pod, quota, rps)
    IN  /\ idx \in DOMAIN pods /\ pod \in HASPodInfo
        /\ quota \in Int /\ rps \in Nat
        /\ idx' = idx + 1
        /\ pods' = [pods EXCEPT ![idx] = new]
        /\ actions' = Append(actions, Act(0, new))
        /\ IF pod.gpu \in DOMAIN hasGPUs THEN Requotes(pod.gpu, pod.name, quota)
                                         ELSE hasGPUs' = hasGPUs

LEMMA ResizeMoves ==
    ASSUME TypeOK, VerticalScale \/ ShrinkPod
    PROVE  \E quota, rps : Resizes(quota, rps)
<1> DEFINE pod == pods[idx]
<1>1. idx <= Len(pods)
  BY DEF VerticalScale, ShrinkPod
<1>2. pod \in HASPodInfo /\ idx \in DOMAIN pods
  BY <1>1, ListedPodType DEF TypeOK
<1>3. pod.name \in Name
  BY <1>2 DEF HASPodInfo
<1>4. CASE VerticalScale
  <2>1. PICK n \in 0 .. 100 \div DeltaIq : \E cap \in CapRaised(pod, n) :
          LET new == Resized(pod, pod.quota + DeltaIq * n, cap)
          IN  /\ pods' = [pods EXCEPT ![idx] = new]
              /\ actions' = Append(actions, Act(0, new))
              /\ hasGPUs' = SetQuota(hasGPUs, pod.gpu, pod.name, new.quota)
    BY <1>4 DEF VerticalScale
  <2>2. PICK cap \in CapRaised(pod, n) :
          LET new == Resized(pod, pod.quota + DeltaIq * n, cap)
          IN  /\ pods' = [pods EXCEPT ![idx] = new]
              /\ actions' = Append(actions, Act(0, new))
              /\ hasGPUs' = SetQuota(hasGPUs, pod.gpu, pod.name, new.quota)
    BY <2>1
  <2> DEFINE quota == pod.quota + DeltaIq * n
  <2>3. quota \in Int /\ cap \in Nat
    BY <1>2, LoopAnswerType DEF HASPodInfo, DeltaIq
  <2>4. /\ pods' = [pods EXCEPT ![idx] = Resized(pod, quota, cap)]
        /\ actions' = Append(actions, Act(0, Resized(pod, quota, cap)))
        /\ hasGPUs' = SetQuota(hasGPUs, pod.gpu, pod.name, quota)
    BY <2>2 DEF Resized
  <2>5. pod.gpu \in DOMAIN hasGPUs /\ idx' = idx + 1
    BY <1>4 DEF VerticalScale, OnAllocatedGPU
  <2> HIDE DEF quota
  <2>6. Requotes(pod.gpu, pod.name, quota)
    BY <1>3, <2>3, <2>4, <2>5, SetQuotaPuts DEF Requotes
  <2>7. Resizes(quota, cap)
    BY <1>2, <2>3, <2>4, <2>5, <2>6 DEF Resizes
  <2> QED
    BY <2>7
<1>5. CASE ShrinkPod
  <2>1. PICK n \in 1 .. pod.quota \div DeltaIq : \E cap \in CapLowered(pod, n) :
          LET new == Resized(pod, pod.quota - DeltaIq * n, cap)
          IN  /\ pods' = [pods EXCEPT ![idx] = new]
              /\ actions' = Append(actions, Act(0, new))
              /\ hasGPUs' = IF pod.gpu \in DOMAIN hasGPUs
                            THEN SetQuota(hasGPUs, pod.gpu, pod.name, new.quota)
                            ELSE hasGPUs
    BY <1>5 DEF ShrinkPod
  <2>2. PICK cap \in CapLowered(pod, n) :
          LET new == Resized(pod, pod.quota - DeltaIq * n, cap)
          IN  /\ pods' = [pods EXCEPT ![idx] = new]
              /\ actions' = Append(actions, Act(0, new))
              /\ hasGPUs' = IF pod.gpu \in DOMAIN hasGPUs
                            THEN SetQuota(hasGPUs, pod.gpu, pod.name, new.quota)
                            ELSE hasGPUs
    BY <2>1
  <2> DEFINE quota == pod.quota - DeltaIq * n
  <2>3. quota \in Int /\ cap \in Nat
    BY <1>2, LoopAnswerType DEF HASPodInfo, DeltaIq
  <2>4. /\ pods' = [pods EXCEPT ![idx] = Resized(pod, quota, cap)]
        /\ actions' = Append(actions, Act(0, Resized(pod, quota, cap)))
        /\ hasGPUs' = IF pod.gpu \in DOMAIN hasGPUs THEN SetQuota(hasGPUs, pod.gpu, pod.name, quota)
                                                     ELSE hasGPUs
    BY <2>2 DEF Resized
  <2>5. idx' = idx + 1
    BY <1>5 DEF ShrinkPod
  <2> HIDE DEF quota
  <2>6. pod.gpu \in DOMAIN hasGPUs => Requotes(pod.gpu, pod.name, quota)
    BY <1>3, <2>3, <2>4, SetQuotaPuts DEF Requotes
  <2>7. Resizes(quota, cap)
    BY <1>2, <2>3, <2>4, <2>5, <2>6 DEF Resizes
  <2> QED
    BY <2>7
<1> QED
  BY <1>4, <1>5

(* The steps that write the ledger, by what they make of it.               *)
LEMMA LedgerMoves ==
    ASSUME TypeOK, BookInv, [Next]_vars
    PROVE  \/ Untouched
           \/ Emptied /\ (Start \/ RestartAfterPanic \/ Crash)
           \/ AdoptPod /\ \E n \in unread : Adopts(n)
           \/ InitPod /\ \E g, n, sm, quota, r : Books(g, n, sm, quota, r)
           \/ HorizontalSkip /\ \E g, R, claim : ClaimsOnly(g, R, claim)
           \/ /\ HorizontalScale \/ Fallback
              /\ \E g, R, claim, sm, quota, r :
                    Plans(g, R, claim, sm, quota, r) /\ PlansPod(g, quota)
           \/ /\ VerticalScale \/ ShrinkPod \/ ApplyUpdate
              /\ \E g, n, quota : Requotes(g, n, quota)
           \/ EvictPod /\ Evicts(pods[idx].gpu, pods[idx].name)
           \/ CleanUp /\ \E G : Cleans(G)
<1>1. CASE Start \/ RestartAfterPanic \/ Crash
  BY <1>1 DEF Start, getGPUDeviceTopology, RestartAfterPanic, Crash, LoseMemory, Emptied, EmptyMap
<1>2. CASE AdoptPod
  BY <1>2, AdoptPodMoves DEF Adopts
<1>3. CASE InitPod
  BY <1>3, InitPodMoves DEF FirstBooked, FirstUnseen, Untouched
<1>4. CASE HorizontalSkip
  <2>1. PICK g \in LeastHGO(hasGPUs, pending) : hasGPUs' = Put(hasGPUs, g, Claimed(hasGPUs[g]))
    BY <1>4 DEF HorizontalSkip
  <2>2. g \in DOMAIN hasGPUs
    BY <1>4 DEF HorizontalSkip, LeastHGO, TypeOK
  <2>3. ClaimsOnly(g, OpenRows(hasGPUs[g]), getOptimalSMPartition(cur, deltaR))
    BY <2>1, <2>2, OptimalSMPositive DEF ClaimsOnly, Claimed
  <2> QED
    BY <1>4, <2>3
<1>5. CASE HorizontalScale \/ Fallback
  <2>1. SoundLedger
    BY DEF BookInv
  <2> QED
    BY <1>5, <2>1, HorizontalPlans, FallbackPlans
<1>6. CASE VerticalScale \/ ShrinkPod
  <2>1. PICK quota, rps : Resizes(quota, rps)
    BY <1>6, ResizeMoves
  <2>2. Untouched \/ Requotes(pods[idx].gpu, pods[idx].name, quota)
    BY <2>1 DEF Resizes, Untouched
  <2> QED
    BY <1>6, <2>2
<1>7. CASE ApplyUpdate
  <2>1. Target \in HASPodInfo
    BY <1>7, TargetType DEF ApplyUpdate, Planned, HeadIs
  <2> DEFINE quota == IF Target.quota < 5 THEN 5 ELSE Target.quota
  <2>2. \/ hasGPUs' = hasGPUs
        \/ /\ Target.gpu \in DOMAIN hasGPUs
           /\ hasGPUs' = SetQuota(hasGPUs, Target.gpu, Target.name, quota)
    BY <1>7 DEF ApplyUpdate
  <2>3. Target.name \in Name /\ quota \in Int
    BY <2>1 DEF HASPodInfo
  <2> HIDE DEF quota
  <2> QED
    BY <1>7, <2>2, <2>3, SetQuotaPuts DEF Requotes, Untouched
<1>8. CASE EvictPod
  <2> DEFINE pod == pods[idx]
  <2>1. idx <= Len(pods)
    BY <1>8 DEF EvictPod, MayEvict
  <2>2. idx \in DOMAIN pods
    BY <2>1, ListedPodType DEF TypeOK
  <2>3. IsReal(pod.name)
    BY <2>2 DEF BookInv, RealNames, Listed, Names
  <2>4. hasGPUs' = IF pod.gpu \in DOMAIN hasGPUs THEN RemovePod(hasGPUs, pod.gpu, pod.name)
                                                 ELSE hasGPUs
    BY <1>8 DEF EvictPod
  <2> QED
    BY <1>8, <2>3, <2>4, RemovePodPuts DEF Evicts, Untouched
<1>9. CASE CleanUp
  <2> DEFINE G == {g \in marked \cap DOMAIN hasGPUs : RowsEmpty(hasGPUs[g])}
  <2>1. Cleans(G)
    BY <1>9 DEF CleanUp, Cleans
  <2> QED
    BY <1>9, <2>1
<1> QED
  BY <1>1, <1>2, <1>3, <1>4, <1>5, <1>6, <1>7, <1>8, <1>9, LedgerWriters DEF Untouched

-----------------------------------------------------------------------------
(* An entry of a sound ledger, and a sound entry put into one.             *)
LEMMA PutIsSound ==
    ASSUME SoundLedger, NEW g, NEW new, Sound(new), hasGPUs' = Put(hasGPUs, g, new)
    PROVE  SoundLedger'
BY DEF SoundLedger, Put

(* Every step keeps the ledger sound.                                      *)
LEMMA SoundLedgerStep ==
    ASSUME TypeOK, BookInv, [Next]_vars
    PROVE  SoundLedger'
<1>0. SoundLedger /\ IsLedger(hasGPUs)
  BY DEF BookInv, TypeOK
<1>1. \A g \in DOMAIN hasGPUs : Sound(hasGPUs[g]) /\ IsHASGPUInfo(hasGPUs[g])
  BY <1>0 DEF SoundLedger, IsLedger
<1>2. CASE Untouched
  BY <1>0, <1>2 DEF Untouched, SoundLedger
<1>3. CASE Emptied
  BY <1>3, BareIsSound DEF Emptied, SoundLedger
<1>4. ASSUME NEW g, NEW n, NEW sm, NEW quota, NEW r, Books(g, n, sm, quota, r)
      PROVE  SoundLedger'
  <2> DEFINE info == InfoOf(hasGPUs, g)
  <2>1. IsHASGPUInfo(info) /\ Sound(info)
    BY <1>1, BareIsSound, BareGPUType DEF InfoOf
  <2>2. \A s \in Row : n \notin DOMAIN info.rows[s]
    <3>1. CASE g \in DOMAIN hasGPUs
      BY <1>4, <3>1 DEF Books, NamesInRows, InfoOf
    <3>2. CASE g \notin DOMAIN hasGPUs
      BY <3>2 DEF InfoOf, BareGPU, EmptyMap
    <3> QED
      BY <3>1, <3>2
  <2> HIDE DEF info
  <2>3. Sound(Added(info, n, sm, quota, r))
    BY <1>4, <2>1, <2>2, AddedIsSound DEF Books
  <2> QED
    BY <1>0, <1>4, <2>3, PutIsSound DEF Books, info
<1>5. ASSUME NEW g, NEW R, NEW claim, ClaimsOnly(g, R, claim)
      PROVE  SoundLedger'
  <2>1. Sound(updateSMConfigForGPU(hasGPUs[g], R, claim))
    BY <1>1, <1>5, ClaimIsSound DEF ClaimsOnly
  <2> QED
    BY <1>0, <1>5, <2>1, PutIsSound DEF ClaimsOnly
<1>6. ASSUME NEW g, NEW R, NEW claim, NEW sm, NEW quota, NEW r, Plans(g, R, claim, sm, quota, r)
      PROVE  SoundLedger'
  <2> DEFINE new == Added(updateSMConfigForGPU(hasGPUs[g], R, claim),
                          Provisional(cur, quota, sm), sm, quota, r)
  <2>1. Sound(new)
    BY <1>1, <1>6, PlanIsSound DEF Plans
  <2>2. hasGPUs' = Put(hasGPUs, g, new)
    BY <1>6 DEF Plans
  <2> HIDE DEF new
  <2> QED
    BY <1>0, <2>1, <2>2, PutIsSound
<1>7. ASSUME NEW g, NEW n, NEW quota, Requotes(g, n, quota)
      PROVE  SoundLedger'
  <2>1. Sound(Requoted(hasGPUs[g], n, quota))
    BY <1>1, <1>7, RequotedIsSound DEF Requotes
  <2> QED
    BY <1>0, <1>7, <2>1, PutIsSound DEF Requotes
<1>8. ASSUME NEW g, NEW n, Evicts(g, n)
      PROVE  SoundLedger'
  <2>1. \A r, s \in Row :
          n \in DOMAIN hasGPUs[g].rows[r] /\ n \in DOMAIN hasGPUs[g].rows[s] => r = s
    BY <1>8 DEF Evicts, BookInv, OnceBooked
  <2>2. Sound(Evicted(hasGPUs[g], n))
    BY <1>1, <1>8, <2>1, EvictedIsSound DEF Evicts
  <2> QED
    BY <1>0, <1>8, <2>2, PutIsSound DEF Evicts
<1>9. ASSUME NEW G, Cleans(G)
      PROVE  SoundLedger'
  BY <1>1, <1>9 DEF Cleans, Drop, SoundLedger
<1> QED
  BY <1>2, <1>3, <1>4, <1>5, <1>6, <1>7, <1>8, <1>9, LedgerMoves DEF Adopts

(* The real names of an entry come from the same rows of another.          *)
RealFrom(new, old) ==
    \A r \in Row : \A n \in DOMAIN new.rows[r] :
        IsReal(n) => n \in DOMAIN old.rows[r] /\ new.rows[r][n] = old.rows[r][n]

RealRowsShrink ==
    \A g \in DOMAIN hasGPUs' : g \in DOMAIN hasGPUs /\ RealFrom(hasGPUs'[g], hasGPUs[g])

LEMMA PutShrinks ==
    ASSUME NEW g \in DOMAIN hasGPUs, NEW new, RealFrom(new, hasGPUs[g]),
           hasGPUs' = Put(hasGPUs, g, new)
    PROVE  RealRowsShrink
<1>1. \A h \in DOMAIN hasGPUs : RealFrom(hasGPUs[h], hasGPUs[h])
  BY DEF RealFrom
<1> QED
  BY <1>1 DEF RealRowsShrink, Put

(* Only adoption and initialisation book a real name.                      *)
LEMMA RealNamesMove ==
    ASSUME TypeOK, BookInv, [Next]_vars
    PROVE  \/ Emptied /\ (Start \/ RestartAfterPanic \/ Crash)
           \/ AdoptPod /\ \E n \in unread : Adopts(n)
           \/ InitPod /\ \E g, n, sm, quota, r : Books(g, n, sm, quota, r)
           \/ RealRowsShrink
<1>1. \A g \in DOMAIN hasGPUs : IsHASGPUInfo(hasGPUs[g])
  BY DEF TypeOK, IsLedger
<1>2. CASE Untouched
  BY <1>2 DEF Untouched, RealRowsShrink, RealFrom
<1>3. ASSUME NEW g, NEW R, NEW claim, ClaimsOnly(g, R, claim)
      PROVE  RealRowsShrink
  <2>1. RealFrom(updateSMConfigForGPU(hasGPUs[g], R, claim), hasGPUs[g])
    BY <1>1, <1>3 DEF ClaimsOnly, RealFrom, updateSMConfigForGPU, IsHASGPUInfo
  <2> QED
    BY <1>3, <2>1, PutShrinks DEF ClaimsOnly
<1>4. ASSUME NEW g, NEW R, NEW claim, NEW sm, NEW quota, NEW r, Plans(g, R, claim, sm, quota, r)
      PROVE  RealRowsShrink
  <2> DEFINE claimed == updateSMConfigForGPU(hasGPUs[g], R, claim)
             n == Provisional(cur, quota, sm)
             new == Added(claimed, n, sm, quota, r)
  <2>1. g \in DOMAIN hasGPUs /\ hasGPUs' = Put(hasGPUs, g, new) /\ r \in Row /\ claim \in Int
    BY <1>4 DEF Plans
  <2>2. IsHASGPUInfo(claimed)
    BY <1>1, <2>1, UpdateSMConfigType
  <2>3. claimed.rows = hasGPUs[g].rows
    BY <1>1, <2>1 DEF updateSMConfigForGPU, IsHASGPUInfo
  <2>4. ~IsReal(n)
    BY DEF IsReal, Provisional
  <2> HIDE DEF claimed, n
  <2>5. IsAdded(claimed, new, n, EffectiveSM(claimed, r, sm), quota, r)
    BY <2>1, <2>2, AddedParts
  <2> HIDE DEF new
  <2>6. RealFrom(new, hasGPUs[g])
    BY <2>3, <2>4, <2>5 DEF IsAdded, RealFrom
  <2> QED
    BY <2>1, <2>6, PutShrinks
<1>5. ASSUME NEW g, NEW n, NEW quota, Requotes(g, n, quota)
      PROVE  RealRowsShrink
  <2>1. RealFrom(Requoted(hasGPUs[g], n, quota), hasGPUs[g])
    BY DEF RealFrom, Requoted, Rebooked
  <2> QED
    BY <1>5, <2>1, PutShrinks DEF Requotes
<1>6. ASSUME NEW g, NEW n, Evicts(g, n)
      PROVE  RealRowsShrink
  <2>1. \A s \in Row : Evicted(hasGPUs[g], n).rows[s]
                         = IF s = Min(RowsOf(hasGPUs[g], n)) THEN Drop(hasGPUs[g].rows[s], {n})
                                                             ELSE hasGPUs[g].rows[s]
    BY <1>1, <1>6, EvictedParts DEF Evicts
  <2>2. RealFrom(Evicted(hasGPUs[g], n), hasGPUs[g])
    BY <2>1 DEF RealFrom, Drop
  <2> QED
    BY <1>6, <2>2, PutShrinks DEF Evicts
<1>7. ASSUME NEW G, Cleans(G)
      PROVE  RealRowsShrink
  BY <1>7 DEF Cleans, Drop, RealRowsShrink, RealFrom
<1> QED
  BY <1>2, <1>3, <1>4, <1>5, <1>6, <1>7, LedgerMoves

(* What a booking makes of the rows: the name stands in the new one only.  *)
RowsGain(g, n, r) ==
    \A h \in DOMAIN hasGPUs' : \A s \in Row : \A m \in DOMAIN hasGPUs'[h].rows[s] :
        IF m = n THEN h = g /\ s = r /\ hasGPUs'[h].rows[s][m] = 1
        ELSE /\ h \in DOMAIN hasGPUs /\ m \in DOMAIN hasGPUs[h].rows[s]
             /\ hasGPUs'[h].rows[s][m] = hasGPUs[h].rows[s][m]

BookedIn(g, n, r) ==
    /\ DOMAIN hasGPUs' = DOMAIN hasGPUs \cup {g}
    /\ n \in DOMAIN hasGPUs'[g].rows[r]
    /\ \A h \in DOMAIN hasGPUs : \A s \in Row :
          DOMAIN hasGPUs[h].rows[s] \subseteq DOMAIN hasGPUs'[h].rows[s]

LEMMA BookedRows ==
    ASSUME TypeOK, NEW g, NEW n, NEW sm, NEW quota, NEW r, Books(g, n, sm, quota, r)
    PROVE  BookedIn(g, n, r) /\ RowsGain(g, n, r)
<1> DEFINE info == InfoOf(hasGPUs, g)
           new == Added(info, n, sm, quota, r)
<1>1. hasGPUs' = Put(hasGPUs, g, new) /\ r \in Row /\ n \notin NamesInRows
  BY DEF Books
<1>2. IsHASGPUInfo(info)
  BY InfoOfType DEF TypeOK
<1>3. IsAdded(info, new, n, EffectiveSM(info, r, sm), quota, r)
  BY <1>1, <1>2, AddedParts
<1>4. \A h \in DOMAIN hasGPUs, s \in Row : n \notin DOMAIN hasGPUs[h].rows[s]
  BY <1>1 DEF NamesInRows
<1>5. \A s \in Row : DOMAIN BareGPU.rows[s] = {}
  BY DEF BareGPU, EmptyMap
<1>6. /\ DOMAIN hasGPUs' = DOMAIN hasGPUs \cup {g}
      /\ hasGPUs'[g] = new
      /\ \A h \in DOMAIN hasGPUs' : h # g => hasGPUs'[h] = hasGPUs[h] /\ h \in DOMAIN hasGPUs
  BY <1>1 DEF Put
<1>7. \A h : InfoOf(hasGPUs, h) = IF h \in DOMAIN hasGPUs THEN hasGPUs[h] ELSE BareGPU
  BY DEF InfoOf
<1>8. \A s \in Row : n \notin DOMAIN info.rows[s]
  BY <1>4, <1>5, <1>7
<1>9. \A m, s : s \in Row /\ m \in DOMAIN info.rows[s]
                  => g \in DOMAIN hasGPUs /\ info = hasGPUs[g]
  BY <1>5, <1>7
<1> HIDE DEF new, info
<1>10. \A s \in Row : DOMAIN new.rows[s] = DOMAIN info.rows[s] \cup (IF s = r THEN {n} ELSE {})
  BY <1>3 DEF IsAdded
<1>11. /\ new.rows[r][n] = 1
       /\ \A s \in Row : \A m \in DOMAIN new.rows[s] :
            IF m = n THEN s = r
            ELSE m \in DOMAIN info.rows[s] /\ new.rows[s][m] = info.rows[s][m]
  BY <1>3, <1>8, <1>10, <1>1 DEF IsAdded
<1>12. BookedIn(g, n, r)
  <2>1. n \in DOMAIN new.rows[r]
    BY <1>1, <1>10
  <2>2. \A h \in DOMAIN hasGPUs : \A s \in Row :
          DOMAIN hasGPUs[h].rows[s] \subseteq DOMAIN hasGPUs'[h].rows[s]
    BY <1>6, <1>7, <1>10 DEF info
  <2> QED
    BY <1>6, <2>1, <2>2 DEF BookedIn
<1>13. ASSUME NEW h \in DOMAIN hasGPUs', NEW s \in Row, NEW m \in DOMAIN hasGPUs'[h].rows[s]
       PROVE  IF m = n THEN h = g /\ s = r /\ hasGPUs'[h].rows[s][m] = 1
              ELSE /\ h \in DOMAIN hasGPUs /\ m \in DOMAIN hasGPUs[h].rows[s]
                   /\ hasGPUs'[h].rows[s][m] = hasGPUs[h].rows[s][m]
  <2>1. CASE h = g
    BY <1>6, <1>9, <1>11, <2>1
  <2>2. CASE h # g
    BY <1>4, <1>6, <2>2
  <2> QED
    BY <2>1, <2>2
<1> QED
  BY <1>6, <1>12, <1>13 DEF RowsGain

(* What a process has visited it knows until it dies.                      *)
LEMMA PodsInfoGrows ==
    ASSUME [Next]_vars
    PROVE  \/ Start \/ RestartAfterPanic \/ Crash
           \/ DOMAIN podsInfo \subseteq DOMAIN podsInfo'
<1> USE DEF memoryVars
<1>1. CASE InitialiseStep
  BY <1>1 DEF InitialiseStep, InitCheckFails, InitCheckFindsNone, InitCheckFindsPods, AdoptPod,
              AdoptEnds, InitPod, Track, Put, InitPodPanics
<1>2. CASE ObserveStep
  BY <1>2, Zenon DEF ObserveStep, QueryFails, Query, QueryForNothing, CheckGivesUp, CheckFindsPods,
              ConvertPod, ConvertEnds, Decide, NoScaling
<1>3. CASE Autoscale
  BY <1>3 DEF Autoscale
<1>4. CASE ApplyStep
  BY <1>4 DEF ApplyStep, ApplyDelete, Untrack, ApplyUpdateUntracked, ApplyUpdate,
              ApplyCreateRefused, ApplyLookup, ApplyCreate, Track, Put, ApplyEnds
<1>5. CASE Tick \/ TickEnds \/ VisitNew \/ VisitKnown
  BY <1>5 DEF Tick, TickEnds, VisitNew, VisitKnown, Put
<1>6. CASE DeleteFunc \/ AddFunc \/ Collect \/ CooldownExpires
  BY <1>6 DEF DeleteFunc, AddFunc, Collect, CooldownExpires
<1>7. CASE UNCHANGED vars
  BY <1>7 DEF vars
<1> QED
  BY <1>1, <1>2, <1>3, <1>4, <1>5, <1>6, <1>7 DEF Next, ControllerStep, EnvStep

(* How the goroutine comes to the check of a new function, and from there  *)
(* to the adoption of its FaSTPods.                                        *)
LEMMA InitialisePhases ==
    ASSUME TypeOK, [Next]_vars
    PROVE  /\ pc' = "initCheck" => \/ pc = "initCheck" /\ cur' = cur
                                   \/ cur' \notin DOMAIN podsInfo
           /\ pc' = "adopt" => /\ cur' = cur
                               /\ \/ pc = "initCheck" /\ unread' = PodsOf(cur)
                                  \/ pc = "adopt" /\ unread' \subseteq unread
<1> USE DEF memoryVars, localVars, scalerVars, Forget, NextFunction, LoseMemory, Planned, ApplyRest
<1>1. CASE InitialiseStep
  BY <1>1 DEF InitialiseStep, InitCheckFails, InitCheckFindsNone, InitCheckFindsPods, AdoptPod,
              AdoptEnds, InitPod, AfterInit, InitPodPanics
<1>2. CASE ObserveStep
  <2>1. pc' # "initCheck" /\ pc' # "adopt"
    BY <1>2, Zenon DEF ObserveStep, QueryFails, Query, QueryForNothing, CheckGivesUp,
              CheckFindsPods, ConvertPod, ConvertEnds, Decide, NoScaling, BeginScaleUp,
              BeginScaleDown
  <2> QED
    BY <2>1
<1>3. CASE Autoscale
  <2>1. pc' # "initCheck" /\ pc' # "adopt"
    BY <1>3 DEF Autoscale, AutoscaleStep, VerticalScale, VerticalPanics, VerticalDone,
              HorizontalScale, HorizontalSkip, HorizontalDone, NoUsedGPULeft, NewGPUPanics,
              NoNewGPU, Fallback, FallbackFindsNothing, ShrinkPod, ShrinkSkip, ShrinkDone,
              EvictPod, EvictSkip, EvictDone, CleanUp
  <2> QED
    BY <2>1
<1>4. CASE ApplyStep
  BY <1>4 DEF ApplyStep, ApplyDelete, ApplyUpdateUntracked, ApplyUpdate, ApplyCreateRefused,
              ApplyLookup, ApplyCreate, ApplyEnds
<1>5. CASE Start \/ RestartAfterPanic \/ Crash \/ Tick \/ TickEnds \/ VisitNew \/ VisitKnown
  BY <1>5 DEF Start, getGPUDeviceTopology, RestartAfterPanic, Crash, Tick, TickEnds, VisitNew,
              VisitKnown
<1>6. CASE DeleteFunc \/ AddFunc \/ Collect \/ CooldownExpires \/ UNCHANGED vars
  BY <1>6 DEF DeleteFunc, AddFunc, Collect, CooldownExpires, vars
<1> QED
  BY <1>1, <1>2, <1>3, <1>4, <1>5, <1>6 DEF Next, ControllerStep, EnvStep

(* Only FaSTPods of the function are listed for adoption.                  *)
LEMMA OwnUnreadStep ==
    ASSUME TypeOK, OwnUnread, [Next]_vars
    PROVE  OwnUnread'
BY InitialisePhases DEF OwnUnread, PodsOf

(* No row of an empty book holds a name.                                   *)
LEMMA NothingBooked ==
    ASSUME Emptied
    PROVE  \A g \in DOMAIN hasGPUs' : \A r \in Row : DOMAIN hasGPUs'[g].rows[r] = {}
BY DEF Emptied, BareGPU, EmptyMap

(* A FaSTPod is booked once: it is booked only when no row has it.         *)
LEMMA OnceBookedStep ==
    ASSUME TypeOK, BookInv, [Next]_vars
    PROVE  OnceBooked'
<1>0. OnceBooked
  BY DEF BookInv
<1>1. CASE Emptied
  BY <1>1, NothingBooked DEF OnceBooked
<1>2. ASSUME NEW g, NEW n, NEW sm, NEW quota, NEW r, Books(g, n, sm, quota, r)
      PROVE  OnceBooked'
  <2>1. RowsGain(g, n, r)
    BY <1>2, BookedRows
  <2> QED
    BY <1>0, <2>1 DEF OnceBooked, RowsGain
<1>3. CASE RealRowsShrink
  BY <1>0, <1>3 DEF OnceBooked, RealRowsShrink, RealFrom
<1> QED
  BY <1>1, <1>2, <1>3, RealNamesMove DEF Adopts

(* Nothing is booked for a function the process has not visited.           *)
LEMMA VisitedOnlyStep ==
    ASSUME TypeOK, BookInv, [Next]_vars
    PROVE  VisitedOnly'
<1>0. VisitedOnly
  BY DEF BookInv
<1>1. CASE Emptied
  BY <1>1, NothingBooked DEF VisitedOnly
<1>2. CASE RealRowsShrink /\ ~(Start \/ RestartAfterPanic \/ Crash)
  <2>1. DOMAIN podsInfo \subseteq DOMAIN podsInfo'
    BY <1>2, PodsInfoGrows
  <2>2. SUFFICES ASSUME NEW g \in DOMAIN hasGPUs', NEW r \in Row, NEW n \in DOMAIN hasGPUs'[g].rows[r],
                        IsReal(n)
                 PROVE  /\ FuncOf(n) \in DOMAIN podsInfo'
                        /\ pc' = "initCheck" => FuncOf(n) # cur'
                        /\ pc' = "adopt" => n \notin unread'
    BY DEF VisitedOnly
  <2>3. g \in DOMAIN hasGPUs /\ n \in DOMAIN hasGPUs[g].rows[r]
    BY <1>2, <2>2 DEF RealRowsShrink, RealFrom
  <2>4. /\ FuncOf(n) \in DOMAIN podsInfo
        /\ pc = "initCheck" => FuncOf(n) # cur
        /\ pc = "adopt" => n \notin unread
    BY <1>0, <2>2, <2>3 DEF VisitedOnly
  <2> QED
    BY <2>1, <2>4, InitialisePhases DEF PodsOf
<1>3. ASSUME AdoptPod, NEW n \in unread, Adopts(n)
      PROVE  VisitedOnly'
  <2>0. PICK g, sm, quota, r : Books(g, n, sm, quota, r) /\ unread' = unread \ {n}
    BY <1>3 DEF Adopts
  <2>1. /\ pc = "adopt" /\ pc' = "adopt" /\ podsInfo' = podsInfo /\ cur' = cur
        /\ cur \in DOMAIN podsInfo
    BY <1>3, CurType DEF AdoptPod, BetweenFunctions
  <2>2. RowsGain(g, n, r)
    BY <2>0, BookedRows
  <2>3. FuncOf(n) = cur
    BY <2>0 DEF Books
  <2> QED
    BY <1>0, <2>0, <2>1, <2>2, <2>3 DEF VisitedOnly, RowsGain
<1>4. ASSUME InitPod, NEW g, NEW n, NEW sm, NEW quota, NEW r, Books(g, n, sm, quota, r)
      PROVE  VisitedOnly'
  <2>1. /\ pc' \notin {"initCheck", "adopt"} /\ cur \in DOMAIN podsInfo
        /\ DOMAIN podsInfo \subseteq DOMAIN podsInfo'
    BY <1>4, CurType DEF InitPod, AfterInit, BetweenFunctions, Track, Put
  <2>2. RowsGain(g, n, r)
    BY <1>4, BookedRows
  <2>3. FuncOf(n) = cur
    BY <1>4 DEF Books
  <2> QED
    BY <1>0, <2>1, <2>2, <2>3 DEF VisitedOnly, RowsGain
<1>5. CASE Start \/ RestartAfterPanic \/ Crash
  <2>1. Emptied
    BY <1>5 DEF Start, getGPUDeviceTopology, RestartAfterPanic, Crash, LoseMemory, Emptied, EmptyMap
  <2> QED
    BY <1>1, <2>1
<1> QED
  BY <1>1, <1>2, <1>3, <1>4, <1>5, RealNamesMove

-----------------------------------------------------------------------------
(* A pod on the list keeps its name, its GPU and its partition.            *)
SamePod(p, q) == p.name = q.name /\ p.gpu = q.gpu /\ p.sm = q.sm

PodsKept == \A j \in DOMAIN pods' : \E i \in DOMAIN pods : SamePod(pods'[j], pods[i])

PodListed(n) ==
    /\ n \in unread /\ unread' = unread \ {n}
    /\ \A j \in DOMAIN pods' :
          \/ \E i \in DOMAIN pods : SamePod(pods'[j], pods[i])
          \/ pods'[j].name = n /\ pods'[j].gpu = fastPod[n].gpu /\ pods'[j].sm = fastPod[n].sm

(* A list made of the elements of another keeps its pods.                  *)
LEMMA KeptFromRange ==
    ASSUME TypeOK, pods' \in Seq(Range(pods))
    PROVE  PodsKept
<1>1. \A j \in DOMAIN pods' : pods'[j] \in Range(pods)
  OBVIOUS
<1> QED
  BY <1>1 DEF PodsKept, SamePod, Range

(* A resized pod is the same pod.                                          *)
LEMMA KeptWhenResized ==
    ASSUME TypeOK, idx <= Len(pods), NEW quota, NEW rps,
           pods' = [pods EXCEPT ![idx] = Resized(pods[idx], quota, rps)]
    PROVE  PodsKept
<1>1. DOMAIN pods' = DOMAIN pods
  OBVIOUS
<1>2. \A j \in DOMAIN pods : SamePod(pods'[j], pods[j])
  BY DEF SamePod, Resized
<1> QED
  BY <1>1, <1>2 DEF PodsKept

(* Pods enter the list one by one, converted from the FaSTPods.            *)
LEMMA ListMoves ==
    ASSUME TypeOK, [Next]_vars
    PROVE  PodsKept \/ (ConvertPod /\ \E n : PodListed(n))
<1> USE DEF localVars, scalerVars, Forget, NextFunction, LoseMemory, ApplyRest
<1>0. pods \in Seq(HASPodInfo) /\ pods \in Seq(Range(pods))
  BY DEF TypeOK, Range
<1>1. CASE pods' = pods \/ pods' = <<>>
  BY <1>1 DEF PodsKept, SamePod
<1>2. CASE ConvertPod
  <2>1. PICK n \in unread, cap \in Nat :
          /\ pods' = Append(pods, PodInfoOf(n, cap))
          /\ unread' = unread \ {n}
    BY <1>2, RappType DEF ConvertPod
  <2>2. PodInfoOf(n, cap) \in HASPodInfo
    <3>1. n \in Name /\ fastPod[n] \in FaSTPod
      BY DEF TypeOK, IsMapOf
    <3> QED
      BY <3>1, ReadQuotaType DEF PodInfoOf, FaSTPod, HASPodInfo
  <2> DEFINE pod == PodInfoOf(n, cap)
  <2>3. pod.name = n /\ pod.gpu = fastPod[n].gpu /\ pod.sm = fastPod[n].sm
    BY DEF PodInfoOf
  <2> HIDE DEF pod
  <2>4. \A j \in DOMAIN pods' : pods'[j] = pod \/ (j \in DOMAIN pods /\ pods'[j] = pods[j])
    BY <1>0, <2>1, <2>2, AppendShape DEF pod
  <2>5. PodListed(n)
    BY <2>1, <2>3, <2>4 DEF PodListed, SamePod
  <2> QED
    BY <1>2, <2>5
<1>3. CASE Decide
  <2>1. CASE BeginScaleUp
    BY <1>0, <2>1, SortedByType, KeptFromRange DEF BeginScaleUp
  <2>2. CASE BeginScaleDown
    BY <1>0, <2>2, SortedByType, KeptFromRange DEF BeginScaleDown
  <2> QED
    BY <1>3, <2>1, <2>2 DEF Decide
<1>4. CASE VerticalScale \/ ShrinkPod
  <2>1. PICK quota, rps : Resizes(quota, rps)
    BY <1>4, ResizeMoves
  <2>2. idx <= Len(pods) /\ pods' = [pods EXCEPT ![idx] = Resized(pods[idx], quota, rps)]
    BY <1>4, <2>1 DEF Resizes, VerticalScale, ShrinkPod
  <2> QED
    BY <2>2, KeptWhenResized
<1>6. CASE EvictPod
  <2>1. idx \in 1 .. Len(pods)
    BY <1>6, ListedPodType DEF EvictPod, MayEvict
  <2>2. pods' \in Seq(Range(pods))
    BY <1>0, <1>6, <2>1, RemoveAtType DEF EvictPod
  <2> QED
    BY <2>2, KeptFromRange
<1>7. CASE InitialiseStep
  BY <1>1, <1>7 DEF InitialiseStep, InitCheckFails, InitCheckFindsNone, InitCheckFindsPods,
              AdoptPod, AdoptEnds, InitPod, InitPodPanics
<1>8. CASE ObserveStep
  <2>1. ConvertPod \/ Decide \/ pods' = pods \/ pods' = <<>>
    BY <1>8 DEF ObserveStep, QueryFails, Query, QueryForNothing, CheckGivesUp,
              CheckFindsPods, ConvertEnds, NoScaling
  <2> QED
    BY <1>1, <1>2, <1>3, <2>1
<1>9. CASE Autoscale
  <2>1. VerticalScale \/ ShrinkPod \/ EvictPod \/ pods' = pods
    BY <1>9 DEF Autoscale, AutoscaleStep, VerticalPanics, VerticalDone, HorizontalScale,
              HorizontalSkip, HorizontalDone, NewGPUPanics, NoNewGPU, Fallback,
              FallbackFindsNothing, ShrinkSkip, ShrinkDone, EvictSkip, EvictDone, CleanUp
  <2> QED
    BY <1>1, <1>4, <1>6, <2>1
<1>10. CASE ApplyStep
  BY <1>1, <1>10 DEF ApplyStep, ApplyDelete, ApplyUpdateUntracked, ApplyUpdate,
              ApplyCreateRefused, ApplyLookup, ApplyCreate, ApplyEnds
<1>11. CASE Start \/ RestartAfterPanic \/ Crash \/ Tick \/ TickEnds \/ VisitNew \/ VisitKnown
  BY <1>1, <1>11 DEF Start, getGPUDeviceTopology, RestartAfterPanic, Crash, Tick, TickEnds,
              VisitNew, VisitKnown
<1>12. CASE DeleteFunc \/ AddFunc \/ Collect \/ CooldownExpires \/ UNCHANGED vars
  BY <1>1, <1>12 DEF DeleteFunc, AddFunc, Collect, CooldownExpires, vars
<1> QED
  BY <1>7, <1>8, <1>9, <1>10, <1>11, <1>12 DEF Next, ControllerStep, EnvStep

(* A call adds a FaSTPod, removes one, or changes a quota.                 *)
PodsNotAdded ==
    \A n \in DOMAIN fastPod' :
        /\ n \in DOMAIN fastPod
        /\ fastPod'[n].gpu = fastPod[n].gpu /\ fastPod'[n].sm = fastPod[n].sm

LEMMA FaSTPodMoves ==
    ASSUME TypeOK, [Next]_vars
    PROVE  \/ PodsNotAdded
           \/ /\ InitPod
              /\ \E n : \E g \in InitGPUs, config \in InitialConfig[cur] :
                    PodAdded(n, configs2FaSTPods(g, config))
           \/ ApplyCreate /\ \E n : PodAdded(n, configs2FaSTPods(Target.gpu, Target))
<1>1. CASE fastPod' = fastPod
  BY <1>1 DEF PodsNotAdded
<1>2. CASE InitPod
  BY <1>1, <1>2, InitPodMoves DEF FirstBooked, FirstUnseen
<1>3. CASE ApplyCreate
  <2>1. PICK n \in FreshName(cur) : \E o :
          fastPod' = AfterCreate(o, n, configs2FaSTPods(Target.gpu, Target))
    BY <1>3 DEF ApplyCreate
  <2> QED
    BY <1>1, <1>3, <2>1, FreshNames DEF AfterCreate, PodAdded
<1>4. CASE ApplyDelete
  <2>1. fastPod' = fastPod \/ \E o : fastPod' = AfterDelete(o, Target.name)
    BY <1>4 DEF ApplyDelete
  <2> QED
    BY <1>1, <2>1 DEF AfterDelete, Drop, PodsNotAdded
<1>5. CASE ApplyUpdate
  <2>1. PICK o, quota : fastPod' = AfterUpdate(o, Target.name, quota)
    BY <1>5 DEF ApplyUpdate
  <2>2. IsMapOf(fastPod, Name, FaSTPod)
    BY DEF TypeOK
  <2> QED
    BY <1>1, <2>1, <2>2 DEF AfterUpdate, PodsNotAdded, IsMapOf, FaSTPod
<1>6. CASE DeleteFunc \/ AddFunc \/ Collect
  BY <1>1, <1>6 DEF DeleteFunc, AddFunc, Collect, Drop, PodsNotAdded
<1> QED
  BY <1>1, <1>2, <1>3, <1>4, <1>5, <1>6, ClusterWriters

(* Provisional names reach neither the cluster nor the list of its pods.   *)
LEMMA RealNamesStep ==
    ASSUME TypeOK, RealNames, [Next]_vars
    PROVE  RealNames'
<1>1. \A n \in DOMAIN fastPod' : IsReal(n)
  <2>1. PodsNotAdded \/ \E n, pod : PodAdded(n, pod)
    BY FaSTPodMoves
  <2> QED
    BY <2>1 DEF PodsNotAdded, PodAdded, Put, RealNames
<1>2. \A n \in Listed' : IsReal(n)
  <2>1. \A j \in DOMAIN pods' : IsReal(pods'[j].name)
    <3>1. \A i \in DOMAIN pods : IsReal(pods[i].name)
      BY DEF RealNames, Listed, Names
    <3>2. \A n \in unread : IsReal(n)
      BY DEF RealNames, TypeOK
    <3>3. PodsKept \/ \E n : PodListed(n)
      BY ListMoves
    <3> QED
      BY <3>1, <3>2, <3>3 DEF PodsKept, PodListed, SamePod
  <2> QED
    BY <2>1 DEF Listed, Names
<1> QED
  BY <1>1, <1>2 DEF RealNames

-----------------------------------------------------------------------------
(* The process starts with an empty book.                                  *)
LEMMA BookInvInit == Init => BookInv
BY DEF Init, BookInv, SoundLedger, OnceBooked, VisitedOnly, OwnUnread, RealNames, EmptyMap,
       Listed, Names

(* The book is consistent in every state.                                  *)
THEOREM BookIsConsistent == Spec => []BookInv
<1>1. TypeOK /\ BookInv /\ [Next]_vars => BookInv'
  BY SoundLedgerStep, OnceBookedStep, VisitedOnlyStep, OwnUnreadStep, RealNamesStep DEF BookInv
<1> QED
  BY <1>1, BookInvInit, TypeCorrect, PTL DEF Spec

(* Every name in a row has its configuration, whatever happens.            *)
THEOREM RowsAreNamed == Spec => []LedgerNamed
<1>1. BookInv => LedgerNamed
  BY DEF BookInv, SoundLedger, Sound, RowsNamed, LedgerNamed
<1> QED
  BY <1>1, BookIsConsistent, PTL

(* Every pod of a row is booked with the partition of the row.             *)
THEOREM RowsAreOnePartition == Spec => []RowSMAgrees
<1>1. BookInv => RowSMAgrees
  BY DEF BookInv, SoundLedger, Sound, RowsAgree, RowSMAgrees
<1> QED
  BY <1>1, BookIsConsistent, PTL

(* No FaSTPod is booked twice: not in two GPUs, two rows or two copies,    *)
(* although initialisation, adoption and restarts may each book it.        *)
THEOREM BookedOnlyOnce == Spec => []RealNamesOnce
<1>1. BookInv => RealNamesOnce
  <2>1. SUFFICES ASSUME BookInv, NEW n \in NamesInRows, IsReal(n)
                 PROVE  /\ Cardinality({x \in (DOMAIN hasGPUs) \X Row :
                                          n \in DOMAIN hasGPUs[x[1]].rows[x[2]]}) = 1
                        /\ \A g \in DOMAIN hasGPUs : \A r \in RowsOf(hasGPUs[g], n) :
                              hasGPUs[g].rows[r][n] = 1
    BY DEF RealNamesOnce
  <2> DEFINE places == {x \in (DOMAIN hasGPUs) \X Row : n \in DOMAIN hasGPUs[x[1]].rows[x[2]]}
  <2>2. PICK g \in DOMAIN hasGPUs, r \in Row : n \in DOMAIN hasGPUs[g].rows[r]
    BY DEF NamesInRows
  <2>3. places = {<<g, r>>}
    BY <2>1, <2>2 DEF BookInv, OnceBooked
  <2>4. Cardinality(places) = 1
    BY <2>3, FS_Singleton
  <2>5. \A h \in DOMAIN hasGPUs : \A s \in RowsOf(hasGPUs[h], n) : hasGPUs[h].rows[s][n] = 1
    BY <2>1 DEF BookInv, OnceBooked, RowsOf
  <2> QED
    BY <2>4, <2>5
<1> QED
  BY <1>1, BookIsConsistent, PTL

=============================================================================
