# HAS-GPU: a formal model of the hybrid autoscaler

TLA+ modules, TLC configurations and TLAPS proofs for the HAS-GPU controller
(`src/internal/controller`). The controller watches `FaSTFunc` objects
(serverless inference functions), creates `FaSTPod` objects (pods with a share
of a GPU: an SM partition in space and a quota in time), and scales them with
the request rate: *vertically* by changing the quota of a pod, *horizontally* by
creating and deleting pods.

## 1. The system

| component | source | state | operations |
|---|---|---|---|
| GPU ledger | `fastfunc_controller.go` 92-124, helpers in `has_autoscaling.go` 728-1056 | `hasGPUs`: per GPU two rows, each with an SM partition and the pods in it (`SMConfigs`, `RowPods`), the pods' resources (`PodsConfig`), the occupancy `HGO` | book a pod, partition a row, change a quota, take a pod out, drop a GPU, find room |
| Hybrid autoscaler | `has_autoscaling.go` 34-726 | cooldown per function; locals of its loops | scale-up: vertical, horizontal, new GPU, fallback; scale-down: lower quotas, remove pods, drop empty GPUs |
| Persistent reconciler | `persistentReconcile.go` 134-742 | `podsInfo`, `fastPods` (what it believes exists) | every 2 s for each FaSTFunc: initialise or adopt, query, check, scale, apply |
| FaSTFunc event handler, topology | `fastfunc_controller.go` 149-346 | `nodeGPUMap`, two `sync.Once` | scan the GPUs once, start the goroutine once, make a FaSTPod from a configuration |
| Throughput prediction | `tmp_database.go` | profile tables | `rapp`: RPS of (model, batch, SM, quota), from the RaPP service or the tables; `GetMostEfficientConfig`: the best configuration by searching the tables |
| Request predictor | `request_predictor_kalman.go`, used at `persistentReconcile.go` 140, 386-406 | one filter for all functions | next RPS from the measured one |
| Usage record | `persistentReconcile.go` 745-884 | a CSV file | append what the ledger holds, with function and partition taken from pod names |
| Names and annotations | `controller_util.go`, `persistentReconcile.go` 953-1114 | none | name a pod, read its resources back from its annotations |
| Outside | | FaSTFuncs and FaSTPods in the API server, the rates in Prometheus, the RaPP service | users create and delete FaSTFuncs, the garbage collector deletes FaSTPods, calls fail, the process dies |

**How they interact.** There is one goroutine. It calls the autoscaler as a
function: the autoscaler reads the FaSTPods just listed, *writes the ledger at
once*, and returns a list of actions; the reconciler then carries the actions out
one API call at a time. The three memories (`podsInfo`, `fastPods`, `hasGPUs`) are
package variables, updated in different branches, lost when the process dies and
rebuilt from the cluster by adoption. Every step of a loop of the autoscaler asks
`rapp` what a configuration serves, and each time either the service or the table
answers. The filter is fed with the rates of all functions in turn.

**What is hard.** The ledger is changed by the plan, the cluster by the actions,
and any action may fail in between. A FaSTFunc may go between its lookup and the
create. A pod is planned under a *provisional* name (function, quota, partition) and
created under another one. A row's pods are found by name. The process can die
between any two calls. Functions share rows. The loops stop on arithmetic conditions
over throughput differences, whose terms may come from different sources.
Initialisation happens at most once per process and function.

**What makes each component correct.**
- Ledger: every name in a row has its resources; a row is one partition and keeps
  it while it is in use; a FaSTPod is booked once; raises do not overbook a row.
- Autoscaler: the capacity still missing always equals the prediction minus what is
  listed and planned; loops end; it never plans a pod without partition or time.
- Reconciler: after a tick the memories agree with the cluster as long as calls
  succeed; a function with an instance keeps one whatever fails; the first instance
  is made once, further ones only for a FaSTFunc that a lookup has found; ticks end.
- Throughput: the search returns what a brute-force reading of the tables returns,
  whatever the order of the maps.
- Predictor: shared as it is, it never runs away from the rates it is given, covers the
  rate it has just been given, and settles.
- Usage record: a line names the function and partition of its pod.

## 2. Modules

| module | models |
|---|---|
| `GPULedger` | pure operators on a ledger (map GPU -> `HASGPUInfo`): one operator per helper of the code |
| `HASAutoscaler` (EXTENDS `GPULedger`) | the decision and the loops of scale-up and scale-down; one action per pod or GPU a loop visits |
| `HASReconciler` (EXTENDS `HASAutoscaler`) | the whole process and its surroundings; `Init`, `Next`, `Spec`, `FairSpec`, and the properties |
| `InstanceLifecycle` | the abstract specification: which functions are wanted, how many instances each has, which have a grant for one more |
| `UsageRecord` (EXTENDS `HASReconciler`) | the record of a tick as a function of the ledger: names as parts between hyphens, composed and taken apart again |
| `HASDocumented` (EXTENDS `UsageRecord`) | what comments of the code claim, where the code does otherwise |
| `ThroughputProfile` | the tables, the model of a name, `rapp` as the set of its possible answers, the configurations the search may return |
| `EfficientConfig` (EXTENDS `ThroughputProfile`) | the search itself, one step per configuration visited |
| `RequestPredictor` | the Kalman filter in fixed-point numbers and the ticks that feed it |
| `MCHASReconciler`, `MCEfficientConfig`, `MCRequestPredictor` | values of the constants for TLC |
| `GPULedgerProofs`, `HASReconcilerProofs`, `InstanceProofs`, `BookingProofs`, `SyncProofs`, each of which EXTENDS the one before; `UsageRecordProofs`; `EfficientConfigProofs`; `RequestPredictorProofs` | lemmas and theorems (section 5) |

`pc` is the place of the goroutine: `down` (no process), `idle` (between ticks),
`loop` (between functions), `initCheck`/`adopt`/`initCreate`,
`query`/`check`/`convert`/`decide`, the loops of the autoscaler
`vertical`/`horizontal`/`fallback`/`shrink`/`evict`/`clean`, `apply`, `create`
(between the lookup of a FaSTFunc and the creation of its pod), `stopped` (the goroutine has
returned), and three panics. A step ends at the next
API call or at the next round of a loop. `cur` is `funcName`, `pods` is `podsinfo`,
`marked` is `emptyGPUs`, `cooling` is the set of functions whose
`lastScaleDownTime` is younger than the cooldown.

**Composition.** `HASReconciler` takes the throughputs (`Profile`) and the first
configurations (`InitialConfig`) as constants; `MCHASReconciler` fills both from
`ThroughputProfile`, so that the runs work with what `rapp` and
`GetMostEfficientConfig` can really return for a function called "bert", "rapp" or "resnet".
`EfficientConfig` shows that the set `EfficientConfigs`, which is used there, contains
every result of the search. The predictor is a module of its own, because its number
range would multiply the states of the controller; `HASReconciler` takes any member of
`Preds` as the prediction, which is a superset of what the filter would give at
those levels.

### Abstractions

- **Names.** In the ledger a name is `<<function, quota, sm, k>>`; `k = 0` is a provisional
  name (`getResKeyName`), `k > 0` stands for the random suffix of a real one. A new suffix
  is one no FaSTPod, row or map holds: two equal five-character suffixes in use at
  the same time are left out. For the usage record a name is the sequence of its parts
  between hyphens; a part is told by its first letter ("q", "p" or another) and the number behind it.
  `FuncPartsAssumption` leaves out functions whose own name has a part that begins with
  "p" or looks like "q8": the code takes such a part for a partition or a quota.
- **A GPU id fixes its node**, so the maps by node and index are maps by GPU.
- **Rows are bags of names**: the order in a `RowPods` row is never used, the number
  of copies is.
- **Numbers.** RPS in tenths, the deficit `deltaR` in hundredths, so that the factors
  0.9, 0.3 and 0.1 are exact. HGO keeps the code's integer divisions. Quotas travel as
  text (`%0.2f`) and come back by a truncating conversion, which loses 1 for the quotas in
  `TruncatedQuotas` (`ReadQuota`); the configurations of the tables are not among them.
- **Throughput.** `rapp` is the *set* of answers to a call; every call in a loop picks one
  of its own. The bert models are never looked up in the service, so theirs is one value,
  0 where the table has no entry. The batch size is 4 in the configurations of the
  controller runs.
- **The tables** nest four maps in the code; a model has a set of profiles here (`Profiles`), with the
  latencies of the code in units of 0.1 microseconds.
- **The filter** works in thousandths (gain, covariance) and tenths (rates), rounding down
  where the code rounds a float. It never gives less than 5 RPS above the measurement
  (`MinBuffer`), and no member of `Preds` is below 5 RPS.
- **API calls** succeed, fail, or (writes) take effect while an error is seen;
  `FaultyCalls` names those that may, `MaxFaults` bounds how often. The `query` and
  `check` steps may give up at any time besides (`QueryFails`, `CheckGivesUp`: an error,
  no pod, no ready pod). `MaxPods` stands for a namespace quota: further creates fail.
  FaSTFuncs are read through the manager's cache, which is taken to be up to date: an
  older cache moves the moment at which a FaSTFunc was found further back.
- **Unspecified order** (map iteration, `sort.Slice` among equals, the order of a list)
  is a nondeterministic choice.
- **The surroundings** move only where the goroutine waits for a call or the ticker. In
  between, its steps touch only its own variables, so they commute with every step of
  the surroundings. A FaSTFunc is created again only after the FaSTPods of the former one
  are gone, and an owner is its name: that a pod made for the former FaSTFunc
  after the new one exists is still collected is left out.
- **Cooldown** expires between two ticks at any time.

## 3. Runs

The controller runs use the bert table of `initializeDefaultProfilingData`: the first
instance has partition 30 and quota 30, 14.1 RPS, and 17.2 RPS at full quota. `single` uses the
resnet table together with a service that may report 40 ms (22.7 RPS) at any call.

| run | instance | checks |
|---|---|---|
| `faults` | 1 function, 1 GPU, any 2 failing calls, 1 crash, loads 5/16/20 RPS | `TypeOK`, `LedgerNamed`, `RowSMAgrees`, `RealNamesOnce`, `PlannedCapacity`, `NilMapNeverWritten`, `ServablePods`, `KeepsOneInstance`, `OneFirstInstance`, `RowSMStable`, `ImplementsLifecycle` |
| `sync` | 1 scaled and 1 rapp function, 2 GPUs, 1 failing topology scan, 1 crash | `LedgerInSync`, `MemoryMatchesCluster`, `NoRowPanic` |
| `shared` | 2 scaled functions, 2 GPUs, symmetric | `LedgerInSync`, `RecordedPartition`, `RowSMStable` |
| `single` | 1 function, 2 GPUs, 4 pods, loads 5/11/20/26/50 RPS, the service answers or not, 2 failing lists, creates or topology scans | `PlannedCapacity`, `LedgerInSync`, `RaisesFit` |
| `churn` | 2 functions, one in a foreign namespace, 1 deletion of a FaSTFunc, 1 failing lookup, update or delete, 1 crash | `RealNamesOnce`, `NothingForgotten`, `OneFirstInstance`, `ImplementsLifecycle` |
| `live` | 1 scaled and 1 rapp function, 1 GPU, 1 crash, `FairSpec` | `TickCompletes`, `ScaleToOne` |
| `profile` | names like resnet, shufflenet, bert, mobilenet, rapp, and no name; service answers of 1 and 1.4 ms or none | `ChoiceIsAllowed`, `ChoiceIsEfficient`, `TablesGiveDefault` |
| `predictor` | 2 functions, idle, at 4 or at 12 RPS, 1 restart, `FairSpec` | `TypeOK`, `BoundedByPeak`, `BurstsFade`, `SettlesAlone` |

What they show. With failing calls and restarts the ledger stays well formed, a plan adds
up even if its throughputs come from two sources, nothing unservable is created, a
function that has an instance keeps one, and the controller implements `InstanceLifecycle`.
The memory and the cluster agree as long as the calls that matter do not fail (section 5 says
which); of the FaSTPods of a function `podsInfo` lacks none even if the FaSTFunc was deleted and
created again since (`NothingForgotten`), as long as creates and checks do not fail; rows keep their partition; no raise of a quota books a row beyond its time; the record names the right function
and partition for every FaSTPod; ticks end. The search returns an allowed configuration for every order of
the maps. The shared filter stays within 7.8 RPS of the highest rate it was given and forgets a burst:
once no function that is left exceeds a rate, the estimate comes down to that rate and 7.8 RPS for good, however the
loads go on changing below it (`BurstsFade`); a function that stays alone is in the end predicted 5.5 to 6 RPS more than its rate.

`NoRowPanic`, `MemoryMatchesCluster` and `LedgerInSync` are properties of runs without failing
writes only (creates that fail do no harm to `LedgerInSync`, as `single` shows): a failed delete leaves a pod on a GPU the ledger has dropped, and the next vertical
scale-up of that pod indexes rows that do not exist, which ends the process. A function
whose quota passes `MaxQuota` is not scaled further in the model; the code goes on.

`single` and `profile` are not checked for deadlock: after a failed list the goroutine
has returned, and after the panic of a call without a name the process is gone, and nothing
may happen ever after. In the other runs a state without a step is an error.

**Bounds.** Loads are chosen around the thresholds of the tables: 5 RPS triggers the
scale-down of every configuration with more than 16.7 RPS, 11 is within the thresholds
of the first bert instance, 16 needs vertical scaling, 20 and more need vertical and horizontal
scaling and the fallback; with 26 and 50 several pods have to share a GPU. Three FaSTPods let one pod be
deleted while one is created and one stays; four let two GPUs have two each. Two
failures cover a lost write followed by a failing retry in the same or the next tick;
one crash can fall between any two steps of them. Two GPUs are what dropping one and
booking on the other needs. One deletion is enough to have a plan outlive its FaSTFunc, also
between lookup and create, and to have the function created again. In `profile` the tables are
complete: every configuration of a model is visited, with every order. 1 ms and 1.4 ms
just meet the 35 RPS that are required, with and without a margin, and no table entry does. In
`predictor` 4 RPS is a rate that loads can stay below while they go on changing, and 12 RPS leaves the filter well
above it; `BoundedByPeak` and the step towards the measured rates (`ExcessShrinks`) hold for every
set of rates by proof.

### Where a comment and the code differ

Four of these differences are runs that TLC refutes, with the shortest way there.

| run | comment | code |
|---|---|---|
| `newGPUPanic` | without a name, default values (`tmp_database.go:686`) | `funcname[0]` is read without a name (`tmp_database.go:742`) |
| `firstCreate` | always keep one instance (`persistentReconcile.go:177`) | a failed first create is not tried again |
| `usage` | current usage is recorded (`persistentReconcile.go:744`) | an entry of a deleted FaSTPod is recorded in every tick, beside its provisional one |
| `occupancy` | HGO is the sum of partition times quota (`fastfunc_controller.go:109`) | the partition is divided by 100 as an integer, and HGO stays 0 |

The model follows the code in these as well, without a run of their own:

- `tmp_database.go:58` embeds `graph_features/*.json`, and line 68 reads the directory
  `./graph_features`, which `embed.FS` refuses: the process works with the built-in tables
  (`ValidPath`, `modelNamesCache`). Line 823 speaks of 30 ms, the code adds 70 (`Throughput`).
- The tables spell some models otherwise than `extractModelName` does, and use other
  batch sizes than its default: a "shufflenet" or "mobilenet" has throughput 0 unless the service
  answers. The default configuration of a "convnext" has partition 30, which its
  table does not have.
- A pod that its row does not name is measured against row 0 (`has_autoscaling.go:889`) and may be given
  more than the percentage a quota is meant to be.
- The last step of lowering a quota is taken, then tested (`has_autoscaling.go:574`): the last pod may be
  left below the rate it is meant to serve.
- A GPU is taken off the ledger when the plan is made (`has_autoscaling.go:716`), and stays off it if the
  delete fails.
- Every GPU of the topology counts as used (`has_autoscaling.go:992`): "no suitable existing GPU, try
  a new one" finds none, and the fallback loads a GPU that is in use while another is empty.
- `FindOptimalRowIdx` (1017-1056) may return a row that is full, which is booked beyond 100 %.
- `fastfunc_controller.go:108` says that -1 means no pod running; a row that is looked at by the
  horizontal loop is given a partition whether it is used or not (`Claimed`), and a
  row that loses its last pod keeps its partition (`RemovePod`).
- `fastfunc_controller.go:110` calls `RowPods` the pods in each row; a pod created by the autoscaler
  stays there under its provisional name (`ApplyCreate`).
- After a restart no row names a pod, so all of them are adopted in row 0, with that row's
  partition in the ledger and their own in the cluster (`AdoptPod`).
- `persistentReconcile.go:333` wants valid FaSTPods before one is created; `fastpods[0]` is read
  before the error, which ends the process for a FaSTFunc outside `fast-gshare-fn`
  (`InitPodPanics`, reached in `churn`).
- `persistentReconcile.go:135` says the goroutine updates every 5 seconds; it does every 2, and the
  first failed list ends it for good (`Tick` to `stopped`, reached in `single`).
- The comment on `ScaleDownCooldownPeriod` says 20 seconds, the constant is 10.
- A FaSTFunc that is deleted and created again finds its old entry in `podsInfo`, since the
  clean-up in `Reconcile` is commented out, and is not initialised: `ScaleToOne` fails with
  `MaxChurn = 1` just as it does in `firstCreate`.
- `GetMostEfficientConfig` holds a read lock while `rapp` takes it again; harmless, as nobody
  writes the tables after the start.

### Fairness

`HASReconciler!FairSpec` adds weak fairness of `ControllerStep`: the ticker fires, calls return
(every client has a deadline or an answer), the goroutine is scheduled, and the kubelet
starts a dead process again. Nothing is assumed of users, the collector, crashes
or the cooldown. Which branch a step takes is free: the property must hold if every
query fails.

`RequestPredictor!FairSpec` has weak fairness of the ticks and of each function's turn in one,
and strong fairness of `Measure`: Prometheus may fail for any number of ticks, but answers
again and again. Without that nothing would move the estimate, and neither `BurstsFade` nor `SettlesAlone`
could be expected of any filter.

### Mutants

Definitions introduced as "Faulty variant of" are plausible mistakes in the code; with
one of them in place of the original, TLC finds the property of the run violated.
`PROJECT.json` lists which variant each property is tried on.

## 4. Refinement

`InstanceLifecycle` says what a user may rely on: a function gets its first instance only if
it has none, a further one only on a grant that was given while it was wanted, and loses its last one only when it is
no longer wanted; instances come and go one at a time. `HASReconciler` implements it
(`ImplementsLifecycle`) with

| abstract | concrete |
|---|---|
| `wanted` | `funcs`, the FaSTFuncs that exist |
| `instances[f]` | the number of FaSTPods of `f` in the cluster |
| `granted` | the function between the lookup and the create of one of its pods (`pc = "create"`) |

The grant is there because the code looks the FaSTFunc up and creates the pod in two
calls: a FaSTFunc that is deleted in between still gets that one pod. Nothing in the
abstract specification speaks of memory, plans or failures, so the refinement says
that none of them is ever visible in it: a lost or failed call, a crash, an adoption, a stale plan and a
panic are all stutters or one of its actions.

## 5. Proofs

All theorems hold for every set of functions and GPUs, every profile, every first
configuration and every bound on pods, failures, crashes and deletions, unless a hypothesis
is named. The proof modules build on each other in the order of this section.

### What the ledger's operators do (`GPULedgerProofs`)

What each operator returns (`AddPodIsLedger`, `SetQuotaIsLedger`, `RemovePodIsLedger`, ...), and
which rows it keeps. The second part is about sums: `SumFunction` of a function with one value more, one less or another
(`SumWithOther`, ...). The induction theorems of the library
take an operator, which the provers cannot instantiate, so `SetInduction` is induction for *sets* of
numbers, made from the well-foundedness of `<` (`WFMin`); the sums are by induction over the size of the set.

### The process and its FaSTPods (`HASReconcilerProofs`, `InstanceProofs`)

- `TypeCorrect`: `Spec => []TypeOK`. `TypeOK` is inductive as it stands because it holds
  four facts about `pc` besides types: while a function is worked on, it has an entry
  in `podsInfo`; the GPUs still to be visited are in the ledger; FaSTPods that are still
  to be read exist; a process that is down has no ledger. The proof has one step per action.
- `RowsStayPartitioned`: `Spec => RowSMStable`. `LedgerWriters` shows that only some
  actions change the ledger; each of them is a composition of operators that keep the
  rows in use (`AddPodKeepsRows`, `ClaimKeepsRows`, ...), and `RowsKeptTransitive`
  joins a claim and a booking.
- `FirstInstanceOnce`: `Spec => OneFirstInstance`. The invariant is `NoneFound`: at
  `initCreate` the function has no FaSTPod. It is inductive because the check that leads
  there has seen none and nobody else creates FaSTPods. The theorem rests on there being
  one controller process.
- `PlansAreRight`: `Spec => []IInv`, the inductive invariant behind the next two. That
  a deletion never takes the last FaSTPod is not inductive, because the deletion is
  planned long before it is made. `IInv` follows the pod that is kept from the list
  to the call: there are finitely many FaSTPods (`FinitelyMany`), the listed ones are the function's own
  (`OwnFaSTPods`), none is listed twice (`ListedOnce`), a name that is planned to be deleted is no
  longer on the list of those that are kept (`KeptOrDeleted`) while that list is not empty
  (`SomeKept`), a plan that deletes does not create (`OneDirection`), list and plan are made anew for
  every function (`MadeAnew`), and, as long as the FaSTFunc exists, what is on the list is in the
  cluster, unless the FaSTFunc was deleted and created again since, and then nothing that is planned to be deleted is
  (`ListIsRight`).
- `LastInstanceStays`: `Spec => KeepsOneInstance`. By `IInv` a deletion of a function that exists leaves a kept FaSTPod.
- `Implementation`: `Spec => ImplementsLifecycle`. `ClusterWriters` and `GrantWriters` name
  the few actions that change what the mapping sees, `ClusterMoves` sorts every step
  into nothing, found, unused, created, removed, unwanted or wanted again, and `StepImplements`
  gives each of these its abstract action by counting FaSTPods.
- `CapacityIsPlanned`: `Spec => []PlannedCapacity`. The invariant `CapInv` adds
  `ListedCapacity`, the same for the list while it is made: `total` is the sum of its rates. Each
  loop changes one rate of the list, appends one to the plan or takes one off the list, and `deltaR` by what the sum of
  rates changes; sorting a list does not change its sum.

### The book (`BookingProofs`)

One inductive invariant, `BookInv` (`BookIsConsistent`), whichever calls fail and wherever the
process dies:

- `SoundLedger`, about each GPU: a name in a row has its configuration (`RowsNamed`); a pod of a row is booked with the
  partition of the row (`RowsAgree`); a planned pod has in its name the partition it is booked with, or -1
  (`PlannedPartition`); an entry that no row names, left by a quota loop, has no partition (`LooseIsBare`). The third is needed because all
  pods planned with the same quota and partition share one provisional name: it may stand in several rows
  while `PodsConfig` has one entry for it. -1 is planned at most once for a GPU, since the plan leaves no row without a partition.
- `OnceBooked`: a FaSTPod is in one row of one GPU, once. By itself this is not inductive: the
  adoption books whatever it has listed. So `VisitedOnly` says that nothing is booked
  for a function the process has not visited, and, during the adoption, nothing that is still
  to be adopted; and `OwnUnread` that what is adopted belongs to the function.
- `RealNames`: provisional names reach neither the cluster nor a list.

From it `RowsAreNamed` (`LedgerNamed`), `RowsAreOnePartition` (`RowSMAgrees`) and `BookedOnlyOnce`
(`RealNamesOnce`).

### Memory, book and cluster (`SyncProofs`, `UsageRecordProofs`)

Without any hypothesis:

- `MemoryIsBooked`: `Spec => []SeenInv`. A GPU that holds a FaSTPod of a visited function has been booked
  on by this process, if it is tracked at all (`SeenAllocated`; `Phases` says at which `pc` a function counts as
  visited); so have the GPUs of the list and of the planned creations, and these have a partition and a quota
  (`PlannedServable`). Hence `NoNilMap` (`NilMapNeverWritten`) and `PodsAreServable` (`ServablePods`).
- `RecordsAreRight` (`RecordedPartition`): the name of a FaSTPod is taken apart as it was put together, because its quota and
  partition are positive (`ServablePods`) and `FuncPartsAssumption` keeps the function's parts from
  looking like them; the entry that is recorded has the partition of its row, or none (`BookInv`).

With a hypothesis on the calls that may fail. `KnownNames` (what is listed or planned has been found) and
`UpdateInv` (a list and its updates are about FaSTPods where they are; an update is planned once, and
before the loop goes on) need none.

| theorem | property | hypothesis | not assumed |
|---|---|---|---|
| `RowsAreThere` | `NoRowPanic` | deletions do not fail | all other calls, crashes, deleted FaSTFuncs |
| `MemoryIsRight` | `MemoryMatchesCluster` | creations, deletions and checks do not fail, no FaSTFunc is deleted | updates, lists, lookups, topology, crashes |
| `NothingIsForgotten` | `NothingForgotten` | creations and checks do not fail | deletions, updates, lists, lookups, topology, crashes, deleted FaSTFuncs |
| `BookIsInSync` | `QuotasReadBack => LedgerInSync` | updates do not fail, no FaSTFunc is deleted | creations, deletions, checks, lists, crashes |
| `RaisesNeverOverbook` | `RaisesFit` | updates do not fail | all other calls, crashes, deleted FaSTFuncs |

The hypotheses are the code's, not the proof's; with any one of them dropped TLC finds the property
violated:

- A deletion that fails leaves a FaSTPod that is in no row any more, on a GPU that the plan may have dropped
  from the ledger. `PlacedInv` says what holds otherwise: a FaSTPod that has been seen and is not planned to be deleted is
  in a row, or its GPU holds a planned name, which stays there for ever.
- A create whose success is not seen, and a delete whose success is not seen, leave `podsInfo` wrong; so does a check that
  fails after the first visit, since the function then counts as initialised, and the collector, which nobody tells `podsInfo` of. The delete and the
  collector leave too much in `podsInfo`, never too little: `NothingForgotten` survives them. Its
  invariant is `TrackInv`, one half of `MemoryInv`.
- An update that fails leaves the new quota in the ledger, where it was booked when it was planned, and the old one on the
  FaSTPod; the next raise adds to the old one. A quota that is read back truncated differs by one, which
  `RaisesFit` survives (the list never has more than the book) and `LedgerInSync` does not; the quotas
  of the tables and the steps of the loops are multiples of 10, and no multiple of 10 below 230 is read back truncated.

`SyncInv`, the invariant of the last two, is about what is booked for a FaSTPod: it is booked where it is, `podsInfo`
knows it and nothing plans to delete it (`BookedThere`); the list has it on the same GPU (`ListedWhereBooked`); its quota is the
booked one unless an update is planned (`BookedQuota`), and then the planned one is (`UpdatesMatch`).
`RaisesFit` needs the sums again, since a row's rest is 100 less a sum (`RowIsSummable`,
`RequotedRow`), and `ListedBooked`: until the vertical loop gets to a pod, its quota on the list is at most the booked one.

### The search and the filter

- `SearchIsRight` (`ChoiceIsEfficient`): the invariant keeps what has been answered, and that the best so far meets the
  requirement and is beaten by no answer. A better one beats those it has not been compared with because the
  comparison is transitive, which needs that no table has a partition or a quota of 0.
- `SearchIsAllowed` (`ChoiceIsAllowed`) and `TablesNeverMeet` (`TablesGiveDefault`): no latency of the tables is below
  10 ms, and 35 RPS take about 1.4 ms at a batch of 4.
- `PredictorTypeCorrect`: `Spec => []TypeOK`, with the range of the covariance.
- `PredictionsBounded`: `Spec => []BoundedByPeak`. The gain is at least 0.166
  (`GainBounds`) and the offset at most 7.8 times the gain (`OffsetBound`), so an update
  takes at least as much of the excess above the peak away as it adds.
- `ExcessShrinks`: while no measured function exceeds a rate, an estimate within the margin of it stays there
  (`StaysBelow`), and one above comes at least a seventh closer with every measurement (`ShrinksTo`). That measurements go on is the
  fairness that `BurstsFade` needs besides.

### Assumptions, and what is only model-checked

Assumptions on constants: `NoGPUAssumption`, `ProfileAssumption` (throughputs are naturals),
`NoFuncAssumption`, `ConfigAssumption`, `PredsAssumption`, `TopologyAssumption`,
`BoundsAssumption`, `FuncPartsAssumption`, `NamesAssumption`, `RemoteLatencyAssumption`,
`RatesAssumption`, `RestartsAssumption`. TLC evaluates them in every run of the modules that declare them.

Every invariant and action property of a passing run is a theorem. Model-checked only are the liveness
properties `TickCompletes`, `ScaleToOne`, `BurstsFade` and `SettlesAlone`, which need fairness and are out of the
prover's reach, and the four documented claims, which TLC refutes.

## 6. Not modelled

- Creating and writing the usage file, and its errors: nothing reads it back.
- Annotations that cannot be parsed: the controller wrote them. Memory limits: no code reads
  them back. Readiness of Kubernetes pods: a check may find none ready at any time.
- What the embedded JSON profiles hold, which the process never reads; the network
  protocol of the RaPP service, of which only the answers matter.
- The manager's wiring (`cmd/main.go`), API types and generated code. Leader election is a flag
  that is false by default; `config/manager/manager.yaml:76` sets it, with one replica.
  One controller process at a time is assumed.
- Helpers without a caller: `getModelNames`, `containsString`, `parseFromKeyName`, `randomString`,
  `generatePodName`, the FaSTPod lister, `scaling.go` (empty).
- Evaluation scripts, load generators and deployment files.

Nine hazards in `PROJECT.json` have no property. Four are things the code does, so that a property forbidding them fails, and
section 3 describes them: the panic after a delete that failed (`NoRowPanic` fails with such deletes, and
`RowsAreThere` shows that nothing else leads there), the goroutine that a failed list ends, a pod that is measured
against row 0 because no row holds its name, and profiles that are never read for the spelling of a path. In two the repository does not say
what would be right: the row and partition booked for an adopted pod, and a first pod booked on the
empty GPU id after a failed topology scan. Two lie outside the values the model takes: function names that look like partitions or
quotas (`FuncPartsAssumption`), and quotas that are read back one smaller, which no legal quota is
(`RaisesNeverOverbook` is proved for these too, `BookIsInSync` is not). The lists of measured and predicted rates that are
never trimmed cost memory, which is not modelled.

## 7. Plan

1. *Done*: ledger, autoscaler, reconciler, throughput with its search, predictor, usage record,
   the refinement; theorems for every safety property the runs check.
2. What a failing call leaves behind: weaker invariants that hold whatever fails, such as how far the
   book and the cluster can drift apart with one failed update or delete. `NothingForgotten` is a first one, about `podsInfo`.
3. An abstract specification of the search (one choice from the allowed set) that `EfficientConfig` implements.
4. The cooldown with time instead of an expiry at any moment.
