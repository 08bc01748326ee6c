----------------------------- MODULE HASDocumented -----------------------------
(***************************************************************************)
(* What comments of the repository say of HASReconciler and UsageRecord,   *)
(* and the code does not do.                                               *)
(***************************************************************************)
EXTENDS UsageRecord

(* GetMostEfficientConfig: "If no parameters are provided, it uses default *)
(* values (resnet50 with 50 RPS)".  It does not answer at all.             *)
DefaultConfigWorks == pc # "panicConfig"

(* recordGPUUsageData "records current GPU usage information": a FaSTPod   *)
(* that has a line is there.  The quota loop makes a second entry for a    *)
(* pod whose row holds the provisional name, and eviction leaves it.       *)
RecordedPodsRun ==
    pc = "idle" => \A x \in RecordedPods : IsReal(x[2]) => x[2] \in DOMAIN fastPod

(* HASGPUInfo.HGO: "HAS GPU Occupancy, sum(s_i * q_i)", both in hundredths *)
(* of a GPU.  A partition below 100 is divided to 0 first, so that no GPU  *)
(* is ever more occupied than another.                                     *)
HGOIsOccupancy ==
    pc = "idle" =>
        \A g \in DOMAIN hasGPUs :
            LET info   == hasGPUs[g]
                shares == [n \in DOMAIN info.conf |-> info.conf[n].sm * info.conf[n].quota]
            IN  10000 * info.hgo = SumFunction(shares)

=============================================================================
