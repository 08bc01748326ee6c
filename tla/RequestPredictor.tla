--------------------------- MODULE RequestPredictor ---------------------------
(***************************************************************************)
(* The request predictor of request_predictor_kalman.go, as the goroutine  *)
(* persistentReconcile uses it: one filter is made when the goroutine      *)
(* starts, and the measured rate of every function in turn updates it.     *)
(*                                                                         *)
(* Rates are in tenths of a request per second, the covariance P and the   *)
(* gain K in thousandths, rounded down where the code rounds a float.      *)
(***************************************************************************)
EXTENDS Integers

CONSTANTS
    Function,       \* the functions that exist at first, RaPP's own excepted
    Rates,          \* the rates Prometheus can report
    MaxRestarts     \* how often the process is started again

ASSUME RatesAssumption == Rates \subseteq Nat
ASSUME RestartsAssumption == MaxRestarts \in Nat

VARIABLES
    funcs,      \* the functions that exist
    load,       \* function -> the rate at which it is invoked
    todo,       \* the functions of this tick that are not measured yet
    x,          \* the estimate of the filter, which is its last prediction
    P,          \* its covariance
    peak,       \* the highest rate the filter has been given
    restarts

vars == <<funcs, load, todo, x, P, peak, restarts>>

Unit == 1000
InitialP == Unit
MinBuffer == 50

-----------------------------------------------------------------------------
(* One update: A = H = Q = Alpha = 1 and R = 10.                           *)

(* Faulty variant of Predicted: the process noise Q is left out.           *)
PredictedNoiseless(p) == p

Predicted(p) == p + Unit

Gain(p) == (Unit * Predicted(p)) \div (Predicted(p) + 10 * Unit)

(* (1 - K) PPred is 10 K, by the definition of K.                          *)
Updated(p) == 10 * Gain(p)

(* Alpha * sqrt(P), the positive offset, as the set of that one value; P   *)
(* is at most 10.                                                          *)
Offset(p) == {s \in 0 .. 32 : 10 * s * s <= p /\ p < 10 * (s + 1) * (s + 1)}

(* Faulty variant of Corrected: adds the measurement, not the innovation.  *)
CorrectedByMeasurement(e, k, m) == e + (k * m) \div Unit

Corrected(e, k, m) == e + (k * (m - e)) \div Unit

Buffered(e, m) == IF e < m + MinBuffer THEN m + MinBuffer ELSE e

(* Faulty variant of Estimate: the positive offset is left out.            *)
EstimateWithoutOffset(e, p, m) == {Buffered(Corrected(e, Gain(p), m), m)}

Estimate(e, p, m) == {Buffered(Corrected(e, Gain(p), m) + s, m) : s \in Offset(Updated(p))}

-----------------------------------------------------------------------------
Init ==
    /\ funcs = Function
    /\ load \in [Function -> Rates]
    /\ todo = {}
    /\ x = 0
    /\ P = InitialP
    /\ peak = 0
    /\ restarts = 0

Tick ==
    /\ todo = {}
    /\ funcs # {}
    /\ todo' = funcs
    /\ UNCHANGED <<funcs, load, x, P, peak, restarts>>

(* Faulty variant of Measure: a rate of 0 is taken for no rate.            *)
MeasureUnlessIdle(f) ==
    /\ f \in todo
    /\ todo' = todo \ {f}
    /\ IF load[f] = 0 THEN UNCHANGED <<x, P, peak>>
       ELSE /\ x' \in Estimate(x, P, load[f])
            /\ P' = Updated(P)
            /\ peak' = IF load[f] > peak THEN load[f] ELSE peak
    /\ UNCHANGED <<funcs, load, restarts>>

(* The rate of f is queried, and updates the filter of all.                *)
Measure(f) ==
    /\ f \in todo
    /\ todo' = todo \ {f}
    /\ x' \in Estimate(x, P, load[f])
    /\ P' = Updated(P)
    /\ peak' = IF load[f] > peak THEN load[f] ELSE peak
    /\ UNCHANGED <<funcs, load, restarts>>

(* The query fails, or a step before it does.                              *)
Pass(f) ==
    /\ f \in todo
    /\ todo' = todo \ {f}
    /\ UNCHANGED <<funcs, load, x, P, peak, restarts>>

LoadChanges(f) ==
    /\ \E m \in Rates \ {load[f]} : load' = [load EXCEPT ![f] = m]
    /\ UNCHANGED <<funcs, todo, x, P, peak, restarts>>

Withdraw(f) ==
    /\ f \in funcs
    /\ funcs' = funcs \ {f}
    /\ UNCHANGED <<load, todo, x, P, peak, restarts>>

(* The filter lives in the goroutine, and is made anew with it.            *)
Restart ==
    /\ restarts < MaxRestarts
    /\ restarts' = restarts + 1
    /\ todo' = {}
    /\ x' = 0
    /\ P' = InitialP
    /\ peak' = 0
    /\ UNCHANGED <<funcs, load>>

Next ==
    \/ Tick \/ Restart
    \/ \E f \in Function : Measure(f) \/ Pass(f) \/ LoadChanges(f) \/ Withdraw(f)

Spec == Init /\ [][Next]_vars

(* Ticks go on, and Prometheus answers for every function again and again. *)
Fairness == WF_vars(Tick) /\ \A f \in Function : WF_vars(Measure(f) \/ Pass(f)) /\ SF_vars(Measure(f))
FairSpec == Spec /\ Fairness

-----------------------------------------------------------------------------
(* Properties.                                                             *)

(* How far above everything it was given the filter can get: 1.64 to 1.29  *)
(* is added at every update, and a gain of 0.27 to 0.17 takes that share   *)
(* of the excess away again.                                               *)
Margin == 78

(* The type invariant.  The covariance stays between 1 and 10.             *)
TypeOK ==
    /\ funcs \subseteq Function
    /\ load \in [Function -> Rates]
    /\ todo \subseteq Function
    /\ x \in Nat
    /\ P \in Unit .. 10 * Unit
    /\ peak \in Nat
    /\ restarts \in 0 .. MaxRestarts

(* The filter that all functions share adds up neither their rates nor its *)
(* offsets: however ticks, failed queries and changing loads follow each   *)
(* other, no function is predicted more than the busiest had, and 7.8.     *)
BoundedByPeak == x <= peak + Margin

(* A burst of one function raises the predictions of the others as well,   *)
(* but not for good: once no function that is left exceeds a rate, though  *)
(* they may go on changing below it, the estimate comes down to that rate  *)
(* and 7.8, and stays there, whatever queries fail meanwhile.              *)
BurstsFade ==
    \A m \in Rates :
        <>[](funcs # {} /\ \A f \in funcs : load[f] <= m) => <>[](x <= m + Margin)

(* A function that stays alone, at one rate, is in the end predicted that  *)
(* rate and about 6, whatever other functions have left in the filter.     *)
SettlesAlone ==
    \A f \in Function : \A m \in Rates :
        <>[](funcs = {f} /\ load[f] = m) => <>[](x - m \in 55 .. 60)

=============================================================================
