-------------------------- MODULE InstanceLifecycle --------------------------
(***************************************************************************)
(* What the controller promises about instances, whatever happens to its   *)
(* memory, its calls and its process: a function gets a first instance     *)
(* only if it has none, a further one only on a grant that it was given    *)
(* while it was wanted, and loses its last one only when it is no longer   *)
(* wanted.  A grant is for one instance; instances come and go one at a    *)
(* time.                                                                   *)
(***************************************************************************)
EXTENDS Integers

CONSTANT Function

VARIABLES
    wanted,     \* the functions users want to run
    instances,  \* function -> how many instances it has
    granted     \* the functions that may get one more

vars == <<wanted, instances, granted>>

Init ==
    /\ wanted = Function
    /\ instances = [f \in Function |-> 0]
    /\ granted = {}

Grant(f) ==
    /\ f \in wanted \ granted
    /\ granted' = granted \cup {f}
    /\ UNCHANGED <<wanted, instances>>

(* The call that had the grant fails.                                      *)
Waste(f) ==
    /\ f \in granted
    /\ granted' = granted \ {f}
    /\ UNCHANGED <<wanted, instances>>

FirstInstance(f) ==
    /\ instances[f] = 0
    /\ instances' = [instances EXCEPT ![f] = 1]
    /\ granted' = granted \ {f}
    /\ UNCHANGED wanted

ScaleOut(f) ==
    /\ f \in granted
    /\ instances[f] > 0
    /\ instances' = [instances EXCEPT ![f] = @ + 1]
    /\ granted' = granted \ {f}
    /\ UNCHANGED wanted

ScaleIn(f) ==
    /\ instances[f] > 1
    /\ instances' = [instances EXCEPT ![f] = @ - 1]
    /\ UNCHANGED <<wanted, granted>>

Withdraw(f) ==
    /\ f \in wanted
    /\ wanted' = wanted \ {f}
    /\ UNCHANGED <<instances, granted>>

(* The instances of a function nobody wants any more go away.              *)
Collect(f) ==
    /\ f \notin wanted
    /\ instances[f] > 0
    /\ instances' = [instances EXCEPT ![f] = @ - 1]
    /\ UNCHANGED <<wanted, granted>>

Request(f) ==
    /\ f \notin wanted
    /\ instances[f] = 0
    /\ wanted' = wanted \cup {f}
    /\ UNCHANGED <<instances, granted>>

Next ==
    \E f \in Function :
        \/ Grant(f) \/ Waste(f) \/ FirstInstance(f) \/ ScaleOut(f) \/ ScaleIn(f)
        \/ Withdraw(f) \/ Collect(f) \/ Request(f)

Spec == Init /\ [][Next]_vars

=============================================================================
