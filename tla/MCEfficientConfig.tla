-------------------------- MODULE MCEfficientConfig --------------------------
(***************************************************************************)
(* Values for the constants of EfficientConfig: a name for each way the    *)
(* search can take (a table the service may contradict, tables alone, a    *)
(* mapped model without table, "rapp"), and a service that reports 1 ms,   *)
(* 1.4 ms or nothing: the longest latency that still meets 35 RPS, and a   *)
(* shorter one.                                                            *)
(***************************************************************************)
EXTENDS EfficientConfig

ManyNames == {{"resnet", "rapp"}, {"shufflenet", "shufflenet-v2-0.5"}, {"bert"}, {"mobilenet"}}

Latencies == {10000, 14000}

=============================================================================
