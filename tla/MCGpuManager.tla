---------------------------- MODULE MCGpuManager ----------------------------
(***************************************************************************)
(* Instances of GpuManager for TLC.  Batches and workers are numbers,      *)
(* since the manager sorts worker queues by batch id and worker index.     *)
(***************************************************************************)
EXTENDS GpuManager

OneWorker == {0}
TwoWorkers == {0, 1}
OneBatch == {1}
TwoBatches == {1, 2}

\* Every caller sends its requests, closes its batch, and waits.
CallersFinish == \A b \in Batches : WF_vars(SendRequest(b) \/ CloseRequests(b))

DiligentSpec == FairSpec /\ CallersFinish
=============================================================================
