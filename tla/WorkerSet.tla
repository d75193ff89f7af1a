------------------------------ MODULE WorkerSet -----------------------------
(***************************************************************************)
(* The workers of a session (workers/workers.go), which ask one another    *)
(* for jobs (Jobs), hand the conversation to one another (Handoff) and are *)
(* started and stopped by a runner (Runner).                               *)
(***************************************************************************)
CONSTANT Workers
=============================================================================
