----------------------------- MODULE JobGroups ------------------------------
(***************************************************************************)
(* What a worker that asks others for jobs is promised about each group of *)
(* answers (jobcontext.Group): it is opened once, answers are recorded in  *)
(* it, and it ends once, completed when every worker asked has answered or *)
(* failed before.                                                          *)
(***************************************************************************)
CONSTANTS Jobs, Workers

VARIABLES
    asked,     \* job -> the workers its group is of
    state,     \* job -> how its group stands
    responses  \* job -> the workers whose answer has been recorded

vars == <<asked, state, responses>>

Init ==
    /\ asked \in [Jobs -> SUBSET Workers]
    /\ state = [j \in Jobs |-> "none"]
    /\ responses = [j \in Jobs |-> {}]

Open(j) ==
    /\ state[j] = "none"
    /\ state' = [state EXCEPT ![j] = "running"]
    /\ UNCHANGED <<asked, responses>>

\* An answer may be recorded late, when the group has ended without it.
Respond(j, w) ==
    /\ state[j] # "none"
    /\ responses' = [responses EXCEPT ![j] = @ \cup {w}]
    /\ UNCHANGED <<asked, state>>

Complete(j) ==
    /\ state[j] = "running" /\ asked[j] \subseteq responses[j]
    /\ state' = [state EXCEPT ![j] = "completed"]
    /\ UNCHANGED <<asked, responses>>

Fail(j) ==
    /\ state[j] = "running"
    /\ state' = [state EXCEPT ![j] = "failed"]
    /\ UNCHANGED <<asked, responses>>

Next == \E j \in Jobs :
    Open(j) \/ Complete(j) \/ Fail(j) \/ \E w \in Workers : Respond(j, w)

Spec == Init /\ [][Next]_vars
=============================================================================
