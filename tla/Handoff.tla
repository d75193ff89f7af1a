------------------------------ MODULE Handoff -------------------------------
(***************************************************************************)
(* Workers that hand the conversation to one another (workers/workers.go): *)
(* ActivateWorker with DeactivateSelf, the activation and deactivation     *)
(* messages, which travel in one order through a worker's queues on the    *)
(* bus, and an activation that waits for its worker to start.              *)
(*                                                                         *)
(* Any worker may hand over at any time: also one that is not active, or   *)
(* one that was built active and has not started.                          *)
(***************************************************************************)
EXTENDS WorkerSet, Naturals, Sequences

CONSTANTS NoWorker, MaxHandoffs

VARIABLES
    active,   \* worker -> active
    pending,  \* worker -> pendingActivation
    start,    \* worker -> how far Start has come: "no", "started", "over"
    target,   \* worker -> the worker it is handing to, with the step it is at
    inbox,    \* worker -> the messages queued for it
    arrived,  \* worker -> it has filed an activation and is to look at it
    calls,    \* how often OnActivated has been called
    handoffs, \* how many hand-overs have begun
    orderly   \* history: each was begun by a worker that was active, and whose
              \* own activation was not still waiting for it to start

handoffVars == <<active, pending, start, target, inbox, arrived, calls, handoffs, orderly>>

NoHandoff == <<"none", NoWorker>>

\* New: one worker is made active, and the others inactive.
HandoffInit ==
    /\ \E first \in Workers : active = [w \in Workers |-> w = first]
    /\ pending = active
    /\ start = [w \in Workers |-> "no"]
    /\ target = [w \in Workers |-> NoHandoff]
    /\ inbox = [w \in Workers |-> <<>>]
    /\ arrived = [w \in Workers |-> FALSE]
    /\ calls = 0 /\ handoffs = 0 /\ orderly = TRUE

Start(w) ==
    /\ start[w] = "no"
    /\ start' = [start EXCEPT ![w] = "started"]
    /\ UNCHANGED <<active, pending, target, inbox, arrived, calls, handoffs, orderly>>

Activate(w) ==
    IF start[w] # "no" /\ pending[w]
    THEN /\ active' = [active EXCEPT ![w] = TRUE]
         /\ pending' = [pending EXCEPT ![w] = FALSE]
         /\ calls' = calls + 1
    ELSE UNCHANGED <<active, pending, calls>>

\* maybeActivate at the end of Start ...
StartActivates(w) ==
    /\ start[w] = "started"
    /\ Activate(w)
    /\ start' = [start EXCEPT ![w] = "over"]
    /\ UNCHANGED <<target, inbox, arrived, handoffs, orderly>>

\* ... and behind an activation that has been filed.
MaybeActivate(w) ==
    /\ arrived[w]
    /\ Activate(w)
    /\ arrived' = [arrived EXCEPT ![w] = FALSE]
    /\ UNCHANGED <<start, target, inbox, handoffs, orderly>>

\* Begins a hand-over.  A worker makes one at a time: a second that overlaps with it
\* finds the worker inactive, as one that comes later does.
HandsOver(w, v) ==
    /\ target[w] = NoHandoff /\ handoffs < MaxHandoffs
    /\ target' = [target EXCEPT ![w] = <<IF active[w] THEN "deactivate" ELSE "activate", v>>]
    /\ handoffs' = handoffs + 1
    /\ orderly' = (orderly /\ active[w] /\ ~pending[w])
    /\ UNCHANGED <<pending, start, inbox, arrived, calls>>

\* A bug: the worker waits for its own message to be deactivated.
DeactivateLater(w, v) == HandsOver(w, v) /\ UNCHANGED active

\* ActivateWorker with DeactivateSelf: a worker that was active is inactive at once ...
DeactivateSelf(w, v) ==
    /\ HandsOver(w, v)
    /\ active' = [active EXCEPT ![w] = FALSE]

\* ... tells itself, for its OnDeactivated ...
DeactivateWorker(w) ==
    /\ target[w][1] = "deactivate"
    /\ inbox' = [inbox EXCEPT ![w] = Append(@, "deactivate")]
    /\ target' = [target EXCEPT ![w] = <<"activate", @[2]>>]
    /\ UNCHANGED <<active, pending, start, arrived, calls, handoffs, orderly>>

\* ... and then, active before or not, tells the other worker.
ActivateWorker(w) ==
    /\ target[w][1] = "activate"
    /\ inbox' = [inbox EXCEPT ![target[w][2]] = Append(@, "activate")]
    /\ target' = [target EXCEPT ![w] = NoHandoff]
    /\ UNCHANGED <<active, pending, start, arrived, calls, handoffs, orderly>>

Delivers(w, kind) == ~arrived[w] /\ inbox[w] # <<>> /\ Head(inbox[w]) = kind

HandleWorkerActivate(w) ==
    /\ Delivers(w, "activate")
    /\ inbox' = [inbox EXCEPT ![w] = Tail(@)]
    /\ pending' = [pending EXCEPT ![w] = TRUE]
    /\ arrived' = [arrived EXCEPT ![w] = TRUE]
    /\ UNCHANGED <<active, start, target, calls, handoffs, orderly>>

HandleWorkerDeactivate(w) ==
    /\ Delivers(w, "deactivate")
    /\ inbox' = [inbox EXCEPT ![w] = Tail(@)]
    /\ active' = [active EXCEPT ![w] = FALSE]
    /\ UNCHANGED <<pending, start, target, arrived, calls, handoffs, orderly>>

HandoffNext ==
    \E w \in Workers :
       \/ Start(w) \/ StartActivates(w) \/ MaybeActivate(w)
       \/ \E v \in Workers \ {w} : DeactivateSelf(w, v)
       \/ DeactivateWorker(w) \/ ActivateWorker(w)
       \/ HandleWorkerActivate(w) \/ HandleWorkerDeactivate(w)

HandoffSpec == HandoffInit /\ [][HandoffNext]_handoffVars

-----------------------------------------------------------------------------
HandoffType ==
    /\ active \in [Workers -> BOOLEAN] /\ pending \in [Workers -> BOOLEAN]
    /\ start \in [Workers -> {"no", "started", "over"}]
    /\ target \in [Workers -> {NoHandoff} \cup ({"deactivate", "activate"} \X Workers)]
    /\ inbox \in [Workers -> Seq({"activate", "deactivate"})]
    /\ arrived \in [Workers -> BOOLEAN]
    /\ calls \in Nat /\ handoffs \in Nat /\ orderly \in BOOLEAN

\* workers.go: "this worker and the target are never both active at once".  Of
\* workers that hand over only what they hold, at most one takes work at a time.
OneHolds == \A w, v \in Workers : active[w] /\ active[v] => w = v

\* Every worker has started, and no message is on its way.
AtRest ==
    \A w \in Workers : /\ start[w] = "over" /\ inbox[w] = <<>>
                       /\ ~arrived[w] /\ target[w] = NoHandoff

\* Nobody drops the conversation, whoever hands it over and when: once all is
\* delivered, one worker is active.
SomeoneHolds == AtRest => \E w \in Workers : active[w]

\* OnActivated is called once for every hand-over, and once for the first worker.
AllTold == AtRest => calls = handoffs + 1

\* However hand-overs, starts and deliveries interleave, workers.go loses the
\* conversation to nobody (SomeoneHolds).  As long as it is handed over by the worker
\* that has it, it keeps it with one worker (OneHolds) and tells each one (AllTold).
\* Neither is promised once a worker has handed over what it does not hold, or ahead
\* of its own start: the pending activation then stays, and makes it active again.
HandedOver == SomeoneHolds /\ (orderly => OneHolds /\ AllTold)
=============================================================================
