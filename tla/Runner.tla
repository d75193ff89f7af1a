------------------------------- MODULE Runner -------------------------------
(***************************************************************************)
(* The worker runner (workers/runner.go) and the life of the workers it    *)
(* runs (workers/workers.go): starting them, ending when the last root     *)
(* worker has, being ended or canceled from outside, and the exit path     *)
(* that stops and waits for whoever is left.  A worker handles a cancel on *)
(* its system goroutine and an end on its data goroutine.                  *)
(***************************************************************************)
EXTENDS WorkerSet, Naturals, FiniteSets

CONSTANTS NoParent, Plans

VARIABLES
    plan,     \* the scenario
    session,  \* the goroutine of Run, and what the runner knows
    call,     \* the callers of End and of Cancel
    add,      \* worker -> how far AddWorkers has come with it
    ent,      \* worker -> its entry: the goroutine that runs it
    wk        \* worker -> its messages, and whether and how it has finished

runnerVars == <<plan, session, call, add, ent, wk>>

\* The workers on the runner before Run, the workers added while it runs, the
\* parent of each, those whose own work ends by itself, the calls made, and
\* whether the run ends with its last root.
Plan == [first : SUBSET Workers, late : SUBSET Workers,
             parent : [Workers -> Workers \cup {NoParent}], quits : SUBSET Workers,
             calls : SUBSET {"end", "cancel", "context"}, autoEnd : BOOLEAN]

Root(w) == plan.parent[w] = NoParent
Children(w) == {c \in Workers : plan.parent[c] = w /\ add[c] # "no"}
Entries == {w \in Workers : add[w] \in {"entered", "attached", "added"}}
Subscribed(w) == add[w] \in {"attached", "added"}
Finished(w) == ent[w] = "done"
Running(w) == ent[w] \in {"running", "returned", "ending"}

RunnerInit ==
    /\ plan \in Plans
    /\ session = [pc |-> "new", todo |-> {}, wait |-> {}, started |-> FALSE, ctx |-> FALSE,
              shuttingDown |-> "no", cancelReason |-> "none", reason |-> "none"]
    /\ call = [end |-> "no", todo |-> {}, cancel |-> "no"]
    /\ add = [w \in Workers |-> IF w \in plan.first THEN "added" ELSE "no"]
    /\ ent = [w \in Workers |-> "none"]
    /\ wk = [w \in Workers |-> [end |-> "no", cancel |-> "no", why |-> "none",
                                finished |-> FALSE, how |-> "none"]]

-----------------------------------------------------------------------------
(* Run.                                                                    *)

\* setupSession: the bus runs, and the workers added so far are to be started.
SetupSession ==
    /\ session.pc = "new"
    /\ session' = [session EXCEPT !.pc = "starting", !.started = TRUE, !.todo = Entries]
    /\ UNCHANGED <<plan, call, add, ent, wk>>

StartWorker(w) ==
    /\ session.pc = "starting" /\ w \in session.todo
    /\ session' = [session EXCEPT !.todo = @ \ {w}]
    /\ ent' = [ent EXCEPT ![w] = "running"]
    /\ UNCHANGED <<plan, call, add, wk>>

AllStarted ==
    /\ session.pc = "starting" /\ session.todo = {}
    /\ session' = [session EXCEPT !.pc = "waiting"]
    /\ UNCHANGED <<plan, call, add, ent, wk>>

\* stopRemainingWorkers reads the reason and looks through the entries ...
StopRemainingWorkers ==
    /\ session.pc = "waiting" /\ (session.shuttingDown # "no" \/ session.ctx)
    /\ session' = [session EXCEPT !.pc = "stopping", !.todo = Entries, !.reason =
                 IF session.cancelReason = "none" THEN "exiting" ELSE session.cancelReason]
    /\ UNCHANGED <<plan, call, add, ent, wk>>

Queue(ws, kind, why) ==
    [w \in Workers |->
        IF w \in ws /\ Subscribed(w)
        THEN IF kind = "end" THEN [wk[w] EXCEPT !.end = "queued"]
             ELSE [wk[w] EXCEPT !.cancel = "queued", !.why = why]
        ELSE wk[w]]

\* A bug: only the roots are waited for.
StopRoots(w) ==
    /\ session.pc = "stopping" /\ w \in session.todo
    /\ session' = [session EXCEPT !.todo = @ \ {w},
                          !.wait = IF Finished(w) \/ ~Root(w) THEN @ ELSE @ \cup {w}]
    /\ wk' = IF Root(w) /\ ~Finished(w) THEN Queue({w}, "cancel", session.reason) ELSE wk
    /\ UNCHANGED <<plan, call, add, ent>>

\* ... telling each root worker that has not finished to stop at once ...
StopEntry(w) ==
    /\ session.pc = "stopping" /\ w \in session.todo
    /\ session' = [session EXCEPT !.todo = @ \ {w}, !.wait = IF Finished(w) THEN @ ELSE @ \cup {w}]
    /\ wk' = IF Root(w) /\ ~Finished(w) THEN Queue({w}, "cancel", session.reason) ELSE wk
    /\ UNCHANGED <<plan, call, add, ent>>

\* ... and waits for all of them, the children included.
WaitEntry(w) ==
    /\ session.pc = "stopping" /\ session.todo = {} /\ w \in session.wait
    /\ ent[w] \in {"none", "done"}
    /\ session' = [session EXCEPT !.wait = @ \ {w}]
    /\ UNCHANGED <<plan, call, add, ent, wk>>

\* The bus is stopped, and Run returns.
RunReturns ==
    /\ session.pc = "stopping" /\ session.todo = {} /\ session.wait = {}
    /\ session' = [session EXCEPT !.pc = "returned", !.started = FALSE]
    /\ UNCHANGED <<plan, call, add, ent, wk>>

BusRuns == session.pc \notin {"new", "returned"}

-----------------------------------------------------------------------------
(* The goroutine of a worker: its Run, maybeAutoEnd, and then the closing of *)
(* done.                                                                   *)

WorkerReturns(w) ==
    /\ ent[w] = "running" /\ (wk[w].finished \/ session.ctx)
    /\ ent' = [ent EXCEPT ![w] = "returned"]
    /\ wk' = [wk EXCEPT ![w].finished = TRUE]
    /\ UNCHANGED <<plan, session, call, add>>

MaybeAutoEnd(w) ==
    /\ ent[w] = "returned"
    /\ ent' = [ent EXCEPT ![w] = "ending"]
    /\ session' = IF /\ plan.autoEnd /\ Root(w) /\ session.shuttingDown = "no"
                 /\ \A v \in Entries \ {w} : Root(v) => ~Running(v)
              THEN [session EXCEPT !.shuttingDown = "auto"] ELSE session
    /\ UNCHANGED <<plan, call, add, wk>>

CloseDone(w) ==
    /\ ent[w] = "ending"
    /\ ent' = [ent EXCEPT ![w] = "done"]
    /\ UNCHANGED <<plan, session, call, add, wk>>

-----------------------------------------------------------------------------
(* The callers.                                                            *)

\* End begins the shutdown, unless it has begun, and asks the roots to end.
End ==
    /\ "end" \in plan.calls /\ call.end = "no" /\ session.pc # "returned"
    /\ IF session.shuttingDown = "no"
       THEN /\ session' = [session EXCEPT !.shuttingDown = "end"]
            /\ call' = [call EXCEPT !.end = "sending", !.todo = Entries]
       ELSE /\ session' = session
            /\ call' = [call EXCEPT !.end = "over"]
    /\ UNCHANGED <<plan, add, ent, wk>>

FinishWorker(w) ==
    /\ call.end = "sending" /\ w \in call.todo
    /\ call' = [call EXCEPT !.todo = @ \ {w}]
    /\ wk' = IF Root(w) /\ ~Finished(w) THEN Queue({w}, "end", "none") ELSE wk
    /\ UNCHANGED <<plan, session, add, ent>>

\* Cancel begins the shutdown, and then records why.
Cancel ==
    /\ "cancel" \in plan.calls /\ call.cancel = "no" /\ session.pc # "returned"
    /\ IF session.shuttingDown = "no"
       THEN /\ session' = [session EXCEPT !.shuttingDown = "cancel"]
            /\ call' = [call EXCEPT !.cancel = "begun"]
       ELSE /\ session' = session
            /\ call' = [call EXCEPT !.cancel = "over"]
    /\ UNCHANGED <<plan, add, ent, wk>>

RecordReason ==
    /\ call.cancel = "begun"
    /\ session' = [session EXCEPT !.cancelReason = "caller"]
    /\ call' = [call EXCEPT !.cancel = "over"]
    /\ UNCHANGED <<plan, add, ent, wk>>

EndContext ==
    /\ "context" \in plan.calls /\ ~session.ctx
    /\ session' = [session EXCEPT !.ctx = TRUE]
    /\ UNCHANGED <<plan, call, add, ent, wk>>

\* AddWorkers while the runner runs: a child is listed by its parent first; the
\* entry is made, the worker subscribed, and then it is started.
ListChild(w) ==
    /\ w \in plan.late /\ add[w] = "no" /\ ~Root(w)
    /\ plan.parent[w] \in Entries /\ BusRuns
    /\ add' = [add EXCEPT ![w] = "listed"]
    /\ UNCHANGED <<plan, session, call, ent, wk>>

AddEntry(w) ==
    /\ w \in plan.late /\ session.started /\ \A v \in plan.late : add[v] \notin {"entered", "attached"}
    /\ IF Root(w) THEN add[w] = "no" ELSE add[w] = "listed" /\ BusRuns
    /\ add' = [add EXCEPT ![w] = "entered"]
    /\ UNCHANGED <<plan, session, call, ent, wk>>

Attach(w) ==
    /\ add[w] = "entered"
    /\ add' = [add EXCEPT ![w] = "attached"]
    /\ UNCHANGED <<plan, session, call, ent, wk>>

StartAdded(w) ==
    /\ add[w] = "attached"
    /\ add' = [add EXCEPT ![w] = "added"]
    /\ ent' = [ent EXCEPT ![w] = "running"]
    /\ UNCHANGED <<plan, session, call, wk>>

-----------------------------------------------------------------------------
(* A worker.                                                               *)

Finishing(s, how) == [s EXCEPT !.finished = TRUE, !.how = IF s.finished THEN @ ELSE how]

\* The work of the worker ends by itself, as a pipeline does at its EndFrame.
WorkerQuits(w) ==
    /\ w \in plan.quits /\ ent[w] = "running" /\ ~wk[w].finished
    /\ wk' = [wk EXCEPT ![w] = Finishing(@, "quit")]
    /\ UNCHANGED <<plan, session, call, add, ent>>

\* A bug: the cancel is kept from the children.
CancelAlone(w) ==
    /\ BusRuns /\ wk[w].cancel = "queued"
    /\ wk' = [wk EXCEPT ![w] = Finishing([@ EXCEPT !.cancel = "done"], "canceled")]
    /\ UNCHANGED <<plan, session, call, add, ent>>

\* HandleWorkerCancel: the children are told, and the worker stops.
HandleWorkerCancel(w) ==
    /\ BusRuns /\ wk[w].cancel = "queued"
    /\ wk' = [Queue(Children(w), "cancel", wk[w].why) EXCEPT
                ![w] = Finishing([@ EXCEPT !.cancel = "done"], "canceled")]
    /\ UNCHANGED <<plan, session, call, add, ent>>

\* HandleWorkerEnd: the children are told, waited for, and then it stops.
HandleWorkerEnd(w) ==
    /\ BusRuns /\ wk[w].end = "queued"
    /\ wk' = [Queue(Children(w), "end", "none") EXCEPT ![w].end = "waiting"]
    /\ UNCHANGED <<plan, session, call, add, ent>>

ChildrenEnded(w) ==
    /\ wk[w].end = "waiting"
    /\ (\A c \in Children(w) : wk[c].finished) \/ session.ctx \/ ~BusRuns
    /\ wk' = [wk EXCEPT ![w] = Finishing([@ EXCEPT !.end = "done"], "ended")]
    /\ UNCHANGED <<plan, session, call, add, ent>>

-----------------------------------------------------------------------------
RunStep ==
    \/ SetupSession \/ AllStarted \/ StopRemainingWorkers \/ RunReturns
    \/ \E w \in Workers : StartWorker(w) \/ StopEntry(w) \/ WaitEntry(w)

WorkerStep(w) == WorkerReturns(w) \/ MaybeAutoEnd(w) \/ CloseDone(w)
SystemStep(w) == HandleWorkerCancel(w)
DataStep(w) == HandleWorkerEnd(w) \/ ChildrenEnded(w)
AddStep(w) == AddEntry(w) \/ Attach(w) \/ StartAdded(w)

RunnerNext ==
    \/ RunStep \/ End \/ Cancel \/ RecordReason \/ EndContext
    \/ \E w \in Workers : \/ WorkerStep(w) \/ SystemStep(w) \/ DataStep(w)
                          \/ AddStep(w) \/ ListChild(w) \/ WorkerQuits(w)
                          \/ FinishWorker(w)

\* Goroutines run, except that the bus stops delivering when the context ends,
\* after what is queued or before.  No behaviour goes on for ever, so it is enough
\* that it does not stop while one of them can take a step.
RunnerProgress ==
    \/ RunStep \/ RecordReason
    \/ \E w \in Workers : \/ WorkerStep(w) \/ FinishWorker(w) \/ AddStep(w)
                          \/ ~session.ctx /\ (SystemStep(w) \/ DataStep(w))

RunnerSpec == RunnerInit /\ [][RunnerNext]_runnerVars
RunnerFairSpec == RunnerSpec /\ WF_runnerVars(RunnerProgress)

-----------------------------------------------------------------------------
RunnerType ==
    /\ plan \in Plans
    /\ session \in [pc : {"new", "starting", "waiting", "stopping", "returned"},
                todo : SUBSET Workers, wait : SUBSET Workers, started : BOOLEAN,
                ctx : BOOLEAN, shuttingDown : {"no", "auto", "end", "cancel"},
                cancelReason : {"none", "caller"}, reason : {"none", "exiting", "caller"}]
    /\ call \in [end : {"no", "sending", "over"}, todo : SUBSET Workers,
                 cancel : {"no", "begun", "over"}]
    /\ add \in [Workers -> {"no", "listed", "entered", "attached", "added"}]
    /\ ent \in [Workers -> {"none", "running", "returned", "ending", "done"}]
    /\ wk \in [Workers -> [end : {"no", "queued", "waiting", "done"},
                           cancel : {"no", "queued", "done"},
                           why : {"none", "exiting", "caller"}, finished : BOOLEAN,
                           how : {"none", "quit", "canceled", "ended"}]]

\* A shutdown that has begun ends: whoever ended, canceled or interrupted the run,
\* at whatever point of its start, every worker is told and Run returns.  Workers
\* added meanwhile may be missed, and so may children of a root that ended first.
Settled ==
    plan.late = {} /\ \A w \in Workers : plan.parent[w] # NoParent => plan.parent[w] \notin plan.quits
ShuttingDown == session.shuttingDown # "no" /\ Settled
Returned == session.pc = "returned"

\* runner.go: "Run ends once every root worker has finished, so a bot with one
\* pipeline ends when that pipeline does", where the pipeline is the only worker.
Lone == \E w \in Workers : plan.first = {w} /\ plan.late = {}
LoneFinished == Lone /\ \A w \in plan.first : wk[w].finished
RunCompletes == (ShuttingDown \/ LoneFinished) ~> Returned

\* stopRemainingWorkers "waits for them all": no worker runs once Run has
\* returned, whichever of the callers, the context and the workers was first.
NoneLeft == session.pc = "returned" /\ plan.late = {} => \A w \in Workers : ~Running(w)

\* runner.go: "End asks every worker that has not finished to stop gracefully":
\* where nobody else stops the run, no worker is canceled.
EndIsGraceful == plan.calls = {"end"} => \A w \in Workers : wk[w].how # "canceled"
=============================================================================
