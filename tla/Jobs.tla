-------------------------------- MODULE Jobs --------------------------------
(***************************************************************************)
(* Jobs between workers: one worker asks others for jobs and waits for the *)
(* group of answers (workers/jobs.go, pipeline/jobcontext), over the bus   *)
(* that serves a worker's system messages on one goroutine and its data    *)
(* messages on another (bus/bus.go, bus/queue.go).                         *)
(***************************************************************************)
EXTENDS WorkerSet, Naturals, Sequences

CONSTANTS
    Jobs,      \* job identifiers, one group each
    Req,       \* the worker that asks for them
    NoJob,
    Scenarios  \* what is asked for: a subset of Scenario

VARIABLES
    sc,    \* the scenario
    bus,   \* node -> the two bands of its queue, and its routed data messages
    base,  \* worker -> activeJobs, jobHandlers, the last sequential turn, and
           \* how it has been told to stop and whether it has finished
    run,   \* <<worker, job>> -> the goroutine of runJobHandler
    thr,   \* thread -> what it is doing, and to which jobs
    grp    \* job -> the requester's group

vars == <<sc, bus, base, run, thr, grp>>

\* The workers each job goes to, the jobs with a timeout, the jobs whose first
\* error calls the rest off, whether the handler was declared sequential, the
\* messages that stop a worker, the jobs the caller may call off, the answers a
\* handler gives, and whether it may return without one.
Scenario == [asked : [Jobs -> SUBSET Workers], timed : SUBSET Jobs,
             strict : SUBSET Jobs, sequential : BOOLEAN,
             stops : SUBSET (Workers \X {"endWorker", "cancelWorker"}),
             calledOff : SUBSET Jobs, silent : BOOLEAN,
             answers : SUBSET ({"answer", "urgent"} \X {"ok", "error"})]

ASSUME ScenariosAssumption == Scenarios \subseteq Scenario
ASSUME NamesAssumption == Req \notin Workers /\ NoJob \notin Jobs

Nodes == Workers \cup {Req}

\* The two delivery goroutines of every node, the one that runs a worker, the
\* caller that calls groups off, and the timeout of each group.
Delivery == Nodes \X {"system", "data"}
Timeout(j) == <<j, "timeout">>
Caller == <<Req, "caller">>
Threads == Delivery \cup (Workers \X {"run"}) \cup {Caller}
           \cup {Timeout(j) : j \in Jobs}

\* The threads of the requester, and those of a worker.
Asking == {<<Req, "system">>, <<Req, "data">>, Caller} \cup {Timeout(j) : j \in Jobs}
Serving == Workers \X {"system", "data", "run"}

\* A thread: where it is, the jobs it has to see to, and the one or the answer
\* it is seeing to.
Idle == [pc |-> "idle", todo |-> {}, arg |-> NoJob]

System == {"cancel", "urgent", "cancelWorker"}
Answers == [kind : {"answer", "urgent"}, job : Jobs, from : Workers,
            status : {"ok", "error", "canceled"}]
Messages == Answers \cup [kind : {"request", "cancel"}, job : Jobs]
                    \cup [kind : {"endWorker", "cancelWorker"}]

Init ==
    /\ sc \in Scenarios
    /\ bus = [n \in Nodes |-> [system |-> <<>>, data |-> <<>>, routed |-> <<>>]]
    /\ base = [w \in Workers |-> [active |-> {}, handlers |-> {}, turn |-> NoJob,
                                 told |-> {}, finished |-> FALSE]]
    /\ run = [p \in Workers \X Jobs |->
                [pc |-> "none", wait |-> NoJob, off |-> FALSE, says |-> NoJob]]
    /\ thr = [t \in Threads |-> Idle]
    /\ grp = [j \in Jobs |-> [state |-> "none", unsent |-> {}, responses |-> {},
                              completed |-> FALSE, errored |-> FALSE]]

-----------------------------------------------------------------------------
(* The bus.                                                                *)

\* Send on a local bus: the message joins its band of the target's queue.
Put(b, n, m) ==
    IF m.kind \in System
    THEN [b EXCEPT ![n].system = Append(@, m)]
    ELSE [b EXCEPT ![n].data = Append(@, m)]

\* The router hands a data message on, when no system message is waiting.
Route(n) ==
    /\ thr[<<n, "system">>].pc = "idle"
    /\ bus[n].system = <<>> /\ bus[n].data # <<>>
    /\ bus' = [bus EXCEPT ![n].data = Tail(@),
                          ![n].routed = Append(@, Head(bus[n].data))]
    /\ UNCHANGED <<sc, base, run, thr, grp>>

\* A delivery goroutine that is free takes the next message of its own queue.
Waiting(n, band) == IF band = "system" THEN bus[n].system ELSE bus[n].routed
Message(n, band) == Head(Waiting(n, band))
Takes(n, band, kinds) ==
    /\ thr[<<n, band>>].pc = "idle" /\ Waiting(n, band) # <<>>
    /\ Message(n, band).kind \in kinds
Taken(n, band) ==
    IF band = "system" THEN [bus EXCEPT ![n].system = Tail(@)]
                       ELSE [bus EXCEPT ![n].routed = Tail(@)]

\* What a thread does next: the work on `todo', or nothing once it is empty.
Does(t, pc, todo) ==
    thr' = [thr EXCEPT ![t] = IF todo = {} THEN Idle
                              ELSE [pc |-> pc, todo |-> todo, arg |-> NoJob]]

-----------------------------------------------------------------------------
(* The requester.                                                          *)

\* Mutant of CreateGroup: the timeout is never started.
CreateUntimed(j) ==
    /\ grp[j].state = "none" /\ sc.asked[j] # {}
    /\ grp' = [grp EXCEPT ![j].state = "running", ![j].unsent = sc.asked[j]]
    /\ UNCHANGED <<sc, bus, base, run, thr>>

\* createGroup: the group is running, with its timeout when it has one.
CreateGroup(j) ==
    /\ grp[j].state = "none" /\ sc.asked[j] # {}
    /\ grp' = [grp EXCEPT ![j].state = "running", ![j].unsent = sc.asked[j]]
    /\ IF j \in sc.timed THEN Does(Timeout(j), "armed", {j}) ELSE thr' = thr
    /\ UNCHANGED <<sc, bus, base, run>>

\* CreateGroupAndRequestJob sends the request to one worker after another.
RequestJob(j, w) ==
    /\ w \in grp[j].unsent
    /\ grp' = [grp EXCEPT ![j].unsent = @ \ {w}]
    /\ bus' = Put(bus, w, [kind |-> "request", job |-> j])
    /\ UNCHANGED <<sc, base, run, thr>>

TimeoutFires(j) ==
    /\ thr[Timeout(j)].pc = "armed"
    /\ Does(Timeout(j), "cancel", {j})
    /\ UNCHANGED <<sc, bus, base, run, grp>>

\* The block around a group fails, or the caller no longer wants the job.
CallerCancels(j) ==
    /\ j \in sc.calledOff /\ thr[Caller].pc = "idle" /\ grp[j].state = "running"
    /\ Does(Caller, "cancel", {j})
    /\ UNCHANGED <<sc, bus, base, run, grp>>

\* CancelGroup takes the group under the lock; whoever comes second finds none.
CancelGroup(t, j) ==
    /\ thr[t].pc = "cancel" /\ j \in thr[t].todo
    /\ IF grp[j].state = "running"
       THEN /\ grp' = [grp EXCEPT ![j].state = "taken"]
            /\ Does(t, "callOff", {j})
       ELSE /\ grp' = grp
            /\ Does(t, "cancel", thr[t].todo \ {j})
    /\ UNCHANGED <<sc, bus, base, run>>

\* A finished group calls its timeout off, unless that is what finished it.
CancelTimeout(j, rest) ==
    IF rest[Timeout(j)].pc = "armed"
    THEN [rest EXCEPT ![Timeout(j)] = Idle]
    ELSE rest

\* The rest of CancelGroup: every worker of the group is told, and it fails.
CallOff(t, j) ==
    /\ thr[t].pc = "callOff" /\ j \in thr[t].todo
    /\ bus' = [n \in Nodes |->
                 IF n \in sc.asked[j]
                 THEN Put(bus, n, [kind |-> "cancel", job |-> j])[n]
                 ELSE bus[n]]
    /\ grp' = [grp EXCEPT ![j].state = "failed"]
    /\ thr' = CancelTimeout(j, [thr EXCEPT ![t] = Idle])
    /\ UNCHANGED <<sc, base, run>>

\* handleJobResponse looks the group up: an error calls a strict group off,
\* anything else may complete the group ...
HandleJobResponse(band) ==
    LET m == Message(Req, band)
        j == m.job
        fails == m.status = "error" /\ j \in sc.strict
    IN
    /\ Takes(Req, band, {"answer", "urgent"})
    /\ bus' = Taken(Req, band)
    /\ thr' = [thr EXCEPT ![<<Req, band>>] =
                 IF grp[j].state = "running"
                 THEN [pc |-> IF fails THEN "error" ELSE "record",
                       todo |-> {j}, arg |-> m.from]
                 ELSE Idle]
    /\ UNCHANGED <<sc, base, run, grp>>

\* Mutant of SetResponse: an error is reported and tracked like any answer.
SetAndTrack(t, j) ==
    /\ thr[t].pc \in {"error", "record"} /\ j \in thr[t].todo
    /\ grp' = [grp EXCEPT ![j].responses = @ \cup {thr[t].arg},
                          ![j].errored = @ \/ thr[t].pc = "error"]
    /\ Does(t, "track", {j})
    /\ UNCHANGED <<sc, bus, base, run>>

\* ... and records the answer; for an error OnJobError is called.
SetResponse(t, j) ==
    /\ thr[t].pc \in {"error", "record"} /\ j \in thr[t].todo
    /\ grp' = [grp EXCEPT ![j].responses = @ \cup {thr[t].arg},
                          ![j].errored = @ \/ thr[t].pc = "error"]
    /\ Does(t, IF thr[t].pc = "error" THEN "cancel" ELSE "track", {j})
    /\ UNCHANGED <<sc, bus, base, run>>

\* Mutant of TrackGroupResponse: it does not look whether the group is still there.
TrackUnlocked(t, j) ==
    /\ thr[t].pc = "track" /\ j \in thr[t].todo
    /\ IF sc.asked[j] \subseteq grp[j].responses
       THEN grp' = [grp EXCEPT ![j].state = "taken"] /\ Does(t, "complete", {j})
       ELSE grp' = grp /\ Does(t, "track", {})
    /\ UNCHANGED <<sc, bus, base, run>>

\* trackGroupResponse looks again under the lock: one answer finishes the group.
TrackGroupResponse(t, j) ==
    /\ thr[t].pc = "track" /\ j \in thr[t].todo
    /\ IF grp[j].state = "running" /\ sc.asked[j] \subseteq grp[j].responses
       THEN grp' = [grp EXCEPT ![j].state = "taken"] /\ Does(t, "complete", {j})
       ELSE grp' = grp /\ Does(t, "track", {})
    /\ UNCHANGED <<sc, bus, base, run>>

CompleteGroup(t, j) ==
    /\ thr[t].pc = "complete" /\ j \in thr[t].todo
    /\ grp' = [grp EXCEPT ![j].state = "completed", ![j].completed = TRUE]
    /\ thr' = CancelTimeout(j, [thr EXCEPT ![t] = Idle])
    /\ UNCHANGED <<sc, bus, base, run>>

-----------------------------------------------------------------------------
(* A worker that does jobs.                                                *)

\* Mutant of HandleJobRequest: the request waits for no turn.
OutOfTurn(w) ==
    LET j == Message(w, "data").job IN
    /\ Takes(w, "data", {"request"})
    /\ bus' = Taken(w, "data")
    /\ base' = [base EXCEPT ![w].active = @ \cup {j}, ![w].handlers = @ \cup {j}]
    /\ run' = [run EXCEPT ![<<w, j>>] =
                 [pc |-> "waiting", off |-> FALSE, says |-> NoJob, wait |-> base[w].turn]]
    /\ UNCHANGED <<sc, thr, grp>>

\* handleJobRequest: the job is active, and its handler has its turn.
HandleJobRequest(w) ==
    LET j == Message(w, "data").job IN
    /\ Takes(w, "data", {"request"})
    /\ bus' = Taken(w, "data")
    /\ base' = [base EXCEPT ![w].active = @ \cup {j},
                            ![w].handlers = @ \cup {j},
                            ![w].turn = IF sc.sequential THEN j ELSE @]
    /\ run' = [run EXCEPT ![<<w, j>>] =
                 [pc |-> "waiting", off |-> FALSE, says |-> NoJob,
                  wait |-> IF sc.sequential THEN base[w].turn ELSE NoJob]]
    /\ UNCHANGED <<sc, thr, grp>>

Released(w, j) == j # NoJob => run[<<w, j>>].pc = "returned"

\* runJobHandler: the request's turn comes, and the handler is called.
StartHandler(w, j) ==
    /\ run[<<w, j>>].pc = "waiting" /\ Released(w, run[<<w, j>>].wait)
    /\ run' = [run EXCEPT ![<<w, j>>].pc = "running"]
    /\ UNCHANGED <<sc, bus, base, thr, grp>>

\* The handler answers (SendJobResponse): first it looks the job up ...
HandlerAnswers(w, j, a) ==
    /\ run[<<w, j>>].pc = "running" /\ a \in sc.answers
    /\ run' = [run EXCEPT ![<<w, j>>].pc = IF j \in base[w].active
                                           THEN "sending" ELSE "over",
                          ![<<w, j>>].says = a]
    /\ UNCHANGED <<sc, bus, base, thr, grp>>

\* ... then it sends the answer and forgets the job.
HandlerSends(w, j) ==
    /\ run[<<w, j>>].pc = "sending"
    /\ bus' = Put(bus, Req, [kind |-> run[<<w, j>>].says[1], job |-> j, from |-> w,
                           status |-> run[<<w, j>>].says[2]])
    /\ base' = [base EXCEPT ![w].active = @ \ {j}]
    /\ run' = [run EXCEPT ![<<w, j>>].pc = "over"]
    /\ UNCHANGED <<sc, thr, grp>>

\* The goroutine returns: its turn is released and its handler forgotten.  A
\* handler that is called off may return before it answers, and before its turn.
HandlerReturns(w, j) ==
    /\ \/ run[<<w, j>>].pc = "over"
       \/ run[<<w, j>>].pc = "running" /\ sc.silent
       \/ run[<<w, j>>].pc \in {"waiting", "running"} /\ run[<<w, j>>].off
    /\ run' = [run EXCEPT ![<<w, j>>].pc = "returned"]
    /\ base' = [base EXCEPT ![w].handlers = @ \ {j}]
    /\ UNCHANGED <<sc, bus, thr, grp>>

\* handleJobCancel: a job that is active has its handler called off.
HandleJobCancel(w) ==
    LET j == Message(w, "system").job IN
    /\ Takes(w, "system", {"cancel"})
    /\ bus' = Taken(w, "system")
    /\ run' = IF j \in base[w].active \cap base[w].handlers
              THEN [run EXCEPT ![<<w, j>>].off = TRUE] ELSE run
    /\ Does(<<w, "system">>, "stopping", base[w].active \cap {j})
    /\ UNCHANGED <<sc, base, grp>>

\* runningJob.stop has waited for the handler, or long enough.
HandlerStopped(w) ==
    /\ thr[<<w, "system">>].pc = "stopping"
    /\ Does(<<w, "system">>, "canceled", thr[<<w, "system">>].todo)
    /\ UNCHANGED <<sc, bus, base, run, grp>>

\* SendJobResponse by whoever calls a job off: the look-up, and the answer.
\* handleJobCancel ends there, Stop goes on with the next job.
Answered(t, j) ==
    [thr EXCEPT ![t] = IF thr[t].pc = "canceled" THEN Idle
                       ELSE [thr[t] EXCEPT !.todo = @ \ {j}, !.arg = NoJob]]

AnswerCanceled(t, j) ==
    /\ thr[t].pc \in {"answer", "canceled"} /\ thr[t].arg = NoJob /\ j \in thr[t].todo
    /\ thr' = IF j \in base[t[1]].active THEN [thr EXCEPT ![t].arg = j] ELSE Answered(t, j)
    /\ UNCHANGED <<sc, bus, base, run, grp>>

SendCanceled(t, j) ==
    /\ thr[t].pc \in {"answer", "canceled"} /\ thr[t].arg = j
    /\ bus' = Put(bus, Req, [kind |-> "answer", job |-> j, from |-> t[1],
                             status |-> "canceled"])
    /\ base' = [base EXCEPT ![t[1]].active = @ \ {j}]
    /\ thr' = Answered(t, j)
    /\ UNCHANGED <<sc, run, grp>>

\* A worker is asked to stop ...
AskToStop(w, kind) ==
    /\ <<w, kind>> \in sc.stops /\ kind \notin base[w].told
    /\ base' = [base EXCEPT ![w].told = @ \cup {kind}]
    /\ bus' = Put(bus, w, [kind |-> kind])
    /\ UNCHANGED <<sc, run, thr, grp>>

\* ... on the goroutine the message comes in on (HandleWorkerEnd,
\* HandleWorkerCancel), and once it has finished again on the one of Run.  Stop
\* looks up the jobs that are active now, to answer them as canceled ...
Stop(t) ==
    /\ \/ /\ t[2] # "run"
          /\ Takes(t[1], t[2], {"endWorker", "cancelWorker"})
          /\ bus' = Taken(t[1], t[2])
       \/ /\ t[2] = "run" /\ thr[t].pc = "idle" /\ base[t[1]].finished
          /\ bus' = bus
    /\ thr' = [thr EXCEPT ![t] = [pc |-> "answer", todo |-> base[t[1]].active, arg |-> NoJob]]
    /\ UNCHANGED <<sc, base, run, grp>>

\* ... takes the handlers that are running then (takeRunningJobs) ...
TakeRunningJobs(t) ==
    /\ thr[t].pc = "answer" /\ thr[t].todo = {}
    /\ base' = [base EXCEPT ![t[1]].handlers = {}]
    /\ thr' = [thr EXCEPT ![t] = [@ EXCEPT !.pc = "callHandlers",
                                           !.todo = base[t[1]].handlers]]
    /\ UNCHANGED <<sc, bus, run, grp>>

\* ... and calls them off one after another.
StopHandler(t, j) ==
    /\ thr[t].pc = "callHandlers" /\ j \in thr[t].todo
    /\ run' = [run EXCEPT ![<<t[1], j>>].off = TRUE]
    /\ thr' = [thr EXCEPT ![t].todo = @ \ {j}]
    /\ UNCHANGED <<sc, bus, base, grp>>

Finish(t) ==
    /\ thr[t].pc = "callHandlers" /\ thr[t].todo = {}
    /\ base' = [base EXCEPT ![t[1]].finished = TRUE]
    /\ thr' = [thr EXCEPT ![t] = IF t[2] = "run" THEN [@ EXCEPT !.pc = "finished"] ELSE Idle]
    /\ UNCHANGED <<sc, bus, run, grp>>

-----------------------------------------------------------------------------
Asked(t, j) ==
    \/ CancelGroup(t, j) \/ CallOff(t, j) \/ SetResponse(t, j)
    \/ TrackGroupResponse(t, j) \/ CompleteGroup(t, j)

Handler(w, j) ==
    \/ StartHandler(w, j) \/ HandlerSends(w, j) \/ HandlerReturns(w, j)
    \/ \E a \in sc.answers : HandlerAnswers(w, j, a)

Serves(t) ==
    \/ Stop(t) \/ TakeRunningJobs(t) \/ Finish(t)
    \/ \E j \in Jobs : AnswerCanceled(t, j) \/ SendCanceled(t, j) \/ StopHandler(t, j)

Deliver(n) ==
    \/ Route(n)
    \/ n \in Workers /\ (HandleJobRequest(n) \/ HandleJobCancel(n) \/ HandlerStopped(n))
    \/ n = Req /\ \E band \in {"system", "data"} : HandleJobResponse(band)

\* What goroutines do once they have been started or sent something: messages
\* are delivered, handlers answer, timeouts fire and what was begun is finished.
Progress ==
    \/ \E j \in Jobs : TimeoutFires(j)
    \/ \E j \in Jobs, w \in Workers : RequestJob(j, w) \/ Handler(w, j)
    \/ \E t \in Asking, j \in Jobs : Asked(t, j)
    \/ \E t \in Serving : Serves(t)
    \/ \E n \in Nodes : Deliver(n)

Next ==
    \/ Progress
    \/ \E j \in Jobs : CreateGroup(j) \/ CallerCancels(j)
    \/ \E s \in sc.stops : AskToStop(s[1], s[2])

Spec == Init /\ [][Next]_vars
\* The scheduler runs some goroutine that can run.  Nothing here goes on for ever,
\* so this weakest of fairness brings each of them to its end.
FairSpec == Spec /\ WF_vars(Progress)

-----------------------------------------------------------------------------
TypeOK ==
    /\ sc \in Scenarios
    /\ bus \in [Nodes -> [system : Seq(Messages), data : Seq(Messages),
                          routed : Seq(Messages)]]
    /\ base \in [Workers -> [active : SUBSET Jobs, handlers : SUBSET Jobs,
                             turn : Jobs \cup {NoJob}, finished : BOOLEAN,
                             told : SUBSET {"endWorker", "cancelWorker"}]]
    /\ run \in [Workers \X Jobs ->
                 [pc : {"none", "waiting", "running", "sending", "over", "returned"},
                  wait : Jobs \cup {NoJob}, off : BOOLEAN,
                  says : ({"answer", "urgent"} \X {"ok", "error"}) \cup {NoJob}]]
    /\ thr \in [Threads ->
                 [pc : {"idle", "armed", "cancel", "callOff", "error", "record", "track",
                        "complete", "stopping", "canceled", "answer", "callHandlers",
                        "finished"},
                  todo : SUBSET Jobs, arg : Jobs \cup Workers \cup {NoJob}]]
    /\ grp \in [Jobs -> [state : {"none", "running", "taken", "completed", "failed"},
                         unsent : SUBSET Workers, responses : SUBSET Workers,
                         completed : BOOLEAN, errored : BOOLEAN]]

\* The group a caller waits on, behind the answers, cancels and timeouts that
\* race for it: a group taken off the list is running until it is finished.
Groups == INSTANCE JobGroups WITH
    asked <- sc.asked,
    state <- [j \in Jobs |-> IF grp[j].state = "taken" THEN "running" ELSE grp[j].state],
    responses <- [j \in Jobs |-> grp[j].responses]

\* The requester's handlers, with the two goroutines that deliver to it, the
\* timeouts and the callers, do to each group no more than jobcontext.Group
\* promises: it ends once, and is completed only with an answer of every worker
\* it was asked of.
ImplementsGroups == Groups!Spec

\* OnJobError says a group was called off, "so OnJobCompleted will not fire": no
\* group is both reported failed and reported completed, so long as its answers
\* travel in one band and one goroutine takes them in turn.
OneVerdict ==
    (\A a \in sc.answers : a[1] = "answer") =>
        \A j \in Jobs : ~(grp[j].completed /\ grp[j].errored)

\* Handlers that are running: called, and not about to return.
Busy(w) == {j \in Jobs : run[<<w, j>>].pc \in {"running", "sending"}}

\* The requests of a handler declared sequential run "one at a time, in the order
\* they arrived", while none of them has been called off: the turn handed from
\* request to request is never skipped.
SequentialTurns ==
    \A w \in Workers :
        (sc.sequential /\ \A j \in Jobs : ~run[<<w, j>>].off) =>
            /\ \A j, k \in Busy(w) : j = k
            /\ \A j \in Busy(w) : run[<<w, j>>].wait # NoJob =>
                   run[<<w, run[<<w, j>>].wait>>].pc = "returned"

\* A group ends, whatever is called off and whatever order answers, cancels and
\* the timeout come in: always when it has a timeout, and without one as long as
\* handlers answer and nobody stops the workers it is waiting for.
Expected == {j \in Jobs : j \in sc.timed \/ (sc.stops = {} /\ ~sc.silent)}
GroupsEnd == []<>(\A j \in Expected : grp[j].state \in {"none", "completed", "failed"})
=============================================================================
