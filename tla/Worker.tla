------------------------------- MODULE Worker -------------------------------
(***************************************************************************)
(* The lifecycle of one run of pipeline.Worker: Run, its run loop and the  *)
(* waits in it, the shutdown after the caller's context ended, the sink    *)
(* and the source at the ends of the pipeline, and the calls that queue    *)
(* frames or cancel the worker from other goroutines.                      *)
(*                                                                         *)
(* The pipeline between source and sink is external to this module.  It is *)
(* what Processor shows a chain of processors to be: data and control      *)
(* frames travel in order (travelling), system frames travel on their own  *)
(* (urgent), the StartFrame arrives first, and a processor that has        *)
(* handled a CancelFrame drops what it is handed after it.  A wedged       *)
(* pipeline delivers nothing any more.                                     *)
(***************************************************************************)
EXTENDS Naturals, Sequences

CONSTANTS
    Processors,    \* the processors that may become unusable
    Policy,        \* ProcessorUnusablePolicy: end, cancel or continue
    Queueable,     \* the kinds of frames callers queue
    Cancels,       \* whether Cancel is called, or a fatal error reported
    CtxEnds,       \* whether the context of Run may end
    Wedges,        \* whether a processor may wedge the pipeline
    MaxQueued      \* bound on the frames queued by callers

EndKinds == {"end", "stop", "cancel"}
WorkerKinds == {"endWorker", "stopWorker", "cancelWorker"}

(* The kinds that travel in order; a cancel or a cancelWorker overtakes.   *)
Ordered == {"data", "end", "stop", "endWorker", "stopWorker"}

ASSUME QueueableAssumption == Queueable \subseteq Ordered \cup {"cancel"}
ASSUME PolicyAssumption == Policy \in {"end", "cancel", "continue"}
ASSUME WorkerBounds == MaxQueued \in Nat

VARIABLES
    rl,            \* where the goroutine of Run is
    endFrame,      \* the frame runLoop returns: its kind
    ctxDone,       \* the context of Run has ended
    pushQueue,     \* frames queued for the run loop to push
    queued,        \* how many frames callers queued
    canceling, finished,
    cancelPending, \* cancelWithReason has set canceling, not yet queued
    cancelFrame,   \* cancelFrame # nil
    startSig, endSig,   \* the signals are closed
    finishOnce,    \* callPipelineFinished has run
    unusable,      \* processors whose policy was applied
    urgent,        \* system frames travelling the pipeline
    travelling,    \* data and control frames travelling it, in order
    returning,     \* worker frames on their way back up, in order
    started,       \* the StartFrame has reached the sink
    wedged,
    cleaned,       \* the pipeline has been cleaned up
    reports,       \* history: EventPipelineFinished, by the frame's kind
    cancels        \* history: CancelFrames put into the pipeline

signals == <<startSig, endSig>>
callVars == <<pushQueue, queued, canceling, cancelPending, unusable>>
pipeVars == <<urgent, travelling, returning, started, wedged>>
endVars == <<finishOnce, reports>>
runVars == <<rl, endFrame, cancelFrame, finished, cleaned, cancels>>

vars == <<runVars, callVars, pipeVars, endVars, signals, ctxDone>>

Init ==
    /\ rl = "setup" /\ endFrame = "none" /\ ctxDone = FALSE
    /\ pushQueue = <<>> /\ queued = 0
    /\ canceling = FALSE /\ finished = FALSE /\ cancelPending = FALSE
    /\ cancelFrame = FALSE
    /\ startSig = FALSE /\ endSig = FALSE
    /\ finishOnce = FALSE /\ unusable = {}
    /\ urgent = {} /\ travelling = <<>> /\ returning = <<>>
    /\ started = FALSE /\ wedged = FALSE /\ cleaned = FALSE
    /\ reports = <<>> /\ cancels = 0

(* callPipelineFinished: at most once.                                     *)
CallPipelineFinished(k) ==
    /\ finishOnce' = TRUE
    /\ reports' = IF finishOnce THEN reports ELSE Append(reports, k)

-----------------------------------------------------------------------------
(* Run *)

(* setupWithinTimeout returned.                                            *)
SetUp ==
    /\ rl = "setup"
    /\ rl' = "start"
    /\ UNCHANGED <<endFrame, cancelFrame, finished, cleaned, cancels, callVars,
                   pipeVars, endVars, signals, ctxDone>>

(* Pipeline.Setup reported an error: Run returns it as it is.              *)
SetupError ==
    /\ rl = "setup"
    /\ rl' = "done"
    /\ UNCHANGED <<endFrame, cancelFrame, finished, cleaned, cancels, callVars,
                   pipeVars, endVars, signals, ctxDone>>

(* Setting up timed out: release what came up and give up.                 *)
SetupTimeout ==
    /\ rl = "setup"
    /\ rl' = "done"
    /\ cleaned' = TRUE
    /\ finished' = TRUE
    /\ UNCHANGED <<endFrame, cancelFrame, cancels, callVars, pipeVars, endVars,
                   signals, ctxDone>>

(* runLoop sends the StartFrame and waits for it to reach the sink.        *)
SendStart ==
    /\ rl = "start"
    /\ urgent' = urgent \cup {"start"}
    /\ rl' = "waitStart"
    /\ UNCHANGED <<endFrame, cancelFrame, finished, cleaned, cancels, callVars,
                   travelling, returning, started, wedged, endVars, signals,
                   ctxDone>>

Started ==
    /\ rl = "waitStart"
    /\ startSig
    /\ rl' = "get"
    /\ UNCHANGED <<endFrame, cancelFrame, finished, cleaned, cancels, callVars,
                   pipeVars, endVars, signals, ctxDone>>

StartTimeout ==
    /\ rl = "waitStart"
    /\ endFrame' = "start"
    /\ rl' = "teardown"
    /\ UNCHANGED <<cancelFrame, finished, cleaned, cancels, callVars, pipeVars,
                   endVars, signals, ctxDone>>

(* The context of Run ended a wait that gives way to it; frameQueue.get    *)
(* does so only once its queue is empty.                                   *)
RunCtxDone ==
    /\ ctxDone
    /\ rl \in {"waitStart", "get", "waitEnd"}
    /\ rl = "get" => pushQueue = <<>>
    /\ rl' = "ctxEnd"
    /\ UNCHANGED <<endFrame, cancelFrame, finished, cleaned, cancels, callVars,
                   pipeVars, endVars, signals, ctxDone>>

(* The run loop pushes the next queued frame; after one that ends the      *)
(* pipeline it waits for that frame.                                       *)
PushQueued ==
    /\ rl = "get"
    /\ pushQueue # <<>>
    /\ LET k == Head(pushQueue) IN
        /\ pushQueue' = Tail(pushQueue)
        /\ IF k = "cancel"
           THEN /\ urgent' = urgent \cup {"cancel"}
                /\ cancels' = cancels + 1
                /\ cancelFrame' = TRUE
                /\ UNCHANGED travelling
           ELSE /\ travelling' = Append(travelling, k)
                /\ UNCHANGED <<urgent, cancels, cancelFrame>>
        /\ IF k \in EndKinds
           THEN /\ endFrame' = k
                /\ rl' = IF k = "cancel" THEN "waitCancel" ELSE "waitEnd"
           ELSE UNCHANGED <<endFrame, rl>>
    /\ UNCHANGED <<finished, cleaned, queued, canceling, cancelPending,
                   unusable, returning, started, wedged, endVars, signals,
                   ctxDone>>

(* Mutant of EndArrived: the frame is not waited out.                      *)
EndArrivedEarly ==
    /\ rl = "waitEnd"
    /\ rl' = "teardown"
    /\ UNCHANGED <<endFrame, cancelFrame, finished, cleaned, cancels, callVars,
                   pipeVars, endVars, signals, ctxDone>>

(* waitPipelineEnd for an EndFrame or a StopFrame: waited out in full.     *)
EndArrived ==
    /\ rl = "waitEnd"
    /\ endSig
    /\ rl' = "teardown"
    /\ UNCHANGED <<endFrame, cancelFrame, finished, cleaned, cancels, callVars,
                   pipeVars, endVars, signals, ctxDone>>

(* Mutant of CancelOver: the wait for a CancelFrame is not bounded.        *)
CancelOverInFull ==
    /\ rl \in {"waitCancel", "ctxWait"}
    /\ endSig
    /\ CallPipelineFinished("cancel")
    /\ endFrame' = "cancel"
    /\ rl' = "teardown"
    /\ UNCHANGED <<cancelFrame, finished, cleaned, cancels, callVars, pipeVars,
                   signals, ctxDone>>

(* waitPipelineEnd for a CancelFrame: it arrived or CancelTimeout passed,  *)
(* and the finished handler runs either way.                               *)
CancelOver ==
    /\ rl \in {"waitCancel", "ctxWait"}
    /\ CallPipelineFinished("cancel")
    /\ endFrame' = "cancel"
    /\ rl' = "teardown"
    /\ UNCHANGED <<cancelFrame, finished, cleaned, cancels, callVars, pipeVars,
                   signals, ctxDone>>

(* The context of Run ended the wait for a CancelFrame.                    *)
CancelCtxDone ==
    /\ rl = "waitCancel"
    /\ ctxDone
    /\ CallPipelineFinished("cancel")
    /\ rl' = "ctxEnd"
    /\ UNCHANGED <<endFrame, cancelFrame, finished, cleaned, cancels, callVars,
                   pipeVars, signals, ctxDone>>

(* cancelOnContextEnd: straight into the pipeline, unless the run loop     *)
(* already sent one, then the wait for it.                                 *)
CancelOnContextEnd ==
    /\ rl = "ctxEnd"
    /\ canceling' = TRUE
    /\ IF cancelFrame
       THEN UNCHANGED <<urgent, cancels, cancelFrame>>
       ELSE /\ urgent' = urgent \cup {"cancel"}
            /\ cancels' = cancels + 1
            /\ cancelFrame' = TRUE
    /\ rl' = "ctxWait"
    /\ UNCHANGED <<endFrame, finished, cleaned, pushQueue, queued,
                   cancelPending, unusable, travelling, returning, started,
                   wedged, endVars, signals, ctxDone>>

(* Everything but a StopFrame tears the pipeline down.                     *)
Teardown ==
    /\ rl = "teardown"
    /\ cleaned' = (endFrame # "stop")
    /\ rl' = "closing"
    /\ UNCHANGED <<endFrame, cancelFrame, finished, cancels, callVars,
                   pipeVars,
                   endVars, signals, ctxDone>>

Finish ==
    /\ rl = "closing"
    /\ finished' = TRUE
    /\ rl' = "done"
    /\ UNCHANGED <<endFrame, cancelFrame, cleaned, cancels, callVars, pipeVars,
                   endVars, signals, ctxDone>>

-----------------------------------------------------------------------------
(* The pipeline, and the worker's sink and source at its ends.             *)

Flowing == ~wedged /\ ~cleaned

(* sinkPush on the StartFrame.                                             *)
SinkStart ==
    /\ Flowing /\ "start" \in urgent
    /\ urgent' = urgent \ {"start"}
    /\ started' = TRUE
    /\ startSig' = TRUE
    /\ UNCHANGED <<runVars, callVars, travelling, returning, wedged, endVars,
                   endSig, ctxDone>>

(* sinkPush on a CancelFrame, which closes endSig and reports nothing.     *)
SinkCancel ==
    /\ Flowing /\ started /\ "cancel" \in urgent
    /\ urgent' = urgent \ {"cancel"}
    /\ endSig' = TRUE
    /\ UNCHANGED <<runVars, callVars, travelling, returning, started, wedged,
                   endVars, startSig, ctxDone>>

(* A queue without the i-th of its frames.                                 *)
RemoveAt(s, i) == SubSeq(s, 1, i - 1) \o SubSeq(s, i + 1, Len(s))

(* A processor that a CancelFrame has reached drops the frames it holds    *)
(* and those it is handed.                                                 *)
Dropped ==
    /\ Flowing /\ cancels > 0
    /\ \/ \E i \in 1..Len(travelling) :
             travelling' = RemoveAt(travelling, i) /\ UNCHANGED returning
       \/ \E i \in 1..Len(returning) :
             returning' = RemoveAt(returning, i) /\ UNCHANGED travelling
    /\ UNCHANGED <<runVars, callVars, urgent, started, wedged, endVars,
                   signals,
                   ctxDone>>

(* Mutant of SinkOrdered: the frame that ends the run is reported each time*)
(* it is seen, by the sink and by the wait.                                *)
SinkOrderedReports ==
    /\ Flowing /\ started /\ travelling # <<>>
    /\ LET k == Head(travelling) IN
        /\ travelling' = Tail(travelling)
        /\ returning' = IF k \in WorkerKinds THEN Append(returning, k)
                                             ELSE returning
        /\ endSig' = (endSig \/ k \in EndKinds)
        /\ reports' = IF k \in EndKinds THEN Append(reports, k) ELSE reports
    /\ UNCHANGED <<runVars, callVars, urgent, started, wedged, startSig,
                   finishOnce, ctxDone>>

(* sinkPush on a frame that travels in order: an EndFrame or StopFrame     *)
(* ends the run, a worker frame is echoed upstream.                        *)
SinkOrdered ==
    /\ Flowing /\ started /\ travelling # <<>>
    /\ LET k == Head(travelling) IN
        /\ travelling' = Tail(travelling)
        /\ returning' = IF k \in WorkerKinds THEN Append(returning, k)
                                             ELSE returning
        /\ endSig' = (endSig \/ k \in EndKinds)
        /\ IF k \in EndKinds THEN CallPipelineFinished(k)
                             ELSE UNCHANGED endVars
    /\ UNCHANGED <<runVars, callVars, urgent, started, wedged, startSig,
                   ctxDone>>

(* sourcePush on a worker frame: the pipeline-wide frame is queued.        *)
SourceWorkerFrame ==
    /\ Flowing /\ returning # <<>>
    /\ returning' = Tail(returning)
    /\ pushQueue' = Append(pushQueue, IF Head(returning) = "endWorker"
                                      THEN "end" ELSE "stop")
    /\ UNCHANGED <<runVars, queued, canceling, cancelPending, unusable, urgent,
                   travelling, started, wedged, endVars, signals, ctxDone>>

Wedge ==
    /\ Wedges /\ ~wedged
    /\ wedged' = TRUE
    /\ UNCHANGED <<runVars, callVars, urgent, travelling, returning, started,
                   endVars, signals, ctxDone>>

-----------------------------------------------------------------------------
(* Calls made from other goroutines.                                       *)

(* QueueFrame, StopWhenDone, HandleWorkerEnd.                              *)
QueueFrame(k) ==
    /\ queued < MaxQueued
    /\ queued' = queued + 1
    /\ pushQueue' = Append(pushQueue, k)
    /\ UNCHANGED <<runVars, canceling, cancelPending, unusable, pipeVars,
                   endVars, signals, ctxDone>>

(* QueueFrame upstream, which enters at the sink; a processor pushes a     *)
(* worker frame upstream the same way.                                     *)
QueueUpstream(k) ==
    /\ queued < MaxQueued /\ Flowing
    /\ queued' = queued + 1
    /\ returning' = Append(returning, k)
    /\ UNCHANGED <<runVars, pushQueue, canceling, cancelPending, unusable,
                   urgent, travelling, started, wedged, endVars, signals,
                   ctxDone>>

(* cancelWithReason: at most one caller gets past the flag.                *)
CancelWithReason ==
    /\ ~canceling /\ ~finished
    /\ canceling' = TRUE
    /\ cancelPending' = TRUE

(* Cancel, HandleWorkerCancel, a fatal error or a CancelWorkerFrame at the *)
(* source.                                                                 *)
Cancel ==
    /\ Cancels
    /\ CancelWithReason
    /\ UNCHANGED <<runVars, pushQueue, queued, unusable, pipeVars, endVars,
                   signals, ctxDone>>

(* The rest of cancelWithReason: release the wait for the StartFrame, then *)
(* queue the CancelFrame.                                                  *)
QueueCancel ==
    /\ cancelPending
    /\ cancelPending' = FALSE
    /\ startSig' = TRUE
    /\ pushQueue' = Append(pushQueue, "cancel")
    /\ UNCHANGED <<runVars, queued, canceling, unusable, pipeVars, endVars,
                   endSig, ctxDone>>

(* handleUnusableProcessor: the policy, once per processor.                *)
HandleUnusableProcessor(p) ==
    /\ p \notin unusable
    /\ unusable' = unusable \cup {p}
    /\ pushQueue' = IF Policy = "end" THEN Append(pushQueue, "end")
                                      ELSE pushQueue
    /\ IF Policy = "cancel" /\ ~canceling /\ ~finished
       THEN CancelWithReason
       ELSE UNCHANGED <<canceling, cancelPending>>
    /\ UNCHANGED <<runVars, queued, pipeVars, endVars, signals, ctxDone>>

EndContext ==
    /\ CtxEnds /\ ~ctxDone
    /\ ctxDone' = TRUE
    /\ UNCHANGED <<runVars, callVars, pipeVars, endVars, signals>>

-----------------------------------------------------------------------------
RunLoop ==
    \/ SetUp \/ SetupError \/ SetupTimeout \/ SendStart \/ Started
    \/ StartTimeout \/ RunCtxDone \/ PushQueued \/ EndArrived
    \/ CancelOver \/ CancelCtxDone
    \/ CancelOnContextEnd \/ Teardown \/ Finish

Pipeline ==
    SinkStart \/ SinkCancel \/ SinkOrdered \/ SourceWorkerFrame \/ Dropped

Callers ==
    \/ \E k \in Queueable : QueueFrame(k)
    \/ \E k \in Queueable \cap WorkerKinds : QueueUpstream(k)
    \/ Cancel
    \/ QueueCancel
    \/ \E p \in Processors : HandleUnusableProcessor(p)
    \/ EndContext
    \/ Wedge

Next == RunLoop \/ Pipeline \/ Callers

Spec == Init /\ [][Next]_vars

(* The run loop and its timers go on, a call to cancel completes, and a    *)
(* pipeline that is not wedged delivers.                                   *)
Fairness == WF_vars(RunLoop) /\ WF_vars(Pipeline) /\ WF_vars(QueueCancel)

LiveSpec == Spec /\ Fairness

-----------------------------------------------------------------------------
RunPlaces == {"setup", "start", "waitStart", "get", "waitEnd", "waitCancel",
              "ctxEnd", "ctxWait", "teardown", "closing", "done"}

DataType ==
    /\ rl \in RunPlaces /\ endFrame \in EndKinds \cup {"none", "start"}
    /\ pushQueue \in Seq(Ordered \cup {"cancel"}) /\ queued \in Nat
    /\ unusable \subseteq Processors
    /\ urgent \subseteq {"start", "cancel"}
    /\ travelling \in Seq(Ordered)
    /\ returning \in Seq({"endWorker", "stopWorker"})
    /\ reports \in Seq(EndKinds) /\ cancels \in Nat

FlagType ==
    /\ ctxDone \in BOOLEAN
    /\ canceling \in BOOLEAN /\ finished \in BOOLEAN
    /\ cancelPending \in BOOLEAN /\ cancelFrame \in BOOLEAN
    /\ startSig \in BOOLEAN /\ endSig \in BOOLEAN
    /\ finishOnce \in BOOLEAN /\ started \in BOOLEAN
    /\ wedged \in BOOLEAN /\ cleaned \in BOOLEAN

(* Every variable of the worker keeps its type: what travels in order is   *)
(* never a CancelFrame.                                                    *)
TypeOK == DataType /\ FlagType

(* callPipelineFinished raises EventPipelineFinished "at most once",       *)
(* though the sink and two waits can each reach it; and a run that ended   *)
(* by a frame has raised it by the time Run returns.                       *)
FinishedOnce ==
    /\ Len(reports) <= 1
    /\ rl = "done" /\ endFrame \in EndKinds => reports # <<>>

(* cancelOnContextEnd: "a second frame would tell the pipeline something   *)
(* it has already been told".                                              *)
OneCancel == cancels <= 1

(* A pipeline that was sent a CancelFrame is torn down, even when the      *)
(* context ended the wait for a StopFrame, which would have kept it up.    *)
CanceledIsTornDown == rl = "done" /\ cancels > 0 => cleaned

(* waitPipelineEnd: an EndFrame "is waited out in full, since a graceful   *)
(* shutdown is meant to flush what is in flight".  When such a run goes on *)
(* to tear the pipeline down, nothing it pushed is still travelling.       *)
EndFlushes ==
    rl = "teardown" /\ endFrame \in {"end", "stop"} => travelling = <<>>

(* waitPipelineEnd: canceling "has to complete even when a processor is    *)
(* wedged and the frame never comes back".  Cancel ends the run.           *)
CancelEndsRun == canceling ~> rl = "done"
=============================================================================
