------------------------------ MODULE MCPipeline ----------------------------
(***************************************************************************)
(* A pipeline's worker, or one of its processors, on small instances.      *)
(* Each behaviour is one of four settings.  Of the worker: callers cancel  *)
(* ("cancel"), everything ends gracefully ("graceful"), the context may    *)
(* end under any of it ("context").  And a processor ("frames"), which the *)
(* others have none of; the worker stays where it begins in this one.      *)
(***************************************************************************)
EXTENDS Worker, TLC

VARIABLES setting,
          sc, left, arrived, inq, startGate, ipc, ifr, iwake, procq, ptail, pc,
          held, released, orphan, stopped, last, running, cur, blockFrames,
          evSet, blockSystem, inSet, pendingResume, watcher, tearing, baseDone,
          cl, clLoop, ctl, calls, out, lost, kept

frameVars == <<sc, left, arrived, inq, startGate, ipc, ifr, iwake, procq, ptail,
               pc, held, released, orphan, stopped, last, running, cur,
               blockFrames, evSet, blockSystem, inSet, pendingResume, watcher,
               tearing, baseDone, cl, clLoop, ctl, calls, out, lost, kept>>

(* Everything a caller can queue: what the types and the assumptions are   *)
(* evaluated for.                                                          *)
Everything == Ordered \cup {"cancel"}

Canceling == INSTANCE Worker WITH
    Policy <- "cancel", Queueable <- {"data", "cancel"}, Cancels <- TRUE,
    CtxEnds <- TRUE, Wedges <- TRUE, MaxQueued <- 2

Graceful == INSTANCE Worker WITH
    Policy <- "end", Queueable <- Ordered, Cancels <- FALSE,
    CtxEnds <- FALSE, Wedges <- FALSE, MaxQueued <- 3

(* A frame in flight and the frames that end the run from the outside.     *)
Ending == {"data", "end"}

InContext == INSTANCE Worker WITH
    Policy <- "end", Queueable <- Ending, Cancels <- TRUE,
    CtxEnds <- TRUE, Wedges <- TRUE, MaxQueued <- 2

(* Frames behind a pause held until the processor is ready, and a cancel   *)
(* with an interruption queued on either side of it.                       *)
Few == [k \in {"start", "data", "interruption"} |-> 1] @@
       [k \in {"cancel", "system", "pauseUrgent", "resumeUrgent", "unint",
               "pause", "resume"} |-> 0]
Held(n) == [budget |-> Few, api |-> {"until"}, calls |-> n, tears |-> FALSE]
Without(k) == [Held(1) EXCEPT !.budget[k] = 0]
Torn(s) == [s EXCEPT !.tears = TRUE]
Canceled == [Few EXCEPT !["cancel"] = 1]

Frames == INSTANCE Processor WITH
    Scenarios <- {Held(2), Torn(Without("data")), Torn(Without("interruption")),
                  [budget |-> Canceled, api |-> {}, calls |-> 0, tears |-> TRUE]},
    MaxLoops <- 2, HonorsCtx <- TRUE, canceling <- tearing, queued <- kept

Working(A) == setting # "frames" /\ A /\ UNCHANGED <<setting, frameVars>>
Handling(A) == setting = "frames" /\ A /\ UNCHANGED <<setting, vars>>

\* The value of a variable that is not looked at.
Unused == "unused"

NoFrames ==
    /\ sc = Unused /\ left = Unused /\ arrived = Unused /\ inq = Unused
    /\ startGate = Unused /\ ipc = Unused /\ ifr = Unused /\ iwake = Unused
    /\ procq = Unused /\ ptail = Unused /\ pc = Unused /\ held = Unused
    /\ released = Unused /\ orphan = Unused /\ stopped = Unused /\ last = Unused
    /\ running = Unused /\ cur = Unused /\ blockFrames = Unused /\ evSet = Unused
    /\ blockSystem = Unused /\ inSet = Unused /\ pendingResume = Unused
    /\ watcher = Unused /\ tearing = Unused /\ baseDone = Unused /\ cl = Unused
    /\ clLoop = Unused /\ ctl = Unused /\ calls = Unused /\ out = Unused
    /\ lost = Unused /\ kept = Unused

MCInit ==
    /\ Init
    /\ \/ setting \in {"cancel", "graceful", "context"} /\ NoFrames
       \/ setting = "frames" /\ Frames!Init

MCNext ==
    \/ Working(\/ setting = "cancel" /\ Canceling!Next
               \/ setting = "graceful" /\ Graceful!Next
               \/ setting = "context" /\ InContext!Next)
    \/ Handling(Frames!Next)

mcVars == <<setting, vars, frameVars>>

(* What the fairness of Worker and of Processor asks for, each in its own  *)
(* settings.  No state comes back in them, so that behaviours are finite   *)
(* but for stuttering, and fairness to each of these steps is fairness to  *)
(* them all.                                                               *)
Progress ==
    \/ Working(RunLoop \/ Pipeline \/ QueueCancel)
    \/ Handling(\/ Frames!Input \/ Frames!WatcherFire
                \/ \E l \in 1..2 : Frames!Loop(l)
                \/ ctl # "idle" /\ Frames!Control
                \/ cl # "no" /\ Frames!Cleanup)

MCSpec == MCInit /\ [][MCNext]_mcVars /\ WF_mcVars(Progress)

(* Processor's Drains and CleanupEnds, of its own setting.                 *)
Drains == <>[](setting = "frames" => Frames!Drained)
CleanupEnds == (setting = "frames" /\ cl = "cancel") ~> Frames!CleanedUp

(* A run ends: when it is canceled and nobody sent an EndFrame into it, or *)
(* its context ends, even in a pipeline that wedges (waitPipelineEnd       *)
(* bounds the wait for the CancelFrame, cancelOnContextEnd the shutdown);  *)
(* and in a pipeline that is not wedged when runLoop has pushed a frame    *)
(* that ends it, or a processor can no longer do its job and the policy is *)
(* not to continue (handleUnusableProcessor).                              *)
RunEnds ==
    (\/ setting = "cancel" /\ canceling
     \/ setting # "graceful" /\ ctxDone
     \/ setting = "graceful" /\ (rl = "waitEnd" \/ unusable # {})) ~> rl = "done"
=============================================================================
