------------------------------ MODULE Processor ------------------------------
(***************************************************************************)
(* One frame processor: processor.Base with its queue (queue.go) and its   *)
(* pause gates (pause.go), at the granularity of the code's critical       *)
(* sections.                                                               *)
(*                                                                         *)
(* Two goroutines handle the frames.  The input goroutine (ipc, ifr) takes *)
(* frames off the input queue, handles system frames itself and forwards   *)
(* the rest to the process queue.  The process goroutine takes those in    *)
(* order; an interruption cancels it and starts another, so several        *)
(* instances of its loop (pc[l], held[l]) can exist.  Other goroutines     *)
(* call into the processor: QueueFrame, the pause and resume methods,      *)
(* BroadcastInterruption (ctl) and Cleanup (cl).                           *)
(*                                                                         *)
(* The concrete processor's ProcessFrame is the pass-through every         *)
(* processor is built on: call the base, then push the frame on.  A call   *)
(* made under a canceled context may give up before it pushes.             *)
(***************************************************************************)
EXTENDS Naturals, Sequences

CONSTANTS
    Scenarios,     \* what the goroutines around the processor may do
    MaxLoops,      \* bound on the instances of processLoop
    HonorsCtx      \* ProcessFrame returns within processCancelTimeout

SystemKinds == {"start", "interruption", "cancel", "system",
                "pauseUrgent", "resumeUrgent"}

ProcKinds == {"data", "unint", "pause", "resume"}

Kinds == SystemKinds \cup ProcKinds

Methods == {"pause", "resume", "pauseSystem", "resumeSystem", "broadcast",
            "until"}

(* A scenario: how many frames of each kind the neighbours queue, which    *)
(* methods are called on the processor and how often, and whether Cleanup  *)
(* is called.                                                              *)
Scenario == [budget : [Kinds -> Nat], api : SUBSET Methods, calls : Nat,
             tears : BOOLEAN]

ASSUME ScenarioAssumption == \A s \in Scenarios : s \in Scenario
ASSUME BoundsAssumption == MaxLoops \in Nat
ASSUME SwitchAssumption == HonorsCtx \in BOOLEAN

Loops == 1..MaxLoops

(* A frame carries the position it was queued at, which the input queue    *)
(* keeps within a tier.  An item of the process queue carries its own      *)
(* position there.                                                         *)
Frame == [id : Nat, kind : Kinds]
NoFrame == [id |-> 0, kind |-> "none"]
Item == [at : Nat, frame : Frame]

VARIABLES
    sc,            \* the scenario
    left,          \* frames of each kind still to be queued
    arrived,       \* frames queued so far
    inq,           \* inputQueue
    startGate,     \* startGate.set
    ipc, ifr,      \* input goroutine: its place and the frame it took
    iwake,         \* its wait on inputEvent has been released
    procq, ptail,  \* procQueue.other and the next position in it
    pc, held,      \* process goroutines: place and frame taken
    released,      \* the event a process goroutine waits on was set
    orphan,        \* that event is no longer processEvent
    stopped,       \* the context of a process goroutine is canceled
    last,          \* the newest process goroutine (procCancel, procDone)
    running,       \* procRunning
    cur,           \* curFrame
    blockFrames, evSet,    \* blockFrames and processEvent.set
    blockSystem, inSet,    \* blockSystemFrames and inputEvent.set
    pendingResume,
    watcher,       \* pauseWatcher: none, armed, or set and already fired
    canceling,
    baseDone,      \* baseCtx is canceled
    cl, clLoop,    \* Cleanup: its place and the goroutine it waits for
    ctl, calls,    \* a caller of the pause API: its place, calls made
    out,           \* history: the frames pushed on, in order
    lost,          \* history: frames taken and never pushed on
    queued         \* history: frames queued that no flush may drop

procVars == <<procq, ptail>>
waitVars == <<released, orphan>>
taskCtx == <<stopped, last, running>>
taskVars == <<procVars, pc, waitVars, taskCtx>>
frameGate == <<blockFrames, evSet>>
systemGate == <<blockSystem, inSet>>
gateVars == <<frameGate, systemGate, pendingResume>>
liftVars == <<iwake, inSet, evSet, released>>
history == <<out, lost>>

(* What each goroutine never changes.                                      *)
InputKeeps == <<sc, left, arrived, startGate, held, cur, watcher, baseDone,
                cl, clLoop, ctl, calls, queued>>
LoopKeeps == <<sc, left, arrived, inq, startGate, ipc, ifr, iwake, ptail,
               taskCtx, systemGate, watcher, canceling, baseDone, cl, clLoop,
               ctl, calls, queued>>
ControlKeeps == <<sc, left, arrived, inq, startGate, ipc, ifr, ptail, pc,
                  held, taskCtx, cur, pendingResume, canceling, baseDone, cl,
                  clLoop, history, queued>>
CleanupKeeps == <<sc, left, arrived, inq, startGate, ipc, ifr, procVars, pc,
                  held, orphan, last, cur, blockFrames, blockSystem, pendingResume,
                  canceling, ctl, calls, history, queued>>

vars == <<sc, left, arrived, inq, startGate, ipc, ifr, iwake, procq, ptail,
          pc, held, released, orphan, stopped, last, running, cur,
          blockFrames, evSet, blockSystem, inSet, pendingResume, watcher,
          canceling, baseDone, cl, clLoop, ctl, calls, out, lost, queued>>

-----------------------------------------------------------------------------
(* queue.go *)

IsSystem(f) == f.kind \in SystemKinds

Uninterruptible(f) == f.kind = "unint"

Tier(f) == IF f.kind = "start" THEN 0 ELSE IF IsSystem(f) THEN 1 ELSE 2

(* get serves the StartFrame, then the other system frames, then the rest, *)
(* each tier in arrival order.                                             *)
IsNextIn(f, q) ==
    /\ f \in q
    /\ \A g \in q : \/ Tier(f) < Tier(g)
                    \/ Tier(f) = Tier(g) /\ f.id <= g.id

(* Mutant of IsNextItem: the queue keeps no order.                         *)
AnyItem(x, q) == x \in q

IsNextItem(x, q) == x \in q /\ \A y \in q : x.at <= y.at

(* Mutant of Reset: reset empties the queue.                               *)
ResetAll(q) == {}

(* reset keeps only the uninterruptible frames.                            *)
Reset(q) == {x \in q : Uninterruptible(x.frame)}

-----------------------------------------------------------------------------
(* The gates of pause.go.  A process goroutine waits on the channel of the *)
(* event it read: setting that event releases it, and replacing the event  *)
(* (resetProcessTask) leaves it on one that nobody sets any longer.        *)

(* ResumeProcessingFrames: processEvent.Set.                               *)
ResumeProcessingFrames ==
    /\ evSet' = TRUE
    /\ released' = [l \in Loops |->
                       released[l] \/ (pc[l] = "wait" /\ ~orphan[l])]

(* ResumeProcessingSystemFrames: inputEvent.Set.                           *)
ResumeProcessingSystemFrames ==
    /\ inSet' = TRUE
    /\ iwake' = (iwake \/ ipc = "wait")

(* A pause has set its flag and is about to clear the event it read.       *)
PauseInFlight ==
    \/ ctl \in {"clear", "untilArm"}
    \/ ipc = "pauseClear"
    \/ \E l \in Loops : pc[l] = "pauseClear"

(* resetProcessTask: a fresh gate, and the queue emptied.  A pause in      *)
(* flight clears the event that is replaced, which comes to the same       *)
(* before the replacement as after it, so it is ordered before.            *)
ResetProcessTask ==
    /\ ~PauseInFlight
    /\ blockFrames' = FALSE
    /\ evSet' = FALSE
    /\ orphan' = [l \in Loops |-> orphan[l] \/ pc[l] = "wait"]
    /\ procq' = Reset(procq)
    /\ UNCHANGED <<ptail, released>>

(* applyPendingResume, which runs after every frame on either goroutine.   *)
ApplyPendingResume ==
    /\ pendingResume' = FALSE
    /\ IF pendingResume
       THEN ResumeProcessingFrames /\ UNCHANGED blockFrames
       ELSE UNCHANGED <<frameGate, released>>

-----------------------------------------------------------------------------
Init ==
    /\ sc \in Scenarios
    /\ left = sc.budget /\ arrived = 0
    /\ inq = {} /\ startGate = FALSE
    /\ ipc = "gate" /\ ifr = NoFrame /\ iwake = FALSE
    /\ procq = {} /\ ptail = 0
    /\ pc = [l \in Loops |-> "none"]
    /\ held = [l \in Loops |-> NoFrame]
    /\ released = [l \in Loops |-> FALSE]
    /\ orphan = [l \in Loops |-> FALSE]
    /\ stopped = [l \in Loops |-> FALSE]
    /\ last = 0 /\ running = FALSE
    /\ cur = NoFrame
    /\ blockFrames = FALSE /\ evSet = FALSE
    /\ blockSystem = FALSE /\ inSet = FALSE
    /\ pendingResume = FALSE
    /\ watcher = "none" /\ canceling = FALSE /\ baseDone = FALSE
    /\ cl = "no" /\ clLoop = 0
    /\ ctl = "idle" /\ calls = 0
    /\ out = <<>> /\ lost = {} /\ queued = {}

(* QueueFrame.  A processor that is canceling drops what it is handed.     *)
QueueFrame(k) ==
    /\ left[k] > 0
    /\ left' = [left EXCEPT ![k] = @ - 1]
    /\ IF canceling
       THEN UNCHANGED <<arrived, inq, startGate, queued>>
       ELSE /\ arrived' = arrived + 1
            /\ LET f == [id |-> arrived + 1, kind |-> k]
               IN  /\ inq' = inq \cup {f}
                   /\ queued' = IF IsSystem(f) \/ Uninterruptible(f)
                                THEN queued \cup {f} ELSE queued
            /\ startGate' = (startGate \/ k = "start")
    /\ UNCHANGED <<sc, ipc, ifr, iwake, taskVars, held, cur, gateVars,
                   watcher, canceling, baseDone, cl, clLoop, ctl, calls, history>>

-----------------------------------------------------------------------------
(* inputLoop *)

InputGate ==
    /\ ipc = "gate"
    /\ startGate
    /\ ipc' = "get"
    /\ UNCHANGED <<InputKeeps, ifr, iwake, inq, canceling, taskVars, gateVars,
                   history>>

InputGet ==
    /\ ipc = "get"
    /\ \E f \in inq :
          /\ IsNextIn(f, inq)
          /\ inq' = inq \ {f}
          /\ ifr' = f
    /\ ipc' = "check"
    /\ UNCHANGED <<InputKeeps, iwake, canceling, taskVars, gateVars, history>>

(* The teardown ends the loop where it waits: at the start gate, on an     *)
(* empty queue, or held at the pause gate with a frame in hand.            *)
InputExit ==
    /\ baseDone
    /\ ipc \in {"gate", "get", "wait"}
    /\ ipc = "get" => inq = {}
    /\ ipc' = "exit"
    /\ lost' = IF ipc = "wait" THEN lost \cup {ifr} ELSE lost
    /\ UNCHANGED <<InputKeeps, ifr, iwake, inq, canceling, out, taskVars,
                   gateVars>>

(* waitWhilePaused(ctx, true): read the gate, wait, clear, unblock.        *)
InputCheck ==
    /\ ipc = "check"
    /\ ipc' = IF ~blockSystem THEN "dispatch"
              ELSE IF inSet THEN "unblock" ELSE "wait"
    /\ inSet' = (inSet /\ ~blockSystem)
    /\ iwake' = FALSE
    /\ UNCHANGED <<InputKeeps, ifr, inq, blockSystem, pendingResume, canceling,
                   taskVars, frameGate, history>>

InputWake ==
    /\ ipc = "wait"
    /\ iwake
    /\ ipc' = "unblock"
    /\ iwake' = FALSE
    /\ inSet' = FALSE
    /\ UNCHANGED <<InputKeeps, ifr, inq, blockSystem, pendingResume, canceling,
                   taskVars, frameGate, history>>

InputUnblock ==
    /\ ipc = "unblock"
    /\ ipc' = "dispatch"
    /\ blockSystem' = FALSE
    /\ UNCHANGED <<InputKeeps, ifr, iwake, inq, inSet, pendingResume,
                   canceling, taskVars, frameGate, history>>

(* A data or control frame is forwarded to the process queue.              *)
InputForward ==
    /\ ipc = "dispatch"
    /\ ~IsSystem(ifr)
    /\ procq' = procq \cup {[at |-> ptail, frame |-> ifr]}
    /\ ptail' = ptail + 1
    /\ ipc' = "get"
    /\ ifr' = NoFrame
    /\ UNCHANGED <<InputKeeps, iwake, inq, pc, canceling, gateVars, waitVars,
                   history, taskCtx>>

(* createProcessTask: nothing while one runs, else a clean queue and gate  *)
(* and a new process goroutine.                                            *)
CreateProcessTask ==
    IF running
    THEN UNCHANGED <<taskVars, frameGate>>
    ELSE /\ last < MaxLoops
         /\ ResetProcessTask
         /\ last' = last + 1
         /\ running' = TRUE
         /\ pc' = [pc EXCEPT ![last + 1] = "top"]
         /\ UNCHANGED stopped

(* Base.ProcessFrame on a StartFrame.                                      *)
InputStart ==
    /\ ipc = "dispatch"
    /\ ifr.kind = "start"
    /\ CreateProcessTask
    /\ ipc' = "push"
    /\ UNCHANGED <<InputKeeps, ifr, iwake, inq, pendingResume, canceling,
                   systemGate, history>>

(* Mutant of InputInterrupt: the process goroutine is never canceled.      *)
InputInterruptFlushOnly ==
    /\ ipc = "dispatch"
    /\ ifr.kind = "interruption"
    /\ ipc' = "reset"
    /\ UNCHANGED <<InputKeeps, ifr, iwake, inq, canceling, taskVars, gateVars,
                   history>>

(* startInterruption looks at the frame being handled; what it decides is  *)
(* done in later steps, when that frame may have changed.                  *)
InputInterrupt ==
    /\ ipc = "dispatch"
    /\ ifr.kind = "interruption"
    /\ ipc' = IF Uninterruptible(cur) THEN "reset" ELSE "cancel"
    /\ UNCHANGED <<InputKeeps, ifr, iwake, inq, canceling, taskVars, gateVars,
                   history>>

InputReset ==
    /\ ipc = "reset"
    /\ procq' = Reset(procq)
    /\ ipc' = "push"
    /\ UNCHANGED <<InputKeeps, ifr, iwake, inq, ptail, pc, canceling, gateVars,
                   waitVars, history, taskCtx>>

(* Base.cancel on a CancelFrame.                                           *)
InputCancel ==
    /\ ipc = "dispatch"
    /\ ifr.kind = "cancel"
    /\ canceling' = TRUE
    /\ ipc' = "cancel"
    /\ UNCHANGED <<InputKeeps, ifr, iwake, inq, taskVars, gateVars, history>>

(* Mutant of AfterCancel: an interruption starts no new goroutine.         *)
AfterCancelPush == "push"

(* Where cancelProcessTask returns to on the input goroutine.              *)
AfterCancel == IF ifr.kind = "interruption" THEN "create" ELSE "push"

(* cancelProcessTask: cancel the goroutine, then wait for it.              *)
InputCancelTask ==
    /\ ipc = "cancel"
    /\ IF running
       THEN /\ running' = FALSE
            /\ stopped' = [stopped EXCEPT ![last] = TRUE]
            /\ ipc' = "await"
       ELSE /\ ipc' = AfterCancel
            /\ UNCHANGED <<running, stopped>>
    /\ UNCHANGED <<InputKeeps, ifr, iwake, inq, procq, ptail, pc, last,
                   canceling, gateVars, waitVars, history>>

(* The wait ends with the goroutine, or with processCancelTimeout when     *)
(* ProcessFrame does not honour its context.                               *)
InputAwait ==
    /\ ipc = "await"
    /\ pc[last] = "exit" \/ ~HonorsCtx
    /\ ipc' = AfterCancel
    /\ UNCHANGED <<InputKeeps, ifr, iwake, inq, canceling, taskVars, gateVars,
                   history>>

InputCreate ==
    /\ ipc = "create"
    /\ CreateProcessTask
    /\ ipc' = "push"
    /\ UNCHANGED <<InputKeeps, ifr, iwake, inq, pendingResume, canceling,
                   systemGate, history>>

(* The urgent pause and resume frames, and system frames Base only passes. *)
InputPause ==
    /\ ipc = "dispatch"
    /\ ifr.kind = "pauseUrgent"
    /\ blockFrames' = TRUE
    /\ ipc' = "pauseClear"
    /\ UNCHANGED <<InputKeeps, ifr, iwake, inq, evSet, pendingResume,
                   canceling, taskVars, systemGate, history>>

InputPauseClear ==
    /\ ipc = "pauseClear"
    /\ evSet' = FALSE
    /\ ipc' = "push"
    /\ UNCHANGED <<InputKeeps, ifr, iwake, inq, blockFrames, pendingResume,
                   canceling, taskVars, systemGate, history>>

InputOther ==
    /\ ipc = "dispatch"
    /\ ifr.kind \in {"system", "resumeUrgent"}
    /\ pendingResume' = (pendingResume \/ ifr.kind = "resumeUrgent")
    /\ ipc' = "push"
    /\ UNCHANGED <<InputKeeps, ifr, iwake, inq, canceling, taskVars, frameGate,
                   systemGate, history>>

(* PushFrame, then the deferred applyPendingResume of processFrame.        *)
InputPush ==
    /\ ipc = "push"
    /\ out' = Append(out, ifr)
    /\ ipc' = "finish"
    /\ UNCHANGED <<InputKeeps, ifr, iwake, inq, canceling, lost, taskVars,
                   gateVars>>

InputFinish ==
    /\ ipc = "finish"
    /\ ApplyPendingResume
    /\ ipc' = "get"
    /\ ifr' = NoFrame
    /\ UNCHANGED <<InputKeeps, iwake, inq, procq, ptail, pc, orphan, canceling,
                   systemGate, history, taskCtx>>

-----------------------------------------------------------------------------
(* processLoop *)

(* Mutant of Done: a process context that does not end with baseCtx.       *)
DoneOnCancel(l) == stopped[l]

Done(l) == stopped[l] \/ baseDone

LoopTop(l) ==
    /\ pc[l] = "top"
    /\ cur' = NoFrame
    /\ pc' = [pc EXCEPT ![l] = "get"]
    /\ UNCHANGED <<LoopKeeps, procq, held, pendingResume, frameGate, waitVars,
                   history>>

(* get serves what is queued before it looks at its context.               *)
LoopGet(l) ==
    /\ pc[l] = "get"
    /\ \E x \in procq :
          /\ IsNextItem(x, procq)
          /\ procq' = procq \ {x}
          /\ held' = [held EXCEPT ![l] = x.frame]
    /\ pc' = [pc EXCEPT ![l] = "got"]
    /\ UNCHANGED <<LoopKeeps, cur, pendingResume, frameGate, waitVars,
                   history>>

LoopExit(l) ==
    /\ pc[l] = "get"
    /\ procq = {}
    /\ Done(l)
    /\ pc' = [pc EXCEPT ![l] = "exit"]
    /\ UNCHANGED <<LoopKeeps, procq, held, cur, pendingResume, frameGate,
                   waitVars, history>>

LoopSetCur(l) ==
    /\ pc[l] = "got"
    /\ cur' = held[l]
    /\ pc' = [pc EXCEPT ![l] = "check"]
    /\ UNCHANGED <<LoopKeeps, procq, held, pendingResume, frameGate, waitVars,
                   history>>

(* waitWhilePaused(ctx, false): read the gate, wait, clear, unblock.       *)
LoopCheck(l) ==
    /\ pc[l] = "check"
    /\ pc' = [pc EXCEPT ![l] = IF ~blockFrames THEN "handle"
                               ELSE IF evSet THEN "unblock" ELSE "wait"]
    /\ evSet' = (evSet /\ ~blockFrames)
    /\ released' = [released EXCEPT ![l] = FALSE]
    /\ orphan' = [orphan EXCEPT ![l] = FALSE]
    /\ UNCHANGED <<LoopKeeps, procq, held, cur, blockFrames,
                   pendingResume, history>>

LoopWake(l) ==
    /\ pc[l] = "wait"
    /\ released[l]
    /\ evSet' = (evSet /\ orphan[l])
    /\ pc' = [pc EXCEPT ![l] = "unblock"]
    /\ UNCHANGED <<LoopKeeps, procq, held, cur, blockFrames,
                   pendingResume, waitVars, history>>

(* A canceled wait ends the goroutine with the frame it took.              *)
LoopAbandon(l) ==
    /\ pc[l] = "wait"
    /\ Done(l)
    /\ lost' = lost \cup {held[l]}
    /\ pc' = [pc EXCEPT ![l] = "exit"]
    /\ UNCHANGED <<LoopKeeps, procq, held, cur, pendingResume, out, frameGate,
                   waitVars>>

LoopUnblock(l) ==
    /\ pc[l] = "unblock"
    /\ blockFrames' = FALSE
    /\ pc' = [pc EXCEPT ![l] = "handle"]
    /\ UNCHANGED <<LoopKeeps, procq, held, cur, evSet, pendingResume,
                   waitVars, history>>

(* Base.ProcessFrame: the pause and resume control frames act on the gate. *)
LoopHandle(l) ==
    /\ pc[l] = "handle"
    /\ pc' = [pc EXCEPT ![l] = IF held[l].kind = "pause" THEN "pauseClear"
                                                         ELSE "push"]
    /\ blockFrames' = (blockFrames \/ held[l].kind = "pause")
    /\ pendingResume' = (pendingResume \/ held[l].kind = "resume")
    /\ UNCHANGED <<LoopKeeps, procq, held, cur, evSet, waitVars,
                   history>>

LoopPauseClear(l) ==
    /\ pc[l] = "pauseClear"
    /\ evSet' = FALSE
    /\ pc' = [pc EXCEPT ![l] = "push"]
    /\ UNCHANGED <<LoopKeeps, procq, held, cur, blockFrames, pendingResume,
                   waitVars, history>>

LoopPush(l) ==
    /\ pc[l] = "push"
    /\ out' = Append(out, held[l])
    /\ pc' = [pc EXCEPT ![l] = "finish"]
    /\ UNCHANGED <<LoopKeeps, procq, held, cur, pendingResume, lost, frameGate,
                   waitVars>>

(* A ProcessFrame that honours its context gives up once it is canceled.   *)
LoopGiveUp(l) ==
    /\ pc[l] = "push"
    /\ Done(l)
    /\ lost' = lost \cup {held[l]}
    /\ pc' = [pc EXCEPT ![l] = "finish"]
    /\ UNCHANGED <<LoopKeeps, procq, held, cur, pendingResume, out, frameGate,
                   waitVars>>

LoopFinish(l) ==
    /\ pc[l] = "finish"
    /\ ApplyPendingResume
    /\ pc' = [pc EXCEPT ![l] = "top"]
    /\ UNCHANGED <<LoopKeeps, procq, held, orphan, cur, history>>

-----------------------------------------------------------------------------
(* Calls made on the processor by other goroutines, its own handlers       *)
(* included.  A pause sets the flag and then clears the event.             *)

Call(m) ==
    /\ m \in sc.api
    /\ ctl = "idle"
    /\ calls < sc.calls
    /\ calls' = calls + 1

CtlPause ==
    /\ Call("pause")
    /\ blockFrames' = TRUE
    /\ ctl' = "clear"
    /\ UNCHANGED <<ControlKeeps, procq, orphan, blockSystem, watcher,
                   liftVars>>

CtlPauseSystem ==
    /\ Call("pauseSystem")
    /\ blockSystem' = TRUE
    /\ ctl' = "clearSystem"
    /\ UNCHANGED <<ControlKeeps, iwake, procq, inSet, watcher, frameGate,
                   waitVars>>

CtlResume ==
    /\ Call("resume")
    /\ ResumeProcessingFrames
    /\ UNCHANGED <<ControlKeeps, ctl, iwake, procq, orphan, blockFrames,
                   watcher, systemGate>>

CtlResumeSystem ==
    /\ Call("resumeSystem")
    /\ ResumeProcessingSystemFrames
    /\ UNCHANGED <<ControlKeeps, ctl, procq, blockSystem, watcher, frameGate,
                   waitVars>>

(* BroadcastInterruption: the queue is emptied and the gate replaced while *)
(* the process goroutine is left running.                                  *)
CtlBroadcast ==
    /\ Call("broadcast")
    /\ ResetProcessTask
    /\ UNCHANGED <<ControlKeeps, ctl, iwake, watcher, systemGate>>

(* resumeProcessingAllFrames, when there is a watcher to cancel.           *)
CancelPauseWatcher ==
    /\ watcher' = "none"
    /\ IF watcher = "none"
       THEN UNCHANGED <<liftVars, blockFrames>>
       ELSE /\ ResumeProcessingSystemFrames
            /\ ResumeProcessingFrames
            /\ UNCHANGED blockFrames

(* PauseProcessingAllFramesUntil: lift the pause of an earlier watcher,    *)
(* pause system frames, pause the others, arm the watcher.                 *)
CtlUntil ==
    /\ Call("until")
    /\ CancelPauseWatcher
    /\ ctl' = "untilSystem"
    /\ UNCHANGED <<ControlKeeps, procq, orphan, blockSystem>>

CtlUntilSystem ==
    /\ ctl = "untilSystem"
    /\ blockSystem' = TRUE
    /\ ctl' = "untilClear"
    /\ UNCHANGED <<ControlKeeps, calls, iwake, procq, inSet, watcher,
                   frameGate, waitVars>>

CtlUntilFrames ==
    /\ ctl = "untilFrames"
    /\ blockFrames' = TRUE
    /\ ctl' = "untilArm"
    /\ UNCHANGED <<ControlKeeps, calls, procq, orphan, blockSystem, watcher,
                   liftVars>>

CtlUntilArm ==
    /\ ctl = "untilArm"
    /\ evSet' = FALSE
    /\ watcher' = "armed"
    /\ ctl' = "idle"
    /\ UNCHANGED <<ControlKeeps, calls, iwake, procq, blockFrames, systemGate,
                   waitVars>>

CtlClear ==
    /\ ctl = "clear"
    /\ evSet' = FALSE
    /\ ctl' = "idle"
    /\ UNCHANGED <<ControlKeeps, calls, iwake, procq, blockFrames, watcher,
                   systemGate, waitVars>>

CtlClearSystem ==
    /\ ctl \in {"clearSystem", "untilClear"}
    /\ inSet' = FALSE
    /\ ctl' = IF ctl = "untilClear" THEN "untilFrames" ELSE "idle"
    /\ UNCHANGED <<ControlKeeps, calls, iwake, procq, blockSystem, watcher,
                   frameGate, waitVars>>

(* watchUntilReady: ready returned, the timeout passed or the teardown     *)
(* began; the pause is lifted whichever it was.                            *)
WatcherFire ==
    /\ watcher = "armed"
    /\ watcher' = "fired"
    /\ ResumeProcessingSystemFrames
    /\ ResumeProcessingFrames
    /\ UNCHANGED <<ControlKeeps, blockFrames, orphan, procq, blockSystem, ctl,
                   calls>>

-----------------------------------------------------------------------------
(* Cleanup: cancelPauseWatcher, cancelProcessTask, cancelInputTask.        *)

CleanupBegin ==
    /\ sc.tears
    /\ cl = "no"
    /\ CancelPauseWatcher
    /\ cl' = "cancel"
    /\ UNCHANGED <<CleanupKeeps, stopped, running, baseDone, clLoop>>

CleanupCancelTask ==
    /\ cl = "cancel"
    /\ IF running
       THEN /\ running' = FALSE
            /\ stopped' = [stopped EXCEPT ![last] = TRUE]
            /\ clLoop' = last
            /\ cl' = "await"
       ELSE /\ cl' = "input"
            /\ UNCHANGED <<running, stopped, clLoop>>
    /\ UNCHANGED <<CleanupKeeps, watcher, baseDone, liftVars>>

CleanupAwait ==
    /\ cl = "await"
    /\ pc[clLoop] = "exit" \/ ~HonorsCtx
    /\ cl' = "input"
    /\ UNCHANGED <<CleanupKeeps, stopped, running, watcher, baseDone, clLoop,
                   liftVars>>

CleanupCancelInput ==
    /\ cl = "input"
    /\ baseDone' = TRUE
    /\ cl' = "awaitInput"
    /\ UNCHANGED <<CleanupKeeps, stopped, running, watcher, clLoop, liftVars>>

CleanupReturn ==
    /\ cl = "awaitInput"
    /\ ipc = "exit" \/ ~HonorsCtx
    /\ cl' = "done"
    /\ UNCHANGED <<CleanupKeeps, stopped, running, watcher, baseDone, clLoop,
                   liftVars>>

-----------------------------------------------------------------------------
Input ==
    \/ InputGate \/ InputGet \/ InputExit \/ InputCheck \/ InputWake
    \/ InputUnblock \/ InputForward \/ InputStart \/ InputInterrupt
    \/ InputReset \/ InputCancel \/ InputCancelTask \/ InputAwait
    \/ InputCreate \/ InputPause \/ InputPauseClear \/ InputOther
    \/ InputPush \/ InputFinish


Loop(l) ==
    \/ LoopTop(l) \/ LoopGet(l) \/ LoopExit(l) \/ LoopSetCur(l)
    \/ LoopCheck(l) \/ LoopWake(l) \/ LoopAbandon(l) \/ LoopUnblock(l)
    \/ LoopHandle(l) \/ LoopPauseClear(l) \/ LoopPush(l) \/ LoopGiveUp(l)
    \/ LoopFinish(l)


Control ==
    \/ CtlPause \/ CtlPauseSystem \/ CtlResume \/ CtlResumeSystem
    \/ CtlBroadcast \/ CtlUntil \/ CtlUntilSystem \/ CtlUntilFrames
    \/ CtlUntilArm \/ CtlClear \/ CtlClearSystem \/ WatcherFire


Cleanup ==
    \/ CleanupBegin \/ CleanupCancelTask \/ CleanupAwait
    \/ CleanupCancelInput \/ CleanupReturn


Next ==
    \/ \E k \in Kinds : QueueFrame(k)
    \/ Input
    \/ \E l \in Loops : Loop(l)
    \/ Control
    \/ Cleanup

Spec == Init /\ [][Next]_vars

(* Each goroutine keeps running, a ProcessFrame returns, the watcher's     *)
(* timeout passes and a call once begun completes.                         *)
Fairness ==
    /\ WF_vars(Input)
    /\ \A l \in Loops : WF_vars(Loop(l))
    /\ WF_vars(WatcherFire)
    /\ WF_vars(ctl # "idle" /\ Control)
    /\ WF_vars(cl # "no" /\ Cleanup)

LiveSpec == Spec /\ Fairness

-----------------------------------------------------------------------------
InputPlaces == {"gate", "get", "check", "wait", "unblock", "dispatch", "reset",
                "cancel", "await", "create", "pauseClear", "push", "finish",
                "exit"}
LoopPlaces == {"none", "top", "get", "got", "check", "wait", "unblock",
               "handle", "pauseClear", "push", "finish", "exit"}
CleanupPlaces == {"no", "cancel", "await", "input", "awaitInput", "done"}
ControlPlaces == {"idle", "clear", "clearSystem", "untilSystem", "untilClear",
                  "untilFrames", "untilArm"}

Live(l) == pc[l] \notin {"none", "exit"}

(* A process goroutine has taken a frame and not yet pushed it on.         *)
InHand(l) == pc[l] \in {"got", "check", "wait", "unblock", "handle",
                        "pauseClear", "push"}

(* The input goroutine has taken a frame and not yet passed it on.         *)
InputInHand == ipc \notin {"gate", "get", "finish", "exit"}

DataType ==
    /\ sc \in Scenarios
    /\ left \in [Kinds -> Nat] /\ arrived \in Nat
    /\ inq \subseteq Frame
    /\ ipc \in InputPlaces /\ ifr \in Frame \cup {NoFrame}
    /\ procq \subseteq Item /\ ptail \in Nat
    /\ \A x \in procq : ~IsSystem(x.frame)
    /\ pc \in [Loops -> LoopPlaces]
    /\ held \in [Loops -> Frame \cup {NoFrame}]
    /\ last \in 0..MaxLoops
    /\ cur \in Frame \cup {NoFrame}
    /\ watcher \in {"none", "armed", "fired"}
    /\ cl \in CleanupPlaces /\ clLoop \in 0..MaxLoops
    /\ ctl \in ControlPlaces /\ calls \in Nat
    /\ out \in Seq(Frame) /\ lost \subseteq Frame
    /\ InputInHand => ifr \in Frame
    /\ \A l \in Loops : InHand(l) => held[l] \in Frame

FlagType ==
    /\ startGate \in BOOLEAN /\ iwake \in BOOLEAN
    /\ running \in BOOLEAN
    /\ blockFrames \in BOOLEAN /\ evSet \in BOOLEAN
    /\ blockSystem \in BOOLEAN /\ inSet \in BOOLEAN
    /\ pendingResume \in BOOLEAN
    /\ canceling \in BOOLEAN /\ baseDone \in BOOLEAN
    /\ released \in [Loops -> BOOLEAN] /\ orphan \in [Loops -> BOOLEAN]
    /\ stopped \in [Loops -> BOOLEAN]

(* Every variable of the processor keeps its type: a goroutine past get    *)
(* holds a real frame, and the process queue holds no system frame.        *)
TypeOK == DataType /\ FlagType

(* queue.go: "a frame queue with a single consumer".  However              *)
(* interruptions, cancels and restarts of the process goroutine fall, at   *)
(* most one instance of processLoop is alive until Cleanup begins.         *)
SingleConsumer ==
    cl = "no" => \A l, m \in Loops : Live(l) /\ Live(m) => l = m

(* Data and control frames leave in the order they were queued in, each    *)
(* at most once, across every restart of the process goroutine.            *)
InOrder ==
    cl = "no" =>
        \A i, j \in 1..Len(out) :
            /\ i < j
            /\ ~IsSystem(out[i])
            /\ ~IsSystem(out[j])
            => out[i].id < out[j].id

(* QueueFrame: "a processor never acts on a frame before it has been       *)
(* started", whatever was queued ahead of the StartFrame.                  *)
StartFirst == out # <<>> => out[1].kind = "start"

(* Once a processor passes an InterruptionFrame on, no interruptible frame *)
(* queued before it is waiting or being handled.                           *)
Flushed ==
    cl = "no" /\ ipc = "push" /\ ifr.kind = "interruption" =>
        /\ \A x \in procq : Uninterruptible(x.frame)
        /\ \A l \in Loops : InHand(l) => Uninterruptible(held[l])

NoUninterruptible == sc.budget["unint"] = 0

(* startInterruption: an interruption passed on leaves nothing it should   *)
(* have dropped, where no uninterruptible frame makes it spare the process *)
(* goroutine.                                                              *)
InterruptionFlushes == NoUninterruptible => Flushed

FramesSomewhere ==
    inq \cup {x.frame : x \in procq} \cup lost
        \cup {out[i] : i \in 1..Len(out)}
        \cup {held[l] : l \in {m \in Loops : InHand(m)}}
        \cup (IF InputInHand THEN {ifr} ELSE {})

(* A system or uninterruptible frame is never dropped by a flush: every    *)
(* one queued is still queued, in hand, pushed on, or was given up by a    *)
(* canceled ProcessFrame.                                                  *)
NothingVanishes == ~canceling => queued \subseteq FramesSomewhere

(* pause.go: frames held by PauseProcessingAllFramesUntil "wait in the     *)
(* processor's queues and are handled in order once the condition          *)
(* resolves", and "the pause is therefore always lifted": a started        *)
(* processor ends with both of its queues drained, unless it is canceled   *)
(* or torn down.                                                           *)
Drained ==
    startGate /\ ~canceling /\ cl = "no" =>
        /\ inq = {} /\ procq = {}
        /\ ipc \in {"get", "exit"}
        /\ \A l \in Loops : pc[l] \in {"none", "get", "exit"}

Drains == <>[]Drained

(* Cleanup "stops the process and input goroutines": once it is called it  *)
(* returns, and every goroutine of the processor ends, one started by an   *)
(* interruption racing it included.                                        *)
CleanedUp == cl = "done" /\ ipc = "exit" /\ \A l \in Loops : ~Live(l)

CleanupEnds == cl = "cancel" ~> CleanedUp

(* resetProcessTask: "a pause that was in effect must not survive the      *)
(* interruption that cleared everything behind it".                        *)
PauseEndsAtInterruption ==
    \A l \in Loops : (pc[l] = "wait" /\ orphan[l]) ~> (pc[l] # "wait")
==============================================================================
