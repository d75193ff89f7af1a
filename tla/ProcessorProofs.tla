-------------------------- MODULE ProcessorProofs ---------------------------
(***************************************************************************)
(* What a processor promises, in every scenario and for every number of    *)
(* restarts and calls.  The process queue has one consumer, and no flush   *)
(* drops a frame it may not drop; frames keep the order in which they      *)
(* arrived, and the StartFrame comes first; an interruption leaves nothing *)
(* behind it where no frame is uninterruptible.                            *)
(***************************************************************************)
EXTENDS Processor, TLAPS

-----------------------------------------------------------------------------
(* What the goroutines do to the frames and the goroutines of the          *)
(* processor.                                                              *)

(* The steps in which the input goroutine keeps the frame it has taken,    *)
(* and leaves the process goroutines alone.                                *)
InputMoves ==
    \/ InputCheck \/ InputWake \/ InputUnblock \/ InputInterrupt \/ InputCancel
    \/ InputCancelTask \/ InputAwait \/ InputPause \/ InputPauseClear \/ InputOther

\* They leave the frames and the process goroutines as they are.
LEMMA InputMoved ==
  ASSUME InputMoves
  PROVE  /\ UNCHANGED <<sc, left, arrived, queued, inq, startGate, ifr, procq, ptail, pc,
                        held, last, cur, cl, out, lost>>
         /\ InputInHand /\ InputInHand' /\ (canceling => canceling')
<1> USE DEF InputKeeps, taskVars, procVars, taskCtx, history
<1>1. CASE InputCheck \/ InputWake \/ InputUnblock
  <2>1. /\ UNCHANGED <<sc, left, arrived, queued, inq, startGate, ifr, procq, ptail, pc,
                       held, last, cur, cl, out, lost, canceling>>
        /\ ipc \in {"check", "wait", "unblock"} /\ ipc' \in {"dispatch", "unblock", "wait"}
    BY <1>1, Zenon DEF InputCheck, InputWake, InputUnblock
  <2> QED
    BY <2>1, Zenon DEF InputInHand
<1>2. CASE InputInterrupt \/ InputCancel
  <2>1. /\ UNCHANGED <<sc, left, arrived, queued, inq, startGate, ifr, procq, ptail, pc,
                       held, last, cur, cl, out, lost>>
        /\ ipc = "dispatch" /\ ipc' \in {"reset", "cancel"} /\ (canceling => canceling')
    BY <1>2 DEF InputInterrupt, InputCancel
  <2> QED
    BY <2>1, Zenon DEF InputInHand
<1>3. CASE InputCancelTask
  <2>1. /\ UNCHANGED <<sc, left, arrived, queued, inq, startGate, ifr, procq, ptail, pc,
                       held, last, cur, cl, out, lost, canceling>>
        /\ ipc = "cancel" /\ ipc' \in {"await", "create", "push"}
    BY <1>3, Zenon DEF InputCancelTask, AfterCancel
  <2> QED
    BY <2>1, Zenon DEF InputInHand
<1>4. CASE InputAwait
  <2>1. /\ UNCHANGED <<sc, left, arrived, queued, inq, startGate, ifr, procq, ptail, pc,
                       held, last, cur, cl, out, lost, canceling>>
        /\ ipc = "await" /\ ipc' \in {"create", "push"}
    BY <1>4, Zenon DEF InputAwait, AfterCancel
  <2> QED
    BY <2>1, Zenon DEF InputInHand
<1>5. CASE InputPause \/ InputPauseClear \/ InputOther
  <2>1. /\ UNCHANGED <<sc, left, arrived, queued, inq, startGate, ifr, procq, ptail, pc,
                       held, last, cur, cl, out, lost, canceling>>
        /\ ipc \in {"dispatch", "pauseClear"} /\ ipc' \in {"pauseClear", "push"}
    BY <1>5, Zenon DEF InputPause, InputPauseClear, InputOther
  <2> QED
    BY <2>1, Zenon DEF InputInHand
<1> QED
  BY <1>1, <1>2, <1>3, <1>4, <1>5, Zenon DEF InputMoves

(* createProcessTask can only empty the queue, and its goroutine starts    *)
(* with nothing in hand.                                                   *)
LEMMA CreateEffect ==
  ASSUME DataType, CreateProcessTask
  PROVE  /\ UNCHANGED ptail
         /\ procq' = procq \/ procq' = Reset(procq)
         /\ \A l \in Loops : pc'[l] = pc[l] \/ (pc'[l] = "top" /\ l = last + 1)
         /\ \A l \in Loops : InHand(l)' => InHand(l)
<1>1. UNCHANGED ptail /\ (procq' = procq \/ procq' = Reset(procq))
  BY Zenon DEF CreateProcessTask, ResetProcessTask, taskVars, procVars
<1>2. pc' = pc \/ pc' = [pc EXCEPT ![last + 1] = "top"]
  BY Zenon DEF CreateProcessTask, taskVars
<1>3. \A l \in Loops : pc'[l] = pc[l] \/ (pc'[l] = "top" /\ l = last + 1)
  BY <1>2, Zenon DEF DataType
<1> QED
  BY <1>1, <1>3, Zenon DEF InHand

(* The steps in which a process goroutine keeps the frame it has, or has   *)
(* none.                                                                   *)
LoopMoves(l) ==
    \/ LoopTop(l) \/ LoopExit(l) \/ LoopSetCur(l) \/ LoopCheck(l) \/ LoopWake(l)
    \/ LoopUnblock(l) \/ LoopHandle(l) \/ LoopPauseClear(l) \/ LoopFinish(l)

(* What such a step does.                                                  *)
LEMMA LoopMoved ==
  ASSUME NEW l \in Loops, LoopMoves(l), pc \in [Loops -> LoopPlaces]
  PROVE  /\ UNCHANGED <<LoopKeeps, procq, held, out, lost>>
         /\ \E p \in LoopPlaces : pc' = [pc EXCEPT ![l] = p]
         /\ Live(l) /\ \A m \in Loops : InHand(m)' <=> InHand(m)
<1>1. UNCHANGED <<LoopKeeps, procq, held, out, lost>>
  BY Zenon DEF LoopMoves, LoopTop, LoopExit, LoopSetCur, LoopCheck, LoopWake, LoopUnblock,
               LoopHandle, LoopPauseClear, LoopFinish, history
<1>2. \E p \in LoopPlaces :
         /\ pc' = [pc EXCEPT ![l] = p] /\ Live(l)
         /\ p \in {"got", "check", "wait", "unblock", "handle", "pauseClear", "push"} <=> InHand(l)
  <2>1. CASE LoopTop(l) \/ LoopExit(l) \/ LoopFinish(l)
    <3>1. /\ pc[l] \in {"top", "get", "finish"}
          /\ \E p \in {"top", "get", "exit"} : pc' = [pc EXCEPT ![l] = p]
      BY <2>1, Zenon DEF LoopTop, LoopExit, LoopFinish
    <3> QED
      BY <3>1, Zenon DEF InHand, Live, LoopPlaces
  <2>2. CASE LoopSetCur(l) \/ LoopWake(l) \/ LoopUnblock(l) \/ LoopPauseClear(l)
    <3>1. /\ pc[l] \in {"got", "wait", "unblock", "pauseClear"}
          /\ \E p \in {"check", "unblock", "handle", "push"} : pc' = [pc EXCEPT ![l] = p]
      BY <2>2, Zenon DEF LoopSetCur, LoopWake, LoopUnblock, LoopPauseClear
    <3> QED
      BY <3>1, Zenon DEF InHand, Live, LoopPlaces
  <2>3. CASE LoopCheck(l)
    <3>1. /\ pc[l] = "check"
          /\ \E p \in {"handle", "unblock", "wait"} : pc' = [pc EXCEPT ![l] = p]
      BY <2>3, Zenon DEF LoopCheck
    <3> QED
      BY <3>1, Zenon DEF InHand, Live, LoopPlaces
  <2>4. CASE LoopHandle(l)
    <3>1. /\ pc[l] = "handle"
          /\ \E p \in {"pauseClear", "push"} : pc' = [pc EXCEPT ![l] = p]
      BY <2>4, Zenon DEF LoopHandle
    <3> QED
      BY <3>1, Zenon DEF InHand, Live, LoopPlaces
  <2> QED
    BY <2>1, <2>2, <2>3, <2>4, Zenon DEF LoopMoves
<1> QED
  BY <1>1, <1>2, Zenon DEF InHand

(* A step of a process goroutine.                                          *)
LEMMA LoopEffect ==
  ASSUME NEW l \in Loops, Loop(l), pc \in [Loops -> LoopPlaces]
  PROVE  /\ UNCHANGED <<sc, left, arrived, queued, inq, startGate, ipc, ifr, ptail, last,
                        running, canceling, cl>>
         /\ \A m \in Loops : m # l => pc'[m] = pc[m]
         /\ Live(l)
         /\ LoopGet(l) \/ (UNCHANGED <<procq, held>> /\ \A m \in Loops : InHand(m)' => InHand(m))
         /\ LoopPush(l) \/ UNCHANGED out
         /\ \/ LoopGet(l) \/ LoopPush(l) \/ LoopAbandon(l) \/ LoopGiveUp(l)
            \/ UNCHANGED lost /\ \A m \in Loops : InHand(m)' <=> InHand(m)
<1>1. CASE LoopMoves(l)
  BY <1>1, LoopMoved, Zenon DEF LoopKeeps, taskCtx
<1>2. CASE LoopGet(l)
  <2>1. /\ UNCHANGED <<LoopKeeps, out>> /\ pc[l] = "get"
        /\ pc' = [pc EXCEPT ![l] = "got"]
    BY <1>2, Zenon DEF LoopGet, history
  <2> QED
    BY <1>2, <2>1, Zenon DEF LoopKeeps, taskCtx, Live
<1>3. CASE LoopPush(l) \/ LoopAbandon(l) \/ LoopGiveUp(l)
  <2>1. /\ UNCHANGED <<LoopKeeps, procq, held>> /\ pc[l] \in {"push", "wait"}
        /\ pc' = [pc EXCEPT ![l] = "finish"] \/ pc' = [pc EXCEPT ![l] = "exit"]
        /\ LoopPush(l) \/ UNCHANGED out
    BY <1>3, Zenon DEF LoopPush, LoopAbandon, LoopGiveUp
  <2>2. \A m \in Loops : InHand(m)' => InHand(m)
    BY <2>1, Zenon DEF InHand
  <2> QED
    BY <1>3, <2>1, <2>2, Zenon DEF LoopKeeps, taskCtx, Live
<1> QED
  BY <1>1, <1>2, <1>3, Zenon DEF Loop, LoopMoves

(* The callers of the pause API touch no frame, but BroadcastInterruption  *)
(* flushes the process queue.                                              *)
LEMMA ControlEffect ==
  ASSUME Control
  PROVE  /\ UNCHANGED <<sc, left, arrived, queued, inq, startGate, ipc, ifr, ptail, pc, held,
                        last, running, cur, canceling, cl, clLoop, out, lost>>
         /\ procq' = procq \/ procq' = Reset(procq)
<1>1. UNCHANGED ControlKeeps
  BY Zenon DEF Control, CtlPause, CtlPauseSystem, CtlResume, CtlResumeSystem, CtlBroadcast, CtlUntil,
         CtlUntilSystem, CtlUntilFrames, CtlUntilArm, CtlClear, CtlClearSystem, WatcherFire
<1>2. UNCHANGED procq \/ CtlBroadcast
  BY Zenon DEF Control, CtlPause, CtlPauseSystem, CtlResume, CtlResumeSystem, CtlUntil,
         CtlUntilSystem, CtlUntilFrames, CtlUntilArm, CtlClear, CtlClearSystem, WatcherFire
<1>3. CtlBroadcast => procq' = Reset(procq)
  BY Zenon DEF CtlBroadcast, ResetProcessTask
<1> QED
  BY <1>1, <1>2, <1>3, Zenon DEF ControlKeeps, taskCtx, history

(* Cleanup touches no frame.                                               *)
LEMMA CleanupEffect ==
  ASSUME Cleanup
  PROVE  /\ UNCHANGED <<sc, left, arrived, queued, inq, startGate, ipc, ifr, procq, ptail, pc,
                        held, last, cur, canceling, ctl, calls, out, lost>>
         /\ cl' # "no"
BY Zenon DEF Cleanup, CleanupBegin, CleanupCancelTask, CleanupAwait, CleanupCancelInput,
       CleanupReturn, CleanupKeeps, procVars, history

-----------------------------------------------------------------------------
(* Types.                                                                  *)

(* createProcessTask keeps the type of what it sets: the instances, the    *)
(* newest of them, and the process queue.                                  *)
LEMMA CreateKeepsTypes ==
  ASSUME DataType, CreateProcessTask
  PROVE  /\ pc' \in [Loops -> LoopPlaces] /\ last' \in 0..MaxLoops
         /\ procq' \subseteq procq /\ ptail' = ptail
         /\ \A l \in Loops : InHand(l)' => InHand(l)
<1>1. CASE running
     BY <1>1, Zenon DEF CreateProcessTask, taskVars, procVars, taskCtx, DataType,
        InHand
<1>2. CASE ~running
  <2>1. /\ last < MaxLoops /\ last' = last + 1
        /\ pc' = [pc EXCEPT ![last + 1] = "top"]
        /\ procq' \subseteq procq /\ ptail' = ptail
     BY <1>2, Zenon DEF CreateProcessTask, ResetProcessTask, Reset
  <2>2. last' \in 0..MaxLoops
     BY <2>1, BoundsAssumption DEF DataType
  <2>3. pc' \in [Loops -> LoopPlaces]
     BY <2>1, ZenonT(30) DEF DataType, LoopPlaces
  <2>4. \A l \in Loops : InHand(l)' => InHand(l)
     BY <2>1, Zenon DEF DataType, InHand
  <2> QED
     BY <2>1, <2>2, <2>3, <2>4, Zenon
<1> QED
     BY <1>1, <1>2, Zenon

(* A step of the input goroutine keeps the type of the data: the queues,   *)
(* the frames in hand, the places of the goroutines.                       *)
LEMMA DataTypeInput ==
  ASSUME DataType, Input
  PROVE  DataType' /\ sc' = sc
<1> USE BoundsAssumption DEF DataType, InputPlaces, LoopPlaces, CleanupPlaces,
      ControlPlaces, InputInHand, InHand, InputKeeps, procVars, waitVars,
      taskCtx, taskVars, frameGate, systemGate, gateVars, liftVars, history
<1>1. CASE InputGate
     BY <1>1 DEF InputGate
<1>2. CASE InputGet
     BY <1>2, Zenon DEF InputGet, IsNextIn
<1>3. CASE InputExit
     BY <1>3 DEF InputExit
<1>4. CASE InputCheck
     BY <1>4, Zenon DEF InputCheck
<1>5. CASE InputWake
     BY <1>5 DEF InputWake
<1>6. CASE InputUnblock
     BY <1>6, Zenon DEF InputUnblock
<1>7. CASE InputForward
     BY <1>7 DEF InputForward, Item
<1>8. CASE InputStart
     BY <1>8, CreateKeepsTypes DEF InputStart
<1>9. CASE InputInterrupt
     BY <1>9, Zenon DEF InputInterrupt
<1>10. CASE InputReset
     BY <1>10 DEF InputReset, Reset
<1>11. CASE InputCancel
     BY <1>11 DEF InputCancel
<1>12. CASE InputCancelTask
     BY <1>12 DEF InputCancelTask, AfterCancel
<1>13. CASE InputAwait
     BY <1>13 DEF InputAwait, AfterCancel
<1>14. CASE InputCreate
     BY <1>14, CreateKeepsTypes DEF InputCreate
<1>15. CASE InputPause
     BY <1>15 DEF InputPause
<1>16. CASE InputPauseClear
     BY <1>16, Zenon DEF InputPauseClear
<1>17. CASE InputOther
     BY <1>17, Zenon DEF InputOther
<1>18. CASE InputPush
     BY <1>18 DEF InputPush
<1>19. CASE InputFinish
     BY <1>19, Zenon DEF InputFinish, ApplyPendingResume, ResumeProcessingFrames
<1> HIDE DEF DataType, InputPlaces, LoopPlaces, CleanupPlaces, ControlPlaces,
      InputInHand, InHand, InputKeeps, procVars, waitVars, taskCtx, taskVars,
      frameGate, systemGate, gateVars, liftVars, history
<1>20. QED
     BY <1>1, <1>2, <1>3, <1>4, <1>5, <1>6, <1>7, <1>8, <1>9, <1>10, <1>11,
        <1>12, <1>13, <1>14, <1>15, <1>16, <1>17, <1>18, <1>19, Zenon DEF Input

(* A step of a process goroutine keeps the type of the data.               *)
LEMMA DataTypeLoop ==
  ASSUME DataType, NEW l \in Loops, Loop(l)
  PROVE  DataType' /\ sc' = sc
<1> USE BoundsAssumption DEF DataType, InputPlaces, LoopPlaces, CleanupPlaces,
      ControlPlaces, InputInHand, InHand, LoopKeeps, procVars, waitVars,
      taskCtx, taskVars, frameGate, systemGate, gateVars, liftVars, history
<1>1. CASE LoopTop(l)
     BY <1>1 DEF LoopTop
<1>2. CASE LoopGet(l)
     BY <1>2 DEF LoopGet, IsNextItem, Item
<1>3. CASE LoopExit(l)
     BY <1>3 DEF LoopExit, Done
<1>4. CASE LoopSetCur(l)
     BY <1>4 DEF LoopSetCur
<1>5. CASE LoopCheck(l)
     BY <1>5 DEF LoopCheck
<1>6. CASE LoopWake(l)
     BY <1>6 DEF LoopWake
<1>7. CASE LoopAbandon(l)
     BY <1>7 DEF LoopAbandon, Done
<1>8. CASE LoopUnblock(l)
     BY <1>8 DEF LoopUnblock
<1>9. CASE LoopHandle(l)
     BY <1>9 DEF LoopHandle
<1>10. CASE LoopPauseClear(l)
     BY <1>10 DEF LoopPauseClear
<1>11. CASE LoopPush(l)
     BY <1>11 DEF LoopPush
<1>12. CASE LoopGiveUp(l)
     BY <1>12 DEF LoopGiveUp, Done
<1>13. CASE LoopFinish(l)
     BY <1>13 DEF LoopFinish, ApplyPendingResume, ResumeProcessingFrames
<1> HIDE DEF DataType, InputPlaces, LoopPlaces, CleanupPlaces, ControlPlaces,
      InputInHand, InHand, LoopKeeps, procVars, waitVars, taskCtx, taskVars,
      frameGate, systemGate, gateVars, liftVars, history
<1>14. QED
     BY <1>1, <1>2, <1>3, <1>4, <1>5, <1>6, <1>7, <1>8, <1>9, <1>10, <1>11,
        <1>12, <1>13, Zenon DEF Loop

(* A pause or resume call, BroadcastInterruption and the pause watcher     *)
(* keep the type of the data.                                              *)
LEMMA DataTypeControl ==
  ASSUME DataType, Control
  PROVE  DataType' /\ sc' = sc
<1>1. /\ UNCHANGED <<sc, left, arrived, inq, ipc, ifr, ptail, pc, held, last, cur, cl, clLoop, out,
                     lost>>
      /\ procq' \subseteq procq
  BY ControlEffect, Zenon DEF Reset
<1>2. ctl' \in ControlPlaces /\ calls' \in Nat /\ watcher' \in {"none", "armed", "fired"}
  <2> USE DEF DataType, ControlPlaces, Call
  <2>1. CASE CtlPause \/ CtlPauseSystem \/ CtlResume \/ CtlResumeSystem \/ CtlBroadcast
    BY <2>1 DEF CtlPause, CtlPauseSystem, CtlResume, CtlResumeSystem, CtlBroadcast
  <2>2. CASE CtlUntil \/ CtlUntilSystem \/ CtlUntilFrames \/ CtlUntilArm
    BY <2>2 DEF CtlUntil, CtlUntilSystem, CtlUntilFrames, CtlUntilArm, CancelPauseWatcher
  <2>3. CASE CtlClear \/ CtlClearSystem \/ WatcherFire
    BY <2>3, Zenon DEF CtlClear, CtlClearSystem, WatcherFire
  <2> QED
    BY <2>1, <2>2, <2>3, Zenon DEF Control
<1> QED
  BY <1>1, <1>2, Zenon DEF DataType, InputInHand, InHand

(* Cleanup keeps the type of the data.                                     *)
LEMMA DataTypeCleanup ==
  ASSUME DataType, Cleanup
  PROVE  DataType' /\ sc' = sc
<1>1. UNCHANGED <<sc, left, arrived, inq, ipc, ifr, procq, ptail, pc, held, last, cur, ctl, calls,
                  out, lost>>
  BY CleanupEffect, Zenon
<1>2. /\ cl' \in CleanupPlaces /\ clLoop' \in 0..MaxLoops
      /\ watcher' \in {"none", "armed", "fired"}
  BY Zenon DEF DataType, CleanupPlaces, Cleanup, CleanupBegin, CleanupCancelTask, CleanupAwait,
         CleanupCancelInput, CleanupReturn, CancelPauseWatcher
<1> QED
  BY <1>1, <1>2, Zenon DEF DataType, InputInHand, InHand

(* A step of the input goroutine keeps the flags Boolean.                  *)
LEMMA FlagTypeInput ==
  ASSUME FlagType, Input
  PROVE  FlagType'
<1> USE DEF FlagType, InputKeeps, procVars, waitVars, taskCtx, taskVars,
      frameGate, systemGate, gateVars, liftVars, history
<1>1. CASE InputGate
     BY <1>1, ZenonT(30) DEF InputGate
<1>2. CASE InputGet
     BY <1>2, ZenonT(30) DEF InputGet, IsNextIn
<1>3. CASE InputExit
     BY <1>3, ZenonT(30) DEF InputExit
<1>4. CASE InputCheck
     BY <1>4, ZenonT(30) DEF InputCheck
<1>5. CASE InputWake
     BY <1>5, ZenonT(30) DEF InputWake
<1>6. CASE InputUnblock
     BY <1>6, ZenonT(30) DEF InputUnblock
<1>7. CASE InputForward
     BY <1>7, ZenonT(30) DEF InputForward, Item
<1>8. CASE InputStart
     BY <1>8, ZenonT(30) DEF InputStart, CreateProcessTask, ResetProcessTask,
        Reset, Loops
<1>9. CASE InputInterrupt
     BY <1>9, ZenonT(30) DEF InputInterrupt
<1>10. CASE InputReset
     BY <1>10, ZenonT(30) DEF InputReset, Reset
<1>11. CASE InputCancel
     BY <1>11, ZenonT(30) DEF InputCancel
<1>12. CASE InputCancelTask
     BY <1>12, ZenonT(30) DEF InputCancelTask, AfterCancel
<1>13. CASE InputAwait
     BY <1>13, ZenonT(30) DEF InputAwait, AfterCancel
<1>14. CASE InputCreate
     BY <1>14, ZenonT(30) DEF InputCreate, CreateProcessTask, ResetProcessTask,
        Reset, Loops
<1>15. CASE InputPause
     BY <1>15, ZenonT(30) DEF InputPause
<1>16. CASE InputPauseClear
     BY <1>16, ZenonT(30) DEF InputPauseClear
<1>17. CASE InputOther
     BY <1>17, ZenonT(30) DEF InputOther
<1>18. CASE InputPush
     BY <1>18, ZenonT(30) DEF InputPush
<1>19. CASE InputFinish
     BY <1>19, ZenonT(30) DEF InputFinish, ApplyPendingResume,
        ResumeProcessingFrames
<1> HIDE DEF FlagType, InputKeeps, procVars, waitVars, taskCtx, taskVars,
      frameGate, systemGate, gateVars, liftVars, history
<1>20. QED
     BY <1>1, <1>2, <1>3, <1>4, <1>5, <1>6, <1>7, <1>8, <1>9, <1>10, <1>11,
        <1>12, <1>13, <1>14, <1>15, <1>16, <1>17, <1>18, <1>19, Zenon DEF Input

(* A step of a process goroutine keeps the flags Boolean.                  *)
LEMMA FlagTypeLoop ==
  ASSUME FlagType, NEW l \in Loops, Loop(l)
  PROVE  FlagType'
<1> USE DEF FlagType, LoopKeeps, procVars, waitVars, taskCtx, taskVars,
      frameGate, systemGate, gateVars, liftVars, history
<1>1. CASE LoopTop(l)
     BY <1>1, ZenonT(30) DEF LoopTop
<1>2. CASE LoopGet(l)
     BY <1>2, ZenonT(30) DEF LoopGet, IsNextItem, Item
<1>3. CASE LoopExit(l)
     BY <1>3, ZenonT(30) DEF LoopExit, Done
<1>4. CASE LoopSetCur(l)
     BY <1>4, ZenonT(30) DEF LoopSetCur
<1>5. CASE LoopCheck(l)
     BY <1>5, ZenonT(30) DEF LoopCheck
<1>6. CASE LoopWake(l)
     BY <1>6, ZenonT(30) DEF LoopWake
<1>7. CASE LoopAbandon(l)
     BY <1>7, ZenonT(30) DEF LoopAbandon, Done
<1>8. CASE LoopUnblock(l)
     BY <1>8, ZenonT(30) DEF LoopUnblock
<1>9. CASE LoopHandle(l)
     BY <1>9, ZenonT(30) DEF LoopHandle
<1>10. CASE LoopPauseClear(l)
     BY <1>10, ZenonT(30) DEF LoopPauseClear
<1>11. CASE LoopPush(l)
     BY <1>11, ZenonT(30) DEF LoopPush
<1>12. CASE LoopGiveUp(l)
     BY <1>12, ZenonT(30) DEF LoopGiveUp, Done
<1>13. CASE LoopFinish(l)
     BY <1>13, ZenonT(30) DEF LoopFinish, ApplyPendingResume,
        ResumeProcessingFrames
<1> HIDE DEF FlagType, LoopKeeps, procVars, waitVars, taskCtx, taskVars,
      frameGate, systemGate, gateVars, liftVars, history
<1>14. QED
     BY <1>1, <1>2, <1>3, <1>4, <1>5, <1>6, <1>7, <1>8, <1>9, <1>10, <1>11,
        <1>12, <1>13, Zenon DEF Loop

(* The pause and resume calls keep the flags Boolean.                      *)
LEMMA FlagTypeControl ==
  ASSUME FlagType, Control
  PROVE  FlagType'
<1> USE DEF FlagType, ControlKeeps, procVars, waitVars, taskCtx, taskVars,
      frameGate, systemGate, gateVars, liftVars, history
<1>1. CASE CtlPause
     BY <1>1, ZenonT(30) DEF CtlPause, Call
<1>2. CASE CtlPauseSystem
     BY <1>2, ZenonT(30) DEF CtlPauseSystem, Call
<1>3. CASE CtlResume
     BY <1>3, ZenonT(30) DEF CtlResume, Call,
        ResumeProcessingFrames
<1>4. CASE CtlResumeSystem
     BY <1>4, ZenonT(30) DEF CtlResumeSystem, Call,
        ResumeProcessingSystemFrames
<1>5. CASE CtlBroadcast
     BY <1>5, ZenonT(30) DEF CtlBroadcast, Call, ResetProcessTask, Reset
<1>6. CASE CtlUntil
     BY <1>6, ZenonT(30) DEF CtlUntil, Call, CancelPauseWatcher,
        ResumeProcessingFrames, ResumeProcessingSystemFrames
<1>7. CASE CtlUntilSystem
     BY <1>7, ZenonT(30) DEF CtlUntilSystem
<1>8. CASE CtlUntilFrames
     BY <1>8, ZenonT(30) DEF CtlUntilFrames
<1>9. CASE CtlUntilArm
     BY <1>9, ZenonT(30) DEF CtlUntilArm
<1>10. CASE CtlClear
     BY <1>10, ZenonT(30) DEF CtlClear
<1>11. CASE CtlClearSystem
     BY <1>11, ZenonT(30) DEF CtlClearSystem
<1>12. CASE WatcherFire
     BY <1>12, ZenonT(30) DEF WatcherFire, ResumeProcessingFrames,
        ResumeProcessingSystemFrames
<1> HIDE DEF FlagType, ControlKeeps, procVars, waitVars, taskCtx, taskVars,
      frameGate, systemGate, gateVars, liftVars, history
<1>13. QED
     BY <1>1, <1>2, <1>3, <1>4, <1>5, <1>6, <1>7, <1>8, <1>9, <1>10, <1>11,
        <1>12, Zenon DEF Control

(* Cleanup keeps the flags Boolean.                                        *)
LEMMA FlagTypeCleanup ==
  ASSUME FlagType, Cleanup
  PROVE  FlagType'
<1> USE DEF FlagType, CleanupKeeps, procVars, waitVars, taskCtx, taskVars,
      frameGate, systemGate, gateVars, liftVars, history
<1>1. CASE CleanupBegin
     BY <1>1, ZenonT(30) DEF CleanupBegin, CancelPauseWatcher,
        ResumeProcessingFrames, ResumeProcessingSystemFrames
<1>2. CASE CleanupCancelTask
     BY <1>2, ZenonT(30) DEF CleanupCancelTask
<1>3. CASE CleanupAwait
     BY <1>3, ZenonT(30) DEF CleanupAwait
<1>4. CASE CleanupCancelInput
     BY <1>4, ZenonT(30) DEF CleanupCancelInput
<1>5. CASE CleanupReturn
     BY <1>5, ZenonT(30) DEF CleanupReturn
<1> HIDE DEF FlagType, CleanupKeeps, procVars, waitVars, taskCtx, taskVars,
      frameGate, systemGate, gateVars, liftVars, history
<1>6. QED
     BY <1>1, <1>2, <1>3, <1>4, <1>5, Zenon DEF Cleanup

(* Setup leaves every variable of its type.                                *)
LEMMA TypeInit == Init => TypeOK
<1> SUFFICES ASSUME Init PROVE TypeOK
  OBVIOUS
<1>1. sc \in Scenarios /\ left \in [Kinds -> Nat]
  BY ScenarioAssumption, Zenon DEF Init, Scenario
<1>2. DataType
  BY <1>1, BoundsAssumption
     DEF Init, DataType, InputPlaces, LoopPlaces, CleanupPlaces, ControlPlaces,
         InputInHand, InHand, Loops
<1>3. FlagType
  BY ZenonT(30) DEF Init, FlagType
<1> QED
  BY <1>2, <1>3, Zenon DEF TypeOK

(* Every step of the processor keeps every variable of its type.           *)
LEMMA TypeStep == TypeOK /\ [Next]_vars => TypeOK'
<1> SUFFICES ASSUME TypeOK, [Next]_vars PROVE TypeOK'
  OBVIOUS
<1> USE DEF TypeOK
<1>1. ASSUME NEW k \in Kinds, QueueFrame(k) PROVE TypeOK'
  <2> USE DEF taskVars, procVars, waitVars, taskCtx, gateVars, frameGate,
              systemGate, history
  <2>1. DataType'
    <3>1. left' \in [Kinds -> Nat] /\ arrived' \in Nat
      BY <1>1 DEF QueueFrame, DataType
    <3>2. inq' \subseteq Frame
      BY <1>1 DEF QueueFrame, DataType, Frame
    <3>3. UNCHANGED <<sc, ipc, ifr, procq, ptail, pc, held, last, cur, watcher,
                      cl, clLoop, ctl, calls, out, lost>>
      BY <1>1, Zenon DEF QueueFrame
    <3> QED
      BY <3>1, <3>2, <3>3, Zenon DEF DataType, InputInHand, InHand
  <2>2. FlagType'
    <3>1. startGate' \in BOOLEAN
      <4>1. CASE canceling
        BY <1>1, <4>1, ZenonT(30) DEF QueueFrame, FlagType
      <4>2. CASE ~canceling
        <5>1. startGate' = (startGate \/ k = "start")
          BY <1>1, <4>2, Zenon DEF QueueFrame
        <5> QED
          BY <5>1, ZenonT(30)
      <4> QED
        BY <4>1, <4>2, Zenon
    <3>2. /\ UNCHANGED <<iwake, running, blockFrames, evSet>>
          /\ UNCHANGED <<blockSystem, inSet, pendingResume, canceling>>
          /\ UNCHANGED <<baseDone, released, orphan, stopped>>
      BY <1>1, Zenon DEF QueueFrame
    <3> QED
      BY <3>1, <3>2, ZenonT(30) DEF FlagType
  <2> QED
    BY <2>1, <2>2, Zenon
<1>2. CASE Input
  BY <1>2, DataTypeInput, FlagTypeInput, Zenon
<1>3. ASSUME NEW l \in Loops, Loop(l) PROVE TypeOK'
  BY <1>3, DataTypeLoop, FlagTypeLoop, Zenon
<1>4. CASE Control
  BY <1>4, DataTypeControl, FlagTypeControl, Zenon
<1>5. CASE Cleanup
  BY <1>5, DataTypeCleanup, FlagTypeCleanup, Zenon
<1>6. CASE UNCHANGED vars
  <2>1. DataType'
    BY <1>6, Zenon DEF vars, DataType, InputInHand, InHand, IsSystem
  <2>2. FlagType'
    BY <1>6, ZenonT(30) DEF vars, FlagType
  <2> QED
    BY <2>1, <2>2, Zenon
<1> QED
  BY <1>1, <1>2, <1>3, <1>4, <1>5, <1>6, Zenon DEF Next

(* Every variable of processor.Base keeps its type in every reachable      *)
(* state: a goroutine past queue.get holds a frame, and the process queue  *)
(* holds no system frame.                                                  *)
THEOREM TypeCorrect == Spec => []TypeOK
<1>1. Init => TypeOK
  BY TypeInit, Zenon
<1>2. TypeOK /\ [Next]_vars => TypeOK'
  BY TypeStep, Zenon
<1> QED
  BY <1>1, <1>2, PTL DEF Spec

(* The process goroutines: the ones before the newest have ended, the      *)
(* newest is alive only while it runs or is waited for.                    *)
TaskInv ==
    cl = "no" =>
        /\ \A l \in Loops : l > last => pc[l] = "none"
        /\ \A l \in Loops : l < last => ~Live(l)
        /\ running \/ ipc = "await" => last \in Loops
        /\ ~running /\ ipc # "await" => \A l \in Loops : ~Live(l)
        /\ ipc = "await" => ~running

(* cancelProcessTask waits for the process goroutine before                *)
(* createProcessTask starts another, so TaskInv survives the input         *)
(* goroutine.                                                              *)
LEMMA TaskInput ==
  ASSUME HonorsCtx, DataType, TaskInv, Input
  PROVE  TaskInv'
<1> USE DEF InputKeeps, taskCtx, taskVars
<1>1. CASE InputCancelTask
  <2>1. /\ UNCHANGED <<pc, last, cl>> /\ ipc = "cancel"
        /\ IF running THEN ~running' /\ ipc' = "await"
                      ELSE running' = running /\ ipc' = AfterCancel
    BY <1>1, Zenon DEF InputCancelTask
  <2> QED
    BY <2>1, Zenon DEF TaskInv, Live, AfterCancel
<1>2. CASE InputAwait
  <2>1. UNCHANGED <<pc, last, running, cl>> /\ ipc = "await" /\ pc[last] = "exit" /\ ipc' # "await"
    BY <1>2, Zenon DEF InputAwait, AfterCancel
  <2> QED
    BY <2>1, BoundsAssumption DEF TaskInv, Live, DataType, Loops
<1>3. CASE InputStart \/ InputCreate
  <2>1. CreateProcessTask /\ UNCHANGED cl /\ ipc \in {"dispatch", "create"} /\ ipc' = "push"
    BY <1>3, Zenon DEF InputStart, InputCreate
  <2>2. CASE running
    BY <2>1, <2>2, Zenon DEF CreateProcessTask, TaskInv, Live
  <2>3. CASE ~running
    <3>1. /\ last < MaxLoops /\ last' = last + 1 /\ running'
          /\ pc' = [pc EXCEPT ![last + 1] = "top"]
      BY <2>1, <2>3, Zenon DEF CreateProcessTask
    <3> QED
      BY <2>1, <2>3, <3>1, BoundsAssumption DEF TaskInv, Live, DataType, Loops, LoopPlaces
  <2> QED
    BY <2>2, <2>3, Zenon
<1>4. CASE ~(InputCancelTask \/ InputAwait \/ InputStart \/ InputCreate)
  <2>1. UNCHANGED <<pc, last, running, cl>> /\ ipc # "await" /\ ipc' # "await"
    <3>1. CASE InputGate \/ InputGet \/ InputExit \/ InputCheck \/ InputWake \/ InputUnblock
      BY <3>1, Zenon DEF InputGate, InputGet, InputExit, InputCheck, InputWake, InputUnblock
    <3>2. CASE InputForward \/ InputInterrupt \/ InputReset \/ InputCancel \/ InputPause
      BY <3>2, Zenon DEF InputForward, InputInterrupt, InputReset, InputCancel, InputPause
    <3>3. CASE InputPauseClear \/ InputOther \/ InputPush \/ InputFinish
      BY <3>3, Zenon DEF InputPauseClear, InputOther, InputPush, InputFinish
    <3> QED
      BY <1>4, <3>1, <3>2, <3>3, ZenonT(40) DEF Input
  <2> QED
    BY <2>1, Zenon DEF TaskInv, Live
<1> QED
  BY <1>1, <1>2, <1>3, <1>4, Zenon

(* Every step of the processor keeps TaskInv: only a live process          *)
(* goroutine takes steps, nobody else starts or ends one, and TaskInv      *)
(* claims nothing once Cleanup has begun.                                  *)
LEMMA TaskStep ==
  ASSUME HonorsCtx, TypeOK, TaskInv, [Next]_vars
  PROVE  TaskInv'
<1> USE DEF TypeOK
<1>1. ASSUME NEW k \in Kinds, QueueFrame(k) PROVE TaskInv'
  BY <1>1, Zenon DEF QueueFrame, TaskInv, Live, taskVars, taskCtx
<1>2. CASE Input
  BY <1>2, TaskInput, Zenon
<1>3. ASSUME NEW l \in Loops, Loop(l) PROVE TaskInv'
  <2>1. /\ UNCHANGED <<ipc, last, running, cl>> /\ Live(l)
        /\ \A m \in Loops : m # l => pc'[m] = pc[m]
    BY <1>3, LoopEffect, Zenon DEF DataType
  <2> QED
    BY <2>1, Zenon DEF TaskInv, Live
<1>4. CASE Control
  BY <1>4, ControlEffect, Zenon DEF TaskInv, Live
<1>5. CASE Cleanup
  BY <1>5, CleanupEffect, Zenon DEF TaskInv
<1>6. CASE UNCHANGED vars
  BY <1>6, Zenon DEF vars, TaskInv, Live
<1> QED
  BY <1>1, <1>2, <1>3, <1>4, <1>5, <1>6, Zenon DEF Next

(* Where ProcessFrame honours its context, an instance of processLoop is   *)
(* alive only as the newest one, and only while it runs or                 *)
(* cancelProcessTask waits for it.                                         *)
LEMMA TaskInvariant ==
  ASSUME HonorsCtx
  PROVE  Spec => []TaskInv
<1>1. Init => TaskInv
  BY Zenon DEF Init, TaskInv, Live
<1>2. TypeOK /\ TaskInv /\ [Next]_vars => TaskInv'
  BY TaskStep, Zenon
<1> QED
  BY <1>1, <1>2, TypeCorrect, PTL DEF Spec

(* Where ProcessFrame honours its context, the process queue has a single  *)
(* consumer (queue.go) however many interruptions and restarts there are.  *)
THEOREM OneConsumer ==
  ASSUME HonorsCtx
  PROVE  Spec => []SingleConsumer
<1>1. TypeOK /\ TaskInv => SingleConsumer
  <2> SUFFICES ASSUME TypeOK, TaskInv, cl = "no", NEW l \in Loops,
                      NEW m \in Loops, Live(l), Live(m)
               PROVE  l = m
    BY Zenon DEF SingleConsumer
  <2>1. l = last /\ m = last
    BY DEF TaskInv, Live, TypeOK, DataType, Loops
  <2> QED
    BY <2>1, Zenon
<1> QED
  BY <1>1, TypeCorrect, TaskInvariant, PTL

-----------------------------------------------------------------------------
(* No flush drops a system or an uninterruptible frame.                    *)

(* A frame no flush may drop is still somewhere, unless the processor is   *)
(* canceling.  A process goroutine that was never started holds nothing.   *)
KeptInv ==
    /\ \A l \in Loops : l > last => pc[l] = "none"
    /\ NothingVanishes
    /\ \A f \in queued : IsSystem(f) \/ Uninterruptible(f)

(* The frames of FramesSomewhere that no flush may drop.                   *)
Kept(f) == f \in FramesSomewhere /\ (IsSystem(f) \/ Uninterruptible(f))

(* A step that keeps those frames keeps KeptInv.                           *)
LEMMA KeptShrinks ==
  ASSUME KeptInv, UNCHANGED queued, canceling => canceling',
         \A l \in Loops : l > last' => pc'[l] = "none",
         \A f \in queued : Kept(f) => f \in FramesSomewhere'
  PROVE  KeptInv'
BY Zenon DEF KeptInv, NothingVanishes, Kept, IsSystem, Uninterruptible

(* A flush keeps the uninterruptible frames, and the process queue holds   *)
(* no system frame.                                                        *)
LEMMA KeptFlush ==
  ASSUME DataType, procq' = procq \/ procq' = Reset(procq),
         inq' = inq, lost \subseteq lost', out' = out, UNCHANGED held,
         \A l \in Loops : InHand(l) => InHand(l)',
         InputInHand => InputInHand' /\ ifr' = ifr
  PROVE  \A f : Kept(f) => f \in FramesSomewhere'
<1> SUFFICES ASSUME NEW f, Kept(f) PROVE f \in FramesSomewhere'
  OBVIOUS
<1>1. CASE f \in inq \cup lost \/ \E i \in 1..Len(out) : f = out[i]
  BY <1>1, Zenon DEF FramesSomewhere
<1>2. CASE \E l \in Loops : InHand(l) /\ f = held[l]
  BY <1>2, Zenon DEF FramesSomewhere
<1>3. CASE InputInHand /\ f = ifr
  BY <1>3, Zenon DEF FramesSomewhere
<1>4. CASE \E x \in procq : f = x.frame
  <2>1. PICK x \in procq : f = x.frame
    BY <1>4, Zenon
  <2>2. Uninterruptible(x.frame)
    BY <2>1, Zenon DEF DataType, Kept, IsSystem
  <2>3. x \in procq'
    BY <2>2, Zenon DEF Reset
  <2> QED
    BY <2>1, <2>3, Zenon DEF FramesSomewhere
<1> QED
  BY <1>1, <1>2, <1>3, <1>4, Zenon DEF Kept, FramesSomewhere

(* What Append adds to the frames pushed on.                               *)
LEMMA AppendKeeps ==
  ASSUME NEW S, NEW s \in Seq(S), NEW e, NEW t, t = Append(s, e)
  PROVE  \A f : f = e \/ (\E i \in 1..Len(s) : f = s[i]) => \E i \in 1..Len(t) : f = t[i]
<1>1. t[Len(s) + 1] = e /\ Len(t) = Len(s) + 1 /\ Len(s) \in Nat
  OBVIOUS
<1>2. \A i \in 1..Len(s) : t[i] = s[i]
  OBVIOUS
<1> QED
  BY <1>1, <1>2

(* What a push adds to them: the frame pushed, and every earlier one stays.*)
LEMMA OutGrows ==
  ASSUME DataType, NEW e, out' = Append(out, e)
  PROVE  \A f : f = e \/ (\E i \in 1..Len(out) : f = out[i])
                  => \E i \in 1..Len(out') : f = out'[i]
<1>1. out \in Seq(Frame)
  BY Zenon DEF DataType
<1> QED
  BY <1>1, AppendKeeps

(* The input goroutine passes every frame it takes on, or to the process   *)
(* queue; one it is canceled on is given up.                               *)
LEMMA KeptInput ==
  ASSUME DataType, KeptInv, Input
  PROVE  KeptInv'
<1> USE DEF InputKeeps, taskVars, taskCtx, procVars, history
<1>1. CASE InputGate \/ InputMoves \/ InputReset
  <2>1. /\ UNCHANGED <<queued, inq, lost, out, held, pc, last>>
        /\ canceling => canceling'
    BY <1>1, InputMoved DEF InputGate, InputReset
  <2>2. /\ procq' = procq \/ procq' = Reset(procq)
        /\ InputInHand => InputInHand' /\ ifr' = ifr
    BY <1>1, InputMoved, Zenon DEF InputGate, InputReset, InputInHand
  <2> QED
    BY <2>1, <2>2, KeptFlush, KeptShrinks, Zenon DEF KeptInv, InHand
<1>2. CASE InputStart \/ InputCreate
  <2>1. /\ UNCHANGED <<queued, inq, lost, out, held, ifr, canceling>> /\ ipc' = "push"
        /\ CreateProcessTask
    BY <1>2, Zenon DEF InputStart, InputCreate
  <2>2. procq' = procq \/ procq' = Reset(procq)
    BY <2>1, CreateEffect, Zenon
  <2>3. \A l \in Loops : InHand(l) => InHand(l)'
    <3>1. \A l \in Loops : l = last + 1 => pc[l] = "none"
      BY BoundsAssumption DEF KeptInv, DataType, Loops
    <3>2. \A l \in Loops : pc'[l] = pc[l] \/ (pc'[l] = "top" /\ l = last + 1)
      BY <2>1, CreateEffect, Zenon
    <3> QED
      BY <3>1, <3>2, Zenon DEF InHand
  <2>4. \A l \in Loops : l > last' => pc'[l] = "none"
    BY <2>1, BoundsAssumption DEF CreateProcessTask, KeptInv, DataType, Loops
  <2> QED
    BY <2>1, <2>2, <2>3, <2>4, KeptFlush, KeptShrinks, Zenon DEF InputInHand
<1>3. CASE InputGet
  <2>1. UNCHANGED <<queued, procq, lost, out, held, pc, last, canceling>> /\ InputInHand'
    BY <1>3, Zenon DEF InputGet, InputInHand
  <2>2. ~InputInHand /\ inq \subseteq inq' \cup {ifr'}
    BY <1>3, Zenon DEF InputGet, InputInHand
  <2>3. \A f \in FramesSomewhere : f \in FramesSomewhere'
    BY <2>1, <2>2, Zenon DEF FramesSomewhere, InHand
  <2> QED
    BY <2>1, <2>3, KeptShrinks, Zenon DEF Kept, KeptInv
<1>4. CASE InputForward
  <2>1. UNCHANGED <<queued, inq, lost, out, held, pc, last, canceling>> /\ ~InputInHand'
    BY <1>4, Zenon DEF InputForward, InputInHand
  <2> DEFINE x == [at |-> ptail, frame |-> ifr]
  <2>2. procq \subseteq procq' /\ x \in procq' /\ x.frame = ifr
    BY <1>4, ZenonT(40) DEF InputForward
  <2> HIDE DEF x
  <2>3. \A f \in FramesSomewhere : f \in FramesSomewhere'
    BY <2>1, <2>2, Zenon DEF FramesSomewhere, InHand
  <2> QED
    BY <2>1, <2>3, KeptShrinks, Zenon DEF Kept, KeptInv
<1>5. CASE InputPush
  <2>1. /\ UNCHANGED <<queued, inq, procq, lost, held, pc, last, canceling>> /\ ~InputInHand'
        /\ InputInHand /\ out' = Append(out, ifr)
    BY <1>5, Zenon DEF InputPush, InputInHand
  <2>2. \A f : f = ifr \/ (\E i \in 1..Len(out) : f = out[i])
                  => \E i \in 1..Len(out') : f = out'[i]
    BY <2>1, OutGrows, Zenon
  <2>3. \A f \in FramesSomewhere : f \in FramesSomewhere'
    BY <2>1, <2>2 DEF FramesSomewhere, InHand
  <2> QED
    BY <2>1, <2>3, KeptShrinks, Zenon DEF Kept, KeptInv
<1>6. CASE InputExit \/ InputFinish
  <2>1. /\ UNCHANGED <<queued, inq, procq, out, held, pc, last, canceling>>
        /\ InputInHand => ifr \in lost'
        /\ lost \subseteq lost'
    BY <1>6, Zenon DEF InputExit, InputFinish, InputInHand
  <2>2. \A f \in FramesSomewhere : f \in FramesSomewhere'
    BY <2>1, Zenon DEF FramesSomewhere, InHand
  <2> QED
    BY <2>1, <2>2, KeptShrinks, Zenon DEF Kept, KeptInv
<1> QED
  BY <1>1, <1>2, <1>3, <1>4, <1>5, <1>6, Zenon DEF Input, InputMoves

(* A process goroutine pushes the frame it took on, or gives it up.        *)
LEMMA KeptLoop ==
  ASSUME DataType, KeptInv, NEW l \in Loops, Loop(l)
  PROVE  KeptInv'
<1>1. /\ UNCHANGED <<queued, inq, ipc, ifr, last, canceling>>
      /\ \A m \in Loops : m # l => pc'[m] = pc[m]
      /\ pc[l] # "none"
  <2>1. pc[l] # "none"
    BY Zenon DEF Loop, LoopTop, LoopGet, LoopExit, LoopSetCur, LoopCheck, LoopWake, LoopAbandon,
           LoopUnblock, LoopHandle, LoopPauseClear, LoopPush, LoopGiveUp, LoopFinish
  <2> QED
    BY <2>1, LoopEffect, Zenon DEF DataType
<1>2. \A m \in Loops : m > last' => pc'[m] = "none"
  BY <1>1, Zenon DEF KeptInv
<1>3. SUFFICES \A f \in FramesSomewhere : f \in FramesSomewhere'
  BY <1>1, <1>2, KeptShrinks, Zenon DEF Kept
<1>4. CASE LoopGet(l)
  <2>1. PICK x \in procq : procq' = procq \ {x} /\ held' = [held EXCEPT ![l] = x.frame]
    BY <1>4, Zenon DEF LoopGet
  <2>2. ~InHand(l) /\ InHand(l)' /\ UNCHANGED <<out, lost>>
    BY <1>4, Zenon DEF LoopGet, InHand, history, DataType
  <2>3. held'[l] = x.frame /\ \A m \in Loops : m # l => held'[m] = held[m]
    BY <2>1, Zenon DEF DataType
  <2>4. \A m \in Loops : InHand(m) => m # l /\ InHand(m)' /\ held'[m] = held[m]
    BY <1>1, <2>2, <2>3, Zenon DEF InHand
  <2>5. \A y \in procq : y.frame \in FramesSomewhere'
    <3>1. x.frame \in {held'[m] : m \in {n \in Loops : InHand(n)'}}
      BY <2>2, <2>3, Zenon
    <3>2. \A y \in procq : y # x => y \in procq'
      BY <2>1, Zenon
    <3> QED
      BY <3>1, <3>2, Zenon DEF FramesSomewhere
  <2>6. \A f \in FramesSomewhere : f \in FramesSomewhere' \/ \E y \in procq : f = y.frame
    BY <1>1, <2>2, <2>4, ZenonT(40) DEF FramesSomewhere, InputInHand
  <2> QED
    BY <2>5, <2>6, Zenon
<1>5. CASE LoopPush(l)
  <2>1. out' = Append(out, held[l]) /\ UNCHANGED <<procq, held, lost>> /\ InHand(l)
    BY <1>5, Zenon DEF LoopPush, InHand
  <2>2. \A f : f = held[l] \/ (\E i \in 1..Len(out) : f = out[i])
                  => \E i \in 1..Len(out') : f = out'[i]
    BY <2>1, OutGrows, Zenon
  <2>3. \A m \in Loops : m # l /\ InHand(m) => InHand(m)'
    BY <1>1, Zenon DEF InHand
  <2>4. \A i \in 1..Len(out) : out[i] \in FramesSomewhere'
    BY <2>2, Zenon DEF FramesSomewhere
  <2>5. \A m \in Loops : InHand(m) => held[m] \in FramesSomewhere'
    <3>1. held[l] \in FramesSomewhere'
      BY <2>2, Zenon DEF FramesSomewhere
    <3>2. \A m \in Loops : m # l /\ InHand(m) => held[m] \in FramesSomewhere'
      BY <2>1, <2>3, Zenon DEF FramesSomewhere
    <3> QED
      BY <3>1, <3>2, Zenon
  <2>6. \A f \in FramesSomewhere :
           \/ f \in FramesSomewhere' \/ \E i \in 1..Len(out) : f = out[i]
           \/ \E m \in Loops : InHand(m) /\ f = held[m]
    BY <1>1, <2>1, Zenon DEF FramesSomewhere, InputInHand
  <2> QED
    BY <2>4, <2>5, <2>6, Zenon
<1>6. CASE LoopAbandon(l) \/ LoopGiveUp(l)
  <2>1. lost' = lost \cup {held[l]} /\ UNCHANGED <<procq, held, out>>
    BY <1>6, Zenon DEF LoopAbandon, LoopGiveUp
  <2> QED
    BY <1>1, <2>1, Zenon DEF FramesSomewhere, InHand, InputInHand
<1>7. CASE ~LoopGet(l) /\ ~LoopPush(l) /\ ~LoopAbandon(l) /\ ~LoopGiveUp(l)
  <2>1. UNCHANGED <<procq, held, out, lost>> /\ \A m \in Loops : InHand(m)' <=> InHand(m)
    BY <1>7, LoopEffect, Zenon DEF DataType
  <2> QED
    BY <1>1, <2>1, Zenon DEF FramesSomewhere, InputInHand
<1> QED
  BY <1>4, <1>5, <1>6, <1>7, Zenon

(* Every step of the processor keeps KeptInv.                              *)
LEMMA KeptStep ==
  ASSUME TypeOK, KeptInv, [Next]_vars
  PROVE  KeptInv'
<1> USE DEF TypeOK
<1>1. ASSUME NEW k \in Kinds, QueueFrame(k) PROVE KeptInv'
  <2> DEFINE f == [id |-> arrived + 1, kind |-> k]
  <2>1. UNCHANGED <<ipc, ifr, procq, pc, held, last, out, lost, canceling>>
    BY <1>1, Zenon DEF QueueFrame, taskVars, taskCtx, procVars, history
  <2>2. CASE canceling
    BY <2>1, <2>2, <1>1 DEF QueueFrame, KeptInv, NothingVanishes
  <2>3. CASE ~canceling
    <3>1. inq' = inq \cup {f}
      BY <1>1, <2>3, Zenon DEF QueueFrame
    <3>2. queued' \subseteq queued \cup {f} /\ (f \in queued' => IsSystem(f) \/ Uninterruptible(f) \/ f \in queued)
      BY <1>1, <2>3, Zenon DEF QueueFrame
    <3> HIDE DEF f
    <3>3. FramesSomewhere' = FramesSomewhere \cup {f}
      BY <2>1, <3>1, ZenonT(40) DEF FramesSomewhere, InHand, InputInHand
    <3> QED
      BY <2>1, <2>3, <3>2, <3>3, Zenon DEF KeptInv, NothingVanishes, IsSystem, Uninterruptible
  <2> QED
    BY <2>2, <2>3, Zenon
<1>2. ASSUME UNCHANGED <<queued, inq, lost, out, held, pc, last, ipc, ifr, canceling>>,
             procq' = procq \/ procq' = Reset(procq)
      PROVE  KeptInv'
  BY <1>2, KeptFlush, KeptShrinks, Zenon DEF KeptInv, InHand, InputInHand
<1>3. CASE Control
  BY <1>2, <1>3, ControlEffect, Zenon
<1>4. CASE Cleanup
  BY <1>2, <1>4, CleanupEffect, Zenon
<1>5. CASE UNCHANGED vars
  BY <1>2, <1>5, Zenon DEF vars
<1> QED
  BY <1>1, <1>3, <1>4, <1>5, KeptInput, KeptLoop, Zenon DEF Next

(* No interruption, cancellation, pause or cleanup drops a system or an    *)
(* uninterruptible frame: each one QueueFrame accepted is queued, in hand, *)
(* pushed on or given up by a canceled ProcessFrame, until a CancelFrame   *)
(* stops the processor.                                                    *)
THEOREM NoFlushDrops == Spec => []NothingVanishes
<1>1. Init => KeptInv
  BY Zenon DEF Init, KeptInv, NothingVanishes
<1>2. TypeOK /\ KeptInv /\ [Next]_vars => KeptInv'
  BY KeptStep, Zenon
<1>3. KeptInv => NothingVanishes
  BY Zenon DEF KeptInv
<1> QED
  BY <1>1, <1>2, <1>3, TypeCorrect, PTL DEF Spec

-----------------------------------------------------------------------------
(* Frames keep their order.                                                *)

(* The frames not yet handled, from the last to be handled to the first.   *)
Forwarding ==
    ipc \in {"check", "wait", "unblock", "dispatch"} /\ ~IsSystem(ifr)
Queued == {g \in inq : ~IsSystem(g)}
Coming == Queued \cup {f \in {ifr} : Forwarding}
Waiting == Coming \cup {x.frame : x \in procq}
Unhandled == Waiting \cup {held[l] : l \in {m \in Loops : InHand(m)}}

Before(f, S) == \A g \in S : f.id < g.id

(* A frame is handled before every frame that is still further back, which *)
(* is what orders the frames pushed on.                                    *)
OrderInv ==
    /\ \A f \in inq : f.id <= arrived
    /\ \A f, g \in inq : f.id = g.id => f = g
    /\ ipc \in {"reset", "cancel", "await", "create", "pauseClear", "push"}
          => IsSystem(ifr)
    /\ \A l \in Loops : InHand(l) => ~IsSystem(held[l])
    /\ InputInHand => ifr.id <= arrived
    /\ \A x \in procq : x.at < ptail /\ x.frame.id <= arrived
    /\ \A x, y \in procq : x.at < y.at => x.frame.id < y.frame.id
    /\ \A x, y \in procq : x.at = y.at => x = y
    /\ Forwarding => Before(ifr, Queued)
    /\ \A x \in procq : Before(x.frame, Coming)
    /\ cl = "no" =>
          /\ \A l \in Loops : InHand(l) => /\ Before(held[l], Waiting)
                                           /\ held[l].id <= arrived
          /\ \A i \in 1..Len(out) :
                ~IsSystem(out[i]) => /\ Before(out[i], Unhandled)
                                     /\ out[i].id <= arrived
          /\ InOrder

(* Where the input goroutine holds a system frame.                         *)
SystemPlaces == {"reset", "cancel", "await", "create", "pauseClear", "push"}

(* A step that queues nothing, forwards nothing and pushes nothing keeps   *)
(* the order: it can only take frames away (reset) or move a goroutine     *)
(* between places at which it holds the same frame.                        *)
LEMMA OrderShrinks ==
  ASSUME OrderInv, UNCHANGED <<out, arrived, inq, ptail, held>>,
         procq' \subseteq procq,
         Forwarding' => Forwarding,
         InputInHand' => InputInHand /\ ifr' = ifr,
         ipc' \in SystemPlaces => IsSystem(ifr'),
         \A l \in Loops : InHand(l)' => InHand(l),
         cl' = "no" => cl = "no"
  PROVE  OrderInv'
<1>1. Queued' = Queued
     BY Zenon DEF Queued, IsSystem
<1>2. Coming' \subseteq Coming
     BY <1>1, Zenon DEF Coming, Forwarding, InputInHand
<1>3. Waiting' \subseteq Waiting
     BY <1>2, Zenon DEF Waiting
<1>4. Unhandled' \subseteq Unhandled
     BY <1>3, Zenon DEF Unhandled
<1>5. (cl = "no" => InOrder)'
     BY Zenon DEF OrderInv, InOrder, IsSystem
<1>6. Forwarding' => ifr' = ifr
     BY Zenon DEF Forwarding, InputInHand
<1>7. QED
     BY <1>1, <1>2, <1>3, <1>4, <1>5, <1>6, Zenon DEF OrderInv, Before, IsSystem,
        SystemPlaces

(* queue.get hands the input goroutine the oldest data frame, and only     *)
(* when no system frame waits: what it then holds is older than what is    *)
(* left.                                                                   *)
LEMMA OrderInputGet ==
  ASSUME DataType, OrderInv, InputGet
  PROVE  OrderInv'
<1> USE DEF InputKeeps, procVars, waitVars, taskCtx, taskVars, frameGate,
            systemGate, gateVars, history
<1>1. PICK f \in inq : IsNextIn(f, inq) /\ inq' = inq \ {f} /\ ifr' = f
     BY Zenon DEF InputGet
<1>2. /\ ipc = "get" /\ ipc' = "check"
      /\ UNCHANGED <<arrived, procq, ptail, pc, held, out, cl>>
     BY Zenon DEF InputGet
<1>3. f \in Frame /\ inq \subseteq Frame
     BY <1>1, Zenon DEF DataType
<1>4. Forwarding' = ~IsSystem(f)
     BY <1>1, <1>2, Zenon DEF Forwarding, IsSystem
<1>5. Queued' \subseteq Queued /\ (~IsSystem(f) => f \in Queued)
     BY <1>1, Zenon DEF Queued, IsSystem
<1>6. Forwarding' => Before(f, Queued')
  <2> SUFFICES ASSUME ~IsSystem(f), NEW g \in Queued' PROVE f.id < g.id
     BY <1>4, ZenonT(30) DEF Before
  <2>1. g \in inq /\ g # f /\ ~IsSystem(g)
     BY <1>1, Zenon DEF Queued, IsSystem
  <2>2. Tier(f) = 2 /\ Tier(g) = 2
     BY <2>1, <1>3, Zenon DEF Tier, IsSystem, SystemKinds
  <2>3. f.id <= g.id
     BY <1>1, <2>1, <2>2 DEF IsNextIn
  <2>4. f.id # g.id
     BY <1>1, <2>1, Zenon DEF OrderInv
  <2> QED
     BY <2>1, <2>3, <2>4, <1>3 DEF Frame
<1>7. Coming' \subseteq Coming
     BY <1>1, <1>4, <1>5, ZenonT(30) DEF Coming
<1>8. Waiting' \subseteq Waiting
     BY <1>2, <1>7, Zenon DEF Waiting
<1>9. \A m \in Loops : InHand(m)' = InHand(m)
     BY <1>2, Zenon DEF InHand
<1>10. Unhandled' \subseteq Unhandled
     BY <1>2, <1>8, <1>9, Zenon DEF Unhandled
<1>11. (cl = "no" => InOrder)' = (cl = "no" => InOrder)
     BY <1>2, Zenon DEF InOrder, IsSystem
<1> QED
     BY <1>1, <1>2, <1>5, <1>6, <1>7, <1>8, <1>9, <1>10, <1>11, Zenon
        DEF OrderInv, Before, IsSystem

(* push puts the forwarded frame behind everything in the process queue    *)
(* and it is older than every data frame still in the input queue.         *)
LEMMA OrderInputForward ==
  ASSUME DataType, OrderInv, InputForward
  PROVE  OrderInv'
<1> USE DEF InputKeeps, procVars, waitVars, taskCtx, taskVars, frameGate,
            systemGate, gateVars, history
<1> DEFINE new == [at |-> ptail, frame |-> ifr]
<1>1. /\ ipc = "dispatch" /\ ipc' = "get" /\ ~IsSystem(ifr)
      /\ procq' = procq \cup {new} /\ ptail' = ptail + 1
      /\ UNCHANGED <<arrived, inq, pc, held, out, cl>>
     BY Zenon DEF InputForward
<1>2. /\ ifr \in Frame /\ ptail \in Nat /\ procq \subseteq Item
      /\ inq \subseteq Frame /\ new.at = ptail /\ new.frame = ifr
     BY <1>1, Zenon DEF DataType, InputInHand
<1>3. Forwarding /\ InputInHand /\ ~Forwarding' /\ ~InputInHand'
     BY <1>1, Zenon DEF Forwarding, InputInHand
<1>4. Queued' = Queued
     BY <1>1, Zenon DEF Queued, IsSystem
<1>5. Coming' = Queued /\ Coming = Queued \cup {ifr}
     BY <1>3, <1>4, Zenon DEF Coming
<1>6. Waiting' \subseteq Waiting
     BY <1>1, <1>2, <1>5, Zenon DEF Waiting
<1>7. \A m \in Loops : InHand(m)' = InHand(m)
     BY <1>1, Zenon DEF InHand
<1>8. Unhandled' \subseteq Unhandled
     BY <1>1, <1>6, <1>7, Zenon DEF Unhandled
<1>9. (cl = "no" => InOrder)' = (cl = "no" => InOrder)
     BY <1>1, Zenon DEF InOrder, IsSystem
<1>10. \A x \in procq : x.frame.id < ifr.id /\ x.at < ptail /\ x.at \in Nat
     BY <1>2, <1>5, Zenon DEF OrderInv, Before, Item
<1>11. \A x \in procq' : x.at < ptail' /\ x.frame.id <= arrived'
     BY <1>1, <1>2, <1>3, <1>10 DEF OrderInv
<1>12. \A x, y \in procq' : x.at < y.at => x.frame.id < y.frame.id
     BY <1>1, <1>2, <1>10 DEF OrderInv
<1>13. \A x, y \in procq' : x.at = y.at => x = y
     BY <1>1, <1>2, <1>10 DEF OrderInv
<1>14. \A x \in procq' : Before(x.frame, Coming')
     BY <1>1, <1>2, <1>3, <1>5, Zenon DEF OrderInv, Before
<1> HIDE DEF new
<1> QED
     BY <1>1, <1>3, <1>4, <1>6, <1>7, <1>8, <1>9, <1>11, <1>12, <1>13, <1>14, Zenon
        DEF OrderInv, Before, IsSystem

(* The input goroutine pushes on system frames only, which the order of    *)
(* data frames does not speak of.                                          *)
LEMMA OrderInputPush ==
  ASSUME DataType, OrderInv, InputPush
  PROVE  OrderInv'
<1> USE DEF InputKeeps, procVars, waitVars, taskCtx, taskVars, frameGate,
            systemGate, gateVars, history
<1>1. /\ ipc = "push" /\ ipc' = "finish" /\ out' = Append(out, ifr)
      /\ UNCHANGED <<arrived, inq, procq, ptail, ifr, pc, held, cl>>
     BY Zenon DEF InputPush
<1>2. IsSystem(ifr) /\ ~Forwarding' /\ ~InputInHand'
     BY <1>1, Zenon DEF OrderInv, Forwarding, InputInHand
<1>3. Queued' = Queued
     BY <1>1, Zenon DEF Queued, IsSystem
<1>4. Coming' \subseteq Coming
     BY <1>2, <1>3, Zenon DEF Coming
<1>5. Waiting' \subseteq Waiting
     BY <1>1, <1>4, Zenon DEF Waiting
<1>6. \A m \in Loops : InHand(m)' = InHand(m)
     BY <1>1, Zenon DEF InHand
<1>7. Unhandled' \subseteq Unhandled
     BY <1>1, <1>5, <1>6, Zenon DEF Unhandled
<1>8. /\ Len(out) \in Nat /\ Len(out') = Len(out) + 1
      /\ \A i \in 1..Len(out) : out'[i] = out[i]
      /\ out'[Len(out) + 1] = ifr
     BY <1>1 DEF DataType, InputInHand
<1>9. \A i \in 1..Len(out') :
          ~IsSystem(out'[i]) => i \in 1..Len(out) /\ out'[i] = out[i]
     BY <1>2, <1>8
<1>10. (cl = "no" => InOrder)'
  <2> SUFFICES ASSUME cl = "no", NEW i \in 1..Len(out'), NEW j \in 1..Len(out'),
                      i < j, ~IsSystem(out'[i]), ~IsSystem(out'[j])
               PROVE  out'[i].id < out'[j].id
     BY <1>1, Zenon DEF InOrder, IsSystem
  <2>1. /\ i \in 1..Len(out) /\ out'[i] = out[i]
        /\ j \in 1..Len(out) /\ out'[j] = out[j]
     BY <1>9, Zenon
  <2> QED
     BY <2>1, Zenon DEF OrderInv, InOrder
<1>11. cl' = "no" => \A i \in 1..Len(out') :
           ~IsSystem(out'[i]) => /\ Before(out'[i], Unhandled')
                                 /\ out'[i].id <= arrived'
     BY <1>1, <1>7, <1>9, Zenon DEF OrderInv, Before
<1> QED
     BY <1>1, <1>2, <1>3, <1>4, <1>5, <1>6, <1>7, <1>10, <1>11, Zenon
        DEF OrderInv, Before, IsSystem

(* The frame a process goroutine takes is older than all that wait.        *)
LEMMA OrderLoopGet ==
  ASSUME DataType, TaskInv, OrderInv, NEW l \in Loops, LoopGet(l)
  PROVE  OrderInv'
<1> USE DEF LoopKeeps, taskCtx, systemGate, frameGate, waitVars, history
<1>1. PICK x \in procq : /\ IsNextItem(x, procq) /\ procq' = procq \ {x}
                         /\ held' = [held EXCEPT ![l] = x.frame]
     BY ZenonT(30) DEF LoopGet
<1>2. /\ pc[l] = "get" /\ pc' = [pc EXCEPT ![l] = "got"]
      /\ UNCHANGED <<arrived, inq, ipc, ifr, ptail, out, cl>>
     BY Zenon DEF LoopGet
<1>3. x \in Item /\ procq \subseteq Item /\ ~IsSystem(x.frame)
     BY <1>1, Zenon DEF DataType
<1>4. /\ Queued' = Queued /\ Forwarding' = Forwarding
      /\ InputInHand' = InputInHand
     BY <1>2, Zenon DEF Queued, IsSystem, Forwarding, InputInHand
<1>5. Coming' = Coming
     BY <1>2, <1>4, Zenon DEF Coming
<1>6. Waiting' \subseteq Waiting
     BY <1>1, <1>5, Zenon DEF Waiting
<1>7. Before(x.frame, Waiting')
  <2>1. \A y \in procq' : x.frame.id < y.frame.id
     BY <1>1, <1>3 DEF OrderInv, IsNextItem, Item
  <2> QED
     BY <1>1, <1>5, <2>1, Zenon DEF OrderInv, Waiting, Before
<1>8. /\ held'[l] = x.frame
      /\ \A m \in Loops : m # l => /\ held'[m] = held[m]
                                   /\ InHand(m)' = InHand(m)
     BY <1>1, <1>2, Zenon DEF DataType, InHand
<1>9. Unhandled' \subseteq Unhandled
     BY <1>1, <1>6, <1>8, Zenon DEF Unhandled, Waiting
<1>10. (cl = "no" => InOrder)' = (cl = "no" => InOrder)
     BY <1>2, Zenon DEF InOrder, IsSystem
<1>11. \A m \in Loops : InHand(m)' => ~IsSystem(held'[m])
     BY <1>3, <1>8, Zenon DEF OrderInv
<1>12. cl' = "no" => \A m \in Loops : InHand(m)' =>
           Before(held'[m], Waiting') /\ held'[m].id <= arrived'
     BY <1>1, <1>2, <1>6, <1>7, <1>8, Zenon DEF OrderInv, Before
<1> QED
     BY <1>1, <1>2, <1>4, <1>5, <1>9, <1>10, <1>11, <1>12, Zenon
        DEF OrderInv, Before, IsSystem

(* The frame a process goroutine pushes on is younger than every data      *)
(* frame pushed before it: it is the only one in hand, and nothing older   *)
(* waits.                                                                  *)
LEMMA OrderLoopPush ==
  ASSUME DataType, TaskInv, OrderInv, NEW l \in Loops, LoopPush(l)
  PROVE  OrderInv'
<1> USE DEF LoopKeeps, taskCtx, systemGate, frameGate, waitVars, history
<1>1. /\ pc[l] = "push" /\ pc' = [pc EXCEPT ![l] = "finish"]
      /\ out' = Append(out, held[l])
      /\ UNCHANGED <<arrived, inq, ipc, ifr, procq, ptail, held, cl>>
     BY Zenon DEF LoopPush
<1>2. /\ Queued' = Queued /\ Forwarding' = Forwarding
      /\ InputInHand' = InputInHand
     BY <1>1, Zenon DEF Queued, IsSystem, Forwarding, InputInHand
<1>3. Coming' = Coming
     BY <1>1, <1>2, Zenon DEF Coming
<1>4. Waiting' = Waiting
     BY <1>1, <1>3, Zenon DEF Waiting
<1>5. /\ InHand(l) /\ ~InHand(l)'
      /\ \A m \in Loops : m # l => InHand(m)' = InHand(m)
     BY <1>1, Zenon DEF DataType, InHand
<1>6. Unhandled' \subseteq Unhandled
     BY <1>1, <1>4, <1>5, Zenon DEF Unhandled
<1>7. held[l] \in Frame /\ held[l] \in Unhandled /\ ~IsSystem(held[l])
     BY <1>5, Zenon DEF DataType, OrderInv, Unhandled
<1>8. cl = "no" => \A m \in Loops : m # l => ~InHand(m)
     BY <1>1, SMTT(30) DEF TaskInv, Live, InHand, DataType, Loops
<1>9. cl = "no" => Unhandled' = Waiting
     BY <1>1, <1>4, <1>5, <1>8, Zenon DEF Unhandled
<1>10. /\ Len(out) \in Nat /\ Len(out') = Len(out) + 1
       /\ \A i \in 1..Len(out) : out'[i] = out[i]
       /\ out'[Len(out) + 1] = held[l]
     BY <1>1, <1>7 DEF DataType
<1>11. cl' = "no" => \A i \in 1..Len(out') :
           ~IsSystem(out'[i]) => /\ Before(out'[i], Unhandled')
                                 /\ out'[i].id <= arrived'
  <2> SUFFICES ASSUME cl = "no", NEW i \in 1..Len(out'), ~IsSystem(out'[i])
               PROVE  Before(out'[i], Unhandled') /\ out'[i].id <= arrived
     BY <1>1, Zenon
  <2>1. CASE i \in 1..Len(out)
     BY <2>1, <1>6, <1>10, Zenon DEF OrderInv, Before
  <2>2. CASE i = Len(out) + 1
     BY <2>2, <1>5, <1>9, <1>10, Zenon DEF OrderInv
  <2> QED
     BY <2>1, <2>2, <1>10
<1>12. (cl = "no" => InOrder)'
  <2> SUFFICES ASSUME cl = "no",
                      NEW i \in 1..Len(out'), NEW j \in 1..Len(out'),
                      i < j, ~IsSystem(out'[i]), ~IsSystem(out'[j])
               PROVE  out'[i].id < out'[j].id
     BY <1>1, Zenon DEF InOrder
  <2>1. i \in 1..Len(out) /\ out'[i] = out[i]
     BY <1>10
  <2>2. CASE j \in 1..Len(out)
     BY <2>1, <2>2, <1>10, Zenon DEF OrderInv, InOrder
  <2>3. CASE j = Len(out) + 1
     BY <2>1, <2>3, <1>7, <1>10, Zenon DEF OrderInv, Before
  <2> QED
     BY <2>2, <2>3, <1>10
<1> QED
     BY <1>1, <1>2, <1>3, <1>4, <1>5, <1>11, <1>12, Zenon
        DEF OrderInv, Before, IsSystem

(* A frame that QueueFrame accepts is younger than every other.            *)
LEMMA OrderQueueFrame ==
  ASSUME DataType, OrderInv, NEW k \in Kinds, QueueFrame(k)
  PROVE  OrderInv'
<1> USE DEF taskVars, procVars, waitVars, taskCtx, gateVars, frameGate,
            systemGate, history
<1> DEFINE f == [id |-> arrived + 1, kind |-> k]
<1>1. UNCHANGED <<ipc, ifr, procq, ptail, pc, held, out, cl>>
     BY SMTT(30) DEF QueueFrame
<1>2. CASE canceling
  <2>1. UNCHANGED <<arrived, inq>>
     BY <1>2, SMTT(30) DEF QueueFrame
  <2> QED
     BY <1>1, <2>1, OrderShrinks, Zenon
        DEF Forwarding, InputInHand, InHand, SystemPlaces, OrderInv, IsSystem
<1>3. CASE ~canceling
  <2>1. arrived' = arrived + 1 /\ inq' = inq \cup {f}
     BY <1>3, Zenon DEF QueueFrame
  <2>2. f \in Frame /\ f.id = arrived + 1 /\ arrived \in Nat
     BY DEF DataType, Frame
  <2>3. Queued' \subseteq Queued \cup {f}
     BY <2>1, Zenon DEF Queued, IsSystem
  <2>4. Forwarding' = Forwarding /\ InputInHand' = InputInHand
     BY <1>1, Zenon DEF Forwarding, InputInHand, IsSystem
  <2>5. Coming' \subseteq Coming \cup {f}
     BY <1>1, <2>3, <2>4, Zenon DEF Coming
  <2>6. Waiting' \subseteq Waiting \cup {f}
     BY <1>1, <2>5, Zenon DEF Waiting
  <2>7. \A m \in Loops : InHand(m)' = InHand(m)
     BY <1>1, Zenon DEF InHand
  <2>8. Unhandled' \subseteq Unhandled \cup {f}
     BY <1>1, <2>6, <2>7, Zenon DEF Unhandled
  <2>9. \A g, S, T : /\ Before(g, S) /\ g.id <= arrived /\ g \in Frame
                     /\ T \subseteq S \cup {f}
                     => Before(g, T) /\ g.id <= arrived'
     BY <2>1, <2>2, SMTT(30) DEF Before, Frame
  <2>10. \A g \in inq : g \in Frame /\ g.id <= arrived
     BY Zenon DEF DataType, OrderInv
  <2>11. \A g \in inq' : g.id <= arrived'
     BY <2>1, <2>2, <2>10 DEF Frame
  <2>12. \A g, h \in inq' : g.id = h.id => g = h
     BY <2>1, <2>2, <2>10, SMTT(30) DEF Frame, OrderInv
  <2>13. Forwarding' => Before(ifr', Queued')
     BY <1>1, <2>3, <2>4, <2>9, ZenonT(30)
        DEF OrderInv, DataType, Forwarding, InputInHand
  <2>14. InputInHand' => ifr'.id <= arrived'
    <3>1. InputInHand' => InputInHand /\ ifr' = ifr
       BY <1>1, <2>4, Zenon
    <3>2. InputInHand => ifr \in Frame /\ ifr.id <= arrived
       BY Zenon DEF OrderInv, DataType, InputInHand
    <3>3. \A n \in Nat : n <= arrived => n <= arrived'
       BY <2>1, <2>2
    <3>4. \A g \in Frame : g.id \in Nat
       BY Zenon DEF Frame
    <3> QED
       BY <3>1, <3>2, <3>3, <3>4, Zenon
  <2>15. \A x \in procq' : /\ Before(x.frame, Coming')
                           /\ x.frame.id <= arrived'
     BY <1>1, <2>5, <2>9, SMTT(30) DEF OrderInv, DataType, Item
  <2>16. cl' = "no" => \A m \in Loops : InHand(m)' =>
            Before(held'[m], Waiting') /\ held'[m].id <= arrived'
    <3> SUFFICES ASSUME cl' = "no", NEW m \in Loops, InHand(m)'
                 PROVE  Before(held'[m], Waiting') /\ held'[m].id <= arrived'
       OBVIOUS
    <3>1. cl = "no" /\ held' = held /\ InHand(m)
       BY <1>1, <2>7, Zenon
    <3>2. held[m] \in Frame /\ Before(held[m], Waiting) /\ held[m].id <= arrived
       BY <3>1, Zenon DEF OrderInv, DataType
    <3> QED
       BY <2>6, <2>9, <3>1, <3>2, Zenon
  <2>17. cl' = "no" => \A i \in 1..Len(out') :
            ~IsSystem(out'[i]) => /\ Before(out'[i], Unhandled')
                                  /\ out'[i].id <= arrived'
    <3>1. \A i \in 1..Len(out) : out[i] \in Frame
       BY SMTT(30) DEF DataType
    <3> QED
       BY <1>1, <2>8, <2>9, <3>1, ZenonT(30) DEF OrderInv
  <2>18. (cl = "no" => InOrder)' = (cl = "no" => InOrder)
     BY <1>1, Zenon DEF InOrder, IsSystem
  <2> HIDE DEF f
  <2> QED
     BY <1>1, <2>7, <2>11, <2>12, <2>13, <2>14, <2>15, <2>16, <2>17, <2>18, Zenon
        DEF OrderInv, IsSystem
<1> QED
     BY <1>2, <1>3, Zenon

(* Every step of the input goroutine keeps the order.                      *)
LEMMA OrderInput ==
  ASSUME DataType, OrderInv, Input
  PROVE  OrderInv'
<1> USE DEF InputKeeps, taskVars, taskCtx, procVars, history
<1>1. CASE InputGate \/ InputExit \/ InputFinish
  <2>1. /\ ipc' \in {"get", "exit"}
        /\ UNCHANGED <<out, arrived, inq, ptail, held, procq, pc, cl>>
    BY <1>1, Zenon DEF InputGate, InputExit, InputFinish
  <2> QED
    BY <2>1, OrderShrinks, Zenon DEF Forwarding, InputInHand, InHand, SystemPlaces
<1>2. CASE InputMoves
  <2>1. /\ UNCHANGED <<out, arrived, inq, ptail, held, procq, ifr, pc, cl>> /\ InputInHand
    BY <1>2, InputMoved, Zenon
  <2>2. ipc' \in SystemPlaces => IsSystem(ifr)
    <3> USE DEF OrderInv, SystemPlaces, IsSystem, SystemKinds
    <3>1. CASE InputCheck \/ InputWake \/ InputUnblock \/ InputInterrupt \/ InputCancel
      BY <3>1, Zenon DEF InputCheck, InputWake, InputUnblock, InputInterrupt, InputCancel
    <3>2. CASE InputCancelTask \/ InputAwait
      BY <3>2, Zenon DEF InputCancelTask, InputAwait
    <3>3. CASE InputPause \/ InputPauseClear \/ InputOther
      BY <3>3, Zenon DEF InputPause, InputPauseClear, InputOther
    <3> QED
      BY <1>2, <3>1, <3>2, <3>3, Zenon DEF InputMoves
  <2>3. ipc' \in {"check", "wait", "unblock", "dispatch"}
            => ipc \in {"check", "wait", "unblock", "dispatch"}
    <3>1. CASE InputCheck \/ InputWake \/ InputUnblock \/ InputInterrupt \/ InputCancel
      BY <3>1, Zenon DEF InputCheck, InputWake, InputUnblock, InputInterrupt, InputCancel
    <3>2. CASE InputCancelTask \/ InputAwait
      BY <3>2, Zenon DEF InputCancelTask, InputAwait, AfterCancel
    <3>3. CASE InputPause \/ InputPauseClear \/ InputOther
      BY <3>3, Zenon DEF InputPause, InputPauseClear, InputOther
    <3> QED
      BY <1>2, <3>1, <3>2, <3>3, Zenon DEF InputMoves
  <2> QED
    BY <2>1, <2>2, <2>3, OrderShrinks, Zenon DEF Forwarding, IsSystem, InHand
<1>3. CASE InputStart \/ InputCreate \/ InputReset
  <2>1. /\ UNCHANGED <<out, arrived, inq, ptail, held, ifr, cl>> /\ InputInHand
        /\ ipc' = "push" /\ procq' \subseteq procq
        /\ \A l \in Loops : InHand(l)' => InHand(l)
    BY <1>3, CreateEffect, Zenon DEF InputStart, InputCreate, InputReset, InputInHand, InHand, Reset
  <2>2. IsSystem(ifr)
    BY <1>3, Zenon DEF InputStart, InputCreate, InputReset, OrderInv, IsSystem, SystemKinds
  <2> QED
    BY <2>1, <2>2, OrderShrinks, Zenon DEF Forwarding, IsSystem
<1> QED
  BY <1>1, <1>2, <1>3, OrderInputGet, OrderInputForward, OrderInputPush, Zenon DEF Input, InputMoves

(* Every step of a process goroutine keeps the order.                      *)
LEMMA OrderLoop ==
  ASSUME DataType, TaskInv, OrderInv, NEW l \in Loops, Loop(l)
  PROVE  OrderInv'
<1>1. CASE LoopGet(l)
  BY <1>1, OrderLoopGet, Zenon
<1>2. CASE LoopPush(l)
  BY <1>2, OrderLoopPush, Zenon
<1>3. CASE ~LoopGet(l) /\ ~LoopPush(l)
  <2>1. /\ UNCHANGED <<out, arrived, inq, ptail, held, procq, ipc, ifr, cl>>
        /\ \A m \in Loops : InHand(m)' => InHand(m)
    BY <1>3, LoopEffect, Zenon DEF DataType
  <2> QED
    BY <2>1, OrderShrinks, Zenon DEF Forwarding, InputInHand, SystemPlaces, OrderInv, IsSystem
<1> QED
  BY <1>1, <1>2, <1>3, Zenon

(* Every step of the processor keeps OrderInv.                             *)
LEMMA OrderStep ==
  ASSUME TypeOK, TaskInv, OrderInv, [Next]_vars
  PROVE  OrderInv'
<1> USE DEF TypeOK
<1>1. ASSUME UNCHANGED <<out, arrived, inq, ptail, held, ipc, ifr, pc>>,
             procq' \subseteq procq, cl' = "no" => cl = "no"
      PROVE  OrderInv'
  BY <1>1, OrderShrinks, Zenon DEF Forwarding, InputInHand, InHand, SystemPlaces, OrderInv, IsSystem
<1>2. CASE Control
  BY <1>1, <1>2, ControlEffect, Zenon DEF Reset
<1>3. CASE Cleanup
  BY <1>1, <1>3, CleanupEffect, Zenon
<1>4. CASE UNCHANGED vars
  BY <1>1, <1>4, Zenon DEF vars
<1> QED
  BY <1>2, <1>3, <1>4, OrderQueueFrame, OrderInput, OrderLoop, Zenon DEF Next

(* Where ProcessFrame honours its context, data and control frames are     *)
(* pushed on in the order QueueFrame accepted them, each at most once, for *)
(* any number of frames, interruptions, pauses and restarts of the process *)
(* goroutine.                                                              *)
THEOREM FramesInOrder ==
  ASSUME HonorsCtx
  PROVE  Spec => []InOrder
<1>1. Init => OrderInv
  <2> SUFFICES ASSUME Init PROVE OrderInv
    OBVIOUS
  <2>1. /\ inq = {} /\ procq = {} /\ Len(out) = 0 /\ ipc = "gate"
        /\ \A l \in Loops : ~InHand(l)
    BY Zenon DEF Init, InHand
  <2>2. ~InputInHand /\ ~Forwarding
    BY <2>1 DEF InputInHand, Forwarding
  <2>3. \A i \in 1..Len(out) : FALSE
    BY <2>1
  <2>4. InOrder
    BY <2>3, Zenon DEF InOrder
  <2>5. ipc \notin {"reset", "cancel", "await", "create", "pauseClear", "push"}
    BY <2>1
  <2> QED
    BY <2>1, <2>2, <2>3, <2>4, <2>5, Zenon DEF OrderInv
<1>2. TypeOK /\ TaskInv /\ OrderInv /\ [Next]_vars => OrderInv'
  BY OrderStep, SMTT(30)
<1>3. OrderInv => InOrder
  BY Zenon DEF OrderInv, InOrder
<1> QED
  BY <1>1, <1>2, <1>3, TypeCorrect, TaskInvariant, PTL DEF Spec

-----------------------------------------------------------------------------
(* The StartFrame comes first.                                             *)

(* Until the first frame is pushed on, the StartFrame is at the head of    *)
(* the input queue or in the input goroutine's hands, and nothing has      *)
(* been forwarded.                                                         *)
StartInv ==
    /\ startGate /\ ipc = "gate" => \E f \in inq : f.kind = "start"
    /\ out = <<>> =>
          /\ procq = {} /\ \A l \in Loops : ~InHand(l)
          /\ ipc = "get" => \E f \in inq : f.kind = "start"
          /\ InputInHand => ifr.kind = "start"
          /\ ipc # "finish"
    /\ StartFirst

(* The input goroutine opens its gate, takes the StartFrame first and      *)
(* pushes nothing on before it.                                            *)
LEMMA StartInvInput ==
  ASSUME DataType, StartInv, Input
  PROVE  StartInv'
<1> USE DEF InputKeeps, taskVars, procVars, history
<1>1. CASE InputGate
  <2>1. ipc = "gate" /\ startGate /\ ipc' = "get" /\ UNCHANGED <<inq, procq, pc, out>>
    BY <1>1, Zenon DEF InputGate
  <2> QED
    BY <2>1, Zenon DEF StartInv, StartFirst, InputInHand, InHand
<1>2. CASE InputGet
  <2>1. PICK f \in inq : IsNextIn(f, inq) /\ ifr' = f
    BY <1>2, Zenon DEF InputGet
  <2>2. ipc = "get" /\ ipc' = "check" /\ UNCHANGED <<procq, pc, out>>
    BY <1>2, Zenon DEF InputGet
  <2>3. out = <<>> => f.kind = "start"
    BY <2>1, <2>2 DEF StartInv, IsNextIn, Tier
  <2> QED
    BY <2>1, <2>2, <2>3, Zenon DEF StartInv, StartFirst, InputInHand, InHand
<1>3. CASE InputExit
  <2>1. ipc' = "exit" /\ UNCHANGED <<procq, pc, out>>
    BY <1>3, Zenon DEF InputExit
  <2> QED
    BY <2>1, Zenon DEF StartInv, StartFirst, InputInHand, InHand
<1>4. CASE InputMoves
  <2>1. UNCHANGED <<ifr, inq, procq, pc, out, startGate>> /\ InputInHand /\ InputInHand'
    BY <1>4, InputMoved, Zenon
  <2> QED
    BY <2>1, Zenon DEF StartInv, StartFirst, InputInHand, InHand
<1>5. CASE InputForward
  <2>1. InputInHand /\ ifr.kind # "start" /\ ipc' = "get" /\ UNCHANGED out
    BY <1>5, Zenon DEF InputForward, InputInHand, IsSystem, SystemKinds
  <2> QED
    BY <2>1, Zenon DEF StartInv, StartFirst
<1>6. CASE InputStart \/ InputCreate
  <2>1. /\ InputInHand /\ UNCHANGED <<ifr, out>> /\ ipc' = "push"
        /\ procq' \subseteq procq
        /\ \A l \in Loops : InHand(l)' => InHand(l)
    BY <1>6, CreateEffect, Zenon DEF InputStart, InputCreate, InputInHand, Reset
  <2> QED
    BY <2>1, Zenon DEF StartInv, StartFirst, InputInHand
<1>7. CASE InputReset
  <2>1. /\ InputInHand /\ UNCHANGED <<ifr, pc, out>> /\ ipc' = "push" /\ procq' \subseteq procq
    BY <1>7, Zenon DEF InputReset, Reset, InputInHand
  <2> QED
    BY <2>1, Zenon DEF StartInv, StartFirst, InputInHand, InHand
<1>8. CASE InputPush
  <2>1. InputInHand /\ out' = Append(out, ifr) /\ ipc' = "finish" /\ ifr \in Frame
    BY <1>8, Zenon DEF InputPush, InputInHand, DataType
  <2>2. out' # <<>> /\ out'[1] = IF out = <<>> THEN ifr ELSE out[1]
    BY <2>1 DEF DataType
  <2> QED
    BY <2>1, <2>2, Zenon DEF StartInv, StartFirst
<1>9. CASE InputFinish
  <2>1. ipc = "finish" /\ ipc' = "get" /\ UNCHANGED out
    BY <1>9, Zenon DEF InputFinish
  <2> QED
    BY <2>1, Zenon DEF StartInv, StartFirst
<1> QED
  BY <1>1, <1>2, <1>3, <1>4, <1>5, <1>6, <1>7, <1>8, <1>9, Zenon DEF Input, InputMoves

(* A process goroutine has nothing to handle before the StartFrame is      *)
(* pushed on.                                                              *)
LEMMA StartInvLoop ==
  ASSUME DataType, StartInv, NEW l \in Loops, Loop(l)
  PROVE  StartInv'
<1>1. UNCHANGED <<inq, startGate, ipc, ifr>>
  BY LoopEffect, Zenon DEF DataType
<1>2. CASE out = <<>>
  <2>1. ~LoopGet(l) /\ ~LoopPush(l)
    BY <1>2, Zenon DEF StartInv, LoopGet, LoopPush, InHand
  <2>2. UNCHANGED <<procq, out>> /\ \A m \in Loops : InHand(m)' => InHand(m)
    BY <2>1, LoopEffect, Zenon DEF DataType
  <2> QED
    BY <1>1, <1>2, <2>2, Zenon DEF StartInv, StartFirst, InputInHand
<1>3. CASE out # <<>>
  <2>1. UNCHANGED out \/ out' = Append(out, held[l])
    <3>1. CASE LoopPush(l)
      BY <3>1, Zenon DEF LoopPush
    <3>2. CASE ~LoopPush(l)
      BY <3>2, LoopEffect, Zenon DEF DataType
    <3> QED
      BY <3>1, <3>2, Zenon
  <2>2. out' # <<>> /\ out'[1] = out[1]
    <3>1. CASE UNCHANGED out
      BY <1>3, <3>1, Zenon
    <3>2. CASE out' = Append(out, held[l])
      <4>1. out \in Seq(Frame) /\ held[l] \in Frame \cup {NoFrame} /\ Len(out) >= 1
        BY <1>3 DEF DataType
      <4>2. out'[1] = out[1] /\ Len(out') = Len(out) + 1
        BY <3>2, <4>1
      <4> QED
        BY <4>1, <4>2
    <3> QED
      BY <2>1, <3>1, <3>2, Zenon
  <2> QED
    BY <1>1, <1>3, <2>2, Zenon DEF StartInv, StartFirst
<1> QED
  BY <1>2, <1>3, Zenon

(* Every step of the processor keeps StartInv.                             *)
LEMMA StartStep ==
  ASSUME TypeOK, StartInv, [Next]_vars
  PROVE  StartInv'
<1> USE DEF TypeOK
<1>1. ASSUME NEW k \in Kinds, QueueFrame(k) PROVE StartInv'
  <2>1. UNCHANGED <<ipc, ifr, procq, pc, out>>
    BY <1>1, Zenon DEF QueueFrame, taskVars, procVars, history
  <2>2. inq \subseteq inq'
    BY <1>1, Zenon DEF QueueFrame
  <2>3. startGate' => startGate \/ \E f \in inq' : f.kind = "start"
    <3>1. CASE canceling
      BY <1>1, <3>1, ZenonT(30) DEF QueueFrame
    <3>2. CASE ~canceling /\ k # "start"
      BY <1>1, <3>2, ZenonT(30) DEF QueueFrame
    <3>3. CASE ~canceling /\ k = "start"
      <4>1. [id |-> arrived + 1, kind |-> k] \in inq'
        BY <1>1, <3>3, Zenon DEF QueueFrame
      <4> QED
        BY <3>3, <4>1, Zenon
    <3> QED
      BY <3>1, <3>2, <3>3, Zenon
  <2> QED
    BY <2>1, <2>2, <2>3, Zenon DEF StartInv, StartFirst, InputInHand, InHand
<1>2. CASE Control
  <2>1. UNCHANGED <<inq, startGate, ipc, ifr, pc, out>> /\ procq' \subseteq procq
    BY <1>2, ControlEffect, Zenon DEF Reset
  <2> QED
    BY <2>1, Zenon DEF StartInv, StartFirst, InputInHand, InHand
<1>3. CASE Cleanup
  <2>1. UNCHANGED <<inq, startGate, ipc, ifr, procq, pc, out>>
    BY <1>3, CleanupEffect, Zenon
  <2> QED
    BY <2>1, Zenon DEF StartInv, StartFirst, InputInHand, InHand
<1>4. CASE UNCHANGED vars
  BY <1>4, Zenon DEF vars, StartInv, StartFirst, InputInHand, InHand
<1> QED
  BY <1>1, <1>2, <1>3, <1>4, StartInvInput, StartInvLoop, Zenon DEF Next

(* The first frame a processor pushes on is its StartFrame, whatever was   *)
(* queued before it (QueueFrame, startGate).                               *)
THEOREM StartComesFirst == Spec => []StartFirst
<1>1. Init => StartInv
  BY Zenon DEF Init, StartInv, StartFirst, InputInHand, InHand
<1>2. TypeOK /\ StartInv /\ [Next]_vars => StartInv'
  BY StartStep, Zenon
<1>3. StartInv => StartFirst
  BY Zenon DEF StartInv
<1> QED
  BY <1>1, <1>2, <1>3, TypeCorrect, PTL DEF Spec

-----------------------------------------------------------------------------
(* What an interruption leaves behind.                                     *)

(* With no uninterruptible frame in the system, an interruption always     *)
(* cancels the process goroutine, and starts its successor on an empty     *)
(* queue.                                                                  *)
FlushInv ==
    /\ left["unint"] = 0
    /\ \A f \in inq : ~Uninterruptible(f)
    /\ \A x \in procq : ~Uninterruptible(x.frame)
    /\ \A l \in Loops : ~Uninterruptible(held[l])
    /\ ~Uninterruptible(ifr) /\ ~Uninterruptible(cur)
    /\ ipc # "reset"
    /\ ipc = "pauseClear" => ifr.kind = "pauseUrgent"
    /\ cl = "no" /\ ipc = "create" => ~running
    /\ Flushed

(* When an interruption creates the next process goroutine the last one    *)
(* has ended, and resetProcessTask leaves it an empty queue.               *)
LEMMA FlushInvCreate ==
  ASSUME DataType, TaskInv, FlushInv, InputCreate
  PROVE  FlushInv'
<1> USE DEF InputKeeps, procVars, taskVars
<1>1. /\ ipc = "create" /\ ipc' = "push" /\ CreateProcessTask
      /\ UNCHANGED <<left, inq, ifr, held, cur, cl>>
     BY Zenon DEF InputCreate
<1>2. procq' \subseteq procq
     BY <1>1, CreateEffect, Zenon DEF Reset
<1>3. ASSUME cl = "no"
      PROVE  procq' = {} /\ \A l \in Loops : ~InHand(l)'
  <2>1. ~running /\ \A l \in Loops : ~Live(l)
     BY <1>1, <1>3, Zenon DEF FlushInv, TaskInv
  <2>2. procq' = Reset(procq)
     BY <1>1, <2>1, Zenon DEF CreateProcessTask, ResetProcessTask
  <2>3. procq' = {}
     BY <2>2, Zenon DEF Reset, FlushInv
  <2>4. \A l \in Loops : ~InHand(l)'
     BY <1>1, <2>1, CreateEffect, Zenon DEF Live, InHand
  <2> QED
     BY <2>3, <2>4, Zenon
<1>4. Flushed'
     BY <1>1, <1>3, Zenon DEF Flushed
<1> QED
     BY <1>1, <1>2, <1>4, Zenon DEF FlushInv, Uninterruptible

(* A step of the input goroutine on the frame it holds goes to "push" with *)
(* an interruption only by way of "create".                                *)
LEMMA FlushInvMoves ==
  ASSUME DataType, TaskInv, FlushInv, InputMoves
  PROVE  FlushInv'
<1>1. UNCHANGED <<left, inq, ifr, procq, held, cur, cl>>
  BY InputMoved, Zenon
<1>2. /\ ipc' # "reset"
      /\ ipc' = "pauseClear" => ifr.kind = "pauseUrgent"
      /\ ipc' = "push" => ifr.kind # "interruption"
  <2> USE DEF FlushInv
  <2>1. CASE InputCheck \/ InputWake \/ InputUnblock \/ InputInterrupt \/ InputCancel
    BY <2>1, Zenon DEF InputCheck, InputWake, InputUnblock, InputInterrupt, InputCancel
  <2>2. CASE InputCancelTask \/ InputAwait
    BY <2>2, Zenon DEF InputCancelTask, InputAwait, AfterCancel
  <2>3. CASE InputPause \/ InputPauseClear \/ InputOther
    BY <2>3, Zenon DEF InputPause, InputPauseClear, InputOther
  <2> QED
    BY <2>1, <2>2, <2>3, Zenon DEF InputMoves
<1>3. cl = "no" /\ ipc' = "create" => ~running'
  <2>1. CASE InputCancelTask
    BY <2>1, ZenonT(20) DEF InputCancelTask
  <2>2. CASE InputAwait
    <3>1. ipc = "await" /\ running' = running
      BY <2>2, Zenon DEF InputAwait, taskVars, taskCtx
    <3> QED
      BY <3>1, Zenon DEF TaskInv
  <2>3. CASE ~(InputCancelTask \/ InputAwait)
    BY <2>3, Zenon DEF InputMoves, InputCheck, InputWake, InputUnblock, InputInterrupt, InputCancel,
                InputPause, InputPauseClear, InputOther
  <2> QED
    BY <2>1, <2>2, <2>3, Zenon
<1> QED
  BY <1>1, <1>2, <1>3, Zenon DEF FlushInv, Flushed, Uninterruptible

(* Every step of the input goroutine keeps FlushInv.                       *)
LEMMA FlushInvInput ==
  ASSUME DataType, TaskInv, FlushInv, Input
  PROVE  FlushInv'
<1> USE DEF InputKeeps, taskVars, procVars
<1>1. CASE InputGate
  <2>1. ipc' = "get" /\ UNCHANGED <<left, inq, ifr, procq, held, cur>>
    BY <1>1, Zenon DEF InputGate
  <2> QED
    BY <2>1, Zenon DEF FlushInv, Flushed, Uninterruptible
<1>2. CASE InputGet
  <2>1. ipc' = "check" /\ UNCHANGED <<left, procq, held, cur>>
    BY <1>2, Zenon DEF InputGet
  <2>2. PICK f \in inq : ifr' = f /\ inq' = inq \ {f}
    BY <1>2, Zenon DEF InputGet
  <2> QED
    BY <2>1, <2>2, Zenon DEF FlushInv, Flushed, Uninterruptible
<1>3. CASE InputExit
  <2>1. ipc' = "exit" /\ UNCHANGED <<left, inq, procq, held, cur>> /\ ifr' \in {ifr, NoFrame}
    BY <1>3, Zenon DEF InputExit
  <2>2. Uninterruptible(ifr') => Uninterruptible(ifr)
    BY <2>1 DEF Uninterruptible, NoFrame
  <2> QED
    BY <2>1, <2>2, Zenon DEF FlushInv, Flushed
<1>4. CASE InputMoves
  BY <1>4, FlushInvMoves, Zenon
<1>5. CASE InputForward
  <2>1. ipc' = "get" /\ UNCHANGED <<left, inq, held, cur>> /\ ifr' \in {ifr, NoFrame}
    BY <1>5, Zenon DEF InputForward
  <2>2. \A x \in procq' : x \in procq \/ x.frame = ifr
    BY <1>5 DEF InputForward
  <2> QED
    BY <2>1, <2>2 DEF FlushInv, Flushed, Uninterruptible, NoFrame
<1>6. CASE InputStart
  <2>1. /\ ipc' = "push" /\ ifr.kind = "start" /\ UNCHANGED <<left, inq, ifr, held, cur, cl>>
        /\ procq' \subseteq procq
    BY <1>6, CreateEffect, Zenon DEF InputStart, Reset
  <2> QED
    BY <2>1, Zenon DEF FlushInv, Flushed, Uninterruptible
<1>7. CASE InputReset
  BY <1>7, Zenon DEF InputReset, FlushInv
<1>8. CASE InputCreate
  BY <1>8, FlushInvCreate, Zenon
<1>9. CASE InputPush
  <2>1. ipc' = "finish" /\ UNCHANGED <<left, inq, ifr, procq, held, cur>>
    BY <1>9, Zenon DEF InputPush
  <2> QED
    BY <2>1, Zenon DEF FlushInv, Flushed, Uninterruptible
<1>10. CASE InputFinish
  <2>1. ipc' = "get" /\ UNCHANGED <<left, inq, procq, held, cur>> /\ ifr' \in {ifr, NoFrame}
    BY <1>10, Zenon DEF InputFinish
  <2> QED
    BY <2>1 DEF FlushInv, Flushed, Uninterruptible, NoFrame
<1> QED
  BY <1>1, <1>2, <1>3, <1>4, <1>5, <1>6, <1>7, <1>8, <1>9, <1>10, Zenon DEF Input, InputMoves

(* A process goroutine finds nothing to take while the interruption is     *)
(* being pushed on.                                                        *)
LEMMA FlushInvLoop ==
  ASSUME DataType, FlushInv, NEW l \in Loops, Loop(l)
  PROVE  FlushInv'
<1>1. UNCHANGED <<left, inq, ipc, ifr, running, cl>>
  BY LoopEffect, Zenon DEF DataType
<1>2. /\ \A x \in procq' : x \in procq
      /\ \A m \in Loops : held'[m] = held[m] \/ \E x \in procq : held'[m] = x.frame
      /\ procq = {} => \A m \in Loops : InHand(m)' => InHand(m)
  <2>1. CASE LoopGet(l)
    <3>1. PICK x \in procq : procq' = procq \ {x} /\ held' = [held EXCEPT ![l] = x.frame]
      BY <2>1, Zenon DEF LoopGet
    <3> QED
      BY <3>1, Zenon DEF DataType
  <2>2. CASE ~LoopGet(l)
    BY <2>2, LoopEffect, Zenon DEF DataType
  <2> QED
    BY <2>1, <2>2, Zenon
<1>3. ~Uninterruptible(cur')
  <2>1. UNCHANGED cur \/ cur' = NoFrame \/ cur' = held[l]
    BY Zenon DEF Loop, LoopTop, LoopGet, LoopExit, LoopSetCur, LoopCheck, LoopWake, LoopAbandon,
           LoopUnblock, LoopHandle, LoopPauseClear, LoopPush, LoopGiveUp, LoopFinish
  <2>2. /\ ~Uninterruptible(cur) /\ ~Uninterruptible(held[l]) /\ ~Uninterruptible(NoFrame)
    BY Zenon DEF FlushInv, Uninterruptible, NoFrame
  <2> QED
    BY <2>1, <2>2, Zenon
<1>4. Flushed'
  BY <1>1, <1>2, Zenon DEF FlushInv, Flushed
<1> QED
  BY <1>1, <1>2, <1>3, <1>4, Zenon DEF FlushInv, Uninterruptible

(* Every step of the processor keeps FlushInv.                             *)
LEMMA FlushStep ==
  ASSUME TypeOK, TaskInv, FlushInv, [Next]_vars
  PROVE  FlushInv'
<1> USE DEF TypeOK
<1>1. ASSUME NEW k \in Kinds, QueueFrame(k) PROVE FlushInv'
  <2>1. UNCHANGED <<ipc, ifr, procq, pc, held, cur, running, cl>>
    BY <1>1, Zenon DEF QueueFrame, taskVars, taskCtx, procVars
  <2>2. k # "unint" /\ left'["unint"] = 0
    <3>1. left[k] > 0 /\ left' = [left EXCEPT ![k] = @ - 1] /\ left["unint"] = 0
      BY <1>1, Zenon DEF QueueFrame, FlushInv
    <3> QED
      BY <3>1 DEF DataType
  <2>3. inq' \subseteq inq \cup {[id |-> arrived + 1, kind |-> k]}
    BY <1>1, Zenon DEF QueueFrame
  <2>4. \A f \in inq' : ~Uninterruptible(f)
    <3>1. \A f \in inq' : f \in inq \/ f.kind = k
      BY <2>3
    <3> QED
      BY <3>1, <2>2, Zenon DEF FlushInv, Uninterruptible
  <2> QED
    BY <2>1, <2>2, <2>4, Zenon
       DEF FlushInv, Flushed, InHand, Uninterruptible
<1>2. CASE Control
  <2>1. UNCHANGED <<left, inq, ipc, ifr, pc, held, cur, running, cl>> /\ procq' \subseteq procq
    BY <1>2, ControlEffect, Zenon DEF Reset
  <2> QED
    BY <2>1, Zenon DEF FlushInv, Flushed, InHand, Uninterruptible
<1>3. CASE Cleanup
  <2>1. UNCHANGED <<left, inq, ipc, ifr, procq, pc, held, cur>> /\ cl' # "no"
    BY <1>3, CleanupEffect, Zenon
  <2> QED
    BY <2>1, Zenon DEF FlushInv, Flushed, InHand, Uninterruptible
<1>4. CASE UNCHANGED vars
  BY <1>4, Zenon DEF vars, FlushInv, Flushed, InHand, Uninterruptible
<1> QED
  BY <1>1, <1>2, <1>3, <1>4, FlushInvInput, FlushInvLoop, Zenon DEF Next

(* Nothing changes the scenario the processor runs in.                     *)
LEMMA ScenarioKept ==
  ASSUME TypeOK, [Next]_vars
  PROVE  sc' = sc
<1>1. ASSUME NEW k \in Kinds, QueueFrame(k) PROVE sc' = sc
  BY <1>1, Zenon DEF QueueFrame
<1>2. CASE Input
  BY <1>2, DataTypeInput, Zenon DEF TypeOK
<1>3. ASSUME NEW l \in Loops, Loop(l) PROVE sc' = sc
  BY <1>3, LoopEffect, Zenon DEF TypeOK, DataType
<1>4. CASE UNCHANGED vars
  BY <1>4, Zenon DEF vars
<1> QED
  BY <1>1, <1>2, <1>3, <1>4, ControlEffect, CleanupEffect, Zenon DEF Next

(* Where ProcessFrame honours its context and no frame is uninterruptible, *)
(* an InterruptionFrame that is pushed on leaves no frame queued or in     *)
(* hand behind it (startInterruption).                                     *)
THEOREM InterruptionLeavesNothing ==
  ASSUME HonorsCtx
  PROVE  Spec => []InterruptionFlushes
<1> DEFINE Inv == NoUninterruptible => FlushInv
<1>1. Init => Inv
  BY DEF Init, FlushInv, Flushed, NoUninterruptible, Uninterruptible, NoFrame,
         InHand
<1>2. TypeOK /\ TaskInv /\ Inv /\ [Next]_vars => Inv'
  <2> SUFFICES ASSUME TypeOK, TaskInv, Inv, [Next]_vars, NoUninterruptible'
               PROVE  FlushInv'
    OBVIOUS
  <2>1. NoUninterruptible
    BY ScenarioKept, Zenon DEF NoUninterruptible
  <2> QED
    BY <2>1, FlushStep, Zenon
<1>3. Inv => InterruptionFlushes
  BY Zenon DEF FlushInv, InterruptionFlushes
<1> HIDE DEF Inv
<1> QED
  BY <1>1, <1>2, <1>3, TypeCorrect, TaskInvariant, PTL DEF Spec
=============================================================================
