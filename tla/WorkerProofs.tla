---------------------------- MODULE WorkerProofs ----------------------------
(***************************************************************************)
(* One run of a worker sends one CancelFrame, reports its end once, tears  *)
(* a canceled pipeline down and flushes a graceful end, for any number of  *)
(* queued frames, processors and callers.                                  *)
(***************************************************************************)
EXTENDS Worker, SequenceTheorems, TLAPS

(* Dropping a frame leaves a sequence of the same kinds.                   *)
LEMMA RemoveAtType ==
  ASSUME NEW S, NEW s \in Seq(S), NEW i \in 1..Len(s)
  PROVE  RemoveAt(s, i) \in Seq(S)
<1>1. SubSeq(s, 1, i - 1) \in Seq(S)
  BY SubSeqProperties
<1>2. SubSeq(s, i + 1, Len(s)) \in Seq(S)
  BY SubSeqProperties
<1> QED
  BY <1>1, <1>2, ConcatProperties DEF RemoveAt

(* Only the last element of s is in E.                                     *)
OnlyLast(s, E) == \A i \in 1..Len(s) : s[i] \in E => i = Len(s)

(* Taking the head off a sequence in which only the last element is in E   *)
(* leaves such a sequence, and the empty one if the head is in E.          *)
LEMMA TailKeepsLast ==
  ASSUME NEW S, NEW s \in Seq(S), s # <<>>, NEW E, OnlyLast(s, E)
  PROVE  /\ Head(s) \in E => Tail(s) = <<>>
         /\ OnlyLast(Tail(s), E)
<1>1. Len(s) \in Nat \ {0} /\ Head(s) = s[1] /\ Len(Tail(s)) = Len(s) - 1
  OBVIOUS
<1>2. \A i \in 1..Len(Tail(s)) :
         i + 1 \in 1..Len(s) /\ Tail(s)[i] = s[i + 1]
  BY <1>1
<1>3. ASSUME Head(s) \in E PROVE Tail(s) = <<>>
  <2>1. 1 \in 1..Len(s) /\ s[1] \in E
    BY <1>1, <1>3
  <2>2. Len(s) = 1
    BY <2>1, Zenon DEF OnlyLast
  <2>3. Tail(s) \in Seq(S)
    OBVIOUS
  <2>4. Len(Tail(s)) = 0
    BY <1>1, <2>2
  <2> QED
    BY <2>3, <2>4, EmptySeq, Zenon
<1>4. ASSUME NEW i \in 1..Len(Tail(s)), Tail(s)[i] \in E
      PROVE  i = Len(Tail(s))
  <2>1. i + 1 \in 1..Len(s) /\ s[i + 1] \in E
    BY <1>2, <1>4
  <2>2. i + 1 = Len(s)
    BY <2>1, Zenon DEF OnlyLast
  <2>3. i \in Nat
    BY <1>1
  <2>4. ASSUME NEW n \in Nat, NEW m \in Nat, m + 1 = n
        PROVE  m = n - 1
    BY <2>4
  <2>5. i = Len(s) - 1
    BY <1>1, <2>2, <2>3, <2>4, Zenon
  <2> QED
    BY <1>1, <2>5, Zenon
<1> QED
  BY <1>3, <1>4, Zenon DEF OnlyLast

(* Taking the head off a sequence with no element in E.                    *)
LEMMA TailKeepsNone ==
  ASSUME NEW S, NEW s \in Seq(S), s # <<>>, NEW E,
         \A i \in 1..Len(s) : s[i] \notin E
  PROVE  /\ Head(s) \notin E
         /\ \A i \in 1..Len(Tail(s)) : Tail(s)[i] \notin E
<1>1. Len(s) \in Nat \ {0} /\ Head(s) = s[1] /\ Len(Tail(s)) = Len(s) - 1
  OBVIOUS
<1>2. \A i \in 1..Len(Tail(s)) :
         i + 1 \in 1..Len(s) /\ Tail(s)[i] = s[i + 1]
  BY <1>1
<1> QED
  BY <1>1, <1>2

(* A step of the run loop keeps the type of the data.                      *)
LEMMA DataTypeRun ==
  ASSUME DataType, RunLoop
  PROVE  DataType'
<1> USE DEF DataType, RunPlaces, EndKinds, WorkerKinds, Ordered, runVars,
      callVars, pipeVars, endVars, signals
<1>1. CASE SetUp
     BY <1>1 DEF SetUp
<1>2. CASE SetupError
     BY <1>2 DEF SetupError
<1>3. CASE SetupTimeout
     BY <1>3 DEF SetupTimeout
<1>4. CASE SendStart
     BY <1>4 DEF SendStart
<1>5. CASE Started
     BY <1>5 DEF Started
<1>6. CASE StartTimeout
     BY <1>6 DEF StartTimeout
<1>7. CASE RunCtxDone
     BY <1>7 DEF RunCtxDone
<1>8. CASE PushQueued
  <2> DEFINE k == Head(pushQueue)
  <2>1. k \in Ordered \cup {"cancel"} /\ pushQueue' = Tail(pushQueue)
     BY <1>8 DEF PushQueued
  <2>2. pushQueue' \in Seq(Ordered \cup {"cancel"})
     BY <1>8, <2>1 DEF PushQueued
  <2>3. CASE k = "cancel"
    <3>1. urgent' = urgent \cup {"cancel"} /\ cancels' = cancels + 1
     BY <1>8, <2>3 DEF PushQueued
    <3>2. /\ UNCHANGED <<queued, unusable, travelling, returning, reports>>
          /\ rl' = "waitCancel" /\ endFrame' = "cancel"
     BY <1>8, <2>3 DEF PushQueued
    <3>3. urgent' \subseteq {"start", "cancel"}
     BY <3>1, Zenon
    <3>4. cancels' \in Nat
     BY <3>1
    <3> QED
     BY <2>2, <3>2, <3>3, <3>4
  <2>4. CASE k # "cancel"
    <3>1. travelling' = Append(travelling, k) /\ k \in Ordered
     BY <1>8, <2>1, <2>4 DEF PushQueued
    <3>2. travelling' \in Seq(Ordered)
     BY <3>1
    <3> QED
     BY <1>8, <2>2, <2>4, <3>2, Zenon DEF PushQueued
  <2> QED
     BY <2>3, <2>4
<1>9. CASE EndArrived
     BY <1>9 DEF EndArrived
<1>10. CASE CancelOver
     BY <1>10 DEF CancelOver, CallPipelineFinished
<1>11. CASE CancelCtxDone
     BY <1>11 DEF CancelCtxDone, CallPipelineFinished
<1>12. CASE CancelOnContextEnd
  <2>1. CASE cancelFrame
     BY <1>12, <2>1, Zenon DEF CancelOnContextEnd
  <2>2. CASE ~cancelFrame
    <3>1. urgent' = urgent \cup {"cancel"} /\ cancels' = cancels + 1
     BY <1>12, <2>2 DEF CancelOnContextEnd
    <3>2. /\ UNCHANGED <<queued, pushQueue, unusable, travelling, returning>>
          /\ UNCHANGED <<reports, endFrame>> /\ rl' = "ctxWait"
     BY <1>12, <2>2 DEF CancelOnContextEnd
    <3>3. urgent' \subseteq {"start", "cancel"}
     BY <3>1, Zenon
    <3>4. cancels' \in Nat
     BY <3>1
    <3> QED
     BY <3>2, <3>3, <3>4
  <2> QED
     BY <2>1, <2>2
<1>13. CASE Teardown
     BY <1>13 DEF Teardown
<1>14. CASE Finish
     BY <1>14 DEF Finish
<1> HIDE DEF DataType, RunPlaces, EndKinds, WorkerKinds, Ordered, runVars,
      callVars, pipeVars, endVars, signals
<1> QED
     BY <1>1, <1>2, <1>3, <1>4, <1>5, <1>6, <1>7, <1>8, <1>9, <1>10, <1>11,
        <1>12, <1>13, <1>14, SMTT(30) DEF RunLoop

(* A step of the pipeline and its ends keeps the type of the data.         *)
LEMMA DataTypePipe ==
  ASSUME DataType, Pipeline
  PROVE  DataType'
<1> USE DEF DataType, RunPlaces, EndKinds, WorkerKinds, Ordered, runVars,
      callVars, pipeVars, endVars, signals
<1>1. CASE SinkStart
     BY <1>1 DEF SinkStart, Flowing
<1>2. CASE SinkCancel
     BY <1>2 DEF SinkCancel, Flowing
<1>3. CASE SinkOrdered
  <2> DEFINE k == Head(travelling)
  <2>1. k \in Ordered /\ travelling' \in Seq(Ordered)
     BY <1>3 DEF SinkOrdered
  <2>2. returning' \in Seq({"endWorker", "stopWorker"})
     BY <1>3, <2>1 DEF SinkOrdered
  <2>3. reports' \in Seq(EndKinds)
    <3>1. \/ reports' = reports
          \/ k \in EndKinds /\ reports' = Append(reports, k)
     BY <1>3 DEF SinkOrdered, CallPipelineFinished
    <3>2. reports \in Seq(EndKinds)
     OBVIOUS
    <3> HIDE DEF DataType, EndKinds
    <3> QED
     BY <3>1, <3>2, AppendProperties
  <2> QED
     BY <1>3, <2>1, <2>2, <2>3 DEF SinkOrdered
<1>4. CASE SourceWorkerFrame
     BY <1>4 DEF SourceWorkerFrame, Flowing
<1>5. CASE Dropped
     BY <1>5, RemoveAtType DEF Dropped
<1> HIDE DEF DataType, RunPlaces, EndKinds, WorkerKinds, Ordered, runVars,
      callVars, pipeVars, endVars, signals
<1> QED
     BY <1>1, <1>2, <1>3, <1>4, <1>5, SMTT(30) DEF Pipeline

(* A step of a caller keeps the type of the data.                          *)
LEMMA DataTypeCall ==
  ASSUME DataType, Callers
  PROVE  DataType'
<1> USE DEF DataType, RunPlaces, EndKinds, WorkerKinds, Ordered, runVars,
      callVars, pipeVars, endVars, signals
<1>1. ASSUME NEW k \in Queueable, QueueFrame(k) PROVE DataType'
     BY <1>1, QueueableAssumption DEF QueueFrame
<1>2. ASSUME NEW k \in Queueable \cap WorkerKinds, QueueUpstream(k)
      PROVE  DataType'
     BY <1>2, QueueableAssumption DEF QueueUpstream
<1>3. CASE Cancel
     BY <1>3 DEF Cancel, CancelWithReason
<1>4. CASE QueueCancel
     BY <1>4 DEF QueueCancel
<1>5. ASSUME NEW p \in Processors, HandleUnusableProcessor(p) PROVE DataType'
     BY <1>5 DEF HandleUnusableProcessor, CancelWithReason
<1>6. CASE EndContext
     BY <1>6 DEF EndContext
<1>7. CASE Wedge
     BY <1>7, SMTT(30) DEF Wedge
<1> HIDE DEF DataType, RunPlaces, EndKinds, WorkerKinds, Ordered, runVars,
      callVars, pipeVars, endVars, signals
<1> QED
     BY <1>1, <1>2, <1>3, <1>4, <1>5, <1>6, <1>7, SMTT(30) DEF Callers

(* A step of the run loop keeps the flags Boolean.                         *)
LEMMA FlagTypeRun ==
  ASSUME FlagType, RunLoop
  PROVE  FlagType'
<1> USE DEF FlagType, runVars, callVars, pipeVars, endVars, signals
<1>1. CASE SetUp
     BY <1>1, ZenonT(30) DEF SetUp
<1>2. CASE SetupError
     BY <1>2, ZenonT(30) DEF SetupError
<1>3. CASE SetupTimeout
     BY <1>3, ZenonT(30) DEF SetupTimeout
<1>4. CASE SendStart
     BY <1>4, ZenonT(30) DEF SendStart
<1>5. CASE Started
     BY <1>5, ZenonT(30) DEF Started
<1>6. CASE StartTimeout
     BY <1>6, ZenonT(30) DEF StartTimeout
<1>7. CASE RunCtxDone
     BY <1>7, ZenonT(30) DEF RunCtxDone
<1>8. CASE PushQueued
     BY <1>8, ZenonT(30) DEF PushQueued, EndKinds, Ordered
<1>9. CASE EndArrived
     BY <1>9, ZenonT(30) DEF EndArrived
<1>10. CASE CancelOver
     BY <1>10, ZenonT(30) DEF CancelOver, CallPipelineFinished
<1>11. CASE CancelCtxDone
     BY <1>11, ZenonT(30) DEF CancelCtxDone, CallPipelineFinished
<1>12. CASE CancelOnContextEnd
     BY <1>12, ZenonT(30) DEF CancelOnContextEnd
<1>13. CASE Teardown
     BY <1>13, ZenonT(30) DEF Teardown
<1>14. CASE Finish
     BY <1>14, ZenonT(30) DEF Finish
<1> HIDE DEF FlagType, runVars, callVars, pipeVars, endVars, signals
<1> QED
     BY <1>1, <1>2, <1>3, <1>4, <1>5, <1>6, <1>7, <1>8, <1>9, <1>10, <1>11,
        <1>12, <1>13, <1>14 DEF RunLoop

(* A step of the pipeline and its ends keeps the flags Boolean.            *)
LEMMA FlagTypePipe ==
  ASSUME FlagType, Pipeline
  PROVE  FlagType'
<1> USE DEF FlagType, runVars, callVars, pipeVars, endVars, signals
<1>1. CASE SinkStart
     BY <1>1, ZenonT(30) DEF SinkStart, Flowing
<1>2. CASE SinkCancel
     BY <1>2, ZenonT(30) DEF SinkCancel, Flowing
<1>3. CASE SinkOrdered
     BY <1>3, ZenonT(30) DEF SinkOrdered, Flowing, CallPipelineFinished,
        EndKinds, WorkerKinds, Ordered
<1>4. CASE SourceWorkerFrame
     BY <1>4, ZenonT(30) DEF SourceWorkerFrame, Flowing
<1>5. CASE Dropped
     BY <1>5, ZenonT(30) DEF Dropped, Flowing, RemoveAt
<1> HIDE DEF FlagType, runVars, callVars, pipeVars, endVars, signals
<1> QED
     BY <1>1, <1>2, <1>3, <1>4, <1>5 DEF Pipeline

(* A step of a caller keeps the flags Boolean.                             *)
LEMMA FlagTypeCall ==
  ASSUME FlagType, Callers
  PROVE  FlagType'
<1> USE DEF FlagType, runVars, callVars, pipeVars, endVars, signals
<1>1. ASSUME NEW k \in Queueable, QueueFrame(k) PROVE FlagType'
     BY <1>1, ZenonT(30) DEF QueueFrame
<1>2. ASSUME NEW k \in Queueable \cap WorkerKinds, QueueUpstream(k)
      PROVE  FlagType'
     BY <1>2, ZenonT(30) DEF QueueUpstream, Flowing
<1>3. CASE Cancel
     BY <1>3, ZenonT(30) DEF Cancel, CancelWithReason
<1>4. CASE QueueCancel
     BY <1>4, ZenonT(30) DEF QueueCancel
<1>5. ASSUME NEW p \in Processors, HandleUnusableProcessor(p) PROVE FlagType'
     BY <1>5, ZenonT(30) DEF HandleUnusableProcessor, CancelWithReason
<1>6. CASE EndContext
     BY <1>6, ZenonT(30) DEF EndContext
<1>7. CASE Wedge
     BY <1>7, ZenonT(30) DEF Wedge
<1> HIDE DEF FlagType, runVars, callVars, pipeVars, endVars, signals
<1> QED
     BY <1>1, <1>2, <1>3, <1>4, <1>5, <1>6, <1>7 DEF Callers

(* Every variable of the worker keeps its type in every reachable state:   *)
(* a CancelFrame never travels in order.                                   *)
THEOREM WorkerTypes == Spec => []TypeOK
<1>1. Init => TypeOK
  <2> SUFFICES ASSUME Init PROVE TypeOK
    OBVIOUS
  <2>1. DataType
    BY DEF Init, DataType, RunPlaces
  <2>2. FlagType
    BY ZenonT(30) DEF Init, FlagType
  <2> QED
    BY <2>1, <2>2 DEF TypeOK
<1>2. TypeOK /\ [Next]_vars => TypeOK'
  <2> SUFFICES ASSUME TypeOK, [Next]_vars PROVE TypeOK'
    OBVIOUS
  <2> USE DEF TypeOK
  <2>1. CASE RunLoop
    BY <2>1, DataTypeRun, FlagTypeRun
  <2>2. CASE Pipeline
    BY <2>2, DataTypePipe, FlagTypePipe, SMTT(30)
  <2>3. CASE Callers
    BY <2>3, DataTypeCall, FlagTypeCall
  <2>4. CASE UNCHANGED vars
    <3>1. DataType'
      BY <2>4 DEF vars, DataType, runVars, callVars, pipeVars, endVars
    <3>2. FlagType'
      BY <2>4, ZenonT(30) DEF vars, FlagType, runVars, callVars, pipeVars,
         endVars, signals
    <3> QED
      BY <3>1, <3>2
  <2> QED
    BY <2>1, <2>2, <2>3, <2>4 DEF Next
<1> QED
  BY <1>1, <1>2, PTL DEF Spec

(* Where the goroutine of Run can be once a CancelFrame was sent.          *)
AfterCancel ==
    {"waitCancel", "ctxEnd", "ctxWait", "teardown", "closing", "done"}

(* cancelFrame says whether a CancelFrame was sent, and a run that sent    *)
(* one never goes back to pushing frames.                                  *)
CancelInv ==
    /\ cancelFrame => cancels = 1 /\ rl \in AfterCancel
    /\ ~cancelFrame => cancels = 0
    /\ rl \in {"waitCancel", "ctxWait"} => cancels = 1
    /\ "cancel" \in urgent => cancels = 1

(* The end of the run has been reported exactly when finishOnce is set,    *)
(* and it is set by the time a frame has ended the run: by the sink for an *)
(* EndFrame or a StopFrame, by the wait for a CancelFrame.                 *)
FinishInv ==
    /\ finishOnce => Len(reports) = 1
    /\ ~finishOnce => reports = <<>>
    /\ endSig /\ cancels = 0 => finishOnce
    /\ rl \in {"setup", "start", "waitStart", "get"} => endFrame = "none"
    /\ rl \in {"teardown", "closing", "done"} /\ endFrame \in EndKinds
          => finishOnce
    /\ rl \in {"teardown", "closing", "done"} /\ cancels > 0
          => endFrame = "cancel"
    /\ rl \in {"closing", "done"} /\ endFrame = "cancel" => cleaned

(* Until a CancelFrame is sent, the frame that ends the run is the last    *)
(* one travelling, and nothing travels once it has arrived.                *)
FlushInv ==
    cancels = 0 =>
        /\ rl \in {"setup", "start", "waitStart", "get"} =>
              /\ ~endSig
              /\ \A i \in 1..Len(travelling) : travelling[i] \notin EndKinds
        /\ OnlyLast(travelling, EndKinds)
        /\ endSig => travelling = <<>>
        /\ rl = "teardown" /\ endFrame \in {"end", "stop"} => endSig

(* A step of the run loop keeps CancelInv.                                 *)
LEMMA CancelRun ==
  ASSUME DataType, CancelInv, RunLoop
  PROVE  CancelInv'
<1> USE DEF DataType, CancelInv, AfterCancel, runVars, callVars, pipeVars,
      endVars, signals
<1>1. CASE SetUp
     BY <1>1 DEF SetUp
<1>2. CASE SetupError
     BY <1>2 DEF SetupError
<1>3. CASE SetupTimeout
     BY <1>3 DEF SetupTimeout
<1>4. CASE SendStart
     BY <1>4 DEF SendStart
<1>5. CASE Started
     BY <1>5 DEF Started
<1>6. CASE StartTimeout
     BY <1>6 DEF StartTimeout
<1>7. CASE RunCtxDone
     BY <1>7 DEF RunCtxDone
<1>8. CASE PushQueued
     BY <1>8 DEF PushQueued, EndKinds, Ordered
<1>9. CASE EndArrived
     BY <1>9 DEF EndArrived
<1>10. CASE CancelOver
     BY <1>10 DEF CancelOver, CallPipelineFinished
<1>11. CASE CancelCtxDone
     BY <1>11 DEF CancelCtxDone, CallPipelineFinished
<1>12. CASE CancelOnContextEnd
     BY <1>12 DEF CancelOnContextEnd
<1>13. CASE Teardown
     BY <1>13 DEF Teardown
<1>14. CASE Finish
     BY <1>14 DEF Finish
<1> HIDE DEF DataType, CancelInv, AfterCancel, runVars, callVars, pipeVars,
      endVars, signals
<1> QED
     BY <1>1, <1>2, <1>3, <1>4, <1>5, <1>6, <1>7, <1>8, <1>9, <1>10, <1>11,
        <1>12, <1>13, <1>14 DEF RunLoop

(* A step of the pipeline and its ends keeps CancelInv.                    *)
LEMMA CancelPipe ==
  ASSUME DataType, CancelInv, Pipeline
  PROVE  CancelInv'
<1> USE DEF DataType, CancelInv, AfterCancel, runVars, callVars, pipeVars,
      endVars, signals
<1>1. CASE SinkStart
     BY <1>1 DEF SinkStart, Flowing
<1>2. CASE SinkCancel
     BY <1>2 DEF SinkCancel, Flowing
<1>3. CASE SinkOrdered
     BY <1>3 DEF SinkOrdered, Flowing, CallPipelineFinished, EndKinds,
        WorkerKinds, Ordered
<1>4. CASE SourceWorkerFrame
     BY <1>4 DEF SourceWorkerFrame, Flowing
<1>5. CASE Dropped
     BY <1>5 DEF Dropped, Flowing, RemoveAt
<1> HIDE DEF DataType, CancelInv, AfterCancel, runVars, callVars, pipeVars,
      endVars, signals
<1> QED
     BY <1>1, <1>2, <1>3, <1>4, <1>5, SMTT(30) DEF Pipeline

(* A step of a caller keeps CancelInv.                                     *)
LEMMA CancelCall ==
  ASSUME DataType, CancelInv, Callers
  PROVE  CancelInv'
<1> USE DEF DataType, CancelInv, AfterCancel, runVars, callVars, pipeVars,
      endVars, signals
<1>1. ASSUME NEW k \in Queueable, QueueFrame(k) PROVE CancelInv'
     BY <1>1 DEF QueueFrame
<1>2. ASSUME NEW k \in Queueable \cap WorkerKinds, QueueUpstream(k)
      PROVE  CancelInv'
     BY <1>2 DEF QueueUpstream, Flowing
<1>3. CASE Cancel
     BY <1>3 DEF Cancel, CancelWithReason
<1>4. CASE QueueCancel
     BY <1>4 DEF QueueCancel
<1>5. ASSUME NEW p \in Processors, HandleUnusableProcessor(p) PROVE CancelInv'
     BY <1>5 DEF HandleUnusableProcessor, CancelWithReason
<1>6. CASE EndContext
     BY <1>6 DEF EndContext
<1>7. CASE Wedge
     BY <1>7 DEF Wedge
<1> HIDE DEF DataType, CancelInv, AfterCancel, runVars, callVars, pipeVars,
      endVars, signals
<1> QED
     BY <1>1, <1>2, <1>3, <1>4, <1>5, <1>6, <1>7, SMTT(30) DEF Callers

(* A step of the run loop keeps FinishInv.                                 *)
LEMMA FinishRun ==
  ASSUME DataType, CancelInv, FinishInv, RunLoop
  PROVE  FinishInv'
<1> USE DEF DataType, CancelInv, FinishInv, AfterCancel, EndKinds, runVars,
      callVars, pipeVars, endVars, signals
<1>1. CASE SetUp
     BY <1>1 DEF SetUp
<1>2. CASE SetupError
     BY <1>2 DEF SetupError
<1>3. CASE SetupTimeout
     BY <1>3 DEF SetupTimeout
<1>4. CASE SendStart
     BY <1>4 DEF SendStart
<1>5. CASE Started
     BY <1>5 DEF Started
<1>6. CASE StartTimeout
     BY <1>6 DEF StartTimeout
<1>7. CASE RunCtxDone
     BY <1>7 DEF RunCtxDone
<1>8. CASE PushQueued
     BY <1>8 DEF PushQueued, EndKinds, Ordered
<1>9. CASE EndArrived
     BY <1>9 DEF EndArrived
<1>10. CASE CancelOver
     BY <1>10 DEF CancelOver, CallPipelineFinished
<1>11. CASE CancelCtxDone
     BY <1>11 DEF CancelCtxDone, CallPipelineFinished
<1>12. CASE CancelOnContextEnd
     BY <1>12 DEF CancelOnContextEnd
<1>13. CASE Teardown
     BY <1>13, Zenon DEF Teardown
<1>14. CASE Finish
     BY <1>14 DEF Finish
<1> HIDE DEF DataType, CancelInv, FinishInv, AfterCancel, EndKinds, runVars,
      callVars, pipeVars, endVars, signals
<1> QED
     BY <1>1, <1>2, <1>3, <1>4, <1>5, <1>6, <1>7, <1>8, <1>9, <1>10, <1>11,
        <1>12, <1>13, <1>14, SMTT(30) DEF RunLoop

(* A step of the pipeline and its ends keeps FinishInv.                    *)
LEMMA FinishPipe ==
  ASSUME DataType, CancelInv, FinishInv, Pipeline
  PROVE  FinishInv'
<1> USE DEF DataType, CancelInv, FinishInv, AfterCancel, EndKinds, runVars,
      callVars, pipeVars, endVars, signals
<1>1. CASE SinkStart
     BY <1>1 DEF SinkStart, Flowing
<1>2. CASE SinkCancel
     BY <1>2 DEF SinkCancel, Flowing
<1>3. CASE SinkOrdered
  <2> DEFINE k == Head(travelling)
  <2>1. CASE k \in EndKinds
    <3>1. UNCHANGED <<rl, endFrame, cancels, cleaned>> /\ finishOnce'
     BY <1>3, <2>1 DEF SinkOrdered, CallPipelineFinished
    <3>2. Len(reports') = 1
      <4>1. CASE finishOnce
     BY <1>3, <2>1, <4>1 DEF SinkOrdered, CallPipelineFinished
      <4>2. CASE ~finishOnce
        <5>1. reports = <<>> /\ reports' = Append(reports, k)
     BY <1>3, <2>1, <4>2, SMTT(30) DEF SinkOrdered, CallPipelineFinished
        <5> QED
     BY <5>1
      <4> QED
     BY <4>1, <4>2
    <3> QED
     BY <3>1, <3>2
  <2>2. CASE k \notin EndKinds
     BY <1>3, <2>2, Zenon DEF SinkOrdered
  <2> QED
     BY <2>1, <2>2
<1>4. CASE SourceWorkerFrame
     BY <1>4 DEF SourceWorkerFrame, Flowing
<1>5. CASE Dropped
     BY <1>5 DEF Dropped, Flowing, RemoveAt
<1> HIDE DEF DataType, CancelInv, FinishInv, AfterCancel, EndKinds, runVars,
      callVars, pipeVars, endVars, signals
<1> QED
     BY <1>1, <1>2, <1>3, <1>4, <1>5 DEF Pipeline

(* A step of a caller keeps FinishInv.                                     *)
LEMMA FinishCall ==
  ASSUME DataType, CancelInv, FinishInv, Callers
  PROVE  FinishInv'
<1> USE DEF DataType, CancelInv, FinishInv, AfterCancel, EndKinds, runVars,
      callVars, pipeVars, endVars, signals
<1>1. ASSUME NEW k \in Queueable, QueueFrame(k) PROVE FinishInv'
     BY <1>1 DEF QueueFrame
<1>2. ASSUME NEW k \in Queueable \cap WorkerKinds, QueueUpstream(k)
      PROVE  FinishInv'
     BY <1>2 DEF QueueUpstream, Flowing
<1>3. CASE Cancel
     BY <1>3 DEF Cancel, CancelWithReason
<1>4. CASE QueueCancel
     BY <1>4 DEF QueueCancel
<1>5. ASSUME NEW p \in Processors, HandleUnusableProcessor(p) PROVE FinishInv'
     BY <1>5 DEF HandleUnusableProcessor, CancelWithReason
<1>6. CASE EndContext
     BY <1>6 DEF EndContext
<1>7. CASE Wedge
     BY <1>7 DEF Wedge
<1> HIDE DEF DataType, CancelInv, FinishInv, AfterCancel, EndKinds, runVars,
      callVars, pipeVars, endVars, signals
<1> QED
     BY <1>1, <1>2, <1>3, <1>4, <1>5, <1>6, <1>7 DEF Callers

(* A step of the run loop keeps FlushInv.                                  *)
LEMMA FlushRun ==
  ASSUME DataType, CancelInv, FinishInv, FlushInv, RunLoop
  PROVE  FlushInv'
<1> USE DEF DataType, CancelInv, FinishInv, FlushInv, AfterCancel, EndKinds,
      runVars, callVars, pipeVars, endVars, signals
<1>1. CASE SetUp
     BY <1>1 DEF SetUp
<1>2. CASE SetupError
     BY <1>2 DEF SetupError
<1>3. CASE SetupTimeout
     BY <1>3 DEF SetupTimeout
<1>4. CASE SendStart
     BY <1>4 DEF SendStart
<1>5. CASE Started
     BY <1>5 DEF Started
<1>6. CASE StartTimeout
     BY <1>6 DEF StartTimeout
<1>7. CASE RunCtxDone
     BY <1>7 DEF RunCtxDone
<1>8. CASE PushQueued
  <2> DEFINE k == Head(pushQueue)
  <2>1. CASE k = "cancel"
     BY <1>8, <2>1 DEF PushQueued
  <2>2. CASE k # "cancel"
    <3>1. /\ rl = "get" /\ travelling' = Append(travelling, k)
          /\ UNCHANGED <<cancels, endSig>>
          /\ rl' \in {"get", "waitEnd"} /\ (k \in EndKinds => rl' = "waitEnd")
     BY <1>8, <2>2 DEF PushQueued
    <3>2. /\ Len(travelling') = Len(travelling) + 1
          /\ travelling'[Len(travelling')] = k
          /\ \A i \in 1..Len(travelling) : travelling'[i] = travelling[i]
     BY <3>1
    <3>3. ASSUME cancels = 0 PROVE OnlyLast(travelling', EndKinds)
     BY <3>1, <3>2, <3>3 DEF OnlyLast
    <3> QED
     BY <3>1, <3>2, <3>3, SMTT(30)
  <2> QED
     BY <2>1, <2>2
<1>9. CASE EndArrived
     BY <1>9 DEF EndArrived
<1>10. CASE CancelOver
     BY <1>10 DEF CancelOver, CallPipelineFinished
<1>11. CASE CancelCtxDone
     BY <1>11 DEF CancelCtxDone, CallPipelineFinished
<1>12. CASE CancelOnContextEnd
     BY <1>12 DEF CancelOnContextEnd
<1>13. CASE Teardown
     BY <1>13 DEF Teardown
<1>14. CASE Finish
     BY <1>14 DEF Finish
<1> HIDE DEF DataType, CancelInv, FinishInv, FlushInv, AfterCancel, EndKinds,
      runVars, callVars, pipeVars, endVars, signals
<1> QED
     BY <1>1, <1>2, <1>3, <1>4, <1>5, <1>6, <1>7, <1>8, <1>9, <1>10, <1>11,
        <1>12, <1>13, <1>14, SMTT(30) DEF RunLoop

(* A step of the pipeline and its ends keeps FlushInv.                     *)
LEMMA FlushPipe ==
  ASSUME DataType, CancelInv, FinishInv, FlushInv, Pipeline
  PROVE  FlushInv'
<1> USE DEF DataType, CancelInv, FinishInv, FlushInv, AfterCancel, EndKinds,
      runVars, callVars, pipeVars, endVars, signals
<1>1. CASE SinkStart
     BY <1>1 DEF SinkStart, Flowing
<1>2. CASE SinkCancel
     BY <1>2 DEF SinkCancel, Flowing
<1>3. CASE SinkOrdered
  <2> DEFINE k == Head(travelling)
  <2>1. /\ travelling # <<>> /\ travelling' = Tail(travelling)
        /\ UNCHANGED <<rl, endFrame, cancels>>
        /\ endSig' => endSig \/ k \in EndKinds
     BY <1>3, Zenon DEF SinkOrdered
  <2>2. travelling \in Seq(Ordered)
     OBVIOUS
  <2>3. ASSUME cancels = 0
        PROVE  /\ endSig' => travelling' = <<>>
               /\ OnlyLast(travelling', EndKinds)
    <3>1. OnlyLast(travelling, EndKinds)
     BY <2>3
    <3>2. ~endSig
     BY <2>1, <2>3
    <3> HIDE DEF DataType, CancelInv, FinishInv, FlushInv, EndKinds
    <3> QED
     BY <2>1, <2>2, <3>1, <3>2, TailKeepsLast
  <2>4. ASSUME cancels = 0, rl \in {"setup", "start", "waitStart", "get"}
        PROVE  /\ ~endSig'
               /\ \A i \in 1..Len(travelling') : travelling'[i] \notin EndKinds
    <3>1. /\ \A i \in 1..Len(travelling) : travelling[i] \notin EndKinds
          /\ ~endSig
     BY <2>4
    <3> HIDE DEF DataType, CancelInv, FinishInv, FlushInv, EndKinds
    <3> QED
     BY <2>1, <2>2, <3>1, TailKeepsNone, SMTT(30)
  <2>5. ASSUME cancels = 0, rl = "teardown", endFrame \in {"end", "stop"}
        PROVE  endSig'
     BY <1>3, <2>5 DEF SinkOrdered
  <2> QED
     BY <2>1, <2>3, <2>4, <2>5, SMTT(30)
<1>4. CASE SourceWorkerFrame
     BY <1>4 DEF SourceWorkerFrame, Flowing
<1>5. CASE Dropped
     BY <1>5 DEF Dropped, Flowing, RemoveAt
<1> HIDE DEF DataType, CancelInv, FinishInv, FlushInv, AfterCancel, EndKinds,
      runVars, callVars, pipeVars, endVars, signals
<1> QED
     BY <1>1, <1>2, <1>3, <1>4, <1>5, SMTT(30) DEF Pipeline

(* A step of a caller keeps FlushInv.                                      *)
LEMMA FlushCall ==
  ASSUME DataType, CancelInv, FinishInv, FlushInv, Callers
  PROVE  FlushInv'
<1> USE DEF DataType, CancelInv, FinishInv, FlushInv, AfterCancel, EndKinds,
      runVars, callVars, pipeVars, endVars, signals
<1>1. ASSUME NEW k \in Queueable, QueueFrame(k) PROVE FlushInv'
     BY <1>1 DEF QueueFrame
<1>2. ASSUME NEW k \in Queueable \cap WorkerKinds, QueueUpstream(k)
      PROVE  FlushInv'
     BY <1>2 DEF QueueUpstream, Flowing
<1>3. CASE Cancel
     BY <1>3 DEF Cancel, CancelWithReason
<1>4. CASE QueueCancel
     BY <1>4 DEF QueueCancel
<1>5. ASSUME NEW p \in Processors, HandleUnusableProcessor(p) PROVE FlushInv'
     BY <1>5 DEF HandleUnusableProcessor, CancelWithReason
<1>6. CASE EndContext
     BY <1>6 DEF EndContext
<1>7. CASE Wedge
     BY <1>7 DEF Wedge
<1> HIDE DEF DataType, CancelInv, FinishInv, FlushInv, AfterCancel, EndKinds,
      runVars, callVars, pipeVars, endVars, signals
<1> QED
     BY <1>1, <1>2, <1>3, <1>4, <1>5, <1>6, <1>7, SMTT(30) DEF Callers

(* CancelInv, FinishInv and FlushInv hold in every reachable state.        *)
LEMMA WorkerInvariant == Spec => [](CancelInv /\ FinishInv /\ FlushInv)
<1> DEFINE Inv == CancelInv /\ FinishInv /\ FlushInv
<1>1. Init => Inv
  BY DEF Init, CancelInv, FinishInv, FlushInv, AfterCancel, EndKinds, OnlyLast
<1>2. TypeOK /\ Inv /\ [Next]_vars => Inv'
  <2> SUFFICES ASSUME DataType, CancelInv, FinishInv, FlushInv, [Next]_vars
               PROVE  Inv'
    BY DEF TypeOK
  <2>1. CASE RunLoop
    BY <2>1, CancelRun, FinishRun, FlushRun, SMTT(30)
  <2>2. CASE Pipeline
    BY <2>2, CancelPipe, FinishPipe, FlushPipe, SMTT(30)
  <2>3. CASE Callers
    BY <2>3, CancelCall, FinishCall, FlushCall
  <2>4. CASE UNCHANGED vars
    BY <2>4 DEF vars, runVars, callVars, pipeVars, endVars, signals, CancelInv,
       FinishInv, FlushInv
  <2> QED
    BY <2>1, <2>2, <2>3, <2>4 DEF Next
<1> QED
  BY <1>1, <1>2, WorkerTypes, PTL DEF Spec

(* However Cancel, queued CancelFrames, the unusable-processor policy and  *)
(* the end of the context meet, the pipeline is sent one CancelFrame.      *)
THEOREM CancelSentOnce == Spec => []OneCancel
<1>1. CancelInv /\ FinishInv /\ FlushInv => OneCancel
  BY DEF CancelInv, OneCancel
<1> QED
  BY <1>1, WorkerInvariant, PTL

(* EventPipelineFinished is raised once by a run that a frame ended, and   *)
(* never twice.                                                            *)
THEOREM ReportedOnce == Spec => []FinishedOnce
<1>1. TypeOK /\ CancelInv /\ FinishInv /\ FlushInv => FinishedOnce
  <2> SUFFICES ASSUME FinishInv PROVE FinishedOnce
    OBVIOUS
  <2>1. Len(reports) \in {0, 1}
    BY DEF FinishInv
  <2>2. finishOnce => reports # <<>>
    BY DEF FinishInv
  <2>3. rl = "done" /\ endFrame \in EndKinds => finishOnce
    BY SMTT(30) DEF FinishInv
  <2> QED
    BY <2>1, <2>2, <2>3 DEF FinishedOnce
<1> QED
  BY <1>1, WorkerInvariant, WorkerTypes, PTL

(* A run that sent a CancelFrame cleans the pipeline up, also when it had  *)
(* been asked to stop and keep it.                                         *)
THEOREM CancelTearsDown == Spec => []CanceledIsTornDown
<1>1. TypeOK /\ CancelInv /\ FinishInv /\ FlushInv => CanceledIsTornDown
  BY SMTT(30) DEF FinishInv, CanceledIsTornDown
<1> QED
  BY <1>1, WorkerInvariant, WorkerTypes, PTL

(* A run that ends by an EndFrame or a StopFrame has nothing travelling    *)
(* when it goes on to the teardown, for any number of queued frames.       *)
THEOREM EndFlushesPipeline == Spec => []EndFlushes
<1>1. TypeOK /\ CancelInv /\ FinishInv /\ FlushInv => EndFlushes
  BY DEF CancelInv, FinishInv, FlushInv, EndFlushes, TypeOK, DataType,
     FlagType
<1> QED
  BY <1>1, WorkerInvariant, WorkerTypes, PTL

=============================================================================
