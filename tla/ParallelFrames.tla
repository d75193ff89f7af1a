--------------------------- MODULE ParallelFrames ---------------------------
(***************************************************************************)
(* Where the frames of the parallel pipeline are: which branches a         *)
(* lifecycle frame still has to pass, and what that says of its counter.   *)
(***************************************************************************)
EXTENDS ParallelProofs

-----------------------------------------------------------------------------
(* Every frame is where its kind belongs.                                  *)

\* Each part of the shape depends on a few variables: where the goroutines are,
LEMMA OwnPlaceKept == ASSUME OwnPlace, UNCHANGED <<pc, hand>> PROVE OwnPlace'
BY Zenon DEF OwnPlace

\* ... what they are given,
LEMMA OwnKindsKept == ASSUME OwnKinds, UNCHANGED <<left, inq, procq, hand>> PROVE OwnKinds'
BY Zenon DEF OwnKinds

\* ... what the lanes carry,
LEMMA WayKindsKept == ASSUME WayKinds, UNCHANGED lane PROVE WayKinds'
BY Zenon DEF WayKinds

\* ... and what the sink calls hold and have buffered.
LEMMA SinkShapeKept ==
  ASSUME SinkPlace, SinkKinds, UNCHANGED <<sinkVars, buffered>> PROVE SinkPlace' /\ SinkKinds'
BY Zenon DEF SinkPlace, SinkKinds, sinkVars

(* The input queue takes a frame in ...                                    *)
LEMMA QueueShape ==
  ASSUME Types, ShapeInv, NEW k \in Kinds, QueueFrame(k)
  PROVE  ShapeInv'
<1>0. OwnType /\ inq["system"] \in Seq(Frame) /\ inq["frames"] \in Seq(Frame) /\ OwnKinds
  BY Zenon DEF Types, OwnType, Gates, ShapeInv
<1>1. UNCHANGED <<procq, pc, hand, next, gateVars, downstream>>
  BY QueueStep, Zenon
<1>2. OwnPlace' /\ WayKinds' /\ SinkPlace' /\ SinkKinds'
  BY <1>1, OwnPlaceKept, WayKindsKept, SinkShapeKept, Zenon DEF ShapeInv, downstream, mergeVars
<1>3. k \notin {"own", "ownEnd"} /\ left'["own"] = 0 /\ left'["ownEnd"] = 0
  BY <1>0, QueueStep DEF OwnKinds, Kinds
<1>4. PICK f \in Frame :
        /\ f.kind = k
        /\ \/ pc["frames"] = "stopped" /\ inq' = inq
           \/ /\ k \in SystemKinds
              /\ inq'["system"] = Append(inq["system"], f) /\ inq'["frames"] = inq["frames"]
           \/ /\ k \notin SystemKinds
              /\ inq'["frames"] = Append(inq["frames"], f) /\ inq'["system"] = inq["system"]
  BY QueueStep, Zenon
<1>5. k \notin SystemKinds => k \in {"data", "end"}
  BY <1>3, Zenon DEF Kinds, SystemKinds
<1>6. /\ \A h \in ToSet(inq["system"])' : h.kind \in SystemKinds
      /\ \A h \in ToSet(inq["frames"])' : h.kind \in {"data", "end"}
  <2>1. CASE inq' = inq
    BY <1>0, <2>1, Zenon DEF OwnKinds
  <2>2. CASE /\ k \in SystemKinds
             /\ inq'["system"] = Append(inq["system"], f) /\ inq'["frames"] = inq["frames"]
    <3>1. ToSet(inq["system"])' = ToSet(inq["system"]) \cup {f}
      BY <1>0, <2>2, AppendSet, ZenonT(30)
    <3> QED
      BY <1>0, <1>4, <2>2, <3>1, Zenon DEF OwnKinds
  <2>3. CASE /\ k \notin SystemKinds
             /\ inq'["frames"] = Append(inq["frames"], f) /\ inq'["system"] = inq["system"]
    <3>1. ToSet(inq["frames"])' = ToSet(inq["frames"]) \cup {f}
      BY <1>0, <2>3, AppendSet, ZenonT(30)
    <3> QED
      BY <1>0, <1>4, <1>5, <2>3, <3>1, Zenon DEF OwnKinds
  <2> QED
    BY <1>4, <2>1, <2>2, <2>3, Zenon
<1>7. OwnKinds'
  BY <1>0, <1>1, <1>3, <1>6, Zenon DEF OwnKinds
<1> QED
  BY <1>2, <1>7, Zenon DEF ShapeInv

(* ... and a goroutine takes one out.                                      *)
LEMMA TakeShape ==
  ASSUME Types, ShapeInv, NEW g \in Gates, Take(g)
  PROVE  ShapeInv'
<1>0. /\ OwnType /\ inq["system"] \in Seq(Frame) /\ inq["frames"] \in Seq(Frame)
      /\ procq \in Seq(Frame) /\ OwnKinds /\ OwnPlace
  BY Zenon DEF Types, OwnType, Gates, ShapeInv
<1>1. UNCHANGED <<left, downstream>> /\ (g = "system" \/ g = "frames")
  BY TakeSystem, TakeFrames, Zenon DEF Gates
<1>2. WayKinds' /\ SinkPlace' /\ SinkKinds'
  BY <1>1, WayKindsKept, SinkShapeKept, Zenon DEF ShapeInv, downstream, mergeVars
<1>3. CASE g = "system"
  <2>0. Take("system")
    BY <1>3, Zenon
  <2>1. /\ UNCHANGED <<left, procq>> /\ pc'["system"] \in {"wait", "handle"}
        /\ pc'["frames"] = pc["frames"] /\ hand'["frames"] = hand["frames"]
    BY <2>0, TakeSystem, Zenon
  <2>2. OwnPlace'
    BY <1>0, <2>1, Zenon DEF OwnPlace, Gates, Armed
  <2>3. ASSUME inq["system"] # <<>>, hand'["system"] = Head(inq["system"]),
               inq'["system"] = Tail(inq["system"]), inq'["frames"] = inq["frames"]
        PROVE  OwnKinds'
    <3>1. ToSet(inq["system"]) = ToSet(inq["system"])' \cup {hand'["system"]}
      BY <1>0, <2>3, TailSet, Zenon
    <3>2. hand'["system"].kind \in SystemKinds
      BY <1>0, <3>1, Zenon DEF OwnKinds
    <3>3. hand'["system"].kind \notin {"own", "ownEnd"}
      BY <3>2, Zenon DEF SystemKinds
    <3> QED
      BY <1>0, <2>1, <2>3, <3>1, <3>3, Zenon DEF OwnKinds
  <2>4. ASSUME inq["frames"] # <<>>, hand'["system"] = Head(inq["frames"]),
               inq'["frames"] = Tail(inq["frames"]), inq'["system"] = inq["system"]
        PROVE  OwnKinds'
    <3>1. ToSet(inq["frames"]) = ToSet(inq["frames"])' \cup {hand'["system"]}
      BY <1>0, <2>4, TailSet, Zenon
    <3>2. hand'["system"].kind \in {"data", "end"}
      BY <1>0, <3>1, Zenon DEF OwnKinds
    <3>3. hand'["system"].kind \notin {"own", "ownEnd"}
      BY <3>2, Zenon
    <3> QED
      BY <1>0, <2>1, <2>4, <3>1, <3>3, Zenon DEF OwnKinds
  <2>5. OwnKinds'
    BY <2>0, <2>3, <2>4, TakeSystem, Zenon
  <2> QED
    BY <1>2, <2>2, <2>5, Zenon DEF ShapeInv
<1>4. CASE g = "frames"
  <2>0. Take("frames")
    BY <1>4, Zenon
  <2>1. /\ UNCHANGED <<left, inq>> /\ pc["frames"] = "get" /\ pc'["frames"] \in {"wait", "handle"}
        /\ pc'["system"] = pc["system"] /\ hand'["system"] = hand["system"]
        /\ procq # <<>> /\ procq' = Tail(procq) /\ hand'["frames"] = Head(procq)
    BY <2>0, TakeFrames, Zenon
  <2>2. OwnPlace'
    BY <1>0, <2>1, Zenon DEF OwnPlace, Gates, Armed
  <2>3. ToSet(procq) = ToSet(procq)' \cup {hand'["frames"]}
    BY <1>0, <2>1, TailSet, Zenon
  <2>4. OwnKinds'
    BY <1>0, <2>1, <2>3, Zenon DEF OwnKinds
  <2> QED
    BY <1>2, <2>2, <2>4, Zenon DEF ShapeInv
<1> QED
  BY <1>1, <1>3, <1>4, Zenon

(* A goroutine goes on with the frame it has, ...                          *)
LEMMA HandleShape ==
  ASSUME Types, ShapeInv, NEW g \in Gates,
         Wake(g) \/ Unblock(g) \/ Arm(g) \/ PauseProcessing(g) \/ HandleOther(g)
  PROVE  ShapeInv'
<1>0. OwnPlace /\ OwnType /\ OwnKinds
  BY Zenon DEF ShapeInv, Types
<1>1. UNCHANGED <<left, inq, procq, hand, sinkVars, buffered, lane>>
  BY WakeStep, ArmStep, PauseStep, OtherStep, Zenon DEF downstream, mergeVars
<1>2. OwnKinds' /\ WayKinds' /\ SinkPlace' /\ SinkKinds'
  BY <1>1, OwnKindsKept, WayKindsKept, SinkShapeKept, Zenon DEF ShapeInv
<1>3. \A h \in Gates \ {g} : pc'[h] = pc[h]
  BY WakeStep, ArmStep, PauseStep, OtherStep, Zenon
<1>4. ASSUME Wake(g) \/ Unblock(g) PROVE OwnPlace'
  <2>1. pc'[g] \in {"woken", "handle"} /\ pc[g] # "stopped"
    BY <1>4, WakeStep, Zenon
  <2> QED
    BY <1>0, <1>1, <1>3, <2>1, Zenon DEF OwnPlace, Gates, Armed
<1>5. ASSUME Arm(g) PROVE OwnPlace'
  <2>1. /\ pc[g] = "handle" /\ pc'[g] = "pauseSystem" /\ hand[g].kind \in Lifecycle
        /\ (g = "system" => hand[g].kind \in SystemKinds)
        /\ (hand[g].kind = "cancel" => pc["frames"] = "stopped")
    BY <1>5, ArmStep, Zenon
  <2> QED
    BY <1>0, <1>1, <1>3, <2>1, Zenon DEF OwnPlace, Gates, Armed
<1>6. ASSUME PauseProcessing(g) PROVE OwnPlace'
  <2>1. \/ pc[g] = "pauseSystem" /\ pc'[g] = "pauseFrames"
        \/ pc[g] = "pauseFrames" /\ pc'[g] = "fan"
    BY <1>6, PauseStep, Zenon
  <2> QED
    BY <1>0, <1>1, <1>3, <2>1, Zenon DEF OwnPlace, Gates, Armed
<1>7. ASSUME HandleOther(g) PROVE OwnPlace'
  <2>1. /\ pc[g] = "handle" /\ pc'[g] = "fan" /\ hand[g].kind \notin Lifecycle
        /\ (g = "system" => hand[g].kind \in SystemKinds)
    BY <1>7, OtherStep, Zenon
  <2> QED
    BY <1>0, <1>1, <1>3, <2>1, Zenon DEF OwnPlace, Gates, Armed, Lifecycle
<1>8. OwnPlace'
  BY <1>4, <1>5, <1>6, <1>7, Zenon
<1> QED
  BY <1>2, <1>8, Zenon DEF ShapeInv

(* ... queues it on a branch, ...                                          *)
LEMMA FanShape ==
  ASSUME Types, ShapeInv, NEW g \in Gates, Fan(g)
  PROVE  ShapeInv'
<1>0. OwnPlace /\ OwnType /\ OwnKinds /\ WayKinds /\ WayType
  BY Zenon DEF ShapeInv, Types
<1>1. UNCHANGED <<left, inq, procq, mergeVars, sinkVars>>
  BY FanStep, Zenon
<1>2. SinkPlace' /\ SinkKinds'
  BY <1>1, SinkShapeKept, Zenon DEF ShapeInv, mergeVars
<1>3. /\ pc[g] = "fan" /\ hand[g] \in Frame
      /\ \A h \in Gates \ {g} : pc'[h] = pc[h] /\ hand'[h] = hand[h]
      /\ \/ pc'[g] = "fan" /\ hand'[g] = hand[g]
         \/ pc'[g] = "get" /\ hand'[g] = NoFrame
  BY FanStep, Zenon
<1>4. OwnPlace'
  BY <1>0, <1>3, Zenon DEF OwnPlace, Gates, Armed
<1>5. NoFrame.kind = "none"
  BY Zenon DEF NoFrame
<1>6. OwnKinds'
  BY <1>0, <1>1, <1>3, <1>5, Zenon DEF OwnKinds, Gates
<1>7. PICK c \in Callers : c = <<next[g], g>> /\ c[2] = g /\ lane[c] \in Seq(Frame)
  <2>1. next[g] \in Branches /\ g \in Lanes
    BY FanStep, Zenon DEF Gates, Lanes
  <2>2. <<next[g], g>> \in Callers /\ <<next[g], g>>[2] = g
    BY <2>1, CallerParts, Zenon
  <2> QED
    BY <1>0, <2>2, Zenon DEF WayType
<1>8. ToSet(lane[c])' = ToSet(lane[c]) \cup {hand[g]}
  <2>1. lane'[c] = Append(lane[c], hand[g])
    BY <1>7, FanStep, Zenon
  <2> QED
    BY <1>3, <1>7, <2>1, AppendSet
<1>9. hand[g].kind \in LaneKinds(g)
  BY <1>0, <1>3, Zenon DEF OwnPlace, OwnKinds, LaneKinds, Gates, Armed, FrameType, Frame, Kinds
<1>10. \A d \in Callers : d # c => ToSet(lane[d])' = ToSet(lane[d])
  BY <1>7, FanStep, Zenon
<1>11. WayKinds'
  BY <1>0, <1>7, <1>8, <1>9, <1>10, Zenon DEF WayKinds
<1> QED
  BY <1>2, <1>4, <1>6, <1>11, Zenon DEF ShapeInv

(* ... or hands it on or loses it.                                         *)
LEMMA ForwardShape ==
  ASSUME Types, ShapeInv, Forward \/ StopProcessing
  PROVE  ShapeInv'
<1>0. OwnPlace /\ OwnType /\ OwnKinds /\ procq \in Seq(Frame)
  BY Zenon DEF ShapeInv, Types, OwnType
<1>1. UNCHANGED <<left, inq, downstream>>
  BY ForwardStep, StopStep, Zenon
<1>2. WayKinds' /\ SinkPlace' /\ SinkKinds'
  BY <1>1, WayKindsKept, SinkShapeKept, Zenon DEF ShapeInv, downstream, mergeVars
<1>3. NoFrame.kind = "none"
  BY Zenon DEF NoFrame
<1>4. CASE Forward
  <2>1. /\ pc["system"] = "handle" /\ pc'["system"] = "get" /\ pc'["frames"] = pc["frames"]
        /\ hand["system"] \in Frame /\ hand["system"].kind \notin SystemKinds
        /\ hand'["system"] = NoFrame /\ hand'["frames"] = hand["frames"]
        /\ \/ procq' = procq
           \/ procq' = Append(procq, hand["system"])
    BY <1>4, ForwardStep, Zenon
  <2>2. OwnPlace'
    BY <1>0, <2>1, Zenon DEF OwnPlace, Gates, Armed
  <2>3. hand["system"].kind \in {"data", "end"}
    BY <1>0, <2>1, Zenon DEF OwnKinds, Frame, Kinds, SystemKinds
  <2>4. ToSet(procq)' = ToSet(procq) \/ ToSet(procq)' = ToSet(procq) \cup {hand["system"]}
    BY <1>0, <2>1, AppendSet, Zenon
  <2>5. OwnKinds'
    BY <1>0, <1>1, <1>3, <2>1, <2>3, <2>4, Zenon DEF OwnKinds
  <2> QED
    BY <1>2, <2>2, <2>5, Zenon DEF ShapeInv
<1>5. CASE StopProcessing
  <2>1. /\ pc["system"] = "handle" /\ pc'["frames"] = "stopped"
        /\ pc'["system"] = pc["system"] /\ hand'["system"] = hand["system"]
        /\ procq' = <<>> /\ hand'["frames"] = NoFrame
    BY <1>5, StopStep, Zenon
  <2>2. OwnPlace'
    BY <1>0, <2>1, Zenon DEF OwnPlace, Gates, Armed
  <2>3. ToSet(procq)' = {}
    BY <2>1, EmptySet, Zenon
  <2>4. OwnKinds'
    BY <1>0, <1>1, <1>3, <2>1, <2>3, Zenon DEF OwnKinds
  <2> QED
    BY <1>2, <2>2, <2>4, Zenon DEF ShapeInv
<1> QED
  BY <1>4, <1>5, Zenon

(* A processor in a branch adds a frame of its own.                        *)
LEMMA RaiseShape ==
  ASSUME Types, ShapeInv, NEW b \in Branches, NEW k \in Kinds, Raise(b, k)
  PROVE  ShapeInv'
<1>0. WayKinds /\ WayType
  BY Zenon DEF ShapeInv, Types
<1>1. UNCHANGED <<ownVars, mergeVars, sinkVars>>
  BY RaiseStep, Zenon
<1>2. OwnPlace' /\ OwnKinds' /\ SinkPlace' /\ SinkKinds'
  BY <1>1, OwnPlaceKept, OwnKindsKept, SinkShapeKept, Zenon DEF ShapeInv, ownVars, mergeVars
<1>3. PICK f \in Frame, c \in Callers :
        /\ f.id = ids + 1 /\ f.kind = k
        /\ (k = "data" => c = <<b, "frames">>) /\ (k # "data" => c = <<b, "own">>)
        /\ \E i \in 1..(Len(lane[c]) + 1) :
             /\ lane'[c] = InsertAt(lane[c], i, f)
             /\ k = "data" => \A j \in 1..(i - 1) : lane[c][j].kind # "end"
        /\ \A d \in Callers \ {c} : lane'[d] = lane[d]
  BY RaiseStep, ZenonT(30)
<1>4. PICK i \in 1..(Len(lane[c]) + 1) : lane'[c] = InsertAt(lane[c], i, f)
  BY <1>3, Zenon
<1>5. lane[c] \in Seq(Frame)
  BY <1>0, Zenon DEF WayType
<1>6. ToSet(lane[c])' = ToSet(lane[c]) \cup {f}
  BY <1>4, <1>5, InsertSet, Zenon
<1>7. k \in {"data", "own", "ownEnd"}
  BY RaiseStep, Zenon
<1>8. f.kind \in LaneKinds(c[2])
  <2>1. c[2] = IF k = "data" THEN "frames" ELSE "own"
    BY <1>3
  <2> QED
    BY <1>3, <1>7, <2>1, Zenon DEF LaneKinds
<1>9. \A d \in Callers : d # c => ToSet(lane[d])' = ToSet(lane[d])
  BY <1>3, Zenon
<1>10. WayKinds'
  BY <1>0, <1>6, <1>8, <1>9, Zenon DEF WayKinds
<1> QED
  BY <1>2, <1>10, Zenon DEF ShapeInv

(* A lane gets no frame from a sink call.                                  *)
LEMMA LanesShrink ==
  ASSUME Types, WayKinds, NEW c \in Callers, Sink(c)
  PROVE  \A d \in Callers : ToSet(lane[d])' \subseteq ToSet(lane[d])
<1>1. CASE UNCHANGED lane
  BY <1>1, Zenon
<1>2. ASSUME NEW q \in Seq(Frame), q # <<>> PROVE ToSet(Tail(q)) \subseteq ToSet(q)
  BY <1>2, TailSet, Zenon
<1>3. CASE Emit(c)
  <2>1. lane[c] # <<>> /\ lane[c] \in Seq(Frame) /\ lane'[c] = Tail(lane[c])
        /\ \A d \in Callers \ {c} : lane'[d] = lane[d]
    BY <1>3, EmitStep, Zenon
  <2> QED
    BY <1>2, <2>1, Zenon
<1>4. CASE Report(c)
  <2>1. /\ lane[c] # <<>> /\ lane[c] \in Seq(Frame) /\ lane'[c] = Tail(lane[c])
        /\ \A d \in Callers \ {c} :
             lane'[d] = lane[d] \/ (Front(c).kind = "cancel" /\ d = <<c[1], "frames">>)
        /\ (Front(c).kind = "cancel" => lane'[<<c[1], "frames">>] = <<>>)
    BY <1>4, ReportLanes, Zenon
  <2>3. ToSet(<<>>) = {}
    BY EmptySet, Zenon
  <2>4. ASSUME NEW d \in Callers \ {c} PROVE ToSet(lane[d])' \subseteq ToSet(lane[d])
    <3>1. lane'[d] = <<>> \/ lane'[d] = lane[d]
      BY <2>1, Zenon
    <3> QED
      BY <2>3, <3>1, Zenon
  <2> QED
    BY <1>2, <2>1, <2>4, Zenon
<1>5. Emit(c) \/ Report(c) \/ UNCHANGED lane
  BY Zenon DEF Sink, Push, EmitSynchronized, FlushNext, FlushPush, FlushDone, Resume
<1> QED
  BY <1>1, <1>3, <1>4, <1>5, Zenon

(* What a sink call holds is told by its place.                            *)
LEMMA SinkShape ==
  ASSUME Types, ShapeInv, NEW c \in Callers, Sink(c)
  PROVE  ShapeInv'
<1>0. SinkPlace /\ SinkKinds /\ WayKinds /\ SinkType /\ MergeType /\ buffered \in Seq(Frame)
  BY Zenon DEF ShapeInv, Types, MergeType
<1>1. UNCHANGED ownVars
  BY Zenon DEF Sink, Emit, Push, Report, EmitSynchronized, FlushNext, FlushPush, FlushDone, Resume,
               SinkKeeps
<1>2. OwnPlace' /\ OwnKinds'
  BY <1>1, OwnPlaceKept, OwnKindsKept, Zenon DEF ShapeInv, ownVars
<1>3. WayKinds'
  BY <1>0, LanesShrink, Zenon DEF WayKinds
<1>4. NoFrame.kind = "none" /\ "none" \notin Lifecycle
  BY Zenon DEF NoFrame, Lifecycle
<1>5. ASSUME Emit(c) PROVE SinkPlace' /\ SinkKinds'
  <2>1. /\ UNCHANGED popped /\ spc[c] = "idle"
        /\ \A d \in Callers \ {c} : spc'[d] = spc[d] /\ sfr'[d] = sfr[d]
    BY <1>0, <1>5, EmitStep, Zenon
  <2>2. /\ Front(c) \in Frame /\ Front(c) \in ToSet(lane[c]) /\ Front(c).kind \notin Lifecycle
        /\ \/ /\ buffered' = Append(buffered, Front(c))
              /\ spc'[c] = "idle" /\ sfr'[c] = sfr[c]
           \/ buffered' = buffered /\ spc'[c] = "push" /\ sfr'[c] = Front(c)
           \/ buffered' = buffered /\ spc'[c] = "idle" /\ sfr'[c] = sfr[c]
    BY <1>0, <1>5, EmitStep, Zenon
  <2>3. Front(c).kind \in LaneKinds(c[2])
    BY <1>0, <2>2, Zenon DEF WayKinds
  <2>4. ToSet(buffered)' = ToSet(buffered) \/ ToSet(buffered)' = ToSet(buffered) \cup {Front(c)}
    BY <1>0, <2>2, AppendSet, Zenon
  <2>5. sfr[c] = NoFrame /\ popped[c] = NoFrame
    BY <1>0, <2>1, Zenon DEF SinkPlace
  <2>6. SinkPlace'
    BY <1>0, <2>1, <2>2, <2>5, Zenon DEF SinkPlace
  <2>7. SinkKinds'
    BY <1>0, <2>1, <2>2, <2>3, <2>4, Zenon DEF SinkKinds
  <2> QED
    BY <2>6, <2>7, Zenon
<1>6. ASSUME Report(c) PROVE SinkPlace' /\ SinkKinds'
  <2>1. /\ UNCHANGED <<popped, buffered>> /\ spc[c] = "idle"
        /\ \A d \in Callers \ {c} : spc'[d] = spc[d] /\ sfr'[d] = sfr[d]
    BY <1>0, <1>6, ReportLanes, ReportKeeps, Zenon
  <2>2. /\ Front(c) \in Frame /\ Front(c) \in ToSet(lane[c]) /\ Front(c).kind \in Lifecycle
        /\ \/ spc'[c] = "idle" /\ sfr'[c] = sfr[c]
           \/ /\ sfr'[c] = Front(c)
              /\ Front(c).kind = "start" => spc'[c] = "emit"
              /\ Front(c).kind # "start" => spc'[c] = "flush"
    BY <1>0, <1>6, ReportLanes, ReportStep, Zenon
  <2>3. Front(c).kind \in LaneKinds(c[2])
    BY <1>0, <2>2, Zenon DEF WayKinds
  <2>5. sfr[c] = NoFrame /\ popped[c] = NoFrame
    BY <1>0, <2>1, Zenon DEF SinkPlace
  <2>6. SinkPlace'
    BY <1>0, <2>1, <2>2, <2>5, Zenon DEF SinkPlace
  <2>7. SinkKinds'
    BY <1>0, <2>1, <2>2, <2>3, Zenon DEF SinkKinds
  <2> QED
    BY <2>6, <2>7, Zenon
<1>7. ASSUME Push(c) \/ Resume(c) PROVE SinkPlace' /\ SinkKinds'
  <2>1. /\ UNCHANGED <<popped, buffered>>
        /\ \A d \in Callers \ {c} : spc'[d] = spc[d] /\ sfr'[d] = sfr[d]
    BY <1>0, <1>7, PushStep, ResumeStep, Zenon DEF mergeVars
  <2>2. \/ spc'[c] = "idle" /\ sfr'[c] = NoFrame /\ spc[c] \in {"push", "resumeFrames"}
        \/ spc[c] = "resumeSystem" /\ spc'[c] = "resumeFrames" /\ sfr'[c] = sfr[c]
    BY <1>0, <1>7, PushStep, ResumeStep, Zenon
  <2>3. SinkPlace'
    BY <1>0, <2>1, <2>2, Zenon DEF SinkPlace
  <2>4. SinkKinds'
    BY <1>0, <1>4, <2>1, <2>2, Zenon DEF SinkKinds
  <2> QED
    BY <2>3, <2>4, Zenon
<1>8. ASSUME EmitSynchronized(c) \/ FlushDone(c) PROVE SinkPlace' /\ SinkKinds'
  <2>1. /\ UNCHANGED <<sfr, popped, buffered>> /\ \A d \in Callers \ {c} : spc'[d] = spc[d]
        /\ spc[c] \in {"emit", "flush"} /\ spc'[c] \in {"flush", "resumeSystem", "emit"}
    BY <1>8, SynchronizedStep, FlushDoneStep, Zenon
  <2>2. SinkPlace'
    BY <1>0, <2>1, Zenon DEF SinkPlace
  <2>3. SinkKinds'
    BY <1>0, <2>1, Zenon DEF SinkKinds
  <2> QED
    BY <2>2, <2>3, Zenon
<1>9. ASSUME FlushNext(c) PROVE SinkPlace' /\ SinkKinds'
  <2>1. /\ UNCHANGED sfr /\ spc[c] = "flush" /\ buffered # <<>> /\ buffered' = Tail(buffered)
        /\ popped'[c] = Head(buffered) /\ Head(buffered) \in ToSet(buffered)
        /\ spc'[c] = "flushPush"
        /\ \A d \in Callers \ {c} : spc'[d] = spc[d] /\ popped'[d] = popped[d]
    BY <1>9, FlushNextStep, Zenon
  <2>2. ToSet(buffered)' \subseteq ToSet(buffered)
    BY <1>0, <2>1, TailSet, ZenonT(30)
  <2>3. SinkPlace'
    BY <1>0, <2>1, Zenon DEF SinkPlace
  <2>4. SinkKinds'
    BY <1>0, <2>1, <2>2, Zenon DEF SinkKinds
  <2> QED
    BY <2>3, <2>4, Zenon
<1>10. ASSUME FlushPush(c) PROVE SinkPlace' /\ SinkKinds'
  <2>1. /\ UNCHANGED <<sfr, buffered>> /\ spc[c] = "flushPush" /\ popped'[c] = NoFrame
        /\ spc'[c] = "flush"
        /\ \A d \in Callers \ {c} : spc'[d] = spc[d] /\ popped'[d] = popped[d]
    BY <1>10, FlushPushStep, Zenon DEF mergeVars
  <2>3. SinkPlace'
    BY <1>0, <2>1, Zenon DEF SinkPlace
  <2>4. SinkKinds'
    BY <1>0, <1>4, <2>1, Zenon DEF SinkKinds
  <2> QED
    BY <2>3, <2>4, Zenon
<1>11. SinkPlace' /\ SinkKinds'
  BY <1>5, <1>6, <1>7, <1>8, <1>9, <1>10, Zenon DEF Sink
<1> QED
  BY <1>2, <1>3, <1>11, Zenon DEF ShapeInv

\* No step puts a frame where its kind does not belong.
LEMMA ShapeNext == ASSUME Types, ShapeInv, [Next]_vars PROVE ShapeInv'
<1>1. CASE UNCHANGED vars
  BY <1>1, OwnPlaceKept, OwnKindsKept, WayKindsKept, SinkShapeKept, Zenon
  DEF ShapeInv, vars, ownVars, mergeVars
<1>2. ASSUME NEW g \in Gates, Own(g) PROVE ShapeInv'
  BY <1>2, TakeShape, HandleShape, FanShape, Zenon DEF Own
<1> QED
  BY <1>1, <1>2, QueueShape, ForwardShape, RaiseShape, SinkShape, Zenon DEF Next

-----------------------------------------------------------------------------
(* The frames there are.                                                   *)

\* A frame stays where it is ahead of the branches while nothing there changes,
LEMMA OwnThereKept ==
  ASSUME UNCHANGED <<inq, procq, hand>>, NEW f PROVE OwnThere(f)' <=> OwnThere(f)
BY Zenon DEF OwnThere

\* ... and in them and behind them likewise.
LEMMA SinkThereKept ==
  ASSUME UNCHANGED <<buffered, out, lane, sfr, popped>>, NEW f PROVE SinkThere(f)' <=> SinkThere(f)
BY Zenon DEF SinkThere

(* The goroutines of the parallel pipeline add none, ...                   *)
LEMMA ThereOwn ==
  ASSUME Types, (\E g \in Gates : Own(g)) \/ Forward \/ StopProcessing, NEW f \in Frame, There(f)'
  PROVE  There(f)
<1>0. /\ inq["system"] \in Seq(Frame) /\ inq["frames"] \in Seq(Frame) /\ procq \in Seq(Frame)
      /\ WayType
  BY Zenon DEF Types, OwnType, Gates
<1>1. NoFrame \notin Frame
  BY FrameType, Zenon
<1>2. ASSUME UNCHANGED downstream, OwnThere(f)' => OwnThere(f) PROVE There(f)
  BY <1>2, SinkThereKept, Zenon DEF There, downstream, mergeVars, sinkVars
<1>3. ASSUME Take("system") PROVE There(f)
  <2>1. /\ UNCHANGED <<procq, downstream>> /\ hand'["frames"] = hand["frames"]
        /\ \/ /\ inq["system"] # <<>> /\ hand'["system"] = Head(inq["system"])
              /\ inq'["system"] = Tail(inq["system"]) /\ inq'["frames"] = inq["frames"]
           \/ /\ inq["frames"] # <<>> /\ hand'["system"] = Head(inq["frames"])
              /\ inq'["frames"] = Tail(inq["frames"]) /\ inq'["system"] = inq["system"]
    BY <1>3, TakeSystem, Zenon
  <2>2. \/ /\ ToSet(inq["system"]) = ToSet(inq["system"])' \cup {hand'["system"]}
           /\ inq'["frames"] = inq["frames"]
        \/ /\ ToSet(inq["frames"]) = ToSet(inq["frames"])' \cup {hand'["system"]}
           /\ inq'["system"] = inq["system"]
    BY <1>0, <2>1, TailSet, Zenon
  <2> QED
    BY <1>2, <2>1, <2>2, Zenon DEF OwnThere
<1>4. ASSUME Take("frames") PROVE There(f)
  <2>1. /\ UNCHANGED <<inq, downstream>> /\ hand'["system"] = hand["system"]
        /\ procq # <<>> /\ procq' = Tail(procq) /\ hand'["frames"] = Head(procq)
    BY <1>4, TakeFrames, Zenon
  <2>2. ToSet(procq) = ToSet(procq)' \cup {hand'["frames"]}
    BY <1>0, <2>1, TailSet, Zenon
  <2> QED
    BY <1>2, <2>1, <2>2, Zenon DEF OwnThere
<1>5. ASSUME Forward PROVE There(f)
  <2>1. /\ UNCHANGED <<inq, downstream>> /\ hand["system"] \in Frame
        /\ hand'["system"] = NoFrame /\ hand'["frames"] = hand["frames"]
        /\ \/ procq' = procq
           \/ procq' = Append(procq, hand["system"])
    BY <1>5, ForwardStep, Zenon
  <2>2. ToSet(Append(procq, hand["system"])) = ToSet(procq) \cup {hand["system"]}
    BY <1>0, <2>1, AppendSet, Zenon
  <2> QED
    BY <1>1, <1>2, <2>1, <2>2, Zenon DEF OwnThere
<1>6. ASSUME StopProcessing PROVE There(f)
  <2>1. /\ UNCHANGED <<inq, downstream>> /\ hand'["system"] = hand["system"]
        /\ procq' = <<>> /\ hand'["frames"] = NoFrame
    BY <1>6, StopStep, Zenon
  <2>2. ToSet(procq)' = {}
    BY <2>1, EmptySet, Zenon
  <2> QED
    BY <1>1, <1>2, <2>1, <2>2, Zenon DEF OwnThere
<1>7. ASSUME NEW g \in Gates, Wake(g) \/ Unblock(g) \/ Arm(g) \/ PauseProcessing(g) \/ HandleOther(g)
      PROVE  There(f)
  <2>1. UNCHANGED <<inq, procq, hand, sinkVars, lane, out, buffered>>
    BY <1>7, WakeStep, ArmStep, PauseStep, OtherStep, Zenon DEF downstream, mergeVars
  <2> QED
    BY <2>1, OwnThereKept, SinkThereKept, Zenon DEF There, sinkVars
<1>8. ASSUME NEW g \in Gates, Fan(g) PROVE There(f)
  <2>1. /\ UNCHANGED <<inq, procq, sinkVars, out, buffered>> /\ hand[g] \in Frame
        /\ \A h \in Gates \ {g} : hand'[h] = hand[h]
        /\ hand'[g] = hand[g] \/ hand'[g] = NoFrame
    BY <1>8, FanStep, Zenon DEF mergeVars
  <2>2. PICK c \in Callers : c = <<next[g], g>>
    <3>1. next[g] \in Branches /\ g \in Lanes
      BY <1>8, FanStep, Zenon DEF Gates, Lanes
    <3> QED
      BY <3>1, CallerParts, Zenon
  <2>3. lane'[c] = Append(lane[c], hand[g]) /\ \A d \in Callers : d # c => lane'[d] = lane[d]
    BY <1>8, <2>2, FanStep, Zenon
  <2>4. lane[c] \in Seq(Frame)
    BY <1>0, Zenon DEF WayType
  <2>5. ToSet(lane[c])' = ToSet(lane[c]) \cup {hand[g]}
    BY <2>1, <2>3, <2>4, AppendSet
  <2>6. hand[g] = hand["system"] \/ hand[g] = hand["frames"]
    BY <1>8, Zenon DEF Gates
  <2>7. OwnThere(f)' => OwnThere(f)
    BY <1>1, <2>1, Zenon DEF OwnThere, Gates
  <2>8. SinkThere(f)' => SinkThere(f) \/ f = hand[g]
    BY <2>1, <2>3, <2>5, Zenon DEF SinkThere, sinkVars
  <2> QED
    BY <2>6, <2>7, <2>8, Zenon DEF There, OwnThere
<1> QED
  BY <1>3, <1>4, <1>5, <1>6, <1>7, <1>8, Zenon DEF Own, Gates

(* ... the sink calls neither.                                             *)
LEMMA ThereSink ==
  ASSUME Types, ShapeInv, NEW c \in Callers, Sink(c), NEW f \in Frame, There(f)'
  PROVE  There(f)
<1>0. WayKinds /\ SinkPlace /\ out \in Seq(Frame) /\ buffered \in Seq(Frame)
  BY Zenon DEF ShapeInv, Types, WayType, MergeType
<1>1. UNCHANGED ownVars
  BY Zenon DEF Sink, Emit, Push, Report, EmitSynchronized, FlushNext, FlushPush, FlushDone, Resume,
               SinkKeeps
<1>2. OwnThere(f)' <=> OwnThere(f)
  BY <1>1, OwnThereKept, Zenon DEF ownVars
<1>3. \A d \in Callers : ToSet(lane[d])' \subseteq ToSet(lane[d])
  BY <1>0, LanesShrink, Zenon
<1>4. NoFrame \notin Frame
  BY FrameType, Zenon
<1>5. /\ ToSet(buffered)' \subseteq ToSet(buffered) \cup {Front(c)}
      /\ Front(c) \in ToSet(lane[c]) \/ ToSet(buffered)' \subseteq ToSet(buffered)
  <2>1. CASE Emit(c)
    <3>1. /\ Front(c) \in Frame /\ Front(c) \in ToSet(lane[c])
          /\ buffered' = buffered \/ buffered' = Append(buffered, Front(c))
      BY <1>0, <2>1, EmitStep, Zenon
    <3> QED
      BY <1>0, <3>1, AppendSet, Zenon
  <2>2. CASE FlushNext(c)
    <3>1. buffered # <<>> /\ buffered' = Tail(buffered)
      BY <2>2, FlushNextStep, Zenon
    <3> QED
      BY <1>0, <3>1, TailSet, Zenon
  <2>3. CASE UNCHANGED buffered
    BY <2>3, Zenon
  <2> QED
    BY <2>1, <2>2, <2>3, Zenon
    DEF Sink, Push, Report, EmitSynchronized, FlushPush, FlushDone, Resume, mergeVars
<1>6. ToSet(out)' \subseteq ToSet(out) \cup {sfr[c], popped[c]}
  <2>1. CASE Push(c)
    <3>1. sfr[c] \in Frame /\ out' = Append(out, sfr[c])
      BY <2>1, PushStep, Zenon
    <3> QED
      BY <1>0, <3>1, AppendSet
  <2>2. CASE EmitSynchronized(c)
    <3>1. sfr[c] \in Frame /\ (out' = out \/ out' = Append(out, sfr[c]))
      BY <2>2, SynchronizedStep, Zenon
    <3>2. ToSet(Append(out, sfr[c])) = ToSet(out) \cup {sfr[c]}
      BY <1>0, <3>1, AppendSet, Zenon
    <3> QED
      BY <3>1, <3>2, Zenon
  <2>3. CASE FlushPush(c)
    <3>1. popped[c] \in Frame /\ out' = Append(out, popped[c])
      BY <2>3, FlushPushStep, Zenon
    <3> QED
      BY <1>0, <3>1, AppendSet
  <2>4. CASE UNCHANGED out
    BY <2>4, Zenon
  <2> QED
    BY <2>1, <2>2, <2>3, <2>4, Zenon DEF Sink, Emit, Report, FlushNext, FlushDone, Resume
<1>7. /\ \A d \in Callers \ {c} : sfr'[d] = sfr[d]
      /\ sfr'[c] = sfr[c] \/ sfr'[c] = NoFrame \/ (sfr'[c] = Front(c) /\ Front(c) \in ToSet(lane[c]))
  <2>1. CASE Emit(c)
    BY <1>0, <2>1, EmitStep, Zenon
  <2>4. CASE Report(c)
    BY <1>0, <2>4, ReportKeeps, ReportLanes, ZenonT(30)
  <2>2. CASE Push(c) \/ Resume(c)
    BY <1>0, <2>2, PushStep, ResumeStep, Zenon
  <2>3. CASE UNCHANGED sfr
    BY <2>3, Zenon
  <2> QED
    BY <2>1, <2>2, <2>3, <2>4, Zenon DEF Sink, EmitSynchronized, FlushNext, FlushPush, FlushDone
<1>8. /\ \A d \in Callers \ {c} : popped'[d] = popped[d]
      /\ \/ popped'[c] = popped[c] \/ popped'[c] = NoFrame
         \/ popped'[c] \in ToSet(buffered)
  <2>1. CASE FlushNext(c) \/ FlushPush(c)
    BY <2>1, FlushNextStep, FlushPushStep, Zenon
  <2>2. CASE UNCHANGED popped
    BY <2>2, Zenon
  <2> QED
    BY <2>1, <2>2, Zenon DEF Sink, Emit, Push, Report, EmitSynchronized, FlushDone, Resume
<1>9. SinkThere(f)' => SinkThere(f)
  BY <1>3, <1>4, <1>5, <1>6, <1>7, <1>8, Zenon DEF SinkThere
<1> QED
  BY <1>2, <1>9, Zenon DEF There

(* A frame that arrives, or that a processor in a branch raises, is new.   *)
LEMMA ThereArrives ==
  ASSUME Types, NEW k \in Kinds, QueueFrame(k) \/ \E b \in Branches : Raise(b, k)
  PROVE  /\ ids' = ids + 1 /\ ids \in Nat
         /\ \E h \in Frame :
              /\ h.id = ids + 1 /\ h.kind = k
              /\ \A f \in Frame : There(f)' => There(f) \/ f = h
<1>0. inq["system"] \in Seq(Frame) /\ inq["frames"] \in Seq(Frame) /\ WayType
  BY Zenon DEF Types, OwnType, Gates
<1>1. CASE QueueFrame(k)
  <2>1. UNCHANGED <<procq, hand, downstream>> /\ ids' = ids + 1 /\ ids \in Nat
    BY <1>1, QueueStep, Zenon
  <2>2. PICK h \in Frame :
          /\ h.id = ids + 1 /\ h.kind = k
          /\ \/ pc["frames"] = "stopped" /\ inq' = inq
             \/ /\ k \in SystemKinds
                /\ inq'["system"] = Append(inq["system"], h) /\ inq'["frames"] = inq["frames"]
             \/ /\ k \notin SystemKinds
                /\ inq'["frames"] = Append(inq["frames"], h) /\ inq'["system"] = inq["system"]
    BY <1>1, QueueStep, Zenon
  <2>3. /\ ToSet(Append(inq["system"], h)) = ToSet(inq["system"]) \cup {h}
        /\ ToSet(Append(inq["frames"], h)) = ToSet(inq["frames"]) \cup {h}
    BY <1>0, AppendSet, Zenon
  <2>4. ASSUME NEW f \in Frame, There(f)' PROVE There(f) \/ f = h
    <3>1. SinkThere(f)' <=> SinkThere(f)
      BY <2>1, SinkThereKept, Zenon DEF downstream, mergeVars, sinkVars
    <3>2. /\ ToSet(inq["system"])' \subseteq ToSet(inq["system"]) \cup {h}
          /\ ToSet(inq["frames"])' \subseteq ToSet(inq["frames"]) \cup {h}
      BY <2>2, <2>3, Zenon
    <3>3. OwnThere(f)' => OwnThere(f) \/ f = h
      BY <2>1, <3>2, Zenon DEF OwnThere
    <3> QED
      BY <2>4, <3>1, <3>3, Zenon DEF There
  <2> QED
    BY <2>1, <2>2, <2>4, Zenon
<1>2. CASE \E b \in Branches : Raise(b, k)
  <2>1. PICK b \in Branches : Raise(b, k)
    BY <1>2, Zenon
  <2>2. UNCHANGED <<ownVars, mergeVars, sinkVars, out>> /\ ids' = ids + 1 /\ ids \in Nat
    BY <2>1, RaiseStep, Zenon
  <2>3. PICK h \in Frame, c \in Callers :
        /\ h.id = ids + 1 /\ h.kind = k
        /\ (k = "data" => c = <<b, "frames">>) /\ (k # "data" => c = <<b, "own">>)
        /\ \E i \in 1..(Len(lane[c]) + 1) :
             /\ lane'[c] = InsertAt(lane[c], i, h)
             /\ k = "data" => \A j \in 1..(i - 1) : lane[c][j].kind # "end"
        /\ \A d \in Callers \ {c} : lane'[d] = lane[d]
    BY <2>1, RaiseStep, ZenonT(30)
  <2>4. PICK i \in 1..(Len(lane[c]) + 1) : lane'[c] = InsertAt(lane[c], i, h)
    BY <2>3, Zenon
  <2>5. lane[c] \in Seq(Frame)
    BY <1>0, Zenon DEF WayType
  <2>6. ToSet(lane[c])' = ToSet(lane[c]) \cup {h}
    BY <2>4, <2>5, InsertSet, Zenon
  <2>7. ASSUME NEW f \in Frame, There(f)' PROVE There(f) \/ f = h
    <3>1. OwnThere(f)' <=> OwnThere(f)
      BY <2>2, OwnThereKept, Zenon DEF ownVars
    <3>2. \A d \in Callers : f \in ToSet(lane[d])' => f \in ToSet(lane[d]) \/ f = h
      BY <2>3, <2>6, Zenon
    <3>3. UNCHANGED <<buffered, out, sfr, popped>>
      BY <2>2, Zenon DEF mergeVars, sinkVars
    <3>4. SinkThere(f)' => SinkThere(f) \/ f = h
      BY <3>2, <3>3, Zenon DEF SinkThere
    <3> QED
      BY <2>7, <3>1, <3>4, Zenon DEF There
  <2> QED
    BY <2>2, <2>3, <2>7, Zenon
<1> QED
  BY <1>1, <1>2, Zenon

(* An id is given out once.                                                *)
LEMMA IdNext == ASSUME Types, ShapeInv, IdInv, [Next]_vars PROVE IdInv'
<1>1. ASSUME UNCHANGED <<ids, left>>, \A f \in Frame : There(f)' => There(f),
             \A i \in seen' : i \in seen \/ \E f \in Frame : There(f) /\ f.id = i
      PROVE  IdInv'
  <2>1. ASSUME NEW i \in seen' PROVE i <= ids
    <3>1. CASE i \in seen
      BY <3>1, Zenon DEF IdInv
    <3>2. ASSUME NEW f \in Frame, There(f), f.id = i PROVE i <= ids
      BY <3>2, Zenon DEF IdInv
    <3> QED
      BY <1>1, <2>1, <3>1, <3>2, Zenon
  <2> QED
    BY <1>1, <2>1, Zenon DEF IdInv
<1>2. ASSUME UNCHANGED vars PROVE IdInv'
  <2>1. ASSUME NEW f \in Frame, There(f)' PROVE There(f)
    BY <1>2, <2>1, OwnThereKept, SinkThereKept, Zenon DEF There, vars, ownVars, mergeVars, sinkVars
  <2> QED
    BY <1>1, <1>2, <2>1, Zenon DEF vars, ownVars, mergeVars
<1>3. ASSUME (\E g \in Gates : Own(g)) \/ Forward \/ StopProcessing PROVE IdInv'
  <2>1. UNCHANGED <<ids, left, seen>>
    BY <1>3, Zenon DEF Own, Take, Wake, Unblock, Arm, PauseProcessing, HandleOther, Fan, Forward,
                       StopProcessing, mergeVars
  <2> QED
    BY <1>1, <1>3, <2>1, ThereOwn, Zenon
<1>4. ASSUME NEW c \in Callers, Sink(c) PROVE IdInv'
  <2>1. UNCHANGED <<ids, left>>
    BY <1>4, Zenon DEF Sink, Emit, Push, Report, EmitSynchronized, FlushNext, FlushPush, FlushDone,
                       Resume, SinkKeeps, ownVars
  <2>2. ASSUME NEW i \in seen' PROVE i \in seen \/ \E f \in Frame : There(f) /\ f.id = i
    <3>1. CASE Emit(c)
      <4>1. /\ Front(c) \in Frame /\ Front(c) \in ToSet(lane[c]) /\ seen' = seen \cup {Front(c).id}
        BY <3>1, EmitStep, Zenon DEF ShapeInv
      <4>2. There(Front(c))
        BY <4>1, Zenon DEF There, SinkThere
      <4> QED
        BY <2>2, <4>1, <4>2, Zenon
    <3>2. CASE EmitSynchronized(c)
      <4>1. sfr[c] \in Frame /\ seen' = seen \cup {sfr[c].id}
        BY <3>2, SynchronizedStep, Zenon DEF EmitSynchronized
      <4>2. There(sfr[c])
        BY Zenon DEF There, SinkThere
      <4> QED
        BY <2>2, <4>1, <4>2, Zenon
    <3>3. CASE UNCHANGED seen
      BY <2>2, <3>3, Zenon
    <3> QED
      BY <1>4, <3>1, <3>2, <3>3, Zenon
      DEF Sink, Push, Report, FlushNext, FlushPush, FlushDone, Resume, mergeVars
  <2> QED
    BY <1>1, <1>4, <2>1, <2>2, ThereSink, Zenon
<1>5. ASSUME NEW k \in Kinds, QueueFrame(k) \/ \E b \in Branches : Raise(b, k) PROVE IdInv'
  <2>1. PICK h \in Frame :
          /\ h.id = ids + 1 /\ h.kind = k
          /\ \A f \in Frame : There(f)' => There(f) \/ f = h
    BY <1>5, ThereArrives, Zenon
  <2>2. ids' = ids + 1 /\ ids \in Nat /\ UNCHANGED seen
    BY <1>5, ThereArrives, Zenon DEF QueueFrame, Raise, mergeVars
  <2>3. \A f \in Frame : f.id \in Nat \ {0}
    BY FrameType, BoundsAssumption DEF Ids
  <2>4. /\ k = "start" => left["start"] = 1
        /\ left'["start"] = left["start"] \/ left'["start"] = 0
        /\ k = "end" => left["end"] = 1 /\ left["data"] = 0
        /\ k = "end" => left'["end"] = 0 /\ left'["data"] = 0
        /\ k = "start" => left'["start"] = 0
        /\ k # "end" => left'["end"] = left["end"]
        /\ left["data"] = 0 => k # "data" \/ UNCHANGED left
        /\ k # "data" => left'["data"] = left["data"]
    <3>1. CASE QueueFrame(k)
      <4>1. /\ left[k] > 0 /\ (k # "start" => left["start"] = 0) /\ (k = "end" => left["data"] = 0)
            /\ left'[k] = left[k] - 1 /\ (\A j \in Kinds \ {k} : left'[j] = left[j])
        BY <3>1, QueueStep, Zenon
      <4>2. "start" \in Kinds /\ "end" \in Kinds /\ "data" \in Kinds
        BY Zenon DEF Kinds
      <4> QED
        <5>1. left["start"] \in {0, 1} /\ left["end"] \in {0, 1}
          BY Zenon DEF IdInv
        <5>2. left["start"] \in Nat /\ left["end"] \in Nat /\ left["data"] \in Nat
          BY <4>2, Zenon DEF Types, OwnType
        <5> QED
          BY <4>1, <4>2, <5>1, <5>2
    <3>2. CASE \E b \in Branches : Raise(b, k)
      <4>1. UNCHANGED left /\ k \in {"data", "own", "ownEnd"}
        BY <3>2, RaiseStep, Zenon DEF ownVars
      <4> QED
        BY <4>1, Zenon
    <3> QED
      BY <1>5, <3>1, <3>2, Zenon
  <2>5. ASSUME NEW f \in Frame, There(f) PROVE f.id <= ids /\ f # h
    BY <2>1, <2>2, <2>3, <2>5 DEF IdInv
  <2>6. ASSUME NEW f \in Frame, There(f)' PROVE f.id <= ids'
    <3>1. CASE f = h
      BY <2>1, <2>2, <3>1
    <3>2. CASE There(f)
      BY <2>2, <2>3, <2>5, <3>2
    <3> QED
      BY <2>1, <2>6, <3>1, <3>2, Zenon
  <2>7. ASSUME NEW f \in Frame, NEW e \in Frame, There(f)', There(e)', f.id = e.id PROVE f = e
    <3>1. (There(f) \/ f = h) /\ (There(e) \/ e = h)
      BY <2>1, <2>7, Zenon
    <3>2. CASE There(f) /\ There(e)
      BY <2>7, <3>2, Zenon DEF IdInv
    <3>3. CASE There(f) /\ e = h
      BY <2>1, <2>2, <2>3, <2>5, <2>7, <3>3
    <3>4. CASE f = h /\ There(e)
      BY <2>1, <2>2, <2>3, <2>5, <2>7, <3>4
    <3> QED
      BY <3>1, <3>2, <3>3, <3>4, Zenon
  <2>8. left'["start"] \in {0, 1} /\ left'["end"] \in {0, 1}
    BY <2>4 DEF IdInv
  <2>11. \A i \in seen' : i <= ids'
    <3>1. \A i \in seen : i \in Nat /\ i <= ids
      BY BoundsAssumption DEF IdInv, Types, MergeType, Ids
    <3> QED
      BY <2>2, <3>1
  <2>12. ASSUME NEW f \in Frame, There(f)', f.kind = "start" PROVE left'["start"] = 0
    <3>1. CASE f = h
      BY <2>1, <2>4, <2>12, <3>1, Zenon
    <3>2. CASE There(f)
      <4>1. left["start"] = 0
        BY <2>12, <3>2, Zenon DEF IdInv
      <4> QED
        BY <2>4, <4>1, Zenon
    <3> QED
      BY <2>1, <2>12, <3>1, <3>2, Zenon
  <2>13. ASSUME NEW f \in Frame, NEW e \in Frame, There(f)', There(e)', f.kind = "start", e.kind = "start"
         PROVE  f = e
    <3>1. (There(f) \/ f = h) /\ (There(e) \/ e = h)
      BY <2>1, <2>13, Zenon
    <3>2. CASE There(f) /\ There(e)
      BY <2>13, <3>2, Zenon DEF IdInv
    <3>3. ASSUME NEW d \in Frame, There(d), d.kind = "start", k = "start" PROVE FALSE
      BY <2>4, <3>3 DEF IdInv
    <3> QED
      BY <2>1, <2>13, <3>1, <3>2, <3>3, Zenon
  <2>9. ASSUME NEW f \in Frame, There(f)', f.kind = "end" PROVE left'["data"] = 0 /\ left'["end"] = 0
    <3>1. CASE f = h
      BY <2>1, <2>4, <2>9, <3>1, Zenon
    <3>2. CASE There(f)
      <4>1. left["data"] = 0 /\ left["end"] = 0
        BY <2>9, <3>2, Zenon DEF IdInv
      <4> QED
        BY <2>4, <4>1, Zenon
    <3> QED
      BY <2>1, <2>9, <3>1, <3>2, Zenon
  <2>10. ASSUME NEW f \in Frame, NEW e \in Frame, There(f)', There(e)', f.kind = "end", e.kind = "end"
         PROVE  f = e
    <3>1. (There(f) \/ f = h) /\ (There(e) \/ e = h)
      BY <2>1, <2>10, Zenon
    <3>2. CASE There(f) /\ There(e)
      BY <2>10, <3>2, Zenon DEF IdInv
    <3>3. ASSUME NEW d \in Frame, There(d), d.kind = "end", k = "end" PROVE FALSE
      BY <2>4, <3>3 DEF IdInv
    <3> QED
      BY <2>1, <2>10, <3>1, <3>2, <3>3, Zenon
  <2> QED
    BY <2>6, <2>7, <2>8, <2>9, <2>10, <2>11, <2>12, <2>13, Zenon DEF IdInv
<1> QED
  BY <1>2, <1>3, <1>4, <1>5, Zenon DEF Next

-----------------------------------------------------------------------------
(* The branches a lifecycle frame still has to pass.                       *)

\* A gate has a goroutine of its own, and a lane in every branch.
LEMMA GateLane == \A f : GateOf(f) \in Gates /\ GateOf(f) \in Lanes
BY Zenon DEF GateOf, Gates, Lanes

(* A goroutine that handles a lifecycle frame is the one of its gate.      *)
LEMMA HandGate ==
  ASSUME Types, ShapeInv, NEW g \in Gates, pc[g] \in Armed, hand[g].kind \in Lifecycle
  PROVE  GateOf(hand[g]) = g
BY Zenon DEF ShapeInv, OwnPlace, OwnKinds, GateOf, SystemKinds, Lifecycle, Gates

(* A step of a goroutine brings none of them nearer ...                    *)
LEMMA ComingKept ==
  ASSUME Types, ShapeInv, NEW f \in Frame, f.kind \in Lifecycle, NEW b \in Branches,
         \/ \E k \in Kinds : QueueFrame(k) \/ \E e \in Branches : Raise(e, k)
         \/ Forward \/ StopProcessing
         \/ \E g \in Gates : \/ Take(g) \/ Wake(g) \/ Unblock(g) \/ PauseProcessing(g)
                             \/ HandleOther(g) \/ (Arm(g) /\ hand[g] # f)
  PROVE  Coming(b, f)' <=> Coming(b, f)
<1> DEFINE G == GateOf(f)
<1>0. G \in Gates /\ Gates = {"system", "frames"}
  BY GateLane, Zenon DEF Gates
<1>1. b \in Nat /\ 1 <= b
  BY BranchesAssumption DEF Branches
<1>2. ASSUME hand'[G] = hand[G], pc'[G] = pc[G], next'[G] = next[G]
      PROVE  Coming(b, f)' <=> Coming(b, f)
  BY <1>2, Zenon DEF Coming, Ahead
<1>3. ASSUME pc[G] \notin Armed, pc'[G] \notin Armed
      PROVE  Coming(b, f)' <=> Coming(b, f)
  BY <1>3, Zenon DEF Coming, Ahead
<1> HIDE DEF G
<1>4. ASSUME NEW k \in Kinds, QueueFrame(k) \/ \E e \in Branches : Raise(e, k)
      PROVE  Coming(b, f)' <=> Coming(b, f)
  <2>1. UNCHANGED <<hand, pc, next>>
    BY <1>4, Zenon DEF QueueFrame, Raise, ownVars
  <2> QED
    BY <1>2, <2>1, Zenon
<1>5. ASSUME Forward PROVE Coming(b, f)' <=> Coming(b, f)
  <2>1. /\ pc["system"] = "handle" /\ pc'["system"] = "get" /\ pc'["frames"] = pc["frames"]
        /\ hand'["frames"] = hand["frames"] /\ next' = next
    BY <1>5, ForwardStep, Zenon
  <2> QED
    BY <1>0, <1>2, <1>3, <2>1, Zenon DEF Armed
<1>6. ASSUME StopProcessing PROVE Coming(b, f)' <=> Coming(b, f)
  <2>1. /\ pc["frames"] \in {"get", "wait", "woken"} /\ pc'["frames"] = "stopped"
        /\ pc'["system"] = pc["system"] /\ hand'["system"] = hand["system"] /\ next' = next
    BY <1>6, StopStep, Zenon
  <2> QED
    BY <1>0, <1>2, <1>3, <2>1, Zenon DEF Armed
<1>7. ASSUME NEW g \in Gates, Take(g) PROVE Coming(b, f)' <=> Coming(b, f)
  <2>1. CASE g = "system"
    <3>1. /\ next' = next /\ pc["system"] = "get" /\ pc'["system"] \in {"wait", "handle"}
          /\ pc'["frames"] = pc["frames"] /\ hand'["frames"] = hand["frames"]
      BY <1>7, <2>1, TakeSystem, Zenon
    <3> QED
      BY <1>0, <1>2, <1>3, <3>1, Zenon DEF Armed
  <2>2. CASE g = "frames"
    <3>1. /\ next' = next /\ pc["frames"] = "get" /\ pc'["frames"] \in {"wait", "handle"}
          /\ pc'["system"] = pc["system"] /\ hand'["system"] = hand["system"]
      BY <1>7, <2>2, TakeFrames, Zenon
    <3> QED
      BY <1>0, <1>2, <1>3, <3>1, Zenon DEF Armed
  <2> QED
    BY <1>0, <2>1, <2>2, Zenon
<1>8. ASSUME NEW g \in Gates, Wake(g) \/ Unblock(g) PROVE Coming(b, f)' <=> Coming(b, f)
  <2>1. /\ UNCHANGED <<hand, next>> /\ \A h \in Gates \ {g} : pc'[h] = pc[h]
        /\ pc[g] \in {"wait", "woken"} /\ pc'[g] \in {"woken", "handle"}
    BY <1>8, WakeStep, Zenon
  <2> QED
    BY <1>0, <1>2, <1>3, <2>1, Zenon DEF Armed
<1>9. ASSUME NEW g \in Gates, PauseProcessing(g) PROVE Coming(b, f)' <=> Coming(b, f)
  <2>1. /\ UNCHANGED hand
        /\ \A h \in Gates \ {g} : pc'[h] = pc[h] /\ next'[h] = next[h]
        /\ \/ pc[g] = "pauseSystem" /\ pc'[g] = "pauseFrames" /\ UNCHANGED next
           \/ pc[g] = "pauseFrames" /\ pc'[g] = "fan" /\ next'[g] = 1
    BY <1>9, PauseStep, Zenon
  <2>2. CASE g = G
    <3>1. Ahead(b, g)' /\ Ahead(b, g)
      BY <1>1, <2>1, Zenon DEF Ahead, Armed
    <3> QED
      BY <2>1, <2>2, <3>1, Zenon DEF Coming, G
  <2> QED
    BY <1>0, <1>2, <2>1, <2>2, Zenon
<1>10. ASSUME NEW g \in Gates, HandleOther(g) PROVE Coming(b, f)' <=> Coming(b, f)
  <2>1. /\ UNCHANGED hand /\ hand[g] # f
        /\ \A h \in Gates \ {g} : pc'[h] = pc[h] /\ next'[h] = next[h]
    BY <1>10, OtherStep, Zenon
  <2>2. CASE g = G
    BY <2>1, <2>2, Zenon DEF Coming, G
  <2> QED
    BY <1>0, <1>2, <2>1, <2>2, Zenon
<1>11. ASSUME NEW g \in Gates, Arm(g), hand[g] # f PROVE Coming(b, f)' <=> Coming(b, f)
  <2>1. UNCHANGED <<hand, next>> /\ \A h \in Gates \ {g} : pc'[h] = pc[h]
    BY <1>11, ArmStep, Zenon
  <2>2. CASE g = G
    BY <1>11, <2>1, <2>2, Zenon DEF Coming, G
  <2> QED
    BY <1>0, <1>2, <2>1, <2>2, Zenon
<1> QED
  BY <1>4, <1>5, <1>6, <1>7, <1>8, <1>9, <1>10, <1>11, Zenon

(* ... and of the frames queued on a branch none is lost.                  *)
LEMMA WaitingOwn ==
  ASSUME Types, ShapeInv, NEW f \in Frame, f.kind \in Fanned,
         \/ \E k \in Kinds : QueueFrame(k) \/ \E e \in Branches : Raise(e, k)
         \/ Forward \/ StopProcessing
         \/ \E g \in Gates : Own(g) /\ (Arm(g) => hand[g] # f)
  PROVE  Waiting(f)' = Waiting(f)
<1> DEFINE G == GateOf(f)
<1>0. G \in Gates /\ G \in Lanes /\ Gates = {"system", "frames"} /\ WayType
  BY GateLane, Zenon DEF Gates, Types
<1>1. f.kind \in Lifecycle /\ \A b \in Branches : <<b, G>> \in Callers
  BY <1>0, CallerParts, Zenon DEF Fanned, Lifecycle
<1> HIDE DEF G
<1>2. ASSUME \A c \in Callers : f \in ToSet(lane[c])' <=> f \in ToSet(lane[c]),
             \A b \in Branches : Coming(b, f)' <=> Coming(b, f)
      PROVE  Waiting(f)' = Waiting(f)
  <2>1. \A b \in Branches : WaitsFor(b, f)' <=> WaitsFor(b, f)
    BY <1>1, <1>2, Zenon DEF WaitsFor, G
  <2> QED
    BY <2>1, Zenon DEF Waiting
<1>3. ASSUME \/ \E k \in Kinds : QueueFrame(k)
             \/ Forward \/ StopProcessing
             \/ \E g \in Gates : \/ Take(g) \/ Wake(g) \/ Unblock(g) \/ PauseProcessing(g)
                                 \/ HandleOther(g) \/ (Arm(g) /\ hand[g] # f)
      PROVE  Waiting(f)' = Waiting(f)
  <2>1. UNCHANGED lane
    BY <1>3, Zenon DEF QueueFrame, Forward, StopProcessing, Take, Wake, Unblock, PauseProcessing,
                       HandleOther, Arm
  <2>2. \A b \in Branches : Coming(b, f)' <=> Coming(b, f)
    BY <1>1, <1>3, ComingKept, Zenon
  <2> QED
    BY <1>2, <2>1, <2>2, Zenon
<1>4. ASSUME NEW k \in Kinds, NEW e \in Branches, Raise(e, k) PROVE Waiting(f)' = Waiting(f)
  <2>1. PICK h \in Frame, c \in Callers :
        /\ h.id = ids + 1 /\ h.kind = k
        /\ (k = "data" => c = <<e, "frames">>) /\ (k # "data" => c = <<e, "own">>)
        /\ \E i \in 1..(Len(lane[c]) + 1) :
             /\ lane'[c] = InsertAt(lane[c], i, h)
             /\ k = "data" => \A j \in 1..(i - 1) : lane[c][j].kind # "end"
        /\ \A d \in Callers \ {c} : lane'[d] = lane[d]
    BY <1>4, RaiseStep, Zenon
  <2>2. k \in {"data", "own", "ownEnd"}
    BY <1>4, RaiseStep, Zenon
  <2>3. h # f
    BY <2>1, <2>2, Zenon DEF Fanned
  <2>4. PICK i \in 1..(Len(lane[c]) + 1) : lane'[c] = InsertAt(lane[c], i, h)
    BY <2>1, Zenon
  <2>5. lane[c] \in Seq(Frame)
    BY <1>0, Zenon DEF WayType
  <2>6. ToSet(lane[c])' = ToSet(lane[c]) \cup {h}
    BY <2>4, <2>5, InsertSet, Zenon
  <2>7. \A d \in Callers : f \in ToSet(lane[d])' <=> f \in ToSet(lane[d])
    BY <2>1, <2>3, <2>6, Zenon
  <2>8. \A b \in Branches : Coming(b, f)' <=> Coming(b, f)
    BY <1>1, <1>4, ComingKept, Zenon
  <2> QED
    BY <1>2, <2>7, <2>8, Zenon
<1>5. ASSUME NEW g \in Gates, Fan(g) PROVE Waiting(f)' = Waiting(f)
  <2>0. OwnType
    BY Zenon DEF Types
  <2>1. /\ pc[g] = "fan" /\ hand[g] \in Frame /\ next[g] \in Branches
        /\ \A h \in Gates \ {g} : pc'[h] = pc[h] /\ next'[h] = next[h] /\ hand'[h] = hand[h]
        /\ \/ pc'[g] = "fan" /\ next'[g] = next[g] + 1 /\ hand'[g] = hand[g]
           \/ pc'[g] = "get" /\ next[g] = N /\ hand'[g] = NoFrame
    BY <1>5, FanStep, Zenon
  <2>2. PICK c \in Callers : c = <<next[g], g>>
    <3>1. g \in Lanes
      BY Zenon DEF Gates, Lanes
    <3> QED
      BY <2>1, <3>1, CallerParts, Zenon
  <2>3. lane'[c] = Append(lane[c], hand[g]) /\ \A d \in Callers : d # c => lane'[d] = lane[d]
    BY <1>5, <2>2, FanStep, Zenon
  <2>4. lane[c] \in Seq(Frame)
    BY <1>0, Zenon DEF WayType
  <2>5. ToSet(lane[c])' = ToSet(lane[c]) \cup {hand[g]}
    BY <2>1, <2>3, <2>4, AppendSet, ZenonT(30)
  <2>6. NoFrame \notin Frame
    BY FrameType, Zenon
  <2>7. CASE hand[g] # f
    <3>1. \A d \in Callers : f \in ToSet(lane[d])' <=> f \in ToSet(lane[d])
      BY <2>3, <2>5, <2>7, Zenon
    <3>2. ASSUME NEW b \in Branches PROVE Coming(b, f)' <=> Coming(b, f)
      <4>1. CASE g = G
        BY <2>1, <2>6, <2>7, <4>1, Zenon DEF Coming, G
      <4>2. CASE g # G
        BY <1>0, <2>1, <4>2, Zenon DEF Coming, Ahead, G
      <4> QED
        BY <4>1, <4>2, Zenon
    <3> QED
      BY <1>2, <3>1, <3>2, Zenon
  <2>8. CASE hand[g] = f
    <3>1. g = G
      BY <1>1, <2>1, <2>8, HandGate, Zenon DEF G, Armed
    <3>2. ASSUME NEW b \in Branches PROVE WaitsFor(b, f)' <=> WaitsFor(b, f)
      <4>1. <<b, G>> \in Callers /\ b \in Nat /\ b <= N /\ next[g] \in Nat /\ N \in Nat
        <5>1. \A i \in Branches : i \in Nat /\ i <= N /\ N \in Nat
          BY BranchesAssumption DEF Branches
        <5> QED
          BY <1>1, <2>1, <5>1, Zenon
      <4>2. CASE b = next[g]
        <5>1. <<b, G>> = c
          BY <2>2, <3>1, <4>2, Zenon
        <5>2. WaitsFor(b, f)'
          BY <2>5, <2>8, <5>1, Zenon DEF WaitsFor, G
        <5>3. Coming(b, f)
          BY <2>1, <2>8, <3>1, <4>1, <4>2 DEF Coming, Ahead, Armed, G
        <5> QED
          BY <5>2, <5>3, Zenon DEF WaitsFor
      <4>3. CASE b # next[g]
        <5>1. <<b, G>> # c
          BY <2>2, <4>3, Zenon
        <5>2. lane'[<<b, G>>] = lane[<<b, G>>]
          BY <2>3, <4>1, <5>1, Zenon
        <5>3. Coming(b, f)' <=> Coming(b, f)
          <6>1. CASE pc'[g] = "fan" /\ next'[g] = next[g] + 1 /\ hand'[g] = hand[g]
            <7>1. next[g] <= b <=> next'[g] <= b
              <8>1. \A i, j \in Nat : i # j => (j <= i <=> j + 1 <= i)
                OBVIOUS
              <8>2. next[g] <= b <=> next[g] + 1 <= b
                BY <4>1, <4>3, <8>1, Zenon
              <8>3. next'[g] = next[g] + 1
                BY <6>1, Zenon
              <8> QED
                BY <8>2, <8>3, Zenon
            <7> QED
              BY <2>1, <3>1, <6>1, <7>1, Zenon DEF Coming, Ahead, G
          <6>2. CASE pc'[g] = "get" /\ next[g] = N /\ hand'[g] = NoFrame
            <7>1. ~(next[g] <= b)
              <8>1. \A i, j \in Nat : i # j /\ i <= j => ~(j <= i)
                OBVIOUS
              <8> QED
                BY <4>1, <4>3, <6>2, <8>1, Zenon
            <7> QED
              BY <2>1, <2>6, <3>1, <6>2, <7>1, Zenon DEF Coming, Ahead, G
          <6> QED
            BY <2>1, <6>1, <6>2, Zenon
        <5> QED
          BY <5>2, <5>3, Zenon DEF WaitsFor, G
      <4> QED
        BY <4>2, <4>3, Zenon
    <3> QED
      BY <3>2, Zenon DEF Waiting
  <2> QED
    BY <2>7, <2>8, Zenon
<1> QED
  BY <1>3, <1>4, <1>5, Zenon DEF Own

(* A counter for the branches there are, none of them twice.               *)
LEMMA Counts ==
  ASSUME NEW s, s \subseteq Branches, NEW n \in Nat
  PROVE  /\ Fits(s, N) /\ Fits({}, n)
         /\ Fits(s, 0) => s = {}
         /\ \A t \in SUBSET s : Fits(s, n) => Fits(t, n)
         /\ \A b \in s : Fits(s, n) => n > 0 /\ Fits(s \ {b}, n - 1)
<1>1. Fits(s, N)
  <2>1. [a \in s |-> a] \in [s -> 1..N]
    BY Zenon DEF Branches
  <2> QED
    BY <2>1, Zenon DEF Fits
<1>2. Fits({}, n)
  <2>1. [a \in {} |-> a] \in [{} -> 1..n]
    OBVIOUS
  <2> QED
    BY <2>1, Zenon DEF Fits
<1>3. Fits(s, 0) => s = {}
  BY DEF Fits
<1>4. ASSUME NEW t \in SUBSET s, Fits(s, n) PROVE Fits(t, n)
  <2>1. PICK g \in [s -> 1..n] : \A a, b \in s : g[a] = g[b] => a = b
    BY <1>4, Zenon DEF Fits
  <2>2. PICK h : h = [a \in t |-> g[a]]
    BY Zenon
  <2>3. h \in [t -> 1..n] /\ \A a, b \in t : h[a] = h[b] => a = b
    BY <2>1, <2>2, Zenon
  <2> QED
    BY <2>3, Zenon DEF Fits
<1>5. ASSUME NEW b \in s, Fits(s, n) PROVE n > 0 /\ Fits(s \ {b}, n - 1)
  <2>1. PICK g \in [s -> 1..n] : \A a, c \in s : g[a] = g[c] => a = c
    BY <1>5, Zenon DEF Fits
  <2>2. n > 0 /\ g[b] \in 1..n
    BY <2>1
  <2>3. PICK h : h = [a \in s \ {b} |-> IF g[a] = n THEN g[b] ELSE g[a]]
    BY Zenon
  <2>4. ASSUME NEW a \in s \ {b} PROVE h[a] \in 1..(n - 1)
    <3>1. g[a] \in 1..n /\ g[a] # g[b] /\ h[a] = IF g[a] = n THEN g[b] ELSE g[a]
      BY <2>1, <2>3, Zenon
    <3> QED
      BY <2>2, <3>1
  <2>5. ASSUME NEW a \in s \ {b}, NEW c \in s \ {b}, h[a] = h[c] PROVE a = c
    <3>1. /\ g[a] # g[b] /\ g[c] # g[b] /\ (g[a] = g[c] => a = c)
          /\ h[a] = IF g[a] = n THEN g[b] ELSE g[a]
          /\ h[c] = IF g[c] = n THEN g[b] ELSE g[c]
      BY <2>1, <2>3, Zenon
    <3> QED
      BY <2>5, <3>1, Zenon
  <2>6. h \in [s \ {b} -> 1..(n - 1)]
    BY <2>3, <2>4, Zenon
  <2> QED
    BY <2>2, <2>5, <2>6, Zenon DEF Fits
<1> QED
  BY <1>1, <1>2, <1>3, <1>4, <1>5, Zenon

(* A frame that has branches to pass, or is released, is there.            *)
LEMMA WaitThere ==
  ASSUME NEW f
  PROVE  /\ Waiting(f) # {} => There(f)
         /\ Released(f) => There(f)
         /\ Waiting(f) \subseteq Branches
<1>1. Waiting(f) \subseteq Branches /\ \A b \in Waiting(f) : WaitsFor(b, f)
  BY Zenon DEF Waiting
<1>2. ASSUME NEW b \in Branches, WaitsFor(b, f) PROVE There(f)
  <2>1. GateOf(f) = "system" \/ GateOf(f) = "frames"
    BY Zenon DEF GateOf
  <2>2. <<b, GateOf(f)>> \in Callers
    BY GateLane, CallerParts, Zenon
  <2>3. CASE f \in ToSet(lane[<<b, GateOf(f)>>])
    BY <2>2, <2>3, Zenon DEF There, SinkThere
  <2>4. CASE Coming(b, f)
    BY <2>1, <2>4, Zenon DEF There, OwnThere, Coming
  <2> QED
    BY <1>2, <2>3, <2>4, Zenon DEF WaitsFor
<1>3. Released(f) => There(f)
  BY Zenon DEF Released, There, SinkThere
<1> QED
  BY <1>1, <1>2, <1>3, Zenon

(* The count is kept by the goroutines of the parallel pipeline ...        *)
LEMMA CountOwn ==
  ASSUME Types, ShapeInv, IdInv, CountInv, SystemInv, EndInv,
         \/ \E k \in Kinds : QueueFrame(k) \/ \E e \in Branches : Raise(e, k)
         \/ Forward \/ StopProcessing
         \/ \E g \in Gates : Own(g)
  PROVE  CountInv'
<1>0. SUFFICES ASSUME NEW f \in Frame, f.kind \in Fanned PROVE Counted(f)'
  BY Zenon DEF CountInv, Counted
<1>1. Counted(f)
  BY <1>0, Zenon DEF CountInv, Counted
<1>2. UNCHANGED <<sfr, out>>
  BY Zenon DEF QueueFrame, Raise, Forward, StopProcessing, Own, Take, Wake, Unblock, PauseProcessing,
               HandleOther, Arm, Fan, sinkVars
<1>3. Released(f)' <=> Released(f)
  BY <1>2, Zenon DEF Released
<1>4. f.id \in Ids /\ counter \in [Ids -> 0..N] /\ N \in Nat
  BY FrameType, BranchesAssumption, Zenon DEF Types, MergeType
<1>5. CASE \E g \in Gates : Arm(g) /\ hand[g] = f
  <2>1. PICK g \in Gates : Arm(g) /\ hand[g] = f
    BY <1>5, Zenon
  <2>2. /\ counter'[f.id] = N /\ (g = "system" => f.kind \in SystemKinds) /\ UNCHANGED hand
    BY <2>1, ArmStep, Zenon
  <2>3. ~Released(f)
    <3>1. CASE g = "system"
      <4>1. f.kind \in {"start", "cancel"}
        BY <1>0, <2>2, <3>1, Zenon DEF SystemKinds, Fanned
      <4> QED
        BY <2>1, <3>1, <4>1, Zenon DEF SystemInv, SystemOut
    <3>2. CASE g = "frames"
      <4>1. f.kind = "end"
        BY <1>0, <2>1, <3>2, Zenon DEF ShapeInv, OwnKinds, Fanned
      <4>2. EndHeld /\ ~EndOut
        BY <2>1, <3>2, <4>1, Zenon DEF EndInv, EndGate, EndHeld
      <4> QED
        BY <4>1, <4>2, Zenon DEF Released, EndOut, HasEnd
    <3> QED
      BY <3>1, <3>2, Zenon DEF Gates
  <2>4. Fits(Waiting(f)', N)
    <3>1. Waiting(f)' \subseteq Branches
      BY Zenon DEF Waiting
    <3> QED
      BY <3>1, BranchesAssumption, Counts, Zenon
  <2> QED
    BY <1>1, <1>2, <1>3, <2>2, <2>3, <2>4, Zenon DEF Counted
<1>6. CASE ~\E g \in Gates : Arm(g) /\ hand[g] = f
  <2>1. Waiting(f)' = Waiting(f)
    BY <1>0, <1>6, WaitingOwn, Zenon
  <2>2. Fits(Waiting(f), counter'[f.id])
    <3>1. CASE counter'[f.id] = counter[f.id]
      BY <1>1, <3>1, Zenon DEF Counted
    <3>2. CASE counter'[f.id] # counter[f.id]
      <4>1. PICK g \in Gates : Arm(g)
        BY <3>2, Zenon DEF QueueFrame, Raise, Forward, StopProcessing, Own, Take, Wake, Unblock,
                           PauseProcessing, HandleOther, Fan, mergeVars
      <4>2. hand[g] \in Frame /\ f.id = hand[g].id /\ hand[g] # f /\ counter'[f.id] = N
        BY <1>4, <1>6, <3>2, <4>1, ArmStep, Zenon
      <4>3. There(hand[g])
        BY Zenon DEF There, OwnThere, Gates
      <4>4. ~There(f)
        BY <4>2, <4>3, Zenon DEF IdInv
      <4>5. Waiting(f) = {}
        BY <4>4, WaitThere, Zenon
      <4> QED
        BY <1>4, <4>2, <4>5, Counts, Zenon
    <3> QED
      BY <3>1, <3>2, Zenon
  <2> QED
    BY <1>1, <1>2, <1>3, <2>1, <2>2, Zenon DEF Counted
<1> QED
  BY <1>5, <1>6, Zenon

(* A sink call releases the frame it reports, and no other.                *)
LEMMA ReleasedSink ==
  ASSUME Types, ShapeInv, NEW c \in Callers, Sink(c), NEW f \in Frame, f.kind \in Lifecycle,
         ~(Report(c) /\ Front(c) = f)
  PROVE  /\ Released(f)' => Released(f)
         /\ \A d \in Callers : sfr'[d] = f => sfr[d] = f
<1>0. WayKinds /\ SinkPlace /\ SinkKinds /\ out \in Seq(Frame)
  BY Zenon DEF ShapeInv, Types, WayType
<1>1. NoFrame \notin Frame
  BY FrameType, Zenon
<1>2. \A d \in Callers : sfr'[d] = f => sfr[d] = f
  <2>1. CASE Emit(c)
    <3>1. /\ \A d \in Callers \ {c} : sfr'[d] = sfr[d]
          /\ sfr'[c] = sfr[c] \/ sfr'[c] = Front(c)
      BY <1>0, <2>1, EmitStep, Zenon
    <3>2. Front(c) # f
      BY <1>0, <2>1, EmitStep, Zenon
    <3> QED
      BY <3>1, <3>2, Zenon
  <2>2. CASE Report(c)
    BY <2>2, ReportKeeps, Zenon
  <2>3. CASE Push(c) \/ Resume(c)
    <3>1. /\ \A d \in Callers \ {c} : sfr'[d] = sfr[d]
          /\ sfr'[c] = sfr[c] \/ sfr'[c] = NoFrame
      BY <1>0, <2>3, PushStep, ResumeStep, Zenon
    <3> QED
      BY <1>1, <3>1, Zenon
  <2>4. CASE UNCHANGED sfr
    BY <2>4, Zenon
  <2> QED
    BY <2>1, <2>2, <2>3, <2>4, Zenon DEF Sink, EmitSynchronized, FlushNext, FlushPush, FlushDone
<1>3. f \in ToSet(out)' => f \in ToSet(out) \/ f = sfr[c]
  <2>1. CASE Push(c) \/ EmitSynchronized(c)
    <3>1. sfr[c] \in Frame /\ (out' = out \/ out' = Append(out, sfr[c]))
      BY <2>1, PushStep, SynchronizedStep, Zenon
    <3>2. ToSet(Append(out, sfr[c])) = ToSet(out) \cup {sfr[c]}
      BY <1>0, <3>1, AppendSet, Zenon
    <3> QED
      BY <3>1, <3>2, Zenon
  <2>2. CASE FlushPush(c)
    <3>1. popped[c] \in Frame /\ out' = Append(out, popped[c])
      BY <2>2, FlushPushStep, Zenon
    <3>2. ToSet(Append(out, popped[c])) = ToSet(out) \cup {popped[c]}
      BY <1>0, <3>1, AppendSet, Zenon
    <3>3. popped[c] # f
      BY <1>0, Zenon DEF SinkKinds
    <3> QED
      BY <3>1, <3>2, <3>3, Zenon
  <2>3. CASE UNCHANGED out
    BY <2>3, Zenon
  <2> QED
    BY <2>1, <2>2, <2>3, Zenon DEF Sink, Emit, Report, FlushNext, FlushDone, Resume
<1> QED
  BY <1>2, <1>3, Zenon DEF Released

(* No sink call brings a branch nearer to a frame, ...                     *)
LEMMA WaitingSink ==
  ASSUME Types, WayKinds, NEW c \in Callers, Sink(c), NEW f
  PROVE  /\ \A b \in Branches : Coming(b, f)' <=> Coming(b, f)
         /\ Waiting(f)' \subseteq Waiting(f)
<1>1. UNCHANGED ownVars
  BY Zenon DEF Sink, Emit, Push, Report, EmitSynchronized, FlushNext, FlushPush, FlushDone, Resume,
               SinkKeeps
<1>2. UNCHANGED <<pc, hand, next>>
  BY <1>1, Zenon DEF ownVars
<1>3. \A b \in Branches : Coming(b, f)' <=> Coming(b, f)
  BY <1>2, Zenon DEF Coming, Ahead
<1>4. \A d \in Callers : ToSet(lane[d])' \subseteq ToSet(lane[d])
  BY LanesShrink, Zenon
<1>5. \A b \in Branches : <<b, GateOf(f)>> \in Callers
  BY GateLane, CallerParts, Zenon
<1>6. \A b \in Branches : WaitsFor(b, f)' => WaitsFor(b, f)
  BY <1>3, <1>4, <1>5, Zenon DEF WaitsFor
<1> QED
  BY <1>3, <1>6, Zenon DEF Waiting

(* ... and a branch that reports one is done with it.                      *)
LEMMA WaitingReport ==
  ASSUME Types, ShapeInv, SystemInv, EndInv, NEW c \in Callers, Report(c),
         NEW f \in Frame, f = Front(c), f.kind \in Fanned
  PROVE  /\ c = <<c[1], GateOf(f)>> /\ c[1] \in Waiting(f)
         /\ Waiting(f)' = Waiting(f) \ {c[1]}
<1> DEFINE b == c[1]
<1>0. /\ WayKinds /\ f \in ToSet(lane[c])
      /\ lane[c] # <<>> /\ lane[c] \in Seq(Frame) /\ lane'[c] = Tail(lane[c]) /\ f = Head(lane[c])
      /\ \A d \in Callers \ {c} :
              lane'[d] = lane[d] \/ (f.kind = "cancel" /\ d = <<c[1], "frames">>)
  BY ReportLanes, Zenon DEF ShapeInv, Front
<1>1. c = <<b, c[2]>> /\ b \in Branches /\ c[2] \in Lanes
  BY CallerParts, Zenon
<1>2. f.kind \in LaneKinds(c[2])
  BY <1>0, Zenon DEF WayKinds
<1> HIDE DEF b
<1>3. GateOf(f) = c[2] /\ (c[2] = "system" \/ (c[2] = "frames" /\ f.kind = "end"))
  BY <1>1, <1>2, Zenon DEF LaneKinds, Fanned, SystemKinds, GateOf, Lanes
<1>4. WaitsFor(b, f)
  BY <1>0, <1>1, <1>3, Zenon DEF WaitsFor
<1>5. f \notin ToSet(Tail(lane[c]))
  <2>1. CASE c[2] = "system"
    BY <1>0, <1>1, <2>1, TailSet, ZenonT(30) DEF SystemInv, SystemLane
  <2>2. CASE c[2] = "frames" /\ f.kind = "end"
    <3>1. EndLast(lane[c])
      BY <1>1, <2>2, Zenon DEF EndInv, EndLane
    <3>2. SUFFICES ASSUME NEW i \in 1..Len(Tail(lane[c])), Tail(lane[c])[i] = f PROVE FALSE
      BY Zenon DEF ToSet
    <3>3. /\ i + 1 \in 1..Len(lane[c]) /\ lane[c][i + 1] = f /\ 1 \in 1..Len(lane[c])
          /\ lane[c][1] = f
      BY <1>0, <3>2
    <3>4. i + 1 <= 1
      BY <2>2, <3>1, <3>3, Zenon DEF EndLast
    <3> QED
      BY <3>2, <3>4
  <2> QED
    BY <1>3, <2>1, <2>2, Zenon
<1>6. ~Coming(b, f)
  <2>1. CASE c[2] = "system"
    <3>1. hand["system"] = f => pc["system"] = "fan" /\ next["system"] > b
      BY <1>0, <1>1, <2>1, Zenon DEF SystemInv, SystemLane
    <3>2. next["system"] \in Nat /\ b \in Nat
      BY <1>1, BranchesAssumption DEF Types, OwnType, Gates, Branches
    <3>3. ~(next["system"] > b /\ next["system"] <= b)
      BY <3>2
    <3> QED
      BY <1>3, <2>1, <3>1, <3>3, Zenon DEF Coming, Ahead
  <2>2. CASE c[2] = "frames" /\ f.kind = "end"
    <3>1. HasEnd(lane[<<b, "frames">>])
      BY <1>0, <1>1, <2>2, Zenon DEF HasEnd
    <3>2. ~(EndHeld /\ (pc["frames"] = "fan" => next["frames"] <= b))
      BY <1>1, <3>1, Zenon DEF EndInv, EndLane
    <3> QED
      BY <1>3, <2>2, <3>2, Zenon DEF Coming, Ahead, EndHeld
  <2> QED
    BY <1>3, <2>1, <2>2, Zenon
<1>7. Sink(c)
  BY Zenon DEF Sink
<1>8. \A e \in Branches : Coming(e, f)' <=> Coming(e, f)
  BY <1>0, <1>7, WaitingSink, Zenon
<1>9. ~WaitsFor(b, f)'
  <2>1. <<b, GateOf(f)>> = c
    BY <1>1, <1>3, Zenon
  <2>2. f \notin ToSet(lane[<<b, GateOf(f)>>])'
    BY <1>0, <1>5, <2>1, Zenon
  <2> QED
    BY <1>1, <1>6, <1>8, <2>2, Zenon DEF WaitsFor
<1>10. ASSUME NEW e \in Branches, e # b PROVE WaitsFor(e, f)' <=> WaitsFor(e, f)
  <2>1. <<e, GateOf(f)>> \in Callers \ {c}
    <3>1. <<e, GateOf(f)>> \in Callers /\ <<e, GateOf(f)>>[1] = e
      BY GateLane, CallerParts, Zenon
    <3>2. c[1] # e
      BY <1>10, Zenon DEF b
    <3> QED
      BY <3>1, <3>2, Zenon
  <2>2. <<e, GateOf(f)>> # <<c[1], "frames">>
    BY <1>10, Zenon DEF b
  <2>3. lane'[<<e, GateOf(f)>>] = lane[<<e, GateOf(f)>>]
    BY <1>0, <2>1, <2>2, Zenon
  <2> QED
    BY <1>8, <2>3, Zenon DEF WaitsFor
<1>11. /\ b \in Waiting(f)
       /\ Waiting(f)' = Waiting(f) \ {b}
  BY <1>1, <1>4, <1>9, <1>10, Zenon DEF Waiting
<1> QED
  BY <1>1, <1>3, <1>11, Zenon DEF b

(* ... and by the sink calls.                                              *)
LEMMA CountSink ==
  ASSUME Types, ShapeInv, IdInv, CountInv, SystemInv, EndInv, NEW c \in Callers, Sink(c)
  PROVE  CountInv'
<1>0. SUFFICES ASSUME NEW f \in Frame, f.kind \in Fanned PROVE Counted(f)'
  BY Zenon DEF CountInv, Counted
<1>1. Counted(f) /\ WayKinds
  BY <1>0, Zenon DEF CountInv, Counted, ShapeInv
<1>2. Waiting(f)' \subseteq Waiting(f) /\ Waiting(f) \subseteq Branches
  BY <1>1, WaitingSink, WaitThere, Zenon
<1>3. f.id \in Ids /\ counter \in [Ids -> 0..N] /\ N \in Nat
  BY FrameType, BranchesAssumption, Zenon DEF Types, MergeType
<1>4. counter[f.id] \in Nat /\ Fits(Waiting(f), counter[f.id])
  BY <1>1, <1>3 DEF Counted
<1>5. CASE ~(Report(c) /\ Front(c) = f)
  <2>1. /\ Released(f)' => Released(f)
        /\ \A d \in Callers : sfr'[d] = f => sfr[d] = f
    BY <1>0, <1>5, ReleasedSink, Zenon DEF Fanned, Lifecycle
  <2>2. Fits(Waiting(f)', counter'[f.id])
    <3>1. CASE counter'[f.id] = counter[f.id]
      <4>1. Waiting(f)' \in SUBSET Waiting(f)
        BY <1>2, Zenon
      <4> QED
        BY <1>2, <1>4, <3>1, <4>1, Counts, Zenon
    <3>2. CASE counter'[f.id] # counter[f.id]
      <4>1. Report(c)
        BY <3>2, Zenon DEF Sink, Emit, Push, EmitSynchronized, FlushNext, FlushPush, FlushDone,
                           Resume, mergeVars
      <4>2. Front(c) \in Frame /\ Front(c) # f /\ Front(c) \in ToSet(lane[c])
        BY <1>1, <1>5, <4>1, ReportLanes, Zenon
      <4>3. f.id = Front(c).id /\ (counter'[f.id] > 0 \/ counter'[f.id] = 0)
        BY <1>1, <1>3, <3>2, <4>1, ReportStep, Zenon
      <4>4. There(Front(c))
        BY <4>2, Zenon DEF There, SinkThere
      <4>5. ~There(f)
        BY <4>2, <4>3, <4>4, Zenon DEF IdInv
      <4>6. Waiting(f)' = {}
        BY <1>2, <4>5, WaitThere, Zenon
      <4>7. counter'[f.id] \in Nat
        BY <1>1, <1>3, <4>1, <4>3, ReportStep
      <4> QED
        BY <4>6, <4>7, Counts, Zenon
    <3> QED
      BY <3>1, <3>2, Zenon
  <2> QED
    BY <1>1, <1>2, <2>1, <2>2, Zenon DEF Counted
<1>6. CASE Report(c) /\ Front(c) = f
  <2>1. c[1] \in Waiting(f) /\ Waiting(f)' = Waiting(f) \ {c[1]}
    BY <1>0, <1>6, WaitingReport, Zenon
  <2>4. counter[f.id] > 0 /\ Fits(Waiting(f) \ {c[1]}, counter[f.id] - 1)
    BY <1>2, <1>4, <2>1, Counts, Zenon
  <2>5. counter'[f.id] = counter[f.id] - 1
    BY <1>1, <1>6, <2>4, ReportStep, Zenon
  <2>6. Fits(Waiting(f)', counter'[f.id])
    BY <2>1, <2>4, <2>5, Zenon
  <2>7. ~Released(f)
    BY <1>1, <2>1, Zenon DEF Counted
  <2>8. \A d \in Callers : sfr[d] # f
    BY <2>7, Zenon DEF Released
  <2>9. \A d, e \in Callers : sfr'[d] = f /\ sfr'[e] = f => d = e
    BY <1>6, <2>8, ReportKeeps, Zenon
  <2>10. Released(f)' => Waiting(f)' = {}
    <3>1. CASE sfr'[c] = f
      <4>1. counter'[f.id] = 0
        BY <1>1, <1>6, <2>8, <3>1, ReportStep, Zenon
      <4>2. Fits(Waiting(f)', 0) /\ Waiting(f)' \subseteq Branches
        BY <1>2, <2>6, <4>1, Zenon
      <4> QED
        BY <4>2, Counts, Zenon
    <3>2. CASE sfr'[c] # f
      <4>1. out' = out /\ \A d \in Callers \ {c} : sfr'[d] = sfr[d]
        BY <1>6, ReportKeeps, Zenon
      <4> QED
        BY <2>7, <2>8, <3>2, <4>1, Zenon DEF Released
    <3> QED
      BY <3>1, <3>2, Zenon
  <2> QED
    BY <2>6, <2>9, <2>10, Zenon DEF Counted
<1> QED
  BY <1>5, <1>6, Zenon

-----------------------------------------------------------------------------
(* A system frame is in one place at a time.                               *)

\* The invariant stands while the queue does and no lane gains a frame.
LEMMA SystemKept ==
  ASSUME SystemInv, UNCHANGED <<inq, sfr, out>>,
         hand'["system"] = hand["system"] \/ hand'["system"] = NoFrame,
         NoFrame \notin ToSet(inq["system"]), \A f \in Frame : f # NoFrame,
         \A b \in Branches :
            /\ NoFrame \notin ToSet(lane[<<b, "system">>])
            /\ lane'[<<b, "system">>] = lane[<<b, "system">>],
         \A b \in Branches : \/ hand["system"] \notin ToSet(lane[<<b, "system">>])
                             \/ pc'["system"] = pc["system"] /\ next'["system"] = next["system"]
  PROVE  SystemInv'
<1>1. SystemQueue'
  BY Zenon DEF SystemInv, SystemQueue
<1>2. ASSUME NEW b \in Branches PROVE SystemLane(b)'
  BY Zenon DEF SystemInv, SystemLane
<1>3. ASSUME NEW f \in Frame, f.kind \in {"start", "cancel"} PROVE SystemOut(f)'
  <2>1. SystemOut(f)
    BY <1>3, Zenon DEF SystemInv
  <2>2. Released(f)' <=> Released(f)
    BY Zenon DEF Released
  <2> QED
    BY <2>1, <2>2, Zenon DEF SystemOut
<1> QED
  BY <1>1, <1>2, <1>3, Zenon DEF SystemInv

\* The goroutines of the parallel pipeline keep a system frame in one place ...
LEMMA SystemOwn ==
  ASSUME Types, ShapeInv, IdInv, SystemInv,
         \/ \E k \in Kinds : QueueFrame(k) \/ \E e \in Branches : Raise(e, k)
         \/ Forward \/ StopProcessing
         \/ \E g \in Gates : Own(g)
  PROVE  SystemInv'
<1>0. /\ inq["system"] \in Seq(Frame) /\ inq["frames"] \in Seq(Frame) /\ WayType /\ OwnType
      /\ NoFrame \notin Frame /\ "system" \in Gates /\ OwnPlace /\ OwnKinds /\ WayKinds
  BY FrameType, Zenon DEF Types, OwnType, Gates, ShapeInv
<1>1. \A b \in Branches : <<b, "system">> \in Callers /\ <<b, "system">>[2] = "system"
  BY CallerParts, Zenon
<1>2. /\ NoFrame \notin ToSet(inq["system"]) /\ (\A f \in Frame : f # NoFrame)
      /\ \A b \in Branches : NoFrame \notin ToSet(lane[<<b, "system">>])
  <2>1. ToSet(inq["system"]) \subseteq Frame
    BY <1>0, EmptySet, Zenon
  <2>2. ASSUME NEW b \in Branches PROVE ToSet(lane[<<b, "system">>]) \subseteq Frame
    BY <1>0, <1>1, EmptySet, Zenon DEF WayType
  <2> QED
    BY <1>0, <2>1, <2>2, Zenon
<1>3. ASSUME UNCHANGED <<inq, sfr, out, lane>>,
             hand'["system"] = hand["system"] \/ hand'["system"] = NoFrame,
             pc["system"] # "fan" \/ (pc'["system"] = pc["system"] /\ next'["system"] = next["system"])
      PROVE  SystemInv'
  <2>1. \A b \in Branches : \/ hand["system"] \notin ToSet(lane[<<b, "system">>])
                            \/ pc'["system"] = pc["system"] /\ next'["system"] = next["system"]
    BY <1>3, Zenon DEF SystemInv, SystemLane
  <2>2. \A b \in Branches :
            /\ NoFrame \notin ToSet(lane[<<b, "system">>])
            /\ lane'[<<b, "system">>] = lane[<<b, "system">>]
    BY <1>2, <1>3, Zenon
  <2> QED
    BY <1>2, <1>3, <2>1, <2>2, SystemKept, Zenon
<1>4. ASSUME NEW k \in Kinds, QueueFrame(k) PROVE SystemInv'
  <2>1. UNCHANGED <<pc, hand, next, lane, sfr, out>>
    BY <1>4, QueueStep, Zenon DEF downstream, sinkVars
  <2>2. PICK h \in Frame :
          /\ h.id = ids + 1 /\ h.kind = k
          /\ \/ pc["frames"] = "stopped" /\ inq' = inq
             \/ /\ k \in SystemKinds
                /\ inq'["system"] = Append(inq["system"], h) /\ inq'["frames"] = inq["frames"]
             \/ /\ k \notin SystemKinds
                /\ inq'["frames"] = Append(inq["frames"], h) /\ inq'["system"] = inq["system"]
    BY <1>4, QueueStep, Zenon
  <2>3. ~There(h)
    <3>1. ids \in Nat
      BY <1>0, Zenon DEF OwnType
    <3>2. ~(h.id <= ids)
      BY <2>2, <3>1
    <3> QED
      BY <3>2, Zenon DEF IdInv
  <2>4. /\ h \notin ToSet(inq["system"]) /\ h # hand["system"] /\ ~Released(h)
        /\ \A b \in Branches : h \notin ToSet(lane[<<b, "system">>])
    BY <1>1, <2>3, WaitThere, Zenon DEF There, OwnThere, SinkThere
  <2>5. CASE inq'["system"] = inq["system"]
    <3>1. SystemQueue' /\ \A b \in Branches : SystemLane(b)'
      BY <2>1, <2>5, Zenon DEF SystemInv, SystemQueue, SystemLane
    <3>2. \A f \in Frame : f.kind \in {"start", "cancel"} => SystemOut(f)'
      BY <2>1, <2>5, Zenon DEF SystemInv, SystemOut, Released
    <3> QED
      BY <3>1, <3>2, Zenon DEF SystemInv
  <2>6. CASE inq'["system"] = Append(inq["system"], h)
    <3>1. Once(inq["system"])
      BY Zenon DEF SystemInv, SystemQueue
    <3>2. Once(inq["system"])' /\ ToSet(inq["system"])' = ToSet(inq["system"]) \cup {h}
      BY <1>0, <2>4, <2>6, <3>1, AppendSet, ZenonT(30)
    <3>3. SystemQueue'
      BY <2>1, <2>4, <3>2, Zenon DEF SystemInv, SystemQueue
    <3>4. ASSUME NEW b \in Branches PROVE SystemLane(b)'
      BY <2>1, <2>4, <3>2, Zenon DEF SystemInv, SystemLane
    <3>5. ASSUME NEW f \in Frame, f.kind \in {"start", "cancel"} PROVE SystemOut(f)'
      <4>1. SystemOut(f) /\ (Released(f)' <=> Released(f))
        BY <2>1, <3>5, Zenon DEF SystemInv, Released
      <4> QED
        BY <2>1, <2>4, <3>2, <4>1, Zenon DEF SystemOut
    <3> QED
      BY <3>3, <3>4, <3>5, Zenon DEF SystemInv
  <2> QED
    BY <2>2, <2>5, <2>6, Zenon
<1>5. ASSUME NEW k \in Kinds, NEW e \in Branches, Raise(e, k) PROVE SystemInv'
  <2>1. UNCHANGED <<inq, pc, hand, next, sfr, out>>
    BY <1>5, RaiseStep, Zenon DEF ownVars, sinkVars
  <2>2. PICK c \in Callers :
        /\ c = <<e, "frames">> \/ c = <<e, "own">>
        /\ \A d \in Callers \ {c} : lane'[d] = lane[d]
    BY <1>5, RaiseStep, ZenonT(30)
  <2>3. \A b \in Branches : <<b, "system">> # c
    BY <2>2
  <2>4. \A b \in Branches : lane'[<<b, "system">>] = lane[<<b, "system">>]
    BY <1>1, <2>2, <2>3, Zenon
  <2> QED
    BY <1>2, <2>1, <2>4, SystemKept, Zenon
<1>6. ASSUME Forward PROVE SystemInv'
  <2>1. UNCHANGED <<inq, sfr, out, lane>> /\ hand'["system"] = NoFrame /\ pc["system"] # "fan"
    BY <1>6, ForwardStep, Zenon DEF downstream, sinkVars
  <2> QED
    BY <1>3, <2>1, Zenon
<1>7. ASSUME StopProcessing PROVE SystemInv'
  <2>1. /\ UNCHANGED <<inq, sfr, out, lane, next>> /\ hand'["system"] = hand["system"]
        /\ pc["system"] # "fan"
    BY <1>7, StopStep, Zenon DEF downstream, sinkVars
  <2> QED
    BY <1>3, <2>1, Zenon
<1>8. ASSUME NEW g \in Gates, Wake(g) \/ Unblock(g) \/ Arm(g) \/ PauseProcessing(g) \/ HandleOther(g)
      PROVE  SystemInv'
  <2>1. UNCHANGED <<inq, hand, sinkVars, out, lane>>
    BY <1>8, WakeStep, ArmStep, PauseStep, OtherStep, Zenon DEF downstream
  <2>2. /\ pc[g] # "fan"
        /\ \A h \in Gates \ {g} : pc'[h] = pc[h] /\ next'[h] = next[h]
    BY <1>8, WakeStep, ArmStep, PauseStep, OtherStep, Zenon
  <2>3. pc["system"] # "fan" \/ (pc'["system"] = pc["system"] /\ next'["system"] = next["system"])
    BY <1>0, <2>2, Zenon
  <2> QED
    BY <1>3, <2>1, <2>3, Zenon DEF sinkVars
<1>9. ASSUME Take("frames") PROVE SystemInv'
  <2>1. /\ UNCHANGED <<inq, next, sfr, out, lane>> /\ hand'["system"] = hand["system"]
        /\ pc'["system"] = pc["system"]
    BY <1>9, TakeFrames, Zenon DEF downstream, sinkVars
  <2> QED
    BY <1>3, <2>1, Zenon
<1>10. ASSUME Take("system") PROVE SystemInv'
  <2>1. UNCHANGED <<next, lane, sfr, out>>
    BY <1>10, TakeSystem, Zenon DEF downstream, sinkVars
  <2>2. ASSUME inq["system"] # <<>>, hand'["system"] = Head(inq["system"]),
               inq'["system"] = Tail(inq["system"])
        PROVE  SystemInv'
    <3>1. /\ ToSet(inq["system"]) = ToSet(inq["system"])' \cup {hand'["system"]}
          /\ Once(inq["system"])' /\ hand'["system"] \notin ToSet(inq["system"])'
      BY <1>0, <2>2, TailSet, ZenonT(30) DEF SystemInv, SystemQueue
    <3>2. SystemQueue'
      BY <3>1, Zenon DEF SystemQueue
    <3>3. ASSUME NEW b \in Branches PROVE SystemLane(b)'
      <4>1. SystemLane(b)
        BY Zenon DEF SystemInv
      <4>2. hand'["system"] \notin ToSet(lane[<<b, "system">>])
        BY <3>1, <4>1, Zenon DEF SystemLane
      <4> QED
        BY <2>1, <3>1, <4>1, <4>2, Zenon DEF SystemLane
    <3>4. ASSUME NEW f \in Frame, f.kind \in {"start", "cancel"} PROVE SystemOut(f)'
      <4>1. SystemOut(f) /\ (Released(f)' <=> Released(f))
        BY <2>1, <3>4, Zenon DEF SystemInv, Released
      <4> QED
        BY <3>1, <4>1, Zenon DEF SystemOut
    <3> QED
      BY <3>2, <3>3, <3>4, Zenon DEF SystemInv
  <2>3. ASSUME inq["frames"] # <<>>, hand'["system"] = Head(inq["frames"]),
               inq'["system"] = inq["system"]
        PROVE  SystemInv'
    <3>1. hand'["system"] \in ToSet(inq["frames"])
      BY <1>0, <2>3, EmptySet, Zenon
    <3>2. hand'["system"].kind \in {"data", "end"}
      BY <1>0, <3>1, Zenon DEF OwnKinds
    <3>3. hand'["system"].kind \notin SystemKinds /\ hand'["system"].kind \notin {"start", "cancel"}
      BY <3>2, Zenon DEF SystemKinds
    <3>4. SystemQueue'
      BY <1>0, <2>3, <3>3, Zenon DEF SystemInv, SystemQueue, OwnKinds
    <3>5. ASSUME NEW b \in Branches PROVE SystemLane(b)'
      <4>1. \A f \in ToSet(lane[<<b, "system">>]) : f.kind \in SystemKinds
        BY <1>0, <1>1, Zenon DEF WayKinds, LaneKinds
      <4> QED
        BY <2>1, <2>3, <3>3, <4>1, Zenon DEF SystemInv, SystemLane
    <3>6. ASSUME NEW f \in Frame, f.kind \in {"start", "cancel"} PROVE SystemOut(f)'
      <4>1. SystemOut(f) /\ (Released(f)' <=> Released(f))
        BY <2>1, <3>6, Zenon DEF SystemInv, Released
      <4> QED
        BY <2>3, <3>3, <3>6, <4>1, Zenon DEF SystemOut
    <3> QED
      BY <3>4, <3>5, <3>6, Zenon DEF SystemInv
  <2> QED
    BY <1>10, <2>2, <2>3, TakeSystem, Zenon
<1>11. ASSUME NEW g \in Gates, Fan(g) PROVE SystemInv'
  <2>1. /\ UNCHANGED <<inq, sfr, out>> /\ pc[g] = "fan" /\ hand[g] \in Frame /\ next[g] \in Branches
        /\ \A h \in Gates \ {g} : pc'[h] = pc[h] /\ next'[h] = next[h] /\ hand'[h] = hand[h]
        /\ lane'[<<next[g], g>>] = Append(lane[<<next[g], g>>], hand[g])
        /\ \A c \in Callers : c # <<next[g], g>> => lane'[c] = lane[c]
        /\ \/ pc'[g] = "fan" /\ next'[g] = next[g] + 1 /\ hand'[g] = hand[g]
           \/ pc'[g] = "get" /\ next[g] = N /\ hand'[g] = NoFrame
    BY <1>11, FanStep, Zenon DEF sinkVars
  <2>2. CASE g = "frames"
    <3>1. \A b \in Branches : lane'[<<b, "system">>] = lane[<<b, "system">>]
      BY <1>1, <2>1, <2>2, Zenon
    <3>2. hand'["system"] = hand["system"] /\ pc'["system"] = pc["system"]
          /\ next'["system"] = next["system"]
      BY <1>0, <2>1, <2>2, Zenon
    <3> QED
      BY <1>2, <2>1, <3>1, <3>2, SystemKept, Zenon
  <2>3. CASE g = "system"
    <3>0. /\ hand["system"] \in Frame /\ next["system"] \in Branches /\ pc["system"] = "fan"
          /\ \/ /\ pc'["system"] = "fan" /\ next'["system"] = next["system"] + 1
                /\ hand'["system"] = hand["system"]
             \/ pc'["system"] = "get" /\ next["system"] = N /\ hand'["system"] = NoFrame
      BY <2>1, <2>3, Zenon
    <3>1. PICK n \in Branches : n = next["system"]
      BY <3>0, Zenon
    <3>2. /\ lane'[<<n, "system">>] = Append(lane[<<n, "system">>], hand["system"])
          /\ \A b \in Branches : b # n => lane'[<<b, "system">>] = lane[<<b, "system">>]
      BY <1>1, <2>1, <2>3, <3>1, Zenon
    <3>3. lane[<<n, "system">>] \in Seq(Frame)
      BY <1>0, <1>1, Zenon DEF WayType
    <3>4. n \in Nat /\ \A b \in Branches : b \in Nat /\ b <= N
      BY BranchesAssumption DEF Branches
    <3>5. hand["system"] \notin ToSet(lane[<<n, "system">>])
      <4>1. SystemLane(n)
        BY Zenon DEF SystemInv
      <4> QED
        BY <3>1, <3>4, <4>1 DEF SystemLane
    <3>6. /\ ToSet(lane[<<n, "system">>])' = ToSet(lane[<<n, "system">>]) \cup {hand["system"]}
          /\ Once(lane[<<n, "system">>])'
      <4>1. Once(lane[<<n, "system">>])
        BY Zenon DEF SystemInv, SystemLane
      <4> QED
        BY <3>0, <3>2, <3>3, <3>5, <4>1, AppendSet, Zenon
    <3>7. SystemQueue'
      BY <1>2, <2>1, <3>0, Zenon DEF SystemInv, SystemQueue
    <3>8. ASSUME NEW b \in Branches PROVE SystemLane(b)'
      <4>0. SystemLane(b) /\ hand["system"] \notin ToSet(inq["system"])
        BY Zenon DEF SystemInv, SystemQueue
      <4>1. Once(lane[<<b, "system">>])'
        BY <3>2, <3>6, <4>0, Zenon DEF SystemLane
      <4>2. ToSet(lane[<<b, "system">>])' \cap ToSet(inq["system"])' = {}
        BY <2>1, <3>2, <3>6, <4>0, Zenon DEF SystemLane
      <4>3. ASSUME hand'["system"] \in ToSet(lane[<<b, "system">>])'
            PROVE  pc'["system"] = "fan" /\ next'["system"] > b
        <5>0. ToSet(lane[<<b, "system">>])' \subseteq Frame
          <6>1. lane'[<<b, "system">>] = lane[<<b, "system">>] \/ b = n
            BY <3>2, Zenon
          <6>2. ToSet(lane[<<b, "system">>]) \subseteq Frame
            BY <1>0, <1>1, EmptySet, Zenon DEF WayType
          <6> QED
            BY <3>0, <3>6, <6>1, <6>2, Zenon
        <5>1. /\ pc'["system"] = "fan" /\ next'["system"] = next["system"] + 1
              /\ hand'["system"] = hand["system"]
          BY <1>0, <3>0, <4>3, <5>0, Zenon
        <5>2. CASE b = n
          BY <3>1, <3>4, <5>1, <5>2
        <5>3. CASE b # n
          <6>1. hand["system"] \in ToSet(lane[<<b, "system">>])
            BY <3>2, <4>3, <5>1, <5>3, Zenon
          <6>2. next["system"] > b
            BY <4>0, <6>1, Zenon DEF SystemLane
          <6> QED
            BY <3>1, <3>4, <5>1, <6>2
        <5> QED
          BY <5>2, <5>3, Zenon
      <4> QED
        BY <4>1, <4>2, <4>3, Zenon DEF SystemLane
    <3>9. ASSUME NEW f \in Frame, f.kind \in {"start", "cancel"} PROVE SystemOut(f)'
      <4>1. SystemOut(f) /\ (Released(f)' <=> Released(f))
        BY <2>1, <3>9, Zenon DEF SystemInv, Released
      <4> QED
        BY <1>0, <2>1, <3>0, <4>1, Zenon DEF SystemOut
    <3> QED
      BY <3>7, <3>8, <3>9, Zenon DEF SystemInv
  <2> QED
    BY <2>2, <2>3, Zenon DEF Gates
<1> QED
  BY <1>4, <1>5, <1>6, <1>7, <1>8, <1>9, <1>10, <1>11, Zenon DEF Own, Gates

\* ... and so do the sink calls.
LEMMA SystemSink ==
  ASSUME Types, ShapeInv, SystemInv, CountInv', NEW c \in Callers, Sink(c)
  PROVE  SystemInv'
<1>0. WayType /\ WayKinds /\ NoFrame \notin Frame
  BY FrameType, Zenon DEF Types, ShapeInv
<1>1. UNCHANGED <<pc, hand, next, inq>>
  BY Zenon DEF Sink, Emit, Push, Report, EmitSynchronized, FlushNext, FlushPush, FlushDone, Resume,
               SinkKeeps, ownVars
<1>2. SystemQueue'
  BY <1>1, Zenon DEF SystemInv, SystemQueue
<1>3. ASSUME NEW b \in Branches PROVE SystemLane(b)'
  <2>0. <<b, "system">> \in Callers /\ SystemLane(b) /\ lane[<<b, "system">>] \in Seq(Frame)
    BY <1>0, CallerParts, ZenonT(30) DEF SystemInv, WayType, Lanes
  <2>1. ToSet(lane[<<b, "system">>])' \subseteq ToSet(lane[<<b, "system">>])
    BY <1>0, <2>0, LanesShrink, Zenon
  <2>2. \/ lane'[<<b, "system">>] = lane[<<b, "system">>]
        \/ lane[<<b, "system">>] # <<>> /\ lane'[<<b, "system">>] = Tail(lane[<<b, "system">>])
    <3>1. CASE UNCHANGED lane
      BY <3>1, Zenon
    <3>2. CASE Emit(c)
      BY <1>0, <2>0, <3>2, EmitStep, Zenon
    <3>3. CASE Report(c)
      <4>1. <<b, "system">> # <<c[1], "frames">>
        OBVIOUS
      <4> QED
        BY <1>0, <2>0, <3>3, <4>1, ReportLanes, ZenonT(30)
    <3> QED
      BY <3>1, <3>2, <3>3, Zenon DEF Sink, Push, EmitSynchronized, FlushNext, FlushPush, FlushDone,
                                     Resume
  <2>3. Once(lane[<<b, "system">>])'
    <3>1. lane[<<b, "system">>] # <<>> => Once(Tail(lane[<<b, "system">>]))
      BY <2>0, TailSet, Zenon DEF SystemLane
    <3> QED
      BY <2>0, <2>2, <3>1, Zenon DEF SystemLane
  <2> QED
    BY <1>1, <2>0, <2>1, <2>3, Zenon DEF SystemLane
<1>4. ASSUME NEW f \in Frame, f.kind \in {"start", "cancel"} PROVE SystemOut(f)'
  <2>0. f.kind \in Lifecycle /\ GateOf(f) = "system" /\ SystemOut(f)
    BY <1>4, Zenon DEF Lifecycle, SystemInv, GateOf, SystemKinds
  <2>1. CASE ~(Report(c) /\ Front(c) = f)
    <3>1. Released(f)' => Released(f)
      BY <2>0, <2>1, ReleasedSink, Zenon
    <3> QED
      BY <1>1, <2>0, <3>1, Zenon DEF SystemOut
  <2>2. CASE Report(c) /\ Front(c) = f
    <3>1. f \in ToSet(lane[c])
      BY <1>0, <2>2, ReportLanes, Zenon
    <3>2. c[1] \in Branches /\ c = <<c[1], c[2]>> /\ c[2] \in Lanes
      BY CallerParts, Zenon
    <3>3. f.kind \in LaneKinds(c[2])
      BY <1>0, <3>1, Zenon DEF WayKinds
    <3>4. c = <<c[1], "system">>
      BY <1>4, <3>2, <3>3, Zenon DEF LaneKinds, Lanes
    <3>5. SystemLane(c[1])
      BY <3>2, Zenon DEF SystemInv
    <3>6. f \notin ToSet(inq["system"])
      BY <3>1, <3>4, <3>5, Zenon DEF SystemLane
    <3>7. ASSUME Released(f)', hand["system"] = f PROVE FALSE
      <4>1. pc["system"] = "fan"
        BY <3>1, <3>4, <3>5, <3>7, Zenon DEF SystemLane
      <4>2. PICK n \in Branches : n = next["system"]
        BY <4>1, Zenon DEF Types, OwnType, Gates
      <4>3. n <= n
        BY <4>2, BranchesAssumption DEF Branches
      <4>4. Coming(n, f)'
        BY <1>1, <2>0, <3>7, <4>1, <4>2, <4>3, Zenon DEF Coming, Ahead, Armed
      <4>5. n \in Waiting(f)'
        BY <4>4, Zenon DEF Waiting, WaitsFor
      <4> QED
        BY <1>4, <2>0, <3>7, <4>5, Zenon DEF CountInv, Counted, Fanned
    <3> QED
      BY <1>1, <3>6, <3>7, Zenon DEF SystemOut
  <2> QED
    BY <2>1, <2>2, Zenon
<1> QED
  BY <1>2, <1>3, <1>4, Zenon DEF SystemInv
=============================================================================
