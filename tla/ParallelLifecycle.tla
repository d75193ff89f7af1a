-------------------------- MODULE ParallelLifecycle -------------------------
(***************************************************************************)
(* Start, end and cancel frames are synchronized: what the parallel        *)
(* pipeline promises of the order in which frames get out, for any number  *)
(* of branches and of frames.                                              *)
(***************************************************************************)
EXTENDS ParallelFrames

(* Nothing gets out ahead of the StartFrame but what a goroutine of a      *)
(* branch's own pushes.                                                    *)

(* What follows the StartFrame, and what such a goroutine pushes, may be   *)
(* appended.                                                               *)
LEMMA StartAppend ==
  ASSUME out \in Seq(Frame), StartFirst, NEW x \in Frame, out' = Append(out, x),
         x.kind \in {"own", "start"} \/ StartOut
  PROVE  StartFirst' /\ (StartOut' <=> StartOut \/ x.kind = "start")
<1>1. StartOut' <=> StartOut \/ x.kind = "start"
  <2>1. ToSet(out)' = ToSet(out) \cup {x}
    BY AppendSet, Zenon
  <2> QED
    BY <2>1, Zenon DEF StartOut
<1>2. /\ Len(out) \in Nat /\ Len(Append(out, x)) = Len(out) + 1 /\ Append(out, x)[Len(out) + 1] = x
      /\ \A j \in 1..Len(out) : Append(out, x)[j] = out[j]
  OBVIOUS
<1>3. SUFFICES ASSUME NEW i \in 1..Len(Append(out, x)), Append(out, x)[i].kind # "own"
               PROVE  \E j \in 1..i : Append(out, x)[j].kind = "start"
  BY <1>1, Zenon DEF StartFirst
<1>4. CASE i \in 1..Len(out)
  <2>1. PICK j \in 1..i : out[j].kind = "start"
    BY <1>2, <1>3, <1>4, Zenon DEF StartFirst
  <2>2. j \in 1..Len(out)
    BY <1>2, <1>4, <2>1
  <2> QED
    BY <1>2, <2>1, <2>2, Zenon
<1>5. CASE i = Len(out) + 1
  <2>1. CASE x.kind = "start"
    <3>1. i \in 1..i
      BY <1>2, <1>5
    <3> QED
      BY <1>2, <1>5, <2>1, <3>1, Zenon
  <2>2. CASE StartOut
    <3>1. PICK j \in 1..Len(out) : out[j].kind = "start"
      BY <2>2, Zenon DEF StartOut, ToSet
    <3>2. j \in 1..i
      BY <1>2, <1>5, <3>1
    <3> QED
      BY <1>2, <3>1, <3>2, Zenon
  <2> QED
    BY <1>2, <1>3, <1>5, <2>1, <2>2, Zenon
<1>6. i \in 1..Len(out) \/ i = Len(out) + 1
  BY <1>2
<1> QED
  BY <1>4, <1>5, <1>6, Zenon

(* No branch has started while the StartFrame has not been handled.        *)
LEMMA EarlyBranch == ASSUME Types, Early, NEW b \in Branches PROVE ~Started(b)
<1>0. inq["system"] \in Seq(Frame)
  BY Zenon DEF Types, OwnType, Gates
<1>1. CASE StartDue
  BY <1>1 DEF Started, StartDue
<1>2. CASE StartQueued
  <2>1. 1 \in 1..Len(inq["system"]) /\ inq["system"][1].kind = "start"
    BY <1>0, <1>2 DEF StartQueued
  <2> QED
    BY <2>1, Zenon DEF Started
<1>3. CASE StartTaken
  <2>1. hand["system"].kind = "start" /\ next["system"] = 0
    BY <1>3, Zenon DEF StartTaken, Early
  <2>2. ~(0 > b)
    BY BranchesAssumption DEF Branches
  <2> QED
    BY <2>1, <2>2, Zenon DEF Started
<1> QED
  BY <1>1, <1>2, <1>3, Zenon DEF Early

(* The goroutines of the parallel pipeline wait for it.                    *)
LEMMA StartOwn ==
  ASSUME Types, ShapeInv, IdInv, NoOwnEnd', StartInv,
         \/ \E k \in Kinds : QueueFrame(k) \/ \E e \in Branches : Raise(e, k)
         \/ Forward \/ StopProcessing
         \/ \E g \in Gates : Own(g)
  PROVE  StartInv'
<1>0. /\ OwnType /\ GateType /\ inq["system"] \in Seq(Frame) /\ inq["frames"] \in Seq(Frame)
      /\ "system" \in Gates /\ "frames" \in Gates /\ Gates = {"system", "frames"}
  BY Zenon DEF Types, OwnType, Gates
<1>1. UNCHANGED <<out, seen, spc, sfr>>
  BY Zenon DEF QueueFrame, Raise, Forward, StopProcessing, Own, Take, Wake, Unblock, PauseProcessing,
               HandleOther, Arm, Fan, sinkVars, mergeVars
<1>2. StartFirst' /\ (StartOut' <=> StartOut) /\ (StartPhase' <=> StartPhase)
  BY <1>1, Zenon DEF StartInv, StartFirst, StartOut, StartPhase
<1>17. StartSeen'
  <2>1. SUFFICES ASSUME ~StartOut PROVE \A f \in Frame : There(f)' /\ f.kind = "start" => f.id \notin seen
    BY <1>1, <1>2, Zenon DEF StartInv, StartSeen
  <2>2. \A f \in Frame : There(f) /\ f.kind = "start" => f.id \notin seen
    BY <2>1, Zenon DEF StartInv, StartSeen
  <2>3. CASE Forward \/ StopProcessing \/ \E g \in Gates : Own(g)
    BY <2>2, <2>3, ThereOwn, Zenon
  <2>4. ASSUME NEW k \in Kinds, QueueFrame(k) \/ \E e \in Branches : Raise(e, k)
        PROVE  \A f \in Frame : There(f)' /\ f.kind = "start" => f.id \notin seen
    <3>1. PICK h \in Frame : h.id = ids + 1 /\ \A f \in Frame : There(f)' => There(f) \/ f = h
      BY <2>4, ThereArrives, Zenon
    <3>2. ids \in Nat
      BY <1>0, Zenon DEF OwnType
    <3>3. ids + 1 \notin seen
      <4>1. ASSUME ids + 1 \in seen PROVE ids + 1 <= ids
        BY <4>1, Zenon DEF IdInv
      <4> QED
        BY <3>2, <4>1
    <3> QED
      BY <2>2, <3>1, <3>3, Zenon
  <2> QED
    BY <2>3, <2>4, Zenon
<1>3. SUFFICES ASSUME StartPhase
               PROVE  pc'["frames"] = "get" /\ procq' = <<>> /\ StartWay' /\ (Early \/ Late)'
  BY <1>2, <1>17, Zenon DEF StartInv
<1>4. pc["frames"] = "get" /\ procq = <<>> /\ StartWay /\ (Early \/ Late)
  BY <1>3, Zenon DEF StartInv
<1>5. Early => pc["system"] \in {"get", "handle"}
  BY Zenon DEF Early, StartDue, StartQueued, StartTaken
<1>6. ASSUME UNCHANGED lane PROVE StartWay'
  BY <1>1, <1>4, <1>6, Zenon DEF StartWay
<1>7. ASSUME NEW k \in Kinds, QueueFrame(k)
      PROVE  pc'["frames"] = "get" /\ procq' = <<>> /\ StartWay' /\ (Early \/ Late)'
  <2>1. /\ UNCHANGED <<procq, pc, hand, next, gateVars, lane, syncing>>
        /\ left[k] > 0 /\ (k # "start" => left["start"] = 0)
        /\ left'[k] = left[k] - 1 /\ (\A j \in Kinds \ {k} : left'[j] = left[j])
    BY <1>7, QueueStep, Zenon DEF downstream, mergeVars
  <2>2. PICK h \in Frame :
              /\ h.kind = k
              /\ \/ pc["frames"] = "stopped" /\ inq' = inq
                 \/ /\ k \in SystemKinds
                    /\ inq'["system"] = Append(inq["system"], h) /\ inq'["frames"] = inq["frames"]
                 \/ /\ k \notin SystemKinds
                    /\ inq'["frames"] = Append(inq["frames"], h) /\ inq'["system"] = inq["system"]
    BY <1>7, QueueStep, Zenon
  <2>3. left["start"] = 0 => k # "start" /\ left'["start"] = 0
    BY <2>1 DEF Kinds
  <2>4. CASE Late
    BY <1>1, <1>2, <1>4, <1>6, <2>1, <2>3, <2>4, Zenon DEF Late, gateVars
  <2>5. CASE Early
    <3>1. CASE StartDue
      <4>1. k = "start" /\ left'["start"] = 0
        BY <2>1, <3>1 DEF StartDue
      <4>2. inq'["system"] = Append(inq["system"], h)
        BY <1>4, <2>2, <4>1, Zenon DEF SystemKinds
      <4>3. inq'["system"] # <<>> /\ Head(inq'["system"]) = h
        BY <1>0, <3>1, <4>2, AppendSet DEF StartDue
      <4>4. StartQueued'
        BY <2>1, <2>2, <3>1, <4>1, <4>3, Zenon DEF StartDue, StartQueued
      <4> QED
        BY <1>1, <1>2, <1>4, <1>6, <2>1, <2>5, <4>4, Zenon DEF Early, gateVars
    <3>2. CASE StartQueued
      <4>1. inq'["system"] # <<>> /\ Head(inq'["system"]) = Head(inq["system"])
        <5>1. inq["system"] # <<>> /\ (inq'["system"] = inq["system"]
                \/ inq'["system"] = Append(inq["system"], h))
          BY <2>2, <3>2, Zenon DEF StartQueued
        <5> QED
          BY <1>0, <5>1, AppendSet
      <4>2. StartQueued'
        BY <2>1, <2>3, <3>2, <4>1, Zenon DEF StartQueued
      <4> QED
        BY <1>1, <1>2, <1>4, <1>6, <2>1, <2>5, <4>2, Zenon DEF Early, gateVars
    <3>3. CASE StartTaken
      <4>1. StartTaken'
        BY <2>1, <2>3, <3>3, Zenon DEF StartTaken
      <4> QED
        BY <1>1, <1>2, <1>4, <1>6, <2>1, <2>5, <4>1, Zenon DEF Early, gateVars
    <3> QED
      BY <2>5, <3>1, <3>2, <3>3, Zenon DEF Early
  <2> QED
    BY <1>4, <2>4, <2>5, Zenon
<1>8. ASSUME NEW k \in Kinds, NEW e \in Branches, Raise(e, k)
      PROVE  pc'["frames"] = "get" /\ procq' = <<>> /\ StartWay' /\ (Early \/ Late)'
  <2>1. UNCHANGED <<left, inq, procq, pc, hand, next, gateVars, syncing>>
    BY <1>8, RaiseStep, Zenon DEF ownVars, mergeVars
  <2>2. PICK h \in Frame, c \in Callers :
        /\ h.id = ids + 1 /\ h.kind = k
        /\ (k = "data" => c = <<e, "frames">>) /\ (k # "data" => c = <<e, "own">>)
        /\ \E i \in 1..(Len(lane[c]) + 1) :
             /\ lane'[c] = InsertAt(lane[c], i, h)
             /\ k = "data" => \A j \in 1..(i - 1) : lane[c][j].kind # "end"
        /\ \A d \in Callers \ {c} : lane'[d] = lane[d]
    BY <1>8, RaiseStep, ZenonT(30)
  <2>3. PICK i \in 1..(Len(lane[c]) + 1) : lane'[c] = InsertAt(lane[c], i, h)
    BY <2>2, Zenon
  <2>4. lane[c] \in Seq(Frame)
    BY Zenon DEF Types, WayType
  <2>5. ToSet(lane[c])' = ToSet(lane[c]) \cup {h}
    BY <2>3, <2>4, InsertSet, Zenon
  <2>6. \A d \in Callers \ {c} : ToSet(lane[d])' = ToSet(lane[d])
    BY <2>2, Zenon
  <2>7. h.kind \notin Lifecycle
    <3>1. k \in {"data", "own", "ownEnd"}
      BY <1>8, RaiseStep, Zenon
    <3>2. h.kind # "ownEnd"
      BY <2>5, Zenon DEF NoOwnEnd
    <3> QED
      BY <2>2, <3>1, <3>2, Zenon DEF Lifecycle
  <2>8. StartWay'
    BY <1>1, <1>4, <2>5, <2>6, <2>7, Zenon DEF StartWay
  <2>9. CASE Late
    BY <1>1, <1>2, <1>4, <2>1, <2>8, <2>9, Zenon DEF Late, gateVars
  <2>10. CASE Early
    <3>1. c[2] # "system"
      BY <2>2, CallerParts, Zenon DEF Lanes
    <3>2. \A d \in Callers : lane'[d] = <<>> \/ d[2] # "system"
      BY <2>2, <2>10, <3>1, Zenon DEF Early
    <3>3. (StartDue \/ StartQueued \/ StartTaken)'
      BY <2>1, <2>10, Zenon DEF Early, StartDue, StartQueued, StartTaken
    <3>4. Early'
      BY <1>2, <2>1, <2>10, <3>2, <3>3, Zenon DEF Early, gateVars
    <3> QED
      BY <1>4, <2>1, <2>8, <3>4, Zenon
  <2> QED
    BY <1>4, <2>9, <2>10, Zenon
<1>9. ASSUME Forward \/ StopProcessing PROVE FALSE
  <2>1. pc["system"] = "handle" /\ hand["system"].kind # "start"
    BY <1>9, ForwardStep, StopStep, Zenon DEF SystemKinds
  <2> QED
    BY <1>4, <2>1, Zenon DEF Early, Late, StartDue, StartQueued, StartTaken, Armed
<1>10. ASSUME NEW g \in Gates, Own(g), g = "frames" PROVE FALSE
  BY <1>4, <1>10, TakeFrames, WakeStep, ArmStep, PauseStep, OtherStep, FanStep, Zenon DEF Own
<1>11. ASSUME Take("system")
       PROVE  pc'["frames"] = "get" /\ procq' = <<>> /\ StartWay' /\ (Early \/ Late)'
  <2>1. /\ UNCHANGED <<left, procq, next, gateVars, lane, syncing>>
        /\ pc["system"] = "get" /\ pc'["system"] = (IF block["system"] THEN "wait" ELSE "handle")
        /\ pc'["frames"] = pc["frames"]
        /\ \/ inq["system"] # <<>> /\ hand'["system"] = Head(inq["system"])
           \/ inq["system"] = <<>> /\ inq["frames"] # <<>>
    BY <1>11, TakeSystem, Zenon DEF downstream, mergeVars
  <2>2. UNCHANGED <<block, ev>>
    BY <2>1, Zenon DEF gateVars
  <2>3. CASE Late
    <3>1. pc'["system"] = "wait"
      BY <2>1, <2>3, Zenon DEF Late
    <3>2. Late'
      BY <1>1, <1>2, <2>1, <2>2, <2>3, <3>1, Zenon DEF Late, Armed
    <3> QED
      BY <1>4, <1>6, <2>1, <3>2, Zenon
  <2>4. CASE Early
    <3>1. pc'["system"] = "handle" /\ StartQueued
      BY <2>1, <2>4, Zenon DEF Early, StartDue, StartTaken
    <3>2. StartTaken'
      BY <2>1, <3>1, Zenon DEF StartTaken, StartQueued
    <3>3. Early'
      BY <1>1, <1>2, <2>1, <2>2, <2>4, <3>2, Zenon DEF Early
    <3> QED
      BY <1>4, <1>6, <2>1, <3>3, Zenon
  <2> QED
    BY <1>4, <2>3, <2>4, Zenon
<1>12. ASSUME Wake("system") \/ Unblock("system") PROVE FALSE
  <2>1. pc["system"] \in {"wait", "woken"} /\ (pc["system"] = "wait" => ev["system"])
    BY <1>0, <1>12, WakeStep, Zenon
  <2> QED
    BY <1>4, <1>5, <2>1, Zenon DEF Late, Armed
<1>13. ASSUME HandleOther("system") PROVE FALSE
  <2>1. pc["system"] = "handle" /\ hand["system"].kind \notin Lifecycle
    BY <1>0, <1>13, OtherStep, Zenon
  <2> QED
    BY <1>4, <2>1, Zenon DEF Early, Late, StartDue, StartQueued, StartTaken, Armed, Lifecycle
<1>14. ASSUME Arm("system")
       PROVE  pc'["frames"] = "get" /\ procq' = <<>> /\ StartWay' /\ (Early \/ Late)'
  <2>1. /\ UNCHANGED <<left, procq, hand, lane>> /\ syncing'
        /\ pc["system"] = "handle" /\ pc'["system"] = "pauseSystem" /\ pc'["frames"] = pc["frames"]
    BY <1>0, <1>14, ArmStep, Zenon
  <2>2. StartTaken
    BY <1>4, <2>1, Zenon DEF Early, Late, StartDue, StartQueued, Armed
  <2>3. Late'
    BY <2>1, <2>2, Zenon DEF Late, StartTaken, Armed
  <2> QED
    BY <1>4, <1>6, <2>1, <2>3, Zenon
<1>15. ASSUME PauseProcessing("system")
       PROVE  pc'["frames"] = "get" /\ procq' = <<>> /\ StartWay' /\ (Early \/ Late)'
  <2>1. /\ UNCHANGED <<left, procq, hand, lane, syncing>> /\ pc'["frames"] = pc["frames"]
        /\ \/ /\ pc["system"] = "pauseSystem" /\ pc'["system"] = "pauseFrames"
              /\ block'["system"] /\ ~ev'["system"]
           \/ /\ pc["system"] = "pauseFrames" /\ pc'["system"] = "fan"
              /\ block'["system"] = block["system"] /\ ev'["system"] = ev["system"]
    BY <1>0, <1>15, PauseStep, ZenonT(30) DEF downstream, mergeVars
  <2>2. Late
    BY <1>4, <1>5, <2>1, Zenon
  <2>3. Late'
    BY <1>1, <1>2, <2>1, <2>2, Zenon DEF Late, Armed
  <2> QED
    BY <1>4, <1>6, <2>1, <2>3, Zenon
<1>16. ASSUME Fan("system")
       PROVE  pc'["frames"] = "get" /\ procq' = <<>> /\ StartWay' /\ (Early \/ Late)'
  <2>1. /\ UNCHANGED <<left, procq, gateVars, syncing>> /\ pc["system"] = "fan"
        /\ hand["system"] \in Frame /\ pc'["frames"] = pc["frames"]
        /\ \/ pc'["system"] = "fan" /\ hand'["system"] = hand["system"]
           \/ pc'["system"] = "get"
    BY <1>0, <1>16, FanStep DEF mergeVars
  <2>2. Late /\ hand["system"].kind = "start"
    BY <1>4, <1>5, <2>1, Zenon DEF Late, Armed
  <2>3. Late'
    BY <1>1, <1>2, <2>1, <2>2, Zenon DEF Late, Armed, gateVars
  <2>4. PICK c \in Callers : c = <<next["system"], "system">>
    <3>1. next["system"] \in Branches
      BY <1>0, <1>16, FanStep, Zenon
    <3> QED
      BY <3>1, CallerParts, Zenon
  <2>5. lane'[c] = Append(lane[c], hand["system"]) /\ \A d \in Callers : d # c => lane'[d] = lane[d]
    <3>1. /\ lane'[<<next["system"], "system">>] = Append(lane[<<next["system"], "system">>], hand["system"])
          /\ \A d \in Callers : d # <<next["system"], "system">> => lane'[d] = lane[d]
      BY <1>0, <1>16, FanStep, Zenon
    <3> QED
      BY <2>4, <3>1, Zenon
  <2>6. lane[c] \in Seq(Frame)
    BY Zenon DEF Types, WayType
  <2>7. ToSet(lane[c])' = ToSet(lane[c]) \cup {hand["system"]}
    BY <2>1, <2>5, <2>6, AppendSet, ZenonT(30)
  <2>8. \A d \in Callers : d # c => ToSet(lane[d])' = ToSet(lane[d])
    BY <2>5, Zenon
  <2>9. StartWay'
    BY <1>1, <1>4, <2>2, <2>7, <2>8, Zenon DEF StartWay
  <2> QED
    BY <1>4, <2>1, <2>3, <2>9, Zenon
<1> QED
  BY <1>7, <1>8, <1>9, <1>10, <1>11, <1>12, <1>13, <1>14, <1>15, <1>16, Zenon DEF Own, Gates

(* A sink call puts nothing else out ahead of it.                          *)
LEMMA StartSink ==
  ASSUME Types, ShapeInv, IdInv, CountInv, SystemInv, StartInv, NEW c \in Callers, Sink(c)
  PROVE  StartInv'
<1>0. /\ WayKinds /\ SinkPlace /\ StartFirst /\ StartSeen /\ out \in Seq(Frame)
      /\ NoFrame.kind = "none" /\ sfr[c].kind \in Kinds \cup {"none"}
      /\ (spc[c] = "idle" => sfr[c].kind = "none") /\ "none" \notin Lifecycle
  BY DEF ShapeInv, StartInv, SinkPlace, Types, WayType, SinkType, Frame, Kinds, Lifecycle, NoFrame
<1>1. ASSUME StartPhase
      PROVE  pc["frames"] = "get" /\ procq = <<>> /\ StartWay /\ (Early \/ Late)
  BY <1>1, Zenon DEF StartInv
<1>2. /\ ~StartOut => StartPhase
      /\ Early => ~StartOut
  BY Zenon DEF StartPhase, Early
<1>3. ASSUME Early PROVE spc[c] \in {"idle", "push"} /\ (lane[c] # <<>> => c[2] # "system")
  <2>1. StartPhase /\ StartWay
    BY <1>1, <1>2, <1>3, Zenon
  <2>2. sfr[c].kind # "start"
    <3>1. SUFFICES ASSUME sfr[c].kind = "start" PROVE FALSE
      OBVIOUS
    <3>2. sfr[c] \in Frame /\ There(sfr[c]) /\ Released(sfr[c])
      BY <1>0, <3>1, Zenon DEF Types, SinkType, There, SinkThere, Released
    <3>3. left["start"] = 0
      BY <3>1, <3>2, Zenon DEF IdInv
    <3>4. sfr[c] \notin ToSet(inq["system"]) /\ hand["system"] # sfr[c]
      BY <3>1, <3>2, Zenon DEF SystemInv, SystemOut
    <3>5. CASE StartQueued
      <4>1. inq["system"] \in Seq(Frame) /\ inq["system"] # <<>> /\ Head(inq["system"]).kind = "start"
        BY <3>5, Zenon DEF StartQueued, Types, OwnType, Gates
      <4>2. Head(inq["system"]) \in ToSet(inq["system"]) /\ Head(inq["system"]) \in Frame
        BY <4>1, EmptySet, Zenon
      <4>3. There(Head(inq["system"]))
        BY <4>2, Zenon DEF There, OwnThere
      <4>4. Head(inq["system"]) = sfr[c]
        BY <3>1, <3>2, <4>1, <4>2, <4>3, Zenon DEF IdInv
      <4> QED
        BY <3>4, <4>2, <4>4, Zenon
    <3>6. CASE StartTaken
      <4>1. hand["system"] \in Frame /\ hand["system"].kind = "start"
        BY <3>6, Zenon DEF StartTaken, Types, OwnType, Holding, Gates
      <4>2. There(hand["system"])
        BY Zenon DEF There, OwnThere
      <4> QED
        BY <3>1, <3>2, <3>4, <4>1, <4>2, Zenon DEF IdInv
    <3>7. ~StartDue
      BY <3>3 DEF StartDue
    <3> QED
      BY <1>3, <3>5, <3>6, <3>7, Zenon DEF Early
  <2>3. spc[c] \in {"idle", "push"}
    BY <1>0, <2>1, <2>2, Zenon DEF SinkPlace, StartWay
  <2> QED
    BY <1>3, <2>3, Zenon DEF Early
<1>4. ASSUME StartPhase, UNCHANGED <<ownVars, block>>, ev'["system"] = ev["system"],
             ~StartOut' => ~StartOut /\ syncing' = syncing,
             Early => ~StartOut' /\ \A d \in Callers : lane[d] = <<>> => lane'[d] = <<>>
      PROVE  pc'["frames"] = "get" /\ procq' = <<>> /\ (Early \/ Late)'
  <2>1. UNCHANGED <<left, inq, procq, pc, hand, next>>
    BY <1>4, Zenon DEF ownVars
  <2>2. pc["frames"] = "get" /\ procq = <<>> /\ (Early \/ Late)
    BY <1>1, <1>4, Zenon
  <2>3. CASE Late
    BY <1>4, <2>1, <2>2, <2>3, Zenon DEF Late
  <2>4. CASE Early
    <3>1. (StartDue \/ StartQueued \/ StartTaken)'
      BY <2>1, <2>4, Zenon DEF Early, StartDue, StartQueued, StartTaken
    <3>2. Early'
      BY <1>4, <2>1, <2>4, <3>1, Zenon DEF Early
    <3> QED
      BY <2>1, <2>2, <3>2, Zenon
  <2> QED
    BY <2>2, <2>3, <2>4, Zenon
<1>5. ASSUME StartOut, StartOut', StartFirst', StartPhase' => StartPhase, StartPhase => StartWay',
             UNCHANGED <<ownVars, block>>, ev'["system"] = ev["system"]
      PROVE  StartInv'
  <2>1. StartSeen'
    BY <1>5, Zenon DEF StartSeen
  <2> QED
    BY <1>2, <1>4, <1>5, <2>1, Zenon DEF StartInv
<1>6. ASSUME spc[c] \notin {"idle", "emit"}, spc[c] # "push" \/ sfr[c].kind # "own" PROVE StartOut
  BY <1>0, <1>6, Zenon DEF StartSeen
<1>7. ASSUME ~StartOut, seen' = seen,
             \A d \in Callers \ {c} : spc'[d] = spc[d] /\ sfr'[d] = sfr[d],
             spc'[c] \in {"idle", "emit"}
      PROVE  StartSeen'
  <2>1. \A f \in Frame : There(f)' /\ f.kind = "start" => f.id \notin seen'
    BY <1>0, <1>7, ThereSink, Zenon DEF StartSeen
  <2>2. \A d \in Callers : spc'[d] \in {"idle", "emit"} \/ (spc'[d] = "push" /\ sfr'[d].kind = "own")
    BY <1>0, <1>7, Zenon DEF StartSeen
  <2> QED
    BY <2>1, <2>2, Zenon DEF StartSeen
<1>8. CASE Emit(c)
  <2>1. /\ UNCHANGED <<ownVars, block, ev, syncing, out>> /\ lane[c] # <<>> /\ spc[c] = "idle"
        /\ lane[c] \in Seq(Frame) /\ lane'[c] = Tail(lane[c]) /\ MayDeliver(c)
        /\ (\A d \in Callers \ {c} : lane'[d] = lane[d])
        /\ (\A d \in Callers \ {c} : spc'[d] = spc[d] /\ sfr'[d] = sfr[d])
        /\ Front(c) \in Frame /\ Front(c) \in ToSet(lane[c]) /\ Front(c).kind \notin Lifecycle
        /\ seen' = seen \cup {Front(c).id}
        /\ \/ spc'[c] = "idle" /\ sfr'[c] = sfr[c]
           \/ ~syncing /\ spc'[c] = "push" /\ sfr'[c] = Front(c)
    BY <1>0, <1>8, EmitStep, Zenon DEF others, gateVars
  <2>2. There(Front(c)) /\ Front(c).kind # "start"
    BY <2>1, Zenon DEF There, SinkThere, Lifecycle
  <2>3. StartOut' <=> StartOut
    BY <2>1, Zenon DEF StartOut
  <2>4. sfr'[c].kind \notin Lifecycle
    BY <1>0, <2>1, Zenon
  <2>5. StartPhase' => StartPhase
    BY <2>1, <2>3, <2>4, Zenon DEF StartPhase, Lifecycle
  <2>6. ASSUME Early PROVE Front(c).kind = "own"
    <3>1. c[2] # "system"
      BY <1>3, <2>1, <2>6, Zenon
    <3>2. c[1] \in Branches /\ c[2] \in Lanes
      BY CallerParts, Zenon
    <3>3. c[2] # "frames"
      BY <2>1, <2>6, <3>2, EarlyBranch, Zenon DEF MayDeliver
    <3>4. Front(c).kind \in {"own", "ownEnd"}
      BY <1>0, <2>1, <3>1, <3>2, <3>3, Zenon DEF WayKinds, LaneKinds
    <3> QED
      BY <2>1, <3>4, Zenon DEF Lifecycle
  <2>7. StartSeen'
    <3>1. SUFFICES ASSUME ~StartOut PROVE StartSeen'
      BY <2>3, Zenon DEF StartSeen
    <3>2. ASSUME NEW f \in Frame, There(f)', f.kind = "start" PROVE f.id \notin seen'
      <4>1. There(f)
        BY <3>2, ThereSink, Zenon
      <4>2. f.id \notin seen
        BY <1>0, <3>1, <3>2, <4>1, Zenon DEF StartSeen
      <4>3. f.id # Front(c).id
        BY <2>1, <2>2, <3>2, <4>1, Zenon DEF IdInv
      <4> QED
        BY <2>1, <4>2, <4>3, Zenon
    <3>3. ~syncing => Front(c).kind = "own"
      BY <1>1, <1>2, <2>6, <3>1, Zenon DEF Late
    <3>4. \A d \in Callers : spc'[d] \in {"idle", "emit"} \/ (spc'[d] = "push" /\ sfr'[d].kind = "own")
      BY <1>0, <2>1, <3>1, <3>3, Zenon DEF StartSeen
    <3> QED
      BY <3>2, <3>4, Zenon DEF StartSeen
  <2>8. \A d \in Callers : ToSet(lane[d])' \subseteq ToSet(lane[d])
    <3>1. ToSet(lane[c])' \subseteq ToSet(lane[c])
      BY <2>1, TailSet, Zenon
    <3> QED
      BY <2>1, <3>1, Zenon
  <2>9. StartPhase => StartWay'
    BY <1>1, <2>1, <2>4, <2>8, Zenon DEF StartWay
  <2>10. StartFirst'
    BY <1>0, <2>1, Zenon DEF StartFirst
  <2>11. \A d \in Callers : lane[d] = <<>> => lane'[d] = <<>>
    BY <2>1, Zenon
  <2>12. StartPhase => pc'["frames"] = "get" /\ procq' = <<>> /\ (Early \/ Late)'
    BY <1>2, <1>4, <2>1, <2>3, <2>11, Zenon
  <2> QED
    BY <2>5, <2>7, <2>9, <2>10, <2>12, Zenon DEF StartInv
<1>9. CASE Push(c)
  <2>1. /\ UNCHANGED <<ownVars, block, ev, lane, seen, syncing>> /\ spc[c] = "push" /\ sfr[c] \in Frame
        /\ out' = Append(out, sfr[c]) /\ sfr'[c] = NoFrame /\ spc'[c] = "idle"
        /\ \A d \in Callers \ {c} : spc'[d] = spc[d] /\ sfr'[d] = sfr[d]
    BY <1>9, PushStep, Zenon DEF others, gateVars, mergeVars
  <2>2. sfr[c].kind \notin Lifecycle /\ sfr[c].kind # "start" /\ (sfr[c].kind = "own" \/ StartOut)
    BY <1>0, <1>6, <2>1, Zenon DEF SinkPlace, Lifecycle
  <2>3. StartFirst' /\ (StartOut' <=> StartOut)
    BY <1>0, <2>1, <2>2, StartAppend, Zenon
  <2>4. sfr'[c].kind \notin Lifecycle
    BY <1>0, <2>1, Zenon
  <2>5. StartPhase' => StartPhase
    BY <2>1, <2>3, <2>4, Zenon DEF StartPhase, Lifecycle
  <2>6. StartPhase => StartWay'
    BY <1>1, <2>1, <2>4, Zenon DEF StartWay
  <2>7. CASE StartOut
    BY <1>5, <2>1, <2>3, <2>5, <2>6, <2>7, Zenon
  <2>8. CASE ~StartOut
    <3>1. StartSeen'
      BY <1>7, <2>1, <2>8, Zenon
    <3>2. pc'["frames"] = "get" /\ procq' = <<>> /\ (Early \/ Late)'
      BY <1>2, <1>4, <2>1, <2>3, <2>8, Zenon
    <3> QED
      BY <1>2, <2>3, <2>6, <2>8, <3>1, <3>2, Zenon DEF StartInv
  <2> QED
    BY <2>7, <2>8, Zenon
<1>10. CASE Report(c)
  <2>1. /\ UNCHANGED <<ownVars, block, ev, syncing, seen, out>>
        /\ (\A d \in Callers \ {c} : spc'[d] = spc[d] /\ sfr'[d] = sfr[d])
        /\ (sfr'[c] = sfr[c] \/ sfr'[c] = Front(c))
    BY <1>10, ReportKeeps, Zenon DEF others, gateVars
  <2>2. /\ spc[c] = "idle" /\ lane[c] \in Seq(Frame) /\ lane[c] # <<>>
        /\ Front(c) \in Frame /\ Front(c) \in ToSet(lane[c]) /\ Front(c).kind \in Lifecycle
        /\ (Front(c).kind = "start" => spc'[c] \in {"idle", "emit"})
    BY <1>0, <1>10, ReportLanes, ReportStep, Zenon
  <2>3. \A d \in Callers : ToSet(lane[d])' \subseteq ToSet(lane[d])
    BY <1>0, <1>10, LanesShrink, Zenon DEF Sink
  <2>4. StartFirst' /\ (StartOut' <=> StartOut)
    BY <1>0, <2>1, Zenon DEF StartFirst, StartOut
  <2>5. StartPhase => Front(c).kind = "start"
    BY <1>1, <2>2, Zenon DEF StartWay
  <2>6. Front(c).kind = "start" => c[2] = "system"
    BY <1>0, <2>2, CallerParts, Zenon DEF WayKinds, LaneKinds
  <2>7. ~Early
    BY <1>2, <1>3, <2>2, <2>5, <2>6, Zenon
  <2>8. StartSeen'
    <3>1. CASE StartOut
      BY <2>4, <3>1, Zenon DEF StartSeen
    <3>2. CASE ~StartOut
      BY <1>2, <1>7, <2>1, <2>2, <2>5, <3>2, Zenon
    <3> QED
      BY <3>1, <3>2, Zenon
  <2>9. StartPhase => StartWay'
    BY <1>0, <1>1, <2>1, <2>3, <2>5, Zenon DEF StartWay
  <2>10. ASSUME StartPhase', ~StartPhase PROVE FALSE
    <3>1. PICK s \in ToSet(out) : s.kind = "start"
      BY <1>2, <2>10, Zenon DEF StartOut
    <3>2. s \in Frame /\ There(s) /\ Released(s)
      BY <1>0, <3>1, EmptySet, Zenon DEF There, SinkThere, Released
    <3>3. sfr'[c].kind = "start"
      BY <1>2, <2>1, <2>4, <2>10, Zenon DEF StartPhase
    <3>4. Front(c).kind = "start"
      BY <1>0, <2>1, <2>2, <3>3, Zenon
    <3>5. Front(c) = s
      <4>1. There(Front(c))
        BY <2>2, Zenon DEF There, SinkThere
      <4> QED
        BY <2>2, <3>1, <3>2, <3>4, <4>1, Zenon DEF IdInv
    <3>6. Waiting(s) = {}
      BY <3>1, <3>2, Zenon DEF CountInv, Counted, Fanned
    <3>7. c[1] \in Branches /\ c = <<c[1], GateOf(s)>>
      BY <2>6, <3>1, <3>4, CallerParts, ZenonT(30) DEF GateOf, SystemKinds
    <3>8. s \in ToSet(lane[<<c[1], GateOf(s)>>])
      BY <2>2, <3>5, <3>7, Zenon
    <3>9. c[1] \in Waiting(s)
      BY <3>7, <3>8, Zenon DEF Waiting, WaitsFor
    <3> QED
      BY <3>6, <3>9, Zenon
  <2>11. StartPhase => pc'["frames"] = "get" /\ procq' = <<>> /\ (Early \/ Late)'
    BY <1>4, <2>1, <2>4, <2>7, Zenon
  <2> QED
    BY <2>4, <2>8, <2>9, <2>10, <2>11, Zenon DEF StartInv
<1>11. CASE EmitSynchronized(c)
  <2>1. /\ UNCHANGED <<ownVars, block, ev, sfr, lane, syncing>> /\ spc[c] = "emit" /\ sfr[c] \in Frame
        /\ (\/ sfr[c].id \in seen /\ out' = out
            \/ sfr[c].id \notin seen /\ out' = Append(out, sfr[c]))
        /\ \A d \in Callers \ {c} : spc'[d] = spc[d]
    BY <1>11, SynchronizedStep, Zenon DEF others, gateVars
  <2>2. sfr[c].kind \in Lifecycle
    BY <1>0, <2>1, Zenon DEF SinkPlace
  <2>3. StartPhase => StartWay'
    BY <1>1, <2>1, Zenon DEF StartWay
  <2>4. StartOut' => (StartPhase' => StartPhase)
    BY <2>1, Zenon DEF StartPhase
  <2>5. CASE StartOut
    <3>1. StartFirst' /\ StartOut'
      <4>1. CASE out' = out
        BY <1>0, <2>5, <4>1, Zenon DEF StartFirst, StartOut
      <4>2. CASE out' = Append(out, sfr[c])
        BY <1>0, <2>1, <2>5, <4>2, StartAppend, Zenon
      <4> QED
        BY <2>1, <4>1, <4>2, Zenon
    <3> QED
      BY <1>5, <2>1, <2>3, <2>4, <2>5, <3>1, Zenon
  <2>6. CASE ~StartOut
    <3>1. StartPhase
      BY <1>2, <2>6, Zenon
    <3>2. sfr[c].kind = "start"
      BY <1>1, <2>2, <3>1, Zenon DEF StartWay
    <3>3. sfr[c].id \notin seen
      <4>1. There(sfr[c])
        BY Zenon DEF There, SinkThere
      <4> QED
        BY <1>0, <2>1, <2>6, <3>2, <4>1, Zenon DEF StartSeen
    <3>4. out' = Append(out, sfr[c])
      BY <2>1, <3>3, Zenon
    <3>5. StartFirst' /\ StartOut'
      BY <1>0, <2>1, <3>2, <3>4, StartAppend, Zenon
    <3>6. StartSeen' /\ ~Early
      BY <1>3, <2>1, <3>5, Zenon DEF StartSeen
    <3>7. pc'["frames"] = "get" /\ procq' = <<>> /\ (Early \/ Late)'
      BY <1>4, <2>1, <3>1, <3>5, <3>6, Zenon
    <3> QED
      BY <2>3, <3>1, <3>5, <3>6, <3>7, Zenon DEF StartInv
  <2> QED
    BY <2>5, <2>6, Zenon
<1>12. CASE FlushNext(c) \/ FlushPush(c) \/ FlushDone(c)
  <2>1. /\ UNCHANGED <<ownVars, block, ev, sfr, lane>> /\ spc[c] \in {"flush", "flushPush"}
        /\ (out' = out \/ (popped[c] \in Frame /\ out' = Append(out, popped[c])))
        /\ \A d \in Callers \ {c} : spc'[d] = spc[d]
    BY <1>12, FlushNextStep, FlushPushStep, FlushDoneStep, Zenon DEF others, gateVars, mergeVars
  <2>2. StartOut /\ spc[c] # "resumeFrames"
    BY <1>6, <2>1, Zenon
  <2>3. StartFirst' /\ StartOut'
    <3>1. CASE out' = out
      BY <1>0, <2>2, <3>1, Zenon DEF StartFirst, StartOut
    <3>2. CASE popped[c] \in Frame /\ out' = Append(out, popped[c])
      BY <1>0, <2>2, <3>2, StartAppend, Zenon
    <3> QED
      BY <2>1, <3>1, <3>2, Zenon
  <2>4. StartPhase => StartWay'
    BY <1>1, <2>1, Zenon DEF StartWay
  <2>5. StartPhase' => StartPhase
    BY <2>1, <2>2, <2>3, Zenon DEF StartPhase
  <2> QED
    BY <1>5, <2>1, <2>2, <2>3, <2>4, <2>5, Zenon
<1>13. CASE Resume(c)
  <2>1. /\ UNCHANGED <<ownVars, block, lane, out>> /\ sfr[c] \in Frame
        /\ (\A d \in Callers \ {c} : spc'[d] = spc[d] /\ sfr'[d] = sfr[d])
        /\ \/ spc[c] = "resumeSystem" /\ spc'[c] = "resumeFrames" /\ sfr'[c] = sfr[c]
           \/ spc[c] = "resumeFrames" /\ sfr'[c] = NoFrame /\ ev'["system"] = ev["system"]
    BY <1>0, <1>13, ResumeStep, Zenon
  <2>2. StartOut /\ StartOut' /\ StartFirst' /\ StartSeen' /\ sfr[c].kind \in Lifecycle
    <3>1. StartOut
      BY <1>6, <2>1, Zenon
    <3> QED
      BY <1>0, <2>1, <3>1, Zenon DEF SinkPlace, StartOut, StartFirst, StartSeen
  <2>3. ASSUME StartPhase'
        PROVE  \E d \in Callers \ {c} : sfr[d].kind = "start" /\ spc[d] # "resumeFrames"
    <3>1. PICK d \in Callers : sfr'[d].kind = "start" /\ spc'[d] # "resumeFrames"
      BY <2>2, <2>3, Zenon DEF StartPhase
    <3>2. d # c
      BY <1>0, <2>1, <3>1, Zenon
    <3> QED
      BY <2>1, <3>1, <3>2, Zenon
  <2>4. StartPhase' => StartPhase
    BY <2>3, Zenon DEF StartPhase
  <2>5. CASE spc[c] = "resumeFrames"
    <3>1. sfr'[c].kind \notin Lifecycle /\ ev'["system"] = ev["system"]
      BY <1>0, <2>1, <2>5, Zenon
    <3>2. StartPhase => StartWay'
      BY <1>1, <2>1, <3>1, Zenon DEF StartWay
    <3> QED
      BY <1>5, <2>1, <2>2, <2>4, <3>1, <3>2, Zenon
  <2>6. CASE spc[c] # "resumeFrames"
    <3>1. ~StartPhase'
      <4>1. SUFFICES ASSUME StartPhase' PROVE FALSE
        OBVIOUS
      <4>2. PICK d \in Callers \ {c} : sfr[d].kind = "start"
        BY <2>3, <4>1, Zenon
      <4>3. sfr[c].kind = "start"
        BY <1>1, <2>2, <2>4, <4>1, Zenon DEF StartWay
      <4>4. sfr[d] \in Frame /\ There(sfr[d]) /\ There(sfr[c])
        <5>1. sfr[d] \in Frame
          BY <1>0, <4>2, Zenon DEF Types, SinkType
        <5> QED
          BY <5>1, Zenon DEF There, SinkThere
      <4>5. sfr[c] = sfr[d]
        BY <2>1, <4>2, <4>3, <4>4, Zenon DEF IdInv
      <4> QED
        BY <2>1, <4>2, <4>3, <4>5, Zenon DEF CountInv, Counted, Fanned
    <3> QED
      BY <2>2, <3>1, Zenon DEF StartInv
  <2> QED
    BY <2>5, <2>6, Zenon
<1> QED
  BY <1>8, <1>9, <1>10, <1>11, <1>12, <1>13, Zenon DEF Sink

-----------------------------------------------------------------------------
(* A CancelFrame leaves no EndFrame behind.                                *)

(* The process goroutine is stopped, and stays so.                         *)
LEMMA StoppedOwn ==
  ASSUME Types, pc["frames"] = "stopped",
         \/ \E k \in Kinds : QueueFrame(k) \/ \E e \in Branches : Raise(e, k)
         \/ Forward \/ StopProcessing
         \/ \E g \in Gates : Own(g)
  PROVE  /\ pc'["frames"] = "stopped"
         /\ \A b \in Branches : HasEnd(lane[<<b, "frames">>])' => HasEnd(lane[<<b, "frames">>])
<1>1. CASE \E k \in Kinds : QueueFrame(k)
  BY <1>1, QueueStep, Zenon DEF downstream
<1>2. CASE Forward \/ StopProcessing
  BY <1>2, ForwardStep, StopStep, Zenon DEF downstream
<1>3. ASSUME NEW g \in Gates, Own(g) PROVE g = "system"
  BY <1>3, TakeFrames, WakeStep, ArmStep, PauseStep, OtherStep, FanStep, Zenon DEF Own, Gates
<1>4. CASE \E g \in Gates : Take(g) \/ Wake(g) \/ Unblock(g) \/ Arm(g) \/ PauseProcessing(g) \/ HandleOther(g)
  <2>1. PICK g \in Gates :
          Take(g) \/ Wake(g) \/ Unblock(g) \/ Arm(g) \/ PauseProcessing(g) \/ HandleOther(g)
    BY <1>4, Zenon
  <2>2. g = "system"
    BY <1>3, <2>1, Zenon DEF Own
  <2> QED
    BY <2>1, <2>2, TakeSystem, WakeStep, ArmStep, PauseStep, OtherStep, Zenon DEF downstream, Gates
<1>5. CASE \E g \in Gates : Fan(g)
  <2>1. PICK g \in Gates : Fan(g)
    BY <1>5, Zenon
  <2>2. g = "system"
    BY <1>3, <2>1, Zenon DEF Own
  <2>3. /\ pc'["frames"] = pc["frames"] /\ next["system"] \in Branches
        /\ \A c \in Callers : c # <<next["system"], "system">> => lane'[c] = lane[c]
    BY <2>1, <2>2, FanStep, Zenon DEF Gates
  <2>4. \A b \in Branches : <<b, "frames">> \in Callers /\ <<b, "frames">> # <<next["system"], "system">>
    BY <2>3, CallerParts, Zenon
  <2>5. \A b \in Branches : lane'[<<b, "frames">>] = lane[<<b, "frames">>]
    BY <2>3, <2>4, Zenon
  <2> QED
    BY <2>3, <2>5, Zenon
<1>6. ASSUME NEW k \in Kinds, NEW e \in Branches, Raise(e, k)
      PROVE  /\ pc'["frames"] = "stopped"
             /\ \A b \in Branches : HasEnd(lane[<<b, "frames">>])' => HasEnd(lane[<<b, "frames">>])
  <2>1. k \in {"data", "own", "ownEnd"} /\ pc' = pc
    BY <1>6, RaiseStep, Zenon DEF ownVars
  <2>2. PICK h \in Frame, c \in Callers :
        /\ h.id = ids + 1 /\ h.kind = k
        /\ (k = "data" => c = <<e, "frames">>) /\ (k # "data" => c = <<e, "own">>)
        /\ \E i \in 1..(Len(lane[c]) + 1) :
             /\ lane'[c] = InsertAt(lane[c], i, h)
             /\ k = "data" => \A j \in 1..(i - 1) : lane[c][j].kind # "end"
        /\ \A d \in Callers \ {c} : lane'[d] = lane[d]
    BY <1>6, RaiseStep, ZenonT(30)
  <2>3. lane[c] \in Seq(Frame)
    BY Zenon DEF Types, WayType
  <2>4. ToSet(lane[c])' = ToSet(lane[c]) \cup {h}
    <3>1. PICK i \in 1..(Len(lane[c]) + 1) : lane'[c] = InsertAt(lane[c], i, h)
      BY <2>2, Zenon
    <3> QED
      BY <2>3, <3>1, InsertSet, Zenon
  <2>5. \A d \in Callers : HasEnd(lane[d])' => HasEnd(lane[d])
    BY <2>1, <2>2, <2>4, Zenon DEF HasEnd
  <2> QED
    BY <2>1, <2>5, CallerParts, Zenon
<1> QED
  BY <1>1, <1>2, <1>4, <1>5, <1>6, Zenon DEF Own

\* The goroutines of the parallel pipeline put no EndFrame behind a CancelFrame ...
LEMMA CancelOwn ==
  ASSUME Types, ShapeInv, CancelInv,
         \/ \E k \in Kinds : QueueFrame(k) \/ \E e \in Branches : Raise(e, k)
         \/ Forward \/ StopProcessing
         \/ \E g \in Gates : Own(g)
  PROVE  CancelInv'
<1>0. UNCHANGED <<out, sfr>>
  BY Zenon DEF QueueFrame, Raise, Forward, StopProcessing, Own, Take, Wake, Unblock, PauseProcessing,
               HandleOther, Arm, Fan, sinkVars, mergeVars
<1>1. SUFFICES ASSUME NEW f \in Frame, f.kind = "cancel", Canceling(f)'
               PROVE  /\ pc'["frames"] = "stopped"
                      /\ \A b \in Branches \ Waiting(f)' :
                           ~HasEnd(lane[<<b, "frames">>])' /\ sfr'[<<b, "frames">>].kind # "end"
  BY Zenon DEF CancelInv
<1>2. ASSUME NEW g \in Gates, Arm(g), hand[g] = f
      PROVE  pc'["frames"] = "stopped" /\ Waiting(f)' = Branches
  <2>1. /\ pc["frames"] = "stopped" /\ pc[g] = "handle" /\ pc'[g] = "pauseSystem" /\ hand' = hand
        /\ \A h \in Gates \ {g} : pc'[h] = pc[h]
    BY <1>1, <1>2, ArmStep, Zenon
  <2>2. g = "system" /\ pc'["frames"] = "stopped" /\ GateOf(f) = "system"
    BY <1>1, <2>1, Zenon DEF Gates, GateOf, SystemKinds
  <2>3. \A b \in Branches : Ahead(b, "system")'
    BY <2>1, <2>2, Zenon DEF Ahead, Armed
  <2>4. \A b \in Branches : Coming(b, f)'
    BY <1>2, <2>1, <2>2, <2>3, Zenon DEF Coming, GateOf
  <2> QED
    BY <2>2, <2>4, Zenon DEF Waiting, WaitsFor
<1>3. CASE \E g \in Gates : Arm(g) /\ hand[g] = f
  BY <1>2, <1>3, Zenon
<1>4. CASE \A g \in Gates : Arm(g) => hand[g] # f
  <2>1. Waiting(f)' = Waiting(f)
    BY <1>1, <1>4, WaitingOwn, Zenon DEF Fanned
  <2>2. Canceling(f)
    BY <1>0, <1>1, <2>1, Zenon DEF Canceling, Released
  <2>3. /\ pc["frames"] = "stopped"
        /\ \A b \in Branches \ Waiting(f) :
             ~HasEnd(lane[<<b, "frames">>]) /\ sfr[<<b, "frames">>].kind # "end"
    BY <1>1, <2>2, Zenon DEF CancelInv
  <2>4. /\ pc'["frames"] = "stopped"
        /\ \A b \in Branches : HasEnd(lane[<<b, "frames">>])' => HasEnd(lane[<<b, "frames">>])
    BY <2>3, StoppedOwn, Zenon
  <2> QED
    BY <1>0, <2>1, <2>3, <2>4, Zenon
<1> QED
  BY <1>3, <1>4, Zenon

(* A sink call holds the EndFrame only when its branch had it.             *)
LEMMA EndCaller ==
  ASSUME Types, ShapeInv, NEW c \in Callers, Sink(c), NEW d \in Callers, sfr'[d].kind = "end"
  PROVE  sfr[d].kind = "end" \/ (d = c /\ Report(c) /\ sfr'[c] = Front(c) /\ HasEnd(lane[c]))
<1>0. WayKinds /\ SinkPlace /\ NoFrame.kind = "none"
  BY Zenon DEF ShapeInv, NoFrame
<1>1. CASE Emit(c)
  <2>1. /\ \A e \in Callers \ {c} : sfr'[e] = sfr[e]
        /\ Front(c).kind \notin Lifecycle /\ (sfr'[c] = sfr[c] \/ sfr'[c] = Front(c))
    BY <1>0, <1>1, EmitStep, Zenon
  <2> QED
    BY <2>1, Zenon DEF Lifecycle
<1>2. CASE Report(c)
  <2>1. (\A e \in Callers \ {c} : sfr'[e] = sfr[e]) /\ (sfr'[c] = sfr[c] \/ sfr'[c] = Front(c))
    BY <1>2, ReportKeeps, Zenon
  <2>2. Front(c) \in ToSet(lane[c])
    BY <1>0, <1>2, ReportLanes, Zenon
  <2> QED
    BY <1>2, <2>1, <2>2, Zenon DEF HasEnd
<1>3. CASE Push(c) \/ Resume(c)
  <2>1. (\A e \in Callers \ {c} : sfr'[e] = sfr[e]) /\ (sfr'[c] = sfr[c] \/ sfr'[c] = NoFrame)
    BY <1>0, <1>3, PushStep, ResumeStep, Zenon
  <2> QED
    BY <1>0, <2>1, Zenon
<1>4. CASE EmitSynchronized(c) \/ FlushNext(c) \/ FlushPush(c) \/ FlushDone(c)
  BY <1>4, SynchronizedStep, FlushNextStep, FlushPushStep, FlushDoneStep, Zenon
<1> QED
  BY <1>1, <1>2, <1>3, <1>4, Zenon DEF Sink

(* No branch passes a frame it does not report.                            *)
LEMMA WaitingStill ==
  ASSUME Types, WayKinds, NEW c \in Callers, Sink(c), NEW f \in Frame, f.kind = "cancel",
         ~(Report(c) /\ Front(c) = f)
  PROVE  Waiting(f)' = Waiting(f)
<1>0. GateOf(f) = "system" /\ f.kind \in Lifecycle
  BY Zenon DEF GateOf, SystemKinds, Lifecycle
<1>1. ASSUME NEW b \in Branches PROVE Coming(b, f)' <=> Coming(b, f)
  BY <1>1, WaitingSink, Zenon
<1>2. Waiting(f)' \subseteq Waiting(f)
  BY WaitingSink, Zenon
<1>3. ASSUME NEW b \in Branches, f \in ToSet(lane[<<b, "system">>]) PROVE f \in ToSet(lane[<<b, "system">>])'
  <2>0. <<b, "system">> \in Callers /\ <<b, "system">>[2] = "system"
    BY CallerParts, Zenon
  <2>1. CASE Emit(c) \/ Report(c)
    <3>1. /\ lane[c] # <<>> /\ lane[c] \in Seq(Frame) /\ lane'[c] = Tail(lane[c]) /\ Front(c) # f
          /\ \A d \in Callers \ {c} : lane'[d] = lane[d] \/ d = <<c[1], "frames">>
      <4>1. CASE Emit(c)
        <5>1. /\ lane[c] # <<>> /\ lane[c] \in Seq(Frame) /\ lane'[c] = Tail(lane[c])
              /\ Front(c).kind \notin Lifecycle /\ \A d \in Callers \ {c} : lane'[d] = lane[d]
          BY <4>1, EmitStep, Zenon
        <5> QED
          BY <1>0, <5>1, Zenon
      <4>2. CASE Report(c)
        <5>1. /\ lane[c] # <<>> /\ lane[c] \in Seq(Frame) /\ lane'[c] = Tail(lane[c])
              /\ \A d \in Callers \ {c} : lane'[d] = lane[d] \/ d = <<c[1], "frames">>
          BY <4>2, ReportLanes, Zenon
        <5> QED
          BY <4>2, <5>1, Zenon
      <4> QED
        BY <2>1, <4>1, <4>2, Zenon
    <3>2. CASE c = <<b, "system">>
      <4>1. ToSet(lane[c]) = ToSet(Tail(lane[c])) \cup {Front(c)}
        BY <3>1, TailSet, Zenon DEF Front
      <4>2. f \in ToSet(lane[c])'
        BY <1>3, <3>1, <3>2, <4>1, Zenon
      <4> QED
        BY <3>2, <4>2, Zenon
    <3>3. CASE c # <<b, "system">>
      <4>1. <<b, "system">> # <<c[1], "frames">>
        OBVIOUS
      <4>2. lane'[<<b, "system">>] = lane[<<b, "system">>]
        BY <2>0, <3>1, <3>3, <4>1, Zenon
      <4> QED
        BY <1>3, <4>2, Zenon
    <3> QED
      BY <3>2, <3>3, Zenon
  <2>2. CASE ~(Emit(c) \/ Report(c))
    <3>1. lane' = lane
      BY <2>2, Zenon DEF Sink, Push, EmitSynchronized, FlushNext, FlushPush, FlushDone, Resume
    <3> QED
      BY <1>3, <3>1, Zenon
  <2> QED
    BY <2>1, <2>2, Zenon
<1>4. ASSUME NEW b \in Branches, WaitsFor(b, f) PROVE WaitsFor(b, f)'
  <2>1. CASE f \in ToSet(lane[<<b, GateOf(f)>>])
    <3>1. f \in ToSet(lane[<<b, "system">>])'
      BY <1>0, <1>3, <2>1, Zenon
    <3> QED
      BY <1>0, <3>1, Zenon DEF WaitsFor, GateOf
  <2>2. CASE Coming(b, f)
    BY <1>1, <2>2, Zenon DEF WaitsFor
  <2> QED
    BY <1>4, <2>1, <2>2, Zenon DEF WaitsFor
<1> QED
  BY <1>2, <1>4, Zenon DEF Waiting

\* ... and the sink calls release none.
LEMMA CancelSink ==
  ASSUME Types, ShapeInv, SystemInv, EndInv, CancelInv, NEW c \in Callers, Sink(c)
  PROVE  CancelInv'
<1>0. WayKinds /\ SinkPlace /\ NoFrame.kind = "none" /\ pc' = pc
  <2>1. pc' = pc
    BY Zenon DEF Sink, Emit, Push, Report, EmitSynchronized, FlushNext, FlushPush, FlushDone, Resume,
                 SinkKeeps, ownVars
  <2> QED
    BY <2>1, Zenon DEF ShapeInv, NoFrame
<1>1. SUFFICES ASSUME NEW f \in Frame, f.kind = "cancel", Canceling(f)'
               PROVE  /\ pc'["frames"] = "stopped"
                      /\ \A b \in Branches \ Waiting(f)' :
                           ~HasEnd(lane[<<b, "frames">>])' /\ sfr'[<<b, "frames">>].kind # "end"
  BY Zenon DEF CancelInv
<1>2. \A b \in Branches : HasEnd(lane[<<b, "frames">>])' => HasEnd(lane[<<b, "frames">>])
  <2>1. \A d \in Callers : ToSet(lane[d])' \subseteq ToSet(lane[d])
    BY <1>0, LanesShrink, Zenon
  <2>2. \A b \in Branches : <<b, "frames">> \in Callers
    BY CallerParts, Zenon
  <2> QED
    BY <2>1, <2>2, Zenon DEF HasEnd
<1>3. ASSUME NEW b \in Branches, ~HasEnd(lane[<<b, "frames">>]), sfr[<<b, "frames">>].kind # "end"
      PROVE  ~HasEnd(lane[<<b, "frames">>])' /\ sfr'[<<b, "frames">>].kind # "end"
  <2>1. <<b, "frames">> \in Callers
    BY CallerParts, Zenon
  <2> QED
    BY <1>2, <1>3, <2>1, EndCaller, Zenon
<1>4. CASE Report(c) /\ Front(c) = f
  <2>1. /\ c = <<c[1], "system">> /\ c[1] \in Waiting(f) /\ c[1] \in Branches
        /\ Waiting(f)' = Waiting(f) \ {c[1]}
    BY <1>1, <1>4, WaitingReport, CallerParts DEF GateOf, SystemKinds, Fanned
  <2>2. /\ pc["frames"] = "stopped"
        /\ \A b \in Branches \ Waiting(f) :
             ~HasEnd(lane[<<b, "frames">>]) /\ sfr[<<b, "frames">>].kind # "end"
    BY <1>1, <2>1, Zenon DEF CancelInv, Canceling
  <2>3. PICK e \in Branches : e = c[1]
    BY <2>1, Zenon
  <2>4. lane'[<<e, "frames">>] = <<>> /\ spc[<<e, "frames">>] = "idle"
    BY <1>0, <1>1, <1>4, <2>3, ReportLanes, Zenon
  <2>5. <<e, "frames">> \in Callers /\ <<e, "frames">> # c
    BY <2>1, <2>3, CallerParts, Zenon
  <2>6. sfr'[<<e, "frames">>] = NoFrame
    BY <1>0, <1>4, <2>4, <2>5, ReportKeeps, Zenon DEF SinkPlace
  <2>7. ~HasEnd(lane[<<e, "frames">>])' /\ sfr'[<<e, "frames">>].kind # "end"
    BY <1>0, <2>4, <2>6, EndEmpty, Zenon
  <2>8. ASSUME NEW b \in Branches \ Waiting(f)'
        PROVE  ~HasEnd(lane[<<b, "frames">>])' /\ sfr'[<<b, "frames">>].kind # "end"
    <3>1. CASE b = e
      BY <2>7, <3>1, Zenon
    <3>2. CASE b # e
      BY <1>3, <2>1, <2>2, <2>3, <2>8, <3>2, Zenon
    <3> QED
      BY <3>1, <3>2, Zenon
  <2> QED
    BY <1>0, <2>2, <2>8, Zenon
<1>5. CASE ~(Report(c) /\ Front(c) = f)
  <2>1. Waiting(f)' = Waiting(f) /\ (Released(f)' => Released(f))
    BY <1>0, <1>1, <1>5, WaitingStill, ReleasedSink, Zenon DEF Lifecycle
  <2>2. Canceling(f)
    BY <1>1, <2>1, Zenon DEF Canceling
  <2>3. /\ pc["frames"] = "stopped"
        /\ \A b \in Branches \ Waiting(f) :
             ~HasEnd(lane[<<b, "frames">>]) /\ sfr[<<b, "frames">>].kind # "end"
    BY <1>1, <2>2, Zenon DEF CancelInv
  <2> QED
    BY <1>0, <1>3, <2>1, <2>3, Zenon
<1> QED
  BY <1>4, <1>5, Zenon

-----------------------------------------------------------------------------
(* What is buffered is flushed ahead of the EndFrame.                      *)

(* A data frame is not pushed behind it.                                   *)
LEMMA FlushAppend ==
  ASSUME out \in Seq(Frame), EndFlushes, NEW x \in Frame, out' = Append(out, x),
         x.kind = "data" => ~HasEnd(out)
  PROVE  EndFlushes'
<1>1. SUFFICES ASSUME NEW i \in 1..Len(Append(out, x)), NEW j \in 1..Len(Append(out, x)),
                      Append(out, x)[i].kind = "end", Append(out, x)[j].kind = "data"
               PROVE  j < i
  BY Zenon DEF EndFlushes
<1>2. /\ i \in 1..Len(out) => Append(out, x)[i] = out[i] /\ out[i] \in ToSet(out)
      /\ j \in 1..Len(out) => Append(out, x)[j] = out[j]
      /\ i \notin 1..Len(out) => i = Len(out) + 1 /\ Append(out, x)[i] = x
      /\ j \notin 1..Len(out) => j = Len(out) + 1 /\ Append(out, x)[j] = x
  BY DEF ToSet
<1>3. CASE i \in 1..Len(out) /\ j \in 1..Len(out)
  BY <1>1, <1>2, <1>3, Zenon DEF EndFlushes
<1>4. CASE i \in 1..Len(out) /\ j \notin 1..Len(out)
  BY <1>1, <1>2, <1>4, Zenon DEF HasEnd
<1>5. CASE i \notin 1..Len(out)
  <2>1. i = Len(out) + 1 /\ j # i /\ Len(out) \in Nat
    BY <1>1, <1>2, <1>5
  <2> QED
    BY <2>1, <1>2, <1>1
<1> QED
  BY <1>3, <1>4, <1>5, Zenon

(* Once the EndFrame is released no branch has data.                       *)
LEMMA EndPasses ==
  ASSUME EndInv, EndOut, NEW b \in Branches
  PROVE  /\ \A f \in ToSet(lane[<<b, "frames">>]) : f.kind # "data"
         /\ spc[<<b, "frames">>] # "push"
<1>1. EndGate /\ EndLane(b)
  BY Zenon DEF EndInv
<1>2. EndPassed(b)
  BY <1>1, Zenon DEF EndGate, EndPassed, EndBefore, EndWay
<1> QED
  BY <1>1, <1>2, Zenon DEF EndLane

(* While the EndFrame is released no other caller flushes, ...             *)
LEMMA OneFlush ==
  ASSUME Types, ShapeInv, IdInv, CountInv, NoOwnEnd, StartInv, EndInv, CancelInv,
         NEW c \in Callers, NEW d \in Callers, d # c, spc[d] \in {"flush", "flushPush"},
         sfr[c].kind = "end" \/ (c[2] = "frames" /\ HasEnd(lane[c]))
  PROVE  FALSE
<1>0. /\ SinkPlace /\ SinkKinds /\ WayKinds /\ NoFrame.kind = "none"
      /\ c[1] \in Branches /\ c[2] \in Lanes /\ c = <<c[1], c[2]>>
  BY CallerParts, Zenon DEF ShapeInv, NoFrame
<1>1. sfr[d] \in Frame /\ sfr[d].kind \in Fanned
  BY <1>0, Zenon DEF SinkPlace, NoOwnEnd, Lifecycle, Fanned
<1>2. Released(sfr[d]) /\ Waiting(sfr[d]) = {}
  <2>1. Released(sfr[d])
    BY Zenon DEF Released
  <2> QED
    BY <1>1, <2>1, Zenon DEF CountInv, Counted
<1>3. c = <<c[1], "frames">>
  <2>1. sfr[c].kind = "end" => c[2] = "frames"
    BY <1>0, Zenon DEF SinkKinds, LaneKinds, SystemKinds
  <2> QED
    BY <1>0, <2>1, Zenon
<1>4. CASE sfr[d].kind = "start"
  <2>1. StartPhase
    BY <1>4, Zenon DEF StartPhase
  <2>2. StartWay
    BY <2>1, Zenon DEF StartInv
  <2> QED
    BY <2>2, Zenon DEF StartWay, Lifecycle, HasEnd
<1>5. CASE sfr[d].kind = "cancel"
  <2>1. ~HasEnd(lane[<<c[1], "frames">>]) /\ sfr[<<c[1], "frames">>].kind # "end"
    BY <1>0, <1>1, <1>2, <1>5, Zenon DEF CancelInv, Canceling
  <2> QED
    BY <1>3, <2>1, Zenon
<1>6. CASE sfr[d].kind = "end"
  <2>1. CASE sfr[c].kind = "end"
    <3>1. sfr[c] \in Frame
      BY <1>0, <2>1, Zenon DEF Types, SinkType
    <3>2. There(sfr[c]) /\ There(sfr[d])
      BY Zenon DEF There, SinkThere
    <3>3. sfr[c] = sfr[d]
      BY <1>1, <1>6, <2>1, <3>1, <3>2, Zenon DEF IdInv
    <3> QED
      BY <1>1, <3>3, Zenon DEF CountInv, Counted
  <2>2. CASE HasEnd(lane[c])
    <3>1. EndOut
      BY <1>6, Zenon DEF EndOut
    <3>2. ~HasEnd(lane[<<c[1], "frames">>])
      BY <1>0, <3>1, Zenon DEF EndInv, EndGate
    <3> QED
      BY <1>3, <2>2, <3>2, Zenon
  <2> QED
    BY <2>1, <2>2, Zenon
<1> QED
  BY <1>1, <1>4, <1>5, <1>6, Zenon DEF Fanned

(* ... so its own flush is the last.                                       *)
LEMMA FlushSink ==
  ASSUME Types, ShapeInv, IdInv, CountInv, NoOwnEnd, StartInv, EndInv, CancelInv, FlushInv,
         NEW c \in Callers, Sink(c)
  PROVE  FlushInv'
<1>0. /\ SinkPlace /\ SinkKinds /\ WayKinds /\ NoFrame.kind = "none" /\ out \in Seq(Frame)
      /\ buffered \in Seq(Frame)
      /\ c[1] \in Branches /\ c[2] \in Lanes /\ c = <<c[1], c[2]>>
      /\ OwnFlush /\ (EndFlushed => NoData) /\ EndFlushes
  BY CallerParts, Zenon DEF ShapeInv, NoFrame, Types, WayType, MergeType, FlushInv
<1>1. ASSUME UNCHANGED <<buffered, popped>>, EndFlushed' => EndFlushed, EndFlushes',
             \A x \in Callers : sfr'[x].kind = "end" => sfr[x].kind = "end"
      PROVE  FlushInv'
  <2>1. OwnFlush'
    BY <1>0, <1>1, Zenon DEF OwnFlush
  <2>2. NoData => NoData'
    BY <1>1, Zenon DEF NoData
  <2> QED
    BY <1>0, <1>1, <2>1, <2>2, Zenon DEF FlushInv
<1>2. EndFlushed => EndOut
  BY Zenon DEF EndFlushed, EndOut
<1>3. out' = out => EndFlushes'
  BY <1>0, Zenon DEF EndFlushes
<1>4. CASE Emit(c)
  <2>1. /\ UNCHANGED <<popped, out>> /\ spc[c] = "idle"
        /\ (\A d \in Callers \ {c} : spc'[d] = spc[d] /\ sfr'[d] = sfr[d])
        /\ Front(c) \in Frame /\ Front(c) \in ToSet(lane[c]) /\ Front(c).kind \notin Lifecycle
        /\ (sfr'[c] = sfr[c] \/ sfr'[c] = Front(c))
        /\ (buffered' = Append(buffered, Front(c)) \/ buffered' = buffered)
    BY <1>0, <1>4, EmitStep, Zenon
  <2>2. sfr'[c].kind # "end"
    BY <1>0, <2>1, Zenon DEF SinkPlace, Lifecycle
  <2>3. EndFlushed' => EndFlushed
    BY <2>1, <2>2, Zenon DEF EndFlushed
  <2>4. OwnFlush'
    BY <1>0, <2>1, <2>2, Zenon DEF OwnFlush
  <2>5. ASSUME EndFlushed PROVE Front(c).kind # "data"
    <3>1. SUFFICES ASSUME Front(c).kind = "data" PROVE FALSE
      OBVIOUS
    <3>2. c[2] = "frames"
      BY <1>0, <2>1, <3>1, Zenon DEF WayKinds, LaneKinds, SystemKinds, Lanes
    <3>3. c = <<c[1], "frames">>
      BY <1>0, <3>2, Zenon
    <3>4. \A f \in ToSet(lane[<<c[1], "frames">>]) : f.kind # "data"
      BY <1>0, <1>2, <2>5, EndPasses, Zenon
    <3> QED
      BY <2>1, <3>1, <3>3, <3>4, Zenon
  <2>6. ToSet(buffered)' = ToSet(buffered) \/ ToSet(buffered)' = ToSet(buffered) \cup {Front(c)}
    <3>1. ToSet(Append(buffered, Front(c))) = ToSet(buffered) \cup {Front(c)}
      BY <1>0, <2>1, AppendSet, Zenon
    <3> QED
      BY <2>1, <3>1, Zenon
  <2>7. EndFlushed' => NoData'
    BY <1>0, <2>1, <2>3, <2>5, <2>6, Zenon DEF NoData
  <2> QED
    BY <1>3, <2>1, <2>4, <2>7, Zenon DEF FlushInv
<1>5. CASE Push(c)
  <2>1. /\ UNCHANGED <<buffered, popped>> /\ spc[c] = "push" /\ sfr[c] \in Frame
        /\ out' = Append(out, sfr[c]) /\ sfr'[c] = NoFrame
        /\ \A d \in Callers \ {c} : spc'[d] = spc[d] /\ sfr'[d] = sfr[d]
    BY <1>5, PushStep, Zenon DEF mergeVars
  <2>2. sfr'[c].kind # "end" /\ sfr[c].kind \notin Lifecycle
    BY <1>0, <2>1, Zenon DEF SinkPlace
  <2>3. HasEnd(out)' => HasEnd(out)
    <3>1. HasEnd(Append(out, sfr[c])) => HasEnd(out)
      BY <1>0, <2>1, <2>2, EndAppend, Zenon DEF Lifecycle
    <3> QED
      BY <2>1, <3>1, Zenon
  <2>4. EndFlushed' => EndFlushed
    BY <2>1, <2>2, <2>3, Zenon DEF EndFlushed
  <2>5. sfr[c].kind = "data" => ~HasEnd(out)
    <3>1. SUFFICES ASSUME sfr[c].kind = "data", HasEnd(out) PROVE FALSE
      OBVIOUS
    <3>2. c = <<c[1], "frames">>
      BY <1>0, <3>1, Zenon DEF SinkKinds, LaneKinds, SystemKinds, Lanes
    <3>3. EndOut
      BY <3>1, Zenon DEF EndOut
    <3>4. spc[<<c[1], "frames">>] # "push"
      BY <1>0, <3>3, EndPasses, Zenon
    <3> QED
      BY <2>1, <3>2, <3>4, Zenon
  <2>6. EndFlushes'
    BY <1>0, <2>1, <2>5, FlushAppend, Zenon
  <2>7. \A x \in Callers : sfr'[x].kind = "end" => sfr[x].kind = "end"
    BY <2>1, <2>2, Zenon
  <2> QED
    BY <1>1, <2>1, <2>4, <2>6, <2>7, Zenon
<1>6. CASE Report(c)
  <2>1. /\ UNCHANGED <<buffered, popped, out>>
        /\ (\A d \in Callers \ {c} : spc'[d] = spc[d] /\ sfr'[d] = sfr[d])
    BY <1>6, ReportKeeps, Zenon
  <2>2. /\ spc[c] = "idle" /\ Front(c) \in ToSet(lane[c])
        /\ \/ sfr'[c] = sfr[c]
           \/ sfr'[c] = Front(c) /\ (Front(c).kind # "start" => spc'[c] = "flush")
    BY <1>0, <1>6, ReportLanes, ReportStep, Zenon
  <2>3. sfr'[c].kind = "end" => spc'[c] = "flush" /\ Front(c).kind = "end"
    BY <1>0, <2>2, Zenon DEF SinkPlace
  <2>4. EndFlushed' => EndFlushed
    BY <2>1, <2>3, Zenon DEF EndFlushed
  <2>5. ASSUME NEW d \in Callers, sfr'[c].kind = "end", d # c PROVE popped[d].kind # "data"
    <3>1. c[2] = "frames" /\ HasEnd(lane[c])
      <4>1. HasEnd(lane[c])
        BY <2>2, <2>3, <2>5, Zenon DEF HasEnd
      <4> QED
        BY <1>0, <2>2, <2>3, <2>5, <4>1, Zenon DEF WayKinds, LaneKinds, SystemKinds, Lanes
    <3>2. spc[d] # "flushPush"
      BY <2>5, <3>1, OneFlush, Zenon
    <3> QED
      BY <1>0, <3>2, Zenon DEF SinkPlace
  <2>6. OwnFlush'
    BY <1>0, <2>1, <2>5, Zenon DEF OwnFlush
  <2>7. EndFlushed' => NoData'
    BY <1>0, <2>1, <2>4, Zenon DEF NoData
  <2> QED
    BY <1>3, <2>1, <2>6, <2>7, Zenon DEF FlushInv
<1>7. CASE EmitSynchronized(c)
  <2>1. /\ UNCHANGED <<buffered, popped, sfr>> /\ spc[c] = "emit" /\ sfr[c] \in Frame
        /\ (out' = out \/ out' = Append(out, sfr[c]))
        /\ \A d \in Callers \ {c} : spc'[d] = spc[d]
    BY <1>7, SynchronizedStep, Zenon
  <2>2. sfr[c].kind # "data" /\ (sfr[c].kind = "end" => EndFlushed)
    BY <1>0, <2>1, Zenon DEF SinkPlace, Lifecycle, EndFlushed
  <2>3. HasEnd(out)' => EndFlushed
    <3>1. HasEnd(Append(out, sfr[c])) => HasEnd(out) \/ sfr[c].kind = "end"
      BY <1>0, <2>1, EndAppend, Zenon
    <3> QED
      BY <2>1, <2>2, <3>1, Zenon DEF EndFlushed
  <2>4. EndFlushed' => EndFlushed
    BY <2>1, <2>2, <2>3, Zenon DEF EndFlushed
  <2>5. EndFlushes'
    BY <1>0, <1>3, <2>1, <2>2, FlushAppend, Zenon
  <2> QED
    BY <1>1, <2>1, <2>4, <2>5, Zenon
<1>8. CASE FlushNext(c)
  <2>1. /\ UNCHANGED <<sfr, out>> /\ spc[c] = "flush" /\ buffered # <<>> /\ buffered' = Tail(buffered)
        /\ popped'[c] = Head(buffered) /\ Head(buffered) \in ToSet(buffered)
        /\ spc'[c] = "flushPush"
        /\ \A d \in Callers \ {c} : spc'[d] = spc[d] /\ popped'[d] = popped[d]
    BY <1>8, FlushNextStep, Zenon
  <2>2. EndFlushed' => EndFlushed
    BY <2>1, Zenon DEF EndFlushed
  <2>3. ASSUME NEW x \in Callers, sfr[x].kind = "end", x # c PROVE FALSE
    BY <2>1, <2>3, OneFlush, Zenon
  <2>4. OwnFlush'
    BY <1>0, <2>1, <2>3, Zenon DEF OwnFlush
  <2>5. ToSet(buffered)' \subseteq ToSet(buffered)
    BY <1>0, <2>1, TailSet, Zenon
  <2>6. EndFlushed' => NoData'
    BY <1>0, <2>1, <2>2, <2>5, Zenon DEF NoData
  <2> QED
    BY <1>3, <2>1, <2>4, <2>6, Zenon DEF FlushInv
<1>9. CASE FlushPush(c)
  <2>1. /\ UNCHANGED <<buffered, sfr>> /\ popped[c] \in Frame
        /\ out' = Append(out, popped[c]) /\ popped'[c] = NoFrame /\ spc'[c] = "flush"
        /\ \A d \in Callers \ {c} : spc'[d] = spc[d] /\ popped'[d] = popped[d]
    BY <1>9, FlushPushStep, Zenon DEF mergeVars
  <2>2. HasEnd(out)' => HasEnd(out)
    <3>1. HasEnd(Append(out, popped[c])) => HasEnd(out)
      BY <1>0, <2>1, EndAppend, Zenon DEF SinkKinds, Lifecycle
    <3> QED
      BY <2>1, <3>1, Zenon
  <2>3. EndFlushed' => EndFlushed
    <3>1. spc'[c] \in {"flush", "flushPush"}
      BY <2>1, Zenon
    <3> QED
      BY <2>1, <2>2, <3>1, Zenon DEF EndFlushed
  <2>4. popped[c].kind = "data" => ~HasEnd(out)
    BY <1>0, Zenon DEF EndFlushed, NoData
  <2>5. EndFlushes'
    BY <1>0, <2>1, <2>4, FlushAppend, Zenon
  <2>6. popped'[c].kind # "data"
    BY <1>0, <2>1, Zenon
  <2>7. OwnFlush'
    BY <1>0, <2>1, <2>6, Zenon DEF OwnFlush
  <2>8. EndFlushed' => NoData'
    BY <1>0, <2>1, <2>3, <2>6, Zenon DEF NoData
  <2> QED
    BY <2>5, <2>7, <2>8, Zenon DEF FlushInv
<1>10. CASE FlushDone(c)
  <2>1. /\ UNCHANGED <<buffered, sfr, popped, out>> /\ spc[c] = "flush" /\ buffered = <<>>
        /\ \A d \in Callers \ {c} : spc'[d] = spc[d]
    BY <1>10, FlushDoneStep, Zenon
  <2>2. EndFlushed' => EndFlushed \/ sfr[c].kind = "end"
    BY <2>1, Zenon DEF EndFlushed
  <2>3. sfr[c].kind = "end" => NoData
    <3>1. popped[c].kind # "data"
      BY <1>0, <2>1, Zenon DEF SinkPlace
    <3>2. ToSet(buffered) = {}
      BY <2>1, EmptySet, Zenon
    <3> QED
      BY <1>0, <3>1, <3>2, Zenon DEF OwnFlush, NoData
  <2>4. EndFlushed' => NoData'
    BY <1>0, <2>1, <2>2, <2>3, Zenon DEF NoData
  <2>5. OwnFlush'
    BY <1>0, <2>1, Zenon DEF OwnFlush
  <2> QED
    BY <1>3, <2>1, <2>4, <2>5, Zenon DEF FlushInv
<1>11. CASE Resume(c)
  <2>1. /\ UNCHANGED <<buffered, popped, out>> /\ spc[c] \notin {"flush", "flushPush"}
        /\ (\A d \in Callers \ {c} : spc'[d] = spc[d] /\ sfr'[d] = sfr[d])
        /\ (sfr'[c] = sfr[c] \/ sfr'[c] = NoFrame)
    BY <1>0, <1>11, ResumeStep, Zenon DEF mergeVars
  <2>2. sfr'[c].kind = "end" => sfr[c].kind = "end"
    BY <1>0, <2>1, Zenon
  <2>3. \A x \in Callers : sfr'[x].kind = "end" => sfr[x].kind = "end"
    BY <2>1, <2>2, Zenon
  <2>4. EndFlushed' => EndFlushed
    BY <2>1, <2>2, Zenon DEF EndFlushed
  <2> QED
    BY <1>1, <1>3, <2>1, <2>3, <2>4, Zenon
<1> QED
  BY <1>4, <1>5, <1>6, <1>7, <1>8, <1>9, <1>10, <1>11, Zenon DEF Sink

-----------------------------------------------------------------------------
(* A lifecycle frame escapes when every branch has passed it.              *)

(* Nothing is on its way at first.                                         *)
LEMMA LifeInit == ASSUME Ordinary, Init PROVE LifeInv
<1>0. /\ left \in [Kinds -> Nat] /\ left["start"] = 1 /\ left["end"] \in {0, 1}
      /\ left["own"] = 0 /\ left["ownEnd"] = 0 /\ ids = 0
  <2>1. /\ left \in [Kinds -> Nat] /\ left["start"] = 1 /\ left["end"] <= 1
        /\ left["own"] = 0 /\ left["ownEnd"] = 0 /\ ids = 0
    BY ArrivalAssumption, Zenon DEF Init, Ordinary
  <2> QED
    BY <2>1 DEF Kinds
<1>1. /\ inq["system"] = <<>> /\ inq["frames"] = <<>> /\ procq = <<>> /\ buffered = <<>> /\ out = <<>>
      /\ \A g \in Gates : pc[g] = "get" /\ hand[g] = NoFrame /\ next[g] = 0 /\ ~block[g]
      /\ \A c \in Callers : /\ lane[c] = <<>> /\ spc[c] = "idle"
                            /\ sfr[c] = NoFrame /\ popped[c] = NoFrame
      /\ seen = {} /\ \A i \in Ids : counter[i] = 0
  BY Zenon DEF Init, Gates
<1>2. /\ ToSet(inq["system"]) = {} /\ ToSet(inq["frames"]) = {} /\ ToSet(procq) = {}
      /\ ToSet(buffered) = {} /\ ToSet(out) = {} /\ \A c \in Callers : ToSet(lane[c]) = {}
  BY <1>1, EmptySet, Zenon
<1>3. NoFrame.kind = "none" /\ \A f \in Frame : f # NoFrame /\ f.id \in Ids
  BY FrameType, Zenon
<1>4. /\ pc["system"] = "get" /\ pc["frames"] = "get" /\ hand["system"] = NoFrame
      /\ hand["frames"] = NoFrame /\ next["system"] = 0 /\ ~block["system"]
  BY <1>1, Zenon DEF Gates
<1>5. ShapeInv
  <2>1. OwnPlace
    BY <1>1, <1>4, Zenon DEF OwnPlace, Armed
  <2>2. SinkPlace
    BY <1>1, Zenon DEF SinkPlace
  <2>3. OwnKinds
    BY <1>0, <1>2, <1>3, <1>4, Zenon DEF OwnKinds
  <2>4. WayKinds
    BY <1>2, Zenon DEF WayKinds
  <2>5. SinkKinds
    BY <1>1, <1>2, <1>3, Zenon DEF SinkKinds, Lifecycle
  <2> QED
    BY <2>1, <2>2, <2>3, <2>4, <2>5, Zenon DEF ShapeInv
<1>6. \A f \in Frame : ~There(f)
  BY <1>1, <1>2, <1>3, <1>4, Zenon DEF There, OwnThere, SinkThere
<1>7. IdInv
  BY <1>0, <1>1, <1>6, Zenon DEF IdInv
<1>8. \A f \in Frame : Waiting(f) = {} /\ ~Released(f)
  BY <1>6, WaitThere, Zenon
<1>9. CountInv
  <2>2. ASSUME NEW f \in Frame PROVE Fits(Waiting(f), counter[f.id])
    <3>1. counter[f.id] = 0
      BY <1>1, <1>3, Zenon
    <3>2. 0 \in Nat /\ {} \subseteq Branches
      OBVIOUS
    <3>3. Fits({}, 0)
      BY <3>2, Counts, Zenon
    <3> QED
      BY <1>8, <3>1, <3>3, Zenon
  <2> QED
    BY <1>8, <2>2, Zenon DEF CountInv, Counted, Released
<1>10. SystemInv
  <2>1. SystemQueue
    BY <1>1, <1>2 DEF SystemQueue, Once
  <2>2. ASSUME NEW b \in Branches PROVE SystemLane(b)
    <3>1. <<b, "system">> \in Callers
      BY CallerParts, Zenon
    <3> QED
      BY <1>1, <1>2, <3>1 DEF SystemLane, Once
  <2>3. \A f \in Frame : SystemOut(f)
    BY <1>8, Zenon DEF SystemOut
  <2> QED
    BY <2>1, <2>2, <2>3, Zenon DEF SystemInv
<1>11. StartInv
  <2>0. ~StartOut
    BY <1>2, Zenon DEF StartOut
  <2>1. StartFirst /\ StartSeen
    <3>1. StartFirst
      BY <1>1 DEF StartFirst
    <3> QED
      BY <1>1, <3>1, Zenon DEF StartSeen
  <2>2. StartWay
    BY <1>1, <1>2, <1>3, Zenon DEF StartWay, Lifecycle
  <2>3. Early
    BY <1>0, <1>1, <1>4, <2>0, Zenon DEF Early, StartDue
  <2> QED
    BY <1>1, <1>4, <2>1, <2>2, <2>3, Zenon DEF StartInv
<1>12. ~HasEnd(out) /\ ~EndOut /\ \A c \in Callers : ~HasEnd(lane[c]) /\ EndLast(lane[c])
  BY <1>1, <1>3, EndEmpty, Zenon DEF EndOut
<1>13. EndInv
  <2>1. \A b \in Branches : <<b, "frames">> \in Callers
    BY CallerParts, Zenon
  <2>2. ~EndHeld /\ ~EndWay
    BY <1>3, <1>4, <1>12, <2>1, Zenon DEF EndHeld, EndWay
  <2>3. EndQueues
    BY <1>1, <1>4, <1>3, <2>2, EndEmpty, Zenon DEF EndQueues
  <2>4. EndGate
    BY <1>12, <2>2, Zenon DEF EndGate
  <2>5. \A b \in Branches : EndLane(b)
    BY <1>12, <2>1, <2>2, Zenon DEF EndLane, EndPassed
  <2> QED
    BY <2>3, <2>4, <2>5, Zenon DEF EndInv
<1>14. CancelInv
  BY <1>8, Zenon DEF CancelInv, Canceling
<1>15. FlushInv
  <2>1. OwnFlush
    BY <1>1, <1>3, Zenon DEF OwnFlush
  <2>2. ~EndFlushed
    BY <1>1, <1>3, <1>12, Zenon DEF EndFlushed
  <2>3. EndFlushes
    BY <1>1 DEF EndFlushes
  <2> QED
    BY <2>1, <2>2, <2>3, Zenon DEF FlushInv
<1>16. NoOwnEnd
  BY <1>1, <1>2, <1>3, Zenon DEF NoOwnEnd
<1> QED
  BY <1>5, <1>7, <1>9, <1>10, <1>11, <1>13, <1>14, <1>15, <1>16, Zenon DEF LifeInv

(* A step that changes nothing keeps it.                                   *)
LEMMA LifeStutter == ASSUME LifeInv, UNCHANGED vars PROVE LifeInv'
<1>1. /\ UNCHANGED <<left, ids, inq, procq, pc, hand, next, block, ev, seen, counter, syncing, buffered>>
      /\ UNCHANGED <<spc, sfr, popped, lane, raised, out>>
  BY Zenon DEF vars, ownVars, gateVars, mergeVars, sinkVars
<1>2. UNCHANGED <<ownVars, lane, out>>
  BY Zenon DEF vars
<1>3. ShapeInv'
  BY <1>1, Zenon DEF LifeInv, ShapeInv, OwnPlace, SinkPlace, OwnKinds, WayKinds, SinkKinds
<1>4. \A f \in Frame : There(f)' <=> There(f)
  BY <1>1, Zenon DEF There, OwnThere, SinkThere
<1>5. IdInv'
  BY <1>1, <1>4, Zenon DEF LifeInv, IdInv
<1>6. \A f \in Frame : Waiting(f)' = Waiting(f) /\ (Released(f)' <=> Released(f))
  BY <1>1, Zenon DEF Waiting, WaitsFor, Coming, Ahead, GateOf, Released
<1>7. CountInv'
  BY <1>1, <1>6, Zenon DEF LifeInv, CountInv, Counted
<1>8. SystemInv'
  BY <1>1, <1>6, Zenon DEF LifeInv, SystemInv, SystemQueue, SystemLane, SystemOut
<1>9. StartInv => StartInv'
  <2>1. (StartOut' <=> StartOut) /\ (StartPhase' <=> StartPhase)
    BY <1>1, Zenon DEF StartOut, StartPhase
  <2>2. (StartFirst => StartFirst') /\ (StartWay => StartWay')
    BY <1>1, Zenon DEF StartFirst, StartWay
  <2>3. StartSeen => StartSeen'
    BY <1>1, <1>4, <2>1, Zenon DEF StartSeen
  <2>4. Early \/ Late => (Early \/ Late)'
    BY <1>1, <2>1, Zenon DEF Early, Late, StartDue, StartQueued, StartTaken
  <2> QED
    BY <1>1, <2>1, <2>2, <2>3, <2>4, Zenon DEF StartInv
<1>10. EndInv'
  BY <1>1, EndIdle, Zenon DEF LifeInv
<1>11. CancelInv'
  BY <1>1, <1>6, Zenon DEF LifeInv, CancelInv, Canceling
<1>12. FlushInv => FlushInv'
  BY <1>1, Zenon DEF FlushInv, OwnFlush, EndFlushed, NoData, EndFlushes
<1>13. (EndRaised' <=> EndRaised) /\ (NoOwnEnd => NoOwnEnd')
  BY <1>1, Zenon DEF EndRaised, NoOwnEnd
<1> QED
  BY <1>3, <1>5, <1>7, <1>8, <1>9, <1>10, <1>11, <1>12, <1>13, Zenon DEF LifeInv

(* Nobody in a branch raises an EndFrame unnoticed: while none has been    *)
(* raised, none is on its way.                                             *)
LEMMA OwnEndNext ==
  ASSUME Types, ShapeInv, ~EndRaised => NoOwnEnd, Next, ~EndRaised'
  PROVE  ~EndRaised /\ NoOwnEnd'
<1>0. WayKinds /\ WayType /\ OwnKinds /\ SinkPlace /\ NoFrame.kind # "ownEnd"
  BY Zenon DEF ShapeInv, Types, NoFrame
<1>1. ASSUME UNCHANGED raised, ~EndRaised /\ NoOwnEnd => NoOwnEnd' PROVE ~EndRaised /\ NoOwnEnd'
  BY <1>1, Zenon DEF EndRaised
<1>2. ASSUME NEW k \in Kinds, NEW b \in Branches, Raise(b, k) PROVE ~EndRaised /\ NoOwnEnd'
  <2>1. raised' = Append(raised, k) /\ k \in Raised /\ raised \in Seq(Raised) /\ UNCHANGED sfr
    BY <1>0, <1>2, Zenon DEF Raise, WayType, sinkVars
  <2>2. ToSet(raised)' = ToSet(raised) \cup {k}
    <3>1. /\ Len(raised') = Len(raised) + 1 /\ raised'[Len(raised) + 1] = k /\ Len(raised) \in Nat
          /\ \A i \in 1..Len(raised) : raised'[i] = raised[i]
      BY <2>1
    <3> QED
      BY <3>1 DEF ToSet
  <2>3. ~EndRaised /\ k # "ownEnd" /\ NoOwnEnd
    BY <2>2, Zenon DEF EndRaised
  <2>4. PICK h \in Frame, c \in Callers :
        /\ h.id = ids + 1 /\ h.kind = k
        /\ (k = "data" => c = <<b, "frames">>) /\ (k # "data" => c = <<b, "own">>)
        /\ \E i \in 1..(Len(lane[c]) + 1) :
             /\ lane'[c] = InsertAt(lane[c], i, h)
             /\ k = "data" => \A j \in 1..(i - 1) : lane[c][j].kind # "end"
        /\ \A d \in Callers \ {c} : lane'[d] = lane[d]
    BY <1>2, RaiseStep, ZenonT(30)
  <2>5. PICK i \in 1..(Len(lane[c]) + 1) : lane'[c] = InsertAt(lane[c], i, h)
    BY <2>4, Zenon
  <2>6. lane[c] \in Seq(Frame)
    BY <1>0, Zenon DEF WayType
  <2>7. ToSet(lane[c])' = ToSet(lane[c]) \cup {h}
    BY <2>5, <2>6, InsertSet, Zenon
  <2> QED
    BY <2>1, <2>3, <2>4, <2>7, Zenon DEF NoOwnEnd
<1>3. CASE \/ \E k \in Kinds : QueueFrame(k)
           \/ Forward \/ StopProcessing
           \/ \E g \in Gates : \/ Take(g) \/ Wake(g) \/ Unblock(g) \/ Arm(g)
                               \/ PauseProcessing(g) \/ HandleOther(g)
  <2>1. UNCHANGED <<raised, lane, sfr>>
    BY <1>3, Zenon DEF QueueFrame, Forward, StopProcessing, Take, Wake, Unblock, Arm, PauseProcessing,
                       HandleOther, sinkVars
  <2> QED
    BY <1>1, <2>1, Zenon DEF NoOwnEnd
<1>4. ASSUME NEW g \in Gates, Fan(g) PROVE ~EndRaised /\ NoOwnEnd'
  <2>1. /\ UNCHANGED <<raised, sfr>> /\ hand[g] \in Frame /\ next[g] \in Branches
        /\ lane'[<<next[g], g>>] = Append(lane[<<next[g], g>>], hand[g])
        /\ \A c \in Callers : c # <<next[g], g>> => lane'[c] = lane[c]
    BY <1>4, FanStep, Zenon DEF sinkVars
  <2>2. PICK c \in Callers : c = <<next[g], g>>
    BY <2>1, CallerParts, Zenon
  <2>3. lane'[c] = Append(lane[c], hand[g]) /\ lane[c] \in Seq(Frame)
    BY <1>0, <2>1, <2>2, Zenon DEF WayType
  <2>4. ToSet(lane[c])' = ToSet(lane[c]) \cup {hand[g]}
    BY <2>1, <2>3, AppendSet
  <2>5. hand[g].kind # "ownEnd"
    <3>1. g = "system" \/ g = "frames"
      BY Zenon DEF Gates
    <3>2. hand["system"].kind # "ownEnd" /\ hand["frames"].kind # "ownEnd"
      BY <1>0, Zenon DEF OwnKinds
    <3> QED
      BY <3>1, <3>2, Zenon
  <2>6. \A d \in Callers \ {c} : lane'[d] = lane[d]
    BY <2>1, <2>2, Zenon
  <2>7. NoOwnEnd => NoOwnEnd'
    BY <2>1, <2>4, <2>5, <2>6, Zenon DEF NoOwnEnd
  <2> QED
    BY <1>1, <2>1, <2>7, Zenon
<1>5. ASSUME NEW c \in Callers, Sink(c) PROVE ~EndRaised /\ NoOwnEnd'
  <2>1. UNCHANGED raised
    BY <1>5, Zenon DEF Sink, Emit, Push, Report, EmitSynchronized, FlushNext, FlushPush, FlushDone,
                       Resume, SinkKeeps
  <2>2. \A d \in Callers : ToSet(lane[d])' \subseteq ToSet(lane[d])
    BY <1>0, <1>5, LanesShrink, Zenon
  <2>3. /\ \A d \in Callers \ {c} : sfr'[d] = sfr[d]
        /\ sfr'[c] = sfr[c] \/ sfr'[c] = NoFrame \/ (sfr'[c] = Front(c) /\ Front(c) \in ToSet(lane[c]))
    <3>1. CASE Emit(c)
      BY <1>0, <3>1, EmitStep, Zenon
    <3>2. CASE Report(c)
      BY <1>0, <3>2, ReportKeeps, ReportLanes, ZenonT(30)
    <3>3. CASE Push(c) \/ Resume(c)
      BY <1>0, <3>3, PushStep, ResumeStep, Zenon
    <3>4. CASE UNCHANGED sfr
      BY <3>4, Zenon
    <3> QED
      BY <1>5, <3>1, <3>2, <3>3, <3>4, Zenon DEF Sink, EmitSynchronized, FlushNext, FlushPush, FlushDone
  <2>4. NoOwnEnd => NoOwnEnd'
    BY <1>0, <2>2, <2>3, Zenon DEF NoOwnEnd
  <2> QED
    BY <1>1, <2>1, <2>4, Zenon
<1> QED
  BY <1>2, <1>3, <1>4, <1>5, Zenon DEF Next, Own

(* It is inductive.                                                        *)
LEMMA LifeNext == ASSUME Types, LifeInv, [Next]_vars PROVE LifeInv'
<1>0. ShapeInv /\ IdInv /\ CountInv /\ SystemInv /\ EndInv /\ CancelInv
  BY Zenon DEF LifeInv
<1>1. ShapeInv' /\ IdInv'
  BY <1>0, ShapeNext, IdNext, Zenon
<1>2. CASE UNCHANGED vars
  BY <1>2, LifeStutter, Zenon
<1>3. ASSUME Next, ~EndRaised' PROVE NoOwnEnd /\ NoOwnEnd' /\ StartInv /\ FlushInv
  BY <1>0, <1>3, OwnEndNext, Zenon DEF LifeInv
<1>4. CASE \/ \E k \in Kinds : QueueFrame(k) \/ \E e \in Branches : Raise(e, k)
           \/ Forward \/ StopProcessing
           \/ \E g \in Gates : Own(g)
  <2>0. Next
    BY <1>4, Zenon DEF Next
  <2>1. CountInv'
    BY <1>0, <1>4, CountOwn, Zenon
  <2>2. SystemInv'
    BY <1>0, <1>4, SystemOwn, Zenon
  <2>3. EndInv'
    BY <1>0, <1>4, EndOwn, Zenon
  <2>4. CancelInv'
    BY <1>0, <1>4, CancelOwn, Zenon
  <2>5. ASSUME ~EndRaised' PROVE StartInv'
    BY <1>0, <1>3, <1>4, <2>0, <2>5, StartOwn, Zenon
  <2>6. ASSUME ~EndRaised' PROVE FlushInv'
    <3>1. UNCHANGED <<buffered, out, spc, sfr, popped>>
      BY <1>4, Zenon DEF QueueFrame, Raise, Forward, StopProcessing, Own, Take, Wake, Unblock,
                         PauseProcessing, HandleOther, Arm, Fan, sinkVars, mergeVars
    <3>2. FlushInv
      BY <1>3, <2>0, <2>6, Zenon
    <3> QED
      BY <3>1, <3>2, Zenon DEF FlushInv, OwnFlush, EndFlushed, NoData, EndFlushes
  <2> QED
    BY <1>1, <1>3, <2>0, <2>1, <2>2, <2>3, <2>4, <2>5, <2>6, Zenon DEF LifeInv
<1>5. ASSUME NEW c \in Callers, Sink(c) PROVE LifeInv'
  <2>0. Next
    BY <1>5, Zenon DEF Next
  <2>1. CountInv'
    BY <1>0, <1>5, CountSink, Zenon
  <2>2. SystemInv'
    BY <1>0, <1>5, <2>1, SystemSink, Zenon
  <2>3. EndInv'
    BY <1>0, <1>5, <2>1, EndSink, Zenon
  <2>4. CancelInv'
    BY <1>0, <1>5, CancelSink, Zenon
  <2>5. ASSUME ~EndRaised' PROVE StartInv'
    BY <1>0, <1>3, <1>5, <2>0, <2>5, StartSink, Zenon
  <2>6. ASSUME ~EndRaised' PROVE FlushInv'
    BY <1>0, <1>3, <1>5, <2>0, <2>6, FlushSink, Zenon
  <2> QED
    BY <1>1, <1>3, <2>0, <2>1, <2>2, <2>3, <2>4, <2>5, <2>6, Zenon DEF LifeInv
<1> QED
  BY <1>2, <1>4, <1>5, Zenon DEF Next

(* It says what the lifecycle frames are kept to.                          *)
LEMMA LifeSays == ASSUME Types, LifeInv PROVE LifecycleSynced
<1>1. ~EndRaised => StartFirst /\ EndFlushes
  BY Zenon DEF LifeInv, StartInv, FlushInv
<1>2. SyncedByAll
  <2>1. SUFFICES ASSUME NEW f \in ToSet(out), f.kind \in Fanned
                 PROVE  /\ \A g \in Gates : hand[g] # f
                        /\ \A c \in Callers : f \notin ToSet(lane[c])
    BY Zenon DEF SyncedByAll, Escaped
  <2>2. f \in Frame /\ Released(f)
    <3>1. out \in Seq(Frame)
      BY Zenon DEF Types, WayType
    <3> QED
      BY <3>1, EmptySet, Zenon DEF Released
  <2>3. f.kind = "end" => \A g \in Gates : hand[g] # f
    <3>1. SUFFICES ASSUME f.kind = "end" PROVE hand["system"] # f /\ hand["frames"] # f
      BY Zenon DEF Gates
    <3>2. EndOut /\ EndWay
      BY <2>1, <3>1, Zenon DEF EndWay, EndOut, HasEnd
    <3>3. hand["system"].kind # "end" /\ hand["frames"].kind # "end"
      BY <3>2, Zenon DEF LifeInv, EndInv, EndQueues, EndGate, EndHeld
    <3> QED
      BY <3>1, <3>3, Zenon
  <2>4. f.kind \in {"start", "cancel"} => \A g \in Gates : hand[g] # f
    <3>1. SUFFICES ASSUME f.kind \in {"start", "cancel"} PROVE hand["system"] # f /\ hand["frames"] # f
      BY Zenon DEF Gates
    <3>2. hand["system"] # f
      BY <2>2, <3>1, Zenon DEF LifeInv, SystemInv, SystemOut
    <3>3. hand["frames"] # f
      BY <3>1, Zenon DEF LifeInv, ShapeInv, OwnKinds
    <3> QED
      BY <3>2, <3>3, Zenon
  <2>5. Waiting(f) = {}
    BY <2>1, <2>2, Zenon DEF LifeInv, CountInv, Counted
  <2>6. ASSUME NEW c \in Callers, f \in ToSet(lane[c]) PROVE FALSE
    <3>1. c[2] = GateOf(f)
      BY <2>1, <2>6, CallerParts, Zenon DEF LifeInv, ShapeInv, WayKinds, LaneKinds, GateOf, SystemKinds, Fanned, Lanes
    <3>2. c[1] \in Branches /\ c = <<c[1], GateOf(f)>>
      BY <3>1, CallerParts
    <3>3. f \in ToSet(lane[<<c[1], GateOf(f)>>])
      BY <2>6, <3>2, Zenon
    <3>4. c[1] \in Waiting(f)
      BY <3>2, <3>3, Zenon DEF Waiting, WaitsFor
    <3> QED
      BY <2>5, <3>4, Zenon
  <2> QED
    BY <2>1, <2>3, <2>4, <2>6, Zenon DEF Fanned
<1> QED
  BY <1>1, <1>2, Zenon DEF LifecycleSynced

(* Start, end and cancel frames are synchronized (parallel.go): each of    *)
(* the three that arrives escapes only once every branch has passed it,    *)
(* whatever the branches raise.  Until one raises an EndFrame of its own,  *)
(* only what a processor pushes from a goroutine of its own escapes ahead  *)
(* of the StartFrame, and no data frame behind the EndFrame.  This holds   *)
(* for any number of branches and frames, when one StartFrame and at most  *)
(* one EndFrame arrive.                                                    *)
THEOREM LifecycleIsSynced == ASSUME Ordinary PROVE Spec => []LifecycleSynced
<1>1. Init => Types /\ LifeInv
  BY TypesInit, LifeInit, Zenon
<1>2. Types /\ LifeInv /\ [Next]_vars => (Types /\ LifeInv)'
  BY TypesNext, LifeNext, Zenon
<1>3. Types /\ LifeInv => LifecycleSynced
  BY LifeSays, Zenon
<1> QED
  BY <1>1, <1>2, <1>3, PTL DEF Spec
=============================================================================
