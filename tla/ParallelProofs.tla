--------------------------- MODULE ParallelProofs ---------------------------
(***************************************************************************)
(* What the steps of the parallel pipeline do, that a frame it merges gets *)
(* out once, and that data keeps ahead of the end, for any number of       *)
(* branches and of frames.                                                 *)
(***************************************************************************)
EXTENDS ParallelInv, TLAPS

(* What a queue holds once its first frame is taken.                       *)
LEMMA TailType ==
  ASSUME NEW q \in Seq(Frame), q # <<>>
  PROVE  Head(q) \in Frame /\ Tail(q) \in Seq(Frame)
OBVIOUS

(* A frame put into the middle of a queue.                                 *)
LEMMA InsertType ==
  ASSUME NEW q \in Seq(Frame), NEW f \in Frame, NEW i \in 1..(Len(q) + 1)
  PROVE  InsertAt(q, i, f) \in Seq(Frame)
<1>1. /\ SubSeq(q, 1, i - 1) \in Seq(Frame) /\ SubSeq(q, i, Len(q)) \in Seq(Frame)
  <2>1. \A k \in 1..(i - 1) : q[k] \in Frame
    OBVIOUS
  <2>2. \A k \in i..Len(q) : q[k] \in Frame
    OBVIOUS
  <2> QED
    BY <2>1, <2>2
<1>2. <<f>> \in Seq(Frame)
  OBVIOUS
<1> QED
  BY <1>1, <1>2 DEF InsertAt

(* Frames have a kind, and so has the absence of one.                      *)
LEMMA FrameType ==
  /\ \A f \in Frame : f.id \in Ids /\ f.kind \in Kinds
  /\ \A i \in Ids, k \in Kinds : [id |-> i, kind |-> k] \in Frame
  /\ NoFrame.kind = "none" /\ NoFrame.id = 0 /\ NoFrame \notin Frame
BY Zenon DEF Frame, NoFrame, Ids, Kinds

(* The goroutines of the parallel pipeline keep the types.                 *)
LEMMA OwnTypes ==
  ASSUME Types, NEW g \in Gates, Own(g)
  PROVE  Types'
<1>0. /\ 1 \in 0..N /\ 1 \in Branches /\ 0 \in 0..N /\ N \in 0..N /\ N \in Nat
      /\ OwnType /\ GateType
  BY BranchesAssumption DEF Branches, Types
<1>1. ASSUME UNCHANGED <<gateVars, mergeVars, sinkVars, lane, raised, out>>, OwnType'
      PROVE  Types'
  BY <1>1, Zenon DEF Types, GateType, MergeType, SinkType, WayType, gateVars, mergeVars, sinkVars
<1>2. CASE Take(g)
  <2>1. PICK f \in Frame :
          /\ hand' = [hand EXCEPT ![g] = f]
          /\ inq' \in [Gates -> Seq(Frame)] /\ procq' \in Seq(Frame)
    <3>1. CASE g = "system"
      <4>1. PICK tier \in Gates :
              /\ inq[tier] # <<>> /\ hand' = [hand EXCEPT ![g] = Head(inq[tier])]
              /\ inq' = [inq EXCEPT ![tier] = Tail(inq[tier])] /\ UNCHANGED procq
        BY <1>2, <3>1, Zenon DEF Take, Gates
      <4>2. Head(inq[tier]) \in Frame /\ Tail(inq[tier]) \in Seq(Frame)
        BY <1>0, <4>1, TailType, Zenon DEF OwnType
      <4> QED
        BY <1>0, <4>1, <4>2, Zenon DEF OwnType
    <3>2. CASE g # "system"
      <4>1. Head(procq) \in Frame /\ Tail(procq) \in Seq(Frame)
        BY <1>0, <1>2, <3>2, TailType, Zenon DEF Take, OwnType
      <4> QED
        BY <1>0, <1>2, <3>2, <4>1, Zenon DEF Take, OwnType
    <3> QED
      BY <3>1, <3>2, Zenon
  <2>2. /\ pc' \in [Gates -> Places] /\ pc'[g] # "fan" /\ UNCHANGED <<left, ids, next>>
        /\ \A h \in Gates : h # g => pc'[h] = pc[h]
    BY <1>0, <1>2, Zenon DEF Take, OwnType, Places
  <2>3. OwnType'
    BY <1>0, <2>1, <2>2, Zenon DEF OwnType
  <2> QED
    BY <1>1, <1>2, <2>3, Zenon DEF Take
<1>3. CASE Wake(g)
  <2>1. OwnType'
    BY <1>0, <1>3, Zenon DEF Wake, OwnType, Places, Holding
  <2> QED
    BY <1>1, <1>3, <2>1, Zenon DEF Wake
<1>4. CASE Unblock(g)
  <2>1. OwnType'
    BY <1>0, <1>4, Zenon DEF Unblock, OwnType, Places, Holding
  <2>2. GateType'
    BY <1>0, <1>4, Zenon DEF Unblock, GateType
  <2> QED
    BY <1>4, <2>1, <2>2, Zenon
    DEF Unblock, Types, MergeType, SinkType, WayType, mergeVars, sinkVars
<1>5. CASE Arm(g)
  <2>1. hand[g].id \in Ids
    BY <1>0, <1>5, FrameType, Zenon DEF Arm, Handles, OwnType, Holding
  <2>2. OwnType'
    BY <1>0, <1>5, Zenon DEF Arm, Handles, OwnType, Places, Holding
  <2>3. MergeType'
    BY <1>0, <1>5, <2>1, Zenon DEF Arm, Types, MergeType
  <2> QED
    BY <1>5, <2>2, <2>3, Zenon DEF Arm, Types, GateType, SinkType, WayType, gateVars, sinkVars
<1>6. CASE PauseProcessing(g)
  <2>1. GateType'
    BY <1>0, <1>6, Zenon DEF PauseProcessing, Pause, GateType
  <2>2. OwnType'
    <3>1. CASE pc[g] = "pauseSystem"
      BY <1>0, <1>6, <3>1, Zenon DEF PauseProcessing, OwnType, Places, Holding
    <3>2. CASE pc[g] = "pauseFrames"
      BY <1>0, <1>6, <3>2, Zenon DEF PauseProcessing, OwnType, Places, Holding
    <3> QED
      BY <1>6, <3>1, <3>2, Zenon DEF PauseProcessing
  <2> QED
    BY <1>6, <2>1, <2>2, Zenon
    DEF PauseProcessing, Types, MergeType, SinkType, WayType, mergeVars, sinkVars
<1>7. CASE HandleOther(g)
  <2>1. OwnType'
    BY <1>0, <1>7, Zenon DEF HandleOther, Handles, OwnType, Places, Holding
  <2> QED
    BY <1>1, <1>7, <2>1, Zenon DEF HandleOther
<1>8. CASE Fan(g)
  <2>1. <<next[g], g>> \in Callers /\ hand[g] \in Frame /\ next[g] \in Branches
    BY <1>0, <1>8, Zenon DEF Fan, OwnType, Callers, Gates, Lanes, Holding
  <2>2. Append(lane[<<next[g], g>>], hand[g]) \in Seq(Frame)
    BY <2>1 DEF Types, WayType
  <2>3. WayType'
    BY <1>8, <2>1, <2>2, Zenon DEF Fan, Types, WayType
  <2>4. OwnType'
    <3>1. CASE next[g] < N
      <4>1. next[g] + 1 \in Branches /\ next[g] + 1 \in 0..N
        BY <1>0, <2>1, <3>1 DEF Branches
      <4> QED
        BY <1>0, <1>8, <3>1, <4>1, Zenon DEF Fan, OwnType
    <3>2. CASE ~(next[g] < N)
      BY <1>0, <1>8, <3>2, Zenon DEF Fan, OwnType, Places, Holding
    <3> QED
      BY <3>1, <3>2, Zenon
  <2> QED
    BY <1>8, <2>3, <2>4, Zenon DEF Fan, Types, GateType, MergeType, SinkType, gateVars, mergeVars, sinkVars
<1> QED
  BY <1>2, <1>3, <1>4, <1>5, <1>6, <1>7, <1>8, Zenon DEF Own

(* So do the neighbours, and the hand-over from one goroutine to the other.*)
LEMMA ArrivalTypes ==
  ASSUME Types
  PROVE  /\ \A k \in Kinds : QueueFrame(k) => Types'
         /\ Forward \/ StopProcessing => Types'
<1>0. OwnType /\ "system" \in Gates /\ "frames" \in Gates
  BY Zenon DEF Types, Gates
<1>1. ASSUME UNCHANGED <<gateVars, mergeVars, sinkVars, lane, raised, out>>, OwnType'
      PROVE  Types'
  BY <1>1, Zenon DEF Types, GateType, MergeType, SinkType, WayType, gateVars, mergeVars, sinkVars
<1>2. ASSUME NEW k \in Kinds, QueueFrame(k) PROVE Types'
  <2>1. ids + 1 \in Ids
    BY <1>0, <1>2, BoundsAssumption DEF QueueFrame, OwnType, Ids
  <2>2. PICK f \in Frame : f = [id |-> ids + 1, kind |-> k]
    BY <2>1, FrameType, Zenon
  <2>3. PICK tier \in Gates :
          inq' = inq \/ inq' = [inq EXCEPT ![tier] = Append(inq[tier], f)]
    BY <1>2, <2>2, Zenon DEF QueueFrame, Gates
  <2>4. Append(inq[tier], f) \in Seq(Frame)
    BY <1>0 DEF OwnType
  <2>5. inq' \in [Gates -> Seq(Frame)]
    BY <1>0, <2>3, <2>4, Zenon DEF OwnType
  <2>6. left' \in [Kinds -> Nat] /\ ids' \in Nat
    BY <1>0, <1>2 DEF QueueFrame, OwnType
  <2>7. OwnType'
    BY <1>0, <1>2, <2>5, <2>6, Zenon DEF QueueFrame, OwnType
  <2> QED
    BY <1>1, <1>2, <2>7, Zenon DEF QueueFrame
<1>3. ASSUME Forward PROVE Types'
  <2>1. hand["system"] \in Frame
    BY <1>0, <1>3, Zenon DEF Forward, OwnType, Holding
  <2>2. procq' \in Seq(Frame)
    BY <1>0, <1>3, <2>1 DEF Forward, OwnType
  <2>3. OwnType'
    BY <1>0, <1>3, <2>2, Zenon DEF Forward, OwnType, Places, Holding
  <2> QED
    BY <1>1, <1>3, <2>3, Zenon DEF Forward
<1>4. ASSUME StopProcessing PROVE Types'
  <2>1. OwnType'
    BY <1>0, <1>4 DEF StopProcessing, OwnType, Places, Holding
  <2> QED
    BY <1>1, <1>4, <2>1, Zenon DEF StopProcessing
<1> QED
  BY <1>2, <1>3, <1>4, Zenon

(* ... the processors of the branches ...                                  *)
LEMMA RaiseTypes ==
  ASSUME Types, NEW b \in Branches, NEW k \in Kinds, Raise(b, k)
  PROVE  Types'
<1>0. ids + 1 \in Ids
  BY BoundsAssumption DEF Raise, Types, OwnType, Ids
<1>1. PICK f \in Frame : f = [id |-> ids + 1, kind |-> k]
  BY <1>0, FrameType, Zenon
<1>2. PICK c \in Callers : c = <<b, IF k = "data" THEN "frames" ELSE "own">>
  <2>1. PICK l \in Lanes : l = IF k = "data" THEN "frames" ELSE "own"
    BY Zenon DEF Lanes
  <2>2. <<b, l>> \in Callers
    BY Zenon DEF Callers
  <2> QED
    BY <2>1, <2>2, Zenon
<1>3. PICK i \in 1..(Len(lane[c]) + 1) :
        lane' = [lane EXCEPT ![c] = InsertAt(lane[c], i, f)]
  BY <1>1, <1>2, Zenon DEF Raise
<1>4. InsertAt(lane[c], i, f) \in Seq(Frame)
  BY <1>3, InsertType, Zenon DEF Types, WayType
<1>5. /\ k \in Raised /\ Len(raised) < MaxRaised /\ raised' = Append(raised, k) /\ ids' = ids + 1
      /\ UNCHANGED <<ownVars, gateVars, mergeVars, sinkVars, out>>
  BY Zenon DEF Raise
<1>6. raised' \in Seq(Raised) /\ Len(raised') <= MaxRaised /\ ids' \in Nat
  BY <1>5, BoundsAssumption DEF Types, WayType, OwnType
<1>7. WayType'
  BY <1>3, <1>4, <1>5, <1>6, Zenon DEF Types, WayType
<1> QED
  BY <1>5, <1>6, <1>7, Zenon
  DEF Types, OwnType, GateType, MergeType, SinkType, ownVars, gateVars, mergeVars, sinkVars

(* What is left of the lanes when a frame has been delivered.              *)
LEMMA DeliveredType ==
  ASSUME Types, NEW c \in Callers, MayDeliver(c)
  PROVE  /\ Head(lane[c]) \in Frame /\ Delivered(c) \in [Callers -> Seq(Frame)]
         /\ lane[c] \in Seq(Frame) /\ lane[c] # <<>>
         /\ Delivered(c)[c] = Tail(lane[c]) \/ Delivered(c)[c] = <<>>
         /\ \A d \in Callers \ {c} : Delivered(c)[d] = lane[d] \/ Delivered(c)[d] = <<>>
<1>1. lane[c] \in Seq(Frame) /\ lane[c] # <<>> /\ lane \in [Callers -> Seq(Frame)]
  BY Zenon DEF Types, WayType, MayDeliver
<1>2. Head(lane[c]) \in Frame /\ Tail(lane[c]) \in Seq(Frame) /\ <<>> \in Seq(Frame)
  BY <1>1, TailType
<1>3. PICK d \in Callers : d = <<c[1], "frames">>
  BY Zenon DEF Callers, Lanes
<1> QED
  BY <1>1, <1>2, <1>3, Zenon DEF Delivered

(* ... and the sinks.                                                      *)
LEMMA SinkTypes ==
  ASSUME Types, NEW c \in Callers, Sink(c)
  PROVE  Types'
<1>0. MergeType /\ SinkType /\ WayType
  BY Zenon DEF Types
<1>1. ASSUME UNCHANGED SinkKeeps, UNCHANGED raised, MergeType', SinkType',
             lane' \in [Callers -> Seq(Frame)], out' \in Seq(Frame)
      PROVE  Types'
  BY <1>0, <1>1, ZenonT(40) DEF Types, OwnType, GateType, WayType, SinkKeeps, ownVars, gateVars
<1>2. CASE Emit(c)
  <2>1. /\ Head(lane[c]) \in Frame /\ Head(lane[c]).id \in Ids
        /\ Delivered(c) \in [Callers -> Seq(Frame)]
    BY <1>2, DeliveredType, FrameType, Zenon DEF Emit
  <2>2. PICK f \in Frame : f = Head(lane[c])
    BY <2>1, Zenon
  <2>3. seen' \subseteq Ids /\ buffered' \in Seq(Frame)
    BY <1>0, <1>2, <2>1, <2>2 DEF Emit, MergeType
  <2>4. MergeType'
    BY <1>0, <1>2, <2>3, Zenon DEF Emit, MergeType
  <2>5. SinkType'
    <3>1. CASE spc' = [spc EXCEPT ![c] = "push"] /\ sfr' = [sfr EXCEPT ![c] = f]
      BY <1>0, <1>2, <3>1, Zenon DEF Emit, SinkType, SinkPlaces, Releasing
    <3>2. CASE UNCHANGED <<spc, sfr>>
      BY <1>0, <1>2, <3>2, Zenon DEF Emit, SinkType
    <3> QED
      BY <1>2, <2>2, <3>1, <3>2, Zenon DEF Emit
  <2> QED
    BY <1>0, <1>1, <1>2, <2>1, <2>4, <2>5, Zenon DEF Emit, SinkKeeps, WayType
<1>3. CASE Push(c)
  <2>1. sfr[c] \in Frame
    BY <1>0, <1>3, Zenon DEF Push, SinkType, Releasing
  <2>2. SinkType'
    BY <1>0, <1>3, Zenon DEF Push, SinkType, SinkPlaces, Releasing
  <2>3. Append(out, sfr[c]) \in Seq(Frame)
    BY <1>0, <2>1 DEF WayType
  <2> QED
    BY <1>0, <1>1, <1>3, <2>2, <2>3, Zenon DEF Push, SinkKeeps, WayType, MergeType, mergeVars
<1>4. CASE Report(c)
  <2>1. /\ Head(lane[c]) \in Frame /\ Head(lane[c]).id \in Ids
        /\ Delivered(c) \in [Callers -> Seq(Frame)]
    BY <1>4, DeliveredType, FrameType, Zenon DEF Report
  <2>2. PICK f \in Frame : f = Head(lane[c]) /\ f.id \in Ids
    BY <2>1, Zenon
  <2>3. PICK n \in 0..N :
          /\ n = IF counter[f.id] > 0 THEN counter[f.id] - 1 ELSE 0
          /\ counter' = [counter EXCEPT ![f.id] = n]
    <3>1. counter[f.id] \in 0..N
      BY <1>0, <2>2, Zenon DEF MergeType
    <3>2. (IF counter[f.id] > 0 THEN counter[f.id] - 1 ELSE 0) \in 0..N
      BY <3>1, BranchesAssumption
    <3> QED
      BY <1>4, <2>2, <3>2, Zenon DEF Report
  <2>4. MergeType'
    <3>1. UNCHANGED <<seen, syncing, buffered>>
      BY <1>4, Zenon DEF Report
    <3> QED
      BY <1>0, <2>3, <3>1, Zenon DEF MergeType
  <2>5. SinkType'
    <3>1. CASE /\ \E p \in {"emit", "flush"} : spc' = [spc EXCEPT ![c] = p]
               /\ sfr' = [sfr EXCEPT ![c] = f]
      BY <1>0, <1>4, <3>1, Zenon DEF Report, SinkType, SinkPlaces, Releasing
    <3>2. CASE UNCHANGED <<spc, sfr>>
      BY <1>0, <1>4, <3>2, Zenon DEF Report, SinkType
    <3> QED
      BY <1>4, <2>2, <2>3, <3>1, <3>2, Zenon DEF Report
  <2> QED
    BY <1>0, <1>1, <1>4, <2>1, <2>4, <2>5, Zenon DEF Report, SinkKeeps, WayType
<1>5. CASE EmitSynchronized(c)
  <2>1. sfr[c] \in Frame /\ sfr[c].id \in Ids
    BY <1>0, <1>5, FrameType, Zenon DEF EmitSynchronized, SinkType, Releasing
  <2>2. SinkType'
    BY <1>0, <1>5, <2>1, Zenon DEF EmitSynchronized, SinkType, SinkPlaces, Releasing
  <2>3. out' \in Seq(Frame)
    BY <1>0, <1>5, <2>1 DEF EmitSynchronized, WayType
  <2>4. MergeType'
    BY <1>0, <1>5, <2>1, Zenon DEF EmitSynchronized, MergeType
  <2> QED
    BY <1>0, <1>1, <1>5, <2>2, <2>3, <2>4, Zenon DEF EmitSynchronized, SinkKeeps, WayType
<1>6. CASE FlushNext(c)
  <2>1. Head(buffered) \in Frame /\ Tail(buffered) \in Seq(Frame)
    BY <1>0, <1>6, TailType, Zenon DEF FlushNext, MergeType
  <2>2. SinkType'
    BY <1>0, <1>6, <2>1, Zenon DEF FlushNext, SinkType, SinkPlaces, Releasing
  <2>3. MergeType'
    BY <1>0, <1>6, <2>1, Zenon DEF FlushNext, MergeType
  <2> QED
    BY <1>0, <1>1, <1>6, <2>2, <2>3, Zenon DEF FlushNext, SinkKeeps, WayType
<1>7. CASE FlushPush(c)
  <2>1. popped[c] \in Frame
    BY <1>0, <1>7, Zenon DEF FlushPush, SinkType
  <2>2. SinkType'
    BY <1>0, <1>7, Zenon DEF FlushPush, SinkType, SinkPlaces, Releasing
  <2>3. Append(out, popped[c]) \in Seq(Frame)
    BY <1>0, <2>1 DEF WayType
  <2> QED
    BY <1>0, <1>1, <1>7, <2>2, <2>3, Zenon DEF FlushPush, SinkKeeps, WayType, MergeType, mergeVars
<1>8. CASE FlushDone(c)
  <2>1. SinkType'
    BY <1>0, <1>8, Zenon DEF FlushDone, SinkType, SinkPlaces, Releasing
  <2>2. MergeType'
    BY <1>0, <1>8, Zenon DEF FlushDone, MergeType
  <2> QED
    BY <1>0, <1>1, <1>8, <2>1, <2>2, Zenon DEF FlushDone, SinkKeeps, WayType
<1>9. CASE Resume(c)
  <2>1. SinkType'
    <3>1. CASE spc[c] = "resumeSystem"
      BY <1>0, <1>9, <3>1, Zenon DEF Resume, SinkType, SinkPlaces, Releasing
    <3>2. CASE spc[c] = "resumeFrames"
      BY <1>0, <1>9, <3>2, Zenon DEF Resume, SinkType, SinkPlaces, Releasing
    <3> QED
      BY <1>9, <3>1, <3>2, Zenon DEF Resume
  <2>2. GateType'
    BY <1>9, Zenon DEF Resume, Types, GateType
  <2> QED
    BY <1>9, <2>1, <2>2, Zenon DEF Resume, Types, OwnType, MergeType, WayType, ownVars, mergeVars
<1> QED
  BY <1>2, <1>3, <1>4, <1>5, <1>6, <1>7, <1>8, <1>9, Zenon DEF Sink

(* Every step keeps the types.                                             *)
LEMMA TypesNext == Types /\ [Next]_vars => Types'
<1> SUFFICES ASSUME Types, [Next]_vars PROVE Types'
  OBVIOUS
<1>1. CASE UNCHANGED vars
  BY <1>1, Zenon DEF vars, Types, OwnType, GateType, MergeType, SinkType, WayType,
              ownVars, gateVars, mergeVars, sinkVars
<1> QED
  BY <1>1, OwnTypes, ArrivalTypes, RaiseTypes, SinkTypes, Zenon DEF Next

(* The first state has them.                                               *)
LEMMA TypesInit == Init => Types
<1> SUFFICES ASSUME Init PROVE Types
  OBVIOUS
<1>1. OwnType
  BY ArrivalAssumption, BranchesAssumption DEF Init, OwnType, Places, Holding
<1>2. GateType
  BY Zenon DEF Init, GateType
<1>3. MergeType
  <2>1. seen = {} /\ syncing \in BOOLEAN /\ buffered = <<>>
    BY Zenon DEF Init
  <2>2. counter \in [Ids -> 0..N]
    BY BranchesAssumption DEF Init
  <2> QED
    BY <2>1, <2>2 DEF MergeType
<1>4. SinkType
  <2>1. /\ spc = [c \in Callers |-> "idle"] /\ sfr = [c \in Callers |-> NoFrame]
        /\ popped = [c \in Callers |-> NoFrame]
    BY Zenon DEF Init
  <2> QED
    BY <2>1, Zenon DEF SinkType, SinkPlaces, Releasing
<1>5. WayType
  BY BoundsAssumption DEF Init, WayType
<1> QED
  BY <1>1, <1>2, <1>3, <1>4, <1>5, Zenon DEF Types

-----------------------------------------------------------------------------
(* A frame escapes once.                                                   *)

Distinct(q) == \A i, j \in 1..Len(q) : q[i].id = q[j].id => i = j
IdsOf(q) == {q[i].id : i \in 1..Len(q)}

\* What a sink call that has given back the lock is about to push.
Pushing(c) ==
    IF spc[c] = "push" THEN {sfr[c].id}
    ELSE IF spc[c] = "flushPush" THEN {popped[c].id} ELSE {}

\* A frame that was seen has escaped, or is buffered, or is about to be pushed by
\* one sink call.
OnceInv ==
    /\ Distinct(out) /\ Distinct(buffered)
    /\ IdsOf(out) \subseteq seen /\ IdsOf(buffered) \subseteq seen \ IdsOf(out)
    /\ \A c \in Callers :
         Pushing(c) \subseteq (seen \ IdsOf(out)) \ IdsOf(buffered)
    /\ \A c, d \in Callers : c # d => Pushing(c) \cap Pushing(d) = {}

(* The ids in a queue with one more frame.                                 *)
LEMMA AppendIds ==
  ASSUME NEW q \in Seq(Frame), NEW f \in Frame
  PROVE  /\ IdsOf(Append(q, f)) = IdsOf(q) \cup {f.id}
         /\ Distinct(q) /\ f.id \notin IdsOf(q) => Distinct(Append(q, f))
<1>1. /\ Len(Append(q, f)) = Len(q) + 1 /\ Append(q, f)[Len(q) + 1] = f
      /\ \A i \in 1..Len(q) : Append(q, f)[i] = q[i]
      /\ Len(q) \in Nat
  OBVIOUS
<1>2. IdsOf(Append(q, f)) = IdsOf(q) \cup {f.id}
  BY <1>1 DEF IdsOf
<1>3. ASSUME Distinct(q), f.id \notin IdsOf(q),
             NEW i \in 1..Len(Append(q, f)), NEW j \in 1..Len(Append(q, f)),
             Append(q, f)[i].id = Append(q, f)[j].id
      PROVE  i = j
  <2>1. CASE i \in 1..Len(q) /\ j \in 1..Len(q)
    BY <1>1, <1>3, <2>1, Zenon DEF Distinct
  <2>2. CASE i = Len(q) + 1 /\ j \in 1..Len(q)
    BY <1>1, <1>3, <2>2, Zenon DEF IdsOf
  <2>3. CASE j = Len(q) + 1 /\ i \in 1..Len(q)
    BY <1>1, <1>3, <2>3, Zenon DEF IdsOf
  <2> QED
    BY <1>1, <2>1, <2>2, <2>3
<1> QED
  BY <1>2, <1>3, Zenon DEF Distinct

(* The ids in a queue without its first frame.                             *)
LEMMA TailIds ==
  ASSUME NEW q \in Seq(Frame), q # <<>>
  PROVE  /\ IdsOf(q) = IdsOf(Tail(q)) \cup {Head(q).id}
         /\ Distinct(q) => Distinct(Tail(q)) /\ Head(q).id \notin IdsOf(Tail(q))
<1>1. /\ Len(q) \in Nat \ {0} /\ Len(Tail(q)) = Len(q) - 1 /\ Head(q) = q[1]
      /\ \A i \in 1..Len(Tail(q)) : Tail(q)[i] = q[i + 1]
  OBVIOUS
<1>2. ASSUME NEW i \in 1..Len(Tail(q)) PROVE i + 1 \in 1..Len(q) /\ i + 1 # 1
  BY <1>1
<1>3. ASSUME NEW i \in 1..Len(q), i # 1
      PROVE  i - 1 \in 1..Len(Tail(q)) /\ Tail(q)[i - 1] = q[i]
  BY <1>1, <1>3
<1>4. IdsOf(q) = IdsOf(Tail(q)) \cup {Head(q).id}
  <2>1. ASSUME NEW x \in IdsOf(q) PROVE x \in IdsOf(Tail(q)) \cup {Head(q).id}
    <3>1. PICK i \in 1..Len(q) : x = q[i].id
      BY <2>1, Zenon DEF IdsOf
    <3> QED
      BY <1>1, <1>3, <3>1, Zenon DEF IdsOf
  <2>2. ASSUME NEW x \in IdsOf(Tail(q)) \cup {Head(q).id} PROVE x \in IdsOf(q)
    BY <1>1, <1>2 DEF IdsOf
  <2> QED
    BY <2>1, <2>2, Zenon
<1>5. ASSUME Distinct(q) PROVE Distinct(Tail(q))
  <2> SUFFICES ASSUME NEW i \in 1..Len(Tail(q)), NEW j \in 1..Len(Tail(q)),
                      Tail(q)[i].id = Tail(q)[j].id
               PROVE  i = j
    BY Zenon DEF Distinct
  <2>1. i + 1 = j + 1
    BY <1>1, <1>2, <1>5 DEF Distinct
  <2> QED
    BY <2>1
<1>6. ASSUME Distinct(q), NEW i \in 1..Len(Tail(q)) PROVE Tail(q)[i].id # Head(q).id
  BY <1>1, <1>2, <1>6 DEF Distinct
<1> QED
  BY <1>4, <1>5, <1>6, Zenon DEF IdsOf

(* A step that moves no frame that has been seen.                          *)
LEMMA OnceFrame ==
  ASSUME OnceInv, UNCHANGED <<out, buffered, seen>>, \A c \in Callers : Pushing(c)' = Pushing(c)
  PROVE  OnceInv'
BY Zenon DEF OnceInv

(* The sinks keep every frame they have seen in one place.                 *)
LEMMA OnceSink ==
  ASSUME Types, OnceInv, NEW c \in Callers, Sink(c)
  PROVE  OnceInv'
<1>0. /\ out \in Seq(Frame) /\ buffered \in Seq(Frame)
      /\ spc \in [Callers -> SinkPlaces] /\ sfr \in [Callers -> Frame \cup {NoFrame}]
      /\ popped \in [Callers -> Frame \cup {NoFrame}]
  BY Zenon DEF Types, MergeType, SinkType, WayType
<1>1. ASSUME NEW p \in SinkPlaces, spc' = [spc EXCEPT ![c] = p],
             \A d \in Callers \ {c} : sfr'[d] = sfr[d] /\ popped'[d] = popped[d]
      PROVE  spc'[c] = p /\ \A d \in Callers \ {c} : Pushing(d)' = Pushing(d)
  BY <1>0, <1>1, Zenon DEF Pushing
<1>2. CASE Emit(c)
  <2>1. PICK f \in Frame : f = Head(lane[c])
    BY <1>2, DeliveredType, Zenon DEF Emit
  <2>2. CASE f.id \in seen
    <3>1. UNCHANGED <<out, buffered, spc, sfr, popped>> /\ seen' = seen
      BY <1>2, <2>1, <2>2, Zenon DEF Emit
    <3> QED
      BY <3>1, OnceFrame, Zenon DEF Pushing
  <2>3. CASE f.id \notin seen /\ syncing
    <3>1. /\ UNCHANGED <<out, spc, sfr, popped>> /\ seen' = seen \cup {f.id}
          /\ buffered' = Append(buffered, f)
      BY <1>2, <2>1, <2>3, Zenon DEF Emit
    <3>2. f.id \notin IdsOf(buffered)
      BY <2>3, Zenon DEF OnceInv
    <3>3. IdsOf(buffered') = IdsOf(buffered) \cup {f.id} /\ Distinct(buffered')
      <4>1. buffered \in Seq(Frame) /\ Distinct(buffered)
        BY <1>0, Zenon DEF OnceInv
      <4> QED
        BY <3>1, <3>2, <4>1, AppendIds, Zenon
    <3>4. \A d \in Callers : Pushing(d)' = Pushing(d)
      BY <3>1, Zenon DEF Pushing
    <3> QED
      BY <2>3, <3>1, <3>3, <3>4, Zenon DEF OnceInv
  <2>4. CASE f.id \notin seen /\ ~syncing
    <3>1. /\ UNCHANGED <<out, buffered, popped>> /\ seen' = seen \cup {f.id}
          /\ spc' = [spc EXCEPT ![c] = "push"] /\ sfr' = [sfr EXCEPT ![c] = f]
      BY <1>2, <2>1, <2>4, Zenon DEF Emit
    <3>2. Pushing(c)' = {f.id} /\ \A d \in Callers \ {c} : Pushing(d)' = Pushing(d)
      BY <1>0, <1>1, <3>1, Zenon DEF Pushing, SinkPlaces
    <3> QED
      BY <2>4, <3>1, <3>2 DEF OnceInv
  <2> QED
    BY <2>2, <2>3, <2>4, Zenon
<1>3. CASE Push(c)
  <2>1. PICK f \in Frame : f = sfr[c]
    BY <1>3, Zenon DEF Push, Types, SinkType, Releasing
  <2>2. /\ UNCHANGED <<buffered, seen, popped>> /\ out' = Append(out, f)
        /\ spc' = [spc EXCEPT ![c] = "idle"] /\ spc[c] = "push"
        /\ \A d \in Callers \ {c} : sfr'[d] = sfr[d]
    BY <1>0, <1>3, <2>1, Zenon DEF Push, mergeVars
  <2>3. Pushing(c)' = {} /\ \A d \in Callers \ {c} : Pushing(d)' = Pushing(d)
    BY <1>1, <2>2, Zenon DEF Pushing, SinkPlaces
  <2>4. Pushing(c) = {f.id}
    BY <2>1, <2>2, Zenon DEF Pushing
  <2>5. f.id \in seen /\ f.id \notin IdsOf(out) /\ f.id \notin IdsOf(buffered)
    BY <2>4, Zenon DEF OnceInv
  <2>6. IdsOf(out') = IdsOf(out) \cup {f.id} /\ Distinct(out')
    BY <1>0, <2>2, <2>5, AppendIds, Zenon DEF OnceInv
  <2> QED
    BY <2>2, <2>3, <2>4, <2>5, <2>6 DEF OnceInv
<1>4. CASE Report(c) \/ FlushDone(c) \/ Resume(c)
  <2>1. UNCHANGED <<out, buffered, seen, popped>>
    BY <1>4, Zenon DEF Report, FlushDone, Resume, mergeVars
  <2>2. /\ spc[c] \notin {"push", "flushPush"} /\ spc'[c] \notin {"push", "flushPush"}
        /\ \A d \in Callers \ {c} : spc'[d] = spc[d] /\ sfr'[d] = sfr[d]
    BY <1>0, <1>4, Zenon DEF Report, MayDeliver, FlushDone, Resume
  <2>3. \A d \in Callers : Pushing(d)' = Pushing(d)
    BY <2>1, <2>2, Zenon DEF Pushing
  <2> QED
    BY <2>1, <2>3, OnceFrame, Zenon
<1>5. CASE EmitSynchronized(c)
  <2>1. PICK f \in Frame : f = sfr[c]
    BY <1>5, Zenon DEF EmitSynchronized, Types, SinkType, Releasing
  <2>2. UNCHANGED <<buffered, sfr, popped>> /\ seen' = seen \cup {f.id}
    BY <1>5, <2>1, Zenon DEF EmitSynchronized
  <2>3. /\ spc[c] = "emit" /\ spc'[c] \notin {"push", "flushPush"}
        /\ \A d \in Callers \ {c} : spc'[d] = spc[d]
    BY <1>0, <1>5, Zenon DEF EmitSynchronized
  <2>4. \A d \in Callers : Pushing(d)' = Pushing(d)
    BY <2>2, <2>3, Zenon DEF Pushing
  <2>5. CASE f.id \in seen
    <3>1. UNCHANGED <<out, seen>>
      BY <1>5, <2>1, <2>2, <2>5, Zenon DEF EmitSynchronized
    <3> QED
      BY <2>2, <2>4, <3>1, OnceFrame, Zenon
  <2>6. CASE f.id \notin seen
    <3>1. out' = Append(out, f)
      BY <1>5, <2>1, <2>6, Zenon DEF EmitSynchronized
    <3>2. f.id \notin IdsOf(out) /\ f.id \notin IdsOf(buffered)
      BY <2>6, Zenon DEF OnceInv
    <3>3. IdsOf(out') = IdsOf(out) \cup {f.id} /\ Distinct(out')
      <4>1. out \in Seq(Frame) /\ Distinct(out)
        BY <1>0, Zenon DEF OnceInv
      <4> QED
        BY <3>1, <3>2, <4>1, AppendIds, Zenon
    <3> QED
      BY <2>2, <2>4, <2>6, <3>2, <3>3, Zenon DEF OnceInv
  <2> QED
    BY <2>5, <2>6, Zenon
<1>6. CASE FlushNext(c)
  <2>1. PICK f \in Frame : f = Head(buffered)
    BY <1>0, <1>6, TailType, Zenon DEF FlushNext
  <2>2. /\ UNCHANGED <<out, seen, sfr>> /\ buffered' = Tail(buffered) /\ buffered # <<>>
        /\ spc' = [spc EXCEPT ![c] = "flushPush"] /\ popped' = [popped EXCEPT ![c] = f]
    BY <1>6, <2>1, Zenon DEF FlushNext
  <2>3. Pushing(c)' = {f.id} /\ \A d \in Callers \ {c} : Pushing(d)' = Pushing(d)
    BY <1>0, <1>1, <2>2, Zenon DEF Pushing, SinkPlaces
  <2>4. /\ IdsOf(buffered) = IdsOf(buffered') \cup {f.id} /\ Distinct(buffered')
        /\ f.id \notin IdsOf(buffered')
    BY <1>0, <2>1, <2>2, TailIds, Zenon DEF OnceInv
  <2>5. \A d \in Callers \ {c} : f.id \notin Pushing(d)
    BY <2>4, Zenon DEF OnceInv
  <2> QED
    BY <2>2, <2>3, <2>4, <2>5 DEF OnceInv
<1>7. CASE FlushPush(c)
  <2>1. PICK f \in Frame : f = popped[c]
    BY <1>7, Zenon DEF FlushPush, Types, SinkType
  <2>2. /\ UNCHANGED <<buffered, seen, sfr>> /\ out' = Append(out, f)
        /\ spc' = [spc EXCEPT ![c] = "flush"] /\ spc[c] = "flushPush"
        /\ \A d \in Callers \ {c} : popped'[d] = popped[d]
    BY <1>0, <1>7, <2>1, Zenon DEF FlushPush, mergeVars
  <2>3. Pushing(c)' = {} /\ \A d \in Callers \ {c} : Pushing(d)' = Pushing(d)
    BY <1>1, <2>2, Zenon DEF Pushing, SinkPlaces
  <2>4. Pushing(c) = {f.id}
    BY <2>1, <2>2, Zenon DEF Pushing
  <2>5. f.id \in seen /\ f.id \notin IdsOf(out) /\ f.id \notin IdsOf(buffered)
    BY <2>4, Zenon DEF OnceInv
  <2>6. IdsOf(out') = IdsOf(out) \cup {f.id} /\ Distinct(out')
    BY <1>0, <2>2, <2>5, AppendIds, Zenon DEF OnceInv
  <2> QED
    BY <2>2, <2>3, <2>4, <2>5, <2>6 DEF OnceInv
<1> QED
  BY <1>2, <1>3, <1>4, <1>5, <1>6, <1>7, Zenon DEF Sink

(* Every step does.                                                        *)
LEMMA OnceNext == Types /\ OnceInv /\ [Next]_vars => OnceInv'
<1> SUFFICES ASSUME Types, OnceInv, [Next]_vars PROVE OnceInv'
  OBVIOUS
<1>1. ASSUME UNCHANGED <<mergeVars, sinkVars, out>> PROVE OnceInv'
  BY <1>1, OnceFrame, Zenon DEF mergeVars, sinkVars, Pushing
<1>2. ASSUME NEW g \in Gates, Own(g) PROVE OnceInv'
  <2>1. UNCHANGED <<seen, buffered, sinkVars, out>>
    BY <1>2, Zenon DEF Own, Take, Wake, Unblock, Arm, PauseProcessing, HandleOther, Fan, mergeVars
  <2> QED
    BY <2>1, OnceFrame, Zenon DEF sinkVars, Pushing
<1>3. CASE UNCHANGED vars
  BY <1>1, <1>3, Zenon DEF vars
<1>4. ASSUME NEW k \in Kinds, QueueFrame(k) PROVE OnceInv'
  BY <1>1, <1>4, Zenon DEF QueueFrame
<1>5. CASE Forward \/ StopProcessing
  BY <1>1, <1>5, Zenon DEF Forward, StopProcessing
<1>6. ASSUME NEW b \in Branches, NEW k \in Kinds, Raise(b, k) PROVE OnceInv'
  BY <1>1, <1>6, Zenon DEF Raise
<1> QED
  BY <1>2, <1>3, <1>4, <1>5, <1>6, OnceSink, Zenon DEF Next

(* ParallelPipeline: "a frame that more than one branch forwards unchanged *)
(* escapes only once", whatever is buffered, flushed and pushed meanwhile. *)
THEOREM FramesEscapeOnce == Spec => []EscapesOnce
<1>1. Init => OnceInv
  <2> SUFFICES ASSUME Init PROVE OnceInv
    OBVIOUS
  <2>1. out = <<>> /\ buffered = <<>> /\ \A c \in Callers : Pushing(c) = {}
    BY Zenon DEF Init, Pushing
  <2>2. IdsOf(<<>>) = {} /\ Distinct(<<>>)
    BY DEF IdsOf, Distinct
  <2> QED
    BY <2>1, <2>2, Zenon DEF OnceInv
<1>2. OnceInv => EscapesOnce
  BY Zenon DEF OnceInv, EscapesOnce, Distinct
<1> QED
  BY <1>1, <1>2, TypesInit, TypesNext, OnceNext, PTL DEF Spec

-----------------------------------------------------------------------------
(* Queues.                                                                 *)

(* The frames of a queue with one more at its end ...                      *)
LEMMA AppendSet ==
  ASSUME NEW q \in Seq(Frame), NEW f \in Frame
  PROVE  /\ Append(q, f) \in Seq(Frame) /\ Append(q, f) # <<>>
         /\ ToSet(Append(q, f)) = ToSet(q) \cup {f}
         /\ Once(q) /\ f \notin ToSet(q) => Once(Append(q, f))
         /\ q # <<>> => Head(Append(q, f)) = Head(q) /\ Append(q, f)[1] = q[1]
         /\ q = <<>> => Head(Append(q, f)) = f /\ Append(q, f)[1] = f
<1>1. /\ Len(Append(q, f)) = Len(q) + 1 /\ Append(q, f)[Len(q) + 1] = f
      /\ \A i \in 1..Len(q) : Append(q, f)[i] = q[i]
      /\ Len(q) \in Nat /\ Append(q, f) \in Seq(Frame)
      /\ Head(Append(q, f)) = Append(q, f)[1]
  OBVIOUS
<1>2. ToSet(Append(q, f)) = ToSet(q) \cup {f}
  BY <1>1 DEF ToSet
<1>3. ASSUME Once(q), f \notin ToSet(q), NEW i \in 1..(Len(q) + 1), NEW j \in 1..(Len(q) + 1),
             Append(q, f)[i] = Append(q, f)[j]
      PROVE  i = j
  <2>1. CASE i \in 1..Len(q) /\ j \in 1..Len(q)
    BY <1>1, <1>3, <2>1, Zenon DEF Once
  <2>2. CASE i = Len(q) + 1 /\ j \in 1..Len(q)
    BY <1>1, <1>3, <2>2, Zenon DEF ToSet
  <2>3. CASE j = Len(q) + 1 /\ i \in 1..Len(q)
    BY <1>1, <1>3, <2>3, Zenon DEF ToSet
  <2> QED
    BY <1>1, <2>1, <2>2, <2>3
<1>4. Once(q) /\ f \notin ToSet(q) => Once(Append(q, f))
  BY <1>1, <1>3, Zenon DEF Once
<1>5. Append(q, f) # <<>>
  BY <1>1
<1>6. q # <<>> => Head(Append(q, f)) = Head(q) /\ Append(q, f)[1] = q[1]
  BY <1>1
<1> QED
  BY <1>1, <1>2, <1>4, <1>5, <1>6

(* ... without its first ...                                               *)
LEMMA TailSet ==
  ASSUME NEW q \in Seq(Frame), q # <<>>
  PROVE  /\ ToSet(q) = ToSet(Tail(q)) \cup {Head(q)}
         /\ Once(q) => Once(Tail(q)) /\ Head(q) \notin ToSet(Tail(q))
<1>1. /\ Len(q) \in Nat \ {0} /\ Len(Tail(q)) = Len(q) - 1 /\ Head(q) = q[1]
      /\ \A i \in 1..Len(Tail(q)) : Tail(q)[i] = q[i + 1]
  OBVIOUS
<1>2. ASSUME NEW i \in 1..Len(Tail(q)) PROVE i + 1 \in 1..Len(q) /\ i + 1 # 1
  BY <1>1
<1>3. ASSUME NEW i \in 1..Len(q), i # 1
      PROVE  i - 1 \in 1..Len(Tail(q)) /\ Tail(q)[i - 1] = q[i]
  BY <1>1, <1>3
<1>4. ToSet(q) \subseteq ToSet(Tail(q)) \cup {Head(q)}
  BY <1>1, <1>3 DEF ToSet
<1>5. ToSet(Tail(q)) \cup {Head(q)} \subseteq ToSet(q)
  BY <1>1, <1>2 DEF ToSet
<1>6. ASSUME Once(q), NEW i \in 1..Len(Tail(q)), NEW j \in 1..Len(Tail(q)),
             Tail(q)[i] = Tail(q)[j]
      PROVE  i = j
  <2>1. i + 1 = j + 1
    BY <1>1, <1>2, <1>6, Zenon DEF Once
  <2> QED
    BY <2>1
<1>7. ASSUME Once(q), NEW i \in 1..Len(Tail(q)) PROVE Tail(q)[i] # Head(q)
  BY <1>1, <1>2, <1>7 DEF Once
<1> QED
  BY <1>4, <1>5, <1>6, <1>7, Zenon DEF ToSet, Once

(* ... and with one more in its middle.                                    *)
LEMMA InsertPlaces ==
  ASSUME NEW q \in Seq(Frame), NEW f \in Frame, NEW i \in 1..(Len(q) + 1)
  PROVE  /\ Len(InsertAt(q, i, f)) = Len(q) + 1
         /\ \A k \in 1..(Len(q) + 1) :
              InsertAt(q, i, f)[k] = IF k < i THEN q[k] ELSE IF k = i THEN f ELSE q[k - 1]
<1> DEFINE a == SubSeq(q, 1, i - 1)
           z == SubSeq(q, i, Len(q))
<1>1. /\ a \in Seq(Frame) /\ z \in Seq(Frame) /\ Len(q) \in Nat
      /\ Len(a) = i - 1 /\ Len(z) = Len(q) - i + 1
      /\ \A k \in 1..(i - 1) : a[k] = q[k]
      /\ \A k \in 1..(Len(q) - i + 1) : z[k] = q[i + k - 1]
  <2>1. \A k \in 1..(i - 1) : q[k] \in Frame
    OBVIOUS
  <2>2. \A k \in i..Len(q) : q[k] \in Frame
    OBVIOUS
  <2> QED
    BY <2>1, <2>2
<1>2. PICK m \in Seq(Frame) : m = <<f>> /\ Len(m) = 1 /\ m[1] = f
  <2>1. <<f>> \in Seq(Frame) /\ Len(<<f>>) = 1 /\ <<f>>[1] = f
    OBVIOUS
  <2> QED
    BY <2>1, Zenon
<1>3. PICK am : /\ am = a \o m /\ am \in Seq(Frame) /\ Len(am) = i
                /\ \A k \in 1..i : am[k] = IF k < i THEN q[k] ELSE f
  <2>1. a \o m \in Seq(Frame) /\ Len(a \o m) = i
    BY <1>1, <1>2
  <2>2. \A k \in 1..i : (a \o m)[k] = IF k < i THEN q[k] ELSE f
    BY <1>1, <1>2
  <2> QED
    BY <2>1, <2>2, Zenon
<1>4. InsertAt(q, i, f) = am \o z
  BY <1>2, <1>3, Zenon DEF InsertAt
<1> HIDE DEF a, z
<1>5. Len(am \o z) = Len(q) + 1
  <2>0. am \in Seq(Frame) /\ z \in Seq(Frame)
    BY <1>1, <1>3, Zenon
  <2>1. Len(am \o z) = Len(am) + Len(z)
    BY <2>0
  <2> QED
    BY <1>1, <1>3, <2>1
<1>6. ASSUME NEW k \in 1..(Len(q) + 1)
      PROVE  (am \o z)[k] = IF k < i THEN q[k] ELSE IF k = i THEN f ELSE q[k - 1]
  <2>1. CASE k <= i
    BY <1>1, <1>3, <2>1
  <2>2. CASE k > i
    <3>1. k - i \in 1..(Len(q) - i + 1) /\ i + (k - i) - 1 = k - 1 /\ ~(k < i) /\ k # i
      BY <1>1, <2>2
    <3>2. (am \o z)[k] = z[k - i]
      BY <1>1, <1>3, <2>2
    <3>3. z[k - i] = q[i + (k - i) - 1]
      BY <1>1, <3>1, Zenon
    <3> QED
      BY <3>1, <3>2, <3>3, Zenon
  <2>3. k <= i \/ k > i
    OBVIOUS
  <2> QED
    BY <2>1, <2>2, <2>3, Zenon
<1> QED
  BY <1>4, <1>5, <1>6, Zenon

(* Nothing else is put in with it.                                         *)
LEMMA InsertSet ==
  ASSUME NEW q \in Seq(Frame), NEW f \in Frame, NEW i \in 1..(Len(q) + 1)
  PROVE  ToSet(InsertAt(q, i, f)) = ToSet(q) \cup {f}
<1> DEFINE r == InsertAt(q, i, f)
<1>1. /\ Len(r) = Len(q) + 1 /\ Len(q) \in Nat
      /\ \A k \in 1..(Len(q) + 1) : r[k] = IF k < i THEN q[k] ELSE IF k = i THEN f ELSE q[k - 1]
  BY InsertPlaces
<1> HIDE DEF r
<1>2. ASSUME NEW k \in 1..Len(r) PROVE r[k] \in ToSet(q) \cup {f}
  BY <1>1 DEF ToSet
<1>3. f = r[i] /\ i \in 1..Len(r)
  BY <1>1
<1>4. ASSUME NEW k \in 1..Len(q) PROVE \E j \in 1..Len(r) : r[j] = q[k]
  <2>1. CASE k < i
    BY <1>1, <2>1
  <2>2. CASE k >= i
    <3>1. k + 1 \in 1..Len(r) /\ r[k + 1] = q[k]
      BY <1>1, <2>2
    <3> QED
      BY <3>1, Zenon
  <2> QED
    BY <2>1, <2>2
<1>5. ToSet(r) = ToSet(q) \cup {f}
  BY <1>2, <1>3, <1>4, ZenonT(30) DEF ToSet
<1> QED
  BY <1>5, Zenon DEF r

(* A queue is empty when it holds no frame.                                *)
LEMMA EmptySet ==
  /\ ToSet(<<>>) = {} /\ <<>> \in Seq(Frame)
  /\ \A q \in Seq(Frame) : ToSet(q) = {} => q = <<>>
  /\ \A q \in Seq(Frame) : ToSet(q) \subseteq Frame
  /\ \A q \in Seq(Frame) : q # <<>> => Head(q) \in ToSet(q)
<1>1. ToSet(<<>>) = {} /\ <<>> \in Seq(Frame)
  BY DEF ToSet
<1>2. ASSUME NEW q \in Seq(Frame), ToSet(q) = {} PROVE q = <<>>
  BY <1>2 DEF ToSet
<1>3. ASSUME NEW q \in Seq(Frame) PROVE ToSet(q) \subseteq Frame
  BY DEF ToSet
<1>4. ASSUME NEW q \in Seq(Frame), q # <<>> PROVE Head(q) \in ToSet(q)
  <2>1. 1 \in 1..Len(q) /\ Head(q) = q[1]
    BY <1>4
  <2> QED
    BY <2>1, Zenon DEF ToSet
<1> QED
  BY <1>1, <1>2, <1>3, <1>4, Zenon

(* The goroutines that call a sink.                                        *)
LEMMA CallerParts ==
  /\ \A c \in Callers : c[1] \in Branches /\ c[2] \in Lanes /\ c = <<c[1], c[2]>>
  /\ \A b \in Branches, l \in Lanes :
       <<b, l>> \in Callers /\ <<b, l>>[1] = b /\ <<b, l>>[2] = l
  /\ Lanes = {"system", "frames", "own"} /\ Gates = {"system", "frames"}
BY DEF Callers, Lanes, Gates

-----------------------------------------------------------------------------
(* What the steps do.                                                      *)

(* A frame arrives.                                                        *)
LEMMA QueueStep ==
  ASSUME Types, NEW k \in Kinds, QueueFrame(k)
  PROVE  /\ UNCHANGED <<procq, pc, hand, next, gateVars, downstream>>
         /\ left[k] > 0 /\ (k # "start" => left["start"] = 0) /\ (k = "end" => left["data"] = 0)
         /\ left'[k] = left[k] - 1 /\ (\A j \in Kinds \ {k} : left'[j] = left[j])
         /\ ids' = ids + 1 /\ ids \in Nat
         /\ \E f \in Frame :
              /\ f.id = ids + 1 /\ f.kind = k
              /\ \/ pc["frames"] = "stopped" /\ inq' = inq
                 \/ /\ k \in SystemKinds
                    /\ inq'["system"] = Append(inq["system"], f) /\ inq'["frames"] = inq["frames"]
                 \/ /\ k \notin SystemKinds
                    /\ inq'["frames"] = Append(inq["frames"], f) /\ inq'["system"] = inq["system"]
<1>0. OwnType /\ "system" \in Gates /\ "frames" \in Gates
  BY Zenon DEF Types, Gates
<1>1. /\ UNCHANGED <<procq, pc, hand, next, gateVars, downstream>>
      /\ left[k] > 0 /\ (k # "start" => left["start"] = 0) /\ (k = "end" => left["data"] = 0)
      /\ ids' = ids + 1
  BY Zenon DEF QueueFrame, downstream
<1>2. left'[k] = left[k] - 1 /\ \A j \in Kinds \ {k} : left'[j] = left[j]
  BY <1>0, Zenon DEF QueueFrame, OwnType
<1>3. ids + 1 \in Ids /\ ids \in Nat
  BY <1>0, BoundsAssumption DEF QueueFrame, OwnType, Ids
<1>4. PICK f \in Frame : f = [id |-> ids + 1, kind |-> k] /\ f.id = ids + 1 /\ f.kind = k
  BY <1>3, FrameType, Zenon
<1>5. \/ pc["frames"] = "stopped" /\ inq' = inq
      \/ k \in SystemKinds /\ inq' = [inq EXCEPT !["system"] = Append(inq["system"], f)]
      \/ k \notin SystemKinds /\ inq' = [inq EXCEPT !["frames"] = Append(inq["frames"], f)]
  BY <1>4, Zenon DEF QueueFrame
<1>6. \/ pc["frames"] = "stopped" /\ inq' = inq
      \/ /\ k \in SystemKinds
         /\ inq'["system"] = Append(inq["system"], f) /\ inq'["frames"] = inq["frames"]
      \/ /\ k \notin SystemKinds
         /\ inq'["frames"] = Append(inq["frames"], f) /\ inq'["system"] = inq["system"]
  BY <1>0, <1>5, Zenon DEF OwnType
<1> QED
  BY <1>1, <1>2, <1>3, <1>4, <1>6, Zenon

(* The input goroutine takes a frame ...                                   *)
LEMMA TakeSystem ==
  ASSUME Types, Take("system")
  PROVE  /\ UNCHANGED <<left, ids, procq, next, gateVars, downstream>>
         /\ pc["system"] = "get" /\ pc'["system"] = (IF block["system"] THEN "wait" ELSE "handle")
         /\ pc'["frames"] = pc["frames"] /\ hand'["frames"] = hand["frames"]
         /\ \/ /\ inq["system"] # <<>> /\ hand'["system"] = Head(inq["system"])
               /\ inq'["system"] = Tail(inq["system"]) /\ inq'["frames"] = inq["frames"]
            \/ /\ inq["system"] = <<>> /\ inq["frames"] # <<>>
               /\ hand'["system"] = Head(inq["frames"])
               /\ inq'["frames"] = Tail(inq["frames"]) /\ inq'["system"] = inq["system"]
<1>0. OwnType /\ "system" \in Gates /\ "frames" \in Gates
  BY Zenon DEF Types, Gates
<1>1. /\ UNCHANGED <<left, ids, procq, next, gateVars, downstream>> /\ pc["system"] = "get"
      /\ pc' = [pc EXCEPT !["system"] = IF block["system"] THEN "wait" ELSE "handle"]
  BY Zenon DEF Take, downstream
<1>2. \/ /\ inq["system"] # <<>> /\ hand' = [hand EXCEPT !["system"] = Head(inq["system"])]
         /\ inq' = [inq EXCEPT !["system"] = Tail(inq["system"])]
      \/ /\ inq["system"] = <<>> /\ inq["frames"] # <<>>
         /\ hand' = [hand EXCEPT !["system"] = Head(inq["frames"])]
         /\ inq' = [inq EXCEPT !["frames"] = Tail(inq["frames"])]
  BY Zenon DEF Take
<1>3. hand'["frames"] = hand["frames"]
  BY <1>0, <1>2, Zenon DEF OwnType
<1>4. \/ /\ inq["system"] # <<>> /\ hand'["system"] = Head(inq["system"])
         /\ inq'["system"] = Tail(inq["system"]) /\ inq'["frames"] = inq["frames"]
      \/ /\ inq["system"] = <<>> /\ inq["frames"] # <<>>
         /\ hand'["system"] = Head(inq["frames"])
         /\ inq'["frames"] = Tail(inq["frames"]) /\ inq'["system"] = inq["system"]
  BY <1>0, <1>2, Zenon DEF OwnType
<1> QED
  BY <1>0, <1>1, <1>3, <1>4, Zenon DEF OwnType

(* ... and so does the process goroutine.                                  *)
LEMMA TakeFrames ==
  ASSUME Types, Take("frames")
  PROVE  /\ UNCHANGED <<left, ids, inq, next, gateVars, downstream>>
         /\ pc["frames"] = "get" /\ pc'["frames"] \in {"wait", "handle"}
         /\ pc'["system"] = pc["system"] /\ hand'["system"] = hand["system"]
         /\ procq # <<>> /\ procq' = Tail(procq) /\ hand'["frames"] = Head(procq)
<1>0. OwnType /\ "system" \in Gates /\ "frames" \in Gates
  BY Zenon DEF Types, Gates
<1>1. /\ UNCHANGED <<left, ids, inq, next, gateVars, downstream>> /\ pc["frames"] = "get"
      /\ pc' = [pc EXCEPT !["frames"] = IF block["frames"] THEN "wait" ELSE "handle"]
      /\ procq # <<>> /\ procq' = Tail(procq)
      /\ hand' = [hand EXCEPT !["frames"] = Head(procq)]
  BY Zenon DEF Take, downstream
<1> QED
  BY <1>0, <1>1, Zenon DEF OwnType

(* A goroutine that was paused goes on.                                    *)
LEMMA WakeStep ==
  ASSUME Types, NEW g \in Gates, Wake(g) \/ Unblock(g)
  PROVE  /\ UNCHANGED <<left, ids, inq, procq, hand, next, downstream>>
         /\ \A h \in Gates \ {g} : pc'[h] = pc[h] /\ block'[h] = block[h] /\ ev'[h] = ev[h]
         /\ \/ pc[g] = "wait" /\ ev[g] /\ pc'[g] = "woken" /\ UNCHANGED gateVars
            \/ pc[g] = "woken" /\ pc'[g] = "handle"
<1>0. OwnType /\ GateType
  BY Zenon DEF Types
<1>1. UNCHANGED <<left, ids, inq, procq, hand, next, downstream>>
  BY Zenon DEF Wake, Unblock, downstream
<1>2. CASE Wake(g)
  BY <1>0, <1>1, <1>2, Zenon DEF Wake, OwnType, gateVars
<1>3. CASE Unblock(g)
  BY <1>0, <1>1, <1>3, Zenon DEF Unblock, OwnType, GateType
<1> QED
  BY <1>2, <1>3, Zenon

(* The input goroutine hands a frame on.                                   *)
LEMMA ForwardStep ==
  ASSUME Types, Forward
  PROVE  /\ UNCHANGED <<left, ids, inq, next, gateVars, downstream>>
         /\ pc["system"] = "handle" /\ pc'["system"] = "get" /\ pc'["frames"] = pc["frames"]
         /\ hand["system"] \in Frame /\ hand["system"].kind \notin SystemKinds
         /\ hand'["system"] = NoFrame /\ hand'["frames"] = hand["frames"]
         /\ \/ pc["frames"] = "stopped" /\ procq' = procq
            \/ procq' = Append(procq, hand["system"])
<1>0. OwnType /\ "system" \in Gates /\ "frames" \in Gates
  BY Zenon DEF Types, Gates
<1>1. /\ UNCHANGED <<left, ids, inq, next, gateVars, downstream>> /\ pc["system"] = "handle"
      /\ pc' = [pc EXCEPT !["system"] = "get"] /\ hand["system"].kind \notin SystemKinds
      /\ hand' = [hand EXCEPT !["system"] = NoFrame]
      /\ \/ pc["frames"] = "stopped" /\ procq' = procq
         \/ procq' = Append(procq, hand["system"])
  BY Zenon DEF Forward, downstream
<1>2. hand["system"] \in Frame
  BY <1>0, <1>1, Zenon DEF OwnType, Holding
<1> QED
  BY <1>0, <1>1, <1>2, Zenon DEF OwnType

(* The process goroutine is stopped.                                       *)
LEMMA StopStep ==
  ASSUME Types, StopProcessing
  PROVE  /\ UNCHANGED <<left, ids, inq, next, gateVars, downstream>>
         /\ pc["system"] = "handle" /\ hand["system"].kind = "cancel"
         /\ pc["frames"] \in {"get", "wait", "woken"} /\ pc'["frames"] = "stopped"
         /\ pc'["system"] = pc["system"] /\ hand'["system"] = hand["system"]
         /\ procq' = <<>> /\ hand'["frames"] = NoFrame
<1>0. OwnType /\ "system" \in Gates /\ "frames" \in Gates
  BY Zenon DEF Types, Gates
<1> QED
  BY <1>0, Zenon DEF StopProcessing, OwnType, downstream

(* A lifecycle frame is armed ...                                          *)
LEMMA ArmStep ==
  ASSUME Types, NEW g \in Gates, Arm(g)
  PROVE  /\ UNCHANGED <<left, ids, inq, procq, hand, next, gateVars, seen, buffered, sinkVars,
                        lane, raised, out>>
         /\ pc[g] = "handle" /\ pc'[g] = "pauseSystem" /\ (\A h \in Gates \ {g} : pc'[h] = pc[h])
         /\ hand[g] \in Frame /\ hand[g].kind \in Lifecycle
         /\ (g = "system" => hand[g].kind \in SystemKinds)
         /\ (hand[g].kind = "cancel" => pc["frames"] = "stopped")
         /\ syncing' /\ counter'[hand[g].id] = N
         /\ \A i \in Ids \ {hand[g].id} : counter'[i] = counter[i]
<1>0. OwnType /\ MergeType
  BY Zenon DEF Types
<1>1. /\ UNCHANGED <<left, ids, inq, procq, hand, next, gateVars, seen, buffered, sinkVars,
                     lane, raised, out>>
      /\ pc[g] = "handle" /\ pc' = [pc EXCEPT ![g] = "pauseSystem"] /\ hand[g].kind \in Lifecycle
      /\ (g = "system" => hand[g].kind \in SystemKinds)
      /\ (hand[g].kind = "cancel" => pc["frames"] = "stopped")
      /\ syncing' /\ counter' = [counter EXCEPT ![hand[g].id] = N]
  BY Zenon DEF Arm, Handles
<1>2. hand[g] \in Frame /\ hand[g].id \in Ids
  BY <1>0, <1>1, FrameType, Zenon DEF OwnType, Holding
<1> QED
  BY <1>0, <1>1, <1>2, Zenon DEF OwnType, MergeType

(* ... and the goroutines paused.                                          *)
LEMMA PauseStep ==
  ASSUME Types, NEW g \in Gates, PauseProcessing(g)
  PROVE  /\ UNCHANGED <<left, ids, inq, procq, hand, downstream>>
         /\ \A h \in Gates \ {g} : pc'[h] = pc[h] /\ next'[h] = next[h]
         /\ hand[g] \in Frame
         /\ \/ /\ pc[g] = "pauseSystem" /\ pc'[g] = "pauseFrames" /\ UNCHANGED next
               /\ block'["system"] /\ ~ev'["system"]
            \/ /\ pc[g] = "pauseFrames" /\ pc'[g] = "fan" /\ next'[g] = 1
               /\ block'["system"] = block["system"] /\ ev'["system"] = ev["system"]
<1>0. OwnType /\ GateType /\ "system" \in Gates /\ "frames" \in Gates /\ "system" # "frames"
  BY Zenon DEF Types, Gates
<1>1. UNCHANGED <<left, ids, inq, procq, hand, downstream>>
  BY Zenon DEF PauseProcessing, downstream
<1>2. \/ /\ pc[g] = "pauseSystem" /\ Pause("system")
         /\ pc' = [pc EXCEPT ![g] = "pauseFrames"] /\ UNCHANGED next
      \/ /\ pc[g] = "pauseFrames" /\ Pause("frames")
         /\ pc' = [pc EXCEPT ![g] = "fan"] /\ next' = [next EXCEPT ![g] = 1]
  BY Zenon DEF PauseProcessing
<1>3. hand[g] \in Frame
  BY <1>0, <1>2, Zenon DEF OwnType, Holding
<1>4. \A h \in Gates \ {g} : pc'[h] = pc[h] /\ next'[h] = next[h]
  BY <1>0, <1>2, Zenon DEF OwnType
<1>5. CASE /\ pc[g] = "pauseSystem" /\ Pause("system")
           /\ pc' = [pc EXCEPT ![g] = "pauseFrames"] /\ UNCHANGED next
  BY <1>0, <1>1, <1>3, <1>4, <1>5, Zenon DEF OwnType, GateType, Pause
<1>6. CASE /\ pc[g] = "pauseFrames" /\ Pause("frames")
           /\ pc' = [pc EXCEPT ![g] = "fan"] /\ next' = [next EXCEPT ![g] = 1]
  BY <1>0, <1>1, <1>3, <1>4, <1>6, Zenon DEF OwnType, GateType, Pause
<1> QED
  BY <1>2, <1>5, <1>6, Zenon

(* Any other frame is on its way to the branches at once ...               *)
LEMMA OtherStep ==
  ASSUME Types, NEW g \in Gates, HandleOther(g)
  PROVE  /\ UNCHANGED <<left, ids, inq, procq, hand, gateVars, downstream>>
         /\ \A h \in Gates \ {g} : pc'[h] = pc[h] /\ next'[h] = next[h]
         /\ pc[g] = "handle" /\ pc'[g] = "fan" /\ next'[g] = 1
         /\ hand[g] \in Frame /\ hand[g].kind \notin Lifecycle
         /\ (g = "system" => hand[g].kind \in SystemKinds)
<1>0. OwnType
  BY Zenon DEF Types
<1>1. /\ UNCHANGED <<left, ids, inq, procq, hand, gateVars, downstream>>
      /\ pc[g] = "handle" /\ pc' = [pc EXCEPT ![g] = "fan"] /\ next' = [next EXCEPT ![g] = 1]
      /\ hand[g].kind \notin Lifecycle /\ (g = "system" => hand[g].kind \in SystemKinds)
  BY Zenon DEF HandleOther, Handles, downstream
<1>2. hand[g] \in Frame
  BY <1>0, <1>1, Zenon DEF OwnType, Holding
<1> QED
  BY <1>0, <1>1, <1>2, Zenon DEF OwnType

(* ... and is queued on them, one after the other.                         *)
LEMMA FanStep ==
  ASSUME Types, NEW g \in Gates, Fan(g)
  PROVE  /\ UNCHANGED <<left, ids, inq, procq, gateVars, mergeVars, sinkVars, raised, out>>
         /\ pc[g] = "fan" /\ hand[g] \in Frame /\ next[g] \in Branches
         /\ \A h \in Gates \ {g} : pc'[h] = pc[h] /\ next'[h] = next[h] /\ hand'[h] = hand[h]
         /\ lane'[<<next[g], g>>] = Append(lane[<<next[g], g>>], hand[g])
         /\ \A c \in Callers : c # <<next[g], g>> => lane'[c] = lane[c]
         /\ \/ pc'[g] = "fan" /\ next'[g] = next[g] + 1 /\ hand'[g] = hand[g]
            \/ pc'[g] = "get" /\ next[g] = N /\ hand'[g] = NoFrame
<1>0. OwnType /\ WayType
  BY Zenon DEF Types
<1>1. pc[g] = "fan" /\ hand[g] \in Frame /\ next[g] \in Branches /\ <<next[g], g>> \in Callers
  BY <1>0, Zenon DEF Fan, OwnType, Holding, Callers, Gates, Lanes
<1>2. /\ UNCHANGED <<left, ids, inq, procq, gateVars, mergeVars, sinkVars, raised, out>>
      /\ lane' = [lane EXCEPT ![<<next[g], g>>] = Append(lane[<<next[g], g>>], hand[g])]
  BY Zenon DEF Fan
<1>3. /\ lane'[<<next[g], g>>] = Append(lane[<<next[g], g>>], hand[g])
      /\ \A c \in Callers : c # <<next[g], g>> => lane'[c] = lane[c]
  BY <1>0, <1>1, <1>2, Zenon DEF WayType
<1>4. CASE next[g] < N
  <2>1. next' = [next EXCEPT ![g] = next[g] + 1] /\ UNCHANGED <<pc, hand>>
    BY <1>4, Zenon DEF Fan
  <2> QED
    BY <1>0, <1>1, <1>2, <1>3, <2>1, Zenon DEF OwnType
<1>5. CASE ~(next[g] < N)
  <2>1. /\ next' = [next EXCEPT ![g] = 0] /\ pc' = [pc EXCEPT ![g] = "get"]
        /\ hand' = [hand EXCEPT ![g] = NoFrame]
    BY <1>5, Zenon DEF Fan
  <2>2. next[g] = N
    BY <1>1, <1>5, BranchesAssumption DEF Branches
  <2> QED
    BY <1>0, <1>1, <1>2, <1>3, <2>1, <2>2, Zenon DEF OwnType
<1> QED
  BY <1>4, <1>5, Zenon

(* A processor in a branch pushes a frame of its own.                      *)
LEMMA RaiseStep ==
  ASSUME Types, NEW b \in Branches, NEW k \in Kinds, Raise(b, k)
  PROVE  /\ UNCHANGED <<ownVars, gateVars, mergeVars, sinkVars, out>>
         /\ ids' = ids + 1 /\ ids \in Nat /\ k \in {"data", "own", "ownEnd"}
         /\ raised' = Append(raised, k) /\ (k = "data" => BeforeEnd(b))
         /\ \E f \in Frame, c \in Callers :
              /\ f.id = ids + 1 /\ f.kind = k
              /\ (k = "data" => c = <<b, "frames">>) /\ (k # "data" => c = <<b, "own">>)
              /\ \E i \in 1..(Len(lane[c]) + 1) :
                   /\ lane'[c] = InsertAt(lane[c], i, f)
                   /\ k = "data" => \A j \in 1..(i - 1) : lane[c][j].kind # "end"
              /\ \A d \in Callers \ {c} : lane'[d] = lane[d]
<1>0. WayType /\ OwnType
  BY Zenon DEF Types
<1>1. /\ UNCHANGED <<ownVars, gateVars, mergeVars, sinkVars, out>> /\ ids' = ids + 1
      /\ k \in Raised /\ raised' = Append(raised, k) /\ ids < MaxIds /\ (k = "data" => BeforeEnd(b))
  BY Zenon DEF Raise
<1>2. ids + 1 \in Ids /\ ids \in Nat
  BY <1>0, <1>1, BoundsAssumption DEF OwnType, Ids
<1>3. k \in {"data", "own", "ownEnd"}
  BY <1>1, RaisedAssumption, Zenon
<1>4. PICK f \in Frame : f = [id |-> ids + 1, kind |-> k] /\ f.id = ids + 1 /\ f.kind = k
  BY <1>2, FrameType, Zenon
<1>5. PICK c \in Callers :
        /\ c = <<b, IF k = "data" THEN "frames" ELSE "own">>
        /\ (k = "data" => c = <<b, "frames">>) /\ (k # "data" => c = <<b, "own">>)
  <2>1. PICK l \in Lanes : l = IF k = "data" THEN "frames" ELSE "own"
    BY Zenon DEF Lanes
  <2> QED
    BY <2>1, CallerParts, Zenon
<1>6. PICK i \in 1..(Len(lane[c]) + 1) :
        /\ lane' = [lane EXCEPT ![c] = InsertAt(lane[c], i, f)]
        /\ k = "data" => \A j \in 1..(i - 1) : lane[c][j].kind # "end"
  BY <1>4, <1>5, Zenon DEF Raise
<1>7. lane'[c] = InsertAt(lane[c], i, f) /\ \A d \in Callers \ {c} : lane'[d] = lane[d]
  BY <1>0, <1>6, Zenon DEF WayType
<1>8. \E n \in 1..(Len(lane[c]) + 1) :
        /\ lane'[c] = InsertAt(lane[c], n, f)
        /\ k = "data" => \A j \in 1..(n - 1) : lane[c][j].kind # "end"
  BY <1>6, <1>7, Zenon
<1> QED
  BY <1>1, <1>2, <1>3, <1>4, <1>5, <1>7, <1>8, Zenon

-----------------------------------------------------------------------------
(* What the sink calls do.                                                 *)

(* What is left of the lanes when a branch delivers its next frame.        *)
LEMMA DeliverStep ==
  ASSUME Types, WayKinds, NEW c \in Callers, MayDeliver(c), lane' = Delivered(c)
  PROVE  /\ spc[c] = "idle" /\ lane[c] # <<>> /\ lane[c] \in Seq(Frame) /\ Front(c) \in Frame
         /\ Front(c) \in ToSet(lane[c]) /\ lane'[c] = Tail(lane[c])
         /\ (Front(c).kind = "cancel" => c[2] = "system" /\ spc[<<c[1], "frames">>] = "idle")
         /\ (Front(c).kind = "cancel" => lane'[<<c[1], "frames">>] = <<>>)
         /\ \A d \in Callers \ {c} :
              lane'[d] = lane[d] \/ (Front(c).kind = "cancel" /\ d = <<c[1], "frames">>)
<1>0. WayType /\ spc[c] = "idle" /\ lane[c] # <<>> /\ lane[c] \in Seq(Frame)
      /\ (Front(c).kind = "cancel" => spc[<<c[1], "frames">>] = "idle")
  BY Zenon DEF Types, WayType, MayDeliver, Front
<1>1. Front(c) \in ToSet(lane[c]) /\ Front(c) \in Frame
  BY <1>0, EmptySet, Zenon DEF Front
<1>2. Front(c).kind = "cancel" => c[2] = "system"
  BY <1>1, CallerParts, Zenon DEF WayKinds, LaneKinds, SystemKinds
<1>3. <<c[1], "frames">> \in Callers /\ (c[2] = "system" => <<c[1], "frames">> # c)
  BY CallerParts, ZenonT(30)
<1>4. CASE Front(c).kind = "cancel"
  <2>1. lane' = [lane EXCEPT ![c] = Tail(@), ![<<c[1], "frames">>] = <<>>]
    BY <1>4, Zenon DEF Delivered, Front
  <2> QED
    BY <1>0, <1>1, <1>2, <1>3, <1>4, <2>1, Zenon DEF WayType
<1>5. CASE Front(c).kind # "cancel"
  <2>1. lane' = [lane EXCEPT ![c] = Tail(@)]
    BY <1>5, Zenon DEF Delivered, Front
  <2> QED
    BY <1>0, <1>1, <1>5, <2>1, Zenon DEF WayType
<1> QED
  BY <1>4, <1>5, Zenon

(* It emits a frame ...                                                    *)
LEMMA EmitStep ==
  ASSUME Types, WayKinds, NEW c \in Callers, Emit(c)
  PROVE  /\ UNCHANGED <<others, counter, syncing, popped, out>>
         /\ MayDeliver(c) /\ lane[c] # <<>> /\ spc[c] = "idle" /\ lane[c] \in Seq(Frame)
         /\ lane'[c] = Tail(lane[c]) /\ \A d \in Callers \ {c} : lane'[d] = lane[d]
         /\ \A d \in Callers \ {c} : spc'[d] = spc[d] /\ sfr'[d] = sfr[d]
         /\ Front(c) \in Frame /\ Front(c) \in ToSet(lane[c]) /\ Front(c).kind \notin Lifecycle
         /\ seen' = seen \cup {Front(c).id}
         /\ \/ /\ syncing /\ buffered' = Append(buffered, Front(c))
               /\ spc'[c] = "idle" /\ sfr'[c] = sfr[c]
            \/ /\ ~syncing /\ buffered' = buffered /\ spc'[c] = "push" /\ sfr'[c] = Front(c)
            \/ /\ Front(c).id \in seen /\ buffered' = buffered
               /\ spc'[c] = "idle" /\ sfr'[c] = sfr[c]
<1>0. SinkType
  BY Zenon DEF Types
<1>1. /\ UNCHANGED <<others, counter, syncing, popped, out>> /\ Front(c).kind \notin Lifecycle
      /\ seen' = seen \cup {Front(c).id} /\ lane' = Delivered(c) /\ MayDeliver(c)
      /\ \/ syncing /\ buffered' = Append(buffered, Front(c)) /\ UNCHANGED <<spc, sfr>>
         \/ /\ ~syncing /\ buffered' = buffered
            /\ spc' = [spc EXCEPT ![c] = "push"] /\ sfr' = [sfr EXCEPT ![c] = Front(c)]
         \/ Front(c).id \in seen /\ buffered' = buffered /\ UNCHANGED <<spc, sfr>>
  BY Zenon DEF Emit, SinkKeeps, others, Front
<1>2. /\ spc[c] = "idle" /\ lane[c] # <<>> /\ lane[c] \in Seq(Frame) /\ Front(c) \in Frame
      /\ Front(c) \in ToSet(lane[c]) /\ lane'[c] = Tail(lane[c])
      /\ \A d \in Callers \ {c} :
           lane'[d] = lane[d] \/ (Front(c).kind = "cancel" /\ d = <<c[1], "frames">>)
  BY <1>1, DeliverStep, Zenon
<1>3. \A d \in Callers \ {c} : lane'[d] = lane[d]
  BY <1>1, <1>2, Zenon DEF Lifecycle
<1>4. \A d \in Callers \ {c} : spc'[d] = spc[d] /\ sfr'[d] = sfr[d]
  BY <1>0, <1>1, Zenon DEF SinkType
<1>5. \/ /\ syncing /\ buffered' = Append(buffered, Front(c))
         /\ spc'[c] = "idle" /\ sfr'[c] = sfr[c]
      \/ /\ ~syncing /\ buffered' = buffered /\ spc'[c] = "push" /\ sfr'[c] = Front(c)
      \/ Front(c).id \in seen /\ buffered' = buffered /\ spc'[c] = "idle" /\ sfr'[c] = sfr[c]
  BY <1>0, <1>1, <1>2, Zenon DEF SinkType
<1> QED
  BY <1>1, <1>2, <1>3, <1>4, <1>5, Zenon

(* ... which it then pushes, ...                                           *)
LEMMA PushStep ==
  ASSUME Types, NEW c \in Callers, Push(c)
  PROVE  /\ UNCHANGED <<others, mergeVars, lane, popped>>
         /\ spc[c] = "push" /\ sfr[c] \in Frame /\ out' = Append(out, sfr[c])
         /\ spc'[c] = "idle" /\ sfr'[c] = NoFrame
         /\ \A d \in Callers \ {c} : spc'[d] = spc[d] /\ sfr'[d] = sfr[d]
<1>0. SinkType
  BY Zenon DEF Types
<1>1. sfr[c] \in Frame
  BY <1>0, Zenon DEF Push, SinkType, Releasing
<1> QED
  BY <1>0, <1>1, Zenon DEF Push, SinkType, SinkKeeps, others

(* ... or reports a lifecycle frame: the lanes, ...                        *)
LEMMA ReportLanes ==
  ASSUME Types, WayKinds, NEW c \in Callers, Report(c)
  PROVE  /\ MayDeliver(c) /\ lane[c] # <<>> /\ spc[c] = "idle" /\ lane[c] \in Seq(Frame)
         /\ Front(c) \in Frame /\ Front(c) \in ToSet(lane[c]) /\ Front(c).kind \in Lifecycle
         /\ lane'[c] = Tail(lane[c])
         /\ \A d \in Callers \ {c} :
              lane'[d] = lane[d] \/ (Front(c).kind = "cancel" /\ d = <<c[1], "frames">>)
         /\ Front(c).kind = "cancel" =>
              c[2] = "system" /\ spc[<<c[1], "frames">>] = "idle" /\ lane'[<<c[1], "frames">>] = <<>>
<1>1. Front(c).kind \in Lifecycle /\ lane' = Delivered(c) /\ MayDeliver(c)
  BY Zenon DEF Report, Front
<1> QED
  BY <1>1, DeliverStep, Zenon

(* ... the other sink calls ...                                            *)
LEMMA ReportKeeps ==
  ASSUME Types, NEW c \in Callers, Report(c)
  PROVE  /\ UNCHANGED <<others, seen, syncing, buffered, popped, out>>
         /\ \A d \in Callers \ {c} : spc'[d] = spc[d] /\ sfr'[d] = sfr[d]
         /\ sfr'[c] = sfr[c] \/ sfr'[c] = Front(c)
<1>0. SinkType
  BY Zenon DEF Types
<1>1. /\ UNCHANGED <<others, seen, syncing, buffered, popped, out>>
      /\ \/ UNCHANGED <<spc, sfr>>
         \/ /\ sfr' = [sfr EXCEPT ![c] = Front(c)]
            /\ spc' = [spc EXCEPT ![c] = IF Front(c).kind = "start" THEN "emit" ELSE "flush"]
  BY Zenon DEF Report, SinkKeeps, others, Front
<1> QED
  BY <1>0, <1>1, Zenon DEF SinkType

(* ... and the counter.                                                    *)
LEMMA ReportStep ==
  ASSUME Types, WayKinds, NEW c \in Callers, Report(c)
  PROVE  /\ Front(c).id \in Ids
         /\ counter[Front(c).id] > 0 => counter'[Front(c).id] = counter[Front(c).id] - 1
         /\ ~(counter[Front(c).id] > 0) => counter'[Front(c).id] = 0
         /\ \A i \in Ids \ {Front(c).id} : counter'[i] = counter[i]
         /\ \/ counter'[Front(c).id] > 0 /\ spc'[c] = "idle" /\ sfr'[c] = sfr[c]
            \/ /\ counter'[Front(c).id] = 0 /\ sfr'[c] = Front(c)
               /\ Front(c).kind = "start" => spc'[c] = "emit"
               /\ Front(c).kind # "start" => spc'[c] = "flush"
<1> DEFINE n == IF counter[Front(c).id] > 0 THEN counter[Front(c).id] - 1 ELSE 0
<1>0. SinkType /\ MergeType
  BY Zenon DEF Types
<1>1. /\ counter' = [counter EXCEPT ![Front(c).id] = n]
      /\ \/ n > 0 /\ UNCHANGED <<spc, sfr>>
         \/ /\ ~(n > 0) /\ sfr' = [sfr EXCEPT ![c] = Front(c)]
            /\ spc' = [spc EXCEPT ![c] = IF Front(c).kind = "start" THEN "emit" ELSE "flush"]
  BY Zenon DEF Report, Front
<1>2. spc[c] = "idle" /\ Front(c) \in Frame
  BY ReportLanes, Zenon
<1>3. /\ counter[Front(c).id] > 0 => n = counter[Front(c).id] - 1
      /\ ~(counter[Front(c).id] > 0) => n = 0
  OBVIOUS
<1> HIDE DEF n
<1>4. Front(c).id \in Ids
  BY <1>2, FrameType, Zenon
<1>5. counter'[Front(c).id] = n /\ \A i \in Ids \ {Front(c).id} : counter'[i] = counter[i]
  BY <1>0, <1>1, <1>4, Zenon DEF MergeType
<1>6. n \in Nat
  BY <1>0, <1>3, <1>4, BranchesAssumption DEF MergeType
<1>7. ~(n > 0) => n = 0
  BY <1>6
<1>8. \/ n > 0 /\ spc'[c] = "idle" /\ sfr'[c] = sfr[c]
      \/ /\ n = 0 /\ sfr'[c] = Front(c)
         /\ Front(c).kind = "start" => spc'[c] = "emit"
         /\ Front(c).kind # "start" => spc'[c] = "flush"
  BY <1>0, <1>1, <1>2, <1>7, Zenon DEF SinkType
<1> QED
  BY <1>3, <1>4, <1>5, <1>8, Zenon

(* A released frame is emitted, ...                                        *)
LEMMA SynchronizedStep ==
  ASSUME Types, NEW c \in Callers, EmitSynchronized(c)
  PROVE  /\ UNCHANGED <<others, counter, syncing, buffered, lane, sfr, popped>>
         /\ spc[c] = "emit" /\ sfr[c] \in Frame /\ seen' = seen \cup {sfr[c].id}
         /\ \/ sfr[c].id \in seen /\ out' = out
            \/ sfr[c].id \notin seen /\ out' = Append(out, sfr[c])
         /\ spc'[c] = (IF sfr[c].kind = "start" THEN "flush" ELSE "resumeSystem")
         /\ \A d \in Callers \ {c} : spc'[d] = spc[d]
<1>0. SinkType
  BY Zenon DEF Types
<1>1. sfr[c] \in Frame
  BY <1>0, Zenon DEF EmitSynchronized, SinkType, Releasing
<1> QED
  BY <1>0, <1>1, Zenon DEF EmitSynchronized, SinkType, SinkKeeps, others

(* ... what is buffered flushed, ...                                       *)
LEMMA FlushNextStep ==
  ASSUME Types, NEW c \in Callers, FlushNext(c)
  PROVE  /\ UNCHANGED <<others, seen, counter, syncing, lane, sfr, out>>
         /\ spc[c] = "flush" /\ buffered # <<>> /\ buffered' = Tail(buffered)
         /\ popped'[c] = Head(buffered) /\ Head(buffered) \in ToSet(buffered)
         /\ spc'[c] = "flushPush" /\ sfr[c] \in Frame
         /\ \A d \in Callers \ {c} : spc'[d] = spc[d] /\ popped'[d] = popped[d]
<1>0. SinkType /\ MergeType
  BY Zenon DEF Types
<1>1. sfr[c] \in Frame
  BY <1>0, Zenon DEF FlushNext, SinkType, Releasing
<1>2. Head(buffered) \in ToSet(buffered)
  BY <1>0, EmptySet, Zenon DEF FlushNext, MergeType
<1> QED
  BY <1>0, <1>1, <1>2, Zenon DEF FlushNext, SinkType, SinkKeeps, others

\* The flush pushes the buffered frame it took ...
LEMMA FlushPushStep ==
  ASSUME Types, NEW c \in Callers, FlushPush(c)
  PROVE  /\ UNCHANGED <<others, mergeVars, lane, sfr>>
         /\ spc[c] = "flushPush" /\ popped[c] \in Frame /\ out' = Append(out, popped[c])
         /\ popped'[c] = NoFrame /\ spc'[c] = "flush" /\ sfr[c] \in Frame
         /\ \A d \in Callers \ {c} : spc'[d] = spc[d] /\ popped'[d] = popped[d]
<1>0. SinkType
  BY Zenon DEF Types
<1>1. sfr[c] \in Frame /\ popped[c] \in Frame
  BY <1>0, Zenon DEF FlushPush, SinkType, Releasing
<1> QED
  BY <1>0, <1>1, Zenon DEF FlushPush, SinkType, SinkKeeps, others

\* ... and ends when the buffer is empty.
LEMMA FlushDoneStep ==
  ASSUME Types, NEW c \in Callers, FlushDone(c)
  PROVE  /\ UNCHANGED <<others, seen, counter, buffered, lane, sfr, popped, out>>
         /\ spc[c] = "flush" /\ buffered = <<>> /\ sfr[c] \in Frame
         /\ spc'[c] = (IF sfr[c].kind = "start" THEN "resumeSystem" ELSE "emit")
         /\ \A d \in Callers \ {c} : spc'[d] = spc[d]
<1>0. SinkType
  BY Zenon DEF Types
<1>1. sfr[c] \in Frame
  BY <1>0, Zenon DEF FlushDone, SinkType, Releasing
<1> QED
  BY <1>0, <1>1, Zenon DEF FlushDone, SinkType, SinkKeeps, others

(* ... and the goroutines resumed.                                         *)
LEMMA ResumeStep ==
  ASSUME Types, SinkPlace, NEW c \in Callers, Resume(c)
  PROVE  /\ UNCHANGED <<ownVars, block, ids, raised, mergeVars, lane, popped, out>>
         /\ \A d \in Callers \ {c} : spc'[d] = spc[d] /\ sfr'[d] = sfr[d]
         /\ sfr[c] \in Frame
         /\ \/ /\ spc[c] = "resumeSystem" /\ spc'[c] = "resumeFrames" /\ sfr'[c] = sfr[c]
            \/ /\ spc[c] = "resumeFrames" /\ spc'[c] = "idle" /\ sfr'[c] = NoFrame
               /\ ev'["system"] = ev["system"]
<1>0. SinkType /\ GateType /\ "system" \in Gates /\ "frames" # "system"
  BY Zenon DEF Types, Gates
<1>1. sfr[c] \in Frame
  BY Zenon DEF Resume, SinkPlace
<1> QED
  BY <1>0, <1>1, Zenon DEF Resume, SinkType, GateType

-----------------------------------------------------------------------------
(* The data frames keep ahead of the EndFrame.                             *)

(* A queue that holds the EndFrame behind its data keeps it there.         *)
LEMMA EndEmpty == EndLast(<<>>) /\ ~HasEnd(<<>>)
BY EmptySet DEF EndLast, HasEnd

\* A queue without the EndFrame may be appended to,
LEMMA EndAppend ==
  ASSUME NEW q \in Seq(Frame), NEW h \in Frame
  PROVE  /\ HasEnd(Append(q, h)) <=> h.kind = "end" \/ HasEnd(q)
         /\ ~HasEnd(q) => EndLast(Append(q, h))
<1>1. HasEnd(Append(q, h)) <=> h.kind = "end" \/ HasEnd(q)
  <2>1. ToSet(Append(q, h)) = ToSet(q) \cup {h}
    BY AppendSet, Zenon
  <2> QED
    BY <2>1, Zenon DEF HasEnd
<1>2. ASSUME ~HasEnd(q) PROVE EndLast(Append(q, h))
  <2>1. SUFFICES ASSUME NEW i \in 1..Len(Append(q, h)), NEW j \in 1..Len(Append(q, h)),
                        Append(q, h)[i].kind = "end"
                 PROVE  j <= i
    BY Zenon DEF EndLast
  <2>2. i \in 1..Len(q) => Append(q, h)[i] = q[i] /\ q[i] \in ToSet(q)
    BY DEF ToSet
  <2>3. ~(i \in 1..Len(q))
    BY <1>2, <2>1, <2>2, Zenon DEF HasEnd
  <2> QED
    BY <2>1, <2>3
<1> QED
  BY <1>1, <1>2, Zenon

\* ... its head may be taken, after which nothing follows an EndFrame,
LEMMA EndTail ==
  ASSUME NEW q \in Seq(Frame), q # <<>>
  PROVE  /\ HasEnd(q) <=> Head(q).kind = "end" \/ HasEnd(Tail(q))
         /\ EndLast(q) => EndLast(Tail(q))
         /\ EndLast(q) /\ Head(q).kind = "end" /\ (\A f \in ToSet(q) : f.kind \in {"data", "end"})
              => Tail(q) = <<>>
<1>1. HasEnd(q) <=> Head(q).kind = "end" \/ HasEnd(Tail(q))
  <2>1. ToSet(q) = ToSet(Tail(q)) \cup {Head(q)}
    BY TailSet, Zenon
  <2> QED
    BY <2>1, Zenon DEF HasEnd
<1>2. /\ Len(Tail(q)) = Len(q) - 1 /\ Len(q) \in Nat \ {0} /\ Tail(q) \in Seq(Frame)
      /\ \A i \in 1..Len(Tail(q)) : Tail(q)[i] = q[i + 1] /\ i + 1 \in 1..Len(q)
  OBVIOUS
<1>3. ASSUME EndLast(q) PROVE EndLast(Tail(q))
  <2>1. SUFFICES ASSUME NEW i \in 1..Len(Tail(q)), NEW j \in 1..Len(Tail(q)),
                        Tail(q)[i].kind = "end", Tail(q)[j].kind \in {"data", "end"}
                 PROVE  j <= i
    BY Zenon DEF EndLast
  <2>2. /\ i + 1 \in 1..Len(q) /\ j + 1 \in 1..Len(q)
        /\ q[i + 1].kind = "end" /\ q[j + 1].kind \in {"data", "end"}
    BY <1>2, <2>1, Zenon
  <2>3. j + 1 <= i + 1
    BY <1>3, <2>2, Zenon DEF EndLast
  <2> QED
    BY <2>1, <2>3
<1>4. ASSUME EndLast(q), Head(q).kind = "end", \A f \in ToSet(q) : f.kind \in {"data", "end"}
      PROVE  Tail(q) = <<>>
  <2>1. SUFFICES ASSUME Len(q) >= 2 PROVE FALSE
    BY <1>2
  <2>2. q[1].kind = "end" /\ 1 \in 1..Len(q) /\ 2 \in 1..Len(q) /\ q[2] \in ToSet(q)
    BY <1>4, <2>1 DEF ToSet
  <2>3. 2 <= 1
    BY <1>4, <2>2, Zenon DEF EndLast
  <2> QED
    BY <2>3
<1> QED
  BY <1>1, <1>3, <1>4, Zenon

\* ... and a data frame may be inserted ahead of the EndFrame.
LEMMA EndInsert ==
  ASSUME NEW q \in Seq(Frame), NEW h \in Frame, NEW i \in 1..(Len(q) + 1), EndLast(q),
         h.kind = "data", \A j \in 1..(i - 1) : q[j].kind # "end"
  PROVE  EndLast(InsertAt(q, i, h)) /\ (HasEnd(InsertAt(q, i, h)) <=> HasEnd(q))
<1>1. HasEnd(InsertAt(q, i, h)) <=> HasEnd(q)
  <2>1. ToSet(InsertAt(q, i, h)) = ToSet(q) \cup {h}
    BY InsertSet, Zenon
  <2> QED
    BY <2>1, Zenon DEF HasEnd
<1>2. EndLast(InsertAt(q, i, h))
  <2>0. Len(InsertAt(q, i, h)) = Len(q) + 1
    BY InsertPlaces, Zenon
  <2>1. SUFFICES ASSUME NEW m \in 1..(Len(q) + 1), NEW n \in 1..(Len(q) + 1),
                        InsertAt(q, i, h)[m].kind = "end",
                        InsertAt(q, i, h)[n].kind \in {"data", "end"}
                 PROVE  n <= m
    BY <2>0, Zenon DEF EndLast
  <2>6. \A k \in 1..(Len(q) + 1) :
          InsertAt(q, i, h)[k] = IF k < i THEN q[k] ELSE IF k = i THEN h ELSE q[k - 1]
    BY InsertPlaces
  <2>2. /\ InsertAt(q, i, h)[m] = IF m < i THEN q[m] ELSE IF m = i THEN h ELSE q[m - 1]
        /\ InsertAt(q, i, h)[n] = IF n < i THEN q[n] ELSE IF n = i THEN h ELSE q[n - 1]
    BY <2>6
  <2>3. m > i /\ m - 1 \in 1..Len(q) /\ q[m - 1].kind = "end"
    BY <2>1, <2>2
  <2>4. CASE n <= i
    BY <2>3, <2>4
  <2>5. CASE n > i
    <3>1. n - 1 \in 1..Len(q) /\ q[n - 1].kind \in {"data", "end"}
      BY <2>1, <2>2, <2>5
    <3>2. n - 1 <= m - 1
      BY <2>3, <3>1, Zenon DEF EndLast
    <3> QED
      BY <2>3, <3>2
  <2> QED
    BY <2>4, <2>5
<1> QED
  BY <1>1, <1>2, Zenon

(* What the process goroutine and the branches have is left alone, ...     *)
LEMMA EndStill ==
  ASSUME EndInv, UNCHANGED <<out, sfr, spc>>,
         \A b \in Branches : lane'[<<b, "frames">>] = lane[<<b, "frames">>],
         hand'["frames"] = hand["frames"], pc'["frames"] = pc["frames"], next'["frames"] = next["frames"]
  PROVE  /\ EndWay' <=> EndWay
         /\ EndHeld' <=> EndHeld
         /\ EndGate' /\ \A b \in Branches : EndLane(b)'
<1>1. EndOut' <=> EndOut
  BY Zenon DEF EndOut, HasEnd
<1>2. \A b \in Branches : HasEnd(lane[<<b, "frames">>])' <=> HasEnd(lane[<<b, "frames">>])
  BY Zenon DEF HasEnd
<1>3. (EndWay' <=> EndWay) /\ (EndHeld' <=> EndHeld)
  BY <1>1, <1>2, Zenon DEF EndWay, EndHeld
<1>4. EndGate'
  BY <1>1, <1>2, <1>3, Zenon DEF EndInv, EndGate
<1>5. ASSUME NEW b \in Branches PROVE EndLane(b)'
  <2>1. EndBefore(b)' <=> EndBefore(b)
    BY <1>2, <1>3, Zenon DEF EndBefore, Ahead
  <2>2. EndPassed(b)' <=> EndPassed(b)
    BY <1>3, <2>1, Zenon DEF EndPassed
  <2>3. EndLane(b) /\ lane'[<<b, "frames">>] = lane[<<b, "frames">>]
    BY Zenon DEF EndInv
  <2> QED
    BY <1>2, <1>3, <2>2, <2>3, Zenon DEF EndLane
<1> QED
  BY <1>3, <1>4, <1>5, Zenon

(* ... and so are the queues.                                              *)
LEMMA EndIdle ==
  ASSUME EndInv, UNCHANGED <<out, sfr, spc, procq>>, inq'["frames"] = inq["frames"],
         \A b \in Branches : lane'[<<b, "frames">>] = lane[<<b, "frames">>],
         hand'["frames"] = hand["frames"], pc'["frames"] = pc["frames"], next'["frames"] = next["frames"],
         hand'["system"] = hand["system"] \/ hand'["system"].kind \notin {"data", "end"}
  PROVE  EndInv'
<1>1. /\ EndWay' <=> EndWay
      /\ EndHeld' <=> EndHeld
      /\ EndGate' /\ \A b \in Branches : EndLane(b)'
  BY EndStill, Zenon
<1>2. HasEnd(procq)' <=> HasEnd(procq)
  BY Zenon DEF HasEnd
<1>3. EndLast(inq["frames"])' /\ EndLast(procq)'
  BY Zenon DEF EndInv, EndQueues, EndLast
<1>4. hand'["system"].kind \in {"data", "end"} => hand'["system"] = hand["system"]
  OBVIOUS
<1>5. EndQueues'
  BY <1>1, <1>2, <1>3, <1>4, Zenon DEF EndInv, EndQueues
<1> QED
  BY <1>1, <1>5, Zenon DEF EndInv

(* No data frame, and no second EndFrame, arrives once there is one.       *)
LEMMA NoEnd ==
  ASSUME Types, IdInv, left["data"] > 0 \/ left["end"] > 0
  PROVE  /\ ~HasEnd(inq["frames"]) /\ ~HasEnd(procq) /\ hand["system"].kind # "end"
         /\ ~EndHeld /\ ~EndWay
<1>1. ASSUME NEW f \in Frame, There(f) PROVE f.kind # "end"
  BY <1>1 DEF IdInv
<1>2. /\ ToSet(inq["frames"]) \subseteq Frame /\ ToSet(procq) \subseteq Frame /\ ToSet(out) \subseteq Frame
      /\ \A c \in Callers : ToSet(lane[c]) \subseteq Frame
  <2>1. /\ inq["frames"] \in Seq(Frame) /\ procq \in Seq(Frame) /\ out \in Seq(Frame)
        /\ \A c \in Callers : lane[c] \in Seq(Frame)
    BY Zenon DEF Types, OwnType, WayType, Gates
  <2> QED
    BY <2>1, EmptySet, Zenon
<1>3. /\ \A g \in Gates : hand[g] \in Frame \/ hand[g].kind = "none"
      /\ \A c \in Callers : sfr[c] \in Frame \/ sfr[c].kind = "none"
  BY DEF Types, OwnType, SinkType, NoFrame
<1>4. ~HasEnd(inq["frames"]) /\ ~HasEnd(procq)
  BY <1>1, <1>2, Zenon DEF HasEnd, There, OwnThere
<1>5. hand["system"].kind # "end" /\ ~EndHeld
  <2>1. \A g \in Gates : hand[g] \in Frame => There(hand[g])
    BY Zenon DEF Gates, There, OwnThere
  <2> QED
    BY <1>1, <1>3, <2>1, Zenon DEF Gates, EndHeld
<1>6. ~EndOut
  <2>1. ~HasEnd(out)
    BY <1>1, <1>2, Zenon DEF HasEnd, There, SinkThere
  <2>2. ASSUME NEW c \in Callers, sfr[c].kind = "end" PROVE FALSE
    <3>1. sfr[c] \in Frame
      BY <1>3, <2>2, Zenon
    <3>2. There(sfr[c])
      BY Zenon DEF There, SinkThere
    <3> QED
      BY <1>1, <2>2, <3>1, <3>2, Zenon
  <2> QED
    BY <2>1, <2>2, Zenon DEF EndOut
<1>7. ~EndWay
  <2>1. ASSUME NEW b \in Branches PROVE ~HasEnd(lane[<<b, "frames">>])
    <3>1. <<b, "frames">> \in Callers
      BY CallerParts, Zenon
    <3> QED
      BY <1>1, <1>2, <3>1, Zenon DEF HasEnd, There, SinkThere
  <2> QED
    BY <1>6, <2>1, Zenon DEF EndWay
<1> QED
  BY <1>4, <1>5, <1>7, Zenon

(* A frame arrives, and the input goroutine takes it and hands it on.      *)
LEMMA EndQueue ==
  ASSUME Types, ShapeInv, IdInv, EndInv, NEW k \in Kinds, QueueFrame(k)
  PROVE  EndInv'
<1>1. /\ UNCHANGED <<procq, pc, hand, next, lane, out, sfr, spc>> /\ left[k] > 0
      /\ inq["frames"] \in Seq(Frame)
  BY QueueStep, Zenon DEF downstream, sinkVars, Types, OwnType, Gates
<1>2. PICK h \in Frame :
        /\ h.kind = k
        /\ \/ inq'["frames"] = inq["frames"]
           \/ k \notin SystemKinds /\ inq'["frames"] = Append(inq["frames"], h)
  BY QueueStep, Zenon
<1>3. CASE inq'["frames"] = inq["frames"]
  BY <1>1, <1>3, EndIdle, Zenon
<1>4. CASE k \notin SystemKinds /\ k \notin {"own", "ownEnd"} /\ inq'["frames"] = Append(inq["frames"], h)
  <2>1. left["data"] > 0 \/ left["end"] > 0
    BY <1>1, <1>4, Zenon DEF Kinds, SystemKinds
  <2>2. /\ ~HasEnd(inq["frames"]) /\ ~HasEnd(procq) /\ hand["system"].kind # "end"
        /\ ~EndHeld /\ ~EndWay
    BY <2>1, NoEnd, Zenon
  <2>3. /\ ~EndWay' /\ ~EndHeld'
        /\ EndGate' /\ \A b \in Branches : EndLane(b)'
    BY <1>1, <2>2, EndStill, Zenon
  <2>4. EndLast(inq["frames"])'
    BY <1>1, <1>4, <2>2, EndAppend
  <2>5. ~HasEnd(procq)' /\ EndLast(procq)' /\ hand'["system"].kind # "end"
    BY <1>1, <2>2, Zenon DEF EndInv, EndQueues
  <2>6. EndQueues'
    BY <2>3, <2>4, <2>5, Zenon DEF EndQueues
  <2> QED
    BY <2>3, <2>6, Zenon DEF EndInv
<1>5. ASSUME k \in {"own", "ownEnd"} PROVE FALSE
  BY <1>1, <1>5 DEF ShapeInv, OwnKinds
<1> QED
  BY <1>2, <1>3, <1>4, <1>5, Zenon

\* The input goroutine takes a frame,
LEMMA EndTake ==
  ASSUME Types, ShapeInv, EndInv, Take("system")
  PROVE  EndInv'
<1>0. EndQueues
  BY Zenon DEF EndInv
<1>1. /\ UNCHANGED <<procq, next, lane, out, sfr, spc>> /\ inq["frames"] \in Seq(Frame)
      /\ inq["system"] \in Seq(Frame)
      /\ pc'["frames"] = pc["frames"] /\ hand'["frames"] = hand["frames"]
  BY TakeSystem, Zenon DEF downstream, sinkVars, Types, OwnType, Gates
<1>2. CASE inq["system"] # <<>>
  <2>1. hand'["system"] = Head(inq["system"]) /\ inq'["frames"] = inq["frames"]
    BY <1>2, TakeSystem, Zenon
  <2>2. Head(inq["system"]) \in ToSet(inq["system"])
    BY <1>1, <1>2, EmptySet, Zenon
  <2>3. hand'["system"].kind \notin {"data", "end"}
    BY <2>1, <2>2, Zenon DEF ShapeInv, OwnKinds, SystemKinds
  <2> QED
    BY <1>1, <2>1, <2>3, EndIdle, Zenon
<1>3. CASE inq["system"] = <<>>
  <2>1. /\ inq["frames"] # <<>> /\ hand'["system"] = Head(inq["frames"])
        /\ inq'["frames"] = Tail(inq["frames"])
    BY <1>3, TakeSystem, Zenon
  <2>2. ~HasEnd(procq) /\ ~EndHeld /\ ~EndWay
    BY <1>0, <2>1, Zenon DEF EndQueues
  <2>3. /\ ~EndWay' /\ ~EndHeld'
        /\ EndGate' /\ \A b \in Branches : EndLane(b)'
    BY <1>1, <2>2, EndStill, Zenon
  <2>4. EndLast(inq["frames"]) /\ \A f \in ToSet(inq["frames"]) : f.kind \in {"data", "end"}
    BY <1>0, Zenon DEF EndQueues, ShapeInv, OwnKinds
  <2>5. EndLast(Tail(inq["frames"])) /\ (Head(inq["frames"]).kind = "end" => Tail(inq["frames"]) = <<>>)
    BY <1>1, <2>1, <2>4, EndTail, Zenon
  <2>6. EndLast(inq["frames"])' /\ (hand'["system"].kind = "end" => inq'["frames"] = <<>>)
    BY <2>1, <2>5, Zenon
  <2>7. ~HasEnd(procq)' /\ EndLast(procq)'
    BY <1>0, <1>1, <2>2, Zenon DEF EndQueues
  <2>8. EndQueues'
    BY <2>3, <2>6, <2>7, Zenon DEF EndQueues
  <2> QED
    BY <2>3, <2>8, Zenon DEF EndInv
<1> QED
  BY <1>2, <1>3, Zenon

\* ... hands it to the process goroutine,
LEMMA EndForward ==
  ASSUME Types, ShapeInv, EndInv, Forward
  PROVE  EndInv'
<1>0. EndQueues
  BY Zenon DEF EndInv
<1>1. /\ UNCHANGED <<inq, next, lane, out, sfr, spc>> /\ procq \in Seq(Frame)
      /\ pc'["frames"] = pc["frames"] /\ hand'["frames"] = hand["frames"]
      /\ hand["system"] \in Frame /\ hand["system"].kind \notin SystemKinds
      /\ hand'["system"] = NoFrame
      /\ procq' = procq \/ procq' = Append(procq, hand["system"])
  BY ForwardStep, Zenon DEF downstream, sinkVars, Types, OwnType, Gates
<1>2. hand["system"].kind \in {"data", "end"} /\ hand'["system"].kind = "none"
  <2>1. hand["system"].kind \in Kinds /\ hand["system"].kind \notin {"own", "ownEnd"}
    BY <1>1, Zenon DEF Frame, ShapeInv, OwnKinds
  <2> QED
    BY <1>1, <2>1 DEF Kinds, SystemKinds, NoFrame
<1>3. ~HasEnd(procq) /\ ~EndHeld /\ ~EndWay
  BY <1>0, <1>2, Zenon DEF EndQueues
<1>4. /\ ~EndWay' /\ ~EndHeld'
      /\ EndGate' /\ \A b \in Branches : EndLane(b)'
  BY <1>1, <1>3, EndStill, Zenon
<1>5. EndLast(procq)' /\ (HasEnd(procq)' => hand["system"].kind = "end")
  <2>1. CASE procq' = procq
    BY <1>0, <1>3, <2>1, Zenon DEF EndQueues
  <2>2. CASE procq' = Append(procq, hand["system"])
    <3>1. /\ EndLast(Append(procq, hand["system"]))
          /\ HasEnd(Append(procq, hand["system"])) => hand["system"].kind = "end"
      BY <1>1, <1>3, EndAppend, Zenon
    <3> QED
      BY <2>2, <3>1, Zenon
  <2> QED
    BY <1>1, <2>1, <2>2, Zenon
<1>6. EndLast(inq["frames"])' /\ (hand["system"].kind = "end" => inq'["frames"] = <<>>)
  BY <1>0, <1>1, Zenon DEF EndQueues
<1>7. EndQueues'
  BY <1>2, <1>4, <1>5, <1>6, Zenon DEF EndQueues
<1> QED
  BY <1>4, <1>7, Zenon DEF EndInv

(* The process goroutine takes a frame, is stopped, ...                    *)
LEMMA EndTakeFrames ==
  ASSUME Types, ShapeInv, EndInv, Take("frames")
  PROVE  EndInv'
<1>0. EndQueues /\ EndGate /\ (\A b \in Branches : EndLane(b)) /\ procq \in Seq(Frame)
  BY Zenon DEF EndInv, Types, OwnType
<1>1. /\ UNCHANGED <<inq, next, lane, out, sfr, spc>> /\ pc'["frames"] \in {"wait", "handle"}
      /\ procq # <<>> /\ procq' = Tail(procq) /\ hand'["frames"] = Head(procq)
      /\ hand'["system"] = hand["system"]
  BY TakeFrames, Zenon DEF downstream, sinkVars
<1>2. ~EndHeld /\ ~EndWay
  BY <1>0, <1>1, Zenon DEF EndQueues
<1>3. ~EndWay' /\ ~EndOut' /\ \A b \in Branches : ~HasEnd(lane[<<b, "frames">>])
  BY <1>1, <1>2, Zenon DEF EndWay, EndOut
<1>4. EndLast(procq) /\ \A f \in ToSet(procq) : f.kind \in {"data", "end"}
  BY <1>0, Zenon DEF EndQueues, ShapeInv, OwnKinds
<1>5. /\ EndLast(Tail(procq)) /\ (Head(procq).kind = "end" => Tail(procq) = <<>>)
      /\ HasEnd(Tail(procq)) \/ Head(procq).kind = "end" => HasEnd(procq)
  BY <1>0, <1>1, <1>4, EndTail, Zenon
<1>6. /\ EndLast(procq)' /\ (EndHeld' => procq' = <<>>)
      /\ HasEnd(procq)' \/ EndHeld' => HasEnd(procq)
  BY <1>1, <1>5, Zenon DEF EndHeld
<1>7. EndQueues'
  BY <1>0, <1>1, <1>3, <1>6, Zenon DEF EndQueues
<1>8. EndGate'
  BY <1>3, Zenon DEF EndGate, EndWay
<1>9. ASSUME NEW b \in Branches PROVE EndLane(b)'
  <2>1. EndLast(lane[<<b, "frames">>])' /\ ~HasEnd(lane[<<b, "frames">>])'
    BY <1>0, <1>1, <1>3, Zenon DEF EndLane
  <2>2. ~EndPassed(b)'
    BY <1>1, <1>3, Zenon DEF EndPassed, Armed
  <2> QED
    BY <2>1, <2>2, Zenon DEF EndLane
<1> QED
  BY <1>7, <1>8, <1>9, Zenon DEF EndInv

\* ... or ends that goroutine on a CancelFrame.
LEMMA EndStop ==
  ASSUME Types, EndInv, StopProcessing
  PROVE  EndInv'
<1>0. EndQueues /\ EndGate /\ (\A b \in Branches : EndLane(b))
  BY Zenon DEF EndInv
<1>1. /\ UNCHANGED <<inq, next, lane, out, sfr, spc>>
      /\ pc["frames"] \in {"get", "wait", "woken"} /\ pc'["frames"] = "stopped"
      /\ hand'["system"] = hand["system"] /\ procq' = <<>> /\ hand'["frames"] = NoFrame
  BY StopStep, Zenon DEF downstream, sinkVars
<1>2. (EndWay' <=> EndWay) /\ (EndOut' <=> EndOut)
  BY <1>1, Zenon DEF EndWay, EndOut
<1>3. ~EndHeld' /\ hand'["frames"].kind # "data" /\ ~HasEnd(procq)' /\ EndLast(procq)'
  BY <1>1, EndEmpty DEF EndHeld, NoFrame
<1>4. EndQueues'
  BY <1>0, <1>1, <1>2, <1>3, Zenon DEF EndQueues
<1>5. EndGate'
  BY <1>0, <1>1, <1>2, <1>3, Zenon DEF EndGate
<1>6. ASSUME NEW b \in Branches PROVE EndLane(b)'
  <2>1. pc["frames"] \notin Armed
    BY <1>1, Zenon DEF Armed
  <2>2. EndPassed(b)' => EndPassed(b)
    BY <1>1, <1>2, <1>3, <2>1, Zenon DEF EndPassed, EndBefore, Ahead
  <2>3. EndLane(b)
    BY <1>0, Zenon
  <2> QED
    BY <1>1, <1>3, <2>2, <2>3, Zenon DEF EndLane
<1> QED
  BY <1>4, <1>5, <1>6, Zenon DEF EndInv

(* ... or goes on with the frame it has.                                   *)
LEMMA EndMoves ==
  ASSUME EndInv, UNCHANGED <<inq, procq, hand, lane, out, sfr, spc>>,
         \/ pc["frames"] \notin Armed /\ pc'["frames"] \notin Armed
         \/ EndHeld /\ pc["frames"] # "fan" /\ \A b \in Branches : Ahead(b, "frames")'
         \/ ~EndHeld /\ ~EndWay
  PROVE  EndInv'
<1>0. EndQueues /\ EndGate /\ (\A b \in Branches : EndLane(b))
  BY Zenon DEF EndInv
<1>1. (EndWay' <=> EndWay) /\ (EndOut' <=> EndOut) /\ (EndHeld' <=> EndHeld)
  BY Zenon DEF EndWay, EndOut, EndHeld
<1>2. EndQueues'
  BY <1>0, <1>1, Zenon DEF EndQueues
<1>3. EndHeld /\ pc["frames"] # "fan" => ~EndWay
  BY <1>0, Zenon DEF EndGate
<1>4. pc["frames"] \notin Armed => pc["frames"] # "fan"
  BY Zenon DEF Armed
<1>5. EndGate'
  BY <1>0, <1>1, <1>3, <1>4, Zenon DEF EndGate
<1>6. ASSUME NEW b \in Branches PROVE EndLane(b)'
  <2>0. EndLane(b)
    BY <1>0, Zenon
  <2>1. CASE pc["frames"] \notin Armed /\ pc'["frames"] \notin Armed
    <3>1. EndPassed(b)' => EndPassed(b)
      BY <1>1, <2>1, Zenon DEF EndPassed, EndBefore, Ahead
    <3> QED
      BY <1>1, <1>4, <2>0, <2>1, <3>1, Zenon DEF EndLane
  <2>2. CASE EndHeld /\ pc["frames"] # "fan" /\ \A d \in Branches : Ahead(d, "frames")'
    <3>1. ~EndPassed(b)'
      BY <1>1, <2>2, Zenon DEF EndPassed, EndBefore
    <3> QED
      BY <1>1, <2>0, <2>2, <3>1, Zenon DEF EndLane
  <2>3. CASE ~EndHeld /\ ~EndWay
    <3>1. ~EndPassed(b)'
      BY <1>1, <2>3, Zenon DEF EndPassed
    <3> QED
      BY <1>1, <2>0, <2>3, <3>1, Zenon DEF EndLane
  <2> QED
    BY <2>1, <2>2, <2>3, Zenon
<1> QED
  BY <1>2, <1>5, <1>6, Zenon DEF EndInv

\* Waiting at a gate, pausing and resuming move no frame.
LEMMA EndHandle ==
  ASSUME Types, ShapeInv, EndInv, NEW g \in Gates,
         Wake(g) \/ Unblock(g) \/ Arm(g) \/ PauseProcessing(g) \/ HandleOther(g)
  PROVE  EndInv'
<1>1. UNCHANGED <<inq, procq, hand, lane, out, sfr, spc>>
  BY WakeStep, ArmStep, PauseStep, OtherStep, Zenon DEF downstream, sinkVars
<1>2. CASE g = "system"
  <2>1. pc'["frames"] = pc["frames"] /\ next'["frames"] = next["frames"]
    BY <1>2, WakeStep, ArmStep, PauseStep, OtherStep, Zenon DEF Gates
  <2> QED
    BY <1>1, <2>1, EndIdle, Zenon
<1>3. CASE g = "frames"
  <2>1. hand["frames"].kind \in {"data", "end", "none"} /\ EndGate
    BY Zenon DEF ShapeInv, OwnKinds, EndInv
  <2>2. CASE Wake(g) \/ Unblock(g)
    <3>1. pc["frames"] \notin Armed /\ pc'["frames"] \notin Armed
      BY <1>3, <2>2, WakeStep, Zenon DEF Armed
    <3> QED
      BY <1>1, <3>1, EndMoves, Zenon
  <2>3. CASE Arm(g)
    <3>1. EndHeld /\ pc["frames"] # "fan" /\ pc'["frames"] = "pauseSystem"
      BY <1>3, <2>1, <2>3, ArmStep, Zenon DEF Lifecycle, EndHeld
    <3>2. \A b \in Branches : Ahead(b, "frames")'
      BY <3>1, Zenon DEF Ahead, Armed
    <3> QED
      BY <1>1, <3>1, <3>2, EndMoves, Zenon
  <2>4. CASE PauseProcessing(g)
    <3>1. \/ pc["frames"] = "pauseSystem" /\ pc'["frames"] = "pauseFrames"
          \/ pc["frames"] = "pauseFrames" /\ pc'["frames"] = "fan" /\ next'["frames"] = 1
      BY <1>3, <2>4, PauseStep, Zenon
    <3>2. pc["frames"] # "fan" /\ hand["frames"].kind \in Lifecycle
      BY <1>3, <3>1, Zenon DEF ShapeInv, OwnPlace, Armed
    <3>3. EndHeld
      BY <2>1, <3>2, Zenon DEF EndHeld, Lifecycle
    <3>4. \A b \in Branches : Ahead(b, "frames")'
      BY <3>1, BranchesAssumption DEF Ahead, Armed, Branches
    <3> QED
      BY <1>1, <3>2, <3>3, <3>4, EndMoves, Zenon
  <2>5. CASE HandleOther(g)
    <3>1. hand["frames"] \in Frame /\ hand["frames"].kind \notin Lifecycle
      BY <1>3, <2>5, OtherStep, Zenon
    <3>2. hand["frames"].kind = "data"
      BY <2>1, <3>1, Zenon DEF Frame, Kinds, Lifecycle
    <3>3. ~EndHeld /\ ~EndWay
      BY <2>1, <3>2, Zenon DEF EndHeld, EndGate
    <3> QED
      BY <1>1, <3>3, EndMoves, Zenon
  <2> QED
    BY <2>2, <2>3, <2>4, <2>5, Zenon
<1> QED
  BY <1>2, <1>3, Zenon DEF Gates

(* A frame is fanned out, ...                                              *)
LEMMA EndFan ==
  ASSUME Types, ShapeInv, EndInv, NEW g \in Gates, Fan(g)
  PROVE  EndInv'
<1>0. /\ EndQueues /\ EndGate /\ (\A b \in Branches : EndLane(b))
      /\ hand["frames"].kind \in {"data", "end", "none"} /\ NoFrame.kind = "none"
  BY Zenon DEF EndInv, ShapeInv, OwnKinds, NoFrame
<1>1. /\ UNCHANGED <<inq, procq, out, sfr, spc>>
      /\ pc[g] = "fan" /\ hand[g] \in Frame /\ next[g] \in Branches
      /\ \A h \in Gates \ {g} : pc'[h] = pc[h] /\ next'[h] = next[h] /\ hand'[h] = hand[h]
      /\ \/ pc'[g] = "fan" /\ next'[g] = next[g] + 1 /\ hand'[g] = hand[g]
         \/ pc'[g] = "get" /\ next[g] = N /\ hand'[g] = NoFrame
  BY FanStep, Zenon DEF sinkVars
<1>2. /\ lane'[<<next[g], g>>] = Append(lane[<<next[g], g>>], hand[g])
      /\ \A c \in Callers : c # <<next[g], g>> => lane'[c] = lane[c]
  BY FanStep, Zenon
<1>3. CASE g = "system"
  <2>1. \A b \in Branches : lane'[<<b, "frames">>] = lane[<<b, "frames">>]
    <3>1. \A b \in Branches : <<b, "frames">> \in Callers /\ <<b, "frames">> # <<next[g], g>>
      BY <1>1, <1>3, CallerParts, Zenon
    <3> QED
      BY <1>2, <3>1, Zenon
  <2>2. pc'["frames"] = pc["frames"] /\ next'["frames"] = next["frames"] /\ hand'["frames"] = hand["frames"]
    BY <1>1, <1>3, Zenon DEF Gates
  <2>3. hand'["system"] = hand["system"] \/ hand'["system"].kind \notin {"data", "end"}
    BY <1>0, <1>1, <1>3, Zenon
  <2> QED
    BY <1>1, <2>1, <2>2, <2>3, EndIdle, Zenon
<1>4. CASE g = "frames"
  <2>0. PICK n \in Branches : n = next["frames"]
    BY <1>1, <1>4, Zenon
  <2>1. /\ lane'[<<n, "frames">>] = Append(lane[<<n, "frames">>], hand["frames"])
        /\ \A b \in Branches \ {n} : lane'[<<b, "frames">>] = lane[<<b, "frames">>]
    <3>1. /\ lane'[<<n, "frames">>] = Append(lane[<<n, "frames">>], hand["frames"])
          /\ \A c \in Callers : c # <<n, "frames">> => lane'[c] = lane[c]
      BY <1>2, <1>4, <2>0, Zenon
    <3>2. \A b \in Branches \ {n} : <<b, "frames">> \in Callers /\ <<b, "frames">> # <<n, "frames">>
      BY CallerParts, Zenon
    <3> QED
      BY <3>1, <3>2, Zenon
  <2>2. /\ pc["frames"] = "fan" /\ hand["frames"] \in Frame /\ hand'["system"] = hand["system"]
        /\ \/ pc'["frames"] = "fan" /\ next'["frames"] = n + 1 /\ hand'["frames"] = hand["frames"]
           \/ pc'["frames"] = "get" /\ n = N /\ hand'["frames"] = NoFrame
    BY <1>1, <1>4, <2>0, Zenon DEF Gates
  <2>3. lane[<<n, "frames">>] \in Seq(Frame)
    BY CallerParts, Zenon DEF Types, WayType
  <2>4. EndOut' <=> EndOut
    BY <1>1, Zenon DEF EndOut
  <2>5. /\ HasEnd(lane[<<n, "frames">>])' <=> EndHeld \/ HasEnd(lane[<<n, "frames">>])
        /\ ~HasEnd(lane[<<n, "frames">>]) => EndLast(lane[<<n, "frames">>])'
    <3>1. /\ HasEnd(Append(lane[<<n, "frames">>], hand["frames"])) <=>
               hand["frames"].kind = "end" \/ HasEnd(lane[<<n, "frames">>])
          /\ ~HasEnd(lane[<<n, "frames">>]) => EndLast(Append(lane[<<n, "frames">>], hand["frames"]))
      BY <2>2, <2>3, EndAppend, Zenon
    <3> QED
      BY <2>1, <3>1, Zenon DEF EndHeld
  <2>6. \A b \in Branches \ {n} : HasEnd(lane[<<b, "frames">>])' <=> HasEnd(lane[<<b, "frames">>])
    BY <2>1, Zenon
  <2>7. EndHeld' => EndHeld
    BY <1>0, <2>2, Zenon DEF EndHeld
  <2>8. CASE hand["frames"].kind = "data"
    <3>1. ~EndHeld /\ ~EndWay
      BY <1>0, <2>8, Zenon DEF EndHeld, EndGate
    <3>2. ~EndOut /\ \A b \in Branches : ~HasEnd(lane[<<b, "frames">>])
      BY <3>1, Zenon DEF EndWay
    <3>3. \A b \in Branches : ~HasEnd(lane[<<b, "frames">>])'
      BY <2>5, <2>6, <3>1, <3>2, Zenon
    <3>4. ~EndHeld' /\ ~EndWay' /\ ~EndOut'
      BY <2>4, <2>7, <3>1, <3>2, <3>3, Zenon DEF EndWay
    <3>5. EndQueues'
      BY <1>0, <1>1, <2>2, <3>4, Zenon DEF EndQueues
    <3>6. EndGate'
      BY <3>4, Zenon DEF EndGate
    <3>7. ASSUME NEW b \in Branches PROVE EndLane(b)'
      <4>1. EndLast(lane[<<b, "frames">>])'
        BY <1>0, <2>1, <2>5, <3>2, Zenon DEF EndLane
      <4>2. ~EndPassed(b)'
        BY <3>4, Zenon DEF EndPassed
      <4> QED
        BY <3>4, <4>1, <4>2, Zenon DEF EndLane
    <3> QED
      BY <3>5, <3>6, <3>7, Zenon DEF EndInv
  <2>9. CASE hand["frames"].kind = "end"
    <3>1. EndHeld /\ ~EndOut /\ ~EndOut' /\ EndWay'
      <4>1. EndHeld /\ ~EndOut
        BY <1>0, <2>9, Zenon DEF EndHeld, EndGate
      <4> QED
        BY <2>4, <2>5, <4>1, Zenon DEF EndWay
    <3>2. EndQueues'
      BY <1>0, <1>1, <2>2, <3>1, Zenon DEF EndQueues
    <3>3. EndGate'
      BY <1>0, <2>2, <2>9, <3>1, Zenon DEF EndGate, EndHeld
    <3>4. ASSUME NEW b \in Branches PROVE EndLane(b)'
      <4>1. CASE b = n
        <5>1. ~HasEnd(lane[<<n, "frames">>])
          <6>1. pc["frames"] = "fan" => next["frames"] <= n
            BY <2>0, BranchesAssumption DEF Branches
          <6>2. EndLane(n)
            BY <1>0, Zenon
          <6> QED
            BY <3>1, <6>1, <6>2, Zenon DEF EndLane
        <5>2. EndLast(lane[<<b, "frames">>])' /\ HasEnd(lane[<<b, "frames">>])'
          BY <2>5, <3>1, <4>1, <5>1, Zenon
        <5>3. ~EndPassed(b)'
          BY <5>2, Zenon DEF EndPassed, EndBefore
        <5>4. ~(EndHeld' /\ (pc'["frames"] = "fan" => next'["frames"] <= b))
          BY <1>0, <2>2, <4>1, BranchesAssumption DEF EndHeld, Branches
        <5> QED
          BY <5>2, <5>3, <5>4, Zenon DEF EndLane
      <4>2. CASE b # n
        <5>0. lane'[<<b, "frames">>] = lane[<<b, "frames">>] /\ spc'[<<b, "frames">>] = spc[<<b, "frames">>]
              /\ EndLane(b)
          BY <1>0, <1>1, <2>1, <4>2, Zenon
        <5>1. EndHeld' /\ (pc'["frames"] = "fan" => next'["frames"] <= b) => next["frames"] <= b
          BY <1>0, <2>0, <2>2, BranchesAssumption DEF EndHeld, Branches
        <5>2. Ahead(b, "frames") => EndHeld' /\ Ahead(b, "frames")'
          BY <2>0, <2>2, <2>9, <4>2, BranchesAssumption DEF Ahead, EndHeld, Branches, Armed
        <5>3. EndBefore(b) => EndBefore(b)'
          BY <5>0, <5>2, Zenon DEF EndBefore
        <5>4. EndPassed(b)' => EndPassed(b)
          BY <2>2, <3>1, <5>3, Zenon DEF EndPassed, Armed
        <5> QED
          BY <3>1, <5>0, <5>1, <5>4, Zenon DEF EndLane
      <4> QED
        BY <4>1, <4>2, Zenon
    <3> QED
      BY <3>2, <3>3, <3>4, Zenon DEF EndInv
  <2> QED
    BY <1>0, <2>2, <2>8, <2>9, Zenon DEF Frame, Kinds
<1> QED
  BY <1>3, <1>4, Zenon DEF Gates

(* ... and a branch raises one.                                            *)
LEMMA EndRaise ==
  ASSUME Types, IdInv, EndInv, NEW e \in Branches, NEW k \in Kinds, Raise(e, k)
  PROVE  EndInv'
<1>0. /\ EndQueues /\ EndGate /\ (\A b \in Branches : EndLane(b))
      /\ UNCHANGED <<inq, procq, hand, pc, next, out, sfr, spc>>
  BY RaiseStep, Zenon DEF EndInv, ownVars, sinkVars
<1>1. PICK h \in Frame, c \in Callers :
        /\ h.kind = k
        /\ (k = "data" => c = <<e, "frames">>) /\ (k # "data" => c = <<e, "own">>)
        /\ \E i \in 1..(Len(lane[c]) + 1) :
             /\ lane'[c] = InsertAt(lane[c], i, h)
             /\ k = "data" => \A j \in 1..(i - 1) : lane[c][j].kind # "end"
        /\ \A d \in Callers \ {c} : lane'[d] = lane[d]
  BY RaiseStep
<1>2. CASE k # "data"
  <2>1. \A b \in Branches : <<b, "frames">> \in Callers /\ <<b, "frames">> # c
    BY <1>1, <1>2, CallerParts, ZenonT(30)
  <2>2. \A b \in Branches : lane'[<<b, "frames">>] = lane[<<b, "frames">>]
    BY <1>1, <2>1, Zenon
  <2> QED
    BY <1>0, <2>2, EndIdle, Zenon
<1>3. CASE k = "data"
  <2>1. /\ c = <<e, "frames">> /\ lane[c] \in Seq(Frame) /\ EndLast(lane[c]) /\ BeforeEnd(e)
    BY <1>0, <1>1, <1>3, RaiseStep, Zenon DEF Types, WayType, EndLane
  <2>2. EndLast(lane[c])' /\ (HasEnd(lane[c])' <=> HasEnd(lane[c]))
    <3>1. PICK i \in 1..(Len(lane[c]) + 1) :
            lane'[c] = InsertAt(lane[c], i, h) /\ \A j \in 1..(i - 1) : lane[c][j].kind # "end"
      BY <1>1, <1>3, Zenon
    <3>2. EndLast(InsertAt(lane[c], i, h)) /\ (HasEnd(InsertAt(lane[c], i, h)) <=> HasEnd(lane[c]))
      BY <1>1, <1>3, <2>1, <3>1, EndInsert, Zenon
    <3> QED
      BY <3>1, <3>2, Zenon
  <2>3. \A b \in Branches : b # e => lane'[<<b, "frames">>] = lane[<<b, "frames">>]
    <3>1. \A b \in Branches : b # e => <<b, "frames">> \in Callers /\ <<b, "frames">> # c
      BY <2>1, CallerParts, Zenon
    <3> QED
      BY <1>1, <3>1, Zenon
  <2>4. \A b \in Branches : HasEnd(lane[<<b, "frames">>])' <=> HasEnd(lane[<<b, "frames">>])
    BY <2>1, <2>2, <2>3, Zenon
  <2>5. (EndOut' <=> EndOut) /\ (EndHeld' <=> EndHeld) /\ (EndWay' <=> EndWay)
    <3>1. (EndOut' <=> EndOut) /\ (EndHeld' <=> EndHeld)
      BY <1>0, Zenon DEF EndOut, EndHeld
    <3> QED
      BY <2>4, <3>1, Zenon DEF EndWay
  <2>6. EndQueues'
    BY <1>0, <2>5, Zenon DEF EndQueues
  <2>7. EndGate'
    BY <1>0, <2>4, <2>5, Zenon DEF EndGate
  <2>8. ASSUME NEW b \in Branches PROVE EndPassed(b)' <=> EndPassed(b)
    <3>1. HasEnd(lane[<<b, "frames">>])' <=> HasEnd(lane[<<b, "frames">>])
      BY <2>4, Zenon
    <3> QED
      BY <1>0, <2>5, <3>1, Zenon DEF EndPassed, EndBefore, Ahead
  <2>9. ~EndPassed(e)
    <3>1. SUFFICES ASSUME EndPassed(e) PROVE FALSE
      OBVIOUS
    <3>2. (EndWay \/ EndHeld) /\ (~EndHeld => EndWay) /\ ~HasEnd(lane[<<e, "frames">>])
      BY <3>1, Zenon DEF EndPassed, EndBefore
    <3>3. ~(left["end"] > 0)
      BY <3>2, NoEnd, Zenon
    <3>4. inq["frames"] = <<>> /\ procq = <<>> /\ hand["system"].kind # "end"
      BY <1>0, <3>2, Zenon DEF EndQueues
    <3>5. ToSet(inq["frames"]) = {} /\ ToSet(procq) = {}
      BY <3>4, EmptySet, Zenon
    <3>6. ~(EndHeld /\ next["frames"] <= e)
      <4>1. EndHeld /\ next["frames"] <= e => pc["frames"] \notin Armed
        BY <3>1, Zenon DEF EndPassed, EndBefore, Ahead
      <4>2. pc["frames"] \notin Armed => EndWay /\ pc["frames"] # "fan"
        BY <3>1, Zenon DEF EndPassed, Armed
      <4> QED
        BY <1>0, <4>1, <4>2, Zenon DEF EndGate
    <3>7. PICK f \in ToSet(inq["frames"]) \cup ToSet(procq)
               \cup ToSet(lane[<<e, "frames">>]) \cup {hand["system"]}
               \cup (IF next["frames"] <= e THEN {hand["frames"]} ELSE {}) : f.kind = "end"
      BY <2>1, <3>3, Zenon DEF BeforeEnd
    <3>8. \/ f \in ToSet(lane[<<e, "frames">>]) \/ f = hand["system"]
          \/ next["frames"] <= e /\ f = hand["frames"]
      BY <3>5, <3>7, Zenon
    <3>9. f \notin ToSet(lane[<<e, "frames">>])
      BY <3>2, <3>7, Zenon DEF HasEnd
    <3> QED
      BY <3>4, <3>6, <3>7, <3>8, <3>9, Zenon DEF EndHeld
  <2>10. ASSUME NEW b \in Branches PROVE EndLane(b)'
    <3>0. EndLane(b) /\ (HasEnd(lane[<<b, "frames">>])' <=> HasEnd(lane[<<b, "frames">>]))
      BY <1>0, <2>4, Zenon
    <3>1. CASE b = e
      <4>1. ~EndPassed(b)'
        BY <2>8, <2>9, <3>1, Zenon
      <4>2. EndLast(lane[<<b, "frames">>])'
        BY <2>1, <2>2, <3>1, Zenon
      <4> QED
        BY <1>0, <2>5, <3>0, <4>1, <4>2, Zenon DEF EndLane
    <3>2. CASE b # e
      <4>1. lane'[<<b, "frames">>] = lane[<<b, "frames">>] /\ (EndPassed(b)' <=> EndPassed(b))
        BY <2>3, <2>8, <3>2, Zenon
      <4> QED
        BY <1>0, <2>5, <3>0, <4>1, Zenon DEF EndLane
    <3> QED
      BY <3>1, <3>2, Zenon
  <2> QED
    BY <2>6, <2>7, <2>10, Zenon DEF EndInv
<1> QED
  BY <1>2, <1>3, Zenon

\* The goroutines of the parallel pipeline keep the EndFrame last ...
LEMMA EndOwn ==
  ASSUME Types, ShapeInv, IdInv, EndInv,
         \/ \E k \in Kinds : QueueFrame(k) \/ \E e \in Branches : Raise(e, k)
         \/ Forward \/ StopProcessing
         \/ \E g \in Gates : Own(g)
  PROVE  EndInv'
<1>1. ASSUME NEW g \in Gates, Take(g) PROVE EndInv'
  BY <1>1, EndTake, EndTakeFrames, Zenon DEF Gates
<1> QED
  BY <1>1, EndQueue, EndRaise, EndForward, EndStop, EndHandle, EndFan, Zenon DEF Own

(* A sink call takes the EndFrame out of a branch at most, ...             *)
LEMMA EndSteady ==
  ASSUME EndInv, UNCHANGED ownVars, EndWay' => EndWay,
         \A b \in Branches : HasEnd(lane[<<b, "frames">>])' => HasEnd(lane[<<b, "frames">>]),
         \A b \in Branches : EndLast(lane[<<b, "frames">>])',
         \A b \in Branches : EndPassed(b)' =>
              /\ \A f \in ToSet(lane[<<b, "frames">>])' : f.kind # "data"
              /\ spc'[<<b, "frames">>] # "push",
         EndOut' => ~EndHeld /\ \A b \in Branches : ~HasEnd(lane[<<b, "frames">>])'
  PROVE  EndInv'
<1>0. /\ EndQueues /\ EndGate /\ (\A b \in Branches : EndLane(b))
      /\ UNCHANGED <<inq, procq, pc, hand, next>>
  BY Zenon DEF EndInv, ownVars
<1>1. EndHeld' <=> EndHeld
  BY <1>0, Zenon DEF EndHeld
<1>2. EndQueues'
  BY <1>0, <1>1, Zenon DEF EndQueues
<1>3. EndGate'
  BY <1>0, <1>1, Zenon DEF EndGate
<1>4. \A b \in Branches : EndLane(b)'
  BY <1>0, <1>1, Zenon DEF EndLane
<1> QED
  BY <1>2, <1>3, <1>4, Zenon DEF EndInv

(* ... the lanes are as they were in the rest of a call ...                *)
LEMMA EndRelease ==
  ASSUME Types, ShapeInv, EndInv, NEW c \in Callers, Sink(c), ~Emit(c), ~Report(c)
  PROVE  EndInv'
<1>0. /\ EndGate /\ (\A b \in Branches : EndLane(b)) /\ SinkPlace /\ SinkKinds /\ out \in Seq(Frame)
      /\ NoFrame.kind = "none"
  BY Zenon DEF EndInv, ShapeInv, Types, WayType, NoFrame
<1>1. CASE Push(c) \/ FlushPush(c) \/ EmitSynchronized(c)
  <2>1. PICK x \in Frame :
          /\ UNCHANGED <<ownVars, lane>> /\ (x.kind \notin Lifecycle \/ x = sfr[c])
          /\ out' = out \/ out' = Append(out, x)
          /\ \A d \in Callers : sfr'[d].kind = "end" => sfr[d].kind = "end"
          /\ \A d \in Callers : spc'[d] = "push" => spc[d] = "push"
    <3>1. CASE Push(c)
      <4>1. /\ UNCHANGED <<ownVars, lane>> /\ spc[c] = "push" /\ sfr[c] \in Frame /\ out' = Append(out, sfr[c])
            /\ spc'[c] = "idle" /\ sfr'[c] = NoFrame
            /\ \A d \in Callers \ {c} : spc'[d] = spc[d] /\ sfr'[d] = sfr[d]
        BY <3>1, PushStep, Zenon DEF others
      <4>2. sfr'[c].kind # "end" /\ spc'[c] # "push"
        BY <1>0, <4>1, Zenon
      <4> QED
        BY <4>1, <4>2, Zenon
    <3>2. CASE FlushPush(c)
      <4>1. /\ UNCHANGED <<ownVars, lane, sfr>> /\ popped[c] \in Frame /\ out' = Append(out, popped[c])
            /\ spc'[c] = "flush" /\ \A d \in Callers \ {c} : spc'[d] = spc[d]
        BY <3>2, FlushPushStep, Zenon DEF others
      <4>2. popped[c].kind \notin Lifecycle /\ spc'[c] # "push"
        BY <1>0, <4>1, Zenon DEF SinkKinds
      <4> QED
        BY <4>1, <4>2, Zenon
    <3>3. CASE EmitSynchronized(c)
      <4>1. /\ UNCHANGED <<ownVars, lane, sfr>> /\ sfr[c] \in Frame /\ (out' = out \/ out' = Append(out, sfr[c]))
            /\ spc'[c] # "push" /\ \A d \in Callers \ {c} : spc'[d] = spc[d]
        BY <3>3, SynchronizedStep, Zenon DEF others
      <4> QED
        BY <4>1, Zenon
    <3> QED
      BY <1>1, <3>1, <3>2, <3>3, Zenon
  <2>2. HasEnd(out)' => EndOut
    <3>1. HasEnd(Append(out, x)) => x.kind = "end" \/ HasEnd(out)
      BY <1>0, <2>1, EndAppend, Zenon
    <3>2. x.kind = "end" => x = sfr[c]
      BY <2>1, Zenon DEF Lifecycle
    <3> QED
      BY <2>1, <3>1, <3>2, Zenon DEF EndOut
  <2>3. EndOut' => EndOut
    BY <2>1, <2>2, Zenon DEF EndOut
  <2>4. EndWay' => EndWay
    BY <2>1, <2>3, Zenon DEF EndWay
  <2>5. ASSUME NEW b \in Branches, EndPassed(b)'
        PROVE  (\A f \in ToSet(lane[<<b, "frames">>])' : f.kind # "data") /\ spc'[<<b, "frames">>] # "push"
    <3>1. UNCHANGED <<pc, hand, next, lane>> /\ <<b, "frames">> \in Callers /\ EndLane(b)
      BY <1>0, <2>1, CallerParts, Zenon DEF ownVars
    <3>2. EndPassed(b)
      BY <2>4, <2>5, <3>1, Zenon DEF EndPassed, EndBefore, EndHeld, Ahead
    <3> QED
      BY <2>1, <3>1, <3>2, Zenon DEF EndLane
  <2>6. EndOut' => ~EndHeld /\ \A b \in Branches : ~HasEnd(lane[<<b, "frames">>])'
    BY <1>0, <2>1, <2>3, Zenon DEF EndGate
  <2>7. \A b \in Branches : EndLast(lane[<<b, "frames">>])' /\ (HasEnd(lane[<<b, "frames">>])' => HasEnd(lane[<<b, "frames">>]))
    BY <1>0, <2>1, Zenon DEF EndLane
  <2> QED
    BY <2>1, <2>4, <2>5, <2>6, <2>7, EndSteady, Zenon
<1>2. CASE FlushNext(c) \/ FlushDone(c) \/ Resume(c)
  <2>1. /\ UNCHANGED <<ownVars, lane, out>>
        /\ (sfr'[c] = sfr[c] \/ sfr'[c] = NoFrame) /\ spc'[c] # "push"
        /\ \A d \in Callers \ {c} : spc'[d] = spc[d] /\ sfr'[d] = sfr[d]
    BY <1>0, <1>2, FlushNextStep, FlushDoneStep, ResumeStep, Zenon DEF others
  <2>2. sfr'[c].kind = "end" => sfr[c].kind = "end"
    BY <1>0, <2>1, Zenon
  <2>3. EndOut' => EndOut
    BY <2>1, <2>2, Zenon DEF EndOut
  <2>4. EndWay' => EndWay
    BY <2>1, <2>3, Zenon DEF EndWay
  <2>5. ASSUME NEW b \in Branches, EndPassed(b)'
        PROVE  (\A f \in ToSet(lane[<<b, "frames">>])' : f.kind # "data") /\ spc'[<<b, "frames">>] # "push"
    <3>1. UNCHANGED <<pc, hand, next, lane>> /\ <<b, "frames">> \in Callers /\ EndLane(b)
      BY <1>0, <2>1, CallerParts, Zenon DEF ownVars
    <3>2. EndPassed(b)
      BY <2>4, <2>5, <3>1, Zenon DEF EndPassed, EndBefore, EndHeld, Ahead
    <3> QED
      BY <2>1, <3>1, <3>2, Zenon DEF EndLane
  <2>6. EndOut' => ~EndHeld /\ \A b \in Branches : ~HasEnd(lane[<<b, "frames">>])'
    BY <1>0, <2>1, <2>3, Zenon DEF EndGate
  <2>7. \A b \in Branches : EndLast(lane[<<b, "frames">>])' /\ (HasEnd(lane[<<b, "frames">>])' => HasEnd(lane[<<b, "frames">>]))
    BY <1>0, <2>1, Zenon DEF EndLane
  <2> QED
    BY <2>1, <2>4, <2>5, <2>6, <2>7, EndSteady, Zenon
<1> QED
  BY <1>1, <1>2, Zenon DEF Sink

(* ... no data is pushed past the EndFrame ...                             *)
LEMMA EndEmit ==
  ASSUME Types, ShapeInv, EndInv, NEW c \in Callers, Emit(c)
  PROVE  EndInv'
<1>0. /\ EndGate /\ (\A b \in Branches : EndLane(b)) /\ SinkPlace /\ WayKinds
      /\ NoFrame.kind = "none"
  BY Zenon DEF EndInv, ShapeInv, NoFrame
<1>1. /\ UNCHANGED <<ownVars, out>> /\ lane[c] # <<>> /\ spc[c] = "idle" /\ lane[c] \in Seq(Frame)
      /\ lane'[c] = Tail(lane[c]) /\ (\A d \in Callers \ {c} : lane'[d] = lane[d])
      /\ (\A d \in Callers \ {c} : spc'[d] = spc[d] /\ sfr'[d] = sfr[d])
      /\ Front(c) \in Frame /\ Front(c) \in ToSet(lane[c]) /\ Front(c).kind \notin Lifecycle
      /\ (sfr'[c] = sfr[c] \/ sfr'[c] = Front(c))
  BY <1>0, EmitStep, Zenon DEF others
<1>2. sfr'[c].kind # "end"
  BY <1>0, <1>1, Zenon DEF SinkPlace, Lifecycle
<1>3. EndOut' => EndOut
  BY <1>1, <1>2, Zenon DEF EndOut
<1>4. c[2] = "frames" => Front(c).kind = "data"
  BY <1>0, <1>1, Zenon DEF WayKinds, LaneKinds, Lifecycle
<1>5. ASSUME NEW b \in Branches
      PROVE  /\ HasEnd(lane[<<b, "frames">>])' <=> HasEnd(lane[<<b, "frames">>])
             /\ EndLast(lane[<<b, "frames">>])'
             /\ ToSet(lane[<<b, "frames">>])' \subseteq ToSet(lane[<<b, "frames">>])
             /\ <<b, "frames">> \in Callers
  <2>0. <<b, "frames">> \in Callers /\ EndLane(b) /\ <<b, "frames">>[2] = "frames"
    BY <1>0, CallerParts, Zenon
  <2>1. CASE c = <<b, "frames">>
    <3>1. Head(lane[c]).kind # "end" /\ EndLast(lane[c])
      BY <1>4, <2>0, <2>1, Zenon DEF Front, EndLane
    <3>2. EndLast(Tail(lane[c])) /\ (HasEnd(lane[c]) <=> HasEnd(Tail(lane[c])))
      BY <1>1, <3>1, EndTail, Zenon
    <3>3. ToSet(Tail(lane[c])) \subseteq ToSet(lane[c])
      BY <1>1, TailSet, Zenon
    <3>4. /\ HasEnd(lane[c])' <=> HasEnd(lane[c])
          /\ EndLast(lane[c])' /\ ToSet(lane[c])' \subseteq ToSet(lane[c])
      BY <1>1, <3>2, <3>3, Zenon
    <3> QED
      BY <2>0, <2>1, <3>4, Zenon
  <2>2. CASE c # <<b, "frames">>
    <3>1. lane'[<<b, "frames">>] = lane[<<b, "frames">>]
      BY <1>1, <2>0, <2>2, Zenon
    <3> QED
      BY <2>0, <3>1, Zenon DEF EndLane
  <2> QED
    BY <2>1, <2>2, Zenon
<1>6. EndWay' => EndWay
  BY <1>3, <1>5, Zenon DEF EndWay
<1>7. ASSUME NEW b \in Branches, EndPassed(b)'
      PROVE  (\A f \in ToSet(lane[<<b, "frames">>])' : f.kind # "data") /\ spc'[<<b, "frames">>] # "push"
  <2>1. UNCHANGED <<pc, hand, next>> /\ EndLane(b)
    BY <1>0, <1>1, Zenon DEF ownVars
  <2>2. EndPassed(b)
    BY <1>5, <1>6, <1>7, <2>1, Zenon DEF EndPassed, EndBefore, EndHeld, Ahead
  <2>3. (\A f \in ToSet(lane[<<b, "frames">>]) : f.kind # "data") /\ spc[<<b, "frames">>] # "push"
    BY <2>1, <2>2, Zenon DEF EndLane
  <2>4. c # <<b, "frames">>
    BY <1>1, <1>4, <2>3, CallerParts
  <2> QED
    BY <1>1, <1>5, <2>3, <2>4, Zenon
<1>8. EndOut' => ~EndHeld /\ \A b \in Branches : ~HasEnd(lane[<<b, "frames">>])'
  BY <1>0, <1>3, <1>5, Zenon DEF EndGate
<1> QED
  BY <1>1, <1>5, <1>6, <1>7, <1>8, EndSteady, Zenon

(* ... and the EndFrame is reported by the last of the branches.           *)
LEMMA EndReport ==
  ASSUME Types, ShapeInv, IdInv, EndInv, CountInv', NEW c \in Callers, Report(c)
  PROVE  EndInv'
<1>0. /\ EndGate /\ (\A b \in Branches : EndLane(b)) /\ SinkPlace /\ WayKinds
      /\ NoFrame.kind = "none" /\ c[1] \in Branches /\ c = <<c[1], c[2]>>
  BY CallerParts, Zenon DEF EndInv, ShapeInv, NoFrame
<1>1. /\ UNCHANGED <<ownVars, out>> /\ spc[c] = "idle" /\ lane[c] \in Seq(Frame) /\ lane[c] # <<>>
      /\ Front(c) \in Frame /\ Front(c) \in ToSet(lane[c]) /\ Front(c).kind \in Lifecycle
      /\ lane'[c] = Tail(lane[c]) /\ spc'[c] # "push"
      /\ (\A d \in Callers \ {c} : spc'[d] = spc[d] /\ sfr'[d] = sfr[d])
      /\ (sfr'[c] = sfr[c] \/ sfr'[c] = Front(c))
  BY <1>0, ReportLanes, ReportKeeps, ReportStep, Zenon DEF others
<1>2. /\ Front(c).kind = "cancel" => spc[<<c[1], "frames">>] = "idle" /\ lane'[<<c[1], "frames">>] = <<>>
      /\ Front(c).kind = "cancel" => c[2] = "system"
      /\ \A d \in Callers \ {c} :
           lane'[d] = lane[d] \/ (Front(c).kind = "cancel" /\ d = <<c[1], "frames">>)
  BY <1>0, ReportLanes, Zenon
<1>3. c[2] = "frames" => Front(c).kind = "end" /\ HasEnd(lane[c])
  <2>1. c[2] = "frames" => Front(c).kind = "end"
    BY <1>0, <1>1, Zenon DEF WayKinds, LaneKinds, Lifecycle
  <2> QED
    BY <1>1, <2>1, Zenon DEF HasEnd
<1>4. ASSUME NEW b \in Branches
      PROVE  /\ <<b, "frames">> \in Callers
             /\ \/ lane'[<<b, "frames">>] = lane[<<b, "frames">>] /\ spc'[<<b, "frames">>] = spc[<<b, "frames">>]
                \/ lane'[<<b, "frames">>] = <<>> /\ spc'[<<b, "frames">>] # "push"
  <2>0. <<b, "frames">> \in Callers /\ EndLane(b) /\ <<b, "frames">>[2] = "frames" /\ <<b, "frames">>[1] = b
    BY <1>0, CallerParts, Zenon
  <2>1. CASE c = <<b, "frames">>
    <3>1. /\ EndLast(lane[c]) /\ Head(lane[c]).kind = "end"
          /\ \A f \in ToSet(lane[c]) : f.kind \in {"data", "end"}
      BY <1>0, <1>3, <2>0, <2>1, Zenon DEF EndLane, Front, WayKinds, LaneKinds
    <3>2. Tail(lane[c]) = <<>>
      BY <1>1, <3>1, EndTail, Zenon
    <3> QED
      BY <1>1, <2>0, <2>1, <3>2, Zenon
  <2>2. CASE c # <<b, "frames">> /\ lane'[<<b, "frames">>] = lane[<<b, "frames">>]
    BY <1>1, <2>0, <2>2, Zenon
  <2>3. CASE c # <<b, "frames">> /\ Front(c).kind = "cancel" /\ <<b, "frames">> = <<c[1], "frames">>
    <3>1. spc'[<<b, "frames">>] = spc[<<b, "frames">>] /\ spc[<<b, "frames">>] = "idle"
          /\ lane'[<<b, "frames">>] = <<>>
      BY <1>1, <1>2, <2>0, <2>3, Zenon
    <3> QED
      BY <2>0, <3>1, Zenon
  <2> QED
    BY <1>2, <2>0, <2>1, <2>2, <2>3, Zenon
<1>5. ASSUME NEW b \in Branches
      PROVE  /\ HasEnd(lane[<<b, "frames">>])' => HasEnd(lane[<<b, "frames">>])
             /\ EndLast(lane[<<b, "frames">>])'
  <2>1. EndLane(b)
    BY <1>0, Zenon
  <2> QED
    BY <1>4, <2>1, EndEmpty, Zenon DEF EndLane
<1>6. EndOut' => EndWay
  <2>1. ASSUME sfr'[c].kind = "end" PROVE HasEnd(lane[<<c[1], "frames">>])
    <3>1. Front(c).kind = "end"
      BY <1>0, <1>1, <2>1, Zenon DEF SinkPlace
    <3>2. c = <<c[1], "frames">>
      BY <1>0, <1>1, <3>1, CallerParts, Zenon DEF WayKinds, LaneKinds, SystemKinds
    <3> QED
      BY <1>3, <3>2, CallerParts, Zenon
  <2> QED
    BY <1>0, <1>1, <2>1, Zenon DEF EndOut, EndWay
<1>7. EndWay' => EndWay
  BY <1>5, <1>6, Zenon DEF EndWay
<1>8. ASSUME NEW b \in Branches, EndPassed(b)'
      PROVE  (\A f \in ToSet(lane[<<b, "frames">>])' : f.kind # "data") /\ spc'[<<b, "frames">>] # "push"
  <2>0. UNCHANGED <<pc, hand, next>> /\ EndLane(b)
    BY <1>0, <1>1, Zenon DEF ownVars
  <2>1. CASE lane'[<<b, "frames">>] = lane[<<b, "frames">>] /\ spc'[<<b, "frames">>] = spc[<<b, "frames">>]
    <3>1. EndPassed(b)
      BY <1>7, <1>8, <2>0, <2>1, Zenon DEF EndPassed, EndBefore, EndHeld, Ahead
    <3> QED
      BY <2>0, <2>1, <3>1, Zenon DEF EndLane
  <2>2. CASE lane'[<<b, "frames">>] = <<>> /\ spc'[<<b, "frames">>] # "push"
    <3>1. ToSet(lane[<<b, "frames">>])' = {}
      BY <2>2, EmptySet, Zenon
    <3> QED
      BY <2>2, <3>1, Zenon
  <2> QED
    BY <1>4, <2>1, <2>2, Zenon
<1>9. ASSUME EndOut' PROVE ~EndHeld /\ \A b \in Branches : ~HasEnd(lane[<<b, "frames">>])'
  <2>1. CASE EndOut
    BY <1>0, <1>5, <2>1, Zenon DEF EndGate
  <2>2. CASE ~EndOut
    <3>1. sfr'[c].kind = "end"
      BY <1>1, <1>9, <2>2, Zenon DEF EndOut
    <3>2. PICK f \in Frame : f = Front(c) /\ sfr'[c] = f /\ f.kind = "end"
      BY <1>0, <1>1, <3>1, Zenon DEF SinkPlace
    <3>3. Waiting(f)' = {}
      <4>1. Released(f)'
        BY <3>2, Zenon DEF Released
      <4> QED
        BY <3>2, <4>1, Zenon DEF CountInv, Counted, Fanned
    <3>4. GateOf(f) = "frames" /\ There(f)
      <4>1. There(f)
        BY <1>1, <3>2, Zenon DEF There, SinkThere
      <4> QED
        BY <3>2, <4>1, Zenon DEF GateOf, SystemKinds
    <3>5. \A h \in Frame : There(h) /\ h.kind = "end" => h = f
      BY <3>2, <3>4, Zenon DEF IdInv
    <3>6. ASSUME NEW b \in Branches, HasEnd(lane[<<b, "frames">>])' PROVE FALSE
      <4>1. PICK h \in ToSet(lane[<<b, "frames">>])' : h.kind = "end"
        BY <3>6, Zenon DEF HasEnd
      <4>2. lane'[<<b, "frames">>] = lane[<<b, "frames">>] /\ <<b, "frames">> \in Callers
        BY <1>4, <3>6, EndEmpty, Zenon
      <4>3. h \in ToSet(lane[<<b, "frames">>]) /\ h \in Frame
        <5>1. lane[<<b, "frames">>] \in Seq(Frame)
          BY <4>2, Zenon DEF Types, WayType
        <5> QED
          BY <4>1, <4>2, <5>1, EmptySet, Zenon
      <4>4. h = f
        BY <3>5, <4>1, <4>2, <4>3, Zenon DEF There, SinkThere
      <4>5. f \in ToSet(lane[<<b, GateOf(f)>>])'
        BY <3>4, <4>1, <4>4, Zenon DEF GateOf
      <4>6. b \in Waiting(f)'
        BY <4>5, Zenon DEF Waiting, WaitsFor
      <4> QED
        BY <3>3, <4>6, Zenon
    <3>7. ASSUME EndHeld PROVE FALSE
      <4>1. hand["frames"] \in Frame
        BY <1>0, <3>7, Zenon DEF EndHeld, Types, OwnType, Gates
      <4>2. hand["frames"] = f
        BY <3>5, <3>7, <4>1, Zenon DEF EndHeld, There, OwnThere
      <4>3. pc["frames"] = "fan"
        BY <1>0, <1>6, <1>9, <3>7, Zenon DEF EndGate
      <4>4. PICK n \in Branches : n = next["frames"]
        BY <4>3, Zenon DEF Types, OwnType, Gates
      <4>5. n <= n
        BY BranchesAssumption DEF Branches
      <4>6. UNCHANGED <<pc, hand, next>>
        BY <1>1, Zenon DEF ownVars
      <4>7. Coming(n, f)'
        <5>1. hand'["frames"] = f /\ pc'["frames"] = "fan" /\ next'["frames"] <= n
          BY <4>2, <4>3, <4>4, <4>5, <4>6, Zenon
        <5>2. Ahead(n, "frames")'
          BY <5>1, Zenon DEF Ahead, Armed
        <5> QED
          BY <3>4, <5>1, <5>2, Zenon DEF Coming, GateOf
      <4>8. n \in Waiting(f)'
        BY <4>7, Zenon DEF Waiting, WaitsFor
      <4> QED
        BY <3>3, <4>8, Zenon
    <3> QED
      BY <3>6, <3>7, Zenon
  <2> QED
    BY <2>1, <2>2, Zenon
<1> QED
  BY <1>1, <1>5, <1>7, <1>8, <1>9, EndSteady, Zenon

\* ... and so do the sink calls.
LEMMA EndSink ==
  ASSUME Types, ShapeInv, IdInv, EndInv, CountInv', NEW c \in Callers, Sink(c)
  PROVE  EndInv'
BY EndRelease, EndEmit, EndReport, Zenon
=============================================================================
