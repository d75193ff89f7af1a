----------------------------- MODULE ParallelInv ----------------------------
(***************************************************************************)
(* What is true of the parallel pipeline at every step.  The proofs of its *)
(* properties rest on these invariants.                                    *)
(***************************************************************************)
EXTENDS Parallel

\* A goroutine that handles a frame holds one.
Holding == {"wait", "woken", "handle", "pauseSystem", "pauseFrames", "fan"}
Releasing == {"push", "emit", "flush", "flushPush"}

OwnType ==
    /\ left \in [Kinds -> Nat] /\ ids \in Nat
    /\ inq \in [Gates -> Seq(Frame)] /\ procq \in Seq(Frame)
    /\ pc \in [Gates -> Places] /\ next \in [Gates -> 0..N]
    /\ hand \in [Gates -> Frame \cup {NoFrame}]
    /\ \A g \in Gates :
         /\ pc[g] \in Holding => hand[g] \in Frame
         /\ pc[g] = "fan" => next[g] \in Branches
GateType == block \in [Gates -> BOOLEAN] /\ ev \in [Gates -> BOOLEAN]

MergeType ==
    /\ seen \subseteq Ids /\ counter \in [Ids -> 0..N]
    /\ syncing \in BOOLEAN /\ buffered \in Seq(Frame)
SinkType ==
    /\ spc \in [Callers -> SinkPlaces]
    /\ sfr \in [Callers -> Frame \cup {NoFrame}]
    /\ popped \in [Callers -> Frame \cup {NoFrame}]
    /\ \A c \in Callers :
         /\ spc[c] \in Releasing => sfr[c] \in Frame
         /\ spc[c] = "flushPush" => popped[c] \in Frame
WayType ==
    /\ lane \in [Callers -> Seq(Frame)] /\ out \in Seq(Frame)
    /\ raised \in Seq(Raised) /\ Len(raised) <= MaxRaised

Types == OwnType /\ GateType /\ MergeType /\ SinkType /\ WayType

-----------------------------------------------------------------------------
(* What the lifecycle frames are kept to.                                  *)

\* One StartFrame and at most one EndFrame arrive.
Ordinary == \A b \in Budgets : b["start"] = 1 /\ b["end"] <= 1

Once(q) == \A i, j \in 1..Len(q) : q[i] = q[j] => i = j
Armed == {"pauseSystem", "pauseFrames", "fan"}
LaneKinds(l) ==
    IF l = "system" THEN SystemKinds
    ELSE IF l = "frames" THEN {"data", "end"} ELSE {"own", "ownEnd"}

\* Where a goroutine is tells what it holds, and so does the place of a sink call.
OwnPlace ==
    /\ \A g \in Gates :
         /\ pc[g] \in {"get", "stopped"} => hand[g] = NoFrame
         /\ pc[g] \in Armed \ {"fan"} => hand[g].kind \in Lifecycle
    /\ pc["system"] # "stopped"
    /\ pc["system"] \in Armed =>
         /\ hand["system"].kind \in SystemKinds
         /\ hand["system"].kind = "cancel" => pc["frames"] = "stopped"
SinkPlace ==
    \A c \in Callers :
         /\ spc[c] = "idle" => sfr[c] = NoFrame
         /\ spc[c] = "push" => sfr[c].kind \notin Lifecycle
         /\ spc[c] \notin {"idle", "push"} => sfr[c] \in Frame /\ sfr[c].kind \in Lifecycle
         /\ spc[c] # "flushPush" => popped[c] = NoFrame

\* A frame keeps to the queues and lanes of its kind.
OwnKinds ==
    /\ left["own"] = 0 /\ left["ownEnd"] = 0
    /\ \A f \in ToSet(inq["system"]) : f.kind \in SystemKinds
    /\ \A f \in ToSet(inq["frames"]) \cup ToSet(procq) : f.kind \in {"data", "end"}
    /\ hand["frames"].kind \in {"data", "end", "none"}
    /\ hand["system"].kind \notin {"own", "ownEnd"}
WayKinds == \A c \in Callers : \A f \in ToSet(lane[c]) : f.kind \in LaneKinds(c[2])
SinkKinds ==
    /\ \A c \in Callers :
         /\ sfr[c].kind \in LaneKinds(c[2]) \cup {"none"}
         /\ popped[c].kind \notin Lifecycle
    /\ \A f \in ToSet(buffered) : f.kind \notin Lifecycle

ShapeInv == OwnPlace /\ SinkPlace /\ OwnKinds /\ WayKinds /\ SinkKinds

\* The frames there are.  An id is a frame's own, and there is one StartFrame and
\* one EndFrame that arrives.
OwnThere(f) ==
    \/ f \in ToSet(inq["system"]) \/ f \in ToSet(inq["frames"]) \/ f \in ToSet(procq)
    \/ f = hand["system"] \/ f = hand["frames"]
SinkThere(f) ==
    \/ f \in ToSet(buffered) \/ f \in ToSet(out)
    \/ \E c \in Callers : f \in ToSet(lane[c]) \/ f = sfr[c] \/ f = popped[c]
There(f) == OwnThere(f) \/ SinkThere(f)

IdInv ==
    /\ \A f \in Frame : There(f) => f.id <= ids
    /\ \A i \in seen : i <= ids
    /\ \A f, h \in Frame : There(f) /\ There(h) /\ f.id = h.id => f = h
    /\ left["start"] \in {0, 1} /\ left["end"] \in {0, 1}
    /\ \A f \in Frame : There(f) /\ f.kind = "start" => left["start"] = 0
    /\ \A f, h \in Frame : There(f) /\ There(h) /\ f.kind = "start" /\ h.kind = "start" => f = h
    /\ \A f \in Frame : There(f) /\ f.kind = "end" => left["data"] = 0 /\ left["end"] = 0
    /\ \A f, h \in Frame : There(f) /\ There(h) /\ f.kind = "end" /\ h.kind = "end" => f = h

\* The branches a lifecycle frame still has to pass.
GateOf(f) == IF f.kind \in SystemKinds THEN "system" ELSE "frames"
Ahead(b, g) == pc[g] \in Armed /\ (pc[g] = "fan" => next[g] <= b)
Coming(b, f) == hand[GateOf(f)] = f /\ Ahead(b, GateOf(f))
WaitsFor(b, f) == f \in ToSet(lane[<<b, GateOf(f)>>]) \/ Coming(b, f)
Waiting(f) == {b \in Branches : WaitsFor(b, f)}
Released(f) == f \in ToSet(out) \/ \E c \in Callers : sfr[c] = f

\* A set has at most n members.
Fits(s, n) == \E g \in [s -> 1..n] : \A a, b \in s : g[a] = g[b] => a = b

\* The counter of a lifecycle frame is not below the number of them; one that has
\* been released has passed them all, and one caller releases it.
Counted(f) ==
    /\ Fits(Waiting(f), counter[f.id])
    /\ Released(f) => Waiting(f) = {}
    /\ \A c, d \in Callers : sfr[c] = f /\ sfr[d] = f => c = d
CountInv == \A f \in Frame : f.kind \in Fanned => Counted(f)

\* A system frame is in one place at a time.
SystemQueue == Once(inq["system"]) /\ hand["system"] \notin ToSet(inq["system"])
SystemLane(b) ==
    /\ Once(lane[<<b, "system">>])
    /\ ToSet(lane[<<b, "system">>]) \cap ToSet(inq["system"]) = {}
    /\ hand["system"] \in ToSet(lane[<<b, "system">>]) =>
         pc["system"] = "fan" /\ next["system"] > b
SystemOut(f) == Released(f) => f \notin ToSet(inq["system"]) /\ hand["system"] # f
SystemInv ==
    /\ SystemQueue
    /\ \A b \in Branches : SystemLane(b)
    /\ \A f \in Frame : f.kind \in {"start", "cancel"} => SystemOut(f)

\* No processor in a branch has raised an EndFrame.
NoOwnEnd ==
    \A c \in Callers :
         sfr[c].kind # "ownEnd" /\ \A f \in ToSet(lane[c]) : f.kind # "ownEnd"

\* Until the StartFrame has gone out and its flush is over, the process goroutine
\* has nothing, the input goroutine is on its way to the StartFrame, handles it
\* or is paused behind it, and no other lifecycle frame is on its way.
StartOut == \E f \in ToSet(out) : f.kind = "start"
StartDue == /\ left["start"] = 1 /\ pc["system"] = "get"
            /\ inq["system"] = <<>> /\ inq["frames"] = <<>>
StartQueued == /\ left["start"] = 0 /\ pc["system"] = "get"
               /\ inq["system"] # <<>> /\ Head(inq["system"]).kind = "start"
StartTaken == left["start"] = 0 /\ pc["system"] = "handle" /\ hand["system"].kind = "start"
Early ==
    /\ ~StartOut /\ \A c \in Callers : lane[c] = <<>> \/ c[2] # "system"
    /\ ~block["system"] /\ next["system"] = 0
    /\ StartDue \/ StartQueued \/ StartTaken
Late ==
    /\ left["start"] = 0
    /\ pc["system"] \in Armed => hand["system"].kind = "start"
    /\ pc["system"] \in Armed \cup {"get", "wait"}
    /\ pc["system"] # "pauseSystem" => block["system"] /\ ~ev["system"]
    /\ ~StartOut => syncing

StartPhase ==
    ~StartOut \/ \E c \in Callers : sfr[c].kind = "start" /\ spc[c] # "resumeFrames"

\* Before the StartFrame is out, it has not been seen, and only what a goroutine of
\* a branch's own pushes gets out.
StartSeen ==
    ~StartOut =>
        /\ \A f \in Frame : There(f) /\ f.kind = "start" => f.id \notin seen
        /\ \A c \in Callers :
             spc[c] \in {"idle", "emit"} \/ (spc[c] = "push" /\ sfr[c].kind = "own")
StartWay ==
    \A c \in Callers :
         /\ \A f \in ToSet(lane[c]) : f.kind \in Lifecycle => f.kind = "start"
         /\ sfr[c].kind \in Lifecycle => sfr[c].kind = "start"

StartInv ==
    /\ StartFirst /\ StartSeen
    /\ StartPhase => /\ pc["frames"] = "get" /\ procq = <<>>
                     /\ StartWay
                     /\ Early \/ Late

\* The EndFrame is behind the data frames wherever it is, and no branch it has
\* passed has data left.
HasEnd(q) == \E f \in ToSet(q) : f.kind = "end"
EndLast(q) ==
    \A i, j \in 1..Len(q) : q[i].kind = "end" /\ q[j].kind \in {"data", "end"} => j <= i
EndOut == HasEnd(out) \/ \E c \in Callers : sfr[c].kind = "end"
EndWay == EndOut \/ \E b \in Branches : HasEnd(lane[<<b, "frames">>])
EndHeld == hand["frames"].kind = "end"
EndBefore(b) == HasEnd(lane[<<b, "frames">>]) \/ (EndHeld /\ Ahead(b, "frames"))

EndPassed(b) == (EndWay \/ (EndHeld /\ pc["frames"] \in Armed)) /\ ~EndBefore(b)

EndQueues ==
    /\ EndLast(inq["frames"]) /\ EndLast(procq)
    /\ hand["system"].kind = "end" \/ HasEnd(procq) \/ EndHeld \/ EndWay => inq["frames"] = <<>>
    /\ HasEnd(procq) \/ EndHeld \/ EndWay => hand["system"].kind \notin {"data", "end"}
    /\ EndHeld \/ EndWay => procq = <<>>
EndGate ==
    /\ EndWay => hand["frames"].kind # "data" /\ (EndHeld => pc["frames"] = "fan")
    /\ EndOut => ~EndHeld /\ \A b \in Branches : ~HasEnd(lane[<<b, "frames">>])
EndLane(b) ==
    /\ EndLast(lane[<<b, "frames">>])
    /\ EndHeld /\ (pc["frames"] = "fan" => next["frames"] <= b) => ~HasEnd(lane[<<b, "frames">>])
    /\ EndPassed(b) => /\ \A f \in ToSet(lane[<<b, "frames">>]) : f.kind # "data"
                       /\ spc[<<b, "frames">>] # "push"

EndInv == EndQueues /\ EndGate /\ \A b \in Branches : EndLane(b)

\* A CancelFrame that has passed a branch has left no EndFrame in it.
Canceling(f) == Waiting(f) # {} \/ Released(f)
CancelInv ==
    \A f \in Frame : f.kind = "cancel" /\ Canceling(f) =>
        /\ pc["frames"] = "stopped"
        /\ \A b \in Branches \ Waiting(f) :
             ~HasEnd(lane[<<b, "frames">>]) /\ sfr[<<b, "frames">>].kind # "end"

\* Once the EndFrame is released what data is left is what its caller flushes,
\* and once it has flushed there is none.
EndFlushed ==
    \/ HasEnd(out)
    \/ \E c \in Callers : sfr[c].kind = "end" /\ spc[c] \notin {"flush", "flushPush"}
OwnFlush == \A c, d \in Callers : sfr[c].kind = "end" /\ d # c => popped[d].kind # "data"
NoData ==
    /\ \A f \in ToSet(buffered) : f.kind # "data"
    /\ \A c \in Callers : popped[c].kind # "data"

FlushInv == OwnFlush /\ (EndFlushed => NoData) /\ EndFlushes

\* What the lifecycle of the pipeline rests on.
LifeInv ==
    /\ ShapeInv /\ IdInv /\ CountInv /\ SystemInv /\ EndInv /\ CancelInv
    /\ ~EndRaised => NoOwnEnd /\ StartInv /\ FlushInv

\* What the goroutines of the parallel pipeline leave alone, what the sink calls
\* leave alone, and the frame a goroutine of a branch delivers next.
downstream == <<mergeVars, sinkVars, lane, raised, out>>
others == <<ownVars, gateVars, ids, raised>>
Front(c) == Head(lane[c])
=============================================================================
