------------------------------ MODULE Parallel ------------------------------
(***************************************************************************)
(* pipeline.ParallelPipeline: ProcessFrame fans every frame out to the     *)
(* branches, and the sink and source of each branch merge what comes back  *)
(* out.  Start, end and cancel frames are synchronized: frame handling is  *)
(* paused and what branches emit is buffered until every branch has        *)
(* reported the frame.                                                     *)
(*                                                                         *)
(* Its own two goroutines are those of Processor, with the pause gates cut *)
(* down to what a pause from another goroutine can race with.  A branch is *)
(* external: a chain of processors that keeps the order of its system      *)
(* frames and of its data and control frames (Processor), with processors  *)
(* in it that push frames of their own.  Its last processor calls the sink *)
(* from its input goroutine, from its process goroutine and from a         *)
(* goroutine of its own.                                                   *)
(***************************************************************************)
EXTENDS Naturals, Sequences

CONSTANTS
    N,             \* the number of branches
    Budgets,       \* how many frames of each kind may arrive
    Raised,        \* the kinds of frames a processor in a branch raises
    MaxRaised,     \* bound on those frames
    MaxIds         \* bound on all frames

(* "own" is a data frame, and "ownEnd" an EndFrame, that a processor in a  *)
(* branch pushes from a goroutine of its own.                              *)
Kinds == {"start", "system", "data", "end", "cancel", "own", "ownEnd"}
SystemKinds == {"start", "system", "cancel"}

(* isLifecycle *)
Lifecycle == {"start", "end", "cancel", "ownEnd"}

(* The ones ProcessFrame fans out.                                         *)
Fanned == {"start", "end", "cancel"}

Branches == 1..N

(* The gates of the two goroutines, and the goroutines that call a sink.   *)
Gates == {"system", "frames"}
Lanes == {"system", "frames", "own"}
Callers == Branches \X Lanes

Ids == 1..MaxIds

ASSUME BranchesAssumption == N \in Nat \ {0}
ASSUME ArrivalAssumption ==
    \A b \in Budgets :
        /\ b \in [Kinds -> Nat] /\ b["start"] <= 1
        /\ b["own"] = 0 /\ b["ownEnd"] = 0
ASSUME RaisedAssumption == Raised \subseteq {"data", "own", "ownEnd"}
ASSUME BoundsAssumption == MaxRaised \in Nat /\ MaxIds \in Nat

VARIABLES
    left, ids,     \* frames still to arrive, and ids given out so far
    inq,           \* the input queue: one sequence per tier
    procq,         \* the process queue
    block, ev,     \* the pause flags, and their events
    pc, hand, next,\* each goroutine's place, its frame, the next branch
    seen,          \* ids that have escaped, or are buffered
    counter,       \* branches still to report a frame; 0 when not in the map
    syncing, buffered,
    lane,          \* per branch, what its goroutines are about to deliver
    spc, sfr,      \* each sink call's place, and the frame it was given
    popped,        \* the buffered frame it is about to push
    raised,        \* the kinds of the frames raised so far, in order
    out            \* history: what escaped, in order

ownVars == <<left, inq, procq, pc, hand, next>>
gateVars == <<block, ev>>
mergeVars == <<seen, counter, syncing, buffered>>
sinkVars == <<spc, sfr, popped>>
vars == <<ownVars, gateVars, mergeVars, sinkVars, ids, lane, raised, out>>

(* The frames of a queue, and the queue with one more at place i.          *)
ToSet(s) == {s[i] : i \in 1..Len(s)}
InsertAt(s, i, f) == SubSeq(s, 1, i - 1) \o <<f>> \o SubSeq(s, i, Len(s))

Frame == [id : Ids, kind : Kinds]
NoFrame == [id |-> 0, kind |-> "none"]

Init ==
    /\ left \in Budgets /\ ids = 0
    /\ inq = [g \in Gates |-> <<>>] /\ procq = <<>>
    /\ block = [g \in Gates |-> FALSE] /\ ev = [g \in Gates |-> FALSE]
    /\ pc = [g \in Gates |-> "get"]
    /\ hand = [g \in Gates |-> NoFrame] /\ next = [g \in Gates |-> 0]
    /\ seen = {} /\ counter = [i \in Ids |-> 0] /\ syncing = FALSE /\ buffered = <<>>
    /\ lane = [c \in Callers |-> <<>>]
    /\ spc = [c \in Callers |-> "idle"] /\ sfr = [c \in Callers |-> NoFrame]
    /\ popped = [c \in Callers |-> NoFrame]
    /\ raised = <<>> /\ out = <<>>

-----------------------------------------------------------------------------
(* The goroutines of the parallel pipeline *)

(* A neighbour queues a frame; the StartFrame comes first (StartFirst of   *)
(* Processor), no data follows an EndFrame, and nothing is taken after a   *)
(* cancel.                                                                 *)
QueueFrame(k) ==
    /\ left[k] > 0 /\ ids < MaxIds
    /\ k # "start" => left["start"] = 0
    /\ k = "end" => left["data"] = 0
    /\ left' = [left EXCEPT ![k] = @ - 1]
    /\ ids' = ids + 1
    /\ LET tier == IF k \in SystemKinds THEN "system" ELSE "frames"
       IN  inq' = IF pc["frames"] = "stopped" THEN inq
                  ELSE [inq EXCEPT ![tier] =
                            Append(@, [id |-> ids + 1, kind |-> k])]
    /\ UNCHANGED <<procq, pc, hand, next, gateVars, mergeVars, sinkVars, lane,
                   raised, out>>

(* inputLoop and processLoop take a frame: system frames first.            *)
Take(g) ==
    /\ pc[g] = "get"
    /\ IF g = "system"
       THEN LET tier == IF inq["system"] # <<>> THEN "system" ELSE "frames"
            IN  /\ inq[tier] # <<>>
                /\ hand' = [hand EXCEPT ![g] = Head(inq[tier])]
                /\ inq' = [inq EXCEPT ![tier] = Tail(@)]
                /\ UNCHANGED procq
       ELSE /\ procq # <<>>
            /\ hand' = [hand EXCEPT ![g] = Head(procq)]
            /\ procq' = Tail(procq)
            /\ UNCHANGED inq
    /\ pc' = [pc EXCEPT ![g] = IF block[g] THEN "wait" ELSE "handle"]
    /\ UNCHANGED <<left, next, gateVars, mergeVars, sinkVars, ids, lane,
                   raised, out>>

(* waitWhilePaused: the event is set, and the loop then takes the pause    *)
(* back.                                                                   *)
Wake(g) ==
    /\ pc[g] = "wait" /\ ev[g]
    /\ pc' = [pc EXCEPT ![g] = "woken"]
    /\ UNCHANGED <<left, inq, procq, hand, next, gateVars, mergeVars,
                   sinkVars, ids, lane, raised, out>>

Unblock(g) ==
    /\ pc[g] = "woken"
    /\ ev' = [ev EXCEPT ![g] = FALSE]
    /\ block' = [block EXCEPT ![g] = FALSE]
    /\ pc' = [pc EXCEPT ![g] = "handle"]
    /\ UNCHANGED <<left, inq, procq, hand, next, mergeVars, sinkVars, ids,
                   lane, raised, out>>

(* inputLoop hands a data or control frame on to the process goroutine.    *)
Forward ==
    /\ pc["system"] = "handle"
    /\ hand["system"].kind \notin SystemKinds
    /\ procq' = IF pc["frames"] = "stopped" THEN procq
                ELSE Append(procq, hand["system"])
    /\ pc' = [pc EXCEPT !["system"] = "get"]
    /\ hand' = [hand EXCEPT !["system"] = NoFrame]
    /\ UNCHANGED <<left, inq, next, gateVars, mergeVars, sinkVars, ids,
                   lane, raised, out>>

(* Base.ProcessFrame of a CancelFrame: the process goroutine is stopped    *)
(* once it is out of ProcessFrame.                                         *)
StopProcessing ==
    /\ pc["system"] = "handle" /\ hand["system"].kind = "cancel"
    /\ pc["frames"] \in {"get", "wait", "woken"}
    /\ pc' = [pc EXCEPT !["frames"] = "stopped"]
    /\ procq' = <<>>
    /\ hand' = [hand EXCEPT !["frames"] = NoFrame]
    /\ UNCHANGED <<left, inq, next, gateVars, mergeVars, sinkVars, ids,
                   lane, raised, out>>

Handles(g) ==
    /\ pc[g] = "handle"
    /\ g = "system" => hand[g].kind \in SystemKinds
    /\ hand[g].kind = "cancel" => pc["frames"] = "stopped"

(* ProcessFrame of a lifecycle frame arms the counter ...                  *)
Arm(g) ==
    /\ Handles(g) /\ hand[g].kind \in Lifecycle
    /\ counter' = [counter EXCEPT ![hand[g].id] = N]
    /\ syncing' = TRUE
    /\ pc' = [pc EXCEPT ![g] = "pauseSystem"]
    /\ UNCHANGED <<left, inq, procq, hand, next, gateVars, seen, buffered,
                   sinkVars, ids, lane, raised, out>>

Pause(g) ==
    /\ block' = [block EXCEPT ![g] = TRUE]
    /\ ev' = [ev EXCEPT ![g] = FALSE]

(* ... and pauses both goroutines, one after the other.                    *)
PauseProcessing(g) ==
    /\ \/ pc[g] = "pauseSystem" /\ Pause("system")
          /\ pc' = [pc EXCEPT ![g] = "pauseFrames"] /\ UNCHANGED next
       \/ pc[g] = "pauseFrames" /\ Pause("frames")
          /\ pc' = [pc EXCEPT ![g] = "fan"] /\ next' = [next EXCEPT ![g] = 1]
    /\ UNCHANGED <<left, inq, procq, hand, mergeVars, sinkVars, ids, lane,
                   raised, out>>

(* Any other frame is fanned out at once.                                  *)
HandleOther(g) ==
    /\ Handles(g) /\ hand[g].kind \notin Lifecycle
    /\ pc' = [pc EXCEPT ![g] = "fan"] /\ next' = [next EXCEPT ![g] = 1]
    /\ UNCHANGED <<left, inq, procq, hand, gateVars, mergeVars, sinkVars, ids,
                   lane, raised, out>>

(* The frame is queued on the next branch.                                 *)
Fan(g) ==
    /\ pc[g] = "fan"
    /\ lane' = [lane EXCEPT ![<<next[g], g>>] = Append(@, hand[g])]
    /\ IF next[g] < N
       THEN next' = [next EXCEPT ![g] = @ + 1] /\ UNCHANGED <<pc, hand>>
       ELSE /\ next' = [next EXCEPT ![g] = 0]
            /\ pc' = [pc EXCEPT ![g] = "get"]
            /\ hand' = [hand EXCEPT ![g] = NoFrame]
    /\ UNCHANGED <<left, inq, procq, gateVars, mergeVars, sinkVars, ids,
                   raised, out>>

-----------------------------------------------------------------------------
(* The sinks and sources of the branches *)

(* The StartFrame has been queued on branch b.                             *)
Started(b) ==
    /\ left["start"] = 0
    /\ \A i \in 1..Len(inq["system"]) : inq["system"][i].kind # "start"
    /\ hand["system"].kind = "start" => next["system"] > b

(* Branch b has not delivered the EndFrame yet.                            *)
BeforeEnd(b) ==
    \/ left["end"] > 0
    \/ \E f \in ToSet(inq["frames"]) \cup ToSet(procq)
               \cup ToSet(lane[<<b, "frames">>]) \cup {hand["system"]}
               \cup (IF next["frames"] <= b THEN {hand["frames"]} ELSE {}) :
          f.kind = "end"

(* A processor in branch b pushes a frame of its own: as it handles the    *)
(* frames passing through it, ahead of the EndFrame it has not seen, or    *)
(* from a goroutine of its own.  One that connects during setup pushes     *)
(* before the StartFrame.                                                  *)
Raise(b, k) ==
    /\ k \in Raised /\ Len(raised) < MaxRaised /\ ids < MaxIds
    /\ k = "data" => BeforeEnd(b)
    /\ raised' = Append(raised, k)
    /\ ids' = ids + 1
    /\ LET f == [id |-> ids + 1, kind |-> k]
           c == <<b, IF k = "data" THEN "frames" ELSE "own">>
       IN  \E i \in 1..(Len(lane[c]) + 1) :
              /\ k = "data" => \A j \in 1..(i - 1) : lane[c][j].kind # "end"
              /\ lane' = [lane EXCEPT ![c] = InsertAt(@, i, f)]
    /\ UNCHANGED <<ownVars, gateVars, mergeVars, sinkVars, out>>

(* Nothing drains the queues of a processor until its StartFrame arrives.  *)
(* The last one of a branch passes that on before its process goroutine    *)
(* passes anything, and stops that goroutine before it passes a            *)
(* CancelFrame on.  The sink is in direct mode and holds nothing back, so  *)
(* a goroutine of its own may call it at any time.                         *)
MayDeliver(c) ==
    /\ spc[c] = "idle" /\ lane[c] # <<>>
    /\ c[2] = "frames" =>
          /\ Started(c[1])
          /\ sfr[<<c[1], "system">>].kind # "start"
          /\ \A i \in 1..Len(lane[<<c[1], "system">>]) :
                lane[<<c[1], "system">>][i].kind # "start"
    /\ Head(lane[c]).kind = "cancel" => spc[<<c[1], "frames">>] = "idle"

Delivered(c) ==
    IF Head(lane[c]).kind = "cancel"
    THEN [lane EXCEPT ![c] = Tail(@), ![<<c[1], "frames">>] = <<>>]
    ELSE [lane EXCEPT ![c] = Tail(@)]

SinkKeeps == <<ownVars, gateVars, ids, raised>>

(* Mutant of Emit: a frame that is pushed straight out is not recorded.    *)
EmitUnseen(c) ==
    /\ MayDeliver(c) /\ Head(lane[c]).kind \notin Lifecycle
    /\ lane' = Delivered(c)
    /\ LET f == Head(lane[c])
           new == f.id \notin seen
       IN  /\ seen' = IF syncing THEN seen \cup {f.id} ELSE seen
           /\ buffered' = IF new /\ syncing THEN Append(buffered, f)
                          ELSE buffered
           /\ IF new /\ ~syncing
              THEN /\ spc' = [spc EXCEPT ![c] = "push"]
                   /\ sfr' = [sfr EXCEPT ![c] = f]
              ELSE UNCHANGED <<spc, sfr>>
    /\ UNCHANGED <<SinkKeeps, counter, syncing, popped, out>>

(* emit: a frame seen before is dropped, one that arrives while a          *)
(* lifecycle frame is synchronized is buffered, any other is pushed.       *)
Emit(c) ==
    /\ MayDeliver(c) /\ Head(lane[c]).kind \notin Lifecycle
    /\ lane' = Delivered(c)
    /\ LET f == Head(lane[c])
           new == f.id \notin seen
       IN  /\ seen' = seen \cup {f.id}
           /\ buffered' = IF new /\ syncing THEN Append(buffered, f)
                          ELSE buffered
           /\ IF new /\ ~syncing
              THEN /\ spc' = [spc EXCEPT ![c] = "push"]
                   /\ sfr' = [sfr EXCEPT ![c] = f]
              ELSE UNCHANGED <<spc, sfr>>
    /\ UNCHANGED <<SinkKeeps, counter, syncing, popped, out>>

(* ... which happens after the lock is given back.                         *)
Push(c) ==
    /\ spc[c] = "push"
    /\ out' = Append(out, sfr[c])
    /\ spc' = [spc EXCEPT ![c] = "idle"]
    /\ sfr' = [sfr EXCEPT ![c] = NoFrame]
    /\ UNCHANGED <<SinkKeeps, mergeVars, lane, popped>>

(* Mutant of Report: what is buffered is flushed ahead of every lifecycle  *)
(* frame.                                                                  *)
ReportFlushes(c) ==
    /\ MayDeliver(c) /\ Head(lane[c]).kind \in Lifecycle
    /\ lane' = Delivered(c)
    /\ LET f == Head(lane[c])
           n == IF counter[f.id] > 0 THEN counter[f.id] - 1 ELSE 0
       IN  /\ counter' = [counter EXCEPT ![f.id] = n]
           /\ IF n > 0
              THEN UNCHANGED <<spc, sfr>>
              ELSE /\ spc' = [spc EXCEPT ![c] = "flush"]
                   /\ sfr' = [sfr EXCEPT ![c] = f]
    /\ UNCHANGED <<SinkKeeps, seen, syncing, buffered, popped, out>>

(* sinkPush of a lifecycle frame: the last branch to report it releases    *)
(* it, as does one the parallel pipeline never fanned out.                 *)
Report(c) ==
    /\ MayDeliver(c) /\ Head(lane[c]).kind \in Lifecycle
    /\ lane' = Delivered(c)
    /\ LET f == Head(lane[c])
           n == IF counter[f.id] > 0 THEN counter[f.id] - 1 ELSE 0
       IN  /\ counter' = [counter EXCEPT ![f.id] = n]
           /\ IF n > 0
              THEN UNCHANGED <<spc, sfr>>
              ELSE /\ spc' = [spc EXCEPT ![c] =
                                IF f.kind = "start" THEN "emit" ELSE "flush"]
                   /\ sfr' = [sfr EXCEPT ![c] = f]
    /\ UNCHANGED <<SinkKeeps, seen, syncing, buffered, popped, out>>

(* emitSynchronized: ahead of what is buffered for a StartFrame, after it  *)
(* for the others.                                                         *)
EmitSynchronized(c) ==
    /\ spc[c] = "emit"
    /\ seen' = seen \cup {sfr[c].id}
    /\ out' = IF sfr[c].id \in seen THEN out ELSE Append(out, sfr[c])
    /\ spc' = [spc EXCEPT ![c] =
                  IF sfr[c].kind = "start" THEN "flush" ELSE "resumeSystem"]
    /\ UNCHANGED <<SinkKeeps, counter, syncing, buffered, lane, sfr, popped>>

(* flushBuffered takes the buffered frames one by one, and ends the        *)
(* synchronization when there are none.                                    *)
FlushNext(c) ==
    /\ spc[c] = "flush" /\ buffered # <<>>
    /\ popped' = [popped EXCEPT ![c] = Head(buffered)]
    /\ buffered' = Tail(buffered)
    /\ spc' = [spc EXCEPT ![c] = "flushPush"]
    /\ UNCHANGED <<SinkKeeps, seen, counter, syncing, lane, sfr, out>>

FlushPush(c) ==
    /\ spc[c] = "flushPush"
    /\ out' = Append(out, popped[c])
    /\ popped' = [popped EXCEPT ![c] = NoFrame]
    /\ spc' = [spc EXCEPT ![c] = "flush"]
    /\ UNCHANGED <<SinkKeeps, mergeVars, lane, sfr>>

FlushDone(c) ==
    /\ spc[c] = "flush" /\ buffered = <<>>
    /\ syncing' = FALSE
    /\ spc' = [spc EXCEPT ![c] =
                  IF sfr[c].kind = "start" THEN "resumeSystem" ELSE "emit"]
    /\ UNCHANGED <<SinkKeeps, seen, counter, buffered, lane, sfr, popped, out>>

(* Mutant of Resume: only the input goroutine is released.                 *)
ResumeInput(c) ==
    /\ spc[c] = "resumeSystem"
    /\ ev' = [ev EXCEPT !["system"] = TRUE]
    /\ spc' = [spc EXCEPT ![c] = "idle"]
    /\ sfr' = [sfr EXCEPT ![c] = NoFrame]
    /\ UNCHANGED <<ownVars, block, ids, raised, mergeVars, lane, popped, out>>

(* The two goroutines are released, one after the other.                   *)
Resume(c) ==
    /\ \/ /\ spc[c] = "resumeSystem"
          /\ ev' = [ev EXCEPT !["system"] = TRUE]
          /\ spc' = [spc EXCEPT ![c] = "resumeFrames"]
          /\ UNCHANGED sfr
       \/ /\ spc[c] = "resumeFrames"
          /\ ev' = [ev EXCEPT !["frames"] = TRUE]
          /\ spc' = [spc EXCEPT ![c] = "idle"]
          /\ sfr' = [sfr EXCEPT ![c] = NoFrame]
    /\ UNCHANGED <<ownVars, block, ids, raised, mergeVars, lane, popped, out>>

-----------------------------------------------------------------------------
Own(g) ==
    \/ Take(g) \/ Wake(g) \/ Unblock(g)
    \/ Arm(g) \/ PauseProcessing(g) \/ HandleOther(g) \/ Fan(g)

Sink(c) ==
    \/ Emit(c) \/ Push(c) \/ Report(c) \/ EmitSynchronized(c)
    \/ FlushNext(c) \/ FlushPush(c) \/ FlushDone(c) \/ Resume(c)

Next ==
    \/ \E k \in Kinds : QueueFrame(k)
    \/ \E g \in Gates : Own(g)
    \/ Forward \/ StopProcessing
    \/ \E b \in Branches, k \in Kinds : Raise(b, k)
    \/ \E c \in Callers : Sink(c)

Spec == Init /\ [][Next]_vars

(* The goroutines of the parallel pipeline run; the neighbours and the     *)
(* processors in the branches owe nothing.  No step is ever undone, so no  *)
(* behaviour goes on for ever and it is enough that it does not stop while *)
(* one of them can take a step.                                            *)
Progress ==
    \/ \E g \in Gates : Own(g)
    \/ Forward \/ StopProcessing
    \/ \E c \in Callers : Sink(c)

LiveSpec == Spec /\ WF_vars(Progress)

-----------------------------------------------------------------------------
Places == {"get", "wait", "woken", "handle", "pauseSystem", "pauseFrames",
           "fan", "stopped"}
SinkPlaces == {"idle", "push", "emit", "flush", "flushPush", "resumeSystem",
               "resumeFrames"}

(* Every variable keeps its type, a goroutine that handles a frame holds   *)
(* one, and what is buffered has been seen.                                *)
TypeOK ==
    /\ left \in [Kinds -> Nat] /\ ids \in Nat
    /\ inq \in [Gates -> Seq(Frame)] /\ procq \in Seq(Frame)
    /\ block \in [Gates -> BOOLEAN] /\ ev \in [Gates -> BOOLEAN]
    /\ pc \in [Gates -> Places] /\ next \in [Gates -> 0..N]
    /\ hand \in [Gates -> Frame \cup {NoFrame}]
    /\ seen \subseteq Ids /\ counter \in [Ids -> 0..N]
    /\ syncing \in BOOLEAN /\ buffered \in Seq(Frame)
    /\ lane \in [Callers -> Seq(Frame)]
    /\ spc \in [Callers -> SinkPlaces]
    /\ sfr \in [Callers -> Frame \cup {NoFrame}]
    /\ popped \in [Callers -> Frame \cup {NoFrame}]
    /\ raised \in Seq(Raised) /\ Len(raised) <= MaxRaised /\ out \in Seq(Frame)

Escaped == ToSet(out)

(* "A frame that more than one branch forwards unchanged escapes only      *)
(* once", buffered ones included.                                          *)
EscapesOnce == \A i, j \in 1..Len(out) : out[i].id = out[j].id => i = j

(* sinkPush: "a StartFrame must precede the frames buffered behind it".    *)
(* Nothing the branches were given, and nothing their processors push as   *)
(* they handle frames, gets out before it: only what a processor pushes    *)
(* from a goroutine of its own, while it is set up say, may.               *)
StartFirst ==
    \A i \in 1..Len(out) :
        out[i].kind # "own" => \E j \in 1..i : out[j].kind = "start"

(* A StartFrame, EndFrame or CancelFrame continues "only once every branch *)
(* has processed it".                                                      *)
SyncedByAll ==
    \A f \in Escaped :
        f.kind \in Fanned =>
            /\ \A g \in Gates : hand[g] # f
            /\ \A c \in Callers : f \notin ToSet(lane[c])

(* The EndFrame never escapes "while a slower branch still had output to   *)
(* flush": what was queued ahead of it has gone out before it.             *)
EndFlushes ==
    \A i, j \in 1..Len(out) :
        out[i].kind = "end" /\ out[j].kind = "data" => j < i

(* "something inside it that ends the session" has raised an EndFrame.     *)
EndRaised == "ownEnd" \in ToSet(raised)

(* The frames every branch has to see: a lifecycle frame gets out once all *)
(* branches have passed it (SyncedByAll), nothing gets out before the      *)
(* start (StartFirst), and nothing that went in ahead of the end is left   *)
(* behind it (EndFlushes).  An EndFrame a branch raised is released at     *)
(* once, and ends the synchronization of another: the last two are         *)
(* promised until then.                                                    *)
LifecycleSynced == SyncedByAll /\ (~EndRaised => StartFirst /\ EndFlushes)

(* Pausing never strands a frame: every frame queued on the parallel       *)
(* pipeline is fanned out, what branches emit escapes, and no buffered     *)
(* frame is left behind, unless a CancelFrame has stopped it.  What a      *)
(* branch has queued before the StartFrame waits for that.                 *)
Drains ==
    <>[](/\ inq["system"] = <<>>
         /\ pc["frames"] # "stopped" =>
               inq["frames"] = <<>> /\ procq = <<>>
         /\ pc["system"] = "get" /\ pc["frames"] \in {"get", "stopped"}
         /\ ~syncing /\ buffered = <<>>
         /\ \A c \in Callers :
               /\ spc[c] = "idle"
               /\ c[2] = "frames" => left["start"] = 1 \/ lane[c] = <<>>
               /\ c[2] # "frames" => lane[c] = <<>>)
=============================================================================
