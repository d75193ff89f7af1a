------------------------------- MODULE Output -------------------------------
(***************************************************************************)
(* One destination of an output transport (transport/output.go,            *)
(* mediasender.go, framequeue.go and clockqueue.go).  The frame goroutine  *)
(* cuts audio into chunks and queues them; an audio loop paces the queue   *)
(* out to the peer and reports when the bot holds the floor; a clock       *)
(* delivers timed frames; the input goroutine handles interruptions.       *)
(***************************************************************************)
EXTENDS Naturals, SequencesExt, FiniteSetsExt

CONSTANTS
    Scenarios,  \* the frames of a behaviour and the faults it may meet
    ChunkSize   \* bytes in a chunk

VARIABLES
    sc,      \* the scenario: frames, mixer, interrupts, dies
    fg,      \* the frame goroutine: frames to come, the one in hand, its steps
    buffer,  \* audio that does not fill a chunk yet
    queue,   \* audioOut
    loop,    \* the audio loop
    bot,     \* botSpeaking and ttsAudioReceived
    saying,  \* per goroutine, a change of the floor still to be broadcast
    drained, \* drainWait: none, waiting, done
    clock,   \* clockQ: the timed frames waiting, and the one in hand
    usable,  \* the transport has not been written off
    ig,      \* the input goroutine, the interruptions left, and of the last one
             \* the frames handled before it and what had been heard by then
    heard, reports, out \* what went to the peer, what was broadcast, what was passed on

peer == <<heard, reports, out>>
sound == <<buffer, queue>>
floor == <<bot, saying>>
rest == <<sc, clock, usable>>
vars == <<sc, fg, buffer, queue, loop, bot, saying, drained, clock, usable,
          ig, heard, reports, out>>

(* A byte of audio is known by the frame it came in and its place there;   *)
(* an item of the queue is a chunk or a frame.                             *)
Kind(n) == sc.frames[n].kind
Bytes(n) == [k \in 1..sc.frames[n].size |-> <<n, k>>]
Chunk(s) == [k |-> "audio", n |-> 0, bytes |-> s]
Plain(k, n) == [k |-> k, n |-> n, bytes |-> <<>>]
Kept(n) == Kind(n) \in {"unint", "end"}

(* What ProcessFrame does with a frame, step by step.                      *)
Steps(kind) ==
    CASE kind = "audio" -> <<"audio">>
      [] kind = "stopped" -> <<"tail", "enqueue">>
      [] kind \in {"sync", "unint"} -> <<"enqueue">>
      [] kind = "timed" -> <<"clock">>
      [] kind = "end" -> <<"tail", "mark", "wait", "stop", "cancel", "join", "push">>

Init ==
    /\ sc \in Scenarios
    /\ fg = [rest |-> [n \in 1..Len(sc.frames) |-> n], cur |-> 0, todo |-> <<>>]
    /\ buffer = <<>> /\ queue = <<>>
    /\ loop = [pc |-> "get", item |-> Plain("none", 0), canceled |-> FALSE]
    /\ bot = [speaking |-> FALSE, tts |-> FALSE]
    /\ saying = [t \in {"loop", "input", "frames"} |-> "nothing"]
    /\ drained = "none"
    /\ clock = [waiting |-> {}, hand |-> 0]
    /\ usable = TRUE
    /\ ig = [pc |-> "idle", left |-> sc.interrupts, cut |-> 0, at |-> 0]
    /\ heard = <<>> /\ reports = <<>> /\ out = <<>>

-----------------------------------------------------------------------------
(* The floor.  The flag changes under a lock; the frame that says so is    *)
(* broadcast after the lock is released.                                   *)

StartSpeaking(t) ==
    /\ bot' = [speaking |-> TRUE, tts |-> TRUE]
    /\ saying' = [saying EXCEPT ![t] = IF bot.speaking THEN @ ELSE "started"]

(* Mutant: giving up the floor is reported whether or not it was held.     *)
StopAgain(t) ==
    /\ bot' = [speaking |-> FALSE, tts |-> FALSE]
    /\ buffer' = <<>>
    /\ saying' = [saying EXCEPT ![t] = "stopped"]

(* botStoppedSpeaking also drops what is buffered.                         *)
StopSpeaking(t) ==
    IF bot.speaking
    THEN /\ bot' = [speaking |-> FALSE, tts |-> FALSE]
         /\ buffer' = <<>>
         /\ saying' = [saying EXCEPT ![t] = "stopped"]
    ELSE UNCHANGED <<floor, buffer>>

Silent(t) == saying[t] = "nothing"

Broadcast(t) ==
    /\ ~Silent(t)
    /\ reports' = Append(reports, saying[t])
    /\ saying' = [saying EXCEPT ![t] = "nothing"]
    /\ UNCHANGED <<rest, fg, sound, loop, bot, drained, ig, heard, out>>

-----------------------------------------------------------------------------
(* The frame goroutine.                                                    *)

Step(s) ==
    /\ fg.todo # <<>> /\ Head(fg.todo) = s /\ Silent("frames")
    /\ fg' = [fg EXCEPT !.todo = Tail(@)]

(* drainAudio goes by the loop that runs when the EndFrame comes.          *)
TakeFrame ==
    /\ fg.todo = <<>> /\ fg.rest # <<>> /\ Silent("frames") /\ ig.pc # "await"
    /\ LET n == Head(fg.rest) IN
       /\ fg' = [rest |-> Tail(fg.rest), cur |-> n, todo |-> Steps(Kind(n))]
       /\ drained' = IF Kind(n) = "end" /\ loop.canceled THEN "done" ELSE drained
    /\ UNCHANGED <<rest, sound, loop, floor, ig, peer>>

(* Mutant: the rest stays buffered though it was queued.                   *)
HandleAudioTwice ==
    /\ Step("audio")
    /\ LET all == buffer \o Bytes(fg.cur)
           whole == Len(all) \div ChunkSize IN
       /\ queue' = queue \o [n \in 1..whole |->
                      Chunk(SubSeq(all, (n - 1) * ChunkSize + 1, n * ChunkSize))]
       /\ buffer' = SubSeq(all, (whole - 1) * ChunkSize + 1, Len(all))
    /\ UNCHANGED <<rest, loop, floor, drained, ig, peer>>

(* handleAudioFrame: whole chunks are queued, what is left stays buffered. *)
HandleAudioFrame ==
    /\ Step("audio")
    /\ LET all == buffer \o Bytes(fg.cur)
           whole == Len(all) \div ChunkSize IN
       /\ queue' = queue \o [n \in 1..whole |->
                      Chunk(SubSeq(all, (n - 1) * ChunkSize + 1, n * ChunkSize))]
       /\ buffer' = SubSeq(all, whole * ChunkSize + 1, Len(all))
    /\ UNCHANGED <<rest, loop, floor, drained, ig, peer>>

(* enqueueFlushedAudioBuffer: what is left is padded out and queued.       *)
EnqueueFlushedAudioBuffer ==
    /\ Step("tail")
    /\ queue' = IF buffer = <<>> THEN queue ELSE Append(queue, Chunk(buffer))
    /\ buffer' = <<>>
    /\ UNCHANGED <<rest, loop, floor, drained, ig, peer>>

(* handleTTSStopped and handleSyncFrame queue the frame behind the audio.  *)
EnqueueFrame ==
    /\ Step("enqueue")
    /\ queue' = Append(queue, Plain(Kind(fg.cur), fg.cur))
    /\ UNCHANGED <<rest, buffer, loop, floor, drained, ig, peer>>

(* A frame with a timestamp waits on the clock.                            *)
ClockPush ==
    /\ Step("clock")
    /\ clock' = [clock EXCEPT !.waiting = @ \cup {fg.cur}]
    /\ UNCHANGED <<sc, usable, sound, loop, floor, drained, ig, peer>>

(* drainAudio: a marker behind what is queued; the wait for it ends early  *)
(* when the loop it was started under is canceled.                         *)
QueueDrainMarker ==
    /\ Step("mark")
    /\ queue' = Append(queue, Plain("marker", 0))
    /\ drained' = IF drained = "none" THEN "waiting" ELSE drained
    /\ UNCHANGED <<rest, buffer, loop, floor, ig, peer>>

AwaitDrained ==
    /\ Step("wait") /\ drained = "done"
    /\ UNCHANGED <<rest, sound, loop, floor, drained, ig, peer>>

(* stop: the floor is given up, the loop canceled and waited for under     *)
(* lifeMu, and the clock stopped with what it holds.                       *)
GiveUpFloor ==
    /\ Step("stop")
    /\ StopSpeaking("frames")
    /\ UNCHANGED <<rest, queue, loop, drained, ig, peer>>

CancelLoop ==
    /\ Step("cancel") /\ ig.pc # "join"
    /\ loop' = [loop EXCEPT !.canceled = TRUE]
    /\ UNCHANGED <<rest, sound, floor, drained, ig, peer>>

JoinLoop ==
    /\ Step("join") /\ loop.pc = "gone" /\ clock.hand = 0
    /\ clock' = [clock EXCEPT !.waiting = {}]
    /\ UNCHANGED <<sc, usable, sound, loop, floor, drained, ig, peer>>

PushEnd ==
    /\ Step("push")
    /\ out' = Append(out, Plain("end", fg.cur))
    /\ UNCHANGED <<rest, sound, loop, floor, drained, ig, heard, reports>>

FrameStep ==
    \/ TakeFrame \/ HandleAudioFrame \/ EnqueueFlushedAudioBuffer
    \/ EnqueueFrame \/ ClockPush \/ QueueDrainMarker \/ AwaitDrained
    \/ GiveUpFloor \/ CancelLoop \/ JoinLoop \/ PushEnd \/ Broadcast("frames")

-----------------------------------------------------------------------------
(* The audio loop, with or without a mixer; what a mixer fills the gaps    *)
(* with is not the bot's audio and is left out.                            *)

Loop(from, to) == loop.pc = from /\ Silent("loop") /\ loop' = [loop EXCEPT !.pc = to]

(* A cancellation is looked for before the queue.                          *)
LoopEnds ==
    /\ Loop("get", "gone") /\ loop.canceled
    /\ UNCHANGED <<rest, fg, sound, floor, drained, ig, peer>>

LoopGet ==
    /\ loop.pc = "get" /\ ~loop.canceled /\ queue # <<>> /\ Silent("loop")
    /\ queue' = Tail(queue)
    /\ loop' = [loop EXCEPT !.pc = "handle", !.item = Head(queue)]
    /\ UNCHANGED <<rest, fg, buffer, floor, drained, ig, peer>>

(* Nothing has been queued for botVADStopFallback.                         *)
LoopIdle ==
    /\ Loop("get", "get") /\ ~loop.canceled /\ queue = <<>>
    /\ sc.gaps /\ bot.speaking
    /\ StopSpeaking("loop")
    /\ UNCHANGED <<rest, fg, queue, drained, ig, peer>>

(* Mutant: nobody is told that the marker was reached.                     *)
SignalNobody ==
    /\ Loop("handle", "get") /\ loop.item.k = "marker"
    /\ UNCHANGED <<rest, fg, sound, floor, drained, ig, peer>>

SignalDrained ==
    /\ Loop("handle", "get") /\ loop.item.k = "marker"
    /\ drained' = "done"
    /\ UNCHANGED <<rest, fg, sound, floor, ig, peer>>

(* handleQueuedFrame: the frame's effect on the floor, ...                 *)
HandleQueuedFrame ==
    /\ Loop("handle", "write") /\ loop.item.k # "marker"
    /\ CASE loop.item.k = "audio" -> StartSpeaking("loop") /\ UNCHANGED buffer
         [] loop.item.k = "stopped" /\ bot.tts -> StopSpeaking("loop")
         [] OTHER -> UNCHANGED <<floor, buffer>>
    /\ UNCHANGED <<rest, fg, queue, drained, ig, peer>>

(* ... the write of its audio, which a canceled loop abandons and which is *)
(* skipped once the transport is unusable, and the frame passed on.        *)
WriteAudio ==
    /\ loop.pc = "write" /\ Silent("loop")
    /\ loop' = [loop EXCEPT !.pc = IF loop.canceled THEN "gone" ELSE "get"]
    /\ IF loop.canceled THEN UNCHANGED <<heard, out>>
       ELSE /\ heard' = IF usable THEN heard \o loop.item.bytes ELSE heard
            /\ out' = IF loop.item.k = "audio" THEN out ELSE Append(out, loop.item)
    /\ UNCHANGED <<rest, fg, sound, floor, drained, ig, reports>>

(* A write that times out costs the transport its usability.               *)
WriteTimeout ==
    /\ Loop("write", "get") /\ ~loop.canceled
    /\ loop.item.k = "audio" /\ usable /\ sc.dies
    /\ usable' = FALSE
    /\ UNCHANGED <<sc, clock, fg, sound, floor, drained, ig, peer>>

LoopStep ==
    \/ LoopEnds \/ LoopGet \/ LoopIdle \/ SignalDrained \/ HandleQueuedFrame
    \/ WriteAudio \/ WriteTimeout \/ Broadcast("loop")

-----------------------------------------------------------------------------
(* The clock's goroutine: the earliest frame is taken when its time has    *)
(* come and pushed after that.  take() fails unless the frame is still the *)
(* earliest, so looking and taking is one step.                            *)

ClockTake ==
    /\ clock.hand = 0 /\ clock.waiting # {}
    /\ ~(fg.todo # <<>> /\ Head(fg.todo) = "push")
    /\ LET n == Min(clock.waiting) IN
       clock' = [waiting |-> clock.waiting \ {n}, hand |-> n]
    /\ UNCHANGED <<sc, fg, sound, loop, floor, drained, usable, ig, peer>>

ClockDeliver ==
    /\ clock.hand # 0
    /\ out' = Append(out, Plain("timed", clock.hand))
    /\ clock' = [clock EXCEPT !.hand = 0]
    /\ UNCHANGED <<sc, fg, sound, loop, floor, drained, usable, ig, heard, reports>>

-----------------------------------------------------------------------------
(* The input goroutine.                                                    *)

InputAt(from, to) == ig.pc = from /\ ig' = [ig EXCEPT !.pc = to]

(* startInterruption: a frame that must be delivered is left to finish,    *)
(* any other is waited for; the frames that have arrived are dropped.      *)
Interrupt ==
    /\ ig.pc = "idle" /\ ig.left > 0
    /\ ig' = [ig EXCEPT !.pc = IF fg.todo # <<>> /\ Kept(fg.cur) THEN "push" ELSE "await",
                        !.left = @ - 1]
    /\ UNCHANGED <<rest, fg, sound, loop, floor, drained, peer>>

ProcessInterruption ==
    /\ ig.pc \in {"push", "await"} /\ (ig.pc = "await" => fg.todo = <<>>)
    /\ ig' = [ig EXCEPT !.pc = "clear",
                        !.cut = IF fg.todo = <<>> THEN fg.cur ELSE fg.cur - 1]
    /\ \E arrived \in 0..Len(fg.rest) :
          fg' = [fg EXCEPT !.rest = SelectSeq(SubSeq(@, 1, arrived), Kept)
                                    \o SubSeq(@, arrived + 1, Len(@))]
    /\ out' = Append(out, Plain("interruption", 0))
    /\ UNCHANGED <<rest, sound, loop, floor, drained, heard, reports>>

MustDeliver(i) == i.k = "unint"

(* handleInterruption: with a mixer, or with a frame queued that must be   *)
(* delivered, the rest of the queue is dropped and the loop goes on;       *)
(* otherwise the loop is restarted.                                        *)
HandleInterruption ==
    /\ ig.pc = "clear"
    /\ IF sc.mixer \/ \E n \in 1..Len(queue) : MustDeliver(queue[n])
       THEN /\ queue' = SelectSeq(queue, MustDeliver)
            /\ ig' = [ig EXCEPT !.pc = "stop", !.at = Len(heard)]
       ELSE queue' = queue /\ ig' = [ig EXCEPT !.pc = "restart"]
    /\ buffer' = <<>>
    /\ clock' = [clock EXCEPT !.waiting = {}]
    /\ UNCHANGED <<sc, usable, fg, loop, floor, drained, peer>>

(* restartAudioLoop, under lifeMu; a stopped sender has no loop to restart. *)
CancelForRestart ==
    /\ ~loop.canceled
    /\ ig.pc = "restart"
    /\ ig' = [ig EXCEPT !.pc = "join", !.at = Len(heard)]
    /\ loop' = [loop EXCEPT !.canceled = TRUE]
    /\ drained' = IF fg.todo # <<>> /\ Kind(fg.cur) = "end" THEN "done" ELSE drained
    /\ UNCHANGED <<rest, fg, sound, floor, peer>>

NothingToRestart ==
    /\ loop.canceled
    /\ ig.pc = "restart"
    /\ ig' = [ig EXCEPT !.pc = "stop", !.at = Len(heard)]
    /\ UNCHANGED <<rest, fg, sound, loop, floor, drained, peer>>

RestartLoop ==
    /\ loop.pc = "gone"
    /\ InputAt("join", "stop")
    /\ queue' = <<>>
    /\ loop' = [loop EXCEPT !.pc = "get", !.canceled = FALSE]
    /\ UNCHANGED <<rest, fg, buffer, floor, drained, peer>>

InterruptionStopsBot ==
    /\ InputAt("stop", "said")
    /\ StopSpeaking("input")
    /\ UNCHANGED <<rest, fg, queue, loop, drained, peer>>

InterruptionDone ==
    /\ Silent("input")
    /\ InputAt("said", "idle")
    /\ UNCHANGED <<rest, fg, sound, loop, floor, drained, peer>>

InputStep ==
    \/ ProcessInterruption \/ HandleInterruption \/ CancelForRestart
    \/ NothingToRestart \/ RestartLoop \/ InterruptionStopsBot
    \/ InterruptionDone \/ Broadcast("input")

Next == FrameStep \/ LoopStep \/ ClockTake \/ ClockDeliver \/ Interrupt \/ InputStep

Spec == Init /\ [][Next]_vars

(* The goroutines go on; interruptions need not come.                      *)
FairSpec ==
    /\ Spec
    /\ WF_vars(FrameStep) /\ WF_vars(LoopStep) /\ WF_vars(InputStep)
    /\ WF_vars(ClockTake) /\ WF_vars(ClockDeliver)

-----------------------------------------------------------------------------
(* Properties.                                                             *)

Interrupted == ig.left < sc.interrupts
Ended == \E n \in 1..Len(out) : out[n].k = "end"
HasUnint == \E n \in 1..Len(sc.frames) : Kind(n) = "unint"
OneTurn == \A m, n \in 1..Len(sc.frames) :
              m < n /\ Kind(m) = "stopped" => Kind(n) # "audio"
AllBytes == FlattenSeq([n \in 1..Len(sc.frames) |-> Bytes(n)])

(* Audio reaches the peer in the order it was handed to the output, without *)
(* a byte twice (handleAudioFrame, audioLoop).                             *)
InOrder ==
    \A i, j \in 1..Len(heard) :
        i < j => \/ heard[i][1] < heard[j][1]
                 \/ heard[i][1] = heard[j][1] /\ heard[i][2] < heard[j][2]

(* An EndFrame that was not interrupted leaves the output only after every *)
(* byte of a turn before it was written (drainAudio), tail included.       *)
EndPlaysOut ==
    Ended /\ ~Interrupted /\ usable /\ ~sc.gaps /\ OneTurn => heard = AllBytes

(* A TTSStoppedFrame is passed on only after all the audio it ends was     *)
(* written (handleTTSStopped).                                             *)
TurnPlaysOut ==
    \A n \in 1..Len(out) :
        out[n].k = "stopped" /\ ~Interrupted /\ usable /\ ~sc.gaps /\ OneTurn =>
            \A m \in 1..out[n].n : \A k \in 1..sc.frames[m].size :
                <<m, k>> \in ToSet(heard)

(* Without an interruption the bot's taking and giving up the floor are    *)
(* reported in turn, though the loop, the idle timer and a stop report     *)
(* them, and the session does not end with the bot still reported speaking. *)
FloorReported ==
    ~Interrupted =>
        /\ \A n \in 1..Len(reports) :
              reports[n] = IF n % 2 = 1 THEN "started" ELSE "stopped"
        /\ Ended /\ reports # <<>> => Last(reports) = "stopped"

(* A barge-in cuts the bot off (handleInterruption): of the audio handed to *)
(* the output before it nothing more is written once the loop is told, and *)
(* at most the chunk in its hand where the loop has to go on.              *)
CutOff ==
    ig.pc \in {"idle", "join", "stop", "said"} =>
        LET late == {i \in ig.at + 1..Len(heard) : heard[i][1] <= ig.cut} IN
        Cardinality(late) <= IF sc.mixer \/ HasUnint THEN ChunkSize ELSE 0

EndGetsThrough == Ended \/ (sc.interrupts > 0 /\ (sc.mixer \/ HasUnint))

(* The EndFrame gets through, whether or not the peer still reads, where   *)
(* nothing clears the queue under its drain (drainAudio, writeAudio).      *)
SessionEnds == <>EndGetsThrough

(* drainAudio: "A CancelFrame or an interruption skips it and stops at      *)
(* once", so the EndFrame gets through whatever interrupts it.             *)
InterruptedSessionEnds == <>Ended

(* With a mixer playing, a frame that must be delivered is, though the bot *)
(* is interrupted (handleInterruption).                                    *)
Delivered ==
    sc.mixer => \A n \in 1..Len(sc.frames) :
                   Kind(n) = "unint" => \E m \in 1..Len(out) : out[m].n = n
=============================================================================
