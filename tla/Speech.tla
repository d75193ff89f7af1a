------------------------------- MODULE Speech -------------------------------
(***************************************************************************)
(* How a text-to-speech service turns frames into speech (service/tts).    *)
(* Text is synthesized on audio contexts, one to a turn or utterance; a    *)
(* serialization queue keeps contexts and frames in the order they came,   *)
(* and a drain loop plays them.  Four goroutines share this state: the one *)
(* handling data frames, the drain loop, the input goroutine (which runs   *)
(* interruptions and the reports of the bot's playback) and the receive    *)
(* loop of a provider that delivers its audio later.                       *)
(***************************************************************************)
EXTENDS Naturals, Sequences, FiniteSets

CONSTANTS
    Scenarios,  \* the frames, the provider and the faults of a behaviour
    Contexts    \* ids of audio contexts: 1..n; 0 is no context

VARIABLES
    sc,      \* the scenario
    fr,      \* the frame goroutine: frames taken, the steps left of this one
    sv,      \* the service's own fields
    open,    \* audioContexts: the ids that are open
    items,   \* context -> what it holds
    serial,  \* the serialization queue
    loop,    \* the drain loop
    held,    \* pendingResponseEnd: contexts a response end waits for
    ig,      \* the input goroutine
    paused,  \* frame handling is paused
    prov,    \* the provider's receive loop
    play,    \* the output: audio not played yet, what it reported
    out,     \* what went downstream, in order
    cut,     \* contexts an interruption found open
    told     \* contexts the provider was told were interrupted

vars == <<sc, fr, sv, open, items, serial, loop, held, ig, paused, prov, play,
          out, cut, told>>

contexts == <<open, items, serial>>
output == <<play, out>>
history == <<cut, told>>
others == <<sc, history, prov>>

Item(k, c, u) == [k |-> k, c |-> c, u |-> u]

(* The steps of each handler.  A step is what it does between two points   *)
(* where another goroutine can come in.                                    *)
Unit == <<"announce", "open", "run", "said">>
Steps(kind) ==
    CASE kind = "start" -> <<"begin", "serial">>
      [] kind = "text"  -> Unit
      [] kind = "part"  -> <<"buffer">>
      [] kind = "end"   -> <<"flush", "check", "pause", "close", "hold">>
      [] kind = "speak" -> <<"utter">> \o Unit \o <<"close", "check", "pause", "restore">>
      [] kind = "other" -> <<"serial">>
      [] kind = "stop"  -> <<"drain", "drained", "flush", "check", "pause", "close", "push">>

NewLoop(g) == [gen |-> g, pc |-> "get", c |-> 0, started |-> FALSE, heard |-> FALSE,
               canceled |-> FALSE]

Init ==
    /\ sc \in Scenarios
    /\ fr = [pos |-> 0, todo |-> <<>>, c |-> 0, u |-> 0, turn |-> 0, opening |-> FALSE,
             pausing |-> FALSE, saved |-> 0, savedText |-> FALSE, gen |-> 0,
             canceled |-> FALSE]
    /\ sv = [turn |-> 0, ids |-> 0, text |-> FALSE, responding |-> FALSE,
             speaking |-> FALSE, sync |-> FALSE, buffered |-> 0]
    /\ open = {} /\ items = [c \in Contexts |-> <<>>]
    /\ serial = <<>> /\ loop = NewLoop(0) /\ held = {}
    /\ ig = [pc |-> "idle", left |-> sc.interrupts] /\ paused = FALSE
    /\ prov = [asked |-> <<>>, final |-> {}]
    /\ play = [queued |-> 0, speaking |-> FALSE, reports |-> <<>>]
    /\ out = <<>> /\ cut = {} /\ told = {}

-----------------------------------------------------------------------------
(* The frame goroutine.                                                    *)

Kind == sc.frames[fr.pos]
At(step) == fr.todo # <<>> /\ Head(fr.todo) = step
Done == [fr EXCEPT !.todo = Tail(@)]
Queue(i) == serial' = Append(serial, i)
Into(c, s) == items' = IF c \in open THEN [items EXCEPT ![c] = @ \o s] ELSE items

TakeFrame ==
    /\ ~paused /\ fr.todo = <<>> /\ fr.pos < Len(sc.frames)
    /\ ig.pc \notin {"cancel", "await"}
    /\ fr' = [fr EXCEPT !.pos = @ + 1, !.todo = Steps(sc.frames[fr.pos + 1]),
                        !.u = fr.pos + 1, !.c = 0, !.canceled = FALSE]
    /\ UNCHANGED <<others, sv, contexts, loop, held, ig, paused, output>>

(* createContextID: the context of the turn, kept from idling, or a fresh  *)
(* one.                                                                    *)
ContextID == IF sv.turn # 0 THEN sv.turn ELSE sv.ids + 1
Refresh == Into(sv.turn, <<Item("keepalive", sv.turn, 0)>>)

(* The start of a response opens a turn.                                   *)
Begin ==
    /\ At("begin") /\ fr' = Done
    /\ sv' = [sv EXCEPT !.responding = TRUE, !.turn = ContextID,
                        !.ids = IF sv.turn = 0 THEN @ + 1 ELSE @]
    /\ Refresh
    /\ UNCHANGED <<others, open, serial, loop, held, ig, paused, output>>

(* queueSerial of a frame that is not a system frame.                      *)
QueueSerial ==
    /\ At("serial") /\ fr' = Done
    /\ Queue(Item(Kind, 0, fr.pos))
    /\ UNCHANGED <<others, sv, open, items, loop, held, ig, paused, output>>

(* aggregate, for text that completes no sentence.                         *)
Buffer ==
    /\ At("buffer") /\ fr' = Done
    /\ sv' = [sv EXCEPT !.buffered = fr.pos]
    /\ UNCHANGED <<others, contexts, loop, held, ig, paused, output>>

(* flush: what did not land on a boundary is synthesized after all.        *)
Flush ==
    /\ At("flush")
    /\ fr' = IF sv.buffered = 0 THEN Done
             ELSE [Done EXCEPT !.todo = Unit \o @, !.u = sv.buffered]
    /\ sv' = [sv EXCEPT !.buffered = 0]
    /\ UNCHANGED <<others, contexts, loop, held, ig, paused, output>>

(* pushTTSFrames up to where the unit is announced, on the queue ahead of  *)
(* the context it opens or on the context itself.                          *)
Announce ==
    /\ At("announce")
    /\ LET c == ContextID
           opening == c \notin open
       IN
       /\ fr' = [Done EXCEPT !.c = c, !.opening = opening]
       /\ sv' = [sv EXCEPT !.text = TRUE, !.ids = IF sv.turn = 0 THEN @ + 1 ELSE @]
       /\ IF opening
          THEN Queue(Item("unit", 0, fr.u)) /\ Refresh
          ELSE Into(c, <<Item("keepalive", c, 0), Item("unit", c, fr.u)>>) /\ UNCHANGED serial
    /\ UNCHANGED <<others, open, loop, held, ig, paused, output>>

(* Mutant: a context is opened anew for every unit.                        *)
CreateAnew ==
    /\ At("open") /\ fr' = Done
    /\ open' = open \cup {fr.c}
    /\ items' = [items EXCEPT ![fr.c] = <<Item("started", fr.c, fr.u)>>]
    /\ Queue(Item("context", fr.c, 0))
    /\ UNCHANGED <<others, sv, loop, held, ig, paused, output>>

(* CreateAudioContext and the started frame that opens it.                 *)
CreateAudioContext ==
    /\ At("open") /\ fr' = Done
    /\ IF fr.opening
       THEN /\ open' = open \cup {fr.c}
            /\ items' = [items EXCEPT ![fr.c] = <<Item("started", fr.c, fr.u)>>]
            /\ Queue(Item("context", fr.c, 0))
       ELSE UNCHANGED <<open, items, serial>>
    /\ UNCHANGED <<others, sv, loop, held, ig, paused, output>>

(* runTTS: a provider answers inline, or takes the text to answer later.   *)
(* With the context gone there is nothing to speak on.                     *)
RunTTS ==
    /\ At("run")
    /\ fr' = IF fr.c \in open THEN Done ELSE [Done EXCEPT !.todo = Tail(@)]
    /\ IF sc.inline /\ ~fr.canceled
       THEN /\ Into(fr.c, IF sc.silent THEN <<>> ELSE <<Item("audio", fr.c, fr.u)>>)
            /\ prov' = prov
       ELSE /\ prov' = IF fr.c \in open /\ ~sc.inline
                       THEN [prov EXCEPT !.asked = Append(@, Item("audio", fr.c, fr.u))]
                       ELSE prov
            /\ items' = items
    /\ UNCHANGED <<sc, sv, open, serial, loop, held, ig, paused, output, history>>

(* The rest of runTTS: who closes the context, and the text spoken.        *)
Said ==
    /\ At("said") /\ fr' = Done
    /\ sv' = [sv EXCEPT !.sync = sc.inline /\ ~sc.silent /\ ~fr.canceled]
    /\ Into(fr.c, IF sc.timed THEN <<>> ELSE <<Item("spoken", fr.c, fr.u)>>)
    /\ UNCHANGED <<others, open, serial, loop, held, ig, paused, output>>

(* maybePauseFrameProcessing looks, and then pauses.                       *)
PauseCheck ==
    /\ At("check")
    /\ fr' = [Done EXCEPT !.pausing = sc.pause /\ sv.text /\ (sv.speaking \/ open # {})]
    /\ UNCHANGED <<others, sv, contexts, loop, held, ig, paused, output>>

Pause ==
    /\ At("pause") /\ fr' = Done
    /\ paused' = (paused \/ fr.pausing)
    /\ sv' = IF Kind = "speak" THEN sv ELSE [sv EXCEPT !.text = FALSE]
    /\ UNCHANGED <<others, contexts, loop, held, ig, output>>

(* What closes a context whose audio came inline.                          *)
Closing(c) == <<Item("stopped", c, 0), Item("end", c, 0)>>

(* onTurnContextCompleted: the base closes the context of a provider that  *)
(* answered inline, and any other is told that the turn is complete.       *)
CloseTurn ==
    /\ At("close")
    /\ fr' = [Done EXCEPT !.turn = sv.turn]
    /\ sv' = [sv EXCEPT !.turn = 0]
    /\ Into(sv.turn, IF sv.sync /\ ~fr.canceled THEN Closing(sv.turn) ELSE <<>>)
    /\ prov' = IF sv.turn \in open /\ ~sv.sync /\ ~fr.canceled
               THEN [prov EXCEPT !.final = @ \cup {sv.turn}] ELSE prov
    /\ UNCHANGED <<sc, open, serial, loop, held, ig, paused, output, history>>

(* handleTurnEnd holds the end of a response back for the audio, when      *)
(* words are timed.                                                        *)
HoldResponseEnd ==
    /\ At("hold") /\ fr' = Done
    /\ IF sc.timed
       THEN held' = held \cup ({fr.turn} \ {0}) /\ UNCHANGED serial
       ELSE Queue(Item("end", 0, fr.pos)) /\ UNCHANGED held
    /\ UNCHANGED <<others, sv, open, items, loop, ig, paused, output>>

(* handleSpeak sets the turn aside and speaks on the context it is given.  *)
Utter ==
    /\ At("utter")
    /\ fr' = [Done EXCEPT !.saved = sv.turn, !.savedText = sv.text]
    /\ sv' = [sv EXCEPT !.turn = ContextID, !.ids = IF sv.turn = 0 THEN @ + 1 ELSE @]
    /\ Refresh
    /\ UNCHANGED <<others, open, serial, loop, held, ig, paused, output>>

Restore ==
    /\ At("restore") /\ fr' = Done
    /\ sv' = [sv EXCEPT !.turn = fr.saved, !.text = fr.savedText]
    /\ UNCHANGED <<others, contexts, loop, held, ig, paused, output>>

(* Mutant: the drain loop is not told to end.                              *)
DrainUntold ==
    /\ At("drain") /\ fr' = [Done EXCEPT !.gen = loop.gen]
    /\ UNCHANGED <<others, sv, contexts, loop, held, ig, paused, output>>

(* drainAudioContexts: the sentinel, and the wait for the loop to end.     *)
Drain ==
    /\ At("drain") /\ fr' = [Done EXCEPT !.gen = loop.gen]
    /\ Queue(Item("sentinel", 0, 0))
    /\ UNCHANGED <<others, sv, open, items, loop, held, ig, paused, output>>

Drained ==
    /\ At("drained") /\ (loop.gen # fr.gen \/ loop.pc = "gone") /\ fr' = Done
    /\ UNCHANGED <<others, sv, contexts, loop, held, ig, paused, output>>

(* The EndFrame goes downstream past the queue.                            *)
PushEnd ==
    /\ At("push") /\ fr' = Done
    /\ out' = Append(out, Item("stop", 0, fr.pos))
    /\ UNCHANGED <<others, sv, contexts, loop, held, ig, paused, play>>

FrameStep ==
    \/ Begin \/ QueueSerial \/ Buffer \/ Flush \/ Announce \/ CreateAudioContext
    \/ RunTTS \/ Said \/ PauseCheck \/ Pause \/ CloseTurn \/ HoldResponseEnd
    \/ Utter \/ Restore \/ Drain \/ Drained \/ PushEnd

-----------------------------------------------------------------------------
(* The drain loop, audioContextLoop.                                       *)

Push(i) == out' = Append(out, i)
LoopAt(pc) == loop' = [loop EXCEPT !.pc = pc]

(* The queue is looked at before the cancellation.                         *)
LoopFrame ==
    /\ loop.pc = "get" /\ serial # <<>> /\ Head(serial).k \notin {"context", "sentinel"}
    /\ Push(Head(serial)) /\ serial' = Tail(serial)
    /\ UNCHANGED <<others, fr, sv, open, items, loop, held, ig, paused, play>>

LoopContext ==
    /\ loop.pc = "get" /\ serial # <<>> /\ Head(serial).k = "context"
    /\ serial' = Tail(serial)
    /\ LET c == Head(serial).c IN
       loop' = [loop EXCEPT !.pc = IF c \in open THEN "play" ELSE "forget", !.c = c,
                            !.started = FALSE, !.heard = FALSE]
    /\ UNCHANGED <<others, fr, sv, open, items, held, ig, paused, output>>

LoopEnds ==
    /\ loop.pc = "get"
    /\ IF serial = <<>> THEN loop.canceled /\ serial' = serial
                        ELSE Head(serial).k = "sentinel" /\ serial' = Tail(serial)
    /\ LoopAt("gone")
    /\ UNCHANGED <<others, fr, sv, open, items, held, ig, paused, output>>

(* handleAudioContext takes the next item of the context it plays.         *)
PlayItem ==
    /\ loop.pc = "play" /\ items[loop.c] # <<>>
    /\ LET i == Head(items[loop.c]) IN
       /\ items' = [items EXCEPT ![loop.c] = Tail(@)]
       /\ loop' = [loop EXCEPT
             !.pc = IF i.k = "end" THEN "stop" ELSE @,
             !.started = (@ \/ i.k = "started") /\ i.k # "stopped",
             !.heard = @ \/ i.k = "audio"]
       /\ out' = IF i.k \in {"keepalive", "end"} THEN out ELSE Append(out, i)
       /\ play' = IF i.k = "audio" THEN [play EXCEPT !.queued = @ + 1] ELSE play
    /\ UNCHANGED <<others, fr, sv, open, serial, held, ig, paused>>

(* Nobody has anything more to say on a context.                           *)
Quiet(c) ==
    /\ c \notin {sv.turn, fr.saved} /\ (fr.todo # <<>> => fr.c # c)
    /\ \A n \in 1..Len(prov.asked) : prov.asked[n].c # c
    /\ (sc.inline \/ c \notin prov.final)

(* stopFrameTimeout: a context nothing is added to is taken as finished.   *)
(* Models and providers are quicker than that where the scenario says so.  *)
PlayTimeout ==
    /\ loop.pc = "play" /\ items[loop.c] = <<>> /\ ~loop.canceled
    /\ sc.slow \/ Quiet(loop.c)
    /\ LoopAt("stop")
    /\ UNCHANGED <<others, fr, sv, contexts, held, ig, paused, output>>

PlayCanceled ==
    /\ loop.pc = "play" /\ items[loop.c] = <<>> /\ loop.canceled
    /\ LoopAt("forget")
    /\ UNCHANGED <<others, fr, sv, contexts, held, ig, paused, output>>

(* The context is finished: a stopped frame if it lacks one, ...           *)
PlayStop ==
    /\ loop.pc = "stop" /\ LoopAt("release")
    /\ out' = IF loop.started THEN Append(out, Item("stopped", loop.c, 0)) ELSE out
    /\ UNCHANGED <<others, fr, sv, contexts, held, ig, paused, play>>

(* ... releaseResponseEnd, with a fresh frame if none is held yet, ...     *)
ReleaseResponseEnd ==
    /\ loop.pc = "release" /\ LoopAt("outcome")
    /\ LET ends == sc.timed /\ (loop.c \in held \/ sv.responding) IN
       /\ out' = IF ends THEN Append(out, Item("end", loop.c, 0)) ELSE out
       /\ sv' = IF ends THEN [sv EXCEPT !.responding = FALSE] ELSE sv
       /\ held' = IF sc.timed THEN held \ {loop.c} ELSE held
    /\ UNCHANGED <<others, fr, contexts, ig, paused, play>>

(* ... recordContextAudioOutcome: a context that played nothing lifts the  *)
(* pause taken for it.                                                     *)
RecordOutcome ==
    /\ loop.pc = "outcome" /\ LoopAt("forget")
    /\ paused' = (paused /\ (loop.heard \/ sv.speaking \/ ~sc.pause))
    /\ UNCHANGED <<others, fr, sv, contexts, held, ig, output>>

(* deleteAudioContext *)
ForgetContext ==
    /\ loop.pc = "forget" /\ LoopAt("get")
    /\ open' = open \ {loop.c}
    /\ UNCHANGED <<others, fr, sv, items, serial, held, ig, paused, output>>

LoopStep ==
    \/ LoopFrame \/ LoopContext \/ LoopEnds \/ PlayItem \/ PlayTimeout
    \/ PlayCanceled \/ PlayStop \/ ReleaseResponseEnd \/ RecordOutcome
    \/ ForgetContext

-----------------------------------------------------------------------------
(* The input goroutine: interruptions, and what the output reports.        *)

InputAt(pc) == ig' = [ig EXCEPT !.pc = pc]
Handling(k) == fr.todo # <<>> /\ Kind = k

(* startInterruption cancels the frame goroutine, unless it handles an     *)
(* EndFrame, which is uninterruptible, ...                                 *)
Interrupt ==
    /\ ig.pc = "idle" /\ ig.left > 0
    /\ ig' = [ig EXCEPT !.pc = IF Handling("stop") THEN "clear" ELSE "await", !.left = @ - 1]
    /\ fr' = [fr EXCEPT !.canceled = ~Handling("stop")]
    /\ UNCHANGED <<others, sv, contexts, loop, held, paused, output>>

(* ... waits for it, and starts one that is not paused.  The interruptible *)
(* frames that had arrived are dropped.                                    *)
Interrupted ==
    /\ ig.pc = "await" /\ fr.todo = <<>>
    /\ InputAt("clear")
    /\ \E n \in fr.pos..Len(sc.frames) :
          /\ \A m \in fr.pos + 1..n : sc.frames[m] # "stop"
          /\ fr' = [fr EXCEPT !.pos = n]
    /\ paused' = FALSE
    /\ UNCHANGED <<others, sv, contexts, loop, held, output>>

(* handleInterruption *)
Clear ==
    /\ ig.pc = "clear" /\ InputAt("join")
    /\ sv' = [sv EXCEPT !.text = FALSE, !.speaking = FALSE, !.responding = FALSE,
                        !.buffered = 0, !.turn = 0]
    /\ loop' = [loop EXCEPT !.canceled = TRUE]
    /\ cut' = cut \cup open
    /\ UNCHANGED <<sc, fr, contexts, held, paused, prov, output, told>>

(* stopAudioContexts has waited for the loop; the contexts are abandoned   *)
(* and the queue emptied.                                                  *)
Abandon ==
    /\ ig.pc = "join" /\ loop.pc = "gone" /\ InputAt("tell")
    /\ open' = {} /\ serial' = <<>>
    /\ UNCHANGED <<others, fr, sv, items, loop, held, paused, output>>

(* OnAudioContextInterrupted, for the contexts that are open.              *)
TellProvider ==
    /\ ig.pc = "tell" /\ InputAt("restart")
    /\ told' = told \cup open
    /\ UNCHANGED <<sc, fr, sv, contexts, loop, held, paused, prov, output, cut>>

(* startAudioContexts, the resumption, and the frame goes on.              *)
Restart ==
    /\ ig.pc = "restart" /\ InputAt("resume")
    /\ open' = {} /\ serial' = <<>> /\ held' = {}
    /\ items' = [c \in Contexts |-> <<>>]
    /\ loop' = NewLoop(loop.gen + 1)
    /\ UNCHANGED <<others, fr, sv, paused, output>>

Resume ==
    /\ ig.pc = "resume" /\ InputAt("idle")
    /\ paused' = (paused /\ ~sc.pause)
    /\ Push(Item("interruption", 0, 0))
    /\ play' = [play EXCEPT !.queued = 0]
    /\ UNCHANGED <<others, fr, sv, contexts, loop, held>>

(* handleBotSpeaking: the reports of the output come in order.             *)
BotSpeaking ==
    /\ ig.pc = "idle" /\ play.reports # <<>>
    /\ play' = [play EXCEPT !.reports = Tail(@)]
    /\ sv' = [sv EXCEPT !.speaking = Head(play.reports)]
    /\ paused' = (paused /\ (Head(play.reports) \/ ~sc.pause))
    /\ UNCHANGED <<others, fr, contexts, loop, held, ig, out>>

InputStep ==
    Interrupted \/ Clear \/ Abandon \/ TellProvider \/ Restart \/ Resume \/ BotSpeaking

-----------------------------------------------------------------------------
(* The output reports that it starts and stops playing what it was given;  *)
(* only a service that pauses looks at the reports.                        *)
OutputPlays ==
    /\ sc.pause
    /\ \/ ~play.speaking /\ play.queued > 0
       \/ play.speaking /\ play.queued = 0
    /\ play' = [play EXCEPT !.speaking = ~@, !.reports = Append(@, ~play.speaking)]
    /\ UNCHANGED <<others, fr, sv, contexts, loop, held, ig, paused, out>>

OutputPlayed ==
    /\ play.speaking /\ play.queued > 0
    /\ play' = [play EXCEPT !.queued = @ - 1]
    /\ UNCHANGED <<others, fr, sv, contexts, loop, held, ig, paused, out>>

(* The receive loop of a provider appends the audio of what it was asked,  *)
(* and removes a context it was told is complete.                          *)
Deliver ==
    /\ prov.asked # <<>>
    /\ LET i == Head(prov.asked) IN Into(i.c, IF sc.silent THEN <<>> ELSE <<i>>)
    /\ prov' = [prov EXCEPT !.asked = Tail(@)]
    /\ UNCHANGED <<sc, fr, sv, open, serial, loop, held, ig, paused, output, history>>

RemoveAudioContext ==
    /\ ~sc.inline /\ prov.asked = <<>>
    /\ \E c \in prov.final :
          /\ Into(c, <<Item("end", c, 0)>>)
          /\ prov' = [prov EXCEPT !.final = @ \ {c}]
    /\ UNCHANGED <<sc, fr, sv, open, serial, loop, held, ig, paused, output, history>>

OutputStep == OutputPlays \/ OutputPlayed
ProviderStep == Deliver \/ RemoveAudioContext

Next ==
    TakeFrame \/ FrameStep \/ LoopStep \/ Interrupt \/ InputStep \/ OutputStep \/ ProviderStep

Spec == Init /\ [][Next]_vars

(* Every goroutine goes on; only interruptions need not come.              *)
Fairness ==
    /\ WF_vars(TakeFrame \/ FrameStep) /\ WF_vars(LoopStep) /\ WF_vars(InputStep)
    /\ WF_vars(OutputStep) /\ WF_vars(ProviderStep)

FairSpec == Spec /\ Fairness

-----------------------------------------------------------------------------
AtRest ==
    /\ fr.pos = Len(sc.frames) /\ fr.todo = <<>> /\ ig.pc = "idle"
    /\ loop.pc = "gone" \/ (loop.pc = "get" /\ serial = <<>>)
    /\ prov.asked = <<>>

Positions == 1..Len(sc.frames)
InTurn(n) ==
    \E m \in 1..n : /\ sc.frames[m] = "start"
                    /\ \A k \in m..n - 1 : sc.frames[k] # "end"

(* Nothing is cut off, utterances come between turns, and the last turn is *)
(* over when the EndFrame comes.                                           *)
Undisturbed ==
    /\ sc.interrupts = 0 /\ ~sc.slow /\ ~sc.silent
    /\ \A n \in Positions : sc.frames[n] \in {"speak", "stop"} => ~InTurn(n)

Heard(n) == Cardinality({m \in 1..Len(out) : out[m].k = "audio" /\ out[m].u = n})

(* Every text of a response and every utterance is heard exactly once,      *)
(* whoever delivers its audio and whenever (pushTTSFrames, runTTS and the    *)
(* drain loop), the sentence the end of the response flushes included.      *)
SpokenOnce ==
    AtRest /\ Undisturbed =>
        \A n \in Positions : sc.frames[n] \in {"text", "part", "speak"} => Heard(n) = 1

Opened(n) ==
    LET at == {m \in 1..n : out[m].k = "started" /\ out[m].c = out[n].c}
    IN  IF at = {} THEN 0 ELSE out[CHOOSE m \in at : \A k \in at : k <= m].u
Place(n) == IF out[n].c = 0 THEN out[n].u ELSE Opened(n)

(* Frames and contexts go downstream in the order they came to the service *)
(* (the serialization queue), the EndFrame behind all of them.             *)
KeepsPlace ==
    \A m, n \in 1..Len(out) :
        m < n /\ Place(m) # 0 /\ Place(n) # 0 => Place(m) <= Place(n)

Count(k, lo, hi) == Cardinality({m \in lo..hi : out[m].k = k})

(* The end of a response is passed on once, and behind the speech of the   *)
(* response, though it is the context that releases it where words are     *)
(* timed (releaseResponseEnd).                                             *)
ResponseEndsOnce ==
    Undisturbed /\ (sc.timed => \A n \in Positions : sc.frames[n] # "speak") =>
        \A m, n \in 1..Len(out) : m < n /\ out[m].k = "end" =>
            /\ out[n].k = "end" => Count("start", m, n) > 0
            /\ out[n].k = "audio" => Count("start", m, n) + Count("started", m, n) > 0

(* Nothing of a context that was open when an interruption came goes       *)
(* downstream behind the interruption (handleInterruption), though its     *)
(* audio may still arrive.                                                 *)
NothingAfterCut ==
    \A m, n \in 1..Len(out) :
        m < n /\ out[m].k = "interruption" => out[n].c \notin cut

(* handleInterruption: "the provider is told so it stops generating into   *)
(* contexts nobody is listening to".                                       *)
ProviderTold == ig.pc = "resume" => cut \subseteq told

AllHandled == sc.pause \/ (fr.pos = Len(sc.frames) /\ fr.todo = <<>>)

(* Every frame is handled, the EndFrame's wait for the drain loop included, *)
(* interrupted or not (drainAudioContexts), where no pause is taken.       *)
Ends == <>AllHandled
=============================================================================
