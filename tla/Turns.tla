-------------------------------- MODULE Turns --------------------------------
(***************************************************************************)
(* When the user's turn begins and ends (processor/turns), and what the    *)
(* user aggregator makes of it (processor/aggregators).  The aggregator    *)
(* folds a transcript into the message being written, and only then gives  *)
(* the frame to the turn controller; strategies open the turn (start.go)   *)
(* and close it (stop.go), on frames and on timers.  Voice activity, the   *)
(* bot and proposals are system frames, handled on the input goroutine;    *)
(* transcripts are handled in order on the process goroutine, so a system  *)
(* frame or a timer can come between the two halves of one.                *)
(*                                                                         *)
(* One lock is held by Process and by every timer, and a strategy that     *)
(* decides calls back into the controller, which resets the strategy while *)
(* its handler is still running.  Handlers are therefore operators from    *)
(* the state u to the state u, and an action installs the result.          *)
(***************************************************************************)
EXTENDS Integers, Sequences, FiniteSets, SequencesExt

CONSTANTS Scenarios,     \* how turns are decided, and what is said
          Calls          \* the tool calls of a response

VARIABLES sc, u,
          hand,          \* the frame the process goroutine is handling
          voice,         \* voice activity, the bot and the calls, as they are
          left           \* how many frames of each kind are still to come

vars == <<sc, u, hand, voice, left>>

Transcripts == {"final", "partial", "interim"}
Sys(k) == [kind |-> k, text |-> "none", w |-> 0]
Nothing == Sys("nothing")
Uninterruptible == {"end", "result"}

\* What a stop strategy remembers, as it is built.
NewStop(strategy) ==
    CASE strategy = "timeout" ->
             [text |-> FALSE, vad |-> FALSE, stopped |-> FALSE, final |-> FALSE,
              speechDone |-> FALSE, sttDone |-> FALSE, userTimer |-> FALSE,
              sttTimer |-> FALSE, orphans |-> 0]
      [] strategy = "analyzer" ->
             [text |-> FALSE, vad |-> FALSE, stopped |-> FALSE, final |-> FALSE,
              complete |-> FALSE, expired |-> FALSE, timer |-> FALSE]
      [] strategy = "external" ->
             [text |-> FALSE, talking |-> FALSE, interim |-> FALSE, open |-> FALSE]

Init ==
    /\ sc \in Scenarios
    /\ u = [speaking |-> FALSE, turn |-> FALSE, watchdog |-> FALSE,
            botSpeaking |-> FALSE, awake |-> FALSE, d |-> NewStop(sc.stop),
            queue |-> <<>>, agg |-> <<>>, whole |-> <<>>, messages |-> <<>>,
            muted |-> FALSE, botTalks |-> FALSE, begun |-> FALSE, firstDone |-> FALSE,
            released |-> FALSE, active |-> {},
            idle |-> [waiting |-> FALSE, inTurn |-> FALSE, calls |-> 0, timer |-> FALSE,
                      on |-> sc.idle],
            over |-> "no",
            \* history: words folded in, words a start strategy dropped, messages of
            \* the open turn, and the words that opened it
            folded |-> <<>>, discarded |-> {}, parts |-> 0]
    /\ hand = Nothing
    /\ voice = [vad |-> FALSE, elsewhere |-> FALSE, bot |-> FALSE, calls |-> {}]
    /\ left = sc.budget

-----------------------------------------------------------------------------
(* The stop strategies at the boundaries of a turn. *)

\* discardPendingEndOfTurn: an orphan is a timer whose cancel was overwritten.
Discard(d) ==
    IF sc.stop = "timeout"
    THEN [d EXCEPT !.final = FALSE, !.stopped = FALSE, !.speechDone = FALSE,
                   !.sttDone = FALSE, !.userTimer = FALSE, !.sttTimer = FALSE]
    ELSE [d EXCEPT !.complete = FALSE, !.final = FALSE, !.expired = FALSE,
                   !.stopped = FALSE, !.timer = FALSE]

\* TurnStarted and TurnStopped of a stop strategy.
ResetStop(d, started) ==
    CASE sc.stop = "timeout" ->
             Discard([d EXCEPT !.text = FALSE, !.vad = @ /\ started])
      [] sc.stop = "analyzer" -> Discard([d EXCEPT !.text = FALSE])
      [] sc.stop = "external" -> [NewStop("external") EXCEPT !.open = started]

-----------------------------------------------------------------------------
(* The idle watchdog. *)

IdleBotStopped(i) ==
    IF i.inTurn \/ i.calls > 0 THEN i ELSE [i EXCEPT !.waiting = TRUE, !.timer = i.on]

IdleProcess(i, k) ==
    CASE k = "botStop" -> IdleBotStopped(i)
      [] k = "botStart" -> [i EXCEPT !.waiting = FALSE, !.timer = FALSE]
      [] k = "userStart" -> [i EXCEPT !.waiting = FALSE, !.inTurn = TRUE, !.timer = FALSE]
      [] k = "userStop" -> [i EXCEPT !.inTurn = FALSE]
      [] k = "calls" -> [i EXCEPT !.waiting = FALSE, !.timer = FALSE,
                                  !.calls = @ + Cardinality(Calls)]
      [] k \in {"result", "cancelCall"} -> [i EXCEPT !.calls = IF @ > 0 THEN @ - 1 ELSE 0]
      [] k = "idleOn" -> [i EXCEPT !.on = TRUE, !.timer = i.waiting]
      [] k = "idleOff" -> [i EXCEPT !.on = FALSE, !.timer = FALSE]
      [] OTHER -> i

-----------------------------------------------------------------------------
(* The user aggregator, as the controller's hooks call it. *)

\* maybeRun writes what was said since the last message, and rememberSegment keeps
\* it for the report of the turn.
MaybeRun(s) ==
    IF s.agg = <<>> THEN s
    ELSE [s EXCEPT !.messages = Append(@, s.agg), !.whole = @ \o s.agg,
                   !.agg = <<>>, !.parts = @ + 1]

\* Mutant: a turn starts with nothing said.
StartsEmpty(s, interrupts) ==
    [s EXCEPT !.whole = <<>>, !.parts = 0, !.agg = <<>>,
              !.idle = IdleProcess(@, "userStart")]

\* onTurnStarted; an interruption empties the aggregator's own queue.
OnTurnStarted(s, interrupts) ==
    [s EXCEPT !.whole = <<>>, !.parts = 0,
              !.idle = IdleProcess(@, "userStart"),
              !.queue = IF interrupts
                        THEN SelectSeq(@, LAMBDA g : g.kind \in Uninterruptible)
                        ELSE @]

\* reportTurnStopped writes what the turn had left to say.
ReportTurnStopped(s) == [MaybeRun(s) EXCEPT !.whole = <<>>]

OnTurnStopped(s) ==
    ReportTurnStopped([s EXCEPT !.idle = IdleProcess(@, "userStop")])

OnResetAggregation(s) ==
    [s EXCEPT !.agg = <<>>, !.discarded = @ \cup ToSet(s.agg)]

-----------------------------------------------------------------------------
(* The controller. *)

RearmWatchdog(s) == [s EXCEPT !.watchdog = TRUE]

\* MinWordsStart lowers its threshold as a turn starts.
OnStartTriggered(s, interrupts) ==
    IF s.turn THEN s
    ELSE OnTurnStarted([RearmWatchdog(s) EXCEPT !.turn = TRUE, !.botSpeaking = FALSE,
                                                !.d = ResetStop(@, TRUE)],
                       interrupts)

OnInferenceTriggered(s) == IF s.turn THEN MaybeRun(RearmWatchdog(s)) ELSE s

OnStopTriggered(s) ==
    IF ~s.turn \/ s.speaking THEN s
    ELSE OnTurnStopped([RearmWatchdog(s) EXCEPT !.turn = FALSE,
                                                !.d = ResetStop(@, FALSE)])

\* TriggerStopped; Deferred drops the finalization.
TriggerStopped(s) ==
    IF sc.judged THEN OnInferenceTriggered(s)
    ELSE OnStopTriggered(OnInferenceTriggered(s))

-----------------------------------------------------------------------------
(* The start strategies: the state each leaves, and whether it stops the    *)
(* chain.                                                                   *)

Goes(s) == [s |-> s, stop |-> FALSE]
Stops(s) == [s |-> s, stop |-> TRUE]

\* MinWordsStart.check; one word is enough when the bot is silent.
CheckWords(s, f) ==
    IF f.text = "long" \/ (f.text = "short" /\ ~s.botSpeaking)
    THEN Stops(OnStartTriggered(s, TRUE))
    ELSE Goes(OnResetAggregation(s))

VADStart(s, f) ==
    IF f.kind = "vadStart" THEN Stops(OnStartTriggered(s, TRUE)) ELSE Goes(s)

TranscriptionStart(s, f) ==
    IF f.kind \in Transcripts THEN Stops(OnStartTriggered(s, TRUE)) ELSE Goes(s)

MinWordsStart(s, f) ==
    CASE f.kind = "botStart" -> Goes([s EXCEPT !.botSpeaking = TRUE])
      [] f.kind = "botStop" -> Goes([s EXCEPT !.botSpeaking = FALSE])
      [] f.kind \in Transcripts -> CheckWords(s, f)
      [] OTHER -> Goes(s)

\* Asleep, it blocks the rest of the chain and drops what is not the phrase.
WakePhraseStart(s, f) ==
    CASE s.awake -> Goes(s)
      [] ~s.awake /\ f.kind \in {"final", "partial"} /\ f.text = "phrase" ->
             Stops(OnStartTriggered([s EXCEPT !.awake = TRUE], TRUE))
      [] ~s.awake /\ f.kind \in {"final", "partial"} /\ f.text # "phrase" ->
             Stops(OnResetAggregation(s))
      [] OTHER -> Stops(s)

\* A start announced elsewhere is adopted, and interrupts nothing more.
ExternalStart(s, f) ==
    CASE f.kind = "proposeStart" -> Stops(OnStartTriggered(s, TRUE))
      [] f.kind = "userStart" -> Stops(OnStartTriggered(s, FALSE))
      [] OTHER -> Goes(s)

StartStrategy(name, s, f) ==
    CASE name = "vad" -> VADStart(s, f)
      [] name = "transcript" -> TranscriptionStart(s, f)
      [] name = "minWords" -> MinWordsStart(s, f)
      [] name = "wake" -> WakePhraseStart(s, f)
      [] name = "external" -> ExternalStart(s, f)

StartChain(s, f) ==
    FoldLeft(LAMBDA r, name : IF r.stop THEN r ELSE StartStrategy(name, r.s, f),
             Goes(s), sc.start).s

-----------------------------------------------------------------------------
(* The stop strategies. *)

\* SpeechTimeoutStop.maybeTrigger
TimeoutTrigger(s) ==
    IF s.d.vad \/ (sc.waits /\ ~s.d.text) \/ ~s.d.speechDone \/ ~s.d.sttDone THEN s
    ELSE TriggerStopped([s EXCEPT !.d.userTimer = FALSE, !.d.sttTimer = FALSE])

\* The transcript wait is armed without canceling one that is still running.
TimeoutVADStopped(d) ==
    LET skip == d.final \/ ~sc.sttWait
    IN  [d EXCEPT !.vad = FALSE, !.stopped = TRUE, !.userTimer = TRUE,
                  !.speechDone = FALSE, !.sttDone = skip, !.sttTimer = @ \/ ~skip,
                  !.orphans = IF d.sttTimer /\ ~skip THEN @ + 1 ELSE @]

TimeoutTranscript(s, f) ==
    LET final == f.kind = "final"
        d == [s.d EXCEPT !.text = TRUE, !.final = @ \/ final, !.sttDone = @ \/ final,
                         !.sttTimer = @ /\ (final => s.d.sttDone)]
    IN  CASE d.speechDone /\ d.sttDone -> TimeoutTrigger([s EXCEPT !.d = d])
          [] ~(d.speechDone /\ d.sttDone) /\ ~d.vad /\ ~d.stopped ->
                 [s EXCEPT !.d = [d EXCEPT !.sttDone = TRUE, !.userTimer = TRUE,
                                           !.speechDone = FALSE]]
          [] OTHER -> [s EXCEPT !.d = d]

SpeechTimeoutStop(s, f) ==
    CASE f.kind = "vadStart" -> [s EXCEPT !.d = Discard([@ EXCEPT !.vad = TRUE])]
      [] f.kind = "vadStop" -> [s EXCEPT !.d = TimeoutVADStopped(@)]
      [] f.kind \in {"final", "partial"} -> TimeoutTranscript(s, f)
      [] f.kind = "interim" -> [s EXCEPT !.d.final = FALSE]
      [] OTHER -> s

\* TurnAnalyzerStop.maybeTrigger and fire
Fire(s) == TriggerStopped([s EXCEPT !.d.timer = FALSE])
AnalyzerTrigger(s) ==
    IF s.d.complete /\ (sc.waits => s.d.text /\ (s.d.final \/ ~s.d.timer))
    THEN Fire(s) ELSE s

\* The verdict of the model is its own affair.
AnalyzerVADStopped(s, complete) ==
    AnalyzerTrigger([s EXCEPT !.d.vad = FALSE, !.d.stopped = TRUE,
                              !.d.complete = complete, !.d.timer = TRUE])

\* A transcript with no stop of the voice activity behind it waits for silence.
\* A turn that the transcript has just ended comes this way too.
AnalyzerFallback(s) ==
    IF s.d.vad \/ s.d.stopped THEN s
    ELSE [s EXCEPT !.d.complete = TRUE, !.d.timer = TRUE]

AnalyzerTranscript(s, f) ==
    LET t == [s EXCEPT !.d.text = TRUE]
    IN  CASE f.kind = "final" ->
                 AnalyzerFallback(AnalyzerTrigger([t EXCEPT !.d.final = TRUE]))
          [] f.kind = "partial" /\ t.d.expired /\ t.d.complete -> Fire(t)
          [] OTHER -> AnalyzerFallback(t)

\* Mutant: a verdict survives the user speaking again.
KeepsVerdict(d) == [d EXCEPT !.vad = TRUE]

\* The user is speaking again, and an earlier verdict is stale.
AnalyzerVADStarted(d) == Discard([d EXCEPT !.vad = TRUE])

TurnAnalyzerStop(s, f) ==
    CASE f.kind = "vadStart" -> [s EXCEPT !.d = AnalyzerVADStarted(@)]
      [] f.kind = "vadStop" -> AnalyzerVADStopped(s, f.text = "complete")
      [] f.kind = "audio" -> AnalyzerTrigger([s EXCEPT !.d.complete = TRUE])
      [] f.kind \in {"final", "partial"} -> AnalyzerTranscript(s, f)
      [] f.kind = "interim" -> [s EXCEPT !.d.final = FALSE]
      [] OTHER -> s

\* ExternalStop.maybeTrigger
ExternalTrigger(s) ==
    IF s.d.talking \/ (sc.waits /\ (s.d.interim \/ ~s.d.text)) THEN s
    ELSE TriggerStopped(s)

ExternalStop(s, f) ==
    CASE f.kind \in {"proposeStart", "userStart"} -> [s EXCEPT !.d.talking = TRUE]
      [] f.kind \in {"proposeStop", "userStop"} ->
             ExternalTrigger([s EXCEPT !.d.talking = FALSE])
      [] f.kind = "interim" -> [s EXCEPT !.d.interim = TRUE]
      [] f.kind \in {"final", "partial"} ->
             [s EXCEPT !.d.text = TRUE, !.d.interim = FALSE]
      [] OTHER -> s

StopStrategy(s, f) ==
    CASE sc.stop = "timeout" -> SpeechTimeoutStop(s, f)
      [] sc.stop = "analyzer" -> TurnAnalyzerStop(s, f)
      [] sc.stop = "external" -> ExternalStop(s, f)

\* ExternalCompletionStop ends the chain when finalization is deferred.
CompletionStop(s, f) ==
    IF sc.judged /\ f.kind = "completed" THEN OnStopTriggered(s) ELSE s

Starts == {"userStart", "proposeStart", "vadStart"}
Ends == {"userStop", "proposeStop", "vadStop"}

\* Mutant: only a transcript puts the watchdog off.
HeardUnwatched(s, f) ==
    [s EXCEPT !.speaking = f.kind \in Starts \/ (@ /\ f.kind \notin Ends),
              !.watchdog = @ \/ f.kind \in Transcripts]

\* Process notes who speaks and puts the watchdog off, and runs the chains.
Heard(s, f) ==
    [s EXCEPT !.speaking = f.kind \in Starts \/ (@ /\ f.kind \notin Ends),
              !.watchdog = @ \/ f.kind \in Starts \cup Ends \cup Transcripts]

Process(s, f) == CompletionStop(StopStrategy(StartChain(Heard(s, f), f), f), f)

-----------------------------------------------------------------------------
(* Muting, and the frames as the aggregator meets them. *)

UserInput == {"vadStart", "vadStop", "proposeStart", "proposeStop", "userStart",
              "userStop", "audio"} \cup Transcripts

\* Every mute strategy sees every frame; what a frame changes counts from the next.
ShouldMute(s, f) ==
    LET k == f.kind
        m == [s EXCEPT !.botTalks = k = "botStart" \/ (@ /\ k # "botStop"),
                       !.begun = @ \/ k = "botStart",
                       !.firstDone = @ \/ k = "botStop",
                       !.released = @ \/ k = "botStop" \/ (k = "error" /\ ~s.begun),
                       !.active = IF k = "calls" THEN Calls
                                  ELSE IF k \in {"result", "cancelCall"} THEN @ \ {f.w}
                                  ELSE @]
    IN  [m EXCEPT !.muted = \/ "bot" \in sc.mutes /\ m.botTalks
                            \/ "first" \in sc.mutes /\ m.botTalks /\ ~m.firstDone
                            \/ "untilFirst" \in sc.mutes /\ ~m.released
                            \/ "calls" \in sc.mutes /\ m.active # {}]

\* The controllers see a frame after the aggregator has handled it.
Control(s, f) ==
    LET p == Process(s, f) IN [p EXCEPT !.idle = IdleProcess(@, f.kind)]

\* ProcessFrame, for a system frame.
System(f) ==
    u' = IF u.muted /\ f.kind \in UserInput THEN ShouldMute(u, f)
         ELSE Control(ShouldMute(u, f), f)

\* What a session's end leaves: the report of what was said, and no watchdogs.
StopControllers(s) == [s EXCEPT !.watchdog = FALSE, !.idle.timer = FALSE, !.over = "ended"]

Live == u.over = "no"
Spend(k) == /\ left[k] > 0
            /\ left' = [left EXCEPT ![k] = @ - 1]

Enqueue(f) == u' = [u EXCEPT !.queue = Append(@, f)]

\* The process goroutine takes a frame: a transcript with words is folded in, and
\* an EndFrame, which is never muted, commits what is held.
Take(f) ==
    LET m == IF f.kind = "end" THEN u ELSE ShouldMute(u, f)
    IN  IF u.muted /\ f.kind \in UserInput
        THEN hand' = Nothing /\ u' = [m EXCEPT !.queue = Tail(@)]
        ELSE /\ hand' = f
             /\ u' = CASE f.kind \in {"final", "partial"} /\ f.text # "blank" ->
                              [m EXCEPT !.queue = Tail(@), !.agg = Append(@, f.w),
                                        !.folded = Append(@, f.w)]
                       [] f.kind = "end" -> MaybeRun([m EXCEPT !.queue = Tail(@)])
                       [] OTHER -> [m EXCEPT !.queue = Tail(@)]

ProcessTakes ==
    /\ Live /\ hand = Nothing /\ u.queue # <<>>
    /\ Take(Head(u.queue))
    /\ UNCHANGED <<sc, voice, left>>

ProcessControls ==
    /\ hand # Nothing /\ u.over # "clean"
    /\ hand' = Nothing
    /\ u' = IF hand.kind = "end"
            THEN StopControllers(ReportTurnStopped(u))
            ELSE Control(u, hand)
    /\ UNCHANGED <<sc, voice, left>>

-----------------------------------------------------------------------------
(* What reaches the aggregator. *)

\* The voice activity detector reports changes; a model judges each stop.
Voice ==
    /\ Live /\ Spend("vads")
    /\ voice' = [voice EXCEPT !.vad = ~@]
    /\ IF voice.vad
       THEN \E verdict \in IF sc.stop = "analyzer" THEN {"complete", "none"} ELSE {"none"} :
                System([Sys("vadStop") EXCEPT !.text = verdict])
       ELSE System(Sys("vadStart"))
    /\ UNCHANGED <<sc, hand>>

\* Another processor proposes, or announces, the boundaries of a turn.
Elsewhere ==
    /\ Live /\ Spend("elsewhere")
    /\ voice' = [voice EXCEPT !.elsewhere = ~@]
    /\ System(Sys(IF sc.announced
                  THEN IF voice.elsewhere THEN "userStop" ELSE "userStart"
                  ELSE IF voice.elsewhere THEN "proposeStop" ELSE "proposeStart"))
    /\ UNCHANGED <<sc, hand>>

\* The model finds the turn over in the audio itself, while it hears no speech.
Audio ==
    /\ Live /\ sc.stop = "analyzer" /\ ~u.d.vad /\ Spend("audio")
    /\ System(Sys("audio"))
    /\ UNCHANGED <<sc, hand, voice>>

\* The transcription service sends what it heard.
Transcribe ==
    /\ Live /\ Spend("words")
    /\ \E k \in sc.kinds, t \in sc.texts :
           Enqueue([kind |-> k, text |-> t, w |-> left.words])
    /\ UNCHANGED <<sc, hand, voice>>

Bot ==
    /\ Live /\ Spend("bots")
    /\ voice' = [voice EXCEPT !.bot = ~@]
    /\ System(Sys(IF voice.bot THEN "botStop" ELSE "botStart"))
    /\ UNCHANGED <<sc, hand>>

\* An answer may judge the turn it answers complete.
Verdict ==
    /\ Live /\ u.messages # <<>> /\ Spend("verdicts")
    /\ Enqueue(Sys("completed"))
    /\ UNCHANGED <<sc, hand, voice>>

CallsStart ==
    /\ Live /\ voice.calls = {} /\ Spend("calls")
    /\ voice' = [voice EXCEPT !.calls = Calls]
    /\ System(Sys("calls"))
    /\ UNCHANGED <<sc, hand>>

CallEnds(c) ==
    /\ Live /\ c \in voice.calls
    /\ voice' = [voice EXCEPT !.calls = @ \ {c}]
    /\ \/ Enqueue([Sys("result") EXCEPT !.w = c])
       \/ System([Sys("cancelCall") EXCEPT !.w = c])
    /\ UNCHANGED <<sc, hand, left>>

\* The idle timeout is changed, or something fails.
Notice ==
    /\ Live /\ Spend("notices")
    /\ \E k \in {"idleOn", "idleOff", "error"} : System(Sys(k))
    /\ UNCHANGED <<sc, hand, voice>>

End ==
    /\ Live /\ Spend("ends")
    /\ Enqueue(Sys("end"))
    /\ UNCHANGED <<sc, hand, voice>>

Cancel ==
    /\ Live /\ Spend("cancels")
    /\ u' = StopControllers(ReportTurnStopped(u))
    /\ UNCHANGED <<sc, hand, voice>>

\* Cleanup takes the strategies' timers with it.
Cleanup ==
    /\ u.over = "ended" /\ hand = Nothing
    /\ u' = [u EXCEPT !.over = "clean"]
    /\ UNCHANGED <<sc, hand, voice, left>>

-----------------------------------------------------------------------------
(* The timers. *)

OnWatchdog ==
    /\ u.watchdog
    /\ LET s == [u EXCEPT !.watchdog = FALSE] IN u' = OnStopTriggered(s)

UserSpeechTimer ==
    /\ sc.stop = "timeout" /\ u.d.userTimer
    /\ u' = TimeoutTrigger([u EXCEPT !.d.speechDone = TRUE, !.d.userTimer = FALSE])

SttTimer ==
    /\ sc.stop = "timeout" /\ u.d.sttTimer
    /\ u' = TimeoutTrigger([u EXCEPT !.d.sttDone = TRUE, !.d.sttTimer = FALSE])

\* The timer nothing can cancel forgets the cancel of the one that replaced it.
OrphanTimer ==
    /\ sc.stop = "timeout" /\ u.d.orphans > 0
    /\ u' = TimeoutTrigger([u EXCEPT !.d.sttDone = TRUE, !.d.sttTimer = FALSE,
                                     !.d.orphans = IF u.d.sttTimer THEN @ ELSE @ - 1])

SafetyNet ==
    /\ sc.stop = "analyzer" /\ u.d.timer
    /\ u' = AnalyzerTrigger([u EXCEPT !.d.expired = TRUE, !.d.timer = FALSE])

Tick ==
    /\ sc.stop = "external" /\ u.d.open
    /\ u' = ExternalTrigger(u)

FallsAsleep ==
    /\ u.awake
    /\ u' = [u EXCEPT !.awake = FALSE]

IdleTimer ==
    /\ u.idle.timer
    /\ u' = [u EXCEPT !.idle.timer = FALSE]

Timer ==
    /\ u.over # "clean"
    /\ \/ OnWatchdog \/ UserSpeechTimer \/ SttTimer \/ OrphanTimer
       \/ SafetyNet \/ Tick \/ FallsAsleep \/ IdleTimer
    /\ UNCHANGED <<sc, hand, voice, left>>

Next ==
    \/ ProcessTakes \/ ProcessControls \/ Voice \/ Elsewhere \/ Audio \/ Transcribe
    \/ Bot \/ Verdict \/ CallsStart \/ (\E c \in Calls : CallEnds(c)) \/ Notice
    \/ End \/ Cancel \/ Cleanup \/ Timer

Spec == Init /\ [][Next]_vars

-----------------------------------------------------------------------------
(* Properties. *)

\* What the aggregator folded in is written once, in the order it was said: the
\* messages and what is still held are what was folded in, less what a start
\* strategy asked to drop (aggregate, maybeRun, onTurnStarted).
WordsKept ==
    FlattenSeq(u.messages) \o u.agg
        = SelectSeq(u.folded, LAMBDA w : w \notin u.discarded)

\* A turn left open with the user silent is always watched: whatever the
\* strategies do, the watchdog that would close it is armed (rearmWatchdog).
Watched == u.turn /\ ~u.speaking /\ u.over = "no" => u.watchdog

\* A turn whose detector may finalize it is answered once: the message written as
\* the inference is triggered is the turn's only one (TriggerStopped, aggregate).
\* ExternalStop follows no voice activity, and where there is some, it may trigger a
\* second inference in a turn the controller refused to finalize: it is promised where
\* there is none.
Finalizes == ~sc.judged /\ (sc.stop = "external" => sc.budget.vads = 0)
OneMessage == Finalizes /\ Live /\ hand.kind # "end" => u.parts <= 1

\* The idle timer runs only while nobody has anything to do: no call is running, and
\* no turn is open (UserIdleController.Process).  A turn announced elsewhere is over
\* for it with the announcement, although ExternalStop may hold that turn open for the
\* transcript: there it runs only while the user does not speak.
IdleAlone ==
    u.idle.timer => u.active = {} /\ IF sc.announced THEN ~u.speaking ELSE ~u.turn

==============================================================================
