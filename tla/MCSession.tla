------------------------------ MODULE MCSession ------------------------------
(***************************************************************************)
(* The components of a session whose properties are all about safety, each *)
(* on its own: a frame processor (MCProcessor), the tool calls of a        *)
(* response (Tools), the turns of a conversation (Turns) or a streaming    *)
(* transcription (StreamService).  A behaviour is one of one component.    *)
(***************************************************************************)
EXTENDS MCProcessor

CONSTANTS call1, call2,      \* two calls
          ToolScenarios, TurnScenarios, CallScenarios

VARIABLES component,
          asked, resp, line, fc, intr, sys, wire, data, bot, agg, act, known,
          said, runs, heard, ended, early,
          talk, user, given, voice, rest,
          call, stt, session, conn, task, life, allowed

\* Two calls that run side by side and report; and what each scenario changes.
TwoCalls == [calls |-> <<call1, call2>>, async |-> {}, timed |-> {}, silent |-> {},
             dropped |-> {}, sequential |-> FALSE, interrupts |-> FALSE,
             speaks |-> FALSE]

MixedCalls ==
    {TwoCalls, [TwoCalls EXCEPT !.speaks = TRUE],
     [TwoCalls EXCEPT !.sequential = TRUE, !.speaks = TRUE],
     [TwoCalls EXCEPT !.timed = {call1}],
     [TwoCalls EXCEPT !.timed = {call1, call2}],
     [TwoCalls EXCEPT !.interrupts = TRUE, !.async = {call2}],
     [TwoCalls EXCEPT !.sequential = TRUE, !.interrupts = TRUE, !.dropped = {call2}],
     [TwoCalls EXCEPT !.silent = {call1}]}

\* One call, which an interruption cancels.
CutCall == {[TwoCalls EXCEPT !.calls = <<call1>>, !.interrupts = TRUE]}

Asking == INSTANCE Tools WITH
    Calls <- {call1, call2}, Scenarios <- ToolScenarios, sc <- asked

\* Three transcripts around two stretches of speech, and what each scenario
\* changes: the strategies, the muting, the calls and the end.
NoFrames == [words |-> 0, vads |-> 0, elsewhere |-> 0, audio |-> 0, bots |-> 0,
             verdicts |-> 0, calls |-> 0, notices |-> 0, ends |-> 0, cancels |-> 0]
Talk == [start |-> <<"vad", "transcript">>, stop |-> "timeout", judged |-> FALSE,
         waits |-> TRUE, sttWait |-> TRUE, mutes |-> {}, idle |-> TRUE,
         announced |-> FALSE, kinds |-> {"final", "partial", "interim"},
         texts |-> {"short"}, budget |-> [NoFrames EXCEPT !.words = 3, !.vads = 4]]

Talks ==
    {Talk, [Talk EXCEPT !.stop = "analyzer", !.budget.audio = 1],
     [Talk EXCEPT !.stop = "analyzer", !.waits = FALSE],
     [Talk EXCEPT !.start = <<"minWords">>, !.texts = {"short", "long", "blank"},
                  !.sttWait = FALSE, !.budget.words = 2, !.budget.bots = 2,
                  !.budget.vads = 2],
     [Talk EXCEPT !.start = <<"wake", "vad", "transcript">>,
                  !.texts = {"short", "phrase"}, !.budget.vads = 2],
     [Talk EXCEPT !.budget.ends = 1, !.budget.cancels = 1, !.budget.vads = 2]}
    \cup {[Talk EXCEPT !.start = <<"external">>, !.stop = "external", !.announced = x,
                       !.budget.vads = 0, !.budget.elsewhere = 4, !.budget.bots = 2] :
              x \in BOOLEAN}
    \cup {[Talk EXCEPT !.start = <<"external">>, !.stop = "external", !.announced = x,
                       !.budget.vads = 2, !.budget.elsewhere = 2, !.budget.words = 2] :
              x \in BOOLEAN}
    \cup {[Talk EXCEPT !.judged = TRUE, !.stop = x, !.budget.verdicts = 1,
                       !.budget.words = 2] : x \in {"timeout", "analyzer"}}
    \cup {[Talk EXCEPT !.mutes = x, !.budget.bots = 2, !.budget.notices = 1,
                       !.budget.words = 1] : x \in {{"bot"}, {"first", "untilFirst"}}}
    \cup {[Talk EXCEPT !.mutes = x, !.idle = x # {}, !.budget.calls = 1,
                       !.budget.bots = 3, !.budget.words = 1, !.budget.vads = 2,
                       !.budget.notices = 1] : x \in {{}, {"calls"}}}

OneTalk == {Talk}

Taking == INSTANCE Turns WITH
    Scenarios <- TurnScenarios, Calls <- {call1, call2}, sc <- talk, u <- user,
    hand <- given, left <- rest

\* Sessions that drop and dials that are refused; a change of settings during
\* speech, and one at once; finalized utterances; and a change the end overlaps.
Nothing == [audio |-> 0, starts |-> 0, stops |-> 0, turns |-> 0, interrupts |-> 0,
            cancels |-> 0, updates |-> 0, ends |-> 0, refusals |-> 0, results |-> 0,
            ticks |-> 0, dropped |-> 0, bye |-> 0]
Holding(happens) == [immediate |-> FALSE, overlaps |-> FALSE, budget |-> happens]
Dropping == Holding([Nothing EXCEPT !.audio = 1, !.dropped = 2, !.refusals = 2,
                        !.ends = 1, !.bye = 1, !.cancels = 1])
Overlap == [Holding(Nothing) EXCEPT !.immediate = TRUE, !.overlaps = TRUE]

HeldCalls ==
    {Dropping, [Dropping EXCEPT !.budget.audio = 0, !.budget.ticks = 1],
     Holding([Nothing EXCEPT !.audio = 2, !.starts = 1, !.stops = 1, !.turns = 1,
                 !.updates = 1, !.interrupts = 1, !.refusals = 1]),
     [Holding([Nothing EXCEPT !.audio = 3, !.updates = 1, !.refusals = 1])
        EXCEPT !.immediate = TRUE],
     Holding([Nothing EXCEPT !.starts = 2, !.stops = 2, !.results = 2, !.dropped = 1]),
     [Overlap EXCEPT !.budget = [Nothing EXCEPT !.updates = 1, !.starts = 1, !.turns = 1,
                                    !.ends = 1, !.cancels = 1]],
     [Overlap EXCEPT !.budget = [Nothing EXCEPT !.audio = 1, !.updates = 1, !.starts = 1,
                                    !.turns = 1, !.ends = 1]]}

OneCall == {Dropping}
UpdatedCall == {[Overlap EXCEPT !.budget = [Nothing EXCEPT !.updates = 1, !.interrupts = 1]]}

Hearing == INSTANCE StreamService WITH
    Scenarios <- CallScenarios, MaxRetries <- 2, MaxFailures <- 2, sc <- call, s <- stt,
    left <- allowed

callVars == <<call, stt, session, conn, task, life, allowed>>
turnVars == <<talk, user, given, voice, rest>>

toolVars == <<asked, resp, line, fc, intr, sys, wire, data, bot, agg, act, known,
              said, runs, heard, ended, early>>

\* The value of a variable no behaviour of the component looks at; a processor
\* nobody looks at stays where it begins.
Unused == "unused"

NoProcessor == Init /\ sc = CHOOSE x \in Scenarios : TRUE
NoTools ==
    /\ asked = Unused /\ resp = Unused /\ line = Unused /\ fc = Unused
    /\ intr = Unused /\ sys = Unused /\ wire = Unused /\ data = Unused
    /\ bot = Unused /\ agg = Unused /\ act = Unused /\ known = Unused
    /\ said = Unused /\ runs = Unused /\ heard = Unused /\ ended = Unused
    /\ early = Unused
NoTurns ==
    /\ talk = Unused /\ user = Unused /\ given = Unused /\ voice = Unused
    /\ rest = Unused
NoCalls ==
    /\ call = Unused /\ stt = Unused /\ session = Unused /\ conn = Unused
    /\ task = Unused /\ life = Unused /\ allowed = Unused

MCInit ==
    \/ component = "frames" /\ Init /\ NoTools /\ NoTurns /\ NoCalls
    \/ component = "tools" /\ Asking!Init /\ NoProcessor /\ NoTurns /\ NoCalls
    \/ component = "turns" /\ Taking!Init /\ NoProcessor /\ NoTools /\ NoCalls
    \/ component = "calls" /\ Hearing!Init /\ NoProcessor /\ NoTools /\ NoTurns

MCNext ==
    /\ UNCHANGED component
    /\ \/ component = "frames" /\ Next /\ UNCHANGED <<toolVars, turnVars, callVars>>
       \/ component = "tools" /\ Asking!Next /\ UNCHANGED <<vars, turnVars, callVars>>
       \/ component = "turns" /\ Taking!Next /\ UNCHANGED <<vars, toolVars, callVars>>
       \/ component = "calls" /\ Hearing!Next /\ UNCHANGED <<vars, toolVars, turnVars>>

MCSpec == MCInit /\ [][MCNext]_<<component, vars, toolVars, turnVars, callVars>>

(* Tools: a call ends once, however its handler, its timeout and its       *)
(* cancellation race (EndedOnce), and one run of the model answers a batch *)
(* of calls (AnsweredOnce).                                                *)
CallsSettled == component = "tools" => Asking!EndedOnce /\ Asking!AnsweredOnce

(* Tools.ModelHears: the model is run on the results it asked for.         *)
ModelHears == component = "tools" => Asking!ModelHears

(* Tools.CancelSettles: a canceled call is settled "so the tool-use block  *)
(* it answers stays answered".                                             *)
CancelSettles == component = "tools" => Asking!CancelSettles

(* Turns.WordsKept: what was folded in is written once, in order.          *)
WordsKept == component = "turns" => Taking!WordsKept

(* Turns.OneMessage: a turn its detector may finalize is answered once.    *)
OneMessage == component = "turns" => Taking!OneMessage

(* Turns: an open turn with the user silent has its watchdog armed         *)
(* (Watched), and the idle timer runs only while nobody has anything to do *)
(* (IdleAlone).                                                            *)
TimersRight == component = "turns" => Taking!Watched /\ Taking!IdleAlone

(* StreamService.ListensOn: a session that drops is replaced.              *)
ListensOn == component = "calls" => Hearing!ListensOn

(* StreamService: what is said during a reopen is not lost (HeldReaches),  *)
(* and no transcript closes an utterance twice (MarkedAsAsked).            *)
HearsAll == component = "calls" => Hearing!HeldReaches /\ Hearing!MarkedAsAsked

(* StreamService: every session has its keepalive (KeptAlive), disconnect  *)
(* waits for the loops that will end (WaitsForEnding), and Cleanup leaves  *)
(* no session open (NothingLeft).                                          *)
SessionsTended ==
    component = "calls" =>
        Hearing!KeptAlive /\ Hearing!WaitsForEnding /\ Hearing!NothingLeft

(* StreamService.StillListening: the service reopens its session "rather   *)
(* than transcribing nothing for the rest of the call".                    *)
StillListening == component = "calls" => Hearing!StillListening
==============================================================================
