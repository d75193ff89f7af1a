---------------------------- MODULE MCServices ------------------------------
(***************************************************************************)
(* The services of a pipeline, each by itself: a service switcher's choice *)
(* of a service, what the switcher lets through, a text-to-speech service  *)
(* and an output transport.  A behaviour is one of one component; the      *)
(* variables the component does not have are unused in it.                 *)
(***************************************************************************)
EXTENDS Failover, TLC

VARIABLES
    component,  \* the one the behaviour is of
    chosen, input, branch, waiting, got, copying, updates, full, seen, gone,   \* Gate
    sc, fr, sv, open, items, serial, loop, held, ig, paused, prov, play, out, cut,
    told,                                                                   \* Speech
    plan, fg, buffer, queue, pacer, bot, saying, drained, clock, works, stopper,
    heard, reports, passed                                                  \* Output

Switcher == INSTANCE Gate WITH N <- 2, Frames <- 3, Ring <- 2,
                active <- chosen, queue <- waiting, out <- gone

-----------------------------------------------------------------------------
(* A text-to-speech service: two responses with a sentence left over and a *)
(* frame between them; an utterance between two responses; a response that *)
(* is interrupted; one whose playback the service waits out.               *)

Calm(f) == [frames |-> f, inline |-> TRUE, timed |-> FALSE, silent |-> FALSE,
            pause |-> FALSE, slow |-> FALSE, interrupts |-> 0]
TwoResponses == Calm(<<"start", "text", "part", "end", "start", "text", "end", "stop">>)
Utterance == Calm(<<"start", "text", "end", "speak", "other", "stop">>)
OneResponse == Calm(<<"start", "text", "end", "stop">>)
WaitedFor == Calm(<<"start", "text", "end", "other">>)

SpeechScenarios ==
    UNION {{[TwoResponses EXCEPT !.inline = i, !.timed = t],
            [Utterance EXCEPT !.inline = i],
            [OneResponse EXCEPT !.inline = i, !.timed = t, !.interrupts = 1],
            [WaitedFor EXCEPT !.inline = i, !.silent = t, !.pause = TRUE]} :
              i \in BOOLEAN, t \in BOOLEAN}

Speaker == INSTANCE Speech WITH Scenarios <- SpeechScenarios, Contexts <- 1..4

-----------------------------------------------------------------------------
(* An output transport: a turn and the session's end, with a peer that     *)
(* stops reading, a gap in the audio, an interruption, a mixer, a frame    *)
(* that must be delivered; a turn nothing stops; and two turns.            *)

Audio(n) == [kind |-> "audio", size |-> n]
Frame(k) == [kind |-> k, size |-> 0]
Plays(f) == [frames |-> f, mixer |-> FALSE, interrupts |-> 0, dies |-> FALSE, gaps |-> FALSE]
OneTurn == Plays(<<Audio(3), Audio(2), Frame("sync"), Frame("stopped"), Frame("timed"),
                   Frame("end")>>)
TwoTurns == Plays(<<Audio(3), Frame("stopped"), Audio(3), Frame("stopped"), Frame("end")>>)
OpenTurn == Plays(<<Audio(3), Frame("end")>>)
ShortTurn == Plays(<<Audio(3), Frame("stopped"), Frame("end")>>)
Delivery == Plays(<<Audio(3), Frame("unint"), Frame("end")>>)

OutputScenarios ==
    {OneTurn, [OneTurn EXCEPT !.gaps = TRUE], [OneTurn EXCEPT !.dies = TRUE], TwoTurns,
     OpenTurn}
    \cup {[t EXCEPT !.interrupts = 1, !.mixer = m] : t \in {ShortTurn, Delivery}, m \in BOOLEAN}

Sender == INSTANCE Output WITH Scenarios <- OutputScenarios, ChunkSize <- 2,
              sc <- plan, loop <- pacer, usable <- works, ig <- stopper, out <- passed

-----------------------------------------------------------------------------
(* The value of a variable no behaviour of this component looks at.        *)
Unused == "unused"

NoGate ==
    /\ chosen = Unused /\ input = Unused /\ branch = Unused /\ waiting = Unused
    /\ got = Unused /\ copying = Unused /\ updates = Unused /\ full = Unused
    /\ seen = Unused /\ gone = Unused
NoSpeech ==
    /\ sc = Unused /\ fr = Unused /\ sv = Unused /\ open = Unused /\ items = Unused
    /\ serial = Unused /\ loop = Unused /\ held = Unused /\ ig = Unused
    /\ paused = Unused /\ prov = Unused /\ play = Unused /\ out = Unused
    /\ cut = Unused /\ told = Unused
NoOutput ==
    /\ plan = Unused /\ fg = Unused /\ buffer = Unused /\ queue = Unused
    /\ pacer = Unused /\ bot = Unused /\ saying = Unused /\ drained = Unused
    /\ clock = Unused /\ works = Unused /\ stopper = Unused /\ heard = Unused
    /\ reports = Unused /\ passed = Unused

MCInit ==
    /\ Init
    /\ \/ component = "failover" /\ NoGate /\ NoSpeech /\ NoOutput
       \/ component = "gate" /\ Switcher!Init /\ NoSpeech /\ NoOutput
       \/ component = "speech" /\ Speaker!Init /\ NoGate /\ NoOutput
       \/ component = "output" /\ Sender!Init /\ NoGate /\ NoSpeech

gateVars == <<chosen, input, branch, waiting, got, copying, updates, full, seen, gone>>
speechVars == <<sc, fr, sv, open, items, serial, loop, held, ig, paused, prov, play,
                out, cut, told>>
outputVars == <<plan, fg, buffer, queue, pacer, bot, saying, drained, clock, works,
                stopper, heard, reports, passed>>
MCvars == <<component, vars, gateVars, speechVars, outputVars>>

Failing == component = "failover"
Gating == component = "gate"
Speaking == component = "speech"
Sending == component = "output"

MCNext ==
    /\ UNCHANGED component
    /\ \/ Failing /\ Next /\ UNCHANGED <<gateVars, speechVars, outputVars>>
       \/ Gating /\ Switcher!Next /\ UNCHANGED <<vars, speechVars, outputVars>>
       \/ Speaking /\ Speaker!Next /\ UNCHANGED <<vars, gateVars, outputVars>>
       \/ Sending /\ Sender!Next /\ UNCHANGED <<vars, gateVars, speechVars>>

(* Each component's own fairness: its goroutines go on.                    *)
Fairness ==
    /\ \A t \in Threads :
          WF_vars(Failing /\ ((t \in Services /\ Branch(t)) \/ Strategy(t)))
    /\ WF_speechVars(Speaking /\ (Speaker!TakeFrame \/ Speaker!FrameStep))
    /\ WF_speechVars(Speaking /\ Speaker!LoopStep)
    /\ WF_speechVars(Speaking /\ Speaker!InputStep)
    /\ WF_speechVars(Speaking /\ Speaker!OutputStep)
    /\ WF_speechVars(Speaking /\ Speaker!ProviderStep)
    /\ WF_outputVars(Sending /\ Sender!FrameStep)
    /\ WF_outputVars(Sending /\ Sender!LoopStep)
    /\ WF_outputVars(Sending /\ Sender!InputStep)
    /\ WF_outputVars(Sending /\ Sender!ClockTake)
    /\ WF_outputVars(Sending /\ Sender!ClockDeliver)

MCSpec == MCInit /\ [][MCNext]_MCvars /\ Fairness

-----------------------------------------------------------------------------
(* The components' properties, each in the behaviours of its component.    *)

(* Gate: a frame no switch overtakes is handled once by each service meant *)
(* to have it (RoutedOnce), and the copies made for inactive services do   *)
(* not get out (CopiesStay).                                               *)
Routed == Gating => Switcher!RoutedOnce /\ Switcher!CopiesStay

(* Speech: everything said is heard exactly once (SpokenOnce), frames and  *)
(* speech keep their order (KeepsPlace), a response has one end, behind    *)
(* its speech (ResponseEndsOnce), and an interrupted context is silent     *)
(* from then on (NothingAfterCut).                                         *)
Spoken ==
    Speaking => /\ Speaker!SpokenOnce /\ Speaker!KeepsPlace
                /\ Speaker!ResponseEndsOnce /\ Speaker!NothingAfterCut

(* Speech.Ends: every frame is handled.                                    *)
SpeechEnds == <>(Speaking => Speaker!AllHandled)

(* Output: audio is heard in order and no byte twice (InOrder), a turn's   *)
(* stop follows all of its audio (TurnPlaysOut), and the session ends      *)
(* after the last byte is heard (EndPlaysOut).                             *)
Played ==
    Sending => Sender!InOrder /\ Sender!TurnPlaysOut /\ Sender!EndPlaysOut

(* Output: taking and giving up the floor alternate (FloorReported), and a *)
(* barge-in cuts the bot off (CutOff).                                     *)
FloorRight == Sending => Sender!FloorReported /\ Sender!CutOff

(* Output: the EndFrame gets through (SessionEnds), and with a mixer what  *)
(* must be delivered is (Delivered).                                       *)
SessionEnds == <>(Sending => Sender!EndGetsThrough /\ Sender!Delivered)

(* Output.InterruptedSessionEnds: drainAudio says "A CancelFrame or an      *)
(* interruption skips it and stops at once".                               *)
InterruptedSessionEnds == <>(Sending => Sender!Ended)

(* Speech.ProviderTold: on an interruption "the provider is told so it      *)
(* stops generating into contexts nobody is listening to".                 *)
ProviderTold == Speaking => Speaker!ProviderTold
=============================================================================
