------------------------------- MODULE Tools --------------------------------
(***************************************************************************)
(* The tool calls of one response: the LLM service that runs them          *)
(* (service/llm/llm.go, asynctool.go), each on a goroutine of its own or   *)
(* one after another, with timeouts, interruptions and cancellations, and  *)
(* the assistant aggregator (processor/aggregators) that writes them into  *)
(* the conversation and decides when the model is run on what they found.  *)
(* Between the two, system frames overtake the others.                     *)
(***************************************************************************)
EXTENDS Naturals, Sequences, FiniteSets

CONSTANTS Calls, Scenarios

VARIABLES
    sc,     \* the scenario
    resp,   \* where runWithTools is, and the calls it has yet to start
    line,   \* the calls waiting for runSequentially
    fc,     \* call -> its goroutine, and its entry in calls
    intr,   \* the interruption: where it is, and the calls it cancels
    sys,    \* the system frames on their way to the aggregator
    wire,   \* ... and the others, which overtake no system frame, ...
    data,   \* ... until they are in the aggregator's in-order queue
    bot,    \* whether the bot speaks
    agg,    \* the aggregator: who it knows to speak, and whether a run is deferred
    act,    \* its two goroutines: where each is, and with which call
    known,  \* call -> inProgress: "none", "announced", "started"
    said,   \* call -> what the conversation says of it
    runs,   \* how often the model has been run again, ...
    heard,  \* the calls that were settled when it last was, ...
    ended,  \* call -> how many results and cancellations were sent, ...
    early   \* and what came early: a result, a cancellation, the end of the response

vars == <<sc, resp, line, fc, intr, sys, wire, data, bot, agg, act, known, said, runs, heard, ended, early>>

\* The calls in order, those registered to survive an interruption, those with a
\* timeout, those whose handler does not report, those the application drops,
\* whether calls run one after another, whether the user interrupts, and whether
\* the bot speaks meanwhile.
Scenario == [calls : Seq(Calls), async : SUBSET Calls, timed : SUBSET Calls,
             silent : SUBSET Calls, dropped : SUBSET Calls, sequential : BOOLEAN,
             interrupts : BOOLEAN, speaks : BOOLEAN]

Asked == {sc.calls[i] : i \in DOMAIN sc.calls}

Resting == [pc |-> "idle", call |-> "none"]

Init ==
    /\ sc \in Scenarios
    /\ resp = [pc |-> "generating", todo |-> sc.calls]
    /\ line = <<>>
    /\ fc = [c \in Calls |-> [pc |-> "no", listed |-> FALSE, settled |-> FALSE,
                              armed |-> FALSE, off |-> "no"]]
    /\ intr = [pc |-> IF sc.interrupts THEN "coming" ELSE "over", todo |-> {}]
    /\ sys = <<>> /\ wire = <<>> /\ data = <<>>
    /\ bot = IF sc.speaks THEN "toSpeak" ELSE "quiet"
    /\ agg = [bot |-> FALSE, user |-> FALSE, deferred |-> FALSE]
    /\ act = [t \in {"sys", "data"} |-> Resting]
    /\ known = [c \in Calls |-> "none"]
    /\ said = [c \in Calls |-> "none"]
    /\ runs = 0 /\ heard = {}
    /\ ended = [c \in Calls |-> 0]
    /\ early = {}

service == <<resp, line, fc, intr>>
aggregator == <<bot, agg, act, known, said, runs, heard, early>>

Sys(k, c, r) == sys' = Append(sys, [kind |-> k, call |-> c, run |-> r])
Data(k, c) == wire' = Append(wire, [kind |-> k, call |-> c])

-----------------------------------------------------------------------------
(* The response.                                                           *)

\* startFunctionCalls announces the calls of a response that was not cut off.
Announce ==
    /\ resp.pc = "generating"
    /\ IF ~sc.interrupts \/ intr.pc = "coming"
       THEN /\ Sys("started", "none", FALSE)
            /\ resp' = [resp EXCEPT !.pc = "starting"]
       ELSE /\ resp' = [resp EXCEPT !.pc = "over"] /\ sys' = sys
    /\ UNCHANGED <<sc, line, fc, intr, wire, data, ended, aggregator>>

\* runFunctionCalls: a goroutine for each call, or its place in the line.
StartCall ==
    /\ resp.pc = "starting" /\ resp.todo # <<>>
    /\ resp' = [resp EXCEPT !.todo = Tail(@)]
    /\ IF sc.sequential
       THEN line' = Append(line, Head(resp.todo)) /\ fc' = fc
       ELSE fc' = [fc EXCEPT ![Head(resp.todo)].pc = "ready"] /\ line' = line
    /\ UNCHANGED <<sc, intr, sys, wire, data, ended, aggregator>>

\* The end of the response, behind everything the response has said.
EndResponse ==
    /\ resp.pc = "starting" /\ resp.todo = <<>>
    /\ resp' = [resp EXCEPT !.pc = "over"]
    /\ Data("end", "none")
    /\ UNCHANGED <<sc, line, fc, intr, sys, data, ended, aggregator>>

Idle(c) == fc[c].pc \in {"no", "over"}
RunSequentially ==
    /\ line # <<>> /\ \A c \in Calls : Idle(c)
    /\ fc' = [fc EXCEPT ![Head(line)].pc = "ready"]
    /\ line' = Tail(line)
    /\ UNCHANGED <<sc, resp, intr, sys, wire, data, ended, aggregator>>

-----------------------------------------------------------------------------
(* runFunctionCall.                                                        *)

Register(c) ==
    /\ fc[c].pc = "ready"
    /\ fc' = [fc EXCEPT ![c].pc = "registered", ![c].listed = TRUE]
    /\ UNCHANGED <<sc, resp, line, intr, sys, wire, data, ended, aggregator>>

InProgress(c) ==
    /\ fc[c].pc = "registered"
    /\ fc' = [fc EXCEPT ![c].pc = "called", ![c].armed = c \in sc.timed]
    /\ Data("inProgress", c)
    /\ UNCHANGED <<sc, resp, line, intr, sys, data, ended, aggregator>>

\* resultCallback, for the result of a handler or for its failure: a call that is
\* settled is left as it is.
Report(c) ==
    /\ fc[c].pc = "called" /\ c \notin sc.silent
    /\ fc' = [fc EXCEPT ![c].pc = IF fc[c].settled THEN "returned" ELSE "reporting",
                        ![c].settled = TRUE]
    /\ UNCHANGED <<sc, resp, line, intr, sys, wire, data, ended, aggregator>>

SendResult(c) ==
    /\ fc[c].pc = "reporting"
    /\ fc' = [fc EXCEPT ![c].pc = "returned", ![c].armed = FALSE]
    /\ Data("result", c)
    /\ ended' = [ended EXCEPT ![c] = @ + 1]
    /\ UNCHANGED <<sc, resp, line, intr, sys, data, aggregator>>

\* The handler has returned, with nothing reported where it reports nothing.
Return(c) ==
    /\ fc[c].pc = "returned" \/ (fc[c].pc = "called" /\ c \in sc.silent)
    /\ fc' = [fc EXCEPT ![c].pc = "over", ![c].armed = FALSE, ![c].listed = FALSE]
    /\ UNCHANGED <<sc, resp, line, intr, sys, wire, data, ended, aggregator>>

\* A bug: the deadline does not look whether the call has reported.
TimeoutAnyway(c) ==
    /\ fc[c].armed
    /\ fc' = [fc EXCEPT ![c].armed = FALSE, ![c].settled = TRUE, ![c].listed = FALSE,
                        ![c].off = "timeout"]
    /\ UNCHANGED <<sc, resp, line, intr, sys, wire, data, ended, aggregator>>

\* timeoutFunctionCall.
Timeout(c) ==
    /\ fc[c].armed
    /\ fc' = [fc EXCEPT ![c] =
                IF @.settled THEN [@ EXCEPT !.armed = FALSE]
                ELSE [@ EXCEPT !.armed = FALSE, !.settled = TRUE, !.listed = FALSE,
                               !.off = "timeout"]]
    /\ UNCHANGED <<sc, resp, line, intr, sys, wire, data, ended, aggregator>>

\* cancelFunctionCallByID.
CancelByID(c) ==
    /\ c \in sc.dropped /\ fc[c].listed /\ fc[c].off = "no"
    /\ fc' = [fc EXCEPT ![c].settled = TRUE, ![c].listed = FALSE, ![c].off = "dropped"]
    /\ UNCHANGED <<sc, resp, line, intr, sys, wire, data, ended, aggregator>>

\* broadcastFunctionCallCanceled asks for a run when a deadline has passed.
SendCancel(c) ==
    /\ fc[c].off \in {"timeout", "dropped"}
    /\ Sys("cancel", c, fc[c].off = "timeout")
    /\ ended' = [ended EXCEPT ![c] = @ + 1]
    /\ fc' = [fc EXCEPT ![c].off = "sent"]
    /\ UNCHANGED <<sc, resp, line, intr, wire, data, aggregator>>

-----------------------------------------------------------------------------
(* An interruption: the user speaks, the service cancels the calls it has   *)
(* registered, unless they survive one, and passes the interruption on.    *)

Interrupt ==
    /\ intr.pc = "coming"
    /\ LET cut == {c \in Calls : fc[c].listed /\ c \notin sc.async}
       IN /\ fc' = [c \in Calls |-> IF c \in cut
                      THEN [fc[c] EXCEPT !.settled = TRUE, !.listed = FALSE] ELSE fc[c]]
          /\ intr' = [pc |-> "canceling", todo |-> cut]
    /\ Sys("user", "none", FALSE)
    /\ UNCHANGED <<sc, resp, line, wire, data, ended, aggregator>>

CancelInterrupted(c) ==
    /\ intr.pc = "canceling" /\ c \in intr.todo
    /\ intr' = [intr EXCEPT !.todo = @ \ {c}]
    /\ Sys("cancel", c, FALSE)
    /\ ended' = [ended EXCEPT ![c] = @ + 1]
    /\ UNCHANGED <<sc, resp, line, fc, wire, data, aggregator>>

PassInterruption ==
    /\ intr.pc = "canceling" /\ intr.todo = {}
    /\ intr' = [intr EXCEPT !.pc = "over"]
    /\ Sys("interruption", "none", FALSE)
    /\ UNCHANGED <<sc, resp, line, fc, wire, data, ended, aggregator>>

-----------------------------------------------------------------------------
(* The aggregator.  Its process goroutine takes the data frames, and its    *)
(* input goroutine the system frames.                                      *)

TakesData(k) == act["data"].pc = "idle" /\ data # <<>> /\ Head(data).kind = k
TakesSys(k) == act["sys"].pc = "idle" /\ sys # <<>> /\ Head(sys).kind = k
Does(t, pc, c) == act' = [act EXCEPT ![t] = [pc |-> pc, call |-> c]]
Settled(c) == said[c] \in {"result", "canceled"}

\* inputLoop: a frame that is no system frame goes to the in-order queue when no
\* system frame waits.  The end of a response may come ahead of the end of its speech,
\* as it does when it is timed to the last word.
Deliver ==
    /\ act["sys"].pc = "idle" /\ sys = <<>> /\ wire # <<>>
    /\ wire' = Tail(wire) /\ data' = Append(data, Head(wire))
    /\ early' = IF Head(wire).kind = "end" /\ bot # "quiet" THEN early \cup {"end"} ELSE early
    /\ UNCHANGED <<sc, service, sys, bot, agg, act, known, said, runs, heard, ended>>

FunctionCallsStarted ==
    /\ TakesSys("started")
    /\ sys' = Tail(sys)
    /\ known' = [c \in Calls |-> IF c \in Asked THEN "announced" ELSE known[c]]
    /\ UNCHANGED <<sc, service, wire, data, bot, agg, act, said, runs, heard, ended, early>>

\* handleFunctionCallInProgress writes the call and its placeholder, and then
\* notes that the call is in progress.
WriteCall ==
    /\ TakesData("inProgress")
    /\ data' = Tail(data)
    /\ said' = [said EXCEPT ![Head(data).call] = "running"]
    /\ Does("data", "noting", Head(data).call)
    /\ UNCHANGED <<sc, service, wire, sys, bot, agg, known, runs, heard, ended, early>>

NoteCall ==
    /\ act["data"].pc = "noting"
    /\ known' = [known EXCEPT ![act["data"].call] = "started"]
    /\ Does("data", "idle", "none")
    /\ UNCHANGED <<sc, service, wire, sys, data, bot, agg, said, runs, heard, ended, early>>

\* handleFunctionCallResult: the result of a call that is not in progress is
\* dropped.
FunctionCallResult ==
    /\ TakesData("result")
    /\ data' = Tail(data)
    /\ IF known[Head(data).call] = "started"
       THEN /\ early' = early \cup {"result" : d \in {d \in Asked : said[d] = "none"}}
            /\ Does("data", "finishing", Head(data).call)
       ELSE UNCHANGED <<act, early>>
    /\ UNCHANGED <<sc, service, wire, sys, bot, agg, known, said, runs, heard, ended>>

\* A goroutine is to write what a call has come to, and to go on from there.
Settles(t, c, words, appends, then) ==
    act' = [act EXCEPT ![t] = [pc |-> "settling", call |-> c, words |-> words,
                               appends |-> appends, then |-> then]]

\* finishFunctionCall.
FinishCall ==
    /\ act["data"].pc = "finishing"
    /\ LET c == act["data"].call
       IN /\ known' = [known EXCEPT ![c] = "none"]
          /\ Settles("data", c, "result", c \in sc.async, "deciding")
    /\ UNCHANGED <<sc, service, wire, sys, data, bot, agg, said, runs, heard, ended, early>>

\* handleFunctionCallCancel stops tracking the call ...
FunctionCallCancel ==
    /\ TakesSys("cancel")
    /\ sys' = Tail(sys)
    /\ LET c == Head(sys).call
           started == known[c] = "started"
           then == CASE ~Head(sys).run \/ agg.user -> "idle"
                     [] started -> "deciding"
                     [] OTHER -> "pushing"
       IN IF known[c] # "none"
          THEN /\ known' = [known EXCEPT ![c] = "none"]
               /\ early' = IF started THEN early ELSE early \cup {"cancel"}
               /\ Settles("sys", c, "canceled", started /\ c \in sc.async, then)
          ELSE UNCHANGED <<known, act, early>>
    /\ UNCHANGED <<sc, service, wire, data, bot, agg, said, runs, heard, ended>>

\* ... and the conversation is written to once the lock is given back: a placeholder
\* is replaced where there is one, and an async-tool message is added.
Settle(t) ==
    /\ act[t].pc = "settling"
    /\ LET c == act[t].call
           placed == c \notin sc.async /\ said[c] # "none"
       IN said' = IF placed \/ act[t].appends THEN [said EXCEPT ![c] = act[t].words]
                  ELSE said
    /\ Does(t, act[t].then, act[t].call)
    /\ UNCHANGED <<sc, service, wire, sys, data, bot, agg, known, runs, heard, ended, early>>

\* shouldRunLLM: the last call of the group runs the model, unless the user speaks.
Decide(t) ==
    /\ act[t].pc = "deciding"
    /\ Does(t, IF agg.user \/ \E d \in Calls \ {act[t].call} : known[d] = "started"
               THEN "idle" ELSE "pushing", act[t].call)
    /\ UNCHANGED <<sc, service, wire, sys, data, bot, agg, known, said, runs, heard, ended, early>>

RunModel ==
    /\ runs' = runs + 1
    /\ heard' = {c \in Calls : Settled(c)}
    /\ agg' = [agg EXCEPT !.deferred = FALSE]

\* A bug: what comes while the bot speaks is not put off but dropped.
PushOrDrop(t) ==
    /\ act[t].pc = "pushing"
    /\ Does(t, "idle", "none")
    /\ IF agg.bot \/ \E i \in DOMAIN data : data[i].kind = "result"
       THEN UNCHANGED <<agg, runs, heard>> ELSE RunModel
    /\ UNCHANGED <<sc, service, wire, sys, data, bot, known, said, ended, early>>

\* maybePushContextAfterFunctionResult: not while more results wait, and not while
\* the bot speaks.
MaybePush(t) ==
    /\ act[t].pc = "pushing"
    /\ Does(t, "idle", "none")
    /\ CASE \E i \in DOMAIN data : data[i].kind = "result" -> UNCHANGED <<agg, runs, heard>>
         [] agg.bot -> agg' = [agg EXCEPT !.deferred = TRUE] /\ UNCHANGED <<runs, heard>>
         [] OTHER -> RunModel
    /\ UNCHANGED <<sc, service, wire, sys, data, bot, known, said, ended, early>>

\* The bot speaks what the response says.
BotSpeaks ==
    /\ bot = "toSpeak"
    /\ bot' = "speaking" /\ Sys("botStarted", "none", FALSE)
    /\ UNCHANGED <<sc, service, wire, data, agg, act, known, said, runs, heard, ended, early>>

BotStops ==
    /\ bot = "speaking"
    /\ bot' = "quiet" /\ Sys("botStopped", "none", FALSE)
    /\ UNCHANGED <<sc, service, wire, data, agg, act, known, said, runs, heard, ended, early>>

\* handleSpeakingState.
SpeakingState ==
    /\ TakesSys("botStarted") \/ TakesSys("botStopped") \/ TakesSys("user")
    /\ sys' = Tail(sys)
    /\ LET k == Head(sys).kind
       IN /\ agg' = IF k = "user" THEN [agg EXCEPT !.user = TRUE]
                    ELSE [agg EXCEPT !.bot = k = "botStarted"]
          /\ IF k = "botStopped" THEN Does("sys", "waking", "none") ELSE act' = act
    /\ UNCHANGED <<sc, service, wire, data, bot, known, said, runs, heard, ended, early>>

PushDeferred ==
    /\ act["sys"].pc = "waking"
    /\ Does("sys", "idle", "none")
    /\ IF agg.deferred /\ ~agg.user THEN RunModel ELSE UNCHANGED <<agg, runs, heard>>
    /\ UNCHANGED <<sc, service, wire, sys, data, bot, known, said, ended, early>>

\* closeTurn: the end of the response clears what was deferred, and so does an
\* interruption, which also drops the frames that may be dropped.
CloseTurn ==
    /\ TakesData("end")
    /\ data' = Tail(data)
    /\ agg' = [agg EXCEPT !.deferred = FALSE]
    /\ UNCHANGED <<sc, service, wire, sys, bot, act, known, said, runs, heard, ended, early>>

Interrupted ==
    /\ TakesSys("interruption")
    /\ sys' = Tail(sys)
    /\ wire' = SelectSeq(wire, LAMBDA f : f.kind # "end")
    /\ data' = SelectSeq(data, LAMBDA f : f.kind # "end")
    /\ agg' = [agg EXCEPT !.deferred = FALSE]
    /\ UNCHANGED <<sc, service, bot, act, known, said, runs, heard, ended, early>>

-----------------------------------------------------------------------------
Next ==
    \/ Announce \/ StartCall \/ EndResponse \/ RunSequentially
    \/ \E c \in Calls : \/ Register(c) \/ InProgress(c) \/ Report(c) \/ SendResult(c)
                        \/ Return(c) \/ Timeout(c) \/ CancelByID(c) \/ SendCancel(c)
                        \/ CancelInterrupted(c)
    \/ Interrupt \/ PassInterruption
    \/ Deliver \/ FunctionCallsStarted \/ WriteCall \/ NoteCall \/ FunctionCallResult
    \/ FinishCall \/ FunctionCallCancel
    \/ \E t \in {"sys", "data"} : Settle(t) \/ Decide(t) \/ MaybePush(t)
    \/ BotSpeaks \/ BotStops \/ SpeakingState \/ PushDeferred \/ CloseTurn \/ Interrupted

Spec == Init /\ [][Next]_vars

-----------------------------------------------------------------------------
\* "A result racing in while the handler unwinds is rejected rather than
\* broadcast": a call ends by its result or by its deadline, and not by both.
EndedOnce ==
    ~sc.interrupts /\ sc.dropped = {} => \A c \in Calls : ended[c] <= 1

AtRest ==
    /\ resp.pc = "over" /\ line = <<>> /\ intr.pc = "over" /\ sys = <<>>
    /\ wire = <<>> /\ data = <<>> /\ bot = "quiet" /\ \A t \in {"sys", "data"} : act[t].pc = "idle"
    /\ \A c \in Calls : Idle(c) /\ fc[c].off \in {"no", "sent"}

\* "The model never learns the call is over and the user is left waiting": when
\* all is done, the model has been run on every result and every deadline, unless
\* the user spoke, or a handler reported nothing, or the application dropped a
\* call, or a cancellation overtook the frame that begins its call, or the end of the
\* response reached the aggregator before the bot had stopped: pushAggregation then
\* drops the run that was put off until it stops.
ModelHears ==
    (AtRest /\ ~agg.user /\ sc.silent \cup sc.dropped = {} /\ {"cancel", "end"} \cap early = {})
        => \A c \in Asked : c \in heard

\* The service lets the aggregator answer "the batch with a single inference once
\* the last of them has reported", where no call reports before all are in progress
\* and none is canceled.
Uncanceled == sc.timed \cup sc.dropped = {} /\ ~sc.interrupts
AnsweredOnce == Uncanceled /\ early = {} => runs <= 1

\* A cancellation settles its call in the conversation, "rather than being left in
\* progress for the rest of the session".
CancelSettles == AtRest => \A c \in Asked : ended[c] = 1 => said[c] # "running"
=============================================================================
