------------------------------ MODULE MCAgents ------------------------------
(***************************************************************************)
(* Workers, and what holds them together: the jobs they ask of one another,*)
(* the runner that starts and stops them, and the hand-over of the         *)
(* conversation.  A behaviour is one of one component; nobody asks for a   *)
(* job in the behaviours of the others, and the components a behaviour is  *)
(* not of stay as they begin.                                              *)
(***************************************************************************)
EXTENDS Jobs, Runner, Handoff, TLC

CONSTANTS
    j1, j2, j3,   \* jobs
    w1, w2, w3,   \* workers
    Nobody

VARIABLE component  \* the one the behaviour is of

-----------------------------------------------------------------------------
(* Jobs.                                                                   *)

Quiet == [asked |-> [j \in Jobs |-> {}], timed |-> {}, strict |-> {}, sequential |-> FALSE,
          stops |-> {}, calledOff |-> {}, silent |-> FALSE, answers |-> {<<"answer", "ok">>}]

\* Two workers asked together, with a timeout, and one error calls the rest off.
Together == [Quiet EXCEPT !.asked = j1 :> {w1, w2} @@ @, !.timed = {j1}, !.strict = {j1}]

\* Requests of one sequential handler.
InTurn(js) == [Quiet EXCEPT !.asked = [j \in Jobs |-> IF j \in js THEN {w1} ELSE {}],
                            !.sequential = TRUE]

\* A worker that stops while it has a job whose handler may never answer.
Stopped(kind) == [Quiet EXCEPT !.asked = j1 :> {w1} @@ @, !.timed = {j1}, !.silent = TRUE,
                               !.stops = {<<w1, kind>>}]

Requests ==
    {[Together EXCEPT !.answers = {"answer"} \X {"ok", "error"}],
     [Together EXCEPT !.answers = {<<"answer", "ok">>, <<"urgent", "error">>}],
     InTurn({j1, j2, j3}), [InTurn({j1, j2}) EXCEPT !.calledOff = {j2}],
     Stopped("endWorker"), Stopped("cancelWorker")}

JobScenarios == Requests \cup {Quiet}

-----------------------------------------------------------------------------
(* The runner: one worker, or two, that end by themselves; a root with a   *)
(* child, and every set of callers; two roots of which one ends by itself; *)
(* and a child added while the runner is being ended.                      *)

Pair == {w1, w2}
Alone == [first |-> {w1}, late |-> {}, parent |-> [w \in Workers |-> Nobody], quits |-> {},
          calls |-> {}, autoEnd |-> TRUE]
Quits == [Alone EXCEPT !.quits = {w1}]
Child == [w \in Workers |-> IF w = w2 THEN w1 ELSE Nobody]

RunnerPlans ==
    {Quits, [Alone EXCEPT !.first = Pair, !.quits = Pair], [Alone EXCEPT !.calls = {"end"}],
     [Alone EXCEPT !.late = {w2}, !.parent = Child, !.calls = {"end"}]}
    \cup {[Alone EXCEPT !.first = Pair, !.parent = Child, !.calls = c] :
              c \in {{"end", "cancel"}, {"end", "context"}, {"cancel", "context"}}}
    \cup {[Alone EXCEPT !.first = Pair, !.quits = {w2}, !.calls = {"end", "cancel"},
                        !.autoEnd = e] : e \in BOOLEAN}

-----------------------------------------------------------------------------
(* The components a behaviour is not of stay as they begin.  The workers of *)
(* a hand-over are alike, and w1 is the first.                             *)
NobodyRuns == RunnerInit /\ plan = Quits
FirstHolds == HandoffInit /\ active[w1]

MCInit ==
    /\ Init
    /\ \/ component = "jobs" /\ sc \in Requests /\ NobodyRuns /\ FirstHolds
       \/ component = "runner" /\ sc = Quiet /\ RunnerInit /\ FirstHolds
       \/ component = "handoff" /\ sc = Quiet /\ NobodyRuns /\ FirstHolds

MCvars == <<component, vars, runnerVars, handoffVars>>

Requesting == component = "jobs"
Hosting == component = "runner"
Handing == component = "handoff"

MCNext ==
    /\ UNCHANGED component
    /\ \/ Requesting /\ Next /\ UNCHANGED <<runnerVars, handoffVars>>
       \/ Hosting /\ RunnerNext /\ UNCHANGED <<vars, handoffVars>>
       \/ Handing /\ HandoffNext /\ UNCHANGED <<vars, runnerVars>>

(* Each component's own fairness: its goroutines go on.                    *)
MCProgress ==
    \/ Requesting /\ Progress /\ UNCHANGED runnerVars
    \/ Hosting /\ RunnerProgress /\ UNCHANGED vars

MCSpec == MCInit /\ [][MCNext]_MCvars /\ WF_<<vars, runnerVars>>(MCProgress)
=============================================================================
