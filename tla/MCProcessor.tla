----------------------------- MODULE MCProcessor -----------------------------
(***************************************************************************)
(* Instances of Processor for TLC.  A budget names how many frames of each *)
(* kind are queued; the frames are queued in every order.                  *)
(***************************************************************************)
EXTENDS Processor, TLC

None == [k \in Kinds |-> 0]

\* Two interruptions around data and an uninterruptible frame.
BargeInBudget == "start" :> 1 @@ "data" :> 1 @@ "unint" :> 1
                 @@ "interruption" :> 2 @@ None

\* An interruption with nothing uninterruptible, and a plain system frame.
FlushBudget == "start" :> 1 @@ "data" :> 2 @@ "interruption" :> 2
               @@ "system" :> 1 @@ None

\* A frame that pauses a processor, and both kinds that resume it.
PauseFrameBudget(pause) == pause :> 1 @@ "start" :> 1 @@ "data" :> 1
                           @@ "resume" :> 1 @@ "resumeUrgent" :> 1 @@ None

\* Data behind calls of the pause methods.
PauseBudget == "start" :> 1 @@ "data" :> 2 @@ None

\* Data and an uninterruptible frame behind pauses and an interruption.
PauseApiBudget == "start" :> 1 @@ "data" :> 1 @@ "unint" :> 1
                  @@ "interruption" :> 1 @@ None

\* What the neighbours and the callers of the processor do.
Quiet(b) == [budget |-> b, api |-> {}, calls |-> 0, tears |-> FALSE]
Calling(b, m, n) == [Quiet(b) EXCEPT !.api = m, !.calls = n]

SafeScenarios == {Quiet(BargeInBudget),
                  Quiet(FlushBudget),
                  Quiet(PauseFrameBudget("pause")),
                  Quiet(PauseFrameBudget("pauseUrgent")),
                  Calling(PauseApiBudget, Methods \ {"until"}, 2)}

StuckScenario == {Calling(PauseBudget, {"pause", "broadcast", "resume"}, 3)}
==============================================================================
