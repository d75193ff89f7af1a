# A TLA+ model of the voxigo engine

voxigo runs a voice agent as a *pipeline* of *processors* that exchange
*frames*. Every processor has goroutines of its own, an interruption may cancel
one of them at any time, a run is started, ended and canceled by frames that
travel the same pipeline as the data, and services, transports and whole workers
hang on to it with goroutines of theirs. This directory models that engine in
TLA+, checks it with TLC on small instances, and proves the safety properties of
its core with TLAPS for every instance.

Contents: 1 the system and its modules, 2 how the modules are written, 3 what is
checked, 4 what the checks found, 5 bounds and fairness, 6 what is proved, 7 what
is not.

## 1. The system and its modules

| Part | Source | Module | What is hard about it |
|---|---|---|---|
| Frame processor | `processor/processor.go`, `queue.go`, `pause.go` | `Processor` | an interruption cancels and replaces a goroutine that is taking frames; pause gates are two-step flags; teardown races both |
| Pipeline worker | `pipeline/worker.go` | `Worker` | several ways to end a run race each other, in a pipeline that may not deliver |
| Parallel pipeline | `pipeline/parallel.go` | `Parallel` | branches are concurrent; lifecycle frames must be released once, in the right place |
| Service switcher | `pipeline/switcher.go` | `Failover`, `Gate` | failover races switches by hand and changes of usability; a switch overtakes frames in the branches |
| Text to speech | `service/tts` | `Speech` | four goroutines share the audio contexts |
| Output transport | `transport/output.go`, `mediasender.go`, queues | `Output` | an interruption during a write; the drain at the end |
| User turns, user aggregator | `processor/turns`, `processor/aggregators` | `Turns` | timers against late transcripts; a frame handled in two halves |
| Tool calls, assistant aggregator | `service/llm`, `processor/aggregators` | `Tools` | deadlines, interruptions and results race; system frames overtake |
| Streaming transcription | `service/stt/stream.go`, `service/wsservice` | `StreamService` | reconnection, a session replaced under its users |
| Jobs between workers | `workers/jobs.go`, `bus` | `Jobs`, `JobGroups` | answers, cancels and timeouts race on four goroutines |
| Runner | `workers/runner.go` | `Runner` | several callers begin the shutdown, at any point of the start |
| Hand-over | `workers/workers.go` | `Handoff` | activations and deactivations cross |

How they interact: the runner runs workers; a worker pushes frames into its
pipeline's source; every processor queues them, handles them on one of its two
goroutines and pushes them to its neighbour's queue; the sink reports lifecycle
frames back to the worker. A system frame (start, cancel, interruption) is
handled by the *input* goroutine and overtakes; data and control frames are
handed to the *process* goroutine and keep their order. A service or a transport
is a processor whose handlers share state with goroutines of its own, and those
two orders meet again in each of them. Workers talk over a bus that has the same
two bands.

`components` in `PROJECT.json` lists every part of the repository with what of it
is modelled. `map` ties each definition to the lines it stands for.

Beside these there are modules that compose them for TLC and modules that prove.

| Module | Holds |
|---|---|
| `MCPipeline` | `Worker` in three settings, and `Processor` where its liveness is asked |
| `MCSession` | `Processor` (through `MCProcessor`), `Tools`, `Turns` and `StreamService` |
| `MCParallel` | `Parallel` with two branches |
| `MCServices` | `Failover`, `Gate`, `Speech` and `Output` |
| `MCAgents` | `Jobs`, `Runner` and `Handoff`; `WorkerSet` is the constant they share |
| `ParallelInv` | the invariants the proofs about `Parallel` rest on |
| `ProcessorProofs`, `WorkerProofs`, `FailoverProofs`, `AgentsProofs`, `JobsProofs` | theorems about `Processor`, `Worker`, `Failover`, `Runner` and `Handoff`, `Jobs` |
| `ParallelProofs`, `ParallelFrames`, `ParallelLifecycle` | theorems about `Parallel`, each module on top of the one before |

A module that composes several components gives each behaviour to one of them
(`component`, `setting`); the variables of the others are `unused` in it or stay
as they begin. The components are checked side by side, not against each other:
what one sees of another is stated in its own module, from the code that calls
it.

## 2. How the modules are written

Each goroutine is a program counter, and a step is what the code does between
two points at which another goroutine can see or change its state: a lock, a
channel operation, a call that blocks. What callers and neighbours do comes from
a *scenario* (`sc`, `plan`, a budget of frames): how many frames of each kind
arrive, in every order, which methods are called, and what may fail. Frames are
`[id, kind]`; text, audio and settings are reduced to what the properties tell
apart. History variables (`out`, `lost`, `heard`, `said`, ...) record what left
the component.

**Processor.** `ipc` is `inputLoop`, `pc[l]` the `l`-th instance of `processLoop`
(an interruption ends one and starts the next), `cl` `Cleanup`, `ctl` a call made
by another goroutine, `watcher` the goroutine of
`PauseProcessingAllFramesUntil`. `startInterruption` is `InputInterrupt` (read
the current frame, decide), then `InputReset` or `InputCancelTask`, `InputAwait`
and `InputCreate`. `queue.get` serves a queued frame before it looks at its
context, and so do `LoopGet` and `LoopExit`. `ProcessFrame` is any function that
pushes the frame on or gives it up when its context is canceled; `HonorsCtx` says
that it does so within `processCancelTimeout`. One reordering is built in: a
pause that has set its flag and not yet cleared its event does so before
`resetProcessTask` replaces that event, which comes to the same.

**Worker.** `rl` is the goroutine of `Run`. Frames travel an external pipeline in
`travelling` (in order) and `urgent` (overtaking) and come back through
`returning`; `Wedge` is a processor that stops handling frames.

**Parallel.** Two goroutines (`pc["system"]`, `pc["frames"]`), each behind a pause
gate, fan frames out one branch at a time. A branch is external: three lanes,
what its last processor delivers from its input goroutine, from its process
goroutine and from a goroutine of its own. Each lane calls the sink, with its own
place in `sinkPush`, since the lock is released between recording a frame and
pushing it. A processor in a branch pushes frames of its own (`Raise`): among what
it handles, or from a goroutine of its own at any time, before the StartFrame
included, since the sink is in direct mode and holds nothing back. One of those
may be an EndFrame. The flag and the event of a pause are set in one step;
`Processor` has them apart.

**Failover, Gate.** The threads are the branches of the services and a caller.
`setActiveIfAvailable`, `handleServiceError` and `announceUsable` are taken apart
at their locks. `Gate` has the fan-out, the filter at the head of a branch, the
copies of settings updates and their removal at the exit.

**Speech, Output.** The goroutine that handles frames, the loop that plays, the
input goroutine and the provider (or the clock) are threads over the shared
queues. Audio is a number of units, so that one lost or played twice shows.

**Turns.** One lock is held by `Process` and by every timer, and a strategy calls
back into its controller, so handlers are operators from the state `u` to the
state `u`; the half of a transcript that runs before the lock is a step of its
own. **Tools** has a goroutine per call, the deadline of each, and the two orders
in which frames reach the aggregator; a call is settled in two steps, as the code
stops tracking it under its lock and writes to the conversation after it, and the
end of a response may reach the aggregator before the bot has stopped speaking. **StreamService** has the read loop, the
keepalive, the input and the process goroutine, and dials that may be refused.

**Jobs.** A thread per delivery goroutine (`<<worker, band>>`), per caller and per
timeout; `run` is the handler of a request, `grp` a group of answers. `JobGroups`
is what a requester is promised of a group, and `Jobs` implements it
(`ImplementsGroups`: `INSTANCE JobGroups` with a group's state and recorded
answers). **Runner** has the entries of the runner, the callers that end it and
the life of each worker; **Handoff** the queues through which activations travel,
with hand-overs begun by any worker at any time, active or not and started or not.

**What is taken in one step.** Six pairs of neighbouring sections of the code are one
step here, so interleavings between the two are not explored: the look-up of an
audio context and the append to it (`Speech!Into`), the rest of a buffer and its
place on the queue (`Output!EnqueueFlushedAudioBuffer`), a frame in the turn controller,
the idle controller and the mute (`Turns!Control`), a session installed and its
keepalive started (`StreamService!Installs`), the two halves of a finalize
(`StreamService!Stops`), and the messages that call a job off and its failure
(`Jobs!CallOff`). A request names each worker once (`Jobs!RequestJob`), and the
InterruptionFrame that `BroadcastInterruption` pushes to the neighbours leaves the
processor and is not followed (`Processor!CtlBroadcast`).

## 3. What is checked

Five runs pass. Between them they take every action of every module.

| Run | States | Properties |
|---|---|---|
| `pipeline` | 120 thousand | `FinishedOnce`, `EndFlushes`, `RunEnds` of a worker; `Drains`, `CleanupEnds` of a processor |
| `session` | 1.3 million | `InOrder`, `InterruptionFlushes`, `NothingVanishes` of a processor; `CallsSettled`, `ModelHears` of tool calls; `WordsKept`, `OneMessage`, `TimersRight` of turns; `ListensOn`, `HearsAll`, `SessionsTended` of a transcription |
| `parallel` | 780 thousand | `EscapesOnce`, `LifecycleSynced`, `Drains` |
| `services` | 241 thousand | `ActiveUsable`, `FailsOver` of the switcher's choice, `Routed` of its gate; `Spoken`, `SpeechEnds` of speech; `Played`, `FloorRight`, `SessionEnds` of the output |
| `agents` | 263 thousand | `OneVerdict`, `SequentialTurns`, `ImplementsGroups`, `GroupsEnd` of jobs; `NoneLeft`, `RunCompletes` of the runner; `HandedOver` |

A property that is made of several (`LifecycleSynced` of `StartFirst`,
`SyncedByAll` and `EndFlushes`, say) names them in the comment above it. The
comment also says which behaviour of the code it is about. For each property
`mutants` names a plausible mistake in the code (a dropped guard, a swapped
order, a missing reset) that violates it.

Seven runs are expected to fail: each states what a comment of the code says and
finds a behaviour of the code that is otherwise. `findings` quotes both sides.

| Run | Shows |
|---|---|
| `stuck_pause` | `BroadcastInterruption` replaces the event a paused process goroutine waits on, which nothing then releases |
| `worker_cancel_behind_end` | a `Cancel` behind an EndFrame in a wedged pipeline does not end the run |
| `output_drain` | an interruption that clears the audio queue takes the drain marker of an EndFrame with it, which then waits for good |
| `speech_provider_told` | an interruption empties the audio contexts before it tells the provider which were open |
| `runner_end` | `End` wakes `Run` before it has asked anyone to end, and the cancels of the exit path overtake the ends |
| `tool_canceled` | the cancellation of a call overtakes its in-progress frame, and the conversation keeps a call that nothing settles |
| `call_deaf` | a session opened by a change of settings ends with the goroutine that handled it |

## 4. Seen while modelling, and not a run

These are shorter than a run of their own and are kept as the conditions under
which a property is stated.

* `processor.go:827`: `startInterruption` looks at the current frame and cancels
  later. The process goroutine finishes an ordinary frame in between and takes an
  uninterruptible one, whose context is then canceled under it;
  `frames/frames.go:229` says any task processing such a frame "is never canceled".
  `NothingVanishes` counts it among what a goroutine gave up.
* `queue.go:67`: `get` serves what is queued before it looks at its context, so a
  canceled process goroutine handles its backlog before it ends;
  `docs/concepts/interruptions.md:67` has the queue dropped.
* `parallel.go:116`: a system frame already past its gate when the process
  goroutine pauses both paths for an EndFrame enters the branches behind it;
  `CHANGELOG.md:2172` has both paths paused. The merge promises no order between
  branches, so none is stated.
* `parallel.go:139`: what a processor in a branch pushes during setup leaves ahead
  of the StartFrame, since nothing is synchronized yet. `StartFirst` lets pushes
  from a goroutine of a branch's own by, and nothing else.
* `parallel.go:152`: an EndFrame a branch raises has no counter. It is released at
  once, flushes the buffer and ends the synchronization of whatever else is being
  synchronized, so that frames get out ahead of a StartFrame or behind an
  EndFrame. `LifecycleSynced` promises `StartFirst` and `EndFlushes` until one is
  raised, and `SyncedByAll` always; `EscapesOnce` and `Drains` hold throughout.
* `aggregators.go:570`: a timer ends the turn after a transcript is folded in and
  before the controller has the frame. Its words are in the message of that turn;
  the turn the controller then opens on them interrupts the answer and closes
  with nothing to say.
* `aggregators.go:1803`: the end of a response drops a run of the model that was put
  off until the bot stops, because what is pushed instead "covers whatever a tool
  result deferred"; but that goes downstream and the model is upstream. Where the
  end is timed to the last word (`tts/audiocontext.go:698`) it reaches the
  aggregator before the bot has stopped, and the results stay unanswered.
  `ModelHears` is stated where it comes after.
* `idle.go:120`: a turn that another processor announces is over for the idle
  controller with the announcement, while `ExternalStop` may hold it open for its
  transcript. `IdleAlone` there promises only that the user is not speaking.
* `stop.go:637`: `ExternalStop` follows no voice activity. Where there is some, the
  controller refuses to finalize, and each tick triggers another inference:
  `OneMessage` is stated for external strategies without it.
* `runner.go:423`: a root worker looks for others still running before its own
  `done` is closed. Two that return together each see the other, and neither ends
  the run; `runner.go:101` says "Run ends once every root worker has finished".
  `RunCompletes` promises the end by itself to a lone root, and the end of a
  shutdown that has begun to any number.
* `workers.go:600`: a worker that is not active, or has not taken up its own
  activation, may hand over all the same. Its target becomes active beside whoever
  holds the conversation, or `Start` activates a worker that has handed over.
  `HandedOver` promises a single holder where every hand-over is begun by an active
  worker with no activation pending (`orderly`), and a holder in every case.
* `jobs.go:434`: a sequential request called off while it waits closes its release
  channel, and the one behind it starts beside the handler still running;
  `jobs.go:42` says "one at a time". `SequentialTurns` is stated where none is
  called off.
* `jobs.go:460`: an urgent error and ordinary answers are taken on two goroutines,
  and both verdicts fire. `OneVerdict` is stated for answers in one band.
* `tts/pause.go:57`: the pause is decided on what plays and taken afterwards; when
  the bot falls silent in between nothing lifts it. `SpeechEnds` leaves the
  scenarios with a pause out, and no property covers this hazard.
* Others are in the notes of `hazards`: an announcement that is stale when two
  readings overlap, the tail of a second turn that the stop of the first drops, a
  job lost between two looks of `Stop`, a service reported lost by a redial that
  a reopen has overtaken.

## 5. Bounds and fairness

The bounds are counts of what the outside does; nothing inside a component is cut
short. They are chosen so that each race a property is about happens at least
once with something to lose on both sides.

| Instance | Bounds | Why they are enough |
|---|---|---|
| `MCProcessor` | `MaxLoops` 3, a small budget of frames per scenario | an interruption during the restart of an interruption needs three process goroutines |
| `MCPipeline` | `MaxQueued` 2 or 3, one setting per policy and way to end | an end, a cancel and one frame between them |
| `MCSession` | two tool calls, three transcripts, `MaxRetries` 2, `MaxFailures` 2 | siblings in one batch; a transcript before, across and after a turn; a retry that fails and one that works |
| `MCParallel` | `N` 2, five budgets of three or four frames, and in those of three one more raised in a branch (`MaxRaised` 1, `MaxIds` 4) | a frame one branch has delivered and the other has not, beside a lifecycle frame; a data frame or an EndFrame raised at every point, before the StartFrame included |
| `MCServices` | two services, two errors, one switch, one recovery; chunks of 2 units | a failover that meets each of the others |
| `MCAgents` | three jobs, three workers, three hand-overs; two root workers that both quit | two answers and a verdict; a job ahead of and behind another; a conversation that comes back |

Deadlock is not checked: a session stops by design, and what must happen before
it does is what the liveness properties say.

Fairness is weak and is given to goroutines that are runnable, never to callers,
providers or timers that the code does not own. `Processor` has one condition for
its input goroutine, one for each process goroutine, one for the goroutine that
lifts a pause, and one for calls and a cleanup that have begun. `Worker` has one
for `Run`, one for its pipeline (not once it is wedged) and one for the cancel it
queues itself. `Failover` has one per thread, `Speech` and `Output` one per
goroutine. `Parallel`, `Jobs`, `Runner`, `MCPipeline`, `MCAgents` and
`StreamService` have a single one for `Progress`, the disjunction of the steps of
their goroutines. In the instances checked no state recurs, because every step
uses up something; there, a goroutine that stays runnable would in the end be the
only one left to run, and the single condition says the same as one for each.
Timeouts of jobs are in `Progress` since the Go runtime fires timers; arrivals,
failures and calls are not.

## 6. What is proved

Each theorem holds for all values of the constants, that is for any number of
frames, branches, services, workers, jobs and restarts and for every set of
scenarios, under the assumptions of the module it is about (named `ASSUME`s on
the types of the constants, which TLC evaluates on every run). All of them have
one shape: an inductive invariant stronger than the property, one lemma per
action or group of actions, and a temporal step that combines them.

| Theorem | States | By |
|---|---|---|
| `ProcessorProofs!TypeCorrect` | every variable keeps its type | by itself |
| `ProcessorProofs!OneConsumer` | at most one process goroutine is alive before `Cleanup`, where `HonorsCtx` | `TaskInv` |
| `ProcessorProofs!NoFlushDrops` | `NothingVanishes` | `KeptInv` |
| `ProcessorProofs!FramesInOrder` | `InOrder`, where `HonorsCtx` | `OrderInv` |
| `ProcessorProofs!StartComesFirst` | nothing is pushed before the StartFrame | `StartInv` |
| `ProcessorProofs!InterruptionLeavesNothing` | `InterruptionFlushes`, where `HonorsCtx` | `FlushInv` |
| `WorkerProofs!WorkerTypes`, `CancelSentOnce`, `CancelTearsDown` | types; one CancelFrame at most; a canceled run is torn down | `CancelInv` |
| `WorkerProofs!ReportedOnce` | `FinishedOnce` | `FinishInv` |
| `WorkerProofs!EndFlushesPipeline` | `EndFlushes` | `FlushInv` |
| `ParallelProofs!FramesEscapeOnce` | `EscapesOnce` | `Types`, `OnceInv` |
| `ParallelLifecycle!LifecycleIsSynced` | `LifecycleSynced`, where `Ordinary` | `LifeInv` |
| `FailoverProofs!ActiveLookedAfter` | `ActiveUsable` | `IInv` |
| `JobsProofs!TypeCorrect`, `Implementation` | types; `ImplementsGroups` | `IInv` |
| `JobsProofs!NoSecondVerdict` | `OneVerdict` | `OneBand`, `Verdicts` |
| `JobsProofs!TurnsKept` | `SequentialTurns` | `OnceInv`, `KnownInv`, `TurnInv` |
| `AgentsProofs!ConversationKept` | `HandedOver` | `IInv` of `Handoff` |
| `AgentsProofs!AllWaitedFor` | `NoneLeft` | `WaitInv` of `Runner` |

**Order in a processor.** A frame's id is its place in the arrivals, so `InOrder`
is that the ids of the ordered frames in `out` increase. Inductive is that the ids
increase along the whole way: out, the frame the process goroutine holds, the
process queue, the frame the input goroutine holds, the input queue. There may be
only one process goroutine holding a frame, which is why `OrderInv` needs
`TaskInv` and `HonorsCtx`: a `ProcessFrame` that outlives `processCancelTimeout`
leaves an old goroutine beside a new one.

**Flushes.** `NothingVanishes` follows a frame of a kind no flush may drop through
every place it can be in; `KeptInv` is that it is in one of them. That an
interruption leaves nothing interruptible behind it is stated where no frame is
uninterruptible, since with one current the goroutine is kept and not canceled.

**The worker.** `CancelInv` says that a run that has sent its CancelFrame never goes
back to pushing frames, so it sends no second; `FinishInv` that the end has been
reported exactly when `finishOnce` is set, which it is by the time a frame has
ended the run; `FlushInv` that the frame that ends the run is the last one
travelling, until a CancelFrame is sent.

**The switcher.** `MutexInv` says who is inside the strategy's lock. `NeverStranded`
is that an active service that is done for has an error on its way, a thread that
has it in hand, or a report; `ReadingInv` that, while no two handlers overlapped,
one reading of the services at most is under way and it, or what was last
announced, is the truth. `MutexInv` is what makes the second look of
`setActiveIfAvailable` count: a candidate that fails after it has its error still
waiting, since taking that error needs the lock.

**Jobs.** `SaysInv` says that a handler about to send has something to say, and
`OwnerInv` that a group taken off the list of running ones has a single owner,
who completes it only with every answer in. From those, every step of `Jobs` is a step of
`JobGroups` on one group or a stutter (`GroupsInit`, `GroupsNext`). With answers
in one band only one delivery goroutine takes them, and its verdicts come one
after the other. For turns, `OnceInv` says that a worker is asked each job once,
`KnownInv` that only a request that has come can be called off, and `TurnInv` that
for some assignment of predecessors the chain of release channels follows the
order in which the requests came.

**The runner and the hand-over.** `Awaited`: a worker that the run began with and
that still runs is one that `Run` has not finished waiting for, provided none is
added late. The hand-over has two arguments. Whoever hands over and when,
`ClaimInv` says that some worker is in a hand-over, or has an activation as the
last message on its way, or has no message on its way and is active or will be;
with `FiledInv` (a filed activation will be looked at) that makes a holder once
all is at rest. As long as hand-overs are orderly, `OnePlace` and `SomePlace` say
that the conversation is at one worker or in one activation filed, sent or about
to be sent, and `WayInv` that a worker's deactivation is delivered before the
conversation comes back to it: one holder, and one `OnActivated` for each
hand-over.

**The lifecycle in a parallel pipeline.** `LifecycleSynced` says that a StartFrame,
EndFrame or CancelFrame that was fanned out leaves only when every branch has
delivered it, whatever the branches raise and when. Until a branch raises an
EndFrame of its own it also says that only what a goroutine of a branch pushes
leaves ahead of the StartFrame, and that no data frame leaves after the EndFrame.
It is proved under `Ordinary`, which is about arrivals alone: one StartFrame and at
most one EndFrame are queued on the parallel pipeline, as a worker queues them.
`LifeInv` is what makes it inductive; in the order in which the parts rest on each
other (the last two, `StartInv` and `FlushInv`, until a branch raises an EndFrame):

* `ShapeInv`: where a goroutine or a sink call is tells what it holds, and each
  lane carries the kinds its goroutine of the branch may deliver;
* `IdInv`: an id stands for one frame, and a frame is queued once;
* `CountInv`: for each lifecycle frame, the sink calls still to come (in the lanes
  or before their lock, or not fanned out yet) number at most its counter, so the
  counter reaches zero only with the last of them. `Fits(s, n)`, an injection of
  `s` into `1..n`, says so without cardinalities;
* `SystemInv`: a system frame is in one place at a time: the queue, the input
  goroutine's hand or the lanes it has been fanned into;
* `EndInv`: the EndFrame is the last ordered frame, and a lane it has passed has no
  data left;
* `CancelInv`: a CancelFrame that has passed a branch leaves no EndFrame in it;
* `StartInv`: until the StartFrame is out and the gates are open again the process
  goroutine has nothing and no other lifecycle frame is past the input queue; what
  branches push is buffered from the moment the StartFrame is armed, and before
  that only their own goroutines push, since a branch that was not given the
  StartFrame drains no queue (`EarlyBranch`);
* `FlushInv`: once the EndFrame is released, what data is left is what its own
  caller flushes, and once that has flushed there is none.

`ParallelInv` holds the definitions; `ParallelProofs` the types, `EscapesOnce`, what
each step does, and `EndInv`; `ParallelFrames` `ShapeInv` to `SystemInv`;
`ParallelLifecycle` the rest and the theorem.

## 7. What is not proved, and what is not modelled

Only model-checked:

* every liveness property. The prover has no rules for `ENABLED`, so none for
  fairness. `FailsOver` and `Drains` are the ones a proof would say most about;
* the invariants of `Tools`, `Turns`, `StreamService`, `Gate`, `Speech` and
  `Output`. Their handlers are operators from a whole record of state to the next,
  composed several deep (a strategy calls its controller, which resets its
  strategies), or they fold over sequences whose content is the point (the text of
  a message, the units of audio played). What a fold or a recursive definition
  computes for every input needs induction over data, which the installed
  provers cannot do;
* the seven violations, which are single behaviours.

Theorems are about one component. The variables that `MCPipeline`, `MCSession`,
`MCServices` and `MCAgents` add to compose several do not occur in them.

Not modelled: the rest of the repository, and by lines that is most of it. The
modules stand for about 8% of the Go code, the engine that decides who runs when
and in which order things leave. The rest is

* providers, adapters and transport drivers: bindings to vendor APIs and device
  libraries, I/O and conversion of data;
* signal processing (floating point) and text utilities (strings), out of TLC's
  reach;
* application layers over the engine: flows, RTVI, DTMF, voicemail, recording,
  evaluation, telemetry;
* parts of the engine: the setup tracker (every module begins with its processors
  set up), the synchronized parallel pipeline, heartbeat and idle monitors,
  observers, producers and consumers, bridges between buses, the input
  transport, and what the notes of `components` list as left out of a component
  that is otherwise modelled.
