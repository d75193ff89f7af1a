--------------------------- MODULE StreamService ---------------------------
(***************************************************************************)
(* A streaming speech-to-text service (service/stt/stream.go) and the read *)
(* loop and reconnection it is built on (service/wsservice).  The input    *)
(* goroutine handles audio and what is said of the user's speech, the      *)
(* process goroutine a change of settings and the end, a read loop owns    *)
(* the session, and another goroutine keeps an idle session alive.         *)
(***************************************************************************)
EXTENDS Integers, Sequences, FiniteSets, SequencesExt

CONSTANTS
    Scenarios,      \* what may happen in a behaviour, and how often
    MaxRetries,     \* redials before a connection is reported lost
    MaxFailures     \* sessions that die at once, in a row, before giving up

VARIABLES
    sc,         \* the scenario
    s,          \* the fields of the service and of its wsservice.Base
    session,    \* the sessions opened, in order
    conn,       \* per connect, its context and its read loop
    task,       \* what the goroutines that call the service are doing
    life,       \* the contexts of the processor
    left        \* what may still happen

vars == <<sc, s, session, conn, task, life, left>>

Goroutines == {"setup", "input", "process", "cleanup"}
Idle == [todo |-> <<>>, c |-> 0, ok |-> TRUE, at |-> 0, chunks |-> <<>>]

(* The steps of disconnect, of connect and of reopen.                      *)
Disconnect == <<"mark", "take", "wait", "close">>
Connect == <<"connect", "dial", "enter">>
Reopen == <<"begin">> \o Disconnect \o Connect \o <<"release", "send">>

Init ==
    /\ sc \in Scenarios
    /\ s = [stream |-> 0, refused |-> FALSE, readCancel |-> 0, usable |-> TRUE,
            canReopen |-> TRUE, needReopen |-> FALSE, reopening |-> FALSE, held |-> <<>>,
            disconnecting |-> FALSE, reconnecting |-> FALSE, streak |-> 0,
            requested |-> FALSE, pending |-> FALSE, asked |-> 0, marked |-> 0,
            keeper |-> 0, silence |-> 0, lost |-> {}]
    /\ session = <<>> /\ conn = <<>>
    /\ task = [g \in Goroutines |-> IF g = "setup" THEN [Idle EXCEPT !.todo = Connect] ELSE Idle]
    /\ life = [proc |-> 1, base |-> TRUE, over |-> "no"]
    /\ left = sc.budget

(* A context ends with its own cancel and with the context it was made of: *)
(* Setup detaches it, the frame goroutines pass their own.                 *)
Ended(c) ==
    \/ conn[c].cut
    \/ conn[c].by # "setup" /\ ~life.base
    \/ conn[c].by = "process" /\ conn[c].proc # life.proc

Alive(n) == session[n].state = "open" /\ ~Ended(session[n].c)

Reading(c) == conn[c].at # "off"
Done(g) == [task EXCEPT ![g].todo = Tail(@)]
Doing(g, step) == task[g].todo # <<>> /\ Head(task[g].todo) = step
Spend(what) == left[what] > 0 /\ left' = [left EXCEPT ![what] = @ - 1]

-----------------------------------------------------------------------------
(* Opening and closing a session.                                          *)

(* ConnectWebsocket once the provider answered: the session is installed,  *)
(* and a keepalive of its own replaces the one before.                     *)
Installs(c) ==
    /\ s.silence = 0
    /\ session' = Append(session, [c |-> c, state |-> "open", got |-> <<>>, asked |-> 0])
    /\ s' = [s EXCEPT !.stream = Len(session) + 1, !.refused = FALSE, !.keeper = c]

(* DisconnectWebsocket: the keepalive is waited for, then the session is   *)
(* taken and closed.                                                       *)
Close ==
    /\ s.silence = 0
    /\ s' = [s EXCEPT !.keeper = 0, !.stream = 0]
    /\ session' = [n \in DOMAIN session |->
                     IF n = s.stream THEN [session[n] EXCEPT !.state = "closed"] ELSE session[n]]

DialFails == left.refusals > 0 /\ left' = [left EXCEPT !.refusals = @ - 1]

(* disconnect: marked as deliberate, the read loop is canceled and waited  *)
(* for, and the session closed; nothing more without a read loop.          *)
Mark(g) ==
    /\ Doing(g, "mark")
    /\ s' = [s EXCEPT !.disconnecting = TRUE]
    /\ task' = Done(g)
    /\ UNCHANGED <<sc, session, conn, life, left>>

(* A read loop that is waited for but not told to end.                     *)
TakeUncut(g) ==
    /\ Doing(g, "take")
    /\ s' = [s EXCEPT !.readCancel = 0]
    /\ task' = IF s.readCancel = 0 THEN [task EXCEPT ![g].todo = SubSeq(@, 4, Len(@))] ELSE Done(g)
    /\ UNCHANGED <<sc, session, conn, life, left>>

Take(g) ==
    /\ Doing(g, "take")
    /\ \/ /\ s.readCancel = 0
          /\ task' = [task EXCEPT ![g].todo = SubSeq(@, 4, Len(@))]
          /\ UNCHANGED <<s, conn>>
       \/ /\ s.readCancel # 0
          /\ conn' = [conn EXCEPT ![s.readCancel].cut = TRUE]
          /\ s' = [s EXCEPT !.readCancel = 0]
          /\ task' = Done(g)
    /\ UNCHANGED <<sc, session, life, left>>

Wait(g) ==
    /\ Doing(g, "wait")
    /\ \A c \in DOMAIN conn : ~Reading(c)
    /\ task' = Done(g)
    /\ UNCHANGED <<sc, s, session, conn, life, left>>

Closes(g) ==
    /\ Doing(g, "close")
    /\ Close
    /\ task' = Done(g)
    /\ UNCHANGED <<sc, conn, life, left>>

(* connect: a fresh start for the base, the dial under a new context, and  *)
(* the read loop.  A dial that fails leaves a service being set up without *)
(* its use.                                                                *)
Connects(g) ==
    /\ Doing(g, "connect")
    /\ s' = [s EXCEPT !.disconnecting = FALSE, !.streak = 0]
    /\ conn' = Append(conn, [by |-> g, proc |-> life.proc, cut |-> FALSE, at |-> "off",
                             ses |-> 0, tries |-> 0])
    /\ task' = [Done(g) EXCEPT ![g].c = Len(conn) + 1, ![g].ok = TRUE]
    /\ UNCHANGED <<sc, session, life, left>>

Dial(g) ==
    /\ Doing(g, "dial")
    /\ \/ /\ ~Ended(task[g].c)
          /\ Installs(task[g].c)
          /\ task' = Done(g)
          /\ UNCHANGED left
       \/ /\ IF Ended(task[g].c) THEN UNCHANGED left ELSE DialFails
          /\ task' = [task EXCEPT ![g].todo = SubSeq(@, 3, Len(@)), ![g].ok = FALSE]
          /\ s' = [s EXCEPT !.usable = @ /\ g # "setup"]
          /\ UNCHANGED session
    /\ UNCHANGED <<sc, conn, life>>

Enter(g) ==
    /\ Doing(g, "enter")
    /\ s' = [s EXCEPT !.readCancel = task[g].c]
    /\ conn' = [conn EXCEPT ![task[g].c].at = "top"]
    /\ task' = Done(g)
    /\ UNCHANGED <<sc, session, life, left>>

-----------------------------------------------------------------------------
(* reopen: the session is replaced, and what was said meanwhile is held.   *)

Begin(g) ==
    /\ Doing(g, "begin")
    /\ s' = [s EXCEPT !.held = <<>>, !.reopening = TRUE, !.needReopen = FALSE,
                      !.lost = @ \cup ToSet(s.held)]
    /\ task' = Done(g)
    /\ UNCHANGED <<sc, session, conn, life, left>>

(* A reopen that forgets the audio it held.                                *)
ReleaseEmpty(g) ==
    /\ Doing(g, "release")
    /\ s' = [s EXCEPT !.reopening = FALSE, !.held = <<>>]
    /\ task' = [task EXCEPT ![g].todo = SubSeq(@, 3, Len(@))]
    /\ UNCHANGED <<sc, session, conn, life, left>>

Release(g) ==
    /\ Doing(g, "release")
    /\ \E permanent \in IF task[g].ok THEN {FALSE} ELSE BOOLEAN :
         s' = [s EXCEPT !.reopening = FALSE, !.held = <<>>, !.usable = @ /\ ~permanent,
                        !.lost = IF task[g].ok THEN @ ELSE @ \cup ToSet(s.held)]
    /\ task' = IF task[g].ok
                 THEN [Done(g) EXCEPT ![g].chunks = s.held]
                 ELSE [task EXCEPT ![g].todo = SubSeq(@, 3, Len(@))]
    /\ UNCHANGED <<sc, session, conn, life, left>>

(* send, for each chunk in hand: held while the session is being replaced, *)
(* dropped without one that takes it, and otherwise written, outside the   *)
(* lock, to the session seen under it.                                     *)
Send(g) ==
    /\ Doing(g, "send")
    /\ \/ /\ task[g].chunks = <<>>
          /\ task' = Done(g)
          /\ UNCHANGED s
       \/ /\ task[g].chunks # <<>>
          /\ s.reopening \/ s.stream = 0 \/ s.refused
          /\ LET a == Head(task[g].chunks)
             IN s' = IF s.reopening THEN [s EXCEPT !.held = Append(@, a)]
                     ELSE [s EXCEPT !.lost = @ \cup {a}]
          /\ task' = [task EXCEPT ![g].chunks = Tail(@)]
       \/ /\ task[g].chunks # <<>>
          /\ ~(s.reopening \/ s.stream = 0 \/ s.refused)
          /\ task' = [task EXCEPT ![g].at = s.stream, ![g].todo = <<"write">> \o @]
          /\ UNCHANGED s
    /\ UNCHANGED <<sc, session, conn, life, left>>

Write(g) ==
    /\ Doing(g, "write")
    /\ LET a == Head(task[g].chunks)
       IN \/ /\ Alive(task[g].at)
             /\ session' = [session EXCEPT ![task[g].at].got = Append(@, a)]
             /\ task' = [Done(g) EXCEPT ![g].chunks = Tail(@)]
             /\ UNCHANGED s
          \/ /\ ~Alive(task[g].at)
             /\ s' = [s EXCEPT !.lost = @ \cup {a}]
             /\ task' = [task EXCEPT ![g].chunks = Tail(@), ![g].todo = <<"refuse">> \o Tail(@)]
             /\ UNCHANGED session
    /\ UNCHANGED <<sc, conn, life, left>>

(* The write failed: no session is given audio until the next is opened.   *)
Refuse(g) ==
    /\ Doing(g, "refuse")
    /\ s' = [s EXCEPT !.refused = TRUE]
    /\ task' = Done(g)
    /\ UNCHANGED <<sc, session, conn, life, left>>

-----------------------------------------------------------------------------
(* The frames.  A goroutine takes one when it is done with the one before. *)

Free(g) ==
    /\ task[g].todo = <<>> /\ task["setup"].todo = <<>>
    /\ life.base /\ life.over # "cancel"

(* Audio, for a service that can still use it.                             *)
Audio ==
    /\ Free("input") /\ Spend("audio")
    /\ LET a == sc.budget.audio - left.audio + 1
       IN \/ /\ s.usable
             /\ task' = [task EXCEPT !["input"].todo = <<"send">>, !["input"].chunks = <<a>>]
             /\ UNCHANGED s
          \/ /\ ~s.usable
             /\ s' = [s EXCEPT !.lost = @ \cup {a}]
             /\ UNCHANGED task
    /\ UNCHANGED <<sc, session, conn, life>>

(* The user starts speaking: a reopen has to wait, and a finalize of the   *)
(* utterance before is forgotten.                                          *)
Starts ==
    /\ Free("input") /\ Spend("starts")
    /\ s' = [s EXCEPT !.canReopen = FALSE, !.requested = FALSE, !.pending = FALSE,
                      !.asked = 0, !.marked = 0]
    /\ UNCHANGED <<sc, session, conn, task, life>>

(* The user stops: the provider is asked to flush the transcript.          *)
Stops ==
    /\ Free("input") /\ Spend("stops")
    /\ IF s.stream # 0 /\ ~s.reopening
         THEN /\ s' = [s EXCEPT !.requested = TRUE, !.asked = @ + 1]
              /\ session' = [session EXCEPT ![s.stream].asked = @ + 1]
         ELSE UNCHANGED <<s, session>>
    /\ UNCHANGED <<sc, conn, task, life>>

(* The turn is over: a reopen that waited for it happens now.              *)
TurnEnds ==
    /\ Free("input") /\ Spend("turns")
    /\ s' = [s EXCEPT !.canReopen = TRUE]
    /\ task' = [task EXCEPT !["input"].todo = IF s.needReopen THEN Reopen ELSE <<>>]
    /\ UNCHANGED <<sc, session, conn, life>>

(* An interruption cancels the process goroutine unless it is handling a   *)
(* frame that may not be interrupted, and both of its frames are such.     *)
Interrupt ==
    /\ Free("input") /\ Spend("interrupts")
    /\ life' = IF task["process"].todo = <<>> THEN [life EXCEPT !.proc = @ + 1] ELSE life
    /\ UNCHANGED <<sc, s, session, conn, task>>

Cancel ==
    /\ Free("input") /\ life.over = "no" /\ Spend("cancels")
    /\ life' = [life EXCEPT !.proc = @ + 1, !.over = "cancel"]
    /\ task' = [task EXCEPT !["input"].todo = Disconnect]
    /\ UNCHANGED <<sc, s, session, conn>>

(* A change of settings, which makes the service usable again: the session *)
(* is reopened now, or when the turn is over.                              *)
Update ==
    /\ Free("process") /\ life.over = "no" /\ Spend("updates")
    /\ (s.canReopen => sc.immediate)
    /\ s' = [s EXCEPT !.usable = TRUE, !.needReopen = @ \/ ~s.canReopen]
    /\ task' = [task EXCEPT !["process"].todo = IF s.canReopen THEN Reopen ELSE <<>>]
    /\ UNCHANGED <<sc, session, conn, life>>

End ==
    /\ Free("process") /\ life.over = "no" /\ Spend("ends")
    /\ life' = [life EXCEPT !.over = "end"]
    /\ task' = [task EXCEPT !["process"].todo = Disconnect]
    /\ UNCHANGED <<sc, s, session, conn>>

(* Cleanup follows an EndFrame that came through, or a CancelFrame even if *)
(* it has not; the goroutines of the processor end last.                   *)
Cleanup ==
    /\ life.over # "no" /\ life.base
    /\ task["cleanup"].todo = <<>>
    /\ life.over = "end" => task["process"].todo = <<>>
    /\ task' = [task EXCEPT !["cleanup"].todo = Disconnect \o <<"stop">>]
    /\ UNCHANGED <<sc, s, session, conn, life, left>>

Stop ==
    /\ Doing("cleanup", "stop")
    /\ life' = [life EXCEPT !.base = FALSE]
    /\ task' = Done("cleanup")
    /\ UNCHANGED <<sc, s, session, conn, left>>

-----------------------------------------------------------------------------
(* The read loop of a connect.                                             *)

Loop(c, at) == conn[c].at = at
Goes(c, at) == conn' = [conn EXCEPT ![c].at = at]

Top(c) ==
    /\ Loop(c, "top")
    /\ conn' = [conn EXCEPT ![c].ses = s.stream,
                            ![c].at = IF s.stream = 0 THEN "lost" ELSE "receive"]
    /\ UNCHANGED <<sc, s, session, task, life, left>>

(* A transcript.  A confirmed finalize marks the next one as the last.     *)
Marks(v) == [v EXCEPT !.pending = FALSE, !.marked = IF v.pending THEN @ + 1 ELSE @]

Transcript(c) ==
    /\ Loop(c, "receive") /\ Alive(conn[c].ses) /\ Spend("results")
    /\ s' = Marks(s)
    /\ UNCHANGED <<sc, session, conn, task, life>>

(* The provider confirms that it flushed, with the last words or without.  *)
Confirmed == IF s.requested THEN [s EXCEPT !.pending = TRUE, !.requested = FALSE] ELSE s

Confirms(c, worded) ==
    /\ Loop(c, "receive") /\ Alive(conn[c].ses) /\ session[conn[c].ses].asked > 0
    /\ session' = [session EXCEPT ![conn[c].ses].asked = @ - 1]
    /\ s' = IF worded THEN Marks(Confirmed) ELSE Confirmed
    /\ UNCHANGED <<sc, conn, task, life, left>>

(* The session ends.  A peer that closed it normally is done with it.      *)
ReceiveEnds(c) ==
    /\ Loop(c, "receive") /\ ~Alive(conn[c].ses)
    /\ Goes(c, IF session[conn[c].ses].state = "bye" THEN "off" ELSE "lost")
    /\ UNCHANGED <<sc, s, session, task, life, left>>

(* A drop that ends the loop as a normal close does.                       *)
LostForGood(c, quick) ==
    /\ Loop(c, "lost") /\ quick
    /\ Goes(c, "off")
    /\ UNCHANGED <<sc, s, session, task, life, left>>

(* maybeTryReconnect and the start of TryReconnect.                        *)
Lost(c, quick) ==
    /\ Loop(c, "lost")
    /\ LET streak == IF quick THEN s.streak + 1 ELSE 0
       IN \/ /\ s.disconnecting \/ Ended(c)
             /\ Goes(c, "off")
             /\ UNCHANGED s
          \/ /\ ~(s.disconnecting \/ Ended(c)) /\ streak >= MaxFailures
             /\ Goes(c, "off")
             /\ s' = [s EXCEPT !.streak = streak, !.usable = FALSE]
          \/ /\ ~(s.disconnecting \/ Ended(c)) /\ streak < MaxFailures
             /\ s.reconnecting \/ ~s.usable
             /\ Goes(c, "off")
             /\ s' = [s EXCEPT !.streak = streak]
          \/ /\ ~(s.disconnecting \/ Ended(c)) /\ streak < MaxFailures
             /\ ~s.reconnecting /\ s.usable
             /\ conn' = [conn EXCEPT ![c].at = "redial", ![c].tries = 1]
             /\ s' = [s EXCEPT !.streak = streak, !.reconnecting = TRUE]
    /\ UNCHANGED <<sc, session, task, life, left>>

(* reconnectWebsocket: what is left of the session is closed, a new one    *)
(* opened under the context of the loop, and looked at again.              *)
Redial(c) ==
    /\ Loop(c, "redial")
    /\ Close
    /\ Goes(c, "dial")
    /\ UNCHANGED <<sc, task, life, left>>

Redials(c) ==
    /\ Loop(c, "dial") /\ ~Ended(c)
    /\ Installs(c)
    /\ Goes(c, "verify")
    /\ UNCHANGED <<sc, task, life, left>>

Verified(c) ==
    /\ Loop(c, "verify") /\ s.stream # 0
    /\ s' = [s EXCEPT !.reconnecting = FALSE]
    /\ Goes(c, "top")
    /\ UNCHANGED <<sc, session, task, life, left>>

(* An attempt failed: for good, or with the service unusable by now, for   *)
(* the last time, or to be tried again.                                    *)
AttemptFails(c, forGood) ==
    /\ \/ Loop(c, "dial") /\ (IF Ended(c) THEN ~forGood /\ UNCHANGED left ELSE DialFails)
       \/ Loop(c, "verify") /\ s.stream = 0 /\ ~forGood /\ UNCHANGED left
    /\ \/ /\ forGood \/ ~s.usable \/ conn[c].tries = MaxRetries
          /\ s' = [s EXCEPT !.usable = FALSE, !.reconnecting = FALSE]
          /\ Goes(c, "off")
       \/ /\ ~forGood /\ s.usable /\ conn[c].tries < MaxRetries
          /\ conn' = [conn EXCEPT ![c].at = "redial", ![c].tries = @ + 1]
          /\ UNCHANGED s
    /\ UNCHANGED <<sc, session, task, life>>

(* keepaliveLoop: silence goes to the session seen, and the loop gives up  *)
(* on the first that is refused.                                           *)
Tick ==
    /\ s.keeper # 0 /\ ~Ended(s.keeper) /\ s.stream # 0 /\ s.silence = 0
    /\ Spend("ticks")
    /\ s' = [s EXCEPT !.silence = s.stream]
    /\ UNCHANGED <<sc, session, conn, task, life>>

Silence ==
    /\ s.silence # 0
    /\ s' = [s EXCEPT !.silence = 0, !.keeper = IF Alive(s.silence) THEN @ ELSE 0]
    /\ UNCHANGED <<sc, session, conn, task, life, left>>

(* The provider: a session drops, or is closed by a peer that is done.     *)
Drops(state) ==
    /\ s.stream # 0 /\ Alive(s.stream)
    /\ Spend(state)
    /\ session' = [session EXCEPT ![s.stream].state = state]
    /\ UNCHANGED <<sc, s, conn, task, life>>

-----------------------------------------------------------------------------
Frame ==
    \/ Audio \/ Starts \/ Stops \/ TurnEnds \/ Interrupt \/ Cancel
    \/ Update \/ End

Step(g) ==
    \/ Mark(g) \/ Take(g) \/ Wait(g) \/ Closes(g)
    \/ Connects(g) \/ Dial(g) \/ Enter(g)
    \/ Begin(g) \/ Release(g) \/ Send(g) \/ Write(g) \/ Refuse(g)

Read(c) ==
    \/ Top(c) \/ ReceiveEnds(c) \/ \E q \in BOOLEAN : Lost(c, q) \/ AttemptFails(c, q)
    \/ Redial(c) \/ Redials(c) \/ Verified(c)

Results(c) == Transcript(c) \/ \E w \in BOOLEAN : Confirms(c, w)

Progress ==
    \/ \E g \in Goroutines : Step(g)
    \/ \E c \in DOMAIN conn : Read(c)
    \/ Silence \/ Cleanup \/ Stop

Next ==
    \/ Frame \/ Progress \/ Tick
    \/ \E c \in DOMAIN conn : Results(c)
    \/ \E state \in {"dropped", "bye"} : Drops(state)

Spec == Init /\ [][Next]_vars /\ WF_vars(Progress)

-----------------------------------------------------------------------------
(* The session is held open for the length of the call: while the call     *)
(* carries on, no change of session is under way, and the service neither  *)
(* gave up, nor failed to reopen, nor was told the peer is done, somebody  *)
(* reads what is heard.                                                    *)
StillListening ==
    /\ life.over = "no" /\ s.usable
    /\ \A g \in Goroutines : task[g].todo = <<>> /\ task[g].ok
    /\ s.stream # 0 => session[s.stream].state # "bye"
    => \E c \in DOMAIN conn : Reading(c) /\ ~Ended(c)

(* maybeTryReconnect restores what dropped: without a settings change that *)
(* the end or an interruption overlaps, a drop leaves nobody deaf.         *)
ListensOn == ~sc.overlaps => StillListening

(* disconnect waits for the read loops, and every loop it waits for has    *)
(* been told to end, again without overlapping changes.                    *)
WaitsForEnding ==
    ~sc.overlaps =>
    \A g \in Goroutines : Doing(g, "wait") => \A c \in DOMAIN conn : Reading(c) => Ended(c)

(* What is said while reopen replaces the session reaches the provider: a  *)
(* chunk sendAudio took is with a session, or in a hand that will send it, *)
(* or was lost to a session that refused it or to none.                    *)
HeldReaches ==
    \A a \in 1..(sc.budget.audio - left.audio) :
        \/ a \in s.lost \/ a \in ToSet(s.held)
        \/ \E g \in Goroutines : a \in ToSet(task[g].chunks)
        \/ \E n \in DOMAIN session : a \in ToSet(session[n].got)

(* When Cleanup is over and nothing is left to run, no session is open,    *)
(* the one a reopen was dialing meanwhile included: each was closed, or    *)
(* its context ended with the goroutine that opened it.                    *)
NothingLeft ==
    /\ ~life.base
    /\ \A g \in Goroutines : task[g].todo = <<>>
    => \A n \in DOMAIN session : ~Alive(n)

(* ConnectWebsocket: every session gets its own keepalive, the first and   *)
(* each replacement alike.                                                 *)
KeptAlive == s.stream # 0 /\ Alive(s.stream) => s.keeper # 0

(* A transcript is marked as the last of its utterance at most as often as *)
(* finalize asked the provider for it since the user began to speak.       *)
MarkedAsAsked == s.marked <= s.asked
==============================================================================
