-------------------------------- MODULE Gate --------------------------------
(***************************************************************************)
(* What a service switcher lets through (pipeline/switcher.go): its input  *)
(* is fanned out to the branch of every service, a filter at the head of   *)
(* each branch lets a frame in only while its service is active, settings  *)
(* updates are also copied to the services that are not active, and the    *)
(* copies are taken out again at the exit.                                 *)
(***************************************************************************)
EXTENDS Naturals, Sequences, FiniteSets

CONSTANTS
    N,       \* services are 1..N, and 1 is active at first
    Frames,  \* frames the switcher is given
    Ring     \* inactiveUpdateRing, the copies it remembers

VARIABLES
    active,   \* the active service
    input,    \* frames the switcher has taken so far, in order
    branch,   \* service -> frames waiting at the filter of its branch
    queue,    \* service -> frames in the service's own queue
    got,      \* service -> frames the service has handled
    copying,  \* the frame whose copies are still to be handed out, or <<>>
    updates,  \* inactiveUpdates: copies to be consumed
    full,     \* more copies have been under way than the ring holds
    seen,     \* frames that have come out of a branch
    out       \* frames that left the switcher

vars == <<active, input, branch, queue, got, copying, updates, full, seen, out>>

Services == 1..N

\* A frame: data, a settings update for the services (marked when it is to
\* reach the inactive ones too), or a request to switch.  A copy of an update
\* carries the service it was made for, as its own identity.
Original(i, k, t) == [id |-> i, kind |-> k, to |-> t, copy |-> FALSE]
CopyFor(f, s) == [f EXCEPT !.to = s, !.copy = TRUE]
Kinds == {"data", "update", "marked", "addressed", "switch"}

Init ==
    /\ active = 1 /\ input = <<>>
    /\ branch = [s \in Services |-> <<>>]
    /\ queue = [s \in Services |-> <<>>]
    /\ got = [s \in Services |-> {}]
    /\ copying = <<>> /\ updates = <<>> /\ full = FALSE /\ seen = {} /\ out = {}

\* setActiveIfAvailable, asked by a ManuallySwitchServiceFrame, which goes no
\* further, or by a caller of SwitchTo at any moment.
Switch(s) ==
    /\ Len(input) < Frames
    /\ input' = Append(input, Original(Len(input) + 1, "switch", s))
    /\ active' = s
    /\ UNCHANGED <<branch, queue, got, copying, updates, full, seen, out>>

\* ProcessFrame fans the frame out to the branches.
ProcessFrame(k, t) ==
    LET f == Original(Len(input) + 1, k, t)
    IN
    /\ copying = <<>> /\ Len(input) < Frames
    /\ input' = Append(input, f)
    /\ branch' = [s \in Services |-> Append(branch[s], f)]
    /\ copying' = IF k = "data" THEN <<>> ELSE <<f>>
    /\ UNCHANGED <<active, queue, got, updates, full, seen, out>>

\* Mutant: an update crosses to every service, opted in or not.
TargetsAll(f) == IF f.kind = "addressed" THEN {f.to} \ {active} ELSE Services \ {active}

\* inactiveUpdateTargets: the services an update is copied to.
InactiveUpdateTargets(f) ==
    CASE f.kind = "addressed" -> {f.to} \ {active}
      [] f.kind = "marked"    -> Services \ {active}
      [] OTHER                -> {}

Remember(u, f) == Append(IF Len(u) = Ring THEN Tail(u) ELSE u, f)

\* updateInactiveServices: the copies go past the filters into the queues of
\* the services that are not active by now.
UpdateInactiveServices ==
    /\ copying # <<>>
    /\ LET f == Head(copying)
           targets == InactiveUpdateTargets(f)
           Remembered[s \in 0..N] ==
               IF s = 0 THEN updates
               ELSE IF s \in targets
                    THEN Remember(Remembered[s - 1], CopyFor(f, s))
                    ELSE Remembered[s - 1]
       IN
       /\ queue' = [s \in Services |->
                      IF s \in targets
                      THEN Append(queue[s], CopyFor(f, s)) ELSE queue[s]]
       /\ updates' = Remembered[N]
       /\ full' = (full \/ Len(updates) + Cardinality(targets) > Ring)
    /\ copying' = <<>>
    /\ UNCHANGED <<active, input, branch, got, seen, out>>

\* The filter at the head of a branch asks which service is active now.
Filter(s) ==
    /\ branch[s] # <<>>
    /\ branch' = [branch EXCEPT ![s] = Tail(@)]
    /\ queue' = IF active = s THEN [queue EXCEPT ![s] = Append(@, Head(branch[s]))] ELSE queue
    /\ UNCHANGED <<active, input, got, copying, updates, full, seen, out>>

Without(u, f) == SelectSeq(u, LAMBDA g : g # f)
Holds(u, f) == \E i \in 1..Len(u) : u[i] = f

\* The service handles a frame and passes it on; emit drops a frame that has
\* come out of another branch, and PushFrame consumes a copy.
Handle(s) ==
    LET f == Head(queue[s])
        fresh == f \notin seen
    IN
    /\ queue[s] # <<>>
    /\ queue' = [queue EXCEPT ![s] = Tail(@)]
    /\ got' = [got EXCEPT ![s] = @ \cup {f}]
    /\ seen' = seen \cup {f}
    /\ updates' = IF fresh THEN Without(updates, f) ELSE updates
    /\ out' = IF fresh /\ ~Holds(updates, f) THEN out \cup {f} ELSE out
    /\ UNCHANGED <<active, input, branch, copying, full>>

Next ==
    \/ \E s \in Services : Switch(s) \/ Filter(s) \/ Handle(s)
    \/ \E s \in Services : ProcessFrame("addressed", s)
    \/ UpdateInactiveServices
    \/ \E k \in {"data", "update", "marked"} : ProcessFrame(k, 1)

Spec == Init /\ [][Next]_vars

-----------------------------------------------------------------------------
Drained == copying = <<>> /\ \A s \in Services : branch[s] = <<>> /\ queue[s] = <<>>
Given == {input[i] : i \in 1..Len(input)}
SwitchAfter(f) == \E g \in Given : g.kind = "switch" /\ g.id > f.id
Reached(f, s) == Cardinality({g \in got[s] : g.id = f.id})
ActiveAt(f) ==
    LET before == {g \in Given : g.kind = "switch" /\ g.id < f.id}
    IN  IF before = {} THEN 1
        ELSE (CHOOSE g \in before : \A h \in before : h.id <= g.id).to

(* A frame no switch overtakes is handled once by each service meant to     *)
(* have it and by no other, whatever switches came before it: the active    *)
(* one, the one an update is addressed to, all of them for an update that   *)
(* opts in (gate and inactiveUpdateTargets together).                       *)
RoutedOnce ==
    Drained => \A f \in Given : f.kind # "switch" /\ ~SwitchAfter(f) =>
        \A s \in Services : Reached(f, s) =
            IF \/ s = ActiveAt(f) \/ f.kind = "marked"
               \/ f.kind = "addressed" /\ s = f.to
            THEN 1 ELSE 0

(* However the services take turns, no copy made for an inactive service    *)
(* leaves the switcher, unless more of them were under way than it can      *)
(* remember, and a frame that a service handled leaves it unless it is a    *)
(* copy (PushFrame and consumeInactiveUpdate).                              *)
CopiesStay ==
    /\ \A f \in out : f.copy => full
    /\ \A s \in Services : \A f \in got[s] : ~f.copy => f \in out
=============================================================================
