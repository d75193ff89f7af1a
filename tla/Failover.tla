------------------------------ MODULE Failover ------------------------------
(***************************************************************************)
(* Which service of a service switcher is active (pipeline/switcher.go):   *)
(* services fail, on the goroutines of their own branches; the failover    *)
(* strategy moves on to the next usable service; a caller switches by      *)
(* hand; and the switcher announces whether any service is left.           *)
(***************************************************************************)
EXTENDS Naturals, FiniteSets

CONSTANTS
    N,         \* services are 1..N, in the order they were given
    User,      \* the caller of SwitchTo
    Nobody,    \* nobody holds the strategy's mutex
    Errors,    \* errors the services report
    Switches,  \* calls of SwitchTo
    Recoveries \* calls of SetUsable(true)

ASSUME ServicesAssumption == N \in Nat \ {0} /\ User \notin 1..N /\ Nobody \notin 1..N \cup {User}
ASSUME BoundsAssumption == Errors \in Nat /\ Switches \in Nat /\ Recoveries \in Nat

VARIABLES
    active,    \* the active service
    mu,        \* who holds the strategy's mutex
    usable,    \* service -> its usability
    errors,    \* service -> its errors on their way to the switcher
    thread,    \* branch or User -> what it does and the candidate it looks at
    reported,  \* services whose failure the switcher has reported
    news,      \* service -> changes of its usability not yet seen
    reading,   \* service -> the reading its handler has taken
    announced, \* announcedUsable
    overlap,   \* two handlers have held a reading at the same time
    left       \* what the callers and the services may still do

vars == <<active, mu, usable, errors, thread, reported, news,
          reading, announced, overlap, left>>
announcing == <<news, reading, announced, overlap>>

Services == 1..N
Threads == Services \cup {User}
Idle == [pc |-> "idle", cand |-> 1, offset |-> 0]
AnyUsable == \E s \in Services : usable[s]

Init ==
    /\ active = 1 /\ mu = Nobody
    /\ usable = [s \in Services |-> TRUE]
    /\ errors = [s \in Services |-> 0]
    /\ thread = [t \in Threads |-> Idle]
    /\ reported = {}
    /\ news = [s \in Services |-> 0]
    /\ reading = [s \in Services |-> "none"]
    /\ announced = TRUE /\ overlap = FALSE
    /\ left = [errors |-> Errors, switches |-> Switches, recoveries |-> Recoveries]

Goes(t, pc) == thread' = [thread EXCEPT ![t].pc = pc]

\* SetUsable: a change raises EventUsableChanged, for the switcher's handler.
SetUsable(s, u) ==
    /\ usable' = [usable EXCEPT ![s] = u]
    /\ news' = IF usable[s] = u THEN news ELSE [news EXCEPT ![s] = @ + 1]
    /\ UNCHANGED <<reading, announced, overlap>>

-----------------------------------------------------------------------------
(* The services and the callers.                                           *)

\* PushErrorFrame: a permanent error costs the service its usability before
\* the error sets out for the switcher.
ServiceError(s, permanent) ==
    /\ left.errors > 0
    /\ left' = [left EXCEPT !.errors = @ - 1]
    /\ errors' = [errors EXCEPT ![s] = @ + 1]
    /\ SetUsable(s, usable[s] /\ ~permanent)
    /\ reported' = reported
    /\ UNCHANGED <<active, mu, thread>>

Recover(s) ==
    /\ left.recoveries > 0 /\ ~usable[s]
    /\ left' = [left EXCEPT !.recoveries = @ - 1]
    /\ SetUsable(s, TRUE)
    /\ reported' = reported \ {s}
    /\ UNCHANGED <<active, mu, errors, thread>>

SwitchTo(s) ==
    /\ left.switches > 0 /\ thread[User].pc = "idle"
    /\ left' = [left EXCEPT !.switches = @ - 1]
    /\ thread' = [thread EXCEPT ![User] = [pc |-> "check", cand |-> s, offset |-> 0]]
    /\ UNCHANGED <<active, mu, usable, errors, reported, announcing>>

-----------------------------------------------------------------------------
(* handleServiceError, on the goroutine of the branch.                     *)

\* An error of a service that is not active is consumed.
HandleServiceError(s) ==
    /\ thread[s].pc = "idle" /\ errors[s] > 0 /\ mu = Nobody
    /\ errors' = [errors EXCEPT ![s] = @ - 1]
    /\ IF s = active THEN Goes(s, "judge") ELSE thread' = thread
    /\ UNCHANGED <<active, mu, usable, reported, announcing, left>>

\* The failover strategy's HandleError: a service that can go on is kept.
HandleError(s) ==
    /\ thread[s].pc = "judge"
    /\ IF usable[s]
       THEN Goes(s, "verdict")
       ELSE /\ mu = Nobody
            /\ thread' = [thread EXCEPT ![s] = [pc |-> "pick", cand |-> active, offset |-> 1]]
    /\ UNCHANGED <<active, mu, usable, errors, reported, announcing, left>>

\* It looks at the services after the active one, in turn.
Candidate(s) == ((thread[s].cand - 1 + thread[s].offset) % N) + 1
Try(s) == thread' = [thread EXCEPT ![s].pc = "check", ![s].cand = Candidate(s)]

\* Mutant: it starts over when it has been round.
PickAround(s) ==
    /\ thread[s].pc = "pick"
    /\ \/ usable[Candidate(s)] /\ Try(s)
       \/ /\ ~usable[Candidate(s)]
          /\ thread' = [thread EXCEPT ![s].offset = (@ % N) + 1]
    /\ UNCHANGED <<active, mu, usable, errors, reported, announcing, left>>

Pick(s) ==
    /\ thread[s].pc = "pick"
    /\ \/ thread[s].offset >= N /\ Goes(s, "verdict")
       \/ thread[s].offset < N /\ usable[Candidate(s)] /\ Try(s)
       \/ /\ thread[s].offset < N /\ ~usable[Candidate(s)]
          /\ thread' = [thread EXCEPT ![s].offset = @ + 1]
    /\ UNCHANGED <<active, mu, usable, errors, reported, announcing, left>>

\* Mutant: the candidate is not looked at again.
CheckNothing(t) ==
    /\ thread[t].pc = "check" /\ mu = Nobody
    /\ mu' = t /\ Goes(t, "set")
    /\ UNCHANGED <<active, usable, errors, reported, announcing, left>>

\* setActiveIfAvailable, under the mutex: the service is looked at once more ...
CheckAvailable(t) ==
    /\ thread[t].pc = "check" /\ mu = Nobody
    /\ IF usable[thread[t].cand]
       THEN mu' = t /\ Goes(t, "set")
       ELSE mu' = mu /\ Goes(t, IF t = User THEN "idle" ELSE "verdict")
    /\ UNCHANGED <<active, usable, errors, reported, announcing, left>>

\* ... and made the active one.
SetActive(t) ==
    /\ thread[t].pc = "set" /\ mu = t
    /\ active' = thread[t].cand
    /\ mu' = Nobody
    /\ thread' = [thread EXCEPT ![t] = Idle]
    /\ UNCHANGED <<usable, errors, reported, announcing, left>>

\* Nothing to switch to: a service that is done for is reported, any other
\* error goes on upstream.
Verdict(s) ==
    /\ thread[s].pc = "verdict"
    /\ reported' = IF usable[s] THEN reported ELSE reported \cup {s}
    /\ thread' = [thread EXCEPT ![s] = Idle]
    /\ UNCHANGED <<active, mu, usable, errors, announcing, left>>

-----------------------------------------------------------------------------
(* announceUsable, on the goroutine of the events of a service: the services *)
(* are read, and then the reading is compared with the last one announced. *)

ReadUsable(s) ==
    /\ news[s] > 0 /\ reading[s] = "none"
    /\ news' = [news EXCEPT ![s] = @ - 1]
    /\ reading' = [reading EXCEPT ![s] = IF AnyUsable THEN "usable" ELSE "unusable"]
    /\ overlap' = (overlap \/ \E o \in Services : reading[o] # "none")
    /\ UNCHANGED <<active, mu, usable, errors, thread, reported, announced, left>>

AnnounceUsable(s) ==
    /\ reading[s] # "none"
    /\ announced' = (reading[s] = "usable")
    /\ reading' = [reading EXCEPT ![s] = "none"]
    /\ UNCHANGED <<active, mu, usable, errors, thread, reported, news, overlap, left>>

-----------------------------------------------------------------------------
Branch(s) ==
    HandleServiceError(s) \/ HandleError(s) \/ Pick(s) \/ Verdict(s)
Strategy(t) == CheckAvailable(t) \/ SetActive(t)

Next ==
    \/ \E s \in Services : \/ Branch(s) \/ ReadUsable(s) \/ AnnounceUsable(s)
                           \/ Recover(s) \/ SwitchTo(s)
                           \/ \E permanent \in BOOLEAN : ServiceError(s, permanent)
    \/ \E t \in Threads : Strategy(t)

Spec == Init /\ [][Next]_vars

\* The goroutines of the branches and the caller go on; what they are asked to
\* do need not come.
FairSpec == Spec /\ \A t \in Threads :
    WF_vars((t \in Services /\ Branch(t)) \/ Strategy(t))

-----------------------------------------------------------------------------
Places == {"idle", "judge", "pick", "check", "set", "verdict"}

TypeOK ==
    /\ active \in Services /\ mu \in Threads \cup {Nobody}
    /\ usable \in [Services -> BOOLEAN] /\ errors \in [Services -> Nat]
    /\ thread \in [Threads -> [pc : Places, cand : Services, offset : Nat]]
    /\ reported \subseteq Services
    /\ news \in [Services -> Nat]
    /\ reading \in [Services -> {"none", "usable", "unusable"}]
    /\ announced \in BOOLEAN /\ overlap \in BOOLEAN
    /\ left \in [errors : Nat, switches : Nat, recoveries : Nat]

(* The active service is never one that cannot work and that nobody is      *)
(* looking after: its error is on its way to handleServiceError, is being   *)
(* handled, or has been reported against the switcher, whatever errors,     *)
(* switches and recoveries overlap.  The second look at the candidate that  *)
(* setActiveIfAvailable takes under the mutex is what makes it so.          *)
NeverStranded ==
    mu = Nobody /\ ~usable[active] =>
        \/ errors[active] > 0 \/ thread[active].pc # "idle" \/ active \in reported

(* An active service that cannot work is followed by one that can, or is    *)
(* reported (the failover strategy's HandleError and reportServiceFailure), *)
(* though the next candidate may fail as well while it is looked at.        *)
FailsOver == ~usable[active] ~> (usable[active] \/ active \in reported)

Settled == /\ \A t \in Threads : thread[t].pc = "idle"
           /\ \A s \in Services : errors[s] = 0 /\ news[s] = 0 /\ reading[s] = "none"

(* announceUsable: once the changes are handled, what the switcher last     *)
(* announced is what its services add up to, provided no two handlers were  *)
(* between reading the services and announcing it at the same time.         *)
AnnouncedTrue == Settled /\ ~overlap => announced = AnyUsable

(* What a failure of the active service, in switcher.go, comes to: it is    *)
(* looked after (NeverStranded), and the switcher says what is true of its  *)
(* usability (AnnouncedTrue).                                               *)
ActiveUsable == NeverStranded /\ AnnouncedTrue
=============================================================================
