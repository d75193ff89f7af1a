---------------------------- MODULE AgentsProofs ----------------------------
(***************************************************************************)
(* Workers that hand the conversation over keep it in one place, for any   *)
(* number of workers and of hand-overs.  And Run waits for every worker it *)
(* has started: none of the workers it was given is left running when it   *)
(* returns, for any set of workers, any tree of them, and whoever stops it.*)
(***************************************************************************)
EXTENDS Handoff, Runner, SequenceTheorems, TLAPS

Kinds == {"activate", "deactivate"}
Carries(s, k) == \E i \in 1..Len(s) : s[i] = k

\* The places the conversation can be in: with a worker that is active and has
\* nothing filed, filed with a worker, on its way to one, or in a hand-over.
Holds(w) == active[w] /\ ~pending[w]
Filed(w) == pending[w]
Sent(w) == Carries(inbox[w], "activate")
Hands(w) == target[w][1] # "none"

\* It is in one place ...
OnePlace ==
    \A w, v \in Workers :
        /\ Holds(w) => ~Filed(v) /\ ~Sent(v) /\ ~Hands(v) /\ (Holds(v) => w = v)
        /\ Filed(w) => ~Sent(v) /\ ~Hands(v) /\ (Filed(v) => w = v)
        /\ Sent(w) => ~Hands(v) /\ (Sent(v) => w = v)
        /\ Hands(w) => (Hands(v) => w = v)

\* ... and in some place.
SomePlace == \E w \in Workers : Holds(w) \/ Filed(w) \/ Sent(w) \/ Hands(w)

\* OnActivated has been called for every hand-over but the one under way.
CallsRight == calls = handoffs + (IF \E w \in Workers : Holds(w) THEN 1 ELSE 0)

\* A worker's deactivation is delivered before the conversation comes back to it.
WayInv ==
    /\ \A w \in Workers :
         /\ \A i \in 1..Len(inbox[w]) : inbox[w][i] = "activate" => i = Len(inbox[w])
         /\ Carries(inbox[w], "deactivate") => ~active[w] /\ ~pending[w]
    /\ CallsRight

\* What is kept as long as the conversation is handed over by the worker that has it.
Moves == OnePlace /\ SomePlace /\ WayInv

\* What is filed will be looked at.
FiledInv == \A w \in Workers : pending[w] => start[w] # "over" \/ arrived[w]

\* Whoever hands over, some worker is in a hand-over, or the last message on its way
\* to it is an activation, or nothing is on its way to it and it is active or will be.
Claims(w) ==
    \/ target[w] # NoHandoff
    \/ inbox[w] # <<>> /\ inbox[w][Len(inbox[w])] = "activate"
    \/ inbox[w] = <<>> /\ (active[w] \/ pending[w])
ClaimInv == \E w \in Workers : Claims(w)

InPlace == HandoffType /\ Moves
IInv == HandoffType /\ FiledInv /\ ClaimInv /\ (orderly => Moves)

(* What a queue carries once a message has been added.                     *)
LEMMA CarriesAppend ==
  ASSUME NEW s \in Seq(Kinds), NEW m \in Kinds
  PROVE  /\ Append(s, m) \in Seq(Kinds)
         /\ \A k : Carries(Append(s, m), k) <=> Carries(s, k) \/ m = k
BY DEF Carries

(* What it carries once its first message has been taken.                  *)
LEMMA CarriesTail ==
  ASSUME NEW s \in Seq(Kinds), s # <<>>
  PROVE  /\ Tail(s) \in Seq(Kinds) /\ Head(s) \in Kinds
         /\ Carries(s, Head(s))
         /\ \A k : Carries(s, k) <=> Head(s) = k \/ Carries(Tail(s), k)
         /\ Len(s) \in Nat \ {0} /\ Len(Tail(s)) = Len(s) - 1
         /\ \A i \in 1..Len(Tail(s)) : Tail(s)[i] = s[i + 1]
<1>1. Tail(s) \in Seq(Kinds) /\ Head(s) \in Kinds /\ Head(s) = s[1]
  OBVIOUS
<1>2. Len(s) \in Nat \ {0} /\ Len(Tail(s)) = Len(s) - 1
  OBVIOUS
<1>3. \A i \in 1..Len(Tail(s)) : Tail(s)[i] = s[i + 1]
  OBVIOUS
<1>4. Carries(s, Head(s))
  BY <1>1, <1>2 DEF Carries
<1>5. ASSUME NEW k, Carries(s, k) PROVE Head(s) = k \/ Carries(Tail(s), k)
  <2>1. PICK i \in 1..Len(s) : s[i] = k
    BY <1>5 DEF Carries
  <2>2. CASE i = 1
    BY <1>1, <2>1, <2>2
  <2>3. CASE i # 1
    <3>1. i - 1 \in 1..Len(Tail(s)) /\ Tail(s)[i - 1] = k
      BY <1>2, <1>3, <2>1, <2>3
    <3> QED
      BY <3>1, Zenon DEF Carries
  <2> QED
    BY <2>2, <2>3
<1>6. ASSUME NEW k, Carries(Tail(s), k) PROVE Carries(s, k)
  <2>1. PICK i \in 1..Len(Tail(s)) : Tail(s)[i] = k
    BY <1>6 DEF Carries
  <2>2. i + 1 \in 1..Len(s) /\ s[i + 1] = k
    BY <1>2, <1>3, <2>1
  <2> QED
    BY <2>2 DEF Carries
<1> QED
  BY <1>1, <1>2, <1>3, <1>4, <1>5, <1>6

(* Nobody has the conversation but the first worker, who has it on file.   *)
LEMMA InitInv == HandoffInit => IInv
<1> SUFFICES ASSUME HandoffInit PROVE IInv
  OBVIOUS
<1>1. PICK first \in Workers : active = [w \in Workers |-> w = first]
  BY DEF HandoffInit
<1>2. HandoffType
  <2>1. <<>> \in Seq({"activate", "deactivate"})
    OBVIOUS
  <2> QED
    BY <1>1, <2>1 DEF HandoffInit, HandoffType
<1>3. \A w \in Workers : ~Sent(w) /\ ~Hands(w) /\ ~Holds(w) /\ (Filed(w) <=> w = first)
  <2> SUFFICES ASSUME NEW w \in Workers
               PROVE  ~Sent(w) /\ ~Hands(w) /\ ~Holds(w) /\ (Filed(w) <=> w = first)
    BY Zenon
  <2>1. inbox[w] = <<>> /\ target[w] = <<"none", NoWorker>>
    BY DEF HandoffInit, NoHandoff
  <2>2. active[w] = (w = first) /\ pending[w] = active[w]
    BY <1>1, Zenon DEF HandoffInit
  <2>3. ~Sent(w) /\ ~Hands(w)
    BY <2>1 DEF Sent, Carries, Hands
  <2> QED
    BY <2>2, <2>3, Zenon DEF Holds, Filed
<1>4. OnePlace /\ SomePlace
  BY <1>3 DEF OnePlace, SomePlace
<1>5. CallsRight
  <2>1. calls = 0 /\ handoffs = 0
    BY DEF HandoffInit
  <2>2. ~\E w \in Workers : Holds(w)
    BY <1>3, Zenon
  <2> QED
    BY <2>1, <2>2 DEF CallsRight
<1>6. WayInv
  BY <1>3, <1>5 DEF WayInv, HandoffInit, Carries
<1>7. FiledInv
  BY DEF HandoffInit, FiledInv
<1>8. ClaimInv
  <2>1. inbox[first] = <<>> /\ pending[first]
    BY <1>3, Zenon DEF HandoffInit, Filed
  <2> QED
    BY <2>1, Zenon DEF ClaimInv, Claims
<1> QED
  BY <1>2, <1>4, <1>6, <1>7, <1>8 DEF IInv, Moves

(* Every variable keeps its type.                                          *)
LEMMA TypeNext == HandoffType /\ [HandoffNext]_handoffVars => HandoffType'
<1> SUFFICES ASSUME HandoffType, [HandoffNext]_handoffVars PROVE HandoffType'
  OBVIOUS
<1> USE DEF HandoffType
<1>1. ASSUME NEW w \in Workers, Start(w) PROVE HandoffType'
  BY <1>1 DEF Start
<1>2. ASSUME NEW w \in Workers, StartActivates(w) \/ MaybeActivate(w) PROVE HandoffType'
  <2>1. Activate(w) /\ UNCHANGED <<target, inbox, handoffs, orderly>>
    BY <1>2 DEF StartActivates, MaybeActivate
  <2>2. calls' \in Nat
    BY <2>1 DEF Activate
  <2>3. active' \in [Workers -> BOOLEAN] /\ pending' \in [Workers -> BOOLEAN]
    BY <2>1, Zenon DEF Activate
  <2>4. start' \in [Workers -> {"no", "started", "over"}] /\ arrived' \in [Workers -> BOOLEAN]
    BY <1>2, Zenon DEF StartActivates, MaybeActivate
  <2> QED
    BY <2>1, <2>2, <2>3, <2>4
<1>4. ASSUME NEW w \in Workers, NEW v \in Workers, DeactivateSelf(w, v) PROVE HandoffType'
  <2>1. target' \in [Workers -> {NoHandoff} \cup ({"deactivate", "activate"} \X Workers)]
    BY <1>4 DEF DeactivateSelf, HandsOver
  <2>2. orderly' \in BOOLEAN
    BY <1>4, Zenon DEF DeactivateSelf, HandsOver
  <2> QED
    BY <1>4, <2>1, <2>2 DEF DeactivateSelf, HandsOver
<1>5. ASSUME NEW w \in Workers, DeactivateWorker(w) PROVE HandoffType'
  <2>1. Append(inbox[w], "deactivate") \in Seq(Kinds)
    BY CarriesAppend DEF Kinds
  <2>2. <<"activate", target[w][2]>> \in {"deactivate", "activate"} \X Workers
    BY <1>5 DEF DeactivateWorker, NoHandoff
  <2> QED
    BY <1>5, <2>1, <2>2 DEF DeactivateWorker, Kinds
<1>6. ASSUME NEW w \in Workers, ActivateWorker(w) PROVE HandoffType'
  <2>1. target[w][2] \in Workers
    BY <1>6 DEF ActivateWorker, NoHandoff
  <2>2. PICK v \in Workers : v = target[w][2]
    BY <2>1
  <2>3. Append(inbox[v], "activate") \in Seq(Kinds)
    BY CarriesAppend DEF Kinds
  <2> QED
    BY <1>6, <2>2, <2>3 DEF ActivateWorker, Kinds
<1>7. ASSUME NEW w \in Workers, HandleWorkerActivate(w) \/ HandleWorkerDeactivate(w)
      PROVE  HandoffType'
  <2>1. Tail(inbox[w]) \in Seq(Kinds)
    BY <1>7 DEF HandleWorkerActivate, HandleWorkerDeactivate, Delivers, Kinds
  <2>2. /\ inbox' = [inbox EXCEPT ![w] = Tail(inbox[w])]
        /\ UNCHANGED <<start, calls, target, handoffs, orderly>>
    BY <1>7 DEF HandleWorkerActivate, HandleWorkerDeactivate
  <2>3. /\ active' \in [Workers -> BOOLEAN] /\ pending' \in [Workers -> BOOLEAN]
        /\ arrived' \in [Workers -> BOOLEAN]
    BY <1>7, Zenon DEF HandleWorkerActivate, HandleWorkerDeactivate
  <2>4. inbox' \in [Workers -> Seq(Kinds)]
    BY <2>1, <2>2 DEF Kinds
  <2> QED
    BY <2>2, <2>3, <2>4 DEF Kinds
<1>8. CASE UNCHANGED handoffVars
  BY <1>8 DEF handoffVars
<1> QED
  BY <1>1, <1>2, <1>4, <1>5, <1>6, <1>7, <1>8 DEF HandoffNext

(* A step that moves the conversation nowhere.                             *)
LEMMA SamePlace ==
  ASSUME InPlace, UNCHANGED <<calls, handoffs>>,
         \A v \in Workers : /\ (Holds(v)' <=> Holds(v)) /\ (Filed(v)' <=> Filed(v))
                            /\ (Sent(v)' <=> Sent(v)) /\ (Hands(v)' <=> Hands(v))
  PROVE  OnePlace' /\ SomePlace' /\ CallsRight'
<1>1. OnePlace'
  BY DEF InPlace, Moves, OnePlace
<1>2. SomePlace'
  BY DEF InPlace, Moves, SomePlace
<1>3. (\E w \in Workers : Holds(w)') <=> (\E w \in Workers : Holds(w))
  OBVIOUS
<1> QED
  BY <1>1, <1>2, <1>3 DEF InPlace, Moves, WayInv, CallsRight

(* An activation that is due gives the conversation to its worker.         *)
LEMMA ActivateMoves ==
  ASSUME InPlace, NEW w \in Workers, Activate(w), start[w] # "no", pending[w],
         UNCHANGED <<target, inbox, handoffs>>
  PROVE  OnePlace' /\ SomePlace' /\ CallsRight' /\ ~Carries(inbox[w], "deactivate")
<1>1. /\ active' = [active EXCEPT ![w] = TRUE] /\ pending' = [pending EXCEPT ![w] = FALSE]
      /\ calls' = calls + 1
  BY DEF Activate
<1>2. \A v \in Workers : (Sent(v)' <=> Sent(v)) /\ (Hands(v)' <=> Hands(v))
  BY DEF Sent, Hands
<1>3. Filed(w) /\ Holds(w)' /\ ~Filed(w)'
  BY <1>1 DEF Filed, Holds, InPlace, HandoffType
<1>4. \A v \in Workers : v # w => (Holds(v)' <=> Holds(v)) /\ (Filed(v)' <=> Filed(v))
  BY <1>1 DEF Filed, Holds, InPlace, HandoffType
<1>5. \A v \in Workers : ~Holds(v) /\ ~Sent(v) /\ ~Hands(v) /\ (v # w => ~Filed(v))
  BY <1>3 DEF InPlace, Moves, OnePlace
<1>6. \A v \in Workers : ~Filed(v)' /\ ~Sent(v)' /\ ~Hands(v)' /\ (Holds(v)' <=> v = w)
  BY <1>2, <1>3, <1>4, <1>5
<1>7. OnePlace' /\ SomePlace'
  BY <1>6 DEF OnePlace, SomePlace
<1>8. calls \in Nat /\ handoffs \in Nat /\ calls = handoffs
  <2>1. ~\E v \in Workers : Holds(v)
    BY <1>5
  <2> QED
    BY <2>1 DEF InPlace, Moves, HandoffType, WayInv, CallsRight
<1>9. \E v \in Workers : Holds(v)'
  BY <1>6
<1>10. CallsRight'
  BY <1>1, <1>8, <1>9 DEF CallsRight
<1> QED
  BY <1>7, <1>10 DEF InPlace, Moves, WayInv

(* Start, and the activation at its end.                                   *)
LEMMA StartMoves ==
  ASSUME InPlace, HandoffType', NEW w \in Workers,
         Start(w) \/ StartActivates(w) \/ MaybeActivate(w)
  PROVE  Moves'
<1> USE DEF Moves
<1>0. UNCHANGED <<target, inbox, handoffs>> /\ HandoffType /\ WayInv
  BY DEF Start, StartActivates, MaybeActivate, InPlace
<1>1. CASE Start(w)
  <2>1. UNCHANGED <<active, pending, arrived, calls>>
    BY <1>1 DEF Start
  <2>2. OnePlace' /\ SomePlace' /\ CallsRight'
    BY <1>0, <2>1, SamePlace DEF Holds, Filed, Sent, Hands
  <2> QED
    BY <1>0, <2>1, <2>2 DEF WayInv, CallsRight
<1>2. CASE Activate(w) /\ start[w] # "no" /\ pending[w]
  <2>1. OnePlace' /\ SomePlace' /\ CallsRight' /\ ~Carries(inbox[w], "deactivate")
    BY <1>0, <1>2, ActivateMoves
  <2>2. active' = [active EXCEPT ![w] = TRUE] /\ pending' = [pending EXCEPT ![w] = FALSE]
    BY <1>2 DEF Activate
  <2>4. ~pending'[w] /\ \A v \in Workers : v # w =>
           active'[v] = active[v] /\ pending'[v] = pending[v]
    BY <1>0, <2>2 DEF HandoffType
  <2>5. \A v \in Workers : Carries(inbox[v], "deactivate") => ~active'[v] /\ ~pending'[v]
    BY <1>0, <2>1, <2>4 DEF WayInv
  <2> QED
    BY <1>0, <2>1, <2>5 DEF WayInv, CallsRight
<1>3. CASE ~Start(w) /\ Activate(w) /\ ~(start[w] # "no" /\ pending[w])
  <2>1. UNCHANGED <<active, pending, calls>>
    BY <1>3 DEF Activate
  <2>2. OnePlace' /\ SomePlace' /\ CallsRight'
    BY <1>0, <2>1, SamePlace DEF Holds, Filed, Sent, Hands
  <2> QED
    BY <1>0, <2>1, <2>2 DEF WayInv, CallsRight
<1> QED
  BY <1>1, <1>2, <1>3 DEF StartActivates, MaybeActivate

(* The worker that hands over is inactive at once: if it had the            *)
(* conversation, that goes from it into its hand-over.                     *)
LEMMA DeactivateSelfMoves ==
  ASSUME InPlace, HandoffType', NEW w \in Workers, NEW v \in Workers, DeactivateSelf(w, v),
         orderly'
  PROVE  Moves'
<1>0. HandoffType /\ WayInv /\ OnePlace
  BY DEF InPlace, Moves
<1>2. Holds(w)
  BY DEF DeactivateSelf, HandsOver, Holds
<1>1. /\ active' = [active EXCEPT ![w] = FALSE] /\ target' = [target EXCEPT ![w] = <<"deactivate", v>>]
      /\ handoffs' = handoffs + 1 /\ UNCHANGED <<pending, start, inbox, arrived, calls>>
  BY <1>2 DEF DeactivateSelf, HandsOver, Holds
<1>3. target'[w] = <<"deactivate", v>> /\ \A u \in Workers : u # w => target'[u] = target[u]
  BY <1>0, <1>1 DEF HandoffType
<1>4. ~active'[w] /\ \A u \in Workers : u # w => active'[u] = active[u]
  BY <1>0, <1>1 DEF HandoffType
<1>5. \A u \in Workers : ~Filed(u) /\ ~Sent(u) /\ ~Hands(u) /\ (Holds(u) => u = w)
  BY <1>0, <1>2 DEF OnePlace
<1>6. \A u \in Workers : ~Filed(u)' /\ ~Sent(u)' /\ ~Holds(u)' /\ (Hands(u)' <=> u = w)
  <2> SUFFICES ASSUME NEW u \in Workers
               PROVE  ~Filed(u)' /\ ~Sent(u)' /\ ~Holds(u)' /\ (Hands(u)' <=> u = w)
    OBVIOUS
  <2>1. ~Filed(u)' /\ ~Sent(u)'
    BY <1>1, <1>5 DEF Filed, Sent
  <2>2. ~Holds(u)'
    BY <1>1, <1>4, <1>5 DEF Holds
  <2>3. Hands(u)' <=> u = w
    BY <1>3, <1>5 DEF Hands
  <2> QED
    BY <2>1, <2>2, <2>3
<1>7. OnePlace' /\ SomePlace'
  BY <1>6 DEF OnePlace, SomePlace
<1>8. CallsRight'
  <2>1. calls \in Nat /\ handoffs \in Nat /\ calls = handoffs + 1
    BY <1>0, <1>2 DEF WayInv, CallsRight, HandoffType
  <2>2. ~\E u \in Workers : Holds(u)'
    BY <1>6
  <2> QED
    BY <1>1, <2>1, <2>2 DEF CallsRight
<1>9. \A u \in Workers : Carries(inbox[u], "deactivate") => ~active'[u]
  BY <1>0, <1>4 DEF WayInv
<1> QED
  BY <1>0, <1>1, <1>3, <1>5, <1>7, <1>8, <1>9 DEF Moves, WayInv, Filed

(* It tells itself: the conversation stays in its hand-over.               *)
LEMMA DeactivateWorkerMoves ==
  ASSUME InPlace, HandoffType', NEW w \in Workers, DeactivateWorker(w)
  PROVE  Moves'
<1>0. HandoffType /\ WayInv /\ OnePlace
  BY DEF InPlace, Moves
<1>1. /\ inbox' = [inbox EXCEPT ![w] = Append(inbox[w], "deactivate")]
      /\ target' = [target EXCEPT ![w] = <<"activate", target[w][2]>>]
      /\ UNCHANGED <<active, pending, start, arrived, calls, handoffs>>
  BY <1>0 DEF DeactivateWorker, HandoffType
<1>2. Hands(w)
  BY DEF DeactivateWorker, Hands
<1>3. target'[w] = <<"activate", target[w][2]>> /\ \A u \in Workers : u # w => target'[u] = target[u]
  BY <1>0, <1>1 DEF HandoffType
<1>4. /\ inbox'[w] = Append(inbox[w], "deactivate")
      /\ \A u \in Workers : u # w => inbox'[u] = inbox[u]
  BY <1>0, <1>1 DEF HandoffType
<1>5. ~Holds(w) /\ ~Filed(w) /\ ~Sent(w)
  BY <1>0, <1>2 DEF OnePlace
<1>6. inbox[w] \in Seq(Kinds) /\ "deactivate" \in Kinds
  BY <1>0 DEF HandoffType, Kinds
<1>7. \A u \in Workers : Sent(u)' <=> Sent(u)
  <2>1. \A k : Carries(inbox'[w], k) <=> Carries(inbox[w], k) \/ k = "deactivate"
    BY <1>4, <1>6, CarriesAppend
  <2> QED
    BY <1>4, <2>1, Zenon DEF Sent
<1>8. OnePlace' /\ SomePlace' /\ CallsRight'
  <2>1. \A u \in Workers : Hands(u)' <=> Hands(u)
    BY <1>2, <1>3 DEF Hands
  <2>2. \A u \in Workers : (Holds(u)' <=> Holds(u)) /\ (Filed(u)' <=> Filed(u))
    BY <1>1 DEF Holds, Filed
  <2> QED
    BY <1>1, <1>7, <2>1, <2>2, SamePlace
<1>9. ~active[w] /\ ~pending[w]
  BY <1>0, <1>5 DEF Holds, Filed
<1>10. \A i \in 1..Len(inbox'[w]) : inbox'[w][i] # "activate"
  BY <1>5, <1>7 DEF Sent, Carries
<1>11. ASSUME NEW u \in Workers
       PROVE  /\ \A i \in 1..Len(inbox'[u]) : inbox'[u][i] = "activate" => i = Len(inbox'[u])
              /\ Carries(inbox'[u], "deactivate") => ~active[u] /\ ~pending[u]
  <2>1. CASE u = w
    BY <1>0, <1>2, <1>3, <1>9, <1>10, <2>1 DEF WayInv, Hands
  <2>2. CASE u # w
    BY <1>0, <1>3, <1>4, <2>2 DEF WayInv
  <2> QED
    BY <2>1, <2>2
<1> QED
  BY <1>0, <1>1, <1>8, <1>11 DEF Moves, WayInv

(* It tells the other: the conversation is on its way there.               *)
LEMMA ActivateWorkerMoves ==
  ASSUME InPlace, HandoffType', NEW w \in Workers, ActivateWorker(w)
  PROVE  Moves'
<1>0. HandoffType /\ WayInv /\ OnePlace
  BY DEF InPlace, Moves
<1>1. Hands(w) /\ target[w][2] \in Workers
  BY <1>0 DEF ActivateWorker, Hands, HandoffType, NoHandoff
<1>2. PICK v \in Workers : v = target[w][2]
  BY <1>1
<1>3. /\ inbox' = [inbox EXCEPT ![v] = Append(inbox[v], "activate")]
      /\ target' = [target EXCEPT ![w] = NoHandoff]
      /\ UNCHANGED <<active, pending, start, arrived, calls, handoffs>>
  BY <1>0, <1>2 DEF ActivateWorker, HandoffType
<1>4. target'[w] = NoHandoff /\ \A u \in Workers : u # w => target'[u] = target[u]
  BY <1>0, <1>3 DEF HandoffType
<1>5. /\ inbox'[v] = Append(inbox[v], "activate")
      /\ \A u \in Workers : u # v => inbox'[u] = inbox[u]
  BY <1>0, <1>3 DEF HandoffType
<1>6. \A u \in Workers : ~Holds(u) /\ ~Filed(u) /\ ~Sent(u) /\ (Hands(u) => u = w)
  BY <1>0, <1>1 DEF OnePlace
<1>7. inbox[v] \in Seq(Kinds) /\ {"activate", "deactivate"} = Kinds
  BY <1>0 DEF HandoffType, Kinds
<1>8. \A k : Carries(inbox'[v], k) <=> Carries(inbox[v], k) \/ k = "activate"
  BY <1>5, <1>7, CarriesAppend
<1>9. \A u \in Workers : ~Holds(u)' /\ ~Filed(u)' /\ ~Hands(u)' /\ (Sent(u)' <=> u = v)
  <2> SUFFICES ASSUME NEW u \in Workers
               PROVE  ~Holds(u)' /\ ~Filed(u)' /\ ~Hands(u)' /\ (Sent(u)' <=> u = v)
    OBVIOUS
  <2>1. ~Holds(u)' /\ ~Filed(u)'
    BY <1>3, <1>6 DEF Holds, Filed
  <2>2. ~Hands(u)'
    BY <1>4, <1>6 DEF Hands, NoHandoff
  <2>3. Sent(u)' <=> u = v
    BY <1>5, <1>6, <1>8, Zenon DEF Sent
  <2> QED
    BY <2>1, <2>2, <2>3
<1>10. OnePlace' /\ SomePlace'
  BY <1>9 DEF OnePlace, SomePlace
<1>11. CallsRight'
  <2>1. (\E u \in Workers : Holds(u)') <=> (\E u \in Workers : Holds(u))
    BY <1>6, <1>9
  <2> QED
    BY <1>0, <1>3, <2>1 DEF WayInv, CallsRight
<1>12. \A i \in 1..Len(inbox'[v]) : inbox'[v][i] = "activate" => i = Len(inbox'[v])
  <2>1. \A i \in 1..Len(inbox[v]) : inbox[v][i] # "activate"
    BY <1>6 DEF Sent, Carries
  <2> QED
    BY <1>5, <1>7, <2>1
<1>13. ASSUME NEW u \in Workers
       PROVE  /\ \A i \in 1..Len(inbox'[u]) : inbox'[u][i] = "activate" => i = Len(inbox'[u])
              /\ Carries(inbox'[u], "deactivate") => ~active[u] /\ ~pending[u]
  <2>3. \A i \in 1..Len(inbox'[u]) : inbox'[u][i] = "activate" => i = Len(inbox'[u])
    BY <1>0, <1>5, <1>12 DEF WayInv
  <2>4. Carries(inbox'[u], "deactivate") => ~active[u] /\ ~pending[u]
    BY <1>0, <1>5, <1>8, Zenon DEF WayInv
  <2> QED
    BY <2>3, <2>4
<1> QED
  BY <1>0, <1>3, <1>10, <1>11, <1>13 DEF Moves, WayInv

(* A worker files the activation that has reached it.                      *)
LEMMA HandleActivateMoves ==
  ASSUME InPlace, HandoffType', NEW w \in Workers, HandleWorkerActivate(w)
  PROVE  Moves'
<1>0. HandoffType /\ WayInv /\ OnePlace
  BY DEF InPlace, Moves
<1>1. /\ inbox' = [inbox EXCEPT ![w] = Tail(inbox[w])]
      /\ pending' = [pending EXCEPT ![w] = TRUE] /\ arrived' = [arrived EXCEPT ![w] = TRUE]
      /\ UNCHANGED <<active, start, target, calls, handoffs>>
      /\ inbox[w] # <<>> /\ Head(inbox[w]) = "activate"
  BY <1>0 DEF HandleWorkerActivate, Delivers, HandoffType
<1>2. inbox[w] \in Seq(Kinds)
  BY <1>0 DEF HandoffType, Kinds
<1>3. Sent(w)
  BY <1>1, <1>2, CarriesTail DEF Sent
<1>4. \A u \in Workers : ~Holds(u) /\ ~Filed(u) /\ ~Hands(u) /\ (Sent(u) => u = w)
  BY <1>0, <1>3 DEF OnePlace
<1>5. Len(inbox[w]) = 1 /\ Tail(inbox[w]) = <<>>
  <2>1. inbox[w][1] = "activate" /\ 1 \in 1..Len(inbox[w])
    BY <1>1, <1>2
  <2>2. Len(inbox[w]) = 1
    BY <1>0, <2>1, Zenon DEF WayInv
  <2>3. Tail(inbox[w]) \in Seq(Kinds) /\ Len(Tail(inbox[w])) = 0
    BY <1>1, <1>2, <2>2
  <2> QED
    BY <2>2, <2>3, EmptySeq, Zenon
<1>6. inbox'[w] = <<>> /\ \A u \in Workers : u # w => inbox'[u] = inbox[u]
  BY <1>0, <1>1, <1>5 DEF HandoffType
<1>7. /\ pending'[w] /\ \A u \in Workers : u # w => pending'[u] = pending[u]
      /\ arrived'[w] /\ \A u \in Workers : u # w => arrived'[u] = arrived[u]
  BY <1>0, <1>1 DEF HandoffType
<1>8. \A u \in Workers : ~Holds(u)' /\ ~Hands(u)' /\ ~Sent(u)' /\ (Filed(u)' <=> u = w)
  <2> SUFFICES ASSUME NEW u \in Workers
               PROVE  ~Holds(u)' /\ ~Hands(u)' /\ ~Sent(u)' /\ (Filed(u)' <=> u = w)
    OBVIOUS
  <2>1. ~Holds(u)' /\ (Filed(u)' <=> u = w)
    BY <1>1, <1>4, <1>7 DEF Holds, Filed
  <2>2. ~Hands(u)'
    BY <1>1, <1>4 DEF Hands
  <2>3. CASE u = w
    BY <1>6, <2>1, <2>2, <2>3 DEF Sent, Carries
  <2>4. CASE u # w
    BY <1>4, <1>6, <2>1, <2>2, <2>4 DEF Sent
  <2> QED
    BY <2>3, <2>4
<1>9. OnePlace' /\ SomePlace'
  BY <1>8 DEF OnePlace, SomePlace
<1>10. CallsRight'
  <2>1. (\E u \in Workers : Holds(u)') <=> (\E u \in Workers : Holds(u))
    BY <1>4, <1>8
  <2> QED
    BY <1>0, <1>1, <2>1 DEF WayInv, CallsRight
<1>11. ASSUME NEW u \in Workers
       PROVE  /\ \A i \in 1..Len(inbox'[u]) : inbox'[u][i] = "activate" => i = Len(inbox'[u])
              /\ Carries(inbox'[u], "deactivate") => ~active[u] /\ ~pending'[u]
  <2>1. CASE u = w
    <3>1. ~active[u]
      BY <1>4 DEF Holds, Filed
    <3> QED
      BY <1>6, <1>7, <2>1, <3>1 DEF Carries
  <2>2. CASE u # w
    BY <1>0, <1>6, <1>7, <2>2 DEF WayInv
  <2> QED
    BY <2>1, <2>2
<1> QED
  BY <1>0, <1>1, <1>9, <1>10, <1>11 DEF Moves, WayInv

(* A worker that hears of its own deactivation has long been inactive.     *)
LEMMA HandleDeactivateMoves ==
  ASSUME InPlace, HandoffType', NEW w \in Workers, HandleWorkerDeactivate(w)
  PROVE  Moves'
<1>0. HandoffType /\ WayInv /\ OnePlace
  BY DEF InPlace, Moves
<1>1. /\ inbox' = [inbox EXCEPT ![w] = Tail(inbox[w])]
      /\ active' = [active EXCEPT ![w] = FALSE]
      /\ UNCHANGED <<pending, start, target, arrived, calls, handoffs>>
      /\ inbox[w] # <<>> /\ Head(inbox[w]) = "deactivate"
  BY <1>0 DEF HandleWorkerDeactivate, Delivers, HandoffType
<1>2. inbox[w] \in Seq(Kinds)
  BY <1>0 DEF HandoffType, Kinds
<1>3. /\ Carries(inbox[w], "deactivate")
      /\ \A k : Carries(inbox[w], k) <=> k = "deactivate" \/ Carries(Tail(inbox[w]), k)
  BY <1>1, <1>2, CarriesTail
<1>4. ~active[w]
  BY <1>0, <1>3 DEF WayInv
<1>5. active' = active
  BY <1>0, <1>1, <1>4 DEF HandoffType
<1>6. inbox'[w] = Tail(inbox[w]) /\ \A u \in Workers : u # w => inbox'[u] = inbox[u]
  BY <1>0, <1>1 DEF HandoffType
<1>7. \A u \in Workers : Sent(u)' <=> Sent(u)
  BY <1>3, <1>6 DEF Sent
<1>8. OnePlace' /\ SomePlace' /\ CallsRight'
  BY <1>1, <1>5, <1>7, SamePlace DEF Holds, Filed, Hands
<1>9. \A i \in 1..Len(inbox'[w]) : inbox'[w][i] = "activate" => i = Len(inbox'[w])
  <2>1. \A i \in 1..Len(inbox[w]) : inbox[w][i] = "activate" => i = Len(inbox[w])
    BY <1>0 DEF WayInv
  <2>2. /\ Len(inbox[w]) \in Nat \ {0} /\ Len(inbox'[w]) = Len(inbox[w]) - 1
        /\ \A i \in 1..Len(inbox'[w]) : inbox'[w][i] = inbox[w][i + 1]
    BY <1>1, <1>2, <1>6, CarriesTail, ZenonT(40)
  <2> QED
    BY <2>1, <2>2
<1>10. ASSUME NEW u \in Workers
       PROVE  /\ \A i \in 1..Len(inbox'[u]) : inbox'[u][i] = "activate" => i = Len(inbox'[u])
              /\ Carries(inbox'[u], "deactivate") => ~active[u] /\ ~pending[u]
  <2>1. CASE u = w
    BY <1>0, <1>3, <1>9, <2>1 DEF WayInv
  <2>2. CASE u # w
    BY <1>0, <1>6, <2>2 DEF WayInv
  <2> QED
    BY <2>1, <2>2
<1> QED
  BY <1>0, <1>1, <1>5, <1>8, <1>10 DEF Moves, WayInv

(* What is filed will be looked at, whoever hands over.                    *)
LEMMA FiledNext == HandoffType /\ FiledInv /\ [HandoffNext]_handoffVars => FiledInv'
<1> SUFFICES ASSUME HandoffType, FiledInv, [HandoffNext]_handoffVars PROVE FiledInv'
  OBVIOUS
<1> USE DEF HandoffType
<1>1. ASSUME NEW w \in Workers, Start(w) PROVE FiledInv'
  BY <1>1 DEF Start, FiledInv
<1>2. ASSUME NEW w \in Workers, StartActivates(w) PROVE FiledInv'
  BY <1>2 DEF StartActivates, Activate, FiledInv
<1>3. ASSUME NEW w \in Workers, MaybeActivate(w) PROVE FiledInv'
  BY <1>3 DEF MaybeActivate, Activate, FiledInv
<1>4. ASSUME NEW w \in Workers, NEW v \in Workers, DeactivateSelf(w, v) PROVE FiledInv'
  BY <1>4 DEF DeactivateSelf, HandsOver, FiledInv
<1>5. ASSUME NEW w \in Workers, DeactivateWorker(w) \/ ActivateWorker(w)
      PROVE  FiledInv'
  BY <1>5 DEF DeactivateWorker, ActivateWorker, FiledInv
<1>6. ASSUME NEW w \in Workers, HandleWorkerActivate(w) PROVE FiledInv'
  BY <1>6 DEF HandleWorkerActivate, FiledInv
<1>7. ASSUME NEW w \in Workers, HandleWorkerDeactivate(w) PROVE FiledInv'
  BY <1>7 DEF HandleWorkerDeactivate, FiledInv
<1>8. CASE UNCHANGED handoffVars
  BY <1>8 DEF handoffVars, FiledInv
<1> QED
  BY <1>1, <1>2, <1>3, <1>4, <1>5, <1>6, <1>7, <1>8 DEF HandoffNext

(* The last message of a queue once one has been added, and once the first *)
(* has been taken.                                                         *)
LEMMA LastAppended ==
  ASSUME NEW s \in Seq(Kinds), NEW m \in Kinds
  PROVE  Append(s, m) # <<>> /\ Append(s, m)[Len(Append(s, m))] = m
OBVIOUS

LEMMA LastOfTail ==
  ASSUME NEW s \in Seq(Kinds), s # <<>>
  PROVE  \/ Tail(s) = <<>> /\ s[Len(s)] = Head(s)
         \/ Tail(s) # <<>> /\ Tail(s)[Len(Tail(s))] = s[Len(s)]
<1>1. Len(s) \in Nat \ {0} /\ Len(Tail(s)) = Len(s) - 1 /\ Head(s) = s[1]
  OBVIOUS
<1>2. \A i \in 1..Len(Tail(s)) : Tail(s)[i] = s[i + 1]
  OBVIOUS
<1>3. Tail(s) \in Seq(Kinds)
  OBVIOUS
<1>4. CASE Len(s) = 1
  <2>1. Len(Tail(s)) = 0
    BY <1>1, <1>4
  <2>2. Tail(s) = <<>>
    BY <1>3, <2>1, EmptySeq, Zenon
  <2> QED
    BY <1>1, <1>4, <2>2, Zenon
<1>5. CASE Len(s) # 1
  <2>1. Len(Tail(s)) \in 1..Len(Tail(s)) /\ Len(Tail(s)) + 1 = Len(s)
    BY <1>1, <1>5
  <2>2. Tail(s) # <<>>
    BY <1>1, <1>5
  <2>3. Tail(s)[Len(Tail(s))] = s[Len(Tail(s)) + 1]
    BY <1>2, <2>1, Zenon
  <2> QED
    BY <2>1, <2>2, <2>3, Zenon
<1> QED
  BY <1>4, <1>5

(* The conversation is never dropped: a step that takes one worker's claim *)
(* to it away gives another one, or puts it into a hand-over.              *)
LEMMA ClaimNext == HandoffType /\ ClaimInv /\ [HandoffNext]_handoffVars => ClaimInv'
<1> SUFFICES ASSUME HandoffType, ClaimInv, [HandoffNext]_handoffVars PROVE ClaimInv'
  OBVIOUS
<1>0. PICK u \in Workers : Claims(u)
  BY DEF ClaimInv
<1>1. \A w \in Workers : inbox[w] \in Seq(Kinds)
  BY DEF HandoffType, Kinds
<1>2. ASSUME NEW w \in Workers, Start(w) PROVE ClaimInv'
  BY <1>0, <1>2, Zenon DEF Start, Claims, ClaimInv
<1>3. ASSUME NEW w \in Workers, StartActivates(w) \/ MaybeActivate(w) PROVE ClaimInv'
  <2>1. Activate(w) /\ UNCHANGED <<target, inbox>>
    BY <1>3 DEF StartActivates, MaybeActivate
  <2>2. active[u] \/ pending[u] => active'[u] \/ pending'[u]
    BY <2>1 DEF Activate, HandoffType
  <2> QED
    BY <1>0, <2>1, <2>2, Zenon DEF Claims, ClaimInv
<1>4. ASSUME NEW w \in Workers, NEW v \in Workers, DeactivateSelf(w, v) PROVE ClaimInv'
  <2>1. target'[w] = <<IF active[w] THEN "deactivate" ELSE "activate", v>>
    BY <1>4 DEF DeactivateSelf, HandsOver, HandoffType
  <2>2. target'[w] # NoHandoff
    BY <2>1 DEF NoHandoff
  <2> QED
    BY <2>2, Zenon DEF Claims, ClaimInv
<1>5. ASSUME NEW w \in Workers, DeactivateWorker(w) PROVE ClaimInv'
  <2>1. target'[w] = <<"activate", target[w][2]>>
    BY <1>5 DEF DeactivateWorker, HandoffType
  <2>2. target'[w] # NoHandoff
    BY <2>1 DEF NoHandoff
  <2> QED
    BY <2>2, Zenon DEF Claims, ClaimInv
<1>6. ASSUME NEW w \in Workers, ActivateWorker(w) PROVE ClaimInv'
  <2>1. PICK v \in Workers : v = target[w][2]
    BY <1>6 DEF ActivateWorker, HandoffType, NoHandoff
  <2>2. inbox'[v] = Append(inbox[v], "activate")
    BY <1>6, <2>1 DEF ActivateWorker, HandoffType
  <2>3. inbox'[v] # <<>> /\ inbox'[v][Len(inbox'[v])] = "activate"
    BY <1>1, <2>2, LastAppended DEF Kinds
  <2> QED
    BY <2>3, Zenon DEF Claims, ClaimInv
<1>7. ASSUME NEW w \in Workers, HandleWorkerActivate(w) \/ HandleWorkerDeactivate(w)
      PROVE  ClaimInv'
  <2>1. /\ target' = target /\ inbox[w] # <<>> /\ inbox'[w] = Tail(inbox[w])
        /\ \A v \in Workers : v # w =>
              inbox'[v] = inbox[v] /\ active'[v] = active[v] /\ pending'[v] = pending[v]
    BY <1>7 DEF HandleWorkerActivate, HandleWorkerDeactivate, Delivers, HandoffType
  <2>2. CASE u # w \/ target[u] # NoHandoff
    BY <1>0, <2>1, <2>2, Zenon DEF Claims, ClaimInv
  <2>3. CASE u = w /\ target[u] = NoHandoff
    <3>1. inbox[w][Len(inbox[w])] = "activate"
      BY <1>0, <2>1, <2>3, Zenon DEF Claims
    <3>2. CASE Tail(inbox[w]) # <<>>
      <4>1. Tail(inbox[w])[Len(Tail(inbox[w]))] = inbox[w][Len(inbox[w])]
        BY <1>1, <2>1, <3>2, LastOfTail, Zenon
      <4> QED
        BY <2>1, <3>1, <3>2, <4>1, Zenon DEF Claims, ClaimInv
    <3>3. CASE Tail(inbox[w]) = <<>>
      <4>1. Head(inbox[w]) = "activate"
        BY <1>1, <2>1, <3>1, <3>3, LastOfTail, Zenon
      <4>2. pending'[w]
        BY <1>7, <4>1 DEF HandleWorkerActivate, HandleWorkerDeactivate, Delivers, HandoffType
      <4> QED
        BY <2>1, <3>3, <4>2, Zenon DEF Claims, ClaimInv
    <3> QED
      BY <3>2, <3>3, Zenon
  <2> QED
    BY <2>2, <2>3, Zenon
<1>8. CASE UNCHANGED handoffVars
  BY <1>0, <1>8, Zenon DEF handoffVars, Claims, ClaimInv
<1> QED
  BY <1>2, <1>3, <1>4, <1>5, <1>6, <1>7, <1>8, Zenon DEF HandoffNext

(* A step keeps the conversation in one place, unless a worker hands over   *)
(* what it does not hold.                                                  *)
LEMMA MovesNext == InPlace /\ [HandoffNext]_handoffVars /\ orderly' => Moves'
<1> SUFFICES ASSUME InPlace, [HandoffNext]_handoffVars, orderly' PROVE Moves'
  OBVIOUS
<1>1. HandoffType'
  BY TypeNext DEF InPlace
<1>2. CASE HandoffNext
  BY <1>1, <1>2, StartMoves, DeactivateSelfMoves, DeactivateWorkerMoves,
     ActivateWorkerMoves, HandleActivateMoves, HandleDeactivateMoves DEF HandoffNext
<1>3. CASE UNCHANGED handoffVars
  <2>1. OnePlace' /\ SomePlace' /\ CallsRight'
    BY <1>3, SamePlace DEF Holds, Filed, Sent, Hands, handoffVars
  <2> QED
    BY <1>3, <2>1 DEF InPlace, Moves, WayInv, handoffVars
<1> QED
  BY <1>2, <1>3

(* Every step keeps the invariant.                                         *)
LEMMA NextInv == IInv /\ [HandoffNext]_handoffVars => IInv'
<1> SUFFICES ASSUME IInv, [HandoffNext]_handoffVars PROVE IInv'
  OBVIOUS
<1>1. HandoffType' /\ FiledInv' /\ ClaimInv'
  BY TypeNext, FiledNext, ClaimNext DEF IInv
<1>2. orderly' => orderly
  BY DEF HandoffNext, Start, StartActivates, MaybeActivate, DeactivateSelf, HandsOver,
         DeactivateWorker, ActivateWorker, HandleWorkerActivate, HandleWorkerDeactivate,
         handoffVars
<1>3. orderly' => Moves'
  BY <1>2, MovesNext DEF IInv, InPlace
<1> QED
  BY <1>1, <1>3 DEF IInv

(* workers.go, ActivateWorker with DeactivateSelf: whichever workers hand   *)
(* over, whenever and however often, one is active when all is delivered.  *)
(* As long as each hand-over is made by the worker that holds the           *)
(* conversation, at most one is active, and OnActivated has been called     *)
(* once for every hand-over and once for the first.                        *)
THEOREM ConversationKept == HandoffSpec => []HandedOver
<1>1. IInv => HandedOver
  <2> SUFFICES ASSUME IInv PROVE HandedOver
    OBVIOUS
  <2>1. ASSUME AtRest PROVE \A w \in Workers : ~Filed(w)
    BY <2>1, Zenon DEF AtRest, Filed, IInv, FiledInv
  <2>2. SomeoneHolds
    <3> SUFFICES ASSUME AtRest PROVE \E w \in Workers : active[w]
      BY DEF SomeoneHolds
    <3>1. PICK w \in Workers : Claims(w)
      BY DEF IInv, ClaimInv
    <3> QED
      BY <2>1, <3>1, Zenon DEF AtRest, Claims, Filed
  <2>3. ASSUME orderly PROVE OneHolds
    BY <2>3 DEF IInv, Moves, OnePlace, Holds, Filed, OneHolds
  <2>4. ASSUME orderly, AtRest PROVE calls = handoffs + 1
    <3>1. PICK w \in Workers : active[w]
      BY <2>2, <2>4 DEF SomeoneHolds
    <3>2. Holds(w)
      BY <2>1, <2>4, <3>1 DEF Holds, Filed
    <3> QED
      BY <2>4, <3>2 DEF IInv, Moves, WayInv, CallsRight
  <2> QED
    BY <2>2, <2>3, <2>4 DEF HandedOver, AllTold
<1> QED
  BY InitInv, NextInv, <1>1, PTL DEF HandoffSpec

-----------------------------------------------------------------------------
(* The runner.                                                             *)

RunType ==
    session \in [pc : {"new", "starting", "waiting", "stopping", "returned"},
             todo : SUBSET Workers, wait : SUBSET Workers, started : BOOLEAN,
             ctx : BOOLEAN, shuttingDown : {"no", "auto", "end", "cancel"},
             cancelReason : {"none", "caller"}, reason : {"none", "exiting", "caller"}]
EntryType ==
    /\ add \in [Workers -> {"no", "listed", "entered", "attached", "added"}]
    /\ ent \in [Workers -> {"none", "running", "returned", "ending", "done"}]

(* While no worker is added to the run, the workers are the entries it     *)
(* began with, Run starts them before it looks through them, and each that *)
(* runs is still to be looked at or waited for.                            *)
Awaited ==
    /\ \A w \in Workers : add[w] \in {"no", "added"}
    /\ session.todo \subseteq Entries
    /\ \A w \in Workers : Running(w) => w \in Entries
    /\ session.pc = "stopping" =>
          \A w \in Workers : Running(w) => w \in session.todo \cup session.wait
    /\ session.pc = "returned" => \A w \in Workers : ~Running(w)

WaitInv == RunType /\ EntryType /\ (plan.late = {} => Awaited)

(* A step that starts no worker and moves no part of Run changes nothing   *)
(* about it.                                                               *)
LEMMA WaitFrame ==
  ASSUME WaitInv, UNCHANGED <<plan, add>>, EntryType', RunType',
         session'.pc = session.pc, session'.todo = session.todo, session'.wait = session.wait,
         \A w \in Workers : Running(w)' => Running(w)
  PROVE  WaitInv'
BY DEF WaitInv, Awaited, Entries

(* Run looks through the entries, and waits for those that still run.      *)
LEMMA WaitRun ==
  ASSUME WaitInv, RunStep
  PROVE  WaitInv'
<1> USE DEF WaitInv
<1>1. CASE SetupSession
  <2>1. /\ UNCHANGED <<plan, add, ent>> /\ session'.pc = "starting" /\ session'.todo = Entries
        /\ session.pc = "new"
    BY <1>1 DEF SetupSession, RunType
  <2>2. RunType'
    BY <1>1, Zenon DEF SetupSession, RunType, Entries
  <2> QED
    BY <2>1, <2>2 DEF EntryType, Awaited, Entries, Running
<1>2. ASSUME NEW w \in Workers, StartWorker(w) PROVE WaitInv'
  <2>1. /\ UNCHANGED <<plan, add>> /\ session'.pc = "starting" /\ session'.todo = session.todo \ {w}
        /\ w \in session.todo /\ ent' = [ent EXCEPT ![w] = "running"]
    BY <1>2 DEF StartWorker, RunType
  <2>2. RunType'
    BY <1>2 DEF StartWorker, RunType
  <2>3. EntryType'
    BY <2>1 DEF EntryType
  <2>4. \A v \in Workers : Running(v)' => Running(v) \/ v = w
    BY <2>1 DEF EntryType, Running
  <2> QED
    BY <2>1, <2>2, <2>3, <2>4 DEF Awaited, Entries
<1>3. CASE AllStarted
  <2>1. /\ UNCHANGED <<plan, add, ent>> /\ session'.pc = "waiting" /\ session'.todo = session.todo
    BY <1>3 DEF AllStarted, RunType
  <2>2. RunType'
    BY <1>3 DEF AllStarted, RunType
  <2> QED
    BY <2>1, <2>2 DEF EntryType, Awaited, Entries, Running
<1>4. CASE StopRemainingWorkers
  <2>1. /\ UNCHANGED <<plan, add, ent>> /\ session'.pc = "stopping" /\ session'.todo = Entries
    BY <1>4, Zenon DEF StopRemainingWorkers, RunType
  <2>2. RunType'
    BY <1>4, Zenon DEF StopRemainingWorkers, RunType, Entries
  <2> QED
    BY <2>1, <2>2 DEF EntryType, Awaited, Entries, Running
<1>5. ASSUME NEW w \in Workers, StopEntry(w) PROVE WaitInv'
  <2>1. /\ UNCHANGED <<plan, add, ent>> /\ session'.pc = "stopping" /\ session'.todo = session.todo \ {w}
        /\ session'.wait = IF Finished(w) THEN session.wait ELSE session.wait \cup {w}
        /\ session.pc = "stopping"
    BY <1>5 DEF StopEntry, RunType
  <2>2. RunType'
    BY <1>5, Zenon DEF StopEntry, RunType
  <2> QED
    BY <2>1, <2>2 DEF EntryType, Awaited, Entries, Running, Finished
<1>6. ASSUME NEW w \in Workers, WaitEntry(w) PROVE WaitInv'
  <2>1. /\ UNCHANGED <<plan, add, ent>> /\ session'.pc = "stopping" /\ session'.todo = session.todo
        /\ session'.wait = session.wait \ {w} /\ ~Running(w) /\ session.pc = "stopping"
    BY <1>6 DEF WaitEntry, RunType, Running
  <2>2. RunType'
    BY <1>6 DEF WaitEntry, RunType
  <2> QED
    BY <2>1, <2>2 DEF EntryType, Awaited, Entries, Running
<1>7. CASE RunReturns
  <2>1. /\ UNCHANGED <<plan, add, ent>> /\ session'.pc = "returned" /\ session'.todo = {}
        /\ session.wait = {} /\ session.todo = {} /\ session.pc = "stopping"
    BY <1>7 DEF RunReturns, RunType
  <2>2. RunType'
    BY <1>7, Zenon DEF RunReturns, RunType
  <2> QED
    BY <2>1, <2>2 DEF EntryType, Awaited, Entries, Running
<1> QED
  BY <1>1, <1>2, <1>3, <1>4, <1>5, <1>6, <1>7 DEF RunStep

(* The goroutine of a worker only comes to its end.                        *)
LEMMA WaitWorker ==
  ASSUME WaitInv, NEW w \in Workers, WorkerStep(w)
  PROVE  WaitInv'
<1>1. UNCHANGED <<plan, add>> /\ EntryType' /\ \A v \in Workers : Running(v)' => Running(v)
  BY DEF WaitInv, WorkerStep, WorkerReturns, MaybeAutoEnd, CloseDone, EntryType, Running
<1>2. session' = session \/ session' = [session EXCEPT !.shuttingDown = "auto"]
  BY DEF WorkerStep, WorkerReturns, MaybeAutoEnd, CloseDone
<1>3. RunType' /\ session'.pc = session.pc /\ session'.todo = session.todo /\ session'.wait = session.wait
  BY <1>2 DEF WaitInv, RunType
<1> QED
  BY <1>1, <1>3, WaitFrame

(* The callers tell Run what to do, and leave it to Run.                   *)
LEMMA WaitCallers ==
  ASSUME WaitInv, End \/ Cancel \/ RecordReason \/ EndContext
  PROVE  WaitInv'
<1>1. UNCHANGED <<plan, add, ent>>
  BY DEF End, Cancel, RecordReason, EndContext
<1>2. \/ session' = session \/ session' = [session EXCEPT !.shuttingDown = "end"]
      \/ session' = [session EXCEPT !.shuttingDown = "cancel"]
      \/ session' = [session EXCEPT !.cancelReason = "caller"] \/ session' = [session EXCEPT !.ctx = TRUE]
  BY DEF End, Cancel, RecordReason, EndContext
<1>3. RunType' /\ session'.pc = session.pc /\ session'.todo = session.todo /\ session'.wait = session.wait
  BY <1>2, Zenon DEF WaitInv, RunType
<1>4. EntryType' /\ \A w \in Workers : Running(w)' => Running(w)
  BY <1>1 DEF WaitInv, EntryType, Running
<1> QED
  BY <1>1, <1>3, <1>4, WaitFrame

(* AddWorkers adds only the workers the session is given later.                *)
LEMMA WaitAdd ==
  ASSUME WaitInv, NEW w \in Workers, AddStep(w) \/ ListChild(w)
  PROVE  WaitInv'
<1>1. UNCHANGED <<plan, session>> /\ EntryType'
  BY DEF WaitInv, AddStep, AddEntry, Attach, StartAdded, ListChild, EntryType
<1>2. plan.late = {} /\ Awaited => FALSE
  BY DEF AddStep, AddEntry, Attach, StartAdded, ListChild, Awaited
<1> QED
  BY <1>1, <1>2 DEF WaitInv, RunType

(* What a worker is told, and what becomes of its work, is its own.        *)
LEMMA WaitMessages ==
  ASSUME WaitInv, UNCHANGED <<plan, session, add, ent>>
  PROVE  WaitInv'
BY DEF WaitInv, RunType, EntryType, Awaited, Entries, Running

(* stopRemainingWorkers "waits for them all": whichever of the callers,    *)
(* the context and the workers was first, no worker the run began with     *)
(* still runs when Run returns.                                            *)
THEOREM AllWaitedFor == RunnerSpec => []NoneLeft
<1>1. RunnerInit => WaitInv
  <2> SUFFICES ASSUME RunnerInit PROVE WaitInv
    OBVIOUS
  <2>1. RunType
    BY DEF RunnerInit, RunType
  <2>2. EntryType /\ \A w \in Workers : ~Running(w)
    BY DEF RunnerInit, EntryType, Running
  <2>3. session.todo = {} /\ session.pc = "new" /\ \A w \in Workers : add[w] \in {"no", "added"}
    BY DEF RunnerInit
  <2> QED
    BY <2>1, <2>2, <2>3 DEF WaitInv, Awaited
<1>2. WaitInv /\ [RunnerNext]_runnerVars => WaitInv'
  <2> SUFFICES ASSUME WaitInv, [RunnerNext]_runnerVars PROVE WaitInv'
    OBVIOUS
  <2>1. CASE UNCHANGED runnerVars
    BY <2>1, WaitMessages DEF runnerVars
  <2>2. ASSUME NEW w \in Workers,
               SystemStep(w) \/ DataStep(w) \/ WorkerQuits(w) \/ FinishWorker(w)
        PROVE  WaitInv'
    BY <2>2, WaitMessages DEF SystemStep, DataStep, HandleWorkerCancel, HandleWorkerEnd,
                              ChildrenEnded, WorkerQuits, FinishWorker
  <2> QED
    BY <2>1, <2>2, WaitRun, WaitWorker, WaitCallers, WaitAdd DEF RunnerNext
<1>3. WaitInv => NoneLeft
  BY DEF WaitInv, Awaited, NoneLeft
<1> QED
  BY <1>1, <1>2, <1>3, PTL DEF RunnerSpec
=============================================================================
