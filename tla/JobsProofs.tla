----------------------------- MODULE JobsProofs -----------------------------
(***************************************************************************)
(* What the worker that asks for jobs and the workers that do them promise,*)
(* for any number of jobs, workers, timeouts and callers.  The requester   *)
(* does to each group no more than JobGroups allows; a group gets one      *)
(* verdict while its answers travel in one band of the bus; and the        *)
(* requests of a handler declared sequential run one at a time, in the     *)
(* order they came.                                                        *)
(***************************************************************************)
EXTENDS Jobs, TLAPS

Queues == [system : Seq(Messages), data : Seq(Messages), routed : Seq(Messages)]
Told == {"answer", "urgent"} \X {"ok", "error"}

\* A thread that owns a group it has taken off the list.
Owns(t, j) == thr[t].pc \in {"complete", "callOff"} /\ j \in thr[t].todo

\* A handler that is about to send has something to say.
SaysInv ==
    \A w \in Workers, j \in Jobs :
        run[<<w, j>>].pc = "sending" => run[<<w, j>>].says \in Told

\* A group taken off the list has one owner, who completes it only with every
\* answer; an answer is recorded only in a group that was opened.
OwnerInv ==
    /\ \A t \in Threads : \A j \in thr[t].todo :
         /\ Owns(t, j) => grp[j].state = "taken"
         /\ thr[t].pc = "complete" => sc.asked[j] \subseteq grp[j].responses
         /\ thr[t].pc \in {"error", "record"} =>
              grp[j].state # "none" /\ thr[t].arg \in Workers
    /\ \A t, u \in Threads : \A j \in Jobs : Owns(t, j) /\ Owns(u, j) => t = u

IInv == TypeOK /\ SaysInv /\ OwnerInv

(* Send leaves well-formed queues.                                         *)
LEMMA PutType ==
  ASSUME NEW b \in [Nodes -> Queues], NEW n \in Nodes, NEW m \in Messages
  PROVE  Put(b, n, m) \in [Nodes -> Queues]
<1>1. b[n].system \in Seq(Messages) /\ b[n].data \in Seq(Messages)
  BY Zenon DEF Queues
<1>2. Append(b[n].system, m) \in Seq(Messages) /\ Append(b[n].data, m) \in Seq(Messages)
  BY <1>1
<1> QED
  BY <1>2, Zenon DEF Put, Queues

(* A message that is waiting is a message, and taking it leaves            *)
(* well-formed queues.                                                     *)
LEMMA TakenType ==
  ASSUME NEW n \in Nodes, NEW band \in {"system", "data"}, NEW kinds,
         bus \in [Nodes -> Queues], Takes(n, band, kinds)
  PROVE  /\ Message(n, band) \in Messages /\ Message(n, band).kind \in kinds
         /\ Taken(n, band) \in [Nodes -> Queues]
<1>1. bus[n].system \in Seq(Messages) /\ bus[n].routed \in Seq(Messages)
  BY Zenon DEF Queues
<1>2. Message(n, band) \in Messages
  BY <1>1 DEF Message, Waiting, Takes
<1>3. Taken(n, band) \in [Nodes -> Queues]
  <2>1. CASE band = "system"
    <3>1. Tail(bus[n].system) \in Seq(Messages)
      BY <1>1, <2>1 DEF Takes, Waiting
    <3> QED
      BY <2>1, <3>1, Zenon DEF Taken, Queues
  <2>2. CASE band = "data"
    <3>1. Tail(bus[n].routed) \in Seq(Messages)
      BY <1>1, <2>2 DEF Takes, Waiting
    <3> QED
      BY <2>2, <3>1, Zenon DEF Taken, Queues
  <2> QED
    BY <2>1, <2>2, Zenon
<1> QED
  BY <1>2, <1>3, Zenon DEF Takes

(* The scenario, in the parts the proofs look at.                          *)
LEMMA ScenarioType ==
  ASSUME sc \in Scenarios
  PROVE  /\ sc.asked \in [Jobs -> SUBSET Workers] /\ sc.answers \subseteq Told
         /\ sc.stops \subseteq Workers \X {"endWorker", "cancelWorker"}
BY ScenariosAssumption, Zenon DEF Scenario, Told

(* What a message carries follows from its kind.                           *)
LEMMA MessageType ==
  ASSUME NEW m \in Messages
  PROVE  /\ m.kind \in {"answer", "urgent"} => m.job \in Jobs /\ m.from \in Workers
         /\ m.kind \in {"request", "cancel"} => m.job \in Jobs
BY Zenon DEF Messages, Answers

(* A thread's record.                                                      *)
ThreadType == [pc : {"idle", "armed", "cancel", "callOff", "error", "record", "track",
                     "complete", "stopping", "canceled", "answer", "callHandlers",
                     "finished"},
               todo : SUBSET Jobs, arg : Jobs \cup Workers \cup {NoJob}]

(* What Does leaves is a thread, and touches no other.                     *)
LEMMA DoesType ==
  ASSUME NEW t \in Threads, NEW todo \in SUBSET Jobs,
         NEW at \in {"armed", "cancel", "callOff", "track", "complete", "stopping",
                     "canceled"},
         thr \in [Threads -> ThreadType], Does(t, at, todo)
  PROVE  /\ thr' \in [Threads -> ThreadType]
         /\ \A u \in Threads : u # t => thr'[u] = thr[u]
         /\ thr'[t].todo = todo
         /\ thr'[t].pc \in {"idle", at}
         /\ thr'[t].pc = "idle" <=> todo = {}
BY Zenon DEF Does, ThreadType, Idle

(* The first state is well formed.                                         *)
LEMMA InitInv == Init => IInv
<1> SUFFICES ASSUME Init PROVE IInv
  OBVIOUS
<1>1. <<>> \in Seq(Messages)
  OBVIOUS
<1>2. TypeOK
  BY <1>1, Zenon DEF Init, TypeOK, Idle
<1>3. SaysInv
  BY Zenon DEF Init, SaysInv
<1>4. OwnerInv
  BY Zenon DEF Init, OwnerInv, Owns, Idle
<1> QED
  BY <1>2, <1>3, <1>4, Zenon DEF IInv

BaseType == [active : SUBSET Jobs, handlers : SUBSET Jobs, turn : Jobs \cup {NoJob},
             finished : BOOLEAN, told : SUBSET {"endWorker", "cancelWorker"}]
RunType == [pc : {"none", "waiting", "running", "sending", "over", "returned"},
            wait : Jobs \cup {NoJob}, off : BOOLEAN, says : Told \cup {NoJob}]
GroupType == [state : {"none", "running", "taken", "completed", "failed"},
              unsent : SUBSET Workers, responses : SUBSET Workers,
              completed : BOOLEAN, errored : BOOLEAN]

\* TypeOK, in the parts an action may disturb.
Types ==
    /\ sc \in Scenarios
    /\ bus \in [Nodes -> Queues]
    /\ base \in [Workers -> BaseType]
    /\ run \in [Workers \X Jobs -> RunType]
    /\ thr \in [Threads -> ThreadType]
    /\ grp \in [Jobs -> GroupType]

(* Types is TypeOK.                                                        *)
LEMMA TypesOK == TypeOK <=> Types
BY Zenon DEF TypeOK, Types, Queues, BaseType, RunType, ThreadType, GroupType, Told

(* A group may change its state.                                           *)
LEMMA StateType ==
  ASSUME grp \in [Jobs -> GroupType], NEW j \in Jobs,
         NEW state \in {"running", "taken", "completed", "failed"}
  PROVE  [grp EXCEPT ![j].state = state] \in [Jobs -> GroupType]
<1>1. [grp[j] EXCEPT !.state = state] \in GroupType
  BY ZenonT(30) DEF GroupType
<1> QED
  BY <1>1, Zenon

(* A group may be completed.                                               *)
LEMMA CompleteType ==
  ASSUME grp \in [Jobs -> GroupType], NEW j \in Jobs
  PROVE  [grp EXCEPT ![j].state = "completed", ![j].completed = TRUE] \in [Jobs -> GroupType]
<1>1. [grp[j] EXCEPT !.state = "completed", !.completed = TRUE] \in GroupType
  BY ZenonT(30) DEF GroupType
<1> QED
  BY <1>1, Zenon

(* A request may be sent.                                                  *)
LEMMA UnsentType ==
  ASSUME grp \in [Jobs -> GroupType], NEW j \in Jobs, NEW ws \in SUBSET Workers
  PROVE  [grp EXCEPT ![j].unsent = ws] \in [Jobs -> GroupType]
<1>1. [grp[j] EXCEPT !.unsent = ws] \in GroupType
  BY ZenonT(30) DEF GroupType
<1> QED
  BY <1>1, Zenon

(* A group may take an answer, and be told of an error.                    *)
LEMMA ResponseType ==
  ASSUME grp \in [Jobs -> GroupType], NEW j \in Jobs,
         NEW w \in Workers, NEW errored \in BOOLEAN
  PROVE  [grp EXCEPT ![j].responses = @ \cup {w}, ![j].errored = errored]
           \in [Jobs -> GroupType]
<1>1. grp[j].responses \cup {w} \in SUBSET Workers
  BY Zenon DEF GroupType
<1>2. [grp[j] EXCEPT !.responses = grp[j].responses \cup {w}, !.errored = errored] \in GroupType
  BY <1>1, ZenonT(30) DEF GroupType
<1> QED
  BY <1>2, Zenon

(* Setting a group's response, state or requests keeps the groups typed.   *)
LEMMA AskedType ==
  ASSUME Types, OwnerInv, NEW t \in Asking, NEW j \in Jobs, Asked(t, j)
  PROVE  Types'
<1> USE DEF Types
<1>1. t \in Threads /\ Timeout(j) \in Threads
  BY DEF Asking, Threads, Delivery, Nodes
<1>2. CASE CancelGroup(t, j)
  <2>1. grp' \in [Jobs -> GroupType]
    BY <1>2, StateType, Zenon DEF CancelGroup
  <2>2. thr[t].todo \ {j} \in SUBSET Jobs
    BY <1>1, Zenon DEF ThreadType
  <2>3. thr' \in [Threads -> ThreadType]
    BY <1>1, <1>2, <2>2, DoesType, Zenon DEF CancelGroup
  <2> QED
    BY <1>2, <2>1, <2>3, Zenon DEF CancelGroup
<1>3. CASE CallOff(t, j)
  <2>1. grp' \in [Jobs -> GroupType]
    BY <1>3, StateType, Zenon DEF CallOff
  <2>2. thr' \in [Threads -> ThreadType]
    BY <1>1, <1>3, Zenon DEF CallOff, CancelTimeout, ThreadType, Idle
  <2>3. [kind |-> "cancel", job |-> j] \in Messages
    BY Zenon DEF Messages
  <2>4. \A n \in Nodes : Put(bus, n, [kind |-> "cancel", job |-> j])[n] \in Queues
    BY <2>3, PutType, Zenon
  <2>5. bus' \in [Nodes -> Queues]
    BY <1>3, <2>4, Zenon DEF CallOff
  <2> QED
    BY <1>3, <2>1, <2>2, <2>5, Zenon DEF CallOff
<1>4. CASE SetResponse(t, j)
  <2>1. thr[t].arg \in Workers
    BY <1>1, <1>4, Zenon DEF SetResponse, OwnerInv
  <2>5. (grp[j].errored \/ thr[t].pc = "error") \in BOOLEAN
    OBVIOUS
  <2>2. grp' \in [Jobs -> GroupType]
    BY <1>4, <2>1, <2>5, ResponseType, Zenon DEF SetResponse
  <2>3. thr' \in [Threads -> ThreadType]
    BY <1>1, <1>4, DoesType, Zenon DEF SetResponse
  <2> QED
    BY <1>4, <2>2, <2>3, Zenon DEF SetResponse
<1>5. CASE TrackGroupResponse(t, j)
  <2>1. grp' \in [Jobs -> GroupType]
    BY <1>5, StateType, Zenon DEF TrackGroupResponse
  <2>2. thr' \in [Threads -> ThreadType]
    BY <1>1, <1>5, DoesType, Zenon DEF TrackGroupResponse
  <2> QED
    BY <1>5, <2>1, <2>2, Zenon DEF TrackGroupResponse
<1>6. CASE CompleteGroup(t, j)
  <2>1. grp' \in [Jobs -> GroupType]
    BY <1>6, CompleteType, Zenon DEF CompleteGroup
  <2>2. thr' \in [Threads -> ThreadType]
    BY <1>1, <1>6, Zenon DEF CompleteGroup, CancelTimeout, ThreadType, Idle
  <2> QED
    BY <1>6, <2>1, <2>2, Zenon DEF CompleteGroup
<1> QED
  BY <1>2, <1>3, <1>4, <1>5, <1>6, Zenon DEF Asked

(* A group may be opened.                                                  *)
LEMMA OpenType ==
  ASSUME grp \in [Jobs -> GroupType], NEW j \in Jobs, NEW ws \in SUBSET Workers
  PROVE  [grp EXCEPT ![j].state = "running", ![j].unsent = ws] \in [Jobs -> GroupType]
<1>1. [grp[j] EXCEPT !.state = "running", !.unsent = ws] \in GroupType
  BY ZenonT(30) DEF GroupType
<1> QED
  BY <1>1, Zenon

(* A job may become active, with its handler and its turn.                 *)
LEMMA ActiveType ==
  ASSUME base \in [Workers -> BaseType], NEW w \in Workers, NEW j \in Jobs,
         NEW turn \in Jobs \cup {NoJob}
  PROVE  [base EXCEPT ![w].active = @ \cup {j}, ![w].handlers = @ \cup {j},
                      ![w].turn = turn] \in [Workers -> BaseType]
<1>1. base[w].active \cup {j} \in SUBSET Jobs /\ base[w].handlers \cup {j} \in SUBSET Jobs
  BY Zenon DEF BaseType
<1>2. ASSUME NEW a \in SUBSET Jobs, NEW h \in SUBSET Jobs
      PROVE  [base EXCEPT ![w].active = a, ![w].handlers = h, ![w].turn = turn]
               \in [Workers -> BaseType]
  <2>1. [base[w] EXCEPT !.active = a, !.handlers = h, !.turn = turn] \in BaseType
    BY <1>2, Zenon DEF BaseType
  <2> QED
    BY <2>1, Zenon DEF BaseType
<1> QED
  BY <1>1, <1>2, Zenon

(* What creates a group, or hands something to the bus.                    *)
LEMMA RequestType ==
  ASSUME Types, NEW j \in Jobs
  PROVE  /\ CreateGroup(j) \/ TimeoutFires(j) \/ CallerCancels(j) => Types'
         /\ \A w \in Workers : RequestJob(j, w) => Types'
<1> USE DEF Types
<1>1. Timeout(j) \in Threads /\ Caller \in Threads
  BY Zenon DEF Threads
<1>2. ASSUME CreateGroup(j) PROVE Types'
  <2>1. sc.asked[j] \in SUBSET Workers
    BY ScenarioType, Zenon
  <2>2. grp' \in [Jobs -> GroupType]
    <3>1. grp' = [grp EXCEPT ![j].state = "running", ![j].unsent = sc.asked[j]]
      BY <1>2, Zenon DEF CreateGroup
    <3> QED
      BY <2>1, <3>1, OpenType, Zenon
  <2>3. thr' \in [Threads -> ThreadType]
    BY <1>1, <1>2, DoesType, Zenon DEF CreateGroup
  <2> QED
    BY <1>2, <2>2, <2>3, Zenon DEF CreateGroup
<1>3. ASSUME TimeoutFires(j) PROVE Types'
  <2>1. thr' \in [Threads -> ThreadType]
    BY <1>1, <1>3, DoesType, Zenon DEF TimeoutFires
  <2> QED
    BY <1>3, <2>1, Zenon DEF TimeoutFires
<1>4. ASSUME CallerCancels(j) PROVE Types'
  <2>1. thr' \in [Threads -> ThreadType]
    BY <1>1, <1>4, DoesType, Zenon DEF CallerCancels
  <2> QED
    BY <1>4, <2>1, Zenon DEF CallerCancels
<1>5. ASSUME NEW w \in Workers, RequestJob(j, w) PROVE Types'
  <2>4. grp[j].unsent \ {w} \in SUBSET Workers
    BY Zenon DEF GroupType
  <2>1. grp' \in [Jobs -> GroupType]
    BY <1>5, <2>4, UnsentType, Zenon DEF RequestJob
  <2>2. [kind |-> "request", job |-> j] \in Messages /\ w \in Nodes
    BY Zenon DEF Messages, Nodes
  <2>3. bus' \in [Nodes -> Queues]
    BY <1>5, <2>2, PutType, Zenon DEF RequestJob
  <2> QED
    BY <1>5, <2>1, <2>3, Zenon DEF RequestJob
<1> QED
  BY <1>2, <1>3, <1>4, <1>5, Zenon

(* A handler may be called off, and move on.                               *)
LEMMA OffType ==
  ASSUME run \in [Workers \X Jobs -> RunType], NEW w \in Workers, NEW j \in Jobs
  PROVE  [run EXCEPT ![<<w, j>>].off = TRUE] \in [Workers \X Jobs -> RunType]
<1>1. <<w, j>> \in Workers \X Jobs
  OBVIOUS
<1>2. ASSUME NEW p \in Workers \X Jobs
      PROVE  [run EXCEPT ![p].off = TRUE] \in [Workers \X Jobs -> RunType]
  <2>1. ASSUME NEW r \in RunType PROVE [r EXCEPT !.off = TRUE] \in RunType
    BY <2>1, ZenonT(30) DEF RunType
  <2>2. [run[p] EXCEPT !.off = TRUE] \in RunType
    BY <1>2, <2>1, Zenon
  <2> QED
    BY <2>2, Zenon
<1> QED
  BY <1>1, <1>2, Zenon

(* What the delivery goroutines do.                                        *)
LEMMA DeliverType ==
  ASSUME Types, NEW n \in Nodes, Deliver(n)
  PROVE  Types'
<1> USE DEF Types
<1>1. <<n, "system">> \in Threads /\ <<n, "data">> \in Threads
  BY Zenon DEF Threads, Delivery
<1>2. CASE Route(n)
  <2>1. bus[n].data \in Seq(Messages) /\ bus[n].routed \in Seq(Messages)
    BY Zenon DEF Queues
  <2>2. /\ Tail(bus[n].data) \in Seq(Messages)
        /\ Append(bus[n].routed, Head(bus[n].data)) \in Seq(Messages)
    BY <1>2, <2>1 DEF Route
  <2>3. bus' \in [Nodes -> Queues]
    BY <1>2, <2>2, Zenon DEF Route, Queues
  <2> QED
    BY <1>2, <2>3, Zenon DEF Route
<1>3. CASE n \in Workers /\ HandleJobRequest(n)
  <2> DEFINE j == Message(n, "data").job
  <2>1. Message(n, "data") \in Messages /\ Message(n, "data").kind = "request"
        /\ bus' \in [Nodes -> Queues]
    BY <1>3, TakenType DEF HandleJobRequest
  <2>2. j \in Jobs
    BY <2>1, MessageType, Zenon
  <2>3. base' \in [Workers -> BaseType]
    <3>1. base[n].turn \in Jobs \cup {NoJob}
      BY <1>3, Zenon DEF BaseType
    <3>2. (IF sc.sequential THEN j ELSE base[n].turn) \in Jobs \cup {NoJob}
      BY <2>2, <3>1, Zenon
    <3> QED
      BY <1>3, <2>2, <3>2, ActiveType, Zenon DEF HandleJobRequest
  <2>4. run' \in [Workers \X Jobs -> RunType]
    <3>1. base[n].turn \in Jobs \cup {NoJob}
      BY <1>3, Zenon DEF BaseType
    <3>2. [pc |-> "waiting", off |-> FALSE, says |-> NoJob,
           wait |-> IF sc.sequential THEN base[n].turn ELSE NoJob] \in RunType
      BY <3>1, Zenon DEF RunType
    <3> QED
      BY <1>3, <2>2, <3>2, Zenon DEF HandleJobRequest
  <2> QED
    BY <1>3, <2>1, <2>3, <2>4, Zenon DEF HandleJobRequest
<1>4. CASE n \in Workers /\ HandleJobCancel(n)
  <2> DEFINE j == Message(n, "system").job
  <2>1. Message(n, "system") \in Messages /\ Message(n, "system").kind = "cancel"
        /\ bus' \in [Nodes -> Queues]
    BY <1>4, TakenType DEF HandleJobCancel
  <2>2. j \in Jobs
    BY <2>1, MessageType, Zenon
  <2>3. run' \in [Workers \X Jobs -> RunType]
    <3>1. [run EXCEPT ![<<n, j>>].off = TRUE] \in [Workers \X Jobs -> RunType]
      BY <1>4, <2>2, OffType, Zenon
    <3> QED
      BY <1>4, <3>1, Zenon DEF HandleJobCancel
  <2>4. base[n].active \cap {j} \in SUBSET Jobs
    BY <2>2, Zenon
  <2>5. thr' \in [Threads -> ThreadType]
    BY <1>1, <1>4, <2>4, DoesType, Zenon DEF HandleJobCancel
  <2> QED
    BY <1>4, <2>1, <2>3, <2>5, Zenon DEF HandleJobCancel
<1>5. CASE n \in Workers /\ HandlerStopped(n)
  <2>1. thr[<<n, "system">>].todo \in SUBSET Jobs
    BY <1>1, Zenon DEF ThreadType
  <2>2. thr' \in [Threads -> ThreadType]
    BY <1>1, <1>5, <2>1, DoesType, Zenon DEF HandlerStopped
  <2> QED
    BY <1>5, <2>2, Zenon DEF HandlerStopped
<1>6. ASSUME n = Req, NEW band \in {"system", "data"}, HandleJobResponse(band)
      PROVE  Types'
  <2> DEFINE m == Message(Req, band)
  <2>1. m \in Messages /\ m.kind \in {"answer", "urgent"} /\ bus' \in [Nodes -> Queues]
    BY <1>6, TakenType, Zenon DEF HandleJobResponse
  <2>2. m.job \in Jobs /\ m.from \in Workers
    BY <2>1, MessageType, Zenon
  <2>3. thr' \in [Threads -> ThreadType]
    BY <1>1, <1>6, <2>2, ZenonT(30) DEF HandleJobResponse, ThreadType, Idle
  <2> QED
    BY <1>6, <2>1, <2>3, Zenon DEF HandleJobResponse
<1> QED
  BY <1>2, <1>3, <1>4, <1>5, <1>6, Zenon DEF Deliver

(* A handler moves on.                                                     *)
LEMMA RunMoves ==
  ASSUME run \in [Workers \X Jobs -> RunType], NEW q \in Workers \X Jobs,
         NEW at \in {"running", "sending", "over", "returned"}
  PROVE  [run EXCEPT ![q].pc = at] \in [Workers \X Jobs -> RunType]
BY ZenonT(30) DEF RunType

(* A handler moves on with what it is going to say.                        *)
LEMMA RunSays ==
  ASSUME run \in [Workers \X Jobs -> RunType], NEW q \in Workers \X Jobs,
         NEW at \in {"running", "sending", "over", "returned"}, NEW a \in Told
  PROVE  [run EXCEPT ![q].pc = at, ![q].says = a] \in [Workers \X Jobs -> RunType]
<1> DEFINE Runs(A) ==
      [pc : {"none", "waiting", "running", "sending", "over", "returned"},
       wait : Jobs \cup {NoJob}, off : BOOLEAN, says : A]
<1>1. ASSUME NEW A, a \in A, NEW r \in Runs(A)
      PROVE  [r EXCEPT !.pc = at, !.says = a] \in Runs(A)
  BY <1>1, Zenon
<1>2. [run[q] EXCEPT !.pc = at, !.says = a] \in RunType
  BY <1>1, Zenon DEF RunType
<1> QED
  BY <1>2, Zenon DEF RunType

(* A worker's jobs and handlers may change, and it may finish.             *)
LEMMA BaseActive ==
  ASSUME base \in [Workers -> BaseType], NEW w \in Workers, NEW js \in SUBSET Jobs
  PROVE  /\ [base EXCEPT ![w].active = js] \in [Workers -> BaseType]
         /\ [base EXCEPT ![w].handlers = js] \in [Workers -> BaseType]
         /\ [base EXCEPT ![w].finished = TRUE] \in [Workers -> BaseType]
<1>1. [base EXCEPT ![w].active = js] \in [Workers -> BaseType]
  BY Zenon DEF BaseType
<1>2. [base EXCEPT ![w].handlers = js] \in [Workers -> BaseType]
  BY Zenon DEF BaseType
<1>3. [base EXCEPT ![w].finished = TRUE] \in [Workers -> BaseType]
  BY Zenon DEF BaseType
<1> QED
  BY <1>1, <1>2, <1>3, Zenon

(* A worker may be told to stop.                                           *)
LEMMA BaseTold ==
  ASSUME base \in [Workers -> BaseType], NEW w \in Workers,
         NEW ks \in SUBSET {"endWorker", "cancelWorker"}
  PROVE  [base EXCEPT ![w].told = ks] \in [Workers -> BaseType]
BY Zenon DEF BaseType

(* A thread may be given other work.                                       *)
LEMMA ThreadMoves ==
  ASSUME NEW r \in ThreadType, NEW js \in SUBSET Jobs
  PROVE  /\ [r EXCEPT !.pc = "callHandlers", !.todo = js] \in ThreadType
         /\ [r EXCEPT !.pc = "finished"] \in ThreadType
         /\ [r EXCEPT !.todo = js] \in ThreadType
         /\ [r EXCEPT !.todo = js, !.arg = NoJob] \in ThreadType
         /\ Idle \in ThreadType
<1>1. [r EXCEPT !.pc = "callHandlers", !.todo = js] \in ThreadType
  BY Zenon DEF ThreadType
<1>2. [r EXCEPT !.pc = "finished"] \in ThreadType
  BY Zenon DEF ThreadType
<1>3. [r EXCEPT !.todo = js] \in ThreadType
  BY Zenon DEF ThreadType
<1>4. [r EXCEPT !.todo = js, !.arg = NoJob] \in ThreadType
  BY Zenon DEF ThreadType
<1>5. Idle \in ThreadType
  BY Zenon DEF ThreadType, Idle
<1> QED
  BY <1>1, <1>2, <1>3, <1>4, <1>5, Zenon

(* What the goroutine of a handler does, and that it has something to say  *)
(* when it sends.                                                          *)
LEMMA HandlerType ==
  ASSUME Types, SaysInv, NEW w \in Workers, NEW j \in Jobs, Handler(w, j)
  PROVE  Types' /\ SaysInv'
<1> USE DEF Types
<1> DEFINE p == <<w, j>>
<1>1. p \in Workers \X Jobs
  OBVIOUS
<1>3. CASE StartHandler(w, j)
  <2>1. run' = [run EXCEPT ![p].pc = "running"] /\ UNCHANGED <<sc, bus, base, thr, grp>>
    BY <1>3, Zenon DEF StartHandler
  <2>2. run' \in [Workers \X Jobs -> RunType]
    BY <1>1, <2>1, RunMoves, Zenon
  <2>3. SaysInv'
    BY <1>1, <2>1 DEF SaysInv
  <2> QED
    BY <2>1, <2>2, <2>3, Zenon
<1>4. ASSUME NEW a \in sc.answers, HandlerAnswers(w, j, a) PROVE Types' /\ SaysInv'
  <2>1. a \in Told
    BY <1>4, ScenarioType, Zenon
  <2>2. PICK at \in {"sending", "over"} :
          run' = [run EXCEPT ![p].pc = at, ![p].says = a]
    BY <1>4, Zenon DEF HandlerAnswers
  <2>3. run' \in [Workers \X Jobs -> RunType]
    BY <1>1, <2>1, <2>2, RunSays, Zenon
  <2>4. SaysInv'
    BY <1>1, <2>1, <2>2 DEF SaysInv
  <2> QED
    BY <1>4, <2>3, <2>4, Zenon DEF HandlerAnswers
<1>5. CASE HandlerSends(w, j)
  <2>1. run[p].says \in Told
    BY <1>5, Zenon DEF HandlerSends, SaysInv
  <2>2. run[p].says[1] \in {"answer", "urgent"} /\ run[p].says[2] \in {"ok", "error"}
    BY <2>1, Zenon DEF Told
  <2>3. [kind |-> run[p].says[1], job |-> j, from |-> w, status |-> run[p].says[2]]
          \in Messages
    BY <2>2, Zenon DEF Messages, Answers
  <2>4. bus' \in [Nodes -> Queues]
    BY <1>5, <2>3, PutType, Zenon DEF HandlerSends, Nodes
  <2>5. base' \in [Workers -> BaseType]
    <3>1. base[w].active \ {j} \in SUBSET Jobs
      BY Zenon DEF BaseType
    <3> QED
      BY <1>5, <3>1, BaseActive, Zenon DEF HandlerSends
  <2>6. run' = [run EXCEPT ![p].pc = "over"]
    BY <1>5, Zenon DEF HandlerSends
  <2>7. run' \in [Workers \X Jobs -> RunType]
    BY <1>1, <2>6, RunMoves, Zenon
  <2>8. SaysInv'
    BY <1>1, <2>6 DEF SaysInv
  <2> QED
    BY <1>5, <2>4, <2>5, <2>7, <2>8, Zenon DEF HandlerSends
<1>6. CASE HandlerReturns(w, j)
  <2>1. run' = [run EXCEPT ![p].pc = "returned"]
    BY <1>6, Zenon DEF HandlerReturns
  <2>2. run' \in [Workers \X Jobs -> RunType]
    BY <1>1, <2>1, RunMoves, Zenon
  <2>3. base' \in [Workers -> BaseType]
    <3>1. base[w].handlers \ {j} \in SUBSET Jobs
      BY Zenon DEF BaseType
    <3> QED
      BY <1>6, <3>1, BaseActive, Zenon DEF HandlerReturns
  <2>4. SaysInv'
    BY <1>1, <2>1 DEF SaysInv
  <2> QED
    BY <1>6, <2>2, <2>3, <2>4, Zenon DEF HandlerReturns
<1> QED
  BY <1>3, <1>4, <1>5, <1>6, Zenon DEF Handler

(* What answers for the jobs of a worker that stops.                       *)
LEMMA ServesType ==
  ASSUME Types, NEW t \in Serving, Serves(t)
  PROVE  Types'
<1> USE DEF Types
<1>1. t \in Threads /\ t[1] \in Workers /\ t[1] \in Nodes
  BY Zenon DEF Serving, Threads, Delivery, Nodes
<1>2. base[t[1]].active \in SUBSET Jobs /\ base[t[1]].handlers \in SUBSET Jobs
  BY <1>1, Zenon DEF BaseType
<1>3. ASSUME NEW j \in Jobs PROVE Answered(t, j) \in [Threads -> ThreadType]
  <2>1. thr[t].todo \ {j} \in SUBSET Jobs /\ thr[t] \in ThreadType
    BY <1>1, Zenon DEF ThreadType
  <2>2. /\ [thr[t] EXCEPT !.todo = thr[t].todo \ {j}, !.arg = NoJob] \in ThreadType
        /\ Idle \in ThreadType
    BY <2>1, ThreadMoves, Zenon
  <2> QED
    BY <1>1, <2>2, Zenon DEF Answered
<1>4. CASE Stop(t)
  <2>1. bus' \in [Nodes -> Queues]
    BY <1>1, <1>4, TakenType DEF Stop, Serving
  <2>2. thr' \in [Threads -> ThreadType]
    BY <1>1, <1>2, <1>4, Zenon DEF Stop, ThreadType
  <2> QED
    BY <1>4, <2>1, <2>2, Zenon DEF Stop
<1>5. CASE TakeRunningJobs(t)
  <2>1. base' \in [Workers -> BaseType]
    BY <1>1, <1>5, BaseActive, Zenon DEF TakeRunningJobs
  <2>2. thr' \in [Threads -> ThreadType]
    <3>1. [thr[t] EXCEPT !.pc = "callHandlers", !.todo = base[t[1]].handlers] \in ThreadType
      BY <1>1, <1>2, ThreadMoves, Zenon
    <3> QED
      BY <1>1, <1>5, <3>1, Zenon DEF TakeRunningJobs
  <2> QED
    BY <1>5, <2>1, <2>2, Zenon DEF TakeRunningJobs
<1>6. CASE Finish(t)
  <2>1. base' \in [Workers -> BaseType]
    BY <1>1, <1>6, BaseActive, Zenon DEF Finish
  <2>2. thr' \in [Threads -> ThreadType]
    <3>1. [thr[t] EXCEPT !.pc = "finished"] \in ThreadType /\ Idle \in ThreadType
      BY <1>1, ThreadMoves, Zenon
    <3> QED
      BY <1>1, <1>6, <3>1, Zenon DEF Finish
  <2> QED
    BY <1>6, <2>1, <2>2, Zenon DEF Finish
<1>7. ASSUME NEW j \in Jobs, AnswerCanceled(t, j) PROVE Types'
  <2>1. [thr EXCEPT ![t].arg = j] \in [Threads -> ThreadType]
    BY <1>1, Zenon DEF ThreadType
  <2>2. thr' \in [Threads -> ThreadType]
    BY <1>3, <1>7, <2>1, Zenon DEF AnswerCanceled
  <2> QED
    BY <1>7, <2>2, Zenon DEF AnswerCanceled
<1>8. ASSUME NEW j \in Jobs, SendCanceled(t, j) PROVE Types'
  <2>1. [kind |-> "answer", job |-> j, from |-> t[1], status |-> "canceled"] \in Messages
    BY <1>1, Zenon DEF Messages, Answers
  <2>2. bus' \in [Nodes -> Queues]
    BY <1>8, <2>1, PutType, Zenon DEF SendCanceled, Nodes
  <2>3. base' \in [Workers -> BaseType]
    <3>1. base[t[1]].active \ {j} \in SUBSET Jobs
      BY <1>2, Zenon
    <3> QED
      BY <1>1, <1>8, <3>1, BaseActive, Zenon DEF SendCanceled
  <2> QED
    BY <1>3, <1>8, <2>2, <2>3, Zenon DEF SendCanceled
<1>9. ASSUME NEW j \in Jobs, StopHandler(t, j) PROVE Types'
  <2>1. thr' \in [Threads -> ThreadType]
    BY <1>1, <1>9, ZenonT(30) DEF StopHandler, ThreadType
  <2> QED
    BY <1>1, <1>9, <2>1, OffType, Zenon DEF StopHandler
<1> QED
  BY <1>4, <1>5, <1>6, <1>7, <1>8, <1>9, Zenon DEF Serves

\* What OwnerInv asks of the work a thread has in hand.
Claims(t) ==
    \A j \in thr[t].todo :
        /\ Owns(t, j) => grp[j].state = "taken"
        /\ thr[t].pc = "complete" => sc.asked[j] \subseteq grp[j].responses
        /\ thr[t].pc \in {"error", "record"} =>
              grp[j].state # "none" /\ thr[t].arg \in Workers

(* A step of one thread, which may put others to rest, keeps the owners    *)
(* when it leaves the groups of the others as they are or further on.      *)
LEMMA OwnerStep ==
  ASSUME OwnerInv, sc' = sc, NEW t \in Threads, Claims(t)',
         thr \in [Threads -> ThreadType],
         \A u \in Threads \ {t} : thr'[u] = thr[u] \/ thr'[u] = Idle,
         \A j \in Jobs : grp[j].responses \subseteq grp'[j].responses,
         \A j \in Jobs : grp[j].state # "none" => grp'[j].state # "none",
         \A u \in Threads \ {t}, j \in Jobs : Owns(u, j) => grp'[j].state = "taken",
         \A u \in Threads \ {t}, j \in Jobs : Owns(t, j)' => ~Owns(u, j)
  PROVE  OwnerInv'
<1>1. Idle.todo = {}
  BY Zenon DEF Idle
<1>2. ASSUME NEW u \in Threads PROVE Claims(u)'
  <2>1. CASE u = t
    BY <2>1, Zenon
  <2>2. CASE u # t /\ thr'[u] = Idle
    BY <1>1, <2>2, Zenon DEF Claims
  <2>3. CASE u # t /\ thr'[u] = thr[u]
    <3>1. thr[u].todo \subseteq Jobs
      BY Zenon DEF ThreadType
    <3>2. Claims(u)
      BY Zenon DEF OwnerInv, Claims
    <3>3. ASSUME NEW j \in thr[u].todo
          PROVE  /\ Owns(u, j) => grp'[j].state = "taken"
                 /\ thr[u].pc = "complete" => sc.asked[j] \subseteq grp'[j].responses
                 /\ thr[u].pc \in {"error", "record"} =>
                      grp'[j].state # "none" /\ thr[u].arg \in Workers
      BY <2>3, <3>1, <3>2, <3>3, Zenon DEF Claims
    <3>4. ASSUME NEW j PROVE Owns(u, j)' <=> Owns(u, j)
      BY <2>3, Zenon DEF Owns
    <3> QED
      BY <2>3, <3>3, <3>4, Zenon DEF Claims
  <2> QED
    BY <2>1, <2>2, <2>3, Zenon
<1>3. ASSUME NEW u \in Threads, NEW v \in Threads, NEW j \in Jobs,
             Owns(u, j)', Owns(v, j)'
      PROVE  u = v
  <2>1. \A x \in Threads \ {t} : Owns(x, j)' => Owns(x, j)
    BY <1>1, Zenon DEF Owns
  <2> QED
    BY <1>3, <2>1, Zenon DEF OwnerInv
<1> QED
  BY <1>2, <1>3, Zenon DEF OwnerInv, Claims

(* A thread that claims nothing and leaves the groups alone.               *)
LEMMA OwnerIdle ==
  ASSUME OwnerInv, UNCHANGED <<sc, grp>>, NEW t \in Threads,
         thr \in [Threads -> ThreadType],
         \A u \in Threads \ {t} : thr'[u] = thr[u],
         thr'[t].pc \notin {"complete", "callOff", "error", "record"}
  PROVE  OwnerInv'
<1>1. Claims(t)' /\ \A j \in Jobs : ~Owns(t, j)'
  BY Zenon DEF Claims, Owns
<1>2. \A u \in Threads, j \in Jobs : Owns(u, j) => grp'[j].state = "taken"
  BY Zenon DEF OwnerInv, Owns
<1> QED
  BY <1>1, <1>2, OwnerStep, Zenon

(* The threads of the requester hand a group from one to the next.         *)
LEMMA AskedOwner ==
  ASSUME Types, OwnerInv, NEW t \in Asking, NEW j \in Jobs, Asked(t, j)
  PROVE  OwnerInv'
<1> USE DEF Types
<1>1. t \in Threads /\ Timeout(j) \in Threads
  BY DEF Asking, Threads, Delivery, Nodes
<1>2. ASSUME NEW k \in Jobs, NEW u \in Threads, Owns(u, k) PROVE grp[k].state = "taken"
  BY <1>2, Zenon DEF OwnerInv, Owns
<1>3. CASE CancelGroup(t, j) /\ grp[j].state = "running"
  <2>1. /\ grp' = [grp EXCEPT ![j].state = "taken"] /\ sc' = sc
        /\ thr' = [thr EXCEPT ![t] = [pc |-> "callOff", todo |-> {j}, arg |-> NoJob]]
    BY <1>3, Zenon DEF CancelGroup, Does
  <2>2. Claims(t)'
    BY <1>1, <2>1 DEF Claims
  <2>3. \A k \in Jobs : /\ grp'[k].responses = grp[k].responses
                        /\ grp'[k].state = IF k = j THEN "taken" ELSE grp[k].state
    BY <2>1, Zenon DEF GroupType
  <2>4. \A k \in Jobs : Owns(t, k)' => k = j
    BY <1>1, <2>1, Zenon DEF Owns
  <2>5. \A u \in Threads : ~Owns(u, j)
    BY <1>2, <1>3, Zenon
  <2>6. \A u \in Threads \ {t} : thr'[u] = thr[u]
    BY <2>1, Zenon
  <2> QED
    BY <1>1, <1>2, <2>1, <2>2, <2>3, <2>4, <2>5, <2>6, OwnerStep
<1>4. CASE CancelGroup(t, j) /\ grp[j].state # "running"
  <2>1. thr[t].todo \ {j} \in SUBSET Jobs
    BY <1>1, Zenon DEF ThreadType
  <2>2. grp' = grp /\ sc' = sc /\ Does(t, "cancel", thr[t].todo \ {j})
    BY <1>4, Zenon DEF CancelGroup
  <2> QED
    BY <1>1, <2>1, <2>2, DoesType, OwnerIdle
<1>5. ASSUME Owns(t, j), NEW state \in {"completed", "failed"}, sc' = sc,
             \A k \in Jobs : /\ grp'[k].responses = grp[k].responses
                             /\ grp'[k].state = IF k = j THEN state ELSE grp[k].state,
             thr' = CancelTimeout(j, [thr EXCEPT ![t] = Idle])
      PROVE  OwnerInv'
  <2>1. thr'[t] = Idle
    BY <1>1, <1>5, Zenon DEF CancelTimeout
  <2>2. \A u \in Threads \ {t} : thr'[u] = thr[u] \/ thr'[u] = Idle
    BY <1>1, <1>5, Zenon DEF CancelTimeout
  <2>3. Claims(t)' /\ \A k \in Jobs : ~Owns(t, k)'
    BY <2>1 DEF Claims, Owns, Idle
  <2>4. \A u \in Threads \ {t} : ~Owns(u, j)
    BY <1>1, <1>5, Zenon DEF OwnerInv
  <2>5. \A u \in Threads \ {t}, k \in Jobs : Owns(u, k) => grp'[k].state = "taken"
    BY <1>2, <1>5, <2>4, Zenon
  <2> QED
    BY <1>1, <1>5, <2>2, <2>3, <2>5, OwnerStep, Zenon
<1>6. CASE CallOff(t, j)
  <2>1. \A k \in Jobs : /\ grp'[k].responses = grp[k].responses
                        /\ grp'[k].state = IF k = j THEN "failed" ELSE grp[k].state
    BY <1>6, Zenon DEF CallOff, GroupType
  <2>2. Owns(t, j)
    BY <1>6, Zenon DEF CallOff, Owns
  <2> QED
    BY <1>5, <1>6, <2>1, <2>2, Zenon DEF CallOff
<1>7. CASE CompleteGroup(t, j)
  <2>1. \A k \in Jobs : /\ grp'[k].responses = grp[k].responses
                        /\ grp'[k].state = IF k = j THEN "completed" ELSE grp[k].state
    BY <1>7, Zenon DEF CompleteGroup, GroupType
  <2>2. Owns(t, j)
    BY <1>7, Zenon DEF CompleteGroup, Owns
  <2> QED
    BY <1>5, <1>7, <2>1, <2>2, Zenon DEF CompleteGroup
<1>8. CASE SetResponse(t, j)
  <2>1. \A k \in Jobs : /\ grp[k].responses \subseteq grp'[k].responses
                        /\ grp'[k].state = grp[k].state
    BY <1>8, ZenonT(30) DEF SetResponse, GroupType
  <2>2. PICK at \in {"cancel", "track"} : Does(t, at, {j})
    BY <1>8, Zenon DEF SetResponse
  <2>3. thr'[t].pc \in {"idle", at} /\ \A u \in Threads \ {t} : thr'[u] = thr[u]
    BY <1>1, <2>2, DoesType
  <2>4. Claims(t)' /\ \A k \in Jobs : ~Owns(t, k)'
    BY <2>3, Zenon DEF Claims, Owns
  <2>5. sc' = sc
    BY <1>8, Zenon DEF SetResponse
  <2> QED
    BY <1>1, <1>2, <2>1, <2>3, <2>4, <2>5, OwnerStep, Zenon
<1>9. CASE TrackGroupResponse(t, j)
  <2>1. CASE grp[j].state = "running" /\ sc.asked[j] \subseteq grp[j].responses
    <3>1. /\ grp' = [grp EXCEPT ![j].state = "taken"] /\ sc' = sc
          /\ thr' = [thr EXCEPT ![t] = [pc |-> "complete", todo |-> {j}, arg |-> NoJob]]
      BY <1>9, <2>1, Zenon DEF TrackGroupResponse, Does
    <3>2. \A k \in Jobs : /\ grp'[k].responses = grp[k].responses
                          /\ grp'[k].state = IF k = j THEN "taken" ELSE grp[k].state
      BY <3>1, Zenon DEF GroupType
    <3>3. thr'[t].todo = {j} /\ thr'[t].pc = "complete"
      BY <1>1, <3>1, Zenon
    <3>4. Claims(t)'
      BY <2>1, <3>1, <3>2, <3>3, Zenon DEF Claims
    <3>5. \A k \in Jobs : Owns(t, k)' => k = j
      BY <3>3, Zenon DEF Owns
    <3>6. \A u \in Threads : ~Owns(u, j)
      BY <1>2, <2>1, Zenon
    <3>7. \A u \in Threads \ {t} : thr'[u] = thr[u]
      BY <3>1, Zenon
    <3> QED
      BY <1>1, <1>2, <3>1, <3>2, <3>4, <3>5, <3>6, <3>7, OwnerStep
  <2>2. CASE ~(grp[j].state = "running" /\ sc.asked[j] \subseteq grp[j].responses)
    <3>1. grp' = grp /\ sc' = sc /\ Does(t, "track", {})
      BY <1>9, <2>2, Zenon DEF TrackGroupResponse
    <3> QED
      BY <1>1, <3>1, DoesType, OwnerIdle
  <2> QED
    BY <2>1, <2>2, Zenon
<1> QED
  BY <1>3, <1>4, <1>6, <1>7, <1>8, <1>9, Zenon DEF Asked

(* The other steps own nothing, and a handler is not made to send by them. *)
LEMMA OthersOwner ==
  ASSUME Types, OwnerInv, NEW j \in Jobs
  PROVE  /\ CreateGroup(j) \/ TimeoutFires(j) \/ CallerCancels(j) => OwnerInv'
         /\ \A w \in Workers : RequestJob(j, w) => OwnerInv'
<1> USE DEF Types
<1>1. Timeout(j) \in Threads /\ Caller \in Threads
  BY Zenon DEF Threads
<1>2. \A k \in Jobs, u \in Threads : Owns(u, k) => grp[k].state = "taken"
  BY Zenon DEF OwnerInv, Owns
<1>3. ASSUME CreateGroup(j) PROVE OwnerInv'
  <2>1. \A k \in Jobs : grp'[k].responses = grp[k].responses
    BY <1>3, Zenon DEF CreateGroup, GroupType
  <2>2. \A k \in Jobs : grp'[k].state = IF k = j THEN "running" ELSE grp[k].state
    BY <1>3, Zenon DEF CreateGroup, GroupType
  <2>3. \A u \in Threads : ~Owns(u, j)
    BY <1>2, <1>3, Zenon DEF CreateGroup
  <2>4. \A u \in Threads \ {Timeout(j)} : thr'[u] = thr[u]
    BY <1>1, <1>3, DoesType DEF CreateGroup
  <2>5. thr'[Timeout(j)].pc \in {"idle", "armed"} \/ thr' = thr
    BY <1>1, <1>3, DoesType DEF CreateGroup
  <2>6. \A k \in Jobs : Owns(Timeout(j), k)' => Owns(Timeout(j), k)
    BY <2>5, Zenon DEF Owns
  <2>7. Claims(Timeout(j))'
    <3>1. CASE thr'[Timeout(j)].pc \in {"idle", "armed"}
      BY <3>1, Zenon DEF Claims, Owns
    <3>2. CASE thr' = thr
      <4>1. Claims(Timeout(j)) /\ thr[Timeout(j)].todo \subseteq Jobs
        BY <1>1, Zenon DEF OwnerInv, Claims, ThreadType
      <4>2. sc' = sc
        BY <1>3, Zenon DEF CreateGroup
      <4>3. \A k \in Jobs : Owns(Timeout(j), k)' => grp'[k].state = "taken"
        BY <1>1, <1>2, <2>2, <2>3, <2>6, Zenon
      <4>4. \A k \in Jobs : grp[k].state # "none" => grp'[k].state # "none"
        BY <2>2, Zenon
      <4> QED
        BY <2>1, <3>2, <4>1, <4>2, <4>3, <4>4, Zenon DEF Claims
    <3> QED
      BY <2>5, <3>1, <3>2, Zenon
  <2>8. \A u \in Threads \ {Timeout(j)}, k \in Jobs : Owns(Timeout(j), k)' => ~Owns(u, k)
    BY <1>1, <2>6, Zenon DEF OwnerInv
  <2>9. sc' = sc
    BY <1>3, Zenon DEF CreateGroup
  <2> QED
    BY <1>1, <1>2, <2>1, <2>2, <2>3, <2>4, <2>7, <2>8, <2>9, OwnerStep, Zenon
<1>4. ASSUME TimeoutFires(j) PROVE OwnerInv'
  BY <1>1, <1>4, DoesType, OwnerIdle, ZenonT(30) DEF TimeoutFires
<1>5. ASSUME CallerCancels(j) PROVE OwnerInv'
  BY <1>1, <1>5, DoesType, OwnerIdle, ZenonT(40) DEF CallerCancels
<1>6. ASSUME NEW w \in Workers, RequestJob(j, w) PROVE OwnerInv'
  <2>1. \A k \in Jobs : grp'[k].responses = grp[k].responses
    BY <1>6, Zenon DEF RequestJob, GroupType
  <2>2. \A k \in Jobs : grp'[k].state = grp[k].state
    BY <1>6, Zenon DEF RequestJob, GroupType
  <2>3. thr' = thr /\ sc' = sc
    BY <1>6, Zenon DEF RequestJob
  <2>4. \A u \in Threads, k \in Jobs : Owns(u, k)' <=> Owns(u, k)
    BY <2>3, Zenon DEF Owns
  <2>5. Claims(Caller)' 
    <3>1. Claims(Caller) /\ thr[Caller].todo \subseteq Jobs
      BY <1>1, Zenon DEF OwnerInv, Claims, ThreadType
    <3> QED
      BY <1>1, <2>1, <2>2, <2>3, <2>4, <3>1, Zenon DEF Claims
  <2> QED
    BY <1>1, <1>2, <2>1, <2>2, <2>3, <2>4, <2>5, OwnerStep, Zenon DEF OwnerInv
<1> QED
  BY <1>3, <1>4, <1>5, <1>6, Zenon

(* Calling a handler off changes nothing of what it is doing.              *)
LEMMA OffKeeps ==
  ASSUME run \in [Workers \X Jobs -> RunType], NEW q,
         NEW p \in Workers \X Jobs
  PROVE  /\ [run EXCEPT ![q].off = TRUE][p].pc = run[p].pc
         /\ [run EXCEPT ![q].off = TRUE][p].says = run[p].says
BY Zenon DEF RunType

(* What is delivered to a node gives nobody a group to finish.             *)
LEMMA DeliverOwner ==
  ASSUME Types, OwnerInv, SaysInv, NEW n \in Nodes, Deliver(n)
  PROVE  OwnerInv' /\ SaysInv'
<1> USE DEF Types
<1>1. <<n, "system">> \in Threads /\ <<n, "data">> \in Threads
  BY Zenon DEF Threads, Delivery
<1>2. ASSUME UNCHANGED <<sc, thr, grp>> PROVE OwnerInv'
  BY <1>2, Zenon DEF OwnerInv, Owns
<1>3. ASSUME UNCHANGED run PROVE SaysInv'
  BY <1>3, Zenon DEF SaysInv
<1>4. CASE Route(n)
  BY <1>2, <1>3, <1>4, Zenon DEF Route
<1>5. CASE n \in Workers /\ HandleJobRequest(n)
  <2> DEFINE j == Message(n, "data").job
  <2>1. Message(n, "data") \in Messages /\ Message(n, "data").kind = "request"
    BY <1>5, TakenType DEF HandleJobRequest
  <2>2. <<n, j>> \in Workers \X Jobs
    BY <1>5, <2>1, MessageType, Zenon
  <2>3. run'[<<n, j>>].pc = "waiting"
    BY <1>5, <2>2, Zenon DEF HandleJobRequest
  <2>4. \A p \in Workers \X Jobs : p # <<n, j>> => run'[p] = run[p]
    BY <1>5, Zenon DEF HandleJobRequest
  <2>5. SaysInv'
    BY <2>3, <2>4, Zenon DEF SaysInv
  <2> QED
    BY <1>2, <1>5, <2>5, Zenon DEF HandleJobRequest
<1>6. CASE n \in Workers /\ HandleJobCancel(n)
  <2> DEFINE j == Message(n, "system").job
  <2>1. Message(n, "system") \in Messages /\ Message(n, "system").kind = "cancel"
    BY <1>6, TakenType DEF HandleJobCancel
  <2>2. base[n].active \cap {j} \in SUBSET Jobs
    BY <2>1, MessageType, Zenon
  <2>3. OwnerInv'
    <3>1. Does(<<n, "system">>, "stopping", base[n].active \cap {j}) /\ UNCHANGED <<sc, grp>>
      BY <1>6, Zenon DEF HandleJobCancel
    <3>2. /\ thr'[<<n, "system">>].pc \in {"idle", "stopping"}
          /\ \A u \in Threads \ {<<n, "system">>} : thr'[u] = thr[u]
      BY <1>1, <2>2, <3>1, DoesType
    <3> QED
      BY <1>1, <3>1, <3>2, OwnerIdle, Zenon
  <2>4. \A p \in Workers \X Jobs : run'[p].pc = run[p].pc /\ run'[p].says = run[p].says
    <3>1. run' = run \/ run' = [run EXCEPT ![<<n, j>>].off = TRUE]
      BY <1>6, Zenon DEF HandleJobCancel
    <3>2. CASE run' = run
      BY <3>2, Zenon
    <3>3. CASE run' = [run EXCEPT ![<<n, j>>].off = TRUE]
      BY <3>3, OffKeeps, Zenon
    <3> QED
      BY <3>1, <3>2, <3>3, Zenon
  <2>5. SaysInv'
    BY <2>4, Zenon DEF SaysInv
  <2> QED
    BY <2>3, <2>5, Zenon
<1>7. CASE n \in Workers /\ HandlerStopped(n)
  <2>1. thr[<<n, "system">>].todo \in SUBSET Jobs
    BY <1>1, Zenon DEF ThreadType
  <2>2. OwnerInv'
    BY <1>1, <1>7, <2>1, DoesType, OwnerIdle, Zenon DEF HandlerStopped
  <2> QED
    BY <1>3, <1>7, <2>2, Zenon DEF HandlerStopped
<1>8. ASSUME n = Req, NEW band \in {"system", "data"}, HandleJobResponse(band)
      PROVE  OwnerInv' /\ SaysInv'
  <2> DEFINE m == Message(Req, band)
             t == <<Req, band>>
  <2>1. m \in Messages /\ m.kind \in {"answer", "urgent"}
    BY <1>8, TakenType, Zenon DEF HandleJobResponse
  <2>2. m.job \in Jobs /\ m.from \in Workers
    BY <2>1, MessageType, Zenon
  <2>3. t \in Threads /\ UNCHANGED <<sc, grp, run>>
        /\ \A u \in Threads \ {t} : thr'[u] = thr[u]
    BY <1>1, <1>8, Zenon DEF HandleJobResponse
  <2>4. CASE grp[m.job].state = "running"
    <3>1. thr'[t].pc \in {"error", "record"} /\ thr'[t].todo = {m.job} /\ thr'[t].arg = m.from
      BY <1>8, <2>3, <2>4, Zenon DEF HandleJobResponse
    <3>2. Claims(t)' /\ \A k \in Jobs : ~Owns(t, k)'
      BY <2>2, <2>3, <2>4, <3>1, Zenon DEF Claims, Owns
    <3>3. \A u \in Threads, k \in Jobs : Owns(u, k) => grp'[k].state = "taken"
      BY <2>3, Zenon DEF OwnerInv, Owns
    <3> QED
      BY <1>3, <2>3, <3>2, <3>3, OwnerStep, Zenon
  <2>5. CASE grp[m.job].state # "running"
    <3>1. thr'[t].pc = "idle"
      BY <1>8, <2>3, <2>5, Zenon DEF HandleJobResponse, Idle
    <3> QED
      BY <1>3, <2>3, <3>1, OwnerIdle, Zenon
  <2> QED
    BY <2>4, <2>5, Zenon
<1> QED
  BY <1>4, <1>5, <1>6, <1>7, <1>8, Zenon DEF Deliver

(* A worker that stops owns no group, and makes no handler send.           *)
LEMMA ServesOwner ==
  ASSUME Types, OwnerInv, SaysInv, NEW t \in Serving, Serves(t)
  PROVE  OwnerInv' /\ SaysInv'
<1> USE DEF Types
<1>1. t \in Threads /\ t[1] \in Workers
  BY Zenon DEF Serving, Threads, Delivery, Nodes
<1>2. ASSUME UNCHANGED run PROVE SaysInv'
  BY <1>2, Zenon DEF SaysInv
<1>3. thr[t] \in ThreadType
  BY <1>1, Zenon
<1>4. ASSUME NEW j \in Jobs, thr[t].pc \in {"answer", "canceled"}
      PROVE  /\ Answered(t, j)[t].pc \in {"answer", "canceled", "idle"}
             /\ \A u \in Threads \ {t} : Answered(t, j)[u] = thr[u]
  BY <1>1, <1>3, <1>4, Zenon DEF Answered, Idle, ThreadType
<1>5. CASE Stop(t)
  <2>1. /\ thr'[t].pc = "answer" /\ \A u \in Threads \ {t} : thr'[u] = thr[u]
        /\ UNCHANGED <<sc, grp, run>>
    BY <1>1, <1>5, Zenon DEF Stop
  <2> QED
    BY <1>1, <1>2, <2>1, OwnerIdle, Zenon
<1>6. CASE TakeRunningJobs(t)
  <2>1. /\ thr'[t].pc = "callHandlers" /\ \A u \in Threads \ {t} : thr'[u] = thr[u]
        /\ UNCHANGED <<sc, grp, run>>
    BY <1>1, <1>3, <1>6, Zenon DEF TakeRunningJobs, ThreadType
  <2> QED
    BY <1>1, <1>2, <2>1, OwnerIdle, Zenon
<1>7. CASE Finish(t)
  <2>1. /\ thr'[t].pc \in {"finished", "idle"} /\ \A u \in Threads \ {t} : thr'[u] = thr[u]
        /\ UNCHANGED <<sc, grp, run>>
    BY <1>1, <1>3, <1>7, Zenon DEF Finish, ThreadType, Idle
  <2> QED
    BY <1>1, <1>2, <2>1, OwnerIdle, Zenon
<1>8. ASSUME NEW j \in Jobs, AnswerCanceled(t, j) PROVE OwnerInv' /\ SaysInv'
  <2>1. /\ thr'[t].pc \in {"answer", "canceled", "idle"}
        /\ \A u \in Threads \ {t} : thr'[u] = thr[u]
    BY <1>1, <1>3, <1>4, <1>8, Zenon DEF AnswerCanceled, ThreadType
  <2>2. UNCHANGED <<sc, grp, run>>
    BY <1>8, Zenon DEF AnswerCanceled
  <2> QED
    BY <1>1, <1>2, <2>1, <2>2, OwnerIdle, Zenon
<1>9. ASSUME NEW j \in Jobs, SendCanceled(t, j) PROVE OwnerInv' /\ SaysInv'
  <2>1. /\ thr'[t].pc \in {"answer", "canceled", "idle"}
        /\ \A u \in Threads \ {t} : thr'[u] = thr[u]
        /\ UNCHANGED <<sc, grp, run>>
    BY <1>4, <1>9, Zenon DEF SendCanceled
  <2> QED
    BY <1>1, <1>2, <2>1, OwnerIdle, Zenon
<1>10. ASSUME NEW j \in Jobs, StopHandler(t, j) PROVE OwnerInv' /\ SaysInv'
  <2>1. /\ thr'[t].pc = "callHandlers" /\ \A u \in Threads \ {t} : thr'[u] = thr[u]
        /\ UNCHANGED <<sc, grp>>
    BY <1>1, <1>3, <1>10, Zenon DEF StopHandler, ThreadType
  <2>2. run' = [run EXCEPT ![<<t[1], j>>].off = TRUE]
    BY <1>10, Zenon DEF StopHandler
  <2>3. SaysInv'
    BY <2>2, OffKeeps, Zenon DEF SaysInv
  <2> QED
    BY <1>1, <2>1, <2>3, OwnerIdle, Zenon
<1> QED
  BY <1>5, <1>6, <1>7, <1>8, <1>9, <1>10, Zenon DEF Serves

(* Every step keeps the types and the owners.                              *)
LEMMA NextInv == IInv /\ [Next]_vars => IInv'
<1> SUFFICES ASSUME Types, SaysInv, OwnerInv, [Next]_vars
             PROVE  Types' /\ SaysInv' /\ OwnerInv'
  BY TypesOK, Zenon DEF IInv, Types, TypeOK, Queues, BaseType, RunType, ThreadType, GroupType, Told
<1>1. ASSUME UNCHANGED <<sc, thr, grp>> PROVE OwnerInv'
  BY <1>1, Zenon DEF OwnerInv, Owns
<1>2. ASSUME UNCHANGED run PROVE SaysInv'
  BY <1>2, Zenon DEF SaysInv
<1>3. CASE UNCHANGED vars
  <2>1. Types'
    BY <1>3, Zenon DEF Types, vars
  <2> QED
    BY <1>1, <1>2, <1>3, <2>1, Zenon DEF vars
<1>4. ASSUME NEW j \in Jobs, TimeoutFires(j) \/ CreateGroup(j) \/ CallerCancels(j)
      PROVE  Types' /\ SaysInv' /\ OwnerInv'
  <2>1. UNCHANGED run
    BY <1>4, Zenon DEF TimeoutFires, CreateGroup, CallerCancels
  <2> QED
    BY <1>2, <1>4, <2>1, RequestType, OthersOwner, Zenon
<1>5. ASSUME NEW j \in Jobs, NEW w \in Workers, RequestJob(j, w)
      PROVE  Types' /\ SaysInv' /\ OwnerInv'
  <2>1. UNCHANGED run
    BY <1>5, Zenon DEF RequestJob
  <2> QED
    BY <1>2, <1>5, <2>1, RequestType, OthersOwner, Zenon
<1>6. ASSUME NEW j \in Jobs, NEW w \in Workers, Handler(w, j)
      PROVE  Types' /\ SaysInv' /\ OwnerInv'
  <2>1. UNCHANGED <<sc, thr, grp>>
    BY <1>6, Zenon DEF Handler, StartHandler, HandlerAnswers, HandlerSends, HandlerReturns
  <2> QED
    BY <1>1, <1>6, <2>1, HandlerType, Zenon
<1>7. ASSUME NEW t \in Asking, NEW j \in Jobs, Asked(t, j)
      PROVE  Types' /\ SaysInv' /\ OwnerInv'
  <2>1. UNCHANGED run
    BY <1>7, Zenon DEF Asked, CancelGroup, CallOff, SetResponse, TrackGroupResponse, CompleteGroup
  <2> QED
    BY <1>2, <1>7, <2>1, AskedType, AskedOwner, Zenon
<1>8. ASSUME NEW t \in Serving, Serves(t) PROVE Types' /\ SaysInv' /\ OwnerInv'
  BY <1>8, ServesType, ServesOwner, Zenon
<1>9. ASSUME NEW n \in Nodes, Deliver(n) PROVE Types' /\ SaysInv' /\ OwnerInv'
  BY <1>9, DeliverType, DeliverOwner, Zenon
<1>10. ASSUME NEW s \in sc.stops, AskToStop(s[1], s[2])
       PROVE  Types' /\ SaysInv' /\ OwnerInv'
  <2>1. s[1] \in Workers /\ s[2] \in {"endWorker", "cancelWorker"}
    BY <1>10, ScenarioType, Zenon DEF Types
  <2>2. [kind |-> s[2]] \in Messages /\ s[1] \in Nodes
    BY <2>1, Zenon DEF Messages, Nodes
  <2>3. bus' \in [Nodes -> Queues]
    BY <1>10, <2>2, PutType, Zenon DEF AskToStop, Types
  <2>4. base[s[1]].told \cup {s[2]} \in SUBSET {"endWorker", "cancelWorker"}
    BY <2>1, Zenon DEF Types, BaseType
  <2>5. base' \in [Workers -> BaseType]
    BY <1>10, <2>1, <2>4, BaseTold, Zenon DEF AskToStop, Types
  <2>6. UNCHANGED <<sc, run, thr, grp>>
    BY <1>10, Zenon DEF AskToStop
  <2> QED
    BY <1>1, <1>2, <2>3, <2>5, <2>6, Zenon DEF Types
<1> QED
  BY <1>3, <1>4, <1>5, <1>6, <1>7, <1>8, <1>9, <1>10, Zenon DEF Next, Progress

(* The invariant holds throughout.                                         *)
LEMMA Invariant == Spec => []IInv
<1> QED
  BY InitInv, NextInv, PTL DEF Spec

(* Every variable keeps to its type, the messages in both bands of every   *)
(* queue and the answers filed with a group included (handleJobResponse,   *)
(* SendJobResponse, Stop).                                                 *)
THEOREM TypeCorrect == Spec => []TypeOK
<1>1. IInv => TypeOK
  BY Zenon DEF IInv
<1> QED
  BY <1>1, Invariant, PTL

(* How a group stands for the caller that waits on it.                     *)
Stands(j) == IF grp[j].state = "taken" THEN "running" ELSE grp[j].state

(* The initial states are initial for the groups.                          *)
LEMMA GroupsInit == Init => Groups!Init
<1> SUFFICES ASSUME Init PROVE Groups!Init
  OBVIOUS
<1>1. sc.asked \in [Jobs -> SUBSET Workers]
  BY ScenarioType, Zenon DEF Init
<1> QED
  BY <1>1, Zenon DEF Init, Groups!Init

(* What leaves the groups and the scenario alone is no step of a group.    *)
LEMMA GroupsStutter ==
  ASSUME UNCHANGED <<sc, grp>>
  PROVE  UNCHANGED Groups!vars
BY Zenon DEF Groups!vars

(* A change of how one group stands.                                       *)
LEMMA GroupsMove ==
  ASSUME Types, Types', NEW j \in Jobs, NEW s, sc' = sc, Stands(j)' = s,
         \A k \in Jobs : grp'[k].responses = grp[k].responses,
         \A k \in Jobs \ {j} : grp'[k] = grp[k]
  PROVE  /\ [k \in Jobs |-> Stands(k)]' = [[k \in Jobs |-> Stands(k)] EXCEPT ![j] = s]
         /\ [k \in Jobs |-> grp[k].responses]' = [k \in Jobs |-> grp[k].responses]
BY Zenon DEF Stands

(* What the requester's threads do to a group, the group promises.         *)
LEMMA GroupsAsked ==
  ASSUME Types, Types', OwnerInv, NEW t \in Asking, NEW j \in Jobs, Asked(t, j)
  PROVE  [Groups!Next]_(Groups!vars)
<1>1. t \in Threads
  BY DEF Asking, Threads, Delivery, Nodes
<1>2. grp \in [Jobs -> GroupType] /\ grp[j] \in GroupType
  BY Zenon DEF Types
<1>3. CASE CancelGroup(t, j)
  <2>1. sc' = sc
    BY <1>3, Zenon DEF CancelGroup
  <2>2. CASE grp[j].state = "running"
    <3>1. grp' = [grp EXCEPT ![j].state = "taken"]
      BY <1>3, <2>2, Zenon DEF CancelGroup
    <3>2. /\ \A k \in Jobs : grp'[k].responses = grp[k].responses
          /\ \A k \in Jobs : Stands(k)' = Stands(k)
      BY <1>2, <2>2, <3>1, Zenon DEF Stands, GroupType
    <3> QED
      BY <2>1, <3>2, Zenon DEF Groups!vars, Stands
  <2>3. CASE grp[j].state # "running"
    <3>1. grp' = grp
      BY <1>3, <2>3, Zenon DEF CancelGroup
    <3> QED
      BY <2>1, <3>1, GroupsStutter, Zenon
  <2> QED
    BY <2>2, <2>3, Zenon
<1>4. CASE CallOff(t, j)
  <2>1. sc' = sc /\ grp' = [grp EXCEPT ![j].state = "failed"]
    BY <1>4, Zenon DEF CallOff
  <2>2. grp[j].state = "taken"
    BY <1>1, <1>4, Zenon DEF CallOff, OwnerInv, Owns
  <2>3. /\ Stands(j)' = "failed" /\ Stands(j) = "running"
        /\ \A k \in Jobs : grp'[k].responses = grp[k].responses
        /\ \A k \in Jobs \ {j} : grp'[k] = grp[k]
    BY <1>2, <2>1, <2>2, Zenon DEF Stands, GroupType
  <2>4. Groups!Fail(j)
    BY <2>1, <2>3, GroupsMove, Zenon DEF Groups!Fail, Stands
  <2> QED
    BY <2>4, Zenon DEF Groups!Next
<1>5. CASE SetResponse(t, j)
  <2>1. sc' = sc /\ thr[t].arg \in Workers /\ grp[j].state # "none"
    BY <1>1, <1>5, Zenon DEF SetResponse, OwnerInv
  <2>2. /\ grp'[j].responses = grp[j].responses \cup {thr[t].arg}
        /\ grp'[j].state = grp[j].state
        /\ \A k \in Jobs \ {j} : grp'[k] = grp[k]
    BY <1>2, <1>5, Zenon DEF SetResponse, GroupType
  <2>3. \A k \in Jobs : Stands(k)' = Stands(k)
    BY <2>2, Zenon DEF Stands
  <2>4. [k \in Jobs |-> grp[k].responses]'
          = [[k \in Jobs |-> grp[k].responses] EXCEPT ![j] = @ \cup {thr[t].arg}]
    BY <2>2, Zenon
  <2>5. PICK w \in Workers : w = thr[t].arg
    BY <2>1, Zenon
  <2>6. Groups!Respond(j, w)
    BY <2>1, <2>3, <2>4, <2>5, Zenon DEF Groups!Respond, Stands
  <2> QED
    BY <2>6, Zenon DEF Groups!Next
<1>6. CASE TrackGroupResponse(t, j)
  <2>1. sc' = sc
    BY <1>6, Zenon DEF TrackGroupResponse
  <2>2. CASE grp[j].state = "running" /\ sc.asked[j] \subseteq grp[j].responses
    <3>1. grp' = [grp EXCEPT ![j].state = "taken"]
      BY <1>6, <2>2, Zenon DEF TrackGroupResponse
    <3>2. /\ \A k \in Jobs : grp'[k].responses = grp[k].responses
          /\ \A k \in Jobs : Stands(k)' = Stands(k)
      BY <1>2, <2>2, <3>1, Zenon DEF Stands, GroupType
    <3> QED
      BY <2>1, <3>2, Zenon DEF Groups!vars, Stands
  <2>3. CASE ~(grp[j].state = "running" /\ sc.asked[j] \subseteq grp[j].responses)
    <3>1. grp' = grp
      BY <1>6, <2>3, Zenon DEF TrackGroupResponse
    <3> QED
      BY <2>1, <3>1, GroupsStutter, Zenon
  <2> QED
    BY <2>2, <2>3, Zenon
<1>7. CASE CompleteGroup(t, j)
  <2>1. sc' = sc /\ grp' = [grp EXCEPT ![j].state = "completed", ![j].completed = TRUE]
    BY <1>7, Zenon DEF CompleteGroup
  <2>2. grp[j].state = "taken" /\ sc.asked[j] \subseteq grp[j].responses
    BY <1>1, <1>7, Zenon DEF CompleteGroup, OwnerInv, Owns
  <2>3. /\ Stands(j)' = "completed" /\ Stands(j) = "running"
        /\ \A k \in Jobs : grp'[k].responses = grp[k].responses
        /\ \A k \in Jobs \ {j} : grp'[k] = grp[k]
    BY <1>2, <2>1, <2>2, Zenon DEF Stands, GroupType
  <2>4. Groups!Complete(j)
    BY <2>1, <2>2, <2>3, GroupsMove, Zenon DEF Groups!Complete, Stands
  <2> QED
    BY <2>4, Zenon DEF Groups!Next
<1> QED
  BY <1>3, <1>4, <1>5, <1>6, <1>7, Zenon DEF Asked

(* Every step is a step of one group, or of none.                          *)
LEMMA GroupsNext == IInv /\ IInv' /\ [Next]_vars => [Groups!Next]_(Groups!vars)
<1> SUFFICES ASSUME Types, Types', OwnerInv, [Next]_vars
             PROVE  [Groups!Next]_(Groups!vars)
  BY TypesOK, Zenon DEF IInv, Types, TypeOK, Queues, BaseType, RunType, ThreadType, GroupType, Told
<1>1. CASE UNCHANGED vars
  BY <1>1, GroupsStutter, Zenon DEF vars
<1>2. ASSUME NEW j \in Jobs, TimeoutFires(j) \/ CallerCancels(j)
      PROVE  UNCHANGED <<sc, grp>>
  BY <1>2, Zenon DEF TimeoutFires, CallerCancels
<1>3. ASSUME NEW j \in Jobs, CreateGroup(j) PROVE Groups!Next
  <2>1. /\ sc' = sc /\ grp[j].state = "none"
        /\ grp' = [grp EXCEPT ![j].state = "running", ![j].unsent = sc.asked[j]]
    BY <1>3, Zenon DEF CreateGroup
  <2>2. /\ Stands(j)' = "running" /\ Stands(j) = "none"
        /\ \A k \in Jobs : grp'[k].responses = grp[k].responses
        /\ \A k \in Jobs \ {j} : grp'[k] = grp[k]
    BY <2>1, Zenon DEF Stands, Types, GroupType
  <2>3. Groups!Open(j)
    BY <2>1, <2>2, GroupsMove, Zenon DEF Groups!Open, Stands
  <2> QED
    BY <2>3, Zenon DEF Groups!Next
<1>4. ASSUME NEW j \in Jobs, NEW w \in Workers, RequestJob(j, w)
      PROVE  UNCHANGED Groups!vars
  <2>1. /\ sc' = sc /\ \A k \in Jobs : /\ grp'[k].responses = grp[k].responses
                                       /\ grp'[k].state = grp[k].state
    BY <1>4 DEF RequestJob, Types, GroupType
  <2> QED
    BY <2>1, Zenon DEF Groups!vars
<1>5. ASSUME NEW j \in Jobs, NEW w \in Workers, Handler(w, j) PROVE UNCHANGED <<sc, grp>>
  BY <1>5, Zenon DEF Handler, StartHandler, HandlerAnswers, HandlerSends, HandlerReturns
<1>6. ASSUME NEW t \in Serving, Serves(t) PROVE UNCHANGED <<sc, grp>>
  BY <1>6, Zenon DEF Serves, Stop, TakeRunningJobs, Finish, AnswerCanceled, SendCanceled, StopHandler
<1>7. ASSUME NEW n \in Nodes, Deliver(n) PROVE UNCHANGED <<sc, grp>>
  BY <1>7, Zenon DEF Deliver, Route, HandleJobRequest, HandleJobCancel, HandlerStopped,
              HandleJobResponse
<1>8. ASSUME NEW s \in sc.stops, AskToStop(s[1], s[2]) PROVE UNCHANGED <<sc, grp>>
  BY <1>8, Zenon DEF AskToStop
<1> QED
  BY <1>1, <1>2, <1>3, <1>4, <1>5, <1>6, <1>7, <1>8, GroupsAsked, GroupsStutter, Zenon
  DEF Next, Progress

(* Whatever order the answers, the cancels, the timeouts and the callers   *)
(* come in, the requester does to each group only what JobGroups allows    *)
(* (handleJobResponse, trackGroupResponse, CancelGroup, finish): it is     *)
(* opened once, ends once, and is completed only with the answer of every  *)
(* worker it was asked of.                                                 *)
THEOREM Implementation == Spec => ImplementsGroups
<1> QED
  BY Invariant, GroupsInit, GroupsNext, PTL DEF Spec, ImplementsGroups, Groups!Spec

-----------------------------------------------------------------------------
(* One verdict.                                                            *)

NoUrgent == \A a \in sc.answers : a[1] = "answer"

\* The goroutine that takes the requester's data messages.
Desk == <<Req, "data">>

\* Answers that all travel in one band leave the other one empty ...
OneBand ==
    NoUrgent =>
        /\ bus[Req].system = <<>>
        /\ \A w \in Workers, j \in Jobs :
              run[<<w, j>>].pc = "sending" => run[<<w, j>>].says \in sc.answers

\* ... so one goroutine looks at all of them; and a group it has reported failed
\* is no longer running, or is the next it calls off.
Verdicts ==
    NoUrgent =>
        /\ \A t \in Threads :
              thr[t].pc \in {"error", "record", "track", "complete"} => t = Desk
        /\ \A j \in thr[Desk].todo :
              /\ thr[Desk].todo = {j}
              /\ thr[Desk].pc = "error" => ~grp[j].completed
              /\ thr[Desk].pc = "complete" => ~grp[j].errored
        /\ \A j \in Jobs :
              /\ grp[j].completed => grp[j].state = "completed" /\ ~grp[j].errored
              /\ grp[j].errored =>
                   /\ grp[j].state # "none"
                   /\ grp[j].state = "running" =>
                        thr[Desk].pc = "cancel" /\ j \in thr[Desk].todo

(* What is sent to a worker does not touch the requester's queue.          *)
LEMMA PutElsewhere ==
  ASSUME bus \in [Nodes -> Queues], NEW n \in Nodes \ {Req}, NEW m \in Messages
  PROVE  Put(bus, n, m)[Req] = bus[Req]
BY Zenon DEF Put, Nodes

(* What is sent to the requester as plain data joins its data band.        *)
LEMMA PutData ==
  ASSUME bus \in [Nodes -> Queues], NEW m \in Messages, m.kind = "answer"
  PROVE  Put(bus, Req, m)[Req].system = bus[Req].system
BY Zenon DEF Put, Nodes, System, Queues

(* What is asked for does not change.                                      *)
LEMMA ScenarioFixed == [Next]_vars => sc' = sc
<1> SUFFICES ASSUME [Next]_vars PROVE sc' = sc
  OBVIOUS
<1>1. CASE UNCHANGED vars
  BY <1>1, Zenon DEF vars
<1>2. ASSUME NEW j \in Jobs, TimeoutFires(j) \/ CreateGroup(j) \/ CallerCancels(j)
      PROVE  sc' = sc
  BY <1>2, Zenon DEF TimeoutFires, CreateGroup, CallerCancels
<1>3. ASSUME NEW j \in Jobs, NEW w \in Workers, RequestJob(j, w) \/ Handler(w, j)
      PROVE  sc' = sc
  BY <1>3, Zenon DEF RequestJob, Handler, StartHandler, HandlerSends, HandlerReturns, HandlerAnswers
<1>4. ASSUME NEW t \in Asking, NEW j \in Jobs, Asked(t, j) PROVE sc' = sc
  BY <1>4, Zenon DEF Asked, CancelGroup, CallOff, SetResponse, TrackGroupResponse, CompleteGroup
<1>5. ASSUME NEW t \in Serving, Serves(t) PROVE sc' = sc
  BY <1>5, Zenon DEF Serves, Stop, TakeRunningJobs, Finish, AnswerCanceled, SendCanceled, StopHandler
<1>6. ASSUME NEW n \in Nodes, Deliver(n) PROVE sc' = sc
  BY <1>6, Zenon DEF Deliver, Route, HandleJobRequest, HandleJobCancel, HandlerStopped,
              HandleJobResponse
<1>7. ASSUME NEW s \in sc.stops, AskToStop(s[1], s[2]) PROVE sc' = sc
  BY <1>7, Zenon DEF AskToStop
<1> QED
  BY <1>1, <1>2, <1>3, <1>4, <1>5, <1>6, <1>7, Zenon DEF Next, Progress

(* Nothing is put in the requester's system band but urgent answers.       *)
LEMMA OneBandNext == Types /\ SaysInv /\ OneBand /\ [Next]_vars => OneBand'
<1> SUFFICES ASSUME Types, SaysInv, OneBand, [Next]_vars, NoUrgent', sc' = sc PROVE OneBand'
  BY ScenarioFixed, Zenon DEF OneBand
<1>0. /\ NoUrgent /\ bus[Req].system = <<>> /\ Req \in Nodes
      /\ \A w \in Workers : w \in Nodes \ {Req}
      /\ \A w \in Workers, j \in Jobs :
           run[<<w, j>>].pc = "sending" => run[<<w, j>>].says \in sc.answers
  BY NamesAssumption, Zenon DEF OneBand, NoUrgent, Nodes
<1> DEFINE Quiet == bus'[Req].system = <<>>
           Says == \A w \in Workers, j \in Jobs :
                     run'[<<w, j>>].pc = "sending" => run'[<<w, j>>].says \in sc.answers
<1>1. SUFFICES Quiet /\ Says
  BY Zenon DEF OneBand
<1>2. ASSUME UNCHANGED bus PROVE Quiet
  BY <1>0, <1>2, Zenon
<1>3. ASSUME UNCHANGED run PROVE Says
  BY <1>0, <1>3, Zenon
<1>4. CASE UNCHANGED vars
  BY <1>2, <1>3, <1>4, Zenon DEF vars
<1>5. ASSUME NEW j \in Jobs, TimeoutFires(j) \/ CreateGroup(j) \/ CallerCancels(j)
      PROVE  Quiet /\ Says
  BY <1>2, <1>3, <1>5, Zenon DEF TimeoutFires, CreateGroup, CallerCancels
<1>6. ASSUME NEW j \in Jobs, NEW w \in Workers, RequestJob(j, w) PROVE Quiet /\ Says
  <2>1. [kind |-> "request", job |-> j] \in Messages
    BY Zenon DEF Messages
  <2>2. bus'[Req] = bus[Req]
    BY <1>0, <1>6, <2>1, PutElsewhere, Zenon DEF RequestJob, Types
  <2> QED
    BY <1>0, <1>3, <1>6, <2>2, Zenon DEF RequestJob
<1>7. ASSUME NEW j \in Jobs, NEW w \in Workers, Handler(w, j) PROVE Quiet /\ Says
  <2> DEFINE p == <<w, j>>
  <2>0. p \in Workers \X Jobs /\ run \in [Workers \X Jobs -> RunType]
    BY Zenon DEF Types
  <2>1. CASE StartHandler(w, j)
    <3>1. run' = [run EXCEPT ![p].pc = "running"]
      BY <2>1, Zenon DEF StartHandler
    <3>2. Says
      BY <1>0, <2>0, <3>1
    <3> QED
      BY <1>2, <2>1, <3>2, Zenon DEF StartHandler
  <2>2. ASSUME NEW a \in sc.answers, HandlerAnswers(w, j, a) PROVE Quiet /\ Says
    <3>1. PICK at \in {"sending", "over"} :
            run' = [run EXCEPT ![p].pc = at, ![p].says = a]
      BY <2>2, Zenon DEF HandlerAnswers
    <3>2. Says
      BY <1>0, <2>0, <2>2, <3>1 DEF RunType
    <3> QED
      BY <1>2, <2>2, <3>2, Zenon DEF HandlerAnswers
  <2>3. CASE HandlerSends(w, j)
    <3>1. run[p].says \in Told /\ run[p].says \in sc.answers
      BY <1>0, <2>3, Zenon DEF HandlerSends, SaysInv
    <3>2. run[p].says[1] = "answer" /\ run[p].says[2] \in {"ok", "error"}
      BY <1>0, <3>1, Zenon DEF Told, NoUrgent
    <3>3. PICK m \in Messages :
            m = [kind |-> run[p].says[1], job |-> j, from |-> w, status |-> run[p].says[2]]
      BY <3>2, Zenon DEF Messages, Answers
    <3>4. bus' = Put(bus, Req, m) /\ m.kind = "answer"
      BY <2>3, <3>2, <3>3, Zenon DEF HandlerSends
    <3>5. Quiet
      BY <1>0, <3>4, PutData, Zenon DEF Types
    <3>6. run' = [run EXCEPT ![p].pc = "over"]
      BY <2>3, Zenon DEF HandlerSends
    <3>7. Says
      BY <1>0, <2>0, <3>6
    <3> QED
      BY <3>5, <3>7, Zenon
  <2>4. CASE HandlerReturns(w, j)
    <3>1. run' = [run EXCEPT ![p].pc = "returned"]
      BY <2>4, Zenon DEF HandlerReturns
    <3>2. Says
      BY <1>0, <2>0, <3>1
    <3> QED
      BY <1>2, <2>4, <3>2, Zenon DEF HandlerReturns
  <2> QED
    BY <1>7, <2>1, <2>2, <2>3, <2>4, Zenon DEF Handler
<1>8. ASSUME NEW t \in Asking, NEW j \in Jobs, Asked(t, j) PROVE Quiet /\ Says
  <2>1. UNCHANGED run
    BY <1>8, Zenon DEF Asked, CancelGroup, CallOff, SetResponse, TrackGroupResponse, CompleteGroup
  <2>2. CASE CallOff(t, j)
    <3>1. Req \notin sc.asked[j]
      BY NamesAssumption, ScenarioType, Zenon DEF Types
    <3> QED
      BY <1>0, <1>3, <2>1, <2>2, <3>1, Zenon DEF CallOff
  <2>3. CASE ~CallOff(t, j)
    BY <1>2, <1>3, <1>8, <2>1, <2>3, Zenon
    DEF Asked, CancelGroup, SetResponse, TrackGroupResponse, CompleteGroup
  <2> QED
    BY <2>2, <2>3, Zenon
<1>9. ASSUME NEW t \in Serving, Serves(t) PROVE Quiet /\ Says
  <2>0. t[1] \in Workers /\ t[1] \in Nodes \ {Req}
    BY <1>0, Zenon DEF Serving
  <2>1. CASE Stop(t)
    BY <1>0, <1>3, <2>0, <2>1, Zenon DEF Stop, Taken, Types
  <2>2. CASE TakeRunningJobs(t) \/ Finish(t)
    BY <1>2, <1>3, <2>2, Zenon DEF TakeRunningJobs, Finish
  <2>3. ASSUME NEW j \in Jobs, AnswerCanceled(t, j) PROVE Quiet /\ Says
    BY <1>2, <1>3, <2>3, Zenon DEF AnswerCanceled
  <2>4. ASSUME NEW j \in Jobs, SendCanceled(t, j) PROVE Quiet /\ Says
    <3>1. PICK m \in Messages :
            m = [kind |-> "answer", job |-> j, from |-> t[1], status |-> "canceled"]
      BY <2>0, Zenon DEF Messages, Answers
    <3>2. bus' = Put(bus, Req, m) /\ m.kind = "answer"
      BY <2>4, <3>1, Zenon DEF SendCanceled
    <3> QED
      BY <1>0, <1>3, <2>4, <3>2, PutData, Zenon DEF SendCanceled, Types
  <2>5. ASSUME NEW j \in Jobs, StopHandler(t, j) PROVE Quiet /\ Says
    <3>1. run' = [run EXCEPT ![<<t[1], j>>].off = TRUE] /\ UNCHANGED bus
      BY <2>5, Zenon DEF StopHandler
    <3> QED
      BY <1>0, <1>2, <3>1, OffKeeps, Zenon DEF Types
  <2> QED
    BY <1>9, <2>1, <2>2, <2>3, <2>4, <2>5, Zenon DEF Serves
<1>10. ASSUME NEW n \in Nodes, Deliver(n) PROVE Quiet /\ Says
  <2>1. CASE Route(n)
    BY <1>0, <1>3, <2>1, Zenon DEF Route, Types, Queues
  <2>2. CASE n \in Workers /\ HandleJobRequest(n)
    <3> DEFINE j == Message(n, "data").job
    <3>1. Message(n, "data") \in Messages /\ Message(n, "data").kind = "request"
      BY <2>2, TakenType DEF HandleJobRequest, Types
    <3>2. <<n, j>> \in Workers \X Jobs
      BY <2>2, <3>1, MessageType, Zenon
    <3>3. run'[<<n, j>>].pc = "waiting"
      BY <2>2, <3>2, Zenon DEF HandleJobRequest, Types
    <3>4. \A p \in Workers \X Jobs : p # <<n, j>> => run'[p] = run[p]
      BY <2>2, Zenon DEF HandleJobRequest, Types
    <3>5. Says
      BY <1>0, <3>3, <3>4, Zenon
    <3> QED
      BY <1>0, <2>2, <3>5, Zenon DEF HandleJobRequest, Taken, Types
  <2>3. CASE n \in Workers /\ HandleJobCancel(n)
    <3>1. \A p \in Workers \X Jobs : run'[p].pc = run[p].pc /\ run'[p].says = run[p].says
      <4>1. run' = run \/ run' = [run EXCEPT ![<<n, Message(n, "system").job>>].off = TRUE]
        BY <2>3, Zenon DEF HandleJobCancel
      <4>2. CASE run' = run
        BY <4>2, Zenon
      <4>3. CASE run' = [run EXCEPT ![<<n, Message(n, "system").job>>].off = TRUE]
        BY <4>3, OffKeeps, Zenon DEF Types
      <4> QED
        BY <4>1, <4>2, <4>3, Zenon
    <3>2. Says
      BY <1>0, <3>1, Zenon
    <3> QED
      BY <1>0, <2>3, <3>2, Zenon DEF HandleJobCancel, Taken, Types
  <2>4. CASE n \in Workers /\ HandlerStopped(n)
    BY <1>2, <1>3, <2>4, Zenon DEF HandlerStopped
  <2>5. ASSUME NEW band \in {"system", "data"}, HandleJobResponse(band) PROVE Quiet /\ Says
    <3>1. band = "data"
      BY <1>0, <2>5, Zenon DEF HandleJobResponse, Takes, Waiting
    <3> QED
      BY <1>0, <1>3, <2>5, <3>1, Zenon DEF HandleJobResponse, Taken, Types, Queues
  <2> QED
    BY <1>10, <2>1, <2>2, <2>3, <2>4, <2>5, Zenon DEF Deliver
<1>11. ASSUME NEW s \in sc.stops, AskToStop(s[1], s[2]) PROVE Quiet /\ Says
  <2>1. s[1] \in Workers /\ s[2] \in {"endWorker", "cancelWorker"}
    BY <1>11, ScenarioType, Zenon DEF Types
  <2>2. [kind |-> s[2]] \in Messages
    BY <2>1, Zenon DEF Messages
  <2>3. bus'[Req] = bus[Req]
    BY <1>0, <1>11, <2>1, <2>2, PutElsewhere, Zenon DEF AskToStop, Types
  <2> QED
    BY <1>0, <1>3, <1>11, <2>3, Zenon DEF AskToStop
<1> QED
  BY <1>4, <1>5, <1>6, <1>7, <1>8, <1>9, <1>10, <1>11, Zenon DEF Next, Progress

\* The groups as the verdicts see them.
SameVerdict(j) ==
    /\ grp'[j].state = grp[j].state
    /\ grp'[j].completed = grp[j].completed /\ grp'[j].errored = grp[j].errored

(* A thread other than the desk, which leaves the groups alone and takes up *)
(* none of the desk's work.                                                *)
LEMMA VerdictsAside ==
  ASSUME Verdicts, sc' = sc, NEW t \in Threads \ {Desk},
         \A u \in Threads \ {t} : thr'[u] = thr[u],
         thr'[t].pc \notin {"error", "record", "track", "complete"},
         Types, \A j \in Jobs : SameVerdict(j)
  PROVE  Verdicts'
<1> SUFFICES ASSUME NoUrgent PROVE Verdicts'
  BY Zenon DEF Verdicts, NoUrgent
<1>1. Desk \in Threads /\ thr'[Desk] = thr[Desk] /\ thr[Desk].todo \subseteq Jobs
  BY Zenon DEF Desk, Threads, Delivery, Nodes, Types, ThreadType
<1> QED
  BY <1>1 DEF Verdicts, SameVerdict

(* What the requester's threads do to a group.                             *)
LEMMA VerdictsAsked ==
  ASSUME Types, OwnerInv, Verdicts, NEW t \in Asking, NEW j \in Jobs, Asked(t, j)
  PROVE  Verdicts'
<1>0. sc' = sc /\ t \in Threads /\ Timeout(j) \in Threads /\ Timeout(j) # Desk
  BY DEF Asking, Threads, Delivery, Nodes, Timeout, Desk, Asked, CancelGroup, CallOff,
         SetResponse, TrackGroupResponse, CompleteGroup
<1> SUFFICES ASSUME NoUrgent PROVE Verdicts'
  BY <1>0, Zenon DEF Verdicts, NoUrgent
<1>1. /\ \A u \in Threads :
           thr[u].pc \in {"error", "record", "track", "complete"} => u = Desk
      /\ \A k \in thr[Desk].todo :
              /\ thr[Desk].todo = {k}
              /\ thr[Desk].pc = "error" => ~grp[k].completed
              /\ thr[Desk].pc = "complete" => ~grp[k].errored
      /\ \A k \in Jobs :
              /\ grp[k].completed => grp[k].state = "completed" /\ ~grp[k].errored
              /\ grp[k].errored =>
                   /\ grp[k].state # "none"
                   /\ grp[k].state = "running" =>
                        thr[Desk].pc = "cancel" /\ k \in thr[Desk].todo
  BY Zenon DEF Verdicts
<1>2. /\ Desk \in Threads /\ thr[Desk].todo \subseteq Jobs
      /\ thr \in [Threads -> ThreadType] /\ grp \in [Jobs -> GroupType]
      /\ grp[j] \in GroupType
  BY Zenon DEF Desk, Threads, Delivery, Nodes, Types, ThreadType
<1>3. CASE CancelGroup(t, j) /\ grp[j].state = "running"
  <2>1. /\ grp' = [grp EXCEPT ![j].state = "taken"]
        /\ thr' = [thr EXCEPT ![t] = [pc |-> "callOff", todo |-> {j}, arg |-> NoJob]]
    BY <1>3, Zenon DEF CancelGroup, Does
  <2>2. /\ thr'[t] = [pc |-> "callOff", todo |-> {j}, arg |-> NoJob]
        /\ \A u \in Threads \ {t} : thr'[u] = thr[u]
    BY <1>0, <1>2, <2>1, Zenon
  <2>3. /\ \A k \in Jobs \ {j} : SameVerdict(k)
        /\ grp'[j].state = "taken" /\ grp'[j].completed = grp[j].completed
        /\ grp'[j].errored = grp[j].errored
    BY <1>2, <2>1, Zenon DEF SameVerdict, GroupType
  <2>4. CASE t = Desk
    <3>1. ASSUME NEW k \in Jobs \ {j}, grp[k].errored PROVE grp[k].state # "running"
      BY <1>1, <1>3, <2>4, <3>1, Zenon DEF CancelGroup
    <3> QED
      BY <1>1, <1>2, <1>3, <2>2, <2>3, <2>4, <3>1 DEF Verdicts, SameVerdict
  <2>5. CASE t # Desk
    BY <1>1, <1>2, <1>3, <2>2, <2>3, <2>5 DEF Verdicts, SameVerdict
  <2> QED
    BY <2>4, <2>5, Zenon
<1>4. CASE CancelGroup(t, j) /\ grp[j].state # "running"
  <2>1. thr[t].todo \ {j} \in SUBSET Jobs
    BY <1>0, <1>2, Zenon DEF ThreadType
  <2>2. grp' = grp /\ Does(t, "cancel", thr[t].todo \ {j}) /\ j \in thr[t].todo
    BY <1>4, Zenon DEF CancelGroup
  <2>3. /\ thr'[t].todo = thr[t].todo \ {j} /\ thr'[t].pc \in {"idle", "cancel"}
        /\ \A u \in Threads \ {t} : thr'[u] = thr[u]
    BY <1>0, <1>2, <2>1, <2>2, DoesType, Zenon
  <2>4. CASE t = Desk
    <3>1. thr[t].todo \ {j} = {}
      BY <1>1, <2>2, <2>4, Zenon
    <3>2. \A k \in Jobs : grp[k].errored => grp[k].state # "running"
      BY <1>1, <1>4, <2>2, <2>4, Zenon
    <3> QED
      BY <1>1, <1>2, <2>2, <2>3, <2>4, <3>1, <3>2, Zenon DEF Verdicts
  <2>5. CASE t # Desk
    BY <1>1, <1>2, <2>2, <2>3, <2>5, Zenon DEF Verdicts
  <2> QED
    BY <2>4, <2>5, Zenon
<1>5. CASE CallOff(t, j)
  <2>1. /\ grp' = [grp EXCEPT ![j].state = "failed"] /\ thr[t].pc = "callOff"
        /\ thr' = CancelTimeout(j, [thr EXCEPT ![t] = Idle]) /\ j \in thr[t].todo
    BY <1>5, Zenon DEF CallOff
  <2>2. grp[j].state = "taken"
    BY <1>0, <2>1, Zenon DEF OwnerInv, Owns
  <2>3. /\ thr'[t] = Idle /\ \A u \in Threads \ {t} : thr'[u] = thr[u] \/ thr'[u] = Idle
        /\ t # Desk => thr'[Desk] = thr[Desk]
    BY <1>0, <1>2, <2>1, Zenon DEF CancelTimeout
  <2>4. /\ \A k \in Jobs \ {j} : SameVerdict(k)
        /\ grp'[j].state = "failed" /\ grp'[j].completed = grp[j].completed
        /\ grp'[j].errored = grp[j].errored
    BY <1>2, <2>1, Zenon DEF SameVerdict, GroupType
  <2>5. Idle.pc = "idle" /\ Idle.todo = {}
    BY Zenon DEF Idle
  <2>6. CASE t = Desk
    <3>1. ASSUME NEW k \in Jobs, grp[k].errored PROVE grp[k].state # "running"
      BY <1>1, <2>1, <2>6, <3>1, Zenon
    <3> QED
      BY <1>1, <1>2, <2>2, <2>3, <2>4, <2>5, <2>6, <3>1 DEF Verdicts, SameVerdict
  <2>7. CASE t # Desk
    BY <1>1, <1>2, <2>2, <2>3, <2>4, <2>5, <2>7 DEF Verdicts, SameVerdict
  <2> QED
    BY <2>6, <2>7, Zenon
<1>6. CASE SetResponse(t, j)
  <2>1. t = Desk /\ j \in thr[Desk].todo /\ thr[Desk].pc \in {"error", "record"}
    BY <1>0, <1>1, <1>6, Zenon DEF SetResponse
  <2>2. /\ \A k \in Jobs \ {j} : SameVerdict(k)
        /\ grp'[j].state = grp[j].state /\ grp'[j].completed = grp[j].completed
    BY <1>2, <1>6, Zenon DEF SetResponse, SameVerdict, GroupType
  <2>3. grp'[j].errored <=> grp[j].errored \/ thr[Desk].pc = "error"
    BY <1>2, <1>6, <2>1, Zenon DEF SetResponse, GroupType
  <2>4. /\ thr'[Desk].pc = IF thr[Desk].pc = "error" THEN "cancel" ELSE "track"
        /\ thr'[Desk].todo = {j} /\ \A u \in Threads \ {Desk} : thr'[u] = thr[u]
    BY <1>2, <1>6, <2>1, Zenon DEF SetResponse, Does
  <2>5. grp[j].state # "none"
    BY <1>2, <2>1, Zenon DEF OwnerInv
  <2>6. \A k \in Jobs : grp[k].errored => grp[k].state # "running"
    BY <1>1, <2>1, Zenon
  <2> QED
    BY <1>1, <1>2, <2>1, <2>2, <2>3, <2>4, <2>5, <2>6 DEF Verdicts, SameVerdict
<1>7. CASE TrackGroupResponse(t, j)
  <2>1. t = Desk /\ j \in thr[Desk].todo /\ thr[Desk].pc = "track"
    BY <1>0, <1>1, <1>7, Zenon DEF TrackGroupResponse
  <2>2. \A k \in Jobs : grp[k].errored => grp[k].state # "running"
    BY <1>1, <2>1, Zenon
  <2>3. CASE grp[j].state = "running" /\ sc.asked[j] \subseteq grp[j].responses
    <3>1. /\ grp' = [grp EXCEPT ![j].state = "taken"]
          /\ thr' = [thr EXCEPT ![Desk] = [pc |-> "complete", todo |-> {j}, arg |-> NoJob]]
      BY <1>7, <2>1, <2>3, Zenon DEF TrackGroupResponse, Does
    <3>2. /\ \A k \in Jobs \ {j} : SameVerdict(k)
          /\ grp'[j].state = "taken" /\ grp'[j].completed = grp[j].completed
          /\ grp'[j].errored = grp[j].errored
      BY <1>2, <3>1, Zenon DEF SameVerdict, GroupType
    <3>3. /\ thr'[Desk].pc = "complete" /\ thr'[Desk].todo = {j}
          /\ \A u \in Threads \ {Desk} : thr'[u] = thr[u]
      BY <1>2, <3>1, Zenon
    <3> QED
      BY <1>1, <1>2, <2>2, <2>3, <3>2, <3>3 DEF Verdicts, SameVerdict
  <2>4. CASE ~(grp[j].state = "running" /\ sc.asked[j] \subseteq grp[j].responses)
    <3>1. grp' = grp /\ thr' = [thr EXCEPT ![Desk] = Idle]
      BY <1>7, <2>1, <2>4, Zenon DEF TrackGroupResponse, Does
    <3>2. /\ thr'[Desk].pc = "idle" /\ thr'[Desk].todo = {}
          /\ \A u \in Threads \ {Desk} : thr'[u] = thr[u]
      BY <1>2, <3>1, Zenon DEF Idle
    <3> QED
      BY <1>1, <1>2, <2>2, <3>1, <3>2, Zenon DEF Verdicts
  <2> QED
    BY <2>3, <2>4, Zenon
<1>8. CASE CompleteGroup(t, j)
  <2>1. t = Desk /\ j \in thr[Desk].todo /\ thr[Desk].pc = "complete"
    BY <1>0, <1>1, <1>8, Zenon DEF CompleteGroup
  <2>2. \A k \in Jobs : grp[k].errored => grp[k].state # "running"
    BY <1>1, <2>1, Zenon
  <2>3. /\ grp' = [grp EXCEPT ![j].state = "completed", ![j].completed = TRUE]
        /\ thr' = CancelTimeout(j, [thr EXCEPT ![t] = Idle])
    BY <1>8, Zenon DEF CompleteGroup
  <2>4. /\ \A k \in Jobs \ {j} : SameVerdict(k)
        /\ grp'[j].state = "completed" /\ grp'[j].errored = grp[j].errored
    BY <1>2, <2>3, Zenon DEF SameVerdict, GroupType
  <2>5. /\ thr'[t] = Idle /\ \A u \in Threads \ {t} : thr'[u] = thr[u] \/ thr'[u] = Idle
    BY <1>0, <1>2, <2>3, Zenon DEF CancelTimeout
  <2>6. Idle.pc = "idle" /\ Idle.todo = {}
    BY Zenon DEF Idle
  <2> QED
    BY <1>1, <1>2, <2>1, <2>2, <2>4, <2>5, <2>6 DEF Verdicts, SameVerdict
<1> QED
  BY <1>3, <1>4, <1>5, <1>6, <1>7, <1>8, Zenon DEF Asked

(* What is delivered to the requester is seen to by the desk.              *)
LEMMA VerdictsDeliver ==
  ASSUME Types, OwnerInv, OneBand, Verdicts, NEW n \in Nodes, Deliver(n)
  PROVE  Verdicts'
<1> USE DEF Types
<1>0. UNCHANGED <<sc, grp>> /\ \A j \in Jobs : SameVerdict(j)
  BY Zenon DEF Deliver, Route, HandleJobRequest, HandleJobCancel, HandlerStopped, HandleJobResponse,
         SameVerdict
<1>1. ASSUME n \in Workers PROVE <<n, "system">> \in Threads \ {Desk}
  BY Zenon DEF Threads, Delivery, Desk
<1>2. CASE UNCHANGED thr
  BY <1>0, <1>2, Zenon DEF Verdicts, NoUrgent
<1>3. CASE n \in Workers /\ HandleJobCancel(n)
  <2> DEFINE j == Message(n, "system").job
  <2>1. Message(n, "system") \in Messages /\ Message(n, "system").kind = "cancel"
    BY <1>3, TakenType DEF HandleJobCancel
  <2>2. base[n].active \cap {j} \in SUBSET Jobs
    BY <2>1, MessageType, Zenon
  <2>3. Does(<<n, "system">>, "stopping", base[n].active \cap {j})
    BY <1>3, Zenon DEF HandleJobCancel
  <2>4. /\ thr'[<<n, "system">>].pc \in {"idle", "stopping"}
        /\ \A u \in Threads \ {<<n, "system">>} : thr'[u] = thr[u]
    BY <1>1, <1>3, <2>2, <2>3, DoesType
  <2> QED
    BY <1>0, <1>1, <1>3, <2>4, VerdictsAside, Zenon
<1>4. CASE n \in Workers /\ HandlerStopped(n)
  <2>1. thr[<<n, "system">>].todo \in SUBSET Jobs
    BY <1>1, <1>4, Zenon DEF ThreadType
  <2>2. /\ thr'[<<n, "system">>].pc \in {"idle", "canceled"}
        /\ \A u \in Threads \ {<<n, "system">>} : thr'[u] = thr[u]
    BY <1>1, <1>4, <2>1, DoesType, Zenon DEF HandlerStopped
  <2> QED
    BY <1>0, <1>1, <1>4, <2>2, VerdictsAside, Zenon
<1>5. ASSUME NEW band \in {"system", "data"}, HandleJobResponse(band), n = Req PROVE Verdicts'
  <2> SUFFICES ASSUME NoUrgent PROVE Verdicts'
    BY <1>0, Zenon DEF Verdicts, NoUrgent
  <2>1. band = "data"
    BY <1>5, Zenon DEF OneBand, HandleJobResponse, Takes, Waiting
  <2> DEFINE m == Message(Req, band)
  <2>2. m \in Messages /\ m.kind \in {"answer", "urgent"}
    BY <1>5, TakenType, Zenon DEF HandleJobResponse
  <2>3. m.job \in Jobs
    BY <2>2, MessageType, Zenon
  <2>4. Desk \in Threads /\ thr[Desk].pc = "idle"
        /\ \A u \in Threads \ {Desk} : thr'[u] = thr[u]
    BY <1>5, <2>1, Zenon DEF HandleJobResponse, Desk, Takes, Threads, Delivery
  <2>5. \A k \in Jobs : grp[k].errored => grp[k].state # "running"
    BY <2>4, Zenon DEF Verdicts
  <2>6. CASE grp[m.job].state = "running"
    <3>1. thr'[Desk].pc \in {"error", "record"} /\ thr'[Desk].todo = {m.job}
      BY <1>5, <2>1, <2>4, <2>6, Zenon DEF HandleJobResponse, Desk
    <3>2. ~grp[m.job].completed
      BY <2>3, <2>6, Zenon DEF Verdicts
    <3> QED
      BY <1>0, <2>4, <2>5, <3>1, <3>2, Zenon DEF Verdicts
  <2>7. CASE grp[m.job].state # "running"
    <3>1. thr'[Desk].pc = "idle" /\ thr'[Desk].todo = {}
      BY <1>5, <2>1, <2>4, <2>7, Zenon DEF HandleJobResponse, Desk, Idle
    <3> QED
      BY <1>0, <2>4, <2>5, <3>1, Zenon DEF Verdicts
  <2> QED
    BY <2>6, <2>7, Zenon
<1> QED
  BY <1>2, <1>3, <1>4, <1>5, Zenon DEF Deliver, Route, HandleJobRequest

(* A worker that stops gives no verdict.                                   *)
LEMMA VerdictsServes ==
  ASSUME Types, Verdicts, NEW t \in Serving, Serves(t)
  PROVE  Verdicts'
<1> USE DEF Types
<1>1. t \in Threads \ {Desk} /\ thr[t] \in ThreadType
  BY NamesAssumption DEF Serving, Threads, Delivery, Nodes, Desk
<1>2. UNCHANGED <<sc, grp>> /\ \A j \in Jobs : SameVerdict(j)
  BY Zenon DEF Serves, Stop, TakeRunningJobs, Finish, AnswerCanceled, SendCanceled, StopHandler,
         SameVerdict
<1>3. ASSUME NEW j \in Jobs, thr[t].pc \in {"answer", "canceled"}
      PROVE  /\ Answered(t, j)[t].pc \in {"answer", "canceled", "idle"}
             /\ \A u \in Threads \ {t} : Answered(t, j)[u] = thr[u]
  BY <1>1, <1>3, Zenon DEF Answered, Idle, ThreadType
<1>4. /\ \A u \in Threads \ {t} : thr'[u] = thr[u]
      /\ thr'[t].pc \in {"answer", "canceled", "idle", "callHandlers", "finished"}
  <2>1. CASE Stop(t)
    BY <1>1, <2>1, Zenon DEF Stop
  <2>2. CASE TakeRunningJobs(t)
    BY <1>1, <2>2, Zenon DEF TakeRunningJobs, ThreadType
  <2>3. CASE Finish(t)
    BY <1>1, <2>3, Zenon DEF Finish, ThreadType, Idle
  <2>4. ASSUME NEW j \in Jobs, AnswerCanceled(t, j)
        PROVE  /\ \A u \in Threads \ {t} : thr'[u] = thr[u]
               /\ thr'[t].pc \in {"answer", "canceled", "idle"}
    BY <1>1, <1>3, <2>4, Zenon DEF AnswerCanceled, ThreadType
  <2>5. ASSUME NEW j \in Jobs, SendCanceled(t, j)
        PROVE  /\ \A u \in Threads \ {t} : thr'[u] = thr[u]
               /\ thr'[t].pc \in {"answer", "canceled", "idle"}
    BY <1>3, <2>5, Zenon DEF SendCanceled
  <2>6. ASSUME NEW j \in Jobs, StopHandler(t, j)
        PROVE  thr'[t].pc = "callHandlers" /\ \A u \in Threads \ {t} : thr'[u] = thr[u]
    BY <1>1, <2>6, Zenon DEF StopHandler, ThreadType
  <2> QED
    BY <2>1, <2>2, <2>3, <2>4, <2>5, <2>6, Zenon DEF Serves
<1> QED
  BY <1>1, <1>2, <1>4, VerdictsAside, Zenon

(* Opening a group, and asking for one to be called off, give none either. *)
LEMMA VerdictsOthers ==
  ASSUME Types, Verdicts, NEW j \in Jobs
  PROVE  /\ CreateGroup(j) \/ TimeoutFires(j) \/ CallerCancels(j) => Verdicts'
         /\ \A w \in Workers : RequestJob(j, w) => Verdicts'
<1> USE DEF Types
<1>1. Timeout(j) \in Threads \ {Desk} /\ Caller \in Threads \ {Desk} /\ Desk \in Threads
  BY Zenon DEF Threads, Timeout, Caller, Desk, Delivery, Nodes
<1>2. thr[Desk].todo \subseteq Jobs
  BY <1>1, Zenon DEF ThreadType
<1>3. ASSUME CreateGroup(j) PROVE Verdicts'
  <2>1. /\ \A k \in Jobs \ {j} : SameVerdict(k)
        /\ grp'[j].state = "running" /\ grp'[j].completed = grp[j].completed
        /\ grp'[j].errored = grp[j].errored /\ grp[j].state = "none" /\ sc' = sc
    BY <1>3, Zenon DEF CreateGroup, SameVerdict, GroupType
  <2>2. \A u \in Threads \ {Timeout(j)} : thr'[u] = thr[u]
    BY <1>1, <1>3, DoesType DEF CreateGroup
  <2>3. thr'[Timeout(j)].pc \in {"idle", "armed"} \/ thr' = thr
    BY <1>1, <1>3, DoesType DEF CreateGroup
  <2> QED
    BY <1>1, <1>2, <2>1, <2>2, <2>3 DEF Verdicts, NoUrgent, SameVerdict
<1>4. ASSUME TimeoutFires(j) PROVE Verdicts'
  BY <1>1, <1>4, DoesType, VerdictsAside DEF TimeoutFires, SameVerdict
<1>5. ASSUME CallerCancels(j) PROVE Verdicts'
  BY <1>1, <1>5, DoesType, VerdictsAside DEF CallerCancels, SameVerdict
<1>6. ASSUME NEW w \in Workers, RequestJob(j, w) PROVE Verdicts'
  <2>1. \A k \in Jobs : SameVerdict(k)
    BY <1>6, Zenon DEF RequestJob, SameVerdict, GroupType
  <2>2. thr' = thr /\ sc' = sc
    BY <1>6, Zenon DEF RequestJob
  <2> QED
    BY <1>2, <2>1, <2>2, ZenonT(30) DEF Verdicts, NoUrgent, SameVerdict
<1> QED
  BY <1>3, <1>4, <1>5, <1>6, Zenon

(* Every step keeps to one verdict.                                        *)
LEMMA VerdictsNext == IInv /\ OneBand /\ Verdicts /\ [Next]_vars => Verdicts'
<1> SUFFICES ASSUME Types, OwnerInv, OneBand, Verdicts, [Next]_vars PROVE Verdicts'
  BY TypesOK, Zenon DEF IInv
<1>1. ASSUME UNCHANGED <<sc, thr, grp>> PROVE Verdicts'
  BY <1>1, Zenon DEF Verdicts, NoUrgent
<1>2. CASE UNCHANGED vars
  BY <1>1, <1>2, Zenon DEF vars
<1>3. ASSUME NEW j \in Jobs, NEW w \in Workers, Handler(w, j) PROVE Verdicts'
  BY <1>1, <1>3, Zenon DEF Handler, StartHandler, HandlerAnswers, HandlerSends, HandlerReturns
<1>4. ASSUME NEW s \in sc.stops, AskToStop(s[1], s[2]) PROVE Verdicts'
  BY <1>1, <1>4, Zenon DEF AskToStop
<1> QED
  BY <1>2, <1>3, <1>4, VerdictsOthers, VerdictsAsked, VerdictsServes, VerdictsDeliver, Zenon
  DEF Next, Progress

(* The first state has no verdict.                                         *)
LEMMA VerdictsInit == Init => OneBand /\ Verdicts
<1> SUFFICES ASSUME Init PROVE OneBand /\ Verdicts
  OBVIOUS
<1>1. Desk \in Threads /\ Req \in Nodes
  BY Zenon DEF Desk, Threads, Delivery, Nodes
<1>2. OneBand
  BY <1>1, Zenon DEF Init, OneBand
<1>3. Verdicts
  BY <1>1, Zenon DEF Init, Verdicts, Idle
<1> QED
  BY <1>2, <1>3, Zenon

(* jobs.go, OnJobError: "so OnJobCompleted will not fire".  However many    *)
(* groups, workers, timeouts and callers there are, no group is reported   *)
(* both failed and completed while answers travel in one band of the bus.  *)
THEOREM NoSecondVerdict == Spec => []OneVerdict
<1>1. Verdicts => OneVerdict
  BY Zenon DEF Verdicts, OneVerdict, NoUrgent
<1>2. IInv /\ OneBand /\ Verdicts /\ [Next]_vars => OneBand' /\ Verdicts'
  BY OneBandNext, VerdictsNext, TypesOK, Zenon DEF IInv
<1> QED
  BY <1>1, <1>2, VerdictsInit, Invariant, PTL DEF Spec

-----------------------------------------------------------------------------
(* One request at a time.                                                  *)

Ask(j) == [kind |-> "request", job |-> j]
Carries(s, m) == \E i \in 1..Len(s) : s[i] = m
Once(s, m) == \A i, k \in 1..Len(s) : s[i] = m /\ s[k] = m => i = k

\* A job is asked of a worker once: it is to be sent, or on its way, or has come.
AskedOnce(w, j) ==
    /\ Once(bus[w].data, Ask(j)) /\ Once(bus[w].routed, Ask(j))
    /\ Carries(bus[w].data, Ask(j)) => ~Carries(bus[w].routed, Ask(j))
    /\ Carries(bus[w].data, Ask(j)) \/ Carries(bus[w].routed, Ask(j)) =>
         w \notin grp[j].unsent /\ run[<<w, j>>].pc = "none" /\ grp[j].state # "none"
    /\ w \in grp[j].unsent => run[<<w, j>>].pc = "none" /\ grp[j].state # "none"
    /\ run[<<w, j>>].pc # "none" => grp[j].state # "none"
OnceInv == \A w \in Workers, j \in Jobs : AskedOnce(w, j)

\* Only what has come is called off.
KnownInv ==
    /\ \A w \in Workers : \A j \in base[w].handlers : run[<<w, j>>].pc # "none"
    /\ \A w \in Workers, j \in Jobs : run[<<w, j>>].off => run[<<w, j>>].pc # "none"
    /\ \A t \in Serving : thr[t].pc = "callHandlers" =>
         \A j \in thr[t].todo : run[<<t[1], j>>].pc # "none"

Come(w) == {j \in Jobs : run[<<w, j>>].pc # "none"}

\* The order in which the requests of a worker came: b gives what came before
\* each of them, which is the one it waits for and what came before that; one
\* that is past its wait finds all of it returned.
InOrder(w, b) ==
    /\ base[w].turn = NoJob => Come(w) = {}
    /\ base[w].turn # NoJob =>
         base[w].turn \in Come(w) /\ Come(w) = b[base[w].turn] \cup {base[w].turn}
    /\ \A j \in Come(w) :
         /\ b[j] \subseteq Come(w) /\ j \notin b[j]
         /\ run[<<w, j>>].wait = NoJob => b[j] = {}
         /\ run[<<w, j>>].wait # NoJob =>
              /\ run[<<w, j>>].wait \in Come(w)
              /\ b[j] = b[run[<<w, j>>].wait] \cup {run[<<w, j>>].wait}
         /\ run[<<w, j>>].pc # "waiting" => \A k \in b[j] : run[<<w, k>>].pc = "returned"
    /\ \A j, k \in Come(w) : j = k \/ j \in b[k] \/ k \in b[j]

NoneOff(w) == \A j \in Jobs : ~run[<<w, j>>].off
TurnInv ==
    \A w \in Workers : sc.sequential /\ NoneOff(w) =>
        \E b \in [Jobs -> SUBSET Jobs] : InOrder(w, b)

(* A step that no request comes in with, and that moves no handler.        *)
LEMMA RunKept ==
  ASSUME Types, [Next]_vars,
         \A w \in Workers : ~HandleJobRequest(w),
         \A w \in Workers, j \in Jobs : ~Handler(w, j)
  PROVE  /\ \A p \in Workers \X Jobs :
              /\ run'[p].pc = run[p].pc /\ run'[p].wait = run[p].wait
              /\ run[p].off => run'[p].off
         /\ \A w \in Workers : base'[w].turn = base[w].turn
<1> DEFINE Kept == /\ \A p \in Workers \X Jobs :
                        /\ run'[p].pc = run[p].pc /\ run'[p].wait = run[p].wait
                        /\ run[p].off => run'[p].off
                   /\ \A w \in Workers : base'[w].turn = base[w].turn
<1> SUFFICES Kept
  OBVIOUS
<1>1. ASSUME UNCHANGED <<run, base>> PROVE Kept
  BY <1>1, Zenon
<1>2. ASSUME NEW q, NEW p \in Workers \X Jobs
      PROVE  /\ [run EXCEPT ![q].off = TRUE][p].pc = run[p].pc
             /\ [run EXCEPT ![q].off = TRUE][p].wait = run[p].wait
             /\ run[p].off => [run EXCEPT ![q].off = TRUE][p].off
  BY DEF RunType
<1>3. CASE UNCHANGED vars
  BY <1>1, <1>3, Zenon DEF vars
<1>4. ASSUME NEW j \in Jobs, TimeoutFires(j) \/ CreateGroup(j) \/ CallerCancels(j) PROVE Kept
  BY <1>1, <1>4, Zenon DEF TimeoutFires, CreateGroup, CallerCancels
<1>5. ASSUME NEW j \in Jobs, NEW w \in Workers, RequestJob(j, w) PROVE Kept
  BY <1>1, <1>5, Zenon DEF RequestJob
<1>6. ASSUME NEW t \in Asking, NEW j \in Jobs, Asked(t, j) PROVE Kept
  BY <1>1, <1>6, Zenon DEF Asked, CancelGroup, CallOff, SetResponse, TrackGroupResponse, CompleteGroup
<1>7. ASSUME NEW t \in Serving, Serves(t) PROVE Kept
  <2>0. t[1] \in Workers
    BY Zenon DEF Serving
  <2>1. CASE Stop(t)
    BY <1>1, <2>1, Zenon DEF Stop
  <2>2. CASE TakeRunningJobs(t)
    BY <2>0, <2>2 DEF TakeRunningJobs, BaseType
  <2>3. CASE Finish(t)
    BY <2>0, <2>3 DEF Finish, BaseType
  <2>4. ASSUME NEW j \in Jobs, AnswerCanceled(t, j) PROVE Kept
    BY <1>1, <2>4, Zenon DEF AnswerCanceled
  <2>5. ASSUME NEW j \in Jobs, SendCanceled(t, j) PROVE Kept
    BY <2>0, <2>5 DEF SendCanceled, BaseType
  <2>6. ASSUME NEW j \in Jobs, StopHandler(t, j) PROVE Kept
    <3>1. run' = [run EXCEPT ![<<t[1], j>>].off = TRUE] /\ UNCHANGED base
      BY <2>6, Zenon DEF StopHandler
    <3> QED
      BY <1>2, <3>1, ZenonT(40)
  <2> QED
    BY <1>7, <2>1, <2>2, <2>3, <2>4, <2>5, <2>6, Zenon DEF Serves
<1>8. ASSUME NEW n \in Nodes, Deliver(n) PROVE Kept
  <2>1. CASE n \in Workers /\ HandleJobCancel(n)
    <3>1. run' = run \/ run' = [run EXCEPT ![<<n, Message(n, "system").job>>].off = TRUE]
      BY <2>1, Zenon DEF HandleJobCancel
    <3>2. UNCHANGED base
      BY <2>1, Zenon DEF HandleJobCancel
    <3>3. CASE run' = run
      BY <1>1, <3>2, <3>3, Zenon
    <3>4. CASE run' = [run EXCEPT ![<<n, Message(n, "system").job>>].off = TRUE]
      BY <1>2, <3>2, <3>4, ZenonT(40)
    <3> QED
      BY <3>1, <3>3, <3>4, Zenon
  <2>2. CASE ~(n \in Workers /\ HandleJobCancel(n))
    BY <1>1, <1>8, <2>2, Zenon DEF Deliver, Route, HandlerStopped, HandleJobResponse
  <2> QED
    BY <2>1, <2>2, Zenon
<1>9. ASSUME NEW s \in sc.stops, AskToStop(s[1], s[2]) PROVE Kept
  <2>1. s[1] \in Workers
    BY <1>9, ScenarioType, Zenon DEF Types
  <2> QED
    BY <1>9, <2>1 DEF AskToStop, BaseType
<1> QED
  BY <1>3, <1>4, <1>5, <1>6, <1>7, <1>8, <1>9, Zenon DEF Next, Progress

(* What a request that comes in does to the handlers.                      *)
LEMMA RequestComes ==
  ASSUME Types, OnceInv, NEW w \in Workers, HandleJobRequest(w)
  PROVE  \E j \in Jobs :
           /\ Message(w, "data") = Ask(j) /\ run[<<w, j>>].pc = "none"
           /\ run'[<<w, j>>].pc = "waiting" /\ ~run'[<<w, j>>].off
           /\ sc.sequential => run'[<<w, j>>].wait = base[w].turn /\ base'[w].turn = j
           /\ \A p \in Workers \X Jobs : p # <<w, j>> => run'[p] = run[p]
           /\ \A v \in Workers : v # w => base'[v] = base[v]
           /\ base'[w].handlers = base[w].handlers \cup {j}
<1> DEFINE j == Message(w, "data").job
<1>1. /\ Message(w, "data") \in Messages /\ Message(w, "data").kind = "request"
      /\ bus[w].routed # <<>> /\ Message(w, "data") = Head(bus[w].routed)
  BY TakenType, Zenon DEF Types, HandleJobRequest, Nodes, Takes, Waiting, Message
<1>2. j \in Jobs
  BY <1>1, MessageType, Zenon
<1>3. Message(w, "data") = Ask(j)
  BY <1>1, Zenon DEF Messages, Answers, Ask
<1>4. Carries(bus[w].routed, Ask(j))
  <2>1. bus[w].routed \in Seq(Messages)
    BY Zenon DEF Types, Queues, Nodes
  <2>2. 1 \in 1..Len(bus[w].routed) /\ bus[w].routed[1] = Head(bus[w].routed)
    BY <1>1, <2>1
  <2> QED
    BY <1>1, <1>3, <2>2, Zenon DEF Carries
<1>5. run[<<w, j>>].pc = "none"
  BY <1>2, <1>4, Zenon DEF OnceInv, AskedOnce
<1>6. /\ run' = [run EXCEPT ![<<w, j>>] =
                 [pc |-> "waiting", off |-> FALSE, says |-> NoJob,
                  wait |-> IF sc.sequential THEN base[w].turn ELSE NoJob]]
      /\ base' = [base EXCEPT ![w].active = @ \cup {j}, ![w].handlers = @ \cup {j},
                              ![w].turn = IF sc.sequential THEN j ELSE @]
  BY Zenon DEF HandleJobRequest
<1>7. <<w, j>> \in Workers \X Jobs
  BY <1>2, Zenon
<1>8. /\ run'[<<w, j>>] = [pc |-> "waiting", off |-> FALSE, says |-> NoJob,
                           wait |-> IF sc.sequential THEN base[w].turn ELSE NoJob]
      /\ \A p \in Workers \X Jobs : p # <<w, j>> => run'[p] = run[p]
  BY <1>6, <1>7, Zenon DEF Types
<1>9. /\ base'[w].handlers = base[w].handlers \cup {j}
      /\ base'[w].turn = IF sc.sequential THEN j ELSE base[w].turn
      /\ \A v \in Workers : v # w => base'[v] = base[v]
  BY <1>6, Zenon DEF Types, BaseType
<1>10. /\ run'[<<w, j>>].pc = "waiting" /\ ~run'[<<w, j>>].off
       /\ sc.sequential => run'[<<w, j>>].wait = base[w].turn /\ base'[w].turn = j
  BY <1>8, <1>9
<1> HIDE DEF j
<1> QED
  BY <1>2, <1>3, <1>5, <1>8, <1>9, <1>10, Zenon

(* What the goroutine of a handler does to the handlers.                   *)
LEMMA HandlerMoves ==
  ASSUME Types, NEW w \in Workers, NEW j \in Jobs, Handler(w, j)
  PROVE  /\ \A p \in Workers \X Jobs : p # <<w, j>> => run'[p] = run[p]
         /\ run'[<<w, j>>].wait = run[<<w, j>>].wait
         /\ run'[<<w, j>>].off = run[<<w, j>>].off
         /\ run[<<w, j>>].pc \notin {"none", "returned"}
         /\ run'[<<w, j>>].pc \in {"running", "sending", "over", "returned"}
         /\ run[<<w, j>>].pc = "waiting" =>
              Released(w, run[<<w, j>>].wait) \/ run[<<w, j>>].off
         /\ \A v \in Workers : /\ base'[v].turn = base[v].turn
                               /\ base'[v].handlers \subseteq base[v].handlers
<1> DEFINE p == <<w, j>>
<1>0. p \in Workers \X Jobs
  OBVIOUS
<1>1. CASE StartHandler(w, j)
  <2>1. run' = [run EXCEPT ![p].pc = "running"] /\ UNCHANGED base
    BY <1>1, Zenon DEF StartHandler
  <2> QED
    BY <1>0, <1>1, <2>1, ZenonT(30) DEF Types, StartHandler, RunType
<1>2. ASSUME NEW a \in sc.answers, HandlerAnswers(w, j, a)
      PROVE  \E at \in {"sending", "over"} :
                run' = [run EXCEPT ![p].pc = at, ![p].says = a] /\ UNCHANGED base
  BY <1>2, Zenon DEF HandlerAnswers
<1>3. ASSUME NEW a \in sc.answers, HandlerAnswers(w, j, a)
      PROVE  /\ \A q \in Workers \X Jobs : q # p => run'[q] = run[q]
             /\ run'[p].wait = run[p].wait /\ run'[p].off = run[p].off
             /\ run[p].pc = "running" /\ run'[p].pc \in {"sending", "over"} /\ UNCHANGED base
  <2>1. PICK at \in {"sending", "over"} :
                run' = [run EXCEPT ![p].pc = at, ![p].says = a] /\ UNCHANGED base
    BY <1>2, <1>3, Zenon
  <2> QED
    BY <1>0, <1>3, <2>1 DEF Types, HandlerAnswers, RunType
<1>4. CASE HandlerSends(w, j)
  <2>1. /\ run' = [run EXCEPT ![p].pc = "over"] /\ run[p].pc = "sending"
        /\ base' = [base EXCEPT ![w].active = @ \ {j}]
    BY <1>4, Zenon DEF HandlerSends
  <2>2. \A v \in Workers : /\ base'[v].turn = base[v].turn
                           /\ base'[v].handlers = base[v].handlers
    BY <2>1 DEF BaseType
  <2> QED
    BY <1>0, <2>1, <2>2 DEF RunType
<1>5. CASE HandlerReturns(w, j)
  <2>1. /\ run' = [run EXCEPT ![p].pc = "returned"]
        /\ base' = [base EXCEPT ![w].handlers = @ \ {j}]
    BY <1>5, Zenon DEF HandlerReturns
  <2>2. \A v \in Workers : /\ base'[v].turn = base[v].turn
                           /\ base'[v].handlers \subseteq base[v].handlers
    BY <2>1 DEF BaseType
  <2>3. run[p].pc \in {"over", "running", "waiting"} /\ (run[p].pc = "waiting" => run[p].off)
    BY <1>5, Zenon DEF HandlerReturns
  <2> QED
    BY <1>0, <2>1, <2>2, <2>3 DEF Types, RunType
<1> QED
  BY <1>1, <1>3, <1>4, <1>5, Zenon DEF Handler

(* A step that brings no request to w keeps its order where the handlers   *)
(* that are done waiting still have only returned ones before them.        *)
LEMMA InOrderKept ==
  ASSUME NEW w \in Workers, NEW b \in [Jobs -> SUBSET Jobs], InOrder(w, b),
         base'[w].turn = base[w].turn, Come(w)' = Come(w),
         \A k \in Jobs : run'[<<w, k>>].wait = run[<<w, k>>].wait,
         \A k \in Come(w) : run'[<<w, k>>].pc # "waiting" =>
             \A i \in b[k] : run'[<<w, i>>].pc = "returned"
  PROVE  InOrder(w, b)'
<1>1. \A k \in Come(w) : run'[<<w, k>>].wait = run[<<w, k>>].wait
  BY Zenon DEF Come
<1>2. \A k \in Come(w) :
         /\ b[k] \subseteq Come(w)' /\ k \notin b[k]
         /\ run'[<<w, k>>].wait = NoJob => b[k] = {}
         /\ run'[<<w, k>>].wait # NoJob =>
              /\ run'[<<w, k>>].wait \in Come(w)'
              /\ b[k] = b[run'[<<w, k>>].wait] \cup {run'[<<w, k>>].wait}
  BY <1>1 DEF InOrder
<1>3. /\ base'[w].turn = NoJob => Come(w)' = {}
      /\ base'[w].turn # NoJob =>
           /\ base'[w].turn \in Come(w)'
           /\ Come(w)' = b[base'[w].turn] \cup {base'[w].turn}
      /\ \A j, k \in Come(w)' : j = k \/ j \in b[k] \/ k \in b[j]
  BY DEF InOrder
<1> QED
  BY <1>2, <1>3, Zenon DEF InOrder

(* Requests that come in, and handlers that move on, keep to the order.    *)
LEMMA TurnNext == IInv /\ OnceInv /\ KnownInv /\ TurnInv /\ [Next]_vars => TurnInv'
<1> SUFFICES ASSUME Types, OnceInv, KnownInv, TurnInv, [Next]_vars,
                    NEW w \in Workers, sc.sequential, NoneOff(w)'
             PROVE  \E b \in [Jobs -> SUBSET Jobs] : InOrder(w, b)'
  BY ScenarioFixed, TypesOK, Zenon DEF TurnInv, IInv
<1>0. run \in [Workers \X Jobs -> RunType]
  BY Zenon DEF Types
<1>1. CASE \E v \in Workers : HandleJobRequest(v)
  <2>1. PICK v \in Workers : HandleJobRequest(v)
    BY <1>1, Zenon
  <2>2. PICK j \in Jobs :
           /\ run[<<v, j>>].pc = "none"
           /\ run'[<<v, j>>].pc = "waiting"
           /\ run'[<<v, j>>].wait = base[v].turn /\ base'[v].turn = j
           /\ \A p \in Workers \X Jobs : p # <<v, j>> => run'[p] = run[p]
           /\ \A u \in Workers : u # v => base'[u] = base[u]
    BY <2>1, RequestComes, Zenon
  <2>3. \A k \in Jobs : <<v, k>> # <<v, j>> <=> k # j
    OBVIOUS
  <2>4. NoneOff(w)
    <3>1. ~run[<<v, j>>].off
      BY <2>2, Zenon DEF KnownInv
    <3> QED
      BY <2>2, <3>1, Zenon DEF NoneOff
  <2>5. PICK b \in [Jobs -> SUBSET Jobs] : InOrder(w, b)
    BY <2>4, Zenon DEF TurnInv
  <2>6. CASE v # w
    <3>1. \A k \in Jobs : run'[<<w, k>>] = run[<<w, k>>]
      BY <2>2, <2>6, Zenon
    <3>2. Come(w)' = Come(w) /\ base'[w] = base[w] /\ Come(w) \subseteq Jobs
      BY <2>2, <2>6, <3>1, Zenon DEF Come
    <3>3. InOrder(w, b)'
      <4>1. \A k \in Come(w) : run'[<<w, k>>].pc # "waiting" =>
               \A i \in b[k] : run'[<<w, i>>].pc = "returned"
        BY <2>5, <3>1, <3>2 DEF InOrder
      <4> QED
        BY <2>5, <3>1, <3>2, <4>1, InOrderKept, Zenon
    <3> QED
      BY <3>3, Zenon
  <2>7. CASE v = w
    <3>1. /\ Come(w) \subseteq Jobs /\ j \notin Come(w) /\ Come(w)' = Come(w) \cup {j}
      BY <2>2, <2>3, <2>7 DEF Come
    <3>2. PICK c \in [Jobs -> SUBSET Jobs] :
            c[j] = Come(w) /\ \A k \in Come(w) : c[k] = b[k]
      <4>1. [b EXCEPT ![j] = Come(w)] \in [Jobs -> SUBSET Jobs]
        BY <3>1, Zenon
      <4> QED
        BY <3>1, <4>1, Zenon
    <3>3. \A k \in Come(w) : run'[<<w, k>>] = run[<<w, k>>]
      BY <2>2, <2>3, <2>7, <3>1, Zenon
    <3>4. /\ base'[w].turn = j /\ j # NoJob
          /\ run'[<<w, j>>].pc = "waiting" /\ run'[<<w, j>>].wait = base[w].turn
      BY <2>2, <2>7, NamesAssumption, Zenon
    <3>5. InOrder(w, c)'
      <4>1. \A k \in Come(w) :
               /\ c[k] \subseteq Come(w)' /\ k \notin c[k]
               /\ run'[<<w, k>>].wait = NoJob => c[k] = {}
               /\ run'[<<w, k>>].wait # NoJob =>
                    /\ run'[<<w, k>>].wait \in Come(w)'
                    /\ c[k] = c[run'[<<w, k>>].wait] \cup {run'[<<w, k>>].wait}
        BY <2>5, <3>1, <3>2, <3>3 DEF InOrder
      <4>2. \A k \in Come(w) : run'[<<w, k>>].pc # "waiting" =>
               \A i \in c[k] : run'[<<w, i>>].pc = "returned"
        BY <2>5, <3>1, <3>2, <3>3 DEF InOrder
      <4>3. /\ c[j] \subseteq Come(w)' /\ j \notin c[j]
            /\ base[w].turn = NoJob => c[j] = {}
            /\ base[w].turn # NoJob =>
                 /\ base[w].turn \in Come(w)'
                 /\ c[j] = c[base[w].turn] \cup {base[w].turn}
        BY <2>5, <3>1, <3>2, Zenon DEF InOrder
      <4>4. \A i, k \in Come(w)' : i = k \/ i \in c[k] \/ k \in c[i]
        BY <2>5, <3>1, <3>2 DEF InOrder
      <4>5. Come(w)' = c[j] \cup {j}
        BY <3>1, <3>2, Zenon
      <4> QED
        BY <3>1, <3>4, <4>1, <4>2, <4>3, <4>4, <4>5 DEF InOrder
    <3> QED
      BY <3>5, Zenon
  <2> QED
    BY <2>6, <2>7, Zenon
<1>2. CASE \E v \in Workers, j \in Jobs : Handler(v, j)
  <2>1. PICK v \in Workers, j \in Jobs : Handler(v, j)
    BY <1>2, Zenon
  <2>2. /\ \A p \in Workers \X Jobs : p # <<v, j>> => run'[p] = run[p]
        /\ run'[<<v, j>>].wait = run[<<v, j>>].wait
        /\ run'[<<v, j>>].off = run[<<v, j>>].off
        /\ run[<<v, j>>].pc \notin {"none", "returned"}
        /\ run'[<<v, j>>].pc \in {"running", "sending", "over", "returned"}
        /\ run[<<v, j>>].pc = "waiting" =>
             Released(v, run[<<v, j>>].wait) \/ run[<<v, j>>].off
        /\ \A u \in Workers : base'[u].turn = base[u].turn
    BY <2>1, HandlerMoves, Zenon
  <2>3. NoneOff(w)
    BY <2>2, Zenon DEF NoneOff
  <2>4. PICK b \in [Jobs -> SUBSET Jobs] : InOrder(w, b)
    BY <2>3, Zenon DEF TurnInv
  <2>5. \A k \in Jobs : run'[<<w, k>>].wait = run[<<w, k>>].wait
    BY <2>2, Zenon
  <2>6. Come(w)' = Come(w) /\ Come(w) \subseteq Jobs
    BY <2>2, Zenon DEF Come
  <2>7. ASSUME NEW k \in Come(w), run'[<<w, k>>].pc # "waiting", NEW i \in b[k]
        PROVE  run'[<<w, i>>].pc = "returned"
    <3>1. i \in Come(w) /\ i \in Jobs /\ k \in Jobs
      BY <2>4, <2>6, <2>7, Zenon DEF InOrder
    <3>2. run[<<w, i>>].pc = "returned"
      <4>1. CASE run[<<w, k>>].pc # "waiting"
        BY <2>4, <2>7, <4>1, Zenon DEF InOrder
      <4>2. CASE run[<<w, k>>].pc = "waiting"
        <5>1. <<w, k>> = <<v, j>>
          BY <2>2, <2>7, <3>1, <4>2, Zenon
        <5>2. Released(w, run[<<w, k>>].wait)
          BY <2>2, <2>3, <3>1, <4>2, <5>1, Zenon DEF NoneOff
        <5>3. PICK h \in Come(w) : h = run[<<w, k>>].wait /\ b[k] = b[h] \cup {h}
          BY <2>4, <2>7, Zenon DEF InOrder
        <5>4. run[<<w, h>>].pc = "returned"
          BY <2>6, <5>2, <5>3, NamesAssumption, Zenon DEF Released
        <5> QED
          BY <2>4, <2>7, <5>3, <5>4, ZenonT(40) DEF InOrder
      <4> QED
        BY <4>1, <4>2, Zenon
    <3> QED
      BY <2>2, <3>1, <3>2, Zenon
  <2>8. InOrder(w, b)'
    <3>1. base'[w].turn = base[w].turn
      BY <2>2, Zenon
    <3> QED
      BY <2>4, <2>5, <2>6, <2>7, <3>1, InOrderKept, Zenon
  <2> QED
    BY <2>8, Zenon
<1>3. CASE /\ \A v \in Workers : ~HandleJobRequest(v)
           /\ \A v \in Workers, j \in Jobs : ~Handler(v, j)
  <2>1. /\ \A p \in Workers \X Jobs :
              /\ run'[p].pc = run[p].pc /\ run'[p].wait = run[p].wait
              /\ run[p].off => run'[p].off
        /\ base'[w].turn = base[w].turn
    BY <1>3, RunKept, Zenon
  <2>2. NoneOff(w)
    BY <2>1, Zenon DEF NoneOff
  <2>3. PICK b \in [Jobs -> SUBSET Jobs] : InOrder(w, b)
    BY <2>2, Zenon DEF TurnInv
  <2>4. Come(w)' = Come(w) /\ Come(w) \subseteq Jobs
    BY <2>1, Zenon DEF Come
  <2>5. \A k \in Jobs : /\ run'[<<w, k>>].pc = run[<<w, k>>].pc
                        /\ run'[<<w, k>>].wait = run[<<w, k>>].wait
    BY <2>1, Zenon
  <2>6. InOrder(w, b)'
    <3>1. \A k \in Come(w) : run'[<<w, k>>].pc # "waiting" =>
             \A i \in b[k] : run'[<<w, i>>].pc = "returned"
      BY <2>3, <2>4, <2>5 DEF InOrder
    <3> QED
      BY <2>1, <2>3, <2>4, <2>5, <3>1, InOrderKept, Zenon
  <2> QED
    BY <2>6, Zenon
<1> QED
  BY <1>1, <1>2, <1>3, Zenon

(* Only what has come is ever called off.                                  *)
LEMMA KnownNext == IInv /\ OnceInv /\ KnownInv /\ [Next]_vars => KnownInv'
<1> SUFFICES ASSUME Types, OnceInv, KnownInv, [Next]_vars PROVE KnownInv'
  BY TypesOK, Zenon DEF IInv
<1>0. \A t \in Serving : t \in Threads /\ t[1] \in Workers
  BY Zenon DEF Serving, Threads, Delivery, Nodes
<1>1. \A w \in Workers : base[w].handlers \subseteq Jobs
  BY Zenon DEF Types, BaseType
<1>2. \A t \in Serving : thr[t].todo \subseteq Jobs
  BY <1>0, Zenon DEF Types, ThreadType
<1>3. ASSUME \A p \in Workers \X Jobs : /\ run[p].pc # "none" => run'[p].pc # "none"
                                        /\ run'[p].off => run[p].off \/ run'[p].pc # "none",
             \A w \in Workers : \A j \in base'[w].handlers :
                 j \in Jobs /\ (j \in base[w].handlers \/ run'[<<w, j>>].pc # "none"),
             \A t \in Serving : thr'[t].pc = "callHandlers" =>
                 \/ thr[t].pc = "callHandlers" /\ thr'[t].todo \subseteq thr[t].todo
                 \/ thr'[t].todo \subseteq base[t[1]].handlers
      PROVE  KnownInv'
  <2>1. \A w \in Workers : \A j \in base'[w].handlers : run'[<<w, j>>].pc # "none"
    BY <1>3, Zenon DEF KnownInv
  <2>2. \A w \in Workers, j \in Jobs : run'[<<w, j>>].off => run'[<<w, j>>].pc # "none"
    BY <1>3, Zenon DEF KnownInv
  <2>3. ASSUME NEW t \in Serving, thr'[t].pc = "callHandlers", NEW j \in thr'[t].todo
        PROVE  run'[<<t[1], j>>].pc # "none"
    <3>1. \/ thr[t].pc = "callHandlers" /\ j \in thr[t].todo
          \/ j \in base[t[1]].handlers
      BY <1>3, <2>3, Zenon
    <3>2. j \in Jobs /\ run[<<t[1], j>>].pc # "none"
      BY <1>0, <1>1, <1>2, <3>1, Zenon DEF KnownInv
    <3> QED
      BY <1>0, <1>3, <3>2, Zenon
  <2> QED
    BY <2>1, <2>2, <2>3, Zenon DEF KnownInv
<1>4. ASSUME UNCHANGED <<run, base>>,
             \A t \in Serving : thr'[t].pc = "callHandlers" => thr'[t] = thr[t]
      PROVE  KnownInv'
  BY <1>1, <1>3, <1>4, Zenon
<1>5. CASE UNCHANGED vars
  BY <1>4, <1>5, Zenon DEF vars
<1>6. ASSUME NEW j \in Jobs, TimeoutFires(j) \/ CreateGroup(j) \/ CallerCancels(j)
      PROVE  KnownInv'
  <2>1. /\ Timeout(j) \in Threads /\ Caller \in Threads
        /\ Timeout(j) \notin Serving /\ Caller \notin Serving
    BY NamesAssumption, Zenon DEF Threads, Timeout, Caller, Serving
  <2>2. \A t \in Serving : thr'[t] = thr[t]
    BY <1>0, <1>6, <2>1, Zenon DEF Types, TimeoutFires, CreateGroup, CallerCancels, Does
  <2> QED
    BY <1>4, <1>6, <2>2, Zenon DEF TimeoutFires, CreateGroup, CallerCancels
<1>7. ASSUME NEW j \in Jobs, NEW w \in Workers, RequestJob(j, w) PROVE KnownInv'
  BY <1>4, <1>7, Zenon DEF RequestJob
<1>8. ASSUME NEW w \in Workers, NEW j \in Jobs, Handler(w, j) PROVE KnownInv'
  <2>1. thr' = thr
    BY <1>8, Zenon DEF Handler, StartHandler, HandlerAnswers, HandlerSends, HandlerReturns
  <2>2. /\ \A p \in Workers \X Jobs : p # <<w, j>> => run'[p] = run[p]
        /\ run'[<<w, j>>].off = run[<<w, j>>].off
        /\ run'[<<w, j>>].pc # "none"
        /\ \A v \in Workers : base'[v].handlers \subseteq base[v].handlers
    BY <1>8, HandlerMoves, Zenon
  <2>3. \A p \in Workers \X Jobs : /\ run[p].pc # "none" => run'[p].pc # "none"
                                   /\ run'[p].off => run[p].off \/ run'[p].pc # "none"
    BY <2>2, Zenon
  <2> QED
    BY <1>1, <1>3, <2>1, <2>2, <2>3, Zenon
<1>9. ASSUME NEW t \in Asking, NEW j \in Jobs, Asked(t, j) PROVE KnownInv'
  <2>1. UNCHANGED <<run, base>>
    BY <1>9, Zenon DEF Asked, CancelGroup, CallOff, SetResponse, TrackGroupResponse, CompleteGroup
  <2>2. t \in Threads /\ t \notin Serving /\ Timeout(j) \in Threads /\ Timeout(j) \notin Serving
    BY NamesAssumption DEF Asking, Threads, Delivery, Nodes, Timeout, Caller, Serving
  <2>3. \A u \in Serving : thr'[u] = thr[u]
    BY <1>0, <1>9, <2>2, Zenon
    DEF Types, Asked, CancelGroup, CallOff, SetResponse, TrackGroupResponse, CompleteGroup, Does,
        CancelTimeout
  <2> QED
    BY <1>4, <2>1, <2>3, Zenon
<1>10. ASSUME NEW t \in Serving, Serves(t) PROVE KnownInv'
  <2>0. t \in Threads /\ t[1] \in Workers /\ thr[t] \in ThreadType
    BY <1>0, Zenon DEF Types
  <2>1. CASE Stop(t)
    <3>1. \A u \in Serving : thr'[u].pc = "callHandlers" => thr'[u] = thr[u]
      BY <1>0, <2>0, <2>1 DEF Stop
    <3> QED
      BY <1>4, <2>1, <3>1, Zenon DEF Stop
  <2>2. CASE TakeRunningJobs(t)
    <3>1. /\ thr'[t].todo = base[t[1]].handlers /\ \A u \in Serving : u # t => thr'[u] = thr[u]
          /\ UNCHANGED run
      BY <1>0, <2>0, <2>2, Zenon DEF Types, TakeRunningJobs, ThreadType
    <3>2. \A w \in Workers : base'[w].handlers \subseteq base[w].handlers
      BY <2>0, <2>2 DEF TakeRunningJobs, BaseType
    <3> QED
      BY <1>1, <1>3, <3>1, <3>2, Zenon
  <2>3. CASE Finish(t)
    <3>1. /\ thr'[t].pc # "callHandlers" /\ \A u \in Serving : u # t => thr'[u] = thr[u]
          /\ UNCHANGED run
      BY <1>0, <2>0, <2>3, Zenon DEF Types, Finish, ThreadType, Idle
    <3>2. \A w \in Workers : base'[w].handlers = base[w].handlers
      BY <2>0, <2>3 DEF Finish, BaseType
    <3> QED
      BY <1>1, <1>3, <3>1, <3>2, Zenon
  <2>4. ASSUME NEW j \in Jobs, thr[t].pc \in {"answer", "canceled"}
        PROVE  /\ Answered(t, j)[t].pc \in {"answer", "canceled", "idle"}
               /\ \A u \in Threads \ {t} : Answered(t, j)[u] = thr[u]
    BY <2>0, <2>4 DEF Answered, Idle, ThreadType
  <2>5. ASSUME NEW j \in Jobs, AnswerCanceled(t, j) PROVE KnownInv'
    <3>1. /\ thr'[t].pc # "callHandlers" /\ \A u \in Threads \ {t} : thr'[u] = thr[u]
      BY <2>0, <2>4, <2>5 DEF AnswerCanceled, ThreadType
    <3> QED
      BY <1>0, <1>4, <2>5, <3>1, Zenon DEF AnswerCanceled
  <2>6. ASSUME NEW j \in Jobs, SendCanceled(t, j) PROVE KnownInv'
    <3>1. /\ thr'[t].pc # "callHandlers" /\ \A u \in Threads \ {t} : thr'[u] = thr[u]
          /\ UNCHANGED run
      BY <2>0, <2>4, <2>6, Zenon DEF SendCanceled
    <3>2. \A w \in Workers : base'[w].handlers = base[w].handlers
      BY <2>0, <2>6 DEF SendCanceled, BaseType
    <3> QED
      BY <1>0, <1>1, <1>3, <3>1, <3>2, Zenon
  <2>7. ASSUME NEW j \in Jobs, StopHandler(t, j) PROVE KnownInv'
    <3>1. run' = [run EXCEPT ![<<t[1], j>>].off = TRUE] /\ UNCHANGED base
      BY <2>7, Zenon DEF StopHandler
    <3>2. run[<<t[1], j>>].pc # "none"
      BY <2>7, Zenon DEF StopHandler, KnownInv
    <3>3. /\ \A p \in Workers \X Jobs : run'[p].pc = run[p].pc
          /\ \A p \in Workers \X Jobs : p # <<t[1], j>> => run'[p] = run[p]
      BY <3>1 DEF RunType
    <3>4. \A p \in Workers \X Jobs : run'[p].off => run[p].off \/ run'[p].pc # "none"
      BY <3>2, <3>3, Zenon
    <3>5. /\ thr'[t].todo = thr[t].todo \ {j} /\ thr[t].pc = "callHandlers"
          /\ \A u \in Serving : u # t => thr'[u] = thr[u]
      BY <1>0, <2>0, <2>7, Zenon DEF Types, StopHandler, ThreadType
    <3> QED
      BY <1>1, <1>3, <3>1, <3>3, <3>4, <3>5, Zenon
  <2> QED
    BY <1>10, <2>1, <2>2, <2>3, <2>5, <2>6, <2>7, Zenon DEF Serves
<1>11. ASSUME NEW n \in Nodes, Deliver(n) PROVE KnownInv'
  <2>0. <<n, "system">> \in Threads /\ <<n, "data">> \in Threads
    BY Zenon DEF Threads, Delivery
  <2>1. CASE Route(n)
    BY <1>4, <2>1, Zenon DEF Route
  <2>2. CASE n \in Workers /\ HandleJobRequest(n)
    <3>1. PICK j \in Jobs :
            /\ run'[<<n, j>>].pc = "waiting"
            /\ \A p \in Workers \X Jobs : p # <<n, j>> => run'[p] = run[p]
            /\ \A v \in Workers : v # n => base'[v] = base[v]
            /\ base'[n].handlers = base[n].handlers \cup {j}
      BY <2>2, RequestComes, Zenon
    <3>2. \A p \in Workers \X Jobs : /\ run[p].pc # "none" => run'[p].pc # "none"
                                     /\ run'[p].off => run[p].off \/ run'[p].pc # "none"
      BY <3>1, Zenon
    <3>3. thr' = thr
      BY <2>2, Zenon DEF HandleJobRequest
    <3> QED
      BY <1>1, <1>3, <2>2, <3>1, <3>2, <3>3, Zenon
  <2>3. CASE n \in Workers /\ HandleJobCancel(n)
    <3> DEFINE j == Message(n, "system").job
    <3>1. Message(n, "system") \in Messages /\ Message(n, "system").kind = "cancel"
      BY <2>3, TakenType DEF Types, HandleJobCancel
    <3>2. base[n].active \cap {j} \in SUBSET Jobs
      BY <3>1, MessageType, Zenon
    <3>3. Does(<<n, "system">>, "stopping", base[n].active \cap {j}) /\ UNCHANGED base
      BY <2>3, Zenon DEF HandleJobCancel
    <3>4. /\ thr'[<<n, "system">>].pc \in {"idle", "stopping"}
          /\ \A u \in Threads \ {<<n, "system">>} : thr'[u] = thr[u]
      BY <2>0, <3>2, <3>3, DoesType DEF Types
    <3>5. \A p \in Workers \X Jobs : /\ run'[p].pc = run[p].pc
                                     /\ run'[p].off => run[p].off \/ run'[p].pc # "none"
      <4>1. CASE j \in base[n].active \cap base[n].handlers
        <5>1. run' = [run EXCEPT ![<<n, j>>].off = TRUE]
          BY <2>3, <4>1, Zenon DEF HandleJobCancel
        <5>2. run[<<n, j>>].pc # "none"
          BY <2>3, <4>1, Zenon DEF KnownInv
        <5>3. \A p \in Workers \X Jobs : /\ run'[p].pc = run[p].pc
                                         /\ p # <<n, j>> => run'[p] = run[p]
          <6> HIDE DEF j
          <6> QED
            BY <5>1 DEF RunType
        <5> QED
          BY <5>2, <5>3, Zenon
      <4>2. CASE j \notin base[n].active \cap base[n].handlers
        BY <2>3, <4>2, Zenon DEF HandleJobCancel
      <4> QED
        BY <4>1, <4>2, Zenon
    <3> QED
      BY <1>0, <1>1, <1>3, <3>3, <3>4, <3>5, Zenon
  <2>4. CASE n \in Workers /\ HandlerStopped(n)
    <3>1. thr[<<n, "system">>].todo \in SUBSET Jobs
      BY <2>0, Zenon DEF Types, ThreadType
    <3>2. /\ thr'[<<n, "system">>].pc \in {"idle", "canceled"}
          /\ \A u \in Threads \ {<<n, "system">>} : thr'[u] = thr[u]
      BY <2>0, <2>4, <3>1, DoesType, Zenon DEF Types, HandlerStopped
    <3> QED
      BY <1>0, <1>4, <2>4, <3>2, Zenon DEF HandlerStopped
  <2>5. ASSUME NEW band \in {"system", "data"}, HandleJobResponse(band) PROVE KnownInv'
    <3>1. <<Req, band>> \notin Serving
      BY NamesAssumption, Zenon DEF Serving
    <3>2. PICK r : thr' = [thr EXCEPT ![<<Req, band>>] = r]
      BY <2>5, Zenon DEF HandleJobResponse
    <3>3. \A u \in Serving : thr'[u] = thr[u]
      BY <1>0, <3>1, <3>2
    <3> QED
      BY <1>4, <2>5, <3>3, Zenon DEF HandleJobResponse
  <2> QED
    BY <1>11, <2>1, <2>2, <2>3, <2>4, <2>5, Zenon DEF Deliver
<1>12. ASSUME NEW s \in sc.stops, AskToStop(s[1], s[2]) PROVE KnownInv'
  <2>1. s[1] \in Workers
    BY <1>12, ScenarioType, Zenon DEF Types
  <2>2. \A w \in Workers : base'[w].handlers = base[w].handlers
    BY <1>12, <2>1 DEF AskToStop, BaseType
  <2> QED
    BY <1>1, <1>3, <1>12, <2>2, Zenon DEF AskToStop
<1> QED
  BY <1>5, <1>6, <1>7, <1>8, <1>9, <1>10, <1>11, <1>12, Zenon DEF Next, Progress

(* What a queue carries once a message has been added.                     *)
LEMMA AddedOnce ==
  ASSUME NEW q \in Seq(Messages), NEW m \in Messages, NEW k
  PROVE  /\ Carries(Append(q, m), k) <=> Carries(q, k) \/ m = k
         /\ Once(q, k) /\ ~(Carries(q, k) /\ m = k) => Once(Append(q, m), k)
<1>1. /\ Len(Append(q, m)) = Len(q) + 1 /\ Append(q, m)[Len(q) + 1] = m
      /\ \A i \in 1..Len(q) : Append(q, m)[i] = q[i]
      /\ Len(q) \in Nat
  OBVIOUS
<1>2. Carries(Append(q, m), k) <=> Carries(q, k) \/ m = k
  BY <1>1 DEF Carries
<1>3. ASSUME Once(q, k), ~(Carries(q, k) /\ m = k),
             NEW i \in 1..Len(Append(q, m)), NEW h \in 1..Len(Append(q, m)),
             Append(q, m)[i] = k, Append(q, m)[h] = k
      PROVE  i = h
  <2>1. CASE m = k
    BY <1>1, <1>3, <2>1 DEF Carries
  <2>2. CASE m # k
    BY <1>1, <1>3, <2>2 DEF Once
  <2> QED
    BY <2>1, <2>2, Zenon
<1> QED
  BY <1>2, <1>3, Zenon DEF Once

(* What it carries once its first message has been taken.                  *)
LEMMA TakenOnce ==
  ASSUME NEW q \in Seq(Messages), q # <<>>, NEW k
  PROVE  /\ Tail(q) \in Seq(Messages) /\ Head(q) \in Messages
         /\ Carries(Tail(q), k) => Carries(q, k)
         /\ Head(q) = k => Carries(q, k)
         /\ Once(q, k) => Once(Tail(q), k)
         /\ Once(q, k) /\ Head(q) = k => ~Carries(Tail(q), k)
<1>1. /\ Len(q) \in Nat \ {0} /\ Len(Tail(q)) = Len(q) - 1 /\ Head(q) = q[1]
      /\ \A i \in 1..Len(Tail(q)) : Tail(q)[i] = q[i + 1]
      /\ Tail(q) \in Seq(Messages) /\ Head(q) \in Messages
  OBVIOUS
<1>2. ASSUME NEW i \in 1..Len(Tail(q)) PROVE i + 1 \in 1..Len(q) /\ i + 1 # 1
  BY <1>1
<1>3. Carries(Tail(q), k) => Carries(q, k)
  BY <1>1, <1>2, Zenon DEF Carries
<1>4. Head(q) = k => Carries(q, k)
  BY <1>1 DEF Carries
<1>5. Once(q, k) => Once(Tail(q), k)
  <2> SUFFICES ASSUME Once(q, k), NEW i \in 1..Len(Tail(q)), NEW h \in 1..Len(Tail(q)),
                      Tail(q)[i] = k, Tail(q)[h] = k
               PROVE  i = h
    BY Zenon DEF Once
  <2>1. i + 1 = h + 1
    BY <1>1, <1>2, Zenon DEF Once
  <2> QED
    BY <2>1
<1>6. Once(q, k) /\ Head(q) = k => ~Carries(Tail(q), k)
  <2> SUFFICES ASSUME Once(q, k), Head(q) = k, NEW i \in 1..Len(Tail(q)), Tail(q)[i] = k
               PROVE  FALSE
    BY Zenon DEF Carries
  <2>1. q[1] = k /\ q[i + 1] = k /\ 1 \in 1..Len(q) /\ i + 1 \in 1..Len(q)
    BY <1>1, <1>2
  <2> QED
    BY <1>2, <2>1, Zenon DEF Once
<1> QED
  BY <1>1, <1>3, <1>4, <1>5, <1>6, Zenon

(* What is sent to one node does not touch the queues of another.          *)
LEMMA PutApart ==
  ASSUME bus \in [Nodes -> Queues], NEW n \in Nodes, NEW w \in Nodes \ {n},
         NEW m \in Messages
  PROVE  Put(bus, n, m)[w] = bus[w]
BY Zenon DEF Put

(* A step that leaves the requests where they are.                         *)
LEMMA OnceFrame ==
  ASSUME OnceInv,
         \A w \in Workers : bus'[w].data = bus[w].data /\ bus'[w].routed = bus[w].routed,
         \A w \in Workers, j \in Jobs :
             /\ w \in grp'[j].unsent => w \in grp[j].unsent
             /\ run'[<<w, j>>].pc = "none" <=> run[<<w, j>>].pc = "none",
         \A j \in Jobs : grp[j].state # "none" => grp'[j].state # "none"
  PROVE  OnceInv'
<1> SUFFICES ASSUME NEW w \in Workers, NEW j \in Jobs PROVE AskedOnce(w, j)'
  BY Zenon DEF OnceInv
<1>1. AskedOnce(w, j)
  BY Zenon DEF OnceInv
<1> QED
  BY <1>1, Zenon DEF AskedOnce

(* What the requester does to its groups.                                  *)
LEMMA OnceAsked ==
  ASSUME Types, OnceInv, NEW t \in Asking, NEW j \in Jobs, Asked(t, j)
  PROVE  OnceInv'
<1>1. run' = run
  BY Zenon DEF Asked, CancelGroup, CallOff, SetResponse, TrackGroupResponse, CompleteGroup
<1>2. \A k \in Jobs : /\ grp'[k].unsent = grp[k].unsent
                      /\ grp[k].state # "none" => grp'[k].state # "none"
  <2>1. CASE CancelGroup(t, j)
    <3>1. grp' = grp \/ grp' = [grp EXCEPT ![j].state = "taken"]
      BY <2>1, Zenon DEF CancelGroup
    <3> QED
      BY <3>1 DEF Types, GroupType
  <2>2. CASE CallOff(t, j)
    BY <2>2 DEF CallOff, GroupType
  <2>3. CASE SetResponse(t, j)
    BY <2>3, Zenon DEF Types, SetResponse, GroupType
  <2>4. CASE TrackGroupResponse(t, j)
    <3>1. grp' = grp \/ grp' = [grp EXCEPT ![j].state = "taken"]
      BY <2>4, Zenon DEF TrackGroupResponse
    <3> QED
      BY <3>1 DEF Types, GroupType
  <2>5. CASE CompleteGroup(t, j)
    BY <2>5, Zenon DEF Types, CompleteGroup, GroupType
  <2> QED
    BY <2>1, <2>2, <2>3, <2>4, <2>5, Zenon DEF Asked
<1>3. ASSUME NEW w \in Workers
      PROVE  bus'[w].data = bus[w].data /\ bus'[w].routed = bus[w].routed
  <2>1. CASE CallOff(t, j)
    <3>1. w \in Nodes /\ bus[w] \in Queues
      BY Zenon DEF Types, Nodes
    <3>2. bus'[w] = bus[w] \/ bus'[w] = Put(bus, w, [kind |-> "cancel", job |-> j])[w]
      BY <2>1, <3>1, Zenon DEF CallOff
    <3>3. /\ Put(bus, w, [kind |-> "cancel", job |-> j])[w].data = bus[w].data
          /\ Put(bus, w, [kind |-> "cancel", job |-> j])[w].routed = bus[w].routed
      BY <3>1 DEF Put, System, Queues
    <3> QED
      BY <3>2, <3>3, Zenon
  <2>2. CASE ~CallOff(t, j)
    BY <2>2, Zenon DEF Asked, CancelGroup, SetResponse, TrackGroupResponse, CompleteGroup
  <2> QED
    BY <2>1, <2>2, Zenon
<1> QED
  BY <1>1, <1>2, <1>3, OnceFrame, Zenon

(* Opening a group, and sending its requests.                              *)
LEMMA OnceOthers ==
  ASSUME Types, OnceInv, NEW j \in Jobs
  PROVE  /\ CreateGroup(j) \/ TimeoutFires(j) \/ CallerCancels(j) => OnceInv'
         /\ \A w \in Workers : RequestJob(j, w) => OnceInv'
<1>1. ASSUME CreateGroup(j) PROVE OnceInv'
  <2>1. /\ UNCHANGED <<bus, run>> /\ grp[j].state = "none" /\ grp'[j].state = "running"
        /\ \A k \in Jobs \ {j} : grp'[k] = grp[k]
    BY <1>1, Zenon DEF Types, CreateGroup, GroupType
  <2>2. ASSUME NEW w \in Workers, NEW k \in Jobs PROVE AskedOnce(w, k)'
    <3>1. AskedOnce(w, k)
      BY Zenon DEF OnceInv
    <3>2. CASE k = j
      BY <2>1, <3>1, <3>2, Zenon DEF AskedOnce
    <3>3. CASE k # j
      BY <2>1, <3>1, <3>3, Zenon DEF AskedOnce
    <3> QED
      BY <3>2, <3>3, Zenon
  <2> QED
    BY <2>2, Zenon DEF OnceInv
<1>2. ASSUME TimeoutFires(j) \/ CallerCancels(j) PROVE OnceInv'
  BY <1>2, OnceFrame, Zenon DEF TimeoutFires, CallerCancels
<1>3. ASSUME NEW w \in Workers, RequestJob(j, w) PROVE OnceInv'
  <2>0. w \in Nodes /\ bus[w] \in Queues /\ bus[w].data \in Seq(Messages)
    BY Zenon DEF Types, Nodes, Queues
  <2>1. /\ grp' = [grp EXCEPT ![j].unsent = grp[j].unsent \ {w}] /\ w \in grp[j].unsent
        /\ bus' = Put(bus, w, Ask(j)) /\ run' = run
    BY <1>3, Zenon DEF RequestJob, Ask
  <2>2. Ask(j) \in Messages /\ Ask(j).kind \notin System
    BY Zenon DEF Ask, Messages, System
  <2>3. /\ bus'[w].data = Append(bus[w].data, Ask(j)) /\ bus'[w].routed = bus[w].routed
        /\ \A v \in Workers \ {w} : bus'[v] = bus[v]
    BY <2>0, <2>1, <2>2, Zenon DEF Types, Put, Queues, Nodes
  <2>4. /\ grp'[j].unsent = grp[j].unsent \ {w} /\ grp'[j].state = grp[j].state
        /\ \A k \in Jobs \ {j} : grp'[k] = grp[k]
    BY <2>1, Zenon DEF Types, GroupType
  <2>5. \A k \in Jobs : Ask(k) = Ask(j) => k = j
    BY Zenon DEF Ask
  <2>6. ASSUME NEW v \in Workers, NEW k \in Jobs PROVE AskedOnce(v, k)'
    <3>0. AskedOnce(v, k)
      BY Zenon DEF OnceInv
    <3>1. CASE v # w
      <4>1. /\ bus'[v] = bus[v] /\ grp'[k].state = grp[k].state
            /\ v \in grp'[k].unsent <=> v \in grp[k].unsent
        BY <2>3, <2>4, <3>1, Zenon
      <4> QED
        BY <2>1, <3>0, <4>1, Zenon DEF AskedOnce
    <3>2. CASE v = w /\ k # j
      <4>1. Ask(j) # Ask(k)
        BY <2>5, <3>2, Zenon
      <4>2. /\ Carries(Append(bus[w].data, Ask(j)), Ask(k)) <=> Carries(bus[w].data, Ask(k))
            /\ Once(bus[w].data, Ask(k)) => Once(Append(bus[w].data, Ask(j)), Ask(k))
        BY <2>0, <2>2, <4>1, AddedOnce, Zenon
      <4> QED
        BY <2>1, <2>3, <2>4, <3>0, <3>2, <4>2, Zenon DEF AskedOnce
    <3>3. CASE v = w /\ k = j
      <4>1. /\ ~Carries(bus[w].data, Ask(j)) /\ ~Carries(bus[w].routed, Ask(j))
            /\ Once(bus[w].data, Ask(j)) /\ Once(bus[w].routed, Ask(j))
            /\ run[<<w, j>>].pc = "none" /\ grp[j].state # "none"
        BY <2>1, <3>0, <3>3, Zenon DEF AskedOnce
      <4>2. Once(Append(bus[w].data, Ask(j)), Ask(j))
        BY <2>0, <2>2, <4>1, AddedOnce, Zenon
      <4> QED
        BY <2>1, <2>3, <2>4, <3>3, <4>1, <4>2, Zenon DEF AskedOnce
    <3> QED
      BY <3>1, <3>2, <3>3, Zenon
  <2> QED
    BY <2>6, Zenon DEF OnceInv
<1> QED
  BY <1>1, <1>2, <1>3, Zenon

(* Taking something other than a request from a worker's routed messages.  *)
LEMMA OnceTaken ==
  ASSUME Types, OnceInv, NEW w \in Workers, bus[w].routed # <<>>,
         \A j \in Jobs : Head(bus[w].routed) # Ask(j),
         bus'[w].routed = Tail(bus[w].routed), bus'[w].data = bus[w].data,
         \A v \in Workers \ {w} : bus'[v] = bus[v], UNCHANGED <<run, grp>>
  PROVE  OnceInv'
<1>1. bus[w].routed \in Seq(Messages)
  BY Zenon DEF Types, Queues, Nodes
<1>2. ASSUME NEW j \in Jobs
      PROVE  /\ Carries(Tail(bus[w].routed), Ask(j)) => Carries(bus[w].routed, Ask(j))
             /\ Once(bus[w].routed, Ask(j)) => Once(Tail(bus[w].routed), Ask(j))
  BY <1>1, TakenOnce, Zenon
<1>3. ASSUME NEW v \in Workers, NEW j \in Jobs PROVE AskedOnce(v, j)'
  <2>0. AskedOnce(v, j)
    BY Zenon DEF OnceInv
  <2>1. CASE v = w
    BY <1>2, <2>0, <2>1, Zenon DEF AskedOnce
  <2>2. CASE v # w
    BY <2>0, <2>2, Zenon DEF AskedOnce
  <2> QED
    BY <2>1, <2>2, Zenon
<1> QED
  BY <1>3, Zenon DEF OnceInv

(* What a worker that stops takes and sends.                               *)
LEMMA OnceServes ==
  ASSUME Types, OnceInv, NEW t \in Serving, Serves(t)
  PROVE  OnceInv'
<1>0. t[1] \in Workers /\ t[1] \in Nodes /\ \A w \in Workers : w \in Nodes /\ w # Req
  BY NamesAssumption, Zenon DEF Serving, Nodes
<1>1. ASSUME UNCHANGED <<bus, run, grp>> PROVE OnceInv'
  BY <1>1, OnceFrame, Zenon
<1>2. CASE Stop(t) /\ t[2] # "run"
  <2>1. /\ Takes(t[1], t[2], {"endWorker", "cancelWorker"}) /\ bus' = Taken(t[1], t[2])
        /\ UNCHANGED <<run, grp>> /\ t[2] \in {"system", "data"}
    BY <1>2, Zenon DEF Stop, Serving
  <2>2. CASE t[2] = "system"
    <3>1. bus' = [bus EXCEPT ![t[1]].system = Tail(@)]
      BY <2>1, <2>2, Zenon DEF Taken
    <3>2. \A w \in Workers : bus'[w].data = bus[w].data /\ bus'[w].routed = bus[w].routed
      BY <1>0, <3>1 DEF Queues
    <3> QED
      BY <2>1, <3>2, OnceFrame, Zenon
  <2>3. CASE t[2] = "data"
    <3>1. bus' = [bus EXCEPT ![t[1]].routed = Tail(@)]
      BY <2>1, <2>3, Zenon DEF Taken
    <3>2. /\ bus'[t[1]].routed = Tail(bus[t[1]].routed) /\ bus'[t[1]].data = bus[t[1]].data
          /\ \A v \in Workers \ {t[1]} : bus'[v] = bus[v]
      BY <1>0, <3>1, Zenon DEF Types, Queues
    <3>3. bus[t[1]].routed # <<>> /\ Head(bus[t[1]].routed).kind # "request"
      BY <2>1, <2>3, Zenon DEF Takes, Waiting, Message
    <3>4. \A j \in Jobs : Head(bus[t[1]].routed) # Ask(j)
      BY <3>3 DEF Ask
    <3> QED
      BY <1>0, <2>1, <3>2, <3>3, <3>4, OnceTaken, Zenon
  <2> QED
    BY <2>1, <2>2, <2>3, Zenon
<1>3. CASE Stop(t) /\ t[2] = "run"
  BY <1>1, <1>3, Zenon DEF Stop
<1>4. CASE TakeRunningJobs(t) \/ Finish(t)
  BY <1>1, <1>4, Zenon DEF TakeRunningJobs, Finish
<1>5. ASSUME NEW j \in Jobs, AnswerCanceled(t, j) PROVE OnceInv'
  BY <1>1, <1>5, Zenon DEF AnswerCanceled
<1>6. ASSUME NEW j \in Jobs, SendCanceled(t, j) PROVE OnceInv'
  <2>1. PICK m \in Messages :
          m = [kind |-> "answer", job |-> j, from |-> t[1], status |-> "canceled"]
    BY <1>0, Zenon DEF Messages, Answers
  <2>2. bus' = Put(bus, Req, m) /\ UNCHANGED <<run, grp>>
    BY <1>6, <2>1, Zenon DEF SendCanceled
  <2>3. \A w \in Workers : bus'[w] = bus[w]
    BY <1>0, <2>2, PutApart, Zenon DEF Types, Nodes
  <2> QED
    BY <2>2, <2>3, OnceFrame, Zenon
<1>7. ASSUME NEW j \in Jobs, StopHandler(t, j) PROVE OnceInv'
  <2>1. run' = [run EXCEPT ![<<t[1], j>>].off = TRUE] /\ UNCHANGED <<bus, grp>>
    BY <1>7, Zenon DEF StopHandler
  <2>2. \A w \in Workers, k \in Jobs : run'[<<w, k>>].pc = run[<<w, k>>].pc
    BY <2>1, OffKeeps
  <2> QED
    BY <2>1, <2>2, OnceFrame, Zenon
<1> QED
  BY <1>2, <1>3, <1>4, <1>5, <1>6, <1>7, Zenon DEF Serves

(* What the delivery goroutines do.                                        *)
LEMMA OnceDeliver ==
  ASSUME Types, OnceInv, NEW n \in Nodes, Deliver(n)
  PROVE  OnceInv'
<1>0. \A w \in Workers : w \in Nodes /\ w # Req
  BY NamesAssumption, Zenon DEF Nodes
<1>1. bus[n].data \in Seq(Messages) /\ bus[n].routed \in Seq(Messages)
  BY Zenon DEF Types, Queues
<1>2. CASE Route(n)
  <2> DEFINE h == Head(bus[n].data)
  <2>1. /\ bus'[n].data = Tail(bus[n].data) /\ bus'[n].routed = Append(bus[n].routed, h)
        /\ \A v \in Nodes \ {n} : bus'[v] = bus[v]
        /\ bus[n].data # <<>> /\ UNCHANGED <<run, grp>>
    BY <1>2, Zenon DEF Types, Route, Queues
  <2>2. h \in Messages
    BY <1>1, <2>1
  <2> HIDE DEF h
  <2>3. ASSUME NEW w \in Workers, NEW j \in Jobs PROVE AskedOnce(w, j)'
    <3>0. AskedOnce(w, j)
      BY Zenon DEF OnceInv
    <3>1. CASE w = n
      <4>1. Once(bus[n].data, Ask(j))
        BY <3>0, <3>1, Zenon DEF AskedOnce
      <4>2. /\ Carries(Tail(bus[n].data), Ask(j)) => Carries(bus[n].data, Ask(j))
            /\ h = Ask(j) => Carries(bus[n].data, Ask(j)) /\ ~Carries(Tail(bus[n].data), Ask(j))
            /\ Once(Tail(bus[n].data), Ask(j))
        BY <1>1, <2>1, <4>1, TakenOnce, Zenon DEF h
      <4>3. /\ Carries(Append(bus[n].routed, h), Ask(j)) <=>
                 Carries(bus[n].routed, Ask(j)) \/ h = Ask(j)
            /\ Once(bus[n].routed, Ask(j)) /\ ~(Carries(bus[n].routed, Ask(j)) /\ h = Ask(j)) =>
                 Once(Append(bus[n].routed, h), Ask(j))
        BY <1>1, <2>2, AddedOnce, Zenon
      <4> QED
        BY <2>1, <3>0, <3>1, <4>2, <4>3, Zenon DEF AskedOnce
    <3>2. CASE w # n
      <4>1. bus'[w] = bus[w]
        BY <1>0, <2>1, <3>2, Zenon
      <4> QED
        BY <2>1, <3>0, <4>1, Zenon DEF AskedOnce
    <3> QED
      BY <3>1, <3>2, Zenon
  <2> QED
    BY <2>3, Zenon DEF OnceInv
<1>3. CASE n \in Workers /\ HandleJobRequest(n)
  <2>1. PICK j \in Jobs :
          /\ Message(n, "data") = Ask(j) /\ run[<<n, j>>].pc = "none"
          /\ run'[<<n, j>>].pc = "waiting"
          /\ \A p \in Workers \X Jobs : p # <<n, j>> => run'[p] = run[p]
    BY <1>3, RequestComes, Zenon
  <2>2. /\ bus'[n].data = bus[n].data /\ bus'[n].routed = Tail(bus[n].routed)
        /\ \A v \in Nodes \ {n} : bus'[v] = bus[v]
        /\ bus[n].routed # <<>> /\ Head(bus[n].routed) = Ask(j) /\ UNCHANGED grp
    BY <1>3, <2>1 DEF Types, HandleJobRequest, Taken, Queues, Takes, Waiting, Message
  <2>3. ASSUME NEW k \in Jobs
        PROVE  /\ Carries(Tail(bus[n].routed), Ask(k)) => Carries(bus[n].routed, Ask(k))
               /\ Once(bus[n].routed, Ask(k)) => Once(Tail(bus[n].routed), Ask(k))
               /\ Head(bus[n].routed) = Ask(k) => Carries(bus[n].routed, Ask(k))
               /\ Once(bus[n].routed, Ask(k)) /\ Head(bus[n].routed) = Ask(k) =>
                    ~Carries(Tail(bus[n].routed), Ask(k))
    BY <1>1, <2>2, TakenOnce, Zenon
  <2>4. ASSUME NEW w \in Workers, NEW k \in Jobs PROVE AskedOnce(w, k)'
    <3>0. AskedOnce(w, k)
      BY Zenon DEF OnceInv
    <3>1. CASE w # n
      <4>1. <<w, k>> \in Workers \X Jobs /\ <<w, k>> # <<n, j>>
        BY <3>1, Zenon
      <4>2. run'[<<w, k>>] = run[<<w, k>>] /\ bus'[w] = bus[w]
        BY <1>0, <2>1, <2>2, <3>1, <4>1, Zenon
      <4> QED
        BY <2>2, <3>0, <4>2, Zenon DEF AskedOnce
    <3>2. CASE w = n /\ k # j
      <4>1. <<w, k>> \in Workers \X Jobs /\ <<w, k>> # <<n, j>>
        BY <3>2, Zenon
      <4>2. run'[<<w, k>>] = run[<<w, k>>]
        BY <2>1, <4>1, Zenon
      <4> QED
        BY <2>2, <2>3, <3>0, <3>2, <4>2, Zenon DEF AskedOnce
    <3>3. CASE w = n /\ k = j
      BY <2>1, <2>2, <2>3, <3>0, <3>3, Zenon DEF AskedOnce
    <3> QED
      BY <3>1, <3>2, <3>3, Zenon
  <2> QED
    BY <2>4, Zenon DEF OnceInv
<1>4. CASE n \in Workers /\ HandleJobCancel(n)
  <2>1. \A p \in Workers \X Jobs : run'[p].pc = run[p].pc
    <3>1. run' = run \/ run' = [run EXCEPT ![<<n, Message(n, "system").job>>].off = TRUE]
      BY <1>4, Zenon DEF HandleJobCancel
    <3>2. CASE run' = run
      BY <3>2, Zenon
    <3>3. CASE run' = [run EXCEPT ![<<n, Message(n, "system").job>>].off = TRUE]
      BY <3>3, OffKeeps, Zenon DEF Types
    <3> QED
      BY <3>1, <3>2, <3>3, Zenon
  <2>2. \A w \in Workers : bus'[w].data = bus[w].data /\ bus'[w].routed = bus[w].routed
    BY <1>0, <1>4 DEF HandleJobCancel, Taken, Queues
  <2>3. UNCHANGED grp
    BY <1>4, Zenon DEF HandleJobCancel
  <2> QED
    BY <2>1, <2>2, <2>3, OnceFrame, Zenon
<1>5. CASE n \in Workers /\ HandlerStopped(n)
  BY <1>5, OnceFrame, Zenon DEF HandlerStopped
<1>6. ASSUME NEW band \in {"system", "data"}, HandleJobResponse(band) PROVE OnceInv'
  <2>1. \A w \in Workers : bus'[w] = bus[w]
    BY <1>0, <1>6 DEF HandleJobResponse, Taken
  <2> QED
    BY <1>6, <2>1, OnceFrame, Zenon DEF HandleJobResponse
<1> QED
  BY <1>2, <1>3, <1>4, <1>5, <1>6, Zenon DEF Deliver

(* Every step leaves each request in one place.                            *)
LEMMA OnceNext == IInv /\ OnceInv /\ [Next]_vars => OnceInv'
<1> SUFFICES ASSUME Types, SaysInv, OnceInv, [Next]_vars PROVE OnceInv'
  BY TypesOK, Zenon DEF IInv
<1>0. \A w \in Workers : w \in Nodes /\ w # Req
  BY NamesAssumption, Zenon DEF Nodes
<1>1. CASE UNCHANGED vars
  BY <1>1, OnceFrame, Zenon DEF vars
<1>2. ASSUME NEW w \in Workers, NEW j \in Jobs, Handler(w, j) PROVE OnceInv'
  <2>1. \A v \in Workers, k \in Jobs :
          run'[<<v, k>>].pc = "none" <=> run[<<v, k>>].pc = "none"
    BY <1>2, HandlerMoves, Zenon
  <2>2. \A v \in Workers : bus'[v] = bus[v]
    <3>1. CASE HandlerSends(w, j)
      <4>1. run[<<w, j>>].says \in Told
        BY <3>1, Zenon DEF HandlerSends, SaysInv
      <4>2. PICK m \in Messages :
              m = [kind |-> run[<<w, j>>].says[1], job |-> j, from |-> w,
                   status |-> run[<<w, j>>].says[2]]
        BY <4>1, Zenon DEF Told, Messages, Answers
      <4>3. bus' = Put(bus, Req, m)
        BY <3>1, <4>2, Zenon DEF HandlerSends
      <4> QED
        BY <1>0, <4>3, PutApart, Zenon DEF Nodes, Types
    <3>2. CASE ~HandlerSends(w, j)
      BY <1>2, <3>2, Zenon DEF Handler, StartHandler, HandlerAnswers, HandlerReturns
    <3> QED
      BY <3>1, <3>2, Zenon
  <2>3. UNCHANGED grp
    BY <1>2, Zenon DEF Handler, StartHandler, HandlerAnswers, HandlerSends, HandlerReturns
  <2> QED
    BY <2>1, <2>2, <2>3, OnceFrame, Zenon
<1>3. ASSUME NEW s \in sc.stops, AskToStop(s[1], s[2]) PROVE OnceInv'
  <2>1. s[1] \in Workers /\ s[2] \in {"endWorker", "cancelWorker"}
    BY <1>3, ScenarioType, Zenon DEF Types
  <2>2. PICK w \in Workers : w = s[1]
    BY <2>1, Zenon
  <2>3. PICK m \in Messages : m = [kind |-> s[2]]
    BY <2>1, Zenon DEF Messages
  <2>4. bus' = Put(bus, w, m) /\ UNCHANGED <<run, grp>>
    BY <1>3, <2>2, <2>3, Zenon DEF AskToStop
  <2>5. \A v \in Workers \ {w} : bus'[v] = bus[v]
    BY <1>0, <2>4, PutApart, Zenon DEF Types
  <2>6. CASE s[2] = "cancelWorker"
    <3>1. bus'[w].data = bus[w].data /\ bus'[w].routed = bus[w].routed
      BY <1>0, <2>3, <2>4, <2>6, Zenon DEF Put, System, Types, Queues
    <3> QED
      BY <2>4, <2>5, <3>1, OnceFrame, Zenon
  <2>7. CASE s[2] = "endWorker"
    <3>1. bus'[w].data = Append(bus[w].data, m) /\ bus'[w].routed = bus[w].routed
      BY <1>0, <2>3, <2>4, <2>7, Zenon DEF Put, System, Types, Queues
    <3>2. m.kind = "endWorker" /\ \A j \in Jobs : Ask(j).kind = "request"
      BY <2>3, <2>7, Zenon DEF Ask
    <3>3. \A j \in Jobs : m # Ask(j)
      BY <3>2, Zenon
    <3>4. bus[w].data \in Seq(Messages)
      BY <1>0, Zenon DEF Types, Queues
    <3>5. ASSUME NEW j \in Jobs
          PROVE  /\ Carries(Append(bus[w].data, m), Ask(j)) <=> Carries(bus[w].data, Ask(j))
                 /\ Once(bus[w].data, Ask(j)) => Once(Append(bus[w].data, m), Ask(j))
      BY <3>3, <3>4, AddedOnce, Zenon
    <3>6. ASSUME NEW v \in Workers, NEW j \in Jobs PROVE AskedOnce(v, j)'
      <4>0. AskedOnce(v, j)
        BY Zenon DEF OnceInv
      <4>1. CASE v = w
        BY <2>4, <3>1, <3>5, <4>0, <4>1, Zenon DEF AskedOnce
      <4>2. CASE v # w
        BY <2>4, <2>5, <4>0, <4>2, Zenon DEF AskedOnce
      <4> QED
        BY <4>1, <4>2, Zenon
    <3> QED
      BY <3>6, Zenon DEF OnceInv
  <2> QED
    BY <2>1, <2>6, <2>7, Zenon
<1> QED
  BY <1>1, <1>2, <1>3, OnceOthers, OnceAsked, OnceServes, OnceDeliver, Zenon DEF Next, Progress

(* In the first state nothing has been sent, and nothing has come.         *)
LEMMA TurnsInit == Init => OnceInv /\ KnownInv /\ TurnInv
<1> SUFFICES ASSUME Init PROVE OnceInv /\ KnownInv /\ TurnInv
  OBVIOUS
<1>1. \A w \in Workers : w \in Nodes /\ bus[w].data = <<>> /\ bus[w].routed = <<>>
  BY Zenon DEF Init, Nodes
<1>2. \A w \in Workers, j \in Jobs : run[<<w, j>>].pc = "none" /\ ~run[<<w, j>>].off
  BY Zenon DEF Init
<1>3. \A w \in Workers : base[w].handlers = {} /\ base[w].turn = NoJob
  BY Zenon DEF Init
<1>4. \A t \in Serving : thr[t].pc = "idle"
  BY Zenon DEF Init, Serving, Threads, Delivery, Nodes, Idle
<1>5. \A j \in Jobs : grp[j].unsent = {}
  BY Zenon DEF Init
<1>6. OnceInv
  <2>1. \A m : Once(<<>>, m) /\ ~Carries(<<>>, m)
    BY DEF Once, Carries
  <2> QED
    BY <1>1, <1>2, <1>5, <2>1, Zenon DEF OnceInv, AskedOnce
<1>7. KnownInv
  BY <1>2, <1>3, <1>4, Zenon DEF KnownInv
<1>8. ASSUME NEW w \in Workers PROVE \E b \in [Jobs -> SUBSET Jobs] : InOrder(w, b)
  <2>1. Come(w) = {}
    BY <1>2, Zenon DEF Come
  <2>2. PICK b \in [Jobs -> SUBSET Jobs] : b = [j \in Jobs |-> {}]
    BY Zenon
  <2>3. InOrder(w, b)
    BY <1>3, <2>1, <2>2, Zenon DEF InOrder
  <2> QED
    BY <2>3, Zenon
<1> QED
  BY <1>6, <1>7, <1>8, Zenon DEF TurnInv

(* jobs.go, a handler declared sequential: "one at a time, in the order they *)
(* arrived".  Of any number of requests at most one is being handled, and  *)
(* only once the one before it has returned, while none is called off.     *)
THEOREM TurnsKept == Spec => []SequentialTurns
<1>1. TurnInv => SequentialTurns
  <2> SUFFICES ASSUME TurnInv, NEW w \in Workers, sc.sequential,
                      \A j \in Jobs : ~run[<<w, j>>].off
               PROVE  /\ \A j, k \in Busy(w) : j = k
                      /\ \A j \in Busy(w) : run[<<w, j>>].wait # NoJob =>
                             run[<<w, run[<<w, j>>].wait>>].pc = "returned"
    BY Zenon DEF SequentialTurns
  <2>1. PICK b \in [Jobs -> SUBSET Jobs] : InOrder(w, b)
    BY Zenon DEF TurnInv, NoneOff
  <2>2. \A j \in Busy(w) : j \in Come(w) /\ run[<<w, j>>].pc \in {"running", "sending"}
    BY Zenon DEF Busy, Come
  <2>3. ASSUME NEW j \in Busy(w), NEW k \in Busy(w) PROVE j = k
    <3>1. j \in Come(w) /\ k \in Come(w) /\ run[<<w, j>>].pc # "returned"
          /\ run[<<w, k>>].pc # "returned"
      BY <2>2, Zenon
    <3>2. k \notin b[j] /\ j \notin b[k]
      BY <2>1, <2>2, <3>1, Zenon DEF InOrder
    <3> QED
      BY <2>1, <3>1, <3>2, Zenon DEF InOrder
  <2>5. ASSUME NEW j \in Busy(w), run[<<w, j>>].wait # NoJob
        PROVE  run[<<w, run[<<w, j>>].wait>>].pc = "returned"
    BY <2>1, <2>2, <2>5 DEF InOrder
  <2> QED
    BY <2>3, <2>5, Zenon
<1>2. /\ IInv /\ OnceInv /\ KnownInv /\ TurnInv /\ [Next]_vars
          => OnceInv' /\ KnownInv' /\ TurnInv'
  BY OnceNext, KnownNext, TurnNext, Zenon
<1> QED
  BY <1>1, <1>2, TurnsInit, Invariant, PTL DEF Spec
=============================================================================
