--------------------------- MODULE FailoverProofs ---------------------------
(***************************************************************************)
(* A service switcher never leaves a dead service active and unattended,   *)
(* and announces what is true, for any number of services, errors,         *)
(* switches and recoveries.                                                *)
(***************************************************************************)
EXTENDS Failover, TLAPS

\* Whoever is about to set the active service holds the mutex, and what it is
\* about to set can work, or has failed since and its error is still waiting:
\* handleServiceError needs the mutex to take it.
MutexInv ==
    /\ mu # Nobody => thread[mu].pc = "set"
    /\ \A t \in Threads : thread[t].pc = "set" =>
         /\ mu = t
         /\ usable[thread[t].cand] \/ errors[thread[t].cand] > 0

\* While no two handlers overlapped: one reading at most is under way, and with
\* no change of usability left to see it is the truth, or what was last announced
\* is.
ReadingInv ==
    ~overlap =>
        /\ \A s, o \in Services : reading[s] # "none" /\ reading[o] # "none" => s = o
        /\ (\A s \in Services : news[s] = 0) =>
             /\ \A s \in Services : reading[s] # "none" =>
                    ((reading[s] = "usable") <=> AnyUsable)
             /\ (\A s \in Services : reading[s] = "none") => (announced <=> AnyUsable)

IInv == TypeOK /\ MutexInv /\ NeverStranded /\ ReadingInv

ThreadType == [pc : Places, cand : Services, offset : Nat]

(* The caller and the mutex's nobody are no services.                      *)
LEMMA Apart == User \notin Services /\ Nobody \notin Threads /\ 1 \in Services /\ N \in Nat
BY ServicesAssumption DEF Services, Threads

(* A service that is looked at is a service.                               *)
LEMMA CandidateType ==
  ASSUME TypeOK, NEW s \in Services
  PROVE  Candidate(s) \in Services
<1>1. thread[s].cand \in Nat /\ thread[s].cand >= 1 /\ thread[s].offset \in Nat
  BY DEF TypeOK, Threads, Services
<1> DEFINE x == thread[s].cand - 1 + thread[s].offset
<1>2. x \in Nat /\ N \in Nat \ {0}
  BY <1>1, ServicesAssumption
<1>3. x % N \in 0..(N - 1)
  <2> HIDE DEF x
  <2> QED BY <1>2
<1> QED
  BY <1>2, <1>3 DEF Candidate, Services

(* The first state satisfies the invariant.                                *)
LEMMA InitInv == Init => IInv
<1> SUFFICES ASSUME Init PROVE IInv
  OBVIOUS
<1>1. TypeOK
  BY Apart, BoundsAssumption, Zenon DEF Init, TypeOK, Idle, Places, Threads
<1>2. MutexInv
  BY Apart DEF Init, MutexInv, Idle
<1>3. NeverStranded
  BY Apart DEF Init, NeverStranded
<1>4. ReadingInv
  BY Apart DEF Init, ReadingInv, AnyUsable
<1> QED
  BY <1>1, <1>2, <1>3, <1>4 DEF IInv

(* Every variable keeps its type.                                          *)
LEMMA TypeNext == TypeOK /\ [Next]_vars => TypeOK'
<1> SUFFICES ASSUME TypeOK, [Next]_vars PROVE TypeOK'
  OBVIOUS
<1> USE Apart
<1>1. ASSUME NEW s \in Services, NEW permanent \in BOOLEAN, ServiceError(s, permanent)
      PROVE  TypeOK'
  BY <1>1 DEF ServiceError, SetUsable, TypeOK
<1>2. ASSUME NEW s \in Services, Recover(s) PROVE TypeOK'
  BY <1>2 DEF Recover, SetUsable, TypeOK
<1>3. ASSUME NEW s \in Services, SwitchTo(s) PROVE TypeOK'
  BY <1>3 DEF SwitchTo, TypeOK, announcing, Places, Threads
<1>4. ASSUME NEW s \in Services, HandleServiceError(s) PROVE TypeOK'
  BY <1>4 DEF HandleServiceError, Goes, TypeOK, announcing, Places, Threads
<1>5. ASSUME NEW s \in Services, HandleError(s) PROVE TypeOK'
  BY <1>5 DEF HandleError, Goes, TypeOK, announcing, Places, Threads
<1>6. ASSUME NEW s \in Services, Pick(s) PROVE TypeOK'
  BY <1>6, CandidateType DEF Pick, Try, Goes, TypeOK, announcing, Places, Threads
<1>7. ASSUME NEW s \in Services, Verdict(s) PROVE TypeOK'
  BY <1>7 DEF Verdict, TypeOK, announcing, Idle, Places, Threads
<1>8. ASSUME NEW t \in Threads, CheckAvailable(t) PROVE TypeOK'
  BY <1>8 DEF CheckAvailable, Goes, TypeOK, announcing, Places
<1>9. ASSUME NEW t \in Threads, SetActive(t) PROVE TypeOK'
  BY <1>9 DEF SetActive, TypeOK, announcing, Idle, Places
<1>10. ASSUME NEW s \in Services, ReadUsable(s) PROVE TypeOK'
  BY <1>10 DEF ReadUsable, TypeOK
<1>11. ASSUME NEW s \in Services, AnnounceUsable(s) PROVE TypeOK'
  BY <1>11 DEF AnnounceUsable, TypeOK
<1>12. CASE UNCHANGED vars
  BY <1>12 DEF vars, TypeOK
<1> QED
  BY <1>1, <1>2, <1>3, <1>4, <1>5, <1>6, <1>7, <1>8, <1>9, <1>10, <1>11, <1>12
  DEF Next, Branch, Strategy

(* A step that leaves the mutex, the candidates and the errors alone       *)
(* leaves MutexInv, and each of the others keeps it.                       *)
LEMMA MutexNext == TypeOK /\ MutexInv /\ [Next]_vars => MutexInv'
<1> SUFFICES ASSUME TypeOK, MutexInv, [Next]_vars PROVE MutexInv'
  OBVIOUS
<1> USE Apart DEF MutexInv
<1>1. ASSUME NEW s \in Services, NEW permanent \in BOOLEAN, ServiceError(s, permanent)
      PROVE  MutexInv'
  BY <1>1 DEF ServiceError, SetUsable, TypeOK
<1>2. ASSUME NEW s \in Services, Recover(s) PROVE MutexInv'
  BY <1>2 DEF Recover, SetUsable, TypeOK
<1>3. ASSUME NEW s \in Services, SwitchTo(s) PROVE MutexInv'
  BY <1>3 DEF SwitchTo, TypeOK, announcing, Threads
<1>4. ASSUME NEW s \in Services, HandleServiceError(s) PROVE MutexInv'
  \* Nobody holds the mutex, so no thread is about to set.
  <2>1. mu' = Nobody /\ \A t \in Threads : thread[t].pc # "set"
    BY <1>4 DEF HandleServiceError
  <2>2. \/ thread' = thread
        \/ thread' = [thread EXCEPT ![s].pc = "judge"]
    BY <1>4 DEF HandleServiceError, Goes
  <2>3. thread \in [Threads -> ThreadType] /\ s \in Threads
    BY DEF TypeOK, ThreadType, Threads
  <2>4. \A t \in Threads : thread'[t].pc # "set"
    <3> HIDE DEF MutexInv
    <3> QED BY <2>1, <2>2, <2>3 DEF ThreadType
  <2> QED
    BY <2>1, <2>4
<1>5. ASSUME NEW s \in Services, HandleError(s) PROVE MutexInv'
  BY <1>5 DEF HandleError, Goes, TypeOK, Threads
<1>6. ASSUME NEW s \in Services, Pick(s) PROVE MutexInv'
  BY <1>6 DEF Pick, Try, Goes, TypeOK, Threads
<1>7. ASSUME NEW s \in Services, Verdict(s) PROVE MutexInv'
  BY <1>7 DEF Verdict, TypeOK, Idle, Threads
<1>8. ASSUME NEW t \in Threads, CheckAvailable(t) PROVE MutexInv'
  <2>1. mu = Nobody /\ UNCHANGED <<usable, errors>> /\ thread \in [Threads -> ThreadType]
    BY <1>8 DEF CheckAvailable, TypeOK, ThreadType
  <2>2. CASE usable[thread[t].cand]
    <3>1. mu' = t /\ thread' = [thread EXCEPT ![t].pc = "set"]
      BY <1>8, <2>2 DEF CheckAvailable, Goes
    <3> QED
      BY <2>1, <2>2, <3>1 DEF ThreadType
  <2>3. CASE ~usable[thread[t].cand]
    <3>1. /\ mu' = Nobody
          /\ \/ thread' = [thread EXCEPT ![t].pc = "idle"]
             \/ thread' = [thread EXCEPT ![t].pc = "verdict"]
      BY <1>8, <2>1, <2>3 DEF CheckAvailable, Goes
    <3> QED
      BY <2>1, <3>1 DEF ThreadType
  <2> QED
    BY <2>2, <2>3
<1>9. ASSUME NEW t \in Threads, SetActive(t) PROVE MutexInv'
  BY <1>9 DEF SetActive, TypeOK, Idle
<1>10. ASSUME NEW s \in Services, ReadUsable(s) \/ AnnounceUsable(s) PROVE MutexInv'
  BY <1>10 DEF ReadUsable, AnnounceUsable
<1>11. CASE UNCHANGED vars
  BY <1>11 DEF vars
<1> QED
  BY <1>1, <1>2, <1>3, <1>4, <1>5, <1>6, <1>7, <1>8, <1>9, <1>10, <1>11
  DEF Next, Branch, Strategy

(* The active service is looked after, whatever step is taken.             *)
LEMMA StrandedNext == TypeOK /\ MutexInv /\ NeverStranded /\ [Next]_vars => NeverStranded'
<1> SUFFICES ASSUME TypeOK, MutexInv, NeverStranded, [Next]_vars PROVE NeverStranded'
  OBVIOUS
<1> USE Apart DEF NeverStranded
<1>1. ASSUME NEW s \in Services, NEW permanent \in BOOLEAN, ServiceError(s, permanent)
      PROVE  NeverStranded'
  BY <1>1 DEF ServiceError, SetUsable, TypeOK
<1>2. ASSUME NEW s \in Services, Recover(s) PROVE NeverStranded'
  BY <1>2 DEF Recover, SetUsable, TypeOK
<1>3. ASSUME NEW s \in Services, SwitchTo(s) PROVE NeverStranded'
  BY <1>3 DEF SwitchTo, TypeOK, announcing, Threads
<1>4. ASSUME NEW s \in Services, HandleServiceError(s) PROVE NeverStranded'
  BY <1>4 DEF HandleServiceError, Goes, TypeOK, Threads
<1>5. ASSUME NEW s \in Services, HandleError(s) PROVE NeverStranded'
  BY <1>5 DEF HandleError, Goes, TypeOK, Threads
<1>6. ASSUME NEW s \in Services, Pick(s) PROVE NeverStranded'
  BY <1>6 DEF Pick, Try, Goes, TypeOK, Threads
<1>7. ASSUME NEW s \in Services, Verdict(s) PROVE NeverStranded'
  BY <1>7 DEF Verdict, TypeOK, Threads
<1>8. ASSUME NEW t \in Threads, CheckAvailable(t) PROVE NeverStranded'
  BY <1>8 DEF CheckAvailable, Goes, TypeOK, Threads
<1>9. ASSUME NEW t \in Threads, SetActive(t) PROVE NeverStranded'
  BY <1>9 DEF SetActive, TypeOK, MutexInv
<1>10. ASSUME NEW s \in Services, ReadUsable(s) \/ AnnounceUsable(s) PROVE NeverStranded'
  BY <1>10 DEF ReadUsable, AnnounceUsable
<1>11. CASE UNCHANGED vars
  BY <1>11 DEF vars
<1> QED
  BY <1>1, <1>2, <1>3, <1>4, <1>5, <1>6, <1>7, <1>8, <1>9, <1>10, <1>11
  DEF Next, Branch, Strategy

(* A change of usability is news until it is read.                         *)
LEMMA ReadingSet ==
  ASSUME TypeOK, ReadingInv, NEW s \in Services, NEW u \in BOOLEAN, SetUsable(s, u)
  PROVE  ReadingInv'
<1>1. CASE usable[s] = u
  <2>1. usable' = usable /\ news' = news
    BY <1>1 DEF SetUsable, TypeOK
  <2> QED
    BY <2>1 DEF SetUsable, ReadingInv, AnyUsable
<1>2. CASE usable[s] # u
  <2>1. news'[s] # 0
    BY <1>2 DEF SetUsable, TypeOK
  <2> QED
    BY <2>1 DEF SetUsable, ReadingInv
<1> QED
  BY <1>1, <1>2

(* What is announced is what was read when nothing was left to see.        *)
LEMMA ReadingNext == TypeOK /\ ReadingInv /\ [Next]_vars => ReadingInv'
<1> SUFFICES ASSUME TypeOK, ReadingInv, [Next]_vars PROVE ReadingInv'
  OBVIOUS
<1>1. ASSUME NEW s \in Services, NEW permanent \in BOOLEAN, ServiceError(s, permanent)
      PROVE  ReadingInv'
  <2>1. (usable[s] /\ ~permanent) \in BOOLEAN
    OBVIOUS
  <2> QED
    BY <1>1, <2>1, ReadingSet, Zenon DEF ServiceError
<1>2. ASSUME NEW s \in Services, Recover(s) PROVE ReadingInv'
  BY <1>2, ReadingSet, Zenon DEF Recover
<1>3. ASSUME NEW s \in Services, ReadUsable(s) PROVE ReadingInv'
  BY <1>3, ZenonT(40) DEF ReadUsable, ReadingInv, AnyUsable, TypeOK
<1>4. ASSUME NEW s \in Services, AnnounceUsable(s) PROVE ReadingInv'
  BY <1>4 DEF AnnounceUsable, ReadingInv, AnyUsable, TypeOK
<1>5. CASE UNCHANGED <<usable, announcing>>
  BY <1>5 DEF ReadingInv, AnyUsable, announcing
<1>6. ASSUME NEW s \in Services, Branch(s) \/ SwitchTo(s) PROVE ReadingInv'
  BY <1>5, <1>6 DEF Branch, HandleServiceError, HandleError, Pick, Verdict, SwitchTo
<1>7. ASSUME NEW t \in Threads, Strategy(t) PROVE ReadingInv'
  BY <1>5, <1>7 DEF Strategy, CheckAvailable, SetActive
<1>8. CASE UNCHANGED vars
  BY <1>5, <1>8 DEF vars, announcing
<1> QED
  BY <1>1, <1>2, <1>3, <1>4, <1>6, <1>7, <1>8 DEF Next

(* The invariant holds in every state of every behaviour.                  *)
LEMMA Invariant == Spec => []IInv
<1>1. IInv /\ [Next]_vars => IInv'
  BY TypeNext, MutexNext, StrandedNext, ReadingNext DEF IInv
<1> QED
  BY <1>1, InitInv, PTL DEF Spec

(* However many services fail, recover and are switched to by hand at the  *)
(* same time, a service that cannot work is active only while its error is *)
(* on its way to the failover strategy, is being handled or has been       *)
(* reported, and an announcement that no other overlapped is the truth.    *)
THEOREM ActiveLookedAfter == Spec => []ActiveUsable
<1>1. IInv => ActiveUsable
  <2> SUFFICES ASSUME IInv PROVE AnnouncedTrue
    BY DEF ActiveUsable, IInv
  <2>1. announced \in BOOLEAN /\ AnyUsable \in BOOLEAN
    BY DEF IInv, TypeOK, AnyUsable
  <2> QED
    BY <2>1 DEF IInv, ReadingInv, AnnouncedTrue, Settled
<1> QED
  BY <1>1, Invariant, PTL

=============================================================================
