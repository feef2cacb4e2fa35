--------------------------- MODULE ServicesProofs ---------------------------
(***************************************************************************)
(* Proofs about the message queue, the graceful shutdown, the              *)
(* configuration, the circuit breaker and the data feed, for all constants *)
(* that satisfy their assumptions.                                         *)
(***************************************************************************)
EXTENDS MessageQueue, GracefulShutdown, ConfigStore, CircuitBreaker, DataFeed, Induction

-----------------------------------------------------------------------------
(* The queue without one of its messages                                   *)

LEMMA WithoutType ==
    ASSUME NEW S, NEW q \in Seq(S), NEW i \in 1..Len(q)
    PROVE  /\ Without(q, i) \in Seq(S)
           /\ Len(Without(q, i)) = Len(q) - 1
           /\ \A j \in 1..(Len(q) - 1) :
                  Without(q, i)[j] = IF j < i THEN q[j] ELSE q[j + 1]
<1>1. Len(q) \in Nat /\ Len(q) - 1 \in Nat
  OBVIOUS
<1>2. \A j \in 1..(Len(q) - 1) : (IF j < i THEN q[j] ELSE q[j + 1]) \in S
  OBVIOUS
<1>3. Without(q, i) \in [1..(Len(q) - 1) -> S]
  BY <1>2 DEF Without
<1> QED BY <1>1, <1>3 DEF Without

(* The bounds in the form the steps need.                                  *)
LEMMA QueueNumbers ==
    /\ MaxSize \in Nat /\ MaxSize >= 1
    /\ HighWatermark \in Nat /\ HighWatermark <= MaxSize
    /\ LowWatermark \in Nat /\ DropBelow \in Nat
    /\ NoSample = MaxSize + 1
BY QueueAssumption DEF NoSample

-----------------------------------------------------------------------------
(* The invariant                                                           *)

LEMMA QueueInitIInv == QueueInit => QueueIInv
<1> SUFFICES ASSUME QueueInit PROVE QueueIInv
  OBVIOUS
<1>1. queue = <<>> /\ queue \in Seq(Priorities) /\ Len(queue) = 0
  BY DEF QueueInit
<1>2. sampled \in 0..NoSample /\ pressure \in 0..MaxSize
  BY QueueNumbers DEF QueueInit
<1>3. shedding \in BOOLEAN
  BY DEF QueueInit
<1>4. QueueTypeOK
  BY <1>1, <1>2, <1>3, QueueNumbers DEF QueueInit, QueueTypeOK
<1>5. QueueAccounted
  BY <1>1, QueueNumbers DEF QueueInit, QueueAccounted, Evicted
<1> QED BY <1>4, <1>5 DEF QueueIInv

(* A message refused is counted as dropped and as refused, and nothing     *)
(* else happens, but that shedding may begin.                              *)
LEMMA RefuseIInv ==
    ASSUME QueueIInv, Refuse, UNCHANGED <<dequeued, cleared, sampled, pressure>>,
           shedding' = shedding \/ shedding' = TRUE
    PROVE  QueueIInv'
<1> USE DEF QueueIInv
<1>1. /\ queue' = queue /\ enqueued' = enqueued
      /\ dropped' = dropped + 1 /\ refused' = refused + 1
  BY DEF Refuse
<1>2. shedding' \in BOOLEAN
  BY DEF QueueTypeOK
<1>3. QueueTypeOK'
  BY <1>1, <1>2 DEF QueueTypeOK
<1>4. QueueAccounted'
  BY <1>1 DEF QueueTypeOK, QueueAccounted, Evicted
<1> QED BY <1>3, <1>4

(* The least urgent message makes room: the length stays, and one more has *)
(* been taken in and one pushed out.                                       *)
LEMMA PutEvictIInv ==
    ASSUME QueueIInv, NEW p \in Priorities, PutEvict(p)
    PROVE  QueueIInv'
<1> USE DEF QueueIInv
<1>1. PICK i \in 1..Len(queue) : queue' = Append(Without(queue, i), p)
  BY DEF PutEvict
<1>2. /\ Without(queue, i) \in Seq(Priorities) /\ Len(Without(queue, i)) = Len(queue) - 1
      /\ Len(queue) \in Nat /\ Len(queue) = MaxSize
  BY WithoutType, QueueNumbers DEF QueueTypeOK, PutEvict, Full
<1>3. queue' \in Seq(Priorities) /\ Len(queue') = Len(queue)
  BY <1>1, <1>2
<1>4. /\ enqueued' = enqueued + 1 /\ dropped' = dropped + 1
      /\ UNCHANGED <<dequeued, refused, cleared, sampled, pressure>>
  BY DEF PutEvict
<1>0. shedding' = IF Len(queue) - 1 >= HighWatermark THEN TRUE
                  ELSE shedding /\ Len(queue') > LowWatermark
  BY DEF PutEvict
<1>5. QueueTypeOK'
  <2>1. shedding' \in BOOLEAN
    BY <1>0 DEF QueueTypeOK
  <2> QED BY <1>2, <1>3, <1>4, <2>1, QueueNumbers DEF QueueTypeOK
<1>6. Len(queue') > HighWatermark => shedding'
  BY <1>0, <1>2, <1>3, QueueNumbers
<1>7. QueueAccounted'
  BY <1>2, <1>3, <1>4, <1>6 DEF QueueTypeOK, QueueAccounted, Evicted
<1> QED BY <1>5, <1>7

(* A message taken in past the high watermark starts the shedding.         *)
LEMMA PutAppendIInv ==
    ASSUME QueueIInv, NEW p \in Priorities, PutAppend(p)
    PROVE  QueueIInv'
<1> USE DEF QueueIInv
<1>0. shedding' = IF Len(queue) >= HighWatermark THEN TRUE
                  ELSE shedding /\ Len(queue') > LowWatermark
  BY DEF PutAppend
<1>1. /\ queue' = Append(queue, p) /\ enqueued' = enqueued + 1
      /\ UNCHANGED <<dequeued, dropped, refused, cleared, sampled, pressure>>
      /\ Len(queue) < MaxSize
  BY QueueNumbers DEF PutAppend, Full, QueueTypeOK
<1>2. /\ queue' \in Seq(Priorities) /\ Len(queue') = Len(queue) + 1 /\ Len(queue) \in Nat
  BY <1>1 DEF QueueTypeOK
<1>3. QueueTypeOK'
  <2>1. shedding' \in BOOLEAN
    BY <1>0 DEF QueueTypeOK
  <2> QED BY <1>1, <1>2, <2>1, QueueNumbers DEF QueueTypeOK
<1>4. Len(queue') > HighWatermark => shedding'
  BY <1>0, <1>1, <1>2, QueueNumbers
<1>5. QueueAccounted'
  BY <1>1, <1>2, <1>4 DEF QueueTypeOK, QueueAccounted, Evicted
<1> QED BY <1>3, <1>5

(* Messages leave: one, several or all of them.                            *)
LEMMA TakeIInv ==
    ASSUME QueueIInv, Get \/ Drain \/ Clear
    PROVE  QueueIInv'
<1> USE DEF QueueIInv
<1>0. queue \in Seq(Priorities) /\ Len(queue) \in Nat /\ Len(queue) <= MaxSize
  BY DEF QueueTypeOK
<1>1. CASE Get
  <2>1. PICK i \in 1..Len(queue) : queue' = Without(queue, i)
    BY <1>1 DEF Get
  <2>2. queue' \in Seq(Priorities) /\ Len(queue') = Len(queue) - 1 /\ Len(queue') \in Nat
    BY <1>0, <2>1, WithoutType
  <2>3. /\ dequeued' = dequeued + 1
        /\ UNCHANGED <<shedding, enqueued, dropped, refused, cleared, sampled, pressure>>
    BY <1>1 DEF Get
  <2>4. QueueTypeOK' /\ QueueAccounted'
    BY <1>0, <2>2, <2>3, QueueNumbers DEF QueueTypeOK, QueueAccounted, Evicted
  <2> QED BY <2>4
<1>2. CASE Drain
  <2>1. PICK n \in 1..Len(queue) :
           queue' = SubSeq(queue, n + 1, Len(queue)) /\ dequeued' = dequeued + n
    BY <1>2 DEF Drain
  <2>2. queue' \in Seq(Priorities) /\ Len(queue') = Len(queue) - n /\ Len(queue') \in Nat
    BY <1>0, <2>1
  <2>3. UNCHANGED <<shedding, enqueued, dropped, refused, cleared, sampled, pressure>>
    BY <1>2 DEF Drain
  <2>4. QueueTypeOK'
    BY <1>0, <2>1, <2>2, <2>3, QueueNumbers DEF QueueTypeOK
  <2>5. Len(queue') > HighWatermark => shedding'
    BY <1>0, <2>2, <2>3, QueueNumbers DEF QueueAccounted
  <2>6. QueueAccounted'
    <3>1. n \in Nat /\ Len(queue') = Len(queue) - n
      BY <1>0, <2>2
    <3>2. enqueued = dequeued + (dropped - refused) + cleared + Len(queue)
      BY DEF QueueAccounted, Evicted
    <3>3. enqueued = (dequeued + n) + (dropped - refused) + cleared + (Len(queue) - n)
      BY <1>0, <3>1, <3>2 DEF QueueTypeOK
    <3> QED BY <2>1, <2>3, <2>5, <3>1, <3>3 DEF QueueAccounted, Evicted
  <2> QED BY <2>4, <2>6
<1>3. CASE Clear
  <2>1. queue' = <<>> /\ queue' \in Seq(Priorities) /\ Len(queue') = 0
    BY <1>3 DEF Clear
  <2>2. /\ cleared' = cleared + Len(queue)
        /\ UNCHANGED <<shedding, enqueued, dequeued, dropped, refused, sampled, pressure>>
    BY <1>3 DEF Clear
  <2>3. QueueTypeOK' /\ QueueAccounted'
    BY <1>0, <2>1, <2>2, QueueNumbers DEF QueueTypeOK, QueueAccounted, Evicted
  <2> QED BY <2>3
<1> QED BY <1>1, <1>2, <1>3

(* The monitor touches the pressure only.                                  *)
LEMMA MonitorIInv ==
    ASSUME QueueIInv, Sample \/ Adjust
    PROVE  QueueIInv'
<1> USE DEF QueueIInv
<1>1. UNCHANGED <<queue, shedding, enqueued, dequeued, dropped, refused, cleared>>
  BY DEF Sample, Adjust
<1>2. Len(queue) \in Nat
  BY DEF QueueTypeOK
<1>3. sampled' \in 0..NoSample /\ pressure' \in 0..MaxSize
  <2>1. CASE Sample
    BY <1>2, <2>1, QueueNumbers DEF Sample, QueueTypeOK
  <2>2. CASE Adjust
    BY <2>2, QueueNumbers DEF Adjust, QueueTypeOK
  <2> QED BY <2>1, <2>2
<1> QED BY <1>1, <1>3 DEF QueueTypeOK, QueueAccounted, Evicted

LEMMA PutIInv ==
    ASSUME QueueIInv, NEW p \in Priorities, Put(p)
    PROVE  QueueIInv'
<1>1. CASE PutFull(p)
  BY <1>1, RefuseIInv DEF PutFull
<1>2. CASE PutShed(p)
  BY <1>2, RefuseIInv DEF PutShed
<1> QED BY <1>1, <1>2, PutEvictIInv, PutAppendIInv DEF Put

LEMMA QueueNextIInv == QueueIInv /\ [QueueNext]_queueVars => QueueIInv'
<1>1. QueueIInv /\ UNCHANGED queueVars => QueueIInv'
  BY DEF queueVars, QueueIInv, QueueTypeOK, QueueAccounted, Evicted
<1> QED BY <1>1, PutIInv, TakeIInv, MonitorIInv DEF QueueNext

(* QueueBalances: what was taken in was taken out, pushed out, thrown away *)
(* or waits, in a queue that never outgrows its bound and sheds above its  *)
(* high watermark (backpressure.py:151-249).                               *)
THEOREM QueueBalances == QueueSpec => []QueueAccounted
<1>1. QueueIInv => QueueAccounted
  BY DEF QueueIInv
<1> QED BY <1>1, QueueInitIInv, QueueNextIInv, PTL DEF QueueSpec

-----------------------------------------------------------------------------
(* Critical messages                                                       *)

(* A queue that loses a message less urgent than critical and gains        *)
(* another has no fewer critical ones: each of them is still there, where  *)
(* it was or one place further to the front.                               *)
LEMMA CriticalKept ==
    ASSUME NEW q \in Seq(Priorities), NEW i \in 1..Len(q), q[i] # Critical,
           NEW p \in Priorities
    PROVE  CriticalIn(Append(Without(q, i), p)) >= CriticalIn(q)
<1> DEFINE r == Append(Without(q, i), p)
           S == {j \in 1..Len(q) : q[j] = Critical}
           T == {j \in 1..Len(r) : r[j] = Critical}
           f == [j \in S |-> IF j < i THEN j ELSE j - 1]
<1>1. Len(q) \in Nat /\ Without(q, i) \in Seq(Priorities) /\ Len(Without(q, i)) = Len(q) - 1
  BY WithoutType
<1>2. /\ Len(r) = Len(q)
      /\ \A j \in 1..(Len(q) - 1) : r[j] = IF j < i THEN q[j] ELSE q[j + 1]
  <2>1. Len(r) = Len(q) /\ \A j \in 1..(Len(q) - 1) : r[j] = Without(q, i)[j]
    BY <1>1
  <2> QED BY <2>1, WithoutType
<1> HIDE DEF r
<1>3. \A j \in S : f[j] \in T
  <2>1. SUFFICES ASSUME NEW j \in S PROVE f[j] \in T
    OBVIOUS
  <2>2. j \in 1..Len(q) /\ q[j] = Critical /\ j # i
    OBVIOUS
  <2>3. CASE j < i
    <3>1. f[j] = j /\ j \in 1..(Len(q) - 1) /\ j \in 1..Len(r)
      BY <1>1, <1>2, <2>2, <2>3
    <3> QED BY <1>2, <2>2, <2>3, <3>1
  <2>4. CASE j > i
    <3>1. /\ f[j] = j - 1 /\ j - 1 \in 1..(Len(q) - 1) /\ ~(j - 1 < i) /\ (j - 1) + 1 = j
          /\ j - 1 \in 1..Len(r)
      BY <1>1, <1>2, <2>2, <2>4
    <3>2. r[j - 1] = q[j]
      BY <1>2, <3>1
    <3> QED BY <2>2, <3>1, <3>2
  <2> QED BY <1>1, <2>2, <2>3, <2>4
<1>4. \A j, k \in S : f[j] = f[k] => j = k
  BY <1>1
<1>5. f \in Injection(S, T)
  BY <1>3, <1>4 DEF Injection, IsInjective
<1>6. IsFiniteSet(T)
  <2>1. IsFiniteSet(1..Len(r))
    <3>1. 1 \in Int /\ Len(r) \in Int
      BY <1>1, <1>2
    <3> QED BY <3>1, FS_Interval
  <2> QED BY <2>1, FS_Subset
<1>7. Cardinality(S) <= Cardinality(T)
  BY <1>5, <1>6, FS_Injection
<1>8. Cardinality(S) \in Nat /\ Cardinality(T) \in Nat
  <2>1. IsFiniteSet(S)
    BY <1>5, <1>6, FS_Injection
  <2> QED BY <1>6, <2>1, FS_CardinalityType
<1> QED BY <1>7, <1>8 DEF CriticalIn, r

(* A message that is not critical outlives no eviction before the critical *)
(* ones: as long as there is one, the one evicted is not critical.         *)
LEMMA EvictedIsNotCritical ==
    ASSUME QueueIInv, CriticalIn(queue) < Len(queue), NEW i, IsWorst(queue, i)
    PROVE  i \in 1..Len(queue) /\ queue[i] # Critical
<1>1. queue \in Seq(Priorities) /\ Len(queue) \in Nat /\ i \in 1..Len(queue)
  BY DEF QueueIInv, QueueTypeOK, IsWorst
<1>2. \A j \in 1..Len(queue) : queue[j] \in Nat
  <2>1. Priorities \subseteq Nat
    BY QueueAssumption
  <2>2. \A j \in 1..Len(queue) : queue[j] \in Priorities
    BY <1>1
  <2> QED BY <2>1, <2>2
<1>3. \E j \in 1..Len(queue) : queue[j] # Critical
  <2>1. SUFFICES ASSUME \A j \in 1..Len(queue) : queue[j] = Critical PROVE FALSE
    OBVIOUS
  <2>2. {j \in 1..Len(queue) : queue[j] = Critical} = 1..Len(queue)
    BY <2>1
  <2>3. Cardinality(1..Len(queue)) = Len(queue)
    BY <1>1, FS_Interval
  <2>4. CriticalIn(queue) = Len(queue)
    BY <2>2, <2>3 DEF CriticalIn
  <2> QED BY <1>1, <2>4
<1> QED BY <1>1, <1>2, <1>3 DEF IsWorst, Critical

(* CriticalMessagesLast: while a message queued is not critical, no put    *)
(* costs a critical one its place, for any priorities and sizes            *)
(* (backpressure.py:235-249).                                              *)
THEOREM CriticalMessagesLast == QueueSpec => CriticalLostLast
<1>1. QueueIInv /\ [QueueNext]_queueVars
        => [(dropped' > dropped /\ CriticalIn(queue) < Len(queue))
               => CriticalIn(queue') >= CriticalIn(queue)]_queueVars
  <2> SUFFICES ASSUME QueueIInv, QueueNext, dropped' > dropped,
                      CriticalIn(queue) < Len(queue)
               PROVE  CriticalIn(queue') >= CriticalIn(queue)
    OBVIOUS
  <2>1. dropped \in Nat /\ queue \in Seq(Priorities) /\ dropped' # dropped
    BY DEF QueueIInv, QueueTypeOK
  <2>2. PICK p \in Priorities : PutFull(p) \/ PutEvict(p) \/ PutShed(p)
    BY <2>1 DEF QueueNext, Put, PutAppend, Get, Drain, Clear, Sample, Adjust
  <2>3. CASE PutFull(p) \/ PutShed(p)
    <3>1. queue' = queue
      BY <2>3 DEF PutFull, PutShed, Refuse
    <3>2. CriticalIn(queue) \in Nat
      <4>1. IsFiniteSet(1..Len(queue))
        BY <2>1, FS_Interval
      <4>2. IsFiniteSet({j \in 1..Len(queue) : queue[j] = Critical})
        BY <4>1, FS_Subset
      <4> QED BY <4>2, FS_CardinalityType DEF CriticalIn
    <3> QED BY <3>1, <3>2
  <2>4. CASE PutEvict(p)
    <3>1. PICK i \in 1..Len(queue) :
             IsWorst(queue, i) /\ queue' = Append(Without(queue, i), p)
      BY <2>4 DEF PutEvict
    <3> QED BY <2>1, <3>1, EvictedIsNotCritical, CriticalKept
  <2> QED BY <2>2, <2>3, <2>4
<1> QED BY <1>1, QueueInitIInv, QueueNextIInv, PTL DEF QueueSpec, CriticalLostLast

-----------------------------------------------------------------------------
(* The graceful shutdown                                                   *)

(* The two kinds and their phases.                                         *)
LEMMA AfterPhases ==
    ASSUME NEW k \in Kinds
    PROVE  /\ k \in Phases /\ k # "idle" /\ After(k) \in Phases
           /\ k = "orders" => After(k) = "positions"
           /\ k = "positions" => After(k) = "persist"
           /\ k = "orders" \/ k = "positions"
BY DEF Kinds, Phases, After

LEMMA SdInitIInv == SdInit => SdIInv
<1> SUFFICES ASSUME SdInit PROVE SdIInv
  OBVIOUS
<1>1. callbacks = <<>> /\ callbacks \in Seq(1..Len(CbPhases)) /\ Len(callbacks) = 0
  BY DEF SdInit
<1>2. MaxCallbacks \in Nat /\ MaxSignals \in Nat
  BY ShutdownAssumption
<1>3. SdTypeOK
  <2>1. /\ sdPhase \in Phases /\ runner \in {"none", "daemon", "main"}
        /\ saved = NotSaved /\ asked \in SUBSET Kinds
    BY DEF SdInit, Phases
  <2>2. exited \in BOOLEAN /\ late \in BOOLEAN /\ ok \in BOOLEAN
    BY DEF SdInit
  <2>3. /\ claims \in Nat /\ threads \in 0..MaxSignals /\ signals \in 0..MaxSignals
        /\ cbNext \in 1..(MaxCallbacks + 1) /\ cbRuns \in 0..MaxCallbacks
    BY <1>2 DEF SdInit
  <2>4. /\ existing \in [Kinds -> SUBSET SdItems] /\ listed \in [Kinds -> SUBSET SdItems]
        /\ passed \in [Kinds -> SUBSET SdItems] /\ provider \in [Kinds -> Providers]
        /\ tried \in [Kinds -> SUBSET SdItems] /\ cbStarted \in [1..MaxCallbacks -> Nat]
    BY DEF SdInit, Providers
  <2> QED BY <1>1, <2>1, <2>2, <2>3, <2>4 DEF SdTypeOK
<1>4. RunnerInv
  BY DEF SdInit, RunnerInv
<1>5. CallbackInv
  BY <1>1, <1>2 DEF SdInit, CallbackInv
<1>6. PassedInv /\ ProgressInv
  BY DEF SdInit, PassedInv, ProgressInv
<1> QED BY <1>3, <1>4, <1>5, <1>6 DEF SdIInv

-----------------------------------------------------------------------------
(* Around the sequence                                                     *)

(* A provider is registered before the shutdown has begun.                 *)
LEMMA ProviderIInv ==
    ASSUME SdIInv, NEW k \in Kinds, NEW p \in Providers, RegisterProvider(k, p)
    PROVE  SdIInv'
<1> USE DEF SdIInv
<1>1. /\ sdPhase = "idle" /\ provider' \in [Kinds -> Providers]
      /\ UNCHANGED <<sdPhase, runner, claims, threads, signals, exited, late, ok, existing,
                     listed, passed, tried, asked, saved, callbacks, cbNext, cbRuns, cbStarted>>
  BY DEF RegisterProvider, threadVars, workVars, SdTypeOK
<1>2. SdTypeOK'
  BY <1>1 DEF SdTypeOK
<1>3. RunnerInv' /\ CallbackInv'
  BY <1>1 DEF RunnerInv, CallbackInv, ForCleanup
<1>4. PassedInv' /\ ProgressInv'
  BY <1>1 DEF PassedInv, ProgressInv
<1> QED BY <1>2, <1>3, <1>4

(* A callback takes its place among the callbacks before it has begun.     *)
LEMMA RegisterIInv ==
    ASSUME SdIInv, NEW rank \in 1..Len(CbPhases), RegisterCleanup(rank)
    PROVE  SdIInv'
<1> USE DEF SdIInv
<1> DEFINE before == {i \in 1..Len(callbacks) : callbacks[i] <= rank}
           n == Cardinality(before)
           R == 1..Len(CbPhases)
<1>1. callbacks \in Seq(R) /\ Len(callbacks) \in Nat /\ MaxCallbacks \in Nat
  BY ShutdownAssumption DEF SdTypeOK
<1>2. n \in Nat /\ n <= Len(callbacks)
  <2>1. IsFiniteSet(1..Len(callbacks)) /\ Cardinality(1..Len(callbacks)) = Len(callbacks)
    <3>1. \A m \in Nat : IsFiniteSet(1..m) /\ Cardinality(1..m) = m
      BY FS_Interval
    <3> QED BY <1>1, <3>1
  <2> QED BY <2>1, FS_Subset, FS_CardinalityType
<1>3. callbacks' = SubSeq(callbacks, 1, n) \o <<rank>> \o SubSeq(callbacks, n + 1, Len(callbacks))
  BY DEF RegisterCleanup
<1> HIDE DEF n
<1>4. callbacks' \in Seq(R) /\ Len(callbacks') = Len(callbacks) + 1
  <2>1. SubSeq(callbacks, 1, n) \in Seq(R) /\ Len(SubSeq(callbacks, 1, n)) = n
    BY <1>1, <1>2
  <2>2. /\ SubSeq(callbacks, n + 1, Len(callbacks)) \in Seq(R)
        /\ Len(SubSeq(callbacks, n + 1, Len(callbacks))) = Len(callbacks) - n
    BY <1>1, <1>2
  <2>3. <<rank>> \in Seq(R) /\ Len(<<rank>>) = 1
    OBVIOUS
  <2> DEFINE a == SubSeq(callbacks, 1, n)
             b == SubSeq(callbacks, n + 1, Len(callbacks))
             c == <<rank>>
  <2> HIDE DEF a, b, c, R
  <2>4. a \in Seq(R) /\ b \in Seq(R) /\ c \in Seq(R)
    BY <2>1, <2>2, <2>3 DEF a, b, c
  <2>5. a \o c \in Seq(R) /\ Len(a \o c) = Len(a) + Len(c)
    BY <2>4
  <2>6. (a \o c) \o b \in Seq(R) /\ Len((a \o c) \o b) = Len(a) + Len(c) + Len(b)
    BY <2>4, <2>5
  <2>7. callbacks' = (a \o c) \o b
    BY <1>3 DEF a, b, c
  <2>8. Len(a) = n /\ Len(b) = Len(callbacks) - n /\ Len(c) = 1
    BY <2>1, <2>2, <2>3 DEF a, b, c
  <2>9. Len(a) + Len(c) + Len(b) = Len(callbacks) + 1
    BY <1>1, <1>2, <2>8
  <2> QED BY <2>6, <2>7, <2>9
<1>5. /\ sdPhase = "idle" /\ Len(callbacks) < MaxCallbacks
      /\ UNCHANGED <<sdPhase, runner, claims, threads, signals, exited, late, ok, existing,
                     provider, listed, passed, tried, asked, saved, cbNext, cbRuns, cbStarted>>
  BY DEF RegisterCleanup, threadVars, workVars
<1>6. SdTypeOK'
  BY <1>4, <1>5 DEF SdTypeOK
<1>7. RunnerInv'
  BY <1>5 DEF RunnerInv
<1>8. CallbackInv'
  <2>1. cbNext = 1
    BY <1>5 DEF CallbackInv
  <2> QED BY <1>1, <1>4, <1>5, <2>1 DEF CallbackInv
<1>9. PassedInv' /\ ProgressInv'
  BY <1>5 DEF PassedInv, ProgressInv, Done
<1> QED BY <1>6, <1>7, <1>8, <1>9

(* The first caller takes the sequence, a later one leaves it alone.       *)
LEMMA ClaimFacts ==
    ASSUME SdIInv, NEW who \in {"daemon", "main"}, Claim(who),
           UNCHANGED <<late, ok, existing, listed, passed, tried, asked, saved,
                       provider, callbacks, cbNext, cbRuns, cbStarted>>
    PROVE  /\ sdPhase' \in Phases /\ runner' \in {"none", "daemon", "main"} /\ claims' \in Nat
           /\ claims' = IF sdPhase' = "idle" THEN 0 ELSE 1
           /\ runner' = "none" <=> sdPhase' = "idle"
           /\ sdPhase # "idle" => sdPhase' = sdPhase /\ runner' = runner
           /\ CallbackInv' /\ PassedInv' /\ ProgressInv'
<1> USE DEF SdIInv
<1>1. CASE sdPhase = "idle"
  <2>1. sdPhase' = "orders" /\ runner' = who /\ claims' = claims + 1
    BY <1>1 DEF Claim
  <2>2. claims = 0
    BY <1>1 DEF RunnerInv
  <2>3. CallbackInv'
    BY <2>1 DEF CallbackInv, ForCleanup
  <2>4. PassedInv' /\ ProgressInv'
    BY <1>1, <2>1 DEF PassedInv, ProgressInv
  <2> QED BY <1>1, <2>1, <2>2, <2>3, <2>4 DEF Phases
<1>2. CASE sdPhase # "idle"
  <2>1. UNCHANGED <<claims, sdPhase, runner>>
    BY <1>2 DEF Claim
  <2>2. CallbackInv' /\ PassedInv' /\ ProgressInv'
    BY <2>1 DEF CallbackInv, ForCleanup, PassedInv, ProgressInv, Done
  <2> QED BY <1>2, <2>1, <2>2 DEF SdTypeOK, RunnerInv
<1> QED BY <1>1, <1>2

(* Signals, threads, the end of the main thread and of the process.        *)
LEMMA ThreadsIInv ==
    ASSUME SdIInv, Signal \/ ThreadCalls \/ MainEnds \/ MainExits
    PROVE  SdIInv'
<1> USE DEF SdIInv
<1>0. MaxSignals \in Nat
  BY ShutdownAssumption
<1>1. UNCHANGED <<late, ok, existing, listed, passed, tried, asked, saved,
                  provider, callbacks, cbNext, cbRuns, cbStarted>>
  BY DEF Signal, ThreadCalls, MainEnds, MainExits, workVars, cbVars
<1>2. CASE Signal
  <2>1. /\ signals' = signals + 1 /\ threads' = threads + 1 /\ signals < MaxSignals
        /\ UNCHANGED <<sdPhase, runner, claims, exited>>
    BY <1>2 DEF Signal
  <2>2. /\ signals' \in 0..MaxSignals /\ threads' \in 0..MaxSignals /\ threads' <= signals'
    BY <1>0, <2>1 DEF SdTypeOK, RunnerInv
  <2>3. SdTypeOK'
    BY <1>1, <2>1, <2>2 DEF SdTypeOK
  <2>4. RunnerInv'
    BY <2>1, <2>2 DEF RunnerInv
  <2>5. CallbackInv' /\ PassedInv' /\ ProgressInv'
    BY <1>1, <2>1 DEF CallbackInv, ForCleanup, PassedInv, ProgressInv, Done
  <2> QED BY <2>3, <2>4, <2>5
<1>3. CASE ThreadCalls
  <2>1. /\ Claim("daemon") /\ threads > 0 /\ threads' = threads - 1 /\ ~exited
        /\ UNCHANGED <<signals, exited>>
    BY <1>3 DEF ThreadCalls
  <2>2. /\ sdPhase' \in Phases /\ runner' \in {"none", "daemon", "main"} /\ claims' \in Nat
        /\ claims' = IF sdPhase' = "idle" THEN 0 ELSE 1
        /\ runner' = "none" <=> sdPhase' = "idle"
        /\ CallbackInv' /\ PassedInv' /\ ProgressInv'
    BY <1>1, <2>1, ClaimFacts
  <2>3. threads' \in 0..MaxSignals /\ threads' <= signals'
    BY <1>0, <2>1 DEF SdTypeOK, RunnerInv
  <2>4. SdTypeOK'
    BY <1>1, <2>1, <2>2, <2>3 DEF SdTypeOK
  <2>5. RunnerInv'
    BY <2>1, <2>2, <2>3 DEF RunnerInv
  <2> QED BY <2>2, <2>4, <2>5
<1>4. CASE MainEnds /\ sdPhase = "idle"
  <2>1. Claim("main") /\ ~exited /\ UNCHANGED <<threads, signals, exited>>
    BY <1>4 DEF MainEnds
  <2>2. /\ sdPhase' \in Phases /\ runner' \in {"none", "daemon", "main"} /\ claims' \in Nat
        /\ claims' = IF sdPhase' = "idle" THEN 0 ELSE 1
        /\ runner' = "none" <=> sdPhase' = "idle"
        /\ CallbackInv' /\ PassedInv' /\ ProgressInv'
    BY <1>1, <2>1, ClaimFacts
  <2>3. SdTypeOK'
    BY <1>1, <2>1, <2>2 DEF SdTypeOK
  <2>4. RunnerInv'
    BY <2>1, <2>2 DEF RunnerInv
  <2> QED BY <2>2, <2>3, <2>4
<1>5. CASE (MainEnds /\ sdPhase # "idle") \/ MainExits
  <2>1. /\ exited' = TRUE /\ UNCHANGED <<sdPhase, runner, claims, threads, signals>>
        /\ sdPhase = "complete" \/ (runner # "main" /\ sdPhase # "idle")
    BY <1>5 DEF MainEnds, MainExits
  <2>2. SdTypeOK'
    BY <1>1, <2>1 DEF SdTypeOK
  <2>3. RunnerInv'
    BY <2>1 DEF RunnerInv, SdTypeOK
  <2>4. CallbackInv' /\ PassedInv' /\ ProgressInv'
    BY <1>1, <2>1 DEF CallbackInv, ForCleanup, PassedInv, ProgressInv, Done
  <2> QED BY <2>2, <2>3, <2>4
<1> QED BY <1>2, <1>3, <1>4, <1>5

(* What goes on around the shutdown touches nothing it has done.           *)
LEMMA OutsideIInv ==
    ASSUME SdIInv,
           \/ \E k \in Kinds, i \in SdItems : Trading(k, i)
           \/ DeadlinePasses
           \/ UNCHANGED sdVars
    PROVE  SdIInv'
<1> USE DEF SdIInv
<1>1. UNCHANGED <<sdPhase, runner, claims, threads, signals, exited, ok,
                  listed, passed, tried, asked, saved, provider, callbacks, cbNext, cbRuns, cbStarted>>
  BY DEF Trading, DeadlinePasses, sdVars, threadVars, workVars, cbVars
<1>2. existing' \in [Kinds -> SUBSET SdItems]
  BY DEF Trading, DeadlinePasses, sdVars, workVars, SdTypeOK
<1>3. late' \in BOOLEAN
  BY DEF Trading, DeadlinePasses, sdVars, SdTypeOK
<1>4. SdTypeOK'
  BY <1>1, <1>2, <1>3 DEF SdTypeOK
<1>5. RunnerInv' /\ CallbackInv'
  BY <1>1 DEF RunnerInv, CallbackInv, ForCleanup
<1>6. PassedInv' /\ ProgressInv'
  BY <1>1 DEF PassedInv, ProgressInv, Done
<1> QED BY <1>4, <1>5, <1>6

-----------------------------------------------------------------------------
(* The sequence                                                            *)

(* The phases of orders and positions: the next phase is entered with a    *)
(* success only when this one asked and tried all it found.                *)
LEMMA PhaseIInv ==
    ASSUME SdIInv, NEW k \in Kinds,
           Ask(k) \/ PhaseTimesOut(k) \/ PhaseEnds(k) \/ \E i \in SdItems : TryItem(k, i)
    PROVE  SdIInv'
<1> USE DEF SdIInv
<1>1. /\ sdPhase = k /\ ~exited
      /\ sdPhase' = k \/ sdPhase' = After(k)
      /\ ok' = ok \/ ok' = FALSE
      /\ UNCHANGED <<runner, claims, threads, signals, exited, late, saved,
                     provider, callbacks, cbNext, cbRuns, cbStarted>>
  BY DEF Ask, PhaseTimesOut, PhaseEnds, TryItem, Running, Fails, threadVars, workVars, cbVars
<1>2. /\ existing' \in [Kinds -> SUBSET SdItems]
      /\ listed' \in [Kinds -> SUBSET SdItems]
      /\ passed' \in [Kinds -> SUBSET SdItems]
      /\ tried' \in [Kinds -> SUBSET SdItems]
      /\ asked' \in SUBSET Kinds /\ asked \subseteq asked'
      /\ \A j \in Kinds : tried[j] \subseteq tried'[j]
      /\ \A j \in Kinds : j # k => listed'[j] = listed[j]
  <2>1. CASE Ask(k)
    BY <2>1 DEF Ask, SdTypeOK
  <2>2. CASE PhaseTimesOut(k) \/ PhaseEnds(k)
    BY <2>2 DEF PhaseTimesOut, PhaseEnds, workVars, SdTypeOK
  <2>3. CASE \E i \in SdItems : TryItem(k, i)
    BY <2>3 DEF TryItem, SdTypeOK
  <2> QED BY <2>1, <2>2, <2>3
<1>3. SdTypeOK'
  <2>1. ok' \in BOOLEAN
    BY <1>1 DEF SdTypeOK
  <2>2. sdPhase' \in Phases
    BY <1>1, AfterPhases
  <2> QED BY <1>1, <1>2, <2>1, <2>2 DEF SdTypeOK
<1>4. RunnerInv'
  BY <1>1, AfterPhases DEF RunnerInv, Phases
<1>5. CallbackInv'
  BY <1>1, AfterPhases DEF CallbackInv, ForCleanup
<1>6. PassedInv'
  <2>1. /\ sdPhase' # "idle"
        /\ \A j \in Kinds : provider[j] = "acting" => passed[j] \subseteq tried[j]
    BY <1>1, AfterPhases DEF PassedInv, Phases
  <2>2. CASE Ask(k) \/ PhaseTimesOut(k) \/ PhaseEnds(k)
    <3>1. UNCHANGED <<passed, tried>>
      BY <2>2 DEF Ask, PhaseTimesOut, PhaseEnds, workVars
    <3> QED BY <1>1, <2>1, <3>1 DEF PassedInv
  <2>3. ASSUME NEW i \in SdItems, TryItem(k, i) PROVE PassedInv'
    <3>1. /\ passed' = [passed EXCEPT ![k] = @ \cup {i}]
          /\ tried' = IF provider[k] = "acting" THEN [tried EXCEPT ![k] = @ \cup {i}] ELSE tried
      BY <2>3 DEF TryItem
    <3>2. passed \in [Kinds -> SUBSET SdItems] /\ tried \in [Kinds -> SUBSET SdItems]
      BY DEF SdTypeOK
    <3> QED BY <1>1, <2>1, <3>1, <3>2 DEF PassedInv
  <2> QED BY <2>2, <2>3
<1>7. ProgressInv'
  <2>1. sdPhase' = After(k) /\ ok' => PhaseEnds(k)
    BY AfterPhases, <1>1 DEF Ask, PhaseTimesOut, TryItem, Fails, Running
  <2>2. sdPhase' = After(k) /\ ok' => Done(k)'
    <3>1. provider[k] = "acting" => passed[k] \subseteq tried[k]
      BY DEF PassedInv
    <3> QED BY <1>1, <2>1, <3>1 DEF PhaseEnds, Done, workVars
  <2>3. ok' => ok
    BY <1>1
  <2>4. k = "positions" /\ ok' => Done("orders")'
    <3>1. k = "positions" /\ ok' => Done("orders")
      BY <1>1, <2>3 DEF ProgressInv
    <3> QED BY <1>1, <1>2, <3>1 DEF Done, Kinds
  <2> QED BY <1>1, <2>2, <2>4, AfterPhases DEF ProgressInv
<1> QED BY <1>3, <1>4, <1>5, <1>6, <1>7

(* What is written is no state that was never written.                     *)
LEMMA PersistIInv == SdIInv /\ Persist => SdIInv'
<1> SUFFICES ASSUME SdIInv, Persist PROVE SdIInv'
  OBVIOUS
<1> USE DEF SdIInv
<1>1. /\ sdPhase = "persist" /\ sdPhase' = "cleanup" /\ ~exited
      /\ UNCHANGED <<runner, claims, threads, signals, exited, late, existing, listed, passed, tried,
                     asked, provider, callbacks, cbNext, cbRuns, cbStarted>>
      /\ ok' = ok \/ (ok' = FALSE /\ saved' = saved)
  BY DEF Persist, Running, Fails, threadVars, cbVars
<1>2. ok' => saved' \in [Kinds -> SUBSET SdItems]
  BY DEF Persist, Fails, SdTypeOK
<1>3. saved' = NotSaved \/ saved' \in [Kinds -> SUBSET SdItems]
  BY DEF Persist, SdTypeOK
<1>4. ok' => saved' # NotSaved
  <2>1. NotSaved \notin [Kinds -> SUBSET SdItems]
    BY ShutdownAssumption DEF NotSaved, Kinds
  <2> QED BY <1>2, <2>1
<1>5. SdTypeOK'
  <2>1. ok' \in BOOLEAN /\ sdPhase' \in Phases
    BY <1>1 DEF SdTypeOK, Phases
  <2> QED BY <1>1, <1>3, <2>1 DEF SdTypeOK
<1>6. RunnerInv' /\ CallbackInv'
  BY <1>1 DEF RunnerInv, CallbackInv, ForCleanup
<1>7. PassedInv' /\ ProgressInv'
  BY <1>1, <1>4 DEF PassedInv, ProgressInv, Done
<1> QED BY <1>5, <1>6, <1>7

(* The callbacks: each is passed once, and started then if it is one of    *)
(* this phase.                                                             *)
LEMMA CallbacksIInv ==
    ASSUME SdIInv, SkipCallback \/ RunCallback \/ CallbackEnds
    PROVE  SdIInv'
<1> USE DEF SdIInv
<1>1. UNCHANGED <<sdPhase, runner, claims, threads, signals, exited, late, ok, existing,
                  listed, passed, tried, asked, saved, provider, callbacks>>
  BY DEF SkipCallback, RunCallback, CallbackEnds, threadVars, workVars
<1>2. /\ MaxCallbacks \in Nat /\ Len(callbacks) \in Nat /\ Len(callbacks) <= MaxCallbacks
      /\ cbNext \in Nat /\ cbNext >= 1 /\ cbRuns \in Nat /\ cbRuns < cbNext
      /\ cbNext <= Len(callbacks) + 1
      /\ cbStarted \in [1..MaxCallbacks -> Nat]
  BY ShutdownAssumption DEF SdTypeOK, CallbackInv
<1>3. /\ SkipCallback \/ RunCallback =>
             sdPhase = "cleanup" /\ cbNext <= Len(callbacks) /\ cbNext' = cbNext + 1
      /\ CallbackEnds => cbNext' = cbNext
  BY DEF SkipCallback, RunCallback, CallbackEnds, AtCallback, Running
<1>4. /\ SkipCallback => UNCHANGED <<cbRuns, cbStarted>> /\ ~ForCleanup(cbNext)
      /\ RunCallback => /\ cbStarted' = [cbStarted EXCEPT ![cbNext] = @ + 1]
                        /\ cbRuns' \in {cbRuns, cbRuns + 1}
      /\ CallbackEnds => cbRuns > 0 /\ cbRuns' = cbRuns - 1 /\ cbStarted' = cbStarted
  BY DEF SkipCallback, RunCallback, CallbackEnds
<1>5. CASE SkipCallback
  <2>1. CallbackInv'
    BY <1>1, <1>2, <1>3, <1>4, <1>5 DEF CallbackInv, ForCleanup
  <2>2. SdTypeOK'
    BY <1>1, <1>2, <1>3, <1>4, <1>5 DEF SdTypeOK
  <2>3. PassedInv' /\ ProgressInv' /\ RunnerInv'
    BY <1>1, <1>3, <1>5 DEF PassedInv, ProgressInv, RunnerInv, Done
  <2> QED BY <2>1, <2>2, <2>3
<1>6. CASE RunCallback
  <2>1. /\ cbNext \in 1..MaxCallbacks /\ cbStarted[cbNext] = 0
        /\ cbStarted'[cbNext] = 1 /\ cbStarted' \in [1..MaxCallbacks -> Nat]
        /\ \A i \in 1..MaxCallbacks : i # cbNext => cbStarted'[i] = cbStarted[i]
    BY <1>2, <1>3, <1>4, <1>6 DEF CallbackInv
  <2>2. cbRuns' \in Nat /\ cbRuns' <= cbRuns + 1
    BY <1>2, <1>4, <1>6
  <2>3. CallbackInv'
    <3>1. \A i \in 1..MaxCallbacks : cbStarted'[i] <= 1 /\ (i >= cbNext' => cbStarted'[i] = 0)
      BY <1>2, <1>3, <1>6, <2>1 DEF CallbackInv
    <3>2. \A i \in 1..Len(callbacks) : i < cbNext' /\ ForCleanup(i) => cbStarted'[i] = 1
      BY <1>2, <1>3, <1>6, <2>1 DEF CallbackInv
    <3>3. cbNext' <= Len(callbacks) + 1 /\ cbRuns' < cbNext'
      BY <1>2, <1>3, <1>6, <2>2
    <3> QED BY <1>1, <1>2, <1>3, <1>6, <3>1, <3>2, <3>3 DEF CallbackInv, ForCleanup
  <2>4. SdTypeOK'
    <3>1. cbRuns' \in 0..MaxCallbacks /\ cbNext' \in 1..(MaxCallbacks + 1)
      BY <1>2, <1>3, <1>6, <2>2
    <3> QED BY <1>1, <2>1, <3>1 DEF SdTypeOK
  <2>5. PassedInv' /\ ProgressInv' /\ RunnerInv'
    BY <1>1, <1>3, <1>6 DEF PassedInv, ProgressInv, RunnerInv, Done
  <2> QED BY <2>3, <2>4, <2>5
<1>7. CASE CallbackEnds
  <2>1. SdTypeOK' /\ CallbackInv'
    BY <1>1, <1>2, <1>3, <1>4, <1>7 DEF SdTypeOK, CallbackInv, ForCleanup
  <2>2. PassedInv' /\ ProgressInv' /\ RunnerInv'
    BY <1>1, <1>3, <1>7 DEF PassedInv, ProgressInv, RunnerInv, Done
  <2> QED BY <2>1, <2>2
<1> QED BY <1>5, <1>6, <1>7

(* The end of the sequence.                                                *)
LEMMA EndsIInv ==
    ASSUME SdIInv, CallbacksTimeOut \/ Complete
    PROVE  SdIInv'
<1> USE DEF SdIInv
<1>1. /\ sdPhase = "cleanup" /\ sdPhase' = "complete" /\ ~exited
      /\ ok' = FALSE \/ (ok' = ok /\ cbNext > Len(callbacks))
      /\ UNCHANGED <<runner, claims, threads, signals, exited, late, existing, listed, passed, tried,
                     asked, saved, provider, callbacks, cbNext, cbRuns, cbStarted>>
  BY DEF CallbacksTimeOut, Complete, AtCallback, Running, Fails, threadVars, workVars, cbVars
<1>2. SdTypeOK'
  <2>1. ok' \in BOOLEAN /\ sdPhase' \in Phases
    BY <1>1 DEF SdTypeOK, Phases
  <2> QED BY <1>1, <2>1 DEF SdTypeOK
<1>3. RunnerInv' /\ CallbackInv'
  BY <1>1 DEF RunnerInv, CallbackInv, ForCleanup
<1>4. PassedInv' /\ ProgressInv'
  BY <1>1 DEF PassedInv, ProgressInv, Done
<1> QED BY <1>2, <1>3, <1>4

-----------------------------------------------------------------------------

(* Every step keeps the invariant.                                         *)
LEMMA SdNextIInv == SdIInv /\ [SdNext]_sdVars => SdIInv'
<1> SUFFICES ASSUME SdIInv, [SdNext]_sdVars PROVE SdIInv'
  OBVIOUS
<1>1. CASE SdProceeds
  BY <1>1, PhaseIInv, PersistIInv, CallbacksIInv, EndsIInv DEF SdProceeds
<1> QED BY <1>1, ProviderIInv, RegisterIInv, ThreadsIInv, OutsideIInv, CallbacksIInv DEF SdNext

(* ShutdownInvariant: the invariant of the shutdown holds in every         *)
(* reachable state.                                                        *)
THEOREM ShutdownInvariant == SdSpec => []SdIInv
BY SdInitIInv, SdNextIInv, PTL DEF SdSpec

(* ShutdownIsHonest: the sequence runs once however many signals arrive,   *)
(* no callback twice, and a success means that all of it was done as far   *)
(* as there was somebody to ask and a call to make, for any number of      *)
(* orders, positions, callbacks and signals (graceful_shutdown.py:173-336).*)
THEOREM ShutdownIsHonest == SdSpec => []ShutdownHonest
<1>1. SdIInv => ShutdownHonest
  <2> SUFFICES ASSUME SdIInv PROVE ShutdownHonest
    OBVIOUS
  <2> USE DEF SdIInv
  <2>1. claims <= 1 /\ (exited /\ sdPhase # "complete" => runner = "daemon")
    BY DEF RunnerInv
  <2>2. \A i \in 1..MaxCallbacks : cbStarted[i] <= 1
    BY DEF CallbackInv
  <2>3. ASSUME sdPhase = "complete", ok
        PROVE  /\ \A k \in Kinds : Done(k)
               /\ saved # NotSaved
               /\ \A i \in 1..Len(callbacks) : ForCleanup(i) => cbStarted[i] = 1
    <3>1. Done("orders") /\ Done("positions") /\ saved # NotSaved /\ cbNext > Len(callbacks)
      BY <2>3 DEF ProgressInv
    <3>2. \A k \in Kinds : Done(k)
      BY <3>1 DEF Kinds
    <3>3. \A i \in 1..Len(callbacks) : i < cbNext
      BY <3>1 DEF SdTypeOK
    <3> QED BY <3>1, <3>2, <3>3 DEF CallbackInv
  <2> QED BY <2>1, <2>2, <2>3 DEF ShutdownHonest, Done
<1> QED BY <1>1, ShutdownInvariant, PTL

-----------------------------------------------------------------------------
(* The configuration                                                       *)

(* A change of the file waits to be noticed, or memory holds what the file *)
(* says; so it does, unless somebody has edited or removed the file since, *)
(* while a call that has read or written it has yet to ask for its time. A *)
(* file told about twice is one that cannot be parsed.                     *)
ConfigIInv ==
    /\ wall \in Nat /\ onDisk.at \in Nat /\ seen \in Nat /\ told \in {0, 1, 2}
    /\ stage \in ConfigStages
    /\ onDisk = OnDisk(onDisk.exists, onDisk.good, onDisk.value, onDisk.at)
    /\ onDisk.good \in BOOLEAN /\ onDisk.at <= wall /\ seen <= wall
    /\ stage \in {"idle", "found"} /\ onDisk.exists /\ onDisk.at <= seen /\ ~hidden =>
          onDisk.good /\ Current \in {onDisk.value, Override}
    /\ stage = "found" => onDisk.at > seen
    /\ stage = "read" => ~shared /\ told # 2
    /\ stage = "read" /\ onDisk.exists /\ ~hidden => onDisk.good /\ own = onDisk.value
    /\ stage \in {"saving", "restoring"} => told = 0
    /\ stage \in {"saving", "restoring"} /\ onDisk.exists /\ ~hidden =>
          onDisk.good /\ Current = onDisk.value
    /\ stage = "restoring" => shared
    /\ told > 0 /\ onDisk.at > seen /\ onDisk.exists /\ stage # "read" => ~onDisk.good /\ shared
    /\ told = 2 => onDisk.at > seen /\ ~onDisk.good /\ shared

LEMMA ConfigInitIInv == ConfigInit => ConfigIInv
  <1> SUFFICES ASSUME ConfigInit PROVE ConfigIInv  OBVIOUS
  <1>1. /\ wall = 1 /\ seen = 1 /\ told = 0 /\ hidden = FALSE /\ shared = TRUE /\ stage = "idle"
        /\ onDisk.exists = TRUE /\ onDisk.good = TRUE
        /\ onDisk.value = Shipped /\ onDisk.at = 1
        /\ onDisk = OnDisk(onDisk.exists, onDisk.good, onDisk.value, onDisk.at)
    BY DEF ConfigInit, OnDisk
  <1>2. Current \in {Shipped, Override}
    BY DEF ConfigInit, Current, Overridden
  <1>3. wall \in Nat /\ onDisk.at \in Nat /\ seen \in Nat /\ told \in {0, 1, 2}
    BY <1>1
  <1>4. onDisk.at <= wall /\ seen <= wall /\ ~(told > 0) /\ told # 2
    BY <1>1
  <1>5. onDisk.good \in BOOLEAN  BY <1>1
  <1>6. QED  BY <1>1, <1>2, <1>3, <1>4, <1>5 DEF ConfigIInv, ConfigStages

(* What others do: the clock goes on, the file is removed or edited.       *)
LEMMA ConfigFileSteps ==
    ASSUME ConfigIInv, NEW v, NEW good \in BOOLEAN, WallTick \/ RemoveFile \/ Edit(v, good)
    PROVE  ConfigIInv'
  <1>1. CASE WallTick  BY <1>1 DEF WallTick, ConfigIInv, Current
  <1>2. CASE RemoveFile
    <2>1. onDisk' = OnDisk(FALSE, onDisk.good, onDisk.value, onDisk.at)
      BY <1>2 DEF RemoveFile, ConfigIInv, OnDisk
    <2>2. QED  BY <1>2, <2>1 DEF RemoveFile, ConfigIInv, Current, OnDisk
  <1>3. CASE Edit(v, good)
    <2>1. /\ onDisk'.exists = TRUE /\ onDisk'.good = good
          /\ onDisk'.value = v /\ onDisk'.at = wall
          /\ onDisk' = OnDisk(TRUE, good, v, wall)
          /\ told' = 0 /\ wall' = wall /\ seen' = seen /\ stage' = stage /\ shared' = shared
      BY <1>3 DEF Edit, OnDisk
    <2>2. wall \in Nat /\ seen \in Nat /\ seen <= wall /\ onDisk.at \in Nat /\ onDisk.at <= wall
      BY DEF ConfigIInv
    <2>3. onDisk'.at <= seen' => hidden'
      <3>1. SUFFICES ASSUME wall <= seen PROVE hidden'  BY <2>1
      <3>2. wall = seen  BY <2>2, <3>1
      <3>3. QED  BY <1>3, <3>2 DEF Edit
    <2>4. stage' \in {"read", "saving", "restoring"} => hidden'
      BY <1>3 DEF Edit
    <2>5. stage' = "found" => onDisk'.at > seen'
      BY <2>1, <2>2 DEF ConfigIInv
    <2>6. /\ wall' \in Nat /\ onDisk'.at \in Nat /\ seen' \in Nat /\ told' \in {0, 1, 2}
          /\ onDisk'.at <= wall' /\ seen' <= wall' /\ ~(told' > 0) /\ told' # 2
      BY <2>1, <2>2
    <2>7. /\ stage' \in ConfigStages /\ onDisk'.good \in BOOLEAN
          /\ onDisk' = OnDisk(onDisk'.exists, onDisk'.good, onDisk'.value, onDisk'.at)
          /\ stage' = "read" => ~shared'
          /\ stage' = "restoring" => shared'
      BY <2>1 DEF ConfigIInv
    <2>8. QED  BY <2>1, <2>3, <2>4, <2>5, <2>6, <2>7 DEF ConfigIInv
  <1>4. QED  BY <1>1, <1>2, <1>3

(* The program writes the file, and asks for its time afterwards.          *)
LEMMA ConfigSaveSteps ==
    ASSUME ConfigIInv, NEW v, SetSetting(v) \/ GenerateDefault \/ Saved
    PROVE  ConfigIInv'
  <1>1. CASE SetSetting(v) \/ GenerateDefault
    <2>1. PICK w : Write(w) /\ Current' = w
      BY <1>1 DEF SetSetting, GenerateDefault, Current
    <2>2. /\ onDisk'.exists = TRUE /\ onDisk'.good = TRUE
          /\ onDisk'.value = w /\ onDisk'.at = wall
          /\ onDisk' = OnDisk(onDisk'.exists, onDisk'.good, onDisk'.value, onDisk'.at)
          /\ told' = 0
      BY <2>1 DEF Write, OnDisk
    <2>3. stage' = "saving" /\ wall' = wall /\ seen' = seen
      BY <1>1 DEF SetSetting, GenerateDefault
    <2>4. wall \in Nat /\ seen \in Nat /\ seen <= wall  BY DEF ConfigIInv
    <2>5. /\ wall' \in Nat /\ onDisk'.at \in Nat /\ seen' \in Nat /\ told' \in {0, 1, 2}
          /\ onDisk'.at <= wall' /\ seen' <= wall' /\ ~(told' > 0) /\ told' # 2
      BY <2>2, <2>3, <2>4
    <2>6. QED  BY <2>1, <2>2, <2>3, <2>5 DEF ConfigIInv, ConfigStages
  <1>2. CASE Saved
    <2>1. /\ stage \in {"saving", "restoring"} /\ stage' = "idle"
          /\ onDisk' = onDisk /\ wall' = wall /\ told' = told /\ hidden' = hidden /\ told = 0
      BY <1>2 DEF Saved, ConfigIInv
    <2>2. onDisk.exists /\ ~hidden => onDisk.good /\ Current' \in {onDisk.value, Override}
      BY <1>2 DEF Saved, ConfigIInv, Current, Overridden
    <2>3. seen' \in Nat /\ seen' <= wall
      BY <1>2 DEF Saved, ConfigIInv
    <2>4. QED  BY <2>1, <2>2, <2>3 DEF ConfigIInv, ConfigStages
  <1>3. QED  BY <1>1, <1>2

(* The file is read again.                                                 *)
LEMMA ConfigReloadSteps ==
    ASSUME ConfigIInv, NoticeChange \/ ReadFile \/ FileGone \/ Load
    PROVE  ConfigIInv'
  <1>1. CASE NoticeChange
    BY <1>1 DEF NoticeChange, ConfigIInv, ConfigStages, Current
  <1>2. CASE ReadFile
    <2>0. /\ stage = "found" /\ onDisk.exists /\ onDisk.at > seen
          /\ wall \in Nat /\ onDisk.at \in Nat /\ seen \in Nat
          /\ onDisk' = onDisk /\ wall' = wall /\ seen' = seen
          /\ told \in {0, 1, 2} /\ told' = IF told < 2 THEN told + 1 ELSE told
      BY <1>2 DEF ReadFile, FallBack, ConfigIInv
    <2>1. CASE onDisk.good
      <3>1. told = 0
        BY <2>0, <2>1 DEF ConfigIInv
      <3>2. stage' = "read" /\ ~shared' /\ own' = onDisk.value /\ told' = 1
        BY <1>2, <2>0, <2>1, <3>1 DEF ReadFile
      <3>3. stage' \in ConfigStages /\ told' \in {0, 1, 2} /\ told' # 2 /\ seen' <= wall'
        BY <2>0, <3>2 DEF ConfigIInv, ConfigStages
      <3>4. QED  BY <2>0, <2>1, <3>2, <3>3 DEF ConfigIInv
    <2>2. CASE ~onDisk.good
      <3>1. stage' = "idle" /\ shared'
        BY <1>2, <2>2 DEF ReadFile, FallBack
      <3>2. told' \in {1, 2}
        BY <2>0
      <3>3. ~(onDisk'.at <= seen')
        BY <2>0
      <3>4. QED  BY <2>0, <2>2, <3>1, <3>2, <3>3 DEF ConfigIInv, ConfigStages
    <2>3. QED  BY <2>1, <2>2
  <1>3. CASE FileGone
    <2>1. CASE FallBack /\ UNCHANGED <<onDisk, told, hidden>>
      BY <1>3, <2>1 DEF FileGone, FallBack, ConfigIInv, ConfigStages, Current
    <2>2. CASE stage' = "restoring" /\ Write(defaults)
      <3>1. /\ onDisk'.exists = TRUE /\ onDisk'.good = TRUE
            /\ onDisk'.value = defaults /\ onDisk'.at = wall
            /\ onDisk' = OnDisk(onDisk'.exists, onDisk'.good, onDisk'.value, onDisk'.at)
            /\ told' = 0 /\ shared' = TRUE /\ Current' = defaults
            /\ wall' = wall /\ seen' = seen
        BY <1>3, <2>2 DEF FileGone, FallBack, Write, OnDisk, Current
      <3>2. wall \in Nat /\ seen \in Nat /\ seen <= wall  BY DEF ConfigIInv
      <3>3. /\ wall' \in Nat /\ onDisk'.at \in Nat /\ seen' \in Nat /\ told' \in {0, 1, 2}
            /\ onDisk'.at <= wall' /\ seen' <= wall' /\ ~(told' > 0) /\ told' # 2
        BY <3>1, <3>2
      <3>4. QED  BY <2>2, <3>1, <3>3 DEF ConfigIInv, ConfigStages
    <2>3. QED  BY <1>3, <2>1, <2>2 DEF FileGone
  <1>4. CASE Load
    <2>1. CASE onDisk.exists
      <3>1. /\ stage = "read" /\ stage' = "idle" /\ seen' = onDisk.at /\ own' = Overridden(own)
            /\ UNCHANGED <<wall, onDisk, told, hidden, shared>>
        BY <1>4, <2>1 DEF Load
      <3>2. /\ wall \in Nat /\ onDisk.at \in Nat /\ told \in {0, 1, 2} /\ onDisk.at <= wall
            /\ ~shared /\ told # 2 /\ (~hidden => onDisk.good /\ own = onDisk.value)
        BY <2>1, <3>1 DEF ConfigIInv
      <3>3. ~hidden' => onDisk'.good /\ Current' \in {onDisk'.value, Override}
        BY <3>1, <3>2 DEF Current, Overridden
      <3>4. ~(onDisk'.at > seen')
        BY <3>1, <3>2
      <3>5. QED  BY <3>1, <3>2, <3>3, <3>4 DEF ConfigIInv, ConfigStages
    <2>2. CASE ~onDisk.exists
      BY <1>4, <2>2 DEF Load, FallBack, ConfigIInv, ConfigStages, Current
    <2>3. QED  BY <2>1, <2>2
  <1>5. QED  BY <1>1, <1>2, <1>3, <1>4

(* For any settings and any number of changes: memory follows the file but *)
(* for edits in the tick of the time last seen, or between a reading and   *)
(* the asking for the time after it; and only a file that cannot be parsed *)
(* is told about twice.                                                    *)
THEOREM MemoryFollowsFile == ConfigSpec => []ConfigFollowsFile
  <1>1. ConfigIInv /\ [ConfigNext]_configVars => ConfigIInv'
    <2> SUFFICES ASSUME ConfigIInv, [ConfigNext]_configVars PROVE ConfigIInv'  OBVIOUS
    <2>1. CASE UNCHANGED configVars  BY <2>1 DEF configVars, ConfigIInv, Current
    <2>2. CASE WallTick \/ RemoveFile  BY <2>2, TRUE \in BOOLEAN, ConfigFileSteps
    <2>3. CASE NoticeChange \/ ReadFile \/ FileGone \/ Load  BY <2>3, ConfigReloadSteps
    <2>4. CASE GenerateDefault \/ Saved  BY <2>4, ConfigSaveSteps
    <2>5. ASSUME NEW v \in Settings, SetSetting(v) PROVE ConfigIInv'
      BY <2>5, ConfigSaveSteps
    <2>6. ASSUME NEW v \in Settings, NEW good \in BOOLEAN, Edit(v, good) PROVE ConfigIInv'
      BY <2>6, ConfigFileSteps
    <2>7. QED  BY <2>1, <2>2, <2>3, <2>4, <2>5, <2>6 DEF ConfigNext
  <1>2. ConfigIInv => ConfigFollowsFile  BY DEF ConfigIInv, ConfigFollowsFile
  <1>3. QED  BY <1>1, <1>2, ConfigInitIInv, PTL DEF ConfigSpec

-----------------------------------------------------------------------------
(* The circuit breaker                                                     *)

(* What the configuration is, as arithmetic needs it.                      *)
LEMMA Thresholds ==
    /\ FailureThreshold \in Nat /\ FailureThreshold >= 1
    /\ HalfOpenMaxCalls \in Nat /\ HalfOpenMaxCalls >= 1
    /\ SuccessThreshold \in Nat /\ SuccessThreshold >= 1
    /\ MaxManual \in Nat
BY BreakerAssumption

(* The probes under way are finitely many, and one more or one less is     *)
(* counted as such.                                                        *)
LEMMA ProbeCounts ==
    ASSUME TypeOK, NEW t
    PROVE  /\ Cardinality(probing) \in Nat
           /\ t \notin running => Cardinality(probing \cup {t}) = Cardinality(probing) + 1
           /\ t \in probing => Cardinality(probing \ {t}) = Cardinality(probing) - 1
           /\ t \notin probing => probing \ {t} = probing
<1>1. probing \subseteq Threads /\ probing \subseteq running
  BY DEF TypeOK
<1>2. IsFiniteSet(probing)
  BY <1>1, BreakerAssumption, FS_Subset
<1>3. Cardinality(probing) \in Nat
  BY <1>2, FS_CardinalityType
<1>4. ASSUME t \notin running PROVE Cardinality(probing \cup {t}) = Cardinality(probing) + 1
  BY <1>1, <1>2, <1>4, FS_AddElement
<1>5. ASSUME t \in probing PROVE Cardinality(probing \ {t}) = Cardinality(probing) - 1
  BY <1>2, <1>5, FS_RemoveElement
<1>6. ASSUME t \notin probing PROVE probing \ {t} = probing
  BY <1>6
<1> QED BY <1>3, <1>4, <1>5, <1>6

(* No probe is under way in the empty period.                              *)
LEMMA NoProbes == Cardinality({}) = 0 /\ \A t : Cardinality({t}) = 1
BY FS_EmptySet, FS_Singleton

(* The transition to closed establishes the invariant.                     *)
LEMMA ToClosedIInv ==
    ASSUME IInv, ToClosed, running' \subseteq Threads, manual' \in 0..MaxManual
    PROVE  IInv'
<1>1. TypeOK'
  BY Thresholds DEF IInv, TypeOK, ToClosed
<1>2. ClosedBelowThreshold' /\ ProbeInv'
  BY Thresholds DEF ToClosed, ClosedBelowThreshold, ProbeInv
<1> QED BY <1>1, <1>2 DEF IInv

(* So does the transition to open.                                         *)
LEMMA ToOpenIInv ==
    ASSUME IInv, ToOpen, running' \subseteq Threads, manual' \in 0..MaxManual,
           failures' \in 0..FailureThreshold
    PROVE  IInv'
<1>1. TypeOK'
  <2>1. elapsed' \in BOOLEAN
    BY DEF ToOpen
  <2>2. /\ state' \in {"CLOSED", "OPEN", "HALF_OPEN"}
        /\ successes' \in 0..SuccessThreshold /\ probes' \in 0..HalfOpenMaxCalls
        /\ probing' \subseteq running' /\ wasted' \in 0..HalfOpenMaxCalls
    BY Thresholds DEF IInv, TypeOK, ToOpen
  <2> QED BY <2>1, <2>2 DEF TypeOK
<1>2. ClosedBelowThreshold' /\ ProbeInv'
  BY DEF ToOpen, ClosedBelowThreshold, ProbeInv
<1> QED BY <1>1, <1>2 DEF IInv

(* Admitting a call keeps the invariant.                                   *)
LEMMA AdmitIInv ==
    ASSUME IInv, NEW t \in Threads, Admit(t)
    PROVE  IInv'
<1>1. CASE AdmitClosed(t)
  BY <1>1 DEF AdmitClosed, IInv, TypeOK, ClosedBelowThreshold, ProbeInv
<1>2. CASE AdmitFirst(t)
  <2>1. Cardinality(probing') = 1
    BY <1>2, NoProbes DEF AdmitFirst
  <2>2. TypeOK'
    BY <1>2, Thresholds DEF AdmitFirst, IInv, TypeOK
  <2>3. ProbeInv' /\ ClosedBelowThreshold'
    BY <1>2, <2>1, Thresholds DEF AdmitFirst, ProbeInv, ClosedBelowThreshold
  <2> QED BY <2>2, <2>3 DEF IInv
<1>3. CASE AdmitProbe(t)
  <2>1. Cardinality(probing') = Cardinality(probing) + 1 /\ Cardinality(probing) \in Nat
    BY <1>3, ProbeCounts DEF AdmitProbe, IInv
  <2>2. TypeOK'
    BY <1>3, Thresholds DEF AdmitProbe, IInv, TypeOK
  <2>3. ProbeInv' /\ ClosedBelowThreshold'
    BY <1>3, <2>1, Thresholds DEF AdmitProbe, IInv, TypeOK, ProbeInv, ClosedBelowThreshold
  <2> QED BY <2>2, <2>3 DEF IInv
<1> QED BY <1>1, <1>2, <1>3 DEF Admit

(* Recording a success keeps the invariant, whichever state it meets.      *)
LEMMA SucceedIInv ==
    ASSUME IInv, NEW t \in Threads, Succeed(t)
    PROVE  IInv'
<1>1. running' \subseteq Threads /\ manual' \in 0..MaxManual
  BY DEF Succeed, IInv, TypeOK
<1>2. CASE state # "HALF_OPEN"
  BY <1>2, Thresholds DEF Succeed, IInv, TypeOK, ClosedBelowThreshold, ProbeInv
<1>3. CASE state = "HALF_OPEN" /\ successes + 1 >= SuccessThreshold
  BY <1>1, <1>3, ToClosedIInv DEF Succeed
<1>4. CASE state = "HALF_OPEN" /\ ~(successes + 1 >= SuccessThreshold)
  <2>1. /\ Cardinality(probing) \in Nat
        /\ \/ Cardinality(probing') = Cardinality(probing) - 1
           \/ probing' = probing
    BY <1>4, ProbeCounts DEF Succeed, IInv
  <2>2. TypeOK'
    BY <1>4, Thresholds DEF Succeed, IInv, TypeOK
  <2>3. ProbeInv' /\ ClosedBelowThreshold'
    BY <1>4, <2>1, Thresholds DEF Succeed, IInv, TypeOK, ProbeInv, ClosedBelowThreshold
  <2> QED BY <2>2, <2>3 DEF IInv
<1> QED BY <1>2, <1>3, <1>4

(* Recording a failure keeps the invariant.                                *)
LEMMA FailIInv ==
    ASSUME IInv, NEW t \in Threads, Fail(t)
    PROVE  IInv'
<1>1. /\ running' \subseteq Threads /\ manual' \in 0..MaxManual
      /\ failures' \in 0..FailureThreshold
  BY Thresholds DEF Fail, IInv, TypeOK
<1>2. CASE state = "HALF_OPEN" \/ (state = "CLOSED" /\ failures' >= FailureThreshold)
  BY <1>1, <1>2, ToOpenIInv DEF Fail
<1>3. CASE ~(state = "HALF_OPEN" \/ (state = "CLOSED" /\ failures' >= FailureThreshold))
  BY <1>1, <1>3, Thresholds DEF Fail, IInv, TypeOK, ClosedBelowThreshold, ProbeInv
<1> QED BY <1>2, <1>3

(* An excluded exception keeps the invariant: a probe under way becomes a  *)
(* lost one.                                                               *)
LEMMA ExcludeIInv ==
    ASSUME IInv, NEW t \in Threads, Exclude(t)
    PROVE  IInv'
<1>1. CASE t \in probing
  <2>1. state = "HALF_OPEN"
    BY <1>1 DEF IInv, ProbeInv
  <2>2. Cardinality(probing') = Cardinality(probing) - 1 /\ Cardinality(probing) \in Nat
        /\ wasted' = wasted + 1
    BY <1>1, ProbeCounts DEF Exclude, IInv
  <2>3. Cardinality(probing) >= 1
    BY <1>1, FS_EmptySet, FS_Subset, BreakerAssumption, <2>2 DEF IInv, TypeOK
  <2>4. wasted' \in 0..HalfOpenMaxCalls
    BY <2>1, <2>2, <2>3, Thresholds DEF IInv, TypeOK, ProbeInv
  <2>5. TypeOK'
    BY <2>4 DEF Exclude, IInv, TypeOK
  <2>6. ProbeInv' /\ ClosedBelowThreshold'
    BY <2>1, <2>2, Thresholds DEF Exclude, IInv, TypeOK, ProbeInv, ClosedBelowThreshold
  <2> QED BY <2>5, <2>6 DEF IInv
<1>2. CASE t \notin probing
  <2>1. probing' = probing /\ wasted' = wasted
    BY <1>2, ProbeCounts DEF Exclude, IInv
  <2> QED BY <2>1 DEF Exclude, IInv, TypeOK, ProbeInv, ClosedBelowThreshold
<1> QED BY <1>1, <1>2

(* The invariant holds initially.                                          *)
LEMMA InitIInv == Init => IInv
<1> SUFFICES ASSUME Init PROVE IInv
  OBVIOUS
<1>1. TypeOK
  <2>1. elapsed \in BOOLEAN
    BY DEF Init
  <2>2. /\ state \in {"CLOSED", "OPEN", "HALF_OPEN"}
        /\ failures \in 0..FailureThreshold /\ successes \in 0..SuccessThreshold
        /\ probes \in 0..HalfOpenMaxCalls /\ wasted \in 0..HalfOpenMaxCalls
        /\ running \subseteq Threads /\ probing \subseteq running
        /\ manual \in 0..MaxManual
    BY Thresholds DEF Init
  <2> QED BY <2>1, <2>2 DEF TypeOK
<1>2. ClosedBelowThreshold /\ ProbeInv
  BY Thresholds DEF Init, ClosedBelowThreshold, ProbeInv
<1> QED BY <1>1, <1>2 DEF IInv

(* Every step of the breaker keeps the invariant.                          *)
LEMMA NextIInv == IInv /\ [Next]_vars => IInv'
<1> SUFFICES ASSUME IInv, [Next]_vars PROVE IInv'
  OBVIOUS
<1>1. ASSUME NEW t \in Threads, Admit(t) \/ Finish(t) PROVE IInv'
  BY <1>1, AdmitIInv, SucceedIInv, FailIInv, ExcludeIInv DEF Finish
<1>2. CASE Elapse
  BY <1>2 DEF Elapse, IInv, TypeOK, ClosedBelowThreshold, ProbeInv
<1>3. CASE ReadState
  BY <1>3, Thresholds, NoProbes DEF ReadState, IInv, TypeOK, ClosedBelowThreshold, ProbeInv
<1>4. CASE Reset
  <2>1. running' \subseteq Threads /\ manual' \in 0..MaxManual
    BY <1>4, Thresholds DEF Reset, IInv, TypeOK
  <2> QED BY <1>4, <2>1, ToClosedIInv DEF Reset
<1>5. CASE Trip
  <2>1. /\ running' \subseteq Threads /\ manual' \in 0..MaxManual
        /\ failures' \in 0..FailureThreshold
    BY <1>5, Thresholds DEF Trip, IInv, TypeOK
  <2> QED BY <1>5, <2>1, ToOpenIInv DEF Trip
<1>6. CASE UNCHANGED vars
  BY <1>6 DEF vars, IInv, TypeOK, ClosedBelowThreshold, ProbeInv
<1> QED BY <1>1, <1>2, <1>3, <1>4, <1>5, <1>6 DEF Next

(* The inductive invariant holds in every reachable state, for any set of  *)
(* threads and any thresholds.                                             *)
THEOREM InvariantHolds == Spec => []IInv
BY InitIInv, NextIInv, PTL DEF Spec

(* Type correctness of the breaker: no counter passes its threshold.       *)
THEOREM TypeCorrect == Spec => []TypeOK
<1>1. IInv => TypeOK
  BY DEF IInv
<1> QED BY <1>1, InvariantHolds, PTL

(* A closed breaker is always below its failure threshold.                 *)
THEOREM ClosedIsBelow == Spec => []ClosedBelowThreshold
<1>1. IInv => ClosedBelowThreshold
  BY DEF IInv
<1> QED BY <1>1, InvariantHolds, PTL

(* A half-open breaker that is out of probes has one under way, unless     *)
(* excluded exceptions used too many of them up.                           *)
THEOREM NotStuck == Spec => []HalfOpenNotStuck
<1>1. IInv => HalfOpenNotStuck
  <2> SUFFICES ASSUME IInv, state = "HALF_OPEN", probes = HalfOpenMaxCalls, ~ProbesWasted,
                      probing = {}
               PROVE  FALSE
    BY DEF HalfOpenNotStuck
  <2>1. Cardinality(probing) = 0
    BY NoProbes
  <2>2. successes \in Nat /\ wasted \in Nat
    BY DEF IInv, TypeOK
  <2>3. probes <= successes + wasted /\ successes < SuccessThreshold
    BY <2>1, <2>2 DEF IInv, ProbeInv
  <2> QED BY <2>2, <2>3, Thresholds DEF ProbesWasted
<1> QED BY <1>1, InvariantHolds, PTL

-----------------------------------------------------------------------------
(* The data feed                                                           *)

(* The constants as arithmetic needs them.                                 *)
LEMMA FeedNumbers ==
    /\ MaxStaleness \in Nat /\ MaxDelay \in Nat /\ MaxDelay >= 1
    /\ MaxTime \in Nat /\ MaxItems \in Nat /\ MaxStarts \in Nat
    /\ Len(Frames) \in Nat
    /\ \A i \in 1..Len(Frames) : Frames[i] \in Nat /\ Frames[i] >= 1
    /\ \A p \in Prices : p \in Nat /\ p # 0
    /\ "candle" \in Streams /\ "tick" \in Streams
BY FeedAssumption

(* Watching and waiting streams are finitely many.                         *)
LEMMA FeedCounts ==
    /\ IsFiniteSet(Watching) /\ Cardinality(Watching) \in Nat
    /\ IsFiniteSet(Lost) /\ Cardinality(Lost) \in Nat
<1>1. Watching \subseteq Streams /\ Lost \subseteq Streams
  BY DEF Watching, Lost
<1> QED BY <1>1, FeedAssumption, FS_Subset, FS_CardinalityType

(* The stamp a frame's bar begins at is a time, and never goes back.       *)
LEMMA FloorFacts ==
    ASSUME NEW i \in 1..Len(Frames), clock \in Nat
    PROVE  /\ FloorTo(i) \in 0..clock
           /\ clock' = clock + 1 => FloorTo(i) <= FloorTo(i)'
<1> DEFINE f == Frames[i]
           r == clock % f
           q == clock \div f
           s == (clock + 1) % f
           t == (clock + 1) \div f
<1>1. f \in Nat /\ f >= 1
  BY FeedNumbers
<1> HIDE DEF f
<1>2. /\ r \in 0..(f - 1) /\ q \in Int /\ clock = f * q + r
      /\ s \in 0..(f - 1) /\ t \in Int /\ clock + 1 = f * t + s
  <2>1. \A m \in Nat : m % f \in 0..(f - 1) /\ m \div f \in Int /\ m = f * (m \div f) + (m % f)
    BY <1>1
  <2>2. clock + 1 \in Nat
    OBVIOUS
  <2> QED BY <2>1, <2>2
<1>3. r <= clock
  <2> HIDE DEF r, q
  <2>1. q >= 0
    <3>1. q <= -1 => f * q <= -f
      <4>1. \A a \in Int : a <= -1 => f * a <= -f
        BY <1>1
      <4> QED BY <1>2, <4>1
    <3> DEFINE m == f * q
    <3>2. m \in Int
      BY <1>1, <1>2
    <3>3. clock = m + r
      BY <1>2
    <3> HIDE DEF m
    <3>4. q <= -1 => m <= -f
      BY <3>1 DEF m
    <3> QED BY <1>1, <1>2, <3>2, <3>3, <3>4
  <2>2. f * q >= 0 /\ f * q \in Int
    BY <1>1, <1>2, <2>1
  <2> DEFINE m == f * q
  <2>3. clock = m + r /\ m >= 0 /\ m \in Int
    BY <1>2, <2>2
  <2> HIDE DEF m
  <2> QED BY <1>2, <2>3
<1>4. s <= r + 1
  <2> HIDE DEF r, q, s, t
  <2> DEFINE d == q - t
             m == f * d
  <2>1. d \in Int /\ m \in Int
    BY <1>1, <1>2
  <2>2. m = s - r - 1
    <3>1. f * (q - t) = f * q - f * t
      BY <1>1, <1>2
    <3> DEFINE a == f * q
               b == f * t
    <3>2. a \in Int /\ b \in Int /\ clock = a + r /\ clock + 1 = b + s /\ m = a - b
      BY <1>1, <1>2, <3>1
    <3> HIDE DEF a, b, m
    <3> QED BY <1>1, <1>2, <3>2
  <2>3. \A e \in Int : e >= 1 => f * e >= f
    BY <1>1
  <2>4. \A e \in Int : e <= 0 => f * e <= 0
    BY <1>1
  <2>5. d >= 1 => m >= f
    BY <2>1, <2>3
  <2>6. d <= 0 => m <= 0
    BY <2>1, <2>4
  <2> HIDE DEF d, m
  <2> QED BY <1>1, <1>2, <2>1, <2>2, <2>5, <2>6
<1>5. FloorTo(i) = clock - r /\ (clock' = clock + 1 => FloorTo(i)' = clock + 1 - s)
  <2>1. FloorTo(i) = clock - (clock % f) /\ FloorTo(i)' = clock' - (clock' % f)
    BY DEF FloorTo, f
  <2>2. clock' = clock + 1 => FloorTo(i)' = (clock + 1) - ((clock + 1) % f)
    <3> HIDE DEF r, s, q, t
    <3> QED BY <2>1
  <2>3. FloorTo(i) = clock - r
    BY <2>1
  <2>4. clock' = clock + 1 => FloorTo(i)' = clock + 1 - s
    <3>1. s = (clock + 1) % f
      OBVIOUS
    <3> HIDE DEF s
    <3> QED BY <2>2, <3>1
  <2> HIDE DEF r, s, q, t
  <2> QED BY <2>3, <2>4
<1> HIDE DEF r, s, q, t
<1> QED BY <1>1, <1>2, <1>3, <1>4, <1>5

Bases == [stamp : -1..MaxTime, price : Prices]
Results == [base : Bases, closed : Nat]

\* what frame i makes of the baseline and of the count of published bars
StepOf(i, r) ==
    IF Completes(i)
    THEN [base |-> BaselineAfter(openBar[i].start, openBar[i].close, r.base),
          closed |-> r.closed
              + (IF BarPasses(openBar[i].start, openBar[i].close, r.base) THEN 1 ELSE 0)]
    ELSE r

(* A frame moves the baseline to its bar or leaves it.                     *)
LEMMA StepType ==
    ASSUME FeedTypeOK, NEW i \in 1..Len(Frames), NEW r \in Results
    PROVE  StepOf(i, r) \in Results
<1>1. CASE ~Completes(i)
  BY <1>1 DEF StepOf
<1>2. CASE Completes(i)
  <2>1. openBar[i] \in [start : 0..MaxTime, close : Prices, trades : 1..MaxItems]
    BY <1>2 DEF Completes, FeedTypeOK
  <2>2. openBar[i].start \in -1..MaxTime /\ openBar[i].close \in Prices
    BY <2>1, FeedNumbers
  <2>3. r.base \in Bases /\ r.closed \in Nat
    BY DEF Results
  <2>4. BaselineAfter(openBar[i].start, openBar[i].close, r.base) \in Bases
    BY <2>2, <2>3 DEF BaselineAfter, Bases
  <2> QED BY <1>2, <2>3, <2>4 DEF StepOf, Results
<1> QED BY <1>1, <1>2

(* The frames one after the other: a baseline and a count come out, and of *)
(* whatever every frame keeps, the last one kept it.                       *)
LEMMA AfterFramesFacts ==
    ASSUME FeedTypeOK, NEW price \in Prices
    PROVE  /\ AfterFrames(price) \in Results
           /\ \A K : /\ [base |-> [stamp |-> lastStamp, price |-> price], closed |-> 0] \in K
                     /\ \A i \in 1..Len(Frames) : \A r \in Results : r \in K => StepOf(i, r) \in K
                     => AfterFrames(price) \in K
<1> DEFINE n == Len(Frames)
           base == [base |-> [stamp |-> lastStamp, price |-> price], closed |-> 0]
           step == [i \in 1..n |-> [r \in Results |-> StepOf(i, r)]]
           Rec(f) == f = [i \in 0..n |->
               IF i = 0 THEN [base |-> [stamp |-> lastStamp, price |-> price], closed |-> 0]
               ELSE IF Completes(i)
               THEN [base |-> BaselineAfter(openBar[i].start, openBar[i].close, f[i - 1].base),
                     closed |-> f[i - 1].closed
                         + (IF BarPasses(openBar[i].start, openBar[i].close, f[i - 1].base)
                            THEN 1 ELSE 0)]
               ELSE f[i - 1]]
           after == CHOOSE f : Rec(f)
<1>1. AfterFrames(price) = after[n]
  BY DEF AfterFrames
<1>2. n \in Nat /\ base \in Results
  BY FeedNumbers DEF FeedTypeOK, Results, Bases
<1>3. step \in StepsOn(n, Results)
  BY StepType DEF StepsOn
<1>4. PICK g \in [0..n -> Results] :
          /\ g[0] = base
          /\ \A i \in 1..n : g[i] = step[i][g[i - 1]]
  <2> HIDE DEF base, step, n
  <2>1. \E f : Follows(f, n, Results, base, step)
    BY <1>2, <1>3, RecursionUpTo
  <2> QED BY <2>1 DEF Follows
<1>5. \A i \in 1..n : g[i] = StepOf(i, g[i - 1])
  <2>1. ASSUME NEW i \in 1..n PROVE g[i] = StepOf(i, g[i - 1])
    <3>1. i - 1 \in 0..n
      BY <1>2
    <3>2. g[i - 1] \in Results
      BY <1>4, <3>1
    <3>3. g[i] = step[i][g[i - 1]]
      BY <1>4
    <3> QED BY <3>2, <3>3
  <2> QED BY <2>1
<1>6. Rec(g)
  <2> DEFINE rhs == [i \in 0..n |->
               IF i = 0 THEN [base |-> [stamp |-> lastStamp, price |-> price], closed |-> 0]
               ELSE IF Completes(i)
               THEN [base |-> BaselineAfter(openBar[i].start, openBar[i].close, g[i - 1].base),
                     closed |-> g[i - 1].closed
                         + (IF BarPasses(openBar[i].start, openBar[i].close, g[i - 1].base)
                            THEN 1 ELSE 0)]
               ELSE g[i - 1]]
  <2>1. ASSUME NEW i \in 0..n PROVE g[i] = rhs[i]
    <3>1. CASE i = 0
      BY <1>4, <3>1
    <3>2. CASE i # 0 /\ Completes(i)
      <4>1. i \in 1..n
        BY <1>2, <3>2
      <4> QED BY <1>5, <3>2, <4>1 DEF StepOf
    <3>3. CASE i # 0 /\ ~Completes(i)
      <4>1. i \in 1..n
        BY <1>2, <3>3
      <4> QED BY <1>5, <3>3, <4>1 DEF StepOf
    <3> QED BY <3>1, <3>2, <3>3
  <2>2. g = rhs
    <3> HIDE DEF rhs
    <3>1. g = [i \in 0..n |-> g[i]]
      BY <1>4
    <3>2. rhs = [i \in 0..n |-> rhs[i]]
      BY DEF rhs
    <3> QED BY <2>1, <3>1, <3>2
  <2> QED BY <2>2
<1>7. Rec(after)
  <2> HIDE DEF Rec
  <2> QED BY <1>6
<1>8. after[0] = base /\ \A i \in 1..n : after[i] = StepOf(i, after[i - 1])
  <2> HIDE DEF after
  <2> QED BY <1>2, <1>7 DEF StepOf
<1> HIDE DEF Rec, after, base, n
<1>9. after[n] \in Results
  <2> DEFINE B == {i \in 0..n : after[i] \in Results}
  <2>1. 0 \in B
    BY <1>2, <1>8
  <2>2. \A i \in 1..n : i - 1 \in B => i \in B
    BY <1>2, <1>8, StepType DEF n
  <2>3. 0..n \subseteq B
    <3> HIDE DEF B
    <3> QED BY <1>2, <2>1, <2>2, EveryNumberUpTo
  <2>4. n \in 0..n
    BY <1>2
  <2> QED BY <2>3, <2>4
<1>10. ASSUME NEW K, base \in K,
              \A i \in 1..n : \A r \in Results : r \in K => StepOf(i, r) \in K
       PROVE  after[n] \in K
  <2> DEFINE B == {i \in 0..n : after[i] \in K \cap Results}
  <2>1. 0 \in B
    BY <1>2, <1>8, <1>10
  <2>2. ASSUME NEW i \in 1..n, i - 1 \in B PROVE i \in B
    <3>1. after[i] = StepOf(i, after[i - 1]) /\ after[i - 1] \in Results /\ after[i - 1] \in K
      BY <1>8, <2>2
    <3>2. StepOf(i, after[i - 1]) \in Results
      BY <3>1, StepType DEF n
    <3>3. StepOf(i, after[i - 1]) \in K
      BY <1>10, <3>1
    <3> QED BY <3>1, <3>2, <3>3
  <2>3. 0..n \subseteq B
    <3> HIDE DEF B
    <3> QED BY <1>2, <2>1, <2>2, EveryNumberUpTo
  <2>4. n \in 0..n
    BY <1>2
  <2> QED BY <2>3, <2>4
<1> QED BY <1>1, <1>9, <1>10 DEF base, n

(* Doubling a delay that is a power of two under its limit.                *)
LEMMA DelayDoubles ==
    ASSUME NEW n \in Nat
    PROVE  /\ Smaller(2 * Smaller(2^n, MaxDelay), MaxDelay) = Smaller(2^(n + 1), MaxDelay)
           /\ \A d \in 1..MaxDelay : Smaller(2 * d, MaxDelay) \in 1..MaxDelay
           /\ Smaller(2^0, MaxDelay) = 1
<1> DEFINE p == 2^n
           q == 2^(n + 1)
<1>1. p \in Nat /\ q = 2 * p /\ 2^0 = 1
  BY PowerOfTwo
<1> HIDE DEF p, q
<1>2. /\ Smaller(2 * Smaller(p, MaxDelay), MaxDelay) = Smaller(q, MaxDelay)
      /\ \A d \in 1..MaxDelay : Smaller(2 * d, MaxDelay) \in 1..MaxDelay
  BY <1>1, FeedNumbers DEF Smaller
<1>3. Smaller(2^0, MaxDelay) = 1
  BY <1>1, FeedNumbers DEF Smaller
<1> QED BY <1>2, <1>3 DEF p, q

(* The parts of the invariant that speak of the streams, and of the bars.  *)
RunnersOK ==
    /\ stream \in [Streams -> {"off", "starting", "watching", "backoff"}]
    /\ delay \in [Streams -> 1..MaxDelay]
    /\ activeStreams \in Int
    /\ restored \in Nat /\ lost \in Nat /\ losses \in [Streams -> Nat]
    /\ overcounted \in Nat /\ cut \in Nat /\ starts \in 0..MaxStarts
    /\ StreamsCounted /\ LossesAnswered /\ DelayFollowsLosses
    /\ \A s \in Streams : stream[s] = "backoff" => losses[s] >= 1

BarsOK ==
    /\ clock \in 0..MaxTime
    /\ lastStamp \in -1..MaxTime
    /\ lastPrice \in Prices \cup {0}
    /\ \A i \in 1..Len(Frames) : openBar[i] = NoBar
           \/ openBar[i] \in [start : 0..MaxTime, close : Prices, trades : 1..MaxItems]
    /\ items \in 0..MaxItems
    /\ ticksTaken \in 0..MaxItems /\ barsClosed \in Nat
    /\ barTicks \in [1..Len(Frames) -> 0..MaxItems]
    /\ TicksInBars
    /\ ticksTaken <= items

LEMMA FeedParts ==
    /\ FeedIInv <=> RunnersOK /\ BarsOK
    /\ FeedIInv' <=> RunnersOK' /\ BarsOK'
BY DEF FeedIInv, FeedAccounted, FeedTypeOK, RunnersOK, BarsOK

LEMMA FeedInitHolds == FeedInit => FeedIInv
<1> SUFFICES ASSUME FeedInit PROVE RunnersOK /\ BarsOK
  BY FeedParts
<1>1. Watching = {} /\ Lost = {}
  BY DEF FeedInit, Watching, Lost
<1>2. StreamsCounted /\ LossesAnswered
  BY <1>1, FS_EmptySet DEF FeedInit, StreamsCounted, LossesAnswered
<1>3. DelayFollowsLosses /\ \A s \in Streams : stream[s] # "backoff"
  BY DEF FeedInit, DelayFollowsLosses
<1>4. RunnersOK
  BY <1>2, <1>3, FeedNumbers DEF FeedInit, RunnersOK
<1>5. BarsOK
  BY FeedNumbers DEF FeedInit, BarsOK, TicksInBars, NoBar
<1> QED BY <1>4, <1>5

(* A step that leaves the streams or the bars alone keeps what is said of  *)
(* them.                                                                   *)
LEMMA RunnersStay == RunnersOK /\ UNCHANGED runnerVars => RunnersOK'
BY DEF RunnersOK, runnerVars, StreamsCounted, LossesAnswered, DelayFollowsLosses, Watching, Lost

LEMMA BarsStay == BarsOK /\ UNCHANGED <<clock, items, qualityVars, barVars>> => BarsOK'
BY DEF BarsOK, qualityVars, barVars, TicksInBars

LEMMA StartStep == RunnersOK /\ FeedStart => RunnersOK'
<1> SUFFICES ASSUME RunnersOK, FeedStart PROVE RunnersOK'
  OBVIOUS
<1>1. Watching = {} /\ Lost = {} /\ Watching' = {} /\ Lost' = {}
  BY DEF FeedStart, Watching, Lost
<1>2. StreamsCounted' /\ LossesAnswered'
  BY <1>1 DEF FeedStart, RunnersOK, StreamsCounted, LossesAnswered
<1>3. DelayFollowsLosses' /\ \A s \in Streams : stream'[s] # "backoff"
  <2>1. \A s \in Streams : stream'[s] = "starting" /\ delay'[s] = 1 /\ losses'[s] = 0
    BY DEF FeedStart
  <2>2. Smaller(2^0, MaxDelay) = 1
    BY DelayDoubles
  <2>3. \A s \in Streams : losses'[s] - 0 = 0
    BY <2>1
  <2> QED BY <2>1, <2>2, <2>3 DEF DelayFollowsLosses
<1>4. starts' \in 0..MaxStarts
  BY FeedNumbers DEF FeedStart, RunnersOK
<1> QED BY <1>2, <1>3, <1>4, FeedNumbers DEF FeedStart, RunnersOK

LEMMA EnterStep ==
    ASSUME RunnersOK, NEW s \in Streams, EnterStream(s)
    PROVE  RunnersOK'
<1>1. Watching' = Watching \cup {s} /\ s \notin Watching /\ Lost' = Lost
  BY DEF EnterStream, RunnersOK, Watching, Lost
<1>2. Cardinality(Watching') = Cardinality(Watching) + 1
  BY <1>1, FeedCounts, FS_AddElement
<1>3. StreamsCounted' /\ LossesAnswered'
  BY <1>1, <1>2, FeedCounts DEF EnterStream, RunnersOK, StreamsCounted, LossesAnswered
<1>4. DelayFollowsLosses'
  <2>1. \A u \in Streams : u # s => stream'[u] = stream[u]
    BY DEF EnterStream, RunnersOK
  <2>2. stream[s] = "starting" /\ stream'[s] = "watching"
    BY DEF EnterStream, RunnersOK
  <2> QED BY <2>1, <2>2 DEF EnterStream, RunnersOK, DelayFollowsLosses
<1> QED BY <1>3, <1>4 DEF EnterStream, RunnersOK

LEMMA LoseStep ==
    ASSUME RunnersOK, NEW s \in Streams, LoseStream(s)
    PROVE  RunnersOK'
<1>1. Watching' = Watching \ {s} /\ s \in Watching /\ Lost' = Lost \cup {s} /\ s \notin Lost
  BY DEF LoseStream, RunnersOK, Watching, Lost
<1>2. /\ Cardinality(Watching') = Cardinality(Watching) - 1
      /\ Cardinality(Lost') = Cardinality(Lost) + 1
  BY <1>1, FeedCounts, FS_AddElement, FS_RemoveElement
<1>3. StreamsCounted' /\ LossesAnswered'
  BY <1>2, FeedCounts DEF LoseStream, RunnersOK, StreamsCounted, LossesAnswered
<1>4. DelayFollowsLosses'
  <2>1. \A u \in Streams : u # s => stream'[u] = stream[u] /\ losses'[u] = losses[u]
    BY DEF LoseStream, RunnersOK
  <2>2. /\ stream[s] = "watching" /\ stream'[s] = "backoff" /\ losses[s] \in Nat
        /\ losses'[s] = losses[s] + 1
    BY DEF LoseStream, RunnersOK
  <2>3. losses'[s] - 1 = losses[s] - 0
    BY <2>2
  <2> QED BY <2>1, <2>2, <2>3 DEF LoseStream, RunnersOK, DelayFollowsLosses
<1> QED BY <1>3, <1>4 DEF LoseStream, RunnersOK

LEMMA RetryStep ==
    ASSUME RunnersOK, NEW s \in Streams, Retry(s)
    PROVE  RunnersOK'
<1>1. Watching' = Watching \cup {s} /\ s \notin Watching /\ Lost' = Lost \ {s} /\ s \in Lost
  BY DEF Retry, RunnersOK, Watching, Lost
<1>2. /\ Cardinality(Watching') = Cardinality(Watching) + 1
      /\ Cardinality(Lost') = Cardinality(Lost) - 1
  BY <1>1, FeedCounts, FS_AddElement, FS_RemoveElement
<1>3. StreamsCounted' /\ LossesAnswered'
  BY <1>2, FeedCounts DEF Retry, RunnersOK, StreamsCounted, LossesAnswered
<1>4. DelayFollowsLosses' /\ delay' \in [Streams -> 1..MaxDelay]
  <2>1. \A u \in Streams : u # s => stream'[u] = stream[u] /\ delay'[u] = delay[u]
    BY DEF Retry, RunnersOK
  <2>2. /\ stream[s] = "backoff" /\ stream'[s] = "watching" /\ losses' = losses
        /\ losses[s] \in Nat /\ losses[s] >= 1 /\ delay[s] \in 1..MaxDelay
        /\ delay'[s] = Smaller(2 * delay[s], MaxDelay)
    BY DEF Retry, RunnersOK
  <2> DEFINE n == losses[s] - 1
  <2>3. n \in Nat /\ n + 1 = losses[s] /\ losses[s] - 0 = losses[s]
    BY <2>2
  <2>4. delay[s] = Smaller(2^n, MaxDelay)
    BY <2>2 DEF RunnersOK, DelayFollowsLosses
  <2>5. delay'[s] = Smaller(2^losses[s], MaxDelay) /\ delay'[s] \in 1..MaxDelay
    <3> HIDE DEF n
    <3> QED BY <2>2, <2>3, <2>4, DelayDoubles
  <2>6. DelayFollowsLosses'
    BY <2>1, <2>2, <2>3, <2>5 DEF RunnersOK, DelayFollowsLosses
  <2> QED BY <2>2, <2>5, <2>6 DEF Retry, RunnersOK
<1> QED BY <1>3, <1>4 DEF Retry, RunnersOK

LEMMA StopStep == RunnersOK /\ FeedStop => RunnersOK'
<1> SUFFICES ASSUME RunnersOK, FeedStop PROVE RunnersOK'
  OBVIOUS
<1>1. Watching' = {} /\ Lost' = {}
  BY DEF FeedStop, Watching, Lost
<1>2. Cardinality(Watching') = 0 /\ Cardinality(Lost') = 0
  BY <1>1, FS_EmptySet
<1>3. StreamsCounted' /\ LossesAnswered'
  BY <1>2, FeedCounts DEF FeedStop, RunnersOK, StreamsCounted, LossesAnswered
<1>4. DelayFollowsLosses'
  BY DEF FeedStop, DelayFollowsLosses
<1> QED BY <1>3, <1>4, FeedCounts DEF FeedStop, RunnersOK

LEMMA CandleStep ==
    ASSUME BarsOK, NEW price \in Prices \cup {Bad}, CandleArrives(price)
    PROVE  BarsOK'
<1>1. /\ BaselineAfter(clock, price, Baseline).stamp \in -1..MaxTime
      /\ BaselineAfter(clock, price, Baseline).price \in Prices \cup {0}
  BY FeedNumbers DEF BarsOK, BaselineAfter, BarPasses, Baseline, Bad
<1>2. items' \in 0..MaxItems /\ ticksTaken' <= items' /\ barsClosed' \in Nat
  BY FeedNumbers DEF BarsOK, CandleArrives
<1> QED BY <1>1, <1>2 DEF BarsOK, CandleArrives, TicksInBars

LEMMA TickStep ==
    ASSUME FeedTypeOK, BarsOK, NEW price \in Prices \cup {Bad}, TickArrives(price)
    PROVE  BarsOK'
<1>1. CASE ~TickPasses(price)
  BY <1>1, FeedNumbers DEF BarsOK, TickArrives, qualityVars, barVars, runnerVars, TicksInBars
<1>2. CASE TickPasses(price)
  <2>1. price \in Prices
    BY <1>2 DEF TickPasses
  <2>2. AfterFrames(price) \in Results
    BY <2>1, AfterFramesFacts
  <2>3. /\ lastStamp' \in -1..MaxTime /\ lastPrice' \in Prices /\ barsClosed' \in Nat
    BY <1>2, <2>2 DEF TickArrives, BarsOK, Results, Bases
  <2>4. /\ items' \in 0..MaxItems /\ items' = items + 1 /\ ticksTaken' = ticksTaken + 1
        /\ ticksTaken' <= items' /\ ticksTaken' \in 0..MaxItems /\ clock' = clock
    BY <1>2, FeedNumbers DEF BarsOK, TickArrives
  <2>5. ASSUME NEW i \in 1..Len(Frames)
        PROVE  /\ openBar'[i] \in [start : 0..MaxTime, close : Prices, trades : 1..MaxItems]
               /\ barTicks'[i] \in 0..MaxItems
               /\ ticksTaken' = barTicks'[i] + openBar'[i].trades
    <3>1. /\ openBar'[i] = AddTick(i, price)
          /\ barTicks'[i] = barTicks[i] + (IF Completes(i) THEN openBar[i].trades ELSE 0)
      BY <1>2 DEF TickArrives
    <3>2. /\ openBar[i].trades \in Nat /\ barTicks[i] \in Nat
          /\ ticksTaken = barTicks[i] + openBar[i].trades
      BY FeedNumbers DEF BarsOK, TicksInBars, NoBar
    <3>3. FloorTo(i) \in 0..MaxTime
      <4>1. clock \in Nat /\ clock <= MaxTime
        BY FeedNumbers DEF BarsOK
      <4>2. FloorTo(i) \in 0..clock
        BY <4>1, FloorFacts
      <4> QED BY <4>1, <4>2, FeedNumbers
    <3>4. CASE Completes(i)
      <4>1. openBar'[i] = [start |-> FloorTo(i), close |-> price, trades |-> 1]
        BY <3>1, <3>4 DEF AddTick
      <4>2. barTicks'[i] = barTicks[i] + openBar[i].trades
        BY <3>1, <3>4
      <4> QED BY <2>1, <2>4, <3>2, <3>3, <4>1, <4>2, FeedNumbers DEF BarsOK
    <3>5. CASE ~Completes(i)
      <4>1. openBar'[i] = [start |-> FloorTo(i), close |-> price, trades |-> openBar[i].trades + 1]
        BY <3>1, <3>5 DEF AddTick
      <4>2. barTicks'[i] = barTicks[i]
        BY <3>1, <3>2, <3>5
      <4>3. openBar[i].trades + 1 \in 1..MaxItems /\ barTicks[i] \in 0..MaxItems
        <5>1. barTicks[i] \in 0..MaxItems /\ ticksTaken \in Nat
          BY FeedNumbers DEF BarsOK
        <5>2. openBar[i].trades + 1 <= MaxItems /\ openBar[i].trades + 1 >= 1
          BY <2>4, <3>2, <5>1, FeedNumbers
        <5> QED BY <3>2, <5>1, <5>2, FeedNumbers
      <4>4. ticksTaken' = barTicks[i] + (openBar[i].trades + 1)
        <5>1. \A a, b \in Nat : (a + b) + 1 = a + (b + 1)
          OBVIOUS
        <5> QED BY <2>4, <3>2, <5>1
      <4> QED BY <2>1, <3>3, <4>1, <4>2, <4>3, <4>4
    <3> QED BY <3>4, <3>5
  <2>6. barTicks' \in [1..Len(Frames) -> 0..MaxItems]
    <3>1. barTicks' = [i \in 1..Len(Frames) |-> barTicks'[i]]
      BY <1>2 DEF TickArrives
    <3> QED BY <2>5, <3>1
  <2>7. TicksInBars'
    BY <2>5 DEF TicksInBars
  <2> QED BY <2>3, <2>4, <2>5, <2>6, <2>7 DEF BarsOK
<1> QED BY <1>1, <1>2

(* FeedAccounted: what the feed counts, announces and aggregates agrees    *)
(* with what happened to its streams (data_feed.py:139-182, 307-434).      *)
LEMMA FeedStep == FeedIInv /\ [FeedNext]_feedVars => FeedIInv'
<1> SUFFICES ASSUME RunnersOK, BarsOK, [FeedNext]_feedVars PROVE RunnersOK' /\ BarsOK'
  BY FeedParts
<1>0. FeedTypeOK
  BY FeedParts DEF FeedIInv, FeedAccounted
<1>1. CASE FeedStart
  BY <1>1, StartStep, BarsStay DEF FeedStart
<1>2. CASE FeedStop
  BY <1>2, StopStep, BarsStay DEF FeedStop
<1>3. CASE TimePasses
  <2>1. clock' \in 0..MaxTime
    BY <1>3, FeedNumbers DEF TimePasses, BarsOK
  <2>2. BarsOK'
    BY <1>3, <2>1 DEF TimePasses, BarsOK, qualityVars, barVars, TicksInBars
  <2> QED BY <1>3, <2>2, RunnersStay DEF TimePasses
<1>4. ASSUME NEW s \in Streams, EnterStream(s) \/ LoseStream(s) \/ Retry(s)
      PROVE  RunnersOK' /\ BarsOK'
  <2>1. RunnersOK'
    BY <1>4, EnterStep, LoseStep, RetryStep
  <2>2. UNCHANGED <<clock, items, qualityVars, barVars>>
    BY <1>4 DEF EnterStream, LoseStream, Retry
  <2> QED BY <2>1, <2>2, BarsStay
<1>5. ASSUME NEW p \in Prices \cup {Bad}, CandleArrives(p) \/ TickArrives(p)
      PROVE  RunnersOK' /\ BarsOK'
  <2>1. BarsOK'
    BY <1>0, <1>5, CandleStep, TickStep
  <2>2. UNCHANGED runnerVars
    BY <1>5 DEF CandleArrives, TickArrives
  <2> QED BY <2>1, <2>2, RunnersStay
<1>6. CASE UNCHANGED feedVars
  BY <1>6, RunnersStay, BarsStay DEF feedVars
<1> QED BY <1>1, <1>2, <1>3, <1>4, <1>5, <1>6 DEF FeedNext

(* FeedAccounted: what the feed counts, announces and aggregates agrees    *)
(* with what happened to its streams, for any streams, frames and bounds   *)
(* on the delay, over losses, stops and restarts (data_feed.py).           *)
THEOREM FeedAccounts == FeedSpec => []FeedAccounted
<1>1. FeedIInv => FeedAccounted
  BY DEF FeedIInv
<1> QED BY <1>1, FeedInitHolds, FeedStep, PTL DEF FeedSpec

(* A step from a baseline out of reach publishes no bar and leaves it so.  *)
LEMMA DeadStep ==
    FeedIInv /\ [FeedNext]_feedVars
        => (OutOfReach => barsClosed' = barsClosed /\ OutOfReach')
<1> SUFFICES ASSUME BarsOK, FeedTypeOK, [FeedNext]_feedVars, OutOfReach
             PROVE  barsClosed' = barsClosed /\ OutOfReach'
  BY FeedParts DEF FeedIInv, FeedAccounted
<1>0. /\ clock \in Nat /\ lastStamp \in Int /\ barsClosed \in Nat /\ MaxStaleness \in Nat
      /\ \A i \in 1..Len(Frames) : FloorTo(i) \in Int
  BY FloorFacts, FeedNumbers DEF BarsOK
<1>1. CASE UNCHANGED <<clock, lastStamp, openBar, barsClosed>>
  BY <1>1 DEF OutOfReach, TooLate, FloorTo
<1>2. CASE TimePasses
  <2>1. /\ clock' = clock + 1
        /\ lastStamp' = lastStamp /\ openBar' = openBar /\ barsClosed' = barsClosed
    BY <1>2 DEF TimePasses, qualityVars, barVars
  <2>2. TooLate(clock)'
    BY <1>0, <2>1 DEF OutOfReach, TooLate
  <2>3. ASSUME NEW i \in 1..Len(Frames) PROVE TooLate(FloorTo(i))'
    <3>1. FloorTo(i) <= FloorTo(i)'
      BY <1>0, <2>1, FloorFacts
    <3>2. FloorTo(i)' \in Int
      <4>1. clock' \in Nat
        BY <1>0, <2>1
      <4>2. Frames[i] \in Nat /\ Frames[i] >= 1
        BY FeedNumbers
      <4> QED BY <4>1, <4>2 DEF FloorTo
    <3> QED BY <1>0, <2>1, <3>1, <3>2 DEF OutOfReach, TooLate
  <2> QED BY <2>1, <2>2, <2>3 DEF OutOfReach, TooLate
<1>3. ASSUME NEW p \in Prices \cup {Bad}, CandleArrives(p)
      PROVE  barsClosed' = barsClosed /\ OutOfReach'
  <2>1. ~BarPasses(clock, p, Baseline)
    BY <1>0 DEF OutOfReach, TooLate, BarPasses, Baseline
  <2>2. lastStamp' = lastStamp /\ barsClosed' = barsClosed + 0
    BY <1>3, <2>1 DEF CandleArrives, BaselineAfter, Baseline
  <2>3. clock' = clock /\ openBar' = openBar
    BY <1>3 DEF CandleArrives
  <2>4. barsClosed' = barsClosed
    BY <1>0, <2>2
  <2> QED BY <1>1, <2>2, <2>3, <2>4
<1>4. ASSUME NEW p \in Prices \cup {Bad}, TickArrives(p), TickPasses(p)
      PROVE  barsClosed' = barsClosed /\ OutOfReach'
  <2>1. p \in Prices
    BY <1>4 DEF TickPasses
  <2> DEFINE K == {r \in Results : r.base.stamp = lastStamp /\ r.closed = 0}
             base == [base |-> [stamp |-> lastStamp, price |-> p], closed |-> 0]
  <2>2. base \in K
    BY <2>1 DEF BarsOK, Results, Bases
  <2>3. ASSUME NEW i \in 1..Len(Frames), NEW r \in Results, r \in K
        PROVE  StepOf(i, r) \in K
    <3>1. CASE ~Completes(i)
      BY <2>3, <3>1 DEF StepOf
    <3>2. CASE Completes(i)
      <4>1. openBar[i].start - lastStamp > MaxStaleness
        BY <3>2 DEF Completes, OutOfReach, TooLate
      <4>2. openBar[i] \in [start : 0..MaxTime, close : Prices, trades : 1..MaxItems]
        BY <3>2 DEF Completes, BarsOK
      <4>3. openBar[i].start \in Int
        BY <4>2, FeedNumbers
      <4>4. ~BarPasses(openBar[i].start, openBar[i].close, r.base)
        BY <1>0, <2>3, <4>1, <4>3 DEF BarPasses, OutOfReach
      <4>5. /\ StepOf(i, r).base = r.base
            /\ StepOf(i, r).closed = r.closed + 0
        BY <3>2, <4>4 DEF StepOf, BaselineAfter
      <4>6. StepOf(i, r) \in Results
        BY StepType
      <4> QED BY <2>3, <4>5, <4>6
    <3> QED BY <3>1, <3>2
  <2>4. AfterFrames(p) \in K
    <3> HIDE DEF K
    <3> QED BY <2>1, <2>2, <2>3, AfterFramesFacts
  <2>5. lastStamp' = lastStamp /\ barsClosed' = barsClosed
    BY <1>0, <1>4, <2>4 DEF TickArrives
  <2>6. clock' = clock
    BY <1>4 DEF TickArrives
  <2>7. \A i \in 1..Len(Frames) : FloorTo(i)' = FloorTo(i) /\ openBar'[i].start = FloorTo(i)
    BY <1>4, <2>6 DEF TickArrives, AddTick, FloorTo
  <2> QED BY <2>5, <2>6, <2>7 DEF OutOfReach, TooLate
<1>5. ASSUME NEW p \in Prices \cup {Bad}, TickArrives(p), ~TickPasses(p)
      PROVE  barsClosed' = barsClosed /\ OutOfReach'
  BY <1>1, <1>5 DEF TickArrives, qualityVars, barVars
<1>6. ASSUME \/ FeedStart \/ FeedStop \/ UNCHANGED feedVars
             \/ \E s \in Streams : EnterStream(s) \/ LoseStream(s) \/ Retry(s)
      PROVE  barsClosed' = barsClosed /\ OutOfReach'
  <2>1. UNCHANGED <<clock, lastStamp, openBar, barsClosed>>
    BY <1>6 DEF FeedStart, FeedStop, EnterStream, LoseStream, Retry, feedVars, qualityVars, barVars
  <2> QED BY <1>1, <2>1
<1> QED BY <1>2, <1>3, <1>4, <1>5, <1>6 DEF FeedNext

(* DeadFeedStaysDead: a bar refused as stale does not move the baseline,   *)
(* and no reconnection or restart clears it (data_feed.py:71-77, 97, 377). *)
THEOREM DeadFeed == FeedSpec => DeadFeedStaysDead
<1>1. FeedIInv /\ [FeedNext]_feedVars
          => [OutOfReach => barsClosed' = barsClosed /\ OutOfReach']_feedVars
  BY DeadStep
<1> QED BY <1>1, FeedInitHolds, FeedStep, PTL DEF FeedSpec, DeadFeedStaysDead

=============================================================================
