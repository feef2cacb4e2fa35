---------------------------- MODULE MessageQueue ----------------------------
(***************************************************************************)
(* The bounded priority queue of infrastructure/backpressure.py with its   *)
(* load shedder: producers put messages, consumers take the most urgent    *)
(* one, and a monitor slows the producers' rate limiter down as the queue  *)
(* fills up.                                                               *)
(*                                                                         *)
(* Every operation of the queue holds its lock, so one operation is one    *)
(* step. The monitor does not: it reads the depth, and sets the rate in a  *)
(* later step. A message is its priority: 0 is the most urgent, CRITICAL.  *)
(* Latency, the other source of pressure, is any value up to the maximum.  *)
(***************************************************************************)
EXTENDS Integers, Sequences, FiniteSets

CONSTANTS
    Priorities,      \* the priorities in use, of Priority
    MaxSize,         \* max_size
    HighWatermark,   \* high_watermark, in messages
    LowWatermark,    \* low_watermark, in messages
    DropBelow,       \* drop_below
    MaxPuts          \* bound on the calls of put

ASSUME QueueAssumption ==
    /\ Priorities \subseteq Nat
    /\ MaxSize \in Nat \ {0}
    /\ HighWatermark \in 0..MaxSize
    /\ LowWatermark \in 0..HighWatermark
    /\ DropBelow \in Nat \ {0}
    /\ MaxPuts \in Nat

Critical == 0

VARIABLES
    queue,      \* _queue, oldest first
    shedding,   \* _shedding
    enqueued,   \* _total_enqueued
    dequeued,   \* _total_dequeued
    dropped,    \* _dropped
    refused,    \* history: messages dropped on arrival
    cleared,    \* history: messages thrown away by clear
    sampled,    \* tick: the pressure computed and not yet applied, or NoSample
    pressure    \* the pressure the rate limiter was last adjusted for

queueVars == <<queue, shedding, enqueued, dequeued, dropped, refused, cleared,
               sampled, pressure>>

NoSample == MaxSize + 1

QueueTypeOK ==
    /\ queue \in Seq(Priorities)
    /\ Len(queue) <= MaxSize
    /\ shedding \in BOOLEAN
    /\ enqueued \in Nat /\ dequeued \in Nat /\ dropped \in Nat
    /\ refused \in Nat /\ cleared \in Nat
    /\ sampled \in 0..NoSample
    /\ pressure \in 0..MaxSize

QueueInit ==
    /\ queue = <<>>
    /\ shedding = FALSE
    /\ enqueued = 0 /\ dequeued = 0 /\ dropped = 0
    /\ refused = 0 /\ cleared = 0
    /\ sampled = NoSample
    /\ pressure = 0

\* the queue without its i-th message
Without(q, i) == [j \in 1..(Len(q) - 1) |-> IF j < i THEN q[j] ELSE q[j + 1]]

\* the position of the oldest message of the highest and of the lowest priority
IsBest(q, i) ==
    /\ i \in 1..Len(q)
    /\ \A j \in 1..Len(q) : q[i] < q[j] \/ (q[i] = q[j] /\ i <= j)

IsWorst(q, i) ==
    /\ i \in 1..Len(q)
    /\ \A j \in 1..Len(q) : q[i] > q[j] \/ (q[i] = q[j] /\ i <= j)

-----------------------------------------------------------------------------
(* put                                                                     *)

Full == Len(queue) >= MaxSize

\* the newcomer is dropped on arrival
Refuse ==
    /\ dropped' = dropped + 1
    /\ refused' = refused + 1
    /\ UNCHANGED <<queue, enqueued>>

(* The queue is full and the message is one to drop: nothing else is       *)
(* looked at.                                                              *)
PutFull(p) ==
    /\ Full /\ p >= DropBelow
    /\ Refuse
    /\ UNCHANGED <<shedding, dequeued, cleared, sampled, pressure>>

\* mutant: the oldest message is evicted, not the least urgent one
PutEvictOldest(p) ==
    /\ Full /\ p < DropBelow
    /\ queue' = Append(Tail(queue), p)
    /\ enqueued' = enqueued + 1
    /\ dropped' = dropped + 1
    /\ shedding' = IF Len(queue) - 1 >= HighWatermark THEN TRUE ELSE shedding
    /\ UNCHANGED <<dequeued, refused, cleared, sampled, pressure>>

(* The queue is full and the message is urgent: the oldest of the least    *)
(* urgent messages makes room, be it more urgent than the newcomer.        *)
PutEvict(p) ==
    /\ Full /\ p < DropBelow
    /\ \E i \in 1..Len(queue) :
          /\ IsWorst(queue, i)
          /\ queue' = Append(Without(queue, i), p)
    /\ enqueued' = enqueued + 1
    /\ dropped' = dropped + 1
    /\ shedding' = IF Len(queue) - 1 >= HighWatermark THEN TRUE
                   ELSE shedding /\ Len(queue') > LowWatermark
    /\ UNCHANGED <<dequeued, refused, cleared, sampled, pressure>>

\* mutant: a message that is shed is counted as taken in
PutShedCounted(p) ==
    /\ ~Full /\ Len(queue) >= HighWatermark /\ p >= DropBelow
    /\ dropped' = dropped + 1
    /\ refused' = refused + 1
    /\ enqueued' = enqueued + 1
    /\ shedding' = TRUE
    /\ UNCHANGED <<queue, dequeued, cleared, sampled, pressure>>

(* At the high watermark shedding starts, and the message is one to drop.  *)
PutShed(p) ==
    /\ ~Full /\ Len(queue) >= HighWatermark /\ p >= DropBelow
    /\ Refuse
    /\ shedding' = TRUE
    /\ UNCHANGED <<dequeued, cleared, sampled, pressure>>

(* The message is taken in. Shedding starts at the high watermark and ends *)
(* here only, by a put that leaves the queue at the low watermark.         *)
PutAppend(p) ==
    /\ ~Full
    /\ Len(queue) < HighWatermark \/ p < DropBelow
    /\ queue' = Append(queue, p)
    /\ enqueued' = enqueued + 1
    /\ shedding' = IF Len(queue) >= HighWatermark THEN TRUE
                   ELSE shedding /\ Len(queue') > LowWatermark
    /\ UNCHANGED <<dequeued, dropped, refused, cleared, sampled, pressure>>

Put(p) ==
    /\ enqueued + refused < MaxPuts
    /\ PutFull(p) \/ PutEvict(p) \/ PutShed(p) \/ PutAppend(p)

-----------------------------------------------------------------------------
(* get, drain and clear                                                    *)

(* The oldest of the most urgent messages is taken.                        *)
Get ==
    /\ \E i \in 1..Len(queue) :
          /\ IsBest(queue, i)
          /\ queue' = Without(queue, i)
    /\ dequeued' = dequeued + 1
    /\ UNCHANGED <<shedding, enqueued, dropped, refused, cleared, sampled, pressure>>

(* Messages are taken in the order of their arrival, urgent or not.        *)
Drain ==
    /\ \E n \in 1..Len(queue) :
          /\ queue' = SubSeq(queue, n + 1, Len(queue))
          /\ dequeued' = dequeued + n
    /\ UNCHANGED <<shedding, enqueued, dropped, refused, cleared, sampled, pressure>>

(* clear throws the messages away and counts them nowhere.                 *)
Clear ==
    /\ queue # <<>>
    /\ queue' = <<>>
    /\ cleared' = cleared + Len(queue)
    /\ UNCHANGED <<shedding, enqueued, dequeued, dropped, refused, sampled, pressure>>

-----------------------------------------------------------------------------
(* The load shedder                                                        *)

(* compute_pressure: the depth, or a latency that presses harder.          *)
Sample ==
    /\ sampled = NoSample
    /\ sampled' \in Len(queue)..MaxSize
    /\ UNCHANGED <<queue, shedding, enqueued, dequeued, dropped, refused, cleared, pressure>>

(* adjust_for_pressure, with whatever the depth has become by now.         *)
Adjust ==
    /\ sampled # NoSample
    /\ pressure' = sampled
    /\ sampled' = NoSample
    /\ UNCHANGED <<queue, shedding, enqueued, dequeued, dropped, refused, cleared>>

QueueNext ==
    \/ \E p \in Priorities : Put(p)
    \/ Get \/ Drain \/ Clear
    \/ Sample \/ Adjust

QueueSpec == QueueInit /\ [][QueueNext]_queueVars

-----------------------------------------------------------------------------
(* Properties                                                              *)

\* history: messages taken in and pushed out again
Evicted == dropped - refused

(* What has been taken in has been taken out, pushed out, thrown away or   *)
(* waits; and a queue above its high watermark sheds. (The counters alone  *)
(* do not add up: an evicted message counts as enqueued and as dropped, a  *)
(* cleared one as neither dropped nor dequeued.)                           *)
QueueAccounted ==
    /\ enqueued = dequeued + Evicted + cleared + Len(queue)
    /\ Len(queue) > HighWatermark => shedding

\* the number of critical messages in q
CriticalIn(q) == Cardinality({i \in 1..Len(q) : q[i] = Critical})

(* A put that finds the queue full costs a critical message its place only *)
(* when every message queued is critical: until then "never drop" holds.   *)
CriticalLostLast ==
    [][(dropped' > dropped /\ CriticalIn(queue) < Len(queue))
         => CriticalIn(queue') >= CriticalIn(queue)]_queueVars

(* The inductive invariant: the account, on a queue within its bound.      *)
QueueIInv == QueueTypeOK /\ QueueAccounted

=============================================================================
