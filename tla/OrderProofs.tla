---------------------------- MODULE OrderProofs ----------------------------
(***************************************************************************)
(* Proofs about OrderPipeline, for any number of signals, any quantity     *)
(* bound and any number of flushes, and about PaperTrading, the connector  *)
(* on paper, for any orders, prices, spread, impact and fee that satisfy   *)
(* PaperAssumption.                                                        *)
(***************************************************************************)
EXTENDS OrderPipeline, PaperTrading, Induction, SequenceTheorems

LocalOrder == [qty : Qty, filled : Qty, state : OrderStates]

(* The initial states satisfy the inductive invariant.                     *)
LEMMA InitIInv == Init => IInv
<1> SUFFICES ASSUME Init PROVE IInv
  OBVIOUS
<1> USE DEF Init
<1>0. MaxQty \in Nat \ {0} /\ MaxFlushes \in Nat /\ NoOrder \notin Signals /\ 0 \in Qty
  BY PipelineAssumption DEF Qty
<1>1. TypeOK
  <2>1. /\ portfolio \in BOOLEAN
        /\ pc \in [Signals -> CallStates]
        /\ open \in SUBSET Signals
        /\ metrics \in [Counters -> Nat]
        /\ published \in [Signals -> Nat]
    BY DEF CallStates
  <2>5. fillQueue \in Seq([order : Signals, qty : Qty])
    BY EmptySeq
  <2>2. /\ order \in [Signals -> [qty : Qty, filled : Qty, state : OrderStates]]
        /\ exch \in [Signals -> ExchOrder]
        /\ ack \in [Signals -> ExchOrder]
    BY <1>0 DEF Unknown, ExchOrder, OrderStates
  <2>3. poll \in [todo : SUBSET Signals, cur : Signals \cup {NoOrder}, reply : ExchOrder]
    BY <1>0 DEF Unknown, ExchOrder
  <2>4. flush \in [todo : SUBSET Signals, cur : Signals \cup {NoOrder},
                   reply : {"none", "ok", "error"}, active : BOOLEAN, left : 0..MaxFlushes]
    BY <1>0
  <2> QED BY <2>1, <2>2, <2>3, <2>4, <2>5 DEF TypeOK
<1>2. \A s \in Signals : ExchangeInv(s) /\ BooksInv(s)
  BY DEF ExchangeInv, BooksInv, Unknown
<1>3. QueueInv
  BY DEF QueueInv
<1>4. PollInv /\ FlushInv
  BY <1>0 DEF PollInv, FlushInv
<1> QED
  BY <1>1, <1>2, <1>3, <1>4 DEF IInv

(* Raising any counters keeps them natural numbers.                        *)
LEMMA CountType ==
    ASSUME metrics \in [Counters -> Nat], NEW cs, Count(cs)
    PROVE  metrics' \in [Counters -> Nat]
BY DEF Count

(* What is queued are fills of signals.                                    *)
LEMMA QueuedAreFills ==
    ASSUME TypeOK, NEW i \in 1..Len(fillQueue)
    PROVE  fillQueue[i].order \in Signals /\ fillQueue[i].qty \in Qty
<1>1. fillQueue[i] \in [order : Signals, qty : Qty]
  BY ElementOfSeq DEF TypeOK
<1> QED BY <1>1

(* The empty reply is a reply.                                             *)
LEMMA UnknownType == Unknown \in ExchOrder
BY PipelineAssumption DEF Unknown, ExchOrder, Qty

(* Queue, poller and flush look only at tracked orders: a change to an     *)
(* order that is not tracked does not disturb what they rely on.           *)
LEMMA UntrackedChange ==
    ASSUME IInv, NEW s \in Signals, pc[s] # "tracked",
           \A t \in Signals : t # s => pc'[t] = pc[t] /\ order'[t] = order[t],
           open \subseteq open',
           UNCHANGED <<fillQueue, poll, flush, exch>>
    PROVE  QueueInv' /\ PollInv' /\ FlushInv'
<1>1. \A i \in 1..Len(fillQueue) : fillQueue[i].order \in Signals /\ fillQueue[i].order # s
  BY QueuedAreFills DEF IInv, QueueInv, BooksInv
<1>2. QueueInv'
  BY <1>1 DEF IInv, QueueInv
<1>3. PollInv'
  BY DEF IInv, PollInv
<1>4. FlushInv'
  BY DEF IInv, FlushInv
<1> QED BY <1>2, <1>3, <1>4

-----------------------------------------------------------------------------
(* submit_signal                                                           *)

(* A call that has not reached the exchange moves on: nothing else of the  *)
(* pipeline depends on it yet.                                             *)
LEMMA CallMoves ==
    ASSUME IInv,
           NEW s \in Signals, pc[s] \in {"idle", "risk"},
           NEW c \in {"risk", "routing", "refused", "failed"}, pc' = [pc EXCEPT ![s] = c],
           NEW r \in LocalOrder, r.qty >= 1, order' = [order EXCEPT ![s] = r],
           metrics' \in [Counters -> Nat],
           portfolio' \in BOOLEAN,
           UNCHANGED <<open, fillQueue, poll, flush, exch, ack, published>>
    PROVE  IInv'
<1> USE DEF LocalOrder
<1>1. TypeOK'
  BY DEF IInv, TypeOK, CallStates
<1>2. exch[s].state = "none" /\ ack[s].state = "none" /\ s \notin open
  BY DEF IInv, ExchangeInv, BooksInv
<1>3. \A t \in Signals : t # s => pc'[t] = pc[t] /\ order'[t] = order[t]
  BY DEF IInv, TypeOK
<1>4. pc'[s] = c /\ order'[s] = r
  BY DEF IInv, TypeOK
<1>5. \A t \in Signals : ExchangeInv(t)' /\ BooksInv(t)'
  BY <1>2, <1>3, <1>4 DEF IInv, ExchangeInv, BooksInv
<1>6. QueueInv' /\ PollInv' /\ FlushInv'
  BY <1>3, UntrackedChange
<1> QED
  BY <1>1, <1>5, <1>6 DEF IInv

(* After the approval the order is clamped, and routed or refused.         *)
LEMMA ApprovalIInv ==
    ASSUME IInv,
           NEW s \in Signals, pc[s] \in {"idle", "risk"},
           NEW q \in 1..MaxQty, NEW m \in Qty, NEW passed, AfterApproval(s, q, m, passed),
           UNCHANGED <<portfolio, open, fillQueue, poll, flush, exch, ack, published>>
    PROVE  IInv'
<1> DEFINE clamped == [qty |-> Clamp(q, m), filled |-> 0, state |-> "PENDING"]
<1>1. clamped \in LocalOrder /\ clamped.qty >= 1
  BY PipelineAssumption DEF Clamp, Qty, LocalOrder, OrderStates
<1>2. metrics' \in [Counters -> Nat] /\ portfolio' \in BOOLEAN
  BY CountType DEF AfterApproval, IInv, TypeOK
<1>3. CASE pc' = [pc EXCEPT ![s] = "routing"] /\
           order' = [order EXCEPT ![s] = [clamped EXCEPT !.state = "SUBMITTED"]]
  <2> DEFINE r == [clamped EXCEPT !.state = "SUBMITTED"]
  <2>1. r \in LocalOrder /\ r.qty >= 1
    BY <1>1 DEF LocalOrder, OrderStates
  <2> HIDE DEF r
  <2>2. order' = [order EXCEPT ![s] = r]
    BY <1>3 DEF r
  <2> QED BY <1>2, <1>3, <2>1, <2>2, CallMoves
<1>4. CASE pc' = [pc EXCEPT ![s] = "refused"] /\ order' = [order EXCEPT ![s] = clamped]
  <2> HIDE DEF clamped
  <2> QED BY <1>1, <1>2, <1>4, CallMoves
<1> QED
  BY <1>3, <1>4 DEF AfterApproval

(* Every step of a submit_signal call keeps the inductive invariant.       *)
LEMMA SubmitIInv ==
    ASSUME IInv, NEW s \in Signals, SubmitStep(s)
    PROVE  IInv'
<1>0. /\ metrics \in [Counters -> Nat] /\ portfolio \in BOOLEAN
      /\ \A t \in Signals : order[t] \in LocalOrder /\ pc[t] \in CallStates
  BY DEF IInv, TypeOK, LocalOrder
<1>1. CASE SubmitSignal(s)
  <2>1. PICK q \in 1..MaxQty :
          IF portfolio
          THEN /\ pc' = [pc EXCEPT ![s] = "risk"]
               /\ order' = [order EXCEPT ![s].qty = q]
               /\ Count({"signals_received", "orders_created"})
          ELSE AfterApproval(s, q, 0, {"signals_received", "orders_created"})
    BY <1>1 DEF SubmitSignal
  <2>2. 0 \in Qty
    BY PipelineAssumption DEF Qty
  <2>3. CASE portfolio
    <3> DEFINE r == [order[s] EXCEPT !.qty = q]
    <3>1. r \in LocalOrder /\ r.qty >= 1
      BY <1>0 DEF LocalOrder, Qty
    <3>2. order' = [order EXCEPT ![s] = r]
      BY <2>1, <2>3
    <3> HIDE DEF r
    <3>3. metrics' \in [Counters -> Nat]
      BY <1>0, <2>1, <2>3, CountType
    <3> QED
      BY <1>0, <1>1, <2>1, <2>3, <3>1, <3>2, <3>3, CallMoves DEF SubmitSignal
  <2>4. CASE ~portfolio
    BY <1>1, <2>1, <2>2, <2>4, ApprovalIInv DEF SubmitSignal
  <2> QED BY <2>3, <2>4
<1>2. CASE RiskApproves(s)
  <2>1. PICK m \in Qty : AfterApproval(s, order[s].qty, m, {})
    BY <1>2 DEF RiskApproves
  <2>2. order[s].qty \in 1..MaxQty
    BY <1>0, <1>2, PipelineAssumption DEF RiskApproves, IInv, BooksInv, LocalOrder, Qty
  <2> QED
    BY <1>2, <2>1, <2>2, ApprovalIInv DEF RiskApproves
<1>3. CASE RiskRefuses(s) \/ RiskRaises(s)
  <2> DEFINE r == IF RiskRefuses(s) THEN [order[s] EXCEPT !.state = "REJECTED"] ELSE order[s]
  <2>1. r \in LocalOrder /\ r.qty >= 1
    BY <1>0, <1>3 DEF RiskRefuses, RiskRaises, IInv, BooksInv, LocalOrder, OrderStates
  <2>2. order' = [order EXCEPT ![s] = r]
    BY <1>3 DEF RiskRefuses, RiskRaises, IInv, TypeOK
  <2>3. metrics' \in [Counters -> Nat]
    BY <1>0, <1>3, CountType DEF RiskRefuses, RiskRaises
  <2> HIDE DEF r
  <2> QED
    BY <1>0, <1>3, <2>1, <2>2, <2>3, CallMoves DEF RiskRefuses, RiskRaises
<1>4. CASE SubmitReply(s)
  <2> DEFINE r == [order[s] EXCEPT !.state = ack[s].state, !.filled = ack[s].filled]
  <2>1. r \in LocalOrder
    BY <1>0, <1>4 DEF SubmitReply, IInv, TypeOK, ExchangeInv, LocalOrder, OrderStates, ExchOrder
  <2>2. order' = [order EXCEPT ![s] = r]
    BY <1>4 DEF SubmitReply
  <2>3. pc' = [pc EXCEPT ![s] = "tracked"] /\ pc[s] = "routing" /\ ack[s].state # "none"
    BY <1>4 DEF SubmitReply
  <2>4. r.qty = order[s].qty /\ r.state = ack[s].state /\ r.filled = ack[s].filled
    BY <1>0 DEF LocalOrder
  <2> HIDE DEF r
  <2>5. /\ \A t \in Signals : t # s => pc'[t] = pc[t] /\ order'[t] = order[t]
        /\ pc'[s] = "tracked" /\ order'[s] = r
    BY <2>2, <2>3 DEF IInv, TypeOK
  <2>6. open' = open \cup {s} /\ UNCHANGED <<portfolio, fillQueue, poll, flush, exch, ack, published>>
    BY <1>4 DEF SubmitReply
  <2>7. TypeOK'
    <3>1. metrics' \in [Counters -> Nat]
      BY <1>0, <1>4, CountType DEF SubmitReply
    <3> QED BY <2>1, <2>2, <2>3, <2>6, <3>1 DEF IInv, TypeOK, CallStates, LocalOrder
  <2>8. \A t \in Signals : ExchangeInv(t)' /\ BooksInv(t)'
    <3>1. ExchangeInv(s)' /\ BooksInv(s)'
      BY <2>3, <2>4, <2>5, <2>6 DEF IInv, TypeOK, ExchOrder, Qty, ExchangeInv, BooksInv
    <3>2. ASSUME NEW t \in Signals, t # s PROVE ExchangeInv(t)' /\ BooksInv(t)'
      BY <2>5, <2>6, <3>2 DEF IInv, ExchangeInv, BooksInv
    <3> QED BY <3>1, <3>2
  <2>9. QueueInv' /\ PollInv' /\ FlushInv'
    BY <2>3, <2>5, <2>6, UntrackedChange
  <2> QED BY <2>7, <2>8, <2>9 DEF IInv
<1>5. CASE SubmitError(s)
  <2> DEFINE r == [order[s] EXCEPT !.state = "REJECTED"]
  <2>1. r \in LocalOrder /\ r.qty = order[s].qty
    BY <1>0 DEF LocalOrder, OrderStates
  <2>2. order' = [order EXCEPT ![s] = r]
    BY <1>5 DEF SubmitError
  <2>3. pc' = [pc EXCEPT ![s] = "failed"] /\ pc[s] = "routing"
    BY <1>5 DEF SubmitError
  <2> HIDE DEF r
  <2>4. /\ \A t \in Signals : t # s => pc'[t] = pc[t] /\ order'[t] = order[t]
        /\ pc'[s] = "failed" /\ order'[s] = r
    BY <2>2, <2>3 DEF IInv, TypeOK
  <2>5. UNCHANGED <<portfolio, open, fillQueue, poll, flush, exch, ack, published>>
    BY <1>5 DEF SubmitError
  <2>6. TypeOK'
    <3>1. metrics' \in [Counters -> Nat]
      BY <1>0, <1>5, CountType DEF SubmitError
    <3> QED BY <2>1, <2>2, <2>3, <2>5, <3>1 DEF IInv, TypeOK, CallStates, LocalOrder
  <2>7. \A t \in Signals : ExchangeInv(t)' /\ BooksInv(t)'
    BY <2>1, <2>3, <2>4, <2>5 DEF IInv, ExchangeInv, BooksInv
  <2>8. QueueInv' /\ PollInv' /\ FlushInv'
    BY <2>3, <2>4, <2>5, UntrackedChange
  <2> QED BY <2>6, <2>7, <2>8 DEF IInv
<1> QED
  BY <1>1, <1>2, <1>3, <1>4, <1>5 DEF SubmitStep

-----------------------------------------------------------------------------
(* The status poller                                                       *)

(* Every step of the poller for one order keeps the inductive invariant.   *)
LEMMA PollIInv ==
    ASSUME IInv, NEW s \in Signals, PollStep(s)
    PROVE  IInv'
<1>1. CASE PollFetch(s)
  <2>1. PICK reply \in {exch[s], NotHeld} :
           /\ poll' = [todo |-> poll.todo \ {s}, cur |-> s, reply |-> reply]
           /\ s \in poll.todo /\ poll.cur = NoOrder
           /\ UNCHANGED <<portfolio, pc, order, open, metrics, fillQueue, flush, exch, ack, published>>
    BY <1>1 DEF PollFetch
  <2>2. TypeOK'
    <3>1. reply \in ExchOrder
      BY PipelineAssumption DEF NotHeld, ExchOrder, DeadStates, Qty, IInv, TypeOK
    <3> QED BY <2>1, <3>1 DEF IInv, TypeOK
  <2>3. QueueInv'
    BY <2>1 DEF IInv, QueueInv
  <2>4. PollInv'
    <3>1. (reply.state \in EndStates => reply = exch[s]) /\ (exch[s].state # "none" => reply.state # "none")
      BY DEF NotHeld, EndStates
    <3> QED BY <2>1, <3>1 DEF IInv, PollInv, BooksInv
  <2> QED BY <2>1, <2>2, <2>3, <2>4 DEF IInv, ExchangeInv, BooksInv, FlushInv
<1>2. CASE poll.cur = s /\ PollDone /\
           UNCHANGED <<portfolio, pc, order, open, metrics, fillQueue, flush, exch, ack, published>>
  <2>1. TypeOK'
    BY <1>2, UnknownType DEF PollDone, IInv, TypeOK
  <2>2. QueueInv'
    BY <1>2, PipelineAssumption DEF PollDone, IInv, TypeOK, QueueInv
  <2>3. PollInv'
    BY <1>2, PipelineAssumption DEF PollDone, IInv, TypeOK, PollInv
  <2> QED BY <1>2, <2>1, <2>2, <2>3 DEF IInv, ExchangeInv, BooksInv, FlushInv
<1>3. CASE PollFilled(s)
  <2> DEFINE f == [order |-> s, qty |-> poll.reply.filled - order[s].filled]
  <2>1. /\ poll.cur = s /\ poll.reply.state = "FILLED" /\ order[s].state # "FILLED"
        /\ fillQueue' = Append(fillQueue, f)
        /\ poll' = [poll EXCEPT !.cur = NoOrder, !.reply = Unknown]
        /\ UNCHANGED <<portfolio, pc, order, open, metrics, flush, exch, ack, published>>
    BY <1>3 DEF PollFilled, PollDone
  <2>2. /\ poll'.todo = poll.todo /\ poll'.cur = NoOrder /\ NoOrder \notin Signals
        /\ poll.todo \subseteq Signals
    BY <2>1, PipelineAssumption DEF IInv, TypeOK
  <2>3. exch[s] = poll.reply /\ pc[s] = "tracked" /\ s \in open
    BY <2>1 DEF IInv, PollInv, DeadStates, EndStates
  <2>4. /\ order[s].filled = ack[s].filled /\ poll.reply.filled = order[s].qty
        /\ f.qty = order[s].qty - order[s].filled
    BY <2>1, <2>3 DEF IInv, BooksInv, ExchangeInv
  <2>5. f \in [order : Signals, qty : Qty]
    <3>1. /\ order[s].qty \in 0..MaxQty /\ order[s].filled \in 0..MaxQty
          /\ ack[s].filled \in 0..MaxQty /\ ack[s].filled <= order[s].qty
      BY <2>3 DEF IInv, TypeOK, BooksInv, ExchangeInv, ExchOrder, Qty
    <3>2. f.qty \in 0..MaxQty
      BY <2>4, <3>1, PipelineAssumption
    <3> QED BY <3>2 DEF Qty
  <2>6. f.order = s
    OBVIOUS
  <2> HIDE DEF f
  <2>7. fillQueue \in Seq([order : Signals, qty : Qty])
    BY DEF IInv, TypeOK
  <2>8. /\ fillQueue' \in Seq([order : Signals, qty : Qty])
        /\ Len(fillQueue') = Len(fillQueue) + 1
        /\ fillQueue'[Len(fillQueue) + 1] = f
        /\ \A i \in 1..Len(fillQueue) : fillQueue'[i] = fillQueue[i]
    BY <2>1, <2>5, <2>7, AppendProperties
  <2>9. TypeOK'
    BY <2>1, <2>8, UnknownType DEF IInv, TypeOK
  <2>10. QueueInv'
    <3>1. \A i \in 1..Len(fillQueue) :
             fillQueue[i].order # s /\ fillQueue[i].order \in Signals
      BY <2>1, QueuedAreFills DEF IInv, QueueInv
    <3>2. s \notin poll.todo
      BY <2>1 DEF IInv, PollInv
    <3>3. 1..Len(fillQueue') = 1..Len(fillQueue) \cup {Len(fillQueue) + 1}
      BY <2>7, <2>8
    <3>4. ASSUME NEW i \in 1..Len(fillQueue')
          PROVE  LET o == fillQueue'[i].order IN
                 /\ o \in open'
                 /\ exch'[o].state = "FILLED"
                 /\ order'[o].state # "FILLED"
                 /\ fillQueue'[i].qty = order'[o].qty - order'[o].filled
                 /\ o \notin poll'.todo /\ o # poll'.cur
      <4>1. CASE i \in 1..Len(fillQueue)
        BY <2>1, <2>2, <2>8, <3>1, <4>1 DEF IInv, QueueInv
      <4>2. CASE i = Len(fillQueue) + 1
        BY <2>1, <2>2, <2>3, <2>4, <2>6, <2>8, <3>2, <4>2
      <4> QED BY <3>3, <4>1, <4>2
    <3>5. ASSUME NEW i \in 1..Len(fillQueue'), NEW j \in 1..Len(fillQueue'),
                 fillQueue'[i].order = fillQueue'[j].order
          PROVE  i = j
      BY <2>6, <2>8, <3>1, <3>3, <3>5 DEF IInv, QueueInv
    <3> QED BY <3>4, <3>5 DEF QueueInv
  <2>11. PollInv'
    BY <2>1, <2>2 DEF IInv, PollInv
  <2> QED BY <2>1, <2>9, <2>10, <2>11 DEF IInv, ExchangeInv, BooksInv, FlushInv
<1>4. CASE PollDropped(s)
  <2>1. /\ poll.cur = s /\ poll.reply.state \in {"CANCELLED", "REJECTED"}
        /\ open' = open \ {s}
        /\ poll' = [poll EXCEPT !.cur = NoOrder, !.reply = Unknown]
        /\ UNCHANGED <<portfolio, pc, order, fillQueue, flush, exch, ack, published>>
    BY <1>4 DEF PollDropped, PollDone
  <2>2. /\ poll'.todo = poll.todo /\ poll'.cur = NoOrder /\ NoOrder \notin Signals
        /\ poll.todo \subseteq Signals
    BY <2>1, PipelineAssumption DEF IInv, TypeOK
  <2>3. exch[s] = poll.reply /\ pc[s] = "tracked"
    BY <2>1 DEF IInv, PollInv, DeadStates, EndStates
  <2>4. TypeOK'
    <3>1. metrics' \in [Counters -> Nat]
      BY <1>4, CountType DEF PollDropped, IInv, TypeOK
    <3> QED BY <2>1, <3>1, UnknownType DEF IInv, TypeOK
  <2>5. \A t \in Signals : ExchangeInv(t)' /\ BooksInv(t)'
    BY <2>1, <2>3 DEF IInv, ExchangeInv, BooksInv, DeadStates, EndStates
  <2>6. QueueInv'
    <3>1. \A i \in 1..Len(fillQueue) :
             fillQueue[i].order # s /\ fillQueue[i].order \in Signals
      BY <2>1, QueuedAreFills DEF IInv, QueueInv
    <3> QED BY <2>1, <2>2, <3>1 DEF IInv, QueueInv
  <2>7. PollInv'
    BY <2>1, <2>2, <2>3 DEF IInv, PollInv
  <2> QED BY <2>1, <2>4, <2>5, <2>6, <2>7 DEF IInv, FlushInv
<1> QED
  BY <1>1, <1>2, <1>3, <1>4 DEF PollStep, PollIgnored, PollError

(* A round starts only with an empty fill queue.                           *)
LEMMA PollRoundIInv == ASSUME IInv, PollRound PROVE IInv'
<1>1. /\ poll' = [poll EXCEPT !.todo = open]
      /\ poll.cur = NoOrder /\ fillQueue = <<>>
      /\ UNCHANGED <<portfolio, pc, order, open, metrics, fillQueue, flush, exch, ack, published>>
  BY DEF PollRound
<1>2. poll'.todo = open /\ poll'.cur = NoOrder /\ NoOrder \notin Signals /\ open \subseteq Signals
  BY <1>1, PipelineAssumption DEF IInv, TypeOK
<1>3. TypeOK'
  BY <1>1, <1>2 DEF IInv, TypeOK
<1>4. QueueInv'
  BY <1>1 DEF QueueInv
<1>5. PollInv'
  BY <1>1, <1>2 DEF IInv, PollInv, BooksInv
<1> QED BY <1>1, <1>3, <1>4, <1>5 DEF IInv, ExchangeInv, BooksInv, FlushInv

-----------------------------------------------------------------------------
(* The fill processor                                                      *)

(* The head of the queue is the rest of a filled order: processing it      *)
(* completes the order, takes it off the books and publishes that rest.    *)
LEMMA ProcessFillEffect ==
    ASSUME IInv, ProcessFill
    PROVE  \E s \in Signals :
              /\ s = fillQueue[1].order
              /\ s \in open /\ pc[s] = "tracked" /\ exch[s].state = "FILLED"
              /\ order[s].state # "FILLED" /\ published[s] = 0
              /\ order' = [order EXCEPT ![s].filled = order[s].qty, ![s].state = "FILLED"]
              /\ open' = open \ {s}
              /\ published' = [published EXCEPT ![s] = order[s].qty - ack[s].filled]
<1> DEFINE s == fillQueue[1].order
<1>0. fillQueue # <<>> /\ fillQueue \in Seq([order : Signals, qty : Qty])
  BY DEF ProcessFill, IInv, TypeOK
<1>1. Len(fillQueue) \in Nat /\ Len(fillQueue) >= 1 /\ Head(fillQueue) = fillQueue[1]
  BY <1>0
<1>2. 1 \in 1..Len(fillQueue)
  BY <1>1
<1>3. s \in Signals
  BY <1>2, QueuedAreFills DEF IInv
<1>4. /\ s \in open /\ exch[s].state = "FILLED" /\ order[s].state # "FILLED"
      /\ fillQueue[1].qty = order[s].qty - order[s].filled
  BY <1>2 DEF IInv, QueueInv
<1>5. pc[s] = "tracked" /\ published[s] = 0 /\ order[s].filled = ack[s].filled
  BY <1>3, <1>4 DEF IInv, BooksInv
<1>6. order[s].qty \in Nat /\ order[s].filled \in Nat
  BY <1>3, PipelineAssumption DEF IInv, TypeOK, Qty
<1>7. order[s].filled + fillQueue[1].qty = order[s].qty /\ order[s].qty >= order[s].qty
  BY <1>4, <1>6
<1>8. /\ order' = [order EXCEPT ![s].filled = order[s].qty, ![s].state = "FILLED"]
      /\ open' = open \ {s}
      /\ published' = [published EXCEPT ![s] = @ + fillQueue[1].qty]
  BY <1>1, <1>4, <1>7 DEF ProcessFill
<1>9. published[s] + fillQueue[1].qty = order[s].qty - ack[s].filled
  BY <1>4, <1>5, <1>6
<1>10. published' = [published EXCEPT ![s] = order[s].qty - ack[s].filled]
  BY <1>3, <1>8, <1>9 DEF IInv, TypeOK
<1> QED BY <1>3, <1>4, <1>5, <1>8, <1>10

(* Processing a fill keeps the inductive invariant.                        *)
LEMMA ProcessFillIInv == ASSUME IInv, ProcessFill PROVE IInv'
<1>1. PICK s \in Signals :
        /\ s = fillQueue[1].order
        /\ s \in open /\ pc[s] = "tracked" /\ exch[s].state = "FILLED"
        /\ order[s].state # "FILLED" /\ published[s] = 0
        /\ order' = [order EXCEPT ![s].filled = order[s].qty, ![s].state = "FILLED"]
        /\ open' = open \ {s}
        /\ published' = [published EXCEPT ![s] = order[s].qty - ack[s].filled]
  BY ProcessFillEffect
<1>2. /\ fillQueue # <<>> /\ fillQueue' = Tail(fillQueue)
      /\ Count({"fills_tracked", "orders_filled"})
      /\ UNCHANGED <<portfolio, pc, poll, flush, exch, ack>>
  BY DEF ProcessFill
<1>3. /\ order[s] \in LocalOrder /\ order[s].qty \in 0..MaxQty
      /\ ack[s].filled \in 0..MaxQty /\ ack[s].filled <= order[s].qty
  BY <1>1 DEF IInv, TypeOK, LocalOrder, ExchangeInv, ExchOrder, Qty
<1>4. order[s].qty - ack[s].filled \in Nat
  BY <1>3, PipelineAssumption
<1>5. fillQueue \in Seq([order : Signals, qty : Qty])
  BY DEF IInv, TypeOK
<1>6. /\ fillQueue' \in Seq([order : Signals, qty : Qty])
      /\ Len(fillQueue') = Len(fillQueue) - 1 /\ Len(fillQueue) \in Nat
      /\ \A i \in 1..Len(fillQueue') : i + 1 \in 1..Len(fillQueue) /\ fillQueue'[i] = fillQueue[i + 1]
  BY <1>2, <1>5, HeadTailProperties
<1>7. order'[s].state = "FILLED" /\ order'[s].qty = order[s].qty /\ order'[s] \in LocalOrder
  BY <1>1, <1>3 DEF IInv, TypeOK, LocalOrder, OrderStates
<1>8. \A t \in Signals : t # s => order'[t] = order[t] /\ published'[t] = published[t]
  BY <1>1 DEF IInv, TypeOK
<1>9. published'[s] = order[s].qty - ack[s].filled
  BY <1>1 DEF IInv, TypeOK
<1>10. TypeOK'
  <2>1. metrics' \in [Counters -> Nat]
    BY <1>2, CountType DEF IInv, TypeOK
  <2>2. order' \in [Signals -> LocalOrder]
    BY <1>1, <1>7, <1>8 DEF IInv, TypeOK, LocalOrder
  <2>3. published' \in [Signals -> Nat]
    BY <1>1, <1>4 DEF IInv, TypeOK
  <2> QED BY <1>1, <1>2, <1>6, <2>1, <2>2, <2>3 DEF IInv, TypeOK, LocalOrder
<1>11. \A t \in Signals : ExchangeInv(t)' /\ BooksInv(t)'
  <2>0. /\ pc[s] = "tracked" /\ exch[s].state = "FILLED" /\ s \notin open'
        /\ \A t \in Signals : t # s => (t \in open' <=> t \in open)
        /\ UNCHANGED <<pc, exch, ack>>
    BY <1>1, <1>2
  <2>1. ExchangeInv(s)'
    BY <1>7, <2>0 DEF IInv, ExchangeInv
  <2>2. BooksInv(s)'
    <3>1. published'[s] + ack[s].filled = order[s].qty
      BY <1>3, <1>9, PipelineAssumption
    <3> QED BY <1>7, <2>0, <3>1 DEF BooksInv, DeadStates, EndStates
  <2>3. ASSUME NEW t \in Signals, t # s PROVE ExchangeInv(t)' /\ BooksInv(t)'
    <3>1. ExchangeInv(t) /\ BooksInv(t)
      BY DEF IInv
    <3> QED BY <1>8, <2>0, <2>3, <3>1 DEF ExchangeInv, BooksInv
  <2> QED BY <2>1, <2>2, <2>3
<1>12. QueueInv'
  <2>1. \A i \in 1..Len(fillQueue') : fillQueue[i + 1].order \in Signals /\ fillQueue[i + 1].order # s
    <3> SUFFICES ASSUME NEW i \in 1..Len(fillQueue')
                 PROVE  fillQueue[i + 1].order \in Signals /\ fillQueue[i + 1].order # s
      OBVIOUS
    <3>1. i + 1 \in 1..Len(fillQueue) /\ 1 \in 1..Len(fillQueue) /\ i + 1 # 1
      BY <1>6
    <3> QED BY <1>1, <3>1, QueuedAreFills DEF IInv, QueueInv
  <2>2. ASSUME NEW i \in 1..Len(fillQueue')
        PROVE  LET o == fillQueue'[i].order IN
               /\ o \in open'
               /\ exch'[o].state = "FILLED"
               /\ order'[o].state # "FILLED"
               /\ fillQueue'[i].qty = order'[o].qty - order'[o].filled
               /\ o \notin poll'.todo /\ o # poll'.cur
    <3> DEFINE o == fillQueue[i + 1].order
    <3>1. i + 1 \in 1..Len(fillQueue) /\ fillQueue'[i] = fillQueue[i + 1]
      BY <1>6
    <3>2. o \in Signals /\ o # s
      BY <2>1
    <3>3. /\ o \in open /\ exch[o].state = "FILLED" /\ order[o].state # "FILLED"
          /\ fillQueue[i + 1].qty = order[o].qty - order[o].filled
          /\ o \notin poll.todo /\ o # poll.cur
      BY <3>1 DEF IInv, QueueInv
    <3>4. order'[o] = order[o] /\ o \in open'
      BY <1>1, <1>8, <3>2, <3>3
    <3> QED BY <1>2, <3>1, <3>3, <3>4
  <2>3. ASSUME NEW i \in 1..Len(fillQueue'), NEW j \in 1..Len(fillQueue'),
               fillQueue'[i].order = fillQueue'[j].order
        PROVE  i = j
    <3>1. /\ i + 1 \in 1..Len(fillQueue) /\ j + 1 \in 1..Len(fillQueue)
          /\ fillQueue[i + 1].order = fillQueue[j + 1].order
      BY <1>6, <2>3
    <3>2. i + 1 = j + 1
      BY <3>1 DEF IInv, QueueInv
    <3> QED BY <1>6, <3>2
  <2> QED BY <2>2, <2>3 DEF QueueInv
<1>13. PollInv'
  BY <1>1, <1>2, <1>7, <1>8 DEF IInv, PollInv
<1>14. FlushInv'
  BY <1>2 DEF IInv, FlushInv
<1> QED BY <1>10, <1>11, <1>12, <1>13, <1>14 DEF IInv

-----------------------------------------------------------------------------
(* flush                                                                   *)

(* Every step of flush for one order keeps the inductive invariant.        *)
LEMMA FlushIInv ==
    ASSUME IInv, FlushStart \/ FlushDrain \/ \E s \in Signals : FlushStep(s)
    PROVE  IInv'
<1>1. CASE FlushStart
  <2>1. TypeOK'
    BY <1>1, PipelineAssumption DEF FlushStart, IInv, TypeOK
  <2> QED
    BY <1>1, <2>1, PipelineAssumption
       DEF FlushStart, IInv, ExchangeInv, BooksInv, QueueInv, PollInv, FlushInv
<1>2. CASE FlushDrain
  <2>1. TypeOK'
    BY <1>2, EmptySeq DEF FlushDrain, IInv, TypeOK
  <2>2. QueueInv'
    BY <1>2 DEF FlushDrain, QueueInv
  <2>3. FlushInv'
    BY <1>2 DEF FlushDrain, IInv, TypeOK, FlushInv
  <2> QED
    BY <1>2, <2>1, <2>2, <2>3 DEF FlushDrain, IInv, ExchangeInv, BooksInv, PollInv
<1>3. ASSUME NEW s \in Signals, FlushCancel(s) \/ FlushError(s) PROVE IInv'
  <2>1. TypeOK'
    <3>1. CASE FlushCancel(s)
      BY <3>1 DEF FlushCancel, IInv, TypeOK
    <3>2. CASE FlushError(s)
      BY <3>2 DEF FlushError, IInv, TypeOK
    <3> QED BY <1>3, <3>1, <3>2
  <2>2. FlushInv'
    BY <1>3, PipelineAssumption DEF FlushCancel, FlushError, IInv, TypeOK, FlushInv
  <2> QED
    BY <1>3, <2>1, <2>2
       DEF FlushCancel, FlushError, IInv, ExchangeInv, BooksInv, QueueInv, PollInv
<1>4. ASSUME NEW s \in Signals, FlushReply(s) PROVE IInv'
  <2>1. /\ open' = open \ {s} /\ exch[s].state = "CANCELLED"
        /\ flush' = [flush EXCEPT !.cur = NoOrder, !.reply = "none"]
        /\ UNCHANGED <<portfolio, pc, order, fillQueue, poll, exch, ack, published>>
    BY <1>4 DEF FlushReply, IInv, FlushInv
  <2>2. TypeOK'
    <3>1. metrics' \in [Counters -> Nat]
      BY <1>4, CountType DEF FlushReply, IInv, TypeOK
    <3> QED BY <2>1, <3>1 DEF IInv, TypeOK
  <2>3. \A t \in Signals : ExchangeInv(t)' /\ BooksInv(t)'
    BY <2>1 DEF IInv, ExchangeInv, BooksInv, DeadStates, EndStates
  <2>4. QueueInv'
    BY <2>1 DEF IInv, QueueInv
  <2>5. PollInv'
    BY <2>1 DEF IInv, PollInv
  <2>6. FlushInv'
    BY <2>1, PipelineAssumption DEF IInv, TypeOK, FlushInv
  <2> QED BY <2>2, <2>3, <2>4, <2>5, <2>6 DEF IInv
<1> QED BY <1>1, <1>2, <1>3, <1>4 DEF FlushStep

-----------------------------------------------------------------------------
(* The exchange                                                            *)

(* A live order changes at the exchange, and possibly the cancel in flight *)
(* for it gets its answer.                                                 *)
LEMMA LiveOrderChanges ==
    ASSUME IInv, NEW s \in Signals, exch[s].state \in LiveStates,
           NEW x \in ExchOrder, exch' = [exch EXCEPT ![s] = x],
           x.state # "none", exch[s].filled <= x.filled, x.filled <= order[s].qty,
           x.state = "FILLED" => x.filled = order[s].qty,
           UNCHANGED <<portfolio, pc, order, open, metrics, fillQueue, poll, ack, published>>,
           flush' \in [todo : SUBSET Signals, cur : Signals \cup {NoOrder},
                       reply : {"none", "ok", "error"}, active : BOOLEAN, left : 0..MaxFlushes],
           \/ flush' = flush
           \/ flush'.cur = s /\ x.state = "CANCELLED"
    PROVE  IInv'
<1>1. exch'[s] = x /\ \A t \in Signals : t # s => exch'[t] = exch[t]
  BY DEF IInv, TypeOK
<1>2. exch[s].state \notin DeadStates /\ exch[s].state # "none"
  BY DEF LiveStates, DeadStates, EndStates
<1>3. TypeOK'
  BY DEF IInv, TypeOK
<1>4. \A t \in Signals : ExchangeInv(t)' /\ BooksInv(t)'
  <2>1. ExchangeInv(s) /\ BooksInv(s)
    BY DEF IInv
  <2>2. ack[s].filled \in Nat /\ exch[s].filled \in Nat /\ x.filled \in Nat /\ order[s].qty \in Nat
    <3>1. ack[s] \in ExchOrder /\ exch[s] \in ExchOrder /\ order[s].qty \in Qty
      BY DEF IInv, TypeOK
    <3> QED BY <3>1, PipelineAssumption DEF ExchOrder, Qty
  <2>3. ack[s].state # "FILLED" /\ ack[s].filled <= x.filled
    BY <1>2, <2>1, <2>2 DEF ExchangeInv, DeadStates, EndStates
  <2>4. ExchangeInv(s)'
    BY <1>1, <1>2, <2>1, <2>3 DEF ExchangeInv
  <2>5. BooksInv(s)'
    BY <1>1, <1>2, <2>1 DEF BooksInv, DeadStates, EndStates
  <2>6. ASSUME NEW t \in Signals, t # s PROVE ExchangeInv(t)' /\ BooksInv(t)'
    BY <1>1, <2>6 DEF IInv, ExchangeInv, BooksInv
  <2> QED BY <2>4, <2>5, <2>6
<1>5. QueueInv'
  <2>1. \A i \in 1..Len(fillQueue) : fillQueue[i].order \in Signals /\ fillQueue[i].order # s
    BY <1>2, QueuedAreFills DEF IInv, QueueInv, DeadStates, EndStates
  <2> QED BY <1>1, <2>1 DEF IInv, QueueInv
<1>6. PollInv'
  <2>1. exch[s].state \notin {"CANCELLED", "REJECTED"}
    BY <1>2 DEF DeadStates, EndStates
  <2>2. BooksInv(s)
    BY DEF IInv
  <2>3. ASSUME NEW t \in Signals, t \in poll.todo \/ t = poll.cur
        PROVE  /\ pc'[t] = "tracked"
               /\ \/ t \in open'
                  \/ order'[t].state = "FILLED"
                  \/ exch'[t].state \in {"CANCELLED", "REJECTED"}
    BY <1>1, <2>1, <2>3 DEF IInv, PollInv
  <2>4. ASSUME NEW t \in Signals, t = poll.cur
        PROVE  poll'.reply.state # "none" /\ (poll'.reply.state \in EndStates => poll'.reply = exch'[t])
    BY <1>1, <1>2, <2>4 DEF IInv, PollInv, DeadStates
  <2> QED BY <2>3, <2>4 DEF IInv, PollInv
<1>7. FlushInv'
  BY <1>1, <1>2 DEF IInv, FlushInv, DeadStates, EndStates
<1> QED BY <1>3, <1>4, <1>5, <1>6, <1>7 DEF IInv

(* Every step of the exchange for one order keeps the inductive invariant. *)
LEMMA ExchIInv ==
    ASSUME IInv, NEW s \in Signals, ExchStep(s)
    PROVE  IInv'
<1>0. /\ order[s].qty \in 0..MaxQty /\ MaxQty \in Nat
      /\ exch[s] \in ExchOrder /\ exch[s].filled \in 0..MaxQty
  BY PipelineAssumption DEF IInv, TypeOK, ExchOrder, Qty
<1>1. CASE ExchAccept(s)
  <2>1. PICK x : /\ \/ x = [state |-> "SUBMITTED", filled |-> 0]
                    \/ x = [state |-> "REJECTED", filled |-> 0]
                    \/ x = [state |-> "FILLED", filled |-> order[s].qty]
                    \/ \E n \in 1..(order[s].qty - 1) : x = [state |-> "PARTIAL", filled |-> n]
                 /\ exch' = [exch EXCEPT ![s] = x]
                 /\ ack' = [ack EXCEPT ![s] = x]
    BY <1>1 DEF ExchAccept
  <2>2. /\ pc[s] = "routing" /\ exch[s].state = "none"
        /\ UNCHANGED <<portfolio, pc, order, open, metrics, fillQueue, poll, flush, published>>
    BY <1>1 DEF ExchAccept
  <2>3. order[s].qty >= 1
    BY <2>2 DEF IInv, BooksInv
  <2>4. /\ x \in ExchOrder
        /\ x.state \in {"SUBMITTED", "PARTIAL", "FILLED", "REJECTED"}
        /\ x.filled <= order[s].qty
        /\ x.state = "FILLED" => x.filled = order[s].qty
        /\ x.state # "FILLED" => x.filled < order[s].qty
    BY <1>0, <2>1, <2>3 DEF ExchOrder, LiveStates, DeadStates, EndStates, Qty
  <2>5. /\ exch'[s] = x /\ ack'[s] = x
        /\ \A t \in Signals : t # s => exch'[t] = exch[t] /\ ack'[t] = ack[t]
    BY <2>1 DEF IInv, TypeOK
  <2>6. TypeOK'
    BY <2>1, <2>2, <2>4 DEF IInv, TypeOK
  <2>7. \A t \in Signals : ExchangeInv(t)' /\ BooksInv(t)'
    <3>1. ExchangeInv(s)' /\ BooksInv(s)'
      BY <1>0, <2>2, <2>3, <2>4, <2>5 DEF IInv, ExchangeInv, BooksInv, ExchOrder, Qty
    <3>2. ASSUME NEW t \in Signals, t # s PROVE ExchangeInv(t)' /\ BooksInv(t)'
      BY <2>2, <2>5, <3>2 DEF IInv, ExchangeInv, BooksInv
    <3> QED BY <3>1, <3>2
  <2>8. QueueInv'
    <3>1. \A i \in 1..Len(fillQueue) : fillQueue[i].order \in Signals /\ fillQueue[i].order # s
      BY <2>2, QueuedAreFills DEF IInv, QueueInv
    <3> QED BY <2>2, <2>5, <3>1 DEF IInv, QueueInv
  <2>9. PollInv'
    BY <2>2, <2>5 DEF IInv, PollInv
  <2>10. FlushInv'
    BY <2>2, <2>5 DEF IInv, FlushInv
  <2> QED BY <2>6, <2>7, <2>8, <2>9, <2>10 DEF IInv
<1>2. CASE ExchFill(s)
  <2>1. PICK n \in (exch[s].filled + 1)..order[s].qty :
          exch' = [exch EXCEPT ![s] =
                     [state |-> IF n = order[s].qty THEN "FILLED" ELSE "PARTIAL", filled |-> n]]
    BY <1>2 DEF ExchFill
  <2> DEFINE x == [state |-> IF n = order[s].qty THEN "FILLED" ELSE "PARTIAL", filled |-> n]
  <2>2. x \in ExchOrder /\ x.state # "none" /\ exch[s].filled <= x.filled /\ x.filled <= order[s].qty
        /\ (x.state = "FILLED" => x.filled = order[s].qty)
    BY <1>0, <2>1 DEF ExchOrder, Qty, LiveStates, DeadStates, EndStates
  <2>3. exch' = [exch EXCEPT ![s] = x]
    BY <2>1
  <2> HIDE DEF x
  <2>4. /\ exch[s].state \in LiveStates
        /\ UNCHANGED <<portfolio, pc, order, open, metrics, fillQueue, poll, flush, ack, published>>
    BY <1>2 DEF ExchFill
  <2> QED BY <2>2, <2>3, <2>4, LiveOrderChanges DEF IInv, TypeOK
<1>3. CASE ExchEnd(s)
  <2>1. PICK st \in {"CANCELLED", "EXPIRED", "REJECTED"} : exch' = [exch EXCEPT ![s].state = st]
    BY <1>3 DEF ExchEnd
  <2> DEFINE x == [exch[s] EXCEPT !.state = st]
  <2>2. /\ exch[s].state \in LiveStates
        /\ UNCHANGED <<portfolio, pc, order, open, metrics, fillQueue, poll, flush, ack, published>>
    BY <1>3 DEF ExchEnd
  <2>3. exch[s].filled <= order[s].qty
    BY <2>2 DEF IInv, ExchangeInv, LiveStates
  <2>4. x \in ExchOrder /\ x.state = st /\ x.filled = exch[s].filled
    BY <1>0 DEF ExchOrder, DeadStates, EndStates
  <2>5. exch' = [exch EXCEPT ![s] = x]
    BY <2>1
  <2>6. exch[s].filled <= x.filled /\ x.state # "none" /\ x.state # "FILLED"
    BY <1>0, <2>4
  <2>7. flush' = flush /\ flush \in [todo : SUBSET Signals, cur : Signals \cup {NoOrder},
                   reply : {"none", "ok", "error"}, active : BOOLEAN, left : 0..MaxFlushes]
    BY <2>2 DEF IInv, TypeOK
  <2> HIDE DEF x
  <2> QED BY <2>2, <2>3, <2>4, <2>5, <2>6, <2>7, LiveOrderChanges
<1>4. CASE ExchCancel(s) /\ exch[s].state \in LiveStates
  <2> DEFINE x == [exch[s] EXCEPT !.state = "CANCELLED"]
  <2>1. /\ flush.cur = s /\ flush' = [flush EXCEPT !.reply = "ok"]
        /\ exch' = [exch EXCEPT ![s] = x]
        /\ UNCHANGED <<portfolio, pc, order, open, metrics, fillQueue, poll, ack, published>>
    BY <1>4 DEF ExchCancel
  <2>2. exch[s].filled <= order[s].qty
    BY <1>4 DEF IInv, ExchangeInv, LiveStates
  <2>3. x \in ExchOrder /\ x.state = "CANCELLED" /\ x.filled = exch[s].filled
    BY <1>0 DEF ExchOrder, DeadStates, EndStates
  <2> HIDE DEF x
  <2>4. /\ flush' \in [todo : SUBSET Signals, cur : Signals \cup {NoOrder},
                       reply : {"none", "ok", "error"}, active : BOOLEAN, left : 0..MaxFlushes]
        /\ flush'.cur = s
    BY <2>1 DEF IInv, TypeOK
  <2>5. exch[s].filled <= x.filled
    BY <1>0, <2>3
  <2> QED BY <1>4, <2>1, <2>2, <2>3, <2>4, <2>5, LiveOrderChanges
<1>5. CASE ExchCancel(s) /\ exch[s].state \notin LiveStates
  <2>1. /\ flush' = [flush EXCEPT !.reply = "error"]
        /\ UNCHANGED <<portfolio, pc, order, open, metrics, fillQueue, poll, exch, ack, published>>
    BY <1>5 DEF ExchCancel
  <2>2. TypeOK'
    BY <2>1 DEF IInv, TypeOK
  <2>3. FlushInv'
    BY <2>1 DEF IInv, TypeOK, FlushInv
  <2> QED BY <2>1, <2>2, <2>3 DEF IInv, ExchangeInv, BooksInv, QueueInv, PollInv
<1> QED BY <1>1, <1>2, <1>3, <1>4, <1>5 DEF ExchStep

-----------------------------------------------------------------------------
(* The theorems                                                            *)

(* Every step of the pipeline keeps the inductive invariant.               *)
LEMMA NextIInv == IInv /\ [Next]_vars => IInv'
<1> SUFFICES ASSUME IInv, [Next]_vars PROVE IInv'
  OBVIOUS
<1>1. CASE PortfolioKnown
  BY <1>1 DEF PortfolioKnown, IInv, TypeOK, ExchangeInv, BooksInv, QueueInv, PollInv, FlushInv
<1>2. ASSUME NEW s \in Signals, SubmitStep(s) \/ PollStep(s) \/ FlushStep(s) \/ ExchStep(s)
      PROVE  IInv'
  BY <1>2, SubmitIInv, PollIInv, FlushIInv, ExchIInv
<1>3. CASE PollRound \/ ProcessFill \/ FlushStart \/ FlushDrain
  BY <1>3, PollRoundIInv, ProcessFillIInv, FlushIInv
<1>4. CASE UNCHANGED vars
  BY <1>4 DEF vars, IInv, TypeOK, ExchangeInv, BooksInv, QueueInv, PollInv, FlushInv
<1> QED BY <1>1, <1>2, <1>3, <1>4 DEF Next

(* The inductive invariant holds in every reachable state, for any set of  *)
(* signals and any bounds.                                                  *)
THEOREM InvariantHolds == Spec => []IInv
BY InitIInv, NextIInv, PTL DEF Spec

(* Type correctness of the pipeline.                                       *)
THEOREM TypeCorrect == Spec => []TypeOK
<1>1. IInv => TypeOK
  BY DEF IInv
<1> QED BY <1>1, InvariantHolds, PTL

(* A fill is published at most once: ORDER_FILLED events never carry more  *)
(* of an order than the exchange filled after accepting it.                *)
THEOREM FillsOnce == Spec => []FillsPublishedOnce
<1>1. IInv => FillsPublishedOnce
  <2> SUFFICES ASSUME IInv, NEW s \in Signals
               PROVE  published[s] + ack[s].filled <= exch[s].filled
    BY DEF FillsPublishedOnce
  <2>1. /\ ack[s] \in ExchOrder /\ exch[s] \in ExchOrder /\ order[s].qty \in Qty
        /\ published[s] \in Nat
    BY DEF IInv, TypeOK
  <2>2. ack[s].filled \in Nat /\ exch[s].filled \in Nat /\ order[s].qty \in Nat
    BY <2>1, PipelineAssumption DEF ExchOrder, Qty
  <2>3. ExchangeInv(s) /\ BooksInv(s)
    BY DEF IInv
  <2>4. CASE published[s] = 0
    BY <2>2, <2>3, <2>4 DEF ExchangeInv
  <2>5. CASE published[s] # 0
    BY <2>1, <2>2, <2>3, <2>5 DEF ExchangeInv, BooksInv
  <2> QED BY <2>4, <2>5
<1> QED BY <1>1, InvariantHolds, PTL

(* An order that left the books can no longer fill at the exchange.        *)
THEOREM NoLiveOrderForgotten == Spec => []ForgottenOrdersAreDead
<1>1. IInv => ForgottenOrdersAreDead
  BY DEF IInv, BooksInv, ForgottenOrdersAreDead, CallsIn
<1> QED BY <1>1, InvariantHolds, PTL

(* A filled order leaves the books only once published in full.            *)
THEOREM FilledOrdersComplete == Spec => []FilledLeavesComplete
<1>1. IInv => FilledLeavesComplete
  BY DEF IInv, BooksInv, FilledLeavesComplete, CallsIn
<1> QED BY <1>1, InvariantHolds, PTL

-----------------------------------------------------------------------------
(* Refinement of FillDelivery                                              *)

\* the quantities executed, as FillDelivery sees them
Executed == [s \in Signals |-> exch[s].filled]

(* A step that leaves the exchange's quantities and the published ones     *)
(* alone stutters in FillDelivery.                                         *)
LEMMA StuttersInDelivery ==
    ASSUME \A s \in Signals : exch'[s].filled = exch[s].filled, published' = published
    PROVE  UNCHANGED <<Executed, published>>
BY DEF Executed

(* An execution at the exchange is an Execute step: nothing of the order   *)
(* has been published yet, and its quantity grows within the bound.        *)
LEMMA ExecutionMaps ==
    ASSUME IInv, NEW s \in Signals, published[s] = 0,
           NEW x \in ExchOrder, exch' = [exch EXCEPT ![s] = x],
           exch[s].filled <= x.filled, published' = published
    PROVE  Delivery!Execute(s) \/ UNCHANGED <<Executed, published>>
<1>1. /\ exch'[s] = x /\ \A t \in Signals : t # s => exch'[t] = exch[t]
      /\ exch[s].filled \in 0..MaxQty /\ x.filled \in 0..MaxQty
  BY DEF IInv, TypeOK, ExchOrder, Qty
<1>2. CASE x.filled = exch[s].filled
  BY <1>1, <1>2, StuttersInDelivery
<1>3. CASE x.filled # exch[s].filled
  <2>1. x.filled \in 1..MaxQty /\ x.filled > exch[s].filled
    BY <1>1, <1>3, PipelineAssumption
  <2>2. Executed' = [Executed EXCEPT ![s] = x.filled]
    <3>1. \A t \in Signals : exch'[t].filled = IF t = s THEN x.filled ELSE exch[t].filled
      BY <1>1
    <3>2. Executed' = [t \in Signals |-> IF t = s THEN x.filled ELSE exch[t].filled]
      BY <3>1 DEF Executed
    <3> QED BY <3>2 DEF Executed
  <2> QED BY <2>1, <2>2 DEF Delivery!Execute, Executed
<1> QED BY <1>2, <1>3

(* Every step of the exchange maps to an Execute step or a stutter.        *)
LEMMA ExchMaps ==
    ASSUME IInv, NEW s \in Signals, ExchStep(s)
    PROVE  Delivery!Execute(s) \/ UNCHANGED <<Executed, published>>
<1>0. /\ order[s].qty \in 0..MaxQty /\ MaxQty \in Nat
      /\ exch[s] \in ExchOrder /\ exch[s].filled \in 0..MaxQty
      /\ published' = published
  BY PipelineAssumption
  DEF IInv, TypeOK, ExchOrder, Qty, ExchStep, ExchAccept, ExchFill, ExchEnd, ExchCancel
<1>1. ExchangeInv(s) /\ BooksInv(s)
  BY DEF IInv
<1>2. ASSUME exch[s].state \in LiveStates PROVE published[s] = 0
  BY <1>1, <1>2 DEF BooksInv, LiveStates
<1>3. CASE ExchAccept(s)
  <2>1. PICK x : /\ \/ x = [state |-> "SUBMITTED", filled |-> 0]
                    \/ x = [state |-> "REJECTED", filled |-> 0]
                    \/ x = [state |-> "FILLED", filled |-> order[s].qty]
                    \/ \E n \in 1..(order[s].qty - 1) : x = [state |-> "PARTIAL", filled |-> n]
                 /\ exch' = [exch EXCEPT ![s] = x]
    BY <1>3 DEF ExchAccept
  <2>2. published[s] = 0 /\ exch[s].filled = 0
    BY <1>1, <1>3 DEF ExchAccept, ExchangeInv, BooksInv
  <2>3. x \in ExchOrder /\ 0 <= x.filled
    BY <1>0, <2>1 DEF ExchOrder, LiveStates, DeadStates, EndStates, Qty
  <2> QED BY <1>0, <2>1, <2>2, <2>3, ExecutionMaps
<1>4. CASE ExchFill(s)
  <2>1. PICK n \in (exch[s].filled + 1)..order[s].qty :
          exch' = [exch EXCEPT ![s] =
                     [state |-> IF n = order[s].qty THEN "FILLED" ELSE "PARTIAL", filled |-> n]]
    BY <1>4 DEF ExchFill
  <2> DEFINE x == [state |-> IF n = order[s].qty THEN "FILLED" ELSE "PARTIAL", filled |-> n]
  <2>2. x \in ExchOrder /\ exch[s].filled <= x.filled
    BY <1>0, <2>1 DEF ExchOrder, Qty, LiveStates, DeadStates, EndStates
  <2>3. exch' = [exch EXCEPT ![s] = x]
    BY <2>1
  <2>4. published[s] = 0
    BY <1>2, <1>4 DEF ExchFill
  <2> HIDE DEF x
  <2> QED BY <1>0, <2>2, <2>3, <2>4, ExecutionMaps
<1>5. CASE ExchEnd(s) \/ ExchCancel(s)
  <2>1. \A t \in Signals : exch'[t].filled = exch[t].filled
    BY <1>5 DEF IInv, TypeOK, ExchOrder, ExchEnd, ExchCancel
  <2> QED BY <1>0, <2>1, StuttersInDelivery
<1> QED BY <1>3, <1>4, <1>5 DEF ExchStep

(* Processing a fill is a Deliver step.                                    *)
LEMMA ProcessFillMaps ==
    ASSUME IInv, ProcessFill
    PROVE  \/ \E s \in Signals : Delivery!Deliver(s)
           \/ UNCHANGED <<Executed, published>>
<1>1. PICK s \in Signals :
        /\ pc[s] = "tracked" /\ exch[s].state = "FILLED" /\ published[s] = 0
        /\ published' = [published EXCEPT ![s] = order[s].qty - ack[s].filled]
  BY ProcessFillEffect
<1>2. exch' = exch /\ Executed' = Executed
  BY DEF ProcessFill, Executed
<1>3. /\ exch[s].filled = order[s].qty /\ order[s].qty \in 0..MaxQty
      /\ ack[s].filled \in 0..MaxQty /\ ack[s].filled <= exch[s].filled
  BY <1>1 DEF IInv, TypeOK, ExchangeInv, ExchOrder, Qty
<1> DEFINE n == order[s].qty - ack[s].filled
<1>4. CASE n = 0
  <2>1. published' = published
    BY <1>1, <1>4 DEF IInv, TypeOK
  <2> QED BY <1>2, <2>1
<1>5. CASE n # 0
  <2>1. n \in 1..Executed[s]
    BY <1>3, <1>5, PipelineAssumption DEF Executed
  <2>2. Delivery!Deliver(s)
    BY <1>1, <1>2, <2>1 DEF Delivery!Deliver, Executed
  <2> QED BY <2>2
<1> QED BY <1>4, <1>5

(* The pipeline implements FillDelivery: what it publishes of an order     *)
(* comes in a single event, for no more than was executed, and after the   *)
(* last execution at the exchange.                                         *)
THEOREM ImplementsFillDelivery == Spec => DeliversFills
<1>1. Init => Delivery!FillInit
  BY DEF Init, Delivery!FillInit, Unknown
<1>2. IInv /\ [Next]_vars => [Delivery!FillNext]_<<Executed, published>>
  <2> SUFFICES ASSUME IInv, [Next]_vars
               PROVE  Delivery!FillNext \/ UNCHANGED <<Executed, published>>
    OBVIOUS
  <2>1. ASSUME NEW s \in Signals, ExchStep(s)
        PROVE  Delivery!FillNext \/ UNCHANGED <<Executed, published>>
    BY <2>1, ExchMaps DEF Delivery!FillNext
  <2>2. CASE ProcessFill
    BY <2>2, ProcessFillMaps DEF Delivery!FillNext
  <2>3. CASE PortfolioKnown \/ PollRound \/ FlushStart \/ FlushDrain \/ UNCHANGED vars
    BY <2>3, StuttersInDelivery DEF PortfolioKnown, PollRound, FlushStart, FlushDrain, vars
  <2>4. ASSUME NEW s \in Signals, SubmitStep(s)
        PROVE  Delivery!FillNext \/ UNCHANGED <<Executed, published>>
    <3>1. exch' = exch /\ published' = published
      BY <2>4 DEF SubmitStep, SubmitSignal, RiskApproves, RiskRefuses, RiskRaises,
                  SubmitReply, SubmitError
    <3> QED BY <3>1, StuttersInDelivery
  <2>5. ASSUME NEW s \in Signals, PollStep(s) \/ FlushStep(s)
        PROVE  Delivery!FillNext \/ UNCHANGED <<Executed, published>>
    <3>1. exch' = exch /\ published' = published
      BY <2>5 DEF PollStep, PollFetch, PollFilled, PollDropped, PollIgnored, PollError,
                  FlushStep, FlushCancel, FlushReply, FlushError
    <3> QED BY <3>1, StuttersInDelivery
  <2> QED BY <2>1, <2>2, <2>3, <2>4, <2>5 DEF Next
<1> QED
  BY <1>1, <1>2, InvariantHolds, PTL DEF Spec, DeliversFills, Delivery!FillSpec, Executed

-----------------------------------------------------------------------------
(* The ledger of signals                                                   *)

(* When a call moves from one state to another, the number of calls in     *)
(* each state follows.                                                     *)
LEMMA MoveCounts ==
    ASSUME TypeOK, NEW s \in Signals, NEW c \in CallStates, pc[s] # c,
           pc' = [pc EXCEPT ![s] = c], NEW a \in CallStates
    PROVE  /\ Cardinality(CallsIn(a)) \in Nat
           /\ Cardinality(CallsIn(a)') = Cardinality(CallsIn(a))
                  + (IF a = c THEN 1 ELSE 0) - (IF a = pc[s] THEN 1 ELSE 0)
<1>1. pc'[s] = c /\ \A t \in Signals : t # s => pc'[t] = pc[t]
  BY DEF TypeOK
<1>2. IsFiniteSet(CallsIn(a)) /\ Cardinality(CallsIn(a)) \in Nat
  BY PipelineAssumption, FS_Subset, FS_CardinalityType DEF CallsIn
<1>3. CASE a = c
  <2>1. CallsIn(a)' = CallsIn(a) \cup {s} /\ s \notin CallsIn(a)
    BY <1>1, <1>3 DEF CallsIn
  <2> QED BY <1>2, <1>3, <2>1, FS_AddElement
<1>4. CASE a = pc[s]
  <2>1. CallsIn(a)' = CallsIn(a) \ {s} /\ s \in CallsIn(a)
    BY <1>1, <1>4 DEF CallsIn
  <2>2. Cardinality(CallsIn(a)') = Cardinality(CallsIn(a)) - 1
    BY <1>2, <2>1, FS_RemoveElement
  <2>3. (IF a = c THEN 1 ELSE 0) = 0 /\ (IF a = pc[s] THEN 1 ELSE 0) = 1
    BY <1>4
  <2> QED BY <1>2, <2>2, <2>3
<1>5. CASE a # c /\ a # pc[s]
  <2>1. CallsIn(a)' = CallsIn(a)
    BY <1>1, <1>5 DEF CallsIn
  <2> QED BY <1>2, <1>5, <2>1
<1> QED BY <1>3, <1>4, <1>5

(* When a call leaves the idle state, the number of calls that arrived     *)
(* grows by one; it stays when a call moves on.                            *)
LEMMA ArrivalCounts ==
    ASSUME TypeOK, NEW s \in Signals, NEW c \in CallStates \ {"idle"},
           pc' = [pc EXCEPT ![s] = c]
    PROVE  /\ Cardinality(Signals \ CallsIn("idle")) \in Nat
           /\ Cardinality((Signals \ CallsIn("idle"))') =
                 Cardinality(Signals \ CallsIn("idle")) + (IF pc[s] = "idle" THEN 1 ELSE 0)
<1> DEFINE A == Signals \ CallsIn("idle")
<1>1. pc'[s] = c /\ \A t \in Signals : t # s => pc'[t] = pc[t]
  BY DEF TypeOK
<1>2. IsFiniteSet(A) /\ Cardinality(A) \in Nat
  BY PipelineAssumption, FS_Subset, FS_CardinalityType
<1>3. CASE pc[s] = "idle"
  <2>1. A' = A \cup {s} /\ s \notin A
    BY <1>1, <1>3 DEF CallsIn
  <2> QED BY <1>2, <1>3, <2>1, FS_AddElement
<1>4. CASE pc[s] # "idle"
  <2>1. A' = A
    BY <1>1, <1>4 DEF CallsIn
  <2> QED BY <1>2, <1>4, <2>1
<1> QED BY <1>3, <1>4

(* A call that has not ended moves and raises the counters of its move:    *)
(* the ledger stays balanced.                                              *)
LEMMA LedgerMoves ==
    ASSUME TypeOK, SignalLedger,
           NEW s \in Signals, pc[s] \in {"idle", "risk", "routing"},
           NEW c \in CallStates \ {"idle"}, pc[s] # c, pc' = [pc EXCEPT ![s] = c],
           NEW cs, Count(cs),
           "signals_received" \in cs <=> pc[s] = "idle",
           "orders_submitted" \in cs <=> c = "tracked",
           "risk_failed" \in cs <=> c = "refused",
           "pipeline_errors" \in cs <=> c = "failed"
    PROVE  SignalLedger'
<1>1. \A n \in Counters : metrics'[n] = metrics[n] + (IF n \in cs THEN 1 ELSE 0) /\ metrics[n] \in Nat
  BY DEF Count, TypeOK
<1>2. /\ metrics'["signals_received"] = metrics["signals_received"] + (IF pc[s] = "idle" THEN 1 ELSE 0)
      /\ metrics'["orders_submitted"] = metrics["orders_submitted"] + (IF c = "tracked" THEN 1 ELSE 0)
      /\ metrics'["risk_failed"] = metrics["risk_failed"] + (IF c = "refused" THEN 1 ELSE 0)
      /\ metrics'["pipeline_errors"] = metrics["pipeline_errors"] + (IF c = "failed" THEN 1 ELSE 0)
  BY <1>1 DEF Counters
<1>3. \A a \in {"tracked", "refused", "failed"} :
         Cardinality(CallsIn(a)') = Cardinality(CallsIn(a)) + (IF a = c THEN 1 ELSE 0)
  <2> TAKE a \in {"tracked", "refused", "failed"}
  <2>1. a # pc[s] /\ c \in CallStates /\ a \in CallStates
    BY DEF CallStates
  <2>2. /\ Cardinality(CallsIn(a)) \in Nat
        /\ Cardinality(CallsIn(a)') = Cardinality(CallsIn(a))
               + (IF a = c THEN 1 ELSE 0) - (IF a = pc[s] THEN 1 ELSE 0)
    BY <2>1, MoveCounts
  <2> QED BY <2>1, <2>2
<1>4. Cardinality((Signals \ CallsIn("idle"))') =
         Cardinality(Signals \ CallsIn("idle")) + (IF pc[s] = "idle" THEN 1 ELSE 0)
  BY ArrivalCounts
<1> QED BY <1>2, <1>3, <1>4 DEF SignalLedger

(* An approval moves the call on and keeps the ledger balanced.            *)
LEMMA ApprovalLedger ==
    ASSUME TypeOK, SignalLedger,
           NEW s \in Signals, pc[s] \in {"idle", "risk"},
           NEW q, NEW m, NEW passed, AfterApproval(s, q, m, passed),
           "signals_received" \in passed <=> pc[s] = "idle",
           passed \cap {"orders_submitted", "risk_failed", "pipeline_errors"} = {}
    PROVE  SignalLedger'
<1>1. CASE pc' = [pc EXCEPT ![s] = "routing"] /\ Count(passed \cup {"risk_passed"})
  <2> DEFINE cs == passed \cup {"risk_passed"}
  <2>1. /\ "signals_received" \in cs <=> pc[s] = "idle"
        /\ "orders_submitted" \notin cs /\ "risk_failed" \notin cs /\ "pipeline_errors" \notin cs
    OBVIOUS
  <2>2. Count(cs) /\ "routing" \in CallStates \ {"idle"} /\ pc[s] # "routing"
    BY <1>1 DEF CallStates
  <2> HIDE DEF cs
  <2> QED BY <1>1, <2>1, <2>2, LedgerMoves
<1>2. CASE pc' = [pc EXCEPT ![s] = "refused"] /\ Count(passed \cup {"risk_passed", "risk_failed"})
  <2> DEFINE cs == passed \cup {"risk_passed", "risk_failed"}
  <2>1. /\ "signals_received" \in cs <=> pc[s] = "idle"
        /\ "orders_submitted" \notin cs /\ "risk_failed" \in cs /\ "pipeline_errors" \notin cs
    OBVIOUS
  <2>2. Count(cs) /\ "refused" \in CallStates \ {"idle"} /\ pc[s] # "refused"
    BY <1>2 DEF CallStates
  <2> HIDE DEF cs
  <2> QED BY <1>2, <2>1, <2>2, LedgerMoves
<1> QED BY <1>1, <1>2 DEF AfterApproval

(* Every step of a call keeps the ledger balanced.                         *)
LEMMA SubmitLedger ==
    ASSUME TypeOK, SignalLedger, NEW s \in Signals, SubmitStep(s)
    PROVE  SignalLedger'
<1>1. CASE SubmitSignal(s)
  <2>1. PICK q \in 1..MaxQty :
          IF portfolio
          THEN /\ pc' = [pc EXCEPT ![s] = "risk"]
               /\ Count({"signals_received", "orders_created"})
          ELSE AfterApproval(s, q, 0, {"signals_received", "orders_created"})
    BY <1>1 DEF SubmitSignal
  <2>2. pc[s] = "idle"
    BY <1>1 DEF SubmitSignal
  <2>3. CASE portfolio
    BY <2>1, <2>2, <2>3, LedgerMoves DEF CallStates
  <2>4. CASE ~portfolio
    BY <2>1, <2>2, <2>4, ApprovalLedger
  <2> QED BY <2>3, <2>4
<1>2. CASE RiskApproves(s)
  BY <1>2, ApprovalLedger DEF RiskApproves
<1>3. CASE RiskRefuses(s)
  <2>1. pc[s] = "risk" /\ pc' = [pc EXCEPT ![s] = "refused"] /\ Count({"risk_failed"})
    BY <1>3 DEF RiskRefuses
  <2>2. "refused" \in CallStates \ {"idle"}
    BY DEF CallStates
  <2> QED BY <2>1, <2>2, LedgerMoves
<1>4. CASE RiskRaises(s)
  <2>1. pc[s] = "risk" /\ pc' = [pc EXCEPT ![s] = "failed"] /\ Count({"pipeline_errors"})
    BY <1>4 DEF RiskRaises
  <2>2. "failed" \in CallStates \ {"idle"}
    BY DEF CallStates
  <2> QED BY <2>1, <2>2, LedgerMoves
<1>5. CASE SubmitReply(s)
  <2>1. pc[s] = "routing" /\ pc' = [pc EXCEPT ![s] = "tracked"] /\ Count({"orders_submitted"})
    BY <1>5 DEF SubmitReply
  <2>2. "tracked" \in CallStates \ {"idle"}
    BY DEF CallStates
  <2> QED BY <2>1, <2>2, LedgerMoves
<1>6. CASE SubmitError(s)
  <2>1. pc[s] = "routing" /\ pc' = [pc EXCEPT ![s] = "failed"] /\ Count({"pipeline_errors"})
    BY <1>6 DEF SubmitError
  <2>2. "failed" \in CallStates \ {"idle"}
    BY DEF CallStates
  <2> QED BY <2>1, <2>2, LedgerMoves
<1> QED BY <1>1, <1>2, <1>3, <1>4, <1>5, <1>6 DEF SubmitStep

(* The other coroutines raise other counters, or none.                     *)
LEMMA LedgerUntouched ==
    ASSUME TypeOK, SignalLedger, pc' = pc,
           \/ metrics' = metrics
           \/ \E cs : /\ Count(cs)
                      /\ cs \cap {"signals_received", "orders_submitted", "risk_failed",
                                  "pipeline_errors"} = {}
    PROVE  SignalLedger'
<1>1. \A n \in {"signals_received", "orders_submitted", "risk_failed", "pipeline_errors"} :
         metrics'[n] = metrics[n]
  BY DEF Count, Counters, TypeOK
<1>2. \A a : CallsIn(a)' = CallsIn(a)
  BY DEF CallsIn
<1> QED BY <1>1, <1>2 DEF SignalLedger

(* Every signal is counted once on arrival and once on its way out, under  *)
(* the counter of the way its call ended.                                  *)
THEOREM LedgerBalances == Spec => []SignalLedger
<1>1. Init => SignalLedger
  <2> SUFFICES ASSUME Init PROVE SignalLedger
    OBVIOUS
  <2>1. /\ Signals \ CallsIn("idle") = {}
        /\ \A a \in {"tracked", "refused", "failed"} : CallsIn(a) = {}
    BY DEF Init, CallsIn
  <2> QED BY <2>1, FS_EmptySet DEF SignalLedger, Init, Counters
<1>2. IInv /\ SignalLedger /\ [Next]_vars => SignalLedger'
  <2> SUFFICES ASSUME TypeOK, SignalLedger, [Next]_vars PROVE SignalLedger'
    BY DEF IInv
  <2>1. ASSUME NEW s \in Signals, SubmitStep(s) PROVE SignalLedger'
    BY <2>1, SubmitLedger
  <2>2. ASSUME NEW s \in Signals, PollStep(s) PROVE SignalLedger'
    BY <2>2, LedgerUntouched
    DEF PollStep, PollFetch, PollFilled, PollDropped, PollIgnored, PollError
  <2>3. ASSUME NEW s \in Signals, FlushStep(s) PROVE SignalLedger'
    BY <2>3, LedgerUntouched DEF FlushStep, FlushCancel, FlushReply, FlushError
  <2>4. ASSUME NEW s \in Signals, ExchStep(s) PROVE SignalLedger'
    BY <2>4, LedgerUntouched DEF ExchStep, ExchAccept, ExchFill, ExchEnd, ExchCancel
  <2>5. CASE PortfolioKnown \/ PollRound \/ ProcessFill \/ FlushStart \/ FlushDrain
             \/ UNCHANGED vars
    BY <2>5, LedgerUntouched
    DEF PortfolioKnown, PollRound, ProcessFill, FlushStart, FlushDrain, vars
  <2> QED BY <2>1, <2>2, <2>3, <2>4, <2>5 DEF Next
<1> QED BY <1>1, <1>2, InvariantHolds, PTL DEF Spec

-----------------------------------------------------------------------------
(* PaperTrading                                                           *)

Fills == [qty : Nat, price : Int]

(* An order that may be submitted is an order.                             *)
LEMMA KindType ==
    ASSUME NEW k \in Kinds
    PROVE  /\ k.side \in Sides /\ k.type \in OrderTypes
           /\ k.qty \in Nat /\ k.qty >= 1 /\ k.px \in Nat /\ k.stop \in Nat
           /\ k.type \in Limits => k.px >= Fee
<1>1. k \in Kind
  BY PaperAssumption
<1> QED BY <1>1, PaperAssumption DEF Kind

(* The price of a sale covers the commission, and a limit order fills at   *)
(* its limit or better.                                                    *)
LEMMA FillPriceBounds ==
    ASSUME NEW k \in Kinds, price \in Prices, NEW p \in FillPrices(k)
    PROVE  /\ p \in Int
           /\ k.side = "SELL" => p >= Fee
           /\ k.type \in Limits => IF k.side = "BUY" THEN p <= k.px ELSE p >= k.px
<1>1. /\ price \in Nat /\ HalfSpread \in Nat /\ Impact \in Nat /\ Fee \in Nat
      /\ HalfSpread + Impact + Fee <= price
  BY PaperAssumption
<1>2. /\ k.side \in {"BUY", "SELL"} /\ k.px \in Nat /\ k.type \in OrderTypes
      /\ k.type \in Limits => k.px >= Fee
  BY KindType DEF Sides
<1>3. CASE k.type = "MARKET" /\ k.side = "BUY"
  <2>1. FillPrices(k) = {Ask + i : i \in 0..Impact}
    BY <1>3 DEF FillPrices, Limits
  <2> QED BY <1>1, <1>3, <2>1 DEF Ask, Limits
<1>4. CASE k.type = "MARKET" /\ k.side = "SELL"
  <2>1. FillPrices(k) = {Bid - i : i \in 0..Impact}
    BY <1>4 DEF FillPrices, Limits
  <2> QED BY <1>1, <1>4, <2>1 DEF Bid, Limits
<1>5. CASE k.type \in Limits /\ k.side = "BUY"
  <2>1. p = Low(k.px, Ask)
    BY <1>5 DEF FillPrices, Limits
  <2> QED BY <1>1, <1>2, <1>5, <2>1 DEF Ask, Low
<1>6. CASE k.type \in Limits /\ k.side = "SELL"
  <2>1. p = High(k.px, Bid)
    BY <1>6 DEF FillPrices, Limits
  <2> QED BY <1>1, <1>2, <1>6, <2>1 DEF Bid, High
<1>7. CASE k.type = "STOP_MARKET"
  <2>1. p = price
    BY <1>7 DEF FillPrices, Limits
  <2> QED BY <1>1, <1>7, <2>1 DEF Limits
<1> QED BY <1>2, <1>3, <1>4, <1>5, <1>6, <1>7 DEF OrderTypes, Limits

(* What is booked leaves the account in credit: a purchase was covered,    *)
(* and a sale brings in more than its commission.                          *)
LEMMA CashStaysInCredit ==
    ASSUME NEW k \in Kinds, cash \in Int, cash >= 0,
           NEW n \in Nat, NEW p \in Int, k.side = "SELL" => p >= Fee, Affords(k, n, p)
    PROVE  CashAfter(k, n, p) \in Int /\ CashAfter(k, n, p) >= 0
<1>1. Fee \in Nat /\ k.side \in {"BUY", "SELL"}
  BY KindType, PaperAssumption DEF Sides
<1>2. CASE k.side = "BUY"
  <2>1. n * (p + Fee) \in Int
    BY <1>1
  <2> QED BY <1>2, <2>1 DEF Affords, CashAfter
<1>3. CASE k.side = "SELL"
  <2>1. p - Fee \in Nat
    BY <1>1, <1>3
  <2>2. n * (p - Fee) \in Nat
    BY <2>1
  <2> QED BY <1>3, <2>2 DEF CashAfter
<1> QED BY <1>1, <1>2, <1>3

(* The position stays a side and a quantity.                               *)
LEMMA PositionType ==
    ASSUME NEW k \in Kinds, NEW n \in Nat, position \in [side : Sides, qty : Nat]
    PROVE  PositionAfter(k, n) \in [side : Sides, qty : Nat]
<1>1. k.side \in Sides
  BY KindType
<1> QED BY <1>1 DEF PositionAfter

-----------------------------------------------------------------------------
(* The position and the fill log                                           *)

Amounts == [o \in Orders |-> fill[o].qty]
Of(side) == {o \in Orders : kind[o].side = side}

(* What was filled on a side is a number; nothing filled is none.          *)
LEMMA FilledType ==
    ASSUME PaperTypeOK, NEW side
    PROVE  /\ IsFiniteSet(Of(side)) /\ Of(side) \subseteq Orders
           /\ \A x \in Orders : Amounts[x] = fill[x].qty /\ Amounts[x] \in Int
           /\ FilledOn(side) = SumFunctionOnSet(Amounts, Of(side))
           /\ FilledOn(side) \in Int
           /\ (\A x \in Orders : fill[x].qty = 0) => FilledOn(side) = 0
<1>1. IsFiniteSet(Of(side)) /\ Of(side) \subseteq Orders
  BY PaperAssumption, FS_Subset DEF Of
<1>2. \A x \in Orders : Amounts[x] = fill[x].qty /\ Amounts[x] \in Int
  BY DEF PaperTypeOK, Amounts
<1>3. FilledOn(side) = SumFunctionOnSet(Amounts, Of(side))
  BY DEF FilledOn, Amounts, Of
<1>4. FilledOn(side) \in Int
  BY <1>1, <1>2, <1>3, SumRemove
<1>5. ASSUME \A x \in Orders : fill[x].qty = 0 PROVE FilledOn(side) = 0
  <2>1. \A x \in Of(side) : Amounts[x] = 0
    BY <1>1, <1>2, <1>5
  <2> QED BY <1>1, <1>3, <2>1, SumZero
<1> QED BY <1>1, <1>2, <1>3, <1>4, <1>5

(* So it is in the next state.                                             *)
LEMMA FilledNone ==
    ASSUME PaperTypeOK', \A x \in Orders : fill'[x].qty = 0, NEW side
    PROVE  FilledOn(side)' = 0
<1> DEFINE B == Amounts'
           S == Of(side)'
<1>1. IsFiniteSet(S)
  BY PaperAssumption, FS_Subset DEF Of
<1>2. \A x \in S : B[x] = 0
  BY DEF Amounts, Of
<1>3. FilledOn(side)' = SumFunctionOnSet(B, S)
  BY DEF FilledOn, Amounts, Of
<1> HIDE DEF B, S
<1> QED BY <1>1, <1>2, <1>3, SumZero

(* A fill of an order that had none counts once, on its side.              *)
LEMMA FilledChange ==
    ASSUME PaperTypeOK, PaperTypeOK', kind' = kind, NEW o \in Orders, fill[o].qty = 0, NEW n \in Nat,
           fill'[o].qty = n, \A x \in Orders : x # o => fill'[x] = fill[x], NEW side
    PROVE  FilledOn(side)' = FilledOn(side) + (IF kind[o].side = side THEN n ELSE 0)
<1> DEFINE A == Amounts
           B == Amounts'
           S == Of(side)
<1>1. /\ IsFiniteSet(S) /\ S \subseteq Orders
      /\ \A x \in Orders : A[x] = fill[x].qty /\ A[x] \in Int
      /\ FilledOn(side) = SumFunctionOnSet(A, S) /\ FilledOn(side) \in Int
  BY FilledType
<1>2. \A x \in Orders : B[x] = fill'[x].qty /\ B[x] \in Int
  BY DEF PaperTypeOK, Amounts
<1>3. FilledOn(side)' = SumFunctionOnSet(B, S)
  BY DEF FilledOn, Amounts, Of
<1>4. o \in S <=> kind[o].side = side
  BY DEF Of
<1> HIDE DEF A, B, S
<1>5. /\ o \in S => SumFunctionOnSet(B, S) = SumFunctionOnSet(A, S) + B[o] - A[o]
      /\ o \notin S => SumFunctionOnSet(B, S) = SumFunctionOnSet(A, S)
  <2>1. \A x \in S : A[x] \in Int /\ B[x] \in Int
    BY <1>1, <1>2
  <2>2. \A x \in S : x # o => A[x] = B[x]
    BY <1>1, <1>2
  <2> QED BY <1>1, <2>1, <2>2, SumChange
<1>6. A[o] = 0 /\ B[o] = n
  BY <1>1, <1>2
<1> QED BY <1>1, <1>3, <1>4, <1>5, <1>6

(* A fill that the position covers leaves it the net of the fills.         *)
LEMMA NetOfFills ==
    ASSUME PaperIInv, PaperTypeOK', kind' = kind, NEW o \in Orders, fill[o].qty = 0,
           NEW n \in Nat, n >= 1, NEW p \in Int, Affords(kind[o], n, p),
           position' = PositionAfter(kind[o], n),
           fill'[o].qty = n, \A x \in Orders : x # o => fill'[x] = fill[x]
    PROVE  PositionIsNetOfFills' /\ position'.side = "BUY"
<1> DEFINE bought == FilledOn("BUY")
           sold == FilledOn("SELL")
<1>1. /\ kind[o].side \in {"BUY", "SELL"}
      /\ position.side = "BUY" /\ position.qty \in Nat /\ position.qty = bought - sold
      /\ position \in [side : Sides, qty : Nat]
  BY KindType DEF PaperIInv, PaperTypeOK, PositionIsNetOfFills, Sides
<1>2. bought \in Int /\ sold \in Int
  BY FilledType DEF PaperIInv
<1>3. /\ bought' = bought + (IF kind[o].side = "BUY" THEN n ELSE 0)
      /\ sold' = sold + (IF kind[o].side = "SELL" THEN n ELSE 0)
  BY FilledChange DEF PaperIInv
<1>4. fill = [x \in Orders |-> NoFill] => position.qty = 0
  <2> SUFFICES ASSUME fill = [x \in Orders |-> NoFill] PROVE position.qty = 0
    OBVIOUS
  <2>1. \A x \in Orders : fill[x].qty = 0
    BY DEF NoFill
  <2>2. bought = 0 /\ sold = 0
    BY <2>1, FilledType DEF PaperIInv
  <2> QED BY <1>1, <2>2
<1> HIDE DEF bought, sold
<1>5. CASE kind[o].side = "BUY"
  <2>1. position'.side = "BUY" /\ position'.qty = position.qty + n
    BY <1>1, <1>4, <1>5 DEF PositionAfter
  <2>2. position'.qty = bought' - sold'
    BY <1>1, <1>2, <1>3, <1>5, <2>1
  <2> QED BY <2>1, <2>2 DEF PositionIsNetOfFills, bought, sold
<1>6. CASE kind[o].side = "SELL"
  <2>1. position.qty >= n
    BY <1>6 DEF Affords
  <2>2. position'.side = "BUY" /\ position'.qty = position.qty - n
    BY <1>1, <1>4, <1>6, <2>1 DEF PositionAfter
  <2>3. position'.qty = bought' - sold'
    BY <1>1, <1>2, <1>3, <1>6, <2>2
  <2> QED BY <2>2, <2>3 DEF PositionIsNetOfFills, bought, sold
<1> QED BY <1>1, <1>5, <1>6

(* While no fill changes, nor the position, nothing changes.               *)
LEMMA NetKept ==
    ASSUME PositionIsNetOfFills, UNCHANGED <<fill, kind, position>>
    PROVE  PositionIsNetOfFills'
BY DEF PositionIsNetOfFills, FilledOn

-----------------------------------------------------------------------------
(* The steps                                                               *)

(* Executing a waiting order keeps the inductive invariant.                *)
LEMMA ExecuteIInv ==
    ASSUME PaperIInv, NEW o \in Orders, state[o] \in {"latency", "triggered"}, price # 0,
           ExecuteOrder(o), UNCHANGED <<price, kind, told, resets>>
    PROVE  PaperIInv'
<1> DEFINE k == kind[o]
<1>0. /\ k \in Kinds /\ price \in Prices
      /\ executions[o] = 0 /\ fill[o].qty = 0
      /\ executions \in [Orders -> Nat] /\ fill \in [Orders -> Fills]
      /\ state \in [Orders -> PaperStates] /\ kind \in [Orders -> Kinds]
  BY DEF PaperIInv, PaperTypeOK, WaitingInv, Fills
<1>1. PICK n \in 1..k.qty, p \in FillPrices(k) :
        IF Affords(k, n, p)
        THEN /\ state' = [state EXCEPT ![o] = IF n = k.qty THEN "FILLED" ELSE "PARTIAL"]
             /\ cash' = CashAfter(k, n, p)
             /\ position' = PositionAfter(k, n)
             /\ fill' = [fill EXCEPT ![o] = [qty |-> n, price |-> p]]
             /\ executions' = [executions EXCEPT ![o] = @ + 1]
             /\ late' = IF o \in told THEN late \cup {o} ELSE late
        ELSE /\ state' = [state EXCEPT ![o] = "REJECTED"]
             /\ UNCHANGED <<cash, position, fill, executions, late>>
  BY DEF ExecuteOrder
<1>2. CASE Affords(k, n, p)
  <2>1. n \in Nat /\ n >= 1 /\ n <= k.qty
    BY <1>0, KindType
  <2>2. /\ p \in Int
        /\ k.side = "SELL" => p >= Fee
        /\ k.type \in Limits => IF k.side = "BUY" THEN p <= k.px ELSE p >= k.px
    BY <1>0, FillPriceBounds
  <2> DEFINE st == IF n = k.qty THEN "FILLED" ELSE "PARTIAL"
             f == [qty |-> n, price |-> p]
  <2>3. /\ state' = [state EXCEPT ![o] = st]
        /\ cash' = CashAfter(k, n, p) /\ position' = PositionAfter(k, n)
        /\ fill' = [fill EXCEPT ![o] = f]
        /\ executions' = [executions EXCEPT ![o] = 1]
        /\ late' = IF o \in told THEN late \cup {o} ELSE late
    BY <1>0, <1>1, <1>2
  <2>4. st \in {"FILLED", "PARTIAL"} /\ f \in Fills /\ f.qty = n /\ f.price = p
    BY <2>1, <2>2 DEF Fills
  <2> HIDE DEF st, f
  <2>5. cash' \in Int /\ cash' >= 0
    BY <1>0, <1>2, <2>1, <2>2, <2>3, CashStaysInCredit DEF PaperIInv, PaperTypeOK, NeverOverdrawn
  <2>6. position' \in [side : Sides, qty : Nat]
    BY <1>0, <2>1, <2>3, PositionType DEF PaperIInv, PaperTypeOK
  <2>7. /\ state'[o] = st /\ fill'[o] = f /\ executions'[o] = 1
        /\ \A x \in Orders : x # o =>
              state'[x] = state[x] /\ fill'[x] = fill[x] /\ executions'[x] = executions[x]
    BY <1>0, <2>3
  <2>8. /\ state' \in [Orders -> PaperStates] /\ fill' \in [Orders -> Fills]
        /\ executions' \in [Orders -> Nat] /\ late' \subseteq Orders
    BY <1>0, <2>3, <2>4 DEF PaperStates, PaperIInv, PaperTypeOK
  <2>9. PaperTypeOK'
    BY <2>5, <2>6, <2>8 DEF PaperIInv, PaperTypeOK, Fills
  <2>10. LimitHonoured'
    BY <2>2, <2>4, <2>7 DEF PaperIInv, LimitHonoured
  <2>11. ExecutesOnce'
    BY <2>1, <2>4, <2>7 DEF PaperIInv, ExecutesOnce
  <2>12. \A x \in Orders : WaitingInv(x)'
    BY <2>4, <2>7 DEF PaperIInv, WaitingInv
  <2>13. PositionIsNetOfFills' /\ position'.side = "BUY"
    BY <1>0, <1>2, <2>1, <2>2, <2>3, <2>4, <2>7, <2>9, NetOfFills
  <2> QED BY <2>5, <2>9, <2>10, <2>11, <2>12, <2>13 DEF PaperIInv, NeverOverdrawn
<1>3. CASE ~Affords(k, n, p)
  <2>1. /\ state' = [state EXCEPT ![o] = "REJECTED"]
        /\ UNCHANGED <<cash, position, fill, executions, late>>
    BY <1>1, <1>3
  <2>2. PaperTypeOK'
    BY <2>1 DEF PaperIInv, PaperTypeOK, PaperStates
  <2>3. \A x \in Orders : WaitingInv(x)'
    BY <1>0, <2>1 DEF PaperIInv, WaitingInv
  <2> QED BY <2>1, <2>2, <2>3, NetKept DEF PaperIInv, NeverOverdrawn, LimitHonoured, ExecutesOnce
<1> QED BY <1>2, <1>3

(* An order that waits, without a trigger, ends or waits in another way.   *)
LEMMA WaitIInv ==
    ASSUME PaperIInv, NEW o \in Orders, state[o] \in {"new", "latency", "pending"},
           NEW st \in {"latency", "pending", "REJECTED", "CANCELLED"},
           state' = [state EXCEPT ![o] = st], told' \subseteq Orders,
           UNCHANGED <<price, kind, cash, position, fill, executions, late, resets>>
    PROVE  PaperIInv'
<1>1. state'[o] = st /\ \A x \in Orders : x # o => state'[x] = state[x]
  BY DEF PaperIInv, PaperTypeOK
<1>2. PaperTypeOK'
  BY DEF PaperIInv, PaperTypeOK, PaperStates
<1>3. \A x \in Orders : WaitingInv(x)'
  BY <1>1 DEF PaperIInv, WaitingInv
<1> QED BY <1>2, <1>3, NetKept DEF PaperIInv, NeverOverdrawn, LimitHonoured, ExecutesOnce

(* Cancelling keeps the invariant.                                         *)
LEMMA CancelIInv ==
    ASSUME PaperIInv, NEW o \in Orders, Cancel(o)
    PROVE  PaperIInv'
<1>1. told' \subseteq Orders
  BY DEF Cancel, PaperIInv, PaperTypeOK
<1>2. CASE state[o] = "pending"
  <2>1. state' = [state EXCEPT ![o] = "CANCELLED"]
    BY <1>2 DEF Cancel
  <2> QED BY <1>1, <1>2, <2>1, WaitIInv DEF Cancel
<1>3. CASE state[o] # "pending"
  <2>1. state' = state
    BY <1>3 DEF Cancel, PaperIInv, PaperTypeOK
  <2> QED BY <1>1, <2>1, NetKept
      DEF Cancel, PaperIInv, PaperTypeOK, NeverOverdrawn, LimitHonoured, ExecutesOnce, WaitingInv
<1> QED BY <1>2, <1>3

(* A new price triggers orders, and is a price.                            *)
LEMMA UpdatePriceIInv ==
    ASSUME PaperIInv, NEW p \in Prices, UpdatePrice(p)
    PROVE  PaperIInv'
<1>1. \A x \in Orders : \/ state'[x] = state[x]
                        \/ state[x] = "pending" /\ state'[x] = "triggered"
  BY DEF UpdatePrice
<1>2. price' # 0 /\ price' \in Prices
  BY PaperAssumption DEF UpdatePrice
<1>3. PaperTypeOK'
  BY <1>2 DEF UpdatePrice, PaperIInv, PaperTypeOK, PaperStates
<1>4. \A x \in Orders : WaitingInv(x)'
  BY <1>1, <1>2 DEF UpdatePrice, PaperIInv, WaitingInv
<1> QED BY <1>3, <1>4, NetKept DEF UpdatePrice, PaperIInv, NeverOverdrawn, LimitHonoured, ExecutesOnce

(* A reset starts a new account.                                           *)
LEMMA ResetIInv ==
    ASSUME PaperIInv, Reset
    PROVE  PaperIInv'
<1>1. \A x \in Orders : \/ state'[x] = state[x]
                        \/ state[x] = "pending" /\ state'[x] = "CANCELLED"
  BY DEF Reset
<1>2. \A x \in Orders : fill'[x] = NoFill /\ NoFill.qty = 0
  BY DEF Reset, NoFill
<1>3. PaperTypeOK'
  BY PaperAssumption DEF Reset, PaperIInv, PaperTypeOK, PaperStates, NoFill, Sides
<1>4. \A x \in Orders : WaitingInv(x)'
  BY <1>1, <1>2 DEF Reset, PaperIInv, WaitingInv
<1>5. LimitHonoured' /\ NeverOverdrawn'
  BY <1>2, PaperAssumption DEF Reset, LimitHonoured, NeverOverdrawn
<1>6. ExecutesOnce'
  <2>1. \A x \in Orders : kind[x].qty \in Nat
    BY KindType DEF PaperIInv, PaperTypeOK
  <2> QED BY <1>2, <2>1 DEF Reset, PaperIInv, ExecutesOnce
<1>7. PositionIsNetOfFills' /\ position'.side = "BUY"
  <2>1. position'.side = "BUY" /\ position'.qty = 0
    BY DEF Reset
  <2>2. FilledOn("BUY")' = 0 /\ FilledOn("SELL")' = 0
    BY <1>2, <1>3, FilledNone
  <2> QED BY <2>1, <2>2 DEF PositionIsNetOfFills
<1> QED BY <1>3, <1>4, <1>5, <1>6, <1>7 DEF PaperIInv

(* The invariant holds initially.                                          *)
LEMMA PaperInitIInv == PaperInit => PaperIInv
<1> SUFFICES ASSUME PaperInit PROVE PaperIInv
  OBVIOUS
<1>1. PaperTypeOK
  BY PaperAssumption DEF PaperInit, PaperTypeOK, PaperStates, NoFill, Sides
<1>2. \A o \in Orders : kind[o].qty \in Nat
  BY KindType DEF PaperInit
<1>3. LimitHonoured /\ ExecutesOnce
  BY <1>2 DEF PaperInit, LimitHonoured, ExecutesOnce, NoFill
<1>4. NeverOverdrawn /\ \A o \in Orders : WaitingInv(o)
  BY PaperAssumption DEF PaperInit, NeverOverdrawn, WaitingInv, NoFill
<1>5. PositionIsNetOfFills /\ position.side = "BUY"
  <2>1. position.side = "BUY" /\ position.qty = 0
    BY DEF PaperInit
  <2>2. \A x \in Orders : fill[x].qty = 0
    BY DEF PaperInit, NoFill
  <2>3. FilledOn("BUY") = 0 /\ FilledOn("SELL") = 0
    BY <1>1, <2>2, FilledType
  <2> QED BY <2>1, <2>3 DEF PositionIsNetOfFills
<1> QED BY <1>1, <1>3, <1>4, <1>5 DEF PaperIInv

(* Every step of the connector keeps the invariant.                        *)
LEMMA PaperNextIInv == PaperIInv /\ [PaperNext]_paperVars => PaperIInv'
<1> SUFFICES ASSUME PaperIInv, [PaperNext]_paperVars PROVE PaperIInv'
  OBVIOUS
<1>1. ASSUME NEW o \in Orders, Submit(o) \/ SubmitReject(o) \/ SubmitQueue(o) PROVE PaperIInv'
  <2>1. told' \subseteq Orders
    BY <1>1 DEF Submit, SubmitReject, SubmitQueue, PaperIInv, PaperTypeOK
  <2> QED BY <1>1, <2>1, WaitIInv DEF Submit, SubmitReject, SubmitQueue
<1>2. ASSUME NEW o \in Orders, SubmitExecute(o) PROVE PaperIInv'
  BY <1>2, ExecuteIInv DEF SubmitExecute
<1>3. ASSUME NEW o \in Orders, ExecuteTriggered(o) PROVE PaperIInv'
  <2>1. price # 0
    BY <1>3 DEF ExecuteTriggered, PaperIInv, WaitingInv
  <2> QED BY <1>3, <2>1, ExecuteIInv DEF ExecuteTriggered
<1>4. CASE UNCHANGED paperVars
  BY <1>4, NetKept DEF paperVars, PaperIInv, PaperTypeOK, NeverOverdrawn, LimitHonoured, ExecutesOnce, WaitingInv
<1> QED
  BY <1>1, <1>2, <1>3, <1>4, CancelIInv, UpdatePriceIInv, ResetIInv DEF PaperNext

(* The inductive invariant holds in every reachable state.                 *)
THEOREM PaperInvariant == PaperSpec => []PaperIInv
BY PaperInitIInv, PaperNextIInv, PTL DEF PaperSpec

(* Type correctness of the connector.                                      *)
THEOREM PaperTypeCorrect == PaperSpec => []PaperTypeOK
<1>1. PaperIInv => PaperTypeOK
  BY DEF PaperIInv
<1> QED BY <1>1, PaperInvariant, PTL

(* The paper account is never overdrawn, however orders wait, trigger and  *)
(* execute together.                                                       *)
THEOREM StaysInCredit == PaperSpec => []NeverOverdrawn
<1>1. PaperIInv => NeverOverdrawn
  BY DEF PaperIInv
<1> QED BY <1>1, PaperInvariant, PTL

(* A limit order never fills beyond its limit.                             *)
THEOREM LimitsHold == PaperSpec => []LimitHonoured
<1>1. PaperIInv => LimitHonoured
  BY DEF PaperIInv
<1> QED BY <1>1, PaperInvariant, PTL

(* An order executes at most once, for at most its quantity.               *)
THEOREM NoOrderExecutesTwice == PaperSpec => []ExecutesOnce
<1>1. PaperIInv => ExecutesOnce
  BY DEF PaperIInv
<1> QED BY <1>1, PaperInvariant, PTL

(* The position is long and is the net of the fills in the log: no set of  *)
(* sales that execute together sells what is not there.                    *)
THEOREM PositionFollowsFills == PaperSpec => []PositionIsNetOfFills
<1>1. PaperIInv => PositionIsNetOfFills
  BY DEF PaperIInv
<1> QED BY <1>1, PaperInvariant, PTL
=============================================================================
