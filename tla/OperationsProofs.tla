-------------------------- MODULE OperationsProofs --------------------------
(***************************************************************************)
(* Proofs about crash recovery (the executor, the reconciliation of orders *)
(* and the shutdown), the rate limiter and the stop of the engine.         *)
(***************************************************************************)
EXTENDS Recovery, TokenBucket, OrderRecovery, RecoveryShutdown, EngineShutdown,
        ExecutionPlans, Induction, SequenceTheorems

(* The idempotent executor                                                 *)

(* The rows of a key differ in their operation, which is the primary key.  *)
Keyed(q) == \A i, j \in 1..Len(q) : q[i].op = q[j].op => i = j

Recorded(k) == rows[k] # <<>> /\ Head(rows[k]).status = "COMPLETED"
Calling(k) == {t \in Threads : call[t].key = k}

(* Nothing says COMPLETED that did not take effect: no returned result, no *)
(* row, no record in the memory of a call.                                 *)
Truthful ==
    /\ \A k \in Keys :
          /\ k \in returned => effects[k] >= 1
          /\ \A i \in 1..Len(rows[k]) : rows[k][i].status = "COMPLETED" => effects[k] >= 1
    /\ \A t \in Threads :
          /\ call[t].pc = "done" => call[t].status = "COMPLETED"
          /\ call[t].status = "COMPLETED" => effects[call[t].key] >= 1

(* A key whose calls have not overlapped has at most one row and at most   *)
(* one call, which works on that row.                                      *)
Alone(k) ==
    /\ Len(rows[k]) <= 1
    /\ \A t, u \in Calling(k) : t = u
    /\ \A t \in Calling(k) : rows[k] # <<>> => Head(rows[k]).op = call[t].op

(* Such a key, once returned as COMPLETED, is recorded so and not called.  *)
Finished(k) == k \in returned => Recorded(k) /\ Calling(k) = {}

(* Its effects are excused but for one, and that one has been recorded or  *)
(* its call is about to record it.                                         *)
Counted(k) ==
    /\ effects[k] <= excused[k] + 1
    /\ \A t \in Calling(k) : call[t].pc # "done" => effects[k] <= excused[k]
    /\ Calling(k) = {} /\ ~Recorded(k) => effects[k] <= excused[k]

ExecIInv ==
    /\ TypeOK
    /\ \A k \in Keys : Keyed(rows[k])
    /\ Truthful
    /\ \A k \in Keys \ overlapped : Alone(k) /\ Finished(k) /\ Counted(k)

-----------------------------------------------------------------------------

(* What saving a record makes of the rows of its key.                      *)
LEMMA SavedRows ==
    ASSUME NEW q \in Seq(Row), NEW r \in Row, Keyed(q)
    PROVE  /\ Saved(q, r) \in Seq(Row) /\ Saved(q, r) # <<>>
           /\ \A i \in 1..Len(Saved(q, r)) :
                 Saved(q, r)[i] = r \/ \E j \in 1..Len(q) : Saved(q, r)[i] = q[j]
           /\ Keyed(Saved(q, r))
           /\ Len(q) <= 1 /\ (q # <<>> => Head(q).op = r.op) => Saved(q, r) = <<r>>
  <1>0. PICK n \in Nat : n = Len(q)  BY LenProperties
  <1>1. CASE \E i \in 1..Len(q) : q[i].op = r.op
    <2> DEFINE i == CHOOSE i \in 1..Len(q) : q[i].op = r.op
               rest == RemoveAt(q, i)
    <2>1. i \in 1..n /\ q[i].op = r.op  BY <1>0, <1>1
    <2>2. Saved(q, r) = Append(rest, r)  BY <1>1 DEF Saved
    <2> HIDE DEF i
    <2>3. /\ SubSeq(q, 1, i - 1) \in Seq(Row) /\ Len(SubSeq(q, 1, i - 1)) = i - 1
          /\ \A j \in 1..(i - 1) : SubSeq(q, 1, i - 1)[j] = q[j]
      BY <1>0, <2>1, SubSeqProperties
    <2>4. /\ SubSeq(q, i + 1, n) \in Seq(Row)
          /\ Len(SubSeq(q, i + 1, n)) = n - i
          /\ \A j \in 1..(n - i) : SubSeq(q, i + 1, n)[j] = q[i + j]
      BY <1>0, <2>1, SubSeqProperties
    <2>5. /\ rest \in Seq(Row) /\ Len(rest) = n - 1
          /\ \A j \in 1..(n - 1) : rest[j] = IF j < i THEN q[j] ELSE q[j + 1]
      <3> DEFINE before == SubSeq(q, 1, i - 1)
                 behind == SubSeq(q, i + 1, n)
      <3>1. rest = before \o behind  BY <1>0 DEF RemoveAt
      <3>2. /\ before \in Seq(Row) /\ Len(before) = i - 1
            /\ \A j \in 1..(i - 1) : before[j] = q[j]
        BY <2>3
      <3>3. /\ behind \in Seq(Row) /\ Len(behind) = n - i
            /\ \A j \in 1..(n - i) : behind[j] = q[i + j]
        BY <2>4
      <3> HIDE DEF rest, before, behind
      <3>4. /\ rest \in Seq(Row) /\ Len(rest) = Len(before) + Len(behind)
            /\ \A j \in 1..(Len(before) + Len(behind)) :
                  rest[j] = IF j <= Len(before) THEN before[j] ELSE behind[j - Len(before)]
        BY <3>1, <3>2, <3>3, ConcatProperties
      <3>5. Len(before) + Len(behind) = n - 1  BY <2>1, <3>2, <3>3
      <3>6. ASSUME NEW j \in 1..(n - 1) PROVE rest[j] = IF j < i THEN q[j] ELSE q[j + 1]
        <4>1. CASE j < i
          <5>1. j <= Len(before) /\ j \in 1..(i - 1)  BY <2>1, <3>2, <4>1
          <5>2. rest[j] = before[j]  BY <3>4, <3>5, <5>1
          <5>3. QED  BY <3>2, <4>1, <5>1, <5>2
        <4>2. CASE ~(j < i)
          <5>1. j - (i - 1) \in 1..(n - i) /\ i + (j - (i - 1)) = j + 1 /\ ~(j <= i - 1)
            BY <2>1, <4>2
          <5>2. behind[j - (i - 1)] = q[j + 1]  BY <3>3, <5>1
          <5>3. rest[j] = behind[j - (i - 1)]  BY <3>2, <3>4, <3>5, <5>1
          <5>4. QED  BY <4>2, <5>2, <5>3
        <4>3. QED  BY <4>1, <4>2
      <3>7. QED  BY <3>4, <3>5, <3>6
    <2> HIDE DEF rest
    <2>6. /\ Append(rest, r) \in Seq(Row) /\ Len(Append(rest, r)) = n
          /\ \A j \in 1..(n - 1) : Append(rest, r)[j] = rest[j]
          /\ Append(rest, r)[n] = r
      BY <1>0, <2>1, <2>5, AppendProperties
    <2>7. \A j \in 1..(n - 1) : \E l \in 1..n : rest[j] = q[l] /\ l # i
                                       /\ l = IF j < i THEN j ELSE j + 1
      BY <1>0, <2>1, <2>5
    <2>8. \A j \in 1..(n - 1) : rest[j].op # r.op
      BY <1>0, <2>1, <2>7 DEF Keyed
    <2>9. Keyed(Append(rest, r))
      <3> SUFFICES ASSUME NEW j \in 1..n, NEW l \in 1..n,
                          Append(rest, r)[j].op = Append(rest, r)[l].op
                   PROVE  j = l
        BY <2>6 DEF Keyed
      <3>1. CASE j = n /\ l # n  BY <1>0, <2>6, <2>8, <3>1
      <3>2. CASE j # n /\ l = n  BY <1>0, <2>6, <2>8, <3>2
      <3>3. CASE j # n /\ l # n
        <4>1. j \in 1..(n - 1) /\ l \in 1..(n - 1)  BY <1>0, <3>3
        <4>2. rest[j].op = rest[l].op  BY <2>6, <4>1
        <4>3. PICK a \in 1..n : rest[j] = q[a] /\ a = IF j < i THEN j ELSE j + 1
          BY <2>7, <4>1
        <4>4. PICK b \in 1..n : rest[l] = q[b] /\ b = IF l < i THEN l ELSE l + 1
          BY <2>7, <4>1
        <4>5. a = b  BY <1>0, <4>2, <4>3, <4>4 DEF Keyed
        <4>6. QED  BY <1>0, <2>1, <4>3, <4>4, <4>5
      <3>4. QED  BY <3>1, <3>2, <3>3
    <2>10. ASSUME n <= 1 PROVE Append(rest, r) = <<r>>
      <3>1. n = 1
        <4>1. 1 <= n  BY <1>0, <2>1
        <4>2. QED  BY <1>0, <2>10, <4>1
      <3>2. rest = <<>>  BY <2>5, <3>1, EmptySeq
      <3>3. QED  BY <3>2
    <2>11. Append(rest, r) # <<>>  BY <1>0, <2>1, <2>6, EmptySeq
    <2>12. \A j \in 1..Len(Append(rest, r)) :
              Append(rest, r)[j] = r \/ \E l \in 1..n : Append(rest, r)[j] = q[l]
      <3> SUFFICES ASSUME NEW j \in 1..n
                   PROVE  Append(rest, r)[j] = r \/ \E l \in 1..n : Append(rest, r)[j] = q[l]
        BY <2>6
      <3>1. CASE j = n  BY <2>6, <3>1
      <3>2. CASE j # n
        <4>1. j \in 1..(n - 1)  BY <1>0, <3>2
        <4>2. QED  BY <2>6, <2>7, <4>1
      <3>3. QED  BY <3>1, <3>2
    <2>13. QED  BY <1>0, <2>2, <2>6, <2>9, <2>10, <2>11, <2>12
  <1>2. CASE ~\E i \in 1..Len(q) : q[i].op = r.op
    <2>1. Saved(q, r) = Append(q, r)  BY <1>2 DEF Saved
    <2>2. /\ Append(q, r) \in Seq(Row) /\ Len(Append(q, r)) = Len(q) + 1
          /\ \A j \in 1..Len(q) : Append(q, r)[j] = q[j]
          /\ Append(q, r)[Len(q) + 1] = r
      BY AppendProperties
    <2>3. Keyed(Append(q, r))  BY <1>0, <1>2, <2>2 DEF Keyed
    <2>4. ASSUME q # <<>> => Head(q).op = r.op PROVE Append(q, r) = <<r>>
      <3>1. q = <<>>
        <4>1. SUFFICES ASSUME q # <<>> PROVE FALSE  OBVIOUS
        <4>2. 1 \in 1..Len(q) /\ Head(q) = q[1]  BY <1>0, <4>1, EmptySeq, HeadTailProperties
        <4>3. QED  BY <1>2, <2>4, <4>1, <4>2
      <3>2. QED  BY <3>1
    <2>5. Append(q, r) # <<>>  BY <1>0, <2>2, EmptySeq
    <2>6. \A j \in 1..Len(Append(q, r)) :
              Append(q, r)[j] = r \/ \E l \in 1..Len(q) : Append(q, r)[j] = q[l]
      BY <1>0, <2>2
    <2>7. QED  BY <2>1, <2>2, <2>3, <2>4, <2>5, <2>6
  <1>3. QED  BY <1>1, <1>2

(* What a call under way is.                                               *)
CallRecord == [pc : Pcs \ {"idle"}, key : Keys, op : Threads, status : Statuses,
               tries : 0..(MaxRetries - 1)]

LEMMA UnderWay ==
    ASSUME TypeOK, NEW t \in Threads
    PROVE  /\ call[t].pc # "idle" \/ call[t].key \in Keys => call[t] \in CallRecord
           /\ call[t] \notin CallRecord => call[t] = Idle
           /\ Idle.key \notin Keys /\ Idle.pc = "idle" /\ Idle.status = "IN_PROGRESS"
  BY RecoveryAssumption DEF TypeOK, CallRecord, Idle

(* A key no step of t is about stays as it was.                            *)
LEMMA OtherKeys ==
    ASSUME ExecIInv, NEW t \in Threads, NEW k \in Keys \ overlapped,
           \A u \in Threads \ {t} : call'[u] = call[u], call[t].key # k, call'[t].key # k,
           rows'[k] = rows[k], effects'[k] = effects[k], excused'[k] = excused[k],
           k \in returned' => k \in returned
    PROVE  Alone(k)' /\ Finished(k)' /\ Counted(k)'
  <1>1. Alone(k) /\ Finished(k) /\ Counted(k)  BY DEF ExecIInv
  <1>2. Calling(k)' = Calling(k)  BY DEF Calling
  <1>3. \A u \in Calling(k) : call'[u] = call[u]  BY DEF Calling
  <1>4. Recorded(k)' <=> Recorded(k)  BY DEF Recorded
  <1>5. QED  BY <1>1, <1>2, <1>3, <1>4 DEF Alone, Finished, Counted

(* A call saves its record.                                                *)
LEMMA SaveStep ==
    ASSUME ExecIInv, NEW t \in Threads, call[t] \in CallRecord, NEW st \in Statuses, Save(t, st)
    PROVE  LET k == call[t].key IN
           /\ DOMAIN rows' = Keys
           /\ \A l \in Keys : rows'[l] \in Seq(Row) /\ Keyed(rows'[l]) /\ (l # k => rows'[l] = rows[l])
           /\ \A i \in 1..Len(rows'[k]) : rows'[k][i].status = "COMPLETED" =>
                 st = "COMPLETED" \/ \E j \in 1..Len(rows[k]) : rows[k][j].status = "COMPLETED"
           /\ k \notin overlapped =>
                 /\ rows'[k] # <<>> /\ Len(rows'[k]) = 1
                 /\ Head(rows'[k]).op = call[t].op /\ Head(rows'[k]).status = st
  <1> DEFINE k == call[t].key
             r == [op |-> call[t].op, status |-> st]
  <1>1. k \in Keys /\ r \in Row  BY DEF CallRecord, Row
  <1>2. DOMAIN rows = Keys /\ \A l \in Keys : rows[l] \in Seq(Row) /\ Keyed(rows[l])
    BY DEF ExecIInv, TypeOK
  <1>3. rows' = [rows EXCEPT ![k] = Saved(rows[k], r)]  BY DEF Save
  <1>4. rows'[k] = Saved(rows[k], r) /\ \A l \in Keys \ {k} : rows'[l] = rows[l]
    BY <1>1, <1>2, <1>3
  <1>5. /\ Saved(rows[k], r) \in Seq(Row) /\ Keyed(Saved(rows[k], r)) /\ Saved(rows[k], r) # <<>>
        /\ \A i \in 1..Len(Saved(rows[k], r)) :
              Saved(rows[k], r)[i] = r \/ \E j \in 1..Len(rows[k]) : Saved(rows[k], r)[i] = rows[k][j]
        /\ Len(rows[k]) <= 1 /\ (rows[k] # <<>> => Head(rows[k]).op = r.op) =>
              Saved(rows[k], r) = <<r>>
    BY <1>1, <1>2, SavedRows
  <1>6. ASSUME k \notin overlapped PROVE rows'[k] = <<r>>
    <2>1. Alone(k) /\ t \in Calling(k)  BY <1>1, <1>6 DEF ExecIInv, Calling
    <2>2. Len(rows[k]) <= 1 /\ (rows[k] # <<>> => Head(rows[k]).op = r.op)  BY <2>1 DEF Alone
    <2>3. QED  BY <1>4, <1>5, <2>2
  <1>7. DOMAIN rows' = Keys  BY <1>2, <1>3
  <1>8. \A l \in Keys : rows'[l] \in Seq(Row) /\ Keyed(rows'[l]) /\ (l # k => rows'[l] = rows[l])
    BY <1>2, <1>4, <1>5
  <1>9. \A i \in 1..Len(rows'[k]) : rows'[k][i].status = "COMPLETED" =>
           st = "COMPLETED" \/ \E j \in 1..Len(rows[k]) : rows[k][j].status = "COMPLETED"
    BY <1>4, <1>5
  <1>10. k \notin overlapped =>
            /\ rows'[k] # <<>> /\ Len(rows'[k]) = 1
            /\ Head(rows'[k]).op = call[t].op /\ Head(rows'[k]).status = st
    <2>1. <<r>> # <<>> /\ Len(<<r>>) = 1 /\ Head(<<r>>) = r  OBVIOUS
    <2>2. r.op = call[t].op /\ r.status = st  OBVIOUS
    <2> HIDE DEF r
    <2>3. QED  BY <1>6, <2>1, <2>2
  <1>11. QED  BY <1>7, <1>8, <1>9, <1>10

(* Steps of a call that save its record: Begin, SaveDone, SaveRaised and   *)
(* SaveFailed.                                                             *)
LEMMA SaveSteps ==
    ASSUME ExecIInv, NEW t \in Threads, call[t] \in CallRecord, NEW st \in Statuses, Save(t, st),
           NEW c \in CallRecord \cup {Idle}, call' = [call EXCEPT ![t] = c],
           c # Idle => c.key = call[t].key /\ c.op = call[t].op /\ c.pc # "done"
                       /\ call[t].pc # "done" /\ c.status = call[t].status,
           call[t].pc # "done" => st = call[t].status \/ st # "COMPLETED",
           returned' = IF c = Idle /\ call[t].pc = "done" THEN returned \cup {call[t].key} ELSE returned,
           call[t].pc = "done" => st = "COMPLETED",
           UNCHANGED <<log, up, phase, calls, crashes, effects, overlapped, excused>>
    PROVE  ExecIInv'
  <1> DEFINE k == call[t].key
  <1>0. TypeOK /\ Truthful /\ k \in Keys /\ call[t].op \in Threads /\ call[t].status \in Statuses
    BY DEF ExecIInv, CallRecord
  <1>1. /\ DOMAIN rows' = Keys
        /\ \A l \in Keys : rows'[l] \in Seq(Row) /\ Keyed(rows'[l]) /\ (l # k => rows'[l] = rows[l])
        /\ \A i \in 1..Len(rows'[k]) : rows'[k][i].status = "COMPLETED" =>
              st = "COMPLETED" \/ \E j \in 1..Len(rows[k]) : rows[k][j].status = "COMPLETED"
        /\ k \notin overlapped =>
              /\ rows'[k] # <<>> /\ Len(rows'[k]) = 1
              /\ Head(rows'[k]).op = call[t].op /\ Head(rows'[k]).status = st
    BY SaveStep
  <1>2. /\ DOMAIN call' = Threads /\ call'[t] = c
        /\ \A u \in Threads \ {t} : call'[u] = call[u]
    BY <1>0 DEF TypeOK
  <1>3. TypeOK'
    <2>1. \A u \in Threads : call'[u] = Idle \/ call'[u] \in CallRecord
      BY <1>0, <1>2, UnderWay
    <2>2. returned' \subseteq Keys  BY <1>0 DEF TypeOK
    <2>3. QED  BY <1>0, <1>1, <1>2, <2>1, <2>2 DEF TypeOK, CallRecord
  <1>4. Truthful'
    <2>1. st = "COMPLETED" => effects[k] >= 1
      BY <1>0 DEF Truthful
    <2>2. \A l \in Keys : l \in returned' => effects[l] >= 1
      BY <1>0, <2>1 DEF Truthful
    <2>3. \A l \in Keys : \A i \in 1..Len(rows'[l]) :
             rows'[l][i].status = "COMPLETED" => effects[l] >= 1
      <3>1. ASSUME NEW l \in Keys, NEW i \in 1..Len(rows'[l]), rows'[l][i].status = "COMPLETED"
            PROVE  effects[l] >= 1
        <4>1. CASE l = k
          <5>1. st = "COMPLETED" \/ \E j \in 1..Len(rows[k]) : rows[k][j].status = "COMPLETED"
            BY <1>1, <3>1, <4>1
          <5>2. QED  BY <1>0, <2>1, <4>1, <5>1 DEF Truthful
        <4>2. CASE l # k
          <5>1. rows'[l] = rows[l]  BY <1>1, <4>2
          <5>2. QED  BY <1>0, <3>1, <5>1 DEF Truthful
        <4>3. QED  BY <4>1, <4>2
      <3>2. QED  BY <3>1
    <2>4. \A u \in Threads : /\ call'[u].pc = "done" => call'[u].status = "COMPLETED"
                             /\ call'[u].status = "COMPLETED" => effects[call'[u].key] >= 1
      BY <1>0, <1>2, UnderWay DEF Truthful
    <2>5. QED  BY <2>2, <2>3, <2>4 DEF Truthful
  <1>5. ASSUME NEW l \in Keys \ overlapped PROVE Alone(l)' /\ Finished(l)' /\ Counted(l)'
    <2>1. CASE l # k
      <3>1. call'[t].key # l  BY <1>2, <2>1, <1>5, UnderWay, <1>0
      <3>2. l \in returned' => l \in returned  BY <2>1
      <3>3. QED  BY <1>1, <1>2, <2>1, <3>1, <3>2, OtherKeys
    <2>2. CASE l = k
      <3>1. Alone(l) /\ Finished(l) /\ Counted(l) /\ Calling(l) = {t}
        BY <1>0, <1>5, <2>2 DEF ExecIInv, Alone, Calling
      <3>2. l \notin returned  BY <3>1 DEF Finished
      <3>3. Calling(l)' = IF c = Idle THEN {} ELSE {t}
        BY <1>0, <1>2, <3>1, UnderWay DEF Calling
      <3>4. Recorded(l)' <=> st = "COMPLETED"  BY <1>1, <1>5, <2>2 DEF Recorded
      <3>5. Alone(l)'
        <4>1. \A u \in Calling(l)' : call'[u].op = call[t].op  BY <1>2, <3>3
        <4>2. Len(rows'[l]) = 1 /\ Head(rows'[l]).op = call[t].op  BY <1>1, <1>5, <2>2
        <4>3. \A u, v \in Calling(l)' : u = v  BY <3>3
        <4>4. Len(rows'[l]) <= 1  BY <4>2
        <4>5. QED  BY <4>1, <4>2, <4>3, <4>4 DEF Alone
      <3>6. Finished(l)'  BY <3>2, <3>3, <3>4 DEF Finished
      <3>7. Counted(l)'
        <4>1. call[t].pc # "done" => effects[l] <= excused[l]  BY <3>1 DEF Counted
        <4>2. effects[l] <= excused[l] + 1  BY <3>1 DEF Counted
        <4>3. QED  BY <1>2, <3>3, <3>4, <4>1, <4>2 DEF Counted
      <3>8. QED  BY <2>2, <3>5, <3>6, <3>7
    <2>3. QED  BY <2>1, <2>2
  <1>6. QED  BY <1>1, <1>3, <1>4, <1>5 DEF ExecIInv

(* Steps in which the handler runs, or the saving of its result fails:     *)
(* HandlerReturns, HandlerRaises, SaveDoneRaises.                          *)
LEMMA HandlerSteps ==
    ASSUME ExecIInv, NEW t \in Threads,
           HandlerReturns(t) \/ HandlerRaises(t) \/ SaveDoneRaises(t)
    PROVE  ExecIInv'
  <1> DEFINE k == call[t].key
  <1>0. call[t] \in CallRecord
    BY UnderWay DEF ExecIInv, HandlerReturns, HandlerRaises, SaveDoneRaises
  <1>1. TypeOK /\ Truthful /\ k \in Keys /\ k # NoKey
    BY <1>0, RecoveryAssumption DEF ExecIInv, CallRecord
  <1>2. UNCHANGED <<rows, log, up, phase, calls, crashes, returned, overlapped>>
    BY DEF HandlerReturns, HandlerRaises, SaveDoneRaises
  <1>3. PICK n \in {0, 1}, x \in {0, 1}, c \in CallRecord :
           /\ call' = [call EXCEPT ![t] = c] /\ c.key = k /\ c.op = call[t].op
           /\ effects' = [effects EXCEPT ![k] = @ + n]
           /\ excused' = [excused EXCEPT ![k] = @ + x]
           /\ \/ call[t].pc = "run" /\ c.pc = "done" /\ c.status = "COMPLETED" /\ n = 1 /\ x = 0
              \/ call[t].pc = "run" /\ c.pc = "raised" /\ c.status = call[t].status /\ n = x
              \/ call[t].pc = "done" /\ c.pc = "raised" /\ c.status = call[t].status
                   /\ n = 0 /\ x = 1
    <2>1. CASE HandlerReturns(t)
      <3>1. [call[t] EXCEPT !.pc = "done", !.status = "COMPLETED"] \in CallRecord
        BY <1>0 DEF CallRecord, Pcs, Statuses
      <3>2. excused' = [excused EXCEPT ![k] = @ + 0]
        BY <1>1, <2>1 DEF HandlerReturns, TypeOK
      <3>3. effects' = [effects EXCEPT ![k] = @ + 1]  BY <2>1 DEF HandlerReturns
      <3>4. call' = [call EXCEPT ![t] = [call[t] EXCEPT !.pc = "done", !.status = "COMPLETED"]]
            /\ call[t].pc = "run"
        BY <2>1 DEF HandlerReturns
      <3>5. QED  BY <1>0, <3>1, <3>2, <3>3, <3>4 DEF CallRecord
    <2>2. CASE HandlerRaises(t)
      <3>1. [call[t] EXCEPT !.pc = "raised"] \in CallRecord  BY <1>0 DEF CallRecord, Pcs
      <3>2. QED  BY <1>0, <2>2, <3>1 DEF HandlerRaises, CallRecord
    <2>3. CASE SaveDoneRaises(t)
      <3>1. [call[t] EXCEPT !.pc = "raised"] \in CallRecord  BY <1>0 DEF CallRecord, Pcs
      <3>2. effects' = [effects EXCEPT ![k] = @ + 0]
        BY <1>1, <2>3 DEF SaveDoneRaises, TypeOK
      <3>3. QED  BY <1>0, <2>3, <3>1, <3>2 DEF SaveDoneRaises, CallRecord
    <2>4. QED  BY <2>1, <2>2, <2>3
  <1>4. /\ effects[k] \in Nat /\ effects'[k] = effects[k] + n
        /\ excused[k] \in Nat /\ excused'[k] = excused[k] + x
        /\ \A l \in Keys \ {k} : effects'[l] = effects[l] /\ excused'[l] = excused[l]
        /\ effects' \in [Keys -> Nat] /\ excused' \in [Keys -> Nat]
        /\ \A l \in Keys : effects[l] \in Nat /\ effects'[l] \in Nat /\ effects'[l] >= effects[l]
    BY <1>1, <1>3 DEF TypeOK
  <1>5. /\ DOMAIN call' = Threads /\ call'[t] = c
        /\ \A u \in Threads \ {t} : call'[u] = call[u]
    BY <1>1, <1>3 DEF TypeOK
  <1>6. TypeOK'
    <2>1. \A u \in Threads : call'[u] = Idle \/ call'[u] \in CallRecord
      BY <1>1, <1>5, UnderWay
    <2>2. QED  BY <1>1, <1>2, <1>4, <1>5, <2>1 DEF TypeOK, CallRecord
  <1>7. Truthful'
    <2>1. \A l \in Keys : effects[l] >= 1 => effects'[l] >= 1  BY <1>4
    <2>2. \A l \in Keys :
            /\ l \in returned' => effects'[l] >= 1
            /\ \A i \in 1..Len(rows'[l]) : rows'[l][i].status = "COMPLETED" => effects'[l] >= 1
      BY <1>1, <1>2, <2>1 DEF Truthful
    <2>3. ASSUME NEW u \in Threads
          PROVE  /\ call'[u].pc = "done" => call'[u].status = "COMPLETED"
                 /\ call'[u].status = "COMPLETED" => effects'[call'[u].key] >= 1
      <3>1. CASE u = t
        <4>1. call[t].status = "COMPLETED" => effects[k] >= 1  BY <1>1 DEF Truthful
        <4>2. n = 1 => effects'[k] >= 1  BY <1>4
        <4>3. QED  BY <1>1, <1>3, <1>5, <2>1, <3>1, <4>1, <4>2
      <3>2. CASE u # t
        <4>1. call'[u] = call[u]  BY <1>5, <3>2
        <4>2. call[u].status = "COMPLETED" => call[u].key \in Keys
          BY <1>1, UnderWay DEF CallRecord
        <4>3. QED  BY <1>1, <2>1, <4>1, <4>2 DEF Truthful
      <3>3. QED  BY <3>1, <3>2
    <2>4. QED  BY <2>2, <2>3 DEF Truthful
  <1>8. ASSUME NEW l \in Keys \ overlapped PROVE Alone(l)' /\ Finished(l)' /\ Counted(l)'
    <2>1. CASE l # k
      BY <1>2, <1>3, <1>4, <1>5, <2>1, OtherKeys
    <2>2. CASE l = k
      <3>1. Alone(l) /\ Finished(l) /\ Counted(l) /\ Calling(l) = {t}
        BY <1>1, <1>8, <2>2 DEF ExecIInv, Alone, Calling
      <3>2. Calling(l)' = {t}  BY <1>1, <1>3, <1>5, <3>1 DEF Calling
      <3>3. Alone(l)' /\ Finished(l)'
        BY <1>2, <1>3, <1>5, <3>1, <3>2 DEF Alone, Finished, Recorded
      <3>4. Counted(l)'
        <4>1. effects[l] <= excused[l] + 1 /\ (call[t].pc # "done" => effects[l] <= excused[l])
          BY <3>1 DEF Counted
        <4>2. effects'[l] <= excused'[l] + 1 /\ (c.pc # "done" => effects'[l] <= excused'[l])
          BY <1>3, <1>4, <2>2, <4>1
        <4>3. QED  BY <1>5, <3>2, <4>2 DEF Counted
      <3>5. QED  BY <2>2, <3>3, <3>4
    <2>3. QED  BY <2>1, <2>2
  <1>9. QED  BY <1>2, <1>6, <1>7, <1>8 DEF ExecIInv

(* A key is looked up: a recorded one is returned, another one called.     *)
LEMMA LookupStep ==
    ASSUME ExecIInv, NEW t \in Threads, NEW k \in Keys, Lookup(t, k)
    PROVE  ExecIInv'
  <1>0. TypeOK /\ Truthful /\ call[t] = Idle /\ k # NoKey
    BY RecoveryAssumption DEF ExecIInv, Lookup
  <1>1. /\ UNCHANGED <<rows, log, up, phase, crashes, effects, excused>>
        /\ calls' \in 0..MaxCalls
        /\ overlapped' = IF Calling(k) # {} THEN overlapped \cup {k} ELSE overlapped
    BY <1>0, RecoveryAssumption DEF Lookup, TypeOK, Calling
  <1>2. CASE Recorded(k)
    <2>1. returned' = returned \cup {k} /\ UNCHANGED call  BY <1>2 DEF Lookup, Recorded
    <2>2. TypeOK'  BY <1>0, <1>1, <2>1 DEF TypeOK
    <2>3. effects[k] >= 1
      <3>1. rows[k] \in Seq(Row)  BY <1>0 DEF TypeOK
      <3>2. 1 \in 1..Len(rows[k]) /\ rows[k][1].status = "COMPLETED"
        BY <1>2, <3>1, EmptySeq, LenProperties, HeadTailProperties DEF Recorded
      <3>3. QED  BY <1>0, <3>2 DEF Truthful
    <2>4. Truthful'  BY <1>0, <1>1, <2>1, <2>3 DEF Truthful
    <2>5. ASSUME NEW l \in Keys \ overlapped' PROVE Alone(l)' /\ Finished(l)' /\ Counted(l)'
      <3>1. Alone(l) /\ Finished(l) /\ Counted(l) /\ (l = k => Calling(k) = {})
        BY <1>1, <2>5 DEF ExecIInv
      <3>2. Calling(l)' = Calling(l) /\ (Recorded(l)' <=> Recorded(l))
        BY <1>1, <2>1 DEF Calling, Recorded
      <3>3. QED
        BY <1>1, <1>2, <2>1, <3>1, <3>2 DEF Alone, Finished, Counted
    <2>6. QED  BY <1>1, <2>2, <2>4, <2>5 DEF ExecIInv
  <1>3. CASE ~Recorded(k)
    <2> DEFINE c == [pc |-> "begin", key |-> k, status |-> "IN_PROGRESS", tries |-> 0,
                     op |-> IF rows[k] = <<>> THEN t ELSE Head(rows[k]).op]
    <2>1. call' = [call EXCEPT ![t] = c] /\ UNCHANGED returned  BY <1>3 DEF Lookup, Recorded
    <2>2. c \in CallRecord
      <3>1. rows[k] \in Seq(Row)  BY <1>0 DEF TypeOK
      <3>2. rows[k] # <<>> => Head(rows[k]) \in Row  BY <3>1, HeadTailProperties
      <3>3. c.op \in Threads  BY <3>2 DEF Row
      <3>4. 0 \in 0..(MaxRetries - 1)  BY RecoveryAssumption
      <3>5. QED  BY <3>3, <3>4 DEF CallRecord, Pcs, Statuses
    <2>3. /\ c.pc = "begin" /\ c.key = k /\ c.status = "IN_PROGRESS"
          /\ rows[k] # <<>> => c.op = Head(rows[k]).op
      OBVIOUS
    <2> HIDE DEF c
    <2>4. /\ DOMAIN call' = Threads /\ call'[t] = c
          /\ \A u \in Threads \ {t} : call'[u] = call[u]
      BY <1>0, <2>1 DEF TypeOK
    <2>5. TypeOK'
      <3>1. \A u \in Threads : call'[u] = Idle \/ call'[u] \in CallRecord
        BY <1>0, <2>2, <2>4, UnderWay
      <3>2. overlapped' \subseteq Keys /\ returned' \subseteq Keys
        BY <1>0, <1>1, <2>1 DEF TypeOK
      <3>3. QED  BY <1>0, <1>1, <2>4, <3>1, <3>2 DEF TypeOK, CallRecord
    <2>6. Truthful'
      <3>1. \A u \in Threads : /\ call'[u].pc = "done" => call'[u].status = "COMPLETED"
                               /\ call'[u].status = "COMPLETED" => effects[call'[u].key] >= 1
        BY <1>0, <2>3, <2>4 DEF Truthful
      <3>2. QED  BY <1>0, <1>1, <2>1, <3>1 DEF Truthful
    <2>7. ASSUME NEW l \in Keys \ overlapped' PROVE Alone(l)' /\ Finished(l)' /\ Counted(l)'
      <3>0. l \in Keys \ overlapped /\ (l = k => Calling(k) = {})  BY <1>1, <2>7
      <3>1. CASE l # k
        <4>1. call[t].key # l /\ call'[t].key # l  BY <1>0, <2>3, <2>4, <3>1, UnderWay
        <4>2. QED  BY <1>1, <2>1, <2>4, <3>0, <4>1, OtherKeys
      <3>2. CASE l = k
        <4>1. Alone(k) /\ Finished(k) /\ Counted(k) /\ Calling(k) = {}
          BY <3>0, <3>2 DEF ExecIInv
        <4>2. Calling(k)' = {t} /\ (Recorded(k)' <=> Recorded(k))
          BY <1>1, <2>3, <2>4, <4>1 DEF Calling, Recorded
        <4>3. k \notin returned  BY <1>3, <4>1 DEF Finished
        <4>4. effects[k] <= excused[k]  BY <1>3, <4>1 DEF Counted
        <4>5. effects[k] \in Nat /\ excused[k] \in Nat  BY <1>0 DEF TypeOK
        <4>6. Alone(k)'  BY <1>1, <2>3, <2>4, <4>1, <4>2 DEF Alone
        <4>7. Finished(k)'  BY <2>1, <4>3 DEF Finished
        <4>8. Counted(k)'  BY <1>1, <4>2, <4>4, <4>5 DEF Counted
        <4>9. QED  BY <3>2, <4>6, <4>7, <4>8
      <3>3. QED  BY <3>1, <3>2
    <2>8. QED  BY <1>1, <2>5, <2>6, <2>7 DEF ExecIInv
  <1>4. QED  BY <1>2, <1>3

(* The process starts, shuts down, or ends.                                *)
LEMMA ProcessSteps ==
    ASSUME ExecIInv, Startup \/ ShutdownStart \/ ShutdownFlush \/ ShutdownStop \/ Crash
    PROVE  ExecIInv'
  <1>0. TypeOK /\ Truthful  BY DEF ExecIInv
  <1>1. CASE Startup \/ ShutdownStart \/ ShutdownFlush \/ ShutdownStop
    <2>1. UNCHANGED <<rows, call, calls, crashes, effects, returned, overlapped, excused>>
      BY <1>1 DEF Startup, ShutdownStart, ShutdownFlush, ShutdownStop
    <2>2. /\ up' \in BOOLEAN /\ phase' \in Phases
          /\ log' \in {"none", "startup", "shutdown_start", "clean_shutdown"}
      BY <1>0, <1>1
      DEF Startup, ShutdownStart, ShutdownFlush, ShutdownStop, TypeOK, Phases
    <2>3. TypeOK'  BY <1>0, <2>1, <2>2 DEF TypeOK
    <2>4. \A k \in Keys : Calling(k)' = Calling(k) /\ (Recorded(k)' <=> Recorded(k))
      BY <2>1 DEF Calling, Recorded
    <2>5. QED
      BY <2>1, <2>3, <2>4 DEF ExecIInv, Truthful, Alone, Finished, Counted
  <1>2. CASE Crash
    <2>1. /\ UNCHANGED <<rows, log, phase, calls, effects, returned, overlapped>>
          /\ call' = [t \in Threads |-> Idle] /\ up' = FALSE /\ crashes' \in 0..MaxCrashes
          /\ excused' = [k \in Keys |-> excused[k] + Cardinality(Unsaved(k))]
      BY <1>0, <1>2, RecoveryAssumption DEF Crash, TypeOK
    <2>2. ASSUME NEW k \in Keys
          PROVE  Cardinality(Unsaved(k)) \in Nat /\ (Unsaved(k) # {} => Cardinality(Unsaved(k)) >= 1)
      <3>1. Unsaved(k) \in SUBSET Threads /\ IsFiniteSet(Threads)
        BY RecoveryAssumption DEF Unsaved
      <3>2. IsFiniteSet(Unsaved(k))  BY <3>1, FS_Subset
      <3>3. Cardinality(Unsaved(k)) \in Nat  BY <3>2, FS_CardinalityType
      <3>4. Unsaved(k) # {} => Cardinality(Unsaved(k)) # 0  BY <3>2, FS_EmptySet
      <3>5. QED  BY <3>3, <3>4
    <2>3. \A k \in Keys : excused[k] \in Nat /\ effects[k] \in Nat  BY <1>0 DEF TypeOK
    <2>4. excused' \in [Keys -> Nat]  BY <2>1, <2>2, <2>3
    <2>5. TypeOK'  BY <1>0, <2>1, <2>4 DEF TypeOK
    <2>6. Truthful'  BY <1>0, <2>1 DEF Truthful, Idle
    <2>7. ASSUME NEW k \in Keys \ overlapped PROVE Alone(k)' /\ Finished(k)' /\ Counted(k)'
      <3>1. Alone(k) /\ Finished(k) /\ Counted(k)  BY <2>7 DEF ExecIInv
      <3>2. Calling(k)' = {} /\ (Recorded(k)' <=> Recorded(k))
        BY <2>1, RecoveryAssumption DEF Calling, Recorded, Idle
      <3>3. excused'[k] = excused[k] + Cardinality(Unsaved(k))  BY <2>1
      <3>4. ASSUME ~Recorded(k) PROVE effects[k] <= excused'[k]
        <4>1. CASE Calling(k) = {}  BY <2>2, <2>3, <3>1, <3>3, <3>4, <4>1 DEF Counted
        <4>2. CASE \E t \in Calling(k) : call[t].pc # "done"
          BY <2>2, <2>3, <3>1, <3>3, <4>2 DEF Counted
        <4>3. CASE \E t \in Calling(k) : call[t].pc = "done"
          <5>1. Unsaved(k) # {}  BY <4>3 DEF Unsaved, Calling
          <5>2. effects[k] <= excused[k] + 1  BY <3>1 DEF Counted
          <5>3. QED  BY <2>2, <2>3, <3>3, <5>1, <5>2
        <4>4. QED  BY <4>1, <4>2, <4>3
      <3>5. effects[k] <= excused'[k] + 1
        <4>1. effects[k] <= excused[k] + 1  BY <3>1 DEF Counted
        <4>2. QED  BY <2>2, <2>3, <3>3, <4>1
      <3>6. Counted(k)'  BY <2>1, <3>2, <3>4, <3>5 DEF Counted
      <3>7. Alone(k)' /\ Finished(k)'  BY <2>1, <3>1, <3>2 DEF Alone, Finished
      <3>8. QED  BY <3>6, <3>7
    <2>8. QED  BY <2>1, <2>5, <2>6, <2>7 DEF ExecIInv
  <1>3. QED  BY <1>1, <1>2

(* Initially the database is empty and nothing has run.                    *)
LEMMA ExecInit == Init => ExecIInv
  <1> SUFFICES ASSUME Init PROVE ExecIInv  OBVIOUS
  <1>0. MaxCalls \in Nat /\ MaxCrashes \in Nat /\ NoKey \notin Keys  BY RecoveryAssumption
  <1>1. <<>> \in Seq(Row) /\ Len(<<>>) = 0  BY EmptySeq
  <1>2. TypeOK
    <2>1. DOMAIN rows = Keys /\ DOMAIN call = Threads /\ \A k \in Keys : rows[k] \in Seq(Row)
      BY <1>1 DEF Init
    <2>2. \A t \in Threads : call[t] = Idle  BY DEF Init
    <2>3. effects \in [Keys -> Nat] /\ excused \in [Keys -> Nat]  BY DEF Init
    <2>4. calls \in 0..MaxCalls /\ crashes \in 0..MaxCrashes  BY <1>0 DEF Init
    <2>5. QED  BY <2>1, <2>2, <2>3, <2>4 DEF Init, TypeOK, Phases
  <1>3. \A k \in Keys : rows[k] = <<>> /\ Keyed(rows[k])  BY <1>1 DEF Init, Keyed
  <1>4. Truthful  BY <1>1, <1>3 DEF Init, Truthful, Idle
  <1>5. ASSUME NEW k \in Keys PROVE Alone(k) /\ Finished(k) /\ Counted(k)
    <2>1. Calling(k) = {}  BY <1>0 DEF Init, Calling, Idle
    <2>2. QED  BY <1>1, <1>3, <2>1 DEF Init, Alone, Finished, Counted
  <1>6. QED  BY <1>2, <1>3, <1>4, <1>5 DEF ExecIInv

(* A step of a call that saves its record, for each of the four.           *)
LEMMA RecordSteps ==
    ASSUME ExecIInv, NEW t \in Threads, Begin(t) \/ SaveDone(t) \/ SaveRaised(t) \/ SaveFailed(t)
    PROVE  ExecIInv'
  <1>0. call[t] \in CallRecord /\ DOMAIN call = Threads
    BY UnderWay DEF ExecIInv, TypeOK, Begin, SaveDone, SaveRaised, SaveFailed
  <1>1. CASE Begin(t)
    <2> DEFINE c == [call[t] EXCEPT !.pc = "run"]
    <2>1. c \in CallRecord /\ c.key = call[t].key /\ c.op = call[t].op /\ c.pc = "run"
          /\ c.status = call[t].status /\ c # Idle
      BY <1>0 DEF CallRecord, Pcs, Idle
    <2>2. call' = [call EXCEPT ![t] = c]  BY <1>1 DEF Begin
    <2> HIDE DEF c
    <2>3. QED  BY <1>0, <1>1, <2>1, <2>2, SaveSteps, "IN_PROGRESS" \in Statuses DEF Begin, Statuses
  <1>2. CASE SaveDone(t)
    BY <1>0, <1>2, SaveSteps, "COMPLETED" \in Statuses DEF SaveDone, Statuses
  <1>3. CASE SaveFailed(t)
    BY <1>0, <1>3, SaveSteps, "FAILED" \in Statuses DEF SaveFailed, Statuses
  <1>4. CASE SaveRaised(t)
    <2> DEFINE c == IF call[t].tries < MaxRetries - 1
                    THEN [call[t] EXCEPT !.pc = "run", !.tries = @ + 1]
                    ELSE [call[t] EXCEPT !.pc = "failed"]
    <2>1. c \in CallRecord /\ c.key = call[t].key /\ c.op = call[t].op /\ c.pc # "done"
          /\ c.status = call[t].status /\ c # Idle
      <3>1. CASE call[t].tries < MaxRetries - 1
        <4>1. c = [call[t] EXCEPT !.pc = "run", !.tries = call[t].tries + 1]
          BY <1>0, <3>1 DEF CallRecord
        <4>2. call[t].tries + 1 \in 0..(MaxRetries - 1)
          BY <1>0, <3>1, RecoveryAssumption DEF CallRecord
        <4>3. QED  BY <1>0, <4>1, <4>2 DEF CallRecord, Pcs, Idle
      <3>2. CASE ~(call[t].tries < MaxRetries - 1)
        BY <1>0, <3>2 DEF CallRecord, Pcs, Idle
      <3>3. QED  BY <3>1, <3>2
    <2>2. call' = [call EXCEPT ![t] = c]
      <3>1. call' = [call EXCEPT ![t] =
                        IF call[t].tries < MaxRetries - 1
                        THEN [call[t] EXCEPT !.pc = "run", !.tries = call[t].tries + 1]
                        ELSE [call[t] EXCEPT !.pc = "failed"]]
        BY <1>4, Zenon DEF SaveRaised
      <3>2. c = IF call[t].tries < MaxRetries - 1
                THEN [call[t] EXCEPT !.pc = "run", !.tries = call[t].tries + 1]
                ELSE [call[t] EXCEPT !.pc = "failed"]
        BY <1>0 DEF CallRecord
      <3> HIDE DEF c
      <3>3. QED  BY <3>1, <3>2
    <2>3. call[t].status \in Statuses  BY <1>0 DEF CallRecord
    <2> HIDE DEF c
    <2>4. QED  BY <1>0, <1>4, <2>1, <2>2, <2>3, SaveSteps DEF SaveRaised
  <1>5. QED  BY <1>1, <1>2, <1>3, <1>4

(* The inductive invariant holds in every state.                           *)
THEOREM ExecutorInvariant == Spec => []ExecIInv
  <1>1. ExecIInv /\ [Next]_vars => ExecIInv'
    <2> SUFFICES ASSUME ExecIInv, [Next]_vars PROVE ExecIInv'  OBVIOUS
    <2>1. CASE UNCHANGED vars
      <3>1. \A k \in Keys : Calling(k)' = Calling(k) /\ (Recorded(k)' <=> Recorded(k))
        BY <2>1 DEF vars, Calling, Recorded
      <3>2. TypeOK' /\ Truthful'
        BY <2>1 DEF vars, ExecIInv, TypeOK, Truthful
      <3>3. \A k \in Keys \ overlapped :
                Alone(k)' /\ Finished(k)' /\ Counted(k)' /\ Keyed(rows[k])
        BY <2>1, <3>1 DEF vars, ExecIInv, Alone, Finished, Counted
      <3>4. QED  BY <2>1, <3>2, <3>3 DEF vars, ExecIInv
    <2>2. CASE Next
      BY <2>2, LookupStep, RecordSteps, HandlerSteps, ProcessSteps DEF Next
    <2>3. QED  BY <2>1, <2>2
  <1>2. QED  BY <1>1, ExecInit, PTL DEF Spec

(* Whatever crashes or overlaps: a key that a call has reported COMPLETED  *)
(* took effect before.                                                     *)
THEOREM CompletedIsTrue == Spec => []CompletedTookEffect
  <1>1. ExecIInv => CompletedTookEffect  BY DEF ExecIInv, Truthful, CompletedTookEffect, TypeOK
  <1>2. QED  BY <1>1, ExecutorInvariant, PTL

(* Unless its calls overlap, a key reported COMPLETED is never executed    *)
(* again, whatever crashes.                                                *)
THEOREM CompletedStays == Spec => []CompletedIsFinal
  <1>1. ExecIInv => CompletedIsFinal
    <2> SUFFICES ASSUME ExecIInv, NEW t \in Threads, call[t].key \in returned \ overlapped
                 PROVE  FALSE
      BY DEF CompletedIsFinal
    <2>1. call[t].key \in Keys  BY DEF ExecIInv, TypeOK
    <2>2. Calling(call[t].key) = {}  BY <2>1 DEF ExecIInv, Finished
    <2>3. QED  BY <2>2 DEF Calling
  <1>2. QED  BY <1>1, ExecutorInvariant, PTL

(* Unless its calls overlap, every effect of a key beyond the first is one *)
(* that no record could tell of.                                           *)
THEOREM RepeatsHaveExcuses == Spec => []RepeatsAreExcused
  <1>1. ExecIInv => RepeatsAreExcused
    <2> SUFFICES ASSUME ExecIInv, NEW k \in Keys \ overlapped PROVE effects[k] <= 1 + excused[k]
      BY DEF RepeatsAreExcused
    <2>1. effects[k] <= excused[k] + 1  BY DEF ExecIInv, Counted
    <2>2. effects[k] \in Nat /\ excused[k] \in Nat  BY DEF ExecIInv, TypeOK
    <2>3. QED  BY <2>1, <2>2
  <1>2. QED  BY <1>1, ExecutorInvariant, PTL

-----------------------------------------------------------------------------
(* The rate limiter                                                        *)

(* A sleeper that nobody has overtaken finds its tokens when it wakes: by  *)
(* then they will have come.                                               *)
WillFind(r) ==
    asker[r].want \in 1..MaxTokens /\ ~asker[r].overtaken =>
       IF asker[r].wakeAt <= lastRefill THEN asker[r].want <= tokens
       ELSE asker[r].want <= tokens + (asker[r].wakeAt - lastRefill) * Rate

BucketIInv ==
    /\ BucketTypeOK
    /\ window.granted + Refilled <= MaxTokens + (clock - window.from) * Rate
    /\ \A r \in Requests : WillFind(r)

(* What time brings, as far as the provers need it.                        *)
LEMMA MoreTicksMoreTokens ==
    ASSUME NEW a \in Nat, NEW b \in Nat
    PROVE  /\ a * Rate \in Nat
           /\ (a + b) * Rate = a * Rate + b * Rate
           /\ a <= b => a * Rate <= b * Rate
  BY SMT, TokenBucketAssumption

(* The bucket never holds more than it may, nor less than it did.          *)
LEMMA RefilledBounds ==
    ASSUME BucketTypeOK
    PROVE  /\ Refilled \in 0..MaxTokens /\ tokens <= Refilled
           /\ Refilled = MaxTokens \/ Refilled = tokens + (clock - lastRefill) * Rate
  <1>1. clock - lastRefill \in Nat /\ tokens \in Nat /\ tokens <= MaxTokens
    BY DEF BucketTypeOK
  <1>2. (clock - lastRefill) * Rate \in Nat  BY <1>1, MoreTicksMoreTokens
  <1>3. QED  BY <1>1, <1>2, TokenBucketAssumption DEF Refilled, Filled

(* The invariant says of sleepers what BucketHolds does.                   *)
LEMMA BucketInvImplies == BucketIInv => BucketHolds
  <1> SUFFICES ASSUME BucketIInv PROVE BucketHolds  OBVIOUS
  <1>0. BucketTypeOK  BY DEF BucketIInv
  <1>1. window.granted <= MaxTokens + (clock - window.from) * Rate
    <2>1. clock - window.from \in Nat /\ window.granted \in Nat  BY <1>0 DEF BucketTypeOK
    <2>2. (clock - window.from) * Rate \in Nat  BY <2>1, MoreTicksMoreTokens
    <2>3. QED  BY <1>0, <2>1, <2>2, RefilledBounds, TokenBucketAssumption DEF BucketIInv
  <1>2. ASSUME NEW r \in Requests, asker[r].want \in 1..MaxTokens, ~asker[r].overtaken,
               asker[r].wakeAt <= clock
        PROVE  asker[r].want <= Refilled
    <2>1. asker[r].wakeAt \in Nat /\ clock \in Nat /\ lastRefill \in Nat /\ tokens \in Nat
      BY <1>0 DEF BucketTypeOK
    <2>2. WillFind(r)  BY DEF BucketIInv
    <2>3. CASE asker[r].wakeAt <= lastRefill
      BY <1>0, <1>2, <2>1, <2>2, <2>3, RefilledBounds, TokenBucketAssumption DEF WillFind
    <2>4. CASE lastRefill < asker[r].wakeAt
      <3>1. /\ asker[r].wakeAt - lastRefill \in Nat /\ clock - lastRefill \in Nat
            /\ asker[r].wakeAt - lastRefill <= clock - lastRefill
        BY <1>2, <2>1, <2>4
      <3>2. (asker[r].wakeAt - lastRefill) * Rate <= (clock - lastRefill) * Rate
        BY <3>1, MoreTicksMoreTokens
      <3>3. (asker[r].wakeAt - lastRefill) * Rate \in Nat /\ (clock - lastRefill) * Rate \in Nat
        BY <3>1, MoreTicksMoreTokens
      <3>4. asker[r].want <= tokens + (asker[r].wakeAt - lastRefill) * Rate
        BY <1>2, <2>1, <2>2, <2>4 DEF WillFind
      <3>5. QED  BY <1>0, <1>2, <2>1, <3>2, <3>3, <3>4, RefilledBounds, TokenBucketAssumption
    <2>5. QED  BY <2>1, <2>3, <2>4
  <1>3. QED  BY <1>1, <1>2 DEF BucketHolds

LEMMA BucketInitial == BucketInit => BucketIInv
  <1> SUFFICES ASSUME BucketInit PROVE BucketIInv  OBVIOUS
  <1>1. BucketTypeOK
    BY TokenBucketAssumption DEF BucketInit, BucketTypeOK, NotAsking, Asker
  <1>2. (clock - window.from) * Rate \in Nat
    BY TokenBucketAssumption, MoreTicksMoreTokens DEF BucketInit
  <1>3. QED
    BY <1>1, <1>2, RefilledBounds, TokenBucketAssumption
       DEF BucketIInv, BucketInit, WillFind, NotAsking, Asker

(* Time passes, and nothing else.                                          *)
LEMMA TickStep ==
    ASSUME BucketIInv, Tick
    PROVE  BucketIInv'
  <1>0. BucketTypeOK  BY DEF BucketIInv
  <1>1. BucketTypeOK'
    <2>1. clock \in 0..MaxClock /\ clock < MaxClock /\ clock' = clock + 1 /\ MaxClock \in Nat
      BY <1>0, TokenBucketAssumption DEF BucketTypeOK, Tick
    <2>2. clock' \in 0..MaxClock /\ 0..clock \subseteq 0..clock'  BY <2>1
    <2>3. QED  BY <1>0, <2>2 DEF BucketTypeOK, Tick
  <1>2. /\ clock - lastRefill \in Nat /\ clock - window.from \in Nat /\ tokens \in Nat
        /\ window.granted \in Nat /\ clock' = clock + 1
        /\ clock' - lastRefill = (clock - lastRefill) + 1
        /\ clock' - window.from = (clock - window.from) + 1
    BY <1>0 DEF BucketTypeOK, Tick
  <1>3. /\ (clock' - lastRefill) * Rate = (clock - lastRefill) * Rate + Rate
        /\ (clock' - window.from) * Rate = (clock - window.from) * Rate + Rate
        /\ (clock - lastRefill) * Rate \in Nat /\ (clock - window.from) * Rate \in Nat
    <2>1. 1 * Rate = Rate  BY TokenBucketAssumption
    <2>2. /\ ((clock - lastRefill) + 1) * Rate = (clock - lastRefill) * Rate + 1 * Rate
          /\ ((clock - window.from) + 1) * Rate = (clock - window.from) * Rate + 1 * Rate
          /\ (clock - lastRefill) * Rate \in Nat /\ (clock - window.from) * Rate \in Nat
      <3>1. 1 \in Nat  OBVIOUS
      <3>2. QED  BY <1>2, <3>1, MoreTicksMoreTokens
    <2>3. QED  BY <1>2, <2>1, <2>2
  <1>4. Refilled' <= Refilled + Rate
    BY <1>0, <1>2, <1>3, TokenBucketAssumption DEF Refilled, Filled, Tick
  <1>5. Refilled' \in Nat /\ Refilled \in Nat
    BY <1>0, <1>2, <1>3, TokenBucketAssumption DEF Refilled, Filled, Tick
  <1>6. (window.granted + Refilled <= MaxTokens + (clock - window.from) * Rate)'
    BY <1>2, <1>3, <1>4, <1>5, TokenBucketAssumption DEF BucketIInv, Tick
  <1>7. ASSUME NEW r \in Requests PROVE WillFind(r)'
    BY DEF BucketIInv, WillFind, Tick
  <1>8. QED  BY <1>1, <1>6, <1>7 DEF BucketIInv

LEMMA OpenWindowStep ==
    ASSUME BucketIInv, OpenWindow
    PROVE  BucketIInv'
  <1>0. BucketTypeOK  BY DEF BucketIInv
  <1>1. BucketTypeOK'  BY <1>0 DEF BucketTypeOK, OpenWindow
  <1>2. (window.granted + Refilled <= MaxTokens + (clock - window.from) * Rate)'
    <2>1. Refilled' = Refilled  BY DEF Refilled, OpenWindow
    <2>2. window'.granted = 0 /\ (clock - window.from)' = 0
      BY <1>0 DEF BucketTypeOK, OpenWindow
    <2>3. 0 * Rate = 0  BY TokenBucketAssumption
    <2>4. QED  BY <1>0, <2>1, <2>2, <2>3, RefilledBounds, TokenBucketAssumption
  <1>3. ASSUME NEW r \in Requests PROVE WillFind(r)'
    BY <1>3 DEF BucketIInv, WillFind, OpenWindow
  <1>4. QED  BY <1>1, <1>2, <1>3 DEF BucketIInv

(* A try refills the bucket: who sleeps will find no less in it than was   *)
(* promised.                                                               *)
LEMMA RefillKeepsPromises ==
    ASSUME BucketIInv, NEW r \in Requests,
           asker[r].want \in 1..MaxTokens, ~asker[r].overtaken
    PROVE  IF asker[r].wakeAt <= clock THEN asker[r].want <= Refilled
           ELSE asker[r].want <= Refilled + (asker[r].wakeAt - clock) * Rate
  <1>0. BucketTypeOK  BY DEF BucketIInv
  <1>1. asker[r].wakeAt \in Nat /\ clock \in Nat /\ lastRefill \in Nat /\ tokens \in Nat
        /\ lastRefill <= clock
    BY <1>0 DEF BucketTypeOK
  <1>2. CASE asker[r].wakeAt <= clock
    BY <1>2, BucketInvImplies DEF BucketHolds
  <1>3. CASE clock < asker[r].wakeAt
    <2>1. /\ asker[r].wakeAt - clock \in Nat /\ clock - lastRefill \in Nat
          /\ asker[r].wakeAt - lastRefill = (clock - lastRefill) + (asker[r].wakeAt - clock)
      BY <1>1, <1>3
    <2>2. /\ (asker[r].wakeAt - lastRefill) * Rate
                = (clock - lastRefill) * Rate + (asker[r].wakeAt - clock) * Rate
          /\ (clock - lastRefill) * Rate \in Nat /\ (asker[r].wakeAt - clock) * Rate \in Nat
      BY <2>1, MoreTicksMoreTokens
    <2>3. asker[r].want <= tokens + (asker[r].wakeAt - lastRefill) * Rate
      BY <1>1, <1>3 DEF BucketIInv, WillFind
    <2>4. QED  BY <1>0, <1>1, <1>3, <2>2, <2>3, RefilledBounds, TokenBucketAssumption
  <1>4. QED  BY <1>1, <1>2, <1>3

LEMMA TriesStep ==
    ASSUME BucketIInv, NEW r \in Requests, NEW w \in Weights, Tries(r, w)
    PROVE  BucketIInv'
  <1>0. BucketTypeOK  BY DEF BucketIInv
  <1>1. /\ w \in Nat /\ Refilled \in 0..MaxTokens /\ clock \in Nat
        /\ window.granted \in Nat /\ clock - window.from \in Nat
        /\ lastRefill' = clock /\ clock' = clock /\ clock \in 0..MaxClock
    BY <1>0, TokenBucketAssumption, RefilledBounds DEF BucketTypeOK, Tries
  <1>2. (clock - window.from) * Rate \in Nat  BY <1>1, MoreTicksMoreTokens
  <1>3. tokens' \in 0..MaxTokens => Refilled' = tokens'
    <2>1. (clock' - lastRefill') * Rate = 0  BY <1>1, TokenBucketAssumption
    <2>2. QED  BY <2>1, TokenBucketAssumption DEF Refilled, Filled
  <1>4. CASE Granted(r, w)
    <2>1. tokens' = Refilled - w /\ tokens' \in 0..MaxTokens
          /\ window'.granted = window.granted + w /\ window'.from = window.from
      BY <1>0, <1>1, <1>4, TokenBucketAssumption DEF Granted, BucketTypeOK
    <2>2. BucketTypeOK'
      <3>1. window' \in [from : 0..clock', granted : Nat]
        BY <1>0, <1>1, <1>4 DEF Granted, BucketTypeOK
      <3>2. asker' \in [Requests -> [want : Weights \cup {0}, wakeAt : Nat, overtaken : BOOLEAN]]
        BY <1>0, <1>1, <1>4 DEF Granted, BucketTypeOK, NotAsking, Asker
      <3>3. QED  BY <1>1, <2>1, <3>1, <3>2 DEF BucketTypeOK
    <2>3. (window.granted + Refilled <= MaxTokens + (clock - window.from) * Rate)'
      BY <1>1, <1>2, <1>3, <2>1, TokenBucketAssumption DEF BucketIInv
    <2>4. ASSUME NEW q \in Requests PROVE WillFind(q)'
      <3>1. CASE q = r
        BY <1>0, <1>4, <3>1 DEF Granted, BucketTypeOK, WillFind, NotAsking, Asker
      <3>2. CASE q # r
        <4>1. asker'[q].want = asker[q].want /\ asker'[q].wakeAt = asker[q].wakeAt
              /\ asker'[q].overtaken = (asker[q].want > 0 /\ (asker[q].overtaken \/ w > 0))
          BY <1>0, <1>4, <3>2 DEF Granted, BucketTypeOK
        <4>2. ASSUME asker[q].want \in 1..MaxTokens, ~asker'[q].overtaken
              PROVE  ~asker[q].overtaken /\ w = 0
          <5>1. asker[q].want > 0  BY <4>2, TokenBucketAssumption
          <5>2. ~(asker[q].overtaken \/ w > 0)  BY <4>1, <4>2, <5>1, Zenon
          <5>3. QED  BY <1>1, <5>2
        <4>3. QED  BY <1>1, <2>1, <4>1, <4>2, RefillKeepsPromises DEF WillFind
      <3>3. QED  BY <3>1, <3>2
    <2>5. QED  BY <2>2, <2>3, <2>4 DEF BucketIInv
  <1>5. CASE Denied(r, w)
    <2>1. PICK n \in 1..w : /\ TicksFor(w - Refilled, n)
                            /\ asker' = [asker EXCEPT ![r] = Asker(w, clock + n, FALSE)]
      BY <1>5 DEF Denied
    <2>2. tokens' = Refilled /\ tokens' \in 0..MaxTokens /\ window' = window /\ w > Refilled
      BY <1>1, <1>5 DEF Denied
    <2>3. n \in Nat /\ n > 0  BY <1>1, <2>1
    <2>4. BucketTypeOK'
      <3>1. asker' \in [Requests -> [want : Weights \cup {0}, wakeAt : Nat, overtaken : BOOLEAN]]
        <4>1. Asker(w, clock + n, FALSE) \in [want : Weights \cup {0}, wakeAt : Nat, overtaken : BOOLEAN]
          BY <1>1, <2>3 DEF Asker
        <4>2. QED  BY <1>0, <2>1, <4>1 DEF BucketTypeOK
      <3>2. QED  BY <1>0, <1>1, <2>2, <3>1 DEF BucketTypeOK
    <2>5. (window.granted + Refilled <= MaxTokens + (clock - window.from) * Rate)'
      BY <1>1, <1>3, <2>2 DEF BucketIInv
    <2>6. ASSUME NEW q \in Requests PROVE WillFind(q)'
      <3>1. CASE q = r
        <4>1. asker'[q] = Asker(w, clock + n, FALSE)
          BY <1>0, <2>1, <3>1 DEF BucketTypeOK
        <4>2. asker'[q].want = w /\ asker'[q].wakeAt = clock + n  BY <4>1 DEF Asker
        <4>3. n * Rate \in Nat /\ w - Refilled <= n * Rate /\ asker'[q].wakeAt - lastRefill' = n
          <5>1. n * Rate \in Nat  BY <2>3, MoreTicksMoreTokens
          <5>2. w - Refilled <= n * Rate  BY <2>1, Zenon DEF TicksFor
          <5>3. QED  BY <1>1, <2>3, <4>2, <5>1, <5>2
        <4>4. w <= Refilled + n * Rate /\ ~(asker'[q].wakeAt <= lastRefill')
          BY <1>1, <2>3, <4>2, <4>3
        <4>5. QED  BY <2>2, <4>2, <4>3, <4>4 DEF WillFind
      <3>2. CASE q # r
        <4>1. asker'[q] = asker[q]  BY <2>1, <3>2, <1>0 DEF BucketTypeOK
        <4>2. QED  BY <1>1, <2>2, <4>1, RefillKeepsPromises DEF WillFind
      <3>3. QED  BY <3>1, <3>2
    <2>7. QED  BY <2>4, <2>5, <2>6 DEF BucketIInv
  <1>6. QED  BY <1>4, <1>5 DEF Tries

(* The limiter's two promises, for any bucket, rate, tasks and weights: no *)
(* window grants more than a full bucket beyond its refill, and a sleeper  *)
(* that nobody overtook finds its tokens.                                  *)
THEOREM LimiterKeepsPromises == BucketSpec => []BucketHolds
  <1>1. BucketIInv /\ [BucketNext]_bucketVars => BucketIInv'
    <2> SUFFICES ASSUME BucketIInv, [BucketNext]_bucketVars PROVE BucketIInv'  OBVIOUS
    <2>1. CASE Tick  BY <2>1, TickStep
    <2>2. CASE OpenWindow  BY <2>2, OpenWindowStep
    <2>3. CASE \E r \in Requests, w \in Weights : Tries(r, w)  BY <2>3, TriesStep
    <2>4. CASE UNCHANGED bucketVars
      BY <2>4 DEF bucketVars, BucketIInv, BucketTypeOK, WillFind, Refilled
    <2>5. QED  BY <2>1, <2>2, <2>3, <2>4 DEF BucketNext
  <1>2. QED  BY BucketInitial, BucketInvImplies, <1>1, PTL DEF BucketSpec

-----------------------------------------------------------------------------
(* Orders after a crash                                                    *)

\* an order that was ever heard of has been placed
Placed == {o \in RecOrders : market[o] # "new"}
AllPlaced == live \cup saved \cup unrecorded \cup recon.ours \cup recon.theirs \subseteq Placed

\* what is saved and open is live, unless the process is down
LiveHoldsSaved == IF alive THEN Open \cap saved \subseteq live ELSE live = {}

\* what the exchange answered, and what was placed since, is all that is open
AnswerIsComplete ==
    recon.at = "fetched" => Open \cap recon.asked \subseteq recon.theirs \cup recon.fresh

RecIInv ==
    /\ RecTypeOK /\ AllPlaced /\ LiveHoldsSaved /\ AnswerIsComplete
    /\ OrdersRecovered

LEMMA TradingStep ==
    ASSUME RecIInv, NEW o \in RecOrders, Place(o) \/ Record(o) \/ Over(o) \/ HearsOver(o)
    PROVE  RecIInv'
  <1>0. RecTypeOK /\ AllPlaced /\ LiveHoldsSaved /\ AnswerIsComplete /\ OrdersRecovered
    BY DEF RecIInv
  <1>1. CASE Place(o)
    <2>1. market' = [market EXCEPT ![o] = "open"] /\ Open' = Open \cup {o} /\ Placed' = Placed \cup {o}
          /\ o \notin Placed
      BY <1>0, <1>1 DEF Place, RecTypeOK, Open, Placed
    <2>2. /\ recon'.at = recon.at /\ recon'.asked = recon.asked /\ recon'.ours = recon.ours
          /\ recon'.theirs = recon.theirs
          /\ recon'.fresh = IF recon.at = "fetched" THEN recon.fresh \cup {o} ELSE recon.fresh
      BY <1>0, <1>1 DEF Place, RecTypeOK
    <2>3. RecTypeOK'  BY <1>0, <1>1 DEF Place, RecTypeOK
    <2>4. AllPlaced'  BY <1>0, <1>1, <2>1, <2>2 DEF Place, AllPlaced
    <2>5. LiveHoldsSaved'  BY <1>0, <1>1, <2>1 DEF Place, LiveHoldsSaved, AllPlaced
    <2>6. AnswerIsComplete'  BY <1>0, <2>1, <2>2 DEF AnswerIsComplete
    <2>7. OrdersRecovered'  BY <1>0, <1>1, <2>1 DEF Place, OrdersRecovered, RecTypeOK
    <2>8. QED  BY <2>3, <2>4, <2>5, <2>6, <2>7 DEF RecIInv
  <1>2. CASE Record(o)
    BY <1>0, <1>2 DEF Record, RecIInv, RecTypeOK, AllPlaced, Placed, LiveHoldsSaved, Open,
                      AnswerIsComplete, OrdersRecovered
  <1>3. CASE Over(o)
    <2>1. Open' = Open \ {o} /\ Placed' = Placed
      BY <1>0, <1>3 DEF Over, RecTypeOK, Open, Placed
    <2>2. RecTypeOK'  BY <1>0, <1>3 DEF Over, RecTypeOK
    <2>3. OrdersRecovered'  BY <1>0, <1>3, <2>1 DEF Over, OrdersRecovered, RecTypeOK
    <2>4. QED
      BY <1>0, <1>3, <2>1, <2>2, <2>3 DEF Over, RecIInv, AllPlaced, LiveHoldsSaved, AnswerIsComplete
  <1>4. CASE HearsOver(o)
    <2>1. o \notin Open  BY <1>4 DEF HearsOver, Open
    <2>2. Open' = Open /\ Placed' = Placed  BY <1>4 DEF HearsOver, Open, Placed
    <2>3. QED
      BY <1>0, <1>4, <2>1, <2>2 DEF HearsOver, RecIInv, RecTypeOK, AllPlaced, LiveHoldsSaved,
                      AnswerIsComplete, OrdersRecovered
  <1>5. QED  BY <1>1, <1>2, <1>3, <1>4

LEMMA KeepingStep ==
    ASSUME RecIInv, Snapshot \/ ReconReads \/ ReconFetches \/ ReconRaises \/ ReconSaves
    PROVE  RecIInv'
  <1>0. RecTypeOK /\ AllPlaced /\ LiveHoldsSaved /\ AnswerIsComplete /\ OrdersRecovered
    BY DEF RecIInv
  <1>a. market' = market /\ Open' = Open /\ Placed' = Placed
    BY DEF Snapshot, ReconReads, ReconFetches, ReconRaises, ReconSaves, ReconKeeps, Open, Placed
  <1>1. CASE Snapshot
    BY <1>0, <1>1, <1>a DEF Snapshot, RecIInv, RecTypeOK, AllPlaced, LiveHoldsSaved,
                      AnswerIsComplete, OrdersRecovered
  <1>2. CASE ReconReads
    <2>1. PICK scope \in Scopes : recon' = Recon("read", scope, saved, {}, {})
      BY <1>2 DEF ReconReads
    <2>2. recon' \in [at : {"none", "read", "fetched"}, asked : Scopes, ours : SUBSET RecOrders,
                      theirs : SUBSET RecOrders, fresh : SUBSET RecOrders]
          /\ recon'.at = "read" /\ recon'.ours = saved /\ recon'.theirs = {}
      BY <1>0, <2>1 DEF Recon, RecTypeOK
    <2>3. QED
      BY <1>0, <1>2, <1>a, <2>2 DEF ReconReads, RecIInv, RecTypeOK, AllPlaced, LiveHoldsSaved,
                      AnswerIsComplete, OrdersRecovered
  <1>3. CASE ReconFetches
    <2>1. /\ recon' = [recon EXCEPT !.at = "fetched", !.theirs = Open \cap recon.asked]
          /\ stale' = [orders |-> recon.ours \ (Open \cap recon.asked), asked |-> recon.asked]
      BY <1>3 DEF ReconFetches
    <2>2. RecTypeOK'
      <3>1. Open \cap recon.asked \in SUBSET RecOrders  BY DEF Open
      <3>2. recon'  \in [at : {"none", "read", "fetched"}, asked : Scopes, ours : SUBSET RecOrders,
                      theirs : SUBSET RecOrders, fresh : SUBSET RecOrders]
        BY <1>0, <2>1, <3>1 DEF RecTypeOK
      <3>3. stale' \in [orders : SUBSET RecOrders, asked : Scopes]
        BY <1>0, <2>1 DEF RecTypeOK
      <3>4. QED  BY <1>0, <1>3, <3>2, <3>3 DEF ReconFetches, RecTypeOK
    <2>3. /\ recon'.ours = recon.ours /\ recon'.asked = recon.asked
          /\ recon'.theirs = Open \cap recon.asked
      BY <1>0, <2>1 DEF RecTypeOK
    <2>4. \A o \in stale'.orders \cap stale'.asked : market[o] = "over"
      <3>1. SUFFICES ASSUME NEW o \in recon.ours, o \in recon.asked, o \notin Open
                     PROVE  market[o] = "over"
        BY <2>1
      <3>2. QED  BY <1>0, <3>1 DEF AllPlaced, Placed, Open, RecTypeOK
    <2>5. QED
      BY <1>0, <1>3, <1>a, <2>2, <2>3, <2>4
         DEF ReconFetches, RecIInv, AllPlaced, Placed, Open, LiveHoldsSaved, AnswerIsComplete,
             OrdersRecovered
  <1>4. CASE ReconRaises
    <2>1. recon' = NoRecon /\ stale' = [orders |-> {}, asked |-> recon.asked]
      BY <1>4 DEF ReconRaises
    <2>2. recon' \in [at : {"none", "read", "fetched"}, asked : Scopes, ours : SUBSET RecOrders,
                      theirs : SUBSET RecOrders, fresh : SUBSET RecOrders]
          /\ recon'.at = "none" /\ recon'.ours = {} /\ recon'.theirs = {}
      BY <2>1 DEF NoRecon, Recon, Scopes
    <2>3. stale' \in [orders : SUBSET RecOrders, asked : Scopes] /\ stale'.orders = {}
      BY <1>0, <2>1 DEF RecTypeOK
    <2>4. QED
      BY <1>0, <1>4, <1>a, <2>2, <2>3 DEF ReconRaises, RecIInv, RecTypeOK, AllPlaced, LiveHoldsSaved,
                      AnswerIsComplete, OrdersRecovered
  <1>5. CASE ReconSaves
    <2>1. /\ live' = recon.theirs /\ saved' = recon.theirs
          /\ unheld' = (unheld \cup recon.fresh \cup (RecOrders \ recon.asked)) \ recon.theirs
          /\ recon' = NoRecon /\ recon.at = "fetched" /\ alive
          /\ UNCHANGED <<market, alive, unrecorded, stale>>
      BY <1>5 DEF ReconSaves, ReconKeeps
    <2>2. recon' \in [at : {"none", "read", "fetched"}, asked : Scopes, ours : SUBSET RecOrders,
                      theirs : SUBSET RecOrders, fresh : SUBSET RecOrders]
          /\ recon'.at = "none" /\ recon'.ours = {} /\ recon'.theirs = {}
      BY <2>1 DEF NoRecon, Recon, Scopes
    <2>3. RecTypeOK'  BY <1>0, <2>1, <2>2 DEF RecTypeOK
    <2>4. recon.theirs \subseteq Placed  BY <1>0 DEF AllPlaced
    <2>5. Open \subseteq RecOrders  BY DEF Open
    <2>6. QED
      BY <1>0, <1>a, <2>1, <2>2, <2>3, <2>4, <2>5
         DEF RecIInv, AllPlaced, LiveHoldsSaved, AnswerIsComplete, OrdersRecovered
  <1>6. QED  BY <1>1, <1>2, <1>3, <1>4, <1>5

LEMMA RestartStep ==
    ASSUME RecIInv, ProcessCrashes \/ Reconstruct
    PROVE  RecIInv'
  <1>0. RecTypeOK /\ AllPlaced /\ LiveHoldsSaved /\ AnswerIsComplete /\ OrdersRecovered
    BY DEF RecIInv
  <1>a. Open' = Open /\ Placed' = Placed  BY DEF ProcessCrashes, Reconstruct, Open, Placed
  <1>1. CASE ProcessCrashes
    <2>1. recon' \in [at : {"none", "read", "fetched"}, asked : Scopes, ours : SUBSET RecOrders,
                      theirs : SUBSET RecOrders, fresh : SUBSET RecOrders]
          /\ recon'.at = "none" /\ recon'.ours = {} /\ recon'.theirs = {}
      BY <1>1 DEF ProcessCrashes, NoRecon, Recon, Scopes
    <2>2. QED
      BY <1>0, <1>1, <1>a, <2>1 DEF ProcessCrashes, RecIInv, RecTypeOK, AllPlaced, LiveHoldsSaved,
                      AnswerIsComplete, OrdersRecovered
  <1>2. CASE Reconstruct
    BY <1>0, <1>2, <1>a DEF Reconstruct, RecIInv, RecTypeOK, AllPlaced, LiveHoldsSaved,
                      AnswerIsComplete, OrdersRecovered
  <1>3. QED  BY <1>1, <1>2

(* What a restart finds in the latest snapshot, and what a report of stale *)
(* orders is worth, for any orders, crashes and reconciliations.           *)
THEOREM SnapshotsAccountForOrders == RecSpec => []OrdersRecovered
  <1>1. RecInit => RecIInv
    <2> SUFFICES ASSUME RecInit PROVE RecIInv  OBVIOUS
    <2>1. recon \in [at : {"none", "read", "fetched"}, asked : Scopes, ours : SUBSET RecOrders,
                     theirs : SUBSET RecOrders, fresh : SUBSET RecOrders]
          /\ recon.at = "none" /\ recon.ours = {} /\ recon.theirs = {}
      BY DEF RecInit, NoRecon, Recon, Scopes
    <2>2. stale \in [orders : SUBSET RecOrders, asked : Scopes] /\ stale.orders = {}
      BY DEF RecInit, Scopes
    <2>3. Open = {}  BY DEF RecInit, Open
    <2>4. QED
      BY <2>1, <2>2, <2>3 DEF RecInit, RecIInv, RecTypeOK, AllPlaced, LiveHoldsSaved,
                      AnswerIsComplete, OrdersRecovered
  <1>2. RecIInv /\ [RecNext]_recVars => RecIInv'
    <2> SUFFICES ASSUME RecIInv, [RecNext]_recVars PROVE RecIInv'  OBVIOUS
    <2>1. CASE \E o \in RecOrders : Place(o) \/ Record(o) \/ Over(o) \/ HearsOver(o)
      BY <2>1, TradingStep
    <2>2. CASE Snapshot \/ ReconReads \/ ReconFetches \/ ReconRaises \/ ReconSaves
      BY <2>2, KeepingStep
    <2>3. CASE ProcessCrashes \/ Reconstruct  BY <2>3, RestartStep
    <2>4. CASE UNCHANGED recVars
      BY <2>4 DEF recVars, RecIInv, RecTypeOK, AllPlaced, Placed, LiveHoldsSaved, Open,
                      AnswerIsComplete, OrdersRecovered
    <2>5. QED  BY <2>1, <2>2, <2>3, <2>4 DEF RecNext
  <1>3. RecIInv => OrdersRecovered  BY DEF RecIInv
  <1>4. QED  BY <1>1, <1>2, <1>3, PTL DEF RecSpec

-----------------------------------------------------------------------------
(* The stop of the engine                                                  *)

\* where a task may stand: one that submits has an order
Places == {p \in [at : {"waiting", "draining", "deciding", "submitting", "ended"},
                  item : Items, order : TradeNames \cup {NoTrade}] :
             p.at = "submitting" => p.order \in TradeNames}

\* the parts of the type the argument needs
StopTypeOK ==
    /\ stage \in Stages /\ running \in BOOLEAN
    /\ trader \in [Traders -> Places]
    /\ atExchange \in [TradeNames -> {"unused", "sent", "live", "over"}]
    /\ early \subseteq TradeNames /\ tracked \subseteq TradeNames
    /\ lateBars \in [Traders -> Nat]

(* An order answered before the flush is tracked until the flush copies    *)
(* it, then to be cancelled, and then refused, as long as it is live.      *)
EarlyOrders ==
    /\ \A o \in early : atExchange[o] \in {"live", "over"}
    /\ stage \in {"running", "feeds"} => \A o \in early : atExchange[o] = "live" => o \in tracked
    /\ stage = "flush" =>
          \A o \in early : atExchange[o] = "live" => o \in toCancel \/ o \in refused
    /\ stage \in {"pause", "disconnect", "stopped"} =>
          \A o \in early : atExchange[o] = "live" => o \in refused

(* Only a task that waits has a late bar still to take.                    *)
Tasks ==
    /\ running <=> stage = "running"
    /\ running => \A s \in Traders : lateBars[s] = 0
    /\ \A s \in Traders : trader[s] = Waiting => lateBars[s] = 0
    /\ \A s \in Traders : lateBars[s] <= 1
    /\ running => \A s \in Traders : trader[s] = Ended => s \in raised
    /\ stage \in {"disconnect", "stopped"} => \A s \in Traders : trader[s] = Ended

StopIInv == StopTypeOK /\ EarlyOrders /\ Tasks

LEMMA Standings ==
    /\ Waiting.at = "waiting" /\ Draining.at = "draining" /\ Ended.at = "ended"
    /\ Waiting \in Places /\ Draining \in Places /\ Ended \in Places
    /\ \A k \in Items :
          Standing("deciding", k, NoTrade) \in Places /\ Standing("deciding", k, NoTrade).at = "deciding"
    /\ \A k \in Items, o \in TradeNames :
          /\ Standing("submitting", k, o) \in Places /\ Standing("submitting", k, o).at = "submitting"
  BY DEF Waiting, Draining, Ended, Standing, Places, Items

(* Where a task goes on after an item.                                     *)
LEMMA GoingOn ==
    ASSUME StopIInv, NEW item \in Items
    PROVE  /\ GoesOn(item) \in Places
           /\ GoesOn(item) = Waiting => running
           /\ GoesOn(item) = Ended => ~running
           /\ LoopTop \in Places
           /\ LoopTop = Waiting => running
           /\ LoopTop = Ended => ~running
  BY Standings, Zenon DEF GoesOn, LoopTop

(* A task that moves to a place that keeps its promises.                   *)
LEMMA MovingKeepsTasks ==
    ASSUME StopIInv, NEW s \in Traders, NEW to \in Places, Moves(s, to),
           trader[s].at # "ended",
           to = Waiting => running, to = Ended => ~running \/ s \in raised',
           raised \subseteq raised',
           UNCHANGED <<stage, running, lateBars>>
    PROVE  Tasks' /\ trader' \in [Traders -> Places]
  <1>1. trader' = [trader EXCEPT ![s] = to] /\ trader \in [Traders -> Places]
    BY DEF Moves, StopIInv, StopTypeOK
  <1>2. stage \notin {"disconnect", "stopped"}
    BY Standings DEF StopIInv, Tasks
  <1>3. ASSUME NEW t \in Traders
        PROVE  /\ trader'[t] = Waiting => lateBars[t] = 0
               /\ running /\ trader'[t] = Ended => t \in raised'
    <2>1. CASE t = s  BY <1>1, <2>1 DEF StopIInv, Tasks
    <2>2. CASE t # s  BY <1>1, <2>2 DEF StopIInv, Tasks
    <2>3. QED  BY <2>1, <2>2
  <1>4. QED  BY <1>1, <1>2, <1>3 DEF StopIInv, Tasks

LEMMA TakingStep ==
    ASSUME StopIInv, NEW s \in Traders, TakeBar(s) \/ TakeTick(s)
    PROVE  StopIInv'
  <1>1. StopTypeOK /\ EarlyOrders /\ Tasks  BY DEF StopIInv
  <1>2. NoTrade \in TradeNames \cup {NoTrade} /\ "bar" \in Items /\ "tick" \in Items  BY DEF Items
  <1>3. UNCHANGED <<stage, running, toCancel, refused, tracked, atExchange, early, raised>>
    BY DEF TakeBar, TakeTick, TakeItem, stopVars
  <1>4. EarlyOrders'  BY <1>1, <1>3 DEF EarlyOrders
  <1>5. CASE TakeTick(s)
    <2>1. Moves(s, Standing("deciding", "tick", NoTrade)) /\ trader[s].at # "ended" /\ lateBars' = lateBars
      BY <1>5, Standings DEF TakeTick, TakeItem
    <2>2. Standing("deciding", "tick", NoTrade) \in Places
          /\ Standing("deciding", "tick", NoTrade) \notin {Waiting, Ended}
      BY <1>2, Standings
    <2>3. Tasks' /\ trader' \in [Traders -> Places]
      BY <1>3, <2>1, <2>2, MovingKeepsTasks
    <2>4. QED  BY <1>1, <1>3, <1>4, <2>1, <2>3 DEF StopIInv, StopTypeOK
  <1>6. CASE TakeBar(s)
    <2>1. trader' = [trader EXCEPT ![s] = Standing("deciding", "bar", NoTrade)] /\ trader[s] = Waiting
          /\ lateBars' = IF running THEN lateBars ELSE [lateBars EXCEPT ![s] = @ + 1]
      BY <1>6 DEF TakeBar, TakeItem, Moves
    <2>2. Standing("deciding", "bar", NoTrade) \in Places
          /\ Standing("deciding", "bar", NoTrade) \notin {Waiting, Ended}
      BY <1>2, Standings
    <2>3. lateBars[s] = 0 /\ lateBars \in [Traders -> Nat] /\ trader \in [Traders -> Places]
      BY <1>1, <2>1 DEF Tasks, StopTypeOK
    <2>4. lateBars' \in [Traders -> Nat] /\ trader' \in [Traders -> Places]
      BY <2>1, <2>2, <2>3
    <2>5. ASSUME NEW t \in Traders
          PROVE  /\ trader'[t] = Waiting => lateBars'[t] = 0
                 /\ lateBars'[t] <= 1
                 /\ running => lateBars'[t] = 0
                 /\ running /\ trader'[t] = Ended => t \in raised
      <3>1. CASE t = s  BY <1>1, <2>1, <2>2, <2>3, <3>1 DEF Tasks
      <3>2. CASE t # s  BY <1>1, <2>1, <2>3, <3>2 DEF Tasks
      <3>3. QED  BY <3>1, <3>2
    <2>6. stage \notin {"disconnect", "stopped"}
      BY <1>1, <2>1, Standings DEF Tasks
    <2>7. Tasks'  BY <1>1, <1>3, <2>5, <2>6 DEF Tasks
    <2>8. QED  BY <1>1, <1>3, <1>4, <2>4, <2>7 DEF StopIInv, StopTypeOK
  <1>7. QED  BY <1>5, <1>6

(* The steps of a task that touch nothing but its own place.               *)
LEMMA MovingStep ==
    ASSUME StopIInv, NEW s \in Traders,
           TimesOut(s) \/ Drained(s) \/ NoOrderSent(s) \/ TickRaises(s) \/ SubmitLost(s)
    PROVE  StopIInv'
  <1>1. StopTypeOK /\ EarlyOrders /\ Tasks  BY DEF StopIInv
  <1>2. /\ UNCHANGED <<stage, running, toCancel, refused, tracked, atExchange, early, lateBars>>
        /\ raised \subseteq raised'
    BY DEF TimesOut, Drained, NoOrderSent, TickRaises, SubmitLost, OnlyTraders, stopVars
  <1>3. EarlyOrders'  BY <1>1, <1>2 DEF EarlyOrders
  <1>4. trader[s] \in Places /\ trader[s].item \in Items  BY <1>1 DEF StopTypeOK, Places
  <1>5. Tasks' /\ trader' \in [Traders -> Places]
    <2>1. CASE TimesOut(s)
      <3>1. Moves(s, Draining) /\ trader[s].at # "ended" /\ Draining \notin {Waiting, Ended}
        BY <2>1, Standings DEF TimesOut
      <3>2. QED  BY <1>2, <3>1, Standings, MovingKeepsTasks
    <2>2. CASE Drained(s)
      <3>1. Moves(s, LoopTop) /\ trader[s].at # "ended"  BY <2>2, Standings DEF Drained
      <3>2. QED  BY <1>2, <1>4, <3>1, GoingOn, MovingKeepsTasks
    <2>3. CASE NoOrderSent(s) \/ SubmitLost(s)
      <3>1. Moves(s, GoesOn(trader[s].item)) /\ trader[s].at # "ended"
        BY <2>3 DEF NoOrderSent, SubmitLost
      <3>2. QED  BY <1>2, <1>4, <3>1, GoingOn, MovingKeepsTasks
    <2>4. CASE TickRaises(s)
      <3>1. Moves(s, Ended) /\ trader[s].at # "ended" /\ s \in raised' /\ Ended # Waiting
        BY <2>4, Standings DEF TickRaises
      <3>2. QED  BY <1>2, <3>1, Standings, MovingKeepsTasks
    <2>5. QED  BY <2>1, <2>2, <2>3, <2>4
  <1>6. QED  BY <1>1, <1>2, <1>3, <1>5 DEF StopIInv, StopTypeOK

LEMMA SendingStep ==
    ASSUME StopIInv, NEW s \in Traders, (\E o \in TradeNames : Send(s, o)) \/ SubmitAnswered(s)
    PROVE  StopIInv'
  <1>1. StopTypeOK /\ EarlyOrders /\ Tasks  BY DEF StopIInv
  <1>2. trader[s] \in Places /\ trader[s].item \in Items  BY <1>1 DEF StopTypeOK, Places
  <1>3. ASSUME NEW o \in TradeNames, Send(s, o) PROVE StopIInv'
    <2>1. /\ Moves(s, Standing("submitting", trader[s].item, o)) /\ trader[s].at # "ended"
          /\ atExchange[o] = "unused" /\ atExchange' = [atExchange EXCEPT ![o] = "sent"]
          /\ UNCHANGED <<stage, running, toCancel, refused, tracked, early, raised, lateBars>>
      BY <1>3 DEF Send, stopVars
    <2>2. Standing("submitting", trader[s].item, o) \in Places
          /\ Standing("submitting", trader[s].item, o) \notin {Waiting, Ended}
      BY <1>2, Standings
    <2>3. Tasks' /\ trader' \in [Traders -> Places]  BY <2>1, <2>2, MovingKeepsTasks
    <2>4. StopTypeOK'  BY <1>1, <2>1, <2>3 DEF StopTypeOK
    <2>5. EarlyOrders'
      <3>1. ASSUME NEW q \in early PROVE atExchange'[q] = atExchange[q]
        BY <1>1, <2>1, <3>1 DEF EarlyOrders, StopTypeOK
      <3>2. QED  BY <1>1, <2>1, <3>1 DEF EarlyOrders
    <2>6. QED  BY <2>3, <2>4, <2>5 DEF StopIInv
  <1>4. CASE SubmitAnswered(s)
    <2>1. /\ Moves(s, GoesOn(trader[s].item)) /\ trader[s].at # "ended"
          /\ atExchange[trader[s].order] \in {"live", "over"}
          /\ tracked' = tracked \cup {trader[s].order}
          /\ early' = IF stage \in {"running", "feeds"} THEN early \cup {trader[s].order} ELSE early
          /\ UNCHANGED <<stage, running, toCancel, refused, atExchange, raised, lateBars>>
      BY <1>4 DEF SubmitAnswered, stopVars
    <2>2. Tasks' /\ trader' \in [Traders -> Places]
      BY <1>2, <2>1, GoingOn, MovingKeepsTasks
    <2>3. EarlyOrders'  BY <1>1, <2>1 DEF EarlyOrders
    <2>4. QED
      <3>1. trader[s].order \in TradeNames
        BY <1>2, <1>4 DEF SubmitAnswered, Places
      <3>2. QED  BY <1>1, <2>1, <2>2, <2>3, <3>1 DEF StopIInv, StopTypeOK
  <1>5. QED  BY <1>3, <1>4

(* What the exchange and the poller do to early orders.                    *)
LEMMA EngineMarketStep ==
    ASSUME StopIInv, NEW o \in TradeNames, ExchangeActs(o) \/ PollerDrops(o)
    PROVE  StopIInv'
  <1>1. StopTypeOK /\ EarlyOrders /\ Tasks  BY DEF StopIInv
  <1>2. CASE ExchangeActs(o)
    <2>1. UNCHANGED <<stage, running, toCancel, refused, trader, tracked, early, raised, lateBars>>
      BY <1>2 DEF ExchangeActs, stopVars
    <2>2. atExchange' \in [TradeNames -> {"unused", "sent", "live", "over"}]
      BY <1>1, <1>2 DEF ExchangeActs, StopTypeOK
    <2>3. ASSUME NEW q \in early
          PROVE  atExchange'[q] \in {"live", "over"} /\ (atExchange'[q] = "live" => atExchange[q] = "live")
      BY <1>1, <1>2, <2>3 DEF ExchangeActs, EarlyOrders, StopTypeOK
    <2>4. QED  BY <1>1, <2>1, <2>2, <2>3 DEF StopIInv, StopTypeOK, EarlyOrders, Tasks
  <1>3. CASE PollerDrops(o)
    BY <1>1, <1>3 DEF PollerDrops, StopIInv, StopTypeOK, EarlyOrders, Tasks, stopVars
  <1>4. QED  BY <1>2, <1>3

LEMMA StoppingStep ==
    ASSUME StopIInv, SignalHandled \/ StopSteps
    PROVE  StopIInv'
  <1>1. StopTypeOK /\ EarlyOrders /\ Tasks  BY DEF StopIInv
  <1>2. CASE SignalHandled
    BY <1>1, <1>2 DEF SignalHandled, NotTraders, StopIInv, StopTypeOK, EarlyOrders, Tasks
  <1>3. CASE StopBegins
    BY <1>1, <1>3 DEF StopBegins, NotTraders, StopIInv, StopTypeOK, EarlyOrders, Tasks, Stages
  <1>4. CASE FlushBegins
    BY <1>1, <1>4 DEF FlushBegins, NotTraders, StopIInv, StopTypeOK, EarlyOrders, Tasks, Stages
  <1>5. CASE FlushEnds
    BY <1>1, <1>5 DEF FlushEnds, NotTraders, StopIInv, StopTypeOK, EarlyOrders, Tasks, Stages
  <1>6. CASE TasksCancelled
    <2>1. trader' \in [Traders -> Places]  BY <1>6, Standings DEF TasksCancelled
    <2>2. Ended # Waiting  BY Standings
    <2>3. QED
      BY <1>1, <1>6, <2>1, <2>2 DEF TasksCancelled, NotTraders, StopIInv, StopTypeOK, EarlyOrders, Tasks, Stages
  <1>7. CASE Disconnected
    BY <1>1, <1>7 DEF Disconnected, NotTraders, StopIInv, StopTypeOK, EarlyOrders, Tasks, Stages
  <1>8. ASSUME NEW o \in TradeNames, FlushCancels(o) PROVE StopIInv'
    <2>1. /\ stage = "flush" /\ toCancel' = toCancel \ {o}
          /\ UNCHANGED <<stage, running, trader, early, raised, lateBars>>
      BY <1>8 DEF FlushCancels, NotTraders
    <2>2. StopTypeOK'
      BY <1>1, <1>8 DEF FlushCancels, NotTraders, StopTypeOK
    <2>3. ASSUME NEW q \in early
          PROVE  /\ atExchange'[q] \in {"live", "over"}
                 /\ atExchange'[q] = "live" => q \in toCancel' \/ q \in refused'
      BY <1>1, <1>8, <2>3 DEF FlushCancels, EarlyOrders, StopTypeOK
    <2>4. QED  BY <1>1, <2>1, <2>2, <2>3 DEF StopIInv, EarlyOrders, Tasks
  <1>9. QED  BY <1>2, <1>3, <1>4, <1>5, <1>6, <1>7, <1>8 DEF StopSteps

(* What a stop leaves behind, for any strategies, orders, bars and ticks.  *)
THEOREM StopsAreAccounted == EngSpec => []StopAccounted
  <1>1. EngInit => StopIInv
    <2> SUFFICES ASSUME EngInit PROVE StopIInv  OBVIOUS
    <2>1. trader \in [Traders -> Places] /\ \A s \in Traders : trader[s] # Ended
      BY Standings DEF EngInit
    <2>2. QED  BY <2>1 DEF EngInit, StopIInv, StopTypeOK, EarlyOrders, Tasks, Stages
  <1>2. StopIInv /\ [EngNext]_engVars => StopIInv'
    <2> SUFFICES ASSUME StopIInv, [EngNext]_engVars PROVE StopIInv'  OBVIOUS
    <2>1. ASSUME NEW k \in Items, FeedPublishes(k) \/ BusDispatches(k) PROVE StopIInv'
      BY <2>1 DEF FeedPublishes, BusDispatches, StopIInv, StopTypeOK, EarlyOrders, Tasks, stopVars
    <2>2. ASSUME NEW s \in Traders, TraderSteps(s) PROVE StopIInv'
      BY <2>2, TakingStep, MovingStep, SendingStep DEF TraderSteps
    <2>3. ASSUME NEW o \in TradeNames, ExchangeActs(o) \/ PollerDrops(o) PROVE StopIInv'
      BY <2>3, EngineMarketStep
    <2>4. CASE SignalHandled \/ StopSteps  BY <2>4, StoppingStep
    <2>5. CASE UNCHANGED engVars
      BY <2>5 DEF engVars, stopVars, itemVars, StopIInv, StopTypeOK, EarlyOrders, Tasks
    <2>6. QED  BY <2>1, <2>2, <2>3, <2>4, <2>5 DEF EngNext
  <1>3. StopIInv => StopAccounted  BY DEF StopIInv, EarlyOrders, Tasks, StopAccounted
  <1>4. QED  BY <1>1, <1>2, <1>3, PTL DEF EngSpec

-----------------------------------------------------------------------------
(* The recovery shutdown                                                   *)

\* the calls of shutdown: 0 is the worker's, the others the main thread's
Spots == 0..Len(frames)
StepAt(x) == IF x = 0 THEN worker ELSE frames[x]
SpotOf(c) == IF c = "worker" THEN 0 ELSE Len(frames)
OwnerOf(x) == IF x = 0 THEN "worker" ELSE "main"
HasLock == {"check", "start"}

(* One call holds the lock, and none that the main thread has interrupted  *)
(* unless it is caught.                                                    *)
LockInv ==
    /\ \A x \in Spots : StepAt(x) \in HasLock => holder = OwnerOf(x)
    /\ \A x, y \in Spots : StepAt(x) \in HasLock /\ StepAt(y) \in HasLock => x = y
    /\ holder # "none" => \E x \in Spots : StepAt(x) \in HasLock
    /\ \A x \in 1..(Len(frames) - 1) : frames[x] \in HasLock => caught
    /\ caught => holder = "main" /\ At("main") = "lock" /\ process # "gone"

(* One call is past the check, and the phase is the one of its step.       *)
PastInv ==
    /\ \A x, y \in Spots : StepAt(x) \in Past /\ StepAt(y) \in Past => x = y
    /\ \A x \in Spots : /\ StepAt(x) \in {"start", "flush"} => shutPhase = "DRAINING"
                        /\ StepAt(x) = "callback" => shutPhase = "FLUSHING"
                        /\ StepAt(x) = "clean" => shutPhase = "STOPPED"
    /\ shutPhase \in {"DRAINING", "FLUSHING"} =>
          (\E x \in Spots : StepAt(x) \in Past) \/ "start" \in raisedAt

(* The callbacks run so far are those whose turn has passed.               *)
RanInv ==
    /\ shutPhase \in {"RUNNING", "DRAINING"} => ran = <<>> /\ shutLog # "clean_shutdown"
    /\ shutPhase = "FLUSHING" => Len(ran) + turn = due /\ shutLog # "clean_shutdown"
    /\ shutPhase = "STOPPED" => Len(ran) = due
    /\ \A i \in 1..Len(ran) : ran[i] = due + 1 - i

ShutIInv == ShutTypeOK /\ LockInv /\ PastInv /\ RanInv

LEMMA CallTypes ==
    ASSUME ShutTypeOK
    PROVE  /\ Len(frames) \in Nat
           /\ \A x \in Spots : StepAt(x) \in Steps \cup {"none"}
           /\ \A x \in Spots : x # 0 => StepAt(x) = frames[x] /\ frames[x] \in Steps
           /\ \A c \in Callers : SpotOf(c) \in Spots
           /\ \A c \in Callers : At(c) # "none" => At(c) = StepAt(SpotOf(c)) /\ OwnerOf(SpotOf(c)) = c
  BY DEF ShutTypeOK, Spots, StepAt, SpotOf, OwnerOf, At, Callers, Steps

(* A call that goes on.                                                    *)
LEMMA CallGoes ==
    ASSUME ShutTypeOK, NEW c \in Callers, At(c) \in Steps, NEW to \in Steps, Goes(c, to)
    PROVE  /\ Spots' = Spots /\ Len(frames') = Len(frames)
           /\ frames' \in Seq(Steps) /\ worker' \in Steps \cup {"none"}
           /\ \A x \in Spots : x = SpotOf(c) => StepAt(x)' = to
           /\ \A x \in Spots : x # SpotOf(c) => StepAt(x)' = StepAt(x)
           /\ \A x \in Spots : x # 0 /\ x # SpotOf(c) => frames'[x] = frames[x]
           /\ c # "main" => At("main")' = At("main")
           /\ c = "main" => At("main")' = to
  <1>0. frames \in Seq(Steps) /\ worker \in Steps \cup {"none"} /\ Len(frames) \in Nat
    BY DEF ShutTypeOK
  <1>1. CASE c = "worker"
    BY <1>0, <1>1 DEF Goes, Spots, StepAt, SpotOf, At
  <1>2. CASE c = "main"
    <2>1. frames # <<>> /\ Len(frames) > 0 /\ Len(frames) \in 1..Len(frames)
      BY <1>0, <1>2 DEF At, Steps
    <2>2. frames' = [frames EXCEPT ![Len(frames)] = to] /\ worker' = worker
      BY <1>2 DEF Goes
    <2>3. frames' \in Seq(Steps) /\ Len(frames') = Len(frames) /\ frames'[Len(frames)] = to
          /\ \A x \in 1..Len(frames) : x # Len(frames) => frames'[x] = frames[x]
      BY <1>0, <2>1, <2>2
    <2>4. frames' # <<>> /\ At("main")' = to  BY <2>1, <2>3 DEF At
    <2>5. SpotOf(c) = Len(frames) /\ SpotOf(c) # 0 /\ Spots' = Spots
      BY <1>2, <2>1, <2>3 DEF Spots, SpotOf
    <2>6. ASSUME NEW x \in Spots, x = SpotOf(c) PROVE StepAt(x)' = to
      <3>1. x = Len(frames) /\ x # 0  BY <2>5, <2>6
      <3>2. StepAt(x)' = frames'[x]  BY <3>1 DEF StepAt
      <3>3. QED  BY <2>3, <3>1, <3>2
    <2>7. ASSUME NEW x \in Spots, x # SpotOf(c) PROVE StepAt(x)' = StepAt(x)
      <3>1. CASE x = 0  BY <2>2, <3>1 DEF StepAt
      <3>2. CASE x # 0
        <4>1. x \in 1..Len(frames) /\ x # Len(frames)  BY <1>0, <2>5, <2>7, <3>2 DEF Spots
        <4>2. frames'[x] = frames[x]  BY <2>3, <4>1
        <4>3. QED  BY <3>2, <4>2 DEF StepAt
      <3>3. QED  BY <3>1, <3>2
    <2>8. ASSUME NEW x \in Spots, x # 0, x # SpotOf(c) PROVE frames'[x] = frames[x]
      BY <1>0, <2>3, <2>5, <2>8 DEF Spots
    <2>9. worker' \in Steps \cup {"none"}  BY <1>0, <2>2, Zenon
    <2>10. Spots' = Spots /\ Len(frames') = Len(frames) /\ frames' \in Seq(Steps)
      BY <2>3, <2>5, Zenon
    <2>11. QED  BY <1>2, <2>4, <2>6, <2>7, <2>8, <2>9, <2>10, Zenon
  <1>3. QED  BY <1>1, <1>2 DEF Callers

(* A call that returns.                                                    *)
LEMMA CallReturns ==
    ASSUME ShutTypeOK, NEW c \in Callers, At(c) \in Steps, Returns(c)
    PROVE  /\ Spots' \subseteq Spots /\ Len(frames') \in Nat /\ Len(frames') <= Len(frames)
           /\ frames' \in Seq(Steps) /\ worker' \in Steps \cup {"none"}
           /\ \A x \in Spots' : (StepAt(x)' = StepAt(x) /\ x # SpotOf(c)) \/ StepAt(x)' = "none"
           /\ \A x \in Spots : x # SpotOf(c) => x \in Spots' /\ StepAt(x)' = StepAt(x)
           /\ \A x \in 1..Len(frames') : frames'[x] = frames[x]
           /\ c # "main" => At("main")' = At("main")
  <1>0. frames \in Seq(Steps) /\ worker \in Steps \cup {"none"} /\ Len(frames) \in Nat
    BY DEF ShutTypeOK
  <1>1. CASE c = "worker"
    BY <1>0, <1>1 DEF Returns, Spots, StepAt, SpotOf, At
  <1>2. CASE c = "main"
    <2>1. frames # <<>> /\ Len(frames) > 0
      BY <1>0, <1>2 DEF At, Steps
    <2>2. frames' = SubSeq(frames, 1, Len(frames) - 1) /\ worker' = worker
      BY <1>2 DEF Returns
    <2>3. frames' \in Seq(Steps) /\ Len(frames') = Len(frames) - 1
          /\ \A x \in 1..(Len(frames) - 1) : frames'[x] = frames[x]
      <3> DEFINE n == Len(frames) - 1
      <3>1. n \in Int /\ 1 \in Int /\ n >= 0 /\ \A i \in 1..n : frames[i] \in Steps
        BY <1>0, <2>1
      <3> HIDE DEF n
      <3>2. /\ SubSeq(frames, 1, n) \in Seq(Steps)
            /\ Len(SubSeq(frames, 1, n)) = IF 1 <= n THEN n - 1 + 1 ELSE 0
            /\ \A i \in 1..(n - 1 + 1) : SubSeq(frames, 1, n)[i] = frames[1 + i - 1]
        BY <3>1, SubSeqProperties
      <3>3. frames' = SubSeq(frames, 1, n)  BY <2>2 DEF n
      <3>4. frames' \in Seq(Steps) /\ Len(frames') = n /\ \A x \in 1..n : frames'[x] = frames[x]
        BY <3>1, <3>2, <3>3
      <3>5. QED  BY <3>4 DEF n
    <2>4. QED  BY <1>0, <1>2, <2>1, <2>2, <2>3 DEF Spots, StepAt, SpotOf
  <1>3. QED  BY <1>1, <1>2 DEF Callers

(* A call that raises.                                                     *)
LEMMA CallRaises ==
    ASSUME ShutTypeOK, NEW c \in Callers, At(c) \in Steps, Raises(c)
    PROVE  /\ Spots' \subseteq Spots /\ Len(frames') \in Nat /\ Len(frames') <= Len(frames)
           /\ frames' \in Seq(Steps) /\ worker' \in Steps \cup {"none"}
           /\ \A x \in Spots' : (StepAt(x)' = StepAt(x) /\ x # SpotOf(c)) \/ StepAt(x)' = "none"
           /\ c = "worker" => frames' = frames /\ Spots' = Spots
           /\ c = "main" => frames' = <<>> /\ worker' = worker /\ Spots' = {0}
  <1>0. frames \in Seq(Steps) /\ worker \in Steps \cup {"none"} /\ Len(frames) \in Nat
    BY DEF ShutTypeOK
  <1>1. CASE c = "worker"
    BY <1>0, <1>1 DEF Raises, Spots, StepAt, SpotOf, At
  <1>2. CASE c = "main"
    <2>1. frames # <<>> /\ Len(frames) > 0
      BY <1>0, <1>2 DEF At, Steps
    <2>2. frames' = <<>> /\ worker' = worker /\ Len(frames') = 0 /\ frames' \in Seq(Steps)
      BY <1>2 DEF Raises
    <2>3. QED  BY <1>0, <1>2, <2>1, <2>2 DEF Spots, StepAt, SpotOf
  <1>3. QED  BY <1>1, <1>2 DEF Callers

(* What the invariant says of the call that takes a step.                  *)
LEMMA StepFacts ==
    ASSUME ShutIInv, NEW c \in Callers, At(c) \in Steps
    PROVE  /\ SpotOf(c) \in Spots /\ StepAt(SpotOf(c)) = At(c) /\ OwnerOf(SpotOf(c)) = c
           /\ \A x \in Spots : x = SpotOf(c) => StepAt(x) = At(c) /\ OwnerOf(x) = c
           /\ At(c) \in HasLock => holder = c
           /\ caught /\ At(c) # "lock" => c = "worker" /\ holder = "main" /\ At(c) \notin HasLock
           /\ \A x \in Spots : At(c) \in HasLock /\ StepAt(x) \in HasLock => x = SpotOf(c)
           /\ \A x \in Spots : At(c) \in Past /\ StepAt(x) \in Past => x = SpotOf(c)
  <1>1. At(c) # "none"  BY DEF Steps
  <1>2. SpotOf(c) \in Spots /\ StepAt(SpotOf(c)) = At(c) /\ OwnerOf(SpotOf(c)) = c
    BY <1>1, CallTypes DEF ShutIInv
  <1>3. At(c) \in HasLock => holder = c  BY <1>2 DEF ShutIInv, LockInv
  <1>4. QED  BY <1>2, <1>3 DEF ShutIInv, LockInv, PastInv, Callers, Past

LEMMA TakesStep ==
    ASSUME ShutIInv, NEW c \in Callers, Takes(c)
    PROVE  ShutIInv'
  <1>0. ShutTypeOK /\ LockInv /\ PastInv /\ RanInv  BY DEF ShutIInv
  <1>1. /\ At(c) = "lock" /\ holder = "none" /\ holder' = c /\ Goes(c, "check") /\ ~caught
        /\ UNCHANGED <<shutPhase, registered, turn, ran, due, shutLog, raisedAt, process, caught>>
    BY <1>0 DEF Takes, Rest, LockInv
  <1>2. "lock" \in Steps /\ "check" \in Steps  BY DEF Steps
  <1>3. /\ Spots' = Spots /\ Len(frames') = Len(frames) /\ frames' \in Seq(Steps)
        /\ worker' \in Steps \cup {"none"}
        /\ \A x \in Spots : x = SpotOf(c) => StepAt(x)' = "check"
        /\ \A x \in Spots : x # SpotOf(c) => StepAt(x)' = StepAt(x)
        /\ \A x \in Spots : x # 0 /\ x # SpotOf(c) => frames'[x] = frames[x]
    BY <1>0, <1>1, <1>2, CallGoes
  <1>4. /\ SpotOf(c) \in Spots 
        /\ \A x \in Spots : x = SpotOf(c) => StepAt(x) = "lock" /\ OwnerOf(x) = c
        /\ Len(frames) \in Nat
    BY <1>0, <1>1, <1>2, StepFacts, CallTypes
  <1>5. ASSUME NEW x \in Spots PROVE StepAt(x) \notin HasLock
    BY <1>0, <1>1 DEF LockInv, OwnerOf
  <1>6. ShutTypeOK'  BY <1>0, <1>1, <1>3 DEF ShutTypeOK, Callers
  <1>7. LockInv'
    <2>1. ASSUME NEW x \in Spots, StepAt(x)' \in HasLock PROVE x = SpotOf(c)
      BY <1>3, <1>5, <2>1
    <2>2. ASSUME NEW x \in 1..(Len(frames) - 1) PROVE frames'[x] \notin HasLock
      <3>1. x \in Spots /\ x # 0 /\ x # Len(frames)  BY <1>4 DEF Spots
      <3>2. x # SpotOf(c)  BY <3>1 DEF SpotOf
      <3>3. StepAt(x) = frames[x]  BY <3>1 DEF StepAt
      <3>4. QED  BY <1>3, <1>5, <3>1, <3>2, <3>3
    <2>3. (\A x \in Spots : StepAt(x) \in HasLock => holder = OwnerOf(x))'
      BY <1>1, <1>3, <1>4, <2>1 DEF OwnerOf
    <2>4. (\A x, y \in Spots : StepAt(x) \in HasLock /\ StepAt(y) \in HasLock => x = y)'
      BY <1>3, <2>1
    <2>5. (holder # "none" => \E x \in Spots : StepAt(x) \in HasLock)'
      <3>1. PICK x \in Spots : x = SpotOf(c)  BY <1>4
      <3>2. StepAt(x)' \in HasLock  BY <1>3, <3>1 DEF HasLock
      <3>3. QED  BY <1>3, <3>2
    <2>6. QED  BY <1>1, <1>3, <2>2, <2>3, <2>4, <2>5 DEF LockInv
  <1>8. PastInv'
    <2>1. ASSUME NEW x \in Spots, StepAt(x)' \in Past PROVE StepAt(x)' = StepAt(x)
      BY <1>3, <2>1 DEF Past
    <2>2. ASSUME NEW x \in Spots, StepAt(x) \in Past PROVE StepAt(x)' = StepAt(x)
      BY <1>3, <1>4, <2>2 DEF Past
    <2>3. QED  BY <1>0, <1>1, <1>3, <2>1, <2>2 DEF PastInv, Past
  <1>9. RanInv'  BY <1>0, <1>1 DEF RanInv
  <1>10. QED  BY <1>6, <1>7, <1>8, <1>9 DEF ShutIInv

(* A call goes from one step past the check to the next, and the phase     *)
(* with it. The lock is let go where a step that has it is left.           *)
LEMMA PastGoes ==
    ASSUME ShutIInv, NEW c \in Callers, NEW to \in Past, At(c) \in Past \cup {"check"}, Goes(c, to),
           At(c) = "check" => shutPhase = "RUNNING" /\ to = "start",
           to \in HasLock => At(c) = "check",
           holder' = IF At(c) \in HasLock /\ to \notin HasLock THEN "none" ELSE holder,
           to \in {"start", "flush"} => shutPhase' = "DRAINING",
           to = "callback" => shutPhase' = "FLUSHING",
           to = "clean" => shutPhase' = "STOPPED",
           UNCHANGED <<process, caught, raisedAt>>
    PROVE  /\ LockInv' /\ PastInv'
           /\ frames' \in Seq(Steps) /\ worker' \in Steps \cup {"none"} /\ Len(frames') = Len(frames)
           /\ holder' \in {"none", "main", "worker"}
  <1>0. ShutTypeOK /\ LockInv /\ PastInv  BY DEF ShutIInv
  <1>2. At(c) \in Steps /\ to \in Steps  BY DEF Steps, Past
  <1>3. /\ Spots' = Spots /\ Len(frames') = Len(frames) /\ frames' \in Seq(Steps)
        /\ worker' \in Steps \cup {"none"}
        /\ \A x \in Spots : x = SpotOf(c) => StepAt(x)' = to
        /\ \A x \in Spots : x # SpotOf(c) => StepAt(x)' = StepAt(x)
        /\ \A x \in Spots : x # 0 /\ x # SpotOf(c) => frames'[x] = frames[x]
        /\ c # "main" => At("main")' = At("main")
    BY <1>0, <1>2, CallGoes
  <1>4. /\ SpotOf(c) \in Spots 
        /\ \A x \in Spots : x = SpotOf(c) => StepAt(x) = At(c) /\ OwnerOf(x) = c
        /\ Len(frames) \in Nat /\ At(c) # "lock"
    BY <1>0, <1>2, StepFacts, CallTypes DEF Past
  <1>5. ASSUME NEW x \in Spots, StepAt(x)' \in HasLock
        PROVE  StepAt(x) \in HasLock /\ holder' = holder
    <2>1. CASE x = SpotOf(c)
      BY <1>3, <1>4, <1>5, <2>1 DEF HasLock
    <2>2. CASE x # SpotOf(c)
      <3>1. StepAt(x) \in HasLock  BY <1>3, <1>5, <2>2
      <3>2. At(c) \notin HasLock  BY <1>2, <2>2, <3>1, StepFacts
      <3>3. QED  BY <3>1, <3>2
    <2>3. QED  BY <2>1, <2>2
  <1>6. LockInv'
    <2>1. (\A x \in Spots : StepAt(x) \in HasLock => holder = OwnerOf(x))'
      BY <1>0, <1>3, <1>5 DEF LockInv, OwnerOf
    <2>2. (\A x, y \in Spots : StepAt(x) \in HasLock /\ StepAt(y) \in HasLock => x = y)'
      BY <1>0, <1>3, <1>5 DEF LockInv
    <2>3. (holder # "none" => \E x \in Spots : StepAt(x) \in HasLock)'
      <3>1. SUFFICES ASSUME holder' # "none" PROVE \E x \in Spots : StepAt(x)' \in HasLock
        BY <1>3
      <3>2. holder' = holder /\ (At(c) \in HasLock => to \in HasLock)  BY <3>1
      <3>3. PICK x \in Spots : StepAt(x) \in HasLock  BY <1>0, <3>1, <3>2 DEF LockInv
      <3>4. StepAt(x)' \in HasLock  BY <1>3, <1>4, <3>2, <3>3
      <3>5. QED  BY <3>4
    <2>4. ASSUME NEW x \in 1..(Len(frames) - 1), frames'[x] \in HasLock PROVE caught
      <3>1. x \in Spots /\ x # 0 /\ x # Len(frames)  BY <1>4 DEF Spots
      <3>2. x # SpotOf(c)  BY <3>1 DEF SpotOf
      <3>3. QED  BY <1>0, <1>3, <2>4, <3>1, <3>2 DEF LockInv
    <2>5. caught => holder' = "main" /\ At("main")' = "lock" /\ process # "gone"
      <3>1. SUFFICES ASSUME caught PROVE holder' = "main" /\ At("main")' = "lock" /\ process # "gone"
        OBVIOUS
      <3>2. c = "worker" /\ At(c) \notin HasLock  BY <1>2, <1>4, <3>1, StepFacts
      <3>3. QED  BY <1>0, <1>3, <3>1, <3>2 DEF LockInv
    <2>6. QED  BY <1>3, <2>1, <2>2, <2>3, <2>4, <2>5 DEF LockInv
  <1>7. ASSUME NEW x \in Spots, x # SpotOf(c) PROVE StepAt(x)' \notin Past
    <2>1. CASE At(c) \in Past
      BY <1>2, <1>3, <1>7, <2>1, StepFacts
    <2>2. CASE At(c) = "check"
      <3>1. StepAt(x) \notin Past  BY <1>0, <2>2 DEF PastInv, Past
      <3>2. QED  BY <1>3, <1>7, <3>1
    <2>3. QED  BY <2>1, <2>2
  <1>8. PastInv'
    <2>1. (\A x, y \in Spots : StepAt(x) \in Past /\ StepAt(y) \in Past => x = y)'
      BY <1>3, <1>7
    <2>2. ASSUME NEW x \in Spots
          PROVE  /\ StepAt(x)' \in {"start", "flush"} => shutPhase' = "DRAINING"
                 /\ StepAt(x)' = "callback" => shutPhase' = "FLUSHING"
                 /\ StepAt(x)' = "clean" => shutPhase' = "STOPPED"
      <3>1. CASE x = SpotOf(c)  BY <1>3, <3>1
      <3>2. CASE x # SpotOf(c)  BY <1>7, <3>2 DEF Past
      <3>3. QED  BY <3>1, <3>2
    <2>3. \E x \in Spots : StepAt(x)' \in Past
      <3>1. PICK x \in Spots : x = SpotOf(c)  BY <1>4
      <3>2. StepAt(x)' \in Past  BY <1>3, <3>1
      <3>3. QED  BY <3>2
    <2>4. QED  BY <1>3, <2>1, <2>2, <2>3 DEF PastInv
  <1>9. QED  BY <1>0, <1>3, <1>6, <1>8 DEF ShutTypeOK

(* A step that leaves the calls alone.                                     *)
LEMMA CallsStay ==
    ASSUME LockInv, PastInv, UNCHANGED <<shutPhase, holder, frames, worker, raisedAt, process, caught>>
    PROVE  LockInv' /\ PastInv'
  <1>1. Spots' = Spots /\ At("main")' = At("main")  BY DEF Spots, At
  <1>2. \A x \in Spots : StepAt(x)' = StepAt(x)  BY DEF StepAt
  <1>3. LockInv'  BY <1>1, <1>2 DEF LockInv
  <1>4. PastInv'  BY <1>1, <1>2 DEF PastInv
  <1>5. QED  BY <1>3, <1>4

LEMMA RegisterStep ==
    ASSUME ShutIInv, Register
    PROVE  ShutIInv'
  <1>1. LockInv' /\ PastInv'  BY CallsStay DEF ShutIInv, Register
  <1>2. ShutTypeOK'  BY RecoveryShutdownAssumption DEF ShutIInv, ShutTypeOK, Register
  <1>3. RanInv'  BY DEF ShutIInv, RanInv, Register
  <1>4. QED  BY <1>1, <1>2, <1>3 DEF ShutIInv

LEMMA ChecksStep ==
    ASSUME ShutIInv, NEW c \in Callers, Checks(c)
    PROVE  ShutIInv'
  <1>0. ShutTypeOK /\ LockInv /\ PastInv /\ RanInv  BY DEF ShutIInv
  <1>1. At(c) = "check" /\ At(c) \in Steps /\ At(c) \in HasLock
        /\ UNCHANGED <<registered, turn, ran, due, shutLog, raisedAt, process, caught>>
    BY DEF Checks, Rest, Steps, HasLock
  <1>2. CASE shutPhase = "RUNNING"
    <2>1. shutPhase' = "DRAINING" /\ Goes(c, "start") /\ holder' = holder
      BY <1>2 DEF Checks
    <2>2. "start" \in Past /\ "start" \in HasLock  BY DEF Past, HasLock
    <2>3. /\ LockInv' /\ PastInv'
          /\ frames' \in Seq(Steps) /\ worker' \in Steps \cup {"none"} /\ Len(frames') = Len(frames)
          /\ holder' \in {"none", "main", "worker"}
      BY <1>1, <1>2, <2>1, <2>2, PastGoes
    <2>4. ShutTypeOK'  BY <1>0, <1>1, <2>1, <2>3 DEF ShutTypeOK, ShutPhases
    <2>5. RanInv'  BY <1>0, <1>1, <1>2, <2>1 DEF RanInv
    <2>6. QED  BY <2>3, <2>4, <2>5 DEF ShutIInv
  <1>3. CASE shutPhase # "RUNNING"
    <2>1. shutPhase' = shutPhase /\ Returns(c) /\ holder' = "none" /\ ~caught
      BY <1>1, <1>3, StepFacts DEF Checks
    <2>2. /\ Spots' \subseteq Spots /\ Len(frames') \in Nat /\ Len(frames') <= Len(frames)
          /\ frames' \in Seq(Steps) /\ worker' \in Steps \cup {"none"}
          /\ \A x \in Spots' : (StepAt(x)' = StepAt(x) /\ x # SpotOf(c)) \/ StepAt(x)' = "none"
          /\ \A x \in Spots : x # SpotOf(c) => x \in Spots' /\ StepAt(x)' = StepAt(x)
      BY <1>0, <1>1, <2>1, CallReturns
    <2>3. ASSUME NEW x \in Spots' PROVE StepAt(x)' \notin HasLock
      <3>1. CASE StepAt(x)' = "none"  BY <3>1 DEF HasLock
      <3>2. CASE StepAt(x)' = StepAt(x) /\ x # SpotOf(c)
        BY <1>1, <2>2, <3>2, StepFacts
      <3>3. QED  BY <2>2, <3>1, <3>2
    <2>4. LockInv'
      <3>1. ASSUME NEW x \in 1..(Len(frames') - 1) PROVE frames'[x] \notin HasLock
        <4>1. x \in Spots' /\ x # 0  BY <2>2 DEF Spots
        <4>2. StepAt(x)' = frames'[x]  BY <4>1 DEF StepAt
        <4>3. QED  BY <2>3, <4>1, <4>2
      <3>2. QED  BY <1>1, <2>1, <2>3, <3>1 DEF LockInv
    <2>5. PastInv'
      <3>1. ASSUME NEW x \in Spots', StepAt(x)' # "none" PROVE x \in Spots /\ StepAt(x)' = StepAt(x)
        BY <2>2, <3>1
      <3>2. ASSUME NEW x \in Spots, StepAt(x) \in Past PROVE x \in Spots' /\ StepAt(x)' \in Past
        <4>1. x # SpotOf(c)  BY <1>1, <3>2, StepFacts DEF Past
        <4>2. QED  BY <2>2, <3>2, <4>1
      <3>3. (\A x, y \in Spots : StepAt(x) \in Past /\ StepAt(y) \in Past => x = y)'
        BY <1>0, <3>1 DEF PastInv, Past
      <3>4. ASSUME NEW x \in Spots'
            PROVE  /\ StepAt(x)' \in {"start", "flush"} => shutPhase' = "DRAINING"
                   /\ StepAt(x)' = "callback" => shutPhase' = "FLUSHING"
                   /\ StepAt(x)' = "clean" => shutPhase' = "STOPPED"
        BY <1>0, <2>1, <3>1 DEF PastInv
      <3>5. (shutPhase \in {"DRAINING", "FLUSHING"} =>
               (\E x \in Spots : StepAt(x) \in Past) \/ "start" \in raisedAt)'
        BY <1>0, <1>1, <2>1, <3>2 DEF PastInv
      <3>6. QED  BY <3>3, <3>4, <3>5 DEF PastInv
    <2>6. ShutTypeOK'
      <3>1. Len(frames') <= MaxDepth
        BY <1>0, <2>2, RecoveryShutdownAssumption DEF ShutTypeOK
      <3>2. QED  BY <1>0, <1>1, <2>1, <2>2, <3>1, Zenon DEF ShutTypeOK
    <2>7. RanInv'  BY <1>0, <1>1, <2>1 DEF RanInv
    <2>8. QED  BY <2>4, <2>5, <2>6, <2>7 DEF ShutIInv
  <1>4. QED  BY <1>2, <1>3

LEMMA LogsStartStep ==
    ASSUME ShutIInv, NEW c \in Callers, LogsStart(c)
    PROVE  ShutIInv'
  <1>0. ShutTypeOK /\ LockInv /\ PastInv /\ RanInv  BY DEF ShutIInv
  <1>1. /\ At(c) = "start" /\ At(c) \in Steps /\ At(c) \in HasLock /\ At(c) \in Past /\ holder' = "none"
        /\ UNCHANGED <<shutPhase, registered, turn, ran, due, process, caught>>
    BY DEF LogsStart, Steps, HasLock, Past
  <1>2. shutPhase = "DRAINING" /\ ~caught
    BY <1>0, <1>1, StepFacts DEF PastInv
  <1>3. CASE shutLog' = "shutdown_start" /\ Goes(c, "flush") /\ UNCHANGED raisedAt
    <2>1. "flush" \in Past /\ "flush" \notin HasLock  BY DEF Past, HasLock
    <2>2. /\ LockInv' /\ PastInv'
          /\ frames' \in Seq(Steps) /\ worker' \in Steps \cup {"none"} /\ Len(frames') = Len(frames)
          /\ holder' \in {"none", "main", "worker"}
      BY <1>1, <1>2, <1>3, <2>1, PastGoes
    <2>3. ShutTypeOK'  BY <1>0, <1>1, <1>3, <2>2 DEF ShutTypeOK
    <2>4. RanInv'  BY <1>0, <1>1, <1>2, <1>3 DEF RanInv
    <2>5. QED  BY <2>2, <2>3, <2>4 DEF ShutIInv
  <1>4. CASE raisedAt' = raisedAt \cup {"start"} /\ Raises(c) /\ UNCHANGED shutLog
    <2>1. /\ Spots' \subseteq Spots /\ Len(frames') \in Nat /\ Len(frames') <= Len(frames)
          /\ frames' \in Seq(Steps) /\ worker' \in Steps \cup {"none"}
          /\ \A x \in Spots' : (StepAt(x)' = StepAt(x) /\ x # SpotOf(c)) \/ StepAt(x)' = "none"
      BY <1>0, <1>1, <1>4, CallRaises
    <2>2. ASSUME NEW x \in Spots' PROVE StepAt(x)' \notin HasLock /\ StepAt(x)' \notin Past
      <3>1. CASE StepAt(x)' = "none"  BY <3>1 DEF HasLock, Past
      <3>2. CASE StepAt(x)' = StepAt(x) /\ x # SpotOf(c)
        BY <1>1, <2>1, <3>2, StepFacts
      <3>3. QED  BY <2>1, <3>1, <3>2
    <2>3. LockInv'
      <3>1. ASSUME NEW x \in 1..(Len(frames') - 1) PROVE frames'[x] \notin HasLock
        <4>1. x \in Spots' /\ x # 0  BY <2>1 DEF Spots
        <4>2. StepAt(x)' = frames'[x]  BY <4>1 DEF StepAt
        <4>3. QED  BY <2>2, <4>1, <4>2
      <3>2. QED  BY <1>1, <1>2, <2>2, <3>1 DEF LockInv
    <2>4. PastInv'  BY <1>4, <2>2 DEF PastInv, Past
    <2>5. ShutTypeOK'
      <3>1. Len(frames') <= MaxDepth
        BY <1>0, <2>1, RecoveryShutdownAssumption DEF ShutTypeOK
      <3>2. raisedAt' \subseteq {"start", "clean"}  BY <1>0, <1>4 DEF ShutTypeOK
      <3>3. QED  BY <1>0, <1>1, <1>4, <2>1, <3>1, <3>2, Zenon DEF ShutTypeOK
    <2>6. RanInv'  BY <1>0, <1>1, <1>4 DEF RanInv
    <2>7. QED  BY <2>3, <2>4, <2>5, <2>6 DEF ShutIInv
  <1>5. QED  BY <1>3, <1>4 DEF LogsStart

LEMMA FlushesStep ==
    ASSUME ShutIInv, NEW c \in Callers, Flushes(c)
    PROVE  ShutIInv'
  <1>0. ShutTypeOK /\ LockInv /\ PastInv /\ RanInv  BY DEF ShutIInv
  <1>1. /\ At(c) = "flush" /\ At(c) \in Steps /\ At(c) \in Past /\ At(c) \notin HasLock
        /\ shutPhase' = "FLUSHING" /\ turn' = registered /\ due' = registered /\ Goes(c, "callback")
        /\ UNCHANGED <<holder, registered, ran, shutLog, raisedAt, process, caught>>
    BY DEF Flushes, Steps, HasLock, Past
  <1>2. shutPhase = "DRAINING"  BY <1>0, <1>1, StepFacts DEF PastInv
  <1>3. "callback" \in Past /\ "callback" \notin HasLock  BY DEF Past, HasLock
  <1>4. /\ LockInv' /\ PastInv'
        /\ frames' \in Seq(Steps) /\ worker' \in Steps \cup {"none"} /\ Len(frames') = Len(frames)
        /\ holder' \in {"none", "main", "worker"}
    BY <1>1, <1>3, PastGoes
  <1>5. ShutTypeOK'  BY <1>0, <1>1, <1>4 DEF ShutTypeOK, ShutPhases
  <1>6. RanInv'
    <2>1. ran = <<>> /\ shutLog # "clean_shutdown" /\ registered \in Nat
      BY <1>0, <1>2, RecoveryShutdownAssumption DEF RanInv, ShutTypeOK
    <2>2. Len(ran) = 0  BY <2>1
    <2>3. QED  BY <1>1, <2>1, <2>2 DEF RanInv
  <1>7. QED  BY <1>4, <1>5, <1>6 DEF ShutIInv

LEMMA RunsCallbackStep ==
    ASSUME ShutIInv, NEW c \in Callers, RunsCallback(c)
    PROVE  ShutIInv'
  <1>0. ShutTypeOK /\ LockInv /\ PastInv /\ RanInv  BY DEF ShutIInv
  <1>1. /\ At(c) = "callback" /\ At(c) \in Steps
        /\ turn > 0 /\ ran' = Append(ran, turn) /\ turn' = turn - 1
        /\ UNCHANGED <<shutPhase, holder, frames, worker, registered, due, shutLog, raisedAt, process, caught>>
    BY DEF RunsCallback, Steps
  <1>2. shutPhase = "FLUSHING"  BY <1>0, <1>1, StepFacts DEF PastInv
  <1>3. /\ turn \in 1..MaxRegistered /\ turn' \in 0..MaxRegistered /\ ran \in Seq(1..MaxRegistered)
        /\ Len(ran) \in Nat /\ due \in Nat /\ turn \in Nat /\ Len(ran) + turn = due
    BY <1>0, <1>1, <1>2, RecoveryShutdownAssumption DEF ShutTypeOK, RanInv
  <1>4. /\ ran' \in Seq(1..MaxRegistered) /\ Len(ran') = Len(ran) + 1 /\ ran'[Len(ran) + 1] = turn
        /\ \A i \in 1..Len(ran) : ran'[i] = ran[i]
    BY <1>1, <1>3
  <1>5. LockInv' /\ PastInv'  BY <1>0, <1>1, CallsStay
  <1>6. ShutTypeOK'  BY <1>0, <1>1, <1>3, <1>4 DEF ShutTypeOK
  <1>7. RanInv'
    <2>1. ASSUME NEW i \in 1..Len(ran') PROVE ran'[i] = due + 1 - i
      <3>1. CASE i = Len(ran) + 1  BY <1>3, <1>4, <3>1
      <3>2. CASE i # Len(ran) + 1
        BY <1>0, <1>3, <1>4, <3>2 DEF RanInv
      <3>3. QED  BY <3>1, <3>2
    <2>2. Len(ran') + turn' = due
      <3>1. turn' = turn - 1 /\ Len(ran') = Len(ran) + 1  BY <1>1, <1>4, Zenon
      <3>2. Len(ran) \in Nat /\ turn \in Nat /\ Len(ran) + turn = due  BY <1>3
      <3>3. QED  BY <3>1, <3>2
    <2>3. QED  BY <1>0, <1>1, <1>2, <2>1, <2>2 DEF RanInv
  <1>8. QED  BY <1>5, <1>6, <1>7 DEF ShutIInv

LEMMA StopsStep ==
    ASSUME ShutIInv, NEW c \in Callers, Stops(c)
    PROVE  ShutIInv'
  <1>0. ShutTypeOK /\ LockInv /\ PastInv /\ RanInv  BY DEF ShutIInv
  <1>1. /\ At(c) = "callback" /\ At(c) \in Steps /\ At(c) \in Past /\ At(c) \notin HasLock
        /\ turn = 0 /\ shutPhase' = "STOPPED" /\ Goes(c, "clean") /\ holder' = holder
        /\ UNCHANGED <<registered, turn, ran, due, shutLog, raisedAt, process, caught>>
    BY DEF Stops, Rest, Steps, HasLock, Past
  <1>2. shutPhase = "FLUSHING"  BY <1>0, <1>1, StepFacts DEF PastInv
  <1>3. "clean" \in Past /\ "clean" \notin HasLock  BY DEF Past, HasLock
  <1>4. /\ LockInv' /\ PastInv'
        /\ frames' \in Seq(Steps) /\ worker' \in Steps \cup {"none"} /\ Len(frames') = Len(frames)
        /\ holder' \in {"none", "main", "worker"}
    BY <1>1, <1>3, PastGoes
  <1>5. ShutTypeOK'  BY <1>0, <1>1, <1>4 DEF ShutTypeOK, ShutPhases
  <1>6. RanInv'
    <2>1. Len(ran) \in Nat  BY <1>0 DEF ShutTypeOK
    <2>2. Len(ran) = due  BY <1>0, <1>1, <1>2, <2>1 DEF RanInv
    <2>3. QED  BY <1>0, <1>1, <2>2 DEF RanInv
  <1>7. QED  BY <1>4, <1>5, <1>6 DEF ShutIInv

LEMMA LogsCleanStep ==
    ASSUME ShutIInv, NEW c \in Callers, LogsClean(c)
    PROVE  ShutIInv'
  <1>0. ShutTypeOK /\ LockInv /\ PastInv /\ RanInv  BY DEF ShutIInv
  <1>1. /\ At(c) = "clean" /\ At(c) \in Steps /\ At(c) \notin HasLock /\ At(c) \in Past
        /\ UNCHANGED <<shutPhase, holder, registered, turn, ran, due, process, caught>>
        /\ shutLog' \in {shutLog, "clean_shutdown"} /\ raisedAt' \in {raisedAt, raisedAt \cup {"clean"}}
        /\ Returns(c) \/ Raises(c)
    BY DEF LogsClean, Steps, HasLock, Past
  <1>2. shutPhase = "STOPPED" /\ (caught => c = "worker")
    BY <1>0, <1>1, StepFacts DEF PastInv
  <1>3. /\ Spots' \subseteq Spots /\ Len(frames') \in Nat /\ Len(frames') <= Len(frames)
        /\ frames' \in Seq(Steps) /\ worker' \in Steps \cup {"none"}
        /\ \A x \in Spots' : (StepAt(x)' = StepAt(x) /\ x # SpotOf(c)) \/ StepAt(x)' = "none"
    BY <1>0, <1>1, CallReturns, CallRaises
  <1>4. ASSUME NEW x \in Spots', StepAt(x)' # "none" PROVE x \in Spots /\ StepAt(x)' = StepAt(x)
    BY <1>3, <1>4
  <1>5. ASSUME NEW x \in Spots, StepAt(x) \in HasLock PROVE x \in Spots' /\ StepAt(x)' \in HasLock
    <2>1. x # SpotOf(c)  BY <1>1, <1>5, StepFacts
    <2>2. CASE Returns(c)
      BY <1>0, <1>1, <1>5, <2>1, <2>2, CallReturns
    <2>3. CASE Raises(c) /\ c = "worker"
      <3>1. x \in Spots' /\ frames' = frames /\ x # 0
        BY <1>0, <1>1, <1>5, <2>1, <2>3, CallRaises DEF SpotOf
      <3>2. QED  BY <1>5, <3>1 DEF StepAt
    <2>4. CASE Raises(c) /\ c = "main"
      <3>1. worker' = worker /\ Spots' = {0}  BY <1>0, <1>1, <2>4, CallRaises
      <3>2. CASE x = 0  BY <1>5, <3>1, <3>2 DEF StepAt
      <3>3. CASE x # 0
        <4>1. x \in 1..(Len(frames) - 1)
          BY <1>0, <2>1, <2>4, <3>3 DEF Spots, SpotOf, ShutTypeOK
        <4>2. frames[x] \in HasLock  BY <1>5, <3>3 DEF StepAt
        <4>3. QED  BY <1>0, <1>2, <2>4, <4>1, <4>2 DEF LockInv
      <3>4. QED  BY <3>2, <3>3
    <2>5. QED  BY <1>1, <2>2, <2>3, <2>4 DEF Callers
  <1>6. LockInv'
    <2>1. (\A x \in Spots : StepAt(x) \in HasLock => holder = OwnerOf(x))'
      BY <1>0, <1>1, <1>4 DEF LockInv, OwnerOf, HasLock
    <2>2. (\A x, y \in Spots : StepAt(x) \in HasLock /\ StepAt(y) \in HasLock => x = y)'
      BY <1>0, <1>4 DEF LockInv, HasLock
    <2>3. (holder # "none" => \E x \in Spots : StepAt(x) \in HasLock)'
      BY <1>0, <1>1, <1>5 DEF LockInv
    <2>4. ASSUME NEW x \in 1..(Len(frames') - 1), frames'[x] \in HasLock PROVE caught
      <3>1. x \in Spots' /\ x # 0  BY <1>3 DEF Spots
      <3>2. StepAt(x)' = frames'[x]  BY <3>1 DEF StepAt
      <3>3. StepAt(x)' # "none"  BY <2>4, <3>2 DEF HasLock
      <3>4. x \in Spots /\ StepAt(x) = frames'[x]  BY <1>4, <3>1, <3>2, <3>3
      <3>5. frames[x] \in HasLock  BY <2>4, <3>1, <3>4 DEF StepAt
      <3>6. x \in 1..(Len(frames) - 1)  BY <1>0, <1>3 DEF ShutTypeOK
      <3>7. QED  BY <1>0, <3>5, <3>6 DEF LockInv
    <2>5. caught => frames' = frames  BY <1>1, <1>2 DEF Returns, Raises
    <2>6. caught => holder = "main" /\ At("main")' = "lock" /\ process # "gone"
      BY <1>0, <2>5 DEF LockInv, At
    <2>7. QED  BY <1>1, <2>1, <2>2, <2>3, <2>4, <2>6 DEF LockInv
  <1>7. PastInv'
    <2>1. ASSUME NEW x \in Spots' PROVE StepAt(x)' \notin Past
      <3>1. CASE StepAt(x)' = "none"  BY <3>1 DEF Past
      <3>2. CASE StepAt(x)' = StepAt(x) /\ x # SpotOf(c)
        BY <1>1, <1>3, <3>2, StepFacts
      <3>3. QED  BY <1>3, <3>1, <3>2
    <2>2. QED  BY <1>1, <1>2, <2>1 DEF PastInv, Past
  <1>8. ShutTypeOK'
    <2>1. Len(frames') <= MaxDepth
      BY <1>0, <1>3, RecoveryShutdownAssumption DEF ShutTypeOK
    <2>2. raisedAt' \subseteq {"start", "clean"} /\ shutLog' \in {"startup", "shutdown_start", "clean_shutdown"}
      BY <1>0, <1>1 DEF ShutTypeOK
    <2>3. QED  BY <1>0, <1>1, <1>3, <2>1, <2>2, Zenon DEF ShutTypeOK
  <1>9. RanInv'  BY <1>0, <1>1, <1>2 DEF RanInv
  <1>10. QED  BY <1>6, <1>7, <1>8, <1>9 DEF ShutIInv

LEMMA MainCallsStep ==
    ASSUME ShutIInv, MainCalls
    PROVE  ShutIInv'
  <1>0. ShutTypeOK /\ LockInv /\ PastInv /\ RanInv  BY DEF ShutIInv
  <1>1. /\ process # "gone" /\ Len(frames) < MaxDepth /\ frames' = Append(frames, "lock")
        /\ caught' = (caught \/ holder = "main")
        /\ UNCHANGED <<shutPhase, holder, worker, registered, turn, ran, due, shutLog, raisedAt, process>>
    BY DEF MainCalls
  <1>2. frames \in Seq(Steps) /\ "lock" \in Steps /\ Len(frames) \in Nat
    BY <1>0 DEF ShutTypeOK, Steps
  <1>3. /\ frames' \in Seq(Steps) /\ Len(frames') = Len(frames) + 1 /\ frames'[Len(frames) + 1] = "lock"
        /\ \A x \in 1..Len(frames) : frames'[x] = frames[x]
    BY <1>1, <1>2
  <1>4. /\ \A x \in Spots : x \in Spots' /\ StepAt(x)' = StepAt(x)
        /\ \A x \in Spots' : x \notin Spots => StepAt(x)' = "lock"
    <2>1. ASSUME NEW x \in Spots PROVE x \in Spots' /\ StepAt(x)' = StepAt(x)
      <3>1. CASE x = 0  BY <1>1, <1>2, <1>3, <3>1 DEF Spots, StepAt
      <3>2. CASE x # 0  BY <1>2, <1>3, <3>2 DEF Spots, StepAt
      <3>3. QED  BY <3>1, <3>2
    <2>2. ASSUME NEW x \in Spots', x \notin Spots PROVE StepAt(x)' = "lock"
      <3>1. x = Len(frames) + 1 /\ x # 0  BY <1>2, <1>3, <2>2 DEF Spots
      <3>2. StepAt(x)' = frames'[x]  BY <3>1 DEF StepAt
      <3>3. QED  BY <1>3, <3>1, <3>2
    <2>3. QED  BY <2>1, <2>2
  <1>5. ShutTypeOK'
    <2>1. Len(frames') <= MaxDepth  BY <1>1, <1>2, <1>3, RecoveryShutdownAssumption
    <2>2. caught' \in BOOLEAN  BY <1>1
    <2>3. QED  BY <1>0, <1>1, <1>3, <2>1, <2>2, Zenon DEF ShutTypeOK
  <1>6. LockInv'
    <2>1. ASSUME NEW x \in Spots', StepAt(x)' \in HasLock PROVE x \in Spots /\ StepAt(x) \in HasLock
      BY <1>4, <2>1 DEF HasLock
    <2>2. (\A x \in Spots : StepAt(x) \in HasLock => holder = OwnerOf(x))'
      BY <1>0, <1>1, <2>1 DEF LockInv, OwnerOf
    <2>3. (\A x, y \in Spots : StepAt(x) \in HasLock /\ StepAt(y) \in HasLock => x = y)'
      BY <1>0, <2>1 DEF LockInv
    <2>4. (holder # "none" => \E x \in Spots : StepAt(x) \in HasLock)'
      BY <1>0, <1>1, <1>4 DEF LockInv
    <2>5. ASSUME NEW x \in 1..(Len(frames') - 1), frames'[x] \in HasLock PROVE caught'
      <3>1. x \in 1..Len(frames) /\ x \in Spots /\ x # 0  BY <1>2, <1>3 DEF Spots
      <3>2. StepAt(x) = frames[x] /\ frames[x] \in HasLock  BY <1>3, <2>5, <3>1 DEF StepAt
      <3>3. holder = "main"  BY <1>0, <3>1, <3>2 DEF LockInv, OwnerOf
      <3>4. QED  BY <1>1, <3>3
    <2>6. At("main")' = "lock"  BY <1>2, <1>3 DEF At
    <2>7. caught' => holder' = "main" /\ process' # "gone"  BY <1>0, <1>1 DEF LockInv
    <2>8. QED  BY <2>2, <2>3, <2>4, <2>5, <2>6, <2>7 DEF LockInv
  <1>7. PastInv'
    <2>1. ASSUME NEW x \in Spots', StepAt(x)' # "lock" PROVE x \in Spots /\ StepAt(x)' = StepAt(x)
      BY <1>4, <2>1
    <2>2. (\A x, y \in Spots : StepAt(x) \in Past /\ StepAt(y) \in Past => x = y)'
      BY <1>0, <2>1 DEF PastInv, Past
    <2>3. ASSUME NEW x \in Spots'
          PROVE  /\ StepAt(x)' \in {"start", "flush"} => shutPhase' = "DRAINING"
                 /\ StepAt(x)' = "callback" => shutPhase' = "FLUSHING"
                 /\ StepAt(x)' = "clean" => shutPhase' = "STOPPED"
      BY <1>0, <1>1, <2>1 DEF PastInv
    <2>4. (shutPhase \in {"DRAINING", "FLUSHING"} =>
             (\E x \in Spots : StepAt(x) \in Past) \/ "start" \in raisedAt)'
      BY <1>0, <1>1, <1>4 DEF PastInv
    <2>5. QED  BY <2>2, <2>3, <2>4 DEF PastInv
  <1>8. RanInv'  BY <1>0, <1>1 DEF RanInv
  <1>9. QED  BY <1>5, <1>6, <1>7, <1>8 DEF ShutIInv

LEMMA WorkerCallsStep ==
    ASSUME ShutIInv, WorkerCalls
    PROVE  ShutIInv'
  <1>0. ShutTypeOK /\ LockInv /\ PastInv /\ RanInv  BY DEF ShutIInv
  <1>1. /\ worker = "none" /\ worker' = "lock"
        /\ UNCHANGED <<shutPhase, holder, frames, registered, turn, ran, due, shutLog, raisedAt, process, caught>>
    BY DEF WorkerCalls
  <1>2. Spots' = Spots /\ At("main")' = At("main")  BY <1>1 DEF Spots, At
  <1>3. ASSUME NEW x \in Spots
        PROVE  StepAt(x)' = StepAt(x) \/ (StepAt(x) = "none" /\ StepAt(x)' = "lock")
    <2>1. CASE x = 0  BY <1>1, <2>1 DEF StepAt
    <2>2. CASE x # 0
      <3>1. StepAt(x)' = frames'[x] /\ StepAt(x) = frames[x]  BY <2>2, Zenon DEF StepAt
      <3>2. QED  BY <1>1, <3>1, Zenon
    <2>3. QED  BY <2>1, <2>2
  <1>4. LockInv'
    <2>1. ASSUME NEW x \in Spots PROVE (StepAt(x)' \in HasLock) <=> (StepAt(x) \in HasLock)
      BY <1>3 DEF HasLock
    <2>2. QED  BY <1>0, <1>1, <1>2, <2>1 DEF LockInv, OwnerOf
  <1>5. PastInv'
    <2>1. ASSUME NEW x \in Spots
          PROVE  StepAt(x)' \in Past \/ StepAt(x) \in Past => StepAt(x)' = StepAt(x)
      BY <1>3 DEF Past
    <2>2. QED  BY <1>0, <1>1, <1>2, <2>1 DEF PastInv, Past
  <1>6. ShutTypeOK'  BY <1>0, <1>1 DEF ShutTypeOK, Steps
  <1>7. RanInv'  BY <1>0, <1>1 DEF RanInv
  <1>8. QED  BY <1>4, <1>5, <1>6, <1>7 DEF ShutIInv

LEMMA AtexitStep ==
    ASSUME ShutIInv, Atexit \/ Gone
    PROVE  ShutIInv'
  <1>0. ShutTypeOK /\ LockInv /\ PastInv /\ RanInv  BY DEF ShutIInv
  <1>1. /\ frames = <<>> /\ frames' \in {<<>>, <<"lock">>} /\ process' \in {"atexit", "gone"}
        /\ UNCHANGED <<shutPhase, holder, worker, registered, turn, ran, due, shutLog, raisedAt, caught>>
    BY DEF Atexit, Gone
  <1>2. At("main") = "none" /\ ~caught /\ Len(frames) = 0 /\ Spots = {0}
    BY <1>0, <1>1 DEF At, LockInv, Spots
  <1>3. /\ frames' \in Seq(Steps) /\ Len(frames') \in {0, 1} /\ Spots' \subseteq {0, 1} /\ 0 \in Spots'
        /\ 1 \in Spots' => frames'[1] = "lock"
    <2>1. CASE frames' = <<>>  BY <2>1 DEF Spots
    <2>2. CASE frames' = <<"lock">>
      <3>1. "lock" \in Steps  BY DEF Steps
      <3>2. frames' \in Seq(Steps) /\ Len(frames') = 1 /\ frames'[1] = "lock"  BY <2>2, <3>1
      <3>3. QED  BY <3>2 DEF Spots
    <2>3. QED  BY <1>1, <2>1, <2>2
  <1>4. \A x \in Spots' : (x = 0 /\ StepAt(x)' = worker) \/ (x = 1 /\ StepAt(x)' = "lock")
    <2>1. ASSUME NEW x \in Spots', x = 0 PROVE StepAt(x)' = worker
      BY <1>1, <2>1 DEF StepAt
    <2>2. ASSUME NEW x \in Spots', x # 0 PROVE x = 1 /\ StepAt(x)' = "lock"
      <3>1. x = 1 /\ 1 \in Spots'  BY <1>3, <2>2
      <3>2. StepAt(x)' = frames'[1]  BY <3>1 DEF StepAt
      <3>3. QED  BY <1>3, <3>1, <3>2
    <2>3. QED  BY <2>1, <2>2, Zenon
  <1>5. StepAt(0) = worker /\ StepAt(0)' = worker /\ 0 \in Spots  BY <1>1, <1>2 DEF StepAt
  <1>6. LockInv'
    <2>1. \A x \in Spots' : StepAt(x)' \in HasLock => x = 0 /\ worker \in HasLock
      BY <1>4 DEF HasLock
    <2>2. worker \in HasLock => holder = "worker"  BY <1>0, <1>5 DEF LockInv, OwnerOf
    <2>3. holder # "none" => worker \in HasLock  BY <1>0, <1>2, <1>5 DEF LockInv
    <2>4. \A x \in 1..(Len(frames') - 1) : FALSE
      <3>1. CASE Len(frames') = 0  BY <3>1
      <3>2. CASE Len(frames') = 1  BY <3>2
      <3>3. QED  BY <1>3, <3>1, <3>2
    <2>5. QED  BY <1>1, <1>2, <1>3, <1>5, <2>1, <2>2, <2>3, <2>4 DEF LockInv, OwnerOf
  <1>7. PastInv'
    <2>1. \A x \in Spots' : StepAt(x)' # "lock" => x = 0 /\ StepAt(x)' = StepAt(0)
      BY <1>4, <1>5
    <2>2. (\A x, y \in Spots : StepAt(x) \in Past /\ StepAt(y) \in Past => x = y)'
      BY <2>1 DEF Past
    <2>3. ASSUME NEW x \in Spots'
          PROVE  /\ StepAt(x)' \in {"start", "flush"} => shutPhase' = "DRAINING"
                 /\ StepAt(x)' = "callback" => shutPhase' = "FLUSHING"
                 /\ StepAt(x)' = "clean" => shutPhase' = "STOPPED"
      BY <1>0, <1>1, <1>5, <2>1 DEF PastInv
    <2>4. shutPhase \in {"DRAINING", "FLUSHING"} =>
             (\E x \in Spots' : StepAt(x)' \in Past) \/ "start" \in raisedAt
      BY <1>0, <1>2, <1>3, <1>5 DEF PastInv
    <2>5. QED  BY <1>1, <2>2, <2>3, <2>4 DEF PastInv
  <1>8. ShutTypeOK'
    <2>1. Len(frames') <= MaxDepth
      <3>1. CASE Len(frames') = 0  BY <3>1, RecoveryShutdownAssumption
      <3>2. CASE Len(frames') = 1  BY <3>2, RecoveryShutdownAssumption
      <3>3. QED  BY <1>3, <3>1, <3>2
    <2>2. QED  BY <1>0, <1>1, <1>3, <2>1 DEF ShutTypeOK
  <1>9. RanInv'  BY <1>0, <1>1 DEF RanInv
  <1>10. QED  BY <1>6, <1>7, <1>8, <1>9 DEF ShutIInv

LEMMA ShutInvInit == ASSUME ShutInit PROVE ShutIInv
  <1>1. /\ shutPhase = "RUNNING" /\ holder = "none" /\ frames = <<>> /\ worker = "none"
        /\ registered = 0 /\ turn = 0 /\ ran = <<>> /\ due = 0
        /\ shutLog = "startup" /\ raisedAt = {} /\ process = "runs" /\ caught = FALSE
    BY DEF ShutInit
  <1>2. Len(frames) = 0 /\ Len(ran) = 0 /\ Spots = {0}  BY <1>1 DEF Spots
  <1>3. \A x \in Spots : StepAt(x) = "none"  BY <1>1, <1>2 DEF StepAt
  <1>4. ShutTypeOK
    <2>1. frames \in Seq(Steps) /\ ran \in Seq(1..MaxRegistered)  BY <1>1
    <2>2. Len(frames) <= MaxDepth /\ 0 \in 0..MaxRegistered
      BY <1>2, RecoveryShutdownAssumption
    <2>3. QED  BY <1>1, <2>1, <2>2 DEF ShutTypeOK, ShutPhases
  <1>5. LockInv  BY <1>1, <1>2, <1>3 DEF LockInv, HasLock
  <1>6. PastInv  BY <1>1, <1>3 DEF PastInv, Past
  <1>7. RanInv  BY <1>1, <1>2 DEF RanInv
  <1>8. QED  BY <1>4, <1>5, <1>6, <1>7 DEF ShutIInv

LEMMA ShutInvStep == ASSUME ShutIInv, [ShutNext]_shutVars PROVE ShutIInv'
  <1>1. CASE Register  BY <1>1, RegisterStep
  <1>2. CASE MainCalls  BY <1>2, MainCallsStep
  <1>3. CASE WorkerCalls  BY <1>3, WorkerCallsStep
  <1>4. CASE Atexit \/ Gone  BY <1>4, AtexitStep
  <1>5. ASSUME NEW c \in Callers, CallSteps(c) PROVE ShutIInv'
    BY <1>5, TakesStep, ChecksStep, LogsStartStep, FlushesStep, RunsCallbackStep, StopsStep,
       LogsCleanStep DEF CallSteps
  <1>6. CASE UNCHANGED shutVars
    <2>1. UNCHANGED <<shutPhase, holder, frames, worker, registered, turn, ran, due,
                      shutLog, raisedAt, process, caught>>
      BY <1>6 DEF shutVars
    <2>2. LockInv' /\ PastInv'  BY <2>1, CallsStay DEF ShutIInv
    <2>3. ShutTypeOK' /\ RanInv'  BY <2>1 DEF ShutIInv, ShutTypeOK, RanInv
    <2>4. QED  BY <2>2, <2>3 DEF ShutIInv
  <1>7. QED  BY <1>1, <1>2, <1>3, <1>4, <1>5, <1>6 DEF ShutNext

LEMMA ShutInvImplies == ASSUME ShutIInv PROVE ShutdownOrderly
  <1>0. ShutTypeOK /\ LockInv /\ PastInv /\ RanInv  BY DEF ShutIInv
  <1>1. shutLog = "clean_shutdown" => Len(ran) = due
    BY <1>0 DEF RanInv, ShutTypeOK, ShutPhases
  <1>2. ASSUME NEW x \in Spots, StepAt(x) \in Past PROVE worker \in Past \/ MainPast # {}
    <2>1. CASE x = 0  BY <1>2, <2>1 DEF StepAt
    <2>2. CASE x # 0
      <3>1. x \in 1..Len(frames)  BY <1>0, <2>2 DEF Spots, ShutTypeOK
      <3>2. frames[x] \in Past  BY <1>2, <2>2 DEF StepAt
      <3>3. x \in MainPast  BY <3>1, <3>2 DEF MainPast
      <3>4. QED  BY <3>3
    <2>3. QED  BY <2>1, <2>2
  <1>3. shutPhase \in {"DRAINING", "FLUSHING"} =>
           worker \in Past \/ MainPast # {} \/ "start" \in raisedAt
    BY <1>0, <1>2 DEF PastInv
  <1>4. QED  BY <1>0, <1>1, <1>3 DEF ShutdownOrderly, RanInv, LockInv

(* However calls of shutdown, signals and threads interleave: the callbacks *)
(* run once, the last registered first, the log calls the shutdown clean    *)
(* only after all of them, and a call caught by the lock its own thread     *)
(* holds never gets it.                                                     *)
THEOREM ShutdownsAreOrderly == ShutSpec => []ShutdownOrderly
  <1>1. ShutSpec => []ShutIInv
    BY ShutInvInit, ShutInvStep, PTL DEF ShutSpec
  <1>2. ShutIInv => ShutdownOrderly  BY ShutInvImplies
  <1>3. QED  BY <1>1, <1>2, PTL

-----------------------------------------------------------------------------
(* The execution plans                                                     *)

(* The constants as arithmetic needs them.                                 *)
LEMMA PlanNumbers ==
    /\ Total \in Nat /\ Total >= 1 /\ Slices \in Nat /\ Slices >= 1 /\ MaxSends \in Nat
    /\ IsFiniteSet(1..Slices)
BY ExecutionAssumption, FS_Interval

(* The slices are finitely many, and what they trade and got are sums.     *)
LEMMA PlanSums ==
    ASSUME PlanTypeOK
    PROVE  /\ Len(target) \in Nat /\ IsFiniteSet(SliceIds)
           /\ DOMAIN target = SliceIds /\ DOMAIN got = SliceIds
           /\ \A i \in SliceIds : target[i] \in Int /\ got[i] \in Nat /\ got[i] \in Int
           /\ SumOf(target) = SumFunctionOnSet(target, SliceIds)
           /\ SumOf(got) = SumFunctionOnSet(got, SliceIds)
           /\ SumOf(target) \in Int /\ SumOf(got) \in Int
<1>1. /\ Len(target) \in Nat /\ DOMAIN target = SliceIds /\ DOMAIN got = SliceIds
      /\ \A i \in SliceIds : target[i] \in Int /\ got[i] \in Nat /\ got[i] \in Int
  <2>1. target \in Seq(Int) /\ got \in [SliceIds -> Nat]
    BY DEF PlanTypeOK
  <2>2. Len(target) \in Nat /\ DOMAIN target = 1..Len(target)
        /\ \A i \in 1..Len(target) : target[i] \in Int
    BY <2>1
  <2>3. DOMAIN got = SliceIds /\ \A i \in SliceIds : got[i] \in Nat /\ got[i] \in Int
    BY <2>1
  <2> QED BY <2>2, <2>3 DEF SliceIds
<1>2. IsFiniteSet(SliceIds)
  BY <1>1, FS_Interval DEF SliceIds
<1>3. /\ SumOf(target) = SumFunctionOnSet(target, SliceIds)
      /\ SumOf(got) = SumFunctionOnSet(got, SliceIds)
  BY <1>1 DEF SumOf, SumFunction
<1>4. SumFunctionOnSet(target, SliceIds) \in Int /\ SumFunctionOnSet(got, SliceIds) \in Int
  BY <1>1, <1>2, SumRemove
<1> QED BY <1>1, <1>2, <1>3, <1>4

(* The slices add up to the total, whatever they are, when the last one    *)
(* absorbs what the others leave.                                          *)
LEMMA AbsorbedSum ==
    ASSUME NEW s \in [1..Slices -> Int]
    PROVE  /\ Absorbed(s) \in Seq(Int) /\ Len(Absorbed(s)) = Slices
           /\ \A i \in 1..Slices : i # Slices => Absorbed(s)[i] = s[i]
           /\ Absorbed(s)[Slices] = s[Slices] + Total - SumOf(s)
           /\ SumOf(Absorbed(s)) = Total /\ SumOf(s) \in Int
           /\ SumOf(s) = SumFunctionOnSet(s, 1..Slices)
<1> DEFINE a == Absorbed(s)
           S == 1..Slices
<1>1. s \in Seq(Int) /\ Len(s) = Slices /\ Slices \in S
  BY PlanNumbers
<1>2. SumOf(s) = SumFunctionOnSet(s, S)
  BY DEF SumOf, SumFunction
<1>3. SumOf(s) \in Int
  BY <1>2, PlanNumbers, SumRemove
<1> DEFINE rest == s[Slices] + Total - SumOf(s)
<1>4. rest \in Int
  BY <1>1, <1>3, PlanNumbers
<1>5. a = [s EXCEPT ![Slices] = rest]
  BY <1>1 DEF Absorbed
<1> HIDE DEF rest, a
<1>6. a \in [S -> Int] /\ a[Slices] = rest /\ \A i \in S : i # Slices => a[i] = s[i]
  BY <1>1, <1>4, <1>5
<1>7. a \in Seq(Int) /\ Len(a) = Slices
  BY <1>6, PlanNumbers
<1>8. SumOf(a) = SumFunctionOnSet(a, S)
  BY <1>6 DEF SumOf, SumFunction
<1>9. SumFunctionOnSet(a, S) = SumFunctionOnSet(s, S) + a[Slices] - s[Slices]
  BY <1>1, <1>6, PlanNumbers, SumChange
<1>10. SumOf(a) = Total
  BY <1>1, <1>2, <1>3, <1>6, <1>8, <1>9, PlanNumbers DEF rest
<1> QED BY <1>2, <1>3, <1>6, <1>7, <1>10 DEF rest, a

(* With slices that are at least their minimum by themselves, jitters that *)
(* are not too wide leave the last slice of a TWAP plan something.         *)
LEMMA TwapSlices ==
    ASSUME TwapPlan
    PROVE  /\ target \in Seq(Int) /\ SumOf(target) = Total /\ strained \in BOOLEAN
           /\ ~Whole => strained
<1> DEFINE base == Total \div Slices
           S == 1..Slices
           O == S \ {Slices}
<1>1. PICK jitter \in [S -> Jitters], floor \in Floors :
          /\ target = Absorbed([i \in S |-> Greater(floor, base + jitter[i])])
          /\ strained = \E i \in 1..(Slices - 1) :
                            \/ base + jitter[i] < floor
                            \/ (Slices - 1) * (base + jitter[i]) > Total
  BY DEF TwapPlan
<1>2. base \in Int /\ floor \in Nat
  BY PlanNumbers, ExecutionAssumption
<1> HIDE DEF base
<1> DEFINE s == [i \in S |-> Greater(floor, base + jitter[i])]
<1>3. \A i \in S : jitter[i] \in Int
  BY ExecutionAssumption
<1>4. s \in [S -> Int]
  BY <1>2, <1>3 DEF Greater
<1>5. ASSUME ~strained PROVE Whole
  <2> DEFINE x == [i \in O |-> base + jitter[i]]
             n == Slices - 1
             scaled == [i \in O |-> n * x[i]]
             full == [i \in O |-> Total]
  <2>1. O = 1..n /\ n \in Nat /\ IsFiniteSet(O) /\ Cardinality(O) = n
    <3>1. O = 1..n /\ n \in Nat
      BY PlanNumbers
    <3> HIDE DEF O, n
    <3> QED BY <3>1, FS_Interval
  <2>2. \A i \in O : x[i] \in Int /\ s[i] = x[i] /\ x[i] >= 0 /\ n * x[i] <= Total
    <3>1. \A i \in O : ~(base + jitter[i] < floor) /\ ~(n * (base + jitter[i]) > Total)
      BY <1>1, <1>5, <2>1
    <3>2. \A i \in O : x[i] = base + jitter[i] /\ base + jitter[i] \in Int /\ i \in S
      BY <1>2, <1>3
    <3>3. \A i \in O : s[i] = x[i] /\ x[i] >= 0
      BY <1>2, <3>1, <3>2 DEF Greater
    <3>4. \A i \in O : n * x[i] \in Int /\ ~(n * x[i] > Total)
      <4> HIDE DEF s, x, n
      <4> QED BY <2>1, <3>1, <3>2
    <3> QED BY <3>2, <3>3, <3>4, PlanNumbers
  <2> HIDE DEF s, x, n
  <2>3. SumFunctionOnSet(s, O) = SumFunctionOnSet(x, O) /\ SumFunctionOnSet(x, O) \in Int
    <3> HIDE DEF O
    <3>1. \A i \in O : s[i] \in Int /\ s[i] = x[i]
      BY <2>2
    <3> QED BY <2>1, <2>2, <3>1, SumSame, SumRemove
  <2>4. n * SumFunctionOnSet(x, O) <= n * Total
    <3> HIDE DEF O
    <3>1. \A i \in O : scaled[i] = n * x[i] /\ scaled[i] \in Int /\ full[i] = Total
                       /\ full[i] \in Int /\ scaled[i] <= full[i]
      <4>1. \A i \in O : n * x[i] \in Int
        BY <2>1, <2>2
      <4> QED BY <2>2, <4>1, PlanNumbers
    <3> HIDE DEF scaled, full
    <3>2. SumFunctionOnSet(scaled, O) = n * SumFunctionOnSet(x, O)
      <4>1. n \in Int
        BY <2>1
      <4> QED BY <2>1, <2>2, <3>1, <4>1, SumScale
    <3>3. SumFunctionOnSet(full, O) = n * Total
      <4>1. Total \in Int
        BY PlanNumbers
      <4>2. SumFunctionOnSet(full, O) = Cardinality(O) * Total
        BY <2>1, <3>1, <4>1, SumConstant
      <4> QED BY <2>1, <4>2
    <3>4. SumFunctionOnSet(scaled, O) <= SumFunctionOnSet(full, O)
      BY <2>1, <3>1, SumAtMost
    <3> QED BY <3>2, <3>3, <3>4
  <2>5. SumFunctionOnSet(x, O) <= Total
    <3>1. CASE n = 0
      <4>1. O = {}
        BY <2>1, <3>1
      <4>2. SumFunctionOnSet(x, O) = 0
        BY <4>1, SumEmpty
      <4> QED BY <4>2, PlanNumbers
    <3>2. CASE n >= 1
      <4>1. \A a, b \in Int : n * a <= n * b => a <= b
        BY <2>1, <3>2
      <4>2. Total \in Int
        BY PlanNumbers
      <4> QED BY <2>3, <2>4, <4>1, <4>2
    <3> QED BY <2>1, <3>1, <3>2
  <2>6. SumOf(s) = s[Slices] + SumFunctionOnSet(s, O)
    <3>1. Slices \in S /\ \A i \in S : s[i] \in Int
      BY <1>4, PlanNumbers
    <3>2. SumFunctionOnSet(s, S) = s[Slices] + SumFunctionOnSet(s, S \ {Slices})
      <4> HIDE DEF O
      <4> QED BY <3>1, PlanNumbers, SumRemove
    <3> QED BY <3>2, <1>4, AbsorbedSum
  <2>7. target = Absorbed(s)
    BY <1>1 DEF s
  <2>8. target[Slices] >= 0
    <3>1. Slices \in S /\ s[Slices] \in Int
      BY <1>4, PlanNumbers
    <3>2. target[Slices] = s[Slices] + Total - SumOf(s)
      BY <1>4, <2>7, AbsorbedSum
    <3> QED BY <2>3, <2>5, <2>6, <3>1, <3>2, PlanNumbers
  <2>9. \A i \in O : target[i] >= 0
    BY <1>4, <2>2, <2>7, AbsorbedSum
  <2>10. SliceIds = S
    BY <1>4, <2>7, AbsorbedSum DEF SliceIds
  <2> QED BY <2>8, <2>9, <2>10 DEF Whole
<1>6. strained \in BOOLEAN
  BY <1>1
<1> HIDE DEF s
<1>7. target = Absorbed(s)
  BY <1>1 DEF s
<1> QED BY <1>4, <1>5, <1>6, <1>7, AbsorbedSum

(* With buckets that are at least their minimum by themselves, a profile   *)
(* that sums to no more than one leaves the last bucket of a VWAP plan     *)
(* something.                                                              *)
LEMMA VwapSlices ==
    ASSUME VwapPlan
    PROVE  /\ target \in Seq(Int) /\ SumOf(target) = Total /\ strained \in BOOLEAN
           /\ ~Whole => strained
<1> DEFINE S == 1..Slices
<1>1. PICK profile \in Profiles, cap \in Caps, floor \in Floors :
          LET share(i) == Lesser((Total * profile[i]) \div 100, cap * profile[i])
          IN  /\ target = Absorbed([i \in S |-> IF share(i) > 0 THEN Greater(share(i), floor) ELSE 0])
              /\ strained = \/ SumOf(profile) > 100
                            \/ \E i \in S : share(i) > 0 /\ share(i) < floor
  BY DEF VwapPlan
<1> DEFINE share(i) == Lesser((Total * profile[i]) \div 100, cap * profile[i])
           s == [i \in S |-> IF share(i) > 0 THEN Greater(share(i), floor) ELSE 0]
<1>2. /\ target = Absorbed(s)
      /\ strained = \/ SumOf(profile) > 100
                    \/ \E i \in S : share(i) > 0 /\ share(i) < floor
  BY <1>1
<1>3. /\ cap \in Nat /\ floor \in Nat /\ profile \in [S -> Nat]
      /\ SumOf(profile) = SumFunctionOnSet(profile, S)
  BY ExecutionAssumption DEF SumOf, SumFunction
<1>4. ASSUME NEW i \in S
      PROVE  share(i) \in Int /\ 100 * share(i) <= Total * profile[i] /\ Total * profile[i] \in Nat
  <2> DEFINE p == profile[i]
  <2>1. p \in Nat
    BY <1>3
  <2> HIDE DEF p
  <2>2. Total * p \in Nat /\ cap * p \in Nat
    BY <1>3, <2>1, PlanNumbers
  <2>3. (Total * p) \div 100 \in Int /\ 100 * ((Total * p) \div 100) <= Total * p
    <3>1. \A m \in Nat : m \div 100 \in Int /\ 100 * (m \div 100) <= m
      OBVIOUS
    <3> QED BY <2>2, <3>1
  <2>4. /\ share(i) \in Int /\ share(i) <= (Total * p) \div 100
    BY <2>2, <2>3 DEF Lesser, p
  <2> HIDE DEF share
  <2> QED BY <2>2, <2>3, <2>4 DEF p
<1> HIDE DEF share
<1>5. s \in [S -> Int]
  BY <1>3, <1>4 DEF Greater
<1>6. ASSUME ~strained PROVE Whole
  <2> DEFINE scaled == [i \in S |-> 100 * s[i]]
             weighted == [i \in S |-> Total * profile[i]]
  <2>1. \A i \in S : s[i] >= 0 /\ 100 * s[i] <= Total * profile[i]
    <3>1. \A i \in S : share(i) > 0 => share(i) >= floor
      BY <1>2, <1>3, <1>4, <1>6
    <3>2. \A i \in S : s[i] = IF share(i) > 0 THEN share(i) ELSE 0
      BY <1>3, <1>4, <3>1 DEF Greater
    <3> QED BY <1>4, <3>2
  <2> HIDE DEF s
  <2>2. \A i \in S : /\ s[i] \in Int /\ scaled[i] = 100 * s[i] /\ scaled[i] \in Int
                     /\ profile[i] \in Int /\ weighted[i] = Total * profile[i]
                     /\ weighted[i] \in Int /\ scaled[i] <= weighted[i]
    BY <1>3, <1>4, <1>5, <2>1
  <2> HIDE DEF scaled, weighted
  <2>3. SumFunctionOnSet(scaled, S) = 100 * SumFunctionOnSet(s, S)
    BY <2>2, PlanNumbers, SumScale
  <2>4. SumFunctionOnSet(weighted, S) = Total * SumFunctionOnSet(profile, S)
    <3>1. Total \in Int
      BY PlanNumbers
    <3> QED BY <2>2, <3>1, PlanNumbers, SumScale
  <2>5. SumFunctionOnSet(scaled, S) <= SumFunctionOnSet(weighted, S)
    BY <2>2, PlanNumbers, SumAtMost
  <2>6. SumFunctionOnSet(profile, S) \in Int /\ SumFunctionOnSet(s, S) \in Int
    BY <2>2, PlanNumbers, SumRemove
  <2>7. Total * SumFunctionOnSet(profile, S) <= Total * 100
    <3>1. \A a, b \in Int, t \in Nat : a <= b => t * a <= t * b
      OBVIOUS
    <3>2. SumFunctionOnSet(profile, S) <= 100
      BY <1>2, <1>3, <1>6, <2>6
    <3> QED BY <2>6, <3>1, <3>2, PlanNumbers
  <2>8. SumFunctionOnSet(s, S) <= Total
    BY <2>3, <2>4, <2>5, <2>6, <2>7, PlanNumbers
  <2>9. Slices \in S /\ target[Slices] = s[Slices] + Total - SumFunctionOnSet(s, S)
    BY <1>2, <1>5, AbsorbedSum, PlanNumbers
  <2>10. target[Slices] >= 0
    BY <2>1, <2>2, <2>6, <2>8, <2>9, PlanNumbers
  <2>11. \A i \in S : i # Slices => target[i] = s[i]
    BY <1>2, <1>5, AbsorbedSum
  <2>12. SliceIds = S
    BY <1>2, <1>5, AbsorbedSum DEF SliceIds
  <2> QED BY <2>1, <2>10, <2>11, <2>12 DEF Whole
<1>7. strained \in BOOLEAN
  BY <1>2
<1> HIDE DEF s
<1> QED BY <1>2, <1>5, <1>6, <1>7, AbsorbedSum

-----------------------------------------------------------------------------

LEMMA PlanInitIInv == PlanInit => PlanIInv
<1> SUFFICES ASSUME PlanInit PROVE PlanIInv
  OBVIOUS
<1>1. /\ target \in Seq(Int) /\ SumOf(target) = Total /\ strained \in BOOLEAN
      /\ algo \in {"twap", "vwap", "is"}
      /\ algo # "is" /\ ~Whole => strained
  <2>1. CASE algo = "twap" /\ TwapPlan
    BY <2>1, TwapSlices
  <2>2. CASE algo = "vwap" /\ VwapPlan
    BY <2>2, VwapSlices
  <2>3. CASE algo = "is" /\ IsPlan
    <3>1. target \in Seq(Nat) /\ SumOf(target) = Total
      BY <2>3, ExecutionAssumption DEF IsPlan
    <3>2. target \in Seq(Int)
      BY <3>1
    <3> QED BY <2>3, <3>1, <3>2 DEF IsPlan
  <2> QED BY <2>1, <2>2, <2>3 DEF PlanInit
<1>2. /\ got = [i \in SliceIds |-> 0] /\ closed = [i \in SliceIds |-> FALSE]
      /\ hour = 0 /\ sending = NotSending /\ sends = 0
      /\ finished = FALSE /\ withdrawn = FALSE
  BY DEF PlanInit
<1>3. PlanTypeOK
  <2>1. Len(target) \in Nat
    BY <1>1
  <2>2. got \in [SliceIds -> Nat] /\ closed \in [SliceIds -> BOOLEAN]
    BY <1>2
  <2>3. hour \in 0..(Len(target) + 1) /\ sends \in 0..MaxSends
    BY <1>2, <2>1, PlanNumbers
  <2>4. sending \in [slice : 0..Len(target), qty : Nat]
    BY <1>2, <2>1 DEF NotSending
  <2>5. finished \in BOOLEAN /\ withdrawn \in BOOLEAN
    BY <1>2
  <2> QED BY <1>1, <2>2, <2>3, <2>4, <2>5 DEF PlanTypeOK
<1>4. sending.slice = 0 /\ sending.qty = 0
  BY <1>2 DEF NotSending
<1>5. \A i \in SliceIds : got[i] = 0 /\ ~closed[i] /\ OrderedFor(i) = 0 /\ target[i] \in Int
  BY <1>2, <1>3, <1>4, PlanSums DEF OrderedFor
<1>6. \A i \in SliceIds : algo # "is" => got[i] + OrderedFor(i) <= Greater(0, target[i])
  BY <1>5 DEF Greater
<1>7. SumOf(got) = 0
  BY <1>3, <1>5, PlanSums, SumZero
<1>8. 1000 * SumOf(got) < 999 * Total
  BY <1>7, PlanNumbers
<1> QED BY <1>1, <1>2, <1>3, <1>4, <1>5, <1>6, <1>8 DEF PlanIInv

\* what is offered is a slice of the plan
LEMMA PendingType ==
    ASSUME PlanTypeOK, NEW i \in Pending
    PROVE  /\ i \in SliceIds /\ (algo \in {"twap", "vwap"} => ~closed[i])
<1>1. CASE algo = "twap"
  BY <1>1 DEF Pending
<1>2. CASE algo = "vwap"
  BY <1>2 DEF Pending
<1>3. CASE algo = "is"
  BY <1>3 DEF Pending
<1> QED BY <1>1, <1>2, <1>3 DEF PlanTypeOK

(* Time moves nothing but the hour.                                        *)
LEMMA TimeIInv == PlanIInv /\ TimePasses => PlanIInv'
<1> SUFFICES ASSUME PlanIInv, TimePasses PROVE PlanIInv'
  OBVIOUS
<1>1. /\ hour' = hour + 1 /\ hour <= Len(target) /\ hour \in 0..(Len(target) + 1)
      /\ UNCHANGED <<algo, strained, target, got, closed, sending, sends, finished, withdrawn>>
      /\ Len(target) \in Nat
  BY PlanSums DEF TimePasses, PlanIInv, PlanTypeOK
<1>2. hour' \in 0..(Len(target) + 1)
  BY <1>1
<1>3. PlanTypeOK'
  BY <1>1, <1>2 DEF PlanIInv, PlanTypeOK, SliceIds
<1> QED BY <1>1, <1>3 DEF PlanIInv, SliceIds, OrderedFor, Whole, SumOf

(* An order is for no more than its slice still lacks.                     *)
LEMMA DriverIInv == PlanIInv /\ DriverSends => PlanIInv'
<1> SUFFICES ASSUME PlanIInv, DriverSends PROVE PlanIInv'
  OBVIOUS
<1>1. PICK i \in Pending : Wanted(i) > 0 /\ sending' = [slice |-> i, qty |-> Wanted(i)]
  BY DEF DriverSends
<1>2. /\ sending = NotSending /\ sends < MaxSends /\ sends' = sends + 1
      /\ UNCHANGED <<algo, strained, target, got, closed, hour, finished, withdrawn>>
  BY DEF DriverSends
<1>3. /\ PlanTypeOK /\ i \in SliceIds /\ (algo \in {"twap", "vwap"} => ~closed[i])
      /\ target[i] \in Int /\ got[i] \in Nat /\ Len(target) \in Nat
      /\ algo \in {"twap", "vwap", "is"}
  BY PendingType, PlanSums DEF PlanIInv, PlanTypeOK
<1>4. Wanted(i) \in Nat /\ i \in 1..Len(target)
  BY <1>1, <1>3 DEF Wanted, SliceIds
<1>5. sending'.slice = i /\ sending'.qty = Wanted(i) /\ i # 0
  BY <1>1, <1>4
<1>6. PlanTypeOK'
  <2>1. sending' \in [slice : 0..Len(target), qty : Nat]
    BY <1>1, <1>3, <1>4
  <2>2. sends' \in 0..MaxSends
    BY <1>2, <1>3, PlanNumbers DEF PlanTypeOK
  <2> QED BY <1>2, <1>3, <2>1, <2>2 DEF PlanTypeOK, SliceIds
<1>7. \A j \in SliceIds : algo # "is" => got[j] + OrderedFor(j)' <= Greater(0, target[j])
  <2> SUFFICES ASSUME NEW j \in SliceIds, algo # "is"
               PROVE  got[j] + OrderedFor(j)' <= Greater(0, target[j])
    OBVIOUS
  <2>1. target[j] \in Int /\ got[j] \in Nat
    BY <1>3, PlanSums
  <2>2. CASE j = i
    <3>1. OrderedFor(j)' = Wanted(i)
      BY <1>5, <2>2 DEF OrderedFor
    <3>2. algo = "twap" => got[i] = 0
      BY <1>3 DEF PlanIInv
    <3>3. got[i] + Wanted(i) = target[i]
      BY <1>3, <3>2 DEF Wanted
    <3> QED BY <1>3, <2>2, <3>1, <3>3 DEF Greater
  <2>3. CASE j # i
    <3>1. OrderedFor(j)' = 0 /\ OrderedFor(j) = 0
      BY <1>2, <1>5, <2>3 DEF OrderedFor, NotSending
    <3> QED BY <3>1 DEF PlanIInv
  <2> QED BY <2>2, <2>3
<1>8. Greater(0, 0) = 0
  BY DEF Greater
<1> QED BY <1>2, <1>5, <1>6, <1>7 DEF PlanIInv, SliceIds, Whole, SumOf, Greater

(* The order that ends filled no more than it asked for.                   *)
LEMMA OrderEndsIInv == PlanIInv /\ OrderEnds => PlanIInv'
<1> SUFFICES ASSUME PlanIInv, OrderEnds PROVE PlanIInv'
  OBVIOUS
<1>1. /\ sending # NotSending /\ sending' = NotSending
      /\ UNCHANGED <<algo, strained, target, hour, sends, withdrawn>>
  BY DEF OrderEnds
<1>2. PICK short \in Shortfalls :
          IF sending.qty > short THEN RecordFill(sending.slice, sending.qty - short)
          ELSE UNCHANGED <<got, closed, finished>>
  BY DEF OrderEnds
<1> DEFINE i == sending.slice
           qty == sending.qty - short
<1>3. /\ PlanTypeOK /\ Len(target) \in Nat /\ short \in Nat
      /\ sending \in [slice : 0..Len(target), qty : Nat]
      /\ \A j \in SliceIds : target[j] \in Int /\ got[j] \in Nat
  BY PlanSums, ExecutionAssumption DEF PlanIInv, PlanTypeOK
<1>4. i \in SliceIds
  <2>1. i # 0
    <3>1. sending = [slice |-> sending.slice, qty |-> sending.qty]
      BY <1>3
    <3> QED BY <1>1, <3>1 DEF PlanIInv, NotSending
  <2> QED BY <1>3, <2>1 DEF SliceIds
<1>5. sending'.slice = 0 /\ sending'.qty = 0 /\ sending' \in [slice : 0..Len(target), qty : Nat]
  BY <1>1, <1>3 DEF NotSending
<1>6. \A j \in SliceIds : OrderedFor(j)' = 0
  BY <1>5 DEF OrderedFor, SliceIds
<1>7. CASE ~(sending.qty > short)
  <2>1. UNCHANGED <<got, closed, finished>>
    BY <1>2, <1>7
  <2>2. PlanTypeOK'
    BY <1>1, <1>3, <1>5, <2>1 DEF PlanTypeOK, SliceIds
  <2>3. \A j \in SliceIds : algo # "is" => got[j] <= Greater(0, target[j])
    <3>1. \A j \in SliceIds : OrderedFor(j) \in Nat
      BY <1>3 DEF OrderedFor
    <3>2. \A j \in SliceIds : Greater(0, target[j]) \in Int
      BY <1>3 DEF Greater
    <3> QED BY <1>3, <3>1, <3>2 DEF PlanIInv
  <2>4. \A j \in SliceIds : algo # "is" => got'[j] + OrderedFor(j)' <= Greater(0, target[j])
    BY <1>3, <1>6, <2>1, <2>3
  <2> QED BY <1>1, <1>5, <2>1, <2>2, <2>4 DEF PlanIInv, SliceIds, Whole, SumOf, Greater
<1>8. CASE sending.qty > short
  <2>1. /\ got' = [got EXCEPT ![i] = @ + qty]
        /\ closed' = [closed EXCEPT ![i] = @ \/ Closes(i, qty)]
        /\ finished' = (finished \/ 1000 * (SumOf(got) + qty) >= 999 * Total)
    BY <1>2, <1>8 DEF RecordFill
  <2>2. qty \in Nat /\ qty >= 1 /\ qty <= sending.qty
    BY <1>3, <1>8
  <2>3. (closed[i] \/ Closes(i, qty)) \in BOOLEAN
    <3>1. \A a, b : (a \/ b) \in BOOLEAN
      OBVIOUS
    <3> QED BY <3>1
  <2>4. /\ got' \in [SliceIds -> Nat] /\ closed' \in [SliceIds -> BOOLEAN]
        /\ got'[i] = got[i] + qty /\ \A j \in SliceIds : j # i => got'[j] = got[j]
        /\ closed'[i] = (closed[i] \/ Closes(i, qty))
        /\ \A j \in SliceIds : j # i => closed'[j] = closed[j]
    <3> HIDE DEF qty, i
    <3>1. got \in [SliceIds -> Nat] /\ closed \in [SliceIds -> BOOLEAN]
      BY <1>3 DEF PlanTypeOK
    <3> QED BY <1>4, <2>1, <2>2, <2>3, <3>1
  <2>5. finished' \in BOOLEAN
    BY <2>1, <1>3 DEF PlanTypeOK
  <2>6. PlanTypeOK'
    BY <1>1, <1>3, <1>5, <2>4, <2>5 DEF PlanTypeOK, SliceIds
  <2>7. \A j \in SliceIds : algo # "is" => got'[j] + OrderedFor(j)' <= Greater(0, target[j])
    <3> SUFFICES ASSUME NEW j \in SliceIds, algo # "is" PROVE got'[j] <= Greater(0, target[j])
      BY <1>6, <2>4
    <3>1. Greater(0, target[j]) \in Int /\ got[j] + OrderedFor(j) <= Greater(0, target[j])
      BY <1>3 DEF PlanIInv, Greater
    <3>2. OrderedFor(j) = (IF j = i THEN sending.qty ELSE 0)
      BY DEF OrderedFor
    <3> QED BY <1>3, <2>2, <2>4, <3>1, <3>2
  <2>8. SumOf(got') = SumOf(got) + qty /\ SumOf(got) \in Int /\ SumOf(got') \in Int
    <3> HIDE DEF qty, i
    <3>1. /\ SumOf(got) = SumFunctionOnSet(got, SliceIds) /\ SumOf(got) \in Int
          /\ IsFiniteSet(SliceIds) /\ \A j \in SliceIds : got[j] \in Int
      BY <1>3, PlanSums
    <3>2. SumOf(got') = SumFunctionOnSet(got', SliceIds) /\ \A j \in SliceIds : got'[j] \in Int
      BY <2>4 DEF SumOf, SumFunction
    <3>3. SumFunctionOnSet(got', SliceIds) = SumFunctionOnSet(got, SliceIds) + got'[i] - got[i]
      BY <1>4, <2>4, <3>1, <3>2, SumChange
    <3> QED BY <1>4, <2>2, <2>4, <3>1, <3>2, <3>3
  <2>9. ~finished' => 1000 * SumOf(got)' < 999 * Total
    <3>1. ~finished' => ~(1000 * (SumOf(got) + qty) >= 999 * Total)
      BY <2>1
    <3> QED BY <2>8, <3>1, PlanNumbers
  <2>10. ASSUME NEW j \in SliceIds
         PROVE  /\ algo = "twap" /\ ~closed'[j] => got'[j] = 0
                /\ algo = "vwap" /\ closed'[j] /\ ~withdrawn => 100 * got'[j] >= 99 * target[j]
                /\ algo = "vwap" /\ withdrawn => closed'[j]
    <3>1. CASE j # i
      BY <2>4, <3>1 DEF PlanIInv
    <3>2. CASE j = i
      <4>1. algo = "twap" => closed'[i]
        BY <2>4 DEF Closes
      <4>2. algo = "vwap" => Closes(i, qty) = (100 * got'[i] >= 99 * target[i])
        BY <2>4 DEF Closes
      <4>3. algo = "vwap" /\ closed'[i] /\ ~withdrawn => 100 * got'[i] >= 99 * target[i]
        <5>1. closed[i] /\ algo = "vwap" /\ ~withdrawn => 100 * got[i] >= 99 * target[i]
          BY <1>4 DEF PlanIInv
        <5>2. algo = "vwap" /\ closed'[i] => closed[i] \/ 100 * got'[i] >= 99 * target[i]
          BY <2>4, <4>2
        <5>3. got[i] \in Nat /\ target[i] \in Int /\ got'[i] = got[i] + qty
          BY <1>3, <1>4, <2>4
        <5>4. 100 * got[i] >= 99 * target[i] => 100 * got'[i] >= 99 * target[i]
          BY <2>2, <5>3
        <5> QED BY <5>1, <5>2, <5>4
      <4>4. algo = "vwap" /\ withdrawn => closed'[i]
        BY <1>4, <2>4 DEF PlanIInv
      <4> QED BY <3>2, <4>1, <4>3, <4>4
    <3> QED BY <3>1, <3>2
  <2>11. withdrawn' => finished'
    BY <1>1, <2>1 DEF PlanIInv
  <2> QED BY <1>1, <1>5, <2>6, <2>7, <2>9, <2>10, <2>11 DEF PlanIInv, SliceIds, Whole, SumOf, Greater
<1> QED BY <1>7, <1>8

(* A cancellation closes what VWAP has left and empties what shortfall has *)
(* left; it marks the plan completed.                                      *)
LEMMA CancelPlanIInv == PlanIInv /\ CancelPlan => PlanIInv'
<1> SUFFICES ASSUME PlanIInv, CancelPlan PROVE PlanIInv'
  OBVIOUS
<1>1. /\ withdrawn' = TRUE /\ finished' = TRUE
      /\ closed' = (IF algo = "vwap" THEN [i \in SliceIds |-> TRUE] ELSE closed)
      /\ target' = (IF algo = "is" THEN [i \in SliceIds |-> 0] ELSE target)
      /\ UNCHANGED <<algo, strained, got, hour, sending, sends>>
  BY DEF CancelPlan
<1>2. PlanTypeOK /\ Len(target) \in Nat /\ DOMAIN target = SliceIds
  BY PlanSums DEF PlanIInv
<1>3. target' \in Seq(Int) /\ Len(target') = Len(target) /\ SliceIds' = SliceIds
  <2>1. CASE algo = "is"
    BY <1>1, <1>2, <2>1 DEF SliceIds
  <2>2. CASE algo # "is"
    BY <1>1, <1>2, <2>2 DEF SliceIds, PlanTypeOK
  <2> QED BY <2>1, <2>2
<1>4. closed' \in [SliceIds -> BOOLEAN]
  BY <1>1, <1>2 DEF PlanTypeOK
<1>5. PlanTypeOK'
  BY <1>1, <1>2, <1>3, <1>4 DEF PlanTypeOK
<1>6. algo # "is" => target' = target
  BY <1>1
<1>7. algo # "is" /\ ~Whole' => strained
  BY <1>3, <1>6 DEF PlanIInv, Whole
<1>8. algo # "is" => SumOf(target)' = Total
  BY <1>6 DEF PlanIInv
<1> QED BY <1>1, <1>3, <1>5, <1>6, <1>7, <1>8 DEF PlanIInv, OrderedFor

LEMMA PlanNextIInv == PlanIInv /\ [PlanNext]_planVars => PlanIInv'
<1>1. PlanIInv /\ UNCHANGED planVars => PlanIInv'
  BY DEF planVars, PlanIInv, PlanTypeOK, SliceIds, OrderedFor, Whole, SumOf
<1> QED BY <1>1, TimeIInv, DriverIInv, OrderEndsIInv, CancelPlanIInv DEF PlanNext

(* What the slices got and are to get adds up to what they are to trade.   *)
LEMMA PlanInvImplies == PlanIInv => PlansAccounted
<1> SUFFICES ASSUME PlanIInv PROVE PlansAccounted
  OBVIOUS
<1> DEFINE S == SliceIds
<1>1. /\ PlanTypeOK /\ Len(target) \in Nat /\ IsFiniteSet(S)
      /\ \A i \in S : target[i] \in Int /\ got[i] \in Nat /\ got[i] \in Int
      /\ SumOf(target) = SumFunctionOnSet(target, S)
      /\ SumOf(got) = SumFunctionOnSet(got, S)
      /\ SumOf(target) \in Int /\ SumOf(got) \in Int
      /\ sending.slice \in 0..Len(target) /\ sending.qty \in Nat
      /\ algo \in {"twap", "vwap", "is"}
  BY PlanSums DEF PlanIInv, PlanTypeOK
<1>2. ASSUME algo # "is", Whole PROVE SumOf(got) + sending.qty <= Total
  <2> DEFINE reach == [i \in S |-> got[i] + OrderedFor(i)]
  <2>1. \A i \in S : reach[i] = got[i] + OrderedFor(i) /\ reach[i] \in Int /\ reach[i] <= target[i]
    <3>1. \A i \in S : OrderedFor(i) \in Nat /\ target[i] >= 0
      BY <1>1, <1>2 DEF OrderedFor, Whole
    <3> QED BY <1>1, <1>2, <3>1 DEF PlanIInv, Greater
  <2> HIDE DEF reach, S
  <2>2. SumFunctionOnSet(reach, S) <= SumFunctionOnSet(target, S)
    BY <1>1, <2>1, SumAtMost
  <2>3. SumFunctionOnSet(reach, S) = SumOf(got) + sending.qty
    <3> DEFINE i == sending.slice
    <3>1. \A j \in S : j # i => got[j] = reach[j]
      BY <1>1, <2>1 DEF OrderedFor
    <3>2. CASE i \in S
      <4>1. reach[i] = got[i] + sending.qty
        BY <2>1, <3>2 DEF OrderedFor
      <4>2. SumFunctionOnSet(reach, S) = SumFunctionOnSet(got, S) + reach[i] - got[i]
        <5> HIDE DEF i
        <5> QED BY <1>1, <2>1, <3>1, <3>2, SumChange
      <4> QED BY <1>1, <3>2, <4>1, <4>2
    <3>3. CASE i \notin S
      <4>1. sending.qty = 0
        BY <1>1, <3>3 DEF PlanIInv, S, SliceIds
      <4>2. SumFunctionOnSet(reach, S) = SumFunctionOnSet(got, S)
        <5> HIDE DEF i
        <5> QED BY <1>1, <2>1, <3>1, <3>3, SumChange
      <4> QED BY <1>1, <4>1, <4>2
    <3> QED BY <3>2, <3>3
  <2>4. SumOf(target) = Total
    BY <1>2 DEF PlanIInv
  <2> QED BY <1>1, <2>2, <2>3, <2>4
<1>3. ASSUME withdrawn, algo # "twap" PROVE Pending = {}
  <2>1. CASE algo = "vwap"
    BY <1>3, <2>1 DEF Pending, PlanIInv
  <2>2. CASE algo = "is"
    BY <1>3, <2>2 DEF Pending, PlanIInv
  <2> QED BY <1>1, <1>3, <2>1, <2>2
<1>4. ASSUME ~finished PROVE \E i \in S : got[i] < target[i]
  <2> SUFFICES ASSUME \A i \in S : ~(got[i] < target[i]) PROVE FALSE
    OBVIOUS
  <2>1. \A i \in S : target[i] <= got[i]
    BY <1>1
  <2> HIDE DEF S
  <2>2. SumFunctionOnSet(target, S) <= SumFunctionOnSet(got, S)
    BY <1>1, <2>1, SumAtMost
  <2>3. SumOf(target) = Total /\ 1000 * SumOf(got) < 999 * Total
    BY <1>4 DEF PlanIInv
  <2> QED BY <1>1, <2>2, <2>3, PlanNumbers
<1>5. ASSUME algo = "vwap", ~withdrawn, \A i \in S : closed[i]
      PROVE  100 * SumOf(got) >= 99 * Total
  <2> DEFINE f == [i \in S |-> 99 * target[i]]
             g == [i \in S |-> 100 * got[i]]
  <2>1. \A i \in S : f[i] = 99 * target[i] /\ g[i] = 100 * got[i] /\ f[i] \in Int /\ g[i] \in Int
                     /\ f[i] <= g[i]
    BY <1>1, <1>5 DEF PlanIInv
  <2> HIDE DEF f, g, S
  <2>2. SumFunctionOnSet(f, S) <= SumFunctionOnSet(g, S)
    BY <1>1, <2>1, SumAtMost
  <2>3. SumFunctionOnSet(f, S) = 99 * SumFunctionOnSet(target, S)
    BY <1>1, <2>1, SumScale
  <2>4. SumFunctionOnSet(g, S) = 100 * SumFunctionOnSet(got, S)
    BY <1>1, <2>1, SumScale
  <2>5. SumOf(target) = Total
    BY <1>5 DEF PlanIInv
  <2> QED BY <1>1, <2>2, <2>3, <2>4, <2>5
<1> QED BY <1>1, <1>2, <1>3, <1>4, <1>5 DEF PlansAccounted, PlanIInv

(* A driver that trades whatever it is offered never trades more than the  *)
(* total, unless a minimum enlarged a slice; a plan with nothing left to   *)
(* offer that is not completed had an order fall short.                    *)
THEOREM PlansKeepTotals == PlanSpec => []PlansAccounted
BY PlanInitIInv, PlanNextIInv, PlanInvImplies, PTL DEF PlanSpec

=============================================================================
