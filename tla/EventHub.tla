------------------------------ MODULE EventHub ------------------------------
(***************************************************************************)
(* The synchronous event bus of infrastructure/event_bus.py. publish calls *)
(* the handlers of the event's type and then the global ones, in a loop    *)
(* over the very lists that subscribe and unsubscribe change. A handler is *)
(* any code: while it runs it may subscribe, unsubscribe, publish another  *)
(* event before the first is delivered to everybody, or raise, which is    *)
(* caught and logged.                                                      *)
(*                                                                         *)
(* One thread. A handler is subscribed to a type, and globally, at most    *)
(* once at a time. Left out: the contents of events, and a depth of        *)
(* publishes at which the interpreter gives up.                            *)
(***************************************************************************)
EXTENDS Integers, Sequences, FiniteSets, SequencesExt

CONSTANTS
    Topics,       \* event types
    Handlers,     \* handlers
    MaxPublished, \* bound on the number of events
    MaxNesting,   \* bound on publishes inside each other
    MaxChanges,   \* bound on subscriptions, their ends and clearings of the history
    MaxHistory    \* _max_history

ASSUME HubAssumption ==
    /\ MaxPublished \in Nat /\ MaxChanges \in Nat
    /\ MaxNesting \in Nat \ {0} /\ MaxHistory \in Nat \ {0}

VARIABLES
    subscribers, \* subscribers[t]: _handlers[t]
    everyTopic,  \* _global_handlers
    past,        \* _history: numbers of events, in the order of publishing
    loops,       \* the publishes under way, the innermost last
    eventCount,  \* history: number of events published
    changes,     \* history: number of changes of lists by others than publish
    received,    \* history: received[h]: the events h was called with
    amid         \* history: amid[e]: the publishes e was published in the middle of

hubVars == <<subscribers, everyTopic, past, loops, eventCount, changes, received, amid>>

Events == 1..MaxPublished

(* A publish: its loop, the index of the list's iterator, whether a        *)
(* handler runs, the handlers this loop called, and how often a handler it *)
(* had passed was taken out of its list.                                   *)
Frame(event, topic, loop, next, busy, called, shifts) ==
    [event |-> event, topic |-> topic, loop |-> loop, next |-> next, busy |-> busy,
     called |-> called, shifts |-> shifts]

HubTypeOK ==
    /\ subscribers \in [Topics -> Seq(Handlers)] /\ everyTopic \in Seq(Handlers)
    /\ past \in Seq(Events) /\ Len(past) <= MaxHistory
    /\ loops \in Seq([event : Events, topic : Topics, loop : {"topic", "global"}, next : Nat,
                      busy : BOOLEAN, called : Seq(Handlers), shifts : Nat])
    /\ Len(loops) <= MaxNesting
    /\ eventCount \in 0..MaxPublished /\ changes \in 0..MaxChanges
    /\ received \in [Handlers -> Seq(Events)] /\ amid \in [Events -> SUBSET Events]

HubInit ==
    /\ subscribers = [t \in Topics |-> <<>>] /\ everyTopic = <<>>
    /\ past = <<>> /\ loops = <<>> /\ eventCount = 0 /\ changes = 0
    /\ received = [h \in Handlers |-> <<>>] /\ amid = [e \in Events |-> {}]

-----------------------------------------------------------------------------

\* Code other than publish's own loop runs: the program, or the innermost handler
Free == loops # <<>> => Last(loops).busy

\* One more change of the lists
Changed == changes < MaxChanges /\ changes' = changes + 1

\* The list the loop of f goes through, as it is now
LoopOf(f) == IF f.loop = "topic" THEN subscribers[f.topic] ELSE everyTopic

Subscribe(t, h) ==
    /\ Free /\ Changed /\ ~Contains(subscribers[t], h)
    /\ subscribers' = [subscribers EXCEPT ![t] = Append(@, h)]
    /\ UNCHANGED <<everyTopic, past, loops, eventCount, received, amid>>

SubscribeAll(h) ==
    /\ Free /\ Changed /\ ~Contains(everyTopic, h)
    /\ everyTopic' = Append(everyTopic, h)
    /\ UNCHANGED <<subscribers, past, loops, eventCount, received, amid>>

(* The list closes up. A loop that is past the gap goes on with the same   *)
(* index and so passes over one handler. (Of one that is not subscribed,   *)
(* unsubscribe does nothing.)                                              *)
Unsubscribe(t, h) ==
    /\ Free /\ Changed /\ Contains(subscribers[t], h)
    /\ LET gap == CHOOSE i \in DOMAIN subscribers[t] : subscribers[t][i] = h
           Passed(f) == f.topic = t /\ f.loop = "topic" /\ gap < f.next
       IN  /\ subscribers' = [subscribers EXCEPT ![t] = RemoveAt(@, gap)]
           /\ loops' = [i \in DOMAIN loops |->
                          IF Passed(loops[i]) THEN [loops[i] EXCEPT !.shifts = @ + 1]
                          ELSE loops[i]]
    /\ UNCHANGED <<everyTopic, past, eventCount, received, amid>>

\* The history keeps the latest events only
Remembered(e) ==
    LET all == Append(past, e) IN
    SubSeq(all, 1 + IF Len(all) > MaxHistory THEN Len(all) - MaxHistory ELSE 0, Len(all))

Publish(t) ==
    /\ Free /\ eventCount < MaxPublished /\ Len(loops) < MaxNesting
    /\ eventCount' = eventCount + 1
    /\ past' = Remembered(eventCount + 1)
    /\ loops' = Append(loops, Frame(eventCount + 1, t, "topic", 1, FALSE, <<>>, 0))
    /\ amid' = [amid EXCEPT ![eventCount + 1] = {loops[i].event : i \in DOMAIN loops}]
    /\ UNCHANGED <<subscribers, everyTopic, received, changes>>

ClearHistory ==
    /\ Free /\ Changed /\ past' = <<>>
    /\ UNCHANGED <<subscribers, everyTopic, loops, eventCount, received, amid>>

\* mutant: every loop delivers the latest event instead of its own
CallLatest(f) == eventCount

\* The event a handler is called with
EventOf(f) == f.event

\* The innermost loop calls the handler its iterator has reached
CallHandler ==
    /\ loops # <<>> /\ ~Last(loops).busy
    /\ LET f == Last(loops)
           list == LoopOf(f)
       IN  /\ f.next <= Len(list)
           /\ received' = [received EXCEPT ![list[f.next]] = Append(@, EventOf(f))]
           /\ loops' = [loops EXCEPT ![Len(loops)] =
                          [f EXCEPT !.next = @ + 1, !.busy = TRUE,
                                    !.called = Append(@, list[f.next])]]
    /\ UNCHANGED <<subscribers, everyTopic, past, eventCount, amid, changes>>

\* The handler returns or raises
HandlerEnds ==
    /\ loops # <<>> /\ Last(loops).busy
    /\ loops' = [loops EXCEPT ![Len(loops)] = [@ EXCEPT !.busy = FALSE]]
    /\ UNCHANGED <<subscribers, everyTopic, past, eventCount, received, amid, changes>>

Exhausted(f) == ~f.busy /\ f.next > Len(LoopOf(f))

\* The handlers of the type are through, the global ones follow; then publish returns
EndLoop ==
    /\ loops # <<>> /\ Exhausted(Last(loops))
    /\ LET f == Last(loops) IN
       loops' = IF f.loop = "topic"
                THEN Append(Front(loops), Frame(f.event, f.topic, "global", 1, FALSE, <<>>, 0))
                ELSE Front(loops)
    /\ UNCHANGED <<subscribers, everyTopic, past, eventCount, received, amid, changes>>

HubNext ==
    \/ CallHandler \/ HandlerEnds \/ EndLoop \/ ClearHistory
    \/ \E t \in Topics : Publish(t) \/ \E h \in Handlers : Subscribe(t, h) \/ Unsubscribe(t, h)
    \/ \E h \in Handlers : SubscribeAll(h)

HubSpec == HubInit /\ [][HubNext]_hubVars

-----------------------------------------------------------------------------
(* Properties                                                              *)

(* A publish reaches its handlers, with its own event whatever they        *)
(* publish meanwhile, in the order of their subscription, also those that  *)
(* subscribe while it is under way, except that each unsubscription of a   *)
(* handler already called may cost another one the event: a handler that   *)
(* unsubscribes itself silences the next. Nothing unsubscribes global      *)
(* handlers, so these never miss one. A handler gets a later event before  *)
(* an earlier one only if the later was published during the delivery of   *)
(* the earlier. The history is a run of events that ends with the latest   *)
(* (publish and unsubscribe of infrastructure/event_bus.py).               *)
HubDelivers ==
    /\ \A i \in DOMAIN loops :
          LET f == loops[i]
              list == LoopOf(f)
              passed == {list[k] : k \in {n \in DOMAIN list : n < f.next}}
          IN  /\ f.shifts = 0 => f.called = SubSeq(list, 1, f.next - 1)
              /\ \A h \in ToSet(f.called) : Contains(received[h], f.event)
              /\ Cardinality(passed \ ToSet(f.called)) <= f.shifts
              /\ f.loop = "global" => f.shifts = 0
    /\ \A h \in Handlers : \A i, j \in DOMAIN received[h] :
          i < j /\ received[h][i] > received[h][j] => received[h][j] \in amid[received[h][i]]
    /\ \A i \in DOMAIN past : past[i] = eventCount - Len(past) + i
=============================================================================
