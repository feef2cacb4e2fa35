----------------------------- MODULE AuditTrail -----------------------------
(***************************************************************************)
(* The audit log of monitoring/audit_log.py: an append-only list of at     *)
(* most max_entries, and three indices from a strategy, a type and a       *)
(* symbol to positions in the list, rebuilt whenever the oldest entries    *)
(* are thrown away. Queries look entries up through the indices.           *)
(*                                                                         *)
(* What the log_... methods put into an entry beside strategy, type,       *)
(* symbol and time is left out.                                            *)
(***************************************************************************)
EXTENDS Integers, Sequences, FiniteSets

CONSTANTS
    AuditStrategies,  \* names of strategies
    AuditSymbols,     \* names of symbols
    NoName,           \* the empty name
    MaxEntries,       \* max_entries
    MaxLogged         \* bound on the entries logged

AuditTypes == {"trade", "config_change", "system_event"}

ASSUME AuditAssumption ==
    /\ NoName \notin AuditStrategies \cup AuditSymbols \cup AuditTypes
    /\ MaxEntries \in Nat \ {0} /\ MaxLogged \in Nat

VARIABLES
    entries,     \* _entries
    byStrategy,  \* _index_by_strategy
    byType,      \* _index_by_type
    bySymbol,    \* _index_by_symbol
    trail        \* history: everything ever logged

auditVars == <<entries, byStrategy, byType, bySymbol, trail>>

\* What the methods log: trades carry strategy and symbol, changes of
\* configuration, lifecycle and risk breaches a strategy, manual actions and
\* system events neither
Shapes ==
    (AuditStrategies \X {"trade"} \X AuditSymbols)
      \cup (AuditStrategies \X {"config_change"} \X {NoName})
      \cup {<<NoName, "system_event", NoName>>}

AuditEntry(shape, at) ==
    [strategy |-> shape[1], type |-> shape[2], symbol |-> shape[3], at |-> at]

AuditEntries == {AuditEntry(s, n) : s \in Shapes, n \in 1..MaxLogged}

AuditTypeOK ==
    /\ entries \in Seq(AuditEntries) /\ trail \in Seq(AuditEntries)
    /\ byStrategy \in [AuditStrategies -> Seq(Nat)]
    /\ byType \in [AuditTypes -> Seq(Nat)]
    /\ bySymbol \in [AuditSymbols -> Seq(Nat)]

AuditInit ==
    /\ entries = <<>> /\ trail = <<>>
    /\ byStrategy = [s \in AuditStrategies |-> <<>>]
    /\ byType = [t \in AuditTypes |-> <<>>]
    /\ bySymbol = [y \in AuditSymbols |-> <<>>]

-----------------------------------------------------------------------------

\* index[name], with position n at its end
Indexed(index, name, n) ==
    [x \in DOMAIN index |-> IF x = name THEN Append(index[x], n) ELSE index[x]]

\* _rebuild_indices: the positions in `list` whose entry has `name` in `field`
Positions(list, field, name) ==
    LET at[n \in 0..Len(list)] ==
          IF n = 0 THEN <<>>
          ELSE IF list[n][field] = name THEN Append(at[n - 1], n) ELSE at[n - 1]
    IN at[Len(list)]

Rebuilt(list, field, names) == [x \in names |-> Positions(list, field, x)]

\* mutant: the indices of a full log are not rebuilt
LogStale(shape) ==
    LET entry == AuditEntry(shape, Len(trail) + 1)
        n == Len(entries) + 1
    IN  /\ Len(trail) < MaxLogged
        /\ trail' = Append(trail, entry)
        /\ entries' = IF n <= MaxEntries THEN Append(entries, entry)
                      ELSE Tail(Append(entries, entry))
        /\ byStrategy' = Indexed(byStrategy, entry.strategy, n)
        /\ byType' = Indexed(byType, entry.type, n)
        /\ bySymbol' = Indexed(bySymbol, entry.symbol, n)

(* The log_... methods and _append: the entry is added to the list and to  *)
(* the indices of the names it has; a list that is too long loses its      *)
(* oldest entry, and then the indices are built anew.                      *)
Log(shape) ==
    LET entry == AuditEntry(shape, Len(trail) + 1)
        n == Len(entries) + 1
        kept == Tail(Append(entries, entry))
    IN  /\ Len(trail) < MaxLogged
        /\ trail' = Append(trail, entry)
        /\ \/ /\ n <= MaxEntries
              /\ entries' = Append(entries, entry)
              /\ byStrategy' = Indexed(byStrategy, entry.strategy, n)
              /\ byType' = Indexed(byType, entry.type, n)
              /\ bySymbol' = Indexed(bySymbol, entry.symbol, n)
           \/ /\ n > MaxEntries
              /\ entries' = kept
              /\ byStrategy' = Rebuilt(kept, "strategy", AuditStrategies)
              /\ byType' = Rebuilt(kept, "type", AuditTypes)
              /\ bySymbol' = Rebuilt(kept, "symbol", AuditSymbols)

AuditNext == \E shape \in Shapes : Log(shape)

AuditSpec == AuditInit /\ [][AuditNext]_auditVars

-----------------------------------------------------------------------------
(* Queries                                                                 *)

\* A query names a strategy, a type and a symbol, or none of them, the first
\* and the last time, and how many entries to return
AuditQueries ==
    [strategy : AuditStrategies \cup {NoName}, type : AuditTypes \cup {NoName},
     symbol : AuditSymbols \cup {NoName}, from : {1, 3}, to : {3, MaxLogged}, limit : {1, 2}]

Listed(index, name) ==
    IF name = NoName THEN 1..Len(entries) ELSE {index[name][i] : i \in 1..Len(index[name])}

(* query: the intersection of what the indices list, newest first, those   *)
(* out of the time asked for left out, up to the limit.                    *)
Query(q) ==
    LET candidates == Listed(byStrategy, q.strategy) \cap Listed(byType, q.type)
                        \cap Listed(bySymbol, q.symbol)
        inTime == {i \in candidates : entries[i].at \in q.from..q.to}
    IN {i \in inTime : Cardinality({j \in inTime : j > i}) < q.limit}

-----------------------------------------------------------------------------
(* Properties                                                              *)

Suits(e, q) ==
    /\ q.strategy \in {NoName, e.strategy} /\ q.type \in {NoName, e.type}
    /\ q.symbol \in {NoName, e.symbol} /\ e.at \in q.from..q.to

(* The log holds the newest max_entries of all that was logged, in order;  *)
(* no index lists a position twice, out of order or beyond the list; and a *)
(* query answered through the indices returns what a search of the whole   *)
(* log would: the newest entries that suit it, as many as asked for.       *)
AuditAnswers ==
    /\ entries = SubSeq(trail, Len(trail) - Len(entries) + 1, Len(trail))
    /\ Len(entries) = (IF Len(trail) < MaxEntries THEN Len(trail) ELSE MaxEntries)
    /\ \A t \in AuditTypes : byType[t] = Positions(entries, "type", t)
    /\ \A q \in AuditQueries :
          LET suiting == {e \in 1..Len(entries) : Suits(entries[e], q)}
          IN Query(q) = {e \in suiting : Cardinality({d \in suiting : d > e}) < q.limit}
=============================================================================
