--------------------------- MODULE TelemetryProofs ---------------------------
(***************************************************************************)
(* Proofs about Telemetry, for any number of calls, keys and hooks, and    *)
(* whatever the tools do that call it.                                     *)
(***************************************************************************)
EXTENDS Telemetry, FiniteSetTheorems, SequenceTheorems, TLAPS

\* The records of the log and of the snapshot.
LogEntries == [call: Calls, key: Keys, number: Nat, id: Calls]

Views ==
    [taken: BOOLEAN, left: SUBSET Keys,
     calls: [Keys -> Nat], total: [Keys -> Nat], open: [Keys -> Nat]]

\* The entries of one call.
EntriesOf(c) == {e \in log : e.call = c}

\* Calls that are counted under a key and not in the log yet.
Pending(key) == {c \in Calls : Writing(c, key) /\ at[c] \in {"total", "sum", "log"}}

-----------------------------------------------------------------------------
(***************************************************************************)
(* The inductive invariant.                                                *)
(***************************************************************************)
Types ==
    /\ metrics \in [Keys -> Nat] /\ totals \in [Keys -> Nat]
    /\ hooks \in HookLists
    /\ ids \in [Calls -> Calls \cup {NoId}]
    /\ at \in [Calls -> Stages]
    /\ entry \in [Calls -> Entries \cup {NoEntry}]
    /\ loaded \in [Calls -> Nat]
    /\ todo \in [Calls -> HookLists] /\ due \in [Calls -> HookLists] /\ told \in [Calls -> HookLists]
    /\ log \subseteq LogEntries /\ IsFiniteSet(log)
    /\ raced \subseteq Keys
    /\ view \in Views

\* A call that writes an entry writes its own, under its own id, and the next in number.
OwnEntry(c) ==
    /\ at[c] = "idle" <=> entry[c] = NoEntry
    /\ at[c] # "idle" => entry[c].call = c /\ ids[c] = c
    /\ at[c] \notin {"idle", "notify"} => entry[c].number = Cardinality(EntriesOf(c))

\* The entries of a call are numbered from 0, and carry its id.
Numbered == \A e \in log : e.id = e.call /\ e.number < Cardinality(EntriesOf(e.call))

\* What a call has read of a counter was never more than there was to count; and it
\* is what the counter says still, if nobody raced it.
HasLoaded(c) ==
    /\ at[c] = "add" =>
           /\ loaded[c] <= Counted(entry[c].key)
           /\ entry[c].key \notin raced =>
                  /\ loaded[c] = metrics[entry[c].key]
                  /\ \A d \in Calls : at[d] = "add" /\ Writing(d, entry[c].key) => d = c
    /\ at[c] = "sum" =>
           /\ loaded[c] <= Totalled(entry[c].key)
           /\ entry[c].key \notin raced =>
                  /\ loaded[c] = totals[entry[c].key]
                  /\ \A d \in Calls : at[d] = "sum" /\ Writing(d, entry[c].key) => d = c

\* The rows that are not made yet will cover their calls as well.
Covers(key) ==
    key \notin raced =>
        /\ view.calls[key] <= Totalled(key) + view.open[key]
        /\ key \notin view.left => view.calls[key] <= view.total[key] + view.open[key]

\* The hooks that are not told yet are those that remain.
Telling(c) ==
    /\ at[c] = "notify" => told[c] \o todo[c] = due[c]
    /\ at[c] # "notify" => told[c] = <<>>

TInv ==
    /\ Types /\ Numbered /\ CountsMatchLog
    /\ \A c \in Calls : OwnEntry(c) /\ HasLoaded(c) /\ Telling(c)
    /\ \A key \in Keys : Covers(key)

-----------------------------------------------------------------------------
(***************************************************************************)
(* Lists of hooks, and counting.                                           *)
(***************************************************************************)

\* The lists of hooks are the short sequences of hooks.
LEMMA HookListIs == \A list : list \in HookLists <=> list \in Seq(Hooks) /\ Len(list) <= MaxHooks
<1> USE MaxHooksAssumption
<1>1. ASSUME NEW list \in HookLists PROVE list \in Seq(Hooks) /\ Len(list) <= MaxHooks
  <2>1. PICK n \in 0..MaxHooks : list \in [1..n -> Hooks]
    BY DEF HookLists
  <2>2. list \in Seq(Hooks)
    BY <2>1, SeqDef
  <2>3. Len(list) = n
    BY <2>1, <2>2, LenProperties
  <2>4. QED
    BY <2>2, <2>3
<1>2. ASSUME NEW list \in Seq(Hooks), Len(list) <= MaxHooks PROVE list \in HookLists
  <2>1. Len(list) \in 0..MaxHooks /\ list \in [1..Len(list) -> Hooks]
    BY <1>2, LenProperties
  <2>2. QED
    BY <2>1 DEF HookLists
<1>3. QED
  BY <1>1, <1>2

\* So is the empty list.
LEMMA EmptyHookList == <<>> \in HookLists
<1>1. <<>> \in [1..0 -> Hooks]
  OBVIOUS
<1>2. QED
  BY <1>1, MaxHooksAssumption DEF HookLists

\* Telling the next hook moves it from one list to the other.
LEMMA TellNext ==
  ASSUME NEW done \in Seq(Hooks), NEW rest \in Seq(Hooks), rest # <<>>
  PROVE  /\ Append(done, Head(rest)) \o Tail(rest) = done \o rest
         /\ Append(done, Head(rest)) \in Seq(Hooks) /\ Tail(rest) \in Seq(Hooks)
         /\ Len(Append(done, Head(rest))) <= Len(done \o rest)
         /\ Len(Tail(rest)) <= Len(done \o rest)
<1>1. Head(rest) \in Hooks /\ Tail(rest) \in Seq(Hooks) /\ Len(Tail(rest)) = Len(rest) - 1
      /\ \A i \in 1..Len(Tail(rest)) : Tail(rest)[i] = rest[i + 1]
      /\ Head(rest) = rest[1]
  BY HeadTailProperties
<1>2. Append(done, Head(rest)) \in Seq(Hooks) /\ Len(Append(done, Head(rest))) = Len(done) + 1
      /\ (\A i \in 1..Len(done) : Append(done, Head(rest))[i] = done[i])
      /\ Append(done, Head(rest))[Len(done) + 1] = Head(rest)
  BY <1>1, AppendProperties
<1>3. Len(done) \in Nat /\ Len(rest) \in Nat \ {0}
  BY EmptySeq, LenProperties
<1>4. done \o rest \in Seq(Hooks) /\ Len(done \o rest) = Len(done) + Len(rest)
      /\ \A i \in 1..Len(done) + Len(rest) :
            (done \o rest)[i] = IF i <= Len(done) THEN done[i] ELSE rest[i - Len(done)]
  BY ConcatProperties
<1> DEFINE told1 == Append(done, Head(rest))
           rest1 == Tail(rest)
<1>5. told1 \o rest1 \in Seq(Hooks) /\ Len(told1 \o rest1) = Len(told1) + Len(rest1)
      /\ \A i \in 1..Len(told1) + Len(rest1) :
            (told1 \o rest1)[i] = IF i <= Len(told1) THEN told1[i] ELSE rest1[i - Len(told1)]
  BY <1>1, <1>2, ConcatProperties
<1>6. ASSUME NEW i \in 1..Len(done) + Len(rest) PROVE (told1 \o rest1)[i] = (done \o rest)[i]
  <2>1. CASE i <= Len(done)
    BY <1>2, <1>3, <1>4, <1>5, <1>1, <2>1
  <2>2. CASE i = Len(done) + 1
    BY <1>1, <1>2, <1>3, <1>4, <1>5, <2>2
  <2>3. CASE i > Len(done) + 1
    <3>1. i - (Len(done) + 1) \in 1..Len(rest1) /\ (i - (Len(done) + 1)) + 1 = i - Len(done)
      BY <1>1, <1>3, <2>3
    <3>2. (told1 \o rest1)[i] = rest1[i - (Len(done) + 1)]
      BY <1>1, <1>2, <1>3, <1>5, <2>3
    <3>3. rest1[i - (Len(done) + 1)] = rest[i - Len(done)]
      BY <1>1, <3>1
    <3>4. QED
      BY <1>3, <1>4, <2>3, <3>2, <3>3
  <2>4. QED
    BY <1>3, <2>1, <2>2, <2>3
<1>7. Len(told1 \o rest1) = Len(done \o rest)
  BY <1>1, <1>2, <1>3, <1>4, <1>5
<1>8. told1 \o rest1 = done \o rest
  BY <1>3, <1>4, <1>5, <1>6, <1>7, SeqEqual
<1>9. QED
  BY <1>1, <1>2, <1>3, <1>4, <1>8

\* The sets that are counted are finite, and no duration is added before its call is
\* counted.
LEMMA CountsAre ==
  ASSUME Types, NEW key
  PROVE  /\ IsFiniteSet(Logged(key)) /\ IsFiniteSet(Pending(key)) /\ IsFiniteSet(Between(key))
         /\ Cardinality(Logged(key)) \in Nat /\ Cardinality(Pending(key)) \in Nat
         /\ Cardinality(Between(key)) \in Nat
         /\ Counted(key) = Cardinality(Logged(key)) + Cardinality(Pending(key))
         /\ Counted(key) \in Nat /\ Totalled(key) \in Nat
         /\ Totalled(key) = Counted(key) - Cardinality(Between(key))
<1>1. IsFiniteSet(log) /\ IsFiniteSet(Calls)
  BY CallsAssumption DEF Types
<1>2. Logged(key) \in SUBSET log /\ Pending(key) \in SUBSET Calls /\ Between(key) \in SUBSET Pending(key)
  BY DEF Logged, Pending, Between
<1>3. IsFiniteSet(Logged(key)) /\ IsFiniteSet(Pending(key))
  BY <1>1, <1>2, FS_Subset
<1>4. IsFiniteSet(Between(key)) /\ Cardinality(Between(key)) <= Cardinality(Pending(key))
  BY <1>2, <1>3, FS_Subset
<1>5. /\ Cardinality(Logged(key)) \in Nat /\ Cardinality(Pending(key)) \in Nat
      /\ Cardinality(Between(key)) \in Nat
  BY <1>3, <1>4, FS_CardinalityType
<1>6. Counted(key) = Cardinality(Logged(key)) + Cardinality(Pending(key))
  BY DEF Counted, Pending
<1>7. Totalled(key) = Counted(key) - Cardinality(Between(key))
  BY DEF Totalled
<1>8. Counted(key) \in Nat /\ Totalled(key) \in Nat
  BY <1>4, <1>5, <1>6, <1>7
<1>9. QED
  BY <1>3, <1>4, <1>5, <1>6, <1>7, <1>8

\* The initial state satisfies the invariant.
LEMMA InitTInv == TelemetryInit => TInv
<1> SUFFICES ASSUME TelemetryInit PROVE TInv
  OBVIOUS
<1> USE DEF TelemetryInit
<1>1. <<>> \in HookLists
  BY EmptyHookList
<1>2. Types
  <2>1. view \in Views
    BY DEF Views
  <2>2. IsFiniteSet(log)
    BY FS_EmptySet
  <2>3. QED
    BY <1>1, <2>1, <2>2 DEF Types, Stages
<1>3. ASSUME NEW key \in Keys
      PROVE  Counted(key) = 0 /\ Totalled(key) = 0 /\ metrics[key] = 0 /\ totals[key] = 0
  <2>1. Logged(key) = {} /\ Pending(key) = {} /\ Between(key) = {}
    BY DEF Logged, Pending, Between, Writing
  <2>2. QED
    BY <1>2, <2>1, CountsAre, FS_EmptySet
<1>4. CountsMatchLog /\ Numbered
  BY <1>3 DEF CountsMatchLog, Numbered
<1>5. ASSUME NEW c \in Calls PROVE OwnEntry(c) /\ HasLoaded(c) /\ Telling(c)
  <2>1. at[c] = "idle" /\ entry[c] = NoEntry /\ told[c] = <<>>
    OBVIOUS
  <2>2. QED
    BY <2>1 DEF OwnEntry, HasLoaded, Telling
<1>6. ASSUME NEW key \in Keys PROVE Covers(key)
  <2>1. view.calls[key] = 0 /\ view.open[key] = 0 /\ view.total[key] = 0
    OBVIOUS
  <2>2. QED
    BY <1>3, <2>1 DEF Covers
<1>7. QED
  BY <1>2, <1>4, <1>5, <1>6 DEF TInv

-----------------------------------------------------------------------------
(***************************************************************************)
(* The types.                                                              *)
(***************************************************************************)

\* The entry a call is writing is one.
LEMMA EntryIs ==
  ASSUME TInv, NEW c \in Calls, at[c] # "idle"
  PROVE  /\ entry[c] \in Entries /\ entry[c].key \in Keys /\ entry[c].number \in Nat
         /\ entry[c].call = c /\ ids[c] = c /\ entry[c] # NoEntry
BY DEF TInv, Types, OwnEntry, Entries

\* Registering a hook, and the two halves of a snapshot, keep the types.
LEMMA ObservingTypes == ASSUME TInv, Observing PROVE Types'
<1> USE DEF counters, notices
<1>1. ASSUME NEW hook \in Hooks, RegisterToolLifecycleHook(hook) PROVE Types'
  <2>1. hooks \in Seq(Hooks) /\ Len(hooks) < MaxHooks
    BY <1>1, HookListIs DEF RegisterToolLifecycleHook, TInv, Types
  <2>2. hooks' \in Seq(Hooks) /\ Len(hooks') = Len(hooks) + 1
    BY <1>1, <2>1, AppendProperties DEF RegisterToolLifecycleHook
  <2>3. hooks' \in HookLists
    BY <2>1, <2>2, HookListIs, LenProperties, MaxHooksAssumption
  <2>4. QED
    BY <1>1, <2>3 DEF RegisterToolLifecycleHook, TInv, Types
<1>2. ASSUME Snapshot PROVE Types'
  <2>1. \A key \in Keys : Cardinality(Between(key)) \in Nat
    BY CountsAre DEF TInv
  <2>2. view' \in Views
    BY <1>2, <2>1 DEF Snapshot, TInv, Types, Views
  <2>3. QED
    BY <1>2, <2>2 DEF Snapshot, TInv, Types
<1>3. ASSUME NEW key \in Keys, ReadRow(key) PROVE Types'
  <2>1. view' \in Views
    BY <1>3 DEF ReadRow, TInv, Types, Views
  <2>2. QED
    BY <1>3, <2>1 DEF ReadRow, TInv, Types
<1>4. QED
  BY <1>1, <1>2, <1>3 DEF Observing

\* The statements of audit_tool_call keep the types.
LEMMA AuditingTypes == ASSUME TInv, NEW c \in Calls, Auditing(c) PROVE Types'
<1> USE DEF counters, notices, Stages
<1>1. CASE ReadCount(c)
  BY <1>1, EntryIs DEF ReadCount, Load, TInv, Types
<1>2. CASE WriteCount(c)
  BY <1>2, EntryIs DEF WriteCount, TInv, Types
<1>3. CASE ReadTotal(c)
  BY <1>3, EntryIs DEF ReadTotal, Load, TInv, Types
<1>4. CASE WriteTotal(c)
  BY <1>4, EntryIs DEF WriteTotal, TInv, Types
<1>5. CASE Log(c)
  <2>1. log' \subseteq LogEntries
    BY <1>5, EntryIs DEF Log, TInv, Types, LogEntries
  <2>2. IsFiniteSet(log')
    BY <1>5, FS_AddElement DEF Log, TInv, Types
  <2>3. QED
    BY <1>5, <2>1, <2>2 DEF Log, TInv, Types
<1>6. CASE Notify(c)
  <2>1. /\ told[c] \in Seq(Hooks) /\ todo[c] \in Seq(Hooks) /\ todo[c] # <<>>
        /\ told[c] \o todo[c] = due[c] /\ Len(due[c]) <= MaxHooks /\ due[c] \in Seq(Hooks)
    BY <1>6, HookListIs DEF Notify, TInv, Types, Telling
  <2>2. Append(told[c], Head(todo[c])) \in HookLists /\ Tail(todo[c]) \in HookLists
    <3>1. /\ Append(told[c], Head(todo[c])) \in Seq(Hooks) /\ Tail(todo[c]) \in Seq(Hooks)
          /\ Len(Append(told[c], Head(todo[c]))) <= Len(due[c]) /\ Len(Tail(todo[c])) <= Len(due[c])
      BY <2>1, TellNext
    <3>2. Len(Append(told[c], Head(todo[c]))) <= MaxHooks /\ Len(Tail(todo[c])) <= MaxHooks
      BY <2>1, <3>1, LenProperties, MaxHooksAssumption
    <3>3. QED
      BY <3>1, <3>2, HookListIs
  <2>3. QED
    BY <1>6, <2>2 DEF Notify, TInv, Types
<1>7. CASE Audited(c)
  <2>1. <<>> \in HookLists
    BY EmptyHookList
  <2>2. QED
    BY <1>7, <2>1 DEF Audited, TInv, Types
<1>8. QED
  BY <1>1, <1>2, <1>3, <1>4, <1>5, <1>6, <1>7 DEF Auditing

\* So do the beginning of an entry and the setting of an id.
LEMMA BeginTypes ==
  ASSUME TInv, NEW c \in Calls, NEW key,
         \/ SetCorrelationId(c) /\ UNCHANGED <<counters, hooks, at, entry, loaded, notices, log, view>>
         \/ key \in Keys /\ Audit(c, key) /\ UNCHANGED ids
  PROVE  Types'
<1> USE DEF counters, notices, Stages
<1>1. CASE SetCorrelationId(c) /\ UNCHANGED <<counters, hooks, at, entry, loaded, notices, log, view>>
  BY <1>1 DEF SetCorrelationId, TInv, Types
<1>2. CASE key \in Keys /\ Audit(c, key) /\ UNCHANGED ids
  <2>1. EntriesOf(c) \in SUBSET log /\ IsFiniteSet(log)
    BY DEF EntriesOf, TInv, Types
  <2>2. Cardinality(EntriesOf(c)) \in Nat
    BY <2>1, FS_Subset, FS_CardinalityType
  <2>3. [call |-> c, key |-> key, number |-> Cardinality(EntriesOf(c))] \in Entries
    BY <1>2, <2>2 DEF Entries
  <2>4. entry' \in [Calls -> Entries \cup {NoEntry}]
    BY <1>2, <2>3 DEF Audit, EntriesOf, TInv, Types
  <2>5. at' \in [Calls -> Stages]
    BY <1>2 DEF Audit, TInv, Types
  <2>6. QED
    BY <1>2, <2>4, <2>5 DEF Audit, TInv, Types
<1>3. QED
  BY <1>1, <1>2

-----------------------------------------------------------------------------
(***************************************************************************)
(* What a step does to the numbers.                                        *)
(***************************************************************************)

\* A step that takes no call past a counter, nor to the log, changes no number.
LEMMA SameCounts ==
  ASSUME log' = log,
         \A d \in Calls : at'[d] \in {"total", "sum"} <=> at[d] \in {"total", "sum"},
         \A d \in Calls : at'[d] = "log" <=> at[d] = "log",
         \A d \in Calls : at[d] \in {"total", "sum", "log"} => entry'[d] = entry[d],
         NEW key
  PROVE  Counted(key)' = Counted(key) /\ Totalled(key)' = Totalled(key)
<1>1. Logged(key)' = Logged(key)
  BY DEF Logged
<1>2. Pending(key)' = Pending(key) /\ Between(key)' = Between(key)
  BY DEF Pending, Between, Writing
<1>3. QED
  BY <1>1, <1>2 DEF Counted, Totalled, Pending

\* A call is counted when its count is written.
LEMMA WriteCountCounts ==
  ASSUME TInv, NEW c \in Calls, WriteCount(c), NEW key \in Keys
  PROVE  /\ Counted(key)' = IF key = entry[c].key THEN Counted(key) + 1 ELSE Counted(key)
         /\ Totalled(key)' = Totalled(key)
<1>1. Types /\ Types'
  BY AuditingTypes DEF Auditing, TInv
<1>2. at[c] = "add" /\ at' = [at EXCEPT ![c] = "total"] /\ entry' = entry /\ log' = log
      /\ at \in [Calls -> Stages]
  BY <1>1 DEF WriteCount, Types
<1>3. Logged(key)' = Logged(key)
  BY <1>2 DEF Logged
<1>4. CASE key = entry[c].key
  <2>1. /\ c \notin Pending(key) /\ Pending(key)' = Pending(key) \cup {c}
        /\ c \notin Between(key) /\ Between(key)' = Between(key) \cup {c}
    BY <1>2, <1>4 DEF Pending, Between, Writing
  <2>2. /\ Cardinality(Pending(key)') = Cardinality(Pending(key)) + 1
        /\ Cardinality(Between(key)') = Cardinality(Between(key)) + 1
    BY <1>1, <2>1, CountsAre, FS_AddElement
  <2>3. Counted(key)' = Counted(key) + 1
    BY <1>1, <1>3, <2>2, CountsAre DEF Counted, Pending
  <2>4. QED
    BY <1>1, <1>4, <2>2, <2>3, CountsAre DEF Totalled
<1>5. CASE key # entry[c].key
  <2>1. Pending(key)' = Pending(key) /\ Between(key)' = Between(key)
    BY <1>2, <1>5 DEF Pending, Between, Writing
  <2>2. QED
    BY <1>3, <1>5, <2>1 DEF Counted, Totalled, Pending
<1>6. QED
  BY <1>4, <1>5

\* Its duration is when the total is written.
LEMMA WriteTotalCounts ==
  ASSUME TInv, NEW c \in Calls, WriteTotal(c), NEW key \in Keys
  PROVE  /\ Counted(key)' = Counted(key)
         /\ Totalled(key)' = IF key = entry[c].key THEN Totalled(key) + 1 ELSE Totalled(key)
<1>1. Types /\ Types'
  BY AuditingTypes DEF Auditing, TInv
<1>2. at[c] = "sum" /\ at' = [at EXCEPT ![c] = "log"] /\ entry' = entry /\ log' = log
      /\ at \in [Calls -> Stages]
  BY <1>1 DEF WriteTotal, Types
<1>3. Logged(key)' = Logged(key) /\ Pending(key)' = Pending(key)
  BY <1>2 DEF Logged, Pending, Writing
<1>4. Counted(key)' = Counted(key)
  BY <1>3 DEF Counted, Pending
<1>5. CASE key = entry[c].key
  <2>1. c \in Between(key) /\ Between(key)' = Between(key) \ {c}
    BY <1>2, <1>5 DEF Between, Writing
  <2>2. Cardinality(Between(key)') = Cardinality(Between(key)) - 1
    BY <1>1, <2>1, CountsAre, FS_RemoveElement
  <2>3. QED
    BY <1>1, <1>4, <1>5, <2>2, CountsAre DEF Totalled
<1>6. CASE key # entry[c].key
  <2>1. Between(key)' = Between(key)
    BY <1>2, <1>6 DEF Between, Writing
  <2>2. QED
    BY <1>4, <1>6, <2>1 DEF Totalled
<1>7. QED
  BY <1>4, <1>5, <1>6

\* Its entry takes its place when it comes into the log.
LEMMA LogCounts ==
  ASSUME TInv, NEW c \in Calls, Log(c), NEW key \in Keys
  PROVE  Counted(key)' = Counted(key) /\ Totalled(key)' = Totalled(key)
<1> DEFINE new == [call |-> c, key |-> entry[c].key, number |-> entry[c].number, id |-> ids[c]]
<1>1. Types /\ Types'
  BY AuditingTypes DEF Auditing, TInv
<1>2. at[c] = "log" /\ at' = [at EXCEPT ![c] = "notify"] /\ entry' = entry /\ log' = log \cup {new}
      /\ at \in [Calls -> Stages]
  BY <1>1 DEF Log, Types
<1>3. new \notin log
  <2>1. entry[c].number = Cardinality(EntriesOf(c))
    BY <1>2 DEF TInv, OwnEntry
  <2>2. Cardinality(EntriesOf(c)) \in Nat
    BY <1>1, <1>2, <2>1, EntryIs
  <2>3. QED
    BY <2>1, <2>2 DEF TInv, Numbered
<1>4. Between(key)' = Between(key)
  BY <1>2 DEF Between, Writing
<1>5. Counted(key)' = Counted(key)
  <2>1. CASE key = entry[c].key
    <3>1. Logged(key)' = Logged(key) \cup {new} /\ new \notin Logged(key)
      BY <1>2, <1>3, <2>1 DEF Logged
    <3>2. c \in Pending(key) /\ Pending(key)' = Pending(key) \ {c}
      BY <1>2, <2>1 DEF Pending, Writing
    <3>3. Cardinality(Logged(key)') = Cardinality(Logged(key)) + 1
      BY <1>1, <3>1, CountsAre, FS_AddElement
    <3>4. Cardinality(Pending(key)') = Cardinality(Pending(key)) - 1
      BY <1>1, <3>2, CountsAre, FS_RemoveElement
    <3>5. QED
      BY <1>1, <3>3, <3>4, CountsAre DEF Counted, Pending
  <2>2. CASE key # entry[c].key
    <3>1. Logged(key)' = Logged(key) /\ Pending(key)' = Pending(key)
      BY <1>2, <2>2 DEF Logged, Pending, Writing
    <3>2. QED
      BY <3>1 DEF Counted, Pending
  <2>3. QED
    BY <2>1, <2>2
<1>6. QED
  BY <1>4, <1>5 DEF Totalled

-----------------------------------------------------------------------------
(***************************************************************************)
(* What each call and each counter keep.                                   *)
(***************************************************************************)

\* A step of one call leaves the others where they are, with what they have.
LEMMA OthersKeep ==
  ASSUME TInv, NEW c \in Calls, NEW key \in Keys,
         Auditing(c) \/ Audit(c, key), NEW d \in Calls, d # c
  PROVE  /\ at'[d] = at[d] /\ entry'[d] = entry[d] /\ loaded'[d] = loaded[d]
         /\ todo'[d] = todo[d] /\ due'[d] = due[d] /\ told'[d] = told[d]
BY DEF TInv, Types, Auditing, Audit, ReadCount, WriteCount, ReadTotal, WriteTotal, Log, Notify,
       Audited, Load, counters, notices

\* Whoever is told of what, each hook stays on one of the two lists.
LEMMA TellingKept ==
  ASSUME TInv, NEW c \in Calls, Auditing(c), NEW d \in Calls
  PROVE  Telling(d)'
<1> USE DEF TInv, Types, Telling, notices
<1>1. CASE d # c
  <2>1. PICK key \in Keys : TRUE
    BY <1>1, EntryIs DEF Auditing, ReadCount, WriteCount, ReadTotal, WriteTotal, Log, Notify, Audited, Load
  <2>2. QED
    BY <1>1, <2>1, OthersKeep
<1>2. CASE d = c /\ (ReadCount(c) \/ WriteCount(c) \/ ReadTotal(c) \/ WriteTotal(c))
  BY <1>2 DEF ReadCount, WriteCount, ReadTotal, WriteTotal, Load
<1>3. CASE d = c /\ Log(c)
  <2>1. told'[c] = <<>> /\ todo'[c] = hooks /\ due'[c] = hooks /\ hooks \in Seq(Hooks)
    BY <1>3, HookListIs DEF Log
  <2>2. QED
    BY <1>3, <2>1, ConcatEmptySeq DEF Log
<1>4. CASE d = c /\ Notify(c)
  <2>1. /\ told[c] \in Seq(Hooks) /\ todo[c] \in Seq(Hooks) /\ todo[c] # <<>>
        /\ told[c] \o todo[c] = due[c]
    BY <1>4, HookListIs DEF Notify
  <2>2. at'[c] = "notify" /\ due'[c] = due[c]
        /\ told'[c] = Append(told[c], Head(todo[c])) /\ todo'[c] = Tail(todo[c])
    BY <1>4 DEF Notify
  <2>3. Append(told[c], Head(todo[c])) \o Tail(todo[c]) = told[c] \o todo[c]
    BY <2>1, TellNext
  <2>4. told'[c] \o todo'[c] = due'[c]
    BY <2>1, <2>2, <2>3
  <2>5. QED
    BY <1>4, <2>2, <2>4
<1>5. CASE d = c /\ Audited(c)
  BY <1>5 DEF Audited
<1>6. QED
  BY <1>1, <1>2, <1>3, <1>4, <1>5 DEF Auditing

\* The entries stay numbered: only the call itself adds to its entries, when it logs.
LEMMA NumbersKept ==
  ASSUME TInv, NEW c \in Calls, Auditing(c)
  PROVE  Numbered' /\ \A d \in Calls : OwnEntry(d)'
<1> USE DEF TInv, Types
<1>1. CASE ~Log(c)
  <2>1. log' = log /\ ids' = ids
    BY <1>1 DEF Auditing, ReadCount, WriteCount, ReadTotal, WriteTotal, Notify, Audited
  <2>2. \A d : EntriesOf(d)' = EntriesOf(d)
    BY <2>1 DEF EntriesOf
  <2>3. Numbered'
    BY <2>1, <2>2 DEF Numbered
  <2>4. ASSUME NEW d \in Calls PROVE OwnEntry(d)'
    <3>1. \/ at'[d] = at[d] /\ entry'[d] = entry[d]
          \/ at[d] \notin {"idle", "notify"} /\ at'[d] # "idle" /\ entry'[d] = entry[d]
          \/ at'[d] = "idle" /\ entry'[d] = NoEntry
      BY <1>1 DEF Auditing, ReadCount, WriteCount, ReadTotal, WriteTotal, Notify, Audited, Load
    <3>2. OwnEntry(d)
      OBVIOUS
    <3>3. QED
      BY <2>1, <2>2, <3>1, <3>2 DEF OwnEntry
  <2>5. QED
    BY <2>3, <2>4
<1>2. CASE Log(c)
  <2> DEFINE new == [call |-> c, key |-> entry[c].key, number |-> entry[c].number, id |-> ids[c]]
  <2>1. /\ at[c] = "log" /\ at' = [at EXCEPT ![c] = "notify"] /\ entry' = entry /\ ids' = ids
        /\ log' = log \cup {new}
    BY <1>2 DEF Log
  <2>2. entry[c].number = Cardinality(EntriesOf(c)) /\ entry[c].number \in Nat /\ ids[c] = c
    BY <2>1, EntryIs DEF OwnEntry
  <2>3. ASSUME NEW d, d # c PROVE EntriesOf(d)' = EntriesOf(d)
    BY <2>1, <2>3 DEF EntriesOf
  <2>4. Cardinality(EntriesOf(c)') = entry[c].number + 1
    <3>1. EntriesOf(c)' = EntriesOf(c) \cup {new}
      BY <2>1 DEF EntriesOf
    <3>2. new \notin EntriesOf(c)
      BY <2>2 DEF EntriesOf, Numbered
    <3>3. IsFiniteSet(EntriesOf(c))
      <4>1. EntriesOf(c) \in SUBSET log
        BY DEF EntriesOf
      <4>2. QED
        BY <4>1, FS_Subset
    <3>4. Cardinality(EntriesOf(c) \cup {new}) = Cardinality(EntriesOf(c)) + 1
      BY <3>2, <3>3, FS_AddElement
    <3>5. QED
      BY <2>2, <3>1, <3>4
  <2>5. Numbered'
    <3> SUFFICES ASSUME NEW e \in log' PROVE e.id = e.call /\ e.number < Cardinality(EntriesOf(e.call)')
      BY DEF Numbered
    <3>1. CASE e = new
      BY <2>2, <2>4, <3>1
    <3>2. CASE e \in log /\ e.call # c
      BY <2>3, <3>2 DEF Numbered
    <3>3. CASE e \in log /\ e.call = c
      <4>1. e.number < entry[c].number /\ e.id = e.call /\ e.number \in Nat
        BY <2>2, <3>3 DEF Numbered, LogEntries
      <4>2. QED
        BY <2>2, <2>4, <3>3, <4>1
    <3>4. QED
      BY <2>1, <3>1, <3>2, <3>3
  <2>6. ASSUME NEW d \in Calls PROVE OwnEntry(d)'
    BY <2>1, <2>3 DEF OwnEntry
  <2>7. QED
    BY <2>5, <2>6
<1>3. QED
  BY <1>1, <1>2

\* What a call reads of the counts, and what the others have read, hold together.
LEMMA ReadCountKeeps ==
  ASSUME TInv, NEW c \in Calls, ReadCount(c), NEW d \in Calls
  PROVE  HasLoaded(d)'
<1> USE DEF TInv, Types
<1>1. /\ at[c] = "count" /\ at' = [at EXCEPT ![c] = "add"] /\ entry' = entry
      /\ metrics' = metrics /\ totals' = totals /\ log' = log
      /\ loaded' = [loaded EXCEPT ![c] = metrics[entry[c].key]] /\ raced \subseteq raced'
      /\ (\E e \in Calls \ {c} : at[e] = "add" /\ Writing(e, entry[c].key)) => entry[c].key \in raced'
  BY DEF ReadCount, Load
<1>2. ASSUME NEW key PROVE Counted(key)' = Counted(key) /\ Totalled(key)' = Totalled(key)
  BY <1>1, SameCounts
<1>3. CASE d = c
  <2>1. entry[c].key \in Keys
    BY <1>1, EntryIs
  <2>2. loaded'[c] = metrics[entry[c].key] /\ loaded'[c] <= Counted(entry[c].key)
    BY <1>1, <2>1 DEF CountsMatchLog
  <2>3. QED
    BY <1>1, <1>2, <1>3, <2>2 DEF HasLoaded, Writing
<1>4. CASE d # c
  <2>1. HasLoaded(d) /\ at'[d] = at[d] /\ loaded'[d] = loaded[d]
    BY <1>1, <1>4
  <2>2. ASSUME at[d] = "add", entry[d].key \notin raced', NEW e \in Calls, at'[e] = "add", Writing(e, entry[d].key)'
        PROVE  e = d
    BY <1>1, <1>4, <2>1, <2>2 DEF HasLoaded, Writing
  <2>3. ASSUME at[d] = "sum", entry[d].key \notin raced', NEW e \in Calls, at'[e] = "sum", Writing(e, entry[d].key)'
        PROVE  e = d
    BY <1>1, <1>4, <2>1, <2>3 DEF HasLoaded, Writing
  <2>4. QED
    BY <1>1, <1>2, <2>1, <2>2, <2>3 DEF HasLoaded
<1>5. QED
  BY <1>3, <1>4

\* So does what it reads of the totals.
LEMMA ReadTotalKeeps ==
  ASSUME TInv, NEW c \in Calls, ReadTotal(c), NEW d \in Calls
  PROVE  HasLoaded(d)'
<1> USE DEF TInv, Types
<1>1. /\ at[c] = "total" /\ at' = [at EXCEPT ![c] = "sum"] /\ entry' = entry
      /\ metrics' = metrics /\ totals' = totals /\ log' = log
      /\ loaded' = [loaded EXCEPT ![c] = totals[entry[c].key]] /\ raced \subseteq raced'
      /\ (\E e \in Calls \ {c} : at[e] = "sum" /\ Writing(e, entry[c].key)) => entry[c].key \in raced'
  BY DEF ReadTotal, Load
<1>2. ASSUME NEW key PROVE Counted(key)' = Counted(key) /\ Totalled(key)' = Totalled(key)
  BY <1>1, SameCounts
<1>3. CASE d = c
  <2>1. entry[c].key \in Keys
    BY <1>1, EntryIs
  <2>2. loaded'[c] = totals[entry[c].key] /\ loaded'[c] <= Totalled(entry[c].key)
    BY <1>1, <2>1 DEF CountsMatchLog
  <2>3. QED
    BY <1>1, <1>2, <1>3, <2>2 DEF HasLoaded, Writing
<1>4. CASE d # c
  <2>1. HasLoaded(d) /\ at'[d] = at[d] /\ loaded'[d] = loaded[d]
    BY <1>1, <1>4
  <2>2. ASSUME at[d] = "add", entry[d].key \notin raced', NEW e \in Calls, at'[e] = "add", Writing(e, entry[d].key)'
        PROVE  e = d
    BY <1>1, <1>4, <2>1, <2>2 DEF HasLoaded, Writing
  <2>3. ASSUME at[d] = "sum", entry[d].key \notin raced', NEW e \in Calls, at'[e] = "sum", Writing(e, entry[d].key)'
        PROVE  e = d
    BY <1>1, <1>4, <2>1, <2>3 DEF HasLoaded, Writing
  <2>4. QED
    BY <1>1, <1>2, <2>1, <2>2, <2>3 DEF HasLoaded
<1>5. QED
  BY <1>3, <1>4

\* Writing the count makes it what it was read to be and one more; nobody who had
\* read it as well is deceived without a race being on record.
LEMMA WriteCountKeeps ==
  ASSUME TInv, NEW c \in Calls, WriteCount(c)
  PROVE  /\ \A d \in Calls : HasLoaded(d)'
         /\ CountsMatchLog' /\ \A key \in Keys : Covers(key)'
<1> USE DEF TInv, Types
<1> DEFINE mine == entry[c].key
<1>1. /\ at[c] = "add" /\ at' = [at EXCEPT ![c] = "total"] /\ entry' = entry
      /\ metrics' = [metrics EXCEPT ![mine] = loaded[c] + 1] /\ totals' = totals
      /\ loaded' = [loaded EXCEPT ![c] = 0] /\ raced' = raced /\ view' = view
  BY DEF WriteCount
<1>2. mine \in Keys /\ HasLoaded(c) /\ loaded[c] \in Nat
  BY <1>1, EntryIs
<1>3. ASSUME NEW key \in Keys
      PROVE  /\ Counted(key)' = IF key = mine THEN Counted(key) + 1 ELSE Counted(key)
             /\ Totalled(key)' = Totalled(key) /\ Counted(key) \in Nat
  BY WriteCountCounts, CountsAre
<1>4. ASSUME NEW d \in Calls PROVE HasLoaded(d)'
  <2>1. CASE d = c
    BY <1>1, <2>1 DEF HasLoaded
  <2>2. CASE d # c /\ at[d] \in {"add", "sum"}
    <3>1. /\ HasLoaded(d) /\ at'[d] = at[d] /\ loaded'[d] = loaded[d] /\ entry'[d] = entry[d]
          /\ entry[d].key \in Keys /\ loaded[d] \in Nat /\ Writing(d, entry[d].key)
      BY <1>1, <2>2, EntryIs DEF Writing
    <3>2. at[d] = "add" /\ entry[d].key \notin raced => entry[d].key # mine
      BY <1>1, <1>2, <2>2, <3>1 DEF HasLoaded, Writing
    <3>3. Counted(entry[d].key)' >= Counted(entry[d].key) /\ Totalled(entry[d].key)' = Totalled(entry[d].key)
      BY <1>3, <3>1
    <3>4. loaded[d] <= Counted(entry[d].key) => loaded[d] <= Counted(entry[d].key)'
      BY <1>3, <3>1, <3>3
    <3>5. \A e \in Calls : at'[e] \in {"add", "sum"} => at[e] = at'[e]
      BY <1>1
    <3>6. QED
      BY <1>1, <3>1, <3>2, <3>3, <3>4, <3>5 DEF HasLoaded, Writing
  <2>3. CASE d # c /\ at[d] \notin {"add", "sum"}
    BY <1>1, <2>3 DEF HasLoaded
  <2>4. QED
    BY <2>1, <2>2, <2>3
<1>5. CountsMatchLog'
  <2> SUFFICES ASSUME NEW key \in Keys
               PROVE  /\ metrics'[key] <= Counted(key)' /\ totals'[key] <= Totalled(key)'
                      /\ Counted(key)' > 0 => metrics'[key] > 0
                      /\ key \notin raced' => metrics'[key] = Counted(key)' /\ totals'[key] = Totalled(key)'
    BY DEF CountsMatchLog
  <2>1. /\ metrics[key] <= Counted(key) /\ totals[key] <= Totalled(key)
        /\ Counted(key) > 0 => metrics[key] > 0
        /\ key \notin raced => metrics[key] = Counted(key) /\ totals[key] = Totalled(key)
    BY DEF CountsMatchLog
  <2>2. CASE key = mine
    <3>1. metrics'[key] = loaded[c] + 1 /\ Counted(key)' = Counted(key) + 1
      BY <1>1, <1>2, <1>3, <2>2
    <3>2. loaded[c] <= Counted(key) /\ (key \notin raced => loaded[c] = metrics[key])
      BY <1>1, <1>2, <2>2 DEF HasLoaded
    <3>3. QED
      BY <1>1, <1>2, <1>3, <2>1, <3>1, <3>2
  <2>3. CASE key # mine
    BY <1>1, <1>3, <2>1, <2>3
  <2>4. QED
    BY <2>2, <2>3
<1>6. ASSUME NEW key \in Keys PROVE Covers(key)'
  BY <1>1, <1>3 DEF Covers
<1>7. QED
  BY <1>4, <1>5, <1>6

\* So does writing the total.
LEMMA WriteTotalKeeps ==
  ASSUME TInv, NEW c \in Calls, WriteTotal(c)
  PROVE  /\ \A d \in Calls : HasLoaded(d)'
         /\ CountsMatchLog' /\ \A key \in Keys : Covers(key)'
<1> USE DEF TInv, Types
<1> DEFINE mine == entry[c].key
<1>1. /\ at[c] = "sum" /\ at' = [at EXCEPT ![c] = "log"] /\ entry' = entry
      /\ totals' = [totals EXCEPT ![mine] = loaded[c] + 1] /\ metrics' = metrics
      /\ loaded' = [loaded EXCEPT ![c] = 0] /\ raced' = raced /\ view' = view
  BY DEF WriteTotal
<1>2. mine \in Keys /\ HasLoaded(c) /\ loaded[c] \in Nat
  BY <1>1, EntryIs
<1>3. ASSUME NEW key \in Keys
      PROVE  /\ Totalled(key)' = IF key = mine THEN Totalled(key) + 1 ELSE Totalled(key)
             /\ Counted(key)' = Counted(key) /\ Totalled(key) \in Nat
  BY WriteTotalCounts, CountsAre
<1>4. ASSUME NEW d \in Calls PROVE HasLoaded(d)'
  <2>1. CASE d = c
    BY <1>1, <2>1 DEF HasLoaded
  <2>2. CASE d # c /\ at[d] \in {"add", "sum"}
    <3>1. /\ HasLoaded(d) /\ at'[d] = at[d] /\ loaded'[d] = loaded[d] /\ entry'[d] = entry[d]
          /\ entry[d].key \in Keys /\ loaded[d] \in Nat /\ Writing(d, entry[d].key)
      BY <1>1, <2>2, EntryIs DEF Writing
    <3>2. at[d] = "sum" /\ entry[d].key \notin raced => entry[d].key # mine
      BY <1>1, <1>2, <2>2, <3>1 DEF HasLoaded, Writing
    <3>3. Totalled(entry[d].key)' >= Totalled(entry[d].key) /\ Counted(entry[d].key)' = Counted(entry[d].key)
      BY <1>3, <3>1
    <3>4. loaded[d] <= Totalled(entry[d].key) => loaded[d] <= Totalled(entry[d].key)'
      BY <1>3, <3>1, <3>3
    <3>5. \A e \in Calls : at'[e] \in {"add", "sum"} => at[e] = at'[e]
      BY <1>1
    <3>6. QED
      BY <1>1, <3>1, <3>2, <3>3, <3>4, <3>5 DEF HasLoaded, Writing
  <2>3. CASE d # c /\ at[d] \notin {"add", "sum"}
    BY <1>1, <2>3 DEF HasLoaded
  <2>4. QED
    BY <2>1, <2>2, <2>3
<1>5. CountsMatchLog'
  <2> SUFFICES ASSUME NEW key \in Keys
               PROVE  /\ metrics'[key] <= Counted(key)' /\ totals'[key] <= Totalled(key)'
                      /\ Counted(key)' > 0 => metrics'[key] > 0
                      /\ key \notin raced' => metrics'[key] = Counted(key)' /\ totals'[key] = Totalled(key)'
    BY DEF CountsMatchLog
  <2>1. /\ metrics[key] <= Counted(key) /\ totals[key] <= Totalled(key)
        /\ Counted(key) > 0 => metrics[key] > 0
        /\ key \notin raced => metrics[key] = Counted(key) /\ totals[key] = Totalled(key)
    BY DEF CountsMatchLog
  <2>2. CASE key = mine
    <3>1. totals'[key] = loaded[c] + 1 /\ Totalled(key)' = Totalled(key) + 1
      BY <1>1, <1>2, <1>3, <2>2
    <3>2. loaded[c] <= Totalled(key) /\ (key \notin raced => loaded[c] = totals[key])
      BY <1>1, <1>2, <2>2 DEF HasLoaded
    <3>3. QED
      BY <1>1, <1>2, <1>3, <2>1, <3>1, <3>2
  <2>3. CASE key # mine
    BY <1>1, <1>3, <2>1, <2>3
  <2>4. QED
    BY <2>2, <2>3
<1>6. ASSUME NEW key \in Keys PROVE Covers(key)'
  <2>1. Totalled(key)' >= Totalled(key) /\ view.calls[key] \in Nat /\ view.open[key] \in Nat
    BY <1>3 DEF Views
  <2>2. QED
    BY <1>1, <1>3, <2>1 DEF Covers
<1>7. QED
  BY <1>4, <1>5, <1>6

\* A step that writes no counter and changes no number keeps what they have to do
\* with each other.
LEMMA CountersKept ==
  ASSUME TInv, UNCHANGED <<metrics, totals, view>>, raced \subseteq raced',
         \A key \in Keys : Counted(key)' = Counted(key) /\ Totalled(key)' = Totalled(key)
  PROVE  CountsMatchLog' /\ \A key \in Keys : Covers(key)'
BY DEF TInv, CountsMatchLog, Covers

\* If besides no call reads or forgets a counter, what they have read is still good.
LEMMA LoadedKept ==
  ASSUME TInv, UNCHANGED <<metrics, totals, raced, loaded>>,
         \A key \in Keys : Counted(key)' = Counted(key) /\ Totalled(key)' = Totalled(key),
         \A d \in Calls : at[d] \in {"add", "sum"} => at'[d] = at[d] /\ entry'[d] = entry[d],
         \A d \in Calls : at'[d] \in {"add", "sum"} => at'[d] = at[d],
         NEW d \in Calls
  PROVE  HasLoaded(d)'
<1> USE DEF TInv
<1>1. CASE at[d] \in {"add", "sum"}
  <2>1. HasLoaded(d) /\ at'[d] = at[d] /\ entry'[d] = entry[d] /\ entry[d].key \in Keys
    BY <1>1, EntryIs
  <2>2. \A key : \A e \in Calls : at'[e] \in {"add", "sum"} => (Writing(e, key)' <=> Writing(e, key))
    BY DEF Writing
  <2>3. QED
    BY <1>1, <2>1, <2>2 DEF HasLoaded
<1>2. CASE at[d] \notin {"add", "sum"}
  BY <1>2 DEF HasLoaded
<1>3. QED
  BY <1>1, <1>2

\* Every statement of audit_tool_call keeps the invariant.
LEMMA AuditingTInv == ASSUME TInv, NEW c \in Calls, Auditing(c) PROVE TInv'
<1>1. Types' /\ Numbered' /\ \A d \in Calls : OwnEntry(d)' /\ Telling(d)'
  BY AuditingTypes, NumbersKept, TellingKept
<1>2. at \in [Calls -> Stages]
  BY DEF TInv, Types
<1>3. ASSUME CountsMatchLog', \A key \in Keys : Covers(key)', \A d \in Calls : HasLoaded(d)'
      PROVE  TInv'
  BY <1>1, <1>3 DEF TInv
<1>4. CASE ReadCount(c)
  <2>1. \A key \in Keys : Counted(key)' = Counted(key) /\ Totalled(key)' = Totalled(key)
    <3>1. /\ log' = log /\ entry' = entry /\ at[c] = "count" /\ at' = [at EXCEPT ![c] = "add"]
      BY <1>4 DEF ReadCount, Load
    <3>2. QED
      BY <1>2, <3>1, SameCounts
  <2>2. CountsMatchLog' /\ \A key \in Keys : Covers(key)'
    BY <1>4, <2>1, CountersKept DEF ReadCount, Load
  <2>3. QED
    BY <1>3, <1>4, <2>2, ReadCountKeeps
<1>5. CASE ReadTotal(c)
  <2>1. \A key \in Keys : Counted(key)' = Counted(key) /\ Totalled(key)' = Totalled(key)
    <3>1. /\ log' = log /\ entry' = entry /\ at[c] = "total" /\ at' = [at EXCEPT ![c] = "sum"]
      BY <1>5 DEF ReadTotal, Load
    <3>2. QED
      BY <1>2, <3>1, SameCounts
  <2>2. CountsMatchLog' /\ \A key \in Keys : Covers(key)'
    BY <1>5, <2>1, CountersKept DEF ReadTotal, Load
  <2>3. QED
    BY <1>3, <1>5, <2>2, ReadTotalKeeps
<1>6. CASE WriteCount(c)
  BY <1>3, <1>6, WriteCountKeeps
<1>7. CASE WriteTotal(c)
  BY <1>3, <1>7, WriteTotalKeeps
<1>8. CASE Log(c)
  <2>1. \A key \in Keys : Counted(key)' = Counted(key) /\ Totalled(key)' = Totalled(key)
    BY <1>8, LogCounts
  <2>2. /\ UNCHANGED <<metrics, totals, raced, loaded, view, entry>>
        /\ at[c] = "log" /\ at' = [at EXCEPT ![c] = "notify"]
    BY <1>8 DEF Log, counters
  <2>3. QED
    BY <1>2, <1>3, <2>1, <2>2, CountersKept, LoadedKept
<1>9. CASE Notify(c) \/ Audited(c)
  <2>1. /\ UNCHANGED <<metrics, totals, raced, loaded, view, log>>
        /\ at[c] = "notify" /\ at'[c] \in {"notify", "idle"}
        /\ \A d \in Calls : d # c => at'[d] = at[d] /\ entry'[d] = entry[d]
    BY <1>2, <1>9 DEF Notify, Audited, counters, TInv, Types
  <2>2. \A key \in Keys : Counted(key)' = Counted(key) /\ Totalled(key)' = Totalled(key)
    BY <2>1, SameCounts
  <2>3. QED
    BY <1>3, <2>1, <2>2, CountersKept, LoadedKept
<1>10. QED
  BY <1>4, <1>5, <1>6, <1>7, <1>8, <1>9 DEF Auditing

\* So do the wrapper and the beginning of an entry.
LEMMA BeginTInv ==
  ASSUME TInv, NEW c \in Calls, NEW key,
         \/ /\ at[c] = "idle" /\ SetCorrelationId(c)
            /\ UNCHANGED <<counters, hooks, at, entry, loaded, notices, log, view>>
         \/ key \in Keys /\ ids[c] = c /\ Audit(c, key) /\ UNCHANGED ids
  PROVE  TInv'
<1>1. Types'
  BY BeginTypes
<1>2. /\ UNCHANGED <<metrics, totals, raced, hooks, loaded, todo, due, told, log, view>>
      /\ at[c] = "idle" /\ at'[c] \in {"idle", "count"} /\ ids'[c] = c
      /\ \A d \in Calls : d # c => at'[d] = at[d] /\ entry'[d] = entry[d] /\ ids'[d] = ids[d]
      /\ \/ at'[c] = "idle" /\ entry'[c] = entry[c]
         \/ at'[c] = "count" /\ entry'[c] = [call |-> c, key |-> key, number |-> Cardinality(EntriesOf(c))]
  BY DEF Audit, SetCorrelationId, counters, notices, EntriesOf, TInv, Types
<1>3. \A k \in Keys : Counted(k)' = Counted(k) /\ Totalled(k)' = Totalled(k)
  BY <1>2, SameCounts
<1>4. CountsMatchLog' /\ (\A k \in Keys : Covers(k)') /\ (\A d \in Calls : HasLoaded(d)')
  BY <1>2, <1>3, CountersKept, LoadedKept
<1>5. \A d : EntriesOf(d)' = EntriesOf(d)
  BY <1>2 DEF EntriesOf
<1>6. Numbered'
  BY <1>2, <1>5 DEF TInv, Numbered
<1>7. ASSUME NEW d \in Calls PROVE OwnEntry(d)' /\ Telling(d)'
  <2>1. CASE d = c
    <3>1. Telling(c)'
      BY <1>2 DEF TInv, Telling
    <3>2. entry'[c] # NoEntry <=> at'[c] = "count"
      <4>1. CASE at'[c] = "idle" /\ entry'[c] = entry[c]
        BY <1>2, <4>1 DEF TInv, OwnEntry
      <4>2. CASE at'[c] = "count" /\ entry'[c] = [call |-> c, key |-> key, number |-> Cardinality(EntriesOf(c))]
        <5>1. Cardinality(EntriesOf(c)) \in Nat
          <6>1. EntriesOf(c) \in SUBSET log /\ IsFiniteSet(log)
            BY DEF EntriesOf, TInv, Types
          <6>2. QED
            BY <6>1, FS_Subset, FS_CardinalityType
        <5>2. QED
          BY <4>2, <5>1, NoEntryAssumption
      <4>3. QED
        BY <1>2, <4>1, <4>2
    <3>3. OwnEntry(c)'
      BY <1>2, <1>5, <3>2 DEF OwnEntry
    <3>4. QED
      BY <2>1, <3>1, <3>3
  <2>2. CASE d # c
    BY <1>2, <1>5, <2>2 DEF TInv, OwnEntry, Telling
  <2>3. QED
    BY <2>1, <2>2
<1>8. QED
  BY <1>1, <1>4, <1>6, <1>7 DEF TInv

\* And those who look on.
LEMMA ObservingTInv == ASSUME TInv, Observing PROVE TInv'
<1>1. Types'
  BY ObservingTypes
<1>2. UNCHANGED <<metrics, totals, raced, ids, at, entry, loaded, todo, due, told, log>>
  BY DEF Observing, RegisterToolLifecycleHook, Snapshot, ReadRow, counters, notices
<1>3. \A k \in Keys : Counted(k)' = Counted(k) /\ Totalled(k)' = Totalled(k)
  BY <1>2, SameCounts
<1>4. CountsMatchLog'
  BY <1>2, <1>3 DEF TInv, CountsMatchLog
<1>5. ASSUME NEW d \in Calls PROVE OwnEntry(d)' /\ Telling(d)' /\ HasLoaded(d)'
  <2>1. HasLoaded(d)'
    BY <1>2, <1>3, LoadedKept
  <2>2. OwnEntry(d)' /\ Telling(d)'
    BY <1>2 DEF TInv, OwnEntry, Telling, EntriesOf
  <2>3. QED
    BY <2>1, <2>2
<1>6. Numbered'
  BY <1>2 DEF TInv, Numbered, EntriesOf
<1>7. ASSUME NEW key \in Keys PROVE Covers(key)'
  <2>1. /\ Covers(key) /\ metrics[key] \in Nat /\ totals[key] \in Nat
        /\ Counted(key) \in Nat /\ Totalled(key) \in Nat
        /\ Totalled(key) = Counted(key) - Cardinality(Between(key)) /\ Cardinality(Between(key)) \in Nat
        /\ key \notin raced => metrics[key] = Counted(key) /\ totals[key] = Totalled(key)
    BY CountsAre DEF TInv, Types, CountsMatchLog
  <2>2. view \in Views
    BY DEF TInv, Types
  <2>3. CASE UNCHANGED view
    BY <1>2, <1>3, <2>1, <2>3 DEF Covers
  <2>4. CASE Snapshot
    <3>1. /\ view'.calls[key] = metrics[key] /\ view'.open[key] = Cardinality(Between(key))
          /\ view'.total[key] \in Nat /\ (key \notin view'.left => ~(metrics[key] > 0))
      BY <2>2, <2>4 DEF Snapshot, Views
    <3>2. QED
      BY <1>2, <1>3, <2>1, <3>1 DEF Covers
  <2>5. ASSUME NEW row \in Keys, ReadRow(row) PROVE Covers(key)'
    <3>1. /\ view'.calls = view.calls /\ view'.open = view.open
          /\ IF key = row THEN view'.total[key] = totals[key]
             ELSE view'.total[key] = view.total[key] /\ (key \in view'.left <=> key \in view.left)
      BY <2>2, <2>5 DEF ReadRow, Views
    <3>2. QED
      BY <1>2, <1>3, <2>1, <3>1 DEF Covers
  <2>6. QED
    BY <2>3, <2>4, <2>5 DEF Observing, RegisterToolLifecycleHook
<1>8. QED
  BY <1>1, <1>4, <1>5, <1>6, <1>7 DEF TInv

\* Every step keeps the invariant.
LEMMA NextTInv == TInv /\ [TelemetryNext]_telemetry => TInv'
<1> SUFFICES ASSUME TInv, [TelemetryNext]_telemetry PROVE TInv'
  OBVIOUS
<1>1. ASSUME NEW c \in Calls, at[c] = "idle", SetCorrelationId(c),
             UNCHANGED <<counters, hooks, at, entry, loaded, notices, log, view>>
      PROVE  TInv'
  BY <1>1, BeginTInv
<1>2. CASE \E c \in Calls, key \in Keys : ids[c] = c /\ Audit(c, key) /\ UNCHANGED ids
  BY <1>2, BeginTInv
<1>3. CASE \E c \in Calls : Auditing(c)
  BY <1>3, AuditingTInv
<1>4. CASE Observing
  BY <1>4, ObservingTInv
<1>5. CASE UNCHANGED telemetry
  <2>1. Types' /\ Numbered' /\ (\A c \in Calls : OwnEntry(c)' /\ Telling(c)')
    BY <1>5 DEF telemetry, TInv, Types, Numbered, OwnEntry, Telling, EntriesOf
  <2>2. \A key \in Keys : Counted(key)' = Counted(key) /\ Totalled(key)' = Totalled(key)
    BY <1>5, SameCounts DEF telemetry
  <2>3. CountsMatchLog' /\ (\A key \in Keys : Covers(key)') /\ (\A c \in Calls : HasLoaded(c)')
    BY <1>5, <2>2, CountersKept, LoadedKept DEF telemetry
  <2>4. QED
    BY <2>1, <2>3 DEF TInv
<1>6. QED
  BY <1>1, <1>2, <1>3, <1>4, <1>5 DEF TelemetryNext

-----------------------------------------------------------------------------
(***************************************************************************)
(* The theorems.                                                           *)
(***************************************************************************)

\* The invariant holds in every reachable state, whatever tools use the telemetry.
THEOREM TelemetryInductive == TelemetrySpec => []TInv
BY InitTInv, NextTInv, PTL DEF TelemetrySpec

\* Every variable keeps its type.
THEOREM TelemetryTypeCorrect == TelemetrySpec => []TelemetryTypeOK
<1>1. TInv => TelemetryTypeOK
  BY DEF TInv, Types, OwnEntry, TelemetryTypeOK, LogEntries, Entries, Views
<1>2. QED
  BY <1>1, TelemetryInductive, PTL

\* No call is counted twice, one that was is never lost altogether, and a counter that
\* nobody raced is exact.
THEOREM CountsAreHonest == TelemetrySpec => []CountsMatchLog
<1>1. TInv => CountsMatchLog
  BY DEF TInv
<1>2. QED
  BY <1>1, TelemetryInductive, PTL

\* A row of a snapshot has the durations of the calls it counts, but for those that
\* were between the two counters.
THEOREM RowsAreCovered == TelemetrySpec => []RowsCoverCalls
<1>1. TInv => RowsCoverCalls
  BY DEF TInv, Covers, RowsCoverCalls
<1>2. QED
  BY <1>1, TelemetryInductive, PTL

\* Each hook is told of each entry once and in order.
THEOREM HooksAreTold == TelemetrySpec => []HooksToldOnce
<1>1. TInv => HooksToldOnce
  BY DEF TInv, Telling, HooksToldOnce
<1>2. QED
  BY <1>1, TelemetryInductive, PTL
=============================================================================
