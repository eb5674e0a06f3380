------------------------------ MODULE Telemetry ------------------------------
(***************************************************************************)
(* The process-local telemetry of src/monitor.py: what audit_tool_call     *)
(* does, statement by statement, while other calls do the same, hooks are  *)
(* registered and telemetry_snapshot reads the counters.                   *)
(*                                                                         *)
(* Nothing here is locked.  `counter[key] += 1` reads the counter in one   *)
(* step and writes it in another: Counter.__missing__, which the first     *)
(* increment of a key runs, is a Python function that a thread switch may  *)
(* interrupt, and no version of Python promises more for the others.       *)
(* The safety class in the key of _tool_metrics is a function of the tool, *)
(* so both counters have the same keys here.  Durations are counted in     *)
(* calls: every call takes one unit.                                       *)
(***************************************************************************)
EXTENDS Naturals, Sequences, FiniteSets

CONSTANTS
    Calls,     \* tool calls, each on a thread and in a context of its own
    Keys,      \* tool and outcome
    Hooks,     \* lifecycle hooks
    MaxHooks,  \* bound on registrations
    NoId,      \* no correlation id is set
    NoEntry    \* no entry is being written

ASSUME MaxHooksAssumption == MaxHooks \in Nat
ASSUME CallsAssumption == IsFiniteSet(Calls) /\ NoId \notin Calls
ASSUME NoEntryAssumption == NoEntry \notin [call: Calls, key: Keys, number: Nat]

VARIABLES
    metrics,  \* _tool_metrics; a key that is missing counts 0
    totals,   \* _tool_duration_totals
    hooks,    \* _tool_lifecycle_hooks
    ids,      \* _correlation_id_var in the context of each call
    at,       \* the statement of audit_tool_call a call is at
    entry,    \* the entry it is writing
    loaded,   \* the counter value it has read
    todo,     \* its copy of the hooks, as far as they are not notified
    due,      \* history: the hooks when it began to notify
    told,     \* history: the hooks it has notified
    log,      \* the audit log, with the number of the entry of its call
    raced,    \* history: keys whose counter was read while another call updated it
    view      \* telemetry_snapshot: the copied counts and the rows made of them

telemetry == <<metrics, totals, hooks, ids, at, entry, loaded, todo, due, told, log, raced, view>>

counters == <<metrics, totals, raced>>
notices == <<todo, due, told>>

Entries == [call: Calls, key: Keys, number: Nat]

HookLists == UNION {[1..n -> Hooks] : n \in 0..MaxHooks}

Stages == {"idle", "count", "add", "total", "sum", "log", "notify"}

TelemetryTypeOK ==
    /\ metrics \in [Keys -> Nat] /\ totals \in [Keys -> Nat]
    /\ hooks \in HookLists
    /\ ids \in [Calls -> Calls \cup {NoId}]
    /\ at \in [Calls -> Stages]
    /\ entry \in [Calls -> Entries \cup {NoEntry}]
    /\ \A c \in Calls : at[c] = "idle" <=> entry[c] = NoEntry
    /\ loaded \in [Calls -> Nat]
    /\ todo \in [Calls -> HookLists] /\ due \in [Calls -> HookLists] /\ told \in [Calls -> HookLists]
    /\ \A e \in log : e.id \in Calls /\ [call |-> e.call, key |-> e.key, number |-> e.number] \in Entries
    /\ raced \subseteq Keys
    /\ view.calls \in [Keys -> Nat] /\ view.total \in [Keys -> Nat] /\ view.open \in [Keys -> Nat]
    /\ view.left \subseteq Keys /\ view.taken \in BOOLEAN

TelemetryInit ==
    /\ metrics = [k \in Keys |-> 0] /\ totals = [k \in Keys |-> 0]
    /\ hooks = <<>>
    /\ ids = [c \in Calls |-> NoId]
    /\ at = [c \in Calls |-> "idle"]
    /\ entry = [c \in Calls |-> NoEntry]
    /\ loaded = [c \in Calls |-> 0]
    /\ todo = [c \in Calls |-> <<>>] /\ due = [c \in Calls |-> <<>>] /\ told = [c \in Calls |-> <<>>]
    /\ log = {}
    /\ raced = {}
    /\ view = [taken |-> FALSE, left |-> {}, calls |-> [k \in Keys |-> 0],
               total |-> [k \in Keys |-> 0], open |-> [k \in Keys |-> 0]]

Writing(c, key) == at[c] # "idle" /\ entry[c].key = key

\* The calls that have been counted under a key but not in its duration total.
Between(key) == {c \in Calls : Writing(c, key) /\ at[c] \in {"total", "sum"}}

-----------------------------------------------------------------------------
\* Mutant: the id is kept in a plain global, where the latest call overwrites it.
SetCorrelationIdForAll(c) == ids' = [d \in Calls |-> c]

\* The wrapper of each tool sets a fresh id in the context of its call.
SetCorrelationId(c) == ids' = [ids EXCEPT ![c] = c]

\* audit_tool_call begins.
Audit(c, key) ==
    /\ at[c] = "idle"
    /\ at' = [at EXCEPT ![c] = "count"]
    /\ entry' = [entry EXCEPT ![c] =
           [call |-> c, key |-> key, number |-> Cardinality({e \in log : e.call = c})]]
    /\ UNCHANGED <<counters, hooks, loaded, notices, log, view>>

\* The read half of `counter[key] += ...`.
Load(c, counter, from, to) ==
    LET key == entry[c].key
        overlaps == \E d \in Calls \ {c} : at[d] = to /\ Writing(d, key)
    IN  /\ at[c] = from
        /\ at' = [at EXCEPT ![c] = to]
        /\ loaded' = [loaded EXCEPT ![c] = counter[key]]
        /\ raced' = IF overlaps THEN raced \cup {key} ELSE raced

ReadCount(c) ==
    /\ Load(c, metrics, "count", "add")
    /\ UNCHANGED <<metrics, totals, hooks, ids, entry, notices, log, view>>

\* Mutant: the call is counted twice when its key is new.
WriteCountTwice(c) ==
    /\ at[c] = "add"
    /\ at' = [at EXCEPT ![c] = "total"]
    /\ metrics' = [metrics EXCEPT ![entry[c].key] = IF loaded[c] = 0 THEN 2 ELSE loaded[c] + 1]
    /\ loaded' = [loaded EXCEPT ![c] = 0]
    /\ UNCHANGED <<totals, raced, hooks, ids, entry, notices, log, view>>

WriteCount(c) ==
    /\ at[c] = "add"
    /\ at' = [at EXCEPT ![c] = "total"]
    /\ metrics' = [metrics EXCEPT ![entry[c].key] = loaded[c] + 1]
    /\ loaded' = [loaded EXCEPT ![c] = 0]
    /\ UNCHANGED <<totals, raced, hooks, ids, entry, notices, log, view>>

ReadTotal(c) ==
    /\ Load(c, totals, "total", "sum")
    /\ UNCHANGED <<metrics, totals, hooks, ids, entry, notices, log, view>>

WriteTotal(c) ==
    /\ at[c] = "sum"
    /\ at' = [at EXCEPT ![c] = "log"]
    /\ totals' = [totals EXCEPT ![entry[c].key] = loaded[c] + 1]
    /\ loaded' = [loaded EXCEPT ![c] = 0]
    /\ UNCHANGED <<metrics, raced, hooks, ids, entry, notices, log, view>>

\* The formatter adds the correlation id it finds in the context.  The copy of
\* the hooks, made in emit_tool_lifecycle_event, is part of the step: a hook that
\* is registered between the two is as good as registered before them.
Log(c) ==
    /\ at[c] = "log"
    /\ at' = [at EXCEPT ![c] = "notify"]
    /\ log' = log \cup {[call |-> c, key |-> entry[c].key, number |-> entry[c].number, id |-> ids[c]]}
    /\ todo' = [todo EXCEPT ![c] = hooks]
    /\ due' = [due EXCEPT ![c] = hooks]
    /\ UNCHANGED <<told, counters, hooks, ids, entry, loaded, view>>

\* Mutant: the exception of a hook ends the iteration.
NotifyUntilFailure(c) ==
    /\ at[c] = "notify"
    /\ todo[c] # <<>>
    /\ told' = [told EXCEPT ![c] = Append(@, Head(todo[c]))]
    /\ \E rest \in {Tail(todo[c]), <<>>} : todo' = [todo EXCEPT ![c] = rest]
    /\ UNCHANGED <<counters, hooks, ids, at, entry, loaded, due, log, view>>

\* A hook returns or raises an Exception, which is logged: either way the next
\* one is called.
Notify(c) ==
    /\ at[c] = "notify"
    /\ todo[c] # <<>>
    /\ told' = [told EXCEPT ![c] = Append(@, Head(todo[c]))]
    /\ todo' = [todo EXCEPT ![c] = Tail(@)]
    /\ UNCHANGED <<counters, hooks, ids, at, entry, loaded, due, log, view>>

\* Mutant: audit_tool_call returns only when no hook was registered meanwhile.
AuditedQuietly(c) ==
    /\ at[c] = "notify"
    /\ todo[c] = <<>> /\ hooks = due[c]
    /\ at' = [at EXCEPT ![c] = "idle"]
    /\ entry' = [entry EXCEPT ![c] = NoEntry]
    /\ due' = [due EXCEPT ![c] = <<>>] /\ told' = [told EXCEPT ![c] = <<>>]
    /\ UNCHANGED <<counters, hooks, ids, loaded, todo, log, view>>

Audited(c) ==
    /\ at[c] = "notify"
    /\ todo[c] = <<>>
    /\ at' = [at EXCEPT ![c] = "idle"]
    /\ entry' = [entry EXCEPT ![c] = NoEntry]
    /\ due' = [due EXCEPT ![c] = <<>>] /\ told' = [told EXCEPT ![c] = <<>>]
    /\ UNCHANGED <<counters, hooks, ids, loaded, todo, log, view>>

\* Whoever registers a hook, another hook included, appends to the list.
RegisterToolLifecycleHook(hook) ==
    /\ Len(hooks) < MaxHooks
    /\ hooks' = Append(hooks, hook)
    /\ UNCHANGED <<counters, ids, at, entry, loaded, notices, log, view>>

\* telemetry_snapshot copies the counts at once: sorted() runs no Python code.  One
\* snapshot is the bound.
Snapshot ==
    /\ ~view.taken
    /\ view' = [view EXCEPT !.taken = TRUE, !.calls = metrics,
                            !.left = {k \in Keys : metrics[k] > 0},
                            !.open = [k \in Keys |-> Cardinality(Between(k))]]
    /\ UNCHANGED <<counters, hooks, ids, at, entry, loaded, notices, log>>

\* Mutant: the row looks its count up again, beside the total.
ReadRowAnew(key) ==
    /\ key \in view.left
    /\ view' = [view EXCEPT !.left = @ \ {key}, !.calls[key] = metrics[key], !.total[key] = totals[key]]
    /\ UNCHANGED <<counters, hooks, ids, at, entry, loaded, notices, log>>

\* Each row looks its total up when its turn comes; the order plays no part.
ReadRow(key) ==
    /\ key \in view.left
    /\ view' = [view EXCEPT !.left = @ \ {key}, !.total[key] = totals[key]]
    /\ UNCHANGED <<counters, hooks, ids, at, entry, loaded, notices, log>>

Auditing(c) ==
    \/ ReadCount(c) \/ WriteCount(c) \/ ReadTotal(c) \/ WriteTotal(c)
    \/ Log(c) \/ Notify(c) \/ Audited(c)

Observing ==
    \/ \E hook \in Hooks : RegisterToolLifecycleHook(hook)
    \/ Snapshot
    \/ \E key \in Keys : ReadRow(key)

\* What the tools may do with all this, whichever they are: the wrapper of a call
\* sets its id, and an entry is begun only after that.
TelemetryNext ==
    \/ \E c \in Calls :
         /\ at[c] = "idle" /\ SetCorrelationId(c)
         /\ UNCHANGED <<counters, hooks, at, entry, loaded, notices, log, view>>
    \/ \E c \in Calls, key \in Keys : ids[c] = c /\ Audit(c, key) /\ UNCHANGED ids
    \/ \E c \in Calls : Auditing(c)
    \/ Observing

\* src/monitor.py as its callers may rely on it.
TelemetrySpec == TelemetryInit /\ [][TelemetryNext]_telemetry

-----------------------------------------------------------------------------
(***************************************************************************)
(* Properties.                                                             *)
(***************************************************************************)
Logged(key) == {e \in log : e.key = key}

\* Calls counted so far, and those whose duration is in the total.
Counted(key) ==
    Cardinality(Logged(key)) + Cardinality({c \in Calls : Writing(c, key) /\ at[c] \in {"total", "sum", "log"}})

Totalled(key) == Counted(key) - Cardinality(Between(key))

\* The "in-process RED metrics" (src/monitor.py:81) against the audit log: no call
\* is counted twice, a tool that was ever called is never reported as unused, and
\* unless two calls updated the counter at once both numbers are exact.
CountsMatchLog ==
    \A key \in Keys :
        /\ metrics[key] <= Counted(key) /\ totals[key] <= Totalled(key)
        /\ Counted(key) > 0 => metrics[key] > 0
        /\ key \notin raced => metrics[key] = Counted(key) /\ totals[key] = Totalled(key)

\* A row of the snapshot has the durations of all the calls it counts, but for
\* those that were between the two counters when the counts were copied.
RowsCoverCalls ==
    \A key \in Keys \ (raced \cup view.left) :
        view.calls[key] <= view.total[key] + view.open[key]

\* "exceptions in a hook cannot alter Azure operations"
\* (docs/phases/foundry-agent-service.md:14), nor keep the event from the hooks
\* after it: each hook registered when the event is emitted is told once, in order,
\* whatever is registered meanwhile.
HooksToldOnce ==
    \A c \in Calls : at[c] = "notify" => told[c] \o todo[c] = due[c]
=============================================================================
