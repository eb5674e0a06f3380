# A verification project for the Azure Cloud Intelligence MCP server

The server (`src/src`, Python, FastMCP) gives MCP clients about sixty tools on
Azure: reads of many kinds, and sixteen *controlled* tools that change Azure (or
read sensitive data) and need an approval receipt. This directory models the
parts where order, concurrency, failure and boundaries decide what is correct,
checks them with TLC on small instances, and proves with TLAPS that their safety
properties hold for every instance. All paths below are relative to `src/`, the
repository.

## 1. The system

| Component | Source | State | Operations | Model |
|---|---|---|---|---|
| Approval receipts | `src/approvals.py`, `src/policies.py`, `src/tools/approval_workflow.py` | `_plans`, `_consumed`, `_lock`, per process | `build_approval_plan`, `issue`, `consume` | `ApprovalStore`, `ApprovalReceipts` |
| Deadline | `src/utils/runtime.py` | executor, worker, future of one call | `run_with_timeout` | `RunWithTimeout` |
| Client cache | `src/azure_clients.py`, `src/auth.py` | `_cached_clients`, `_clients_lock` | `get_azure_clients`, `reset_client_cache`, `create_azure_clients`, `build_credential` | `AzureClientsCache` |
| Controlled tools | `src/tools/{compute,storage,network,resource_mgmt,ai}.py`, `src/foundry_adapter.py` | none of their own; receipts, audit log, Azure | nine plan tools, sixteen tools | `ControlledTools` |
| Inventory tools | `src/tools/*.py`, `src/resource_graph_adapter.py`, `src/foundry_adapter.py` | none of their own; a cursor in the client's hands | all read tools, deployment preview and cost summary included | `InventoryTools` |
| Telemetry | `src/monitor.py` | counters, duration totals, hook list, correlation id | `audit_tool_call`, `set_correlation_id`, `telemetry_snapshot`, `register_tool_lifecycle_hook` | `Telemetry` |
| Diagnostics | `src/tools/diagnostics.py` | none | `diagnose_virtual_machine`, a composition of three read tools | `Diagnostics` |
| Settings | `src/config.py` | the environment, read on every call | `load_settings` | what decides on a bundle, in `AzureClientsCache`; else values of a process |
| Errors, redaction, validation | `src/utils/{errors,redaction}.py`, `src/validation.py` | none | pure functions | which envelope; not the text |
| Server, registry, Entra verifier | `src/app.py`, `src/tool_registry.py`, `src/entra_auth.py` | none that changes | wrappers, tables, JWT checks | not modelled |

How they interact. A tool validates its arguments, takes settings, and - a
controlled tool - consumes its receipt in the process's approval store; it takes
clients from the cache, hands a callback to `run_with_timeout`, writes an audit
entry through `audit_tool_call` and returns an envelope. The receipt comes from
an earlier call of the plan tool. Some tools build clients or credentials inside
the callback, that is in the pool's thread; the order of "clients" and "consume"
differs from tool to tool, and so does what an exception turns into.

What is hard here: two requests with one receipt; the clock read before the
lock; a restart that forgets the store; operations that outlive their deadline;
the double-checked cache with a reset in between; an identity per request and
threads that do not inherit it; failure between the effect and the audit entry;
a collection that changes while it is read page by page; flags for incomplete
results; counters that several calls update without a lock while a snapshot
reads them; hooks that fail or are added while an event is handed out; one reply
made of three reads, any of which may fail. `PROJECT.json` lists each under
`hazards`, at its line, with the property that covers it or the reason why none
does.

The store and the cache take locks and their docstrings speak of threads and
concurrent requests ("Thread-safe approval store", "exactly once even under
concurrent requests"). Whether FastMCP runs two synchronous tools at once is its
own affair; the models let threads interleave wherever the code does not hold a
lock, as these docstrings claim to allow.

## 2. The modules

**ApprovalReceipts** is the abstract specification: a receipt is issued once,
judged and spent in one indivisible step, void after a restart; a request asked
is answered unless its process is lost. It has no lock, no thread and no pc.

**ApprovalStore** is the code. `BuildPlan` is `build_approval_plan` (the clock is
read, `expires_at` fixed), `StorePlan` is `issue` under the lock, `Ask` is the
part of `consume` before the lock (`checked_at` is read there), `Acquire` and
`Release` are the `with` block, `Examine` is the cascade of refusals in its order
(`Refusal`), `Spend` is the `add`. `Restart` clears `_plans` and `_consumed` and
loses the threads in flight; identifiers are UUIDs and a restart does not bring
them back. `Tick` is the wall clock. `issued` and the verdicts kept across
restarts are history. The hash of a request is the request itself: SHA-256 over
canonical JSON is taken to be injective.

**RunWithTimeout** is `run_with_timeout`: `Submit`, the worker's `Begin` and
`End`, `Get` or `Expire` for `future.result`, and `Leave`, the exit of the `with`
block, which joins the worker. A request makes several calls one after another.

**AzureClientsCache** is `get_azure_clients`, with each unlocked read of the
global a step of its own (`Peek`, `Return`), the lock, the second `Check`,
`Create` which may raise (`unwind`), hosted mode (`BuildHosted`), and
`reset_client_cache`. The settings of the process are a variable: whether a
subscription is selected and which of the three fields of a service principal
are there decides in `NewBundles` and `Credential` whether there is a bundle and
whose it is. A bundle carries its identity and when it was begun; `number`
counts constructions.

**ControlledTools** composes them: each handler is a record with the steps of its
function in their order, what its callback does in the worker, whether it needs
a subscription, and whether a `ValueError` ends in an unaudited reply. The
actions interpret the steps: `Consume`, `BuildClients`, `Resolve` (the generic
create takes the resource id apart after it has consumed), `Begin` (`begin_*`
without a deadline), `Submit`, then the worker (`WorkerActs`, `WorkerEnds`) and
`Collect`, `Expire`, `CollectLate`. `Answer` writes reply and audit entry in one
step, as nothing comes between them that another actor can see. Consuming is
atomic here because `ApprovalStore` implements `ApprovalReceipts`; a timeout is
answered only after the worker has ended because of `NoOrphanWorker` in
`RunWithTimeout`. The gate `execute_with_policy` is always called with approval
granted after `consume`, so only its allowing branch exists. The scope of a blob
operation is the account that the target names. Azure is external: an operation
may take effect and succeed, take effect and fail for its caller, or fail. A callback
may raise an SDK error or a `ValueError`, and either before or after its effect: the
SDK raises the latter, too, when it cannot decode the answer to a request that was
accepted.

**InventoryTools** has one row per kind of read: where the reply is cut, what
is read (everything, `top`, one page, a first page and perhaps the rest, one
item, the first page of the usage), how `truncated` is computed, who builds the
clients and in which thread, and which exceptions are audited. `BuildClients`, `EnterCallback`, `ReadPage`,
`RefuseCursor`, `ReadFails` and `Answer` interpret the row; a client follows
`next_cursor` (`Follow`) while items appear and disappear, and may begin with a
cursor of an earlier walk. Azure's collection is
external: it is handed out in a fixed order, a token stands for the last item
handed out, and what is deleted does not come back. A listing of the SDK is a plain
list, a pager that has its continuation token as an attribute (as the one in
`tests/test_slice34.py`), or a pager that has not (as azure-core's `ItemPaged`, whose
page iterator has it): `getattr(pager, "continuation_token", None)` is None then. A
read may fail with an SDK error, at the deadline, or with a `ValueError` of the SDK
that cannot decode Azure's answer. A SQL, Cosmos or ML client is never
built by `create_azure_clients`, which the rows of those tools show. Of the
tools with the same code (for instance the wrappers of `_inventory`) one or two
stand for all.

**Telemetry** is `audit_tool_call` as its callers' threads run it: `+= 1` on a
counter is a read (`ReadCount`) and a write (`WriteCount`), the duration total
likewise, then the log line with the correlation id of the context (`Log`), then
the hooks one by one (`Notify`), over a copy of the list made before, so that
a hook registered by a hook is not told of the entry at hand (`MaxHooks` bounds the
registrations of a behaviour: a loop over the list itself that is fed for ever would not
be told from one over many hooks by the runs). A snapshot
copies the counts in one step and looks the totals up row by row. `raced` names
the keys that two calls updated at once, whose numbers the code does not
promise. `TelemetrySpec` is telemetry used as it asks to be, an abstract
specification of its callers: a call sets its own correlation id before its first
entry (`TelemetryNext`), and begins an entry when the one before is done.

**Diagnostics** is such a caller, with several entries in a call; that it uses the
telemetry as `TelemetrySpec` says is a property of its run and a theorem. A client
calls `diagnose_virtual_machine` or one of the three read tools it is made of; each
read comes to an outcome (`InventoryTools` has how) and goes through `audit_tool_call`, except that a
refused one is not audited; then `Conclude` forms the reply and audits it. A machine is
running or halted; starting and deallocating ones count as running, as they do in
`_next_actions`.

The `MC*` modules hold what TLC needs: symmetry sets, sets of tools and keys,
and a bound.

## 3. The runs

| Run | Question | Instance |
|---|---|---|
| `approval_store` | single use, the right request, in time, no burned receipt; does the store implement the receipts, answers included | 2 issues, 2 consumes, 1 id, 2 requests, clock 0..2, Ttl 1, any restarts |
| `run_with_timeout` | workers joined, timeouts honest, calls return | 1 request, 3 successive calls, deadline of 2 ticks |
| `deadline_enforced` | *violated*: does the deadline give control back | 1 call, with a callback that may hang |
| `client_cache` | one bundle per reset, fresh after it, the right identity, no stuck lock | 3 invocations, 2 resets, all 32 settings |
| `controlled_tools` | effect under its receipt, honest replies, audit, answers | 16 tools, 1 call, 1 receipt, 2 bodies, 3 scopes, crash |
| `controlled_tools_concurrent` | one call spends a receipt, one effect for it, none after the reply | 2 calls, 2 replicas, 5 tools that differ in their order of steps |
| `inventory` | nothing silently missing, no repeats, walks end, reads are audited | 42 rows, 3 items, pages of 2, `max_results` 2, limits None, 1 and 3 |
| `diagnostics` | is the telemetry used as it asks to be, are failed reads named, do log and counters tell what was called, are hooks told and calls answered | a diagnosis or read beside a read, 8 counters, 2 registrations, of one or two hooks, 1 snapshot |
| `effects_audited` | *violated*: is what changed in Azure audited | the evaluation tool, 1 call |
| `effect_within_scope` | *violated*: does the effect stay in the receipt's scope | the generic create and delete |
| `hosted_reads` | *violated*: does a hosted user's read find its token | 2 tools |
| `incomplete_results` | *violated*: is every cut marked | Resource Graph, cost summary, policy compliance, model listing |

Why these bounds are enough. Every hazard of the store needs at most two callers
of one receipt, one receipt with an expiry and a moment on either side of it;
the second request is there for mismatches. Receipts do not touch one another,
so one identifier is enough for TLC, and the proofs have any number. Three requests are
needed to race a builder, a waiter and a reader of the cache, and two resets to
have one before and one during a construction. A third item over pages of two
makes a second page; limits of 1 and 3 lie below and above `max_results`, and a
limit equal to a collection's size shows the conservative flags. Deadlines are
counted in a few ticks because only "before" and "after" matter. In
`ControlledTools` calls do not interact except over a receipt, so that one call
with all tools, and two calls with one tool of each shape, cover the pairs. A lost
update of a counter takes two calls. In `diagnostics` a behaviour has a diagnosis,
or a snapshot, or hooks (`OneConcern`): the three touch different state (the
reply, the counters, the hook list) and meet only in the order of a call's own
steps, which each of them has. The proofs below remove these bounds for all
safety properties.

`CHECK_DEADLOCK FALSE` is said where invocations are one-shot and the instance
really comes to rest: after the last call there is nothing to do.

Fairness. Request threads and pool threads are scheduled (weak fairness of their
steps); nothing makes a client call, an item change, a process crash or a receipt
be issued. That a callback ends is assumed only in `EndingSpec` of
`RunWithTimeout` and `FairSpec` of `ControlledTools`: the Azure clients give up
after their transport timeouts and retries (`_build_retry_policy`). Without it a
call need not return, which is what `deadline_enforced` shows. `FairSpec` of
`InventoryTools` lets a client follow each cursor, since the question is whether
such a walk ends. `FairSpec` of `Diagnostics` schedules the threads, reads that
fail or end included, and says nothing of registrations and snapshots; a hook
that never returns is outside it. A lock is held over a bounded number of steps, so weak
fairness of the holder suffices where each thread waits for it once.

Each property of a passing run has a mutant (`mutants` in `PROJECT.json`): a
plausible bug in one definition, named where it is defined ("Mutant: ..."),
that makes TLC find the property violated.

## 4. What the runs found

Five statements of the repository do not hold of its code; each has a run with
`expect: violation` and an entry under `findings`.

* `DeadlineEnforced`: `run_with_timeout` is to "enforce a wall-clock deadline"
  (`src/utils/runtime.py:10`), but `TimeoutError` leaves the executor's `with`
  block, whose exit waits for the worker. A hung callback hangs the tool. The
  good side of it is `NoOrphanWorker` and `NoEffectAfterReply`: no operation
  goes on behind a caller that was told TIMEOUT.
* `EffectsAudited`: state changes are to be audited
  (`docs/phases/azure-mcp-implementation-guidelines.md:107`), but
  `create_ai_foundry_evaluation` answers every `ValueError` with an unaudited
  validation error, one raised after Azure accepted the evaluation included
  (`src/tools/ai.py:213`). The caller is told that its arguments were wrong while the
  receipt is spent and the evaluation may exist. `EffectsAreAudited` proves that this
  is the only tool and the only reply for which it happens.
* `EffectWithinScope`: `create_azure_resource` binds its receipt to the
  subscription in the resource id and creates in the configured one.
* `HostedReadsServed`: callbacks that build a credential run in a pool thread,
  where the request's token is not visible; in hosted mode these reads fail.
* `IncompleteResultsFlagged`: Resource Graph and policy compliance are asked for
  `top` rows and the reply says `truncated` only if there are more than `top`; the
  cost summary takes the rows of the first answer, if it finds them
  (`src/tools/cost.py:81`), and has no flag. A page listing looks for the continuation
  token on the pager (`src/foundry_adapter.py:47`), where azure-core does not have it:
  the client gets the first page and no cursor, and no flag unless the page exceeds the
  limit. `NothingIsMissing` proves of the tools whose flag can tell (`Forthcoming`),
  page listings with a token on the pager included, that they leave nothing out unmarked.

Exceptions that a property names. `AzureReadsAudited` (every call is to be logged with
its outcome, `docs/runbooks/scope.md:37`) holds but for two kinds of failures: a
`ValueError` of the SDK in the tools that take every `ValueError` for one of their
arguments (`src/tools/ai.py:90`), and any failure of the thread, run and message
listings. `ReplyTruthful` and `SpendingAudited` except the validation errors of
`create_ai_foundry_evaluation`, which `EffectsAudited` is about. That a refused call is
not audited, although `src/tools/network.py:261` says so, can be read off every handler,
which returns the refusal before its `audit_tool_call`; no property repeats it.

Not findings. Unlocked counters may lose an update; no document says otherwise,
and `CountsMatchLog` asks for exact numbers only where no two calls met in one
counter. With two replicas a receipt issued at one is refused at the other, without
being spent (`SpentByOneCall`): the store's docstring says that it is for one process,
although `infra/main.bicep:127` allows three.

## 5. What is proved

`ApprovalStoreProofs` proves, from the named assumptions of `ApprovalStore`
(`Ttl` and `MaxClock` are numbers, `Planners` and `Callers` are disjoint, `Free`
and `NoPlan` are no thread and no plan) and for any sets of identifiers,
threads and requests:

* `TypeCorrect`: `Spec => []TypeOK`;
* `SingleUse`, `Bound`, `RefusalsAreFree`, `ExpiryFinal`: the four safety
  properties of the run, from `Inductive`: `Spec => []IInv`;
* `Refinement`: `Spec => Receipts!Spec`, the safety part of "implements".

The properties are not inductive: a caller that is past its checks must find the
receipt as it saw it, and only the lock says so. `IInv` adds who holds the lock
(`LockOwner`), that a cleared caller's receipt still passes the checks
(`ClearedStillPasses`), that a granted receipt is spent or its store gone
(`GrantedIsSpent`, which is what makes the second grant impossible), that the
history agrees with the store, and that an identifier retired by a restart never
comes back (`PendingIsFresh`). `InitIInv` and `NextIInv` establish it, with one
step per action and conjunct. For the refinement, `Spend` and a refusing
`Examine` map to the abstract `Answer`, `StorePlan` to `Issue`, `Ask` to `Ask`,
`Restart` to `Restart`, and every other step stutters.

`RunWithTimeoutProofs` proves, for any requests, number of calls and deadline
(`MaxCalls` and `Timeout` positive): `TypeCorrect`, `WorkersAreJoined`
(`[]NoOrphanWorker`) and `TimeoutsAreHonest` (`[]TimeoutMeansLate`). Its
invariant says call by call that a request inside the helper has submitted its
callback, that a call without an ended worker has no outcome and no reply but
the timeout of a deadline already passed (`Silent`), and the two properties
themselves (`Joined`, `Honest`). `Silent` is what makes a late success behind a
timeout harmless: it was late when the reply was chosen.

`AzureClientsCacheProofs` proves, for any number of requests and resets and any
settings (`Free` is no request, the two local identities are distinct and no
request's, `NoClients` is no bundle, `MaxResets` is a number): `TypeCorrect`,
`BuiltOnce` (`[]RebuildOnlyAfterReset`), `Fresh` (`[]FreshAfterReset`),
`NoneExplained` (`[]NoneOnlyUnderReset`) and `IdentityIsNamed` (`[]OwnIdentity`).
Its invariant says that a cached bundle was begun after the last reset
(`CacheIsCurrent`), that a reset pays for the next construction
(`BuildsArePaid`), and for each request what it can have seen of the cache and
what a reset can have taken away since (`SeesCache`): under the lock nothing, as
a reset needs the lock too; outside it the bundle itself, which is why a request
may be returned None.

`ControlledToolsProofs` proves, for any calls, receipts, replicas, tools, bodies
and scopes (the scopes are distinct, and `Nothing` and `NoId` are none of the
things they stand beside): `TypeCorrect`, `EffectsAreAuthorised`,
`ReceiptsPayOnce` (`[]OneEffectPerReceipt`), `SpentOnlyOnce` (`[]SpentByOneCall`),
`RepliesAreTruthful`, `SpendingIsAudited` and the action property `RepliesAreFinal`
(`NoEffectAfterReply`). Two theorems bound findings. `EffectScopes` says how far
`EffectWithinScope` fails: every effect is in the scope of its request, or it is the
generic create's and in the configured subscription. `EffectsAreAudited` says how far
`EffectsAudited` fails: an unaudited effect of an answered call is that of an evaluation
whose reply is a validation error. What a validation error of any other tool promises
(Azure untouched, receipt unspent) does not rest on when a callback raises what: only
the check of the arguments, before anything else, ends in one. The argument: every handler has one of five orders of steps, each
with one "consume" before everything that touches Azure (`HandlerShape`), so that
where a call is says whether it has spent its receipt (`HasSpent`). `IInv` adds what a
spent receipt was issued for (`Paid`), that no two calls have spent the same one
(`SpentOnce`), that each spent one has its call at the replica that issued it
(`SpentHasCaller`), when a call can have an effect (`Touches`) and which step goes with
which callback and reply (`Progress`).

`TelemetryProofs` is about `TelemetrySpec`, with finitely many calls and any keys and
hooks: `TelemetryTypeCorrect`, `CountsAreHonest`, `RowsAreCovered` and
`HooksAreTold`. Counters are compared with the cardinality of the log's entries, so
the log is kept finite and its entries are numbered call by call (`Numbered`,
`OwnEntry`): each `Log` adds an entry that was not there. `HasLoaded` is the race
in a formula: what was read of a counter is never more than there was to count,
and it is what the counter still holds unless another call is between its read and
its write, which is when the key enters `raced`. `Covers` says of a snapshot that is not
finished what its finished rows promise; `Telling`, that the hooks told and the
hooks to tell are together those registered when the event was handed out.

`DiagnosticsProofs` proves `UsesTelemetry` (`Spec => TelemetrySpec`, the variables
themselves being the refinement mapping; its handler invariant `HInv` says that a
call that begins an entry has its id and is in none), and so `TelemetryHolds`: what
is proved of the telemetry holds while diagnoses and reads run. Then `TypeCorrect`,
`DiagnosesAreHonest` (`[]EvidenceNamed`) and `LogsAreComplete` (`[]LogTellsReply`),
from `DInv`: a read is found only when its step has come (`FoundInOrder`), a
diagnosis names exactly what it lacks (`WellNamed`), and the keys a call has logged
or is writing are those of what it has found. Assumed: the keys cover the tools'
outcomes, and only calls diagnose.

`InventoryToolsProofs` proves, for any finite collection of items numbered from 1
and any positive page size and `max_results`: `TypeCorrect`, `NothingIsMissing`
(`[]NothingSilentlyMissing`) and `NothingIsRepeated` (`NoRepeats`). The invariant follows the walk: what the client has been
given lies up to its cursor, and everything that was there all the while up to there has
been given (`SeenUpTo`); a read in progress has what lies between the cursor and
where it is at (`HasRead`); one that has ended has all it set out to read
(`ReadAll`); and an answer's cursor is where its read ended (`Answered`). The lemmas
are about the first `n` items of a finite set (`FirstIs`, `FirstShort`) and about a
page cut from it (`PageIs`); `ReaderIs` is what the table of tools has in common.
`HostedReads` says how far the finding `HostedReadsServed` goes: in hosted mode the
tools that build a credential in the pool thread are never served, and, where a
subscription is selected, no other fails for want of a token. `ReadsAreAudited`
(`[]AzureReadsAudited`) follows from the clause of the invariant on answers.

What is only model-checked is liveness: `EveryCallAnswered`, `CallReturns`,
`EveryCallEnds`, `EveryWalkEnds` and the liveness half of `ImplementsReceipts`,
which rest on fairness and ENABLED. Every other property of a passing run is a
theorem. `MaxClock`, `MaxHooks` and `MaxResets` are parameters of the models, so the
theorems hold for every bound; that telemetry is looked at by one snapshot is part
of its model.

## 6. Not modelled

The component list in `PROJECT.json` gives a reason for each. In short: request
parsing and text (environment parsing, validation patterns, redaction, error
wording), tables (`tool_registry`), transport (`app.py`, Entra JWT checks,
FastMCP), and the set-up of logging and OpenTelemetry exporters, which happens
once before the first call. Durations are not modelled beyond the deadline's
tick count: that client construction, `begin_*` and lazy pagers run outside the
deadline is visible in the order of steps but has no property. Settings do not
change while a process runs: nothing in `src/src` writes the environment.

## 7. Plan

Done: `ApprovalReceipts`, `ApprovalStore`, `RunWithTimeout`, `AzureClientsCache`
(with settings and credentials), `ControlledTools`, `InventoryTools` with all
reads, `Telemetry` and `Diagnostics`, each with the proofs of its safety
properties.

Next, in this order:

1. `Telemetry` with any number of snapshots.
2. Pure algorithms: redaction and resource-id parsing against reference
   definitions over bounded inputs.

`ControlledTools` is not shown to implement `ApprovalReceipts`: it has no clock, and
whether a receipt lapses is chosen when it does, so that a refinement mapping would
have to foresee its expiry. What it takes from the store is one judgement in one
step (`Consume`), which `Refinement` of `ApprovalStoreProofs` justifies.
