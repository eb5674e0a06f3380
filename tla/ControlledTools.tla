--------------------------- MODULE ControlledTools ---------------------------
(***************************************************************************)
(* The controlled tools end to end: a plan tool issues a receipt, a later  *)
(* call of the tool itself consumes it, reaches Azure through the deadline *)
(* helper, writes an audit entry and replies.                              *)
(*                                                                         *)
(* Each handler of src/tools is the sequence of its steps, in the order of *)
(* its statements; the actions below interpret them.  What a handler       *)
(* composes is modelled in detail elsewhere and used here as those modules *)
(* justify: consuming a receipt is one indivisible step (ApprovalStore     *)
(* implements ApprovalReceipts), and a timeout is reported only after the  *)
(* callback has ended (RunWithTimeout).  Azure itself is external: a call  *)
(* may take effect and succeed, take effect and still fail for its caller, *)
(* or fail without effect.                                                 *)
(***************************************************************************)
EXTENDS Naturals, Sequences

CONSTANTS
    Calls,       \* calls of controlled tools
    Ids,         \* approval identifiers
    NoId,        \* a call without approval_id
    Tools,       \* the controlled tools in use
    Replicas,    \* server processes behind one address
    Configured,  \* the configured subscription
    Foreign,     \* another subscription a resource id may name
    Project,     \* a Foundry project endpoint
    Bodies,      \* target and payload, as far as the hash tells them apart
    Nothing      \* no arguments, no binding, no effect

ASSUME DistinctAssumption ==
    /\ NoId \notin Ids
    /\ Configured # Foreign /\ Configured # Project /\ Foreign # Project
    /\ Nothing \notin {Configured, Foreign, Project} \cup Replicas

-----------------------------------------------------------------------------
(***************************************************************************)
(* The handlers.                                                           *)
(*   steps         what it does, in order, on the request thread           *)
(*   subscription  "clients" goes through get_azure_clients, which needs a *)
(*                 subscription (the blob client needs a credential only)  *)
(*   worker        what the callback under the deadline does: "call" Azure *)
(*                 with the clients at hand, build a "credential" or the   *)
(*                 "arm" clients for itself first, or "poll" an operation  *)
(*   quiet         a ValueError becomes a reply without an audit entry     *)
(***************************************************************************)
StartVirtualMachine ==
    [steps |-> <<"consume", "clients", "submit">>, subscription |-> TRUE, worker |-> "call", quiet |-> FALSE]

StopVirtualMachine ==
    [steps |-> <<"consume", "clients", "submit">>, subscription |-> TRUE, worker |-> "call", quiet |-> FALSE]

CreateStorageAccount ==
    [steps |-> <<"consume", "clients", "submit">>, subscription |-> TRUE, worker |-> "call", quiet |-> FALSE]

\* Mutant: nothing is uploaded.
UploadBlobContentNever ==
    [steps |-> <<"consume", "clients">>, subscription |-> FALSE, worker |-> "call", quiet |-> FALSE]

UploadBlobContent ==
    [steps |-> <<"consume", "clients", "submit">>, subscription |-> FALSE, worker |-> "call", quiet |-> FALSE]

DownloadBlobContent ==
    [steps |-> <<"consume", "clients", "submit">>, subscription |-> FALSE, worker |-> "call", quiet |-> FALSE]

CreatePublicIpAddress ==
    [steps |-> <<"consume", "clients", "submit">>, subscription |-> TRUE, worker |-> "call", quiet |-> FALSE]

DeployOpenAIModel ==
    [steps |-> <<"consume", "clients", "submit">>, subscription |-> TRUE, worker |-> "call", quiet |-> FALSE]

\* begin_* runs on the request thread without a deadline; only the poller has one.
MutateAzureResource(operation) ==
    [steps |-> IF operation = "create"
               THEN <<"consume", "clients", "resolve", "begin", "submit">>
               ELSE <<"consume", "clients", "begin", "submit">>,
     subscription |-> TRUE, worker |-> "poll", quiet |-> FALSE]

CreateAIFoundryEvaluation ==
    [steps |-> <<"consume", "clients", "submit">>, subscription |-> TRUE, worker |-> "credential", quiet |-> TRUE]

DeleteAIFoundryProjectConnection ==
    [steps |-> <<"consume", "submit">>, subscription |-> TRUE, worker |-> "arm", quiet |-> FALSE]

UpsertAIFoundryProjectConnection ==
    [steps |-> <<"consume", "submit">>, subscription |-> TRUE, worker |-> "arm", quiet |-> FALSE]

\* The agent tools build the clients before they look at the receipt.
CreateAIFoundryAgent ==
    [steps |-> <<"clients", "consume", "submit">>, subscription |-> TRUE, worker |-> "credential", quiet |-> FALSE]

\* Mutant: the approval is looked at after the deletion.
DeleteAIFoundryAgentFirst ==
    [steps |-> <<"clients", "submit", "consume">>, subscription |-> TRUE, worker |-> "credential", quiet |-> FALSE]

DeleteAIFoundryAgent ==
    [steps |-> <<"clients", "consume", "submit">>, subscription |-> TRUE, worker |-> "credential", quiet |-> FALSE]

UpdateAIFoundryAgent ==
    [steps |-> <<"clients", "consume", "submit">>, subscription |-> TRUE, worker |-> "credential", quiet |-> FALSE]

Handlers ==
    [start_virtual_machine |-> StartVirtualMachine,
     stop_virtual_machine |-> StopVirtualMachine,
     create_storage_account |-> CreateStorageAccount,
     upload_blob_content |-> UploadBlobContent,
     download_blob_content |-> DownloadBlobContent,
     create_public_ip_address |-> CreatePublicIpAddress,
     deploy_openai_model |-> DeployOpenAIModel,
     create_azure_resource |-> MutateAzureResource("create"),
     update_azure_resource |-> MutateAzureResource("update"),
     delete_azure_resource |-> MutateAzureResource("delete"),
     create_ai_foundry_evaluation |-> CreateAIFoundryEvaluation,
     delete_ai_foundry_project_connection |-> DeleteAIFoundryProjectConnection,
     upsert_ai_foundry_project_connection |-> UpsertAIFoundryProjectConnection,
     create_ai_foundry_agent |-> CreateAIFoundryAgent,
     delete_ai_foundry_agent |-> DeleteAIFoundryAgent,
     update_ai_foundry_agent |-> UpdateAIFoundryAgent]

ASSUME ToolsAssumption == Tools \subseteq DOMAIN Handlers

-----------------------------------------------------------------------------
(***************************************************************************)
(* The plan tools: for which tools each issues receipts, and the scopes it *)
(* binds them to.  The tools themselves derive the scope the same way.     *)
(***************************************************************************)
PlanVirtualMachinePowerAction ==
    [tools |-> {"start_virtual_machine", "stop_virtual_machine"}, scopes |-> {Configured}]

PlanStorageMutation ==
    [tools |-> {"create_storage_account", "upload_blob_content", "download_blob_content"},
     scopes |-> {Configured}]

PlanPublicIpCreation == [tools |-> {"create_public_ip_address"}, scopes |-> {Configured}]

PlanOpenAIDeployment == [tools |-> {"deploy_openai_model"}, scopes |-> {Configured}]

\* The scope is the subscription that the resource id names.
PlanAzureResourceMutation ==
    [tools |-> {"create_azure_resource", "update_azure_resource", "delete_azure_resource"},
     scopes |-> {Configured, Foreign}]

PlanAIFoundryEvaluationCreation ==
    [tools |-> {"create_ai_foundry_evaluation"}, scopes |-> {Project}]

PlanAIFoundryConnectionDeletion ==
    [tools |-> {"delete_ai_foundry_project_connection"}, scopes |-> {Configured}]

PlanAIFoundryConnectionUpsert ==
    [tools |-> {"upsert_ai_foundry_project_connection"}, scopes |-> {Configured}]

PlanAIFoundryAgentMutation ==
    [tools |-> {"create_ai_foundry_agent", "delete_ai_foundry_agent", "update_ai_foundry_agent"},
     scopes |-> {Project}]

PlanTools ==
    {PlanVirtualMachinePowerAction, PlanStorageMutation, PlanPublicIpCreation,
     PlanOpenAIDeployment, PlanAzureResourceMutation, PlanAIFoundryEvaluationCreation,
     PlanAIFoundryConnectionDeletion, PlanAIFoundryConnectionUpsert, PlanAIFoundryAgentMutation}

Requests == UNION {[tool: p.tools \cap Tools, scope: p.scopes, body: Bodies] : p \in PlanTools}

Scopes == {Configured, Foreign, Project}

-----------------------------------------------------------------------------
VARIABLES
    mode,     \* "local", "hosted", or "unselected": local without a subscription
    status,   \* what has become of each receipt
    bound,    \* the request each receipt was issued for
    home,     \* the replica whose store holds it
    phase,    \* where each call is
    step,     \* the step of its handler it is at
    arg,      \* its replica, approval_id and request
    worker,   \* the callback under the deadline
    effect,   \* the scope in which the call changed (or read) Azure
    audit,    \* the audit entry the call wrote
    reply     \* what the call returned

vars == <<mode, status, bound, home, phase, step, arg, worker, effect, audit, reply>>

receipts == <<status, bound, home>>

Arguments == [replica: Replicas, id: Ids \cup {NoId}, request: Requests]

ASSUME NothingAssumption == Nothing \notin Arguments

InFlight(c) == phase[c] \in {"running", "waiting", "overdue"}

Handler(c) == Handlers[arg[c].request.tool]

TypeOK ==
    /\ mode \in {"local", "hosted", "unselected"}
    /\ status \in [Ids -> {"none", "live", "lapsed", "spent", "void"}]
    /\ bound \in [Ids -> Requests \cup {Nothing}]
    /\ home \in [Ids -> Replicas \cup {Nothing}]
    /\ phase \in [Calls -> {"idle", "running", "waiting", "overdue", "answered", "lost"}]
    /\ arg \in [Calls -> Arguments \cup {Nothing}]
    /\ worker \in [Calls -> {"none", "running", "done", "raised", "value_error"}]
    /\ effect \in [Calls -> Scopes \cup {Nothing}]
    /\ audit \in [Calls -> {"none", "success", "error"}]
    /\ reply \in [Calls -> {"none", "ok", "refused", "validation", "error", "timeout"}]
    /\ \A c \in Calls : InFlight(c) => arg[c] # Nothing /\ step[c] \in DOMAIN Handler(c).steps

Init ==
    /\ mode \in {"local", "hosted", "unselected"}
    /\ status = [id \in Ids |-> "none"]
    /\ bound = [id \in Ids |-> Nothing]
    /\ home = [id \in Ids |-> Nothing]
    /\ phase = [c \in Calls |-> "idle"]
    /\ step = [c \in Calls |-> 0]
    /\ arg = [c \in Calls |-> Nothing]
    /\ worker = [c \in Calls |-> "none"]
    /\ effect = [c \in Calls |-> Nothing]
    /\ audit = [c \in Calls |-> "none"]
    /\ reply = [c \in Calls |-> "none"]

-----------------------------------------------------------------------------
\* Receipts: issued by a replica's plan tool, outdated by the passing of time.
IssuePlan(replica, id, plan, request) ==
    /\ status[id] = "none"
    /\ request.tool \in plan.tools
    /\ status' = [status EXCEPT ![id] = "live"]
    /\ bound' = [bound EXCEPT ![id] = request]
    /\ home' = [home EXCEPT ![id] = replica]
    /\ UNCHANGED <<mode, phase, step, arg, worker, effect, audit, reply>>

Lapse(id) ==
    /\ status[id] = "live"
    /\ status' = [status EXCEPT ![id] = "lapsed"]
    /\ UNCHANGED <<mode, bound, home, phase, step, arg, worker, effect, audit, reply>>

-----------------------------------------------------------------------------
\* How a handler returns: its reply, and the audit entry it wrote before.
Answer(c, kind, entry) ==
    /\ phase' = [phase EXCEPT ![c] = "answered"]
    /\ reply' = [reply EXCEPT ![c] = kind]
    /\ audit' = [audit EXCEPT ![c] = entry]
    /\ UNCHANGED step

\* Mutant: no handler audits its errors.
RaiseSilently(c, isValueError) ==
    Answer(c, IF isValueError /\ Handler(c).quiet THEN "validation" ELSE "error", "none")

\* Mutant: every handler takes a ValueError for one of its arguments.
RaiseAsValidation(c, isValueError) ==
    IF isValueError THEN Answer(c, "validation", "none") ELSE Answer(c, "error", "error")

\* An exception reaches the handler's except clauses.
Raise(c, isValueError) ==
    IF isValueError /\ Handler(c).quiet
    THEN Answer(c, "validation", "none")
    ELSE Answer(c, "error", "error")

Proceed(c) ==
    /\ step' = [step EXCEPT ![c] = @ + 1]
    /\ UNCHANGED <<phase, reply, audit>>

At(c, kind) == phase[c] = "running" /\ Handler(c).steps[step[c]] = kind

\* A call arrives at some replica; one with invalid arguments is answered at once.
Call(c, arguments) ==
    /\ phase[c] = "idle"
    /\ arg' = [arg EXCEPT ![c] = arguments]
    /\ \/ /\ phase' = [phase EXCEPT ![c] = "running"]
          /\ step' = [step EXCEPT ![c] = 1]
          /\ UNCHANGED <<reply, audit>>
       \/ Answer(c, "validation", "none")
    /\ UNCHANGED <<mode, receipts, worker, effect>>

\* The store's judgement on the receipt a call presents to its own replica.
Authorises(id, arguments) ==
    /\ id \in Ids
    /\ home[id] = arguments.replica
    /\ status[id] = "live"
    /\ bound[id] = arguments.request

\* Mutant: an approval does not spend the receipt.
ConsumeNothing(c) ==
    /\ At(c, "consume")
    /\ \/ Authorises(arg[c].id, arg[c]) /\ Proceed(c)
       \/ ~Authorises(arg[c].id, arg[c]) /\ Answer(c, "refused", "none")
    /\ UNCHANGED <<mode, receipts, arg, worker, effect>>

\* Mutant: a receipt is spent by the call that presents it, whatever the judgement.
ConsumeOnMismatch(c) ==
    /\ At(c, "consume")
    /\ arg[c].id \in Ids
    /\ status' = [status EXCEPT ![arg[c].id] = IF @ = "live" THEN "spent" ELSE @]
    /\ \/ Authorises(arg[c].id, arg[c]) /\ Proceed(c)
       \/ ~Authorises(arg[c].id, arg[c]) /\ Answer(c, "refused", "none")
    /\ UNCHANGED <<mode, bound, home, arg, worker, effect>>

Consume(c) ==
    /\ At(c, "consume")
    /\ LET id == arg[c].id
       IN  \/ /\ Authorises(id, arg[c])
              /\ status' = [status EXCEPT ![id] = "spent"]
              /\ Proceed(c)
           \/ /\ ~Authorises(id, arg[c])
              /\ Answer(c, "refused", "none")
              /\ UNCHANGED status
    /\ UNCHANGED <<mode, bound, home, arg, worker, effect>>

\* The clients on the request thread: a ValueError without a subscription or
\* with an incomplete service principal.
BuildClients(c) ==
    /\ At(c, "clients")
    /\ \/ /\ mode = "unselected" => ~Handler(c).subscription
          /\ Proceed(c)
       \/ Raise(c, TRUE)
    /\ UNCHANGED <<mode, receipts, arg, worker, effect>>

\* The generic create takes the resource id apart only now.
Resolve(c) ==
    /\ At(c, "resolve")
    /\ Proceed(c) \/ Raise(c, TRUE)
    /\ UNCHANGED <<mode, receipts, arg, worker, effect>>

\* begin_create_or_update takes no subscription: it acts in that of the clients.
EffectScope(request) ==
    IF request.tool = "create_azure_resource" THEN Configured ELSE request.scope

Begin(c) ==
    /\ At(c, "begin")
    /\ \/ /\ effect' = [effect EXCEPT ![c] = EffectScope(arg[c].request)]
          /\ Proceed(c) \/ Raise(c, FALSE)
       \/ /\ UNCHANGED effect
          /\ Raise(c, FALSE)
    /\ UNCHANGED <<mode, receipts, arg, worker>>

Submit(c) ==
    /\ At(c, "submit")
    /\ worker' = [worker EXCEPT ![c] = "running"]
    /\ phase' = [phase EXCEPT ![c] = "waiting"]
    /\ UNCHANGED <<mode, receipts, step, arg, effect, audit, reply>>

-----------------------------------------------------------------------------
(***************************************************************************)
(* The callback.  It runs outside the request's context, so that in hosted *)
(* mode a callback that builds its own credential finds no token.          *)
(***************************************************************************)
CanReachAzure(c) ==
    CASE Handler(c).worker = "call" -> TRUE
      [] Handler(c).worker = "credential" -> mode # "hosted"
      [] Handler(c).worker = "arm" -> mode = "local"
      [] Handler(c).worker = "poll" -> FALSE

WorkerActs(c) ==
    /\ worker[c] = "running"
    /\ CanReachAzure(c)
    /\ effect[c] = Nothing
    /\ effect' = [effect EXCEPT ![c] = EffectScope(arg[c].request)]
    /\ UNCHANGED <<mode, receipts, phase, step, arg, worker, audit, reply>>

\* The callback returns once its effect is there, or raises, before Azure accepted the
\* operation or after: an SDK error, or a ValueError (no token, no subscription,
\* arguments that the Foundry adapter refuses, an answer of Azure that the SDK cannot
\* decode).
WorkerEnds(c) ==
    /\ worker[c] = "running"
    /\ \E end \in {"done", "raised", "value_error"} :
         /\ end = "done" => effect[c] # Nothing
         /\ worker' = [worker EXCEPT ![c] = end]
    /\ UNCHANGED <<mode, receipts, phase, step, arg, effect, audit, reply>>

Expire(c) ==
    /\ phase[c] = "waiting"
    /\ worker[c] = "running"
    /\ phase' = [phase EXCEPT ![c] = "overdue"]
    /\ UNCHANGED <<mode, receipts, step, arg, worker, effect, audit, reply>>

\* Mutant: a ValueError of the callback is never collected.
CollectSdkOnly(c) ==
    /\ phase[c] = "waiting"
    /\ \/ worker[c] = "done" /\ Answer(c, "ok", "success")
       \/ worker[c] = "raised" /\ Raise(c, FALSE)
    /\ UNCHANGED <<mode, receipts, arg, worker, effect>>

\* run_with_timeout hands over what the callback did.
Collect(c) ==
    /\ phase[c] = "waiting"
    /\ \/ worker[c] = "done" /\ Answer(c, "ok", "success")
       \/ worker[c] = "raised" /\ Raise(c, FALSE)
       \/ worker[c] = "value_error" /\ Raise(c, TRUE)
    /\ UNCHANGED <<mode, receipts, arg, worker, effect>>

\* Mutant: TimeoutError is raised while the callback is still running.
CollectAtDeadline(c) ==
    /\ phase[c] = "overdue"
    /\ Answer(c, "timeout", "error")
    /\ UNCHANGED <<mode, receipts, arg, worker, effect>>

\* After the deadline it still waits for the callback, then raises TimeoutError.
CollectLate(c) ==
    /\ phase[c] = "overdue"
    /\ worker[c] # "running"
    /\ Answer(c, "timeout", "error")
    /\ UNCHANGED <<mode, receipts, arg, worker, effect>>

\* A process is lost with its store, its calls and their callbacks.
Crash(replica) ==
    LET hit == {c \in Calls : InFlight(c) /\ arg[c].replica = replica}
    IN  /\ status' = [id \in Ids |-> IF home[id] = replica THEN "void" ELSE status[id]]
        /\ phase' = [c \in Calls |-> IF c \in hit THEN "lost" ELSE phase[c]]
        /\ worker' = [c \in Calls |-> IF c \in hit THEN "none" ELSE worker[c]]
        /\ UNCHANGED <<mode, bound, home, step, arg, effect, audit, reply>>

Working(c) == WorkerActs(c) \/ WorkerEnds(c)

Handling(c) ==
    \/ Consume(c) \/ BuildClients(c) \/ Resolve(c) \/ Begin(c) \/ Submit(c)
    \/ Expire(c) \/ Collect(c) \/ CollectLate(c)

Next ==
    \/ \E replica \in Replicas, id \in Ids, plan \in PlanTools, request \in Requests :
         IssuePlan(replica, id, plan, request)
    \/ \E id \in Ids : Lapse(id)
    \/ \E c \in Calls, arguments \in Arguments : Call(c, arguments)
    \/ \E c \in Calls : Handling(c) \/ Working(c)
    \/ \E replica \in Replicas : Crash(replica)

Spec == Init /\ [][Next]_vars

\* Request threads are scheduled, and every callback ends (the Azure clients
\* give up after their own transport timeouts and retries).
FairSpec ==
    Spec /\ \A c \in Calls : WF_vars(Handling(c)) /\ WF_vars(WorkerEnds(c))

-----------------------------------------------------------------------------
(***************************************************************************)
(* Properties.                                                             *)
(***************************************************************************)

\* Azure is touched only under a receipt that was issued for exactly this
\* request and is spent by then, whatever the order of the handler's steps.
EffectAuthorised ==
    \A c \in Calls : effect[c] # Nothing =>
        /\ arg[c].id \in Ids
        /\ bound[arg[c].id] = arg[c].request
        /\ status[arg[c].id] \in {"spent", "void"}

\* One receipt pays for one effect: retries, concurrent calls and calls of
\* another replica included.
OneEffectPerReceipt ==
    \A c, d \in Calls :
        effect[c] # Nothing /\ effect[d] # Nothing /\ arg[c].id = arg[d].id => c = d

\* Nothing happens in Azure behind the back of a caller that has its reply, a
\* TIMEOUT reply included.
NoEffectAfterReply ==
    [][\A c \in Calls : phase[c] = "answered" => effect'[c] = effect[c]]_vars

\* The call is past its "consume" step, so that it has spent its receipt.
HasSpent(c) == \E i \in 1..(step[c] - 1) : Handler(c).steps[i] = "consume"

\* A spent receipt was spent by one call, of the replica that issued it and for the
\* request it was issued for: a call that is refused, at another replica or for another
\* request, takes it from nobody.
SpentByOneCall ==
    \A id \in Ids : status[id] = "spent" =>
        \E c \in Calls :
            /\ phase[c] # "idle" /\ HasSpent(c)
            /\ arg[c] = [replica |-> home[id], id |-> id, request |-> bound[id]]
            /\ \A d \in Calls : HasSpent(d) /\ arg[d].id = id => d = c

\* What a client may conclude from its reply: after "ok" the operation was accepted;
\* after a refusal or a validation error Azure is untouched and the receipt still
\* unspent, so that the call may be corrected and repeated.  After "error" and "timeout"
\* nothing follows, nor after a validation error of create_ai_foundry_evaluation, which
\* answers every ValueError so, one raised after Azure accepted the evaluation included.
ReplyTruthful ==
    \A c \in Calls :
        /\ reply[c] = "ok" => effect[c] # Nothing
        /\ reply[c] = "refused" \/ (reply[c] = "validation" /\ ~Handler(c).quiet) =>
               effect[c] = Nothing /\ ~HasSpent(c)

\* "Both the approval-blocked and success/failure paths are audited"
\* (src/tools/network.py:261), of the second path: no answered call leaves an effect in
\* Azure, or takes a receipt from its holder, without an audit entry; but for the
\* validation errors of create_ai_foundry_evaluation (see EffectsAudited).
SpendingAudited ==
    \A c \in Calls : phase[c] = "answered" /\ HasSpent(c) =>
        \/ audit[c] # "none"
        \/ Handler(c).quiet /\ reply[c] = "validation"

\* "... idempotency, and audit for state changes"
\* (docs/phases/azure-mcp-implementation-guidelines.md:107): what an answered call has
\* changed in Azure is audited.
EffectsAudited ==
    \A c \in Calls : phase[c] = "answered" /\ effect[c] # Nothing => audit[c] # "none"

\* Every call is answered unless its process is lost, if callbacks end.
EveryCallAnswered ==
    \A c \in Calls : InFlight(c) ~> phase[c] \in {"answered", "lost"}

\* The receipt is bound to a scope, and its effect stays within that scope.
EffectWithinScope ==
    \A c \in Calls : effect[c] # Nothing => effect[c] = arg[c].request.scope
=============================================================================
