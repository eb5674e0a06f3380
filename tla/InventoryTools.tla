---------------------------- MODULE InventoryTools ----------------------------
(***************************************************************************)
(* The read tools: what a client learns of a collection that changes while *)
(* it is being read, from one bounded reply or, where the tool has a       *)
(* cursor, from a walk over several; or of one item of it.                 *)
(*                                                                         *)
(* Azure is external.  A collection is a set of items in a fixed order; a  *)
(* service hands it out in pages, and a continuation token stands for the  *)
(* last item before the page, so that what comes and goes elsewhere does   *)
(* not move the page.  list(pager) reads page after page, by_page reads    *)
(* one; `top` asks the service for no more than so many items.             *)
(***************************************************************************)
EXTENDS Naturals, FiniteSetsExt

CONSTANTS
    Universe,     \* items that may ever exist, as numbers from 1
    PageSize,     \* items in a page of the service
    MaxResults,   \* settings.max_results
    Limits,       \* limits a client may ask for; 0 is None
    Tools,        \* the read tools in use
    NoReply       \* a call that has not been answered

ASSUME SizesAssumption ==
    /\ Universe \subseteq Nat \ {0} /\ IsFiniteSet(Universe)
    /\ PageSize \in Nat \ {0} /\ MaxResults \in Nat \ {0}
    /\ Limits \subseteq Nat

-----------------------------------------------------------------------------
(***************************************************************************)
(* The tools.                                                              *)
(*   bound    where the reply is cut: at the limit clamped to max_results  *)
(*            ("settings"; "clamped" where the limit must be given), at    *)
(*            the limit alone ("limit"), nowhere ("none")                  *)
(*   source   what is read: the "whole" collection, its "top", one "page", *)
(*            the first page and perhaps the rest ("pages"), "one" item    *)
(*            that the client names, or the first page of an answer whose  *)
(*            rows may be where the tool does not look ("usage")           *)
(*   flag     truncated: the reply is "full", there was "more", or "none"  *)
(*   clients  who builds them: the "request" thread, the "worker", the     *)
(*            request thread with a credential built in the worker         *)
(*            ("both"), or the worker without a subscription               *)
(*            ("credential"); the bundle has no such client, which is      *)
(*            noticed ("unconfigured") or not ("missing")                  *)
(*   except   "audited": every exception ends in an audited error reply;   *)
(*            "quiet": a ValueError ends in an unaudited reply; "open":    *)
(*            and every other exception leaves the tool                    *)
(***************************************************************************)
Reader(bound, source, flag, clients, except) ==
    [bound |-> bound, source |-> source, flag |-> flag, clients |-> clients, except |-> except]

ListResourceGroups == Reader("settings", "whole", "full", "request", "audited")
ListAzureResources == Reader("settings", "whole", "full", "request", "audited")
ListAzureResourceProviders == Reader("none", "whole", "none", "request", "audited")
ListVirtualMachines == Reader("settings", "whole", "full", "request", "audited")
ListNetworkResources == Reader("settings", "whole", "full", "request", "audited")
ListStorageAccounts == Reader("settings", "whole", "full", "request", "audited")
ListStorageContainers == Reader("settings", "whole", "more", "credential", "quiet")
ListKeyVaults == Reader("settings", "whole", "full", "request", "audited")
ListKeyVaultSecretMetadata == Reader("settings", "whole", "more", "credential", "quiet")
ListAdvisorRecommendations == Reader("limit", "whole", "full", "request", "audited")
QueryLogAnalytics == Reader("limit", "whole", "full", "request", "audited")
GetResourceMetrics == Reader("limit", "whole", "full", "request", "audited")
QueryAzureResourceGraph == Reader("clamped", "top", "more", "request", "audited")
ListAccessibleSubscriptions == Reader("limit", "whole", "more", "credential", "quiet")

\* A read of one thing.  preview_arm_template_deployment waits under the deadline
\* twice, for the poller and for its result; both waits fail alike.
ReadOne(clients, except) == Reader("none", "one", "none", clients, except)

GetVirtualMachineStatus == ReadOne("request", "audited")
GetAzureResource == ReadOne("request", "audited")
PreviewARMTemplateDeployment == ReadOne("request", "audited")
GetARMDeploymentOperationStatus == ReadOne("worker", "audited")
GetStorageLifecyclePolicy == ReadOne("worker", "quiet")
GetAIFoundryProjectConnection == ReadOne("worker", "audited")
GetAIFoundryAgent == ReadOne("both", "audited")

\* The rows of an SDK object are not read, and neither is its next_link:
\* the conditional expression binds looser than `or`.
GetCostSummary == Reader("none", "usage", "none", "request", "audited")

\* _inventory of tools/advanced.py; the Cosmos and ML clients are never built.
Inventory(client) ==
    Reader("settings", "whole", "full", IF client \in {"cosmos", "ml"} THEN "missing" ELSE "request", "audited")

ListAKSNodePools == Reader("settings", "whole", "more", "worker", "quiet")
ListAppServiceSlots == Reader("settings", "whole", "more", "worker", "quiet")
ListContainerApps == Reader("settings", "whole", "more", "request", "audited")
ListContainerAppEnvironments == Reader("settings", "whole", "more", "request", "audited")
ListContainerAppRevisions == Reader("settings", "whole", "more", "request", "quiet")
QueryFunctionAppLogs == Reader("limit", "top", "full", "request", "audited")
QueryCosmosItems == Reader("limit", "whole", "full", "unconfigured", "audited")
ListSQLDatabases == Reader("settings", "whole", "full", "unconfigured", "audited")
ListML == Reader("settings", "whole", "full", "unconfigured", "audited")

\* _run of tools/governance.py: role assignments, policy definitions and assignments.
ListGovernance == Reader("settings", "whole", "more", "worker", "quiet")
ListPolicyComplianceStates == Reader("settings", "top", "more", "request", "quiet")

ListOpenAIDeployments == Reader("limit", "page", "full", "request", "audited")
FoundryInventory == Reader("limit", "page", "more", "both", "quiet")
FoundryEvaluationInventory == Reader("limit", "pages", "more", "both", "quiet")
ListAIFoundryThreadMessages == Reader("limit", "whole", "none", "both", "open")
ListAIFoundryThreadRuns == Reader("limit", "whole", "none", "both", "open")
ListAIFoundryAgentThreads == Reader("limit", "whole", "none", "both", "open")
ListAIFoundryAgents == Reader("limit", "whole", "full", "both", "audited")

Readers ==
    [list_resource_groups |-> ListResourceGroups,
     list_azure_resources |-> ListAzureResources,
     list_azure_resource_providers |-> ListAzureResourceProviders,
     list_virtual_machines |-> ListVirtualMachines,
     list_network_resources |-> ListNetworkResources,
     list_storage_accounts |-> ListStorageAccounts,
     list_storage_containers |-> ListStorageContainers,
     list_key_vaults |-> ListKeyVaults,
     list_key_vault_secret_metadata |-> ListKeyVaultSecretMetadata,
     list_advisor_recommendations |-> ListAdvisorRecommendations,
     query_log_analytics |-> QueryLogAnalytics,
     get_resource_metrics |-> GetResourceMetrics,
     query_azure_resource_graph |-> QueryAzureResourceGraph,
     list_accessible_subscriptions |-> ListAccessibleSubscriptions,
     get_virtual_machine_status |-> GetVirtualMachineStatus,
     get_azure_resource |-> GetAzureResource,
     preview_arm_template_deployment |-> PreviewARMTemplateDeployment,
     get_arm_deployment_operation_status |-> GetARMDeploymentOperationStatus,
     get_storage_lifecycle_policy |-> GetStorageLifecyclePolicy,
     get_ai_foundry_project_connection |-> GetAIFoundryProjectConnection,
     get_ai_foundry_agent |-> GetAIFoundryAgent,
     get_cost_summary |-> GetCostSummary,
     list_aks_clusters |-> Inventory("aks"),
     list_cosmos_accounts |-> Inventory("cosmos"),
     list_aks_node_pools |-> ListAKSNodePools,
     list_app_service_slots |-> ListAppServiceSlots,
     list_container_apps |-> ListContainerApps,
     list_container_app_environments |-> ListContainerAppEnvironments,
     list_container_app_revisions |-> ListContainerAppRevisions,
     query_function_app_logs |-> QueryFunctionAppLogs,
     query_cosmos_items |-> QueryCosmosItems,
     list_sql_databases |-> ListSQLDatabases,
     list_ml_models |-> ListML,
     list_role_assignments |-> ListGovernance,
     list_policy_compliance_states |-> ListPolicyComplianceStates,
     list_openai_deployments |-> ListOpenAIDeployments,
     list_ai_foundry_models |-> FoundryInventory,
     list_ai_foundry_evaluations |-> FoundryEvaluationInventory,
     list_ai_foundry_thread_messages |-> ListAIFoundryThreadMessages,
     list_ai_foundry_thread_runs |-> ListAIFoundryThreadRuns,
     list_ai_foundry_agent_threads |-> ListAIFoundryAgentThreads,
     list_ai_foundry_agents |-> ListAIFoundryAgents]

ASSUME ToolsAssumption == Tools \subseteq DOMAIN Readers

-----------------------------------------------------------------------------
VARIABLES
    host,     \* auth_mode, the state of its settings, and what the SDK's listings are
    request,  \* the tool, the limit and the first cursor of the client's walk
    items,    \* the collection
    gone,     \* items deleted from it; they do not come back
    phase,    \* where the tool is
    cursor,   \* the token of this call; 0 is none
    at,       \* the last item the service handed out
    got,      \* the items read
    reply,    \* what the tool returned
    audit,    \* the audit entry it wrote
    seen,     \* the client: all items returned to it
    cut,      \* the client: some reply was marked truncated
    stable    \* history: the items that existed all through the walk

vars == <<host, request, items, gone, phase, cursor, at, got, reply, audit, seen, cut, stable>>

walk == <<host, request, seen, cut>>
collection == <<items, gone, stable>>

Tool == Readers[request.tool]

\* What a listing of the SDK is: a plain "list" without by_page; a pager that has its
\* continuation "token" as an attribute, as the one of the tests has; or a "bare" pager,
\* whose token is its page iterator's, as that of azure-core's ItemPaged.
Hosts ==
    {h \in [mode: {"local", "hosted"}, setup: {"ready", "unselected", "incomplete"},
            pager: {"list", "token", "bare"}] :
        h.mode = "hosted" => h.setup # "incomplete"}

\* A tool whose limit is not optional has a default of its own.  A tool that
\* takes a cursor may be given one of an earlier walk to begin with; a tool that
\* reads one item is given its name, which takes the cursor's place here.
Walks ==
    {w \in [tool: Tools, limit: Limits, from: Universe \cup {0}] :
        /\ Readers[w.tool].bound \in {"limit", "clamped"} => w.limit # 0
        /\ Readers[w.tool].bound = "none" => w.limit = 0
        /\ Readers[w.tool].source = "one" => w.from # 0
        /\ Readers[w.tool].source \notin {"page", "one"} => w.from = 0}

\* Why a call failed, as its exception or early return tells it.
Causes ==
    {"arguments", "setup", "cursor", "unconfigured", "attribute", "service", "timeout", "decode"}

Replies ==
    [kind: {"ok"}, items: SUBSET Universe, truncated: BOOLEAN, next: Universe \cup {0}]
        \cup [kind: {"validation", "unconfigured", "error", "raised"}, cause: Causes]

TypeOK ==
    /\ host \in Hosts
    /\ request \in Walks
    /\ items \subseteq Universe /\ gone \subseteq Universe \ items
    /\ phase \in {"idle", "building", "entering", "reading", "read", "answered"}
    /\ cursor \in Universe \cup {0} /\ at \in Universe \cup {0}
    /\ got \subseteq Universe
    /\ reply \in Replies \cup {NoReply}
    /\ audit \in {"none", "success", "error"}
    /\ seen \subseteq Universe /\ cut \in BOOLEAN /\ stable \subseteq items
    /\ phase \in {"reading", "read"} => Tool.clients \notin {"missing", "unconfigured"}

Init ==
    /\ host \in Hosts
    /\ request \in Walks
    /\ items \in SUBSET Universe
    /\ gone = {}
    /\ phase = "idle"
    /\ cursor = request.from /\ at = 0
    /\ got = {}
    /\ reply = NoReply
    /\ audit = "none"
    /\ seen = {} /\ cut = FALSE
    /\ stable = items

-----------------------------------------------------------------------------
(***************************************************************************)
(* How a tool fails.                                                       *)
(***************************************************************************)
IsValueError(cause) == cause \in {"setup", "cursor", "decode"}

\* Mutant: only the tools without a clause of their own for ValueError audit a failure.
FailUnaudited(cause) ==
    LET kind == IF cause = "arguments" THEN "validation"
                ELSE IF cause = "unconfigured" THEN "unconfigured"
                ELSE IF IsValueError(cause) /\ Tool.except \in {"quiet", "open"} THEN "validation"
                ELSE IF Tool.except = "open" THEN "raised" ELSE "error"
    IN  /\ reply' = [kind |-> kind, cause |-> cause]
        /\ audit' = IF kind = "error" /\ Tool.except = "audited" THEN "error" ELSE "none"
        /\ phase' = "answered"
        /\ UNCHANGED <<walk, collection, cursor, at, got>>

Fail(cause) ==
    LET kind == IF cause = "arguments" THEN "validation"
                ELSE IF cause = "unconfigured" THEN "unconfigured"
                ELSE IF IsValueError(cause) /\ Tool.except \in {"quiet", "open"} THEN "validation"
                ELSE IF Tool.except = "open" THEN "raised" ELSE "error"
    IN  /\ reply' = [kind |-> kind, cause |-> cause]
        /\ audit' = IF kind = "error" THEN "error" ELSE "none"
        /\ phase' = "answered"
        /\ UNCHANGED <<walk, collection, cursor, at, got>>

Goto(label) ==
    /\ phase' = label
    /\ UNCHANGED <<walk, collection, cursor, at, got, reply, audit>>

-----------------------------------------------------------------------------
Call ==
    /\ phase = "idle"
    /\ Goto("building") \/ Fail("arguments")

\* Mutant: a client the bundle does not have is not noticed.
BuildClientsUnchecked ==
    /\ phase = "building"
    /\ IF Tool.clients \notin {"worker", "credential"} /\ host.setup # "ready"
       THEN Fail("setup") ELSE Goto("entering")

\* get_azure_clients on the request thread: a ValueError without a subscription
\* or with an incomplete service principal.
BuildClients ==
    /\ phase = "building"
    /\ IF Tool.clients \notin {"worker", "credential"} /\ host.setup # "ready"
       THEN Fail("setup")
       ELSE \/ Tool.clients = "missing" /\ Fail("attribute")
            \/ Tool.clients = "unconfigured" /\ Fail("unconfigured")
            \/ Tool.clients \notin {"missing", "unconfigured"} /\ Goto("entering")

\* The callback runs in a pool thread, outside the request's context, where
\* build_credential finds no token in hosted mode.
EnterCallback ==
    /\ phase = "entering"
    /\ LET builds == Tool.clients \in {"worker", "both", "credential"}
           usable == host.setup = "ready" \/ (host.setup = "unselected" /\ Tool.clients = "credential")
       IN  IF builds /\ (host.mode = "hosted" \/ ~usable)
           THEN Fail("setup")
           ELSE /\ phase' = "reading"
                /\ at' = cursor
                /\ got' = {}
                /\ UNCHANGED <<walk, collection, cursor, reply, audit>>

-----------------------------------------------------------------------------
Bound ==
    IF Tool.bound = "limit" THEN request.limit
    ELSE IF Tool.bound = "none" THEN Cardinality(Universe)
    ELSE IF request.limit \in 1..MaxResults THEN request.limit ELSE MaxResults

First(n, S) == {i \in S : Cardinality({j \in S : j < i}) < n}

After(i) == {j \in items : j > i}

\* One answer of the service: a page, as many items as it was asked for, or the
\* item it was asked for.
Page ==
    IF Tool.source = "one" THEN items \cap {cursor}
    ELSE First(IF Tool.source \in {"top", "pages"} /\ got = {} THEN Bound ELSE PageSize, After(at))

\* One answer is all that is read of a `top`, and of a page if the SDK pages.
OneAnswer == Tool.source \in {"top", "one", "usage"} \/ (Tool.source = "page" /\ host.pager # "list")

\* Mutant: the continuation token of the request is not passed on.
ReadPageFromStart ==
    /\ phase = "reading"
    /\ LET page == First(PageSize, items)
       IN  /\ got' = page
           /\ at' = IF page = {} THEN at ELSE Max(page)
           /\ phase' = "read"
    /\ UNCHANGED <<walk, collection, cursor, reply, audit>>

ReadPage ==
    /\ phase = "reading"
    /\ (Tool.source = "page" /\ host.pager = "list") => cursor = 0
    /\ Tool.source = "one" => Page # {}
    /\ LET last == IF Page = {} THEN at ELSE Max(Page)
       IN  /\ got' = got \cup Page \/ (Tool.source = "usage" /\ got' = {})
           /\ at' = last
           /\ \/ phase' = "reading" /\ ~OneAnswer /\ After(last) # {}
              \/ phase' = "read" /\ (OneAnswer \/ After(last) = {} \/ Tool.source = "pages")
    /\ UNCHANGED <<walk, collection, cursor, reply, audit>>

\* ValueError: the SDK does not support continuation cursors.
RefuseCursor ==
    /\ phase = "reading"
    /\ Tool.source = "page" /\ host.pager = "list" /\ cursor # 0
    /\ Fail("cursor")

\* An SDK error, that of an item that does not exist included; the deadline; or a
\* ValueError of the SDK, which cannot decode what Azure answered.
ReadFails ==
    /\ phase = "reading"
    /\ \E cause \in {"service", "timeout", "decode"} : Fail(cause)

\* Mutant: a cursor is returned even when there is no further page.
NextCursorAlways == IF Tool.source = "page" /\ host.pager = "token" THEN at ELSE 0

\* The continuation token found on the pager after its page; None when there is no more,
\* and when the pager has no such attribute.
NextCursor ==
    IF Tool.source = "page" /\ host.pager = "token" /\ After(at) # {} THEN at ELSE 0

\* Mutant: the items are counted after they were cut.
TruncatedAfterCut(returned) == Tool.flag # "none" /\ Cardinality(returned) > Bound

Truncated(returned) ==
    \/ Tool.flag = "full" /\ Cardinality(returned) >= Bound
    \/ Tool.flag = "more" /\ Cardinality(got) > Bound

Answer ==
    /\ phase = "read"
    /\ LET returned == First(Bound, got)
       IN  /\ reply' = [kind |-> "ok", items |-> returned, truncated |-> Truncated(returned),
                        next |-> NextCursor]
           /\ seen' = seen \cup returned
           /\ cut' = (cut \/ Truncated(returned))
    /\ audit' = "success"
    /\ phase' = "answered"
    /\ UNCHANGED <<host, request, collection, cursor, at, got>>

-----------------------------------------------------------------------------
\* The client calls again with the cursor it was given.
Follow ==
    /\ phase = "answered"
    /\ reply.kind = "ok"
    /\ reply.next # 0
    /\ cursor' = reply.next
    /\ reply' = NoReply
    /\ audit' = "none"
    /\ phase' = "building"
    /\ UNCHANGED <<walk, collection, at, got>>

Appear(i) ==
    /\ i \in Universe \ (items \cup gone)
    /\ items' = items \cup {i}
    /\ UNCHANGED <<walk, gone, stable, phase, cursor, at, got, reply, audit>>

Disappear(i) ==
    /\ i \in items
    /\ items' = items \ {i}
    /\ gone' = gone \cup {i}
    /\ stable' = stable \ {i}
    /\ UNCHANGED <<walk, phase, cursor, at, got, reply, audit>>

Serving == BuildClients \/ EnterCallback \/ ReadPage \/ RefuseCursor \/ ReadFails \/ Answer

Next == Call \/ Serving \/ Follow \/ \E i \in Universe : Appear(i) \/ Disappear(i)

Spec == Init /\ [][Next]_vars

\* The tool is scheduled and Azure answers, one way or the other; the client
\* follows each cursor.  Nothing makes the collection change.
FairSpec == Spec /\ WF_vars(Serving) /\ WF_vars(Follow)

-----------------------------------------------------------------------------
(***************************************************************************)
(* Properties.                                                             *)
(***************************************************************************)
Complete == phase = "answered" /\ reply.kind = "ok" /\ reply.next = 0 /\ ~cut

\* What a walk owes its client: the item it names, or the items after the first
\* cursor, as far as they existed all the while.
Expected ==
    IF Tool.source = "one" THEN stable \cap {request.from} ELSE {i \in stable : i > request.from}

\* The tools that say when there is more than they return, or return all.  (Of a bare
\* pager nobody learns that there is more than its page.)
Forthcoming ==
    /\ \/ Tool.source = "one"
       \/ Tool.flag = "full"
       \/ Tool.flag = "more" /\ Tool.source \in {"whole", "page"}
    /\ Tool.source = "page" => host.pager # "bare"

\* A client that followed the cursors to the end and met no truncated reply has
\* everything expected, whatever came and went.  (What else there is leaves items out
\* and does not say so; see IncompleteResultsFlagged.)
NothingSilentlyMissing == (Complete /\ Forthcoming) => Expected \subseteq seen

\* Following the cursors never returns an item twice.
NoRepeats ==
    [][(reply = NoReply /\ reply' # NoReply /\ reply'.kind = "ok") => reply'.items \cap seen = {}]_vars

\* A walk comes to an end while the collection changes under it.
EveryWalkEnds ==
    phase = "building" ~> (phase = "answered" /\ (reply.kind = "ok" => reply.next = 0))

\* "Bounded, JSON-serializable results with explicit truncation/incomplete-evidence
\* fields" (docs/phases/azure-mcp-implementation-guidelines.md:106): no tool leaves
\* an item out without saying so.
IncompleteResultsFlagged == Complete => Expected \subseteq seen

\* "Log every call with timestamp, ..., tool name, arguments, and outcome"
\* (docs/runbooks/scope.md:37), of the calls that asked Azure for something: its answer
\* and its failures are in the audit log.  Two kinds of failures are not: a ValueError of
\* the SDK in a tool that takes every ValueError for one of its arguments, and any
\* failure of the thread, run and message listings.
AzureReadsAudited ==
    phase = "answered" =>
        /\ reply.kind = "ok" => audit = "success"
        /\ reply.kind # "ok" /\ reply.cause \in {"service", "timeout", "decode"} =>
               \/ audit = "error"
               \/ Tool.except = "quiet" /\ reply.cause = "decode"
               \/ Tool.except = "open"

\* Hosted mode "builds an OnBehalfOfCredential from the request-scoped assertion"
\* (docs/portable-plugin-architecture.md:38): a read of an authenticated user, with
\* a subscription selected, does not fail for want of that user's token.
HostedReadsServed ==
    (phase = "answered" /\ host.mode = "hosted" /\ host.setup = "ready" /\ reply.kind # "ok")
        => reply.cause # "setup"
=============================================================================
