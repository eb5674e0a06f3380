------------------------- MODULE InventoryToolsProofs -------------------------
(***************************************************************************)
(* Proofs about InventoryTools, for collections, pages, limits and         *)
(* max_results of any size, and for all its tools.                         *)
(***************************************************************************)
EXTENDS InventoryTools, FiniteSetTheorems, WellFoundedInduction, TLAPS

-----------------------------------------------------------------------------
(***************************************************************************)
(* Sets of numbers, and their first elements.                              *)
(***************************************************************************)
\* A set of numbers has a least one.
LEMMA LeastIs ==
  ASSUME NEW S, S \subseteq Nat, S # {}
  PROVE  \E least \in S : \A i \in S : least <= i
<1>1. PICK least \in S : \A i \in S : <<i, least>> \notin OpToRel(<, Nat)
  BY NatLessThanWellFounded, WFMin
<1>2. ASSUME NEW i \in S PROVE least <= i
  <2>1. ~(i < least)
    BY <1>1 DEF OpToRel
  <2>2. QED
    BY <2>1
<1>3. QED
  BY <1>2

\* A finite one has a greatest: the one that fewest are above.
LEMMA MaxIs ==
  ASSUME NEW S, S \subseteq Nat, S # {}, IsFiniteSet(S)
  PROVE  Max(S) \in S /\ \A i \in S : i <= Max(S)
<1> DEFINE Above(i) == {j \in S : j > i}
<1>1. ASSUME NEW i \in S
      PROVE  /\ IsFiniteSet(Above(i)) /\ Cardinality(Above(i)) \in Nat
             /\ \A T \in SUBSET Above(i) : Cardinality(T) <= Cardinality(Above(i))
             /\ \A T \in SUBSET Above(i) : Cardinality(T) = Cardinality(Above(i)) => T = Above(i)
  <2>1. Above(i) \in SUBSET S
    OBVIOUS
  <2>2. IsFiniteSet(Above(i))
    BY <2>1, FS_Subset
  <2>3. QED
    BY <2>2, FS_Subset, FS_CardinalityType
<1>2. PICK fewest \in {Cardinality(Above(i)) : i \in S} :
         \A n \in {Cardinality(Above(i)) : i \in S} : fewest <= n
  <2>1. \A i \in S : Cardinality(Above(i)) \in Nat
    BY <1>1
  <2> HIDE DEF Above
  <2>2. {Cardinality(Above(i)) : i \in S} \subseteq Nat
    BY <2>1
  <2>3. QED
    BY <2>2, LeastIs
<1>3. PICK greatest \in S : fewest = Cardinality(Above(greatest))
  BY <1>2
<1>4. ASSUME NEW i \in S PROVE i <= greatest
  <2>1. CASE i > greatest
    <3>1. Above(i) \in SUBSET Above(greatest) /\ i \in Above(greatest) /\ i \notin Above(i)
      <4>1. i \in Nat /\ ~(i > i)
        OBVIOUS
      <4>2. ASSUME NEW j \in S, j > i PROVE j > greatest
        <5>1. j \in Nat /\ greatest \in Nat
          OBVIOUS
        <5>2. QED
          BY <2>1, <4>1, <4>2, <5>1
      <4>3. QED
        BY <2>1, <4>1, <4>2
    <3>2. Cardinality(Above(i)) < Cardinality(Above(greatest))
      <4> HIDE DEF Above
      <4>1. Cardinality(Above(i)) # Cardinality(Above(greatest))
        BY <1>1, <3>1
      <4>2. QED
        BY <1>1, <3>1, <4>1
    <3>3. fewest <= Cardinality(Above(i))
      BY <1>2
    <3>4. Cardinality(Above(i)) \in Nat /\ Cardinality(Above(greatest)) \in Nat
      BY <1>1
    <3> HIDE DEF Above
    <3>5. QED
      BY <1>3, <3>2, <3>3, <3>4
  <2>2. QED
    BY <2>1
<1>5. QED
  BY <1>4 DEF Max

\* First takes an initial segment of a set.
LEMMA FirstIs ==
  ASSUME NEW S, S \subseteq Nat, IsFiniteSet(S), NEW n \in Nat
  PROVE  /\ First(n, S) \subseteq S /\ IsFiniteSet(First(n, S)) /\ Cardinality(First(n, S)) \in Nat
         /\ \A i \in First(n, S) : \A j \in S : j < i => j \in First(n, S)
<1>1. First(n, S) \in SUBSET S
  BY DEF First
<1>2. ASSUME NEW i \in First(n, S), NEW j \in S, j < i PROVE j \in First(n, S)
  <2> DEFINE Below(k) == {l \in S : l < k}
  <2>1. Below(j) \in SUBSET Below(i) /\ Below(i) \in SUBSET S
    <3>1. i \in Nat /\ j \in Nat /\ \A l \in S : l \in Nat
      BY <1>1
    <3>2. \A l \in S : l < j => l < i
      BY <1>2, <3>1
    <3>3. QED
      BY <3>2
  <2>2. IsFiniteSet(Below(i))
    BY <2>1, FS_Subset
  <2>3. Cardinality(Below(j)) <= Cardinality(Below(i)) /\ IsFiniteSet(Below(j))
    BY <2>1, <2>2, FS_Subset
  <2>4. Cardinality(Below(i)) < n
    BY DEF First
  <2>5. Cardinality(Below(j)) < n
    BY <2>2, <2>3, <2>4, FS_CardinalityType
  <2>6. QED
    BY <2>5 DEF First
<1>3. QED
  BY <1>1, <1>2, FS_Subset, FS_CardinalityType

\* It takes all of a set that has no more than it may take.
LEMMA FirstOfFew ==
  ASSUME NEW S, S \subseteq Nat, IsFiniteSet(S), NEW n \in Nat, Cardinality(S) <= n
  PROVE  First(n, S) = S
<1> SUFFICES ASSUME NEW i \in S PROVE Cardinality({j \in S : j < i}) < n
  BY DEF First
<1>1. {j \in S : j < i} \in SUBSET S /\ i \notin {j \in S : j < i}
  OBVIOUS
<1>2. /\ IsFiniteSet({j \in S : j < i}) /\ Cardinality({j \in S : j < i}) <= Cardinality(S)
      /\ Cardinality({j \in S : j < i}) # Cardinality(S)
  BY <1>1, FS_Subset
<1>3. QED
  BY <1>2, FS_CardinalityType

\* When it takes fewer than it may, it has taken all.
LEMMA FirstShort ==
  ASSUME NEW S, S \subseteq Nat, IsFiniteSet(S), NEW n \in Nat, Cardinality(First(n, S)) < n
  PROVE  First(n, S) = S
<1> SUFFICES ASSUME First(n, S) # S PROVE FALSE
  OBVIOUS
<1>1. /\ First(n, S) \subseteq S /\ IsFiniteSet(First(n, S)) /\ Cardinality(First(n, S)) \in Nat
  BY FirstIs
<1>2. PICK least \in S \ First(n, S) : \A i \in S \ First(n, S) : least <= i
  BY <1>1, LeastIs
<1>3. {j \in S : j < least} \in SUBSET First(n, S)
  <2>1. ASSUME NEW j \in S, j < least PROVE j \in First(n, S)
    <3>1. j \in Nat /\ least \in Nat
      OBVIOUS
    <3>2. QED
      BY <1>2, <2>1, <3>1
  <2>2. QED
    BY <2>1
<1>4. Cardinality({j \in S : j < least}) <= Cardinality(First(n, S)) /\ IsFiniteSet({j \in S : j < least})
  BY <1>1, <1>3, FS_Subset
<1>5. ~(Cardinality({j \in S : j < least}) < n)
  BY <1>2 DEF First
<1>6. QED
  BY <1>1, <1>4, <1>5, FS_CardinalityType

-----------------------------------------------------------------------------
(***************************************************************************)
(* The tools.                                                              *)
(***************************************************************************)
ReaderTypes ==
    [bound: {"settings", "clamped", "limit", "none"},
     source: {"whole", "top", "page", "pages", "one", "usage"},
     flag: {"full", "more", "none"},
     clients: {"request", "worker", "both", "credential", "missing", "unconfigured"},
     except: {"audited", "quiet", "open"}]

\* What all tools have in common: a reader of one item cuts nothing, and one whose
\* flag says that the reply is full reads what it cuts by.
LEMMA ReaderIs ==
  ASSUME NEW tool \in DOMAIN Readers
  PROVE  /\ Readers[tool] \in ReaderTypes
         /\ Readers[tool].source = "one" => Readers[tool].bound = "none"
         /\ Readers[tool].flag = "full" => Readers[tool].source \in {"whole", "top", "page"}
BY DEF Readers, ReaderTypes, Reader, ReadOne, Inventory,
       ListResourceGroups, ListAzureResources, ListAzureResourceProviders, ListVirtualMachines,
       ListNetworkResources, ListStorageAccounts, ListStorageContainers, ListKeyVaults,
       ListKeyVaultSecretMetadata, ListAdvisorRecommendations, QueryLogAnalytics,
       GetResourceMetrics, QueryAzureResourceGraph, ListAccessibleSubscriptions,
       GetVirtualMachineStatus, GetAzureResource, PreviewARMTemplateDeployment,
       GetARMDeploymentOperationStatus, GetStorageLifecyclePolicy, GetAIFoundryProjectConnection,
       GetAIFoundryAgent, GetCostSummary, ListAKSNodePools, ListAppServiceSlots,
       ListContainerApps, ListContainerAppEnvironments, ListContainerAppRevisions,
       QueryFunctionAppLogs, QueryCosmosItems, ListSQLDatabases, ListML, ListGovernance,
       ListPolicyComplianceStates, ListOpenAIDeployments, FoundryInventory,
       FoundryEvaluationInventory, ListAIFoundryThreadMessages, ListAIFoundryThreadRuns,
       ListAIFoundryAgentThreads, ListAIFoundryAgents

-----------------------------------------------------------------------------
(***************************************************************************)
(* The inductive invariant.                                                *)
(***************************************************************************)
Types ==
    /\ host \in Hosts /\ request \in Walks
    /\ items \subseteq Universe /\ gone \subseteq Universe \ items /\ stable \subseteq items
    /\ phase \in {"idle", "building", "entering", "reading", "read", "answered"}
    /\ cursor \in Universe \cup {0} /\ at \in Universe \cup {0}
    /\ got \subseteq Universe /\ seen \subseteq Universe /\ cut \in BOOLEAN
    /\ reply \in Replies \cup {NoReply} /\ audit \in {"none", "success", "error"}
    /\ phase = "answered" => reply \in Replies
    /\ phase \in {"entering", "reading", "read"} => Tool.clients \notin {"missing", "unconfigured"}

\* The client has what is owed to it up to an item, and nothing beyond it.
SeenUpTo(last) ==
    /\ request.from <= last
    /\ \A i \in seen : request.from < i /\ i <= last
    /\ Forthcoming /\ ~cut => \A i \in stable : request.from < i /\ i <= last => i \in seen

\* Between two answers the client has seen the walk up to the cursor.
Walked ==
    /\ Tool.source # "page" => cursor = request.from
    /\ phase # "answered" => SeenUpTo(cursor)

\* A read has what was there all the while between its cursor and where it is at.
HasRead ==
    phase \in {"reading", "read"} =>
        /\ Tool.source # "one" => cursor <= at /\ \A i \in got : cursor < i /\ i <= at
        /\ Tool.source \in {"whole", "page"} => \A i \in stable : cursor < i /\ i <= at => i \in got
        /\ phase = "reading" /\ Tool.source \in {"top", "one"} => at = cursor /\ got = {}

\* When it has ended, it has all there was of what it set out to read.
ReadAll ==
    phase = "read" =>
        /\ Tool.source = "whole" \/ (Tool.source = "page" /\ (host.pager = "list" \/ at = 0)) =>
               \A i \in stable : i <= at
        /\ Tool.source = "top" /\ Cardinality(got) < Bound => stable \subseteq got
        /\ Tool.source = "one" => got = {cursor}

\* The failures that leave no audit entry although Azure was asked: all of the thread and
\* message listings, and a ValueError of the SDK in the tools that take it for one of
\* their arguments.
Unaudited ==
    \/ Tool.except = "open"
    \/ Tool.except = "quiet" /\ reply.cause = "decode"

\* An answer gives the cursor of where its read ended, or it was the last one.
Answered ==
    phase = "answered" =>
        /\ reply.kind = "ok" =>
               /\ audit = "success"
               /\ reply.next # 0 => Tool.source = "page" /\ reply.next = at /\ SeenUpTo(at)
               /\ reply.next = 0 /\ ~cut /\ Forthcoming => Expected \subseteq seen
        /\ reply.kind # "ok" /\ reply.cause \in {"service", "timeout", "decode"} =>
               audit = "error" \/ Unaudited

IInv == Types /\ Walked /\ HasRead /\ ReadAll /\ Answered

-----------------------------------------------------------------------------
(***************************************************************************)
(* What the actions are built from.                                        *)
(***************************************************************************)
\* The items of a collection are finitely many numbers from 1.
LEMMA ItemsAre ==
  ASSUME NEW S \in SUBSET Universe
  PROVE  S \subseteq Nat \ {0} /\ S \subseteq Nat /\ IsFiniteSet(S) /\ Cardinality(S) \in Nat
BY SizesAssumption, FS_Subset, FS_CardinalityType

\* The tool of a walk and what its client asked of it.
LEMMA ToolIs ==
  ASSUME Types
  PROVE  /\ Tool \in ReaderTypes
         /\ Tool.source = "one" => Tool.bound = "none"
         /\ Tool.flag = "full" => Tool.source \in {"whole", "top", "page"}
         /\ Tool.source \notin {"page", "one"} => request.from = 0
         /\ request.from \in Universe \cup {0} /\ request.limit \in Nat
<1>1. /\ request.tool \in DOMAIN Readers /\ request.from \in Universe \cup {0} /\ request.limit \in Nat
      /\ Tool.source \notin {"page", "one"} => request.from = 0
  BY ToolsAssumption, SizesAssumption DEF Types, Walks, Tool
<1>2. QED
  BY <1>1, ReaderIs DEF Tool

\* Items and tokens are numbers.
LEMMA NumbersAre ==
  ASSUME Types
  PROVE  /\ request.from \in Nat /\ cursor \in Nat /\ at \in Nat
         /\ \A i \in items \cup got \cup seen : i \in Nat \ {0}
<1>1. request.from \in Universe \cup {0} /\ cursor \in Universe \cup {0} /\ at \in Universe \cup {0}
  BY ToolIs DEF Types
<1>2. items \cup got \cup seen \subseteq Universe
  BY DEF Types
<1>3. \A i \in Universe : i \in Nat /\ i # 0
  BY SizesAssumption
<1>4. \A i \in items \cup got \cup seen : i \in Universe
  BY <1>2
<1>5. QED
  BY <1>1, <1>3, <1>4

\* A reply is cut at a number; a reader of one item cuts nothing.
LEMMA BoundIs ==
  ASSUME Types
  PROVE  Bound \in Nat /\ (Tool.source = "one" => Bound = Cardinality(Universe))
BY ToolIs, ItemsAre, SizesAssumption DEF Bound, ReaderTypes

\* A reply that is not marked truncated has all that was read, if the tool is one
\* that says so.
LEMMA UncutIsAll ==
  ASSUME Types, Forthcoming, ~Truncated(First(Bound, got))
  PROVE  First(Bound, got) = got
<1>1. got \in SUBSET Universe /\ Bound \in Nat /\ Tool \in ReaderTypes
  BY BoundIs, ToolIs DEF Types
<1>2. got \subseteq Nat /\ IsFiniteSet(got) /\ Cardinality(got) \in Nat
  BY <1>1, ItemsAre
<1>3. Cardinality(First(Bound, got)) \in Nat
  BY <1>1, <1>2, FirstIs
<1>4. CASE Tool.flag = "full"
  <2>1. Cardinality(First(Bound, got)) < Bound
    BY <1>1, <1>3, <1>4 DEF Truncated
  <2>2. QED
    BY <1>1, <1>2, <2>1, FirstShort
<1>5. CASE Tool.flag = "more"
  <2>1. Cardinality(got) <= Bound
    BY <1>1, <1>2, <1>5 DEF Truncated
  <2>2. QED
    BY <1>1, <1>2, <2>1, FirstOfFew
<1>6. CASE Tool.source = "one"
  <2>1. Cardinality(got) <= Bound
    BY <1>1, <1>6, BoundIs, SizesAssumption, FS_Subset
  <2>2. QED
    BY <1>1, <1>2, <2>1, FirstOfFew
<1>7. QED
  BY <1>4, <1>5, <1>6 DEF Forthcoming

\* One answer of the service goes on where the last one ended, and leaves nothing out.
LEMMA PageIs ==
  ASSUME Types, Tool.source # "one",
         NEW last, last = IF Page = {} THEN at ELSE Max(Page)
  PROVE  /\ Page \subseteq items /\ last \in Universe \cup {0} /\ at <= last
         /\ \A i \in Page : at < i /\ i <= last
         /\ \A i \in After(at) : i <= last => i \in Page
         /\ Tool.source = "page" /\ last = 0 => After(at) = {}
         /\ Tool.source = "top" /\ got = {} /\ Cardinality(Page) < Bound => Page = After(at)
<1> DEFINE n == IF Tool.source \in {"top", "pages"} /\ got = {} THEN Bound ELSE PageSize
<1>1. Page = First(n, After(at)) /\ n \in Nat /\ (Tool.source = "page" => n >= 1)
  BY BoundIs, SizesAssumption DEF Page
<1>2. After(at) \in SUBSET Universe /\ After(at) \subseteq items
  BY DEF After, Types
<1>3. After(at) \subseteq Nat \ {0} /\ After(at) \subseteq Nat /\ IsFiniteSet(After(at)) /\ at \in Nat
  <2>1. at \in Nat
    BY SizesAssumption DEF Types
  <2>2. QED
    BY <1>2, <2>1, ItemsAre
<1> HIDE DEF n
<1>4. /\ Page \subseteq After(at) /\ IsFiniteSet(Page) /\ Cardinality(Page) \in Nat
      /\ \A i \in Page : \A j \in After(at) : j < i => j \in Page
  BY <1>1, <1>3, FirstIs
<1>5. Cardinality(Page) < n => Page = After(at)
  BY <1>1, <1>3, FirstShort
<1>6. \A i \in After(at) : at < i
  BY <1>3 DEF After
<1>7. CASE Page = {}
  <2>1. Tool.source = "page" => After(at) = {}
    BY <1>1, <1>5, <1>7, FS_EmptySet
  <2>2. \A i \in After(at) : ~(i <= at)
    BY <1>3, <1>6
  <2>3. QED
    BY <1>2, <1>3, <1>4, <1>5, <1>7, <2>1, <2>2 DEF Types, n
<1>8. CASE Page # {}
  <2>1. Page \subseteq Nat
    BY <1>3, <1>4
  <2>2. last \in Page /\ \A i \in Page : i <= last
    BY <1>4, <1>8, <2>1, MaxIs
  <2>3. last \in Nat \ {0} /\ last \in Universe /\ at < last
    BY <1>2, <1>3, <1>4, <1>6, <2>2
  <2>4. ASSUME NEW i \in After(at), i <= last PROVE i \in Page
    <3>1. i < last \/ i = last
      BY <1>3, <2>3, <2>4
    <3>2. QED
      BY <1>4, <2>2, <3>1
  <2>5. QED
    BY <1>2, <1>3, <1>4, <1>5, <1>6, <2>2, <2>3, <2>4 DEF n
<1>9. QED
  BY <1>7, <1>8

-----------------------------------------------------------------------------
(***************************************************************************)
(* The steps.                                                              *)
(***************************************************************************)
\* What the client has seen depends on the walk and on the items that stay.
LEMMA SameSeen ==
  ASSUME UNCHANGED walk, stable' \subseteq stable, NEW last, SeenUpTo(last)
  PROVE  SeenUpTo(last)'
BY DEF walk, SeenUpTo, Forthcoming, Tool

\* The invariant holds initially.
LEMMA InitIInv == Init => IInv
<1> SUFFICES ASSUME Init PROVE IInv
  OBVIOUS
<1>1. Types
  <2>1. request.from \in Universe \cup {0}
    BY DEF Init, Walks
  <2>2. QED
    BY <2>1 DEF Init, Types
<1>2. SeenUpTo(cursor)
  <2>1. cursor = request.from /\ seen = {}
    BY DEF Init
  <2>2. cursor \in Nat /\ \A i \in stable : i \in Nat
    BY <1>1, SizesAssumption DEF Types
  <2>3. QED
    BY <2>1, <2>2 DEF SeenUpTo
<1>3. QED
  BY <1>1, <1>2 DEF Init, IInv, Walked, HasRead, ReadAll, Answered

\* A failure is audited, unless it is one of those the tools do not audit.
LEMMA FailIInv ==
  ASSUME IInv, NEW cause \in Causes, Fail(cause)
  PROVE  IInv'
<1>1. /\ phase' = "answered" /\ UNCHANGED <<host, request, seen, cut, items, gone, stable, cursor, at, got>>
      /\ audit' = IF reply'.kind = "error" THEN "error" ELSE "none"
  BY DEF Fail, walk, collection
<1>2. PICK kind \in {"validation", "unconfigured", "error", "raised"} :
        /\ reply' = [kind |-> kind, cause |-> cause]
        /\ cause \in {"service", "timeout"} /\ Tool.except # "open" => kind = "error"
        /\ cause = "decode" /\ Tool.except \notin {"open", "quiet"} => kind = "error"
  BY DEF Fail, IsValueError
<1>3. reply' \in Replies /\ reply'.kind # "ok" /\ Tool' = Tool
  BY <1>1, <1>2 DEF Replies, Tool
<1>4. Types'
  BY <1>1, <1>3 DEF IInv, Types
<1>5. Answered'
  BY <1>1, <1>2, <1>3 DEF Answered, Unaudited
<1>6. QED
  BY <1>1, <1>3, <1>4, <1>5 DEF IInv, Walked, HasRead, ReadAll

\* On the way to the read nothing is read yet.
LEMMA GotoIInv ==
  ASSUME IInv, phase \in {"idle", "building"},
         NEW label \in {"building", "entering"}, Goto(label),
         label = "entering" => Tool.clients \notin {"missing", "unconfigured"}
  PROVE  IInv'
<1>1. /\ phase' = label /\ Tool' = Tool /\ UNCHANGED walk
      /\ UNCHANGED <<host, request, seen, cut, items, gone, stable, cursor, at, got, reply, audit>>
  BY DEF Goto, walk, collection, Tool
<1>2. Types'
  BY <1>1 DEF IInv, Types
<1>3. SeenUpTo(cursor)'
  BY <1>1, SameSeen DEF IInv, Walked
<1>4. QED
  BY <1>1, <1>2, <1>3 DEF IInv, Walked, HasRead, ReadAll, Answered

\* The callback begins to read at its cursor.
LEMMA EnterIInv ==
  ASSUME IInv, EnterCallback
  PROVE  IInv'
<1>1. CASE Fail("setup")
  BY <1>1, FailIInv DEF Causes
<1>2. CASE ~Fail("setup")
  <2>1. /\ phase = "entering" /\ phase' = "reading" /\ at' = cursor /\ got' = {} /\ Tool' = Tool
        /\ UNCHANGED <<host, request, seen, cut, items, gone, stable, cursor, reply, audit>>
    BY <1>2 DEF EnterCallback, walk, collection, Tool
  <2>2. Types'
    BY <2>1 DEF IInv, Types
  <2>3. SeenUpTo(cursor)'
    BY <2>1, SameSeen DEF IInv, Walked, walk
  <2>4. HasRead'
    <3>1. cursor \in Nat /\ \A i \in stable : i \in Nat /\ ~(cursor < i /\ i <= cursor)
      BY SizesAssumption DEF IInv, Types
    <3>2. QED
      BY <2>1, <3>1 DEF HasRead
  <2>5. QED
    BY <2>1, <2>2, <2>3, <2>4 DEF IInv, Walked, ReadAll, Answered
<1>3. QED
  BY <1>1, <1>2

\* An answer of the service, whatever else of it is to come.
LEMMA ReadIInv ==
  ASSUME IInv, ReadPage
  PROVE  IInv'
<1> DEFINE last == IF Page = {} THEN at ELSE Max(Page)
<1>1. /\ phase = "reading" /\ at' = last /\ phase' \in {"reading", "read"} /\ Tool' = Tool /\ Bound' = Bound
      /\ UNCHANGED <<host, request, seen, cut, items, gone, stable, cursor, reply, audit>>
      /\ phase' = "reading" => ~OneAnswer
      /\ phase' = "read" => OneAnswer \/ After(last) = {} \/ Tool.source = "pages"
      /\ got' = got \cup Page \/ (Tool.source = "usage" /\ got' = {})
      /\ Tool.source = "one" => Page # {}
  BY DEF ReadPage, walk, collection, Tool, Bound
<1>2. Types /\ Tool \in ReaderTypes /\ cursor \in Nat /\ at \in Nat
  BY ToolIs, SizesAssumption DEF IInv, Types
<1>3. SeenUpTo(cursor)' /\ (Tool.source # "page" => cursor' = request'.from)
  BY <1>1, SameSeen DEF IInv, Walked, walk
<1> HIDE DEF last
<1>4. CASE Tool.source = "one"
  <2>1. Page = {cursor} /\ at = cursor /\ got = {} /\ cursor \in Universe
    BY <1>1, <1>2, <1>4 DEF Page, IInv, HasRead, Types
  <2>2. last = cursor
    <3>1. Max({cursor}) \in {cursor}
      BY <1>2, MaxIs, FS_Singleton
    <3>2. QED
      BY <2>1, <3>1 DEF last
  <2>3. got' = {cursor} /\ phase' = "read" /\ cursor' = cursor
    BY <1>1, <1>4, <2>1 DEF OneAnswer
  <2>4. Types'
    BY <1>1, <1>2, <2>1, <2>2, <2>3 DEF Types
  <2>5. QED
    BY <1>1, <1>3, <1>4, <2>3, <2>4 DEF IInv, Walked, HasRead, ReadAll, Answered
<1>5. CASE Tool.source # "one"
  <2>1. /\ Page \subseteq items /\ last \in Universe \cup {0} /\ at <= last
        /\ \A i \in Page : at < i /\ i <= last
        /\ \A i \in After(at) : i <= last => i \in Page
        /\ Tool.source = "page" /\ last = 0 => After(at) = {}
        /\ Tool.source = "top" /\ got = {} /\ Cardinality(Page) < Bound => Page = After(at)
    BY <1>2, <1>5, PageIs DEF last
  <2>2. /\ cursor <= at /\ \A i \in got : cursor < i /\ i <= at
        /\ Tool.source \in {"whole", "page"} => \A i \in stable : cursor < i /\ i <= at => i \in got
        /\ Tool.source = "top" => at = cursor /\ got = {}
    BY <1>1, <1>5 DEF IInv, HasRead
  <2>3. /\ \A i \in stable \cup got \cup items : i \in Nat \ {0}
        /\ stable \subseteq items /\ last \in Nat
    BY <1>2, <2>1, SizesAssumption DEF Types
  <2>4. Types'
    BY <1>1, <1>2, <2>1 DEF Types, Tool
  <2>5. \A i \in stable : i \in After(at) \/ i <= at
    BY <1>2, <2>3 DEF After
  <2>6. cursor <= last /\ \A i \in got' : cursor < i /\ i <= last
    <3>1. ASSUME NEW i \in got' PROVE cursor < i /\ i <= last
      <4>1. CASE i \in got
        BY <1>2, <2>1, <2>2, <2>3, <4>1
      <4>2. CASE i \in Page
        BY <1>2, <2>1, <2>2, <2>3, <4>2
      <4>3. QED
        BY <1>1, <3>1, <4>1, <4>2
    <3>2. QED
      BY <1>2, <2>1, <2>2, <2>3, <3>1
  <2>7. ASSUME Tool.source \in {"whole", "page"}, NEW i \in stable, cursor < i, i <= last
        PROVE  i \in got'
    <3>1. got' = got \cup Page
      BY <1>1, <2>7
    <3>2. QED
      BY <2>1, <2>2, <2>5, <2>7, <3>1
  <2>8. HasRead'
    BY <1>1, <1>5, <2>6, <2>7 DEF HasRead, OneAnswer
  <2>9. ASSUME phase' = "read",
               Tool.source = "whole" \/ (Tool.source = "page" /\ (host.pager = "list" \/ last = 0)),
               NEW i \in stable
        PROVE  i <= last
    <3>1. CASE After(last) = {}
      BY <2>3, <3>1 DEF After
    <3>2. CASE Tool.source = "page" /\ last = 0
      BY <1>2, <2>1, <2>3, <2>5, <3>2
    <3>3. QED
      BY <1>1, <2>9, <3>1, <3>2 DEF OneAnswer
  <2>10. ASSUME phase' = "read", Tool.source = "top", Cardinality(got') < Bound
         PROVE  stable \subseteq got'
    <3>1. got = {} /\ got' = Page /\ at = cursor /\ cursor = 0
      BY <1>1, <1>2, <2>2, <2>10, ToolIs DEF IInv, Walked
    <3>2. Page = After(at)
      BY <2>1, <2>10, <3>1
    <3>3. \A i \in stable : i \in After(at)
      BY <2>3, <3>1 DEF After
    <3>4. QED
      BY <3>1, <3>2, <3>3
  <2>11. ReadAll'
    BY <1>1, <1>5, <2>9, <2>10 DEF ReadAll
  <2>12. QED
    BY <1>1, <1>3, <2>4, <2>8, <2>11 DEF IInv, Walked, Answered
<1>6. QED
  BY <1>4, <1>5

\* The answer: what it leaves out it says, and its cursor is where the read ended.
LEMMA AnswerIInv ==
  ASSUME IInv, Answer
  PROVE  IInv'
<1> DEFINE returned == First(Bound, got)
<1>1. /\ phase = "read" /\ phase' = "answered" /\ audit' = "success" /\ Tool' = Tool
      /\ UNCHANGED <<host, request, items, gone, stable, cursor, at, got>>
      /\ reply' = [kind |-> "ok", items |-> returned, truncated |-> Truncated(returned), next |-> NextCursor]
      /\ seen' = seen \cup returned /\ cut' = (cut \/ Truncated(returned))
  BY DEF Answer, collection, Tool
<1>2. Types /\ Tool \in ReaderTypes /\ cursor \in Nat /\ at \in Nat /\ Bound \in Nat /\ request.from \in Nat
  BY ToolIs, NumbersAre, BoundIs DEF IInv
<1>3. returned \subseteq got /\ (Forthcoming /\ ~Truncated(returned) => returned = got)
  <2>1. got \in SUBSET Universe
    BY <1>2 DEF Types
  <2>2. got \subseteq Nat /\ IsFiniteSet(got)
    BY <2>1, ItemsAre
  <2>3. QED
    BY <1>2, <2>2, FirstIs, UncutIsAll
<1> HIDE DEF returned
<1>4. NextCursor \in {0, at} /\ (NextCursor # 0 => Tool.source = "page")
  BY DEF NextCursor
<1>5. Types'
  <2>1. reply' \in Replies
    <3>1. NextCursor \in Universe \cup {0} /\ returned \in SUBSET Universe /\ Truncated(returned) \in BOOLEAN
      BY <1>2, <1>3, <1>4 DEF Types, Truncated
    <3>2. QED
      BY <1>1, <3>1 DEF Replies
  <2>2. cut' \in BOOLEAN /\ seen' \subseteq Universe
    BY <1>1, <1>2, <1>3 DEF Types, Truncated
  <2>3. QED
    BY <1>1, <1>2, <2>1, <2>2 DEF Types
<1>6. stable \subseteq items /\ \A i \in items \cup got : i \in Nat \ {0}
  BY <1>2, NumbersAre DEF Types
<1>7. /\ request.from <= cursor /\ \A i \in seen : request.from < i /\ i <= cursor
      /\ Forthcoming /\ ~cut => \A i \in stable : request.from < i /\ i <= cursor => i \in seen
      /\ Tool.source # "page" => cursor = request.from
  BY <1>1 DEF IInv, Walked, SeenUpTo
<1>8. /\ Tool.source # "one" => cursor <= at /\ \A i \in got : cursor < i /\ i <= at
      /\ Tool.source \in {"whole", "page"} => \A i \in stable : cursor < i /\ i <= at => i \in got
  BY <1>1 DEF IInv, HasRead
<1>9. ASSUME ~cut', Forthcoming PROVE ~cut /\ ~Truncated(returned) /\ seen' = seen \cup got
  BY <1>1, <1>3, <1>9
<1>10. ASSUME Tool.source \in {"whole", "page"}, ~cut', Forthcoming, NEW i \in stable, request.from < i, i <= at
       PROVE  i \in seen'
  <2>1. i \in Nat
    BY <1>6
  <2>2. CASE i <= cursor
    BY <1>7, <1>9, <1>10, <2>2
  <2>3. CASE cursor < i
    BY <1>8, <1>9, <1>10, <2>3
  <2>4. QED
    BY <1>2, <2>1, <2>2, <2>3
<1>11. ASSUME Tool.source = "page" PROVE SeenUpTo(at)'
  <2>1. request.from <= at
    BY <1>2, <1>7, <1>8, <1>11
  <2>2. ASSUME NEW i \in seen' PROVE request.from < i /\ i <= at
    <3>1. CASE i \in seen
      <4>1. i \in Nat
        BY <1>2, <3>1, NumbersAre
      <4>2. QED
        BY <1>2, <1>7, <1>8, <1>11, <3>1, <4>1
    <3>2. CASE i \in got
      BY <1>2, <1>6, <1>7, <1>8, <1>11, <3>2
    <3>3. QED
      BY <1>1, <1>3, <2>2, <3>1, <3>2
  <2>3. Forthcoming' <=> Forthcoming
    BY <1>1 DEF Forthcoming
  <2>4. QED
    BY <1>1, <1>10, <1>11, <2>1, <2>2, <2>3 DEF SeenUpTo
<1>15. ASSUME NextCursor = 0, Tool.source = "page", host.pager = "token" PROVE \A i \in stable : i <= at
  <2>1. CASE After(at) = {}
    BY <1>2, <1>6, <2>1 DEF After
  <2>2. CASE at = 0
    BY <1>1, <1>15, <2>2 DEF IInv, ReadAll
  <2>3. QED
    BY <1>15, <2>1, <2>2 DEF NextCursor
<1>12. ASSUME NextCursor = 0, ~cut', Forthcoming PROVE Expected \subseteq seen'
  <2>1. ~cut /\ ~Truncated(returned) /\ seen' = seen \cup got /\ returned = got
    BY <1>3, <1>9, <1>12
  <2>2. CASE Tool.source = "one"
    BY <1>1, <1>7, <2>1, <2>2 DEF Expected, IInv, ReadAll
  <2>3. CASE Tool.source = "top"
    <3>1. Tool.flag = "full"
      BY <1>12, <2>3 DEF Forthcoming
    <3>2. Cardinality(got) < Bound
      <4>1. Cardinality(got) \in Nat
        BY <1>2, ItemsAre DEF Types
      <4>2. QED
        BY <1>2, <2>1, <3>1, <4>1 DEF Truncated
    <3>3. QED
      BY <1>1, <2>1, <2>3, <3>2 DEF Expected, IInv, ReadAll
  <2>4. CASE Tool.source \in {"whole", "page"}
    <3>1. \A i \in stable : i <= at
      <4>1. CASE Tool.source = "whole" \/ (Tool.source = "page" /\ host.pager = "list")
        BY <1>1, <4>1 DEF IInv, ReadAll
      <4>2. CASE Tool.source = "page" /\ host.pager = "token"
        BY <1>12, <1>15, <4>2
      <4>3. host.pager \in {"list", "token", "bare"} /\ (Tool.source = "page" => host.pager # "bare")
        BY <1>2, <1>12 DEF Types, Hosts, Forthcoming
      <4>4. QED
        BY <2>4, <4>1, <4>2, <4>3
    <3>2. QED
      BY <1>10, <1>12, <2>4, <3>1 DEF Expected
  <2>5. QED
    BY <1>2, <1>12, <2>2, <2>3, <2>4, ToolIs DEF Forthcoming
<1>13. Answered'
  <2>1. reply'.kind = "ok" /\ reply'.next = NextCursor
    BY <1>1
  <2>2. (Forthcoming' <=> Forthcoming) /\ Expected' = Expected
    BY <1>1 DEF Forthcoming, Expected
  <2>3. QED
    BY <1>1, <1>4, <1>11, <1>12, <2>1, <2>2 DEF Answered
<1>14. QED
  BY <1>1, <1>5, <1>7, <1>13 DEF IInv, Walked, HasRead, ReadAll

\* The next call of the walk begins where the last read ended.
LEMMA FollowIInv ==
  ASSUME IInv, Follow
  PROVE  IInv'
<1>1. /\ phase = "answered" /\ reply.kind = "ok" /\ reply.next # 0 /\ reply \in Replies
      /\ phase' = "building" /\ cursor' = reply.next /\ reply' = NoReply /\ audit' = "none" /\ Tool' = Tool
      /\ UNCHANGED walk /\ UNCHANGED <<host, request, seen, cut, items, gone, stable, at, got>>
  BY DEF Follow, walk, collection, Tool, IInv, Types
<1>2. Tool.source = "page" /\ reply.next = at /\ SeenUpTo(at)
  BY <1>1 DEF IInv, Answered
<1>3. SeenUpTo(cursor)'
  <2>1. SeenUpTo(at)'
    BY <1>1, <1>2, SameSeen
  <2>2. QED
    BY <1>1, <1>2, <2>1
<1>4. Types'
  BY <1>1, <1>2 DEF IInv, Types
<1>5. QED
  BY <1>1, <1>2, <1>3, <1>4 DEF IInv, Walked, HasRead, ReadAll, Answered

\* What comes was not there all the while, and of what goes nothing is owed.
LEMMA CollectionIInv ==
  ASSUME IInv, NEW i \in Universe, Appear(i) \/ Disappear(i)
  PROVE  IInv'
<1>1. /\ UNCHANGED walk /\ UNCHANGED <<host, request, seen, cut, phase, cursor, at, got, reply, audit>>
      /\ stable' \subseteq stable /\ Tool' = Tool /\ Bound' = Bound /\ Expected' \subseteq Expected
      /\ (Forthcoming' <=> Forthcoming)
  BY DEF Appear, Disappear, walk, Tool, Bound, Expected, Forthcoming
<1>2. Types'
  <2>1. items' \subseteq Universe /\ gone' \subseteq Universe \ items' /\ stable' \subseteq items'
    BY DEF Appear, Disappear, IInv, Types
  <2>2. QED
    BY <1>1, <2>1 DEF IInv, Types
<1>3. Walked'
  BY <1>1, SameSeen DEF IInv, Walked
<1>4. HasRead'
  BY <1>1 DEF IInv, HasRead
<1>5. ReadAll'
  BY <1>1 DEF IInv, ReadAll
<1>6. Answered'
  <2>1. SeenUpTo(at) => SeenUpTo(at)'
    BY <1>1, SameSeen
  <2>2. QED
    BY <1>1, <2>1 DEF IInv, Answered, Unaudited
<1>7. QED
  BY <1>2, <1>3, <1>4, <1>5, <1>6 DEF IInv

\* Every step keeps the invariant.
LEMMA NextIInv == IInv /\ [Next]_vars => IInv'
<1> SUFFICES ASSUME IInv, [Next]_vars PROVE IInv'
  OBVIOUS
<1>1. CASE Call
  BY <1>1, GotoIInv, FailIInv DEF Call, Causes
<1>2. CASE BuildClients
  <2>1. CASE \E cause \in Causes : Fail(cause)
    BY <2>1, FailIInv
  <2>2. CASE Goto("entering") /\ phase = "building" /\ Tool.clients \notin {"missing", "unconfigured"}
    BY <2>2, GotoIInv
  <2>3. QED
    BY <1>2, <2>1, <2>2 DEF BuildClients, Causes
<1>3. CASE EnterCallback
  BY <1>3, EnterIInv
<1>4. CASE ReadPage
  BY <1>4, ReadIInv
<1>5. CASE RefuseCursor \/ ReadFails
  BY <1>5, FailIInv DEF RefuseCursor, ReadFails, Causes
<1>6. CASE Answer
  BY <1>6, AnswerIInv
<1>7. CASE Follow
  BY <1>7, FollowIInv
<1>8. CASE \E i \in Universe : Appear(i) \/ Disappear(i)
  BY <1>8, CollectionIInv
<1>9. CASE UNCHANGED vars
  BY <1>9 DEF vars, IInv, Types, Walked, HasRead, ReadAll, Answered, Unaudited, SeenUpTo, Forthcoming, Expected,
              Tool, Bound
<1>10. QED
  BY <1>1, <1>2, <1>3, <1>4, <1>5, <1>6, <1>7, <1>8, <1>9 DEF Next, Serving

-----------------------------------------------------------------------------
(***************************************************************************)
(* The theorems.                                                           *)
(***************************************************************************)

\* The invariant holds in every reachable state.
THEOREM Inductive == Spec => []IInv
BY InitIInv, NextIInv, PTL DEF Spec

\* Every variable keeps its type, and no tool reads with a client it does not have.
THEOREM TypeCorrect == Spec => []TypeOK
<1>1. IInv => TypeOK
  BY DEF IInv, Types, TypeOK
<1>2. QED
  BY <1>1, Inductive, PTL

\* A client that followed the cursors to the end and met no truncated reply has every
\* item that was there all the while.
THEOREM NothingIsMissing == Spec => []NothingSilentlyMissing
<1>1. IInv => NothingSilentlyMissing
  BY DEF IInv, Answered, NothingSilentlyMissing, Complete
<1>2. QED
  BY <1>1, Inductive, PTL

\* What Azure was asked for is audited, success and failure, unless the tool lets every
\* exception but a ValueError pass, or takes a ValueError of the SDK for one of its
\* arguments.
THEOREM ReadsAreAudited == Spec => []AzureReadsAudited
<1>1. IInv => AzureReadsAudited
  BY DEF IInv, Types, Answered, Unaudited, AzureReadsAudited
<1>2. QED
  BY <1>1, Inductive, PTL

\* No reply of a walk returns an item that an earlier one has returned.
THEOREM NothingIsRepeated == Spec => NoRepeats
<1>1. IInv /\ [Next]_vars =>
        [(reply = NoReply /\ reply' # NoReply /\ reply'.kind = "ok") => reply'.items \cap seen = {}]_vars
  <2> SUFFICES ASSUME IInv, [Next]_vars, reply = NoReply, reply' # NoReply, reply'.kind = "ok"
               PROVE  reply'.items \cap seen = {}
    OBVIOUS
  <2>1. reply' # reply
    OBVIOUS
  <2>2. \A cause : ~Fail(cause)
    BY DEF Fail
  <2>3. Answer
    BY <2>1, <2>2 DEF Next, Serving, Call, BuildClients, EnterCallback, ReadPage, RefuseCursor, ReadFails,
                      Follow, Appear, Disappear, Goto, vars
  <2>4. reply'.items = First(Bound, got) /\ phase = "read"
    BY <2>3 DEF Answer
  <2>5. First(Bound, got) \subseteq got
    BY DEF First
  <2>6. request.from \in Nat /\ cursor \in Nat /\ \A i \in got : i \in Nat
    BY NumbersAre DEF IInv
  <2>7. ASSUME NEW i \in got PROVE i \notin seen
    <3>1. i \in seen => request.from < i /\ i <= cursor
      BY <2>4 DEF IInv, Walked, SeenUpTo
    <3>2. CASE Tool.source # "one"
      BY <2>4, <2>6, <3>1, <3>2 DEF IInv, HasRead
    <3>3. CASE Tool.source = "one"
      BY <2>6, <3>1, <3>3 DEF IInv, Walked
    <3>4. QED
      BY <3>2, <3>3
  <2>8. QED
    BY <2>4, <2>5, <2>7
<1>2. QED
  BY <1>1, Inductive, PTL DEF Spec, NoRepeats

\* How far HostedReadsServed fails: a tool builds a credential in the pool thread, or
\* in hosted mode it never fails for want of a token.  One that does is never served.
BuildsInWorker == Tool.clients \in {"worker", "both", "credential"}

Served ==
    /\ phase \in {"reading", "read"} => ~(host.mode = "hosted" /\ BuildsInWorker)
    /\ phase = "answered" =>
           /\ reply.kind = "ok" => ~(host.mode = "hosted" /\ BuildsInWorker)
           /\ reply.kind # "ok" /\ reply.cause = "setup" => host.setup # "ready" \/ BuildsInWorker

\* In hosted mode the reads whose credential is built in the pool thread are never
\* served, and no other fails for want of a token where a subscription is selected.
THEOREM HostedReads ==
  Spec => [](phase = "answered" /\ host.mode = "hosted" =>
                /\ BuildsInWorker => reply.kind # "ok"
                /\ ~BuildsInWorker => HostedReadsServed)
<1> DEFINE Goal == phase = "answered" /\ host.mode = "hosted" =>
                       /\ BuildsInWorker => reply.kind # "ok"
                       /\ ~BuildsInWorker => HostedReadsServed
<1>1. Init => Served
  BY DEF Init, Served
<1>2. ASSUME Served, [Next]_vars PROVE Served'
  <2>1. CASE phase' = phase /\ reply' = reply /\ UNCHANGED <<host, request>>
    BY <1>2, <2>1 DEF Served, BuildsInWorker, Tool
  <2>2. ASSUME NEW cause, Fail(cause), cause = "setup" => host.setup # "ready" \/ BuildsInWorker
        PROVE  Served'
    BY <2>2 DEF Fail, walk, Served, BuildsInWorker, Tool
  <2>3. CASE Call \/ BuildClients
    <3>1. CASE \E label \in {"building", "entering"} : Goto(label)
      BY <3>1 DEF Goto, Served
    <3>2. CASE Fail("arguments") \/ Fail("attribute") \/ Fail("unconfigured")
      BY <2>2, <3>2
    <3>3. CASE host.setup # "ready" /\ Fail("setup")
      BY <2>2, <3>3
    <3>4. QED
      BY <2>3, <3>1, <3>2, <3>3 DEF Call, BuildClients
  <2>4. CASE EnterCallback
    <3>1. CASE BuildsInWorker /\ Fail("setup")
      BY <2>2, <3>1
    <3>2. CASE ~(BuildsInWorker /\ host.mode = "hosted") /\ phase' = "reading" /\ UNCHANGED walk
      BY <3>2 DEF walk, Served, BuildsInWorker, Tool
    <3>3. QED
      BY <2>4, <3>1, <3>2 DEF EnterCallback, BuildsInWorker
  <2>5. CASE ReadPage
    BY <1>2, <2>5 DEF ReadPage, walk, Served, BuildsInWorker, Tool
  <2>6. CASE RefuseCursor \/ ReadFails
    BY <2>2, <2>6 DEF RefuseCursor, ReadFails
  <2>7. CASE Answer
    BY <1>2, <2>7 DEF Answer, Served, BuildsInWorker, Tool
  <2>8. CASE Follow
    BY <2>8 DEF Follow, Served
  <2>9. CASE \E i \in Universe : Appear(i) \/ Disappear(i)
    BY <2>1, <2>9 DEF Appear, Disappear, walk
  <2>10. QED
    BY <1>2, <2>1, <2>3, <2>4, <2>5, <2>6, <2>7, <2>8, <2>9 DEF Next, Serving, vars
<1>3. Served => Goal
  BY DEF Served, HostedReadsServed
<1>4. QED
  BY <1>1, <1>2, <1>3, PTL DEF Spec
=============================================================================
