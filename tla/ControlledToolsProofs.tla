------------------------ MODULE ControlledToolsProofs ------------------------
(***************************************************************************)
(* Proofs about ControlledTools, for any number of calls, receipts and     *)
(* replicas and every choice of tools.                                     *)
(***************************************************************************)
EXTENDS ControlledTools, TLAPS

-----------------------------------------------------------------------------
(***************************************************************************)
(* What the handlers have in common, read off their steps.                 *)
(***************************************************************************)

\* The orders of steps that handlers have.
Shapes ==
    {<<"consume", "clients", "submit">>,
     <<"consume", "clients", "resolve", "begin", "submit">>,
     <<"consume", "clients", "begin", "submit">>,
     <<"consume", "submit">>,
     <<"clients", "consume", "submit">>}

\* The first k - 1 of these steps spend the receipt.
SpentBefore(steps, k) == \E i \in 1..(k - 1) : steps[i] = "consume"

\* Every handler has one of those orders.
LEMMA HandlerShape == ASSUME NEW tool \in DOMAIN Handlers PROVE Handlers[tool].steps \in Shapes
<1>1. tool \in {"start_virtual_machine", "stop_virtual_machine", "create_storage_account",
                "upload_blob_content", "download_blob_content", "create_public_ip_address",
                "deploy_openai_model", "create_azure_resource", "update_azure_resource",
                "delete_azure_resource", "create_ai_foundry_evaluation",
                "delete_ai_foundry_project_connection", "upsert_ai_foundry_project_connection",
                "create_ai_foundry_agent", "delete_ai_foundry_agent", "update_ai_foundry_agent"}
  BY DEF Handlers
<1>2. CASE tool \in {"start_virtual_machine", "stop_virtual_machine", "create_storage_account",
                     "upload_blob_content", "download_blob_content", "create_public_ip_address",
                     "deploy_openai_model", "create_ai_foundry_evaluation"}
  BY <1>2 DEF Handlers, Shapes, StartVirtualMachine, StopVirtualMachine, CreateStorageAccount,
              UploadBlobContent, DownloadBlobContent, CreatePublicIpAddress,
              DeployOpenAIModel, CreateAIFoundryEvaluation
<1>3. CASE tool \in {"create_azure_resource", "update_azure_resource", "delete_azure_resource"}
  BY <1>3 DEF Handlers, Shapes, MutateAzureResource
<1>4. CASE tool \in {"delete_ai_foundry_project_connection", "upsert_ai_foundry_project_connection"}
  BY <1>4 DEF Handlers, Shapes, DeleteAIFoundryProjectConnection, UpsertAIFoundryProjectConnection
<1>5. CASE tool \in {"create_ai_foundry_agent", "delete_ai_foundry_agent", "update_ai_foundry_agent"}
  BY <1>5 DEF Handlers, Shapes, CreateAIFoundryAgent, DeleteAIFoundryAgent, UpdateAIFoundryAgent
<1>6. QED
  BY <1>1, <1>2, <1>3, <1>4, <1>5

\* Only the evaluation answers every ValueError with a validation error.
LEMMA QuietHandler ==
  ASSUME NEW tool \in DOMAIN Handlers, Handlers[tool].quiet PROVE tool = "create_ai_foundry_evaluation"
<1>1. tool \in {"start_virtual_machine", "stop_virtual_machine", "create_storage_account",
                "upload_blob_content", "download_blob_content", "create_public_ip_address",
                "deploy_openai_model", "create_azure_resource", "update_azure_resource",
                "delete_azure_resource", "create_ai_foundry_evaluation",
                "delete_ai_foundry_project_connection", "upsert_ai_foundry_project_connection",
                "create_ai_foundry_agent", "delete_ai_foundry_agent", "update_ai_foundry_agent"}
  BY DEF Handlers
<1>2. ASSUME tool # "create_ai_foundry_evaluation" PROVE ~Handlers[tool].quiet
  <2>1. CASE tool \in {"start_virtual_machine", "stop_virtual_machine", "create_storage_account",
                       "upload_blob_content", "download_blob_content", "create_public_ip_address",
                       "deploy_openai_model"}
    BY <2>1 DEF Handlers, StartVirtualMachine, StopVirtualMachine, CreateStorageAccount,
                UploadBlobContent, DownloadBlobContent, CreatePublicIpAddress, DeployOpenAIModel
  <2>2. CASE tool \in {"create_azure_resource", "update_azure_resource", "delete_azure_resource"}
    BY <2>2 DEF Handlers, MutateAzureResource
  <2>3. CASE tool \in {"delete_ai_foundry_project_connection", "upsert_ai_foundry_project_connection"}
    BY <2>3 DEF Handlers, DeleteAIFoundryProjectConnection, UpsertAIFoundryProjectConnection
  <2>4. CASE tool \in {"create_ai_foundry_agent", "delete_ai_foundry_agent", "update_ai_foundry_agent"}
    BY <2>4 DEF Handlers, CreateAIFoundryAgent, DeleteAIFoundryAgent, UpdateAIFoundryAgent
  <2>5. QED
    BY <1>1, <1>2, <2>1, <2>2, <2>3, <2>4
<1>3. QED
  BY <1>2

\* Whatever the order: the receipt is spent exactly once, and before any step that
\* can touch Azure; the submission is the last step and follows the one that begins.
LEMMA ShapeOrder ==
  ASSUME NEW steps \in Shapes, NEW k \in DOMAIN steps
  PROVE  /\ k \in Nat /\ k >= 1
         /\ steps[k] = "consume" => ~SpentBefore(steps, k)
         /\ SpentBefore(steps, k + 1) <=> SpentBefore(steps, k) \/ steps[k] = "consume"
         /\ steps[k] \in {"resolve", "begin", "submit"} => SpentBefore(steps, k)
         /\ steps[k] # "submit" => k + 1 \in DOMAIN steps
         /\ steps[k] = "begin" => steps[k + 1] = "submit"
<1>1. CASE steps = <<"consume", "clients", "submit">>
  BY <1>1 DEF SpentBefore
<1>2. CASE steps = <<"consume", "clients", "resolve", "begin", "submit">>
  BY <1>2 DEF SpentBefore
<1>3. CASE steps = <<"consume", "clients", "begin", "submit">>
  BY <1>3 DEF SpentBefore
<1>4. CASE steps = <<"consume", "submit">>
  BY <1>4 DEF SpentBefore
<1>5. CASE steps = <<"clients", "consume", "submit">>
  BY <1>5 DEF SpentBefore
<1>6. QED
  BY <1>1, <1>2, <1>3, <1>4, <1>5 DEF Shapes

\* A handler has a first step, and nothing is spent before it.
LEMMA ShapeStart ==
  ASSUME NEW steps \in Shapes PROVE 1 \in DOMAIN steps /\ ~SpentBefore(steps, 1) /\ ~SpentBefore(steps, 0)
BY DEF Shapes, SpentBefore

\* What a request names is a tool with a handler and one of the scopes.
LEMMA RequestIs ==
  ASSUME NEW request \in Requests
  PROVE  /\ request.tool \in Tools /\ request.tool \in DOMAIN Handlers
         /\ request.scope \in Scopes /\ EffectScope(request) \in Scopes
<1>1. PICK plan \in PlanTools : request \in [tool: plan.tools \cap Tools, scope: plan.scopes, body: Bodies]
  BY DEF Requests
<1>2. plan.scopes \subseteq Scopes
  BY DEF PlanTools, Scopes, PlanVirtualMachinePowerAction, PlanStorageMutation,
         PlanPublicIpCreation, PlanOpenAIDeployment, PlanAzureResourceMutation,
         PlanAIFoundryEvaluationCreation, PlanAIFoundryConnectionDeletion,
         PlanAIFoundryConnectionUpsert, PlanAIFoundryAgentMutation
<1>3. request.tool \in Tools /\ request.scope \in Scopes
  BY <1>1, <1>2
<1>4. QED
  BY <1>3, ToolsAssumption DEF EffectScope, Scopes

-----------------------------------------------------------------------------
(***************************************************************************)
(* The inductive invariant.                                                *)
(***************************************************************************)

\* Where a call is, its callback and its reply go together.
Progress(c) ==
    /\ phase[c] = "idle" => step[c] = 0
    /\ phase[c] # "idle" => arg[c] \in Arguments
    /\ phase[c] \in {"idle", "running"} => worker[c] = "none"
    /\ phase[c] \in {"waiting", "overdue"} => worker[c] # "none" /\ Handler(c).steps[step[c]] = "submit"
    /\ phase[c] \in {"answered", "lost"} => worker[c] # "running"
    /\ reply[c] # "none" => phase[c] = "answered"

\* When a call can have touched Azure, and in which scope.
Touches(c) ==
    /\ effect[c] # Nothing =>
           /\ HasSpent(c)
           /\ effect[c] = EffectScope(arg[c].request)
           /\ phase[c] = "running" => Handler(c).steps[step[c]] = "submit"
    /\ worker[c] = "done" => effect[c] # Nothing

\* The receipt a call has spent was issued for its request.
Paid(c) ==
    HasSpent(c) =>
        /\ arg[c].id \in Ids
        /\ bound[arg[c].id] = arg[c].request
        /\ status[arg[c].id] \in {"spent", "void"}

\* What a reply says of the effect and of the receipt.
Truthful(c) ==
    /\ reply[c] = "ok" => effect[c] # Nothing
    /\ reply[c] = "refused" \/ (reply[c] = "validation" /\ ~Handler(c).quiet) => ~HasSpent(c)

\* An answered call that has spent a receipt is audited, or its handler was quiet about
\* a ValueError.
Audited(c) ==
    phase[c] = "answered" /\ HasSpent(c) =>
        audit[c] # "none" \/ (Handler(c).quiet /\ reply[c] = "validation")

\* No receipt is spent by two calls.
SpentOnce ==
    \A c, d \in Calls : HasSpent(c) /\ HasSpent(d) /\ arg[c].id = arg[d].id => c = d

\* A receipt that was issued is in the store of one of the processes.
AtHome == \A id \in Ids : status[id] = "live" => home[id] \in Replicas

\* A call has spent this receipt, at the replica that issued it.
SpentBy(c, id) ==
    /\ phase[c] # "idle" /\ HasSpent(c)
    /\ arg[c].id = id /\ arg[c].replica = home[id]

\* No receipt is spent without a call that spent it.
SpentHasCaller == \A id \in Ids : status[id] = "spent" => \E c \in Calls : SpentBy(c, id)

IInv ==
    /\ TypeOK
    /\ step \in [Calls -> Nat]
    /\ SpentOnce /\ SpentHasCaller /\ AtHome
    /\ \A c \in Calls : Progress(c) /\ Touches(c) /\ Paid(c) /\ Truthful(c) /\ Audited(c)

\* The arguments of a call and its handler are what their types say.
LEMMA ArgumentsAre ==
  ASSUME NEW c \in Calls, arg[c] \in Arguments
  PROVE  /\ arg[c] # Nothing
         /\ arg[c].replica \in Replicas /\ arg[c].id \in Ids \cup {NoId}
         /\ arg[c].request \in Requests /\ EffectScope(arg[c].request) \in Scopes
         /\ Handler(c).steps \in Shapes
<1>1. arg[c].replica \in Replicas /\ arg[c].id \in Ids \cup {NoId} /\ arg[c].request \in Requests
  BY DEF Arguments
<1>2. arg[c] # Nothing
  BY NothingAssumption
<1>3. QED
  BY <1>1, <1>2, RequestIs, HandlerShape DEF Handler

\* The initial state satisfies the invariant.
LEMMA InitIInv == Init => IInv
<1> SUFFICES ASSUME Init PROVE IInv
  OBVIOUS
<1>1. TypeOK /\ step \in [Calls -> Nat]
  BY DEF Init, TypeOK, InFlight
<1>2. AtHome
  BY DEF Init, AtHome
<1>3. ASSUME NEW c \in Calls
      PROVE ~HasSpent(c) /\ Progress(c) /\ Touches(c) /\ Paid(c) /\ Truthful(c) /\ Audited(c)
  <2>1. /\ phase[c] = "idle" /\ step[c] = 0 /\ worker[c] = "none"
        /\ effect[c] = Nothing /\ reply[c] = "none"
    BY <1>3 DEF Init
  <2>2. ~HasSpent(c)
    BY <2>1 DEF HasSpent
  <2>3. QED
    BY <2>1, <2>2 DEF Progress, Touches, Paid, Truthful, Audited
<1>4. SpentOnce /\ SpentHasCaller
  BY <1>3 DEF SpentOnce, SpentHasCaller, Init
<1>5. QED
  BY <1>1, <1>2, <1>3, <1>4 DEF IInv

-----------------------------------------------------------------------------
(***************************************************************************)
(* A step of one call.                                                     *)
(***************************************************************************)
Stepping(c) == (\E arguments \in Arguments : Call(c, arguments)) \/ Handling(c) \/ Working(c)

\* A step of one call leaves the others alone, and of the receipts it spends at most
\* the live one it presents.
LEMMA StepFrame ==
  ASSUME TypeOK, step \in [Calls -> Nat], NEW c \in Calls, Stepping(c)
  PROVE  /\ mode' = mode /\ bound' = bound /\ home' = home
         /\ \/ status' = status
            \/ /\ At(c, "consume")
               /\ Authorises(arg[c].id, arg[c])
               /\ status' = [status EXCEPT ![arg[c].id] = "spent"]
         /\ \A d \in Calls \ {c} :
               /\ phase'[d] = phase[d] /\ step'[d] = step[d] /\ arg'[d] = arg[d]
               /\ worker'[d] = worker[d] /\ effect'[d] = effect[d]
               /\ audit'[d] = audit[d] /\ reply'[d] = reply[d]
<1> USE DEF TypeOK, receipts, Answer, Proceed, Raise
<1>1. CASE \E arguments \in Arguments : Call(c, arguments)
  BY <1>1 DEF Call
<1>2. CASE Consume(c)
  BY <1>2 DEF Consume
<1>3. CASE BuildClients(c)
  BY <1>3 DEF BuildClients
<1>4. CASE Resolve(c)
  BY <1>4 DEF Resolve
<1>5. CASE Begin(c)
  BY <1>5 DEF Begin
<1>6. CASE Submit(c)
  BY <1>6 DEF Submit
<1>7. CASE Expire(c)
  BY <1>7 DEF Expire
<1>8. CASE Collect(c)
  BY <1>8 DEF Collect
<1>9. CASE CollectLate(c)
  BY <1>9 DEF CollectLate
<1>10. CASE WorkerActs(c)
  BY <1>10 DEF WorkerActs
<1>11. CASE WorkerEnds(c)
  BY <1>11 DEF WorkerEnds
<1>12. QED
  BY <1>1, <1>2, <1>3, <1>4, <1>5, <1>6, <1>7, <1>8, <1>9, <1>10, <1>11
     DEF Stepping, Handling, Working

\* A handler that raises is answered; only a quiet one, on a ValueError, without an
\* audit entry.
LEMMA RaiseAnswers ==
  ASSUME TypeOK, step \in [Calls -> Nat], NEW c \in Calls, NEW isValueError \in BOOLEAN,
         Raise(c, isValueError)
  PROVE  /\ phase'[c] = "answered" /\ step'[c] = step[c]
         /\ reply'[c] \in {"validation", "error"}
         /\ reply'[c] = "validation" => Handler(c).quiet
         /\ audit'[c] # "none" \/ (Handler(c).quiet /\ reply'[c] = "validation")
BY DEF Raise, Answer, TypeOK

\* While a call is on its way it has arguments and is at one of its handler's steps.
OnTrack(c) == InFlight(c) => arg[c] # Nothing /\ step[c] \in DOMAIN Handler(c).steps

Own(c) == OnTrack(c) /\ Progress(c) /\ Touches(c) /\ Paid(c) /\ Truthful(c) /\ Audited(c)

\* A call that arrives has spent nothing, whether it is let in or refused at the door.
LEMMA CallKeepsOwn ==
  ASSUME IInv, NEW c \in Calls, NEW arguments \in Arguments, Call(c, arguments)
  PROVE  Own(c)'
<1>1. /\ phase[c] = "idle" /\ arg'[c] = arguments /\ worker'[c] = "none" /\ step[c] = 0
      /\ effect'[c] = effect[c] /\ reply[c] = "none"
  BY DEF IInv, TypeOK, Call, Progress
<1>2. effect[c] = Nothing
  BY <1>1 DEF IInv, Touches, HasSpent
<1>3. Handler(c)'.steps \in Shapes /\ arg'[c] # Nothing
  BY <1>1, NothingAssumption, RequestIs, HandlerShape DEF Handler, Arguments
<1>4. \/ phase'[c] = "running" /\ step'[c] = 1 /\ reply'[c] = "none"
      \/ phase'[c] = "answered" /\ step'[c] = 0 /\ reply'[c] = "validation"
  BY <1>1 DEF IInv, TypeOK, Call, Answer
<1>5. ~HasSpent(c)' /\ 1 \in DOMAIN Handler(c)'.steps
  BY <1>3, <1>4, ShapeStart DEF HasSpent, SpentBefore
<1>6. QED
  BY <1>1, <1>2, <1>3, <1>4, <1>5
     DEF Own, OnTrack, InFlight, Progress, Touches, Paid, Truthful, Audited

\* What is known of a call that is about to take the step of its handler.
LEMMA AtIs ==
  ASSUME IInv, NEW c \in Calls, phase[c] = "running"
  PROVE  /\ Handler(c).steps \in Shapes /\ step[c] \in DOMAIN Handler(c).steps /\ step[c] \in Nat
         /\ arg[c] \in Arguments /\ arg[c] # Nothing
         /\ worker[c] = "none" /\ reply[c] = "none"
         /\ effect[c] # Nothing => Handler(c).steps[step[c]] = "submit"
         /\ HasSpent(c) <=> SpentBefore(Handler(c).steps, step[c])
BY ArgumentsAre DEF IInv, TypeOK, InFlight, Progress, Touches, HasSpent, SpentBefore

\* Going on to the next step.
LEMMA ProceedIs ==
  ASSUME IInv, NEW c \in Calls, phase[c] = "running", Proceed(c), arg'[c] = arg[c],
         Handler(c).steps[step[c]] # "submit"
  PROVE  /\ phase'[c] = "running" /\ reply'[c] = "none" /\ arg'[c] \in Arguments /\ OnTrack(c)'
         /\ Handler(c)' = Handler(c) /\ step'[c] = step[c] + 1
         /\ HasSpent(c)' <=> HasSpent(c) \/ Handler(c).steps[step[c]] = "consume"
<1>1. /\ phase'[c] = "running" /\ reply'[c] = "none" /\ step'[c] = step[c] + 1
      /\ arg'[c] \in Arguments /\ Handler(c)' = Handler(c)
  BY AtIs DEF IInv, TypeOK, Proceed, Handler
<1>2. step'[c] \in DOMAIN Handler(c)'.steps
  BY <1>1, AtIs, ShapeOrder
<1>3. HasSpent(c)' <=> SpentBefore(Handler(c).steps, step[c] + 1)
  BY <1>1 DEF HasSpent, SpentBefore
<1>4. QED
  BY <1>1, <1>2, <1>3, AtIs, ShapeOrder DEF OnTrack

\* A call that presents its receipt spends it or is refused.
LEMMA ConsumeKeepsOwn ==
  ASSUME IInv, NEW c \in Calls, Consume(c)
  PROVE  Own(c)'
<1>1. /\ phase[c] = "running" /\ Handler(c).steps[step[c]] = "consume"
      /\ arg' = arg /\ worker' = worker /\ effect' = effect /\ bound' = bound
  BY DEF Consume, At
<1>2. effect[c] = Nothing /\ ~HasSpent(c)
  BY <1>1, AtIs, ShapeOrder
<1>3. CASE Authorises(arg[c].id, arg[c]) /\ status' = [status EXCEPT ![arg[c].id] = "spent"] /\ Proceed(c)
  <2>1. Paid(c)'
    BY <1>1, <1>3 DEF Paid, Authorises, IInv, TypeOK
  <2>2. QED
    BY <1>1, <1>2, <1>3, <2>1, AtIs, ProceedIs DEF Own, Progress, Touches, Truthful, Audited
<1>4. CASE Answer(c, "refused", "none")
  <2>1. phase'[c] = "answered" /\ reply'[c] = "refused" /\ step'[c] = step[c]
    BY <1>4 DEF Answer, IInv, TypeOK
  <2>2. ~HasSpent(c)'
    BY <1>1, <1>2, <2>1 DEF HasSpent, Handler
  <2>3. QED
    BY <1>1, <1>2, <2>1, <2>2, AtIs
       DEF Own, OnTrack, InFlight, Progress, Touches, Paid, Truthful, Audited
<1>5. QED
  BY <1>3, <1>4 DEF Consume

\* An effect is in a scope.
LEMMA EffectIsSomething ==
  ASSUME NEW c \in Calls, arg[c] \in Arguments PROVE EffectScope(arg[c].request) # Nothing
BY ArgumentsAre, DistinctAssumption DEF Scopes

\* A handler that raises keeps its word: what it has touched it has paid for.
LEMMA RaiseKeepsOwn ==
  ASSUME IInv, NEW c \in Calls, NEW isValueError \in BOOLEAN, Raise(c, isValueError),
         arg[c] \in Arguments,
         UNCHANGED <<receipts, arg, worker>>,
         worker[c] \notin {"running", "done"},
         \/ effect'[c] = effect[c]
         \/ effect'[c] = EffectScope(arg[c].request) /\ HasSpent(c)
  PROVE  Own(c)'
<1>1. /\ phase'[c] = "answered" /\ step'[c] = step[c]
      /\ reply'[c] \in {"validation", "error"}
      /\ reply'[c] = "validation" => Handler(c).quiet
      /\ audit'[c] # "none" \/ (Handler(c).quiet /\ reply'[c] = "validation")
  BY RaiseAnswers DEF IInv
<1>2. Handler(c)' = Handler(c) /\ (HasSpent(c)' <=> HasSpent(c))
  BY <1>1 DEF Handler, HasSpent
<1>3. Paid(c)'
  BY <1>2 DEF IInv, Paid, receipts
<1>4. Touches(c)'
  BY <1>1, <1>2 DEF IInv, Touches
<1>5. Audited(c)' /\ Truthful(c)'
  BY <1>1, <1>2 DEF Audited, Truthful
<1>6. QED
  BY <1>1, <1>3, <1>4, <1>5 DEF Own, OnTrack, InFlight, Progress

\* A handler that builds its clients has not touched Azure yet.
LEMMA BuildClientsKeepsOwn ==
  ASSUME IInv, NEW c \in Calls, BuildClients(c) \/ Resolve(c)
  PROVE  Own(c)'
<1>1. /\ phase[c] = "running" /\ Handler(c).steps[step[c]] \in {"clients", "resolve"}
      /\ UNCHANGED <<receipts, arg, worker, effect>>
      /\ Proceed(c) \/ Raise(c, TRUE)
  BY DEF BuildClients, Resolve, At
<1>2. effect[c] = Nothing /\ worker[c] = "none" /\ arg[c] \in Arguments
  BY <1>1, AtIs
<1>3. CASE Proceed(c)
  <2>1. HasSpent(c)' <=> HasSpent(c)
    BY <1>1, <1>3, ProceedIs
  <2>2. Paid(c)'
    BY <1>1, <2>1 DEF IInv, Paid, receipts
  <2>3. QED
    BY <1>1, <1>2, <1>3, <2>2, ProceedIs DEF Own, Progress, Touches, Truthful, Audited
<1>4. CASE Raise(c, TRUE)
  BY <1>1, <1>2, <1>4, RaiseKeepsOwn
<1>5. QED
  BY <1>1, <1>3, <1>4

\* A begin_* request comes after the receipt is spent, and the submission is next.
LEMMA BeginKeepsOwn ==
  ASSUME IInv, NEW c \in Calls, Begin(c)
  PROVE  Own(c)'
<1>1. /\ phase[c] = "running" /\ Handler(c).steps[step[c]] = "begin"
      /\ UNCHANGED <<receipts, arg, worker>>
      /\ \/ effect'[c] = EffectScope(arg[c].request) /\ (Proceed(c) \/ Raise(c, FALSE))
         \/ effect'[c] = effect[c] /\ Raise(c, FALSE)
  BY DEF Begin, At, IInv, TypeOK
<1>2. HasSpent(c) /\ worker[c] = "none" /\ arg[c] \in Arguments
  BY <1>1, AtIs, ShapeOrder
<1>3. CASE effect'[c] = EffectScope(arg[c].request) /\ Proceed(c)
  <2>1. HasSpent(c)' /\ Handler(c)' = Handler(c) /\ arg'[c] = arg[c]
    BY <1>1, <1>2, <1>3, ProceedIs
  <2>2. Handler(c)'.steps[step'[c]] = "submit"
    BY <1>1, <1>3, <2>1, AtIs, ShapeOrder, ProceedIs
  <2>3. Touches(c)'
    BY <1>1, <1>2, <1>3, <2>1, <2>2 DEF Touches
  <2>4. Paid(c)'
    BY <1>1, <1>2 DEF IInv, Paid, receipts
  <2>5. QED
    BY <1>1, <1>2, <1>3, <2>3, <2>4, ProceedIs DEF Own, Progress, Truthful, Audited
<1>4. CASE Raise(c, FALSE)
  BY <1>1, <1>2, <1>4, RaiseKeepsOwn
<1>5. QED
  BY <1>1, <1>3, <1>4

\* What is known of a call whose callback has been submitted.
LEMMA SubmittedIs ==
  ASSUME IInv, NEW c \in Calls, phase[c] \in {"waiting", "overdue"}
  PROVE  /\ HasSpent(c) /\ Handler(c).steps[step[c]] = "submit"
         /\ arg[c] \in Arguments /\ OnTrack(c) /\ reply[c] = "none" /\ worker[c] # "none"
<1>1. /\ Handler(c).steps[step[c]] = "submit" /\ arg[c] \in Arguments
      /\ OnTrack(c) /\ reply[c] = "none" /\ worker[c] # "none"
  BY DEF IInv, TypeOK, InFlight, OnTrack, Progress
<1>2. SpentBefore(Handler(c).steps, step[c])
  BY <1>1, ArgumentsAre, ShapeOrder DEF OnTrack, InFlight
<1>3. QED
  BY <1>1, <1>2 DEF HasSpent, SpentBefore

\* The submission, and the deadline passing, change the phase of the call only.
LEMMA SubmitKeepsOwn ==
  ASSUME IInv, NEW c \in Calls, Submit(c) \/ Expire(c)
  PROVE  Own(c)'
<1>1. /\ phase[c] \in {"running", "waiting"} /\ phase'[c] \in {"waiting", "overdue"}
      /\ worker'[c] = "running" /\ Handler(c).steps[step[c]] = "submit"
      /\ UNCHANGED <<receipts, step, arg, effect, audit, reply>>
  BY SubmittedIs DEF Submit, Expire, At, IInv, TypeOK
<1>2. /\ arg[c] \in Arguments /\ OnTrack(c) /\ reply[c] = "none"
      /\ Touches(c) /\ Paid(c)
  BY <1>1, AtIs, SubmittedIs DEF IInv, OnTrack, InFlight
<1>3. Handler(c)' = Handler(c) /\ (HasSpent(c)' <=> HasSpent(c))
  BY <1>1 DEF Handler, HasSpent
<1>4. Touches(c)' /\ Paid(c)'
  BY <1>1, <1>2, <1>3 DEF Touches, Paid, receipts
<1>5. OnTrack(c)'
  BY <1>1, <1>2, <1>3 DEF OnTrack, InFlight
<1>6. QED
  BY <1>1, <1>2, <1>3, <1>4, <1>5 DEF Own, Progress, Truthful, Audited

\* What the callback did is what the reply says.
LEMMA CollectKeepsOwn ==
  ASSUME IInv, NEW c \in Calls, Collect(c) \/ CollectLate(c)
  PROVE  Own(c)'
<1>1. /\ phase[c] \in {"waiting", "overdue"} /\ worker[c] # "running"
      /\ UNCHANGED <<receipts, arg, worker, effect>>
  BY DEF Collect, CollectLate
<1>2. HasSpent(c) /\ arg[c] \in Arguments /\ worker[c] # "none"
      /\ Touches(c) /\ Paid(c)
  BY <1>1, SubmittedIs DEF IInv
<1>3. CASE \/ worker[c] = "done" /\ Answer(c, "ok", "success")
           \/ Answer(c, "timeout", "error")
  <2>1. /\ phase'[c] = "answered" /\ step'[c] = step[c] /\ audit'[c] # "none"
        /\ reply'[c] \in {"ok", "timeout"} /\ (reply'[c] = "ok" => worker[c] = "done")
    BY <1>3 DEF Answer, IInv, TypeOK
  <2>2. Handler(c)' = Handler(c) /\ HasSpent(c)'
    BY <1>1, <1>2, <2>1 DEF Handler, HasSpent
  <2>3. Touches(c)' /\ Paid(c)'
    BY <1>1, <1>2, <2>1, <2>2 DEF Touches, Paid, receipts
  <2>4. QED
    BY <1>1, <1>2, <2>1, <2>3 DEF Own, OnTrack, InFlight, Progress, Truthful, Audited, Touches
<1>4. CASE \/ worker[c] = "raised" /\ Raise(c, FALSE)
           \/ worker[c] = "value_error" /\ Raise(c, TRUE)
  BY <1>1, <1>2, <1>4, RaiseKeepsOwn DEF Touches
<1>5. QED
  BY <1>3, <1>4 DEF Collect, CollectLate

\* The callback acts while its call waits for it.
LEMMA WorkerKeepsOwn ==
  ASSUME IInv, NEW c \in Calls, Working(c)
  PROVE  Own(c)'
<1>1. /\ worker[c] = "running" /\ UNCHANGED <<receipts, phase, step, arg, audit, reply>>
      /\ \/ /\ worker'[c] = "running" /\ effect'[c] = EffectScope(arg[c].request)
         \/ /\ worker'[c] \in {"done", "raised", "value_error"} /\ effect'[c] = effect[c]
            /\ worker'[c] = "done" => effect[c] # Nothing
  BY DEF Working, WorkerActs, WorkerEnds, IInv, TypeOK
<1>2. phase[c] \in {"waiting", "overdue"}
  BY <1>1 DEF IInv, TypeOK, Progress
<1>3. /\ HasSpent(c) /\ arg[c] \in Arguments /\ OnTrack(c) /\ reply[c] = "none"
      /\ Touches(c) /\ Paid(c) /\ Progress(c) /\ EffectScope(arg[c].request) # Nothing
  BY <1>2, SubmittedIs, EffectIsSomething DEF IInv
<1>4. Handler(c)' = Handler(c) /\ HasSpent(c)'
  BY <1>1, <1>3 DEF Handler, HasSpent
<1>5. OnTrack(c)' /\ Progress(c)' /\ Paid(c)'
  BY <1>1, <1>2, <1>3, <1>4 DEF OnTrack, InFlight, Progress, Paid, receipts
<1>6. Touches(c)'
  BY <1>1, <1>2, <1>3, <1>4 DEF Touches
<1>7. QED
  BY <1>1, <1>2, <1>3, <1>5, <1>6 DEF Own, Truthful, Audited

\* Whatever step a call takes, it keeps its own part of the invariant.
LEMMA StepKeepsOwn == ASSUME IInv, NEW c \in Calls, Stepping(c) PROVE Own(c)'
BY CallKeepsOwn, ConsumeKeepsOwn, BuildClientsKeepsOwn, BeginKeepsOwn, SubmitKeepsOwn,
   CollectKeepsOwn, WorkerKeepsOwn DEF Stepping, Handling

\* A call that has spent a receipt had spent it before, or presents a live one now.
LEMMA SpendsOnlyLive ==
  ASSUME IInv, NEW c \in Calls, Stepping(c), HasSpent(c)'
  PROVE  /\ arg'[c] = arg[c]
         /\ HasSpent(c) \/ (arg[c].id \in Ids /\ status[arg[c].id] = "live")
<1>1. CASE \E arguments \in Arguments : Call(c, arguments)
  <2>1. step'[c] \in {0, 1}
    BY <1>1 DEF Call, Answer, IInv, TypeOK, Progress
  <2>2. QED
    BY <2>1 DEF HasSpent
<1>2. ASSUME arg' = arg, phase[c] = "running", Proceed(c), Handler(c).steps[step[c]] # "submit",
             Handler(c).steps[step[c]] # "consume"
      PROVE  HasSpent(c)
  BY <1>2, ProceedIs
<1>3. ASSUME arg' = arg, step'[c] = step[c]
      PROVE  HasSpent(c)
  BY <1>3 DEF HasSpent, Handler
<1>4. CASE Consume(c)
  BY <1>3, <1>4 DEF Consume, Authorises, Answer
<1>5. CASE BuildClients(c) \/ Resolve(c) \/ Begin(c)
  BY <1>2, <1>3, <1>5 DEF BuildClients, Resolve, Begin, At, Raise, Answer
<1>6. CASE Submit(c) \/ Expire(c) \/ Collect(c) \/ CollectLate(c) \/ Working(c)
  BY <1>3, <1>6 DEF Submit, Expire, Collect, CollectLate, Working, WorkerActs, WorkerEnds, Raise, Answer
<1>7. QED
  BY <1>1, <1>4, <1>5, <1>6 DEF Stepping, Handling, Consume, BuildClients, Resolve, Begin,
     Submit, Expire, Collect, CollectLate, Working, WorkerActs, WorkerEnds

\* What a call has spent stays spent by it.
LEMMA SpendingStays ==
  ASSUME IInv, NEW c \in Calls, Stepping(c), phase[c] # "idle", HasSpent(c)
  PROVE  phase'[c] # "idle" /\ HasSpent(c)' /\ arg'[c] = arg[c]
<1>1. ASSUME arg' = arg, phase[c] = "running", Proceed(c), Handler(c).steps[step[c]] # "submit"
      PROVE  phase'[c] # "idle" /\ HasSpent(c)'
  BY <1>1, ProceedIs
<1>2. ASSUME arg' = arg, step'[c] = step[c] PROVE HasSpent(c)'
  BY <1>2 DEF HasSpent, Handler
<1>3. CASE Consume(c) \/ BuildClients(c) \/ Resolve(c) \/ Begin(c)
  <2>1. /\ arg' = arg /\ phase[c] = "running" /\ Handler(c).steps[step[c]] # "submit"
        /\ Proceed(c) \/ (phase'[c] = "answered" /\ step'[c] = step[c])
    BY <1>3 DEF Consume, BuildClients, Resolve, Begin, At, Raise, Answer, IInv, TypeOK
  <2>2. QED
    BY <1>1, <1>2, <2>1
<1>4. CASE Submit(c) \/ Expire(c) \/ Collect(c) \/ CollectLate(c) \/ Working(c)
  <2>1. arg' = arg /\ step' = step /\ phase'[c] # "idle"
    BY <1>4 DEF Submit, Expire, Collect, CollectLate, Working, WorkerActs, WorkerEnds, Raise, Answer,
       IInv, TypeOK
  <2>2. QED
    BY <1>2, <2>1
<1>5. QED
  BY <1>3, <1>4 DEF Stepping, Handling, Call

\* The call whose step spends a receipt has spent it, at the replica that issued it.
LEMMA ConsumeSpends ==
  ASSUME IInv, NEW c \in Calls, NEW id \in Ids, Stepping(c), At(c, "consume"),
         Authorises(id, arg[c]), arg[c].id = id, status' # status
  PROVE  SpentBy(c, id)'
<1>1. Consume(c)
  BY DEF Stepping, Handling, Working, Call, BuildClients, Resolve, Begin, Submit, Expire, Collect,
     CollectLate, WorkerActs, WorkerEnds, receipts
<1>2. /\ Proceed(c) /\ arg' = arg /\ home' = home /\ phase[c] = "running"
      /\ Handler(c).steps[step[c]] = "consume"
  BY <1>1 DEF Consume, At
<1>3. HasSpent(c)' /\ phase'[c] = "running"
  BY <1>2, ProceedIs
<1>4. QED
  BY <1>2, <1>3 DEF SpentBy, Authorises

\* Every step of a call keeps the types.
LEMMA StepTypeOK ==
  ASSUME IInv, NEW c \in Calls, Stepping(c)
  PROVE  TypeOK' /\ step' \in [Calls -> Nat]
<1> DEFINE Flat ==
      /\ mode \in {"local", "hosted", "unselected"}
      /\ status \in [Ids -> {"none", "live", "lapsed", "spent", "void"}]
      /\ bound \in [Ids -> Requests \cup {Nothing}]
      /\ home \in [Ids -> Replicas \cup {Nothing}]
      /\ phase \in [Calls -> {"idle", "running", "waiting", "overdue", "answered", "lost"}]
      /\ arg \in [Calls -> Arguments \cup {Nothing}]
      /\ worker \in [Calls -> {"none", "running", "done", "raised", "value_error"}]
      /\ effect \in [Calls -> Scopes \cup {Nothing}]
      /\ audit \in [Calls -> {"none", "success", "error"}]
      /\ reply \in [Calls -> {"none", "ok", "refused", "validation", "error", "timeout"}]
      /\ step \in [Calls -> Nat]
<1>1. Flat /\ Progress(c)
  BY DEF IInv, TypeOK
<1>2. ASSUME arg[c] \in Arguments PROVE EffectScope(arg[c].request) \in Scopes
  BY <1>2, ArgumentsAre
<1>3. Flat'
  <2> USE <1>1 DEF receipts, Answer, Proceed, Raise
  <2>1. CASE \E arguments \in Arguments : Call(c, arguments)
    BY <2>1 DEF Call
  <2>2. CASE Consume(c)
    BY <2>2 DEF Consume
  <2>3. CASE BuildClients(c)
    BY <2>3 DEF BuildClients
  <2>4. CASE Resolve(c)
    BY <2>4 DEF Resolve
  <2>5. CASE Begin(c)
    BY <2>5, <1>2 DEF Begin, At, Progress
  <2>6. CASE Submit(c)
    BY <2>6 DEF Submit
  <2>7. CASE Expire(c)
    BY <2>7 DEF Expire
  <2>8. CASE Collect(c)
    BY <2>8 DEF Collect
  <2>9. CASE CollectLate(c)
    BY <2>9 DEF CollectLate
  <2>10. CASE WorkerActs(c)
    BY <2>10, <1>2 DEF WorkerActs, Progress
  <2>11. CASE WorkerEnds(c)
    BY <2>11 DEF WorkerEnds
  <2>12. QED
    BY <2>1, <2>2, <2>3, <2>4, <2>5, <2>6, <2>7, <2>8, <2>9, <2>10, <2>11
       DEF Stepping, Handling, Working
<1>4. ASSUME NEW d \in Calls PROVE OnTrack(d)'
  <2>1. CASE d = c
    BY <2>1, StepKeepsOwn DEF Own
  <2>2. CASE d # c
    BY <2>2, StepFrame DEF IInv, TypeOK, OnTrack, InFlight, Handler
  <2>3. QED
    BY <2>1, <2>2
<1>5. QED
  BY <1>3, <1>4 DEF TypeOK, OnTrack

\* A step of one call keeps the invariant.
LEMMA StepIInv == ASSUME IInv, NEW c \in Calls, Stepping(c) PROVE IInv'
<1>1. TypeOK' /\ step' \in [Calls -> Nat]
  BY StepTypeOK
<1>2. /\ bound' = bound /\ home' = home
      /\ \A id \in Ids : status'[id] = status[id] \/ (status[id] = "live" /\ status'[id] = "spent")
  BY StepFrame DEF Authorises, IInv, TypeOK
<1>3. ASSUME NEW d \in Calls, d # c
      PROVE  (HasSpent(d)' <=> HasSpent(d)) /\ arg'[d] = arg[d]
  BY <1>3, StepFrame DEF IInv, HasSpent, Handler
<1>4. AtHome'
  BY <1>2 DEF IInv, AtHome
<1>5. SpentOnce'
  <2> SUFFICES ASSUME NEW d \in Calls, NEW e \in Calls,
                      HasSpent(d)', HasSpent(e)', arg'[d].id = arg'[e].id
               PROVE  d = e
    BY DEF SpentOnce
  <2>1. ASSUME NEW f \in Calls, HasSpent(c)', HasSpent(f)', arg'[c].id = arg'[f].id, f # c
        PROVE  FALSE
    <3>1. HasSpent(f) /\ arg'[f] = arg[f]
      BY <1>3, <2>1
    <3>2. status[arg[f].id] \in {"spent", "void"}
      BY <3>1 DEF IInv, Paid
    <3>3. HasSpent(c) /\ arg[c].id = arg[f].id
      BY <2>1, <3>1, <3>2, SpendsOnlyLive
    <3>4. QED
      BY <2>1, <3>1, <3>3 DEF IInv, SpentOnce
  <2>2. CASE d # c /\ e # c
    BY <1>3, <2>2 DEF IInv, SpentOnce
  <2>3. QED
    BY <2>1, <2>2
<1>8. SpentHasCaller'
  <2> SUFFICES ASSUME NEW id \in Ids, status'[id] = "spent"
               PROVE  \E d \in Calls : SpentBy(d, id)'
    BY DEF SpentHasCaller
  <2>1. CASE status[id] = "spent"
    <3>1. PICK d \in Calls : SpentBy(d, id)
      BY <2>1 DEF IInv, SpentHasCaller
    <3>2. CASE d # c
      BY <1>2, <1>3, <3>1, <3>2, StepFrame DEF IInv, SpentBy
    <3>3. CASE d = c
      BY <1>2, <3>1, <3>3, SpendingStays DEF SpentBy
    <3>4. QED
      BY <3>2, <3>3
  <2>2. CASE status[id] # "spent"
    <3>1. At(c, "consume") /\ Authorises(arg[c].id, arg[c]) /\ arg[c].id = id
      BY <2>2, StepFrame DEF IInv, TypeOK
    <3>2. SpentBy(c, id)'
      BY <1>2, <2>2, <3>1, ConsumeSpends
    <3>3. QED
      BY <3>2
  <2>3. QED
    BY <2>1, <2>2
<1>6. ASSUME NEW d \in Calls
      PROVE  (Progress(d) /\ Touches(d) /\ Paid(d) /\ Truthful(d) /\ Audited(d))'
  <2>1. CASE d = c
    BY <2>1, StepKeepsOwn DEF Own
  <2>2. CASE d # c
    <3>1. /\ phase'[d] = phase[d] /\ step'[d] = step[d] /\ arg'[d] = arg[d]
          /\ worker'[d] = worker[d] /\ effect'[d] = effect[d]
          /\ audit'[d] = audit[d] /\ reply'[d] = reply[d]
          /\ Handler(d)' = Handler(d) /\ (HasSpent(d)' <=> HasSpent(d))
      BY <1>3, <2>2, StepFrame DEF IInv, Handler
    <3>2. Progress(d) /\ Touches(d) /\ Paid(d) /\ Truthful(d) /\ Audited(d)
      BY DEF IInv
    <3>3. Paid(d)'
      BY <1>2, <3>1, <3>2 DEF Paid
    <3>4. QED
      BY <3>1, <3>2, <3>3 DEF Progress, Touches, Truthful, Audited
  <2>3. QED
    BY <2>1, <2>2
<1>7. QED
  BY <1>1, <1>4, <1>5, <1>6, <1>8 DEF IInv

-----------------------------------------------------------------------------
(***************************************************************************)
(* The steps that are nobody's call, and all of them.                      *)
(***************************************************************************)

\* A step that only changes receipts keeps the invariant if it leaves what has been
\* spent alone.
LEMMA ReceiptStepIInv ==
  ASSUME IInv, UNCHANGED <<mode, phase, step, arg, worker, effect, audit, reply>>,
         status' \in [Ids -> {"none", "live", "lapsed", "spent", "void"}],
         bound' \in [Ids -> Requests \cup {Nothing}],
         home' \in [Ids -> Replicas \cup {Nothing}],
         AtHome',
         \A id \in Ids : status[id] \in {"spent", "void"} =>
             status'[id] = status[id] /\ bound'[id] = bound[id] /\ home'[id] = home[id],
         \A id \in Ids : status'[id] = "spent" => status[id] = "spent"
  PROVE  IInv'
<1>1. ASSUME NEW c \in Calls
      PROVE  Handler(c)' = Handler(c) /\ (HasSpent(c)' <=> HasSpent(c)) /\ (InFlight(c)' <=> InFlight(c))
  BY DEF Handler, HasSpent, InFlight
<1>2. TypeOK' /\ step' \in [Calls -> Nat]
  BY <1>1 DEF IInv, TypeOK
<1>3. SpentOnce' /\ SpentHasCaller'
  BY <1>1 DEF IInv, SpentOnce, SpentHasCaller, SpentBy
<1>4. ASSUME NEW c \in Calls
      PROVE  (Progress(c) /\ Touches(c) /\ Paid(c) /\ Truthful(c) /\ Audited(c))'
  <2>1. Progress(c) /\ Touches(c) /\ Paid(c) /\ Truthful(c) /\ Audited(c)
    BY DEF IInv
  <2>2. Paid(c)'
    BY <1>1, <2>1 DEF Paid
  <2>3. QED
    BY <1>1, <2>1, <2>2 DEF Progress, Touches, Truthful, Audited
<1>5. QED
  BY <1>2, <1>3, <1>4 DEF IInv

\* Issuing a receipt and its lapse touch no receipt that is spent.
LEMMA IssueIInv ==
  ASSUME IInv, NEW replica \in Replicas, NEW id \in Ids, NEW plan \in PlanTools,
         NEW request \in Requests, IssuePlan(replica, id, plan, request) \/ Lapse(id)
  PROVE  IInv'
<1>1. AtHome'
  BY DEF IssuePlan, Lapse, IInv, TypeOK, AtHome
<1>2. QED
  BY <1>1, ReceiptStepIInv DEF IssuePlan, Lapse, IInv, TypeOK

\* A process is lost with the calls that are on their way there: what they have
\* touched stays paid for.
LEMMA CrashIInv == ASSUME IInv, NEW replica \in Replicas, Crash(replica) PROVE IInv'
<1> DEFINE Hit(c) == InFlight(c) /\ arg[c].replica = replica
<1>1. /\ UNCHANGED <<mode, bound, home, step, arg, effect, audit, reply>>
      /\ \A id \in Ids : status'[id] = IF home[id] = replica THEN "void" ELSE status[id]
      /\ \A c \in Calls : phase'[c] = IF Hit(c) THEN "lost" ELSE phase[c]
      /\ \A c \in Calls : worker'[c] = IF Hit(c) THEN "none" ELSE worker[c]
  BY DEF Crash
<1>2. ASSUME NEW c \in Calls
      PROVE  Handler(c)' = Handler(c) /\ (HasSpent(c)' <=> HasSpent(c))
  BY <1>1 DEF Handler, HasSpent
<1>3. TypeOK' /\ step' \in [Calls -> Nat]
  <2>1. /\ status' \in [Ids -> {"none", "live", "lapsed", "spent", "void"}]
        /\ phase' \in [Calls -> {"idle", "running", "waiting", "overdue", "answered", "lost"}]
        /\ worker' \in [Calls -> {"none", "running", "done", "raised", "value_error"}]
    BY DEF Crash, IInv, TypeOK
  <2>2. \A c \in Calls : InFlight(c)' => arg'[c] # Nothing /\ step'[c] \in DOMAIN Handler(c)'.steps
    BY <1>1, <1>2 DEF IInv, TypeOK, InFlight
  <2>3. QED
    BY <1>1, <2>1, <2>2 DEF IInv, TypeOK
<1>4. AtHome' /\ SpentOnce' /\ SpentHasCaller'
  <2>1. AtHome' /\ SpentOnce'
    BY <1>1, <1>2 DEF IInv, AtHome, SpentOnce
  <2>2. ASSUME NEW id \in Ids, status'[id] = "spent" PROVE \E c \in Calls : SpentBy(c, id)'
    <3>1. PICK c \in Calls : SpentBy(c, id)
      BY <1>1, <2>2 DEF IInv, SpentHasCaller
    <3>2. SpentBy(c, id)'
      BY <1>1, <1>2, <3>1 DEF SpentBy
    <3>3. QED
      BY <3>2
  <2>3. QED
    BY <2>1, <2>2 DEF SpentHasCaller
<1>5. ASSUME NEW c \in Calls
      PROVE  (Progress(c) /\ Touches(c) /\ Paid(c) /\ Truthful(c) /\ Audited(c))'
  <2>1. Progress(c) /\ Touches(c) /\ Paid(c) /\ Truthful(c) /\ Audited(c)
    BY DEF IInv
  <2>2. Paid(c)'
    BY <1>1, <1>2, <2>1 DEF Paid
  <2>3. Progress(c)' /\ Audited(c)'
    BY <1>1, <1>2, <2>1 DEF Progress, Audited, InFlight
  <2>4. Touches(c)' /\ Truthful(c)'
    BY <1>1, <1>2, <2>1 DEF Touches, Truthful
  <2>5. QED
    BY <2>2, <2>3, <2>4
<1>6. QED
  BY <1>3, <1>4, <1>5 DEF IInv

\* Every step of the specification is one of the above.
LEMMA NextIInv == IInv /\ [Next]_vars => IInv'
<1> SUFFICES ASSUME IInv, [Next]_vars PROVE IInv'
  OBVIOUS
<1>1. CASE \E replica \in Replicas, id \in Ids, plan \in PlanTools, request \in Requests :
             IssuePlan(replica, id, plan, request)
  BY <1>1, IssueIInv
<1>2. CASE \E id \in Ids : Lapse(id)
  <2>1. PICK id \in Ids : Lapse(id)
    BY <1>2
  <2>2. AtHome'
    BY <2>1 DEF Lapse, IInv, TypeOK, AtHome
  <2>3. QED
    BY <2>1, <2>2, ReceiptStepIInv DEF Lapse, IInv, TypeOK
<1>3. CASE \E c \in Calls : Stepping(c)
  BY <1>3, StepIInv
<1>4. CASE \E replica \in Replicas : Crash(replica)
  BY <1>4, CrashIInv
<1>5. CASE UNCHANGED vars
  BY <1>5, ReceiptStepIInv DEF vars, IInv, TypeOK, AtHome
<1>6. QED
  BY <1>1, <1>2, <1>3, <1>4, <1>5 DEF Next, Stepping

-----------------------------------------------------------------------------
(***************************************************************************)
(* The theorems.                                                           *)
(***************************************************************************)

\* The invariant holds in every reachable state.
THEOREM Inductive == Spec => []IInv
BY InitIInv, NextIInv, PTL DEF Spec

\* Every variable keeps its type, and a handler in flight is at one of its steps.
THEOREM TypeCorrect == Spec => []TypeOK
<1>1. IInv => TypeOK
  BY DEF IInv
<1>2. QED
  BY <1>1, Inductive, PTL

\* No controlled tool touches Azure but under a receipt that was issued for exactly
\* this request and is spent by then.
THEOREM EffectsAreAuthorised == Spec => []EffectAuthorised
<1>1. IInv => EffectAuthorised
  BY DEF IInv, EffectAuthorised, Touches, Paid
<1>2. QED
  BY <1>1, Inductive, PTL

\* One receipt pays for at most one effect, whichever calls present it.
THEOREM ReceiptsPayOnce == Spec => []OneEffectPerReceipt
<1>1. IInv => OneEffectPerReceipt
  BY DEF IInv, OneEffectPerReceipt, Touches, SpentOnce
<1>2. QED
  BY <1>1, Inductive, PTL

\* A spent receipt was spent by one call, of the replica that issued it and for the
\* request it was issued for, however many calls present it and whatever is refused.
THEOREM SpentOnlyOnce == Spec => []SpentByOneCall
<1>1. ASSUME IInv, NEW id \in Ids, status[id] = "spent"
      PROVE  \E c \in Calls :
                /\ phase[c] # "idle" /\ HasSpent(c)
                /\ arg[c] = [replica |-> home[id], id |-> id, request |-> bound[id]]
                /\ \A d \in Calls : HasSpent(d) /\ arg[d].id = id => d = c
  <2>1. PICK c \in Calls : SpentBy(c, id)
    BY <1>1 DEF IInv, SpentHasCaller
  <2>2. arg[c] \in Arguments /\ bound[id] = arg[c].request
    BY <1>1, <2>1 DEF IInv, Progress, Paid, SpentBy
  <2>3. arg[c] = [replica |-> home[id], id |-> id, request |-> bound[id]]
    BY <2>1, <2>2 DEF SpentBy, Arguments
  <2>4. \A d \in Calls : HasSpent(d) /\ arg[d].id = id => d = c
    BY <1>1, <2>1 DEF IInv, SpentOnce, SpentBy
  <2>5. QED
    BY <2>1, <2>3, <2>4 DEF SpentBy
<1>2. IInv => SpentByOneCall
  BY <1>1 DEF SpentByOneCall
<1>3. QED
  BY <1>2, Inductive, PTL

\* After "ok" the operation was accepted; after a refusal, or a validation error of a tool
\* that does not answer every ValueError with one, Azure is untouched and the receipt
\* unspent, wherever and whenever the callback raised what.
THEOREM RepliesAreTruthful == Spec => []ReplyTruthful
<1>1. IInv => ReplyTruthful
  BY DEF IInv, ReplyTruthful, Truthful, Touches
<1>2. QED
  BY <1>1, Inductive, PTL

\* An answered call that took a receipt is audited, whatever it touched, but for the
\* validation errors of the quiet handler.
THEOREM SpendingIsAudited == Spec => []SpendingAudited
<1>1. IInv => SpendingAudited
  BY DEF IInv, SpendingAudited, Audited
<1>2. QED
  BY <1>1, Inductive, PTL

\* What an answered call has changed in Azure is audited unless the call is a
\* create_ai_foundry_evaluation that was answered with a validation error: the one
\* exception to EffectsAudited.
THEOREM EffectsAreAudited ==
  Spec => [](\A c \in Calls : phase[c] = "answered" /\ effect[c] # Nothing =>
                \/ audit[c] # "none"
                \/ arg[c].request.tool = "create_ai_foundry_evaluation" /\ reply[c] = "validation")
<1>1. ASSUME IInv, NEW c \in Calls, phase[c] = "answered", effect[c] # Nothing
      PROVE  \/ audit[c] # "none"
             \/ arg[c].request.tool = "create_ai_foundry_evaluation" /\ reply[c] = "validation"
  <2>1. arg[c].request.tool \in DOMAIN Handlers
    BY <1>1, ArgumentsAre, RequestIs DEF IInv, Progress
  <2>2. audit[c] # "none" \/ (Handler(c).quiet /\ reply[c] = "validation")
    BY <1>1 DEF IInv, Touches, Audited
  <2>3. Handler(c).quiet => arg[c].request.tool = "create_ai_foundry_evaluation"
    BY <2>1, QuietHandler DEF Handler
  <2>4. QED
    BY <2>2, <2>3
<1>2. IInv => \A c \in Calls : phase[c] = "answered" /\ effect[c] # Nothing =>
                \/ audit[c] # "none"
                \/ arg[c].request.tool = "create_ai_foundry_evaluation" /\ reply[c] = "validation"
  BY <1>1
<1>3. QED
  BY <1>2, Inductive, PTL

\* An effect is in the scope of its request, but for the generic create, whose effect
\* is in the configured subscription whatever scope was approved.
THEOREM EffectScopes ==
  Spec => [](\A c \in Calls : effect[c] # Nothing =>
                \/ effect[c] = arg[c].request.scope
                \/ arg[c].request.tool = "create_azure_resource" /\ effect[c] = Configured)
<1>1. IInv => \A c \in Calls : effect[c] # Nothing =>
                 \/ effect[c] = arg[c].request.scope
                 \/ arg[c].request.tool = "create_azure_resource" /\ effect[c] = Configured
  BY DEF IInv, Touches, EffectScope
<1>2. QED
  BY <1>1, Inductive, PTL

\* A call that has its reply, TIMEOUT included, has had all the effect it will have.
THEOREM RepliesAreFinal == Spec => NoEffectAfterReply
<1>1. ASSUME IInv, [Next]_vars
      PROVE  [\A c \in Calls : phase[c] = "answered" => effect'[c] = effect[c]]_vars
  <2> USE <1>1
  <2> SUFFICES ASSUME NEW c \in Calls, phase[c] = "answered" PROVE effect'[c] = effect[c]
    OBVIOUS
  <2>1. worker[c] # "running"
    BY DEF IInv, Progress
  <2>2. CASE \E d \in Calls : Stepping(d)
    <3>1. PICK d \in Calls : Stepping(d)
      BY <2>2
    <3>2. CASE d # c
      BY <3>1, <3>2, StepFrame DEF IInv
    <3>3. CASE d = c
      BY <2>1, <3>1, <3>3
         DEF Stepping, Handling, Working, Call, Consume, BuildClients, Resolve, Begin, Submit,
             Expire, Collect, CollectLate, WorkerActs, WorkerEnds, At
    <3>4. QED
      BY <3>2, <3>3
  <2>3. CASE ~\E d \in Calls : Stepping(d)
    BY <2>3 DEF Next, Stepping, IssuePlan, Lapse, Crash, vars
  <2>4. QED
    BY <2>2, <2>3
<1>2. QED
  BY <1>1, Inductive, PTL DEF Spec, NoEffectAfterReply
=============================================================================
