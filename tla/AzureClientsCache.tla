-------------------------- MODULE AzureClientsCache --------------------------
(***************************************************************************)
(* The process-wide bundle of Azure clients (src/azure_clients.py): a      *)
(* double-checked cache in local mode, a bundle per call in hosted mode,   *)
(* and the reset that discards the cached one.  What a bundle is made from *)
(* - the settings of src/config.py, the credential of src/auth.py - is as  *)
(* much of it as decides whether there is a bundle and whose it is.        *)
(*                                                                         *)
(* The unlocked reads of _cached_clients are steps of their own, the two   *)
(* returns included: line 223 tests the global and line 224 reads it       *)
(* again, and line 230 reads it after the lock is released.                *)
(***************************************************************************)
EXTENDS Naturals

CONSTANTS
    Threads,     \* invocations of get_azure_clients(), one request each
    Principal,   \* the identity of an explicit service principal
    Ambient,     \* the identity DefaultAzureCredential finds on the machine
    Free,        \* the lock is not held
    NoClients,   \* None
    MaxResets    \* bound on calls of reset_client_cache()

ASSUME ThreadsAssumption ==
    Free \notin Threads /\ {Principal, Ambient} \cap Threads = {}
ASSUME IdentitiesAssumption == Principal # Ambient
ASSUME MaxResetsAssumption == MaxResets \in Nat
ASSUME NoClientsAssumption ==
    NoClients \notin [identity: Threads \cup {Principal, Ambient}, number: Nat, epoch: Nat]

VARIABLES
    settings,  \* what load_settings returns: the environment of the process
    cached,    \* _cached_clients
    lock,      \* _clients_lock: Free or its holder
    pc,        \* how far each invocation has come
    result,    \* what it returned
    built,     \* history: bundles built so far
    resets,    \* history: resets so far
    since,     \* history: resets before the invocation started
    began      \* history: resets before its construction began

vars == <<settings, cached, lock, pc, result, built, resets, since, began>>

PrincipalFields == {"AZURE_TENANT_ID", "AZURE_CLIENT_ID", "AZURE_CLIENT_SECRET"}

\* The values a server can run with; app.py loads them on import, so that one with
\* a malformed number or an incomplete hosted configuration never starts.
Settings == [auth_mode: {"local", "hosted"}, subscription: BOOLEAN, principal: SUBSET PrincipalFields]

Identities == Threads \cup {Principal, Ambient}
Bundle == [identity: Identities, number: Nat, epoch: 0..MaxResets]

PCs == {"idle", "hosted", "peek", "hit", "wait", "check", "create", "release",
        "miss", "unwind", "returned", "failed"}

TypeOK ==
    /\ settings \in Settings
    /\ cached \in Bundle \cup {NoClients}
    /\ lock \in Threads \cup {Free}
    /\ pc \in [Threads -> PCs]
    /\ result \in [Threads -> Bundle \cup {NoClients}]
    /\ built \in Nat
    /\ resets \in 0..MaxResets
    /\ since \in [Threads -> 0..MaxResets]
    /\ began \in [Threads -> 0..MaxResets]
    /\ \A t \in Threads : lock = t <=> pc[t] \in {"check", "create", "release", "unwind"}

Init ==
    /\ settings \in Settings
    /\ cached = NoClients
    /\ lock = Free
    /\ pc = [t \in Threads |-> "idle"]
    /\ result = [t \in Threads |-> NoClients]
    /\ built = 0
    /\ resets = 0
    /\ since = [t \in Threads |-> 0]
    /\ began = [t \in Threads |-> 0]

Goto(t, label) == pc' = [pc EXCEPT ![t] = label]

Hosted == settings.auth_mode = "hosted"

\* Mutant: an incomplete service principal is taken for none.
CredentialFallingBack(t) ==
    {i \in Identities :
        \/ Hosted /\ i = t
        \/ ~Hosted /\ i = Principal /\ settings.principal = PrincipalFields
        \/ ~Hosted /\ i = Ambient /\ settings.principal # PrincipalFields}

\* The identity build_credential binds a bundle to: the user of the request in
\* hosted mode, otherwise the service principal if it is there and what the machine
\* has if there is none; a part of one is an error.
Credential(t) ==
    {i \in Identities :
        \/ Hosted /\ i = t
        \/ ~Hosted /\ i = Principal /\ settings.principal = PrincipalFields
        \/ ~Hosted /\ i = Ambient /\ settings.principal = {}}

\* What create_azure_clients can make of the settings.
NewBundles(t) ==
    IF settings.subscription
    THEN [identity: Credential(t), number: {built + 1}, epoch: {began[t]}]
    ELSE {}

\* Mutant: hosted requests go through the cache too.
CallCached(t) ==
    /\ pc[t] = "idle"
    /\ since' = [since EXCEPT ![t] = resets]
    /\ began' = [began EXCEPT ![t] = resets]
    /\ Goto(t, "peek")
    /\ UNCHANGED <<settings, cached, lock, result, built, resets>>

Call(t) ==
    /\ pc[t] = "idle"
    /\ since' = [since EXCEPT ![t] = resets]
    /\ began' = [began EXCEPT ![t] = resets]
    /\ Goto(t, IF Hosted THEN "hosted" ELSE "peek")
    /\ UNCHANGED <<settings, cached, lock, result, built, resets>>

\* Hosted mode builds a bundle and returns it without a look at the cache, or
\* raises: there is nothing to build one from, no token is bound to the request, or
\* a constructor of the SDK fails.
BuildHosted(t) ==
    /\ pc[t] = "hosted"
    /\ \/ /\ \E bundle \in NewBundles(t) : result' = [result EXCEPT ![t] = bundle]
          /\ built' = built + 1
          /\ Goto(t, "returned")
       \/ /\ Goto(t, "failed")
          /\ UNCHANGED <<result, built>>
    /\ UNCHANGED <<settings, cached, lock, resets, since, began>>

Peek(t) ==
    /\ pc[t] = "peek"
    /\ Goto(t, IF cached # NoClients THEN "hit" ELSE "wait")
    /\ UNCHANGED <<settings, cached, lock, result, built, resets, since, began>>

\* `return _cached_clients` reads the global without the lock.
Return(t) ==
    /\ pc[t] \in {"hit", "miss"}
    /\ result' = [result EXCEPT ![t] = cached]
    /\ Goto(t, "returned")
    /\ UNCHANGED <<settings, cached, lock, built, resets, since, began>>

\* Mutant: the lock is not taken.
AcquireNothing(t) ==
    /\ pc[t] = "wait"
    /\ Goto(t, "check")
    /\ UNCHANGED <<settings, cached, lock, result, built, resets, since, began>>

Acquire(t) ==
    /\ pc[t] = "wait"
    /\ lock = Free
    /\ lock' = t
    /\ Goto(t, "check")
    /\ UNCHANGED <<settings, cached, result, built, resets, since, began>>

\* Mutant: the second check is missing.
CheckNothing(t) ==
    /\ pc[t] = "check"
    /\ Goto(t, "create")
    /\ began' = [began EXCEPT ![t] = resets]
    /\ UNCHANGED <<settings, cached, lock, result, built, resets, since>>

Check(t) ==
    /\ pc[t] = "check"
    /\ Goto(t, IF cached = NoClients THEN "create" ELSE "release")
    /\ began' = [began EXCEPT ![t] = resets]
    /\ UNCHANGED <<settings, cached, lock, result, built, resets, since>>

\* Mutant: a failed construction is swallowed.
CreateSwallowing(t) ==
    /\ pc[t] = "create"
    /\ \/ /\ cached' \in NewBundles(t)
          /\ built' = built + 1
       \/ UNCHANGED <<cached, built>>
    /\ Goto(t, "release")
    /\ UNCHANGED <<settings, lock, result, resets, since, began>>

\* create_azure_clients under the lock: it fills the cache or raises.
Create(t) ==
    /\ pc[t] = "create"
    /\ \/ /\ cached' \in NewBundles(t)
          /\ built' = built + 1
          /\ Goto(t, "release")
       \/ /\ Goto(t, "unwind")
          /\ UNCHANGED <<cached, built>>
    /\ UNCHANGED <<settings, lock, result, resets, since, began>>

\* Mutant: an exception leaves the lock behind.
ReleaseOnSuccess(t) ==
    /\ pc[t] \in {"release", "unwind"}
    /\ lock' = IF pc[t] = "release" THEN Free ELSE lock
    /\ Goto(t, IF pc[t] = "release" THEN "miss" ELSE "failed")
    /\ UNCHANGED <<settings, cached, result, built, resets, since, began>>

\* The `with` block gives the lock back, also when an exception leaves it.
Release(t) ==
    /\ pc[t] \in {"release", "unwind"}
    /\ lock' = Free
    /\ Goto(t, IF pc[t] = "release" THEN "miss" ELSE "failed")
    /\ UNCHANGED <<settings, cached, result, built, resets, since, began>>

\* Mutant: the reset does not take the lock.
ResetWithoutLock ==
    /\ resets < MaxResets
    /\ cached' = NoClients
    /\ resets' = resets + 1
    /\ UNCHANGED <<settings, lock, pc, result, built, since, began>>

\* Under the lock nothing but one assignment happens, so this is one step.
ResetClientCache ==
    /\ resets < MaxResets
    /\ lock = Free
    /\ cached' = NoClients
    /\ resets' = resets + 1
    /\ UNCHANGED <<settings, lock, pc, result, built, since, began>>

Getting(t) ==
    \/ BuildHosted(t) \/ Peek(t) \/ Return(t)
    \/ Acquire(t) \/ Check(t) \/ Create(t) \/ Release(t)

Next ==
    \/ \E t \in Threads : Call(t) \/ Getting(t)
    \/ ResetClientCache

Spec == Init /\ [][Next]_vars

\* Threads are scheduled; each takes the lock once and never blocks under it.
FairSpec == Spec /\ \A t \in Threads : WF_vars(Getting(t))

-----------------------------------------------------------------------------
(***************************************************************************)
(* Properties.                                                             *)
(***************************************************************************)

\* "create_azure_clients is called exactly once even under concurrent requests"
\* (src/azure_clients.py:209): in local mode racing requests share one bundle,
\* and only a reset costs another one.
RebuildOnlyAfterReset == ~Hosted => built <= resets + 1

\* A reset "forces the next call to rebuild all clients from scratch"
\* (src/azure_clients.py:236): a request that starts after a reset never gets a
\* bundle whose construction began before it, not from a slow racer either.
FreshAfterReset ==
    ~Hosted =>
        \A t \in Threads : result[t] # NoClients => result[t].epoch >= since[t]

\* None is returned only to a request that a reset overtook.
NoneOnlyUnderReset ==
    \A t \in Threads :
        pc[t] = "returned" /\ result[t] = NoClients => since[t] < resets

\* A bundle acts for the identity its settings name: in hosted mode for the user of
\* the request it was built for, and none is ever left in the cache for somebody
\* else; in local mode an incomplete service principal yields no bundle at all "to
\* prevent silent misconfiguration" (src/auth.py:16).
OwnIdentity ==
    /\ Hosted => cached = NoClients
    /\ \A t \in Threads : result[t] # NoClients =>
           result[t].identity =
               IF Hosted THEN t ELSE IF settings.principal = {} THEN Ambient ELSE Principal

\* Every request gets its clients or its error, after failed constructions too.
EveryCallEnds ==
    \A t \in Threads : pc[t] = "peek" ~> pc[t] \in {"returned", "failed"}
=============================================================================
