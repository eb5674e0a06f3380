----------------------- MODULE AzureClientsCacheProofs -----------------------
(***************************************************************************)
(* Proofs about AzureClientsCache for any number of requests and resets.   *)
(***************************************************************************)
EXTENDS AzureClientsCache, TLAPS

\* The identity the settings name for a request.
NamedIdentity(t) ==
    IF Hosted THEN t ELSE IF settings.principal = {} THEN Ambient ELSE Principal

\* What the cache holds was begun after the last reset, for the local identity.
CacheIsCurrent ==
    cached # NoClients =>
        /\ ~Hosted
        /\ cached.epoch = resets
        /\ cached.identity = IF settings.principal = {} THEN Ambient ELSE Principal

\* A reset pays for the next construction.
BuildsArePaid ==
    ~Hosted => built <= resets + 1 /\ (cached = NoClients => built <= resets)

\* Requests take the path of their mode.
OnItsPath(t) ==
    /\ pc[t] = "hosted" => Hosted
    /\ pc[t] \in {"peek", "hit", "wait", "check", "create", "release", "miss", "unwind"} => ~Hosted

\* What a request inside the function has seen of the cache, and what of it a
\* reset can have taken away since.
SeesCache(t) ==
    /\ since[t] <= resets
    /\ pc[t] = "create" => cached = NoClients /\ began[t] = resets
    /\ pc[t] = "hosted" => began[t] >= since[t]
    /\ pc[t] = "release" => cached # NoClients
    /\ pc[t] \in {"hit", "miss"} => cached # NoClients \/ since[t] < resets

\* What a request was given.
GivenRightly(t) ==
    /\ result[t] # NoClients =>
           /\ pc[t] = "returned"
           /\ result[t].identity = NamedIdentity(t)
           /\ result[t].epoch >= since[t]
    /\ pc[t] = "returned" /\ result[t] = NoClients => since[t] < resets

\* The inductive invariant.
IInv ==
    /\ TypeOK /\ CacheIsCurrent /\ BuildsArePaid
    /\ \A t \in Threads : OnItsPath(t) /\ SeesCache(t) /\ GivenRightly(t)

-----------------------------------------------------------------------------
\* The initial state satisfies the invariant.
LEMMA InitIInv == Init => IInv
<1> SUFFICES ASSUME Init PROVE IInv
  OBVIOUS
<1> USE ThreadsAssumption, MaxResetsAssumption
<1>1. TypeOK
  BY DEF Init, TypeOK, PCs
<1>2. CacheIsCurrent /\ BuildsArePaid
  BY DEF Init, CacheIsCurrent, BuildsArePaid
<1>3. ASSUME NEW t \in Threads PROVE OnItsPath(t) /\ SeesCache(t) /\ GivenRightly(t)
  <2>1. /\ pc[t] = "idle" /\ result[t] = NoClients
        /\ since[t] = 0 /\ began[t] = 0 /\ resets = 0
    BY DEF Init
  <2>2. OnItsPath(t) /\ SeesCache(t)
    BY <2>1 DEF OnItsPath, SeesCache
  <2>3. GivenRightly(t)
    BY <2>1 DEF GivenRightly
  <2>4. QED
    BY <2>2, <2>3
<1>4. QED
  BY <1>1, <1>2, <1>3 DEF IInv

\* A bundle is a value of its type, never None, and acts for the identity that the
\* settings name.
LEMMA NewBundleIs ==
  ASSUME TypeOK, NEW t \in Threads, NEW bundle \in NewBundles(t)
  PROVE  /\ bundle \in Bundle /\ bundle # NoClients
         /\ bundle.epoch = began[t]
         /\ bundle.identity = NamedIdentity(t)
<1> USE ThreadsAssumption, MaxResetsAssumption
<1>1. settings \in Settings /\ began[t] \in 0..MaxResets /\ built + 1 \in Nat
  BY DEF TypeOK
<1>2. bundle \in [identity: Credential(t), number: {built + 1}, epoch: {began[t]}]
  BY DEF NewBundles
<1>3. Credential(t) \subseteq {NamedIdentity(t)}
  BY DEF Credential, NamedIdentity, Hosted, PrincipalFields
<1>4. NamedIdentity(t) \in Identities
  BY DEF NamedIdentity, Identities
<1>5. bundle \in Bundle
  BY <1>1, <1>2, <1>3, <1>4 DEF Bundle
<1>6. bundle \in [identity: Threads \cup {Principal, Ambient}, number: Nat, epoch: Nat]
  BY <1>5 DEF Bundle, Identities
<1>7. bundle # NoClients
  BY <1>6, NoClientsAssumption
<1>8. QED
  BY <1>2, <1>3, <1>5, <1>7

\* Every step of a request keeps the types.
LEMMA ThreadTypeOK ==
  ASSUME TypeOK, NEW t \in Threads, Call(t) \/ Getting(t)
  PROVE  TypeOK'
<1> USE ThreadsAssumption, MaxResetsAssumption DEF TypeOK, Goto, PCs
<1>1. CASE Call(t)
  BY <1>1 DEF Call
<1>2. CASE BuildHosted(t)
  <2>1. result' \in [Threads -> Bundle \cup {NoClients}] /\ built' \in Nat
    BY <1>2, NewBundleIs DEF BuildHosted
  <2>2. QED
    BY <1>2, <2>1 DEF BuildHosted
<1>3. CASE Peek(t)
  BY <1>3 DEF Peek
<1>4. CASE Return(t)
  BY <1>4 DEF Return
<1>5. CASE Acquire(t)
  BY <1>5 DEF Acquire
<1>6. CASE Check(t)
  BY <1>6 DEF Check
<1>7. CASE Create(t)
  <2>1. cached' \in Bundle \cup {NoClients} /\ built' \in Nat
    BY <1>7, NewBundleIs DEF Create
  <2>2. QED
    BY <1>7, <2>1 DEF Create
<1>8. CASE Release(t)
  BY <1>8 DEF Release
<1>9. QED
  BY <1>1, <1>2, <1>3, <1>4, <1>5, <1>6, <1>7, <1>8 DEF Getting

\* Every step keeps the types.
LEMMA NextTypeOK == TypeOK /\ [Next]_vars => TypeOK'
<1> SUFFICES ASSUME TypeOK, [Next]_vars PROVE TypeOK'
  OBVIOUS
<1>1. ASSUME NEW t \in Threads, Call(t) \/ Getting(t) PROVE TypeOK'
  BY <1>1, ThreadTypeOK
<1>2. CASE ResetClientCache
  BY <1>2, MaxResetsAssumption DEF ResetClientCache, TypeOK
<1>3. CASE UNCHANGED vars
  BY <1>3 DEF vars, TypeOK
<1>4. QED
  BY <1>1, <1>2, <1>3 DEF Next

-----------------------------------------------------------------------------
\* A step of a request leaves the cache alone, or fills an empty one that it holds
\* the lock of; it touches nothing of another request.
LEMMA StepFrame ==
  ASSUME TypeOK, NEW t \in Threads, Call(t) \/ Getting(t)
  PROVE  /\ settings' = settings /\ resets' = resets
         /\ \/ cached' = cached
            \/ pc[t] = "create" /\ cached' \in NewBundles(t) /\ built' = built + 1
         /\ \/ built' = built
            \/ pc[t] = "hosted"
            \/ pc[t] = "create" /\ cached' \in NewBundles(t) /\ built' = built + 1
         /\ \A q \in Threads \ {t} :
              /\ pc'[q] = pc[q] /\ result'[q] = result[q]
              /\ since'[q] = since[q] /\ began'[q] = began[q]
<1> USE DEF TypeOK, Goto
<1>1. CASE Call(t)
  BY <1>1 DEF Call
<1>2. CASE BuildHosted(t)
  BY <1>2 DEF BuildHosted
<1>3. CASE Peek(t) \/ Return(t)
  BY <1>3 DEF Peek, Return
<1>4. CASE Acquire(t) \/ Check(t) \/ Release(t)
  BY <1>4 DEF Acquire, Check, Release
<1>5. CASE Create(t)
  BY <1>5 DEF Create
<1>6. QED
  BY <1>1, <1>2, <1>3, <1>4, <1>5 DEF Getting

\* A step of a request keeps what is said of the cache.
LEMMA ThreadKeepsCache ==
  ASSUME IInv, NEW t \in Threads, Call(t) \/ Getting(t)
  PROVE  CacheIsCurrent' /\ BuildsArePaid'
<1> USE MaxResetsAssumption DEF IInv
<1>1. /\ settings' = settings /\ resets' = resets /\ Hosted' = Hosted
      /\ resets \in Nat /\ built \in Nat
  BY StepFrame DEF TypeOK, Hosted
<1>2. CASE cached' = cached /\ built' = built
  BY <1>1, <1>2 DEF CacheIsCurrent, BuildsArePaid
<1>3. CASE pc[t] = "create" /\ cached' \in NewBundles(t) /\ built' = built + 1
  <2>1. ~Hosted /\ cached = NoClients /\ began[t] = resets
    BY <1>3 DEF OnItsPath, SeesCache
  <2>2. cached' # NoClients /\ cached'.epoch = resets /\ cached'.identity = NamedIdentity(t)
    BY <1>3, <2>1, NewBundleIs
  <2>3. CacheIsCurrent'
    BY <1>1, <2>1, <2>2 DEF CacheIsCurrent, NamedIdentity
  <2>4. BuildsArePaid'
    BY <1>1, <1>3, <2>1, <2>2 DEF BuildsArePaid
  <2>5. QED
    BY <2>3, <2>4
<1>4. CASE pc[t] = "hosted" /\ cached' = cached
  <2>1. Hosted
    BY <1>4 DEF OnItsPath
  <2>2. QED
    BY <1>1, <1>4, <2>1 DEF CacheIsCurrent, BuildsArePaid
<1>5. QED
  BY <1>2, <1>3, <1>4, StepFrame

\* A step of a request keeps what is said of another one.
LEMMA ThreadKeepsOthers ==
  ASSUME IInv, NEW t \in Threads, NEW q \in Threads \ {t}, Call(t) \/ Getting(t)
  PROVE  OnItsPath(q)' /\ SeesCache(q)' /\ GivenRightly(q)'
<1> USE DEF IInv
<1>1. /\ settings' = settings /\ resets' = resets /\ Hosted' = Hosted
      /\ pc'[q] = pc[q] /\ result'[q] = result[q]
      /\ since'[q] = since[q] /\ began'[q] = began[q]
  BY StepFrame DEF Hosted
<1>2. OnItsPath(q)' /\ GivenRightly(q)'
  BY <1>1 DEF OnItsPath, GivenRightly, NamedIdentity
<1>3. SeesCache(q)'
  <2>1. CASE cached' = cached
    BY <1>1, <2>1 DEF SeesCache
  <2>2. CASE pc[t] = "create" /\ cached' \in NewBundles(t)
    <3>1. cached' # NoClients
      BY <2>2, NewBundleIs
    <3>2. pc[q] # "create"
      BY <2>2 DEF TypeOK
    <3>3. QED
      BY <1>1, <3>1, <3>2 DEF SeesCache
  <2>3. QED
    BY <2>1, <2>2, StepFrame
<1>4. QED
  BY <1>2, <1>3

\* A step of a request keeps what is said of itself.
LEMMA ThreadKeepsItself ==
  ASSUME IInv, TypeOK', NEW t \in Threads, Call(t) \/ Getting(t)
  PROVE  OnItsPath(t)' /\ SeesCache(t)' /\ GivenRightly(t)'
<1> USE MaxResetsAssumption DEF IInv, Goto
<1>1. settings' = settings /\ resets' = resets /\ Hosted' = Hosted /\ NamedIdentity(t)' = NamedIdentity(t)
  BY StepFrame DEF Hosted, NamedIdentity
<1>2. resets \in Nat /\ since[t] \in Nat /\ began[t] \in Nat
  BY DEF TypeOK
<1>3. OnItsPath(t) /\ SeesCache(t) /\ GivenRightly(t)
  OBVIOUS
<1>4. CASE Call(t)
  <2>1. /\ since'[t] = resets /\ began'[t] = resets /\ result'[t] = result[t]
        /\ pc[t] = "idle" /\ pc'[t] = IF Hosted THEN "hosted" ELSE "peek"
    BY <1>4 DEF Call, TypeOK
  <2>2. result[t] = NoClients
    BY <1>3, <2>1 DEF GivenRightly
  <2>3. QED
    BY <1>1, <1>2, <2>1, <2>2 DEF OnItsPath, SeesCache, GivenRightly
<1>5. CASE BuildHosted(t)
  <2>1. UNCHANGED <<since, began>> /\ pc[t] = "hosted" /\ pc'[t] \in {"returned", "failed"}
    BY <1>5 DEF BuildHosted, TypeOK
  <2>2. \/ pc'[t] = "failed" /\ result'[t] = result[t]
        \/ result'[t] \in NewBundles(t) /\ pc'[t] = "returned"
    BY <1>5 DEF BuildHosted, TypeOK
  <2>3. result[t] = NoClients /\ began[t] >= since[t]
    BY <1>3, <2>1 DEF GivenRightly, SeesCache
  <2>4. CASE result'[t] \in NewBundles(t) /\ pc'[t] = "returned"
    <3>1. /\ result'[t] # NoClients /\ result'[t].epoch = began[t]
          /\ result'[t].identity = NamedIdentity(t)
      BY <2>4, NewBundleIs
    <3>2. QED
      BY <1>1, <1>2, <1>3, <2>1, <2>3, <2>4, <3>1 DEF OnItsPath, SeesCache, GivenRightly
  <2>5. CASE pc'[t] = "failed" /\ result'[t] = result[t]
    BY <1>1, <1>2, <1>3, <2>1, <2>3, <2>5 DEF OnItsPath, SeesCache, GivenRightly
  <2>6. QED
    BY <2>2, <2>4, <2>5
<1>6. CASE Return(t)
  <2>1. /\ UNCHANGED <<cached, since, began>> /\ pc[t] \in {"hit", "miss"}
        /\ pc'[t] = "returned" /\ result'[t] = cached
    BY <1>6 DEF Return, TypeOK
  <2>2. ~Hosted /\ (cached # NoClients \/ since[t] < resets)
    BY <1>3, <2>1 DEF OnItsPath, SeesCache
  <2>3. cached # NoClients => cached.epoch = resets /\ cached.identity = NamedIdentity(t)
    BY <2>2 DEF CacheIsCurrent, NamedIdentity
  <2>4. QED
    BY <1>1, <1>2, <1>3, <2>1, <2>2, <2>3 DEF OnItsPath, SeesCache, GivenRightly
<1>7. CASE Peek(t) \/ Acquire(t) \/ Check(t) \/ Create(t) \/ Release(t)
  <2>1. /\ UNCHANGED <<result, since>>
        /\ pc[t] \in {"peek", "wait", "check", "create", "release", "unwind"}
        /\ pc'[t] \notin {"idle", "hosted", "returned"}
    BY <1>7 DEF Peek, Acquire, Check, Create, Release, TypeOK
  <2>2. OnItsPath(t)' /\ GivenRightly(t)'
    BY <1>1, <1>3, <2>1 DEF OnItsPath, GivenRightly
  <2>3. SeesCache(t)'
    <3>1. CASE Peek(t) \/ Acquire(t)
      BY <1>1, <1>2, <1>3, <2>1, <3>1 DEF Peek, Acquire, TypeOK, SeesCache
    <3>2. CASE Check(t)
      BY <1>1, <1>2, <1>3, <2>1, <3>2 DEF Check, TypeOK, SeesCache
    <3>3. CASE Create(t)
      <4>1. \/ pc'[t] = "unwind"
            \/ pc'[t] = "release" /\ cached' \in NewBundles(t)
        BY <3>3 DEF Create, TypeOK
      <4>2. pc'[t] = "release" => cached' # NoClients
        BY <4>1, NewBundleIs
      <4>3. QED
        BY <1>1, <1>2, <1>3, <2>1, <4>1, <4>2 DEF SeesCache
    <3>4. CASE Release(t)
      BY <1>1, <1>2, <1>3, <2>1, <3>4 DEF Release, TypeOK, SeesCache
    <3>5. QED
      BY <1>7, <3>1, <3>2, <3>3, <3>4
  <2>4. QED
    BY <2>2, <2>3
<1>8. QED
  BY <1>4, <1>5, <1>6, <1>7 DEF Getting

\* A reset finds the lock free, so that nobody is between check and release.
LEMMA ResetKeeps ==
  ASSUME IInv, ResetClientCache
  PROVE  /\ CacheIsCurrent' /\ BuildsArePaid'
         /\ \A t \in Threads : OnItsPath(t)' /\ SeesCache(t)' /\ GivenRightly(t)'
<1> USE ThreadsAssumption, MaxResetsAssumption DEF IInv
<1>1. /\ cached' = NoClients /\ resets' = resets + 1 /\ Hosted' = Hosted
      /\ UNCHANGED <<settings, pc, result, built, since, began>>
      /\ resets \in Nat /\ built \in Nat
  BY DEF ResetClientCache, TypeOK, Hosted
<1>2. CacheIsCurrent' /\ BuildsArePaid'
  BY <1>1 DEF CacheIsCurrent, BuildsArePaid
<1>3. ASSUME NEW t \in Threads PROVE OnItsPath(t)' /\ SeesCache(t)' /\ GivenRightly(t)'
  <2>1. pc[t] \notin {"check", "create", "release", "unwind"} /\ since[t] \in Nat
    BY DEF ResetClientCache, TypeOK
  <2>2. OnItsPath(t)'
    BY <1>1 DEF OnItsPath
  <2>3. SeesCache(t)'
    BY <1>1, <2>1 DEF SeesCache
  <2>4. GivenRightly(t)'
    BY <1>1, <2>1 DEF GivenRightly, NamedIdentity, SeesCache
  <2>5. QED
    BY <2>2, <2>3, <2>4
<1>4. QED
  BY <1>2, <1>3

\* Every step keeps the invariant.
LEMMA NextIInv == IInv /\ [Next]_vars => IInv'
<1> SUFFICES ASSUME IInv, [Next]_vars PROVE IInv'
  OBVIOUS
<1>1. TypeOK'
  BY NextTypeOK DEF IInv
<1>2. ASSUME NEW t \in Threads, Call(t) \/ Getting(t) PROVE IInv'
  <2>1. ASSUME NEW q \in Threads PROVE OnItsPath(q)' /\ SeesCache(q)' /\ GivenRightly(q)'
    BY <1>1, <1>2, ThreadKeepsItself, ThreadKeepsOthers
  <2>2. QED
    BY <1>1, <1>2, <2>1, ThreadKeepsCache DEF IInv
<1>3. CASE ResetClientCache
  BY <1>1, <1>3, ResetKeeps DEF IInv
<1>4. CASE UNCHANGED vars
  BY <1>1, <1>4 DEF IInv, vars, CacheIsCurrent, BuildsArePaid, OnItsPath, SeesCache, GivenRightly,
                    NamedIdentity, Hosted
<1>5. QED
  BY <1>2, <1>3, <1>4 DEF Next

-----------------------------------------------------------------------------
\* The inductive invariant holds in every behaviour.
THEOREM Inductive == Spec => []IInv
<1>1. QED
  BY InitIInv, NextIInv, PTL DEF Spec

\* Every variable keeps its type, and the lock has the owner its pc says.
THEOREM TypeCorrect == Spec => []TypeOK
<1>1. IInv => TypeOK
  BY DEF IInv
<1>2. QED
  BY <1>1, Inductive, PTL

\* In local mode a bundle is built once, and once more for each reset, however many
\* requests race for it (get_azure_clients).
THEOREM BuiltOnce == Spec => []RebuildOnlyAfterReset
<1>1. IInv => RebuildOnlyAfterReset
  BY DEF IInv, BuildsArePaid, RebuildOnlyAfterReset
<1>2. QED
  BY <1>1, Inductive, PTL

\* No request gets a bundle begun before a reset that it started after.
THEOREM Fresh == Spec => []FreshAfterReset
<1>1. IInv => FreshAfterReset
  BY DEF IInv, GivenRightly, FreshAfterReset
<1>2. QED
  BY <1>1, Inductive, PTL

\* A request is returned None only if a reset overtook it.
THEOREM NoneExplained == Spec => []NoneOnlyUnderReset
<1>1. IInv => NoneOnlyUnderReset
  BY DEF IInv, GivenRightly, NoneOnlyUnderReset
<1>2. QED
  BY <1>1, Inductive, PTL

\* A bundle acts for the identity its settings name, and a hosted one is not cached.
THEOREM IdentityIsNamed == Spec => []OwnIdentity
<1>1. IInv => OwnIdentity
  BY DEF IInv, CacheIsCurrent, GivenRightly, NamedIdentity, OwnIdentity
<1>2. QED
  BY <1>1, Inductive, PTL
=============================================================================
