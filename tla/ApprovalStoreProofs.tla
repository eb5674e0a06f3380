------------------------- MODULE ApprovalStoreProofs -------------------------
(***************************************************************************)
(* Proofs about ApprovalStore for any number of identifiers, planners,     *)
(* callers and requests, any lifetime and any bound on the clock.          *)
(***************************************************************************)
EXTENDS ApprovalStore, TLAPS

\* A thread past the acquisition holds the lock.
LockOwner ==
    \A t \in Threads : pc[t] \in {"locked", "cleared", "release"} => lock = t

\* The history agrees with what is stored, and only stored receipts are spent.
StoreMatchesHistory ==
    /\ \A id \in Ids : plans[id] # NoPlan => issued[id] = plans[id]
    /\ \A id \in consumed : plans[id] # NoPlan

\* A plan on its way into the store was stamped no later than now, and never
\* carries an identifier that a restart retired.
PendingIsFresh ==
    \A p \in Planners : pc[p] \in {"built", "locked"} =>
        /\ ~Retired(ticket[p].id)
        /\ ticket[p].at <= clock + Ttl

\* A caller has no verdict before it leaves the checks.
UndecidedHasNoVerdict ==
    \A c \in Callers : pc[c] \in {"idle", "asked", "locked", "cleared"} => verdict[c] = "none"

\* Between its last check and the consumption a caller's receipt is untouched.
ClearedStillPasses ==
    \A c \in Callers : pc[c] = "cleared" =>
        Refusal(ticket[c].id, ticket[c].request, ticket[c].at) = "none"

\* An approved receipt stays spent until the process that knew it is gone.
GrantedIsSpent ==
    \A c \in Callers : verdict[c] = "approved" =>
        ticket[c].id \in consumed \/ plans[ticket[c].id] = NoPlan

\* A caller that was told of expiry had read the clock after it.
ExpiredIsLate ==
    \A c \in Callers : verdict[c] = "approval_expired" =>
        /\ issued[ticket[c].id] # NoPlan
        /\ ticket[c].at > issued[ticket[c].id].expires

\* The inductive invariant.
IInv ==
    /\ TypeOK
    /\ LockOwner
    /\ StoreMatchesHistory
    /\ PendingIsFresh
    /\ UndecidedHasNoVerdict
    /\ ClearedStillPasses
    /\ GrantedIsSpent
    /\ ExpiredIsLate
    /\ GrantHonoursPlan
    /\ AtMostOneGrant
    /\ SpentOnlyByGrant

-----------------------------------------------------------------------------
\* The assumptions on the constants, under one name.
Assumptions ==
    /\ Ttl \in Nat \ {0}
    /\ MaxClock \in Nat
    /\ Planners \cap Callers = {}
    /\ Free \notin Threads
    /\ NoPlan \notin Plan

LEMMA ConstantsOK == Assumptions
  BY TtlAssumption, MaxClockAssumption, ThreadsAssumption, NoPlanAssumption
  DEF Assumptions, Threads, Plan, Times

-----------------------------------------------------------------------------
(***************************************************************************)
(* Types.                                                                  *)
(***************************************************************************)

\* The initial store is well-typed.
LEMMA InitTypeOK == Init => TypeOK
  BY ConstantsOK DEF Assumptions, Init, TypeOK, PCs, InFlight, Threads

\* Every step keeps the types, and keeps a receipt's lifetime within Ttl.
LEMMA NextTypeOK == TypeOK /\ [Next]_vars => TypeOK'
<1> SUFFICES ASSUME TypeOK, [Next]_vars PROVE TypeOK'
  OBVIOUS
<1> USE ConstantsOK DEF Assumptions, TypeOK, PCs, InFlight
<1>1. ASSUME NEW p \in Planners, NEW id \in Ids, NEW request \in Requests, BuildPlan(p, id, request)
      PROVE TypeOK'
  <2>1. [id |-> id, request |-> request, at |-> clock + Ttl] \in Ticket
    BY DEF Ticket, Times
  <2>2. QED
    BY <1>1, <2>1 DEF BuildPlan, Goto, Threads
<1>2. ASSUME NEW p \in Planners, StorePlan(p) PROVE TypeOK'
  <2>1. ticket[p] \in Ticket
    BY <1>2 DEF StorePlan, Threads
  <2>2. [request |-> ticket[p].request, expires |-> ticket[p].at] \in Plan
    BY <2>1 DEF Ticket, Plan
  <2>3. QED
    BY <1>2, <2>1, <2>2 DEF StorePlan, Goto, Threads, Ticket
<1>3. ASSUME NEW c \in Callers, NEW id \in Ids, NEW request \in Requests, Ask(c, id, request)
      PROVE TypeOK'
  <2>1. [id |-> id, request |-> request, at |-> clock] \in Ticket
    BY DEF Ticket, Times
  <2>2. QED
    BY <1>3, <2>1 DEF Ask, Goto, Threads
<1>4. ASSUME NEW c \in Callers, Examine(c) PROVE TypeOK'
  <2>1. Refusal(ticket[c].id, ticket[c].request, ticket[c].at) \in Refusals \cup {"none"}
    BY DEF Refusal, Refusals
  <2>2. ticket[c] \in Ticket
    BY <1>4 DEF Examine, Threads
  <2>3. QED
    BY <1>4, <2>1, <2>2 DEF Examine, Goto, Threads
<1>5. ASSUME NEW c \in Callers, Spend(c) PROVE TypeOK'
  <2>1. ticket[c] \in Ticket
    BY <1>5 DEF Spend, Threads
  <2>2. QED
    BY <1>5, <2>1 DEF Spend, Goto, Threads, Ticket
<1>6. ASSUME NEW t \in Threads,
             \/ t \in Planners /\ Acquire(t, "built")
             \/ t \in Callers /\ Acquire(t, "asked")
      PROVE TypeOK'
  BY <1>6 DEF Acquire, Goto
<1>7. ASSUME NEW t \in Threads, Release(t) PROVE TypeOK'
  BY <1>7 DEF Release, Goto, Threads
<1>8. CASE Tick
  BY <1>8 DEF Tick
<1>9. CASE Restart
  BY <1>9 DEF Restart, Answered, Threads
<1>10. CASE UNCHANGED vars
  BY <1>10 DEF vars
<1>11. QED
  BY <1>1, <1>2, <1>3, <1>4, <1>5, <1>6, <1>7, <1>8, <1>9, <1>10
  DEF Next, Issuing, Consuming, Threads

\* The type invariant holds for every value of the constants.
THEOREM TypeCorrect == Spec => []TypeOK
<1>1. QED
  BY InitTypeOK, NextTypeOK, PTL DEF Spec

-----------------------------------------------------------------------------
(***************************************************************************)
(* The inductive invariant.  One lemma per action: it assumes IInv and the *)
(* types of the next state, and shows the conjuncts the action disturbs.   *)
(***************************************************************************)

\* Everything in IInv but the types.
Core ==
    /\ LockOwner
    /\ StoreMatchesHistory
    /\ PendingIsFresh
    /\ UndecidedHasNoVerdict
    /\ ClearedStillPasses
    /\ GrantedIsSpent
    /\ ExpiredIsLate
    /\ GrantHonoursPlan
    /\ AtMostOneGrant
    /\ SpentOnlyByGrant

\* The empty store satisfies the invariant.
LEMMA InitIInv == Init => IInv
  BY InitTypeOK, ConstantsOK
  DEF Assumptions, Init, IInv, LockOwner, StoreMatchesHistory, PendingIsFresh,
      UndecidedHasNoVerdict, ClearedStillPasses, GrantedIsSpent, ExpiredIsLate,
      GrantHonoursPlan, AtMostOneGrant, SpentOnlyByGrant, Threads

\* Building a plan touches no caller and picks no retired identifier.
LEMMA BuildPlanCore ==
  ASSUME IInv, NEW p \in Planners, NEW id \in Ids, NEW request \in Requests,
         BuildPlan(p, id, request)
  PROVE  Core'
  BY ConstantsOK
  DEF Assumptions, BuildPlan, Goto, IInv, Core, TypeOK, LockOwner, StoreMatchesHistory,
      PendingIsFresh, UndecidedHasNoVerdict, ClearedStillPasses, GrantedIsSpent,
      ExpiredIsLate, GrantHonoursPlan, AtMostOneGrant, SpentOnlyByGrant, Threads,
      Retired, Refusal

\* A caller that starts has no verdict, so its new arguments bind nobody.
LEMMA AskCore ==
  ASSUME IInv, NEW c \in Callers, NEW id \in Ids, NEW request \in Requests,
         Ask(c, id, request)
  PROVE  Core'
  BY ConstantsOK
  DEF Assumptions, Ask, Goto, IInv, Core, TypeOK, LockOwner, StoreMatchesHistory,
      PendingIsFresh, UndecidedHasNoVerdict, ClearedStillPasses, GrantedIsSpent,
      ExpiredIsLate, GrantHonoursPlan, AtMostOneGrant, SpentOnlyByGrant, Threads,
      Retired, Refusal

\* Taking the free lock: nobody else is past the acquisition.
LEMMA AcquireCore ==
  ASSUME IInv, NEW t \in Threads,
         \/ t \in Planners /\ Acquire(t, "built")
         \/ t \in Callers /\ Acquire(t, "asked")
  PROVE  Core'
<1> USE ConstantsOK DEF Assumptions, Acquire, Goto, TypeOK
<1>1. LockOwner' /\ StoreMatchesHistory' /\ SpentOnlyByGrant'
  BY DEF IInv, LockOwner, StoreMatchesHistory, SpentOnlyByGrant
<1>2. PendingIsFresh'
  BY DEF IInv, PendingIsFresh, Retired, Threads
<1>3. UndecidedHasNoVerdict'
  BY DEF IInv, UndecidedHasNoVerdict, Threads
<1>4. ClearedStillPasses'
  BY DEF IInv, ClearedStillPasses, Refusal, Threads
<1>5. GrantedIsSpent' /\ ExpiredIsLate' /\ GrantHonoursPlan' /\ AtMostOneGrant'
  BY DEF IInv, GrantedIsSpent, ExpiredIsLate, GrantHonoursPlan, AtMostOneGrant
<1>6. QED
  BY <1>1, <1>2, <1>3, <1>4, <1>5 DEF Core

\* Giving the lock back leaves verdicts and store alone.
LEMMA ReleaseCore ==
  ASSUME IInv, NEW t \in Threads, Release(t)
  PROVE  Core'
<1> USE ConstantsOK DEF Assumptions, Release, Goto, TypeOK
<1>1. LockOwner'
  BY DEF IInv, LockOwner
<1>2. StoreMatchesHistory' /\ SpentOnlyByGrant'
  BY DEF IInv, StoreMatchesHistory, SpentOnlyByGrant, Threads
<1>3. PendingIsFresh'
  BY DEF IInv, PendingIsFresh, Retired, Threads
<1>4. \A c \in Callers : ticket'[c] = ticket[c]
  BY DEF IInv, Threads
<1>5. UndecidedHasNoVerdict'
  BY DEF IInv, UndecidedHasNoVerdict, Threads
<1>6. ClearedStillPasses'
  BY <1>4 DEF IInv, ClearedStillPasses, Refusal, Threads
<1>7. GrantedIsSpent' /\ ExpiredIsLate' /\ GrantHonoursPlan' /\ AtMostOneGrant'
  BY <1>4 DEF IInv, GrantedIsSpent, ExpiredIsLate, GrantHonoursPlan, AtMostOneGrant
<1>8. QED
  BY <1>1, <1>2, <1>3, <1>5, <1>6, <1>7 DEF Core

\* Storing a plan: the lock keeps every caller out of its critical section,
\* and a new plan is stored only under an identifier that never had one.
LEMMA StorePlanCore ==
  ASSUME IInv, NEW p \in Planners, StorePlan(p)
  PROVE  Core'
  BY ConstantsOK
  DEF Assumptions, StorePlan, Goto, IInv, Core, TypeOK, LockOwner, StoreMatchesHistory,
      PendingIsFresh, UndecidedHasNoVerdict, ClearedStillPasses, GrantedIsSpent,
      ExpiredIsLate, GrantHonoursPlan, AtMostOneGrant, SpentOnlyByGrant, Threads,
      Retired, Refusal, InFlight, Ticket

\* The checks: the caller is cleared exactly when none of them refuses.
LEMMA ExamineCore ==
  ASSUME IInv, NEW c \in Callers, Examine(c)
  PROVE  Core'
  BY ConstantsOK
  DEF Assumptions, Examine, Goto, IInv, Core, TypeOK, LockOwner, StoreMatchesHistory,
      PendingIsFresh, UndecidedHasNoVerdict, ClearedStillPasses, GrantedIsSpent,
      ExpiredIsLate, GrantHonoursPlan, AtMostOneGrant, SpentOnlyByGrant, Threads,
      Retired, Refusal, InFlight, Ticket, Refusals

\* The consumption: the receipt was unspent, so nobody was approved with it.
LEMMA SpendCore ==
  ASSUME IInv, NEW c \in Callers, Spend(c)
  PROVE  Core'
<1> USE ConstantsOK DEF Assumptions, Spend, Goto, TypeOK
<1> DEFINE spent == ticket[c].id
<1>1. /\ pc[c] = "cleared"
      /\ lock = c
      /\ ticket[c] \in Ticket
      /\ verdict[c] = "none"
  BY DEF IInv, LockOwner, UndecidedHasNoVerdict, InFlight, Threads
<1>2. /\ spent \notin consumed
      /\ plans[spent] # NoPlan
      /\ issued[spent] = plans[spent]
      /\ ticket[c].request = plans[spent].request
      /\ ~(ticket[c].at > plans[spent].expires)
  BY <1>1 DEF IInv, ClearedStillPasses, StoreMatchesHistory, Refusal, Ticket
<1>3. ASSUME NEW d \in Callers, verdict[d] = "approved" PROVE ticket[d].id # spent
  BY <1>2, <1>3 DEF IInv, GrantedIsSpent
<1>4. LockOwner' /\ StoreMatchesHistory' /\ PendingIsFresh' /\ UndecidedHasNoVerdict'
  BY <1>1, <1>2
  DEF IInv, LockOwner, StoreMatchesHistory, PendingIsFresh, UndecidedHasNoVerdict,
      Retired, Threads, Ticket
<1>5. ClearedStillPasses'
  BY <1>1 DEF IInv, LockOwner, ClearedStillPasses, Threads
<1>6. GrantedIsSpent' /\ ExpiredIsLate' /\ SpentOnlyByGrant'
  BY <1>1 DEF IInv, GrantedIsSpent, ExpiredIsLate, SpentOnlyByGrant, Ticket
<1>7. GrantHonoursPlan'
  <2>1. ticket[c].at <= issued[spent].expires
    BY <1>1, <1>2 DEF IInv, Ticket, Plan, Times
  <2>2. QED
    BY <1>1, <1>2, <2>1 DEF IInv, GrantHonoursPlan
<1>8. AtMostOneGrant'
  BY <1>3 DEF IInv, AtMostOneGrant
<1>9. QED
  BY <1>4, <1>5, <1>6, <1>7, <1>8 DEF Core

\* A restart voids every receipt; the verdicts already given stand.
LEMMA RestartCore ==
  ASSUME IInv, Restart
  PROVE  Core'
<1> USE ConstantsOK DEF Assumptions, Restart, TypeOK
<1>1. \A t \in Threads : pc'[t] \in {"idle", "done", "lost"}
  BY DEF IInv
<1>2. \A c \in Callers : verdict[c] # "none" => ticket'[c] = ticket[c]
  BY DEF IInv, Answered, Threads
<1>3. LockOwner' /\ PendingIsFresh' /\ ClearedStillPasses'
  BY <1>1 DEF LockOwner, PendingIsFresh, ClearedStillPasses, Threads
<1>4. StoreMatchesHistory' /\ SpentOnlyByGrant'
  BY DEF StoreMatchesHistory, SpentOnlyByGrant
<1>5. UndecidedHasNoVerdict'
  BY <1>1 DEF IInv, UndecidedHasNoVerdict, Threads
<1>6. GrantedIsSpent'
  BY <1>2 DEF IInv, GrantedIsSpent, Ticket
<1>7. ExpiredIsLate' /\ GrantHonoursPlan'
  BY <1>2 DEF IInv, ExpiredIsLate, GrantHonoursPlan
<1>8. AtMostOneGrant'
  BY <1>2 DEF IInv, AtMostOneGrant
<1>9. QED
  BY <1>3, <1>4, <1>5, <1>6, <1>7, <1>8 DEF Core

\* Time passes, or nothing happens.
LEMMA IdleCore ==
  ASSUME IInv, Tick \/ UNCHANGED vars
  PROVE  Core'
<1> USE ConstantsOK DEF Assumptions, Tick, vars
<1>1. UNCHANGED <<plans, consumed, lock, pc, ticket, verdict, issued>> /\ clock <= clock'
  BY DEF IInv, TypeOK
<1>2. PendingIsFresh'
  <2> SUFFICES ASSUME NEW p \in Planners, pc'[p] \in {"built", "locked"}
               PROVE  ~Retired(ticket[p].id)' /\ ticket'[p].at <= clock' + Ttl
    BY DEF PendingIsFresh
  <2>1. ~Retired(ticket[p].id) /\ ticket[p].at <= clock + Ttl
    BY <1>1 DEF IInv, PendingIsFresh
  <2>2. ticket[p].at \in Nat /\ clock \in Nat /\ clock' \in Nat
    BY <1>1 DEF IInv, TypeOK, InFlight, Ticket, Times, Threads
  <2>3. QED
    BY <1>1, <2>1, <2>2 DEF Retired
<1>3. LockOwner' /\ StoreMatchesHistory' /\ UndecidedHasNoVerdict' /\ ClearedStillPasses'
  BY <1>1
  DEF IInv, LockOwner, StoreMatchesHistory, UndecidedHasNoVerdict, ClearedStillPasses, Refusal
<1>4. GrantedIsSpent' /\ ExpiredIsLate' /\ GrantHonoursPlan' /\ AtMostOneGrant' /\ SpentOnlyByGrant'
  BY <1>1
  DEF IInv, GrantedIsSpent, ExpiredIsLate, GrantHonoursPlan, AtMostOneGrant, SpentOnlyByGrant
<1>5. QED
  BY <1>2, <1>3, <1>4 DEF Core

\* Every step keeps the invariant.
LEMMA NextIInv == IInv /\ [Next]_vars => IInv'
<1> SUFFICES ASSUME IInv, [Next]_vars PROVE IInv'
  OBVIOUS
<1>1. TypeOK'
  BY NextTypeOK DEF IInv
<1>2. Core'
  BY BuildPlanCore, AskCore, AcquireCore, ReleaseCore, StorePlanCore, ExamineCore,
     SpendCore, RestartCore, IdleCore
  DEF Next, Issuing, Consuming, Threads
<1>3. QED
  BY <1>1, <1>2 DEF IInv, Core

\* The inductive invariant holds of every behaviour of the store.
THEOREM Inductive == Spec => []IInv
<1>1. QED
  BY InitIInv, NextIInv, PTL DEF Spec

\* No receipt authorises two requests, whatever the interleaving of the calls
\* and however often the process restarts.
THEOREM SingleUse == Spec => []AtMostOneGrant
<1>1. IInv => AtMostOneGrant
  BY DEF IInv
<1>2. QED
  BY <1>1, Inductive, PTL

\* Every approval is for the request the receipt was issued for, asked in time.
THEOREM Bound == Spec => []GrantHonoursPlan
<1>1. IInv => GrantHonoursPlan
  BY DEF IInv
<1>2. QED
  BY <1>1, Inductive, PTL

\* Refusals never burn a receipt.
THEOREM RefusalsAreFree == Spec => []SpentOnlyByGrant
<1>1. IInv => SpentOnlyByGrant
  BY DEF IInv
<1>2. QED
  BY <1>1, Inductive, PTL

\* Once expired for somebody, a receipt is expired for everybody who asks later.
THEOREM ExpiryFinal == Spec => []ExpiryIsFinal
<1>1. IInv => ExpiryIsFinal
  BY ConstantsOK DEF Assumptions, IInv, TypeOK, ExpiryIsFinal, ExpiredIsLate, GrantHonoursPlan,
     Ticket, Plan, Times
<1>2. QED
  BY <1>1, Inductive, PTL

-----------------------------------------------------------------------------
(***************************************************************************)
(* The store implements the abstract receipts.                             *)
(***************************************************************************)

\* Equal plans, consumption and history map to equal receipts.
LEMMA StatusUnchanged ==
  ASSUME UNCHANGED <<plans, consumed, issued>>
  PROVE  [id \in Ids |-> StatusOf(id)]' = [id \in Ids |-> StatusOf(id)]
  BY DEF StatusOf

\* The empty store maps to the initial abstract state.
LEMMA InitRefines == Init => Receipts!Init
  BY DEF Init, Receipts!Init, StatusOf, OutcomeOf, Threads

\* Under the mapping, the chain of early returns is the abstract verdict.
LEMMA RefusalIsVerdict ==
  ASSUME IInv, NEW id \in Ids, NEW request \in Requests, NEW at \in Times
  PROVE  LET refusal == Refusal(id, request, at)
             abstract == Receipts!Verdict(StatusOf(id), issued[id], request, at)
         IN  abstract = IF refusal = "none" THEN "approved" ELSE refusal
<1>1. plans[id] # NoPlan => issued[id] = plans[id] /\ issued[id] # NoPlan
  BY DEF IInv, StoreMatchesHistory
<1>2. id \in consumed => plans[id] # NoPlan
  BY DEF IInv, StoreMatchesHistory
<1>3. plans[id] # NoPlan => plans[id].expires \in Nat
  BY ConstantsOK DEF Assumptions, IInv, TypeOK, Plan, Times
<1>4. at \in Nat
  BY ConstantsOK DEF Assumptions, Times
<1>5. QED
  BY <1>1, <1>2, <1>3, <1>4 DEF Refusal, Receipts!Verdict, StatusOf

\* What the mapping needs besides IInv: a caller leaves the checks with a
\* verdict, and one that has not started or got lost presents nothing.
SilentHasNoTicket ==
    \A c \in Callers : verdict[c] = "none" =>
        /\ pc[c] \notin {"release", "done"}
        /\ pc[c] \in {"idle", "lost"} => ticket[c] = NoRequest

\* Every step keeps it.
LEMMA NextSilent ==
  ASSUME IInv, SilentHasNoTicket, [Next]_vars
  PROVE  SilentHasNoTicket'
<1> USE ConstantsOK DEF Assumptions, IInv, TypeOK, SilentHasNoTicket, Threads
<1>1. ASSUME NEW p \in Planners, NEW id \in Ids, NEW request \in Requests, BuildPlan(p, id, request)
      PROVE SilentHasNoTicket'
  BY <1>1 DEF BuildPlan, Goto
<1>2. ASSUME NEW p \in Planners, StorePlan(p) PROVE SilentHasNoTicket'
  BY <1>2 DEF StorePlan, Goto
<1>3. ASSUME NEW c \in Callers, NEW id \in Ids, NEW request \in Requests, Ask(c, id, request)
      PROVE SilentHasNoTicket'
  BY <1>3 DEF Ask, Goto
<1>4. ASSUME NEW c \in Callers, Examine(c) PROVE SilentHasNoTicket'
  BY <1>4 DEF Examine, Goto, Refusal
<1>5. ASSUME NEW c \in Callers, Spend(c) PROVE SilentHasNoTicket'
  BY <1>5 DEF Spend, Goto
<1>6. ASSUME NEW t \in Threads,
             \/ t \in Planners /\ Acquire(t, "built")
             \/ t \in Callers /\ Acquire(t, "asked")
      PROVE SilentHasNoTicket'
  BY <1>6 DEF Acquire, Goto
<1>7. ASSUME NEW t \in Threads, Release(t) PROVE SilentHasNoTicket'
  BY <1>7 DEF Release, Goto
<1>8. CASE Tick
  BY <1>8 DEF Tick
<1>9. CASE Restart
  BY <1>9 DEF Restart, Answered
<1>10. CASE UNCHANGED vars
  BY <1>10 DEF vars
<1>11. QED
  BY <1>1, <1>2, <1>3, <1>4, <1>5, <1>6, <1>7, <1>8, <1>9, <1>10
  DEF Next, Issuing, Consuming

\* Every step of the store is a step of the abstract receipts or a stutter.
LEMMA StepRefines ==
  ASSUME IInv, SilentHasNoTicket, [Next]_vars
  PROVE  [Receipts!Next]_(Receipts!vars)
<1> DEFINE Statuses == [id \in Ids |-> StatusOf(id)]
           Outcomes == [c \in Callers |-> OutcomeOf(c)]
           Tickets  == [c \in Callers |-> ticket[c]]
<1> USE ConstantsOK DEF Assumptions
<1>1. ASSUME UNCHANGED <<clock, plans, consumed, issued>>, Outcomes' = Outcomes, Tickets' = Tickets
      PROVE  UNCHANGED Receipts!vars
  BY <1>1, StatusUnchanged DEF Receipts!vars
<1>2. ASSUME NEW p \in Planners, NEW id \in Ids, NEW request \in Requests, BuildPlan(p, id, request)
      PROVE  UNCHANGED Receipts!vars
  <2>1. \A c \in Callers : pc'[c] = pc[c] /\ ticket'[c] = ticket[c] /\ verdict'[c] = verdict[c]
    BY <1>2 DEF BuildPlan, Goto, IInv, TypeOK, Threads
  <2>2. Outcomes' = Outcomes /\ Tickets' = Tickets
    BY <2>1 DEF OutcomeOf
  <2>3. QED
    BY <1>1, <1>2, <2>2 DEF BuildPlan
<1>3. ASSUME NEW p \in Planners, StorePlan(p)
      PROVE  Receipts!Next \/ UNCHANGED Receipts!vars
  <2> DEFINE t == ticket[p]
  <2>1. t \in Ticket /\ ~Retired(t.id) /\ t.at <= clock + Ttl
    BY <1>3 DEF StorePlan, IInv, TypeOK, InFlight, PendingIsFresh, Threads
  <2>2. \A c \in Callers : pc'[c] = pc[c] /\ ticket'[c] = ticket[c] /\ verdict'[c] = verdict[c]
    BY <1>3 DEF StorePlan, Goto, IInv, TypeOK, Threads
  <2>3. Outcomes' = Outcomes /\ Tickets' = Tickets
    BY <2>2 DEF OutcomeOf
  <2>4. CASE plans[t.id] # NoPlan
    BY <1>1, <1>3, <2>3, <2>4 DEF StorePlan
  <2>5. CASE plans[t.id] = NoPlan
    <3> DEFINE plan == [request |-> t.request, expires |-> t.at]
    <3>1. /\ plans' = [plans EXCEPT ![t.id] = plan]
          /\ issued' = [issued EXCEPT ![t.id] = plan]
          /\ UNCHANGED <<clock, consumed, ticket>>
      BY <1>3, <2>5 DEF StorePlan
    <3>2. t.id \in Ids /\ t.request \in Requests /\ t.at \in Times /\ plan \in Plan
      BY <2>1 DEF Ticket, Plan
    <3>3. issued[t.id] = NoPlan /\ t.id \notin consumed
      BY <2>1, <2>5 DEF Retired, IInv, StoreMatchesHistory
    <3>4. Statuses[t.id] = "none"
      BY <3>2, <3>3 DEF StatusOf
    <3>5. Statuses' = [Statuses EXCEPT ![t.id] = "live"]
      <4>1. plan # NoPlan
        BY <3>2
      <4>2. /\ plans'[t.id] = plan /\ issued'[t.id] = plan
            /\ \A id \in Ids \ {t.id} : plans'[id] = plans[id] /\ issued'[id] = issued[id]
        BY <3>1, <3>2 DEF IInv, TypeOK
      <4>3. StatusOf(t.id)' = "live"
        BY <3>1, <3>3, <4>1, <4>2 DEF StatusOf
      <4>4. \A id \in Ids \ {t.id} : StatusOf(id)' = StatusOf(id)
        BY <3>1, <4>2 DEF StatusOf
      <4>5. QED
        BY <3>1, <3>2, <4>3, <4>4
    <3>6. Receipts!Issue(t.id, t.request, t.at)
      BY <2>1, <2>3, <3>1, <3>4, <3>5 DEF Receipts!Issue
    <3>7. QED
      BY <3>2, <3>6 DEF Receipts!Next, Times
  <2>6. QED
    BY <2>4, <2>5
<1>4. ASSUME NEW c \in Callers, NEW id \in Ids, NEW request \in Requests, Ask(c, id, request)
      PROVE  Receipts!Next
  <2>1. verdict[c] = "none" /\ pc[c] = "idle"
    BY <1>4 DEF Ask, IInv, UndecidedHasNoVerdict
  <2>2. Outcomes[c] = "idle"
    BY <2>1 DEF OutcomeOf
  <2>3. Outcomes' = [Outcomes EXCEPT ![c] = "asked"]
    BY <1>4, <2>1 DEF Ask, Goto, OutcomeOf, IInv, TypeOK, Threads
  <2>4. Tickets' = [Tickets EXCEPT ![c] = [id |-> id, request |-> request, at |-> clock]]
    BY <1>4 DEF Ask, IInv, TypeOK, Threads
  <2>5. Receipts!Ask(c, id, request)
    BY <1>4, StatusUnchanged, <2>2, <2>3, <2>4 DEF Ask, Receipts!Ask
  <2>6. QED
    BY <2>5 DEF Receipts!Next
<1>5. ASSUME NEW c \in Callers, Examine(c) PROVE Receipts!Next \/ UNCHANGED Receipts!vars
  <2> DEFINE t == ticket[c]
             refusal == Refusal(t.id, t.request, t.at)
  <2>1. /\ t \in Ticket /\ t.id \in Ids /\ t.request \in Requests /\ t.at \in Times
        /\ pc[c] = "locked" /\ verdict[c] = "none"
    BY <1>5 DEF Examine, IInv, TypeOK, InFlight, Ticket, UndecidedHasNoVerdict, Threads
  <2>2. Tickets' = Tickets /\ UNCHANGED <<clock, plans, consumed, issued>>
    BY <1>5 DEF Examine
  <2>3. Outcomes[c] = "asked"
    BY <2>1 DEF OutcomeOf
  <2>4. CASE refusal = "none"
    <3>1. Outcomes' = Outcomes
      BY <1>5, <2>1, <2>4 DEF Examine, Goto, OutcomeOf, IInv, TypeOK, Threads
    <3>2. QED
      BY <1>1, <2>2, <3>1
  <2>5. CASE refusal # "none"
    <3>1. refusal \in Refusals
      BY <2>5 DEF Refusal, Refusals
    <3>2. Outcomes' = [Outcomes EXCEPT ![c] = refusal]
      BY <1>5, <2>1, <2>5 DEF Examine, Goto, OutcomeOf, IInv, TypeOK, Threads
    <3>3. Receipts!Verdict(StatusOf(t.id), issued[t.id], t.request, t.at) = refusal
      BY <2>1, <2>5, RefusalIsVerdict
    <3>4. refusal # "approved"
      BY <3>1 DEF Refusals
    <3>5. Receipts!Answer(c)
      BY <2>1, <2>2, <2>3, <3>2, <3>3, <3>4, StatusUnchanged DEF Receipts!Answer
    <3>6. QED
      BY <3>5 DEF Receipts!Next
  <2>6. QED
    BY <2>4, <2>5
<1>6. ASSUME NEW c \in Callers, Spend(c) PROVE Receipts!Next
  <2> DEFINE t == ticket[c]
  <2>1. /\ t \in Ticket /\ t.id \in Ids /\ t.request \in Requests /\ t.at \in Times
        /\ pc[c] = "cleared" /\ verdict[c] = "none"
    BY <1>6 DEF Spend, IInv, TypeOK, InFlight, Ticket, UndecidedHasNoVerdict, Threads
  <2>2. Refusal(t.id, t.request, t.at) = "none"
    BY <1>6, <2>1 DEF IInv, ClearedStillPasses
  <2>3. Receipts!Verdict(StatusOf(t.id), issued[t.id], t.request, t.at) = "approved"
    BY <2>1, <2>2, RefusalIsVerdict
  <2>4. plans[t.id] # NoPlan /\ issued[t.id] # NoPlan
    BY <2>1, <2>2 DEF Refusal, IInv, StoreMatchesHistory
  <2>5. Statuses' = [Statuses EXCEPT ![t.id] = "spent"]
    <3>1. consumed' = consumed \cup {t.id} /\ UNCHANGED <<plans, issued, ticket>>
      BY <1>6 DEF Spend
    <3>2. StatusOf(t.id)' = "spent"
      BY <2>4, <3>1 DEF StatusOf
    <3>3. \A id \in Ids \ {t.id} : StatusOf(id)' = StatusOf(id)
      BY <3>1 DEF StatusOf
    <3>4. QED
      BY <2>1, <3>1, <3>2, <3>3
  <2>6. Outcomes[c] = "asked"
    BY <2>1 DEF OutcomeOf
  <2>7. Outcomes' = [Outcomes EXCEPT ![c] = "approved"]
    BY <1>6, <2>1 DEF Spend, Goto, OutcomeOf, IInv, TypeOK, Threads
  <2>8. Receipts!Answer(c)
    BY <1>6, <2>1, <2>3, <2>5, <2>6, <2>7 DEF Spend, Receipts!Answer
  <2>9. QED
    BY <2>8 DEF Receipts!Next
<1>7. ASSUME NEW t \in Threads,
             \/ t \in Planners /\ Acquire(t, "built")
             \/ t \in Callers /\ Acquire(t, "asked")
      PROVE  UNCHANGED Receipts!vars
  <2>1. UNCHANGED <<clock, plans, consumed, ticket, verdict, issued>>
    BY <1>7 DEF Acquire
  <2>2. Outcomes' = Outcomes
    BY <1>7, <2>1 DEF Acquire, Goto, OutcomeOf, IInv, TypeOK, Threads
  <2>3. QED
    BY <1>1, <2>1, <2>2
<1>8. ASSUME NEW t \in Threads, Release(t) PROVE UNCHANGED Receipts!vars
  <2>1. /\ UNCHANGED <<clock, plans, consumed, verdict, issued>>
        /\ \A c \in Callers : ticket'[c] = ticket[c]
    BY <1>8 DEF Release, IInv, TypeOK, Threads
  <2>2. Outcomes' = Outcomes
    BY <1>8, <2>1 DEF Release, Goto, OutcomeOf, IInv, TypeOK, Threads
  <2>3. QED
    BY <1>1, <2>1, <2>2
<1>9. ASSUME Tick PROVE Receipts!Next
  <2>1. Outcomes' = Outcomes /\ Tickets' = Tickets
    BY <1>9 DEF Tick, OutcomeOf
  <2>2. Receipts!Tick
    BY <1>9, <2>1, StatusUnchanged DEF Tick, Receipts!Tick
  <2>3. QED
    BY <2>2 DEF Receipts!Next
<1>10. ASSUME Restart PROVE Receipts!Next
  <2>1. Statuses' = [id \in Ids |-> IF Statuses[id] = "none" THEN "none" ELSE "void"]
    <3>1. \A id \in Ids : StatusOf(id)' = IF issued[id] = NoPlan THEN "none" ELSE "void"
      BY <1>10 DEF Restart, StatusOf
    <3>2. \A id \in Ids : StatusOf(id) = "none" <=> issued[id] = NoPlan
      BY DEF StatusOf, IInv, StoreMatchesHistory
    <3>3. QED
      BY <3>1, <3>2
  <2>2. ASSUME NEW c \in Callers
        PROVE  /\ OutcomeOf(c)' = IF OutcomeOf(c) = "asked" THEN "lost" ELSE OutcomeOf(c)
               /\ ticket'[c] = IF OutcomeOf(c) = "asked" THEN NoRequest ELSE ticket[c]
    <3>1. /\ verdict'[c] = verdict[c]
          /\ pc'[c] = IF pc[c] \in {"idle", "done"} THEN pc[c] ELSE "lost"
          /\ ticket'[c] = IF verdict[c] # "none" THEN ticket[c] ELSE NoRequest
          /\ verdict[c] # "asked"
      BY <1>10 DEF Restart, Answered, Threads, IInv, TypeOK, Refusals
    <3>2. CASE verdict[c] # "none"
      BY <3>1, <3>2 DEF OutcomeOf
    <3>3. CASE verdict[c] = "none" /\ pc[c] \in {"idle", "lost"}
      <4>1. ticket[c] = NoRequest
        BY <3>3 DEF SilentHasNoTicket
      <4>2. OutcomeOf(c) = pc[c] /\ OutcomeOf(c)' = pc[c]
        BY <3>1, <3>3 DEF OutcomeOf
      <4>3. QED
        BY <3>1, <3>3, <4>1, <4>2
    <3>4. CASE verdict[c] = "none" /\ pc[c] \notin {"idle", "lost"}
      <4>1. pc[c] # "done"
        BY <3>4 DEF SilentHasNoTicket
      <4>2. pc'[c] = "lost"
        BY <3>1, <3>4, <4>1
      <4>3. OutcomeOf(c) = "asked" /\ OutcomeOf(c)' = "lost"
        BY <3>1, <3>4, <4>2 DEF OutcomeOf
      <4>4. QED
        BY <3>1, <3>4, <4>3
    <3>5. QED
      BY <3>2, <3>3, <3>4
  <2>3. /\ Outcomes' = [c \in Callers |-> IF Outcomes[c] = "asked" THEN "lost" ELSE Outcomes[c]]
        /\ Tickets' = [c \in Callers |-> IF Outcomes[c] = "asked" THEN NoRequest ELSE Tickets[c]]
    BY <2>2
  <2>4. Receipts!Restart
    BY <1>10, <2>1, <2>3 DEF Restart, Receipts!Restart
  <2>5. QED
    BY <2>4 DEF Receipts!Next
<1>11. CASE UNCHANGED vars
  BY <1>11, <1>1 DEF vars, OutcomeOf
<1>12. QED
  BY <1>2, <1>3, <1>4, <1>5, <1>6, <1>7, <1>8, <1>9, <1>10, <1>11
  DEF Next, Issuing, Consuming, Threads

\* The lock-based store implements the abstract receipts.
THEOREM Refinement == Spec => Receipts!Spec
<1>1. Init => SilentHasNoTicket
  BY DEF Init, SilentHasNoTicket, Threads
<1>2. QED
  BY <1>1, InitRefines, NextSilent, StepRefines, Inductive, PTL DEF Spec, Receipts!Spec
=============================================================================
