---------------------------- MODULE ApprovalStore ----------------------------
(***************************************************************************)
(* The process-local approval store (src/approvals.py) together with the   *)
(* plan builder (src/policies.py) and the helpers through which every tool *)
(* reaches it (src/tools/approval_workflow.py).                            *)
(*                                                                         *)
(* Planners issue receipts and callers consume them.  Each is one          *)
(* invocation of issue() or consume(), run by its own thread, so that      *)
(* every statement of one may fall between two statements of another: the  *)
(* clock is read before the lock is taken, and the dictionary of plans and *)
(* the set of consumed identifiers are touched in separate steps under it. *)
(***************************************************************************)
EXTENDS Naturals

CONSTANTS
    Ids,        \* approval identifiers (uuid4)
    Planners,   \* invocations of issue()
    Callers,    \* invocations of consume()
    Requests,   \* what the canonical request hash tells apart
    Free,       \* the lock is not held
    NoPlan,     \* no plan stored under an identifier
    NoRequest,  \* an invocation that has not started
    Ttl,        \* lifetime of a receipt, in clock ticks
    MaxClock    \* bound on the clock

ASSUME TtlAssumption == Ttl \in Nat \ {0}
ASSUME MaxClockAssumption == MaxClock \in Nat
ASSUME ThreadsAssumption == Planners \cap Callers = {} /\ Free \notin Planners \cup Callers
ASSUME NoPlanAssumption == NoPlan \notin [request: Requests, expires: 0..(MaxClock + Ttl)]

VARIABLES
    clock,      \* the process clock
    plans,      \* _plans: identifier -> stored plan
    consumed,   \* _consumed
    lock,       \* _lock: Free or the thread that holds it
    pc,         \* how far each invocation has come
    ticket,     \* the invocation's arguments; `at` is what it read off the clock
    verdict,    \* the reason consume() returns
    issued      \* history: the plan ever stored under an identifier

vars == <<clock, plans, consumed, lock, pc, ticket, verdict, issued>>

Threads == Planners \cup Callers

Times == 0..(MaxClock + Ttl)
Plan == [request: Requests, expires: Times]
Ticket == [id: Ids, request: Requests, at: Times]

PCs == {"idle", "built", "asked", "locked", "cleared", "release", "done", "lost"}

\* Inside issue() or consume().
InFlight == {"built", "asked", "locked", "cleared", "release"}

Refusals == {"approval_not_found", "approval_already_consumed",
             "approval_expired", "approval_request_mismatch"}

\* One invariant for the types, the bound on a receipt's lifetime included.
TypeOK ==
    /\ clock \in 0..MaxClock
    /\ plans \in [Ids -> Plan \cup {NoPlan}]
    /\ consumed \subseteq Ids
    /\ lock \in Threads \cup {Free}
    /\ pc \in [Threads -> PCs]
    /\ ticket \in [Threads -> Ticket \cup {NoRequest}]
    /\ verdict \in [Callers -> Refusals \cup {"approved", "none"}]
    /\ issued \in [Ids -> Plan \cup {NoPlan}]
    /\ \A t \in Threads : pc[t] \in InFlight => ticket[t] \in Ticket
    /\ \A c \in Callers : verdict[c] # "none" => ticket[c] \in Ticket

Init ==
    /\ clock = 0
    /\ plans = [id \in Ids |-> NoPlan]
    /\ consumed = {}
    /\ lock = Free
    /\ pc = [t \in Threads |-> "idle"]
    /\ ticket = [t \in Threads |-> NoRequest]
    /\ verdict = [c \in Callers |-> "none"]
    /\ issued = [id \in Ids |-> NoPlan]

Goto(t, label) == pc' = [pc EXCEPT ![t] = label]

-----------------------------------------------------------------------------
(***************************************************************************)
(* Issuing.  build_approval_plan stamps the plan before the store's lock   *)
(* is asked for.  uuid4 never draws an identifier of an earlier life of    *)
(* the process again; within one life issue() may be handed an identifier  *)
(* it already knows, and refuses it.                                       *)
(***************************************************************************)
Retired(id) == plans[id] = NoPlan /\ issued[id] # NoPlan

\* Mutant: the lifetime is applied twice.
BuildPlanTwiceTheTtl(p, id, request) ==
    /\ pc[p] = "idle"
    /\ ~Retired(id)
    /\ ticket' = [ticket EXCEPT ![p] =
                    [id |-> id, request |-> request, at |-> clock + Ttl + Ttl]]
    /\ Goto(p, "built")
    /\ UNCHANGED <<clock, plans, consumed, lock, verdict, issued>>

BuildPlan(p, id, request) ==
    /\ pc[p] = "idle"
    /\ ~Retired(id)
    /\ ticket' = [ticket EXCEPT ![p] = [id |-> id, request |-> request, at |-> clock + Ttl]]
    /\ Goto(p, "built")
    /\ UNCHANGED <<clock, plans, consumed, lock, verdict, issued>>

\* Mutant: a known identifier is overwritten instead of refused.
StorePlanOverwriting(p) ==
    /\ pc[p] = "locked"
    /\ LET plan == [request |-> ticket[p].request, expires |-> ticket[p].at]
       IN  /\ plans' = [plans EXCEPT ![ticket[p].id] = plan]
           /\ issued' = [issued EXCEPT ![ticket[p].id] = plan]
    /\ Goto(p, "release")
    /\ UNCHANGED <<clock, consumed, lock, ticket, verdict>>

StorePlan(p) ==
    /\ pc[p] = "locked"
    /\ LET id   == ticket[p].id
           plan == [request |-> ticket[p].request, expires |-> ticket[p].at]
       IN  \/ /\ plans[id] # NoPlan    \* ValueError("approval_id already exists.")
              /\ UNCHANGED <<plans, issued>>
           \/ /\ plans[id] = NoPlan
              /\ plans' = [plans EXCEPT ![id] = plan]
              /\ issued' = [issued EXCEPT ![id] = plan]
    /\ Goto(p, "release")
    /\ UNCHANGED <<clock, consumed, lock, ticket, verdict>>

-----------------------------------------------------------------------------
(***************************************************************************)
(* Consuming.                                                              *)
(***************************************************************************)
Ask(c, id, request) ==
    /\ pc[c] = "idle"
    /\ ticket' = [ticket EXCEPT ![c] = [id |-> id, request |-> request, at |-> clock]]
    /\ Goto(c, "asked")
    /\ UNCHANGED <<clock, plans, consumed, lock, verdict, issued>>

\* Mutant: the request hash is not compared.
RefusalWithoutHash(id, request, at) ==
    IF plans[id] = NoPlan THEN "approval_not_found"
    ELSE IF id \in consumed THEN "approval_already_consumed"
    ELSE IF at > plans[id].expires THEN "approval_expired"
    ELSE "none"

\* The chain of early returns; "none" when every check passes.
Refusal(id, request, at) ==
    IF plans[id] = NoPlan THEN "approval_not_found"
    ELSE IF id \in consumed THEN "approval_already_consumed"
    ELSE IF at > plans[id].expires THEN "approval_expired"
    ELSE IF request # plans[id].request THEN "approval_request_mismatch"
    ELSE "none"

\* Mutant: the receipt is marked consumed before it is checked.
ExamineSpending(c) ==
    /\ pc[c] = "locked"
    /\ LET refusal == Refusal(ticket[c].id, ticket[c].request, ticket[c].at)
       IN  /\ verdict' = [verdict EXCEPT ![c] = refusal]
           /\ Goto(c, IF refusal = "none" THEN "cleared" ELSE "release")
    /\ consumed' = consumed \cup {ticket[c].id}
    /\ UNCHANGED <<clock, plans, lock, ticket, issued>>

Examine(c) ==
    /\ pc[c] = "locked"
    /\ LET refusal == Refusal(ticket[c].id, ticket[c].request, ticket[c].at)
       IN  /\ verdict' = [verdict EXCEPT ![c] = refusal]
           /\ Goto(c, IF refusal = "none" THEN "cleared" ELSE "release")
    /\ UNCHANGED <<clock, plans, consumed, lock, ticket, issued>>

Spend(c) ==
    /\ pc[c] = "cleared"
    /\ consumed' = consumed \cup {ticket[c].id}
    /\ verdict' = [verdict EXCEPT ![c] = "approved"]
    /\ Goto(c, "release")
    /\ UNCHANGED <<clock, plans, lock, ticket, issued>>

-----------------------------------------------------------------------------
(***************************************************************************)
(* The lock, the clock, and the loss of the process.                       *)
(***************************************************************************)
\* Mutant: the store is entered without its lock.
AcquireNothing(t, waiting) ==
    /\ pc[t] = waiting
    /\ Goto(t, "locked")
    /\ UNCHANGED <<clock, plans, consumed, lock, ticket, verdict, issued>>

Acquire(t, waiting) ==
    /\ pc[t] = waiting
    /\ lock = Free
    /\ lock' = t
    /\ Goto(t, "locked")
    /\ UNCHANGED <<clock, plans, consumed, ticket, verdict, issued>>

Release(t) ==
    /\ pc[t] = "release"
    /\ lock' = Free
    /\ Goto(t, "done")
    /\ ticket' = [ticket EXCEPT ![t] = IF t \in Planners THEN NoRequest ELSE @]
    /\ UNCHANGED <<clock, plans, consumed, verdict, issued>>

Tick ==
    /\ clock < MaxClock
    /\ clock' = clock + 1
    /\ UNCHANGED <<plans, consumed, lock, pc, ticket, verdict, issued>>

\* The history that outlives a process: what a caller was told.
Answered(t) == t \in Callers /\ verdict[t] # "none"

\* Mutant: the plans survive a restart, the set of consumed ones does not.
RestartKeepingPlans ==
    /\ consumed' = {}
    /\ lock' = Free
    /\ pc' = [t \in Threads |-> IF pc[t] \in {"idle", "done"} THEN pc[t] ELSE "lost"]
    /\ ticket' = [t \in Threads |-> IF Answered(t) THEN ticket[t] ELSE NoRequest]
    /\ UNCHANGED <<clock, plans, verdict, issued>>

\* A new process starts with an empty store; what was in flight gets no answer.
Restart ==
    /\ plans' = [id \in Ids |-> NoPlan]
    /\ consumed' = {}
    /\ lock' = Free
    /\ pc' = [t \in Threads |-> IF pc[t] \in {"idle", "done"} THEN pc[t] ELSE "lost"]
    /\ ticket' = [t \in Threads |-> IF Answered(t) THEN ticket[t] ELSE NoRequest]
    /\ UNCHANGED <<clock, verdict, issued>>

Issuing(p) == Acquire(p, "built") \/ StorePlan(p) \/ Release(p)
Consuming(c) == Acquire(c, "asked") \/ Examine(c) \/ Spend(c) \/ Release(c)

Next ==
    \/ \E p \in Planners, id \in Ids, request \in Requests : BuildPlan(p, id, request)
    \/ \E p \in Planners : Issuing(p)
    \/ \E c \in Callers, id \in Ids, request \in Requests : Ask(c, id, request)
    \/ \E c \in Callers : Consuming(c)
    \/ Tick
    \/ Restart

Spec == Init /\ [][Next]_vars

(***************************************************************************)
(* A thread that is inside issue() or consume() keeps running: nothing     *)
(* under the lock blocks, so each is scheduled again and again.  Whether a *)
(* plan is built, a receipt presented or the process restarted is up to    *)
(* the environment.                                                        *)
(***************************************************************************)
FairSpec ==
    /\ Spec
    /\ \A p \in Planners : WF_vars(Issuing(p))
    /\ \A c \in Callers : WF_vars(Consuming(c))

-----------------------------------------------------------------------------
(***************************************************************************)
(* Properties.                                                             *)
(***************************************************************************)

\* However many callers race with one receipt, and whether or not the process
\* restarts in between, consume() approves at most one of them.
AtMostOneGrant ==
    \A c, d \in Callers :
        /\ verdict[c] = "approved"
        /\ verdict[d] = "approved"
        /\ ticket[c].id = ticket[d].id
        => c = d

\* An approved caller presented exactly the request its receipt was issued
\* for, and read the clock no later than the receipt's expiry.
GrantHonoursPlan ==
    \A c \in Callers : verdict[c] = "approved" =>
        LET plan == issued[ticket[c].id]
        IN  /\ plan # NoPlan
            /\ ticket[c].request = plan.request
            /\ ticket[c].at <= plan.expires

\* Expiry is final: once a caller was told that a receipt has expired, nobody
\* who read the clock at that moment or later is approved with it.  (A caller
\* who read it earlier and then waited for the lock may still be.)
ExpiryIsFinal ==
    \A c, d \in Callers :
        /\ verdict[c] = "approval_expired"
        /\ verdict[d] = "approved"
        /\ ticket[c].id = ticket[d].id
        => ticket[d].at < ticket[c].at

\* No refusal burns a receipt: a spent receipt was spent by an approved caller,
\* so a wrong or late request leaves it for the right one.
SpentOnlyByGrant ==
    \A id \in consumed : \E c \in Callers :
        verdict[c] = "approved" /\ ticket[c].id = id

-----------------------------------------------------------------------------
(***************************************************************************)
(* The store implements the abstract receipts: a verdict is reached in one *)
(* indivisible step, that of Spend or of the Examine that refuses.         *)
(***************************************************************************)
StatusOf(id) ==
    CASE issued[id] = NoPlan -> "none"
      [] issued[id] # NoPlan /\ plans[id] = NoPlan -> "void"
      [] plans[id] # NoPlan /\ id \in consumed -> "spent"
      [] OTHER -> "live"

OutcomeOf(c) ==
    CASE verdict[c] # "none" -> verdict[c]
      [] verdict[c] = "none" /\ pc[c] \in {"idle", "lost"} -> pc[c]
      [] OTHER -> "asked"

Receipts == INSTANCE ApprovalReceipts WITH
    status  <- [id \in Ids |-> StatusOf(id)],
    plan    <- issued,
    ticket  <- [c \in Callers |-> ticket[c]],
    outcome <- [c \in Callers |-> OutcomeOf(c)]

\* The store, lock and threads and all, behaves as the abstract receipts do,
\* and answers every request that is not lost with its process.
ImplementsReceipts == Receipts!FairSpec
=============================================================================
