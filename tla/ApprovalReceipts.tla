-------------------------- MODULE ApprovalReceipts --------------------------
(***************************************************************************)
(* What an approval store promises, without saying how.                    *)
(*                                                                         *)
(* A receipt is issued once, for one request and with one expiry time.  A  *)
(* caller presents a receipt at some time `at`; one indivisible judgement  *)
(* later the caller has a verdict, and a receipt that authorised a request *)
(* is spent.  A restart of the process voids every receipt and loses every *)
(* request that has no verdict yet.                                        *)
(***************************************************************************)
EXTENDS Naturals

CONSTANTS
    Ids,        \* approval identifiers
    Callers,    \* one-shot requests, each of which presents a receipt
    Requests,   \* what the canonical request hash tells apart
    NoRequest,  \* stands for "nothing presented yet"
    NoPlan,     \* stands for "never issued"
    Ttl,        \* lifetime of a receipt
    MaxClock    \* bound on the clock

VARIABLES
    clock,
    status,   \* status[id]: what has become of the receipt
    plan,     \* plan[id]: the request and the expiry it was issued with
    ticket,   \* ticket[c]: the receipt, request and time that c presented
    outcome   \* outcome[c]: how far c has come, in the end its verdict

vars == <<clock, status, plan, ticket, outcome>>

Statuses == {"none", "live", "spent", "void"}

Refusals == {"approval_not_found", "approval_already_consumed",
             "approval_expired", "approval_request_mismatch"}

Verdicts == Refusals \cup {"approved"}

(***************************************************************************)
(* The verdict on `request`, presented at time `at` against a receipt with *)
(* status s and plan p.  A receipt is still good in the instant it expires.*)
(***************************************************************************)
Verdict(s, p, request, at) ==
    CASE s \in {"none", "void"} -> "approval_not_found"
      [] s = "spent"            -> "approval_already_consumed"
      [] s = "live" /\ at > p.expires -> "approval_expired"
      [] s = "live" /\ at <= p.expires /\ request # p.request -> "approval_request_mismatch"
      [] OTHER -> "approved"

Init ==
    /\ clock = 0
    /\ status = [id \in Ids |-> "none"]
    /\ plan = [id \in Ids |-> NoPlan]
    /\ ticket = [c \in Callers |-> NoRequest]
    /\ outcome = [c \in Callers |-> "idle"]

Tick ==
    /\ clock < MaxClock
    /\ clock' = clock + 1
    /\ UNCHANGED <<status, plan, ticket, outcome>>

\* A receipt never outlives the moment it is issued by more than Ttl.
Issue(id, request, expires) ==
    /\ status[id] = "none"
    /\ expires <= clock + Ttl
    /\ status' = [status EXCEPT ![id] = "live"]
    /\ plan' = [plan EXCEPT ![id] = [request |-> request, expires |-> expires]]
    /\ UNCHANGED <<clock, ticket, outcome>>

Ask(c, id, request) ==
    /\ outcome[c] = "idle"
    /\ ticket' = [ticket EXCEPT ![c] = [id |-> id, request |-> request, at |-> clock]]
    /\ outcome' = [outcome EXCEPT ![c] = "asked"]
    /\ UNCHANGED <<clock, status, plan>>

Answer(c) ==
    /\ outcome[c] = "asked"
    /\ LET id      == ticket[c].id
           verdict == Verdict(status[id], plan[id], ticket[c].request, ticket[c].at)
       IN  /\ outcome' = [outcome EXCEPT ![c] = verdict]
           /\ status' = IF verdict = "approved"
                        THEN [status EXCEPT ![id] = "spent"] ELSE status
    /\ UNCHANGED <<clock, plan, ticket>>

Restart ==
    /\ status' = [id \in Ids |-> IF status[id] = "none" THEN "none" ELSE "void"]
    /\ outcome' = [c \in Callers |-> IF outcome[c] = "asked" THEN "lost" ELSE outcome[c]]
    /\ ticket' = [c \in Callers |-> IF outcome[c] = "asked" THEN NoRequest ELSE ticket[c]]
    /\ UNCHANGED <<clock, plan>>

Next ==
    \/ Tick
    \/ \E id \in Ids, request \in Requests, expires \in 0..(MaxClock + Ttl) :
         Issue(id, request, expires)
    \/ \E c \in Callers, id \in Ids, request \in Requests : Ask(c, id, request)
    \/ \E c \in Callers : Answer(c)
    \/ Restart

Spec == Init /\ [][Next]_vars

\* No request waits for its verdict for ever.
FairSpec == Spec /\ \A c \in Callers : WF_vars(Answer(c))
=============================================================================
