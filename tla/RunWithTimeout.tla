--------------------------- MODULE RunWithTimeout ---------------------------
(***************************************************************************)
(* The deadline helper every tool wraps its Azure calls in                 *)
(* (src/utils/runtime.py).  A request thread submits a callback to a pool  *)
(* of one fresh worker, waits for the result up to a deadline, and leaves  *)
(* the pool's `with` block.  A request may do so several times, one call   *)
(* after the other (list, then get; page after page).                      *)
(*                                                                         *)
(* The pool, ThreadPoolExecutor, is external and modelled as used here:    *)
(* submit queues the callback, result(timeout) answers with what the       *)
(* callback returned or raised, or times out while it is unfinished, and   *)
(* leaving the `with` block is shutdown(wait=True), which joins the worker.*)
(***************************************************************************)
EXTENDS Naturals

CONSTANTS
    Requests,   \* request threads
    MaxCalls,   \* bound on the calls one request makes
    Timeout     \* timeout_seconds, in clock ticks

ASSUME MaxCallsAssumption == MaxCalls \in Nat \ {0}
ASSUME TimeoutAssumption == Timeout \in Nat \ {0}

VARIABLES
    call,      \* number of the call the request is making, 0 before the first
    caller,    \* where the request thread is
    worker,    \* the worker of each call
    elapsed,   \* ticks since the submit; stops one past the deadline
    outcome,   \* what the callback of each call did
    reply,     \* what each call returned or raised
    endedAt    \* history: `elapsed` when the callback ended

vars == <<call, caller, worker, elapsed, outcome, reply, endedAt>>

Numbers == 1..MaxCalls
Past == Timeout + 1

\* "timeout" is a TimeoutError, whether the callback's own or the deadline's.
Results == {"value", "error", "timeout"}

TypeOK ==
    /\ call \in [Requests -> 0..MaxCalls]
    /\ caller \in [Requests -> {"idle", "waiting", "leaving"}]
    /\ worker \in [Requests \X Numbers -> {"none", "queued", "running", "ended"}]
    /\ elapsed \in [Requests -> 0..Past]
    /\ outcome \in [Requests \X Numbers -> Results \cup {"none"}]
    /\ reply \in [Requests \X Numbers -> Results \cup {"none"}]
    /\ endedAt \in [Requests \X Numbers -> 0..Past]
    /\ \A r \in Requests : caller[r] # "idle" => call[r] \in Numbers

Init ==
    /\ call = [r \in Requests |-> 0]
    /\ caller = [r \in Requests |-> "idle"]
    /\ worker = [k \in Requests \X Numbers |-> "none"]
    /\ elapsed = [r \in Requests |-> 0]
    /\ outcome = [k \in Requests \X Numbers |-> "none"]
    /\ reply = [k \in Requests \X Numbers |-> "none"]
    /\ endedAt = [k \in Requests \X Numbers |-> 0]

Current(r) == <<r, call[r]>>

Submit(r) ==
    /\ caller[r] = "idle"
    /\ call[r] < MaxCalls
    /\ call' = [call EXCEPT ![r] = @ + 1]
    /\ caller' = [caller EXCEPT ![r] = "waiting"]
    /\ worker' = [worker EXCEPT ![<<r, call[r] + 1>>] = "queued"]
    /\ elapsed' = [elapsed EXCEPT ![r] = 0]
    /\ UNCHANGED <<outcome, reply, endedAt>>

Begin(k) ==
    /\ worker[k] = "queued"
    /\ worker' = [worker EXCEPT ![k] = "running"]
    /\ UNCHANGED <<call, caller, elapsed, outcome, reply, endedAt>>

End(k, result) ==
    /\ worker[k] = "running"
    /\ worker' = [worker EXCEPT ![k] = "ended"]
    /\ outcome' = [outcome EXCEPT ![k] = result]
    /\ endedAt' = [endedAt EXCEPT ![k] = elapsed[k[1]]]
    /\ UNCHANGED <<call, caller, elapsed, reply>>

\* Mutant: only a value is handed over, a raised exception is lost.
GetValueOnly(r) ==
    /\ caller[r] = "waiting"
    /\ worker[Current(r)] = "ended"
    /\ outcome[Current(r)] = "value"
    /\ reply' = [reply EXCEPT ![Current(r)] = "value"]
    /\ caller' = [caller EXCEPT ![r] = "leaving"]
    /\ UNCHANGED <<call, worker, elapsed, outcome, endedAt>>

\* future.result() hands over what the callback returned or raised.
Get(r) ==
    /\ caller[r] = "waiting"
    /\ worker[Current(r)] = "ended"
    /\ reply' = [reply EXCEPT ![Current(r)] = outcome[Current(r)]]
    /\ caller' = [caller EXCEPT ![r] = "leaving"]
    /\ UNCHANGED <<call, worker, elapsed, outcome, endedAt>>

\* Mutant: the deadline passes one tick early.
ExpireEarly(r) ==
    /\ caller[r] = "waiting"
    /\ elapsed[r] + 1 >= Timeout
    /\ worker[Current(r)] # "ended"
    /\ reply' = [reply EXCEPT ![Current(r)] = "timeout"]
    /\ caller' = [caller EXCEPT ![r] = "leaving"]
    /\ UNCHANGED <<call, worker, elapsed, outcome, endedAt>>

\* Mutant: the exception of the futures library escapes untranslated.
ExpireUntranslated(r) ==
    /\ caller[r] = "waiting"
    /\ elapsed[r] >= Timeout
    /\ worker[Current(r)] # "ended"
    /\ reply' = [reply EXCEPT ![Current(r)] = "futures_timeout"]
    /\ caller' = [caller EXCEPT ![r] = "leaving"]
    /\ UNCHANGED <<call, worker, elapsed, outcome, endedAt>>

\* The deadline: the wait is over and the future is still not done.
Expire(r) ==
    /\ caller[r] = "waiting"
    /\ elapsed[r] >= Timeout
    /\ worker[Current(r)] # "ended"
    /\ reply' = [reply EXCEPT ![Current(r)] = "timeout"]
    /\ caller' = [caller EXCEPT ![r] = "leaving"]
    /\ UNCHANGED <<call, worker, elapsed, outcome, endedAt>>

\* Mutant: shutdown(wait=False).
LeaveAtOnce(r) ==
    /\ caller[r] = "leaving"
    /\ caller' = [caller EXCEPT ![r] = "idle"]
    /\ UNCHANGED <<call, worker, elapsed, outcome, reply, endedAt>>

\* The end of the `with` block joins the worker.
Leave(r) ==
    /\ caller[r] = "leaving"
    /\ worker[Current(r)] = "ended"
    /\ caller' = [caller EXCEPT ![r] = "idle"]
    /\ UNCHANGED <<call, worker, elapsed, outcome, reply, endedAt>>

Tick ==
    /\ \E r \in Requests : elapsed[r] < Past
    /\ elapsed' = [r \in Requests |-> IF elapsed[r] < Past THEN elapsed[r] + 1 ELSE Past]
    /\ UNCHANGED <<call, caller, worker, outcome, reply, endedAt>>

Calling(r) == Get(r) \/ Expire(r) \/ Leave(r)
Ending(k) == \E result \in Results : End(k, result)

Next ==
    \/ \E r \in Requests : Submit(r) \/ Calling(r)
    \/ \E k \in Requests \X Numbers : Begin(k) \/ Ending(k)
    \/ Tick

Spec == Init /\ [][Next]_vars

\* Threads are scheduled and time passes; a callback may run for ever.
FairSpec ==
    /\ Spec
    /\ WF_vars(Tick)
    /\ \A r \in Requests : WF_vars(Calling(r))
    /\ \A k \in Requests \X Numbers : WF_vars(Begin(k))

\* Every callback ends, as one whose Azure client has a transport timeout does.
EndingSpec == FairSpec /\ \A k \in Requests \X Numbers : WF_vars(Ending(k))

-----------------------------------------------------------------------------
(***************************************************************************)
(* Properties.                                                             *)
(***************************************************************************)

\* The `with` block leaves no thread behind: a request that is not inside
\* run_with_timeout has no callback queued or running, so the callbacks of one
\* request never overlap, not even when an earlier one missed its deadline.
NoOrphanWorker ==
    \A k \in Requests \X Numbers : worker[k] \in {"queued", "running"} =>
        caller[k[1]] # "idle" /\ k = Current(k[1])

\* A TimeoutError is raised only by a callback that raised one itself or that
\* had not ended when the deadline passed; any other reply is what the callback
\* did.  (The callback behind a timeout may still have succeeded.)
TimeoutMeansLate ==
    \A k \in Requests \X Numbers :
        /\ reply[k] \in {"value", "error"} => outcome[k] = reply[k]
        /\ reply[k] = "timeout" /\ worker[k] = "ended" =>
               outcome[k] = "timeout" \/ endedAt[k] >= Timeout

\* A call returns when callbacks end: with the result, the error or a timeout.
CallReturns ==
    \A r \in Requests : caller[r] = "waiting" ~> caller[r] = "idle"

\* "enforce a wall-clock deadline" (src/utils/runtime.py:10): once the deadline
\* has passed the request gets control back, whatever its callback does.
DeadlineEnforced ==
    \A r \in Requests :
        caller[r] # "idle" /\ elapsed[r] >= Timeout ~> caller[r] = "idle"
=============================================================================
