------------------------ MODULE RunWithTimeoutProofs ------------------------
(***************************************************************************)
(* Proofs about RunWithTimeout for any set of requests, any number of      *)
(* calls and any deadline.                                                 *)
(***************************************************************************)
EXTENDS RunWithTimeout, TLAPS

\* A call that was not made yet has no worker.
NotBeforeSubmit ==
    \A r \in Requests, n \in Numbers : n > call[r] => worker[<<r, n>>] = "none"

\* While its worker has not ended, a call has no outcome, and its only possible
\* reply is the timeout of a deadline that has passed.
Silent(r, n) == worker[<<r, n>>] # "ended" =>
    /\ outcome[<<r, n>>] = "none"
    /\ \/ reply[<<r, n>>] = "none"
       \/ /\ reply[<<r, n>>] = "timeout"
          /\ worker[<<r, n>>] # "none"
          /\ elapsed[r] >= Timeout

\* A request inside run_with_timeout has submitted its callback.
WaitingHasWorker ==
    \A r \in Requests : caller[r] # "idle" => worker[<<r, call[r]>>] # "none"

\* NoOrphanWorker and TimeoutMeansLate, call by call.
Joined(r, n) ==
    worker[<<r, n>>] \in {"queued", "running"} => caller[r] # "idle" /\ n = call[r]

Honest(r, n) ==
    /\ reply[<<r, n>>] \in {"value", "error"} => outcome[<<r, n>>] = reply[<<r, n>>]
    /\ reply[<<r, n>>] = "timeout" /\ worker[<<r, n>>] = "ended" =>
           outcome[<<r, n>>] = "timeout" \/ endedAt[<<r, n>>] >= Timeout

\* The inductive invariant.
IInv ==
    /\ TypeOK /\ NotBeforeSubmit /\ WaitingHasWorker
    /\ \A r \in Requests, n \in Numbers : Silent(r, n) /\ Joined(r, n) /\ Honest(r, n)

-----------------------------------------------------------------------------
\* The initial state satisfies the invariant.
LEMMA InitIInv == Init => IInv
<1> SUFFICES ASSUME Init PROVE IInv
  OBVIOUS
<1> USE MaxCallsAssumption, TimeoutAssumption
<1>1. TypeOK
  BY DEF Init, TypeOK, Numbers, Past
<1>2. NotBeforeSubmit /\ WaitingHasWorker
  BY DEF Init, NotBeforeSubmit, WaitingHasWorker
<1>3. \A r \in Requests, n \in Numbers : Silent(r, n) /\ Joined(r, n) /\ Honest(r, n)
  BY DEF Init, Silent, Joined, Honest
<1>4. QED
  BY <1>1, <1>2, <1>3 DEF IInv

\* Every step keeps the types.
LEMMA NextTypeOK == TypeOK /\ [Next]_vars => TypeOK'
<1> SUFFICES ASSUME TypeOK, [Next]_vars PROVE TypeOK'
  OBVIOUS
<1> USE MaxCallsAssumption, TimeoutAssumption DEF TypeOK, Numbers, Past, Results, Current
<1>1. ASSUME NEW r \in Requests, Submit(r) PROVE TypeOK'
  BY <1>1 DEF Submit
<1>2. ASSUME NEW r \in Requests, Calling(r) PROVE TypeOK'
  <2>1. CASE Get(r)
    BY <2>1 DEF Get
  <2>2. CASE Expire(r)
    BY <2>2 DEF Expire
  <2>3. CASE Leave(r)
    BY <2>3 DEF Leave
  <2>4. QED
    BY <1>2, <2>1, <2>2, <2>3 DEF Calling
<1>3. ASSUME NEW k \in Requests \X Numbers, Begin(k) PROVE TypeOK'
  BY <1>3 DEF Begin
<1>4. ASSUME NEW k \in Requests \X Numbers, NEW result \in Results, End(k, result) PROVE TypeOK'
  <2>1. elapsed[k[1]] \in 0..Past
    OBVIOUS
  <2>2. QED
    BY <1>4, <2>1 DEF End
<1>5. CASE Tick
  BY <1>5 DEF Tick
<1>6. CASE UNCHANGED vars
  BY <1>6 DEF vars
<1>7. QED
  BY <1>1, <1>2, <1>3, <1>4, <1>5, <1>6 DEF Next, Ending

-----------------------------------------------------------------------------
\* Every step of the request thread keeps the invariant.
LEMMA CallerKeeps ==
  ASSUME IInv, TypeOK', NEW r \in Requests, Submit(r) \/ Calling(r)
  PROVE  IInv'
<1> USE MaxCallsAssumption, TimeoutAssumption DEF IInv, TypeOK, Numbers, Current
<1>1. CASE Submit(r)
  <2>1. call[r] + 1 \in Numbers /\ worker[<<r, call[r] + 1>>] = "none"
    BY <1>1 DEF Submit, NotBeforeSubmit
  <2>2. NotBeforeSubmit' /\ WaitingHasWorker'
    BY <1>1, <2>1 DEF Submit, NotBeforeSubmit, WaitingHasWorker
  <2>3. ASSUME NEW q \in Requests, NEW n \in Numbers
        PROVE  Silent(q, n)' /\ Joined(q, n)' /\ Honest(q, n)'
    <3>1. Silent(q, n) /\ Joined(q, n) /\ Honest(q, n)
      OBVIOUS
    <3>2. UNCHANGED <<outcome[<<q, n>>], reply[<<q, n>>], endedAt[<<q, n>>]>>
      BY <1>1 DEF Submit
    <3>3. CASE q = r /\ n = call[r] + 1
      <4>1. worker'[<<q, n>>] = "queued" /\ caller'[q] = "waiting" /\ call'[q] = n
        BY <1>1, <3>3 DEF Submit
      <4>2. outcome[<<q, n>>] = "none" /\ reply[<<q, n>>] = "none"
        BY <2>1, <3>1, <3>3 DEF Silent
      <4>3. QED
        BY <3>2, <4>1, <4>2 DEF Silent, Joined, Honest
    <3>4. CASE q = r /\ n # call[r] + 1
      <4>1. worker'[<<q, n>>] = worker[<<q, n>>]
        BY <1>1, <3>4 DEF Submit
      <4>2. worker[<<q, n>>] \in {"none", "ended"}
        BY <1>1, <3>1, <3>4 DEF Submit, Joined
      <4>3. QED
        BY <3>1, <3>2, <4>1, <4>2 DEF Silent, Joined, Honest
    <3>5. CASE q # r
      <4>1. /\ worker'[<<q, n>>] = worker[<<q, n>>]
            /\ elapsed'[q] = elapsed[q] /\ caller'[q] = caller[q] /\ call'[q] = call[q]
        BY <1>1, <3>5 DEF Submit
      <4>2. QED
        BY <3>1, <3>2, <4>1 DEF Silent, Joined, Honest
    <3>6. QED
      BY <3>3, <3>4, <3>5
  <2>4. QED
    BY <2>2, <2>3
<1>2. CASE Get(r)
  <2>1. call[r] \in Numbers /\ worker[<<r, call[r]>>] = "ended"
    BY <1>2 DEF Get
  <2>2. NotBeforeSubmit' /\ WaitingHasWorker'
    BY <1>2 DEF Get, NotBeforeSubmit, WaitingHasWorker
  <2>3. ASSUME NEW q \in Requests, NEW n \in Numbers
        PROVE  Silent(q, n)' /\ Joined(q, n)' /\ Honest(q, n)'
    <3>1. Silent(q, n) /\ Joined(q, n) /\ Honest(q, n)
      OBVIOUS
    <3>2. /\ UNCHANGED <<worker[<<q, n>>], outcome[<<q, n>>], endedAt[<<q, n>>], elapsed[q], call[q]>>
          /\ caller[q] # "idle" => caller'[q] # "idle"
      BY <1>2 DEF Get
    <3>3. CASE q = r /\ n = call[r]
      <4>1. reply'[<<q, n>>] = outcome[<<q, n>>]
        BY <1>2, <2>1, <3>3 DEF Get
      <4>2. QED
        BY <2>1, <3>1, <3>2, <3>3, <4>1 DEF Silent, Joined, Honest
    <3>4. CASE q # r \/ n # call[r]
      <4>1. reply'[<<q, n>>] = reply[<<q, n>>]
        BY <1>2, <3>4 DEF Get
      <4>2. QED
        BY <3>1, <3>2, <4>1 DEF Silent, Joined, Honest
    <3>5. QED
      BY <3>3, <3>4
  <2>4. QED
    BY <2>2, <2>3
<1>3. CASE Expire(r)
  <2>1. call[r] \in Numbers /\ worker[<<r, call[r]>>] \notin {"none", "ended"}
    BY <1>3 DEF Expire, WaitingHasWorker
  <2>2. NotBeforeSubmit' /\ WaitingHasWorker'
    BY <1>3 DEF Expire, NotBeforeSubmit, WaitingHasWorker
  <2>3. ASSUME NEW q \in Requests, NEW n \in Numbers
        PROVE  Silent(q, n)' /\ Joined(q, n)' /\ Honest(q, n)'
    <3>1. Silent(q, n) /\ Joined(q, n) /\ Honest(q, n)
      OBVIOUS
    <3>2. /\ UNCHANGED <<worker[<<q, n>>], outcome[<<q, n>>], endedAt[<<q, n>>], elapsed[q], call[q]>>
          /\ caller[q] # "idle" => caller'[q] # "idle"
      BY <1>3 DEF Expire
    <3>3. CASE q = r /\ n = call[r]
      <4>1. reply'[<<q, n>>] = "timeout" /\ elapsed[q] >= Timeout
        BY <1>3, <2>1, <3>3 DEF Expire
      <4>2. QED
        BY <2>1, <3>1, <3>2, <3>3, <4>1 DEF Silent, Joined, Honest
    <3>4. CASE q # r \/ n # call[r]
      <4>1. reply'[<<q, n>>] = reply[<<q, n>>]
        BY <1>3, <3>4 DEF Expire
      <4>2. QED
        BY <3>1, <3>2, <4>1 DEF Silent, Joined, Honest
    <3>5. QED
      BY <3>3, <3>4
  <2>4. QED
    BY <2>2, <2>3
<1>4. CASE Leave(r)
  <2>1. NotBeforeSubmit' /\ WaitingHasWorker'
    BY <1>4 DEF Leave, NotBeforeSubmit, WaitingHasWorker
  <2>2. ASSUME NEW q \in Requests, NEW n \in Numbers
        PROVE  Silent(q, n)' /\ Joined(q, n)' /\ Honest(q, n)'
    <3>1. Silent(q, n) /\ Joined(q, n) /\ Honest(q, n)
      OBVIOUS
    <3>2. UNCHANGED <<worker[<<q, n>>], outcome[<<q, n>>], reply[<<q, n>>], endedAt[<<q, n>>],
                      elapsed[q], call[q]>>
      BY <1>4 DEF Leave
    <3>3. Silent(q, n)' /\ Honest(q, n)'
      BY <3>1, <3>2 DEF Silent, Honest
    <3>4. CASE q = r
      <4>1. n = call[r] => worker[<<q, n>>] = "ended"
        BY <1>4, <3>4 DEF Leave
      <4>2. worker'[<<q, n>>] \notin {"queued", "running"}
        BY <3>1, <3>2, <3>4, <4>1 DEF Joined
      <4>3. QED
        BY <3>3, <4>2 DEF Joined
    <3>5. CASE q # r
      <4>1. caller'[q] = caller[q]
        BY <1>4, <3>5 DEF Leave
      <4>2. QED
        BY <3>1, <3>2, <3>3, <4>1 DEF Joined
    <3>6. QED
      BY <3>4, <3>5
  <2>3. QED
    BY <2>1, <2>2
<1>5. QED
  BY <1>1, <1>2, <1>3, <1>4 DEF Calling

\* Every step of a worker keeps the invariant.
LEMMA WorkerKeeps ==
  ASSUME IInv, TypeOK', NEW r \in Requests, NEW m \in Numbers,
         Begin(<<r, m>>) \/ (\E result \in Results : End(<<r, m>>, result))
  PROVE  IInv'
<1> USE MaxCallsAssumption, TimeoutAssumption DEF IInv, TypeOK, Numbers
<1>1. CASE Begin(<<r, m>>)
  <2>1. NotBeforeSubmit' /\ WaitingHasWorker'
    BY <1>1 DEF Begin, NotBeforeSubmit, WaitingHasWorker
  <2>2. ASSUME NEW q \in Requests, NEW n \in Numbers
        PROVE  Silent(q, n)' /\ Joined(q, n)' /\ Honest(q, n)'
    <3>1. Silent(q, n) /\ Joined(q, n) /\ Honest(q, n)
      OBVIOUS
    <3>2. UNCHANGED <<outcome[<<q, n>>], reply[<<q, n>>], endedAt[<<q, n>>],
                      elapsed[q], call[q], caller[q]>>
      BY <1>1 DEF Begin
    <3>3. \/ worker'[<<q, n>>] = worker[<<q, n>>]
          \/ worker[<<q, n>>] = "queued" /\ worker'[<<q, n>>] = "running"
      BY <1>1 DEF Begin
    <3>4. QED
      BY <3>1, <3>2, <3>3 DEF Silent, Joined, Honest
  <2>3. QED
    BY <2>1, <2>2
<1>2. ASSUME NEW result \in Results, End(<<r, m>>, result) PROVE IInv'
  <2>1. NotBeforeSubmit' /\ WaitingHasWorker'
    BY <1>2 DEF End, NotBeforeSubmit, WaitingHasWorker
  <2>2. ASSUME NEW q \in Requests, NEW n \in Numbers
        PROVE  Silent(q, n)' /\ Joined(q, n)' /\ Honest(q, n)'
    <3>1. Silent(q, n) /\ Joined(q, n) /\ Honest(q, n)
      OBVIOUS
    <3>2. UNCHANGED <<reply[<<q, n>>], elapsed[q], call[q], caller[q]>>
      BY <1>2 DEF End
    <3>3. CASE q = r /\ n = m
      <4>1. worker[<<q, n>>] = "running" /\ worker'[<<q, n>>] = "ended" /\ endedAt'[<<q, n>>] = elapsed[q]
        BY <1>2, <3>3 DEF End
      <4>2. QED
        BY <3>1, <3>2, <4>1 DEF Silent, Joined, Honest
    <3>4. CASE q # r \/ n # m
      <4>1. UNCHANGED <<worker[<<q, n>>], outcome[<<q, n>>], endedAt[<<q, n>>]>>
        BY <1>2, <3>4 DEF End
      <4>2. QED
        BY <3>1, <3>2, <4>1 DEF Silent, Joined, Honest
    <3>5. QED
      BY <3>3, <3>4
  <2>3. QED
    BY <2>1, <2>2
<1>3. QED
  BY <1>1, <1>2

\* The passing of time only makes a passed deadline pass further.
LEMMA TickKeeps == ASSUME IInv, TypeOK', Tick PROVE IInv'
<1> USE MaxCallsAssumption, TimeoutAssumption DEF IInv, TypeOK, Numbers, Past
<1>1. NotBeforeSubmit' /\ WaitingHasWorker'
  BY DEF Tick, NotBeforeSubmit, WaitingHasWorker
<1>2. ASSUME NEW q \in Requests, NEW n \in Numbers
      PROVE  Silent(q, n)' /\ Joined(q, n)' /\ Honest(q, n)'
  <2>1. Silent(q, n) /\ Joined(q, n) /\ Honest(q, n)
    OBVIOUS
  <2>2. elapsed'[q] \in Nat /\ elapsed'[q] >= elapsed[q]
    BY DEF Tick
  <2>3. QED
    BY <2>1, <2>2 DEF Tick, Silent, Joined, Honest
<1>3. QED
  BY <1>1, <1>2

\* The invariant is inductive.
LEMMA NextIInv == IInv /\ [Next]_vars => IInv'
<1> SUFFICES ASSUME IInv, [Next]_vars PROVE IInv'
  OBVIOUS
<1>1. TypeOK'
  BY NextTypeOK DEF IInv
<1>2. ASSUME NEW r \in Requests, Submit(r) \/ Calling(r) PROVE IInv'
  BY <1>1, <1>2, CallerKeeps
<1>3. ASSUME NEW k \in Requests \X Numbers, Begin(k) \/ Ending(k) PROVE IInv'
  <2>1. PICK r \in Requests, n \in Numbers : k = <<r, n>>
    OBVIOUS
  <2>2. QED
    BY <1>1, <1>3, <2>1, WorkerKeeps DEF Ending
<1>4. CASE Tick
  BY <1>1, <1>4, TickKeeps
<1>5. CASE UNCHANGED vars
  BY <1>5 DEF vars, IInv, TypeOK, NotBeforeSubmit, WaitingHasWorker, Silent, Joined, Honest
<1>6. QED
  BY <1>2, <1>3, <1>4, <1>5 DEF Next

-----------------------------------------------------------------------------
(***************************************************************************)
(* The theorems.                                                           *)
(***************************************************************************)

\* Every variable of run_with_timeout keeps its type.
THEOREM TypeCorrect == Spec => []TypeOK
<1>1. IInv => TypeOK
  BY DEF IInv
<1>2. QED
  BY <1>1, InitIInv, NextIInv, PTL DEF Spec

\* Outside run_with_timeout a request has no callback queued or running: the
\* `with` block joins the worker also when the deadline was missed.
THEOREM WorkersAreJoined == Spec => []NoOrphanWorker
<1>1. IInv => NoOrphanWorker
  <2> SUFFICES ASSUME IInv, NEW k \in Requests \X Numbers, worker[k] \in {"queued", "running"}
               PROVE  caller[k[1]] # "idle" /\ k = Current(k[1])
    BY DEF NoOrphanWorker
  <2>1. k = <<k[1], k[2]>> /\ k[1] \in Requests /\ k[2] \in Numbers
    OBVIOUS
  <2>2. QED
    BY <2>1 DEF IInv, Joined, Current
<1>2. QED
  BY <1>1, InitIInv, NextIInv, PTL DEF Spec

\* A TimeoutError comes from the callback itself or from a deadline that passed
\* before the callback ended; any other reply is what the callback did.
THEOREM TimeoutsAreHonest == Spec => []TimeoutMeansLate
<1>1. IInv => TimeoutMeansLate
  <2> SUFFICES ASSUME IInv, NEW k \in Requests \X Numbers
               PROVE  /\ reply[k] \in {"value", "error"} => outcome[k] = reply[k]
                      /\ reply[k] = "timeout" /\ worker[k] = "ended" =>
                             outcome[k] = "timeout" \/ endedAt[k] >= Timeout
    BY DEF TimeoutMeansLate
  <2>1. k = <<k[1], k[2]>> /\ k[1] \in Requests /\ k[2] \in Numbers
    OBVIOUS
  <2>2. QED
    BY <2>1 DEF IInv, Honest
<1>2. QED
  BY <1>1, InitIInv, NextIInv, PTL DEF Spec
=============================================================================
