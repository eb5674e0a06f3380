-------------------------- MODULE DiagnosticsProofs --------------------------
(***************************************************************************)
(* Proofs about Diagnostics: it uses the telemetry as TelemetrySpec asks   *)
(* for, so that the theorems of TelemetryProofs hold of it, and its        *)
(* replies tell of what it found and what it logged.                       *)
(***************************************************************************)
EXTENDS Diagnostics, TelemetryProofs

-----------------------------------------------------------------------------
(***************************************************************************)
(* The inductive invariants.                                               *)
(***************************************************************************)
AllRequests == [tool: Sources, metrics: {FALSE}] \cup [tool: {Diagnose}, metrics: BOOLEAN]

HandlerTypes ==
    /\ phase \in [Calls -> {"idle", "reading", "closing", "answered"}]
    /\ request \in [Calls -> AllRequests \cup {Nothing}]
    /\ step \in [Calls -> 0..4]
    /\ found \in [Calls -> [Sources -> Outcomes \cup {"unread"}]]
    /\ reply \in [Calls -> Replies \cup {Nothing}]
    /\ ids \in [Calls -> Calls \cup {NoId}]
    /\ at \in [Calls -> Stages]

\* A call has the request and the reply of its phase, and its id once it has begun.
InPhase(c) ==
    /\ IF phase[c] = "idle" THEN request[c] = Nothing ELSE request[c] \in Requests(c)
    /\ IF phase[c] \in {"idle", "reading"} THEN reply[c] = Nothing ELSE reply[c] \in Replies
    /\ phase[c] = "reading" => step[c] >= 1
    /\ phase[c] # "idle" => ids[c] = c
    /\ phase[c] \in {"idle", "answered"} => at[c] = "idle"

HInv == HandlerTypes /\ \A c \in Calls : InPhase(c)

\* The call has come to a diagnosis.
Concluded(c) == phase[c] \in {"closing", "answered"} /\ "observed" \in DOMAIN reply[c]

\* Only what the step has come to has been read, and only a machine can be halted.
FoundInOrder(c) ==
    /\ phase[c] = "idle" => \A s \in Sources : found[c][s] = "unread"
    /\ phase[c] = "reading" =>
           \A s \in Sources : found[c][s] # "unread" =>
               \E i \in 1..Len(Reads(c)) : i < step[c] /\ Reads(c)[i] = s
    /\ \A s \in Sources \ {Status} : found[c][s] # "halted"

\* A diagnosis names what it lacks.
WellNamed(c) ==
    Concluded(c) =>
        /\ \A s \in Sources : Good(reply[c].observed[s]) <=> NamesOf(s) \cap reply[c].incomplete = {}
        /\ "review_observations" \in reply[c].actions =>
               /\ reply[c].actions = {"review_observations"}
               /\ \A s \in Sources : reply[c].observed[s] = "ok"

Findings(c) == FoundInOrder(c) /\ WellNamed(c)

\* The keys that a call has logged, or is about to log, are those of its findings.
KeysOf(c) ==
    {EntryKey(s, found[c][s]) : s \in {t \in Sources : found[c][t] \notin {"unread", "invalid"}}}
        \cup (IF Concluded(c) THEN {EntryKey(Diagnose, "ok")} ELSE {})

LoggedKeys(c) == {e.key : e \in {f \in log : f.id = c}}

Writes(c) == IF at[c] \in {"idle", "notify"} THEN {} ELSE {entry[c].key}

DInv ==
    /\ HInv /\ TInv
    /\ \A c \in Calls : Findings(c) /\ LoggedKeys(c) \cup Writes(c) = KeysOf(c)

-----------------------------------------------------------------------------
(***************************************************************************)
(* The handler, as far as it concerns the telemetry.                       *)
(***************************************************************************)
\* A call reads at most three sources, and none of them twice.
LEMMA ReadsAre ==
  ASSUME NEW c \in Calls, request[c] \in AllRequests
  PROVE  /\ Len(Reads(c)) \in 1..3
         /\ request[c].tool = Diagnose /\ ~request[c].metrics =>
                \A i \in 1..Len(Reads(c)) : Reads(c)[i] # Metrics
         /\ \A i \in 1..Len(Reads(c)) : Reads(c)[i] \in Sources
         /\ \A i, j \in 1..Len(Reads(c)) : Reads(c)[i] = Reads(c)[j] => i = j
         /\ request[c].tool # Diagnose => Reads(c) = <<request[c].tool>> /\ request[c].tool \in Sources
<1> USE DEF AllRequests, Sources, Status, Metrics, Advisor, Diagnose
<1>1. CASE request[c].tool # Diagnose
  <2>1. Reads(c) = <<request[c].tool>> /\ request[c].tool \in Sources
    BY <1>1 DEF Reads
  <2>2. QED
    BY <1>1, <2>1
<1>2. CASE request[c].tool = Diagnose /\ request[c].metrics
  <2>1. Reads(c) = <<Status>> \o <<Metrics>> \o <<Advisor>>
    BY <1>2, Zenon DEF Reads
  <2>2. QED
    BY <1>2, <2>1
<1>3. CASE request[c].tool = Diagnose /\ ~request[c].metrics
  <2>1. Reads(c) = <<Status>> \o <<>> \o <<Advisor>>
    BY <1>3, Zenon DEF Reads
  <2>2. QED
    BY <1>3, <2>1
<1>4. QED
  BY <1>1, <1>2, <1>3

\* The requests a call may be of are requests.
LEMMA RequestTypes == ASSUME NEW c \in Calls PROVE Requests(c) \subseteq AllRequests
BY DEF Requests, AllRequests

\* Each entry is counted under a key of the counters.
LEMMA EntryKeyIs ==
  ASSUME NEW tool \in Sources \cup {Diagnose}, NEW outcome
  PROVE  EntryKey(tool, outcome) \in Keys
BY KeysAssumption DEF EntryKey, ToolOutcomes

\* The invariant of the handler holds initially.
LEMMA InitHInv == Init => HInv
BY DEF Init, TelemetryInit, HInv, HandlerTypes, InPhase, Outcomes, Stages

\* What a step does to another call's variables leaves that call in its phase.
LEMMA OthersInPhase ==
  ASSUME HInv, NEW d \in Calls,
         phase'[d] = phase[d], request'[d] = request[d], reply'[d] = reply[d],
         step'[d] = step[d], ids'[d] = ids[d],
         at'[d] = at[d] \/ phase[d] \in {"reading", "closing"}
  PROVE  InPhase(d)'
BY DEF HInv, InPhase, Requests

\* A call begins.
LEMMA CallHInv ==
  ASSUME HInv, NEW c \in Calls, NEW r \in Requests(c), Call(c, r)
  PROVE  HInv'
<1>1. /\ phase[c] = "idle" /\ request' = [request EXCEPT ![c] = r]
      /\ ids' = [ids EXCEPT ![c] = c] /\ at' = at /\ found' = found
      /\ \/ phase' = [phase EXCEPT ![c] = "reading"] /\ step' = [step EXCEPT ![c] = 1] /\ reply' = reply
         \/ /\ phase' = [phase EXCEPT ![c] = "answered"] /\ step' = step
            /\ reply' = [reply EXCEPT ![c] = [ok |-> FALSE]]
  BY DEF Call, SetCorrelationId
<1>2. HandlerTypes /\ InPhase(c)
  BY DEF HInv
<1>3. r \in AllRequests /\ [ok |-> FALSE] \in Replies /\ reply[c] = Nothing /\ at[c] = "idle"
  BY <1>1, <1>2, RequestTypes DEF InPhase, Replies
<1>4. HandlerTypes'
  <2>1. phase' \in [Calls -> {"idle", "reading", "closing", "answered"}] /\ step' \in [Calls -> 0..4]
    <3>1. phase \in [Calls -> {"idle", "reading", "closing", "answered"}] /\ step \in [Calls -> 0..4]
      BY <1>2 DEF HandlerTypes
    <3>2. CASE phase' = [phase EXCEPT ![c] = "reading"] /\ step' = [step EXCEPT ![c] = 1]
      BY <3>1, <3>2
    <3>3. CASE phase' = [phase EXCEPT ![c] = "answered"] /\ step' = step
      BY <3>1, <3>3
    <3>4. QED
      BY <1>1, <3>2, <3>3
  <2>2. reply' \in [Calls -> Replies \cup {Nothing}] /\ request' \in [Calls -> AllRequests \cup {Nothing}]
    BY <1>1, <1>2, <1>3 DEF HandlerTypes
  <2>3. QED
    BY <1>1, <1>2, <2>1, <2>2 DEF HandlerTypes
<1>5. InPhase(c)'
  <2>1. request'[c] = r /\ ids'[c] = c /\ at'[c] = "idle" /\ Requests(c)' = Requests(c)
    BY <1>1, <1>2, <1>3 DEF HandlerTypes, Requests
  <2>2. \/ phase'[c] = "reading" /\ step'[c] = 1 /\ reply'[c] = Nothing
        \/ phase'[c] = "answered" /\ reply'[c] \in Replies
    BY <1>1, <1>2, <1>3 DEF HandlerTypes
  <2>3. QED
    BY <2>1, <2>2 DEF InPhase
<1>6. ASSUME NEW d \in Calls, d # c PROVE InPhase(d)'
  BY <1>1, <1>2, <1>6, OthersInPhase DEF HandlerTypes
<1>7. QED
  BY <1>4, <1>5, <1>6 DEF HInv

\* A read of a call.
LEMMA ReadHInv ==
  ASSUME HInv, NEW c \in Calls, Read(c)
  PROVE  HInv'
<1>1. /\ phase[c] = "reading" /\ UNCHANGED <<ids, phase, request, reply>>
      /\ step[c] <= Len(Reads(c)) /\ step' = [step EXCEPT ![c] = step[c] + 1]
      /\ at' = at \/ at' = [at EXCEPT ![c] = "count"]
  BY DEF Read, Audit, telemetry
<1>2. HandlerTypes /\ InPhase(c)
  BY DEF HInv
<1>3. request[c] \in AllRequests /\ step[c] \in 1..3
  <2>1. request[c] \in AllRequests
    BY <1>1, <1>2, RequestTypes DEF InPhase
  <2>2. QED
    BY <1>1, <1>2, <2>1, ReadsAre DEF InPhase, HandlerTypes
<1>4. PICK outcome \in Possible(Reads(c)[step[c]]) : found' = [found EXCEPT ![c][Reads(c)[step[c]]] = outcome]
  BY DEF Read
<1>5. found' \in [Calls -> [Sources -> Outcomes \cup {"unread"}]]
  <2>1. outcome \in Outcomes
    BY DEF Possible, Outcomes
  <2>2. QED
    BY <1>2, <1>4, <2>1 DEF HandlerTypes
<1>6. step' \in [Calls -> 0..4] /\ at' \in [Calls -> Stages]
  BY <1>1, <1>2, <1>3 DEF HandlerTypes, Stages
<1>7. HandlerTypes'
  BY <1>1, <1>2, <1>5, <1>6 DEF HandlerTypes
<1>8. InPhase(c)'
  <2>1. step'[c] >= 1 /\ Requests(c)' = Requests(c)
    BY <1>1, <1>2, <1>3 DEF HandlerTypes, Requests
  <2>2. QED
    BY <1>1, <1>2, <2>1 DEF InPhase
<1>9. ASSUME NEW d \in Calls, d # c PROVE InPhase(d)'
  BY <1>1, <1>2, <1>9, OthersInPhase DEF HandlerTypes
<1>10. QED
  BY <1>7, <1>8, <1>9 DEF HInv

\* What a diagnosis replies is a reply.
LEMMA DiagnosisIs ==
  ASSUME HandlerTypes, NEW c \in Calls
  PROVE  [ok |-> TRUE, observed |-> found[c], incomplete |-> IncompleteEvidence(c),
          actions |-> NextActions(found[c][Status] = "ok", IncompleteEvidence(c) = {})] \in Replies
<1>1. IncompleteEvidence(c) \in SUBSET Failures /\ found[c] \in [Sources -> Outcomes \cup {"unread"}]
  BY DEF IncompleteEvidence, HandlerTypes
<1>2. ASSUME NEW running, NEW complete PROVE NextActions(running, complete) \in SUBSET Actions
  BY DEF NextActions, Actions
<1>3. QED
  BY <1>1, <1>2 DEF Replies

\* The end of a diagnosis, and of a call.
LEMMA AnswerHInv ==
  ASSUME HInv, NEW c \in Calls, Conclude(c) \/ Return(c)
  PROVE  HInv'
<1>1. /\ phase[c] \in {"reading", "closing"} /\ UNCHANGED <<ids, request, step, found>> /\ at[c] = "idle"
      /\ \/ phase' = [phase EXCEPT ![c] = "closing"] /\ at' = [at EXCEPT ![c] = "count"]
         \/ phase' = [phase EXCEPT ![c] = "answered"] /\ at' = at
  BY DEF Conclude, Return, Audit, telemetry
<1>2. HandlerTypes /\ InPhase(c)
  BY DEF HInv
<1>3. PICK answer \in Replies : reply' = [reply EXCEPT ![c] = answer]
  <2>1. CASE Conclude(c)
    BY <1>2, <2>1, DiagnosisIs DEF Conclude
  <2>2. CASE Return(c)
    <3>1. CASE phase[c] = "closing" /\ UNCHANGED reply
      <4>1. reply[c] \in Replies /\ reply' = [reply EXCEPT ![c] = reply[c]]
        BY <1>2, <3>1 DEF InPhase, HandlerTypes
      <4>2. QED
        BY <4>1
    <3>2. CASE reply' = [reply EXCEPT ![c] = [ok |-> Good(found[c][request[c].tool])]]
      <4>1. [ok |-> Good(found[c][request[c].tool])] \in Replies
        BY DEF Replies, Good
      <4>2. QED
        BY <3>2, <4>1
    <3>3. QED
      BY <2>2, <3>1, <3>2 DEF Return
  <2>3. QED
    BY <2>1, <2>2
<1>4. HandlerTypes'
  BY <1>1, <1>2, <1>3 DEF HandlerTypes, Stages
<1>5. InPhase(c)'
  <2>1. reply'[c] \in Replies /\ Requests(c)' = Requests(c) /\ request'[c] \in Requests(c) /\ ids'[c] = c
    BY <1>1, <1>2, <1>3 DEF HandlerTypes, Requests, InPhase
  <2>2. phase'[c] = "closing" \/ (phase'[c] = "answered" /\ at'[c] = "idle")
    BY <1>1, <1>2 DEF HandlerTypes
  <2>3. QED
    BY <2>1, <2>2 DEF InPhase
<1>6. ASSUME NEW d \in Calls, d # c PROVE InPhase(d)'
  BY <1>1, <1>2, <1>3, <1>6, OthersInPhase DEF HandlerTypes
<1>7. QED
  BY <1>4, <1>5, <1>6 DEF HInv

\* The statements of audit_tool_call, and those who look on, change no handler.
LEMMA TelemetryHInv ==
  ASSUME HInv, UNCHANGED handler, Observing \/ \E c \in Calls : Auditing(c)
  PROVE  HInv'
<1>1. at \in [Calls -> Stages]
  BY DEF HInv, HandlerTypes
<1>2. ids' = ids /\ at' \in [Calls -> Stages] /\ \A d \in Calls : at[d] = "idle" => at'[d] = "idle"
  <2>1. CASE Observing
    BY <1>1, <2>1 DEF Observing, RegisterToolLifecycleHook, Snapshot, ReadRow
  <2>2. CASE \E c \in Calls : Auditing(c)
    <3>1. PICK c \in Calls : Auditing(c)
      BY <2>2
    <3>2. CASE ReadCount(c) \/ WriteCount(c) \/ ReadTotal(c) \/ WriteTotal(c) \/ Log(c) \/ Audited(c)
      BY <1>1, <3>2 DEF ReadCount, WriteCount, ReadTotal, WriteTotal, Load, Log, Audited, Stages
    <3>3. CASE Notify(c)
      BY <1>1, <3>3 DEF Notify
    <3>4. QED
      BY <3>1, <3>2, <3>3 DEF Auditing
  <2>3. QED
    BY <2>1, <2>2
<1>3. UNCHANGED <<phase, request, step, found, reply>>
  BY DEF handler
<1>4. HandlerTypes'
  BY <1>2, <1>3 DEF HInv, HandlerTypes
<1>5. ASSUME NEW d \in Calls PROVE InPhase(d)'
  BY <1>2, <1>3 DEF HInv, InPhase, Requests
<1>6. QED
  BY <1>4, <1>5 DEF HInv

\* Every step keeps the invariant of the handler.
LEMMA NextHInv == HInv /\ [Next]_vars => HInv'
<1> SUFFICES ASSUME HInv, [Next]_vars PROVE HInv'
  OBVIOUS
<1>1. ASSUME NEW c \in Calls, NEW r \in Requests(c), Call(c, r) PROVE HInv'
  BY <1>1, CallHInv
<1>2. ASSUME NEW c \in Calls, Handling(c) PROVE HInv'
  BY <1>2, ReadHInv, AnswerHInv DEF Handling
<1>3. CASE Observing /\ UNCHANGED handler
  BY <1>3, TelemetryHInv
<1>4. CASE \E c \in Calls : Auditing(c) /\ UNCHANGED handler
  BY <1>4, TelemetryHInv
<1>5. CASE UNCHANGED vars
  BY <1>5 DEF vars, handler, telemetry, HInv, HandlerTypes, InPhase, Requests
<1>6. QED
  BY <1>1, <1>2, <1>3, <1>4, <1>5 DEF Next

\* Each step is one that the telemetry allows, or none of its business.
LEMMA NextUsesTelemetry == HInv /\ [Next]_vars => [TelemetryNext]_telemetry
<1> SUFFICES ASSUME HInv, [Next]_vars PROVE [TelemetryNext]_telemetry
  OBVIOUS
<1>1. ASSUME NEW c \in Calls, NEW r \in Requests(c), Call(c, r) PROVE TelemetryNext
  <2>1. at[c] = "idle"
    BY <1>1 DEF Call, HInv, InPhase
  <2>2. SetCorrelationId(c) /\ UNCHANGED <<counters, hooks, at, entry, loaded, notices, log, view>>
    BY <1>1 DEF Call
  <2>3. QED
    BY <2>1, <2>2 DEF TelemetryNext
<1>2. ASSUME NEW c \in Calls, NEW key \in Keys, phase[c] # "idle", Audit(c, key), UNCHANGED ids
      PROVE  TelemetryNext
  <2>1. ids[c] = c
    BY <1>2 DEF HInv, InPhase
  <2>2. QED
    BY <1>2, <2>1 DEF TelemetryNext
<1>3. ASSUME NEW c \in Calls, Read(c) PROVE [TelemetryNext]_telemetry
  <2>1. phase[c] = "reading" /\ step[c] <= Len(Reads(c)) /\ UNCHANGED ids
    BY <1>3 DEF Read
  <2>2. Reads(c)[step[c]] \in Sources
    <3>1. request[c] \in AllRequests /\ step[c] \in 1..4
      BY <2>1, RequestTypes DEF HInv, HandlerTypes, InPhase
    <3>2. QED
      BY <2>1, <3>1, ReadsAre
  <2>3. PICK outcome \in Possible(Reads(c)[step[c]]) :
           UNCHANGED telemetry \/ Audit(c, EntryKey(Reads(c)[step[c]], outcome))
    BY <1>3 DEF Read
  <2>4. EntryKey(Reads(c)[step[c]], outcome) \in Keys
    BY <2>2, EntryKeyIs
  <2>5. QED
    BY <1>2, <2>1, <2>3, <2>4
<1>4. ASSUME NEW c \in Calls, Conclude(c) PROVE TelemetryNext
  <2>1. phase[c] = "reading" /\ Audit(c, EntryKey(Diagnose, "ok")) /\ UNCHANGED ids
    BY <1>4 DEF Conclude
  <2>2. EntryKey(Diagnose, "ok") \in Keys
    BY EntryKeyIs
  <2>3. QED
    BY <1>2, <2>1, <2>2
<1>5. ASSUME NEW c \in Calls, Return(c) PROVE UNCHANGED telemetry
  BY <1>5 DEF Return
<1>6. CASE Observing \/ \E c \in Calls : Auditing(c)
  BY <1>6 DEF TelemetryNext
<1>7. CASE UNCHANGED vars
  BY <1>7 DEF vars
<1>8. QED
  BY <1>1, <1>3, <1>4, <1>5, <1>6, <1>7 DEF Next, Handling

-----------------------------------------------------------------------------
(***************************************************************************)
(* What the handler found, replied and logged.                             *)
(***************************************************************************)
\* A step that leaves the handler of a call alone keeps its findings, and the keys
\* they call for.
LEMMA FindingsKept ==
  ASSUME NEW d \in Calls, Findings(d),
         phase'[d] = phase[d], request'[d] = request[d], step'[d] = step[d],
         found'[d] = found[d], reply'[d] = reply[d]
  PROVE  Findings(d)' /\ KeysOf(d)' = KeysOf(d)
<1>1. Reads(d)' = Reads(d) /\ (Concluded(d)' <=> Concluded(d))
  BY DEF Reads, Concluded
<1>2. QED
  BY <1>1 DEF Findings, FoundInOrder, WellNamed, KeysOf

\* A call that reads nothing more and comes to no diagnosis keeps them too.
LEMMA SameFindings ==
  ASSUME NEW c \in Calls, found'[c] = found[c], Concluded(c)' <=> Concluded(c)
  PROVE  KeysOf(c)' = KeysOf(c)
BY DEF KeysOf

\* The wrapper finds nothing and logs nothing.
LEMMA CallFindings ==
  ASSUME DInv, NEW c \in Calls, NEW r \in Requests(c), Call(c, r)
  PROVE  \A d \in Calls : Findings(d)' /\ LoggedKeys(d)' \cup Writes(d)' = KeysOf(d)'
<1>1. HandlerTypes /\ Findings(c) /\ LoggedKeys(c) \cup Writes(c) = KeysOf(c)
  BY DEF DInv, HInv
<1>2. /\ phase[c] = "idle" /\ found' = found /\ at' = at /\ entry' = entry /\ log' = log
      /\ \/ phase' = [phase EXCEPT ![c] = "reading"] /\ reply' = reply
         \/ phase' = [phase EXCEPT ![c] = "answered"] /\ reply' = [reply EXCEPT ![c] = [ok |-> FALSE]]
  BY DEF Call
<1>3. \A d : LoggedKeys(d)' = LoggedKeys(d) /\ Writes(d)' = Writes(d)
  BY <1>2 DEF LoggedKeys, Writes
<1>4. ~Concluded(c) /\ ~Concluded(c)'
  <2>1. phase'[c] = "reading" \/ (phase'[c] = "answered" /\ reply'[c] = [ok |-> FALSE])
    BY <1>1, <1>2 DEF HandlerTypes
  <2>2. "observed" \notin DOMAIN [ok |-> FALSE]
    OBVIOUS
  <2>3. QED
    BY <1>2, <2>1, <2>2 DEF Concluded
<1>5. Findings(c)'
  <2>1. phase'[c] # "idle" /\ \A s \in Sources : found'[c][s] = "unread"
    BY <1>1, <1>2 DEF HandlerTypes, Findings, FoundInOrder
  <2>2. QED
    BY <1>4, <2>1 DEF Findings, FoundInOrder, WellNamed
<1>6. KeysOf(c)' = KeysOf(c)
  BY <1>2, <1>4, SameFindings
<1>7. ASSUME NEW d \in Calls, d # c PROVE Findings(d)' /\ KeysOf(d)' = KeysOf(d)
  <2>1. /\ phase'[d] = phase[d] /\ request'[d] = request[d] /\ step'[d] = step[d]
        /\ found'[d] = found[d] /\ reply'[d] = reply[d] /\ Findings(d)
    BY <1>1, <1>7 DEF HandlerTypes, Call, DInv
  <2>2. QED
    BY <2>1, FindingsKept
<1>8. QED
  BY <1>1, <1>3, <1>5, <1>6, <1>7 DEF DInv

\* A read that is audited is found, and its entry is begun.
LEMMA ReadFindings ==
  ASSUME DInv, NEW c \in Calls, Read(c)
  PROVE  \A d \in Calls : Findings(d)' /\ LoggedKeys(d)' \cup Writes(d)' = KeysOf(d)'
<1> DEFINE source == Reads(c)[step[c]]
<1>1. HandlerTypes /\ InPhase(c) /\ Findings(c) /\ LoggedKeys(c) \cup Writes(c) = KeysOf(c)
  BY DEF DInv, HInv
<1>2. /\ phase[c] = "reading" /\ at[c] = "idle" /\ step[c] <= Len(Reads(c))
      /\ UNCHANGED <<phase, request, reply, log>> /\ step' = [step EXCEPT ![c] = step[c] + 1]
  BY DEF Read, Audit, telemetry
<1>3. PICK outcome \in Possible(source) :
        /\ found' = [found EXCEPT ![c][source] = outcome]
        /\ IF outcome = "invalid" THEN UNCHANGED telemetry ELSE Audit(c, EntryKey(source, outcome))
  BY DEF Read
<1>4. request[c] \in AllRequests /\ step[c] \in 1..Len(Reads(c)) /\ source \in Sources
  <2>1. request[c] \in AllRequests
    BY <1>1, <1>2, RequestTypes DEF InPhase
  <2>2. QED
    BY <1>1, <1>2, <2>1, ReadsAre DEF InPhase, HandlerTypes
<1>5. found[c][source] = "unread"
  BY <1>1, <1>2, <1>4, ReadsAre DEF Findings, FoundInOrder
<1>6. /\ found'[c] = [found[c] EXCEPT ![source] = outcome] /\ found[c] \in [Sources -> Outcomes \cup {"unread"}]
      /\ step'[c] = step[c] + 1
  <2>1. found \in [Calls -> [Sources -> Outcomes \cup {"unread"}]] /\ step \in [Calls -> 0..4]
    BY <1>1 DEF HandlerTypes
  <2>2. QED
    BY <1>2, <1>3, <2>1
<1>7. Reads(c)' = Reads(c) /\ ~Concluded(c) /\ ~Concluded(c)'
  BY <1>2 DEF Reads, Concluded
<1>8. Findings(c)'
  <2>1. outcome = "halted" => source = Status
    BY DEF Possible
  <2>2. \A s \in Sources \ {Status} : found'[c][s] # "halted"
    BY <1>1, <1>6, <2>1 DEF Findings, FoundInOrder
  <2>3. ASSUME NEW s \in Sources, found'[c][s] # "unread"
        PROVE  \E i \in 1..Len(Reads(c)) : i < step[c] + 1 /\ Reads(c)[i] = s
    <3>1. CASE s = source
      BY <1>4, <3>1
    <3>2. CASE s # source
      <4>1. found[c][s] # "unread"
        BY <1>6, <2>3, <3>2
      <4>2. PICK i \in 1..Len(Reads(c)) : i < step[c] /\ Reads(c)[i] = s
        BY <1>1, <1>2, <4>1 DEF Findings, FoundInOrder
      <4>3. QED
        BY <1>4, <4>2
    <3>3. QED
      BY <3>1, <3>2
  <2>4. QED
    BY <1>2, <1>6, <1>7, <2>2, <2>3 DEF Findings, FoundInOrder, WellNamed
<1>9. LoggedKeys(c)' = LoggedKeys(c) /\ Writes(c) = {}
  BY <1>2 DEF LoggedKeys, Writes
<1>10. KeysOf(c) = {EntryKey(s, found[c][s]) : s \in {t \in Sources : found[c][t] \notin {"unread", "invalid"}}}
  BY <1>7 DEF KeysOf
<1>11. KeysOf(c)' = {EntryKey(s, found'[c][s]) : s \in {t \in Sources : found'[c][t] \notin {"unread", "invalid"}}}
  BY <1>7 DEF KeysOf
<1>12. LoggedKeys(c)' \cup Writes(c)' = KeysOf(c)'
  <2>1. CASE outcome = "invalid"
    <3>1. Writes(c)' = {}
      BY <1>2, <1>3, <2>1 DEF Writes, telemetry
    <3>2. KeysOf(c)' = KeysOf(c)
      BY <1>4, <1>5, <1>6, <1>10, <1>11, <2>1
    <3>3. QED
      BY <1>1, <1>9, <3>1, <3>2
  <2>2. CASE outcome # "invalid"
    <3>1. Writes(c)' = {EntryKey(source, outcome)}
      <4>1. at'[c] = "count" /\ entry'[c].key = EntryKey(source, outcome)
        <5>1. at \in [Calls -> Stages] /\ entry \in [Calls -> Entries \cup {NoEntry}]
          BY DEF DInv, TInv, Types
        <5>2. QED
          BY <1>3, <2>2, <5>1 DEF Audit
      <4>2. QED
        BY <4>1 DEF Writes
    <3>2. outcome # "unread"
      BY DEF Possible
    <3>3. KeysOf(c)' = KeysOf(c) \cup {EntryKey(source, outcome)}
      BY <1>4, <1>5, <1>6, <1>10, <1>11, <2>2, <3>2
    <3>4. QED
      BY <1>1, <1>9, <3>1, <3>3
  <2>3. QED
    BY <2>1, <2>2
<1>13. ASSUME NEW d \in Calls, d # c
       PROVE  Findings(d)' /\ LoggedKeys(d)' \cup Writes(d)' = KeysOf(d)'
  <2>1. /\ phase'[d] = phase[d] /\ request'[d] = request[d] /\ step'[d] = step[d]
        /\ found'[d] = found[d] /\ reply'[d] = reply[d] /\ Findings(d)
    BY <1>1, <1>2, <1>3, <1>13 DEF HandlerTypes, DInv
  <2>2. Findings(d)' /\ KeysOf(d)' = KeysOf(d)
    BY <2>1, FindingsKept
  <2>3. LoggedKeys(d)' = LoggedKeys(d) /\ Writes(d)' = Writes(d)
    <3>1. at'[d] = at[d] /\ entry'[d] = entry[d]
      BY <1>3, <1>13 DEF Audit, telemetry, DInv, TInv, Types
    <3>2. QED
      BY <1>2, <3>1 DEF LoggedKeys, Writes
  <2>4. QED
    BY <2>2, <2>3 DEF DInv
<1>14. QED
  BY <1>8, <1>12, <1>13

\* A diagnosis names what it lacks, and advises what its evidence calls for.
LEMMA DiagnosisNames ==
  ASSUME HandlerTypes, NEW c \in Calls, InPhase(c), FoundInOrder(c),
         phase[c] = "reading", request[c].tool = Diagnose,
         NEW advised, advised = NextActions(found[c][Status] = "ok", IncompleteEvidence(c) = {})
  PROVE  /\ \A s \in Sources : Good(found[c][s]) <=> NamesOf(s) \cap IncompleteEvidence(c) = {}
         /\ "review_observations" \in advised =>
                advised = {"review_observations"} /\ \A s \in Sources : found[c][s] = "ok"
<1>1. request[c] \in AllRequests /\ found[c] \in [Sources -> Outcomes \cup {"unread"}]
  BY RequestTypes DEF InPhase, HandlerTypes
<1>2. ~request[c].metrics => found[c][Metrics] = "unread"
  BY <1>1, ReadsAre DEF FoundInOrder, Sources
<1>3. /\ "vm_instance_view_failed" \in IncompleteEvidence(c) <=> ~Good(found[c][Status])
      /\ "metrics_not_requested" \in IncompleteEvidence(c) <=> ~request[c].metrics
      /\ "metrics_query_failed" \in IncompleteEvidence(c) <=> request[c].metrics /\ ~Good(found[c][Metrics])
      /\ "advisor_query_failed" \in IncompleteEvidence(c) <=> ~Good(found[c][Advisor])
  BY DEF IncompleteEvidence, Failures
<1>4. ASSUME NEW s \in Sources
      PROVE  Good(found[c][s]) <=> NamesOf(s) \cap IncompleteEvidence(c) = {}
  <2>1. CASE s = Status
    BY <1>3, <2>1 DEF NamesOf
  <2>2. CASE s = Metrics
    <3>1. NamesOf(s) = {"metrics_not_requested", "metrics_query_failed"}
      BY <2>2 DEF NamesOf, Status, Metrics
    <3>2. NamesOf(s) \cap IncompleteEvidence(c) = {} <=> request[c].metrics /\ Good(found[c][Metrics])
      BY <1>3, <3>1
    <3>3. ~Good("unread")
      BY DEF Good
    <3>4. QED
      BY <1>2, <2>2, <3>2, <3>3
  <2>3. CASE s = Advisor
    BY <1>3, <2>3 DEF NamesOf, Status, Metrics, Advisor
  <2>4. QED
    BY <2>1, <2>2, <2>3 DEF Sources
<1>5. ASSUME "review_observations" \in advised
      PROVE  advised = {"review_observations"} /\ \A s \in Sources : found[c][s] = "ok"
  <2>1. /\ advised = {"review_observations"}
        /\ found[c][Status] = "ok" /\ IncompleteEvidence(c) = {}
    BY <1>5 DEF NextActions
  <2>2. ASSUME NEW s \in Sources PROVE found[c][s] = "ok"
    <3>1. Good(found[c][s])
      BY <1>4, <2>1
    <3>2. QED
      BY <2>1, <3>1 DEF Good, FoundInOrder
  <2>3. QED
    BY <2>1, <2>2
<1>6. QED
  BY <1>4, <1>5

\* A call that concludes begins the entry of its diagnosis; one that returns, none.
LEMMA AnswerFindings ==
  ASSUME DInv, NEW c \in Calls, Conclude(c) \/ Return(c)
  PROVE  \A d \in Calls : Findings(d)' /\ LoggedKeys(d)' \cup Writes(d)' = KeysOf(d)'
<1>1. HandlerTypes /\ InPhase(c) /\ Findings(c) /\ LoggedKeys(c) \cup Writes(c) = KeysOf(c)
  BY DEF DInv, HInv
<1>2. /\ phase[c] \in {"reading", "closing"} /\ phase'[c] \in {"closing", "answered"} /\ at[c] = "idle"
      /\ UNCHANGED <<request, step, found, log>>
      /\ \A d \in Calls : d # c =>
             phase'[d] = phase[d] /\ reply'[d] = reply[d] /\ at'[d] = at[d] /\ entry'[d] = entry[d]
  BY <1>1 DEF HandlerTypes, Conclude, Return, Audit, telemetry, DInv, TInv, Types
<1>3. (\A d : LoggedKeys(d)' = LoggedKeys(d)) /\ Writes(c) = {}
  BY <1>2 DEF LoggedKeys, Writes
<1>4. FoundInOrder(c)'
  BY <1>1, <1>2 DEF Findings, FoundInOrder
<1>5. ASSUME Conclude(c) PROVE Findings(c)' /\ LoggedKeys(c)' \cup Writes(c)' = KeysOf(c)'
  <2> DEFINE advised == NextActions(found[c][Status] = "ok", IncompleteEvidence(c) = {})
             diagnosis == [ok |-> TRUE, observed |-> found[c], incomplete |-> IncompleteEvidence(c),
                           actions |-> advised]
  <2>1. /\ phase[c] = "reading" /\ request[c].tool = Diagnose /\ phase'[c] = "closing"
        /\ reply'[c] = diagnosis
    BY <1>1, <1>5 DEF Conclude, HandlerTypes
  <2>2. ~Concluded(c) /\ Concluded(c)'
    BY <2>1 DEF Concluded
  <2>3. /\ \A s \in Sources : Good(found[c][s]) <=> NamesOf(s) \cap IncompleteEvidence(c) = {}
        /\ "review_observations" \in advised =>
               advised = {"review_observations"} /\ \A s \in Sources : found[c][s] = "ok"
    BY <1>1, <2>1, DiagnosisNames DEF Findings
  <2>4. WellNamed(c)'
    <3>1. /\ reply'[c].observed = found[c] /\ reply'[c].incomplete = IncompleteEvidence(c)
          /\ reply'[c].actions = advised
      BY <2>1
    <3> HIDE DEF advised
    <3>2. QED
      BY <2>3, <3>1 DEF WellNamed
  <2>5. Writes(c)' = {EntryKey(Diagnose, "ok")}
    <3>1. at'[c] = "count" /\ entry'[c].key = EntryKey(Diagnose, "ok")
      <4>1. at \in [Calls -> Stages] /\ entry \in [Calls -> Entries \cup {NoEntry}]
        BY DEF DInv, TInv, Types
      <4>2. QED
        BY <1>5, <4>1 DEF Conclude, Audit
    <3>2. QED
      BY <3>1 DEF Writes
  <2>6. KeysOf(c)' = KeysOf(c) \cup {EntryKey(Diagnose, "ok")}
    BY <1>2, <2>2 DEF KeysOf
  <2>7. QED
    BY <1>1, <1>3, <1>4, <2>4, <2>5, <2>6 DEF Findings
<1>6. ASSUME Return(c) PROVE Findings(c)' /\ LoggedKeys(c)' \cup Writes(c)' = KeysOf(c)'
  <2>1. phase'[c] = "answered" /\ at' = at
    BY <1>1, <1>6 DEF Return, HandlerTypes, telemetry
  <2>2. (Concluded(c)' <=> Concluded(c)) /\ (Concluded(c) => reply'[c] = reply[c])
    <3>1. CASE phase[c] = "closing" /\ UNCHANGED reply
      BY <2>1, <3>1 DEF Concluded
    <3>2. CASE phase[c] = "reading" /\ reply' = [reply EXCEPT ![c] = [ok |-> Good(found[c][request[c].tool])]]
      <4>1. reply'[c] = [ok |-> Good(found[c][request[c].tool])]
        BY <1>1, <3>2 DEF HandlerTypes
      <4>2. "observed" \notin DOMAIN reply'[c]
        BY <4>1
      <4>3. QED
        BY <3>2, <4>2 DEF Concluded
    <3>3. QED
      BY <1>6, <3>1, <3>2 DEF Return
  <2>3. WellNamed(c)'
    BY <1>1, <2>2 DEF Findings, WellNamed
  <2>4. KeysOf(c)' = KeysOf(c)
    BY <1>2, <2>2, SameFindings
  <2>5. Writes(c)' = {}
    BY <1>2, <2>1 DEF Writes
  <2>6. QED
    BY <1>1, <1>3, <1>4, <2>3, <2>4, <2>5 DEF Findings
<1>7. ASSUME NEW d \in Calls, d # c
      PROVE  Findings(d)' /\ LoggedKeys(d)' \cup Writes(d)' = KeysOf(d)'
  <2>1. Findings(d)' /\ KeysOf(d)' = KeysOf(d)
    BY <1>2, <1>7, FindingsKept DEF DInv
  <2>2. Writes(d)' = Writes(d)
    BY <1>2, <1>7 DEF Writes
  <2>3. QED
    BY <1>3, <2>1, <2>2 DEF DInv
<1>8. QED
  BY <1>5, <1>6, <1>7

\* What a call is about to log, it logs: under its own id, whoever else does.
LEMMA TelemetryFindings ==
  ASSUME DInv, UNCHANGED handler, Observing \/ \E c \in Calls : Auditing(c)
  PROVE  \A d \in Calls : Findings(d)' /\ LoggedKeys(d)' \cup Writes(d)' = KeysOf(d)'
<1>1. ASSUME NEW d \in Calls PROVE Findings(d)' /\ KeysOf(d)' = KeysOf(d)
  BY FindingsKept DEF DInv, handler
<1>2. ASSUME NEW d \in Calls PROVE LoggedKeys(d)' \cup Writes(d)' = LoggedKeys(d) \cup Writes(d)
  <2>1. /\ at \in [Calls -> Stages] /\ entry \in [Calls -> Entries \cup {NoEntry}]
        /\ \A e \in Calls : at[e] # "idle" => ids[e] = e
    BY DEF DInv, TInv, Types, OwnEntry
  <2>2. CASE Observing
    BY <2>2 DEF Observing, RegisterToolLifecycleHook, Snapshot, ReadRow, LoggedKeys, Writes
  <2>3. ASSUME NEW c \in Calls, ReadCount(c) \/ WriteCount(c) \/ ReadTotal(c) \/ WriteTotal(c)
        PROVE  LoggedKeys(d)' \cup Writes(d)' = LoggedKeys(d) \cup Writes(d)
    <3>1. /\ log' = log /\ entry' = entry
          /\ at[d] \in {"idle", "notify"} <=> at'[d] \in {"idle", "notify"}
      BY <2>1, <2>3 DEF ReadCount, WriteCount, ReadTotal, WriteTotal, Load
    <3>2. QED
      BY <3>1 DEF LoggedKeys, Writes
  <2>4. ASSUME NEW c \in Calls, Notify(c) \/ Audited(c)
        PROVE  LoggedKeys(d)' \cup Writes(d)' = LoggedKeys(d) \cup Writes(d)
    <3>1. /\ log' = log
          /\ at[d] \in {"idle", "notify"} <=> at'[d] \in {"idle", "notify"}
          /\ at[d] \notin {"idle", "notify"} => entry'[d] = entry[d]
      BY <2>1, <2>4 DEF Notify, Audited
    <3>2. QED
      BY <3>1 DEF LoggedKeys, Writes
  <2>5. ASSUME NEW c \in Calls, Log(c)
        PROVE  LoggedKeys(d)' \cup Writes(d)' = LoggedKeys(d) \cup Writes(d)
    <3> DEFINE mine == [call |-> c, key |-> entry[c].key, number |-> entry[c].number, id |-> ids[c]]
    <3>1. /\ log' = log \cup {mine} /\ entry' = entry /\ mine.id = c /\ mine.key = entry[c].key
          /\ at[c] = "log" /\ at' = [at EXCEPT ![c] = "notify"]
      BY <2>1, <2>5 DEF Log
    <3> HIDE DEF mine
    <3>2. CASE d = c
      <4>1. LoggedKeys(d)' = LoggedKeys(d) \cup {entry[c].key}
        BY <3>1, <3>2 DEF LoggedKeys
      <4>2. Writes(d) = {entry[c].key} /\ Writes(d)' = {}
        BY <2>1, <3>1, <3>2 DEF Writes
      <4>3. QED
        BY <4>1, <4>2
    <3>3. CASE d # c
      <4>1. LoggedKeys(d)' = LoggedKeys(d)
        BY <3>1, <3>3 DEF LoggedKeys
      <4>2. Writes(d)' = Writes(d)
        BY <2>1, <3>1, <3>3 DEF Writes
      <4>3. QED
        BY <4>1, <4>2
    <3>4. QED
      BY <3>2, <3>3
  <2>6. QED
    BY <2>2, <2>3, <2>4, <2>5 DEF Auditing
<1>3. QED
  BY <1>1, <1>2 DEF DInv

\* Every step keeps the invariant.
LEMMA NextDInv == DInv /\ [Next]_vars => DInv'
<1> SUFFICES ASSUME DInv, [Next]_vars PROVE DInv'
  OBVIOUS
<1>1. HInv' /\ TInv'
  BY NextHInv, NextUsesTelemetry, NextTInv DEF DInv
<1>2. ASSUME NEW c \in Calls, NEW r \in Requests(c), Call(c, r) PROVE DInv'
  BY <1>1, <1>2, CallFindings DEF DInv
<1>3. ASSUME NEW c \in Calls, Handling(c) PROVE DInv'
  BY <1>1, <1>3, ReadFindings, AnswerFindings DEF Handling, DInv
<1>4. CASE UNCHANGED handler /\ (Observing \/ \E c \in Calls : Auditing(c))
  BY <1>1, <1>4, TelemetryFindings DEF DInv
<1>5. CASE UNCHANGED vars
  <2>1. ASSUME NEW d \in Calls PROVE Findings(d)' /\ KeysOf(d)' = KeysOf(d)
    BY <1>5, FindingsKept DEF DInv, vars, handler
  <2>2. ASSUME NEW d \in Calls PROVE LoggedKeys(d)' \cup Writes(d)' = LoggedKeys(d) \cup Writes(d)
    BY <1>5 DEF vars, telemetry, LoggedKeys, Writes
  <2>3. QED
    BY <1>1, <2>1, <2>2 DEF DInv
<1>6. QED
  BY <1>2, <1>3, <1>4, <1>5 DEF Next

\* The invariant holds initially.
LEMMA InitDInv == Init => DInv
<1> SUFFICES ASSUME Init PROVE DInv
  OBVIOUS
<1>1. HInv /\ TInv
  BY InitHInv, InitTInv DEF Init
<1>2. ASSUME NEW c \in Calls PROVE Findings(c) /\ LoggedKeys(c) \cup Writes(c) = KeysOf(c)
  <2>1. /\ phase[c] = "idle" /\ at[c] = "idle" /\ log = {}
        /\ \A s \in Sources : found[c][s] = "unread"
    BY DEF Init, TelemetryInit
  <2>2. QED
    BY <2>1 DEF Findings, FoundInOrder, WellNamed, Concluded, LoggedKeys, Writes, KeysOf
<1>3. QED
  BY <1>1, <1>2 DEF DInv

-----------------------------------------------------------------------------
(***************************************************************************)
(* The refinement, and what comes with it.                                 *)
(***************************************************************************)

\* The tools use the telemetry as it is meant to be used: every call sets its own id
\* before its first entry, and begins one entry at a time.
THEOREM UsesTelemetry == Spec => TelemetrySpec
<1>1. Init => TelemetryInit
  BY DEF Init
<1>2. QED
  BY <1>1, InitHInv, NextHInv, NextUsesTelemetry, PTL DEF Spec, TelemetrySpec

\* Every variable keeps its type, and calls have what their phase says they have.
THEOREM TypeCorrect == Spec => []TypeOK
<1>1. TelemetryTypeOK /\ HInv => TypeOK
  BY DEF TypeOK, HInv, HandlerTypes, InPhase
<1>2. QED
  BY <1>1, InitHInv, NextHInv, UsesTelemetry, TelemetryTypeCorrect, PTL DEF Spec

\* So what holds of the telemetry holds of it while diagnoses and reads run: counters
\* that agree with the log, snapshots that cover the calls they count, and hooks that
\* are told of each entry once.
THEOREM TelemetryHolds == Spec => [](CountsMatchLog /\ RowsCoverCalls /\ HooksToldOnce)
BY UsesTelemetry, CountsAreHonest, RowsAreCovered, HooksAreTold, PTL

\* The invariant of the findings holds in every reachable state.
THEOREM Inductive == Spec => []DInv
BY InitDInv, NextDInv, PTL DEF Spec

\* A diagnosis names exactly the sources it has no good answer of, and advises only a
\* review when it has them all and the machine is running.
THEOREM DiagnosesAreHonest == Spec => []EvidenceNamed
<1>1. DInv => EvidenceNamed
  BY DEF DInv, Findings, WellNamed, Concluded, EvidenceNamed, IsDiagnosis
<1>2. QED
  BY <1>1, Inductive, PTL

\* The entries that carry the id of an answered call are those of the reads behind its
\* reply, whoever else wrote entries meanwhile.
THEOREM LogsAreComplete == Spec => []LogTellsReply
<1>1. DInv => LogTellsReply
  <2> SUFFICES ASSUME DInv, NEW c \in Calls, phase[c] = "answered"
               PROVE  LoggedKeys(c) =
                          {EntryKey(s, found[c][s]) : s \in {t \in Sources : found[c][t] \notin {"unread", "invalid"}}}
                              \cup (IF IsDiagnosis(c) THEN {EntryKey(Diagnose, "ok")} ELSE {})
    BY DEF LogTellsReply, LoggedKeys
  <2>1. Writes(c) = {}
    BY DEF DInv, HInv, InPhase, Writes
  <2>2. Concluded(c) <=> IsDiagnosis(c)
    BY DEF Concluded, IsDiagnosis
  <2>3. QED
    BY <2>1, <2>2 DEF DInv, KeysOf
<1>2. QED
  BY <1>1, Inductive, PTL
=============================================================================
