----------------------------- MODULE Diagnostics -----------------------------
(***************************************************************************)
(* diagnose_virtual_machine (src/tools/diagnostics.py) with the telemetry  *)
(* of every call it makes: three read tools in turn, each of which writes  *)
(* an audit entry of its own, then a reply that says what is missing.      *)
(* Other clients call the same read tools meanwhile.                       *)
(*                                                                         *)
(* A read tool never raises: it returns ok, an error envelope that it has  *)
(* audited, or a validation error that it has not; InventoryTools has how  *)
(* it comes to that.  Azure is external: any read may fail, and the        *)
(* machine may be running or not.                                          *)
(***************************************************************************)
EXTENDS Telemetry

CONSTANTS
    Diagnosing,  \* the calls that may be of diagnose_virtual_machine
    Nothing      \* no request, no reply

ASSUME DiagnosingAssumption == Diagnosing \subseteq Calls

VARIABLES
    phase,    \* where the call is
    request,  \* the tool it is of, and whether metrics are asked for
    step,     \* the read it is at
    found,    \* what each read has returned to it
    reply     \* what it returns to its client

handler == <<phase, request, step, found, reply>>
vars == <<telemetry, handler>>

Status == "get_virtual_machine_status"
Metrics == "get_resource_metrics"
Advisor == "list_advisor_recommendations"
Diagnose == "diagnose_virtual_machine"

Sources == {Status, Metrics, Advisor}

\* The keys of the counters.
ToolOutcomes == (Sources \cup {Diagnose}) \X {"success", "error"}

ASSUME KeysAssumption == ToolOutcomes \subseteq Keys

\* "halted" is an ok status too: that of a machine that is not running, taken here to
\* include one that is starting or deallocating, as _next_actions does.
Outcomes == {"ok", "halted", "error", "invalid"}

Good(outcome) == outcome \in {"ok", "halted"}

EntryKey(tool, outcome) == <<tool, IF Good(outcome) THEN "success" ELSE "error">>

Requests(c) ==
    [tool: Sources, metrics: {FALSE}]
        \cup (IF c \in Diagnosing THEN [tool: {Diagnose}, metrics: BOOLEAN] ELSE {})

Failures == {"vm_instance_view_failed", "metrics_not_requested", "metrics_query_failed",
             "advisor_query_failed"}

Actions == {"confirm_power_state", "collect_evidence", "review_observations"}

Replies ==
    [ok: BOOLEAN] \cup
        [ok: {TRUE}, observed: [Sources -> Outcomes \cup {"unread"}],
         incomplete: SUBSET Failures, actions: SUBSET Actions]

TypeOK ==
    /\ TelemetryTypeOK
    /\ phase \in [Calls -> {"idle", "reading", "closing", "answered"}]
    /\ \A c \in Calls :
         /\ IF phase[c] = "idle" THEN request[c] = Nothing ELSE request[c] \in Requests(c)
         /\ step[c] \in 0..4
         /\ found[c] \in [Sources -> Outcomes \cup {"unread"}]
         /\ IF phase[c] \in {"idle", "reading"} THEN reply[c] = Nothing ELSE reply[c] \in Replies

Init ==
    /\ TelemetryInit
    /\ phase = [c \in Calls |-> "idle"]
    /\ request = [c \in Calls |-> Nothing]
    /\ step = [c \in Calls |-> 0]
    /\ found = [c \in Calls |-> [s \in Sources |-> "unread"]]
    /\ reply = [c \in Calls |-> Nothing]

-----------------------------------------------------------------------------
\* Mutant: refused arguments end the call with no reply.
CallUnanswered(c, r) ==
    /\ phase[c] = "idle"
    /\ SetCorrelationId(c)
    /\ request' = [request EXCEPT ![c] = r]
    /\ \/ /\ phase' = [phase EXCEPT ![c] = "reading"]
          /\ step' = [step EXCEPT ![c] = 1]
       \/ /\ phase' = [phase EXCEPT ![c] = "answered"]
          /\ UNCHANGED step
    /\ UNCHANGED <<counters, hooks, at, entry, loaded, notices, log, view, found, reply>>

\* Mutant: the tool was registered without its wrapper.
CallUnwrapped(c, r) ==
    /\ phase[c] = "idle"
    /\ request' = [request EXCEPT ![c] = r]
    /\ phase' = [phase EXCEPT ![c] = "reading"]
    /\ step' = [step EXCEPT ![c] = 1]
    /\ UNCHANGED <<ids, counters, hooks, at, entry, loaded, notices, log, view, found, reply>>

\* The wrapper of the tool; arguments it refuses are answered at once.
Call(c, r) ==
    /\ phase[c] = "idle"
    /\ SetCorrelationId(c)
    /\ request' = [request EXCEPT ![c] = r]
    /\ \/ /\ phase' = [phase EXCEPT ![c] = "reading"]
          /\ step' = [step EXCEPT ![c] = 1]
          /\ UNCHANGED reply
       \/ /\ phase' = [phase EXCEPT ![c] = "answered"]
          /\ reply' = [reply EXCEPT ![c] = [ok |-> FALSE]]
          /\ UNCHANGED step
    /\ UNCHANGED <<counters, hooks, at, entry, loaded, notices, log, view, found>>

\* The reads of a call, in the order of the code.
Reads(c) ==
    IF request[c].tool = Diagnose
    THEN <<Status>> \o (IF request[c].metrics THEN <<Metrics>> ELSE <<>>) \o <<Advisor>>
    ELSE <<request[c].tool>>

\* What a read may return: only metrics may be asked for with arguments that
\* diagnose_virtual_machine has not validated already.
Possible(source) ==
    {"ok", "error"} \cup (IF source = Status THEN {"halted"} ELSE {})
                   \cup (IF source = Metrics THEN {"invalid"} ELSE {})

\* A read tool is called, comes to its outcome and starts on its audit entry.
Read(c) ==
    /\ phase[c] = "reading" /\ at[c] = "idle"
    /\ step[c] <= Len(Reads(c))
    /\ LET source == Reads(c)[step[c]]
       IN  \E outcome \in Possible(source) :
             /\ found' = [found EXCEPT ![c][source] = outcome]
             /\ IF outcome = "invalid" THEN UNCHANGED telemetry ELSE Audit(c, EntryKey(source, outcome))
    /\ step' = [step EXCEPT ![c] = @ + 1]
    /\ UNCHANGED <<ids, phase, request, reply>>

\* Mutant: a refused metrics query does not count as failed.
IncompleteUnlessInvalid(c) ==
    {f \in Failures :
        \/ f = "vm_instance_view_failed" /\ ~Good(found[c][Status])
        \/ f = "metrics_not_requested" /\ ~request[c].metrics
        \/ f = "metrics_query_failed" /\ request[c].metrics /\ found[c][Metrics] = "error"
        \/ f = "advisor_query_failed" /\ ~Good(found[c][Advisor])}

IncompleteEvidence(c) ==
    {f \in Failures :
        \/ f = "vm_instance_view_failed" /\ ~Good(found[c][Status])
        \/ f = "metrics_not_requested" /\ ~request[c].metrics
        \/ f = "metrics_query_failed" /\ request[c].metrics /\ ~Good(found[c][Metrics])
        \/ f = "advisor_query_failed" /\ ~Good(found[c][Advisor])}

NextActions(running, complete) ==
    LET advised == (IF running THEN {} ELSE {"confirm_power_state"})
                       \cup (IF complete THEN {} ELSE {"collect_evidence"})
    IN  IF advised = {} THEN {"review_observations"} ELSE advised

\* diagnose_virtual_machine has all its evidence, and audits itself as a success
\* however much of it failed.
Conclude(c) ==
    /\ phase[c] = "reading" /\ at[c] = "idle"
    /\ step[c] > Len(Reads(c))
    /\ request[c].tool = Diagnose
    /\ reply' = [reply EXCEPT ![c] =
           [ok |-> TRUE, observed |-> found[c], incomplete |-> IncompleteEvidence(c),
            actions |-> NextActions(found[c][Status] = "ok", IncompleteEvidence(c) = {})]]
    /\ Audit(c, EntryKey(Diagnose, "ok"))
    /\ phase' = [phase EXCEPT ![c] = "closing"]
    /\ UNCHANGED <<ids, request, step, found>>

\* The call returns.
Return(c) ==
    /\ at[c] = "idle"
    /\ \/ /\ phase[c] = "closing"
          /\ UNCHANGED reply
       \/ /\ phase[c] = "reading" /\ step[c] > Len(Reads(c))
          /\ request[c].tool # Diagnose
          /\ reply' = [reply EXCEPT ![c] = [ok |-> Good(found[c][request[c].tool])]]
    /\ phase' = [phase EXCEPT ![c] = "answered"]
    /\ UNCHANGED <<telemetry, request, step, found>>

-----------------------------------------------------------------------------
Handling(c) == Read(c) \/ Conclude(c) \/ Return(c)

Next ==
    \/ \E c \in Calls : \E r \in Requests(c) : Call(c, r)
    \/ \E c \in Calls : Handling(c)
    \/ \E c \in Calls : Auditing(c) /\ UNCHANGED handler
    \/ Observing /\ UNCHANGED handler

Spec == Init /\ [][Next]_vars

\* Threads are scheduled, reads end (with their deadline) and hooks return.
FairSpec ==
    Spec /\ \A c \in Calls : WF_vars(Handling(c) \/ (Auditing(c) /\ UNCHANGED handler))

-----------------------------------------------------------------------------
(***************************************************************************)
(* Properties.                                                             *)
(***************************************************************************)
IsDiagnosis(c) == phase[c] = "answered" /\ "observed" \in DOMAIN reply[c]

\* The names a source has in incomplete_evidence.
NamesOf(source) ==
    IF source = Status THEN {"vm_instance_view_failed"}
    ELSE IF source = Metrics THEN {"metrics_not_requested", "metrics_query_failed"}
    ELSE {"advisor_query_failed"}

\* "incomplete_evidence identifies omitted or failed evidence sources"
\* (docs/phases/phase4-diagnostics-contract.md:14): a diagnosis, always ok, names
\* exactly the sources that it has no good answer of, and advises nothing but a
\* review only of a running machine with all its evidence.
EvidenceNamed ==
    \A c \in Calls : IsDiagnosis(c) =>
        /\ \A s \in Sources : Good(reply[c].observed[s]) <=> NamesOf(s) \cap reply[c].incomplete = {}
        /\ "review_observations" \in reply[c].actions =>
               /\ reply[c].actions = {"review_observations"}
               /\ \A s \in Sources : reply[c].observed[s] = "ok"

\* "all log records emitted within the same request context share the same ID"
\* (src/monitor.py:193-194): the entries with the correlation id of a call are
\* those of the reads behind its reply, and of its own conclusion, whoever else
\* writes entries meanwhile.
LogTellsReply ==
    \A c \in Calls : phase[c] = "answered" =>
        {e.key : e \in {f \in log : f.id = c}} =
            {EntryKey(s, found[c][s]) : s \in {t \in Sources : found[c][t] \notin {"unread", "invalid"}}}
                \cup (IF IsDiagnosis(c) THEN {EntryKey(Diagnose, "ok")} ELSE {})

\* A call is answered although hooks fail and are registered all the while.
EveryCallAnswered ==
    \A c \in Calls : phase[c] = "reading" ~> phase[c] = "answered"
=============================================================================
