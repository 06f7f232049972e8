--------------------------- MODULE AgentPresence ---------------------------
(***************************************************************************)
(* The presence of ONE agent (backend features/routing): Chatwoot's native *)
(* availability, which routing filters on, and the append-only log of      *)
(* presence events, whose latest entry every reader asks for.              *)
(*                                                                         *)
(* Four writers append to the log: the agent's own request, the end of a   *)
(* call (After-Call-Work), the sweep that ends it, and the poller that     *)
(* records what was changed in Chatwoot itself.  A fifth job alerts about  *)
(* long absences and stamps the event it has alerted about.  All of them   *)
(* run concurrently, every call to Chatwoot or the log is a step.          *)
(***************************************************************************)
EXTENDS Naturals

CONSTANTS
    MaxActs,      \* bound: what the agent, an administrator and callers do
    MaxFaults     \* bound: failed calls and restarts

ASSUME BoundsAssumption == MaxActs \in Nat /\ MaxFaults \in Nat

VARIABLES
    native,       \* availability_status in Chatwoot
    member,       \* the agent is in the account
    latest,       \* the event with the newest time: status, age, alerts_sent
    writer,       \* each writer's phase and the status it is about to record
    older,        \* writers with a time that is older than this writer's
    late,         \* writers whose time is older than the latest event's
    watch,        \* the alerting job
    fired,        \* alerts the job has fired about the latest event
    heard,        \* those of them that reached somebody
    unstamped,    \* one that was fired could not be stamped
    acts, faults

vars == <<native, member, latest, writer, older, late, watch, fired, heard, unstamped, acts, faults>>
logVars == <<latest, fired, heard, unstamped, watch>>

Natives == {"online", "busy", "offline"}
Writers == {"agent", "callend", "expiry", "poll"}
Levels  == {"warn", "escalate"}

(* SEED_STATUSES, one for each kind: the native status each one mirrors to.*)
Mirror == [available |-> "online", lunch |-> "busy", acw |-> "busy",
           busy |-> "busy", offline |-> "offline"]
Statuses == DOMAIN Mirror \cup Natives
CountsAsUnavailable == {"lunch"}

(* What the agent may choose: not what SYSTEM_MANAGED_KEYS names.          *)
Choices == {"available", "lunch"}

NoEvent == [status |-> "none", age |-> 0, alerts |-> {}]
Unfired == [l \in Levels |-> 0]
Resting == [phase |-> "idle", status |-> "none"]
Asleep == [phase |-> "idle", level |-> "warn", age |-> 0, alerts |-> {}, same |-> FALSE]

(* Age 1: longer than the After-Call-Work timeout or the first threshold;  *)
(* age 2: longer than the second one.                                      *)
Threshold == [warn |-> 1, escalate |-> 2]

Act == acts < MaxActs /\ acts' = acts + 1
Outcome(ok) == \/ ok /\ UNCHANGED faults
               \/ ~ok /\ faults < MaxFaults /\ faults' = faults + 1
(* A call about an agent who has left the account fails as well, and the   *)
(* list of agents does not have him.                                       *)
AgentCall(ok) == IF member THEN Outcome(ok) ELSE ~ok /\ UNCHANGED faults

(* The writers that have taken the time of the event they will append.     *)
Timed(w) == writer[w].phase \in (IF w \in {"agent", "callend"} THEN {"append"}
                                 ELSE {"fetch", "read", "compare", "write", "append"})

Goes(w, phase, status) ==
    writer' = [writer EXCEPT ![w] = [phase |-> phase, status |-> status]]
TakesTime(w) ==
    /\ older' = [older EXCEPT ![w] = {v \in Writers \ {w} : Timed(v)}]
    /\ UNCHANGED late
Forgets(w) ==
    older' = [v \in Writers |-> IF v = w THEN {} ELSE older[v] \ {w}]
Ends(w) == /\ writer' = [writer EXCEPT ![w] = Resting]
           /\ Forgets(w) /\ late' = late \ {w}

-----------------------------------------------------------------------------
Init ==
    /\ native = "online" /\ member = TRUE
    /\ latest = NoEvent
    /\ writer = [w \in Writers |-> Resting]
    /\ older = [w \in Writers |-> {}] /\ late = {}
    /\ watch = Asleep /\ fired = Unfired /\ heard = {} /\ unstamped = FALSE
    /\ acts = 0 /\ faults = 0

-----------------------------------------------------------------------------
(* What happens outside. *)

(* The agent changes the availability in Chatwoot. *)
UseChatwoot(n) ==
    /\ Act /\ member /\ native # n
    /\ native' = n
    /\ UNCHANGED <<member, writer, older, late, logVars, faults>>

(* An administrator removes the agent from the account. *)
Leave ==
    /\ Act /\ member
    /\ member' = FALSE
    /\ UNCHANGED <<native, writer, older, late, logVars, faults>>

(* How long other statuses have lasted, nobody asks. *)
Elapse ==
    /\ latest.status \in CountsAsUnavailable \cup {"acw"} /\ latest.age < 2
    /\ latest' = [latest EXCEPT !.age = @ + 1]
    /\ UNCHANGED <<native, member, writer, older, late, watch, fired, heard, unstamped, acts, faults>>

-----------------------------------------------------------------------------
(* set_status: first Chatwoot, then the log. *)

(* POST /routing/presence/status *)
Choose(status) ==
    /\ Act /\ writer["agent"].phase = "idle"
    /\ status \in Choices
    /\ Goes("agent", "write", status)
    /\ UNCHANGED <<native, member, older, late, logVars, faults>>

(* The catalogue and Chatwoot.  A failed PATCH may have been carried out. *)
SetNative(w, ok) ==
    /\ writer[w].phase = "write"
    /\ AgentCall(ok)
    /\ IF ok
       THEN /\ native' = Mirror[writer[w].status]
            /\ Goes(w, IF w = "expiry" THEN "append" ELSE "stamp", writer[w].status)
            /\ UNCHANGED <<older, late>>
       ELSE /\ native' \in {native} \cup (IF member THEN {Mirror[writer[w].status]} ELSE {})
            /\ Ends(w)
    /\ UNCHANGED <<member, logVars, acts>>

(* The time of the event is taken before it is appended; the sweep has     *)
(* taken it when it began.                                                 *)
Stamp(w) ==
    /\ writer[w].phase = "stamp"
    /\ Goes(w, "append", writer[w].status) /\ TakesTime(w)
    /\ UNCHANGED <<native, member, logVars, acts, faults>>

(* A newer event is already there: this one stays below it. *)
Buried(w) == late' = late \ {w} /\ UNCHANGED logVars

(* It becomes the latest, and older ones still to come will not.           *)
Tops(w) ==
    /\ latest' = [status |-> writer[w].status, age |-> 0, alerts |-> {}]
    /\ late' = (late \cup older[w]) \ {w}
    /\ fired' = Unfired /\ heard' = {} /\ unstamped' = FALSE
    /\ watch' = [watch EXCEPT !.same = FALSE]

(* PresenceEventStore.append swallows its failures. *)
AppendEvent(w, ok) ==
    /\ writer[w].phase = "append"
    /\ Outcome(ok)
    /\ IF ok /\ w \notin late THEN Tops(w) ELSE Buried(w)
    /\ writer' = [writer EXCEPT ![w] = Resting] /\ Forgets(w)
    /\ UNCHANGED <<native, member, acts>>

-----------------------------------------------------------------------------
(* After-Call-Work. *)

CallEnds ==
    /\ Act /\ writer["callend"].phase = "idle"
    /\ Goes("callend", "check", "acw")
    /\ UNCHANGED <<native, member, older, late, logVars, faults>>

(* enter: an agent who is offline is left alone, and so is one whose       *)
(* availability could not be read (fetch_agent_availability).              *)
CheckOffline(ok) ==
    /\ writer["callend"].phase = "check"
    /\ AgentCall(ok)
    /\ IF ok /\ native # "offline" THEN Goes("callend", "write", "acw") /\ UNCHANGED <<older, late>>
                                   ELSE Ends("callend")
    /\ UNCHANGED <<native, member, logVars, acts>>

(* sweep: only agents that are listed. *)
BeginExpiry ==
    /\ writer["expiry"].phase = "idle" /\ member
    /\ Goes("expiry", "read", "available") /\ TakesTime("expiry")
    /\ UNCHANGED <<native, member, logVars, acts, faults>>

(* Mutated: a limit that is never reached. *)
ExpireNever(ok) ==
    /\ writer["expiry"].phase = "read"
    /\ Outcome(ok)
    /\ IF ok /\ latest.status = "acw" /\ latest.age > 2
       THEN Goes("expiry", "write", "available") /\ UNCHANGED <<older, late>>
       ELSE Ends("expiry")
    /\ UNCHANGED <<native, member, logVars, acts>>

(* expire_if_due *)
ExpireIfDue(ok) ==
    /\ writer["expiry"].phase = "read"
    /\ Outcome(ok)
    /\ IF ok /\ latest.status = "acw" /\ latest.age >= 1
       THEN Goes("expiry", "write", "available") /\ UNCHANGED <<older, late>>
       ELSE Ends("expiry")
    /\ UNCHANGED <<native, member, logVars, acts>>

-----------------------------------------------------------------------------
(* The poller.  Every tick builds a new one, so the ids it knows are those *)
(* it has just fetched, and nobody has disappeared.                        *)

BeginPoll ==
    /\ writer["poll"].phase = "idle"
    /\ Goes("poll", "fetch", "none") /\ TakesTime("poll")
    /\ UNCHANGED <<native, member, logVars, acts, faults>>

Fetch(ok) ==
    /\ writer["poll"].phase = "fetch"
    /\ AgentCall(ok)
    /\ IF ok THEN Goes("poll", "compare", native) /\ UNCHANGED <<older, late>> ELSE Ends("poll")
    /\ UNCHANGED <<native, member, logVars, acts>>

(* The native status an entry stands for; if the catalogue cannot be read, *)
(* the entry itself.                                                       *)
ExpectedNative(status, catalogue) ==
    IF catalogue /\ status \in DOMAIN Mirror THEN Mirror[status] ELSE status

(* Mutated: a status an agent has chosen is not reconciled. *)
ReconcileUnchosen(log, catalogue) ==
    /\ writer["poll"].phase = "compare"
    /\ Outcome(log /\ catalogue)
    /\ IF log /\ latest # NoEvent
             /\ (latest.status \in Choices \/ latest.status = writer["poll"].status)
       THEN Ends("poll")
       ELSE Goes("poll", "append", writer["poll"].status) /\ UNCHANGED <<older, late>>
    /\ UNCHANGED <<native, member, logVars, acts>>

(* _reconcile.  A log that cannot be read looks empty. *)
Reconcile(log, catalogue) ==
    /\ writer["poll"].phase = "compare"
    /\ Outcome(log /\ catalogue)
    /\ IF log /\ latest # NoEvent
             /\ ExpectedNative(latest.status, catalogue) = writer["poll"].status
       THEN Ends("poll")
       ELSE Goes("poll", "append", writer["poll"].status) /\ UNCHANGED <<older, late>>
    /\ UNCHANGED <<native, member, logVars, acts>>

-----------------------------------------------------------------------------
(* Alerts about an absence: _check_agent. *)

(* Mutated: an interval too early. *)
DueEarly(age, alerts) == {l \in Levels : Threshold[l] <= age + 1 /\ l \notin alerts}

Due(age, alerts) == {l \in Levels : Threshold[l] <= age /\ l \notin alerts}

(* The first alert, and whether a second one is due as well, are decided   *)
(* from what was read in the beginning.                                    *)
Continue(levels) ==
    CASE "warn" \in levels                            -> [watch EXCEPT !.phase = "alert", !.level = "warn"]
      [] "warn" \notin levels /\ "escalate" \in levels -> [watch EXCEPT !.phase = "alert", !.level = "escalate"]
      [] OTHER                                        -> Asleep

ReadLatest ==
    /\ watch.phase = "idle" /\ member
    /\ latest.status \in CountsAsUnavailable
    /\ watch' = [Asleep EXCEPT !.phase = "elapsed", !.alerts = latest.alerts, !.same = TRUE]
    /\ UNCHANGED <<native, member, latest, writer, older, late, fired, heard, unstamped, acts, faults>>

(* elapsed_in_current_status reads the latest event once more. *)
ReadElapsed(ok) ==
    /\ watch.phase = "elapsed"
    /\ Outcome(ok)
    /\ watch' = IF ok THEN [Continue(Due(latest.age, watch.alerts)) EXCEPT !.age = latest.age]
                      ELSE Asleep
    /\ UNCHANGED <<native, member, latest, writer, older, late, fired, heard, unstamped, acts>>

(* It may reach nobody, and that needs no failure: the job is started      *)
(* without a WhatsApp adapter or a mailer, so that no alert is built, and  *)
(* an agent may have no address.  Failed legs are logged.  The job goes on *)
(* to stamp the alert all the same.                                        *)
Alert(sent) ==
    /\ watch.phase = "alert"
    /\ watch' = [watch EXCEPT !.phase = "stamp"]
    /\ fired' = IF watch.same THEN [fired EXCEPT ![watch.level] = @ + 1] ELSE fired
    /\ heard' = IF watch.same /\ sent THEN heard \cup {watch.level} ELSE heard
    /\ UNCHANGED <<native, member, latest, writer, older, late, unstamped, acts, faults>>

(* Mutated: whatever event is the latest by now is stamped. *)
StampAnyEvent(ok) ==
    /\ watch.phase = "stamp"
    /\ Outcome(ok)
    /\ latest' = IF ok THEN [latest EXCEPT !.alerts = @ \cup {watch.level}] ELSE latest
    /\ unstamped' = (unstamped \/ (~ok /\ watch.same))
    /\ watch' = IF watch.level = "warn" THEN Continue(Due(watch.age, watch.alerts) \ {"warn"}) ELSE Asleep
    /\ UNCHANGED <<native, member, writer, older, late, fired, heard, acts>>

(* stamp_alert: only the event the alert was about; failures are swallowed.*)
StampAlert(ok) ==
    /\ watch.phase = "stamp"
    /\ Outcome(ok)
    /\ latest' = IF ok /\ watch.same THEN [latest EXCEPT !.alerts = @ \cup {watch.level}] ELSE latest
    /\ unstamped' = (unstamped \/ (~ok /\ watch.same))
    /\ watch' = IF watch.level = "warn" THEN Continue(Due(watch.age, watch.alerts) \ {"warn"}) ELSE Asleep
    /\ UNCHANGED <<native, member, writer, older, late, fired, heard, acts>>

(* The process restarts: whatever was under way is gone. *)
Restart ==
    /\ faults < MaxFaults /\ faults' = faults + 1
    /\ writer' = [w \in Writers |-> Resting]
    /\ older' = [w \in Writers |-> {}] /\ late' = {}
    /\ watch' = Asleep
    /\ unstamped' = (unstamped \/ (watch.phase = "stamp" /\ watch.same))
    /\ UNCHANGED <<native, member, latest, fired, heard, acts>>

-----------------------------------------------------------------------------
Request(w) == \E ok \in BOOLEAN : SetNative(w, ok) \/ AppendEvent(w, ok)
AgentStep  == Stamp("agent") \/ Request("agent")
CallStep   == Stamp("callend") \/ Request("callend") \/ \E ok \in BOOLEAN : CheckOffline(ok)
ExpiryStep == BeginExpiry \/ Request("expiry") \/ \E ok \in BOOLEAN : ExpireIfDue(ok)
PollStep   == \/ BeginPoll \/ Request("poll")
              \/ \E ok \in BOOLEAN : Fetch(ok) \/ \E log \in BOOLEAN : Reconcile(log, ok)
WatchStep  == ReadLatest \/ \E ok \in BOOLEAN : ReadElapsed(ok) \/ Alert(ok) \/ StampAlert(ok)

Next ==
    \/ \E n \in Natives : UseChatwoot(n)
    \/ \E status \in Choices : Choose(status)
    \/ Leave \/ CallEnds \/ Elapse \/ Restart
    \/ AgentStep \/ CallStep \/ ExpiryStep \/ PollStep \/ WatchStep

Spec == Init /\ [][Next]_vars

(* Requests run to their end and the schedulers go on ticking; a tick      *)
(* begins only after the job's previous one has ended.  Time passes.       *)
Fairness == /\ WF_vars(AgentStep) /\ WF_vars(CallStep) /\ WF_vars(ExpiryStep)
            /\ WF_vars(PollStep) /\ WF_vars(WatchStep) /\ WF_vars(Elapse)
FairSpec == Spec /\ Fairness

-----------------------------------------------------------------------------
(* Properties. *)

(* Every variable keeps its type. *)
TypeOK ==
    /\ native \in Natives /\ member \in BOOLEAN
    /\ latest \in [status : Statuses \cup {"none"}, age : 0..2, alerts : SUBSET Levels]
    /\ writer \in [Writers -> [phase : {"idle", "check", "read", "fetch", "compare", "write",
                                        "stamp", "append"},
                               status : Statuses \cup {"none"}]]
    /\ older \in [Writers -> SUBSET Writers] /\ late \subseteq Writers
    /\ watch \in [phase : {"idle", "elapsed", "alert", "stamp"}, level : Levels, age : 0..2,
                  alerts : SUBSET Levels, same : BOOLEAN]
    /\ fired \in [Levels -> Nat] /\ heard \subseteq Levels /\ unstamped \in BOOLEAN
    /\ acts \in 0..MaxActs /\ faults \in 0..MaxFaults

(* An alert is stamped on the event it was fired about, and is fired once  *)
(* about each event unless its stamp is lost: a stamp on the next absence  *)
(* would silence the alert that absence is owed.  Whether anybody heard it *)
(* is another question: AbsenceEscalated.                                  *)
AlertsMatch ==
    /\ \A l \in latest.alerts : fired[l] >= 1
    /\ ~unstamped => \A l \in Levels : fired[l] <= 1

(* An alert counts for an absence only if that absence has lasted long     *)
(* enough, whatever was appended between the two reads the alert rests on. *)
AlertsEarned ==
    \A l \in Levels : fired[l] >= 1 =>
        latest.status \in CountsAsUnavailable /\ Threshold[l] <= latest.age

(* Whatever was written in whatever order, in the end the log's latest     *)
(* entry stands for what Chatwoot shows, and routing and dashboard agree.  *)
LogCatchesUp == <>[](member => ExpectedNative(latest.status, TRUE) = native)

(* Wrap-up that is on the log comes to an end. *)
WrapUpEnds == latest.status = "acw" ~> latest.status # "acw" \/ ~member

(* The administrator hears of an absence beyond the second threshold.      *)
(* Refuted: an alert nobody got is stamped like any other, and is not      *)
(* fired again.                                                            *)
AbsenceEscalated ==
    latest.status = "lunch" /\ latest.age = 2
        ~> latest.status # "lunch" \/ ~member \/ "escalate" \in heard

(* An agent who left the account is recorded as offline. *)
LeaverGoesOffline == ~member ~> latest.status = "offline"

(* The poll decides to record a change only if there is one. *)
NoSpuriousFlip ==
    [][writer["poll"].phase = "compare" /\ writer'["poll"].phase = "append"
         => ExpectedNative(latest.status, TRUE) # writer["poll"].status]_vars
=============================================================================
