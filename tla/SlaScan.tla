------------------------------ MODULE SlaScan ------------------------------
(***************************************************************************)
(* The SLA engine (backend features/chat/sla): a scan over the             *)
(* conversations records what is overdue in the audit log of each, and     *)
(* alerts about it.  There is no other memory: what the log of a           *)
(* conversation holds when the scan comes to it is not recorded again.     *)
(*                                                                         *)
(* Webhooks write to the same logs: an agent's first response, and the     *)
(* acknowledgment of a dealer's answer.  Both of them stop the first       *)
(* breach.  One scan runs at a time, on the listing it began with.         *)
(***************************************************************************)
EXTENDS Integers

CONSTANTS
    Conversations,
    Old,          \* those that exist longer than the others
    Slots,        \* webhooks handled at the same time
    Response,     \* sla_response_hours, in units of time
    Resolution,   \* sla_resolution_hours
    Window,       \* tasks_reminder_warning_minutes
    Tier2,        \* escalation_tier2_hours
    Update,       \* escalation_customer_update_hours
    MaxAge,       \* bound: ages beyond it are not told apart
    AckCounts,    \* sla_acknowledgement_enabled
    MaxActs,      \* bound: what people do
    MaxFaults     \* bound: failed calls and restarts

ASSUME SlaAssumption ==
    /\ Old \subseteq Conversations /\ AckCounts \in BOOLEAN
    /\ Response \in Nat /\ Resolution \in Nat /\ Window \in Nat
    /\ Tier2 \in Nat /\ Update \in Nat
    /\ MaxAge \in Nat /\ MaxAge > Response /\ MaxAge > Resolution
    /\ MaxAge >= Tier2 /\ MaxAge >= Update /\ MaxAge >= 1
    /\ MaxActs \in Nat /\ MaxFaults \in Nat

VARIABLES
    case,     \* each conversation in Chatwoot
    log,      \* its audit log: the states recorded
    breach,   \* the age of its entry "unresolved"
    twice,    \* states that were recorded by two webhooks
    alerts,   \* how often each entry was alerted about, 2 for more
    scan,     \* the scan
    hook,     \* the webhook in each slot
    acts, faults

vars == <<case, log, breach, twice, alerts, scan, hook, acts, faults>>

Never == -1

(* What the scan records, in the order in which it looks for it. *)
Turn == [no_response |-> 1, unresolved |-> 2, tier2 |-> 3, reminder |-> 4,
         update_due |-> 5, update_warning |-> 6]
Entries == DOMAIN Turn
Markers == {"first_response", "acknowledged"}

NoHook == [phase |-> "idle", conv |-> "none", marker |-> "first_response"]
New(c) == [status   |-> "open",
           replied  |-> FALSE,    \* first_reply_created_at
           age      |-> IF c \in Old THEN 1 ELSE 0,
           answered |-> Never,    \* the age of escalation_replied_at
           updated  |-> "never"]  \* customer_updated_at, by escalation_replied_at
NoScan == [phase |-> "idle", todo |-> {}, conv |-> "none", plan |-> {},
           entry |-> "reminder", seen |-> [c \in Conversations |-> New(c)]]
FirstScan == [NoScan EXCEPT !.phase = "due"]

(* Acts and faults share the budget of acts. *)
Act == acts + faults < MaxActs /\ acts' = acts + 1
Fault == faults < MaxFaults /\ acts + faults < MaxActs /\ faults' = faults + 1
Outcome(ok) == IF ok THEN UNCHANGED faults ELSE Fault
Older(n) == IF n < MaxAge THEN n + 1 ELSE n

-----------------------------------------------------------------------------
Init ==
    /\ case = [c \in Conversations |-> New(c)]
    /\ log = [c \in Conversations |-> {}]
    /\ breach = [c \in Conversations |-> 0]
    /\ twice = {}
    /\ alerts = [c \in Conversations |-> [x \in Entries |-> 0]]
    /\ scan = FirstScan /\ hook = [h \in Slots |-> NoHook]
    /\ acts = 0 /\ faults = 0

-----------------------------------------------------------------------------
(* Time and people. *)

(* The unit of time is sla_scan_interval_minutes, longer than a scan.      *)
Tick ==
    /\ scan.phase = "idle"
    /\ case' = [c \in Conversations |->
                  [case[c] EXCEPT !.age = Older(@),
                                  !.answered = IF @ = Never THEN @ ELSE Older(@)]]
    /\ breach' = [c \in Conversations |-> IF "unresolved" \in log[c] THEN Older(breach[c]) ELSE 0]
    /\ scan' = [scan EXCEPT !.phase = "due"]
    /\ UNCHANGED <<log, twice, alerts, hook, acts, faults>>

SetStatus(c, status) ==
    /\ Act /\ case[c].status # status
    /\ case' = [case EXCEPT ![c].status = status]
    /\ UNCHANGED <<log, breach, twice, alerts, scan, hook, faults>>

Webhook(h, c, marker) ==
    /\ hook[h] = NoHook
    /\ hook' = [hook EXCEPT ![h] = [phase |-> "read", conv |-> c, marker |-> marker]]

(* An agent writes to the customer; once a dealer has answered, that is    *)
(* what the customer was waiting for.  It is stamped once for all.         *)
AgentReplies(h, c) ==
    /\ Act /\ Webhook(h, c, "first_response")
    /\ case' = [case EXCEPT ![c].replied = TRUE,
                            ![c].updated = IF @ = "never" /\ case[c].answered # Never
                                           THEN "current" ELSE @]
    /\ UNCHANGED <<log, breach, twice, alerts, scan, faults>>

(* A dealer answers: the stamp, which replaces that of an earlier answer,  *)
(* and POST /escalation/acknowledge.                                       *)
DealerAnswers(h, c) ==
    /\ Act /\ Webhook(h, c, "acknowledged")
    /\ case' = [case EXCEPT ![c].answered = 0,
                            ![c].updated = IF @ = "current" THEN "outdated" ELSE @]
    /\ UNCHANGED <<log, breach, twice, alerts, scan, faults>>

-----------------------------------------------------------------------------
(* _record_first_response, acknowledge: list, then append. *)

ListForMarker(h, ok) ==
    /\ hook[h].phase = "read"
    /\ Outcome(ok)
    /\ hook' = [hook EXCEPT ![h] = IF ok /\ hook[h].marker \notin log[hook[h].conv]
                                   THEN [hook[h] EXCEPT !.phase = "append"] ELSE NoHook]
    /\ UNCHANGED <<case, log, breach, twice, alerts, scan, acts>>

(* A failed append may have been carried out. *)
AppendMarker(h, ok, made) ==
    /\ hook[h].phase = "append"
    /\ Outcome(ok) /\ (ok => made)
    /\ LET c == hook[h].conv
           m == hook[h].marker
       IN  /\ log' = IF made THEN [log EXCEPT ![c] = @ \cup {m}] ELSE log
           /\ twice' = IF made /\ m \in log[c] THEN twice \cup {m} ELSE twice
    /\ hook' = [hook EXCEPT ![h] = NoHook]
    /\ UNCHANGED <<case, breach, alerts, scan, acts>>

-----------------------------------------------------------------------------
(* scan_conversations *)

(* The listing; when it fails the scan is over.  The first scan follows    *)
(* the start of the service, the next ones after an interval each.         *)
BeginScan(ok) ==
    /\ scan.phase = "due"
    /\ Outcome(ok)
    /\ scan' = IF ok THEN [NoScan EXCEPT !.phase = "next", !.todo = Conversations, !.seen = case]
                     ELSE NoScan
    /\ UNCHANGED <<case, log, breach, twice, alerts, hook, acts>>

EndScan ==
    /\ scan.phase = "next" /\ scan.todo = {}
    /\ scan' = NoScan
    /\ UNCHANGED <<case, log, breach, twice, alerts, hook, acts, faults>>

Responded(seen, prior) ==
    seen.replied \/ "first_response" \in prior \/ (AckCounts /\ "acknowledged" \in prior)

(* compute_customer_update_clock: nothing is owed on a resolved case, and  *)
(* a stamp older than the answer does not count.                           *)
Owed(seen) ==
    seen.answered # Never /\ seen.status # "resolved" /\ seen.updated # "current"

(* Whether an entry is due, by the listing, the log as it was read, and    *)
(* the age of the entry "unresolved".                                      *)
IsDue(x, seen, prior, since) ==
    CASE x = "no_response" ->
           seen.status = "open" /\ ~Responded(seen, prior) /\ seen.age > Response
      [] x = "unresolved" -> seen.status # "resolved" /\ seen.age > Resolution
      [] x = "tier2" -> "unresolved" \in prior /\ since >= Tier2
      [] x = "reminder" ->
           seen.status # "resolved" /\ 0 < Resolution - seen.age /\ Resolution - seen.age < Window
      [] x = "update_due" -> Owed(seen) /\ Update - seen.answered <= 0
      [] x = "update_warning" ->
           Owed(seen) /\ 0 < Update - seen.answered /\ 2 * (Update - seen.answered) <= Update

(* Mutated: the log is not consulted. *)
PlanAgain(c) == {x \in Entries : IsDue(x, scan.seen[c], log[c], breach[c])}

Plan(c) == {x \in Entries : IsDue(x, scan.seen[c], log[c], breach[c]) /\ x \notin log[c]}

Proceed(plan) == IF plan = {} THEN "next" ELSE "append"

(* Mutated: only the first conversation is looked at. *)
TakeOne(c, ok) ==
    /\ scan.phase = "next" /\ c \in scan.todo
    /\ Outcome(ok)
    /\ scan' = IF ok THEN [scan EXCEPT !.phase = Proceed(Plan(c)), !.conv = c,
                                       !.todo = {}, !.plan = Plan(c), !.seen[c] = New(c)]
                     ELSE NoScan
    /\ UNCHANGED <<case, log, breach, twice, alerts, hook, acts>>

(* The policy and the log of the next conversation; a failed read ends the *)
(* whole scan.                                                             *)
Take(c, ok) ==
    /\ scan.phase = "next" /\ c \in scan.todo
    /\ Outcome(ok)
    /\ scan' = IF ok THEN [scan EXCEPT !.phase = Proceed(Plan(c)), !.conv = c,
                                       !.todo = @ \ {c}, !.plan = Plan(c), !.seen[c] = New(c)]
                     ELSE NoScan
    /\ UNCHANGED <<case, log, breach, twice, alerts, hook, acts>>

(* The entry comes before its alert.  A failed append, which may have been *)
(* carried out, ends the scan as well, and so does the second read of the  *)
(* log before the entry "tier2".                                           *)
AppendEntry(x, ok, made) ==
    /\ scan.phase = "append" /\ x \in scan.plan /\ \A y \in scan.plan : Turn[x] <= Turn[y]
    /\ Outcome(ok) /\ (ok => made)
    /\ log' = IF made THEN [log EXCEPT ![scan.conv] = @ \cup {x}] ELSE log
    /\ breach' = IF made /\ x = "unresolved" THEN [breach EXCEPT ![scan.conv] = 0] ELSE breach
    /\ scan' = IF ok THEN [scan EXCEPT !.phase = "alert", !.entry = x, !.plan = @ \ {x}] ELSE NoScan
    /\ UNCHANGED <<case, twice, alerts, hook, acts>>

(* Each leg of an alert is tried once, and its failure logged. *)
Alert ==
    /\ scan.phase = "alert"
    /\ alerts' = [alerts EXCEPT ![scan.conv][scan.entry] = IF @ < 2 THEN @ + 1 ELSE @]
    /\ scan' = [scan EXCEPT !.phase = Proceed(scan.plan)]
    /\ UNCHANGED <<case, log, breach, twice, hook, acts, faults>>

Restart ==
    /\ Fault
    /\ scan' = FirstScan /\ hook' = [h \in Slots |-> NoHook]
    /\ UNCHANGED <<case, log, breach, twice, alerts, acts>>

-----------------------------------------------------------------------------
ScanStep ==
    \/ \E ok \in BOOLEAN : \/ BeginScan(ok)
                           \/ \E c \in Conversations : Take(c, ok)
                           \/ \E x \in Entries, made \in BOOLEAN : AppendEntry(x, ok, made)
    \/ Alert
    \/ EndScan

HookStep(h) == \E ok \in BOOLEAN : \/ ListForMarker(h, ok)
                                   \/ \E made \in BOOLEAN : AppendMarker(h, ok, made)

Next ==
    \/ Tick
    \/ \E c \in Conversations :
          \/ \E status \in {"open", "pending", "resolved"} : SetStatus(c, status)
          \/ \E h \in Slots : AgentReplies(h, c) \/ DealerAnswers(h, c)
    \/ \E h \in Slots : HookStep(h)
    \/ ScanStep
    \/ Restart

Spec == Init /\ [][Next]_vars

(* The clock and the scheduler go on ticking. *)
FairSpec == Spec /\ WF_vars(ScanStep) /\ WF_vars(Tick)

-----------------------------------------------------------------------------
(* Properties. *)

Case == [status : {"open", "pending", "resolved"}, replied : BOOLEAN, age : 0..MaxAge,
         answered : {Never} \cup 0..MaxAge, updated : {"never", "current", "outdated"}]

(* Every variable keeps its type. *)
TypeOK ==
    /\ case \in [Conversations -> Case]
    /\ log \in [Conversations -> SUBSET (Entries \cup Markers)]
    /\ breach \in [Conversations -> 0..MaxAge]
    /\ twice \subseteq Markers
    /\ alerts \in [Conversations -> [Entries -> 0..2]]
    /\ scan \in [phase : {"idle", "due", "next", "append", "alert"},
                 todo : SUBSET Conversations, conv : Conversations \cup {"none"},
                 plan : SUBSET Entries, entry : Entries, seen : [Conversations -> Case]]
    /\ scan.phase \in {"append", "alert"} => scan.conv \in Conversations
    /\ hook \in [Slots -> [phase : {"idle", "read", "append"}, conv : Conversations \cup {"none"},
                           marker : Markers]]
    /\ \A h \in Slots : hook[h].phase # "idle" => hook[h].conv \in Conversations
    /\ acts \in 0..MaxActs /\ faults \in 0..MaxFaults

(* Each entry is alerted about at most once, and only when it is on the    *)
(* log: through scans that are cut short by a failed call or a restart,    *)
(* entries that landed although their append failed, and stale listings.   *)
AlertedOnce == \A c \in Conversations, x \in Entries :
                  /\ alerts[c][x] <= 1
                  /\ alerts[c][x] = 1 => x \in log[c]

(* Level two is only ever reached from a breach that is on the log and has *)
(* stood there for the time of the policy, whatever the scan saw of the    *)
(* conversation and wherever it was cut short.                             *)
LevelTwoFollows ==
    \A c \in Conversations :
       "tier2" \in log[c] => "unresolved" \in log[c] /\ breach[c] >= Tier2

(* A breach is recorded however often a failing conversation has ended the *)
(* scan before its turn, and what stays unresolved goes on to level two.   *)
BreachesClimb ==
    \A c \in Conversations :
        /\ case[c].age > Resolution
              ~> "unresolved" \in log[c] \/ case[c].status = "resolved"
        /\ "unresolved" \in log[c] ~> "tier2" \in log[c]

(* A first response, and an acknowledgment, is recorded once. *)
MarkedOnce == twice = {}

(* Level two is not to be alerted about a conversation that was resolved   *)
(* when the scan began.                                                    *)
LevelTwoUnresolved ==
    [][\A c \in Conversations :
          Take(c, TRUE) /\ "tier2" \in scan'.plan => scan.seen[c].status # "resolved"]_vars

(* An agent who writes to the customer after the dealer's latest answer    *)
(* has paid what was owed, on a second round as on the first.              *)
UpdateCounts ==
    [][\A c \in Conversations, h \in Slots : AgentReplies(h, c) => ~Owed(case'[c])]_vars
=============================================================================
