--------------------------- MODULE CaseEscalation ---------------------------
(***************************************************************************)
(* The escalation of ONE case to a dealer.  Its state is kept in the case's *)
(* labels and custom attributes in Chatwoot, and is written by             *)
(*                                                                         *)
(*   - the background tasks of the agent service (services/sync and        *)
(*     services/escalation_replies), each job in a slot of its own, and    *)
(*   - the ladder of the backend (features/chat/escalation_ladder), whose  *)
(*     sweeps judge a listing of the cases and never overlap.              *)
(*                                                                         *)
(* Chatwoot replaces the whole attribute object on a write, so every write *)
(* is a GET, a merge and a POST: other writers run between any two of      *)
(* them, and a POST puts back what its GET has seen.  Time stamps are only *)
(* tested for presence; whether a rung is due yet is a free choice.        *)
(***************************************************************************)
EXTENDS Integers, FiniteSets

CONSTANTS
    Slots,        \* background tasks that run at the same time
    Top,          \* the last rung; rung 1 is the escalation itself
    Silent,       \* rungs that may be found without a recipient
    Found,        \* whom a fan-out may find an address for: "nobody", "somebody"
    MaxActs,      \* bound: acts of people, messages of the outside world and faults
    MaxFaults     \* bound: failed requests and restarts among them

Rungs == 2..Top

ASSUME EscalationAssumption ==
    /\ Top \in Nat /\ Top >= 2
    /\ Silent \subseteq Rungs
    /\ Found \subseteq {"nobody", "somebody"} /\ Found # {}
    /\ MaxActs \in Nat /\ MaxFaults \in Nat

VARIABLES
    labels,   \* the case's labels, of "escalate" and "replied"
    status,   \* "open" or "resolved"
    attrs,    \* the case's custom attributes
    events,   \* conversation_updated webhooks under way: their payloads
    reopens,  \* status webhooks under way that report a reopening
    job,      \* the background task of each slot
    sweep,    \* the ladder's sweep
    hist,     \* history, see NoHistory
    acts,     \* acts so far
    faults    \* faults so far

vars == <<labels, status, attrs, events, reopens, job, sweep, hist, acts, faults>>

Blank == [notified |-> FALSE,   \* escalation_notified_at
          replied  |-> FALSE,   \* escalation_replied_at
          updated  |-> FALSE,   \* customer_updated_at
          acked    |-> FALSE,   \* escalation_acknowledged_at
          counter  |-> 0,       \* escalation_step, 0 if absent
          stamps   |-> {},      \* the rungs n with escalation_step<n>_sent_at
          count    |-> 0]       \* reopen_count, 0 if absent

NoJob == [kind |-> "none", phase |-> "idle", count |-> 0, base |-> Blank, tags |-> {}]
NoSweep == [phase |-> "idle", rung |-> 0, to |-> FALSE, seen |-> Blank, base |-> Blank]

NoHistory == [sends   |-> [n \in Rungs |-> 0],  \* reminders of a rung, 2 for more
              unsent  |-> {},      \* rungs without a recipient, or whose reminder was lost
              lost    |-> {},      \* rungs whose stamp was not written or was dropped
              noted   |-> FALSE,   \* a dealer's reply was copied onto the case
              unsaid  |-> FALSE,   \* the reply's stamp was dropped
              fanout  |-> "none",  \* what became of the escalation, see Fanouts
              late    |-> 0,       \* reminders sent after the reply's stamp, 2 for more
              opened  |-> 0]       \* reopenings so far

(* "nobody" and "somebody": whom the fan-outs have reached so far.           *)
(* "cleared": the guard was armed again.  "revived": a writer has put a     *)
(* guard that was cleared back.                                             *)
Fanouts == {"none", "nobody", "somebody", "cleared", "revived"}

Job(h, kind, phase) == job[h].kind = kind /\ job[h].phase = phase
Goto(h, phase)      == job' = [job EXCEPT ![h].phase = phase]
Done(h)             == job' = [job EXCEPT ![h] = NoJob]

(* Acts and faults share the budget of acts. *)
Fault == faults < MaxFaults /\ acts + faults < MaxActs /\ faults' = faults + 1
Outcome(ok) == IF ok THEN UNCHANGED faults ELSE Fault
Act == acts + faults < MaxActs /\ acts' = acts + 1

AtMost2(n) == IF n > 2 THEN 2 ELSE n

(* Chatwoot announces every write with the case as it is after it.         *)
Announce(tags, case) ==
    events' = events \cup {[escalate |-> "escalate" \in tags, notified |-> case.notified]}

(* A POST replaces the attributes; the stamps it drops are recorded, and   *)
(* so is a guard that it arms, or puts back.                               *)
Replace(new, arms) ==
    /\ attrs' = new
    /\ hist' = [hist EXCEPT !.lost   = @ \cup (attrs.stamps \ new.stamps),
                            !.unsaid = @ \/ (attrs.replied /\ ~new.replied),
                            !.fanout = CASE arms                          -> "cleared"
                                         [] new.notified /\ @ = "cleared" -> "revived"
                                         [] OTHER                         -> @]
    /\ Announce(labels, new)

-----------------------------------------------------------------------------
Init ==
    /\ labels = {} /\ status = "open" /\ attrs = Blank
    /\ events = {} /\ reopens = 0
    /\ job = [h \in Slots |-> NoJob]
    /\ sweep = NoSweep
    /\ hist = NoHistory
    /\ acts = 0 /\ faults = 0

-----------------------------------------------------------------------------
(* Webhooks become background tasks. *)

Start(h, kind, phase) ==
    /\ job[h] = NoJob
    /\ job' = [job EXCEPT ![h] = [NoJob EXCEPT !.kind = kind, !.phase = phase]]

(* maybe_escalate on conversation_updated: with the label, the fan-out     *)
(* once per escalation; without it, the guard is armed again if the        *)
(* payload still carries it.                                               *)
MaybeEscalate(h, e) ==
    /\ e \in events
    /\ events' = events \ {e}
    /\ CASE e.escalate                -> Start(h, "notify", "read")
         [] ~e.escalate /\ e.notified -> Start(h, "rearm", "get")
         [] OTHER                     -> UNCHANGED job
    /\ UNCHANGED <<labels, status, attrs, reopens, sweep, hist, acts, faults>>

(* Mutated: the webhook is handled for every delivery. *)
RecordStatusTwice(h) ==
    /\ reopens > 0
    /\ Start(h, "reopen", "read")
    /\ UNCHANGED <<labels, status, attrs, events, reopens, sweep, hist, acts, faults>>

(* record_conversation_status on a reopening. *)
RecordStatus(h) ==
    /\ reopens > 0
    /\ reopens' = reopens - 1
    /\ Start(h, "reopen", "read")
    /\ UNCHANGED <<labels, status, attrs, events, sweep, hist, acts, faults>>

(* An email about the case arrives, a public message goes out to the       *)
(* customer, or one of the other tasks (categorisation, the lifecycle's    *)
(* mirror, the intake stamps) writes an attribute of its own.              *)
Arrives(h, kind) ==
    /\ Act
    /\ Start(h, kind, IF kind = "other" THEN "get" ELSE "read")
    /\ UNCHANGED <<labels, status, attrs, events, reopens, sweep, hist, faults>>

Arriving == {"dealer", "auto", "customer", "message", "other"}

-----------------------------------------------------------------------------
(* The first read of a task, and what it decides. *)

(* The stamp the task would write is not there yet, and an update is only  *)
(* stamped once a reply is.  The customer's own replies are always linked. *)
Wanted(kind) ==
    CASE kind = "notify"             -> ~attrs.notified
      [] kind \in {"dealer", "auto"} -> ~attrs.replied
      [] kind = "message"            -> attrs.replied /\ ~attrs.updated
      [] OTHER                       -> TRUE

(* Mutated: the fan-out is stamped and then forgotten. *)
AfterReadStamp(kind) == IF kind \in {"notify", "message", "reopen"} THEN "get" ELSE "note"

AfterRead(kind) == CASE kind = "notify"                -> "send"
                     [] kind \in {"message", "reopen"} -> "get"
                     [] OTHER                          -> "note"

ReadCase(h, ok) ==
    /\ job[h].phase = "read"
    /\ Outcome(ok)
    /\ IF ok /\ Wanted(job[h].kind)
       THEN job' = [job EXCEPT ![h].phase = AfterRead(job[h].kind),
                               ![h].count = IF job[h].kind = "reopen"
                                            THEN attrs.count + 1 ELSE 0]
       ELSE Done(h)
    /\ UNCHANGED <<labels, status, attrs, events, reopens, sweep, hist, acts>>

-----------------------------------------------------------------------------
(* Calls to the outside. *)

(* notify_email_escalation: the backend sends to customer, PIC and dealer, *)
(* as far as the case has an address for them, logs the legs that fail and *)
(* answers ok even if nobody was left to send to.  Only an answer that     *)
(* does not come keeps the task from its stamp.                            *)
Outcomes == {"answered", "refused", "unanswered"}

Reached(fanout, whom) == IF fanout = "somebody" THEN fanout ELSE whom

Notify(h, whom, out) ==
    /\ Job(h, "notify", "send")
    /\ Outcome(out = "answered")
    /\ hist' = IF out = "refused" THEN hist ELSE [hist EXCEPT !.fanout = Reached(@, whom)]
    /\ IF out = "answered" THEN Goto(h, "get") ELSE Done(h)
    /\ UNCHANGED <<labels, status, attrs, events, reopens, sweep, acts>>

(* Mutated: the reply is stamped although the note could not be posted. *)
PostNoteAnyway(h, ok) ==
    /\ job[h].phase = "note"
    /\ Outcome(ok)
    /\ CASE job[h].kind = "dealer"         -> Goto(h, "get")
         [] ok /\ job[h].kind = "customer" -> Goto(h, "open")
         [] OTHER                          -> Done(h)
    /\ hist' = [hist EXCEPT !.noted = @ \/ (ok /\ job[h].kind = "dealer")]
    /\ UNCHANGED <<labels, status, attrs, events, reopens, sweep, acts>>

(* The reply is copied onto the case as a note; a failure ends the task.   *)
(* A dealer's reply goes on to its stamp, the customer's reopens the case, *)
(* an automatic reply is only noted.                                       *)
PostNote(h, ok) ==
    /\ job[h].phase = "note"
    /\ Outcome(ok)
    /\ CASE ok /\ job[h].kind = "dealer"   -> Goto(h, "get")
         [] ok /\ job[h].kind = "customer" -> Goto(h, "open")
         [] OTHER                          -> Done(h)
    /\ hist' = [hist EXCEPT !.noted = @ \/ (ok /\ job[h].kind = "dealer")]
    /\ UNCHANGED <<labels, status, attrs, events, reopens, sweep, acts>>

(* The case is open from now on; Chatwoot reports a reopening as such.     *)
Opened == /\ status' = "open"
          /\ reopens' = IF status = "resolved" THEN reopens + 1 ELSE reopens
          /\ hist' = [hist EXCEPT !.opened = IF status = "resolved" THEN @ + 1 ELSE @]
          /\ Announce(labels, attrs)

OpenCase(h, ok) ==
    /\ Job(h, "customer", "open")
    /\ Outcome(ok)
    /\ IF ok THEN Opened ELSE UNCHANGED <<status, reopens, hist, events>>
    /\ Done(h)
    /\ UNCHANGED <<labels, attrs, sweep, acts>>

-----------------------------------------------------------------------------
(* set_custom_attributes: GET, merge, POST of the whole object. *)

AfterWrite(h) ==
    IF job[h].kind = "dealer"
    THEN job' = [job EXCEPT ![h] = [NoJob EXCEPT !.kind = "dealer", !.phase = "labels"]]
    ELSE Done(h)

(* A failed GET skips the write, and the caller does not learn of it.      *)
GetAttributes(h, ok) ==
    /\ job[h].phase = "get"
    /\ Outcome(ok)
    /\ IF ok THEN job' = [job EXCEPT ![h].phase = "post", ![h].base = attrs]
             ELSE AfterWrite(h)
    /\ UNCHANGED <<labels, status, attrs, events, reopens, sweep, hist, acts>>

(* What the GET has seen, with the task's own keys. *)
Merged(h) ==
    CASE job[h].kind = "notify"  -> [job[h].base EXCEPT !.notified = TRUE]
      [] job[h].kind = "rearm"   -> [job[h].base EXCEPT !.notified = FALSE]
      [] job[h].kind = "dealer"  -> [job[h].base EXCEPT !.replied = TRUE]
      [] job[h].kind = "message" -> [job[h].base EXCEPT !.updated = TRUE]
      [] job[h].kind = "reopen"  -> [job[h].base EXCEPT !.count = job[h].count]
      [] OTHER                   -> job[h].base

(* A failed POST raises, which ends the task. *)
PostAttributes(h, ok) ==
    /\ job[h].phase = "post"
    /\ Outcome(ok)
    /\ IF ok THEN Replace(Merged(h), job[h].kind = "rearm") /\ AfterWrite(h)
             ELSE UNCHANGED <<attrs, hist, events>> /\ Done(h)
    /\ UNCHANGED <<labels, status, reopens, sweep, acts>>

(* add_labels: the same on the labels, except that a failed GET counts as  *)
(* an empty set.                                                           *)
GetLabels(h, ok) ==
    /\ job[h].phase = "labels"
    /\ Outcome(ok)
    /\ job' = [job EXCEPT ![h].phase = "union", ![h].tags = IF ok THEN labels ELSE {}]
    /\ UNCHANGED <<labels, status, attrs, events, reopens, sweep, hist, acts>>

PostLabels(h, ok) ==
    /\ job[h].phase = "union"
    /\ Outcome(ok)
    /\ IF ok THEN labels' = job[h].tags \cup {"replied"} /\ Announce(labels', attrs)
             ELSE UNCHANGED <<labels, events>>
    /\ Done(h)
    /\ UNCHANGED <<status, attrs, reopens, sweep, hist, acts>>

-----------------------------------------------------------------------------
(* The ladder's sweep. *)

(* _current_step is the highest of these: the stamps, the counter, and the *)
(* escalation itself as the first rung.                                    *)
Stamped(seen) == seen.stamps \cup {seen.counter, IF seen.notified THEN 1 ELSE 0}

(* Mutated: the dealer's reply does not stop the ladder. *)
CandidateReplied == /\ "escalate" \in labels /\ status = "open"
                    /\ attrs.notified /\ ~attrs.acked

(* _should_skip. *)
Candidate == /\ "escalate" \in labels /\ status = "open"
             /\ attrs.notified /\ ~attrs.replied /\ ~attrs.acked

(* The listing a sweep judges later.  _should_skip looks at nothing else,  *)
(* so that a listing in which it skips the case changes nothing.           *)
ListCases ==
    /\ sweep = NoSweep
    /\ Candidate
    /\ sweep' = [sweep EXCEPT !.phase = "judge", !.seen = attrs]
    /\ UNCHANGED <<labels, status, attrs, events, reopens, job, hist, acts, faults>>

(* Nothing is due, no dealer is known, or the ladder is off or dry. *)
SkipCase ==
    /\ sweep.phase = "judge"
    /\ sweep' = NoSweep
    /\ UNCHANGED <<labels, status, attrs, events, reopens, job, hist, acts, faults>>

(* Mutated: an outage advances the ladder to any rung. *)
DueAny(n) == \A m \in Stamped(sweep.seen) : m < n

(* due_step: the rung after the current one. *)
Due(n) == n - 1 \in Stamped(sweep.seen) /\ \A m \in Stamped(sweep.seen) : m < n

(* A rung without a recipient is stamped and not sent. *)
AfterStamp(n, to) == IF to THEN [NoSweep EXCEPT !.phase = "send", !.rung = n] ELSE NoSweep

(* The GET of the stamp's write; when it fails nothing is written, and the *)
(* sweep goes on as if it were.                                            *)
ReadForStamp(n, to, ok) ==
    /\ sweep.phase = "judge"
    /\ Due(n) /\ n \notin sweep.seen.stamps
    /\ to \/ n \in Silent
    /\ Outcome(ok)
    /\ sweep' = IF ok THEN [NoSweep EXCEPT !.phase = "stamp", !.rung = n, !.to = to, !.base = attrs]
                      ELSE AfterStamp(n, to)
    /\ hist' = [hist EXCEPT !.unsent = IF to THEN @ ELSE @ \cup {n},
                            !.lost   = IF ok THEN @ ELSE @ \cup {n}]
    /\ UNCHANGED <<labels, status, attrs, events, reopens, job, acts>>

StampRung(ok) ==
    /\ sweep.phase = "stamp"
    /\ Outcome(ok)
    /\ IF ok
       THEN Replace([sweep.base EXCEPT !.stamps = @ \cup {sweep.rung}, !.counter = sweep.rung], FALSE)
       ELSE /\ hist' = [hist EXCEPT !.lost = @ \cup {sweep.rung}]
            /\ UNCHANGED <<attrs, events>>
    /\ sweep' = AfterStamp(sweep.rung, sweep.to)
    /\ UNCHANGED <<labels, status, reopens, job, acts>>

(* The sweep ends between its stamp and its send. *)
Unsent == [hist EXCEPT !.unsent = @ \cup {sweep.rung}]

(* Mutated: a send whose answer is lost is tried again. *)
SendRungRetried(ok) ==
    /\ sweep.phase = "send"
    /\ Outcome(ok)
    /\ hist' = [hist EXCEPT !.sends[sweep.rung] = AtMost2(@ + 1)]
    /\ sweep' = IF ok THEN NoSweep ELSE sweep
    /\ UNCHANGED <<labels, status, attrs, events, reopens, job, acts>>

(* The reminder, or on the last rung the telephone task. *)
SendRung(ok) ==
    /\ sweep.phase = "send"
    /\ Outcome(ok)
    /\ hist' = IF ok THEN [hist EXCEPT !.sends[sweep.rung] = AtMost2(@ + 1),
                                       !.late = IF attrs.replied THEN AtMost2(@ + 1) ELSE @]
                     ELSE Unsent
    /\ sweep' = NoSweep
    /\ UNCHANGED <<labels, status, attrs, events, reopens, job, acts>>

-----------------------------------------------------------------------------
(* The world: agents at work in Chatwoot, and restarts of the services. *)

AgentEscalates ==
    /\ Act
    /\ "escalate" \notin labels
    /\ labels' = labels \cup {"escalate"}
    /\ Announce(labels', attrs)
    /\ UNCHANGED <<status, attrs, reopens, job, sweep, hist, faults>>

AgentWithdraws ==
    /\ Act
    /\ "escalate" \in labels
    /\ labels' = labels \ {"escalate"}
    /\ Announce(labels', attrs)
    /\ UNCHANGED <<status, attrs, reopens, job, sweep, hist, faults>>

(* The one attribute an agent sets by hand. *)
AgentAcknowledges ==
    /\ Act
    /\ attrs' = [attrs EXCEPT !.acked = TRUE]
    /\ Announce(labels, attrs')
    /\ UNCHANGED <<labels, status, reopens, job, sweep, hist, faults>>

AgentResolves ==
    /\ Act
    /\ status = "open" /\ status' = "resolved"
    /\ Announce(labels, attrs)
    /\ UNCHANGED <<labels, attrs, reopens, job, sweep, hist, faults>>

AgentReopens ==
    /\ Act
    /\ status = "resolved" /\ Opened
    /\ UNCHANGED <<labels, attrs, job, sweep, faults>>

(* Any other change of the case, which is announced like these. *)
AgentEdits ==
    /\ Act
    /\ Announce(labels, attrs)
    /\ UNCHANGED <<labels, attrs, status, reopens, job, sweep, hist, faults>>

AgentServiceRestarts ==
    /\ Fault
    /\ job' = [h \in Slots |-> NoJob]
    /\ UNCHANGED <<labels, status, attrs, events, reopens, sweep, hist, acts>>

BackendRestarts ==
    /\ Fault
    /\ sweep' = NoSweep
    /\ hist' = IF sweep.phase = "send" THEN Unsent ELSE hist
    /\ UNCHANGED <<labels, status, attrs, events, reopens, job, acts>>

-----------------------------------------------------------------------------

TaskStep(h) ==
    \/ \E ok \in BOOLEAN : ReadCase(h, ok) \/ PostNote(h, ok) \/ OpenCase(h, ok)
    \/ \E whom \in Found, out \in Outcomes : Notify(h, whom, out)
    \/ \E ok \in BOOLEAN : GetAttributes(h, ok) \/ PostAttributes(h, ok)
    \/ \E ok \in BOOLEAN : GetLabels(h, ok) \/ PostLabels(h, ok)

SweepStep ==
    \/ ListCases
    \/ SkipCase
    \/ \E n \in Rungs, to, ok \in BOOLEAN : ReadForStamp(n, to, ok)
    \/ \E ok \in BOOLEAN : StampRung(ok) \/ SendRung(ok)

AgentStep ==
    \/ AgentEscalates \/ AgentWithdraws \/ AgentAcknowledges
    \/ AgentResolves \/ AgentReopens \/ AgentEdits

Next ==
    \/ \E h \in Slots : \/ \E e \in events : MaybeEscalate(h, e)
                        \/ RecordStatus(h)
                        \/ \E kind \in Arriving : Arrives(h, kind)
                        \/ TaskStep(h)
    \/ SweepStep
    \/ AgentStep
    \/ AgentServiceRestarts \/ BackendRestarts

Spec == Init /\ [][Next]_vars

-----------------------------------------------------------------------------
(* Properties. *)

Kinds  == Arriving \cup {"none", "notify", "rearm", "reopen"}
Phases == {"idle", "read", "send", "note", "open", "get", "post", "labels", "union"}

Attributes == [notified : BOOLEAN, replied : BOOLEAN, updated : BOOLEAN, acked : BOOLEAN,
               counter : 0..Top, stamps : SUBSET Rungs, count : Nat]

(* Every variable keeps its type. *)
TypeOK ==
    /\ labels \subseteq {"escalate", "replied"}
    /\ status \in {"open", "resolved"}
    /\ attrs \in Attributes
    /\ events \subseteq [escalate : BOOLEAN, notified : BOOLEAN]
    /\ reopens \in Nat
    /\ job \in [Slots -> [kind : Kinds, phase : Phases, count : Nat, base : Attributes,
                          tags : SUBSET {"escalate", "replied"}]]
    /\ sweep \in [phase : {"idle", "judge", "stamp", "send"}, rung : 0..Top, to : BOOLEAN,
                  seen : Attributes, base : Attributes]
    /\ sweep.phase \in {"stamp", "send"} => sweep.rung \in Rungs
    /\ hist \in [sends : [Rungs -> 0..2], unsent : SUBSET Rungs, lost : SUBSET Rungs,
                 noted : BOOLEAN, unsaid : BOOLEAN, fanout : Fanouts, late : 0..2,
                 opened : Nat]
    /\ acts \in 0..MaxActs
    /\ faults \in 0..MaxFaults

(* A dealer gets each reminder once, through restarts of either service,   *)
(* as long as its stamp is neither unwritten nor overwritten: the stamp    *)
(* comes before the send.                                                  *)
RemindedOnceWhileStamped ==
    \A n \in Rungs : hist.sends[n] > 1 => n \in hist.lost

(* The rungs are climbed one by one.  Whatever stamps are dropped or put   *)
(* back, nobody is reminded, or telephoned, before every lower rung was    *)
(* reminded, unless that rung was found without a recipient or a sweep     *)
(* lost its reminder: the stamp comes first, and counts as the reminder.   *)
RungsClimbed ==
    \A n, m \in Rungs : hist.sends[n] > 0 /\ m < n =>
        hist.sends[m] > 0 \/ m \in hist.unsent

(* After the dealer's reply is stamped, the sweep in progress may still    *)
(* send the one reminder it was about to send, and no other sweep does,    *)
(* unless the stamp is dropped again.                                      *)
QuietAfterReply == hist.late > 1 => hist.unsaid

(* The reply's stamp, which stops the ladder, and the update's, which      *)
(* stops the customer's clock, only ever stand on a case the dealer's      *)
(* words have been copied onto.                                            *)
StampsFollowNote == attrs.replied \/ attrs.updated => hist.noted

(* Reopenings may be lost but never counted twice: the reopen rate does    *)
(* not drift upwards.                                                      *)
NeverOvercounted == attrs.count <= hist.opened

Quiet == events = {} /\ reopens = 0 /\ \A h \in Slots : job[h] = NoJob

(* When every webhook has been handled and nothing has failed, a case with *)
(* the label has been through a fan-out since its guard was last cleared,  *)
(* unless a writer put the old guard back; and a case without the label    *)
(* has no guard that would silence its next escalation.                    *)
EscalationReaches == Quiet /\ faults = 0 =>
    IF "escalate" \in labels THEN hist.fanout \notin {"none", "cleared"}
                             ELSE ~attrs.notified

(* A guard is left only by an escalation that was sent to somebody. *)
StampMeansSent == attrs.notified => hist.fanout = "somebody"

(* A case that is escalated anew is brought to somebody's notice anew. *)
ReescalationReaches ==
    Quiet /\ faults = 0 /\ "escalate" \in labels => hist.fanout # "revived"

(* A dealer gets each reminder once. *)
RemindedOnce == \A n \in Rungs : hist.sends[n] <= 1
=============================================================================
