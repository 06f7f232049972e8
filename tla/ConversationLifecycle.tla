----------------------- MODULE ConversationLifecycle -----------------------
(***************************************************************************)
(* The agent service's conversation lifecycle (agent/app/services): the    *)
(* idle warning, the automatic close, the "is your case resolved?" prompt  *)
(* and the rating survey of ONE conversation on a chat channel.            *)
(*                                                                         *)
(* Every handler of the service is an asyncio coroutine that reads the     *)
(* lifecycle row once, decides, and then works through a list of awaits    *)
(* (post, write the row, mirror, resolve).  Any other handler may run      *)
(* between two awaits.  A handler is therefore a job: the awaits it still  *)
(* has to perform.  The decision is taken at the read, the row is written  *)
(* blindly later: lifecycle_store.transition has no guard on the state it  *)
(* replaces.                                                               *)
(*                                                                         *)
(* Time is counted in abstract minutes (Tick).  Ages saturate at MaxAge.   *)
(***************************************************************************)
EXTENDS Integers, Sequences, FiniteSets

CONSTANTS
    Replies,          \* slots for concurrent customer-message handlers
    Resolutions,      \* the webhook events one resolution is announced by
    WarnAfter,        \* idle minutes before the warning
    Graces,           \* possible warn-to-close graces (in and out of hours)
    ConfirmAfter,     \* minutes an unanswered prompt or survey is kept
    AssignedIdle,     \* lifecycle_assigned_idle_resolve_minutes, 0 = off
    SurveyEnabled,    \* lifecycle_survey_enabled
    InactivityEnabled,\* the inbox's inactivity_enabled override
    MaxAge,           \* bound: where ages saturate
    MaxLag,           \* bound: minutes that may pass during one sweep
    MaxActs,          \* bound: acts of the customer and of human agents
    MaxFaults,        \* bound: failed calls, database errors and restarts
    HandlersPrompt    \* TRUE: webhook handlers finish within the minute

VARIABLES
    row,     \* the conversation_lifecycle row: state, survey_variant, age
    mirror,  \* the lifecycle_state custom attribute agents see in Chatwoot
    conv,    \* the Chatwoot conversation: status, assignee, minutes idle
    sweep,   \* the scanner's tick: phase, listed entries, minutes elapsed
    job,     \* what each handler still has to do
    acts,    \* acts of customer and agents so far
    faults,  \* faults so far
    hist     \* history, read by properties only

vars == <<row, mirror, conv, sweep, job, acts, faults, hist>>

-----------------------------------------------------------------------------
(* Lifecycle states; "none" is an absent row.                              *)

ACTIVE              == "active"
IDLE_WARNED         == "idle_warned"
AWAITING_RESOLUTION == "awaiting_resolution"
AWAITING_SURVEY     == "awaiting_survey"
CLOSED              == "closed"

Awaiting  == {AWAITING_RESOLUTION, AWAITING_SURVEY}
RowStates == {"none", ACTIVE, IDLE_WARNED, CLOSED} \cup Awaiting
Variants  == {"none", "ai", "agent"}
Statuses  == {"pending", "open", "resolved"}

Scanner  == "scanner"    \* the single run_scanner task
Creation == "creation"   \* the on_conversation_created task
Handlers == {Scanner, Creation} \cup Replies \cup Resolutions

Ages == 0..MaxAge

(* The thresholds lie within the range of ages, even when a sweep's lag is *)
(* subtracted from them; handlers of different kinds are different.        *)
ASSUME ConstantsAssumption ==
    /\ IsFiniteSet(Replies) /\ IsFiniteSet(Resolutions)
    /\ Replies \cap Resolutions = {}
    /\ (Replies \cup Resolutions) \cap {Scanner, Creation} = {}
    /\ WarnAfter \in Nat /\ ConfirmAfter \in Nat /\ AssignedIdle \in Nat
    /\ Graces \subseteq Nat /\ Graces # {}
    /\ MaxAge \in Nat /\ MaxLag \in Nat \ {0}
    /\ \A g \in Graces : WarnAfter + g + MaxLag <= MaxAge
    /\ ConfirmAfter + MaxLag <= MaxAge /\ AssignedIdle + MaxLag <= MaxAge
    /\ MaxActs \in Nat /\ MaxFaults \in Nat
    /\ SurveyEnabled \in BOOLEAN /\ InactivityEnabled \in BOOLEAN
    /\ HandlersPrompt \in BOOLEAN

-----------------------------------------------------------------------------
(* Jobs.  "seen" is the row state the handler read and decided on (its     *)
(* local variable "state"), "to" the state it writes and mirrors, "msg"    *)
(* what it posts or, before it has read the row, what it has received.     *)

Steps     == {"read", "seed", "post", "record", "reopen",
              "write", "mirror", "resolve"}
Prompts   == {"idle_warning", "resolution_prompt", "survey_ai", "survey_agent"}
Posts     == Prompts \cup {"disclaimer", "assign_agent", "thanks"}
Heard     == {"yes", "other", "by_bot", "by_human"}

Job(todo, seen, to, msg) ==
    [todo |-> todo, seen |-> seen, to |-> to, msg |-> msg]

NoJob       == Job(<< >>, "none", "none", "none")
JobType     == [todo : Seq(Steps), seen : RowStates, to : RowStates,
                msg : Posts \cup Heard \cup {"none"}]
Received(m) == Job(<<"read">>, "none", "none", m)
Greet       == Job(<<"seed", "mirror", "post">>, "none", ACTIVE, "disclaimer")
Track       == Job(<<"seed", "mirror">>, "none", ACTIVE, "none")
SeedOnly    == Job(<<"seed">>, ACTIVE, ACTIVE, "none")
SeedAndWarn == Job(<<"seed", "post", "write", "mirror">>,
                   ACTIVE, IDLE_WARNED, "idle_warning")
(* Mutated: the row does not wait for the answer to the warning. *)
WarnUnwritten == Job(<<"post", "mirror">>, ACTIVE, IDLE_WARNED, "idle_warning")
Warn        == Job(<<"post", "write", "mirror">>,
                   ACTIVE, IDLE_WARNED, "idle_warning")
(* Mutated: the row waits for an answer before the question is posted. *)
PromptCloseWriteFirst == Job(<<"write", "post", "mirror">>,
                             IDLE_WARNED, AWAITING_RESOLUTION, "resolution_prompt")
PromptClose == Job(<<"post", "write", "mirror">>,
                   IDLE_WARNED, AWAITING_RESOLUTION, "resolution_prompt")
(* Mutated: resolved before the row is CLOSED. *)
CloseResolveFirst(state) ==
               Job(<<"resolve", "write", "mirror">>, state, CLOSED, "none")
CloseSilently(state) ==
               Job(<<"write", "mirror", "resolve">>, state, CLOSED, "none")
Reactivate  == Job(<<"write">>, IDLE_WARNED, ACTIVE, "none")
(* Mutated: the hand-over does not end the lifecycle. *)
AssignAgentUnclosed == Job(<<"post", "reopen", "mirror">>,
                           AWAITING_RESOLUTION, CLOSED, "assign_agent")
AssignAgent == Job(<<"post", "reopen", "write", "mirror">>,
                   AWAITING_RESOLUTION, CLOSED, "assign_agent")
SurveyAi    == Job(<<"post", "write", "mirror">>,
                   AWAITING_RESOLUTION, AWAITING_SURVEY, "survey_ai")
(* Mutated: the rating does not end the survey. *)
RateUnclosed == Job(<<"record", "post", "mirror", "resolve">>,
                    AWAITING_SURVEY, CLOSED, "thanks")
Rate        == Job(<<"record", "post", "write", "mirror", "resolve">>,
                   AWAITING_SURVEY, CLOSED, "thanks")
SurveyAgent(state) ==
               Job(<<"post", "write", "mirror">>,
                   state, AWAITING_SURVEY, "survey_agent")

Rest(h)   == job[h].todo = << >>
AtStep(h, s) == job[h].todo # << >> /\ Head(job[h].todo) = s

(* The job once its current step is done. *)
Advance(j) == IF Len(j.todo) = 1 THEN NoJob ELSE [j EXCEPT !.todo = Tail(@)]

Step(h) == job' = [job EXCEPT ![h] = Advance(@)]

Older(a)   == IF a < MaxAge THEN a + 1 ELSE a

(* A swallowed HTTP failure costs one fault. *)
Outcome(ok) == /\ ok \/ faults < MaxFaults
               /\ faults' = IF ok THEN faults ELSE faults + 1

-----------------------------------------------------------------------------
Init ==
    /\ row    = [state |-> "none", variant |-> "none", age |-> 0]
    /\ mirror = "none"
    /\ conv   = [status |-> "pending", assigned |-> FALSE, idle |-> 0]
    /\ sweep  = [phase |-> "sleep", queue |-> << >>, lag |-> 0]
    /\ \E birth \in {Greet, Track, NoJob} :
          job = [h \in Handlers |-> IF h = Creation THEN birth ELSE NoJob]
    /\ acts   = 0
    /\ faults = 0
    /\ hist   = [said |-> {}, rated |-> 0, promised |-> FALSE,
                 clean |-> TRUE, asked |-> {}, overlap |-> FALSE]

-----------------------------------------------------------------------------
(* Marks of the history.                                                   *)

(* The job still has step s before it. *)
Left(j, s) == \E i \in 1..Len(j.todo) : j.todo[i] = s

(* The question the scanner has put and not yet written to the row.        *)
Unrecorded == IF AtStep(Scanner, "write") THEN {job[Scanner].msg} ELSE {}

(* A hand-over has reopened the conversation and not yet written the row,  *)
(* and another handler has the row still to write or the conversation      *)
(* still to resolve.                                                       *)
HandsOver(j) == j.msg = "assign_agent" /\ j.todo # << >> /\ Head(j.todo) = "write"
Engaged(j)   == j.msg # "assign_agent" /\ (Left(j, "write") \/ Left(j, "resolve"))
Overlap(jobs) ==
    \E h, k \in Handlers : HandsOver(jobs[h]) /\ Engaged(jobs[k])

MarkOverlap == hist' = [hist EXCEPT !.overlap = @ \/ Overlap(job')]

-----------------------------------------------------------------------------
(* Steps shared by all handlers.                                           *)

(* lifecycle._post: errors are swallowed, a delivered message is activity. *)
Post(h, ok) ==
    /\ AtStep(h, "post")
    /\ Outcome(ok)
    /\ Step(h)
    /\ conv' = IF ok THEN [conv EXCEPT !.idle = 0] ELSE conv
    /\ hist' = [hist EXCEPT
                  !.said     = @ \cup ({job[h].msg} \cap Prompts),
                  !.promised = @ \/ (ok /\ job[h].msg = "assign_agent"),
                  !.asked    = IF h = Scanner
                               THEN @ \cup ({job[h].msg} \cap Prompts) ELSE @]
    /\ UNCHANGED <<row, mirror, sweep, acts>>

(* lifecycle_store.transition: an unconditional write of the row. *)
Write(h) ==
    /\ AtStep(h, "write")
    /\ row' = [state   |-> job[h].to,
               variant |-> CASE job[h].msg = "survey_ai"    -> "ai"
                             [] job[h].msg = "survey_agent" -> "agent"
                             [] OTHER                       -> row.variant,
               age     |-> 0]
    /\ hist' = [hist EXCEPT
                  !.clean = @ /\ row.state = job[h].seen,
                  !.asked = IF job[h].to = ACTIVE THEN {} ELSE @]
    /\ Step(h)
    /\ UNCHANGED <<mirror, conv, sweep, acts, faults>>

(* lifecycle_store.seed_active: inserts only if the row is absent. *)
Seed(h) ==
    /\ AtStep(h, "seed")
    /\ row' = IF row.state = "none"
              THEN [state |-> ACTIVE, variant |-> "none", age |-> 0]
              ELSE row
    /\ Step(h)
    /\ UNCHANGED <<mirror, conv, sweep, acts, faults, hist>>

(* lifecycle._mirror_state: best effort. *)
Mirror(h, ok) ==
    /\ AtStep(h, "mirror")
    /\ Outcome(ok)
    /\ mirror' = IF ok THEN job[h].to ELSE mirror
    /\ Step(h)
    /\ UNCHANGED <<row, conv, sweep, acts, hist>>

(* Chatwoot announces a resolution by the Resolutions events, each handled *)
(* by its own on_human_resolved task; a slot still busy absorbs its event. *)
Announce(j, by) ==
    [h \in Handlers |-> IF h \in Resolutions /\ j[h].todo = << >>
                        THEN Received(by) ELSE j[h]]

(* lifecycle._resolve: best effort; resolving twice announces nothing. *)
Resolve(h, ok) ==
    /\ AtStep(h, "resolve")
    /\ Outcome(ok)
    /\ LET done == [job EXCEPT ![h] = Advance(@)]
       IN  IF ok /\ conv.status # "resolved"
           THEN /\ conv' = [conv EXCEPT !.status = "resolved"]
                /\ job'  = Announce(done, "by_bot")
           ELSE /\ job' = done
                /\ UNCHANGED conv
    /\ UNCHANGED <<row, mirror, sweep, acts, hist>>

(* lifecycle._reopen: best effort. *)
Reopen(h, ok) ==
    /\ AtStep(h, "reopen")
    /\ Outcome(ok)
    /\ conv' = IF ok THEN [conv EXCEPT !.status = "open"] ELSE conv
    /\ Step(h)
    /\ MarkOverlap
    /\ UNCHANGED <<row, mirror, sweep, acts>>

(* lifecycle._record_survey: the rating is logged, best effort. *)
Record(h, ok) ==
    /\ AtStep(h, "record")
    /\ Outcome(ok)
    /\ hist' = [hist EXCEPT !.rated = IF ok /\ @ < 2 THEN @ + 1 ELSE @]
    /\ Step(h)
    /\ UNCHANGED <<row, mirror, conv, sweep, acts>>

-----------------------------------------------------------------------------
(* The scanner (lifecycle_scanner.scan_once): list the pending, then the   *)
(* open conversations, then process every listed entry in turn.  An entry  *)
(* is a snapshot; a conversation reopened between the two calls is listed  *)
(* twice.  Ages are measured against the clock read when the sweep began.  *)

Entry    == [assigned : BOOLEAN, idle : (-MaxLag)..MaxAge]
Snapshot == [assigned |-> conv.assigned, idle |-> conv.idle - sweep.lag]
Listed(status) == IF conv.status = status THEN <<Snapshot>> ELSE << >>

ListPending(ok) ==
    /\ sweep.phase = "sleep"
    /\ Outcome(ok)
    /\ sweep' = [phase |-> "listing", lag |-> 0,
                 queue |-> IF ok THEN Listed("pending") ELSE << >>]
    /\ UNCHANGED <<row, mirror, conv, job, acts, hist>>

ListOpen(ok) ==
    /\ sweep.phase = "listing"
    /\ Outcome(ok)
    /\ sweep' = [sweep EXCEPT
                   !.phase = "processing",
                   !.queue = IF ok THEN @ \o Listed("open") ELSE @]
    /\ UNCHANGED <<row, mirror, conv, job, acts, hist>>

(* Mutated: a prompt or survey nobody answers is kept. *)
IdleActionNoTimeout(state, idle, age, grace) ==
    CASE state = ACTIVE /\ idle >= WarnAfter              -> Warn
      [] state = IDLE_WARNED /\ idle >= WarnAfter + grace -> PromptClose
      [] OTHER                                            -> NoJob

(* lifecycle_scanner.decide_idle_action *)
IdleAction(state, idle, age, grace) ==
    CASE state = ACTIVE /\ idle >= WarnAfter              -> Warn
      [] state = IDLE_WARNED /\ idle >= WarnAfter + grace -> PromptClose
      [] state \in Awaiting /\ age >= ConfirmAfter        -> CloseSilently(state)
      [] OTHER                                            -> NoJob

(* What _process_one decides on an unassigned entry, from the row it reads *)
(* now.  An absent row is seeded and treated as ACTIVE.                    *)
UnassignedJob(entry, grace) ==
    CASE row.state = CLOSED -> NoJob
      [] row.state = "none" ->
            IF InactivityEnabled /\ entry.idle >= WarnAfter
            THEN SeedAndWarn ELSE SeedOnly
      [] row.state \notin {"none", CLOSED} ->
            IF InactivityEnabled
            THEN IdleAction(row.state, entry.idle,
                            row.age - sweep.lag, grace)
            ELSE NoJob

(* _maybe_resolve_stale_handoff: an assigned entry, silently resolved. *)
AssignedJob(entry) ==
    IF AssignedIdle > 0 /\ entry.idle >= AssignedIdle /\ row.state # CLOSED
    THEN CloseSilently(row.state)
    ELSE NoJob

Process(grace) ==
    /\ sweep.phase = "processing"
    /\ sweep.queue # << >>
    /\ Rest(Scanner)
    /\ LET entry == Head(sweep.queue)
       IN  job' = [job EXCEPT ![Scanner] =
                     IF entry.assigned THEN AssignedJob(entry)
                                       ELSE UnassignedJob(entry, grace)]
    /\ sweep' = [sweep EXCEPT !.queue = Tail(@)]
    /\ MarkOverlap
    /\ UNCHANGED <<row, mirror, conv, acts, faults>>

SweepEnds ==
    /\ sweep.phase = "processing"
    /\ sweep.queue = << >>
    /\ Rest(Scanner)
    /\ sweep' = [phase |-> "sleep", queue |-> << >>, lag |-> 0]
    /\ UNCHANGED <<row, mirror, conv, job, acts, faults, hist>>

-----------------------------------------------------------------------------
(* The customer's message, after the webhook: the orchestrator's pre-check *)
(* reads the row (_maybe_handle_lifecycle_reply) and the lifecycle answers *)
(* (handle_lifecycle_reply).  A message it does not consume goes on to the *)
(* bot, which is not modelled here.                                        *)

ReplyJob(state, answer) ==
    CASE state = IDLE_WARNED -> Reactivate
      [] state = AWAITING_RESOLUTION /\ answer = "other" -> AssignAgent
      [] state = AWAITING_RESOLUTION /\ answer = "yes" ->
            IF SurveyEnabled THEN SurveyAi ELSE CloseSilently(state)
      [] state = AWAITING_SURVEY -> Rate
      [] OTHER -> NoJob

ReadForReply(r) ==
    /\ AtStep(r, "read")
    /\ job' = [job EXCEPT ![r] = ReplyJob(row.state, @.msg)]
    /\ MarkOverlap
    /\ UNCHANGED <<row, mirror, conv, sweep, acts, faults>>

(* Mutated: a closed lifecycle does not suppress the survey. *)
ReadForResolutionClosed(e) ==
    /\ AtStep(e, "read")
    /\ job' = [job EXCEPT ![e] =
                 IF SurveyEnabled /\ row.state \notin Awaiting
                 THEN SurveyAgent(row.state) ELSE NoJob]
    /\ MarkOverlap
    /\ UNCHANGED <<row, mirror, conv, sweep, acts, faults>>

(* on_human_resolved: skipped when the lifecycle owns the ending. *)
ReadForResolution(e) ==
    /\ AtStep(e, "read")
    /\ job' = [job EXCEPT ![e] =
                 IF SurveyEnabled /\ row.state \notin Awaiting \cup {CLOSED}
                 THEN SurveyAgent(row.state) ELSE NoJob]
    /\ MarkOverlap
    /\ UNCHANGED <<row, mirror, conv, sweep, acts, faults>>

-----------------------------------------------------------------------------
(* The world outside the service: the customer, the human agents and       *)
(* Chatwoot itself.                                                        *)

Act == acts < MaxActs /\ acts' = acts + 1

(* The customer writes; Chatwoot reopens a resolved conversation and calls *)
(* the bot webhook.  "answer" is what parse_yes_no makes of the text.      *)
CustomerWrites(r, answer, reopened) ==
    /\ Act
    /\ Rest(r)
    /\ conv' = [conv EXCEPT
                  !.idle   = 0,
                  !.status = IF @ = "resolved" THEN reopened ELSE @]
    /\ job' = [job EXCEPT ![r] = Received(answer)]
    /\ UNCHANGED <<row, mirror, sweep, faults, hist>>

(* A conversation is handed to an agent, or taken by one. *)
AgentTakes ==
    /\ Act
    /\ conv.status # "resolved" /\ ~conv.assigned
    /\ conv' = [conv EXCEPT !.assigned = TRUE, !.status = "open"]
    /\ UNCHANGED <<row, mirror, sweep, job, faults, hist>>

AgentLeaves ==
    /\ Act
    /\ conv.assigned
    /\ conv' = [conv EXCEPT !.assigned = FALSE]
    /\ UNCHANGED <<row, mirror, sweep, job, faults, hist>>

(* The bot hands over, or an agent opens: pending becomes open. *)
Opens ==
    /\ Act
    /\ conv.status = "pending"
    /\ conv' = [conv EXCEPT !.status = "open"]
    /\ UNCHANGED <<row, mirror, sweep, job, faults, hist>>

AgentResolves ==
    /\ Act
    /\ conv.status # "resolved"
    /\ conv' = [conv EXCEPT !.status = "resolved"]
    /\ job'  = Announce(job, "by_human")
    /\ hist' = [hist EXCEPT !.promised = FALSE]
    /\ UNCHANGED <<row, mirror, sweep, faults>>

(* A minute passes.  A sweep takes at most MaxLag minutes; with            *)
(* HandlersPrompt no webhook handler spans a whole minute.                 *)
Tick ==
    /\ sweep.phase # "sleep" => sweep.lag < MaxLag
    /\ HandlersPrompt => \A h \in Handlers \ {Scanner} : Rest(h)
    /\ row'   = [row EXCEPT !.age = Older(@)]
    /\ conv'  = [conv EXCEPT !.idle = Older(@)]
    /\ sweep' = [sweep EXCEPT !.lag = IF sweep.phase = "sleep" THEN @ ELSE @ + 1]
    /\ UNCHANGED <<mirror, job, acts, faults, hist>>

-----------------------------------------------------------------------------
(* Faults.  A database error ends the handler it hits, which has only      *)
(* logged it; a restart of the service loses every task and the sweep, and *)
(* the events already claimed are not delivered again.                     *)

DatabaseError(h) ==
    /\ faults < MaxFaults /\ faults' = faults + 1
    /\ \E s \in {"read", "seed", "record", "write"} : AtStep(h, s)
    /\ job' = [job EXCEPT ![h] = NoJob]
    /\ hist' = [hist EXCEPT !.asked = IF h = Scanner THEN @ \ Unrecorded ELSE @]
    /\ UNCHANGED <<row, mirror, conv, sweep, acts>>

(* The inbox lookup or the row's read fails: the entry is skipped. *)
EntrySkipped ==
    /\ faults < MaxFaults /\ faults' = faults + 1
    /\ sweep.phase = "processing" /\ sweep.queue # << >>
    /\ Rest(Scanner)
    /\ sweep' = [sweep EXCEPT !.queue = Tail(@)]
    /\ UNCHANGED <<row, mirror, conv, job, acts, hist>>

Restart ==
    /\ faults < MaxFaults /\ faults' = faults + 1
    /\ job'   = [h \in Handlers |-> NoJob]
    /\ sweep' = [phase |-> "sleep", queue |-> << >>, lag |-> 0]
    /\ hist'  = [hist EXCEPT !.asked = @ \ Unrecorded]
    /\ UNCHANGED <<row, mirror, conv, acts>>

-----------------------------------------------------------------------------
HandlerStep(h) ==
    \/ \E ok \in BOOLEAN : Post(h, ok) \/ Mirror(h, ok)
    \/ \E ok \in BOOLEAN : Resolve(h, ok) \/ Reopen(h, ok) \/ Record(h, ok)
    \/ Write(h)
    \/ Seed(h)

ScannerStep ==
    \/ \E ok \in BOOLEAN : ListPending(ok) \/ ListOpen(ok)
    \/ \E g \in Graces : Process(g)
    \/ SweepEnds

Environment ==
    \/ \E r \in Replies, answer \in {"yes", "other"},
          reopened \in {"pending", "open"} : CustomerWrites(r, answer, reopened)
    \/ AgentTakes
    \/ AgentLeaves
    \/ Opens
    \/ AgentResolves

Next ==
    \/ \E h \in Handlers : HandlerStep(h)
    \/ ScannerStep
    \/ \E r \in Replies : ReadForReply(r)
    \/ \E e \in Resolutions : ReadForResolution(e)
    \/ Environment
    \/ Tick
    \/ \E h \in Handlers : DatabaseError(h)
    \/ EntrySkipped
    \/ Restart

(* Time passes and no task of the service is abandoned by the event loop;  *)
(* nothing is assumed of the customer, the agents or the faults.           *)
Fairness ==
    /\ WF_vars(Tick)
    /\ WF_vars(ScannerStep)
    /\ \A h \in Handlers : WF_vars(HandlerStep(h))
    /\ \A r \in Replies : WF_vars(ReadForReply(r))
    /\ \A e \in Resolutions : WF_vars(ReadForResolution(e))

Spec     == Init /\ [][Next]_vars
FairSpec == Spec /\ Fairness

-----------------------------------------------------------------------------
(* Properties.                                                             *)

HistType == [said : SUBSET Prompts, rated : 0..2, promised : BOOLEAN,
             clean : BOOLEAN, asked : SUBSET Prompts, overlap : BOOLEAN]

(* Every variable keeps its type. *)
TypeOK ==
    /\ row \in [state : RowStates, variant : Variants, age : Ages]
    /\ mirror \in RowStates
    /\ conv \in [status : Statuses, assigned : BOOLEAN, idle : Ages]
    /\ sweep \in [phase : {"sleep", "listing", "processing"},
                  queue : Seq(Entry), lag : 0..MaxLag]
    /\ job \in [Handlers -> JobType]
    /\ acts \in 0..MaxActs
    /\ faults \in 0..MaxFaults
    /\ hist \in HistType

(* A customer's message is only ever read as an answer to something the    *)
(* service has tried to ask: a row that waits for YES/NO was warned and    *)
(* prompted first, a row that waits for a rating has a survey of its own   *)
(* variant behind it (post before transition, in every branch).            *)
QuestionAsked ==
    /\ row.state = IDLE_WARNED => "idle_warning" \in hist.said
    /\ row.state = AWAITING_RESOLUTION =>
          {"idle_warning", "resolution_prompt"} \subseteq hist.said
    /\ row.state = AWAITING_SURVEY =>
          \/ row.variant = "ai" /\ "survey_ai" \in hist.said
          \/ row.variant = "agent" /\ "survey_agent" \in hist.said

(* The scanner puts a question to a silent customer once.  From one        *)
(* reactivation of the row to the next it never posts the same question    *)
(* again, although a sweep may list the conversation twice and webhook     *)
(* handlers write the row at any time; a question whose write was cut off  *)
(* after its post is forgotten, and is the only one put a second time.     *)
AskedOncePerSilence ==
    AtStep(Scanner, "post") => job[Scanner].msg \notin hist.asked

(* CLOSED is set before the service resolves: as long as no write has      *)
(* replaced a state its writer had not read, a handler about to resolve    *)
(* finds the row still CLOSED.                                             *)
ClosedBeforeResolve ==
    hist.clean => \A h \in Handlers : AtStep(h, "resolve") => row.state = CLOSED

(* The service's own resolution never draws an agent survey, again as long *)
(* as no update of the row was lost.                                       *)
NoSurveyAfterBotResolve ==
    [][\A e \in Resolutions :
         hist.clean /\ AtStep(e, "read") /\ job[e].msg = "by_bot"
            => job'[e] \in {job[e], NoJob}]_vars

(* A rating logged by a handler that has yet to close the row. *)
Rating(h) == Left(job[h], "write") /\ job[h].msg = "thanks"

(* One conversation, one rating: without faults a second rating can only   *)
(* be logged by a handler that has yet to close the row, and its write     *)
(* then is a lost update.  As long as no update is lost, at most one       *)
(* rating is logged whenever no rating is being handled, however many      *)
(* messages the customer sends at once.                                    *)
RatedOnceAtRest ==
    faults = 0 /\ hist.clean /\ (\A h \in Handlers : ~Rating(h))
       => hist.rated <= 1

(* A handler that is handing the conversation over to an agent.            *)
Assigning(h) == Left(job[h], "write") /\ job[h].msg = "assign_agent"

(* The service does not resolve a conversation whose customer it has just  *)
(* promised an agent.  Without faults the promise is kept, whenever no     *)
(* handler is in the middle of making one, unless another handler had its  *)
(* write or its resolution still to do while the promising one stood       *)
(* between reopening the conversation and writing the row.  What was       *)
(* posted, written or resolved before that moment, a timeout's whole close *)
(* included, and whatever is read after it, cannot break the promise.      *)
PromiseKeptAtRest ==
    faults = 0 /\ ~hist.overlap /\ (\A h \in Handlers : ~Assigning(h))
       => (hist.promised => conv.status # "resolved")

(* Every conversation that is open and not yet closed by the lifecycle is  *)
(* eventually resolved or closed, through failures and restarts.           *)
Unfinished == conv.status # "resolved" /\ row.state # CLOSED
WrapsUp    == Unfinished ~> ~Unfinished

(* Stated by the code's comments and docs, and refuted by the code: every  *)
(* property from here to the end of the module has a run that finds a      *)
(* counterexample (README, Findings).                                      *)

(* One conversation, one rating, also while messages are being handled.    *)
RatedOnce == hist.clean => hist.rated <= 1

(* The service never resolves a conversation whose customer it has just    *)
(* promised an agent, not even when a timeout and the answer meet.         *)
PromisedAgentKept == hist.promised => conv.status # "resolved"

(* A warned customer is asked for a resolution no sooner than the shortest *)
(* grace after the warning was written to the row.                         *)
GraceKept ==
    [][row.state = IDLE_WARNED /\ job[Scanner].msg = "resolution_prompt"
       /\ (\E ok \in BOOLEAN : Post(Scanner, ok))
            => \E g \in Graces : row.age >= g]_vars

(* A survey nobody answers is given up. *)
SurveyTimesOut == row.state = AWAITING_SURVEY ~> row.state # AWAITING_SURVEY

(* An assigned conversation both sides have abandoned is resolved. *)
Handed                == conv.assigned /\ conv.status # "resolved"
AbandonedHandoffClears == Handed ~> ~Handed

(* A late reply to a conversation that was closed starts a new lifecycle.  *)
LateReply    == row.state = CLOSED /\ \E r \in Replies : AtStep(r, "read")
ReentrySeeds == LateReply ~> row.state = ACTIVE

(* No warning is posted once activity has resumed. *)
NoWarningAfterActivity ==
    [][\A ok \in BOOLEAN :
         Post(Scanner, ok) /\ job[Scanner].msg = "idle_warning"
            => conv.idle >= WarnAfter]_vars

=============================================================================
