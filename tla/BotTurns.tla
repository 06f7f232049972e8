------------------------------ MODULE BotTurns ------------------------------
(***************************************************************************)
(* The agent bot's turns on ONE pending conversation: the bot webhook and  *)
(* its deduplication (routers/chatwoot, services/dedupe), the debounce of  *)
(* handle_bot_event, and the turn itself (_process_conversation and        *)
(* _process_via_chat_agent) up to its reply or its handoff                 *)
(* (services/orchestrator).                                                *)
(*                                                                         *)
(* Customer messages are numbered in the order Chatwoot stores them.  A    *)
(* message schedules at most one task, which is named after it.  Every     *)
(* await is a step of its own: other tasks run between any two of them.    *)
(* The sleep ends at any time, so no relation between the debounce and the *)
(* time a turn takes is assumed.                                           *)
(***************************************************************************)
EXTENDS Integers, Sequences, SequencesExt

CONSTANTS
    ChatAgent,     \* chat_agent_enabled: the backend agent, not gemini.decide
    Modes,         \* effective modes of the inbox: "auto", "suggest", "off"
    Acknowledges,  \* a handoff message is configured
    MaxChunks,     \* bound: parts one reply is split into
    MaxMessages,   \* bound: messages of the customer
    MaxCopies,     \* bound: deliveries of one webhook
    MaxActs,       \* bound: acts of human agents
    MaxFaults      \* bound: failed Chatwoot calls and restarts

ASSUME ConstantsAssumption ==
    /\ ChatAgent \in BOOLEAN /\ Modes \subseteq {"auto", "suggest", "off"}
    /\ Modes # {}
    /\ Acknowledges \in BOOLEAN
    /\ MaxChunks \in Nat \ {0} /\ MaxMessages \in Nat /\ MaxCopies \in Nat \ {0}
    /\ MaxActs \in Nat /\ MaxFaults \in Nat

VARIABLES
    thread,     \* the public messages Chatwoot stores, oldest first
    status,     \* the conversation's status
    event,      \* the bot webhook of each customer message
    task,       \* the debounce task each message has scheduled
    registered, \* _pending_tasks[conversation]: a task, 0 if absent
    taken,      \* history: messages that were in some turn's snapshot
    acts,       \* acts of human agents so far
    faults      \* faults so far

vars == <<thread, status, event, task, registered, taken, acts, faults>>

Messages == 1..MaxMessages
Outgoing == 0              \* a public message of the bot or of an agent

Sleeping   == {"config", "sleep"}    \* before state.processing is set
Processing == {"fetch", "decide", "post", "note", "ack", "open"}
Phases     == {"none", "cancelled", "done"} \cup Sleeping \cup Processing

NoTask  == [phase |-> "none", chunks |-> 0]
NoEvent == [phase |-> "none", copies |-> 0, pending |-> FALSE]

(* The messages handle_bot_event has accepted: eligible and not consumed.  *)
Owed == {m \in Messages : event[m].phase = "accepted"}

(* The trailing run of customer messages since the last outgoing one       *)
(* (_latest_incoming_messages); lifecycle notices and the channel greeting *)
(* are transparent to it and are left out of the thread.                   *)
TrailingRun(msgs) ==
    {msgs[i] : i \in {k \in 1..Len(msgs) :
                        \A l \in k..Len(msgs) : msgs[l] # Outgoing}}

(* The customer's words a turn works on: gemini.decide sees the latest     *)
(* messages whoever wrote them, the backend agent the trailing run.        *)
TurnText(msgs) == IF ChatAgent THEN TrailingRun(msgs) ELSE ToSet(msgs) \ {Outgoing}

Outcome(ok) == /\ ok \/ faults < MaxFaults
               /\ faults' = IF ok THEN faults ELSE faults + 1

-----------------------------------------------------------------------------
Init ==
    /\ thread = << >>
    /\ status = "pending"
    /\ event = [m \in Messages |-> NoEvent]
    /\ task = [m \in Messages |-> NoTask]
    /\ registered = 0
    /\ taken = {}
    /\ acts = 0
    /\ faults = 0

-----------------------------------------------------------------------------
(* The webhook. *)

(* Mutated: every delivery is processed, claimed or not. *)
DeliverAgain(m) ==
    /\ event[m].copies > 0
    /\ event' = [event EXCEPT ![m].copies = @ - 1, ![m].phase = "claimed"]
    /\ UNCHANGED <<thread, status, task, registered, taken, acts, faults>>

(* The delivery id is claimed before the background task is added: a       *)
(* delivery already claimed is skipped.                                    *)
Deliver(m) ==
    /\ event[m].copies > 0
    /\ event' = [event EXCEPT
                   ![m].copies = @ - 1,
                   ![m].phase  = IF @ = "sent" THEN "claimed" ELSE @]
    /\ UNCHANGED <<thread, status, task, registered, taken, acts, faults>>

(* The registered task is still asleep and may be cancelled. *)
Supersedes == registered # 0 /\ task[registered].phase \in Sleeping

Ignored(m) == /\ event' = [event EXCEPT ![m].phase = "ignored"]
              /\ UNCHANGED <<task, registered>>

Accepted(m) ==
    /\ event' = [event EXCEPT ![m].phase = "accepted"]
    /\ task' = [t \in Messages |->
                  CASE t = m -> [phase |-> "config", chunks |-> 0]
                    [] t # m /\ t = registered /\ Supersedes ->
                          [task[t] EXCEPT !.phase = "cancelled"]
                    [] OTHER -> task[t]]
    /\ registered' = m

(* Mutated: nothing is scheduled while a turn is under way. *)
HandleBotEventBusy(m, consumed) ==
    /\ event[m].phase = "claimed"
    /\ CASE consumed \/ ~event[m].pending   -> Ignored(m)
         [] ~consumed /\ event[m].pending
              /\ registered # 0 /\ ~Supersedes ->
                /\ event' = [event EXCEPT ![m].phase = "accepted"]
                /\ UNCHANGED <<task, registered>>
         [] OTHER                            -> Accepted(m)
    /\ UNCHANGED <<thread, status, taken, acts, faults>>

(* handle_bot_event.  "consumed" is the outcome of the lifecycle pre-check, *)
(* the one await; what follows it is atomic.  A task still asleep is       *)
(* cancelled, one that has passed its sleep is left to finish.             *)
HandleBotEvent(m, consumed) ==
    /\ event[m].phase = "claimed"
    /\ IF consumed \/ ~event[m].pending THEN Ignored(m) ELSE Accepted(m)
    /\ UNCHANGED <<thread, status, taken, acts, faults>>

-----------------------------------------------------------------------------
(* The task: debounce, then one turn. *)

At(t, phase) == task[t].phase = phase
Goto(t, phase) == task' = [task EXCEPT ![t].phase = phase] /\ UNCHANGED registered

(* Mutated: the entry is dropped even if a newer task has replaced it. *)
FinishAlways(t) ==
    /\ task' = [task EXCEPT ![t].phase = "done"]
    /\ registered' = 0

(* The finally clause of _debounced_process: the entry is dropped unless a *)
(* newer task has replaced it.                                             *)
Finish(t) ==
    /\ task' = [task EXCEPT ![t].phase = "done"]
    /\ registered' = IF registered = t THEN 0 ELSE registered

ResolveDebounce(t) ==
    /\ At(t, "config")
    /\ Goto(t, "sleep")
    /\ UNCHANGED <<thread, status, event, taken, acts, faults>>

(* The sleep is over; from here on the task may not be cancelled. *)
Wake(t) ==
    /\ At(t, "sleep")
    /\ Goto(t, "fetch")
    /\ UNCHANGED <<thread, status, event, taken, acts, faults>>

(* Mutated: the newest message is not part of the snapshot. *)
FetchStale(t, mode, ok) ==
    /\ At(t, "fetch")
    /\ Outcome(ok)
    /\ LET text == TurnText(Front(thread)) IN
       IF ~ok \/ (ChatAgent /\ text = {})
       THEN Finish(t) /\ UNCHANGED taken
       ELSE /\ IF mode = "off" THEN Finish(t) ELSE Goto(t, "decide")
            /\ taken' = taken \cup text
    /\ UNCHANGED <<thread, status, event, acts>>

(* The turn's snapshot of the conversation.  It ends at once if the fetch  *)
(* fails, if the backend agent would be given nothing, or if the inbox is  *)
(* off: then what it has read is deliberately left to the humans.          *)
Fetch(t, mode, ok) ==
    /\ At(t, "fetch")
    /\ Outcome(ok)
    /\ IF ~ok \/ (ChatAgent /\ TurnText(thread) = {})
       THEN Finish(t) /\ UNCHANGED taken
       ELSE /\ IF mode = "off" THEN Finish(t) ELSE Goto(t, "decide")
            /\ taken' = taken \cup TurnText(thread)
    /\ UNCHANGED <<thread, status, event, acts>>

(* gemini.decide replies or hands off; so does the backend agent, whose    *)
(* failures and empty replies are handoffs and which may also report that  *)
(* the conversation is a human's already.                                  *)
DecideReply(t, mode, chunks) ==
    /\ At(t, "decide")
    /\ mode # "off" /\ (~ChatAgent => chunks = 1)
    /\ task' = [task EXCEPT ![t] = [phase  |-> IF mode = "auto" THEN "post" ELSE "note",
                                    chunks |-> chunks]]
    /\ UNCHANGED <<thread, status, event, registered, taken, acts, faults>>

DecideHandoff(t) ==
    /\ At(t, "decide")
    /\ Goto(t, IF Acknowledges THEN "ack" ELSE "open")
    /\ UNCHANGED <<thread, status, event, taken, acts, faults>>

DecideForwarded(t) ==
    /\ ChatAgent
    /\ At(t, "decide")
    /\ Finish(t)
    /\ UNCHANGED <<thread, status, event, taken, acts, faults>>

(* One part of the public reply; a failed post ends the turn. *)
PostReply(t, ok) ==
    /\ At(t, "post")
    /\ Outcome(ok)
    /\ thread' = IF ok THEN Append(thread, Outgoing) ELSE thread
    /\ IF ok /\ task[t].chunks > 1
       THEN /\ task' = [task EXCEPT ![t].chunks = @ - 1]
            /\ UNCHANGED registered
       ELSE Finish(t)
    /\ UNCHANGED <<status, event, taken, acts>>

(* The suggested reply, a private note; a failed post ends the turn. *)
PostNote(t, ok) ==
    /\ At(t, "note")
    /\ Outcome(ok)
    /\ IF ok THEN Goto(t, "open") ELSE Finish(t)
    /\ UNCHANGED <<thread, status, event, taken, acts>>

(* The acknowledgment of a handoff, best effort. *)
Acknowledge(t, ok) ==
    /\ At(t, "ack")
    /\ Outcome(ok)
    /\ thread' = IF ok THEN Append(thread, Outgoing) ELSE thread
    /\ Goto(t, "open")
    /\ UNCHANGED <<status, event, taken, acts>>

(* The conversation is opened for a human. *)
OpenForHuman(t, ok) ==
    /\ At(t, "open")
    /\ Outcome(ok)
    /\ status' = IF ok THEN "open" ELSE status
    /\ Finish(t)
    /\ UNCHANGED <<thread, event, taken, acts>>

-----------------------------------------------------------------------------
(* The world: the customer, human agents and Chatwoot. *)

(* The customer writes; Chatwoot stores the message, then sends its        *)
(* webhook, with the status it has now, one or more times.                 *)
CustomerWrites(m, copies) ==
    /\ event[m].phase = "none" /\ \A k \in 1..(m - 1) : event[k].phase # "none"
    /\ thread' = Append(thread, m)
    /\ event' = [event EXCEPT ![m] = [phase   |-> "sent", copies |-> copies,
                                      pending |-> status = "pending"]]
    /\ UNCHANGED <<status, task, registered, taken, acts, faults>>

Act == acts < MaxActs /\ acts' = acts + 1

AgentOpens ==
    /\ Act
    /\ status = "pending" /\ status' = "open"
    /\ UNCHANGED <<thread, event, task, registered, taken, faults>>

AgentReplies ==
    /\ Act
    /\ status = "open"
    /\ thread' = Append(thread, Outgoing)
    /\ UNCHANGED <<status, event, task, registered, taken, faults>>

(* The conversation returns to the bot. *)
Returned ==
    /\ Act
    /\ status = "open" /\ status' = "pending"
    /\ UNCHANGED <<thread, event, task, registered, taken, faults>>

(* A restart loses every task and every background task of a delivery      *)
(* already claimed.                                                        *)
Restart ==
    /\ faults < MaxFaults /\ faults' = faults + 1
    /\ event' = [m \in Messages |->
                   IF event[m].phase = "claimed"
                   THEN [event[m] EXCEPT !.phase = "ignored"] ELSE event[m]]
    /\ task' = [t \in Messages |->
                  IF task[t].phase \in Sleeping \cup Processing
                  THEN [task[t] EXCEPT !.phase = "done"] ELSE task[t]]
    /\ registered' = 0
    /\ UNCHANGED <<thread, status, taken, acts>>

-----------------------------------------------------------------------------
Handle(m) == \E consumed \in BOOLEAN : HandleBotEvent(m, consumed)

TaskStep(t) ==
    \/ ResolveDebounce(t)
    \/ Wake(t)
    \/ \E mode \in Modes, ok \in BOOLEAN : Fetch(t, mode, ok)
    \/ \E mode \in Modes, chunks \in 1..MaxChunks : DecideReply(t, mode, chunks)
    \/ DecideHandoff(t)
    \/ DecideForwarded(t)
    \/ \E ok \in BOOLEAN : PostReply(t, ok) \/ PostNote(t, ok)
    \/ \E ok \in BOOLEAN : Acknowledge(t, ok) \/ OpenForHuman(t, ok)

Environment ==
    \/ \E m \in Messages, copies \in 1..MaxCopies : CustomerWrites(m, copies)
    \/ AgentOpens
    \/ AgentReplies
    \/ Returned

Next ==
    \/ \E m \in Messages : Deliver(m) \/ Handle(m)
    \/ \E t \in Messages : TaskStep(t)
    \/ Environment
    \/ Restart

(* Deliveries, background tasks and scheduled tasks all get to run. *)
Fairness == \A m \in Messages : WF_vars(Deliver(m)) /\ WF_vars(Handle(m))
                             /\ WF_vars(TaskStep(m))

Spec     == Init /\ [][Next]_vars
FairSpec == Spec /\ Fairness

-----------------------------------------------------------------------------
(* Properties. *)

(* Every variable keeps its type. *)
TypeOK ==
    /\ thread \in Seq(Messages \cup {Outgoing})
    /\ status \in {"pending", "open"}
    /\ event \in [Messages -> [phase : {"none", "sent", "claimed", "accepted", "ignored"},
                               copies : 0..MaxCopies, pending : BOOLEAN]]
    /\ task \in [Messages -> [phase : Phases, chunks : 0..MaxChunks]]
    /\ registered \in Messages \cup {0}
    /\ taken \subseteq Messages
    /\ acts \in 0..MaxActs
    /\ faults \in 0..MaxFaults

(* Every task that may still be cancelled is the registered one: the next  *)
(* message of the burst finds it, so that at most one task per             *)
(* conversation sleeps and a burst becomes one turn.                       *)
SleeperRegistered ==
    \A t \in Messages : task[t].phase \in Sleeping => registered = t

(* One message schedules one task, however often its webhook is delivered. *)
ScheduledOnce ==
    [][\A t \in Messages : task[t].phase # "none"
                              => task'[t].phase \in {task[t].phase} \cup (Phases \ {"none", "config"})]_vars

(* No handler of a webhook and no task is at work. *)
Quiet == /\ \A m \in Messages : event[m].phase \notin {"sent", "claimed"}
         /\ \A t \in Messages : task[t].phase \notin Sleeping \cup Processing

(* When everything is done, every message the bot has accepted has been    *)
(* part of some turn, unless a call failed or the service was restarted.   *)
OwedIsTaken == Quiet /\ faults = 0 => Owed \subseteq taken

(* As OwedIsTaken, but a message followed by an outgoing one counts: what  *)
(* remains of the promise when turns overlap on the backend agent's path.  *)
OwedIsTakenOrFollowed ==
    Quiet /\ faults = 0 => Owed \cap TrailingRun(thread) \subseteq taken

(* The bot keeps what MessageService promises. *)
Service == INSTANCE MessageService WITH owed <- Owed
KeepsPromise == Service!Spec

(* The safety half of KeepsPromise: every step of the bot is a step the    *)
(* promise allows.                                                         *)
KeepsPromiseSafely == Service!Init /\ [][Service!Next]_(Service!vars)
=============================================================================
