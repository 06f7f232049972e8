# A TLA+ model of the unified CRM's services

The system is a Chatwoot installation (CRM and live chat, third-party), a FastAPI
**agent service** (`agent/app`) that puts an AI layer on top of it, and a larger
**backend** (`backend/apps/backend/src/chatbot`) with the chat agent, routing, SLA
and escalation. One `uvicorn` process runs the agent service of a tenant
(`agent/Dockerfile`), so its concurrency is that of asyncio: its handlers interleave at
their awaits and nowhere else. Chatwoot, the database and the AI backend are other
processes and may fail at any call. The backend runs its jobs (ladder, sweeper,
poller, SLA scan) on scheduler threads, each job run in an event loop of its own, and
serves requests on the main loop. All paths below are relative to `src/`.

## 1. Inventory

| Part | State | Operations | Interacts with |
|---|---|---|---|
| webhook entry, deduplication (`routers/chatwoot.py`, `services/dedupe.py`) | `processed_deliveries` | claim a delivery, start background tasks | everything below |
| orchestrator (`services/orchestrator.py`) | `_pending_tasks` | pre-check, debounce, turn, reply, note, handoff | Chatwoot, lifecycle, Gemini or `/chat/turn` |
| lifecycle (`services/lifecycle.py`) | `conversation_lifecycle` row, mirrored attribute | greet, prompt answers, rating, survey | Chatwoot, store |
| lifecycle scanner (`services/lifecycle_scanner.py`) | none of its own; works on snapshots | list, warn, close, time out, clear handoffs | Chatwoot, store |
| lifecycle store (`services/lifecycle_store.py`) | the row | read, seed, unconditional write | its callers |
| account event handlers (`services/sync.py`) | custom attributes in Chatwoot | escalate, re-arm, stamp, count reopens | Chatwoot, backend |
| reply linker, bounces (`services/escalation_replies.py`, `bounce_handler.py`) | attributes, notes | link a dealer's mail to its case | lifecycle store, Chatwoot |
| Chatwoot client (`clients/chatwoot.py`) | none | GET-merge-POST of attributes and labels, unlocked | Chatwoot |
| backend Chatwoot adapter (`features/chat/adapters/chatwoot.py`) | map of per-ticket locks | locked read-union-post of attributes and labels | Chatwoot |
| escalation ladder (`features/chat/escalation_ladder.py`) | per-step stamps in attributes | advance a due case by one rung | Chatwoot, notifier |
| SLA scanner (`features/chat/sla.py`, `customer_update.py`) | audit log | record and alert each breach once | webhooks that mark responses |
| routing (`features/routing/service.py`, `sweeper.py`, `router.py`) | assignee in Chatwoot, order of picks | pick, assign, sweep | presence |
| presence (`features/routing/presence_*.py`, `custom_status.py`, `acw.py`) | append-only log | set, poll, alert, after-call work | Chatwoot |
| website hand-off (`features/chat/service.py`, `handoff_bridge.py`, `router.py`) | session document, pause and mapping in Firestore, caches, streams | turn, escalate, resolve, relay, stream | Chatwoot, Firestore, the page |
| other chat channels, telephony, knowledge base, metrics, authorisation | several stores | | |

Hard behaviour, and where it lives:

* a lifecycle decision is taken at one read and carried out over several awaits,
  while the scanner, the customer's next message and the webhooks of a resolution
  do the same (stale decisions, lost updates, message before state);
* the scanner works on two listings taken one after the other;
* the service's own resolution comes back to it as two webhook events;
* a burst of messages is coalesced by cancelling a sleeping task and sparing one
  that has begun;
* deliveries repeat, calls fail and are swallowed, the process restarts and
  forgets every task;
* several writers, of two services, merge into one attribute object: one service
  without any lock, the other under a lock used from two event loops;
* sweeps act on a listing while people, webhooks and requests change what it lists,
  and one failing item may be all a sweep ever gets to;
* who owns a customer of the website is recorded in five places, written one after the
  other by his turns and by two handlers of each resolution, and partly lost in a restart;
* a note, a stamp, a mail, an audit row are written by separate requests, each of which
  may fail, or succeed with its answer lost.

What makes each part correct: the lifecycle never reads an answer to a question it
did not ask, asks nothing twice, resolves only what it has closed, takes one rating, and
comes to an end; the bot answers every message it accepts, once; each reminder and each
alert goes out once and in order, and stops at the answer; no update of a locked attribute is lost; an assignment is made within the
cap and nobody waits for ever; the presence log follows Chatwoot; a silenced session belongs to somebody, a human's
customer is not answered by the bot, and a hand-off ends with its resolution.
`PROJECT.json` lists the hazards at their lines, with the properties that cover them.

## 2. Plan

| # | Module | Models | Abstract specification, properties, theorems |
|---|---|---|---|
| 1 | `ConversationLifecycle` | lifecycle, scanner, store | done; `ConversationLifecycleProofs` |
| 2 | `BotTurns` | bot webhook, debounce, turn | done; implements `MessageService`; `BotTurnsProofs` |
| 3 | `CaseEscalation` | escalation, stamps, replies, counter and ladder on one case's attributes | done; `CaseEscalationProofs` |
| 4 | `TicketLock` | the backend's lock and its writers | done; implements `AttributeMap`; `TicketLockProofs` |
| 5 | `AgentPresence` | status, wrap-up, poller, alerts of one agent | done; `AgentPresenceProofs` |
| 6 | `ConversationRouting` | pick, assign, sweep, hand-over, supervisor | done; `ConversationRoutingProofs` |
| 7 | `SlaScan` | SLA scan, audit log, response markers | done; `SlaScanProofs` |
| 8 | `ChatHandoff` | the website's hand-off to an agent and back | done; `ChatHandoffProofs` |
| 9 | `ScannerPage` | several conversations in one sweep and the first page of a listing | open |
| 10 | telephony | the state machine of a call and its hand-off | open |

Conventions: parameters and bounds are `CONSTANTS` with a named assumption; one
action per await; no recursive operators, so that every module can be proved
about; properties the code's own comments promise and the code breaks are kept at
the end of a module and each has a configuration that shows the counterexample.

## 3. Modules

### `ConversationLifecycle`

One conversation on a chat channel. `row` is the `conversation_lifecycle` row
(state, survey variant, minutes since `state_changed_at`; `"none"` when absent),
`mirror` the attribute agents see, `conv` Chatwoot's record, `sweep` the scanner's
tick, `job` what each handler has still to do.

A handler is a **job**: the awaits it has left, the state it read (`seen`), the
state it will write (`to`) and its message. `Post`, `Write`, `Mirror`, `Resolve`,
`Reopen`, `Record` and `Seed` carry out the next step of any job; the constants
`Warn`, `PromptClose`, `CloseSilently`, `AssignAgent`, `SurveyAi`, `Rate`,
`SurveyAgent`, `Reactivate`, `Greet`, `Track`, `SeedOnly`, `SeedAndWarn` are the
await sequences of the code's branches, in its order. The decision is taken when
the row is read (`ReadForReply`, `ReadForResolution`, `Process`) and the row is
written blindly later, as `lifecycle_store.transition` does.

The scanner lists pending, then open conversations (`ListPending`, `ListOpen`), and
processes each entry on the snapshot's idle time and the row of the moment
(`Process`). Ages are taken against the clock of the sweep's beginning, hence
`sweep.lag`.

Abstractions:
* the two statements of `transition` and of `seed_active` are one step: the
  select and the commit in one short transaction on one row;
* the mirror is one step (such a merge is taken apart in `CaseEscalation`);
* a delivered message of anybody resets `last_activity_at`; which texts are sent
  and what an unreadable rating is recorded as are left out; the two posts of the
  close are one;
* a slot in `Resolutions` that is still busy absorbs a further resolution event;
* a message the lifecycle does not consume goes on to the bot (`BotTurns`).

### `MCConversationLifecycle`

Instance for TLC: the symmetry of the interchangeable message and event slots.

### `BotTurns`

One conversation from the bot webhook to the reply. `thread` holds Chatwoot's
public messages, `event` the webhook of each customer message (its delivery
claimed once), `task` the debounce task it scheduled, `registered` the entry of
`_pending_tasks`, `taken` the messages some turn has read (history). Phases
`config` and `sleep` precede `state.processing`; `fetch`, `decide`, `post`, `note`,
`ack`, `open` follow it. Lifecycle notices and the channel greeting are transparent
to `_latest_incoming_messages` and are left out of the thread. Every
message has words: one with an attachment only, which the backend agent's path drops
when it has nothing to send (`orchestrator.py:697-713`), is not distinguished, and
`gemini.decide` is given the whole thread rather than its last twenty messages. The
sleep may end at any moment, so nothing depends on the debounce's length. `ChatAgent` selects the
path (`_process_via_chat_agent` or `gemini.decide`), `Modes` the effective modes the
inbox may be in: it is looked up in every turn. An inbox that is off leaves what the
turn has read to the humans, which counts as taken.

### `MessageService`

The abstract promise: messages become owed, and a turn takes everything owed.
`BotTurns` implements it (`Service == INSTANCE MessageService WITH owed <- Owed`):
`HandleBotEvent` is `Owe`, `Fetch` is `Turn`, every other action stutters.

### `CaseEscalation`, `MCCaseEscalation`

One escalated case. `attrs` holds its custom attributes (stamps as present or absent),
`labels` the two labels that matter, `job` the agent service's background task in each
slot, `sweep` the ladder. A job is a kind (`notify`, `rearm`, `reopen`, `dealer`, `auto`,
`customer`, `message`, `other`) and the phase it is in; `GetAttributes` and
`PostAttributes` are the two requests of `set_custom_attributes` for every kind, and
`Replace` is what a POST does to the case: the whole object becomes what the task has
merged. `ListCases`, `SkipCase`, `ReadForStamp`, `StampRung` and `SendRung` are the
ladder's steps; its stamp goes through the same GET and POST. Each write makes Chatwoot
announce a `conversation_updated` that carries the state after it, and the event is
handled at any later moment (`MaybeEscalate`). A fan-out may have nobody to send to (`Found`),
and a rung of `Silent` may be found without a recipient: neither is a fault, as neither is in
the code. `hist` is history: `fanout` is what became of the escalation since its guard was last
cleared, `unsent` the rungs that count as climbed although nobody was reminded.

Abstractions: `_should_skip` is judged when the case is listed, since it looks at nothing but
the listing; identical webhooks under way count as one (`events` is a set); whether
a rung's hours are over is a free choice of the sweep; one task stands for all writers
of attributes nothing else reads (`other`); one case, so a sweep's other cases are
outside. The MC module adds the symmetry of slots.

### `TicketLock`, `AttributeMap`

The backend's writers of one conversation. `entry` is the lock in the adapter's map,
`lock` each lock ever made (named after the writer that made it) with its queue and
the loop it is bound to, `task` each writer. `Acquire`, `Release` and `Resume` model
`asyncio.Lock` from its use: a waiter on another loop than the lock's gets an error; one
whose future is completed from another thread is not woken (`FallAsleep`: the sweep's
loop has nothing else to do, so it sleeps in its selector for good).
`FindLock`, `MissLock`, `MakeLock` and `Evict` are `_ticket_lock`; `Get` and `Post` the
requests under the lock; `Insistent` writers are `_post_labels_union`, which posts after a
failed read. `AttributeMap` is what a keyed update promises: it adds its key in one
step; `Clobber` is permitted only after `Break`, which stands for the two guarantees the
code does not give: one lock per ticket (`torn`) and a successful read (`wiped`).

### `AgentPresence`

One agent. `native` is Chatwoot's availability, `latest` the event of the log with the
newest time, `writer` the four writers (the agent's request, the end of a call, the
expiry sweep, the poller), `watch` the alerting job. A writer takes the time of its event
before or after its other awaits as the code does: `older` and `late` keep the order of
those times, so an event that is appended late may stay buried (`Tops`). `fired` counts
the alerts the job has fired about the latest event, `heard` has those that reached somebody;
`Alert` is free to reach nobody, without a fault, because `main.py:1219` starts the job without
a WhatsApp adapter or a mailer and no alert is built then. Statuses are one of each kind
of the seeded catalogue, and ages three: fresh, beyond the first, beyond the second
threshold; the end of wrap-up is at the first.

### `ConversationRouting`, `MCConversationRouting`

`task` is each process (hand-over, supervisor, sweep) with everything it has read:
agents, tally, candidates of the tier. Every call is an action: `FetchAgents`,
`FetchOpenCounts`, `IsRoutable` (once per candidate), `Choose`, `Record`, `Assign`,
`AppendAudit`, `ListWaiting`, `NextWaiting`, `Recheck`. `FetchAgents` reads all pages of the
agents' list (`presence.py:134-159`, one await for each) at once. `fresher` is the order of the last
picks by which ties are broken. A failed channel lookup makes the channel "web", a failed
tally an empty one, a failed second look "unassigned", as in the code. The MC module gives
the agents' ranks.

### `SlaScan`

`case` is Chatwoot's record of each conversation, `log` the states in its audit log,
`scan` the scan with the listing it began with (`seen`), the conversations still to come
(`todo`) and what it will record for the present one (`plan`), `hook` the webhooks that
list the log and append a marker. `Take` reads the policy and the log, `AppendEntry` and
`Alert` are the two halves of `_fire`; the first failed read or append ends the scan, as the
only `try` is the job's.

Abstractions: the unit of time is `sla_scan_interval_minutes`, and a scan ends within
one; the listing is atomic; working hours, per-inbox policies and channel overrides are
constant thresholds; `Old` conversations are a unit older; the audit rows of status
transitions, which the scan does not look at, are left out; the agent's public reply and its
`customer_updated_at` are one act (`CaseEscalation` has them apart); an alert is one step,
since each of its legs is tried once and its failure logged.

### `ChatHandoff`

One web session. `doc`, `pausedDoc` and `triggered` are its three Firestore documents
(mapping, pause, session), `pausedMem`, `adapterConv`, `sessCache` and `convCache` what the
adapter and the bridge hold in memory. `turn` is the request of the customer's page, which sends
one at a time; its places are the awaits of `handle_turn`, `_escalate_handoff` and
`_open_live_bridge`. `hook` has the webhook handlers at work on a resolution: Chatwoot posts
`conversation_resolved` and `conversation_status_changed` for each, and the code gives the
session back for both. `relay` is the handler of an agent's reply, `stream` the page's
`EventSource` with its queue in the bridge. A read of a document and the write of the whole
document that follows are two steps (`snap`), so what is written in between is lost as in the
code. `owned`, `late`, `asked`, `cut` and `lost` are history.

Abstractions: a run of the bot is its first read and its last write of the session
document, repeated as often as it fails or says nothing; the summary, the transcript,
labels, teams and notes of the escalation are left out; `resume_ai`'s read is one step with
its write, which does not depend on it; a failed `open_handoff` ends the turn (the ticket it
would open instead is not a hand-off); one page per session, which reconnects when its stream
ends; a heartbeat is a stutter; a conversation is resolved again only when the webhooks of the
resolution before have been taken.

### `*Proofs`

The theorems of each component (section 5).

Definitions preceded by a comment that begins with "Mutated:" are wrong on purpose:
variants of the definition after them, used to see that a property notices the
mistake. No specification uses them.

## 4. Runs

In every run `MaxActs` bounds what people and the outside world do and `MaxFaults`
failed calls and restarts; in `CaseEscalation` and `SlaScan` faults are among the acts.

| Run | Shows | Distinct states |
|---|---|---|
| `LifecycleFaults` | CLOSED before resolve, question before answer, each question once per silence (`AskedOncePerSilence`), no survey after the service's own resolution, one rating once the handlers are done (`RatedOnceAtRest`), a promised agent lost only to what was still to be written or resolved while the promise was carried out (`PromiseKeptAtRest`): two messages and a resolution in flight beside the scanner, any three acts, any one fault (a failed post is swallowed and a restart forgets) | 2,442,088 |
| `LifecycleWrapsUp` | liveness: an unresolved, unclosed conversation does not stay so; a handler may take arbitrarily many minutes (`HandlersPrompt` FALSE) | 381,941 |
| `BotTurnsDecide` | `gemini.decide`, duplicate deliveries, an inbox switched off: one sleeper, registered; one task per message; nothing accepted is left unread; the whole of `MessageService`, liveness included | 474,120 |
| `BotTurnsAgent` | backend agent, two-part replies, suggestions, one fault: what remains true there | 306,687 |
| `CaseEscalation` | what unlocked GET-merge-POST leaves standing: reminders repeated only after a lost stamp, rungs in order, quiet after the reply, a stamp only with the note, no overcount, a labelled case goes through its fan-out and a case without the label keeps no guard (`EscalationReaches`) | 2,644,359 |
| `TicketLock` | one writer at a time, atomic updates (implements `AttributeMap`), the main loop's writers end and none is forgotten (`LoopersServed`, the safety half of `LoopersFinish`); eviction, a failed request, a writer of each kind | 67,342 |
| `AgentPresence` | the log ends up with Chatwoot, wrap-up ends, an alert is fired once about an event, stamped on that event (`AlertsMatch`), and was due by that event's age (`AlertsEarned`) | 227,640 |
| `RoutingAssigns` | audit rows only of real assignments; whom the sweep may take a conversation from; what the cap is worth with stale tallies | 369,882 |
| `RoutingDrains` | fair share: the least loaded candidate is picked, and nobody waits for ever while somebody is available | 29,393 |
| `SlaScan` | nothing is alerted about twice; every breach is recorded in the end and climbs to level two, which follows nothing else (`LevelTwoFollows`) | 126,865 |
| `ChatHandoff` | a silenced session belongs to somebody; the bot does not answer for a human; streams end; a hand-off ends with its resolution, whatever the caches have lost | 1,510,124 |

Why the bounds are enough:

* Lifecycle: one unit of time is the smallest threshold, `WarnAfter` = `ConfirmAfter` = 1
  and, in `LifecycleWrapsUp`, a grace of 1, so a conversation is warned at age 1 and prompted
  at 2; ages saturate at `MaxAge` = 3, one beyond the last threshold plus the largest lag.
  `LifecycleFaults` has a grace of 0, the code's default outside business hours
  (`agent/app/config.py:86`), so that `MaxAge` = 2 is enough and three acts fit: a question
  and two answers, or a resolution and two ratings. `MaxLag` = 1 lets a
  sweep straddle a minute. Two resolution events are one handler slot: the second event
  of the same resolution reads a row that only its sibling has changed. `LifecycleFaults`
  assumes `HandlersPrompt`, a handler is done within the minute; the theorems do not.
* Bot: three messages are the least with a turn under way, a task asleep and a newcomer.
* `CaseEscalation`: two tasks and the sweep are three writers, of which any two overlap
  while the third has finished or begins; `Top` = 3 is the least with a rung that could be
  skipped, and rung 2 may be found without a recipient, so that both kinds occur. Whom a
  fan-out finds changes nothing but `hist.fanout`, and `EscalationReaches` asks only whether
  there was one: the run with `Found` = {"somebody"} and one with {"nobody"} have the same
  states but for that name, `StampUnsent` lets both happen, and the theorems hold for every
  `Found`. Three acts make an escalation, a reply and a third thing; four tasks would only repeat the pattern.
* `TicketLock`: three writers on the main loop are a holder, a waiter, and the newcomer who
  evicts or barges; the third is insistent; the sweeper is the other loop.
* `AgentPresence`: every writer exists once, as the code runs them (one job each, and one
  agent); two acts are a change and its return.
* Routing: two conversations and two agents are the least with a stale tally and with a
  choice; the first conversation is old enough for the sweep from the start. `RoutingAssigns`
  has two hand-overs with a cap of one, `RoutingDrains` a single one but liveness.
* `ChatHandoff`: two messages are a hand-off and what comes after it; two handlers are the two
  webhooks of a resolution, one of them late; two conversations are the one resolved and the
  next; a queue of one event (64 in the code) is the least that can be full. One fault, since
  two in a row are what `cut` and the theorems are for.
* `SlaScan`: two conversations, so that the first can end the scan of the second; ages up to
  `MaxAge` = 3 are one beyond `Resolution`; two faults, so that a scan may fail twice.

Deadlock is checked except where the system may really stop: when the customer has written
all his messages and every turn is over (`BotTurns*`), when the case is dealt with and no
act is left (`CaseEscalation`), when every writer is done (`TicketLock`), when the customer has
written all his messages and no conversation is open (`ChatHandoff`).

Fairness. Nothing is assumed of customers, agents, dealers, supervisors or faults. Assumed is
that
* time passes (`Tick`, `Elapse`, `Age`), and with it APScheduler starts its jobs;
* the scanner's loop and every scheduled job that has begun goes on (`ScannerStep`,
  `SweepStep`, `PollStep`, `WatchStep`, `ExpiryStep`, `ScanStep`): each wraps its body in a
  try, and all HTTP clients have timeouts, so every await returns;
* a coroutine whose await has returned is resumed (`HandlerStep`, the bot's deliveries and
  tasks, `Pick`, `Proceed`, `HookStep`). `Proceed` is not enabled for a waiter nobody wakes, which is the
  point of `SweepStuck`.

`HandoffEnds` alone assumes something of people: the agent resolves an open conversation in the
end (`AgentResolves`), as the property is about what follows. Turns, relays and streams have no
fairness there.

### Findings

| Run | What the code does |
|---|---|
| `RemindedTwice` | a task of the agent service posts attributes it read before the ladder's stamp: the stamp is gone, the dealer is reminded again |

Further configurations, each with one property that TLC refutes; the property is
what a comment, a document or plain sense would have one expect.

| Configuration (module) | Property | What the code does |
|---|---|---|
| `SweepStuck` (`TicketLock`) | `SweepsFinish` | the per-ticket lock is an `asyncio.Lock` the ladder takes on an event loop of its own: if it has to wait for a writer of the main loop (`adapters/chatwoot.py:383`), its wake-up comes from the wrong thread and does not wake it; the sweep hangs, and every later tick with it, where `escalation_ladder.py:157-158` says "must not stop the sweep for every other case on the tenant" |
| `PromiseBroken` (`MCConversationLifecycle`) | `PromisedAgentKept` | the timeout's decision predates the customer's NO and resolves after the agent was promised |
| `GraceCut` (same) | `GraceKept` | listed twice (pending, then open): warned and prompted in one sweep |
| `LateWarning` (same) | `NoWarningAfterActivity` | warned on the snapshot although the customer has just written |
| `SurveyKept` (same) | `SurveyTimesOut` | a survey on a resolved conversation is never listed, hence never given up |
| `ReentryForgotten` (same) | `ReentrySeeds` | `seed_active` never replaces a row (`lifecycle_store.py:45`): a customer who writes after the end stays CLOSED, where the design document (`docs/archive/superpowers/specs/2026-07-23-conversation-lifecycle-autoclose-design.md:249-250`) has a re-entry seed a fresh `ACTIVE` row |
| `HandoffKept` (same) | `AbandonedHandoffClears` | an assigned conversation with a CLOSED row is exempt for ever |
| `RatedTwice` (same) | `RatedOnce` | two messages read AWAITING_SURVEY before either closes it, and both are rated; the second write is a lost update (`RatedOnceAtRest`) |
| `BotTurnsMasked` (`BotTurns`) | `OwedIsTaken` | on the backend agent's path a reply that lands behind a newer message hides it from that message's own turn |
| `StampUnsent` (`MCCaseEscalation`) | `StampMeansSent` | no failure is needed: a case without a department or dealer label and without a customer's address is fanned out to nobody (`escalation_notifier.py:542-610`), `escalation_router.py:147` answers ok, `sync.py:341` stamps. `clients/proton.py:541-543` says that "a send that never happened does not leave a stamp behind", and `sync.py:324-333` prefers a duplicate to "a customer complaint that silently reaches nobody" |
| `GuardRevived` (same) | `ReescalationReaches` | the label is removed and the guard cleared, "so a genuine later re-escalation of the same case notifies again" (`sync.py:355-356`); another task then posts the attributes it read before, guard included, and the re-escalated case is never fanned out |
| `QueueStuck` (`MCConversationRouting`) | `QueueDrains` | an agent Chatwoot refuses (`routing/router.py:223-225` knows of the 422) keeps a low count and is picked on every tick, as `sweeper.py:214` ignores the result: the conversation waits although another agent is free |
| `SweepTakes` (same) | `SweepTakesNothing` | the second look precedes the whole pick: an assignment made in between is overwritten |
| `LeaverForgotten` (`AgentPresence`) | `LeaverGoesOffline` | every tick builds a new poller (`presence_poller.py:201`), which has never seen anybody |
| `AbsenceUnheard` (same) | `AbsenceEscalated` | no failure is needed: an alert nobody gets is stamped all the same (`presence_thresholds.py:385`, `398`), and as the job is started (`main.py:1219`) no alert is ever built: the administrator does not hear of an absence beyond the second threshold, which requirement 4.14 asks for (`presence_thresholds.py:3-6`) |
| `SpuriousFlip` (same) | `NoSpuriousFlip` | the poll compares an availability fetched earlier and records a change that is over |
| `MarkedTwice` (`SlaScan`) | `MarkedOnce` | two replies list before either appends: "Deduped so re-fired webhooks … don't append duplicate markers" (`chat/router.py:626-627`), "Idempotent" (`escalation_router.py:217`) |
| `LevelTwoLate` (same) | `LevelTwoUnresolved` | level two looks at the log only (`sla.py:404-408`): a conversation that was resolved is re-alerted as "Unresolved breach" |
| `UpdateUncounted` (same) | `UpdateCounts` | `customer_update.py:133-135` says an update older than the dealer's answer does not count, but `sync.py:539` never stamps a second one: after a second answer the customer stays un-updated for the clock, whatever the agent writes |
| `SilencedForGood` (`ChatHandoff`) | `NeverSilenced` | the second webhook of a resolution is slow and the customer asks for a human again: it removes the new hand-off's mapping (`router.py:605`), the bot stays paused, and resolving the new conversation finds no session |
| `HandedOffAgain` (same) | `EscalatesAsked` | a forwarded message writes back the session document it read before `resume_ai` (`service.py:534-539`): `handoff_triggered` is set again, and the next message is handed over whatever the bot says |
| `StreamOrphaned` (same) | `StreamAlwaysFollows` | the end of a stream does not fit into a full queue (`handoff_bridge.py:73`): the subscription is gone, the page stays connected and hears nothing of the next hand-off until it is told of it |

Observations that need no configuration:

* a restart or a database error between the lifecycle warning's post and the row's write
  (`lifecycle_scanner.py:180-183`) posts the warning again on the next tick;
* `_maybe_handle_lifecycle_reply` (`orchestrator.py:184-194`) reactivates the row
  without mirroring it, so the attribute stays at `idle_warned`;
* a rung without a recipient is stamped and counts as climbed (`escalation_ladder.py:352-359`, as
  the docstring of `resolve_recipients` wants it), so the next one goes out although nobody was
  reminded of this one, which the docstring of `due_step` (`escalation_policy.py:192-195`) calls
  the failure the ladder exists to prevent; `RungsClimbed` makes the exception explicit;
* `add_labels` (agent service) posts only the new labels when its read fails, which removes
  `escalate`: the ladder stops for the case;
* the backend adapter's `_request` swallows failures, so the warning the ladder logs after a
  failed stamp (`escalation_ladder.py:456`) is never logged, and the reminder goes out again on
  every sweep until a stamp lands;
* `escalation_acknowledged_at` is read by the ladder and written by nothing in the repository;
* a supervisor's reassignment that is answered 502 may have been made: a POST that times
  out can still arrive;
* one `RoutingService` is shared by the main loop and the scheduler's thread, its order of
  picks included;
* `acw.enter` asks for an availability that is "offline" when the call fails, so it does not
  fail open as `acw.py:189-190` says; if the append fails after Chatwoot was set to busy, no
  event says that the agent is in wrap-up; `expire_if_due` may put an agent back online who has
  just chosen lunch;
* the SLA job passes no inbox cache, and `InboxCache(None)` has no hours for any inbox: with
  `sla_working_hours_enabled` the thresholds are still measured on the wall clock;
* a restart between an SLA entry and its alert, like an append whose answer is lost, leaves the
  entry without its alert for good; a second dealer's answer draws no second
  `CUSTOMER_UPDATE_DUE`, as the log already has one.

## 5. Proofs

All for arbitrary values of the constants. Every argument has the same form: an
inductive invariant holds initially and is kept by every action.

`ConversationLifecycleProofs` (`TypeCorrect`, `QuestionsAreAsked`, `ResolvesOnlyClosed`,
`BotResolveUnsurveyed`, `AsksOncePerSilence`, `RatesOnce`, `PromiseIsKept`). The inductive
invariant is `TypeOK /\ AllSound /\ AskedInv /\ ClosedInv /\ AllRateSound /\ RatedInv /\
AllAssignSound /\ PromiseInv /\ AskedOnceInv`:
* `AllSound`: every job is a suffix of one of the await sequences, so that what is
  left tells what has been done;
* `AskedInv`: a job that has passed its post, and a row that awaits an answer, have
  their question in `hist.said`. `QuestionAsked` alone is not inductive: it says
  nothing of a handler between its post and its write;
* `ClosedInv`: as long as no update was lost (`hist.clean`), a handler past its
  write of CLOSED, and a resolution event caused by the service, find the row
  CLOSED. A lost update is the one way out: `transition` is unconditional, so a
  handler that read the row earlier may replace CLOSED, and the customer is surveyed
  after the service's own resolution;
* `RatedInv`: without faults and lost updates a rating is logged only by a handler that
  found the row AWAITING_SURVEY, and its write of CLOSED makes every other such handler's
  write a lost update. `RatedOnceAtRest` is what is left of this when no rating is in
  flight. `AllRateSound` says that a handler between its record and its write is in `Rate`;
* `AskedOnceInv`: a question put in this silence has moved the row on, or the scanner is about
  to write the row. No webhook handler takes the row back to a state in which it would ask
  again, except to ACTIVE, which is the reactivation that ends the silence (`OthersWrite`).
  A fault between the post and the write takes the question out of `hist.asked`
  (`Unrecorded`): the code cannot know that it was put;
* `PromiseInv`: a promise is still being made by a handler that has yet to reopen the
  conversation, or the conversation is not resolved, nobody is left who would write another
  state or resolve, and the row is CLOSED or about to be (`PromiseSafe`). What a timeout has
  written or even resolved before the reopening is undone by it, so lost updates are not
  excluded; only a handler that is engaged while another stands between its reopening and its
  write is (`hist.overlap`), and that case is `PromiseBroken`. `AllAssignSound` is the shape of
  `AssignAgent` that the argument needs.

`BotTurnsProofs` (`TurnsTypeCorrect`, `SleeperIsRegistered`,
`AlwaysScheduledOnce`, `OwedIsAlwaysTaken`, `OwedIsTakenOrIsFollowed`,
`KeepsThePromiseSafely`). The inductive
invariant is `TypeOK /\ SleeperRegistered /\ BookInv /\ AwaitedInv`:
* `BookInv`: a message with a webhook is stored, one with a task was accepted;
* `AwaitedInv`: without faults, an accepted message that a turn would read and none has
  read has a task that has yet to read. `OwedIsTaken` and `OwedIsTakenOrFollowed` speak of the
  quiet state only and are not inductive. On the `gemini.decide` path a turn reads the whole
  thread, so the invariant covers every accepted message; on the backend agent's path it covers
  those that end the thread, and a reply that lands behind a message takes it out.

`OwedIsAlwaysTaken` and `KeepsThePromiseSafely` are for the `gemini.decide` path: the backend
agent's path breaks them (`BotTurnsMasked`). `KeepsThePromiseSafely` is the safety part of `KeepsPromise`: every step
implements `MessageService`.

`CaseEscalationProofs` has one invariant for each hazard, each on top of the types:
* `OnceInv` (`RemindsOnceWhileStamped`): a rung that was sent is stamped on the case *and*
  in the listing of every sweep in progress, unless its stamp was lost. Of the other writers
  one fact is enough (`Aside`): a stamp only goes when it is counted as lost;
* `QuietInv` (`QuietAfterTheReply`): after a late reminder the reply's stamp stands, so no
  later sweep takes the case up;
* `OriginInv` (`ClimbsOneByOne`, `NoteComesFirst`): every copy of the attributes, on the
  case, in the listing and in the hands of any writer, holds only stamps that were earned
  (`Earned`): by a reminder, by finding nobody, or by a reminder lost or about to be sent. That a
  POST puts back old values is harmless because old values were earned too. `Climbing` has the
  rungs settled from below;
* `ReachInv` (`EscalationsReach`): where the guard stands, a fan-out was answered; until a
  labelled case has had its fan-out, a webhook that shows the label or a task about to send is on
  its way; and while a case without the label has the guard, a webhook that shows it or a task
  that clears it is;
* `CountInv` (`ReopensNeverOvercounted`): every copy of the counter, on the case, in the listing
  or in a task's hands, leaves room for the reopenings still under way. The counter may be put
  back by an older copy, never forward.

`TicketLockProofs` (`TicketTypeCorrect`, `OneWriterAtATime`, `WritesAreAtomic`,
`LoopersAlwaysServed`). The invariant
is `Types /\ Queues /\ Locks /\ OneLock /\ Fresh`: a queue holds exactly those who wait for its
lock, each once; who is inside holds his lock, alone, and whoever is woken is its first;
until it is torn, everybody uses the lock in the map; and (`Fresh`) what a writer is about to
post is what is there. `Fresh` makes the read-union-post one atomic `Update`. `ServedInv` adds that
all who wait for a lock are of the loop it is bound to, so that whoever leaves it wakes somebody
who can hear it: the sweep that sleeps for good (`SweepStuck`) never stands before a writer of
the main loop.

`AgentPresenceProofs` (`PresenceTypeCorrect`, `AlertsMatchTheirEvent`, `AlertsAreEarned`). Type correctness
needs `WritesMirrored`: a status on its way to Chatwoot has a native counterpart. The alerts need
`CopyFits` and `NotYet`: the job's copy of the event misses at most the stamp it has just set.
`EarnedInv` follows the age the job has read through its two reads: as long as the event is
still the latest (`watch.same`), it is an absence at least that old. Nothing is proved of who
heard an alert: `AbsenceUnheard`.

`ConversationRoutingProofs` (`RoutingTypeCorrect`, `AuditTells`, `SweepLooksAgain`,
`PicksKeepTheCap`, `PicksTheLeastLoaded`). What a pick has read stays in its task, so the
invariant speaks mostly of one task at a time (`Fit`: a candidate was below the cap by the
task's own tally, the chosen one is the least loaded by it). `Audited` has the rows about to be
written; `Looked` says that the conversation the sweep will write is free since its second
look, unless that failed or somebody came after it.

`SlaScanProofs` (`SlaTypeCorrect`, `AlertsOnlyOnce`, `LevelTwoInItsTime`). `ScanIsFresh`: what is still planned is
not on the log, and the entry in hand is, for the first time. It survives the webhooks, as they
append only markers, and a cut scan, as nothing is planned then. `LevelsInv` has the same of a
planned level two: its breach is on the log and old enough, and since a breach is recorded once
(`AlertsOnlyOnce`) its age only grows.

`ChatHandoffProofs` (`HandoffTypeCorrect`, `PausedIsOwned`, `HumanOwnsHisTurns`,
`StreamsFollow`). `PausedHasAnOwner` is not inductive: a handler that deletes the mapping must
have lifted the pause before (`TakenIsFree`), a turn on its way to the bot must have found no
mapping (`Unmapped`: only a turn makes one, and there is one turn at a time), and a pause it
reads there is a left-over (`PauseIsLeft`). An owned turn has the mapping or is about to read it
from the store (`OwnedIsMapped`), which is why caches lost in a restart do no harm. `IInv` is
their conjunction; TLC has checked it on the instance of `ChatHandoff`.

Type correctness is proved of every module with a theorem, so no run checks it once more.

Assumptions: the named `ASSUME` of each module (types of the constants, thresholds within
the range of ages, names of processes distinct); TLC evaluates them on every run.

Every invariant and every action property of the passing runs is a theorem. Only model-checked is
what needs fairness: `WrapsUp`, `KeepsPromise` as a whole (its safety half is proved),
`LoopersFinish`, `LogCatchesUp`, `WrapUpEnds`, `QueueDrains`, `BreachesClimb`
and `HandoffEnds`: liveness under fairness is out of the prover's reach.

## 6. Not modelled

Section 2 lists what the plan has left (`ScannerPage`, telephony). Left out
for good, with the reason in `PROJECT.json`: prompts, formatting and media (conversions without
state), knowledge base, metrics, authorisation and other administrative CRUD, user
interfaces, deployment, the patches of Chatwoot. In the modelled parts:

* lifecycle and bot: email channels (the scanner skips them), several conversations in one
  sweep, the listing's page size, the assignment call after a handoff and the
  categorisation call before a resolution (neither changes modelled state);
* escalation: how a mail finds its case, bounces, recipients and wording, the storage of the
  ladder's policies, several cases in one sweep;
* adapter: every call but the locked writers, each of which is one request without memory;
* routing: the overview endpoints and the storage of priorities and rules;
* presence: administration of the catalogue, statistics over the log, several agents (their
  logs share nothing);
* hand-off: WhatsApp, e-mail, voice and Zendesk sessions, the survey event, the in-memory
  stores, which are for tests;
* SLA: working hours and per-inbox policies, which choose a threshold, and whether one leg of
  an alert arrives.
