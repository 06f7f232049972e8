----------------------------- MODULE ChatHandoff -----------------------------
(***************************************************************************)
(* One web chat session of the backend, from the bot to a human agent in   *)
(* Chatwoot and back: features/chat/service.py (handle_turn,               *)
(* _escalate_handoff, _open_live_bridge, resume_ai), handoff_bridge.py,    *)
(* adapters/handoff_store.py, the pause of adapters/chatwoot.py and the    *)
(* webhook and stream handlers of router.py.                               *)
(*                                                                         *)
(* Who owns the customer is recorded in five places: the pause of the      *)
(* session (a set in memory and a Firestore document), the mapping from    *)
(* the session to a conversation (a Firestore document and the caches of   *)
(* the bridge), and handoff_triggered in the session document.  Every      *)
(* await is a step of its own, so a turn, the handlers of a resolution and *)
(* the relay of an agent's reply interleave between any two of them.       *)
(* HANDOFF_STORE and SESSION_STORE are firestore: what is in memory is     *)
(* lost in a restart.                                                      *)
(***************************************************************************)
EXTENDS Integers, Sequences

CONSTANTS
  Convs,        \* the conversations Chatwoot may open for this session
  None,         \* no conversation
  Bogus,        \* the session id, used as conversation id when none was opened
  Handlers,     \* webhook handlers that may be at work on a resolution at once
  MaxTurns,     \* bound: messages of the customer
  MaxReplies,   \* bound: replies of the agents
  MaxFaults,    \* bound: restarts, and requests to a store or Chatwoot that fail
  QueueMax      \* events one stream can hold (64 in the code)

ASSUME HandoffAssumption ==
  /\ None \notin Convs /\ Bogus \notin Convs /\ None # Bogus
  /\ MaxTurns \in Nat /\ MaxReplies \in Nat /\ MaxFaults \in Nat
  /\ QueueMax \in Nat \ {0}

VARIABLES
  doc,          \* handoff_sessions/<session>: the conversation, or None
  pausedDoc,    \* paused_sessions/<session> says paused
  triggered,    \* handoff_triggered of the session document
  pausedMem,    \* the session is in the adapter's _paused_sessions
  adapterConv,  \* the adapter's _conv_by_session
  sessCache,    \* the bridge's _session_cache: session -> conversation
  convCache,    \* the bridge's _conv_cache: the conversations it knows
  turn,         \* the request of the customer's page, one at a time
  hook,         \* the webhook handlers of resolutions
  relay,        \* the webhook handler of an agent's reply
  stream,       \* the page's event stream: open, attached to the bridge, its
                \* queue; history lost: its end did not fit into the queue
  watching,     \* the page has been told of a hand-off and wants a stream
  status,       \* Chatwoot: what became of each conversation
  events,       \* Chatwoot: webhooks of a resolution not yet handled
  spent,        \* turns, replies and faults so far
  asked,        \* history: the bot asked for a human since the last hand-back
  cut           \* history: a hand-off or a hand-back was cut short

memory == <<pausedMem, adapterConv, sessCache, convCache>>
stored == <<doc, pausedDoc, triggered>>
page   == <<stream, watching>>
crm    == <<status, events>>
vars   == <<memory, stored, turn, hook, relay, page, crm, spent, asked, cut>>

Mapped == Convs \cup {Bogus}

\* The places a turn can be at: an await of handle_turn or of what it calls.
Escalating == {"pausing", "open", "register"}
BotPath    == {"run", "running", "final", "reply", "replying"} \cup Escalating
TurnPlaces == {"idle", "lookup", "looked", "pausecheck", "pauseread", "load",
               "save", "send", "registered"} \cup BotPath

\* The places of a resolution's handler, and those where it has taken the
\* session: it knows the session and has lifted the pause in memory.
Taken      == {"persist", "resume", "delete", "unregister"}
HookPlaces == {"idle", "query", "found"} \cup Taken

Attached == [open |-> TRUE, attached |-> TRUE, queue |-> <<>>, lost |-> FALSE]
Closed   == [open |-> FALSE, attached |-> FALSE, queue |-> <<>>, lost |-> FALSE]
NoTurn   == [pc |-> "idle", conv |-> None, snap |-> FALSE, owned |-> FALSE]
NoHook   == [pc |-> "idle", conv |-> None, late |-> FALSE]
NoRelay  == [pc |-> "idle", conv |-> None]

TypeOK ==
  /\ doc \in Mapped \cup {None} /\ sessCache \in Mapped \cup {None}
  /\ pausedDoc \in BOOLEAN /\ triggered \in BOOLEAN /\ pausedMem \in BOOLEAN
  /\ adapterConv \in Convs \cup {None}
  /\ convCache \subseteq Mapped
  /\ turn \in [pc : TurnPlaces, conv : Mapped \cup {None},
               snap : BOOLEAN, owned : BOOLEAN]
  /\ hook \in [Handlers -> [pc : HookPlaces, conv : Convs \cup {None},
                            late : BOOLEAN]]
  /\ relay \in [pc : {"idle", "query", "found", "deliver"},
                conv : Convs \cup {None}]
  /\ stream \in [open : BOOLEAN, attached : BOOLEAN,
                 queue : Seq({"reply", "end"}), lost : BOOLEAN]
  /\ watching \in BOOLEAN
  /\ status \in [Convs -> {"none", "open", "resolved"}]
  /\ events \in [Convs -> 0..2]
  /\ spent \in [turns : Nat, replies : Nat, faults : Nat]
  /\ asked \in BOOLEAN /\ cut \in BOOLEAN

Init ==
  /\ doc = None /\ pausedDoc = FALSE /\ triggered = FALSE
  /\ pausedMem = FALSE /\ adapterConv = None
  /\ sessCache = None /\ convCache = {}
  /\ turn = NoTurn /\ hook = [h \in Handlers |-> NoHook] /\ relay = NoRelay
  /\ stream = Closed /\ watching = FALSE
  /\ status = [c \in Convs |-> "none"] /\ events = [c \in Convs |-> 0]
  /\ spent = [turns |-> 0, replies |-> 0, faults |-> 0]
  /\ asked = FALSE /\ cut = FALSE

Spend(what) == spent' = [spent EXCEPT ![what] = @ + 1]

\* A restart, or a request that fails; the bound keeps their number finite.
Fault == spent.faults < MaxFaults /\ Spend("faults")

\* What the bridge does when it has learnt from the store that the session
\* and the conversation c belong together.
Remember(c) == sessCache' = c /\ convCache' = convCache \cup {c}

Goes(pc) == turn' = [turn EXCEPT !.pc = pc, !.snap = FALSE]
Ends     == turn' = NoTurn

(***************************************************************************)
(* handle_turn.  ChatInput sends nothing while a turn is under way.        *)
(***************************************************************************)
\* conversation_id_for answers from its cache without an await.  The history
\* variable owned: the turn began while a human owned the session and nobody
\* was giving it back.
TurnStarts ==
  /\ turn.pc = "idle" /\ spent.turns < MaxTurns
  /\ turn' = [pc    |-> IF sessCache # None THEN "load" ELSE "lookup",
              conv  |-> sessCache,
              snap  |-> FALSE,
              owned |-> doc # None /\ \A h \in Handlers : hook[h].pc \notin Taken]
  /\ Spend("turns")
  /\ UNCHANGED <<memory, stored, hook, relay, page, crm, asked, cut>>

\* Mutated: the cache alone is asked.
TurnLooksUpCached ==
  /\ turn.pc = "lookup"
  /\ turn' = [turn EXCEPT !.pc = "looked", !.conv = None]
  /\ UNCHANGED <<memory, stored, hook, relay, page, crm, spent, asked, cut>>

\* The store answers.
TurnLooksUp ==
  /\ turn.pc = "lookup"
  /\ turn' = [turn EXCEPT !.pc = "looked", !.conv = doc]
  /\ UNCHANGED <<memory, stored, hook, relay, page, crm, spent, asked, cut>>

\* A mapping is cached and the turn goes to the agent.  Without one a pause in
\* memory ends the turn without an answer.
TurnFindsOwner ==
  /\ turn.pc = "looked"
  /\ \/ turn.conv # None /\ Remember(turn.conv) /\ Goes("load")
     \/ /\ turn.conv = None
        /\ IF pausedMem THEN Ends ELSE Goes("pausecheck")
        /\ UNCHANGED <<sessCache, convCache>>
  /\ UNCHANGED <<pausedMem, adapterConv, stored, hook, relay, page, crm, spent,
                 asked, cut>>

\* is_ai_paused takes a pause that cannot be read for no pause.
TurnReadsPause ==
  /\ turn.pc = "pausecheck"
  /\ \/ turn' = [turn EXCEPT !.pc = "pauseread", !.snap = pausedDoc] /\ UNCHANGED spent
     \/ Fault /\ turn' = [turn EXCEPT !.pc = "pauseread", !.snap = FALSE]
  /\ UNCHANGED <<memory, stored, hook, relay, page, crm, asked, cut>>

TurnHeedsPause ==
  /\ turn.pc = "pauseread"
  /\ \/ turn.snap /\ pausedMem' = TRUE /\ Ends
     \/ ~turn.snap /\ Goes("load") /\ UNCHANGED pausedMem
  /\ UNCHANGED <<adapterConv, sessCache, convCache, stored, hook, relay, page,
                 crm, spent, asked, cut>>

\* The session document is read, and written back as a whole with the
\* customer's message appended: what was written in between is lost.
TurnLoadsSession ==
  /\ turn.pc = "load"
  /\ turn' = [turn EXCEPT !.pc = "save", !.snap = triggered]
  /\ UNCHANGED <<memory, stored, hook, relay, page, crm, spent, asked, cut>>

TurnSavesHistory ==
  /\ turn.pc = "save"
  /\ triggered' = turn.snap
  /\ Goes(IF turn.conv = None THEN "run" ELSE "send")
  /\ UNCHANGED <<memory, doc, pausedDoc, hook, relay, page, crm, spent, asked, cut>>

\* A customer's message reopens a conversation in Chatwoot.
Reopened(c) == [status EXCEPT ![c] = "open"]

\* forward_customer_message; the adapter swallows a failure.
TurnForwards ==
  /\ turn.pc = "send"
  /\ \/ /\ status' = IF turn.conv \in Convs THEN Reopened(turn.conv) ELSE status
        /\ UNCHANGED spent
     \/ Fault /\ UNCHANGED status
  /\ Ends
  /\ UNCHANGED <<memory, stored, hook, relay, page, events, asked, cut>>

\* The runner reads the session document and writes it back with every event.
\* The bot may call emit_handoff_tool; a run that failed or said nothing is
\* repeated.
TurnRunsBot ==
  /\ turn.pc = "run"
  /\ turn' = [turn EXCEPT !.pc = "running", !.snap = triggered]
  /\ UNCHANGED <<memory, stored, hook, relay, page, crm, spent, asked, cut>>

TurnBotEnds ==
  /\ turn.pc = "running"
  /\ \E asks \in BOOLEAN :
       triggered' = (turn.snap \/ asks) /\ asked' = (asked \/ asks)
  /\ \E next \in {"run", "final"} : Goes(next)
  /\ UNCHANGED <<memory, doc, pausedDoc, hook, relay, page, crm, spent, cut>>

\* The document decides.  _escalate_handoff pauses the session in memory
\* before its first await.
TurnDecides ==
  /\ turn.pc = "final"
  /\ \/ triggered /\ pausedMem' = TRUE /\ Goes("pausing")
     \/ ~triggered /\ Goes("reply") /\ UNCHANGED pausedMem
  /\ UNCHANGED <<adapterConv, sessCache, convCache, stored, hook, relay, page,
                 crm, spent, asked, cut>>

TurnLoadsReply ==
  /\ turn.pc = "reply"
  /\ turn' = [turn EXCEPT !.pc = "replying", !.snap = triggered]
  /\ UNCHANGED <<memory, stored, hook, relay, page, crm, spent, asked, cut>>

TurnReplies ==
  /\ turn.pc = "replying"
  /\ triggered' = turn.snap /\ Ends
  /\ UNCHANGED <<memory, doc, pausedDoc, hook, relay, page, crm, spent, asked, cut>>

(***************************************************************************)
(* _escalate_handoff and _open_live_bridge                                 *)
(***************************************************************************)
\* _persist_pause swallows a failure.
EscalationPersistsPause ==
  /\ turn.pc = "pausing" /\ Goes("open")
  /\ \/ pausedDoc' = TRUE /\ UNCHANGED spent
     \/ Fault /\ UNCHANGED pausedDoc
  /\ UNCHANGED <<memory, doc, triggered, hook, relay, page, crm, asked, cut>>

\* _find_or_create_conversation: the cached conversation, else an active one,
\* else a new one.
FoundOrCreated(c) ==
  IF adapterConv # None THEN c = adapterConv
  ELSE \/ status[c] = "open"
       \/ status[c] = "none" /\ \A d \in Convs : status[d] # "open"

\* open_handoff: the customer's last message is posted to the conversation and
\* reopens it.  A failed search is taken for no conversation, and a failed
\* creation answers with the session's own id, which is not cached.
EscalationOpens ==
  /\ turn.pc = "open"
  /\ \/ \E c \in Convs :
          /\ \/ FoundOrCreated(c) /\ UNCHANGED spent
             \/ adapterConv = None /\ status[c] = "none" /\ Fault
          /\ turn' = [turn EXCEPT !.pc = "register", !.conv = c]
          /\ status' = Reopened(c) /\ adapterConv' = c
          /\ UNCHANGED cut
     \/ /\ adapterConv = None /\ Fault
        /\ turn' = [turn EXCEPT !.pc = "register", !.conv = Bogus]
        /\ cut' = TRUE
        /\ UNCHANGED <<status, adapterConv>>
  /\ UNCHANGED <<pausedMem, sessCache, convCache, stored, hook, relay, page,
                 events, asked>>

\* The bridge writes the store first.  A handler that has already found the
\* session will remove this registration.
EscalationRegisters ==
  /\ turn.pc = "register"
  /\ doc' = turn.conv /\ Goes("registered")
  /\ hook' = [h \in Handlers |->
       [hook[h] EXCEPT !.late = @ \/ hook[h].pc \in Taken \cup {"found"}]]
  /\ UNCHANGED <<memory, pausedDoc, triggered, relay, page, crm, spent, asked, cut>>

\* The caches follow, and the page is told: it drops its stream for a new one.
EscalationRegistered ==
  /\ turn.pc = "registered"
  /\ Remember(turn.conv) /\ Ends
  /\ stream' = Closed /\ watching' = TRUE
  /\ UNCHANGED <<pausedMem, adapterConv, stored, hook, relay, crm, spent, asked, cut>>

\* A store that cannot be read or written, or a bot whose run fails twice,
\* ends the turn with an error or an apology.  A hand-off that ends so has
\* stored its pause and has no mapping.
CutShort == {"open", "register"}
TurnFails ==
  /\ turn.pc \in {"lookup", "load", "save", "running", "final", "reply",
                  "replying"} \cup CutShort
  /\ Fault /\ Ends
  /\ cut' = (cut \/ turn.pc \in CutShort)
  /\ UNCHANGED <<memory, stored, hook, relay, page, crm, asked>>

(***************************************************************************)
(* The agent resolves the conversation: chatwoot_webhook.  Chatwoot posts  *)
(* conversation_resolved and conversation_status_changed, and both resume. *)
(***************************************************************************)
\* Bound: no second resolution of a conversation before its webhooks are taken.
AgentResolves(c) ==
  /\ status[c] = "open" /\ events[c] = 0
  /\ status' = [status EXCEPT ![c] = "resolved"]
  /\ events' = [events EXCEPT ![c] = 2]
  /\ UNCHANGED <<memory, stored, turn, hook, relay, page, spent, asked, cut>>

At(h, pc) == hook' = [hook EXCEPT ![h].pc = pc]
Frees(h)  == hook' = [hook EXCEPT ![h] = NoHook]

\* unpause_ai_for_session up to its await: the pause and the cached
\* conversation are dropped.  The turn is no longer one of an owned session.
Takes(h, c) ==
  /\ hook' = [hook EXCEPT ![h].pc = "persist", ![h].conv = c]
  /\ pausedMem' = FALSE /\ adapterConv' = None
  /\ turn' = [turn EXCEPT !.owned = FALSE]

\* session_id_for answers from its cache, or asks the store.
HookStarts(h, c) ==
  /\ hook[h].pc = "idle" /\ events[c] > 0
  /\ events' = [events EXCEPT ![c] = @ - 1]
  /\ \/ c \in convCache /\ Takes(h, c)
     \/ /\ c \notin convCache
        /\ hook' = [hook EXCEPT ![h].pc = "query", ![h].conv = c]
        /\ UNCHANGED <<pausedMem, adapterConv, turn>>
  /\ UNCHANGED <<sessCache, convCache, stored, relay, page, status, spent, asked, cut>>

\* Mutated: the cache alone is asked.
HookQueriesCached(h) ==
  /\ hook[h].pc = "query" /\ Frees(h)
  /\ UNCHANGED <<memory, stored, turn, relay, page, crm, spent, asked, cut>>

\* A conversation no session is mapped to is not a hand-off.
HookQueries(h) ==
  /\ hook[h].pc = "query"
  /\ IF doc = hook[h].conv THEN At(h, "found") ELSE Frees(h)
  /\ UNCHANGED <<memory, stored, turn, relay, page, crm, spent, asked, cut>>

HookFinds(h) ==
  /\ hook[h].pc = "found"
  /\ Remember(hook[h].conv) /\ Takes(h, hook[h].conv)
  /\ UNCHANGED <<stored, relay, page, crm, spent, asked, cut>>

\* Mutated: the pause is lifted in memory only.
HookPersistsNothing(h) ==
  /\ hook[h].pc = "persist" /\ At(h, "resume")
  /\ UNCHANGED <<memory, stored, turn, relay, page, crm, spent, asked, cut>>

\* A failed removal of the pause is swallowed.
HookPersistsUnpause(h) ==
  /\ hook[h].pc = "persist" /\ At(h, "resume")
  /\ \/ pausedDoc' = FALSE /\ UNCHANGED <<spent, cut>>
     \/ Fault /\ cut' = (cut \/ pausedDoc) /\ UNCHANGED pausedDoc
  /\ UNCHANGED <<memory, doc, triggered, turn, relay, page, crm, asked>>

\* resume_ai
HookResumes(h) ==
  /\ hook[h].pc = "resume" /\ At(h, "delete")
  /\ triggered' = FALSE /\ asked' = FALSE
  /\ UNCHANGED <<memory, doc, pausedDoc, turn, relay, page, crm, spent, cut>>

\* unregister deletes the session's mapping, whichever conversation it names.
HookDeletes(h) ==
  /\ hook[h].pc = "delete"
  /\ doc' = None /\ At(h, "unregister")
  /\ cut' = (cut \/ hook[h].late)
  /\ UNCHANGED <<memory, pausedDoc, triggered, turn, relay, page, crm, spent, asked>>

\* Mutated: the subscribers are dropped without a word.
EndedQuietly == [stream EXCEPT !.attached = FALSE]

\* Every subscriber is told to end.  put_nowait raises on a full queue, and the
\* subscription is gone all the same.
Ended == IF Len(stream.queue) < QueueMax
         THEN [stream EXCEPT !.attached = FALSE, !.queue = Append(@, "end")]
         ELSE [stream EXCEPT !.attached = FALSE, !.lost = TRUE]

\* The caches follow the store.
HookUnregisters(h) ==
  /\ hook[h].pc = "unregister" /\ Frees(h)
  /\ sessCache' = None /\ convCache' = convCache \ {sessCache}
  /\ stream' = IF stream.attached THEN Ended ELSE stream
  /\ UNCHANGED <<pausedMem, adapterConv, stored, turn, relay, watching, crm,
                 spent, asked, cut>>

\* A store that fails ends the handler; the mapping stays.
HookFails(h) ==
  /\ hook[h].pc \in {"query", "resume", "delete"}
  /\ Fault /\ Frees(h)
  /\ UNCHANGED <<memory, stored, turn, relay, page, crm, asked, cut>>

(***************************************************************************)
(* An agent's reply: publish, and the page's stream: chat_stream           *)
(***************************************************************************)
RelayStarts(c) ==
  /\ relay.pc = "idle" /\ status[c] = "open" /\ spent.replies < MaxReplies
  /\ relay' = [pc |-> IF c \in convCache THEN "deliver" ELSE "query", conv |-> c]
  /\ Spend("replies")
  /\ UNCHANGED <<memory, stored, turn, hook, page, crm, asked, cut>>

RelayQueries ==
  /\ relay.pc = "query"
  /\ \/ doc = relay.conv /\ relay' = [relay EXCEPT !.pc = "found"] /\ UNCHANGED spent
     \/ doc # relay.conv /\ relay' = NoRelay /\ UNCHANGED spent
     \/ Fault /\ relay' = NoRelay
  /\ UNCHANGED <<memory, stored, turn, hook, page, crm, asked, cut>>

RelayFinds ==
  /\ relay.pc = "found"
  /\ Remember(relay.conv)
  /\ relay' = [relay EXCEPT !.pc = "deliver"]
  /\ UNCHANGED <<pausedMem, adapterConv, stored, turn, hook, page, crm, spent,
                 asked, cut>>

\* The reply is saved, and then put to the session's subscribers; a full
\* queue drops it.
RelayDelivers ==
  /\ relay.pc = "deliver" /\ relay' = NoRelay
  /\ stream' = IF stream.attached /\ Len(stream.queue) < QueueMax
               THEN [stream EXCEPT !.queue = Append(@, "reply")] ELSE stream
  /\ UNCHANGED <<memory, stored, turn, hook, watching, crm, spent, asked, cut>>

\* The page connects once it has been told, and again whenever the stream ends.
StreamOpens ==
  /\ watching /\ ~stream.open
  /\ stream' = Attached
  /\ UNCHANGED <<memory, stored, turn, hook, relay, watching, crm, spent, asked, cut>>

StreamSends ==
  /\ stream.open /\ stream.queue # <<>>
  /\ stream' = IF Head(stream.queue) = "end" THEN Closed
               ELSE [stream EXCEPT !.queue = Tail(@)]
  /\ UNCHANGED <<memory, stored, turn, hook, relay, watching, crm, spent, asked, cut>>

(***************************************************************************)
(* A restart: requests under way and everything in memory are gone.  A     *)
(* hand-off is cut short if its pause may be stored and its mapping is not.*)
(***************************************************************************)
Restart ==
  /\ Fault
  /\ pausedMem' = FALSE /\ adapterConv' = None
  /\ sessCache' = None /\ convCache' = {}
  /\ turn' = NoTurn /\ hook' = [h \in Handlers |-> NoHook] /\ relay' = NoRelay
  /\ stream' = Closed
  /\ cut' = (cut \/ turn.pc \in CutShort)
  /\ UNCHANGED <<stored, watching, crm, asked>>

Escalation ==
  \/ EscalationPersistsPause \/ EscalationOpens
  \/ EscalationRegisters \/ EscalationRegistered

TurnStep ==
  \/ TurnLooksUp \/ TurnFindsOwner \/ TurnReadsPause \/ TurnHeedsPause
  \/ TurnLoadsSession \/ TurnSavesHistory \/ TurnForwards
  \/ TurnRunsBot \/ TurnBotEnds \/ TurnDecides \/ TurnLoadsReply \/ TurnReplies
  \/ Escalation \/ TurnFails

HookStep(h) ==
  \/ HookQueries(h) \/ HookFinds(h) \/ HookPersistsUnpause(h)
  \/ HookResumes(h) \/ HookDeletes(h) \/ HookUnregisters(h)
  \/ HookFails(h)

RelayStep == RelayQueries \/ RelayFinds \/ RelayDelivers

Next ==
  \/ TurnStarts \/ TurnStep
  \/ \E c \in Convs : AgentResolves(c) \/ RelayStarts(c)
  \/ \E h \in Handlers : HookStep(h) \/ \E c \in Convs : HookStarts(h, c)
  \/ RelayStep \/ StreamOpens \/ StreamSends
  \/ Restart

\* Chatwoot delivers its webhooks and the event loop runs their handlers; an
\* agent resolves a conversation in the end.
Fairness ==
  /\ \A h \in Handlers : WF_vars(HookStep(h) \/ \E c \in Convs : HookStarts(h, c))
  /\ \A c \in Convs : WF_vars(AgentResolves(c))

Spec     == Init /\ [][Next]_vars
FairSpec == Spec /\ Fairness

-----------------------------------------------------------------------------
(***************************************************************************)
(* Properties                                                              *)
(***************************************************************************)

\* A session whose bot is silenced belongs to somebody: it is mapped to a
\* conversation an agent can resolve, or a turn is about to map it.  The
\* exceptions are the hand-offs and hand-backs that were cut short, and they
\* are these only: a restart or a failed request between the stored pause
\* and the mapping, a conversation that could not be opened, a pause whose
\* removal failed, and a second handler of one resolution that removes the
\* mapping of the next hand-off.
\* (service.py _escalate_handoff: pause before the mapping; router.py
\* chatwoot_webhook: unpause before the mapping is removed.)
PausedHasAnOwner ==
  (pausedMem \/ pausedDoc) /\ ~cut => doc \in Convs \/ turn.pc \in Escalating

\* A message sent while a human owns the session, with no hand-back at work
\* then or since, never reaches the bot, whatever the caches hold
\* (handle_turn asks the bridge before it asks for the pause).
HumanOwnsTheTurn == turn.owned => turn.pc \notin BotPath

\* The page's stream is attached to the bridge or on its way to end, unless
\* its queue was full when it was to end: otherwise a page never waits on a
\* stream nobody will write to (unregister, chat_stream).
Ending == \E i \in 1..Len(stream.queue) : stream.queue[i] = "end"
StreamFollows == stream.open => stream.attached \/ Ending \/ stream.lost

\* A hand-off in an open conversation comes to its end, once nothing restarts
\* or fails any more: whatever the caches have lost, a resolution finds the
\* session and removes its mapping (chatwoot_webhook, unregister).
Steady == spent.faults = MaxFaults
HandoffEnds ==
  (doc \in Convs /\ status[doc] = "open" /\ Steady) ~> (doc = None)

\* The strict form of PausedHasAnOwner, which the code does not keep.
NeverSilenced == pausedMem \/ pausedDoc => doc \in Convs \/ turn.pc \in Escalating

\* A turn hands over only if the bot has asked for a human since the last
\* hand-back.  The code does not keep it: a turn that forwards a message
\* writes back the session document it read before resume_ai cleared it.
EscalatesAsked == [][turn.pc = "final" /\ turn'.pc = "pausing" => asked]_vars

\* The strict form of StreamFollows.  The code does not keep it: the end is
\* put with put_nowait, and a full queue has no room for it.
StreamAlwaysFollows == stream.open => stream.attached \/ Ending
=============================================================================
