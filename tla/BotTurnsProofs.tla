--------------------------- MODULE BotTurnsProofs ---------------------------
(***************************************************************************)
(* Theorems about BotTurns for every number of messages, deliveries, acts  *)
(* and faults.                                                             *)
(***************************************************************************)
EXTENDS BotTurns, SequenceTheorems, TLAPS

-----------------------------------------------------------------------------
(* Facts about the thread. *)

(* Appending a message adds it to the messages stored and loses none.      *)
LEMMA AppendStores ==
    ASSUME NEW S, NEW s \in Seq(S), NEW e \in S
    PROVE  /\ Append(s, e) \in Seq(S)
           /\ ToSet(Append(s, e)) = ToSet(s) \cup {e}
  <1>1. /\ Append(s, e) \in Seq(S)
        /\ Len(Append(s, e)) = Len(s) + 1
        /\ \A i \in 1..Len(s) : Append(s, e)[i] = s[i]
        /\ Append(s, e)[Len(s) + 1] = e
    BY AppendProperties
  <1>2. DOMAIN s = 1..Len(s) /\ DOMAIN Append(s, e) = 1..(Len(s) + 1) /\ Len(s) \in Nat
    BY <1>1
  <1>3. ASSUME NEW x \in ToSet(Append(s, e)) PROVE x \in ToSet(s) \cup {e}
    BY <1>1, <1>2, <1>3 DEF ToSet
  <1>4. ASSUME NEW x \in ToSet(s) \cup {e} PROVE x \in ToSet(Append(s, e))
    <2>1. CASE x = e
      BY <1>1, <1>2, <2>1 DEF ToSet
    <2>2. CASE x \in ToSet(s)
      <3>1. PICK i \in 1..Len(s) : x = s[i]
        BY <1>2, <2>2 DEF ToSet
      <3>2. i \in 1..(Len(s) + 1)
        BY <1>2
      <3>3. QED BY <1>1, <1>2, <3>1, <3>2 DEF ToSet
    <2>3. QED BY <1>4, <2>1, <2>2
  <1>5. QED BY <1>1, <1>3, <1>4

(* What a turn works on is messages of the customer in the thread.         *)
LEMMA TurnTextStored ==
    ASSUME NEW msgs \in Seq(Messages \cup {Outgoing})
    PROVE  /\ TurnText(msgs) \subseteq ToSet(msgs) \cap Messages
           /\ ~ChatAgent => TurnText(msgs) = ToSet(msgs) \cap Messages
  <1>1. Len(msgs) \in Nat /\ DOMAIN msgs = 1..Len(msgs)
    OBVIOUS
  <1>2. ToSet(msgs) \subseteq Messages \cup {Outgoing}
    BY DEF ToSet
  <1>3. Outgoing \notin Messages
    BY ConstantsAssumption DEF Outgoing, Messages
  <1>4. ASSUME NEW x \in TrailingRun(msgs) PROVE x \in ToSet(msgs) /\ x # Outgoing
    <2>1. PICK i \in 1..Len(msgs) : /\ x = msgs[i]
                                    /\ \A l \in i..Len(msgs) : msgs[l] # Outgoing
      BY DEF TrailingRun
    <2>2. i \in i..Len(msgs)
      BY <1>1
    <2>3. QED BY <1>1, <2>1, <2>2 DEF ToSet
  <1>5. QED BY <1>2, <1>3, <1>4 DEF TurnText

(* A turn of the backend agent reads the trailing run, one of gemini.decide *)
(* everything: the trailing run is part of what a turn works on.           *)
LEMMA TrailingRead ==
    ASSUME NEW msgs \in Seq(Messages \cup {Outgoing})
    PROVE  TrailingRun(msgs) \cap Messages \subseteq TurnText(msgs)
  <1> SUFFICES ASSUME NEW x \in TrailingRun(msgs), ~ChatAgent, x \in Messages
               PROVE  x \in ToSet(msgs)
    BY TurnTextStored DEF TurnText
  <1>1. PICK i \in 1..Len(msgs) : x = msgs[i]
    BY DEF TrailingRun
  <1>2. QED BY <1>1 DEF ToSet

(* A longer thread adds to what a turn works on nothing but its last       *)
(* message.                                                                *)
LEMMA AppendReads ==
    ASSUME NEW msgs \in Seq(Messages \cup {Outgoing}), NEW x \in Messages \cup {Outgoing},
           NEW m \in TurnText(Append(msgs, x)), m # x
    PROVE  m \in TurnText(msgs)
  <1>1. /\ Len(Append(msgs, x)) = Len(msgs) + 1 /\ Len(msgs) \in Nat
        /\ \A i \in 1..Len(msgs) : Append(msgs, x)[i] = msgs[i]
        /\ Append(msgs, x)[Len(msgs) + 1] = x
    BY AppendProperties
  <1>2. CASE ChatAgent
    <2>1. PICK i \in 1..(Len(msgs) + 1) :
             /\ m = Append(msgs, x)[i]
             /\ \A l \in i..(Len(msgs) + 1) : Append(msgs, x)[l] # Outgoing
      BY <1>1, <1>2 DEF TurnText, TrailingRun
    <2>2. i \in 1..Len(msgs) /\ m = msgs[i]
      BY <1>1, <2>1
    <2>3. \A l \in i..Len(msgs) : msgs[l] # Outgoing
      BY <1>1, <2>1, <2>2
    <2>4. QED BY <1>2, <2>2, <2>3 DEF TurnText, TrailingRun
  <1>3. CASE ~ChatAgent
    <2>1. ToSet(Append(msgs, x)) = ToSet(msgs) \cup {x}
      BY AppendStores
    <2>2. QED BY <1>3, <2>1 DEF TurnText
  <1>4. QED BY <1>2, <1>3

-----------------------------------------------------------------------------
(* Type correctness. *)

TaskType == [phase : Phases, chunks : 0..MaxChunks]

(* Moving one task to another phase leaves every task with its type.       *)
LEMMA GotoType ==
    ASSUME TypeOK, NEW t \in Messages, NEW phase \in Phases
    PROVE  [task EXCEPT ![t].phase = phase] \in [Messages -> TaskType]
  BY DEF TypeOK, TaskType

(* The counters stay within their bounds. *)
LEMMA CountersType ==
    ASSUME TypeOK
    PROVE  /\ \A ok \in BOOLEAN : Outcome(ok) => faults' \in 0..MaxFaults
           /\ Act => acts' \in 0..MaxActs
           /\ faults < MaxFaults /\ faults' = faults + 1 => faults' \in 0..MaxFaults
  BY ConstantsAssumption DEF TypeOK, Outcome, Act

(* What a task does keeps TypeOK. *)
LEMMA TaskStepType ==
    ASSUME TypeOK, NEW t \in Messages, TaskStep(t)
    PROVE  TypeOK'
  <1> USE ConstantsAssumption
  <1>0. /\ {"done", "sleep", "fetch", "decide", "post", "note", "ack", "open"} \subseteq Phases
        /\ Outgoing \in Messages \cup {Outgoing}
    BY DEF Phases, Sleeping, Processing
  <1>1. ASSUME Finish(t)
        PROVE  task' \in [Messages -> TaskType] /\ registered' \in Messages \cup {0}
    BY <1>0, <1>1, GotoType DEF Finish, TypeOK
  <1>2. ASSUME NEW phase \in {"sleep", "fetch", "decide", "post", "note", "ack", "open"},
               Goto(t, phase)
        PROVE  task' \in [Messages -> TaskType] /\ registered' \in Messages \cup {0}
    BY <1>0, <1>2, GotoType DEF Goto, TypeOK
  <1>3. Append(thread, Outgoing) \in Seq(Messages \cup {Outgoing})
    BY <1>0, AppendStores DEF TypeOK
  <1>4. CASE ResolveDebounce(t)
    BY <1>2, <1>4 DEF ResolveDebounce, TypeOK, TaskType
  <1>5. CASE Wake(t)
    BY <1>2, <1>5 DEF Wake, TypeOK, TaskType
  <1>6. ASSUME NEW mode \in Modes, NEW ok \in BOOLEAN, Fetch(t, mode, ok) PROVE TypeOK'
    <2>1. taken' \subseteq Messages
      BY <1>6, TurnTextStored DEF Fetch, TypeOK
    <2>2. task' \in [Messages -> TaskType] /\ registered' \in Messages \cup {0}
      BY <1>1, <1>2, <1>6 DEF Fetch
    <2>3. QED BY <1>6, <2>1, <2>2, CountersType DEF Fetch, TypeOK, TaskType
  <1>7. ASSUME NEW mode \in Modes, NEW chunks \in 1..MaxChunks, DecideReply(t, mode, chunks)
        PROVE  TypeOK'
    <2>1. [phase |-> IF mode = "auto" THEN "post" ELSE "note", chunks |-> chunks] \in TaskType
      BY <1>0 DEF TaskType
    <2>2. task' \in [Messages -> TaskType]
      BY <1>7, <2>1 DEF DecideReply, TypeOK, TaskType
    <2>3. QED BY <1>7, <2>2 DEF DecideReply, TypeOK, TaskType
  <1>8. CASE DecideHandoff(t)
    BY <1>2, <1>8 DEF DecideHandoff, TypeOK, TaskType
  <1>9. CASE DecideForwarded(t)
    BY <1>1, <1>9 DEF DecideForwarded, TypeOK, TaskType
  <1>10. ASSUME NEW ok \in BOOLEAN, PostReply(t, ok) PROVE TypeOK'
    <2>1. ASSUME task[t].chunks > 1
          PROVE  [task EXCEPT ![t].chunks = @ - 1] \in [Messages -> TaskType]
      <3>1. task[t].chunks - 1 \in 0..MaxChunks
        BY <2>1 DEF TypeOK
      <3>2. QED BY <3>1 DEF TypeOK, TaskType
    <2>2. task' \in [Messages -> TaskType] /\ registered' \in Messages \cup {0}
      BY <1>1, <1>10, <2>1 DEF PostReply, TypeOK
    <2>3. QED BY <1>3, <1>10, <2>2, CountersType DEF PostReply, TypeOK, TaskType
  <1>11. ASSUME NEW ok \in BOOLEAN, PostNote(t, ok) PROVE TypeOK'
    <2>1. task' \in [Messages -> TaskType] /\ registered' \in Messages \cup {0}
      BY <1>1, <1>2, <1>11 DEF PostNote
    <2>2. QED BY <1>11, <2>1, CountersType DEF PostNote, TypeOK, TaskType
  <1>12. ASSUME NEW ok \in BOOLEAN, Acknowledge(t, ok) PROVE TypeOK'
    <2>1. task' \in [Messages -> TaskType] /\ registered' \in Messages \cup {0}
      BY <1>2, <1>12 DEF Acknowledge
    <2>2. QED BY <1>3, <1>12, <2>1, CountersType DEF Acknowledge, TypeOK, TaskType
  <1>13. ASSUME NEW ok \in BOOLEAN, OpenForHuman(t, ok) PROVE TypeOK'
    <2>1. task' \in [Messages -> TaskType] /\ registered' \in Messages \cup {0}
      BY <1>1, <1>13 DEF OpenForHuman
    <2>2. QED BY <1>13, <2>1, CountersType DEF OpenForHuman, TypeOK, TaskType
  <1>14. QED BY <1>4, <1>5, <1>6, <1>7, <1>8, <1>9, <1>10, <1>11, <1>12, <1>13 DEF TaskStep

(* What the webhook, the world and a restart do keeps TypeOK.              *)
LEMMA OtherStepType ==
    ASSUME TypeOK,
           \/ \E m \in Messages : Deliver(m) \/ Handle(m)
           \/ Environment
           \/ Restart
    PROVE  TypeOK'
  <1> USE ConstantsAssumption
  <1> DEFINE EventType == [phase : {"none", "sent", "claimed", "accepted", "ignored"},
                           copies : 0..MaxCopies, pending : BOOLEAN]
  <1>1. ASSUME NEW m \in Messages, Deliver(m) PROVE TypeOK'
    <2>1. event[m].copies - 1 \in 0..MaxCopies
      BY <1>1 DEF Deliver, TypeOK
    <2>2. event' \in [Messages -> EventType]
      <3>1. PICK phase \in {"none", "sent", "claimed", "accepted", "ignored"} :
               event' = [event EXCEPT ![m].copies = @ - 1, ![m].phase = phase]
        BY <1>1 DEF Deliver, TypeOK
      <3>2. event \in [Messages -> EventType]
        BY DEF TypeOK
      <3>3. QED BY ZenonT(60), <2>1, <3>1, <3>2
    <2>3. QED BY <1>1, <2>2 DEF Deliver, TypeOK
  <1>2. ASSUME NEW m \in Messages, NEW consumed \in BOOLEAN, HandleBotEvent(m, consumed)
        PROVE  TypeOK'
    <2>1. CASE Ignored(m)
      <3>1. event' \in [Messages -> EventType]
        BY ZenonT(60), <2>1 DEF Ignored, TypeOK
      <3>2. QED BY <1>2, <2>1, <3>1 DEF HandleBotEvent, Ignored, TypeOK
    <2>2. CASE Accepted(m)
      <3>1. event' \in [Messages -> EventType]
        BY ZenonT(60), <2>2 DEF Accepted, TypeOK
      <3>2. ASSUME NEW t \in Messages PROVE task'[t] \in TaskType
        <4>1. [phase |-> "config", chunks |-> 0] \in TaskType
          BY DEF TaskType, Phases, Sleeping
        <4>2. [task[t] EXCEPT !.phase = "cancelled"] \in TaskType
          BY DEF TypeOK, TaskType, Phases
        <4>3. task[t] \in TaskType
          BY DEF TypeOK, TaskType
        <4>4. QED BY <2>2, <4>1, <4>2, <4>3 DEF Accepted
      <3>3. task' \in [Messages -> TaskType]
        BY <2>2, <3>2 DEF Accepted
      <3>4. registered' \in Messages \cup {0}
        BY <2>2 DEF Accepted
      <3>5. QED BY <1>2, <3>1, <3>3, <3>4 DEF HandleBotEvent, TypeOK, TaskType
    <2>3. QED BY <1>2, <2>1, <2>2 DEF HandleBotEvent
  <1>3. ASSUME NEW m \in Messages, NEW copies \in 1..MaxCopies, CustomerWrites(m, copies)
        PROVE  TypeOK'
    <2>1. Append(thread, m) \in Seq(Messages \cup {Outgoing})
      BY AppendStores DEF TypeOK
    <2>2. [phase |-> "sent", copies |-> copies, pending |-> status = "pending"] \in EventType
      OBVIOUS
    <2>3. event' \in [Messages -> EventType]
      BY <1>3, <2>2 DEF CustomerWrites, TypeOK
    <2>4. QED BY <1>3, <2>1, <2>3 DEF CustomerWrites, TypeOK
  <1>4. ASSUME AgentOpens \/ AgentReplies \/ Returned PROVE TypeOK'
    <2>1. Append(thread, Outgoing) \in Seq(Messages \cup {Outgoing})
      BY AppendStores DEF TypeOK
    <2>2. QED BY <1>4, <2>1, CountersType DEF AgentOpens, AgentReplies, Returned, TypeOK
  <1>5. CASE Restart
    <2>1. event' \in [Messages -> EventType]
      <3>1. ASSUME NEW m \in Messages PROVE event'[m] \in EventType
        BY ZenonT(60), <1>5 DEF Restart, TypeOK
      <3>2. QED BY <1>5, <3>1 DEF Restart
    <2>2. task' \in [Messages -> TaskType]
      <3>1. ASSUME NEW t \in Messages PROVE task'[t] \in TaskType
        <4>1. task[t] \in TaskType
          BY DEF TypeOK, TaskType
        <4>2. [task[t] EXCEPT !.phase = "done"] \in TaskType
          BY <4>1 DEF TaskType, Phases
        <4>3. task'[t] \in {task[t], [task[t] EXCEPT !.phase = "done"]}
          BY <1>5 DEF Restart
        <4>4. QED BY <4>1, <4>2, <4>3
      <3>2. QED BY <1>5, <3>1 DEF Restart
    <2>3. QED BY <1>5, <2>1, <2>2, CountersType DEF Restart, TypeOK, TaskType
  <1>6. QED BY <1>1, <1>2, <1>3, <1>4, <1>5 DEF Environment, Handle

(* Every step keeps TypeOK. *)
LEMMA TypeOKStep == TypeOK /\ [Next]_vars => TypeOK'
  <1>1. ASSUME TypeOK, UNCHANGED vars PROVE TypeOK'
    BY <1>1 DEF TypeOK, vars
  <1>2. QED BY <1>1, TaskStepType, OtherStepType DEF Next

-----------------------------------------------------------------------------
(* What a step does to the tasks. *)

Waiting == Sleeping \cup {"fetch"}    \* the turn has not read the conversation

(* A task at work moves; the others stay, and the entry in _pending_tasks  *)
(* changes only if the task that has moved is registered and done.         *)
Moves(t) ==
    /\ task[t].phase \in Sleeping \cup Processing
    /\ task'[t].phase \notin {"none", "config", "cancelled"}
    /\ task'[t].phase \in Sleeping => task[t].phase \in Sleeping
    /\ task'[t].phase \in Sleeping => registered' = registered
    /\ \A u \in Messages \ {t} : task'[u] = task[u]
    /\ registered' # registered => registered = t /\ registered' = 0

TasksStay == UNCHANGED <<task, registered>>

TasksLost ==
    /\ faults' = faults + 1
    /\ \A t \in Messages :
          task'[t].phase = IF task[t].phase \in Sleeping \cup Processing
                           THEN "done" ELSE task[t].phase

(* These four are all a step can do to the tasks. *)
LEMMA TasksMove ==
    TypeOK /\ [Next]_vars =>
       \/ TasksStay
       \/ \E t \in Messages : Moves(t) /\ TaskStep(t)
       \/ \E m \in Messages : event[m].phase = "claimed" /\ Accepted(m)
       \/ TasksLost
  <1> SUFFICES ASSUME TypeOK, [Next]_vars
               PROVE  \/ TasksStay
                      \/ \E t \in Messages : Moves(t) /\ TaskStep(t)
                      \/ \E m \in Messages : event[m].phase = "claimed" /\ Accepted(m)
                      \/ TasksLost
    OBVIOUS
  <1>1. ASSUME NEW t \in Messages, TaskStep(t) PROVE Moves(t)
    <2> DEFINE busy == task[t].phase \in Sleeping \cup Processing
    <2>0. task[t].phase \in Phases /\ task \in [Messages -> TaskType]
      BY DEF TypeOK, TaskType
    <2>1. ASSUME busy, Finish(t) PROVE Moves(t)
      BY <2>0, <2>1 DEF Finish, Moves, Sleeping, Processing, TaskType
    <2>2. ASSUME NEW phase \in {"fetch", "decide", "post", "note", "ack", "open"},
                 busy, Goto(t, phase)
          PROVE  Moves(t)
      BY <2>0, <2>2 DEF Goto, Moves, Sleeping, Processing, TaskType
    <2>3. CASE ResolveDebounce(t)
      BY <2>0, <2>3 DEF ResolveDebounce, At, Goto, Moves, Sleeping, Processing, TaskType
    <2>4. CASE Wake(t)
      BY <2>2, <2>4 DEF Wake, At, Sleeping
    <2>5. ASSUME NEW mode \in Modes, NEW ok \in BOOLEAN, Fetch(t, mode, ok) PROVE Moves(t)
      BY <2>1, <2>2, <2>5 DEF Fetch, At, Processing
    <2>6. ASSUME NEW mode \in Modes, NEW chunks \in 1..MaxChunks,
                 DecideReply(t, mode, chunks)
          PROVE  Moves(t)
      <3>1. /\ task'[t].phase \in {"post", "note"}
            /\ \A u \in Messages \ {t} : task'[u] = task[u]
            /\ registered' = registered
        BY <2>0, <2>6 DEF DecideReply, TaskType
      <3>2. QED BY <2>6, <3>1 DEF DecideReply, At, Moves, Sleeping, Processing
    <2>7. CASE DecideHandoff(t)
      BY <2>2, <2>7 DEF DecideHandoff, At, Processing
    <2>8. CASE DecideForwarded(t)
      BY <2>1, <2>8 DEF DecideForwarded, At, Processing
    <2>9. ASSUME NEW ok \in BOOLEAN, PostReply(t, ok) PROVE Moves(t)
      <3>1. ASSUME task' = [task EXCEPT ![t].chunks = @ - 1], UNCHANGED registered,
                   task[t].phase = "post"
            PROVE  Moves(t)
        BY <2>0, <3>1 DEF Moves, Sleeping, Processing, TaskType
      <3>2. QED BY <2>1, <2>9, <3>1 DEF PostReply, At, Processing
    <2>10. ASSUME NEW ok \in BOOLEAN, PostNote(t, ok) PROVE Moves(t)
      BY <2>1, <2>2, <2>10 DEF PostNote, At, Processing
    <2>11. ASSUME NEW ok \in BOOLEAN, Acknowledge(t, ok) PROVE Moves(t)
      BY <2>2, <2>11 DEF Acknowledge, At, Processing
    <2>12. ASSUME NEW ok \in BOOLEAN, OpenForHuman(t, ok) PROVE Moves(t)
      BY <2>1, <2>12 DEF OpenForHuman, At, Processing
    <2>13. QED
      BY <1>1, <2>3, <2>4, <2>5, <2>6, <2>7, <2>8, <2>9, <2>10, <2>11, <2>12 DEF TaskStep
  <1>2. ASSUME NEW m \in Messages, Deliver(m) PROVE TasksStay
    BY <1>2 DEF Deliver, TasksStay
  <1>3. ASSUME NEW m \in Messages, Handle(m)
        PROVE  TasksStay \/ (event[m].phase = "claimed" /\ Accepted(m))
    BY <1>3 DEF Handle, HandleBotEvent, Ignored, TasksStay
  <1>4. CASE Environment
    BY <1>4 DEF Environment, CustomerWrites, AgentOpens, AgentReplies, Returned, TasksStay
  <1>5. CASE Restart
    <2>1. ASSUME NEW t \in Messages
          PROVE  task'[t].phase = IF task[t].phase \in Sleeping \cup Processing
                                  THEN "done" ELSE task[t].phase
      BY <1>5 DEF Restart, TypeOK
    <2>2. QED BY <1>5, <2>1 DEF TasksLost, Restart
  <1>6. CASE UNCHANGED vars
    BY <1>6 DEF vars, TasksStay
  <1>7. QED BY <1>1, <1>2, <1>3, <1>4, <1>5, <1>6 DEF Next

(* What accepting a message does to each task. *)
LEMMA AcceptedTasks ==
    ASSUME TypeOK, NEW m \in Messages, Accepted(m), NEW t \in Messages
    PROVE  /\ t = m => task'[t].phase = "config"
           /\ t # m /\ t = registered /\ task[t].phase \in Sleeping
                 => task'[t].phase = "cancelled"
           /\ t # m /\ ~(t = registered /\ task[t].phase \in Sleeping)
                 => task'[t] = task[t]
           /\ registered' = m
  <1>1. registered # 0 <=> registered \in Messages
    BY ConstantsAssumption DEF TypeOK, Messages
  <1>2. task[t] \in TaskType
    BY DEF TypeOK, TaskType
  <1>3. QED BY <1>1, <1>2 DEF Accepted, Supersedes, TaskType

-----------------------------------------------------------------------------
(* The sleeper is registered. *)

LEMMA SleeperStep == TypeOK /\ SleeperRegistered /\ [Next]_vars => SleeperRegistered'
  <1> SUFFICES ASSUME TypeOK, SleeperRegistered, [Next]_vars,
                      NEW t \in Messages, task'[t].phase \in Sleeping
               PROVE  registered' = t
    BY DEF SleeperRegistered
  <1>1. CASE TasksStay
    BY <1>1 DEF TasksStay, SleeperRegistered
  <1>2. ASSUME NEW u \in Messages, Moves(u) PROVE registered' = t
    <2>1. CASE u = t
      BY <1>2, <2>1 DEF Moves, SleeperRegistered
    <2>2. CASE u # t
      <3>1. registered = t
        BY <1>2, <2>2 DEF Moves, SleeperRegistered
      <3>2. QED BY <1>2, <2>2, <3>1 DEF Moves
    <2>3. QED BY <2>1, <2>2
  <1>3. ASSUME NEW m \in Messages, Accepted(m) PROVE registered' = t
    BY <1>3, AcceptedTasks DEF SleeperRegistered, Sleeping
  <1>4. CASE TasksLost
    BY <1>4 DEF TasksLost, Sleeping
  <1>5. QED BY <1>1, <1>2, <1>3, <1>4, TasksMove

-----------------------------------------------------------------------------
(* What a step does to the rest. *)

EventMoves(m) ==
    \/ event'[m].phase = event[m].phase
    \/ event[m].phase = "none" /\ event'[m].phase = "sent" /\ m \in ToSet(thread')
    \/ event[m].phase = "sent" /\ event'[m].phase = "claimed"
    \/ event[m].phase = "claimed" /\ event'[m].phase = "ignored"
    \/ event[m].phase = "claimed" /\ event'[m].phase = "accepted" /\ Accepted(m)

(* Which part of the state the steps of a task leave alone.                *)
LEMMA TaskStepLeaves ==
    ASSUME NEW t \in Messages, TaskStep(t)
    PROVE  event' = event /\ thread' \in {thread, Append(thread, Outgoing)}
  BY DEF TaskStep, ResolveDebounce, Wake, Fetch, DecideReply, DecideHandoff, DecideForwarded,
         PostReply, PostNote, Acknowledge, OpenForHuman

(* A webhook goes from sent to claimed to accepted or ignored, and the     *)
(* message is stored before its webhook is sent.                           *)
LEMMA EventsMove ==
    ASSUME TypeOK, [Next]_vars, NEW m \in Messages
    PROVE  EventMoves(m) /\ ToSet(thread) \subseteq ToSet(thread')
  <1> DEFINE Stored == ToSet(thread) \subseteq ToSet(thread')
  <1>0. /\ ToSet(Append(thread, Outgoing)) = ToSet(thread) \cup {Outgoing}
        /\ \A k \in Messages : ToSet(Append(thread, k)) = ToSet(thread) \cup {k}
    <2>1. thread \in Seq(Messages \cup {Outgoing})
      BY DEF TypeOK
    <2>2. \A k \in Messages \cup {Outgoing} :
             ToSet(Append(thread, k)) = ToSet(thread) \cup {k}
      BY <2>1, AppendStores
    <2>3. QED BY <2>2
  <1>1. ASSUME NEW t \in Messages, TaskStep(t) PROVE EventMoves(m) /\ Stored
    BY <1>0, <1>1, TaskStepLeaves DEF EventMoves
  <1>2. ASSUME NEW k \in Messages, Deliver(k) PROVE EventMoves(m) /\ Stored
    BY <1>2 DEF Deliver, EventMoves, TypeOK
  <1>3. ASSUME NEW k \in Messages, NEW consumed \in BOOLEAN, HandleBotEvent(k, consumed)
        PROVE  EventMoves(m) /\ Stored
    <2>1. CASE Ignored(k)
      BY <1>3, <2>1 DEF HandleBotEvent, Ignored, EventMoves, TypeOK
    <2>2. CASE Accepted(k)
      <3>1. event' = [event EXCEPT ![k].phase = "accepted"] /\ event[k].phase = "claimed"
        BY <1>3, <2>2 DEF HandleBotEvent, Accepted
      <3>2. m # k => event'[m] = event[m]
        BY <3>1 DEF TypeOK
      <3>3. event'[k].phase = "accepted"
        BY <3>1 DEF TypeOK
      <3>4. QED BY <1>3, <2>2, <3>1, <3>2, <3>3 DEF HandleBotEvent, EventMoves
    <2>3. QED BY <1>3, <2>1, <2>2 DEF HandleBotEvent
  <1>4. ASSUME NEW k \in Messages, NEW copies \in 1..MaxCopies, CustomerWrites(k, copies)
        PROVE  EventMoves(m) /\ Stored
    <2>1. thread' = Append(thread, k) /\ event[k].phase = "none"
      BY <1>4 DEF CustomerWrites
    <2>2. event'[k].phase = "sent" /\ (m # k => event'[m] = event[m])
      BY <1>4 DEF CustomerWrites, TypeOK
    <2>3. QED BY <1>0, <2>1, <2>2 DEF EventMoves
  <1>5. CASE AgentOpens \/ AgentReplies \/ Returned
    BY <1>0, <1>5 DEF AgentOpens, AgentReplies, Returned, EventMoves
  <1>6. CASE Restart
    <2>1. event'[m] = IF event[m].phase = "claimed"
                      THEN [event[m] EXCEPT !.phase = "ignored"] ELSE event[m]
      BY <1>6 DEF Restart
    <2>2. event[m] \in [phase : {"none", "sent", "claimed", "accepted", "ignored"},
                        copies : 0..MaxCopies, pending : BOOLEAN]
      BY DEF TypeOK
    <2>3. EventMoves(m)
      BY <2>1, <2>2 DEF EventMoves
    <2>4. QED BY <1>6, <2>3 DEF Restart
  <1>7. CASE UNCHANGED vars
    BY <1>7 DEF vars, EventMoves
  <1>8. QED BY <1>1, <1>2, <1>3, <1>4, <1>5, <1>6, <1>7 DEF Next, Handle, Environment

(* A step that changes "taken" is a turn's reading of the conversation.    *)
LEMMA TakenMoves ==
    [Next]_vars => \/ taken' = taken
                   \/ /\ taken' = taken \cup TurnText(thread)
                      /\ event' = event
  BY DEF Next, vars, TaskStep, ResolveDebounce, Wake, Fetch, DecideReply, DecideHandoff,
         DecideForwarded, PostReply, PostNote, Acknowledge, OpenForHuman, Deliver, Handle,
         HandleBotEvent, Environment, CustomerWrites, AgentOpens, AgentReplies, Returned, Restart

(* Faults are never undone. *)
LEMMA FaultsGrow == TypeOK /\ [Next]_vars => (faults' = 0 => faults = 0)
  <1> SUFFICES ASSUME TypeOK, [Next]_vars, faults' = 0 PROVE faults = 0
    OBVIOUS
  <1>1. faults \in Nat
    BY ConstantsAssumption DEF TypeOK
  <1>2. ASSUME NEW ok \in BOOLEAN, Outcome(ok) PROVE faults = 0
    BY <1>1, <1>2 DEF Outcome
  <1>3. ASSUME NEW t \in Messages, TaskStep(t) PROVE faults = 0
    BY <1>2, <1>3 DEF TaskStep, ResolveDebounce, Wake, Fetch, DecideReply, DecideHandoff,
          DecideForwarded, PostReply, PostNote, Acknowledge, OpenForHuman
  <1>4. ASSUME NEW m \in Messages, Deliver(m) \/ Handle(m) PROVE faults = 0
    BY <1>4 DEF Deliver, Handle, HandleBotEvent
  <1>5. CASE Environment
    BY <1>5 DEF Environment, CustomerWrites, AgentOpens, AgentReplies, Returned
  <1>6. CASE Restart
    BY <1>1, <1>6 DEF Restart
  <1>7. QED BY <1>3, <1>4, <1>5, <1>6 DEF Next, vars

-----------------------------------------------------------------------------
(* Stored and scheduled. *)

(* A message whose webhook exists is in the thread; one that has a task    *)
(* was accepted.                                                           *)
BookInv ==
    \A m \in Messages : /\ event[m].phase # "none" => m \in ToSet(thread)
                        /\ task[m].phase # "none" => event[m].phase = "accepted"

LEMMA BookStep == TypeOK /\ BookInv /\ [Next]_vars => BookInv'
  <1> SUFFICES ASSUME TypeOK, BookInv, [Next]_vars, NEW m \in Messages
               PROVE  /\ event'[m].phase # "none" => m \in ToSet(thread')
                      /\ task'[m].phase # "none" => event'[m].phase = "accepted"
    BY DEF BookInv
  <1>1. EventMoves(m) /\ ToSet(thread) \subseteq ToSet(thread')
    BY EventsMove
  <1>2. event'[m].phase # "none" => m \in ToSet(thread')
    BY <1>1 DEF EventMoves, BookInv
  <1>3. event[m].phase = "accepted" => event'[m].phase = "accepted"
    BY <1>1 DEF EventMoves
  <1>4. ASSUME task'[m].phase # "none" PROVE event'[m].phase = "accepted"
    <2>1. CASE TasksStay \/ TasksLost
      BY <1>3, <1>4, <2>1 DEF TasksStay, TasksLost, BookInv, Sleeping, Processing
    <2>2. ASSUME NEW t \in Messages, Moves(t) PROVE event'[m].phase = "accepted"
      BY <1>3, <1>4, <2>2 DEF Moves, BookInv, Sleeping, Processing
    <2>3. ASSUME NEW k \in Messages, event[k].phase = "claimed", Accepted(k)
          PROVE  event'[m].phase = "accepted"
      <3>1. CASE m = k
        BY <2>3, <3>1 DEF Accepted, TypeOK
      <3>2. CASE m # k
        <4>1. task[m].phase # "none"
          BY <1>4, <2>3, <3>2, AcceptedTasks DEF Sleeping
        <4>2. QED BY <1>3, <4>1 DEF BookInv
      <3>3. QED BY <3>1, <3>2
    <2>4. QED BY <2>1, <2>2, <2>3, TasksMove
  <1>5. QED BY <1>2, <1>4

-----------------------------------------------------------------------------
(* Nothing accepted is forgotten. *)

(* While no call has failed, an accepted message that a turn would read    *)
(* and none has read has a task that has yet to read the conversation.     *)
AwaitedInv ==
    faults = 0 =>
       \A m \in (Owed \cap TurnText(thread)) \ taken :
          \E t \in Messages : task[t].phase \in Waiting

(* The thread grows by one message at a time, a customer's before its      *)
(* webhook exists.                                                         *)
LEMMA ThreadMoves ==
    [Next]_vars => \/ thread' = thread
                   \/ thread' = Append(thread, Outgoing)
                   \/ \E k \in Messages : event[k].phase = "none" /\ thread' = Append(thread, k)
  BY DEF Next, vars, TaskStep, ResolveDebounce, Wake, Fetch, DecideReply, DecideHandoff,
         DecideForwarded, PostReply, PostNote, Acknowledge, OpenForHuman, Deliver, Handle,
         HandleBotEvent, Environment, CustomerWrites, AgentOpens, AgentReplies, Returned, Restart

LEMMA AwaitedStep ==
    TypeOK /\ AwaitedInv /\ [Next]_vars => AwaitedInv'
  <1> SUFFICES ASSUME TypeOK, AwaitedInv, [Next]_vars, faults' = 0,
                      NEW m \in Messages, event'[m].phase = "accepted",
                      m \in TurnText(thread'), m \notin taken'
               PROVE  \E t \in Messages : task'[t].phase \in Waiting
    BY DEF AwaitedInv, Owed
  <1>1. faults = 0 /\ m \notin taken
    BY FaultsGrow, TakenMoves
  <1>2. ASSUME NEW k \in Messages, Accepted(k)
        PROVE  \E t \in Messages : task'[t].phase \in Waiting
    BY <1>2, AcceptedTasks DEF Waiting, Sleeping
  <1>3. CASE event[m].phase = "accepted"
    <2>1. m \in TurnText(thread)
      <3>1. m # Outgoing /\ thread \in Seq(Messages \cup {Outgoing})
        BY ConstantsAssumption DEF Messages, Outgoing, TypeOK
      <3>2. CASE thread' = thread
        BY <3>2
      <3>3. CASE thread' = Append(thread, Outgoing)
        BY <3>1, <3>3, AppendReads
      <3>4. ASSUME NEW k \in Messages, event[k].phase = "none", thread' = Append(thread, k)
            PROVE  m \in TurnText(thread)
        BY <1>3, <3>1, <3>4, AppendReads
      <3>5. QED BY <3>2, <3>3, <3>4, ThreadMoves
    <2>2. PICK t \in Messages : task[t].phase \in Waiting
      BY <1>1, <1>3, <2>1 DEF AwaitedInv, Owed
    <2>3. CASE TasksStay
      BY <2>2, <2>3 DEF TasksStay
    <2>4. ASSUME NEW u \in Messages, Moves(u), TaskStep(u)
          PROVE  \E v \in Messages : task'[v].phase \in Waiting
      <3>1. CASE u # t
        BY <2>2, <2>4, <3>1 DEF Moves
      <3>2. CASE u = t
        <4>1. ASSUME NEW mode \in Modes, NEW ok \in BOOLEAN, Fetch(t, mode, ok) PROVE FALSE
          <5>1. ok
            BY <1>1, <4>1 DEF Fetch, Outcome
          <5>2. taken' = taken \cup TurnText(thread)
            BY <2>1, <4>1, <5>1 DEF Fetch
          <5>3. QED BY <2>1, <5>2
        <4>2. CASE ResolveDebounce(t)
          BY <4>2 DEF ResolveDebounce, Goto, TypeOK, Waiting, Sleeping
        <4>3. CASE Wake(t)
          BY <4>3 DEF Wake, Goto, TypeOK, Waiting
        <4>4. QED
          BY <2>2, <2>4, <3>2, <4>1, <4>2, <4>3 DEF TaskStep, Waiting, Sleeping, At,
             DecideReply, DecideHandoff, DecideForwarded, PostReply, PostNote,
             Acknowledge, OpenForHuman
      <3>3. QED BY <3>1, <3>2
    <2>5. CASE TasksLost
      BY <1>1, <2>5 DEF TasksLost
    <2>6. QED BY <1>2, <2>3, <2>4, <2>5, TasksMove
  <1>4. CASE event[m].phase # "accepted"
    BY <1>2, <1>4, EventsMove DEF EventMoves
  <1>5. QED BY <1>3, <1>4

-----------------------------------------------------------------------------
(* The theorems. *)

IInv == TypeOK /\ SleeperRegistered /\ BookInv /\ AwaitedInv

LEMMA IInvInvariant == Spec => []IInv
  <1>1. Init => IInv
    <2> SUFFICES ASSUME Init PROVE IInv
      OBVIOUS
    <2>1. TypeOK
      BY ConstantsAssumption DEF Init, TypeOK, NoEvent, NoTask, Phases
    <2>2. \A m \in Messages : event[m].phase = "none" /\ task[m].phase = "none"
      BY DEF Init, NoEvent, NoTask
    <2>3. SleeperRegistered /\ BookInv /\ AwaitedInv
      BY <2>2 DEF SleeperRegistered, BookInv, AwaitedInv, Owed, Sleeping
    <2>4. QED BY <2>1, <2>3 DEF IInv
  <1>2. IInv /\ [Next]_vars => IInv'
    BY TypeOKStep, SleeperStep, BookStep, AwaitedStep DEF IInv
  <1>3. QED BY <1>1, <1>2, PTL DEF Spec

(* Every variable of the model keeps its type. *)
THEOREM TurnsTypeCorrect == Spec => []TypeOK
  <1>1. IInv => TypeOK
    BY DEF IInv
  <1>2. QED BY <1>1, IInvInvariant, PTL

(* At most one task of the conversation is asleep, and the next message    *)
(* finds it: a burst of any length is coalesced.                           *)
THEOREM SleeperIsRegistered == Spec => []SleeperRegistered
  <1>1. IInv => SleeperRegistered
    BY DEF IInv
  <1>2. QED BY <1>1, IInvInvariant, PTL

(* With gemini.decide, every accepted message has been read by some turn   *)
(* once nothing is at work, unless a call failed or the service restarted. *)
THEOREM OwedIsAlwaysTaken == ~ChatAgent /\ Spec => []OwedIsTaken
  <1> SUFFICES ASSUME ~ChatAgent PROVE Spec => []OwedIsTaken
    OBVIOUS
  <1>1. IInv => OwedIsTaken
    <2>1. ASSUME IInv PROVE Owed \subseteq TurnText(thread)
      BY <2>1, TurnTextStored DEF IInv, BookInv, Owed, TypeOK
    <2>2. QED BY <2>1 DEF IInv, AwaitedInv, OwedIsTaken, Quiet, Waiting, Processing
  <1>2. QED BY <1>1, IInvInvariant, PTL

(* Whatever agent decides, an accepted message that no outgoing message    *)
(* follows has been read by some turn once nothing is at work, unless a    *)
(* call failed or the service restarted.                                   *)
THEOREM OwedIsTakenOrIsFollowed == Spec => []OwedIsTakenOrFollowed
  <1>1. IInv => OwedIsTakenOrFollowed
    <2>1. ASSUME IInv PROVE Owed \cap TrailingRun(thread) \subseteq TurnText(thread)
      BY <2>1, TrailingRead DEF IInv, Owed, TypeOK
    <2>2. QED BY <2>1 DEF IInv, AwaitedInv, OwedIsTakenOrFollowed, Quiet, Waiting, Processing
  <1>2. QED BY <1>1, IInvInvariant, PTL

(* However often a webhook is delivered, its message schedules one task.   *)
THEOREM AlwaysScheduledOnce == Spec => ScheduledOnce
  <1>1. TypeOK /\ BookInv /\ [Next]_vars =>
           [\A t \in Messages : task[t].phase # "none" =>
               task'[t].phase \in {task[t].phase} \cup (Phases \ {"none", "config"})]_vars
    <2> SUFFICES ASSUME TypeOK, BookInv, [Next]_vars, NEW t \in Messages,
                        task[t].phase # "none"
                 PROVE  task'[t].phase \in
                           {task[t].phase} \cup (Phases \ {"none", "config"})
      OBVIOUS
    <2>1. task'[t].phase \in Phases
      BY TypeOKStep DEF TypeOK
    <2>2. ASSUME NEW u \in Messages, Moves(u)
          PROVE  task'[t].phase \in {task[t].phase} \cup (Phases \ {"none", "config"})
      BY <2>1, <2>2 DEF Moves
    <2>3. ASSUME NEW m \in Messages, event[m].phase = "claimed", Accepted(m)
          PROVE  task'[t].phase \in {task[t].phase} \cup (Phases \ {"none", "config"})
      <3>1. t # m
        BY <2>3 DEF BookInv
      <3>2. QED BY <2>1, <2>3, <3>1, AcceptedTasks
    <2>4. CASE TasksStay \/ TasksLost
      BY <2>1, <2>4 DEF TasksStay, TasksLost
    <2>5. QED BY <2>2, <2>3, <2>4, TasksMove
  <1>2. IInv => TypeOK /\ BookInv
    BY DEF IInv
  <1>3. QED BY <1>1, <1>2, IInvInvariant, PTL DEF Spec, ScheduledOnce

(* With gemini.decide, every step of the bot is a step of MessageService   *)
(* or leaves it as it was: no turn reads the conversation and leaves an    *)
(* accepted message behind.                                                *)
THEOREM KeepsThePromiseSafely == ~ChatAgent /\ Spec => KeepsPromiseSafely
  <1> SUFFICES ASSUME ~ChatAgent PROVE Spec => KeepsPromiseSafely
    OBVIOUS
  <1>1. Init => Service!Init
    BY DEF Init, Service!Init, Owed, NoEvent
  <1>2. TypeOK /\ BookInv /\ [Next]_vars => [Service!Next]_(Service!vars)
    <2> SUFFICES ASSUME TypeOK, BookInv, [Next]_vars
                 PROVE  [Service!Next]_(Service!vars)
      OBVIOUS
    <2>1. CASE taken' = taken
      <3>1. \A m \in Messages : event[m].phase = "accepted" => event'[m].phase = "accepted"
        BY EventsMove DEF EventMoves
      <3>2. CASE \E m \in Messages : /\ event[m].phase # "accepted"
                                     /\ event'[m].phase = "accepted"
        <4>1. PICK m \in Messages : /\ event[m].phase # "accepted"
                                    /\ event'[m].phase = "accepted"
          BY <3>2
        <4>2. Accepted(m)
          BY <4>1, EventsMove DEF EventMoves
        <4>3. \A k \in Messages \ {m} : event'[k] = event[k]
          BY <4>2 DEF Accepted, TypeOK
        <4>4. Owed' = Owed \cup {m}
          BY <4>1, <4>3 DEF Owed
        <4>5. QED BY <2>1, <4>4 DEF Service!Next, Service!Owe
      <3>3. CASE ~ \E m \in Messages : /\ event[m].phase # "accepted"
                                       /\ event'[m].phase = "accepted"
        <4>1. Owed' = Owed
          BY <3>1, <3>3 DEF Owed
        <4>2. QED BY <2>1, <4>1 DEF Service!vars
      <3>4. QED BY <3>2, <3>3
    <2>2. CASE taken' = taken \cup TurnText(thread) /\ event' = event
      <3>1. Owed' = Owed
        BY <2>2 DEF Owed
      <3>2. TurnText(thread) = ToSet(thread) \cap Messages
        BY TurnTextStored DEF TypeOK
      <3>3. Owed \subseteq TurnText(thread)
        BY <3>2 DEF Owed, BookInv
      <3>4. taken' \in SUBSET Messages /\ Owed \cup taken \subseteq taken'
        BY <2>2, <3>2, <3>3 DEF TypeOK
      <3>5. QED BY <3>1, <3>4 DEF Service!Next, Service!Turn
    <2>3. QED BY <2>1, <2>2, TakenMoves
  <1>3. IInv => TypeOK /\ BookInv
    BY DEF IInv
  <1>4. QED BY <1>1, <1>2, <1>3, IInvInvariant, PTL DEF Spec, KeepsPromiseSafely
=============================================================================
