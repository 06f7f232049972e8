-------------------------- MODULE ChatHandoffProofs --------------------------
(***************************************************************************)
(* Theorems about ChatHandoff for every set of conversations and of        *)
(* webhook handlers, any size of a stream's queue, and any number of       *)
(* messages, replies and faults.                                           *)
(***************************************************************************)
EXTENDS ChatHandoff, TLAPS

TurnType   == [pc : TurnPlaces, conv : Mapped \cup {None},
               snap : BOOLEAN, owned : BOOLEAN]
HookType   == [pc : HookPlaces, conv : Convs \cup {None}, late : BOOLEAN]
RelayType  == [pc : {"idle", "query", "found", "deliver"}, conv : Convs \cup {None}]
StreamType == [open : BOOLEAN, attached : BOOLEAN,
               queue : Seq({"reply", "end"}), lost : BOOLEAN]
SpentType  == [turns : Nat, replies : Nat, faults : Nat]

(* Whoever is about to tell the bridge of a conversation has one.          *)
ConvKnown ==
  /\ \A h \in Handlers : hook[h].pc # "idle" => hook[h].conv \in Convs
  /\ relay.pc # "idle" => relay.conv \in Convs
  /\ turn.pc \in {"register", "registered"} => turn.conv \in Mapped

-----------------------------------------------------------------------------
(* The inductive invariant.                                                *)

(* A turn on its way to the bot has found no mapping, and nobody but a turn *)
(* makes one.                                                              *)
Unmapped ==
  (\/ turn.pc \in {"pausecheck", "pauseread"} \cup BotPath
   \/ turn.conv = None /\ turn.pc \in {"looked", "load", "save"}) => doc = None

(* A pause that is read although nothing is mapped is one a hand-off or    *)
(* hand-back has left behind.                                              *)
PauseIsLeft ==
  /\ turn.pc = "pauseread" /\ turn.snap => cut
  /\ turn.pc = "pausing" /\ pausedDoc => cut
  /\ turn.pc = "register" /\ turn.conv \notin Convs => cut

(* A handler that has taken the session has lifted its pause, unless a     *)
(* turn has begun to hand over once more: then the handler is late.        *)
TakenIsFree ==
  \A h \in Handlers : ~hook[h].late /\ ~cut /\ turn.pc \notin Escalating =>
    /\ hook[h].pc \in {"persist", "resume", "delete"} => ~pausedMem
    /\ hook[h].pc \in {"resume", "delete"} => ~pausedDoc

(* An owned turn has the mapping, or is still to read it.                  *)
OwnedIsMapped ==
  turn.owned => /\ doc # None
                /\ \A h \in Handlers : hook[h].pc \notin Taken
                /\ turn.pc \in {"lookup", "looked", "load", "save", "send"}
                /\ turn.pc # "lookup" => turn.conv # None

Ownership == PausedHasAnOwner /\ Unmapped /\ PauseIsLeft /\ TakenIsFree /\ OwnedIsMapped
IInv      == TypeOK /\ ConvKnown /\ Ownership /\ StreamFollows

-----------------------------------------------------------------------------
(* Types.                                                                  *)

LEMMA RestIsTyped ==
    /\ NoTurn \in TurnType /\ NoHook \in HookType /\ NoRelay \in RelayType
    /\ Attached \in StreamType /\ Closed \in StreamType
  <1>1. <<>> \in Seq({"reply", "end"})
    OBVIOUS
  <1>2. QED
    BY <1>1 DEF NoTurn, NoHook, NoRelay, Attached, Closed, TurnType, HookType,
                RelayType, StreamType, TurnPlaces, HookPlaces

LEMMA SpendCounts ==
    ASSUME spent \in SpentType, NEW what \in {"turns", "replies", "faults"}, Spend(what)
    PROVE  spent' \in SpentType
  BY DEF SpentType, Spend

LEMMA FaultCounts ==
    ASSUME spent \in SpentType, Fault
    PROVE  spent' \in SpentType
  BY SpendCounts DEF Fault

Typed == /\ turn \in TurnType /\ hook \in [Handlers -> HookType] /\ relay \in RelayType
         /\ stream \in StreamType /\ spent \in SpentType
         /\ doc \in Mapped \cup {None} /\ sessCache \in Mapped \cup {None}
         /\ pausedDoc \in BOOLEAN /\ triggered \in BOOLEAN /\ pausedMem \in BOOLEAN
         /\ adapterConv \in Convs \cup {None} /\ convCache \subseteq Mapped
         /\ watching \in BOOLEAN /\ status \in [Convs -> {"none", "open", "resolved"}]
         /\ events \in [Convs -> 0..2] /\ asked \in BOOLEAN /\ cut \in BOOLEAN

LEMMA TypedIsTypeOK == TypeOK <=> Typed
  BY DEF TypeOK, Typed, TurnType, HookType, RelayType, StreamType, SpentType

LEMMA TypeInit == Init => TypeOK /\ ConvKnown
  <1>1. SUFFICES ASSUME Init PROVE Typed /\ ConvKnown
    BY TypedIsTypeOK
  <1>2. turn \in TurnType /\ hook \in [Handlers -> HookType] /\ relay \in RelayType /\ stream \in StreamType
    BY <1>1, RestIsTyped DEF Init
  <1>3. spent \in SpentType /\ events \in [Convs -> 0..2]
    BY <1>1 DEF Init, SpentType
  <1>4. Typed
    BY <1>1, <1>2, <1>3 DEF Init, Typed
  <1>5. ConvKnown
    BY <1>1 DEF Init, ConvKnown, NoTurn, NoHook, NoRelay
  <1>6. QED BY <1>4, <1>5

(* A turn keeps its type, whatever it does. *)
TurnFits == turn \in TurnType /\ (turn.pc \in {"register", "registered"} => turn.conv \in Mapped)

LEMMA TurnStaysTyped ==
    ASSUME TurnFits, doc \in Mapped \cup {None}, sessCache \in Mapped \cup {None},
           pausedDoc \in BOOLEAN, triggered \in BOOLEAN, TurnStarts \/ TurnStep
    PROVE  TurnFits'
  <1> USE DEF TurnFits, TurnType, TurnPlaces, BotPath, Escalating, Goes, Ends, NoTurn, Mapped
  <1>1. CASE TurnStarts
    BY <1>1 DEF TurnStarts
  <1>2. CASE TurnLooksUp
    BY <1>2 DEF TurnLooksUp
  <1>3. CASE TurnFindsOwner
    <2>1. ASSUME NEW pc \in {"load", "pausecheck"}, Goes(pc) PROVE TurnFits'
      BY <2>1
    <2>2. CASE Ends
      BY <2>2
    <2>3. Goes("load") \/ Goes("pausecheck") \/ Ends
      BY <1>3, Zenon DEF TurnFindsOwner
    <2>4. QED BY <2>1, <2>2, <2>3
  <1>4. CASE TurnReadsPause
    BY <1>4 DEF TurnReadsPause
  <1>5. CASE TurnHeedsPause
    <2>1. CASE Goes("load")
      BY <2>1
    <2>2. CASE Ends
      BY <2>2
    <2>3. Goes("load") \/ Ends
      BY <1>5, Zenon DEF TurnHeedsPause
    <2>4. QED BY <2>1, <2>2, <2>3
  <1>6. CASE TurnLoadsSession
    BY <1>6 DEF TurnLoadsSession
  <1>7. CASE TurnSavesHistory
    BY <1>7 DEF TurnSavesHistory
  <1>8. CASE TurnForwards
    BY <1>8 DEF TurnForwards
  <1>9. CASE TurnRunsBot
    BY <1>9 DEF TurnRunsBot
  <1>10. CASE TurnBotEnds
    BY <1>10 DEF TurnBotEnds
  <1>11. CASE TurnDecides
    BY <1>11 DEF TurnDecides
  <1>12. CASE TurnLoadsReply
    BY <1>12 DEF TurnLoadsReply
  <1>13. CASE TurnReplies
    BY <1>13 DEF TurnReplies
  <1>14. CASE EscalationPersistsPause
    BY <1>14 DEF EscalationPersistsPause
  <1>15. CASE EscalationOpens
    BY <1>15 DEF EscalationOpens
  <1>16. CASE EscalationRegisters
    BY <1>16 DEF EscalationRegisters
  <1>17. CASE EscalationRegistered
    BY <1>17 DEF EscalationRegistered
  <1>18. CASE TurnFails
    BY <1>18 DEF TurnFails, CutShort
  <1>19. QED
    BY <1>1, <1>2, <1>3, <1>4, <1>5, <1>6, <1>7, <1>8, <1>9, <1>10, <1>11, <1>12,
       <1>13, <1>14, <1>15, <1>16, <1>17, <1>18 DEF TurnStep, Escalation

(* What a turn does to the rest of the state. *)
LEMMA TurnLeaves ==
    ASSUME Typed, ConvKnown, TurnStarts \/ TurnStep
    PROVE  /\ relay' = relay /\ events' = events
           /\ UNCHANGED spent \/ Fault \/ Spend("turns")
           /\ stream' = stream \/ stream' = Closed
           /\ doc' = doc \/ (turn.pc = "register" /\ doc' = turn.conv)
           /\ UNCHANGED hook \/ hook' = [h \in Handlers |->
                [hook[h] EXCEPT !.late = @ \/ hook[h].pc \in Taken \cup {"found"}]]
  <1> USE DEF TurnStep, Escalation, memory, stored, page, crm, TurnStarts, TurnLooksUp,
        TurnFindsOwner, TurnReadsPause, TurnHeedsPause, TurnLoadsSession,
        TurnSavesHistory, TurnForwards, TurnRunsBot, TurnBotEnds, TurnDecides,
        TurnLoadsReply, TurnReplies, EscalationPersistsPause, EscalationOpens,
        EscalationRegisters, EscalationRegistered, TurnFails
  <1>1. relay' = relay /\ events' = events
    OBVIOUS
  <1>2. UNCHANGED spent \/ Fault \/ Spend("turns")
    OBVIOUS
  <1>3. stream' = stream \/ stream' = Closed
    OBVIOUS
  <1>4. doc' = doc \/ (turn.pc = "register" /\ doc' = turn.conv)
    OBVIOUS
  <1>5. UNCHANGED hook \/ hook' = [h \in Handlers |->
          [hook[h] EXCEPT !.late = @ \/ hook[h].pc \in Taken \cup {"found"}]]
    OBVIOUS
  <1>6. QED BY <1>1, <1>2, <1>3, <1>4, <1>5

(* What a turn writes of the pause, the caches and Chatwoot. *)
LEMMA TurnWrites ==
    ASSUME Typed, ConvKnown, TurnStarts \/ TurnStep
    PROVE  /\ pausedMem' \in BOOLEAN /\ pausedDoc' \in BOOLEAN /\ triggered' \in BOOLEAN
           /\ asked' \in BOOLEAN /\ cut' \in BOOLEAN /\ watching' \in BOOLEAN
           /\ adapterConv' \in Convs \cup {None} /\ sessCache' \in Mapped \cup {None}
           /\ convCache' \subseteq Mapped
           /\ status' \in [Convs -> {"none", "open", "resolved"}]
  <1> USE DEF Typed, memory, stored, page, crm
  <1>1. CASE TurnFindsOwner \/ EscalationRegistered
    <2>1. sessCache' \in Mapped \cup {None} /\ convCache' \subseteq Mapped
      BY <1>1 DEF TurnFindsOwner, EscalationRegistered, Remember, ConvKnown, TurnType
    <2>2. QED BY <1>1, <2>1 DEF TurnFindsOwner, EscalationRegistered
  <1>2. CASE TurnForwards \/ EscalationOpens
    <2>1. status' \in [Convs -> {"none", "open", "resolved"}]
      BY <1>2 DEF TurnForwards, EscalationOpens, Reopened
    <2>2. QED BY <1>2, <2>1 DEF TurnForwards, EscalationOpens
  <1>3. CASE TurnSavesHistory \/ TurnReplies \/ TurnBotEnds
    <2>1. triggered' \in BOOLEAN /\ asked' \in BOOLEAN
      BY <1>3 DEF TurnSavesHistory, TurnReplies, TurnBotEnds, TurnType
    <2>2. QED BY <1>3, <2>1 DEF TurnSavesHistory, TurnReplies, TurnBotEnds
  <1>4. CASE TurnFails
    BY <1>4 DEF TurnFails
  <1>5. CASE \/ TurnStarts \/ TurnLooksUp \/ TurnReadsPause \/ TurnHeedsPause
             \/ TurnLoadsSession \/ TurnRunsBot \/ TurnDecides \/ TurnLoadsReply
             \/ EscalationPersistsPause \/ EscalationRegisters
    BY <1>5 DEF TurnStarts, TurnLooksUp, TurnReadsPause, TurnHeedsPause, TurnLoadsSession,
                TurnRunsBot, TurnDecides, TurnLoadsReply, EscalationPersistsPause,
                EscalationRegisters
  <1>6. QED BY <1>1, <1>2, <1>3, <1>4, <1>5 DEF TurnStep, Escalation

LEMMA TurnTyped ==
    ASSUME Typed, ConvKnown, TurnStarts \/ TurnStep
    PROVE  Typed' /\ ConvKnown'
  <1>1. TurnFits'
    BY TurnStaysTyped DEF TurnFits, Typed, ConvKnown
  <1>2. spent' \in SpentType /\ stream' \in StreamType /\ doc' \in Mapped \cup {None}
    BY TurnLeaves, SpendCounts, FaultCounts, RestIsTyped DEF Typed, ConvKnown
  <1>3. /\ hook' \in [Handlers -> HookType]
        /\ \A h \in Handlers : hook'[h].pc = hook[h].pc /\ hook'[h].conv = hook[h].conv
    <2>1. CASE UNCHANGED hook
      BY <2>1 DEF Typed
    <2>2. CASE hook' = [h \in Handlers |->
                 [hook[h] EXCEPT !.late = @ \/ hook[h].pc \in Taken \cup {"found"}]]
      BY <2>2 DEF Typed, HookType
    <2>3. QED BY <2>1, <2>2, TurnLeaves
  <1>4. Typed'
    BY <1>1, <1>2, <1>3, TurnLeaves, TurnWrites DEF Typed, TurnFits
  <1>5. ConvKnown'
    BY <1>1, <1>3, TurnLeaves DEF ConvKnown, TurnFits
  <1>6. QED BY <1>4, <1>5

(* Handlers, relay and stream keep their types. *)
LEMMA HookMoves ==
    ASSUME Typed, ConvKnown, NEW h \in Handlers, NEW c \in Convs,
           HookStep(h) \/ HookStarts(h, c)
    PROVE  /\ hook' \in [Handlers -> HookType]
           /\ \A k \in Handlers : hook'[k].pc # "idle" => hook'[k].conv \in Convs
           /\ \A k \in Handlers \ {h} : hook'[k] = hook[k]
  <1>1. PICK k \in HookType : /\ hook' = [hook EXCEPT ![h] = k]
                              /\ k.pc # "idle" => k.conv \in Convs
    <2> USE RestIsTyped DEF Typed, ConvKnown, HookType, HookPlaces, Taken, At, Frees, Takes
    <2>1. CASE HookStarts(h, c)
      <3>1. PICK pc \in {"persist", "query"} :
              hook' = [hook EXCEPT ![h] = [hook[h] EXCEPT !.pc = pc, !.conv = c]]
        BY <2>1 DEF HookStarts
      <3>2. hook[h] \in HookType
        OBVIOUS
      <3>3. [hook[h] EXCEPT !.pc = pc, !.conv = c] \in HookType
        BY <3>1, <3>2
      <3>4. [hook[h] EXCEPT !.pc = pc, !.conv = c].conv = c
        BY <3>2
      <3>5. QED BY <3>1, <3>3, <3>4
    <2>2. ASSUME NEW pc \in HookPlaces, hook[h].pc # "idle", At(h, pc)
          PROVE  \E k \in HookType : hook' = [hook EXCEPT ![h] = k] /\ k.conv \in Convs
      <3>1. hook' = [hook EXCEPT ![h] = [hook[h] EXCEPT !.pc = pc]]
        BY <2>2
      <3>2. hook[h] \in HookType /\ hook[h].conv \in Convs
        BY <2>2
      <3>3. [hook[h] EXCEPT !.pc = pc] \in HookType /\ [hook[h] EXCEPT !.pc = pc].conv \in Convs
        BY <3>2
      <3>4. QED BY <3>1, <3>3
    <2>3. CASE Frees(h)
      BY <2>3 DEF NoHook
    <2>4. CASE HookFinds(h)
      <3>1. hook' = [hook EXCEPT ![h] = [hook[h] EXCEPT !.pc = "persist"]]
        BY <2>4 DEF HookFinds
      <3>2. hook[h] \in HookType /\ hook[h].conv \in Convs
        BY <2>4 DEF HookFinds
      <3>3. [hook[h] EXCEPT !.pc = "persist"] \in HookType /\ [hook[h] EXCEPT !.pc = "persist"].conv \in Convs
        BY <3>2
      <3>4. QED BY <3>1, <3>3
    <2>5. HookStep(h) => HookFinds(h) \/ Frees(h)
                         \/ \E pc \in HookPlaces : hook[h].pc # "idle" /\ At(h, pc)
      BY DEF HookStep, HookQueries, HookPersistsUnpause, HookResumes, HookDeletes,
             HookUnregisters, HookFails
    <2>6. QED BY <2>1, <2>2, <2>3, <2>4, <2>5
  <1>2. QED BY <1>1 DEF Typed, ConvKnown

LEMMA EndedIsTyped == stream \in StreamType => Ended \in StreamType
  <1>1. SUFFICES ASSUME stream \in StreamType PROVE Ended \in StreamType
    OBVIOUS
  <1>2. stream.queue \in Seq({"reply", "end"}) /\ Append(stream.queue, "end") \in Seq({"reply", "end"})
    BY <1>1 DEF StreamType
  <1>3. QED BY <1>1, <1>2 DEF Ended, StreamType

LEMMA HookTyped ==
    ASSUME Typed, ConvKnown, NEW h \in Handlers, NEW c \in Convs,
           HookStep(h) \/ HookStarts(h, c)
    PROVE  Typed' /\ ConvKnown'
  <1> USE DEF HookStep, HookStarts, HookQueries, HookFinds, HookPersistsUnpause, HookResumes,
              HookDeletes, HookUnregisters, HookFails, memory, stored, page, crm
  <1>1. turn' = turn \/ turn' = [turn EXCEPT !.owned = FALSE]
    BY DEF Takes
  <1>2. turn' \in TurnType /\ turn'.pc = turn.pc /\ turn'.conv = turn.conv
    BY <1>1 DEF Typed, TurnType
  <1>3. stream' = stream \/ stream' = Ended
    OBVIOUS
  <1>4. stream' \in StreamType
    BY <1>3, EndedIsTyped DEF Typed
  <1>5. spent' \in SpentType
    <2>1. UNCHANGED spent \/ Fault
      OBVIOUS
    <2>2. QED BY <2>1, FaultCounts DEF Typed
  <1>6. sessCache' \in Mapped \cup {None} /\ convCache' \subseteq Mapped
    BY DEF Typed, ConvKnown, Remember, Mapped
  <1>7. events' \in [Convs -> 0..2] /\ status' = status
    BY DEF Typed
  <1>8. /\ pausedMem' \in BOOLEAN /\ pausedDoc' \in BOOLEAN /\ triggered' \in BOOLEAN
        /\ asked' \in BOOLEAN /\ cut' \in BOOLEAN
    BY DEF Typed, Takes
  <1>9. /\ adapterConv' \in Convs \cup {None} /\ doc' \in Mapped \cup {None}
        /\ relay' = relay /\ watching' = watching
    BY DEF Typed, Takes
  <1>10. Typed'
    BY <1>2, <1>4, <1>5, <1>6, <1>7, <1>8, <1>9, HookMoves DEF Typed
  <1>11. ConvKnown'
    BY <1>2, <1>9, HookMoves DEF ConvKnown
  <1>12. QED BY <1>10, <1>11

LEMMA OthersTyped ==
    ASSUME Typed, ConvKnown,
           \/ \E c \in Convs : AgentResolves(c) \/ RelayStarts(c)
           \/ RelayStep \/ StreamOpens \/ StreamSends
    PROVE  Typed' /\ ConvKnown'
  <1> USE DEF memory, stored, page, crm
  <1>1. ASSUME NEW c \in Convs, AgentResolves(c) PROVE Typed' /\ ConvKnown'
    BY <1>1 DEF AgentResolves, Typed, ConvKnown
  <1>2. ASSUME NEW c \in Convs, RelayStarts(c) PROVE Typed' /\ ConvKnown'
    <2>1. spent' \in SpentType
      BY <1>2, SpendCounts DEF RelayStarts, Typed
    <2>2. relay' \in RelayType /\ relay'.conv = c
      BY <1>2 DEF RelayStarts, RelayType
    <2>3. QED BY <1>2, <2>1, <2>2 DEF RelayStarts, Typed, ConvKnown
  <1>3. CASE RelayQueries
    <2>1. relay' = NoRelay \/ relay' = [relay EXCEPT !.pc = "found"]
      BY <1>3 DEF RelayQueries
    <2>2. relay' \in RelayType /\ (relay'.pc # "idle" => relay'.conv \in Convs)
      BY <1>3, <2>1, RestIsTyped DEF RelayQueries, Typed, ConvKnown, RelayType, NoRelay
    <2>3. spent' \in SpentType
      BY <1>3, FaultCounts DEF RelayQueries, Typed
    <2>4. QED BY <1>3, <2>2, <2>3 DEF RelayQueries, Typed, ConvKnown
  <1>4. CASE RelayFinds
    <2>1. relay' \in RelayType /\ relay'.conv \in Convs
      BY <1>4 DEF RelayFinds, Typed, ConvKnown, RelayType
    <2>2. sessCache' \in Mapped \cup {None} /\ convCache' \subseteq Mapped
      BY <1>4 DEF RelayFinds, Typed, ConvKnown, Remember, Mapped
    <2>3. QED BY <1>4, <2>1, <2>2 DEF RelayFinds, Typed, ConvKnown
  <1>5. CASE RelayDelivers
    <2>1. Append(stream.queue, "reply") \in Seq({"reply", "end"})
      BY DEF Typed, StreamType
    <2>2. stream' \in StreamType /\ relay' \in RelayType
      BY <1>5, <2>1, RestIsTyped DEF RelayDelivers, Typed, StreamType
    <2>3. QED BY <1>5, <2>2 DEF RelayDelivers, Typed, ConvKnown, NoRelay
  <1>6. CASE StreamOpens
    BY <1>6, RestIsTyped DEF StreamOpens, Typed, ConvKnown
  <1>7. CASE StreamSends
    <2>1. Tail(stream.queue) \in Seq({"reply", "end"})
      BY <1>7 DEF StreamSends, Typed, StreamType
    <2>2. stream' \in StreamType
      BY <1>7, <2>1, RestIsTyped DEF StreamSends, Typed, StreamType
    <2>3. QED BY <1>7, <2>2 DEF StreamSends, Typed, ConvKnown
  <1>8. QED BY <1>1, <1>2, <1>3, <1>4, <1>5, <1>6, <1>7 DEF RelayStep

LEMMA RestartTyped == Typed /\ ConvKnown /\ Restart => Typed' /\ ConvKnown'
  <1>1. SUFFICES ASSUME Typed, Restart PROVE Typed' /\ ConvKnown'
    OBVIOUS
  <1>2. turn' \in TurnType /\ hook' \in [Handlers -> HookType] /\ relay' \in RelayType /\ stream' \in StreamType
    BY <1>1, RestIsTyped DEF Restart
  <1>3. spent' \in SpentType
    BY <1>1, FaultCounts DEF Restart, Typed
  <1>4. Typed'
    BY <1>1, <1>2, <1>3 DEF Restart, Typed, stored, crm
  <1>5. ConvKnown'
    BY <1>1 DEF Restart, ConvKnown, NoTurn, NoHook, NoRelay
  <1>6. QED BY <1>4, <1>5

LEMMA TypeStep == Typed /\ ConvKnown /\ [Next]_vars => Typed' /\ ConvKnown'
  <1>1. SUFFICES ASSUME Typed, ConvKnown, [Next]_vars PROVE Typed' /\ ConvKnown'
    OBVIOUS
  <1>2. CASE UNCHANGED vars
    BY <1>1, <1>2 DEF vars, memory, stored, page, crm, Typed, ConvKnown
  <1>3. ASSUME NEW h \in Handlers, HookStep(h) \/ \E c \in Convs : HookStarts(h, c)
        PROVE  Typed' /\ ConvKnown'
    <2>1. CASE \E c \in Convs : HookStarts(h, c)
      BY <1>1, <2>1, HookTyped
    <2>2. CASE HookStep(h)
      <3>1. CASE Convs = {}
        BY <1>1, <2>2, <3>1 DEF ConvKnown, HookStep, HookQueries, HookFinds,
           HookPersistsUnpause, HookResumes, HookDeletes, HookUnregisters, HookFails
      <3>2. QED BY <1>1, <2>2, <3>1, HookTyped
    <2>3. QED BY <1>3, <2>1, <2>2
  <1>4. QED BY <1>1, <1>2, <1>3, TurnTyped, OthersTyped, RestartTyped DEF Next

-----------------------------------------------------------------------------
(* Ownership.                                                              *)

LEMMA OwnershipInit == Init => Ownership
  BY DEF Init, Ownership, PausedHasAnOwner, Unmapped, PauseIsLeft, TakenIsFree, OwnedIsMapped,
         NoTurn, NoHook, BotPath, Escalating

LEMMA OwnershipKept ==
    ASSUME Ownership, UNCHANGED <<doc, pausedMem, pausedDoc, turn, hook, cut>>
    PROVE  Ownership'
  BY DEF Ownership, PausedHasAnOwner, Unmapped, PauseIsLeft, TakenIsFree, OwnedIsMapped

LEMMA TurnKeepsOwnership ==
    ASSUME Typed, ConvKnown, Ownership, TurnStarts \/ TurnStep
    PROVE  Ownership'
  <1> USE HandoffAssumption
      DEF Typed, ConvKnown, Ownership, PausedHasAnOwner, Unmapped, PauseIsLeft, TakenIsFree,
          OwnedIsMapped, TurnType, BotPath, Escalating, memory, stored, page, crm,
          Goes, Ends, NoTurn, Remember, Mapped
  <1>1. CASE TurnStarts
    BY <1>1 DEF TurnStarts
  <1>2. CASE TurnLooksUp
    BY <1>2 DEF TurnLooksUp
  <1>3. CASE TurnFindsOwner
    <2>1. turn.pc = "looked" /\ UNCHANGED <<doc, pausedMem, pausedDoc, hook, cut>>
      BY <1>3 DEF TurnFindsOwner
    <2>2. CASE turn.conv # None /\ Goes("load")
      BY <2>1, <2>2
    <2>3. CASE Ends
      BY <2>1, <2>3
    <2>4. CASE turn.conv = None /\ Goes("pausecheck")
      BY <2>1, <2>4
    <2>5. (turn.conv # None /\ Goes("load")) \/ Ends \/ (turn.conv = None /\ Goes("pausecheck"))
      BY <1>3, Zenon DEF TurnFindsOwner
    <2>6. QED BY <2>2, <2>3, <2>4, <2>5
  <1>4. CASE TurnReadsPause
    <2>1. turn.pc = "pausecheck" /\ UNCHANGED <<doc, pausedMem, pausedDoc, hook, cut>>
      BY <1>4 DEF TurnReadsPause
    <2>2. PICK snap \in {pausedDoc, FALSE} : turn' = [turn EXCEPT !.pc = "pauseread", !.snap = snap]
      BY <1>4 DEF TurnReadsPause
    <2>3. doc = None /\ ~turn.owned
      BY <2>1
    <2>4. snap => cut
      BY <2>1, <2>2, <2>3
    <2>5. turn'.pc = "pauseread" /\ turn'.owned = turn.owned /\ turn'.snap = snap
      BY <2>2
    <2>6. QED BY <2>1, <2>3, <2>4, <2>5
  <1>5. CASE TurnHeedsPause
    <2>1. turn.pc = "pauseread" /\ UNCHANGED <<doc, pausedDoc, hook, cut>>
      BY <1>5 DEF TurnHeedsPause
    <2>2. CASE turn.snap /\ Ends
      BY <2>1, <2>2
    <2>3. CASE Goes("load") /\ UNCHANGED pausedMem
      BY <2>1, <2>3
    <2>4. (turn.snap /\ Ends) \/ (Goes("load") /\ UNCHANGED pausedMem)
      BY <1>5, Zenon DEF TurnHeedsPause
    <2>5. QED BY <2>2, <2>3, <2>4
  <1>6. CASE TurnLoadsSession
    BY <1>6 DEF TurnLoadsSession
  <1>7. CASE TurnSavesHistory
    BY <1>7 DEF TurnSavesHistory
  <1>8. CASE TurnForwards
    BY <1>8 DEF TurnForwards, Reopened
  <1>9. CASE TurnRunsBot
    BY <1>9 DEF TurnRunsBot
  <1>10. CASE TurnBotEnds
    BY <1>10 DEF TurnBotEnds
  <1>11. CASE TurnDecides
    <2>1. turn.pc = "final" /\ UNCHANGED <<doc, pausedDoc, hook, cut>>
      BY <1>11 DEF TurnDecides
    <2>2. CASE Goes("pausing")
      BY <2>1, <2>2
    <2>3. CASE Goes("reply") /\ UNCHANGED pausedMem
      BY <2>1, <2>3
    <2>4. Goes("pausing") \/ (Goes("reply") /\ UNCHANGED pausedMem)
      BY <1>11, Zenon DEF TurnDecides
    <2>5. QED BY <2>2, <2>3, <2>4
  <1>12. CASE TurnLoadsReply
    BY <1>12 DEF TurnLoadsReply
  <1>13. CASE TurnReplies
    BY <1>13 DEF TurnReplies
  <1>14. CASE EscalationPersistsPause
    BY <1>14 DEF EscalationPersistsPause
  <1>15. CASE EscalationOpens
    BY <1>15 DEF EscalationOpens
  <1>16. CASE EscalationRegisters
    BY <1>16 DEF EscalationRegisters, HookType, Taken
  <1>17. CASE EscalationRegistered
    BY <1>17 DEF EscalationRegistered
  <1>18. CASE TurnFails
    BY <1>18 DEF TurnFails, CutShort
  <1>19. QED
    BY <1>1, <1>2, <1>3, <1>4, <1>5, <1>6, <1>7, <1>8, <1>9, <1>10, <1>11, <1>12,
       <1>13, <1>14, <1>15, <1>16, <1>17, <1>18 DEF TurnStep, Escalation

LEMMA HookKeepsOwnership ==
    ASSUME Typed, ConvKnown, Ownership, NEW h \in Handlers,
           HookStep(h) \/ \E c \in Convs : HookStarts(h, c)
    PROVE  Ownership'
  <1> USE DEF Typed, Ownership, PausedHasAnOwner, Unmapped, PauseIsLeft, TakenIsFree,
          OwnedIsMapped, TurnType, HookType, BotPath, Escalating, Taken, memory, stored,
          page, crm, At, Frees, Takes, NoHook
  <1>1. ASSUME NEW c \in Convs, HookStarts(h, c) PROVE Ownership'
    BY <1>1 DEF HookStarts
  <1>2. CASE HookQueries(h)
    BY <1>2 DEF HookQueries
  <1>3. CASE HookFinds(h)
    BY <1>3 DEF HookFinds
  <1>4. CASE HookPersistsUnpause(h)
    BY <1>4 DEF HookPersistsUnpause
  <1>5. CASE HookResumes(h)
    BY <1>5 DEF HookResumes
  <1>6. CASE HookDeletes(h)
    BY <1>6 DEF HookDeletes
  <1>7. CASE HookUnregisters(h)
    BY <1>7 DEF HookUnregisters
  <1>8. CASE HookFails(h)
    BY <1>8 DEF HookFails
  <1>9. QED BY <1>1, <1>2, <1>3, <1>4, <1>5, <1>6, <1>7, <1>8 DEF HookStep

LEMMA RestartKeepsOwnership == Typed /\ Ownership /\ Restart => Ownership'
  BY DEF Typed, Ownership, PausedHasAnOwner, Unmapped, PauseIsLeft, TakenIsFree, OwnedIsMapped,
         BotPath, Escalating, CutShort, Restart, NoTurn, NoHook, stored

LEMMA OwnershipStep == Typed /\ ConvKnown /\ Ownership /\ [Next]_vars => Ownership'
  <1>1. SUFFICES ASSUME Typed, ConvKnown, Ownership, [Next]_vars PROVE Ownership'
    OBVIOUS
  <1>2. CASE \/ UNCHANGED vars \/ StreamOpens \/ StreamSends \/ RelayStep
             \/ \E c \in Convs : AgentResolves(c) \/ RelayStarts(c)
    <2>1. UNCHANGED <<doc, pausedMem, pausedDoc, turn, hook, cut>>
      BY <1>2 DEF vars, memory, stored, page, crm, StreamOpens, StreamSends, RelayStep, RelayQueries,
                  RelayFinds, RelayDelivers, AgentResolves, RelayStarts
    <2>2. QED BY <1>1, <2>1, OwnershipKept
  <1>3. QED
    BY <1>1, <1>2, TurnKeepsOwnership, HookKeepsOwnership, RestartKeepsOwnership DEF Next

-----------------------------------------------------------------------------
(* The stream.                                                             *)

LEMMA StreamStep == Typed /\ StreamFollows /\ [Next]_vars => StreamFollows'
  <1>1. SUFFICES ASSUME Typed, StreamFollows, [Next]_vars PROVE StreamFollows'
    OBVIOUS
  <1>2. stream.queue \in Seq({"reply", "end"}) /\ stream \in StreamType
    BY <1>1 DEF Typed, StreamType
  <1>3. CASE stream' = stream \/ stream' = Closed \/ stream' = Attached
    BY <1>1, <1>3 DEF StreamFollows, Ending, Closed, Attached
  <1>4. CASE stream' = Ended
    <2>1. CASE Len(stream.queue) < QueueMax
      <3>1. stream'.queue = Append(stream.queue, "end")
        BY <1>2, <1>4, <2>1 DEF Ended, StreamType
      <3>2. stream'.queue[Len(stream.queue) + 1] = "end" /\ Len(stream'.queue) = Len(stream.queue) + 1
        BY <1>2, <3>1
      <3>3. Ending'
        BY <1>2, <3>2 DEF Ending
      <3>4. QED BY <3>3 DEF StreamFollows
    <2>2. CASE ~(Len(stream.queue) < QueueMax)
      BY <1>2, <1>4, <2>2 DEF Ended, StreamType, StreamFollows
    <2>3. QED BY <2>1, <2>2
  <1>5. CASE RelayDelivers
    <2>1. CASE stream.attached
      <3>1. stream'.attached
        BY <1>2, <1>5, <2>1 DEF RelayDelivers, StreamType
      <3>2. QED BY <3>1 DEF StreamFollows
    <2>2. CASE ~stream.attached
      BY <1>1, <1>5, <2>2 DEF RelayDelivers, StreamFollows, Ending
    <2>3. QED BY <2>1, <2>2
  <1>6. CASE StreamSends
    <2>1. CASE Head(stream.queue) = "end"
      BY <1>6, <2>1 DEF StreamSends, StreamFollows, Closed
    <2>2. CASE Head(stream.queue) # "end"
      <3>1. /\ stream'.queue = Tail(stream.queue) /\ stream.queue # <<>>
            /\ stream'.attached = stream.attached /\ stream'.lost = stream.lost /\ stream.open
        BY <1>2, <1>6, <2>2 DEF StreamSends, StreamType
      <3>2. ASSUME Ending PROVE Ending'
        <4>1. PICK i \in 1..Len(stream.queue) : stream.queue[i] = "end"
          BY <3>2 DEF Ending
        <4>2. i # 1
          BY <1>2, <2>2, <3>1, <4>1
        <4>3. /\ i - 1 \in 1..Len(Tail(stream.queue)) /\ Tail(stream.queue)[i - 1] = "end"
          BY <1>2, <3>1, <4>1, <4>2
        <4>4. QED BY <3>1, <4>3 DEF Ending
      <3>3. QED BY <1>1, <3>1, <3>2 DEF StreamFollows
    <2>3. QED BY <2>1, <2>2
  <1>7. ASSUME NEW h \in Handlers, HookStep(h) \/ \E c \in Convs : HookStarts(h, c)
        PROVE  stream' = stream \/ stream' = Ended
    BY <1>7 DEF HookStep, HookStarts, HookQueries, HookFinds, HookPersistsUnpause, HookResumes,
                HookDeletes, HookUnregisters, HookFails, page
  <1>8. ASSUME TurnStarts \/ TurnStep PROVE stream' = stream \/ stream' = Closed
    BY <1>8 DEF TurnStep, Escalation, page, TurnStarts, TurnLooksUp, TurnFindsOwner,
        TurnReadsPause, TurnHeedsPause, TurnLoadsSession, TurnSavesHistory, TurnForwards,
        TurnRunsBot, TurnBotEnds, TurnDecides, TurnLoadsReply, TurnReplies,
        EscalationPersistsPause, EscalationOpens, EscalationRegisters, EscalationRegistered,
        TurnFails
  <1>9. ASSUME \/ UNCHANGED vars \/ StreamOpens \/ Restart \/ RelayQueries \/ RelayFinds
               \/ \E c \in Convs : AgentResolves(c) \/ RelayStarts(c)
        PROVE  stream' = stream \/ stream' = Closed \/ stream' = Attached
    BY <1>9 DEF vars, page, StreamOpens, Restart, RelayQueries, RelayFinds, AgentResolves, RelayStarts
  <1>10. QED
    BY <1>1, <1>3, <1>4, <1>5, <1>6, <1>7, <1>8, <1>9 DEF Next, RelayStep

-----------------------------------------------------------------------------
(* The theorems.                                                           *)

LEMMA HandoffInvariant == Spec => []IInv
  <1>1. Init => IInv
    BY TypeInit, OwnershipInit DEF IInv, Init, StreamFollows, Closed
  <1>2. IInv /\ [Next]_vars => IInv'
    <2>1. TypeOK <=> Typed
      BY TypedIsTypeOK
    <2>2. TypeOK' <=> Typed'
      BY <2>1, PTL
    <2>3. QED BY <2>1, <2>2, TypeStep, OwnershipStep, StreamStep DEF IInv
  <1>3. QED BY <1>1, <1>2, PTL DEF Spec

(* Every variable keeps its type, for any number of handlers,              *)
(* conversations, messages and faults.                                     *)
THEOREM HandoffTypeCorrect == Spec => []TypeOK
  <1>1. IInv => TypeOK
    BY DEF IInv
  <1>2. QED BY <1>1, HandoffInvariant, PTL

(* A silenced session belongs to somebody: to an agent who can resolve its *)
(* conversation, or to a turn that is handing over; unless a hand-off or   *)
(* a hand-back was cut short (_escalate_handoff, chatwoot_webhook).        *)
THEOREM PausedIsOwned == Spec => []PausedHasAnOwner
  <1>1. IInv => PausedHasAnOwner
    BY DEF IInv, Ownership
  <1>2. QED BY <1>1, HandoffInvariant, PTL

(* A message sent while a human owns the session never reaches the bot     *)
(* (handle_turn asks the bridge first).                                    *)
THEOREM HumanOwnsHisTurns == Spec => []HumanOwnsTheTurn
  <1>1. IInv => HumanOwnsTheTurn
    BY DEF IInv, Ownership, OwnedIsMapped, HumanOwnsTheTurn, BotPath, Escalating
  <1>2. QED BY <1>1, HandoffInvariant, PTL

(* A page never waits on a stream that was dropped without an end, except  *)
(* for an end that did not fit; for any size of the queue (unregister).    *)
THEOREM StreamsFollow == Spec => []StreamFollows
  <1>1. IInv => StreamFollows
    BY DEF IInv
  <1>2. QED BY <1>1, HandoffInvariant, PTL
==============================================================================
