------------------------ MODULE CaseEscalationProofs ------------------------
(***************************************************************************)
(* Theorems about CaseEscalation for every number of background tasks,     *)
(* rungs, acts and faults.                                                 *)
(***************************************************************************)
EXTENDS CaseEscalation, FiniteSetTheorems, TLAPS

-----------------------------------------------------------------------------
(* Type correctness. *)

JobType == [kind : Kinds, phase : Phases, count : Nat, base : Attributes,
            tags : SUBSET {"escalate", "replied"}]

SweepType == [phase : {"idle", "judge", "stamp", "send"}, rung : 0..Top, to : BOOLEAN,
              seen : Attributes, base : Attributes]

HistoryType == [sends : [Rungs -> 0..2], unsent : SUBSET Rungs, lost : SUBSET Rungs,
                noted : BOOLEAN, unsaid : BOOLEAN, fanout : Fanouts, late : 0..2,
                opened : Nat]

EventType == [escalate : BOOLEAN, notified : BOOLEAN]

(* A fan-out finds nobody or somebody. *)
LEMMA FoundType == \A whom \in Found : whom \in {"nobody", "somebody"}
  BY EscalationAssumption

(* Nothing yet is well typed. *)
LEMMA BlankType ==
    /\ Blank \in Attributes /\ NoJob \in JobType /\ NoSweep \in SweepType
    /\ NoHistory \in HistoryType
  <1>1. Blank \in Attributes
    BY EscalationAssumption DEF Blank, Attributes, Rungs
  <1>2. NoJob \in JobType
    BY <1>1 DEF NoJob, JobType, Kinds, Phases
  <1>3. NoSweep \in SweepType
    BY <1>1, EscalationAssumption DEF NoSweep, SweepType
  <1>4. NoHistory \in HistoryType
    BY EscalationAssumption DEF NoHistory, HistoryType, Rungs, Fanouts
  <1>5. QED BY <1>1, <1>2, <1>3, <1>4

(* The pieces of a step keep their types. *)
LEMMA PartsType ==
    ASSUME TypeOK
    PROVE  /\ Act => acts' \in 0..MaxActs
           /\ Fault => faults' \in 0..MaxFaults
           /\ \A ok \in BOOLEAN : Outcome(ok) => faults' \in 0..MaxFaults
           /\ \A tags, case : Announce(tags, case) /\ case \in Attributes => events' \subseteq EventType
           /\ \A new \in Attributes : \A arms : Replace(new, arms) =>
                /\ attrs' \in Attributes
                /\ hist' \in HistoryType
                /\ events' \subseteq EventType
  <1>1. /\ Act => acts' \in 0..MaxActs
        /\ Fault => faults' \in 0..MaxFaults
        /\ \A ok \in BOOLEAN : Outcome(ok) => faults' \in 0..MaxFaults
    BY EscalationAssumption DEF TypeOK, Act, Fault, Outcome
  <1>2. ASSUME NEW tags, NEW case \in Attributes, Announce(tags, case)
        PROVE  events' \subseteq EventType
    <2>1. [escalate |-> "escalate" \in tags, notified |-> case.notified] \in EventType
      BY DEF EventType, Attributes
    <2>2. QED BY <1>2, <2>1 DEF Announce, TypeOK, EventType
  <1>3. ASSUME NEW new \in Attributes, NEW arms, Replace(new, arms)
        PROVE  attrs' \in Attributes /\ hist' \in HistoryType /\ events' \subseteq EventType
    <2>1. /\ attrs' = new
          /\ Announce(labels, new)
          /\ hist' = [hist EXCEPT !.lost   = @ \cup (attrs.stamps \ new.stamps),
                                  !.unsaid = @ \/ (attrs.replied /\ ~new.replied),
                                  !.fanout = CASE arms -> "cleared"
                                               [] new.notified /\ @ = "cleared" -> "revived"
                                               [] OTHER -> @]
      BY <1>3 DEF Replace
    <2>2. hist \in HistoryType /\ attrs.stamps \subseteq Rungs
      BY DEF TypeOK, HistoryType, Attributes
    <2>3. hist' \in HistoryType
      <3>1. (CASE arms -> "cleared"
               [] new.notified /\ hist.fanout = "cleared" -> "revived"
               [] OTHER -> hist.fanout) \in Fanouts
        BY <2>2 DEF HistoryType, Fanouts
      <3>2. QED BY <2>1, <2>2, <3>1 DEF HistoryType
    <2>4. QED BY <1>2, <2>1, <2>3
  <1>4. QED BY <1>1, <1>2, <1>3

(* So do the changes of a slot. *)
LEMMA SlotType ==
    ASSUME TypeOK, NEW h \in Slots
    PROVE  /\ \A kind \in Kinds, phase \in Phases :
                Start(h, kind, phase) => job' \in [Slots -> JobType]
           /\ \A phase \in Phases : Goto(h, phase) => job' \in [Slots -> JobType]
           /\ Done(h) => job' \in [Slots -> JobType]
           /\ AfterWrite(h) => job' \in [Slots -> JobType]
           /\ Merged(h) \in Attributes
  <1>1. job \in [Slots -> JobType]
    BY DEF TypeOK, JobType
  <1>2. \A kind \in Kinds, phase \in Phases :
            [NoJob EXCEPT !.kind = kind, !.phase = phase] \in JobType
    BY BlankType DEF JobType, NoJob
  <1>3. \A phase \in Phases : Goto(h, phase) => job' \in [Slots -> JobType]
    BY <1>1 DEF Goto, JobType
  <1>4. Done(h) => job' \in [Slots -> JobType]
    BY <1>1, BlankType DEF Done
  <1>5. [NoJob EXCEPT !.kind = "dealer", !.phase = "labels"] \in JobType
    BY BlankType DEF JobType, NoJob, Kinds, Arriving, Phases
  <1>6. Merged(h) \in Attributes
    <2>1. job[h].base \in Attributes /\ job[h].count \in Nat
      BY <1>1 DEF JobType
    <2>2. QED BY <2>1 DEF Merged, Attributes
  <1>7. AfterWrite(h) => job' \in [Slots -> JobType]
    BY <1>1, <1>4, <1>5 DEF AfterWrite
  <1>8. QED BY <1>1, <1>2, <1>3, <1>4, <1>6, <1>7 DEF Start

(* A webhook or an arrival that becomes a task keeps the types.            *)
LEMMA StartType ==
    ASSUME TypeOK, NEW h \in Slots,
           \/ \E e \in events : MaybeEscalate(h, e)
           \/ RecordStatus(h)
           \/ \E kind \in Arriving : Arrives(h, kind)
    PROVE  TypeOK'
  <1>1. {"notify", "rearm", "reopen"} \cup Arriving \subseteq Kinds
    BY DEF Kinds
  <1>2. {"read", "get"} \subseteq Phases
    BY DEF Phases
  <1>3. ASSUME NEW e \in events, MaybeEscalate(h, e) PROVE TypeOK'
    <2>1. job' \in [Slots -> JobType]
      BY <1>1, <1>2, <1>3, SlotType DEF MaybeEscalate, TypeOK, JobType
    <2>2. QED BY <1>3, <2>1 DEF MaybeEscalate, TypeOK, JobType
  <1>4. CASE RecordStatus(h)
    <2>1. job' \in [Slots -> JobType]
      BY <1>1, <1>2, <1>4, SlotType DEF RecordStatus
    <2>2. QED BY <1>4, <2>1 DEF RecordStatus, TypeOK, JobType
  <1>5. ASSUME NEW kind \in Arriving, Arrives(h, kind) PROVE TypeOK'
    <2>1. job' \in [Slots -> JobType]
      BY <1>1, <1>2, <1>5, SlotType DEF Arrives
    <2>2. QED BY <1>5, <2>1, PartsType DEF Arrives, TypeOK, JobType
  <1>6. QED BY <1>3, <1>4, <1>5

(* What a task does keeps the types. *)
LEMMA TaskStepType ==
    ASSUME TypeOK, NEW h \in Slots, TaskStep(h)
    PROVE  TypeOK'
  <1>1. job \in [Slots -> JobType] /\ hist \in HistoryType
    BY DEF TypeOK, JobType, HistoryType
  <1>2. {"send", "get", "note", "open", "post", "labels", "union"} \subseteq Phases
    BY DEF Phases
  <1>3. ASSUME NEW ok \in BOOLEAN, ReadCase(h, ok) PROVE TypeOK'
    <2>1. attrs.count + 1 \in Nat /\ AfterRead(job[h].kind) \in Phases
      BY <1>2 DEF TypeOK, Attributes, AfterRead
    <2>2. job' \in [Slots -> JobType]
      BY <1>1, <1>3, <2>1, SlotType DEF ReadCase, JobType
    <2>3. QED BY <1>3, <2>2, PartsType DEF ReadCase, TypeOK, JobType
  <1>4. ASSUME NEW whom \in Found, NEW out \in Outcomes, Notify(h, whom, out) PROVE TypeOK'
    <2>1. job' \in [Slots -> JobType]
      BY <1>2, <1>4, SlotType DEF Notify
    <2>2. hist' \in HistoryType
      <3>1. Reached(hist.fanout, whom) \in Fanouts
        BY <1>1, FoundType DEF HistoryType, Fanouts, Reached
      <3>2. QED BY <1>1, <1>4, <3>1 DEF Notify, HistoryType
    <2>3. faults' \in 0..MaxFaults
      BY <1>4, PartsType DEF Notify, Outcome
    <2>4. QED BY <1>4, <2>1, <2>2, <2>3 DEF Notify, TypeOK, JobType, HistoryType
  <1>5. ASSUME NEW ok \in BOOLEAN, PostNote(h, ok) PROVE TypeOK'
    <2>1. job' \in [Slots -> JobType]
      BY <1>2, <1>5, SlotType DEF PostNote
    <2>2. hist' \in HistoryType
      BY <1>1, <1>5 DEF PostNote, HistoryType
    <2>3. QED BY <1>5, <2>1, <2>2, PartsType DEF PostNote, TypeOK, JobType, HistoryType
  <1>6. ASSUME NEW ok \in BOOLEAN, OpenCase(h, ok) PROVE TypeOK'
    <2>1. job' \in [Slots -> JobType]
      BY <1>6, SlotType DEF OpenCase
    <2>2. /\ hist' \in HistoryType /\ status' \in {"open", "resolved"}
          /\ reopens' \in Nat /\ events' \subseteq EventType
      <3>1. CASE ok
        BY <1>1, <1>6, <3>1, PartsType DEF OpenCase, Opened, HistoryType, TypeOK
      <3>2. CASE ~ok
        BY <1>1, <1>6, <3>2 DEF OpenCase, TypeOK, EventType
      <3>3. QED BY <3>1, <3>2
    <2>3. QED BY <1>6, <2>1, <2>2, PartsType DEF OpenCase, TypeOK, JobType, HistoryType, EventType
  <1>7. ASSUME NEW ok \in BOOLEAN, GetAttributes(h, ok) PROVE TypeOK'
    <2>1. job' \in [Slots -> JobType]
      BY <1>1, <1>2, <1>7, SlotType DEF GetAttributes, JobType, TypeOK
    <2>2. QED BY <1>7, <2>1, PartsType DEF GetAttributes, TypeOK, JobType
  <1>8. ASSUME NEW ok \in BOOLEAN, PostAttributes(h, ok) PROVE TypeOK'
    <2>1. job' \in [Slots -> JobType]
      BY <1>8, SlotType DEF PostAttributes
    <2>2. attrs' \in Attributes /\ hist' \in HistoryType /\ events' \subseteq EventType
      BY <1>1, <1>8, SlotType, PartsType DEF PostAttributes, TypeOK, EventType
    <2>3. QED BY <1>8, <2>1, <2>2, PartsType DEF PostAttributes, TypeOK, JobType, HistoryType, EventType
  <1>9. ASSUME NEW ok \in BOOLEAN, GetLabels(h, ok) PROVE TypeOK'
    <2>1. [job[h] EXCEPT !.phase = "union", !.tags = IF ok THEN labels ELSE {}] \in JobType
      BY ZenonT(60), <1>1, <1>2 DEF JobType, TypeOK
    <2>2. job' = [job EXCEPT ![h] = [job[h] EXCEPT !.phase = "union",
                                                   !.tags = IF ok THEN labels ELSE {}]]
      BY <1>9 DEF GetLabels
    <2>3. job' \in [Slots -> JobType]
      BY <1>1, <2>1, <2>2
    <2>4. QED BY <1>9, <2>3, PartsType DEF GetLabels, TypeOK, JobType
  <1>10. ASSUME NEW ok \in BOOLEAN, PostLabels(h, ok) PROVE TypeOK'
    <2>1. job' \in [Slots -> JobType]
      BY <1>10, SlotType DEF PostLabels
    <2>2. labels' \subseteq {"escalate", "replied"} /\ events' \subseteq EventType
      BY <1>1, <1>10, PartsType DEF PostLabels, TypeOK, JobType, EventType
    <2>3. QED BY <1>10, <2>1, <2>2, PartsType DEF PostLabels, TypeOK, JobType, EventType
  <1>11. QED BY <1>3, <1>4, <1>5, <1>6, <1>7, <1>8, <1>9, <1>10 DEF TaskStep

(* What the ladder does keeps the types. *)
LEMMA SweepStepType ==
    ASSUME TypeOK, SweepStep
    PROVE  TypeOK'
  <1>1. hist \in HistoryType /\ sweep \in SweepType /\ attrs \in Attributes
    BY DEF TypeOK, SweepType, HistoryType
  <1>2. Rungs \subseteq 0..Top
    BY EscalationAssumption DEF Rungs
  <1>3. \A n \in Rungs, to \in BOOLEAN : AfterStamp(n, to) \in SweepType
    BY <1>1, <1>2, BlankType DEF AfterStamp, SweepType
  <1>4. CASE ListCases
    BY <1>1, <1>4 DEF ListCases, TypeOK, SweepType
  <1>5. CASE SkipCase
    BY <1>5, BlankType DEF SkipCase, TypeOK, SweepType, NoSweep
  <1>6. ASSUME NEW n \in Rungs, NEW to \in BOOLEAN, NEW ok \in BOOLEAN, ReadForStamp(n, to, ok)
        PROVE  TypeOK'
    <2>1. sweep' \in SweepType
      BY <1>1, <1>2, <1>3, <1>6, BlankType DEF ReadForStamp, SweepType
    <2>2. hist' \in HistoryType
      BY <1>1, <1>6 DEF ReadForStamp, HistoryType
    <2>3. sweep'.phase \in {"stamp", "send"} => sweep'.rung \in Rungs
      BY <1>1, <1>6 DEF ReadForStamp, AfterStamp, NoSweep, SweepType
    <2>4. QED BY <1>6, <2>1, <2>2, <2>3, PartsType DEF ReadForStamp, TypeOK, SweepType, HistoryType
  <1>7. ASSUME NEW ok \in BOOLEAN, StampRung(ok), sweep.rung \in Rungs PROVE TypeOK'
    <2>1. sweep' \in SweepType
      BY <1>1, <1>3, <1>7 DEF StampRung, SweepType
    <2>2. [sweep.base EXCEPT !.stamps = @ \cup {sweep.rung}, !.counter = sweep.rung] \in Attributes
      BY <1>1, <1>2, <1>7 DEF SweepType, Attributes
    <2>3. attrs' \in Attributes /\ hist' \in HistoryType /\ events' \subseteq EventType
      <3>1. CASE ok
        BY <1>7, <2>2, <3>1, PartsType DEF StampRung
      <3>2. CASE ~ok
        BY <1>1, <1>7, <3>2 DEF StampRung, HistoryType, TypeOK, EventType
      <3>3. QED BY <3>1, <3>2
    <2>4. sweep'.phase \in {"stamp", "send"} => sweep'.rung \in Rungs
      BY <1>1, <1>7 DEF StampRung, AfterStamp, NoSweep, SweepType
    <2>5. QED BY <1>7, <2>1, <2>3, <2>4, PartsType DEF StampRung, TypeOK, SweepType, HistoryType, EventType
  <1>8. ASSUME NEW ok \in BOOLEAN, SendRung(ok), sweep.rung \in Rungs PROVE TypeOK'
    <2>1. \A n \in 0..2 : AtMost2(n + 1) \in 0..2
      BY DEF AtMost2
    <2>2. hist.sends[sweep.rung] \in 0..2 /\ hist.late \in 0..2
      BY <1>1, <1>8 DEF HistoryType
    <2>3. hist' \in HistoryType
      BY <1>1, <1>8, <2>1, <2>2 DEF SendRung, Unsent, HistoryType
    <2>4. QED BY <1>8, <2>3, BlankType, PartsType DEF SendRung, TypeOK, SweepType, HistoryType, NoSweep
  <1>9. QED BY <1>4, <1>5, <1>6, <1>7, <1>8 DEF SweepStep, StampRung, SendRung, TypeOK

(* What agents do in Chatwoot keeps the types. *)
LEMMA AgentStepType ==
    ASSUME TypeOK, AgentStep
    PROVE  TypeOK'
  <1>1. attrs \in Attributes /\ hist \in HistoryType
    BY DEF TypeOK, HistoryType
  <1>2. CASE AgentEscalates
    BY <1>1, <1>2, PartsType DEF AgentEscalates, TypeOK, EventType
  <1>3. CASE AgentWithdraws
    BY <1>1, <1>3, PartsType DEF AgentWithdraws, TypeOK, EventType
  <1>4. CASE AgentAcknowledges
    <2>1. attrs' \in Attributes
      BY <1>1, <1>4 DEF AgentAcknowledges, Attributes
    <2>2. QED BY <1>4, <2>1, PartsType DEF AgentAcknowledges, TypeOK, EventType
  <1>5. CASE AgentResolves
    BY <1>1, <1>5, PartsType DEF AgentResolves, TypeOK, EventType
  <1>6. CASE AgentReopens
    <2>1. hist' \in HistoryType
      BY <1>1, <1>6 DEF AgentReopens, Opened, HistoryType
    <2>2. QED BY <1>1, <1>6, <2>1, PartsType
              DEF AgentReopens, Opened, TypeOK, EventType, HistoryType
  <1>7. CASE AgentEdits
    BY <1>1, <1>7, PartsType DEF AgentEdits, TypeOK, EventType
  <1>8. QED BY <1>2, <1>3, <1>4, <1>5, <1>6, <1>7 DEF AgentStep

(* Every variable keeps its type. *)
THEOREM TypeCorrect == Spec => []TypeOK
  <1>1. Init => TypeOK
    BY BlankType, EscalationAssumption
       DEF Init, TypeOK, JobType, SweepType, HistoryType, NoSweep
  <1>2. ASSUME TypeOK, [Next]_vars PROVE TypeOK'
    <2> USE <1>2
    <2>1. ASSUME NEW h \in Slots, \/ \E e \in events : MaybeEscalate(h, e)
                                  \/ RecordStatus(h)
                                  \/ \E kind \in Arriving : Arrives(h, kind)
          PROVE  TypeOK'
      BY <2>1, StartType
    <2>2. ASSUME NEW h \in Slots, TaskStep(h) PROVE TypeOK'
      BY <2>2, TaskStepType
    <2>3. CASE SweepStep
      BY <2>3, SweepStepType
    <2>4. CASE AgentStep
      BY <2>4, AgentStepType
    <2>5. CASE AgentServiceRestarts
      <3>1. job' \in [Slots -> JobType]
        BY <2>5, BlankType DEF AgentServiceRestarts
      <3>2. QED BY <2>5, <3>1, PartsType DEF AgentServiceRestarts, TypeOK, JobType
    <2>6. CASE BackendRestarts
      <3>1. hist' \in HistoryType
        BY <2>6 DEF BackendRestarts, Unsent, TypeOK, HistoryType
      <3>2. QED BY <2>6, <3>1, BlankType, PartsType
                DEF BackendRestarts, TypeOK, SweepType, HistoryType, NoSweep
    <2>7. CASE UNCHANGED vars
      BY <2>7 DEF vars, TypeOK
    <2>8. QED BY <2>1, <2>2, <2>3, <2>4, <2>5, <2>6, <2>7 DEF Next
  <1>3. QED BY <1>1, <1>2, PTL DEF Spec

-----------------------------------------------------------------------------
(* What everybody but the sweep leaves alone, what a write of theirs costs *)
(* the sweep, and what a restart does.                                     *)

Aside ==
    /\ \/ sweep' = sweep /\ hist'.unsent = hist.unsent
       \/ /\ sweep' = NoSweep
          /\ hist'.unsent = IF sweep.phase = "send" THEN hist.unsent \cup {sweep.rung} ELSE hist.unsent
    /\ hist'.sends = hist.sends /\ hist'.late = hist.late
    /\ hist.lost \subseteq hist'.lost
    /\ attrs.stamps \subseteq attrs'.stamps \cup hist'.lost
    /\ hist.unsaid => hist'.unsaid
    /\ attrs.replied => attrs'.replied \/ hist'.unsaid
    /\ hist.noted => hist'.noted
    /\ hist.fanout # "none" => hist'.fanout # "none"

Others ==
    \/ \E h \in Slots : \/ \E e \in events : MaybeEscalate(h, e)
                        \/ RecordStatus(h)
                        \/ \E kind \in Arriving : Arrives(h, kind)
                        \/ TaskStep(h)
    \/ AgentStep
    \/ AgentServiceRestarts \/ BackendRestarts
    \/ UNCHANGED vars

LEMMA OthersAside ==
    ASSUME TypeOK, Others
    PROVE  Aside
  <1>1. hist \in HistoryType
    BY DEF TypeOK, HistoryType
  <1>2. \A new, arms : Replace(new, arms) /\ sweep' = sweep => Aside
    <2>1. ASSUME NEW new, NEW arms, Replace(new, arms), sweep' = sweep PROVE Aside
      <3>1. /\ hist'.unsent = hist.unsent /\ hist'.sends = hist.sends /\ hist'.late = hist.late
            /\ hist'.noted = hist.noted /\ attrs' = new
            /\ hist'.lost = hist.lost \cup (attrs.stamps \ new.stamps)
            /\ hist'.unsaid = (hist.unsaid \/ (attrs.replied /\ ~new.replied))
            /\ hist'.fanout \in {"cleared", "revived", hist.fanout}
        BY <1>1, <2>1 DEF Replace, HistoryType
      <3>2. QED BY <2>1, <3>1 DEF Aside
    <2>2. QED BY <2>1
  <1>3. ASSUME UNCHANGED <<attrs, sweep>>,
               \/ hist' = hist
               \/ \E b \in BOOLEAN : (hist.noted => b) /\ hist' = [hist EXCEPT !.noted = b]
               \/ \E f \in Fanouts : (hist.fanout # "none" => f # "none")
                                        /\ hist' = [hist EXCEPT !.fanout = f]
               \/ \E k \in Nat : hist' = [hist EXCEPT !.opened = k]
        PROVE  Aside
    BY <1>1, <1>3 DEF Aside, HistoryType
  <1>4. Opened => \E k \in Nat : hist' = [hist EXCEPT !.opened = k]
    <2>1. hist.opened \in Nat /\ hist.opened + 1 \in Nat
      BY <1>1 DEF HistoryType
    <2>2. QED BY <2>1 DEF Opened
  <1>5. ASSUME NEW h \in Slots, TaskStep(h) PROVE Aside
    <2>1. ASSUME NEW ok \in BOOLEAN, PostNote(h, ok) PROVE Aside
      <3>1. (hist.noted \/ (ok /\ job[h].kind = "dealer")) \in BOOLEAN
        BY <1>1 DEF HistoryType
      <3>2. QED BY <1>3, <2>1, <3>1 DEF PostNote
    <2>2. ASSUME NEW whom \in Found, NEW out \in Outcomes, Notify(h, whom, out) PROVE Aside
      <3>1. /\ Reached(hist.fanout, whom) \in Fanouts
            /\ hist.fanout # "none" => Reached(hist.fanout, whom) # "none"
        BY <1>1, FoundType DEF HistoryType, Fanouts, Reached
      <3>2. QED BY <1>3, <2>2, <3>1 DEF Notify
    <2>3. ASSUME NEW ok \in BOOLEAN, ReadCase(h, ok) \/ GetAttributes(h, ok) PROVE Aside
      BY <1>3, <2>3 DEF ReadCase, GetAttributes
    <2>4. ASSUME NEW ok \in BOOLEAN, GetLabels(h, ok) \/ PostLabels(h, ok) PROVE Aside
      BY <1>3, <2>4 DEF GetLabels, PostLabels
    <2>5. ASSUME NEW ok \in BOOLEAN, OpenCase(h, ok) PROVE Aside
      BY <1>3, <1>4, <2>5 DEF OpenCase
    <2>6. ASSUME NEW ok \in BOOLEAN, PostAttributes(h, ok) PROVE Aside
      BY <1>2, <1>3, <2>6 DEF PostAttributes
    <2>7. QED BY <1>5, <2>1, <2>2, <2>3, <2>4, <2>5, <2>6 DEF TaskStep
  <1>6. CASE AgentStep
    <2>1. CASE AgentAcknowledges
      BY <1>1, <2>1 DEF AgentAcknowledges, Aside, TypeOK, Attributes
    <2>2. CASE AgentReopens
      BY <1>3, <1>4, <2>2 DEF AgentReopens
    <2>3. CASE AgentEscalates \/ AgentWithdraws \/ AgentResolves \/ AgentEdits
      BY <1>3, <2>3 DEF AgentEscalates, AgentWithdraws, AgentResolves, AgentEdits
    <2>4. QED BY <1>6, <2>1, <2>2, <2>3 DEF AgentStep
  <1>7. ASSUME NEW h \in Slots, \/ \E e \in events : MaybeEscalate(h, e)
                                \/ RecordStatus(h)
                                \/ \E kind \in Arriving : Arrives(h, kind)
        PROVE  Aside
    BY <1>3, <1>7 DEF MaybeEscalate, RecordStatus, Arrives
  <1>8. CASE BackendRestarts
    BY <1>1, <1>8 DEF BackendRestarts, Unsent, Aside, HistoryType
  <1>9. CASE AgentServiceRestarts \/ UNCHANGED vars
    BY <1>3, <1>9 DEF AgentServiceRestarts, vars
  <1>10. QED BY <1>5, <1>6, <1>7, <1>8, <1>9 DEF Others

(* A step is the sweep's or somebody else's. *)
LEMMA StepCases == [Next]_vars => SweepStep \/ Others
  BY DEF Next, Others

-----------------------------------------------------------------------------
(* Reminders: a rung that was sent and whose stamp still stands is on the  *)
(* case, and so in the listing of every sweep that could send it again.    *)

OnceInv ==
    /\ \A n \in Rungs : hist.sends[n] >= 1 => n \in hist.lost \cup attrs.stamps
    /\ sweep.phase = "judge" =>
         \A n \in Rungs : hist.sends[n] >= 1 => n \in hist.lost \cup sweep.seen.stamps
    /\ sweep.phase \in {"stamp", "send"} =>
         sweep.rung \in hist.lost \/ hist.sends[sweep.rung] = 0
    /\ sweep.phase = "send" => sweep.rung \in hist.lost \cup attrs.stamps
    /\ RemindedOnceWhileStamped

LEMMA OnceStep ==
    ASSUME TypeOK, OnceInv, [Next]_vars
    PROVE  OnceInv'
  <1>1. /\ hist \in HistoryType /\ sweep \in SweepType
        /\ \A n \in Rungs : hist.sends[n] \in 0..2
    BY DEF TypeOK, HistoryType, SweepType
  <1>2. CASE Others
    <2>1. Aside
      BY <1>2, OthersAside
    <2>2. CASE sweep' = sweep
      BY <1>1, <2>1, <2>2 DEF Aside, OnceInv, RemindedOnceWhileStamped
    <2>3. CASE sweep' = NoSweep
      BY <1>1, <2>1, <2>3 DEF Aside, OnceInv, RemindedOnceWhileStamped, NoSweep
    <2>4. QED BY <2>1, <2>2, <2>3 DEF Aside
  <1>3. CASE ListCases
    <2>1. sweep'.phase = "judge" /\ sweep'.seen = attrs
      BY <1>1, <1>3 DEF ListCases, SweepType
    <2>2. QED BY <1>3, <2>1 DEF ListCases, OnceInv, RemindedOnceWhileStamped
  <1>4. CASE SkipCase
    BY <1>4 DEF SkipCase, OnceInv, RemindedOnceWhileStamped, NoSweep
  <1>5. ASSUME NEW n \in Rungs, NEW to \in BOOLEAN, NEW ok \in BOOLEAN, ReadForStamp(n, to, ok)
        PROVE  OnceInv'
    <2>1. hist'.sends = hist.sends /\ hist'.lost = (IF ok THEN hist.lost ELSE hist.lost \cup {n})
      BY <1>1, <1>5 DEF ReadForStamp, HistoryType
    <2>2. n \in hist.lost \/ hist.sends[n] = 0
      BY <1>1, <1>5 DEF ReadForStamp, OnceInv
    <2>3. \/ sweep' = NoSweep
          \/ sweep'.rung = n /\ sweep'.phase = (IF ok THEN "stamp" ELSE "send")
      BY <1>1, <1>5 DEF ReadForStamp, AfterStamp, SweepType, NoSweep
    <2>4. attrs' = attrs
      BY <1>5 DEF ReadForStamp
    <2>5. CASE sweep' = NoSweep
      BY <2>1, <2>4, <2>5 DEF OnceInv, RemindedOnceWhileStamped, NoSweep
    <2>6. CASE sweep'.rung = n /\ sweep'.phase = (IF ok THEN "stamp" ELSE "send")
      BY <2>1, <2>2, <2>4, <2>6 DEF OnceInv, RemindedOnceWhileStamped
    <2>7. QED BY <2>3, <2>5, <2>6
  <1>6. ASSUME NEW ok \in BOOLEAN, StampRung(ok) PROVE OnceInv'
    <2>1. sweep.phase = "stamp" /\ sweep.rung \in Rungs
      BY <1>6 DEF StampRung, TypeOK
    <2>2. /\ hist'.sends = hist.sends /\ hist.lost \subseteq hist'.lost
          /\ attrs.stamps \subseteq attrs'.stamps \cup hist'.lost
          /\ sweep.rung \in hist'.lost \cup attrs'.stamps
      <3>1. CASE ok
        <4>1. Replace([sweep.base EXCEPT !.stamps = @ \cup {sweep.rung}, !.counter = sweep.rung], FALSE)
          BY <1>6, <3>1 DEF StampRung
        <4>2. sweep.base \in Attributes
          BY <1>1 DEF SweepType
        <4>3. QED BY <1>1, <4>1, <4>2 DEF Replace, HistoryType, Attributes
      <3>2. CASE ~ok
        BY <1>1, <1>6, <3>2 DEF StampRung, HistoryType
      <3>3. QED BY <3>1, <3>2
    <2>3. \/ sweep' = NoSweep
          \/ sweep'.rung = sweep.rung /\ sweep'.phase = "send"
      BY <1>1, <1>6 DEF StampRung, AfterStamp, SweepType, NoSweep
    <2>4. CASE sweep' = NoSweep
      BY <2>2, <2>4 DEF OnceInv, RemindedOnceWhileStamped, NoSweep
    <2>5. CASE sweep'.rung = sweep.rung /\ sweep'.phase = "send"
      BY <2>1, <2>2, <2>5 DEF OnceInv, RemindedOnceWhileStamped
    <2>6. QED BY <2>3, <2>4, <2>5
  <1>7. ASSUME NEW ok \in BOOLEAN, SendRung(ok) PROVE OnceInv'
    <2>1. sweep.phase = "send" /\ sweep.rung \in Rungs /\ sweep' = NoSweep /\ attrs' = attrs
      BY <1>7 DEF SendRung, TypeOK
    <2>2. /\ hist'.lost = hist.lost
          /\ \A n \in Rungs : hist'.sends[n] = IF ok /\ n = sweep.rung
                                               THEN AtMost2(hist.sends[n] + 1) ELSE hist.sends[n]
      BY <1>1, <1>7, <2>1 DEF SendRung, Unsent, HistoryType
    <2>3. sweep.rung \in hist.lost \/ (hist.sends[sweep.rung] = 0 /\ sweep.rung \in attrs.stamps)
      BY <2>1 DEF OnceInv
    <2>4. AtMost2(0 + 1) = 1
      BY DEF AtMost2
    <2>5. QED BY <1>1, <2>1, <2>2, <2>3, <2>4 DEF OnceInv, RemindedOnceWhileStamped, NoSweep
  <1>8. QED BY <1>2, <1>3, <1>4, <1>5, <1>6, <1>7, StepCases DEF SweepStep

(* A dealer gets each reminder once, through every interleaving and        *)
(* restart, as long as its stamp is neither unwritten nor overwritten.     *)
THEOREM RemindsOnceWhileStamped == Spec => []RemindedOnceWhileStamped
  <1>1. Init => OnceInv
    BY DEF Init, OnceInv, RemindedOnceWhileStamped, NoHistory, NoSweep, Blank
  <1>2. OnceInv => RemindedOnceWhileStamped
    BY DEF OnceInv
  <1>3. QED BY <1>1, <1>2, OnceStep, TypeCorrect, PTL DEF Spec

-----------------------------------------------------------------------------
(* Silence after the reply: a sweep that lists the case with the reply's   *)
(* stamp does not take it up.                                              *)

QuietInv ==
    /\ hist.late >= 1 => hist.unsaid \/ attrs.replied
    /\ hist.late >= 1 /\ sweep.phase # "idle" => hist.unsaid
    /\ QuietAfterReply

LEMMA QuietStep ==
    ASSUME TypeOK, QuietInv, [Next]_vars
    PROVE  QuietInv'
  <1>1. /\ hist \in HistoryType /\ sweep \in SweepType /\ attrs \in Attributes
        /\ hist.late \in 0..2
    BY DEF TypeOK, HistoryType, SweepType
  <1>2. CASE Others
    <2>1. Aside
      BY <1>2, OthersAside
    <2>2. QED BY <1>1, <2>1 DEF Aside, QuietInv, QuietAfterReply, NoSweep
  <1>3. CASE ListCases
    BY <1>1, <1>3 DEF ListCases, Candidate, QuietInv, QuietAfterReply
  <1>4. CASE SkipCase
    BY <1>4 DEF SkipCase, QuietInv, QuietAfterReply, NoSweep
  <1>5. ASSUME NEW n \in Rungs, NEW to \in BOOLEAN, NEW ok \in BOOLEAN, ReadForStamp(n, to, ok)
        PROVE  QuietInv'
    <2>1. hist'.late = hist.late /\ hist'.unsaid = hist.unsaid /\ attrs' = attrs
      BY <1>1, <1>5 DEF ReadForStamp, HistoryType
    <2>2. sweep.phase = "judge"
      BY <1>5 DEF ReadForStamp
    <2>3. QED BY <2>1, <2>2 DEF QuietInv, QuietAfterReply
  <1>6. ASSUME NEW ok \in BOOLEAN, StampRung(ok) PROVE QuietInv'
    <2>1. /\ hist'.late = hist.late /\ (hist.unsaid => hist'.unsaid)
          /\ attrs.replied => attrs'.replied \/ hist'.unsaid
      <3>1. CASE ok
        <4>1. Replace([sweep.base EXCEPT !.stamps = @ \cup {sweep.rung}, !.counter = sweep.rung], FALSE)
          BY <1>6, <3>1 DEF StampRung
        <4>2. /\ hist'.late = hist.late
              /\ hist'.unsaid = (hist.unsaid \/ (attrs.replied /\ ~attrs'.replied))
          BY <1>1, <4>1 DEF Replace, HistoryType
        <4>3. QED BY <4>2
      <3>2. CASE ~ok
        BY <1>1, <1>6, <3>2 DEF StampRung, HistoryType
      <3>3. QED BY <3>1, <3>2
    <2>2. sweep.phase = "stamp"
      BY <1>6 DEF StampRung
    <2>3. QED BY <2>1, <2>2 DEF QuietInv, QuietAfterReply
  <1>7. ASSUME NEW ok \in BOOLEAN, SendRung(ok) PROVE QuietInv'
    <2>1. sweep.phase = "send" /\ sweep' = NoSweep /\ attrs' = attrs
      BY <1>7 DEF SendRung
    <2>2. /\ hist'.unsaid = hist.unsaid
          /\ hist'.late = IF ok /\ attrs.replied THEN AtMost2(hist.late + 1) ELSE hist.late
      BY <1>1, <1>7 DEF SendRung, Unsent, HistoryType
    <2>3. hist.late = 0 \/ hist.unsaid
      BY <1>1, <2>1 DEF QuietInv
    <2>4. AtMost2(0 + 1) = 1
      BY DEF AtMost2
    <2>5. QED BY <1>1, <2>1, <2>2, <2>3, <2>4 DEF QuietInv, QuietAfterReply, NoSweep
  <1>8. QED BY <1>2, <1>3, <1>4, <1>5, <1>6, <1>7, StepCases DEF SweepStep

(* After the dealer's reply is stamped at most the one reminder about to   *)
(* be sent still goes out, unless the stamp is dropped again.              *)
THEOREM QuietAfterTheReply == Spec => []QuietAfterReply
  <1>1. Init => QuietInv
    BY DEF Init, QuietInv, QuietAfterReply, NoHistory, NoSweep
  <1>2. QuietInv => QuietAfterReply
    BY DEF QuietInv
  <1>3. QED BY <1>1, <1>2, QuietStep, TypeCorrect, PTL DEF Spec

-----------------------------------------------------------------------------
(* Where the stamps come from: every copy of the attributes, on the case   *)
(* or in the hands of a writer, holds only stamps that were earned.  A     *)
(* rung's is earned by a reminder, by finding nobody to remind, or by a    *)
(* reminder that got lost or is about to be sent.                          *)

Settled == {m \in Rungs : hist.sends[m] > 0} \cup hist.unsent
Sending == IF sweep.phase = "send" THEN {sweep.rung} ELSE {}

Earned(r) ==
    /\ \A n \in r.stamps \cup {r.counter} : n = 0 \/ n \in Settled \cup Sending
    /\ r.replied \/ r.updated => hist.noted
    /\ r.notified => hist.fanout # "none"

(* The rungs are settled from below, the one at hand last. *)
Climbing ==
    /\ \A n \in Settled, m \in Rungs : m < n => m \in Settled
    /\ sweep.phase \in {"stamp", "send"} => \A m \in Rungs : m < sweep.rung => m \in Settled
    /\ sweep.phase = "stamp" /\ ~sweep.to => sweep.rung \in hist.unsent

(* A task about to write a stamp of its own has earned it. *)
Entitled(h) ==
    job[h].phase \in {"get", "post"} =>
       /\ job[h].kind \in {"dealer", "message"} => hist.noted
       /\ job[h].kind = "notify" => hist.fanout # "none"

OriginInv ==
    /\ Earned(attrs) /\ Earned(sweep.seen) /\ Earned(sweep.base)
    /\ \A h \in Slots : Earned(job[h].base) /\ Entitled(h)
    /\ Climbing

(* What the history may do. *)
Grows == /\ Settled \cup Sending \subseteq (Settled \cup Sending)'
         /\ hist.noted => hist'.noted
         /\ hist.fanout # "none" => hist'.fanout # "none"

(* Earned after the step. *)
Still(r) ==
    /\ \A n \in r.stamps \cup {r.counter} : n = 0 \/ n \in (Settled \cup Sending)'
    /\ r.replied \/ r.updated => hist'.noted
    /\ r.notified => hist'.fanout # "none"

LEMMA EarnedGrows ==
    ASSUME Grows, OriginInv
    PROVE  /\ Still(attrs) /\ Still(sweep.seen) /\ Still(sweep.base) /\ Still(Blank)
           /\ \A h \in Slots : Still(job[h].base)
  BY DEF Grows, OriginInv, Earned, Still, Blank

(* The parts of the invariant after a step, from what the step has copied. *)
LEMMA EarnedAfter ==
    /\ Still(attrs') => Earned(attrs)'
    /\ Still(sweep'.seen) => Earned(sweep.seen)'
    /\ Still(sweep'.base) => Earned(sweep.base)'
    /\ \A h \in Slots : Still(job'[h].base) => Earned(job[h].base)'
  BY DEF Still, Earned

(* Whoever is not the sweep settles a rung only by ending the sweep before *)
(* its send.                                                               *)
LEMMA ClimbingAside ==
    ASSUME TypeOK, OriginInv, Aside
    PROVE  Grows /\ Climbing'
  <1>1. hist \in HistoryType /\ sweep \in SweepType /\ Rungs \subseteq Nat
    BY EscalationAssumption DEF TypeOK, HistoryType, SweepType, Rungs
  <1>2. CASE sweep' = sweep /\ hist'.unsent = hist.unsent
    <2>1. Settled' = Settled /\ Sending' = Sending
      BY <1>2 DEF Aside, Settled, Sending
    <2>2. QED BY <1>2, <2>1 DEF Aside, Grows, Climbing, OriginInv
  <1>3. CASE /\ sweep' = NoSweep
             /\ hist'.unsent = IF sweep.phase = "send" THEN hist.unsent \cup {sweep.rung}
                                                      ELSE hist.unsent
    <2>1. Settled' = Settled \cup Sending /\ Sending' = {}
      BY <1>3 DEF Aside, Settled, Sending, NoSweep
    <2>2. Climbing'
      BY <1>3, <2>1 DEF Climbing, OriginInv, Sending, NoSweep
    <2>3. QED BY <2>1, <2>2 DEF Aside, Grows
  <1>4. QED BY <1>2, <1>3 DEF Aside

(* A step of somebody else copies what is earned, and earns its own.       *)
LEMMA OriginKept ==
    ASSUME TypeOK, OriginInv, Aside, Still(attrs'),
           \A g \in Slots : job'[g] = job[g] \/ (Still(job'[g].base) /\ Entitled(g)')
    PROVE  OriginInv'
  <1>1. Grows /\ Climbing'
    BY ClimbingAside
  <1>2. Still(sweep'.seen) /\ Still(sweep'.base)
    BY <1>1, EarnedGrows DEF Aside, NoSweep
  <1>3. ASSUME NEW g \in Slots PROVE Still(job'[g].base) /\ Entitled(g)'
    <2>1. CASE job'[g] = job[g]
      BY <1>1, <2>1, EarnedGrows DEF OriginInv, Entitled, Grows
    <2>2. CASE job'[g] # job[g]
      BY <2>2
    <2>3. QED BY <2>1, <2>2
  <1>4. QED BY <1>1, <1>2, <1>3, EarnedAfter DEF OriginInv

(* Outcomes that are no fault leave the fault count; faults only grow.     *)
LEMMA FaultsGrow ==
    ASSUME TypeOK, NEW ok \in BOOLEAN, Outcome(ok) \/ UNCHANGED faults \/ Fault
    PROVE  /\ faults' = 0 => faults = 0
           /\ Outcome(ok) /\ faults' = 0 => ok
  BY EscalationAssumption DEF TypeOK, Outcome, Fault

(* After its write a dealer's task goes on to the labels, any other ends.  *)
LEMMA Written ==
    ASSUME TypeOK, NEW h \in Slots, AfterWrite(h)
    PROVE  /\ \A g \in Slots \ {h} : job'[g] = job[g]
           /\ \/ job'[h] = NoJob
              \/ /\ job[h].kind = "dealer" /\ job'[h].kind = "dealer" /\ job'[h].phase = "labels"
                 /\ job'[h].base = Blank /\ job'[h].count = 0
  <1>1. \A k : job' = [job EXCEPT ![h] = k] => \A g \in Slots : job'[g] = IF g = h THEN k ELSE job[g]
    BY DEF TypeOK
  <1>2. LET k == [NoJob EXCEPT !.kind = "dealer", !.phase = "labels"]
        IN  k.kind = "dealer" /\ k.phase = "labels" /\ k.base = Blank /\ k.count = 0
    BY DEF NoJob
  <1>3. QED BY <1>1, <1>2 DEF AfterWrite, Done

(* The steps of a task copy earned stamps, and earn their own.             *)
LEMMA OriginTaskStep ==
    ASSUME TypeOK, OriginInv, NEW h \in Slots, TaskStep(h)
    PROVE  OriginInv'
  <1>1. /\ hist \in HistoryType /\ job \in [Slots -> JobType] /\ attrs \in Attributes
        /\ Aside /\ Grows
    BY OthersAside, ClimbingAside DEF TypeOK, HistoryType, JobType, Others
  <1>2. ASSUME NEW ok \in BOOLEAN, ReadCase(h, ok) PROVE OriginInv'
    <2>1. hist' = hist /\ attrs' = attrs
      BY <1>2 DEF ReadCase
    <2>2. \/ job' = [job EXCEPT ![h] = NoJob]
          \/ /\ \A g \in Slots \ {h} : job'[g] = job[g]
             /\ job'[h].base = job[h].base /\ job'[h].kind = job[h].kind
             /\ job'[h].phase = AfterRead(job[h].kind) /\ Wanted(job[h].kind)
      BY <1>1, <1>2 DEF ReadCase, Done, JobType
    <2>3. Wanted("message") => hist.noted
      BY DEF Wanted, OriginInv, Earned
    <2>4. CASE job' = [job EXCEPT ![h] = NoJob]
      BY <1>1, <2>1, <2>4, EarnedGrows, OriginKept DEF NoJob, Entitled
    <2>5. CASE /\ \A g \in Slots \ {h} : job'[g] = job[g]
               /\ job'[h].base = job[h].base /\ job'[h].kind = job[h].kind
               /\ job'[h].phase = AfterRead(job[h].kind) /\ Wanted(job[h].kind)
      <3>1. job'[h].phase = "get" => job'[h].kind \in {"message", "reopen"}
        BY <2>5 DEF AfterRead
      <3>2. job'[h].phase # "post"
        BY <2>5 DEF AfterRead
      <3>3. Entitled(h)'
        BY <2>1, <2>3, <2>5, <3>1, <3>2 DEF Entitled
      <3>4. QED BY <1>1, <2>1, <2>5, <3>3, EarnedGrows, OriginKept
    <2>6. QED BY <2>2, <2>4, <2>5
  <1>3. ASSUME NEW whom \in Found, NEW out \in Outcomes, Notify(h, whom, out) PROVE OriginInv'
    <2>1. out = "answered" => hist'.fanout # "none"
      BY <1>1, <1>3, FoundType DEF Notify, Reached, HistoryType
    <2>2. /\ \A g \in Slots \ {h} : job'[g] = job[g]
          /\ \/ job'[h] = NoJob
             \/ /\ job'[h].kind = "notify" /\ job'[h].base = job[h].base
                /\ out = "answered"
      BY <1>1, <1>3 DEF Notify, Job, Goto, Done, JobType
    <2>3. attrs' = attrs
      BY <1>3 DEF Notify
    <2>4. Entitled(h)' \/ job'[h] = job[h]
      BY <2>1, <2>2 DEF Entitled, NoJob
    <2>5. QED BY <1>1, <2>2, <2>3, <2>4, EarnedGrows, OriginKept DEF NoJob
  <1>4. ASSUME NEW ok \in BOOLEAN, PostNote(h, ok) PROVE OriginInv'
    <2>1. /\ \A g \in Slots \ {h} : job'[g] = job[g]
          /\ \/ job'[h] = NoJob
             \/ /\ job'[h].base = job[h].base /\ job'[h].kind = job[h].kind
                /\ job'[h].phase = "open"
             \/ /\ job'[h].base = job[h].base /\ job'[h].kind = "dealer"
                /\ ok /\ job[h].kind = "dealer"
      BY <1>1, <1>4 DEF PostNote, Goto, Done, JobType
    <2>2. ok /\ job[h].kind = "dealer" => hist'.noted
      BY <1>1, <1>4 DEF PostNote, HistoryType
    <2>3. Entitled(h)'
      BY <2>1, <2>2 DEF Entitled, NoJob
    <2>4. attrs' = attrs
      BY <1>4 DEF PostNote
    <2>5. QED BY <1>1, <2>1, <2>3, <2>4, EarnedGrows, OriginKept DEF NoJob
  <1>5. ASSUME NEW ok \in BOOLEAN, OpenCase(h, ok) PROVE OriginInv'
    <2>1. job' = [job EXCEPT ![h] = NoJob] /\ attrs' = attrs
      BY <1>5 DEF OpenCase, Done
    <2>2. QED BY <1>1, <2>1, EarnedGrows, OriginKept DEF NoJob, Entitled
  <1>6. ASSUME NEW ok \in BOOLEAN, GetAttributes(h, ok) PROVE OriginInv'
    <2>1. hist' = hist /\ attrs' = attrs /\ job[h].phase = "get"
      BY <1>6 DEF GetAttributes
    <2>2. /\ \A g \in Slots \ {h} : job'[g] = job[g]
          /\ \/ job'[h] = NoJob
             \/ job'[h].base = Blank /\ job'[h].phase = "labels"
             \/ job'[h].base = attrs /\ job'[h].kind = job[h].kind
      <3>1. CASE ok
        BY <1>1, <1>6, <3>1 DEF GetAttributes, JobType
      <3>2. CASE ~ok
        BY <1>6, <3>2, Written DEF GetAttributes
      <3>3. QED BY <3>1, <3>2
    <2>3. Entitled(h)'
      BY <2>1, <2>2 DEF OriginInv, Entitled, NoJob
    <2>4. QED BY <1>1, <2>1, <2>2, <2>3, EarnedGrows, OriginKept DEF NoJob
  <1>7. ASSUME NEW ok \in BOOLEAN, PostAttributes(h, ok) PROVE OriginInv'
    <2>1. /\ \A g \in Slots \ {h} : job'[g] = job[g]
          /\ \/ job'[h] = NoJob
             \/ job'[h].base = Blank /\ job'[h].phase = "labels"
      <3>1. CASE ok
        BY <1>7, <3>1, Written DEF PostAttributes
      <3>2. CASE ~ok
        BY <1>1, <1>7, <3>2 DEF PostAttributes, Done
      <3>3. QED BY <3>1, <3>2
    <2>2. attrs' = attrs \/ attrs' = Merged(h)
      BY <1>7 DEF PostAttributes, Replace
    <2>3. Still(Merged(h))
      <3>1. Still(job[h].base) /\ job[h].base \in Attributes
        BY <1>1, EarnedGrows DEF JobType
      <3>2. /\ job[h].kind \in {"dealer", "message"} => hist'.noted
            /\ job[h].kind = "notify" => hist'.fanout # "none"
        BY <1>1, <1>7 DEF PostAttributes, OriginInv, Entitled, Grows
      <3>3. QED BY <3>1, <3>2 DEF Merged, Still, Attributes
    <2>4. QED BY <1>1, <2>1, <2>2, <2>3, EarnedGrows, OriginKept DEF NoJob, Entitled
  <1>8. ASSUME NEW ok \in BOOLEAN, GetLabels(h, ok) \/ PostLabels(h, ok) PROVE OriginInv'
    <2>1. attrs' = attrs
      BY <1>8 DEF GetLabels, PostLabels
    <2>2. /\ \A g \in Slots \ {h} : job'[g] = job[g]
          /\ \/ job'[h] = NoJob
             \/ job'[h].base = job[h].base /\ job'[h].phase = "union"
      BY <1>1, <1>8 DEF GetLabels, PostLabels, Done, JobType
    <2>3. QED BY <1>1, <2>1, <2>2, EarnedGrows, OriginKept DEF NoJob, Entitled
  <1>9. QED BY <1>2, <1>3, <1>4, <1>5, <1>6, <1>7, <1>8 DEF TaskStep

(* So do webhooks, agents and restarts. *)
LEMMA OriginOtherStep ==
    ASSUME TypeOK, OriginInv, Others, ~\E h \in Slots : TaskStep(h)
    PROVE  OriginInv'
  <1>1. /\ job \in [Slots -> JobType] /\ attrs \in Attributes
        /\ Aside /\ Grows
    BY OthersAside, ClimbingAside DEF TypeOK, JobType
  <1>2. ASSUME NEW h \in Slots, NEW kind, NEW phase, Start(h, kind, phase),
               phase = "get" => kind \notin {"dealer", "message", "notify"}, phase # "post",
               attrs' = attrs
        PROVE  OriginInv'
    <2>1. /\ \A g \in Slots \ {h} : job'[g] = job[g]
          /\ job'[h].base = Blank /\ job'[h].kind = kind /\ job'[h].phase = phase
      BY <1>1, <1>2 DEF Start, NoJob
    <2>2. QED BY <1>1, <1>2, <2>1, EarnedGrows, OriginKept DEF Entitled
  <1>3. ASSUME Still(attrs'), job' = job \/ job' = [g \in Slots |-> NoJob]
        PROVE  OriginInv'
    BY <1>1, <1>3, EarnedGrows, OriginKept DEF NoJob, Entitled
  <1>4. ASSUME NEW h \in Slots, NEW e \in events, MaybeEscalate(h, e) PROVE OriginInv'
    <2>1. CASE UNCHANGED job
      BY <1>1, <1>3, <1>4, <2>1, EarnedGrows DEF MaybeEscalate
    <2>2. CASE Start(h, "notify", "read") \/ Start(h, "rearm", "get")
      BY <1>2, <1>4, <2>2 DEF MaybeEscalate
    <2>3. QED BY <1>4, <2>1, <2>2 DEF MaybeEscalate
  <1>5. ASSUME NEW h \in Slots, RecordStatus(h) PROVE OriginInv'
    BY <1>2, <1>5 DEF RecordStatus
  <1>6. ASSUME NEW h \in Slots, NEW kind \in Arriving, Arrives(h, kind) PROVE OriginInv'
    BY <1>2, <1>6 DEF Arrives
  <1>7. CASE AgentStep
    <2>1. job' = job /\ (attrs' = attrs \/ attrs' = [attrs EXCEPT !.acked = TRUE])
      BY <1>7 DEF AgentStep, AgentEscalates, AgentWithdraws, AgentAcknowledges,
                  AgentResolves, AgentReopens, AgentEdits
    <2>2. Still(attrs')
      BY <1>1, <2>1, EarnedGrows DEF Still, Attributes
    <2>3. QED BY <1>3, <2>1, <2>2
  <1>8. CASE AgentServiceRestarts \/ BackendRestarts \/ UNCHANGED vars
    BY <1>1, <1>3, <1>8, EarnedGrows DEF AgentServiceRestarts, BackendRestarts, vars
  <1>9. QED BY <1>4, <1>5, <1>6, <1>7, <1>8 DEF Others

(* The sweep settles a rung after all those below it, and stamps it before *)
(* it is settled only when it is about to send.                            *)
LEMMA OriginSweepStep ==
    ASSUME TypeOK, OriginInv, SweepStep
    PROVE  OriginInv'
  <1>1. /\ hist \in HistoryType /\ sweep \in SweepType /\ attrs \in Attributes
        /\ Rungs \subseteq 0..Top /\ Top \in Nat /\ hist.sends \in [Rungs -> 0..2]
    BY EscalationAssumption DEF TypeOK, HistoryType, SweepType, Rungs
  <1>2. ASSUME Grows, Climbing', job' = job, Still(attrs'), Still(sweep'.seen), Still(sweep'.base)
        PROVE  OriginInv'
    BY <1>2, EarnedGrows, EarnedAfter DEF OriginInv, Entitled, Grows
  <1>3. CASE ListCases
    <2>1. /\ sweep'.seen = attrs /\ sweep'.base = sweep.base /\ sweep'.phase = "judge"
          /\ sweep.phase = "idle" /\ UNCHANGED <<attrs, job, hist>>
      BY <1>1, <1>3 DEF ListCases, SweepType, NoSweep
    <2>2. Grows /\ Climbing'
      BY <2>1 DEF Grows, Climbing, OriginInv, Settled, Sending
    <2>3. QED BY <1>2, <2>1, <2>2, EarnedGrows
  <1>4. CASE SkipCase
    <2>1. Grows /\ Climbing'
      BY <1>4 DEF SkipCase, Grows, Climbing, OriginInv, Settled, Sending, NoSweep
    <2>2. QED BY <1>2, <1>4, <2>1, EarnedGrows DEF SkipCase, NoSweep
  <1>5. ASSUME NEW n \in Rungs, NEW to \in BOOLEAN, NEW ok \in BOOLEAN, ReadForStamp(n, to, ok)
        PROVE  OriginInv'
    <2>1. /\ sweep.phase = "judge" /\ attrs' = attrs /\ job' = job
          /\ hist' = [hist EXCEPT !.unsent = IF to THEN @ ELSE @ \cup {n},
                                  !.lost   = IF ok THEN @ ELSE @ \cup {n}]
      BY <1>5 DEF ReadForStamp
    <2>2. \/ sweep' = NoSweep
          \/ /\ sweep'.seen = Blank /\ sweep'.base \in {attrs, Blank} /\ sweep'.rung = n
             /\ \/ sweep'.phase = "stamp" /\ sweep'.to = to
                \/ sweep'.phase = "send"
      BY <1>1, <1>5 DEF ReadForStamp, AfterStamp, NoSweep
    <2>3. /\ hist'.unsent = (IF to THEN hist.unsent ELSE hist.unsent \cup {n})
          /\ hist'.sends = hist.sends /\ hist'.noted = hist.noted /\ hist'.fanout = hist.fanout
      BY <1>1, <2>1 DEF HistoryType
    <2>4. Settled' = (IF to THEN Settled ELSE Settled \cup {n}) /\ Sending = {}
      BY <2>1, <2>3 DEF Settled, Sending
    <2>5. \A m \in Rungs : m < n => m \in Settled
      <3>1. n - 1 \in Settled \cup {0, 1}
        BY <1>1, <1>5, <2>4 DEF ReadForStamp, Due, Stamped, OriginInv, Earned
      <3>2. \A m \in Rungs : m < n => m = n - 1 \/ m < n - 1
        BY <1>1
      <3>3. \A m \in Rungs : m >= 2 /\ m \in Nat /\ n \in Nat
        BY EscalationAssumption DEF Rungs
      <3>4. CASE n - 1 \in Settled
        BY <3>2, <3>4 DEF OriginInv, Climbing
      <3>5. CASE n - 1 \in {0, 1}
        <4>1. \A m \in Rungs : ~(m < n)
          BY <3>3, <3>5
        <4>2. QED BY <4>1
      <3>6. QED BY <3>1, <3>4, <3>5
    <2>6. Grows
      BY <2>3, <2>4 DEF Grows
    <2>7. Climbing'
      <3>1. \A k \in Settled', m \in Rungs : m < k => m \in Settled'
        BY <2>4, <2>5 DEF OriginInv, Climbing
      <3>2. sweep'.phase \in {"stamp", "send"} => \A m \in Rungs : m < sweep'.rung => m \in Settled'
        BY <2>2, <2>4, <2>5 DEF NoSweep
      <3>3. sweep'.phase = "stamp" /\ ~sweep'.to => sweep'.rung \in hist'.unsent
        BY <2>2, <2>3 DEF NoSweep
      <3>4. QED BY <3>1, <3>2, <3>3 DEF Climbing
    <2>8. QED BY <1>2, <2>1, <2>2, <2>6, <2>7, EarnedGrows DEF NoSweep
  <1>6. ASSUME NEW ok \in BOOLEAN, StampRung(ok) PROVE OriginInv'
    <2>1. /\ hist'.unsent = hist.unsent /\ hist'.sends = hist.sends /\ hist'.noted = hist.noted
          /\ hist.fanout # "none" => hist'.fanout # "none"
      <3>1. CASE ok
        <4>1. Replace([sweep.base EXCEPT !.stamps = @ \cup {sweep.rung}, !.counter = sweep.rung], FALSE)
          BY <1>6, <3>1 DEF StampRung
        <4>2. QED BY <1>1, <4>1 DEF Replace, HistoryType
      <3>2. CASE ~ok
        BY <1>1, <1>6, <3>2 DEF StampRung, HistoryType
      <3>3. QED BY <3>1, <3>2
    <2>2. /\ sweep.phase = "stamp" /\ job' = job
          /\ sweep' = AfterStamp(sweep.rung, sweep.to)
      BY <1>6 DEF StampRung
    <2>3. /\ sweep'.seen = Blank /\ sweep'.base = Blank
          /\ \/ sweep' = NoSweep /\ ~sweep.to
             \/ sweep'.phase = "send" /\ sweep'.rung = sweep.rung /\ sweep.to
      BY <1>1, <2>2 DEF AfterStamp, NoSweep, SweepType
    <2>4. Settled' = Settled /\ Sending = {}
      BY <2>1, <2>2 DEF Settled, Sending
    <2>5. sweep.rung \in Settled' \cup Sending'
      BY <2>2, <2>3, <2>4 DEF OriginInv, Climbing, Sending, Settled
    <2>6. Grows
      BY <2>1, <2>4 DEF Grows
    <2>7. Climbing'
      BY <2>1, <2>2, <2>3, <2>4 DEF OriginInv, Climbing, NoSweep
    <2>8. Still(attrs')
      <3>1. CASE ok
        <4>1. attrs' = [sweep.base EXCEPT !.stamps = @ \cup {sweep.rung}, !.counter = sweep.rung]
          BY <1>6, <3>1 DEF StampRung, Replace
        <4>2. Still(sweep.base) /\ sweep.base \in Attributes
          BY <1>1, <2>6, EarnedGrows DEF SweepType
        <4>3. QED BY <2>5, <4>1, <4>2 DEF Still, Attributes
      <3>2. CASE ~ok
        BY <1>6, <2>6, <3>2, EarnedGrows DEF StampRung
      <3>3. QED BY <3>1, <3>2
    <2>9. QED BY <1>2, <2>2, <2>3, <2>6, <2>7, <2>8, EarnedGrows
  <1>7. ASSUME NEW ok \in BOOLEAN, SendRung(ok) PROVE OriginInv'
    <2>1. /\ sweep.phase = "send" /\ sweep.rung \in Rungs
          /\ sweep' = NoSweep /\ attrs' = attrs /\ job' = job
      BY <1>7 DEF SendRung, TypeOK
    <2>2. \A k \in 0..2 : AtMost2(k + 1) > 0
      BY DEF AtMost2
    <2>3. Settled' = Settled \cup {sweep.rung} /\ hist'.noted = hist.noted /\ hist'.fanout = hist.fanout
      <3>1. CASE ok
        <4>1. /\ hist'.unsent = hist.unsent /\ hist'.noted = hist.noted /\ hist'.fanout = hist.fanout
              /\ hist'.sends = [hist.sends EXCEPT ![sweep.rung] = AtMost2(@ + 1)]
          BY <1>1, <1>7, <3>1 DEF SendRung, HistoryType
        <4>2. \A m \in Rungs : hist'.sends[m] > 0 <=> hist.sends[m] > 0 \/ m = sweep.rung
          BY <1>1, <2>1, <2>2, <4>1
        <4>3. QED BY <2>1, <4>1, <4>2 DEF Settled
      <3>2. CASE ~ok
        BY <1>1, <1>7, <3>2 DEF SendRung, Unsent, HistoryType, Settled
      <3>3. QED BY <3>1, <3>2
    <2>4. Grows /\ Climbing'
      BY <1>1, <2>1, <2>3 DEF Grows, OriginInv, Climbing, Sending, NoSweep
    <2>5. QED BY <1>2, <2>1, <2>4, EarnedGrows DEF NoSweep
  <1>8. QED BY <1>3, <1>4, <1>5, <1>6, <1>7 DEF SweepStep

LEMMA OriginAlways == Spec => []OriginInv
  <1>1. Init => OriginInv
    <2>1. Init => Settled = {}
      BY DEF Init, Settled, NoHistory
    <2>2. QED BY <2>1 DEF Init, OriginInv, Earned, Climbing, Entitled, NoHistory, NoSweep, NoJob, Blank
  <1>2. ASSUME TypeOK, OriginInv, [Next]_vars PROVE OriginInv'
    BY <1>2, StepCases, OriginTaskStep, OriginOtherStep, OriginSweepStep
  <1>3. QED BY <1>1, <1>2, TypeCorrect, PTL DEF Spec

(* Nobody is reminded before every lower rung was, or was found without a  *)
(* recipient, or lost its reminder, whatever stamps are dropped or put     *)
(* back.                                                                   *)
THEOREM ClimbsOneByOne == Spec => []RungsClimbed
  <1>1. OriginInv => RungsClimbed
    BY DEF OriginInv, Climbing, Settled, RungsClimbed
  <1>2. QED BY <1>1, OriginAlways, PTL

(* The reply's and the update's stamps stand only on a case that carries   *)
(* the dealer's words.                                                     *)
THEOREM NoteComesFirst == Spec => []StampsFollowNote
  <1>1. OriginInv => StampsFollowNote
    BY DEF OriginInv, Earned, StampsFollowNote
  <1>2. QED BY <1>1, OriginAlways, PTL

-----------------------------------------------------------------------------
(* Without faults the label leads to a fan-out: until it has, a webhook    *)
(* that reports it or a task that will send is on the way.  And the guard  *)
(* of a case without the label does not stay: as long as it stands, a      *)
(* webhook that reports it or a task that clears it is on the way.         *)

Told == hist.fanout \notin {"none", "cleared"}

Notifying == \E h \in Slots : job[h].kind = "notify" /\ job[h].phase \in {"read", "send"}
Rearming  == \E h \in Slots : job[h].kind = "rearm" /\ job[h].phase \in {"get", "post"}

Asks(e)     == e.escalate
Releases(e) == ~e.escalate /\ e.notified

ReachInv ==
    /\ attrs.notified => Told
    /\ faults = 0 =>
         /\ "escalate" \in labels => Told \/ Notifying \/ \E e \in events : Asks(e)
         /\ "escalate" \notin labels /\ attrs.notified => Rearming \/ \E e \in events : Releases(e)

(* What Chatwoot announces after a write, and what the write does to the   *)
(* history.                                                                *)
LEMMA Announced ==
    ASSUME NEW tags, NEW case, Announce(tags, case)
    PROVE  /\ events \subseteq events'
           /\ "escalate" \in tags => \E e \in events' : Asks(e)
           /\ "escalate" \notin tags /\ case.notified => \E e \in events' : Releases(e)
  <1>1. [escalate |-> "escalate" \in tags, notified |-> case.notified] \in events'
    BY DEF Announce
  <1>2. QED BY <1>1 DEF Announce, Asks, Releases

LEMMA FanoutAfterWrite ==
    ASSUME TypeOK, NEW new, NEW arms, Replace(new, arms)
    PROVE  hist'.fanout = CASE arms -> "cleared"
                            [] new.notified /\ hist.fanout = "cleared" -> "revived"
                            [] OTHER -> hist.fanout
  BY DEF Replace, TypeOK

(* A step under which everything on the way stays on the way. *)
LEMMA ReachKept ==
    ASSUME ReachInv, faults' = 0 => faults = 0, attrs'.notified => Told',
           Told => Told', events \subseteq events',
           "escalate" \in labels' => "escalate" \in labels \/ \E e \in events' : Asks(e),
           "escalate" \notin labels' /\ attrs'.notified =>
              \/ "escalate" \notin labels /\ attrs.notified
              \/ \E e \in events' : Releases(e),
           faults' = 0 /\ Notifying => Notifying' \/ Told',
           faults' = 0 /\ Rearming => Rearming' \/ ~attrs'.notified
    PROVE  ReachInv'
  BY DEF ReachInv

(* A step of one slot that was at neither. *)
LEMMA ReachElsewhere ==
    ASSUME NEW h \in Slots, \A g \in Slots \ {h} : job'[g] = job[g]
    PROVE  /\ (job[h].kind = "notify" => job[h].phase \notin {"read", "send"}) =>
                (Notifying => Notifying')
           /\ (job[h].kind = "rearm" => job[h].phase \notin {"get", "post"}) =>
                (Rearming => Rearming')
  BY DEF Notifying, Rearming

LEMMA ReachTaskStep ==
    ASSUME TypeOK, OriginInv, ReachInv, NEW h \in Slots, TaskStep(h)
    PROVE  ReachInv'
  <1>1. hist \in HistoryType /\ job \in [Slots -> JobType] /\ attrs \in Attributes
    BY DEF TypeOK, HistoryType, JobType
  <1>2. ASSUME NEW ok \in BOOLEAN, ReadCase(h, ok) PROVE ReachInv'
    <2>1. /\ UNCHANGED <<labels, attrs, events, hist>> /\ job[h].phase = "read" /\ Outcome(ok)
          /\ \A g \in Slots \ {h} : job'[g] = job[g]
      BY <1>1, <1>2 DEF ReadCase, Done
    <2>2. faults' = 0 => ok /\ faults = 0
      BY <2>1, FaultsGrow
    <2>3. ASSUME faults' = 0, Notifying PROVE Notifying' \/ Told'
      <3>1. CASE job[h].kind = "notify" /\ ~attrs.notified
        <4>1. job'[h].kind = "notify" /\ job'[h].phase = "send"
          BY <1>1, <1>2, <2>2, <2>3, <3>1 DEF ReadCase, Wanted, AfterRead, JobType
        <4>2. QED BY <4>1 DEF Notifying
      <3>2. CASE job[h].kind = "notify" /\ attrs.notified
        BY <2>1, <3>2 DEF ReachInv, Told
      <3>3. CASE job[h].kind # "notify"
        BY <2>1, <2>3, <3>3, ReachElsewhere
      <3>4. QED BY <3>1, <3>2, <3>3
    <2>4. QED BY <2>1, <2>2, <2>3, ReachKept, ReachElsewhere DEF ReachInv, Told
  <1>3. ASSUME NEW whom \in Found, NEW out \in Outcomes, Notify(h, whom, out) PROVE ReachInv'
    <2>1. /\ UNCHANGED <<labels, attrs, events>> /\ job[h].kind = "notify"
          /\ Outcome(out = "answered") /\ (out = "answered") \in BOOLEAN
          /\ \A g \in Slots \ {h} : job'[g] = job[g]
      BY <1>1, <1>3 DEF Notify, Job, Goto, Done
    <2>2. faults' = 0 => faults = 0 /\ out = "answered"
      BY <2>1, FaultsGrow
    <2>3. hist'.fanout = IF out = "refused" THEN hist.fanout ELSE Reached(hist.fanout, whom)
      BY <1>1, <1>3 DEF Notify, HistoryType
    <2>4. (Told => Told') /\ (faults' = 0 => Told')
      BY <2>2, <2>3, FoundType DEF Reached, Told
    <2>5. QED BY <2>1, <2>2, <2>4, ReachKept, ReachElsewhere DEF ReachInv
  <1>4. ASSUME NEW ok \in BOOLEAN, PostNote(h, ok) \/ GetLabels(h, ok) PROVE ReachInv'
    <2>1. /\ UNCHANGED <<labels, attrs, events>> /\ job[h].phase \in {"note", "labels"}
          /\ \A g \in Slots \ {h} : job'[g] = job[g]
      BY <1>1, <1>4 DEF PostNote, GetLabels, Goto, Done
    <2>2. hist'.fanout = hist.fanout
      BY <1>1, <1>4 DEF PostNote, GetLabels, HistoryType
    <2>3. faults' = 0 => faults = 0
      BY <1>4, FaultsGrow DEF PostNote, GetLabels
    <2>4. QED BY <2>1, <2>2, <2>3, ReachKept, ReachElsewhere DEF ReachInv, Told
  <1>5. ASSUME NEW ok \in BOOLEAN, OpenCase(h, ok) PROVE ReachInv'
    <2>1. /\ UNCHANGED <<labels, attrs>> /\ job[h].phase = "open"
          /\ \A g \in Slots \ {h} : job'[g] = job[g]
          /\ events' = events \/ Announce(labels, attrs)
      BY <1>1, <1>5 DEF OpenCase, Opened, Job, Done
    <2>2. hist'.fanout = hist.fanout
      BY <1>1, <1>5 DEF OpenCase, Opened, HistoryType
    <2>3. faults' = 0 => faults = 0
      BY <1>5, FaultsGrow DEF OpenCase
    <2>4. events \subseteq events'
      BY <2>1, Announced
    <2>5. QED BY <2>1, <2>2, <2>3, <2>4, ReachKept, ReachElsewhere DEF ReachInv, Told
  <1>6. ASSUME NEW ok \in BOOLEAN, GetAttributes(h, ok) PROVE ReachInv'
    <2>1. UNCHANGED <<labels, attrs, events, hist>> /\ job[h].phase = "get" /\ Outcome(ok)
      BY <1>6 DEF GetAttributes
    <2>2. \A g \in Slots \ {h} : job'[g] = job[g]
      BY <1>1, <1>6, Written DEF GetAttributes
    <2>3. faults' = 0 => ok /\ faults = 0
      BY <2>1, FaultsGrow
    <2>4. ASSUME faults' = 0, Rearming PROVE Rearming'
      <3>1. job'[h].kind = job[h].kind /\ job'[h].phase = "post"
        BY <1>1, <1>6, <2>3, <2>4 DEF GetAttributes, JobType
      <3>2. QED BY <2>2, <2>4, <3>1 DEF Rearming
    <2>5. QED BY <2>1, <2>2, <2>3, <2>4, ReachKept, ReachElsewhere DEF ReachInv, Told
  <1>7. ASSUME NEW ok \in BOOLEAN, PostAttributes(h, ok) PROVE ReachInv'
    <2>1. labels' = labels /\ job[h].phase = "post" /\ Outcome(ok)
      BY <1>7 DEF PostAttributes
    <2>2. \A g \in Slots \ {h} : job'[g] = job[g]
      BY <1>1, <1>7, Written DEF PostAttributes, Done
    <2>3. faults' = 0 => ok /\ faults = 0
      BY <2>1, FaultsGrow
    <2>4. CASE ok
      <3>1. Replace(Merged(h), job[h].kind = "rearm") /\ attrs' = Merged(h)
            /\ Announce(labels, Merged(h))
        BY <1>7, <2>4 DEF PostAttributes, Replace
      <3>2. job[h].kind = "rearm" => ~attrs'.notified
        BY <1>1, <3>1 DEF Merged, JobType, Attributes
      <3>3. attrs'.notified => hist.fanout # "none"
        <4>1. Earned(job[h].base) /\ Entitled(h) /\ job[h].base \in Attributes
          BY <1>1 DEF OriginInv, JobType
        <4>2. attrs'.notified => job[h].base.notified \/ job[h].kind = "notify"
          BY <3>1, <4>1 DEF Merged, Attributes
        <4>3. QED BY <2>1, <4>1, <4>2 DEF Earned, Entitled
      <3>4. hist'.fanout = CASE job[h].kind = "rearm" -> "cleared"
                             [] attrs'.notified /\ hist.fanout = "cleared" -> "revived"
                             [] OTHER -> hist.fanout
        BY <3>1, FanoutAfterWrite
      <3>5. attrs'.notified => Told'
        BY <3>2, <3>3, <3>4 DEF Told
      <3>6. /\ "escalate" \in labels' => \E e \in events' : Asks(e)
            /\ "escalate" \notin labels' /\ attrs'.notified => \E e \in events' : Releases(e)
        BY <2>1, <3>1, Announced
      <3>7. QED BY <3>5, <3>6 DEF ReachInv
    <2>5. CASE ~ok
      BY <1>7, <2>3, <2>5 DEF PostAttributes, ReachInv, Told
    <2>6. QED BY <2>4, <2>5
  <1>8. ASSUME NEW ok \in BOOLEAN, PostLabels(h, ok) PROVE ReachInv'
    <2>1. /\ UNCHANGED <<attrs, hist>> /\ job[h].phase = "union"
          /\ \A g \in Slots \ {h} : job'[g] = job[g]
          /\ UNCHANGED <<labels, events>> \/ Announce(labels', attrs)
      BY <1>1, <1>8 DEF PostLabels, Done
    <2>2. faults' = 0 => faults = 0
      BY <1>8, FaultsGrow DEF PostLabels
    <2>3. /\ events \subseteq events'
          /\ "escalate" \in labels' => "escalate" \in labels \/ \E e \in events' : Asks(e)
          /\ "escalate" \notin labels' /\ attrs.notified =>
                "escalate" \notin labels \/ \E e \in events' : Releases(e)
      BY <2>1, Announced
    <2>4. QED BY <2>1, <2>2, <2>3, ReachKept, ReachElsewhere DEF ReachInv, Told
  <1>9. QED BY <1>2, <1>3, <1>4, <1>5, <1>6, <1>7, <1>8 DEF TaskStep

LEMMA ReachStep ==
    ASSUME TypeOK, OriginInv, ReachInv, [Next]_vars
    PROVE  ReachInv'
  <1>1. /\ hist \in HistoryType /\ job \in [Slots -> JobType] /\ attrs \in Attributes
        /\ sweep \in SweepType
    BY DEF TypeOK, HistoryType, JobType, SweepType
  <1>2. ASSUME NEW h \in Slots, NEW e \in events, MaybeEscalate(h, e) PROVE ReachInv'
    <2>1. UNCHANGED <<labels, attrs, hist, faults>> /\ events' = events \ {e}
      BY <1>2 DEF MaybeEscalate
    <2>2. ASSUME NEW kind, NEW phase, Start(h, kind, phase)
          PROVE  /\ job'[h].kind = kind /\ job'[h].phase = phase
                 /\ Notifying => Notifying'
                 /\ Rearming => Rearming'
      BY <1>1, <2>2, ReachElsewhere DEF Start, NoJob
    <2>3. CASE e.escalate
      <3>1. Start(h, "notify", "read")
        BY <1>2, <2>3, Zenon DEF MaybeEscalate
      <3>2. Notifying' /\ (Rearming => Rearming')
        BY <2>2, <3>1 DEF Notifying
      <3>3. (\E f \in events : Releases(f)) => \E f \in events' : Releases(f)
        BY <2>1, <2>3 DEF Releases
      <3>4. QED BY <2>1, <3>2, <3>3 DEF ReachInv, Told
    <2>4. CASE ~e.escalate /\ e.notified
      <3>1. Start(h, "rearm", "get")
        BY <1>2, <2>4, Zenon DEF MaybeEscalate
      <3>2. Rearming' /\ (Notifying => Notifying')
        BY <2>2, <3>1 DEF Rearming
      <3>3. (\E f \in events : Asks(f)) => \E f \in events' : Asks(f)
        BY <2>1, <2>4 DEF Asks
      <3>4. QED BY <2>1, <3>2, <3>3 DEF ReachInv, Told
    <2>5. CASE ~e.escalate /\ ~e.notified
      <3>1. job' = job
        BY <1>2, <2>5, Zenon DEF MaybeEscalate
      <3>2. /\ (\E f \in events : Asks(f)) => \E f \in events' : Asks(f)
            /\ (\E f \in events : Releases(f)) => \E f \in events' : Releases(f)
        BY <2>1, <2>5 DEF Asks, Releases
      <3>3. QED BY <2>1, <3>1, <3>2 DEF ReachInv, Told, Notifying, Rearming
    <2>6. QED BY <2>3, <2>4, <2>5
  <1>3. ASSUME NEW h \in Slots, RecordStatus(h) \/ \E kind \in Arriving : Arrives(h, kind)
        PROVE  ReachInv'
    <2>1. /\ UNCHANGED <<labels, attrs, events, hist, faults>>
          /\ \A g \in Slots \ {h} : job'[g] = job[g]
          /\ job[h] = NoJob
      BY <1>1, <1>3 DEF RecordStatus, Arrives, Start
    <2>2. (Notifying => Notifying') /\ (Rearming => Rearming')
      BY <2>1, ReachElsewhere DEF NoJob
    <2>3. QED BY <2>1, <2>2, ReachKept DEF ReachInv, Told
  <1>4. ASSUME UNCHANGED job, faults' = 0 => faults = 0, events \subseteq events',
               attrs'.notified = attrs.notified, hist'.fanout = hist.fanout,
               "escalate" \in labels' => "escalate" \in labels \/ \E e \in events' : Asks(e),
               "escalate" \notin labels' /\ attrs.notified =>
                  "escalate" \notin labels \/ \E e \in events' : Releases(e)
        PROVE  ReachInv'
    BY <1>4, ReachKept DEF ReachInv, Told, Notifying, Rearming
  <1>5. CASE SweepStep
    <2>1. CASE ListCases \/ SkipCase
      BY <1>4, <2>1 DEF ListCases, SkipCase
    <2>2. ASSUME NEW n \in Rungs, NEW to \in BOOLEAN, NEW ok \in BOOLEAN, ReadForStamp(n, to, ok)
          PROVE  ReachInv'
      <3>1. hist'.fanout = hist.fanout /\ UNCHANGED <<labels, attrs, events, job>>
        BY <1>1, <2>2 DEF ReadForStamp, HistoryType
      <3>2. QED BY <1>4, <2>2, <3>1, FaultsGrow DEF ReadForStamp
    <2>3. ASSUME NEW ok \in BOOLEAN, SendRung(ok) PROVE ReachInv'
      <3>1. hist'.fanout = hist.fanout /\ UNCHANGED <<labels, attrs, events, job>>
        BY <1>1, <2>3 DEF SendRung, Unsent, HistoryType
      <3>2. QED BY <1>4, <2>3, <3>1, FaultsGrow DEF SendRung
    <2>4. ASSUME NEW ok \in BOOLEAN, StampRung(ok) PROVE ReachInv'
      <3>1. UNCHANGED <<labels, job>> /\ (faults' = 0 => faults = 0)
        BY <2>4, FaultsGrow DEF StampRung
      <3>2. CASE ok
        <4> DEFINE new == [sweep.base EXCEPT !.stamps = @ \cup {sweep.rung}, !.counter = sweep.rung]
        <4>1. Replace(new, FALSE) /\ attrs' = new /\ Announce(labels, new)
          BY <2>4, <3>2 DEF StampRung, Replace
        <4>2. attrs'.notified = sweep.base.notified
          BY <1>1, <4>1 DEF SweepType, Attributes
        <4>3. attrs'.notified => hist.fanout # "none"
          BY <4>2 DEF OriginInv, Earned
        <4>4. hist'.fanout = IF attrs'.notified /\ hist.fanout = "cleared" THEN "revived"
                                                                          ELSE hist.fanout
          BY <4>1, FanoutAfterWrite
        <4>5. attrs'.notified => Told'
          BY <4>3, <4>4 DEF Told
        <4>6. /\ "escalate" \in labels' => \E e \in events' : Asks(e)
              /\ "escalate" \notin labels' /\ attrs'.notified => \E e \in events' : Releases(e)
          BY <3>1, <4>1, Announced
        <4>7. QED BY <4>5, <4>6 DEF ReachInv
      <3>3. CASE ~ok
        <4>1. hist'.fanout = hist.fanout /\ UNCHANGED <<attrs, events>>
          BY <1>1, <2>4, <3>3 DEF StampRung, HistoryType
        <4>2. QED BY <1>4, <3>1, <4>1
      <3>4. QED BY <3>2, <3>3
    <2>5. QED BY <1>5, <2>1, <2>2, <2>3, <2>4 DEF SweepStep
  <1>6. CASE AgentStep
    <2>1. UNCHANGED <<job, faults>> /\ Announce(labels', attrs')
      BY <1>6 DEF AgentStep, AgentEscalates, AgentWithdraws, AgentAcknowledges, AgentResolves,
                  AgentReopens, AgentEdits, Opened
    <2>2. attrs'.notified = attrs.notified
      BY <1>1, <1>6 DEF AgentStep, AgentEscalates, AgentWithdraws, AgentAcknowledges,
                        AgentResolves, AgentReopens, AgentEdits, Attributes
    <2>3. hist'.fanout = hist.fanout
      BY <1>1, <1>6 DEF AgentStep, AgentEscalates, AgentWithdraws, AgentAcknowledges,
                        AgentResolves, AgentReopens, AgentEdits, Opened, HistoryType
    <2>4. /\ events \subseteq events'
          /\ "escalate" \in labels' => \E e \in events' : Asks(e)
          /\ "escalate" \notin labels' /\ attrs'.notified => \E e \in events' : Releases(e)
      BY <2>1, Announced
    <2>5. QED BY <1>4, <2>1, <2>2, <2>3, <2>4
  <1>7. CASE AgentServiceRestarts \/ BackendRestarts
    <2>1. faults' # 0
      BY <1>7, EscalationAssumption DEF AgentServiceRestarts, BackendRestarts, Fault, TypeOK
    <2>2. hist'.fanout = hist.fanout /\ attrs' = attrs
      BY <1>1, <1>7 DEF AgentServiceRestarts, BackendRestarts, Unsent, HistoryType
    <2>3. QED BY <2>1, <2>2 DEF ReachInv, Told
  <1>8. CASE UNCHANGED vars
    BY <1>8 DEF vars, ReachInv, Told, Notifying, Rearming
  <1>9. QED BY <1>2, <1>3, <1>5, <1>6, <1>7, <1>8, ReachTaskStep DEF Next

(* Without faults, once its webhooks are handled, a case with the label    *)
(* has been through a fan-out since its guard was last cleared, unless a   *)
(* writer put the old guard back, and a case without it has no guard.      *)
THEOREM EscalationsReach == Spec => []EscalationReaches
  <1>1. Init => ReachInv
    BY DEF Init, ReachInv, Blank
  <1>2. ReachInv => EscalationReaches
    BY DEF ReachInv, EscalationReaches, Quiet, Notifying, Rearming, Told, NoJob
  <1>3. QED BY <1>1, <1>2, ReachStep, OriginAlways, TypeCorrect, PTL DEF Spec

-----------------------------------------------------------------------------
(* The counter of reopenings.  Every reopening Chatwoot reports is counted *)
(* by one task, which adds one to what it has read and writes the sum      *)
(* later, and every other writer puts back the count it has read.  What    *)
(* bounds the count for good is that each copy of it, wherever it is held, *)
(* leaves room for the reopenings that are still to be counted.            *)

Reopening == {h \in Slots : job[h].kind = "reopen"}
UnderWay == reopens + Cardinality(Reopening)

Room(n) == n + UnderWay <= hist.opened

CountInv ==
    /\ IsFiniteSet(Reopening)
    /\ Room(attrs.count) /\ Room(sweep.base.count)
    /\ \A h \in Slots :
         /\ Room(job[h].base.count)
         /\ job[h].kind = "reopen" => job[h].count + UnderWay <= hist.opened + 1

(* What is under way after a step of one slot. *)
LEMMA ReopeningMoves ==
    ASSUME TypeOK, CountInv, NEW h \in Slots, \A g \in Slots \ {h} : job'[g] = job[g]
    PROVE  /\ IsFiniteSet(Reopening)' /\ Cardinality(Reopening)' \in Nat
           /\ Cardinality(Reopening) \in Nat
           /\ (job[h].kind = "reopen") = (job'[h].kind = "reopen") =>
                 Cardinality(Reopening)' = Cardinality(Reopening)
           /\ job[h].kind = "reopen" /\ job'[h].kind # "reopen" =>
                 Cardinality(Reopening)' = Cardinality(Reopening) - 1
           /\ job[h].kind # "reopen" /\ job'[h].kind = "reopen" =>
                 Cardinality(Reopening)' = Cardinality(Reopening) + 1
  <1>1. IsFiniteSet(Reopening) /\ Cardinality(Reopening) \in Nat
    BY FS_CardinalityType DEF CountInv
  <1>2. CASE (job[h].kind = "reopen") = (job'[h].kind = "reopen")
    <2>1. Reopening' = Reopening
      BY <1>2 DEF Reopening
    <2>2. QED BY <1>1, <1>2, <2>1
  <1>3. CASE job[h].kind = "reopen" /\ job'[h].kind # "reopen"
    <2>1. Reopening' = Reopening \ {h} /\ h \in Reopening
      BY <1>3 DEF Reopening
    <2>2. QED BY <1>1, <1>3, <2>1, FS_RemoveElement, FS_CardinalityType
  <1>4. CASE job[h].kind # "reopen" /\ job'[h].kind = "reopen"
    <2>1. Reopening' = Reopening \cup {h} /\ h \notin Reopening
      BY <1>4 DEF Reopening
    <2>2. QED BY <1>1, <1>4, <2>1, FS_AddElement, FS_CardinalityType
  <1>5. QED BY <1>2, <1>3, <1>4

(* A step that takes no more room than it makes, and copies no count but   *)
(* those that are there.                                                   *)
LEMMA CountKept ==
    ASSUME TypeOK, TypeOK', CountInv,
           IsFiniteSet(Reopening)', Cardinality(Reopening)' \in Nat,
           UnderWay' + hist.opened <= UnderWay + hist'.opened,
           Room(attrs.count)', sweep'.base \in {sweep.base, attrs, Blank},
           \A g \in Slots :
              \/ job'[g] = job[g]
              \/ /\ job'[g].base \in {job[g].base, attrs, Blank}
                 /\ job'[g].kind = "reopen" => job'[g].count + UnderWay' <= hist'.opened + 1
    PROVE  CountInv'
  <1>1. /\ reopens \in Nat /\ reopens' \in Nat /\ hist.opened \in Nat /\ hist'.opened \in Nat
        /\ attrs.count \in Nat /\ attrs'.count \in Nat /\ sweep.base.count \in Nat
        /\ \A g \in Slots : /\ job[g].base.count \in Nat /\ job[g].count \in Nat
                            /\ job'[g].base.count \in Nat /\ job'[g].count \in Nat
    <2>1. \A a \in Attributes : a.count \in Nat
      BY DEF Attributes
    <2>2. \A j \in JobType : j.base \in Attributes /\ j.count \in Nat
      BY DEF JobType
    <2>3. /\ reopens \in Nat /\ hist \in HistoryType /\ attrs \in Attributes
          /\ sweep \in SweepType /\ job \in [Slots -> JobType]
      BY DEF TypeOK, HistoryType, SweepType, JobType
    <2>4. /\ reopens' \in Nat /\ hist' \in HistoryType /\ attrs' \in Attributes
          /\ job' \in [Slots -> JobType]
      BY DEF TypeOK, HistoryType, JobType
    <2>5. sweep.base \in Attributes /\ hist.opened \in Nat /\ hist'.opened \in Nat
      BY <2>3, <2>4 DEF SweepType, HistoryType
    <2>6. QED BY <2>1, <2>2, <2>3, <2>4, <2>5
  <1>2. UnderWay \in Nat /\ UnderWay' \in Nat
    <2>1. Cardinality(Reopening) \in Nat
      BY FS_CardinalityType DEF CountInv
    <2>2. QED BY <1>1, <2>1 DEF UnderWay
  <1>3. ASSUME NEW n \in Nat, Room(n) PROVE n + UnderWay' <= hist'.opened
    BY <1>1, <1>2, <1>3 DEF Room
  <1>4. Blank.count = 0 /\ Room(0)
    BY <1>1, <1>2 DEF Blank, CountInv, Room
  <1>5. Room(sweep.base.count)'
    BY <1>1, <1>3, <1>4 DEF CountInv, Room
  <1>6. ASSUME NEW g \in Slots
        PROVE  /\ Room(job[g].base.count)'
               /\ (job[g].kind = "reopen" => job[g].count + UnderWay <= hist.opened + 1)'
    <2>1. CASE job'[g] = job[g]
      BY <1>1, <1>2, <1>3, <2>1 DEF CountInv, Room
    <2>2. CASE job'[g] # job[g]
      BY <1>1, <1>3, <1>4, <2>2 DEF CountInv, Room
    <2>3. QED BY <2>1, <2>2
  <1>7. QED BY <1>5, <1>6 DEF CountInv

(* The same for a step that leaves what is under way as it is. *)
LEMMA CountAside ==
    ASSUME TypeOK, TypeOK', CountInv, UNCHANGED <<attrs, reopens>>, hist'.opened = hist.opened,
           sweep'.base \in {sweep.base, attrs, Blank},
           \/ job' = job
           \/ \E h \in Slots : /\ \A g \in Slots \ {h} : job'[g] = job[g]
                               /\ \/ job'[h] = NoJob
                                  \/ /\ job'[h].base \in {job[h].base, attrs, Blank}
                                     /\ job'[h].kind = job[h].kind
                                     /\ job[h].kind = "reopen" => job'[h].count = job[h].count
           \/ job' = [h \in Slots |-> NoJob]
    PROVE  CountInv'
  <1>1. /\ reopens \in Nat /\ hist.opened \in Nat /\ attrs.count \in Nat
        /\ \A g \in Slots : job[g].count \in Nat
        /\ Cardinality(Reopening) \in Nat
    BY FS_CardinalityType DEF TypeOK, Attributes, CountInv
  <1>2. NoJob.kind # "reopen" /\ NoJob.base = Blank
    BY DEF NoJob
  <1>3. CASE job' = job
    <2>1. Reopening' = Reopening
      BY <1>3 DEF Reopening
    <2>2. UnderWay' = UnderWay /\ Room(attrs.count)'
      BY <2>1 DEF UnderWay, CountInv, Room
    <2>3. QED BY <1>1, <1>3, <2>1, <2>2, CountKept DEF UnderWay, CountInv
  <1>4. ASSUME NEW h \in Slots, \A g \in Slots \ {h} : job'[g] = job[g],
               \/ job'[h] = NoJob
               \/ /\ job'[h].base \in {job[h].base, attrs, Blank}
                  /\ job'[h].kind = job[h].kind
                  /\ job[h].kind = "reopen" => job'[h].count = job[h].count
        PROVE  CountInv'
    <2>1. /\ IsFiniteSet(Reopening)' /\ Cardinality(Reopening)' \in Nat
          /\ Cardinality(Reopening)' <= Cardinality(Reopening)
      BY <1>1, <1>2, <1>4, ReopeningMoves
    <2>2. UnderWay' <= UnderWay /\ UnderWay' \in Nat /\ UnderWay \in Nat
      BY <1>1, <2>1 DEF UnderWay
    <2>3. Room(attrs.count)'
      BY <1>1, <2>2 DEF CountInv, Room
    <2>4. job'[h].kind = "reopen" => job'[h].count + UnderWay' <= hist'.opened + 1
      BY <1>1, <1>2, <1>4, <2>2 DEF CountInv
    <2>5. QED BY <1>1, <1>2, <1>4, <2>1, <2>2, <2>3, <2>4, CountKept
  <1>5. CASE job' = [h \in Slots |-> NoJob]
    <2>1. Reopening' = {}
      BY <1>2, <1>5 DEF Reopening
    <2>2. IsFiniteSet(Reopening)' /\ Cardinality(Reopening)' = 0
      BY <2>1, FS_EmptySet
    <2>3. UnderWay' <= UnderWay /\ UnderWay' \in Nat /\ UnderWay \in Nat
      BY <1>1, <2>2 DEF UnderWay
    <2>4. Room(attrs.count)'
      BY <1>1, <2>3 DEF CountInv, Room
    <2>5. QED BY <1>1, <1>2, <1>5, <2>2, <2>3, <2>4, CountKept
  <1>6. QED BY <1>3, <1>4, <1>5

(* A reopening: one more has happened, and one more is under way. *)
LEMMA CountOpened ==
    ASSUME TypeOK, TypeOK', CountInv, Opened, UNCHANGED <<attrs, sweep>>,
           \/ job' = job
           \/ \E h \in Slots : job[h].kind # "reopen" /\ job' = [job EXCEPT ![h] = NoJob]
    PROVE  CountInv'
  <1>1. /\ reopens \in Nat /\ hist.opened \in Nat /\ attrs.count \in Nat
        /\ Cardinality(Reopening) \in Nat /\ job \in [Slots -> JobType]
        /\ hist \in HistoryType
    BY FS_CardinalityType DEF TypeOK, Attributes, CountInv, JobType, HistoryType
  <1>2. NoJob.kind # "reopen" /\ NoJob.base = Blank
    BY DEF NoJob
  <1>3. Reopening' = Reopening
    BY <1>1, <1>2 DEF Reopening
  <1>4. \/ reopens' = reopens /\ hist'.opened = hist.opened
        \/ reopens' = reopens + 1 /\ hist'.opened = hist.opened + 1
    BY <1>1 DEF Opened, HistoryType
  <1>5. /\ UnderWay' + hist.opened <= UnderWay + hist'.opened
        /\ UnderWay' \in Nat /\ UnderWay \in Nat
    BY <1>1, <1>3, <1>4 DEF UnderWay
  <1>6. Room(attrs.count)'
    BY <1>1, <1>4, <1>5 DEF CountInv, Room
  <1>7. \A g \in Slots : job'[g] = job[g] \/ job'[g] = NoJob
    BY <1>1
  <1>8. QED BY <1>1, <1>2, <1>3, <1>5, <1>6, <1>7, CountKept DEF CountInv

(* What a task does: only the read of a reopening's task and the write     *)
(* that follows it touch the count.                                        *)
LEMMA CountTaskStep ==
    ASSUME TypeOK, TypeOK', CountInv, NEW h \in Slots, TaskStep(h)
    PROVE  CountInv'
  <1>1. /\ job \in [Slots -> JobType] /\ attrs \in Attributes /\ hist \in HistoryType
        /\ reopens \in Nat /\ hist.opened \in Nat
        /\ IsFiniteSet(Reopening) /\ Cardinality(Reopening) \in Nat
    BY FS_CardinalityType DEF TypeOK, JobType, HistoryType, CountInv
  <1>2. ASSUME NEW ok \in BOOLEAN, ReadCase(h, ok) PROVE CountInv'
    <2>1. UNCHANGED <<attrs, reopens, hist, sweep>>
      BY <1>2 DEF ReadCase
    <2>2. CASE ok /\ Wanted(job[h].kind)
      <3>1. /\ \A g \in Slots \ {h} : job'[g] = job[g]
            /\ job'[h].base = job[h].base /\ job'[h].kind = job[h].kind
            /\ job[h].kind = "reopen" => job'[h].count = attrs.count + 1
        BY <1>1, <1>2, <2>2 DEF ReadCase, JobType
      <3>2. /\ IsFiniteSet(Reopening)' /\ Cardinality(Reopening)' \in Nat
            /\ UnderWay' = UnderWay /\ UnderWay \in Nat
        BY <1>1, <2>1, <3>1, ReopeningMoves DEF UnderWay
      <3>3. Room(attrs.count)' /\ UnderWay' + hist.opened <= UnderWay + hist'.opened
        BY <1>1, <2>1, <3>2 DEF CountInv, Room
      <3>4. job'[h].kind = "reopen" => job'[h].count + UnderWay' <= hist'.opened + 1
        BY <1>1, <2>1, <3>1, <3>2 DEF CountInv, Room, Attributes
      <3>5. QED BY <2>1, <3>1, <3>2, <3>3, <3>4, CountKept
    <2>3. CASE ~(ok /\ Wanted(job[h].kind))
      <3>1. job' = [job EXCEPT ![h] = NoJob]
        BY <1>2, <2>3 DEF ReadCase, Done
      <3>2. QED BY <1>1, <2>1, <3>1, CountAside
    <2>4. QED BY <2>2, <2>3
  <1>3. ASSUME NEW whom \in Found, NEW out \in Outcomes, Notify(h, whom, out) PROVE CountInv'
    <2>1. UNCHANGED <<attrs, reopens, sweep>> /\ hist'.opened = hist.opened
      BY <1>1, <1>3 DEF Notify, HistoryType
    <2>2. /\ \A g \in Slots \ {h} : job'[g] = job[g]
          /\ \/ job'[h] = NoJob
             \/ job'[h].base = job[h].base /\ job'[h].kind = job[h].kind /\ job'[h].count = job[h].count
      BY <1>1, <1>3 DEF Notify, Goto, Done, JobType
    <2>3. QED BY <2>1, <2>2, CountAside
  <1>4. ASSUME NEW ok \in BOOLEAN, PostNote(h, ok) PROVE CountInv'
    <2>1. UNCHANGED <<attrs, reopens, sweep>> /\ hist'.opened = hist.opened
      BY <1>1, <1>4 DEF PostNote, HistoryType
    <2>2. /\ \A g \in Slots \ {h} : job'[g] = job[g]
          /\ \/ job'[h] = NoJob
             \/ job'[h].base = job[h].base /\ job'[h].kind = job[h].kind /\ job'[h].count = job[h].count
      BY <1>1, <1>4 DEF PostNote, Goto, Done, JobType
    <2>3. QED BY <2>1, <2>2, CountAside
  <1>5. ASSUME NEW ok \in BOOLEAN, OpenCase(h, ok) PROVE CountInv'
    <2>1. job' = [job EXCEPT ![h] = NoJob] /\ UNCHANGED <<attrs, sweep>> /\ job[h].kind = "customer"
      BY <1>5 DEF OpenCase, Done, Job
    <2>2. CASE ok
      BY <1>5, <2>1, <2>2, CountOpened DEF OpenCase
    <2>3. CASE ~ok
      BY <1>1, <1>5, <2>1, <2>3, CountAside DEF OpenCase
    <2>4. QED BY <2>2, <2>3
  <1>6. ASSUME NEW ok \in BOOLEAN, GetAttributes(h, ok) PROVE CountInv'
    <2>1. UNCHANGED <<attrs, reopens, sweep, hist>>
      BY <1>6 DEF GetAttributes
    <2>2. /\ \A g \in Slots \ {h} : job'[g] = job[g]
          /\ \/ job'[h] = NoJob
             \/ /\ job'[h].base \in {attrs, Blank} /\ job'[h].kind = job[h].kind
                /\ job[h].kind = "reopen" => job'[h].count = job[h].count
      <3>1. CASE ok
        BY <1>1, <1>6, <3>1 DEF GetAttributes, JobType
      <3>2. CASE ~ok
        BY <1>6, <3>2, Written DEF GetAttributes
      <3>3. QED BY <3>1, <3>2
    <2>3. QED BY <2>1, <2>2, CountAside
  <1>7. ASSUME NEW ok \in BOOLEAN, PostAttributes(h, ok) PROVE CountInv'
    <2>1. /\ UNCHANGED <<reopens, sweep>> /\ hist'.opened = hist.opened
          /\ attrs' = attrs \/ attrs' = Merged(h)
      BY <1>1, <1>7 DEF PostAttributes, Replace, HistoryType
    <2>2. /\ \A g \in Slots \ {h} : job'[g] = job[g]
          /\ \/ job'[h] = NoJob
             \/ /\ job'[h].base = Blank /\ job[h].kind = "dealer"
                /\ job'[h].kind = job[h].kind /\ job'[h].count = 0
      <3>1. CASE ok
        BY <1>7, <3>1, Written DEF PostAttributes
      <3>2. CASE ~ok
        BY <1>1, <1>7, <3>2 DEF PostAttributes, Done
      <3>3. QED BY <3>1, <3>2
    <2>3. NoJob.kind # "reopen" /\ NoJob.base = Blank
      BY DEF NoJob
    <2>4. /\ IsFiniteSet(Reopening)' /\ Cardinality(Reopening)' \in Nat
          /\ Cardinality(Reopening)' = IF job[h].kind = "reopen" THEN Cardinality(Reopening) - 1
                                                                ELSE Cardinality(Reopening)
      BY <1>1, <2>2, <2>3, ReopeningMoves
    <2>5. UnderWay' <= UnderWay /\ UnderWay' \in Nat /\ UnderWay \in Nat
      BY <1>1, <2>1, <2>4 DEF UnderWay
    <2>6. /\ attrs.count \in Nat /\ job[h].base.count \in Nat /\ job[h].count \in Nat
      BY <1>1 DEF JobType, Attributes
    <2>7. Room(attrs.count)'
      <3>1. CASE attrs' = attrs
        BY <1>1, <2>1, <2>5, <2>6, <3>1 DEF CountInv, Room
      <3>2. CASE attrs' = Merged(h) /\ job[h].kind = "reopen"
        <4>1. attrs'.count = job[h].count
          BY <1>1, <3>2 DEF Merged, JobType, Attributes
        <4>2. UnderWay' = UnderWay - 1
          BY <1>1, <2>1, <2>4, <3>2 DEF UnderWay
        <4>3. QED BY <1>1, <2>1, <2>5, <2>6, <3>2, <4>1, <4>2 DEF CountInv, Room
      <3>3. CASE attrs' = Merged(h) /\ job[h].kind # "reopen"
        <4>1. attrs'.count = job[h].base.count
          BY <1>1, <3>3 DEF Merged, JobType, Attributes
        <4>2. QED BY <1>1, <2>1, <2>5, <2>6, <4>1 DEF CountInv, Room
      <3>4. QED BY <2>1, <3>1, <3>2, <3>3
    <2>8. UnderWay' + hist.opened <= UnderWay + hist'.opened
      BY <1>1, <2>1, <2>5
    <2>9. QED BY <2>1, <2>2, <2>3, <2>4, <2>7, <2>8, CountKept
  <1>8. ASSUME NEW ok \in BOOLEAN, GetLabels(h, ok) \/ PostLabels(h, ok) PROVE CountInv'
    <2>1. UNCHANGED <<attrs, reopens, sweep, hist>>
      BY <1>8 DEF GetLabels, PostLabels
    <2>2. /\ \A g \in Slots \ {h} : job'[g] = job[g]
          /\ \/ job'[h] = NoJob
             \/ job'[h].base = job[h].base /\ job'[h].kind = job[h].kind /\ job'[h].count = job[h].count
      BY <1>1, <1>8 DEF GetLabels, PostLabels, Done, JobType
    <2>3. QED BY <2>1, <2>2, CountAside
  <1>9. QED BY <1>2, <1>3, <1>4, <1>5, <1>6, <1>7, <1>8 DEF TaskStep

(* Everything else: webhooks, the sweep, agents and restarts. *)
LEMMA CountStep ==
    ASSUME TypeOK, TypeOK', CountInv, [Next]_vars
    PROVE  CountInv'
  <1>1. /\ job \in [Slots -> JobType] /\ attrs \in Attributes /\ hist \in HistoryType
        /\ sweep \in SweepType /\ reopens \in Nat /\ hist.opened \in Nat /\ reopens' \in Nat
        /\ IsFiniteSet(Reopening) /\ Cardinality(Reopening) \in Nat
    BY FS_CardinalityType DEF TypeOK, JobType, HistoryType, SweepType, CountInv
  <1>2. NoJob.kind = "none" /\ NoJob.base = Blank /\ NoJob.count = 0 /\ NoSweep.base = Blank
    BY DEF NoJob, NoSweep
  <1>3. ASSUME NEW h \in Slots, NEW kind, NEW phase, Start(h, kind, phase)
        PROVE  /\ \A g \in Slots \ {h} : job'[g] = job[g]
               /\ job[h].kind = "none" /\ job'[h].base = job[h].base
               /\ job'[h].kind = kind /\ job'[h].count = 0
    BY <1>1, <1>2, <1>3 DEF Start, NoJob
  <1>4. ASSUME NEW h \in Slots, NEW kind, NEW phase, Start(h, kind, phase), kind # "reopen",
               UNCHANGED <<attrs, reopens, sweep, hist>>
        PROVE  CountInv'
    <2>1. /\ IsFiniteSet(Reopening)' /\ Cardinality(Reopening)' \in Nat
          /\ UnderWay' = UnderWay
      BY <1>1, <1>3, <1>4, ReopeningMoves DEF UnderWay
    <2>2. Room(attrs.count)' /\ UnderWay' + hist.opened <= UnderWay + hist'.opened
      BY <1>1, <1>4, <2>1 DEF CountInv, Room, UnderWay
    <2>3. /\ \A g \in Slots \ {h} : job'[g] = job[g]
          /\ job'[h].base = job[h].base /\ job'[h].kind # "reopen"
      BY <1>3, <1>4
    <2>4. QED BY <1>4, <2>1, <2>2, <2>3, CountKept
  <1>5. ASSUME NEW h \in Slots, NEW e \in events, MaybeEscalate(h, e) PROVE CountInv'
    <2>1. UNCHANGED <<attrs, reopens, sweep, hist>>
      BY <1>5 DEF MaybeEscalate
    <2>2. Start(h, "notify", "read") \/ Start(h, "rearm", "get") \/ job' = job
      BY <1>5 DEF MaybeEscalate
    <2>3. QED BY <1>4, <2>1, <2>2, CountAside
  <1>6. ASSUME NEW h \in Slots, RecordStatus(h) PROVE CountInv'
    <2>1. /\ UNCHANGED <<attrs, sweep, hist>> /\ reopens' = reopens - 1
          /\ Start(h, "reopen", "read")
      BY <1>6 DEF RecordStatus
    <2>2. /\ \A g \in Slots \ {h} : job'[g] = job[g]
          /\ job[h].kind = "none" /\ job'[h].base = job[h].base
          /\ job'[h].kind = "reopen" /\ job'[h].count = 0
      BY <1>3, <2>1
    <2>3. /\ IsFiniteSet(Reopening)' /\ Cardinality(Reopening)' \in Nat
          /\ Cardinality(Reopening)' = Cardinality(Reopening) + 1
      BY <2>2, ReopeningMoves
    <2>4. UnderWay' = UnderWay /\ UnderWay \in Nat
      BY <1>1, <2>1, <2>3 DEF UnderWay
    <2>5. /\ Room(attrs.count)' /\ UnderWay' + hist.opened <= UnderWay + hist'.opened
          /\ 0 + UnderWay' <= hist'.opened + 1
      BY <1>1, <2>1, <2>4 DEF CountInv, Room, Attributes
    <2>6. QED BY <2>1, <2>2, <2>3, <2>5, CountKept
  <1>7. ASSUME NEW h \in Slots, NEW kind \in Arriving, Arrives(h, kind) PROVE CountInv'
    BY <1>4, <1>7 DEF Arrives, Arriving
  <1>8. CASE ListCases \/ SkipCase
    <2>1. sweep'.base \in {sweep.base, Blank}
      BY <1>1, <1>2, <1>8 DEF ListCases, SkipCase, SweepType
    <2>2. QED BY <1>8, <2>1, CountAside DEF ListCases, SkipCase
  <1>9. ASSUME NEW n \in Rungs, NEW to \in BOOLEAN, NEW ok \in BOOLEAN, ReadForStamp(n, to, ok)
        PROVE  CountInv'
    <2>1. hist'.opened = hist.opened /\ UNCHANGED <<attrs, reopens, job>>
      BY <1>1, <1>9 DEF ReadForStamp, HistoryType
    <2>2. sweep'.base \in {attrs, Blank}
      BY <1>1, <1>2, <1>9 DEF ReadForStamp, AfterStamp, NoSweep
    <2>3. QED BY <2>1, <2>2, CountAside
  <1>10. ASSUME NEW ok \in BOOLEAN, StampRung(ok) PROVE CountInv'
    <2>1. /\ hist'.opened = hist.opened /\ UNCHANGED <<reopens, job>>
          /\ \/ attrs' = attrs
             \/ attrs' = [sweep.base EXCEPT !.stamps = @ \cup {sweep.rung}, !.counter = sweep.rung]
      BY <1>1, <1>10 DEF StampRung, Replace, HistoryType
    <2>2. attrs'.count \in {attrs.count, sweep.base.count}
      BY <1>1, <2>1 DEF SweepType, Attributes
    <2>3. sweep'.base = Blank
      BY <1>1, <1>2, <1>10 DEF StampRung, AfterStamp, NoSweep
    <2>4. Reopening' = Reopening /\ UnderWay' = UnderWay /\ UnderWay \in Nat
      BY <1>1, <2>1 DEF Reopening, UnderWay
    <2>5. Room(attrs.count)' /\ UnderWay' + hist.opened <= UnderWay + hist'.opened
      BY <1>1, <2>1, <2>2, <2>4 DEF CountInv, Room
    <2>6. QED BY <1>1, <2>1, <2>3, <2>4, <2>5, CountKept
  <1>11. ASSUME NEW ok \in BOOLEAN, SendRung(ok) PROVE CountInv'
    <2>1. hist'.opened = hist.opened /\ UNCHANGED <<attrs, reopens, job>> /\ sweep' = NoSweep
      BY <1>1, <1>11 DEF SendRung, Unsent, HistoryType
    <2>2. QED BY <1>2, <2>1, CountAside
  <1>12. CASE AgentReopens
    BY <1>12, CountOpened DEF AgentReopens
  <1>13. CASE AgentAcknowledges
    <2>1. /\ attrs'.count = attrs.count /\ UNCHANGED <<reopens, job, sweep, hist>>
      BY <1>1, <1>13 DEF AgentAcknowledges, Attributes
    <2>2. Reopening' = Reopening /\ UnderWay' = UnderWay /\ UnderWay \in Nat
      BY <1>1, <2>1 DEF Reopening, UnderWay
    <2>3. Room(attrs.count)' /\ UnderWay' + hist.opened <= UnderWay + hist'.opened
      BY <1>1, <2>1, <2>2 DEF CountInv, Room
    <2>4. QED BY <1>1, <2>1, <2>2, <2>3, CountKept
  <1>14. CASE AgentEscalates \/ AgentWithdraws \/ AgentResolves \/ AgentEdits
    BY <1>14, CountAside DEF AgentEscalates, AgentWithdraws, AgentResolves, AgentEdits
  <1>15. CASE AgentServiceRestarts \/ BackendRestarts \/ UNCHANGED vars
    <2>1. hist'.opened = hist.opened
      BY <1>1, <1>15 DEF AgentServiceRestarts, BackendRestarts, Unsent, HistoryType, vars
    <2>2. QED BY <1>2, <1>15, <2>1, CountAside DEF AgentServiceRestarts, BackendRestarts, vars
  <1>16. QED BY <1>5, <1>6, <1>7, <1>8, <1>9, <1>10, <1>11, <1>12, <1>13, <1>14, <1>15, CountTaskStep
             DEF Next, SweepStep, AgentStep

(* Reopenings may be lost but never counted twice, however many tasks read *)
(* and write the counter at once and whatever old count is put back.       *)
THEOREM ReopensNeverOvercounted == Spec => []NeverOvercounted
  <1>1. Init => CountInv
    <2>1. ASSUME Init PROVE Reopening = {}
      BY <2>1 DEF Init, Reopening, NoJob
    <2>2. ASSUME Init PROVE UnderWay = 0 /\ IsFiniteSet(Reopening)
      BY <2>1, <2>2, FS_EmptySet DEF Init, UnderWay
    <2>3. ASSUME Init
          PROVE  /\ attrs.count = 0 /\ sweep.base.count = 0 /\ hist.opened = 0
                 /\ \A h \in Slots : job[h].base.count = 0 /\ job[h].kind = "none"
      BY <2>3 DEF Init, NoHistory, NoSweep, NoJob, Blank
    <2>4. QED BY <2>2, <2>3 DEF CountInv, Room
  <1>2. TypeOK /\ CountInv => NeverOvercounted
    <2>1. ASSUME TypeOK, CountInv PROVE attrs.count <= hist.opened
      <3>1. /\ attrs.count \in Nat /\ hist.opened \in Nat /\ reopens \in Nat
            /\ Cardinality(Reopening) \in Nat
        BY <2>1, FS_CardinalityType DEF TypeOK, Attributes, CountInv
      <3>2. QED BY <2>1, <3>1 DEF CountInv, Room, UnderWay
    <2>2. QED BY <2>1 DEF NeverOvercounted
  <1>3. QED BY <1>1, <1>2, CountStep, TypeCorrect, PTL DEF Spec

=============================================================================
