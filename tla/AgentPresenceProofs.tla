------------------------ MODULE AgentPresenceProofs ------------------------
(***************************************************************************)
(* Proofs about AgentPresence, for any number of acts and faults.          *)
(*                                                                         *)
(* Alerts match their event because the alerting job works on a copy of    *)
(* the event it has read: while that event is still the latest (same), the *)
(* copy misses at most the "warn" the job has stamped itself (CopyFits),   *)
(* and the alert about to go out is not in the copy (NotYet).              *)
(***************************************************************************)
EXTENDS AgentPresence, TLAPS

Mirrored == {"available", "lunch", "acw"}

(* A status on its way to Chatwoot is one with a native counterpart. *)
WritesMirrored ==
    \A w \in Writers : writer[w].phase = "write" => writer[w].status \in Mirrored

(* The writers; their order; everything else. *)
WriterType ==
    /\ writer \in [Writers -> [phase : {"idle", "check", "read", "fetch", "compare", "write",
                                        "stamp", "append"},
                               status : Statuses \cup {"none"}]]
    /\ WritesMirrored
OrderType == older \in [Writers -> SUBSET Writers] /\ late \subseteq Writers
WatchType == [phase : {"idle", "elapsed", "alert", "stamp"}, level : Levels, age : 0..2,
              alerts : SUBSET Levels, same : BOOLEAN]
EventType == [status : Statuses \cup {"none"}, age : 0..2, alerts : SUBSET Levels]
RestType ==
    /\ native \in Natives /\ member \in BOOLEAN
    /\ latest \in EventType /\ watch \in WatchType
    /\ fired \in [Levels -> Nat] /\ heard \subseteq Levels /\ unstamped \in BOOLEAN
    /\ acts \in 0..MaxActs /\ faults \in 0..MaxFaults

TypeInv == WriterType /\ OrderType /\ RestType

StampedWasFired == \A l \in latest.alerts : fired[l] >= 1
StampFollowsAlert == watch.phase = "stamp" /\ watch.same => fired[watch.level] >= 1
FiredOnce == ~unstamped => \A l \in Levels : fired[l] <= 1
FiredIsStamped ==
    ~unstamped => \A l \in Levels : fired[l] >= 1 =>
        \/ l \in latest.alerts
        \/ watch.phase = "stamp" /\ watch.same /\ watch.level = l
CopyFits ==
    watch.phase # "idle" /\ watch.same =>
        \A l \in latest.alerts : l \in watch.alerts \/ (l = "warn" /\ watch.level = "escalate")
NotYet ==
    /\ watch.phase = "elapsed" => watch.level = "warn"
    /\ watch.phase \in {"alert", "stamp"} => watch.level \notin watch.alerts

AlertInv == /\ StampedWasFired /\ StampFollowsAlert /\ FiredOnce
            /\ FiredIsStamped /\ CopyFits /\ NotYet

-----------------------------------------------------------------------------
(* Types. *)

LEMMA TypeGives == TypeInv => TypeOK
BY DEF TypeInv, TypeOK, WriterType, OrderType, RestType, EventType, WatchType

LEMMA MirrorNative == /\ \A s \in Mirrored : Mirror[s] \in Natives /\ s \in Statuses
                      /\ Choices \subseteq Mirrored
BY SMTT(30) DEF Mirrored, Mirror, Natives, Choices, Statuses

LEMMA AsleepType == /\ Asleep \in WatchType /\ Asleep.phase = "idle"
                    /\ Asleep.level = "warn" /\ Asleep.same = FALSE
<1>1. ASSUME NEW no \in BOOLEAN
      PROVE  [phase |-> "idle", level |-> "warn", age |-> 0, alerts |-> {}, same |-> no] \in WatchType
  BY DEF WatchType, Levels
<1>2. ASSUME NEW no,
             NEW r, r = [phase |-> "idle", level |-> "warn", age |-> 0, alerts |-> {}, same |-> no]
      PROVE  r.phase = "idle" /\ r.level = "warn" /\ r.same = no
  BY <1>2
<1> QED BY <1>1, <1>2 DEF Asleep

LEMMA RestingType == /\ Resting.phase = "idle" /\ Resting.status = "none"
                     /\ Resting = [phase |-> "idle", status |-> "none"]
BY DEF Resting

LEMMA TypeInit == Init => TypeInv
<1> SUFFICES ASSUME Init PROVE TypeInv
  OBVIOUS
<1>1. native \in Natives /\ member \in BOOLEAN
  BY DEF Init, Natives
<1>2. latest \in EventType
  BY DEF Init, NoEvent, EventType
<1>3. WritesMirrored /\ writer \in [Writers -> [phase : {"idle", "check", "read", "fetch",
          "compare", "write", "stamp", "append"}, status : Statuses \cup {"none"}]]
  BY DEF Init, Resting, WritesMirrored
<1>4. older \in [Writers -> SUBSET Writers] /\ late \subseteq Writers /\ unstamped \in BOOLEAN
  BY DEF Init
<1>6. acts \in 0..MaxActs /\ faults \in 0..MaxFaults
  BY BoundsAssumption DEF Init, BoundsAssumption
<1>7. fired \in [Levels -> Nat] /\ heard \subseteq Levels
  BY DEF Init, Unfired
<1>5. watch \in WatchType
  BY AsleepType DEF Init
<1> QED BY <1>1, <1>2, <1>3, <1>4, <1>5, <1>6, <1>7 DEF TypeInv, WriterType, OrderType, RestType

LEMMA GoesType ==
    ASSUME WriterType, NEW w \in Writers,
           NEW p \in {"idle", "check", "read", "fetch", "compare", "write", "stamp", "append"},
           NEW s \in Statuses \cup {"none"}, p = "write" => s \in Mirrored,
           Goes(w, p, s)
    PROVE  WriterType'
BY SMTT(30) DEF WriterType, WritesMirrored, Goes

LEMMA RestsType ==
    ASSUME WriterType, NEW w \in Writers, writer' = [writer EXCEPT ![w] = Resting]
    PROVE  WriterType'
BY SMTT(30) DEF WriterType, WritesMirrored, Resting

LEMMA ForgetsType ==
    ASSUME OrderType, NEW w \in Writers, Forgets(w), late' \subseteq Writers
    PROVE  OrderType'
BY DEF OrderType, Forgets

LEMMA EndsType ==
    ASSUME WriterType, OrderType, NEW w \in Writers, Ends(w)
    PROVE  WriterType' /\ OrderType'
<1>1. WriterType'
  BY RestsType DEF Ends
<1>2. late' \subseteq Writers
  BY DEF Ends, OrderType
<1> QED BY <1>1, <1>2, ForgetsType DEF Ends

LEMMA TakesTimeType ==
    ASSUME OrderType, NEW w \in Writers, TakesTime(w)
    PROVE  OrderType'
BY DEF OrderType, TakesTime

LEMMA ActType ==
    ASSUME acts \in 0..MaxActs, Act PROVE acts' \in 0..MaxActs
BY BoundsAssumption DEF Act, BoundsAssumption

LEMMA OutcomeType ==
    ASSUME faults \in 0..MaxFaults, NEW ok \in BOOLEAN, Outcome(ok) PROVE faults' \in 0..MaxFaults
BY BoundsAssumption DEF Outcome, BoundsAssumption

LEMMA AgentCallType ==
    ASSUME faults \in 0..MaxFaults, NEW ok \in BOOLEAN, AgentCall(ok)
    PROVE  faults' \in 0..MaxFaults /\ (ok => member)
BY OutcomeType DEF AgentCall, Outcome

LEMMA FrameType ==
    ASSUME RestType, UNCHANGED logVars, native' \in Natives, member' \in BOOLEAN,
           acts' \in 0..MaxActs, faults' \in 0..MaxFaults
    PROVE  RestType'
BY DEF RestType, logVars

(* What the alerting job turns to. *)
LEMMA Continued ==
    ASSUME watch \in WatchType, NEW levels \in SUBSET Levels
    PROVE  /\ Continue(levels) \in WatchType
           /\ \/ Continue(levels).phase = "idle" /\ Continue(levels).same = FALSE
              \/ /\ Continue(levels).phase = "alert"
                 /\ Continue(levels).level \in levels
                 /\ Continue(levels).same = watch.same
                 /\ Continue(levels).alerts = watch.alerts
                 /\ Continue(levels).age = watch.age
                 /\ Continue(levels).level = "escalate" => "warn" \notin levels
<1>1. CASE "warn" \in levels
  <2>1. Continue(levels) = [watch EXCEPT !.phase = "alert", !.level = "warn"]
    BY <1>1 DEF Continue
  <2> QED BY <1>1, <2>1 DEF WatchType, Levels
<1>2. CASE "warn" \notin levels /\ "escalate" \in levels
  <2>1. Continue(levels) = [watch EXCEPT !.phase = "alert", !.level = "escalate"]
    BY <1>2 DEF Continue
  <2> QED BY <1>2, <2>1 DEF WatchType, Levels
<1>3. CASE "warn" \notin levels /\ "escalate" \notin levels
  <2>1. Continue(levels) = Asleep
    BY <1>3 DEF Continue
  <2> QED BY <2>1, AsleepType
<1> QED BY <1>1, <1>2, <1>3

LEMMA OutsideType ==
    ASSUME TypeInv,
           \/ \E n \in Natives : UseChatwoot(n)
           \/ \E status \in Choices : Choose(status)
           \/ Leave \/ CallEnds \/ Elapse \/ Restart
    PROVE  TypeInv'
<1>0. WriterType /\ OrderType /\ RestType
  BY DEF TypeInv
<1>1. ASSUME NEW n \in Natives, UseChatwoot(n) PROVE TypeInv'
  <2>1. RestType'
    BY <1>0, <1>1, ActType, FrameType DEF UseChatwoot, RestType
  <2>2. WriterType' /\ OrderType'
    BY <1>0, <1>1 DEF UseChatwoot, WriterType, WritesMirrored, OrderType
  <2> QED BY <2>1, <2>2 DEF TypeInv
<1>2. ASSUME NEW status \in Choices, Choose(status) PROVE TypeInv'
  <2>1. RestType'
    BY <1>0, <1>2, ActType, FrameType DEF Choose, RestType
  <2>2. status \in Mirrored /\ status \in Statuses
    BY MirrorNative
  <2>3. WriterType'
    BY <1>0, <1>2, <2>2, GoesType DEF Choose, Writers
  <2>4. OrderType'
    BY <1>0, <1>2 DEF Choose, OrderType
  <2> QED BY <2>1, <2>3, <2>4 DEF TypeInv
<1>3. ASSUME Leave PROVE TypeInv'
  <2>0. member' \in BOOLEAN
    BY <1>3 DEF Leave
  <2>1. RestType'
    BY <1>0, <1>3, <2>0, ActType, FrameType DEF Leave, RestType
  <2>2. WriterType' /\ OrderType'
    BY <1>0, <1>3 DEF Leave, WriterType, WritesMirrored, OrderType
  <2> QED BY <2>1, <2>2 DEF TypeInv
<1>4. ASSUME CallEnds PROVE TypeInv'
  <2>1. RestType'
    BY <1>0, <1>4, ActType, FrameType DEF CallEnds, RestType
  <2>2. "acw" \in Statuses
    BY MirrorNative DEF Mirrored
  <2>3. WriterType'
    BY <1>0, <1>4, <2>2, GoesType DEF CallEnds, Writers
  <2>4. OrderType'
    BY <1>0, <1>4 DEF CallEnds, OrderType
  <2> QED BY <2>1, <2>3, <2>4 DEF TypeInv
<1>5. ASSUME Elapse PROVE TypeInv'
  <2>1. latest' \in EventType
    BY <1>0, <1>5 DEF Elapse, RestType, EventType
  <2>2. RestType' /\ WriterType' /\ OrderType'
    BY <1>0, <1>5, <2>1 DEF Elapse, RestType, WriterType, WritesMirrored, OrderType
  <2> QED BY <2>2 DEF TypeInv
<1>6. ASSUME Restart PROVE TypeInv'
  <2>1. WriterType' /\ OrderType'
    BY <1>6, RestingType DEF Restart, WriterType, WritesMirrored, OrderType
  <2>2. watch' \in WatchType /\ unstamped' \in BOOLEAN
    BY <1>0, <1>6, AsleepType DEF Restart, RestType
  <2>3. faults' \in 0..MaxFaults
    BY <1>0, <1>6, BoundsAssumption DEF Restart, RestType, BoundsAssumption
  <2>4. RestType'
    BY <1>0, <1>6, <2>2, <2>3 DEF Restart, RestType
  <2> QED BY <2>1, <2>4 DEF TypeInv
<1> QED BY <1>1, <1>2, <1>3, <1>4, <1>5, <1>6

LEMMA WriterStepType ==
    ASSUME TypeInv, NEW w \in Writers, NEW ok \in BOOLEAN,
           SetNative(w, ok) \/ Stamp(w) \/ AppendEvent(w, ok)
    PROVE  TypeInv'
<1>0. WriterType /\ OrderType /\ RestType
  BY DEF TypeInv
<1>1. ASSUME SetNative(w, ok) PROVE TypeInv'
  <2>1. writer[w].status \in Mirrored /\ faults' \in 0..MaxFaults
    BY <1>0, <1>1, AgentCallType DEF SetNative, WriterType, WritesMirrored, RestType
  <2>2. Mirror[writer[w].status] \in Natives /\ writer[w].status \in Statuses
    BY <2>1, MirrorNative
  <2>3. RestType'
    <3>1. native' \in Natives /\ member' \in BOOLEAN /\ acts' \in 0..MaxActs
      BY <1>0, <1>1, <2>2 DEF SetNative, RestType
    <3> QED BY <1>0, <1>1, <2>1, <3>1, FrameType DEF SetNative
  <2>4. CASE ok
    <3>1. \E p \in {"append", "stamp"} : Goes(w, p, writer[w].status)
      BY <1>1, <2>4 DEF SetNative
    <3>2. WriterType'
      BY <1>0, <2>2, <3>1, GoesType
    <3>3. OrderType'
      BY <1>0, <1>1, <2>4 DEF SetNative, OrderType
    <3> QED BY <2>3, <3>2, <3>3 DEF TypeInv
  <2>5. CASE ~ok
    <3>1. WriterType' /\ OrderType'
      BY <1>0, <1>1, <2>5, EndsType DEF SetNative
    <3> QED BY <2>3, <3>1 DEF TypeInv
  <2> QED BY <2>4, <2>5
<1>2. ASSUME Stamp(w) PROVE TypeInv'
  <2>1. writer[w].status \in Statuses \cup {"none"}
    BY <1>0 DEF WriterType
  <2>2. WriterType' /\ OrderType'
    BY <1>0, <1>2, <2>1, GoesType, TakesTimeType DEF Stamp
  <2>3. RestType'
    BY <1>0, <1>2, FrameType DEF Stamp, RestType
  <2> QED BY <2>2, <2>3 DEF TypeInv
<1>3. ASSUME AppendEvent(w, ok) PROVE TypeInv'
  <2>1. late' \subseteq Writers
    BY <1>0, <1>3 DEF AppendEvent, Tops, Buried, OrderType
  <2>2. WriterType' /\ OrderType'
    BY <1>0, <1>3, <2>1, RestsType, ForgetsType DEF AppendEvent
  <2>3. faults' \in 0..MaxFaults
    BY <1>0, <1>3, OutcomeType DEF AppendEvent, RestType
  <2>4. CASE Tops(w)
    <3>1. latest' \in EventType
      BY <1>0, <2>4 DEF Tops, EventType, WriterType
    <3>2. fired' \in [Levels -> Nat] /\ heard' \subseteq Levels
      BY <2>4 DEF Tops, Unfired
    <3>3. unstamped' \in BOOLEAN
      BY <2>4 DEF Tops
    <3>4. ASSUME NEW no \in BOOLEAN PROVE [watch EXCEPT !.same = no] \in WatchType
      BY <1>0 DEF RestType, WatchType
    <3>5. watch' \in WatchType
      BY <2>4, <3>4 DEF Tops
    <3> QED BY <1>0, <1>3, <2>2, <2>3, <3>1, <3>2, <3>3, <3>5 DEF AppendEvent, TypeInv, RestType
  <2>5. CASE Buried(w)
    <3>1. RestType'
      BY <1>0, <1>3, <2>3, <2>5, FrameType DEF AppendEvent, Buried, RestType
    <3> QED BY <2>2, <3>1 DEF TypeInv
  <2> QED BY <1>3, <2>4, <2>5 DEF AppendEvent
<1> QED BY <1>1, <1>2, <1>3

LEMMA JobStepType ==
    ASSUME TypeInv, NEW ok \in BOOLEAN, NEW log \in BOOLEAN,
           CheckOffline(ok) \/ BeginExpiry \/ ExpireIfDue(ok) \/ BeginPoll \/ Fetch(ok) \/ Reconcile(log, ok)
    PROVE  TypeInv'
<1>0. WriterType /\ OrderType /\ RestType /\ Writers = {"agent", "callend", "expiry", "poll"}
  BY DEF TypeInv, Writers
<1>m. "acw" \in Mirrored /\ "available" \in Mirrored /\ Mirrored \subseteq Statuses
      /\ Natives \subseteq Statuses
  BY MirrorNative DEF Mirrored, Statuses
<1>1. ASSUME CheckOffline(ok) PROVE TypeInv'
  <2>1. RestType'
    BY <1>0, <1>1, AgentCallType, FrameType DEF CheckOffline, RestType
  <2>2. \/ Goes("callend", "write", "acw") /\ UNCHANGED <<older, late>>
        \/ Ends("callend")
    BY <1>1 DEF CheckOffline
  <2>3. WriterType'
    BY <1>0, <1>m, <2>2, GoesType, EndsType
  <2>4. OrderType'
    BY <1>0, <2>2, EndsType DEF OrderType
  <2> QED BY <2>1, <2>3, <2>4 DEF TypeInv
<1>2. ASSUME BeginExpiry PROVE TypeInv'
  <2>1. RestType'
    BY <1>0, <1>2, FrameType DEF BeginExpiry, RestType
  <2>2. WriterType' /\ OrderType'
    BY <1>0, <1>m, <1>2, GoesType, TakesTimeType DEF BeginExpiry
  <2> QED BY <2>1, <2>2 DEF TypeInv
<1>3. ASSUME ExpireIfDue(ok) PROVE TypeInv'
  <2>1. RestType'
    BY <1>0, <1>3, OutcomeType, FrameType DEF ExpireIfDue, RestType
  <2>2. \/ Goes("expiry", "write", "available") /\ UNCHANGED <<older, late>>
        \/ Ends("expiry")
    BY <1>3 DEF ExpireIfDue
  <2>3. WriterType'
    BY <1>0, <1>m, <2>2, GoesType, EndsType
  <2>4. OrderType'
    BY <1>0, <2>2, EndsType DEF OrderType
  <2> QED BY <2>1, <2>3, <2>4 DEF TypeInv
<1>4. ASSUME BeginPoll PROVE TypeInv'
  <2>1. RestType'
    BY <1>0, <1>4, FrameType DEF BeginPoll, RestType
  <2>2. WriterType' /\ OrderType'
    BY <1>0, <1>4, GoesType, TakesTimeType DEF BeginPoll
  <2> QED BY <2>1, <2>2 DEF TypeInv
<1>5. ASSUME Fetch(ok) PROVE TypeInv'
  <2>1. RestType'
    BY <1>0, <1>5, AgentCallType, FrameType DEF Fetch, RestType
  <2>2. \/ Goes("poll", "compare", native) /\ UNCHANGED <<older, late>>
        \/ Ends("poll")
    BY <1>5 DEF Fetch
  <2>3. WriterType'
    BY <1>0, <1>m, <2>2, GoesType, EndsType DEF RestType
  <2>4. OrderType'
    BY <1>0, <2>2, EndsType DEF OrderType
  <2> QED BY <2>1, <2>3, <2>4 DEF TypeInv
<1>6. ASSUME Reconcile(log, ok) PROVE TypeInv'
  <2>0. (log /\ ok) \in BOOLEAN
    OBVIOUS
  <2>1. faults' \in 0..MaxFaults
    BY <1>0, <1>6, <2>0, OutcomeType DEF Reconcile, RestType
  <2>2. RestType'
    BY <1>0, <1>6, <2>1, FrameType DEF Reconcile, RestType
  <2>3. \/ Goes("poll", "append", writer["poll"].status) /\ UNCHANGED <<older, late>>
        \/ Ends("poll")
    BY <1>6 DEF Reconcile
  <2>4. writer["poll"].status \in Statuses \cup {"none"}
    BY <1>0 DEF WriterType
  <2>5. WriterType'
    BY <1>0, <2>3, <2>4, GoesType, EndsType
  <2>6. OrderType'
    BY <1>0, <2>3, EndsType DEF OrderType
  <2> QED BY <2>2, <2>5, <2>6 DEF TypeInv
<1> QED BY <1>1, <1>2, <1>3, <1>4, <1>5, <1>6

LEMMA DueType == ASSUME NEW age, NEW alerts PROVE Due(age, alerts) \in SUBSET Levels
BY DEF Due

LEMMA WatchStepType ==
    ASSUME TypeInv, NEW ok \in BOOLEAN, ReadLatest \/ ReadElapsed(ok) \/ Alert(ok) \/ StampAlert(ok)
    PROVE  TypeInv'
<1>0. WriterType /\ OrderType /\ RestType
  BY DEF TypeInv
<1>1. WriterType' /\ OrderType'
  BY <1>0 DEF ReadLatest, ReadElapsed, Alert, StampAlert, WriterType, WritesMirrored, OrderType
<1>2. faults' \in 0..MaxFaults
  BY <1>0, OutcomeType DEF ReadLatest, ReadElapsed, Alert, StampAlert, RestType
<1>3. watch' \in WatchType
  <2>1. CASE ReadLatest
    <3>1. ASSUME NEW yes \in BOOLEAN, NEW a \in SUBSET Levels
          PROVE  [Asleep EXCEPT !.phase = "elapsed", !.alerts = a, !.same = yes] \in WatchType
      BY AsleepType DEF WatchType
    <3>2. latest.alerts \in SUBSET Levels
      BY <1>0 DEF RestType, EventType
    <3> QED BY <2>1, <3>1, <3>2 DEF ReadLatest
  <2>2. CASE ReadElapsed(ok)
    <3>1. ASSUME NEW c \in WatchType PROVE [c EXCEPT !.age = latest.age] \in WatchType
      BY <1>0 DEF RestType, EventType, WatchType
    <3> QED BY <1>0, <2>2, <3>1, Continued, DueType, AsleepType DEF ReadElapsed, RestType
  <2>3. CASE Alert(ok)
    BY <1>0, <2>3 DEF Alert, RestType, WatchType
  <2>4. CASE StampAlert(ok)
    <3>1. Due(watch.age, watch.alerts) \ {"warn"} \in SUBSET Levels
      BY DueType
    <3> QED BY <1>0, <2>4, <3>1, Continued, AsleepType DEF StampAlert, RestType
  <2> QED BY <2>1, <2>2, <2>3, <2>4
<1>4. latest' \in EventType
  BY <1>0 DEF ReadLatest, ReadElapsed, Alert, StampAlert, RestType, EventType, WatchType
<1>5. fired' \in [Levels -> Nat] /\ heard' \subseteq Levels
  BY <1>0 DEF ReadLatest, ReadElapsed, Alert, StampAlert, RestType, WatchType
<1>6. unstamped' \in BOOLEAN
  BY <1>0 DEF ReadLatest, ReadElapsed, Alert, StampAlert, RestType
<1>7. RestType'
  BY <1>0, <1>2, <1>3, <1>4, <1>5, <1>6 DEF ReadLatest, ReadElapsed, Alert, StampAlert, RestType
<1> QED BY <1>1, <1>7 DEF TypeInv

LEMMA TypeNext == TypeInv /\ [Next]_vars => TypeInv'
<1> SUFFICES ASSUME TypeInv, [Next]_vars PROVE TypeInv'
  OBVIOUS
<1>1. CASE UNCHANGED vars
  BY <1>1 DEF TypeInv, WriterType, WritesMirrored, OrderType, RestType, vars
<1>2. CASE Next
  <2>1. "agent" \in Writers /\ "callend" \in Writers /\ "expiry" \in Writers /\ "poll" \in Writers
    BY DEF Writers
  <2> QED
    BY <1>2, <2>1, OutsideType, WriterStepType, JobStepType, WatchStepType
       DEF Next, AgentStep, CallStep, ExpiryStep, PollStep, WatchStep, Request
<1> QED BY <1>1, <1>2

(* Every variable of the presence model keeps its type, for every number   *)
(* of acts, failed calls and restarts.                                     *)
THEOREM PresenceTypeCorrect == Spec => []TypeOK
<1>1. TypeInv => TypeOK
  BY TypeGives
<1> QED BY <1>1, TypeInit, TypeNext, PTL DEF Spec

-----------------------------------------------------------------------------
(* Alerts. *)

LEMMA AlertInit == Init => AlertInv
<1> SUFFICES ASSUME Init PROVE AlertInv
  OBVIOUS
<1>1. watch.phase = "idle" /\ watch.same = FALSE
  BY AsleepType DEF Init
<1>2. latest.alerts = {} /\ \A l \in Levels : fired[l] = 0
  BY DEF Init, NoEvent, Unfired
<1> QED
  BY <1>1, <1>2 DEF AlertInv, StampedWasFired, StampFollowsAlert, FiredOnce, FiredIsStamped, CopyFits, NotYet

(* The part of the latest event that matters here. *)
LEMMA AlertFrame ==
    ASSUME AlertInv, latest'.alerts = latest.alerts, UNCHANGED <<watch, fired, unstamped>>
    PROVE  AlertInv'
BY DEF AlertInv, StampedWasFired, StampFollowsAlert, FiredOnce, FiredIsStamped, CopyFits, NotYet

LEMMA AlertOthers ==
    ASSUME TypeInv, AlertInv,
           \/ UNCHANGED vars
           \/ \E n \in Natives : UseChatwoot(n)
           \/ \E status \in Choices : Choose(status)
           \/ Leave \/ CallEnds \/ Elapse
           \/ \E w \in Writers, ok \in BOOLEAN : SetNative(w, ok) \/ Stamp(w)
           \/ \E ok, log \in BOOLEAN : CheckOffline(ok) \/ BeginExpiry \/ ExpireIfDue(ok)
                                       \/ BeginPoll \/ Fetch(ok) \/ Reconcile(log, ok)
    PROVE  AlertInv'
<1>1. ASSUME Elapse PROVE latest'.alerts = latest.alerts /\ UNCHANGED <<watch, fired, unstamped>>
  BY <1>1 DEF Elapse, TypeInv, RestType, EventType
<1>2. ASSUME ~Elapse PROVE UNCHANGED logVars
  BY <1>2 DEF vars, UseChatwoot, Choose, Leave, CallEnds, SetNative, Stamp, CheckOffline, BeginExpiry,
              ExpireIfDue, BeginPoll, Fetch, Reconcile, logVars
<1> QED BY <1>1, <1>2, AlertFrame DEF logVars

LEMMA AlertAppend ==
    ASSUME TypeInv, AlertInv, NEW w \in Writers, NEW ok \in BOOLEAN, AppendEvent(w, ok)
    PROVE  AlertInv'
<1>1. CASE Tops(w)
  <2>1. latest'.alerts = {} /\ \A l \in Levels : fired'[l] = 0
    BY <1>1 DEF Tops, Unfired
  <2>2. watch'.phase = watch.phase /\ watch'.level = watch.level /\ watch'.alerts = watch.alerts
    BY <1>1 DEF Tops, TypeInv, RestType, WatchType
  <2>3. ASSUME NEW no \in BOOLEAN, watch' = [watch EXCEPT !.same = no] PROVE watch'.same = no
    BY <2>3 DEF TypeInv, RestType, WatchType
  <2>4. ~watch'.same
    BY <1>1, <2>3 DEF Tops
  <2> QED
    BY <2>1, <2>2, <2>4
       DEF AlertInv, StampedWasFired, StampFollowsAlert, FiredOnce, FiredIsStamped, CopyFits, NotYet
<1>2. CASE Buried(w)
  BY <1>2, AlertFrame DEF Buried, logVars
<1> QED BY <1>1, <1>2 DEF AppendEvent

LEMMA AlertRestart == ASSUME TypeInv, AlertInv, Restart PROVE AlertInv'
<1>1. watch'.phase = "idle" /\ watch'.same = FALSE
  BY AsleepType DEF Restart
<1>2. UNCHANGED <<latest, fired>> /\ (unstamped' <=> unstamped \/ (watch.phase = "stamp" /\ watch.same))
  BY DEF Restart
<1> QED
  BY <1>1, <1>2
     DEF AlertInv, StampedWasFired, StampFollowsAlert, FiredOnce, FiredIsStamped, CopyFits, NotYet

LEMMA AlertRead == ASSUME TypeInv, AlertInv, ReadLatest PROVE AlertInv'
<1>1. ASSUME NEW yes \in BOOLEAN, NEW a \in SUBSET Levels,
             watch' = [Asleep EXCEPT !.phase = "elapsed", !.alerts = a, !.same = yes]
      PROVE  watch'.phase = "elapsed" /\ watch'.alerts = a /\ watch'.level = "warn"
  BY <1>1, AsleepType DEF WatchType
<1>2. latest.alerts \in SUBSET Levels
  BY DEF TypeInv, RestType, EventType
<1>3. watch'.phase = "elapsed" /\ watch'.alerts = latest.alerts /\ watch'.level = "warn"
  BY <1>1, <1>2 DEF ReadLatest
<1>4. UNCHANGED <<latest, fired, unstamped>> /\ watch.phase = "idle"
  BY DEF ReadLatest
<1> QED
  BY <1>3, <1>4
     DEF AlertInv, StampedWasFired, StampFollowsAlert, FiredOnce, FiredIsStamped, CopyFits, NotYet

(* The alert decided on is not in the copy. *)
LEMMA AlertElapsed == ASSUME TypeInv, AlertInv, NEW ok \in BOOLEAN, ReadElapsed(ok) PROVE AlertInv'
<1> DEFINE c == Continue(Due(latest.age, watch.alerts))
<1>0. watch \in WatchType /\ latest \in EventType
  BY DEF TypeInv, RestType
<1>1. UNCHANGED <<latest, fired, unstamped>> /\ watch.phase = "elapsed"
  BY DEF ReadElapsed
<1>2. /\ c \in WatchType
      /\ \/ c.phase = "idle" /\ c.same = FALSE
         \/ /\ c.phase = "alert" /\ c.level \in Due(latest.age, watch.alerts)
            /\ c.same = watch.same /\ c.alerts = watch.alerts
  BY <1>0, Continued, DueType
<1>3. \/ watch'.phase = "idle"
      \/ /\ watch'.phase = "alert" /\ watch'.level \notin watch.alerts
         /\ watch'.same = watch.same /\ watch'.alerts = watch.alerts
  <2>1. CASE ok
    <3>1. watch' = [c EXCEPT !.age = latest.age]
      BY <2>1 DEF ReadElapsed
    <3>2. watch'.phase = c.phase /\ watch'.level = c.level /\ watch'.same = c.same /\ watch'.alerts = c.alerts
      BY <1>2, <3>1 DEF WatchType
    <3> HIDE DEF c
    <3> QED BY <1>2, <3>2 DEF Due
  <2>2. CASE ~ok
    BY <2>2, AsleepType DEF ReadElapsed
  <2> QED BY <2>1, <2>2
<1>4. watch.level = "warn"
  BY <1>1 DEF AlertInv, NotYet
<1> QED
  BY <1>1, <1>3, <1>4
     DEF AlertInv, StampedWasFired, StampFollowsAlert, FiredOnce, FiredIsStamped, CopyFits, NotYet

LEMMA AlertSent == ASSUME TypeInv, AlertInv, NEW sent \in BOOLEAN, Alert(sent) PROVE AlertInv'
<1>0. watch \in WatchType /\ latest \in EventType /\ fired \in [Levels -> Nat]
  BY DEF TypeInv, RestType
<1>1. UNCHANGED <<latest, unstamped>> /\ watch.phase = "alert"
  BY DEF Alert
<1>2. /\ watch'.phase = "stamp" /\ watch'.level = watch.level
      /\ watch'.same = watch.same /\ watch'.alerts = watch.alerts /\ watch.level \in Levels
  BY <1>0 DEF Alert, WatchType
<1>3. CASE watch.same
  <2>1. \A l \in Levels : fired'[l] = IF l = watch.level THEN fired[l] + 1 ELSE fired[l]
    BY <1>0, <1>2, <1>3 DEF Alert
  <2>2. \A l \in Levels : fired[l] \in Nat
    BY <1>0
  <2>3. latest.alerts \in SUBSET Levels
    BY <1>0 DEF EventType
  <2>4. watch.level \notin latest.alerts
    BY <1>1, <1>3 DEF AlertInv, CopyFits, NotYet
  <2>5. ~unstamped => fired[watch.level] = 0
    BY <1>1, <1>2, <2>2, <2>4 DEF AlertInv, FiredIsStamped
  <2>6. StampedWasFired' /\ StampFollowsAlert'
    BY <1>1, <1>2, <2>1, <2>2, <2>3 DEF AlertInv, StampedWasFired, StampFollowsAlert
  <2>7. FiredOnce' /\ FiredIsStamped'
    BY <1>1, <1>2, <1>3, <2>1, <2>2, <2>5 DEF AlertInv, FiredOnce, FiredIsStamped
  <2>8. CopyFits' /\ NotYet'
    BY <1>1, <1>2 DEF AlertInv, CopyFits, NotYet
  <2> QED BY <2>6, <2>7, <2>8 DEF AlertInv
<1>4. CASE ~watch.same
  <2>1. UNCHANGED fired
    BY <1>4 DEF Alert
  <2> QED
    BY <1>1, <1>2, <1>4, <2>1
       DEF AlertInv, StampedWasFired, StampFollowsAlert, FiredOnce, FiredIsStamped, CopyFits, NotYet
<1> QED BY <1>3, <1>4

(* After "warn" the copy lacks it, and "escalate" is decided from the copy.*)
LEMMA AlertStamped == ASSUME TypeInv, AlertInv, NEW ok \in BOOLEAN, StampAlert(ok) PROVE AlertInv'
<1> DEFINE due == Due(watch.age, watch.alerts) \ {"warn"}
<1>0. watch \in WatchType /\ latest \in EventType /\ fired \in [Levels -> Nat] /\ watch.level \in Levels
  BY DEF TypeInv, RestType, WatchType
<1>1. /\ watch.phase = "stamp" /\ UNCHANGED fired
      /\ unstamped' <=> unstamped \/ (~ok /\ watch.same)
      /\ latest' = IF ok /\ watch.same THEN [latest EXCEPT !.alerts = @ \cup {watch.level}] ELSE latest
  BY DEF StampAlert
<1>2. latest'.alerts = IF ok /\ watch.same THEN latest.alerts \cup {watch.level} ELSE latest.alerts
  BY <1>0, <1>1 DEF EventType
<1>3. \/ watch'.phase = "idle"
      \/ /\ watch.level = "warn"
         /\ watch'.phase = "alert" /\ watch'.level = "escalate" /\ watch'.level \notin watch.alerts
         /\ watch'.same = watch.same /\ watch'.alerts = watch.alerts
  <2>1. CASE watch.level = "warn"
    <3>1. watch' = Continue(due)
      BY <2>1 DEF StampAlert
    <3>2. due \in SUBSET Levels
      BY DueType
    <3>3. \/ Continue(due).phase = "idle"
          \/ /\ Continue(due).phase = "alert" /\ Continue(due).level \in due
             /\ Continue(due).same = watch.same /\ Continue(due).alerts = watch.alerts
      BY <1>0, <3>2, Continued
    <3>4. \A l \in due : l = "escalate" /\ l \notin watch.alerts
      BY DEF Due, Levels
    <3> HIDE DEF due
    <3> QED BY <2>1, <3>1, <3>3, <3>4
  <2>2. CASE watch.level # "warn"
    BY <2>2, AsleepType DEF StampAlert
  <2> QED BY <2>1, <2>2
<1>4. watch.same => fired[watch.level] >= 1
  BY <1>1 DEF AlertInv, StampFollowsAlert
<1>5. StampedWasFired'
  BY <1>1, <1>2, <1>4 DEF AlertInv, StampedWasFired
<1>6. FiredOnce' /\ FiredIsStamped'
  BY <1>1, <1>2 DEF AlertInv, FiredOnce, FiredIsStamped
<1>7. StampFollowsAlert' /\ NotYet'
  BY <1>3 DEF StampFollowsAlert, NotYet
<1>8. CopyFits'
  <2> SUFFICES ASSUME watch'.phase # "idle", watch'.same, NEW l \in latest'.alerts
               PROVE  l \in watch'.alerts \/ (l = "warn" /\ watch'.level = "escalate")
    BY DEF CopyFits
  <2>1. watch.level = "warn" /\ watch'.level = "escalate" /\ watch'.alerts = watch.alerts /\ watch.same
    BY <1>3
  <2>2. l \in latest.alerts \/ l = "warn"
    BY <1>2, <2>1
  <2>3. l \in latest.alerts => l \in watch.alerts
    BY <1>1, <2>1 DEF AlertInv, CopyFits
  <2> QED BY <2>1, <2>2, <2>3
<1> QED BY <1>5, <1>6, <1>7, <1>8 DEF AlertInv

LEMMA AlertNext == TypeInv /\ AlertInv /\ [Next]_vars => AlertInv'
<1> SUFFICES ASSUME TypeInv, AlertInv, [Next]_vars PROVE AlertInv'
  OBVIOUS
<1>1. "agent" \in Writers /\ "callend" \in Writers /\ "expiry" \in Writers /\ "poll" \in Writers
  BY DEF Writers
<1> QED
  BY <1>1, AlertOthers, AlertAppend, AlertRestart, AlertRead, AlertElapsed, AlertSent, AlertStamped
     DEF Next, AgentStep, CallStep, ExpiryStep, PollStep, WatchStep, Request

(* An alert is stamped only on the event it was sent about, and is sent    *)
(* once about each event unless its stamp was lost, whatever the writers   *)
(* append while the alerting job is at work.                               *)
THEOREM AlertsMatchTheirEvent == Spec => []AlertsMatch
<1>1. AlertInv => AlertsMatch
  BY DEF AlertInv, StampedWasFired, FiredOnce, AlertsMatch
<1> QED BY <1>1, TypeInit, TypeNext, AlertInit, AlertNext, PTL DEF Spec

-----------------------------------------------------------------------------
(* Alerts are earned. *)

(* Between the read of the event and the stamp the job relies on that      *)
(* event as long as it is the latest: it is an absence, and it only grows  *)
(* older.                                                                  *)
ReadsAbsence == watch.phase # "idle" /\ watch.same => latest.status \in CountsAsUnavailable
AlertIsDue ==
    watch.phase \in {"alert", "stamp"} /\ watch.same =>
        watch.age <= latest.age /\ Threshold[watch.level] <= watch.age
EarnedInv == AlertsEarned /\ ReadsAbsence /\ AlertIsDue

LEMMA EarnedInit == Init => EarnedInv
<1> SUFFICES ASSUME Init PROVE EarnedInv
  OBVIOUS
<1>1. watch.phase = "idle"
  BY AsleepType DEF Init
<1>2. \A l \in Levels : fired[l] = 0
  BY DEF Init, Unfired
<1> QED
  BY <1>1, <1>2 DEF EarnedInv, AlertsEarned, ReadsAbsence, AlertIsDue

(* A step that leaves the job and its alerts alone, and lets the latest    *)
(* event only grow older.                                                  *)
LEMMA EarnedFrame ==
    ASSUME TypeInv, EarnedInv, UNCHANGED <<watch, fired>>,
           latest'.status = latest.status, latest.age <= latest'.age, latest'.age \in Nat
    PROVE  EarnedInv'
<1>1. /\ latest.age \in Nat /\ watch.age \in Nat /\ watch.level \in Levels
      /\ \A l \in Levels : Threshold[l] \in Nat
  BY DEF TypeInv, RestType, EventType, WatchType, Levels, Threshold
<1>2. \A l \in Levels : Threshold[l] <= latest.age => Threshold[l] <= latest'.age
  BY <1>1
<1>3. AlertsEarned'
  BY <1>2 DEF EarnedInv, AlertsEarned
<1>4. watch.age <= latest.age => watch.age <= latest'.age
  BY <1>1
<1> QED
  BY <1>3, <1>4 DEF EarnedInv, ReadsAbsence, AlertIsDue

LEMMA EarnedOthers ==
    ASSUME TypeInv, EarnedInv,
           \/ UNCHANGED vars
           \/ \E n \in Natives : UseChatwoot(n)
           \/ \E status \in Choices : Choose(status)
           \/ Leave \/ CallEnds \/ Elapse
           \/ \E w \in Writers, ok \in BOOLEAN : SetNative(w, ok) \/ Stamp(w)
           \/ \E ok, log \in BOOLEAN : CheckOffline(ok) \/ BeginExpiry \/ ExpireIfDue(ok)
                                       \/ BeginPoll \/ Fetch(ok) \/ Reconcile(log, ok)
    PROVE  EarnedInv'
<1>0. latest \in EventType /\ latest.age \in Nat
  BY DEF TypeInv, RestType, EventType
<1>1. ASSUME Elapse
      PROVE  /\ latest'.status = latest.status /\ latest.age <= latest'.age /\ latest'.age \in Nat
             /\ UNCHANGED <<watch, fired>>
  BY <1>0, <1>1 DEF Elapse, EventType
<1>2. ASSUME ~Elapse PROVE UNCHANGED <<latest, watch, fired>>
  BY <1>2 DEF vars, UseChatwoot, Choose, Leave, CallEnds, SetNative, Stamp, CheckOffline, BeginExpiry,
              ExpireIfDue, BeginPoll, Fetch, Reconcile, logVars
<1>3. ASSUME UNCHANGED <<latest, watch, fired>>
      PROVE  latest'.status = latest.status /\ latest.age <= latest'.age /\ latest'.age \in Nat
  BY <1>0, <1>3
<1> QED BY <1>1, <1>2, <1>3, EarnedFrame

(* A newer event has not been alerted about, and the job's alert is not    *)
(* about it.                                                               *)
LEMMA EarnedAppend ==
    ASSUME TypeInv, EarnedInv, NEW w \in Writers, NEW ok \in BOOLEAN, AppendEvent(w, ok)
    PROVE  EarnedInv'
<1>1. CASE Tops(w)
  <2>1. \A l \in Levels : fired'[l] = 0
    BY <1>1 DEF Tops, Unfired
  <2>2. ASSUME NEW no \in BOOLEAN, watch' = [watch EXCEPT !.same = no] PROVE watch'.same = no
    BY <2>2 DEF TypeInv, RestType, WatchType
  <2>3. ~watch'.same
    BY <1>1, <2>2 DEF Tops
  <2> QED
    BY <2>1, <2>3 DEF EarnedInv, AlertsEarned, ReadsAbsence, AlertIsDue
<1>2. CASE Buried(w)
  <2>1. latest.age \in Nat
    BY DEF TypeInv, RestType, EventType
  <2> QED BY <1>2, <2>1, EarnedFrame DEF Buried, logVars
<1> QED BY <1>1, <1>2 DEF AppendEvent

LEMMA EarnedRestart == ASSUME EarnedInv, Restart PROVE EarnedInv'
<1>1. watch'.phase = "idle"
  BY AsleepType DEF Restart
<1>2. UNCHANGED <<latest, fired>>
  BY DEF Restart
<1> QED
  BY <1>1, <1>2 DEF EarnedInv, AlertsEarned, ReadsAbsence, AlertIsDue

LEMMA EarnedRead == ASSUME TypeInv, EarnedInv, ReadLatest PROVE EarnedInv'
<1>1. watch' = [Asleep EXCEPT !.phase = "elapsed", !.alerts = latest.alerts, !.same = TRUE]
      /\ UNCHANGED <<latest, fired>> /\ latest.status \in CountsAsUnavailable
  BY DEF ReadLatest
<1>2. watch'.phase = "elapsed"
  BY <1>1 DEF Asleep
<1>3. AlertsEarned' /\ ReadsAbsence'
  BY <1>1 DEF EarnedInv, AlertsEarned, ReadsAbsence
<1> QED BY <1>2, <1>3 DEF EarnedInv, AlertIsDue

(* The alert decided on is due at the age just read.                       *)
LEMMA EarnedElapsed == ASSUME TypeInv, EarnedInv, NEW ok \in BOOLEAN, ReadElapsed(ok) PROVE EarnedInv'
<1> DEFINE c == Continue(Due(latest.age, watch.alerts))
<1>0. watch \in WatchType /\ latest \in EventType /\ latest.age \in 0..2
  BY DEF TypeInv, RestType, EventType
<1>1. UNCHANGED <<latest, fired>> /\ watch.phase = "elapsed"
  BY DEF ReadElapsed
<1>2. /\ c \in WatchType
      /\ \/ c.phase = "idle"
         \/ /\ c.phase = "alert" /\ c.level \in Due(latest.age, watch.alerts)
            /\ c.same = watch.same
  BY <1>0, Continued, DueType
<1>3. \/ watch'.phase = "idle"
      \/ /\ watch'.phase = "alert" /\ watch'.level \in Due(latest.age, watch.alerts)
         /\ watch'.same = watch.same /\ watch'.age = latest.age
  <2>1. CASE ok
    <3>1. watch' = [c EXCEPT !.age = latest.age]
      BY <2>1 DEF ReadElapsed
    <3>2. /\ watch'.phase = c.phase /\ watch'.level = c.level /\ watch'.same = c.same
          /\ watch'.age = latest.age
      BY <1>2, <3>1 DEF WatchType
    <3> HIDE DEF c
    <3> QED BY <1>2, <3>2
  <2>2. CASE ~ok
    BY <2>2, AsleepType DEF ReadElapsed
  <2> QED BY <2>1, <2>2
<1>4. \A l \in Due(latest.age, watch.alerts) : Threshold[l] <= latest.age
  BY DEF Due
<1>5. latest.age <= latest.age
  BY <1>0
<1>6. AlertsEarned' /\ ReadsAbsence'
  BY <1>1, <1>3 DEF EarnedInv, AlertsEarned, ReadsAbsence
<1>7. AlertIsDue'
  BY <1>1, <1>3, <1>4, <1>5 DEF AlertIsDue
<1> QED BY <1>6, <1>7 DEF EarnedInv

LEMMA EarnedSent ==
    ASSUME TypeInv, EarnedInv, NEW sent \in BOOLEAN, Alert(sent)
    PROVE  EarnedInv'
<1>0. watch \in WatchType /\ latest \in EventType /\ fired \in [Levels -> Nat]
  BY DEF TypeInv, RestType
<1>1. UNCHANGED latest /\ watch.phase = "alert"
  BY DEF Alert
<1>2. /\ watch'.phase = "stamp" /\ watch'.level = watch.level /\ watch'.age = watch.age
      /\ watch'.same = watch.same
  BY <1>0 DEF Alert, WatchType
<1>3. \A l \in Levels :
          fired'[l] = IF watch.same /\ l = watch.level THEN fired[l] + 1 ELSE fired[l]
  BY <1>0 DEF Alert
<1>4. ASSUME NEW l \in Levels, fired'[l] >= 1
      PROVE  latest.status \in CountsAsUnavailable /\ Threshold[l] <= latest.age
  <2>1. CASE fired[l] >= 1
    BY <2>1 DEF EarnedInv, AlertsEarned
  <2>2. CASE ~(fired[l] >= 1)
    <3>1. watch.same /\ l = watch.level
      BY <1>3, <1>4, <2>2
    <3>2. watch.age <= latest.age /\ Threshold[l] <= watch.age
      BY <1>1, <3>1 DEF EarnedInv, AlertIsDue
    <3>3. watch.age \in Nat /\ latest.age \in Nat /\ Threshold[l] \in Nat
      BY <1>0 DEF WatchType, EventType, Threshold, Levels
    <3>4. latest.status \in CountsAsUnavailable
      BY <1>1, <3>1 DEF EarnedInv, ReadsAbsence
    <3> QED BY <3>2, <3>3, <3>4
  <2> QED BY <2>1, <2>2
<1>5. AlertsEarned'
  BY <1>1, <1>4 DEF AlertsEarned
<1>6. ReadsAbsence' /\ AlertIsDue'
  BY <1>1, <1>2 DEF EarnedInv, ReadsAbsence, AlertIsDue
<1> QED BY <1>5, <1>6 DEF EarnedInv

LEMMA EarnedStamped ==
    ASSUME TypeInv, EarnedInv, NEW ok \in BOOLEAN, StampAlert(ok)
    PROVE  EarnedInv'
<1> DEFINE due == Due(watch.age, watch.alerts) \ {"warn"}
<1>0. watch \in WatchType /\ latest \in EventType
  BY DEF TypeInv, RestType
<1>1. watch.phase = "stamp" /\ UNCHANGED fired
  BY DEF StampAlert
<1>2. latest'.status = latest.status /\ latest'.age = latest.age
  BY <1>0 DEF StampAlert, EventType
<1>3. \/ watch'.phase = "idle"
      \/ /\ watch.level = "warn"
         /\ watch'.phase = "alert" /\ watch'.level \in due
         /\ watch'.same = watch.same /\ watch'.age = watch.age
  <2>1. CASE watch.level = "warn"
    <3>1. watch' = Continue(due)
      BY <2>1 DEF StampAlert
    <3>2. due \in SUBSET Levels
      BY DueType
    <3> HIDE DEF due
    <3> QED BY <1>0, <2>1, <3>1, <3>2, Continued
  <2>2. CASE watch.level # "warn"
    BY <2>2, AsleepType DEF StampAlert
  <2> QED BY <2>1, <2>2
<1>4. \A l \in due : Threshold[l] <= watch.age
  BY DEF Due
<1>5. AlertsEarned'
  BY <1>1, <1>2 DEF EarnedInv, AlertsEarned
<1>6. ReadsAbsence'
  BY <1>1, <1>2, <1>3 DEF EarnedInv, ReadsAbsence
<1>7. AlertIsDue'
  BY <1>1, <1>2, <1>3, <1>4 DEF EarnedInv, AlertIsDue
<1> QED BY <1>5, <1>6, <1>7 DEF EarnedInv

LEMMA EarnedNext == TypeInv /\ EarnedInv /\ [Next]_vars => EarnedInv'
<1> SUFFICES ASSUME TypeInv, EarnedInv, [Next]_vars PROVE EarnedInv'
  OBVIOUS
<1>1. "agent" \in Writers /\ "callend" \in Writers /\ "expiry" \in Writers /\ "poll" \in Writers
  BY DEF Writers
<1> QED
  BY <1>1, EarnedOthers, EarnedAppend, EarnedRestart, EarnedRead, EarnedElapsed, EarnedSent, EarnedStamped
     DEF Next, AgentStep, CallStep, ExpiryStep, PollStep, WatchStep, Request

(* Every alert that counts for an absence is about one that has lasted     *)
(* long enough, for any interleaving of the writers with the alerting job  *)
(* and any failures.  It says nothing of who heard the alert.              *)
THEOREM AlertsAreEarned == Spec => []AlertsEarned
<1>1. EarnedInv => AlertsEarned
  BY DEF EarnedInv
<1> QED BY <1>1, TypeInit, TypeNext, EarnedInit, EarnedNext, PTL DEF Spec
=============================================================================
