--------------------------- MODULE SlaScanProofs ---------------------------
(***************************************************************************)
(* Theorems about SlaScan for every set of conversations and of webhooks,  *)
(* every threshold of the policy, and any number of acts and faults.       *)
(***************************************************************************)
EXTENDS SlaScan, TLAPS

ScanType == [phase : {"idle", "due", "next", "append", "alert"},
             todo : SUBSET Conversations, conv : Conversations \cup {"none"},
             plan : SUBSET Entries, entry : Entries, seen : [Conversations -> Case]]
HookType == [phase : {"idle", "read", "append"}, conv : Conversations \cup {"none"},
             marker : Markers]

(* What is still to be recorded is not on the log, and the entry that is   *)
(* about to be alerted about is on it, for the first time.                 *)
ScanIsFresh ==
    /\ scan.phase \in {"append", "alert"} => scan.plan \cap log[scan.conv] = {}
    /\ scan.phase = "alert" => /\ scan.entry \in log[scan.conv] /\ scan.entry \notin scan.plan
                               /\ alerts[scan.conv][scan.entry] = 0

IInv == TypeOK /\ AlertedOnce /\ ScanIsFresh

LEMMA EntriesAndMarkers ==
    /\ Entries = {"no_response", "unresolved", "tier2", "reminder", "update_due", "update_warning"}
    /\ Entries \cap Markers = {}
  BY DEF Entries, Turn, Markers

LEMMA OlderIsAge == \A n \in 0..MaxAge : Older(n) \in 0..MaxAge
  BY SlaAssumption DEF Older

LEMMA NewIsCase == \A c \in Conversations : New(c) \in Case
  <1>1. 0 \in 0..MaxAge /\ 1 \in 0..MaxAge
    BY SlaAssumption
  <1>2. QED BY <1>1 DEF New, Case

LEMMA ScansAreTyped == NoScan \in ScanType /\ FirstScan \in ScanType
  <1>1. [c \in Conversations |-> New(c)] \in [Conversations -> Case]
    BY NewIsCase
  <1>2. NoScan \in ScanType
    BY <1>1, EntriesAndMarkers DEF NoScan, ScanType
  <1>3. QED BY <1>2 DEF FirstScan, ScanType

LEMMA NoHookIsTyped == NoHook \in HookType
  BY DEF NoHook, HookType, Markers

LEMMA OutcomeOfCall ==
    ASSUME faults \in 0..MaxFaults, NEW ok \in BOOLEAN, Outcome(ok)
    PROVE  faults' \in 0..MaxFaults
  BY SlaAssumption DEF Outcome, Fault

LEMMA ActCounts ==
    ASSUME acts \in 0..MaxActs, faults \in 0..MaxFaults, Act
    PROVE  acts' \in 0..MaxActs
  BY SlaAssumption DEF Act

LEMMA InitIInv == Init => IInv
  <1>1. SUFFICES ASSUME Init PROVE IInv
    OBVIOUS
  <1>2. 0 \in 0..MaxAge /\ 0 \in 0..MaxActs /\ 0 \in 0..MaxFaults
    BY SlaAssumption
  <1>3. case \in [Conversations -> Case]
    BY <1>1, NewIsCase DEF Init
  <1>4. scan \in ScanType /\ scan.phase = "due" /\ hook \in [Slots -> HookType]
    BY <1>1, ScansAreTyped, NoHookIsTyped DEF Init, FirstScan, NoScan
  <1>5. \A h \in Slots : hook[h].phase = "idle"
    BY <1>1 DEF Init, NoHook
  <1>6. TypeOK
    BY <1>1, <1>2, <1>3, <1>4, <1>5 DEF Init, TypeOK, ScanType, HookType
  <1>7. AlertedOnce /\ ScanIsFresh
    BY <1>1, <1>4 DEF Init, AlertedOnce, ScanIsFresh
  <1>8. QED BY <1>6, <1>7 DEF IInv

-----------------------------------------------------------------------------
(* Steps that leave the scan where it is and take nothing off the logs.    *)
LEMMA OthersKeepScan ==
    ASSUME IInv, TypeOK', UNCHANGED <<alerts, scan>>,
           \A c \in Conversations : log[c] \subseteq log'[c],
           \A c \in Conversations : log'[c] \cap Entries = log[c] \cap Entries
    PROVE  IInv'
  <1>1. scan.plan \subseteq Entries /\ (scan.phase \in {"append", "alert"} => scan.conv \in Conversations)
    BY DEF IInv, TypeOK
  <1>2. AlertedOnce'
    BY DEF IInv, AlertedOnce
  <1>3. ScanIsFresh'
    BY <1>1 DEF IInv, ScanIsFresh
  <1>4. QED BY <1>2, <1>3 DEF IInv

(* Steps after which nothing is planned on a log. *)
LEMMA RestKeeps ==
    ASSUME IInv, TypeOK', UNCHANGED alerts,
           \A c \in Conversations : log[c] \subseteq log'[c],
           scan'.phase \notin {"append", "alert"}
    PROVE  IInv'
  <1>1. AlertedOnce'
    BY DEF IInv, AlertedOnce
  <1>2. ScanIsFresh'
    BY DEF ScanIsFresh
  <1>3. QED BY <1>1, <1>2 DEF IInv

LEMMA TickKeeps == IInv /\ Tick => IInv'
  <1>1. SUFFICES ASSUME IInv, Tick PROVE IInv'
    OBVIOUS
  <1>2. case' \in [Conversations -> Case]
    <2>1. ASSUME NEW c \in Conversations
          PROVE  [case[c] EXCEPT !.age = Older(@),
                                 !.answered = IF @ = Never THEN @ ELSE Older(@)] \in Case
      <3>1. case[c] \in Case
        BY <1>1 DEF IInv, TypeOK
      <3>2. Older(case[c].age) \in 0..MaxAge
        BY <3>1, OlderIsAge DEF Case
      <3>3. (IF case[c].answered = Never THEN case[c].answered ELSE Older(case[c].answered))
               \in {Never} \cup 0..MaxAge
        BY <3>1, OlderIsAge DEF Case
      <3>4. QED BY <3>1, <3>2, <3>3 DEF Case
    <2>2. QED BY <1>1, <2>1 DEF Tick
  <1>3. breach' \in [Conversations -> 0..MaxAge]
    <2>1. 0 \in 0..MaxAge
      BY SlaAssumption
    <2>2. QED BY <1>1, <2>1, OlderIsAge DEF Tick, IInv, TypeOK
  <1>4. scan' \in ScanType /\ scan'.phase = "due"
    BY <1>1 DEF Tick, IInv, TypeOK, ScanType
  <1>5. TypeOK'
    BY <1>1, <1>2, <1>3, <1>4 DEF Tick, IInv, TypeOK, ScanType
  <1>6. QED BY <1>1, <1>4, <1>5, RestKeeps DEF Tick

LEMMA PeopleKeep ==
    ASSUME IInv, NEW c \in Conversations,
           \/ \E status \in {"open", "pending", "resolved"} : SetStatus(c, status)
           \/ \E h \in Slots : AgentReplies(h, c) \/ DealerAnswers(h, c)
    PROVE  IInv'
  <1>1. case[c] \in Case /\ 0 \in 0..MaxAge
    BY SlaAssumption DEF IInv, TypeOK
  <1>2. case' \in [Conversations -> Case]
    <2>1. PICK d \in Case : case' = [case EXCEPT ![c] = d]
      <3>1. ASSUME NEW status \in {"open", "pending", "resolved"}, SetStatus(c, status)
            PROVE  \E d \in Case : case' = [case EXCEPT ![c] = d]
        <4>1. [case[c] EXCEPT !.status = status] \in Case
          BY <1>1 DEF Case
        <4>2. QED BY <3>1, <4>1 DEF SetStatus
      <3>2. ASSUME NEW h \in Slots, AgentReplies(h, c)
            PROVE  \E d \in Case : case' = [case EXCEPT ![c] = d]
        <4>1. [case[c] EXCEPT !.replied = TRUE,
                              !.updated = IF @ = "never" /\ case[c].answered # Never
                                          THEN "current" ELSE @] \in Case
          BY <1>1 DEF Case
        <4>2. QED BY <3>2, <4>1 DEF AgentReplies
      <3>3. ASSUME NEW h \in Slots, DealerAnswers(h, c)
            PROVE  \E d \in Case : case' = [case EXCEPT ![c] = d]
        <4>1. [case[c] EXCEPT !.answered = 0,
                              !.updated = IF @ = "current" THEN "outdated" ELSE @] \in Case
          BY <1>1 DEF Case
        <4>2. QED BY <3>3, <4>1 DEF DealerAnswers
      <3>4. QED BY <3>1, <3>2, <3>3
    <2>2. QED BY <2>1 DEF IInv, TypeOK
  <1>3. /\ hook' \in [Slots -> HookType]
        /\ \A h \in Slots : hook'[h].phase # "idle" => hook'[h].conv \in Conversations
    <2>1. ASSUME NEW h \in Slots, NEW marker \in Markers, Webhook(h, c, marker)
          PROVE  /\ hook' \in [Slots -> HookType]
                 /\ \A k \in Slots : hook'[k].phase # "idle" => hook'[k].conv \in Conversations
      BY <2>1 DEF Webhook, IInv, TypeOK, HookType
    <2>2. CASE UNCHANGED hook
      BY <2>2 DEF IInv, TypeOK, HookType
    <2>3. "first_response" \in Markers /\ "acknowledged" \in Markers
      BY DEF Markers
    <2>4. UNCHANGED hook \/ \E h \in Slots, marker \in Markers : Webhook(h, c, marker)
      BY <2>3 DEF SetStatus, AgentReplies, DealerAnswers
    <2>5. QED BY <2>1, <2>2, <2>4
  <1>4. Act /\ UNCHANGED <<log, breach, twice, alerts, scan, faults>>
    BY DEF SetStatus, AgentReplies, DealerAnswers
  <1>5. acts' \in 0..MaxActs
    BY <1>4, ActCounts DEF IInv, TypeOK
  <1>6. TypeOK'
    BY <1>2, <1>3, <1>4, <1>5 DEF IInv, TypeOK, HookType
  <1>7. QED BY <1>4, <1>6, OthersKeepScan

LEMMA HookKeeps ==
    ASSUME IInv, NEW h \in Slots, HookStep(h)
    PROVE  IInv'
  <1>1. PICK ok \in BOOLEAN : \/ ListForMarker(h, ok)
                              \/ \E made \in BOOLEAN : AppendMarker(h, ok, made)
    BY DEF HookStep
  <1>2. hook[h] \in HookType /\ hook[h].phase \in {"read", "append"} /\ hook[h].conv \in Conversations
    BY <1>1 DEF IInv, TypeOK, HookType, ListForMarker, AppendMarker
  <1>3. CASE ListForMarker(h, ok)
    <2>1. hook' \in [Slots -> HookType]
      BY <1>2, <1>3, NoHookIsTyped DEF IInv, TypeOK, HookType, ListForMarker
    <2>2. \A k \in Slots : hook'[k].phase # "idle" => hook'[k].conv \in Conversations
      BY <1>2, <1>3 DEF IInv, TypeOK, HookType, ListForMarker, NoHook
    <2>3. faults' \in 0..MaxFaults
      BY <1>3, OutcomeOfCall DEF IInv, TypeOK, ListForMarker
    <2>4. TypeOK'
      BY <1>3, <2>1, <2>2, <2>3 DEF IInv, TypeOK, HookType, ListForMarker
    <2>5. QED BY <1>3, <2>4, OthersKeepScan DEF ListForMarker
  <1>4. ASSUME NEW made \in BOOLEAN, AppendMarker(h, ok, made) PROVE IInv'
    <2>1. hook' \in [Slots -> HookType]
      BY <1>4, NoHookIsTyped DEF IInv, TypeOK, HookType, AppendMarker
    <2>2. \A k \in Slots : hook'[k].phase # "idle" => hook'[k].conv \in Conversations
      BY <1>4 DEF IInv, TypeOK, HookType, AppendMarker, NoHook
    <2>3. faults' \in 0..MaxFaults
      BY <1>4, OutcomeOfCall DEF IInv, TypeOK, AppendMarker
    <2>4. hook[h].marker \in Markers
      BY <1>2 DEF HookType
    <2>5. \/ log' = log
          \/ log' = [log EXCEPT ![hook[h].conv] = @ \cup {hook[h].marker}]
      BY <1>4 DEF AppendMarker
    <2>6. log' \in [Conversations -> SUBSET (Entries \cup Markers)] /\ twice' \subseteq Markers
      BY <1>2, <1>4, <2>4, <2>5 DEF IInv, TypeOK, AppendMarker
    <2>7. \A c \in Conversations : /\ log[c] \subseteq log'[c]
                                   /\ log'[c] \cap Entries = log[c] \cap Entries
      BY <2>4, <2>5, EntriesAndMarkers DEF IInv, TypeOK
    <2>8. TypeOK'
      BY <1>4, <2>1, <2>2, <2>3, <2>6 DEF IInv, TypeOK, HookType, AppendMarker
    <2>9. QED BY <1>4, <2>7, <2>8, OthersKeepScan DEF AppendMarker
  <1>5. QED BY <1>1, <1>3, <1>4

-----------------------------------------------------------------------------
(* The steps of the scan. *)

LEMMA BeginScanKeeps ==
    ASSUME IInv, NEW ok \in BOOLEAN, BeginScan(ok)
    PROVE  IInv'
  <1>1. scan' \in ScanType /\ scan'.phase \in {"idle", "next"}
    <2>1. NoScan \in ScanType /\ NoScan.phase = "idle"
      BY ScansAreTyped DEF NoScan
    <2>2. [NoScan EXCEPT !.phase = "next", !.todo = Conversations, !.seen = case] \in ScanType
      BY <2>1 DEF IInv, TypeOK, ScanType
    <2>3. [NoScan EXCEPT !.phase = "next", !.todo = Conversations, !.seen = case].phase = "next"
      BY DEF NoScan
    <2>4. QED BY <2>1, <2>2, <2>3 DEF BeginScan
  <1>2. faults' \in 0..MaxFaults
    BY OutcomeOfCall DEF IInv, TypeOK, BeginScan
  <1>3. TypeOK'
    BY <1>1, <1>2 DEF IInv, TypeOK, ScanType, BeginScan
  <1>4. QED BY <1>1, <1>3, RestKeeps DEF BeginScan

LEMMA EndScanKeeps == IInv /\ EndScan => IInv'
  <1>1. SUFFICES ASSUME IInv, EndScan PROVE IInv'
    OBVIOUS
  <1>2. scan' \in ScanType /\ scan'.phase = "idle"
    BY <1>1, ScansAreTyped DEF EndScan, NoScan
  <1>3. TypeOK'
    BY <1>1, <1>2 DEF IInv, TypeOK, ScanType, EndScan
  <1>4. QED BY <1>1, <1>2, <1>3, RestKeeps DEF EndScan

LEMMA TakeKeeps ==
    ASSUME IInv, NEW c \in Conversations, NEW ok \in BOOLEAN, Take(c, ok)
    PROVE  IInv'
  <1>1. Plan(c) \subseteq Entries /\ Plan(c) \cap log[c] = {}
    BY DEF Plan
  <1>2. faults' \in 0..MaxFaults
    BY OutcomeOfCall DEF IInv, TypeOK, Take
  <1>3. CASE ok
    <2>1. scan' = [scan EXCEPT !.phase = Proceed(Plan(c)), !.conv = c,
                               !.todo = @ \ {c}, !.plan = Plan(c), !.seen[c] = New(c)]
      BY <1>3 DEF Take
    <2>2. [scan.seen EXCEPT ![c] = New(c)] \in [Conversations -> Case]
      BY NewIsCase DEF IInv, TypeOK
    <2>3. Proceed(Plan(c)) \in {"next", "append"}
      BY DEF Proceed
    <2>4. /\ scan'.conv = c /\ scan'.plan = Plan(c) /\ scan'.phase \in {"next", "append"}
          /\ scan' \in ScanType
      BY <1>1, <2>1, <2>2, <2>3 DEF IInv, TypeOK, ScanType
    <2>5. TypeOK'
      BY <1>2, <2>4 DEF IInv, TypeOK, ScanType, Take
    <2>6. AlertedOnce' /\ ScanIsFresh'
      BY <1>1, <2>4 DEF IInv, AlertedOnce, ScanIsFresh, Take
    <2>7. QED BY <2>5, <2>6 DEF IInv
  <1>4. CASE ~ok
    <2>1. scan' \in ScanType /\ scan'.phase = "idle"
      BY <1>4, ScansAreTyped DEF Take, NoScan
    <2>2. TypeOK'
      BY <1>2, <2>1 DEF IInv, TypeOK, ScanType, Take
    <2>3. QED BY <2>1, <2>2, RestKeeps DEF Take
  <1>5. QED BY <1>3, <1>4

LEMMA AppendEntryKeeps ==
    ASSUME IInv, NEW x \in Entries, NEW ok \in BOOLEAN, NEW made \in BOOLEAN,
           AppendEntry(x, ok, made)
    PROVE  IInv'
  <1>1. scan.conv \in Conversations /\ scan.phase = "append" /\ x \in scan.plan /\ (ok => made)
    BY DEF AppendEntry, IInv, TypeOK
  <1>2. faults' \in 0..MaxFaults
    BY OutcomeOfCall DEF IInv, TypeOK, AppendEntry
  <1>3. 0 \in 0..MaxAge
    BY SlaAssumption
  <1>4. /\ log' \in [Conversations -> SUBSET (Entries \cup Markers)]
        /\ breach' \in [Conversations -> 0..MaxAge]
        /\ \A c \in Conversations : log[c] \subseteq log'[c]
    BY <1>1, <1>3 DEF IInv, TypeOK, AppendEntry
  <1>5. CASE ok
    <2>1. /\ scan' = [scan EXCEPT !.phase = "alert", !.entry = x, !.plan = @ \ {x}]
          /\ log' = [log EXCEPT ![scan.conv] = @ \cup {x}]
      BY <1>1, <1>5 DEF AppendEntry
    <2>2. /\ scan' \in ScanType /\ scan'.phase = "alert" /\ scan'.entry = x
          /\ scan'.conv = scan.conv /\ scan'.plan = scan.plan \ {x}
      BY <2>1 DEF IInv, TypeOK, ScanType
    <2>3. log'[scan.conv] = log[scan.conv] \cup {x}
      BY <1>1, <2>1 DEF IInv, TypeOK
    <2>4. TypeOK'
      BY <1>1, <1>2, <1>4, <2>2 DEF IInv, TypeOK, ScanType, AppendEntry
    <2>5. UNCHANGED alerts
      BY DEF AppendEntry
    <2>6. AlertedOnce'
      BY <1>4, <2>5 DEF IInv, AlertedOnce
    <2>7. x \notin log[scan.conv] /\ alerts[scan.conv][x] = 0
      <3>1. x \notin log[scan.conv]
        BY <1>1 DEF IInv, ScanIsFresh
      <3>2. alerts[scan.conv][x] \in 0..2 /\ alerts[scan.conv][x] <= 1 /\ alerts[scan.conv][x] # 1
        BY <1>1, <3>1 DEF IInv, TypeOK, AlertedOnce
      <3>3. QED BY <3>1, <3>2
    <2>8. ScanIsFresh'
      BY <1>1, <2>2, <2>3, <2>5, <2>7 DEF IInv, ScanIsFresh
    <2>9. QED BY <2>4, <2>6, <2>8 DEF IInv
  <1>6. CASE ~ok
    <2>1. scan' \in ScanType /\ scan'.phase = "idle"
      BY <1>6, ScansAreTyped DEF AppendEntry, NoScan
    <2>2. TypeOK'
      BY <1>2, <1>4, <2>1 DEF IInv, TypeOK, ScanType, AppendEntry
    <2>3. QED BY <1>4, <2>1, <2>2, RestKeeps DEF AppendEntry
  <1>7. QED BY <1>5, <1>6

LEMMA AlertKeeps == IInv /\ Alert => IInv'
  <1>1. SUFFICES ASSUME IInv, Alert PROVE IInv'
    OBVIOUS
  <1> DEFINE c == scan.conv
             x == scan.entry
  <1>2. /\ c \in Conversations /\ x \in Entries /\ alerts[c][x] = 0 /\ x \in log[c]
        /\ scan.plan \cap log[c] = {}
    BY <1>1 DEF IInv, TypeOK, ScanIsFresh, Alert
  <1>3. alerts' = [alerts EXCEPT ![c][x] = 1]
    BY <1>1, <1>2 DEF Alert, IInv, TypeOK
  <1>4. /\ alerts' \in [Conversations -> [Entries -> 0..2]]
        /\ alerts'[c][x] = 1
        /\ \A d \in Conversations, y \in Entries :
              d # c \/ y # x => alerts'[d][y] = alerts[d][y]
    BY <1>1, <1>2, <1>3 DEF IInv, TypeOK
  <1>5. /\ scan' \in ScanType /\ scan'.conv = c /\ scan'.plan = scan.plan
        /\ scan'.phase \in {"next", "append"}
    <2>1. Proceed(scan.plan) \in {"next", "append"}
      BY DEF Proceed
    <2>2. QED BY <1>1, <2>1 DEF Alert, IInv, TypeOK, ScanType
  <1>6. TypeOK'
    BY <1>1, <1>2, <1>4, <1>5 DEF Alert, IInv, TypeOK, ScanType
  <1>7. log' = log
    BY <1>1 DEF Alert
  <1>8. AlertedOnce'
    <2>1. ASSUME NEW d \in Conversations, NEW y \in Entries
          PROVE  alerts'[d][y] <= 1 /\ (alerts'[d][y] = 1 => y \in log[d])
      <3>1. CASE d = c /\ y = x
        BY <1>2, <1>4, <3>1
      <3>2. CASE d # c \/ y # x
        BY <1>1, <1>4, <3>2 DEF IInv, AlertedOnce
      <3>3. QED BY <3>1, <3>2
    <2>2. QED BY <1>7, <2>1 DEF AlertedOnce
  <1>9. ScanIsFresh'
    BY <1>2, <1>5, <1>7 DEF ScanIsFresh
  <1>10. QED BY <1>6, <1>8, <1>9 DEF IInv

LEMMA RestartKeeps == IInv /\ Restart => IInv'
  <1>1. SUFFICES ASSUME IInv, Restart PROVE IInv'
    OBVIOUS
  <1>2. scan' \in ScanType /\ scan'.phase = "due"
    BY <1>1, ScansAreTyped DEF Restart, FirstScan, NoScan
  <1>3. hook' \in [Slots -> HookType] /\ \A h \in Slots : hook'[h].phase = "idle"
    <2>1. hook' = [h \in Slots |-> NoHook] /\ NoHook.phase = "idle"
      BY <1>1 DEF Restart, NoHook
    <2>2. QED BY <2>1, NoHookIsTyped
  <1>4. faults' \in 0..MaxFaults
    BY <1>1, SlaAssumption DEF Restart, Fault, IInv, TypeOK
  <1>5. TypeOK'
    BY <1>1, <1>2, <1>3, <1>4 DEF Restart, IInv, TypeOK, ScanType, HookType
  <1>6. QED BY <1>1, <1>2, <1>5, RestKeeps DEF Restart

LEMMA NextIInv == IInv /\ [Next]_vars => IInv'
  <1>1. SUFFICES ASSUME IInv, [Next]_vars PROVE IInv'
    OBVIOUS
  <1>2. CASE ScanStep
    BY <1>1, <1>2, BeginScanKeeps, TakeKeeps, AppendEntryKeeps, AlertKeeps, EndScanKeeps DEF ScanStep
  <1>3. CASE UNCHANGED vars
    BY <1>1, <1>3 DEF vars, IInv, TypeOK, AlertedOnce, ScanIsFresh
  <1>4. QED
    BY <1>1, <1>2, <1>3, TickKeeps, PeopleKeep, HookKeeps, RestartKeeps DEF Next

(* Every variable keeps its type: the scan, wherever a failed call or a    *)
(* restart cuts it short, the webhooks and the logs they share.            *)
THEOREM SlaTypeCorrect == Spec => []TypeOK
  <1>1. IInv => TypeOK
    BY DEF IInv
  <1>2. QED BY <1>1, InitIInv, NextIInv, PTL DEF Spec

(* Whatever fails and whenever the service restarts, an entry is alerted   *)
(* about at most once, and only once it is on the log.                     *)
THEOREM AlertsOnlyOnce == Spec => []AlertedOnce
  <1>1. IInv => AlertedOnce
    BY DEF IInv
  <1>2. QED BY <1>1, InitIInv, NextIInv, PTL DEF Spec
-----------------------------------------------------------------------------
(* The levels of an escalation.  What is planned as level two rests on a   *)
(* breach that is on the log; the breach is recorded once, so that its age *)
(* only grows from then on.                                                *)

LevelsInv ==
    /\ LevelTwoFollows
    /\ scan.phase \in {"append", "alert"} /\ "tier2" \in scan.plan =>
          "unresolved" \in log[scan.conv] /\ breach[scan.conv] >= Tier2

(* Steps that take no breach off the logs and make none younger.           *)
LEMMA LevelsKept ==
    ASSUME IInv, LevelsInv,
           \A c \in Conversations : /\ log'[c] \cap Entries = log[c] \cap Entries
                                    /\ "unresolved" \in log[c] => breach'[c] >= breach[c]
                                    /\ breach'[c] \in Nat,
           scan'.phase \in {"append", "alert"} =>
              \/ scan.phase \in {"append", "alert"} /\ scan'.conv = scan.conv /\ scan'.plan = scan.plan
              \/ "tier2" \notin scan'.plan
    PROVE  LevelsInv'
  <1>1. /\ "tier2" \in Entries /\ "unresolved" \in Entries /\ Tier2 \in Nat
        /\ \A c \in Conversations : breach[c] \in Nat
        /\ scan.phase \in {"append", "alert"} => scan.conv \in Conversations
    BY EntriesAndMarkers, SlaAssumption DEF IInv, TypeOK
  <1>2. ASSUME NEW c \in Conversations, "unresolved" \in log[c], breach[c] >= Tier2
        PROVE  "unresolved" \in log'[c] /\ breach'[c] >= Tier2
    BY <1>1, <1>2
  <1>3. LevelTwoFollows'
    BY <1>1, <1>2 DEF LevelsInv, LevelTwoFollows
  <1>4. QED BY <1>1, <1>2, <1>3 DEF LevelsInv

LEMMA TakeLevels ==
    ASSUME IInv, LevelsInv, NEW c \in Conversations, NEW ok \in BOOLEAN, Take(c, ok)
    PROVE  LevelsInv'
  <1>1. UNCHANGED <<log, breach>>
    BY DEF Take
  <1>2. LevelTwoFollows'
    BY <1>1 DEF LevelsInv, LevelTwoFollows
  <1>3. CASE ok
    <2>1. scan'.conv = c /\ scan'.plan = Plan(c)
      BY <1>3 DEF Take, IInv, TypeOK
    <2>2. "tier2" \in Plan(c) => "unresolved" \in log[c] /\ breach[c] >= Tier2
      BY DEF Plan, IsDue
    <2>3. QED BY <1>1, <1>2, <2>1, <2>2 DEF LevelsInv
  <1>4. CASE ~ok
    BY <1>2, <1>4 DEF Take, NoScan, LevelsInv
  <1>5. QED BY <1>3, <1>4

LEMMA AppendEntryLevels ==
    ASSUME IInv, LevelsInv, NEW x \in Entries, NEW ok \in BOOLEAN, NEW made \in BOOLEAN,
           AppendEntry(x, ok, made)
    PROVE  LevelsInv'
  <1> DEFINE c == scan.conv
  <1>1. /\ c \in Conversations /\ scan.phase = "append" /\ x \in scan.plan /\ x \notin log[c]
        /\ log \in [Conversations -> SUBSET (Entries \cup Markers)]
        /\ breach \in [Conversations -> 0..MaxAge]
    BY DEF AppendEntry, IInv, TypeOK, ScanIsFresh
  <1>2. \A d \in Conversations \ {c} : log'[d] = log[d] /\ breach'[d] = breach[d]
    BY <1>1 DEF AppendEntry
  <1>3. log'[c] = log[c] \/ log'[c] = log[c] \cup {x}
    BY <1>1 DEF AppendEntry
  <1>4. x # "unresolved" => breach'[c] = breach[c]
    BY <1>1 DEF AppendEntry
  <1>5. scan'.phase \in {"append", "alert"} => scan'.conv = c /\ scan'.plan \subseteq scan.plan
    <2>1. CASE ok
      BY <2>1 DEF AppendEntry, IInv, TypeOK
    <2>2. CASE ~ok
      BY <2>2 DEF AppendEntry, NoScan
    <2>3. QED BY <2>1, <2>2
  <1>6. CASE x = "unresolved"
    <2>1. "tier2" \notin log[c] /\ "tier2" \notin scan.plan
      BY <1>1, <1>6 DEF LevelsInv, LevelTwoFollows
    <2>2. "tier2" \notin log'[c]
      BY <1>3, <1>6, <2>1
    <2>3. QED BY <1>2, <1>5, <2>1, <2>2 DEF LevelsInv, LevelTwoFollows
  <1>7. CASE x # "unresolved"
    <2>1. "tier2" \in log'[c] \/ "tier2" \in scan.plan =>
             "unresolved" \in log'[c] /\ breach'[c] >= Tier2
      BY <1>1, <1>3, <1>4, <1>7 DEF LevelsInv, LevelTwoFollows
    <2>2. QED BY <1>2, <1>5, <2>1 DEF LevelsInv, LevelTwoFollows
  <1>8. QED BY <1>6, <1>7

LEMMA LevelsStep ==
    ASSUME IInv, LevelsInv, [Next]_vars
    PROVE  LevelsInv'
  <1>1. /\ breach \in [Conversations -> 0..MaxAge] /\ MaxAge \in Nat
        /\ log \in [Conversations -> SUBSET (Entries \cup Markers)]
    BY SlaAssumption DEF IInv, TypeOK
  <1>2. CASE Tick
    <2>1. scan'.phase = "due" /\ log' = log
      BY <1>2 DEF Tick, IInv, TypeOK
    <2>2. \A n \in 0..MaxAge : Older(n) >= n /\ Older(n) \in Nat
      BY <1>1 DEF Older
    <2>3. \A c \in Conversations : breach'[c] = IF "unresolved" \in log[c] THEN Older(breach[c]) ELSE 0
      BY <1>2 DEF Tick
    <2>4. \A c \in Conversations : /\ "unresolved" \in log[c] => breach'[c] >= breach[c]
                                   /\ breach'[c] \in Nat
      BY <1>1, <2>2, <2>3
    <2>5. QED BY <2>1, <2>4, LevelsKept
  <1>3. ASSUME UNCHANGED <<log, breach>>,
               scan'.phase \in {"append", "alert"} =>
                  scan.phase \in {"append", "alert"} /\ scan'.conv = scan.conv /\ scan'.plan = scan.plan
        PROVE  LevelsInv'
    BY <1>1, <1>3, LevelsKept
  <1>4. ASSUME NEW c \in Conversations,
               \/ \E status \in {"open", "pending", "resolved"} : SetStatus(c, status)
               \/ \E h \in Slots : AgentReplies(h, c) \/ DealerAnswers(h, c)
        PROVE  LevelsInv'
    BY <1>3, <1>4 DEF SetStatus, AgentReplies, DealerAnswers
  <1>5. ASSUME NEW h \in Slots, NEW ok \in BOOLEAN, ListForMarker(h, ok) PROVE LevelsInv'
    BY <1>3, <1>5 DEF ListForMarker
  <1>6. ASSUME NEW h \in Slots, NEW ok \in BOOLEAN, NEW made \in BOOLEAN, AppendMarker(h, ok, made)
        PROVE  LevelsInv'
    <2>1. /\ hook[h].conv \in Conversations /\ hook[h].marker \in Markers
          /\ log' = log \/ log' = [log EXCEPT ![hook[h].conv] = @ \cup {hook[h].marker}]
          /\ UNCHANGED <<breach, scan>>
      BY <1>6 DEF AppendMarker, IInv, TypeOK
    <2>2. \A c \in Conversations : log'[c] \cap Entries = log[c] \cap Entries
      BY <1>1, <2>1, EntriesAndMarkers
    <2>3. QED BY <1>1, <2>1, <2>2, LevelsKept
  <1>7. CASE ScanStep
    <2>1. ASSUME NEW ok \in BOOLEAN, BeginScan(ok) PROVE LevelsInv'
      BY <1>3, <2>1 DEF BeginScan, NoScan
    <2>2. CASE Alert
      BY <1>3, <2>2 DEF Alert, Proceed, IInv, TypeOK
    <2>3. CASE EndScan
      BY <1>3, <2>3 DEF EndScan, NoScan
    <2>4. QED BY <1>7, <2>1, <2>2, <2>3, TakeLevels, AppendEntryLevels DEF ScanStep
  <1>8. CASE Restart
    BY <1>3, <1>8 DEF Restart, FirstScan, NoScan
  <1>9. CASE UNCHANGED vars
    BY <1>3, <1>9 DEF vars
  <1>10. QED BY <1>2, <1>4, <1>5, <1>6, <1>7, <1>8, <1>9 DEF Next, HookStep

(* Level two comes after the first breach, and not before its time.        *)
THEOREM LevelTwoInItsTime == Spec => []LevelTwoFollows
  <1>1. Init => LevelsInv
    BY DEF Init, LevelsInv, LevelTwoFollows, FirstScan, NoScan
  <1>2. LevelsInv => LevelTwoFollows
    BY DEF LevelsInv
  <1>3. IInv /\ LevelsInv /\ [Next]_vars => LevelsInv'
    BY LevelsStep
  <1>4. QED BY <1>1, <1>2, <1>3, InitIInv, NextIInv, PTL DEF Spec

=============================================================================
