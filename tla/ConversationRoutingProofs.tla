--------------------- MODULE ConversationRoutingProofs ---------------------
(***************************************************************************)
(* Proofs about ConversationRouting for any number of conversations,       *)
(* agents, requests and supervisors, any cap and any ranking.              *)
(*                                                                         *)
(* What a pick has read stays in its task, so most of the argument is      *)
(* about one task at a time (Fit): a candidate was below the cap by the    *)
(* tally in the task, the chosen one is the least loaded by that tally.    *)
(* Looked relates the sweep's task to the conversation it will write.      *)
(***************************************************************************)
EXTENDS ConversationRouting, FiniteSetTheorems, TLAPS

TaskType ==
    [phase : {"idle", "agents", "counts", "filter", "choose", "record", "assign", "audit",
              "next", "recheck"},
     conv : Conversations \cup {Nowhere}, channel : Channels, agents : SUBSET Agents,
     ranked : BOOLEAN, tally : [Agents -> Nat], tallied : BOOLEAN, tier : 1..3,
     left : SUBSET Agents, kept : SUBSET Agents, agent : Agents \cup {None},
     blind : BOOLEAN]

Below(t, a) == Cap > 0 => t.tally[a] < Cap

(* What holds of a task whatever the others do.                            *)
Fit(t) ==
    /\ t.phase \notin {"idle", "next"} => t.conv \in Conversations
    /\ t.phase = "filter" => \A a \in t.left \cup t.kept : Below(t, a)
    /\ t.phase = "choose" => \A a \in t.kept : Below(t, a)
    /\ t.phase \in {"record", "assign", "audit"} => t.agent \in Agents
    /\ t.phase \in {"record", "assign"} =>
          /\ Below(t, t.agent)
          /\ FairShare => \A a \in t.kept : t.agent \in t.kept /\ t.tally[t.agent] <= t.tally[a]

Good(t) == t \in TaskType /\ Fit(t)

Tasks == task \in [Procs -> TaskType] /\ \A p \in Procs : Fit(task[p])
Queue ==
    /\ open \subseteq Conversations /\ aged \subseteq Conversations
    /\ assignee \in [Conversations -> Members \cup {None}]
Staff == online \subseteq Agents /\ away \subseteq Agents
Order == /\ fresher \subseteq Agents \X Agents
         /\ \A a, b \in Agents : <<a, b>> \in fresher => <<b, a>> \notin fresher
Rest == /\ todo \subseteq Conversations /\ rival \in BOOLEAN
        /\ audit \subseteq Conversations \X Agents /\ named \subseteq Conversations \X Members
        /\ acts \in 0..MaxActs /\ faults \in 0..MaxFaults

Types == Tasks /\ Queue /\ Staff /\ Order /\ Rest

(* The rows, and the rows about to be written.                             *)
Audited ==
    /\ audit \subseteq named
    /\ \A p \in Procs : task[p].phase = "audit" => <<task[p].conv, task[p].agent>> \in named

(* Since the sweep's second look the conversation is free, or taken by     *)
(* somebody who was noticed.                                               *)
Looked ==
    /\ task[Sweep].phase \in {"agents", "counts", "filter", "choose", "record", "assign"}
    /\ ~rival /\ ~task[Sweep].blind
    => assignee[task[Sweep].conv] = None

-----------------------------------------------------------------------------
(* Tasks. *)

LEMMA TypesGive == Types => TypeOK
BY DEF Types, Tasks, Queue, Staff, Order, Rest, TypeOK, TaskType

LEMMA SweepIsProc == Sweep \in Procs
BY DEF Procs

LEMMA TallyType == NoTally \in [Agents -> Nat] /\ \A a \in Agents : NoTally[a] = 0
BY DEF NoTally

LEMMA IdleGood == Good(Idle) /\ Idle.phase = "idle" /\ Idle.blind = FALSE /\ Idle.conv = Nowhere
<1>1. ASSUME NEW no \in BOOLEAN, NEW n \in [Agents -> Nat]
      PROVE  [phase |-> "idle", conv |-> Nowhere, channel |-> "own", agents |-> {}, ranked |-> no,
              tally |-> n, tallied |-> no, tier |-> 1, left |-> {}, kept |-> {},
              agent |-> None, blind |-> no] \in TaskType
  BY DEF TaskType, Channels
<1>2. Idle \in TaskType
  BY <1>1, TallyType DEF Idle
<1>3. Idle.phase = "idle" /\ Idle.conv = Nowhere /\ Idle.blind = FALSE
  BY ZenonT(30) DEF Idle
<1> QED BY <1>2, <1>3 DEF Good, Fit

LEMMA DoneGood == ASSUME NEW p PROVE Good(Done(p)) /\ Done(p).phase \in {"idle", "next"}
<1>1. CASE p = Sweep
  <2>1. ASSUME NEW i \in TaskType PROVE [i EXCEPT !.phase = "next"] \in TaskType
                                     /\ [i EXCEPT !.phase = "next"].phase = "next"
    BY DEF TaskType
  <2> QED BY <1>1, <2>1, IdleGood DEF Done, Good, Fit
<1>2. CASE p # Sweep
  BY <1>2, IdleGood DEF Done
<1> QED BY <1>1, <1>2

LEMMA GoesGood ==
    ASSUME Tasks, NEW p \in Procs, NEW t, Good(t), Goes(p, t)
    PROVE  Tasks' /\ task'[p] = t /\ \A q \in Procs \ {p} : task'[q] = task[q]
<1>1. task' = [task EXCEPT ![p] = t] /\ task \in [Procs -> TaskType] /\ t \in TaskType
  BY DEF Goes, Tasks, Good
<1>2. task'[p] = t /\ \A q \in Procs \ {p} : task'[q] = task[q]
  BY <1>1
<1>3. task' \in [Procs -> TaskType]
  BY <1>1
<1>4. \A q \in Procs : Fit(task'[q])
  BY <1>2 DEF Tasks, Good
<1> QED BY <1>2, <1>3, <1>4 DEF Tasks, Fit, Below

LEMMA CandidatesType ==
    ASSUME NEW t \in TaskType, NEW i
    PROVE  Candidates(t, i) \in SUBSET Agents /\ \A a \in Candidates(t, i) : Below(t, a)
BY DEF Candidates, Eligible, TaskType, Below

(* Trying the tiers ends with a fit task, and keeps whose task it is.      *)
LEMMA TriedGood ==
    ASSUME NEW p, NEW t \in TaskType, t.conv \in Conversations, NEW from \in 1..4
    PROVE  /\ Good(TryTiers(p, t, from))
           /\ \/ TryTiers(p, t, from).phase \in {"idle", "next"}
              \/ /\ TryTiers(p, t, from).phase \in {"filter", "choose"}
                 /\ TryTiers(p, t, from).conv = t.conv /\ TryTiers(p, t, from).blind = t.blind
<1> DEFINE tiers == {i \in from..3 : Candidates(t, i) # {}}
           first == CHOOSE i \in tiers : \A j \in tiers : i <= j
           c == Candidates(t, first)
<1>1. CASE tiers = {}
  <2>1. TryTiers(p, t, from) = Done(p)
    BY <1>1 DEF TryTiers
  <2> QED BY <2>1, DoneGood
<1>2. CASE tiers # {}
  <2>1. first \in 1..3
    <3>1. tiers \in SUBSET (1..3)
      BY SMT
    <3>2. \E i \in tiers : \A j \in tiers : i <= j
      <4> HIDE DEF tiers
      <4>1. \A j \in tiers : j = 1 \/ j = 2 \/ j = 3
        BY <3>1
      <4>2. CASE 1 \in tiers
        BY <4>1, <4>2
      <4>3. CASE 1 \notin tiers /\ 2 \in tiers
        BY <4>1, <4>3
      <4>4. CASE 1 \notin tiers /\ 2 \notin tiers
        BY <1>2, <4>1, <4>4
      <4> QED BY <4>2, <4>3, <4>4
    <3> HIDE DEF tiers
    <3> QED BY <3>1, <3>2
  <2>2. c \in SUBSET Agents /\ \A a \in c : Below(t, a)
    BY CandidatesType
  <2> HIDE DEF c, first
  <2>3. CASE FairShare
    <3>1. TryTiers(p, t, from) = [t EXCEPT !.phase = "filter", !.tier = first, !.left = c, !.kept = {}]
      BY <1>2, <2>3 DEF TryTiers, c, first
    <3> DEFINE u == [t EXCEPT !.phase = "filter", !.tier = first, !.left = c, !.kept = {}]
    <3>2. /\ u \in TaskType /\ u.phase = "filter" /\ u.left = c /\ u.kept = {} /\ u.conv = t.conv
          /\ u.blind = t.blind /\ u.tally = t.tally
      BY <2>1, <2>2 DEF TaskType
    <3> HIDE DEF u
    <3>3. Fit(u)
      BY <2>2, <3>2 DEF Fit, Below
    <3> QED BY <3>1, <3>2, <3>3 DEF Good, u
  <2>4. CASE ~FairShare
    <3>1. TryTiers(p, t, from) = [t EXCEPT !.phase = "choose", !.tier = first, !.left = {}, !.kept = c]
      BY <1>2, <2>4 DEF TryTiers, c, first
    <3> DEFINE u == [t EXCEPT !.phase = "choose", !.tier = first, !.left = {}, !.kept = c]
    <3>2. /\ u \in TaskType /\ u.phase = "choose" /\ u.left = {} /\ u.kept = c /\ u.conv = t.conv
          /\ u.blind = t.blind /\ u.tally = t.tally
      BY <2>1, <2>2 DEF TaskType
    <3> HIDE DEF u
    <3>3. Fit(u)
      BY <2>2, <3>2 DEF Fit, Below
    <3> QED BY <3>1, <3>2, <3>3 DEF Good, u
  <2> QED BY <2>3, <2>4
<1> QED BY <1>1, <1>2

-----------------------------------------------------------------------------
(* Types. *)

LEMMA TypesInit == Init => Types
<1> SUFFICES ASSUME Init PROVE Types
  OBVIOUS
<1>1. Tasks
  BY IdleGood DEF Init, Tasks, Good
<1>2. Queue /\ Staff /\ Order
  BY RoutingAssumption DEF Init, Queue, Staff, Order, RoutingAssumption
<1>3. rival \in BOOLEAN
  BY DEF Init
<1>4. todo \subseteq Conversations /\ audit \subseteq Conversations \X Agents
      /\ named \subseteq Conversations \X Members
  BY DEF Init
<1>5. acts \in 0..MaxActs /\ faults \in 0..MaxFaults
  BY RoutingAssumption DEF Init, RoutingAssumption
<1> QED BY <1>1, <1>2, <1>3, <1>4, <1>5 DEF Types, Rest

LEMMA ActType ==
    ASSUME acts \in 0..MaxActs, Act PROVE acts' \in 0..MaxActs
BY RoutingAssumption DEF Act, RoutingAssumption

LEMMA OutcomeType ==
    ASSUME faults \in 0..MaxFaults, NEW ok \in BOOLEAN, Outcome(ok) PROVE faults' \in 0..MaxFaults
BY RoutingAssumption DEF Outcome, RoutingAssumption

LEMMA PeopleType ==
    ASSUME Types,
           \/ \E c \in Conversations : \/ Age(c) \/ OpenOrResolve(c)
                                      \/ \E a \in Members \cup {None} : AssignByHand(c, a)
           \/ \E a \in Agents : ComeOrGo(a)
    PROVE  Types'
<1>0. Tasks /\ Queue /\ Staff /\ Order /\ Rest
  BY DEF Types
<1>1. ASSUME NEW c \in Conversations, Age(c) PROVE Types'
  BY <1>0, <1>1 DEF Age, Types, Tasks, Fit, Below, Queue, Staff, Order, Rest, staffVars, ghostVars
<1>2. ASSUME NEW c \in Conversations, OpenOrResolve(c) PROVE Types'
  <2>1. acts' \in 0..MaxActs
    BY <1>0, <1>2, ActType DEF OpenOrResolve, Rest
  <2> QED
    BY <1>0, <1>2, <2>1
       DEF OpenOrResolve, Types, Tasks, Fit, Below, Queue, Staff, Order, Rest, staffVars, ghostVars
<1>3. ASSUME NEW c \in Conversations, NEW a \in Members \cup {None}, AssignByHand(c, a) PROVE Types'
  <2>1. acts' \in 0..MaxActs
    BY <1>0, <1>3, ActType DEF AssignByHand, Rest
  <2>2. Queue'
    BY <1>0, <1>3 DEF AssignByHand, Queue
  <2>3. rival' \in BOOLEAN
    BY <1>0, <1>3 DEF AssignByHand, Rest
  <2>4. Tasks' /\ Staff' /\ Order'
    BY <1>0, <1>3 DEF AssignByHand, Tasks, Fit, Below, Staff, Order, staffVars
  <2>5. Rest'
    BY <1>0, <1>3, <2>1, <2>3 DEF AssignByHand, Rest
  <2> QED BY <2>2, <2>4, <2>5 DEF Types
<1>4. ASSUME NEW a \in Agents, ComeOrGo(a) PROVE Types'
  <2>1. acts' \in 0..MaxActs
    BY <1>0, <1>4, ActType DEF ComeOrGo, Rest
  <2>2. Staff'
    BY <1>0, <1>4 DEF ComeOrGo, Staff
  <2> QED
    BY <1>0, <1>4, <2>1, <2>2
       DEF ComeOrGo, Types, Tasks, Fit, Below, Queue, Order, Rest, queueVars, ghostVars
<1> QED BY <1>1, <1>2, <1>3, <1>4

(* The tasks a process turns to. *)
LEMMA StepGood ==
    ASSUME Tasks, NEW p \in Procs, task[p].phase \notin {"idle", "next"}
    PROVE  /\ Good(task[p]) /\ task[p] \in TaskType /\ task[p].conv \in Conversations
BY DEF Tasks, Good, Fit

(* Every read of a pick, and the choice, leaves a fit task: of the same    *)
(* conversation, or finished.                                              *)
Reads(p) ==
    \/ \E ok \in BOOLEAN :
          \/ \E channel \in Channels, ranked \in BOOLEAN : FetchAgents(p, channel, ok, ranked)
          \/ FetchOpenCounts(p, ok)
          \/ \E a \in Agents : IsRoutable(p, a, ok)
    \/ \E a \in Agents : Choose(p, a)
    \/ Record(p)
Goeson(p) ==
    \/ task'[p].phase \in {"idle", "next"}
    \/ /\ task'[p].phase \in {"counts", "filter", "choose", "record", "assign"}
       /\ task'[p].conv = task[p].conv /\ task'[p].blind = task[p].blind

LEMMA LoadType == ASSUME Queue, NEW a \in Agents PROVE Load(a) \in Nat
<1>1. IsFiniteSet({c \in open : assignee[c] = a})
  BY RoutingAssumption, FS_Subset DEF Queue, RoutingAssumption
<1> QED BY <1>1, FS_CardinalityType DEF Load

LEMMA ReadTask ==
    ASSUME Types, NEW p \in Procs, Reads(p)
    PROVE  /\ \E t : Good(t) /\ Goes(p, t)
           /\ Tasks' /\ Goeson(p) /\ \A q \in Procs \ {p} : task'[q] = task[q]
           /\ task[p].phase \in {"agents", "counts", "filter", "choose", "record"}
<1> DEFINE s == task[p]
<1>0. Tasks /\ Queue /\ Staff /\ s.phase \in {"agents", "counts", "filter", "choose", "record"}
  BY DEF Types, Reads, FetchAgents, FetchOpenCounts, IsRoutable, Choose, Record
<1>s. s \in TaskType /\ s.conv \in Conversations /\ Fit(s)
  BY <1>0, StepGood DEF Good
<1> HIDE DEF s
<1>1. SUFFICES \E t : /\ Good(t) /\ Goes(p, t)
                     /\ \/ t.phase \in {"idle", "next"}
                        \/ /\ t.phase \in {"counts", "filter", "choose", "record", "assign"}
                           /\ t.conv = s.conv /\ t.blind = s.blind
  BY <1>0, GoesGood DEF Goeson, s
<1>2. ASSUME NEW ok \in BOOLEAN, NEW channel \in Channels, NEW ranked \in BOOLEAN,
             FetchAgents(p, channel, ok, ranked)
      PROVE  \E t : /\ Good(t) /\ Goes(p, t)
                   /\ \/ t.phase \in {"idle", "next"}
                      \/ /\ t.phase \in {"counts", "filter", "choose", "record", "assign"}
                         /\ t.conv = s.conv /\ t.blind = s.blind
  <2> DEFINE t == [s EXCEPT !.phase = "counts", !.channel = channel, !.ranked = ranked,
                            !.agents = IF ok THEN online ELSE {}]
  <2>1. t \in TaskType /\ t.phase = "counts" /\ t.conv = s.conv /\ t.blind = s.blind
    BY <1>0, <1>s DEF TaskType, Staff
  <2>2. Goes(p, IF Cap > 0 \/ FairShare THEN t ELSE TryTiers(p, t, 1))
    BY <1>2 DEF FetchAgents, s
  <2> HIDE DEF t
  <2>3. Good(t)
    BY <1>s, <2>1 DEF Good, Fit
  <2>4. t.conv \in Conversations
    BY <1>s, <2>1
  <2> QED BY <2>1, <2>2, <2>3, <2>4, TriedGood
<1>3. ASSUME NEW ok \in BOOLEAN, FetchOpenCounts(p, ok)
      PROVE  \E t : /\ Good(t) /\ Goes(p, t)
                   /\ \/ t.phase \in {"idle", "next"}
                      \/ /\ t.phase \in {"counts", "filter", "choose", "record", "assign"}
                         /\ t.conv = s.conv /\ t.blind = s.blind
  <2> DEFINE n == IF ok THEN [a \in Agents |-> Load(a)] ELSE NoTally
             t == [s EXCEPT !.tallied = ok, !.tally = n]
  <2>1. n \in [Agents -> Nat]
    BY <1>0, LoadType, TallyType
  <2>2. Goes(p, TryTiers(p, t, 1))
    BY <1>3 DEF FetchOpenCounts, s
  <2> HIDE DEF n
  <2>3. t \in TaskType /\ t.conv = s.conv /\ t.blind = s.blind
    BY <1>s, <2>1 DEF TaskType
  <2> HIDE DEF t
  <2> QED BY <1>s, <2>2, <2>3, TriedGood
<1>4. ASSUME NEW a \in Agents, NEW ok \in BOOLEAN, IsRoutable(p, a, ok)
      PROVE  \E t : /\ Good(t) /\ Goes(p, t)
                   /\ \/ t.phase \in {"idle", "next"}
                      \/ /\ t.phase \in {"counts", "filter", "choose", "record", "assign"}
                         /\ t.conv = s.conv /\ t.blind = s.blind
  <2> DEFINE kept == s.kept \cup (IF ok /\ a \in away THEN {} ELSE {a})
             t    == [s EXCEPT !.left = @ \ {a}, !.kept = kept]
  <2>1. Goes(p, IF t.left # {} THEN t
                ELSE IF kept # {} THEN [t EXCEPT !.phase = "choose"]
                ELSE TryTiers(p, t, t.tier + 1))
    BY <1>4 DEF IsRoutable, s
  <2>2. s.phase = "filter" /\ a \in s.left
    BY <1>4 DEF IsRoutable, s
  <2>3. kept \in SUBSET Agents /\ kept \subseteq s.kept \cup s.left
    BY <1>s, <2>2 DEF TaskType
  <2> HIDE DEF kept
  <2>4. /\ t \in TaskType /\ t.phase = "filter" /\ t.conv = s.conv /\ t.blind = s.blind
        /\ t.kept = kept /\ t.left \subseteq s.left /\ t.tally = s.tally /\ t.tier + 1 \in 1..4
    <3>1. t = [s EXCEPT !.left = s.left \ {a}, !.kept = kept]
      BY <1>s DEF TaskType
    <3>2. s.left \ {a} \in SUBSET Agents /\ s.tier \in 1..3
      BY <1>s DEF TaskType
    <3>3. t \in TaskType
      BY <1>s, <2>3, <3>1, <3>2 DEF TaskType
    <3>4. /\ t.phase = s.phase /\ t.conv = s.conv /\ t.blind = s.blind /\ t.kept = kept
          /\ t.left = s.left \ {a} /\ t.tally = s.tally /\ t.tier = s.tier
      BY <1>s, <3>1 DEF TaskType
    <3> HIDE DEF t
    <3> QED BY <2>2, <3>2, <3>3, <3>4
  <2>5. \A b \in t.left \cup t.kept : Below(t, b)
    BY <1>s, <2>2, <2>3, <2>4 DEF Fit, Below
  <2> HIDE DEF t
  <2>6. Good(t)
    BY <1>s, <2>4, <2>5 DEF Good, Fit
  <2> DEFINE u == [t EXCEPT !.phase = "choose"]
  <2>7. /\ u \in TaskType /\ u.phase = "choose" /\ u.conv = s.conv /\ u.blind = s.blind
        /\ u.kept = t.kept /\ u.tally = t.tally
    BY <2>4 DEF TaskType
  <2> HIDE DEF u
  <2>8. Good(u)
    BY <1>s, <2>5, <2>7 DEF Good, Fit, Below
  <2>9. CASE t.left # {}
    BY <2>1, <2>4, <2>6, <2>9
  <2>10. CASE t.left = {} /\ kept # {}
    BY <2>1, <2>7, <2>8, <2>10 DEF u
  <2>11. CASE t.left = {} /\ kept = {}
    BY <1>s, <2>1, <2>4, <2>11, TriedGood
  <2> QED BY <2>9, <2>10, <2>11
<1>5. ASSUME NEW a \in Agents, Choose(p, a)
      PROVE  \E t : /\ Good(t) /\ Goes(p, t)
                   /\ \/ t.phase \in {"idle", "next"}
                      \/ /\ t.phase \in {"counts", "filter", "choose", "record", "assign"}
                         /\ t.conv = s.conv /\ t.blind = s.blind
  <2> DEFINE ph == IF FairShare THEN "record" ELSE "assign"
             t  == [Idle EXCEPT !.phase = ph, !.conv = s.conv, !.agent = a, !.kept = s.kept,
                                !.tally = s.tally, !.tallied = s.tallied, !.blind = s.blind]
  <2>1. Goes(p, t) /\ s.phase = "choose" /\ First(s, a)
    BY <1>5 DEF Choose, s
  <2>2. ph \in {"record", "assign"}
    OBVIOUS
  <2> HIDE DEF ph
  <2>3. /\ t \in TaskType /\ t.phase = ph /\ t.conv = s.conv /\ t.blind = s.blind
        /\ t.agent = a /\ t.kept = s.kept /\ t.tally = s.tally
    BY <1>s, <2>2, IdleGood DEF Good, TaskType
  <2> HIDE DEF t
  <2>4. a \in s.kept /\ Below(s, a) /\ s.kept \in SUBSET Agents /\ s.tally \in [Agents -> Nat]
    BY <1>s, <2>1 DEF First, Fit, TaskType
  <2>5. FairShare => \A b \in s.kept : s.tally[a] <= s.tally[b]
    <3>1. \A b \in s.kept : s.tally[b] \in Nat
      BY <2>4
    <3>2. FairShare => \A b \in s.kept \ {a} : s.tally[a] < s.tally[b] \/ s.tally[a] = s.tally[b]
      BY <2>1 DEF First, Before
    <3> QED BY <2>4, <3>1, <3>2
  <2>6. Fit(t)
    BY <1>s, <2>2, <2>3, <2>4, <2>5 DEF Fit, Below
  <2> QED BY <2>1, <2>2, <2>3, <2>6 DEF Good
<1>6. ASSUME Record(p)
      PROVE  \E t : /\ Good(t) /\ Goes(p, t)
                   /\ \/ t.phase \in {"idle", "next"}
                      \/ /\ t.phase \in {"counts", "filter", "choose", "record", "assign"}
                         /\ t.conv = s.conv /\ t.blind = s.blind
  <2> DEFINE t == [s EXCEPT !.phase = "assign"]
  <2>1. Goes(p, t) /\ s.phase = "record"
    BY <1>6 DEF Record, s
  <2>2. /\ t \in TaskType /\ t.phase = "assign" /\ t.conv = s.conv /\ t.blind = s.blind
        /\ t.agent = s.agent /\ t.kept = s.kept /\ t.tally = s.tally
    BY <1>s DEF TaskType
  <2> HIDE DEF t
  <2>3. Good(t)
    BY <1>s, <2>1, <2>2 DEF Good, Fit, Below
  <2> QED BY <2>1, <2>2, <2>3
<1> QED BY <1>2, <1>3, <1>4, <1>5, <1>6 DEF Reads

LEMMA ReadsType == ASSUME Types, NEW p \in Procs, Reads(p) PROVE Types'
<1>0. Tasks /\ Queue /\ Staff /\ Order /\ Rest
  BY DEF Types
<1>1. Tasks'
  BY ReadTask
<1>2. faults' \in 0..MaxFaults
  <2>1. ASSUME NEW ok \in BOOLEAN, NEW b \in BOOLEAN, NEW c \in BOOLEAN, Outcome(c /\ ok /\ b)
        PROVE  faults' \in 0..MaxFaults
    <3>1. (c /\ ok /\ b) \in BOOLEAN
      OBVIOUS
    <3> QED BY <1>0, <2>1, <3>1, OutcomeType DEF Rest
  <2>2. ASSUME NEW channel PROVE (channel = "own") \in BOOLEAN
    OBVIOUS
  <2>3. ASSUME NEW ok \in BOOLEAN, NEW channel \in Channels, NEW ranked \in BOOLEAN,
               FetchAgents(p, channel, ok, ranked)
        PROVE  faults' \in 0..MaxFaults
    BY <2>1, <2>2, <2>3 DEF FetchAgents
  <2> QED BY <1>0, <2>3, OutcomeType DEF Reads, FetchOpenCounts, IsRoutable, Choose, Record, Rest
<1>3. /\ UNCHANGED <<queueVars, staffVars, todo, audit, ghostVars, acts>>
      /\ Record(p) \/ UNCHANGED fresher
  BY DEF Reads, FetchAgents, FetchOpenCounts, IsRoutable, Choose, Record
<1>4. Order'
  <2>1. CASE Record(p)
    <3>1. task[p].agent \in Agents
      BY <1>0, <2>1 DEF Record, Tasks, Fit
    <3> QED BY <1>0, <2>1, <3>1 DEF Record, Order
  <2>2. CASE UNCHANGED fresher
    BY <1>0, <2>2 DEF Order
  <2> QED BY <1>3, <2>1, <2>2
<1> QED
  BY <1>0, <1>1, <1>2, <1>3, <1>4 DEF Types, Queue, Staff, Rest, queueVars, staffVars, ghostVars

(* What Assign leaves of its task. *)
LEMMA AssignTask ==
    ASSUME Types, NEW p \in Procs, NEW ok \in BOOLEAN, NEW made \in BOOLEAN, Assign(p, ok, made)
    PROVE  /\ Tasks' /\ \A q \in Procs \ {p} : task'[q] = task[q]
           /\ \/ task'[p].phase \in {"idle", "next"}
              \/ /\ ok /\ p \in Supervisors /\ task'[p].phase = "audit"
                 /\ task'[p].conv = task[p].conv /\ task'[p].agent = task[p].agent
           /\ task[p].conv \in Conversations /\ task[p].agent \in Agents
<1>0. Tasks /\ task[p].phase = "assign"
  BY DEF Types, Assign
<1>1. task[p] \in TaskType /\ task[p].conv \in Conversations /\ task[p].agent \in Agents
  BY <1>0, StepGood DEF Tasks, Fit
<1> DEFINE t == [task[p] EXCEPT !.phase = "audit"]
<1>2. t \in TaskType /\ t.phase = "audit" /\ t.conv = task[p].conv /\ t.agent = task[p].agent
  BY <1>1 DEF TaskType
<1>3. Goes(p, IF ok /\ p \in Supervisors THEN t ELSE Done(p))
  BY DEF Assign
<1> HIDE DEF t
<1>4. Good(t)
  BY <1>1, <1>2 DEF Good, Fit
<1>5. CASE ok /\ p \in Supervisors
  BY <1>0, <1>1, <1>2, <1>3, <1>4, <1>5, GoesGood
<1>6. CASE ~(ok /\ p \in Supervisors)
  BY <1>0, <1>1, <1>3, <1>6, GoesGood, DoneGood
<1> QED BY <1>5, <1>6

LEMMA AssignType ==
    ASSUME Types, NEW p \in Procs, NEW ok \in BOOLEAN, NEW made \in BOOLEAN, Assign(p, ok, made)
    PROVE  Types'
<1>0. Tasks /\ Queue /\ Staff /\ Order /\ Rest
  BY DEF Types
<1>1. Tasks' /\ task[p].conv \in Conversations /\ task[p].agent \in Agents
  BY AssignTask
<1>2. Queue'
  BY <1>0, <1>1 DEF Assign, Queue
<1>3. faults' \in 0..MaxFaults
  BY <1>0, OutcomeType DEF Assign, Rest
<1>4. rival' \in BOOLEAN /\ named' \subseteq Conversations \X Members
  <2>1. rival' \in BOOLEAN
    BY <1>0 DEF Assign, Rest
  <2>2. named' \subseteq Conversations \X Members
    BY <1>0, <1>1 DEF Assign, Rest
  <2> QED BY <2>1, <2>2
<1>5. Staff' /\ Order' /\ Rest'
  BY <1>0, <1>3, <1>4 DEF Assign, Staff, Order, Rest, staffVars
<1> QED BY <1>1, <1>2, <1>5 DEF Types

(* A request, a supervisor and the sweep take a conversation on. *)
LEMMA FreshGood ==
    ASSUME NEW c \in Conversations, NEW ph \in {"agents", "recheck"}
    PROVE  Good([Idle EXCEPT !.phase = ph, !.conv = c])
<1> DEFINE t == [Idle EXCEPT !.phase = ph, !.conv = c]
<1>1. t \in TaskType /\ t.phase = ph /\ t.conv = c
  BY IdleGood DEF Good, TaskType
<1> HIDE DEF t
<1>2. Good(t)
  BY <1>1 DEF Good, Fit
<1> QED BY <1>2 DEF t

LEMMA BeginType ==
    ASSUME Types,
           \/ \E c \in Conversations : \/ \E p \in Requests : HandOver(p, c)
                                      \/ \E p \in Supervisors, a \in Agents : Reassign(p, c, a)
           \/ \E p \in Supervisors, ok \in BOOLEAN : AppendAudit(p, ok)
           \/ Restart
    PROVE  Types'
<1>0. Tasks /\ Queue /\ Staff /\ Order /\ Rest
  BY DEF Types
<1>1. ASSUME NEW c \in Conversations, NEW p \in Requests, HandOver(p, c) PROVE Types'
  <2>1. acts' \in 0..MaxActs
    BY <1>0, <1>1, ActType DEF HandOver, Rest
  <2>2. Tasks'
    BY <1>0, <1>1, FreshGood, GoesGood DEF HandOver, Procs
  <2> QED
    BY <1>0, <1>1, <2>1, <2>2
       DEF HandOver, Types, Queue, Staff, Order, Rest, queueVars, staffVars, ghostVars
<1>2. ASSUME NEW c \in Conversations, NEW p \in Supervisors, NEW a \in Agents, Reassign(p, c, a)
      PROVE  Types'
  <2>1. acts' \in 0..MaxActs
    BY <1>0, <1>2, ActType DEF Reassign, Rest
  <2> DEFINE t == [Idle EXCEPT !.phase = "assign", !.conv = c, !.agent = a]
  <2>2. /\ t \in TaskType /\ t.phase = "assign" /\ t.conv = c /\ t.agent = a
        /\ t.tally = Idle.tally /\ t.kept = Idle.kept
    BY IdleGood DEF Good, TaskType
  <2>3. Idle.tally = NoTally /\ Idle.kept = {}
    BY ZenonT(30) DEF Idle
  <2>4. Goes(p, t)
    BY <1>2 DEF Reassign
  <2> HIDE DEF t
  <2>5. Below(t, a)
    BY <2>2, <2>3, TallyType, RoutingAssumption DEF Below, RoutingAssumption
  <2>6. Good(t)
    BY <2>2, <2>3, <2>5 DEF Good, Fit
  <2>7. Tasks'
    BY <1>0, <2>4, <2>6, GoesGood DEF Procs
  <2> QED
    BY <1>0, <1>2, <2>1, <2>7
       DEF Reassign, Types, Queue, Staff, Order, Rest, queueVars, staffVars, ghostVars
<1>3. ASSUME NEW p \in Supervisors, NEW ok \in BOOLEAN, AppendAudit(p, ok) PROVE Types'
  <2>0. p \in Procs
    BY DEF Procs
  <2>1. faults' \in 0..MaxFaults
    BY <1>0, <1>3, OutcomeType DEF AppendAudit, Rest
  <2>2. Tasks'
    BY <1>0, <1>3, <2>0, DoneGood, GoesGood DEF AppendAudit
  <2>3. task[p].conv \in Conversations /\ task[p].agent \in Agents
    BY <1>0, <1>3, <2>0 DEF AppendAudit, Tasks, Fit
  <2>4. audit' \subseteq Conversations \X Agents
    BY <1>0, <1>3, <2>3 DEF AppendAudit, Rest
  <2> QED
    BY <1>0, <1>3, <2>1, <2>2, <2>4
       DEF AppendAudit, Types, Queue, Staff, Order, Rest, queueVars, staffVars, ghostVars
<1>4. ASSUME Restart PROVE Types'
  <2>1. faults' \in 0..MaxFaults
    BY <1>0, <1>4, RoutingAssumption DEF Restart, Rest, RoutingAssumption
  <2>2. Tasks'
    BY <1>4, IdleGood DEF Restart, Tasks, Good, Fit, Below
  <2>3. Order'
    BY <1>4 DEF Restart, Order
  <2> QED
    BY <1>0, <1>4, <2>1, <2>2, <2>3
       DEF Restart, Types, Queue, Staff, Rest, queueVars, staffVars, ghostVars
<1> QED BY <1>1, <1>2, <1>3, <1>4

LEMMA SweepType ==
    ASSUME Types,
           \/ \E ok \in BOOLEAN : ListWaiting(ok) \/ Recheck(ok)
           \/ \E c \in Conversations : NextWaiting(c)
           \/ SweepEnds
    PROVE  Types'
<1>0. Tasks /\ Queue /\ Staff /\ Order /\ Rest /\ Sweep \in Procs
  BY SweepIsProc DEF Types
<1>1. ASSUME NEW ok \in BOOLEAN, ListWaiting(ok) PROVE Types'
  <2>1. faults' \in 0..MaxFaults
    BY <1>0, <1>1, OutcomeType DEF ListWaiting, Rest
  <2>2. Tasks'
    BY <1>0, <1>1, DoneGood, IdleGood, GoesGood DEF ListWaiting
  <2>3. todo' \subseteq Conversations
    BY <1>0, <1>1 DEF ListWaiting, Queue
  <2> QED
    BY <1>0, <1>1, <2>1, <2>2, <2>3
       DEF ListWaiting, Types, Queue, Staff, Order, Rest, queueVars, staffVars, ghostVars
<1>2. ASSUME NEW c \in Conversations, NextWaiting(c) PROVE Types'
  <2>1. Tasks'
    BY <1>0, <1>2, FreshGood, GoesGood DEF NextWaiting
  <2> QED
    BY <1>0, <1>2, <2>1
       DEF NextWaiting, Types, Queue, Staff, Order, Rest, queueVars, staffVars, ghostVars
<1>3. ASSUME SweepEnds PROVE Types'
  <2>1. Tasks'
    BY <1>0, <1>3, IdleGood, GoesGood DEF SweepEnds
  <2> QED
    BY <1>0, <1>3, <2>1
       DEF SweepEnds, Types, Queue, Staff, Order, Rest, queueVars, staffVars, ghostVars
<1>4. ASSUME NEW ok \in BOOLEAN, Recheck(ok) PROVE Types'
  <2>1. faults' \in 0..MaxFaults
    BY <1>0, <1>4, OutcomeType DEF Recheck, Rest
  <2>2. task[Sweep] \in TaskType /\ task[Sweep].conv \in Conversations
    BY <1>0, <1>4, StepGood DEF Recheck
  <2> DEFINE t == [task[Sweep] EXCEPT !.phase = "agents", !.blind = ~ok]
  <2>3. t \in TaskType /\ t.phase = "agents" /\ t.conv \in Conversations
    <3>1. ASSUME NEW b \in BOOLEAN
          PROVE  /\ [task[Sweep] EXCEPT !.phase = "agents", !.blind = b] \in TaskType
                 /\ [task[Sweep] EXCEPT !.phase = "agents", !.blind = b].phase = "agents"
                 /\ [task[Sweep] EXCEPT !.phase = "agents", !.blind = b].conv = task[Sweep].conv
      BY <2>2 DEF TaskType
    <3> QED BY <2>2, <3>1
  <2>4. Goes(Sweep, Done(Sweep)) \/ Goes(Sweep, t)
    BY <1>4 DEF Recheck
  <2> HIDE DEF t
  <2>5. Good(t)
    BY <2>3 DEF Good, Fit
  <2>6. Tasks'
    BY <1>0, <2>4, <2>5, DoneGood, GoesGood
  <2>7. rival' \in BOOLEAN
    BY <1>4 DEF Recheck
  <2> QED
    BY <1>0, <1>4, <2>1, <2>6, <2>7
       DEF Recheck, Types, Queue, Staff, Order, Rest, queueVars, staffVars
<1> QED BY <1>1, <1>2, <1>3, <1>4

(* The disjuncts of Next, by what they do to the tasks. *)
LEMMA NextSplit ==
    ASSUME Next
    PROVE  \/ \E c \in Conversations : \/ Age(c) \/ OpenOrResolve(c)
                                      \/ \E a \in Members \cup {None} : AssignByHand(c, a)
           \/ \E a \in Agents : ComeOrGo(a)
           \/ \E p \in Procs : Reads(p)
           \/ \E p \in Procs, ok \in BOOLEAN, made \in BOOLEAN : Assign(p, ok, made)
           \/ \E c \in Conversations : \/ \E p \in Requests : HandOver(p, c)
                                      \/ \E p \in Supervisors, a \in Agents : Reassign(p, c, a)
           \/ \E p \in Supervisors, ok \in BOOLEAN : AppendAudit(p, ok)
           \/ Restart
           \/ \E ok \in BOOLEAN : ListWaiting(ok) \/ Recheck(ok)
           \/ \E c \in Conversations : NextWaiting(c)
           \/ SweepEnds
<1>1. ASSUME NEW p \in Procs, Pick(p)
      PROVE  Reads(p) \/ \E ok \in BOOLEAN, made \in BOOLEAN : Assign(p, ok, made)
  BY <1>1 DEF Pick, Reads
<1>2. Requests \cup Supervisors \subseteq Procs /\ Sweep \in Procs
  BY DEF Procs
<1>3. (\E p \in Requests \cup Supervisors : Pick(p)) \/ Pick(Sweep)
         => \/ \E p \in Procs : Reads(p)
            \/ \E p \in Procs, ok \in BOOLEAN, made \in BOOLEAN : Assign(p, ok, made)
  BY <1>1, <1>2
<1> QED BY <1>3, ZenonT(60) DEF Next, SweepStep

LEMMA TypesNext == Types /\ [Next]_vars => Types'
<1> SUFFICES ASSUME Types, [Next]_vars PROVE Types'
  OBVIOUS
<1>1. CASE Next
  BY <1>1, NextSplit, PeopleType, ReadsType, AssignType, BeginType, SweepType
<1>2. CASE UNCHANGED vars
  BY <1>2 DEF vars, Types, Tasks, Fit, Below, Queue, Staff, Order, Rest, queueVars, staffVars, ghostVars
<1> QED BY <1>1, <1>2

(* Every reachable state is well typed: a pick's task names a conversation *)
(* and, once it has chosen, an agent, and nobody's pick is both before and *)
(* after another's.                                                        *)
THEOREM RoutingTypeCorrect == Spec => []TypeOK
<1>1. Spec => []Types
  BY TypesInit, TypesNext, PTL DEF Spec
<1> QED BY <1>1, TypesGive, PTL

-----------------------------------------------------------------------------
(* The audit log. *)

LEMMA AuditedNext == ASSUME Types, Audited, [Next]_vars PROVE Audited'
<1>0. Tasks
  BY DEF Types
<1>1. ASSUME NEW p \in Procs, Reads(p) PROVE Audited'
  <2>1. UNCHANGED <<audit, named>>
    BY <1>1 DEF Reads, FetchAgents, FetchOpenCounts, IsRoutable, Choose, Record, ghostVars
  <2>2. Goeson(p) /\ \A q \in Procs \ {p} : task'[q] = task[q]
    BY <1>1, ReadTask
  <2> QED BY <2>1, <2>2 DEF Audited, Goeson
<1>2. ASSUME NEW p \in Procs, NEW ok \in BOOLEAN, NEW made \in BOOLEAN, Assign(p, ok, made)
      PROVE  Audited'
  <2>1. audit' = audit /\ named \subseteq named'
        /\ (ok /\ p \in Supervisors => <<task[p].conv, task[p].agent>> \in named')
    BY <1>2 DEF Assign
  <2>2. /\ \A q \in Procs \ {p} : task'[q] = task[q]
        /\ \/ task'[p].phase \in {"idle", "next"}
           \/ /\ ok /\ p \in Supervisors /\ task'[p].phase = "audit"
              /\ task'[p].conv = task[p].conv /\ task'[p].agent = task[p].agent
    BY <1>2, AssignTask
  <2> QED BY <2>1, <2>2 DEF Audited
<1>3. ASSUME NEW p \in Procs, NEW t, Good(t), Goes(p, t), t.phase # "audit", UNCHANGED <<audit, named>>
      PROVE  Audited'
  <2>1. task'[p] = t /\ \A q \in Procs \ {p} : task'[q] = task[q]
    BY <1>0, <1>3, GoesGood
  <2> QED BY <1>3, <2>1 DEF Audited
<1>4. ASSUME \/ \E c \in Conversations :
                   \/ \E p \in Requests : HandOver(p, c)
                   \/ NextWaiting(c)
      PROVE  Audited'
  <2>1. ASSUME NEW c \in Conversations
        PROVE  /\ Good([Idle EXCEPT !.phase = "agents", !.conv = c])
               /\ Good([Idle EXCEPT !.phase = "recheck", !.conv = c])
               /\ [Idle EXCEPT !.phase = "agents", !.conv = c].phase = "agents"
               /\ [Idle EXCEPT !.phase = "recheck", !.conv = c].phase = "recheck"
    BY ZenonT(60), <2>1, FreshGood, IdleGood DEF Good, TaskType
  <2> QED BY <1>3, <1>4, <2>1 DEF HandOver, NextWaiting, Procs, ghostVars
<1>5. ASSUME NEW c \in Conversations, NEW p \in Supervisors, NEW a \in Agents, Reassign(p, c, a)
      PROVE  Audited'
  <2> DEFINE t == [Idle EXCEPT !.phase = "assign", !.conv = c, !.agent = a]
  <2>1. t.phase = "assign"
    BY IdleGood DEF Good, TaskType
  <2>2. task' = [task EXCEPT ![p] = t] /\ UNCHANGED <<audit, named>>
    BY <1>5 DEF Reassign, Goes, ghostVars
  <2> HIDE DEF t
  <2>3. \A q \in Procs : task'[q].phase = "audit" => task'[q] = task[q]
    BY <1>0, <2>1, <2>2 DEF Tasks
  <2> QED BY <2>2, <2>3 DEF Audited
<1>6. ASSUME NEW p \in Supervisors, NEW ok \in BOOLEAN, AppendAudit(p, ok) PROVE Audited'
  <2>0. p \in Procs
    BY DEF Procs
  <2>1. task'[p] = Done(p) /\ \A q \in Procs \ {p} : task'[q] = task[q]
    BY <1>0, <1>6, <2>0, DoneGood, GoesGood DEF AppendAudit
  <2>2. Done(p).phase # "audit"
    BY DoneGood
  <2>3. audit' \subseteq named /\ named' = named
    BY <1>6, <2>0 DEF AppendAudit, Audited, ghostVars
  <2> QED BY <2>1, <2>2, <2>3 DEF Audited
<1>7. CASE Restart
  BY <1>7, IdleGood DEF Restart, Audited, ghostVars
<1>8. CASE \E ok \in BOOLEAN : ListWaiting(ok)
  BY <1>3, <1>8, SweepIsProc, DoneGood, IdleGood DEF ListWaiting, ghostVars
<1>9. CASE \E ok \in BOOLEAN : Recheck(ok)
  <2>1. PICK ok \in BOOLEAN : Recheck(ok)
    BY <1>9
  <2>2. task[Sweep] \in TaskType
    BY <1>0, <2>1, SweepIsProc, StepGood DEF Recheck
  <2> DEFINE t == [task[Sweep] EXCEPT !.phase = "agents", !.blind = ~ok]
  <2>3. t.phase = "agents"
    BY <2>2 DEF TaskType
  <2>4. Goes(Sweep, Done(Sweep)) \/ Goes(Sweep, t)
    BY <2>1 DEF Recheck
  <2>5. UNCHANGED <<audit, named>>
    BY <2>1 DEF Recheck
  <2> HIDE DEF t
  <2>6. \A q \in Procs : task'[q].phase = "audit" => task'[q] = task[q]
    BY <1>0, <2>3, <2>4, DoneGood, SweepIsProc DEF Tasks, Goes
  <2> QED BY <2>5, <2>6 DEF Audited
<1>10. CASE SweepEnds
  BY <1>3, <1>10, SweepIsProc, IdleGood DEF SweepEnds, ghostVars
<1>11. CASE \/ \E c \in Conversations : \/ Age(c) \/ OpenOrResolve(c)
                                       \/ \E a \in Members \cup {None} : AssignByHand(c, a)
            \/ \E a \in Agents : ComeOrGo(a)
  BY <1>11 DEF Age, OpenOrResolve, AssignByHand, ComeOrGo, Audited, ghostVars
<1>12. CASE UNCHANGED vars
  BY <1>12 DEF vars, Audited, ghostVars
<1> QED
  BY <1>1, <1>2, <1>4, <1>5, <1>6, <1>7, <1>8, <1>9, <1>10, <1>11, <1>12, NextSplit

(* The audit log has only rows of assignments that Chatwoot has made.      *)
THEOREM AuditTells == Spec => []AuditTrue
<1>1. Init => Audited
  BY IdleGood DEF Init, Audited
<1>2. Types /\ Audited /\ [Next]_vars => Audited'
  BY AuditedNext
<1>3. Audited => AuditTrue
  BY DEF Audited, AuditTrue
<1> QED BY <1>1, <1>2, <1>3, TypesInit, TypesNext, PTL DEF Spec

-----------------------------------------------------------------------------
(* The sweep's second look. *)

LEMMA LookedNext == ASSUME Types, Looked, [Next]_vars PROVE Looked'
<1>0. Tasks /\ Queue /\ Sweep \in Procs
  BY SweepIsProc DEF Types
<1>1. ASSUME NEW p \in Procs, Reads(p) PROVE Looked'
  <2>1. UNCHANGED <<assignee, rival>>
    BY <1>1 DEF Reads, FetchAgents, FetchOpenCounts, IsRoutable, Choose, Record, ghostVars, queueVars
  <2>2. /\ Goeson(p) /\ \A q \in Procs \ {p} : task'[q] = task[q]
        /\ task[p].phase \in {"agents", "counts", "filter", "choose", "record"}
    BY <1>1, ReadTask
  <2>3. CASE p = Sweep
    BY <2>1, <2>2, <2>3 DEF Looked, Goeson
  <2>4. CASE p # Sweep
    BY <1>0, <2>1, <2>2, <2>4 DEF Looked
  <2> QED BY <2>3, <2>4
<1>2. ASSUME NEW p \in Procs, NEW ok \in BOOLEAN, NEW made \in BOOLEAN, Assign(p, ok, made)
      PROVE  Looked'
  <2>1. /\ \A q \in Procs \ {p} : task'[q] = task[q]
        /\ \/ task'[p].phase \in {"idle", "next"}
           \/ /\ p \in Supervisors /\ task'[p].phase = "audit"
    BY <1>2, AssignTask
  <2>2. CASE p = Sweep
    BY <2>1, <2>2 DEF Looked
  <2>3. CASE p # Sweep
    <3>1. task'[Sweep] = task[Sweep]
      BY <1>0, <2>1, <2>3
    <3>2. CASE made /\ task[Sweep].conv = task[p].conv
      <4>1. rival'
        BY <1>2, <2>3, <3>2 DEF Assign
      <4> QED BY <4>1 DEF Looked
    <3>3. CASE ~(made /\ task[Sweep].conv = task[p].conv)
      <4>1. rival' = rival \/ rival' = (rival \/ FALSE)
        BY <1>2, <3>3 DEF Assign
      <4>2. assignee'[task[Sweep].conv] = assignee[task[Sweep].conv]
        BY <1>0, <1>2, <3>3 DEF Assign, Queue
      <4> QED BY <3>1, <4>1, <4>2 DEF Looked
    <3> QED BY <3>2, <3>3
  <2> QED BY <2>2, <2>3
<1>3. ASSUME NEW c \in Conversations, NEW a \in Members \cup {None}, AssignByHand(c, a)
      PROVE  Looked'
  <2>1. /\ task' = task /\ assignee' = [assignee EXCEPT ![c] = a]
        /\ rival' = (rival \/ (a # None /\ task[Sweep].conv = c))
    BY <1>3 DEF AssignByHand
  <2>2. CASE a # None /\ task[Sweep].conv = c
    BY <2>1, <2>2 DEF Looked
  <2>3. CASE ~(a # None /\ task[Sweep].conv = c)
    <3>1. rival' = (rival \/ FALSE)
      BY <2>1, <2>3
    <3>2. SUFFICES ASSUME task[Sweep].phase # "idle", task[Sweep].phase # "next",
                          assignee[task[Sweep].conv] = None
                   PROVE  assignee'[task[Sweep].conv] = None
      BY <2>1, <3>1 DEF Looked
    <3>3. task[Sweep].conv \in Conversations
      BY <1>0, <3>2, StepGood
    <3> QED BY <1>0, <2>1, <2>3, <3>2, <3>3 DEF Queue
  <2> QED BY <2>2, <2>3
<1>4. ASSUME \/ \E c \in Conversations : \/ Age(c) \/ OpenOrResolve(c)
             \/ \E a \in Agents : ComeOrGo(a)
      PROVE  Looked'
  BY <1>4 DEF Age, OpenOrResolve, ComeOrGo, Looked, ghostVars, queueVars
<1>5. ASSUME NEW p \in Requests \cup Supervisors, NEW t, Goes(p, t), UNCHANGED <<assignee, rival>>
      PROVE  Looked'
  <2>1. p # Sweep
    BY RoutingAssumption DEF RoutingAssumption
  <2>2. task'[Sweep] = task[Sweep]
    BY <1>0, <1>5, <2>1 DEF Goes, Tasks
  <2> QED BY <1>5, <2>2 DEF Looked
<1>6. ASSUME \/ \E c \in Conversations : \/ \E p \in Requests : HandOver(p, c)
                                        \/ \E p \in Supervisors, a \in Agents : Reassign(p, c, a)
             \/ \E p \in Supervisors, ok \in BOOLEAN : AppendAudit(p, ok)
      PROVE  Looked'
  BY <1>5, <1>6 DEF HandOver, Reassign, AppendAudit, ghostVars, queueVars
<1>7. CASE Restart
  BY <1>0, <1>7, IdleGood DEF Restart, Looked
<1>8. ASSUME NEW t, Good(t), Goes(Sweep, t),
             t.phase \notin {"agents", "counts", "filter", "choose", "record", "assign"}
      PROVE  Looked'
  <2>1. task'[Sweep] = t
    BY <1>0, <1>8, GoesGood
  <2> QED BY <1>8, <2>1 DEF Looked
<1>9. CASE (\E ok \in BOOLEAN : ListWaiting(ok)) \/ SweepEnds
  BY <1>8, <1>9, IdleGood, DoneGood DEF ListWaiting, SweepEnds
<1>10. ASSUME NEW c \in Conversations, NextWaiting(c) PROVE Looked'
  <2>1. [Idle EXCEPT !.phase = "recheck", !.conv = c].phase = "recheck"
    BY IdleGood DEF Good, TaskType
  <2> QED BY <1>8, <1>10, <2>1, FreshGood DEF NextWaiting
<1>11. ASSUME NEW ok \in BOOLEAN, Recheck(ok) PROVE Looked'
  <2>1. task[Sweep] \in TaskType /\ task[Sweep].conv \in Conversations /\ task[Sweep] \in TaskType
    BY <1>0, <1>11, StepGood DEF Recheck
  <2>2. assignee' = assignee
    BY <1>11 DEF Recheck, queueVars
  <2>3. CASE ok /\ assignee[task[Sweep].conv] # None
    <3>1. Goes(Sweep, Done(Sweep))
      BY <1>11, <2>3 DEF Recheck
    <3> QED BY <1>8, <3>1, DoneGood
  <2>4. CASE ~(ok /\ assignee[task[Sweep].conv] # None)
    <3>1. ASSUME NEW b \in BOOLEAN
          PROVE  /\ [task[Sweep] EXCEPT !.phase = "agents", !.blind = b].blind = b
                 /\ [task[Sweep] EXCEPT !.phase = "agents", !.blind = b].conv = task[Sweep].conv
      BY <2>1 DEF TaskType
    <3>2. task'[Sweep] = [task[Sweep] EXCEPT !.phase = "agents", !.blind = ~ok]
      BY <1>0, <1>11, <2>4 DEF Recheck, Goes, Tasks
    <3>3. task'[Sweep].blind = (~ok) /\ task'[Sweep].conv = task[Sweep].conv
      BY <3>1, <3>2
    <3> QED BY <2>2, <2>4, <3>3 DEF Looked
  <2> QED BY <2>3, <2>4
<1>12. CASE UNCHANGED vars
  BY <1>12 DEF vars, Looked, ghostVars, queueVars
<1> QED
  BY <1>1, <1>2, <1>3, <1>4, <1>6, <1>7, <1>9, <1>10, <1>11, <1>12, NextSplit

LEMMA Inductive == Spec => [](Types /\ Looked)
<1>1. Init => Looked
  BY IdleGood, SweepIsProc DEF Init, Looked
<1>2. Types /\ Looked /\ [Next]_vars => Looked'
  BY LookedNext
<1> QED BY <1>1, <1>2, TypesInit, TypesNext, PTL DEF Spec

(* The sweep overwrites an assignment only if its second look failed or    *)
(* the assignment came after it, whatever else it did since the listing.   *)
THEOREM SweepLooksAgain == Spec => SweepRespects
<1>1. Looked =>
        [Assigns(Sweep) /\ assignee[task[Sweep].conv] # None => rival \/ task[Sweep].blind]_vars
  BY DEF Looked, Assigns
<1> QED BY <1>1, Inductive, PTL DEF SweepRespects

-----------------------------------------------------------------------------
(* The cap and the fair share. *)

(* An assignment by p is p's own step. *)
LEMMA AssignsOwn ==
    ASSUME Types, Next, NEW p \in Procs, Assigns(p)
    PROVE  /\ assignee' = [assignee EXCEPT ![task[p].conv] = task[p].agent]
           /\ open' = open
<1>0. Tasks
  BY DEF Types
<1>1. ASSUME NEW q \in Procs, NEW ok \in BOOLEAN, NEW made \in BOOLEAN, Assign(q, ok, made)
      PROVE  /\ assignee' = [assignee EXCEPT ![task[p].conv] = task[p].agent]
             /\ open' = open
  <2>1. q = p
    BY <1>1, AssignTask DEF Assigns
  <2> QED BY <1>1, <2>1 DEF Assign, Assigns
<1>2. ASSUME \/ \E c \in Conversations : \/ Age(c) \/ OpenOrResolve(c)
                                        \/ \E a \in Members \cup {None} : AssignByHand(c, a)
             \/ \E a \in Agents : ComeOrGo(a)
      PROVE  task' = task \/ assignee' = assignee
  BY <1>2 DEF Age, OpenOrResolve, AssignByHand, ComeOrGo
<1>3. ASSUME NEW q \in Procs, Reads(q) PROVE assignee' = assignee
  BY <1>3 DEF Reads, FetchAgents, FetchOpenCounts, IsRoutable, Choose, Record, queueVars
<1>4. ASSUME \/ \E c \in Conversations : \/ \E q \in Requests : HandOver(q, c)
                                        \/ \E q \in Supervisors, a \in Agents : Reassign(q, c, a)
             \/ \E q \in Supervisors, ok \in BOOLEAN : AppendAudit(q, ok)
             \/ Restart
             \/ \E ok \in BOOLEAN : ListWaiting(ok) \/ Recheck(ok)
             \/ \E c \in Conversations : NextWaiting(c)
             \/ SweepEnds
      PROVE  assignee' = assignee
  BY <1>4 DEF HandOver, Reassign, AppendAudit, Restart, ListWaiting, Recheck, NextWaiting,
              SweepEnds, queueVars
<1>5. task' # task /\ assignee' # assignee
  BY DEF Assigns
<1> QED BY <1>1, <1>2, <1>3, <1>4, <1>5, NextSplit

LEMMA OneMore ==
    ASSUME Queue, NEW c \in Conversations, NEW a \in Agents,
           assignee' = [assignee EXCEPT ![c] = a], open' = open
    PROVE  Load(a) \in Nat /\ Load(a)' \in Nat /\ Load(a)' <= Load(a) + 1
<1> DEFINE S == {x \in open : assignee[x] = a}
           T == {x \in open : assignee'[x] = a}
<1>1. IsFiniteSet(S)
  BY RoutingAssumption, FS_Subset DEF Queue, RoutingAssumption
<1>2. T \subseteq S \cup {c}
  BY DEF Queue
<1>3. IsFiniteSet(S \cup {c}) /\ Cardinality(S \cup {c}) <= Cardinality(S) + 1
  <2>1. Cardinality(S) \in Nat
    BY <1>1, FS_CardinalityType
  <2>2. /\ IsFiniteSet(S \cup {c})
        /\ \/ Cardinality(S \cup {c}) = Cardinality(S)
           \/ Cardinality(S \cup {c}) = Cardinality(S) + 1
    BY <1>1, FS_AddElement
  <2> QED BY <2>1, <2>2
<1>4. IsFiniteSet(T) /\ Cardinality(T) <= Cardinality(S \cup {c})
  BY <1>2, <1>3, FS_Subset
<1>5. Cardinality(S) \in Nat /\ Cardinality(T) \in Nat /\ Cardinality(S \cup {c}) \in Nat
  BY <1>1, <1>3, <1>4, FS_CardinalityType
<1>6. Load(a) = Cardinality(S)
  BY DEF Load
<1>7. Load(a)' = Cardinality(T)
  BY DEF Load
<1> HIDE DEF S, T
<1> QED BY <1>3, <1>4, <1>5, <1>6, <1>7

(* No pick puts an agent over the cap by what it had counted: an agent     *)
(* over the cap has got more conversations since the tally was read.       *)
THEOREM PicksKeepTheCap == Spec => CapKept
<1>1. ASSUME Types, Next, NEW p \in Requests \cup {Sweep}, NEW a \in Agents,
             Assigns(p), task[p].agent = a, Cap > 0
      PROVE  Load(a)' <= Cap \/ Load(a) > task[p].tally[a]
  <2>1. p \in Procs /\ Tasks /\ Queue
    BY <1>1 DEF Procs, Types
  <2>2. task[p] \in TaskType /\ task[p].conv \in Conversations /\ Below(task[p], a)
    BY <1>1, <2>1 DEF Assigns, Tasks, Fit
  <2>3. task[p].tally[a] \in Nat /\ task[p].tally[a] < Cap
    BY <1>1, <2>2 DEF TaskType, Below
  <2>4. Load(a) \in Nat /\ Load(a)' \in Nat /\ Load(a)' <= Load(a) + 1
    BY <1>1, <2>1, <2>2, AssignsOwn, OneMore
  <2>5. Cap \in Nat
    BY RoutingAssumption DEF RoutingAssumption
  <2> QED BY <2>3, <2>4, <2>5
<1>2. Types /\ [Next]_vars =>
        [\A p \in Requests \cup {Sweep}, a \in Agents :
            Assigns(p) /\ task[p].agent = a /\ task[p].tallied /\ Cap > 0
               => Load(a)' <= Cap \/ Load(a) > task[p].tally[a]]_vars
  BY <1>1
<1> QED BY <1>2, TypesInit, TypesNext, PTL DEF Spec, CapKept

(* A fair-share pick loads the least loaded of its candidates, unless a    *)
(* load has changed since the tally was read or could not be read.         *)
THEOREM PicksTheLeastLoaded == Spec => ShareKept
<1>1. ASSUME Types, NEW p \in Requests \cup {Sweep}, Assigns(p), FairShare
      PROVE  LET t == task[p]
             IN  \/ ~t.tallied \/ \E a \in t.kept : Load(a) # t.tally[a]
                 \/ \A a \in t.kept : Load(t.agent) <= Load(a)
  <2>1. p \in Procs /\ Tasks
    BY <1>1 DEF Procs, Types
  <2>2. \A a \in task[p].kept : /\ task[p].agent \in task[p].kept
                               /\ task[p].tally[task[p].agent] <= task[p].tally[a]
    BY <1>1, <2>1 DEF Assigns, Tasks, Fit
  <2> QED BY <2>2
<1>2. Types => [\A p \in Requests \cup {Sweep} : Assigns(p) /\ FairShare =>
                  LET t == task[p]
                  IN  \/ ~t.tallied \/ \E a \in t.kept : Load(a) # t.tally[a]
                      \/ \A a \in t.kept : Load(t.agent) <= Load(a)]_vars
  BY <1>1
<1> QED BY <1>2, TypesInit, TypesNext, PTL DEF Spec, ShareKept

=============================================================================
