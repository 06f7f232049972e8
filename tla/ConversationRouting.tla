------------------------ MODULE ConversationRouting ------------------------
(***************************************************************************)
(* Assigning conversations to agents (backend features/routing): the       *)
(* requests that pick an agent when a conversation is handed over, the     *)
(* sweeper that picks one for whoever still waits, and the supervisor who  *)
(* names one.  All of them read Chatwoot in several calls and then write,  *)
(* while agents come and go and take conversations themselves.             *)
(*                                                                         *)
(* A pick reads the agents, their priorities and the number of their open  *)
(* conversations, tries the tiers one after the other, asks the presence   *)
(* log about each candidate of a tier, and takes the least loaded.         *)
(***************************************************************************)
EXTENDS Naturals, FiniteSets

CONSTANTS
    Conversations,
    Old,          \* those that are old enough for the sweeper from the start
    Agents,       \* their ids
    Members,      \* those Chatwoot accepts as assignees of the inbox
    Rank,         \* tier of each agent for each channel; 4: has other channels only
    Requests,     \* hand-overs that pick an agent
    Supervisors,  \* requests that name one
    Cap,          \* routing_max_concurrent_per_agent
    FairShare,    \* routing_fair_share_enabled
    MaxActs,      \* bound: what people do
    MaxFaults     \* bound: failed calls and restarts

Channels == {"own", "web"}      \* the conversations' channel; what a failed lookup gives
Sweep == "sweep"
Procs == Requests \cup Supervisors \cup {Sweep}
None == 0
Nowhere == "none"

ASSUME RoutingAssumption ==
    /\ IsFiniteSet(Conversations) /\ Old \subseteq Conversations /\ Nowhere \notin Conversations
    /\ Agents \subseteq Nat \ {None} /\ Members \subseteq Agents
    /\ Rank \in [Channels -> [Agents -> 1..4]]
    /\ Requests \cap Supervisors = {} /\ Sweep \notin Requests \cup Supervisors
    /\ Cap \in Nat /\ FairShare \in BOOLEAN /\ MaxActs \in Nat /\ MaxFaults \in Nat

VARIABLES
    open,         \* open conversations
    aged,         \* conversations older than routing_sweep_min_age_seconds
    assignee,     \* of each conversation
    online,       \* agents Chatwoot shows as online
    away,         \* agents whose own status takes no conversations
    fresher,      \* pairs of agents: the first one's last pick came later
    task,         \* each process: its phase and what it has read
    todo,         \* what the sweep has listed and not yet looked at
    rival,        \* somebody assigned the sweep's conversation after it looked
    audit,        \* rows of the audit log
    named,        \* ghost: assignments by supervisors that Chatwoot has made
    acts, faults

vars == <<open, aged, assignee, online, away, fresher, task, todo, rival, audit, named, acts, faults>>
queueVars == <<open, aged, assignee>>
staffVars == <<online, away>>
ghostVars == <<rival, named>>

NoTally == [a \in Agents |-> 0]
Idle == [phase |-> "idle", conv |-> Nowhere, channel |-> "own", agents |-> {}, ranked |-> FALSE,
         tally |-> NoTally, tallied |-> FALSE, tier |-> 1, left |-> {}, kept |-> {},
         agent |-> None, blind |-> FALSE]

Load(a) == Cardinality({c \in open : assignee[c] = a})

Act == acts < MaxActs /\ acts' = acts + 1
Outcome(ok) == \/ ok /\ UNCHANGED faults
               \/ ~ok /\ faults < MaxFaults /\ faults' = faults + 1

Goes(p, t) == task' = [task EXCEPT ![p] = t]
(* A process is through with its conversation; the sweep has more.         *)
Done(p) == IF p = Sweep THEN [Idle EXCEPT !.phase = "next"] ELSE Idle

-----------------------------------------------------------------------------
Init ==
    /\ open = Conversations /\ aged = Old
    /\ assignee = [c \in Conversations |-> None]
    /\ online = Agents /\ away = {} /\ fresher = {}
    /\ task = [p \in Procs |-> Idle] /\ todo = {} /\ rival = FALSE
    /\ audit = {} /\ named = {} /\ acts = 0 /\ faults = 0

-----------------------------------------------------------------------------
(* What people do in Chatwoot, and time. *)

Age(c) ==
    /\ c \notin aged /\ aged' = aged \cup {c}
    /\ UNCHANGED <<open, assignee, staffVars, fresher, task, todo, audit, ghostVars, acts, faults>>

(* Taken, given back or handed on by hand. *)
AssignByHand(c, a) ==
    /\ Act /\ assignee[c] # a
    /\ assignee' = [assignee EXCEPT ![c] = a]
    /\ rival' = (rival \/ (a # None /\ task[Sweep].conv = c))
    /\ UNCHANGED <<open, aged, staffVars, fresher, task, todo, audit, named, faults>>

OpenOrResolve(c) ==
    /\ Act
    /\ open' = IF c \in open THEN open \ {c} ELSE open \cup {c}
    /\ UNCHANGED <<aged, assignee, staffVars, fresher, task, todo, audit, ghostVars, faults>>

ComeOrGo(a) ==
    /\ Act
    /\ \/ online' = (online \ {a}) \cup ({a} \ online) /\ UNCHANGED away
       \/ away' = (away \ {a}) \cup ({a} \ away) /\ UNCHANGED online
    /\ UNCHANGED <<queueVars, fresher, task, todo, audit, ghostVars, faults>>

-----------------------------------------------------------------------------
(* pick_agent *)

(* Mutated: one more than the cap. *)
EligibleOver(t) == {a \in t.agents : Cap > 0 => t.tally[a] <= Cap}

(* Online and below the cap, by what was read.                             *)
Eligible(t) == {a \in t.agents : Cap > 0 => t.tally[a] < Cap}

(* Priorities that cannot be read leave everybody without any.             *)
RankOf(t, a) == IF t.ranked THEN Rank[t.channel][a] ELSE 3
Candidates(t, tier) ==
    {a \in Eligible(t) : IF tier = 3 THEN RankOf(t, a) = 3 ELSE RankOf(t, a) <= tier}

(* The first tier from this one on that has a candidate.                   *)
TryTiers(p, t, from) ==
    LET tiers == {i \in from..3 : Candidates(t, i) # {}}
        first == CHOOSE i \in tiers : \A j \in tiers : i <= j
    IN  IF tiers = {} THEN Done(p)
        ELSE IF FairShare
        THEN [t EXCEPT !.phase = "filter", !.tier = first, !.left = Candidates(t, first), !.kept = {}]
        ELSE [t EXCEPT !.phase = "choose", !.tier = first, !.left = {}, !.kept = Candidates(t, first)]

(* Channel and priorities do not change meanwhile: when they are read is   *)
(* the same, but each read may fail.                                       *)
FetchAgents(p, channel, listed, ranked) ==
    /\ task[p].phase = "agents"
    /\ Outcome(channel = "own" /\ listed /\ ranked)
    /\ LET t == [task[p] EXCEPT !.phase = "counts", !.channel = channel, !.ranked = ranked,
                                !.agents = IF listed THEN online ELSE {}]
       IN  Goes(p, IF Cap > 0 \/ FairShare THEN t ELSE TryTiers(p, t, 1))
    /\ UNCHANGED <<queueVars, staffVars, fresher, todo, audit, ghostVars, acts>>

(* An empty tally when it fails: then nobody is at the cap.                *)
FetchOpenCounts(p, ok) ==
    /\ task[p].phase = "counts"
    /\ Outcome(ok)
    /\ LET t == [task[p] EXCEPT !.tallied = ok,
                                !.tally = IF ok THEN [a \in Agents |-> Load(a)] ELSE NoTally]
       IN  Goes(p, TryTiers(p, t, 1))
    /\ UNCHANGED <<queueVars, staffVars, fresher, todo, audit, ghostVars, acts>>

(* _is_routable, for one candidate of the tier after the other; it fails   *)
(* open.                                                                   *)
IsRoutable(p, a, ok) ==
    /\ task[p].phase = "filter" /\ a \in task[p].left /\ \A b \in task[p].left : a <= b
    /\ Outcome(ok)
    /\ LET kept == task[p].kept \cup (IF ok /\ a \in away THEN {} ELSE {a})
           t    == [task[p] EXCEPT !.left = @ \ {a}, !.kept = kept]
       IN  Goes(p, IF t.left # {} THEN t
                   ELSE IF kept # {} THEN [t EXCEPT !.phase = "choose"]
                   ELSE TryTiers(p, t, t.tier + 1))
    /\ UNCHANGED <<queueVars, staffVars, fresher, todo, audit, ghostVars, acts>>

(* Mutated: the last pick comes before the load. *)
BeforeByTurn(t, a, b) ==
    \/ <<b, a>> \in fresher
    \/ <<a, b>> \notin fresher /\ (t.tally[a] < t.tally[b] \/ (t.tally[a] = t.tally[b] /\ a < b))

(* The order of _pick_fair_share: load, last pick, id.                     *)
Before(t, a, b) ==
    \/ t.tally[a] < t.tally[b]
    \/ t.tally[a] = t.tally[b] /\ (<<b, a>> \in fresher \/ (<<a, b>> \notin fresher /\ a < b))
First(t, a) ==
    /\ a \in t.kept
    /\ \A b \in t.kept \ {a} : IF FairShare THEN Before(t, a, b) ELSE a < b

(* The sweep picks in a thread of its own, which may take over between the *)
(* choice and its record; requests share one thread.                       *)
Choose(p, a) ==
    /\ task[p].phase = "choose" /\ First(task[p], a)
    /\ p # Sweep => \A q \in Requests : task[q].phase # "record"
    /\ LET t == task[p]
       IN  Goes(p, [Idle EXCEPT !.phase = IF FairShare THEN "record" ELSE "assign", !.conv = t.conv,
                                !.agent = a, !.kept = t.kept, !.tally = t.tally,
                                !.tallied = t.tallied, !.blind = t.blind])
    /\ UNCHANGED <<queueVars, staffVars, fresher, todo, audit, ghostVars, acts, faults>>

Record(p) ==
    /\ task[p].phase = "record"
    /\ LET a == task[p].agent
       IN  fresher' = (fresher \ (Agents \X {a})) \cup ({a} \X (Agents \ {a}))
    /\ Goes(p, [task[p] EXCEPT !.phase = "assign"])
    /\ UNCHANGED <<queueVars, staffVars, todo, audit, ghostVars, acts, faults>>

(* Mutated: the row is written whatever Chatwoot said. *)
AssignAudited(p, ok, made) ==
    /\ task[p].phase = "assign"
    /\ made => task[p].agent \in Members
    /\ ok => made
    /\ IF task[p].agent \in Members THEN Outcome(ok) ELSE UNCHANGED faults
    /\ assignee' = IF made THEN [assignee EXCEPT ![task[p].conv] = task[p].agent] ELSE assignee
    /\ rival' = (rival \/ (made /\ p # Sweep /\ task[Sweep].conv = task[p].conv))
    /\ named' = IF made /\ p \in Supervisors THEN named \cup {<<task[p].conv, task[p].agent>>} ELSE named
    /\ Goes(p, IF p \in Supervisors THEN [task[p] EXCEPT !.phase = "audit"] ELSE Done(p))
    /\ UNCHANGED <<open, aged, staffVars, fresher, todo, audit, acts>>

(* POST .../assignments, refused for who is not in the inbox.  A call that *)
(* failed may have been carried out.  Only a supervisor's is followed by   *)
(* something: the audit row of an assignment that was made.                *)
Assign(p, ok, made) ==
    /\ task[p].phase = "assign"
    /\ made => task[p].agent \in Members
    /\ ok => made
    /\ IF task[p].agent \in Members THEN Outcome(ok) ELSE UNCHANGED faults
    /\ assignee' = IF made THEN [assignee EXCEPT ![task[p].conv] = task[p].agent] ELSE assignee
    /\ rival' = (rival \/ (made /\ p # Sweep /\ task[Sweep].conv = task[p].conv))
    /\ named' = IF made /\ p \in Supervisors THEN named \cup {<<task[p].conv, task[p].agent>>} ELSE named
    /\ Goes(p, IF ok /\ p \in Supervisors THEN [task[p] EXCEPT !.phase = "audit"] ELSE Done(p))
    /\ UNCHANGED <<open, aged, staffVars, fresher, todo, audit, acts>>

-----------------------------------------------------------------------------
(* A hand-over: POST /routing/assign without an agent, _assign_conversation.*)

HandOver(p, c) ==
    /\ Act /\ p \in Requests /\ task[p].phase = "idle"
    /\ Goes(p, [Idle EXCEPT !.phase = "agents", !.conv = c])
    /\ UNCHANGED <<queueVars, staffVars, fresher, todo, audit, ghostVars, faults>>

-----------------------------------------------------------------------------
(* A supervisor: _reassign.  An agent who is not listed is refused.  The   *)
(* assignee read for the wording of the audit row is left out.             *)

Reassign(p, c, a) ==
    /\ Act /\ p \in Supervisors /\ task[p].phase = "idle"
    /\ Goes(p, [Idle EXCEPT !.phase = "assign", !.conv = c, !.agent = a])
    /\ UNCHANGED <<queueVars, staffVars, fresher, todo, audit, ghostVars, faults>>

(* A row that cannot be written is logged. *)
AppendAudit(p, ok) ==
    /\ task[p].phase = "audit"
    /\ Outcome(ok)
    /\ audit' = IF ok THEN audit \cup {<<task[p].conv, task[p].agent>>} ELSE audit
    /\ Goes(p, Done(p))
    /\ UNCHANGED <<queueVars, staffVars, fresher, todo, ghostVars, acts>>

-----------------------------------------------------------------------------
(* The sweeper: run_sweep.  A tick begins only after the previous one.     *)

(* Mutated: the comparison with the minimum age is the wrong way round. *)
ListFresh(ok) ==
    /\ task[Sweep].phase = "idle"
    /\ Outcome(ok)
    /\ todo' = IF ok THEN {c \in open \ aged : assignee[c] = None} ELSE {}
    /\ Goes(Sweep, IF ok THEN Done(Sweep) ELSE Idle)
    /\ UNCHANGED <<queueVars, staffVars, fresher, audit, ghostVars, acts>>

ListWaiting(ok) ==
    /\ task[Sweep].phase = "idle"
    /\ Outcome(ok)
    /\ todo' = IF ok THEN {c \in open \cap aged : assignee[c] = None} ELSE {}
    /\ Goes(Sweep, IF ok THEN Done(Sweep) ELSE Idle)
    /\ UNCHANGED <<queueVars, staffVars, fresher, audit, ghostVars, acts>>

NextWaiting(c) ==
    /\ task[Sweep].phase = "next" /\ c \in todo
    /\ todo' = todo \ {c}
    /\ Goes(Sweep, [Idle EXCEPT !.phase = "recheck", !.conv = c])
    /\ UNCHANGED <<queueVars, staffVars, fresher, audit, ghostVars, acts, faults>>

SweepEnds ==
    /\ task[Sweep].phase = "next" /\ todo = {}
    /\ Goes(Sweep, Idle)
    /\ UNCHANGED <<queueVars, staffVars, fresher, todo, audit, ghostVars, acts, faults>>

(* Mutated: the listing is relied on. *)
RecheckNot(ok) ==
    /\ task[Sweep].phase = "recheck"
    /\ ok /\ UNCHANGED faults /\ rival' = FALSE
    /\ Goes(Sweep, [task[Sweep] EXCEPT !.phase = "agents"])
    /\ UNCHANGED <<queueVars, staffVars, fresher, todo, audit, named, acts>>

(* resolve_assignee gives None for a failure as well.                      *)
Recheck(ok) ==
    /\ task[Sweep].phase = "recheck"
    /\ Outcome(ok) /\ rival' = FALSE
    /\ Goes(Sweep, IF ok /\ assignee[task[Sweep].conv] # None THEN Done(Sweep)
                   ELSE [task[Sweep] EXCEPT !.phase = "agents", !.blind = ~ok])
    /\ UNCHANGED <<queueVars, staffVars, fresher, todo, audit, named, acts>>

(* The process restarts: whatever was under way, and who was picked last,  *)
(* is gone.                                                                *)
Restart ==
    /\ faults < MaxFaults /\ faults' = faults + 1
    /\ task' = [p \in Procs |-> Idle] /\ todo' = {} /\ fresher' = {}
    /\ UNCHANGED <<queueVars, staffVars, audit, ghostVars, acts>>

-----------------------------------------------------------------------------
Pick(p) ==
    \/ \E ok \in BOOLEAN :
          \/ \E channel \in Channels, ranked \in BOOLEAN : FetchAgents(p, channel, ok, ranked)
          \/ FetchOpenCounts(p, ok)
          \/ \E a \in Agents : IsRoutable(p, a, ok)
          \/ \E made \in BOOLEAN : Assign(p, ok, made)
    \/ \E a \in Agents : Choose(p, a)
    \/ Record(p)
SweepStep ==
    \/ \E ok \in BOOLEAN : ListWaiting(ok) \/ Recheck(ok)
    \/ \E c \in Conversations : NextWaiting(c)
    \/ SweepEnds \/ Pick(Sweep)

Next ==
    \/ \E c \in Conversations :
          \/ Age(c) \/ OpenOrResolve(c)
          \/ \E a \in Members \cup {None} : AssignByHand(c, a)
          \/ \E p \in Requests : HandOver(p, c)
          \/ \E p \in Supervisors, a \in Agents : Reassign(p, c, a)
    \/ \E a \in Agents : ComeOrGo(a)
    \/ \E p \in Requests \cup Supervisors : Pick(p)
    \/ \E p \in Supervisors, ok \in BOOLEAN : AppendAudit(p, ok)
    \/ SweepStep
    \/ Restart

Spec == Init /\ [][Next]_vars

(* The sweeper's thread runs and the scheduler goes on ticking; a request  *)
(* that has begun goes on; time passes.                                    *)
Fairness == /\ WF_vars(SweepStep)
            /\ \A p \in Requests \cup Supervisors : WF_vars(Pick(p) \/ \E ok \in BOOLEAN : AppendAudit(p, ok))
            /\ \A c \in Conversations : WF_vars(Age(c))
FairSpec == Spec /\ Fairness

-----------------------------------------------------------------------------
(* Properties. *)

(* Every variable keeps its type. *)
TypeOK ==
    /\ open \subseteq Conversations /\ aged \subseteq Conversations
    /\ assignee \in [Conversations -> Members \cup {None}]
    /\ online \subseteq Agents /\ away \subseteq Agents
    /\ fresher \subseteq Agents \X Agents
    /\ \A a, b \in Agents : <<a, b>> \in fresher => <<b, a>> \notin fresher
    /\ task \in [Procs ->
          [phase : {"idle", "agents", "counts", "filter", "choose", "record", "assign", "audit",
                    "next", "recheck"},
           conv : Conversations \cup {Nowhere}, channel : Channels, agents : SUBSET Agents,
           ranked : BOOLEAN, tally : [Agents -> Nat], tallied : BOOLEAN, tier : 1..3,
           left : SUBSET Agents, kept : SUBSET Agents, agent : Agents \cup {None},
           blind : BOOLEAN]]
    /\ todo \subseteq Conversations /\ rival \in BOOLEAN
    /\ audit \subseteq Conversations \X Agents /\ named \subseteq Conversations \X Members
    /\ acts \in 0..MaxActs /\ faults \in 0..MaxFaults

(* The audit log has no row of an assignment Chatwoot has not made.        *)
AuditTrue == audit \subseteq named

(* p's assignment is made in this step.                                    *)
Assigns(p) == task[p].phase = "assign" /\ task'[p].phase # "assign" /\ assignee' # assignee

(* The sweep takes a conversation from somebody only if its second look    *)
(* failed or that assignment came after it: the listing, and everything    *)
(* done for the conversations before this one, may be as old as it likes.  *)
SweepRespects ==
    [][Assigns(Sweep) /\ assignee[task[Sweep].conv] # None => rival \/ task[Sweep].blind]_vars

(* No pick puts an agent over the cap, unless the tally failed or the      *)
(* agent has got more conversations since it was taken.                    *)
CapKept ==
    [][\A p \in Requests \cup {Sweep}, a \in Agents :
          Assigns(p) /\ task[p].agent = a /\ task[p].tallied /\ Cap > 0
             => Load(a)' <= Cap \/ Load(a) > task[p].tally[a]]_vars

(* Of the candidates it considered, a pick loads the one with the fewest   *)
(* conversations, unless their loads have changed since the tally.         *)
ShareKept ==
    [][\A p \in Requests \cup {Sweep} : Assigns(p) /\ FairShare =>
          LET t == task[p]
          IN  \/ ~t.tallied \/ \E a \in t.kept : Load(a) # t.tally[a]
              \/ \A a \in t.kept : Load(t.agent) <= Load(a)]_vars

Available(a) == /\ a \in online \cap Members /\ (FairShare => a \notin away)
                /\ Rank["own"][a] <= 3 /\ (Cap > 0 => Load(a) < Cap)

(* Nobody waits forever while somebody could take the conversation: what   *)
(* no hand-over assigned, the sweeper does.                                *)
QueueDrains ==
    \A c \in Conversations :
        c \in open /\ assignee[c] = None
            ~> c \notin open \/ assignee[c] # None \/ \A a \in Agents : ~Available(a)

(* The sweep never takes a conversation from anybody.                      *)
SweepTakesNothing == [][Assigns(Sweep) => assignee[task[Sweep].conv] = None]_vars
=============================================================================
