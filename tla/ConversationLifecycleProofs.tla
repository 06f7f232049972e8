--------------------- MODULE ConversationLifecycleProofs ---------------------
(***************************************************************************)
(* Theorems about ConversationLifecycle for every value of its constants:  *)
(* any number of concurrent webhook handlers, any thresholds, any number   *)
(* of acts and faults.                                                     *)
(***************************************************************************)
EXTENDS ConversationLifecycle, SequenceTheorems, TLAPS

-----------------------------------------------------------------------------
(* Facts about jobs. *)

(* A job that has a step left is still a job once that step is done. *)
LEMMA AdvanceType ==
    ASSUME NEW j \in JobType, j.todo # << >>
    PROVE  /\ Advance(j) \in JobType
           /\ Head(j.todo) \in Steps
  BY SMT DEF Advance, JobType, NoJob, Job, Steps, RowStates, Posts, Prompts, Heard

(* Every job a handler can be given is a job. *)
LEMMA JobsAreJobs ==
    /\ {NoJob, Greet, Track, SeedOnly, SeedAndWarn, Warn, PromptClose} \subseteq JobType
    /\ {Reactivate, AssignAgent, SurveyAi, Rate} \subseteq JobType
    /\ \A m \in Heard : Received(m) \in JobType
    /\ \A s \in RowStates : CloseSilently(s) \in JobType /\ SurveyAgent(s) \in JobType
  <1> USE DEF JobType, Job, RowStates, Awaiting, Posts, Prompts, Heard, ACTIVE,
              IDLE_WARNED, AWAITING_RESOLUTION, AWAITING_SURVEY, CLOSED
  <1>1. {<< >>, <<"read">>, <<"seed">>, <<"write">>, <<"seed", "mirror">>,
         <<"seed", "mirror", "post">>, <<"seed", "post", "write", "mirror">>,
         <<"post", "write", "mirror">>, <<"write", "mirror", "resolve">>,
         <<"post", "reopen", "write", "mirror">>,
         <<"record", "post", "write", "mirror", "resolve">>} \subseteq Seq(Steps)
    BY SMT DEF Steps
  <1>2. {NoJob, Greet, Track, SeedOnly, SeedAndWarn, Warn, PromptClose} \subseteq JobType
    BY <1>1 DEF NoJob, Greet, Track, SeedOnly, SeedAndWarn, Warn, PromptClose
  <1>3. {Reactivate, AssignAgent, SurveyAi, Rate} \subseteq JobType
    BY <1>1 DEF Reactivate, AssignAgent, SurveyAi, Rate
  <1>4. \A m \in Heard : Received(m) \in JobType
    BY <1>1 DEF Received
  <1>5. \A s \in RowStates : CloseSilently(s) \in JobType /\ SurveyAgent(s) \in JobType
    BY <1>1 DEF CloseSilently, SurveyAgent
  <1>6. QED BY <1>2, <1>3, <1>4, <1>5

(* Taking one step of one handler's job leaves every handler with a job. *)
LEMMA StepType ==
    ASSUME TypeOK, NEW h \in Handlers, job[h].todo # << >>
    PROVE  [job EXCEPT ![h] = Advance(@)] \in [Handlers -> JobType]
  BY AdvanceType DEF TypeOK

(* Announcing a resolution hands Received jobs to resting slots only. *)
LEMMA AnnounceType ==
    ASSUME NEW j \in [Handlers -> JobType], NEW by \in {"by_bot", "by_human"}
    PROVE  Announce(j, by) \in [Handlers -> JobType]
  <1>1. Received(by) \in JobType
    BY JobsAreJobs DEF Heard
  <1>2. QED BY <1>1 DEF Announce

(* A listing yields entries. *)
LEMMA ListedType ==
    ASSUME TypeOK, NEW status \in Statuses
    PROVE  Listed(status) \in Seq(Entry) /\ << >> \in Seq(Entry)
  <1>1. Snapshot \in Entry
    <2>1. conv.idle - sweep.lag \in (-MaxLag)..MaxAge
      BY ConstantsAssumption DEF TypeOK, Ages
    <2>2. QED BY <2>1 DEF TypeOK, Snapshot, Entry
  <1>2. QED BY <1>1 DEF Listed

(* The rest of a sweep's queue is a queue of entries. *)
LEMMA QueueTailType ==
    ASSUME TypeOK, sweep.queue # << >>
    PROVE  [sweep EXCEPT !.queue = Tail(@)]
              \in [phase : {"sleep", "listing", "processing"},
                   queue : Seq(Entry), lag : 0..MaxLag]
  <1>1. Tail(sweep.queue) \in Seq(Entry)
    BY DEF TypeOK
  <1>2. QED BY <1>1 DEF TypeOK

(* The counters of acts and faults stay within their bounds. *)
LEMMA CountersType ==
    ASSUME TypeOK
    PROVE  /\ \A ok \in BOOLEAN : Outcome(ok) => faults' \in 0..MaxFaults
           /\ Act => acts' \in 0..MaxActs
           /\ faults < MaxFaults /\ faults' = faults + 1 => faults' \in 0..MaxFaults
  BY ConstantsAssumption DEF TypeOK, Outcome, Act

(* Marking an overlap keeps the history a history. *)
LEMMA MarksType == TypeOK /\ MarkOverlap => hist' \in HistType
  BY DEF MarkOverlap, Overlap, HandsOver, Engaged, TypeOK, HistType

-----------------------------------------------------------------------------
(* Type correctness. *)

(* Every step of the service, the world and the faults keeps TypeOK. *)
LEMMA TypeOKStep == TypeOK /\ [Next]_vars => TypeOK'
  <1> SUFFICES ASSUME TypeOK, [Next]_vars PROVE TypeOK'
    OBVIOUS
  <1> USE ConstantsAssumption
  <1>1. ASSUME NEW h \in Handlers, NEW ok \in BOOLEAN, Post(h, ok) PROVE TypeOK'
    <2>1. job' \in [Handlers -> JobType]
      BY <1>1, StepType DEF Post, AtStep, Step
    <2>2. 0 \in Ages
      BY DEF TypeOK, Ages
    <2>3. hist.said \cup ({job[h].msg} \cap Prompts) \in SUBSET Prompts
      BY DEF TypeOK, HistType
    <2>4. (hist.promised \/ (ok /\ job[h].msg = "assign_agent")) \in BOOLEAN
      OBVIOUS
    <2>8. (IF h = Scanner THEN hist.asked \cup ({job[h].msg} \cap Prompts) ELSE hist.asked)
             \in SUBSET Prompts
      BY DEF TypeOK, HistType
    <2>5. hist' \in HistType
      BY <1>1, <2>2, <2>3, <2>4, <2>8 DEF Post, TypeOK, HistType
    <2>6. conv' \in [status : Statuses, assigned : BOOLEAN, idle : Ages]
      BY <1>1, <2>2 DEF Post, TypeOK
    <2>7. QED BY <1>1, <2>1, <2>5, <2>6, CountersType DEF Post, TypeOK
  <1>2. ASSUME NEW h \in Handlers, Write(h) PROVE TypeOK'
    <2>1. job' \in [Handlers -> JobType]
      BY <1>2, StepType DEF Write, AtStep, Step
    <2>2. row' \in [state : RowStates, variant : Variants, age : Ages]
      <3> DEFINE variant == CASE job[h].msg = "survey_ai"    -> "ai"
                              [] job[h].msg = "survey_agent" -> "agent"
                              [] OTHER                       -> row.variant
      <3>1. variant \in Variants
        BY DEF TypeOK, Variants
      <3>2. job[h].to \in RowStates
        BY DEF TypeOK, JobType
      <3>3. 0 \in Ages
        BY DEF Ages
      <3>4. QED BY <1>2, <3>1, <3>2, <3>3 DEF Write
    <2>3. (hist.clean /\ row.state = job[h].seen) \in BOOLEAN
      OBVIOUS
    <2>6. (IF job[h].to = ACTIVE THEN {} ELSE hist.asked) \in SUBSET Prompts
      BY DEF TypeOK, HistType
    <2>4. hist' \in HistType
      BY <1>2, <2>3, <2>6 DEF Write, TypeOK, HistType
    <2>5. QED BY <1>2, <2>1, <2>2, <2>4 DEF Write, TypeOK
  <1>3. ASSUME NEW h \in Handlers, Seed(h) PROVE TypeOK'
    <2>1. job' \in [Handlers -> JobType]
      BY <1>3, StepType DEF Seed, AtStep, Step
    <2>2. QED BY <1>3, <2>1 DEF Seed, TypeOK, RowStates, Variants, Ages
  <1>4. ASSUME NEW h \in Handlers, NEW ok \in BOOLEAN, Mirror(h, ok) PROVE TypeOK'
    <2>1. job' \in [Handlers -> JobType]
      BY <1>4, StepType DEF Mirror, AtStep, Step
    <2>2. mirror' \in RowStates
      BY <1>4 DEF Mirror, TypeOK, JobType
    <2>3. QED BY <1>4, <2>1, <2>2, CountersType DEF Mirror, TypeOK
  <1>5. ASSUME NEW h \in Handlers, NEW ok \in BOOLEAN, Resolve(h, ok) PROVE TypeOK'
    <2>1. [job EXCEPT ![h] = Advance(@)] \in [Handlers -> JobType]
      BY <1>5, StepType DEF Resolve, AtStep
    <2>2. job' \in [Handlers -> JobType]
      BY <1>5, <2>1, AnnounceType DEF Resolve
    <2>3. conv' \in [status : Statuses, assigned : BOOLEAN, idle : Ages]
      BY <1>5 DEF Resolve, TypeOK, Statuses
    <2>4. QED BY <1>5, <2>2, <2>3, CountersType DEF Resolve, TypeOK
  <1>6. ASSUME NEW h \in Handlers, NEW ok \in BOOLEAN, Reopen(h, ok) PROVE TypeOK'
    <2>1. job' \in [Handlers -> JobType]
      BY <1>6, StepType DEF Reopen, AtStep, Step
    <2>2. conv' \in [status : Statuses, assigned : BOOLEAN, idle : Ages]
      BY <1>6 DEF Reopen, TypeOK, Statuses
    <2>3. QED BY <1>6, <2>1, <2>2, MarksType, CountersType DEF Reopen, TypeOK
  <1>7. ASSUME NEW h \in Handlers, NEW ok \in BOOLEAN, Record(h, ok) PROVE TypeOK'
    <2>1. job' \in [Handlers -> JobType]
      BY <1>7, StepType DEF Record, AtStep, Step
    <2>2. hist' \in HistType
      <3>1. (IF ok /\ hist.rated < 2 THEN hist.rated + 1 ELSE hist.rated) \in 0..2
        BY DEF TypeOK, HistType
      <3>2. QED BY <1>7, <3>1 DEF Record, TypeOK, HistType
    <2>3. QED BY <1>7, <2>1, <2>2, CountersType DEF Record, TypeOK
  <1>8. ASSUME NEW ok \in BOOLEAN, ListPending(ok) PROVE TypeOK'
    <2>1. Listed("pending") \in Seq(Entry) /\ << >> \in Seq(Entry)
      BY ListedType DEF Statuses
    <2>2. sweep' \in [phase : {"sleep", "listing", "processing"},
                      queue : Seq(Entry), lag : 0..MaxLag]
      BY <1>8, <2>1 DEF ListPending
    <2>3. QED BY <1>8, <2>2, CountersType DEF ListPending, TypeOK
  <1>9. ASSUME NEW ok \in BOOLEAN, ListOpen(ok) PROVE TypeOK'
    <2>1. Listed("open") \in Seq(Entry)
      BY ListedType DEF Statuses
    <2>2. sweep.queue \o Listed("open") \in Seq(Entry)
      BY <2>1 DEF TypeOK
    <2>3. sweep' \in [phase : {"sleep", "listing", "processing"},
                      queue : Seq(Entry), lag : 0..MaxLag]
      BY <1>9, <2>2 DEF ListOpen, TypeOK
    <2>4. QED BY <1>9, <2>3, CountersType DEF ListOpen, TypeOK
  <1>10. ASSUME NEW g \in Graces, Process(g) PROVE TypeOK'
    <2> DEFINE entry == Head(sweep.queue)
    <2>1. AssignedJob(entry) \in JobType
      BY JobsAreJobs DEF AssignedJob, TypeOK
    <2>2. IdleAction(row.state, entry.idle, row.age - sweep.lag, g) \in JobType
      BY JobsAreJobs DEF IdleAction, TypeOK
    <2>3. UnassignedJob(entry, g) \in JobType
      BY <2>2, JobsAreJobs DEF UnassignedJob
    <2>4. job' \in [Handlers -> JobType]
      BY <1>10, <2>1, <2>3 DEF Process, TypeOK
    <2>5. sweep' \in [phase : {"sleep", "listing", "processing"},
                      queue : Seq(Entry), lag : 0..MaxLag]
      BY <1>10, QueueTailType DEF Process
    <2>6. QED BY <1>10, <2>4, <2>5, MarksType DEF Process, TypeOK
  <1>11. CASE SweepEnds
    BY <1>11 DEF SweepEnds, TypeOK
  <1>12. ASSUME NEW r \in Replies, ReadForReply(r) PROVE TypeOK'
    <2>1. ReplyJob(row.state, job[r].msg) \in JobType
      BY JobsAreJobs DEF ReplyJob, TypeOK
    <2>2. QED BY <1>12, <2>1, MarksType DEF ReadForReply, TypeOK
  <1>13. ASSUME NEW e \in Resolutions, ReadForResolution(e) PROVE TypeOK'
    <2>1. SurveyAgent(row.state) \in JobType /\ NoJob \in JobType
      BY JobsAreJobs DEF TypeOK
    <2>2. QED BY <1>13, <2>1, MarksType DEF ReadForResolution, TypeOK
  <1>14. ASSUME NEW r \in Replies, NEW answer \in {"yes", "other"},
                NEW reopened \in {"pending", "open"},
                CustomerWrites(r, answer, reopened)
         PROVE TypeOK'
    <2>1. Received(answer) \in JobType
      BY JobsAreJobs DEF Heard
    <2>2. job' \in [Handlers -> JobType]
      BY <1>14, <2>1 DEF CustomerWrites, TypeOK
    <2>3. conv' \in [status : Statuses, assigned : BOOLEAN, idle : Ages]
      <3>1. 0 \in Ages
        BY DEF Ages
      <3>2. (IF conv.status = "resolved" THEN reopened ELSE conv.status) \in Statuses
        BY DEF TypeOK, Statuses
      <3>3. QED BY <1>14, <3>1, <3>2 DEF CustomerWrites, TypeOK
    <2>4. QED BY <1>14, <2>2, <2>3, CountersType DEF CustomerWrites, TypeOK
  <1>15. CASE AgentTakes
    <2>1. conv' \in [status : Statuses, assigned : BOOLEAN, idle : Ages]
      BY <1>15 DEF AgentTakes, TypeOK, Statuses
    <2>2. QED BY <1>15, <2>1, CountersType DEF AgentTakes, TypeOK
  <1>16. CASE AgentLeaves
    <2>1. conv' \in [status : Statuses, assigned : BOOLEAN, idle : Ages]
      BY <1>16 DEF AgentLeaves, TypeOK, Statuses
    <2>2. QED BY <1>16, <2>1, CountersType DEF AgentLeaves, TypeOK
  <1>17. CASE Opens
    <2>1. conv' \in [status : Statuses, assigned : BOOLEAN, idle : Ages]
      BY <1>17 DEF Opens, TypeOK, Statuses
    <2>2. QED BY <1>17, <2>1, CountersType DEF Opens, TypeOK
  <1>18. CASE AgentResolves
    <2>1. job' \in [Handlers -> JobType]
      BY <1>18, AnnounceType DEF AgentResolves, TypeOK
    <2>2. conv' \in [status : Statuses, assigned : BOOLEAN, idle : Ages]
      BY <1>18 DEF AgentResolves, TypeOK, Statuses
    <2>3. hist' \in HistType
      BY <1>18 DEF AgentResolves, TypeOK, HistType
    <2>4. QED BY <1>18, <2>1, <2>2, <2>3, CountersType DEF AgentResolves, TypeOK
  <1>19. CASE Tick
    <2>1. \A a \in Ages : Older(a) \in Ages
      BY DEF Older, Ages
    <2>2. row' \in [state : RowStates, variant : Variants, age : Ages]
      BY <1>19, <2>1 DEF Tick, TypeOK
    <2>3. conv' \in [status : Statuses, assigned : BOOLEAN, idle : Ages]
      BY <1>19, <2>1 DEF Tick, TypeOK
    <2>4. (IF sweep.phase = "sleep" THEN sweep.lag ELSE sweep.lag + 1) \in 0..MaxLag
      <3>1. sweep.lag \in 0..MaxLag /\ (sweep.phase # "sleep" => sweep.lag < MaxLag)
        BY <1>19 DEF Tick, TypeOK
      <3>2. QED BY <3>1, ConstantsAssumption
    <2>5. sweep' \in [phase : {"sleep", "listing", "processing"},
                      queue : Seq(Entry), lag : 0..MaxLag]
      BY <1>19, <2>4 DEF Tick, TypeOK
    <2>6. hist' \in HistType
      BY <1>19, <2>1 DEF Tick, TypeOK, HistType
    <2>7. QED BY <1>19, <2>2, <2>3, <2>5, <2>6 DEF Tick, TypeOK
  <1>20. ASSUME NEW h \in Handlers, DatabaseError(h) PROVE TypeOK'
    <2>1. job' \in [Handlers -> JobType]
      BY <1>20, JobsAreJobs DEF DatabaseError, TypeOK
    <2>2. hist' \in HistType
      BY <1>20 DEF DatabaseError, Unrecorded, AtStep, TypeOK, HistType
    <2>3. QED BY <1>20, <2>1, <2>2, CountersType DEF DatabaseError, TypeOK
  <1>21. CASE EntrySkipped
    BY <1>21, QueueTailType, CountersType DEF EntrySkipped, TypeOK
  <1>22. CASE Restart
    <2>1. job' \in [Handlers -> JobType]
      BY <1>22, JobsAreJobs DEF Restart
    <2>2. hist' \in HistType
      BY <1>22 DEF Restart, Unrecorded, AtStep, TypeOK, HistType
    <2>3. QED BY <1>22, <2>1, <2>2, CountersType DEF Restart, TypeOK
  <1>23. CASE UNCHANGED vars
    BY <1>23 DEF vars, TypeOK
  <1>24. QED
    BY <1>1, <1>2, <1>3, <1>4, <1>5, <1>6, <1>7, <1>8, <1>9, <1>10, <1>11,
       <1>12, <1>13, <1>14, <1>15, <1>16, <1>17, <1>18, <1>19, <1>20, <1>21,
       <1>22, <1>23
       DEF Next, HandlerStep, ScannerStep, Environment

(* The initial states have their types. *)
LEMMA TypeOKInit == Init => TypeOK
  BY ConstantsAssumption, JobsAreJobs
     DEF Init, TypeOK, HistType, RowStates, Variants, Statuses, Ages

(* In every reachable state every variable has its type. *)
THEOREM TypeCorrect == Spec => []TypeOK
  BY TypeOKInit, TypeOKStep, PTL DEF Spec

-----------------------------------------------------------------------------
(* What a job still has before it. *)

(* A step leaves exactly the others, and decides nothing anew. *)
LEMMA AdvanceLeft ==
    ASSUME NEW j \in JobType, j.todo # << >>, NEW s
    PROVE  /\ Left(j, Head(j.todo))
           /\ Left(Advance(j), s) =>
                 /\ Left(j, s)
                 /\ Advance(j).to = j.to /\ Advance(j).seen = j.seen
                 /\ Advance(j).msg = j.msg
           /\ Left(j, s) /\ s # Head(j.todo) => Left(Advance(j), s)
  <1>1. CASE Len(j.todo) = 1
    BY <1>1 DEF Advance, Left, NoJob, Job, JobType
  <1>2. CASE Len(j.todo) # 1
    <2>1. Advance(j) = [j EXCEPT !.todo = Tail(@)]
      BY <1>2 DEF Advance
    <2>2. j.todo \in Seq(Steps) /\ Len(j.todo) > 1
      <3>1. j.todo \in Seq(Steps)
        BY DEF JobType
      <3>2. Len(j.todo) \in Nat /\ Len(j.todo) # 0
        BY <3>1, EmptySeq, Zenon
      <3>3. \A n \in Nat : n # 0 /\ n # 1 => n > 1
        OBVIOUS
      <3>4. Len(j.todo) > 1
        BY <1>2, <3>2, <3>3, Zenon
      <3>5. QED BY <3>1, <3>4
    <2>3. /\ Len(Tail(j.todo)) = Len(j.todo) - 1
          /\ \A i \in 1..(Len(j.todo) - 1) : Tail(j.todo)[i] = j.todo[i + 1]
          /\ Head(j.todo) = j.todo[1]
      BY <2>2
    <2>4. Advance(j).todo = Tail(j.todo)
      BY <2>1 DEF JobType
    <2>5. Left(Advance(j), s) => Left(j, s)
      BY <2>2, <2>3, <2>4 DEF Left
    <2>6. ASSUME Left(j, s), s # Head(j.todo) PROVE Left(Advance(j), s)
      <3>1. PICK i \in 1..Len(j.todo) : j.todo[i] = s
        BY <2>6 DEF Left
      <3>2. i - 1 \in 1..(Len(j.todo) - 1) /\ Tail(j.todo)[i - 1] = s
        BY <2>2, <2>3, <2>6, <3>1
      <3>3. QED BY <2>3, <2>4, <3>2 DEF Left
    <2>7. Left(j, Head(j.todo))
      BY <2>2, <2>3 DEF Left
    <2>8. QED BY <2>1, <2>5, <2>6, <2>7 DEF JobType
  <1>3. QED BY <1>1, <1>2

(* What the jobs that only read, seed or rest have before them. *)
LEMMA IdleJobsLeft ==
    /\ \A s : ~Left(NoJob, s)
    /\ \A m, s : Left(Received(m), s) => s = "read"
    /\ \A s : Left(SeedOnly, s) => s = "seed"
  BY DEF Left, NoJob, Received, SeedOnly, Job
-----------------------------------------------------------------------------
(* How a step moves jobs, the row and the history.  The invariants below   *)
(* are proved from these three facts instead of action by action.          *)

(* Every job a handler may be given by a decision. *)
Undecided == RowStates \ {CLOSED}
Decisions ==
    {NoJob, Greet, Track, SeedOnly, SeedAndWarn, Warn, PromptClose,
     Reactivate, AssignAgent, SurveyAi, Rate}
       \cup {CloseSilently(s) : s \in Undecided}
       \cup {SurveyAgent(s) : s \in Undecided}

(* The prompts that precede a state that waits for the customer. *)
PromptsFor(state) ==
    CASE state = IDLE_WARNED         -> {"idle_warning"}
      [] state = AWAITING_RESOLUTION -> {"resolution_prompt"}
      [] state = AWAITING_SURVEY     -> {"survey_ai", "survey_agent"}
      [] OTHER                       -> {}
Asking == {IDLE_WARNED} \cup Awaiting

(* Resolving is the last thing a job does. *)
ResolvesLast(j) ==
    \A i \in 1..Len(j.todo) : j.todo[i] = "resolve" => i = Len(j.todo)

(* A job posts before it writes. *)
PostsFirst(j) ==
    \A i, k \in 1..Len(j.todo) : j.todo[i] = "write" /\ j.todo[k] = "post" => k < i

(* What makes a job sound by itself: it resolves last and only towards     *)
(* CLOSED, it never replaces CLOSED knowingly, and it asks with the prompt *)
(* of the state it writes.                                                 *)
Sound(j) ==
    /\ ResolvesLast(j) /\ PostsFirst(j)
    /\ Left(j, "resolve") => j.to = CLOSED
    /\ Left(j, "write") => j.seen # CLOSED
    /\ Left(j, "write") /\ j.to \in Asking => j.msg \in PromptsFor(j.to)

(* A decision is sound, has not been read again, writes before it resolves *)
(* and posts before it asks.                                               *)
LEMMA DecisionsSound ==
    ASSUME NEW j \in Decisions
    PROVE  /\ Sound(j)
           /\ ~Left(j, "read")
           /\ Left(j, "resolve") => Left(j, "write")
           /\ Left(j, "write") /\ j.to \in Asking => Left(j, "post")
  <1> USE DEF Sound, ResolvesLast, PostsFirst, Left, Job, Asking, PromptsFor, Awaiting, ACTIVE,
              IDLE_WARNED, AWAITING_RESOLUTION, AWAITING_SURVEY, CLOSED
  <1>1. CASE j \in {NoJob, Greet, Track, SeedOnly}
    BY <1>1 DEF NoJob, Greet, Track, SeedOnly
  <1>2. CASE j = SeedAndWarn
    BY <1>2 DEF SeedAndWarn
  <1>3. CASE j \in {Warn, PromptClose, SurveyAi}
    BY <1>3 DEF Warn, PromptClose, SurveyAi
  <1>4. CASE j \in {Reactivate, AssignAgent}
    BY <1>4 DEF Reactivate, AssignAgent
  <1>5. CASE j = Rate
    BY <1>5 DEF Rate
  <1>6. CASE \E s \in Undecided : j = CloseSilently(s)
    BY <1>6 DEF CloseSilently, Undecided
  <1>7. CASE \E s \in Undecided : j = SurveyAgent(s)
    BY <1>7 DEF SurveyAgent, Undecided
  <1>8. QED BY <1>1, <1>2, <1>3, <1>4, <1>5, <1>6, <1>7, Zenon DEF Decisions
(* Those of the scanner. *)
ScannerDecisions ==
    {NoJob, SeedOnly, SeedAndWarn, Warn, PromptClose}
       \cup {CloseSilently(s) : s \in Undecided}

(* Handler k's job in one step: it stays, loses its first step (a post     *)
(* then has been tried), is replaced by a decision (the resolution prompt  *)
(* only on a warned row, nothing on a CLOSED one), or is an event just     *)
(* received (the bot's own resolution only from a handler about to         *)
(* resolve).                                                               *)
Kept(k)     == job'[k] = job[k]
Advanced(k) ==
    /\ job[k].todo # << >> /\ ~AtStep(k, "read")
    /\ job'[k] = Advance(job[k])
    /\ AtStep(k, "post") => {job[k].msg} \cap Prompts \subseteq hist'.said
    /\ AtStep(k, "post") => \E ok \in BOOLEAN : Post(k, ok)
    /\ AtStep(k, "write") => Write(k) /\ row'.state = job[k].to
Decided(k)  ==
    /\ job'[k] \in Decisions
    /\ job'[k] = PromptClose => row.state = IDLE_WARNED
    /\ row.state = CLOSED => job'[k] = NoJob
    /\ job'[k] = NoJob \/ MarkOverlap
    /\ IF k = Scanner
       THEN IF Rest(k) THEN /\ job'[k] \in ScannerDecisions
                            /\ job'[k] \in {SeedAndWarn, Warn} => row.state \in {"none", ACTIVE}
                       ELSE job'[k] = NoJob /\ hist'.asked = hist.asked \ Unrecorded
       ELSE job'[k] \notin {SeedAndWarn, Warn, PromptClose}
Hears(k)    ==
    /\ k # Scanner
    /\ ~AtStep(k, "read")
    /\ \E m \in Heard :
          /\ job'[k] = Received(m)
          /\ m = "by_bot" => /\ \E h \in Handlers : AtStep(h, "resolve")
                             /\ row'.state = row.state

(* Handlers differ from one another where the proofs need it. *)
LEMMA HandlersDiffer ==
    /\ Scanner \in Handlers /\ Creation \in Handlers
    /\ Replies \subseteq Handlers /\ Resolutions \subseteq Handlers
    /\ Scanner \notin Replies /\ Scanner \notin Resolutions
  BY ConstantsAssumption DEF Handlers

(* What the scanner decides. *)
LEMMA ScannerDecides ==
    ASSUME TypeOK, NEW entry, NEW g
    PROVE  /\ AssignedJob(entry) \in Decisions \cap ScannerDecisions
           /\ UnassignedJob(entry, g) \in Decisions \cap ScannerDecisions
           /\ AssignedJob(entry) \notin {SeedAndWarn, Warn}
           /\ UnassignedJob(entry, g) \in {SeedAndWarn, Warn}
                 => row.state \in {"none", ACTIVE}
           /\ AssignedJob(entry) = PromptClose => row.state = IDLE_WARNED
           /\ UnassignedJob(entry, g) = PromptClose => row.state = IDLE_WARNED
  <1>1. row.state \in RowStates
    BY DEF TypeOK
  <1>2. row.state \in Awaiting => row.state \in Undecided
    BY <1>1 DEF Awaiting, Undecided, AWAITING_RESOLUTION, AWAITING_SURVEY, CLOSED
  <1>3. AssignedJob(entry) \in Decisions \cap ScannerDecisions
    BY <1>1 DEF AssignedJob, Decisions, ScannerDecisions, Undecided
  <1>4. UnassignedJob(entry, g) \in Decisions \cap ScannerDecisions
    BY <1>2 DEF UnassignedJob, IdleAction, Decisions, ScannerDecisions
  <1>8. AssignedJob(entry) \notin {SeedAndWarn, Warn}
    BY DEF AssignedJob, CloseSilently, NoJob, SeedAndWarn, Warn, Job, CLOSED, IDLE_WARNED
  <1>9. ASSUME UnassignedJob(entry, g) \in {SeedAndWarn, Warn}
        PROVE  row.state \in {"none", ACTIVE}
    BY <1>9 DEF UnassignedJob, IdleAction, CloseSilently, NoJob, PromptClose, Job,
                SeedAndWarn, SeedOnly, Warn, CLOSED, AWAITING_RESOLUTION, IDLE_WARNED, ACTIVE
  <1>5. AssignedJob(entry) # PromptClose
    BY DEF AssignedJob, CloseSilently, NoJob, PromptClose, Job, CLOSED, AWAITING_RESOLUTION
  <1>6. ASSUME UnassignedJob(entry, g) = PromptClose PROVE row.state = IDLE_WARNED
    BY <1>6 DEF UnassignedJob, IdleAction, CloseSilently, NoJob, PromptClose, Job,
                SeedAndWarn, SeedOnly, Warn, CLOSED, AWAITING_RESOLUTION, IDLE_WARNED, ACTIVE
  <1>7. QED BY <1>3, <1>4, <1>5, <1>6, <1>8, <1>9

(* Nothing is decided on a CLOSED row. *)
LEMMA NothingDecided ==
    ASSUME row.state = CLOSED
    PROVE  /\ \A entry, g : AssignedJob(entry) = NoJob /\ UnassignedJob(entry, g) = NoJob
           /\ \A answer : ReplyJob(row.state, answer) = NoJob
  BY DEF AssignedJob, UnassignedJob, ReplyJob, Awaiting, CLOSED, IDLE_WARNED,
         AWAITING_RESOLUTION, AWAITING_SURVEY

(* In one step every handler's job moves in one of these four ways. *)
LEMMA JobMoves ==
    ASSUME TypeOK, [Next]_vars, NEW k \in Handlers
    PROVE  Kept(k) \/ Advanced(k) \/ Decided(k) \/ Hears(k)
  <1> USE HandlersDiffer
  <1>1. ASSUME NEW h \in Handlers, NEW ok \in BOOLEAN, Post(h, ok)
        PROVE  Kept(k) \/ Advanced(k)
    <2>1. CASE k = h
      <3>1. AtStep(k, "post") /\ job'[k] = Advance(job[k])
        BY <1>1, <2>1 DEF Post, Step, TypeOK
      <3>2. {job[k].msg} \cap Prompts \subseteq hist'.said
        BY <1>1, <2>1 DEF Post, TypeOK, HistType
      <3>3. Post(k, ok)
        BY <1>1, <2>1
      <3>4. QED BY <3>1, <3>2, <3>3 DEF Advanced, AtStep
    <2>2. CASE k # h
      BY <1>1, <2>2 DEF Post, Step, Kept, TypeOK
    <2>3. QED BY <2>1, <2>2
  <1>2. ASSUME NEW h \in Handlers, Write(h) PROVE Kept(k) \/ Advanced(k)
    BY <1>2 DEF Write, Step, AtStep, Kept, Advanced, TypeOK
  <1>3. ASSUME NEW h \in Handlers, Seed(h) PROVE Kept(k) \/ Advanced(k)
    BY <1>3 DEF Seed, Step, AtStep, Kept, Advanced, TypeOK
  <1>4. ASSUME NEW h \in Handlers, NEW ok \in BOOLEAN, Mirror(h, ok)
        PROVE  Kept(k) \/ Advanced(k)
    BY <1>4 DEF Mirror, Step, AtStep, Kept, Advanced, TypeOK
  <1>5. ASSUME NEW h \in Handlers, NEW ok \in BOOLEAN, Resolve(h, ok)
        PROVE  Kept(k) \/ Advanced(k) \/ Hears(k)
    <2> DEFINE done == [job EXCEPT ![h] = Advance(@)]
    <2>1. done[k] = job[k] \/ (k = h /\ done[k] = Advance(job[k]))
      BY DEF TypeOK
    <2>2. job'[k] = done[k] \/ (job'[k] = Received("by_bot") /\ k # Scanner)
      BY <1>5 DEF Resolve, Announce, TypeOK
    <2>3. ASSUME job'[k] = Received("by_bot"), k # Scanner, ~AtStep(k, "read") PROVE Hears(k)
      BY <1>5, <2>3 DEF Hears, Heard, Resolve
    <2>4. CASE AtStep(k, "read")
      <3>1. k # h
        BY <1>5, <2>4 DEF Resolve, AtStep
      <3>2. done[k] = job[k] /\ job[k].todo # << >>
        BY <2>4, <3>1 DEF AtStep, TypeOK
      <3>3. Announce(done, "by_bot")[k] = done[k]
        BY <3>2 DEF Announce
      <3>4. QED BY <1>5, <3>2, <3>3 DEF Resolve, Kept
    <2>5. QED BY <1>5, <2>1, <2>2, <2>3, <2>4 DEF Resolve, AtStep, Kept, Advanced
  <1>6. ASSUME NEW h \in Handlers, NEW ok \in BOOLEAN, Reopen(h, ok)
        PROVE  Kept(k) \/ Advanced(k)
    BY <1>6 DEF Reopen, Step, AtStep, Kept, Advanced, TypeOK
  <1>7. ASSUME NEW h \in Handlers, NEW ok \in BOOLEAN, Record(h, ok)
        PROVE  Kept(k) \/ Advanced(k)
    BY <1>7 DEF Record, Step, AtStep, Kept, Advanced, TypeOK
  <1>8. ASSUME NEW g \in Graces, Process(g) PROVE Kept(k) \/ Decided(k)
    <2>1. k = Scanner => Rest(k) /\ MarkOverlap
      BY <1>8 DEF Process
    <2>2. CASE k = Scanner
      BY <1>8, <2>1, <2>2, ScannerDecides, NothingDecided DEF Process, Decided, TypeOK
    <2>3. CASE k # Scanner
      BY <1>8, <2>3 DEF Process, Kept, TypeOK
    <2>4. QED BY <2>2, <2>3
  <1>9. ASSUME NEW r \in Replies, ReadForReply(r) PROVE Kept(k) \/ Decided(k)
    <2>1. ReplyJob(row.state, job[r].msg) \in Decisions
      BY DEF ReplyJob, Decisions, Undecided, RowStates, Awaiting, CLOSED,
             AWAITING_RESOLUTION
    <2>2. ReplyJob(row.state, job[r].msg) \notin {SeedAndWarn, Warn, PromptClose}
      BY DEF ReplyJob, PromptClose, SeedAndWarn, Warn, Reactivate, AssignAgent, SurveyAi,
             Rate, NoJob, CloseSilently, Job, CLOSED, ACTIVE, IDLE_WARNED,
             AWAITING_RESOLUTION, AWAITING_SURVEY
    <2>3. r # Scanner /\ MarkOverlap
      BY <1>9 DEF ReadForReply
    <2>4. QED BY <1>9, <2>1, <2>2, <2>3, NothingDecided DEF ReadForReply, Kept, Decided, TypeOK
  <1>10. ASSUME NEW e \in Resolutions, ReadForResolution(e) PROVE Kept(k) \/ Decided(k)
    <2>1. NoJob \in Decisions /\ NoJob \notin {SeedAndWarn, Warn, PromptClose}
      BY DEF Decisions, NoJob, PromptClose, SeedAndWarn, Warn, Job, AWAITING_RESOLUTION,
             IDLE_WARNED
    <2>2. row.state # CLOSED => SurveyAgent(row.state) \in Decisions
      BY DEF Decisions, Undecided, TypeOK
    <2>3. SurveyAgent(row.state) \notin {SeedAndWarn, Warn, PromptClose}
      BY DEF SurveyAgent, PromptClose, SeedAndWarn, Warn, Job, AWAITING_RESOLUTION,
             AWAITING_SURVEY, IDLE_WARNED
    <2>4. e # Scanner /\ MarkOverlap
      BY <1>10 DEF ReadForResolution
    <2>5. QED BY <1>10, <2>1, <2>2, <2>3, <2>4 DEF ReadForResolution, Kept, Decided, TypeOK
  <1>11. ASSUME NEW r \in Replies, NEW answer \in {"yes", "other"},
                NEW reopened \in {"pending", "open"},
                CustomerWrites(r, answer, reopened)
         PROVE  Kept(k) \/ Hears(k)
    BY <1>11 DEF CustomerWrites, Rest, AtStep, Kept, Hears, Heard, TypeOK
  <1>12. CASE AgentResolves
    BY <1>12 DEF AgentResolves, Announce, AtStep, Kept, Hears, Heard, TypeOK
  <1>13. /\ NoJob \in Decisions /\ NoJob \in ScannerDecisions
         /\ NoJob \notin {SeedAndWarn, Warn, PromptClose}
    BY DEF Decisions, ScannerDecisions, NoJob, PromptClose, SeedAndWarn, Warn, Job,
           AWAITING_RESOLUTION, IDLE_WARNED
  <1>14. ASSUME NEW h \in Handlers, DatabaseError(h) PROVE Kept(k) \/ Decided(k)
    <2>1. CASE k = h
      <3>1. job'[k] = NoJob
        BY <1>14, <2>1 DEF DatabaseError, TypeOK
      <3>2. k = Scanner => hist'.asked = hist.asked \ Unrecorded
        BY <1>14, <2>1 DEF DatabaseError, TypeOK, HistType
      <3>3. QED BY <1>13, <3>1, <3>2 DEF Decided
    <2>2. CASE k # h
      BY <1>14, <2>2 DEF DatabaseError, Kept, TypeOK
    <2>3. QED BY <2>1, <2>2
  <1>15. CASE Restart
    <2>1. job'[k] = NoJob /\ hist'.asked = hist.asked \ Unrecorded
      BY <1>15 DEF Restart, TypeOK, HistType
    <2>2. QED BY <1>13, <2>1 DEF Decided
  <1>16. ASSUME UNCHANGED job PROVE Kept(k)
    BY <1>16 DEF Kept
  <1>17. ASSUME NEW ok \in BOOLEAN, ListPending(ok) \/ ListOpen(ok) PROVE UNCHANGED job
    BY <1>17 DEF ListPending, ListOpen
  <1>18. CASE SweepEnds \/ AgentTakes \/ AgentLeaves \/ Opens \/ Tick \/ EntrySkipped
              \/ UNCHANGED vars
    BY <1>16, <1>18 DEF SweepEnds, AgentTakes, AgentLeaves, Opens, Tick, EntrySkipped, vars
  <1>19. QED
    BY <1>1, <1>2, <1>3, <1>4, <1>5, <1>6, <1>7, <1>8, <1>9, <1>10, <1>11,
       <1>12, <1>14, <1>15, <1>16, <1>17, <1>18
       DEF Next, HandlerStep, ScannerStep, Environment
(* The row in one step: it stays, is seeded if absent, or is written by a  *)
(* handler; the history stays clean only if the writer had read the state  *)
(* it replaces.                                                            *)
RowStays    == row'.state = row.state /\ row'.variant = row.variant
RowSeeded   == row.state = "none" /\ row'.state = ACTIVE
RowWritten(h) ==
    /\ AtStep(h, "write")
    /\ row'.state = job[h].to
    /\ job[h].msg = "survey_ai" => row'.variant = "ai"
    /\ job[h].msg = "survey_agent" => row'.variant = "agent"
    /\ hist'.clean => row.state = job[h].seen

(* What a step does to the history that only marks an overlap, or forgets  *)
(* a question.                                                             *)
HistoryKept ==
    /\ hist'.said = hist.said /\ hist'.rated = hist.rated
    /\ hist'.promised = hist.promised /\ hist'.clean = hist.clean
    /\ hist'.asked \subseteq hist.asked
    /\ hist.overlap => hist'.overlap

(* Reads, reopenings, faults and steps that leave the history alone are    *)
(* such steps, and touch no row.                                           *)
LEMMA QuietHistory ==
    ASSUME TypeOK
    PROVE  /\ UNCHANGED hist => HistoryKept
           /\ MarkOverlap => HistoryKept
           /\ \A h, ok : Reopen(h, ok) => UNCHANGED row /\ HistoryKept
           /\ \A g : Process(g) => UNCHANGED row /\ HistoryKept
           /\ \A r : ReadForReply(r) => UNCHANGED row /\ HistoryKept
           /\ \A e : ReadForResolution(e) => UNCHANGED row /\ HistoryKept
           /\ \A h : DatabaseError(h) => UNCHANGED row /\ HistoryKept
           /\ Restart => UNCHANGED row /\ HistoryKept
  <1>1. MarkOverlap => HistoryKept
    BY DEF MarkOverlap, HistoryKept, TypeOK, HistType
  <1>2. \A h : DatabaseError(h) => UNCHANGED row /\ HistoryKept
    BY DEF DatabaseError, HistoryKept, TypeOK, HistType
  <1>3. Restart => UNCHANGED row /\ HistoryKept
    BY DEF Restart, HistoryKept, TypeOK, HistType
  <1>4. QED BY <1>1, <1>2, <1>3
            DEF HistoryKept, Reopen, Process, ReadForReply, ReadForResolution

(* In one step the row moves in one of these three ways, a prompt once     *)
(* posted stays posted, and a lost update is never undone.                 *)
LEMMA RowMoves ==
    ASSUME TypeOK, [Next]_vars
    PROVE  /\ RowStays \/ RowSeeded \/ \E h \in Handlers : RowWritten(h)
           /\ hist.said \subseteq hist'.said
           /\ hist'.clean => hist.clean
           /\ hist.overlap => hist'.overlap
  <1> DEFINE Goal == /\ RowStays \/ RowSeeded \/ \E h \in Handlers : RowWritten(h)
                     /\ hist.said \subseteq hist'.said
                     /\ hist'.clean => hist.clean
                     /\ hist.overlap => hist'.overlap
  <1>1. ASSUME NEW h \in Handlers, NEW ok \in BOOLEAN, Post(h, ok) PROVE Goal
    BY <1>1 DEF Post, RowStays, TypeOK, HistType
  <1>2. ASSUME NEW h \in Handlers, Write(h) PROVE Goal
    <2>1. RowWritten(h)
      BY <1>2 DEF Write, RowWritten, TypeOK, HistType
    <2>2. QED BY <1>2, <2>1 DEF Write, TypeOK, HistType
  <1>3. ASSUME NEW h \in Handlers, Seed(h) PROVE Goal
    BY <1>3 DEF Seed, RowStays, RowSeeded
  <1>4. ASSUME NEW h \in Handlers, NEW ok \in BOOLEAN, Record(h, ok) PROVE Goal
    BY <1>4 DEF Record, RowStays, TypeOK, HistType
  <1>5. CASE AgentResolves
    BY <1>5 DEF AgentResolves, RowStays, TypeOK, HistType
  <1>6. CASE Tick
    BY <1>6 DEF Tick, RowStays, TypeOK, HistType
  <1>7. ASSUME UNCHANGED row, HistoryKept PROVE Goal
    BY <1>7 DEF RowStays, HistoryKept
  <1>8. ASSUME NEW h \in Handlers, NEW ok \in BOOLEAN, Mirror(h, ok) \/ Resolve(h, ok)
        PROVE  UNCHANGED <<row, hist>>
    BY <1>8 DEF Mirror, Resolve
  <1>9. ASSUME ScannerStep, ~\E g \in Graces : Process(g) PROVE UNCHANGED <<row, hist>>
    BY <1>9 DEF ScannerStep, ListPending, ListOpen, SweepEnds
  <1>10. ASSUME Environment, ~AgentResolves PROVE UNCHANGED <<row, hist>>
    BY <1>10 DEF Environment, CustomerWrites, AgentTakes, AgentLeaves, Opens
  <1>11. CASE EntrySkipped \/ UNCHANGED vars
    BY <1>7, <1>11, QuietHistory DEF EntrySkipped, vars
  <1>12. QED
    BY <1>1, <1>2, <1>3, <1>4, <1>5, <1>6, <1>7, <1>8, <1>9, <1>10, <1>11, QuietHistory
       DEF Next, HandlerStep, ScannerStep

-----------------------------------------------------------------------------
(* Every job is sound, always. *)

AllSound == \A h \in Handlers : Sound(job[h])

(* A sound job stays sound when it loses its first step. *)
LEMMA AdvanceSound ==
    ASSUME NEW j \in JobType, j.todo # << >>, Sound(j)
    PROVE  Sound(Advance(j))
  <1>1. ResolvesLast(Advance(j)) /\ PostsFirst(Advance(j))
    <2>1. CASE Len(j.todo) = 1
      BY <2>1 DEF Advance, NoJob, Job, ResolvesLast, PostsFirst
    <2>2. CASE Len(j.todo) # 1
      <3>1. Advance(j).todo = Tail(j.todo)
        BY <2>2 DEF Advance, JobType
      <3>2. j.todo \in Seq(Steps) /\ Len(j.todo) \in Nat \ {0}
        BY EmptySeq, Zenon DEF JobType
      <3>3. /\ Len(Tail(j.todo)) = Len(j.todo) - 1
            /\ \A i \in 1..(Len(j.todo) - 1) : Tail(j.todo)[i] = j.todo[i + 1]
        BY <3>2
      <3>4. ASSUME NEW i \in 1..Len(Tail(j.todo)), Tail(j.todo)[i] = "resolve"
            PROVE  i = Len(Tail(j.todo))
        <4>1. i + 1 \in 1..Len(j.todo) /\ j.todo[i + 1] = "resolve"
          BY <3>2, <3>3, <3>4
        <4>2. i + 1 = Len(j.todo)
          BY <4>1 DEF Sound, ResolvesLast
        <4>3. QED BY <3>2, <3>3, <4>2
      <3>5. ASSUME NEW i \in 1..Len(Tail(j.todo)), NEW k \in 1..Len(Tail(j.todo)),
                   Tail(j.todo)[i] = "write", Tail(j.todo)[k] = "post"
            PROVE  k < i
        <4>1. i + 1 \in 1..Len(j.todo) /\ k + 1 \in 1..Len(j.todo)
          BY <3>2, <3>3
        <4>2. j.todo[i + 1] = "write" /\ j.todo[k + 1] = "post"
          BY <3>3, <3>5
        <4>3. k + 1 < i + 1
          BY <4>1, <4>2 DEF Sound, PostsFirst
        <4>4. QED BY <3>2, <3>3, <4>3
      <3>6. QED BY <3>1, <3>4, <3>5 DEF ResolvesLast, PostsFirst
    <2>3. QED BY <2>1, <2>2
  <1>2. Left(Advance(j), "resolve") => Advance(j).to = CLOSED
    BY AdvanceLeft DEF Sound
  <1>3. Left(Advance(j), "write") => Advance(j).seen # CLOSED
    BY AdvanceLeft DEF Sound
  <1>4. Left(Advance(j), "write") /\ Advance(j).to \in Asking
           => Advance(j).msg \in PromptsFor(Advance(j).to)
    <2>1. ASSUME Left(Advance(j), "write")
          PROVE  Left(j, "write") /\ Advance(j).to = j.to /\ Advance(j).msg = j.msg
      BY <2>1, AdvanceLeft
    <2>2. QED BY <2>1 DEF Sound
  <1>5. QED BY <1>1, <1>2, <1>3, <1>4 DEF Sound

(* An event just received is a sound job. *)
LEMMA ReceivedSound == \A m : Sound(Received(m))
  BY DEF Received, Sound, ResolvesLast, PostsFirst, Left, Job

(* Soundness of all jobs is inductive. *)
LEMMA SoundStep == TypeOK /\ AllSound /\ [Next]_vars => AllSound'
  <1> SUFFICES ASSUME TypeOK, AllSound, [Next]_vars, NEW k \in Handlers
               PROVE  Sound(job'[k])
    BY DEF AllSound
  <1>1. CASE Kept(k)
    BY <1>1 DEF Kept, AllSound
  <1>2. CASE Advanced(k)
    BY <1>2, AdvanceSound DEF Advanced, AllSound, TypeOK
  <1>3. CASE Decided(k)
    BY <1>3, DecisionsSound DEF Decided
  <1>4. CASE Hears(k)
    BY <1>4, ReceivedSound DEF Hears
  <1>5. QED BY <1>1, <1>2, <1>3, <1>4, JobMoves
-----------------------------------------------------------------------------
(* QuestionAsked. *)

(* QuestionAsked speaks of the row alone and is not inductive: a handler   *)
(* past its post is about to write the state the prompt belongs to.  Every *)
(* handler that will write a waiting state has its post still ahead or has *)
(* said the prompt, and only a warned customer is asked for a resolution.  *)
Asked(j) ==
    Left(j, "write") /\ j.to \in Asking =>
        /\ Left(j, "post") \/ j.msg \in hist.said
        /\ j.to = AWAITING_RESOLUTION => "idle_warning" \in hist.said

AskedInv == QuestionAsked /\ \A h \in Handlers : Asked(job[h])

(* The resolution prompt is the one decision that asks for a resolution. *)
LEMMA OnlyPromptClose ==
    ASSUME NEW j \in Decisions, j.to = AWAITING_RESOLUTION
    PROVE  j = PromptClose
  BY DEF Decisions, NoJob, Greet, Track, SeedOnly, SeedAndWarn, Warn, PromptClose,
         Reactivate, AssignAgent, SurveyAi, Rate, CloseSilently, SurveyAgent, Job,
         ACTIVE, IDLE_WARNED, AWAITING_RESOLUTION, AWAITING_SURVEY, CLOSED

(* The prompts of the waiting states are prompts. *)
LEMMA PromptsForType == \A state \in Asking : PromptsFor(state) \subseteq Prompts
  BY DEF PromptsFor, Asking, Awaiting, Prompts, IDLE_WARNED, AWAITING_RESOLUTION,
         AWAITING_SURVEY

(* AskedInv is inductive. *)
LEMMA AskedStep == TypeOK /\ AllSound /\ AskedInv /\ [Next]_vars => AskedInv'
  <1> SUFFICES ASSUME TypeOK, AllSound, AskedInv, [Next]_vars PROVE AskedInv'
    OBVIOUS
  <1>1. hist.said \subseteq hist'.said
    BY RowMoves
  <1>2. ASSUME NEW k \in Handlers PROVE Asked(job[k])'
    <2>1. CASE Kept(k)
      BY <1>1, <2>1 DEF Kept, AskedInv, Asked
    <2>2. CASE Advanced(k)
      <3> SUFFICES ASSUME Left(job'[k], "write"), job'[k].to \in Asking
                   PROVE  /\ Left(job'[k], "post") \/ job'[k].msg \in hist'.said
                          /\ job'[k].to = AWAITING_RESOLUTION
                                => "idle_warning" \in hist'.said
        BY DEF Asked
      <3>1. job[k] \in JobType /\ job[k].todo # << >> /\ job'[k] = Advance(job[k])
        BY <2>2 DEF Advanced, TypeOK
      <3>2. Left(job[k], "write") /\ job'[k].to = job[k].to /\ job'[k].msg = job[k].msg
        BY <3>1, AdvanceLeft
      <3>3. job[k].msg \in Prompts
        BY <3>2, PromptsForType DEF AllSound, Sound
      <3>4. Left(job[k], "post") => Left(job'[k], "post") \/ AtStep(k, "post")
        BY <3>1, AdvanceLeft DEF AtStep
      <3>5. AtStep(k, "post") => job[k].msg \in hist'.said
        BY <2>2, <3>3 DEF Advanced
      <3>6. Asked(job[k])
        BY DEF AskedInv
      <3>7. QED BY <1>1, <3>2, <3>4, <3>5, <3>6 DEF Asked
    <2>3. CASE Decided(k)
      <3>1. job'[k].to = AWAITING_RESOLUTION => "idle_warning" \in hist.said
        BY <2>3, OnlyPromptClose DEF Decided, AskedInv, QuestionAsked
      <3>2. QED BY <1>1, <2>3, <3>1, DecisionsSound DEF Decided, Asked
    <2>4. CASE Hears(k)
      BY <2>4, IdleJobsLeft DEF Hears, Asked
    <2>5. QED BY <2>1, <2>2, <2>3, <2>4, JobMoves
  <1>3. QuestionAsked'
    <2>1. CASE RowStays
      BY <1>1, <2>1 DEF RowStays, AskedInv, QuestionAsked
    <2>2. CASE RowSeeded
      BY <2>2 DEF RowSeeded, QuestionAsked, ACTIVE, IDLE_WARNED, AWAITING_RESOLUTION,
                  AWAITING_SURVEY
    <2>3. ASSUME NEW h \in Handlers, RowWritten(h) PROVE QuestionAsked'
      <3>1. job[h] \in JobType /\ job[h].todo # << >> /\ Head(job[h].todo) = "write"
        BY <2>3 DEF RowWritten, AtStep, TypeOK
      <3>2. Left(job[h], "write")
        BY <3>1, AdvanceLeft
      <3>3. ~Left(job[h], "post")
        <4>1. job[h].todo[1] = "write" /\ 1 \in 1..Len(job[h].todo)
          BY <3>1, EmptySeq DEF JobType
        <4>2. PostsFirst(job[h])
          BY DEF AllSound, Sound
        <4>3. QED BY <4>1, <4>2 DEF PostsFirst, Left
      <3>4. Asked(job[h]) /\ (job[h].to \in Asking => job[h].msg \in PromptsFor(job[h].to))
        BY <3>2 DEF AskedInv, AllSound, Sound
      <3>5. row'.state = job[h].to
        BY <2>3 DEF RowWritten
      <3>6. CASE job[h].to = IDLE_WARNED
        BY <1>1, <3>2, <3>3, <3>4, <3>5, <3>6
           DEF Asked, Asking, Awaiting, PromptsFor, QuestionAsked, IDLE_WARNED,
               AWAITING_RESOLUTION, AWAITING_SURVEY
      <3>7. CASE job[h].to = AWAITING_RESOLUTION
        BY <1>1, <3>2, <3>3, <3>4, <3>5, <3>7
           DEF Asked, Asking, Awaiting, PromptsFor, QuestionAsked, IDLE_WARNED,
               AWAITING_RESOLUTION, AWAITING_SURVEY
      <3>8. CASE job[h].to = AWAITING_SURVEY
        <4>1. job[h].msg \in {"survey_ai", "survey_agent"} /\ job[h].msg \in hist'.said
          BY <1>1, <3>2, <3>3, <3>4, <3>8
             DEF Asked, Asking, Awaiting, PromptsFor, IDLE_WARNED, AWAITING_RESOLUTION,
                 AWAITING_SURVEY
        <4>2. row'.variant = (IF job[h].msg = "survey_ai" THEN "ai" ELSE "agent")
          BY <2>3, <4>1 DEF RowWritten
        <4>3. QED BY <3>5, <3>8, <4>1, <4>2
                     DEF QuestionAsked, IDLE_WARNED, AWAITING_RESOLUTION, AWAITING_SURVEY
      <3>9. CASE job[h].to \notin Asking
        BY <3>5, <3>9 DEF QuestionAsked, Asking, Awaiting
      <3>10. QED BY <3>6, <3>7, <3>8, <3>9 DEF Asking, Awaiting
    <2>4. QED BY <2>1, <2>2, <2>3, RowMoves
  <1>4. QED BY <1>2, <1>3 DEF AskedInv

-----------------------------------------------------------------------------
(* ClosedBeforeResolve and NoSurveyAfterBotResolve. *)

(* A handler that has written CLOSED and is on its way to resolve, or the  *)
(* webhook of the service's own resolution before it has read the row:     *)
(* both rely on the row being CLOSED.                                      *)
ReliesOnClosed(j) ==
    \/ Left(j, "resolve") /\ ~Left(j, "write")
    \/ Left(j, "read") /\ j.msg = "by_bot"

ClosedInv ==
    hist.clean => \A h \in Handlers : ReliesOnClosed(job[h]) => row.state = CLOSED

(* At its resolve step a sound job has nothing but that step left. *)
LEMMA AtResolve ==
    ASSUME TypeOK, AllSound, NEW h \in Handlers, AtStep(h, "resolve")
    PROVE  ReliesOnClosed(job[h])
  <1>1. job[h] \in JobType /\ job[h].todo # << >> /\ Head(job[h].todo) = "resolve"
    BY DEF AtStep, TypeOK
  <1>2. Len(job[h].todo) \in Nat \ {0}
    BY <1>1, EmptySeq, Zenon DEF JobType
  <1>3. job[h].todo[1] = "resolve" /\ 1 \in 1..Len(job[h].todo)
    BY <1>1, <1>2 DEF JobType
  <1>4. Len(job[h].todo) = 1
    BY <1>3 DEF AllSound, Sound, ResolvesLast
  <1>5. QED BY <1>3, <1>4 DEF ReliesOnClosed, Left

(* ClosedInv is inductive: the only writes that leave CLOSED come from     *)
(* handlers that had read another state, and those are lost updates.       *)
LEMMA ClosedStep == TypeOK /\ AllSound /\ ClosedInv /\ [Next]_vars => ClosedInv'
  <1> SUFFICES ASSUME TypeOK, AllSound, ClosedInv, [Next]_vars, hist'.clean,
                      NEW k \in Handlers, ReliesOnClosed(job'[k])
               PROVE  row'.state = CLOSED
    BY DEF ClosedInv
  <1>1. hist.clean
    BY RowMoves
  <1>2. row.state = CLOSED => row'.state = CLOSED
    <2>1. ASSUME row.state = CLOSED, NEW h \in Handlers, RowWritten(h) PROVE FALSE
      <3>1. job[h] \in JobType /\ job[h].todo # << >> /\ Head(job[h].todo) = "write"
        BY <2>1 DEF RowWritten, AtStep, TypeOK
      <3>2. Left(job[h], "write")
        BY <3>1, AdvanceLeft
      <3>3. QED BY <2>1, <3>2 DEF RowWritten, AllSound, Sound
    <2>2. QED BY <2>1, RowMoves DEF RowStays, RowSeeded, CLOSED
  <1>3. CASE Kept(k)
    BY <1>1, <1>2, <1>3 DEF Kept, ClosedInv
  <1>4. CASE Advanced(k)
    <2>1. job[k] \in JobType /\ job[k].todo # << >> /\ job'[k] = Advance(job[k])
      BY <1>4 DEF Advanced, TypeOK
    <2>2. CASE AtStep(k, "write")
      <3>1. row'.state = job[k].to
        BY <1>4, <2>2 DEF Advanced
      <3>2. CASE Left(job'[k], "resolve")
        BY <2>1, <3>1, <3>2, AdvanceLeft DEF AllSound, Sound
      <3>3. CASE Left(job'[k], "read") /\ job'[k].msg = "by_bot"
        <4>1. Left(job[k], "read") /\ job[k].msg = "by_bot"
          BY <2>1, <3>3, AdvanceLeft
        <4>2. QED BY <1>1, <1>2, <4>1 DEF ReliesOnClosed, ClosedInv
      <3>4. QED BY <3>2, <3>3 DEF ReliesOnClosed
    <2>3. CASE ~AtStep(k, "write")
      <3>1. Left(job[k], "write") => Left(job'[k], "write")
        BY <2>1, <2>3, AdvanceLeft DEF AtStep
      <3>2. ReliesOnClosed(job[k])
        BY <2>1, <3>1, AdvanceLeft DEF ReliesOnClosed
      <3>3. QED BY <1>1, <1>2, <3>2 DEF ClosedInv
    <2>4. QED BY <2>2, <2>3
  <1>5. CASE Decided(k)
    BY <1>5, DecisionsSound DEF Decided, ReliesOnClosed
  <1>6. CASE Hears(k)
    <2>1. PICK m \in Heard : /\ job'[k] = Received(m)
                             /\ m = "by_bot" => /\ \E h \in Handlers : AtStep(h, "resolve")
                                                /\ row'.state = row.state
      BY <1>6 DEF Hears
    <2>2. m = "by_bot"
      BY <2>1, IdleJobsLeft DEF ReliesOnClosed, Received, Job
    <2>3. PICK h \in Handlers : AtStep(h, "resolve")
      BY <2>1, <2>2
    <2>4. QED BY <1>1, <2>1, <2>2, <2>3, AtResolve DEF ClosedInv
  <1>7. QED BY <1>3, <1>4, <1>5, <1>6, JobMoves
-----------------------------------------------------------------------------
(* RatedOnceAtRest. *)

(* What the jobs around a rating look like: recording is the first step of *)
(* the job that rates, that job replaces AWAITING_SURVEY by CLOSED, and a  *)
(* handler that has yet to read the row has nothing to write yet.          *)
RateSound(j) ==
    /\ Left(j, "record") => j = Rate
    /\ Left(j, "write") /\ j.msg = "thanks" => j.to = CLOSED /\ j.seen = AWAITING_SURVEY
    /\ Left(j, "read") => ~Left(j, "write")

AllRateSound == \A h \in Handlers : RateSound(job[h])

(* The job that rates, before and after its first step. *)
LEMMA RateLeft ==
    /\ Rate \in JobType /\ Rate.todo # << >> /\ Head(Rate.todo) = "record"
    /\ Rate.msg = "thanks" /\ Left(Rate, "record") /\ Left(Rate, "write")
    /\ ~Left(Advance(Rate), "record")
    /\ Left(Advance(Rate), "write") /\ Advance(Rate).msg = "thanks"
  <1>1. Rate \in JobType
    BY JobsAreJobs
  <1>2. Advance(Rate) = Job(<<"post", "write", "mirror", "resolve">>,
                            AWAITING_SURVEY, CLOSED, "thanks")
    BY DEF Advance, Rate, Job
  <1>3. Left(Rate, "record") /\ Left(Rate, "write")
    BY DEF Rate, Job, Left
  <1>4. QED BY <1>1, <1>2, <1>3 DEF Rate, Job, Left

(* Every decision is sound about ratings, and only Rate says thanks. *)
LEMMA DecisionsRate ==
    ASSUME NEW j \in Decisions
    PROVE  /\ RateSound(j)
           /\ j.msg = "thanks" => j = Rate
  <1> USE DEF Left, Job, AWAITING_SURVEY, CLOSED
  <1>1. CASE j \in {NoJob, Greet, Track, SeedOnly}
    BY <1>1 DEF RateSound, NoJob, Greet, Track, SeedOnly
  <1>2. CASE j = SeedAndWarn
    BY <1>2 DEF RateSound, SeedAndWarn
  <1>3. CASE j \in {Warn, PromptClose, SurveyAi}
    BY <1>3 DEF RateSound, Warn, PromptClose, SurveyAi
  <1>4. CASE j \in {Reactivate, AssignAgent}
    BY <1>4 DEF RateSound, Reactivate, AssignAgent
  <1>5. CASE j = Rate
    BY <1>5 DEF RateSound, Rate
  <1>6. CASE \E s \in Undecided : j = CloseSilently(s)
    BY <1>6 DEF RateSound, CloseSilently
  <1>7. CASE \E s \in Undecided : j = SurveyAgent(s)
    BY <1>7 DEF RateSound, SurveyAgent
  <1>8. QED BY <1>1, <1>2, <1>3, <1>4, <1>5, <1>6, <1>7, Zenon DEF Decisions

(* Soundness about ratings is inductive. *)
LEMMA RateSoundStep == TypeOK /\ AllRateSound /\ [Next]_vars => AllRateSound'
  <1> SUFFICES ASSUME TypeOK, AllRateSound, [Next]_vars, NEW k \in Handlers
               PROVE  RateSound(job'[k])
    BY DEF AllRateSound
  <1>1. CASE Kept(k)
    BY <1>1 DEF Kept, AllRateSound
  <1>2. CASE Advanced(k)
    <2>1. job[k] \in JobType /\ job[k].todo # << >> /\ job'[k] = Advance(job[k])
      BY <1>2 DEF Advanced, TypeOK
    <2>2. RateSound(job[k])
      BY DEF AllRateSound
    <2>3. ~Left(job'[k], "record")
      <3>1. Left(job'[k], "record") => job[k] = Rate
        BY <2>1, <2>2, AdvanceLeft DEF RateSound
      <3>2. QED BY <2>1, <3>1, RateLeft
    <2>4. Left(job'[k], "write") /\ job'[k].msg = "thanks"
             => job'[k].to = CLOSED /\ job'[k].seen = AWAITING_SURVEY
      BY <2>1, <2>2, AdvanceLeft DEF RateSound
    <2>5. Left(job'[k], "read") => ~Left(job'[k], "write")
      BY <2>1, <2>2, AdvanceLeft DEF RateSound
    <2>6. QED BY <2>3, <2>4, <2>5 DEF RateSound
  <1>3. CASE Decided(k)
    BY <1>3, DecisionsRate DEF Decided
  <1>4. CASE Hears(k)
    BY <1>4, IdleJobsLeft DEF Hears, RateSound
  <1>5. QED BY <1>1, <1>2, <1>3, <1>4, JobMoves

(* As long as nothing fails, a job that is still to write the row is not   *)
(* dropped: it is kept or loses its first step, and a write, a record or a *)
(* reopening is lost only by being done.                                   *)
LEMMA WritersKept ==
    ASSUME TypeOK, AllSound, AllRateSound, [Next]_vars, faults' = 0,
           NEW k \in Handlers, Left(job[k], "write")
    PROVE  \/ Kept(k)
           \/ /\ job'[k] = Advance(job[k])
              /\ AtStep(k, "write") => Write(k)
              /\ AtStep(k, "record") => \E ok \in BOOLEAN : Record(k, ok)
              /\ AtStep(k, "reopen") => \E ok \in BOOLEAN : Reopen(k, ok)
  <1> DEFINE Goal == \/ Kept(k)
                     \/ /\ job'[k] = Advance(job[k])
                        /\ AtStep(k, "write") => Write(k)
                        /\ AtStep(k, "record") => \E ok \in BOOLEAN : Record(k, ok)
                        /\ AtStep(k, "reopen") => \E ok \in BOOLEAN : Reopen(k, ok)
  <1> USE HandlersDiffer
  <1>0. job[k].todo # << >> /\ ~AtStep(k, "read")
    <2>1. job[k].todo # << >>
      BY DEF Left
    <2>2. Left(job[k], "read") => FALSE
      BY DEF AllRateSound, RateSound
    <2>3. job[k] \in JobType
      BY DEF TypeOK
    <2>4. QED BY <2>1, <2>2, <2>3, AdvanceLeft DEF AtStep
  <1>1. ASSUME NEW h \in Handlers, NEW s \in Steps \ {"read", "record", "write", "reopen"},
               AtStep(h, s), Step(h)
        PROVE  Goal
    <2>1. CASE h = k
      BY <1>1, <2>1 DEF Step, AtStep, TypeOK
    <2>2. CASE h # k
      BY <1>1, <2>2 DEF Step, Kept, TypeOK
    <2>3. QED BY <2>1, <2>2
  <1>2. ASSUME NEW h \in Handlers, NEW ok \in BOOLEAN,
               Post(h, ok) \/ Mirror(h, ok) \/ Seed(h)
        PROVE  Goal
    BY <1>1, <1>2 DEF Post, Mirror, Seed, Steps
  <1>3. ASSUME NEW h \in Handlers, NEW ok \in BOOLEAN,
               Write(h) \/ Record(h, ok) \/ Reopen(h, ok)
        PROVE  Goal
    <2>1. CASE h = k
      BY <1>3, <2>1 DEF Write, Record, Reopen, Step, AtStep, TypeOK
    <2>2. CASE h # k
      BY <1>3, <2>2 DEF Write, Record, Reopen, Step, Kept, TypeOK
    <2>3. QED BY <2>1, <2>2
  <1>4. ASSUME NEW h \in Handlers, NEW ok \in BOOLEAN, Resolve(h, ok) PROVE Goal
    <2>1. k # h
      <3>1. ReliesOnClosed(job[h])
        BY <1>4, AtResolve DEF Resolve
      <3>2. ~Left(job[h], "write")
        BY <3>1 DEF ReliesOnClosed, AllRateSound, RateSound
      <3>3. QED BY <3>2
    <2>2. [job EXCEPT ![h] = Advance(@)][k] = job[k]
      BY <2>1 DEF TypeOK
    <2>3. QED BY <1>0, <1>4, <2>2 DEF Resolve, Announce, Kept
  <1>5. ASSUME NEW g \in Graces, Process(g) PROVE Kept(k)
    BY <1>0, <1>5 DEF Process, Rest, Kept, TypeOK
  <1>6. ASSUME NEW r \in Replies, ReadForReply(r) PROVE Kept(k)
    BY <1>0, <1>6 DEF ReadForReply, Kept, TypeOK
  <1>7. ASSUME NEW e \in Resolutions, ReadForResolution(e) PROVE Kept(k)
    BY <1>0, <1>7 DEF ReadForResolution, Kept, TypeOK
  <1>8. ASSUME NEW r \in Replies, NEW answer, NEW reopened,
               CustomerWrites(r, answer, reopened)
        PROVE  Kept(k)
    BY <1>0, <1>8 DEF CustomerWrites, Rest, Kept, TypeOK
  <1>9. CASE AgentResolves
    BY <1>0, <1>9 DEF AgentResolves, Announce, Kept
  <1>10. ASSUME faults' = faults + 1 PROVE FALSE
    BY <1>10, ConstantsAssumption DEF TypeOK
  <1>11. ASSUME NEW h \in Handlers, DatabaseError(h) PROVE FALSE
    BY <1>10, <1>11 DEF DatabaseError
  <1>12. CASE Restart
    BY <1>10, <1>12 DEF Restart
  <1>13. ASSUME UNCHANGED job PROVE Kept(k)
    BY <1>13 DEF Kept
  <1>14. ASSUME NEW ok \in BOOLEAN, ListPending(ok) \/ ListOpen(ok) PROVE UNCHANGED job
    BY <1>14 DEF ListPending, ListOpen
  <1>15. CASE SweepEnds \/ AgentTakes \/ AgentLeaves \/ Opens \/ Tick \/ EntrySkipped
              \/ UNCHANGED vars
    BY <1>13, <1>15 DEF SweepEnds, AgentTakes, AgentLeaves, Opens, Tick, EntrySkipped, vars
  <1>16. QED
    BY <1>2, <1>3, <1>4, <1>5, <1>6, <1>7, <1>8, <1>9, <1>11, <1>12, <1>13, <1>14, <1>15
       DEF Next, HandlerStep, ScannerStep, Environment

(* Apart from writes and records, a step logs no rating, leaves the row or *)
(* seeds it, and faults are never taken back.                              *)
LEMMA RatingMoves ==
    ASSUME TypeOK, [Next]_vars
    PROVE  /\ \/ \E h \in Handlers : Write(h)
              \/ \E h \in Handlers, ok \in BOOLEAN : Record(h, ok)
              \/ hist'.rated = hist.rated /\ (RowStays \/ RowSeeded)
           /\ faults' = 0 => faults = 0
  <1> DEFINE Goal == /\ \/ \E h \in Handlers : Write(h)
                        \/ \E h \in Handlers, ok \in BOOLEAN : Record(h, ok)
                        \/ hist'.rated = hist.rated /\ (RowStays \/ RowSeeded)
                     /\ faults' = 0 => faults = 0
  <1>1. faults \in Nat
    BY ConstantsAssumption DEF TypeOK
  <1>2. ASSUME NEW ok \in BOOLEAN, Outcome(ok) PROVE faults' = 0 => faults = 0
    BY <1>1, <1>2 DEF Outcome
  <1>3. ASSUME NEW h \in Handlers, NEW ok \in BOOLEAN, Post(h, ok) PROVE Goal
    BY <1>2, <1>3 DEF Post, RowStays, TypeOK, HistType
  <1>4. ASSUME NEW h \in Handlers, Write(h) PROVE Goal
    BY <1>4 DEF Write
  <1>5. ASSUME NEW h \in Handlers, Seed(h) PROVE Goal
    BY <1>5 DEF Seed, RowStays, RowSeeded
  <1>6. ASSUME NEW h \in Handlers, NEW ok \in BOOLEAN, Record(h, ok) PROVE Goal
    BY <1>2, <1>6 DEF Record
  <1>7. CASE AgentResolves
    BY <1>7 DEF AgentResolves, RowStays, TypeOK, HistType
  <1>8. CASE Tick
    BY <1>8 DEF Tick, RowStays, TypeOK, HistType
  <1>9. ASSUME UNCHANGED row, HistoryKept, faults' = 0 => faults = 0 PROVE Goal
    BY <1>9 DEF RowStays, HistoryKept
  <1>10. ASSUME NEW h \in Handlers, NEW ok \in BOOLEAN,
                Mirror(h, ok) \/ Resolve(h, ok) \/ Reopen(h, ok)
         PROVE  Goal
    BY <1>2, <1>9, <1>10, QuietHistory DEF Mirror, Resolve, Reopen
  <1>11. ASSUME ScannerStep PROVE Goal
    BY <1>2, <1>9, <1>11, QuietHistory DEF ScannerStep, ListPending, ListOpen, Process, SweepEnds
  <1>12. ASSUME NEW r \in Replies, ReadForReply(r) PROVE Goal
    BY <1>9, <1>12, QuietHistory DEF ReadForReply
  <1>13. ASSUME NEW e \in Resolutions, ReadForResolution(e) PROVE Goal
    BY <1>9, <1>13, QuietHistory DEF ReadForResolution
  <1>14. ASSUME Environment, ~AgentResolves PROVE Goal
    BY <1>9, <1>14, QuietHistory DEF Environment, CustomerWrites, AgentTakes, AgentLeaves, Opens
  <1>15. ASSUME faults' = faults + 1 PROVE faults' = 0 => faults = 0
    BY <1>1, <1>15
  <1>16. ASSUME NEW h \in Handlers, DatabaseError(h) PROVE Goal
    BY <1>9, <1>15, <1>16, QuietHistory DEF DatabaseError
  <1>17. CASE Restart
    BY <1>9, <1>15, <1>17, QuietHistory DEF Restart
  <1>18. CASE EntrySkipped \/ UNCHANGED vars
    BY <1>9, <1>15, <1>18, QuietHistory DEF EntrySkipped, vars
  <1>19. QED
    BY <1>3, <1>4, <1>5, <1>6, <1>7, <1>8, <1>10, <1>11, <1>12, <1>13, <1>14, <1>16, <1>17, <1>18
       DEF Next, HandlerStep

(* A rating that is logged while the row is not yet written. *)
Logged(h) == Rating(h) /\ ~Left(job[h], "record")

(* RatedOnceAtRest is not inductive: the ratings in flight have to be      *)
(* counted too.  As long as the row is not CLOSED there are no ratings but *)
(* those in flight; the first to write closes the row, and the others can  *)
(* then only write by a lost update.                                       *)
NoneLogged  == \A h \in Handlers : ~Logged(h)
OnlyOneLogged == \A g, h \in Handlers : Logged(g) /\ Logged(h) => g = h
RatedInv ==
    faults = 0 /\ hist.clean =>
        /\ row.state # CLOSED /\ NoneLogged => hist.rated = 0
        /\ row.state # CLOSED /\ OnlyOneLogged => hist.rated <= 1
        /\ NoneLogged => hist.rated <= 1

(* A rating is in flight from its record to its write. *)
LEMMA LoggedMoves ==
    ASSUME TypeOK, AllSound, AllRateSound, [Next]_vars, faults' = 0,
           NEW k \in Handlers
    PROVE  /\ Logged(k)' => Logged(k) \/ \E ok \in BOOLEAN : Record(k, ok)
           /\ Logged(k) => Logged(k)' \/ Write(k)
  <1>0. job[k] \in JobType
    BY DEF TypeOK
  <1>1. ASSUME Logged(k)', ~Logged(k) PROVE \E ok \in BOOLEAN : Record(k, ok)
    <2>1. Left(job'[k], "write") /\ job'[k].msg = "thanks" /\ ~Left(job'[k], "record")
      BY <1>1 DEF Logged, Rating
    <2>2. ~Kept(k)
      BY <1>1 DEF Kept, Logged, Rating
    <2>3. ~Decided(k)
      BY <2>1, DecisionsRate, RateLeft DEF Decided
    <2>4. ~Hears(k)
      BY <2>1, IdleJobsLeft DEF Hears
    <2>5. Advanced(k)
      BY <2>2, <2>3, <2>4, JobMoves
    <2>6. Left(job[k], "write") /\ job[k].msg = "thanks"
      BY <1>0, <2>1, <2>5, AdvanceLeft DEF Advanced
    <2>7. Left(job[k], "record")
      BY <1>1, <2>6 DEF Logged, Rating
    <2>8. AtStep(k, "record")
      BY <1>0, <2>1, <2>5, <2>7, AdvanceLeft DEF Advanced, AtStep
    <2>9. QED BY <2>2, <2>6, <2>8, WritersKept
  <1>2. ASSUME Logged(k), ~Write(k) PROVE Logged(k)'
    <2>1. Left(job[k], "write") /\ job[k].msg = "thanks" /\ ~Left(job[k], "record")
      BY <1>2 DEF Logged, Rating
    <2>2. Kept(k) \/ (job'[k] = Advance(job[k]) /\ ~AtStep(k, "write"))
      BY <1>2, <2>1, WritersKept
    <2>3. CASE Kept(k)
      BY <1>2, <2>3 DEF Kept, Logged, Rating
    <2>4. CASE job'[k] = Advance(job[k]) /\ ~AtStep(k, "write")
      <3>1. job[k].todo # << >>
        BY <2>1 DEF Left
      <3>2. Left(job'[k], "write")
        BY <1>0, <2>1, <2>4, <3>1, AdvanceLeft DEF AtStep
      <3>3. job'[k].msg = "thanks" /\ ~Left(job'[k], "record")
        BY <1>0, <2>1, <2>4, <3>1, <3>2, AdvanceLeft
      <3>4. QED BY <3>2, <3>3 DEF Logged, Rating
    <2>5. QED BY <2>2, <2>3, <2>4
  <1>3. QED BY <1>1, <1>2

(* RatedInv is inductive. *)
LEMMA RatedStep ==
    TypeOK /\ AllSound /\ AllRateSound /\ RatedInv /\ [Next]_vars => RatedInv'
  <1> SUFFICES ASSUME TypeOK, AllSound, AllRateSound, RatedInv, [Next]_vars,
                      faults' = 0, hist'.clean
               PROVE  /\ row'.state # CLOSED /\ NoneLogged' => hist'.rated = 0
                      /\ row'.state # CLOSED /\ OnlyOneLogged' => hist'.rated <= 1
                      /\ NoneLogged' => hist'.rated <= 1
    BY DEF RatedInv
  <1>1. faults = 0 /\ hist.clean
    BY RatingMoves, RowMoves
  <1>2. /\ row.state # CLOSED /\ NoneLogged => hist.rated = 0
        /\ row.state # CLOSED /\ OnlyOneLogged => hist.rated <= 1
        /\ NoneLogged => hist.rated <= 1
    BY <1>1 DEF RatedInv
  <1>3. ASSUME NEW h \in Handlers, NEW ok \in BOOLEAN, Record(h, ok)
        PROVE  /\ row'.state # CLOSED /\ NoneLogged' => hist'.rated = 0
               /\ row'.state # CLOSED /\ OnlyOneLogged' => hist'.rated <= 1
               /\ NoneLogged' => hist'.rated <= 1
    <2>1. job[h] \in JobType /\ job[h].todo # << >> /\ Head(job[h].todo) = "record"
      BY <1>3 DEF Record, AtStep, TypeOK
    <2>2. job[h] = Rate
      BY <2>1, AdvanceLeft DEF AllRateSound, RateSound
    <2>3. job'[h] = Advance(Rate)
      BY <1>3, <2>2 DEF Record, Step, TypeOK
    <2>4. Logged(h)' /\ ~Logged(h)
      BY <2>2, <2>3, RateLeft DEF Logged, Rating
    <2>5. ASSUME NEW k \in Handlers, Logged(k) PROVE Logged(k)'
      <3>1. k # h
        BY <2>4, <2>5
      <3>2. job'[k] = job[k]
        BY <1>3, <3>1 DEF Record, Step, TypeOK
      <3>3. QED BY <2>5, <3>2 DEF Logged, Rating
    <2>6. ~NoneLogged'
      BY <2>4 DEF NoneLogged
    <2>7. OnlyOneLogged' => NoneLogged
      BY <2>4, <2>5 DEF OnlyOneLogged, NoneLogged
    <2>8. row' = row /\ hist'.rated \in {hist.rated, hist.rated + 1}
      BY <1>3 DEF Record, TypeOK
    <2>9. QED BY <1>2, <2>6, <2>7, <2>8
  <1>4. ASSUME NEW h \in Handlers, Write(h)
        PROVE  /\ row'.state # CLOSED /\ NoneLogged' => hist'.rated = 0
               /\ row'.state # CLOSED /\ OnlyOneLogged' => hist'.rated <= 1
               /\ NoneLogged' => hist'.rated <= 1
    <2>1. job[h] \in JobType /\ job[h].todo # << >> /\ Head(job[h].todo) = "write"
      BY <1>4 DEF Write, AtStep, TypeOK
    <2>2. Left(job[h], "write")
      BY <2>1, AdvanceLeft
    <2>3. row.state # CLOSED
      <3>1. job[h].seen # CLOSED
        BY <2>2 DEF AllSound, Sound
      <3>2. row.state = job[h].seen
        BY <1>4 DEF Write, TypeOK, HistType
      <3>3. QED BY <3>1, <3>2
    <2>4. row'.state = job[h].to /\ hist'.rated = hist.rated
      BY <1>4 DEF Write, TypeOK, HistType
    <2>5. \A k \in Handlers : Logged(k) /\ k # h => Logged(k)'
      BY <1>4, LoggedMoves DEF Write, Step, TypeOK, Logged, Rating
    <2>6. CASE job[h].to = CLOSED
      <3>1. NoneLogged' => OnlyOneLogged
        BY <2>5 DEF NoneLogged, OnlyOneLogged
      <3>2. QED BY <1>2, <2>3, <2>4, <2>6, <3>1
    <2>7. CASE job[h].to # CLOSED
      <3>1. ~Logged(h)
        BY <2>7 DEF Logged, Rating, AllRateSound, RateSound
      <3>2. \A k \in Handlers : Logged(k) => Logged(k)'
        BY <2>5, <3>1
      <3>3. (NoneLogged' => NoneLogged) /\ (OnlyOneLogged' => OnlyOneLogged)
        BY <3>2 DEF NoneLogged, OnlyOneLogged
      <3>4. QED BY <1>2, <2>3, <2>4, <3>3
    <2>8. QED BY <2>6, <2>7
  <1>5. ASSUME ~\E h \in Handlers : Write(h),
               ~\E h \in Handlers, ok \in BOOLEAN : Record(h, ok)
        PROVE  /\ row'.state # CLOSED /\ NoneLogged' => hist'.rated = 0
               /\ row'.state # CLOSED /\ OnlyOneLogged' => hist'.rated <= 1
               /\ NoneLogged' => hist'.rated <= 1
    <2>1. \A k \in Handlers : Logged(k) => Logged(k)'
      BY <1>5, LoggedMoves
    <2>2. (NoneLogged' => NoneLogged) /\ (OnlyOneLogged' => OnlyOneLogged)
      BY <2>1 DEF NoneLogged, OnlyOneLogged
    <2>3. hist'.rated = hist.rated /\ (row'.state # CLOSED => row.state # CLOSED)
      BY <1>5, RatingMoves DEF RowStays, RowSeeded, CLOSED
    <2>4. QED BY <1>2, <2>2, <2>3
  <1>6. QED BY <1>3, <1>4, <1>5
-----------------------------------------------------------------------------
(* PromiseKeptAtRest. *)

(* What the job that hands over looks like: it reopens before it writes,   *)
(* posts first of all, closes the row and never resolves.                  *)
AssignSound(j) ==
    /\ Left(j, "reopen") => j \in {AssignAgent, Advance(AssignAgent)}
    /\ j.msg = "assign_agent" /\ Left(j, "post") => j = AssignAgent
    /\ j.msg = "assign_agent" => j.to = CLOSED /\ ~Left(j, "resolve")

AllAssignSound == \A h \in Handlers : AssignSound(job[h])

(* The job that hands over, before and after its first two steps. *)
LEMMA AssignLeft ==
    /\ AssignAgent.msg = "assign_agent" /\ Head(AssignAgent.todo) = "post"
    /\ ~Left(Advance(AssignAgent), "post")
    /\ Left(Advance(AssignAgent), "reopen") /\ Left(Advance(AssignAgent), "write")
    /\ Advance(AssignAgent).msg = "assign_agent" /\ Head(Advance(AssignAgent).todo) = "reopen"
    /\ HandsOver(Advance(Advance(AssignAgent)))
    /\ ~Left(Advance(Advance(AssignAgent)), "reopen")
  <1> DEFINE next == Job(<<"reopen", "write", "mirror">>,
                         AWAITING_RESOLUTION, CLOSED, "assign_agent")
  <1>1. Advance(AssignAgent) = next
    BY DEF Advance, AssignAgent, Job
  <1>2. Advance(next) = Job(<<"write", "mirror">>,
                            AWAITING_RESOLUTION, CLOSED, "assign_agent")
    BY DEF Advance, Job
  <1>3. HandsOver(Advance(next)) /\ ~Left(Advance(next), "reopen")
    BY <1>2 DEF HandsOver, Left, Job
  <1>4. /\ ~Left(next, "post") /\ Left(next, "reopen") /\ Left(next, "write")
        /\ next.msg = "assign_agent" /\ Head(next.todo) = "reopen"
    BY DEF Left, Job
  <1>5. AssignAgent.msg = "assign_agent" /\ Head(AssignAgent.todo) = "post"
    BY DEF AssignAgent, Job
  <1> HIDE DEF next
  <1>6. QED BY <1>1, <1>3, <1>4, <1>5

(* Every decision is sound about the hand-over. *)
LEMMA DecisionsAssign == ASSUME NEW j \in Decisions PROVE AssignSound(j)
  <1> USE DEF Left, Job, CLOSED
  <1>1. CASE j \in {NoJob, Greet, Track, SeedOnly}
    BY <1>1 DEF AssignSound, NoJob, Greet, Track, SeedOnly
  <1>2. CASE j = SeedAndWarn
    BY <1>2 DEF AssignSound, SeedAndWarn
  <1>3. CASE j \in {Warn, PromptClose, SurveyAi}
    BY <1>3 DEF AssignSound, Warn, PromptClose, SurveyAi
  <1>4. CASE j = Reactivate
    BY <1>4 DEF AssignSound, Reactivate
  <1>5. CASE j = AssignAgent
    <2>1. j.to = CLOSED /\ ~Left(j, "resolve")
      BY <1>5 DEF AssignAgent
    <2>2. QED BY <1>5, <2>1 DEF AssignSound
  <1>6. CASE j = Rate
    BY <1>6 DEF AssignSound, Rate
  <1>7. CASE \E s \in Undecided : j = CloseSilently(s)
    BY <1>7 DEF AssignSound, CloseSilently
  <1>8. CASE \E s \in Undecided : j = SurveyAgent(s)
    BY <1>8 DEF AssignSound, SurveyAgent
  <1>9. QED BY <1>1, <1>2, <1>3, <1>4, <1>5, <1>6, <1>7, <1>8, Zenon DEF Decisions

(* Soundness about the hand-over is inductive. *)
LEMMA AssignSoundStep == TypeOK /\ AllAssignSound /\ [Next]_vars => AllAssignSound'
  <1> SUFFICES ASSUME TypeOK, AllAssignSound, [Next]_vars, NEW k \in Handlers
               PROVE  AssignSound(job'[k])
    BY DEF AllAssignSound
  <1>1. CASE Kept(k)
    BY <1>1 DEF Kept, AllAssignSound
  <1>2. CASE Advanced(k)
    <2>1. job[k] \in JobType /\ job[k].todo # << >> /\ job'[k] = Advance(job[k])
      BY <1>2 DEF Advanced, TypeOK
    <2>2. AssignSound(job[k])
      BY DEF AllAssignSound
    <2>3. Left(job'[k], "reopen") => job'[k] = Advance(AssignAgent)
      BY <2>1, <2>2, AdvanceLeft, AssignLeft DEF AssignSound
    <2>4. ~(job'[k].msg = "assign_agent" /\ Left(job'[k], "post"))
      <3>1. job'[k].msg = "assign_agent" /\ Left(job'[k], "post") => job[k] = AssignAgent
        BY <2>1, <2>2, AdvanceLeft DEF AssignSound
      <3>2. QED BY <2>1, <3>1, AssignLeft
    <2>5. job'[k].msg = "assign_agent" => job'[k].to = CLOSED /\ ~Left(job'[k], "resolve")
      <3>1. job'[k].msg = "assign_agent" => job[k].msg = "assign_agent" /\ job'[k].to = job[k].to
        BY <2>1 DEF Advance, NoJob, Job, JobType
      <3>2. QED BY <2>1, <2>2, <3>1, AdvanceLeft DEF AssignSound
    <2>6. QED BY <2>3, <2>4, <2>5 DEF AssignSound
  <1>3. CASE Decided(k)
    BY <1>3, DecisionsAssign DEF Decided
  <1>4. CASE Hears(k)
    <2>1. PICK m \in Heard : job'[k] = Received(m)
      BY <1>4 DEF Hears
    <2>2. job'[k].msg # "assign_agent"
      BY <2>1 DEF Received, Job, Heard
    <2>3. QED BY <2>1, <2>2, IdleJobsLeft DEF AssignSound
  <1>5. QED BY <1>1, <1>2, <1>3, <1>4, JobMoves

(* PromiseKeptAtRest is not inductive.  A promise is still being made by a *)
(* handler that has yet to reopen the conversation, or the conversation is *)
(* not resolved and nobody is left who would write another state or        *)
(* resolve: the row is CLOSED, or is about to be.                          *)
StillPromising == \E h \in Handlers : Assigning(h) /\ Left(job[h], "reopen")
PromiseSafe ==
    /\ conv.status # "resolved"
    /\ \A k \in Handlers : ~Engaged(job[k])
    /\ row.state = CLOSED \/ \E h \in Handlers : HandsOver(job[h])
PromiseInv ==
    faults = 0 /\ ~hist.overlap /\ hist.promised => StillPromising \/ PromiseSafe

(* A hand-over goes on until its write, its reopening until it is done.    *)
LEMMA AssigningMoves ==
    ASSUME TypeOK, AllSound, AllRateSound, AllAssignSound, [Next]_vars, faults' = 0,
           NEW k \in Handlers, Assigning(k), ~Write(k)
    PROVE  /\ Assigning(k)'
           /\ Left(job[k], "reopen")
                 => Left(job'[k], "reopen") \/ \E ok \in BOOLEAN : Reopen(k, ok)
  <1>0. job[k] \in JobType /\ job[k].todo # << >>
    BY DEF TypeOK, Assigning, Left
  <1>1. Left(job[k], "write") /\ job[k].msg = "assign_agent"
    BY DEF Assigning
  <1>2. CASE Kept(k)
    BY <1>2 DEF Kept, Assigning
  <1>3. CASE ~Kept(k)
    <2>1. /\ job'[k] = Advance(job[k]) /\ ~AtStep(k, "write")
          /\ AtStep(k, "reopen") => \E ok \in BOOLEAN : Reopen(k, ok)
      BY <1>1, <1>3, WritersKept
    <2>2. Left(job'[k], "write")
      BY <1>0, <1>1, <2>1, AdvanceLeft DEF AtStep
    <2>3. job'[k].msg = "assign_agent"
      BY <1>0, <1>1, <2>1, <2>2, AdvanceLeft
    <2>4. Left(job[k], "reopen") => Left(job'[k], "reopen") \/ AtStep(k, "reopen")
      BY <1>0, <2>1, AdvanceLeft DEF AtStep
    <2>5. QED BY <2>1, <2>2, <2>3, <2>4 DEF Assigning
  <1>4. QED BY <1>2, <1>3

(* What a step does to the promise and the status.                         *)
PromiseMade(h) == AtStep(h, "post") /\ job[h].msg = "assign_agent" /\ job'[h] = Advance(job[h])
LEMMA PromiseMoves ==
    ASSUME TypeOK, [Next]_vars, hist'.promised, faults' = 0
    PROVE  /\ hist.promised \/ \E h \in Handlers : PromiseMade(h)
           /\ \/ conv'.status = "resolved" => conv.status = "resolved"
              \/ \E h \in Handlers : AtStep(h, "resolve")
           /\ conv'.status = "resolved" => ~\E h \in Handlers, ok \in BOOLEAN : Reopen(h, ok)
  <1> DEFINE Goal ==
        /\ hist.promised \/ \E h \in Handlers : PromiseMade(h)
        /\ \/ conv'.status = "resolved" => conv.status = "resolved"
           \/ \E h \in Handlers : AtStep(h, "resolve")
  <1>1. ASSUME NEW h \in Handlers, NEW ok \in BOOLEAN, Reopen(h, ok)
        PROVE  conv'.status # "resolved"
    <2>1. faults' = 0 => ok
      BY <1>1, ConstantsAssumption DEF Reopen, Outcome, TypeOK
    <2>2. QED BY <1>1, <2>1 DEF Reopen, TypeOK
  <1>2. ASSUME NEW h \in Handlers, NEW ok \in BOOLEAN, Post(h, ok) PROVE Goal
    <2>1. conv'.status = conv.status
      BY <1>2 DEF Post, TypeOK
    <2>2. hist.promised \/ job[h].msg = "assign_agent"
      BY <1>2 DEF Post, TypeOK, HistType
    <2>3. AtStep(h, "post") /\ job'[h] = Advance(job[h])
      BY <1>2 DEF Post, Step, TypeOK
    <2>4. QED BY <2>1, <2>2, <2>3 DEF PromiseMade
  <1>3. ASSUME NEW h \in Handlers, Write(h) PROVE Goal
    BY <1>3 DEF Write, TypeOK, HistType
  <1>4. ASSUME NEW h \in Handlers, NEW ok \in BOOLEAN, Record(h, ok) PROVE Goal
    BY <1>4 DEF Record, TypeOK, HistType
  <1>5. ASSUME AgentResolves PROVE Goal
    <2>1. hist'.promised = FALSE
      BY <1>5 DEF AgentResolves, TypeOK, HistType
    <2>2. QED BY <2>1
  <1>6. ASSUME Tick PROVE Goal
    BY <1>6 DEF Tick, TypeOK, HistType
  <1>7. ASSUME HistoryKept,
               \/ conv'.status = "resolved" => conv.status = "resolved"
               \/ \E h \in Handlers : AtStep(h, "resolve")
        PROVE  Goal
    BY <1>7 DEF HistoryKept
  <1>8. ASSUME NEW h \in Handlers, NEW ok \in BOOLEAN,
               Mirror(h, ok) \/ Resolve(h, ok) \/ Seed(h)
        PROVE  Goal
    BY <1>7, <1>8, QuietHistory DEF Mirror, Resolve, Seed
  <1>9. ASSUME NEW h \in Handlers, NEW ok \in BOOLEAN, Reopen(h, ok) PROVE Goal
    BY <1>1, <1>7, <1>9, QuietHistory
  <1>10. ASSUME NEW g \in Graces, Process(g) PROVE Goal
    <2>1. HistoryKept
      BY <1>10, QuietHistory
    <2>2. conv' = conv
      BY <1>10 DEF Process
    <2>3. QED BY <1>7, <2>1, <2>2
  <1>11. ASSUME ScannerStep, ~\E g \in Graces : Process(g) PROVE Goal
    BY <1>7, <1>11, QuietHistory DEF ScannerStep, ListPending, ListOpen, SweepEnds
  <1>12. ASSUME NEW k \in Handlers, ReadForReply(k) \/ ReadForResolution(k) PROVE Goal
    <2>1. HistoryKept
      BY <1>12, QuietHistory
    <2>2. conv' = conv
      BY <1>12 DEF ReadForReply, ReadForResolution
    <2>3. QED BY <1>7, <2>1, <2>2
  <1>13. ASSUME NEW r \in Replies, NEW answer \in {"yes", "other"},
                NEW reopened \in {"pending", "open"}, CustomerWrites(r, answer, reopened)
         PROVE  Goal
    <2>1. conv'.status # "resolved" /\ UNCHANGED hist
      BY <1>13 DEF CustomerWrites, TypeOK
    <2>2. QED BY <1>7, <2>1, QuietHistory
  <1>14. ASSUME AgentTakes \/ AgentLeaves \/ Opens PROVE Goal
    <2>1. conv'.status = "open" \/ conv'.status = conv.status
      BY <1>14 DEF AgentTakes, AgentLeaves, Opens, TypeOK
    <2>2. UNCHANGED hist
      BY <1>14 DEF AgentTakes, AgentLeaves, Opens
    <2>3. QED BY <1>7, <2>1, <2>2, QuietHistory
  <1>15. ASSUME NEW h \in Handlers, DatabaseError(h) PROVE Goal
    <2>1. HistoryKept
      BY <1>15, QuietHistory
    <2>2. conv' = conv
      BY <1>15 DEF DatabaseError
    <2>3. QED BY <1>7, <2>1, <2>2
  <1>16. ASSUME Restart PROVE Goal
    <2>1. HistoryKept
      BY <1>16, QuietHistory
    <2>2. conv' = conv
      BY <1>16 DEF Restart
    <2>3. QED BY <1>7, <2>1, <2>2
  <1>17. ASSUME EntrySkipped \/ UNCHANGED vars PROVE Goal
    BY <1>7, <1>17, QuietHistory DEF EntrySkipped, vars
  <1>18. Goal
    BY <1>2, <1>3, <1>4, <1>5, <1>6, <1>8, <1>9, <1>10, <1>11, <1>12, <1>13, <1>14, <1>15,
       <1>16, <1>17, HandlersDiffer
       DEF Next, HandlerStep, Environment, ScannerStep
  <1>19. QED BY <1>1, <1>18

(* A handler gets a write or a resolution in hand by a decision only, and  *)
(* every decision marks the overlap it makes.                              *)
LEMMA EngagedMoves ==
    ASSUME TypeOK, [Next]_vars, NEW k \in Handlers, Engaged(job'[k]), ~Engaged(job[k])
    PROVE  MarkOverlap /\ row.state # CLOSED
  <1>1. ~Kept(k)
    BY DEF Kept
  <1>2. ~Advanced(k)
    <2> SUFFICES ASSUME Advanced(k) PROVE FALSE
      OBVIOUS
    <2>1. job[k] \in JobType /\ job[k].todo # << >> /\ job'[k] = Advance(job[k])
      BY DEF Advanced, TypeOK
    <2>2. QED BY <2>1, AdvanceLeft DEF Engaged
  <1>3. ~Hears(k)
    BY IdleJobsLeft DEF Hears, Engaged
  <1>4. job'[k] # NoJob
    BY IdleJobsLeft DEF Engaged
  <1>5. QED BY <1>1, <1>2, <1>3, <1>4, JobMoves DEF Decided

(* A hand-over about to write the row stays so until it writes CLOSED.     *)
LEMMA HandsOverMoves ==
    ASSUME TypeOK, AllSound, AllRateSound, AllAssignSound, [Next]_vars, faults' = 0,
           NEW h \in Handlers, HandsOver(job[h])
    PROVE  \/ HandsOver(job'[h]) /\ ~Write(h)
           \/ Write(h) /\ row'.state = CLOSED
  <1>1. job[h] \in JobType /\ job[h].todo # << >> /\ AtStep(h, "write")
    BY DEF TypeOK, HandsOver, AtStep
  <1>2. Left(job[h], "write")
    BY <1>1, AdvanceLeft DEF AtStep
  <1>3. Kept(h) \/ Write(h)
    BY <1>1, <1>2, WritersKept
  <1>4. Write(h) => row'.state = CLOSED
    BY DEF Write, TypeOK, AllAssignSound, AssignSound, HandsOver
  <1>5. QED BY <1>3, <1>4 DEF Kept

(* PromiseInv is inductive. *)
LEMMA PromiseStep ==
    TypeOK /\ AllSound /\ AllRateSound /\ AllAssignSound /\ PromiseInv /\ [Next]_vars
       => PromiseInv'
  <1> SUFFICES ASSUME TypeOK, AllSound, AllRateSound, AllAssignSound, PromiseInv, [Next]_vars,
                      faults' = 0, ~hist'.overlap, hist'.promised
               PROVE  StillPromising' \/ PromiseSafe'
    BY DEF PromiseInv
  <1>1. faults = 0 /\ ~hist.overlap
    BY RatingMoves, RowMoves
  <1>2. MarkOverlap => ~Overlap(job')
    BY DEF MarkOverlap, TypeOK, HistType
  <1>3. CASE \E h \in Handlers : PromiseMade(h)
    <2>1. PICK h \in Handlers : PromiseMade(h)
      BY <1>3
    <2>2. job[h] \in JobType /\ job[h].todo # << >> /\ Head(job[h].todo) = "post"
      BY <2>1 DEF PromiseMade, AtStep, TypeOK
    <2>3. job[h] = AssignAgent
      BY <2>1, <2>2, AdvanceLeft DEF PromiseMade, AllAssignSound, AssignSound
    <2>4. Assigning(h)' /\ Left(job'[h], "reopen")
      BY <2>1, <2>3, AssignLeft DEF PromiseMade, Assigning
    <2>5. QED BY <2>4 DEF StillPromising
  <1>4. CASE StillPromising
    <2>1. PICK h \in Handlers : Assigning(h) /\ Left(job[h], "reopen")
      BY <1>4 DEF StillPromising
    <2>2. Head(job[h].todo) \in {"post", "reopen"}
      BY <2>1, AssignLeft DEF AllAssignSound, AssignSound
    <2>3. ~Write(h)
      BY <2>2 DEF Write, AtStep
    <2>4. /\ Assigning(h)'
          /\ Left(job'[h], "reopen") \/ \E ok \in BOOLEAN : Reopen(h, ok)
      BY <2>1, <2>3, AssigningMoves
    <2>5. ASSUME NEW ok \in BOOLEAN, Reopen(h, ok) PROVE PromiseSafe'
      <3>1. conv'.status # "resolved"
        BY <2>5, PromiseMoves
      <3>2. Head(job[h].todo) = "reopen" /\ job'[h] = Advance(job[h]) /\ MarkOverlap
        BY <2>5 DEF Reopen, AtStep, Step, TypeOK
      <3>3. job[h] = Advance(AssignAgent)
        BY <2>1, <3>2, AssignLeft DEF AllAssignSound, AssignSound
      <3>4. HandsOver(job'[h])
        BY <3>2, <3>3, AssignLeft
      <3>5. \A k \in Handlers : ~Engaged(job'[k])
        BY <1>2, <3>2, <3>4 DEF Overlap
      <3>6. QED BY <3>1, <3>4, <3>5 DEF PromiseSafe
    <2>6. QED BY <2>4, <2>5 DEF StillPromising, Assigning
  <1>5. CASE PromiseSafe
    <2>1. ASSUME NEW h \in Handlers, AtStep(h, "resolve") PROVE FALSE
      <3>1. Left(job[h], "resolve")
        BY <2>1, AdvanceLeft DEF AtStep, TypeOK
      <3>2. QED BY <1>5, <3>1 DEF PromiseSafe, Engaged, AllAssignSound, AssignSound
    <2>2. conv'.status # "resolved"
      BY <1>5, <2>1, PromiseMoves DEF PromiseSafe
    <2>3. ASSUME NEW h \in Handlers, Write(h) PROVE row'.state = CLOSED
      <3>1. Left(job[h], "write") /\ row'.state = job[h].to
        BY <2>3, AdvanceLeft DEF Write, AtStep, TypeOK
      <3>2. job[h].msg = "assign_agent"
        BY <1>5, <3>1 DEF PromiseSafe, Engaged
      <3>3. QED BY <3>1, <3>2 DEF AllAssignSound, AssignSound
    <2>4. row'.state = CLOSED \/ \E h \in Handlers : HandsOver(job'[h])
      <3>1. CASE row.state = CLOSED
        BY <2>3, <3>1, RatingMoves, RowMoves DEF RowStays, RowSeeded, RowWritten, CLOSED, Record
      <3>2. CASE \E h \in Handlers : HandsOver(job[h])
        BY <3>2, HandsOverMoves
      <3>3. QED BY <1>5, <3>1, <3>2 DEF PromiseSafe
    <2>5. ASSUME NEW k \in Handlers, Engaged(job'[k]) PROVE FALSE
      <3>1. MarkOverlap /\ row.state # CLOSED
        BY <1>5, <2>5, EngagedMoves DEF PromiseSafe
      <3>2. PICK h \in Handlers : HandsOver(job[h])
        BY <1>5, <3>1 DEF PromiseSafe
      <3>3. HandsOver(job'[h])
        <4>1. Write(h) => job'[k] = job[k] \/ k = h
          BY DEF Write, Step, TypeOK
        <4>2. Write(h) /\ k = h => ~Engaged(job'[k])
          <5>1. job'[h] = Advance(job[h]) => ~Engaged(job'[h])
            BY <3>2, AdvanceLeft DEF Engaged, HandsOver, TypeOK
          <5>2. QED BY <5>1 DEF Write, Step, TypeOK
        <4>3. ~Write(h)
          BY <1>5, <2>5, <4>1, <4>2 DEF PromiseSafe
        <4>4. QED BY <3>2, <4>3, HandsOverMoves
      <3>4. QED BY <1>2, <2>5, <3>1, <3>3 DEF Overlap
    <2>6. QED BY <2>2, <2>4, <2>5 DEF PromiseSafe
  <1>6. QED BY <1>1, <1>3, <1>4, <1>5, PromiseMoves DEF PromiseInv

-----------------------------------------------------------------------------
(* AskedOncePerSilence. *)

(* What the scanner may still have to do: put one of its questions, write  *)
(* the row that waits for the answer, or nothing that asks.                *)
WarnWrite   == Job(<<"write", "mirror">>, ACTIVE, IDLE_WARNED, "idle_warning")
PromptWrite == Job(<<"write", "mirror">>, IDLE_WARNED, AWAITING_RESOLUTION, "resolution_prompt")
AsksNothing(j) == ~Left(j, "post") /\ (Left(j, "write") => j.to = CLOSED)
AskingJobs     == {SeedAndWarn, Warn, PromptClose, WarnWrite, PromptWrite}
ScannerKnown   == job[Scanner] \in AskingJobs \/ AsksNothing(job[Scanner])

(* No other handler writes a row that is absent or waits for the warning.  *)
OthersWrite ==
    \A h \in Handlers \ {Scanner} :
       Left(job[h], "write") => job[h].to \notin {"none", IDLE_WARNED}

(* A question put in this silence has moved the row on, or the scanner is  *)
(* about to write the row; a question it is about to put has not been put. *)
AskedRow ==
    /\ "idle_warning" \in hist.asked =>
          row.state \notin {"none", ACTIVE} \/ job[Scanner] = WarnWrite
    /\ "resolution_prompt" \in hist.asked =>
          row.state \notin {"none", ACTIVE, IDLE_WARNED} \/ job[Scanner] = PromptWrite
    /\ job[Scanner] \in {SeedAndWarn, Warn} => "idle_warning" \notin hist.asked
    /\ job[Scanner] \in {SeedAndWarn, Warn, WarnWrite, PromptClose}
          => "resolution_prompt" \notin hist.asked

AskedOnceInv == ScannerKnown /\ OthersWrite /\ AskedRow

(* The jobs that ask, their messages and first steps, and what is left of  *)
(* them after one step.                                                    *)
LEMMA AskingJobsFacts ==
    /\ Head(SeedAndWarn.todo) = "seed" /\ Advance(SeedAndWarn) = Warn
    /\ Head(Warn.todo) = "post" /\ Advance(Warn) = WarnWrite /\ Warn.msg = "idle_warning"
    /\ Head(PromptClose.todo) = "post" /\ Advance(PromptClose) = PromptWrite
    /\ PromptClose.msg = "resolution_prompt"
    /\ \A j \in {WarnWrite, PromptWrite} :
          Head(j.todo) = "write" /\ AsksNothing(Advance(j))
    /\ WarnWrite.msg = "idle_warning" /\ PromptWrite.msg = "resolution_prompt"
    /\ WarnWrite.to = IDLE_WARNED /\ PromptWrite.to = AWAITING_RESOLUTION
    /\ \A j \in AskingJobs : j.todo # << >> /\ ~AsksNothing(j)
    /\ SeedAndWarn # Warn /\ SeedAndWarn # PromptClose /\ SeedAndWarn # PromptWrite
    /\ Warn # PromptClose /\ Warn # WarnWrite /\ Warn # PromptWrite
    /\ PromptClose # WarnWrite /\ PromptClose # PromptWrite /\ WarnWrite # PromptWrite
    /\ SeedAndWarn # WarnWrite
  <1>1. /\ Advance(SeedAndWarn) = Warn /\ Advance(Warn) = WarnWrite
        /\ Advance(PromptClose) = PromptWrite
    BY DEF Advance, SeedAndWarn, Warn, WarnWrite, PromptClose, PromptWrite, Job
  <1>2. /\ Head(SeedAndWarn.todo) = "seed" /\ Head(Warn.todo) = "post"
        /\ Head(PromptClose.todo) = "post"
        /\ Head(WarnWrite.todo) = "write" /\ Head(PromptWrite.todo) = "write"
    BY DEF SeedAndWarn, Warn, WarnWrite, PromptClose, PromptWrite, Job
  <1>3. /\ SeedAndWarn.msg = "idle_warning" /\ Warn.msg = "idle_warning"
        /\ WarnWrite.msg = "idle_warning" /\ WarnWrite.to = IDLE_WARNED
        /\ PromptClose.msg = "resolution_prompt" /\ PromptWrite.msg = "resolution_prompt"
        /\ PromptWrite.to = AWAITING_RESOLUTION
    BY DEF SeedAndWarn, Warn, WarnWrite, PromptClose, PromptWrite, Job
  <1>4. \A j \in {WarnWrite, PromptWrite} : AsksNothing(Advance(j))
    <2>1. Advance(WarnWrite).todo = <<"mirror">>
      BY DEF WarnWrite, Advance, Job
    <2>2. Advance(PromptWrite).todo = <<"mirror">>
      BY DEF PromptWrite, Advance, Job
    <2>3. ASSUME NEW j, j.todo = <<"mirror">> PROVE AsksNothing(j)
      BY <2>3 DEF AsksNothing, Left
    <2>4. QED BY <2>1, <2>2, <2>3
  <1>5. \A j \in AskingJobs : j.todo # << >> /\ ~AsksNothing(j)
    <2>1. \A j \in {SeedAndWarn, Warn, PromptClose} : Left(j, "post") /\ j.todo # << >>
      <3>1. Left(SeedAndWarn, "post") /\ SeedAndWarn.todo # << >>
        BY DEF SeedAndWarn, Job, Left
      <3>2. Left(Warn, "post") /\ Warn.todo # << >>
        BY DEF Warn, Job, Left
      <3>3. Left(PromptClose, "post") /\ PromptClose.todo # << >>
        BY DEF PromptClose, Job, Left
      <3>4. QED BY <3>1, <3>2, <3>3
    <2>2. \A j \in {WarnWrite, PromptWrite} :
             Left(j, "write") /\ j.todo # << >> /\ j.to # CLOSED
      BY DEF WarnWrite, PromptWrite, Job, Left, CLOSED, IDLE_WARNED, AWAITING_RESOLUTION
    <2>3. QED BY <2>1, <2>2 DEF AskingJobs, AsksNothing
  <1>6. QED BY <1>1, <1>2, <1>3, <1>4, <1>5

(* A handler other than the scanner is never given a job that warns or     *)
(* prompts, and the remaining decisions write neither of the two states.   *)
LEMMA DecisionsWrite ==
    ASSUME NEW j \in Decisions, j \notin {SeedAndWarn, Warn, PromptClose}, Left(j, "write")
    PROVE  j.to \notin {"none", IDLE_WARNED}
  BY DEF Decisions, NoJob, Greet, Track, SeedOnly, Reactivate, AssignAgent, SurveyAi, Rate,
         CloseSilently, SurveyAgent, Job, Left, ACTIVE, IDLE_WARNED, AWAITING_SURVEY, CLOSED

(* What the scanner decides asks, or asks nothing.                         *)
LEMMA ScannerDecisionsKnown ==
    ASSUME NEW j \in ScannerDecisions
    PROVE  j \in {SeedAndWarn, Warn, PromptClose} \/ AsksNothing(j)
  BY DEF ScannerDecisions, NoJob, SeedOnly, CloseSilently, Job, Left, AsksNothing

(* A job that asks nothing keeps asking nothing.                           *)
LEMMA AsksNothingStep ==
    ASSUME NEW j \in JobType, j.todo # << >>, AsksNothing(j)
    PROVE  AsksNothing(Advance(j))
  BY AdvanceLeft DEF AsksNothing

(* What others write stays known.                                          *)
LEMMA OthersWriteStep == TypeOK /\ OthersWrite /\ [Next]_vars => OthersWrite'
  <1> SUFFICES ASSUME TypeOK, OthersWrite, [Next]_vars, NEW k \in Handlers \ {Scanner},
                      Left(job'[k], "write")
               PROVE  job'[k].to \notin {"none", IDLE_WARNED}
    BY DEF OthersWrite
  <1>1. CASE Kept(k)
    BY <1>1 DEF Kept, OthersWrite
  <1>2. CASE Advanced(k)
    <2>1. job[k] \in JobType /\ job[k].todo # << >> /\ job'[k] = Advance(job[k])
      BY <1>2 DEF Advanced, TypeOK
    <2>2. QED BY <2>1, AdvanceLeft DEF OthersWrite
  <1>3. CASE Decided(k)
    BY <1>3, DecisionsWrite DEF Decided
  <1>4. CASE Hears(k)
    BY <1>4, IdleJobsLeft DEF Hears
  <1>5. QED BY <1>1, <1>2, <1>3, <1>4, JobMoves

(* Apart from writes and the scanner's posts, a step asks nothing, and     *)
(* leaves the row or seeds it.                                             *)
LEMMA AskedMoves ==
    ASSUME TypeOK, [Next]_vars,
           ~\E h \in Handlers : Write(h), ~\E ok \in BOOLEAN : Post(Scanner, ok)
    PROVE  hist'.asked \subseteq hist.asked /\ (RowStays \/ RowSeeded)
  <1> DEFINE Goal == hist'.asked \subseteq hist.asked /\ (RowStays \/ RowSeeded)
  <1>1. ASSUME NEW h \in Handlers, NEW ok \in BOOLEAN, Post(h, ok) PROVE Goal
    <2>1. h # Scanner
      BY <1>1
    <2>2. QED BY <1>1, <2>1 DEF Post, RowStays, TypeOK, HistType
  <1>2. ASSUME NEW h \in Handlers, Seed(h) PROVE Goal
    BY <1>2 DEF Seed, RowStays, RowSeeded
  <1>3. ASSUME NEW h \in Handlers, NEW ok \in BOOLEAN, Record(h, ok) PROVE Goal
    BY <1>3 DEF Record, RowStays, TypeOK, HistType
  <1>4. ASSUME AgentResolves PROVE Goal
    BY <1>4 DEF AgentResolves, RowStays, TypeOK, HistType
  <1>5. ASSUME Tick PROVE Goal
    BY <1>5 DEF Tick, RowStays, TypeOK, HistType
  <1>6. ASSUME UNCHANGED row, HistoryKept PROVE Goal
    BY <1>6 DEF RowStays, HistoryKept
  <1>7. ASSUME NEW h \in Handlers, NEW ok \in BOOLEAN, Mirror(h, ok) \/ Resolve(h, ok)
        PROVE  UNCHANGED <<row, hist>>
    BY <1>7 DEF Mirror, Resolve
  <1>8. ASSUME ScannerStep, ~\E g \in Graces : Process(g) PROVE UNCHANGED <<row, hist>>
    BY <1>8 DEF ScannerStep, ListPending, ListOpen, SweepEnds
  <1>9. ASSUME Environment, ~AgentResolves PROVE UNCHANGED <<row, hist>>
    BY <1>9 DEF Environment, CustomerWrites, AgentTakes, AgentLeaves, Opens
  <1>10. ASSUME EntrySkipped \/ UNCHANGED vars PROVE UNCHANGED <<row, hist>>
    BY <1>10 DEF EntrySkipped, vars
  <1>11. QED
    BY <1>1, <1>2, <1>3, <1>4, <1>5, <1>6, <1>7, <1>8, <1>9, <1>10, QuietHistory
       DEF Next, HandlerStep, ScannerStep

(* AskedOnceInv is inductive. *)
LEMMA AskedOnceStep == TypeOK /\ AskedOnceInv /\ [Next]_vars => AskedOnceInv'
  <1> SUFFICES ASSUME TypeOK, AskedOnceInv, [Next]_vars
               PROVE  ScannerKnown' /\ AskedRow'
    BY OthersWriteStep DEF AskedOnceInv
  <1>1. AskedRow
    BY DEF AskedOnceInv
  <1>2. ScannerKnown /\ job[Scanner] \in JobType
    BY HandlersDiffer DEF AskedOnceInv, TypeOK
  <1>3. ASSUME NEW ok \in BOOLEAN, Post(Scanner, ok)
        PROVE  ScannerKnown' /\ AskedRow'
    <2>1. Head(job[Scanner].todo) = "post" /\ job[Scanner].todo # << >>
      BY <1>3 DEF Post, AtStep
    <2>2. Left(job[Scanner], "post")
      BY <1>2, <2>1, AdvanceLeft
    <2>3. job[Scanner] \in {Warn, PromptClose}
      BY <1>2, <2>1, <2>2, AskingJobsFacts DEF ScannerKnown, AskingJobs, AsksNothing
    <2>4. job'[Scanner] = Advance(job[Scanner]) /\ row' = row
      BY <1>3, HandlersDiffer DEF Post, Step, TypeOK
    <2>5. hist'.asked = hist.asked \cup {job[Scanner].msg}
      <3>1. job[Scanner].msg \in Prompts
        BY <2>3, AskingJobsFacts DEF Prompts
      <3>2. QED BY <1>3, <3>1 DEF Post, TypeOK, HistType
    <2>6. CASE job[Scanner] = Warn
      BY <1>1, <2>4, <2>5, <2>6, AskingJobsFacts DEF ScannerKnown, AskingJobs, AskedRow
    <2>7. CASE job[Scanner] = PromptClose
      BY <1>1, <2>4, <2>5, <2>7, AskingJobsFacts DEF ScannerKnown, AskingJobs, AskedRow
    <2>8. QED BY <2>3, <2>6, <2>7
  <1>4. ASSUME NEW h \in Handlers, Write(h)
        PROVE  ScannerKnown' /\ AskedRow'
    <2>1. Head(job[h].todo) = "write" /\ job[h].todo # << >> /\ job[h] \in JobType
      BY <1>4 DEF Write, AtStep, TypeOK
    <2>2. Left(job[h], "write")
      BY <2>1, AdvanceLeft
    <2>3. /\ row'.state = job[h].to
          /\ hist'.asked = IF job[h].to = ACTIVE THEN {} ELSE hist.asked
      BY <1>4 DEF Write, TypeOK, HistType
    <2>4. job' = [job EXCEPT ![h] = Advance(@)]
      BY <1>4 DEF Write, Step
    <2>5. CASE h = Scanner
      <3>1. job[h] \in {WarnWrite, PromptWrite} \/ (AsksNothing(job[h]) /\ job[h].to = CLOSED)
        <4>1. job[h] \notin {SeedAndWarn, Warn, PromptClose}
          BY <2>1, AskingJobsFacts
        <4>2. AsksNothing(job[h]) => job[h].to = CLOSED
          BY <2>2 DEF AsksNothing
        <4>3. job[h] \in AskingJobs \/ AsksNothing(job[h])
          BY <1>2, <2>5 DEF ScannerKnown
        <4>4. QED BY <4>1, <4>2, <4>3 DEF AskingJobs
      <3>2. job'[Scanner] = Advance(job[Scanner]) /\ AsksNothing(job'[Scanner])
        BY <2>1, <2>4, <2>5, <3>1, HandlersDiffer, AsksNothingStep, AskingJobsFacts DEF TypeOK
      <3>3. job'[Scanner] \notin AskingJobs
        BY <3>2, AskingJobsFacts
      <3>4. AskedRow'
        <4>1. "resolution_prompt" \in hist'.asked => row'.state \notin {"none", ACTIVE, IDLE_WARNED}
          BY <1>1, <2>3, <2>5, <3>1, AskingJobsFacts
             DEF AskedRow, ACTIVE, IDLE_WARNED, AWAITING_RESOLUTION, CLOSED
        <4>2. row'.state \notin {"none", ACTIVE}
          BY <2>3, <2>5, <3>1, AskingJobsFacts
             DEF ACTIVE, IDLE_WARNED, AWAITING_RESOLUTION, CLOSED
        <4>3. QED BY <3>3, <4>1, <4>2 DEF AskedRow, AskingJobs
      <3>5. QED BY <3>2, <3>4 DEF ScannerKnown
    <2>6. CASE h # Scanner
      <3>1. job'[Scanner] = job[Scanner]
        BY <2>4, <2>6, HandlersDiffer DEF TypeOK
      <3>2. row'.state \notin {"none", IDLE_WARNED}
        BY <2>2, <2>3, <2>6 DEF AskedOnceInv, OthersWrite
      <3>3. row'.state = ACTIVE => hist'.asked = {}
        BY <2>3
      <3>4. hist'.asked \subseteq hist.asked
        BY <2>3
      <3>5. QED BY <1>1, <1>2, <3>1, <3>2, <3>3, <3>4 DEF ScannerKnown, AskedRow
    <2>7. QED BY <2>5, <2>6
  <1>5. ASSUME ~\E h \in Handlers : Write(h), ~\E ok \in BOOLEAN : Post(Scanner, ok)
        PROVE  ScannerKnown' /\ AskedRow'
    <2>1. hist'.asked \subseteq hist.asked /\ (RowStays \/ RowSeeded)
      BY <1>5, AskedMoves
    <2>2. /\ row.state \notin {"none", ACTIVE} => row'.state \notin {"none", ACTIVE}
          /\ row.state \notin {"none", ACTIVE, IDLE_WARNED}
                => row'.state \notin {"none", ACTIVE, IDLE_WARNED}
      BY <2>1 DEF RowStays, RowSeeded
    <2>3. CASE Kept(Scanner)
      BY <1>1, <1>2, <2>1, <2>2, <2>3 DEF Kept, ScannerKnown, AskedRow
    <2>4. CASE Advanced(Scanner)
      <3>1. job'[Scanner] = Advance(job[Scanner]) /\ job[Scanner].todo # << >>
        BY <2>4 DEF Advanced
      <3>2. Head(job[Scanner].todo) \notin {"post", "write"}
        BY <1>5, <2>4, <3>1, HandlersDiffer DEF Advanced, AtStep
      <3>3. job[Scanner] = SeedAndWarn \/ AsksNothing(job[Scanner])
        BY <1>2, <3>2, AskingJobsFacts DEF ScannerKnown, AskingJobs
      <3>4. CASE job[Scanner] = SeedAndWarn
        BY <1>1, <2>1, <2>2, <3>1, <3>4, AskingJobsFacts DEF ScannerKnown, AskingJobs, AskedRow
      <3>5. CASE AsksNothing(job[Scanner])
        <4>1. AsksNothing(job'[Scanner]) /\ job[Scanner] \notin AskingJobs
          BY <1>2, <3>1, <3>5, AsksNothingStep, AskingJobsFacts
        <4>2. job'[Scanner] \notin AskingJobs
          BY <4>1, AskingJobsFacts
        <4>3. QED BY <1>1, <2>1, <2>2, <4>1, <4>2 DEF ScannerKnown, AskedRow, AskingJobs
      <3>6. QED BY <3>3, <3>4, <3>5
    <2>5. CASE Decided(Scanner) /\ Rest(Scanner)
      <3>1. job[Scanner] \notin AskingJobs
        BY <2>5, AskingJobsFacts DEF Rest
      <3>2. /\ job'[Scanner] \in ScannerDecisions
            /\ job'[Scanner] \in {SeedAndWarn, Warn} => row.state \in {"none", ACTIVE}
            /\ job'[Scanner] = PromptClose => row.state = IDLE_WARNED
        BY <2>5 DEF Decided
      <3>3. job'[Scanner] \in {SeedAndWarn, Warn, PromptClose} \/ AsksNothing(job'[Scanner])
        BY <3>2, ScannerDecisionsKnown
      <3>4. job'[Scanner] \notin {WarnWrite, PromptWrite}
        BY <3>3, AskingJobsFacts DEF AskingJobs
      <3>5. AskedRow'
        BY <1>1, <2>1, <2>2, <3>1, <3>2, <3>4, AskingJobsFacts
           DEF AskedRow, AskingJobs, ACTIVE, IDLE_WARNED
      <3>6. QED BY <3>3, <3>5 DEF ScannerKnown, AskingJobs
    <2>6. CASE Decided(Scanner) /\ ~Rest(Scanner)
      <3>1. job'[Scanner] = NoJob /\ hist'.asked = hist.asked \ Unrecorded
        BY <2>6 DEF Decided
      <3>2. AsksNothing(job'[Scanner])
        BY <3>1, IdleJobsLeft DEF AsksNothing
      <3>3. job'[Scanner] \notin AskingJobs
        BY <3>2, AskingJobsFacts
      <3>4. job[Scanner] \in {WarnWrite, PromptWrite} => Unrecorded = {job[Scanner].msg}
        BY AskingJobsFacts DEF Unrecorded, AtStep, AskingJobs
      <3>5. AskedRow'
        <4>1. job[Scanner] = WarnWrite => "idle_warning" \notin hist'.asked
          BY <3>1, <3>4, AskingJobsFacts
        <4>2. job[Scanner] = PromptWrite => "resolution_prompt" \notin hist'.asked
          BY <3>1, <3>4, AskingJobsFacts
        <4>3. QED BY <1>1, <2>1, <2>2, <3>3, <4>1, <4>2 DEF AskedRow, AskingJobs
      <3>6. QED BY <3>2, <3>5 DEF ScannerKnown
    <2>7. QED BY <2>3, <2>4, <2>5, <2>6, JobMoves, HandlersDiffer DEF Hears
  <1>6. QED BY <1>3, <1>4, <1>5
-----------------------------------------------------------------------------
(* The theorems. *)

(* The inductive invariant: types, sound jobs, asked questions, the        *)
(* handlers that rely on CLOSED, the ratings in flight, the promises and   *)
(* the questions put in this silence.                                      *)
IInv ==
    /\ TypeOK /\ AllSound /\ AskedInv /\ ClosedInv
    /\ AllRateSound /\ RatedInv
    /\ AllAssignSound /\ PromiseInv
    /\ AskedOnceInv

(* IInv holds in every reachable state. *)
LEMMA IInvInvariant == Spec => []IInv
  <1>1. Init => IInv
    <2> SUFFICES ASSUME Init PROVE IInv
      OBVIOUS
    <2>1. TypeOK
      BY TypeOKInit
    <2>2. ASSUME NEW h \in Handlers PROVE job[h] \in {Greet, Track, NoJob}
      BY <2>2 DEF Init
    <2>3. ASSUME NEW j \in {Greet, Track, NoJob}
          PROVE  Sound(j) /\ Asked(j) /\ ~ReliesOnClosed(j)
                 /\ RateSound(j) /\ AssignSound(j)
      <3>1. j \in Decisions /\ j.to \notin Asking
        BY DEF Decisions, Greet, Track, NoJob, Job, Asking, Awaiting, ACTIVE,
               IDLE_WARNED, AWAITING_RESOLUTION, AWAITING_SURVEY
      <3>2. QED BY <3>1, DecisionsSound, DecisionsRate, DecisionsAssign DEF Asked, ReliesOnClosed
    <2>4. QuestionAsked
      BY DEF Init, QuestionAsked, IDLE_WARNED, AWAITING_RESOLUTION, AWAITING_SURVEY
    <2>5. RatedInv /\ PromiseInv
      BY DEF Init, RatedInv, PromiseInv
    <2>7. AskedOnceInv
      <3>1. job[Scanner] = NoJob
        BY HandlersDiffer DEF Init, Scanner, Creation
      <3>2. AsksNothing(job[Scanner]) /\ job[Scanner] \notin AskingJobs
        BY <3>1, IdleJobsLeft, AskingJobsFacts DEF AsksNothing
      <3>3. \A j \in {Greet, Track, NoJob} : ~Left(j, "write")
        BY DEF Greet, Track, NoJob, Job, Left
      <3>4. hist.asked = {}
        BY DEF Init
      <3>5. QED BY <2>2, <3>2, <3>3, <3>4
                DEF AskedOnceInv, ScannerKnown, OthersWrite, AskedRow, AskingJobs
    <2>6. QED BY <2>1, <2>2, <2>3, <2>4, <2>5, <2>7
              DEF IInv, AllSound, AskedInv, ClosedInv, AllRateSound, AllAssignSound
  <1>2. IInv /\ [Next]_vars => IInv'
    BY TypeOKStep, SoundStep, AskedStep, ClosedStep, RateSoundStep, RatedStep,
       AssignSoundStep, PromiseStep, AskedOnceStep DEF IInv
  <1>3. QED BY <1>1, <1>2, PTL DEF Spec

(* No customer message is read as the answer to a question the service has *)
(* not tried to ask.                                                       *)
THEOREM QuestionsAreAsked == Spec => []QuestionAsked
  <1>1. IInv => QuestionAsked
    BY DEF IInv, AskedInv
  <1>2. QED BY <1>1, IInvInvariant, PTL

(* The scanner puts no question twice in one silence of the customer,      *)
(* other than one it was kept from recording by a fault.                   *)
THEOREM AsksOncePerSilence == Spec => []AskedOncePerSilence
  <1>1. IInv => AskedOncePerSilence
    <2> SUFFICES ASSUME IInv, AtStep(Scanner, "post")
                 PROVE  job[Scanner].msg \notin hist.asked
      BY DEF AskedOncePerSilence
    <2>1. job[Scanner] \in JobType /\ Left(job[Scanner], "post")
      BY HandlersDiffer, AdvanceLeft DEF IInv, TypeOK, AtStep
    <2>2. job[Scanner] \in {Warn, PromptClose}
      BY <2>1, AskingJobsFacts
         DEF IInv, AskedOnceInv, ScannerKnown, AskingJobs, AsksNothing, AtStep
    <2>3. QED BY <2>2, AskingJobsFacts DEF IInv, AskedOnceInv, AskedRow
  <1>2. QED BY <1>1, IInvInvariant, PTL

(* Every handler that resolves finds the row CLOSED, unless an update of   *)
(* the row has been lost.                                                  *)
THEOREM ResolvesOnlyClosed == Spec => []ClosedBeforeResolve
  <1>1. IInv => ClosedBeforeResolve
    BY AtResolve DEF IInv, ClosedInv, ClosedBeforeResolve
  <1>2. QED BY <1>1, IInvInvariant, PTL

(* The webhook of the service's own resolution draws no survey, unless an  *)
(* update of the row has been lost.                                        *)
THEOREM BotResolveUnsurveyed == Spec => NoSurveyAfterBotResolve
  <1>1. IInv /\ [Next]_vars =>
           [\A e \in Resolutions :
              hist.clean /\ AtStep(e, "read") /\ job[e].msg = "by_bot"
                 => job'[e] \in {job[e], NoJob}]_vars
    <2> SUFFICES ASSUME IInv, [Next]_vars, NEW e \in Resolutions,
                        hist.clean, AtStep(e, "read"), job[e].msg = "by_bot"
                 PROVE  job'[e] \in {job[e], NoJob}
      OBVIOUS
    <2>1. job[e] \in JobType /\ job[e].todo # << >> /\ Head(job[e].todo) = "read"
      BY DEF IInv, TypeOK, AtStep, Handlers
    <2>2. row.state = CLOSED
      BY <2>1, AdvanceLeft DEF IInv, ClosedInv, ReliesOnClosed, Handlers
    <2>3. Kept(e) \/ Decided(e)
      BY JobMoves DEF IInv, Advanced, Hears, Handlers
    <2>4. QED BY <2>2, <2>3 DEF Kept, Decided
  <1>2. QED BY <1>1, IInvInvariant, PTL DEF Spec, NoSurveyAfterBotResolve

(* Without faults and lost updates, at most one rating is logged whenever  *)
(* no rating is being handled, for any number of messages at once.         *)
THEOREM RatesOnce == Spec => []RatedOnceAtRest
  <1>1. IInv => RatedOnceAtRest
    BY DEF IInv, RatedInv, NoneLogged, Logged, RatedOnceAtRest
  <1>2. QED BY <1>1, IInvInvariant, PTL

(* Without faults the promise of an agent is kept whenever no handler is   *)
(* in the middle of making one, unless another handler had a write or a    *)
(* resolution in hand while the hand-over stood between its reopening and  *)
(* its write of the row.                                                   *)
THEOREM PromiseIsKept == Spec => []PromiseKeptAtRest
  <1>1. IInv => PromiseKeptAtRest
    <2> SUFFICES ASSUME IInv, faults = 0, ~hist.overlap, \A h \in Handlers : ~Assigning(h),
                        hist.promised
                 PROVE  conv.status # "resolved"
      BY DEF PromiseKeptAtRest
    <2>1. ~StillPromising
      BY DEF StillPromising
    <2>2. QED BY <2>1 DEF IInv, PromiseInv, PromiseSafe
  <1>2. QED BY <1>1, IInvInvariant, PTL
=============================================================================
