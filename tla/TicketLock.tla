----------------------------- MODULE TicketLock -----------------------------
(***************************************************************************)
(* The backend's writers of ONE conversation's labels or attributes        *)
(* (features/chat/adapters/chatwoot).  Chatwoot replaces the whole set on  *)
(* a write, so a writer reads it, adds its own key and posts the union,    *)
(* all under a lock that the adapter keeps per ticket in a bounded map.    *)
(*                                                                         *)
(* The lock is an asyncio.Lock.  Request handlers and callbacks use it on  *)
(* the main event loop; the escalation ladder uses it from the thread of   *)
(* its scheduler, where every sweep runs an event loop of its own.         *)
(***************************************************************************)
EXTENDS Naturals, Sequences

CONSTANTS
    Loopers,      \* writers on the main event loop, each writes one key, its own
    Sweepers,     \* writers on the ladder's thread, one after the other
    Insistent,    \* Loopers that post their labels even if the read has failed
    Evicts,       \* whether other tickets' locks fill the map
    MaxFaults     \* bound: failed requests

Writers == Loopers \cup Sweepers
None == "none"

ASSUME WritersAssumption ==
    /\ Loopers \cap Sweepers = {} /\ Insistent \subseteq Loopers
    /\ None \notin Writers
    /\ Evicts \in BOOLEAN /\ MaxFaults \in Nat

VARIABLES
    store,    \* the keys on the conversation
    entry,    \* the lock in the map; a lock is named after the writer that made it
    lock,     \* held, its queue, and the event loop it is bound to
    task,     \* each writer's phase, lock, and what it has read
    torn,     \* two locks for the ticket are in use
    wiped,    \* an insistent writer has posted without having read
    faults    \* faults so far

vars == <<store, entry, lock, task, torn, wiped, faults>>

FreeLock == [held |-> FALSE, queue |-> <<>>, loop |-> None]
Idle == [phase |-> "idle", lock |-> None, seen |-> {}]

LoopOf(w) == IF w \in Loopers THEN "main" ELSE "sweep"

Outcome(ok) == \/ ok /\ UNCHANGED faults
               \/ ~ok /\ faults < MaxFaults /\ faults' = faults + 1

(* A writer that has found no lock has not yet let go of its event loop.   *)
Runs(w) == \A v \in Writers \ {w} :
              LoopOf(v) = LoopOf(w) => task[v].phase # "making"

Waits(w)  == task[w].phase \in {"queued", "asleep", "woken"}
Inside(w) == task[w].phase \in {"get", "post"}

(* A writer calls the adapter; the scheduler runs one sweep at a time.     *)
Starts(w) ==
    /\ task[w].phase = "idle" /\ Runs(w)
    /\ w \in Sweepers => \A v \in Sweepers \ {w} : task[v].phase \in {"idle", "done", "failed"}

-----------------------------------------------------------------------------
Init ==
    /\ store = {} /\ entry = None
    /\ lock = [w \in Writers |-> FreeLock]
    /\ task = [w \in Writers |-> Idle]
    /\ torn = FALSE /\ wiped = FALSE /\ faults = 0

-----------------------------------------------------------------------------
(* Taking the lock. *)

(* Mutated: those who wait are passed over. *)
AcquireBarging(w, l) ==
    IF ~lock[l].held
    THEN /\ lock' = [lock EXCEPT ![l].held = TRUE]
         /\ task' = [task EXCEPT ![w] = [phase |-> "get", lock |-> l, seen |-> {}]]
    ELSE /\ lock' = [lock EXCEPT ![l].queue = Append(@, w), ![l].loop = LoopOf(w)]
         /\ task' = [task EXCEPT ![w] = [phase |-> "queued", lock |-> l, seen |-> {}]]

(* asyncio.Lock.acquire: at once if nobody holds it or waits for it, else  *)
(* in the queue.  Waiting binds the lock to the writer's loop for good,    *)
(* and a writer of another loop gets an error.                             *)
Acquire(w, l) ==
    CASE ~lock[l].held /\ lock[l].queue = <<>> ->
           /\ lock' = [lock EXCEPT ![l].held = TRUE]
           /\ task' = [task EXCEPT ![w] = [phase |-> "get", lock |-> l, seen |-> {}]]
      [] (lock[l].held \/ lock[l].queue # <<>>) /\ lock[l].loop \in {None, LoopOf(w)} ->
           /\ lock' = [lock EXCEPT ![l].queue = Append(@, w), ![l].loop = LoopOf(w)]
           /\ task' = [task EXCEPT ![w] = [phase |-> "queued", lock |-> l, seen |-> {}]]
      [] OTHER ->
           /\ task' = [task EXCEPT ![w] = [phase |-> "failed", lock |-> l, seen |-> {}]]
           /\ UNCHANGED lock

(* _ticket_lock finds the ticket's lock in the map. *)
FindLock(w) ==
    /\ Starts(w)
    /\ entry # None /\ Acquire(w, entry)
    /\ UNCHANGED <<store, entry, torn, wiped, faults>>

(* It finds none. *)
MissLock(w) ==
    /\ Starts(w)
    /\ entry = None
    /\ task' = [task EXCEPT ![w].phase = "making"]
    /\ UNCHANGED <<store, entry, lock, torn, wiped, faults>>

(* It enters a new one, which nobody else on its loop can have done in the *)
(* meantime, and takes it.                                                 *)
MakeLock(w) ==
    /\ task[w].phase = "making"
    /\ entry' = w
    /\ torn' = (torn \/ entry # None)
    /\ Acquire(w, w)
    /\ UNCHANGED <<store, wiped, faults>>

(* With too many tickets in the map, locks not held at the moment are      *)
(* dropped from it, also when somebody waits for them.                     *)
Evict ==
    /\ Evicts
    /\ entry # None /\ ~lock[entry].held
    /\ entry' = None
    /\ torn' = (torn \/ lock[entry].queue # <<>>)
    /\ UNCHANGED <<store, lock, task, wiped, faults>>

(* Mutated: nobody is woken. *)
ReleaseQuietly(w, phase) ==
    /\ lock' = [lock EXCEPT ![task[w].lock].held = FALSE]
    /\ task' = [task EXCEPT ![w].phase = phase, ![w].seen = {}]

(* asyncio.Lock.release wakes the first in the queue.  A thread is not     *)
(* woken from outside: it only sees what arrives before it falls asleep.   *)
Release(w, phase) ==
    LET l == task[w].lock
        next == IF lock[l].queue = <<>> THEN None ELSE Head(lock[l].queue)
    IN  /\ lock' = [lock EXCEPT ![l].held = FALSE]
        /\ task' = [v \in Writers |->
              CASE v = w -> [task[w] EXCEPT !.phase = phase, !.seen = {}]
                [] v = next /\ task[v].phase = "queued" -> [task[v] EXCEPT !.phase = "woken"]
                [] OTHER -> task[v]]

(* The sweep's event loop has nothing else to do and waits.                *)
FallAsleep(w) ==
    /\ w \in Sweepers /\ task[w].phase = "queued"
    /\ task' = [task EXCEPT ![w].phase = "asleep"]
    /\ UNCHANGED <<store, entry, lock, torn, wiped, faults>>

(* The writer that was woken leaves the queue and has the lock.            *)
Resume(w) ==
    /\ task[w].phase = "woken" /\ Runs(w)
    /\ lock' = [lock EXCEPT ![task[w].lock].held = TRUE, ![task[w].lock].queue = Tail(@)]
    /\ task' = [task EXCEPT ![w].phase = "get"]
    /\ UNCHANGED <<store, entry, torn, wiped, faults>>

-----------------------------------------------------------------------------
(* Read, union, post. *)

(* Mutated: a failed read counts as nothing there, for everybody. *)
GetAnyway(w, ok) ==
    /\ task[w].phase = "get" /\ Runs(w)
    /\ Outcome(ok)
    /\ task' = [task EXCEPT ![w].phase = "post", ![w].seen = IF ok THEN store ELSE {}]
    /\ UNCHANGED <<store, entry, lock, torn, wiped>>

(* _merge_custom_attributes and add_ticket_tag give up when the read       *)
(* fails; _post_labels_union, whose labels hand the case over, does not.   *)
Get(w, ok) ==
    /\ task[w].phase = "get" /\ Runs(w)
    /\ Outcome(ok)
    /\ IF ok \/ w \in Insistent
       THEN /\ task' = [task EXCEPT ![w].phase = "post", ![w].seen = IF ok THEN store ELSE {}]
            /\ UNCHANGED lock
       ELSE Release(w, "done")
    /\ wiped' = (wiped \/ (~ok /\ w \in Insistent))
    /\ UNCHANGED <<store, entry, torn>>

(* _request swallows a failed POST: the writer does not learn of it.       *)
Post(w, ok) ==
    /\ task[w].phase = "post" /\ Runs(w)
    /\ Outcome(ok)
    /\ store' = IF ok THEN task[w].seen \cup {w} ELSE store
    /\ Release(w, "done")
    /\ UNCHANGED <<entry, torn, wiped>>

-----------------------------------------------------------------------------

Begin(w) == FindLock(w) \/ MissLock(w)

Proceed(w) ==
    \/ MakeLock(w) \/ FallAsleep(w) \/ Resume(w)
    \/ \E ok \in BOOLEAN : Get(w, ok) \/ Post(w, ok)

Next == \/ \E w \in Writers : Begin(w) \/ Proceed(w)
        \/ Evict

Spec == Init /\ [][Next]_vars

(* A writer that has begun goes on as long as its event loop runs it.      *)
FairSpec == Spec /\ \A w \in Writers : WF_vars(Proceed(w))

-----------------------------------------------------------------------------
(* Properties. *)

Phases == {"idle", "making", "queued", "asleep", "woken", "get", "post", "done", "failed"}

(* Every variable keeps its type; a queue holds those who wait for its     *)
(* lock, each of them once.                                                *)
TypeOK ==
    /\ store \subseteq Writers
    /\ entry \in Writers \cup {None}
    /\ lock \in [Writers -> [held : BOOLEAN, queue : Seq(Writers), loop : {None, "main", "sweep"}]]
    /\ task \in [Writers -> [phase : Phases, lock : Writers \cup {None}, seen : SUBSET Writers]]
    /\ torn \in BOOLEAN /\ wiped \in BOOLEAN
    /\ faults \in 0..MaxFaults
    /\ \A l \in Writers : \A i, j \in 1..Len(lock[l].queue) :
         /\ Waits(lock[l].queue[i]) /\ task[lock[l].queue[i]].lock = l
         /\ lock[l].queue[i] = lock[l].queue[j] => i = j

(* At most one writer is between its read and the end of its write, unless *)
(* the map came to hold a second lock while the first was in use.          *)
OneWriter == ~torn => \A v, w \in Writers : Inside(v) /\ Inside(w) => v = w

(* Every write is one atomic update of its own key, unless a second lock   *)
(* came into use or labels were posted without having been read.           *)
Map == INSTANCE AttributeMap WITH Keys <- Writers, broken <- torn \/ wiped
UpdatesAreAtomic == Map!Spec

(* A writer on the main loop that waits is not forgotten: somebody works   *)
(* with his lock, or has been woken to take it, whatever the sweeps and    *)
(* the evictions do.                                                       *)
LoopersServed ==
    \A w \in Loopers : Waits(w) =>
       \E v \in Writers : /\ task[v].lock = task[w].lock
                          /\ Inside(v) \/ task[v].phase = "woken"

(* A writer on the main loop that has begun comes to an end, with its      *)
(* write, without it, or with an error.                                    *)
LoopersFinish ==
    \A w \in Loopers : task[w].phase # "idle" ~> task[w].phase \in {"done", "failed"}

(* A sweep that has begun a write comes to an end. *)
SweepsFinish ==
    \A w \in Sweepers : task[w].phase # "idle" ~> task[w].phase \in {"done", "failed"}
=============================================================================
