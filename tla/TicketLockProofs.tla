-------------------------- MODULE TicketLockProofs --------------------------
(***************************************************************************)
(* Theorems about TicketLock for every number of writers and faults, with  *)
(* and without sweeps and evictions.                                       *)
(***************************************************************************)
EXTENDS TicketLock, SequenceTheorems, TLAPS

LockType == [held : BOOLEAN, queue : Seq(Writers), loop : {None, "main", "sweep"}]
TaskType == [phase : Phases, lock : Writers \cup {None}, seen : SUBSET Writers]

Types ==
    /\ store \subseteq Writers /\ entry \in Writers \cup {None}
    /\ lock \in [Writers -> LockType] /\ task \in [Writers -> TaskType]
    /\ torn \in BOOLEAN /\ wiped \in BOOLEAN /\ faults \in 0..MaxFaults

In(w, q) == \E i \in 1..Len(q) : q[i] = w
Once(q) == \A i, j \in 1..Len(q) : q[i] = q[j] => i = j

(* Everyone in a queue waits for its lock, and is there once.              *)
Queues == \A l \in Writers : /\ Once(lock[l].queue)
                             /\ \A w : In(w, lock[l].queue) => Waits(w) /\ task[w].lock = l

(* Everyone who waits is in the queue of his lock; who is woken is its     *)
(* first, and the lock is free; who is inside holds it, alone.             *)
Locks ==
    /\ \A w \in Writers : Waits(w) =>
          task[w].lock \in Writers /\ In(w, lock[task[w].lock].queue)
    /\ \A w \in Writers : task[w].phase = "woken" =>
          ~lock[task[w].lock].held /\ lock[task[w].lock].queue[1] = w
    /\ \A w \in Writers : Inside(w) => task[w].lock \in Writers /\ lock[task[w].lock].held
    /\ \A v, w \in Writers :
          Inside(v) /\ Inside(w) /\ task[v].lock = task[w].lock => v = w

(* Until it is torn, everybody uses the lock in the map.                   *)
OneLock == ~torn => \A w \in Writers : Inside(w) \/ Waits(w) => task[w].lock = entry

(* What a writer is about to post is what is there.                        *)
Fresh == ~torn /\ ~wiped => \A w \in Writers : task[w].phase = "post" => task[w].seen = store

IInv == Types /\ Queues /\ Locks /\ OneLock /\ Fresh

LEMMA TypesAndQueues == TypeOK <=> Types /\ Queues
  <1>1. ASSUME NEW l \in Writers, lock \in [Writers -> LockType]
        PROVE  (\A i, j \in 1..Len(lock[l].queue) :
                   /\ Waits(lock[l].queue[i]) /\ task[lock[l].queue[i]].lock = l
                   /\ lock[l].queue[i] = lock[l].queue[j] => i = j)
               <=> (/\ Once(lock[l].queue)
                    /\ \A w : In(w, lock[l].queue) => Waits(w) /\ task[w].lock = l)
    BY DEF Once, In
  <1>2. QED BY <1>1 DEF TypeOK, Types, Queues, LockType, TaskType

(* Queues: appending a newcomer, and dropping the first.                   *)
LEMMA AppendQueue ==
    ASSUME NEW q \in Seq(Writers), NEW w \in Writers, ~In(w, q), Once(q)
    PROVE  /\ Append(q, w) \in Seq(Writers) /\ Append(q, w) # <<>>
           /\ Once(Append(q, w))
           /\ \A v : In(v, Append(q, w)) <=> In(v, q) \/ v = w
           /\ q # <<>> => Append(q, w)[1] = q[1]
  <1>1. /\ Append(q, w) \in Seq(Writers) /\ Len(Append(q, w)) = Len(q) + 1 /\ Len(q) \in Nat
        /\ \A i \in 1..Len(q) : Append(q, w)[i] = q[i]
        /\ Append(q, w)[Len(q) + 1] = w
    BY AppendProperties
  <1>2. q # <<>> => 1 \in 1..Len(q)
    BY <1>1, EmptySeq
  <1>3. Append(q, w) # <<>>
    BY <1>1, EmptySeq
  <1>4. ASSUME NEW v PROVE In(v, Append(q, w)) <=> In(v, q) \/ v = w
    <2>1. ASSUME In(v, Append(q, w)) PROVE In(v, q) \/ v = w
      <3>1. PICK i \in 1..(Len(q) + 1) : Append(q, w)[i] = v
        BY <1>1, <2>1 DEF In
      <3>2. CASE i = Len(q) + 1
        BY <1>1, <3>1, <3>2
      <3>3. CASE i \in 1..Len(q)
        BY <1>1, <3>1, <3>3 DEF In
      <3>4. QED BY <1>1, <3>1, <3>2, <3>3
    <2>2. ASSUME In(v, q) PROVE In(v, Append(q, w))
      <3>1. PICK i \in 1..Len(q) : q[i] = v
        BY <2>2 DEF In
      <3>2. i \in 1..(Len(q) + 1) /\ Append(q, w)[i] = v
        BY <1>1, <3>1
      <3>3. QED BY <1>1, <3>2 DEF In
    <2>3. ASSUME v = w PROVE In(v, Append(q, w))
      BY <1>1, <2>3 DEF In
    <2>4. QED BY <2>1, <2>2, <2>3
  <1>5. Once(Append(q, w))
    <2>1. SUFFICES ASSUME NEW i \in 1..(Len(q) + 1), NEW j \in 1..(Len(q) + 1),
                          Append(q, w)[i] = Append(q, w)[j]
                   PROVE  i = j
      BY <1>1 DEF Once
    <2>2. CASE i \in 1..Len(q) /\ j \in 1..Len(q)
      BY <1>1, <2>1, <2>2 DEF Once
    <2>3. CASE i = Len(q) + 1 /\ j \in 1..Len(q)
      BY <1>1, <2>1, <2>3 DEF In
    <2>4. CASE j = Len(q) + 1 /\ i \in 1..Len(q)
      BY <1>1, <2>1, <2>4 DEF In
    <2>5. QED BY <1>1, <2>2, <2>3, <2>4
  <1>6. QED BY <1>1, <1>2, <1>3, <1>4, <1>5

LEMMA TailQueue ==
    ASSUME NEW q \in Seq(Writers), q # <<>>, Once(q)
    PROVE  /\ Tail(q) \in Seq(Writers) /\ Once(Tail(q))
           /\ In(q[1], q) /\ Head(q) = q[1]
           /\ \A v : In(v, Tail(q)) <=> In(v, q) /\ v # q[1]
  <1>1. /\ Tail(q) \in Seq(Writers) /\ Head(q) = q[1] /\ Len(q) \in Nat /\ Len(q) >= 1
        /\ Len(Tail(q)) = Len(q) - 1
        /\ \A i \in 1..(Len(q) - 1) : Tail(q)[i] = q[i + 1]
    BY HeadTailProperties, EmptySeq
  <1>2. Once(Tail(q))
    BY <1>1 DEF Once
  <1>3. In(q[1], q)
    BY <1>1 DEF In
  <1>4. ASSUME NEW v, In(v, Tail(q)) PROVE In(v, q) /\ v # q[1]
    <2>1. PICK i \in 1..(Len(q) - 1) : q[i + 1] = v
      BY <1>1, <1>4 DEF In
    <2>2. i + 1 \in 1..Len(q) /\ 1 \in 1..Len(q) /\ i + 1 # 1
      BY <1>1
    <2>3. QED BY <2>1, <2>2 DEF In, Once
  <1>5. ASSUME NEW v, In(v, q), v # q[1] PROVE In(v, Tail(q))
    <2>1. PICK i \in 1..Len(q) : q[i] = v
      BY <1>5 DEF In
    <2>2. i - 1 \in 1..(Len(q) - 1) /\ (i - 1) + 1 = i
      BY <1>1, <1>5, <2>1
    <2>3. Tail(q)[i - 1] = v
      BY <1>1, <2>1, <2>2
    <2>4. QED BY <1>1, <2>2, <2>3 DEF In
  <1>6. QED BY <1>1, <1>2, <1>3, <1>4, <1>5

-----------------------------------------------------------------------------
(* Taking a lock, and leaving it. *)

(* A newcomer takes the one lock everybody uses, waits for it, or fails.   *)
LEMMA AcquireKeeps ==
    ASSUME IInv, NEW w \in Writers, NEW l \in Writers,
           task[w].phase \in {"idle", "making"}, Acquire(w, l),
           entry' \in Writers \cup {None}, torn' \in BOOLEAN, UNCHANGED <<store, wiped, faults>>,
           ~torn' => /\ ~torn /\ entry' = l
                     /\ \A v \in Writers : Inside(v) \/ Waits(v) => task[v].lock = l
    PROVE  IInv'
  <1> USE WritersAssumption DEF IInv
  <1> DEFINE New(phase) == [phase |-> phase, lock |-> l, seen |-> {}]
             q == lock[l].queue
  <1>1. /\ ~Waits(w) /\ ~Inside(w) /\ ~In(w, q)
        /\ q \in Seq(Writers) /\ Once(q)
    BY DEF Waits, Inside, Queues, Types, LockType
  <1>2. LoopOf(w) \in {"main", "sweep"}
    BY DEF LoopOf
  <1>3. CASE ~lock[l].held /\ q = <<>>
    <2>1. lock' = [lock EXCEPT ![l].held = TRUE] /\ task' = [task EXCEPT ![w] = New("get")]
      BY <1>3 DEF Acquire
    <2>2. Types'
      BY ZenonT(60), <2>1 DEF Types, LockType, TaskType, Phases
    <2>3. \A v \in Writers : lock'[v].queue = lock[v].queue
      BY <2>1 DEF Types, LockType
    <2>4. Waits(w)' = FALSE /\ Inside(w)' = TRUE /\ task'[w].lock = l /\ task'[w].phase = "get"
      BY <2>1 DEF Types, TaskType, Waits, Inside
    <2>5. \A v \in Writers \ {w} : task'[v] = task[v]
      BY <2>1 DEF Types
    <2>6. Queues'
      BY SMTT(60), <1>1, <2>3, <2>5 DEF Queues, Waits, In, Once, Types, LockType
    <2>7. \A v \in Writers \ {w} : ~((Inside(v) \/ Waits(v)) /\ task[v].lock = l)
      BY <1>3, EmptySeq DEF Locks, In
    <2>8. Locks'
      <3>1. lock'[l].held /\ \A v \in Writers \ {l} : lock'[v] = lock[v]
        BY <2>1 DEF Types, LockType
      <3>2. QED BY <2>3, <2>4, <2>5, <2>7, <3>1 DEF Locks, Waits, Inside
    <2>9. OneLock' /\ Fresh'
      BY <2>4, <2>5 DEF OneLock, Fresh, Waits, Inside
    <2>10. QED BY <2>2, <2>6, <2>8, <2>9
  <1>4. CASE (lock[l].held \/ q # <<>>) /\ lock[l].loop \in {None, LoopOf(w)}
    <2>1. /\ lock' = [lock EXCEPT ![l].queue = Append(@, w), ![l].loop = LoopOf(w)]
          /\ task' = [task EXCEPT ![w] = New("queued")]
      BY <1>4 DEF Acquire
    <2>2. /\ Append(q, w) \in Seq(Writers) /\ Once(Append(q, w))
          /\ \A v : In(v, Append(q, w)) <=> In(v, q) \/ v = w
          /\ q # <<>> => Append(q, w)[1] = q[1]
      BY <1>1, AppendQueue
    <2>3. /\ lock'[l] = [held |-> lock[l].held, queue |-> Append(q, w), loop |-> LoopOf(w)]
          /\ \A v \in Writers \ {l} : lock'[v] = lock[v]
      BY <2>1 DEF Types, LockType
    <2>4. Types'
      <3>1. lock'[l] \in LockType
        BY <1>2, <2>2, <2>3 DEF Types, LockType
      <3>2. lock' \in [Writers -> LockType]
        BY <2>1, <2>3, <3>1 DEF Types
      <3>3. task' \in [Writers -> TaskType]
        BY <2>1 DEF Types, TaskType, Phases
      <3>4. QED BY <3>2, <3>3 DEF Types
    <2>5. Waits(w)' = TRUE /\ Inside(w)' = FALSE /\ task'[w].lock = l /\ task'[w].phase = "queued"
      BY <2>1 DEF Types, TaskType, Waits, Inside
    <2>6. \A v \in Writers \ {w} : task'[v] = task[v]
      BY <2>1 DEF Types
    <2>7. Queues'
      <3>1. ASSUME NEW k \in Writers
            PROVE  /\ Once(lock'[k].queue)
                   /\ \A v : In(v, lock'[k].queue) => (Waits(v) /\ task[v].lock = k)'
        <4>1. \A v : In(v, lock[k].queue) => v # w /\ Waits(v) /\ task[v].lock = k /\ v \in Writers
          BY <1>1 DEF Queues, In, Types, LockType
        <4>2. CASE k = l
          <5>1. lock'[l].queue = Append(q, w)
            BY <2>3
          <5>2. ASSUME NEW v, In(v, Append(q, w)) PROVE (Waits(v) /\ task[v].lock = l)'
            <6>1. CASE v = w
              BY <2>5, <6>1
            <6>2. CASE v # w
              BY <2>2, <2>6, <4>1, <4>2, <5>2, <6>2 DEF Waits
            <6>3. QED BY <6>1, <6>2
          <5>3. QED BY <2>2, <4>2, <5>1, <5>2
        <4>3. CASE k # l
          BY <2>3, <2>6, <4>1, <4>3 DEF Waits, Queues
        <4>4. QED BY <4>2, <4>3
      <3>2. QED BY <3>1 DEF Queues, In, Once
    <2>8. Locks'
      <3>1. ASSUME NEW v \in Writers
            PROVE  Waits(v)' => task'[v].lock \in Writers /\ In(v, lock'[task'[v].lock].queue)
        <4>0. lock'[l].queue = Append(q, w)
          BY <2>3
        <4>1. CASE v = w
          <5>1. In(w, Append(q, w)) /\ task'[w].lock = l
            BY <2>2, <2>5
          <5>2. QED BY <4>0, <4>1, <5>1
        <4>2. CASE v # w
          <5>1. Waits(v)' => Waits(v) /\ task'[v].lock = task[v].lock
            BY <2>6, <4>2 DEF Waits
          <5>2. Waits(v) => task[v].lock \in Writers /\ In(v, lock[task[v].lock].queue)
            BY DEF Locks
          <5>3. CASE task[v].lock = l
            <6>1. Waits(v)' => In(v, Append(q, w)) /\ task'[v].lock = l
              BY <2>2, <5>1, <5>2, <5>3
            <6>2. QED BY <4>0, <6>1
          <5>4. CASE task[v].lock # l
            BY <2>3, <5>1, <5>2, <5>4
          <5>5. QED BY <5>3, <5>4
        <4>3. QED BY <4>1, <4>2
      <3>2. ASSUME NEW v \in Writers, task'[v].phase = "woken"
            PROVE  ~lock'[task'[v].lock].held /\ lock'[task'[v].lock].queue[1] = v
        <4>1. v # w /\ task'[v] = task[v] /\ task[v].lock \in Writers /\ In(v, lock[task[v].lock].queue)
          BY <2>5, <2>6, <3>2 DEF Locks, Waits
        <4>2. lock[task[v].lock].queue # <<>>
          BY <4>1, EmptySeq DEF In
        <4>3. QED BY <2>2, <2>3, <3>2, <4>1, <4>2 DEF Locks
      <3>3. \A v \in Writers : Inside(v)' => task'[v].lock \in Writers /\ lock'[task'[v].lock].held
        BY <2>3, <2>5, <2>6 DEF Locks, Inside
      <3>4. \A u, v \in Writers :
               Inside(u)' /\ Inside(v)' /\ task'[u].lock = task'[v].lock => u = v
        BY <2>5, <2>6 DEF Locks, Inside
      <3>5. QED BY <3>1, <3>2, <3>3, <3>4 DEF Locks, In
    <2>9. OneLock' /\ Fresh'
      BY <2>5, <2>6 DEF OneLock, Fresh, Waits, Inside
    <2>10. QED BY <2>4, <2>7, <2>8, <2>9
  <1>5. CASE ~(~lock[l].held /\ q = <<>>)
             /\ ~((lock[l].held \/ q # <<>>) /\ lock[l].loop \in {None, LoopOf(w)})
    <2>1. lock' = lock /\ task' = [task EXCEPT ![w] = New("failed")]
      BY <1>5 DEF Acquire
    <2>2. Waits(w)' = FALSE /\ Inside(w)' = FALSE /\ task'[w].phase = "failed"
      BY <2>1 DEF Types, TaskType, Waits, Inside
    <2>3. \A v \in Writers \ {w} : task'[v] = task[v]
      BY <2>1 DEF Types
    <2>4. Types'
      BY <2>1 DEF Types, TaskType, Phases
    <2>5. Queues'
      BY <1>1, <2>1, <2>3 DEF Queues, Waits, In, Types, LockType
    <2>6. Locks'
      BY <2>1, <2>2, <2>3 DEF Locks, Waits, Inside
    <2>7. OneLock' /\ Fresh'
      BY <2>2, <2>3 DEF OneLock, Fresh, Waits, Inside
    <2>8. QED BY <2>4, <2>5, <2>6, <2>7
  <1>6. QED BY <1>3, <1>4, <1>5

(* Who leaves the lock wakes at most the first that waits for it.          *)
LEMMA ReleaseKeeps ==
    ASSUME IInv, NEW w \in Writers, Inside(w), Release(w, "done"),
           store' \subseteq Writers, wiped' \in BOOLEAN, faults' \in 0..MaxFaults,
           UNCHANGED <<entry, torn>>
    PROVE  IInv'
  <1> USE WritersAssumption DEF IInv
  <1> DEFINE l == task[w].lock
             q == lock[l].queue
  <1>1. /\ l \in Writers /\ lock[l].held /\ q \in Seq(Writers) /\ ~Waits(w)
        /\ \A k \in Writers : ~In(w, lock[k].queue)
    BY DEF Locks, Types, LockType, Waits, Inside, Queues
  <1> DEFINE next == IF q = <<>> THEN None ELSE Head(q)
  <1>2. /\ lock' = [lock EXCEPT ![l].held = FALSE]
        /\ task' = [v \in Writers |->
              CASE v = w -> [task[w] EXCEPT !.phase = "done", !.seen = {}]
                [] v = next /\ task[v].phase = "queued" -> [task[v] EXCEPT !.phase = "woken"]
                [] OTHER -> task[v]]
    BY DEF Release
  <1> HIDE DEF next
  <1>3. task'[w] = [task[w] EXCEPT !.phase = "done", !.seen = {}]
    <2>1. ~(w = next /\ task[w].phase = "queued")
      BY DEF Inside
    <2>2. QED BY <1>2, <2>1
  <1>4. ASSUME NEW v \in Writers \ {w}
        PROVE  \/ task'[v] = task[v]
               \/ /\ task'[v] = [task[v] EXCEPT !.phase = "woken"] /\ task[v].phase = "queued"
                  /\ q[1] = v /\ In(v, q) /\ task[v].lock = l
    <2>1. q # <<>> => Head(q) = q[1] /\ In(q[1], q)
      BY <1>1, TailQueue DEF Queues
    <2>2. CASE q # <<>> /\ v = q[1] /\ task[v].phase = "queued"
      <3>1. v = next /\ v # w
        BY <2>1, <2>2 DEF next
      <3>2. task'[v] = [task[v] EXCEPT !.phase = "woken"]
        BY <1>2, <2>2, <3>1
      <3>3. In(v, q) /\ task[v].lock = l
        BY <1>1, <2>1, <2>2 DEF Queues
      <3>4. QED BY <2>2, <3>2, <3>3
    <2>3. CASE ~(q # <<>> /\ v = q[1] /\ task[v].phase = "queued")
      <3>1. ~(v = next /\ task[v].phase = "queued") /\ v # w
        BY <2>1, <2>3, WritersAssumption DEF next
      <3>2. QED BY <1>2, <3>1
    <2>4. QED BY <2>2, <2>3
  <1>5. \A v \in Writers \ {w} : /\ task'[v].lock = task[v].lock /\ task'[v].seen = task[v].seen
                                 /\ Waits(v)' = Waits(v) /\ Inside(v)' = Inside(v)
                                 /\ task'[v].phase = "post" <=> task[v].phase = "post"
    <2>1. ASSUME NEW v \in Writers \ {w}
          PROVE  /\ task'[v].lock = task[v].lock /\ task'[v].seen = task[v].seen
                 /\ Waits(v)' = Waits(v) /\ Inside(v)' = Inside(v)
                 /\ task'[v].phase = "post" <=> task[v].phase = "post"
      <3>1. task[v] \in TaskType
        BY DEF Types
      <3>2. CASE task'[v] = task[v]
        BY <3>2 DEF Waits, Inside
      <3>3. CASE task'[v] = [task[v] EXCEPT !.phase = "woken"] /\ task[v].phase = "queued"
        <4>1. task'[v].phase = "woken"
          BY <3>1, <3>3 DEF TaskType
        <4>2. QED BY <3>1, <3>3, <4>1 DEF TaskType, Waits, Inside
      <3>4. QED BY <1>4, <3>2, <3>3
    <2>2. QED BY <2>1
  <1>6. Waits(w)' = FALSE /\ Inside(w)' = FALSE /\ task'[w].phase = "done"
    BY <1>3 DEF Types, TaskType, Waits, Inside
  <1>7. /\ ~lock'[l].held /\ \A k \in Writers \ {l} : lock'[k] = lock[k]
        /\ \A k \in Writers : lock'[k].queue = lock[k].queue
    BY <1>1, <1>2 DEF Types, LockType
  <1>8. Types'
    <2>1. ASSUME NEW v \in Writers PROVE task'[v] \in TaskType
      <3>1. task[v] \in TaskType /\ {} \subseteq Writers
        BY DEF Types
      <3>2. CASE v = w
        BY <1>3, <3>1, <3>2 DEF TaskType, Phases
      <3>3. CASE v # w /\ task'[v] = task[v]
        BY <3>1, <3>3
      <3>4. CASE v # w /\ task'[v] = [task[v] EXCEPT !.phase = "woken"]
        BY <3>1, <3>4 DEF TaskType, Phases
      <3>5. QED BY <1>4, <3>2, <3>3, <3>4
    <2>2. lock' \in [Writers -> LockType]
      BY ZenonT(60), <1>1, <1>2 DEF Types, LockType
    <2>3. QED BY <1>2, <2>1, <2>2 DEF Types
  <1>9. Queues'
    <2>1. ASSUME NEW k \in Writers, NEW v, In(v, lock[k].queue)
          PROVE  (Waits(v) /\ task[v].lock = k)'
      <3>1. v \in Writers \ {w} /\ Waits(v) /\ task[v].lock = k
        BY <1>1, <2>1 DEF Queues, In, Types, LockType
      <3>2. QED BY <1>5, <3>1
    <2>2. QED BY <1>7, <2>1 DEF Queues, In, Once
  <1>10. Locks'
    <2>1. \A v \in Writers : Waits(v)' =>
             task'[v].lock \in Writers /\ In(v, lock'[task'[v].lock].queue)
      BY <1>5, <1>6, <1>7 DEF Locks
    <2>2. ASSUME NEW v \in Writers, task'[v].phase = "woken"
          PROVE  ~lock'[task'[v].lock].held /\ lock'[task'[v].lock].queue[1] = v
      <3>1. v # w
        BY <1>6, <2>2
      <3>2. CASE task'[v] = task[v]
        BY <1>1, <1>7, <2>2, <3>1, <3>2 DEF Locks, Waits
      <3>3. CASE q[1] = v /\ task[v].lock = l
        <4>1. task'[v].lock = l
          BY <1>5, <3>1, <3>3
        <4>2. lock'[l].queue = q /\ ~lock'[l].held
          BY <1>1, <1>7
        <4>3. QED BY <3>3, <4>1, <4>2
      <3>4. QED BY <1>1, <1>4, <3>1, <3>2, <3>3
    <2>3. ASSUME NEW v \in Writers, Inside(v)'
          PROVE  task'[v].lock \in Writers /\ lock'[task'[v].lock].held
      <3>1. v # w /\ Inside(v) /\ task[v].lock # l /\ task'[v].lock = task[v].lock
        BY <1>5, <1>6, <2>3 DEF Locks
      <3>2. QED BY <1>7, <3>1 DEF Locks
    <2>4. \A u, v \in Writers :
             Inside(u)' /\ Inside(v)' /\ task'[u].lock = task'[v].lock => u = v
      BY <1>5, <1>6 DEF Locks
    <2>5. QED BY <2>1, <2>2, <2>3, <2>4 DEF Locks, In
  <1>11. OneLock'
    BY <1>5, <1>6 DEF OneLock
  <1>12. Fresh'
    <2>1. ASSUME ~torn, NEW v \in Writers, task'[v].phase = "post" PROVE FALSE
      <3>1. v # w /\ Inside(v)
        BY <1>5, <1>6, <2>1 DEF Inside
      <3>2. task[v].lock = l
        BY <2>1, <3>1 DEF OneLock
      <3>3. QED BY <3>1, <3>2 DEF Locks
    <2>2. QED BY <2>1 DEF Fresh
  <1>13. QED BY <1>8, <1>9, <1>10, <1>11, <1>12

-----------------------------------------------------------------------------
(* The inductive invariant. *)

(* A task that moves on without a lock changing hands.                     *)
LEMMA MoveKeeps ==
    ASSUME IInv, NEW w \in Writers, NEW phase \in Phases, NEW seen \in SUBSET Writers,
           task' = [task EXCEPT ![w].phase = phase, ![w].seen = seen],
           \/ ~Waits(w) /\ ~Inside(w) /\ phase \in {"idle", "making"}
           \/ Waits(w) /\ task[w].phase # "woken" /\ phase = "asleep"
           \/ Inside(w) /\ phase = "post" /\ (seen = store \/ wiped'),
           UNCHANGED <<store, entry, lock, torn>>, wiped' \in BOOLEAN, wiped => wiped',
           faults' \in 0..MaxFaults
    PROVE  IInv'
  <1> USE DEF IInv
  <1>1. task[w] \in TaskType
    BY DEF Types
  <1>2. /\ task'[w] = [phase |-> phase, lock |-> task[w].lock, seen |-> seen]
        /\ \A v \in Writers \ {w} : task'[v] = task[v]
    BY <1>1 DEF Types, TaskType
  <1>3. /\ Waits(w)' = Waits(w) /\ Inside(w)' = Inside(w) /\ task'[w].lock = task[w].lock
        /\ task'[w].phase = phase /\ phase # "woken"
    BY <1>1, <1>2 DEF Waits, Inside, TaskType
  <1>4. \A v \in Writers : /\ task'[v].lock = task[v].lock
                           /\ Waits(v)' = Waits(v) /\ Inside(v)' = Inside(v)
    BY <1>2, <1>3 DEF Waits, Inside
  <1>5. Types'
    BY <1>1 DEF Types, TaskType
  <1>6. Queues'
    <2>1. ASSUME NEW k \in Writers, NEW v, In(v, lock[k].queue) PROVE v \in Writers
      BY <2>1 DEF In, Types, LockType
    <2>2. QED BY ZenonT(60), <1>4, <2>1 DEF Queues, In, Once
  <1>7. Locks'
    <2>1. \A v \in Writers : task'[v].phase = "woken" => task[v].phase = "woken"
      BY <1>2, <1>3
    <2>2. \A v \in Writers : Waits(v)' =>
             task'[v].lock \in Writers /\ In(v, lock'[task'[v].lock].queue)
      BY <1>4 DEF Locks
    <2>3. \A v \in Writers : task'[v].phase = "woken" =>
             ~lock'[task'[v].lock].held /\ lock'[task'[v].lock].queue[1] = v
      BY <1>4, <2>1 DEF Locks
    <2>4. \A v \in Writers : Inside(v)' => task'[v].lock \in Writers /\ lock'[task'[v].lock].held
      BY <1>4 DEF Locks
    <2>5. \A u, v \in Writers :
             Inside(u)' /\ Inside(v)' /\ task'[u].lock = task'[v].lock => u = v
      BY <1>4 DEF Locks
    <2>6. QED BY <2>2, <2>3, <2>4, <2>5 DEF Locks, In
  <1>8. OneLock'
    BY <1>4 DEF OneLock
  <1>9. Fresh'
    <2>1. task'[w].seen = seen /\ task'[w].phase = phase
      BY <1>2
    <2>2. phase = "post" => seen = store \/ wiped'
      BY DEF Inside, Waits
    <2>3. QED BY <1>2, <2>1, <2>2 DEF Fresh
  <1>10. QED BY <1>5, <1>6, <1>7, <1>8, <1>9

LEMMA InvStep ==
    ASSUME IInv, [Next]_vars
    PROVE  IInv'
  <1> USE WritersAssumption
  <1>1. \A ok \in BOOLEAN : Outcome(ok) => faults' \in 0..MaxFaults
    BY DEF IInv, Types, Outcome
  <1>2. ASSUME NEW w \in Writers, FindLock(w) PROVE IInv'
    <2>1. entry \in Writers /\ task[w].phase = "idle" /\ Acquire(w, entry)
      BY <1>2 DEF FindLock, Starts, IInv, Types
    <2>2. /\ ~torn => \A v \in Writers : Inside(v) \/ Waits(v) => task[v].lock = entry
          /\ torn \in BOOLEAN
      BY DEF IInv, OneLock, Types
    <2>3. UNCHANGED <<store, entry, torn, wiped, faults>>
      BY <1>2 DEF FindLock
    <2>4. QED BY <2>1, <2>2, <2>3, AcquireKeeps
  <1>3. ASSUME NEW w \in Writers, MissLock(w) PROVE IInv'
    <2>1. task' = [task EXCEPT ![w].phase = "making", ![w].seen = task[w].seen]
      BY <1>3 DEF MissLock, IInv, Types, TaskType
    <2>2. ~Waits(w) /\ ~Inside(w) /\ task[w].seen \in SUBSET Writers /\ "making" \in Phases
      BY <1>3 DEF MissLock, Starts, Waits, Inside, IInv, Types, TaskType, Phases
    <2>3. QED BY <1>3, <2>1, <2>2, MoveKeeps DEF MissLock, IInv, Types
  <1>4. ASSUME NEW w \in Writers, MakeLock(w) PROVE IInv'
    <2>1. task[w].phase = "making" /\ Acquire(w, w) /\ entry' = w
      BY <1>4 DEF MakeLock
    <2>2. torn' = (torn \/ entry # None) /\ torn' \in BOOLEAN
      BY <1>4 DEF MakeLock
    <2>3. ~torn' => /\ ~torn
                    /\ \A v \in Writers : ~(Inside(v) \/ Waits(v))
      <3>1. \A v \in Writers : Inside(v) \/ Waits(v) => task[v].lock # None
        BY DEF IInv, Locks
      <3>2. QED BY <2>2, <3>1 DEF IInv, OneLock
    <2>4. UNCHANGED <<store, wiped, faults>>
      BY <1>4 DEF MakeLock
    <2>5. QED BY <2>1, <2>2, <2>3, <2>4, AcquireKeeps
  <1>5. CASE Evict
    <2>1. /\ entry' = None /\ UNCHANGED <<store, lock, task, wiped, faults>>
          /\ entry \in Writers /\ ~lock[entry].held
          /\ torn' = (torn \/ lock[entry].queue # <<>>)
      BY <1>5 DEF Evict, IInv, Types
    <2>2. ~torn' => \A v \in Writers : ~(Inside(v) \/ Waits(v))
      <3>1. SUFFICES ASSUME ~torn, lock[entry].queue = <<>>, NEW v \in Writers,
                            Inside(v) \/ Waits(v)
                     PROVE  FALSE
        BY <2>1
      <3>2. task[v].lock = entry
        BY <3>1 DEF IInv, OneLock
      <3>3. Waits(v)
        BY <2>1, <3>1, <3>2 DEF IInv, Locks
      <3>4. QED BY <3>1, <3>2, <3>3, EmptySeq DEF IInv, Locks, In
    <2>3. QED BY <2>1, <2>2 DEF IInv, Types, Queues, Locks, OneLock, Fresh, Waits, Inside, In, Once
  <1>6. ASSUME NEW w \in Writers, FallAsleep(w) PROVE IInv'
    <2>1. task' = [task EXCEPT ![w].phase = "asleep", ![w].seen = task[w].seen]
      BY <1>6 DEF FallAsleep, IInv, Types, TaskType
    <2>2. Waits(w) /\ task[w].phase # "woken" /\ task[w].seen \in SUBSET Writers /\ "asleep" \in Phases
      BY <1>6 DEF FallAsleep, Waits, IInv, Types, TaskType, Phases
    <2>3. QED BY <1>6, <2>1, <2>2, MoveKeeps DEF FallAsleep, IInv, Types
  <1>7. ASSUME NEW w \in Writers, Resume(w) PROVE IInv'
    <2> USE DEF IInv
    <2> DEFINE l == task[w].lock
               q == lock[l].queue
    <2>1. /\ task[w].phase = "woken" /\ Waits(w) /\ ~Inside(w) /\ l \in Writers
          /\ ~lock[l].held /\ q[1] = w /\ In(w, q) /\ q \in Seq(Writers) /\ q # <<>> /\ Once(q)
      <3>1. task[w].phase = "woken" /\ Waits(w) /\ ~Inside(w)
        BY <1>7 DEF Resume, Waits, Inside
      <3>2. l \in Writers /\ ~lock[l].held /\ q[1] = w /\ In(w, q)
        BY <3>1 DEF Locks
      <3>3. q \in Seq(Writers) /\ q # <<>> /\ Once(q)
        BY <3>2, EmptySeq DEF Types, LockType, Queues, In
      <3>4. QED BY <3>1, <3>2, <3>3
    <2>2. /\ Tail(q) \in Seq(Writers) /\ Once(Tail(q))
          /\ \A v : In(v, Tail(q)) <=> In(v, q) /\ v # w
      BY <2>1, TailQueue
    <2>3. /\ lock'[l].held /\ lock'[l].queue = Tail(q) /\ lock'[l] \in LockType
          /\ \A k \in Writers \ {l} : lock'[k] = lock[k]
          /\ lock' \in [Writers -> LockType]
      <3>0. lock[l] \in LockType
        BY <2>1 DEF Types
      <3>1. ASSUME NEW yes, lock' = [lock EXCEPT ![l].held = yes, ![l].queue = Tail(@)]
            PROVE  lock'[l] = [held |-> yes, queue |-> Tail(q), loop |-> lock[l].loop]
        BY <2>1, <3>0, <3>1 DEF Types, LockType
      <3>2. lock'[l] = [held |-> TRUE, queue |-> Tail(q), loop |-> lock[l].loop]
        BY <1>7, <3>1 DEF Resume
      <3>3. [held |-> TRUE, queue |-> Tail(q), loop |-> lock[l].loop] \in LockType
        BY <2>2, <3>0 DEF LockType
      <3>4. \A k \in Writers \ {l} : lock'[k] = lock[k]
        BY <1>7, <2>1 DEF Resume, Types
      <3>5. DOMAIN lock' = Writers /\ lock' = [k \in Writers |-> lock'[k]]
        BY <1>7 DEF Resume, Types
      <3>6. \A k \in Writers : lock'[k] \in LockType
        BY <3>2, <3>3, <3>4 DEF Types
      <3>7. QED BY <3>2, <3>3, <3>4, <3>5, <3>6
    <2>4. /\ task' = [task EXCEPT ![w] = [phase |-> "get", lock |-> l, seen |-> task[w].seen]]
          /\ UNCHANGED <<store, entry, torn, wiped, faults>>
      <3>1. task[w] \in TaskType
        BY DEF Types
      <3>2. [task[w] EXCEPT !.phase = "get"] = [phase |-> "get", lock |-> l, seen |-> task[w].seen]
        BY <3>1 DEF TaskType
      <3>3. task' = [task EXCEPT ![w] = [task[w] EXCEPT !.phase = "get"]]
        BY <1>7 DEF Resume
      <3>4. QED BY <1>7, <3>2, <3>3 DEF Resume
    <2>5. /\ task'[w].phase = "get" /\ task'[w].lock = l
          /\ Waits(w)' = FALSE /\ Inside(w)' = TRUE
          /\ \A v \in Writers \ {w} : task'[v] = task[v]
      BY <2>4 DEF Types, Waits, Inside
    <2>6. Types'
      BY <2>1, <2>3, <2>4 DEF Types, TaskType, Phases
    <2>7. Queues'
      <3>1. ASSUME NEW k \in Writers, NEW v, In(v, lock'[k].queue)
            PROVE  (Waits(v) /\ task[v].lock = k)'
        <4>1. In(v, lock[k].queue) /\ v # w
          <5>1. CASE k = l
            BY <2>2, <2>3, <3>1, <5>1
          <5>2. CASE k # l
            BY <2>1, <2>3, <3>1, <5>2 DEF Queues
          <5>3. QED BY <5>1, <5>2
        <4>2. v \in Writers /\ Waits(v) /\ task[v].lock = k
          BY <4>1 DEF Queues, In, Types, LockType
        <4>3. QED BY <2>5, <4>1, <4>2 DEF Waits
      <3>2. ASSUME NEW k \in Writers PROVE Once(lock'[k].queue)
        <4>1. CASE k = l
          BY <2>2, <2>3, <4>1
        <4>2. CASE k # l
          BY <2>3, <4>2 DEF Queues
        <4>3. QED BY <4>1, <4>2
      <3>3. QED BY <3>1, <3>2 DEF Queues, In, Once
    <2>8. \A v \in Writers \ {w} : (Inside(v) \/ task[v].phase = "woken") => task[v].lock # l
      BY <2>1 DEF Locks
    <2>9. Locks'
      <3>1. ASSUME NEW v \in Writers, Waits(v)'
            PROVE  task'[v].lock \in Writers /\ In(v, lock'[task'[v].lock].queue)
        <4>1. v # w /\ task'[v] = task[v] /\ Waits(v)
          BY <2>5, <3>1 DEF Waits
        <4>2. task[v].lock \in Writers /\ In(v, lock[task[v].lock].queue)
          BY <4>1 DEF Locks
        <4>3. CASE task[v].lock = l
          <5>1. In(v, Tail(q))
            BY <2>2, <4>1, <4>2, <4>3
          <5>2. QED BY <2>1, <2>3, <4>1, <4>3, <5>1
        <4>4. CASE task[v].lock # l
          BY <2>3, <4>1, <4>2, <4>4
        <4>5. QED BY <4>3, <4>4
      <3>2. ASSUME NEW v \in Writers, task'[v].phase = "woken"
            PROVE  ~lock'[task'[v].lock].held /\ lock'[task'[v].lock].queue[1] = v
        <4>1. v # w /\ task'[v] = task[v] /\ task[v].lock # l /\ task[v].lock \in Writers
          BY <2>5, <2>8, <3>2 DEF Locks, Waits
        <4>2. QED BY <2>3, <3>2, <4>1 DEF Locks
      <3>3. ASSUME NEW v \in Writers, Inside(v)'
            PROVE  task'[v].lock \in Writers /\ lock'[task'[v].lock].held
        <4>1. CASE v = w
          BY <2>1, <2>3, <2>5, <4>1
        <4>2. CASE v # w
          <5>1. Inside(v) /\ task'[v] = task[v]
            BY <2>5, <3>3, <4>2 DEF Inside
          <5>2. task[v].lock \in Writers /\ lock[task[v].lock].held
            BY <5>1 DEF Locks
          <5>3. QED BY <2>3, <2>8, <4>2, <5>1, <5>2
        <4>3. QED BY <4>1, <4>2
      <3>4. \A u, v \in Writers :
               Inside(u)' /\ Inside(v)' /\ task'[u].lock = task'[v].lock => u = v
        BY <2>5, <2>8 DEF Locks, Inside
      <3>5. QED BY <3>1, <3>2, <3>3, <3>4 DEF Locks, In
    <2>10. OneLock' /\ Fresh'
      BY <2>1, <2>4, <2>5 DEF OneLock, Fresh, Waits, Inside
    <2>11. QED BY <2>6, <2>7, <2>9, <2>10
  <1>8. ASSUME NEW w \in Writers, NEW ok \in BOOLEAN, Get(w, ok) PROVE IInv'
    <2>1. /\ Inside(w) /\ faults' \in 0..MaxFaults
          /\ UNCHANGED <<store, entry, torn>>
          /\ wiped' \in BOOLEAN /\ (wiped => wiped') /\ store \subseteq Writers
      BY <1>1, <1>8 DEF Get, Inside, IInv, Types
    <2>2. CASE ok \/ w \in Insistent
      <3>1. /\ task' = [task EXCEPT ![w].phase = "post", ![w].seen = IF ok THEN store ELSE {}]
            /\ UNCHANGED lock
        BY <1>8, <2>2 DEF Get
      <3>2. (IF ok THEN store ELSE {}) = store \/ wiped'
        BY <1>8, <2>2 DEF Get
      <3>3. (IF ok THEN store ELSE {}) \in SUBSET Writers /\ "post" \in Phases
        BY <2>1 DEF Phases
      <3>4. QED BY <2>1, <3>1, <3>2, <3>3, MoveKeeps
    <2>3. CASE ~(ok \/ w \in Insistent)
      BY <1>8, <2>1, <2>3, ReleaseKeeps DEF Get
    <2>4. QED BY <2>2, <2>3
  <1>9. ASSUME NEW w \in Writers, NEW ok \in BOOLEAN, Post(w, ok) PROVE IInv'
    <2>1. /\ Inside(w) /\ faults' \in 0..MaxFaults /\ Release(w, "done")
          /\ UNCHANGED <<entry, torn, wiped>> /\ wiped \in BOOLEAN
      BY <1>1, <1>9 DEF Post, Inside, IInv, Types
    <2>2. store' \subseteq Writers
      BY <1>9 DEF Post, IInv, Types, TaskType
    <2>3. QED BY <2>1, <2>2, ReleaseKeeps
  <1>10. CASE UNCHANGED vars
    BY <1>10 DEF vars, IInv, Types, Queues, Locks, OneLock, Fresh, Waits, Inside, In, Once
  <1>11. QED BY <1>2, <1>3, <1>4, <1>5, <1>6, <1>7, <1>8, <1>9, <1>10 DEF Next, Begin, Proceed

LEMMA InvAlways == Spec => []IInv
  <1>1. Init => IInv
    <2> USE WritersAssumption DEF Init
    <2>1. ASSUME Init PROVE Types
      <3>1. FreeLock \in LockType /\ Idle \in TaskType
        BY EmptySeq DEF FreeLock, Idle, LockType, TaskType, Phases
      <3>2. lock \in [Writers -> LockType] /\ task \in [Writers -> TaskType]
        BY <2>1, <3>1
      <3>3. 0 \in 0..MaxFaults
        BY WritersAssumption DEF WritersAssumption
      <3>4. QED BY <2>1, <3>2, <3>3 DEF Types
    <2>2. ASSUME Init PROVE \A w \in Writers : /\ ~Waits(w) /\ ~Inside(w) /\ lock[w].queue = <<>>
                                              /\ task[w].phase = "idle"
      BY <2>2 DEF Idle, FreeLock, Waits, Inside
    <2>3. ASSUME Init PROVE Queues
      <3>1. Len(<<>>) = 0 /\ 1..0 = {}
        BY EmptySeq
      <3>2. Once(<<>>) /\ \A w : ~In(w, <<>>)
        BY <3>1 DEF Once, In
      <3>3. QED BY <2>2, <2>3, <3>2 DEF Queues
    <2>4. ASSUME Init PROVE Locks /\ OneLock /\ Fresh
      BY <2>2, <2>4 DEF Locks, OneLock, Fresh
    <2>5. QED BY <2>1, <2>3, <2>4 DEF IInv
  <1>2. QED BY <1>1, InvStep, PTL DEF Spec

(* Every variable keeps its type, and the queues their order.              *)
THEOREM TicketTypeCorrect == Spec => []TypeOK
  <1>1. IInv => TypeOK
    BY TypesAndQueues DEF IInv
  <1>2. QED BY <1>1, InvAlways, PTL

(* At most one writer at a time, unless a second lock came into use.       *)
THEOREM OneWriterAtATime == Spec => []OneWriter
  <1>1. IInv => OneWriter
    BY DEF IInv, OneLock, Locks, OneWriter
  <1>2. QED BY <1>1, InvAlways, PTL

(* Every write is one atomic update of its own key, unless a second lock   *)
(* came into use or labels were posted unread.                             *)
THEOREM WritesAreAtomic == Spec => UpdatesAreAtomic
  <1>1. Init => Map!Init
    BY DEF Init, Map!Init
  <1>2. ASSUME IInv, [Next]_vars PROVE [Map!Next]_(Map!vars)
    <2> DEFINE broken == torn \/ wiped
    <2>0. torn \in BOOLEAN /\ wiped \in BOOLEAN
      BY <1>2 DEF IInv, Types
    <2>1. ASSUME UNCHANGED <<store, wiped>>, broken => broken'
          PROVE  [Map!Next]_(Map!vars)
      <3>1. CASE broken' = broken
        BY <2>1, <3>1 DEF Map!vars
      <3>2. CASE broken' # broken
        BY <2>0, <2>1, <3>2 DEF Map!Next, Map!Break
      <3>3. QED BY <3>1, <3>2
    <2>2. ASSUME NEW w \in Writers, NEW ok \in BOOLEAN, Get(w, ok) PROVE [Map!Next]_(Map!vars)
      <3>1. CASE broken' = broken
        BY <2>2, <3>1 DEF Get, Map!vars
      <3>2. CASE broken' # broken
        BY <2>0, <2>2, <3>2 DEF Get, Map!Next, Map!Break
      <3>3. QED BY <3>1, <3>2
    <2>3. ASSUME NEW w \in Writers, NEW ok \in BOOLEAN, Post(w, ok) PROVE [Map!Next]_(Map!vars)
      <3>1. /\ broken' = broken /\ store' \in SUBSET Writers /\ task[w].phase = "post"
            /\ store' = IF ok THEN task[w].seen \cup {w} ELSE store
        BY <1>2, <2>3 DEF Post, IInv, Types, TaskType
      <3>2. CASE broken
        BY <3>1, <3>2 DEF Map!Next, Map!Clobber
      <3>3. CASE ~broken
        <4>1. task[w].seen = store
          BY <1>2, <3>1, <3>3 DEF IInv, Fresh
        <4>2. store' = store \cup {w} \/ store' = store
          BY <3>1, <4>1
        <4>3. QED BY <3>1, <4>2 DEF Map!Next, Map!Update, Map!vars
      <3>4. QED BY <3>2, <3>3
    <2>4. ASSUME NEW w \in Writers,
                 FindLock(w) \/ MissLock(w) \/ MakeLock(w) \/ FallAsleep(w) \/ Resume(w)
          PROVE  [Map!Next]_(Map!vars)
      BY <2>0, <2>1, <2>4 DEF FindLock, MissLock, MakeLock, FallAsleep, Resume
    <2>5. CASE Evict \/ UNCHANGED vars
      BY <2>0, <2>1, <2>5 DEF Evict, vars
    <2>6. QED BY <1>2, <2>2, <2>3, <2>4, <2>5 DEF Next, Begin, Proceed
  <1>3. QED BY <1>1, <1>2, InvAlways, PTL DEF Spec, UpdatesAreAtomic, Map!Spec

-----------------------------------------------------------------------------
(* No wake-up is lost on the main loop.  A lock that is held has a writer  *)
(* inside; those who wait for a lock are all of the loop it is bound to,   *)
(* so that nobody asleep in a sweep's thread stands before a writer of the *)
(* main loop, and whoever leaves the lock wakes the next.                  *)

ServedInv ==
    /\ \A l \in Writers : lock[l].held => \E v \in Writers : Inside(v) /\ task[v].lock = l
    /\ \A w \in Writers : Waits(w) => lock[task[w].lock].loop = LoopOf(w)
    /\ \A w \in Loopers : task[w].phase # "asleep"
    /\ LoopersServed

(* Who takes a lock, or joins its queue, leaves the others served.         *)
LEMMA AcquireServes ==
    ASSUME IInv, ServedInv, NEW w \in Writers, NEW l \in Writers,
           task[w].phase \in {"idle", "making"}, Acquire(w, l)
    PROVE  ServedInv'
  <1> USE WritersAssumption
  <1> DEFINE New(phase) == [phase |-> phase, lock |-> l, seen |-> {}]
             q == lock[l].queue
  <1>1. /\ lock \in [Writers -> LockType] /\ task \in [Writers -> TaskType]
        /\ Loopers \subseteq Writers
        /\ \A v \in Writers : LoopOf(v) \in {"main", "sweep"} /\ (LoopOf(v) = "main" <=> v \in Loopers)
        /\ None \notin {"main", "sweep"}
    BY DEF IInv, Types, Writers, LoopOf, None
  <1>2. ASSUME NEW phase \in {"get", "queued", "failed"}, task' = [task EXCEPT ![w] = New(phase)]
        PROVE  /\ task'[w] = New(phase) /\ \A v \in Writers \ {w} : task'[v] = task[v]
               /\ \A v \in Writers : /\ Inside(v) => Inside(v)' /\ task'[v].lock = task[v].lock
                                     /\ task[v].phase = "woken" => v # w
               /\ Waits(w)' => phase = "queued"
    BY <1>1, <1>2 DEF Inside, Waits
  <1>3. CASE ~lock[l].held /\ q = <<>>
    <2>1. lock' = [lock EXCEPT ![l].held = TRUE] /\ task' = [task EXCEPT ![w] = New("get")]
      BY <1>3 DEF Acquire
    <2>2. /\ \A k \in Writers \ {l} : lock'[k] = lock[k]
          /\ lock'[l].loop = lock[l].loop
      BY <1>1, <2>1 DEF LockType
    <2>3. Inside(w)' /\ ~Waits(w)' /\ task'[w].lock = l /\ task'[w].phase # "asleep"
      BY <1>1, <1>2, <2>1 DEF Inside, Waits
    <2>4. \A v \in Writers \ {w} : task'[v] = task[v]
      BY <1>2, <2>1
    <2>5. QED BY <1>1, <2>2, <2>3, <2>4 DEF ServedInv, LoopersServed, IInv, Locks, Inside, Waits
  <1>4. CASE (lock[l].held \/ q # <<>>) /\ lock[l].loop \in {None, LoopOf(w)}
    <2>1. /\ lock' = [lock EXCEPT ![l].queue = Append(@, w), ![l].loop = LoopOf(w)]
          /\ task' = [task EXCEPT ![w] = New("queued")]
      BY <1>4 DEF Acquire
    <2>2. /\ \A k \in Writers \ {l} : lock'[k] = lock[k]
          /\ lock'[l].held = lock[l].held /\ lock'[l].loop = LoopOf(w)
      BY <1>1, <2>1 DEF LockType
    <2>3. ~Inside(w)' /\ ~Inside(w) /\ task'[w].lock = l /\ task'[w].phase = "queued"
      BY <1>1, <1>2, <2>1 DEF Inside
    <2>4. \A v \in Writers \ {w} : task'[v] = task[v]
      BY <1>2, <2>1
    <2>5. ASSUME NEW k \in Writers, lock'[k].held
          PROVE  \E v \in Writers : Inside(v)' /\ task'[v].lock = k
      <3>1. PICK v \in Writers : Inside(v) /\ task[v].lock = k
        BY <2>2, <2>5 DEF ServedInv
      <3>2. QED BY <2>3, <2>4, <3>1 DEF Inside
    <2>6. ASSUME NEW v \in Writers, Waits(v)' PROVE lock'[task'[v].lock].loop = LoopOf(v)
      <3>1. CASE v = w
        BY <2>2, <2>3, <3>1
      <3>2. CASE v # w
        <4>1. /\ Waits(v) /\ task'[v] = task[v] /\ task[v].lock \in Writers
              /\ lock[task[v].lock].loop = LoopOf(v)
          BY <2>4, <2>6, <3>2 DEF Waits, ServedInv, IInv, Locks
        <4>2. QED BY <1>1, <1>4, <2>2, <4>1
      <3>3. QED BY <3>1, <3>2
    <2>7. ASSUME w \in Loopers
          PROVE  \E v \in Writers : task[v].lock = l /\ (Inside(v) \/ task[v].phase = "woken")
      <3>1. CASE lock[l].held
        BY <3>1 DEF ServedInv
      <3>2. CASE q # <<>>
        <4>1. In(q[1], q) /\ q[1] \in Writers
          BY <1>1, <3>2, EmptySeq DEF In, LockType
        <4>2. Waits(q[1]) /\ task[q[1]].lock = l
          BY <4>1 DEF IInv, Queues
        <4>3. lock[l].loop = LoopOf(q[1])
          BY <4>1, <4>2 DEF ServedInv
        <4>4. q[1] \in Loopers
          BY <1>1, <1>4, <2>7, <4>1, <4>3
        <4>5. QED BY <4>2, <4>4 DEF ServedInv, LoopersServed
      <3>3. QED BY <1>4, <3>1, <3>2
    <2>8. ASSUME NEW v \in Loopers, Waits(v)'
          PROVE  \E u \in Writers : task'[u].lock = task'[v].lock /\ (Inside(u)' \/ task'[u].phase = "woken")
      <3>1. \E u \in Writers : task[u].lock = task'[v].lock /\ (Inside(u) \/ task[u].phase = "woken")
        <4>1. CASE v = w
          BY <2>3, <2>7, <4>1
        <4>2. CASE v # w
          BY <1>1, <2>4, <2>8, <4>2 DEF Waits, ServedInv, LoopersServed
        <4>3. QED BY <4>1, <4>2
      <3>2. QED BY <2>3, <2>4, <3>1 DEF Inside
    <2>9. \A v \in Loopers : task'[v].phase # "asleep"
      BY <1>1, <2>3, <2>4 DEF ServedInv
    <2>10. QED BY <2>5, <2>6, <2>8, <2>9 DEF ServedInv, LoopersServed
  <1>5. CASE ~(~lock[l].held /\ q = <<>>)
             /\ ~((lock[l].held \/ q # <<>>) /\ lock[l].loop \in {None, LoopOf(w)})
    <2>1. lock' = lock /\ task' = [task EXCEPT ![w] = New("failed")]
      BY <1>5 DEF Acquire
    <2>2. /\ task'[w].phase = "failed" /\ ~Inside(w)' /\ ~Inside(w) /\ ~Waits(w)'
          /\ \A v \in Writers \ {w} : task'[v] = task[v]
      BY <1>1, <1>2, <2>1 DEF Inside, Waits
    <2>3. QED BY <1>1, <2>1, <2>2 DEF ServedInv, LoopersServed, Inside, Waits
  <1>6. QED BY <1>3, <1>4, <1>5

(* Who leaves a lock wakes the next, if he is of the main loop.            *)
LEMMA ReleaseServes ==
    ASSUME IInv, ServedInv, NEW w \in Writers, Inside(w), Release(w, "done")
    PROVE  ServedInv'
  <1> USE WritersAssumption
  <1> DEFINE l == task[w].lock
             q == lock[l].queue
             next == IF q = <<>> THEN None ELSE Head(q)
  <1>1. /\ lock \in [Writers -> LockType] /\ task \in [Writers -> TaskType]
        /\ Loopers \subseteq Writers
        /\ \A v \in Writers : LoopOf(v) \in {"main", "sweep"} /\ (LoopOf(v) = "main" <=> v \in Loopers)
        /\ l \in Writers /\ lock[l].held
    BY DEF IInv, Types, Locks, Writers, LoopOf
  <1>2. /\ lock' = [lock EXCEPT ![l].held = FALSE]
        /\ task' = [v \in Writers |->
              CASE v = w -> [task[w] EXCEPT !.phase = "done", !.seen = {}]
                [] v = next /\ task[v].phase = "queued" -> [task[v] EXCEPT !.phase = "woken"]
                [] OTHER -> task[v]]
    BY DEF Release
  <1> HIDE DEF next
  <1>3. /\ ~lock'[l].held
        /\ \A k \in Writers : lock'[k].loop = lock[k].loop /\ (k # l => lock'[k].held = lock[k].held)
    BY <1>1, <1>2 DEF LockType
  <1>4. task'[w].phase = "done" /\ ~Inside(w)' /\ ~Waits(w)'
    BY <1>1, <1>2 DEF TaskType, Inside, Waits
  <1>5. ASSUME NEW v \in Writers \ {w}
        PROVE  /\ task'[v].lock = task[v].lock
               /\ v = next /\ task[v].phase = "queued" => task'[v].phase = "woken"
               /\ ~(v = next /\ task[v].phase = "queued") => task'[v].phase = task[v].phase
    <2>1. task[v] \in TaskType
      BY <1>1
    <2>2. CASE v = next /\ task[v].phase = "queued"
      BY <1>2, <2>1, <2>2 DEF TaskType
    <2>3. CASE ~(v = next /\ task[v].phase = "queued")
      BY <1>2, <2>3
    <2>4. QED BY <2>2, <2>3
  <1>6. \A v \in Writers \ {w} : Inside(v)' = Inside(v) /\ Waits(v)' = Waits(v)
    BY <1>5 DEF Inside, Waits
  <1>7. ASSUME NEW k \in Writers, lock'[k].held
        PROVE  \E v \in Writers : Inside(v)' /\ task'[v].lock = k
    <2>1. k # l /\ \E v \in Writers : Inside(v) /\ task[v].lock = k
      BY <1>3, <1>7 DEF ServedInv
    <2>2. QED BY <1>5, <1>6, <2>1
  <1>8. \A v \in Writers : Waits(v)' => lock'[task'[v].lock].loop = LoopOf(v)
    BY <1>3, <1>4, <1>5, <1>6 DEF ServedInv, IInv, Locks
  <1>9. \A v \in Loopers : task'[v].phase # "asleep"
    BY <1>1, <1>4, <1>5 DEF ServedInv
  <1>10. ASSUME NEW v \in Loopers, Waits(v)'
         PROVE  \E u \in Writers : task'[u].lock = task'[v].lock /\ (Inside(u)' \/ task'[u].phase = "woken")
    <2>1. /\ v \in Writers \ {w} /\ Waits(v) /\ task'[v].lock = task[v].lock
          /\ In(v, lock[task[v].lock].queue)
      BY <1>1, <1>4, <1>5, <1>6, <1>10 DEF IInv, Locks
    <2>2. CASE task[v].lock = l
      <3>1. q # <<>> /\ q \in Seq(Writers) /\ Once(q)
        BY <1>1, <2>1, <2>2, EmptySeq DEF In, LockType, IInv, Queues
      <3>2. next = q[1] /\ In(q[1], q)
        BY <3>1, TailQueue DEF next
      <3>3. next \in Writers /\ Waits(next) /\ task[next].lock = l
        BY <1>1, <3>1, <3>2, EmptySeq DEF IInv, Queues
      <3>4. next \in Loopers
        BY <1>1, <2>1, <2>2, <3>3 DEF ServedInv
      <3>5. task[next].phase = "queued" /\ next # w
        BY <1>1, <3>3, <3>4 DEF Waits, Inside, ServedInv, IInv, Locks
      <3>6. task'[next].phase = "woken" /\ task'[next].lock = l
        BY <1>5, <3>3, <3>5
      <3>7. QED BY <2>1, <2>2, <3>3, <3>6
    <2>3. CASE task[v].lock # l
      <3>1. PICK u \in Writers : task[u].lock = task[v].lock /\ (Inside(u) \/ task[u].phase = "woken")
        BY <2>1 DEF ServedInv, LoopersServed
      <3>2. u # w
        BY <2>3, <3>1
      <3>3. QED BY <1>5, <1>6, <2>1, <3>1, <3>2
    <2>4. QED BY <2>2, <2>3
  <1>11. QED BY <1>7, <1>8, <1>9, <1>10 DEF ServedInv, LoopersServed

LEMMA ServedStep ==
    ASSUME IInv, ServedInv, [Next]_vars
    PROVE  ServedInv'
  <1> USE WritersAssumption
  <1>1. /\ lock \in [Writers -> LockType] /\ task \in [Writers -> TaskType]
        /\ Loopers \subseteq Writers
    BY DEF IInv, Types, Writers
  <1>2. ASSUME NEW w \in Writers, FindLock(w) PROVE ServedInv'
    BY <1>2, AcquireServes DEF FindLock, Starts, IInv, Types
  <1>3. ASSUME NEW w \in Writers, MakeLock(w) PROVE ServedInv'
    BY <1>3, AcquireServes DEF MakeLock
  <1>4. ASSUME NEW w \in Writers, NEW phase \in Phases, UNCHANGED lock,
               \A v \in Writers \ {w} : task'[v] = task[v],
               task'[w].lock = task[w].lock, task'[w].phase = phase,
               \/ task[w].phase = "idle" /\ phase = "making"
               \/ task[w].phase = "queued" /\ phase = "asleep" /\ w \notin Loopers
               \/ task[w].phase = "get" /\ phase = "post"
        PROVE  ServedInv'
    <2>1. \A v \in Writers : /\ task'[v].lock = task[v].lock
                             /\ Inside(v)' = Inside(v) /\ Waits(v)' = Waits(v)
                             /\ task'[v].phase = "woken" <=> task[v].phase = "woken"
                             /\ v \in Loopers /\ task'[v].phase = "asleep" => task[v].phase = "asleep"
      BY <1>4 DEF Inside, Waits
    <2>2. QED BY <1>1, <1>4, <2>1 DEF ServedInv, LoopersServed
  <1>5. ASSUME NEW w \in Writers, MissLock(w) \/ FallAsleep(w) PROVE ServedInv'
    BY <1>1, <1>4, <1>5 DEF MissLock, FallAsleep, Starts, Phases, TaskType
  <1>6. ASSUME NEW w \in Writers, NEW ok \in BOOLEAN, Get(w, ok) PROVE ServedInv'
    <2>1. CASE ok \/ w \in Insistent
      BY <1>1, <1>4, <1>6, <2>1 DEF Get, Phases, TaskType
    <2>2. CASE ~(ok \/ w \in Insistent)
      BY <1>6, <2>2, ReleaseServes DEF Get, Inside
    <2>3. QED BY <2>1, <2>2
  <1>7. ASSUME NEW w \in Writers, NEW ok \in BOOLEAN, Post(w, ok) PROVE ServedInv'
    BY <1>7, ReleaseServes DEF Post, Inside
  <1>8. ASSUME NEW w \in Writers, Resume(w) PROVE ServedInv'
    <2> DEFINE l == task[w].lock
    <2>1. task[w].phase = "woken" /\ l \in Writers /\ ~Waits(w)' /\ Inside(w)'
          /\ task'[w].lock = l /\ task'[w].phase = "get"
          /\ \A v \in Writers \ {w} : task'[v] = task[v]
      BY <1>1, <1>8 DEF Resume, Waits, Inside, TaskType, IInv, Locks
    <2>2. \A k \in Writers : lock'[k].loop = lock[k].loop /\ (k # l => lock'[k] = lock[k])
      BY <1>1, <1>8, <2>1 DEF Resume, LockType
    <2>3. \A k \in Writers : lock'[k].held => \E v \in Writers : Inside(v)' /\ task'[v].lock = k
      BY <2>1, <2>2 DEF ServedInv, Inside
    <2>4. \A v \in Writers : Waits(v)' => lock'[task'[v].lock].loop = LoopOf(v)
      BY <2>1, <2>2 DEF ServedInv, Waits, IInv, Locks
    <2>5. \A v \in Loopers : task'[v].phase # "asleep"
      BY <1>1, <2>1 DEF ServedInv
    <2>6. LoopersServed'
      BY <1>1, <2>1 DEF ServedInv, LoopersServed, Waits, Inside
    <2>7. QED BY <2>3, <2>4, <2>5, <2>6 DEF ServedInv
  <1>9. CASE Evict \/ UNCHANGED vars
    BY <1>9 DEF Evict, vars, ServedInv, LoopersServed, Waits, Inside
  <1>10. QED BY <1>2, <1>3, <1>5, <1>6, <1>7, <1>8, <1>9 DEF Next, Begin, Proceed

(* Nobody on the main loop waits for a lock that is never handed on: the   *)
(* safety half of LoopersFinish.                                           *)
THEOREM LoopersAlwaysServed == Spec => []LoopersServed
  <1>1. Init => ServedInv
    BY WritersAssumption DEF Init, ServedInv, LoopersServed, FreeLock, Idle, Waits, Inside, Writers
  <1>2. ServedInv => LoopersServed
    BY DEF ServedInv
  <1>3. QED BY <1>1, <1>2, InvAlways, ServedStep, PTL DEF Spec

=============================================================================
