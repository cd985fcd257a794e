---------------------------- MODULE TimerProofs ----------------------------
(***************************************************************************)
(* Proofs about Timer, for every set of tasks and delays, if no interrupt  *)
(* comes inside a thread's add_timer_task.                                 *)
(***************************************************************************)
EXTENDS Timer, ListLemmas

TaskType == [func : Func, expire : Nat]

\* The variables' types.
TypeOK ==
    /\ tasks \in Seq(TaskType)
    /\ cval \in Nat
    /\ add \in {NoAdd, [pc |-> "read"]} \cup [pc : {"write"}, value : Nat]

\* The tasks are in the order of their times.
InOrder(l) == \A i, j \in 1 .. Len(l) : i <= j => l[i].expire <= l[j].expire

\* A call of add_timer_task still sees the list it has inserted into.
AddKnows ==
    /\ add.pc = "read" => tasks # <<>>
    /\ add.pc = "write" => tasks # <<>> /\ add.value = tasks[1].expire

\* Between calls the comparator stands at the first task.
FirstArmed == add = NoAdd /\ tasks # <<>> => cval = tasks[1].expire

\* The inductive invariant.
IInv ==
    /\ TypeOK
    /\ InOrder(tasks)
    /\ AddKnows
    /\ FirstArmed
    /\ NeverEarly

-----------------------------------------------------------------------------
(* The list of tasks.                                                      *)

LEMMA TaskFields ==
    ASSUME NEW t \in TaskType
    PROVE  t.func \in Func /\ t.expire \in Nat
BY DEF TaskType

LEMMA TaskTyped ==
    ASSUME NEW k \in Func, NEW d \in Nat
    PROVE  Task(k, d) \in TaskType /\ Task(k, d).expire = d /\ Task(k, d).func = k
BY DEF Task, TaskType

\* The list after a task is put in at position i.
LEMMA InsertTask ==
    ASSUME NEW l \in Seq(TaskType), NEW t \in TaskType, NEW i \in 1 .. (Len(l) + 1)
    PROVE  /\ InsertAt(l, i, t) \in Seq(TaskType)
           /\ Len(InsertAt(l, i, t)) = Len(l) + 1
           /\ \A j \in 1 .. (Len(l) + 1) :
                InsertAt(l, i, t)[j] = IF j < i THEN l[j] ELSE IF j = i THEN t ELSE l[j - 1]
<1>1. /\ InsertAt(l, i, t) \in Seq(TaskType) /\ Len(InsertAt(l, i, t)) = Len(l) + 1
      /\ \A j \in 1 .. (Len(l) + 1) : InsertAt(l, i, t)[j] = EntryAfter(l, i, t, j)
  BY InsertEntry, Zenon
<1> QED
  BY <1>1, Zenon DEF EntryAfter

\* Inserting keeps the order: the new task comes behind those that are due at
\* the same time.
LEMMA InsertInOrder ==
    ASSUME NEW l \in Seq(TaskType), NEW t \in TaskType, InOrder(l)
    PROVE  Insert(l, t) \in Seq(TaskType) /\ Insert(l, t) # <<>> /\ InOrder(Insert(l, t))
<1> DEFINE n == Len(l)
           I == {i \in 1 .. n : l[i].expire > t.expire}
           s == Insert(l, t)
<1>1. /\ n \in Nat /\ t.expire \in Nat
      /\ \A i \in 1 .. n : l[i] \in TaskType
  BY TaskFields
<1>2. \A i \in 1 .. n : l[i].expire \in Nat
  BY <1>1, TaskFields
<1>3. s = IF (IF I # {} THEN Min(I) ELSE 0) = 0 THEN Append(l, t)
          ELSE InsertAt(l, IF I # {} THEN Min(I) ELSE 0, t)
  BY DEF Insert, SelectInSeq
<1>4. CASE I = {}
  <2>1. s = Append(l, t)
    BY <1>3, <1>4
  <2>2. /\ s \in Seq(TaskType) /\ Len(s) = n + 1 /\ s # <<>>
        /\ \A i \in 1 .. n : s[i] = l[i]
        /\ s[n + 1] = t
    BY <2>1
  <2> HIDE DEF s
  <2>3. \A i \in 1 .. n : l[i].expire <= t.expire
    BY <1>1, <1>2, <1>4
  <2> HIDE DEF n, I
  <2>4. ASSUME NEW i \in 1 .. (n + 1), NEW j \in 1 .. (n + 1), i <= j
        PROVE  s[i].expire <= s[j].expire
    <3>1. CASE j \in 1 .. n
      <4>1. i \in 1 .. n /\ s[i] = l[i] /\ s[j] = l[j]
        BY <1>1, <2>2, <2>4, <3>1
      <4> QED
        BY <2>4, <3>1, <4>1 DEF InOrder, n
    <3>2. CASE j = n + 1 /\ i \in 1 .. n
      BY <2>2, <2>3, <3>2
    <3>3. CASE j = n + 1 /\ i = n + 1
      BY <1>1, <2>2, <3>3
    <3> QED
      BY <1>1, <3>1, <3>2, <3>3
  <2> QED
    BY <2>2, <2>4 DEF InOrder, s
<1>5. CASE I # {}
  <2> DEFINE m == Min(I)
  <2>1. m \in I /\ \A y \in I : m <= y
    <3>1. I \in SUBSET Nat /\ I # {}
      BY <1>5
    <3> HIDE DEF I
    <3> QED
      BY <3>1, MinIsLeast
  <2> HIDE DEF m
  <2>2. m \in 1 .. n /\ l[m].expire > t.expire /\ m # 0
    BY <1>1, <2>1
  <2>3. s = InsertAt(l, m, t)
    BY <1>3, <1>5, <2>2 DEF m
  <2>4. /\ s \in Seq(TaskType) /\ Len(s) = n + 1 /\ s # <<>>
        /\ \A j \in 1 .. (n + 1) :
              s[j] = IF j < m THEN l[j] ELSE IF j = m THEN t ELSE l[j - 1]
    <3>1. /\ s \in Seq(TaskType) /\ Len(s) = n + 1
          /\ \A j \in 1 .. (n + 1) :
                s[j] = IF j < m THEN l[j] ELSE IF j = m THEN t ELSE l[j - 1]
      <4>1. m \in 1 .. (Len(l) + 1)
        BY <1>1, <2>2
      <4>2. /\ InsertAt(l, m, t) \in Seq(TaskType)
            /\ Len(InsertAt(l, m, t)) = Len(l) + 1
            /\ \A j \in 1 .. (Len(l) + 1) :
                  InsertAt(l, m, t)[j] = IF j < m THEN l[j] ELSE IF j = m THEN t ELSE l[j - 1]
        BY <4>1, InsertTask, ZenonT(40)
      <4> HIDE DEF s
      <4> QED
        BY <2>3, <4>2
    <3> HIDE DEF s, n
    <3>2. s # <<>>
      BY <1>1, <3>1
    <3> QED
      BY <3>1, <3>2
  <2>5. \A i \in 1 .. n : i < m => l[i].expire <= t.expire
    BY <1>1, <1>2, <2>1, <2>2
  <2>6. \A i, j \in 1 .. n : i <= j => l[i].expire <= l[j].expire
    BY DEF InOrder
  <2> HIDE DEF s, n, I
  <2>7. \A j \in 1 .. n : m <= j => t.expire <= l[j].expire
    BY <1>1, <1>2, <2>2, <2>6
  <2>8. ASSUME NEW i \in 1 .. (n + 1), NEW j \in 1 .. (n + 1), i <= j
        PROVE  s[i].expire <= s[j].expire
    <3>1. CASE j < m
      <4>1. i \in 1 .. n /\ j \in 1 .. n /\ s[i] = l[i] /\ s[j] = l[j]
        BY <1>1, <2>2, <2>4, <2>8, <3>1
      <4> QED
        BY <2>6, <2>8, <4>1
    <3>2. CASE j = m
      <4>1. s[j] = t /\ (i = m \/ (i < m /\ i \in 1 .. n))
        BY <1>1, <2>2, <2>4, <2>8, <3>2
      <4> QED
        BY <1>1, <2>2, <2>4, <2>5, <4>1
    <3>3. CASE j > m
      <4>1. s[j] = l[j - 1] /\ j - 1 \in 1 .. n /\ m <= j - 1
        BY <1>1, <2>2, <2>4, <3>3
      <4>2. CASE i < m
        <5>1. s[i] = l[i] /\ i \in 1 .. n /\ i <= j - 1
          BY <1>1, <2>2, <2>4, <3>3, <4>2
        <5> QED
          BY <2>6, <4>1, <5>1
      <4>3. CASE i = m
        <5>1. s[i] = t
          BY <1>1, <2>2, <2>4, <4>3
        <5> QED
          BY <2>7, <4>1, <5>1
      <4>4. CASE i > m
        <5>1. s[i] = l[i - 1] /\ i - 1 \in 1 .. n /\ i - 1 <= j - 1
          BY <1>1, <2>2, <2>4, <2>8, <4>4
        <5> QED
          BY <2>6, <4>1, <5>1
      <4> QED
        BY <1>1, <2>2, <4>2, <4>3, <4>4
    <3> QED
      BY <1>1, <2>2, <3>1, <3>2, <3>3
  <2> QED
    BY <2>4, <2>8 DEF InOrder, s
<1> QED
  BY <1>4, <1>5

\* Unlinking the first task keeps the order of the others.
LEMMA TailInOrder ==
    ASSUME NEW l \in Seq(TaskType), l # <<>>, InOrder(l)
    PROVE  /\ Head(l) = l[1] /\ l[1] \in TaskType
           /\ Tail(l) \in Seq(TaskType) /\ InOrder(Tail(l))
<1>1. /\ Head(l) = l[1] /\ l[1] \in TaskType /\ Len(l) \in Nat \ {0}
      /\ Tail(l) \in Seq(TaskType) /\ Len(Tail(l)) = Len(l) - 1
      /\ \A i \in 1 .. (Len(l) - 1) : Tail(l)[i] = l[i + 1]
  OBVIOUS
<1>2. ASSUME NEW i \in 1 .. Len(Tail(l)), NEW j \in 1 .. Len(Tail(l)), i <= j
      PROVE  Tail(l)[i].expire <= Tail(l)[j].expire
  <2>1. /\ i + 1 \in 1 .. Len(l) /\ j + 1 \in 1 .. Len(l) /\ i + 1 <= j + 1
        /\ Tail(l)[i] = l[i + 1] /\ Tail(l)[j] = l[j + 1]
    BY <1>1, <1>2
  <2> QED
    BY <2>1 DEF InOrder
<1> QED
  BY <1>1, <1>2 DEF InOrder

-----------------------------------------------------------------------------
(* One lemma per action.                                                   *)

\* What a call in progress looks like in each of its places.
LEMMA AddPlaces ==
    ASSUME TypeOK
    PROVE  /\ add.pc = "read" => add # NoAdd
           /\ add.pc = "write" => add # NoAdd /\ add.value \in Nat
           /\ add = NoAdd => add.pc # "read" /\ add.pc # "write"
BY DEF TypeOK, NoAdd

LEMMA InitInv == Init => IInv
<1> SUFFICES ASSUME Init PROVE IInv
  OBVIOUS
<1>1. TypeOK
  BY TimerAssumption DEF Init, TypeOK
<1>2. InOrder(tasks)
  BY DEF Init, InOrder
<1>3. AddKnows /\ FirstArmed
  BY DEF Init, AddKnows, FirstArmed, NoAdd
<1>4. NeverEarly
  BY DEF Init, NeverEarly, Task
<1> QED
  BY <1>1, <1>2, <1>3, <1>4 DEF IInv

\* The insertion.
LEMMA AddTaskInv ==
    ASSUME IInv, NEW k \in Func, NEW d \in Nat, AddTask(k, d)
    PROVE  IInv'
<1>1. /\ tasks \in Seq(TaskType) /\ InOrder(tasks) /\ Task(k, d) \in TaskType
      /\ tasks' = Insert(tasks, Task(k, d))
  BY TaskTyped DEF IInv, TypeOK, AddTask
<1>2. tasks' \in Seq(TaskType) /\ tasks' # <<>> /\ InOrder(tasks')
  BY <1>1, InsertInOrder
<1>3. add' = [pc |-> "read"]
  BY DEF AddTask
<1>4. add'.pc = "read" /\ add' # NoAdd
  BY <1>3 DEF NoAdd
<1> QED
  BY <1>2, <1>3, <1>4 DEF AddTask, IInv, TypeOK, AddKnows, FirstArmed, NeverEarly

\* The read of the first expire.
LEMMA AddReadInv ==
    ASSUME IInv, AddRead
    PROVE  IInv'
<1>1. tasks # <<>> /\ UNCHANGED <<tasks, cval, last>>
  BY DEF IInv, AddKnows, AddRead
<1>2. Head(tasks) = tasks[1] /\ tasks[1].expire \in Nat
  <2>1. tasks \in Seq(TaskType) /\ InOrder(tasks)
    BY DEF IInv, TypeOK
  <2> QED
    BY <1>1, <2>1, TailInOrder, TaskFields
<1>3. add' = [pc |-> "write", value |-> tasks[1].expire]
  BY <1>1, <1>2 DEF AddRead
<1>4. add'.pc = "write" /\ add'.value = tasks[1].expire /\ add' # NoAdd
  BY <1>3 DEF NoAdd
<1> QED
  BY <1>1, <1>2, <1>3, <1>4 DEF IInv, TypeOK, AddKnows, FirstArmed, NeverEarly

\* The write of the comparator.
LEMMA AddWriteInv ==
    ASSUME IInv, AddWrite
    PROVE  IInv'
<1>1. /\ add.value = tasks[1].expire /\ add.value \in Nat
      /\ cval' = add.value /\ add' = NoAdd /\ UNCHANGED <<tasks, last>>
  BY AddPlaces DEF IInv, AddKnows, AddWrite, set_timer_interrupt_by_tick
<1>2. add'.pc # "read" /\ add'.pc # "write"
  BY <1>1 DEF NoAdd
<1> QED
  BY <1>1, <1>2 DEF IInv, TypeOK, AddKnows, FirstArmed, NeverEarly

\* The interrupt with no task.
LEMMA HandlerInv ==
    ASSUME IInv, timer_handler
    PROVE  IInv'
BY TimerAssumption DEF timer_handler, IInv, TypeOK, AddKnows, FirstArmed, NeverEarly

\* The interrupt with a task: the comparator has reached the time of the first,
\* and is set for what is left.
LEMMA DoTimerTaskInv ==
    ASSUME IrqInAdd = FALSE, IInv, do_timer_task
    PROVE  IInv'
<1> DEFINE t == Head(tasks)
<1>1. /\ tasks \in Seq(TaskType) /\ InOrder(tasks) /\ tasks # <<>>
      /\ add = NoAdd /\ cval = 0 /\ cval = tasks[1].expire
      /\ tasks' = Left(t) /\ cval' = Again(t) /\ last' = t /\ add' = NoAdd
  BY DEF do_timer_task, Expired, IInv, TypeOK, FirstArmed
<1>2. /\ t = tasks[1] /\ t \in TaskType
      /\ Tail(tasks) \in Seq(TaskType) /\ InOrder(Tail(tasks))
  BY <1>1, TailInOrder
<1>3. NeverEarly'
  BY <1>1, <1>2 DEF NeverEarly
<1>4. Left(t) \in Seq(TaskType) /\ InOrder(Left(t))
  <2>1. Task(sched, Period) \in TaskType
    BY TimerAssumption, TaskTyped DEF Func
  <2> QED
    BY <1>2, <2>1, InsertInOrder DEF Left
<1> HIDE DEF t
<1>5. CASE Left(t) = <<>>
  <2>1. cval' \in Nat
    BY <1>1, <1>5, TimerAssumption DEF Again
  <2> QED
    BY <1>1, <1>3, <1>4, <1>5, <2>1 DEF IInv, TypeOK, AddKnows, FirstArmed, NoAdd
<1>6. CASE Left(t) # <<>>
  <2>1. Left(t)[1] \in TaskType /\ Head(Left(t)) = Left(t)[1]
    BY <1>4, <1>6, TailInOrder
  <2>2. cval' = tasks'[1].expire /\ cval' \in Nat
    BY <1>1, <1>6, <2>1, TaskFields DEF Again
  <2> QED
    BY <1>1, <1>3, <1>4, <2>2 DEF IInv, TypeOK, AddKnows, FirstArmed, NoAdd
<1> QED
  BY <1>5, <1>6

\* Time brings everything closer by the same amount.
LEMMA PassInv ==
    ASSUME IInv, Pass
    PROVE  IInv'
<1> DEFINE n == Len(tasks)
<1>1. /\ tasks \in Seq(TaskType) /\ n \in Nat /\ DOMAIN tasks = 1 .. n
      /\ tasks' = [i \in 1 .. n |-> Task(tasks[i].func, Earlier(tasks[i].expire))]
      /\ cval' = Earlier(cval) /\ last' = last
  BY DEF Pass, IInv, TypeOK
<1>2. \A i \in 1 .. n : tasks[i].func \in Func /\ tasks[i].expire \in Nat
  BY <1>1, TaskFields
<1>3. /\ \A a \in Nat : Earlier(a) \in Nat
      /\ \A a, b \in Nat : a <= b => Earlier(a) <= Earlier(b)
  BY DEF Earlier
<1>4. \A i \in 1 .. n : Task(tasks[i].func, Earlier(tasks[i].expire)) \in TaskType
  BY <1>2, <1>3, TaskTyped
<1>5. /\ tasks' \in Seq(TaskType) /\ Len(tasks') = n
      /\ \A i \in 1 .. n : tasks'[i].expire = Earlier(tasks[i].expire)
  <2>1. tasks' \in Seq(TaskType) /\ Len(tasks') = n
    BY <1>1, <1>4, IsASeq
  <2>2. \A i \in 1 .. n : tasks'[i] = Task(tasks[i].func, Earlier(tasks[i].expire))
    BY <1>1
  <2>3. ASSUME NEW i \in 1 .. n PROVE tasks'[i].expire = Earlier(tasks[i].expire)
    <3>1. tasks[i].func \in Func /\ Earlier(tasks[i].expire) \in Nat
      BY <1>2, <1>3
    <3>2. tasks'[i] = Task(tasks[i].func, Earlier(tasks[i].expire))
      BY <2>2
    <3> QED
      BY <3>1, <3>2, TaskTyped
  <2> QED
    BY <2>1, <2>3
<1>6. InOrder(tasks')
  BY <1>2, <1>3, <1>5 DEF InOrder, IInv
<1>7. tasks' # <<>> <=> tasks # <<>>
  BY <1>1, <1>5
<1>8. tasks # <<>> => tasks'[1].expire = Earlier(tasks[1].expire)
  BY <1>1, <1>5
<1>9. CASE add.pc = "write"
  <2>1. add \in [pc : {"write"}, value : Nat]
    BY <1>9 DEF IInv, TypeOK, NoAdd
  <2>2. /\ add' \in [pc : {"write"}, value : Nat]
        /\ add'.pc = "write" /\ add'.value = Earlier(add.value) /\ add' # NoAdd
    <3>1. add' = [add EXCEPT !.value = Earlier(add.value)]
      BY <1>9 DEF Pass
    <3>2. add' \in [pc : {"write"}, value : Nat] /\ add'.value = Earlier(add.value)
      BY <1>3, <2>1, <3>1
    <3> QED
      BY <3>2 DEF NoAdd
  <2>3. AddKnows'
    BY <1>7, <1>8, <1>9, <2>1, <2>2 DEF IInv, AddKnows
  <2>4. TypeOK'
    BY <1>1, <1>3, <1>5, <2>2 DEF TypeOK, IInv
  <2> QED
    BY <1>1, <1>6, <2>2, <2>3, <2>4 DEF IInv, FirstArmed, NeverEarly
<1>10. CASE add.pc # "write"
  <2>1. add' = add
    BY <1>10 DEF Pass
  <2>2. AddKnows' /\ FirstArmed'
    BY <1>1, <1>7, <1>8, <1>10, <2>1 DEF IInv, AddKnows, FirstArmed
  <2>3. TypeOK'
    BY <1>1, <1>3, <1>5, <2>1 DEF TypeOK, IInv
  <2> QED
    BY <1>1, <1>6, <2>2, <2>3 DEF IInv, NeverEarly
<1> QED
  BY <1>9, <1>10

-----------------------------------------------------------------------------
(* The theorems.                                                           *)

\* The inductive invariant holds in every run in which no interrupt comes inside
\* add_timer_task.
THEOREM InvariantHolds ==
    ASSUME IrqInAdd = FALSE
    PROVE  Spec => []IInv
<1>1. IInv /\ [Next]_vars => IInv'
  <2> SUFFICES ASSUME IInv, [Next]_vars PROVE IInv'
    OBVIOUS
  <2>1. CASE UNCHANGED vars
    BY <2>1 DEF vars, IInv, TypeOK, AddKnows, FirstArmed, NeverEarly
  <2>2. CASE \E k \in Alert, d \in Delay : AddTask(k, d)
    BY <2>2, AddTaskInv, TimerAssumption DEF Func
  <2>3. CASE AddTask(sched, First)
    BY <2>3, AddTaskInv, TimerAssumption DEF Func
  <2> QED
    BY <2>1, <2>2, <2>3, AddReadInv, AddWriteInv, HandlerInv, DoTimerTaskInv, PassInv DEF Next
<1> QED
  BY <1>1, InitInv, PTL DEF Spec

\* No callback runs before its time (NeverEarly): do_timer_task, which does not
\* look at the expire of the first task, is only reached when it has come.
THEOREM CallbacksNotEarly ==
    ASSUME IrqInAdd = FALSE
    PROVE  Spec => []NeverEarly
<1>1. IInv => NeverEarly
  BY DEF IInv
<1> QED
  BY <1>1, InvariantHolds, PTL

\* The comparator stands at the earliest task between calls (Armed), for every
\* sequence of additions, expiries and time.
THEOREM ComparatorArmed ==
    ASSUME IrqInAdd = FALSE
    PROVE  Spec => []Armed
<1>1. IInv => Armed
  <2> SUFFICES ASSUME IInv, add = NoAdd, tasks # <<>>
               PROVE  /\ cval = Head(tasks).expire
                      /\ \A i \in DOMAIN tasks : cval <= tasks[i].expire
    BY DEF Armed
  <2>1. tasks \in Seq(TaskType) /\ InOrder(tasks) /\ cval = tasks[1].expire
    BY DEF IInv, TypeOK, FirstArmed
  <2>2. Head(tasks) = tasks[1] /\ 1 \in 1 .. Len(tasks) /\ DOMAIN tasks = 1 .. Len(tasks)
    BY <2>1
  <2> QED
    BY <2>1, <2>2 DEF InOrder
<1> QED
  BY <1>1, InvariantHolds, PTL

=============================================================================
