------------------------------- MODULE Timer -------------------------------
(***************************************************************************)
(* The timer tasks of lib/timer.c: add_timer_task, timer_handler and       *)
(* do_timer_task over one hardware comparator.                             *)
(*                                                                         *)
(* Times are relative: an expire or cval of n lies n ticks ahead, and what *)
(* has passed is 0, so that waiting forever needs no growing counter.  A   *)
(* thread's add_timer_task is three steps, the insertion, the read of the  *)
(* first expire and the write of the comparator; the interrupt is one      *)
(* step, since irq_handler masks the timer until timer_handler is done.    *)
(***************************************************************************)
EXTENDS Integers, SequencesExt

CONSTANTS
    Alert,      \* the one-shot tasks a caller may add
    Delay,      \* their delays
    Period,     \* the delay of schedule_timer_task, 1/32 s in the code
    First,      \* its first delay in exec_thread, 1 s in the code
    Far,        \* the delay that stands for "no interrupt", 500 s
    IrqInAdd    \* interrupts also come inside a thread's add_timer_task

ASSUME TimerAssumption ==
    /\ Delay \subseteq Nat
    /\ Period \in Nat \ {0}
    /\ First \in Nat
    /\ Far \in Nat \ {0}
    /\ IrqInAdd \in BOOLEAN

VARIABLES
    tasks,      \* timer_task_head: the tasks, next one first
    cval,       \* CNTP_CVAL_EL0
    add,        \* the thread's add_timer_task in progress
    last        \* the task whose callback ran last

vars == <<tasks, cval, add, last>>

-----------------------------------------------------------------------------
\* schedule_timer_task, which adds itself again.
sched == "sched"

Task(k, d) == [func |-> k, expire |-> d]
NoAdd == [pc |-> "none"]
Queued(k) == \E i \in DOMAIN tasks : tasks[i].func = k
Earlier(n) == IF n = 0 THEN 0 ELSE n - 1

\* In front of the first task of a later expire, or at the end.
Insert(l, t) ==
    LET i == SelectInSeq(l, LAMBDA u : u.expire > t.expire)
    IN  IF i = 0 THEN Append(l, t) ELSE InsertAt(l, i, t)

\* The timer is enabled with nothing to do yet.
Init ==
    /\ tasks = <<>>
    /\ cval = Far
    /\ add = NoAdd
    /\ last = Task("none", 0)

-----------------------------------------------------------------------------
(* add_timer_task in a thread.                                             *)

\* An interrupt that is due comes before the thread's next call.
AddTask(k, d) ==
    /\ add = NoAdd
    /\ cval # 0
    /\ ~ Queued(k)
    /\ tasks' = Insert(tasks, Task(k, d))
    /\ add' = [pc |-> "read"]
    /\ UNCHANGED <<cval, last>>

\* The expire of the first task, or, when an interrupt has emptied the list,
\* whatever lies behind the list head.
AddRead ==
    /\ add.pc = "read"
    /\ \E v \in IF tasks # <<>> THEN {Head(tasks).expire} ELSE 0 .. Far :
        add' = [pc |-> "write", value |-> v]
    /\ UNCHANGED <<tasks, cval, last>>

\* Mutant: the comparator is left alone.
set_timer_interrupt_by_tick_not(v) == cval' = cval

set_timer_interrupt_by_tick(v) == cval' = v

AddWrite ==
    /\ add.pc = "write"
    /\ set_timer_interrupt_by_tick(add.value)
    /\ add' = NoAdd
    /\ UNCHANGED <<tasks, last>>

-----------------------------------------------------------------------------
(* The timer interrupt.                                                    *)

Expired == cval = 0 /\ (add = NoAdd \/ IrqInAdd)

\* timer_handler with nothing to do.
timer_handler ==
    /\ Expired
    /\ tasks = <<>>
    /\ cval' = Far
    /\ UNCHANGED <<tasks, add, last>>

\* Mutant: a task stays on the list when its callback does not add one.
Left_linked(t) == IF t.func = sched THEN Insert(Tail(tasks), Task(sched, Period)) ELSE tasks

\* The list after the first task t: schedule_timer_task adds a task.
Left(t) == IF t.func = sched THEN Insert(Tail(tasks), Task(sched, Period)) ELSE Tail(tasks)

\* Mutant: only a callback that adds a task has the comparator set.
Again_sched(t) == IF t.func = sched THEN Head(Left(t)).expire ELSE Far

\* The comparator is set for what is left.
Again(t) == IF Left(t) # <<>> THEN Head(Left(t)).expire ELSE Far

\* do_timer_task: unlink the first task, whatever its expire is, and run its
\* callback.
do_timer_task ==
    /\ Expired
    /\ tasks # <<>>
    /\ tasks' = Left(Head(tasks))
    /\ cval' = Again(Head(tasks))
    /\ last' = Head(tasks)
    /\ UNCHANGED add

\* Time passes; a value that add_timer_task has read comes closer too.
Pass ==
    /\ tasks' = [i \in DOMAIN tasks |-> Task(tasks[i].func, Earlier(tasks[i].expire))]
    /\ cval' = Earlier(cval)
    /\ add' = IF add.pc = "write" THEN [add EXCEPT !.value = Earlier(@)] ELSE add
    /\ UNCHANGED last

-----------------------------------------------------------------------------
Next ==
    \/ \E k \in Alert, d \in Delay : AddTask(k, d)
    \/ AddTask(sched, First)
    \/ AddRead
    \/ AddWrite
    \/ timer_handler
    \/ do_timer_task
    \/ Pass

Spec == Init /\ [][Next]_vars

\* Time passes, an interrupt that is due is taken, and the call goes on.
FairSpec ==
    /\ Spec
    /\ WF_vars(Pass)
    /\ WF_vars(timer_handler \/ do_timer_task)
    /\ WF_vars(AddRead \/ AddWrite)

-----------------------------------------------------------------------------
(* Properties.                                                             *)

Func == Alert \cup {sched}

\* No callback runs before its time, although do_timer_task takes the head of
\* the list without a look at its expire.
NeverEarly == last.expire = 0

\* Between calls the comparator stands at the expire of the first task, which
\* is the earliest: no sequence of additions and expiries leaves it at a task
\* that is gone, behind one that is due sooner, or at "never" with a task
\* waiting.
Armed ==
    add = NoAdd /\ tasks # <<>> =>
        /\ cval = Head(tasks).expire
        /\ \A i \in DOMAIN tasks : cval <= tasks[i].expire

\* Every task's callback runs, also when others are added again and again.
EveryTaskRuns == \A k \in Func : Queued(k) /\ last.func # k ~> last.func = k

=============================================================================
