------------------------------ MODULE IrqEvent ------------------------------
(***************************************************************************)
(* Interrupts and their deferred work: irq_handler and lock/unlock of      *)
(* lib/except.c, add_irq_event and run_irq_event of lib/event.c, and the   *)
(* switch to another thread that a timer interrupt ends with.              *)
(*                                                                         *)
(* irq_handler masks the source, queues its handler by priority and runs   *)
(* the queue with interrupts enabled, so that a handler is interrupted by  *)
(* other sources, and preempted, with its thread, by the timer.  stack[t]  *)
(* holds the irq_handler calls in progress on the kernel stack of t, the   *)
(* innermost last.  The queue, curr_priority, lock_counter and the CPU's   *)
(* interrupt mask belong to no thread: switch_to does not change them.     *)
(* A step is a piece of code no interrupt can divide.  schedule() is one   *)
(* step here; its inside is the subject of Sched.                          *)
(***************************************************************************)
EXTENDS Integers, SequencesExt

CONSTANTS
    Tid,            \* the threads that take turns
    MaxRaises,      \* bound on the conditions devices raise and threads enable
    KillInKernel    \* may a thread be killed that was preempted in the kernel?

ASSUME IrqAssumption ==
    /\ Tid # {}
    /\ MaxRaises \in Nat
    /\ KillInKernel \in BOOLEAN

VARIABLES
    irq_event,      \* irq_event_head: the queued handlers, next one first
    curr_priority,  \* priority of the running handler
    lock_counter,
    irq_off,        \* DAIF: interrupts are masked in the CPU
    masked,         \* sources disabled in the timer and in AUX_MU_IER
    pending,        \* sources whose condition holds in the device
    raises,         \* number of conditions raised and enabled so far
    curr,           \* the thread that has the CPU
    thread,         \* its own code: outside, entering or in lock(); or killed
    stack           \* thread -> calls of irq_handler: source, place, event, prev_priority

queue == <<irq_event, curr_priority>>
cpu == <<lock_counter, irq_off>>
devices == <<masked, pending, raises>>
threads == <<curr, thread>>
vars == <<queue, cpu, devices, threads, stack>>

-----------------------------------------------------------------------------
Source == {"timer", "uart_w", "uart_r"}

\* The second argument of the add_irq_event calls; smaller is more urgent.
priority == [timer |-> 0, uart_w |-> 1, uart_r |-> 1]

\* Greater than every priority, 0x10000 in the code.
IdlePriority == 2

Signalled == pending \ masked

\* AUX_MU_IIR names one enabled condition that holds, as on a 16550 the
\* received byte first.
IIR == IF "uart_r" \in Signalled THEN "uart_r"
       ELSE IF "uart_w" \in Signalled THEN "uart_w" ELSE "none"

Top == Last(stack[curr])
Running(p) == stack[curr] # <<>> /\ Top.pc = p
GotoWith(p, ev, prev) ==
    stack' = [stack EXCEPT ![curr] = Append(Front(@), [Top EXCEPT !.pc = p, !.ev = ev, !.prev = prev])]
Goto(p) == GotoWith(p, Top.ev, Top.prev)

\* The test after run_irq_event that the call for a source leads to.
After(src) == CASE src = "timer"  -> "unmask"
                [] src = "uart_w" -> "test_r"
                [] src = "uart_r" -> "ret"

\* Mutant: lock() counts and never masks.
disable_el1_interrupt_not == UNCHANGED irq_off

disable_el1_interrupt == irq_off' = TRUE

\* unlock() at the end of a critical section.
unlock ==
    /\ lock_counter' = lock_counter - 1
    /\ irq_off' = (lock_counter # 1)

Init ==
    /\ irq_event = <<>>
    /\ curr_priority = IdlePriority
    /\ lock_counter = 0
    /\ irq_off = FALSE
    /\ masked = {"uart_w", "uart_r"}
    /\ pending = {}
    /\ raises = 0
    /\ curr = CHOOSE t \in Tid : TRUE
    /\ thread = [t \in Tid |-> "out"]
    /\ stack = [t \in Tid |-> <<>>]

-----------------------------------------------------------------------------
(* Devices and threads.                                                    *)

\* The timer expires, the transmitter runs empty or a byte arrives.
Raise(src) ==
    /\ raises < MaxRaises
    /\ src \notin pending
    /\ pending' = pending \cup {src}
    /\ raises' = raises + 1
    /\ UNCHANGED <<queue, cpu, masked, threads, stack>>

\* The CPU takes an interrupt: irq_handler starts with interrupts masked.
TakeIrq ==
    /\ ~ irq_off
    /\ Signalled # {}
    /\ stack' = [stack EXCEPT ![curr] =
           Append(@, [src |-> "timer", pc |-> "entry", ev |-> "timer", prev |-> IdlePriority])]
    /\ irq_off' = TRUE
    /\ UNCHANGED <<queue, lock_counter, devices, threads>>

\* The thread executes its own code, with no interrupt on its stack.
Own(s) == stack[curr] = <<>> /\ thread[curr] = s

\* lock() in a thread: the counter first, then the mask.
ThreadLock ==
    /\ \/ /\ Own("out")
          /\ thread' = [thread EXCEPT ![curr] = "locking"]
          /\ lock_counter' = lock_counter + 1 /\ UNCHANGED irq_off
       \/ /\ Own("locking")
          /\ thread' = [thread EXCEPT ![curr] = "in"]
          /\ disable_el1_interrupt /\ UNCHANGED lock_counter
    /\ UNCHANGED <<queue, devices, curr, stack>>

ThreadUnlock ==
    /\ Own("in")
    /\ thread' = [thread EXCEPT ![curr] = "out"]
    /\ unlock
    /\ UNCHANGED <<queue, devices, curr, stack>>

\* A system call returns to user mode, where interrupts are enabled.
ThreadReturn ==
    /\ Own("out") /\ irq_off
    /\ irq_off' = FALSE
    /\ UNCHANGED <<queue, lock_counter, devices, threads, stack>>

\* uart_async_send and uart_async_read enable their interrupt.
ThreadEnable(src) ==
    /\ Own("out")
    /\ src \in masked
    /\ raises < MaxRaises
    /\ masked' = masked \ {src}
    /\ raises' = raises + 1
    /\ UNCHANGED <<queue, cpu, pending, threads, stack>>

\* lock(), the next live thread, unlock(), switch_to.
schedule ==
    /\ \E t \in Tid : /\ thread[t] # "dead"
                      /\ t = curr => \A u \in Tid \ {t} : thread[u] = "dead"
                      /\ curr' = t
    /\ irq_off' = (lock_counter # 0)

\* A thread gives up the CPU in a system call.
ThreadYield ==
    /\ Own("out")
    /\ schedule
    /\ UNCHANGED <<queue, lock_counter, devices, thread, stack>>

\* Preempted in user mode: on the kernel stack is the timer interrupt, its
\* work done.
InUser(t) == thread[t] = "out" /\ (stack[t] # <<>> => Len(stack[t]) = 1)

\* sys_kill_pid: t is not resumed again, wherever it was.
Kill(t) ==
    /\ Own("out") /\ t # curr /\ thread[t] # "dead"
    /\ KillInKernel \/ InUser(t)
    /\ thread' = [thread EXCEPT ![t] = "dead"]
    /\ UNCHANGED <<queue, cpu, devices, curr, stack>>

-----------------------------------------------------------------------------
(* irq_handler.                                                            *)

\* The timer's test: is it a timer interrupt?
TestTimer ==
    /\ Running("entry")
    /\ Goto(IF "timer" \in Signalled THEN "mask" ELSE "test_gpu")
    /\ UNCHANGED <<queue, cpu, devices, threads>>

\* The test of IRQ_PENDING_1: does the UART signal anything?
TestGpu ==
    /\ Running("test_gpu")
    /\ Goto(IF IIR # "none" THEN "test_w" ELSE "ret")
    /\ UNCHANGED <<queue, cpu, devices, threads>>

\* The UART's tests, made with interrupts enabled if the timer was served.
TestUart(test, src, otherwise) ==
    /\ Running(test)
    /\ IF IIR = src
       THEN stack' = [stack EXCEPT ![curr] = Append(Front(@), [Top EXCEPT !.src = src, !.pc = "mask"])]
       ELSE Goto(otherwise)
    /\ UNCHANGED <<queue, cpu, devices, threads>>

\* timer_disable, disable_uart_w_interrupt or disable_uart_r_interrupt.
MaskSource ==
    /\ Running("mask")
    /\ masked' = masked \cup {Top.src}
    /\ Goto("add_lock")
    /\ UNCHANGED <<queue, cpu, pending, raises, threads>>

\* timer_enable.
UnmaskTimer ==
    /\ Running("unmask")
    /\ masked' = masked \ {"timer"}
    /\ Goto("sched")
    /\ UNCHANGED <<queue, cpu, pending, raises, threads>>

\* The thread is preempted; when it has the CPU again it goes on to the UART.
Preempt ==
    /\ Running("sched")
    /\ schedule
    /\ Goto("test_gpu")
    /\ UNCHANGED <<queue, lock_counter, devices, thread>>

\* eret to what was interrupted, where interrupts were enabled.
Return ==
    /\ Running("ret")
    /\ stack' = [stack EXCEPT ![curr] = Front(@)]
    /\ irq_off' = FALSE
    /\ UNCHANGED <<queue, lock_counter, devices, threads>>

-----------------------------------------------------------------------------
(* add_irq_event and run_irq_event.                                        *)

\* The counter of lock() in either function; an interrupt may still come.
LockInc(from, to) ==
    /\ Running(from)
    /\ lock_counter' = lock_counter + 1
    /\ Goto(to)
    /\ UNCHANGED <<queue, irq_off, devices, threads>>

\* Mutant: the event is appended whatever its priority.
Position_tail(i, src) == i = Len(irq_event) + 1

\* i is the place of the first event of a larger priority number.
Position(i, src) ==
    /\ \A j \in 1 .. (i - 1) : priority[irq_event[j]] <= priority[src]
    /\ i <= Len(irq_event) => priority[irq_event[i]] > priority[src]

add_irq_event ==
    /\ Running("add")
    /\ \E i \in 1 .. (Len(irq_event) + 1) :
        Position(i, Top.src) /\ irq_event' = InsertAt(irq_event, i, Top.src)
    /\ unlock
    /\ Goto("while")
    /\ UNCHANGED <<curr_priority, devices, threads>>

\* The loop condition, outside the critical section.
TestEmpty ==
    /\ Running("while")
    /\ Goto(IF irq_event = <<>> THEN After(Top.src) ELSE "run_lock")
    /\ UNCHANGED <<queue, cpu, devices, threads>>

\* Look at the first event: go on with it, or leave it to the handler that
\* this call interrupts.
Peek ==
    /\ Running("peek")
    /\ irq_event # <<>>
    /\ IF curr_priority <= priority[Head(irq_event)]
       THEN unlock /\ Goto(After(Top.src))
       ELSE /\ disable_el1_interrupt /\ UNCHANGED lock_counter
            /\ GotoWith("take", Head(irq_event), Top.prev)
    /\ UNCHANGED <<queue, devices, threads>>

\* The list is empty by now: the list head is read as an event.  Its priority
\* field has never been written, so the loop ends or calls through garbage.
PeekHead ==
    /\ Running("peek")
    /\ irq_event = <<>>
    /\ \/ unlock /\ Goto(After(Top.src))
       \/ disable_el1_interrupt /\ Goto("wild") /\ UNCHANGED lock_counter
    /\ UNCHANGED <<queue, devices, threads>>

\* Mutant: curr_priority is not raised to the event's.
Raised_not == curr_priority

Raised == priority[Top.ev]

\* Unlink the event, remember the priority it replaces, leave the section.
Take ==
    /\ Running("take")
    /\ irq_event' = Tail(irq_event)
    /\ curr_priority' = Raised
    /\ unlock
    /\ GotoWith("func", Top.ev, curr_priority)
    /\ UNCHANGED <<devices, threads>>

\* nxt_event->func(): timer_handler sets the next expiry; the UART handlers
\* serve one byte and enable their interrupt, or find nothing to send or no
\* room to receive and disable it.
Func ==
    /\ Running("func")
    /\ \/ /\ pending' = pending \ {Top.ev}
          /\ masked' = masked \ (IF Top.ev = "timer" THEN {} ELSE {Top.ev})
       \/ /\ Top.ev # "timer"
          /\ masked' = masked \cup {Top.ev}
          /\ UNCHANGED pending
    /\ Goto("restore")
    /\ UNCHANGED <<queue, cpu, raises, threads>>

\* Mutant: curr_priority stays as the handler had it.
Restored_not == curr_priority

Restored == Top.prev

\* Mutant: run_irq_event runs one event per call, not the queue.
AfterEvent_once == After(Top.src)

AfterEvent == "while"

\* The handler is done: back to the loop condition.
Restore ==
    /\ Running("restore")
    /\ curr_priority' = Restored
    /\ GotoWith(AfterEvent, "timer", IdlePriority)
    /\ UNCHANGED <<irq_event, cpu, devices, threads>>

-----------------------------------------------------------------------------
HandlerStep ==
    \/ TestTimer
    \/ TestGpu
    \/ TestUart("test_w", "uart_w", "test_r")
    \/ TestUart("test_r", "uart_r", "ret")
    \/ MaskSource
    \/ UnmaskTimer
    \/ Preempt
    \/ Return
    \/ LockInc("add_lock", "add")
    \/ add_irq_event
    \/ TestEmpty
    \/ LockInc("run_lock", "peek")
    \/ Peek
    \/ PeekHead
    \/ Take
    \/ Func
    \/ Restore

Next ==
    \/ \E src \in Source : Raise(src)
    \/ TakeIrq
    \/ ThreadLock
    \/ ThreadUnlock
    \/ ThreadReturn
    \/ \E src \in {"uart_w", "uart_r"} : ThreadEnable(src)
    \/ ThreadYield
    \/ \E t \in Tid : Kill(t)
    \/ HandlerStep

Spec == Init /\ [][Next]_vars

\* The CPU goes on executing the innermost irq_handler and takes the interrupts
\* that are signalled to it; threads leave their critical sections and do not
\* keep the CPU: the periodic timer, which MaxRaises cuts off, takes it.
FairSpec ==
    /\ Spec
    /\ WF_vars(HandlerStep)
    /\ WF_vars(TakeIrq)
    /\ WF_vars(ThreadUnlock \/ ThreadReturn \/ (Own("locking") /\ ThreadLock))
    /\ SF_vars(ThreadYield)

-----------------------------------------------------------------------------
(* Properties.                                                             *)

\* The calls of irq_handler on all stacks.
Calls == UNION {{t} \X DOMAIN stack[t] : t \in Tid}
Frame(c) == stack[c[1]][c[2]]

\* The calls that are running an event's function.
InFunc(c) == Frame(c).pc \in {"func", "restore"}

Wild == \E c \in Calls : Frame(c).pc = "wild"

\* The queue is in order of priority, and the timer, which is masked before its
\* handler is queued and enabled after the queue has been run, is on it or
\* running once at most: timer_handler takes one task per expiry.
QueueOrdered ==
    /\ \A i, j \in 1 .. Len(irq_event) :
        i < j => priority[irq_event[i]] <= priority[irq_event[j]]
    /\ Cardinality({i \in 1 .. Len(irq_event) : irq_event[i] = "timer"})
       + Cardinality({c \in Calls : Frame(c).pc = "func" /\ Frame(c).ev = "timer"}) <= 1

\* A handler is interrupted only by a more urgent one, also when the thread it
\* interrupted was preempted and another thread is interrupted meanwhile: of
\* two handlers that have begun one is more urgent, and curr_priority is that
\* of the most urgent, whichever calls restore it and in whichever thread.
StrictlyNested ==
    LET open == {c \in Calls : InFunc(c)}
    IN  /\ \A c, d \in open : /\ c # d => priority[Frame(c).ev] # priority[Frame(d).ev]
                              /\ c[1] = d[1] /\ c[2] < d[2] => priority[Frame(c).ev] > priority[Frame(d).ev]
        /\ curr_priority = Min({IdlePriority} \cup {priority[Frame(c).ev] : c \in open})

\* A queued event is never forgotten: some call is still going to look at the
\* queue, either one that is not inside a handler yet or one whose handler is
\* no more urgent than the event, in a thread that will run again.
NothingStranded ==
    ~ Wild =>
    \A k \in 1 .. Len(irq_event) :
        \E c \in Calls :
            /\ thread[c[1]] # "dead"
            /\ \/ InFunc(c) /\ priority[Frame(c).ev] <= priority[irq_event[k]]
               \/ Frame(c).pc \in {"while", "run_lock", "peek", "take"}

\* A thread inside lock() ... unlock() is never interrupted or preempted, even
\* if an interrupt came while lock() had counted but not masked yet; and the
\* counter counts the critical sections that are open in all threads, so that
\* interrupts are enabled again when the last of them closes.
LockExcludes ==
    /\ \A t \in Tid : thread[t] = "in" => t = curr /\ irq_off /\ stack[t] = <<>>
    /\ lock_counter = Cardinality({c \in Calls : Frame(c).pc \in {"add", "peek", "take", "wild"}})
                      + Cardinality({t \in Tid : thread[t] \in {"locking", "in"}})
    /\ lock_counter = 0 /\ stack[curr] = <<>> => ~ irq_off

\* Every interrupt is served: the queue is emptied, and a thread gets back from
\* its interrupts to what it was doing, unless it is killed or run_irq_event
\* has called through the list head.
HandlersReturn ==
    /\ irq_event # <<>> ~> irq_event = <<>> \/ Wild
    /\ \A t \in Tid : stack[t] # <<>> ~> stack[t] = <<>> \/ thread[t] = "dead" \/ Wild

-----------------------------------------------------------------------------
\* An expectation that does not hold: the critical section of run_irq_event
\* protects its use of the queue, and the first entry it reads is an event and
\* not the list head.
NoWildEvent == ~ Wild

=============================================================================
