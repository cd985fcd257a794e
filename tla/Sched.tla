------------------------------- MODULE Sched -------------------------------
(***************************************************************************)
(* Threads and the scheduler: lib/sched.c, switch_to of lib/sched.S, and   *)
(* the system calls of lib/syscall.c that create and end threads.          *)
(*                                                                         *)
(* schedule() chooses the next thread under lock(), but releases the lock  *)
(* before it reads curr_thread again and calls switch_to: these are three  *)
(* steps here, and a timer interrupt can start a second schedule() of the  *)
(* same thread between them.  If it comes after curr_thread has been read, *)
(* the first schedule() goes on later with a target that is out of date:   *)
(* torn counts this.  kstk[t] holds the calls in progress on the kernel    *)
(* stack of t, the innermost last:                                         *)
(*    "pick"    schedule() before its choice                               *)
(*    "load"    after unlock(), before curr_thread is read                 *)
(*    "switch"  with the address of tgt's context as switch_to's argument  *)
(*    "saved"   in switch_to, the context saved: t does not run            *)
(*    "child"   sys_fork after store_cxt, on a stack copied from tgt       *)
(*    "reap"    in the loop of kill_zombies, under lock()                  *)
(* An empty kstk is a thread in user mode, or idle() at its loop head.     *)
(***************************************************************************)
EXTENDS Integers, SequencesExt

CONSTANTS
    PID_MAX,        \* the largest pid, 32768 in include/sched.h
    MaxNest,        \* bound on the calls on one kernel stack
    MaxTorn         \* bound on the interrupts that torn counts

ASSUME SchedAssumption ==
    /\ PID_MAX \in Nat \ {0}
    /\ MaxNest \in Nat \ {0}
    /\ MaxTorn \in Nat

VARIABLES
    state,          \* threads[pid].state
    nxt_pid,
    rq,             \* the run queue, first entry first
    curr_thread,
    running,        \* the thread tpidr_el1 and the stack pointer belong to
    kstk,           \* pid -> calls in progress on the kernel stack
    x0,             \* pid -> x0 in the trapframe on the kernel stack
    torn            \* timer interrupts so far that came after schedule() had
                    \* read curr_thread and before switch_to was done

vars == <<state, nxt_pid, rq, curr_thread, running, kstk, x0, torn>>

-----------------------------------------------------------------------------
Pid == 0 .. PID_MAX
idle == 0

\* Not a thread: main() on the boot stack, and a kernel that has used the
\* NULL which thread_create returned, a kernel stack that was freed, or the
\* links of a curr_thread that was taken off the run queue.  What such a kernel
\* does next is not modelled.
Boot == PID_MAX + 1
Fault == PID_MAX + 2

Call(p, t) == [pc |-> p, tgt |-> t]
Top == Last(kstk[running])
At(p) == running \in Pid /\ kstk[running] # <<>> /\ Top.pc = p
AtBase == running \in Pid /\ kstk[running] = <<>>

\* The kernel stack of the running thread with its innermost call replaced.
Replace(c) == [kstk EXCEPT ![running] = Append(Front(@), c)]
schedule == [kstk EXCEPT ![running] = Append(@, Call("pick", idle))]

\* The entry that follows position i by k on the circular list.
Entry(i) == rq[1 + ((i - 1) % Len(rq))]

\* Mutant: zombies are chosen like any other thread.
NextThread_zombie(t) == \E i \in 1 .. Len(rq) : rq[i] = curr_thread /\ t = Entry(i + 1)

\* Mutant: the search starts at the head of the queue, not at curr_thread.
NextThread_first(t) ==
    \E k \in 1 .. Len(rq) :
        /\ t = rq[k]
        /\ state[t] # "zombie"
        /\ \A m \in 1 .. (k - 1) : state[rq[m]] = "zombie"

\* t follows curr_thread on the run queue, zombies not counted.
NextThread(t) ==
    \E i, k \in 1 .. Len(rq) :
        /\ rq[i] = curr_thread
        /\ t = Entry(i + k)
        /\ state[t] # "zombie"
        /\ \A m \in 1 .. (k - 1) : state[Entry(i + m)] = "zombie"

\* Mutant: a slot counts as free when its thread has ended.
FreeSlot_ended(t) ==
    IF nxt_pid > PID_MAX
    THEN /\ state[t] # "running"
         /\ \A u \in Pid : u < t => state[u] = "running"
    ELSE t = nxt_pid

\* The slot thread_create takes: the next pid, or the first unused one when
\* every pid has been given out once.
FreeSlot(t) ==
    IF nxt_pid > PID_MAX
    THEN /\ state[t] = "unused"
         /\ \A u \in Pid : u < t => state[u] # "unused"
    ELSE t = nxt_pid

\* thread_create: on the run queue, its kernel stack holding stk.
thread_create(t, stk) ==
    /\ FreeSlot(t)
    /\ nxt_pid' = IF nxt_pid > PID_MAX THEN nxt_pid ELSE nxt_pid + 1
    /\ state' = [state EXCEPT ![t] = "running"]
    /\ rq' = <<t>> \o rq
    /\ kstk' = [kstk EXCEPT ![t] = stk]

\* init_threads.
Init ==
    /\ state = [t \in Pid |-> IF t = idle THEN "running" ELSE "unused"]
    /\ nxt_pid = 1
    /\ rq = <<idle>>
    /\ curr_thread = idle
    /\ running = Boot
    /\ kstk = [t \in Pid |-> <<>>]
    /\ x0 = [t \in Pid |-> "user"]
    /\ torn = 0

\* exec_thread: main() starts the first program and never runs again.
exec_thread ==
    /\ running = Boot
    /\ \E t \in Pid :
        /\ thread_create(t, <<>>)
        /\ curr_thread' = t
        /\ running' = t
    /\ UNCHANGED <<x0, torn>>

-----------------------------------------------------------------------------
(* schedule and switch_to.                                                 *)

\* The locked part of schedule().
Pick ==
    /\ At("pick")
    /\ \E t \in Pid : NextThread(t) /\ curr_thread' = t
    /\ kstk' = Replace(Call("load", idle))
    /\ UNCHANGED <<state, nxt_pid, rq, running, x0, torn>>

\* The argument of switch_to, read after unlock().
Load ==
    /\ At("load")
    /\ kstk' = Replace(Call("switch", curr_thread))
    /\ UNCHANGED <<state, nxt_pid, rq, curr_thread, running, x0, torn>>

\* Mutant: the context of the running thread is not saved.
Saved_not == kstk

\* The stacks with the context of the running thread saved.
Saved == Replace(Call("saved", idle))

\* Save the context of the running thread and continue the target's where it
\* called switch_to itself, where sys_fork stored it, or at its start.  The
\* kernel stack of a target that has been reaped meanwhile is freed.
switch_to ==
    /\ At("switch")
    /\ LET t == Top.tgt
       IN  \/ /\ state[t] # "unused"
              /\ running' = t
              /\ kstk' = IF Saved[t] # <<>> /\ Last(Saved[t]).pc = "saved"
                         THEN [Saved EXCEPT ![t] = Front(@)]
                         ELSE Saved
           \/ /\ state[t] = "unused"
              /\ running' = Fault
              /\ kstk' = Saved
    /\ UNCHANGED <<state, nxt_pid, rq, curr_thread, x0, torn>>

\* A timer interrupt: irq_handler calls schedule() if there are two threads.
Tick ==
    /\ running \in Pid
    /\ Len(rq) > 1
    /\ ~ At("reap")
    /\ Len(kstk[running]) < MaxNest
    /\ kstk' = schedule
    /\ torn' = IF At("switch") THEN torn + 1 ELSE torn
    /\ torn' <= MaxTorn
    /\ UNCHANGED <<state, nxt_pid, rq, curr_thread, running, x0>>

\* One pass of idle(): kill_zombies, then schedule().
idle_pass ==
    /\ AtBase
    /\ running = idle
    /\ kstk' = [kstk EXCEPT ![idle] = Append(@, Call("reap", idle))]
    /\ UNCHANGED <<state, nxt_pid, rq, curr_thread, running, x0, torn>>

\* Mutant: nothing is reaped.
Reapable_none == {}

\* The places of the zombies on the run queue.
Reapable == {i \in DOMAIN rq : state[rq[i]] = "zombie"}

\* The loop of kill_zombies, which nothing interrupts, at its next zombie, whose
\* kernel stack is freed.
Reap ==
    /\ At("reap")
    /\ \E i \in Reapable :
        /\ \A j \in Reapable : i <= j
        /\ state' = [state EXCEPT ![rq[i]] = "unused"]
        /\ rq' = RemoveAt(rq, i)
        /\ running' = IF rq[i] \in {running, curr_thread} THEN Fault ELSE running
        /\ kstk' = [kstk EXCEPT ![rq[i]] = <<>>]
        /\ x0' = [x0 EXCEPT ![rq[i]] = "user"]
    /\ UNCHANGED <<nxt_pid, curr_thread, torn>>

\* kill_zombies returns and idle() calls schedule().
ReapDone ==
    /\ At("reap")
    /\ Reapable = {}
    /\ kstk' = Replace(Call("pick", idle))
    /\ UNCHANGED <<state, nxt_pid, rq, curr_thread, running, x0, torn>>

-----------------------------------------------------------------------------
(* System calls of a user thread.                                          *)

InUser == AtBase /\ running # idle

\* sys_exit, and seg_fault in handle_abort.
thread_exit ==
    /\ InUser
    /\ state' = [state EXCEPT ![curr_thread] = "zombie"]
    /\ kstk' = schedule
    /\ UNCHANGED <<nxt_pid, rq, curr_thread, running, x0, torn>>

\* The test pid >= PID_MAX leaves the last pid out; other arguments return.
sys_kill_pid(pid) ==
    /\ InUser
    /\ pid < PID_MAX
    /\ state[pid] # "unused"
    /\ pid # idle
    /\ state' = [state EXCEPT ![pid] = "zombie"]
    /\ kstk' = schedule
    /\ UNCHANGED <<nxt_pid, rq, curr_thread, running, x0, torn>>

\* The parent's way: the child's stack is a copy, with x0 as the caller left
\* it; the parent's x0 becomes the pid.
sys_fork ==
    /\ InUser
    /\ \E t \in Pid :
        /\ thread_create(t, <<Call("child", running)>>)
        /\ x0' = [x0 EXCEPT ![t] = "user", ![running] = "pid"]
    /\ UNCHANGED <<curr_thread, running, torn>>

\* The child's way: tf is still the address of the parent's trapframe.
sys_fork_child ==
    /\ At("child")
    /\ Top.tgt # curr_thread
    /\ x0' = [x0 EXCEPT ![Top.tgt] = "zero"]
    /\ kstk' = [kstk EXCEPT ![running] = Front(@)]
    /\ UNCHANGED <<state, nxt_pid, rq, curr_thread, running, torn>>

\* thread_create found no pid: it returns NULL, still locked, and sys_fork
\* writes through it.
sys_fork_nopid ==
    /\ InUser
    /\ \A t \in Pid : ~ FreeSlot(t)
    /\ running' = Fault
    /\ UNCHANGED <<state, nxt_pid, rq, curr_thread, kstk, x0, torn>>

-----------------------------------------------------------------------------
Next ==
    \/ exec_thread
    \/ Pick
    \/ Load
    \/ switch_to
    \/ Tick
    \/ idle_pass
    \/ Reap
    \/ ReapDone
    \/ thread_exit
    \/ \E pid \in Pid : sys_kill_pid(pid)
    \/ sys_fork
    \/ sys_fork_child
    \/ sys_fork_nopid

Spec == Init /\ [][Next]_vars

\* Somewhere inside schedule().
InSchedule == At("pick") \/ At("load") \/ At("switch")

\* The CPU executes the kernel's code, and the timer, which
\* schedule_timer_task sets again on each expiry, keeps interrupting.  A time
\* slice (1/32 s) is long enough for a thread that is resumed again and again
\* to take its next step between two interrupts.  An interrupt that hits
\* schedule() itself, a few dozen instructions, takes the turn of the thread
\* just chosen: this does not go on for ever.
FairSpec ==
    /\ Spec
    /\ WF_vars(Pick \/ Load \/ switch_to \/ Reap \/ ReapDone)
    /\ WF_vars(Tick)
    /\ SF_vars(idle_pass)
    /\ SF_vars(sys_fork_child)
    /\ <>[][~ (InSchedule /\ Tick)]_vars

-----------------------------------------------------------------------------
(* Properties.                                                             *)

\* The run queue holds every thread that exists exactly once: the first unused
\* slot, whose pid may have been used before, is never one that is queued.
\* The loop of schedule() ends, since it starts from an entry, and idle is on
\* the queue and cannot be killed, unless a switch has been torn.
RunQueueSound ==
    /\ IsInjective(rq)
    /\ ToSet(rq) = {t \in Pid : state[t] # "unused"}
    /\ torn = 0 => curr_thread \in ToSet(rq) /\ state[idle] = "running"

\* Every thread is where the next switch expects it.  curr_thread is the thread
\* that runs whenever that is in user mode, enters a system call or resumes
\* from fork: sys_exit ends the caller, and the child tells itself from its
\* parent.  The thread that runs has its stack (kill_zombies frees kstack_ptr).
\* Both hold until a switch is torn, with interrupts anywhere else in
\* schedule(); that the stack of every thread that waits ends in switch_to or in
\* the fork that made it, or is not used yet, holds as long as the kernel runs.
StacksResumable ==
    /\ torn = 0 => /\ AtBase \/ At("child") => curr_thread = running
                   /\ running \in Pid => state[running] # "unused"
    /\ \A t \in Pid : state[t] = "running" /\ running \notin {t, Fault} =>
        kstk[t] = <<>> \/ Last(kstk[t]).pc \in {"saved", "child"}

\* switch_to never continues a thread that was killed, whoever was chosen and
\* whatever interrupts came between the choice and the call of switch_to, until
\* a switch is torn.
NeverResumesZombie ==
    [][torn = 0 /\ running' # running /\ running' \in Pid => state'[running'] = "running"]_vars

\* Every live thread gets the CPU again and again, unless a switch is torn.
EveryThreadRuns ==
    \A t \in Pid : state[t] = "running" /\ running \in Pid
                   ~> running \in {t, Fault} \/ state[t] # "running" \/ torn > 0

\* Every zombie is reaped, unless a switch is torn: its pid can be given out
\* again.
ZombiesReaped ==
    \A t \in Pid : state[t] = "zombie" ~> state[t] = "unused" \/ running = Fault \/ torn > 0

-----------------------------------------------------------------------------
(* Expectations of messages and comments in the code that do not hold.     *)

\* "You can't kill idle task!": no sequence of exits and kills makes idle a
\* zombie.  Violated after a torn switch.
IdleNotKilled == state[idle] # "zombie"

\* The "child way" of sys_fork makes fork return 0 in the child.  Violated.
ChildGetsZero ==
    [][At("child") /\ kstk'[running] = <<>> => x0'[running] = "zero"]_vars

=============================================================================
