---------------------------- MODULE SchedProofs ----------------------------
(***************************************************************************)
(* Proofs about Sched, for every PID_MAX and with timer interrupts at every *)
(* step of schedule().                                                     *)
(***************************************************************************)
EXTENDS Sched, ListLemmas

CallType == [pc : {"pick", "load", "switch", "saved", "child", "reap"}, tgt : Pid]

\* The variables' types.
TypeOK ==
    /\ state \in [Pid -> {"unused", "running", "zombie"}]
    /\ nxt_pid \in Nat
    /\ rq \in Seq(Pid)
    /\ curr_thread \in Pid
    /\ running \in Pid \cup {Boot, Fault}
    /\ kstk \in [Pid -> Seq(CallType)]
    /\ torn \in Nat

\* A pid that thread_create has not reached yet belongs to no thread.
FreshUnused == \A t \in Pid : t >= nxt_pid => state[t] = "unused"

\* Under the innermost call of a stack there are calls of schedule() that an
\* interrupt cut short, and at the bottom perhaps the tail of a fork.
Nested(stk) ==
    /\ \A i \in 1 .. (Len(stk) - 1) : stk[i].pc \in {"child", "pick", "load", "switch"}
    /\ \A i \in 2 .. Len(stk) : stk[i].pc # "child"

CallsNested == \A t \in Pid : Nested(kstk[t])

\* None of the calls that wait has read the argument of switch_to.
Whole(stk) == \A i \in 1 .. (Len(stk) - 1) : stk[i].pc # "switch"

CallsWhole == torn = 0 => \A t \in Pid : Whole(kstk[t])

\* A thread that is not running, alive or not, has left the CPU in switch_to, or
\* has not run since it was made.
OthersParked ==
    \A t \in Pid : running \notin {t, Fault} =>
        kstk[t] = <<>> \/ Last(kstk[t]).pc \in {"saved", "child"}

\* The thread that runs is not in the middle of a switch.
RunnerNotSaved == ~ At("saved")

\* As long as the kernel runs, the thread that runs and curr_thread exist, and
\* it is idle that reaps.
RunnerExists ==
    /\ running # Fault => state[curr_thread] # "unused"
    /\ running \in Pid => state[running] # "unused"
    /\ At("reap") => running = idle

\* From the choice of a thread to the switch to it the choice may be replaced
\* by that of an interrupt, but it is always one of a live thread, and the
\* argument of switch_to is never an old choice.
ChoiceKept ==
    torn = 0 => /\ At("load") \/ At("switch") => state[curr_thread] = "running"
                /\ At("switch") => Top.tgt = curr_thread

\* curr_thread is the thread that runs, outside schedule().
RunnerKnown ==
    torn = 0 => (AtBase \/ At("child") \/ At("reap") => curr_thread = running)

\* The inductive invariant.
IInv ==
    /\ TypeOK
    /\ RunQueueSound
    /\ FreshUnused
    /\ CallsNested
    /\ CallsWhole
    /\ OthersParked
    /\ RunnerNotSaved
    /\ RunnerExists
    /\ ChoiceKept
    /\ RunnerKnown

-----------------------------------------------------------------------------
(* Kernel stacks.                                                          *)

\* A call made from user mode, from the tail of a fork or from schedule().
LEMMA Push ==
    ASSUME NEW stk \in Seq(CallType), NEW c \in CallType, c.pc # "child", Nested(stk),
           stk = <<>> \/ Last(stk).pc \in {"child", "pick", "load", "switch"}
    PROVE  /\ Append(stk, c) \in Seq(CallType)
           /\ Append(stk, c) # <<>>
           /\ Last(Append(stk, c)) = c
           /\ Nested(Append(stk, c))
           /\ Whole(stk) /\ (stk = <<>> \/ Last(stk).pc # "switch") => Whole(Append(stk, c))
<1>1. /\ Append(stk, c) \in Seq(CallType)
      /\ Len(Append(stk, c)) = Len(stk) + 1
      /\ Append(stk, c)[Len(stk) + 1] = c
      /\ \A i \in 1 .. Len(stk) : Append(stk, c)[i] = stk[i]
      /\ Len(stk) \in Nat
  OBVIOUS
<1>2. \A i \in 1 .. Len(stk) : stk[i].pc \in {"child", "pick", "load", "switch"}
  BY DEF Nested, Last
<1>3. Nested(Append(stk, c))
  BY <1>1, <1>2 DEF Nested
<1>4. Whole(stk) /\ (stk = <<>> \/ Last(stk).pc # "switch") => Whole(Append(stk, c))
  BY <1>1 DEF Whole, Last
<1> QED
  BY <1>1, <1>3, <1>4 DEF Last

\* The innermost call goes on.
LEMMA Renew ==
    ASSUME NEW stk \in Seq(CallType), NEW c \in CallType, c.pc # "child", Nested(stk),
           stk # <<>>
    PROVE  /\ Append(Front(stk), c) \in Seq(CallType)
           /\ Append(Front(stk), c) # <<>>
           /\ Last(Append(Front(stk), c)) = c
           /\ Nested(Append(Front(stk), c))
           /\ Whole(stk) => Whole(Append(Front(stk), c))
<1>1. /\ Front(stk) \in Seq(CallType) /\ Len(Front(stk)) = Len(stk) - 1
      /\ Len(stk) \in Nat \ {0}
      /\ \A i \in 1 .. (Len(stk) - 1) : Front(stk)[i] = stk[i]
  BY FrontProperties
<1>2. /\ Append(Front(stk), c) \in Seq(CallType)
      /\ Len(Append(Front(stk), c)) = Len(stk)
      /\ Append(Front(stk), c)[Len(stk)] = c
      /\ \A i \in 1 .. (Len(stk) - 1) : Append(Front(stk), c)[i] = stk[i]
  BY <1>1
<1> QED
  BY <1>1, <1>2 DEF Nested, Whole, Last

\* The innermost call returns.
LEMMA Pop ==
    ASSUME NEW stk \in Seq(CallType), Nested(stk), stk # <<>>
    PROVE  /\ Front(stk) \in Seq(CallType)
           /\ Nested(Front(stk))
           /\ Front(stk) = <<>> \/ Last(Front(stk)).pc \in {"child", "pick", "load", "switch"}
           /\ Last(stk).pc = "child" => Front(stk) = <<>>
           /\ Whole(stk) => /\ Whole(Front(stk))
                            /\ Front(stk) = <<>> \/ Last(Front(stk)).pc # "switch"
<1>1. /\ Front(stk) \in Seq(CallType) /\ Len(Front(stk)) = Len(stk) - 1
      /\ Len(stk) \in Nat \ {0}
      /\ \A i \in 1 .. (Len(stk) - 1) : Front(stk)[i] = stk[i]
  BY FrontProperties
<1>2. Last(stk).pc = "child" => Len(stk) = 1
  BY <1>1 DEF Nested, Last
<1> QED
  BY <1>1, <1>2 DEF Nested, Whole, Last

-----------------------------------------------------------------------------
(* The run queue.                                                          *)

\* The entries schedule() walks over are entries of the run queue.
LEMMA EntryOnQueue ==
    ASSUME IInv, NEW i \in 1 .. Len(rq), NEW k \in 1 .. Len(rq)
    PROVE  Entry(i + k) \in ToSet(rq)
<1>1. Len(rq) \in Nat \ {0} /\ i + k - 1 \in Int
  BY DEF IInv, TypeOK
<1>2. (i + k - 1) % Len(rq) \in 0 .. (Len(rq) - 1)
  BY <1>1
<1>3. 1 + ((i + k - 1) % Len(rq)) \in 1 .. Len(rq)
  BY <1>1, <1>2
<1> QED
  BY <1>3, ToSetType DEF Entry, IInv, TypeOK

\* schedule() chooses a thread that is alive.
LEMMA NextIsAlive ==
    ASSUME IInv, NEW t \in Pid, NextThread(t)
    PROVE  t \in ToSet(rq) /\ state[t] = "running"
<1>1. t \in ToSet(rq) /\ state[t] # "zombie"
  BY EntryOnQueue DEF NextThread
<1>2. state[t] # "unused"
  BY <1>1 DEF IInv, RunQueueSound
<1> QED
  BY <1>1, <1>2 DEF IInv, TypeOK

-----------------------------------------------------------------------------
(* One lemma per operation.                                                *)

\* A call has the type of the calls on a stack.
LEMMA CallTyped ==
    ASSUME NEW p \in {"pick", "load", "switch", "saved", "child", "reap"}, NEW t \in Pid
    PROVE  Call(p, t) \in CallType /\ Call(p, t).pc = p /\ Call(p, t).tgt = t
BY DEF Call, CallType

LEMMA IdleIsPid == idle \in Pid /\ Boot \notin Pid /\ Fault \notin Pid
BY SchedAssumption DEF idle, Pid, Boot, Fault

\* init_threads.
LEMMA InitInv == Init => IInv
<1> SUFFICES ASSUME Init PROVE IInv
  OBVIOUS
<1>1. /\ rq \in Seq(Pid) /\ Len(rq) = 1 /\ rq[1] = idle
      /\ \A t \in Pid : kstk[t] = <<>>
      /\ kstk \in [Pid -> Seq(CallType)]
  BY IdleIsPid DEF Init
<1>2. TypeOK
  BY <1>1, IdleIsPid DEF Init, TypeOK
<1>3. ToSet(rq) = {idle}
  BY <1>1, ToSetType
<1>4. RunQueueSound
  <2>1. IsInjective(rq)
    BY <1>1, LenProperties DEF IsInjective
  <2>2. ToSet(rq) = {t \in Pid : state[t] # "unused"}
    BY <1>3, IdleIsPid DEF Init
  <2> QED
    BY <1>3, <2>1, <2>2, IdleIsPid DEF Init, RunQueueSound
<1>5. FreshUnused
  BY SchedAssumption DEF Init, FreshUnused, Pid, idle
<1>6. CallsNested /\ CallsWhole
  BY <1>1 DEF CallsNested, Nested, CallsWhole, Whole
<1>7. OthersParked
  BY <1>1 DEF OthersParked
<1>8. RunnerNotSaved /\ RunnerExists /\ ChoiceKept /\ RunnerKnown
  BY IdleIsPid DEF Init, RunnerNotSaved, RunnerExists, ChoiceKept, RunnerKnown, At, AtBase
<1> QED
  BY <1>2, <1>4, <1>5, <1>6, <1>7, <1>8 DEF IInv

\* A step in which the running thread enters or goes on in schedule() or
\* kill_zombies, possibly after it has made threads zombies.
LEMMA CallStep ==
    ASSUME IInv, running \in Pid, UNCHANGED <<nxt_pid, rq, running>>,
           torn' \in Nat, torn' = 0 => torn = 0,
           NEW stk \in Seq(CallType), Nested(stk), torn' = 0 => Whole(stk), stk # <<>>,
           kstk' = [kstk EXCEPT ![running] = stk],
           Last(stk).pc \in {"pick", "load", "switch", "reap"},
           Last(stk).pc = "reap" => running = idle,
           torn' = 0 /\ Last(stk).pc = "reap" => curr_thread' = idle,
           curr_thread' \in ToSet(rq),
           torn' = 0 /\ Last(stk).pc \in {"load", "switch"} => state'[curr_thread'] = "running",
           torn' = 0 /\ Last(stk).pc = "switch" => Last(stk).tgt = curr_thread',
           state' \in [Pid -> {"unused", "running", "zombie"}],
           \A t \in Pid : state'[t] = "unused" <=> state[t] = "unused",
           torn' = 0 => state'[idle] = "running"
    PROVE  IInv'
<1>1. /\ kstk' \in [Pid -> Seq(CallType)]
      /\ CallsNested'
      /\ kstk'[running'] = stk
      /\ \A t \in Pid : t # running => kstk'[t] = kstk[t]
  BY DEF IInv, TypeOK, CallsNested
<1>2. OthersParked' /\ CallsWhole'
  BY <1>1 DEF IInv, OthersParked, CallsWhole
<1>3. curr_thread' \in Pid /\ state[curr_thread'] # "unused"
  BY ToSetType DEF IInv, TypeOK, RunQueueSound
<1>4. TypeOK'
  BY <1>1, <1>3 DEF IInv, TypeOK
<1>5. RunQueueSound'
  BY DEF IInv, RunQueueSound
<1>6. FreshUnused'
  BY DEF IInv, FreshUnused
<1>7. RunnerNotSaved' /\ RunnerExists' /\ ChoiceKept' /\ RunnerKnown'
  BY <1>1, <1>3 DEF IInv, RunnerNotSaved, RunnerExists, ChoiceKept, RunnerKnown, At, AtBase, Top
<1> QED
  BY <1>1, <1>2, <1>4, <1>5, <1>6, <1>7 DEF IInv

\* The stack of the running thread, and the thread schedule() starts from.
LEMMA RunnerStack ==
    ASSUME IInv, running \in Pid
    PROVE  /\ kstk[running] \in Seq(CallType)
           /\ Nested(kstk[running])
           /\ torn = 0 => Whole(kstk[running])
           /\ torn \in Nat
           /\ curr_thread \in Pid
           /\ curr_thread \in ToSet(rq)
           /\ state \in [Pid -> {"unused", "running", "zombie"}]
           /\ torn = 0 => state[idle] = "running"
BY IdleIsPid DEF IInv, TypeOK, CallsNested, CallsWhole, RunQueueSound, RunnerExists

\* The locked part of schedule().
LEMMA PickInv ==
    ASSUME IInv, Pick
    PROVE  IInv'
<1>1. PICK t \in Pid : NextThread(t) /\ curr_thread' = t
  BY DEF Pick
<1>2. t \in ToSet(rq) /\ state[t] = "running"
  BY <1>1, NextIsAlive
<1>3. running \in Pid /\ kstk[running] # <<>>
  BY DEF Pick, At
<1> DEFINE stk == Append(Front(kstk[running]), Call("load", idle))
<1>4. /\ stk \in Seq(CallType) /\ stk # <<>> /\ Last(stk).pc = "load" /\ Nested(stk)
      /\ torn = 0 => Whole(stk)
  BY <1>3, RunnerStack, Renew, CallTyped, IdleIsPid
<1>5. kstk' = [kstk EXCEPT ![running] = stk]
  BY DEF Pick, Replace
<1> HIDE DEF stk
<1> QED
  BY <1>1, <1>2, <1>3, <1>4, <1>5, RunnerStack, CallStep DEF Pick

\* The argument of switch_to is the thread that was chosen.
LEMMA LoadInv ==
    ASSUME IInv, Load
    PROVE  IInv'
<1>1. /\ running \in Pid /\ kstk[running] # <<>>
      /\ torn = 0 => state[curr_thread] = "running"
  BY DEF Load, At, IInv, ChoiceKept
<1> DEFINE stk == Append(Front(kstk[running]), Call("switch", curr_thread))
<1>2. /\ stk \in Seq(CallType) /\ stk # <<>> /\ Nested(stk)
      /\ torn = 0 => Whole(stk)
      /\ Last(stk).pc = "switch" /\ Last(stk).tgt = curr_thread
  BY <1>1, RunnerStack, Renew, CallTyped
<1>3. kstk' = [kstk EXCEPT ![running] = stk]
  BY DEF Load, Replace
<1> HIDE DEF stk
<1> QED
  BY <1>1, <1>2, <1>3, RunnerStack, CallStep DEF Load

\* switch_to saves the runner and continues the target where it is parked.
LEMMA SwitchInv ==
    ASSUME IInv, switch_to
    PROVE  IInv'
<1>1. /\ running \in Pid /\ kstk[running] # <<>> /\ running # Fault
      /\ torn = 0 => state[curr_thread] = "running" /\ Top.tgt = curr_thread
  BY IdleIsPid DEF switch_to, At, IInv, ChoiceKept
<1> DEFINE stk == Append(Front(kstk[running]), Call("saved", idle))
           t == Top.tgt
<1>2. /\ stk \in Seq(CallType) /\ stk # <<>> /\ Nested(stk) /\ Last(stk).pc = "saved"
      /\ torn = 0 => Whole(stk)
  BY <1>1, RunnerStack, Renew, CallTyped, IdleIsPid
<1>3. Saved = [kstk EXCEPT ![running] = stk]
  BY DEF Saved, Replace
<1>4. t \in Pid
  <2>1. Last(kstk[running]) \in CallType
    BY <1>1, RunnerStack DEF Last
  <2> QED
    BY <2>1 DEF Top, CallType
<1>5. UNCHANGED <<state, nxt_pid, rq, curr_thread, torn>>
  BY DEF switch_to
<1> HIDE DEF stk
<1>6. /\ Saved \in [Pid -> Seq(CallType)]
      /\ \A u \in Pid : /\ Nested(Saved[u])
                        /\ torn = 0 => Whole(Saved[u])
                        /\ Saved[u] = <<>> \/ Last(Saved[u]).pc \in {"saved", "child"}
  BY <1>1, <1>2, <1>3 DEF IInv, TypeOK, CallsNested, CallsWhole, OthersParked
<1>7. CASE state[t] = "unused"
  <2>1. running' = Fault /\ kstk' = Saved /\ torn # 0
    BY <1>1, <1>7, RunnerStack DEF switch_to
  <2>2. Fault \notin Pid
    BY IdleIsPid
  <2>3. TypeOK' /\ RunQueueSound' /\ FreshUnused'
    BY <1>5, <1>6, <2>1 DEF IInv, TypeOK, RunQueueSound, FreshUnused
  <2>4. CallsNested' /\ CallsWhole' /\ OthersParked'
    BY <1>5, <1>6, <2>1 DEF CallsNested, CallsWhole, OthersParked
  <2>5. RunnerNotSaved' /\ RunnerExists' /\ ChoiceKept' /\ RunnerKnown'
    BY <1>5, <2>1, <2>2 DEF RunnerNotSaved, RunnerExists, ChoiceKept, RunnerKnown, At, AtBase
  <2> QED
    BY <2>3, <2>4, <2>5 DEF IInv
<1>8. CASE state[t] # "unused"
  <2>1. /\ running' = t
        /\ kstk' = IF Saved[t] # <<>> /\ Last(Saved[t]).pc = "saved"
                   THEN [Saved EXCEPT ![t] = Front(Saved[t])] ELSE Saved
    BY <1>8 DEF switch_to
  <2>2. Saved[t] # <<>> =>
          /\ Front(Saved[t]) \in Seq(CallType)
          /\ Nested(Front(Saved[t]))
          /\ Front(Saved[t]) = <<>>
                \/ Last(Front(Saved[t])).pc \in {"child", "pick", "load", "switch"}
          /\ torn = 0 => /\ Whole(Front(Saved[t]))
                         /\ Front(Saved[t]) = <<>> \/ Last(Front(Saved[t])).pc # "switch"
    BY <1>4, <1>6, Pop
  <2> HIDE DEF t
  <2>3. /\ kstk' \in [Pid -> Seq(CallType)]
        /\ \A u \in Pid : u # t => kstk'[u] = Saved[u]
        /\ Nested(kstk'[t])
        /\ kstk'[t] = <<>> \/ Last(kstk'[t]).pc \in {"child", "pick", "load", "switch"}
        /\ torn = 0 => /\ Whole(kstk'[t])
                       /\ kstk'[t] = <<>> \/ Last(kstk'[t]).pc # "switch"
    BY <1>4, <1>6, <2>1, <2>2
  <2>4. CallsNested' /\ CallsWhole' /\ OthersParked'
    BY <1>4, <1>5, <1>6, <2>1, <2>3 DEF CallsNested, CallsWhole, OthersParked
  <2>5. TypeOK' /\ RunQueueSound' /\ FreshUnused'
    BY <1>4, <1>5, <2>1, <2>3 DEF IInv, TypeOK, RunQueueSound, FreshUnused
  <2>6. torn = 0 => t = curr_thread
    BY <1>1 DEF t
  <2>7. RunnerNotSaved' /\ RunnerExists' /\ ChoiceKept' /\ RunnerKnown'
    BY <1>1, <1>4, <1>5, <1>8, <2>1, <2>3, <2>6
       DEF IInv, RunnerNotSaved, RunnerExists, ChoiceKept, RunnerKnown, At, AtBase, Top
  <2> QED
    BY <2>4, <2>5, <2>7 DEF IInv
<1> QED
  BY <1>7, <1>8

\* A call of schedule() from user mode, or by an interrupt from anywhere but
\* kill_zombies, after the state of some threads was set to zombie.
LEMMA EnterInv ==
    ASSUME IInv, running \in Pid, ~ At("reap"), kstk' = schedule,
           UNCHANGED <<nxt_pid, rq, curr_thread, running>>,
           torn' \in Nat, torn' = 0 => torn = 0 /\ ~ At("switch"),
           state' \in [Pid -> {"unused", "running", "zombie"}],
           \A t \in Pid : state'[t] = "unused" <=> state[t] = "unused",
           torn' = 0 => state'[idle] = "running"
    PROVE  IInv'
<1>1. \/ kstk[running] = <<>>
      \/ Last(kstk[running]) \in CallType /\ Last(kstk[running]).pc \notin {"saved", "reap"}
  BY RunnerStack DEF IInv, RunnerNotSaved, At, Top, Last
<1>2. \/ kstk[running] = <<>>
      \/ Last(kstk[running]).pc \in {"child", "pick", "load", "switch"}
  BY <1>1 DEF CallType
<1>3. torn' = 0 => kstk[running] = <<>> \/ Last(kstk[running]).pc # "switch"
  BY DEF At, Top
<1> DEFINE stk == Append(kstk[running], Call("pick", idle))
<1>4. /\ stk \in Seq(CallType) /\ stk # <<>> /\ Last(stk).pc = "pick" /\ Nested(stk)
      /\ torn' = 0 => Whole(stk)
  BY <1>2, <1>3, RunnerStack, Push, CallTyped, IdleIsPid
<1>5. kstk' = [kstk EXCEPT ![running] = stk]
  BY DEF schedule
<1> HIDE DEF stk
<1> QED
  BY <1>4, <1>5, RunnerStack, CallStep

\* A timer interrupt: it tears a switch, or finds schedule() before it has
\* read curr_thread, or comes outside schedule().
LEMMA TickInv ==
    ASSUME IInv, Tick
    PROVE  IInv'
<1>1. running \in Pid /\ ~ At("reap")
  BY DEF Tick
<1>2. torn' \in Nat /\ (torn' = 0 => torn = 0 /\ ~ At("switch"))
  BY DEF Tick, IInv, TypeOK
<1> QED
  BY <1>1, <1>2, RunnerStack, EnterInv DEF Tick

\* A thread that ends stays on the run queue, and is not idle unless a switch
\* has been torn.
LEMMA ExitInv ==
    ASSUME IInv, thread_exit
    PROVE  IInv'
<1>1. AtBase /\ running \in Pid /\ running # idle /\ running # Fault
  BY IdleIsPid DEF thread_exit, InUser, AtBase
<1>2. state[curr_thread] # "unused" /\ (torn = 0 => curr_thread # idle)
  BY <1>1 DEF IInv, RunnerExists, RunnerKnown
<1>3. ~ At("reap") /\ ~ At("switch")
  BY <1>1 DEF AtBase, At
<1>4. /\ state' \in [Pid -> {"unused", "running", "zombie"}]
      /\ \A t \in Pid : state'[t] = "unused" <=> state[t] = "unused"
      /\ torn = 0 => state'[idle] = "running"
  BY <1>1, <1>2, RunnerStack, IdleIsPid DEF thread_exit
<1> QED
  BY <1>1, <1>3, <1>4, RunnerStack, EnterInv DEF thread_exit

LEMMA KillInv ==
    ASSUME IInv, NEW pid \in Pid, sys_kill_pid(pid)
    PROVE  IInv'
<1>1. AtBase /\ running \in Pid
  BY DEF sys_kill_pid, InUser, AtBase
<1>2. ~ At("reap") /\ ~ At("switch")
  BY <1>1 DEF AtBase, At
<1>3. /\ state' \in [Pid -> {"unused", "running", "zombie"}]
      /\ \A t \in Pid : state'[t] = "unused" <=> state[t] = "unused"
      /\ torn = 0 => state'[idle] = "running"
  BY <1>1, RunnerStack, IdleIsPid DEF sys_kill_pid
<1> QED
  BY <1>1, <1>2, <1>3, RunnerStack, EnterInv DEF sys_kill_pid

\* idle() enters kill_zombies.
LEMMA IdleInv ==
    ASSUME IInv, idle_pass
    PROVE  IInv'
<1>1. /\ running \in Pid /\ kstk[running] = <<>> /\ running = idle
      /\ torn = 0 => curr_thread = idle
  BY DEF idle_pass, AtBase, IInv, RunnerKnown
<1> DEFINE stk == Append(kstk[running], Call("reap", idle))
<1>2. /\ stk \in Seq(CallType) /\ stk # <<>> /\ Last(stk).pc = "reap" /\ Nested(stk)
      /\ torn = 0 => Whole(stk)
  <2>1. /\ kstk[running] \in Seq(CallType) /\ Nested(kstk[running])
        /\ torn = 0 => Whole(kstk[running])
    BY <1>1, RunnerStack
  <2>2. Call("reap", idle) \in CallType /\ Call("reap", idle).pc = "reap"
    BY CallTyped, IdleIsPid
  <2> QED
    BY <1>1, <2>1, <2>2, Push
<1>3. kstk' = [kstk EXCEPT ![running] = stk]
  BY <1>1 DEF idle_pass
<1> HIDE DEF stk
<1> QED
  BY <1>1, <1>2, <1>3, RunnerStack, CallStep DEF idle_pass

\* kill_zombies returns.
LEMMA ReapDoneInv ==
    ASSUME IInv, ReapDone
    PROVE  IInv'
<1>1. running \in Pid /\ kstk[running] # <<>>
  BY DEF ReapDone, At
<1> DEFINE stk == Append(Front(kstk[running]), Call("pick", idle))
<1>2. /\ stk \in Seq(CallType) /\ stk # <<>> /\ Last(stk).pc = "pick" /\ Nested(stk)
      /\ torn = 0 => Whole(stk)
  BY <1>1, RunnerStack, Renew, CallTyped, IdleIsPid
<1>3. kstk' = [kstk EXCEPT ![running] = stk]
  BY DEF ReapDone, Replace
<1> HIDE DEF stk
<1> QED
  BY <1>1, <1>2, <1>3, RunnerStack, CallStep DEF ReapDone

\* kill_zombies unlinks a thread and frees its slot: idle runs, so unless a
\* switch has been torn it is neither the runner nor curr_thread.
LEMMA ReapInv ==
    ASSUME IInv, Reap
    PROVE  IInv'
<1>1. PICK i \in 1 .. Len(rq) :
        /\ state[rq[i]] = "zombie"
        /\ state' = [state EXCEPT ![rq[i]] = "unused"]
        /\ rq' = RemoveAt(rq, i)
        /\ running' = IF rq[i] \in {running, curr_thread} THEN Fault ELSE running
        /\ kstk' = [kstk EXCEPT ![rq[i]] = <<>>]
  <2>1. DOMAIN rq = 1 .. Len(rq)
    BY DEF IInv, TypeOK
  <2>2. PICK i \in Reapable :
          /\ state' = [state EXCEPT ![rq[i]] = "unused"]
          /\ rq' = RemoveAt(rq, i)
          /\ running' = IF rq[i] \in {running, curr_thread} THEN Fault ELSE running
          /\ kstk' = [kstk EXCEPT ![rq[i]] = <<>>]
    BY Zenon DEF Reap
  <2>3. i \in 1 .. Len(rq) /\ state[rq[i]] = "zombie"
    BY <2>1, <2>2, Zenon DEF Reapable
  <2> QED
    BY <2>2, <2>3, Zenon
<1>2. /\ running = idle /\ idle \in Pid
      /\ rq \in Seq(Pid) /\ IsInjective(rq) /\ rq[i] \in Pid
      /\ torn = 0 => state[idle] = "running" /\ curr_thread = idle /\ curr_thread \in ToSet(rq)
  BY DEF Reap, IInv, TypeOK, RunnerExists, RunnerKnown, RunQueueSound, At
<1>3. /\ rq' \in Seq(Pid)
      /\ ToSet(rq') = ToSet(rq) \ {rq[i]}
      /\ IsInjective(rq')
  BY <1>1, <1>2, RemoveEntry
<1>4. /\ UNCHANGED <<curr_thread, nxt_pid, torn>>
      /\ kstk[running] # <<>> /\ Last(kstk[running]).pc = "reap" /\ Fault \notin Pid
  BY <1>2, IdleIsPid DEF Reap, At, Top
<1> DEFINE Freed(u) == kstk'[u] = <<>> \/ kstk'[u] = kstk[u]
<1>13. /\ kstk' \in [Pid -> Seq(CallType)]
       /\ \A t \in Pid : Freed(t)
       /\ \A t \in Pid \ {rq[i]} : kstk'[t] = kstk[t]
  BY <1>1, <1>2 DEF IInv, TypeOK
<1>5. state \in [Pid -> {"unused", "running", "zombie"}]
  BY DEF IInv, TypeOK
<1>6. torn = 0 => running' = running /\ rq[i] # idle
  BY <1>1, <1>2
<1>7. TypeOK'
  BY <1>1, <1>2, <1>3, <1>4, <1>5, <1>13 DEF IInv, TypeOK
<1>8. RunQueueSound'
  <2>1. \A t \in Pid : state'[t] # "unused" <=> state[t] # "unused" /\ t # rq[i]
    BY <1>1, <1>2, <1>5
  <2>2. ToSet(rq) = {t \in Pid : state[t] # "unused"}
    BY DEF IInv, RunQueueSound
  <2>3. ToSet(rq') = {t \in Pid : state'[t] # "unused"}
    BY <1>3, <2>1, <2>2
  <2>4. torn' = 0 => state'[idle] = "running" /\ curr_thread' \in ToSet(rq')
    BY <1>1, <1>2, <1>3, <1>4, <1>5, <1>6
  <2> QED
    BY <1>3, <2>3, <2>4 DEF RunQueueSound
<1>9. FreshUnused' /\ CallsNested' /\ CallsWhole'
  <2>1. FreshUnused'
    BY <1>1, <1>2, <1>4, <1>5 DEF IInv, FreshUnused
  <2>2. Nested(<<>>) /\ Whole(<<>>)
    BY DEF Nested, Whole
  <2>3. \A t \in Pid : Nested(kstk[t]) /\ (torn = 0 => Whole(kstk[t]))
    BY DEF IInv, CallsNested, CallsWhole
  <2>4. \A t \in Pid : Nested(kstk'[t]) /\ (torn = 0 => Whole(kstk'[t]))
    BY <1>13, <2>2, <2>3
  <2> QED
    BY <1>4, <2>1, <2>4 DEF CallsNested, CallsWhole
<1>10. OthersParked'
  BY <1>1, <1>2, <1>4, <1>13 DEF IInv, OthersParked
<1>11. RunnerExists'
  <2>1. CASE rq[i] \in {running, curr_thread}
    BY <1>1, <1>4, <2>1 DEF RunnerExists, At
  <2>2. CASE rq[i] \notin {running, curr_thread}
    <3>1. running # Fault /\ state[running] # "unused" /\ state[curr_thread] # "unused"
      BY <1>2, <1>4 DEF IInv, RunnerExists
    <3>2. running' = running /\ running = idle /\ state'[running] # "unused"
          /\ state'[curr_thread] # "unused"
      BY <1>1, <1>2, <1>5, <2>2, <3>1 DEF IInv, TypeOK
    <3> QED
      BY <1>4, <3>2 DEF RunnerExists
  <2> QED
    BY <2>1, <2>2
<1>12. RunnerNotSaved' /\ ChoiceKept' /\ RunnerKnown'
  <2>1. CASE rq[i] \in {running, curr_thread}
    <3>1. running' = Fault
      BY <1>1, <2>1
    <3> QED
      BY <1>4, <3>1 DEF RunnerNotSaved, ChoiceKept, RunnerKnown, At, AtBase
  <2>2. CASE rq[i] \notin {running, curr_thread}
    <3>1. running' = running /\ running \in Pid /\ kstk'[running] = kstk[running]
      BY <1>1, <1>2, <1>13, <2>2
    <3> QED
      BY <1>2, <1>4, <3>1 DEF RunnerNotSaved, ChoiceKept, RunnerKnown, At, AtBase, Top
  <2> QED
    BY <2>1, <2>2
<1> QED
  BY <1>7, <1>8, <1>9, <1>10, <1>11, <1>12 DEF IInv

-----------------------------------------------------------------------------
(* New threads.                                                            *)

\* The slot thread_create takes belongs to no thread.
LEMMA SlotUnused ==
    ASSUME IInv, NEW t \in Pid, FreeSlot(t)
    PROVE  state[t] = "unused"
BY DEF IInv, TypeOK, FreshUnused, FreeSlot, Pid

\* thread_create puts the new thread, and no other, on the run queue.
LEMMA CreateFacts ==
    ASSUME IInv, NEW t \in Pid, NEW stk \in Seq(CallType), Nested(stk), Whole(stk),
           thread_create(t, stk), torn' = torn
    PROVE  /\ state[t] = "unused"
           /\ state' \in [Pid -> {"unused", "running", "zombie"}]
           /\ state'[t] = "running"
           /\ \A u \in Pid : u # t => state'[u] = state[u] /\ kstk'[u] = kstk[u]
           /\ kstk' \in [Pid -> Seq(CallType)] /\ kstk'[t] = stk
           /\ nxt_pid' \in Nat /\ rq' \in Seq(Pid) /\ IsInjective(rq')
           /\ ToSet(rq') = {u \in Pid : state'[u] # "unused"}
           /\ ToSet(rq) \subseteq ToSet(rq') /\ t \in ToSet(rq')
           /\ FreshUnused' /\ CallsNested' /\ CallsWhole'
           /\ torn = 0 => state'[idle] = "running"
<1>1. /\ state \in [Pid -> {"unused", "running", "zombie"}]
      /\ kstk \in [Pid -> Seq(CallType)] /\ rq \in Seq(Pid) /\ nxt_pid \in Nat
      /\ IsInjective(rq) /\ (torn = 0 => state[idle] = "running")
      /\ ToSet(rq) = {u \in Pid : state[u] # "unused"}
  BY DEF IInv, TypeOK, RunQueueSound
<1>2. state[t] = "unused"
  BY <1>1, SlotUnused DEF thread_create
<1>3. /\ state' = [state EXCEPT ![t] = "running"]
      /\ kstk' = [kstk EXCEPT ![t] = stk]
      /\ rq' = <<t>> \o rq
  BY DEF thread_create
<1>4. /\ state' \in [Pid -> {"unused", "running", "zombie"}]
      /\ state'[t] = "running" /\ (torn = 0 => state'[idle] = "running")
      /\ \A u \in Pid : u # t => state'[u] = state[u] /\ kstk'[u] = kstk[u]
      /\ kstk' \in [Pid -> Seq(CallType)] /\ kstk'[t] = stk
  BY <1>1, <1>2, <1>3, IdleIsPid
<1>5. /\ rq' \in Seq(Pid) /\ IsInjective(rq')
      /\ ToSet(rq') = ToSet(rq) \cup {t}
  <2>1. t \notin ToSet(rq)
    BY <1>1, <1>2
  <2> QED
    BY <1>1, <1>3, <2>1, AddFirst
<1>6. ToSet(rq') = {u \in Pid : state'[u] # "unused"}
  BY <1>1, <1>4, <1>5
<1>7. nxt_pid' \in Nat /\ FreshUnused'
  <2>1. nxt_pid' = IF nxt_pid > PID_MAX THEN nxt_pid ELSE nxt_pid + 1
    BY DEF thread_create
  <2>2. nxt_pid <= PID_MAX => t = nxt_pid
    BY <1>1, SchedAssumption DEF thread_create, FreeSlot
  <2>3. t <= PID_MAX /\ t \in Nat /\ PID_MAX \in Nat
    BY SchedAssumption DEF Pid
  <2>4. ASSUME NEW u \in Pid, u >= nxt_pid' PROVE state'[u] = "unused"
    BY <1>1, <1>4, <2>1, <2>2, <2>3, <2>4 DEF IInv, FreshUnused, Pid
  <2> QED
    BY <1>1, <2>1, <2>4 DEF FreshUnused
<1>8. CallsNested' /\ CallsWhole'
  BY <1>4 DEF IInv, CallsNested, CallsWhole
<1> QED
  BY <1>2, <1>4, <1>5, <1>6, <1>7, <1>8

\* exec_thread leaves the boot stack for the first program.
LEMMA ExecInv ==
    ASSUME IInv, exec_thread
    PROVE  IInv'
<1>1. PICK t \in Pid : thread_create(t, <<>>) /\ curr_thread' = t /\ running' = t
  BY DEF exec_thread
<1>2. <<>> \in Seq(CallType) /\ Nested(<<>>) /\ Whole(<<>>)
  BY DEF Nested, Whole
<1>3. running \notin Pid /\ running # Fault /\ torn' = torn /\ torn \in Nat
  BY SchedAssumption, IdleIsPid DEF exec_thread, Boot, Fault, IInv, TypeOK
<1>4. TypeOK' /\ RunQueueSound' /\ FreshUnused' /\ CallsNested' /\ CallsWhole'
  BY <1>1, <1>2, <1>3, CreateFacts DEF TypeOK, RunQueueSound
<1>5. OthersParked'
  BY <1>1, <1>2, <1>3, CreateFacts DEF IInv, OthersParked
<1>6. RunnerNotSaved' /\ RunnerExists' /\ ChoiceKept' /\ RunnerKnown'
  BY <1>1, <1>2, <1>3, CreateFacts
     DEF RunnerNotSaved, RunnerExists, ChoiceKept, RunnerKnown, At, AtBase
<1> QED
  BY <1>4, <1>5, <1>6 DEF IInv

\* The parent goes on in user mode; the child is parked in sys_fork.
LEMMA ForkInv ==
    ASSUME IInv, sys_fork
    PROVE  IInv'
<1>1. PICK t \in Pid : thread_create(t, <<Call("child", running)>>)
  BY DEF sys_fork
<1>2. /\ running \in Pid /\ kstk[running] = <<>> /\ (torn = 0 => curr_thread = running)
      /\ UNCHANGED <<curr_thread, running, torn>>
      /\ torn \in Nat /\ curr_thread \in Pid /\ running # Fault
  BY IdleIsPid DEF sys_fork, InUser, AtBase, IInv, RunnerKnown, TypeOK
<1> DEFINE stk == <<Call("child", running)>>
<1>3. /\ stk \in Seq(CallType) /\ Nested(stk) /\ Whole(stk)
      /\ stk # <<>> /\ Last(stk).pc = "child"
  BY <1>2, CallTyped DEF Nested, Whole, Last
<1>4. thread_create(t, stk)
  BY <1>1
<1> HIDE DEF stk
<1>5. /\ running # t /\ state[running] # "unused"
      /\ state[curr_thread] # "unused" /\ curr_thread # t
  BY <1>2, <1>3, <1>4, CreateFacts DEF IInv, RunnerExists
<1>6. TypeOK' /\ RunQueueSound' /\ FreshUnused' /\ CallsNested' /\ CallsWhole'
  <2>1. ToSet(rq) = {u \in Pid : state[u] # "unused"}
    BY DEF IInv, RunQueueSound
  <2> QED
    BY <1>2, <1>3, <1>4, <1>5, <2>1, CreateFacts DEF TypeOK, RunQueueSound
<1>7. OthersParked'
  <2>1. kstk'[t] = stk /\ \A u \in Pid : u # t => kstk'[u] = kstk[u]
    BY <1>2, <1>3, <1>4, CreateFacts
  <2> QED
    BY <1>2, <1>3, <2>1 DEF IInv, OthersParked
<1>8. RunnerNotSaved' /\ RunnerExists' /\ ChoiceKept' /\ RunnerKnown'
  BY <1>2, <1>3, <1>4, <1>5, CreateFacts
     DEF RunnerNotSaved, RunnerExists, ChoiceKept, RunnerKnown, At, AtBase
<1> QED
  BY <1>6, <1>7, <1>8 DEF IInv

\* The child returns from sys_fork to user mode.
LEMMA ChildInv ==
    ASSUME IInv, sys_fork_child
    PROVE  IInv'
<1>1. /\ running \in Pid /\ kstk[running] # <<>> /\ Last(kstk[running]).pc = "child"
      /\ torn = 0 => curr_thread = running
      /\ UNCHANGED <<state, nxt_pid, rq, curr_thread, running, torn>>
      /\ kstk' = [kstk EXCEPT ![running] = Front(kstk[running])]
  BY DEF sys_fork_child, At, Top, IInv, RunnerKnown
<1>2. Front(kstk[running]) = <<>>
  BY <1>1, RunnerStack, Pop
<1>3. /\ kstk' \in [Pid -> Seq(CallType)]
      /\ kstk'[running'] = <<>>
      /\ \A t \in Pid : t # running => kstk'[t] = kstk[t]
  BY <1>1, <1>2 DEF IInv, TypeOK
<1>4. CallsNested' /\ CallsWhole'
  <2>1. Nested(<<>>) /\ Whole(<<>>)
    BY DEF Nested, Whole
  <2> QED
    BY <1>1, <1>3, <2>1 DEF IInv, CallsNested, CallsWhole
<1>5. TypeOK' /\ RunQueueSound' /\ FreshUnused' /\ OthersParked'
  BY <1>1, <1>3 DEF IInv, TypeOK, RunQueueSound, FreshUnused, OthersParked
<1>6. RunnerNotSaved' /\ RunnerExists' /\ ChoiceKept' /\ RunnerKnown'
  BY <1>1, <1>3
     DEF IInv, RunnerNotSaved, RunnerExists, ChoiceKept, RunnerKnown, At, AtBase, Top
<1> QED
  BY <1>4, <1>5, <1>6 DEF IInv

\* sys_fork without a free pid: the kernel runs no thread any more.
LEMMA NoPidInv ==
    ASSUME IInv, sys_fork_nopid
    PROVE  IInv'
<1>1. /\ running \in Pid /\ kstk[running] = <<>> /\ running' = Fault
      /\ UNCHANGED <<state, nxt_pid, rq, curr_thread, kstk, torn>>
  BY DEF sys_fork_nopid, InUser, AtBase
<1>2. TypeOK' /\ RunQueueSound' /\ FreshUnused' /\ CallsNested' /\ CallsWhole'
  BY <1>1 DEF IInv, TypeOK, RunQueueSound, FreshUnused, CallsNested, CallsWhole
<1>3. OthersParked'
  BY <1>1 DEF IInv, OthersParked
<1>4. RunnerNotSaved' /\ RunnerExists' /\ ChoiceKept' /\ RunnerKnown'
  BY <1>1, IdleIsPid DEF RunnerNotSaved, RunnerExists, ChoiceKept, RunnerKnown, At, AtBase
<1> QED
  BY <1>2, <1>3, <1>4 DEF IInv

\* Every step preserves the inductive invariant.
LEMMA NextInv ==
    ASSUME IInv, [Next]_vars
    PROVE  IInv'
<1>1. CASE UNCHANGED vars
  BY <1>1 DEF vars, IInv, TypeOK, RunQueueSound, FreshUnused, CallsNested, CallsWhole,
              OthersParked, RunnerNotSaved, RunnerExists, ChoiceKept, RunnerKnown, At, AtBase, Top
<1>2. CASE Next
  BY <1>2, ExecInv, PickInv, LoadInv, SwitchInv, TickInv, IdleInv, ReapInv, ReapDoneInv,
     ExitInv, KillInv, ForkInv, ChildInv, NoPidInv
     DEF Next
<1> QED
  BY <1>1, <1>2

-----------------------------------------------------------------------------
(* The theorems.                                                           *)

\* The inductive invariant holds whenever the timer interrupts.
THEOREM InvariantHolds == Spec => []IInv
<1>1. Init => IInv
  BY InitInv
<1>2. IInv /\ [Next]_vars => IInv'
  BY NextInv
<1> QED
  BY <1>1, <1>2, PTL DEF Spec

\* The run queue holds every thread once, whatever pids were used again and
\* however switches were torn; until one is, schedule() starts from an entry of
\* it, and idle lives.
THEOREM QueueHoldsThreads == Spec => []RunQueueSound
<1>1. IInv => RunQueueSound
  BY DEF IInv
<1> QED
  BY <1>1, InvariantHolds, PTL

\* Every thread that is alive and does not run can be continued by switch_to;
\* until a switch is torn, with interrupts at every other step of schedule(),
\* the one that runs is curr_thread outside schedule().
THEOREM ThreadsResumable == Spec => []StacksResumable
<1>1. IInv => StacksResumable
  BY DEF IInv, OthersParked, RunnerExists, RunnerKnown, StacksResumable
<1> QED
  BY <1>1, InvariantHolds, PTL

\* switch_to and exec_thread never give the CPU to a thread that was killed,
\* though an interrupt may come between the choice of a thread and the call of
\* switch_to and run the thread that kills it.
THEOREM ZombiesNotResumed == Spec => NeverResumesZombie
<1>1. IInv /\ [Next]_vars =>
        [torn = 0 /\ running' # running /\ running' \in Pid => state'[running'] = "running"]_vars
  <2> SUFFICES ASSUME IInv, Next, torn = 0, running' # running, running' \in Pid
               PROVE  state'[running'] = "running"
    BY DEF vars
  <2>1. CASE exec_thread
    <3>1. PICK t \in Pid : thread_create(t, <<>>) /\ running' = t
      BY <2>1 DEF exec_thread
    <3> QED
      BY <3>1 DEF thread_create, IInv, TypeOK
  <2>2. CASE switch_to
    <3>1. Top.tgt = curr_thread /\ state[curr_thread] = "running" /\ state' = state
      BY <2>2 DEF switch_to, IInv, ChoiceKept
    <3> QED
      BY <2>2, <3>1 DEF switch_to
  <2>3. CASE sys_fork_nopid
    BY <2>3, IdleIsPid DEF sys_fork_nopid
  <2>4. CASE Reap
    BY <2>4, IdleIsPid DEF Reap
  <2> QED
    BY <2>1, <2>2, <2>3, <2>4 DEF Next, Pick, Load, Tick, idle_pass, ReapDone, thread_exit,
                                  sys_kill_pid, sys_fork, sys_fork_child
<1> QED
  BY <1>1, InvariantHolds, PTL DEF Spec, NeverResumesZombie

=============================================================================
