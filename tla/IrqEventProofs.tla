--------------------------- MODULE IrqEventProofs ---------------------------
(***************************************************************************)
(* Proofs about IrqEvent, for every number of threads and of interrupts,   *)
(* if no thread is killed that was preempted inside the kernel.            *)
(***************************************************************************)
EXTENDS IrqEvent, ListLemmas, FiniteSetTheorems

Priority == 0 .. IdlePriority

\* The places of run_irq_event.
Looping == {"while", "run_lock", "peek", "take", "func", "restore"}

\* The places in a critical section: lock_counter counts them.
InSection == {"add", "peek", "take", "wild"}

Place == Looping \cup InSection \cup
    {"entry", "test_gpu", "test_w", "test_r", "mask", "add_lock", "unmask", "sched", "ret"}

FrameType == [src : Source, pc : Place, ev : Source, prev : Priority]

ThreadState == {"out", "locking", "in", "dead"}

\* The variables' types.
TypeOK ==
    /\ irq_event \in Seq(Source)
    /\ curr_priority \in Priority
    /\ lock_counter \in Nat
    /\ irq_off \in BOOLEAN
    /\ masked \subseteq Source
    /\ curr \in Tid
    /\ thread \in [Tid -> ThreadState]
    /\ stack \in [Tid -> Seq(FrameType)]

-----------------------------------------------------------------------------
(* The inductive invariant.                                                *)

\* The call that executes.
TopCall == <<curr, Len(stack[curr])>>

Below(c, d) == c[1] = d[1] /\ c[2] < d[2]

\* Code that runs with interrupts masked since the interrupt was taken, or
\* since Peek masked them.
Undivided(f) ==
    \/ f.pc \in {"entry", "take", "wild"}
    \/ f.src = "timer" /\ f.pc \in {"mask", "add_lock", "add"}

UndividedOnTop == \A c \in Calls : Undivided(Frame(c)) => irq_off /\ c = TopCall

\* A thread that does not have the CPU lost it in Preempt or in its own code.
Parked ==
    \A c \in Calls :
        c[1] # curr /\ c[2] = Len(stack[c[1]]) => Frame(c).pc = "test_gpu"

\* A dead thread was in user mode, and does not get the CPU.
DeadInUser ==
    /\ thread[curr] # "dead"
    /\ \A c \in Calls : thread[c[1]] = "dead" => Frame(c).pc = "test_gpu"

\* A call that serves a timer interrupt, between the mask and the unmask.
Service(f) ==
    f.pc = "unmask" \/ (f.src = "timer" /\ f.pc \in Looping \cup {"mask", "add_lock", "add"})

\* Only one call does at a time; its thread keeps the CPU, since a second timer
\* interrupt and so a preemption cannot come.
OneService ==
    \A c \in Calls : Service(Frame(c)) =>
        /\ c[1] = curr
        /\ Frame(c).pc # "mask" => "timer" \in masked
        /\ \A d \in Calls : /\ Service(Frame(d)) => d = c
                            /\ Below(c, d) => Frame(d).pc # "sched"

\* A call that has queued the timer's event and still runs the queue.
Serving(f) == f.src = "timer" /\ f.pc \in Looping

Runs(c, ev) == InFunc(c) /\ Frame(c).ev = ev

TimerQueued == \E k \in 1 .. Len(irq_event) : irq_event[k] = "timer"

\* The timer's event is queued or running only under the call that serves it.
TimerServed ==
    /\ TimerQueued => \E c \in Calls : Serving(Frame(c))
    /\ \A d \in Calls : Runs(d, "timer") =>
            \E c \in Calls : Serving(Frame(c)) /\ c[1] = d[1] /\ c[2] <= d[2]

\* It is not queued twice, and not queued while it is running.
TimerOnce ==
    /\ \A i, j \in 1 .. Len(irq_event) : irq_event[i] = "timer" /\ irq_event[j] = "timer" => i = j
    /\ TimerQueued => \A c \in Calls : ~ Runs(c, "timer")

InOrder(l) == \A i, j \in 1 .. Len(l) : i <= j => priority[l[i]] <= priority[l[j]]

TimerRuns == \E c \in Calls : Runs(c, "timer")
UartRuns == \E c \in Calls : Runs(c, "uart_w") \/ Runs(c, "uart_r")

\* curr_priority tells which handlers have begun.
PriorityKnown ==
    curr_priority = IF TimerRuns THEN 0 ELSE IF UartRuns THEN 1 ELSE IdlePriority

\* Of two handlers that have begun one is more urgent, and it is the inner one.
Nested ==
    \A c, d \in Calls :
        InFunc(c) /\ InFunc(d) =>
            /\ c # d => priority[Frame(c).ev] # priority[Frame(d).ev]
            /\ Below(c, d) => priority[Frame(c).ev] > priority[Frame(d).ev]

\* The priority that a handler will restore is that of the others.
PrevKnown ==
    \A c \in Calls : InFunc(c) =>
        Frame(c).prev = IF Frame(c).ev = "timer" /\ UartRuns THEN 1 ELSE IdlePriority

\* Between Peek and Take the queue and the priority stay as Peek has seen them.
TakeKnows ==
    \A c \in Calls : Frame(c).pc = "take" =>
        /\ irq_event # <<>>
        /\ Frame(c).ev = irq_event[1]
        /\ curr_priority > priority[irq_event[1]]

\* A call that will look at the queue before it returns, or that runs a handler
\* no more urgent than the event.
WillSee(c, ev) ==
    \/ Frame(c).pc \in Looping \ {"func", "restore"}
    \/ InFunc(c) /\ priority[Frame(c).ev] <= priority[ev]

AllSeen == \A k \in 1 .. Len(irq_event) : \E c \in Calls : WillSee(c, irq_event[k])

\* The critical sections that are open.
SectionCalls == {c \in Calls : Frame(c).pc \in InSection}
SectionThreads == {t \in Tid : thread[t] \in {"locking", "in"}}

LocksCounted ==
    /\ IsFiniteSet(SectionCalls) /\ IsFiniteSet(SectionThreads)
    /\ lock_counter = Cardinality(SectionCalls) + Cardinality(SectionThreads)

LockedAlone ==
    /\ \A t \in Tid : thread[t] = "in" => t = curr /\ irq_off /\ stack[t] = <<>>
    /\ lock_counter = 0 /\ stack[curr] = <<>> => ~ irq_off

IInv ==
    /\ TypeOK
    /\ UndividedOnTop
    /\ Parked
    /\ DeadInUser
    /\ OneService
    /\ TimerServed
    /\ TimerOnce
    /\ InOrder(irq_event)
    /\ PriorityKnown
    /\ Nested
    /\ PrevKnown
    /\ TakeKnows
    /\ AllSeen
    /\ LocksCounted
    /\ LockedAlone

-----------------------------------------------------------------------------
(* The calls on the stacks.                                                *)

LEMMA FrameFields ==
    ASSUME NEW f \in FrameType
    PROVE  f.src \in Source /\ f.pc \in Place /\ f.ev \in Source /\ f.prev \in Priority
BY DEF FrameType

LEMMA CallView ==
    ASSUME TypeOK
    PROVE  /\ \A c \in Calls : /\ c[1] \in Tid /\ c[2] \in Nat /\ c = <<c[1], c[2]>>
                               /\ c[2] \in 1 .. Len(stack[c[1]])
                               /\ Frame(c) \in FrameType
           /\ \A t \in Tid, i \in Nat : i \in 1 .. Len(stack[t]) => <<t, i>> \in Calls
           /\ \A t \in Tid : stack[t] \in Seq(FrameType) /\ Len(stack[t]) \in Nat
<1>1. \A t \in Tid : /\ stack[t] \in Seq(FrameType) /\ Len(stack[t]) \in Nat
                     /\ DOMAIN stack[t] = 1 .. Len(stack[t])
  BY DEF TypeOK
<1>2. \A c \in Calls : /\ c[1] \in Tid /\ c[2] \in DOMAIN stack[c[1]] /\ c = <<c[1], c[2]>>
  BY DEF Calls
<1>3. \A t \in Tid : \A i \in DOMAIN stack[t] : <<t, i>> \in Calls
  BY DEF Calls
<1>4. ASSUME NEW c \in Calls PROVE Frame(c) \in FrameType
  <2>1. c[1] \in Tid /\ c[2] \in 1 .. Len(stack[c[1]]) /\ stack[c[1]] \in Seq(FrameType)
    BY <1>1, <1>2
  <2> QED
    BY <2>1 DEF Frame
<1>5. ASSUME NEW c \in Calls PROVE c[2] \in Nat /\ c[2] \in 1 .. Len(stack[c[1]])
  BY <1>1, <1>2
<1> QED
  BY <1>1, <1>2, <1>3, <1>4, <1>5

\* The executing call.
LEMMA TopView ==
    ASSUME TypeOK, stack[curr] # <<>>
    PROVE  /\ TopCall \in Calls /\ Frame(TopCall) = Top /\ Top \in FrameType
           /\ TopCall[1] = curr /\ TopCall[2] = Len(stack[curr])
           /\ \A c \in Calls : c[1] = curr => c = TopCall \/ Below(c, TopCall)
<1>1. /\ curr \in Tid /\ stack[curr] \in Seq(FrameType)
      /\ Len(stack[curr]) \in Nat /\ Len(stack[curr]) > 0
  BY DEF TypeOK
<1>2. TopCall \in Calls /\ TopCall[1] = curr /\ TopCall[2] = Len(stack[curr])
  BY <1>1, CallView DEF TopCall
<1>3. Frame(TopCall) = Top
  BY <1>2 DEF Frame, Last, Top
<1>4. ASSUME NEW c \in Calls, c[1] = curr PROVE c = TopCall \/ Below(c, TopCall)
  <2>1. c[2] \in 1 .. Len(stack[curr]) /\ c = <<curr, c[2]>>
    BY <1>4, CallView
  <2> QED
    BY <1>1, <1>2, <1>4, <2>1 DEF TopCall, Below
<1> QED
  BY <1>2, <1>3, <1>4, CallView

\* The place of the executing call becomes another one.
LEMMA Replaced ==
    ASSUME TypeOK, stack[curr] # <<>>, NEW g \in FrameType, NEW top, top = TopCall,
           stack' = [stack EXCEPT ![curr] = Append(Front(@), g)]
    PROVE  /\ stack' \in [Tid -> Seq(FrameType)]
           /\ Calls' = Calls
           /\ \A c \in Calls : c # top => Frame(c)' = Frame(c)
           /\ Frame(top)' = g
           /\ \A t \in Tid : Len(stack'[t]) = Len(stack[t]) /\ (stack'[t] = <<>> <=> stack[t] = <<>>)
<1> DEFINE s == Append(Front(stack[curr]), g)
           n == Len(stack[curr])
<1>1. /\ curr \in Tid /\ stack \in [Tid -> Seq(FrameType)] /\ stack[curr] \in Seq(FrameType)
  BY DEF TypeOK
<1>2. /\ n \in Nat \ {0} /\ Front(stack[curr]) \in Seq(FrameType)
      /\ Len(Front(stack[curr])) = n - 1
      /\ \A i \in 1 .. (n - 1) : Front(stack[curr])[i] = stack[curr][i]
  BY <1>1, FrontProperties
<1>3. /\ s \in Seq(FrameType) /\ Len(s) = n /\ s[n] = g
      /\ \A i \in 1 .. (n - 1) : s[i] = stack[curr][i]
  BY <1>2
<1> HIDE DEF s
<1>4. /\ stack' \in [Tid -> Seq(FrameType)] /\ stack'[curr] = s
      /\ \A t \in Tid : t # curr => stack'[t] = stack[t]
  BY <1>1, <1>3 DEF s
<1>5. \A t \in Tid : Len(stack'[t]) = Len(stack[t])
  BY <1>3, <1>4
<1>6. \A t \in Tid : stack'[t] = <<>> <=> stack[t] = <<>>
  <2>1. s # <<>>
    BY <1>2, <1>3
  <2> QED
    BY <1>4, <2>1
<1>7. \A t \in Tid : DOMAIN stack'[t] = DOMAIN stack[t]
  <2>1. \A t \in Tid : /\ stack[t] \in Seq(FrameType) /\ stack'[t] \in Seq(FrameType)
    BY <1>1, <1>4
  <2> QED
    BY <1>5, <2>1
<1>8. Calls' = Calls
  BY <1>7 DEF Calls
<1>9. ASSUME NEW c \in Calls, c # top PROVE Frame(c)' = Frame(c)
  <2>1. c[1] \in Tid /\ c[2] \in 1 .. Len(stack[c[1]]) /\ c = <<c[1], c[2]>>
    BY CallView
  <2>2. CASE c[1] # curr
    BY <1>4, <2>1, <2>2 DEF Frame
  <2>3. CASE c[1] = curr
    <3>1. c[2] \in 1 .. (n - 1)
      BY <1>2, <1>9, <2>1, <2>3 DEF TopCall
    <3> QED
      BY <1>3, <1>4, <2>3, <3>1, SMTT(30) DEF Frame
  <2> QED
    BY <2>2, <2>3
<1>10. Frame(top)' = g
  BY <1>3, <1>4 DEF Frame, TopCall
<1> QED
  BY <1>4, <1>5, <1>6, <1>8, <1>9, <1>10

\* A call begins.
LEMMA Pushed ==
    ASSUME TypeOK, NEW g \in FrameType, NEW new, new = <<curr, Len(stack[curr]) + 1>>,
           stack' = [stack EXCEPT ![curr] = Append(@, g)]
    PROVE  /\ stack' \in [Tid -> Seq(FrameType)]
           /\ Calls' = Calls \cup {new} /\ new \notin Calls
           /\ \A c \in Calls : Frame(c)' = Frame(c)
           /\ Frame(new)' = g
           /\ Len(stack'[curr]) = Len(stack[curr]) + 1
           /\ \A t \in Tid : t # curr => stack'[t] = stack[t]
<1> DEFINE s == Append(stack[curr], g)
           n == Len(stack[curr])
<1>1. /\ curr \in Tid /\ stack \in [Tid -> Seq(FrameType)] /\ stack[curr] \in Seq(FrameType)
      /\ n \in Nat
  BY DEF TypeOK
<1>2. /\ s \in Seq(FrameType) /\ Len(s) = n + 1 /\ s[n + 1] = g
      /\ \A i \in 1 .. n : s[i] = stack[curr][i]
  BY <1>1
<1> HIDE DEF s
<1>3. /\ stack' \in [Tid -> Seq(FrameType)] /\ stack'[curr] = s
      /\ \A t \in Tid : t # curr => stack'[t] = stack[t]
  BY <1>1, <1>2 DEF s
<1>4. /\ DOMAIN stack'[curr] = (DOMAIN stack[curr]) \cup {n + 1}
      /\ n + 1 \notin DOMAIN stack[curr]
  BY <1>1, <1>2, <1>3
<1>5. Calls' = Calls \cup {new} /\ new \notin Calls
  <2>1. \A c : c \in Calls <=> /\ c[1] \in Tid /\ c[2] \in DOMAIN stack[c[1]] /\ c = <<c[1], c[2]>>
    BY DEF Calls
  <2>2. \A c : c \in Calls' <=> /\ c[1] \in Tid /\ c[2] \in DOMAIN stack'[c[1]] /\ c = <<c[1], c[2]>>
    BY DEF Calls
  <2>3. new[1] = curr /\ new[2] = n + 1 /\ new = <<new[1], new[2]>>
    OBVIOUS
  <2>4. ASSUME NEW c PROVE c \in Calls' <=> c \in Calls \cup {new}
    <3>1. CASE c[1] = curr
      BY <1>1, <1>4, <2>1, <2>2, <2>3, <3>1
    <3>2. CASE c[1] # curr
      BY <1>3, <2>1, <2>2, <2>3, <3>2
    <3> QED
      BY <3>1, <3>2
  <2>5. new \notin Calls
    BY <1>4, <2>1, <2>3
  <2> QED
    BY <2>4, <2>5
<1>6. ASSUME NEW c \in Calls PROVE Frame(c)' = Frame(c)
  <2>1. c[1] \in Tid /\ c[2] \in 1 .. Len(stack[c[1]])
    BY CallView
  <2> QED
    BY <1>2, <1>3, <2>1 DEF Frame
<1>7. Frame(new)' = g
  BY <1>2, <1>3 DEF Frame
<1> QED
  BY <1>2, <1>3, <1>5, <1>6, <1>7

\* A call returns.
LEMMA Popped ==
    ASSUME TypeOK, stack[curr] # <<>>, NEW top, top = TopCall,
           stack' = [stack EXCEPT ![curr] = Front(@)]
    PROVE  /\ stack' \in [Tid -> Seq(FrameType)]
           /\ Calls' = Calls \ {top}
           /\ \A c \in Calls' : Frame(c)' = Frame(c)
           /\ Len(stack'[curr]) = Len(stack[curr]) - 1
           /\ \A t \in Tid : t # curr => stack'[t] = stack[t]
<1> DEFINE s == Front(stack[curr])
           n == Len(stack[curr])
<1>1. /\ curr \in Tid /\ stack \in [Tid -> Seq(FrameType)] /\ stack[curr] \in Seq(FrameType)
  BY DEF TypeOK
<1>2. /\ n \in Nat \ {0} /\ s \in Seq(FrameType) /\ Len(s) = n - 1
      /\ \A i \in 1 .. (n - 1) : s[i] = stack[curr][i]
  BY <1>1, FrontProperties
<1> HIDE DEF s
<1>3. /\ stack' \in [Tid -> Seq(FrameType)] /\ stack'[curr] = s
      /\ \A t \in Tid : t # curr => stack'[t] = stack[t]
  BY <1>1, <1>2 DEF s
<1>4. /\ DOMAIN stack'[curr] = (DOMAIN stack[curr]) \ {n}
      /\ n \in DOMAIN stack[curr]
  BY <1>1, <1>2, <1>3
<1>5. Calls' = Calls \ {top}
  <2>1. \A c : c \in Calls <=> /\ c[1] \in Tid /\ c[2] \in DOMAIN stack[c[1]] /\ c = <<c[1], c[2]>>
    BY DEF Calls
  <2>2. \A c : c \in Calls' <=> /\ c[1] \in Tid /\ c[2] \in DOMAIN stack'[c[1]] /\ c = <<c[1], c[2]>>
    BY DEF Calls
  <2>3. top[1] = curr /\ top[2] = n /\ top = <<top[1], top[2]>>
    BY DEF TopCall
  <2>4. ASSUME NEW c PROVE c \in Calls' <=> c \in Calls \ {top}
    <3>1. CASE c[1] = curr
      BY <1>1, <1>4, <2>1, <2>2, <2>3, <3>1
    <3>2. CASE c[1] # curr
      BY <1>3, <2>1, <2>2, <2>3, <3>2
    <3> QED
      BY <3>1, <3>2
  <2> QED
    BY <2>4
<1>6. ASSUME NEW c \in Calls' PROVE Frame(c)' = Frame(c)
  <2>1. c[1] \in Tid /\ c[2] \in 1 .. Len(stack[c[1]]) /\ c = <<c[1], c[2]>> /\ c # top
    BY <1>5, CallView
  <2>2. CASE c[1] # curr
    BY <1>3, <2>1, <2>2 DEF Frame
  <2>3. CASE c[1] = curr
    <3>1. c[2] \in 1 .. (n - 1)
      BY <1>2, <2>1, <2>3 DEF TopCall
    <3> QED
      BY <1>2, <1>3, <2>3, <3>1 DEF Frame
  <2> QED
    BY <2>2, <2>3
<1> QED
  BY <1>2, <1>3, <1>5, <1>6

-----------------------------------------------------------------------------
(* What a step of the executing call keeps, part by part.  top is the call *)
(* and g what its frame becomes.                                           *)

Becomes(top, g) ==
    /\ top = TopCall /\ top \in Calls /\ top[1] = curr /\ top[2] = Len(stack[curr])
    /\ stack[curr] # <<>>
    /\ Calls' = Calls
    /\ \A c \in Calls : c # top => Frame(c)' = Frame(c)
    /\ Frame(top)' = g
    /\ \A t \in Tid : Len(stack'[t]) = Len(stack[t]) /\ (stack'[t] = <<>> <=> stack[t] = <<>>)

\* A frame that runs a handler.
Open(f) == f.pc \in {"func", "restore"}

LEMMA PriorityOf == \A x \in Source : priority[x] = IF x = "timer" THEN 0 ELSE 1
BY DEF Source, priority

LEMMA UndividedKept ==
    ASSUME IInv, NEW top, NEW g, Becomes(top, g),
           Undivided(g) => irq_off' /\ curr' = curr
    PROVE  UndividedOnTop'
<1> SUFFICES ASSUME NEW c \in Calls, Undivided(Frame(c))'
             PROVE  irq_off' /\ c = TopCall'
  BY DEF Becomes, UndividedOnTop
<1>1. c = top
  BY DEF Becomes, IInv, UndividedOnTop, Undivided
<1>2. irq_off' /\ curr' = curr
  BY <1>1 DEF Becomes, Undivided
<1>3. TopCall' = TopCall
  BY <1>2 DEF TopCall, Becomes, IInv, TypeOK
<1> QED
  BY <1>1, <1>2, <1>3 DEF Becomes

LEMMA ParkedKept ==
    ASSUME IInv, NEW top, NEW g, Becomes(top, g), curr' = curr \/ g.pc = "test_gpu"
    PROVE  Parked'
<1> SUFFICES ASSUME NEW c \in Calls, c[1] # curr', c[2] = Len(stack'[c[1]])
             PROVE  Frame(c)'.pc = "test_gpu"
  BY DEF Becomes, Parked
<1>1. CASE c = top
  BY <1>1 DEF Becomes
<1>2. CASE c # top
  <2>1. c[1] \in Tid /\ c[2] \in Nat /\ c = <<c[1], c[2]>> /\ c[2] = Len(stack[c[1]])
    BY CallView DEF Becomes, IInv
  <2>2. c[1] # curr
    BY <1>2, <2>1 DEF Becomes, TopCall
  <2> QED
    BY <1>2, <2>1, <2>2 DEF Becomes, IInv, Parked
<1> QED
  BY <1>1, <1>2

LEMMA DeadKept ==
    ASSUME IInv, NEW top, NEW g, Becomes(top, g), thread' = thread, thread[curr'] # "dead"
    PROVE  DeadInUser'
BY DEF Becomes, IInv, DeadInUser

LEMMA ServiceKept ==
    ASSUME IInv, NEW top, NEW g, Becomes(top, g), curr' = curr,
           "timer" \in masked => "timer" \in masked',
           Service(g) => Service(Frame(top)),
           Service(g) /\ g.pc # "mask" => "timer" \in masked',
           g.pc = "sched" => Service(Frame(top))
    PROVE  OneService'
<1> SUFFICES ASSUME NEW c \in Calls, Service(Frame(c))'
             PROVE  /\ c[1] = curr
                    /\ Frame(c)'.pc # "mask" => "timer" \in masked'
                    /\ \A d \in Calls : /\ Service(Frame(d))' => d = c
                                        /\ Below(c, d) => Frame(d)'.pc # "sched"
  BY DEF Becomes, OneService, Below
<1>1. \A d \in Calls : Service(Frame(d))' => Service(Frame(d))
  BY DEF Becomes, Service
<1>2. \A d \in Calls : Frame(d)'.pc = "sched" => Frame(d).pc = "sched" \/ Service(Frame(d))
  BY DEF Becomes
<1>3. /\ c[1] = curr
      /\ Frame(c).pc # "mask" => "timer" \in masked
      /\ \A d \in Calls : /\ Service(Frame(d)) => d = c
                          /\ Below(c, d) => Frame(d).pc # "sched"
  BY <1>1 DEF IInv, OneService
<1>4. Frame(c)'.pc # "mask" => "timer" \in masked'
  BY <1>3 DEF Becomes, Service
<1>5. ~ Below(c, c)
  BY CallView DEF Below, IInv
<1> QED
  BY <1>1, <1>2, <1>3, <1>4, <1>5

\* The timer's event is where it was.
LEMMA TimerKept ==
    ASSUME IInv, NEW top, NEW g, Becomes(top, g), irq_event' = irq_event,
           Serving(Frame(top)) => Serving(g),
           Open(g) /\ g.ev = "timer" => Open(Frame(top)) /\ Frame(top).ev = "timer"
    PROVE  TimerServed' /\ TimerOnce'
<1>1. \A c \in Calls : Serving(Frame(c)) => Serving(Frame(c))'
  BY DEF Becomes, Serving
<1>2. \A c \in Calls : Runs(c, "timer")' => Runs(c, "timer")
  BY DEF Becomes, Runs, InFunc, Open
<1>3. TimerQueued' = TimerQueued
  BY DEF TimerQueued
<1> QED
  BY <1>1, <1>2, <1>3 DEF Becomes, IInv, TimerServed, TimerOnce

\* The timer's event is neither queued nor running.
LEMMA TimerGone ==
    ASSUME ~ TimerQueued', \A c \in Calls' : ~ Runs(c, "timer")',
           \A i, j \in 1 .. Len(irq_event') : irq_event'[i] = "timer" /\ irq_event'[j] = "timer" => i = j
    PROVE  TimerServed' /\ TimerOnce'
BY DEF TimerServed, TimerOnce

LEMMA PriorityKept ==
    ASSUME IInv, NEW top, NEW g, Becomes(top, g), curr_priority' = curr_priority,
           Open(g) <=> Open(Frame(top)),
           Open(g) => g.ev = Frame(top).ev /\ g.prev = Frame(top).prev
    PROVE  PriorityKnown' /\ Nested' /\ PrevKnown'
<1>1. \A c \in Calls : /\ InFunc(c)' <=> InFunc(c)
                       /\ InFunc(c) => Frame(c)'.ev = Frame(c).ev /\ Frame(c)'.prev = Frame(c).prev
  BY DEF Becomes, InFunc, Open
<1>2. \A c \in Calls, e \in Source : Runs(c, e)' <=> Runs(c, e)
  BY <1>1 DEF Runs
<1>3. (TimerRuns' <=> TimerRuns) /\ (UartRuns' <=> UartRuns)
  BY <1>2 DEF Becomes, TimerRuns, UartRuns, Source
<1>4. PriorityKnown'
  BY <1>3 DEF IInv, PriorityKnown
<1>5. Nested'
  BY <1>1 DEF Becomes, IInv, Nested, Below
<1>6. PrevKnown'
  BY <1>1, <1>3 DEF Becomes, IInv, PrevKnown
<1> QED
  BY <1>4, <1>5, <1>6

\* No call is between Peek and Take.
LEMMA TakeLeft ==
    ASSUME IInv, NEW top, NEW g, Becomes(top, g), g.pc # "take"
    PROVE  TakeKnows'
<1>1. \A c \in Calls : c # top => Frame(c).pc # "take"
  BY DEF Becomes, IInv, UndividedOnTop, Undivided
<1> QED
  BY <1>1 DEF Becomes, TakeKnows

LEMMA SeenKept ==
    ASSUME IInv, NEW top, NEW g, Becomes(top, g), irq_event' = irq_event,
           Frame(top).pc \in Looping => g.pc \in Looping,
           Open(g) => Open(Frame(top)) /\ g.ev = Frame(top).ev
    PROVE  AllSeen'
<1> SUFFICES ASSUME NEW k \in 1 .. Len(irq_event)
             PROVE  \E c \in Calls : WillSee(c, irq_event[k])'
  BY DEF Becomes, AllSeen
<1>1. PICK c \in Calls : WillSee(c, irq_event[k])
  BY DEF IInv, AllSeen
<1>2. CASE c # top
  BY <1>1, <1>2 DEF Becomes, WillSee, InFunc
<1>3. CASE c = top
  BY <1>1, <1>3 DEF Becomes, WillSee, InFunc, Looping, Open
<1> QED
  BY <1>2, <1>3

LEMMA LocksKept ==
    ASSUME IInv, NEW top, NEW g, Becomes(top, g), thread' = thread, lock_counter' = lock_counter,
           Frame(top).pc \in InSection <=> g.pc \in InSection
    PROVE  LocksCounted'
<1>1. SectionCalls' = SectionCalls
  BY DEF Becomes, SectionCalls
<1>2. SectionThreads' = SectionThreads
  BY DEF SectionThreads
<1> QED
  BY <1>1, <1>2 DEF IInv, LocksCounted

LEMMA LocksEntered ==
    ASSUME IInv, NEW top, NEW g, Becomes(top, g), thread' = thread,
           lock_counter' = lock_counter + 1,
           Frame(top).pc \notin InSection, g.pc \in InSection
    PROVE  LocksCounted'
<1>1. SectionCalls' = SectionCalls \cup {top} /\ top \notin SectionCalls
  BY DEF Becomes, SectionCalls
<1>2. SectionThreads' = SectionThreads
  BY DEF SectionThreads
<1>3. IsFiniteSet(SectionCalls) /\ IsFiniteSet(SectionThreads)
  BY DEF IInv, LocksCounted
<1>4. /\ IsFiniteSet(SectionCalls')
      /\ Cardinality(SectionCalls') = Cardinality(SectionCalls) + 1
      /\ Cardinality(SectionCalls) \in Nat /\ Cardinality(SectionThreads) \in Nat
  BY <1>1, <1>3, FS_AddElement, FS_CardinalityType
<1> QED
  BY <1>2, <1>3, <1>4 DEF IInv, LocksCounted

LEMMA LocksLeft ==
    ASSUME IInv, NEW top, NEW g, Becomes(top, g), thread' = thread,
           lock_counter' = lock_counter - 1,
           Frame(top).pc \in InSection, g.pc \notin InSection
    PROVE  LocksCounted' /\ lock_counter' \in Nat
<1>1. SectionCalls' = SectionCalls \ {top} /\ top \in SectionCalls
  BY DEF Becomes, SectionCalls
<1>2. SectionThreads' = SectionThreads
  BY DEF SectionThreads
<1>3. IsFiniteSet(SectionCalls) /\ IsFiniteSet(SectionThreads)
  BY DEF IInv, LocksCounted
<1>4. /\ IsFiniteSet(SectionCalls')
      /\ Cardinality(SectionCalls') = Cardinality(SectionCalls) - 1
      /\ Cardinality(SectionCalls) \in Nat /\ Cardinality(SectionThreads) \in Nat
      /\ Cardinality(SectionCalls') \in Nat
  BY <1>1, <1>3, FS_RemoveElement, FS_CardinalityType
<1> QED
  BY <1>2, <1>3, <1>4 DEF IInv, LocksCounted

LEMMA AloneKept ==
    ASSUME IInv, NEW top, NEW g, Becomes(top, g), thread' = thread, curr' \in Tid,
           curr' = curr \/ irq_off' = (lock_counter' # 0)
    PROVE  LockedAlone'
<1>1. \A t \in Tid : thread[t] # "in"
  BY DEF Becomes, IInv, LockedAlone
<1>2. lock_counter' = 0 /\ stack'[curr'] = <<>> => ~ irq_off'
  BY DEF Becomes, IInv, TypeOK
<1> QED
  BY <1>1, <1>2 DEF LockedAlone

\* The frame of a call of irq_handler that goes on.
LEMMA Moved ==
    ASSUME IInv, NEW q, Running(q), NEW p \in Place, NEW e \in Source, NEW v \in Priority,
           GotoWith(p, e, v)
    PROVE  \E top, g :
              /\ Becomes(top, g) /\ Frame(top) = Top
              /\ g \in FrameType /\ Top \in FrameType /\ Top.pc = q
              /\ g.src = Top.src /\ g.pc = p /\ g.ev = e /\ g.prev = v
              /\ stack' \in [Tid -> Seq(FrameType)]
<1> DEFINE h == [Top EXCEPT !.pc = p, !.ev = e, !.prev = v]
<1>1. PICK top : top = TopCall
  OBVIOUS
<1>2. TypeOK /\ stack[curr] # <<>> /\ Top.pc = q
  BY DEF IInv, Running
<1>3. /\ top \in Calls /\ Frame(top) = Top /\ Top \in FrameType
      /\ top[1] = curr /\ top[2] = Len(stack[curr])
  BY <1>1, <1>2, TopView
<1>4. /\ h \in FrameType /\ h.src = Top.src /\ h.pc = p /\ h.ev = e /\ h.prev = v
  BY <1>3 DEF FrameType
<1>5. PICK g : g = h
  OBVIOUS
<1> HIDE DEF h
<1>6. stack' = [stack EXCEPT ![curr] = Append(Front(@), g)]
  BY <1>5 DEF GotoWith, h
<1>7. g \in FrameType
  BY <1>4, <1>5
<1>8. /\ stack' \in [Tid -> Seq(FrameType)]
      /\ Calls' = Calls
      /\ \A c \in Calls : c # top => Frame(c)' = Frame(c)
      /\ Frame(top)' = g
      /\ \A t \in Tid : Len(stack'[t]) = Len(stack[t]) /\ (stack'[t] = <<>> <=> stack[t] = <<>>)
  BY <1>1, <1>2, <1>6, <1>7, Replaced
<1>9. Becomes(top, g)
  BY <1>1, <1>2, <1>3, <1>8 DEF Becomes
<1> QED
  BY <1>2, <1>3, <1>4, <1>5, <1>7, <1>8, <1>9

LEMMA MovedTo ==
    ASSUME IInv, NEW q, Running(q), NEW p \in Place, Goto(p)
    PROVE  \E top, g :
              /\ Becomes(top, g) /\ Frame(top) = Top
              /\ g \in FrameType /\ Top \in FrameType /\ Top.pc = q
              /\ g.src = Top.src /\ g.pc = p /\ g.ev = Top.ev /\ g.prev = Top.prev
              /\ stack' \in [Tid -> Seq(FrameType)]
<1>1. Top \in FrameType
  BY TopView DEF IInv, Running
<1>2. PICK e \in Source, v \in Priority : e = Top.ev /\ v = Top.prev
  BY <1>1, FrameFields
<1>3. GotoWith(p, e, v)
  BY <1>2 DEF Goto
<1> QED
  BY <1>2, <1>3, Moved

\* The parts of the invariant that a step of the executing call keeps, whatever
\* it does, unless it gives the CPU away.
LEMMA StepInv ==
    ASSUME IInv, NEW top, NEW g, Becomes(top, g), UNCHANGED threads,
           stack' \in [Tid -> Seq(FrameType)],
           irq_event' \in Seq(Source), curr_priority' \in Priority, lock_counter' \in Nat,
           irq_off' \in BOOLEAN, masked' \subseteq Source,
           Undivided(g) => irq_off',
           g.pc = "take" => TakeKnows',
           OneService', TimerServed', TimerOnce', InOrder(irq_event'),
           PriorityKnown', Nested', PrevKnown', AllSeen', LocksCounted'
    PROVE  IInv'
<1>1. thread' = thread /\ curr' = curr
  BY DEF threads
<1>2. TypeOK'
  BY <1>1 DEF IInv, TypeOK
<1>3. UndividedOnTop'
  BY <1>1, UndividedKept
<1>4. Parked'
  BY <1>1, ParkedKept
<1>5. DeadInUser'
  BY <1>1, DeadKept DEF IInv, DeadInUser
<1>6. TakeKnows'
  BY TakeLeft
<1>7. LockedAlone'
  BY <1>1, AloneKept DEF IInv, TypeOK
<1> QED
  BY <1>2, <1>3, <1>4, <1>5, <1>6, <1>7 DEF IInv

\* A step of the executing call that leaves the queue, the priority, the lock
\* and interrupts alone.
LEMMA QuietInv ==
    ASSUME IInv, NEW top, NEW g, Becomes(top, g), UNCHANGED <<queue, cpu, threads>>,
           stack' \in [Tid -> Seq(FrameType)], masked' \subseteq Source,
           Undivided(g) => Undivided(Frame(top)),
           g.pc # "take",
           Open(g) <=> Open(Frame(top)),
           Open(g) => g.ev = Frame(top).ev /\ g.prev = Frame(top).prev,
           Frame(top).pc \in InSection <=> g.pc \in InSection,
           OneService', TimerServed', TimerOnce', AllSeen'
    PROVE  IInv'
<1>1. /\ irq_event' = irq_event /\ curr_priority' = curr_priority
      /\ lock_counter' = lock_counter /\ irq_off' = irq_off
      /\ thread' = thread /\ curr' = curr
  BY DEF queue, cpu, threads
<1>2. PriorityKnown' /\ Nested' /\ PrevKnown'
  BY <1>1, PriorityKept
<1>3. LocksCounted'
  BY <1>1, LocksKept
<1>4. Undivided(g) => irq_off'
  BY <1>1 DEF Becomes, IInv, UndividedOnTop
<1>5. /\ irq_event' \in Seq(Source) /\ curr_priority' \in Priority /\ lock_counter' \in Nat
      /\ irq_off' \in BOOLEAN /\ InOrder(irq_event')
  BY <1>1 DEF IInv, TypeOK
<1> QED
  BY <1>2, <1>3, <1>4, <1>5, StepInv DEF threads

-----------------------------------------------------------------------------
(* The steps of irq_handler outside run_irq_event.                         *)

\* Nothing is above the executing call.
LEMMA NoneAbove ==
    ASSUME IInv, NEW top, top = TopCall, stack[curr] # <<>>, NEW c \in Calls
    PROVE  ~ Below(top, c)
<1>1. /\ top[1] = curr /\ top[2] = Len(stack[curr]) /\ Len(stack[curr]) \in Nat
      /\ c[2] \in 1 .. Len(stack[c[1]])
  BY CallView, TopView DEF IInv, TypeOK
<1> QED
  BY <1>1 DEF Below

LEMMA TestTimerInv ==
    ASSUME IInv, TestTimer
    PROVE  IInv'
<1>1. PICK p \in {"mask", "test_gpu"} : Goto(p) /\ (p = "mask" => "timer" \notin masked)
  BY DEF TestTimer, Signalled
<1>2. p \in Place /\ Running("entry") /\ UNCHANGED <<queue, cpu, devices, threads>>
  BY DEF Place, TestTimer
<1>3. PICK top, g :
        /\ Becomes(top, g) /\ Frame(top) = Top
        /\ g \in FrameType /\ Top \in FrameType /\ Top.pc = "entry"
        /\ g.src = Top.src /\ g.pc = p /\ g.ev = Top.ev /\ g.prev = Top.prev
        /\ stack' \in [Tid -> Seq(FrameType)]
  BY <1>1, <1>2, MovedTo
<1>4. irq_event' = irq_event /\ masked' = masked /\ curr' = curr
  BY <1>2 DEF queue, devices, threads
<1>5. OneService'
  <2>1. CASE p = "test_gpu"
    BY <1>3, <1>4, <2>1, ServiceKept DEF Service, Looping
  <2>2. CASE p = "mask"
    <3>1. \A c \in Calls : ~ Service(Frame(c))
      <4> SUFFICES ASSUME NEW c \in Calls, Service(Frame(c)) PROVE FALSE
        OBVIOUS
      <4>1. Frame(c).pc = "mask"
        BY <1>1, <2>2 DEF IInv, OneService
      <4>2. c = TopCall
        BY <4>1 DEF Service, IInv, UndividedOnTop, Undivided
      <4> QED
        BY <1>3, <4>1, <4>2 DEF Becomes
    <3>2. \A c \in Calls : Service(Frame(c))' => c = top
      BY <1>3, <3>1 DEF Becomes, Service
    <3>3. \A c \in Calls : ~ Below(top, c)
      BY <1>3, NoneAbove DEF Becomes
    <3> QED
      BY <1>3, <1>4, <2>2, <3>2, <3>3 DEF OneService, Becomes, Below
  <2> QED
    BY <1>1, <2>1, <2>2
<1>6. TimerServed' /\ TimerOnce'
  BY <1>1, <1>3, <1>4, TimerKept DEF Serving, Open, Looping
<1>7. AllSeen'
  BY <1>1, <1>3, <1>4, SeenKept DEF Open, Looping
<1>8. /\ Undivided(g) => Undivided(Frame(top))
      /\ g.pc # "take" /\ ~ Open(g) /\ ~ Open(Frame(top))
      /\ Frame(top).pc \notin InSection /\ g.pc \notin InSection
  BY <1>1, <1>3 DEF Undivided, Open, InSection
<1>9. masked' \subseteq Source
  BY <1>4 DEF IInv, TypeOK
<1> QED
  BY <1>2, <1>3, <1>5, <1>6, <1>7, <1>8, <1>9, QuietInv

LEMMA TestGpuInv ==
    ASSUME IInv, TestGpu
    PROVE  IInv'
<1>1. PICK p \in {"test_w", "ret"} : Goto(p)
  BY DEF TestGpu
<1>2. p \in Place /\ Running("test_gpu") /\ UNCHANGED <<queue, cpu, devices, threads>>
  BY DEF Place, TestGpu
<1>3. PICK top, g :
        /\ Becomes(top, g) /\ Frame(top) = Top
        /\ g \in FrameType /\ Top \in FrameType /\ Top.pc = "test_gpu"
        /\ g.src = Top.src /\ g.pc = p /\ g.ev = Top.ev /\ g.prev = Top.prev
        /\ stack' \in [Tid -> Seq(FrameType)]
  BY <1>1, <1>2, MovedTo
<1>4. irq_event' = irq_event /\ masked' = masked /\ curr' = curr
  BY <1>2 DEF queue, devices, threads
<1>5. OneService'
  BY <1>1, <1>3, <1>4, ServiceKept DEF Service, Looping
<1>6. TimerServed' /\ TimerOnce'
  BY <1>1, <1>3, <1>4, TimerKept DEF Serving, Open, Looping
<1>7. AllSeen'
  BY <1>1, <1>3, <1>4, SeenKept DEF Open, Looping
<1>8. /\ ~ Undivided(g)
      /\ g.pc # "take" /\ ~ Open(g) /\ ~ Open(Frame(top))
      /\ Frame(top).pc \notin InSection /\ g.pc \notin InSection
  BY <1>1, <1>3 DEF Undivided, Open, InSection
<1>9. masked' \subseteq Source
  BY <1>4 DEF IInv, TypeOK
<1> QED
  BY <1>2, <1>3, <1>5, <1>6, <1>7, <1>8, <1>9, QuietInv

LEMMA TestUartInv ==
    ASSUME IInv, NEW test \in {"test_w", "test_r"}, NEW src \in {"uart_w", "uart_r"},
           NEW otherwise \in {"test_r", "ret"}, TestUart(test, src, otherwise)
    PROVE  IInv'
<1>1. PICK top, g :
        /\ Becomes(top, g) /\ Frame(top) = Top /\ Top.pc = test
        /\ \/ g.pc = otherwise
           \/ g.pc = "mask" /\ g.src = src
        /\ stack' \in [Tid -> Seq(FrameType)]
  <2>1. CASE Goto(otherwise)
    <3>1. otherwise \in Place /\ Running(test)
      BY DEF Place, TestUart
    <3> QED
      BY <2>1, <3>1, MovedTo
  <2>2. CASE stack' = [stack EXCEPT ![curr] = Append(Front(@), [Top EXCEPT !.src = src, !.pc = "mask"])]
    <3>1. PICK top : top = TopCall
      OBVIOUS
    <3>2. TypeOK /\ stack[curr] # <<>> /\ Top.pc = test
      BY DEF IInv, TestUart, Running
    <3>3. /\ top \in Calls /\ Frame(top) = Top /\ Top \in FrameType
          /\ top[1] = curr /\ top[2] = Len(stack[curr])
      BY <3>1, <3>2, TopView
    <3>4. PICK g : g = [Top EXCEPT !.src = src, !.pc = "mask"]
      OBVIOUS
    <3>5. g \in FrameType /\ g.pc = "mask" /\ g.src = src
      BY <3>3, <3>4 DEF FrameType, Source, Place
    <3>6. /\ stack' \in [Tid -> Seq(FrameType)]
          /\ Calls' = Calls
          /\ \A c \in Calls : c # top => Frame(c)' = Frame(c)
          /\ Frame(top)' = g
          /\ \A t \in Tid : Len(stack'[t]) = Len(stack[t]) /\ (stack'[t] = <<>> <=> stack[t] = <<>>)
      BY <2>2, <3>1, <3>2, <3>4, <3>5, Replaced
    <3>7. Becomes(top, g)
      BY <3>1, <3>2, <3>3, <3>6 DEF Becomes
    <3> QED
      BY <3>2, <3>3, <3>5, <3>6, <3>7
  <2> QED
    BY <2>1, <2>2 DEF TestUart
<1>2. UNCHANGED <<queue, cpu, devices, threads>>
  BY DEF TestUart
<1>3. irq_event' = irq_event /\ masked' = masked /\ curr' = curr
  BY <1>2 DEF queue, devices, threads
<1>4. /\ ~ Undivided(g) /\ ~ Service(g) /\ ~ Serving(Frame(top)) /\ Frame(top).pc \notin Looping
      /\ g.pc # "take" /\ g.pc # "sched" /\ ~ Open(g) /\ ~ Open(Frame(top))
      /\ Frame(top).pc \notin InSection /\ g.pc \notin InSection
  BY <1>1 DEF Undivided, Open, InSection, Service, Serving, Looping
<1>5. OneService'
  BY <1>1, <1>3, <1>4, ServiceKept
<1>6. TimerServed' /\ TimerOnce'
  BY <1>1, <1>3, <1>4, TimerKept
<1>7. AllSeen'
  BY <1>1, <1>3, <1>4, SeenKept
<1>8. masked' \subseteq Source
  BY <1>3 DEF IInv, TypeOK
<1> QED
  BY <1>1, <1>2, <1>4, <1>5, <1>6, <1>7, <1>8, QuietInv

\* The source is masked before the handler is queued.
LEMMA MaskSourceInv ==
    ASSUME IInv, MaskSource
    PROVE  IInv'
<1>1. /\ Goto("add_lock") /\ "add_lock" \in Place /\ Running("mask")
      /\ UNCHANGED <<queue, cpu, threads>> /\ masked' = masked \cup {Top.src}
  BY DEF Place, MaskSource
<1>2. PICK top, g :
        /\ Becomes(top, g) /\ Frame(top) = Top
        /\ g \in FrameType /\ Top \in FrameType /\ Top.pc = "mask"
        /\ g.src = Top.src /\ g.pc = "add_lock" /\ g.ev = Top.ev /\ g.prev = Top.prev
        /\ stack' \in [Tid -> Seq(FrameType)]
  BY <1>1, MovedTo
<1>3. irq_event' = irq_event /\ curr' = curr
  BY <1>1 DEF queue, threads
<1>4. OneService'
  BY <1>1, <1>2, <1>3, ServiceKept DEF Service, Looping
<1>5. TimerServed' /\ TimerOnce'
  BY <1>2, <1>3, TimerKept DEF Serving, Open, Looping
<1>6. AllSeen'
  BY <1>2, <1>3, SeenKept DEF Open, Looping
<1>7. /\ Undivided(g) => Undivided(Frame(top))
      /\ g.pc # "take" /\ ~ Open(g) /\ ~ Open(Frame(top))
      /\ Frame(top).pc \notin InSection /\ g.pc \notin InSection
  BY <1>2 DEF Undivided, Open, InSection
<1>8. masked' \subseteq Source
  BY <1>1, <1>2, FrameFields DEF IInv, TypeOK
<1> QED
  BY <1>1, <1>2, <1>4, <1>5, <1>6, <1>7, <1>8, QuietInv

\* The timer is enabled again: its service is over.
LEMMA UnmaskTimerInv ==
    ASSUME IInv, UnmaskTimer
    PROVE  IInv'
<1>1. /\ Goto("sched") /\ "sched" \in Place /\ Running("unmask")
      /\ UNCHANGED <<queue, cpu, threads>> /\ masked' = masked \ {"timer"}
  BY DEF Place, UnmaskTimer
<1>2. PICK top, g :
        /\ Becomes(top, g) /\ Frame(top) = Top
        /\ g \in FrameType /\ Top \in FrameType /\ Top.pc = "unmask"
        /\ g.src = Top.src /\ g.pc = "sched" /\ g.ev = Top.ev /\ g.prev = Top.prev
        /\ stack' \in [Tid -> Seq(FrameType)]
  BY <1>1, MovedTo
<1>3. irq_event' = irq_event /\ curr' = curr
  BY <1>1 DEF queue, threads
<1>4. OneService'
  <2>1. Service(Frame(top)) /\ top \in Calls
    BY <1>2 DEF Service, Becomes
  <2>2. \A c \in Calls : c # top => ~ Service(Frame(c))
    BY <2>1 DEF IInv, OneService
  <2>3. \A c \in Calls : ~ Service(Frame(c))'
    BY <1>2, <2>2 DEF Becomes, Service, Looping
  <2> QED
    BY <1>2, <2>3 DEF OneService, Becomes
<1>5. TimerServed' /\ TimerOnce'
  BY <1>2, <1>3, TimerKept DEF Serving, Open, Looping
<1>6. AllSeen'
  BY <1>2, <1>3, SeenKept DEF Open, Looping
<1>7. /\ ~ Undivided(g)
      /\ g.pc # "take" /\ ~ Open(g) /\ ~ Open(Frame(top))
      /\ Frame(top).pc \notin InSection /\ g.pc \notin InSection
  BY <1>2 DEF Undivided, Open, InSection
<1>8. masked' \subseteq Source
  BY <1>1 DEF IInv, TypeOK
<1> QED
  BY <1>1, <1>2, <1>4, <1>5, <1>6, <1>7, <1>8, QuietInv

\* The thread gives the CPU away: no timer interrupt is being served.
LEMMA PreemptInv ==
    ASSUME IInv, Preempt
    PROVE  IInv'
<1>1. /\ Goto("test_gpu") /\ "test_gpu" \in Place /\ Running("sched")
      /\ UNCHANGED <<queue, lock_counter, devices, thread>>
      /\ curr' \in Tid /\ thread[curr'] # "dead" /\ irq_off' = (lock_counter # 0)
  BY DEF Place, Preempt, schedule
<1>2. PICK top, g :
        /\ Becomes(top, g) /\ Frame(top) = Top
        /\ g \in FrameType /\ Top \in FrameType /\ Top.pc = "sched"
        /\ g.src = Top.src /\ g.pc = "test_gpu" /\ g.ev = Top.ev /\ g.prev = Top.prev
        /\ stack' \in [Tid -> Seq(FrameType)]
  BY <1>1, MovedTo
<1>3. /\ irq_event' = irq_event /\ curr_priority' = curr_priority /\ masked' = masked
      /\ lock_counter' = lock_counter /\ thread' = thread
  BY <1>1 DEF queue, devices
<1>4. OneService'
  <2>1. \A c \in Calls : ~ Service(Frame(c))
    <3> SUFFICES ASSUME NEW c \in Calls, Service(Frame(c)) PROVE FALSE
      OBVIOUS
    <3>1. c[1] = curr /\ \A d \in Calls : Below(c, d) => Frame(d).pc # "sched"
      BY DEF IInv, OneService
    <3>2. c # top
      BY <1>2 DEF Service, Looping
    <3>3. Below(c, top)
      BY <1>2, <3>1, <3>2, TopView DEF Becomes, IInv
    <3> QED
      BY <1>2, <3>1, <3>3 DEF Becomes
  <2>2. \A c \in Calls : ~ Service(Frame(c))'
    BY <1>2, <2>1 DEF Becomes, Service, Looping
  <2> QED
    BY <1>2, <2>2 DEF OneService, Becomes
<1>5. TimerServed' /\ TimerOnce'
  BY <1>2, <1>3, TimerKept DEF Serving, Open, Looping
<1>6. AllSeen'
  BY <1>2, <1>3, SeenKept DEF Open, Looping
<1>7. /\ ~ Undivided(g)
      /\ g.pc # "take" /\ ~ Open(g) /\ ~ Open(Frame(top))
      /\ Frame(top).pc \notin InSection /\ g.pc \notin InSection
  BY <1>2 DEF Undivided, Open, InSection
<1>8. PriorityKnown' /\ Nested' /\ PrevKnown'
  BY <1>2, <1>3, <1>7, PriorityKept
<1>9. LocksCounted' /\ TakeKnows' /\ DeadInUser' /\ Parked' /\ UndividedOnTop'
  BY <1>1, <1>2, <1>3, <1>7, LocksKept, TakeLeft, DeadKept, ParkedKept, UndividedKept
<1>10. LockedAlone'
  BY <1>1, <1>2, <1>3, AloneKept
<1>11. TypeOK' /\ InOrder(irq_event')
  BY <1>1, <1>2, <1>3 DEF IInv, TypeOK
<1> QED
  BY <1>4, <1>5, <1>6, <1>8, <1>9, <1>10, <1>11 DEF IInv

-----------------------------------------------------------------------------
(* The steps of add_irq_event and run_irq_event.                           *)

\* Above the call that serves the timer nothing runs the timer's event.
LEMMA NoTimerRuns ==
    ASSUME IInv, NEW top, top = TopCall, stack[curr] # <<>>,
           Service(Frame(top)), ~ Open(Frame(top))
    PROVE  \A d \in Calls : ~ Runs(d, "timer")
<1> SUFFICES ASSUME NEW d \in Calls, Runs(d, "timer") PROVE FALSE
  OBVIOUS
<1>1. PICK c \in Calls : Serving(Frame(c)) /\ c[1] = d[1] /\ c[2] <= d[2]
  BY DEF IInv, TimerServed
<1>2. top \in Calls
  BY TopView DEF IInv
<1>3. Service(Frame(c))
  BY <1>1 DEF Service, Serving
<1>4. c = top
  BY <1>2, <1>3 DEF IInv, OneService
<1>5. d = top \/ Below(top, d)
  BY <1>1, <1>2, <1>4, CallView DEF Below, IInv
<1> QED
  BY <1>5, NoneAbove DEF Runs, InFunc, Open

\* The test that ends run_irq_event: what the place after it is.
LEMMA AfterPlaces ==
    ASSUME NEW src \in Source
    PROVE  \/ src = "timer" /\ After(src) = "unmask"
           \/ src = "uart_w" /\ After(src) = "test_r"
           \/ src = "uart_r" /\ After(src) = "ret"
BY DEF Source, After

\* The executing call leaves run_irq_event and nothing that is queued or running
\* depends on it.
LEMMA LeaveInv ==
    ASSUME IInv, NEW top, NEW g, Becomes(top, g), UNCHANGED <<queue, devices, threads>>,
           stack' \in [Tid -> Seq(FrameType)], irq_off' \in BOOLEAN,
           Frame(top).src \in Source, Frame(top).pc \in {"while", "peek"},
           Frame(top).pc = "while" => lock_counter' = lock_counter,
           Frame(top).pc = "peek" => lock_counter' = lock_counter - 1,
           g.pc = After(Frame(top).src), g.src = Frame(top).src,
           Frame(top).src = "timer" => ~ TimerQueued,
           AllSeen'
    PROVE  IInv'
<1>1. /\ irq_event' = irq_event /\ curr_priority' = curr_priority /\ masked' = masked
      /\ curr' = curr /\ thread' = thread
  BY DEF queue, devices, threads
<1>2. \/ Frame(top).src = "timer" /\ g.pc = "unmask"
      \/ Frame(top).src # "timer" /\ g.pc \in {"test_r", "ret"}
  BY AfterPlaces
<1>3. /\ ~ Undivided(g) /\ ~ Open(g) /\ ~ Open(Frame(top)) /\ g.pc \notin InSection
      /\ g.pc # "take" /\ g.pc # "sched"
      /\ Service(g) => Service(Frame(top)) /\ Frame(top).pc # "mask"
      /\ Serving(Frame(top)) => Frame(top).src = "timer" /\ Service(Frame(top))
  BY <1>2 DEF Undivided, Open, InSection, Service, Serving, Looping
<1>4. OneService'
  <2>1. Service(g) => "timer" \in masked
    BY <1>3 DEF IInv, OneService, Becomes
  <2> QED
    BY <1>1, <1>3, <2>1, ServiceKept
<1>5. TimerServed' /\ TimerOnce'
  <2>1. CASE Serving(Frame(top))
    <3>1. \A d \in Calls : ~ Runs(d, "timer")
      BY <1>3, <2>1, NoTimerRuns DEF Becomes
    <3>2. \A d \in Calls : ~ Runs(d, "timer")'
      BY <1>3, <3>1 DEF Becomes, Runs, InFunc, Open
    <3>3. ~ TimerQueued'
      BY <1>1, <1>3, <2>1 DEF TimerQueued
    <3> QED
      BY <1>1, <3>2, <3>3, TimerGone DEF Becomes, IInv, TimerOnce
  <2>2. CASE ~ Serving(Frame(top))
    BY <1>1, <1>3, <2>2, TimerKept
  <2> QED
    BY <2>1, <2>2
<1>6. PriorityKnown' /\ Nested' /\ PrevKnown'
  BY <1>1, <1>3, PriorityKept
<1>7. LocksCounted' /\ lock_counter' \in Nat
  <2>1. CASE Frame(top).pc = "while"
    <3>1. Frame(top).pc \notin InSection
      BY <2>1 DEF InSection
    <3>2. LocksCounted'
      BY <1>1, <1>3, <2>1, <3>1, LocksKept
    <3> QED
      BY <2>1, <3>2 DEF IInv, TypeOK
  <2>2. CASE Frame(top).pc = "peek"
    <3>1. Frame(top).pc \in InSection
      BY <2>2 DEF InSection
    <3> QED
      BY <1>1, <1>3, <2>2, <3>1, LocksLeft
  <2> QED
    BY <2>1, <2>2
<1>8. /\ irq_event' \in Seq(Source) /\ curr_priority' \in Priority /\ masked' \subseteq Source
      /\ InOrder(irq_event')
  BY <1>1 DEF IInv, TypeOK
<1> QED
  BY <1>3, <1>4, <1>5, <1>6, <1>7, <1>8, StepInv DEF threads

LEMMA TestEmptyInv ==
    ASSUME IInv, TestEmpty
    PROVE  IInv'
<1>1. Running("while") /\ UNCHANGED <<queue, cpu, devices, threads>>
  BY DEF TestEmpty
<1>2. Top \in FrameType /\ Top.src \in Source
  BY <1>1, TopView, FrameFields DEF Running, IInv
<1>3. CASE irq_event = <<>>
  <2>1. PICK p : p = After(Top.src)
    OBVIOUS
  <2>2. Goto(p) /\ p \in Place
    BY <1>2, <1>3, <2>1, AfterPlaces DEF TestEmpty, Place
  <2>3. PICK top, g :
          /\ Becomes(top, g) /\ Frame(top) = Top
          /\ g \in FrameType /\ Top.pc = "while"
          /\ g.src = Top.src /\ g.pc = p
          /\ stack' \in [Tid -> Seq(FrameType)]
    BY <1>1, <2>2, MovedTo
  <2>4. /\ irq_event' = <<>> /\ lock_counter' = lock_counter /\ irq_off' \in BOOLEAN
    BY <1>1, <1>3 DEF queue, cpu, IInv, TypeOK
  <2>5. AllSeen' /\ ~ TimerQueued
    BY <1>3, <2>4 DEF AllSeen, TimerQueued
  <2>6. UNCHANGED <<queue, devices, threads>> /\ Frame(top).pc # "peek"
    BY <1>1, <2>3
  <2> QED
    BY <1>2, <2>1, <2>3, <2>4, <2>5, <2>6, LeaveInv
<1>4. CASE irq_event # <<>>
  <2>1. Goto("run_lock") /\ "run_lock" \in Place
    BY <1>4 DEF TestEmpty, Place, Looping
  <2>2. PICK top, g :
          /\ Becomes(top, g) /\ Frame(top) = Top
          /\ g \in FrameType /\ Top.pc = "while"
          /\ g.src = Top.src /\ g.pc = "run_lock"
          /\ stack' \in [Tid -> Seq(FrameType)]
    BY <1>1, <2>1, MovedTo
  <2>3. irq_event' = irq_event /\ curr' = curr /\ masked' = masked
    BY <1>1 DEF queue, threads, devices
  <2>4. OneService'
    <3>1. Service(g) => Service(Frame(top)) /\ Frame(top).pc # "mask"
      BY <2>2 DEF Service, Looping
    <3>2. Service(g) => "timer" \in masked
      BY <2>2, <3>1 DEF IInv, OneService, Becomes
    <3>3. g.pc # "sched"
      BY <2>2
    <3> QED
      BY <2>2, <2>3, <3>1, <3>2, <3>3, ServiceKept
  <2>5. TimerServed' /\ TimerOnce'
    BY <2>2, <2>3, TimerKept DEF Serving, Open, Looping
  <2>6. AllSeen'
    BY <2>2, <2>3, SeenKept DEF Open, Looping
  <2>7. /\ ~ Undivided(g)
        /\ g.pc # "take" /\ ~ Open(g) /\ ~ Open(Frame(top))
        /\ Frame(top).pc \notin InSection /\ g.pc \notin InSection
    BY <2>2 DEF Undivided, Open, InSection
  <2>8. masked' \subseteq Source
    BY <2>3 DEF IInv, TypeOK
  <2> QED
    BY <1>1, <2>2, <2>4, <2>5, <2>6, <2>7, <2>8, QuietInv
<1> QED
  BY <1>3, <1>4

\* The counter of lock() in add_irq_event and in run_irq_event.
LEMMA LockIncInv ==
    ASSUME IInv, NEW from, NEW to, LockInc(from, to),
           (from = "add_lock" /\ to = "add") \/ (from = "run_lock" /\ to = "peek")
    PROVE  IInv'
<1>1. /\ Goto(to) /\ to \in Place /\ Running(from)
      /\ UNCHANGED <<queue, irq_off, devices, threads>> /\ lock_counter' = lock_counter + 1
  BY DEF Place, InSection, LockInc
<1>2. PICK top, g :
        /\ Becomes(top, g) /\ Frame(top) = Top
        /\ g \in FrameType /\ Top.pc = from
        /\ g.src = Top.src /\ g.pc = to
        /\ stack' \in [Tid -> Seq(FrameType)]
  BY <1>1, MovedTo
<1>3. /\ irq_event' = irq_event /\ curr_priority' = curr_priority /\ masked' = masked
      /\ curr' = curr /\ thread' = thread /\ irq_off' = irq_off
  BY <1>1 DEF queue, threads, devices
<1>4. /\ Undivided(g) => Undivided(Frame(top))
      /\ g.pc # "take" /\ g.pc # "sched" /\ ~ Open(g) /\ ~ Open(Frame(top))
      /\ Frame(top).pc \notin InSection /\ g.pc \in InSection
      /\ Service(g) => Service(Frame(top)) /\ Frame(top).pc # "mask"
      /\ Serving(Frame(top)) => Serving(g)
      /\ Frame(top).pc \in Looping => g.pc \in Looping
  BY <1>2 DEF Undivided, Open, InSection, Service, Serving, Looping
<1>5. OneService'
  <2>1. Service(g) => "timer" \in masked
    BY <1>2, <1>4 DEF IInv, OneService, Becomes
  <2> QED
    BY <1>2, <1>3, <1>4, <2>1, ServiceKept
<1>6. TimerServed' /\ TimerOnce'
  BY <1>2, <1>3, <1>4, TimerKept
<1>7. AllSeen'
  BY <1>2, <1>3, <1>4, SeenKept
<1>8. PriorityKnown' /\ Nested' /\ PrevKnown'
  BY <1>2, <1>3, <1>4, PriorityKept
<1>9. LocksCounted'
  BY <1>1, <1>2, <1>3, <1>4, LocksEntered
<1>10. Undivided(g) => irq_off'
  BY <1>2, <1>3, <1>4 DEF Becomes, IInv, UndividedOnTop
<1>11. /\ irq_event' \in Seq(Source) /\ curr_priority' \in Priority /\ masked' \subseteq Source
       /\ InOrder(irq_event') /\ lock_counter' \in Nat /\ irq_off' \in BOOLEAN
  BY <1>1, <1>3 DEF IInv, TypeOK
<1> QED
  BY <1>1, <1>2, <1>4, <1>5, <1>6, <1>7, <1>8, <1>9, <1>10, <1>11, StepInv

\* nxt_event->func() and what it does to the device.
LEMMA FuncInv ==
    ASSUME IInv, Func
    PROVE  IInv'
<1>1. /\ Goto("restore") /\ "restore" \in Place /\ Running("func")
      /\ UNCHANGED <<queue, cpu, threads>>
  BY DEF Place, Looping, Func
<1>2. PICK top, g :
        /\ Becomes(top, g) /\ Frame(top) = Top
        /\ g \in FrameType /\ Top \in FrameType /\ Top.pc = "func"
        /\ g.src = Top.src /\ g.pc = "restore" /\ g.ev = Top.ev /\ g.prev = Top.prev
        /\ stack' \in [Tid -> Seq(FrameType)]
  BY <1>1, MovedTo
<1>3. irq_event' = irq_event /\ curr' = curr
  BY <1>1 DEF queue, threads
<1>4. masked' \subseteq Source /\ ("timer" \in masked => "timer" \in masked')
  <2>1. Top.ev \in Source /\ masked \subseteq Source
    BY <1>2, FrameFields DEF IInv, TypeOK
  <2> QED
    BY <2>1 DEF Func
<1>5. /\ ~ Undivided(g)
      /\ g.pc # "take" /\ g.pc # "sched" /\ Open(g) /\ Open(Frame(top))
      /\ Frame(top).pc \notin InSection /\ g.pc \notin InSection
      /\ Service(g) => Service(Frame(top)) /\ Frame(top).pc # "mask"
      /\ Serving(Frame(top)) => Serving(g)
      /\ g.pc \in Looping
  BY <1>2 DEF Undivided, Open, InSection, Service, Serving, Looping
<1>6. OneService'
  <2>1. Service(g) => "timer" \in masked
    BY <1>2, <1>5 DEF IInv, OneService, Becomes
  <2> QED
    BY <1>2, <1>3, <1>4, <1>5, <2>1, ServiceKept
<1>7. TimerServed' /\ TimerOnce'
  BY <1>2, <1>3, <1>5, TimerKept
<1>8. AllSeen'
  BY <1>2, <1>3, <1>5, SeenKept
<1> QED
  BY <1>1, <1>2, <1>4, <1>5, <1>6, <1>7, <1>8, QuietInv

\* The queue after add_irq_event.
LEMMA InsertEvent ==
    ASSUME NEW l \in Seq(Source), NEW src \in Source, NEW i \in 1 .. (Len(l) + 1)
    PROVE  /\ InsertAt(l, i, src) \in Seq(Source)
           /\ Len(InsertAt(l, i, src)) = Len(l) + 1
           /\ \A j \in 1 .. (Len(l) + 1) :
                InsertAt(l, i, src)[j] = IF j < i THEN l[j] ELSE IF j = i THEN src ELSE l[j - 1]
<1>1. /\ InsertAt(l, i, src) \in Seq(Source) /\ Len(InsertAt(l, i, src)) = Len(l) + 1
      /\ \A j \in 1 .. (Len(l) + 1) : InsertAt(l, i, src)[j] = EntryAfter(l, i, src, j)
  BY InsertEntry, Zenon
<1> QED
  BY <1>1, Zenon DEF EntryAfter

LEMMA InsertInOrder ==
    ASSUME NEW l \in Seq(Source), InOrder(l), NEW src \in Source, NEW i \in 1 .. (Len(l) + 1),
           \A j \in 1 .. (i - 1) : priority[l[j]] <= priority[src],
           i <= Len(l) => priority[l[i]] > priority[src]
    PROVE  /\ InsertAt(l, i, src) \in Seq(Source) /\ InOrder(InsertAt(l, i, src))
           /\ Len(InsertAt(l, i, src)) = Len(l) + 1
           /\ \A j \in 1 .. (Len(l) + 1) :
                InsertAt(l, i, src)[j] = IF j < i THEN l[j] ELSE IF j = i THEN src ELSE l[j - 1]
<1>0. /\ InsertAt(l, i, src) \in Seq(Source)
      /\ Len(InsertAt(l, i, src)) = Len(l) + 1
      /\ \A j \in 1 .. (Len(l) + 1) :
            InsertAt(l, i, src)[j] = IF j < i THEN l[j] ELSE IF j = i THEN src ELSE l[j - 1]
  BY InsertEvent, SMTT(30)
<1> DEFINE n == Len(l)
           q == InsertAt(l, i, src)
<1>1. n \in Nat /\ i \in 1 .. (n + 1)
  OBVIOUS
<1>2. /\ q \in Seq(Source) /\ Len(q) = n + 1
      /\ \A j \in 1 .. (n + 1) :
            q[j] = IF j < i THEN l[j] ELSE IF j = i THEN src ELSE l[j - 1]
  BY <1>0
<1> HIDE DEF q
<1>3. /\ \A j \in 1 .. n : priority[l[j]] \in {0, 1}
      /\ priority[src] \in {0, 1}
  BY <1>1, PriorityOf
<1>4. \A j, k \in 1 .. n : j <= k => priority[l[j]] <= priority[l[k]]
  BY DEF InOrder
<1>5. \A j \in 1 .. n : j < i => priority[l[j]] <= priority[src]
  BY <1>1
<1>6. \A j \in 1 .. n : i <= j => priority[src] <= priority[l[j]]
  <2> SUFFICES ASSUME NEW j \in 1 .. n, i <= j PROVE priority[src] <= priority[l[j]]
    OBVIOUS
  <2>1. i \in 1 .. n /\ priority[l[i]] > priority[src]
    BY <1>1
  <2> QED
    BY <1>3, <1>4, <2>1
<1> HIDE DEF n
<1>7. ASSUME NEW j \in 1 .. (n + 1), NEW k \in 1 .. (n + 1), j <= k
      PROVE  priority[q[j]] <= priority[q[k]]
  <2>1. CASE k < i
    <3>1. j \in 1 .. n /\ k \in 1 .. n /\ q[j] = l[j] /\ q[k] = l[k]
      BY <1>1, <1>2, <1>7, <2>1
    <3> QED
      BY <1>4, <1>7, <3>1
  <2>2. CASE k = i
    <3>1. q[k] = src
      BY <1>1, <1>2, <2>2
    <3>2. CASE j = i
      BY <1>3, <2>2, <3>1, <3>2
    <3>3. CASE j < i
      <4>1. j \in 1 .. n /\ q[j] = l[j]
        BY <1>1, <1>2, <3>3
      <4> QED
        BY <1>5, <3>1, <3>3, <4>1
    <3> QED
      BY <1>1, <1>7, <2>2, <3>2, <3>3
  <2>3. CASE k > i
    <3>1. k - 1 \in 1 .. n /\ q[k] = l[k - 1] /\ i <= k - 1
      BY <1>1, <1>2, <2>3
    <3>2. CASE j < i
      <4>1. j \in 1 .. n /\ q[j] = l[j] /\ j <= k - 1
        BY <1>1, <1>2, <2>3, <3>2
      <4> QED
        BY <1>4, <3>1, <4>1
    <3>3. CASE j = i
      <4>1. q[j] = src
        BY <1>1, <1>2, <3>3
      <4> QED
        BY <1>6, <3>1, <4>1
    <3>4. CASE j > i
      <4>1. j - 1 \in 1 .. n /\ q[j] = l[j - 1] /\ j - 1 <= k - 1
        BY <1>1, <1>2, <1>7, <3>4
      <4> QED
        BY <1>4, <3>1, <4>1
    <3> QED
      BY <1>1, <3>2, <3>3, <3>4
  <2> QED
    BY <1>1, <2>1, <2>2, <2>3
<1>8. InOrder(q)
  BY <1>2, <1>7 DEF InOrder
<1> QED
  BY <1>2, <1>8 DEF n, q

LEMMA AddEventInv ==
    ASSUME IInv, add_irq_event
    PROVE  IInv'
<1>1. /\ Goto("while") /\ "while" \in Place /\ Running("add")
      /\ lock_counter' = lock_counter - 1 /\ irq_off' = (lock_counter # 1)
      /\ UNCHANGED <<curr_priority, devices, threads>>
  BY DEF Place, Looping, add_irq_event, unlock
<1>2. PICK top, g :
        /\ Becomes(top, g) /\ Frame(top) = Top
        /\ g \in FrameType /\ Top \in FrameType /\ Top.pc = "add"
        /\ g.src = Top.src /\ g.pc = "while"
        /\ stack' \in [Tid -> Seq(FrameType)]
  BY <1>1, MovedTo
<1>3. PICK src \in Source : src = Top.src
  BY <1>2, FrameFields
<1>4. PICK i \in 1 .. (Len(irq_event) + 1) :
        Position(i, src) /\ irq_event' = InsertAt(irq_event, i, src)
  BY <1>3 DEF add_irq_event
<1>5. /\ irq_event' \in Seq(Source) /\ InOrder(irq_event')
      /\ Len(irq_event') = Len(irq_event) + 1
      /\ \A j \in 1 .. (Len(irq_event) + 1) :
            irq_event'[j] = IF j < i THEN irq_event[j] ELSE IF j = i THEN src
                            ELSE irq_event[j - 1]
  <2> DEFINE l == irq_event
             q == InsertAt(l, i, src)
  <2>1. l \in Seq(Source) /\ InOrder(l)
    BY DEF IInv, TypeOK
  <2>2. /\ \A j \in 1 .. (i - 1) : priority[l[j]] <= priority[src]
        /\ i <= Len(l) => priority[l[i]] > priority[src]
    BY <1>4 DEF Position
  <2>3. irq_event' = q
    BY <1>4
  <2>4. i \in 1 .. (Len(l) + 1)
    OBVIOUS
  <2> HIDE DEF l
  <2>5. /\ q \in Seq(Source) /\ InOrder(q) /\ Len(q) = Len(l) + 1
        /\ \A j \in 1 .. (Len(l) + 1) :
              q[j] = IF j < i THEN l[j] ELSE IF j = i THEN src ELSE l[j - 1]
    BY <2>1, <2>2, <2>4, InsertInOrder
  <2> HIDE DEF q
  <2> QED
    BY <2>3, <2>5 DEF l
<1>6. masked' = masked /\ curr' = curr /\ thread' = thread
  BY <1>1 DEF threads, devices
<1>7. /\ ~ Undivided(g)
      /\ g.pc # "take" /\ g.pc # "sched" /\ ~ Open(g) /\ ~ Open(Frame(top))
      /\ Frame(top).pc \in InSection /\ g.pc \notin InSection
      /\ Service(g) => Service(Frame(top)) /\ Frame(top).pc # "mask"
      /\ src = "timer" => Service(Frame(top))
      /\ Serving(g) <=> src = "timer"
      /\ ~ Serving(Frame(top))
  BY <1>2, <1>3 DEF Undivided, Open, InSection, Service, Serving, Looping
<1>8. OneService'
  <2>1. Service(g) => "timer" \in masked
    BY <1>2, <1>7 DEF IInv, OneService, Becomes
  <2> QED
    BY <1>2, <1>6, <1>7, <2>1, ServiceKept
<1>9. \A c \in Calls : Runs(c, "timer")' <=> Runs(c, "timer")
  BY <1>2, <1>7 DEF Becomes, Runs, InFunc, Open
<1>10. \A c \in Calls : Serving(Frame(c)) => Serving(Frame(c))'
  BY <1>2, <1>7 DEF Becomes, Serving
<1>11. TimerServed' /\ TimerOnce'
  <2>0. Len(irq_event) \in Nat
    BY DEF IInv, TypeOK
  <2>1. CASE src = "timer"
    <3>1. \A c \in Calls : ~ Runs(c, "timer")
      BY <1>2, <1>7, <2>1, NoTimerRuns DEF Becomes
    <3>2. ~ TimerQueued
      <4> SUFFICES ASSUME TimerQueued PROVE FALSE
        OBVIOUS
      <4>1. PICK c \in Calls : Serving(Frame(c))
        BY DEF IInv, TimerServed
      <4>2. Service(Frame(c))
        BY <4>1 DEF Service, Serving
      <4>3. c = top
        BY <1>2, <1>7, <2>1, <4>2 DEF IInv, OneService, Becomes
      <4> QED
        BY <1>7, <4>1, <4>3
    <3>3. \A j \in 1 .. Len(irq_event') : irq_event'[j] = "timer" => j = i
      <4> SUFFICES ASSUME NEW j \in 1 .. (Len(irq_event) + 1), irq_event'[j] = "timer", j # i
                   PROVE  FALSE
        BY <1>5
      <4>1. CASE j < i
        <5>1. j \in 1 .. Len(irq_event) /\ irq_event[j] = "timer"
          BY <1>5, <2>0, <4>1
        <5> QED
          BY <3>2, <5>1 DEF TimerQueued
      <4>2. CASE j > i
        <5>1. j - 1 \in 1 .. Len(irq_event) /\ irq_event[j - 1] = "timer"
          BY <1>5, <2>0, <4>2
        <5> QED
          BY <3>2, <5>1 DEF TimerQueued
      <4> QED
        BY <2>0, <4>1, <4>2
    <3>4. Serving(Frame(top))' /\ top \in Calls' /\ Calls' = Calls
      BY <1>2, <1>7, <2>1 DEF Becomes, Serving
    <3> QED
      BY <1>9, <3>1, <3>3, <3>4 DEF TimerServed, TimerOnce
  <2>2. CASE src # "timer"
    <3>1. \A j \in 1 .. Len(irq_event') : irq_event'[j] = "timer" =>
              /\ j # i
              /\ (IF j < i THEN j ELSE j - 1) \in 1 .. Len(irq_event)
              /\ irq_event[IF j < i THEN j ELSE j - 1] = "timer"
      BY <1>5, <2>0, <2>2
    <3>2. TimerQueued' => TimerQueued
      BY <3>1 DEF TimerQueued
    <3>3. ASSUME NEW j \in 1 .. Len(irq_event'), NEW k \in 1 .. Len(irq_event'),
                 irq_event'[j] = "timer", irq_event'[k] = "timer"
          PROVE  j = k
      <4>1. (IF j < i THEN j ELSE j - 1) = (IF k < i THEN k ELSE k - 1)
        BY <3>1, <3>3 DEF IInv, TimerOnce
      <4> QED
        BY <1>5, <2>0, <3>1, <3>3, <4>1
    <3>4. TimerOnce'
      BY <1>2, <1>9, <3>2, <3>3 DEF IInv, TimerOnce, Becomes
    <3>5. TimerServed'
      BY <1>2, <1>9, <1>10, <3>2 DEF IInv, TimerServed, Becomes
    <3> QED
      BY <3>4, <3>5
  <2> QED
    BY <2>1, <2>2
<1>12. AllSeen'
  <2>1. top \in Calls' /\ Frame(top)'.pc \in Looping \ {"func", "restore"}
    BY <1>2 DEF Becomes, Looping
  <2> QED
    BY <2>1 DEF AllSeen, WillSee
<1>13. PriorityKnown' /\ Nested' /\ PrevKnown'
  BY <1>1, <1>2, <1>7, PriorityKept
<1>14. LocksCounted' /\ lock_counter' \in Nat
  BY <1>1, <1>2, <1>6, <1>7, LocksLeft
<1>15. /\ curr_priority' \in Priority /\ masked' \subseteq Source /\ irq_off' \in BOOLEAN
  BY <1>1, <1>6 DEF IInv, TypeOK
<1> QED
  BY <1>1, <1>2, <1>5, <1>7, <1>8, <1>11, <1>12, <1>13, <1>14, <1>15, StepInv

\* The head of the queue is the most urgent event.
LEMMA HeadMostUrgent ==
    ASSUME IInv, irq_event # <<>>
    PROVE  /\ Len(irq_event) \in Nat /\ 1 \in 1 .. Len(irq_event)
           /\ Head(irq_event) = irq_event[1] /\ irq_event[1] \in Source
           /\ \A k \in 1 .. Len(irq_event) :
                irq_event[k] \in Source /\ priority[irq_event[1]] <= priority[irq_event[k]]
           /\ TimerQueued => irq_event[1] = "timer"
<1>1. irq_event \in Seq(Source) /\ InOrder(irq_event)
  BY DEF IInv, TypeOK
<1>2. /\ Len(irq_event) \in Nat /\ 1 \in 1 .. Len(irq_event)
      /\ Head(irq_event) = irq_event[1]
      /\ \A k \in 1 .. Len(irq_event) : irq_event[k] \in Source
  BY <1>1
<1>3. \A k \in 1 .. Len(irq_event) : priority[irq_event[1]] <= priority[irq_event[k]]
  BY <1>1, <1>2 DEF InOrder
<1>4. TimerQueued => irq_event[1] = "timer"
  BY <1>2, <1>3, PriorityOf DEF TimerQueued
<1> QED
  BY <1>2, <1>3, <1>4

\* run_irq_event leaves an event to the handler it interrupts.
LEMMA PeekLeaveInv ==
    ASSUME IInv, Running("peek"), irq_event # <<>>,
           curr_priority <= priority[Head(irq_event)],
           unlock, Goto(After(Top.src)), UNCHANGED <<queue, devices, threads>>
    PROVE  IInv'
<1>1. Top \in FrameType /\ Top.src \in Source
  BY TopView, FrameFields DEF Running, IInv
<1>2. PICK p : p = After(Top.src)
  OBVIOUS
<1>3. Goto(p) /\ p \in Place
  BY <1>1, <1>2, AfterPlaces DEF Place
<1>4. PICK top, g :
        /\ Becomes(top, g) /\ Frame(top) = Top
        /\ g \in FrameType /\ Top.pc = "peek"
        /\ g.src = Top.src /\ g.pc = p
        /\ stack' \in [Tid -> Seq(FrameType)]
  BY <1>3, MovedTo
<1>5. /\ irq_event' = irq_event /\ lock_counter' = lock_counter - 1 /\ irq_off' \in BOOLEAN
  BY DEF queue, unlock
<1>6. curr_priority <= priority[irq_event[1]] /\ priority[irq_event[1]] \in {0, 1}
  BY HeadMostUrgent, PriorityOf
<1>7. AllSeen'
  <2> SUFFICES ASSUME NEW k \in 1 .. Len(irq_event)
               PROVE  \E c \in Calls' : WillSee(c, irq_event[k])'
    BY <1>5 DEF AllSeen
  <2>1. TimerRuns \/ UartRuns
    BY <1>6 DEF IInv, PriorityKnown, IdlePriority
  <2>2. PICK c \in Calls : InFunc(c) /\ priority[Frame(c).ev] = curr_priority
    <3>1. CASE TimerRuns
      <4>1. PICK c \in Calls : Runs(c, "timer")
        BY <3>1 DEF TimerRuns
      <4> QED
        BY <3>1, <4>1, PriorityOf DEF Runs, Source, IInv, PriorityKnown
    <3>2. CASE ~ TimerRuns
      <4>1. PICK c \in Calls : Runs(c, "uart_w") \/ Runs(c, "uart_r")
        BY <2>1, <3>2 DEF UartRuns
      <4>2. curr_priority = 1
        BY <2>1, <3>2 DEF IInv, PriorityKnown
      <4> QED
        BY <4>1, <4>2, PriorityOf DEF Runs, Source
    <3> QED
      BY <3>1, <3>2
  <2>3. c # top
    BY <1>4, <2>2 DEF InFunc
  <2>4. /\ priority[irq_event[1]] <= priority[irq_event[k]]
        /\ priority[irq_event[k]] \in {0, 1} /\ curr_priority \in 0 .. 2
    BY HeadMostUrgent, PriorityOf DEF IInv, TypeOK, Priority, IdlePriority
  <2>5. priority[Frame(c).ev] <= priority[irq_event[k]]
    BY <1>6, <2>2, <2>4
  <2>6. Frame(c)' = Frame(c) /\ c \in Calls'
    BY <1>4, <2>3 DEF Becomes
  <2> QED
    BY <1>5, <2>2, <2>5, <2>6 DEF WillSee, InFunc
<1>8. Top.src = "timer" => ~ TimerQueued
  <2> SUFFICES ASSUME Top.src = "timer", TimerQueued PROVE FALSE
    OBVIOUS
  <2>1. Service(Frame(top)) /\ ~ Open(Frame(top))
    BY <1>4 DEF Service, Open, Looping
  <2>2. ~ TimerRuns
    BY <1>4, <2>1, NoTimerRuns DEF Becomes, TimerRuns
  <2>3. priority[irq_event[1]] = 0
    BY HeadMostUrgent, PriorityOf
  <2> QED
    BY <1>6, <2>2, <2>3 DEF IInv, PriorityKnown, IdlePriority
<1> QED
  BY <1>1, <1>2, <1>4, <1>5, <1>7, <1>8, LeaveInv

\* run_irq_event goes on with the first event.
LEMMA PeekTakeInv ==
    ASSUME IInv, Running("peek"), irq_event # <<>>,
           ~ curr_priority <= priority[Head(irq_event)],
           disable_el1_interrupt, UNCHANGED <<lock_counter, queue, devices, threads>>,
           GotoWith("take", Head(irq_event), Top.prev)
    PROVE  IInv'
<1>1. Top \in FrameType
  BY TopView DEF Running, IInv
<1>2. PICK e \in Source, v \in Priority : e = Head(irq_event) /\ v = Top.prev
  BY <1>1, FrameFields, HeadMostUrgent
<1>3. GotoWith("take", e, v) /\ "take" \in Place
  BY <1>2 DEF Place, Looping
<1>4. PICK top, g :
        /\ Becomes(top, g) /\ Frame(top) = Top
        /\ g \in FrameType /\ Top.pc = "peek"
        /\ g.src = Top.src /\ g.pc = "take" /\ g.ev = e /\ g.prev = v
        /\ stack' \in [Tid -> Seq(FrameType)]
  BY <1>3, Moved
<1>5. /\ irq_event' = irq_event /\ curr_priority' = curr_priority /\ masked' = masked
      /\ curr' = curr /\ thread' = thread /\ lock_counter' = lock_counter /\ irq_off' = TRUE
  BY DEF queue, threads, devices, disable_el1_interrupt
<1>6. /\ g.pc # "sched" /\ ~ Open(g) /\ ~ Open(Frame(top))
      /\ Frame(top).pc \in InSection /\ g.pc \in InSection
      /\ Service(g) => Service(Frame(top)) /\ Frame(top).pc # "mask"
      /\ Serving(Frame(top)) => Serving(g)
      /\ g.pc \in Looping
  BY <1>4 DEF Open, InSection, Service, Serving, Looping
<1>7. OneService'
  <2>1. Service(g) => "timer" \in masked
    BY <1>4, <1>6 DEF IInv, OneService, Becomes
  <2> QED
    BY <1>4, <1>5, <1>6, <2>1, ServiceKept
<1>8. TimerServed' /\ TimerOnce'
  BY <1>4, <1>5, <1>6, TimerKept
<1>9. AllSeen'
  BY <1>4, <1>5, <1>6, SeenKept
<1>10. PriorityKnown' /\ Nested' /\ PrevKnown'
  BY <1>4, <1>5, <1>6, PriorityKept
<1>11. LocksCounted'
  BY <1>4, <1>5, <1>6, LocksKept
<1>12. TakeKnows'
  <2>1. \A c \in Calls : c # top => Frame(c).pc # "take"
    BY <1>4 DEF Becomes, IInv, UndividedOnTop, Undivided
  <2>2. e = irq_event[1] /\ curr_priority > priority[irq_event[1]]
    <3>1. priority[irq_event[1]] \in {0, 1} /\ curr_priority \in 0 .. 2
      BY HeadMostUrgent, PriorityOf DEF IInv, TypeOK, Priority, IdlePriority
    <3> QED
      BY <1>2, <3>1, HeadMostUrgent
  <2> QED
    BY <1>4, <1>5, <2>1, <2>2 DEF TakeKnows, Becomes
<1>13. /\ irq_event' \in Seq(Source) /\ curr_priority' \in Priority /\ masked' \subseteq Source
       /\ InOrder(irq_event') /\ lock_counter' \in Nat /\ irq_off' \in BOOLEAN
  BY <1>5 DEF IInv, TypeOK
<1> QED
  BY <1>4, <1>5, <1>7, <1>8, <1>9, <1>10, <1>11, <1>12, <1>13, StepInv

LEMMA PeekInv ==
    ASSUME IInv, Peek
    PROVE  IInv'
BY PeekLeaveInv, PeekTakeInv DEF Peek

\* The list head is read as an event.
LEMMA PeekHeadInv ==
    ASSUME IInv, PeekHead
    PROVE  IInv'
<1>1. Running("peek") /\ irq_event = <<>> /\ UNCHANGED <<queue, devices, threads>>
  BY DEF PeekHead
<1>2. Top \in FrameType /\ Top.src \in Source
  BY <1>1, TopView, FrameFields DEF Running, IInv
<1>3. irq_event' = <<>>
  BY <1>1 DEF queue
<1>4. AllSeen' /\ ~ TimerQueued /\ ~ TimerQueued'
  BY <1>1, <1>3 DEF AllSeen, TimerQueued
<1>5. CASE unlock /\ Goto(After(Top.src))
  <2>1. PICK p : p = After(Top.src)
    OBVIOUS
  <2>2. Goto(p) /\ p \in Place
    BY <1>2, <1>5, <2>1, AfterPlaces DEF Place
  <2>3. PICK top, g :
          /\ Becomes(top, g) /\ Frame(top) = Top
          /\ g \in FrameType /\ Top.pc = "peek"
          /\ g.src = Top.src /\ g.pc = p
          /\ stack' \in [Tid -> Seq(FrameType)]
    BY <1>1, <2>2, MovedTo
  <2>4. lock_counter' = lock_counter - 1 /\ irq_off' \in BOOLEAN
    BY <1>5 DEF unlock
  <2> QED
    BY <1>1, <1>2, <1>4, <2>1, <2>3, <2>4, LeaveInv
<1>6. CASE disable_el1_interrupt /\ Goto("wild") /\ UNCHANGED lock_counter
  <2>1. "wild" \in Place
    BY DEF Place, InSection
  <2>2. PICK top, g :
          /\ Becomes(top, g) /\ Frame(top) = Top
          /\ g \in FrameType /\ Top.pc = "peek"
          /\ g.src = Top.src /\ g.pc = "wild"
          /\ stack' \in [Tid -> Seq(FrameType)]
    BY <1>1, <1>6, <2>1, MovedTo
  <2>3. /\ curr_priority' = curr_priority /\ masked' = masked /\ irq_event' = irq_event
        /\ curr' = curr /\ thread' = thread /\ lock_counter' = lock_counter /\ irq_off' = TRUE
    BY <1>1, <1>6 DEF queue, threads, devices, disable_el1_interrupt
  <2>4. /\ g.pc # "sched" /\ g.pc # "take" /\ ~ Open(g) /\ ~ Open(Frame(top))
        /\ Frame(top).pc \in InSection /\ g.pc \in InSection
        /\ ~ Service(g) /\ (Serving(Frame(top)) => Service(Frame(top)))
    BY <2>2 DEF Open, InSection, Service, Serving, Looping
  <2>5. OneService'
    BY <2>2, <2>3, <2>4, ServiceKept
  <2>6. TimerServed' /\ TimerOnce'
    <3>1. CASE Serving(Frame(top))
      <4>1. \A d \in Calls : ~ Runs(d, "timer")
        BY <2>2, <2>4, <3>1, NoTimerRuns DEF Becomes
      <4>2. \A d \in Calls : ~ Runs(d, "timer")'
        BY <2>2, <2>4, <4>1 DEF Becomes, Runs, InFunc, Open
      <4> QED
        BY <1>4, <2>2, <2>3, <4>2, TimerGone DEF Becomes, IInv, TimerOnce
    <3>2. CASE ~ Serving(Frame(top))
      BY <2>2, <2>3, <2>4, <3>2, TimerKept
    <3> QED
      BY <3>1, <3>2
  <2>7. PriorityKnown' /\ Nested' /\ PrevKnown'
    BY <2>2, <2>3, <2>4, PriorityKept
  <2>8. LocksCounted'
    BY <2>2, <2>3, <2>4, LocksKept
  <2>9. /\ irq_event' \in Seq(Source) /\ curr_priority' \in Priority /\ masked' \subseteq Source
        /\ InOrder(irq_event') /\ lock_counter' \in Nat /\ irq_off' \in BOOLEAN
    BY <2>3 DEF IInv, TypeOK
  <2> QED
    BY <1>1, <1>4, <2>2, <2>3, <2>4, <2>5, <2>6, <2>7, <2>8, <2>9, StepInv
<1> QED
  BY <1>5, <1>6 DEF PeekHead

\* A handler that has begun is at most as urgent as curr_priority says.
LEMMA OpenAtLeast ==
    ASSUME IInv, NEW c \in Calls, InFunc(c)
    PROVE  /\ Frame(c).ev \in Source /\ priority[Frame(c).ev] \in {0, 1}
           /\ curr_priority \in {0, 1, 2} /\ priority[Frame(c).ev] >= curr_priority
<1>1. Frame(c).ev \in Source
  BY CallView, FrameFields DEF IInv
<1>2. CASE Frame(c).ev = "timer"
  <2>1. TimerRuns
    BY <1>2 DEF TimerRuns, Runs
  <2> QED
    BY <1>1, <1>2, <2>1, PriorityOf DEF IInv, PriorityKnown
<1>3. CASE Frame(c).ev # "timer"
  <2>1. UartRuns
    BY <1>1, <1>3 DEF UartRuns, Runs, Source
  <2> QED
    BY <1>1, <1>3, <2>1, PriorityOf DEF IInv, PriorityKnown
<1> QED
  BY <1>2, <1>3

\* The first event is unlinked.
LEMMA TailEvent ==
    ASSUME NEW l \in Seq(Source), l # <<>>
    PROVE  /\ Tail(l) \in Seq(Source) /\ Len(Tail(l)) = Len(l) - 1
           /\ Len(l) \in Nat /\ l[1] \in Source
           /\ \A j \in 1 .. (Len(l) - 1) : j + 1 \in 1 .. Len(l) /\ Tail(l)[j] = l[j + 1]
           /\ InOrder(l) => InOrder(Tail(l))
<1>1. /\ Tail(l) \in Seq(Source) /\ Len(Tail(l)) = Len(l) - 1
      /\ Len(l) \in Nat \ {0} /\ l[1] \in Source
      /\ \A j \in 1 .. (Len(l) - 1) : j + 1 \in 1 .. Len(l) /\ Tail(l)[j] = l[j + 1]
  OBVIOUS
<1>2. ASSUME InOrder(l) PROVE InOrder(Tail(l))
  BY <1>1, <1>2 DEF InOrder
<1> QED
  BY <1>1, <1>2

\* A handler begins: it is more urgent than those that have begun.
LEMMA TakeInv ==
    ASSUME IInv, Take
    PROVE  IInv'
<1>1. /\ Running("take") /\ stack[curr] # <<>> /\ Top.pc = "take"
      /\ lock_counter' = lock_counter - 1 /\ irq_off' = (lock_counter # 1)
      /\ irq_event' = Tail(irq_event) /\ curr_priority' = priority[Top.ev]
      /\ UNCHANGED <<devices, threads>>
  BY DEF Take, unlock, Running, Raised
<1>2. Top \in FrameType /\ TopCall \in Calls /\ Frame(TopCall) = Top
  BY <1>1, TopView DEF IInv
<1>3. PICK e \in Source, v \in Priority : e = Top.ev /\ v = curr_priority
  BY <1>2, FrameFields DEF IInv, TypeOK
<1>4. GotoWith("func", e, v) /\ "func" \in Place
  BY <1>3 DEF Take, Place, Looping
<1>5. PICK top, g :
        /\ Becomes(top, g) /\ Frame(top) = Top
        /\ g \in FrameType /\ Top.pc = "take"
        /\ g.src = Top.src /\ g.pc = "func" /\ g.ev = e /\ g.prev = v
        /\ stack' \in [Tid -> Seq(FrameType)]
  BY <1>1, <1>4, Moved
<1>6. /\ irq_event # <<>> /\ e = irq_event[1] /\ v > priority[e]
  BY <1>1, <1>2, <1>3 DEF IInv, TakeKnows
<1>7. /\ irq_event' \in Seq(Source) /\ Len(irq_event') = Len(irq_event) - 1
      /\ Len(irq_event) \in Nat
      /\ \A j \in 1 .. (Len(irq_event) - 1) :
            j + 1 \in 1 .. Len(irq_event) /\ irq_event'[j] = irq_event[j + 1]
      /\ InOrder(irq_event')
  <2>1. irq_event \in Seq(Source) /\ InOrder(irq_event)
    BY DEF IInv, TypeOK
  <2> QED
    BY <1>1, <1>6, <2>1, TailEvent
<1>8. /\ masked' = masked /\ curr' = curr /\ thread' = thread
  BY <1>1 DEF threads, devices
<1>9. /\ ~ Undivided(g)
      /\ g.pc # "take" /\ g.pc # "sched" /\ Open(g) /\ ~ Open(Frame(top))
      /\ Frame(top).pc \in InSection /\ g.pc \notin InSection
      /\ Service(g) => Service(Frame(top)) /\ Frame(top).pc # "mask"
      /\ Serving(Frame(top)) => Serving(g)
  BY <1>5 DEF Undivided, Open, InSection, Service, Serving, Looping
<1>10. OneService'
  <2>1. Service(g) => "timer" \in masked
    BY <1>5, <1>9 DEF IInv, OneService, Becomes
  <2> QED
    BY <1>5, <1>8, <1>9, <2>1, ServiceKept
<1>11. /\ \A c \in Calls : c # top => (InFunc(c)' <=> InFunc(c)) /\ Frame(c)' = Frame(c)
       /\ InFunc(top)' /\ ~ InFunc(top) /\ Frame(top)' = g
       /\ Calls' = Calls /\ top \in Calls
  BY <1>5, <1>9 DEF Becomes, InFunc, Open
<1>12. \A c \in Calls, x \in Source : Runs(c, x)' <=> Runs(c, x) \/ (c = top /\ x = e)
  BY <1>5, <1>11 DEF Runs
<1>13. /\ priority[e] \in {0, 1} /\ priority[e] = (IF e = "timer" THEN 0 ELSE 1)
       /\ curr_priority \in {0, 1, 2} /\ curr_priority > priority[e] /\ ~ TimerRuns
       /\ e # "timer" => ~ UartRuns /\ curr_priority = 2
  <2>1. priority[e] \in {0, 1} /\ priority[e] = (IF e = "timer" THEN 0 ELSE 1)
    BY PriorityOf
  <2>2. curr_priority \in {0, 1, 2}
    BY DEF IInv, PriorityKnown, IdlePriority
  <2> QED
    BY <1>3, <1>6, <2>1, <2>2 DEF IInv, PriorityKnown, IdlePriority
<1>14. /\ TimerRuns' <=> e = "timer"
       /\ UartRuns' <=> UartRuns \/ e # "timer"
  BY <1>11, <1>12, <1>13 DEF TimerRuns, UartRuns, Source
<1>15. PriorityKnown'
  BY <1>1, <1>3, <1>13, <1>14 DEF PriorityKnown
<1>16. \A c \in Calls : InFunc(c) => priority[Frame(c).ev] > priority[e] /\ Frame(c).ev \in Source
  BY <1>13, OpenAtLeast
<1>17. Nested'
  <2> SUFFICES ASSUME NEW c \in Calls, NEW d \in Calls, InFunc(c)', InFunc(d)'
               PROVE  /\ c # d => priority[Frame(c)'.ev] # priority[Frame(d)'.ev]
                      /\ Below(c, d) => priority[Frame(c)'.ev] > priority[Frame(d)'.ev]
    BY <1>11 DEF Nested, Below
  <2>1. CASE c # top /\ d # top
    BY <1>11, <2>1 DEF IInv, Nested
  <2>2. CASE c = top
    <3>1. ~ Below(c, d)
      BY <1>5, <2>2, NoneAbove DEF Becomes
    <3>2. d # top => priority[Frame(d)'.ev] > priority[e] /\ priority[Frame(d)'.ev] \in {0, 1}
      BY <1>11, <1>16, PriorityOf
    <3> QED
      BY <1>5, <1>11, <1>13, <2>2, <3>1, <3>2
  <2>3. CASE c # top /\ d = top
    <3>1. priority[Frame(c)'.ev] > priority[e] /\ priority[Frame(c)'.ev] \in {0, 1}
      BY <1>11, <1>16, <2>3, PriorityOf
    <3> QED
      BY <1>5, <1>11, <1>13, <2>3, <3>1
  <2> QED
    BY <2>1, <2>2, <2>3
<1>18. PrevKnown'
  <2> SUFFICES ASSUME NEW c \in Calls, InFunc(c)'
               PROVE  Frame(c)'.prev = IF Frame(c)'.ev = "timer" /\ UartRuns' THEN 1 ELSE IdlePriority
    BY <1>11 DEF PrevKnown
  <2>1. CASE c = top
    BY <1>3, <1>5, <1>11, <1>13, <1>14, <2>1 DEF IInv, PriorityKnown, IdlePriority
  <2>2. CASE c # top
    <3>1. InFunc(c) /\ Frame(c)' = Frame(c) /\ priority[Frame(c).ev] > priority[e]
          /\ Frame(c).ev # "timer"
      BY <1>11, <1>13, <1>16, <2>2, PriorityOf
    <3> QED
      BY <3>1 DEF IInv, PrevKnown
  <2> QED
    BY <2>1, <2>2
<1>19. TimerServed'
  <2>1. \A c \in Calls : Serving(Frame(c)) => Serving(Frame(c))'
    BY <1>5, <1>9, <1>11 DEF Serving
  <2>2. TimerQueued' => TimerQueued
    BY <1>7 DEF TimerQueued
  <2>3. ASSUME NEW d \in Calls, Runs(d, "timer")'
        PROVE  \E c \in Calls : Serving(Frame(c))' /\ c[1] = d[1] /\ c[2] <= d[2]
    <3>1. d = top /\ e = "timer"
      BY <1>12, <1>13, <2>3 DEF Source, TimerRuns
    <3>2. TimerQueued
      BY <1>6, <3>1, HeadMostUrgent DEF TimerQueued
    <3>3. PICK c \in Calls : Serving(Frame(c))
      BY <3>2 DEF IInv, TimerServed
    <3>4. c[1] = curr
      BY <3>3 DEF IInv, OneService, Service, Serving
    <3>5. c = top \/ Below(c, top)
      BY <1>1, <1>5, <3>4, TopView DEF Becomes, IInv
    <3>6. c[2] <= d[2] /\ c[1] = d[1]
      BY <1>11, <3>1, <3>5, CallView DEF Below, IInv
    <3> QED
      BY <2>1, <3>3, <3>6
  <2> QED
    BY <1>11, <2>1, <2>2, <2>3 DEF IInv, TimerServed
<1>20. TimerOnce'
  <2>1. ASSUME NEW i \in 1 .. Len(irq_event'), NEW j \in 1 .. Len(irq_event'),
               irq_event'[i] = "timer", irq_event'[j] = "timer"
        PROVE  i = j
    <3>1. i + 1 = j + 1
      BY <1>7, <2>1 DEF IInv, TimerOnce
    <3> QED
      BY <1>7, <3>1
  <2>2. ASSUME TimerQueued' PROVE \A c \in Calls : ~ Runs(c, "timer")'
    <3>1. PICK k \in 1 .. (Len(irq_event) - 1) :
            irq_event[k + 1] = "timer" /\ k + 1 \in 1 .. Len(irq_event)
      BY <1>7, <2>2 DEF TimerQueued
    <3>2. e # "timer"
      <4>1. 1 \in 1 .. Len(irq_event) /\ k + 1 # 1
        BY <1>7
      <4> QED
        BY <1>6, <3>1, <4>1 DEF IInv, TimerOnce
    <3> QED
      BY <1>12, <1>13, <3>2 DEF TimerRuns, Source
  <2> QED
    BY <1>11, <2>1, <2>2 DEF TimerOnce
<1>21. AllSeen'
  <2> SUFFICES ASSUME NEW k \in 1 .. Len(irq_event')
               PROVE  WillSee(top, irq_event[k])'
    BY <1>11 DEF AllSeen
  <2>1. irq_event'[k] = irq_event[k + 1] /\ k + 1 \in 1 .. Len(irq_event)
    BY <1>7
  <2>2. priority[e] <= priority[irq_event'[k]]
    BY <1>6, <2>1, HeadMostUrgent
  <2> QED
    BY <1>5, <1>11, <2>2 DEF WillSee
<1>22. LocksCounted' /\ lock_counter' \in Nat
  BY <1>1, <1>5, <1>8, <1>9, LocksLeft
<1>23. /\ curr_priority' \in Priority /\ masked' \subseteq Source /\ irq_off' \in BOOLEAN
  BY <1>1, <1>3, <1>8, <1>13 DEF IInv, TypeOK, Priority, IdlePriority
<1> QED
  BY <1>1, <1>5, <1>7, <1>9, <1>10, <1>15, <1>17, <1>18, <1>19, <1>20, <1>21, <1>22, <1>23, StepInv

\* A handler is done: what it restores is the priority of the others.
LEMMA RestoreInv ==
    ASSUME IInv, Restore
    PROVE  IInv'
<1>1. /\ Running("restore") /\ stack[curr] # <<>> /\ Top.pc = "restore"
      /\ curr_priority' = Top.prev
      /\ UNCHANGED <<irq_event, cpu, devices, threads>>
  BY DEF Restore, Running, Restored
<1>2. /\ GotoWith("while", "timer", IdlePriority) /\ "while" \in Place
      /\ "timer" \in Source /\ IdlePriority \in Priority
  BY DEF Restore, AfterEvent, Place, Looping, Source, Priority, IdlePriority
<1>3. PICK top, g :
        /\ Becomes(top, g) /\ Frame(top) = Top
        /\ g \in FrameType /\ Top \in FrameType /\ Top.pc = "restore"
        /\ g.src = Top.src /\ g.pc = "while"
        /\ stack' \in [Tid -> Seq(FrameType)]
  BY <1>1, <1>2, Moved
<1>4. /\ irq_event' = irq_event /\ masked' = masked /\ curr' = curr /\ thread' = thread
      /\ lock_counter' = lock_counter /\ irq_off' = irq_off
  BY <1>1 DEF threads, devices, cpu
<1>5. /\ ~ Undivided(g)
      /\ g.pc # "take" /\ g.pc # "sched" /\ ~ Open(g)
      /\ Frame(top).pc \notin InSection /\ g.pc \notin InSection
      /\ Service(g) => Service(Frame(top)) /\ Frame(top).pc # "mask"
      /\ Serving(Frame(top)) => Serving(g)
      /\ g.pc \in Looping
  BY <1>3 DEF Undivided, Open, InSection, Service, Serving, Looping
<1>6. OneService'
  <2>1. Service(g) => "timer" \in masked
    BY <1>3, <1>5 DEF IInv, OneService, Becomes
  <2> QED
    BY <1>3, <1>4, <1>5, <2>1, ServiceKept
<1>7. TimerServed' /\ TimerOnce'
  BY <1>3, <1>4, <1>5, TimerKept
<1>8. AllSeen'
  BY <1>3, <1>4, <1>5, SeenKept
<1>9. LocksCounted'
  BY <1>3, <1>4, <1>5, LocksKept
<1>10. /\ \A c \in Calls : c # top => (InFunc(c)' <=> InFunc(c)) /\ Frame(c)' = Frame(c)
       /\ ~ InFunc(top)' /\ InFunc(top) /\ top \in Calls /\ Calls' = Calls
  BY <1>3, <1>5 DEF Becomes, InFunc, Open
<1>11. PICK e \in Source : e = Frame(top).ev
  BY <1>3, FrameFields
<1>12. \A c \in Calls, x \in Source : Runs(c, x)' <=> Runs(c, x) /\ c # top
  BY <1>10 DEF Runs
<1>13. \A c \in Calls, x \in Source : Runs(c, x) /\ c # top => priority[x] # priority[e]
  BY <1>10, <1>11 DEF Runs, IInv, Nested
<1>14. e # "timer" => \A d \in Calls : ~ Runs(d, "timer")
  <2> SUFFICES ASSUME e # "timer", NEW d \in Calls, Runs(d, "timer") PROVE FALSE
    OBVIOUS
  <2>1. PICK c \in Calls : Serving(Frame(c)) /\ c[1] = d[1]
    BY DEF IInv, TimerServed
  <2>2. c[1] = curr
    BY <2>1 DEF IInv, OneService, Service, Serving
  <2>3. d # top
    BY <1>11 DEF Runs
  <2>4. Below(d, top)
    BY <1>1, <1>3, <2>1, <2>2, <2>3, TopView DEF Becomes, IInv
  <2>5. priority["timer"] > priority[e]
    BY <1>10, <1>11, <2>4 DEF Runs, IInv, Nested
  <2>6. priority["timer"] = 0 /\ priority[e] = 1
    BY PriorityOf DEF Source
  <2> QED
    BY <2>5, <2>6
<1>15. /\ ~ TimerRuns'
       /\ UartRuns' <=> UartRuns /\ e = "timer"
  <2>1. ~ TimerRuns'
    BY <1>10, <1>12, <1>13, <1>14 DEF TimerRuns, Source
  <2>2. CASE e = "timer"
    <3>1. \A c \in Calls, x \in {"uart_w", "uart_r"} : Runs(c, x) => c # top
      BY <1>11, <2>2 DEF Runs
    <3> QED
      BY <1>10, <1>12, <2>1, <2>2, <3>1 DEF UartRuns, Source
  <2>3. CASE e # "timer"
    <3>1. priority[e] = 1 /\ priority["uart_w"] = 1 /\ priority["uart_r"] = 1
      BY <2>3, PriorityOf DEF Source
    <3> QED
      BY <1>10, <1>12, <1>13, <2>1, <2>3, <3>1 DEF UartRuns, Source
  <2> QED
    BY <2>2, <2>3
<1>16. PriorityKnown'
  <2>1. Top.prev = IF e = "timer" /\ UartRuns THEN 1 ELSE IdlePriority
    BY <1>3, <1>10, <1>11 DEF IInv, PrevKnown
  <2> QED
    BY <1>1, <1>15, <2>1 DEF PriorityKnown
<1>17. Nested'
  BY <1>10 DEF Nested, Below, IInv
<1>18. PrevKnown'
  <2> SUFFICES ASSUME NEW c \in Calls, InFunc(c)'
               PROVE  Frame(c)'.prev = IF Frame(c)'.ev = "timer" /\ UartRuns' THEN 1 ELSE IdlePriority
    BY <1>10 DEF PrevKnown
  <2>1. c # top /\ InFunc(c) /\ Frame(c)' = Frame(c)
    BY <1>10
  <2>2. Frame(c).ev # "timer"
    BY <1>10, <1>12, <1>15, <2>1 DEF Runs, TimerRuns, Source, Becomes
  <2> QED
    BY <2>1, <2>2 DEF IInv, PrevKnown
<1>19. Top.prev \in Priority
  BY <1>3, FrameFields
<1>20. /\ irq_event' \in Seq(Source) /\ curr_priority' \in Priority /\ masked' \subseteq Source
       /\ InOrder(irq_event') /\ lock_counter' \in Nat /\ irq_off' \in BOOLEAN
  BY <1>1, <1>4, <1>19 DEF IInv, TypeOK
<1> QED
  BY <1>1, <1>3, <1>5, <1>6, <1>7, <1>8, <1>9, <1>16, <1>17, <1>18, <1>20, StepInv

-----------------------------------------------------------------------------
(* Interrupts are taken and returned from, and the steps of the threads    *)
(* and devices.                                                            *)

\* The calls stay, but for one that returns or begins.
FramesKept ==
    /\ \A c \in Calls : c \in Calls' => Frame(c)' = Frame(c)
    /\ \A c \in Calls : c \notin Calls' => Frame(c).pc = "ret"
    /\ \A c \in Calls' : c \notin Calls => Frame(c)'.pc = "entry"

LEMMA FramesQuiet ==
    ASSUME IInv, FramesKept, UNCHANGED queue
    PROVE  /\ TimerServed' /\ TimerOnce' /\ PriorityKnown' /\ Nested' /\ PrevKnown'
           /\ TakeKnows' /\ AllSeen' /\ SectionCalls' = SectionCalls
<1>1. irq_event' = irq_event /\ curr_priority' = curr_priority
  BY DEF queue
<1>2. \A c \in Calls' : Frame(c)'.pc # "entry" => c \in Calls /\ Frame(c)' = Frame(c)
  BY DEF FramesKept
<1>3. \A c \in Calls : Frame(c).pc # "ret" => c \in Calls' /\ Frame(c)' = Frame(c)
  BY DEF FramesKept
<1>4. /\ \A c \in Calls' : InFunc(c)' => c \in Calls /\ InFunc(c) /\ Frame(c)' = Frame(c)
      /\ \A c \in Calls : InFunc(c) => c \in Calls' /\ InFunc(c)' /\ Frame(c)' = Frame(c)
  BY <1>2, <1>3 DEF InFunc
<1>5. \A x \in Source : /\ \A c \in Calls' : Runs(c, x)' => c \in Calls /\ Runs(c, x)
                        /\ \A c \in Calls : Runs(c, x) => c \in Calls' /\ Runs(c, x)'
  BY <1>4 DEF Runs
<1>6. (TimerRuns' <=> TimerRuns) /\ (UartRuns' <=> UartRuns) /\ (TimerQueued' <=> TimerQueued)
  BY <1>1, <1>5 DEF TimerRuns, UartRuns, TimerQueued, Source
<1>7. \A c \in Calls : Serving(Frame(c)) => c \in Calls' /\ Serving(Frame(c))'
  BY <1>3 DEF Serving, Looping
<1>8. TimerServed' /\ TimerOnce'
  <2>1. \A c \in Calls' : Runs(c, "timer")' => c \in Calls /\ Runs(c, "timer")
    BY <1>5 DEF Source
  <2>2. TimerServed'
    BY <1>6, <1>7, <2>1 DEF IInv, TimerServed
  <2>3. TimerOnce'
    BY <1>1, <1>6, <2>1 DEF IInv, TimerOnce
  <2> QED
    BY <2>2, <2>3
<1>9. PriorityKnown'
  BY <1>1, <1>6 DEF IInv, PriorityKnown
<1>10. Nested'
  BY <1>4 DEF IInv, Nested, Below
<1>11. PrevKnown'
  BY <1>4, <1>6 DEF IInv, PrevKnown
<1>12. TakeKnows'
  BY <1>1, <1>2 DEF IInv, TakeKnows
<1>13. AllSeen'
  <2> SUFFICES ASSUME NEW k \in 1 .. Len(irq_event)
               PROVE  \E c \in Calls' : WillSee(c, irq_event[k])'
    BY <1>1 DEF AllSeen
  <2>1. PICK c \in Calls : WillSee(c, irq_event[k])
    BY DEF IInv, AllSeen
  <2>2. c \in Calls' /\ Frame(c)' = Frame(c)
    BY <1>3, <2>1 DEF WillSee, InFunc, Looping
  <2> QED
    BY <1>1, <2>1, <2>2 DEF WillSee, InFunc
<1>14. SectionCalls' = SectionCalls
  BY <1>2, <1>3 DEF SectionCalls, InSection
<1> QED
  BY <1>8, <1>9, <1>10, <1>11, <1>12, <1>13, <1>14

LEMMA ServiceQuiet ==
    ASSUME IInv, FramesKept, "timer" \in masked => "timer" \in masked',
           curr' = curr \/ stack[curr] = <<>>
    PROVE  OneService'
<1> SUFFICES ASSUME NEW c \in Calls', Service(Frame(c))'
             PROVE  /\ c[1] = curr'
                    /\ Frame(c)'.pc # "mask" => "timer" \in masked'
                    /\ \A d \in Calls' : /\ Service(Frame(d))' => d = c
                                         /\ Below(c, d) => Frame(d)'.pc # "sched"
  BY DEF OneService, Below
<1>1. \A d \in Calls' : Service(Frame(d))' => d \in Calls /\ Service(Frame(d)) /\ Frame(d)' = Frame(d)
  BY DEF FramesKept, Service, Looping
<1>2. \A d \in Calls' : Frame(d)'.pc = "sched" => d \in Calls /\ Frame(d).pc = "sched"
  BY DEF FramesKept
<1>3. c \in Calls /\ Service(Frame(c)) /\ Frame(c)' = Frame(c)
  BY <1>1
<1>4. /\ c[1] = curr
      /\ Frame(c).pc # "mask" => "timer" \in masked
      /\ \A d \in Calls : /\ Service(Frame(d)) => d = c
                          /\ Below(c, d) => Frame(d).pc # "sched"
  BY <1>3 DEF IInv, OneService
<1>5. stack[curr] # <<>>
  <2>1. c[2] \in 1 .. Len(stack[curr])
    BY <1>3, <1>4, CallView DEF IInv
  <2> QED
    BY <2>1
<1> QED
  BY <1>1, <1>2, <1>3, <1>4, <1>5

\* eret.
LEMMA ReturnInv ==
    ASSUME IInv, Return
    PROVE  IInv'
<1>1. /\ stack[curr] # <<>> /\ Top.pc = "ret" /\ stack' = [stack EXCEPT ![curr] = Front(@)]
      /\ irq_off' = FALSE /\ UNCHANGED <<queue, lock_counter, devices, threads>>
  BY DEF Return, Running
<1>2. PICK top : top = TopCall
  OBVIOUS
<1>3. top \in Calls /\ Frame(top).pc = "ret" /\ top[1] = curr
  BY <1>1, <1>2, TopView DEF IInv
<1>4. /\ stack' \in [Tid -> Seq(FrameType)]
      /\ Calls' = Calls \ {top}
      /\ \A c \in Calls' : Frame(c)' = Frame(c)
      /\ \A t \in Tid : t # curr => stack'[t] = stack[t]
  BY <1>1, <1>2, Popped DEF IInv
<1>5. /\ masked' = masked /\ curr' = curr /\ thread' = thread /\ lock_counter' = lock_counter
      /\ irq_event' = irq_event /\ curr_priority' = curr_priority
  BY <1>1 DEF threads, devices, queue
<1>6. FramesKept
  BY <1>3, <1>4 DEF FramesKept
<1>7. /\ TimerServed' /\ TimerOnce' /\ PriorityKnown' /\ Nested' /\ PrevKnown'
      /\ TakeKnows' /\ AllSeen' /\ SectionCalls' = SectionCalls
  BY <1>1, <1>6, FramesQuiet
<1>8. OneService'
  BY <1>5, <1>6, ServiceQuiet
<1>9. TypeOK' /\ InOrder(irq_event')
  BY <1>1, <1>4, <1>5 DEF IInv, TypeOK
<1>10. UndividedOnTop'
  BY <1>2, <1>4 DEF IInv, UndividedOnTop, Undivided
<1>11. Parked'
  <2> SUFFICES ASSUME NEW c \in Calls', c[1] # curr, c[2] = Len(stack'[c[1]])
               PROVE  Frame(c)'.pc = "test_gpu"
    BY <1>5 DEF Parked
  <2>1. c[1] \in Tid
    BY <1>4, CallView DEF IInv
  <2> QED
    BY <1>4, <2>1 DEF IInv, Parked
<1>12. DeadInUser'
  BY <1>4, <1>5 DEF IInv, DeadInUser
<1>13. LocksCounted'
  BY <1>5, <1>7 DEF IInv, LocksCounted, SectionThreads
<1>14. LockedAlone'
  BY <1>1, <1>5 DEF IInv, LockedAlone
<1> QED
  BY <1>7, <1>8, <1>9, <1>10, <1>11, <1>12, <1>13, <1>14 DEF IInv

\* The CPU takes an interrupt: no code is executing that interrupts must not
\* divide.
LEMMA TakeIrqInv ==
    ASSUME IInv, TakeIrq
    PROVE  IInv'
<1>1. PICK g : g = [src |-> "timer", pc |-> "entry", ev |-> "timer", prev |-> IdlePriority]
  OBVIOUS
<1>2. g \in FrameType /\ g.pc = "entry"
  BY <1>1 DEF FrameType, Source, Place, Priority, IdlePriority
<1>3. /\ ~ irq_off /\ stack' = [stack EXCEPT ![curr] = Append(@, g)]
      /\ irq_off' = TRUE /\ UNCHANGED <<queue, lock_counter, devices, threads>>
  BY <1>1 DEF TakeIrq
<1>4. PICK new : new = <<curr, Len(stack[curr]) + 1>>
  OBVIOUS
<1>5. /\ stack' \in [Tid -> Seq(FrameType)]
      /\ Calls' = Calls \cup {new} /\ new \notin Calls
      /\ \A c \in Calls : Frame(c)' = Frame(c)
      /\ Frame(new)' = g
      /\ Len(stack'[curr]) = Len(stack[curr]) + 1
      /\ \A t \in Tid : t # curr => stack'[t] = stack[t]
  BY <1>2, <1>3, <1>4, Pushed DEF IInv
<1>6. /\ masked' = masked /\ curr' = curr /\ thread' = thread /\ lock_counter' = lock_counter
      /\ irq_event' = irq_event /\ curr_priority' = curr_priority
  BY <1>3 DEF threads, devices, queue
<1>7. FramesKept
  BY <1>2, <1>5 DEF FramesKept
<1>8. /\ TimerServed' /\ TimerOnce' /\ PriorityKnown' /\ Nested' /\ PrevKnown'
      /\ TakeKnows' /\ AllSeen' /\ SectionCalls' = SectionCalls
  BY <1>3, <1>7, FramesQuiet
<1>9. OneService'
  BY <1>6, <1>7, ServiceQuiet
<1>10. TypeOK' /\ InOrder(irq_event')
  BY <1>3, <1>5, <1>6 DEF IInv, TypeOK
<1>11. UndividedOnTop'
  <2>1. \A c \in Calls : ~ Undivided(Frame(c))
    BY <1>3 DEF IInv, UndividedOnTop
  <2>2. \A c \in Calls' : Undivided(Frame(c))' => c = new
    BY <1>5, <2>1 DEF Undivided
  <2>3. TopCall' = new
    BY <1>4, <1>5, <1>6 DEF TopCall
  <2> QED
    BY <1>3, <2>2, <2>3 DEF UndividedOnTop
<1>12. Parked'
  <2> SUFFICES ASSUME NEW c \in Calls', c[1] # curr, c[2] = Len(stack'[c[1]])
               PROVE  Frame(c)'.pc = "test_gpu"
    BY <1>6 DEF Parked
  <2>1. c \in Calls
    BY <1>4, <1>5
  <2>2. c[1] \in Tid
    BY <2>1, CallView DEF IInv
  <2> QED
    BY <1>5, <2>1, <2>2 DEF IInv, Parked
<1>13. DeadInUser'
  <2>1. new[1] = curr
    BY <1>4
  <2> QED
    BY <1>5, <1>6, <2>1 DEF IInv, DeadInUser
<1>14. LocksCounted'
  BY <1>6, <1>8 DEF IInv, LocksCounted, SectionThreads
<1>15. LockedAlone'
  <2>1. \A t \in Tid : thread[t] # "in"
    BY <1>3 DEF IInv, LockedAlone
  <2>2. stack'[curr] # <<>>
    <3>1. Len(stack[curr]) \in Nat
      BY DEF IInv, TypeOK
    <3> QED
      BY <1>5, <3>1
  <2> QED
    BY <1>6, <2>1, <2>2 DEF LockedAlone
<1> QED
  BY <1>8, <1>9, <1>10, <1>11, <1>12, <1>13, <1>14, <1>15 DEF IInv

LEMMA StackKept ==
    ASSUME IInv, UNCHANGED stack
    PROVE  Calls' = Calls /\ (\A c \in Calls : Frame(c)' = Frame(c)) /\ FramesKept
<1>1. Calls' = Calls /\ \A c \in Calls : Frame(c)' = Frame(c)
  BY DEF Calls, Frame
<1> QED
  BY <1>1 DEF FramesKept

\* A step of a device or of a thread's own code.
LEMMA OwnInv ==
    ASSUME IInv, UNCHANGED <<queue, stack>>, curr' \in Tid, thread' \in [Tid -> ThreadState],
           lock_counter' \in Nat, irq_off' \in BOOLEAN, masked' \subseteq Source,
           "timer" \in masked => "timer" \in masked',
           (curr' = curr /\ irq_off' = irq_off) \/ stack[curr] = <<>>,
           DeadInUser', IsFiniteSet(SectionThreads'),
           lock_counter' - lock_counter = Cardinality(SectionThreads') - Cardinality(SectionThreads),
           LockedAlone'
    PROVE  IInv'
<1>1. Calls' = Calls /\ (\A c \in Calls : Frame(c)' = Frame(c)) /\ FramesKept
  BY StackKept
<1>2. /\ TimerServed' /\ TimerOnce' /\ PriorityKnown' /\ Nested' /\ PrevKnown'
      /\ TakeKnows' /\ AllSeen' /\ SectionCalls' = SectionCalls
  BY <1>1, FramesQuiet
<1>3. OneService'
  BY <1>1, ServiceQuiet
<1>4. TypeOK' /\ InOrder(irq_event')
  BY DEF IInv, TypeOK, queue
<1>5. \A c \in Calls : c[1] = curr => stack[curr] # <<>>
  <2> SUFFICES ASSUME NEW c \in Calls, c[1] = curr PROVE stack[curr] # <<>>
    OBVIOUS
  <2>1. c[2] \in 1 .. Len(stack[curr])
    BY CallView DEF IInv
  <2> QED
    BY <2>1
<1>6. UndividedOnTop'
  <2> SUFFICES ASSUME NEW c \in Calls, Undivided(Frame(c)) PROVE irq_off' /\ c = TopCall'
    BY <1>1 DEF UndividedOnTop, Undivided
  <2>1. irq_off /\ c = TopCall /\ c[1] = curr
    BY DEF IInv, UndividedOnTop, TopCall
  <2>2. curr' = curr /\ irq_off' = irq_off
    BY <1>5, <2>1
  <2> QED
    BY <2>1, <2>2 DEF TopCall
<1>7. Parked'
  BY <1>1, <1>5 DEF IInv, Parked
<1>8. LocksCounted'
  <2>1. /\ IsFiniteSet(SectionCalls) /\ IsFiniteSet(SectionThreads)
        /\ lock_counter = Cardinality(SectionCalls) + Cardinality(SectionThreads)
    BY DEF IInv, LocksCounted
  <2>2. /\ Cardinality(SectionCalls) \in Nat /\ Cardinality(SectionThreads) \in Nat
        /\ Cardinality(SectionThreads') \in Nat
    BY <2>1, FS_CardinalityType
  <2> QED
    BY <1>2, <2>1, <2>2 DEF LocksCounted
<1> QED
  BY <1>2, <1>3, <1>4, <1>6, <1>7, <1>8 DEF IInv

\* The same, if the lock is left alone too.
LEMMA OutsideInv ==
    ASSUME IInv, UNCHANGED <<queue, stack, lock_counter>>, curr' \in Tid,
           thread' \in [Tid -> ThreadState],
           irq_off' \in BOOLEAN, masked' \subseteq Source,
           "timer" \in masked => "timer" \in masked',
           (curr' = curr /\ irq_off' = irq_off) \/ stack[curr] = <<>>,
           DeadInUser', SectionThreads' = SectionThreads, LockedAlone'
    PROVE  IInv'
<1>1. IsFiniteSet(SectionThreads) /\ Cardinality(SectionThreads) \in Nat /\ lock_counter \in Nat
  BY FS_CardinalityType DEF IInv, LocksCounted, TypeOK
<1>2. lock_counter' - lock_counter = Cardinality(SectionThreads') - Cardinality(SectionThreads)
  BY <1>1
<1> QED
  BY <1>1, <1>2, OwnInv

LEMMA DevicesInv ==
    ASSUME IInv, UNCHANGED <<queue, cpu, threads, stack>>, masked' \subseteq Source,
           "timer" \in masked => "timer" \in masked'
    PROVE  IInv'
<1>1. lock_counter' = lock_counter /\ irq_off' = irq_off /\ curr' = curr /\ thread' = thread
  BY DEF cpu, threads
<1>2. DeadInUser' /\ SectionThreads' = SectionThreads /\ LockedAlone'
  BY <1>1, StackKept DEF IInv, DeadInUser, SectionThreads, LockedAlone
<1>3. curr' \in Tid /\ thread' \in [Tid -> ThreadState] /\ irq_off' \in BOOLEAN
  BY <1>1 DEF IInv, TypeOK
<1> QED
  BY <1>1, <1>2, <1>3, OutsideInv

LEMMA RaiseInv ==
    ASSUME IInv, NEW src \in Source, Raise(src)
    PROVE  IInv'
<1>1. UNCHANGED <<queue, cpu, threads, stack>> /\ masked' = masked
  BY DEF Raise
<1> QED
  BY <1>1, DevicesInv DEF IInv, TypeOK

LEMMA ThreadEnableInv ==
    ASSUME IInv, NEW src \in {"uart_w", "uart_r"}, ThreadEnable(src)
    PROVE  IInv'
<1>1. UNCHANGED <<queue, cpu, threads, stack>> /\ masked' = masked \ {src}
  BY DEF ThreadEnable
<1> QED
  BY <1>1, DevicesInv DEF IInv, TypeOK

\* No thread is in lock() ... unlock() when the one that executes is not.
LEMMA NoneIn ==
    ASSUME IInv, thread[curr] # "in"
    PROVE  \A t \in Tid : thread[t] # "in"
BY DEF IInv, LockedAlone

LEMMA ThreadLockInv ==
    ASSUME IInv, ThreadLock
    PROVE  IInv'
<1>0. /\ curr \in Tid /\ thread \in [Tid -> ThreadState] /\ lock_counter \in Nat
      /\ irq_off \in BOOLEAN /\ masked \subseteq Source
  BY DEF IInv, TypeOK
<1>1. /\ stack[curr] = <<>> /\ UNCHANGED <<queue, stack>> /\ masked' = masked /\ curr' = curr
  BY DEF ThreadLock, Own, devices
<1>2. IsFiniteSet(SectionThreads) /\ Cardinality(SectionThreads) \in Nat
  BY FS_CardinalityType DEF IInv, LocksCounted
<1>3. CASE /\ thread[curr] = "out"
           /\ thread' = [thread EXCEPT ![curr] = "locking"]
           /\ lock_counter' = lock_counter + 1 /\ UNCHANGED irq_off
  <2>1. SectionThreads' = SectionThreads \cup {curr} /\ curr \notin SectionThreads
    BY <1>0, <1>3 DEF SectionThreads
  <2>2. /\ IsFiniteSet(SectionThreads')
        /\ Cardinality(SectionThreads') = Cardinality(SectionThreads) + 1
    BY <1>2, <2>1, FS_AddElement
  <2>3. thread' \in [Tid -> ThreadState] /\ lock_counter' \in Nat /\ lock_counter' # 0
    BY <1>0, <1>3 DEF ThreadState
  <2>4. LockedAlone'
    <3>1. \A t \in Tid : thread'[t] # "in"
      BY <1>0, <1>3, NoneIn
    <3> QED
      BY <2>3, <3>1 DEF LockedAlone
  <2>5. DeadInUser'
    BY <1>0, <1>1, <1>3, StackKept DEF IInv, DeadInUser
  <2>6. lock_counter' - lock_counter = Cardinality(SectionThreads') - Cardinality(SectionThreads)
    BY <1>0, <1>2, <1>3, <2>2
  <2> QED
    BY <1>0, <1>1, <1>3, <2>2, <2>3, <2>4, <2>5, <2>6, OwnInv
<1>4. CASE /\ thread[curr] = "locking"
           /\ thread' = [thread EXCEPT ![curr] = "in"]
           /\ disable_el1_interrupt /\ UNCHANGED lock_counter
  <2>1. SectionThreads' = SectionThreads /\ curr \in SectionThreads
    BY <1>0, <1>4 DEF SectionThreads
  <2>2. thread' \in [Tid -> ThreadState] /\ irq_off' = TRUE
    BY <1>0, <1>4 DEF ThreadState, disable_el1_interrupt
  <2>3. lock_counter # 0
    <3>1. Cardinality(SectionThreads) # 0
      BY <1>2, <2>1, FS_EmptySet
    <3>2. Cardinality(SectionCalls) \in Nat
      BY FS_CardinalityType DEF IInv, LocksCounted
    <3> QED
      BY <1>2, <3>1, <3>2 DEF IInv, LocksCounted
  <2>4. LockedAlone'
    <3>1. \A t \in Tid : thread'[t] = "in" => t = curr
      BY <1>0, <1>4, NoneIn
    <3> QED
      BY <1>1, <1>4, <2>2, <2>3, <3>1 DEF LockedAlone
  <2>5. DeadInUser'
    BY <1>0, <1>1, <1>4, StackKept DEF IInv, DeadInUser
  <2> QED
    BY <1>0, <1>1, <1>4, <2>1, <2>2, <2>4, <2>5, OutsideInv
<1> QED
  BY <1>3, <1>4 DEF ThreadLock, Own

LEMMA ThreadUnlockInv ==
    ASSUME IInv, ThreadUnlock
    PROVE  IInv'
<1>0. /\ curr \in Tid /\ thread \in [Tid -> ThreadState] /\ lock_counter \in Nat
      /\ masked \subseteq Source
  BY DEF IInv, TypeOK
<1>1. /\ stack[curr] = <<>> /\ UNCHANGED <<queue, stack>> /\ masked' = masked /\ curr' = curr
      /\ thread[curr] = "in" /\ thread' = [thread EXCEPT ![curr] = "out"]
      /\ lock_counter' = lock_counter - 1 /\ irq_off' = (lock_counter # 1)
  BY DEF ThreadUnlock, Own, devices, unlock
<1>2. SectionThreads' = SectionThreads \ {curr} /\ curr \in SectionThreads
  BY <1>0, <1>1 DEF SectionThreads
<1>3. /\ IsFiniteSet(SectionThreads) /\ Cardinality(SectionThreads) \in Nat
      /\ IsFiniteSet(SectionCalls) /\ Cardinality(SectionCalls) \in Nat
      /\ lock_counter = Cardinality(SectionCalls) + Cardinality(SectionThreads)
  BY FS_CardinalityType DEF IInv, LocksCounted
<1>4. /\ IsFiniteSet(SectionThreads') /\ Cardinality(SectionThreads') \in Nat
      /\ Cardinality(SectionThreads') = Cardinality(SectionThreads) - 1
  BY <1>2, <1>3, FS_RemoveElement, FS_CardinalityType
<1>5. /\ lock_counter' \in Nat
      /\ lock_counter' - lock_counter = Cardinality(SectionThreads') - Cardinality(SectionThreads)
  BY <1>1, <1>3, <1>4
<1>6. thread' \in [Tid -> ThreadState] /\ irq_off' \in BOOLEAN
  BY <1>0, <1>1 DEF ThreadState
<1>7. LockedAlone'
  <2>1. \A t \in Tid : thread'[t] # "in"
    BY <1>0, <1>1 DEF IInv, LockedAlone
  <2>2. lock_counter' = 0 => ~ irq_off'
    <3>1. lock_counter' = 0 => lock_counter = 1
      BY <1>0, <1>1
    <3>2. irq_off' = (lock_counter # 1)
      BY <1>1
    <3> QED
      BY <3>1, <3>2
  <2> QED
    BY <2>1, <2>2 DEF LockedAlone
<1>8. DeadInUser'
  BY <1>0, <1>1, StackKept DEF IInv, DeadInUser
<1> QED
  BY <1>0, <1>1, <1>4, <1>5, <1>6, <1>7, <1>8, OwnInv

\* A system call returns to user mode or gives the CPU to another thread.
LEMMA ThreadReturnInv ==
    ASSUME IInv, ThreadReturn
    PROVE  IInv'
<1>0. /\ curr \in Tid /\ thread \in [Tid -> ThreadState] /\ masked \subseteq Source
  BY DEF IInv, TypeOK
<1>1. /\ stack[curr] = <<>> /\ UNCHANGED <<queue, stack, lock_counter>> /\ masked' = masked
      /\ curr' = curr /\ thread[curr] = "out" /\ thread' = thread /\ irq_off' = FALSE
  BY DEF ThreadReturn, Own, devices, threads
<1>2. LockedAlone'
  BY <1>1, NoneIn DEF LockedAlone
<1>3. DeadInUser' /\ SectionThreads' = SectionThreads
  BY <1>1, StackKept DEF IInv, DeadInUser, SectionThreads
<1> QED
  BY <1>0, <1>1, <1>2, <1>3, OutsideInv

LEMMA ThreadYieldInv ==
    ASSUME IInv, ThreadYield
    PROVE  IInv'
<1>0. /\ thread \in [Tid -> ThreadState] /\ masked \subseteq Source
  BY DEF IInv, TypeOK
<1>1. /\ stack[curr] = <<>> /\ UNCHANGED <<queue, stack, lock_counter>> /\ masked' = masked
      /\ thread[curr] = "out" /\ thread' = thread /\ irq_off' = (lock_counter # 0)
      /\ curr' \in Tid /\ thread[curr'] # "dead"
  BY DEF ThreadYield, Own, devices, schedule
<1>2. LockedAlone'
  BY <1>1, NoneIn DEF LockedAlone
<1>3. DeadInUser' /\ SectionThreads' = SectionThreads
  BY <1>1, StackKept DEF IInv, DeadInUser, SectionThreads
<1> QED
  BY <1>0, <1>1, <1>2, <1>3, OutsideInv

\* A thread that was in user mode is killed: no call on its stack has work left.
LEMMA KillInv ==
    ASSUME IInv, ~ KillInKernel, NEW t \in Tid, Kill(t)
    PROVE  IInv'
<1>0. /\ curr \in Tid /\ thread \in [Tid -> ThreadState] /\ masked \subseteq Source
      /\ irq_off \in BOOLEAN
  BY DEF IInv, TypeOK
<1>1. /\ UNCHANGED <<queue, stack, lock_counter>> /\ masked' = masked /\ irq_off' = irq_off
      /\ curr' = curr /\ t # curr /\ thread[t] = "out" /\ thread[curr] = "out"
      /\ stack[t] # <<>> => Len(stack[t]) = 1
      /\ thread' = [thread EXCEPT ![t] = "dead"] /\ stack[curr] = <<>>
  BY DEF Kill, Own, InUser, devices, cpu
<1>2. thread' \in [Tid -> ThreadState] /\ SectionThreads' = SectionThreads
  BY <1>0, <1>1 DEF ThreadState, SectionThreads
<1>3. LockedAlone'
  <2>1. \A u \in Tid : thread'[u] # "in"
    BY <1>0, <1>1, NoneIn
  <2> QED
    BY <1>1, <2>1 DEF IInv, LockedAlone
<1>4. DeadInUser'
  <2>1. \A c \in Calls : c[1] = t => Frame(c).pc = "test_gpu"
    <3> SUFFICES ASSUME NEW c \in Calls, c[1] = t PROVE Frame(c).pc = "test_gpu"
      OBVIOUS
    <3>1. c[2] \in 1 .. Len(stack[t]) /\ stack[t] # <<>>
      BY CallView DEF IInv
    <3>2. c[2] = Len(stack[t])
      <4>1. Len(stack[t]) = 1
        BY <1>1, <3>1
      <4> QED
        BY <3>1, <4>1
    <3> QED
      BY <1>1, <3>2 DEF IInv, Parked
  <2> QED
    BY <1>0, <1>1, <2>1, StackKept DEF IInv, DeadInUser
<1> QED
  BY <1>0, <1>1, <1>2, <1>3, <1>4, OutsideInv

-----------------------------------------------------------------------------
(* The theorems.                                                           *)

LEMMA InitInv ==
    ASSUME Init
    PROVE  IInv
<1>1. curr \in Tid
  BY IrqAssumption DEF Init
<1>2. TypeOK
  <2>1. /\ irq_event = <<>> /\ curr_priority = 2 /\ lock_counter = 0 /\ irq_off = FALSE
        /\ masked = {"uart_w", "uart_r"}
        /\ thread = [t \in Tid |-> "out"] /\ stack = [t \in Tid |-> <<>>]
    BY DEF Init, IdlePriority
  <2>2. thread \in [Tid -> ThreadState]
    BY <2>1 DEF ThreadState
  <2>3. stack \in [Tid -> Seq(FrameType)]
    BY <2>1
  <2>4. curr_priority \in Priority /\ masked \subseteq Source
    BY <2>1 DEF Priority, IdlePriority, Source
  <2>5. irq_event \in Seq(Source)
    BY <2>1
  <2>6. lock_counter \in Nat
    BY <2>1
  <2>7. irq_off \in BOOLEAN
    BY <2>1
  <2> QED
    BY <1>1, <2>2, <2>3, <2>4, <2>5, <2>6, <2>7 DEF TypeOK
<1>3. Calls = {}
  <2>1. \A t \in Tid : DOMAIN stack[t] = {}
    BY DEF Init
  <2> QED
    BY <2>1 DEF Calls
<1>4. SectionCalls = {} /\ SectionThreads = {}
  BY <1>3 DEF SectionCalls, SectionThreads, Init
<1>5. LocksCounted
  BY <1>4, FS_EmptySet DEF LocksCounted, Init
<1>6. Len(irq_event) = 0
  BY DEF Init
<1>7. /\ UndividedOnTop /\ Parked /\ DeadInUser /\ OneService /\ PrevKnown /\ Nested /\ TakeKnows
  BY <1>1, <1>3 DEF UndividedOnTop, Parked, DeadInUser, OneService, PrevKnown, Nested, TakeKnows, Init
<1>8. TimerServed /\ TimerOnce /\ InOrder(irq_event) /\ AllSeen
  BY <1>3, <1>6 DEF TimerServed, TimerQueued, TimerOnce, InOrder, AllSeen
<1>9. PriorityKnown
  BY <1>3 DEF PriorityKnown, TimerRuns, UartRuns, Init
<1>10. LockedAlone
  BY DEF LockedAlone, Init
<1> QED
  BY <1>2, <1>5, <1>7, <1>8, <1>9, <1>10 DEF IInv

LEMMA NextInv ==
    ASSUME IInv, ~ KillInKernel, Next
    PROVE  IInv'
<1>1. CASE HandlerStep
  <2>1. CASE TestUart("test_w", "uart_w", "test_r")
    BY <2>1, TestUartInv
  <2>2. CASE TestUart("test_r", "uart_r", "ret")
    BY <2>2, TestUartInv
  <2>3. CASE LockInc("add_lock", "add")
    BY <2>3, LockIncInv
  <2>4. CASE LockInc("run_lock", "peek")
    BY <2>4, LockIncInv
  <2> QED
    BY <1>1, <2>1, <2>2, <2>3, <2>4, TestTimerInv, TestGpuInv, MaskSourceInv, UnmaskTimerInv,
       PreemptInv, ReturnInv, AddEventInv, TestEmptyInv, PeekInv, PeekHeadInv, TakeInv, FuncInv,
       RestoreInv DEF HandlerStep
<1> QED
  BY <1>1, RaiseInv, TakeIrqInv, ThreadLockInv, ThreadUnlockInv, ThreadReturnInv,
     ThreadEnableInv, ThreadYieldInv, KillInv DEF Next

LEMMA StutterInv ==
    ASSUME IInv, UNCHANGED vars
    PROVE  IInv'
<1>1. UNCHANGED <<queue, cpu, threads, stack>> /\ masked' = masked
  BY DEF vars, devices
<1> QED
  BY <1>1, DevicesInv DEF IInv, TypeOK

\* The inductive invariant holds in every reachable state: whichever interrupts
\* are taken, in whichever thread and wherever in irq_handler, the handlers
\* that have begun, the queue, curr_priority and lock_counter fit together, if
\* no thread is killed that was preempted in the kernel.
THEOREM InvariantHolds ==
    ASSUME KillInKernel = FALSE
    PROVE  Spec => []IInv
<1>1. ~ KillInKernel
  OBVIOUS
<1>2. Init => IInv
  BY InitInv
<1>3. IInv /\ [Next]_vars => IInv'
  BY <1>1, NextInv, StutterInv
<1> QED
  BY <1>2, <1>3, PTL DEF Spec

LEMMA AtMostOne ==
    ASSUME NEW S, \A x, y \in S : x = y
    PROVE  IsFiniteSet(S) /\ Cardinality(S) \in {0, 1} /\ (Cardinality(S) = 0 <=> S = {})
<1>1. CASE S = {}
  BY <1>1, FS_EmptySet
<1>2. CASE S # {}
  <2>1. PICK x \in S : TRUE
    BY <1>2
  <2>2. S = {x}
    BY <2>1
  <2>3. IsFiniteSet({x}) /\ Cardinality({x}) = 1
    BY FS_Singleton
  <2> QED
    BY <1>2, <2>2, <2>3
<1> QED
  BY <1>1, <1>2

\* The queue of deferred handlers is in order of priority, and the timer's is
\* on it or running once at most, which add_irq_event and run_irq_event owe to
\* the timer being masked from before the one until after the other.
THEOREM QueueInOrder ==
    ASSUME KillInKernel = FALSE
    PROVE  Spec => []QueueOrdered
<1>1. ASSUME IInv PROVE QueueOrdered
  <2> DEFINE Q == {i \in 1 .. Len(irq_event) : irq_event[i] = "timer"}
             F == {c \in Calls : Frame(c).pc = "func" /\ Frame(c).ev = "timer"}
  <2>1. Cardinality(Q) \in {0, 1} /\ (Cardinality(Q) = 0 <=> Q = {})
    <3>1. \A i, j \in Q : i = j
      BY <1>1 DEF IInv, TimerOnce
    <3> HIDE DEF Q
    <3> QED
      BY <3>1, AtMostOne
  <2>2. \A c \in F : c \in Calls /\ Runs(c, "timer")
    BY DEF Runs, InFunc
  <2>3. Cardinality(F) \in {0, 1} /\ (Cardinality(F) = 0 <=> F = {})
    <3>1. \A c, d \in F : c = d
      BY <1>1, <2>2 DEF IInv, Nested, Runs
    <3> HIDE DEF F
    <3> QED
      BY <3>1, AtMostOne
  <2>4. Q # {} => F = {}
    <3>1. Q # {} => TimerQueued
      BY DEF TimerQueued
    <3> HIDE DEF Q, F
    <3> QED
      BY <1>1, <2>2, <3>1 DEF IInv, TimerOnce
  <2>5. Cardinality(Q) + Cardinality(F) <= 1
    <3> HIDE DEF Q, F
    <3> QED
      BY <2>1, <2>3, <2>4
  <2>6. \A i, j \in 1 .. Len(irq_event) : i < j => priority[irq_event[i]] <= priority[irq_event[j]]
    <3>1. Len(irq_event) \in Nat
      BY <1>1 DEF IInv, TypeOK
    <3> QED
      BY <1>1, <3>1 DEF IInv, InOrder
  <2> QED
    BY <2>5, <2>6 DEF QueueOrdered
<1> QED
  BY <1>1, InvariantHolds, PTL

LEMMA LeastOf ==
    ASSUME NEW S \in SUBSET Int, NEW m \in S, \A x \in S : m <= x
    PROVE  Min(S) = m
<1>1. \A y \in S : (\A x \in S : y <= x) => y = m
  OBVIOUS
<1> QED
  BY <1>1 DEF Min

\* A handler is interrupted only by a more urgent one, in its thread and across
\* preemption: of the handlers that have begun no two have the same priority,
\* on one stack the inner one is the more urgent, and curr_priority is that of
\* the most urgent, whichever call of run_irq_event restores it.
THEOREM HandlersNested ==
    ASSUME KillInKernel = FALSE
    PROVE  Spec => []StrictlyNested
<1>1. ASSUME IInv PROVE StrictlyNested
  <2> DEFINE open == {c \in Calls : InFunc(c)}
             S == {IdlePriority} \cup {priority[Frame(c).ev] : c \in open}
  <2>1. \A c \in Calls : InFunc(c) =>
            /\ Frame(c).ev \in Source /\ priority[Frame(c).ev] \in {0, 1}
            /\ curr_priority \in {0, 1, 2} /\ priority[Frame(c).ev] >= curr_priority
    BY <1>1, OpenAtLeast
  <2>2. curr_priority \in {0, 1, 2}
    BY <1>1 DEF IInv, PriorityKnown, IdlePriority
  <2>3. S \in SUBSET Int /\ \A x \in S : curr_priority <= x
    BY <2>1, <2>2 DEF IdlePriority
  <2>4. curr_priority \in S
    <3>1. CASE TimerRuns
      <4>1. PICK c \in Calls : Runs(c, "timer")
        BY <3>1 DEF TimerRuns
      <4>2. curr_priority = priority[Frame(c).ev] /\ c \in open
        BY <1>1, <3>1, <4>1, PriorityOf DEF Runs, Source, IInv, PriorityKnown
      <4> QED
        BY <4>2
    <3>2. CASE ~ TimerRuns /\ UartRuns
      <4>1. PICK c \in Calls : Runs(c, "uart_w") \/ Runs(c, "uart_r")
        BY <3>2 DEF UartRuns
      <4>2. curr_priority = priority[Frame(c).ev] /\ c \in open
        BY <1>1, <3>2, <4>1, PriorityOf DEF Runs, Source, IInv, PriorityKnown
      <4> QED
        BY <4>2
    <3>3. CASE ~ TimerRuns /\ ~ UartRuns
      BY <1>1, <3>3 DEF IInv, PriorityKnown
    <3> QED
      BY <3>1, <3>2, <3>3
  <2>5. curr_priority = Min(S)
    <3> HIDE DEF S
    <3> QED
      BY <2>3, <2>4, LeastOf
  <2>6. \A c, d \in open : /\ c # d => priority[Frame(c).ev] # priority[Frame(d).ev]
                           /\ c[1] = d[1] /\ c[2] < d[2] => priority[Frame(c).ev] > priority[Frame(d).ev]
    BY <1>1 DEF IInv, Nested, Below
  <2> QED
    BY <2>5, <2>6 DEF StrictlyNested
<1> QED
  BY <1>1, InvariantHolds, PTL

\* A queued event always has a call, in a thread that will run again, that is
\* still going to look at the queue: run_irq_event leaves an event in the queue
\* only to a handler it has interrupted.
THEOREM EventsNotStranded ==
    ASSUME KillInKernel = FALSE
    PROVE  Spec => []NothingStranded
<1>1. ASSUME IInv PROVE NothingStranded
  <2> SUFFICES ASSUME NEW k \in 1 .. Len(irq_event)
               PROVE  \E c \in Calls :
                        /\ thread[c[1]] # "dead"
                        /\ \/ InFunc(c) /\ priority[Frame(c).ev] <= priority[irq_event[k]]
                           \/ Frame(c).pc \in {"while", "run_lock", "peek", "take"}
    BY DEF NothingStranded
  <2>1. PICK c \in Calls : WillSee(c, irq_event[k])
    BY <1>1 DEF IInv, AllSeen
  <2>2. thread[c[1]] # "dead"
    BY <1>1, <2>1 DEF IInv, DeadInUser, WillSee, InFunc, Looping
  <2> QED
    BY <2>1, <2>2 DEF WillSee, Looping
<1> QED
  BY <1>1, InvariantHolds, PTL

\* lock() keeps interrupts and other threads out of a thread's critical section,
\* although its counter and the interrupt mask are set in two steps and are
\* shared by all threads; and the counter counts the open sections.
THEOREM SectionsExclusive ==
    ASSUME KillInKernel = FALSE
    PROVE  Spec => []LockExcludes
<1>1. ASSUME IInv PROVE LockExcludes
  BY <1>1 DEF IInv, LocksCounted, LockedAlone, LockExcludes, SectionCalls, SectionThreads, InSection
<1> QED
  BY <1>1, InvariantHolds, PTL

=============================================================================
