------------------------------ MODULE UartRing ------------------------------
(***************************************************************************)
(* The two ring buffers of lib/uart.c between threads that call            *)
(* uart_async_send and uart_async_read and the interrupt handlers that     *)
(* move bytes to and from the device.  Code between lock() and unlock() is *)
(* one step, and so is the part of a handler that moves a byte, since all  *)
(* it shares with a thread is the other one's cursor.  AUX_MU_IER is       *)
(* changed in two steps, a read and a write, by threads and by handlers.   *)
(*                                                                         *)
(* irq_handler masks a source and queues its handler.  A handler runs with *)
(* interrupts enabled, but those of the UART have one priority: one runs   *)
(* at a time.  The timer can suspend it, and other threads use the UART    *)
(* meanwhile.  torn counts what this can break: a change of AUX_MU_IER by  *)
(* a thread while a handler is under way, or an interrupt in a handler's   *)
(* own change, undoes the mask or has its bit undone.                      *)
(***************************************************************************)
EXTENDS Integers, Sequences

CONSTANTS
    Threads,        \* threads that use the UART
    Byte,
    SIZE,           \* UART_BUFFER_SIZE
    Outgoing,       \* what may be sent, as sequences of bytes with their
    Incoming,       \* prefixes, and what may arrive
    MaxEvents,      \* bound on the handlers queued
    MaxTorn         \* bound on the steps torn counts

ASSUME UartAssumption ==
    /\ SIZE \in Nat \ {0, 1}
    /\ Outgoing \subseteq Seq(Byte) /\ Incoming \subseteq Seq(Byte)
    /\ MaxEvents \in Nat /\ MaxTorn \in Nat

VARIABLES
    send_buffer, send_insert_cursor, sended_cursor,
    read_buffer, read_push_cursor, unread_cursor,
    ier,            \* AUX_MU_IER: the interrupts that are enabled
    rx,             \* the byte the receiver holds, as a sequence
    pc, arg,        \* per thread: place in the call, the byte to send
    reg,            \* per thread: AUX_MU_IER as read by |= or &=, as a sequence
    events,         \* the handlers queued by irq_handler, next one first
    handler,        \* the place in the handler that runs, or "none"
    old,            \* AUX_MU_IER as the handler read it, as a sequence
    torn,           \* overlapping changes of AUX_MU_IER so far
    sent, transmitted, arrived, returned    \* histories, the ends of the two queues

tx == <<send_buffer, send_insert_cursor, sended_cursor, sent, transmitted>>
rcv == <<read_buffer, read_push_cursor, unread_cursor, arrived, returned, rx>>
thr == <<pc, arg, reg>>
irq == <<events, handler, old>>
vars == <<tx, rcv, thr, irq, ier, torn>>

-----------------------------------------------------------------------------
Init ==
    /\ send_buffer = [i \in 0 .. (SIZE - 1) |-> 0]
    /\ read_buffer = send_buffer
    /\ send_insert_cursor = 0 /\ sended_cursor = 0
    /\ read_push_cursor = 0 /\ unread_cursor = 0
    /\ ier = {} /\ rx = <<>>
    /\ pc = [t \in Threads |-> "idle"]
    /\ arg = [t \in Threads |-> 0]
    /\ reg = [t \in Threads |-> <<>>]
    /\ events = <<>> /\ handler = "none" /\ old = <<>> /\ torn = 0
    /\ sent = <<>> /\ transmitted = <<>> /\ arrived = <<>> /\ returned = <<>>

Goto(t, p) == pc' = [pc EXCEPT ![t] = p]

\* if (cursor >= UART_BUFFER_SIZE) cursor = 0 after ++
Ring(cursor) == IF cursor + 1 >= SIZE THEN 0 ELSE cursor + 1

\* Mutant: the test for a full ring lets the last slot be used.
Full_last(insert, out) == FALSE

\* One slot stays empty, or a full ring would look like an empty one.
Full(insert, out) == (insert + 1) % SIZE = out

-----------------------------------------------------------------------------
(* AUX_MU_IER |= bit and AUX_MU_IER &= ~bit: a read and a write.  Ier says  *)
(* for each place which bit is set or cleared and where the code goes on.  *)

Ier == [send     |-> [set |-> {},    clear |-> {"w"}, to |-> "full"],
        wait_w   |-> [set |-> {"w"}, clear |-> {},    to |-> "full"],
        start_w  |-> [set |-> {"w"}, clear |-> {},    to |-> "idle"],
        wait_r   |-> [set |-> {"r"}, clear |-> {},    to |-> "empty"],
        on_w     |-> [set |-> {"w"}, clear |-> {},    to |-> "none"],
        off_w    |-> [set |-> {},    clear |-> {"w"}, to |-> "none"],
        on_r     |-> [set |-> {"r"}, clear |-> {},    to |-> "none"],
        off_r    |-> [set |-> {},    clear |-> {"r"}, to |-> "none"]]

Changed(value, place) == (value \ Ier[place].clear) \cup Ier[place].set

\* A handler is under way: queued, running or suspended.
Busy == events # <<>> \/ handler # "none"

Tear(overlap) ==
    /\ torn' = IF overlap THEN torn + 1 ELSE torn
    /\ torn' <= MaxTorn

IerRead(t) ==
    /\ pc[t] \in DOMAIN Ier
    /\ reg[t] = <<>>
    /\ reg' = [reg EXCEPT ![t] = <<ier>>]
    /\ Tear(Busy)
    /\ UNCHANGED <<tx, rcv, pc, arg, irq, ier>>

IerWrite(t) ==
    /\ pc[t] \in DOMAIN Ier
    /\ reg[t] # <<>>
    /\ ier' = Changed(reg[t][1], pc[t])
    /\ reg' = [reg EXCEPT ![t] = <<>>]
    /\ Goto(t, Ier[pc[t]].to)
    /\ Tear(Busy)
    /\ UNCHANGED <<tx, rcv, arg, irq>>

HandlerRead ==
    /\ handler \in DOMAIN Ier
    /\ old = <<>>
    /\ old' = <<ier>>
    /\ UNCHANGED <<tx, rcv, thr, events, handler, ier, torn>>

HandlerWrite ==
    /\ handler \in DOMAIN Ier
    /\ old # <<>>
    /\ ier' = Changed(old[1], handler)
    /\ old' = <<>>
    /\ handler' = Ier[handler].to
    /\ UNCHANGED <<tx, rcv, thr, events, torn>>

-----------------------------------------------------------------------------
(* irq_handler and run_irq_event for the UART.                             *)

\* The transmitter is always ready for a byte, the receiver has one.
Ready(src) == src = "w" \/ rx # <<>>

Irq(src) ==
    /\ src \in ier
    /\ Ready(src)
    /\ Len(events) < MaxEvents
    /\ ier' = ier \ {src}
    /\ events' = Append(events, src)
    /\ Tear(old # <<>>)
    /\ UNCHANGED <<tx, rcv, thr, handler, old>>

\* irq_handler has run a handler before, with interrupts enabled: another one
\* may come after its test of AUX_MU_IIR, or while it changes AUX_MU_IER.
IrqLate(src) ==
    /\ Len(events) < MaxEvents
    /\ \E value \in SUBSET {"w", "r"} : ier' = value \ {src}
    /\ events' = Append(events, src)
    /\ Tear(TRUE)
    /\ UNCHANGED <<tx, rcv, thr, handler, old>>

RunEvent ==
    /\ handler = "none"
    /\ events # <<>>
    /\ handler' = Head(events)
    /\ events' = Tail(events)
    /\ UNCHANGED <<tx, rcv, thr, old, ier, torn>>

-----------------------------------------------------------------------------
(* uart_async_send                                                         *)

Send(t, b) ==
    /\ pc[t] = "idle"
    /\ Append(sent, b) \in Outgoing
    /\ sent' = Append(sent, b)
    /\ arg' = [arg EXCEPT ![t] = b]
    /\ Goto(t, "send")
    /\ UNCHANGED <<send_buffer, send_insert_cursor, sended_cursor, transmitted, rcv, reg, irq, ier, torn>>

\* Mutant: the loop waits with the interrupt masked.
TestFull_masked(t) ==
    /\ pc[t] = "full"
    /\ ~ Full(send_insert_cursor, sended_cursor)
    /\ Goto(t, "put")
    /\ UNCHANGED <<tx, rcv, arg, reg, irq, ier, torn>>

\* The loop condition, outside the critical section.
TestFull(t) ==
    /\ pc[t] = "full"
    /\ Goto(t, IF Full(send_insert_cursor, sended_cursor) THEN "wait_w" ELSE "put")
    /\ UNCHANGED <<tx, rcv, arg, reg, irq, ier, torn>>

Put(t) ==
    /\ pc[t] = "put"
    /\ send_buffer' = [send_buffer EXCEPT ![send_insert_cursor] = arg[t]]
    /\ send_insert_cursor' = Ring(send_insert_cursor)
    /\ Goto(t, "start_w")
    /\ UNCHANGED <<sended_cursor, sent, transmitted, rcv, arg, reg, irq, ier, torn>>

\* With nothing to send the interrupt stays masked; next is the place after a
\* byte was sent.
Transmit(next) ==
    /\ handler = "w"
    /\ IF send_insert_cursor = sended_cursor
       THEN handler' = "off_w" /\ UNCHANGED <<sended_cursor, transmitted>>
       ELSE /\ transmitted' = Append(transmitted, send_buffer[sended_cursor])
            /\ sended_cursor' = Ring(sended_cursor)
            /\ handler' = next
    /\ UNCHANGED <<send_buffer, send_insert_cursor, sent, rcv, thr, events, old, ier, torn>>


\* After a byte the interrupt is enabled again.
uart_interrupt_w_handler == Transmit("on_w")

-----------------------------------------------------------------------------
(* uart_async_read                                                         *)

\* A byte comes over the line; the sender waits while the receiver is full.
Arrive(b) ==
    /\ rx = <<>>
    /\ Append(arrived, b) \in Incoming
    /\ arrived' = Append(arrived, b)
    /\ rx' = <<b>>
    /\ UNCHANGED <<tx, thr, irq, ier, torn, read_buffer, read_push_cursor, unread_cursor, returned>>

Read(t) ==
    /\ pc[t] = "idle"
    /\ Goto(t, "wait_r")
    /\ UNCHANGED <<tx, rcv, arg, reg, irq, ier, torn>>

\* The loop condition, outside the critical section.
TestEmpty(t) ==
    /\ pc[t] = "empty"
    /\ Goto(t, IF read_push_cursor = unread_cursor THEN "wait_r" ELSE "take")
    /\ UNCHANGED <<tx, rcv, arg, reg, irq, ier, torn>>

Take(t) ==
    /\ pc[t] = "take"
    /\ returned' = Append(returned, read_buffer[unread_cursor])
    /\ unread_cursor' = Ring(unread_cursor)
    /\ Goto(t, "idle")
    /\ UNCHANGED <<tx, arg, reg, irq, ier, torn, read_buffer, read_push_cursor, arrived, rx>>

\* The byte is taken and the interrupt enabled again, or the byte is left where
\* it is if the ring is full.  With no byte in the receiver AUX_MU_IO reads as
\* anything.
uart_interrupt_r_handler ==
    /\ handler = "r"
    /\ IF Full(read_push_cursor, unread_cursor)
       THEN handler' = "off_r" /\ UNCHANGED <<read_buffer, read_push_cursor, rx>>
       ELSE /\ \E b \in (IF rx = <<>> THEN Byte ELSE {rx[1]}) :
                   read_buffer' = [read_buffer EXCEPT ![read_push_cursor] = b]
            /\ read_push_cursor' = Ring(read_push_cursor)
            /\ rx' = <<>>
            /\ handler' = "on_r"
    /\ UNCHANGED <<tx, thr, unread_cursor, arrived, returned, events, old, ier, torn>>

-----------------------------------------------------------------------------
Step(t) == IerRead(t) \/ IerWrite(t) \/ TestFull(t) \/ Put(t) \/ TestEmpty(t) \/ Take(t)

\* The handlers go on, and the next one is run.
HandlerStep ==
    \/ RunEvent
    \/ uart_interrupt_w_handler
    \/ uart_interrupt_r_handler
    \/ HandlerRead
    \/ HandlerWrite

Next ==
    \/ \E t \in Threads : Step(t) \/ Read(t) \/ \E b \in Byte : Send(t, b)
    \/ \E b \in Byte : Arrive(b)
    \/ \E src \in {"w", "r"} : Irq(src) \/ IrqLate(src)
    \/ HandlerStep

\* A call goes on, an interrupt that is signalled again and again is taken, and a
\* handler goes on, also after it was suspended.
Spec ==
    /\ Init /\ [][Next]_vars
    /\ \A t \in Threads : WF_vars(Step(t))
    /\ \A src \in {"w", "r"} : SF_vars(Irq(src))
    /\ WF_vars(HandlerStep)

-----------------------------------------------------------------------------
(* Properties.                                                             *)

Tx == INSTANCE Fifo WITH Capacity <- SIZE, in <- sent, out <- transmitted
Rx == INSTANCE Fifo WITH Capacity <- SIZE, in <- arrived, out <- returned


\* Until changes of AUX_MU_IER overlap, every byte uart_async_read returns is
\* the next one that arrived; a full ring leaves it in the receiver and loses
\* nothing.
ReadIsFifo == Rx!Init /\ [][torn = 0 => Rx!Put \/ Rx!Get]_<<arrived, returned>>

\* uart_async_read returns once a byte has arrived, whatever was disabled
\* before because the ring was full, and uart_async_send always returns.
CallsReturn ==
    \A t \in Threads :
        /\ pc[t] \in {"wait_r", "empty"} /\ Len(returned) < Len(arrived) ~> pc[t] = "idle"
        /\ pc[t] = "send" ~> pc[t] = "idle"

=============================================================================
