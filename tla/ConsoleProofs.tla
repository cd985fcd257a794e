--------------------------- MODULE ConsoleProofs ----------------------------
(***************************************************************************)
(* What goes over the UART: its rings, the upload of a kernel and the lines*)
(* typed at the shell.                                                     *)
(***************************************************************************)
EXTENDS UartRing, Loader, Shell, ListLemmas

-----------------------------------------------------------------------------
(***************************************************************************)
(* Both directions of UartRing implement Fifo, for every size of the rings *)
(* and every number of bytes, if one thread uses the UART.                 *)
(***************************************************************************)

\* The user of the UART: the tests of the rings are made outside the critical
\* sections, so a second thread could use what the first has tested.
OneThread == \A t, u \in Threads : t = u

Cursor == 0 .. (SIZE - 1)

\* The bytes between the two cursors of a ring, and the slot of the k-th one.
Used(insert, out) == IF insert >= out THEN insert - out ELSE insert - out + SIZE
Slot(out, k) == IF out + k >= SIZE THEN out + k - SIZE ELSE out + k

\* A ring holds the bytes g + 1 to m of the sequence s.
Holds(buf, insert, out, s, g, m) ==
    /\ m - g = Used(insert, out)
    /\ \A k \in 0 .. (m - g - 1) : buf[Slot(out, k)] = s[g + 1 + k]

-----------------------------------------------------------------------------
(* Lemmas about a ring.                                                    *)

\* The test for a full ring, without the remainder.
LEMMA FullRing ==
    ASSUME NEW insert \in Cursor, NEW out \in Cursor
    PROVE  Full(insert, out) <=> Ring(insert) = out
<1>1. SIZE \in Nat \ {0, 1}
  BY UartAssumption
<1>2. CASE insert + 1 < SIZE
  <2>1. (insert + 1) % SIZE = insert + 1
    BY <1>1, <1>2 DEF Cursor
  <2> QED
    BY <1>1, <1>2, <2>1 DEF Full, Ring, Cursor
<1>3. CASE insert + 1 = SIZE
  <2>1. SIZE % SIZE = 0
    BY <1>1
  <2> QED
    BY <1>1, <1>3, <2>1 DEF Full, Ring, Cursor
<1> QED
  BY <1>1, <1>2, <1>3 DEF Cursor

\* Cursors stay in the ring, and one slot of it is never used.
LEMMA RingBounds ==
    ASSUME NEW insert \in Cursor, NEW out \in Cursor
    PROVE  /\ SIZE \in Nat \ {0, 1}
           /\ Ring(insert) \in Cursor
           /\ Used(insert, out) \in Cursor
           /\ insert # out <=> Used(insert, out) > 0
BY UartAssumption DEF Cursor, Ring, Used

LEMMA EmptyRing ==
    ASSUME NEW buf, NEW s
    PROVE  Holds(buf, 0, 0, s, 0, 0)
<1>1. Used(0, 0) = 0 /\ 0 - 0 = 0 /\ 0 .. (0 - 0 - 1) = {}
  BY DEF Used
<1> QED
  BY <1>1 DEF Holds

\* A byte that is put into a ring with room follows the bytes it holds.
LEMMA RingPut ==
    ASSUME NEW B, NEW buf \in [Cursor -> B], NEW insert \in Cursor, NEW out \in Cursor,
           NEW s, NEW g \in Nat, NEW m \in Nat,
           ~ Full(insert, out), Holds(buf, insert, out, s, g, m)
    PROVE  Holds([buf EXCEPT ![insert] = s[m + 1]], Ring(insert), out, s, g, m + 1)
<1> DEFINE n == m - g
           new == [buf EXCEPT ![insert] = s[m + 1]]
<1>0. /\ SIZE \in Nat \ {0, 1} /\ Used(insert, out) \in Cursor /\ Ring(insert) # out
      /\ n = Used(insert, out)
  BY RingBounds, FullRing DEF Holds
<1>1. /\ SIZE \in Nat \ {0, 1} /\ insert \in Nat /\ out \in Nat /\ insert < SIZE /\ out < SIZE
      /\ n \in Nat /\ n = Used(insert, out) /\ Ring(insert) # out
  BY <1>0 DEF Cursor
<1>2. Used(Ring(insert), out) = n + 1
  BY <1>1 DEF Used, Ring
<1>3. Slot(out, n) = insert
  BY <1>1 DEF Used, Slot
<1>4. \A k \in 0 .. (n - 1) : Slot(out, k) \in Cursor /\ Slot(out, k) # insert
  BY <1>1 DEF Used, Slot, Cursor
<1>5. new[insert] = s[m + 1] /\ \A c \in Cursor : c # insert => new[c] = buf[c]
  OBVIOUS
<1>6. \A k \in 0 .. (n - 1) : new[Slot(out, k)] = s[g + 1 + k]
  BY <1>4, <1>5 DEF Holds
<1>7. new[Slot(out, n)] = s[g + 1 + n] /\ m + 1 - g = n + 1
  BY <1>1, <1>3, <1>5
<1> HIDE DEF n, new
<1>8. \A k \in 0 .. n : new[Slot(out, k)] = s[g + 1 + k]
  BY <1>1, <1>6, <1>7
<1> QED
  BY <1>1, <1>2, <1>7, <1>8 DEF Holds, new

\* The byte that is taken from a ring is the first of those it holds.
LEMMA RingGet ==
    ASSUME NEW buf, NEW insert \in Cursor, NEW out \in Cursor,
           NEW s, NEW g \in Nat, NEW m \in Nat,
           insert # out, Holds(buf, insert, out, s, g, m)
    PROVE  /\ g < m
           /\ buf[out] = s[g + 1]
           /\ Holds(buf, insert, Ring(out), s, g + 1, m)
<1> DEFINE n == m - g
<1>0. /\ SIZE \in Nat \ {0, 1} /\ Used(insert, out) \in Cursor /\ Used(insert, out) > 0
      /\ n = Used(insert, out)
  BY RingBounds DEF Holds
<1>1. /\ SIZE \in Nat \ {0, 1} /\ insert \in Nat /\ out \in Nat /\ insert < SIZE /\ out < SIZE
      /\ n \in Nat /\ n = Used(insert, out) /\ n > 0
  BY <1>0 DEF Cursor
<1>2. \A k \in 0 .. (n - 1) : buf[Slot(out, k)] = s[g + 1 + k]
  BY DEF Holds
<1>3. Slot(out, 0) = out /\ g + 1 + 0 = g + 1 /\ 0 \in 0 .. (n - 1)
  BY <1>1 DEF Slot
<1>4. buf[out] = s[g + 1]
  BY <1>2, <1>3
<1>5. Used(insert, Ring(out)) = n - 1 /\ m - (g + 1) = n - 1
  BY <1>1 DEF Used, Ring
<1>6. \A k \in 0 .. (n - 2) : /\ Slot(Ring(out), k) = Slot(out, k + 1)
                             /\ (g + 1) + 1 + k = g + 1 + (k + 1)
                             /\ k + 1 \in 0 .. (n - 1)
  BY <1>1 DEF Slot, Ring, Used
<1> HIDE DEF n
<1>7. \A k \in 0 .. (n - 2) : buf[Slot(Ring(out), k)] = s[(g + 1) + 1 + k]
  BY <1>2, <1>6
<1>8. g < m
  BY <1>1 DEF n
<1> QED
  BY <1>1, <1>4, <1>5, <1>7, <1>8 DEF Holds

\* A byte that goes in later changes nothing of what a ring holds.
LEMMA RingKept ==
    ASSUME NEW S, NEW s \in Seq(S), NEW b \in S, NEW buf, NEW insert, NEW out,
           NEW g \in Nat, NEW m \in 0 .. Len(s), Holds(buf, insert, out, s, g, m)
    PROVE  Holds(buf, insert, out, Append(s, b), g, m)
<1>1. \A i \in 1 .. Len(s) : Append(s, b)[i] = s[i]
  OBVIOUS
<1>2. \A k \in 0 .. (m - g - 1) : g + 1 + k \in 1 .. Len(s)
  OBVIOUS
<1> QED
  BY <1>1, <1>2 DEF Holds

-----------------------------------------------------------------------------
(* The send direction.                                                     *)

Stored == Byte \cup {0}

\* From the call of uart_async_send to the write into the ring.
Sending == {"send", "full", "wait_w", "put"}

Place == Sending \cup {"idle", "start_w", "wait_r", "empty", "take"}

\* The bytes that are in the ring or were, out of those that were sent.
Entered ==
    IF \E t \in Threads : pc[t] \in Sending THEN Len(sent) - 1 ELSE Len(sent)

SendType ==
    /\ send_buffer \in [Cursor -> Stored]
    /\ send_insert_cursor \in Cursor
    /\ sended_cursor \in Cursor
    /\ sent \in Seq(Byte)
    /\ transmitted \in Seq(Stored)
    /\ pc \in [Threads -> Place]
    /\ arg \in [Threads -> Stored]

\* A call that has not written yet has the byte that was sent last, and when it
\* writes there is room.
CallHasLast ==
    \A t \in Threads :
        /\ pc[t] \in Sending => sent # <<>> /\ arg[t] = sent[Len(sent)]
        /\ pc[t] = "put" => ~ Full(send_insert_cursor, sended_cursor)

\* The inductive invariant of the send direction: the ring holds what was
\* entered and not yet transmitted.
SendInv ==
    /\ SendType
    /\ CallHasLast
    /\ Holds(send_buffer, send_insert_cursor, sended_cursor, sent, Len(transmitted), Entered)

\* Where the changes of AUX_MU_IER lead.
LEMMA IerPlaces ==
    ASSUME NEW p \in DOMAIN Ier, p \in Place
    PROVE  \/ p \in {"send", "wait_w"} /\ Ier[p].to = "full"
           \/ p = "start_w" /\ Ier[p].to = "idle"
           \/ p = "wait_r" /\ Ier[p].to = "empty"
BY DEF Ier, Place, Sending

LEMMA EnteredType ==
    ASSUME SendInv
    PROVE  /\ Entered \in 0 .. Len(sent)
           /\ Len(transmitted) \in Nat
           /\ Entered - Len(transmitted) \in Cursor
<1>1. /\ Len(sent) \in Nat /\ Len(transmitted) \in Nat
      /\ sent # <<>> => Len(sent) > 0
  BY DEF SendInv, SendType
<1>2. Entered \in 0 .. Len(sent)
  BY <1>1 DEF SendInv, CallHasLast, Entered
<1>3. Entered - Len(transmitted) \in Cursor
  BY RingBounds DEF SendInv, SendType, Holds
<1> QED
  BY <1>1, <1>2, <1>3

\* The call begins: the abstract queue takes the byte.
LEMMA SendStep ==
    ASSUME OneThread, SendInv, NEW t \in Threads, NEW b \in Byte, Send(t, b)
    PROVE  SendInv' /\ Tx!Put
<1>1. /\ Len(sent) \in Nat /\ sent' \in Seq(Byte) /\ Len(sent') = Len(sent) + 1
      /\ sent'[Len(sent) + 1] = b /\ sent' # <<>> /\ sent' = Append(sent, b)
  <2>1. sent \in Seq(Byte) /\ sent' = Append(sent, b)
    BY DEF Send, SendInv, SendType
  <2> QED
    BY <2>1
<1>2. Entered = Len(sent)
  BY DEF OneThread, Send, Sending, Entered
<1>3. pc' = [pc EXCEPT ![t] = "send"] /\ pc \in [Threads -> Place]
  BY DEF Send, Goto, SendInv, SendType
<1>4. Entered' = Len(sent)
  BY <1>1, <1>3 DEF Entered, Sending
<1>5. SendType'
  <2>1. arg' \in [Threads -> Stored]
    BY DEF Send, SendInv, SendType, Stored
  <2>2. pc' \in [Threads -> Place]
    BY <1>3 DEF Place, Sending
  <2> QED
    BY <1>1, <2>1, <2>2 DEF Send, SendInv, SendType
<1>6. CallHasLast'
  <2>1. \A u \in Threads : u = t
    BY DEF OneThread
  <2>2. pc'[t] = "send" /\ arg'[t] = b
    BY <1>3 DEF Send, SendInv, SendType
  <2> QED
    BY <1>1, <2>1, <2>2 DEF CallHasLast
<1>7. Holds(send_buffer, send_insert_cursor, sended_cursor, sent', Len(transmitted), Entered')
  BY <1>1, <1>2, <1>4, EnteredType, RingKept DEF SendInv, SendType
<1>8. SendInv'
  BY <1>5, <1>6, <1>7 DEF SendInv, Send
<1>9. Len(sent) - Len(transmitted) < SIZE
  BY <1>1, <1>2, EnteredType, UartAssumption DEF Cursor
<1> QED
  BY <1>1, <1>8, <1>9 DEF Send, Tx!Put

\* The write into the ring.
LEMMA PutStep ==
    ASSUME OneThread, SendInv, NEW t \in Threads, Put(t)
    PROVE  SendInv' /\ UNCHANGED <<sent, transmitted>>
<1>0. \A u \in Threads : u = t
  BY DEF OneThread
<1>1. /\ pc[t] = "put" /\ sent # <<>> /\ arg[t] = sent[Len(sent)]
      /\ ~ Full(send_insert_cursor, sended_cursor)
  BY DEF Put, SendInv, CallHasLast, Sending
<1>2. Len(sent) \in Nat /\ Len(sent) > 0 /\ Entered = Len(sent) - 1
  BY <1>1 DEF SendInv, SendType, Entered, Sending
<1>3. pc' = [pc EXCEPT ![t] = "start_w"] /\ pc \in [Threads -> Place]
  BY DEF Put, Goto, SendInv, SendType
<1>4. pc'[t] = "start_w" /\ Entered' = Len(sent)
  BY <1>0, <1>3 DEF Put, Entered, Sending
<1>5. arg[t] = sent[Entered + 1] /\ Entered + 1 = Len(sent)
  BY <1>1, <1>2
<1>6. Holds([send_buffer EXCEPT ![send_insert_cursor] = sent[Entered + 1]],
            Ring(send_insert_cursor), sended_cursor, sent, Len(transmitted), Entered + 1)
  <2>1. Entered \in Nat /\ Len(transmitted) \in Nat
    BY EnteredType
  <2>2. /\ send_buffer \in [Cursor -> Stored]
        /\ send_insert_cursor \in Cursor /\ sended_cursor \in Cursor
        /\ Holds(send_buffer, send_insert_cursor, sended_cursor, sent, Len(transmitted), Entered)
    BY DEF SendInv, SendType
  <2> QED
    BY <1>1, <2>1, <2>2, RingPut
<1>7. Holds(send_buffer, send_insert_cursor, sended_cursor, sent, Len(transmitted), Entered)'
  BY <1>4, <1>5, <1>6 DEF Put
<1>8. SendType'
  <2>1. Ring(send_insert_cursor) \in Cursor
    BY RingBounds DEF SendInv, SendType
  <2>2. send_buffer' \in [Cursor -> Stored]
    BY DEF Put, SendInv, SendType
  <2>3. pc' \in [Threads -> Place]
    BY <1>3 DEF Place
  <2> QED
    BY <2>1, <2>2, <2>3 DEF Put, SendInv, SendType
<1>9. CallHasLast'
  BY <1>0, <1>4 DEF CallHasLast, Sending
<1> QED
  BY <1>7, <1>8, <1>9 DEF SendInv, Put

\* The handler takes a byte from the ring, the first of the abstract queue, or
\* finds the ring empty.
LEMMA TransmitStep ==
    ASSUME SendInv, uart_interrupt_w_handler
    PROVE  SendInv' /\ (Tx!Get \/ UNCHANGED <<sent, transmitted>>)
<1>1. CASE send_insert_cursor = sended_cursor
  BY <1>1 DEF uart_interrupt_w_handler, Transmit, thr, SendInv, SendType, CallHasLast, Entered
<1>2. CASE send_insert_cursor # sended_cursor
  <2>1. /\ transmitted' = Append(transmitted, send_buffer[sended_cursor])
        /\ sended_cursor' = Ring(sended_cursor)
        /\ UNCHANGED <<send_buffer, send_insert_cursor, sent, pc, arg>>
    BY <1>2 DEF uart_interrupt_w_handler, Transmit, thr
  <2>2. /\ send_insert_cursor \in Cursor /\ sended_cursor \in Cursor
        /\ send_buffer[sended_cursor] \in Stored /\ transmitted \in Seq(Stored)
        /\ Holds(send_buffer, send_insert_cursor, sended_cursor, sent, Len(transmitted), Entered)
    BY DEF SendInv, SendType
  <2>3. /\ Len(transmitted) < Entered
        /\ send_buffer[sended_cursor] = sent[Len(transmitted) + 1]
        /\ Holds(send_buffer, send_insert_cursor, Ring(sended_cursor), sent,
                 Len(transmitted) + 1, Entered)
    <3>1. Entered \in Nat /\ Len(transmitted) \in Nat
      BY EnteredType
    <3> QED
      BY <1>2, <2>2, <3>1, RingGet
  <2>4. transmitted' \in Seq(Stored) /\ Len(transmitted') = Len(transmitted) + 1
    BY <2>1, <2>2
  <2>5. Ring(sended_cursor) \in Cursor
    BY <2>2, RingBounds
  <2>6. Entered' = Entered
    BY <2>1 DEF Entered
  <2>7. ~ Full(send_insert_cursor, Ring(sended_cursor))
    <3>1. Ring(send_insert_cursor) # Ring(sended_cursor)
      BY <1>2, <2>2, UartAssumption DEF Ring, Cursor
    <3> QED
      BY <2>2, <2>5, <3>1, FullRing
  <2>8. SendType'
    BY <2>1, <2>4, <2>5 DEF SendInv, SendType
  <2>9. CallHasLast'
    BY <2>1, <2>7 DEF SendInv, CallHasLast
  <2>10. SendInv'
    BY <2>1, <2>3, <2>4, <2>6, <2>8, <2>9 DEF SendInv
  <2>11. Len(transmitted) < Len(sent)
    BY <2>3, EnteredType DEF SendInv, SendType
  <2> QED
    BY <2>1, <2>3, <2>10, <2>11 DEF Tx!Get
<1> QED
  BY <1>1, <1>2

\* A step of a thread that neither begins a call of uart_async_send nor writes
\* into the ring.
LEMMA SendKept ==
    ASSUME OneThread, SendInv, NEW t \in Threads, NEW p \in Place,
           UNCHANGED <<tx, arg>>, Goto(t, p), p \in Sending <=> pc[t] \in Sending,
           p = "put" => ~ Full(send_insert_cursor, sended_cursor)
    PROVE  SendInv' /\ UNCHANGED <<sent, transmitted>>
<1>1. /\ pc' = [pc EXCEPT ![t] = p] /\ pc \in [Threads -> Place]
      /\ UNCHANGED <<send_buffer, send_insert_cursor, sended_cursor, sent, transmitted, arg>>
  BY DEF Goto, SendInv, SendType, tx
<1>2. /\ \A u \in Threads : u = t
      /\ pc'[t] = p /\ pc' \in [Threads -> Place]
  BY <1>1 DEF OneThread
<1>3. Entered' = Entered
  BY <1>1, <1>2 DEF Entered
<1>4. CallHasLast'
  BY <1>1, <1>2 DEF SendInv, CallHasLast
<1> QED
  BY <1>1, <1>2, <1>3, <1>4 DEF SendInv, SendType

LEMMA SendNext ==
    ASSUME OneThread, SendInv, [Next]_vars
    PROVE  SendInv' /\ [Tx!Put \/ Tx!Get]_<<sent, transmitted>>
<1>1. CASE UNCHANGED <<tx, pc, arg>>
  BY <1>1 DEF tx, SendInv, SendType, CallHasLast, Entered
<1>2. ASSUME NEW t \in Threads, Step(t) \/ Read(t) \/ \E b \in Byte : Send(t, b)
      PROVE  SendInv' /\ [Tx!Put \/ Tx!Get]_<<sent, transmitted>>
  <2>1. CASE \E b \in Byte : Send(t, b)
    BY <2>1, SendStep
  <2>2. CASE Put(t)
    BY <2>2, PutStep
  <2>3. CASE IerRead(t)
    BY <2>3, <1>1 DEF IerRead
  <2>4. CASE IerWrite(t)
    <3>1. /\ Goto(t, Ier[pc[t]].to) /\ pc[t] \in DOMAIN Ier /\ UNCHANGED <<tx, arg>>
          /\ pc[t] \in Place
      BY <2>4 DEF IerWrite, SendInv, SendType
    <3>2. /\ Ier[pc[t]].to \in Place
          /\ Ier[pc[t]].to \in Sending <=> pc[t] \in Sending
          /\ Ier[pc[t]].to # "put"
      BY <3>1, IerPlaces DEF Place, Sending
    <3> QED
      BY <3>1, <3>2, SendKept
  <2>5. CASE TestFull(t)
    <3> DEFINE p == IF Full(send_insert_cursor, sended_cursor) THEN "wait_w" ELSE "put"
    <3>1. /\ Goto(t, p) /\ UNCHANGED <<tx, arg>> /\ pc[t] \in Sending
          /\ p \in Sending /\ p \in Place
          /\ p = "put" => ~ Full(send_insert_cursor, sended_cursor)
      BY <2>5 DEF TestFull, Sending, Place
    <3> QED
      BY <3>1, SendKept
  <2>6. CASE Read(t) \/ TestEmpty(t) \/ Take(t)
    <3>1. PICK p \in {"wait_r", "take", "idle"} : Goto(t, p)
      BY <2>6 DEF Read, TestEmpty, Take
    <3>2. UNCHANGED <<tx, arg>> /\ pc[t] \notin Sending
      BY <2>6 DEF Read, TestEmpty, Take, Sending
    <3>3. p \notin Sending /\ p \in Place /\ p # "put"
      BY <3>1 DEF Sending, Place
    <3> QED
      BY <3>1, <3>2, <3>3, SendKept
  <2> QED
    BY <1>2, <2>1, <2>2, <2>3, <2>4, <2>5, <2>6 DEF Step
<1>3. CASE UNCHANGED vars \/ (\E b \in Byte : Arrive(b)) \/ uart_interrupt_r_handler
  BY <1>1, <1>3 DEF vars, thr, Arrive, uart_interrupt_r_handler
<1>4. CASE \/ \E src \in {"w", "r"} : Irq(src) \/ IrqLate(src)
           \/ RunEvent \/ HandlerRead \/ HandlerWrite
  BY <1>1, <1>4 DEF thr, Irq, IrqLate, RunEvent, HandlerRead, HandlerWrite
<1> QED
  BY <1>2, <1>3, <1>4, TransmitStep DEF Next, HandlerStep

\* uart_async_send and its handler put bytes on the line in the order in which
\* they were sent, each once (the safety part of SendIsFifo): the test for a
\* full ring still holds when the byte is written, wherever interrupts come.
THEOREM SendImplementsFifo ==
    ASSUME OneThread
    PROVE  Spec => Tx!Spec
<1>1. Init => SendInv /\ Tx!Init
  <2> SUFFICES ASSUME Init PROVE SendInv /\ Tx!Init
    OBVIOUS
  <2>1. SendType
    <3>1. send_buffer \in [Cursor -> Stored] /\ arg \in [Threads -> Stored]
      BY DEF Init, Cursor, Stored
    <3>2. pc \in [Threads -> Place]
      BY DEF Init, Place
    <3>3. 0 \in Cursor
      BY UartAssumption DEF Cursor
    <3> QED
      BY <3>1, <3>2, <3>3 DEF Init, SendType
  <2>2. \A t \in Threads : pc[t] = "idle"
    BY DEF Init
  <2>3. CallHasLast /\ Entered = 0
    <3>1. \A t \in Threads : pc[t] \notin Sending /\ pc[t] # "put"
      BY <2>2 DEF Sending
    <3>2. Len(sent) = 0
      BY DEF Init
    <3> QED
      BY <3>1, <3>2 DEF CallHasLast, Entered
  <2>4. Holds(send_buffer, send_insert_cursor, sended_cursor, sent, Len(transmitted), Entered)
    <3>1. send_insert_cursor = 0 /\ sended_cursor = 0 /\ Len(transmitted) = 0
      BY DEF Init
    <3> QED
      BY <2>3, <3>1, EmptyRing
  <2> QED
    BY <2>1, <2>3, <2>4 DEF SendInv, Init, Tx!Init
<1>2. SendInv /\ [Next]_vars => SendInv' /\ [Tx!Put \/ Tx!Get]_<<sent, transmitted>>
  BY SendNext
<1> QED
  BY <1>1, <1>2, PTL DEF Spec, Tx!Spec

-----------------------------------------------------------------------------
(* The receive direction.                                                  *)

\* The bytes that are in the ring or were, out of those that arrived.
Pushed == IF rx = <<>> THEN Len(arrived) ELSE Len(arrived) - 1

ReadType ==
    /\ read_buffer \in [Cursor -> Stored]
    /\ read_push_cursor \in Cursor
    /\ unread_cursor \in Cursor
    /\ arrived \in Seq(Byte)
    /\ returned \in Seq(Stored)
    /\ pc \in [Threads -> Place]

\* The receiver holds the byte that arrived last.
ReceiverHasLast == rx # <<>> => arrived # <<>> /\ rx[1] = arrived[Len(arrived)]

\* A call that takes a byte finds one.
TakeFinds == \A t \in Threads : pc[t] = "take" => read_push_cursor # unread_cursor

\* The inductive invariant of the receive direction: the ring holds what was
\* pushed and not yet returned.
ReadInv ==
    /\ ReadType
    /\ ReceiverHasLast
    /\ TakeFinds
    /\ Holds(read_buffer, read_push_cursor, unread_cursor, arrived, Len(returned), Pushed)

LEMMA PushedType ==
    ASSUME ReadInv
    PROVE  /\ Pushed \in 0 .. Len(arrived)
           /\ Len(returned) \in Nat
           /\ Pushed - Len(returned) \in Cursor
<1>1. /\ Len(arrived) \in Nat /\ Len(returned) \in Nat
      /\ arrived # <<>> => Len(arrived) > 0
  BY DEF ReadInv, ReadType
<1>2. Pushed \in 0 .. Len(arrived)
  BY <1>1 DEF ReadInv, ReceiverHasLast, Pushed
<1>3. Pushed - Len(returned) \in Cursor
  BY RingBounds DEF ReadInv, ReadType, Holds
<1> QED
  BY <1>1, <1>2, <1>3

\* A byte arrives: the abstract queue takes it.
LEMMA ArriveStep ==
    ASSUME ReadInv, NEW b \in Byte, Arrive(b)
    PROVE  ReadInv' /\ Rx!Put
<1>1. /\ arrived \in Seq(Byte) /\ arrived' = Append(arrived, b) /\ rx' = <<b>> /\ rx = <<>>
      /\ UNCHANGED <<read_buffer, read_push_cursor, unread_cursor, returned, pc>>
  BY DEF Arrive, thr, ReadInv, ReadType
<1>2. /\ Len(arrived) \in Nat /\ arrived' \in Seq(Byte) /\ Len(arrived') = Len(arrived) + 1
      /\ arrived'[Len(arrived) + 1] = b /\ arrived' # <<>>
  BY <1>1
<1>3. Pushed = Len(arrived) /\ Pushed' = Len(arrived)
  BY <1>1, <1>2 DEF Pushed
<1>4. ReceiverHasLast'
  BY <1>1, <1>2 DEF ReceiverHasLast
<1>5. Holds(read_buffer, read_push_cursor, unread_cursor, arrived', Len(returned), Pushed')
  BY <1>1, <1>3, PushedType, RingKept DEF ReadInv
<1>6. ReadInv'
  BY <1>1, <1>2, <1>4, <1>5 DEF ReadInv, ReadType, TakeFinds
<1>7. Len(arrived) - Len(returned) < SIZE
  BY <1>2, <1>3, PushedType, UartAssumption DEF Cursor
<1> QED
  BY <1>1, <1>6, <1>7 DEF Rx!Put

\* The handler moves the byte to the ring, or finds no room and leaves it.
LEMMA PushStep ==
    ASSUME rx # <<>>, ReadInv, uart_interrupt_r_handler
    PROVE  ReadInv' /\ UNCHANGED <<arrived, returned>>
<1>1. CASE Full(read_push_cursor, unread_cursor)
  BY <1>1 DEF uart_interrupt_r_handler, thr, ReadInv, ReadType, ReceiverHasLast, TakeFinds, Pushed
<1>2. CASE ~ Full(read_push_cursor, unread_cursor)
  <2>1. /\ rx # <<>> /\ rx' = <<>>
        /\ read_buffer' = [read_buffer EXCEPT ![read_push_cursor] = rx[1]]
        /\ read_push_cursor' = Ring(read_push_cursor)
        /\ UNCHANGED <<unread_cursor, arrived, returned, pc>>
    BY <1>2 DEF uart_interrupt_r_handler, thr
  <2>2. /\ read_buffer \in [Cursor -> Stored]
        /\ read_push_cursor \in Cursor /\ unread_cursor \in Cursor
        /\ Holds(read_buffer, read_push_cursor, unread_cursor, arrived, Len(returned), Pushed)
    BY DEF ReadInv, ReadType
  <2>3. /\ Len(arrived) \in Nat /\ Len(arrived) > 0 /\ Pushed \in Nat /\ Len(returned) \in Nat
        /\ Pushed + 1 = Len(arrived) /\ Pushed' = Len(arrived)
    <3>1. arrived \in Seq(Byte) /\ arrived # <<>>
      BY <2>1 DEF ReadInv, ReadType, ReceiverHasLast
    <3>2. Len(arrived) \in Nat /\ Len(arrived) > 0
      BY <3>1
    <3> QED
      BY <2>1, <3>2, PushedType DEF Pushed
  <2>4. arrived[Pushed + 1] = rx[1] /\ rx[1] \in Stored
    <3>1. rx[1] = arrived[Len(arrived)] /\ arrived \in Seq(Byte)
      BY <2>1 DEF ReadInv, ReadType, ReceiverHasLast
    <3> QED
      BY <3>1, <2>3 DEF Stored
  <2>5. Holds([read_buffer EXCEPT ![read_push_cursor] = arrived[Pushed + 1]],
              Ring(read_push_cursor), unread_cursor, arrived, Len(returned), Pushed + 1)
    BY <1>2, <2>2, <2>3, RingPut
  <2>6. Ring(read_push_cursor) \in Cursor /\ Ring(read_push_cursor) # unread_cursor
    BY <1>2, <2>2, RingBounds, FullRing
  <2>7. read_buffer' \in [Cursor -> Stored]
    BY <2>1, <2>2, <2>4
  <2>8. ReadType'
    BY <2>1, <2>6, <2>7 DEF ReadInv, ReadType
  <2>9. TakeFinds' /\ ReceiverHasLast'
    BY <2>1, <2>6 DEF TakeFinds, ReceiverHasLast
  <2>10. Holds(read_buffer, read_push_cursor, unread_cursor, arrived, Len(returned), Pushed)'
    BY <2>1, <2>3, <2>4, <2>5
  <2> QED
    BY <2>1, <2>8, <2>9, <2>10 DEF ReadInv
<1> QED
  BY <1>1, <1>2

\* uart_async_read takes the byte: the first of the abstract queue.
LEMMA TakeStep ==
    ASSUME OneThread, ReadInv, NEW t \in Threads, Take(t)
    PROVE  ReadInv' /\ Rx!Get
<1>1. /\ read_push_cursor # unread_cursor
      /\ returned' = Append(returned, read_buffer[unread_cursor])
      /\ unread_cursor' = Ring(unread_cursor)
      /\ pc' = [pc EXCEPT ![t] = "idle"] /\ pc \in [Threads -> Place]
      /\ UNCHANGED <<read_buffer, read_push_cursor, arrived, rx>>
  BY DEF Take, Goto, ReadInv, ReadType, TakeFinds
<1>2. /\ read_push_cursor \in Cursor /\ unread_cursor \in Cursor
      /\ read_buffer[unread_cursor] \in Stored /\ returned \in Seq(Stored)
      /\ Holds(read_buffer, read_push_cursor, unread_cursor, arrived, Len(returned), Pushed)
  BY DEF ReadInv, ReadType
<1>3. /\ Len(returned) < Pushed
      /\ read_buffer[unread_cursor] = arrived[Len(returned) + 1]
      /\ Holds(read_buffer, read_push_cursor, Ring(unread_cursor), arrived,
               Len(returned) + 1, Pushed)
  <2>1. Pushed \in Nat /\ Len(returned) \in Nat
    BY PushedType
  <2> QED
    BY <1>1, <1>2, <2>1, RingGet
<1>4. returned' \in Seq(Stored) /\ Len(returned') = Len(returned) + 1
  BY <1>1, <1>2
<1>5. Ring(unread_cursor) \in Cursor
  BY <1>2, RingBounds
<1>6. Pushed' = Pushed
  BY <1>1 DEF Pushed
<1>7. pc' \in [Threads -> Place] /\ TakeFinds'
  <2>1. "idle" \in Place
    BY DEF Place
  <2>2. pc' \in [Threads -> Place] /\ pc'[t] = "idle"
    BY <1>1, <2>1
  <2>3. \A u \in Threads : u = t
    BY DEF OneThread
  <2> QED
    BY <2>2, <2>3 DEF TakeFinds
<1>8. ReadType'
  BY <1>1, <1>4, <1>5, <1>7 DEF ReadInv, ReadType
<1>9. ReceiverHasLast'
  BY <1>1 DEF ReadInv, ReceiverHasLast
<1>10. ReadInv'
  BY <1>1, <1>3, <1>4, <1>6, <1>7, <1>8, <1>9 DEF ReadInv
<1>11. Len(returned) < Len(arrived)
  BY <1>3, PushedType DEF ReadInv, ReadType
<1> QED
  BY <1>1, <1>3, <1>10, <1>11 DEF Rx!Get

\* A step of a thread that takes no byte.
LEMMA ReadKept ==
    ASSUME ReadInv, NEW t \in Threads, NEW p \in Place, UNCHANGED rcv, Goto(t, p),
           p = "take" => read_push_cursor # unread_cursor
    PROVE  ReadInv' /\ UNCHANGED <<arrived, returned>>
<1>1. /\ pc' = [pc EXCEPT ![t] = p] /\ pc \in [Threads -> Place]
      /\ UNCHANGED <<read_buffer, read_push_cursor, unread_cursor, arrived, returned, rx>>
  BY DEF Goto, ReadInv, ReadType, rcv
<1>2. /\ pc' \in [Threads -> Place]
      /\ \A u \in Threads : pc'[u] = p \/ pc'[u] = pc[u]
  BY <1>1
<1>3. TakeFinds'
  BY <1>1, <1>2 DEF ReadInv, TakeFinds
<1> QED
  BY <1>1, <1>2, <1>3 DEF ReadInv, ReadType, ReceiverHasLast, Pushed

LEMMA ReadNext ==
    ASSUME OneThread, handler = "r" => rx # <<>>, ReadInv, [Next]_vars
    PROVE  ReadInv' /\ [Rx!Put \/ Rx!Get]_<<arrived, returned>>
<1>1. CASE UNCHANGED <<rcv, pc>>
  BY <1>1 DEF rcv, ReadInv, ReadType, ReceiverHasLast, TakeFinds, Pushed
<1>2. ASSUME NEW t \in Threads, Step(t) \/ Read(t) \/ \E b \in Byte : Send(t, b)
      PROVE  ReadInv' /\ [Rx!Put \/ Rx!Get]_<<arrived, returned>>
  <2>1. CASE Take(t)
    BY <2>1, TakeStep
  <2>2. CASE IerRead(t)
    BY <2>2, <1>1 DEF IerRead
  <2>3. CASE IerWrite(t)
    <3>1. /\ Goto(t, Ier[pc[t]].to) /\ pc[t] \in DOMAIN Ier /\ UNCHANGED rcv
          /\ pc[t] \in Place
      BY <2>3 DEF IerWrite, ReadInv, ReadType
    <3>2. Ier[pc[t]].to \in Place /\ Ier[pc[t]].to # "take"
      BY <3>1, IerPlaces DEF Place, Sending
    <3> QED
      BY <3>1, <3>2, ReadKept
  <2>4. CASE TestEmpty(t)
    <3> DEFINE p == IF read_push_cursor = unread_cursor THEN "wait_r" ELSE "take"
    <3>1. Goto(t, p) /\ UNCHANGED rcv /\ p \in Place /\ (p = "take" => read_push_cursor # unread_cursor)
      BY <2>4 DEF TestEmpty, Place
    <3> QED
      BY <3>1, ReadKept
  <2>5. CASE Read(t) \/ TestFull(t) \/ Put(t) \/ \E b \in Byte : Send(t, b)
    <3>1. PICK p \in {"wait_r", "wait_w", "put", "start_w", "send"} : Goto(t, p)
      BY <2>5 DEF Read, TestFull, Put, Send
    <3>2. UNCHANGED rcv
      BY <2>5 DEF Read, TestFull, Put, Send
    <3>3. p \in Place /\ p # "take"
      BY <3>1 DEF Sending, Place
    <3> QED
      BY <3>1, <3>2, <3>3, ReadKept
  <2> QED
    BY <1>2, <2>1, <2>2, <2>3, <2>4, <2>5 DEF Step
<1>3. CASE UNCHANGED vars \/ uart_interrupt_w_handler
  BY <1>1, <1>3 DEF vars, thr, uart_interrupt_w_handler, Transmit
<1>4. CASE \/ \E src \in {"w", "r"} : Irq(src) \/ IrqLate(src)
           \/ RunEvent \/ HandlerRead \/ HandlerWrite
  BY <1>1, <1>4 DEF thr, Irq, IrqLate, RunEvent, HandlerRead, HandlerWrite
<1>5. CASE uart_interrupt_r_handler
  <2>1. handler = "r"
    BY <1>5 DEF uart_interrupt_r_handler
  <2> QED
    BY <1>5, <2>1, PushStep
<1> QED
  BY <1>2, <1>3, <1>4, <1>5, ArriveStep DEF Next, HandlerStep

-----------------------------------------------------------------------------
(* The handler that receives runs with a byte there.                       *)

Receiving == {"r", "on_r", "off_r"}

HandlerType ==
    /\ events \in Seq({"w", "r"})
    /\ handler \in Receiving \cup {"none", "w", "on_w", "off_w"}
    /\ old # <<>> => handler \in {"on_w", "off_w", "on_r", "off_r"}

\* Until changes of AUX_MU_IER overlap: the receive handler is queued once at
\* most, for a byte that is still there, and its interrupt is masked until it
\* is done; what a handler has read of AUX_MU_IER is what is there.
ReceiveOnce ==
    /\ \A i \in 1 .. Len(events) : events[i] = "r" =>
          /\ rx # <<>> /\ handler \notin Receiving /\ "r" \notin ier
          /\ \A j \in 1 .. Len(events) : events[j] = "r" => i = j
    /\ handler = "r" => rx # <<>>
    /\ handler \in Receiving => "r" \notin ier
    /\ old # <<>> => old[1] = ier

\* A step of a thread, or of the line.
LEMMA OthersStep ==
    ASSUME HandlerType, ReceiveOnce, UNCHANGED <<events, handler, old>>,
           rx' # <<>> \/ rx' = rx, ier' = ier \/ ~ Busy
    PROVE  HandlerType' /\ ReceiveOnce'
<1>1. HandlerType'
  BY DEF HandlerType
<1>2. CASE ier' = ier
  BY <1>1, <1>2 DEF ReceiveOnce
<1>3. CASE ~ Busy
  <2>1. events = <<>> /\ handler = "none" /\ old = <<>> /\ Len(events) = 0
    BY <1>3 DEF Busy, HandlerType
  <2> QED
    BY <1>1, <2>1 DEF ReceiveOnce, Receiving
<1> QED
  BY <1>2, <1>3

\* An interrupt: its source was enabled, so no handler for it is under way.
LEMMA IrqStep ==
    ASSUME HandlerType, ReceiveOnce, NEW src \in {"w", "r"}, Irq(src), old = <<>>
    PROVE  HandlerType' /\ ReceiveOnce'
<1>1. /\ events' = Append(events, src) /\ ier' = ier \ {src} /\ src \in ier
      /\ src = "r" => rx # <<>>
      /\ UNCHANGED <<rx, handler, old>>
  BY DEF Irq, Ready, rcv
<1>2. /\ events \in Seq({"w", "r"}) /\ events' \in Seq({"w", "r"})
      /\ Len(events') = Len(events) + 1 /\ Len(events) \in Nat
      /\ events'[Len(events) + 1] = src
      /\ \A i \in 1 .. Len(events) : events'[i] = events[i]
  BY <1>1 DEF HandlerType
<1>3. HandlerType'
  BY <1>1, <1>2 DEF HandlerType
<1>4. CASE src = "w"
  <2>1. \A i \in 1 .. Len(events') : events'[i] = "r" => i \in 1 .. Len(events) /\ events[i] = "r"
    BY <1>2, <1>4
  <2> QED
    BY <1>1, <1>2, <1>3, <1>4, <2>1 DEF ReceiveOnce
<1>5. CASE src = "r"
  <2>1. handler \notin Receiving /\ \A i \in 1 .. Len(events) : events[i] # "r"
    BY <1>1, <1>5 DEF ReceiveOnce
  <2>2. \A i \in 1 .. Len(events') : events'[i] = "r" => i = Len(events) + 1
    BY <1>2, <2>1
  <2> QED
    BY <1>1, <1>2, <1>3, <1>5, <2>1, <2>2 DEF ReceiveOnce, Receiving
<1> QED
  BY <1>4, <1>5

\* The next handler is taken from the queue.
LEMMA RunStepUart ==
    ASSUME HandlerType, ReceiveOnce, RunEvent
    PROVE  HandlerType' /\ ReceiveOnce'
<1>1. /\ events # <<>> /\ handler' = events[1] /\ events' = Tail(events)
      /\ UNCHANGED <<rx, ier, old>> /\ old = <<>>
  BY DEF RunEvent, rcv, HandlerType
<1>2. /\ events' \in Seq({"w", "r"}) /\ Len(events) \in Nat \ {0}
      /\ Len(events') = Len(events) - 1 /\ events[1] \in {"w", "r"}
      /\ \A i \in 1 .. Len(events') : events'[i] = events[i + 1] /\ i + 1 \in 1 .. Len(events)
                                       /\ i + 1 # 1
  BY <1>1 DEF HandlerType
<1>3. 1 \in 1 .. Len(events)
  BY <1>2
<1>4. HandlerType'
  BY <1>1, <1>2 DEF HandlerType, Receiving
<1>5. handler' = "r" => rx # <<>> /\ "r" \notin ier /\ \A i \in 1 .. Len(events') : events'[i] # "r"
  BY <1>1, <1>2, <1>3 DEF ReceiveOnce
<1>6. handler' \in Receiving => handler' = "r"
  BY <1>1, <1>2 DEF Receiving
<1>7. ASSUME NEW i \in 1 .. Len(events'), events'[i] = "r"
      PROVE  /\ rx # <<>> /\ handler' \notin Receiving /\ "r" \notin ier
             /\ \A j \in 1 .. Len(events') : events'[j] = "r" => i = j
  <2>1. events[i + 1] = "r" /\ i + 1 \in 1 .. Len(events)
    BY <1>2, <1>7
  <2>2. rx # <<>> /\ "r" \notin ier
    BY <2>1 DEF ReceiveOnce
  <2>3. handler' \notin Receiving
    BY <1>5, <1>6, <1>7
  <2>4. ASSUME NEW j \in 1 .. Len(events'), events'[j] = "r" PROVE i = j
    <3>1. events[j + 1] = "r" /\ j + 1 \in 1 .. Len(events)
      BY <1>2, <2>4
    <3>2. i + 1 = j + 1
      BY <2>1, <3>1 DEF ReceiveOnce
    <3> QED
      BY <1>2, <3>2
  <2> QED
    BY <2>2, <2>3, <2>4
<1>8. ReceiveOnce'
  BY <1>1, <1>5, <1>6, <1>7 DEF ReceiveOnce
<1> QED
  BY <1>4, <1>8

\* The handlers, and their changes of AUX_MU_IER.
LEMMA HandlerStepUart ==
    ASSUME HandlerType, ReceiveOnce,
           uart_interrupt_w_handler \/ uart_interrupt_r_handler \/ HandlerRead \/ HandlerWrite
    PROVE  HandlerType' /\ ReceiveOnce'
<1>1. CASE uart_interrupt_w_handler
  <2>1. /\ handler = "w" /\ handler' \in {"on_w", "off_w"}
        /\ UNCHANGED <<rx, events, old, ier>>
    BY <1>1 DEF uart_interrupt_w_handler, Transmit, rcv
  <2> QED
    BY <2>1 DEF HandlerType, ReceiveOnce, Receiving
<1>2. CASE uart_interrupt_r_handler
  <2>1. /\ handler = "r" /\ handler' \in {"on_r", "off_r"}
        /\ UNCHANGED <<events, old, ier>>
    BY <1>2 DEF uart_interrupt_r_handler
  <2>2. \A i \in 1 .. Len(events) : events[i] # "r"
    BY <2>1 DEF ReceiveOnce, Receiving
  <2> QED
    BY <2>1, <2>2 DEF HandlerType, ReceiveOnce, Receiving
<1>3. CASE HandlerRead
  <2>1. /\ handler \in DOMAIN Ier /\ old' = <<ier>>
        /\ UNCHANGED <<rx, events, handler, ier>>
    BY <1>3 DEF HandlerRead, rcv
  <2>2. handler \in {"on_w", "off_w", "on_r", "off_r"}
    BY <2>1 DEF Ier, HandlerType, Receiving
  <2>3. old'[1] = ier
    BY <2>1
  <2> QED
    BY <2>1, <2>2, <2>3 DEF HandlerType, ReceiveOnce
<1>4. CASE HandlerWrite
  <2>1. /\ handler \in {"on_w", "off_w", "on_r", "off_r"} /\ old[1] = ier
        /\ ier' = Changed(ier, handler) /\ handler' = Ier[handler].to /\ old' = <<>>
        /\ UNCHANGED <<rx, events>>
    BY <1>4 DEF HandlerWrite, rcv, HandlerType, ReceiveOnce
  <2>2. handler' = "none" /\ (handler \notin Receiving => ("r" \in ier' => "r" \in ier))
    BY <2>1 DEF Ier, Changed, Receiving
  <2>3. handler \in Receiving => \A i \in 1 .. Len(events) : events[i] # "r"
    BY DEF ReceiveOnce
  <2> QED
    BY <2>1, <2>2, <2>3 DEF HandlerType, ReceiveOnce, Receiving
<1> QED
  BY <1>1, <1>2, <1>3, <1>4

\* No step makes the receive handler run in vain, unless it is one that torn
\* counts.
LEMMA ReceiveNext ==
    ASSUME HandlerType, ReceiveOnce, torn = 0, torn' = 0, [Next]_vars
    PROVE  HandlerType' /\ ReceiveOnce'
<1>1. CASE UNCHANGED vars
  BY <1>1, OthersStep DEF vars, irq, rcv
<1>2. ASSUME NEW t \in Threads, Step(t) \/ Read(t) \/ \E b \in Byte : Send(t, b)
      PROVE  HandlerType' /\ ReceiveOnce'
  <2>1. UNCHANGED <<events, handler, old, rx>>
    BY <1>2 DEF Step, IerRead, IerWrite, TestFull, Put, TestEmpty, Take, Read, Send, irq, rcv
  <2>2. ier' = ier \/ ~ Busy
    BY <1>2 DEF Step, IerRead, IerWrite, TestFull, Put, TestEmpty, Take, Read, Send, Tear
  <2> QED
    BY <2>1, <2>2, OthersStep
<1>3. ASSUME NEW b \in Byte, Arrive(b)
      PROVE  HandlerType' /\ ReceiveOnce'
  <2>1. UNCHANGED <<events, handler, old>> /\ rx' # <<>> /\ ier' = ier
    BY <1>3 DEF Arrive, irq
  <2> QED
    BY <2>1, OthersStep
<1>4. ASSUME NEW src \in {"w", "r"}, Irq(src) \/ IrqLate(src)
      PROVE  HandlerType' /\ ReceiveOnce'
  <2>1. Irq(src) /\ old = <<>>
    BY <1>4 DEF Irq, IrqLate, Tear
  <2> QED
    BY <2>1, IrqStep
<1> QED
  BY <1>1, <1>2, <1>3, <1>4, RunStepUart, HandlerStepUart DEF Next, HandlerStep

\* torn never falls back to 0.
LEMMA TornGrows ==
    ASSUME torn \in Nat, [Next]_vars
    PROVE  torn' \in Nat /\ (torn' = 0 => torn = 0)
<1>1. CASE UNCHANGED torn
  BY <1>1
<1>2. CASE \E overlap \in BOOLEAN : Tear(overlap)
  BY <1>2 DEF Tear
<1>3. Busy \in BOOLEAN /\ (old # <<>>) \in BOOLEAN /\ TRUE \in BOOLEAN
  BY DEF Busy
<1> QED
  BY <1>1, <1>2, <1>3
     DEF Next, vars, Step, IerRead, IerWrite, TestFull, Put, TestEmpty, Take, Read, Send, Arrive,
         Irq, IrqLate, HandlerStep, RunEvent, uart_interrupt_w_handler, Transmit,
         uart_interrupt_r_handler, HandlerRead, HandlerWrite

\* What holds until changes of AUX_MU_IER overlap.
ReceiveInv == torn \in Nat /\ (torn = 0 => ReadInv /\ HandlerType /\ ReceiveOnce)

\* uart_async_read returns the bytes in the order in which they arrived, each
\* once, until changes of AUX_MU_IER overlap (ReadIsFifo): a full ring leaves the
\* next byte in the receiver, the test for an empty one still holds when the
\* byte is taken, and the receive handler, though other interrupts come while
\* it is queued and while it runs, is never run twice for a byte.
THEOREM ReadImplementsFifo ==
    ASSUME OneThread
    PROVE  Spec => ReadIsFifo
<1>1. Init => ReceiveInv /\ Rx!Init
  <2> SUFFICES ASSUME Init PROVE ReceiveInv /\ Rx!Init
    OBVIOUS
  <2>1. ReadType
    <3>1. read_buffer \in [Cursor -> Stored]
      BY DEF Init, Cursor, Stored
    <3>2. pc \in [Threads -> Place]
      BY DEF Init, Place
    <3>3. 0 \in Cursor
      BY UartAssumption DEF Cursor
    <3> QED
      BY <3>1, <3>2, <3>3 DEF Init, ReadType
  <2>2. ReceiverHasLast /\ TakeFinds /\ Pushed = 0
    BY DEF ReceiverHasLast, TakeFinds, Pushed, Init
  <2>3. Holds(read_buffer, read_push_cursor, unread_cursor, arrived, Len(returned), Pushed)
    <3>1. read_push_cursor = 0 /\ unread_cursor = 0 /\ Len(returned) = 0
      BY DEF Init
    <3> QED
      BY <2>2, <3>1, EmptyRing
  <2>4. HandlerType /\ ReceiveOnce /\ torn = 0
    BY DEF Init, HandlerType, ReceiveOnce, Receiving
  <2> QED
    BY <2>1, <2>2, <2>3, <2>4 DEF ReceiveInv, ReadInv, Init, Rx!Init
<1>2. ReceiveInv /\ [Next]_vars =>
        ReceiveInv' /\ [torn = 0 => Rx!Put \/ Rx!Get]_<<arrived, returned>>
  <2> SUFFICES ASSUME ReceiveInv, [Next]_vars
               PROVE  ReceiveInv' /\ [torn = 0 => Rx!Put \/ Rx!Get]_<<arrived, returned>>
    OBVIOUS
  <2>1. torn' \in Nat /\ (torn' = 0 => torn = 0)
    BY TornGrows DEF ReceiveInv
  <2>2. CASE torn # 0
    BY <2>1, <2>2 DEF ReceiveInv
  <2>3. CASE torn = 0
    <3>1. ReadInv /\ HandlerType /\ ReceiveOnce
      BY <2>3 DEF ReceiveInv
    <3>2. ReadInv' /\ [Rx!Put \/ Rx!Get]_<<arrived, returned>>
      BY <3>1, ReadNext DEF ReceiveOnce
    <3>3. torn' = 0 => HandlerType' /\ ReceiveOnce'
      BY <2>3, <3>1, ReceiveNext
    <3> QED
      BY <2>1, <3>2, <3>3 DEF ReceiveInv
  <2> QED
    BY <2>2, <2>3
<1> QED
  BY <1>1, <1>2, PTL DEF Spec, ReadIsFifo

-----------------------------------------------------------------------------
(***************************************************************************)
(* The boot loader boots the image the host sent or nothing, for every     *)
(* header, image and base of the bytes, if a damaged byte shows.           *)
(***************************************************************************)

(* The inductive invariant.                                                *)

\* What is damaged can be told from the header, and the line is good once the
\* loader has seen the header.
FaultsShow ==
    /\ FaultIn \subseteq {"header"}
    /\ \A i \in DOMAIN Header : Header[i] \notin Garbage

SizeByte(m, i) == (Len(m) \div Base ^ (SizeBytes - i)) % Base

LoaderType ==
    /\ image \in Images
    /\ host \in {"header", "size", "image", "done", "error"} /\ pos \in Nat /\ waiting \in BOOLEAN
    /\ line \in Seq(ByteValue) /\ echo \in Seq(ByteValue)
    /\ count \in Nat /\ img_size \in Nat /\ kernel \in Seq(ByteValue)

\* One byte is under way at most.  Once its first byte is confirmed the host
\* and the loader are in step, unless a byte is lost or damaged: the host will
\* see that.
InHeader ==
    /\ count < Len(Header) /\ pos < Len(Header) /\ host \in {"header", "error"}
    /\ img_size = 0 /\ kernel = <<>>
    /\ ~ waiting => line = <<>> /\ echo = <<>>
    /\ host = "error" => ~ waiting
    /\ line = <<>> \/ (echo = <<>> /\ \E b \in Garbage \cup {Header[pos + 1]} : line = <<b>>)
    /\ echo = <<>> \/ \E b \in Garbage \cup {Header[pos + 1]} : echo = <<b>>
    /\ echo = <<Header[pos + 1]>> => count = pos + 1
    /\ host = "header" /\ pos > 0 /\ (line # <<>> \/ ~ waiting) => count = pos

\* The last byte of the header is being confirmed; the size is not yet sent;
\* or the rest of it is under way, perhaps with the first byte of the image.
InSize ==
    /\ count < SizeBytes /\ kernel = <<>>
    /\ \/ /\ host = "header" /\ pos = Len(Header) - 1 /\ waiting
          /\ echo = <<Header[Len(Header)]>> /\ line = <<>>
          /\ count = 0 /\ img_size = 0
       \/ /\ host = "size" /\ pos = 0 /\ ~ waiting
          /\ echo = <<>> /\ line = <<>>
          /\ count = 0 /\ img_size = 0
       \/ /\ host = (IF image = <<>> THEN "done" ELSE "image") /\ pos = 0
          /\ echo = <<>>
          /\ \A k \in 1 .. (SizeBytes - count) : line[k] = SizeByte(image, count + k)
          /\ ~ waiting => Len(line) = SizeBytes - count
          /\ waiting => /\ image # <<>>
                        /\ Len(line) = SizeBytes - count + 1 /\ line[SizeBytes - count + 1] = image[1]
          /\ img_size = Len(image) \div Base ^ (SizeBytes - count)

\* A byte of the image is at the host, or under way in one of the directions.
InImage ==
    /\ host = "image" /\ img_size = Len(image) /\ count < Len(image)
    /\ Len(kernel) = count /\ \A k \in 1 .. count : kernel[k] = image[k]
    /\ \/ waiting /\ line = <<image[count + 1]>> /\ echo = <<>> /\ pos = count
       \/ waiting /\ line = <<>> /\ echo = <<image[pos + 1]>> /\ count = pos + 1
       \/ ~ waiting /\ line = <<>> /\ echo = <<>> /\ pos = count

LoaderInv ==
    /\ phase \in {"header", "size", "image", "run"}
    /\ phase # "run" => LoaderType
    /\ phase = "header" => InHeader
    /\ phase = "size" => InSize
    /\ phase = "image" => InImage
    /\ BootsImage

-----------------------------------------------------------------------------
(* The size: its bytes, most significant first, add up to it.              *)

LEMMA QuotientUnique ==
    ASSUME NEW n \in Nat, NEW m \in Nat \ {0}, NEW q \in Nat, NEW r \in Nat,
           n = q * m + r, r < m
    PROVE  n \div m = q
<1> DEFINE a == n \div m
           b == n % m
<1>1. a \in Nat /\ b \in Nat /\ b < m /\ n = a * m + b
  OBVIOUS
<1> HIDE DEF a, b
<1>2. ASSUME a < q PROVE FALSE
  <2>1. (a + 1) * m <= q * m
    BY <1>1, <1>2
  <2>2. (a + 1) * m = a * m + m
    BY <1>1
  <2> QED
    BY <1>1, <2>1, <2>2
<1>3. ASSUME q < a PROVE FALSE
  <2>1. (q + 1) * m <= a * m
    BY <1>1, <1>3
  <2>2. (q + 1) * m = q * m + m
    BY <1>1
  <2> QED
    BY <1>1, <2>1, <2>2
<1> QED
  BY <1>1, <1>2, <1>3 DEF a

LEMMA NextByte ==
    ASSUME NEW n \in Nat, NEW base \in Nat \ {0}, NEW m \in Nat \ {0}
    PROVE  (n \div (base * m)) * base + ((n \div m) % base) = n \div m
<1> DEFINE q == n \div m
           r == n % m
           s == q \div base
           t == q % base
<1>1. q \in Nat /\ r \in Nat /\ r < m /\ n = q * m + r
  OBVIOUS
<1> HIDE DEF q, r
<1>2. s \in Nat /\ t \in Nat /\ t < base /\ q = s * base + t
  BY <1>1
<1> HIDE DEF s, t
<1> DEFINE M == base * m
<1>3. M \in Nat \ {0}
  OBVIOUS
<1>4. t * m + r \in Nat /\ t * m + r < M
  <2>1. (t + 1) * m <= base * m
    BY <1>2
  <2>2. (t + 1) * m = t * m + m
    BY <1>2
  <2> QED
    BY <1>1, <1>2, <2>1, <2>2
<1>5. n = s * M + (t * m + r)
  <2>1. (s * base + t) * m = s * (base * m) + t * m
    BY <1>2
  <2> QED
    BY <1>1, <1>2, <2>1
<1> HIDE DEF M
<1>6. n \div M = s
  <2> DEFINE x == t * m + r
  <2>1. x \in Nat /\ x < M /\ n = s * M + x
    BY <1>4, <1>5
  <2> HIDE DEF x
  <2> QED
    BY <1>2, <1>3, <2>1, QuotientUnique
<1> QED
  BY <1>2, <1>6 DEF M, q, s, t

LEMMA Constants ==
    /\ Base \in Nat \ {0} /\ SizeBytes \in Nat \ {0}
    /\ Len(Header) \in Nat /\ Len(Header) > 1 /\ DOMAIN Header = 1 .. Len(Header)
    /\ \A i \in 1 .. Len(Header) : Header[i] \in ByteValue
    /\ \A i, j \in 1 .. Len(Header) : i # j => Header[i] # Header[j]
BY LoaderAssumption

LEMMA ImageFacts ==
    ASSUME image \in Images
    PROVE  /\ image \in Seq(ByteValue) /\ Len(image) \in Nat
           /\ \A i \in 1 .. Len(image) : image[i] \in ByteValue
           /\ Len(image) \div Base ^ SizeBytes = 0
           /\ Len(image) \div Base ^ 0 = Len(image)
<1>1. image \in Seq(ByteValue) /\ Len(image) < Base ^ SizeBytes
  BY LoaderAssumption
<1> DEFINE n == Len(image)
           m == Base ^ SizeBytes
<1>2. n \in Nat /\ m \in Nat \ {0} /\ n < m
  BY <1>1, LoaderAssumption
<1>3. n \div m = 0
  <2> HIDE DEF n, m
  <2>1. n = 0 * m + n
    BY <1>2
  <2> QED
    BY <1>2, <2>1, QuotientUnique
<1>4. Base ^ 0 = 1
  BY LoaderAssumption
<1> QED
  BY <1>1, <1>2, <1>3, <1>4

LEMMA SizeShift ==
    ASSUME image \in Images, NEW i \in Nat, i < SizeBytes
    PROVE  /\ SizeByte(image, i + 1) \in ByteValue
           /\ (Len(image) \div Base ^ (SizeBytes - i)) * Base + SizeByte(image, i + 1)
                 = Len(image) \div Base ^ (SizeBytes - (i + 1))
<1> DEFINE n == SizeBytes - (i + 1)
           m == Base ^ n
<1>1. n \in 0 .. SizeBytes /\ n + 1 = SizeBytes - i
  BY Constants
<1>2. m \in Nat \ {0} /\ Base ^ (SizeBytes - i) = Base * m
  BY <1>1, LoaderAssumption
<1>3. SizeByte(image, i + 1) = (Len(image) \div m) % Base
  BY DEF SizeByte
<1>4. Len(image) \in Nat
  BY ImageFacts
<1> HIDE DEF m, n
<1>5. SizeByte(image, i + 1) \in ByteValue
  <2> DEFINE q == Len(image) \div m
  <2>1. q \in Nat
    BY <1>2, <1>4
  <2> HIDE DEF q
  <2>2. q % Base \in 0 .. (Base - 1)
    BY <2>1, Constants
  <2> QED
    BY <1>3, <2>2 DEF ByteValue, q
<1>6. (Len(image) \div (Base * m)) * Base + ((Len(image) \div m) % Base) = Len(image) \div m
  BY <1>2, <1>4, NextByte, Constants
<1> QED
  BY <1>2, <1>3, <1>5, <1>6 DEF m, n

-----------------------------------------------------------------------------
(* The steps.                                                              *)

LEMMA OneByte ==
    ASSUME NEW s, NEW c, s = <<c>>
    PROVE  s # <<>> /\ Tail(s) = <<>>
OBVIOUS

LEMMA DamagedByte ==
    ASSUME NEW s, NEW c, s = <<c>>, NEW b
    PROVE  [s EXCEPT ![1] = b] = <<b>>
<1> DEFINE f == [s EXCEPT ![1] = b]
<1>1. DOMAIN f = 1 .. 1 /\ f = [i \in 1 .. 1 |-> f[i]]
  OBVIOUS
<1>2. f[1] = b
  OBVIOUS
<1> QED
  BY <1>1, <1>2

LEMMA InitLoaderInv == LoaderInit => LoaderInv
<1> SUFFICES ASSUME LoaderInit PROVE LoaderInv
  OBVIOUS
<1>1. <<>> \in Seq(ByteValue) /\ count \in Nat /\ FALSE \in BOOLEAN
  BY Constants DEF LoaderInit
<1>2. LoaderType
  BY <1>1 DEF LoaderInit, LoaderType
<1>3. InHeader
  BY Constants DEF LoaderInit, InHeader
<1> QED
  BY <1>2, <1>3 DEF LoaderInv, LoaderInit, BootsImage

\* Once the image runs nothing matters any more.
LEMMA RunStep ==
    ASSUME LoaderInv, phase = "run", [LoaderNext]_loaderVars
    PROVE  LoaderInv'
<1>1. phase' = phase /\ kernel' = kernel /\ image' = image
  BY DEF LoaderNext, loaderVars, hostVars, devVars, SendByte, CheckEcho, SendSize, Restart,
         ReadHeader, ReadSize, ReadImage, uart_read, Fault
<1> QED
  BY <1>1 DEF LoaderInv, BootsImage

LEMMA SendByteStep ==
    ASSUME LoaderInv, phase # "run", SendByte
    PROVE  LoaderInv'
<1> DEFINE b == Message[pos + 1]
<1>1. /\ host \in {"header", "image"} /\ waiting = FALSE /\ line' = Append(line, b) /\ waiting' = TRUE
      /\ image' = image /\ host' = host /\ pos' = pos /\ echo' = echo
      /\ phase' = phase /\ count' = count /\ img_size' = img_size /\ kernel' = kernel
  BY DEF SendByte, devVars, LoaderInv, LoaderType
<1>2. LoaderType /\ phase \in {"header", "size", "image"}
  BY DEF LoaderInv
<1>3. CASE phase = "header"
  <2>1. InHeader /\ line = <<>> /\ echo = <<>> /\ host = "header"
    BY <1>1, <1>3 DEF LoaderInv, InHeader
  <2>2. b = Header[pos + 1] /\ b \in ByteValue /\ line' = <<b>>
    BY <1>1, <1>2, <2>1, Constants DEF Message, InHeader, LoaderType
  <2> HIDE DEF b
  <2>3. LoaderType'
    BY <1>1, <1>2, <2>2 DEF LoaderType
  <2>4. InHeader'
    BY <1>1, <1>2, <2>1, <2>2 DEF InHeader, LoaderType
  <2> QED
    BY <1>1, <1>3, <2>3, <2>4 DEF LoaderInv, BootsImage
<1>4. CASE phase = "size"
  <2>1. /\ count < SizeBytes /\ kernel = <<>> /\ host = "image" /\ image # <<>> /\ pos = 0 /\ echo = <<>>
        /\ Len(line) = SizeBytes - count
        /\ \A k \in 1 .. (SizeBytes - count) : line[k] = SizeByte(image, count + k)
        /\ img_size = Len(image) \div Base ^ (SizeBytes - count)
    BY <1>1, <1>4 DEF LoaderInv, InSize
  <2>2. b = image[1] /\ b \in ByteValue
    <3>1. image \in Seq(ByteValue)
      BY <1>2, ImageFacts DEF LoaderType
    <3> QED
      BY <2>1, <3>1 DEF Message
  <2> HIDE DEF b
  <2>3. /\ line' \in Seq(ByteValue) /\ Len(line') = Len(line) + 1
        /\ \A k \in 1 .. Len(line) : line'[k] = line[k]
        /\ line'[Len(line) + 1] = b
    BY <1>1, <1>2, <2>2 DEF LoaderType
  <2>4. LoaderType'
    BY <1>1, <1>2, <2>3 DEF LoaderType
  <2>5. /\ Len(line') = SizeBytes - count + 1 /\ line'[SizeBytes - count + 1] = image[1]
        /\ \A k \in 1 .. (SizeBytes - count) : line'[k] = SizeByte(image, count + k)
    BY <2>1, <2>2, <2>3
  <2>6. InSize'
    BY <1>1, <2>1, <2>5 DEF InSize
  <2> QED
    BY <1>1, <1>4, <2>4, <2>6 DEF LoaderInv, BootsImage
<1>5. CASE phase = "image"
  <2>1. InImage /\ line = <<>> /\ echo = <<>> /\ host = "image" /\ pos = count
    BY <1>1, <1>5 DEF LoaderInv, InImage
  <2>2. b = image[count + 1] /\ b \in ByteValue /\ line' = <<b>>
    BY <1>1, <1>2, <2>1, ImageFacts DEF Message, InImage, LoaderType
  <2> HIDE DEF b
  <2>3. LoaderType'
    BY <1>1, <1>2, <2>2 DEF LoaderType
  <2>4. InImage'
    BY <1>1, <2>1, <2>2 DEF InImage
  <2> QED
    BY <1>1, <1>5, <2>3, <2>4 DEF LoaderInv, BootsImage
<1> QED
  BY <1>2, <1>3, <1>4, <1>5

LEMMA CheckEchoStep ==
    ASSUME FaultsShow, LoaderInv, phase # "run", CheckEcho
    PROVE  LoaderInv'
<1> DEFINE right == Head(echo) = Message[pos + 1]
<1>1. /\ waiting = TRUE /\ echo # <<>> /\ echo' = Tail(echo) /\ waiting' = FALSE /\ line' = line
      /\ image' = image
      /\ phase' = phase /\ count' = count /\ img_size' = img_size /\ kernel' = kernel
  BY DEF CheckEcho, devVars, LoaderInv, LoaderType
<1>2. LoaderType /\ phase \in {"header", "size", "image"}
  BY DEF LoaderInv
<1>3. /\ right => /\ host' = AfterByte(pos + 1)
                  /\ pos' = IF host' = host THEN pos + 1 ELSE 0
      /\ ~ right => host' = "error" /\ pos' = pos
  BY DEF CheckEcho
<1>4. CASE phase = "header"
  <2>1. InHeader /\ host = "header"
    BY <1>1, <1>4 DEF LoaderInv, InHeader
  <2>2. PICK b \in Garbage \cup {Header[pos + 1]} : echo = <<b>>
    BY <1>1, <2>1 DEF InHeader
  <2>3. Head(echo) = b /\ echo' = <<>> /\ line = <<>> /\ Message = Header
    BY <1>1, <2>1, <2>2 DEF InHeader, Message
  <2>4. CASE b = Header[pos + 1]
    <3>1. count = pos + 1 /\ pos + 1 < Len(Header)
      BY <2>1, <2>2, <2>4 DEF InHeader
    <3>2. host' = "header" /\ pos' = pos + 1
      BY <1>3, <2>1, <2>3, <2>4, <3>1 DEF AfterByte
    <3>3. LoaderType'
      <4>1. pos + 1 \in Nat /\ <<>> \in Seq(ByteValue) /\ FALSE \in BOOLEAN
        BY <1>2 DEF LoaderType
      <4> QED
        BY <1>1, <1>2, <2>3, <3>2, <4>1 DEF LoaderType
    <3>4. \A x : <<x>> # <<>>
      OBVIOUS
    <3>5. InHeader'
      BY <1>1, <2>1, <2>3, <3>1, <3>2, <3>4 DEF InHeader
    <3> QED
      BY <1>1, <1>4, <3>3, <3>5 DEF LoaderInv, BootsImage
  <2>5. CASE b # Header[pos + 1]
    <3>1. host' = "error" /\ pos' = pos
      BY <1>3, <2>3, <2>5
    <3>2. LoaderType'
      BY <1>1, <1>2, <2>3, <3>1 DEF LoaderType
    <3>3. InHeader'
      BY <1>1, <2>1, <2>3, <3>1 DEF InHeader
    <3> QED
      BY <1>1, <1>4, <3>2, <3>3 DEF LoaderInv, BootsImage
  <2> QED
    BY <2>4, <2>5
<1>5. CASE phase = "size"
  <2>1. /\ count < SizeBytes /\ kernel = <<>> /\ host = "header" /\ pos = Len(Header) - 1
        /\ echo = <<Header[Len(Header)]>> /\ line = <<>> /\ count = 0 /\ img_size = 0
    BY <1>1, <1>5 DEF LoaderInv, InSize
  <2>2. Head(echo) = Header[Len(Header)] /\ echo' = <<>> /\ Message = Header /\ pos + 1 = Len(Header)
    BY <1>1, <2>1, Constants DEF Message
  <2>3. host' = "size" /\ pos' = 0
    BY <1>3, <2>1, <2>2, Constants DEF AfterByte
  <2>4. LoaderType' /\ InSize'
    BY <1>1, <1>2, <2>1, <2>2, <2>3 DEF LoaderType, InSize
  <2> QED
    BY <1>1, <1>5, <2>4 DEF LoaderInv, BootsImage
<1>6. CASE phase = "image"
  <2>1. InImage /\ line = <<>> /\ echo = <<image[pos + 1]>> /\ count = pos + 1 /\ host = "image"
    BY <1>1, <1>6 DEF LoaderInv, InImage
  <2>2. Head(echo) = image[pos + 1] /\ echo' = <<>> /\ Message = image /\ pos + 1 < Len(image)
    BY <1>1, <2>1 DEF Message, InImage
  <2>3. host' = "image" /\ pos' = pos + 1
    BY <1>3, <2>1, <2>2 DEF AfterByte
  <2>4. LoaderType' /\ InImage'
    BY <1>1, <1>2, <2>1, <2>2, <2>3 DEF LoaderType, InImage
  <2> QED
    BY <1>1, <1>6, <2>4 DEF LoaderInv, BootsImage
<1> QED
  BY <1>2, <1>4, <1>5, <1>6

LEMMA SendSizeStep ==
    ASSUME LoaderInv, phase # "run", SendSize
    PROVE  LoaderInv'
<1> DEFINE field == [i \in 1 .. SizeBytes |-> (Len(image) \div Base ^ (SizeBytes - i)) % Base]
<1>1. /\ line' = line \o field /\ host' = (IF image = <<>> THEN "done" ELSE "image")
      /\ image' = image /\ pos' = pos /\ waiting' = waiting /\ echo' = echo
      /\ phase' = phase /\ count' = count /\ img_size' = img_size /\ kernel' = kernel
  BY DEF SendSize, devVars
<1>2. LoaderType
  BY DEF LoaderInv
<1>3. /\ phase = "size" /\ pos = 0 /\ waiting = FALSE /\ echo = <<>> /\ line = <<>> /\ count = 0
      /\ img_size = 0 /\ kernel = <<>>
  BY <1>2 DEF LoaderInv, SendSize, InHeader, InSize, InImage, LoaderType
<1>4. /\ \A i \in 1 .. SizeBytes : field[i] = SizeByte(image, i) /\ SizeByte(image, i) \in ByteValue
      /\ DOMAIN field = 1 .. SizeBytes
  <2>1. ASSUME NEW i \in 1 .. SizeBytes PROVE SizeByte(image, i) \in ByteValue
    <3>1. i - 1 \in Nat /\ i - 1 < SizeBytes /\ (i - 1) + 1 = i /\ image \in Images
      BY <1>2, Constants DEF LoaderType
    <3> QED
      BY <3>1, SizeShift
  <2> QED
    BY <2>1 DEF SizeByte
<1> HIDE DEF field
<1>5. field \in Seq(ByteValue) /\ Len(field) = SizeBytes
  <2>1. field \in [1 .. SizeBytes -> ByteValue]
    BY <1>4 DEF field
  <2> QED
    BY <2>1, Constants
<1>6. line' = field
  BY <1>1, <1>3, <1>5
<1>7. LoaderType'
  BY <1>1, <1>2, <1>5, <1>6 DEF LoaderType
<1>8. InSize'
  <2>1. img_size' = Len(image) \div Base ^ SizeBytes
    BY <1>1, <1>2, <1>3, ImageFacts DEF LoaderType
  <2>2. SizeBytes - count' = SizeBytes /\ Len(line') = SizeBytes /\ count' < SizeBytes
    BY <1>1, <1>3, <1>5, <1>6, Constants
  <2>3. \A k \in 1 .. SizeBytes : line'[k] = SizeByte(image, count' + k)
    BY <1>1, <1>3, <1>4, <1>6, Constants
  <2> QED
    BY <1>1, <1>3, <2>1, <2>2, <2>3 DEF InSize
<1> QED
  BY <1>1, <1>3, <1>7, <1>8 DEF LoaderInv, BootsImage

\* Only in the header does a byte get lost for which the host waits.
LEMMA RestartStep ==
    ASSUME LoaderInv, Restart
    PROVE  LoaderInv'
<1>1. /\ host' = "header" /\ pos' = 0 /\ waiting' = FALSE /\ echo' = <<>> /\ line' = line
      /\ image' = image /\ phase' = phase /\ count' = count /\ img_size' = img_size /\ kernel' = kernel
      /\ host = "error" \/ (waiting /\ line = <<>> /\ echo = <<>>)
  BY DEF Restart, devVars
<1>2. LoaderType /\ phase \in {"header", "size", "image"}
  BY DEF LoaderInv, Restart
<1>3. phase # "size"
  <2> SUFFICES ASSUME InSize PROVE FALSE
    BY DEF LoaderInv
  <2>1. host # "error" /\ waiting /\ line = <<>> /\ echo = <<>>
    BY <1>1 DEF InSize
  <2>2. Len(line) = SizeBytes - count + 1 /\ count < SizeBytes
    BY <2>1, OneByte DEF InSize
  <2> QED
    BY <1>2, <2>1, <2>2, Constants DEF LoaderType
<1>4. phase # "image"
  BY <1>1, OneByte DEF LoaderInv, InImage
<1>5. InHeader /\ line = <<>> /\ phase = "header"
  BY <1>1, <1>2, <1>3, <1>4 DEF LoaderInv, InHeader
<1>6. LoaderType'
  <2>1. 0 \in Nat /\ <<>> \in Seq(ByteValue) /\ FALSE \in BOOLEAN
    OBVIOUS
  <2> QED
    BY <1>1, <1>2, <2>1 DEF LoaderType
<1>7. InHeader'
  BY <1>1, <1>5, Constants DEF InHeader
<1> QED
  BY <1>1, <1>5, <1>6, <1>7 DEF LoaderInv, BootsImage

LEMMA FaultLineStep ==
    ASSUME FaultsShow, LoaderInv, Fault(line), UNCHANGED echo
    PROVE  LoaderInv'
<1>1. /\ line # <<>> /\ phase = "header" /\ phase' = phase /\ count' = count /\ img_size' = img_size
      /\ kernel' = kernel /\ image' = image /\ host' = host /\ pos' = pos /\ waiting' = waiting
      /\ echo' = echo
      /\ line' \in {Tail(line)} \cup {[line EXCEPT ![1] = b] : b \in Garbage \ {Head(line)}}
  BY DEF Fault, FaultsShow, hostVars, devVars
<1>2. LoaderType /\ InHeader
  BY <1>1 DEF LoaderInv
<1>3. PICK c \in Garbage \cup {Header[pos + 1]} : line = <<c>>
  BY <1>1, <1>2 DEF InHeader
<1>4. line' = <<>> \/ \E b \in Garbage : line' = <<b>>
  <2>1. Tail(line) = <<>>
    BY <1>3, OneByte
  <2>2. \A b : [line EXCEPT ![1] = b] = <<b>>
    BY <1>3, DamagedByte
  <2> QED
    BY <1>1, <2>1, <2>2
<1>5. LoaderType'
  <2>1. \A b \in Garbage : <<b>> \in Seq(ByteValue)
    BY LoaderAssumption
  <2>2. line' \in Seq(ByteValue)
    <3>1. CASE \E b \in Garbage : line' = <<b>>
      <4>1. PICK b \in Garbage : line' = <<b>>
        BY <3>1
      <4> QED
        BY <2>1, <4>1
    <3>2. <<>> \in Seq(ByteValue)
      OBVIOUS
    <3> QED
      BY <1>4, <3>1, <3>2
  <2> QED
    BY <1>1, <1>2, <2>2 DEF LoaderType
<1>6. InHeader'
  BY <1>1, <1>2, <1>4 DEF InHeader
<1> QED
  BY <1>1, <1>5, <1>6 DEF LoaderInv, BootsImage

LEMMA FaultEchoStep ==
    ASSUME FaultsShow, LoaderInv, Fault(echo), UNCHANGED line
    PROVE  LoaderInv'
<1>1. /\ echo # <<>> /\ phase = "header" /\ phase' = phase /\ count' = count /\ img_size' = img_size
      /\ kernel' = kernel /\ image' = image /\ host' = host /\ pos' = pos /\ waiting' = waiting
      /\ line' = line
      /\ echo' \in {Tail(echo)} \cup {[echo EXCEPT ![1] = b] : b \in Garbage \ {Head(echo)}}
  BY DEF Fault, FaultsShow, hostVars, devVars
<1>2. LoaderType /\ InHeader
  BY <1>1 DEF LoaderInv
<1>3. PICK c \in Garbage \cup {Header[pos + 1]} : echo = <<c>>
  BY <1>1, <1>2 DEF InHeader
<1>4. echo' = <<>> \/ \E b \in Garbage : echo' = <<b>>
  <2>1. Tail(echo) = <<>>
    BY <1>3, OneByte
  <2>2. \A b : [echo EXCEPT ![1] = b] = <<b>>
    BY <1>3, DamagedByte
  <2> QED
    BY <1>1, <2>1, <2>2
<1>5. LoaderType'
  <2>1. \A b \in Garbage : <<b>> \in Seq(ByteValue)
    BY LoaderAssumption
  <2>2. echo' \in Seq(ByteValue)
    <3>1. CASE \E b \in Garbage : echo' = <<b>>
      <4>1. PICK b \in Garbage : echo' = <<b>>
        BY <3>1
      <4> QED
        BY <2>1, <4>1
    <3>2. <<>> \in Seq(ByteValue)
      OBVIOUS
    <3> QED
      BY <1>4, <3>1, <3>2
  <2> QED
    BY <1>1, <1>2, <2>2 DEF LoaderType
<1>6. Header[pos + 1] \notin Garbage
  <2>1. pos + 1 \in DOMAIN Header
    BY <1>2, Constants DEF InHeader, LoaderType
  <2> QED
    BY <2>1 DEF FaultsShow
<1>7. line = <<>>
  BY <1>1, <1>2 DEF InHeader
<1>8. InHeader'
  BY <1>1, <1>2, <1>4, <1>6, <1>7 DEF InHeader
<1> QED
  BY <1>1, <1>5, <1>8 DEF LoaderInv, BootsImage

\* A right byte brings the loader in step with the host, whatever it has seen
\* before, because no two bytes of the header are equal; and only the last byte
\* of the header, confirmed or not, ends the search.
LEMMA ReadHeaderStep ==
    ASSUME FaultsShow, LoaderInv, ReadHeader
    PROVE  LoaderInv'
<1> DEFINE n == Match(Head(line))
<1>1. /\ phase = "header" /\ line # <<>> /\ line' = Tail(line) /\ echo' = Append(echo, Head(line))
      /\ image' = image /\ host' = host /\ pos' = pos /\ waiting' = waiting
      /\ img_size' = img_size /\ kernel' = kernel
      /\ count' = (IF n = Len(Header) THEN 0 ELSE n)
      /\ phase' = (IF n = Len(Header) THEN "size" ELSE phase)
  BY DEF ReadHeader, uart_read, Advance, hostVars
<1>2. LoaderType /\ InHeader
  BY <1>1 DEF LoaderInv
<1>3. PICK b \in Garbage \cup {Header[pos + 1]} : line = <<b>>
  BY <1>1, <1>2 DEF InHeader
<1>4. /\ waiting = TRUE /\ host = "header" /\ echo = <<>> /\ Head(line) = b
      /\ line' = <<>> /\ echo' = <<b>> /\ b \in ByteValue
      /\ pos + 1 \in 1 .. Len(Header) /\ count + 1 \in 1 .. Len(Header)
  <2>1. waiting = TRUE /\ host = "header" /\ echo = <<>>
    BY <1>1, <1>2 DEF InHeader, LoaderType
  <2>2. pos + 1 \in 1 .. Len(Header) /\ count + 1 \in 1 .. Len(Header)
    BY <1>2, Constants DEF InHeader, LoaderType
  <2>3. b \in ByteValue
    BY <1>3, <2>2, Constants, LoaderAssumption
  <2> QED
    BY <1>1, <1>3, <2>1, <2>2, <2>3
<1>5. n = IF b # Header[count + 1] THEN 1 ELSE count + 1
  BY <1>4 DEF Match
<1> HIDE DEF n
<1>6. n \in Nat /\ n <= Len(Header)
  BY <1>2, <1>4, <1>5, Constants DEF LoaderType
<1>7. LoaderType'
  <2>1. count' \in Nat /\ <<>> \in Seq(ByteValue) /\ <<b>> \in Seq(ByteValue)
    BY <1>1, <1>4, <1>6
  <2> QED
    BY <1>1, <1>2, <1>4, <2>1 DEF LoaderType
<1>8. CASE b = Header[pos + 1]
  <2>1. n = pos + 1
    <3>1. CASE count = pos
      BY <1>5, <1>8, <3>1
    <3>2. CASE count # pos
      <4>1. pos = 0
        BY <1>1, <1>2, <1>4, <3>2 DEF InHeader, LoaderType
      <4>2. Header[1] # Header[count + 1]
        BY <1>2, <1>4, <3>2, <4>1, Constants DEF LoaderType
      <4> QED
        BY <1>5, <1>8, <4>1, <4>2
    <3> QED
      BY <3>1, <3>2
  <2>2. CASE n = Len(Header)
    <3>1. phase' = "size" /\ count' = 0 /\ pos' = Len(Header) - 1 /\ echo' = <<Header[Len(Header)]>>
      BY <1>1, <1>2, <1>4, <1>8, <2>1, <2>2, Constants DEF LoaderType
    <3>2. InSize'
      BY <1>1, <1>2, <1>4, <3>1, Constants DEF InSize, InHeader
    <3> QED
      BY <1>7, <3>1, <3>2 DEF LoaderInv, BootsImage
  <2>3. CASE n # Len(Header)
    <3>1. phase' = "header" /\ count' = pos + 1 /\ pos + 1 < Len(Header)
      BY <1>1, <1>6, <2>1, <2>3, Constants
    <3>2. InHeader'
      BY <1>1, <1>2, <1>4, <1>8, <3>1 DEF InHeader
    <3> QED
      BY <1>7, <3>1, <3>2 DEF LoaderInv, BootsImage
  <2> QED
    BY <2>2, <2>3
<1>9. CASE b # Header[pos + 1]
  <2>1. b \in Garbage /\ \A i \in 1 .. Len(Header) : Header[i] # b
    BY <1>3, <1>9, Constants DEF FaultsShow
  <2>2. n = 1
    BY <1>4, <1>5, <2>1
  <2>3. phase' = "header" /\ count' = 1 /\ 1 < Len(Header)
    BY <1>1, <2>2, Constants
  <2>4. <<b>> # <<Header[pos + 1]>>
    BY <1>9
  <2>5. InHeader'
    BY <1>1, <1>2, <1>4, <2>1, <2>3, <2>4 DEF InHeader
  <2> QED
    BY <1>7, <2>3, <2>5 DEF LoaderInv, BootsImage
<1> QED
  BY <1>8, <1>9

LEMMA ReadSizeStep ==
    ASSUME LoaderInv, ReadSize
    PROVE  LoaderInv'
<1> DEFINE n == Len(image)
           v == Shifted(Head(line))
<1>1. /\ phase = "size" /\ line # <<>> /\ line' = Tail(line) /\ echo' = echo
      /\ image' = image /\ host' = host /\ pos' = pos /\ waiting' = waiting /\ kernel' = kernel
      /\ img_size' = v
      /\ count' = (IF count + 1 = SizeBytes THEN 0 ELSE count + 1)
      /\ phase' = (IF count + 1 = SizeBytes THEN (IF v = 0 THEN "run" ELSE "image") ELSE phase)
  BY DEF ReadSize, uart_read, Advance, hostVars
<1>2. LoaderType
  BY <1>1 DEF LoaderInv
<1>3. /\ count < SizeBytes /\ kernel = <<>> /\ host = (IF image = <<>> THEN "done" ELSE "image")
      /\ pos = 0 /\ echo = <<>>
      /\ \A k \in 1 .. (SizeBytes - count) : line[k] = SizeByte(image, count + k)
      /\ ~ waiting => Len(line) = SizeBytes - count
      /\ waiting => /\ image # <<>>
                    /\ Len(line) = SizeBytes - count + 1 /\ line[SizeBytes - count + 1] = image[1]
      /\ img_size = n \div Base ^ (SizeBytes - count)
  BY <1>1 DEF LoaderInv, InSize
<1>4. n \in Nat /\ image \in Seq(ByteValue) /\ image \in Images
  BY <1>2, ImageFacts DEF LoaderType
<1>5. Head(line) = SizeByte(image, count + 1)
  BY <1>2, <1>3, Constants DEF LoaderType
<1>6. v = n \div Base ^ (SizeBytes - (count + 1))
  <2>1. v = (n \div Base ^ (SizeBytes - count)) * Base + SizeByte(image, count + 1)
    BY <1>3, <1>5 DEF Shifted
  <2> QED
    BY <1>2, <1>3, <1>4, <2>1, SizeShift DEF LoaderType
<1> HIDE DEF v
<1>7. v \in Nat
  <2>1. SizeBytes - (count + 1) \in 0 .. SizeBytes
    BY <1>2, <1>3, Constants DEF LoaderType
  <2> DEFINE m == Base ^ (SizeBytes - (count + 1))
  <2>2. m \in Nat \ {0}
    BY <2>1, LoaderAssumption
  <2> HIDE DEF m
  <2>3. n \div m \in Nat
    BY <1>4, <2>2
  <2> QED
    BY <1>6, <2>3 DEF m
<1>8. /\ line' \in Seq(ByteValue) /\ Len(line') = Len(line) - 1
      /\ \A k \in 1 .. Len(line') : line'[k] = line[k + 1]
  BY <1>1, <1>2 DEF LoaderType
<1>9. LoaderType'
  <2>1. count' \in Nat
    BY <1>1, <1>2, Constants DEF LoaderType
  <2> QED
    BY <1>1, <1>2, <1>7, <1>8, <2>1 DEF LoaderType
<1>10. CASE count + 1 # SizeBytes
  <2>1. phase' = "size" /\ count' = count + 1 /\ count + 1 < SizeBytes
    BY <1>1, <1>2, <1>3, <1>10, Constants DEF LoaderType
  <2>2. \A k \in 1 .. (SizeBytes - (count + 1)) : line'[k] = SizeByte(image, (count + 1) + k)
    <3> SUFFICES ASSUME NEW k \in 1 .. (SizeBytes - (count + 1))
                 PROVE  line'[k] = SizeByte(image, (count + 1) + k)
      OBVIOUS
    <3>1. k \in 1 .. Len(line') /\ k + 1 \in 1 .. (SizeBytes - count) /\ count + (k + 1) = (count + 1) + k
      BY <1>2, <1>3, <1>8, Constants DEF LoaderType
    <3> QED
      BY <1>3, <1>8, <3>1
  <2>3. /\ ~ waiting => Len(line') = SizeBytes - (count + 1)
        /\ waiting => /\ Len(line') = SizeBytes - (count + 1) + 1
                      /\ line'[SizeBytes - (count + 1) + 1] = image[1]
    BY <1>2, <1>3, <1>8, <2>1, Constants, SMTT(30) DEF LoaderType
  <2>4. InSize'
    BY <1>1, <1>3, <1>6, <2>1, <2>2, <2>3 DEF InSize
  <2> QED
    BY <1>9, <2>1, <2>4 DEF LoaderInv, BootsImage
<1>11. CASE count + 1 = SizeBytes
  <2>1. v = n
    <3>1. SizeBytes - (count + 1) = 0
      BY <1>2, <1>11, Constants DEF LoaderType
    <3> QED
      BY <1>4, <1>6, <3>1, ImageFacts
  <2>2. CASE n = 0
    <3>1. phase' = "run" /\ image = <<>>
      BY <1>1, <1>4, <1>11, <2>1, <2>2
    <3> QED
      BY <1>1, <1>3, <3>1 DEF LoaderInv, BootsImage
  <2>3. CASE n # 0
    <3>1. phase' = "image" /\ count' = 0 /\ host = "image"
      BY <1>1, <1>3, <1>4, <1>11, <2>1, <2>3
    <3>2. IF waiting THEN line' = <<image[1]>> ELSE line' = <<>>
      <4> DEFINE m == SizeBytes - count
      <4>1. m = 1 /\ m + 1 = 2
        BY <1>2, <1>11, Constants DEF LoaderType
      <4>2. /\ ~ waiting => Len(line) = m
            /\ waiting => Len(line) = m + 1 /\ line[m + 1] = image[1]
        BY <1>3
      <4> HIDE DEF m
      <4>3. CASE waiting
        <5>1. Len(line) = 2 /\ line[2] = image[1]
          BY <4>1, <4>2, <4>3
        <5>2. Len(line') = 1 /\ line'[1] = image[1]
          BY <1>8, <5>1
        <5>3. line' = <<image[1]>>
          BY <1>8, <5>2
        <5> QED
          BY <4>3, <5>3
      <4>4. CASE ~ waiting
        <5>1. Len(line) = 1
          BY <4>1, <4>2, <4>4
        <5>2. Len(line') = 0
          BY <1>8, <5>1
        <5>3. line' = <<>>
          BY <1>8, <5>2
        <5> QED
          BY <4>4, <5>3
      <4> QED
        BY <4>3, <4>4
    <3>3. /\ kernel' = <<>> /\ Len(<<>>) = 0 /\ \A k \in 1 .. 0 : kernel'[k] = image[k]
          /\ 0 < n /\ 0 + 1 = 1
      BY <1>1, <1>3, <1>4, <2>3
    <3>4. InImage'
      BY <1>1, <1>3, <2>1, <3>1, <3>2, <3>3 DEF InImage
    <3> QED
      BY <1>9, <3>1, <3>4 DEF LoaderInv, BootsImage
  <2> QED
    BY <2>2, <2>3
<1> QED
  BY <1>10, <1>11

LEMMA ReadImageStep ==
    ASSUME LoaderInv, ReadImage
    PROVE  LoaderInv'
<1> DEFINE b == Head(line)
<1>1. /\ phase = "image" /\ line # <<>> /\ line' = Tail(line) /\ echo' = Append(echo, b)
      /\ image' = image /\ host' = host /\ pos' = pos /\ waiting' = waiting
      /\ img_size' = img_size /\ kernel' = Append(kernel, b)
      /\ count' = (IF count + 1 = img_size THEN 0 ELSE count + 1)
      /\ phase' = (IF count + 1 = img_size THEN "run" ELSE phase)
  BY DEF ReadImage, uart_read, Advance, hostVars
<1>2. LoaderType /\ InImage
  BY <1>1 DEF LoaderInv
<1>3. /\ waiting = TRUE /\ line = <<image[count + 1]>> /\ echo = <<>> /\ pos = count
      /\ host = "image" /\ img_size = Len(image) /\ count < Len(image)
  BY <1>1, <1>2 DEF InImage, LoaderType
<1>4. image \in Seq(ByteValue) /\ Len(image) \in Nat /\ count \in Nat
  BY <1>2, ImageFacts DEF LoaderType
<1>5. b = image[count + 1] /\ b \in ByteValue /\ line' = <<>> /\ echo' = <<b>>
  BY <1>1, <1>3, <1>4
<1> HIDE DEF b
<1>6. /\ kernel' \in Seq(ByteValue) /\ Len(kernel') = count + 1
      /\ \A k \in 1 .. (count + 1) : kernel'[k] = image[k]
  <2>1. kernel \in Seq(ByteValue) /\ Len(kernel) = count /\ \A k \in 1 .. count : kernel[k] = image[k]
    BY <1>2 DEF InImage, LoaderType
  <2> QED
    BY <1>1, <1>4, <1>5, <2>1
<1>7. CASE count + 1 = img_size
  <2>1. phase' = "run" /\ Len(kernel') = Len(image)
    BY <1>1, <1>3, <1>6, <1>7
  <2>2. kernel' = image
    BY <1>3, <1>4, <1>6, <1>7, <2>1
  <2> QED
    BY <1>1, <2>1, <2>2 DEF LoaderInv, BootsImage
<1>8. CASE count + 1 # img_size
  <2>1. phase' = "image" /\ count' = count + 1 /\ count + 1 < Len(image)
    BY <1>1, <1>3, <1>4, <1>8
  <2>2. LoaderType'
    <3>1. count + 1 \in Nat /\ <<>> \in Seq(ByteValue) /\ <<b>> \in Seq(ByteValue)
      BY <1>4, <1>5
    <3> QED
      BY <1>1, <1>2, <1>5, <1>6, <2>1, <3>1 DEF LoaderType
  <2>3. InImage'
    BY <1>1, <1>3, <1>5, <1>6, <2>1 DEF InImage
  <2> QED
    BY <2>1, <2>2, <2>3 DEF LoaderInv, BootsImage
<1> QED
  BY <1>7, <1>8

LEMMA LoaderNextInv ==
    ASSUME FaultsShow, LoaderInv, [LoaderNext]_loaderVars
    PROVE  LoaderInv'
<1>1. CASE phase = "run"
  BY <1>1, RunStep
<1>2. CASE phase # "run" /\ LoaderNext
  BY <1>2, SendByteStep, CheckEchoStep, SendSizeStep, RestartStep, ReadHeaderStep, ReadSizeStep,
     ReadImageStep, FaultLineStep, FaultEchoStep DEF LoaderNext
<1>3. CASE UNCHANGED loaderVars
  BY <1>3 DEF loaderVars, hostVars, devVars, LoaderInv, LoaderType, InHeader, InSize, InImage, BootsImage
<1> QED
  BY <1>1, <1>2, <1>3

\* If damaged bytes can be told from those of the header, and none is damaged
\* or lost behind it, the loader runs the image that was sent or none: for all
\* headers without repetitions, sizes of the size field, images and numbers of
\* faults and restarts.
THEOREM ImageBooted ==
    ASSUME FaultsShow
    PROVE  LoaderSpec => []BootsImage
<1>1. LoaderInit => LoaderInv
  BY InitLoaderInv
<1>2. LoaderInv /\ [LoaderNext]_loaderVars => LoaderInv'
  BY LoaderNextInv
<1>3. LoaderInv => BootsImage
  BY DEF LoaderInv
<1> QED
  BY <1>1, <1>2, <1>3, PTL DEF LoaderSpec

-----------------------------------------------------------------------------
(***************************************************************************)
(* The shell keeps its strings terminated until CMD_MAX_LEN characters were*)
(* typed, and up to then edits its line as LineEditor says.                *)
(***************************************************************************)

(* Strings in arrays.                                                      *)

Array == [Cell -> Char \cup {NUL}]

LEMMA MaxIsGreatest ==
    ASSUME NEW n \in Int, NEW I \in SUBSET Int, I # {}, \A x \in I : x <= n
    PROVE  Max(I) \in I /\ \A y \in I : y <= Max(I)
<1> DEFINE J == {n - x : x \in I}
<1>1. J \in SUBSET Nat /\ J # {}
  <2>1. \A x \in I : n - x \in Nat
    OBVIOUS
  <2> QED
    BY <2>1
<1>2. PICK m \in J : \A y \in J : m <= y
  BY <1>1, MinIsLeast
<1>3. PICK x \in I : m = n - x
  BY <1>2
<1>4. \A y \in I : n - x <= n - y
  BY <1>2, <1>3
<1>5. \A y \in I : x >= y
  BY <1>4
<1> QED
  BY <1>5 DEF Max

LEMMA Cells == CMD_MAX_LEN \in Nat \ {0} /\ Cell \subseteq Nat /\ \A i : i \in Cell <=> i \in Nat /\ i < CMD_MAX_LEN
BY ShellAssumption DEF Cell

\* strlen is the place of the first NUL.
LEMMA StrlenFirst ==
    ASSUME NEW s, Terminated(s)
    PROVE  strlen(s) \in Cell /\ s[strlen(s)] = NUL /\ \A i \in 0 .. (strlen(s) - 1) : s[i] # NUL
<1> DEFINE I == {i \in Cell : s[i] = NUL}
<1>1. I \in SUBSET Nat /\ I # {}
  BY Cells DEF Terminated
<1> HIDE DEF I
<1>2. Min(I) \in I /\ \A y \in I : Min(I) <= y
  BY <1>1, MinIsLeast
<1>3. strlen(s) = Min(I)
  BY DEF strlen, I
<1> DEFINE m == Min(I)
<1> HIDE DEF m
<1>4. m \in Cell /\ s[m] = NUL
  BY <1>2 DEF I, m
<1>5. ASSUME NEW i \in 0 .. (m - 1), s[i] = NUL PROVE FALSE
  <2>1. m \in Nat /\ m < CMD_MAX_LEN /\ i \in Nat /\ i < m
    BY <1>4, Cells
  <2>2. i \in I
    BY <1>5, <2>1, Cells DEF I
  <2> QED
    BY <1>2, <2>1, <2>2 DEF m
<1> QED
  BY <1>3, <1>4, <1>5 DEF m

\* The first NUL after which no other place has this property.
LEMMA StrlenIs ==
    ASSUME NEW s, NEW n \in Cell, s[n] = NUL, \A i \in 0 .. (n - 1) : s[i] # NUL
    PROVE  Terminated(s) /\ strlen(s) = n
<1>1. Terminated(s)
  BY DEF Terminated
<1>2. strlen(s) \in Cell /\ s[strlen(s)] = NUL /\ \A i \in 0 .. (strlen(s) - 1) : s[i] # NUL
  BY <1>1, StrlenFirst
<1> QED
  BY <1>1, <1>2, Cells

-----------------------------------------------------------------------------
(* The inductive invariant: no array has a character behind as many cells  *)
(* as characters were typed, and the line being edited is at the start of  *)
(* cmd.                                                                    *)

NothingBehind(s, n) == \A i \in Cell : i >= n => s[i] = NUL

LineSound ==
    /\ cmd \in Array /\ prev_cmd \in Array
    /\ NothingBehind(cmd, typed) /\ NothingBehind(prev_cmd, typed)
    /\ Terminated(prev_cmd)
    /\ len \in 0 .. CMD_MAX_LEN /\ idx \in 0 .. len
    /\ \A i \in 0 .. (len - 1) : cmd[i] # NUL

ShellInv ==
    /\ typed \in Nat /\ typed <= MaxTyped
    /\ prompt \in {"command", "exec", "cat", "gone"}
    /\ typed <= CMD_MAX_LEN => LineSound

\* As long as a cell is left for it, the array ends in a NUL.
LEMMA RoomLeft ==
    ASSUME NEW s, NEW n \in Nat, NothingBehind(s, n)
    PROVE  /\ n < CMD_MAX_LEN => Terminated(s)
           /\ Terminated(s) => strlen(s) <= n
<1>1. ASSUME n < CMD_MAX_LEN PROVE Terminated(s)
  BY <1>1, Cells DEF NothingBehind, Terminated
<1>2. ASSUME Terminated(s) PROVE strlen(s) <= n
  <2>1. strlen(s) \in Cell /\ \A i \in 0 .. (strlen(s) - 1) : s[i] # NUL
    BY <1>2, StrlenFirst
  <2> QED
    BY <2>1, Cells DEF NothingBehind
<1> QED
  BY <1>1, <1>2

\* The line is not longer than the string, which may have what trim left of an
\* earlier command at its end.
LEMMA LineInString ==
    ASSUME LineSound, Terminated(cmd)
    PROVE  len <= strlen(cmd) /\ strlen(cmd) \in Cell /\ len \in Nat /\ idx \in Nat /\ idx <= len
<1>1. strlen(cmd) \in Cell /\ cmd[strlen(cmd)] = NUL
  BY StrlenFirst
<1> QED
  BY <1>1, Cells DEF LineSound

LEMMA Inserted ==
    ASSUME NEW s \in Array, Terminated(s), NEW c \in Char, NEW n \in 0 .. strlen(s), NEW l \in n .. strlen(s)
    PROVE  LET t == strins(s, c, n) IN
           /\ t \in Array /\ t[n] = c
           /\ \A i \in 0 .. (n - 1) : t[i] = s[i]
           /\ \A i \in (n + 1) .. l : t[i] = s[i - 1] /\ s[i - 1] # NUL
           /\ \A i \in Cell : i > strlen(s) => t[i] = s[i]
<1> DEFINE m == strlen(s)
           t == [i \in Cell |-> IF i = n THEN c ELSE IF i \in (n + 1) .. m THEN s[i - 1] ELSE s[i]]
<1>1. m \in Nat /\ m < CMD_MAX_LEN /\ \A i \in 0 .. (m - 1) : s[i] # NUL
  BY StrlenFirst, Cells
<1>2. strins(s, c, n) = t
  BY DEF strins
<1> HIDE DEF m
<1>3. n \in Nat /\ n <= m /\ l \in Nat /\ l <= m /\ n <= l
  BY <1>1 DEF m
<1>4. t \in Array
  <2>1. \A i \in (n + 1) .. m : i - 1 \in Cell
    BY <1>1, <1>3, Cells
  <2> QED
    BY <2>1 DEF Array
<1>5. n \in Cell /\ \A i \in 0 .. m : i \in Cell
  BY <1>1, <1>3, Cells
<1>6. \A i \in (n + 1) .. l : t[i] = s[i - 1] /\ s[i - 1] # NUL
  BY <1>1, <1>3, <1>5
<1>7. \A i \in 0 .. (n - 1) : t[i] = s[i]
  BY <1>1, <1>3, <1>5
<1>8. \A i \in Cell : i > m => t[i] = s[i]
  BY <1>1, <1>3, Cells
<1> QED
  BY <1>2, <1>4, <1>5, <1>6, <1>7, <1>8 DEF m

LEMMA Deleted ==
    ASSUME NEW s \in Array, Terminated(s), NEW l \in 1 .. strlen(s), NEW n \in 0 .. (l - 1)
    PROVE  LET t == strdel(s, n) IN
           /\ t \in Array
           /\ \A i \in 0 .. (n - 1) : t[i] = s[i]
           /\ \A i \in n .. (l - 2) : t[i] = s[i + 1] /\ s[i + 1] # NUL
           /\ \A i \in Cell : i >= strlen(s) => t[i] = s[i]
<1> DEFINE m == strlen(s)
           t == [i \in Cell |-> IF i = m - 1 THEN NUL ELSE IF i \in n .. (m - 2) THEN s[i + 1] ELSE s[i]]
<1>1. m \in Nat /\ m < CMD_MAX_LEN /\ \A i \in 0 .. (m - 1) : s[i] # NUL
  BY StrlenFirst, Cells
<1>2. strdel(s, n) = t
  BY DEF strdel
<1> HIDE DEF m
<1>3. l \in Nat /\ l > 0 /\ l <= m /\ n \in Nat /\ n < l
  BY <1>1 DEF m
<1>4. t \in Array
  <2>1. \A i \in n .. (m - 2) : i + 1 \in Cell
    BY <1>1, <1>3, Cells
  <2> QED
    BY <2>1 DEF Array
<1>5. \A i \in 0 .. m : i \in Cell
  BY <1>1, Cells
<1>6. \A i \in n .. (l - 2) : t[i] = s[i + 1] /\ s[i + 1] # NUL
  BY <1>1, <1>3, <1>5
<1>7. \A i \in 0 .. (n - 1) : t[i] = s[i]
  BY <1>1, <1>3, <1>5
<1>8. \A i \in Cell : i >= m => t[i] = s[i]
  BY <1>1, <1>3, Cells
<1> QED
  BY <1>2, <1>4, <1>6, <1>7, <1>8 DEF m

\* trim keeps the characters between the first and the last that is not blank.
LEMMA TrimmedArray ==
    ASSUME NEW s \in Array, Terminated(s), strlen(s) # 0
    PROVE  \E begin, end \in Int :
             /\ 0 <= begin /\ begin <= strlen(s) /\ begin - 1 <= end /\ end < strlen(s)
             /\ \A i \in 0 .. (strlen(s) - 1) : s[i] \notin Blank => begin <= i /\ i <= end
             /\ begin <= end => s[begin] \notin Blank /\ s[end] \notin Blank
             /\ trim(s) \in Array
             /\ \A i \in 0 .. (end - begin) : trim(s)[i] = s[i + begin]
             /\ Terminated(trim(s)) /\ strlen(trim(s)) = end - begin + 1
             /\ \A i \in Cell : i >= strlen(s) => trim(s)[i] = s[i]
<1> DEFINE n == strlen(s)
           I == {i \in 0 .. (n - 1) : s[i] \notin Blank}
           begin == Min({n} \cup I)
           end == Max({begin - 1} \cup I)
           size == end - begin + 1
           t == [i \in Cell |-> IF i < size THEN s[i + begin] ELSE IF i = size THEN NUL ELSE s[i]]
<1>1. n \in Nat /\ n < CMD_MAX_LEN /\ \A i \in 0 .. (n - 1) : s[i] # NUL
  BY StrlenFirst, Cells
<1>2. trim(s) = t
  BY DEF trim
<1> HIDE DEF n
<1>3. I \in SUBSET Nat /\ \A i \in I : i < n
  BY <1>1
<1>4. /\ begin \in {n} \cup I /\ \A y \in {n} \cup I : begin <= y
  BY <1>1, <1>3, MinIsLeast
<1> HIDE DEF begin
<1>5. begin \in Nat /\ begin <= n
  BY <1>1, <1>3, <1>4
<1>6. end \in {begin - 1} \cup I /\ \A y \in {begin - 1} \cup I : y <= end
  <2> DEFINE K == {begin - 1} \cup I
  <2>1. n \in Int /\ K \in SUBSET Int /\ K # {} /\ \A x \in K : x <= n
    BY <1>1, <1>3, <1>5
  <2> HIDE DEF K
  <2>2. Max(K) \in K /\ \A y \in K : y <= Max(K)
    BY <2>1, MaxIsGreatest
  <2> QED
    BY <2>2 DEF K, end
<1> HIDE DEF end
<1>7. end \in Int /\ begin - 1 <= end /\ end < n
  BY <1>1, <1>3, <1>5, <1>6
<1>8. \A i \in 0 .. (n - 1) : s[i] \notin Blank => begin <= i /\ i <= end
  BY <1>4, <1>6
<1>9. begin <= end => s[begin] \notin Blank /\ s[end] \notin Blank
  <2> SUFFICES ASSUME begin <= end PROVE s[begin] \notin Blank /\ s[end] \notin Blank
    OBVIOUS
  <2>1. end \in I
    BY <1>5, <1>6, <1>7
  <2>2. begin \in I
    BY <1>1, <1>3, <1>4, <1>5, <1>7
  <2> QED
    BY <2>1, <2>2
<1>10. size \in Nat /\ size <= n /\ size \in Cell
  BY <1>1, <1>5, <1>7, Cells
<1>11. \A i \in Cell : i < size => i + begin \in Cell /\ i + begin \in 0 .. (n - 1)
  BY <1>1, <1>5, <1>7, Cells
<1>12. t \in Array
  BY <1>11 DEF Array
<1>13. \A i \in 0 .. (end - begin) : i \in Cell /\ i < size /\ t[i] = s[i + begin] /\ t[i] # NUL
  BY <1>1, <1>5, <1>7, <1>10, <1>11, Cells
<1>14. t[size] = NUL
  BY <1>10
<1>15. Terminated(t) /\ strlen(t) = size
  <2>1. \A i \in 0 .. (size - 1) : t[i] # NUL
    BY <1>5, <1>7, <1>13
  <2> HIDE DEF t, size
  <2> QED
    BY <1>10, <1>14, <2>1, StrlenIs
<1>16. \A i \in Cell : i >= n => t[i] = s[i]
  <2>1. s[n] = NUL
    BY StrlenFirst DEF n
  <2> QED
    BY <1>1, <1>10, <2>1, Cells
<1> HIDE DEF t
<1> QED
  BY <1>2, <1>5, <1>7, <1>8, <1>9, <1>12, <1>13, <1>15, <1>16 DEF n

-----------------------------------------------------------------------------
(* The keys.                                                               *)

LEMMA InitShellInv == ShellInit => ShellInv
<1> SUFFICES ASSUME ShellInit PROVE ShellInv
  OBVIOUS
<1>1. cmd \in Array /\ prev_cmd \in Array
  BY DEF ShellInit, Cleared, Array
<1>2. \A i \in Cell : cmd[i] = NUL /\ prev_cmd[i] = NUL
  BY DEF ShellInit, Cleared
<1>3. 0 \in Cell
  BY Cells
<1>4. LineSound
  BY <1>1, <1>2, <1>3, Cells DEF LineSound, NothingBehind, Terminated, ShellInit
<1> QED
  BY <1>4, ShellAssumption DEF ShellInv, ShellInit

LEMMA InsertSound ==
    ASSUME LineSound, typed \in Nat, NEW c \in Char, Insert(c)
    PROVE  LineSound'
<1> DEFINE m == strlen(cmd)
<1>1. /\ Terminated(cmd) /\ len < CMD_MAX_LEN /\ cmd' = strins(cmd, c, idx)
      /\ idx' = idx + 1 /\ len' = len + 1 /\ typed' = typed + 1 /\ prev_cmd' = prev_cmd
  BY DEF Insert, Reading
<1>2. len <= m /\ m \in Nat /\ len \in Nat /\ idx \in Nat /\ idx <= len
  BY <1>1, LineInString, Cells
<1>3. m <= typed
  BY <1>1, RoomLeft DEF LineSound
<1>4. /\ cmd' \in Array /\ cmd'[idx] = c
      /\ \A i \in 0 .. (idx - 1) : cmd'[i] = cmd[i]
      /\ \A i \in (idx + 1) .. len : cmd'[i] = cmd[i - 1] /\ cmd[i - 1] # NUL
      /\ \A i \in Cell : i > m => cmd'[i] = cmd[i]
  <2>1. cmd \in Array /\ idx \in 0 .. m /\ len \in idx .. m
    BY <1>2 DEF LineSound
  <2> HIDE DEF m
  <2> QED
    BY <1>1, <2>1, Inserted DEF m
<1> HIDE DEF m
<1>5. NothingBehind(cmd', typed')
  BY <1>1, <1>2, <1>3, <1>4, Cells DEF LineSound, NothingBehind
<1>6. NothingBehind(prev_cmd', typed')
  BY <1>1, Cells DEF LineSound, NothingBehind
<1>7. \A i \in 0 .. (len' - 1) : cmd'[i] # NUL
  <2> SUFFICES ASSUME NEW i \in 0 .. len PROVE cmd'[i] # NUL
    BY <1>1, <1>2
  <2>1. c # NUL
    BY ShellAssumption
  <2>2. \A j \in 0 .. (idx - 1) : cmd[j] # NUL
    BY <1>2 DEF LineSound
  <2>3. i \in 0 .. (idx - 1) \/ i = idx \/ i \in (idx + 1) .. len
    BY <1>2
  <2> QED
    BY <1>4, <2>1, <2>2, <2>3
<1>8. len' \in 0 .. CMD_MAX_LEN /\ idx' \in 0 .. len'
  BY <1>1, <1>2, Cells
<1>9. prev_cmd' \in Array /\ Terminated(prev_cmd')
  BY <1>1 DEF LineSound
<1> QED
  BY <1>4, <1>5, <1>6, <1>7, <1>8, <1>9 DEF LineSound

\* Backspace and delete: the character at n goes.
LEMMA DeleteSound ==
    ASSUME LineSound, typed \in Nat, Terminated(cmd), NEW n \in 0 .. (len - 1), cmd' = strdel(cmd, n),
           len' = len - 1, idx' \in 0 .. (len - 1), UNCHANGED <<prev_cmd, typed>>
    PROVE  LineSound'
<1> DEFINE m == strlen(cmd)
<1>1. len <= m /\ m \in Nat /\ len \in Nat /\ len > 0 /\ n \in Nat /\ n < len /\ len <= CMD_MAX_LEN
  BY LineInString, Cells DEF LineSound
<1>2. m <= typed
  BY RoomLeft DEF LineSound
<1>3. /\ cmd' \in Array
      /\ \A i \in 0 .. (n - 1) : cmd'[i] = cmd[i]
      /\ \A i \in n .. (len - 2) : cmd'[i] = cmd[i + 1] /\ cmd[i + 1] # NUL
      /\ \A i \in Cell : i >= m => cmd'[i] = cmd[i]
  <2>1. cmd \in Array /\ len \in 1 .. m /\ n \in 0 .. (len - 1)
    BY <1>1 DEF LineSound
  <2> HIDE DEF m
  <2> QED
    BY <2>1, Deleted DEF m
<1> HIDE DEF m
<1>4. NothingBehind(cmd', typed')
  BY <1>1, <1>2, <1>3, Cells DEF LineSound, NothingBehind
<1>5. \A i \in 0 .. (len' - 1) : cmd'[i] # NUL
  <2> SUFFICES ASSUME NEW i \in 0 .. (len - 2) PROVE cmd'[i] # NUL
    BY <1>1
  <2>1. \A j \in 0 .. (n - 1) : cmd[j] # NUL
    BY <1>1 DEF LineSound
  <2>2. i \in 0 .. (n - 1) \/ i \in n .. (len - 2)
    BY <1>1
  <2> QED
    BY <1>3, <2>1, <2>2
<1>6. len' \in 0 .. CMD_MAX_LEN /\ idx' \in 0 .. len'
  BY <1>1, Cells
<1>7. prev_cmd' \in Array /\ Terminated(prev_cmd') /\ NothingBehind(prev_cmd', typed')
  BY DEF LineSound
<1> QED
  BY <1>3, <1>4, <1>5, <1>6, <1>7 DEF LineSound

LEMMA BackspaceDeletes ==
    ASSUME LineSound, Backspace
    PROVE  /\ Terminated(cmd) /\ idx - 1 \in 0 .. (len - 1) /\ cmd' = strdel(cmd, idx - 1)
           /\ len' = len - 1 /\ idx' = idx - 1 /\ idx' \in 0 .. (len - 1)
           /\ UNCHANGED <<prev_cmd, typed, prompt>>
<1>1. len \in Nat /\ idx \in Nat /\ idx <= len /\ idx # 0
  BY Cells DEF LineSound, Backspace
<1> QED
  BY <1>1 DEF Backspace, Reading

LEMMA DeleteDeletes ==
    ASSUME LineSound, Delete
    PROVE  /\ Terminated(cmd) /\ idx \in 0 .. (len - 1) /\ cmd' = strdel(cmd, idx)
           /\ len' = len - 1 /\ idx' = idx /\ idx' \in 0 .. (len - 1)
           /\ UNCHANGED <<prev_cmd, typed, prompt>>
<1>1. len \in Nat /\ idx \in Nat /\ idx <= len /\ idx # len
  BY Cells DEF LineSound, Delete
<1> QED
  BY <1>1 DEF Delete, Reading

LEMMA MoveSound ==
    ASSUME LineSound, Move
    PROVE  LineSound' /\ idx' \in 0 .. len
<1>1. len \in Nat /\ idx \in Nat /\ idx <= len
  BY Cells DEF LineSound
<1>2. idx' \in 0 .. len /\ UNCHANGED <<cmd, prev_cmd, len, typed>>
  BY <1>1 DEF Move
<1> QED
  BY <1>2 DEF LineSound

LEMMA UpSound ==
    ASSUME LineSound, Up
    PROVE  LineSound'
<1> DEFINE n == strlen(prev_cmd)
<1>1. cmd' = prev_cmd /\ idx' = n /\ len' = n /\ UNCHANGED <<prev_cmd, typed>>
  BY DEF Up, Recall
<1>2. n \in Cell /\ \A i \in 0 .. (n - 1) : prev_cmd[i] # NUL
  BY StrlenFirst DEF LineSound
<1> HIDE DEF n
<1>3. n \in 0 .. CMD_MAX_LEN /\ n \in 0 .. n
  BY <1>2, Cells
<1> QED
  BY <1>1, <1>2, <1>3 DEF LineSound

LEMMA CutTailSound ==
    ASSUME LineSound, typed \in Nat, CutTail
    PROVE  LineSound'
<1>1. /\ cmd' = [i \in Cell |-> IF i \in idx .. (len - 1) THEN NUL ELSE cmd[i]]
      /\ len' = idx /\ idx' = idx /\ UNCHANGED <<prev_cmd, typed>>
  BY DEF CutTail
<1>2. len \in Nat /\ idx \in Nat /\ idx <= len /\ len <= CMD_MAX_LEN
  BY Cells DEF LineSound
<1>3. cmd' \in Array
  BY <1>1 DEF Array, LineSound
<1>4. \A i \in 0 .. (idx - 1) : i \in Cell /\ cmd'[i] = cmd[i] /\ cmd[i] # NUL
  BY <1>1, <1>2, Cells DEF LineSound
<1>5. NothingBehind(cmd', typed')
  BY <1>1 DEF NothingBehind, LineSound
<1>6. len' \in 0 .. CMD_MAX_LEN /\ idx' \in 0 .. len'
  BY <1>1, <1>2, Cells
<1> QED
  BY <1>1, <1>3, <1>4, <1>5, <1>6 DEF LineSound

\* Enter: the string is the line, and cmd is cleared.
LEMMA LineString ==
    ASSUME LineSound, len < CMD_MAX_LEN
    PROVE  /\ Line \in Array /\ Terminated(Line) /\ strlen(Line) = len
           /\ \A i \in 0 .. (len - 1) : Line[i] = cmd[i]
           /\ typed \in Nat => NothingBehind(Line, typed) /\ len <= typed
<1>1. len \in Cell /\ len \in Nat /\ cmd \in Array
  BY Cells DEF LineSound
<1>2. Line \in Array /\ Line[len] = NUL /\ \A i \in Cell \ {len} : Line[i] = cmd[i]
  BY <1>1 DEF Line, Array
<1>3. \A i \in 0 .. (len - 1) : i \in Cell \ {len} /\ Line[i] = cmd[i] /\ Line[i] # NUL
  BY <1>1, <1>2, Cells DEF LineSound
<1>4. Terminated(Line) /\ strlen(Line) = len
  BY <1>1, <1>2, <1>3, StrlenIs
<1>5. ASSUME typed \in Nat PROVE NothingBehind(Line, typed)
  BY <1>1, <1>2 DEF NothingBehind, LineSound
<1>6. typed \in Nat => len <= typed
  BY <1>4, <1>5, RoomLeft
<1> QED
  BY <1>2, <1>3, <1>4, <1>5, <1>6

LEMMA NewLineSound ==
    ASSUME LineSound, typed \in Nat, NewLine, prev_cmd' \in Array, Terminated(prev_cmd'),
           NothingBehind(prev_cmd', typed)
    PROVE  LineSound'
<1>1. cmd' \in Array /\ \A i \in Cell : cmd'[i] = NUL
  BY DEF NewLine, Cleared, Array
<1>2. idx' = 0 /\ len' = 0 /\ typed' = typed
  BY DEF NewLine
<1> QED
  BY <1>1, <1>2, Cells DEF LineSound, NothingBehind

LEMMA ParseSound ==
    ASSUME LineSound, typed \in Nat, parse_command
    PROVE  LineSound' /\ prompt' \in {"command", "exec", "cat"}
<1>1. len < CMD_MAX_LEN /\ NewLine
  BY DEF parse_command
<1>2. /\ Line \in Array /\ Terminated(Line) /\ strlen(Line) = len
      /\ NothingBehind(Line, typed) /\ len <= typed
  BY <1>1, LineString
<1>3. CASE len = 0
  <2>1. prev_cmd' = prev_cmd /\ prompt' = prompt /\ prompt = "command"
    BY <1>2, <1>3 DEF parse_command
  <2> QED
    BY <1>1, <2>1, NewLineSound DEF LineSound
<1>4. CASE len # 0
  <2>1. /\ prev_cmd' = trim(Line)
        /\ prompt' = CASE String(trim(Line)) = EXEC -> "exec"
                        [] String(trim(Line)) = CAT -> "cat"
                        [] OTHER -> "command"
    BY <1>2, <1>4 DEF parse_command
  <2>2. PICK begin \in Int, end \in Int :
          /\ 0 <= begin /\ begin <= len /\ end < len
          /\ trim(Line) \in Array /\ Terminated(trim(Line)) /\ strlen(trim(Line)) = end - begin + 1
          /\ \A i \in Cell : i >= len => trim(Line)[i] = Line[i]
    BY <1>2, <1>4, TrimmedArray
  <2>3. NothingBehind(trim(Line), typed)
    BY <1>2, <2>2, Cells DEF NothingBehind, LineSound
  <2>4. prompt' \in {"command", "exec", "cat"}
    BY <2>1
  <2> QED
    BY <1>1, <2>1, <2>2, <2>3, <2>4, NewLineSound
<1> QED
  BY <1>3, <1>4

LEMMA ShellNextInv ==
    ASSUME ShellInv, [ShellNext]_shellVars
    PROVE  ShellInv'
<1>1. typed \in Nat /\ typed <= MaxTyped /\ MaxTyped \in Nat /\ CMD_MAX_LEN \in Nat
  BY ShellAssumption DEF ShellInv
<1>2. typed' \in Nat /\ typed' <= MaxTyped /\ typed <= typed'
  BY <1>1 DEF ShellNext, shellVars, Insert, Backspace, Delete, Move, Up, Recall, CutTail, parse_command,
              FileName, NewLine
<1>3. prompt' \in {"command", "exec", "cat", "gone"}
  BY DEF ShellInv, ShellNext, shellVars, Insert, Backspace, Delete, Move, Up, Recall, CutTail, parse_command,
         FileName
<1>4. ASSUME typed' <= CMD_MAX_LEN PROVE LineSound'
  <2>1. LineSound
    BY <1>1, <1>2, <1>4 DEF ShellInv
  <2>2. ASSUME NEW c \in Char, Insert(c) PROVE LineSound'
    BY <1>1, <2>1, <2>2, InsertSound
  <2>3. CASE Backspace
    BY <1>1, <2>1, <2>3, BackspaceDeletes, DeleteSound
  <2>4. CASE Delete
    BY <1>1, <2>1, <2>4, DeleteDeletes, DeleteSound
  <2>5. CASE Move \/ Up \/ CutTail \/ parse_command
    BY <1>1, <2>1, <2>5, MoveSound, UpSound, CutTailSound, ParseSound
  <2>6. CASE FileName
    BY <1>1, <2>1, <2>6, NewLineSound DEF FileName, LineSound
  <2>7. CASE UNCHANGED shellVars
    BY <2>1, <2>7 DEF shellVars, LineSound
  <2> QED
    BY <2>2, <2>3, <2>4, <2>5, <2>6, <2>7 DEF ShellNext
<1> QED
  BY <1>2, <1>3, <1>4 DEF ShellInv

\* Until more than CMD_MAX_LEN characters were typed, the line, its length and
\* the cursor agree, the old line is terminated, and the arrays hold nothing
\* behind as many cells as characters were typed.
THEOREM ShellInvariantHolds == ShellSpec => []ShellInv
<1>1. ShellInit => ShellInv
  BY InitShellInv
<1>2. ShellInv /\ [ShellNext]_shellVars => ShellInv'
  BY ShellNextInv
<1> QED
  BY <1>1, <1>2, PTL DEF ShellSpec

\* strlen, strins, strdel and trim stay inside their arrays as long as fewer
\* characters were typed than the arrays have cells.
THEOREM StringsTerminated == ShellSpec => []StaysTerminated
<1>1. ShellInv => StaysTerminated
  <2> SUFFICES ASSUME ShellInv, typed < CMD_MAX_LEN PROVE Terminated(cmd) /\ Terminated(prev_cmd)
    BY DEF StaysTerminated
  <2>1. LineSound /\ typed \in Nat
    BY Cells DEF ShellInv
  <2> QED
    BY <2>1, RoomLeft DEF LineSound
<1> QED
  BY <1>1, ShellInvariantHolds, PTL

-----------------------------------------------------------------------------
(* The editor of texts.                                                    *)

Text(s, n) == [i \in 1 .. n |-> s[i - 1]]

LEMMA SequencesEqual ==
    ASSUME NEW S, NEW s \in Seq(S), NEW t \in Seq(S), Len(s) = Len(t),
           \A i \in 1 .. Len(s) : s[i] = t[i]
    PROVE  s = t
OBVIOUS

\* The line is a text of len characters.
LEMMA LineText ==
    ASSUME LineSound
    PROVE  /\ Text(cmd, len) \in Seq(Char) /\ Len(Text(cmd, len)) = len /\ len \in Nat
           /\ \A i \in 1 .. len : Text(cmd, len)[i] = cmd[i - 1]
<1>1. len \in Nat /\ len <= CMD_MAX_LEN
  BY Cells DEF LineSound
<1>2. \A i \in 1 .. len : cmd[i - 1] \in Char
  <2> SUFFICES ASSUME NEW i \in 1 .. len PROVE cmd[i - 1] \in Char
    OBVIOUS
  <2>1. i - 1 \in 0 .. (len - 1) /\ i - 1 \in Cell
    BY <1>1, Cells
  <2> QED
    BY <2>1 DEF LineSound, Array
<1>3. Text(cmd, len) \in [1 .. len -> Char]
  BY <1>2 DEF Text
<1> QED
  BY <1>1, <1>3 DEF Text

LEMMA LineTextNext ==
    ASSUME LineSound'
    PROVE  /\ Text(cmd', len') \in Seq(Char) /\ Len(Text(cmd', len')) = len'
           /\ \A i \in 1 .. len' : Text(cmd', len')[i] = cmd'[i - 1]
<1>1. (LineSound => /\ Text(cmd, len) \in Seq(Char) /\ Len(Text(cmd, len)) = len
                    /\ \A i \in 1 .. len : Text(cmd, len)[i] = cmd[i - 1])'
  BY LineText, PTL
<1> QED
  BY <1>1 DEF Text

LEMMA InsertedAt ==
    ASSUME NEW s \in Seq(Char), NEW c \in Char, NEW i \in 1 .. (Len(s) + 1)
    PROVE  /\ InsertAt(s, i, c) \in Seq(Char)
           /\ Len(InsertAt(s, i, c)) = Len(s) + 1
           /\ \A j \in 1 .. (Len(s) + 1) :
                InsertAt(s, i, c)[j] = IF j < i THEN s[j] ELSE IF j = i THEN c ELSE s[j - 1]
<1>1. /\ InsertAt(s, i, c) \in Seq(Char) /\ Len(InsertAt(s, i, c)) = Len(s) + 1
      /\ \A j \in 1 .. (Len(s) + 1) : InsertAt(s, i, c)[j] = EntryAfter(s, i, c, j)
  BY InsertEntry, Zenon
<1> QED
  BY <1>1, Zenon DEF EntryAfter

LEMMA RemovedAt ==
    ASSUME NEW S, NEW s \in Seq(S), NEW i \in 1 .. Len(s)
    PROVE  /\ RemoveAt(s, i) \in Seq(S) /\ Len(RemoveAt(s, i)) = Len(s) - 1
           /\ \A j \in 1 .. (Len(s) - 1) : RemoveAt(s, i)[j] = IF j < i THEN s[j] ELSE s[j + 1]
<1> DEFINE n == Len(s)
           l == SubSeq(s, 1, i - 1)
           r == SubSeq(s, i + 1, n)
<1>1. n \in Nat /\ i \in Nat /\ 1 <= i /\ i <= n
  OBVIOUS
<1>2. l \in Seq(S) /\ Len(l) = i - 1 /\ \A j \in 1 .. (i - 1) : l[j] = s[j]
  BY <1>1, SubSeqProperties
<1>3. r \in Seq(S) /\ Len(r) = n - i /\ \A j \in 1 .. (n - i) : r[j] = s[i + j]
  <2>1. CASE i = n
    BY <1>1, <2>1, SubSeqProperties
  <2>2. CASE i < n
    BY <1>1, <2>2, SubSeqProperties
  <2> QED
    BY <1>1, <2>1, <2>2
<1>4. RemoveAt(s, i) = l \o r
  BY DEF RemoveAt
<1> HIDE DEF l, r, n
<1>5. l \o r \in Seq(S) /\ Len(l \o r) = n - 1
  <2>1. l \o r \in Seq(S) /\ Len(l \o r) = Len(l) + Len(r)
    BY <1>2, <1>3, ConcatProperties
  <2> QED
    BY <1>1, <1>2, <1>3, <2>1
<1>6. ASSUME NEW j \in 1 .. (n - 1) PROVE (l \o r)[j] = IF j < i THEN s[j] ELSE s[j + 1]
  <2>1. CASE j < i
    BY <1>1, <1>2, <1>3, <2>1
  <2>2. CASE ~ j < i
    <3>1. j - Len(l) \in 1 .. Len(r) /\ i + (j - Len(l)) = j + 1 /\ j > Len(l)
      BY <1>1, <1>2, <1>3, <2>2
    <3>2. (l \o r)[j] = r[j - Len(l)]
      BY <1>1, <1>2, <1>3, <3>1
    <3> QED
      BY <1>3, <2>2, <3>1, <3>2
  <2> QED
    BY <2>1, <2>2
<1> QED
  BY <1>4, <1>5, <1>6 DEF n

LEMMA InsertEdits ==
    ASSUME LineSound, LineSound', typed \in Nat, NEW c \in Char, Insert(c)
    PROVE  /\ Text(cmd', len') = InsertAt(Text(cmd, len), idx + 1, c)
           /\ idx' = idx + 1 /\ UNCHANGED <<prev_cmd, prompt>> /\ prompt # "gone"
<1> DEFINE m == strlen(cmd)
           t == Text(cmd, len)
           u == Text(cmd', len')
           v == InsertAt(t, idx + 1, c)
<1>1. /\ Terminated(cmd) /\ cmd' = strins(cmd, c, idx) /\ idx' = idx + 1 /\ len' = len + 1
      /\ UNCHANGED <<prev_cmd, prompt>> /\ prompt # "gone"
  BY DEF Insert, Reading
<1>2. len <= m /\ m \in Nat /\ len \in Nat /\ idx \in Nat /\ idx <= len
  BY <1>1, LineInString, Cells
<1>3. /\ cmd'[idx] = c /\ \A i \in 0 .. (idx - 1) : cmd'[i] = cmd[i]
      /\ \A i \in (idx + 1) .. len : cmd'[i] = cmd[i - 1]
  <2>1. cmd \in Array /\ idx \in 0 .. m /\ len \in idx .. m
    BY <1>2 DEF LineSound
  <2> HIDE DEF m
  <2> QED
    BY <1>1, <2>1, Inserted DEF m
<1>4. t \in Seq(Char) /\ Len(t) = len /\ \A i \in 1 .. len : t[i] = cmd[i - 1]
  BY LineText
<1>5. u \in Seq(Char) /\ Len(u) = len + 1 /\ \A i \in 1 .. (len + 1) : u[i] = cmd'[i - 1]
  BY <1>1, LineTextNext
<1> HIDE DEF t, u, m
<1>6. /\ v \in Seq(Char) /\ Len(v) = len + 1
      /\ \A j \in 1 .. (len + 1) :
           v[j] = IF j < idx + 1 THEN t[j] ELSE IF j = idx + 1 THEN c ELSE t[j - 1]
  <2>1. idx + 1 \in 1 .. (Len(t) + 1)
    BY <1>2, <1>4
  <2> QED
    BY <1>4, <2>1, InsertedAt
<1> HIDE DEF v
<1>7. ASSUME NEW j \in 1 .. (len + 1) PROVE u[j] = v[j]
  <2>1. CASE j < idx + 1
    <3>1. j \in 1 .. len /\ j - 1 \in 0 .. (idx - 1)
      BY <1>2, <2>1
    <3> QED
      BY <1>3, <1>4, <1>5, <1>6, <2>1, <3>1
  <2>2. CASE j = idx + 1
    <3>1. j - 1 = idx
      BY <1>2, <2>2
    <3> QED
      BY <1>2, <1>3, <1>5, <1>6, <2>2, <3>1
  <2>3. CASE j > idx + 1
    <3>1. j - 1 \in 1 .. len /\ j - 1 \in (idx + 1) .. len /\ ~ j < idx + 1 /\ j # idx + 1
      BY <1>2, <2>3
    <3> QED
      BY <1>3, <1>4, <1>5, <1>6, <3>1
  <2> QED
    BY <1>2, <2>1, <2>2, <2>3
<1>8. u = v
  BY <1>5, <1>6, <1>7, SequencesEqual
<1> QED
  BY <1>1, <1>8 DEF u, v, t

LEMMA DeleteEdits ==
    ASSUME LineSound, LineSound', Terminated(cmd), NEW n \in 0 .. (len - 1), cmd' = strdel(cmd, n),
           len' = len - 1
    PROVE  Text(cmd', len') = RemoveAt(Text(cmd, len), n + 1)
<1> DEFINE m == strlen(cmd)
           t == Text(cmd, len)
           u == Text(cmd', len')
           k == n + 1
           v == RemoveAt(t, k)
<1>1. len <= m /\ m \in Nat /\ len \in Nat /\ len > 0 /\ n \in Nat /\ n < len
  BY LineInString, Cells
<1>2. /\ \A i \in 0 .. (n - 1) : cmd'[i] = cmd[i]
      /\ \A i \in n .. (len - 2) : cmd'[i] = cmd[i + 1]
  <2>1. cmd \in Array /\ len \in 1 .. m /\ n \in 0 .. (len - 1)
    BY <1>1 DEF LineSound
  <2> HIDE DEF m
  <2> QED
    BY <2>1, Deleted DEF m
<1>3. t \in Seq(Char) /\ Len(t) = len /\ \A i \in 1 .. len : t[i] = cmd[i - 1]
  BY LineText
<1>4. u \in Seq(Char) /\ Len(u) = len - 1 /\ \A i \in 1 .. (len - 1) : u[i] = cmd'[i - 1]
  BY LineTextNext
<1>5. k \in 1 .. Len(t) /\ k \in Nat
  BY <1>1, <1>3
<1> HIDE DEF t, u, m, k
<1>6. /\ v \in Seq(Char) /\ Len(v) = len - 1
      /\ \A j \in 1 .. (len - 1) : v[j] = IF j < k THEN t[j] ELSE t[j + 1]
  BY <1>3, <1>5, RemovedAt
<1> HIDE DEF v
<1>7. ASSUME NEW j \in 1 .. (len - 1) PROVE u[j] = v[j]
  <2>1. CASE j < k
    <3>1. j \in 1 .. len /\ j - 1 \in 0 .. (n - 1)
      BY <1>1, <2>1 DEF k
    <3> QED
      BY <1>2, <1>3, <1>4, <1>6, <2>1, <3>1
  <2>2. CASE ~ j < k
    <3>1. j + 1 \in 1 .. len /\ j - 1 \in n .. (len - 2) /\ (j - 1) + 1 = (j + 1) - 1
      BY <1>1, <2>2 DEF k
    <3> QED
      BY <1>2, <1>3, <1>4, <1>6, <2>2, <3>1, ZenonT(30)
  <2> QED
    BY <2>1, <2>2
<1>8. u = v
  BY <1>4, <1>6, <1>7, SequencesEqual
<1> QED
  BY <1>8 DEF u, v, t, k

LEMMA CutEdits ==
    ASSUME LineSound, LineSound', CutTail
    PROVE  Text(cmd', len') = SubSeq(Text(cmd, len), 1, idx)
<1> DEFINE t == Text(cmd, len)
           u == Text(cmd', len')
           v == SubSeq(t, 1, idx)
<1>1. /\ cmd' = [i \in Cell |-> IF i \in idx .. (len - 1) THEN NUL ELSE cmd[i]]
      /\ len' = idx
  BY DEF CutTail
<1>2. len \in Nat /\ idx \in Nat /\ idx <= len /\ len <= CMD_MAX_LEN
  BY Cells DEF LineSound
<1>3. t \in Seq(Char) /\ Len(t) = len /\ \A i \in 1 .. len : t[i] = cmd[i - 1]
  BY LineText
<1>4. u \in Seq(Char) /\ Len(u) = idx /\ \A i \in 1 .. idx : u[i] = cmd'[i - 1]
  BY <1>1, LineTextNext
<1> HIDE DEF t, u
<1>5. v \in Seq(Char) /\ Len(v) = idx /\ \A i \in 1 .. idx : v[i] = t[i]
  <2>1. \A i \in 1 .. idx : t[i] \in Char
    BY <1>2, <1>3
  <2> QED
    BY <1>2, <2>1, SubSeqProperties
<1> HIDE DEF v
<1>6. ASSUME NEW i \in 1 .. idx PROVE u[i] = v[i]
  <2>1. i - 1 \in Cell /\ i - 1 \notin idx .. (len - 1) /\ i \in 1 .. len
    BY <1>2, Cells
  <2> QED
    BY <1>1, <1>3, <1>4, <1>5, <2>1
<1>7. u = v
  BY <1>4, <1>5, <1>6, SequencesEqual
<1> QED
  BY <1>7 DEF u, v, t

LEMMA StringText ==
    ASSUME NEW s
    PROVE  String(s) = Text(s, strlen(s))
BY DEF String, Text

\* The text without the blanks at its ends, when something is left.
LEMMA TrimmedText ==
    ASSUME NEW t \in Seq(Char), NEW a \in 1 .. Len(t), NEW b \in 1 .. Len(t),
           \A i \in 1 .. Len(t) : t[i] \notin Blank => a <= i /\ i <= b,
           t[a] \notin Blank, t[b] \notin Blank
    PROVE  LET kept == {i \in DOMAIN t : t[i] \notin Blank}
           IN  kept # {} /\ Min(kept) = a /\ Max(kept) = b
<1> DEFINE kept == {i \in DOMAIN t : t[i] \notin Blank}
           n == Len(t)
<1>1. n \in Nat /\ DOMAIN t = 1 .. n
  OBVIOUS
<1>2. a \in kept /\ b \in kept /\ \A i \in kept : a <= i /\ i <= b
  BY <1>1
<1>3. kept \in SUBSET Nat /\ kept # {} /\ \A i \in kept : i <= n
  BY <1>1, <1>2
<1> HIDE DEF kept, n
<1>4. Min(kept) \in kept /\ \A y \in kept : Min(kept) <= y
  BY <1>3, MinIsLeast
<1>5. Max(kept) \in kept /\ \A y \in kept : y <= Max(kept)
  <2>1. kept \in SUBSET Int /\ n \in Int
    BY <1>1, <1>3
  <2> QED
    BY <1>3, <2>1, MaxIsGreatest
<1>6. Min(kept) = a /\ Max(kept) = b
  <2> DEFINE x == Min(kept)
             y == Max(kept)
  <2>1. x \in kept /\ y \in kept /\ x <= a /\ b <= y
    BY <1>2, <1>4, <1>5
  <2> HIDE DEF x, y
  <2>2. x = a /\ y = b
    BY <1>2, <1>3, <2>1
  <2> QED
    BY <2>2 DEF x, y
<1> QED
  BY <1>3, <1>6 DEF kept

LEMMA EditorText == Editor!Trimmed =
    LET t == Text(cmd, len)
        kept == {i \in DOMAIN t : t[i] \notin Blank}
    IN  IF kept = {} THEN <<>> ELSE SubSeq(t, Min(kept), Max(kept))
<1>1. \A S : Editor!Min(S) = Min(S) /\ Editor!Max(S) = Max(S)
  BY DEF Editor!Min, Editor!Max, Min, Max
<1> QED
  BY <1>1 DEF Editor!Trimmed, Text

LEMMA NoText ==
    ASSUME NEW s
    PROVE  Text(s, 0) = <<>>
BY DEF Text

\* trim on the array is what the editor does to the text.
LEMMA TrimEdits ==
    ASSUME LineSound, len < CMD_MAX_LEN, len # 0
    PROVE  String(trim(Line)) = Editor!Trimmed
<1> DEFINE t == Text(cmd, len)
<1>1. /\ Line \in Array /\ Terminated(Line) /\ strlen(Line) = len
      /\ \A i \in 0 .. (len - 1) : Line[i] = cmd[i]
  BY LineString
<1>2. /\ t \in Seq(Char) /\ Len(t) = len /\ len \in Nat
      /\ \A i \in 1 .. len : t[i] = cmd[i - 1]
  BY LineText
<1>3. PICK begin \in Int, end \in Int :
        /\ 0 <= begin /\ begin <= len /\ begin - 1 <= end /\ end < len
        /\ \A i \in 0 .. (len - 1) : Line[i] \notin Blank => begin <= i /\ i <= end
        /\ begin <= end => Line[begin] \notin Blank /\ Line[end] \notin Blank
        /\ \A i \in 0 .. (end - begin) : trim(Line)[i] = Line[i + begin]
        /\ strlen(trim(Line)) = end - begin + 1
  BY <1>1, TrimmedArray
<1>4. String(trim(Line)) = Text(trim(Line), end - begin + 1)
  BY <1>3, StringText
<1>5. \A i \in 1 .. len : t[i] = Line[i - 1]
  BY <1>1, <1>2
<1> HIDE DEF t
<1>6. DOMAIN t = 1 .. len
  BY <1>2
<1> DEFINE kept == {i \in DOMAIN t : t[i] \notin Blank}
<1>7. CASE begin > end
  <2>1. end - begin + 1 = 0
    BY <1>3, <1>7
  <2>2. kept = {}
    <3> SUFFICES ASSUME NEW i \in 1 .. len, t[i] \notin Blank PROVE FALSE
      BY <1>6
    <3>1. i - 1 \in 0 .. (len - 1) /\ Line[i - 1] \notin Blank
      BY <1>2, <1>5
    <3> QED
      BY <1>2, <1>3, <1>7, <3>1
  <2>3. Editor!Trimmed = <<>>
    BY <2>2, EditorText DEF t
  <2> QED
    BY <1>4, <2>1, <2>3, NoText
<1>8. CASE begin <= end
  <2> DEFINE a == begin + 1
             b == end + 1
             u == Text(trim(Line), end - begin + 1)
             v == SubSeq(t, a, b)
  <2>1. a \in 1 .. len /\ b \in 1 .. len /\ a <= b /\ end - begin + 1 = b - a + 1
    BY <1>2, <1>3, <1>8
  <2>2. t[a] \notin Blank /\ t[b] \notin Blank
    BY <1>3, <1>5, <1>8, <2>1
  <2>3. \A i \in 1 .. len : t[i] \notin Blank => a <= i /\ i <= b
    <3> SUFFICES ASSUME NEW i \in 1 .. len, t[i] \notin Blank PROVE a <= i /\ i <= b
      OBVIOUS
    <3>1. i - 1 \in 0 .. (len - 1) /\ Line[i - 1] \notin Blank
      BY <1>2, <1>5
    <3>2. begin <= i - 1 /\ i - 1 <= end
      BY <1>3, <3>1
    <3> QED
      BY <3>2
  <2>4. Editor!Trimmed = v
    <3>1. kept # {} /\ Min(kept) = a /\ Max(kept) = b
      <4> HIDE DEF a, b
      <4> QED
        BY <1>2, <2>1, <2>2, <2>3, TrimmedText
    <3> QED
      BY <3>1, EditorText DEF t
  <2>5. v \in Seq(Char) /\ Len(v) = b - a + 1 /\ \A i \in 1 .. (b - a + 1) : v[i] = t[a + i - 1]
    <3>1. \A i \in a .. b : t[i] \in Char
      BY <1>2, <2>1
    <3> HIDE DEF a, b
    <3> QED
      BY <2>1, <3>1, SubSeqProperties
  <2>6. ASSUME NEW i \in 1 .. (b - a + 1) PROVE trim(Line)[i - 1] = v[i] /\ v[i] \in Char
    <3>1. i - 1 \in 0 .. (end - begin) /\ (i - 1) + begin = (a + i - 1) - 1 /\ a + i - 1 \in 1 .. len
      BY <1>2, <1>3, <2>1
    <3>2. trim(Line)[i - 1] = Line[(i - 1) + begin]
      BY <1>3, <3>1
    <3>3. v[i] = t[a + i - 1] /\ t[a + i - 1] = Line[(a + i - 1) - 1]
      BY <1>5, <2>5, <3>1
    <3>4. t[a + i - 1] \in Char
      BY <1>2, <3>1
    <3> QED
      BY <3>1, <3>2, <3>3, <3>4
  <2>7. u = [i \in 1 .. (b - a + 1) |-> trim(Line)[i - 1]]
    BY <2>1 DEF Text
  <2> HIDE DEF u, v
  <2>8. b - a + 1 \in Nat
    BY <2>1
  <2>9. u \in [1 .. (b - a + 1) -> Char] /\ \A i \in 1 .. (b - a + 1) : u[i] = v[i]
    BY <2>6, <2>7
  <2>10. u \in Seq(Char) /\ Len(u) = b - a + 1
    <3> HIDE DEF a, b
    <3> QED
      BY <2>8, <2>9
  <2>11. u = v
    BY <2>5, <2>9, <2>10, SequencesEqual
  <2> QED
    BY <1>4, <2>4, <2>11 DEF u
<1> QED
  BY <1>3, <1>7, <1>8

LEMMA InitEdits == ShellInit => Editor!Init
<1> SUFFICES ASSUME ShellInit PROVE Editor!Init
  OBVIOUS
<1>1. Text(cmd, len) = <<>>
  BY NoText DEF ShellInit
<1>2. strlen(prev_cmd) = 0
  <2>1. 0 \in Cell
    BY Cells
  <2>2. prev_cmd[0] = NUL
    BY <2>1 DEF ShellInit, Cleared
  <2> QED
    BY <2>1, <2>2, StrlenIs
<1>3. String(prev_cmd) = <<>>
  BY <1>2, NoText, StringText
<1> QED
  BY <1>1, <1>3 DEF Editor!Init, Text, ShellInit

\* Each key does to the array what it does to the text.
LEMMA StepEdits ==
    ASSUME LineSound, LineSound', typed \in Nat, ShellNext
    PROVE  Editor!Next
<1> DEFINE t == Text(cmd, len)
           u == Text(cmd', len')
           k == String(prev_cmd)
<1>1. /\ t = [i \in 1 .. len |-> cmd[i - 1]]
      /\ u = [i \in 1 .. len' |-> cmd'[i - 1]]
  BY DEF Text
<1>2. /\ t \in Seq(Char) /\ Len(t) = len /\ len \in Nat /\ idx \in Nat /\ idx <= len
  BY LineText, Cells DEF LineSound
<1>3. \A s, i, c : Editor!InsertAt(s, i, c) = InsertAt(s, i, c) /\ Editor!RemoveAt(s, i) = RemoveAt(s, i)
  BY DEF Editor!InsertAt, InsertAt, Editor!RemoveAt, RemoveAt
<1>4. prompt # "gone"
  BY DEF ShellNext, Insert, Backspace, Delete, Move, Up, Recall, CutTail, parse_command, FileName, Reading
<1>5. ASSUME UNCHANGED prev_cmd PROVE String(prev_cmd') = k
  BY <1>5
<1> HIDE DEF t, u, k
<1>6. ASSUME NEW c \in Char, Insert(c) PROVE Editor!Insert
  <2>1. u = InsertAt(t, idx + 1, c) /\ idx' = idx + 1 /\ UNCHANGED <<prev_cmd, prompt>>
    BY <1>6, InsertEdits DEF t, u
  <2> QED
    BY <1>1, <1>3, <1>5, <2>1 DEF Editor!Insert, k
<1>7. CASE Backspace
  <2>1. /\ Terminated(cmd) /\ idx - 1 \in 0 .. (len - 1) /\ cmd' = strdel(cmd, idx - 1)
        /\ len' = len - 1 /\ idx' = idx - 1 /\ UNCHANGED <<prev_cmd, prompt>>
    BY <1>7, BackspaceDeletes
  <2>2. u = RemoveAt(t, idx' + 1)
    BY <2>1, DeleteEdits DEF t, u
  <2>3. idx' \in {idx - 1, idx} \cap Nat /\ idx' < Len(t)
    BY <1>2, <2>1
  <2> QED
    BY <1>1, <1>3, <1>4, <1>5, <2>1, <2>2, <2>3 DEF Editor!Remove1, Editor!Next, k
<1>8. CASE Delete
  <2>1. /\ Terminated(cmd) /\ idx \in 0 .. (len - 1) /\ cmd' = strdel(cmd, idx)
        /\ len' = len - 1 /\ idx' = idx /\ UNCHANGED <<prev_cmd, prompt>>
    BY <1>8, DeleteDeletes
  <2>2. u = RemoveAt(t, idx' + 1)
    BY <2>1, DeleteEdits DEF t, u
  <2>3. idx' \in {idx - 1, idx} \cap Nat /\ idx' < Len(t)
    BY <1>2, <2>1
  <2> QED
    BY <1>1, <1>3, <1>4, <1>5, <2>1, <2>2, <2>3 DEF Editor!Remove1, Editor!Next, k
<1>9. CASE Move
  <2>1. idx' \in 0 .. len /\ UNCHANGED <<cmd, prev_cmd, len, prompt>>
    BY <1>9, MoveSound DEF Move
  <2>2. u = t
    BY <2>1 DEF u, t
  <2> QED
    BY <1>1, <1>2, <1>4, <1>5, <2>1, <2>2 DEF Editor!Move, Editor!Next, k
<1>10. CASE Up
  <2>1. cmd' = prev_cmd /\ idx' = strlen(prev_cmd) /\ len' = strlen(prev_cmd) /\ UNCHANGED <<prev_cmd, prompt>>
    BY <1>10 DEF Up, Recall
  <2>2. u = k /\ Len(u) = idx'
    BY <2>1, StringText, LineTextNext DEF u, k
  <2> QED
    BY <1>1, <1>4, <1>5, <2>1, <2>2 DEF Editor!Recall, Editor!Next, k
<1>11. CASE CutTail
  <2>1. u = SubSeq(t, 1, idx) /\ UNCHANGED <<idx, prev_cmd, prompt>>
    BY <1>11, CutEdits DEF u, t, CutTail
  <2> QED
    BY <1>1, <1>4, <1>5, <2>1 DEF Editor!Cut, Editor!Next, k
<1>12. ASSUME NewLine PROVE u = <<>> /\ idx' = 0
  BY <1>12, NoText DEF NewLine, u
<1>13. CASE parse_command
  <2>1. /\ prompt = "command" /\ len < CMD_MAX_LEN /\ u = <<>> /\ idx' = 0
        /\ strlen(Line) = len
    BY <1>12, <1>13, LineString DEF parse_command
  <2>2. CASE len = 0
    <3>1. t = <<>> /\ UNCHANGED <<prev_cmd, prompt>>
      BY <1>13, <2>1, <2>2, NoText DEF parse_command, t
    <3>2. Editor!Trimmed = <<>>
      BY <3>1, EditorText DEF t
    <3>3. "command" = CASE Editor!Trimmed = EXEC -> "exec" [] Editor!Trimmed = CAT -> "cat"
                        [] OTHER -> "command"
      BY <3>2, ShellAssumption
    <3> QED
      BY <1>1, <1>4, <1>5, <2>1, <3>1, <3>3 DEF Editor!Enter, Editor!Next, k
  <2>3. CASE len # 0
    <3>1. t # <<>>
      BY <1>2, <2>3
    <3>2. /\ String(prev_cmd') = Editor!Trimmed
          /\ prompt' = CASE Editor!Trimmed = EXEC -> "exec" [] Editor!Trimmed = CAT -> "cat"
                          [] OTHER -> "command"
      <4>1. String(trim(Line)) = Editor!Trimmed
        BY <2>1, <2>3, TrimEdits
      <4> QED
        BY <1>13, <2>1, <2>3, <4>1 DEF parse_command
    <3> QED
      BY <1>1, <1>4, <2>1, <3>1, <3>2 DEF Editor!Enter, Editor!Next
  <2> QED
    BY <2>2, <2>3
<1>14. CASE FileName
  <2>1. /\ prompt \in {"exec", "cat"} /\ u = <<>> /\ idx' = 0 /\ UNCHANGED prev_cmd
        /\ prompt' \in {"command"} \cup (IF prompt = "exec" THEN {"gone"} ELSE {})
    BY <1>12, <1>14 DEF FileName
  <2> QED
    BY <1>1, <1>4, <1>5, <2>1 DEF Editor!Enter, Editor!Next, k
<1> QED
  BY <1>4, <1>6, <1>7, <1>8, <1>9, <1>10, <1>11, <1>13, <1>14 DEF ShellNext, Editor!Next

\* Up to CMD_MAX_LEN characters, the shell that edits and trims its arrays in
\* place implements the editor of texts.
THEOREM ShellEditsText ==
    ASSUME MaxTyped <= CMD_MAX_LEN
    PROVE  ShellSpec => EditsText
<1>1. ShellInit => Editor!Init
  BY InitEdits
<1>2. ShellInv => LineSound /\ typed \in Nat
  BY ShellAssumption DEF ShellInv
<1>3. ShellInv /\ ShellInv' /\ [ShellNext]_shellVars
      => [Editor!Next]_<<[i \in 1 .. len |-> cmd[i - 1]], idx, String(prev_cmd), prompt>>
  <2> SUFFICES ASSUME ShellInv, ShellInv', [ShellNext]_shellVars
               PROVE  [Editor!Next]_<<[i \in 1 .. len |-> cmd[i - 1]], idx, String(prev_cmd), prompt>>
    OBVIOUS
  <2>1. LineSound /\ LineSound' /\ typed \in Nat
    BY <1>2, ShellAssumption DEF ShellInv
  <2>2. CASE ShellNext
    BY <2>1, <2>2, StepEdits
  <2>3. CASE UNCHANGED shellVars
    BY <2>3 DEF shellVars
  <2> QED
    BY <2>2, <2>3
<1> QED
  BY <1>1, <1>3, ShellInvariantHolds, PTL DEF ShellSpec, EditsText, Editor!Spec

=============================================================================
