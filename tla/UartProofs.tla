----------------------------- MODULE UartProofs -----------------------------
(***************************************************************************)
(* Proofs about the UART for rings of every size: the indices stay in the  *)
(* ring, the room promised to the character layer is kept, no receive      *)
(* interrupt is lost on a driver, and the ring implements ByteQueue.       *)
(***************************************************************************)
EXTENDS Uart, SequenceTheorems, TLAPS

\* The type of uart, and the values of drv.
Uarts == [queue : [Slots -> Bytes], s : Slots, t : Slots,
          ufcon : SUBSET UfconBits, ready : BOOLEAN, urxh : Bytes,
          uintsp : SUBSET Ints, uintm : SUBSET Ints]

Drivers == {"free", "idle", "ack", "lower", "drain"}

\* The driver keeps the UART as it found it: the FIFO on, the receive
\* interrupt open.
DriverSetup ==
    drv # "free" => "FIFO" \in uart.ufcon /\ "RXD" \notin uart.uintm

\* RoomKept needs the types only.  NoLostReceive also needs that a driver
\* that goes idle has seen the last byte, and the driver's settings.
UartInv ==
    /\ UartTypeOK
    /\ RoomKept
    /\ DriverSetup
    /\ ReadyShown
    /\ NoLostReceive

-----------------------------------------------------------------------------
(* The ring. *)

\* A walk of less than one round from an index: at most one wrap.
LEMMA RingStep ==
    ASSUME NEW x \in Slots, NEW n \in 0 .. QUEUE_SIZE - 1
    PROVE  QI(x, n) = IF x + n < QUEUE_SIZE THEN x + n ELSE x + n - QUEUE_SIZE
<1>1. QUEUE_SIZE \in Nat /\ QUEUE_SIZE > 0
  BY QueueAssumption
<1>2. ASSUME NEW a \in Nat, a < QUEUE_SIZE PROVE a % QUEUE_SIZE = a
  BY <1>1, <1>2
<1>3. CASE x + n < QUEUE_SIZE
  BY <1>1, <1>2, <1>3 DEF QI, Slots
<1>4. CASE x + n >= QUEUE_SIZE
  <2>1. x + n - QUEUE_SIZE \in Nat /\ x + n - QUEUE_SIZE < QUEUE_SIZE
    BY <1>1, <1>4 DEF Slots
  <2>2. (x + n) % QUEUE_SIZE = x + n - QUEUE_SIZE
    BY <1>1, <1>4, <2>1 DEF Slots
  <2>. QED  BY <1>1, <1>4, <2>2 DEF QI, Slots
<1>. QED  BY <1>1, <1>3, <1>4 DEF Slots

\* An index stays in the ring.
LEMMA RingClosed ==
    ASSUME NEW x \in Slots, NEW n \in 0 .. QUEUE_SIZE - 1
    PROVE  QI(x, n) \in Slots
  BY RingStep, QueueAssumption DEF Slots

\* The number of elements is below the ring's size.
LEMMA CountType ==
    ASSUME UartTypeOK
    PROVE  queue_elem_count(uart) \in 0 .. QUEUE_SIZE - 1
  BY QueueAssumption DEF UartTypeOK, queue_elem_count, Slots

\* The distance from one index to another grows with the second, as long as
\* it does not go round and meet the first.
LEMMA RingDistance ==
    ASSUME NEW x \in Slots, NEW y \in Slots, NEW n \in Nat, NEW z,
           z = IF y + n < QUEUE_SIZE THEN y + n ELSE y + n - QUEUE_SIZE,
           (IF y >= x THEN y - x ELSE QUEUE_SIZE - x + y) + n < QUEUE_SIZE
    PROVE  (IF z >= x THEN z - x ELSE QUEUE_SIZE - x + z)
               = (IF y >= x THEN y - x ELSE QUEUE_SIZE - x + y) + n
<1>1. QUEUE_SIZE \in Nat /\ x \in 0 .. QUEUE_SIZE - 1
      /\ y \in 0 .. QUEUE_SIZE - 1
  BY QueueAssumption DEF Slots
<1>2. CASE y >= x /\ y + n < QUEUE_SIZE
  BY <1>1, <1>2
<1>3. CASE y >= x /\ ~(y + n < QUEUE_SIZE)
  BY <1>1, <1>3
<1>4. CASE ~(y >= x)
  BY <1>1, <1>4
<1>. QED  BY <1>2, <1>3, <1>4

\* A batch that fits is stored whole.
LEMMA PushedWhole ==
    ASSUME UartTypeOK, NEW n \in Nat, n <= queue_empty_count(uart),
           sent + n <= MaxBytes
    PROVE  /\ Stored(uart, n) = n
           /\ Pushed(uart, n, sent) =
                 [uart EXCEPT !.queue = Pushed(uart, n, sent).queue,
                              !.t = QI(uart.t, n)]
           /\ Pushed(uart, n, sent).queue \in [Slots -> Bytes]
           /\ QI(uart.t, n) \in Slots
           /\ queue_elem_count(Pushed(uart, n, sent))
                = queue_elem_count(uart) + n
<1>1. queue_elem_count(uart) \in 0 .. QUEUE_SIZE - 1
  BY CountType
<1>2. /\ QUEUE_SIZE \in Nat \ {0} /\ Size \in 1 .. QUEUE_SIZE
      /\ MaxBytes \in Nat /\ sent \in 0 .. MaxBytes
      /\ uart.s \in Slots /\ uart.t \in Slots
      /\ uart.queue \in [Slots -> Bytes]
  BY QueueAssumption DEF UartTypeOK
<1>3. n \in 0 .. QUEUE_SIZE - 1 /\ Stored(uart, n) = n
  BY <1>1, <1>2 DEF queue_empty_count, Stored
<1>4. QI(uart.t, n) \in Slots
  BY <1>2, <1>3, RingClosed
<1>5. ASSUME NEW i \in Slots, \E j \in 1 .. n : i = QI(uart.t, j - 1)
      PROVE  sent + (CHOOSE j \in 1 .. n : i = QI(uart.t, j - 1)) \in Bytes
  <2> DEFINE c == CHOOSE j \in 1 .. n : i = QI(uart.t, j - 1)
  <2>1. c \in 1 .. n
    BY <1>5
  <2>2. sent + c \in Bytes
    <3> HIDE DEF c
    <3>. QED  BY <1>2, <2>1 DEF Bytes, NoByte
  <2>. QED  BY <2>2
<1>6. Pushed(uart, n, sent).queue \in [Slots -> Bytes]
  <2> DEFINE q == [i \in Slots |->
                    IF \E j \in 1 .. n : i = QI(uart.t, j - 1)
                    THEN sent + CHOOSE j \in 1 .. n : i = QI(uart.t, j - 1)
                    ELSE uart.queue[i]]
  <2>1. Pushed(uart, n, sent).queue = q
    BY DEF Pushed, UartTypeOK
  <2>2. \A i \in Slots : uart.queue[i] \in Bytes
    BY <1>2
  <2>3. q \in [Slots -> Bytes]
    BY <1>5, <2>2, Zenon
  <2>. QED  BY <2>1, <2>3
<1>7. Pushed(uart, n, sent) =
          [uart EXCEPT !.queue = Pushed(uart, n, sent).queue,
                       !.t = QI(uart.t, n)]
  BY DEF Pushed, UartTypeOK
<1>8. /\ Pushed(uart, n, sent).s = uart.s
      /\ Pushed(uart, n, sent).t = QI(uart.t, n)
  BY DEF Pushed, UartTypeOK
<1>9. queue_elem_count(Pushed(uart, n, sent)) = queue_elem_count(uart) + n
  <2>1. QI(uart.t, n) = IF uart.t + n < QUEUE_SIZE
                        THEN uart.t + n ELSE uart.t + n - QUEUE_SIZE
    BY <1>2, <1>3, RingStep
  <2>2. queue_elem_count(uart) + n < Size
    BY <1>1, <1>2 DEF queue_empty_count
  <2>3. queue_elem_count(Pushed(uart, n, sent)) =
            IF QI(uart.t, n) >= uart.s THEN QI(uart.t, n) - uart.s
            ELSE QUEUE_SIZE - uart.s + QI(uart.t, n)
    BY <1>8 DEF queue_elem_count
  <2>4. queue_elem_count(uart) + n < QUEUE_SIZE
    BY <1>1, <1>2, <2>2
  <2>. QED  BY <1>2, <2>1, <2>3, <2>4, RingDistance DEF queue_elem_count
<1>. QED  BY <1>3, <1>4, <1>6, <1>7, <1>9

\* Taking a byte makes room for one.
LEMMA GotOne ==
    ASSUME UartTypeOK, ~queue_empty(uart)
    PROVE  /\ QI(uart.s, 1) \in Slots
           /\ Got(uart) = [uart EXCEPT !.s = QI(uart.s, 1),
                                       !.ready = Got(uart).ready]
           /\ Got(uart).ready \in BOOLEAN
           /\ Got(uart).ready = ~queue_empty(Got(uart))
           /\ queue_elem_count(Got(uart)) = queue_elem_count(uart) - 1
<1>1. queue_elem_count(uart) \in 1 .. QUEUE_SIZE - 1
  BY CountType, QueueAssumption DEF queue_empty
<1>2. /\ QUEUE_SIZE \in Nat /\ 1 \in 0 .. QUEUE_SIZE - 1
      /\ uart.s \in Slots /\ uart.t \in Slots
  BY <1>1, QueueAssumption DEF UartTypeOK
<1>3. /\ Got(uart).s = QI(uart.s, 1) /\ Got(uart).t = uart.t
      /\ Got(uart) = [uart EXCEPT !.s = QI(uart.s, 1),
                                  !.ready = Got(uart).ready]
  BY DEF Got, UartTypeOK
<1>4. queue_elem_count(Got(uart)) = queue_elem_count(uart) - 1
  BY <1>1, <1>2, <1>3, RingStep DEF queue_elem_count, Slots
<1>5. Got(uart).ready = ~queue_empty(Got(uart))
  BY <1>3 DEF Got, UartTypeOK, queue_empty, queue_elem_count
<1>6. Got(uart).ready \in BOOLEAN
  BY <1>5
<1>. QED  BY <1>2, <1>3, <1>4, <1>5, <1>6, RingClosed

-----------------------------------------------------------------------------
(* One lemma per group of actions. *)

\* The invariant holds when the UART is created.
LEMMA InitInv == UartInit => UartInv
<1> SUFFICES ASSUME UartInit PROVE UartInv
  OBVIOUS
<1>1. UartTypeOK
  <2>1. 0 \in Slots /\ NoByte \in Bytes /\ 0 \in 0 .. Size - 1
        /\ 0 \in 0 .. MaxBytes
    BY QueueAssumption DEF Slots, Bytes, NoByte
  <2>2. [i \in Slots |-> NoByte] \in [Slots -> Bytes]
    BY <2>1
  <2>. QED  BY <2>1, <2>2 DEF UartInit, UartTypeOK
<1>2. queue_elem_count(uart) = 0
  BY QueueAssumption DEF UartInit, queue_elem_count
<1>3. RoomKept
  BY <1>2, QueueAssumption DEF UartInit, RoomKept, queue_empty_count
<1>4. DriverSetup /\ ReadyShown /\ NoLostReceive
  BY DEF UartInit, DriverSetup, ReadyShown, NoLostReceive
<1>. QED  BY <1>1, <1>3, <1>4 DEF UartInv

\* Asking for the room changes the promise only.
LEMMA PollInv == UartInv /\ s5l8900_uart_can_receive => UartInv'
<1> SUFFICES ASSUME UartInv, s5l8900_uart_can_receive PROVE UartInv'
  OBVIOUS
<1>1. queue_empty_count(uart) \in 0 .. Size - 1
  <2>1. polled \in 0 .. Size - 1 /\ polled <= queue_empty_count(uart)
    BY DEF UartInv, UartTypeOK, RoomKept
  <2>. QED  BY <2>1, CountType, QueueAssumption
            DEF UartInv, queue_empty_count
<1>2. UartTypeOK'
  BY <1>1 DEF UartInv, s5l8900_uart_can_receive, UartTypeOK
<1>3. RoomKept'
  BY <1>1, QueueAssumption
     DEF s5l8900_uart_can_receive, RoomKept, queue_empty_count,
         queue_elem_count
<1>4. (DriverSetup /\ ReadyShown /\ NoLostReceive)'
  BY DEF UartInv, s5l8900_uart_can_receive, DriverSetup, ReadyShown,
         NoLostReceive, queue_empty, queue_elem_count
<1>. QED  BY <1>2, <1>3, <1>4 DEF UartInv

\* A batch uses up the promise, and raises the line on a driver.
LEMMA ReceiveInv ==
    ASSUME UartInv, NEW n \in 1 .. MaxBytes, s5l8900_uart_receive(n)
    PROVE  UartInv'
<1>1. /\ n \in Nat /\ n > 0 /\ n <= queue_empty_count(uart)
      /\ sent + n <= MaxBytes /\ UartTypeOK
      /\ sent \in Nat /\ MaxBytes \in Nat
  <2>1. /\ n \in Nat /\ n > 0 /\ n <= polled /\ polled \in Nat
        /\ sent + n <= MaxBytes /\ sent \in Nat /\ MaxBytes \in Nat
    BY QueueAssumption DEF UartInv, UartTypeOK, s5l8900_uart_receive
  <2>. QED  BY <2>1, CountType, QueueAssumption
            DEF UartInv, RoomKept, queue_empty_count
<1>2. /\ sent' = sent + n /\ polled' = 0 /\ got' = got /\ drv' = drv
      /\ sent' \in 0 .. MaxBytes /\ polled' \in 0 .. Size - 1
  BY <1>1, QueueAssumption DEF s5l8900_uart_receive
<1> DEFINE p == Pushed(uart, n, sent)
<1>3. CASE "FIFO" \in uart.ufcon
  <2>1. /\ p = [uart EXCEPT !.queue = p.queue, !.t = QI(uart.t, n)]
        /\ p.queue \in [Slots -> Bytes] /\ QI(uart.t, n) \in Slots
        /\ queue_elem_count(p) = queue_elem_count(uart) + n
        /\ Stored(uart, n) = n
    BY <1>1, PushedWhole
  <2> DEFINE r == [p EXCEPT !.ready = TRUE]
             u == s5l8900_uart_trigger_level(r)
  <2>2. s5l8900_uart_update(u)
    BY <1>3, <2>1 DEF s5l8900_uart_receive
  <2> HIDE DEF p
  <2>3. queue_elem_count(r) = queue_elem_count(uart) + n
    BY <2>1 DEF UartTypeOK, UartInv, queue_elem_count
  <2>4. ~queue_empty(r)
    BY <1>1, <2>3, CountType, QueueAssumption DEF queue_empty
  <2>5. u = [r EXCEPT !.uintsp = uart.uintsp \cup {"RXD"}]
    BY <1>1, <2>1, <2>4 DEF s5l8900_uart_trigger_level, UartTypeOK
  <2>6. /\ u \in Uarts
        /\ u.ready = TRUE /\ "RXD" \in u.uintsp
        /\ u.ufcon = uart.ufcon /\ u.uintm = uart.uintm
        /\ u.s = r.s /\ u.t = r.t
    BY <1>1, <2>1, <2>5 DEF Uarts, UartTypeOK, Ints
  <2> HIDE DEF u
  <2>7. /\ uart' \in Uarts
        /\ uart'.ready = TRUE /\ "RXD" \in uart'.uintsp
        /\ uart'.ufcon = uart.ufcon /\ uart'.uintm = uart.uintm
        /\ uart'.s = r.s /\ uart'.t = r.t
        /\ line' = (uart'.uintsp \ uart'.uintm # {})
    BY <2>2, <2>6 DEF Uarts, s5l8900_uart_update, Updated, Ints
  <2>8. UartTypeOK'
    BY <1>1, <1>2, <2>7 DEF Uarts, UartTypeOK
  <2>9. queue_elem_count(uart)' = queue_elem_count(uart) + n
    BY <2>3, <2>7 DEF queue_elem_count
  <2>10. RoomKept'
    BY <1>1, <1>2, <2>9, CountType, QueueAssumption
       DEF RoomKept, queue_empty_count
  <2>11. (DriverSetup /\ ReadyShown /\ NoLostReceive)'
    BY <1>2, <2>7 DEF UartInv, DriverSetup, ReadyShown, NoLostReceive
  <2>. QED  BY <2>8, <2>10, <2>11 DEF UartInv
<1>4. CASE "FIFO" \notin uart.ufcon
  <2>1. s5l8900_uart_update([uart EXCEPT !.urxh = sent + 1,
                                         !.uintsp = @ \cup {"RXD"},
                                         !.ready = TRUE])
    BY <1>4 DEF s5l8900_uart_receive
  <2>2. sent + 1 \in Bytes
    BY <1>1 DEF Bytes, NoByte
  <2>3. /\ UartTypeOK'
        /\ uart'.s = uart.s /\ uart'.t = uart.t
        /\ uart'.ufcon = uart.ufcon
    BY <1>1, <1>2, <2>1, <2>2
       DEF s5l8900_uart_update, Updated, UartTypeOK, Ints
  <2>4. RoomKept'
    BY <1>1, <1>2, <2>3, CountType, QueueAssumption
       DEF RoomKept, queue_empty_count, queue_elem_count
  <2>5. (DriverSetup /\ ReadyShown /\ NoLostReceive)'
    BY <1>2, <1>4, <2>3 DEF UartInv, DriverSetup, ReadyShown, NoLostReceive
  <2>. QED  BY <2>3, <2>4, <2>5 DEF UartInv
<1>. QED  BY <1>3, <1>4

\* Reading URXH, whoever does.
LEMMA ReadUrxhKeeps ==
    ASSUME UartInv, ReadUrxh, drv' \in Drivers
    PROVE  /\ UartTypeOK' /\ RoomKept'
           /\ uart'.ufcon = uart.ufcon /\ uart'.uintm = uart.uintm
           /\ "FIFO" \in uart.ufcon /\ ~queue_empty(uart)
                => uart'.ready = ~queue_empty(uart')
           /\ queue_empty(uart) => queue_empty(uart')
<1>1. UartTypeOK /\ RoomKept
  BY DEF UartInv
<1>2. CASE /\ "FIFO" \in uart.ufcon /\ ~queue_empty(uart)
           /\ uart' = Got(uart) /\ got' = uart.queue[uart.s]
           /\ UNCHANGED <<line, polled, sent>>
  <2>1. /\ QI(uart.s, 1) \in Slots
        /\ uart' = [uart EXCEPT !.s = QI(uart.s, 1),
                                !.ready = uart'.ready]
        /\ uart'.ready \in BOOLEAN
        /\ uart'.ready = ~queue_empty(uart')
        /\ queue_elem_count(uart') = queue_elem_count(uart) - 1
    BY <1>1, <1>2, GotOne
  <2>2. UartTypeOK' /\ uart'.ufcon = uart.ufcon /\ uart'.uintm = uart.uintm
    <3>1. got' \in Bytes
      BY <1>1, <1>2 DEF UartTypeOK
    <3>2. uart' \in Uarts
      BY <1>1, <2>1 DEF Uarts, UartTypeOK
    <3>. QED  BY <1>1, <1>2, <2>1, <3>1, <3>2 DEF UartTypeOK, Drivers
  <2>3. RoomKept'
    BY <1>1, <1>2, <2>1, CountType, QueueAssumption
       DEF RoomKept, queue_empty_count, UartTypeOK
  <2>. QED  BY <1>2, <2>1, <2>2, <2>3
<1>3. CASE /\ "FIFO" \in uart.ufcon /\ queue_empty(uart)
           /\ s5l8900_uart_update([uart EXCEPT !.uintsp = @ \cup {"ERROR"}])
           /\ UNCHANGED <<polled, sent, got>>
  <2>1. /\ UartTypeOK' /\ uart'.s = uart.s /\ uart'.t = uart.t
        /\ uart'.ufcon = uart.ufcon /\ uart'.uintm = uart.uintm
    BY <1>1, <1>3 DEF s5l8900_uart_update, Updated, UartTypeOK, Ints, Drivers
  <2>. QED  BY <1>1, <1>3, <2>1
            DEF RoomKept, queue_empty, queue_empty_count, queue_elem_count
<1>4. CASE /\ "FIFO" \notin uart.ufcon
           /\ uart' = [uart EXCEPT !.ready = FALSE]
           /\ UNCHANGED <<line, polled, sent, got>>
  <2>1. /\ UartTypeOK' /\ uart'.s = uart.s /\ uart'.t = uart.t
        /\ uart'.ufcon = uart.ufcon /\ uart'.uintm = uart.uintm
    BY <1>1, <1>4 DEF UartTypeOK, Drivers
  <2>. QED  BY <1>1, <1>4, <2>1
            DEF RoomKept, queue_empty, queue_empty_count, queue_elem_count
<1>. QED  BY <1>2, <1>3, <1>4 DEF ReadUrxh

\* A write that keeps the types, and the indices or clears them.
LEMMA WriteKeeps ==
    ASSUME UartInv, NEW STATE u, Write(u), drv' \in Drivers,
           u \in Uarts,
           (u.s = uart.s /\ u.t = uart.t) \/ (u.s = 0 /\ u.t = 0)
    PROVE  UartTypeOK' /\ RoomKept'
<1>1. UartTypeOK'
  BY DEF Uarts, Write, UartInv, UartTypeOK, Drivers
<1>2. CASE u.s = uart.s /\ u.t = uart.t
  BY <1>1, <1>2
     DEF UartInv, RoomKept, Write, queue_empty_count, queue_elem_count
<1>3. CASE u.s = 0 /\ u.t = 0
  <2>1. queue_elem_count(u) = 0
    BY <1>3 DEF queue_elem_count
  <2>2. polled' \in 0 .. Size - 1 /\ uart' = u
    BY DEF Write, UartInv, UartTypeOK
  <2>. QED  BY <1>1, <2>1, <2>2, QueueAssumption
            DEF RoomKept, queue_empty_count
<1>. QED  BY <1>1, <1>2, <1>3

\* A guest without a driver may do anything.
LEMMA FreeInv == UartInv /\ GuestFree => UartInv'
<1> SUFFICES ASSUME UartInv, GuestFree PROVE UartInv'
  OBVIOUS
<1>1. drv' = "free" /\ drv' \in Drivers
  BY DEF GuestFree, Drivers
<1>2. (DriverSetup /\ ReadyShown /\ NoLostReceive)'
  BY <1>1 DEF DriverSetup, ReadyShown, NoLostReceive
<1>3. 0 \in Slots
  BY QueueAssumption DEF Slots
<1>4. uart \in Uarts
  BY DEF Uarts, UartInv, UartTypeOK
<1>5. ReadUrxh => UartTypeOK' /\ RoomKept'
  BY <1>1, ReadUrxhKeeps
<1>6. ReadUerstat => UartTypeOK' /\ RoomKept'
  BY <1>1 DEF UartInv, UartTypeOK, RoomKept, ReadUerstat, Drivers,
              queue_empty_count, queue_elem_count
<1>7. ASSUME NEW v \in Ufcons, NEW clear \in BOOLEAN, WriteUfcon(v, clear)
      PROVE  UartTypeOK' /\ RoomKept'
  <2>1. v \in SUBSET UfconBits
    BY QueueAssumption
  <2> DEFINE u == IF clear THEN [uart EXCEPT !.ufcon = v, !.s = 0, !.t = 0]
                  ELSE [uart EXCEPT !.ufcon = v]
  <2>2. Write(u)
    BY <1>7 DEF WriteUfcon
  <2>3. /\ u \in Uarts
        /\ (u.s = uart.s /\ u.t = uart.t) \/ (u.s = 0 /\ u.t = 0)
    BY <1>3, <1>4, <2>1 DEF Uarts
  <2> HIDE DEF u
  <2>. QED  BY <1>1, <2>2, <2>3, WriteKeeps
<1>8. ASSUME NEW w \in SUBSET Ints, NEW m \in SUBSET Ints,
             Write([uart EXCEPT !.uintsp = w, !.uintm = m])
      PROVE  UartTypeOK' /\ RoomKept'
  <2> DEFINE u == [uart EXCEPT !.uintsp = w, !.uintm = m]
  <2>1. /\ u \in Uarts
        /\ u.s = uart.s /\ u.t = uart.t /\ Write(u)
    BY <1>4, <1>8 DEF Uarts
  <2> HIDE DEF u
  <2>. QED  BY <1>1, <2>1, WriteKeeps
<1>9. WriteUtxh => UartTypeOK' /\ RoomKept'
  <2>1. /\ uart.uintsp \cup {"TXD"} \in SUBSET Ints
        /\ uart.uintm \in SUBSET Ints
        /\ [uart EXCEPT !.uintsp = @ \cup {"TXD"}] =
           [uart EXCEPT !.uintsp = uart.uintsp \cup {"TXD"},
                        !.uintm = uart.uintm]
    BY <1>4 DEF Uarts, Ints
  <2>. QED  BY <1>8, <2>1 DEF WriteUtxh
<1>10. ASSUME NEW v \in IntValues
       PROVE  WriteUintp(v) \/ WriteUintsp(v) => UartTypeOK' /\ RoomKept'
  <2>1. v \in SUBSET Ints
    BY QueueAssumption
  <2>2. /\ uart.uintsp \ v \in SUBSET Ints /\ uart.uintm \in SUBSET Ints
        /\ [uart EXCEPT !.uintsp = @ \ v] =
           [uart EXCEPT !.uintsp = uart.uintsp \ v, !.uintm = uart.uintm]
        /\ [uart EXCEPT !.uintsp = v] =
           [uart EXCEPT !.uintsp = v, !.uintm = uart.uintm]
    BY <1>4 DEF Uarts
  <2>. QED  BY <1>8, <2>1, <2>2 DEF WriteUintp, WriteUintsp
<1>11. ASSUME NEW v \in Masks
       PROVE  WriteUintm(v) => UartTypeOK' /\ RoomKept'
  <2>1. v \in SUBSET Ints
    BY QueueAssumption
  <2>2. /\ uart.uintsp \in SUBSET Ints
        /\ [uart EXCEPT !.uintm = v] =
           [uart EXCEPT !.uintsp = uart.uintsp, !.uintm = v]
    BY <1>4 DEF Uarts
  <2>. QED  BY <1>8, <2>1, <2>2 DEF WriteUintm
<1>12. s5l8900_uart_reset => UartTypeOK' /\ RoomKept'
  <2> DEFINE u == [uart EXCEPT !.ufcon = {}, !.uintsp = {}, !.uintm = {},
                               !.ready = FALSE, !.s = 0, !.t = 0]
  <2>1. /\ u \in Uarts
        /\ u.s = 0 /\ u.t = 0
    BY <1>3, <1>4 DEF Uarts
  <2>2. s5l8900_uart_reset => Write(u)
    BY DEF s5l8900_uart_reset
  <2> HIDE DEF u
  <2>. QED  BY <1>1, <2>1, <2>2, WriteKeeps
<1>13. UartTypeOK' /\ RoomKept'
  BY <1>5, <1>6, <1>7, <1>9, <1>10, <1>11, <1>12 DEF GuestFree
<1>. QED  BY <1>2, <1>13 DEF UartInv

\* The driver starts on an empty queue.
LEMMA DriverStartsInv == UartInv /\ DriverStarts => UartInv'
<1> SUFFICES ASSUME UartInv, DriverStarts PROVE UartInv'
  OBVIOUS
<1>1. UartTypeOK' /\ RoomKept'
  BY DEF UartInv, DriverStarts, UartTypeOK, RoomKept, queue_empty_count,
         queue_elem_count
<1>2. (DriverSetup /\ ReadyShown /\ NoLostReceive)'
  BY DEF DriverStarts, DriverSetup, ReadyShown, NoLostReceive, queue_empty,
         queue_elem_count
<1>. QED  BY <1>1, <1>2 DEF UartInv

\* Clearing interrupts and sending leave everything but uintsp.
LEMMA PendingOnly ==
    ASSUME UartInv, NEW STATE w, w \in SUBSET Ints, drv' \in Drivers,
           Write([uart EXCEPT !.uintsp = w])
    PROVE  /\ UartTypeOK' /\ RoomKept'
           /\ uart'.ufcon = uart.ufcon /\ uart'.uintm = uart.uintm
           /\ uart'.ready = uart.ready /\ line' = line
           /\ queue_empty(uart') = queue_empty(uart)
<1> DEFINE u == [uart EXCEPT !.uintsp = w]
<1>1. /\ u \in Uarts /\ u.s = uart.s /\ u.t = uart.t
      /\ u.ufcon = uart.ufcon /\ u.uintm = uart.uintm
      /\ u.ready = uart.ready
  BY DEF UartInv, UartTypeOK, Uarts
<1>2. Write(u)
  OBVIOUS
<1> HIDE DEF u
<1>3. UartTypeOK' /\ RoomKept'
  BY <1>1, <1>2, WriteKeeps
<1>4. uart' = u /\ line' = line
  BY <1>2 DEF Write
<1>. QED  BY <1>1, <1>3, <1>4 DEF queue_empty, queue_elem_count

\* The handler clears and lowers before it drains, and goes idle only
\* when nothing is ready.
LEMMA HandlerInv == UartInv /\ HandlerStep => UartInv'
<1> SUFFICES ASSUME UartInv, HandlerStep PROVE UartInv'
  OBVIOUS
<1>1. CASE /\ drv = "idle" /\ line /\ drv' = "ack"
           /\ UNCHANGED <<uart, line, polled, sent, got>>
  <2>1. UartTypeOK' /\ RoomKept'
    BY <1>1 DEF UartInv, UartTypeOK, RoomKept, queue_empty_count,
                queue_elem_count
  <2>2. (DriverSetup /\ ReadyShown /\ NoLostReceive)'
    BY <1>1 DEF UartInv, DriverSetup, ReadyShown, NoLostReceive,
                queue_empty, queue_elem_count
  <2>. QED  BY <2>1, <2>2 DEF UartInv
<1>2. CASE drv = "ack" /\ WriteUintp(Ints) /\ drv' = "lower"
  <2>1. /\ uart.uintsp \ Ints \in SUBSET Ints /\ drv' \in Drivers
        /\ Write([uart EXCEPT !.uintsp = uart.uintsp \ Ints])
    BY <1>2 DEF UartInv, UartTypeOK, WriteUintp, Drivers
  <2>2. /\ UartTypeOK' /\ RoomKept'
        /\ uart'.ufcon = uart.ufcon /\ uart'.uintm = uart.uintm
        /\ uart'.ready = uart.ready
        /\ queue_empty(uart') = queue_empty(uart)
    BY <2>1, PendingOnly
  <2>3. (DriverSetup /\ ReadyShown /\ NoLostReceive)'
    BY <1>2, <2>2 DEF UartInv, DriverSetup, ReadyShown, NoLostReceive
  <2>. QED  BY <2>2, <2>3 DEF UartInv
<1>3. CASE drv = "lower" /\ ReadUerstat /\ drv' = "drain"
  <2>1. UartTypeOK' /\ RoomKept'
    BY <1>3 DEF UartInv, ReadUerstat, UartTypeOK, RoomKept,
                queue_empty_count, queue_elem_count
  <2>2. (DriverSetup /\ ReadyShown /\ NoLostReceive)'
    BY <1>3 DEF UartInv, ReadUerstat, DriverSetup, ReadyShown,
                NoLostReceive, queue_empty, queue_elem_count
  <2>. QED  BY <2>1, <2>2 DEF UartInv
<1>4. CASE drv = "drain" /\ uart.ready /\ ReadUrxh /\ UNCHANGED drv
  <2>1. drv' = "drain" /\ drv' \in Drivers /\ "FIFO" \in uart.ufcon
    BY <1>4 DEF Drivers, UartInv, DriverSetup
  <2>2. /\ UartTypeOK' /\ RoomKept'
        /\ uart'.ufcon = uart.ufcon /\ uart'.uintm = uart.uintm
        /\ ~queue_empty(uart) => uart'.ready = ~queue_empty(uart')
        /\ queue_empty(uart) => queue_empty(uart')
    BY <1>4, <2>1, ReadUrxhKeeps
  <2>3. (DriverSetup /\ ReadyShown /\ NoLostReceive)'
    BY <1>4, <2>1, <2>2
       DEF UartInv, DriverSetup, ReadyShown, NoLostReceive
  <2>. QED  BY <2>2, <2>3 DEF UartInv
<1>5. CASE /\ drv = "drain" /\ ~uart.ready /\ drv' = "idle"
           /\ UNCHANGED <<uart, line, polled, sent, got>>
  <2>1. UartTypeOK' /\ RoomKept'
    BY <1>5 DEF UartInv, UartTypeOK, RoomKept, queue_empty_count,
                queue_elem_count
  <2>2. (DriverSetup /\ ReadyShown /\ NoLostReceive)'
    BY <1>5 DEF UartInv, DriverSetup, ReadyShown, NoLostReceive,
                queue_empty, queue_elem_count
  <2>. QED  BY <2>1, <2>2 DEF UartInv
<1>. QED  BY <1>1, <1>2, <1>3, <1>4, <1>5 DEF HandlerStep

\* Transmitting leaves the receive side alone.
LEMMA SendsInv == UartInv /\ DriverSends => UartInv'
<1> SUFFICES ASSUME UartInv, DriverSends PROVE UartInv'
  OBVIOUS
<1>1. /\ uart.uintsp \cup {"TXD"} \in SUBSET Ints
      /\ drv' = drv /\ drv' \in Drivers
      /\ Write([uart EXCEPT !.uintsp = uart.uintsp \cup {"TXD"}])
  BY DEF UartInv, UartTypeOK, DriverSends, WriteUtxh, Ints, Drivers
<1>2. /\ UartTypeOK' /\ RoomKept'
      /\ uart'.ufcon = uart.ufcon /\ uart'.uintm = uart.uintm
      /\ uart'.ready = uart.ready /\ line' = line
      /\ queue_empty(uart') = queue_empty(uart)
  BY <1>1, PendingOnly
<1>3. (DriverSetup /\ ReadyShown /\ NoLostReceive)'
  BY <1>1, <1>2 DEF UartInv, DriverSetup, ReadyShown, NoLostReceive
<1>. QED  BY <1>2, <1>3 DEF UartInv

\* Steps that change nothing.
LEMMA StutterInv == UartInv /\ UNCHANGED uartVars => UartInv'
  BY DEF UartInv, uartVars, UartTypeOK, RoomKept, DriverSetup, ReadyShown,
         NoLostReceive, queue_empty, queue_empty_count, queue_elem_count

\* The invariant is inductive.
LEMMA StepInv == UartInv /\ [UartNext]_uartVars => UartInv'
  BY PollInv, ReceiveInv, FreeInv, DriverStartsInv, HandlerInv, SendsInv,
     StutterInv DEF UartNext

-----------------------------------------------------------------------------

\* The inductive invariant holds throughout.
LEMMA UartInvariant == UartSpec => []UartInv
  BY InitInv, StepInv, PTL DEF UartSpec

\* For rings of every size the indices of the receive queue stay in the
\* ring and the registers keep their types.
THEOREM UartTypes == UartSpec => []UartTypeOK
<1>1. UartInv => UartTypeOK
  BY DEF UartInv
<1>. QED  BY <1>1, UartInvariant, PTL

\* The room s5l8900_uart_can_receive promised is there when the batch is
\* delivered, however large the ring and however the guest reads, clears and
\* resets in between: s5l8900_uart_receive never drops a byte of it.
THEOREM UartRoomKept == UartSpec => []RoomKept
<1>1. UartInv => RoomKept
  BY DEF UartInv
<1>. QED  BY <1>1, UartInvariant, PTL

\* A batch is stored whole: the loop of s5l8900_uart_receive, whose bound
\* shrinks as it runs, never stops early on a batch that was polled for.
THEOREM UartStoresWhole ==
    UartSpec => [](\A n \in 0 .. polled : Stored(uart, n) = n)
<1>1. UartInv => \A n \in 0 .. polled : Stored(uart, n) = n
  BY CountType, QueueAssumption
     DEF UartInv, UartTypeOK, RoomKept, Stored, queue_empty_count
<1>. QED  BY <1>1, UartInvariant, PTL

\* A driver that lowers the line by reading UERSTAT, and only then drains the
\* queue, is never idle with bytes waiting and the line down.
THEOREM UartNoLostReceive == UartSpec => []NoLostReceive
<1>1. UartInv => NoLostReceive
  BY DEF UartInv
<1>. QED  BY <1>1, UartInvariant, PTL

-----------------------------------------------------------------------------
(* The ring implements ByteQueue.  The waiting bytes as a sequence. *)

\* The bytes in the ring of u, oldest first; Waiting for any state.
InRing(u) == [i \in 1 .. queue_elem_count(u) |-> u.queue[QI(u.s, i - 1)]]

\* They are a sequence of bytes, as long as queue_elem_count says.
LEMMA InRingLen ==
    ASSUME NEW u, u.s \in Slots, u.t \in Slots, u.queue \in [Slots -> Bytes]
    PROVE  /\ InRing(u) \in Seq(Bytes)
           /\ Len(InRing(u)) = queue_elem_count(u)
           /\ \A i \in 1 .. queue_elem_count(u) :
                 InRing(u)[i] = u.queue[QI(u.s, i - 1)]
<1> DEFINE c == queue_elem_count(u)
<1>1. QUEUE_SIZE \in Nat /\ c \in 0 .. QUEUE_SIZE - 1
  BY QueueAssumption DEF queue_elem_count, Slots
<1> HIDE DEF c
<1>2. \A i \in 1 .. c : u.queue[QI(u.s, i - 1)] \in Bytes
  <2> TAKE i \in 1 .. c
  <2>1. i - 1 \in 0 .. QUEUE_SIZE - 1
    BY <1>1
  <2>. QED  BY <2>1, RingClosed
<1>3. InRing(u) = [i \in 1 .. c |-> u.queue[QI(u.s, i - 1)]]
  BY DEF InRing, c
<1>4. c \in Nat
  BY <1>1
<1>5. InRing(u) \in Seq(Bytes) /\ Len(InRing(u)) = c
  BY <1>2, <1>3, <1>4
<1>. QED  BY <1>3, <1>5 DEF c

\* The same for the bytes that wait now,
LEMMA WaitingLen ==
    ASSUME UartTypeOK
    PROVE  /\ Waiting \in Seq(Bytes)
           /\ Len(Waiting) = queue_elem_count(uart)
           /\ \A i \in 1 .. queue_elem_count(uart) :
                 Waiting[i] = uart.queue[QI(uart.s, i - 1)]
<1>1. /\ uart.s \in Slots /\ uart.t \in Slots
      /\ uart.queue \in [Slots -> Bytes]
  BY DEF UartTypeOK
<1>2. Waiting = InRing(uart)
  BY DEF Waiting, InRing
<1>. QED  BY <1>1, <1>2, InRingLen

\* and after a step.
LEMMA WaitingLenNext ==
    ASSUME UartTypeOK'
    PROVE  /\ Waiting' \in Seq(Bytes)
           /\ Len(Waiting') = queue_elem_count(uart')
           /\ \A i \in 1 .. queue_elem_count(uart') :
                 Waiting'[i] = uart'.queue[QI(uart'.s, i - 1)]
<1>1. /\ uart'.s \in Slots /\ uart'.t \in Slots
      /\ uart'.queue \in [Slots -> Bytes]
  BY DEF UartTypeOK
<1>2. Waiting' = InRing(uart')
  BY DEF Waiting, InRing
<1>. QED  BY <1>1, <1>2, InRingLen

\* queue_empty says whether bytes wait.
LEMMA EmptyWaiting ==
    ASSUME UartTypeOK PROVE Waiting = <<>> <=> queue_empty(uart)
  BY WaitingLen, CountType, QueueAssumption DEF queue_empty

\* The slots of a batch are the free ones after the waiting bytes, in order.
LEMMA PushedSlots ==
    ASSUME UartTypeOK, NEW n \in Nat, n <= queue_empty_count(uart)
    PROVE  /\ \A i \in 1 .. queue_elem_count(uart) :
                 Pushed(uart, n, sent).queue[QI(uart.s, i - 1)]
                   = uart.queue[QI(uart.s, i - 1)]
           /\ \A k \in 1 .. n :
                 /\ QI(uart.s, queue_elem_count(uart) + k - 1)
                     = QI(uart.t, k - 1)
                 /\ Pushed(uart, n, sent).queue[QI(uart.t, k - 1)] = sent + k
<1> DEFINE c == queue_elem_count(uart)
<1>1. /\ c \in 0 .. QUEUE_SIZE - 1 /\ QUEUE_SIZE \in Nat
      /\ uart.s \in Slots /\ uart.t \in Slots
      /\ c + n < QUEUE_SIZE
      /\ c = IF uart.t >= uart.s THEN uart.t - uart.s
             ELSE QUEUE_SIZE - uart.s + uart.t
  BY CountType, QueueAssumption
     DEF UartTypeOK, queue_empty_count, queue_elem_count
<1> HIDE DEF c
<1>2. \A i \in Slots :
          Pushed(uart, n, sent).queue[i] =
              IF \E j \in 1 .. n : i = QI(uart.t, j - 1)
              THEN sent + CHOOSE j \in 1 .. n : i = QI(uart.t, j - 1)
              ELSE uart.queue[i]
  BY DEF Pushed, UartTypeOK
<1>3. ASSUME NEW k \in 1 .. n
      PROVE  /\ QI(uart.s, c + k - 1) = QI(uart.t, k - 1)
             /\ QI(uart.t, k - 1) \in Slots
             /\ QI(uart.t, k - 1) = IF uart.t + k - 1 < QUEUE_SIZE
                    THEN uart.t + k - 1 ELSE uart.t + k - 1 - QUEUE_SIZE
  <2>1. k - 1 \in 0 .. QUEUE_SIZE - 1 /\ c + k - 1 \in 0 .. QUEUE_SIZE - 1
    BY <1>1
  <2>2. QI(uart.t, k - 1) = IF uart.t + (k - 1) < QUEUE_SIZE
              THEN uart.t + (k - 1) ELSE uart.t + (k - 1) - QUEUE_SIZE
    BY <1>1, <2>1, RingStep
  <2>3. QI(uart.s, c + k - 1) = IF uart.s + (c + k - 1) < QUEUE_SIZE
              THEN uart.s + (c + k - 1)
              ELSE uart.s + (c + k - 1) - QUEUE_SIZE
    BY <1>1, <2>1, RingStep
  <2>. QED  BY <1>1, <2>1, <2>2, <2>3 DEF Slots
<1>4. ASSUME NEW i \in 1 .. c
      PROVE  Pushed(uart, n, sent).queue[QI(uart.s, i - 1)]
                 = uart.queue[QI(uart.s, i - 1)]
  <2>1. i - 1 \in 0 .. QUEUE_SIZE - 1
    BY <1>1
  <2>2. /\ QI(uart.s, i - 1) \in Slots
        /\ QI(uart.s, i - 1) = IF uart.s + (i - 1) < QUEUE_SIZE
               THEN uart.s + (i - 1) ELSE uart.s + (i - 1) - QUEUE_SIZE
    BY <1>1, <2>1, RingStep, RingClosed
  <2>3. ASSUME NEW j \in 1 .. n PROVE QI(uart.s, i - 1) # QI(uart.t, j - 1)
    BY <1>1, <1>3, <2>2 DEF Slots
  <2>. QED  BY <1>2, <2>2, <2>3
<1>5. ASSUME NEW k \in 1 .. n
      PROVE  Pushed(uart, n, sent).queue[QI(uart.t, k - 1)] = sent + k
  <2> DEFINE m == CHOOSE j \in 1 .. n : QI(uart.t, k - 1) = QI(uart.t, j - 1)
  <2>1. m \in 1 .. n /\ QI(uart.t, k - 1) = QI(uart.t, m - 1)
    OBVIOUS
  <2>2. Pushed(uart, n, sent).queue[QI(uart.t, k - 1)] = sent + m
    BY <1>2, <1>3
  <2> HIDE DEF m
  <2>3. m = k
    BY <1>1, <1>3, <2>1 DEF Slots
  <2>. QED  BY <2>2, <2>3
<1>. QED  BY <1>3, <1>4, <1>5 DEF c

\* A batch is appended to the waiting bytes.
LEMMA WaitingPut ==
    ASSUME UartTypeOK, UartTypeOK', NEW n \in Nat,
           n <= queue_empty_count(uart), sent + n <= MaxBytes,
           uart'.queue = Pushed(uart, n, sent).queue,
           uart'.s = uart.s,
           queue_elem_count(uart') = queue_elem_count(uart) + n
    PROVE  Waiting' = Waiting \o [i \in 1 .. n |-> sent + i]
<1> DEFINE c == queue_elem_count(uart)
           b == [i \in 1 .. n |-> sent + i]
<1>1. /\ c \in Nat /\ sent \in Nat /\ MaxBytes \in Nat
  BY CountType, QueueAssumption DEF UartTypeOK
<1> HIDE DEF c
<1>2. b \in Seq(Bytes) /\ Len(b) = n /\ \A i \in 1 .. n : b[i] = sent + i
  <2>1. \A i \in 1 .. n : sent + i \in Bytes
    BY <1>1 DEF Bytes, NoByte
  <2>. QED  BY <2>1
<1> HIDE DEF b
<1>3. /\ Waiting \in Seq(Bytes) /\ Len(Waiting) = c
      /\ \A i \in 1 .. c : Waiting[i] = uart.queue[QI(uart.s, i - 1)]
  BY WaitingLen DEF c
<1>4. /\ Waiting' \in Seq(Bytes) /\ Len(Waiting') = c + n
      /\ \A i \in 1 .. c + n : Waiting'[i] = uart'.queue[QI(uart'.s, i - 1)]
  BY WaitingLenNext DEF c
<1>5. /\ Waiting \o b \in Seq(Bytes) /\ Len(Waiting \o b) = c + n
      /\ \A i \in 1 .. c + n : (Waiting \o b)[i] =
             IF i <= c THEN Waiting[i] ELSE b[i - c]
  BY <1>2, <1>3, ConcatProperties
<1>6. ASSUME NEW i \in 1 .. c + n PROVE Waiting'[i] = (Waiting \o b)[i]
  <2>1. (Waiting \o b)[i] = IF i <= c THEN Waiting[i] ELSE b[i - c]
    BY <1>5
  <2>2. CASE i <= c
    <3>1. i \in 1 .. c
      BY <1>1, <2>2
    <3>2. Waiting'[i] = uart.queue[QI(uart.s, i - 1)]
      BY <1>4, <3>1, PushedSlots DEF c
    <3>. QED  BY <1>3, <2>1, <2>2, <3>1, <3>2
  <2>3. CASE ~(i <= c)
    <3>1. i - c \in 1 .. n /\ c + (i - c) - 1 = i - 1
      BY <1>1, <2>3
    <3>2. Waiting'[i] = sent + (i - c)
      BY <1>4, <3>1, PushedSlots DEF c
    <3>. QED  BY <1>2, <2>1, <2>3, <3>1, <3>2
  <2>. QED  BY <2>2, <2>3
<1>. QED  BY <1>4, <1>5, <1>6, SeqEqual DEF b

\* Reading URXH takes the first of the waiting bytes.
LEMMA WaitingTake ==
    ASSUME UartTypeOK, UartTypeOK', ~queue_empty(uart), uart' = Got(uart)
    PROVE  /\ Waiting # <<>>
           /\ uart.queue[uart.s] = Head(Waiting)
           /\ Waiting' = Tail(Waiting)
<1> DEFINE c == queue_elem_count(uart)
<1>1. c \in 1 .. QUEUE_SIZE - 1 /\ QUEUE_SIZE \in Nat /\ uart.s \in Slots
  BY CountType, QueueAssumption DEF queue_empty, UartTypeOK
<1>2. /\ uart'.s = QI(uart.s, 1) /\ uart'.queue = uart.queue
      /\ queue_elem_count(uart') = c - 1
  BY GotOne DEF UartTypeOK
<1> HIDE DEF c
<1>3. /\ Waiting \in Seq(Bytes) /\ Len(Waiting) = c
      /\ \A i \in 1 .. c : Waiting[i] = uart.queue[QI(uart.s, i - 1)]
  BY WaitingLen DEF c
<1>4. /\ Waiting' \in Seq(Bytes) /\ Len(Waiting') = c - 1
      /\ \A i \in 1 .. c - 1 : Waiting'[i] = uart'.queue[QI(uart'.s, i - 1)]
  BY <1>2, WaitingLenNext
<1>5. Waiting # <<>> /\ Head(Waiting) = Waiting[1]
  BY <1>1, <1>3
<1>6. uart.queue[uart.s] = Head(Waiting)
  <2>1. 0 \in 0 .. QUEUE_SIZE - 1 /\ QI(uart.s, 0) = uart.s
    BY <1>1, RingStep DEF Slots
  <2>. QED  BY <1>1, <1>3, <1>5, <2>1
<1>7. /\ Tail(Waiting) \in Seq(Bytes) /\ Len(Tail(Waiting)) = c - 1
      /\ \A i \in 1 .. c - 1 : Tail(Waiting)[i] = Waiting[i + 1]
  BY <1>3, <1>5, HeadTailProperties
<1>8. ASSUME NEW i \in 1 .. c - 1 PROVE Waiting'[i] = Tail(Waiting)[i]
  <2>1. /\ i \in Nat /\ i \in 0 .. QUEUE_SIZE - 1
        /\ i - 1 \in 0 .. QUEUE_SIZE - 1 /\ 1 \in 0 .. QUEUE_SIZE - 1
        /\ i + 1 \in 1 .. c /\ (i + 1) - 1 = i
    BY <1>1
  <2>2. QI(QI(uart.s, 1), i - 1) = QI(uart.s, i)
    <3>1. QI(uart.s, 1) \in Slots
      BY <1>1, <2>1, RingClosed
    <3>2. /\ QI(uart.s, 1) = IF uart.s + 1 < QUEUE_SIZE
                 THEN uart.s + 1 ELSE uart.s + 1 - QUEUE_SIZE
          /\ QI(uart.s, i) = IF uart.s + i < QUEUE_SIZE
                 THEN uart.s + i ELSE uart.s + i - QUEUE_SIZE
      BY <1>1, <2>1, RingStep
    <3>3. QI(QI(uart.s, 1), i - 1) =
             IF QI(uart.s, 1) + (i - 1) < QUEUE_SIZE
             THEN QI(uart.s, 1) + (i - 1)
             ELSE QI(uart.s, 1) + (i - 1) - QUEUE_SIZE
      BY <2>1, <3>1, RingStep
    <3>. QED  BY <1>1, <2>1, <3>1, <3>2, <3>3 DEF Slots
  <2>3. Waiting'[i] = uart.queue[QI(uart.s, i)]
    BY <1>2, <1>4, <2>2
  <2>4. Tail(Waiting)[i] = uart.queue[QI(uart.s, i)]
    BY <1>3, <1>7, <2>1
  <2>. QED  BY <2>3, <2>4
<1>. QED  BY <1>4, <1>5, <1>6, <1>7, <1>8, SeqEqual

\* What does not touch the ring, sent or got leaves the queue as it is.
LEMMA QueueStutters ==
    ASSUME uart'.queue = uart.queue, uart'.s = uart.s, uart'.t = uart.t,
           uart'.ufcon = uart.ufcon, sent' = sent, got' = got
    PROVE  UNCHANGED Queue!vars
<1>1. Waiting' = Waiting
  BY DEF Waiting, queue_elem_count
<1>. QED  BY <1>1 DEF Queue!vars

\* Writing UFCON and resetting the UART.
LEMMA QueueSwitches ==
    ASSUME UartInv, NEW STATE u, Write(u), u \in Uarts,
           \/ u.queue = uart.queue /\ u.s = uart.s /\ u.t = uart.t
           \/ u.s = 0 /\ u.t = 0
    PROVE  Queue!Next
<1>1. /\ uart' = u /\ sent' = sent /\ got' = got
  BY DEF Write
<1>2. Waiting' \in {Waiting, <<>>}
  <2>1. CASE u.queue = uart.queue /\ u.s = uart.s /\ u.t = uart.t
    BY <1>1, <2>1 DEF Waiting, queue_elem_count
  <2>2. CASE u.s = 0 /\ u.t = 0
    <3>1. queue_elem_count(uart') = 0
      BY <1>1, <2>2 DEF queue_elem_count
    <3>2. Waiting' = [i \in 1 .. 0 |-> uart'.queue[QI(uart'.s, i - 1)]]
      BY <3>1 DEF Waiting
    <3>. QED  BY <3>2
  <2>. QED  BY <2>1, <2>2
<1>3. ("FIFO" \in uart.ufcon)' \in BOOLEAN
  OBVIOUS
<1>4. Queue!Switch
  BY <1>1, <1>2, <1>3 DEF Queue!Switch
<1>. QED  BY <1>4 DEF Queue!Next

\* Receiving a batch puts it into the queue, or misses it without the FIFO.
LEMMA QueueReceives ==
    ASSUME UartInv, UartTypeOK', NEW n \in 1 .. MaxBytes,
           s5l8900_uart_receive(n)
    PROVE  Queue!Next
<1>1. /\ n \in Nat /\ n <= queue_empty_count(uart)
      /\ sent + n <= MaxBytes /\ UartTypeOK
      /\ sent' = sent + n /\ got' = got
      /\ n \in 1 .. Size - 1
      /\ queue_elem_count(uart) + n <= Size - 1
  <2>1. /\ n \in Nat /\ n > 0 /\ n <= polled /\ polled \in 0 .. Size - 1
        /\ sent + n <= MaxBytes /\ UartTypeOK
        /\ sent' = sent + n /\ got' = got
    BY QueueAssumption DEF UartInv, UartTypeOK, s5l8900_uart_receive
  <2>. QED  BY <2>1, CountType, QueueAssumption
            DEF UartInv, RoomKept, queue_empty_count
<1>2. CASE "FIFO" \in uart.ufcon
  <2> DEFINE p == Pushed(uart, n, sent)
             r == [p EXCEPT !.ready = TRUE]
  <2>1. /\ p = [uart EXCEPT !.queue = p.queue, !.t = QI(uart.t, n)]
        /\ p.queue \in [Slots -> Bytes] /\ QI(uart.t, n) \in Slots
        /\ queue_elem_count(p) = queue_elem_count(uart) + n
        /\ Stored(uart, n) = n
    BY <1>1, PushedWhole
  <2>2. s5l8900_uart_update(s5l8900_uart_trigger_level(r))
    BY <1>2, <2>1 DEF s5l8900_uart_receive
  <2> HIDE DEF p
  <2>3. r \in Uarts /\ r.queue = p.queue /\ r.s = uart.s /\ r.t = p.t
        /\ r.ufcon = uart.ufcon /\ p.s = uart.s
    BY <1>1, <2>1 DEF UartTypeOK, Uarts
  <2> HIDE DEF r
  <2>4. /\ uart'.queue = p.queue /\ uart'.s = uart.s /\ uart'.t = p.t
        /\ uart'.ufcon = uart.ufcon
    BY <2>2, <2>3
       DEF s5l8900_uart_update, s5l8900_uart_trigger_level, Updated, Uarts
  <2>5. queue_elem_count(uart') = queue_elem_count(uart) + n
    BY <2>1, <2>3, <2>4 DEF queue_elem_count
  <2>6. Waiting' = Waiting \o [i \in 1 .. n |-> sent + i]
    BY <1>1, <2>4, <2>5, WaitingPut DEF p
  <2>7. Len(Waiting) + n <= Size - 1
    BY <1>1, WaitingLen
  <2>8. Queue!Put(n)
    BY <1>1, <1>2, <2>4, <2>6, <2>7 DEF Queue!Put
  <2>. QED  BY <1>1, <2>8 DEF Queue!Next
<1>3. CASE "FIFO" \notin uart.ufcon
  <2>1. s5l8900_uart_update([uart EXCEPT !.urxh = sent + 1,
                                         !.uintsp = @ \cup {"RXD"},
                                         !.ready = TRUE])
    BY <1>3 DEF s5l8900_uart_receive
  <2>2. /\ uart'.queue = uart.queue /\ uart'.s = uart.s
        /\ uart'.t = uart.t /\ uart'.ufcon = uart.ufcon
    BY <1>1, <2>1 DEF s5l8900_uart_update, Updated, UartTypeOK
  <2>3. Waiting' = Waiting
    BY <2>2 DEF Waiting, queue_elem_count
  <2>4. Queue!Miss(n)
    BY <1>1, <1>3, <2>2, <2>3 DEF Queue!Miss
  <2>. QED  BY <1>1, <2>4 DEF Queue!Next
<1>. QED  BY <1>2, <1>3

\* Reading URXH takes one byte, or changes nothing in the queue.
LEMMA QueueTakes ==
    ASSUME UartInv, UartTypeOK', ReadUrxh
    PROVE  [Queue!Next]_(Queue!vars)
<1>1. UartTypeOK
  BY DEF UartInv
<1>2. CASE /\ "FIFO" \in uart.ufcon /\ ~queue_empty(uart)
           /\ uart' = Got(uart) /\ got' = uart.queue[uart.s]
           /\ UNCHANGED <<line, polled, sent>>
  <2>1. /\ Waiting # <<>> /\ uart.queue[uart.s] = Head(Waiting)
        /\ Waiting' = Tail(Waiting)
    BY <1>1, <1>2, WaitingTake
  <2>2. uart'.ufcon = uart.ufcon
    BY <1>1, <1>2, GotOne DEF UartTypeOK
  <2>3. Queue!Take
    BY <1>2, <2>1, <2>2 DEF Queue!Take
  <2>. QED  BY <2>3 DEF Queue!Next
<1>3. CASE /\ s5l8900_uart_update([uart EXCEPT !.uintsp = @ \cup {"ERROR"}])
           /\ UNCHANGED <<polled, sent, got>>
  <2>1. /\ uart'.queue = uart.queue /\ uart'.s = uart.s /\ uart'.t = uart.t
        /\ uart'.ufcon = uart.ufcon /\ sent' = sent /\ got' = got
    BY <1>1, <1>3 DEF s5l8900_uart_update, Updated, UartTypeOK
  <2>. QED  BY <2>1, QueueStutters
<1>4. CASE /\ uart' = [uart EXCEPT !.ready = FALSE]
           /\ UNCHANGED <<line, polled, sent, got>>
  <2>1. /\ uart'.queue = uart.queue /\ uart'.s = uart.s /\ uart'.t = uart.t
        /\ uart'.ufcon = uart.ufcon /\ sent' = sent /\ got' = got
    BY <1>1, <1>4 DEF UartTypeOK
  <2>. QED  BY <2>1, QueueStutters
<1>. QED  BY <1>2, <1>3, <1>4 DEF ReadUrxh

\* Writing an interrupt register.
LEMMA QueueIgnores ==
    ASSUME UartInv, NEW STATE w, NEW STATE m,
           Write([uart EXCEPT !.uintsp = w, !.uintm = m])
    PROVE  UNCHANGED Queue!vars
<1>1. /\ uart'.queue = uart.queue /\ uart'.s = uart.s /\ uart'.t = uart.t
      /\ uart'.ufcon = uart.ufcon /\ sent' = sent /\ got' = got
  BY DEF Write, UartInv, UartTypeOK
<1>. QED  BY <1>1, QueueStutters

\* Every step of the UART is a step of ByteQueue or leaves it alone.
LEMMA QueueStep ==
    UartInv /\ UartInv' /\ [UartNext]_uartVars => [Queue!Next]_(Queue!vars)
<1> SUFFICES ASSUME UartInv, UartInv', [UartNext]_uartVars
             PROVE  [Queue!Next]_(Queue!vars)
  OBVIOUS
<1>1. UartTypeOK /\ UartTypeOK' /\ uart \in Uarts
  BY DEF UartInv, UartTypeOK, Uarts
<1>2. (uart' = uart /\ sent' = sent /\ got' = got) => UNCHANGED Queue!vars
  BY QueueStutters
<1>3. \A n \in 1 .. MaxBytes : s5l8900_uart_receive(n) => Queue!Next
  BY <1>1, QueueReceives
<1>4. ReadUrxh => [Queue!Next]_(Queue!vars)
  BY <1>1, QueueTakes
<1>5. ASSUME NEW v \in Ufcons, NEW clear \in BOOLEAN, WriteUfcon(v, clear)
      PROVE  Queue!Next
  <2> DEFINE u == IF clear THEN [uart EXCEPT !.ufcon = v, !.s = 0, !.t = 0]
                  ELSE [uart EXCEPT !.ufcon = v]
  <2>1. v \in SUBSET UfconBits /\ 0 \in Slots
    BY QueueAssumption DEF Slots
  <2>2. /\ Write(u) /\ u \in Uarts
        /\ \/ u.queue = uart.queue /\ u.s = uart.s /\ u.t = uart.t
           \/ u.s = 0 /\ u.t = 0
    BY <1>1, <1>5, <2>1 DEF WriteUfcon, Uarts
  <2> HIDE DEF u
  <2>. QED  BY <2>2, QueueSwitches
<1>6. s5l8900_uart_reset => Queue!Next
  <2> DEFINE u == [uart EXCEPT !.ufcon = {}, !.uintsp = {}, !.uintm = {},
                               !.ready = FALSE, !.s = 0, !.t = 0]
  <2>1. 0 \in Slots
    BY QueueAssumption DEF Slots
  <2>2. u \in Uarts /\ u.s = 0 /\ u.t = 0
    BY <1>1, <2>1 DEF Uarts
  <2>3. s5l8900_uart_reset => Write(u)
    BY DEF s5l8900_uart_reset
  <2> HIDE DEF u
  <2>. QED  BY <2>2, <2>3, QueueSwitches
<1>7. WriteUtxh => UNCHANGED Queue!vars
  <2>1. [uart EXCEPT !.uintsp = @ \cup {"TXD"}] =
        [uart EXCEPT !.uintsp = uart.uintsp \cup {"TXD"},
                     !.uintm = uart.uintm]
    BY <1>1 DEF Uarts
  <2>. QED  BY <2>1, QueueIgnores DEF WriteUtxh
<1>8. ASSUME NEW v
      PROVE  WriteUintp(v) \/ WriteUintsp(v) \/ WriteUintm(v)
                 => UNCHANGED Queue!vars
  <2>1. /\ [uart EXCEPT !.uintsp = @ \ v] =
           [uart EXCEPT !.uintsp = uart.uintsp \ v, !.uintm = uart.uintm]
        /\ [uart EXCEPT !.uintsp = v] =
           [uart EXCEPT !.uintsp = v, !.uintm = uart.uintm]
        /\ [uart EXCEPT !.uintm = v] =
           [uart EXCEPT !.uintsp = uart.uintsp, !.uintm = v]
    BY <1>1 DEF Uarts
  <2>. QED  BY <2>1, QueueIgnores DEF WriteUintp, WriteUintsp, WriteUintm
<1>9. CASE GuestFree
  BY <1>2, <1>4, <1>5, <1>6, <1>7, <1>8, <1>9 DEF GuestFree, ReadUerstat
<1>10. CASE HandlerStep
  BY <1>2, <1>4, <1>8, <1>10 DEF HandlerStep, ReadUerstat
<1>11. CASE s5l8900_uart_can_receive \/ DriverStarts \/ UNCHANGED uartVars
  BY <1>2, <1>11 DEF s5l8900_uart_can_receive, DriverStarts, uartVars
<1>12. CASE DriverSends
  BY <1>7, <1>12 DEF DriverSends
<1>. QED  BY <1>3, <1>9, <1>10, <1>11, <1>12 DEF UartNext

\* For rings of every size the receive queue does what ByteQueue promises:
\* whole batches, in order, each byte read once, across wrap-arounds, FIFO
\* resets and switches of the FIFO.
THEOREM UartImplementsQueue == UartSpec => ImplementsQueue
<1>1. UartInit => Queue!Init
  <2> SUFFICES ASSUME UartInit PROVE Queue!Init
    OBVIOUS
  <2>1. UartTypeOK /\ queue_empty(uart)
    BY InitInv DEF UartInv, UartInit, queue_empty, queue_elem_count
  <2>2. Waiting = <<>>
    BY <2>1, EmptyWaiting
  <2>3. sent = 0 /\ got = NoByte /\ ("FIFO" \in uart.ufcon) = FALSE
    BY DEF UartInit
  <2>. QED  BY <2>2, <2>3 DEF Queue!Init
<1>. QED  BY <1>1, QueueStep, UartInvariant, PTL
          DEF UartSpec, ImplementsQueue, Queue!Spec

=============================================================================
