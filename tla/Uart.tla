-------------------------------- MODULE Uart --------------------------------
(***************************************************************************)
(* The UART (hw/s5l8900_uart.c): a receive queue in a ring, filled by      *)
(* QEMU's character layer and emptied by the guest, and the interrupt      *)
(* registers.  Register accesses and the receive callback run under the    *)
(* global lock: each is one action.  The character layer asks for the room *)
(* in the queue first and delivers later, in another step.                 *)
(*                                                                         *)
(* The guest does anything it likes at first; later a driver with an       *)
(* interrupt handler may take over.  Left out: registers that are only     *)
(* stored and read back, and UINTP, which no code looks at except right    *)
(* after computing it.                                                     *)
(***************************************************************************)
EXTENDS Integers, Sequences

CONSTANTS
    QUEUE_SIZE,  \* entries of the ring (257)
    Size,        \* the queue-size property (256)
    MaxBytes,    \* bound: bytes that arrive
    Ufcons,      \* values the guest writes to UFCON: sets of UfconBits
    IntValues,   \* values it writes to UINTP and UINTSP
    Masks        \* values it writes to UINTM

Ints == {"RXD", "TXD", "ERROR"}
\* FIFO: UFCON_FIFO_ENABLED.  LEVEL: any other bit that is kept.
UfconBits == {"FIFO", "LEVEL"}

ASSUME QueueAssumption ==
    /\ QUEUE_SIZE \in Nat \ {0}
    /\ Size \in 1 .. QUEUE_SIZE
    /\ MaxBytes \in Nat
    /\ Ufcons \subseteq SUBSET UfconBits
    /\ IntValues \subseteq SUBSET Ints
    /\ Masks \subseteq SUBSET Ints

Slots  == 0 .. QUEUE_SIZE - 1
NoByte == 0
Bytes  == NoByte .. MaxBytes  \* a byte is its number in the order of arrival

VARIABLES
    uart,    \* S5L8900UartState
    line,    \* the interrupt line
    polled,  \* the room the character layer was told of (max_size)
    sent,    \* bytes that have arrived
    got,     \* the byte read from the queue last
    drv      \* the guest: free, or what the driver's handler does next

uartVars == <<uart, line, polled, sent, got, drv>>

-----------------------------------------------------------------------------
(* The ring. *)

\* Mutant: the index wraps at the size of the queue.
QIShort(x, n) == (x + n) % Size

\* n steps of QI.
QI(x, n) == (x + n) % QUEUE_SIZE

queue_elem_count(u) ==
    IF u.t >= u.s THEN u.t - u.s ELSE QUEUE_SIZE - u.s + u.t

queue_empty_count(u) == Size - queue_elem_count(u) - 1

queue_empty(u) == queue_elem_count(u) = 0

\* Mutant: every byte goes to the same slot.
PushedInPlace(u, n, b) ==
    [u EXCEPT !.queue = [i \in Slots |->
                  IF n > 0 /\ i = u.t THEN b + n ELSE @[i]],
              !.t = QI(@, n)]

\* n bytes are pushed, the first of them numbered b + 1.
Pushed(u, n, b) ==
    [u EXCEPT !.queue = [i \in Slots |->
                  IF \E j \in 1 .. n : i = QI(u.t, j - 1)
                  THEN b + CHOOSE j \in 1 .. n : i = QI(u.t, j - 1)
                  ELSE @[i]],
              !.t = QI(@, n)]

-----------------------------------------------------------------------------
(* s5l8900_uart_update: && where & was meant makes the transmit interrupt   *)
(* depend on UFCON not being zero.                                          *)

Updated(u) ==
    [u EXCEPT !.uintsp = @ \cup IF u.ufcon # {} THEN {"TXD"} ELSE {}]

s5l8900_uart_update(u) ==
    /\ uart' = Updated(u)
    /\ line' = (Updated(u).uintsp \ u.uintm # {})

-----------------------------------------------------------------------------
(* The character layer. *)

\* The main loop asks how much the UART takes; the lock is released before
\* the answer is used.
s5l8900_uart_can_receive ==
    /\ polled' = queue_empty_count(uart)
    /\ UNCHANGED <<uart, line, sent, got, drv>>

\* The bytes of a batch that are stored: the bound of the loop shrinks as
\* the queue fills, so a batch that does not fit leaves half of the room.
Stored(u, n) ==
    IF queue_empty_count(u) < n THEN (queue_empty_count(u) + 1) \div 2 ELSE n

\* Mutant: no receive interrupt.
TriggerNothing(u) == u

s5l8900_uart_trigger_level(u) ==
    IF queue_empty(u) THEN u ELSE [u EXCEPT !.uintsp = @ \cup {"RXD"}]

\* A batch of n bytes.  Without the FIFO only the first is kept.
s5l8900_uart_receive(n) ==
    /\ n <= polled
    /\ sent + n <= MaxBytes
    /\ s5l8900_uart_update(
           IF "FIFO" \in uart.ufcon
           THEN s5l8900_uart_trigger_level(
                    [Pushed(uart, Stored(uart, n), sent) EXCEPT !.ready = TRUE])
           ELSE [uart EXCEPT !.urxh = sent + 1,
                             !.uintsp = @ \cup {"RXD"},
                             !.ready = TRUE])
    /\ sent' = sent + n
    /\ polled' = 0
    /\ UNCHANGED <<got, drv>>

-----------------------------------------------------------------------------
(* Register accesses of the guest. *)

\* queue_get, with DATA_READY set to what is left.
Got(u) ==
    LET v == [u EXCEPT !.s = QI(@, 1)]
    IN  [v EXCEPT !.ready = ~queue_empty(v)]

\* URXH.  An empty queue is an error; without the FIFO the queue is not
\* looked at.
ReadUrxh ==
    \/ /\ "FIFO" \in uart.ufcon
       /\ ~queue_empty(uart)
       /\ uart' = Got(uart)
       /\ got' = uart.queue[uart.s]
       /\ UNCHANGED <<line, polled, sent>>
    \/ /\ "FIFO" \in uart.ufcon
       /\ queue_empty(uart)
       /\ s5l8900_uart_update([uart EXCEPT !.uintsp = @ \cup {"ERROR"}])
       /\ UNCHANGED <<polled, sent, got>>
    \/ /\ "FIFO" \notin uart.ufcon
       /\ uart' = [uart EXCEPT !.ready = FALSE]
       /\ UNCHANGED <<line, polled, sent, got>>

\* UERSTAT: reading it lowers the line, whatever is pending.
ReadUerstat ==
    /\ line' = FALSE
    /\ UNCHANGED <<uart, polled, sent, got>>

\* A write to a register changes the registers only: the call of
\* s5l8900_uart_update is commented out.
Write(u) ==
    /\ uart' = u
    /\ UNCHANGED <<line, polled, sent, got>>

\* UFCON: clear is the bit that empties the queue; DATA_READY is left.
WriteUfcon(v, clear) ==
    Write(IF clear THEN [uart EXCEPT !.ufcon = v, !.s = 0, !.t = 0]
          ELSE [uart EXCEPT !.ufcon = v])

\* UTXH: the byte is written to the character device at once.
WriteUtxh == Write([uart EXCEPT !.uintsp = @ \cup {"TXD"}])

WriteUintp(v)  == Write([uart EXCEPT !.uintsp = @ \ v])
WriteUintsp(v) == Write([uart EXCEPT !.uintsp = v])
WriteUintm(v)  == Write([uart EXCEPT !.uintm = v])

\* The ring's memory, URXH and the line are left as they are.
s5l8900_uart_reset ==
    Write([uart EXCEPT !.ufcon = {}, !.uintsp = {}, !.uintm = {},
                       !.ready = FALSE, !.s = 0, !.t = 0])

-----------------------------------------------------------------------------
(* The guest. *)

GuestFree ==
    /\ drv = "free"
    /\ \/ ReadUrxh
       \/ ReadUerstat
       \/ \E v \in Ufcons, clear \in BOOLEAN : WriteUfcon(v, clear)
       \/ WriteUtxh
       \/ \E v \in IntValues : WriteUintp(v)
       \/ \E v \in IntValues : WriteUintsp(v)
       \/ \E v \in Masks : WriteUintm(v)
       \/ s5l8900_uart_reset
    /\ UNCHANGED drv

\* A driver takes over a UART with the FIFO on, the receive interrupt open
\* and the queue emptied.
DriverStarts ==
    /\ drv = "free"
    /\ "FIFO" \in uart.ufcon
    /\ "RXD" \notin uart.uintm
    /\ queue_empty(uart)
    /\ drv' = "idle"
    /\ UNCHANGED <<uart, line, polled, sent, got>>

\* Its handler: clear the interrupts, lower the line, read while there is
\* data ready.
HandlerStep ==
    \/ /\ drv = "idle" /\ line
       /\ drv' = "ack"
       /\ UNCHANGED <<uart, line, polled, sent, got>>
    \/ /\ drv = "ack"
       /\ WriteUintp(Ints)
       /\ drv' = "lower"
    \/ /\ drv = "lower"
       /\ ReadUerstat
       /\ drv' = "drain"
    \/ /\ drv = "drain" /\ uart.ready
       /\ ReadUrxh
       /\ UNCHANGED drv
    \/ /\ drv = "drain" /\ ~uart.ready
       /\ drv' = "idle"
       /\ UNCHANGED <<uart, line, polled, sent, got>>

\* The driver also transmits.
DriverSends ==
    /\ drv # "free"
    /\ WriteUtxh
    /\ UNCHANGED drv

-----------------------------------------------------------------------------

UartInit ==
    /\ uart = [queue |-> [i \in Slots |-> NoByte], s |-> 0, t |-> 0,
               ufcon |-> {}, ready |-> FALSE, urxh |-> NoByte,
               uintsp |-> {}, uintm |-> {}]
    /\ line = FALSE
    /\ polled = 0
    /\ sent = 0
    /\ got = NoByte
    /\ drv = "free"

UartNext ==
    \/ s5l8900_uart_can_receive
    \/ \E n \in 1 .. MaxBytes : s5l8900_uart_receive(n)
    \/ GuestFree
    \/ DriverStarts
    \/ HandlerStep
    \/ DriverSends

\* The guest's CPU goes on running its handler.
UartSpec == UartInit /\ [][UartNext]_uartVars /\ WF_uartVars(HandlerStep)

-----------------------------------------------------------------------------
(* Properties. *)

\* Types; the indices stay within the ring.
UartTypeOK ==
    /\ uart \in [queue : [Slots -> Bytes], s : Slots, t : Slots,
                 ufcon : SUBSET UfconBits, ready : BOOLEAN, urxh : Bytes,
                 uintsp : SUBSET Ints, uintm : SUBSET Ints]
    /\ line \in BOOLEAN
    /\ polled \in 0 .. Size - 1
    /\ sent \in 0 .. MaxBytes
    /\ got \in Bytes
    /\ drv \in {"free", "idle", "ack", "lower", "drain"}

\* The room that s5l8900_uart_can_receive promised is still there when the
\* character layer delivers: no batch meets the branch of
\* s5l8900_uart_receive that throws bytes away.
RoomKept == polled <= queue_empty_count(uart)

\* The bytes in the ring, oldest first.
Waiting == [i \in 1 .. queue_elem_count(uart) |-> uart.queue[QI(uart.s, i - 1)]]

\* The ring does what ByteQueue promises, across batches, wrap-arounds,
\* FIFO resets and switches of the FIFO: whole batches, in order, each byte
\* read once.
Queue == INSTANCE ByteQueue WITH
    Capacity <- Size - 1,
    on <- "FIFO" \in uart.ufcon,
    content <- Waiting,
    heard <- sent,
    taken <- got
ImplementsQueue == Queue!Spec

\* A driver that reads while DATA_READY is set never leaves bytes behind.
ReadyShown == drv # "free" /\ ~queue_empty(uart) => uart.ready

\* No receive interrupt is lost: when the handler is not running and bytes
\* wait in the queue, the line is up, although reading UERSTAT lowers it
\* whatever is pending.
NoLostReceive == drv = "idle" /\ ~queue_empty(uart) => line

\* Every byte that enters the queue under the driver is read by it.
EveryByteRead ==
    \A b \in 1 .. MaxBytes :
        (drv # "free" /\ \E i \in DOMAIN Waiting : Waiting[i] = b) ~> got = b

=============================================================================
