------------------------------- MODULE SpiNor -------------------------------
(***************************************************************************)
(* The first SPI controller (s5l8930_spi.c) with the NOR flash behind it   *)
(* (pflash_spi.c), and the guest's driver.  A flash read longer than the   *)
(* receive FIFO goes in bursts: the read that empties the FIFO arms a      *)
(* timer, the timer fills it and raises the interrupt.  The timer is never *)
(* cancelled: one left over by a transfer that was finished or given up    *)
(* fires into the next.                                                    *)
(*                                                                         *)
(* A byte is named by where it comes from: <<"nor", i>> is storage[i],     *)
(* <<"id", i>> is ident[i].                                                *)
(***************************************************************************)
EXTENDS Integers, Sequences

CONSTANTS
    Fifo,       \* 0x1f: bytes in the receive FIFO, the mask of RX_BUFFER_LEFT
    Base,       \* 0x100: values of an address byte
    TxWords,    \* 10: entries of tx_data
    Addrs,      \* flash addresses the driver reads at
    Lens        \* and lengths it asks for

ASSUME SpiAssumption ==
    /\ Fifo \in Nat /\ Fifo >= 3     \* an identification fits
    /\ Base \in Nat \ {0, 1}
    /\ TxWords \in Nat /\ TxWords >= 4
    /\ Addrs \subseteq 0 .. Base * Base * Base - 1
    /\ Lens \subseteq Nat \ {0}

VARIABLES
    spi,        \* the controller's registers, its timer and its line
    nor,        \* the flash: command, remaining length, position
    drv         \* the guest's driver

spiVars == <<spi, nor, drv>>

\* Commands of the flash.
NOR_SPI_RSRT    == 0
NOR_SPI_READ    == 3
NOR_SPI_RDSR    == 5
NOR_SPI_WREN    == 6
NOR_SPI_JEDECID == 159

Lesser(a, b) == IF a < b THEN a ELSE b

\* RX_BUFFER_LEFT is a field that lengths are or-ed into: the set of its bits.
Bits(n) == {b \in 0 .. Fifo - 1 : ((n % (Fifo + 1)) \div 2^b) % 2 = 1}

RX_BUFFER_LEFT(bits) == CHOOSE n \in 0 .. Fifo : Bits(n) = bits

\* The field is a mask of whole bits, as 0x1f is: its values or-ed together
\* are one of its values, and a bit more makes a greater value.
ASSUME MaskAssumption ==
    /\ Bits(0) = {}
    /\ \A m, n \in 0 .. Fifo :
          /\ \E k \in 0 .. Fifo : Bits(k) = Bits(m) \cup Bits(n)
          /\ Bits(m) \subseteq Bits(n) => m <= n

-----------------------------------------------------------------------------
(* pflash_spi.c. *)

\* Mutant: the address is put together without its middle byte.
CmdSetShort(n, tx) ==
    IF tx[0] = NOR_SPI_READ
    THEN [n EXCEPT !.cmd = tx[0], !.wordRx = tx[1] * Base * Base + tx[3]]
    ELSE [n EXCEPT !.cmd = tx[0]]

\* Only a read sets the position.
pflash_cmd_set(n, tx) ==
    IF tx[0] = NOR_SPI_READ
    THEN [n EXCEPT !.cmd = tx[0],
                   !.wordRx = (tx[1] * Base + tx[2]) * Base + tx[3]]
    ELSE [n EXCEPT !.cmd = tx[0]]

pflash_set_rxlen(n, len) == [n EXCEPT !.rxLen = len]

\* Mutant: a length beyond the FIFO is not clipped to the field.
CmdLenUnclipped(n) ==
    CASE n.cmd = NOR_SPI_JEDECID -> 3 - n.wordRx
      [] n.cmd = NOR_SPI_RDSR    -> 1
      [] n.cmd = NOR_SPI_READ    -> n.rxLen
      [] OTHER                   -> 0

\* What pflash_cmd_len returns; for JEDECID it also sets rxLen.
pflash_cmd_len(n) ==
    CASE n.cmd = NOR_SPI_JEDECID -> 3 - n.wordRx
      [] n.cmd = NOR_SPI_RDSR    -> 1
      [] n.cmd = NOR_SPI_READ    -> Lesser(n.rxLen, Fifo)
      [] OTHER                   -> 0

AfterLen(n) ==
    IF n.cmd = NOR_SPI_JEDECID THEN [n EXCEPT !.rxLen = 3 - n.wordRx] ELSE n

\* What pflash_cmd_parse returns.
ParsedByte(n) ==
    CASE n.cmd = NOR_SPI_JEDECID               -> <<"id", n.wordRx>>
      [] n.cmd = NOR_SPI_READ /\ n.rxLen # 0   -> <<"nor", n.wordRx>>
      [] n.cmd = NOR_SPI_RDSR                  -> <<"status", 0>>
      [] OTHER                                 -> <<"zero", 0>>

\* The flash after it.  An unknown command resets it too.
pflash_cmd_parse(n) ==
    CASE n.cmd = NOR_SPI_JEDECID -> [n EXCEPT !.wordRx = @ + 1]
      [] n.cmd = NOR_SPI_RDSR    -> n
      [] n.cmd = NOR_SPI_READ    -> IF n.rxLen = 0 THEN n
                                    ELSE [n EXCEPT !.rxLen = @ - 1,
                                                   !.wordRx = @ + 1]
      [] OTHER                   -> [n EXCEPT !.cmd = NOR_SPI_RSRT, !.wordRx = 0]

-----------------------------------------------------------------------------
(* s5l8930_spi.c. *)

Or(bits, n) == bits \cup Bits(pflash_cmd_len(n))

\* Mutant: the timer looks for a FIFO one byte longer.
TimerOffByOne ==
    /\ spi.timer
    /\ spi' = IF spi.rxFifoCnt = Fifo
              THEN [spi EXCEPT !.timer = FALSE, !.rx = TRUE, !.irq = TRUE,
                               !.rxFifoCnt = 0]
              ELSE [spi EXCEPT !.timer = FALSE]
    /\ UNCHANGED <<nor, drv>>

spi_timer ==
    /\ spi.timer
    /\ spi' = IF spi.rxFifoCnt = Fifo - 1
              THEN [spi EXCEPT !.timer = FALSE, !.rx = TRUE, !.irq = TRUE,
                               !.rxFifoCnt = 0]
              ELSE [spi EXCEPT !.timer = FALSE]
    /\ UNCHANGED <<nor, drv>>

ReadStatus == spi' = [spi EXCEPT !.irq = FALSE] /\ UNCHANGED nor

\* Mutant: every read lowers the line, not only the one that arms the timer.
ReadRxdataLowers ==
    LET n == pflash_cmd_parse(nor)
        s == [spi EXCEPT !.left = Or(@, n), !.irq = FALSE]
    IN  /\ nor' = AfterLen(n)
        /\ spi' = IF spi.rxFifoCnt = Fifo - 1
                  THEN [s EXCEPT !.timer = TRUE]
                  ELSE [s EXCEPT !.rxFifoCnt = @ + 1]

ReadRxdata ==
    LET n == pflash_cmd_parse(nor)
        s == [spi EXCEPT !.left = Or(@, n)]
    IN  /\ nor' = AfterLen(n)
        /\ spi' = IF spi.rxFifoCnt = Fifo - 1
                  THEN [s EXCEPT !.irq = FALSE, !.timer = TRUE]
                  ELSE [s EXCEPT !.rxFifoCnt = @ + 1]

\* The start bit of the control register, by the direction in SETUP.
WriteControl ==
    \/ /\ spi.setup = "tx"
       /\ spi' = [spi EXCEPT !.tx = TRUE, !.rx = FALSE, !.left = {}, !.irq = TRUE]
       /\ nor' = pflash_cmd_set(nor, spi.tx_data)
    \/ /\ spi.setup = "rx"
       /\ spi' = [spi EXCEPT !.rxFifoCnt = 0, !.rx = TRUE,
                             !.left = Or(@, nor), !.irq = TRUE]
       /\ nor' = AfterLen(nor)

WriteSetup(dir) == spi' = [spi EXCEPT !.setup = dir] /\ UNCHANGED nor

\* Mutant: the next command is appended to the last.
WriteStatusKeepsTx ==
    /\ spi' = [spi EXCEPT !.irq = FALSE, !.tx = FALSE, !.rx = FALSE, !.left = {}]
    /\ UNCHANGED nor

\* Any value: the status is cleared as a whole, and the command buffer.
WriteStatus ==
    /\ spi' = [spi EXCEPT !.irq = FALSE, !.tx = FALSE, !.rx = FALSE,
                          !.left = {}, !.txBuffer = 0]
    /\ UNCHANGED nor

\* There is no check of txBuffer: a word past tx_data goes elsewhere.
WriteTxdata(w) ==
    /\ spi' = [spi EXCEPT !.tx_data =
                              [i \in DOMAIN @ |-> IF i = spi.txBuffer THEN w ELSE @[i]],
                          !.txBuffer = @ + 1]
    /\ UNCHANGED nor

WriteCnt(len) == nor' = pflash_set_rxlen(nor, len) /\ UNCHANGED spi

-----------------------------------------------------------------------------
(* The guest's driver: one command at a time, one register access a step.  *)
(* It clears the status before a command and after the command was sent;   *)
(* of a receive interrupt it only reads the status.  It may give up a      *)
(* transfer it waits for.  JEDECID does not set the position, so it is     *)
(* asked for only after start-up or after a command that resets it.        *)

Command == [read |-> NOR_SPI_READ, id |-> NOR_SPI_JEDECID,
            sr |-> NOR_SPI_RDSR, reset |-> NOR_SPI_RSRT, wren |-> NOR_SPI_WREN]

Words(op, a) ==
    IF op = "read"
    THEN <<Command[op], a \div (Base * Base), (a \div Base) % Base, a % Base>>
    ELSE <<Command[op]>>

\* The bytes the driver means to get.
Wanted(op, a, len) ==
    CASE op = "read" -> [i \in 1 .. len |-> <<"nor", a + i - 1>>]
      [] op = "id"   -> [i \in 1 .. 3 |-> <<"id", i - 1>>]
      [] op = "sr"   -> <<<<"status", 0>>>>
      [] OTHER       -> <<<<"zero", 0>>>>

At(pc) == drv.pc = pc

Goto(pc) == drv' = [drv EXCEPT !.pc = pc]

Begin(op, a, len) ==
    /\ At("idle")
    /\ op = "id" => drv.fresh
    /\ drv' = [drv EXCEPT !.pc = "words", !.op = op, !.words = Words(op, a),
                          !.want = Wanted(op, a, len), !.got = <<>>,
                          !.fresh = @ /\ op \notin {"read", "id"}]
    /\ WriteStatus

SendWord ==
    /\ At("words")
    /\ drv.words # <<>>
    /\ WriteTxdata(Head(drv.words))
    /\ drv' = [drv EXCEPT !.words = Tail(@)]

SetDirection ==
    \/ At("words") /\ drv.words = <<>> /\ WriteSetup("tx") /\ Goto("send")
    \/ At("turn") /\ WriteSetup("rx") /\ Goto("count")

Send == At("send") /\ WriteControl /\ Goto("sending")

Count == At("count") /\ WriteCnt(Len(drv.want)) /\ Goto("receive")

Receive == At("receive") /\ WriteControl /\ Goto("waiting")

\* The interrupt handler.
OnSent ==
    /\ At("sending") /\ spi.irq
    /\ ReadStatus
    /\ Goto(IF spi.tx THEN "sent" ELSE "sending")

ClearSent ==
    /\ At("sent")
    /\ WriteStatus
    /\ Goto(IF drv.op \in {"reset", "wren"} THEN "dummy" ELSE "turn")

OnReceive ==
    /\ At("waiting") /\ spi.irq
    /\ ReadStatus
    /\ drv' = IF spi.rx
              THEN [drv EXCEPT !.pc = "burst",
                               !.burst = Lesser(RX_BUFFER_LEFT(spi.left),
                                                Len(drv.want) - Len(drv.got))]
              ELSE drv

\* A left-over timer's interrupt at any other time.
OnSpurious ==
    /\ drv.pc \notin {"sending", "waiting", "burst"} /\ spi.irq
    /\ ReadStatus
    /\ UNCHANGED drv

TakeByte ==
    /\ At("burst") /\ drv.burst > 0
    /\ ReadRxdata
    /\ drv' = [drv EXCEPT !.burst = @ - 1, !.got = Append(@, ParsedByte(nor))]

EndBurst ==
    /\ At("burst") /\ drv.burst = 0
    /\ Goto(IF Len(drv.got) = Len(drv.want) THEN "idle" ELSE "waiting")
    /\ UNCHANGED <<spi, nor>>

\* The read that makes the flash carry out a reset.
DummyRead ==
    /\ At("dummy")
    /\ ReadRxdata
    /\ drv' = [drv EXCEPT !.pc = "idle", !.fresh = TRUE,
                          !.got = <<ParsedByte(nor)>>]

GiveUp ==
    /\ At("waiting") \/ At("burst")
    /\ drv' = [drv EXCEPT !.pc = "idle", !.burst = 0]
    /\ UNCHANGED <<spi, nor>>

\* What the driver does without being asked to.
DriverStep ==
    \/ SendWord \/ SetDirection \/ Send \/ OnSent \/ ClearSent \/ Count
    \/ Receive \/ OnReceive \/ TakeByte \/ EndBurst \/ DummyRead

SpiInit ==
    /\ spi = [setup |-> "rx", tx |-> FALSE, rx |-> FALSE, left |-> {},
              tx_data |-> [i \in 0 .. TxWords - 1 |-> 0], txBuffer |-> 0,
              rxFifoCnt |-> 0, irq |-> FALSE, timer |-> FALSE]
    /\ nor = [cmd |-> NOR_SPI_RSRT, rxLen |-> 0, wordRx |-> 0]
    /\ drv = [pc |-> "idle", op |-> "reset", words |-> <<>>, want |-> <<>>,
              got |-> <<>>, burst |-> 0, fresh |-> TRUE]

SpiNext ==
    \/ \E a \in Addrs, len \in Lens : Begin("read", a, len)
    \/ \E op \in DOMAIN Command \ {"read"} : Begin(op, 0, 0)
    \/ DriverStep
    \/ OnSpurious
    \/ GiveUp
    \/ spi_timer

\* The driver's code runs, and vm_clock timers expire.
SpiSpec ==
    /\ SpiInit /\ [][SpiNext]_spiVars
    /\ WF_spiVars(DriverStep) /\ WF_spiVars(spi_timer)

-----------------------------------------------------------------------------
(* Properties. *)

\* No word of a command is stored past tx_data (line 152), over any number of
\* commands, finished and given up.
TxInBounds == spi.txBuffer <= TxWords

\* The bytes the driver gets are the ones it asked for, none missing, twice or
\* from the command before, over FIFO refills and left-over timers.
BytesInOrder == drv.got = SubSeq(drv.want, 1, Len(drv.got))

\* A driver that waits for more is not forgotten: the interrupt is up, or the
\* timer that raises it is armed and still finds the FIFO at its end.
WakeupComing ==
    At("waiting") => \/ spi.irq /\ spi.rx
                     \/ spi.timer /\ spi.rxFifoCnt = Fifo - 1

\* The length field, or-ed together from old lengths, is never less than what
\* the FIFO holds: the driver never stops short of it.
LeftCovers ==
    At("waiting") /\ spi.irq =>
        RX_BUFFER_LEFT(spi.left) >= Lesser(Len(drv.want) - Len(drv.got), Fifo)

\* Every transfer the driver waits for ends, however many refills it takes.
TransferEnds == At("waiting") ~> At("idle")

=============================================================================
