---------------------------- MODULE SpiNorProofs ----------------------------
(***************************************************************************)
(* The properties of reads from the NOR flash over SPI, for any FIFO that  *)
(* is a mask, any size of the command buffer, addresses and lengths.       *)
(***************************************************************************)
EXTENDS SpiNor, TLAPS, SequenceTheorems

-----------------------------------------------------------------------------
(* The invariant. *)

Steps == {"idle", "words", "send", "sending", "sent", "turn", "count",
          "receive", "waiting", "burst", "dummy"}
\* After the command was sent, and while bytes are received.
Sent      == Steps \ {"idle", "words", "send"}
Receiving == {"turn", "count", "receive", "waiting", "burst"}
Taking    == {"waiting", "burst"}

Operations == DOMAIN Command
Bytes  == {"nor", "id", "status", "zero"} \X Int
Fields == {Bits(n) : n \in 0 .. Fifo}

Spis == [setup : {"tx", "rx"}, tx : BOOLEAN, rx : BOOLEAN, left : Fields,
         tx_data : [0 .. TxWords - 1 -> Int], txBuffer : Nat,
         rxFifoCnt : 0 .. Fifo - 1, irq : BOOLEAN, timer : BOOLEAN]
Nors == [cmd : Int, rxLen : Int, wordRx : Int]
Drivers == [pc : Steps, op : Operations, words : Seq(Int), want : Seq(Bytes),
            got : Seq(Bytes), burst : Int, fresh : BOOLEAN]

Types == spi \in Spis /\ nor \in Nors /\ drv \in Drivers

\* Where a read begins, and the words of the command.
From(d) == IF d.op = "read" THEN d.want[1][2] ELSE 0
Sending(d) == Words(d.op, From(d))

\* The bytes still to come.
Rest(d) == Len(d.want) - Len(d.got)

\* What the driver d is about.
JobOk(d) ==
    /\ Len(d.got) <= Len(d.want)
    /\ \A i \in 1 .. Len(d.got) : d.got[i] = d.want[i]
    /\ d.pc \notin Taking \cup {"idle"} => d.got = <<>>
    /\ d.pc # "idle" =>
           /\ From(d) \in 0 .. Base * Base * Base - 1
           /\ d.want = Wanted(d.op, From(d), Len(d.want))
           /\ d.op \in {"read", "id"} => ~d.fresh
    /\ d.pc \in Receiving => d.op \notin {"reset", "wren"}
    /\ d.pc = "dummy" => d.op \in {"reset", "wren"}
    /\ d.pc = "burst" => d.burst \in 0 .. Rest(d)

\* The command, on its way through the controller s.
CommandOk(s, d) ==
    LET w == Sending(d)
    IN  /\ s.txBuffer <= 4
        /\ d.pc = "words" =>
               /\ s.txBuffer + Len(d.words) = Len(w)
               /\ \A j \in 1 .. Len(d.words) : d.words[j] = w[s.txBuffer + j]
               /\ \A i \in 0 .. s.txBuffer - 1 : s.tx_data[i] = w[i + 1]
        /\ d.pc = "send" =>
               /\ \A i \in 0 .. Len(w) - 1 : s.tx_data[i] = w[i + 1]
               /\ s.setup = "tx"
        /\ d.pc \in {"count", "receive"} => s.setup = "rx"

\* The flash n.
FlashOk(n, d) ==
    /\ d.fresh => n.wordRx = 0
    /\ d.op = "id" /\ d.pc # "idle" => n.wordRx = Len(d.got)
    /\ d.pc \in Sent => /\ n.cmd = Command[d.op]
                        /\ d.op = "read" => n.wordRx = From(d) + Len(d.got)
    /\ d.op = "read" /\ d.pc \in Taking \cup {"receive"} => n.rxLen = Rest(d)

\* The interrupt is up, or the timer that raises it will find the FIFO at its
\* end.
Coming(s) == \/ s.irq /\ s.rx
             \/ s.timer /\ s.rxFifoCnt = Fifo - 1

\* The controller s while bytes are received.
BurstOk(s, d) ==
    /\ d.pc \in Taking => Bits(Lesser(Rest(d), Fifo)) \subseteq s.left
    /\ d.pc = "waiting" => Coming(s)
    /\ d.pc = "burst" /\ d.burst < Rest(d) =>
           Coming(s) \/ s.rxFifoCnt + d.burst >= Fifo

SpiInv ==
    /\ Types
    /\ JobOk(drv) /\ CommandOk(spi, drv) /\ FlashOk(nor, drv) /\ BurstOk(spi, drv)

-----------------------------------------------------------------------------
(* Operators. *)

\* The commands, by name.
LEMMA CommandFacts ==
    /\ Operations = {"read", "id", "sr", "reset", "wren"}
    /\ Command["read"] = 3 /\ Command["id"] = 159 /\ Command["sr"] = 5
    /\ Command["reset"] = 0 /\ Command["wren"] = 6
  BY DEF Operations, Command, NOR_SPI_READ, NOR_SPI_JEDECID, NOR_SPI_RDSR,
         NOR_SPI_RSRT, NOR_SPI_WREN

\* Lengths or-ed into the field are values of the field.
LEMMA FieldFacts ==
    /\ {} \in Fields
    /\ \A x \in Fields, m \in Int : x \cup Bits(m) \in Fields
<1>1. Fifo \in Nat /\ 0 \in 0 .. Fifo
  BY SpiAssumption
<1>2. {} \in Fields
  BY <1>1, MaskAssumption DEF Fields
<1>3. ASSUME NEW x \in Fields, NEW m \in Int PROVE x \cup Bits(m) \in Fields
  <2>1. PICK n \in 0 .. Fifo : x = Bits(n)
    BY DEF Fields
  <2> DEFINE r == m % (Fifo + 1)
  <2>2. r \in 0 .. Fifo /\ r % (Fifo + 1) = r
    BY <1>1
  <2>3. Bits(m) = Bits(r)
    BY <2>2 DEF Bits
  <2> HIDE DEF r
  <2>4. PICK k \in 0 .. Fifo : Bits(k) = Bits(n) \cup Bits(r)
    BY <2>2, MaskAssumption
  <2>. QED  BY <2>1, <2>3, <2>4 DEF Fields
<1>. QED  BY <1>2, <1>3

\* A field that has the bits of m is no less than m.
LEMMA LeftFacts ==
    ASSUME NEW x \in Fields, NEW m \in 0 .. Fifo, Bits(m) \subseteq x
    PROVE  RX_BUFFER_LEFT(x) \in 0 .. Fifo /\ m <= RX_BUFFER_LEFT(x)
<1> DEFINE l == CHOOSE n \in 0 .. Fifo : Bits(n) = x
<1>1. \E n \in 0 .. Fifo : Bits(n) = x
  BY DEF Fields
<1>2. l \in 0 .. Fifo /\ Bits(l) = x
  BY <1>1
<1>3. RX_BUFFER_LEFT(x) = l
  BY DEF RX_BUFFER_LEFT
<1> HIDE DEF l
<1>4. m <= l
  BY <1>2, MaskAssumption
<1>. QED  BY <1>2, <1>3, <1>4

\* Quotients are unique.
LEMMA DivUnique ==
    ASSUME NEW a \in Nat, NEW b \in Nat \ {0}, NEW h \in Nat, NEW r \in Nat,
           a = b * h + r, r < b
    PROVE  a \div b = h
<1> DEFINE k == a \div b
           t == a % b
<1>1. k \in Nat /\ t \in Nat /\ t < b /\ a = b * k + t
  OBVIOUS
<1> HIDE DEF k, t
<1>2. ASSUME k < h PROVE FALSE
  <2>1. PICK e \in Nat : h = k + 1 + e
    <3>1. h - k - 1 \in Nat /\ h = k + 1 + (h - k - 1)
      BY <1>1, <1>2
    <3>. QED  BY <3>1
  <2>2. b * h = b * k + b + b * e
    BY <1>1, <2>1
  <2>3. b * e \in Nat /\ b * k \in Nat /\ b * h \in Nat
    BY <1>1, <2>1
  <2>. QED  BY <1>1, <2>2, <2>3
<1>3. ASSUME h < k PROVE FALSE
  <2>1. PICK e \in Nat : k = h + 1 + e
    <3>1. k - h - 1 \in Nat /\ k = h + 1 + (k - h - 1)
      BY <1>1, <1>3
    <3>. QED  BY <3>1
  <2>2. b * k = b * h + b + b * e
    BY <1>1, <2>1
  <2>3. b * e \in Nat /\ b * k \in Nat /\ b * h \in Nat
    BY <1>1, <2>1
  <2>. QED  BY <1>1, <2>2, <2>3
<1>. QED  BY <1>1, <1>2, <1>3 DEF k

\* The three bytes of an address put together again.
LEMMA AddressWhole ==
    ASSUME NEW a \in Nat
    PROVE  /\ ((a \div (Base * Base)) * Base + ((a \div Base) % Base)) * Base
              + (a % Base) = a
           /\ a \div (Base * Base) \in Nat /\ (a \div Base) % Base \in Nat
           /\ a % Base \in Nat
<1> DEFINE q == a \div Base
           r == a % Base
           h == q \div Base
           m == q % Base
<1>1. Base \in Nat \ {0}
  BY SpiAssumption
<1>2. q \in Nat /\ r \in Nat /\ r < Base /\ a = Base * q + r
  BY <1>1
<1> HIDE DEF q, r
<1>3. h \in Nat /\ m \in Nat /\ m < Base /\ q = Base * h + m
  BY <1>1, <1>2
<1> HIDE DEF h, m
<1>4. Base * Base \in Nat \ {0} /\ Base * m \in Nat
  BY <1>1, <1>3
<1>5. a = (Base * Base) * h + (Base * m + r)
  BY <1>1, <1>2, <1>3
<1>6. Base * m + r < Base * Base
  <2>1. PICK e \in Nat : Base = m + 1 + e
    <3>1. Base - m - 1 \in Nat /\ Base = m + 1 + (Base - m - 1)
      BY <1>1, <1>3
    <3>. QED  BY <3>1
  <2>2. Base * Base = Base * m + Base + Base * e
    BY <1>1, <1>3, <2>1
  <2>3. Base * e \in Nat
    BY <1>1
  <2>. QED  BY <1>1, <1>2, <1>4, <2>2, <2>3
<1>7. a \div (Base * Base) = h
  <2>1. Base * m + r \in Nat
    BY <1>2, <1>4
  <2>. QED  BY <1>3, <1>4, <1>5, <1>6, <2>1, DivUnique
<1>8. (h * Base + m) * Base + r = a
  BY <1>1, <1>2, <1>3
<1>. QED  BY <1>2, <1>3, <1>7, <1>8 DEF q, r, h, m

\* The bytes that a driver means to get.
LEMMA WantedFacts ==
    ASSUME NEW op \in Operations, NEW a \in Int, NEW len \in Nat
    PROVE  LET w == Wanted(op, a, len)
           IN  /\ w \in Seq(Bytes)
               /\ op = "read" => /\ Len(w) = len
                                 /\ \A i \in 1 .. len : w[i] = <<"nor", a + i - 1>>
               /\ op = "id" => /\ Len(w) = 3
                               /\ \A i \in 1 .. 3 : w[i] = <<"id", i - 1>>
               /\ op = "sr" => w = <<<<"status", 0>>>>
               /\ op \in {"reset", "wren"} => w = <<<<"zero", 0>>>>
<1>1. CASE op = "read"
  <2>1. \A i \in 1 .. len : <<"nor", a + i - 1>> \in Bytes
    BY DEF Bytes
  <2>2. Wanted(op, a, len) = [i \in 1 .. len |-> <<"nor", a + i - 1>>]
    BY <1>1 DEF Wanted
  <2>3. [i \in 1 .. len |-> <<"nor", a + i - 1>>] \in Seq(Bytes)
    BY <2>1
  <2>4. /\ Len([i \in 1 .. len |-> <<"nor", a + i - 1>>]) = len
        /\ \A j \in 1 .. len : [i \in 1 .. len |-> <<"nor", a + i - 1>>][j] = <<"nor", a + j - 1>>
    OBVIOUS
  <2>. QED  BY <1>1, <2>2, <2>3, <2>4
<1>2. CASE op = "id"
  <2>1. \A i \in 1 .. 3 : <<"id", i - 1>> \in Bytes
    BY DEF Bytes
  <2>2. Wanted(op, a, len) = [i \in 1 .. 3 |-> <<"id", i - 1>>]
    BY <1>2 DEF Wanted
  <2>3. [i \in 1 .. 3 |-> <<"id", i - 1>>] \in Seq(Bytes)
    BY <2>1
  <2>4. /\ Len([i \in 1 .. 3 |-> <<"id", i - 1>>]) = 3
        /\ \A j \in 1 .. 3 : [i \in 1 .. 3 |-> <<"id", i - 1>>][j] = <<"id", j - 1>>
    OBVIOUS
  <2>. QED  BY <1>2, <2>2, <2>3, <2>4
<1>3. CASE op = "sr"
  <2>1. <<"status", 0>> \in Bytes
    BY DEF Bytes
  <2>2. Wanted(op, a, len) = <<<<"status", 0>>>>
    BY <1>3 DEF Wanted
  <2>. QED  BY <1>3, <2>1, <2>2
<1>4. CASE op \in {"reset", "wren"}
  <2>1. <<"zero", 0>> \in Bytes
    BY DEF Bytes
  <2>2. Wanted(op, a, len) = <<<<"zero", 0>>>>
    BY <1>4 DEF Wanted
  <2>. QED  BY <1>4, <2>1, <2>2
<1>. QED  BY <1>1, <1>2, <1>3, <1>4, CommandFacts

\* The words of a command.
LEMMA WordsFacts ==
    ASSUME NEW op \in Operations, NEW a \in Nat
    PROVE  LET w == Words(op, a)
           IN  /\ w \in Seq(Int) /\ Len(w) \in 1 .. 4 /\ w[1] = Command[op]
               /\ op = "read" => /\ Len(w) = 4
                                 /\ (w[2] * Base + w[3]) * Base + w[4] = a
<1>1. Command[op] \in Int
  BY CommandFacts
<1>2. CASE op = "read"
  <2> DEFINE h == a \div (Base * Base)
             m == (a \div Base) % Base
             l == a % Base
  <2>1. h \in Nat /\ m \in Nat /\ l \in Nat /\ (h * Base + m) * Base + l = a
    BY AddressWhole
  <2>2. Words(op, a) = <<Command[op], h, m, l>>
    BY <1>2 DEF Words
  <2> HIDE DEF h, m, l
  <2>3. \A x : x = <<Command[op], h, m, l>> =>
           /\ x \in Seq(Int) /\ Len(x) = 4
           /\ x[1] = Command[op] /\ x[2] = h /\ x[3] = m /\ x[4] = l
    BY <1>1, <2>1
  <2>. QED  BY <1>1, <1>2, <2>1, <2>2, <2>3
<1>3. CASE op # "read"
  <2>1. Words(op, a) = <<Command[op]>>
    BY <1>3 DEF Words
  <2>. QED  BY <1>1, <1>3, <2>1
<1>. QED  BY <1>2, <1>3

\* The flash answers with a length that covers what is still to come.
LEMMA LenCovers ==
    ASSUME NEW n \in Nors, NEW op \in {"read", "id", "sr"}, NEW r \in Nat,
           n.cmd = Command[op],
           op = "read" => n.rxLen = r,
           op = "id" => r = 3 - n.wordRx /\ r <= 3,
           op = "sr" => r <= 1
    PROVE  Bits(Lesser(r, Fifo)) \subseteq Bits(pflash_cmd_len(n))
<1>1. Fifo \in Nat /\ Fifo >= 3
  BY SpiAssumption
<1>2. CASE op = "read"
  <2>1. pflash_cmd_len(n) = Lesser(r, Fifo)
    BY <1>2, CommandFacts DEF pflash_cmd_len, NOR_SPI_READ, NOR_SPI_RDSR, NOR_SPI_JEDECID
  <2>. QED  BY <2>1
<1>3. CASE op = "id"
  <2>1. pflash_cmd_len(n) = r
    BY <1>3, CommandFacts DEF pflash_cmd_len, NOR_SPI_READ, NOR_SPI_RDSR, NOR_SPI_JEDECID
  <2>2. Lesser(r, Fifo) = r
    BY <1>1, <1>3 DEF Lesser
  <2>. QED  BY <2>1, <2>2
<1>4. CASE op = "sr"
  <2>1. pflash_cmd_len(n) = 1
    BY <1>4, CommandFacts DEF pflash_cmd_len, NOR_SPI_READ, NOR_SPI_RDSR, NOR_SPI_JEDECID
  <2>2. Lesser(r, Fifo) \in {0, 1}
    BY <1>1, <1>4 DEF Lesser
  <2>. QED  BY <2>1, <2>2, MaskAssumption
<1>. QED  BY <1>2, <1>3, <1>4

\* Whatever length the flash answers with, the field stays one.
LEMMA LenFacts ==
    ASSUME NEW n \in Nors, NEW x \in Fields
    PROVE  /\ Or(x, n) \in Fields
           /\ AfterLen(n) \in Nors
           /\ AfterLen(n).cmd = n.cmd /\ AfterLen(n).wordRx = n.wordRx
           /\ n.cmd # 159 => AfterLen(n) = n
<1>1. n.cmd \in Int /\ n.rxLen \in Int /\ n.wordRx \in Int /\ Fifo \in Int
  BY SpiAssumption DEF Nors
<1>2. pflash_cmd_len(n) \in Int
  BY <1>1 DEF pflash_cmd_len, Lesser
<1>3. Or(x, n) \in Fields
  BY <1>2, FieldFacts DEF Or
<1>4. 3 - n.wordRx \in Int
  BY <1>1
<1>. QED  BY <1>1, <1>3, <1>4 DEF AfterLen, Nors, NOR_SPI_JEDECID

\* A read of the receive register.
LEMMA RxFacts ==
    ASSUME spi \in Spis, nor \in Nors, ReadRxdata
    PROVE  LET p == pflash_cmd_parse(nor)
           IN  /\ p \in Nors /\ nor' = AfterLen(p) /\ spi' \in Spis
               /\ spi'.left = spi.left \cup Bits(pflash_cmd_len(p))
               /\ spi'.setup = spi.setup /\ spi'.tx_data = spi.tx_data
               /\ spi'.txBuffer = spi.txBuffer /\ spi'.rx = spi.rx
               /\ IF spi.rxFifoCnt = Fifo - 1
                  THEN spi'.timer /\ spi'.rxFifoCnt = spi.rxFifoCnt
                  ELSE /\ spi'.timer = spi.timer /\ spi'.irq = spi.irq
                       /\ spi'.rxFifoCnt = spi.rxFifoCnt + 1
<1> DEFINE p == pflash_cmd_parse(nor)
           x == Or(spi.left, p)
           s == [spi EXCEPT !.left = x]
<1>1. p \in Nors
  <2>1. /\ nor.cmd \in Int /\ nor.rxLen - 1 \in Int /\ nor.wordRx + 1 \in Int
        /\ NOR_SPI_RSRT \in Int
    BY DEF Nors, NOR_SPI_RSRT
  <2>2. /\ nor \in Nors /\ [nor EXCEPT !.wordRx = @ + 1] \in Nors
        /\ [nor EXCEPT !.rxLen = @ - 1, !.wordRx = @ + 1] \in Nors
        /\ [nor EXCEPT !.cmd = NOR_SPI_RSRT, !.wordRx = 0] \in Nors
    <3>1. \A c, l, w \in Int :
             /\ [nor EXCEPT !.wordRx = w] \in Nors
             /\ [nor EXCEPT !.rxLen = l, !.wordRx = w] \in Nors
             /\ [nor EXCEPT !.cmd = c, !.wordRx = w] \in Nors
      BY DEF Nors
    <3>2. 0 \in Int
      OBVIOUS
    <3>. QED  BY <2>1, <3>1, <3>2
  <2>. QED  BY <2>2 DEF pflash_cmd_parse
<1>2. nor' = AfterLen(p)
      /\ spi' = IF spi.rxFifoCnt = Fifo - 1
                THEN [s EXCEPT !.irq = FALSE, !.timer = TRUE]
                ELSE [s EXCEPT !.rxFifoCnt = @ + 1]
  BY DEF ReadRxdata
<1>3. x \in Fields /\ x = spi.left \cup Bits(pflash_cmd_len(p))
  BY <1>1, LenFacts DEF Or, Spis
<1> HIDE DEF p, x
<1>4. s \in Spis /\ s.left = x /\ s.setup = spi.setup /\ s.tx_data = spi.tx_data
      /\ s.txBuffer = spi.txBuffer /\ s.rx = spi.rx /\ s.irq = spi.irq
      /\ s.timer = spi.timer /\ s.rxFifoCnt = spi.rxFifoCnt
  BY <1>3 DEF Spis
<1> HIDE DEF s
<1>5. CASE spi.rxFifoCnt = Fifo - 1
  <2>1. spi' = [s EXCEPT !.irq = FALSE, !.timer = TRUE]
    BY <1>2, <1>5
  <2>2. /\ spi' \in Spis /\ spi'.left = x /\ spi'.setup = spi.setup
        /\ spi'.tx_data = spi.tx_data /\ spi'.txBuffer = spi.txBuffer
        /\ spi'.rx = spi.rx /\ spi'.timer = TRUE /\ spi'.rxFifoCnt = spi.rxFifoCnt
    BY <1>4, <2>1 DEF Spis
  <2>. QED  BY <1>1, <1>2, <1>3, <1>5, <2>2 DEF p
<1>6. CASE spi.rxFifoCnt # Fifo - 1
  <2>1. spi' = [s EXCEPT !.rxFifoCnt = s.rxFifoCnt + 1]
    BY <1>2, <1>6
  <2>2. spi.rxFifoCnt + 1 \in 0 .. Fifo - 1
    BY <1>6, SpiAssumption DEF Spis
  <2>3. /\ spi' \in Spis /\ spi'.left = x /\ spi'.setup = spi.setup
        /\ spi'.tx_data = spi.tx_data /\ spi'.txBuffer = spi.txBuffer
        /\ spi'.rx = spi.rx /\ spi'.timer = spi.timer /\ spi'.irq = spi.irq
        /\ spi'.rxFifoCnt = spi.rxFifoCnt + 1
    BY <1>4, <2>1, <2>2 DEF Spis
  <2>. QED  BY <1>1, <1>2, <1>3, <1>6, <2>3 DEF p
<1>. QED  BY <1>5, <1>6

\* Types that the steps use.
LEMMA TypeFacts ==
    ASSUME SpiInv
    PROVE  /\ spi \in Spis /\ nor \in Nors /\ drv \in Drivers
           /\ drv.op \in Operations /\ drv.pc \in Steps
           /\ drv.want \in Seq(Bytes) /\ drv.got \in Seq(Bytes) /\ drv.words \in Seq(Int)
           /\ Len(drv.want) \in Nat /\ Len(drv.got) \in Nat /\ Rest(drv) \in Nat
           /\ spi.txBuffer \in Nat /\ spi.rxFifoCnt \in 0 .. Fifo - 1 /\ spi.left \in Fields
           /\ drv.burst \in Int
           /\ Fifo \in Nat /\ Fifo >= 3 /\ TxWords \in Nat /\ TxWords >= 4
<1>1. spi \in Spis /\ nor \in Nors /\ drv \in Drivers /\ Len(drv.got) <= Len(drv.want)
  BY DEF SpiInv, Types, JobOk
<1>2. drv.want \in Seq(Bytes) /\ drv.got \in Seq(Bytes) /\ drv.words \in Seq(Int)
  BY <1>1 DEF Drivers
<1>3. Len(drv.want) \in Nat /\ Len(drv.got) \in Nat
  BY <1>2
<1>4. Rest(drv) \in Nat
  BY <1>1, <1>3 DEF Rest
<1>. QED  BY <1>1, <1>2, <1>3, <1>4, SpiAssumption DEF Spis, Drivers

\* The bytes that a driver wants, from the job's invariant.
LEMMA WantFacts ==
    ASSUME SpiInv, drv.pc # "idle"
    PROVE  /\ From(drv) \in Nat
           /\ drv.op = "read" => \A i \in 1 .. Len(drv.want) :
                                    drv.want[i] = <<"nor", From(drv) + i - 1>>
           /\ drv.op = "id" => /\ Len(drv.want) = 3
                               /\ \A i \in 1 .. 3 : drv.want[i] = <<"id", i - 1>>
           /\ drv.op = "sr" => drv.want = <<<<"status", 0>>>>
           /\ drv.op \in {"reset", "wren"} => drv.want = <<<<"zero", 0>>>>
<1>1. /\ drv.op \in Operations /\ Len(drv.want) \in Nat
  BY TypeFacts
<1>2. /\ From(drv) \in 0 .. Base * Base * Base - 1
      /\ drv.want = Wanted(drv.op, From(drv), Len(drv.want))
  BY DEF SpiInv, JobOk
<1>3. Base * Base * Base - 1 \in Int
  BY SpiAssumption
<1>4. From(drv) \in Nat
  BY <1>2, <1>3
<1>5. PICK a \in Nat : a = From(drv)
  BY <1>4
<1>6. PICK len \in Nat : len = Len(drv.want)
  BY <1>1
<1>7. drv.want = Wanted(drv.op, a, len)
  BY <1>2, <1>5, <1>6
<1>8. a \in Int
  OBVIOUS
<1>. QED  BY <1>1, <1>5, <1>6, <1>7, <1>8, WantedFacts

-----------------------------------------------------------------------------
(* Steps. *)

\* The parts of the next state.
LEMMA NextState ==
    ASSUME spi' \in Spis, nor' \in Nors, drv' \in Drivers,
           JobOk(drv'), CommandOk(spi', drv'), FlashOk(nor', drv'), BurstOk(spi', drv')
    PROVE  SpiInv'
  BY DEF SpiInv, Types

\* A driver that only goes on to its next step.
LEMMA Moved ==
    ASSUME NEW d \in Drivers, NEW pc \in Steps
    PROVE  LET e == [d EXCEPT !.pc = pc]
           IN  /\ e \in Drivers /\ e.pc = pc /\ e.op = d.op /\ e.words = d.words
               /\ e.want = d.want /\ e.got = d.got /\ e.burst = d.burst
               /\ e.fresh = d.fresh
               /\ From(e) = From(d) /\ Sending(e) = Sending(d) /\ Rest(e) = Rest(d)
<1> DEFINE e == [d EXCEPT !.pc = pc]
<1>1. e \in Drivers /\ e.pc = pc /\ e.op = d.op /\ e.words = d.words
      /\ e.want = d.want /\ e.got = d.got /\ e.burst = d.burst /\ e.fresh = d.fresh
  BY DEF Drivers
<1> HIDE DEF e
<1>2. From(e) = From(d) /\ Sending(e) = Sending(d) /\ Rest(e) = Rest(d)
  BY <1>1 DEF From, Sending, Rest
<1>. QED  BY <1>1, <1>2 DEF e

\* Registers of the controller that the status does not hold.
SameTx(s, t) ==
    t.setup = s.setup /\ t.tx_data = s.tx_data /\ t.txBuffer = s.txBuffer

\* A status read.
LEMMA StatusFacts ==
    ASSUME spi \in Spis, ReadStatus
    PROVE  /\ spi' \in Spis /\ SameTx(spi, spi') /\ nor' = nor
           /\ spi'.irq = FALSE /\ spi'.rx = spi.rx /\ spi'.left = spi.left
           /\ spi'.timer = spi.timer /\ spi'.rxFifoCnt = spi.rxFifoCnt
  BY DEF ReadStatus, Spis, SameTx

\* A status write.
LEMMA ClearFacts ==
    ASSUME spi \in Spis, WriteStatus
    PROVE  /\ spi' \in Spis /\ nor' = nor /\ spi'.txBuffer = 0
           /\ spi'.setup = spi.setup /\ spi'.tx_data = spi.tx_data
  BY FieldFacts DEF WriteStatus, Spis

\* A new command.
LEMMA BeginKeeps ==
    ASSUME SpiInv, NEW op \in Operations, NEW a \in Nat, NEW len \in Nat, Begin(op, a, len),
           op = "read" => a \in 0 .. Base * Base * Base - 1 /\ len > 0,
           op # "read" => a = 0
    PROVE  SpiInv'
<1> DEFINE w == Wanted(op, a, len)
           c == Words(op, a)
           e == [drv EXCEPT !.pc = "words", !.op = op, !.words = c, !.want = w,
                            !.got = <<>>,
                            !.fresh = drv.fresh /\ op \notin {"read", "id"}]
<1>1. spi \in Spis /\ nor \in Nors /\ drv \in Drivers /\ drv.pc = "idle"
  BY TypeFacts DEF Begin, At
<1>2. drv' = e /\ WriteStatus /\ (op = "id" => drv.fresh)
  BY DEF Begin
<1>3. a \in Int
  OBVIOUS
<1>4. w \in Seq(Bytes) /\ (op = "read" => Len(w) = len /\ w[1] = <<"nor", a + 1 - 1>>)
  BY <1>3, WantedFacts
<1>5. c \in Seq(Int) /\ Len(c) \in 1 .. 4
  BY WordsFacts
<1>6. (drv.fresh /\ op \notin {"read", "id"}) \in BOOLEAN
  BY <1>1 DEF Drivers
<1> HIDE DEF w, c
<1>7. <<>> \in Seq(Bytes)
  OBVIOUS
<1>8. /\ e \in Drivers /\ e.pc = "words" /\ e.op = op /\ e.words = c /\ e.want = w
      /\ e.got = <<>> /\ e.fresh = (drv.fresh /\ op \notin {"read", "id"})
  BY <1>1, <1>4, <1>5, <1>6, <1>7 DEF Drivers, Steps
<1> HIDE DEF e
<1>9. From(e) = a
  BY <1>4, <1>8 DEF From
<1>10. w = Wanted(op, a, Len(w)) /\ Len(w) \in Nat
  <2>1. CASE op = "read"
    BY <1>4, <2>1 DEF w
  <2>2. CASE op # "read"
    <3>1. Wanted(op, a, len) = Wanted(op, a, Len(w))
      BY <2>2 DEF Wanted
    <3>. QED  BY <3>1, <1>4 DEF w
  <2>. QED  BY <2>1, <2>2
<1>11. a \in 0 .. Base * Base * Base - 1
  <2>1. Base * Base * Base > 0 /\ Base * Base * Base \in Nat
    <3>1. Base \in Nat /\ Base > 0
      BY SpiAssumption
    <3>2. Base * Base \in Nat /\ Base * Base > 0
      BY <3>1
    <3>. QED  BY <3>1, <3>2
  <2>. QED  BY <2>1
<1>12. JobOk(e)
  <2>1. Len(e.got) = 0 /\ e.got = <<>>
    BY <1>8
  <2>2. Len(e.got) <= Len(e.want) /\ \A i \in 1 .. Len(e.got) : e.got[i] = e.want[i]
    BY <2>1, <1>8, <1>10
  <2>3. From(e) \in 0 .. Base * Base * Base - 1 /\ e.want = Wanted(e.op, From(e), Len(e.want))
    BY <1>8, <1>9, <1>10, <1>11
  <2>4. e.op \in {"read", "id"} => ~e.fresh
    BY <1>8
  <2>5. e.pc # "burst" /\ e.pc \notin Receiving /\ e.pc # "dummy"
    BY <1>8 DEF Receiving
  <2>. QED  BY <2>1, <2>2, <2>3, <2>4, <2>5 DEF JobOk
<1>13. spi' \in Spis /\ nor' = nor /\ spi'.txBuffer = 0
  BY <1>1, <1>2, ClearFacts
<1>14. CommandOk(spi', e)
  <2>1. Sending(e) = c
    BY <1>8, <1>9 DEF Sending, c
  <2>2. \A j \in 1 .. Len(c) : c[j] = c[0 + j]
    BY <1>5
  <2>. QED  BY <2>1, <2>2, <1>5, <1>8, <1>13 DEF CommandOk
<1>15. FlashOk(nor, e)
  <2>1. drv.fresh => nor.wordRx = 0
    BY DEF SpiInv, FlashOk
  <2>. QED  BY <2>1, <1>2, <1>8 DEF FlashOk, Sent, Taking
<1>16. BurstOk(spi', e)
  BY <1>8 DEF BurstOk, Taking
<1>. QED  BY <1>1, <1>2, <1>8, <1>12, <1>13, <1>14, <1>15, <1>16, NextState

\* A word of the command.
LEMMA SendWordKeeps ==
    ASSUME SpiInv, SendWord
    PROVE  SpiInv'
<1> DEFINE b == spi.txBuffer
           w == Sending(drv)
           x == Head(drv.words)
           data == [i \in DOMAIN spi.tx_data |-> IF i = b THEN x ELSE spi.tx_data[i]]
           t == [spi EXCEPT !.tx_data = data, !.txBuffer = b + 1]
           r == Tail(drv.words)
           e == [drv EXCEPT !.words = r]
<1>1. /\ spi \in Spis /\ nor \in Nors /\ drv \in Drivers /\ drv.pc = "words"
      /\ drv.words \in Seq(Int) /\ drv.words # <<>> /\ b \in Nat
      /\ TxWords \in Nat /\ TxWords >= 4
  BY TypeFacts DEF SendWord, At
<1>2. drv' = e /\ spi' = t /\ nor' = nor
  BY DEF SendWord, WriteTxdata
<1>3. /\ b + Len(drv.words) = Len(w)
      /\ \A j \in 1 .. Len(drv.words) : drv.words[j] = w[b + j]
      /\ \A i \in 0 .. b - 1 : spi.tx_data[i] = w[i + 1]
  BY <1>1 DEF SpiInv, CommandOk
<1>4. drv.op \in Operations /\ From(drv) \in Nat
  BY <1>1, TypeFacts, WantFacts
<1>5. w \in Seq(Int) /\ Len(w) \in Int /\ Len(w) <= 4
  <2>1. w \in Seq(Int) /\ Len(w) \in 1 .. 4
    BY <1>4, WordsFacts DEF Sending
  <2>2. \A n \in 1 .. 4 : n \in Int /\ n <= 4
    OBVIOUS
  <2> HIDE DEF w
  <2>. QED  BY <2>1, <2>2
<1>6. /\ r \in Seq(Int) /\ Len(r) = Len(drv.words) - 1 /\ x = drv.words[1] /\ x \in Int
      /\ \A j \in 1 .. Len(r) : r[j] = drv.words[j + 1]
      /\ Len(drv.words) \in Nat /\ Len(drv.words) >= 1
  BY <1>1
<1> HIDE DEF w, x, r
<1>7. b < 4 /\ x = w[b + 1]
  <2>1. 1 \in 1 .. Len(drv.words)
    BY <1>6
  <2>2. drv.words[1] = w[b + 1]
    BY <1>3, <2>1
  <2>3. \A m, n \in Int : b + m = n /\ m >= 1 /\ n <= 4 => b < 4
    BY <1>1
  <2>4. b < 4
    BY <1>3, <1>5, <1>6, <2>3
  <2>. QED  BY <2>2, <2>4, <1>6
<1>8. /\ data \in [0 .. TxWords - 1 -> Int] /\ data[b] = x
      /\ \A i \in 0 .. b - 1 : data[i] = spi.tx_data[i]
  BY <1>1, <1>6, <1>7 DEF Spis
<1> HIDE DEF data
<1>9. t \in Spis /\ t.tx_data = data /\ t.txBuffer = b + 1 /\ t.setup = spi.setup
  <2>1. b + 1 \in Nat
    BY <1>1
  <2>2. \A k \in Nat, f \in [0 .. TxWords - 1 -> Int] :
           LET u == [spi EXCEPT !.tx_data = f, !.txBuffer = k]
           IN  u \in Spis /\ u.tx_data = f /\ u.txBuffer = k /\ u.setup = spi.setup
    BY <1>1 DEF Spis
  <2>. QED  BY <1>8, <2>1, <2>2
<1>10. /\ e \in Drivers /\ e.pc = "words" /\ e.op = drv.op /\ e.words = r
       /\ e.want = drv.want /\ e.got = drv.got /\ e.fresh = drv.fresh
  BY <1>1, <1>6 DEF Drivers
<1> HIDE DEF t, e, b
<1>11. From(e) = From(drv) /\ Sending(e) = w /\ Rest(e) = Rest(drv)
  BY <1>10 DEF From, Sending, Rest, w
<1>12. JobOk(e)
  BY <1>1, <1>10, <1>11 DEF SpiInv, JobOk, Taking, Receiving
<1>13. CommandOk(t, e)
  <2>1. t.txBuffer <= 4 /\ t.txBuffer + Len(r) = Len(w)
    <3>1. \A m, n \in Int : b + m = n => b + 1 + (m - 1) = n
      BY <1>1
    <3>2. b + 1 <= 4
      BY <1>1, <1>7
    <3>3. b + 1 + Len(r) = Len(w)
      BY <1>3, <1>5, <1>6, <3>1
    <3>. QED  BY <1>9, <3>2, <3>3
  <2>2. \A j \in 1 .. Len(r) : r[j] = w[t.txBuffer + j]
    BY <1>1, <1>3, <1>6, <1>9
  <2>3. \A i \in 0 .. t.txBuffer - 1 : t.tx_data[i] = w[i + 1]
    BY <1>1, <1>3, <1>7, <1>8, <1>9
  <2>. QED  BY <2>1, <2>2, <2>3, <1>10, <1>11 DEF CommandOk
<1>14. FlashOk(nor, e)
  BY <1>1, <1>10 DEF SpiInv, FlashOk, Sent, Taking
<1>15. BurstOk(t, e)
  BY <1>10 DEF BurstOk, Taking
<1>. QED  BY <1>1, <1>2, <1>9, <1>10, <1>12, <1>13, <1>14, <1>15, NextState

\* The direction of the transfer.
LEMMA DirectionKeeps ==
    ASSUME SpiInv, SetDirection
    PROVE  SpiInv'
<1>1. spi \in Spis /\ nor \in Nors /\ drv \in Drivers /\ spi.txBuffer \in Nat
  BY TypeFacts
<1>2. CASE At("words") /\ drv.words = <<>> /\ WriteSetup("tx") /\ Goto("send")
  <2> DEFINE e == [drv EXCEPT !.pc = "send"]
             t == [spi EXCEPT !.setup = "tx"]
  <2>1. drv' = e /\ spi' = t /\ nor' = nor /\ drv.pc = "words" /\ Len(drv.words) = 0
    BY <1>2 DEF At, Goto, WriteSetup
  <2>2. t \in Spis /\ t.setup = "tx" /\ t.tx_data = spi.tx_data /\ t.txBuffer = spi.txBuffer
    BY <1>1 DEF Spis
  <2>3. /\ e \in Drivers /\ e.pc = "send" /\ e.op = drv.op /\ e.want = drv.want
        /\ e.got = drv.got /\ e.fresh = drv.fresh
        /\ From(e) = From(drv) /\ Sending(e) = Sending(drv) /\ Rest(e) = Rest(drv)
    BY <1>1, Moved DEF Steps
  <2> HIDE DEF e, t
  <2>4. JobOk(e)
    BY <2>1, <2>3 DEF SpiInv, JobOk, Taking, Receiving
  <2>5. CommandOk(t, e)
    BY <1>1, <2>1, <2>2, <2>3 DEF SpiInv, CommandOk
  <2>6. FlashOk(nor, e) /\ BurstOk(t, e)
    BY <2>1, <2>3 DEF SpiInv, FlashOk, BurstOk, Sent, Taking
  <2>. QED  BY <1>1, <2>1, <2>2, <2>3, <2>4, <2>5, <2>6, NextState
<1>3. CASE At("turn") /\ WriteSetup("rx") /\ Goto("count")
  <2> DEFINE e == [drv EXCEPT !.pc = "count"]
             t == [spi EXCEPT !.setup = "rx"]
  <2>1. drv' = e /\ spi' = t /\ nor' = nor /\ drv.pc = "turn"
    BY <1>3 DEF At, Goto, WriteSetup
  <2>2. t \in Spis /\ t.setup = "rx" /\ t.tx_data = spi.tx_data /\ t.txBuffer = spi.txBuffer
    BY <1>1 DEF Spis
  <2>3. /\ e \in Drivers /\ e.pc = "count" /\ e.op = drv.op /\ e.want = drv.want
        /\ e.got = drv.got /\ e.fresh = drv.fresh
        /\ From(e) = From(drv) /\ Sending(e) = Sending(drv) /\ Rest(e) = Rest(drv)
    BY <1>1, Moved DEF Steps
  <2> HIDE DEF e, t
  <2>4. JobOk(e)
    BY <2>1, <2>3 DEF SpiInv, JobOk, Taking, Receiving
  <2>5. CommandOk(t, e)
    BY <2>2, <2>3 DEF SpiInv, CommandOk
  <2>6. FlashOk(nor, e) /\ BurstOk(t, e)
    BY <2>1, <2>3 DEF SpiInv, FlashOk, BurstOk, Sent, Taking, Steps
  <2>. QED  BY <1>1, <2>1, <2>2, <2>3, <2>4, <2>5, <2>6, NextState
<1>. QED  BY <1>2, <1>3 DEF SetDirection

\* The command reaches the flash.
LEMMA SendKeeps ==
    ASSUME SpiInv, Send
    PROVE  SpiInv'
<1> DEFINE e == [drv EXCEPT !.pc = "sending"]
           tx == spi.tx_data
           m == pflash_cmd_set(nor, tx)
           w == Sending(drv)
<1>1. spi \in Spis /\ nor \in Nors /\ drv \in Drivers /\ drv.pc = "send"
      /\ drv.op \in Operations /\ From(drv) \in Nat
  BY TypeFacts, WantFacts DEF Send, At
<1>2. spi.setup = "tx" /\ \A i \in 0 .. Len(w) - 1 : tx[i] = w[i + 1]
  BY <1>1 DEF SpiInv, CommandOk
<1>3. /\ drv' = e /\ nor' = m
      /\ spi' = [spi EXCEPT !.tx = TRUE, !.rx = FALSE, !.left = {}, !.irq = TRUE]
  BY <1>2 DEF Send, WriteControl, Goto
<1>4. spi' \in Spis /\ SameTx(spi, spi')
  BY <1>1, <1>3, FieldFacts DEF Spis, SameTx
<1>5. /\ e \in Drivers /\ e.pc = "sending" /\ e.op = drv.op /\ e.want = drv.want
      /\ e.got = drv.got /\ e.fresh = drv.fresh
      /\ From(e) = From(drv) /\ Sending(e) = Sending(drv) /\ Rest(e) = Rest(drv)
  BY <1>1, Moved DEF Steps
<1>6. /\ w \in Seq(Int) /\ Len(w) \in 1 .. 4 /\ w[1] = Command[drv.op]
      /\ drv.op = "read" => /\ Len(w) = 4
                            /\ (w[2] * Base + w[3]) * Base + w[4] = From(drv)
  BY <1>1, WordsFacts DEF Sending
<1> HIDE DEF w
<1>7. tx[0] = Command[drv.op] /\ (drv.op = "read" => tx[1] = w[2] /\ tx[2] = w[3] /\ tx[3] = w[4])
  BY <1>2, <1>6
<1>8. Command[drv.op] \in Int /\ (Command[drv.op] = NOR_SPI_READ <=> drv.op = "read")
  BY <1>1, CommandFacts DEF NOR_SPI_READ
<1>9. /\ m \in Nors /\ m.cmd = Command[drv.op]
      /\ drv.op = "read" => m.wordRx = From(drv)
      /\ drv.op # "read" => m.wordRx = nor.wordRx
  <2>1. CASE drv.op = "read"
    <3>1. m = [nor EXCEPT !.cmd = Command[drv.op], !.wordRx = From(drv)]
      BY <1>6, <1>7, <1>8, <2>1 DEF pflash_cmd_set
    <3>2. \A c, x \in Int :
             LET u == [nor EXCEPT !.cmd = c, !.wordRx = x]
             IN  u \in Nors /\ u.cmd = c /\ u.wordRx = x
      BY <1>1 DEF Nors
    <3>3. PICK x \in Int : x = From(drv)
      BY <1>1
    <3>4. PICK c \in Int : c = Command[drv.op]
      BY <1>8
    <3> HIDE DEF m
    <3>5. m = [nor EXCEPT !.cmd = c, !.wordRx = x]
      BY <3>1, <3>3, <3>4
    <3>6. m \in Nors /\ m.cmd = c /\ m.wordRx = x
      BY <3>2, <3>5
    <3>. QED  BY <3>3, <3>4, <3>6, <2>1
  <2>2. CASE drv.op # "read"
    <3>1. m = [nor EXCEPT !.cmd = Command[drv.op]]
      BY <1>7, <1>8, <2>2 DEF pflash_cmd_set
    <3>. QED  BY <3>1, <1>1, <1>8, <2>2 DEF Nors
  <2>. QED  BY <2>1, <2>2
<1> HIDE DEF m, e
<1>10. drv.got = <<>> /\ Len(drv.got) = 0
  BY <1>1 DEF SpiInv, JobOk, Taking
<1>11. JobOk(e)
  BY <1>1, <1>5 DEF SpiInv, JobOk, Taking, Receiving
<1>12. CommandOk(spi', e)
  BY <1>4, <1>5 DEF SpiInv, CommandOk, SameTx
<1>13. FlashOk(m, e)
  <2>1. /\ drv.fresh => nor.wordRx = 0 /\ drv.op # "read"
        /\ drv.op = "id" => nor.wordRx = 0
        /\ From(drv) + Len(drv.got) = From(drv)
    BY <1>1, <1>10 DEF SpiInv, FlashOk, JobOk
  <2>. QED  BY <2>1, <1>5, <1>9, <1>10 DEF FlashOk, Taking
<1>14. BurstOk(spi', e)
  BY <1>5 DEF BurstOk, Taking
<1>. QED  BY <1>3, <1>4, <1>5, <1>9, <1>11, <1>12, <1>13, <1>14, NextState

\* The number of bytes to receive.
LEMMA CountKeeps ==
    ASSUME SpiInv, Count
    PROVE  SpiInv'
<1> DEFINE e == [drv EXCEPT !.pc = "receive"]
           m == [nor EXCEPT !.rxLen = Len(drv.want)]
<1>1. /\ spi \in Spis /\ nor \in Nors /\ drv \in Drivers /\ drv.pc = "count"
      /\ Len(drv.want) \in Nat
  BY TypeFacts DEF Count, At
<1>2. drv' = e /\ nor' = m /\ spi' = spi
  BY DEF Count, WriteCnt, pflash_set_rxlen, Goto
<1>3. m \in Nors /\ m.cmd = nor.cmd /\ m.wordRx = nor.wordRx /\ m.rxLen = Len(drv.want)
  BY <1>1 DEF Nors
<1>4. /\ e \in Drivers /\ e.pc = "receive" /\ e.op = drv.op /\ e.want = drv.want
      /\ e.got = drv.got /\ e.fresh = drv.fresh
      /\ From(e) = From(drv) /\ Sending(e) = Sending(drv) /\ Rest(e) = Rest(drv)
  BY <1>1, Moved DEF Steps
<1> HIDE DEF m, e
<1>5. Rest(drv) = Len(drv.want)
  <2>1. drv.got = <<>> /\ Len(drv.got) = 0
    BY <1>1 DEF SpiInv, JobOk, Taking
  <2>. QED  BY <1>1, <2>1 DEF Rest
<1>6. JobOk(e)
  BY <1>1, <1>4 DEF SpiInv, JobOk, Taking, Receiving
<1>7. CommandOk(spi, e)
  BY <1>1, <1>4 DEF SpiInv, CommandOk
<1>8. FlashOk(m, e)
  BY <1>1, <1>3, <1>4, <1>5 DEF SpiInv, FlashOk, Sent, Steps, Taking
<1>9. BurstOk(spi, e)
  BY <1>4 DEF BurstOk, Taking
<1>. QED  BY <1>1, <1>2, <1>3, <1>4, <1>6, <1>7, <1>8, <1>9, NextState

\* The transfer starts: the FIFO is full or holds all that is asked for.
LEMMA ReceiveKeeps ==
    ASSUME SpiInv, Receive
    PROVE  SpiInv'
<1> DEFINE e == [drv EXCEPT !.pc = "waiting"]
           m == AfterLen(nor)
           x == Or(spi.left, nor)
<1>1. /\ spi \in Spis /\ nor \in Nors /\ drv \in Drivers /\ drv.pc = "receive"
      /\ drv.op \in Operations /\ spi.left \in Fields /\ Rest(drv) \in Nat
      /\ Len(drv.want) \in Nat /\ Fifo \in Nat /\ Fifo >= 3
  BY TypeFacts DEF Receive, At
<1>2. spi.setup = "rx"
  BY <1>1 DEF SpiInv, CommandOk
<1>3. /\ drv' = e /\ nor' = m
      /\ spi' = [spi EXCEPT !.rxFifoCnt = 0, !.rx = TRUE, !.left = x, !.irq = TRUE]
  BY <1>2 DEF Receive, WriteControl, Goto
<1>4. /\ x \in Fields /\ m \in Nors /\ m.cmd = nor.cmd /\ m.wordRx = nor.wordRx
      /\ nor.cmd # 159 => m = nor
  BY <1>1, LenFacts
<1>5. x = spi.left \cup Bits(pflash_cmd_len(nor))
  BY DEF Or
<1>6. /\ e \in Drivers /\ e.pc = "waiting" /\ e.op = drv.op /\ e.want = drv.want
      /\ e.got = drv.got /\ e.fresh = drv.fresh
      /\ From(e) = From(drv) /\ Sending(e) = Sending(drv) /\ Rest(e) = Rest(drv)
  BY <1>1, Moved DEF Steps
<1> HIDE DEF m, e, x
<1>7. spi' \in Spis /\ SameTx(spi, spi') /\ spi'.left = x /\ spi'.irq /\ spi'.rx
  <2>1. 0 \in 0 .. Fifo - 1
    BY <1>1
  <2>2. \A k \in 0 .. Fifo - 1, l \in Fields :
           LET u == [spi EXCEPT !.rxFifoCnt = k, !.rx = TRUE, !.left = l, !.irq = TRUE]
           IN  u \in Spis /\ SameTx(spi, u) /\ u.left = l /\ u.irq /\ u.rx
    BY <1>1 DEF Spis, SameTx
  <2>. QED  BY <1>3, <1>4, <2>1, <2>2
<1>8. /\ nor.cmd = Command[drv.op] /\ drv.op \notin {"reset", "wren"}
      /\ drv.op = "read" => nor.rxLen = Rest(drv) /\ nor.cmd # 159
      /\ drv.op = "id" => nor.wordRx = Len(drv.got)
      /\ drv.got = <<>> /\ Len(drv.got) = 0
  BY <1>1, CommandFacts DEF SpiInv, FlashOk, JobOk, Sent, Steps, Taking, Receiving
<1>9. Rest(drv) = Len(drv.want)
  BY <1>1, <1>8 DEF Rest
<1>10. /\ drv.op = "id" => Len(drv.want) = 3
       /\ drv.op = "sr" => Len(drv.want) = 1
  BY <1>1, WantFacts
<1>11. Bits(Lesser(Rest(drv), Fifo)) \subseteq x
  <2>1. drv.op \in {"read", "id", "sr"}
    BY <1>1, <1>8, CommandFacts
  <2>2. PICK r \in Nat : r = Rest(drv)
    BY <1>1
  <2>3. /\ drv.op = "read" => nor.rxLen = r
        /\ drv.op = "id" => r = 3 - nor.wordRx /\ r <= 3
        /\ drv.op = "sr" => r <= 1
    <3>1. drv.op = "id" => nor.wordRx = 0 /\ r = 3
      BY <1>8, <1>9, <1>10, <2>2
    <3>2. drv.op = "sr" => r = 1
      BY <1>9, <1>10, <2>2
    <3>. QED  BY <1>8, <2>2, <3>1, <3>2
  <2>4. Bits(Lesser(r, Fifo)) \subseteq Bits(pflash_cmd_len(nor))
    BY <1>1, <1>8, <2>1, <2>3, LenCovers
  <2>. QED  BY <1>5, <2>2, <2>4
<1>12. JobOk(e)
  BY <1>1, <1>6 DEF SpiInv, JobOk, Taking, Receiving
<1>13. CommandOk(spi', e)
  BY <1>6, <1>7 DEF SpiInv, CommandOk, SameTx
<1>14. FlashOk(m, e)
  BY <1>1, <1>4, <1>6, <1>8 DEF SpiInv, FlashOk, Sent, Steps, Taking
<1>15. BurstOk(spi', e)
  BY <1>6, <1>7, <1>11 DEF BurstOk, Taking, Coming
<1>. QED  BY <1>3, <1>4, <1>6, <1>7, <1>12, <1>13, <1>14, <1>15, NextState

\* The interrupt of a command that was sent.
LEMMA OnSentKeeps ==
    ASSUME SpiInv, OnSent
    PROVE  SpiInv'
<1>1. PICK pc \in {"sent", "sending"} : drv' = [drv EXCEPT !.pc = pc]
  BY DEF OnSent, Goto
<1> DEFINE e == [drv EXCEPT !.pc = pc]
<1>2. spi \in Spis /\ nor \in Nors /\ drv \in Drivers /\ drv.pc = "sending"
  BY TypeFacts DEF OnSent, At
<1>3. spi' \in Spis /\ SameTx(spi, spi') /\ nor' = nor
  BY <1>2, StatusFacts DEF OnSent
<1>4. /\ e \in Drivers /\ e.pc \in {"sent", "sending"} /\ e.op = drv.op /\ e.want = drv.want
      /\ e.got = drv.got /\ e.fresh = drv.fresh
      /\ From(e) = From(drv) /\ Sending(e) = Sending(drv) /\ Rest(e) = Rest(drv)
  <2>1. pc \in Steps
    BY DEF Steps
  <2>. QED  BY <1>2, <2>1, Moved
<1> HIDE DEF e
<1>5. JobOk(e)
  BY <1>2, <1>4 DEF SpiInv, JobOk, Taking, Receiving
<1>6. CommandOk(spi', e)
  BY <1>3, <1>4 DEF SpiInv, CommandOk, SameTx
<1>7. FlashOk(nor, e) /\ BurstOk(spi', e)
  BY <1>2, <1>4 DEF SpiInv, FlashOk, BurstOk, Sent, Steps, Taking
<1>. QED  BY <1>1, <1>2, <1>3, <1>4, <1>5, <1>6, <1>7, NextState DEF e

\* The status cleared after it.
LEMMA ClearSentKeeps ==
    ASSUME SpiInv, ClearSent
    PROVE  SpiInv'
<1>1. PICK pc \in {"dummy", "turn"} :
        /\ drv' = [drv EXCEPT !.pc = pc]
        /\ pc = "dummy" => drv.op \in {"reset", "wren"}
        /\ pc = "turn" => drv.op \notin {"reset", "wren"}
  BY DEF ClearSent, Goto
<1> DEFINE e == [drv EXCEPT !.pc = pc]
<1>2. spi \in Spis /\ nor \in Nors /\ drv \in Drivers /\ drv.pc = "sent"
  BY TypeFacts DEF ClearSent, At
<1>3. spi' \in Spis /\ spi'.txBuffer = 0 /\ nor' = nor
  BY <1>2, ClearFacts DEF ClearSent
<1>4. /\ e \in Drivers /\ e.pc = pc /\ e.op = drv.op /\ e.want = drv.want
      /\ e.got = drv.got /\ e.fresh = drv.fresh
      /\ From(e) = From(drv) /\ Sending(e) = Sending(drv) /\ Rest(e) = Rest(drv)
  <2>1. pc \in Steps
    BY DEF Steps
  <2>. QED  BY <1>2, <2>1, Moved
<1> HIDE DEF e
<1>5. JobOk(e)
  BY <1>1, <1>2, <1>4 DEF SpiInv, JobOk, Taking, Receiving
<1>6. CommandOk(spi', e)
  BY <1>3, <1>4 DEF CommandOk
<1>7. FlashOk(nor, e) /\ BurstOk(spi', e)
  BY <1>2, <1>4 DEF SpiInv, FlashOk, BurstOk, Sent, Steps, Taking
<1>. QED  BY <1>1, <1>2, <1>3, <1>4, <1>5, <1>6, <1>7, NextState DEF e

\* A receive interrupt: if the burst falls short of what is asked for, it is
\* the whole FIFO.
LEMMA OnReceiveKeeps ==
    ASSUME SpiInv, OnReceive
    PROVE  SpiInv'
<1> DEFINE l == RX_BUFFER_LEFT(spi.left)
           k == Lesser(l, Rest(drv))
           e == [drv EXCEPT !.pc = "burst", !.burst = k]
<1>1. /\ spi \in Spis /\ nor \in Nors /\ drv \in Drivers /\ drv.pc = "waiting"
      /\ spi.left \in Fields /\ Rest(drv) \in Nat /\ Fifo \in Nat
      /\ spi.rxFifoCnt \in 0 .. Fifo - 1
  BY TypeFacts DEF OnReceive, At
<1>2. /\ spi' \in Spis /\ SameTx(spi, spi') /\ nor' = nor /\ spi'.rx = spi.rx
      /\ spi'.left = spi.left /\ spi'.timer = spi.timer
      /\ spi'.rxFifoCnt = spi.rxFifoCnt
  BY <1>1, StatusFacts DEF OnReceive
<1>3. Bits(Lesser(Rest(drv), Fifo)) \subseteq spi.left /\ Coming(spi)
  BY <1>1 DEF SpiInv, BurstOk, Taking
<1>4. CASE spi.rx
  <2>1. drv' = e
    BY <1>4 DEF OnReceive, Rest
  <2>2. Lesser(Rest(drv), Fifo) \in 0 .. Fifo
    BY <1>1 DEF Lesser
  <2>3. l \in 0 .. Fifo /\ Lesser(Rest(drv), Fifo) <= l
    BY <1>1, <1>3, <2>2, LeftFacts
  <2> HIDE DEF l
  <2>4. k \in 0 .. Rest(drv) /\ (k < Rest(drv) => k = Fifo)
    BY <1>1, <2>3 DEF Lesser
  <2> HIDE DEF k
  <2>5. /\ e \in Drivers /\ e.pc = "burst" /\ e.op = drv.op /\ e.want = drv.want
        /\ e.got = drv.got /\ e.fresh = drv.fresh /\ e.burst = k
    <3>1. k \in Int
      BY <1>1, <2>4
    <3>2. \A n \in Int :
             LET u == [drv EXCEPT !.pc = "burst", !.burst = n]
             IN  /\ u \in Drivers /\ u.pc = "burst" /\ u.op = drv.op /\ u.want = drv.want
                 /\ u.got = drv.got /\ u.fresh = drv.fresh /\ u.burst = n
      BY <1>1 DEF Drivers, Steps
    <3>. QED  BY <3>1, <3>2
  <2> HIDE DEF e
  <2>6. From(e) = From(drv) /\ Sending(e) = Sending(drv) /\ Rest(e) = Rest(drv)
    BY <2>5 DEF From, Sending, Rest
  <2>7. JobOk(e)
    BY <1>1, <2>4, <2>5, <2>6 DEF SpiInv, JobOk, Taking, Receiving
  <2>8. CommandOk(spi', e)
    BY <1>2, <2>5 DEF SpiInv, CommandOk, SameTx
  <2>9. FlashOk(nor, e)
    BY <1>1, <2>5, <2>6 DEF SpiInv, FlashOk, Sent, Steps, Taking
  <2>10. BurstOk(spi', e)
    <3>1. k < Rest(drv) => spi'.rxFifoCnt + k >= Fifo
      BY <1>1, <1>2, <2>4
    <3>. QED  BY <1>2, <1>3, <2>5, <2>6, <3>1 DEF BurstOk
  <2>. QED  BY <1>1, <1>2, <2>1, <2>5, <2>7, <2>8, <2>9, <2>10, NextState
<1>5. CASE ~spi.rx
  <2>1. drv' = drv
    BY <1>5 DEF OnReceive
  <2>2. CommandOk(spi', drv)
    BY <1>2 DEF SpiInv, CommandOk, SameTx
  <2>3. BurstOk(spi', drv)
    BY <1>1, <1>2, <1>3, <1>5 DEF BurstOk, Coming
  <2>. QED  BY <1>1, <1>2, <2>1, <2>2, <2>3, NextState DEF SpiInv
<1>. QED  BY <1>4, <1>5

\* An interrupt that nobody waits for.
LEMMA OnSpuriousKeeps ==
    ASSUME SpiInv, OnSpurious
    PROVE  SpiInv'
<1>1. spi \in Spis /\ nor \in Nors /\ drv \in Drivers /\ drv' = drv
      /\ drv.pc \notin {"sending", "waiting", "burst"}
  BY TypeFacts DEF OnSpurious
<1>2. spi' \in Spis /\ SameTx(spi, spi') /\ nor' = nor
  BY <1>1, StatusFacts DEF OnSpurious
<1>3. CommandOk(spi', drv)
  BY <1>2 DEF SpiInv, CommandOk, SameTx
<1>4. BurstOk(spi', drv)
  BY <1>1 DEF BurstOk, Taking
<1>. QED  BY <1>1, <1>2, <1>3, <1>4, NextState DEF SpiInv

\* What the flash gives while a burst lasts: the next byte that is wanted.
LEMMA ParseFacts ==
    ASSUME SpiInv, drv.pc = "burst", drv.burst > 0
    PROVE  LET p == pflash_cmd_parse(nor)
           IN  /\ drv.op \in {"read", "id", "sr"} /\ Rest(drv) >= 1
               /\ Len(drv.got) + 1 \in 1 .. Len(drv.want)
               /\ ParsedByte(nor) = drv.want[Len(drv.got) + 1]
               /\ p.cmd = Command[drv.op]
               /\ drv.op = "read" => /\ p.rxLen = Rest(drv) - 1
                                     /\ p.wordRx = From(drv) + Len(drv.got) + 1
               /\ drv.op = "id" => /\ p.wordRx = Len(drv.got) + 1
                                   /\ Len(drv.want) = 3
               /\ drv.op = "sr" => p.wordRx = nor.wordRx /\ Len(drv.want) = 1
<1> DEFINE p == pflash_cmd_parse(nor)
           g == Len(drv.got)
           a == From(drv)
<1>1. /\ nor \in Nors /\ drv.op \in Operations /\ g \in Nat /\ Len(drv.want) \in Nat
      /\ Rest(drv) \in Nat /\ drv.burst \in Int
  BY TypeFacts
<1>2. /\ a \in Nat
      /\ drv.op = "read" => \A i \in 1 .. Len(drv.want) : drv.want[i] = <<"nor", a + i - 1>>
      /\ drv.op = "id" => /\ Len(drv.want) = 3
                          /\ \A i \in 1 .. 3 : drv.want[i] = <<"id", i - 1>>
      /\ drv.op = "sr" => drv.want = <<<<"status", 0>>>>
  BY WantFacts
<1>3. drv.burst \in 0 .. Rest(drv) /\ drv.op \notin {"reset", "wren"}
  BY DEF SpiInv, JobOk, Receiving
<1>4. /\ nor.cmd = Command[drv.op]
      /\ drv.op = "read" => nor.wordRx = a + g /\ nor.rxLen = Rest(drv)
      /\ drv.op = "id" => nor.wordRx = g
  BY DEF SpiInv, FlashOk, Sent, Steps, Taking
<1>5. Rest(drv) >= 1 /\ Rest(drv) = Len(drv.want) - g
  <2>1. Rest(drv) = Len(drv.want) - g
    BY DEF Rest
  <2>2. Rest(drv) >= 1
    BY <1>1, <1>3
  <2>. QED  BY <2>1, <2>2
<1> HIDE DEF g, a
<1>6. g + 1 \in 1 .. Len(drv.want)
  BY <1>1, <1>5
<1>7. drv.op \in {"read", "id", "sr"}
  BY <1>1, <1>3, CommandFacts
<1>8. CASE drv.op = "read"
  <2>1. nor.cmd = 3 /\ nor.rxLen # 0
    BY <1>4, <1>5, <1>8, CommandFacts
  <2>2. p = [nor EXCEPT !.rxLen = @ - 1, !.wordRx = @ + 1]
    BY <2>1 DEF pflash_cmd_parse, NOR_SPI_READ, NOR_SPI_RDSR, NOR_SPI_JEDECID
  <2> HIDE DEF p
  <2>3. p.cmd = nor.cmd /\ p.rxLen = nor.rxLen - 1 /\ p.wordRx = nor.wordRx + 1
    BY <1>1, <2>2 DEF Nors
  <2>4. ParsedByte(nor) = <<"nor", nor.wordRx>>
    BY <2>1 DEF ParsedByte, NOR_SPI_READ, NOR_SPI_RDSR, NOR_SPI_JEDECID
  <2>5. drv.want[g + 1] = <<"nor", a + (g + 1) - 1>>
    BY <1>2, <1>6, <1>8
  <2>6. a + (g + 1) - 1 = a + g
    BY <1>1, <1>2
  <2>. QED  BY <1>4, <1>5, <1>6, <1>7, <1>8, <2>3, <2>4, <2>5, <2>6 DEF p, g, a
<1>9. CASE drv.op = "id"
  <2>1. nor.cmd = 159
    BY <1>4, <1>9, CommandFacts
  <2>2. p = [nor EXCEPT !.wordRx = @ + 1]
    BY <2>1 DEF pflash_cmd_parse, NOR_SPI_READ, NOR_SPI_RDSR, NOR_SPI_JEDECID
  <2> HIDE DEF p
  <2>3. p.cmd = nor.cmd /\ p.wordRx = nor.wordRx + 1
    BY <1>1, <2>2 DEF Nors
  <2>4. ParsedByte(nor) = <<"id", nor.wordRx>>
    BY <2>1 DEF ParsedByte, NOR_SPI_READ, NOR_SPI_RDSR, NOR_SPI_JEDECID
  <2>5. drv.want[g + 1] = <<"id", (g + 1) - 1>>
    BY <1>2, <1>6, <1>9
  <2>6. (g + 1) - 1 = g
    BY <1>1
  <2>. QED  BY <1>2, <1>4, <1>5, <1>6, <1>7, <1>9, <2>3, <2>4, <2>5, <2>6 DEF p, g
<1>10. CASE drv.op = "sr"
  <2>1. nor.cmd = 5
    BY <1>4, <1>10, CommandFacts
  <2>2. p = nor
    BY <2>1 DEF pflash_cmd_parse, NOR_SPI_READ, NOR_SPI_RDSR, NOR_SPI_JEDECID
  <2> HIDE DEF p
  <2>3. ParsedByte(nor) = <<"status", 0>>
    BY <2>1 DEF ParsedByte, NOR_SPI_READ, NOR_SPI_RDSR, NOR_SPI_JEDECID
  <2>4. Len(drv.want) = 1 /\ drv.want[1] = <<"status", 0>>
    BY <1>2, <1>10
  <2>5. g + 1 = 1
    BY <1>1, <1>6, <2>4
  <2>. QED  BY <1>4, <1>5, <1>6, <1>7, <1>10, <2>2, <2>3, <2>4, <2>5 DEF p, g
<1>. QED  BY <1>7, <1>8, <1>9, <1>10

\* A byte of a burst.
LEMMA TakeByteKeeps ==
    ASSUME SpiInv, TakeByte
    PROVE  SpiInv'
<1> DEFINE p == pflash_cmd_parse(nor)
           x == ParsedByte(nor)
           g == Len(drv.got)
           k == drv.burst
           e == [drv EXCEPT !.burst = k - 1, !.got = Append(drv.got, x)]
<1>1. /\ spi \in Spis /\ nor \in Nors /\ drv \in Drivers /\ drv.pc = "burst"
      /\ drv.want \in Seq(Bytes) /\ drv.got \in Seq(Bytes) /\ Len(drv.want) \in Nat
      /\ g \in Nat /\ k \in Int /\ k > 0 /\ Rest(drv) \in Nat
      /\ spi.rxFifoCnt \in 0 .. Fifo - 1 /\ spi.left \in Fields /\ Fifo \in Nat
  BY TypeFacts DEF TakeByte, At
<1>2. drv' = e /\ ReadRxdata
  BY DEF TakeByte
<1>3. /\ drv.op \in {"read", "id", "sr"} /\ Rest(drv) >= 1
      /\ g + 1 \in 1 .. Len(drv.want) /\ x = drv.want[g + 1]
      /\ p.cmd = Command[drv.op]
      /\ drv.op = "read" => p.rxLen = Rest(drv) - 1 /\ p.wordRx = From(drv) + g + 1
      /\ drv.op = "id" => p.wordRx = g + 1 /\ Len(drv.want) = 3
      /\ drv.op = "sr" => p.wordRx = nor.wordRx /\ Len(drv.want) = 1
  BY <1>1, ParseFacts
<1>4. /\ p \in Nors /\ nor' = AfterLen(p) /\ spi' \in Spis
      /\ spi'.left = spi.left \cup Bits(pflash_cmd_len(p))
      /\ SameTx(spi, spi') /\ spi'.rx = spi.rx
      /\ IF spi.rxFifoCnt = Fifo - 1
         THEN spi'.timer /\ spi'.rxFifoCnt = spi.rxFifoCnt
         ELSE /\ spi'.timer = spi.timer /\ spi'.irq = spi.irq
              /\ spi'.rxFifoCnt = spi.rxFifoCnt + 1
  BY <1>1, <1>2, RxFacts DEF SameTx
<1> HIDE DEF p
<1>5. /\ nor' \in Nors /\ nor'.cmd = p.cmd /\ nor'.wordRx = p.wordRx
      /\ p.cmd # 159 => nor' = p
  BY <1>1, <1>4, LenFacts
<1>6. x \in Bytes
  BY <1>1, <1>3
<1> HIDE DEF x
<1>7. /\ Append(drv.got, x) \in Seq(Bytes) /\ Len(Append(drv.got, x)) = g + 1
      /\ \A i \in 1 .. g + 1 : Append(drv.got, x)[i] = IF i = g + 1 THEN x ELSE drv.got[i]
  BY <1>1, <1>6
<1>8. /\ e \in Drivers /\ e.pc = "burst" /\ e.op = drv.op /\ e.want = drv.want
      /\ e.got = Append(drv.got, x) /\ e.fresh = drv.fresh /\ e.burst = k - 1
  <2>1. PICK n \in Int : n = k - 1
    BY <1>1
  <2>2. PICK y \in Seq(Bytes) : y = Append(drv.got, x)
    BY <1>7
  <2>3. e = [drv EXCEPT !.burst = n, !.got = y]
    BY <2>1, <2>2
  <2> HIDE DEF e
  <2>4. /\ e \in Drivers /\ e.pc = drv.pc /\ e.op = drv.op /\ e.want = drv.want
        /\ e.got = y /\ e.fresh = drv.fresh /\ e.burst = n
    BY <1>1, <2>3 DEF Drivers
  <2>. QED  BY <1>1, <2>1, <2>2, <2>4
<1> HIDE DEF e
<1>9. Len(e.got) = g + 1
  BY <1>7, <1>8
<1>10. From(e) = From(drv) /\ Sending(e) = Sending(drv) /\ Rest(e) = Rest(drv) - 1
  <2>1. From(e) = From(drv) /\ Sending(e) = Sending(drv)
    BY <1>8 DEF From, Sending
  <2>2. Rest(e) = Rest(drv) - 1
    BY <1>1, <1>8, <1>9 DEF Rest
  <2>. QED  BY <2>1, <2>2
<1>11. JobOk(e)
  <2>1. Len(e.got) <= Len(e.want)
    BY <1>1, <1>3, <1>8, <1>9
  <2>2. \A i \in 1 .. g : drv.got[i] = drv.want[i]
    BY DEF SpiInv, JobOk
  <2>3. ASSUME NEW i \in 1 .. Len(e.got) PROVE e.got[i] = e.want[i]
    <3>1. i \in 1 .. g + 1
      BY <1>9
    <3>2. e.got[i] = IF i = g + 1 THEN x ELSE drv.got[i]
      BY <3>1, <1>7, <1>8
    <3>3. CASE i = g + 1
      BY <3>2, <3>3, <1>3, <1>8
    <3>4. CASE i # g + 1
      <4>1. i \in 1 .. g
        BY <3>1, <3>4, <1>1
      <4>. QED  BY <4>1, <3>2, <3>4, <2>2, <1>8
    <3>. QED  BY <3>3, <3>4
  <2>4. e.burst \in 0 .. Rest(e)
    <3>1. k \in 0 .. Rest(drv)
      BY <1>1 DEF SpiInv, JobOk
    <3>. QED  BY <3>1, <1>1, <1>8, <1>10
  <2>. QED  BY <2>1, <2>3, <2>4, <1>1, <1>8, <1>10 DEF SpiInv, JobOk, Taking, Receiving
<1>12. CommandOk(spi', e)
  BY <1>4, <1>8 DEF SpiInv, CommandOk, SameTx
<1>13. FlashOk(nor', e)
  <2>1. e.fresh => nor'.wordRx = 0
    BY <1>1, <1>3, <1>5, <1>8 DEF SpiInv, FlashOk, JobOk
  <2>2. e.op = "id" => nor'.wordRx = Len(e.got)
    BY <1>3, <1>5, <1>8, <1>9
  <2>3. nor'.cmd = Command[e.op]
    BY <1>3, <1>5, <1>8
  <2>4. CASE e.op = "read"
    <3>1. nor' = p
      BY <2>4, <1>3, <1>5, <1>8, CommandFacts
    <3>2. From(drv) \in Nat
      BY <1>1, WantFacts
    <3>3. From(e) + Len(e.got) = From(drv) + g + 1
      BY <3>2, <1>1, <1>9, <1>10
    <3>. QED  BY <3>1, <3>3, <2>1, <2>2, <2>3, <2>4, <1>3, <1>8, <1>10 DEF FlashOk
  <2>5. CASE e.op # "read"
    BY <2>1, <2>2, <2>3, <2>5 DEF FlashOk
  <2>. QED  BY <2>4, <2>5
<1>14. BurstOk(spi', e)
  <2>1. PICK r \in Nat : r = Rest(e)
    BY <1>1, <1>3, <1>10
  <2>2. /\ drv.op = "read" => p.rxLen = r
        /\ drv.op = "id" => r = 3 - p.wordRx /\ r <= 3
        /\ drv.op = "sr" => r <= 1
    <3>1. r = Len(drv.want) - (g + 1)
      BY <2>1, <1>8, <1>9 DEF Rest
    <3>2. drv.op = "read" => p.rxLen = r
      BY <2>1, <1>3, <1>10
    <3>3. drv.op = "id" => r = 3 - p.wordRx
      BY <3>1, <1>3
    <3>4. Len(drv.want) - (g + 1) <= Len(drv.want)
      <4>1. \A m, n \in Nat : m - (n + 1) <= m
        OBVIOUS
      <4> HIDE DEF g
      <4>. QED  BY <4>1, <1>1
    <3>. QED  BY <3>1, <3>2, <3>3, <3>4, <1>1, <1>3
  <2>3. Bits(Lesser(r, Fifo)) \subseteq Bits(pflash_cmd_len(p))
    BY <1>3, <1>4, <2>2, LenCovers
  <2>4. Bits(Lesser(Rest(e), Fifo)) \subseteq spi'.left
    BY <1>4, <2>1, <2>3
  <2>5. ASSUME e.burst < Rest(e) PROVE Coming(spi') \/ spi'.rxFifoCnt + e.burst >= Fifo
    <3>1. k < Rest(drv)
      BY <2>5, <1>1, <1>8, <1>10
    <3>2. Coming(spi) \/ spi.rxFifoCnt + k >= Fifo
      BY <3>1, <1>1 DEF SpiInv, BurstOk
    <3>3. CASE spi.rxFifoCnt = Fifo - 1
      BY <3>3, <1>4 DEF Coming
    <3>4. CASE spi.rxFifoCnt # Fifo - 1
      <4>1. CASE Coming(spi)
        BY <3>4, <4>1, <1>4 DEF Coming
      <4>2. CASE spi.rxFifoCnt + k >= Fifo
        <5>1. spi'.rxFifoCnt = spi.rxFifoCnt + 1
          BY <3>4, <1>4
        <5>. QED  BY <4>2, <5>1, <1>1, <1>8
      <4>. QED  BY <3>2, <4>1, <4>2
    <3>. QED  BY <3>3, <3>4
  <2>. QED  BY <2>4, <2>5, <1>8 DEF BurstOk
<1>. QED  BY <1>2, <1>4, <1>5, <1>8, <1>11, <1>12, <1>13, <1>14, NextState

\* The end of a burst.  If there is more to come, the last byte was the FIFO's
\* last and armed the timer.
LEMMA EndBurstKeeps ==
    ASSUME SpiInv, EndBurst
    PROVE  SpiInv'
<1>1. /\ spi \in Spis /\ nor \in Nors /\ drv \in Drivers /\ drv.pc = "burst"
      /\ drv.burst = 0 /\ Len(drv.want) \in Nat /\ Len(drv.got) \in Nat
      /\ Rest(drv) \in Nat /\ spi.rxFifoCnt \in 0 .. Fifo - 1 /\ Fifo \in Nat
  BY TypeFacts DEF EndBurst, At
<1>2. PICK pc \in {"idle", "waiting"} :
        /\ drv' = [drv EXCEPT !.pc = pc]
        /\ pc = "waiting" => Len(drv.got) # Len(drv.want)
  BY DEF EndBurst, Goto
<1>3. spi' = spi /\ nor' = nor
  BY DEF EndBurst
<1> DEFINE e == [drv EXCEPT !.pc = pc]
<1>4. /\ e \in Drivers /\ e.pc = pc /\ e.op = drv.op /\ e.want = drv.want
      /\ e.got = drv.got /\ e.fresh = drv.fresh
      /\ From(e) = From(drv) /\ Sending(e) = Sending(drv) /\ Rest(e) = Rest(drv)
  <2>1. pc \in Steps
    BY DEF Steps
  <2>. QED  BY <1>1, <2>1, Moved
<1> HIDE DEF e
<1>5. JobOk(e)
  BY <1>1, <1>4 DEF SpiInv, JobOk, Taking, Receiving
<1>6. CommandOk(spi, e)
  BY <1>4 DEF SpiInv, CommandOk
<1>7. FlashOk(nor, e)
  BY <1>1, <1>4 DEF SpiInv, FlashOk, Sent, Steps, Taking
<1>8. BurstOk(spi, e)
  <2>1. Bits(Lesser(Rest(drv), Fifo)) \subseteq spi.left
    BY <1>1 DEF SpiInv, BurstOk, Taking
  <2>2. pc = "waiting" => Coming(spi)
    <3>1. pc = "waiting" => drv.burst < Rest(drv)
      <4>1. \A m, n \in Nat : m - n \in Nat /\ n # m => 0 < m - n
        OBVIOUS
      <4>. QED  BY <4>1, <1>1, <1>2 DEF Rest
    <3>2. ~(spi.rxFifoCnt + drv.burst >= Fifo)
      BY <1>1
    <3>. QED  BY <3>1, <3>2, <1>1 DEF SpiInv, BurstOk
  <2>. QED  BY <2>1, <2>2, <1>4 DEF BurstOk
<1>. QED  BY <1>1, <1>2, <1>3, <1>4, <1>5, <1>6, <1>7, <1>8, NextState DEF e

\* The read after a command without data resets the flash.
LEMMA DummyReadKeeps ==
    ASSUME SpiInv, DummyRead
    PROVE  SpiInv'
<1> DEFINE p == pflash_cmd_parse(nor)
           x == ParsedByte(nor)
           e == [drv EXCEPT !.pc = "idle", !.fresh = TRUE, !.got = <<x>>]
<1>1. spi \in Spis /\ nor \in Nors /\ drv \in Drivers /\ drv.pc = "dummy"
      /\ drv.op \in Operations
  BY TypeFacts DEF DummyRead, At
<1>2. drv' = e /\ ReadRxdata
  BY DEF DummyRead
<1>3. drv.op \in {"reset", "wren"} /\ nor.cmd = Command[drv.op]
  BY <1>1 DEF SpiInv, JobOk, FlashOk, Sent, Steps
<1>4. nor.cmd \in {0, 6}
  BY <1>3, CommandFacts
<1>5. x = <<"zero", 0>> /\ p = [nor EXCEPT !.cmd = 0, !.wordRx = 0]
  BY <1>4 DEF ParsedByte, pflash_cmd_parse, NOR_SPI_READ, NOR_SPI_RDSR, NOR_SPI_JEDECID,
              NOR_SPI_RSRT
<1>6. drv.want = <<<<"zero", 0>>>>
  BY <1>1, <1>3, WantFacts
<1>7. /\ p \in Nors /\ nor' = AfterLen(p) /\ spi' \in Spis /\ SameTx(spi, spi')
  BY <1>1, <1>2, RxFacts DEF SameTx
<1> HIDE DEF p, x
<1>8. p.cmd = 0 /\ p.wordRx = 0
  BY <1>1, <1>5 DEF Nors
<1>9. nor' \in Nors /\ nor'.wordRx = 0
  <2>1. spi.left \in Fields
    BY <1>1 DEF Spis
  <2>. QED  BY <1>7, <1>8, <2>1, LenFacts
<1>10. x \in Bytes
  BY <1>5 DEF Bytes
<1>11. <<x>> \in Seq(Bytes) /\ Len(<<x>>) = 1 /\ <<x>>[1] = x
  BY <1>10
<1>12. /\ e \in Drivers /\ e.pc = "idle" /\ e.op = drv.op /\ e.want = drv.want
       /\ e.got = <<x>>
  BY <1>1, <1>11 DEF Drivers, Steps
<1> HIDE DEF e
<1>13. JobOk(e)
  <2>1. e.got = e.want
    BY <1>5, <1>6, <1>12
  <2>2. Len(e.got) = 1
    BY <1>11, <1>12
  <2>. QED  BY <2>1, <2>2, <1>12 DEF JobOk, Taking, Receiving
<1>14. CommandOk(spi', e)
  BY <1>7, <1>12 DEF SpiInv, CommandOk, SameTx
<1>15. FlashOk(nor', e) /\ BurstOk(spi', e)
  BY <1>9, <1>12 DEF FlashOk, BurstOk, Sent, Taking
<1>. QED  BY <1>2, <1>7, <1>9, <1>12, <1>13, <1>14, <1>15, NextState

\* A transfer that is given up leaves the controller and the flash as they are.
LEMMA GiveUpKeeps ==
    ASSUME SpiInv, GiveUp
    PROVE  SpiInv'
<1> DEFINE e == [drv EXCEPT !.pc = "idle", !.burst = 0]
<1>1. spi \in Spis /\ nor \in Nors /\ drv \in Drivers
  BY TypeFacts
<1>2. drv' = e /\ spi' = spi /\ nor' = nor
  BY DEF GiveUp
<1>3. /\ e \in Drivers /\ e.pc = "idle" /\ e.op = drv.op /\ e.want = drv.want
      /\ e.got = drv.got /\ e.fresh = drv.fresh
  <2>1. PICK n \in Int : n = 0
    OBVIOUS
  <2>2. e = [drv EXCEPT !.pc = "idle", !.burst = n]
    BY <2>1
  <2> HIDE DEF e
  <2>. QED  BY <1>1, <2>2 DEF Drivers, Steps
<1> HIDE DEF e
<1>4. JobOk(e)
  BY <1>3 DEF SpiInv, JobOk, Taking, Receiving
<1>5. CommandOk(spi, e)
  BY <1>3 DEF SpiInv, CommandOk
<1>6. FlashOk(nor, e) /\ BurstOk(spi, e)
  BY <1>3 DEF SpiInv, FlashOk, BurstOk, Sent, Taking
<1>. QED  BY <1>1, <1>2, <1>3, <1>4, <1>5, <1>6, NextState

\* The timer, whoever armed it.
LEMMA TimerKeeps ==
    ASSUME SpiInv, spi_timer
    PROVE  SpiInv'
<1>1. spi \in Spis /\ nor \in Nors /\ drv \in Drivers /\ Fifo \in Nat /\ Fifo >= 3
      /\ spi.rxFifoCnt \in 0 .. Fifo - 1 /\ drv' = drv /\ nor' = nor
  BY TypeFacts DEF spi_timer
<1>2. CASE spi.rxFifoCnt = Fifo - 1
  <2>1. spi' = [spi EXCEPT !.timer = FALSE, !.rx = TRUE, !.irq = TRUE, !.rxFifoCnt = 0]
    BY <1>2 DEF spi_timer
  <2>2. 0 \in 0 .. Fifo - 1
    BY <1>1
  <2>3. \A k \in 0 .. Fifo - 1 :
           LET u == [spi EXCEPT !.timer = FALSE, !.rx = TRUE, !.irq = TRUE, !.rxFifoCnt = k]
           IN  u \in Spis /\ SameTx(spi, u) /\ u.left = spi.left /\ u.irq /\ u.rx
    BY <1>1 DEF Spis, SameTx
  <2>4. spi' \in Spis /\ SameTx(spi, spi') /\ spi'.left = spi.left /\ spi'.irq /\ spi'.rx
    BY <2>1, <2>2, <2>3
  <2>5. CommandOk(spi', drv)
    BY <2>4 DEF SpiInv, CommandOk, SameTx
  <2>6. BurstOk(spi', drv)
    BY <2>4 DEF SpiInv, BurstOk, Coming
  <2>. QED  BY <1>1, <2>4, <2>5, <2>6, NextState DEF SpiInv
<1>3. CASE spi.rxFifoCnt # Fifo - 1
  <2>1. spi' = [spi EXCEPT !.timer = FALSE]
    BY <1>3 DEF spi_timer
  <2>2. /\ spi' \in Spis /\ SameTx(spi, spi') /\ spi'.left = spi.left
        /\ spi'.irq = spi.irq /\ spi'.rx = spi.rx /\ spi'.rxFifoCnt = spi.rxFifoCnt
    BY <1>1, <2>1 DEF Spis, SameTx
  <2>3. CommandOk(spi', drv)
    BY <2>2 DEF SpiInv, CommandOk, SameTx
  <2>4. BurstOk(spi', drv)
    BY <1>3, <2>2 DEF SpiInv, BurstOk, Coming
  <2>. QED  BY <1>1, <2>2, <2>3, <2>4, NextState DEF SpiInv
<1>. QED  BY <1>2, <1>3

\* The start.
LEMMA SpiStart == SpiInit => SpiInv
<1> SUFFICES ASSUME SpiInit PROVE SpiInv
  OBVIOUS
<1>1. Fifo \in Nat /\ Fifo >= 3 /\ TxWords \in Nat
  BY SpiAssumption
<1>2. spi \in Spis /\ spi.txBuffer = 0
  <2>1. PICK f \in [0 .. TxWords - 1 -> Int] : f = [i \in 0 .. TxWords - 1 |-> 0]
    <3>1. [i \in 0 .. TxWords - 1 |-> 0] \in [0 .. TxWords - 1 -> Int]
      OBVIOUS
    <3>. QED  BY <3>1, Zenon
  <2>2. PICK k \in 0 .. Fifo - 1 : k = 0
    BY <1>1
  <2>3. PICK n \in Nat : n = 0
    OBVIOUS
  <2>4. spi = [setup |-> "rx", tx |-> FALSE, rx |-> FALSE, left |-> {}, tx_data |-> f,
               txBuffer |-> n, rxFifoCnt |-> k, irq |-> FALSE, timer |-> FALSE]
    BY <2>1, <2>2, <2>3 DEF SpiInit
  <2>. QED  BY <2>3, <2>4, FieldFacts DEF Spis
<1>3. nor \in Nors /\ nor.wordRx = 0
  BY DEF SpiInit, Nors, NOR_SPI_RSRT
<1>4. /\ drv \in Drivers /\ drv.pc = "idle" /\ drv.got = <<>> /\ drv.want = <<>>
      /\ drv.op = "reset"
  <2>1. "reset" \in Operations
    BY CommandFacts
  <2>2. PICK x \in Seq(Bytes) : x = <<>>
    <3>1. <<>> \in Seq(Bytes)
      OBVIOUS
    <3>. QED  BY <3>1, Zenon
  <2>3. PICK y \in Seq(Int) : y = <<>>
    <3>1. <<>> \in Seq(Int)
      OBVIOUS
    <3>. QED  BY <3>1, Zenon
  <2>4. PICK n \in Int : n = 0
    OBVIOUS
  <2>5. drv = [pc |-> "idle", op |-> "reset", words |-> y, want |-> x, got |-> x,
               burst |-> n, fresh |-> TRUE]
    BY <2>2, <2>3, <2>4 DEF SpiInit
  <2>. QED  BY <2>1, <2>2, <2>5 DEF Drivers, Steps
<1>5. JobOk(drv)
  <2>1. Len(drv.got) = 0 /\ Len(drv.want) = 0
    BY <1>4
  <2>. QED  BY <1>4, <2>1 DEF JobOk, Taking, Receiving
<1>6. CommandOk(spi, drv)
  BY <1>2, <1>4 DEF CommandOk
<1>7. FlashOk(nor, drv) /\ BurstOk(spi, drv)
  BY <1>3, <1>4 DEF FlashOk, BurstOk, Sent, Taking
<1>. QED  BY <1>2, <1>3, <1>4, <1>5, <1>6, <1>7 DEF SpiInv, Types

\* One step of the system.
LEMMA SpiStep == SpiInv /\ [SpiNext]_spiVars => SpiInv'
<1> SUFFICES ASSUME SpiInv, [SpiNext]_spiVars PROVE SpiInv'
  OBVIOUS
<1>1. CASE UNCHANGED spiVars
  <2>1. spi' = spi /\ nor' = nor /\ drv' = drv
    BY <1>1 DEF spiVars
  <2>. QED  BY <2>1, TypeFacts, NextState DEF SpiInv
<1>2. ASSUME NEW a \in Addrs, NEW len \in Lens, Begin("read", a, len) PROVE SpiInv'
  <2>1. a \in 0 .. Base * Base * Base - 1 /\ len \in Nat /\ len > 0
    BY SpiAssumption
  <2>2. Base * Base * Base - 1 \in Int
    BY SpiAssumption
  <2>3. a \in Nat /\ "read" \in Operations
    BY <2>1, <2>2, CommandFacts
  <2>. QED  BY <1>2, <2>1, <2>3, BeginKeeps
<1>3. ASSUME NEW op \in DOMAIN Command \ {"read"}, Begin(op, 0, 0) PROVE SpiInv'
  <2>1. op \in Operations /\ op # "read"
    BY DEF Operations
  <2>. QED  BY <1>3, <2>1, BeginKeeps
<1>4. CASE DriverStep
  BY <1>4, SendWordKeeps, DirectionKeeps, SendKeeps, OnSentKeeps, ClearSentKeeps,
     CountKeeps, ReceiveKeeps, OnReceiveKeeps, TakeByteKeeps, EndBurstKeeps,
     DummyReadKeeps DEF DriverStep
<1>. QED  BY <1>1, <1>2, <1>3, <1>4, OnSpuriousKeeps, GiveUpKeeps, TimerKeeps DEF SpiNext

\* A sequence is the start of another one that agrees with it.
LEMMA StartOf ==
    ASSUME NEW S, NEW s \in Seq(S), NEW t \in Seq(S), Len(s) <= Len(t),
           \A i \in 1 .. Len(s) : s[i] = t[i]
    PROVE  s = SubSeq(t, 1, Len(s))
<1>1. Len(s) \in Nat /\ Len(t) \in Nat
  OBVIOUS
<1>2. /\ SubSeq(t, 1, Len(s)) \in Seq(S) /\ Len(SubSeq(t, 1, Len(s))) = Len(s)
      /\ \A i \in 1 .. Len(s) : SubSeq(t, 1, Len(s))[i] = t[i]
  BY <1>1
<1>. QED  BY <1>2, SeqEqual

-----------------------------------------------------------------------------
(* Theorems. *)

\* The controller, the flash and the driver agree at every step about the
\* command, the position in the flash and the bytes still to come.
THEOREM SpiInvariant == SpiSpec => []SpiInv
<1>. QED  BY SpiStart, SpiStep, PTL DEF SpiSpec

\* No word of a command is stored past tx_data, over any sequence of commands:
\* the status write before each one rewinds the buffer.
THEOREM CommandFits == SpiSpec => []TxInBounds
<1>1. SpiInv => TxInBounds
  <2> SUFFICES ASSUME SpiInv PROVE TxInBounds
    OBVIOUS
  <2>1. spi.txBuffer <= 4
    BY DEF SpiInv, CommandOk
  <2>. QED  BY <2>1, TypeFacts DEF TxInBounds
<1>. QED  BY <1>1, SpiInvariant, PTL

\* The bytes the driver gets are the ones it asked for, in order, whatever the
\* length of the read, the FIFO and the timers left over by earlier reads.
THEOREM BytesRight == SpiSpec => []BytesInOrder
<1>1. SpiInv => BytesInOrder
  <2> SUFFICES ASSUME SpiInv PROVE BytesInOrder
    OBVIOUS
  <2>1. Len(drv.got) <= Len(drv.want) /\ \A i \in 1 .. Len(drv.got) : drv.got[i] = drv.want[i]
    BY DEF SpiInv, JobOk
  <2>. QED  BY <2>1, TypeFacts, StartOf DEF BytesInOrder
<1>. QED  BY <1>1, SpiInvariant, PTL

\* A driver that waits for bytes has an interrupt to come: it is up, or the
\* timer that raises it is armed and finds the FIFO at its end.
THEOREM WakeupSure == SpiSpec => []WakeupComing
<1>1. SpiInv => WakeupComing
  BY DEF SpiInv, BurstOk, Coming, WakeupComing, At
<1>. QED  BY <1>1, SpiInvariant, PTL

\* The length field covers what the FIFO holds, whatever was or-ed into it.
THEOREM LeftEnough == SpiSpec => []LeftCovers
<1>1. SpiInv => LeftCovers
  <2> SUFFICES ASSUME SpiInv, drv.pc = "waiting"
               PROVE  RX_BUFFER_LEFT(spi.left) >= Lesser(Rest(drv), Fifo)
    BY DEF LeftCovers, At, Rest
  <2>1. /\ spi.left \in Fields /\ Rest(drv) \in Nat /\ Fifo \in Nat
        /\ Bits(Lesser(Rest(drv), Fifo)) \subseteq spi.left
    BY TypeFacts DEF SpiInv, BurstOk, Taking
  <2>2. PICK m \in 0 .. Fifo : m = Lesser(Rest(drv), Fifo)
    BY <2>1 DEF Lesser
  <2>3. RX_BUFFER_LEFT(spi.left) \in 0 .. Fifo /\ m <= RX_BUFFER_LEFT(spi.left)
    BY <2>1, <2>2, LeftFacts
  <2>. QED  BY <2>1, <2>2, <2>3
<1>. QED  BY <1>1, SpiInvariant, PTL

=============================================================================
