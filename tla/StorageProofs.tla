--------------------------- MODULE StorageProofs ---------------------------
(***************************************************************************)
(* The properties of the path from NAND to memory, for any page and        *)
(* metadata size, number of error words, chips, page addresses and splits  *)
(* of a page into segments.                                                *)
(***************************************************************************)
EXTENDS Storage, TLAPS, SequenceTheorems

-----------------------------------------------------------------------------
(* Types. *)

Origins == {<<"zero", 0>>, <<"junk", 0>>} \cup Pages \cup (Chips \X {-1})
Memories == [of : Origins, off : Int, dec : Schedules \cup {Raw}]
Buffers  == [data : Seq(Memories), read : Nat]
Nands    == [chip : Chips \cup {NoChip}, addr : Nat, buf0 : Buffers,
             buf1 : Buffers, eccbuf : [data : Seq(Nat), read : Nat]]
Segments == [flags : Flags, size : Nat, buffer : Nat]
Ports    == FMIS \X {"buf0", "buf1"}
Cdmas    == [done : BOOLEAN, mstatus : BOOLEAN, size : Nat, creg : Ports,
             dmaSegment : Segments]
Engines  == [keyType : KeyTypes, keyLen : {0, 1},
             custkey : Keys \cup {NoKey}, decryptKey : Schedules]

\* The steps of a driver, by what they have done.
Clearing == {"ecc", "chip", "addr0", "addr1", "cmd"}
Loading  == {"port", "size", "list", "lock", "setup", "key", "start"}
Steps    == {"rest", "clear", "check", "failed", "id", "done_id", "wait", "done"}
            \cup Clearing \cup Loading

Drivers == [pc : Steps, job : Jobs \cup {NoJob}, ch : 5 .. 8, left : Int]

Types ==
    /\ nand \in [FMIS -> Nands]
    /\ cdma \in [Channels -> Cdmas]
    /\ aes \in Engines
    /\ irqs \in Cpus
    /\ line \in [Cpus -> [Channels -> BOOLEAN]]
    /\ segs \in [Channels -> Seq(Segments)]
    /\ mem \in [Channels -> [Memory -> Memories]]
    /\ drv \in [FMIS -> Drivers]
    /\ lock \in FMIS \cup {NoOne, TheTask}
    /\ task \in [pc : {"rest", "UID", "Custom", "start"}, right : BOOLEAN]

-----------------------------------------------------------------------------
(* What a driver has achieved when it is at a step.  Each part speaks of   *)
(* the driver d of controller f and of the part of the state it uses.      *)

Loaded(data) == [data |-> data, read |-> 0]

\* The controller n.
NandOk(d, n) ==
    LET page == d.job.page
    IN  /\ d.pc \in Clearing => n.buf0 = EmptyBuf /\ n.buf1 = EmptyBuf
        /\ d.pc \in Clearing \ {"ecc"} => n.eccbuf = EmptyBuf
        /\ d.pc \in {"addr0", "addr1", "cmd"} => n.chip = page[1]
        /\ d.pc \in {"ecc", "chip", "addr0"} => n.addr = 0
        /\ d.pc = "addr1" => n.addr = page[2] % Half
        /\ d.pc = "cmd" => n.addr = page[2]
        /\ d.pc \in Clearing \cup {"clear"} => d.left = EccStages
        /\ d.pc = "check" =>
               /\ d.left \in 1 .. EccStages
               /\ \E out \in Outcomes :
                     /\ n.eccbuf = [data |-> [i \in 1 .. EccStages |-> ErrorOf(out)],
                                    read |-> EccStages - d.left]
                     /\ out = "ok" => /\ n.buf0 = Loaded(DataOf(page, out))
                                      /\ n.buf1 = Loaded(MetaOf(page, out))

\* The buffers, once the error words are read and until they are emptied.
BufsOk(f, d, n) ==
    /\ d.pc \in Loading /\ d.ch = DataCh(f) =>
           n.buf0 = Loaded(DataOf(d.job.page, "ok"))
    /\ d.pc \in Loading \cup {"wait"} /\ (d.pc = "wait" => d.ch = DataCh(f)) =>
           n.buf1 = Loaded(MetaOf(d.job.page, "ok"))

\* The lists s of the data channel and t of the metadata channel.
ListsOk(f, d, s, t) ==
    /\ d.ch \in {DataCh(f), MetaCh(f)}
    /\ d.pc \notin Loading \cup {"wait", "done"} => d.ch = DataCh(f)
    /\ d.pc = "done" => d.ch = MetaCh(f)
    /\ d.pc # "rest" =>
           /\ d.job \in Jobs
           /\ s = SegList(d.job, Sizes(d.job))
           /\ t = SegList([d.job EXCEPT !.crypt = FALSE], <<MetaUnits>>)

\* The registers c of the channel in use and its list s.
ChannelOk(f, d, c, s) ==
    /\ d.pc \in Loading \ {"port"} =>
           c.creg = <<f, IF d.ch = DataCh(f) THEN "buf0" ELSE "buf1">>
    /\ d.pc \in Loading \ {"port", "size"} =>
           c.size = IF d.ch = DataCh(f) THEN PageUnits ELSE MetaUnits
    /\ d.pc \in Loading \ {"port", "size", "list"} => c.dmaSegment = s[1]
    /\ d.pc = "wait" => c.done

\* The memory m of the data channel and n of the metadata channel.
DataThere(d, m) ==
    \A i \in 1 .. PageUnits : m[i] = Expected(d.job, NandKey)[i]
MetaThere(d, m) ==
    \A i \in 1 .. MetaUnits : m[i] = Unit(d.job.page, PageUnits + i)
MemOk(f, d, m, n) ==
    /\ d.pc \in Loading \cup {"wait", "done"} /\ (d.ch = MetaCh(f) \/ d.pc = "wait") =>
           DataThere(d, m)
    /\ d.ch = MetaCh(f) /\ d.pc \in {"wait", "done"} => MetaThere(d, n)

\* The lock l and the engine a.
KeyOk(f, d, l, a) ==
    /\ d.pc \in {"lock", "setup", "key"} => d.job.crypt /\ d.ch = DataCh(f)
    /\ d.pc \in {"setup", "key"} => l = f
    /\ d.pc = "key" => a.keyLen = 1
    /\ d.pc = "start" /\ d.job.crypt /\ d.ch = DataCh(f) =>
           l = f /\ a.keyLen = 1 /\ a.custkey = NandKey

DriverOk(f) ==
    /\ NandOk(drv[f], nand[f])
    /\ BufsOk(f, drv[f], nand[f])
    /\ ListsOk(f, drv[f], segs[DataCh(f)], segs[MetaCh(f)])
    /\ ChannelOk(f, drv[f], cdma[drv[f].ch], segs[drv[f].ch])
    /\ MemOk(f, drv[f], mem[DataCh(f)], mem[MetaCh(f)])
    /\ KeyOk(f, drv[f], lock, aes)

\* The AES task holds the lock from its setup to its end.
TaskOk ==
    /\ task.pc # "rest" => lock = TheTask
    /\ task.pc = "UID" => aes.keyType = "UID"
    /\ task.pc \in {"Custom", "start"} => aes.keyType = "Custom" /\ aes.keyLen = 1
    /\ task.pc = "start" => aes.custkey = AppKey

StorageInv ==
    /\ Types
    /\ \A f \in FMIS : DriverOk(f)
    /\ DmaLineExact
    /\ TaskOk
    /\ EngineKeyRight

-----------------------------------------------------------------------------
(* Frame. *)

\* Each controller has two channels of its own.
LEMMA ChannelFacts ==
    ASSUME NEW f \in FMIS
    PROVE  /\ DataCh(f) \in Channels /\ MetaCh(f) \in Channels
           /\ DataCh(f) \in 5 .. 8 /\ MetaCh(f) \in 5 .. 8
           /\ DataCh(f) # MetaCh(f)
           /\ \A g \in FMIS \ {f} :
                 {DataCh(f), MetaCh(f)} \cap {DataCh(g), MetaCh(g)} = {}
           /\ f # NoOne /\ f # TheTask
<1>1. FMIS \subseteq {0, 1}
  BY StorageAssumption
<1>2. DataCh(f) \in Channels /\ MetaCh(f) \in Channels
  BY StorageAssumption
<1>. QED  BY <1>1, <1>2 DEF DataCh, MetaCh, NoOne, TheTask

\* What no step of another driver g changes for driver g's rivals.
SameFor(g) ==
    /\ drv'[g] = drv[g] /\ nand'[g] = nand[g]
    /\ \A ch \in {DataCh(g), MetaCh(g)} :
          cdma'[ch] = cdma[ch] /\ segs'[ch] = segs[ch] /\ mem'[ch] = mem[ch]
    /\ lock = g => /\ lock' = g
                   /\ aes'.keyLen = aes.keyLen /\ aes'.custkey = aes.custkey

\* A driver is left where it is by steps that leave its part of the state.
LEMMA OtherDriver ==
    ASSUME NEW g \in FMIS, DriverOk(g), SameFor(g)
    PROVE  DriverOk(g)'
<1>1. drv[g].ch \in {DataCh(g), MetaCh(g)}
  BY DEF DriverOk, ListsOk
<1>2. KeyOk(g, drv[g], lock', aes')
  BY DEF DriverOk, KeyOk, SameFor
<1>. QED  BY <1>1, <1>2 DEF DriverOk, SameFor

\* A step of driver f.
LEMMA StepOfDriver ==
    ASSUME StorageInv, NEW f \in FMIS, Types', DriverOk(f)',
           \A g \in FMIS \ {f} : SameFor(g),
           DmaLineExact', TaskOk', EngineKeyRight'
    PROVE  StorageInv'
<1>1. \A g \in FMIS : DriverOk(g)'
  BY OtherDriver DEF StorageInv
<1>. QED  BY <1>1 DEF StorageInv

\* A step of driver f that touches its NAND controller only.
LEMMA NandOnly ==
    ASSUME StorageInv, NEW f \in FMIS, NEW STATE n, NEW STATE d,
           n \in Nands, d \in Drivers,
           nand' = [nand EXCEPT ![f] = n], drv' = [drv EXCEPT ![f] = d],
           UNCHANGED <<cdmaVars, lock, task>>,
           d.job = drv[f].job, d.ch = drv[f].ch,
           NandOk(d, n), BufsOk(f, d, n),
           d.pc \notin (Loading \ {"port"}) \cup {"rest", "wait", "done"},
           d.pc = "port" => drv[f].ch = DataCh(f),
           drv[f].pc # "rest", drv[f].ch = DataCh(f)
    PROVE  StorageInv'
<1>1. Types'
  BY DEF StorageInv, Types, cdmaVars
<1>2. drv'[f] = d /\ nand'[f] = n
  BY DEF StorageInv, Types
<1>3. \A g \in FMIS \ {f} : SameFor(g)
  BY DEF StorageInv, Types, cdmaVars, SameFor
<1>4. DriverOk(f)
  BY DEF StorageInv
<1>5. ListsOk(f, d, segs[DataCh(f)], segs[MetaCh(f)])
  BY <1>4 DEF DriverOk, ListsOk
<1>6. ChannelOk(f, d, cdma[d.ch], segs[d.ch])
  BY DEF ChannelOk, Loading
<1>7. MemOk(f, d, mem[DataCh(f)], mem[MetaCh(f)])
  BY ChannelFacts DEF MemOk, Loading
<1>8. KeyOk(f, d, lock, aes)
  BY DEF KeyOk, Loading
<1>9. DriverOk(f)'
  BY <1>2, <1>5, <1>6, <1>7, <1>8 DEF DriverOk, cdmaVars
<1>10. (DmaLineExact /\ TaskOk /\ EngineKeyRight)'
  BY DEF StorageInv, DmaLineExact, TaskOk, EngineKeyRight, cdmaVars
<1>. QED  BY <1>1, <1>3, <1>9, <1>10, StepOfDriver

-----------------------------------------------------------------------------
(* The NAND controller. *)

\* Pages, addresses and what they are made of.
LEMMA JobFacts ==
    ASSUME NEW job \in Jobs
    PROVE  /\ job.page \in Pages /\ job.page[1] \in Chips
           /\ job.page[1] # NoChip
           /\ job.page = <<job.page[1], job.page[2]>>
           /\ job.page[2] \in Nat /\ job.page[2] \in Addrs
           /\ job.crypt \in BOOLEAN /\ job.split \in 1 .. PageUnits
<1>1. JobAddrs \subseteq Addrs /\ Splits \subseteq 1 .. PageUnits
  BY StorageAssumption
<1>2. Half * Half \in Nat
  BY NandAssumption
<1>3. Addrs \subseteq Nat
  BY <1>2 DEF Addrs
<1>4. job.page \in Chips \X JobAddrs /\ job.crypt \in BOOLEAN /\ job.split \in Splits
  BY DEF Jobs
<1>5. PICK c \in Chips, a \in JobAddrs : job.page = <<c, a>>
  BY <1>4
<1>6. job.page[1] = c /\ job.page[2] = a
  BY <1>5
<1>7. a \in Addrs /\ a \in Nat /\ c # NoChip
  BY <1>1, <1>3, <1>5, NandAssumption
<1>8. job.page \in Pages
  BY <1>5, <1>7 DEF Pages
<1>. QED  BY <1>1, <1>4, <1>5, <1>6, <1>7, <1>8

\* The two halves of an address, written one after the other.
LEMMA Halves ==
    ASSUME NEW a \in Nat
    PROVE  /\ a % Half \in Nat /\ a \div Half \in Nat
           /\ Half * (0 \div Half) + (a % Half) = a % Half
           /\ Half * (a \div Half) + ((a % Half) % Half) = a
<1>1. Half \in Nat /\ Half > 0
  BY NandAssumption
<1>2. a % Half \in 0 .. Half - 1 /\ a \div Half \in Nat
      /\ a = Half * (a \div Half) + (a % Half)
  BY <1>1
<1>3. (a % Half) % Half = a % Half
  BY <1>1, <1>2
<1>4. 0 \div Half = 0
  BY <1>1
<1>5. Half * 0 = 0
  BY <1>1
<1>. QED  BY <1>1, <1>2, <1>3, <1>4, <1>5

\* Units of memory.
LEMMA UnitFacts ==
    /\ Zero \in Memories /\ Junk \in Memories
    /\ \A x \in Pages \cup (Chips \X {-1}), i \in Int : Unit(x, i) \in Memories
<1>1. Raw \in Schedules \cup {Raw}
  OBVIOUS
<1>. QED  BY <1>1 DEF Zero, Junk, Unit, Memories, Origins

\* What a command puts into the buffers.
LEMMA PageTypes ==
    ASSUME NEW x \in Pages, NEW out \in Outcomes
    PROVE  /\ DataOf(x, out) \in Seq(Memories) /\ Len(DataOf(x, out)) = PageUnits
           /\ MetaOf(x, out) \in Seq(Memories) /\ Len(MetaOf(x, out)) = MetaUnits
           /\ ErrorOf(out) \in Nat
           /\ [i \in 1 .. EccStages |-> ErrorOf(out)] \in Seq(Nat)
<1>1. PageUnits \in Nat /\ MetaUnits \in Nat /\ EccStages \in Nat
  BY NandAssumption
<1>2. /\ \A i \in 1 .. PageUnits :
            (IF out = "nodata" THEN Junk ELSE Unit(x, i)) \in Memories
      /\ \A i \in 1 .. MetaUnits :
            (IF out = "ok" THEN Unit(x, PageUnits + i) ELSE Junk) \in Memories
  BY <1>1, UnitFacts
<1>3. ErrorOf(out) \in Nat
  BY DEF ErrorOf
<1>4. DataOf(x, out) \in Seq(Memories) /\ Len(DataOf(x, out)) = PageUnits
  BY <1>1, <1>2 DEF DataOf
<1>5. MetaOf(x, out) \in Seq(Memories) /\ Len(MetaOf(x, out)) = MetaUnits
  BY <1>1, <1>2 DEF MetaOf
<1>6. [i \in 1 .. EccStages |-> ErrorOf(out)] \in Seq(Nat)
  BY <1>1, <1>3
<1>. QED  BY <1>3, <1>4, <1>5, <1>6

\* Clearing, selecting the chip and the two halves of the address.
LEMMA ClearKeeps ==
    ASSUME StorageInv, NEW f \in FMIS, Clear(f) \/ Select(f)
    PROVE  StorageInv'
<1> DEFINE n == nand[f]
           d == drv[f]
           to(pc) == [d EXCEPT !.pc = pc]
<1>1. /\ n \in Nands /\ d \in Drivers /\ DriverOk(f)
      /\ NandOk(d, n) /\ ListsOk(f, d, segs[DataCh(f)], segs[MetaCh(f)])
  BY DEF StorageInv, Types, DriverOk
<1>2. EmptyBuf \in Buffers /\ EmptyBuf \in [data : Seq(Nat), read : Nat]
  BY DEF EmptyBuf, Buffers
<1>3. CASE NandStep(f, "clear", WriteCcmd(f), "ecc")
  <2> DEFINE m == [n EXCEPT !.addr = 0, !.buf0 = EmptyBuf, !.buf1 = EmptyBuf]
             e == to("ecc")
  <2>1. /\ d.pc = "clear" /\ nand' = [nand EXCEPT ![f] = m]
        /\ drv' = [drv EXCEPT ![f] = e] /\ UNCHANGED <<cdmaVars, lock, task>>
    BY <1>1, <1>3 DEF NandStep, At, Goto, WriteCcmd, Set, h2fmi_buffer_clear
  <2>2. m \in Nands /\ m.addr = 0 /\ m.buf0 = EmptyBuf /\ m.buf1 = EmptyBuf
    BY <1>1, <1>2 DEF Nands
  <2>3. e \in Drivers /\ e.pc = "ecc" /\ e.job = d.job /\ e.ch = d.ch
        /\ e.left = d.left
    BY <1>1 DEF Drivers, Steps, Clearing
  <2>4. d.ch = DataCh(f) /\ d.left = EccStages
    BY <1>1, <2>1 DEF NandOk, ListsOk, Loading
  <2> HIDE DEF m, e
  <2>5. NandOk(e, m) /\ BufsOk(f, e, m)
    BY <2>2, <2>3, <2>4 DEF NandOk, BufsOk, Loading, Clearing
  <2>. QED  BY <2>1, <2>2, <2>3, <2>4, <2>5, NandOnly DEF Loading
<1>4. CASE NandStep(f, "ecc", WriteEccbuf(f), "chip")
  <2> DEFINE m == [n EXCEPT !.eccbuf = EmptyBuf]
             e == to("chip")
  <2>1. /\ d.pc = "ecc" /\ nand' = [nand EXCEPT ![f] = m]
        /\ drv' = [drv EXCEPT ![f] = e] /\ UNCHANGED <<cdmaVars, lock, task>>
    BY <1>1, <1>4 DEF NandStep, At, Goto, WriteEccbuf, Set, h2fmi_buffer_clear
  <2>2. m \in Nands /\ m.addr = n.addr /\ m.buf0 = n.buf0 /\ m.buf1 = n.buf1
        /\ m.eccbuf = EmptyBuf
    BY <1>1, <1>2 DEF Nands
  <2>3. e \in Drivers /\ e.pc = "chip" /\ e.job = d.job /\ e.ch = d.ch
        /\ e.left = d.left
    BY <1>1 DEF Drivers, Steps, Clearing
  <2>4. d.ch = DataCh(f) /\ d.left = EccStages /\ n.addr = 0
        /\ n.buf0 = EmptyBuf /\ n.buf1 = EmptyBuf
    BY <1>1, <2>1 DEF NandOk, ListsOk, Loading, Clearing
  <2> HIDE DEF m, e
  <2>5. NandOk(e, m) /\ BufsOk(f, e, m)
    BY <2>2, <2>3, <2>4 DEF NandOk, BufsOk, Loading, Clearing
  <2>. QED  BY <2>1, <2>2, <2>3, <2>4, <2>5, NandOnly DEF Loading
<1>5. d.pc # "rest" => d.job \in Jobs
  BY <1>1 DEF ListsOk
<1>6. CASE NandStep(f, "chip", WriteChipMask(f, drv[f].job.page[1]), "addr0")
  <2> DEFINE m == [n EXCEPT !.chip = d.job.page[1]]
             e == to("addr0")
  <2>1. /\ d.pc = "chip" /\ nand' = [nand EXCEPT ![f] = m]
        /\ drv' = [drv EXCEPT ![f] = e] /\ UNCHANGED <<cdmaVars, lock, task>>
    BY <1>1, <1>6 DEF NandStep, At, Goto, WriteChipMask, Set
  <2>2. m \in Nands /\ m.addr = n.addr /\ m.buf0 = n.buf0 /\ m.buf1 = n.buf1
        /\ m.eccbuf = n.eccbuf /\ m.chip = d.job.page[1]
    BY <1>1, <1>5, <2>1, JobFacts DEF Nands
  <2>3. e \in Drivers /\ e.pc = "addr0" /\ e.job = d.job /\ e.ch = d.ch
        /\ e.left = d.left
    BY <1>1 DEF Drivers, Steps, Clearing
  <2>4. d.ch = DataCh(f) /\ d.left = EccStages /\ n.addr = 0
        /\ n.buf0 = EmptyBuf /\ n.buf1 = EmptyBuf /\ n.eccbuf = EmptyBuf
    BY <1>1, <2>1 DEF NandOk, ListsOk, Loading, Clearing
  <2> HIDE DEF m, e
  <2>5. NandOk(e, m) /\ BufsOk(f, e, m)
    BY <2>2, <2>3, <2>4 DEF NandOk, BufsOk, Loading, Clearing
  <2>. QED  BY <2>1, <2>2, <2>3, <2>4, <2>5, NandOnly DEF Loading
<1>7. CASE NandStep(f, "addr0", WriteAddr0(f, drv[f].job.page[2] % Half), "addr1")
  <2> DEFINE m == [n EXCEPT !.addr = Half * (n.addr \div Half) + (d.job.page[2] % Half)]
             e == to("addr1")
  <2>1. /\ d.pc = "addr0" /\ nand' = [nand EXCEPT ![f] = m]
        /\ drv' = [drv EXCEPT ![f] = e] /\ UNCHANGED <<cdmaVars, lock, task>>
    BY <1>1, <1>7 DEF NandStep, At, Goto, WriteAddr0, Set
  <2>2. d.ch = DataCh(f) /\ d.left = EccStages /\ n.addr = 0
        /\ n.buf0 = EmptyBuf /\ n.buf1 = EmptyBuf /\ n.eccbuf = EmptyBuf
        /\ n.chip = d.job.page[1]
    BY <1>1, <2>1 DEF NandOk, ListsOk, Loading, Clearing
  <2>3. m.addr = d.job.page[2] % Half /\ m.addr \in Nat
    BY <1>1, <1>5, <2>1, <2>2, JobFacts, Halves DEF Nands
  <2>4. m \in Nands /\ m.buf0 = n.buf0 /\ m.buf1 = n.buf1
        /\ m.eccbuf = n.eccbuf /\ m.chip = n.chip
    BY <1>1, <2>3 DEF Nands
  <2>5. e \in Drivers /\ e.pc = "addr1" /\ e.job = d.job /\ e.ch = d.ch
        /\ e.left = d.left
    BY <1>1 DEF Drivers, Steps, Clearing
  <2> HIDE DEF m, e
  <2>6. NandOk(e, m) /\ BufsOk(f, e, m)
    BY <2>2, <2>3, <2>4, <2>5 DEF NandOk, BufsOk, Loading, Clearing
  <2>. QED  BY <2>1, <2>2, <2>4, <2>5, <2>6, NandOnly DEF Loading
<1>8. CASE NandStep(f, "addr1", WriteAddr1(f, drv[f].job.page[2] \div Half), "cmd")
  <2> DEFINE m == [n EXCEPT !.addr = Half * (d.job.page[2] \div Half) + (n.addr % Half)]
             e == to("cmd")
  <2>1. /\ d.pc = "addr1" /\ nand' = [nand EXCEPT ![f] = m]
        /\ drv' = [drv EXCEPT ![f] = e] /\ UNCHANGED <<cdmaVars, lock, task>>
    BY <1>1, <1>8 DEF NandStep, At, Goto, WriteAddr1, Set
  <2>2. d.ch = DataCh(f) /\ d.left = EccStages /\ n.addr = d.job.page[2] % Half
        /\ n.buf0 = EmptyBuf /\ n.buf1 = EmptyBuf /\ n.eccbuf = EmptyBuf
        /\ n.chip = d.job.page[1]
    BY <1>1, <2>1 DEF NandOk, ListsOk, Loading, Clearing
  <2>3. m.addr = d.job.page[2] /\ m.addr \in Nat
    BY <1>1, <1>5, <2>1, <2>2, JobFacts, Halves DEF Nands
  <2>4. m \in Nands /\ m.buf0 = n.buf0 /\ m.buf1 = n.buf1
        /\ m.eccbuf = n.eccbuf /\ m.chip = n.chip
    BY <1>1, <2>3 DEF Nands
  <2>5. e \in Drivers /\ e.pc = "cmd" /\ e.job = d.job /\ e.ch = d.ch
        /\ e.left = d.left
    BY <1>1 DEF Drivers, Steps, Clearing
  <2> HIDE DEF m, e
  <2>6. NandOk(e, m) /\ BufsOk(f, e, m)
    BY <2>2, <2>3, <2>4, <2>5 DEF NandOk, BufsOk, Loading, Clearing
  <2>. QED  BY <2>1, <2>2, <2>4, <2>5, <2>6, NandOnly DEF Loading
<1>. QED  BY <1>3, <1>4, <1>6, <1>7, <1>8 DEF Clear, Select

\* Units are appended to an empty buffer.
LEMMA AppendEmpty ==
    ASSUME NEW S, NEW x \in Seq(S)
    PROVE  Appended(EmptyBuf, x) = Loaded(x)
<1>1. <<>> \o x = x
  OBVIOUS
<1>. QED  BY <1>1 DEF Appended, EmptyBuf, Loaded

\* A buffer stays one when units are appended, or some are read.
LEMMA BufferKeeps ==
    ASSUME NEW S, NEW b \in [data : Seq(S), read : Nat]
    PROVE  /\ \A x \in Seq(S) : Appended(b, x) \in [data : Seq(S), read : Nat]
           /\ \A k \in Nat : AfterRead(b, k) \in [data : Seq(S), read : Nat]
           /\ \A k \in Nat : AfterBytes(b, k) \in [data : Seq(S), read : Nat]
<1>1. b.data \in Seq(S) /\ b.read \in Nat /\ Written(b) \in Nat
  BY DEF Written
<1>2. ASSUME NEW x \in Seq(S) PROVE Appended(b, x) \in [data : Seq(S), read : Nat]
  <2>1. b.data \o x \in Seq(S)
    BY <1>1
  <2>. QED  BY <2>1 DEF Appended
<1>3. ASSUME NEW k \in Nat PROVE AfterRead(b, k) \in [data : Seq(S), read : Nat]
  BY <1>1 DEF AfterRead
<1>4. ASSUME NEW k \in Nat PROVE AfterBytes(b, k) \in [data : Seq(S), read : Nat]
  BY <1>1 DEF AfterBytes
<1>. QED  BY <1>2, <1>3, <1>4

\* The read command.
LEMMA CommandKeeps ==
    ASSUME StorageInv, NEW f \in FMIS, Command(f)
    PROVE  StorageInv'
<1>1. PICK out \in Outcomes : NandStep(f, "cmd", WriteNcmd(f, "READSTART", out), "check")
  BY DEF Command
<1> DEFINE n == nand[f]
           d == drv[f]
           p == d.job.page
           err == [i \in 1 .. EccStages |-> ErrorOf(out)]
           m == h2fmi_do_read(n, out)
           e == [d EXCEPT !.pc = "check"]
<1>2. /\ n \in Nands /\ d \in Drivers /\ d.pc = "cmd"
      /\ NandOk(d, n) /\ ListsOk(f, d, segs[DataCh(f)], segs[MetaCh(f)])
  BY <1>1 DEF StorageInv, Types, DriverOk, NandStep, At
<1>3. d.job \in Jobs /\ d.ch = DataCh(f)
  BY <1>2 DEF ListsOk, Loading
<1>4. /\ n.buf0 = EmptyBuf /\ n.buf1 = EmptyBuf /\ n.eccbuf = EmptyBuf
      /\ n.chip = p[1] /\ n.addr = p[2] /\ d.left = EccStages
  BY <1>2 DEF NandOk, Clearing
<1>5. p \in Pages /\ <<n.chip, n.addr>> = p /\ n.chip # NoChip
  BY <1>3, <1>4, JobFacts
<1>6. /\ Appended(EmptyBuf, DataOf(p, out)) = Loaded(DataOf(p, out))
      /\ Appended(EmptyBuf, MetaOf(p, out)) = Loaded(MetaOf(p, out))
      /\ Appended(EmptyBuf, err) = Loaded(err)
      /\ Loaded(DataOf(p, out)) \in Buffers /\ Loaded(MetaOf(p, out)) \in Buffers
      /\ Loaded(err) \in [data : Seq(Nat), read : Nat]
  BY <1>5, PageTypes, AppendEmpty DEF Loaded, Buffers
<1>7. /\ nand' = [nand EXCEPT ![f] = m] /\ drv' = [drv EXCEPT ![f] = e]
      /\ UNCHANGED <<cdmaVars, lock, task>>
  BY <1>1, <1>5 DEF NandStep, At, Goto, WriteNcmd, Set, h2fmi_do_single_ncmd
<1> HIDE DEF err
<1>8. /\ m \in Nands /\ m.eccbuf = Loaded(err)
      /\ out = "ok" => /\ m.buf0 = Loaded(DataOf(p, out))
                       /\ m.buf1 = Loaded(MetaOf(p, out))
  <2>1. CASE ~Mapped(out)
    <3>1. m = [n EXCEPT !.eccbuf = Loaded(err)] /\ out # "ok"
      BY <2>1, <1>4, <1>6 DEF h2fmi_do_read, Mapped, err
    <3>. QED  BY <3>1, <1>2, <1>6 DEF Nands
  <2>2. CASE Mapped(out)
    <3>1. m = [n EXCEPT !.buf0 = Loaded(DataOf(p, out)),
                        !.buf1 = Loaded(MetaOf(p, out)), !.eccbuf = Loaded(err)]
      BY <2>2, <1>4, <1>5, <1>6 DEF h2fmi_do_read, err
    <3>. QED  BY <3>1, <1>2, <1>6 DEF Nands
  <2>. QED  BY <2>1, <2>2
<1>9. e \in Drivers /\ e.pc = "check" /\ e.job = d.job /\ e.ch = d.ch
      /\ e.left = EccStages
  BY <1>2, <1>4 DEF Drivers, Steps
<1> HIDE DEF m, e
<1>10. EccStages \in 1 .. EccStages /\ EccStages - EccStages = 0
  BY NandAssumption
<1>11. NandOk(e, m)
  <2>1. /\ m.eccbuf = [data |-> [i \in 1 .. EccStages |-> ErrorOf(out)],
                       read |-> EccStages - e.left]
        /\ out = "ok" => /\ m.buf0 = Loaded(DataOf(e.job.page, out))
                         /\ m.buf1 = Loaded(MetaOf(e.job.page, out))
    BY <1>8, <1>9, <1>10 DEF Loaded, err
  <2>. QED  BY <2>1, <1>9, <1>10 DEF NandOk, Clearing
<1>12. BufsOk(f, e, m)
  BY <1>9 DEF BufsOk, Loading
<1>. QED  BY <1>2, <1>3, <1>7, <1>8, <1>9, <1>11, <1>12, NandOnly DEF Loading

\* The error words.
LEMMA CheckKeeps ==
    ASSUME StorageInv, NEW f \in FMIS, Check(f)
    PROVE  StorageInv'
<1> DEFINE n == nand[f]
           d == drv[f]
           pc == CASE EccWord(f) # 0    -> "failed"
                   [] EccWord(f) = 0 /\ d.left > 1 -> "check"
                   [] OTHER             -> "port"
           b == AfterRead(n.eccbuf, 1)
           m == [n EXCEPT !.eccbuf = b]
           e == [d EXCEPT !.left = d.left - 1, !.pc = pc]
<1>1. /\ n \in Nands /\ d \in Drivers /\ d.pc = "check"
      /\ NandOk(d, n) /\ ListsOk(f, d, segs[DataCh(f)], segs[MetaCh(f)])
  BY DEF StorageInv, Types, DriverOk, Check, At
<1>2. d.job \in Jobs /\ d.ch = DataCh(f)
  BY <1>1 DEF ListsOk, Loading
<1>3. d.left \in 1 .. EccStages
  BY <1>1 DEF NandOk
<1>4. PICK out \in Outcomes :
        /\ n.eccbuf = [data |-> [i \in 1 .. EccStages |-> ErrorOf(out)],
                       read |-> EccStages - d.left]
        /\ out = "ok" => /\ n.buf0 = Loaded(DataOf(d.job.page, out))
                         /\ n.buf1 = Loaded(MetaOf(d.job.page, out))
  BY <1>1 DEF NandOk
<1>5. EccStages \in Nat
  BY NandAssumption
<1>6. /\ n.eccbuf.data = [i \in 1 .. EccStages |-> ErrorOf(out)]
      /\ n.eccbuf.read = EccStages - d.left
      /\ Written(n.eccbuf) = EccStages
  BY <1>4, <1>5 DEF Written
<1>7. EccWord(f) = ErrorOf(out)
  BY <1>3, <1>5, <1>6 DEF EccWord
<1>8. b = [data |-> [i \in 1 .. EccStages |-> ErrorOf(out)],
           read |-> EccStages - (d.left - 1)]
  <2>1. EccStages - d.left < EccStages
        /\ (EccStages - d.left) + 1 = EccStages - (d.left - 1)
    BY <1>3, <1>5
  <2>2. ~(n.eccbuf.read >= Written(n.eccbuf))
        /\ n.eccbuf.read + 1 = EccStages - (d.left - 1)
    BY <2>1, <1>6, <1>3, <1>5
  <2>3. b = [n.eccbuf EXCEPT !.read = EccStages - (d.left - 1)]
    BY <2>2 DEF AfterRead
  <2>4. PICK x : x = [i \in 1 .. EccStages |-> ErrorOf(out)]
    OBVIOUS
  <2>5. n.eccbuf = [data |-> x, read |-> EccStages - d.left]
    BY <2>4, <1>4
  <2>6. b = [data |-> x, read |-> EccStages - (d.left - 1)]
    BY <2>3, <2>5
  <2>. QED  BY <2>4, <2>6
<1>9. b \in [data : Seq(Nat), read : Nat]
  BY <1>1, BufferKeeps DEF Nands
<1>10. /\ nand' = [nand EXCEPT ![f] = m] /\ drv' = [drv EXCEPT ![f] = e]
       /\ UNCHANGED <<cdmaVars, lock, task>>
  BY <1>1 DEF Check, ReadEccbuf, Set, StorageInv, Types
<1>11. pc \in {"failed", "check", "port"}
  OBVIOUS
<1>12. /\ pc = "check" => d.left > 1
       /\ pc = "port" => ErrorOf(out) = 0
  BY <1>7, <1>3
<1>13. ErrorOf(out) = 0 => out = "ok"
  BY DEF ErrorOf, Outcomes
<1> HIDE DEF pc, b
<1>14. m \in Nands /\ m.buf0 = n.buf0 /\ m.buf1 = n.buf1 /\ m.eccbuf = b
  BY <1>1, <1>9 DEF Nands
<1>15. e \in Drivers /\ e.pc = pc /\ e.job = d.job /\ e.ch = d.ch /\ e.left = d.left - 1
  <2>1. d.left - 1 \in Int /\ pc \in Steps
    BY <1>3, <1>5, <1>11 DEF Steps, Loading
  <2>. QED  BY <1>1, <2>1 DEF Drivers
<1> HIDE DEF m, e
<1>16. NandOk(e, m)
  <2>1. pc = "check" => d.left - 1 \in 1 .. EccStages
    BY <1>12, <1>3, <1>5
  <2>2. out = "ok" => /\ m.buf0 = Loaded(DataOf(e.job.page, out))
                      /\ m.buf1 = Loaded(MetaOf(e.job.page, out))
    BY <1>4, <1>14, <1>15
  <2>3. m.eccbuf = [data |-> [i \in 1 .. EccStages |-> ErrorOf(out)],
                    read |-> EccStages - e.left]
    BY <1>8, <1>14, <1>15
  <2>. QED  BY <2>1, <2>2, <2>3, <1>11, <1>15 DEF NandOk, Clearing
<1>17. BufsOk(f, e, m)
  BY <1>4, <1>11, <1>12, <1>13, <1>14, <1>15 DEF BufsOk, Loading
<1>. QED  BY <1>1, <1>2, <1>10, <1>11, <1>14, <1>15, <1>16, <1>17, NandOnly DEF Loading

\* A chip's identification.
LEMMA IdentifyKeeps ==
    ASSUME StorageInv, NEW f \in FMIS, Identify(f)
    PROVE  StorageInv'
<1> DEFINE n == nand[f]
           d == drv[f]
<1>1. /\ n \in Nands /\ d \in Drivers
      /\ NandOk(d, n) /\ ListsOk(f, d, segs[DataCh(f)], segs[MetaCh(f)])
  BY DEF StorageInv, Types, DriverOk
<1>2. CASE \E out \in {"ok", "nodata"} :
             NandStep(f, "addr0", WriteNcmd(f, "READID", out), "id")
  <2>1. PICK out \in {"ok", "nodata"} :
             NandStep(f, "addr0", WriteNcmd(f, "READID", out), "id")
    BY <1>2
  <2> DEFINE m == h2fmi_do_readid(n, out)
             e == [d EXCEPT !.pc = "id"]
             x == [i \in 1 .. IdUnits |-> Unit(<<n.chip, -1>>, i)]
  <2>2. d.pc = "addr0" /\ d.job \in Jobs /\ d.ch = DataCh(f) /\ n.chip = d.job.page[1]
    BY <2>1, <1>1 DEF NandStep, At, ListsOk, NandOk, Loading
  <2>3. n.chip \in Chips /\ n.chip # NoChip
    BY <2>2, JobFacts
  <2>4. /\ nand' = [nand EXCEPT ![f] = m] /\ drv' = [drv EXCEPT ![f] = e]
        /\ UNCHANGED <<cdmaVars, lock, task>>
    BY <2>1, <2>3 DEF NandStep, At, Goto, WriteNcmd, Set, h2fmi_do_single_ncmd
  <2>5. x \in Seq(Memories)
    <3>1. IdUnits \in Nat
      BY NandAssumption
    <3>2. \A i \in 1 .. IdUnits : Unit(<<n.chip, -1>>, i) \in Memories
      BY <2>3, <3>1, UnitFacts
    <3>. QED  BY <3>1, <3>2
  <2>6. n.buf0 \in [data : Seq(Memories), read : Nat]
        /\ EmptyBuf \in [data : Seq(Memories), read : Nat]
    BY <1>1 DEF Nands, Buffers, EmptyBuf
  <2>7. Appended(n.buf0, x) \in [data : Seq(Memories), read : Nat]
    BY <2>5, <2>6, BufferKeeps
  <2>8. PICK b \in [data : Seq(Memories), read : Nat] : m = [n EXCEPT !.buf0 = b]
    BY <2>6, <2>7 DEF h2fmi_do_readid, h2fmi_buffer_clear
  <2>9. m \in Nands
    BY <2>8, <1>1 DEF Nands, Buffers
  <2>10. e \in Drivers /\ e.pc = "id" /\ e.job = d.job /\ e.ch = d.ch
    BY <1>1 DEF Drivers, Steps
  <2> HIDE DEF m, e
  <2>11. NandOk(e, m) /\ BufsOk(f, e, m)
    BY <2>10 DEF NandOk, BufsOk, Clearing, Loading
  <2>. QED  BY <2>2, <2>4, <2>9, <2>10, <2>11, NandOnly DEF Loading
<1>3. CASE NandStep(f, "id", ReadData0(f), "done_id")
  <2> DEFINE m == [n EXCEPT !.buf0 = AfterRead(n.buf0, WordUnits)]
             e == [d EXCEPT !.pc = "done_id"]
  <2>1. /\ d.pc = "id" /\ nand' = [nand EXCEPT ![f] = m]
        /\ drv' = [drv EXCEPT ![f] = e] /\ UNCHANGED <<cdmaVars, lock, task>>
    BY <1>1, <1>3 DEF NandStep, At, Goto, ReadData0, Set
  <2>2. d.ch = DataCh(f)
    BY <2>1, <1>1 DEF ListsOk, Loading
  <2>3. WordUnits \in Nat
    BY NandAssumption
  <2>4. n.buf0 \in [data : Seq(Memories), read : Nat]
    BY <1>1 DEF Nands, Buffers
  <2>5. AfterRead(n.buf0, WordUnits) \in [data : Seq(Memories), read : Nat]
    BY <2>3, <2>4, BufferKeeps
  <2>6. m \in Nands
    BY <2>5, <1>1 DEF Nands, Buffers
  <2>7. e \in Drivers /\ e.pc = "done_id" /\ e.job = d.job /\ e.ch = d.ch
    BY <1>1 DEF Drivers, Steps
  <2> HIDE DEF m, e
  <2>8. NandOk(e, m) /\ BufsOk(f, e, m)
    BY <2>7 DEF NandOk, BufsOk, Clearing, Loading
  <2>. QED  BY <2>1, <2>2, <2>6, <2>7, <2>8, NandOnly DEF Loading
<1>. QED  BY <1>2, <1>3 DEF Identify

-----------------------------------------------------------------------------
(* Segment lists. *)

Data(n, b) == [flags |-> {"DATA", "BUF"}, size |-> n, buffer |-> b]

\* The lists that a driver builds, without the descriptor of the
\* initialisation vector: n units in one segment, or in two.
OneList(n)    == <<Data(n, 0), NoSeg>>
TwoList(n, k) == <<Data(k, 0), Data(n - k, k), NoSeg>>
Body(job) == IF job.split = PageUnits THEN OneList(PageUnits)
             ELSE TwoList(PageUnits, job.split)

\* Short sequences put together.
LEMMA Pair ==
    ASSUME NEW S, NEW x \in S, NEW y \in S
    PROVE  <<x>> \o <<y>> = <<x, y>>
<1> DEFINE s == <<x>> \o <<y>>
           t == <<x, y>>
<1>1. t \in Seq(S) /\ Len(t) = 2 /\ t[1] = x /\ t[2] = y
  OBVIOUS
<1>2. s \in Seq(S) /\ Len(s) = 2 /\ s[1] = x /\ s[2] = y
  OBVIOUS
<1> HIDE DEF s, t
<1>3. \A i \in 1 .. Len(s) : s[i] = t[i]
  BY <1>1, <1>2
<1>4. s = t
  BY <1>1, <1>2, <1>3, SeqEqual
<1>. QED  BY <1>4 DEF s, t

\* One more behind two.
LEMMA Triple ==
    ASSUME NEW S, NEW x \in S, NEW y \in S, NEW z \in S
    PROVE  <<x, y>> \o <<z>> = <<x, y, z>>
<1> DEFINE s == <<x, y>> \o <<z>>
           t == <<x, y, z>>
<1>1. t \in Seq(S) /\ Len(t) = 3 /\ t[1] = x /\ t[2] = y /\ t[3] = z
  OBVIOUS
<1>2. s \in Seq(S) /\ Len(s) = 3 /\ s[1] = x /\ s[2] = y /\ s[3] = z
  OBVIOUS
<1> HIDE DEF s, t
<1>3. \A i \in 1 .. Len(s) : s[i] = t[i]
  BY <1>1, <1>2
<1>4. s = t
  BY <1>1, <1>2, <1>3, SeqEqual
<1>. QED  BY <1>4 DEF s, t

\* What is behind the first element.
LEMMA Behind ==
    ASSUME NEW S, NEW x \in S, NEW s \in Seq(S)
    PROVE  Tail(<<x>> \o s) = s /\ (<<x>> \o s)[1] = x
<1> DEFINE c == <<x>> \o s
           t == Tail(c)
<1>1. /\ c \in Seq(S) /\ Len(c) = Len(s) + 1 /\ c[1] = x
      /\ \A i \in 1 .. Len(s) : c[i + 1] = s[i]
  OBVIOUS
<1>2. c # <<>>
  BY <1>1
<1> HIDE DEF c
<1>3. t \in Seq(S) /\ Len(t) = Len(s) /\ \A i \in 1 .. Len(s) : t[i] = c[i + 1]
  BY <1>1, <1>2
<1> HIDE DEF t
<1>4. t = s
  BY <1>1, <1>3, SeqEqual
<1>. QED  BY <1>1, <1>4 DEF t, c

\* Descriptors.
LEMMA DescriptorFacts ==
    /\ NoSeg \in Segments /\ NoSeg.flags = {} /\ NoSeg.size = 0
    /\ \A n, b \in Nat : /\ Data(n, b) \in Segments
                         /\ Data(n, b).size = n /\ Data(n, b).buffer = b
                         /\ Data(n, b).flags = {"DATA", "BUF"}
                         /\ Data(n, b).flags # {}
  BY DEF NoSeg, Segments, Flags, Data

\* The lists as a driver builds them, in closed form.
LEMMA ListForms ==
    ASSUME NEW job, NEW n \in Nat, NEW k \in 0 .. n
    PROVE  /\ ~job.crypt => /\ SegList(job, <<n>>) = OneList(n)
                            /\ SegList(job, <<k, n - k>>) = TwoList(n, k)
           /\ job.crypt => /\ SegList(job, <<n>>) = <<NoSeg>> \o OneList(n)
                           /\ SegList(job, <<k, n - k>>) = <<NoSeg>> \o TwoList(n, k)
<1> DEFINE segment(sizes, i) ==
              [flags |-> {"DATA", "BUF"}, size |-> sizes[i],
               buffer |-> IF i = 1 THEN 0 ELSE sizes[1]]
           one == [i \in DOMAIN <<n>> |-> segment(<<n>>, i)]
           two == [i \in DOMAIN <<k, n - k>> |-> segment(<<k, n - k>>, i)]
           a == Data(k, 0)
           b == Data(n - k, k)
           c == Data(n, 0)
<1>1. one = <<c>>
  BY DEF Data
<1>2. two = <<a, b>>
  BY DEF Data
<1>3. /\ SegList(job, <<n>>) = (IF job.crypt THEN <<NoSeg>> ELSE <<>>) \o one \o <<NoSeg>>
      /\ SegList(job, <<k, n - k>>)
         = (IF job.crypt THEN <<NoSeg>> ELSE <<>>) \o two \o <<NoSeg>>
  BY Zenon DEF SegList
<1>4. a \in Segments /\ b \in Segments /\ c \in Segments /\ NoSeg \in Segments
  BY DescriptorFacts
<1>5. OneList(n) = <<c, NoSeg>> /\ TwoList(n, k) = <<a, b, NoSeg>>
  BY DEF OneList, TwoList
<1> HIDE DEF one, two, a, b, c
<1>6. <<c>> \in Seq(Segments) /\ <<a, b>> \in Seq(Segments) /\ <<NoSeg>> \in Seq(Segments)
  BY <1>4
<1>7. /\ (<<>> \o <<c>>) \o <<NoSeg>> = <<c, NoSeg>>
      /\ (<<>> \o <<a, b>>) \o <<NoSeg>> = <<a, b, NoSeg>>
  BY <1>4, <1>6, Pair, Triple, ConcatEmptySeq
<1>8. /\ (<<NoSeg>> \o <<c>>) \o <<NoSeg>> = <<NoSeg>> \o <<c, NoSeg>>
      /\ (<<NoSeg>> \o <<a, b>>) \o <<NoSeg>> = <<NoSeg>> \o <<a, b, NoSeg>>
  <2>1. /\ (<<NoSeg>> \o <<c>>) \o <<NoSeg>> = <<NoSeg>> \o (<<c>> \o <<NoSeg>>)
        /\ (<<NoSeg>> \o <<a, b>>) \o <<NoSeg>> = <<NoSeg>> \o (<<a, b>> \o <<NoSeg>>)
    BY <1>6, ConcatAssociative
  <2>2. <<c>> \o <<NoSeg>> = <<c, NoSeg>> /\ <<a, b>> \o <<NoSeg>> = <<a, b, NoSeg>>
    BY <1>4, Pair, Triple
  <2>. QED  BY <2>1, <2>2
<1>. QED  BY <1>1, <1>2, <1>3, <1>5, <1>7, <1>8

\* The lists of a job, and their types.
LEMMA JobLists ==
    ASSUME NEW job \in Jobs
    PROVE  /\ SegList(job, Sizes(job))
              = IF job.crypt THEN <<NoSeg>> \o Body(job) ELSE Body(job)
           /\ SegList([job EXCEPT !.crypt = FALSE], <<MetaUnits>>) = OneList(MetaUnits)
           /\ Body(job) \in Seq(Segments) /\ OneList(MetaUnits) \in Seq(Segments)
           /\ SegList(job, Sizes(job)) \in Seq(Segments)
           /\ Len(SegList(job, Sizes(job))) > 0 /\ Len(OneList(MetaUnits)) > 0
<1>1. /\ PageUnits \in Nat /\ MetaUnits \in Nat
      /\ job.split \in 1 .. PageUnits /\ job.crypt \in BOOLEAN
  BY JobFacts, NandAssumption
<1>2. SegList(job, Sizes(job)) = IF job.crypt THEN <<NoSeg>> \o Body(job) ELSE Body(job)
  <2>1. PageUnits \in 0 .. PageUnits /\ job.split \in 0 .. PageUnits
    BY <1>1
  <2>2. CASE job.split = PageUnits
    BY <2>1, <2>2, <1>1, ListForms DEF Sizes, Body
  <2>3. CASE job.split # PageUnits
    BY <2>1, <2>3, <1>1, ListForms DEF Sizes, Body
  <2>. QED  BY <2>2, <2>3
<1>3. [job EXCEPT !.crypt = FALSE].crypt = FALSE
  BY DEF Jobs
<1>4. SegList([job EXCEPT !.crypt = FALSE], <<MetaUnits>>) = OneList(MetaUnits)
  <2>1. 0 \in 0 .. MetaUnits /\ MetaUnits \in Nat
    BY <1>1
  <2>2. ~[job EXCEPT !.crypt = FALSE].crypt
    BY <1>3
  <2>. QED  BY <2>1, <2>2, ListForms, Zenon
<1>5. /\ NoSeg \in Segments
      /\ \A n, b \in Nat : Data(n, b) \in Segments
  BY DEF NoSeg, Segments, Flags, Data
<1>6. PageUnits - job.split \in Nat /\ job.split \in Nat
  BY <1>1
<1>7. Body(job) \in Seq(Segments) /\ Len(Body(job)) > 0
  BY <1>1, <1>5, <1>6 DEF Body, OneList, TwoList
<1>8. OneList(MetaUnits) \in Seq(Segments) /\ Len(OneList(MetaUnits)) > 0
  BY <1>1, <1>5 DEF OneList
<1>9. <<NoSeg>> \o Body(job) \in Seq(Segments) /\ Len(<<NoSeg>> \o Body(job)) > 0
  BY <1>5, <1>7
<1>. QED  BY <1>1, <1>2, <1>4, <1>7, <1>8, <1>9

\* One more segment gathered.
LEMMA GatherFacts ==
    ASSUME NEW n \in Nat, NEW x \in Nat, NEW k \in Nat, NEW b \in Nat,
           NEW m \in Nat, x + k = m, m <= n
    PROVE  Gather([n |-> x, cap |-> n, on |-> TRUE], Data(k, b))
           = [n |-> m, cap |-> n, on |-> m < n]
<1> DEFINE d == Data(k, b)
           g == [n |-> x, cap |-> n, on |-> TRUE]
<1>1. d.flags # {} /\ d.size = k
  BY DescriptorFacts
<1> HIDE DEF d
<1>2. ~(g.n + d.size > g.cap) /\ g.on /\ g.n + d.size = m
  BY <1>1
<1>3. Gather(g, d) = [g EXCEPT !.n = m, !.on = m < g.cap]
  BY <1>1, <1>2 DEF Gather
<1>4. Gather(g, d) = [n |-> m, cap |-> n, on |-> m < n]
  BY <1>3
<1>. QED  BY <1>4 DEF d

\* Nothing is gathered once all that was asked for is there.
LEMMA GatherEnds ==
    ASSUME NEW n, NEW s
    PROVE  Gather([n |-> n, cap |-> n, on |-> FALSE], s) = [n |-> n, cap |-> n, on |-> FALSE]
  BY DEF Gather

\* The first loop of a transfer asks for what the list has room for: one
\* segment.
LEMMA AskedOne ==
    ASSUME NEW n \in Nat \ {0}
    PROVE  Asked(OneList(n), n) = n
<1> DEFINE l == OneList(n)
           g0 == [n |-> 0, cap |-> n, on |-> TRUE]
           g1 == [n |-> n, cap |-> n, on |-> FALSE]
           P(s) == s = [i \in 0 .. Len(l) |->
                          IF i = 0 THEN g0 ELSE Gather(s[i - 1], l[i])]
           c == CHOOSE s : P(s)
           w == [i \in 0 .. 2 |-> IF i = 0 THEN g0 ELSE g1]
<1>1. Len(l) = 2 /\ l[1] = Data(n, 0)
  BY DEF OneList
<1>2. Asked(l, n) = c[Len(l)].n
  BY DEF Asked
<1>3. Gather(g0, l[1]) = g1 /\ Gather(g1, l[2]) = g1
  <2>1. 0 + n = n /\ ~(n < n) /\ n + 0 = n /\ n <= n
    OBVIOUS
  <2>2. Gather(g0, Data(n, 0)) = [n |-> n, cap |-> n, on |-> n < n]
    BY <2>1, GatherFacts
  <2>3. (n < n) = FALSE
    OBVIOUS
  <2>4. \A s : Gather(g1, s) = g1
    BY GatherEnds
  <2>. QED  BY <1>1, <2>2, <2>3, <2>4
<1>4. g1.n = n
  OBVIOUS
<1> HIDE DEF l, g0, g1
<1>5. P(w)
  BY <1>1, <1>3
<1>6. P(c)
  BY <1>5
<1> HIDE DEF c
<1>7. c[0] = g0
  BY <1>6, <1>1
<1>8. c[1] = Gather(c[0], l[1]) /\ c[2] = Gather(c[1], l[2])
  BY <1>6, <1>1
<1>. QED  BY <1>1, <1>2, <1>3, <1>4, <1>7, <1>8 DEF l

\* Two segments.
LEMMA AskedTwo ==
    ASSUME NEW n \in Nat \ {0}, NEW k \in 1 .. n - 1
    PROVE  Asked(TwoList(n, k), n) = n
<1> DEFINE l == TwoList(n, k)
           g0 == [n |-> 0, cap |-> n, on |-> TRUE]
           g1 == [n |-> k, cap |-> n, on |-> TRUE]
           g2 == [n |-> n, cap |-> n, on |-> FALSE]
           P(s) == s = [i \in 0 .. Len(l) |->
                          IF i = 0 THEN g0 ELSE Gather(s[i - 1], l[i])]
           c == CHOOSE s : P(s)
           w == [i \in 0 .. 3 |-> IF i = 0 THEN g0 ELSE IF i = 1 THEN g1 ELSE g2]
<1>1. Len(l) = 3 /\ l[1] = Data(k, 0) /\ l[2] = Data(n - k, k)
  BY DEF TwoList
<1>2. Asked(l, n) = c[Len(l)].n
  BY DEF Asked
<1>3. Gather(g0, l[1]) = g1 /\ Gather(g1, l[2]) = g2 /\ Gather(g2, l[3]) = g2
  <2>1. /\ 0 + k = k /\ k <= n /\ n - k \in Nat /\ k + (n - k) = n /\ n <= n
        /\ n + 0 = n /\ k \in Nat
    OBVIOUS
  <2>2. (k < n) = TRUE /\ (n < n) = FALSE
    OBVIOUS
  <2>3. Gather(g0, Data(k, 0)) = [n |-> k, cap |-> n, on |-> k < n]
    BY <2>1, GatherFacts
  <2>4. Gather(g1, Data(n - k, k)) = [n |-> n, cap |-> n, on |-> n < n]
    BY <2>1, GatherFacts
  <2>5. \A s : Gather(g2, s) = g2
    BY GatherEnds
  <2>. QED  BY <1>1, <2>2, <2>3, <2>4, <2>5
<1>4. g2.n = n
  OBVIOUS
<1> HIDE DEF l, g0, g1, g2
<1>5. P(w)
  BY <1>1, <1>3
<1>6. P(c)
  BY <1>5
<1> HIDE DEF c
<1>7. c[0] = g0
  BY <1>6, <1>1
<1>8. c[1] = Gather(c[0], l[1]) /\ c[2] = Gather(c[1], l[2]) /\ c[3] = Gather(c[2], l[3])
  BY <1>6, <1>1
<1>. QED  BY <1>1, <1>2, <1>3, <1>4, <1>7, <1>8 DEF l

\* Where in the buffer the segments start.
LEMMA Offsets ==
    ASSUME NEW n \in Nat, NEW k \in Nat
    PROVE  /\ Offset(OneList(n), 1) = 0
           /\ k <= n => /\ Offset(TwoList(n, k), 1) = 0
                        /\ Offset(TwoList(n, k), 2) = k
<1>1. Offset(OneList(n), 1) = 0
  <2> DEFINE l == OneList(n)
             P(s) == s = [j \in 0 .. Len(l) |->
                            IF j = 0 THEN 0 ELSE s[j - 1] + l[j].size]
             c == CHOOSE s : P(s)
             w == [j \in 0 .. 2 |-> IF j = 0 THEN 0 ELSE n]
  <2>1. Len(l) = 2 /\ l[1].size = n /\ l[2].size = 0
    BY DescriptorFacts DEF OneList
  <2>2. Offset(l, 1) = c[1 - 1]
    BY DEF Offset
  <2> HIDE DEF l
  <2>3. P(w)
    BY <2>1
  <2>4. P(c)
    BY <2>3
  <2> HIDE DEF c
  <2>. QED  BY <2>1, <2>2, <2>4 DEF l
<1>2. ASSUME k <= n
      PROVE  Offset(TwoList(n, k), 1) = 0 /\ Offset(TwoList(n, k), 2) = k
  <2> DEFINE l == TwoList(n, k)
             P(s) == s = [j \in 0 .. Len(l) |->
                            IF j = 0 THEN 0 ELSE s[j - 1] + l[j].size]
             c == CHOOSE s : P(s)
             w == [j \in 0 .. 3 |-> IF j = 0 THEN 0 ELSE IF j = 1 THEN k ELSE n]
  <2>1. Len(l) = 3 /\ l[1].size = k /\ l[2].size = n - k /\ l[3].size = 0
    <3>1. n - k \in Nat
      BY <1>2
    <3>. QED  BY <3>1, DescriptorFacts DEF TwoList
  <2>2. Offset(l, 1) = c[1 - 1] /\ Offset(l, 2) = c[2 - 1]
    BY DEF Offset
  <2> HIDE DEF l
  <2>3. P(w)
    <3>1. w[0] + l[1].size = k /\ w[1] + l[2].size = n /\ w[2] + l[3].size = n
      BY <2>1, <1>2
    <3>2. \A j \in 0 .. Len(l) :
             w[j] = IF j = 0 THEN 0 ELSE w[j - 1] + l[j].size
      BY <3>1, <2>1
    <3>. QED  BY <3>2, <2>1
  <2>4. P(c)
    BY <2>3
  <2> HIDE DEF c
  <2>5. c[0] = 0
    BY <2>1, <2>4
  <2>6. c[1] = c[0] + l[1].size
    BY <2>1, <2>4
  <2>. QED  BY <2>1, <2>2, <2>5, <2>6 DEF l
<1>. QED  BY <1>1, <1>2

\* The second loop: unit a of the buffer goes to place a.
LEMMA FilledOne ==
    ASSUME NEW n \in Nat \ {0}, NEW m, DOMAIN m \subseteq Nat,
           NEW out, DOMAIN out = 1 .. n, NEW a \in DOMAIN m
    PROVE  Filled(m, OneList(n), out)[a] = IF a \in 1 .. n THEN out[a] ELSE m[a]
<1> DEFINE l == OneList(n)
           In(i) == Delivers(l, i) /\ a - l[i].buffer \in 1 .. l[i].size
           k(i) == Offset(l, i) + a - l[i].buffer
<1>1. /\ DOMAIN l = 1 .. 2 /\ l[1] = Data(n, 0) /\ l[2] = NoSeg
      /\ l[1].size = n /\ l[1].buffer = 0 /\ l[1].flags = {"DATA", "BUF"}
      /\ l[2].flags = {}
  BY DescriptorFacts DEF OneList
<1>2. Offset(l, 1) = 0
  BY Offsets
<1>3. Filled(m, l, out)[a]
      = IF \E i \in DOMAIN l : In(i)
        THEN IF k(CHOOSE i \in DOMAIN l : In(i)) \in DOMAIN out
             THEN out[k(CHOOSE i \in DOMAIN l : In(i))] ELSE Junk
        ELSE m[a]
  BY DEF Filled
<1> HIDE DEF l
<1>4. Delivers(l, 1) /\ ~Delivers(l, 2)
  BY <1>1 DEF Delivers
<1>5. a \in Nat /\ a - 0 = a /\ (0 + a) - 0 = a
  OBVIOUS
<1>6. (In(1) <=> a \in 1 .. n) /\ ~In(2) /\ k(1) = a
  BY <1>1, <1>2, <1>4, <1>5
<1> HIDE DEF In, k
<1>7. CASE a \in 1 .. n
  <2>1. (CHOOSE i \in DOMAIN l : In(i)) = 1
    <3>1. \A i \in DOMAIN l : In(i) <=> i = 1
      BY <1>1, <1>6, <1>7
    <3>. QED  BY <3>1, <1>1
  <2>2. \E i \in DOMAIN l : In(i)
    BY <1>1, <1>6, <1>7
  <2>. QED  BY <1>3, <1>6, <1>7, <2>1, <2>2 DEF l
<1>8. CASE a \notin 1 .. n
  <2>1. ~\E i \in DOMAIN l : In(i)
    BY <1>1, <1>6, <1>8
  <2>. QED  BY <1>3, <1>8, <2>1 DEF l
<1>. QED  BY <1>7, <1>8

\* The same for two segments.
LEMMA FilledTwo ==
    ASSUME NEW n \in Nat \ {0}, NEW s \in 1 .. n - 1, NEW m, DOMAIN m \subseteq Nat,
           NEW out, DOMAIN out = 1 .. n, NEW a \in DOMAIN m
    PROVE  Filled(m, TwoList(n, s), out)[a] = IF a \in 1 .. n THEN out[a] ELSE m[a]
<1> DEFINE l == TwoList(n, s)
           In(i) == Delivers(l, i) /\ a - l[i].buffer \in 1 .. l[i].size
           k(i) == Offset(l, i) + a - l[i].buffer
<1>1. n - s \in Nat /\ s \in Nat /\ s <= n /\ a \in Nat
  OBVIOUS
<1>2. /\ DOMAIN l = 1 .. 3 /\ l[1] = Data(s, 0) /\ l[2] = Data(n - s, s) /\ l[3] = NoSeg
      /\ l[1].size = s /\ l[1].buffer = 0 /\ l[1].flags = {"DATA", "BUF"}
      /\ l[2].size = n - s /\ l[2].buffer = s /\ l[2].flags = {"DATA", "BUF"}
      /\ l[3].flags = {}
  BY <1>1, DescriptorFacts DEF TwoList
<1>3. Offset(l, 1) = 0 /\ Offset(l, 2) = s
  BY <1>1, Offsets
<1>4. Filled(m, l, out)[a]
      = IF \E i \in DOMAIN l : In(i)
        THEN IF k(CHOOSE i \in DOMAIN l : In(i)) \in DOMAIN out
             THEN out[k(CHOOSE i \in DOMAIN l : In(i))] ELSE Junk
        ELSE m[a]
  BY DEF Filled
<1> HIDE DEF l
<1>5. Delivers(l, 1) /\ Delivers(l, 2) /\ ~Delivers(l, 3)
  BY <1>2 DEF Delivers
<1>6. (In(1) <=> a \in 1 .. s) /\ (In(2) <=> a \in s + 1 .. n) /\ ~In(3)
  BY <1>1, <1>2, <1>5
<1>7. k(1) = a /\ k(2) = a
  BY <1>1, <1>2, <1>3
<1> HIDE DEF In, k
<1>8. CASE a \in 1 .. n
  <2> DEFINE c == CHOOSE i \in DOMAIN l : In(i)
  <2>1. \E i \in DOMAIN l : In(i)
    BY <1>1, <1>2, <1>6, <1>8
  <2>2. c \in DOMAIN l /\ In(c)
    BY <2>1
  <2> HIDE DEF c
  <2>3. c \in {1, 2}
    BY <2>2, <1>2, <1>6
  <2>4. k(c) = a
    BY <2>3, <1>7
  <2>. QED  BY <1>4, <1>8, <2>1, <2>4 DEF c, l
<1>9. CASE a \notin 1 .. n
  <2>1. ~\E i \in DOMAIN l : In(i)
    BY <1>1, <1>2, <1>6, <1>9
  <2>. QED  BY <1>4, <1>9, <2>1 DEF l
<1>. QED  BY <1>8, <1>9

\* The list that a transfer uses.
ListOf(f) == IF drv[f].ch = DataCh(f) THEN Body(drv[f].job) ELSE OneList(MetaUnits)

\* Only the data of an encrypted page has the descriptor in front.
LEMMA ListUsed ==
    ASSUME StorageInv, NEW f \in FMIS, drv[f].pc = "start"
    PROVE  /\ List(drv[f].ch) = ListOf(f)
           /\ Plain(drv[f].ch) <=> ~(drv[f].job.crypt /\ drv[f].ch = DataCh(f))
<1> DEFINE d == drv[f]
           ch == d.ch
           job == d.job
<1>1. /\ ListsOk(f, d, segs[DataCh(f)], segs[MetaCh(f)])
      /\ ChannelOk(f, d, cdma[ch], segs[ch])
  BY DEF StorageInv, DriverOk
<1>2. /\ ch \in {DataCh(f), MetaCh(f)} /\ job \in Jobs
      /\ segs[DataCh(f)] = SegList(job, Sizes(job))
      /\ segs[MetaCh(f)] = SegList([job EXCEPT !.crypt = FALSE], <<MetaUnits>>)
  BY <1>1 DEF ListsOk
<1>3. cdma[ch].dmaSegment = segs[ch][1]
  BY <1>1 DEF ChannelOk, Loading
<1>4. PageUnits \in Nat /\ MetaUnits \in Nat /\ job.split \in 1 .. PageUnits
      /\ job.crypt \in BOOLEAN
  BY <1>2, JobFacts, NandAssumption
<1>5. /\ OneList(MetaUnits)[1] = Data(MetaUnits, 0)
      /\ \E k \in Nat : Body(job)[1] = Data(k, 0)
  BY <1>4 DEF OneList, TwoList, Body
<1>6. "DATA" \in OneList(MetaUnits)[1].flags /\ "DATA" \in Body(job)[1].flags
  BY <1>4, <1>5, DescriptorFacts
<1>7. CASE ch = MetaCh(f)
  <2>1. segs[ch] = OneList(MetaUnits) /\ ch # DataCh(f)
    BY <1>2, <1>7, JobLists, ChannelFacts
  <2>2. Plain(ch)
    BY <2>1, <1>3, <1>6 DEF Plain
  <2>. QED  BY <2>1, <2>2 DEF List, ListOf
<1>8. CASE ch = DataCh(f) /\ ~job.crypt
  <2>1. segs[ch] = Body(job)
    BY <1>2, <1>8, JobLists
  <2>2. Plain(ch)
    BY <2>1, <1>3, <1>6 DEF Plain
  <2>. QED  BY <2>1, <2>2, <1>8 DEF List, ListOf
<1>9. CASE ch = DataCh(f) /\ job.crypt
  <2>1. segs[ch] = <<NoSeg>> \o Body(job)
    BY <1>2, <1>9, JobLists
  <2>2. Tail(segs[ch]) = Body(job) /\ segs[ch][1] = NoSeg
    BY <2>1, <1>2, Behind, JobLists, DescriptorFacts
  <2>3. ~Plain(ch)
    BY <2>2, <1>3, DescriptorFacts DEF Plain
  <2>. QED  BY <2>2, <2>3, <1>9 DEF List, ListOf
<1>. QED  BY <1>2, <1>4, <1>7, <1>8, <1>9

\* The transfer asks for all of it, and puts it into place.
LEMMA ListUse ==
    ASSUME StorageInv, NEW f \in FMIS, drv[f].pc = "start"
    PROVE  /\ Asked(ListOf(f), Units(f)) = Units(f)
           /\ \A m, out :
                 DOMAIN m \subseteq Nat /\ DOMAIN out = 1 .. Units(f) =>
                     \A a \in DOMAIN m :
                         Filled(m, ListOf(f), out)[a]
                         = IF a \in 1 .. Units(f) THEN out[a] ELSE m[a]
<1> DEFINE d == drv[f]
           job == d.job
<1>1. job \in Jobs
  BY DEF StorageInv, DriverOk, ListsOk
<1>2. PageUnits \in Nat \ {0} /\ MetaUnits \in Nat \ {0} /\ job.split \in 1 .. PageUnits
  BY <1>1, JobFacts, NandAssumption
<1>3. CASE d.ch # DataCh(f)
  BY <1>2, <1>3, AskedOne, FilledOne DEF ListOf, Units
<1>4. CASE d.ch = DataCh(f) /\ job.split = PageUnits
  <2>1. ListOf(f) = OneList(PageUnits) /\ Units(f) = PageUnits
    BY <1>4 DEF ListOf, Units, Body
  <2>. QED  BY <1>2, <2>1, AskedOne, FilledOne
<1>5. CASE d.ch = DataCh(f) /\ job.split # PageUnits
  <2>1. ListOf(f) = TwoList(PageUnits, job.split) /\ Units(f) = PageUnits
    BY <1>5 DEF ListOf, Units, Body
  <2>2. job.split \in 1 .. PageUnits - 1
    BY <1>2, <1>5
  <2>. QED  BY <1>2, <2>1, <2>2, AskedTwo, FilledTwo
<1>. QED  BY <1>3, <1>4, <1>5

\* What the transfer takes from the NAND controller.
Content(f) == IF drv[f].ch = DataCh(f) THEN DataOf(drv[f].job.page, "ok")
              ELSE MetaOf(drv[f].job.page, "ok")

\* The channel is connected to the buffer that holds it, and reads all of it;
\* no unit of it is a zero, so that an encrypted page is decrypted.
LEMMA Taken ==
    ASSUME StorageInv, NEW f \in FMIS, drv[f].pc = "start"
    PROVE  /\ cdma[drv[f].ch].creg = Port(f) /\ cdma[drv[f].ch].size = Units(f)
           /\ nand[f][Port(f)[2]] = Loaded(Content(f))
           /\ InBuf(drv[f].ch) = Content(f)
           /\ DOMAIN Content(f) = 1 .. Units(f)
           /\ \A k \in 1 .. Units(f) : Content(f)[k] \in Memories /\ Content(f)[k] # Zero
<1> DEFINE d == drv[f]
           ch == d.ch
           page == d.job.page
           n == Units(f)
           x == Content(f)
<1>1. /\ nand[f] \in Nands /\ d \in Drivers /\ BufsOk(f, d, nand[f])
      /\ ListsOk(f, d, segs[DataCh(f)], segs[MetaCh(f)])
      /\ ChannelOk(f, d, cdma[ch], segs[ch])
  BY DEF StorageInv, DriverOk, Types
<1>2. ch \in {DataCh(f), MetaCh(f)} /\ d.job \in Jobs
  BY <1>1 DEF ListsOk
<1>3. cdma[ch].creg = Port(f) /\ cdma[ch].size = n
  BY <1>1 DEF ChannelOk, Loading, Port, Units
<1>4. page \in Pages /\ n \in Nat
  BY <1>2, JobFacts, NandAssumption DEF Units
<1>5. n \in Nat /\ x \in Seq(Memories) /\ Len(x) = n /\ DOMAIN x = 1 .. n
  <2>1. "ok" \in Outcomes
    BY DEF Outcomes
  <2>2. x \in Seq(Memories) /\ Len(x) = n
    BY <1>4, <2>1, PageTypes DEF Content, Units
  <2>. QED  BY <1>4, <2>2
<1>6. \A k \in 1 .. n : x[k] \in Memories /\ x[k] # Zero
  <2>1. ASSUME NEW k \in 1 .. n PROVE x[k].off # 0
    <3>1. /\ ch = DataCh(f) => x[k] = Unit(page, k)
          /\ ch # DataCh(f) => x[k] = Unit(page, PageUnits + k)
      BY DEF Content, DataOf, MetaOf, Units
    <3>2. k # 0 /\ PageUnits + k # 0
      BY <1>4, NandAssumption
    <3>. QED  BY <3>1, <3>2 DEF Unit
  <2>2. Zero.off = 0
    BY DEF Zero
  <2>. QED  BY <2>1, <2>2, <1>5
<1>7. nand[f][Port(f)[2]] = Loaded(x)
  <2>1. CASE ch = DataCh(f)
    BY <1>1, <2>1 DEF BufsOk, Loading, Port, Content, Nands
  <2>2. CASE ch # DataCh(f)
    BY <1>1, <2>2 DEF BufsOk, Loading, Port, Content, Nands
  <2>. QED  BY <2>1, <2>2
<1>8. Port(f)[1] = f
  BY DEF Port
<1>9. InBuf(ch) = [k \in 1 .. n |-> IF k <= n THEN Read(Loaded(x), n)[k] ELSE Zero]
  <2>1. Asked(List(ch), cdma[ch].size) = n
    BY <1>3, ListUsed, ListUse
  <2>. QED  BY <2>1, <1>3, <1>7, <1>8 DEF InBuf
<1>10. \A k \in 1 .. n : Read(Loaded(x), n)[k] = x[k]
  <2>1. Loaded(x).data = x /\ Loaded(x).read = 0
    BY DEF Loaded
  <2> HIDE DEF x, n
  <2>. QED  BY <1>5, <2>1 DEF Read, Written
<1> HIDE DEF x, n
<1>11. InBuf(ch) = x
  <2>1. InBuf(ch) = [k \in 1 .. n |-> x[k]]
    BY <1>5, <1>9, <1>10
  <2>. QED  BY <2>1, <1>5
<1>. QED  BY <1>3, <1>5, <1>6, <1>7, <1>11 DEF x, n

\* What it puts into memory.
LEMMA Delivered ==
    ASSUME StorageInv, NEW f \in FMIS, drv[f].pc = "start"
    PROVE  LET out == OutBuf(drv[f].ch)
           IN  /\ DOMAIN out = 1 .. Units(f)
               /\ \A k \in 1 .. Units(f) : out[k] \in Memories
               /\ drv[f].ch = DataCh(f) =>
                     \A k \in 1 .. PageUnits : out[k] = Expected(drv[f].job, NandKey)[k]
               /\ drv[f].ch # DataCh(f) =>
                     \A k \in 1 .. MetaUnits : out[k] = Unit(drv[f].job.page, PageUnits + k)
<1> DEFINE d == drv[f]
           ch == d.ch
           n == Units(f)
           x == Content(f)
           out == OutBuf(ch)
           key == SetKey(aes, aes.custkey).decryptKey
<1>1. /\ InBuf(ch) = x /\ DOMAIN x = 1 .. n
      /\ \A k \in 1 .. n : x[k] \in Memories /\ x[k] # Zero
  BY Taken
<1>2. n \in Nat \ {0} /\ PageUnits \in Nat \ {0} /\ MetaUnits \in Nat \ {0}
  BY NandAssumption DEF Units
<1>3. d.job \in Jobs /\ d.job.crypt \in BOOLEAN
  BY JobFacts DEF StorageInv, DriverOk, ListsOk
<1>4. Crypts(ch) <=> d.job.crypt /\ ch = DataCh(f)
  <2>1. 1 \in 1 .. n
    BY <1>2
  <2>. QED  BY <1>1, <2>1, ListUsed DEF Crypts
<1>5. out = [k \in 1 .. n |-> IF Crypts(ch) THEN Decrypted(x[k], key) ELSE x[k]]
  BY <1>1 DEF OutBuf
<1>6. Crypts(ch) => key = NandKey
  <2>1. KeyOk(f, d, lock, aes) /\ aes \in Engines
    BY DEF StorageInv, DriverOk, Types
  <2>2. Crypts(ch) => aes.keyLen = 1 /\ aes.custkey = NandKey
    BY <2>1, <1>4 DEF KeyOk
  <2>. QED  BY <2>1, <2>2 DEF SetKey, Engines
<1>7. NandKey \in Schedules /\ NandKey # Raw
  BY StorageAssumption DEF Schedules, NandKey, Raw
<1>8. \A k \in 1 .. n : x[k] = IF ch = DataCh(f) THEN Unit(d.job.page, k)
                               ELSE Unit(d.job.page, PageUnits + k)
  BY DEF Content, DataOf, MetaOf, Units
<1>9. n = IF ch = DataCh(f) THEN PageUnits ELSE MetaUnits
  BY DEF Units
<1> HIDE DEF x, out, n, key
<1>10. DOMAIN out = 1 .. n
  BY <1>5
<1>11. \A k \in 1 .. n : out[k] = IF Crypts(ch) THEN Decrypted(x[k], NandKey) ELSE x[k]
  BY <1>5, <1>6
<1>12. \A k \in 1 .. n : out[k] \in Memories
  <2>1. \A u \in Memories : Decrypted(u, NandKey) \in Memories
    BY <1>7 DEF Decrypted, Memories
  <2>. QED  BY <2>1, <1>1, <1>11
<1>13. ASSUME ch = DataCh(f), NEW k \in 1 .. PageUnits
       PROVE  out[k] = Expected(d.job, NandKey)[k]
  <2>1. Expected(d.job, NandKey)[k]
        = Decrypted(Unit(d.job.page, k), IF d.job.crypt THEN NandKey ELSE Raw)
    BY DEF Expected
  <2>2. out[k] = IF d.job.crypt THEN Decrypted(Unit(d.job.page, k), NandKey)
                 ELSE Unit(d.job.page, k)
    BY <1>4, <1>8, <1>9, <1>11, <1>13
  <2>3. Decrypted(Unit(d.job.page, k), Raw) = Unit(d.job.page, k)
    BY DEF Decrypted, Unit
  <2>. QED  BY <2>1, <2>2, <2>3, <1>3
<1>14. ASSUME ch # DataCh(f), NEW k \in 1 .. MetaUnits
       PROVE  out[k] = Unit(d.job.page, PageUnits + k)
  BY <1>4, <1>8, <1>9, <1>11, <1>14
<1>. QED  BY <1>10, <1>12, <1>13, <1>14 DEF out, n

-----------------------------------------------------------------------------
(* The DMA controller. *)

\* A driver begins with a page.
LEMMA BeginKeeps ==
    ASSUME StorageInv, NEW f \in FMIS, NEW job \in Jobs, Begin(f, job)
    PROVE  StorageInv'
<1> DEFINE e == [pc |-> "clear", job |-> job, ch |-> DataCh(f), left |-> EccStages]
           s == SegList(job, Sizes(job))
           t == SegList([job EXCEPT !.crypt = FALSE], <<MetaUnits>>)
<1>1. s \in Seq(Segments) /\ t \in Seq(Segments)
  BY JobLists
<1> HIDE DEF s, t
<1>2. /\ drv' = [drv EXCEPT ![f] = e]
      /\ segs' = [segs EXCEPT ![DataCh(f)] = s, ![MetaCh(f)] = t]
      /\ UNCHANGED <<nand, cdma, aes, irqs, line, mem, lock, task>>
  BY DEF Begin, s, t
<1>3. e \in Drivers
  BY ChannelFacts, NandAssumption DEF Drivers, Steps
<1>4. Types'
  BY <1>1, <1>2, <1>3, ChannelFacts DEF StorageInv, Types
<1>5. drv'[f] = e /\ segs'[DataCh(f)] = s /\ segs'[MetaCh(f)] = t
  BY <1>2, ChannelFacts DEF StorageInv, Types
<1>6. \A g \in FMIS \ {f} : SameFor(g)
  BY <1>2, ChannelFacts DEF StorageInv, Types, SameFor
<1>7. e.pc = "clear" /\ e.job = job /\ e.ch = DataCh(f) /\ e.left = EccStages
  OBVIOUS
<1> HIDE DEF e
<1>8. /\ NandOk(e, nand[f]) /\ BufsOk(f, e, nand[f])
      /\ ChannelOk(f, e, cdma[e.ch], segs'[e.ch])
      /\ MemOk(f, e, mem[DataCh(f)], mem[MetaCh(f)])
      /\ KeyOk(f, e, lock, aes)
  BY <1>7, ChannelFacts DEF NandOk, BufsOk, ChannelOk, MemOk, KeyOk, Clearing, Loading
<1>9. ListsOk(f, e, s, t)
  BY <1>7, ChannelFacts DEF ListsOk, Loading, s, t
<1>10. DriverOk(f)'
  BY <1>2, <1>5, <1>8, <1>9 DEF DriverOk
<1>11. (DmaLineExact /\ TaskOk /\ EngineKeyRight)'
  BY <1>2 DEF StorageInv, DmaLineExact, TaskOk, EngineKeyRight
<1>. QED  BY <1>4, <1>6, <1>10, <1>11, StepOfDriver

\* A step of driver f that loads a register of its channel.
LEMMA RegisterOnly ==
    ASSUME StorageInv, NEW f \in FMIS, NEW STATE c, NEW STATE e,
           c \in Cdmas, e \in Drivers,
           cdma' = [cdma EXCEPT ![drv[f].ch] = c],
           drv' = [drv EXCEPT ![f] = e],
           UNCHANGED <<nand, aes, irqs, line, segs, mem, lock, task>>,
           c.done = cdma[drv[f].ch].done, c.mstatus = cdma[drv[f].ch].mstatus,
           e.job = drv[f].job, e.ch = drv[f].ch,
           drv[f].pc \in Loading, e.pc \in Loading,
           ChannelOk(f, e, c, segs[drv[f].ch]), KeyOk(f, e, lock, aes)
    PROVE  StorageInv'
<1> DEFINE d == drv[f]
           ch == d.ch
<1>1. /\ DriverOk(f) /\ ch \in {DataCh(f), MetaCh(f)} /\ ch \in Channels
  BY ChannelFacts DEF StorageInv, DriverOk, ListsOk
<1>2. Types'
  BY <1>1 DEF StorageInv, Types
<1>3. drv'[f] = e /\ cdma'[ch] = c
  BY <1>1 DEF StorageInv, Types
<1>4. \A g \in FMIS \ {f} : SameFor(g)
  BY <1>1, ChannelFacts DEF StorageInv, Types, SameFor
<1>5. NandOk(e, nand[f])
  BY DEF NandOk, Loading, Clearing
<1>6. BufsOk(f, e, nand[f])
  <2>1. BufsOk(f, d, nand[f]) /\ d.pc # "wait" /\ e.pc # "wait"
    BY <1>1 DEF DriverOk, Loading
  <2>. QED  BY <2>1 DEF BufsOk
<1>7. ListsOk(f, e, segs[DataCh(f)], segs[MetaCh(f)])
  <2>1. ListsOk(f, d, segs[DataCh(f)], segs[MetaCh(f)]) /\ d.pc # "rest"
        /\ e.pc # "done"
    BY <1>1 DEF DriverOk, Loading
  <2>. QED  BY <2>1 DEF ListsOk
<1>8. MemOk(f, e, mem[DataCh(f)], mem[MetaCh(f)])
  <2>1. /\ MemOk(f, d, mem[DataCh(f)], mem[MetaCh(f)])
        /\ d.pc \notin {"wait", "done"} /\ e.pc \notin {"wait", "done"}
    BY <1>1 DEF DriverOk, Loading
  <2>. QED  BY <2>1 DEF MemOk, DataThere, MetaThere
<1>9. DriverOk(f)'
  BY <1>3, <1>5, <1>6, <1>7, <1>8 DEF DriverOk
<1>10. DmaLineExact'
  <2>1. \A x \in Channels : cdma'[x].done = cdma[x].done /\ cdma'[x].mstatus = cdma[x].mstatus
    BY <1>1 DEF StorageInv, Types
  <2>. QED  BY <2>1 DEF StorageInv, DmaLineExact
<1>11. (TaskOk /\ EngineKeyRight)'
  BY DEF StorageInv, TaskOk, EngineKeyRight
<1>. QED  BY <1>2, <1>4, <1>9, <1>10, <1>11, StepOfDriver

\* The registers of the channel.
LEMMA ProgramKeeps ==
    ASSUME StorageInv, NEW f \in FMIS, Program(f)
    PROVE  StorageInv'
<1> DEFINE d == drv[f]
           ch == d.ch
           old == cdma[ch]
<1>1. /\ d \in Drivers /\ old \in Cdmas /\ ch \in {DataCh(f), MetaCh(f)}
      /\ ch \in Channels
      /\ ListsOk(f, d, segs[DataCh(f)], segs[MetaCh(f)])
      /\ ChannelOk(f, d, old, segs[ch])
  <2>1. /\ DriverOk(f) /\ Types
    BY DEF StorageInv
  <2>2. ch \in {DataCh(f), MetaCh(f)}
    BY <2>1 DEF DriverOk, ListsOk
  <2>3. ch \in Channels
    BY <2>2, ChannelFacts
  <2>4. d \in Drivers /\ old \in Cdmas
    BY <2>1, <2>3 DEF Types
  <2>. QED  BY <2>1, <2>2, <2>3, <2>4 DEF DriverOk
<1>2. CASE DmaStep(f, "port", WriteCreg(drv[f].ch, Port(f)), "size")
  <2> DEFINE c == [old EXCEPT !.creg = Port(f)]
             e == [d EXCEPT !.pc = "size"]
  <2>1. /\ d.pc = "port" /\ cdma' = [cdma EXCEPT ![ch] = c]
        /\ drv' = [drv EXCEPT ![f] = e]
        /\ UNCHANGED <<nand, aes, irqs, line, segs, mem, lock, task>>
    BY <1>1, <1>2 DEF DmaStep, At, Goto, WriteCreg
  <2>2. c \in Cdmas /\ c.creg = Port(f) /\ c.done = old.done /\ c.mstatus = old.mstatus
    BY <1>1 DEF Cdmas, Port, Ports
  <2>3. e \in Drivers /\ e.pc = "size" /\ e.job = d.job /\ e.ch = d.ch
    BY <1>1 DEF Drivers, Steps, Loading
  <2> HIDE DEF c, e
  <2>4. ChannelOk(f, e, c, segs[ch]) /\ KeyOk(f, e, lock, aes)
    BY <2>2, <2>3 DEF ChannelOk, KeyOk, Loading, Port
  <2>. QED  BY <2>1, <2>2, <2>3, <2>4, RegisterOnly DEF Loading
<1>3. CASE DmaStep(f, "size", WriteSize(drv[f].ch, Units(f)), "list")
  <2> DEFINE c == [old EXCEPT !.size = Units(f)]
             e == [d EXCEPT !.pc = "list"]
  <2>1. /\ d.pc = "size" /\ cdma' = [cdma EXCEPT ![ch] = c]
        /\ drv' = [drv EXCEPT ![f] = e]
        /\ UNCHANGED <<nand, aes, irqs, line, segs, mem, lock, task>>
    BY <1>1, <1>3 DEF DmaStep, At, Goto, WriteSize
  <2>2. Units(f) \in Nat
    BY NandAssumption DEF Units
  <2>3. c \in Cdmas /\ c.creg = old.creg /\ c.size = Units(f)
        /\ c.done = old.done /\ c.mstatus = old.mstatus
    BY <1>1, <2>2 DEF Cdmas
  <2>4. e \in Drivers /\ e.pc = "list" /\ e.job = d.job /\ e.ch = d.ch
    BY <1>1 DEF Drivers, Steps, Loading
  <2> HIDE DEF c, e
  <2>5. ChannelOk(f, e, c, segs[ch]) /\ KeyOk(f, e, lock, aes)
    BY <1>1, <2>1, <2>3, <2>4 DEF ChannelOk, KeyOk, Loading, Units
  <2>. QED  BY <2>1, <2>3, <2>4, <2>5, RegisterOnly DEF Loading
<1>4. CASE DmaStep(f, "list", WriteSegptr(drv[f].ch),
                   IF Crypt(f) THEN "lock" ELSE "start")
  <2> DEFINE c == [old EXCEPT !.dmaSegment = segs[ch][1]]
             e == [d EXCEPT !.pc = IF Crypt(f) THEN "lock" ELSE "start"]
  <2>1. /\ d.pc = "list" /\ cdma' = [cdma EXCEPT ![ch] = c]
        /\ drv' = [drv EXCEPT ![f] = e]
        /\ UNCHANGED <<nand, aes, irqs, line, segs, mem, lock, task>>
    BY <1>1, <1>4 DEF DmaStep, At, Goto, WriteSegptr
  <2>2. segs[ch] \in Seq(Segments) /\ Len(segs[ch]) > 0
    BY <1>1, <2>1, JobLists DEF ListsOk
  <2>3. segs[ch][1] \in Segments
    BY <2>2
  <2>4. c \in Cdmas /\ c.creg = old.creg /\ c.size = old.size
        /\ c.dmaSegment = segs[ch][1]
        /\ c.done = old.done /\ c.mstatus = old.mstatus
    BY <1>1, <2>3 DEF Cdmas
  <2>5. e \in Drivers /\ e.job = d.job /\ e.ch = d.ch
        /\ e.pc = IF Crypt(f) THEN "lock" ELSE "start"
    BY <1>1 DEF Drivers, Steps, Loading
  <2> HIDE DEF c, e
  <2>6. ChannelOk(f, e, c, segs[ch])
    BY <1>1, <2>1, <2>4, <2>5 DEF ChannelOk, Loading
  <2>7. KeyOk(f, e, lock, aes)
    BY <2>5 DEF KeyOk, Crypt
  <2>. QED  BY <2>1, <2>4, <2>5, <2>6, <2>7, RegisterOnly DEF Loading
<1>. QED  BY <1>2, <1>3, <1>4 DEF Program

\* A step of driver f that touches the lock and the engine only, while no
\* other driver and not the task has the lock.
LEMMA EngineOnly ==
    ASSUME StorageInv, NEW f \in FMIS, NEW STATE e, e \in Drivers,
           drv' = [drv EXCEPT ![f] = e],
           UNCHANGED <<nand, cdma, irqs, line, segs, mem, task>>,
           lock \in {NoOne, f}, lock' = f, aes' \in Engines,
           e.job = drv[f].job, e.ch = drv[f].ch,
           drv[f].pc \in {"lock", "setup", "key"}, e.pc \in {"setup", "key", "start"},
           KeyOk(f, e, f, aes')
    PROVE  StorageInv'
<1> DEFINE d == drv[f]
           ch == d.ch
<1>1. DriverOk(f) /\ ch \in {DataCh(f), MetaCh(f)} /\ ch \in Channels
  BY ChannelFacts DEF StorageInv, DriverOk, ListsOk
<1>2. Types' /\ drv'[f] = e
  BY DEF StorageInv, Types
<1>3. \A g \in FMIS \ {f} : SameFor(g)
  BY ChannelFacts DEF StorageInv, Types, SameFor
<1>4. NandOk(e, nand[f])
  BY DEF NandOk, Clearing
<1>5. BufsOk(f, e, nand[f])
  BY <1>1 DEF DriverOk, BufsOk, Loading
<1>6. ListsOk(f, e, segs[DataCh(f)], segs[MetaCh(f)])
  BY <1>1 DEF DriverOk, ListsOk, Loading
<1>7. ChannelOk(f, e, cdma[ch], segs[ch])
  BY <1>1 DEF DriverOk, ChannelOk, Loading
<1>8. MemOk(f, e, mem[DataCh(f)], mem[MetaCh(f)])
  BY <1>1 DEF DriverOk, MemOk, DataThere, MetaThere, Loading
<1>9. DriverOk(f)'
  BY <1>2, <1>4, <1>5, <1>6, <1>7, <1>8 DEF DriverOk
<1>10. DmaLineExact' /\ EngineKeyRight'
  BY DEF StorageInv, DmaLineExact, EngineKeyRight
<1>11. TaskOk'
  <2>1. lock # TheTask
    BY ChannelFacts DEF NoOne, TheTask
  <2>. QED  BY <2>1 DEF StorageInv, TaskOk
<1>. QED  BY <1>2, <1>3, <1>9, <1>10, <1>11, StepOfDriver

\* The lock, and the key under it.
LEMMA KeyKeeps ==
    ASSUME StorageInv, NEW f \in FMIS, Key(f)
    PROVE  StorageInv'
<1> DEFINE d == drv[f]
<1>1. d \in Drivers /\ aes \in Engines /\ KeyOk(f, d, lock, aes)
  BY DEF StorageInv, Types, DriverOk
<1>2. CASE /\ At(f, "lock") /\ lock = NoOne /\ lock' = f /\ Goto(f, "setup")
           /\ UNCHANGED <<nand, cdmaVars, task>>
  <2> DEFINE e == [d EXCEPT !.pc = "setup"]
  <2>1. /\ d.pc = "lock" /\ drv' = [drv EXCEPT ![f] = e] /\ aes' = aes
        /\ UNCHANGED <<nand, cdma, irqs, line, segs, mem, task>>
    BY <1>1, <1>2 DEF At, Goto, cdmaVars
  <2>2. e \in Drivers /\ e.pc = "setup" /\ e.job = d.job /\ e.ch = d.ch
    BY <1>1 DEF Drivers, Steps, Loading
  <2> HIDE DEF e
  <2>3. KeyOk(f, e, f, aes')
    BY <1>1, <2>1, <2>2 DEF KeyOk
  <2>. QED  BY <1>1, <1>2, <2>1, <2>2, <2>3, EngineOnly
<1>3. CASE DmaStep(f, "setup", WriteAesSetup("Custom"), "key")
  <2> DEFINE e == [d EXCEPT !.pc = "key"]
  <2>1. /\ d.pc = "setup" /\ drv' = [drv EXCEPT ![f] = e]
        /\ aes' = [aes EXCEPT !.keyType = "Custom", !.keyLen = 1] /\ lock' = lock
        /\ UNCHANGED <<nand, cdma, irqs, line, segs, mem, task>>
    BY <1>1, <1>3 DEF DmaStep, At, Goto, WriteAesSetup
  <2>2. e \in Drivers /\ e.pc = "key" /\ e.job = d.job /\ e.ch = d.ch
    BY <1>1 DEF Drivers, Steps, Loading
  <2>3. aes' \in Engines /\ aes'.keyLen = 1
    BY <1>1, <2>1 DEF Engines, KeyTypes
  <2> HIDE DEF e
  <2>4. KeyOk(f, e, f, aes') /\ lock = f
    BY <1>1, <2>1, <2>2, <2>3 DEF KeyOk
  <2>. QED  BY <2>1, <2>2, <2>3, <2>4, EngineOnly
<1>4. CASE DmaStep(f, "key", WriteAesKey(NandKey), "start")
  <2> DEFINE e == [d EXCEPT !.pc = "start"]
  <2>1. /\ d.pc = "key" /\ drv' = [drv EXCEPT ![f] = e]
        /\ aes' = [aes EXCEPT !.custkey = NandKey] /\ lock' = lock
        /\ UNCHANGED <<nand, cdma, irqs, line, segs, mem, task>>
    BY <1>1, <1>4 DEF DmaStep, At, Goto, WriteAesKey
  <2>2. e \in Drivers /\ e.pc = "start" /\ e.job = d.job /\ e.ch = d.ch
    BY <1>1 DEF Drivers, Steps, Loading
  <2>3. aes' \in Engines /\ aes'.keyLen = aes.keyLen /\ aes'.custkey = NandKey
    BY <1>1, <2>1, StorageAssumption DEF Engines
  <2> HIDE DEF e
  <2>4. KeyOk(f, e, f, aes') /\ lock = f
    BY <1>1, <2>1, <2>2, <2>3 DEF KeyOk
  <2>. QED  BY <2>1, <2>2, <2>3, <2>4, EngineOnly
<1>. QED  BY <1>2, <1>3, <1>4 DEF Key

\* The transfer.
LEMMA StartKeeps ==
    ASSUME StorageInv, NEW f \in FMIS, Start(f)
    PROVE  StorageInv'
<1> DEFINE d == drv[f]
           ch == d.ch
           n == nand[f]
           u == Units(f)
           b == Port(f)[2]
           m == [n EXCEPT ![b] = AfterBytes(n[b], u)]
           e == [d EXCEPT !.pc = "wait"]
           c == [cdma[ch] EXCEPT !.size = 0, !.done = TRUE, !.mstatus = TRUE]
           filled == Filled(mem[ch], List(ch), OutBuf(ch))
<1>1. /\ Types /\ DriverOk(f) /\ n \in Nands /\ d \in Drivers /\ d.pc = "start"
  BY DEF StorageInv, Types, Start, At
<1>2. /\ ch \in {DataCh(f), MetaCh(f)} /\ ch \in Channels /\ d.job \in Jobs
      /\ cdma[ch] \in Cdmas /\ mem[ch] \in [Memory -> Memories]
      /\ DataCh(f) # MetaCh(f)
  <2>1. ch \in {DataCh(f), MetaCh(f)} /\ d.job \in Jobs
    BY <1>1 DEF DriverOk, ListsOk
  <2>2. ch \in Channels /\ DataCh(f) # MetaCh(f)
    BY <2>1, ChannelFacts
  <2>. QED  BY <1>1, <2>1, <2>2 DEF Types
<1>3. /\ Port(f) = <<f, b>> /\ b = IF ch = DataCh(f) THEN "buf0" ELSE "buf1"
  BY DEF Port
<1>4. cdma[ch].creg = Port(f) /\ Asked(List(ch), cdma[ch].size) = u
  BY <1>1, Taken, ListUsed, ListUse
<1>5. /\ nand' = [nand EXCEPT ![f] = m] /\ mem' = [mem EXCEPT ![ch] = filled]
      /\ cdma' = [cdma EXCEPT ![ch] = c] /\ drv' = [drv EXCEPT ![f] = e]
      /\ line' = [line EXCEPT ![irqs][ch] = TRUE]
      /\ aes' = (IF Crypts(ch) THEN SetKey(aes, aes.custkey) ELSE aes)
      /\ lock' = (IF lock = f THEN NoOne ELSE lock)
      /\ UNCHANGED <<irqs, segs, task>>
  <2>1. cdma[ch].creg[1] = f /\ cdma[ch].creg[2] = b
    BY <1>3, <1>4
  <2>. QED  BY <1>1, <1>2, <1>4, <2>1 DEF Start, ReadNand, Goto
<1>6. u \in Nat /\ u <= PageUnits + MetaUnits
  BY NandAssumption DEF Units
<1>7. /\ m \in Nands
      /\ ch = DataCh(f) => m.buf1 = n.buf1
  <2>1. n.buf0 \in [data : Seq(Memories), read : Nat]
        /\ n.buf1 \in [data : Seq(Memories), read : Nat]
    BY <1>1 DEF Nands, Buffers
  <2>2. AfterBytes(n.buf0, u) \in Buffers /\ AfterBytes(n.buf1, u) \in Buffers
    BY <2>1, <1>6, BufferKeeps DEF Buffers
  <2>3. CASE b = "buf0"
    BY <1>1, <2>2, <2>3 DEF Nands
  <2>4. CASE b = "buf1"
    BY <1>1, <1>3, <2>2, <2>4 DEF Nands
  <2>. QED  BY <1>3, <2>3, <2>4
<1>8. e \in Drivers /\ e.pc = "wait" /\ e.job = d.job /\ e.ch = ch
  BY <1>1 DEF Drivers, Steps
<1>9. c \in Cdmas /\ c.done = TRUE /\ c.mstatus = TRUE
  BY <1>2 DEF Cdmas
<1>10. /\ DOMAIN OutBuf(ch) = 1 .. u
       /\ \A k \in 1 .. u : OutBuf(ch)[k] \in Memories
  BY <1>1, Delivered
<1>11. /\ DOMAIN mem[ch] = Memory /\ Memory \subseteq Nat /\ 1 .. u \subseteq Memory
       /\ PageUnits \in Nat /\ MetaUnits \in Nat
  BY <1>2, <1>6, NandAssumption DEF Memory
<1>12. \A a \in Memory : filled[a] = IF a \in 1 .. u THEN OutBuf(ch)[a] ELSE mem[ch][a]
  <2>1. List(ch) = ListOf(f)
    BY <1>1, ListUsed
  <2>2. \A x, out :
           DOMAIN x \subseteq Nat /\ DOMAIN out = 1 .. u =>
               \A a \in DOMAIN x : Filled(x, ListOf(f), out)[a]
                                   = IF a \in 1 .. u THEN out[a] ELSE x[a]
    BY <1>1, ListUse
  <2> HIDE DEF u
  <2>3. \A a \in DOMAIN mem[ch] :
           Filled(mem[ch], ListOf(f), OutBuf(ch))[a]
           = IF a \in 1 .. u THEN OutBuf(ch)[a] ELSE mem[ch][a]
    BY <1>10, <1>11, <2>2
  <2>. QED  BY <1>11, <2>1, <2>3
<1>13. DOMAIN filled = Memory /\ filled = [a \in Memory |-> filled[a]]
  BY <1>11 DEF Filled
<1> HIDE DEF filled, m, e, c, u
<1>14. filled \in [Memory -> Memories]
  <2>1. \A a \in Memory : filled[a] \in Memories
    BY <1>2, <1>10, <1>12
  <2>. QED  BY <1>13, <2>1
<1>15. /\ aes' \in Engines /\ aes'.keyLen = aes.keyLen /\ aes'.custkey = aes.custkey
       /\ aes'.keyType = aes.keyType
  <2>1. aes \in Engines
    BY <1>1 DEF Types
  <2>2. SetKey(aes, aes.custkey) \in Engines
        /\ SetKey(aes, aes.custkey).keyLen = aes.keyLen
        /\ SetKey(aes, aes.custkey).custkey = aes.custkey
        /\ SetKey(aes, aes.custkey).keyType = aes.keyType
    BY <2>1 DEF SetKey, Engines, Schedules
  <2>. QED  BY <1>5, <2>1, <2>2
<1>16. Types'
  <2>1. nand' \in [FMIS -> Nands] /\ cdma' \in [Channels -> Cdmas]
    BY <1>1, <1>2, <1>5, <1>7, <1>9 DEF Types
  <2>2. mem' \in [Channels -> [Memory -> Memories]] /\ drv' \in [FMIS -> Drivers]
    BY <1>1, <1>2, <1>5, <1>8, <1>14 DEF Types
  <2>3. line' \in [Cpus -> [Channels -> BOOLEAN]] /\ irqs' \in Cpus
    BY <1>1, <1>2, <1>5 DEF Types
  <2>4. lock' \in FMIS \cup {NoOne, TheTask}
    BY <1>1, <1>5 DEF Types
  <2>. QED  BY <1>1, <1>5, <1>15, <2>1, <2>2, <2>3, <2>4 DEF Types
<1>17. /\ drv'[f] = e /\ nand'[f] = m /\ cdma'[ch] = c /\ mem'[ch] = filled
       /\ \A x \in Channels \ {ch} : mem'[x] = mem[x] /\ cdma'[x] = cdma[x]
  BY <1>1, <1>2, <1>5 DEF Types
<1>18. \A g \in FMIS \ {f} : SameFor(g)
  <2> SUFFICES ASSUME NEW g \in FMIS \ {f} PROVE SameFor(g)
    OBVIOUS
  <2>1. DataCh(g) \in Channels \ {ch} /\ MetaCh(g) \in Channels \ {ch}
    BY <1>2, ChannelFacts
  <2>2. drv'[g] = drv[g] /\ nand'[g] = nand[g]
    BY <1>1, <1>5 DEF Types
  <2>3. lock = g => lock' = g
    BY <1>5
  <2>. QED  BY <2>1, <2>2, <2>3, <1>5, <1>15, <1>17 DEF SameFor
<1>19. NandOk(e, m) /\ KeyOk(f, e, lock', aes') /\ ChannelOk(f, e, c, segs'[ch])
  BY <1>8, <1>9 DEF NandOk, KeyOk, ChannelOk, Clearing, Loading
<1>20. BufsOk(f, e, m)
  <2>1. BufsOk(f, d, n)
    BY <1>1 DEF DriverOk
  <2>2. n.buf1 = Loaded(MetaOf(d.job.page, "ok"))
    BY <1>1, <2>1 DEF BufsOk, Loading
  <2>. QED  BY <2>2, <1>7, <1>8 DEF BufsOk, Loading
<1>21. ListsOk(f, e, segs'[DataCh(f)], segs'[MetaCh(f)])
  BY <1>1, <1>5, <1>8 DEF DriverOk, ListsOk
<1>22. MemOk(f, e, mem'[DataCh(f)], mem'[MetaCh(f)])
  <2>1. CASE ch = DataCh(f)
    <3>1. u = PageUnits
      BY <2>1 DEF u, Units
    <3>2. \A i \in 1 .. PageUnits : filled[i] = Expected(d.job, NandKey)[i]
      BY <1>1, <1>11, <1>12, <2>1, <3>1, Delivered
    <3>3. DataThere(e, mem'[DataCh(f)])
      BY <3>2, <1>8, <1>17, <2>1 DEF DataThere
    <3>. QED  BY <3>3, <1>2, <1>8, <2>1 DEF MemOk
  <2>2. CASE ch = MetaCh(f)
    <3>1. u = MetaUnits /\ ch # DataCh(f)
      BY <1>2, <2>2 DEF u, Units
    <3>2. \A i \in 1 .. MetaUnits : filled[i] = Unit(d.job.page, PageUnits + i)
      BY <1>1, <1>11, <1>12, <3>1, Delivered
    <3>3. MetaThere(e, mem'[MetaCh(f)])
      BY <3>2, <1>8, <1>17, <2>2 DEF MetaThere
    <3>4. DataThere(d, mem[DataCh(f)])
      BY <1>1, <2>2 DEF DriverOk, MemOk, Loading
    <3>5. mem'[DataCh(f)] = mem[DataCh(f)]
      BY <3>1, <1>17, ChannelFacts
    <3>6. DataThere(e, mem'[DataCh(f)])
      BY <3>4, <3>5, <1>8 DEF DataThere
    <3>. QED  BY <3>3, <3>6 DEF MemOk
  <2>. QED  BY <1>2, <2>1, <2>2
<1>23. DriverOk(f)'
  BY <1>8, <1>17, <1>19, <1>20, <1>21, <1>22 DEF DriverOk
<1>24. DmaLineExact'
  <2>1. irqs \in Cpus /\ DmaLineExact
    BY <1>1 DEF StorageInv, Types
  <2>2. \A x \in Channels : line'[irqs][x] = IF x = ch THEN TRUE ELSE line[irqs][x]
    BY <1>1, <1>2, <1>5, <2>1 DEF Types
  <2>3. \A o \in Cpus \ {irqs}, x \in Channels : line'[o][x] = line[o][x]
    BY <1>1, <1>2, <1>5, <2>1 DEF Types
  <2>4. \A x \in Channels : /\ line'[irqs][x] = cdma'[x].done
                              /\ cdma'[x].mstatus = cdma'[x].done
    BY <2>1, <2>2, <1>9, <1>17 DEF DmaLineExact
  <2>5. \A x \in Channels : \A o \in Cpus \ {irqs} : ~line'[o][x]
    BY <2>1, <2>3 DEF DmaLineExact
  <2>. QED  BY <2>4, <2>5, <1>5 DEF DmaLineExact
<1>25. TaskOk' /\ EngineKeyRight'
  <2>1. lock = TheTask => lock' = TheTask
    BY <1>5, ChannelFacts
  <2>. QED  BY <2>1, <1>5, <1>15 DEF StorageInv, TaskOk, EngineKeyRight
<1>. QED  BY <1>16, <1>18, <1>23, <1>24, <1>25, StepOfDriver

\* An acknowledge lowers the line of a finished channel.
LEMMA AckFacts ==
    ASSUME Types, DmaLineExact, NEW ch \in Channels, line[irqs][ch], AckStatus(ch)
    PROVE  /\ cdma' \in [Channels -> Cdmas]
           /\ line' \in [Cpus -> [Channels -> BOOLEAN]]
           /\ \A x \in Channels \ {ch} : cdma'[x] = cdma[x]
           /\ UNCHANGED <<nand, aes, irqs, segs, mem>>
           /\ DmaLineExact'
<1> DEFINE c == [cdma[ch] EXCEPT !.done = FALSE, !.mstatus = FALSE]
<1>1. cdma[ch] \in Cdmas /\ irqs \in Cpus
  BY DEF Types
<1>2. cdma[ch].done = TRUE
  <2>1. line[irqs][ch] \in BOOLEAN
    BY <1>1 DEF Types
  <2>. QED  BY <2>1 DEF DmaLineExact
<1>3. /\ cdma' = [cdma EXCEPT ![ch] = c]
      /\ line' = [line EXCEPT ![irqs][ch] = FALSE]
      /\ UNCHANGED <<nand, aes, irqs, segs, mem>>
  <2>1. cdma' = [cdma EXCEPT ![ch].done = ~@, ![ch].mstatus = @ /\ ~cdma[ch].done]
    BY DEF AckStatus
  <2>2. (~cdma[ch].done) = FALSE /\ (cdma[ch].mstatus /\ ~cdma[ch].done) = FALSE
    BY <1>2
  <2>3. line' = [line EXCEPT ![irqs][ch] = @ /\ ~cdma[ch].done]
    BY DEF AckStatus
  <2>4. (line[irqs][ch] /\ ~cdma[ch].done) = FALSE
    BY <1>2
  <2>5. line' = [line EXCEPT ![irqs][ch] = FALSE]
    BY <2>3, <2>4, Zenon
  <2>6. cdma' = [cdma EXCEPT ![ch] = c]
    BY <2>1, <2>2, <1>1 DEF Types, Cdmas
  <2>. QED  BY <2>5, <2>6 DEF AckStatus
<1>4. c \in Cdmas /\ c.done = FALSE /\ c.mstatus = FALSE
  BY <1>1 DEF Cdmas
<1> HIDE DEF c
<1>5. cdma' \in [Channels -> Cdmas] /\ line' \in [Cpus -> [Channels -> BOOLEAN]]
  BY <1>1, <1>3, <1>4 DEF Types
<1>6. cdma'[ch] = c /\ \A x \in Channels \ {ch} : cdma'[x] = cdma[x]
  BY <1>3 DEF Types
<1>7. /\ \A x \in Channels : line'[irqs][x] = IF x = ch THEN FALSE ELSE line[irqs][x]
      /\ \A o \in Cpus \ {irqs}, x \in Channels : line'[o][x] = line[o][x]
  BY <1>1, <1>3 DEF Types
<1>8. \A x \in Channels : line'[irqs][x] = cdma'[x].done /\ cdma'[x].mstatus = cdma'[x].done
  BY <1>4, <1>6, <1>7 DEF DmaLineExact
<1>9. \A x \in Channels : \A o \in Cpus \ {irqs} : ~line'[o][x]
  BY <1>7 DEF DmaLineExact
<1>. QED  BY <1>3, <1>5, <1>6, <1>8, <1>9 DEF DmaLineExact

\* The interrupt of a transfer.
LEMMA FinishKeeps ==
    ASSUME StorageInv, NEW f \in FMIS, Finish(f)
    PROVE  StorageInv'
<1> DEFINE d == drv[f]
           ch == d.ch
           e == [d EXCEPT !.pc = IF ch = DataCh(f) THEN "port" ELSE "done",
                          !.ch = MetaCh(f)]
<1>1. Types /\ DriverOk(f) /\ DmaLineExact /\ d \in Drivers /\ d.pc = "wait"
  BY DEF StorageInv, Types, Finish, At
<1>2. ch \in {DataCh(f), MetaCh(f)} /\ d.job \in Jobs
  BY <1>1 DEF DriverOk, ListsOk
<1>3. ch \in Channels /\ DataCh(f) # MetaCh(f)
  BY <1>2, ChannelFacts
<1>4. /\ cdma' \in [Channels -> Cdmas]
      /\ line' \in [Cpus -> [Channels -> BOOLEAN]]
      /\ \A x \in Channels \ {ch} : cdma'[x] = cdma[x]
      /\ UNCHANGED <<nand, aes, irqs, segs, mem>>
      /\ DmaLineExact'
  BY <1>1, <1>3, AckFacts DEF Finish
<1>5. drv' = [drv EXCEPT ![f] = e] /\ UNCHANGED <<lock, task>>
  BY <1>1 DEF Finish, Types
<1>6. e \in Drivers /\ e.job = d.job /\ e.ch = MetaCh(f)
      /\ e.pc = IF ch = DataCh(f) THEN "port" ELSE "done"
  BY <1>1, ChannelFacts DEF Drivers, Steps, Loading
<1> HIDE DEF e
<1>7. Types' /\ drv'[f] = e
  BY <1>1, <1>4, <1>5, <1>6 DEF Types
<1>8. \A g \in FMIS \ {f} : SameFor(g)
  <2> SUFFICES ASSUME NEW g \in FMIS \ {f} PROVE SameFor(g)
    OBVIOUS
  <2>1. DataCh(g) \in Channels \ {ch} /\ MetaCh(g) \in Channels \ {ch}
    BY <1>2, ChannelFacts
  <2>2. drv'[g] = drv[g] /\ nand'[g] = nand[g]
    BY <1>1, <1>4, <1>5 DEF Types
  <2>. QED  BY <2>1, <2>2, <1>4, <1>5 DEF SameFor
<1>9. NandOk(e, nand[f]) /\ KeyOk(f, e, lock, aes) /\ ChannelOk(f, e, cdma'[e.ch], segs[e.ch])
  BY <1>6 DEF NandOk, KeyOk, ChannelOk, Clearing, Loading
<1>10. BufsOk(f, e, nand[f])
  BY <1>1, <1>3, <1>6 DEF DriverOk, BufsOk, Loading
<1>11. ListsOk(f, e, segs[DataCh(f)], segs[MetaCh(f)])
  BY <1>1, <1>6 DEF DriverOk, ListsOk, Loading
<1>12. MemOk(f, e, mem[DataCh(f)], mem[MetaCh(f)])
  <2>1. /\ DataThere(d, mem[DataCh(f)])
        /\ ch = MetaCh(f) => MetaThere(d, mem[MetaCh(f)])
    BY <1>1 DEF DriverOk, MemOk
  <2>2. /\ DataThere(e, mem[DataCh(f)])
        /\ ch = MetaCh(f) => MetaThere(e, mem[MetaCh(f)])
    BY <2>1, <1>6 DEF DataThere, MetaThere
  <2>3. e.pc \in {"wait", "done"} => ch = MetaCh(f)
    BY <1>2, <1>6
  <2>. QED  BY <2>2, <2>3 DEF MemOk
<1>13. DriverOk(f)'
  BY <1>4, <1>5, <1>7, <1>9, <1>10, <1>11, <1>12 DEF DriverOk
<1>14. TaskOk' /\ EngineKeyRight'
  BY <1>4, <1>5 DEF StorageInv, TaskOk, EngineKeyRight
<1>. QED  BY <1>4, <1>7, <1>8, <1>13, <1>14, StepOfDriver

\* Nothing is asked of a driver at rest.
LEMMA RestOk ==
    ASSUME NEW f \in FMIS, NEW n, NEW s, NEW t, NEW c, NEW m, NEW l, NEW a,
           NEW d, d.pc = "rest", d.ch = DataCh(f)
    PROVE  /\ NandOk(d, n) /\ BufsOk(f, d, n) /\ ListsOk(f, d, s, t)
           /\ ChannelOk(f, d, c, s) /\ MemOk(f, d, m, t) /\ KeyOk(f, d, l, a)
  BY ChannelFacts DEF NandOk, BufsOk, ListsOk, ChannelOk, MemOk, KeyOk, Clearing, Loading

\* A driver leaves.
LEMMA LeaveKeeps ==
    ASSUME StorageInv, NEW f \in FMIS, Leave(f)
    PROVE  StorageInv'
<1> DEFINE e == Resting(f)
<1>1. e \in Drivers /\ e.pc = "rest" /\ e.ch = DataCh(f)
  BY ChannelFacts DEF Drivers, Steps, Resting
<1> HIDE DEF e
<1>2. /\ Types /\ drv' = [drv EXCEPT ![f] = e]
      /\ segs' = [segs EXCEPT ![DataCh(f)] = <<NoSeg>>, ![MetaCh(f)] = <<NoSeg>>]
      /\ mem' = [mem EXCEPT ![DataCh(f)] = Unused, ![MetaCh(f)] = Unused]
      /\ lock' = (IF lock = f THEN NoOne ELSE lock)
      /\ UNCHANGED <<nand, cdma, aes, irqs, line, task>>
  BY DEF Leave, StorageInv, e
<1>3. Unused \in [Memory -> Memories] /\ <<NoSeg>> \in Seq(Segments)
  BY UnitFacts, DescriptorFacts DEF Unused
<1>4. /\ drv' \in [FMIS -> Drivers] /\ drv'[f] = e
      /\ segs' \in [Channels -> Seq(Segments)]
      /\ mem' \in [Channels -> [Memory -> Memories]]
  BY <1>1, <1>2, <1>3, ChannelFacts DEF Types
<1>5. Types'
  BY <1>2, <1>4 DEF Types
<1>6. \A g \in FMIS \ {f} : SameFor(g)
  <2> SUFFICES ASSUME NEW g \in FMIS \ {f} PROVE SameFor(g)
    OBVIOUS
  <2>1. /\ DataCh(g) \in Channels \ {DataCh(f), MetaCh(f)}
        /\ MetaCh(g) \in Channels \ {DataCh(f), MetaCh(f)}
    BY ChannelFacts
  <2>2. drv'[g] = drv[g]
    BY <1>2 DEF Types
  <2>3. \A x \in Channels \ {DataCh(f), MetaCh(f)} : segs'[x] = segs[x] /\ mem'[x] = mem[x]
    BY <1>2 DEF Types
  <2>. QED  BY <2>1, <2>2, <2>3, <1>2 DEF SameFor
<1>7. DriverOk(f)'
  BY <1>1, <1>4, RestOk DEF DriverOk
<1>8. (DmaLineExact /\ EngineKeyRight)'
  BY <1>2 DEF StorageInv, DmaLineExact, EngineKeyRight
<1>9. TaskOk'
  <2>1. lock = TheTask => lock' = TheTask
    BY <1>2, ChannelFacts
  <2>. QED  BY <2>1, <1>2 DEF StorageInv, TaskOk
<1>. QED  BY <1>5, <1>6, <1>7, <1>8, <1>9, StepOfDriver

\* An interrupt that nobody waits for.
LEMMA SpuriousKeeps ==
    ASSUME StorageInv, NEW f \in FMIS, Spurious(f)
    PROVE  StorageInv'
<1>1. PICK ch \in {DataCh(f), MetaCh(f)} : line[irqs][ch] /\ AckStatus(ch)
  BY DEF Spurious
<1>2. ch \in Channels /\ Types /\ DmaLineExact /\ UNCHANGED <<drv, lock, task>>
  BY ChannelFacts DEF StorageInv, Spurious
<1>3. /\ cdma' \in [Channels -> Cdmas]
      /\ line' \in [Cpus -> [Channels -> BOOLEAN]]
      /\ \A x \in Channels \ {ch} : cdma'[x] = cdma[x]
      /\ UNCHANGED <<nand, aes, irqs, segs, mem>>
      /\ DmaLineExact'
  BY <1>1, <1>2, AckFacts
<1>4. Types'
  BY <1>2, <1>3 DEF Types
<1>5. \A g \in FMIS \ {f} : SameFor(g)
  BY <1>1, <1>2, <1>3, ChannelFacts DEF SameFor
<1>6. drv'[f].pc = "rest" /\ drv'[f].ch = DataCh(f)
  BY <1>2 DEF Spurious, At, StorageInv, DriverOk, ListsOk, Loading
<1>7. DriverOk(f)'
  BY <1>6, RestOk DEF DriverOk
<1>8. TaskOk' /\ EngineKeyRight'
  BY <1>2, <1>3 DEF StorageInv, TaskOk, EngineKeyRight
<1>. QED  BY <1>3, <1>4, <1>5, <1>7, <1>8, StepOfDriver

-----------------------------------------------------------------------------
(* The AES task, the I/O processor, and the theorems. *)

\* A step of nobody's driver.
LEMMA NoDriver ==
    ASSUME StorageInv, Types', UNCHANGED <<nand, cdma, segs, mem, drv>>,
           lock \in FMIS => lock' = lock /\ aes' = aes,
           DmaLineExact', TaskOk', EngineKeyRight'
    PROVE  StorageInv'
<1>1. \A g \in FMIS : SameFor(g)
  BY DEF SameFor
<1>2. \A g \in FMIS : DriverOk(g)'
  BY <1>1, OtherDriver DEF StorageInv
<1>. QED  BY <1>2 DEF StorageInv

\* The task and the I/O processor.
LEMMA TaskKeeps ==
    ASSUME StorageInv,
           \/ \E type \in {"UID", "Custom"} : TaskLocks(type)
           \/ TaskKey \/ TaskStarts \/ StartIop
    PROVE  StorageInv'
<1>1. /\ Types /\ aes \in Engines /\ TaskOk /\ DmaLineExact /\ EngineKeyRight
      /\ task \in [pc : {"rest", "UID", "Custom", "start"}, right : BOOLEAN]
      /\ NoOne \notin FMIS /\ TheTask \notin FMIS
  BY ChannelFacts DEF StorageInv, Types
<1>2. CASE \E type \in {"UID", "Custom"} : TaskLocks(type)
  <2>1. PICK type \in {"UID", "Custom"} : TaskLocks(type)
    BY <1>2
  <2>2. /\ lock = NoOne /\ lock' = TheTask /\ task' = [task EXCEPT !.pc = type]
        /\ aes' = [aes EXCEPT !.keyType = type, !.keyLen = 1]
        /\ UNCHANGED <<nand, cdma, irqs, line, segs, mem, drv>>
    BY <2>1 DEF TaskLocks, WriteAesSetup
  <2>3. aes' \in Engines /\ aes'.keyType = type /\ aes'.keyLen = 1
    BY <1>1, <2>2 DEF Engines, KeyTypes
  <2>4. /\ task' \in [pc : {"rest", "UID", "Custom", "start"}, right : BOOLEAN]
        /\ task'.pc = type /\ task'.right = task.right
    BY <1>1, <2>2
  <2>5. Types'
    BY <1>1, <2>2, <2>3, <2>4 DEF Types
  <2>6. TaskOk' /\ DmaLineExact' /\ EngineKeyRight'
    BY <1>1, <2>2, <2>3, <2>4 DEF TaskOk, DmaLineExact, EngineKeyRight
  <2>. QED  BY <1>1, <2>2, <2>5, <2>6, NoDriver
<1>3. CASE TaskKey
  <2>1. /\ task.pc = "Custom" /\ task' = [task EXCEPT !.pc = "start"] /\ lock' = lock
        /\ aes' = [aes EXCEPT !.custkey = AppKey]
        /\ UNCHANGED <<nand, cdma, irqs, line, segs, mem, drv>>
    BY <1>3 DEF TaskKey, WriteAesKey
  <2>2. lock = TheTask /\ aes.keyType = "Custom" /\ aes.keyLen = 1
    BY <1>1, <2>1 DEF TaskOk
  <2>3. /\ aes' \in Engines /\ aes'.custkey = AppKey
        /\ aes'.keyType = "Custom" /\ aes'.keyLen = 1
    BY <1>1, <2>1, <2>2, StorageAssumption DEF Engines
  <2>4. /\ task' \in [pc : {"rest", "UID", "Custom", "start"}, right : BOOLEAN]
        /\ task'.pc = "start" /\ task'.right = task.right
    BY <1>1, <2>1
  <2>5. Types'
    BY <1>1, <2>1, <2>3, <2>4 DEF Types
  <2>6. TaskOk' /\ DmaLineExact' /\ EngineKeyRight'
    BY <1>1, <2>1, <2>2, <2>3, <2>4 DEF TaskOk, DmaLineExact, EngineKeyRight
  <2>. QED  BY <1>1, <2>1, <2>2, <2>5, <2>6, NoDriver
<1>4. CASE TaskStarts
  <2> DEFINE k == IF task.pc = "UID" THEN "uidkey" ELSE AppKey
  <2>1. /\ task.pc \in {"UID", "start"} /\ lock' = NoOne
        /\ task' = [pc |-> "rest", right |-> aes'.decryptKey = k]
        /\ aes' = [EngineKey(aes) EXCEPT !.keyLen = 0, !.keyType = "UID"]
        /\ UNCHANGED <<nand, cdma, irqs, line, segs, mem, drv>>
    BY <1>4 DEF TaskStarts, StartEngine
  <2>2. /\ lock = TheTask
        /\ task.pc = "UID" => aes.keyType = "UID"
        /\ task.pc = "start" => aes.keyType = "Custom" /\ aes.keyLen = 1
                                /\ aes.custkey = AppKey
    BY <1>1, <2>1 DEF TaskOk
  <2>3. EngineKey(aes) \in Engines /\ EngineKey(aes).decryptKey = k
    <3>1. CASE task.pc = "UID"
      BY <1>1, <2>2, <3>1 DEF EngineKey, Engines, Schedules
    <3>2. CASE task.pc = "start"
      BY <1>1, <2>2, <3>2 DEF EngineKey, SetKey, Engines, Schedules
    <3>. QED  BY <2>1, <3>1, <3>2
  <2> HIDE DEF k
  <2>4. aes' \in Engines /\ aes'.decryptKey = k
    BY <2>1, <2>3 DEF Engines, KeyTypes
  <2>5. (aes'.decryptKey = k) = TRUE
    BY <2>4
  <2>6. task' = [pc |-> "rest", right |-> TRUE]
    BY <2>1, <2>5
  <2>7. Types'
    BY <1>1, <2>1, <2>4, <2>6 DEF Types
  <2>8. TaskOk' /\ DmaLineExact' /\ EngineKeyRight'
    BY <1>1, <2>1, <2>6 DEF TaskOk, DmaLineExact, EngineKeyRight
  <2>. QED  BY <1>1, <2>1, <2>2, <2>7, <2>8, NoDriver
<1>5. CASE StartIop
  <2>1. /\ irqs = "main" /\ irqs' = "iop" /\ \A x \in Channels : ~cdma[x].done
        /\ UNCHANGED <<nand, cdma, aes, line, segs, mem, drv, lock, task>>
    BY <1>5 DEF StartIop, replaceCDMAIRQHandlers
  <2>2. Types'
    BY <1>1, <2>1 DEF Types, Cpus
  <2>3. TaskOk' /\ EngineKeyRight'
    BY <1>1, <2>1 DEF TaskOk, EngineKeyRight
  <2>4. /\ \A x \in Channels : /\ line["main"][x] = cdma[x].done
                               /\ cdma[x].mstatus = cdma[x].done
                               /\ ~line["iop"][x]
    BY <1>1, <2>1 DEF DmaLineExact, Cpus
  <2>5. \A x \in Channels : line["iop"][x] = cdma[x].done /\ ~line["main"][x]
    <3>1. \A x \in Channels : line["iop"][x] \in BOOLEAN /\ cdma[x].done \in BOOLEAN
      BY <1>1 DEF Types, Cpus, Cdmas
    <3>. QED  BY <3>1, <2>1, <2>4
  <2>6. DmaLineExact'
    BY <2>1, <2>4, <2>5 DEF DmaLineExact, Cpus
  <2>. QED  BY <2>1, <2>2, <2>3, <2>6, NoDriver
<1>. QED  BY <1>2, <1>3, <1>4, <1>5

\* The initial states.
LEMMA StorageInit ==
    ASSUME Init
    PROVE  StorageInv
<1>1. /\ EmptyBuf \in Buffers /\ EmptyBuf \in [data : Seq(Nat), read : Nat]
      /\ Unused \in [Memory -> Memories] /\ <<NoSeg>> \in Seq(Segments)
      /\ NoSeg \in Segments
  BY UnitFacts, DescriptorFacts DEF Unused, EmptyBuf, Buffers
<1>2. nand \in [FMIS -> Nands]
  BY <1>1 DEF Init, NandInit, Nands
<1>3. <<CHOOSE f \in FMIS : TRUE, "buf0">> \in Ports
  BY StorageAssumption DEF Ports
<1>4. cdma \in [Channels -> Cdmas]
  BY <1>1, <1>3 DEF Init, CdmaInit, Cdmas
<1>5. aes \in Engines
  BY DEF Init, CdmaInit, Engines, KeyTypes, Schedules
<1>6. ASSUME NEW f \in FMIS PROVE Resting(f) \in Drivers
  BY ChannelFacts DEF Drivers, Steps, Resting
<1>7. Types
  BY <1>1, <1>2, <1>4, <1>5, <1>6 DEF Types, Init, CdmaInit, Cpus
<1>8. \A f \in FMIS : drv[f].pc = "rest" /\ drv[f].ch = DataCh(f)
  BY DEF Init, Resting
<1>9. \A f \in FMIS : DriverOk(f)
  BY <1>8, RestOk DEF DriverOk
<1>10. DmaLineExact
  BY DEF Init, CdmaInit, DmaLineExact, Cpus
<1>11. TaskOk /\ EngineKeyRight
  BY DEF Init, TaskOk, EngineKeyRight
<1>. QED  BY <1>7, <1>9, <1>10, <1>11 DEF StorageInv

\* Every step keeps the invariant.
LEMMA StorageStep ==
    ASSUME StorageInv, [Next]_vars
    PROVE  StorageInv'
<1>1. CASE UNCHANGED vars
  <2>1. UNCHANGED <<nand, cdma, aes, irqs, line, segs, mem, drv, lock, task>>
    BY <1>1 DEF vars, cdmaVars
  <2>2. Types' /\ DmaLineExact' /\ TaskOk' /\ EngineKeyRight'
    BY <2>1 DEF StorageInv, Types, DmaLineExact, TaskOk, EngineKeyRight
  <2>. QED  BY <2>1, <2>2, NoDriver
<1>2. CASE Next
  <2>1. ASSUME NEW f \in FMIS, NEW job \in Jobs, Begin(f, job) PROVE StorageInv'
    BY <2>1, BeginKeeps
  <2>2. ASSUME NEW f \in FMIS, Driver(f) PROVE StorageInv'
    BY <2>2, ClearKeeps, CommandKeeps, CheckKeeps, ProgramKeeps, KeyKeeps,
       StartKeeps, FinishKeeps DEF Driver
  <2>3. ASSUME NEW f \in FMIS, Identify(f) \/ Leave(f) \/ Spurious(f) PROVE StorageInv'
    BY <2>3, IdentifyKeeps, LeaveKeeps, SpuriousKeeps
  <2>. QED  BY <1>2, <2>1, <2>2, <2>3, TaskKeeps DEF Next
<1>. QED  BY <1>1, <1>2

\* The invariant holds of every behaviour.
THEOREM StorageInvariant == Spec => []StorageInv
<1>. QED  BY StorageInit, StorageStep, PTL DEF Spec

\* The values stay what the registers, buffers and lists may hold.
THEOREM StorageTypes == Spec => []Types
<1>1. StorageInv => Types
  BY DEF StorageInv
<1>. QED  BY <1>1, StorageInvariant, PTL

\* The lines of both CPUs say exactly which channels are done
\* (S5L8930_cdma_channel_write and the switch of do_iop_run).
THEOREM LinesExact == Spec => []DmaLineExact
<1>1. StorageInv => DmaLineExact
  BY DEF StorageInv
<1>. QED  BY <1>1, StorageInvariant, PTL

\* A driver that waits for its interrupt has it, also when the I/O processor
\* took the interrupts over.
THEOREM DoneSignalled == Spec => []NoLostDone
<1>1. StorageInv => NoLostDone
  <2> SUFFICES ASSUME StorageInv, NEW f \in FMIS, drv[f].pc = "wait"
               PROVE  line[irqs][drv[f].ch]
    BY DEF NoLostDone, At
  <2>1. DriverOk(f) /\ DmaLineExact
    BY DEF StorageInv
  <2>2. drv[f].ch \in Channels /\ cdma[drv[f].ch].done
    BY <2>1, ChannelFacts DEF DriverOk, ListsOk, ChannelOk
  <2>. QED  BY <2>1, <2>2 DEF DmaLineExact
<1>. QED  BY <1>1, StorageInvariant, PTL

\* The AES engine uses the key that its task set up, whatever the NAND
\* channels do with the registers they share with it.
THEOREM EngineUsesKey == Spec => []EngineKeyRight
<1>1. StorageInv => EngineKeyRight
  BY DEF StorageInv
<1>. QED  BY <1>1, StorageInvariant, PTL

\* A page that a driver takes for good is in memory, decrypted with the right
\* key: the error words, the buffers, the two loops over the segment list and
\* the key schedule together.
THEOREM PageThere == Spec => []PageDelivered
<1>1. StorageInv => PageDelivered
  <2> SUFFICES ASSUME StorageInv, NEW f \in FMIS, drv[f].pc = "done"
               PROVE  /\ DataThere(drv[f], mem[DataCh(f)])
                      /\ MetaThere(drv[f], mem[MetaCh(f)])
    BY DEF PageDelivered, At, DataThere, MetaThere
  <2>1. DriverOk(f)
    BY DEF StorageInv
  <2>2. drv[f].ch = MetaCh(f)
    BY <2>1 DEF DriverOk, ListsOk
  <2>. QED  BY <2>1, <2>2 DEF DriverOk, MemOk
<1>. QED  BY <1>1, StorageInvariant, PTL

=============================================================================
