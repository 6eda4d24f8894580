------------------------------ MODULE Storage -------------------------------
(***************************************************************************)
(* The path from NAND to the guest's memory: the NAND controllers, the DMA *)
(* controller with its shared AES engine, the I/O processor that takes the *)
(* interrupts over, and a guest that uses them.  The guest has a driver    *)
(* thread per controller and a task that uses the AES engine; each of      *)
(* their register accesses is one action, so they interleave anywhere.     *)
(* The guest is not part of the repository: it is what the code expects of *)
(* one.  A driver clears the buffers before it uses them, looks at the     *)
(* error words, and may give a transfer up at any point; a lock keeps the  *)
(* AES task and encrypted transfers apart.                                 *)
(***************************************************************************)
EXTENDS Cdma

CONSTANTS
    JobAddrs,  \* addresses of the pages that the drivers read
    Splits     \* sizes of the first segment; a second one takes the rest

NandKey == "nandkey"
AppKey  == "appkey"
NoOne   == -1
TheTask == -2

DataCh(f) == 5 + 2 * f
MetaCh(f) == 6 + 2 * f
Memory    == 1 .. PageUnits + MetaUnits

ASSUME StorageAssumption ==
    /\ FMIS \subseteq {0, 1} /\ FMIS # {}
    /\ {DataCh(f) : f \in FMIS} \cup {MetaCh(f) : f \in FMIS} \subseteq Channels
    /\ JobAddrs \subseteq Addrs
    /\ Splits \subseteq 1 .. PageUnits
    /\ Keys = {NandKey, AppKey}

Jobs  == [page : Chips \X JobAddrs, crypt : BOOLEAN, split : Splits]
NoJob == [page |-> <<>>, crypt |-> FALSE, split |-> 0]
Sizes(job) == IF job.split = PageUnits THEN <<PageUnits>>
              ELSE <<job.split, PageUnits - job.split>>

VARIABLES
    drv,   \* each driver: its program counter, job, channel, words to read
    lock,  \* who holds the lock of the AES engine
    task   \* the AES task: its program counter, and whether the engine used
           \* its key

vars == <<nand, cdmaVars, drv, lock, task>>

-----------------------------------------------------------------------------
(* Drivers. *)

\* A list of data segments one behind the other in memory, ended by a
\* descriptor without flags; for an encrypted page behind one that holds the
\* initialisation vector.
SegList(job, sizes) ==
    LET segment(i) ==
            [flags |-> {"DATA", "BUF"}, size |-> sizes[i],
             buffer |-> IF i = 1 THEN 0 ELSE sizes[1]]
    IN  (IF job.crypt THEN <<NoSeg>> ELSE <<>>)
        \o [i \in DOMAIN sizes |-> segment(i)] \o <<NoSeg>>

Resting(f) == [pc |-> "rest", job |-> NoJob, ch |-> DataCh(f), left |-> 0]
Unused == [a \in Memory |-> Junk]

Goto(f, pc) == drv' = [drv EXCEPT ![f].pc = pc]
At(f, pc)   == drv[f].pc = pc

\* The lists are built before the channels learn of them.
Begin(f, job) ==
    /\ At(f, "rest")
    /\ drv' = [drv EXCEPT ![f] = [pc |-> "clear", job |-> job, ch |-> DataCh(f),
                                  left |-> EccStages]]
    /\ segs' = [segs EXCEPT
           ![DataCh(f)] = SegList(job, Sizes(job)),
           ![MetaCh(f)] = SegList([job EXCEPT !.crypt = FALSE], <<MetaUnits>>)]
    /\ UNCHANGED <<nand, cdma, aes, irqs, line, mem, lock, task>>

\* A register access of the NAND controller, and the next step.
NandStep(f, from, action, to) ==
    /\ At(f, from)
    /\ action
    /\ Goto(f, to)
    /\ UNCHANGED <<cdmaVars, lock, task>>

\* A register access of the DMA controller, and the next step.
DmaStep(f, from, action, to) ==
    /\ At(f, from)
    /\ action
    /\ Goto(f, to)
    /\ UNCHANGED <<lock, task>>

Clear(f) ==
    \/ NandStep(f, "clear", WriteCcmd(f), "ecc")
    \/ NandStep(f, "ecc", WriteEccbuf(f), "chip")
Select(f) ==
    \/ NandStep(f, "chip", WriteChipMask(f, drv[f].job.page[1]), "addr0")
    \/ NandStep(f, "addr0", WriteAddr0(f, drv[f].job.page[2] % Half), "addr1")
    \/ NandStep(f, "addr1", WriteAddr1(f, drv[f].job.page[2] \div Half), "cmd")
Command(f) ==
    \E out \in Outcomes :
        NandStep(f, "cmd", WriteNcmd(f, "READSTART", out), "check")

\* The error words: a driver goes on only if all are zero.
Check(f) ==
    /\ At(f, "check")
    /\ ReadEccbuf(f)
    /\ drv' = [drv EXCEPT ![f].left = @ - 1,
                          ![f].pc = CASE EccWord(f) # 0    -> "failed"
                                      [] EccWord(f) = 0 /\ drv[f].left > 1 -> "check"
                                      [] OTHER             -> "port"]
    /\ UNCHANGED <<cdmaVars, lock, task>>

\* A driver may identify the chip it selected instead.
Identify(f) ==
    \/ \E out \in {"ok", "nodata"} :
          NandStep(f, "addr0", WriteNcmd(f, "READID", out), "id")
    \/ NandStep(f, "id", ReadData0(f), "done_id")

Port(f)  == <<f, IF drv[f].ch = DataCh(f) THEN "buf0" ELSE "buf1">>
Units(f) == IF drv[f].ch = DataCh(f) THEN PageUnits ELSE MetaUnits
Crypt(f) == drv[f].job.crypt /\ drv[f].ch = DataCh(f)

Program(f) ==
    \/ DmaStep(f, "port", WriteCreg(drv[f].ch, Port(f)), "size")
    \/ DmaStep(f, "size", WriteSize(drv[f].ch, Units(f)), "list")
    \/ DmaStep(f, "list", WriteSegptr(drv[f].ch),
               IF Crypt(f) THEN "lock" ELSE "start")

Key(f) ==
    \/ /\ At(f, "lock")
       /\ lock = NoOne
       /\ lock' = f
       /\ Goto(f, "setup")
       /\ UNCHANGED <<nand, cdmaVars, task>>
    \/ DmaStep(f, "setup", WriteAesSetup("Custom"), "key")
    \/ DmaStep(f, "key", WriteAesKey(NandKey), "start")

Start(f) ==
    /\ At(f, "start")
    /\ ReadNand(drv[f].ch)
    /\ Goto(f, "wait")
    /\ lock' = IF lock = f THEN NoOne ELSE lock
    /\ UNCHANGED task

\* The interrupt: acknowledge it, then the metadata, then the page is there.
Finish(f) ==
    /\ At(f, "wait")
    /\ line[irqs][drv[f].ch]
    /\ AckStatus(drv[f].ch)
    /\ drv' = [drv EXCEPT ![f].pc = IF drv[f].ch = DataCh(f) THEN "port" ELSE "done",
                          ![f].ch = MetaCh(f)]
    /\ UNCHANGED <<lock, task>>

\* The driver is done with its page, or gives up: an error, or a timeout at
\* any point.  The memory goes back to the guest, lists included.
Leave(f) ==
    /\ ~At(f, "rest")
    /\ drv' = [drv EXCEPT ![f] = Resting(f)]
    /\ segs' = [segs EXCEPT ![DataCh(f)] = <<NoSeg>>, ![MetaCh(f)] = <<NoSeg>>]
    /\ mem' = [mem EXCEPT ![DataCh(f)] = Unused, ![MetaCh(f)] = Unused]
    /\ lock' = IF lock = f THEN NoOne ELSE lock
    /\ UNCHANGED <<nand, cdma, aes, irqs, line, task>>

\* An interrupt that no driver waits for any more.
Spurious(f) ==
    /\ At(f, "rest")
    /\ \E ch \in {DataCh(f), MetaCh(f)} : line[irqs][ch] /\ AckStatus(ch)
    /\ UNCHANGED <<drv, lock, task>>

-----------------------------------------------------------------------------
(* The AES task and the I/O processor. *)

TaskLocks(type) ==
    /\ task.pc = "rest"
    /\ lock = NoOne
    /\ lock' = TheTask
    /\ WriteAesSetup(type)
    /\ task' = [task EXCEPT !.pc = type]
    /\ UNCHANGED drv

TaskKey ==
    /\ task.pc = "Custom"
    /\ WriteAesKey(AppKey)
    /\ task' = [task EXCEPT !.pc = "start"]
    /\ UNCHANGED <<drv, lock>>

TaskStarts ==
    /\ task.pc \in {"UID", "start"}
    /\ StartEngine
    /\ task' = [pc |-> "rest",
                right |-> aes'.decryptKey = IF task.pc = "UID" THEN "uidkey"
                                            ELSE AppKey]
    /\ lock' = NoOne
    /\ UNCHANGED drv

\* The main CPU starts the I/O processor when its drivers are done.
StartIop ==
    /\ irqs = "main"
    /\ \A f \in FMIS : At(f, "rest")
    /\ \A ch \in Channels : ~cdma[ch].done
    /\ replaceCDMAIRQHandlers
    /\ UNCHANGED <<drv, lock, task>>

-----------------------------------------------------------------------------

Init ==
    /\ NandInit
    /\ CdmaInit(Unused)
    /\ drv = [f \in FMIS |-> Resting(f)]
    /\ lock = NoOne
    /\ task = [pc |-> "rest", right |-> TRUE]

Driver(f) ==
    \/ Clear(f) \/ Select(f) \/ Command(f) \/ Check(f)
    \/ Program(f) \/ Key(f) \/ Start(f) \/ Finish(f)

Next ==
    \/ \E f \in FMIS :
         \/ \E job \in Jobs : Begin(f, job)
         \/ Driver(f)
         \/ Identify(f)
         \/ Leave(f)
         \/ Spurious(f)
    \/ \E type \in {"UID", "Custom"} : TaskLocks(type)
    \/ TaskKey
    \/ TaskStarts
    \/ StartIop

Spec == Init /\ [][Next]_vars

-----------------------------------------------------------------------------
(* Properties. *)

\* What the guest's memory should hold after job.
Expected(job, key) ==
    [i \in 1 .. PageUnits |->
        Decrypted(Unit(job.page, i), IF job.crypt THEN key ELSE Raw)]

\* A page that the driver takes for good is in memory, data and metadata,
\* every unit in its place and decrypted with the right key: whatever was
\* given up before, however the other threads ran in between, and although
\* read errors leave their junk in the buffers.
PageDelivered ==
    \A f \in FMIS :
        At(f, "done") =>
            /\ \A i \in 1 .. PageUnits :
                  mem[DataCh(f)][i] = Expected(drv[f].job, NandKey)[i]
            /\ \A i \in 1 .. MetaUnits :
                  mem[MetaCh(f)][i] = Unit(drv[f].job.page, PageUnits + i)

\* A driver that waits for its interrupt has it: the end of a transfer is
\* signalled to the CPU that runs the driver, before and after the I/O
\* processor takes over.
NoLostDone ==
    \A f \in FMIS : At(f, "wait") => line[irqs][drv[f].ch]

\* A line is up exactly while its channel says that it is done, so that an
\* acknowledge lowers it, and no line of the other CPU is up.
DmaLineExact ==
    \A ch \in Channels :
        /\ line[irqs][ch] = cdma[ch].done
        /\ cdma[ch].mstatus = cdma[ch].done
        /\ \A c \in Cpus \ {irqs} : ~line[c][ch]

\* The AES engine uses the key its task set up, although the setup and the
\* key register are shared with the NAND channels.
EngineKeyRight == task.right

=============================================================================
