-------------------------------- MODULE Cdma --------------------------------
(***************************************************************************)
(* The DMA controller and its AES engine (hw/s5l8930.c) in front of the    *)
(* NAND controllers, and the switch of its interrupts to the I/O processor *)
(* (hw/s5l8930_iop.c).  A transfer runs to its end inside the write that   *)
(* starts it.                                                              *)
(*                                                                         *)
(* A segment list is a sequence in the guest's memory; the last descriptor *)
(* of each has no flags and ends it.  Left out: the direction bit (a write *)
(* to NAND is accepted and does nothing), the ivec register, cleared after *)
(* each use, and the direction of the AES operation.                       *)
(***************************************************************************)
EXTENDS H2fmi

CONSTANTS
    Channels,  \* the channels that serve the NAND controllers (5 .. 8)
    Keys       \* values the guest gives the shared key register

Cpus     == {"main", "iop"}
\* keyType: AESGID has no key in the emulator.
KeyTypes == {"UID", "GID", "Custom"}
NoKey    == "nokey"
\* What the key schedule can be made from.
Schedules == Keys \cup {"uidkey", NoKey}

ASSUME CdmaAssumption ==
    /\ Keys \cap {"uidkey", NoKey, Raw} = {}

VARIABLES
    cdma,  \* per channel: status bit 19 (done), size, creg, the copy of the
           \* first descriptor (dmaSegment)
    aes,   \* keyType, keyLen, custkey, decryptKey
    irqs,  \* the CPU whose VIC the channels' interrupts go to
    line,  \* the interrupt lines: line[c][ch]
    segs,  \* per channel: the segment list in the guest's memory
    mem    \* per channel: the guest's memory that the list names

cdmaVars == <<cdma, aes, irqs, line, segs, mem>>

\* A descriptor: where its data goes, and how much.  DATA: FLAG_DATA (bit 0),
\* BUF: bit 1.
Flags == SUBSET {"DATA", "BUF"}
NoSeg == [flags |-> {}, size |-> 0, buffer |-> 0]

-----------------------------------------------------------------------------
(* Key schedules. *)

\* AES_set_decrypt_key fails on a length of zero and leaves the schedule.
SetKey(a, key) == IF a.keyLen = 0 THEN a ELSE [a EXCEPT !.decryptKey = key]

Decrypted(u, key) == [u EXCEPT !.dec = key]

\* Mutant: the key length is not set.
WriteAesSetupNoLen(type) ==
    /\ aes' = [aes EXCEPT !.keyType = type]
    /\ UNCHANGED <<nand, cdma, irqs, line, segs, mem>>

\* The setup register is one per channel, but what it sets is shared.
WriteAesSetup(type) ==
    /\ aes' = [aes EXCEPT !.keyType = type, !.keyLen = 1]
    /\ UNCHANGED <<nand, cdma, irqs, line, segs, mem>>

WriteAesKey(k) ==
    /\ aes' = [aes EXCEPT !.custkey = k]
    /\ UNCHANGED <<nand, cdma, irqs, line, segs, mem>>

\* Channel 2 starts the engine.  It forgets how it was set up when done.
EngineKey(a) ==
    CASE a.keyType = "UID"    -> [a EXCEPT !.decryptKey = "uidkey"]
      [] a.keyType = "GID"    -> a
      [] a.keyType = "Custom" -> SetKey(a, a.custkey)
StartEngine ==
    /\ aes' = [EngineKey(aes) EXCEPT !.keyLen = 0, !.keyType = "UID"]
    /\ UNCHANGED <<nand, cdma, irqs, line, segs, mem>>

-----------------------------------------------------------------------------
(* A read of NAND through a channel. *)

\* Segments are gathered while they fit and more was asked for.
Gather(g, seg) ==
    IF ~g.on THEN g
    ELSE IF seg.flags # {} /\ g.n + seg.size > g.cap THEN [g EXCEPT !.on = FALSE]
    ELSE LET n == IF seg.flags # {} THEN g.n + seg.size ELSE g.n
         IN  [g EXCEPT !.n = n, !.on = n < g.cap]

\* What the first loop reads from the controller for list l.
Asked(l, cap) ==
    LET upto[i \in 0 .. Len(l)] ==
            IF i = 0 THEN [n |-> 0, cap |-> cap, on |-> TRUE]
            ELSE Gather(upto[i - 1], l[i])
    IN  upto[Len(l)].n

\* The second loop stops at a descriptor without BUF, or after one without
\* DATA.
Delivers(l, i) ==
    /\ \A j \in 1 .. i : "BUF" \in l[j].flags
    /\ \A j \in 1 .. i - 1 : "DATA" \in l[j].flags

\* Where in the buffer segment i starts.
Offset(l, i) ==
    LET upto[j \in 0 .. Len(l)] ==
            IF j = 0 THEN 0 ELSE upto[j - 1] + l[j].size
    IN  upto[i - 1]

\* Memory m after list l was filled from the buffer out.
Filled(m, l, out) ==
    [a \in DOMAIN m |->
        LET In(i) == Delivers(l, i) /\ a - l[i].buffer \in 1 .. l[i].size
        IN  IF \E i \in DOMAIN l : In(i)
            THEN LET i == CHOOSE i \in DOMAIN l : In(i)
                     k == Offset(l, i) + a - l[i].buffer
                 IN  IF k \in DOMAIN out THEN out[k] ELSE Junk
            ELSE m[a]]

\* The copy of the first descriptor tells whether the data is to be
\* decrypted; then that descriptor is not part of the list.
Plain(ch) == "DATA" \in cdma[ch].dmaSegment.flags
List(ch)  == IF Plain(ch) THEN segs[ch] ELSE Tail(segs[ch])

\* The units read, with zeros up to the size of the channel, decrypted unless
\* they are all zero.
InBuf(ch) ==
    LET port == cdma[ch].creg
        n == Asked(List(ch), cdma[ch].size)
        got == Read(nand[port[1]][port[2]], n)
    IN  [k \in 1 .. cdma[ch].size |-> IF k <= n THEN got[k] ELSE Zero]
Crypts(ch) == ~Plain(ch) /\ \E k \in DOMAIN InBuf(ch) : InBuf(ch)[k] # Zero
OutBuf(ch) ==
    [k \in DOMAIN InBuf(ch) |->
        IF Crypts(ch) THEN Decrypted(InBuf(ch)[k], SetKey(aes, aes.custkey).decryptKey)
        ELSE InBuf(ch)[k]]

\* Mutant: no interrupt at the end.
ReadNandQuiet(ch) ==
    LET port == cdma[ch].creg
    IN  /\ nand' = [nand EXCEPT ![port[1]][port[2]] =
                       AfterBytes(@, Asked(List(ch), cdma[ch].size))]
        /\ mem' = [mem EXCEPT ![ch] = Filled(@, List(ch), OutBuf(ch))]
        /\ aes' = IF Crypts(ch) THEN SetKey(aes, aes.custkey) ELSE aes
        /\ cdma' = [cdma EXCEPT ![ch].size = 0, ![ch].done = TRUE,
                                ![ch].mstatus = TRUE]
        /\ UNCHANGED <<line, irqs, segs>>

\* The start of a NAND channel: the transfer, the status, the interrupt.
ReadNand(ch) ==
    LET port == cdma[ch].creg
    IN  /\ nand' = [nand EXCEPT ![port[1]][port[2]] =
                       AfterBytes(@, Asked(List(ch), cdma[ch].size))]
        /\ mem' = [mem EXCEPT ![ch] = Filled(@, List(ch), OutBuf(ch))]
        /\ aes' = IF Crypts(ch) THEN SetKey(aes, aes.custkey) ELSE aes
        /\ cdma' = [cdma EXCEPT ![ch].size = 0, ![ch].done = TRUE,
                                ![ch].mstatus = TRUE]
        /\ line' = [line EXCEPT ![irqs][ch] = TRUE]
        /\ UNCHANGED <<irqs, segs>>

-----------------------------------------------------------------------------
(* Register writes. *)

\* Mutant: the line is left up.
AckStatusQuiet(ch) ==
    /\ cdma' = [cdma EXCEPT ![ch].done = ~@,
                            ![ch].mstatus = @ /\ ~cdma[ch].done]
    /\ UNCHANGED <<nand, aes, irqs, line, segs, mem>>

\* Status with bit 19: clears the interrupt of a finished channel.  On any
\* other channel the bit is stored, which makes it look finished.
AckStatus(ch) ==
    /\ cdma' = [cdma EXCEPT ![ch].done = ~@,
                            ![ch].mstatus = @ /\ ~cdma[ch].done]
    /\ line' = [line EXCEPT ![irqs][ch] = @ /\ ~cdma[ch].done]
    /\ UNCHANGED <<nand, aes, irqs, segs, mem>>

WriteCreg(ch, port) ==
    /\ cdma' = [cdma EXCEPT ![ch].creg = port]
    /\ UNCHANGED <<nand, aes, irqs, line, segs, mem>>

WriteSize(ch, n) ==
    /\ cdma' = [cdma EXCEPT ![ch].size = n]
    /\ UNCHANGED <<nand, aes, irqs, line, segs, mem>>

\* Mutant: a descriptor once loaded is kept.
WriteSegptrKeeps(ch) ==
    /\ cdma' = [cdma EXCEPT ![ch].dmaSegment = IF @ = NoSeg THEN segs[ch][1] ELSE @]
    /\ UNCHANGED <<nand, aes, irqs, line, segs, mem>>

\* The segment pointer: the first descriptor is copied.
WriteSegptr(ch) ==
    /\ cdma' = [cdma EXCEPT ![ch].dmaSegment = segs[ch][1]]
    /\ UNCHANGED <<nand, aes, irqs, line, segs, mem>>

\* do_iop_run: from now on the interrupts go to the I/O processor.
replaceCDMAIRQHandlers ==
    /\ irqs' = "iop"
    /\ UNCHANGED <<nand, cdma, aes, line, segs, mem>>

CdmaInit(m) ==
    /\ cdma = [ch \in Channels |->
                  [done |-> FALSE, mstatus |-> FALSE, size |-> 0,
                   creg |-> <<CHOOSE f \in FMIS : TRUE, "buf0">>,
                   dmaSegment |-> NoSeg]]
    /\ aes = [keyType |-> "UID", keyLen |-> 0, custkey |-> NoKey,
              decryptKey |-> NoKey]
    /\ irqs = "main"
    /\ line = [c \in Cpus |-> [ch \in Channels |-> FALSE]]
    /\ segs = [ch \in Channels |-> <<NoSeg>>]
    /\ mem = [ch \in Channels |-> m]

=============================================================================
