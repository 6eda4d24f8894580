------------------------- MODULE SynopsysUsbProofs -------------------------
(***************************************************************************)
(* The properties of the Synopsys USB controller for every number of       *)
(* endpoints, every size of FIFO memory and transfer, and every set of     *)
(* operations.                                                             *)
(***************************************************************************)
EXTENDS SynopsysUsb, TLAPS

UsbRegs ==
    [on : BOOLEAN, gintsts : SUBSET GInts, gintmsk : SUBSET GInts,
     daintmsk : SUBSET Ends, daintsts : SUBSET Ends,
     epmsk : [Dirs -> SUBSET EpInts],
     grxfsiz : [start : {0}, size : Nat],
     gnptxfsiz : [start : Nat, size : Nat]]

EpRegs ==
    [control : SUBSET {"ENABLE", "STALL", "NAKSTS"},
     ints : SUBSET EpInts, size : 0 .. MaxXfer, dma : 0 .. AddrSpace - 1]

\* What relates the status registers, the endpoints and the line.
IrqInv == LineExact /\ TransferShown /\ SummaryHasCause

\* What relates the registers to the history of transfers.
XferInv == SizeAccounts /\ TransferFits

UsbInv == UsbTypeOK /\ IrqInv /\ XferInv

-----------------------------------------------------------------------------
(* Facts about the operators. *)

\* The smaller of two numbers.
LEMMA LowerFact ==
    ASSUME NEW a \in Nat, NEW b \in Nat
    PROVE  Lower(a, b) \in Nat /\ Lower(a, b) <= a /\ Lower(a, b) <= b
BY DEF Lower

\* The FIFO memory has a size.
LEMMA FifoLenNat == FifoLen \in Nat
<1>1. FifoUnit \in Nat /\ USB_NUM_FIFOS \in Nat
  BY ControllerAssumption
<1>2. QED
  BY <1>1 DEF FifoLen

\* synopsys_usb_update_irq refreshes well-typed registers to well-typed ones.
LEMMA RefreshedType ==
    ASSUME NEW u \in UsbRegs, NEW es \in [Ends -> EpRegs]
    PROVE  Refreshed(u, es) \in UsbRegs
<1>1. Active(u, es) \subseteq Ends
  BY DEF Active
<1>2. \A x \in Ends : Summary(x[1]) \in GInts
  BY DEF Summary, GInts, Summaries
<1>3. (u.gintsts \ Summaries) \cup
          {Summary(x[1]) : x \in Active(u, es) \cap u.daintmsk} \in SUBSET GInts
  BY <1>1, <1>2 DEF UsbRegs
<1>4. QED
  BY <1>1, <1>3 DEF Refreshed, UsbRegs

\* Only the two status registers change.
LEMMA RefreshedFields ==
    ASSUME NEW u \in UsbRegs, NEW es \in [Ends -> EpRegs]
    PROVE  /\ Refreshed(u, es).epmsk = u.epmsk
           /\ Refreshed(u, es).daintmsk = u.daintmsk
           /\ Refreshed(u, es).gintsts = (u.gintsts \ Summaries) \cup
                  {Summary(x[1]) : x \in Active(u, es) \cap u.daintmsk}
BY DEF Refreshed, UsbRegs

\* synopsys_usb_update_irq makes line, summary bits and endpoint interrupts
\* agree, whatever was written before it.
LEMMA UpdateIrqKeeps ==
    ASSUME NEW u \in UsbRegs, NEW es \in [Ends -> EpRegs],
           synopsys_usb_update_irq(u, es)
    PROVE  usb' \in UsbRegs /\ ep' \in [Ends -> EpRegs] /\ line' \in BOOLEAN
           /\ IrqInv'
<1> DEFINE w == Refreshed(u, es)
<1>1. usb' = w /\ ep' = es /\ line' = Shows(w)
  BY DEF synopsys_usb_update_irq
<1>2. w \in UsbRegs
  BY RefreshedType
<1>3. /\ w.epmsk = u.epmsk /\ w.daintmsk = u.daintmsk
      /\ w.gintsts = (u.gintsts \ Summaries) \cup
             {Summary(x[1]) : x \in Active(u, es) \cap u.daintmsk}
  BY RefreshedFields
<1>4. Active(w, es) = Active(u, es)
  BY <1>3 DEF Active
<1> HIDE DEF w
<1>5. Shows(w) \in BOOLEAN
  BY DEF Shows
<1>6. LineExact'
  BY <1>1 DEF LineExact, Shows
<1>7. TransferShown'
  <2>1. SUFFICES ASSUME NEW x \in Ends,
                        es[x].ints \cap w.epmsk[x[1]] # {},
                        x \in w.daintmsk
                 PROVE  Summary(x[1]) \in w.gintsts
    BY <1>1 DEF TransferShown
  <2>2. x \in Active(u, es) \cap u.daintmsk
    BY <1>3, <2>1 DEF Active
  <2>3. QED
    BY <1>3, <2>2
<1>8. SummaryHasCause'
  <2>1. SUFFICES ASSUME NEW d \in Dirs, Summary(d) \in w.gintsts
                 PROVE  \E x \in Active(w, es) \cap w.daintmsk : x[1] = d
    BY <1>1 DEF SummaryHasCause, Active
  <2>2. PICK x \in Active(u, es) \cap u.daintmsk : Summary(x[1]) = Summary(d)
    BY <1>3, <2>1 DEF Summary, Summaries
  <2>3. x[1] \in Dirs
    BY <2>2 DEF Active, Ends
  <2>4. x[1] = d
    BY <2>2, <2>3 DEF Summary, Dirs
  <2>5. QED
    BY <1>3, <1>4, <2>2, <2>4
<1>9. QED
  BY <1>1, <1>2, <1>5, <1>6, <1>7, <1>8 DEF IrqInv

\* The parts of the type invariant.
LEMMA TypeParts ==
    UsbTypeOK <=> /\ usb \in UsbRegs
                  /\ ep \in [Ends -> EpRegs]
                  /\ line \in BOOLEAN
                  /\ died \in BOOLEAN
                  /\ xfer \in [fits : BOOLEAN, prog : [Ends -> 0 .. MaxXfer],
                               moved : [Ends -> 0 .. MaxXfer]]
BY DEF UsbTypeOK, UsbRegs, EpRegs

-----------------------------------------------------------------------------
(* One lemma per kind of step. *)

\* A step that ends with synopsys_usb_update_irq and moves no data.
LEMMA UpdateKeeps ==
    ASSUME UsbInv,
           NEW u \in UsbRegs, NEW es \in [Ends -> EpRegs],
           \A x \in Ends : es[x].size = ep[x].size,
           synopsys_usb_update_irq(u, es),
           UNCHANGED <<died, xfer>>
    PROVE  UsbInv'
<1>1. usb' \in UsbRegs /\ ep' \in [Ends -> EpRegs] /\ line' \in BOOLEAN /\ IrqInv'
  BY UpdateIrqKeeps
<1>2. UsbTypeOK'
  BY <1>1 DEF UsbInv, UsbTypeOK, UsbRegs, EpRegs
<1>3. XferInv'
  BY DEF UsbInv, XferInv, SizeAccounts, TransferFits, synopsys_usb_update_irq
<1>4. QED
  BY <1>1, <1>2, <1>3 DEF UsbInv

\* A control register: the interrupts it sets are not those of transfers.
LEMMA ControlKeeps ==
    ASSUME UsbInv, NEW x \in Ends, NEW val \in Controls, WriteControl(x, val)
    PROVE  UsbInv'
<1> DEFINE c == UpdatedEp(ep[x], val)
<1>1. ep[x] \in EpRegs /\ ep \in [Ends -> EpRegs]
  BY TypeParts DEF UsbInv
<1>2. val \subseteq ControlBits
  BY ControllerAssumption
<1>3. /\ c \in EpRegs
      /\ c.size = ep[x].size
      /\ ep[x].ints \subseteq c.ints
      /\ c.ints \ ep[x].ints \subseteq {"EPDisbld", "NakEff"}
  BY <1>1, <1>2 DEF UpdatedEp, EpRegs, EpInts, ControlBits
<1> HIDE DEF c
<1>4. ep' = [ep EXCEPT ![x] = c] /\ UNCHANGED <<usb, line, died, xfer>>
  BY DEF WriteControl, c
<1>5. /\ ep' \in [Ends -> EpRegs]
      /\ \A z \in Ends : /\ ep'[z].size = ep[z].size
                         /\ ep[z].ints \subseteq ep'[z].ints
                         /\ ep'[z].ints \ ep[z].ints \subseteq {"EPDisbld", "NakEff"}
  BY <1>1, <1>3, <1>4
<1>6. UsbTypeOK'
  BY <1>4, <1>5 DEF UsbInv, UsbTypeOK, UsbRegs, EpRegs
<1>7. LineExact'
  BY <1>4 DEF UsbInv, IrqInv, LineExact, Shows
<1>8. TransferShown'
  BY <1>4, <1>5 DEF UsbInv, IrqInv, TransferShown
<1>9. SummaryHasCause'
  <2>1. Active(usb, ep) \subseteq Active(usb, ep')
    BY <1>5 DEF Active
  <2>2. QED
    BY <1>4, <2>1 DEF UsbInv, IrqInv, SummaryHasCause, Active
<1>10. XferInv'
  BY <1>4, <1>5 DEF UsbInv, XferInv, SizeAccounts, TransferFits
<1>11. QED
  BY <1>6, <1>7, <1>8, <1>9, <1>10 DEF UsbInv, IrqInv

\* A write that leaves the interrupts of every endpoint and the registers
\* they are compared with as they were.
LEMMA SilentIrq ==
    ASSUME IrqInv, UNCHANGED line,
           usb'.on = usb.on, usb'.gintsts = usb.gintsts,
           usb'.gintmsk = usb.gintmsk, usb'.epmsk = usb.epmsk,
           usb'.daintmsk = usb.daintmsk,
           \A x \in Ends : ep'[x].ints = ep[x].ints
    PROVE  IrqInv'
<1>1. LineExact'
  BY DEF IrqInv, LineExact, Shows
<1>2. TransferShown'
  BY DEF IrqInv, TransferShown
<1>3. SummaryHasCause'
  <2>1. Active(usb, ep) = Active(usb', ep')
    BY DEF Active
  <2>2. QED
    BY <2>1 DEF IrqInv, SummaryHasCause, Active
<1>4. QED
  BY <1>1, <1>2, <1>3 DEF IrqInv

\* The size register starts a new account.
LEMMA SizeKeeps ==
    ASSUME UsbInv, NEW x \in Ends, NEW n \in 0 .. MaxXfer, WriteSize(x, n)
    PROVE  UsbInv'
<1>1. /\ ep \in [Ends -> EpRegs]
      /\ xfer \in [fits : BOOLEAN, prog : [Ends -> 0 .. MaxXfer],
                   moved : [Ends -> 0 .. MaxXfer]]
      /\ MaxXfer \in Nat
  BY TypeParts, ControllerAssumption DEF UsbInv
<1>2. /\ ep' = [ep EXCEPT ![x] = [ep[x] EXCEPT !.size = n]]
      /\ xfer' = [xfer EXCEPT !.prog = [xfer.prog EXCEPT ![x] = n],
                              !.moved = [xfer.moved EXCEPT ![x] = 0]]
      /\ UNCHANGED <<usb, line, died>>
  BY <1>1 DEF WriteSize, EpRegs
<1>3. /\ ep' \in [Ends -> EpRegs]
      /\ \A z \in Ends : /\ ep'[z].ints = ep[z].ints
                         /\ ep'[z].size = IF z = x THEN n ELSE ep[z].size
  BY <1>1, <1>2 DEF EpRegs
<1>4. /\ xfer' \in [fits : BOOLEAN, prog : [Ends -> 0 .. MaxXfer],
                    moved : [Ends -> 0 .. MaxXfer]]
      /\ xfer'.fits = xfer.fits
      /\ \A z \in Ends : /\ xfer'.prog[z] = IF z = x THEN n ELSE xfer.prog[z]
                         /\ xfer'.moved[z] = IF z = x THEN 0 ELSE xfer.moved[z]
  <2> DEFINE pr == [xfer.prog EXCEPT ![x] = n]
             mv == [xfer.moved EXCEPT ![x] = 0]
  <2>1. /\ pr \in [Ends -> 0 .. MaxXfer]
        /\ \A z \in Ends : pr[z] = IF z = x THEN n ELSE xfer.prog[z]
    BY <1>1
  <2>2. /\ mv \in [Ends -> 0 .. MaxXfer]
        /\ \A z \in Ends : mv[z] = IF z = x THEN 0 ELSE xfer.moved[z]
    BY <1>1
  <2>3. xfer' = [xfer EXCEPT !.prog = pr, !.moved = mv]
    BY <1>2
  <2> HIDE DEF pr, mv
  <2>4. /\ xfer' \in [fits : BOOLEAN, prog : [Ends -> 0 .. MaxXfer],
                      moved : [Ends -> 0 .. MaxXfer]]
        /\ xfer'.fits = xfer.fits /\ xfer'.prog = pr /\ xfer'.moved = mv
    BY <1>1, <2>1, <2>2, <2>3
  <2>5. QED
    BY <2>1, <2>2, <2>4
<1>5. UsbTypeOK'
  BY <1>2, <1>3, <1>4 DEF UsbInv, UsbTypeOK, UsbRegs, EpRegs
<1>6. IrqInv'
  BY <1>2, <1>3, SilentIrq DEF UsbInv
<1>7. XferInv'
  BY <1>1, <1>3, <1>4 DEF UsbInv, XferInv, SizeAccounts, TransferFits
<1>8. QED
  BY <1>5, <1>6, <1>7 DEF UsbInv

\* The DMA address.
LEMMA DmaKeeps ==
    ASSUME UsbInv, NEW x \in Ends, NEW a \in 0 .. AddrSpace - 1, WriteDma(x, a)
    PROVE  UsbInv'
<1>1. ep \in [Ends -> EpRegs]
  BY TypeParts DEF UsbInv
<1>2. ep' = [ep EXCEPT ![x] = [ep[x] EXCEPT !.dma = a]]
      /\ UNCHANGED <<usb, line, died, xfer>>
  BY <1>1 DEF WriteDma, EpRegs
<1>3. /\ ep' \in [Ends -> EpRegs]
      /\ \A z \in Ends : ep'[z].ints = ep[z].ints /\ ep'[z].size = ep[z].size
  BY <1>1, <1>2 DEF EpRegs
<1>4. UsbTypeOK'
  BY <1>2, <1>3 DEF UsbInv, UsbTypeOK, UsbRegs, EpRegs
<1>5. IrqInv'
  BY <1>2, <1>3, SilentIrq DEF UsbInv
<1>6. XferInv'
  BY <1>2, <1>3 DEF UsbInv, XferInv, SizeAccounts, TransferFits
<1>7. QED
  BY <1>4, <1>5, <1>6 DEF UsbInv

\* The layout of the FIFOs.
LEMMA FifoKeeps ==
    ASSUME UsbInv, UNCHANGED <<ep, line, died, xfer>>,
           NEW rx \in [start : {0}, size : Nat],
           NEW tx \in [start : Nat, size : Nat],
           usb' = [usb EXCEPT !.grxfsiz = rx] \/ usb' = [usb EXCEPT !.gnptxfsiz = tx]
    PROVE  UsbInv'
<1>1. usb \in UsbRegs
  BY TypeParts DEF UsbInv
<1>2. /\ usb' \in UsbRegs
      /\ usb'.on = usb.on /\ usb'.gintsts = usb.gintsts
      /\ usb'.gintmsk = usb.gintmsk /\ usb'.epmsk = usb.epmsk
      /\ usb'.daintmsk = usb.daintmsk
  BY <1>1 DEF UsbRegs
<1>3. UsbTypeOK'
  BY <1>2 DEF UsbInv, UsbTypeOK, UsbRegs, EpRegs
<1>4. IrqInv'
  BY <1>2, SilentIrq DEF UsbInv
<1>5. XferInv'
  BY DEF UsbInv, XferInv, SizeAccounts, TransferFits
<1>6. QED
  BY <1>3, <1>4, <1>5 DEF UsbInv

\* An endpoint moves n units: n is taken off what the size register asks
\* for and added to what was moved, and stays within request and FIFO memory.
LEMMA MoveKeeps ==
    ASSUME UsbInv, NEW u \in UsbRegs, NEW x \in Ends, NEW len \in Nat,
           NEW int \in EpInts,
           ~FifoFails(x[1]),
           synopsys_usb_update_irq(u, Moved(x, AmtDone(x, len), int)),
           xfer' = [xfer EXCEPT
                      !.fits = /\ AmtDone(x, len) <= len
                               /\ Fifo(x[1]).start + AmtDone(x, len) <= FifoLen,
                      !.moved[x] = @ + AmtDone(x, len)],
           UNCHANGED died
    PROVE  UsbInv'
<1> DEFINE n == AmtDone(x, len)
           es == Moved(x, n, int)
           b  == n <= len /\ Fifo(x[1]).start + n <= FifoLen
           mv == [xfer.moved EXCEPT ![x] = xfer.moved[x] + n]
<1>1. /\ usb \in UsbRegs /\ ep \in [Ends -> EpRegs]
      /\ xfer \in [fits : BOOLEAN, prog : [Ends -> 0 .. MaxXfer],
                   moved : [Ends -> 0 .. MaxXfer]]
      /\ died \in BOOLEAN
      /\ MaxXfer \in Nat /\ AddrSpace \in Nat \ {0}
  BY TypeParts, ControllerAssumption DEF UsbInv
<1>2. ep[x].size \in 0 .. MaxXfer /\ ep[x].size \in Nat
  BY <1>1 DEF EpRegs
<1>3. Fifo(x[1]).start \in Nat /\ Fifo(x[1]).size \in Nat
  BY <1>1 DEF Fifo, UsbRegs
<1>4. n \in Nat /\ n <= ep[x].size /\ n <= len /\ n <= Fifo(x[1]).size
  <2>1. Lower(ep[x].size, len) \in Nat
        /\ Lower(ep[x].size, len) <= ep[x].size /\ Lower(ep[x].size, len) <= len
    BY <1>2, LowerFact
  <2>2. n \in Nat /\ n <= Lower(ep[x].size, len) /\ n <= Fifo(x[1]).size
    BY <1>3, <2>1, LowerFact DEF AmtDone
  <2>3. QED
    BY <1>2, <2>1, <2>2
<1>5. b
  BY <1>3, <1>4, FifoLenNat DEF FifoFails
<1>6. xfer' = [xfer EXCEPT !.fits = b, !.moved = mv]
  BY <1>1
<1> HIDE DEF n
<1>7. /\ es \in [Ends -> EpRegs]
      /\ \A z \in Ends : es[z].size = IF z = x THEN ep[z].size - n ELSE ep[z].size
  <2> DEFINE d == IF ep[x].dma = 0 THEN 0 ELSE (ep[x].dma + n) % AddrSpace
             c == [ep[x] EXCEPT !.control = ep[x].control \ {"ENABLE"},
                                !.size = ep[x].size - n,
                                !.dma = d,
                                !.ints = ep[x].ints \cup {int}]
  <2>1. es = [ep EXCEPT ![x] = c]
    BY <1>1 DEF Moved, EpRegs
  <2>2. d \in 0 .. AddrSpace - 1
    BY <1>1, <1>4 DEF EpRegs
  <2>3. ep[x].size - n \in 0 .. MaxXfer
    BY <1>1, <1>2, <1>4
  <2> HIDE DEF d
  <2>4. c \in EpRegs /\ c.size = ep[x].size - n
    BY <1>1, <2>2, <2>3 DEF EpRegs
  <2> HIDE DEF c
  <2>5. QED
    BY <1>1, <2>1, <2>4
<1>8. usb' \in UsbRegs /\ ep' \in [Ends -> EpRegs] /\ line' \in BOOLEAN /\ IrqInv'
  BY <1>7, UpdateIrqKeeps DEF n
<1>9. ep' = es
  BY DEF synopsys_usb_update_irq, n
<1> HIDE DEF es
<1>10. /\ mv \in [Ends -> 0 .. MaxXfer]
       /\ \A z \in Ends : mv[z] = IF z = x THEN xfer.moved[z] + n ELSE xfer.moved[z]
  <2>1. xfer.moved[x] + ep[x].size = xfer.prog[x] /\ xfer.prog[x] \in 0 .. MaxXfer
    BY <1>1 DEF UsbInv, XferInv, SizeAccounts
  <2>2. xfer.moved[x] + n \in 0 .. MaxXfer
    BY <1>1, <1>2, <1>4, <2>1
  <2>3. QED
    BY <1>1, <2>2
<1> HIDE DEF mv
<1>11. /\ xfer' \in [fits : BOOLEAN, prog : [Ends -> 0 .. MaxXfer],
                     moved : [Ends -> 0 .. MaxXfer]]
       /\ xfer'.fits = b /\ xfer'.prog = xfer.prog /\ xfer'.moved = mv
  BY <1>1, <1>5, <1>6, <1>10
<1>12. UsbTypeOK'
  BY <1>1, <1>8, <1>11 DEF UsbTypeOK, UsbRegs, EpRegs
<1>13. SizeAccounts'
  <2>1. SUFFICES ASSUME NEW z \in Ends
                 PROVE  mv[z] + es[z].size = xfer.prog[z]
    BY <1>9, <1>11 DEF SizeAccounts
  <2>2. xfer.moved[z] + ep[z].size = xfer.prog[z]
    BY DEF UsbInv, XferInv, SizeAccounts
  <2>3. xfer.moved[z] \in Nat /\ ep[z].size \in Nat
    BY <1>1 DEF EpRegs
  <2>4. QED
    BY <1>4, <1>7, <1>10, <2>2, <2>3
<1>14. TransferFits'
  BY <1>5, <1>11 DEF TransferFits
<1>15. QED
  BY <1>8, <1>12, <1>13, <1>14 DEF UsbInv, XferInv

\* An endpoint's answer to a request.
LEMMA PerformKeeps ==
    ASSUME UsbInv, NEW u \in UsbRegs, NEW x \in Ends, NEW len \in Nat,
           NEW done \in EpInts, Perform(x, len, u, done)
    PROVE  UsbInv'
<1>1. ep \in [Ends -> EpRegs]
  BY TypeParts DEF UsbInv
<1>2. CASE /\ synopsys_usb_update_irq(u, [ep EXCEPT ![x].control = @ \ {"STALL"}])
           /\ UNCHANGED <<died, xfer>>
  <2> DEFINE es == [ep EXCEPT ![x].control = @ \ {"STALL"}]
  <2>1. es \in [Ends -> EpRegs] /\ \A z \in Ends : es[z].size = ep[z].size
    BY <1>1 DEF EpRegs
  <2> HIDE DEF es
  <2>2. QED
    BY <1>2, <2>1, UpdateKeeps DEF es
<1>3. CASE /\ ~FifoFails(x[1])
           /\ synopsys_usb_update_irq(u, Moved(x, AmtDone(x, len), done))
           /\ xfer' = [xfer EXCEPT
                         !.fits = /\ AmtDone(x, len) <= len
                                  /\ Fifo(x[1]).start + AmtDone(x, len) <= FifoLen,
                         !.moved[x] = @ + AmtDone(x, len)]
           /\ UNCHANGED died
  BY <1>3, MoveKeeps
<1>4. CASE died' = TRUE /\ UNCHANGED <<usb, ep, line, xfer>>
  BY <1>4 DEF UsbInv, UsbTypeOK, IrqInv, XferInv, LineExact, Shows,
              TransferShown, SummaryHasCause, Active, SizeAccounts, TransferFits
<1>5. CASE synopsys_usb_update_irq(u, ep) /\ UNCHANGED <<died, xfer>>
  BY <1>1, <1>5, UpdateKeeps
<1>6. QED
  BY <1>2, <1>3, <1>4, <1>5 DEF Perform

\* A request from the host.
LEMMA CallbackKeeps ==
    ASSUME UsbInv, NEW kind \in {"setup", "in", "out", "reset"}, NEW e \in EPS,
           NEW len \in 0 .. MaxXfer, NEW enum \in BOOLEAN,
           synopsys_usb_tcp_callback(kind, e, len, enum)
    PROVE  UsbInv'
<1> DEFINE u == IF enum THEN [usb EXCEPT !.gintsts = @ \cup {"ENUMDONE"}] ELSE usb
           v == [usb EXCEPT !.gintsts = @ \cup {"RESET"}]
<1>1. usb \in UsbRegs /\ ep \in [Ends -> EpRegs]
  BY TypeParts DEF UsbInv
<1>2. u \in UsbRegs /\ v \in UsbRegs
  BY <1>1 DEF UsbRegs, GInts, DeviceInts
<1>3. len \in Nat
  BY ControllerAssumption
<1>4. <<"in", e>> \in Ends /\ <<"out", e>> \in Ends
  BY DEF Ends, Dirs
<1>5. "XferCompl" \in EpInts /\ "SetUp" \in EpInts
  BY DEF EpInts
<1> HIDE DEF u, v
<1>6. CASE kind = "reset"
  <2>1. synopsys_usb_update_irq(v, ep) /\ UNCHANGED <<died, xfer>>
    BY <1>6 DEF synopsys_usb_tcp_callback, v
  <2>2. QED
    BY <1>1, <1>2, <2>1, UpdateKeeps
<1>7. CASE kind = "in"
  <2>1. Perform(<<"in", e>>, len, u, "XferCompl")
    BY <1>7 DEF synopsys_usb_tcp_callback, u
  <2>2. QED
    BY <1>2, <1>3, <1>4, <1>5, <2>1, PerformKeeps
<1>8. CASE kind = "out"
  <2>1. Perform(<<"out", e>>, len, u, "XferCompl")
    BY <1>8 DEF synopsys_usb_tcp_callback, u
  <2>2. QED
    BY <1>2, <1>3, <1>4, <1>5, <2>1, PerformKeeps
<1>9. CASE kind = "setup"
  <2>1. Perform(<<"out", e>>, len, u, "SetUp")
    BY <1>9 DEF synopsys_usb_tcp_callback, u
  <2>2. QED
    BY <1>2, <1>3, <1>4, <1>5, <2>1, PerformKeeps
<1>10. QED
  BY <1>6, <1>7, <1>8, <1>9

\* A register whose write ends with synopsys_usb_update_irq.
LEMMA WriteKeeps ==
    ASSUME UsbInv, NEW op, NEW u \in UsbRegs, Write(op, u, ep)
    PROVE  UsbInv'
<1>1. ep \in [Ends -> EpRegs]
  BY TypeParts DEF UsbInv
<1>2. QED
  BY <1>1, UpdateKeeps DEF Write

\* The endpoint interrupts the guest clears.
LEMMA EpIntKeeps ==
    ASSUME UsbInv, NEW x \in Ends, NEW m \in EpIntValues, WriteEpInt(x, m)
    PROVE  UsbInv'
<1> DEFINE es == [ep EXCEPT ![x].ints = @ \ m]
<1>1. usb \in UsbRegs /\ ep \in [Ends -> EpRegs]
  BY TypeParts DEF UsbInv
<1>2. es \in [Ends -> EpRegs] /\ \A z \in Ends : es[z].size = ep[z].size
  BY <1>1 DEF EpRegs
<1>3. synopsys_usb_update_irq(usb, es) /\ UNCHANGED <<died, xfer>>
  BY DEF WriteEpInt, Write
<1> HIDE DEF es
<1>4. QED
  BY <1>1, <1>2, <1>3, UpdateKeeps

\* The emulator ends.
LEMMA DeathKeeps ==
    ASSUME UsbInv, died' = TRUE, UNCHANGED <<usb, ep, line, xfer>>
    PROVE  UsbInv'
BY DEF UsbInv, UsbTypeOK, IrqInv, XferInv, LineExact, Shows,
       TransferShown, SummaryHasCause, Active, SizeAccounts, TransferFits

\* What a reset leaves is well-typed.
LEMMA ResetType == ResetUsb \in UsbRegs
BY ControllerAssumption DEF ResetUsb, UsbRegs, GInts, Ends, EpInts

\* A system reset closes every account.
LEMMA ResetKeeps ==
    ASSUME UsbInv, synopsys_usb_initial_reset
    PROVE  UsbInv'
<1> DEFINE es == [x \in Ends |-> ResetEp(ep[x])]
           zero == [x \in Ends |-> 0]
<1>1. /\ ep \in [Ends -> EpRegs]
      /\ xfer \in [fits : BOOLEAN, prog : [Ends -> 0 .. MaxXfer],
                   moved : [Ends -> 0 .. MaxXfer]]
      /\ died \in BOOLEAN
      /\ MaxXfer \in Nat /\ AddrSpace \in Nat \ {0}
  BY TypeParts, ControllerAssumption DEF UsbInv
<1>2. es \in [Ends -> EpRegs] /\ \A z \in Ends : es[z].size = 0
  <2>1. ASSUME NEW z \in Ends
        PROVE  ResetEp(ep[z]) \in EpRegs /\ ResetEp(ep[z]).size = 0
    <3>1. ep[z] \in EpRegs
      BY <1>1
    <3>2. 0 \in 0 .. MaxXfer /\ 0 \in 0 .. AddrSpace - 1
      BY <1>1
    <3>3. ResetEp(ep[z]) = [ep[z] EXCEPT !.control = {}, !.size = 0, !.dma = 0]
      BY DEF ResetEp
    <3>4. QED
      BY <3>1, <3>2, <3>3 DEF EpRegs
  <2>2. QED
    BY <2>1
<1>3. zero \in [Ends -> 0 .. MaxXfer] /\ \A z \in Ends : zero[z] = 0
  BY <1>1
<1>4. /\ synopsys_usb_update_irq(ResetUsb, es)
      /\ xfer' = [xfer EXCEPT !.prog = zero, !.moved = zero]
      /\ UNCHANGED died
  BY DEF synopsys_usb_initial_reset
<1>5. ep' = es
  BY <1>4 DEF synopsys_usb_update_irq
<1> HIDE DEF es, zero
<1>6. usb' \in UsbRegs /\ ep' \in [Ends -> EpRegs] /\ line' \in BOOLEAN /\ IrqInv'
  BY <1>2, <1>4, ResetType, UpdateIrqKeeps
<1>7. /\ xfer' \in [fits : BOOLEAN, prog : [Ends -> 0 .. MaxXfer],
                    moved : [Ends -> 0 .. MaxXfer]]
      /\ xfer'.fits = xfer.fits /\ xfer'.prog = zero /\ xfer'.moved = zero
  BY <1>1, <1>3, <1>4
<1>8. UsbTypeOK'
  BY <1>1, <1>4, <1>6, <1>7 DEF UsbTypeOK, UsbRegs, EpRegs
<1>9. XferInv'
  BY <1>2, <1>3, <1>5, <1>7 DEF UsbInv, XferInv, SizeAccounts, TransferFits
<1>10. QED
  BY <1>6, <1>8, <1>9 DEF UsbInv

-----------------------------------------------------------------------------
(* The theorems. *)

\* The controller as synopsys_usb_init leaves it.
LEMMA InitHolds == UsbInit => UsbInv
<1> SUFFICES ASSUME UsbInit PROVE UsbInv
  OBVIOUS
<1>1. MaxXfer \in Nat /\ AddrSpace \in Nat \ {0}
  BY ControllerAssumption
<1>2. /\ ep \in [Ends -> EpRegs]
      /\ xfer \in [fits : BOOLEAN, prog : [Ends -> 0 .. MaxXfer],
                   moved : [Ends -> 0 .. MaxXfer]]
  BY <1>1 DEF UsbInit, EpRegs
<1>3. UsbTypeOK
  BY <1>2, ResetType, TypeParts DEF UsbInit
<1>4. usb.gintsts = {} /\ usb.daintmsk = {} /\ line = FALSE
  BY DEF UsbInit, ResetUsb
<1>5. IrqInv
  BY <1>4 DEF IrqInv, LineExact, Shows, TransferShown, SummaryHasCause
<1>6. XferInv
  BY DEF UsbInit, XferInv, SizeAccounts, TransferFits
<1>7. QED
  BY <1>3, <1>5, <1>6 DEF UsbInv

\* Every write of the guest and every request of the host.
LEMMA NextKeeps == UsbInv /\ [UsbNext]_usbVars => UsbInv'
<1> SUFFICES ASSUME UsbInv, [UsbNext]_usbVars PROVE UsbInv'
  OBVIOUS
<1> USE DEF UsbRegs, GInts, DeviceInts, Summaries
<1>1. usb \in UsbRegs
  BY TypeParts DEF UsbInv
<1>2. CASE \E x \in Ends, val \in Controls : WriteControl(x, val)
  BY <1>2, ControlKeeps
<1>3. CASE \E x \in Ends, n \in 0 .. MaxXfer : WriteSize(x, n)
  BY <1>3, SizeKeeps
<1>4. CASE \E x \in Ends, a \in 0 .. AddrSpace - 1 : WriteDma(x, a)
  BY <1>4, DmaKeeps
<1>5. CASE \E x \in Ends, m \in EpIntValues : WriteEpInt(x, m)
  BY <1>5, EpIntKeeps
<1>6. CASE \E on \in BOOLEAN : WritePcgcctl(on)
  <2>1. PICK on \in BOOLEAN : Write("device", [usb EXCEPT !.on = on], ep)
    BY <1>6 DEF WritePcgcctl
  <2>2. [usb EXCEPT !.on = on] \in UsbRegs
    BY <1>1
  <2>3. QED
    BY <2>1, <2>2, WriteKeeps
<1>7. CASE \E m \in MaskValues : WriteGintmsk(m)
  <2>1. PICK m \in MaskValues : Write("masks", [usb EXCEPT !.gintmsk = m], ep)
    BY <1>7 DEF WriteGintmsk
  <2>2. [usb EXCEPT !.gintmsk = m] \in UsbRegs
    BY <1>1, ControllerAssumption
  <2>3. QED
    BY <2>1, <2>2, WriteKeeps
<1>8. CASE \E i \in GInts : WriteGintsts(i)
  <2>1. PICK i \in GInts : Write("device", [usb EXCEPT !.gintsts = @ \ {i}], ep)
    BY <1>8 DEF WriteGintsts
  <2>2. [usb EXCEPT !.gintsts = @ \ {i}] \in UsbRegs
    BY <1>1
  <2>3. QED
    BY <2>1, <2>2, WriteKeeps
<1>9. CASE \E d \in Dirs, m \in {EpInts, {}} : WriteEpmsk(d, m)
  <2>1. PICK d \in Dirs, m \in {EpInts, {}} :
            Write("masks", [usb EXCEPT !.epmsk[d] = m], ep)
    BY <1>9 DEF WriteEpmsk
  <2>2. [usb EXCEPT !.epmsk[d] = m] \in UsbRegs
    BY <1>1
  <2>3. QED
    BY <2>1, <2>2, WriteKeeps
<1>10. CASE \E m \in {Ends, {}} : WriteDaintmsk(m)
  <2>1. PICK m \in {Ends, {}} : Write("masks", [usb EXCEPT !.daintmsk = m], ep)
    BY <1>10 DEF WriteDaintmsk
  <2>2. [usb EXCEPT !.daintmsk = m] \in UsbRegs
    BY <1>1
  <2>3. QED
    BY <2>1, <2>2, WriteKeeps
<1>11. CASE \E m \in {Ends, {}} : WriteDaintsts(m)
  <2>1. PICK m \in {Ends, {}} : Write("masks", [usb EXCEPT !.daintsts = @ \ m], ep)
    BY <1>11 DEF WriteDaintsts
  <2>2. [usb EXCEPT !.daintsts = @ \ m] \in UsbRegs
    BY <1>1
  <2>3. QED
    BY <2>1, <2>2, WriteKeeps
<1>12. CASE \E m \in {{}, {"GNAKEFF"}} : WriteDctl(m)
  <2>1. PICK m \in {{}, {"GNAKEFF"}} :
            Write("device", [usb EXCEPT !.gintsts = @ \cup m], ep)
    BY <1>12 DEF WriteDctl
  <2>2. [usb EXCEPT !.gintsts = @ \cup m] \in UsbRegs
    BY <1>1
  <2>3. QED
    BY <2>1, <2>2, WriteKeeps
<1>13. CASE \E n \in FifoSizes : WriteGrxfsiz(n)
  <2>1. PICK n \in FifoSizes : WriteGrxfsiz(n)
    BY <1>13
  <2>2. n \in Nat
    BY ControllerAssumption
  <2>3. usb' = [usb EXCEPT !.grxfsiz = [start |-> 0, size |-> n]]
        /\ UNCHANGED <<ep, line, died, xfer>>
    BY <1>1, <2>1 DEF WriteGrxfsiz
  <2>4. [start |-> 0, size |-> n] \in [start : {0}, size : Nat]
        /\ [start |-> 0, size |-> n] \in [start : Nat, size : Nat]
    BY <2>2
  <2>5. QED
    BY <2>3, <2>4, FifoKeeps
<1>14. CASE \E b \in FifoStarts, n \in FifoSizes : WriteGnptxfsiz(b, n)
  <2>1. PICK b \in FifoStarts, n \in FifoSizes : WriteGnptxfsiz(b, n)
    BY <1>14
  <2>2. b \in Nat /\ n \in Nat
    BY ControllerAssumption
  <2>3. usb' = [usb EXCEPT !.gnptxfsiz = [start |-> b, size |-> n]]
        /\ UNCHANGED <<ep, line, died, xfer>>
    BY <2>1 DEF WriteGnptxfsiz
  <2>4. [start |-> b, size |-> n] \in [start : Nat, size : Nat]
        /\ [start |-> 0, size |-> n] \in [start : {0}, size : Nat]
    BY <2>2
  <2>5. QED
    BY <2>3, <2>4, FifoKeeps
<1>15. CASE SoftReset
  <2>1. [usb EXCEPT !.gintsts = @ \cup {"RESET"}] \in UsbRegs
    BY <1>1
  <2>2. QED
    BY <1>15, <2>1, WriteKeeps, DeathKeeps DEF SoftReset
<1>16. CASE synopsys_usb_initial_reset
  BY <1>16, ResetKeeps
<1>17. CASE \E kind \in {"setup", "in", "out", "reset"}, e \in EPS,
               len \in 0 .. MaxXfer, enum \in BOOLEAN :
                   synopsys_usb_tcp_callback(kind, e, len, enum)
  BY <1>17, CallbackKeeps
<1>18. CASE UNCHANGED usbVars
  BY <1>18 DEF usbVars, UsbInv, UsbTypeOK, IrqInv, XferInv, LineExact, Shows,
               TransferShown, SummaryHasCause, Active, SizeAccounts, TransferFits
<1>19. QED
  BY <1>2, <1>3, <1>4, <1>5, <1>6, <1>7, <1>8, <1>9, <1>10, <1>11, <1>12,
     <1>13, <1>14, <1>15, <1>16, <1>17, <1>18 DEF UsbNext, GuestNext

\* The inductive invariant holds in every behaviour of the controller.
THEOREM UsbInductive == UsbSpec => []UsbInv
<1>1. QED
  BY InitHolds, NextKeeps, PTL DEF UsbSpec

\* Type correctness: sizes stay within what was programmed, DMA addresses
\* within their width.
THEOREM UsbTypeCorrect == UsbSpec => []UsbTypeOK
<1>1. UsbInv => UsbTypeOK
  BY DEF UsbInv
<1>2. QED
  BY <1>1, UsbInductive, PTL

\* The line follows the unmasked status, after any sequence of register
\* writes and requests, although writes of control, size and FIFO registers
\* do not run synopsys_usb_update_irq.
THEOREM LineCorrect == UsbSpec => []LineExact
<1>1. UsbInv => LineExact
  BY DEF UsbInv, IrqInv
<1>2. QED
  BY <1>1, UsbInductive, PTL

\* No finished transfer is hidden from the guest.
THEOREM TransferNotHidden == UsbSpec => []TransferShown
<1>1. UsbInv => TransferShown
  BY DEF UsbInv, IrqInv
<1>2. QED
  BY <1>1, UsbInductive, PTL

\* No summary bit of GINTSTS is stale.
THEOREM SummaryNotStale == UsbSpec => []SummaryHasCause
<1>1. UsbInv => SummaryHasCause
  BY DEF UsbInv, IrqInv
<1>2. QED
  BY <1>1, UsbInductive, PTL

\* The size register accounts for every unit moved by the callback.
THEOREM SizeCorrect == UsbSpec => []SizeAccounts
<1>1. UsbInv => SizeAccounts
  BY DEF UsbInv, XferInv
<1>2. QED
  BY <1>1, UsbInductive, PTL

\* The callback never exceeds the request's buffer or the FIFO memory.
THEOREM TransferInBounds == UsbSpec => []TransferFits
<1>1. UsbInv => TransferFits
  BY DEF UsbInv, XferInv
<1>2. QED
  BY <1>1, UsbInductive, PTL

=============================================================================
