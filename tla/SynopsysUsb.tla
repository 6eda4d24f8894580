---------------------------- MODULE SynopsysUsb ----------------------------
(***************************************************************************)
(* The Synopsys USB device controller (hw/usb_synopsys.c): endpoint and    *)
(* interrupt registers that the guest's driver writes, and the callback    *)
(* that answers the requests of the USB host.  Both run under QEMU's       *)
(* global lock, so a register write and a call of the callback are one     *)
(* action each, with the synopsys_usb_update_irq at their end.             *)
(*                                                                         *)
(* Registers are sets of the bits that matter; registers that are only     *)
(* stored and read back are left out.                                      *)
(***************************************************************************)
EXTENDS Integers

CONSTANTS
    USB_NUM_ENDPOINTS,  \* endpoints per direction (8)
    USB_NUM_FIFOS,      \* transmit FIFOs the memory has room for (16)
    FifoUnit,           \* size of each FIFO after a reset (0x100)
    MaxXfer,            \* largest transfer size the guest programs
    AddrSpace,          \* DMA addresses are kept modulo AddrSpace (2^32)
    Controls,           \* values the guest writes to a control register
    EpIntValues,        \* values the guest writes to clear endpoint interrupts
    MaskValues,         \* values the guest writes to GINTMSK
    FifoStarts,         \* where the guest puts the transmit FIFO
    FifoSizes,          \* sizes the guest gives the FIFOs
    UsbOps              \* the operations of this instance, by name

EPS  == 0 .. USB_NUM_ENDPOINTS - 1
Dirs == {"in", "out"}
Ends == Dirs \X EPS

ControlBits == {"ENABLE", "DISABLE", "SETNAK", "STALL", "NAKSTS"}
EpInts      == {"XferCompl", "SetUp", "EPDisbld", "NakEff"}
\* GNAKEFF stands for either of the two global NAK bits.
DeviceInts  == {"RESET", "ENUMDONE", "GNAKEFF"}
Summary(d)  == IF d = "in" THEN "INEP" ELSE "OEP"
Summaries   == {"INEP", "OEP"}
GInts       == DeviceInts \cup Summaries
UsbOpNames  == {"control", "transfer", "masks", "device", "fifos", "reset"}

ASSUME ControllerAssumption ==
    /\ USB_NUM_ENDPOINTS \in Nat \ {0}
    /\ USB_NUM_FIFOS \in Nat \ {0}
    /\ FifoUnit \in Nat
    /\ MaxXfer \in Nat
    /\ AddrSpace \in Nat \ {0}
    /\ Controls \subseteq SUBSET ControlBits
    /\ EpIntValues \subseteq SUBSET EpInts
    /\ MaskValues \subseteq SUBSET GInts
    /\ FifoStarts \subseteq Nat
    /\ FifoSizes \subseteq Nat
    /\ UsbOps \subseteq UsbOpNames

VARIABLES
    usb,   \* the registers of the device
    ep,    \* the registers of each endpoint
    line,  \* the interrupt line
    died,  \* hw_error ended the emulator
    xfer   \* history: whether the last transfer kept its bounds, and per
           \* endpoint the size programmed and the units moved since

usbVars == <<usb, ep, line, died, xfer>>

\* The FIFO memory: the receive FIFO and the transmit FIFOs.
FifoLen == FifoUnit * (USB_NUM_FIFOS + 1)

Lower(a, b) == IF a < b THEN a ELSE b

-----------------------------------------------------------------------------
(* synopsys_usb_update_irq. *)

\* The endpoints with an interrupt that is not masked, as DAINTSTS shows them.
Active(u, es) ==
    {x \in Ends : es[x].ints \cap u.epmsk[x[1]] # {}}

Refreshed(u, es) ==
    [u EXCEPT !.daintsts = Active(u, es),
              !.gintsts = (@ \ Summaries) \cup
                  {Summary(x[1]) : x \in Active(u, es) \cap u.daintmsk}]

Shows(u) == u.on /\ u.gintmsk \cap u.gintsts # {}

synopsys_usb_update_irq(u, es) ==
    /\ usb' = Refreshed(u, es)
    /\ ep' = es
    /\ line' = Shows(Refreshed(u, es))

-----------------------------------------------------------------------------
(* Requests from the host. *)

\* fifo is never assigned: every IN endpoint sends through FIFO 0.
Fifo(d) == IF d = "in" THEN usb.gnptxfsiz ELSE usb.grxfsiz

\* hw_error: the FIFO region the guest programmed is not all memory.
FifoFails(d) == Fifo(d).start + Fifo(d).size > FifoLen

\* Mutant: what the host asked for is not looked at.
AmtDoneUnasked(x, len) == Lower(ep[x].size, Fifo(x[1]).size)

\* Units that an enabled endpoint moves for a request of len units.
AmtDone(x, len) == Lower(Lower(ep[x].size, len), Fifo(x[1]).size)

\* Mutant: a DMA address is not kept to its width.
MovedWide(x, n, int) ==
    [ep EXCEPT ![x].control = @ \ {"ENABLE"},
               ![x].size = @ - n,
               ![x].dma = IF @ = 0 THEN 0 ELSE @ + n,
               ![x].ints = @ \cup {int}]

\* Mutant: the size register is left as the guest wrote it.
MovedKeepsSize(x, n, int) ==
    [ep EXCEPT ![x].control = @ \ {"ENABLE"},
               ![x].dma = IF @ = 0 THEN 0 ELSE (@ + n) % AddrSpace,
               ![x].ints = @ \cup {int}]

\* The endpoint after it moved n units.
Moved(x, n, int) ==
    [ep EXCEPT ![x].control = @ \ {"ENABLE"},
               ![x].size = @ - n,
               ![x].dma = IF @ = 0 THEN 0 ELSE (@ + n) % AddrSpace,
               ![x].ints = @ \cup {int}]

\* The answer to a request on endpoint x: a stall once, a transfer once, or
\* no.  done names the interrupt of a transfer.
Perform(x, len, u, done) ==
    LET n == AmtDone(x, len)
    IN  \/ /\ "STALL" \in ep[x].control
           /\ synopsys_usb_update_irq(u, [ep EXCEPT ![x].control = @ \ {"STALL"}])
           /\ UNCHANGED <<died, xfer>>
        \/ /\ "STALL" \notin ep[x].control
           /\ "ENABLE" \in ep[x].control
           /\ ~FifoFails(x[1])
           /\ synopsys_usb_update_irq(u, Moved(x, n, done))
           /\ xfer' = [xfer EXCEPT !.fits = /\ n <= len
                                            /\ Fifo(x[1]).start + n <= FifoLen,
                                   !.moved[x] = @ + n]
           /\ UNCHANGED died
        \/ /\ "STALL" \notin ep[x].control
           /\ "ENABLE" \in ep[x].control
           /\ FifoFails(x[1])
           /\ died' = TRUE
           /\ UNCHANGED <<usb, ep, line, xfer>>
        \/ /\ {"STALL", "ENABLE"} \cap ep[x].control = {}
           /\ synopsys_usb_update_irq(u, ep)
           /\ UNCHANGED <<died, xfer>>

\* synopsys_usb_tcp_callback: kind is setup, in, out or reset; enum is the
\* flag the passthrough device sets with SET_ADDRESS.
synopsys_usb_tcp_callback(kind, e, len, enum) ==
    LET u == IF enum THEN [usb EXCEPT !.gintsts = @ \cup {"ENUMDONE"}] ELSE usb
    IN  /\ ~died
        /\ CASE kind = "reset" ->
                  /\ synopsys_usb_update_irq(
                        [usb EXCEPT !.gintsts = @ \cup {"RESET"}], ep)
                  /\ UNCHANGED <<died, xfer>>
             [] kind = "in" -> Perform(<<"in", e>>, len, u, "XferCompl")
             [] kind = "out" -> Perform(<<"out", e>>, len, u, "XferCompl")
             [] kind = "setup" -> Perform(<<"out", e>>, len, u, "SetUp")

-----------------------------------------------------------------------------
(* Register writes. *)

\* A control register: the write ends with the endpoint's own update, not
\* with synopsys_usb_update_irq.
UpdatedEp(c, val) ==
    [c EXCEPT
       !.control = {b \in val \ {"SETNAK", "DISABLE"} :
                       b = "ENABLE" => "DISABLE" \notin val}
                     \cup (IF "SETNAK" \in val THEN {"NAKSTS"} ELSE {}),
       !.ints = @ \cup (IF "SETNAK" \in val THEN {"NakEff"} ELSE {})
                  \cup (IF "DISABLE" \in val THEN {"EPDisbld"} ELSE {})]

WriteControl(x, val) ==
    /\ "control" \in UsbOps
    /\ ~died
    /\ ep' = [ep EXCEPT ![x] = UpdatedEp(@, val)]
    /\ UNCHANGED <<usb, line, died, xfer>>

WriteSize(x, n) ==
    /\ "transfer" \in UsbOps
    /\ ~died
    /\ ep' = [ep EXCEPT ![x].size = n]
    /\ xfer' = [xfer EXCEPT !.prog[x] = n,
                            !.moved[x] = 0]
    /\ UNCHANGED <<usb, line, died>>

WriteDma(x, a) ==
    /\ "transfer" \in UsbOps
    /\ ~died
    /\ ep' = [ep EXCEPT ![x].dma = a]
    /\ UNCHANGED <<usb, line, died, xfer>>

\* Registers whose write ends with synopsys_usb_update_irq.
Write(op, u, es) ==
    /\ op \in UsbOps
    /\ ~died
    /\ synopsys_usb_update_irq(u, es)
    /\ UNCHANGED <<died, xfer>>

\* Mutant: the interrupt is cleared and the summary left as it is.
WriteEpIntQuiet(x, m) ==
    /\ "control" \in UsbOps
    /\ ~died
    /\ ep' = [ep EXCEPT ![x].ints = @ \ m]
    /\ UNCHANGED <<usb, line, died, xfer>>
WriteEpInt(x, m) == Write("control", usb, [ep EXCEPT ![x].ints = @ \ m])

WritePcgcctl(on) == Write("device", [usb EXCEPT !.on = on], ep)

\* Mutant: the new mask takes effect with the next interrupt.
WriteGintmskQuiet(m) ==
    /\ "masks" \in UsbOps
    /\ ~died
    /\ usb' = [usb EXCEPT !.gintmsk = m]
    /\ UNCHANGED <<ep, line, died, xfer>>
WriteGintmsk(m) == Write("masks", [usb EXCEPT !.gintmsk = m], ep)

WriteGintsts(i)  == Write("device", [usb EXCEPT !.gintsts = @ \ {i}], ep)

\* Mutant: the same of DIEPMSK and DOEPMSK.
WriteEpmskQuiet(d, m) ==
    /\ "masks" \in UsbOps
    /\ ~died
    /\ usb' = [usb EXCEPT !.epmsk[d] = m]
    /\ UNCHANGED <<ep, line, died, xfer>>
\* DIEPMSK and DOEPMSK.
WriteEpmsk(d, m) ==
    Write("masks", [usb EXCEPT !.epmsk[d] = m], ep)

WriteDaintmsk(m) == Write("masks", [usb EXCEPT !.daintmsk = m], ep)

\* The bits cleared in DAINTSTS come back at once.
WriteDaintsts(m) == Write("masks", [usb EXCEPT !.daintsts = @ \ m], ep)

\* Global NAK requests (m) take effect at once and do not stay in DCTL.
WriteDctl(m) == Write("device", [usb EXCEPT !.gintsts = @ \cup m], ep)

WriteGrxfsiz(n) ==
    /\ "fifos" \in UsbOps
    /\ ~died
    /\ usb' = [usb EXCEPT !.grxfsiz.size = n]
    /\ UNCHANGED <<ep, line, died, xfer>>

WriteGnptxfsiz(b, n) ==
    /\ "fifos" \in UsbOps
    /\ ~died
    /\ usb' = [usb EXCEPT !.gnptxfsiz = [start |-> b, size |-> n]]
    /\ UNCHANGED <<ep, line, died, xfer>>

\* GRSTCTL: the connection is made anew, the registers stay; hw_error when
\* the USB server cannot be reached.
SoftReset ==
    \/ Write("reset", [usb EXCEPT !.gintsts = @ \cup {"RESET"}], ep)
    \/ /\ "reset" \in UsbOps
       /\ ~died
       /\ died' = TRUE
       /\ UNCHANGED <<usb, ep, line, xfer>>

\* The registers as synopsys_usb_initial_reset leaves them, with the FIFO
\* regions it lays out.
ResetUsb ==
    [on |-> FALSE, gintsts |-> {}, gintmsk |-> {}, daintmsk |-> {},
     daintsts |-> {}, epmsk |-> [d \in Dirs |-> {}],
     grxfsiz |-> [start |-> 0, size |-> FifoUnit],
     gnptxfsiz |-> [start |-> FifoUnit, size |-> FifoUnit]]

\* The endpoints: interrupt_status is not among what is reset.
ResetEp(c) == [c EXCEPT !.control = {}, !.size = 0, !.dma = 0]

synopsys_usb_initial_reset ==
    /\ "reset" \in UsbOps
    /\ ~died
    /\ synopsys_usb_update_irq(ResetUsb, [x \in Ends |-> ResetEp(ep[x])])
    /\ xfer' = [xfer EXCEPT !.prog = [x \in Ends |-> 0],
                            !.moved = [x \in Ends |-> 0]]
    /\ UNCHANGED died

UsbInit ==
    /\ usb = ResetUsb
    /\ ep = [x \in Ends |-> [control |-> {}, ints |-> {}, size |-> 0, dma |-> 0]]
    /\ line = FALSE
    /\ died = FALSE
    /\ xfer = [fits |-> TRUE,
               prog |-> [x \in Ends |-> 0], moved |-> [x \in Ends |-> 0]]

\* What the guest's driver may do.
GuestNext ==
    \/ \E x \in Ends, val \in Controls : WriteControl(x, val)
    \/ \E x \in Ends, n \in 0 .. MaxXfer : WriteSize(x, n)
    \/ \E x \in Ends, a \in 0 .. AddrSpace - 1 : WriteDma(x, a)
    \/ \E x \in Ends, m \in EpIntValues : WriteEpInt(x, m)
    \/ \E on \in BOOLEAN : WritePcgcctl(on)
    \/ \E m \in MaskValues : WriteGintmsk(m)
    \/ \E i \in GInts : WriteGintsts(i)
    \/ \E d \in Dirs, m \in {EpInts, {}} : WriteEpmsk(d, m)
    \/ \E m \in {Ends, {}} : WriteDaintmsk(m)
    \/ \E m \in {Ends, {}} : WriteDaintsts(m)
    \/ \E m \in {{}, {"GNAKEFF"}} : WriteDctl(m)
    \/ \E n \in FifoSizes : WriteGrxfsiz(n)
    \/ \E b \in FifoStarts, n \in FifoSizes : WriteGnptxfsiz(b, n)
    \/ SoftReset
    \/ synopsys_usb_initial_reset

UsbNext ==
    \/ GuestNext
    \/ \E kind \in {"setup", "in", "out", "reset"}, e \in EPS,
          len \in 0 .. MaxXfer, enum \in BOOLEAN :
             (enum => kind = "setup") /\ synopsys_usb_tcp_callback(kind, e, len, enum)

UsbSpec == UsbInit /\ [][UsbNext]_usbVars

-----------------------------------------------------------------------------
(* Properties. *)

UsbTypeOK ==
    /\ usb \in [on : BOOLEAN, gintsts : SUBSET GInts, gintmsk : SUBSET GInts,
                daintmsk : SUBSET Ends, daintsts : SUBSET Ends,
                epmsk : [Dirs -> SUBSET EpInts],
                grxfsiz : [start : {0}, size : Nat],
                gnptxfsiz : [start : Nat, size : Nat]]
    /\ ep \in [Ends -> [control : SUBSET {"ENABLE", "STALL", "NAKSTS"},
                        ints : SUBSET EpInts, size : 0 .. MaxXfer,
                        dma : 0 .. AddrSpace - 1]]
    /\ line \in BOOLEAN
    /\ died \in BOOLEAN
    /\ xfer \in [fits : BOOLEAN,
                 prog : [Ends -> 0 .. MaxXfer], moved : [Ends -> 0 .. MaxXfer]]

\* The interrupt line is up exactly when an unmasked status bit is set and
\* the clock is not gated, after any sequence of writes and requests.
LineExact == line <=> Shows(usb)

\* A finished transfer is never hidden from the guest: its interrupt, if no
\* mask hides it, is in GINTSTS whatever was written since.  (The interrupts
\* a control register write sets are shown only by the next update.)
TransferShown ==
    \A x \in Ends :
        (/\ ep[x].ints \cap usb.epmsk[x[1]] \cap {"XferCompl", "SetUp"} # {}
         /\ x \in usb.daintmsk) => Summary(x[1]) \in usb.gintsts

\* The other direction: a summary bit has an endpoint behind it.
SummaryHasCause ==
    \A d \in Dirs :
        Summary(d) \in usb.gintsts =>
            \E x \in Active(usb, ep) \cap usb.daintmsk : x[1] = d

\* Over any number of partial transfers, what was moved and what the size
\* register still asks for add up to what the guest programmed.
SizeAccounts ==
    \A x \in Ends : xfer.moved[x] + ep[x].size = xfer.prog[x]

\* A transfer fits the request's buffer and stays within the FIFO memory,
\* whatever regions the guest lays out.
TransferFits == xfer.fits

=============================================================================
