------------------------------- MODULE TcpUsb -------------------------------
(***************************************************************************)
(* USB over TCP (hw/tcp_usb.c) between two emulator processes: the x86     *)
(* side runs the passthrough device of hw/tcp_usb_bus.c and sends          *)
(* requests, the ARM side runs the device controller, whose callback       *)
(* answers them.  The model follows one connection from the moment it is   *)
(* accepted: a thread of the x86 side then makes the passthrough device,   *)
(* links it with the connection and attaches it to the bus, without the    *)
(* lock under which the main loop already serves the socket.               *)
(*                                                                         *)
(* Both ends share the callback of tcp_usb.c: it picks up where the last   *)
(* call stopped, reads or writes what the socket allows and returns.  A    *)
(* call is one action.  How much has arrived when it runs is chosen by k.  *)
(* The one place where the other process can act inside a call and matter  *)
(* is the read that follows a request at once, inside handle_packet: it is *)
(* an action of its own (HostContinue).                                    *)
(***************************************************************************)
EXTENDS Integers, Sequences

CONSTANTS
    MaxPackets,  \* bound: packets the host controller submits
    MaxLen,      \* longest data stage, in units
    SockBuf,     \* what a socket takes before write blocks, in units
    EWouldBlock, \* 11, in units: a read or write of just so much is lost
    Ops          \* what else may happen: see OpNames

\* reset: the bus is reset.  cancel: the host controller gives packets up.
\* softreset: the device side drops the connection.  overlap: a bus reset or
\* a new packet does not wait for the transfer under way.
OpNames == {"reset", "cancel", "softreset", "overlap"}

ASSUME LinkAssumption ==
    /\ MaxPackets \in Nat \ {0}
    /\ MaxLen \in Nat \ {0}
    /\ SockBuf \in Nat \ {0}
    /\ EWouldBlock \in Nat /\ EWouldBlock > 2  \* a header is shorter
    /\ Ops \subseteq OpNames

Packets  == 1 .. MaxPackets
NoPacket == 0
NoResult == -2
RET_NAK  == -1                  \* USB_RET_NAK, USB_RET_STALL: negative
Results  == RET_NAK .. MaxLen

\* A header goes over the wire in two units: what it asks for (ep, flags),
\* and the length.  tag is not in the code: it tells which packet it is for.
HeaderLen == 2
Header == [kind : {"setup", "in", "out", "reset"}, len : Results,
           tag : Packets \cup {NoPacket}]
NoHeader == [kind |-> "reset", len |-> 0, tag |-> NoPacket]

\* Unit 1 .. HeaderLen of a header, or (slot 0) a unit of data.
Unit == [slot : 0 .. HeaderLen, hdr : Header]

VARIABLES
    hst,       \* the x86 side: tcp_usb_state_t and tcp_passthrough_state_t
    dev,       \* the ARM side: tcp_usb_state_t
    h2d, d2h,  \* bytes on their way
    gone,      \* the ARM side has closed its socket
    rst,       \* it did so with bytes unread: writes to it now fail
    pk,        \* the host controller's packets
    answered   \* history: what the device's callback returned for each

vars == <<hst, dev, h2d, d2h, gone, rst, pk, answered>>

-----------------------------------------------------------------------------
(* The callback.  r is a call in progress: the endpoint e, what it may read *)
(* (the first k units of rx), where it writes (tx, room left), whether the  *)
(* socket was reported readable (can), whether the call is still running    *)
(* (go), whether it found the peer closed (shut), data units read (got).    *)
(* Each part of it acts in its own states only, so that a call is the parts *)
(* one after the other: this is the falling through of the code's switch.   *)

Lesser(a, b) == IF a < b THEN a ELSE b
Pos(n) == IF n > 0 THEN n ELSE 0

Call(e, rx, tx, k, room, can) ==
    [e |-> e, rx |-> rx, tx |-> tx, k |-> k, room |-> room, can |-> can,
     go |-> TRUE, shut |-> FALSE, got |-> 0]

Reading(r) == r.go /\ r.e.state \in {"read_request", "read_response"}
Writing(r) == r.go /\ r.e.state \in {"write_request", "write_response"}

\* Mutant: the data stage always starts over.
LeftAll(e) == Pos(e.hdr.len)

\* What is left of the data stage.
Left(e) == Pos(HeaderLen + e.hdr.len - e.done)

\* Data goes with the request of an OUT, with the response of an IN.
Carries(e) ==
    /\ (e.hdr.kind = "in") = (e.state \in {"write_response", "read_response"})
    /\ e.hdr.len > 0

\* The header after n more units, read from rx.
Filled(e, rx, n) ==
    [kind |-> IF 1 \in e.done + 1 .. e.done + n THEN rx[1 - e.done].hdr.kind
              ELSE e.hdr.kind,
     len  |-> IF 2 \in e.done + 1 .. e.done + n THEN rx[2 - e.done].hdr.len
              ELSE e.hdr.len,
     tag  |-> IF 2 \in e.done + 1 .. e.done + n THEN rx[2 - e.done].hdr.tag
              ELSE e.hdr.tag]

\* An idle endpoint takes what it is sent for a request.
Idle(r) ==
    IF r.e.state = "idle"
    THEN [r EXCEPT !.e.state = "read_request", !.e.done = 0, !.e.hdr = NoHeader]
    ELSE r

\* Mutant: read returning 0 is never taken for the end of the connection.
ReadHeaderNoEof(r) ==
    LET n == Lesser(r.k, HeaderLen - r.e.done)
    IN  IF ~Reading(r) \/ r.e.done >= HeaderLen THEN r
        ELSE [r EXCEPT !.e.hdr = Filled(r.e, r.rx, n), !.e.done = @ + n,
                       !.rx = SubSeq(@, n + 1, Len(@)), !.k = @ - n,
                       !.can = @ /\ n = 0,
                       !.go = r.e.done + n >= HeaderLen]

ReadHeader(r) ==
    LET n == Lesser(r.k, HeaderLen - r.e.done)
    IN  IF ~Reading(r) \/ r.e.done >= HeaderLen THEN r
        ELSE [r EXCEPT !.e.hdr = Filled(r.e, r.rx, n), !.e.done = @ + n,
                       !.rx = SubSeq(@, n + 1, Len(@)), !.k = @ - n,
                       !.can = @ /\ n = 0,
                       !.go = r.e.done + n >= HeaderLen,
                       !.shut = n = 0 /\ r.can]

\* The return value is compared with EWOULDBLOCK where errno was meant: that
\* many units are taken from the socket, or sent, and not counted.
Counted(n) == IF n = EWouldBlock THEN 0 ELSE n

\* Mutant: one read is taken for the whole data stage.
ReadDataOnce(r) ==
    LET n == Lesser(r.k, Left(r.e))
    IN  IF ~Reading(r) \/ ~Carries(r.e) THEN r
        ELSE [r EXCEPT !.e.done = @ + Counted(n), !.got = Counted(n),
                       !.k = @ - n, !.rx = SubSeq(@, n + 1, Len(@)),
                       !.go = n > 0,
                       !.shut = n = 0 /\ r.can]

ReadData(r) ==
    LET n == Lesser(r.k, Left(r.e))
    IN  IF ~Reading(r) \/ ~Carries(r.e) THEN r
        ELSE [r EXCEPT !.e.done = @ + Counted(n), !.got = Counted(n),
                       !.k = @ - n, !.rx = SubSeq(@, n + 1, Len(@)),
                       !.go = Counted(n) > 0 /\ n = Left(r.e),
                       !.shut = n = 0 /\ r.can]

WriteHeader(r) ==
    LET n == Lesser(r.room, HeaderLen - r.e.done)
    IN  IF ~Writing(r) \/ r.e.done >= HeaderLen THEN r
        ELSE [r EXCEPT !.tx = @ \o [i \in 1 .. n |->
                                      [slot |-> r.e.done + i, hdr |-> r.e.hdr]],
                       !.e.done = @ + n, !.room = @ - n,
                       !.go = r.e.done + n >= HeaderLen]

WriteData(r) ==
    LET n == Lesser(r.room, Left(r.e))
    IN  IF ~Writing(r) \/ ~Carries(r.e) THEN r
        ELSE [r EXCEPT !.tx = @ \o [i \in 1 .. n |->
                                      [slot |-> 0, hdr |-> r.e.hdr]],
                       !.e.done = @ + Counted(n), !.room = @ - n,
                       !.go = Counted(n) = Left(r.e)]

\* Mutant: amount_done is not reset for the response.
WrittenKeepsCount(r) ==
    IF ~Writing(r) THEN r
    ELSE IF r.e.state = "write_request"
         THEN [r EXCEPT !.e.state = "read_response"]
         ELSE [r EXCEPT !.e.state = "idle", !.go = FALSE]

\* Mutant: the endpoint stays in write_response.
WrittenStuck(r) ==
    IF ~Writing(r) \/ r.e.state = "write_response" THEN r
    ELSE [r EXCEPT !.e.state = "read_response", !.e.done = 0]

\* All is written: the request is followed by the response, the response by
\* nothing.
Written(r) ==
    IF ~Writing(r) THEN r
    ELSE IF r.e.state = "write_request"
         THEN [r EXCEPT !.e.state = "read_response", !.e.done = 0]
         ELSE [r EXCEPT !.e.state = "idle", !.go = FALSE]

\* A call's reads and its writes.  Each is a set with one element, so that
\* a part is evaluated once.
Reads(r)  == {ReadData(h) : h \in {ReadHeader(r)}}
Writes(r) == {Written(d) : d \in {WriteData(h) : h \in {WriteHeader(r)}}}

-----------------------------------------------------------------------------
(* The x86 side. *)

\* What write takes: after a clean close the kernel still takes one request,
\* after a reset nothing.
Room == IF rst THEN 0
        ELSE IF gone THEN HeaderLen + MaxLen
        ELSE SockBuf - Len(h2d)

\* The peer's end of file shows once everything is read.
Eof == gone /\ d2h = <<>>

\* Mutant: the pending packet is completed and kept.
PassthroughTcpKeeps(h, ps) ==
    IF h.hdr.kind = "reset" \/ h.pkt = NoPacket
    THEN [hst |-> h, pk |-> ps]
    ELSE [hst |-> h,
          pk  |-> [ps EXCEPT ![h.pkt].st = "done", ![h.pkt].ret = h.hdr.len]]

\* passthrough_tcp: the response completes the pending packet.  A packet
\* submitted from the completion finds packet still set and is refused.
passthrough_tcp(h, ps) ==
    IF h.hdr.kind = "reset" \/ h.pkt = NoPacket
    THEN [hst |-> h, pk |-> ps]
    ELSE [hst |-> [h EXCEPT !.pkt = NoPacket],
          pk  |-> [ps EXCEPT ![h.pkt].st = "done", ![h.pkt].ret = h.hdr.len]]

\* tcp_usb_do_closed and passthrough_closed: the device is detached, unless
\* the thread has not yet linked it (callback_arg is NULL).
passthrough_closed(e) ==
    IF e.thread = "accepted" THEN [e EXCEPT !.closed = TRUE, !.early = TRUE]
    ELSE [e EXCEPT !.closed = TRUE, !.early = e.thread # "done",
                   !.tcp = FALSE, !.up = FALSE]

\* A call of the callback on the x86 side has come to its end.  A complete
\* response is handed on; when the peer is found closed, passthrough_closed
\* frees the connection.
HostDone(r) ==
    LET ps  == IF r.e.buf = NoPacket THEN pk
               ELSE [pk EXCEPT ![r.e.buf].got = @ + r.got]
        e   == [r.e EXCEPT !.inside = FALSE]
        h   == IF r.shut THEN passthrough_closed(e) ELSE e
        fin == IF Reading(r) THEN passthrough_tcp([h EXCEPT !.state = "idle"], ps)
               ELSE [hst |-> h, pk |-> ps]
    IN  /\ hst' = fin.hst
        /\ pk' = fin.pk
        /\ h2d' = r.tx
        /\ d2h' = r.rx
        /\ UNCHANGED <<dev, gone, rst, answered>>

\* The main loop found the socket ready.  An idle endpoint has nothing to
\* read but the end of the connection.
HostFd(k, can) ==
    /\ ~hst.closed
    /\ ~hst.inside
    /\ can => k > 0 \/ Eof
    /\ hst.state = "idle" => can /\ Eof
    /\ \E w \in Writes(Idle(Call(hst, d2h, h2d, k, Room, can))) :
       \E r \in Reads(w) : HostDone(r)

\* tcp_usb_request called inside handle_packet wrote the whole request and
\* now tries to read the response, before handle_packet returns.
HostContinue(k) ==
    /\ hst.inside
    /\ \E r \in Reads(Call(hst, d2h, h2d, k, 0, FALSE)) : HostDone(r)

\* tcp_usb_request with header h and the buffer of packet p: refused unless
\* idle.  The header is shared: it is overwritten in any case.
tcp_usb_request(h, p, e) ==
    IF hst.state = "idle"
    THEN Writes(Call([e EXCEPT !.state = "write_request", !.done = 0,
                               !.hdr = h, !.buf = p],
                     d2h, h2d, 0, Room, FALSE))
    ELSE {[Call([e EXCEPT !.hdr = h], d2h, h2d, 0, 0, FALSE)
             EXCEPT !.go = FALSE]}

\* A caller of tcp_usb_request returns, or the call goes on to read.
Requested(h, p, e) ==
    \E r \in tcp_usb_request(h, p, e) :
        /\ hst' = [r.e EXCEPT !.inside = r.go]
        /\ h2d' = r.tx

\* handle_packet.  A packet is refused (NAK) while another one is pending.
\* The request for an IN asks for the length of the last SETUP.
passthrough_packet(p, kind, len) ==
    LET e == [hst EXCEPT !.pkt = p,
                         !.setup_len = IF kind = "setup" THEN len ELSE @]
        h == [kind |-> kind, tag |-> p,
              len |-> CASE kind = "setup" -> 1
                        [] kind = "in" -> hst.setup_len
                        [] OTHER -> len]
    IN  /\ hst.up /\ hst.tcp
        /\ ~hst.inside
        /\ hst.pkt = NoPacket
        /\ hst.state = "idle" \/ "overlap" \in Ops
        /\ pk[p].st = "new"
        /\ \A q \in Packets : q < p => pk[q].st # "new"
        /\ Requested(h, p, e)
        /\ pk' = [pk EXCEPT ![p].kind = kind,
                            ![p].st = IF hst.state = "idle" THEN "deferred"
                                      ELSE "stalled"]
        /\ UNCHANGED <<dev, d2h, gone, rst, answered>>

\* A packet for a device that has lost its connection: it is not taken.
PacketRefused(p) ==
    /\ hst.up /\ ~hst.tcp
    /\ pk[p].st = "new"
    /\ \A q \in Packets : q < p => pk[q].st # "new"
    /\ pk' = [pk EXCEPT ![p].st = "refused"]
    /\ UNCHANGED <<hst, dev, h2d, d2h, gone, rst, answered>>

\* The host controller gives a packet up.  The transfer goes on.
passthrough_cancel ==
    /\ "cancel" \in Ops
    /\ ~hst.inside
    /\ hst.pkt # NoPacket
    /\ pk[hst.pkt].st = "deferred"
    /\ pk' = [pk EXCEPT ![hst.pkt].st = "cancelled"]
    /\ hst' = [hst EXCEPT !.pkt = NoPacket]
    /\ UNCHANGED <<dev, h2d, d2h, gone, rst, answered>>

\* The bus is reset.  The answer of tcp_usb_request is ignored.
passthrough_reset ==
    /\ "reset" \in Ops
    /\ hst.state = "idle" \/ "overlap" \in Ops
    /\ hst.up /\ ~hst.closed
    /\ ~hst.inside
    /\ Requested(NoHeader, NoPacket, [hst EXCEPT !.pkt = NoPacket])
    /\ UNCHANGED <<dev, d2h, gone, rst, pk, answered>>

\* The accept thread: the device is made and linked with the connection, then
\* attached, whatever became of the connection.
tcp_bus_thread ==
    /\ \/ /\ hst.thread = "accepted"
          /\ hst' = [hst EXCEPT !.thread = "linked", !.tcp = TRUE]
       \/ /\ hst.thread = "linked"
          /\ hst' = [hst EXCEPT !.thread = "done", !.pkt = NoPacket, !.up = TRUE]
    /\ UNCHANGED <<dev, h2d, d2h, gone, rst, pk, answered>>

-----------------------------------------------------------------------------
(* The ARM side. *)

\* What synopsys_usb_tcp_callback may return for a request.
Answers(h) == IF h.kind = "reset" THEN {0} ELSE {RET_NAK} \cup 0 .. Pos(h.len)

\* Mutant: the answer is not put into the header.
AnsweredNoLength(r, a) ==
    IF Reading(r)
    THEN [r EXCEPT !.e.state = "write_response", !.e.done = 0]
    ELSE r

\* data_callback returned a.
Answered(r, a) ==
    IF Reading(r)
    THEN [r EXCEPT !.e.state = "write_response", !.e.done = 0, !.e.hdr.len = a]
    ELSE r

DevFd(k, can) ==
    /\ ~gone
    /\ can => k > 0
    /\ dev.state = "idle" => can
    /\ \E q \in Reads(Idle(Call(dev, h2d, d2h, k, SockBuf - Len(d2h), can))) :
       \E a \in IF Reading(q) THEN Answers(q.e.hdr) ELSE {NoResult} :
       \E r \in Writes(Answered(q, a)) :
          /\ dev' = r.e
          /\ h2d' = r.rx
          /\ d2h' = r.tx
          /\ answered' = IF Reading(q) /\ q.e.hdr.tag # NoPacket
                         THEN [answered EXCEPT ![q.e.hdr.tag] = a]
                         ELSE answered
    /\ UNCHANGED <<hst, gone, rst, pk>>

\* A soft reset of the controller closes the socket, whatever is under way,
\* and opens a new connection (a new passthrough device on the other side).
DevSoftReset ==
    /\ "softreset" \in Ops
    /\ ~gone
    /\ gone' = TRUE
    /\ rst' = (h2d # <<>>)
    /\ h2d' = <<>>
    /\ UNCHANGED <<hst, dev, d2h, pk, answered>>

-----------------------------------------------------------------------------

Init ==
    /\ hst = [state |-> "idle", done |-> 0, hdr |-> NoHeader, buf |-> NoPacket,
              closed |-> FALSE, pkt |-> NoPacket, setup_len |-> 0,
              inside |-> FALSE, thread |-> "accepted", tcp |-> FALSE,
              up |-> FALSE, early |-> FALSE]
    /\ dev = [state |-> "idle", done |-> 0, hdr |-> NoHeader]
    /\ h2d = <<>>
    /\ d2h = <<>>
    /\ gone = FALSE
    /\ rst = FALSE
    /\ pk = [p \in Packets |-> [st |-> "new", kind |-> "out",
                                ret |-> NoResult, got |-> 0]]
    /\ answered = [p \in Packets |-> NoResult]

HostRuns == \E k \in 0 .. Len(d2h), can \in BOOLEAN : HostFd(k, can)
HostReturns == \E k \in 0 .. Len(d2h) : HostContinue(k)
DevRuns == \E k \in 0 .. Len(h2d), can \in BOOLEAN : DevFd(k, can)

Next ==
    \/ HostRuns
    \/ HostReturns
    \/ DevRuns
    \/ \E p \in Packets, len \in 0 .. MaxLen : passthrough_packet(p, "setup", len)
    \/ \E p \in Packets : passthrough_packet(p, "in", 0)
    \/ \E p \in Packets, len \in 0 .. MaxLen : passthrough_packet(p, "out", len)
    \/ \E p \in Packets : PacketRefused(p)
    \/ passthrough_cancel
    \/ passthrough_reset
    \/ tcp_bus_thread
    \/ DevSoftReset

\* Both main loops go on serving their sockets.
Fairness == WF_vars(HostRuns) /\ WF_vars(HostReturns) /\ WF_vars(DevRuns)

Spec == Init /\ [][Next]_vars /\ Fairness

-----------------------------------------------------------------------------
(* Properties. *)

TypeOK ==
    /\ hst \in [state : {"idle", "write_request", "read_response", "read_request"},
                done : 0 .. HeaderLen + MaxLen, hdr : Header,
                buf : Packets \cup {NoPacket}, closed : BOOLEAN,
                pkt : Packets \cup {NoPacket}, setup_len : 0 .. MaxLen,
                inside : BOOLEAN, thread : {"accepted", "linked", "done"},
                tcp : BOOLEAN, up : BOOLEAN, early : BOOLEAN]
    /\ dev \in [state : {"idle", "read_request", "write_response"},
                done : 0 .. HeaderLen + MaxLen, hdr : Header]
    /\ h2d \in Seq(Unit)
    /\ d2h \in Seq(Unit)
    /\ gone \in BOOLEAN
    /\ rst \in BOOLEAN
    /\ pk \in [Packets -> [st : {"new", "deferred", "stalled", "refused",
                                 "cancelled", "done"},
                           kind : {"setup", "in", "out"},
                           ret : Results \cup {NoResult}, got : 0 .. MaxLen]]
    /\ answered \in [Packets -> Results \cup {NoResult}]

\* The next unit each end will read is the one it takes it for, however the
\* bytes were cut up on the way: the framing of tcp_usb.c never slips.
NextSlot(e) == IF e.state = "idle" THEN 1
               ELSE IF e.done < HeaderLen THEN e.done + 1 ELSE 0
FramesIntact ==
    /\ h2d # <<>> => /\ dev.state \in {"idle", "read_request"}
                     /\ Head(h2d).slot = NextSlot(dev)
    /\ d2h # <<>> => /\ hst.state = "read_response"
                     /\ Head(d2h).slot = NextSlot(hst)

\* A pending packet has a transfer under way that will end in
\* passthrough_tcp; otherwise the device would refuse packets for ever.
NoWedge == hst.pkt # NoPacket => hst.state # "idle" \/ hst.closed

\* A completed IN has as many units in its buffer as its length says.
BuffersFilled ==
    \A p \in Packets :
        pk[p].st = "done" =>
            pk[p].got = IF pk[p].kind = "in" THEN Pos(pk[p].ret) ELSE 0

\* The link does what UsbTransfer promises.
Transfer == INSTANCE UsbTransfer WITH
    status <- [p \in Packets |-> CASE pk[p].st \in {"new", "refused"} -> "new"
                                   [] pk[p].st = "done" -> "done"
                                   [] pk[p].st = "cancelled" -> "cancelled"
                                   [] OTHER -> "pending"],
    answer <- answered,
    result <- [p \in Packets |-> pk[p].ret]
Implements == Transfer!Spec

\* Every deferred packet completes, unless it is cancelled or the device goes
\* away.
Completes ==
    \A p \in Packets :
        pk[p].st = "deferred" ~> (pk[p].st \in {"done", "cancelled"} \/ gone)

\* When the device closes the connection, the passthrough device notices,
\* whatever it was doing, and leaves the bus.  Two exceptions: a request that
\* cannot be sent any more is retried for ever, and a close that comes before
\* the accept thread has attached the device is overtaken by the attach.
PeerCloseNoticed ==
    gone ~> \/ hst.closed /\ ~hst.up
            \/ rst /\ hst.state = "write_request"
            \/ hst.early

\* "Notify the controller that an async packet is complete" (usb.h:278, of
\* usb_packet_complete): what is completed is a packet the controller was
\* told to wait for, not one that handle_packet refused.
CompletesOnlyAsync ==
    [][\A p \in Packets : pk[p].st # "done" /\ pk'[p].st = "done" =>
                              pk[p].st = "deferred"]_vars

=============================================================================
