---------------------------- MODULE TcpUsbProofs ----------------------------
(***************************************************************************)
(* Proofs about the USB link, for every number of packets, every length of *)
(* the data stages and every size of the socket buffers.                   *)
(***************************************************************************)
EXTENDS TcpUsb, SequenceTheorems, TLAPS

\* A host controller that waits for each transfer, and data stages too short
\* for a read or write of EWOULDBLOCK bytes: otherwise usb_overlap and
\* usb_eleven apply.
Orderly == "overlap" \notin Ops /\ EWouldBlock > MaxLen

\* A frame is a header h and its data: unit i of it, and its length when the
\* endpoint that sends or receives it is in the given state.
FrameUnit(h, i) == [slot |-> IF i <= HeaderLen THEN i ELSE 0, hdr |-> h]

Answering(state) == state \in {"write_response", "read_response"}

FrameLen(h, state) ==
    HeaderLen + IF Answering(state) <=> h.kind = "in" THEN Pos(h.len) ELSE 0

\* s holds the units m + 1 .. n of the frame of h.
Carrying(s, h, m, n) ==
    /\ s \in Seq(Unit)
    /\ m <= n /\ Len(s) = n - m
    /\ \A i \in 1 .. n - m : s[i] = FrameUnit(h, m + i)

\* g is what a receiver has of the header h after j units.
HeaderPart(g, h, j) == (j >= 1 => g.kind = h.kind) /\ (j >= HeaderLen => g = h)

-----------------------------------------------------------------------------
(* The inductive invariant. *)

\* Units of the request that the device has read.
DevPos == IF dev.state = "idle" THEN 0 ELSE dev.done

\* The x86 side has sent n units of its request.
Requesting(n) ==
    /\ dev.state \in {"idle", "read_request"}
    /\ DevPos < FrameLen(hst.hdr, "read_request")
    /\ HeaderPart(dev.hdr, hst.hdr, DevPos)
    /\ IF rst THEN h2d = <<>> ELSE Carrying(h2d, hst.hdr, DevPos, n)
    /\ d2h = <<>>

\* The ARM side has answered with the header it still has, and sent the units
\* of the response that the x86 side has not read.
Responding ==
    /\ dev.state \in {"idle", "write_response"}
    /\ dev.state = "write_response" => dev.done < FrameLen(dev.hdr, "write_response")
    /\ hst.done < FrameLen(dev.hdr, "read_response")
    /\ HeaderPart(hst.hdr, dev.hdr, hst.done)
    /\ Carrying(d2h, dev.hdr, hst.done,
                IF dev.state = "idle" THEN FrameLen(dev.hdr, "write_response")
                ELSE dev.done)
    /\ h2d = <<>>

\* Header h is that of the packet in the buffer, which has got units so far.
For(h, answer, got) ==
    /\ h.tag = hst.buf
    /\ h.kind = "reset" <=> hst.buf = NoPacket
    /\ hst.buf # NoPacket =>
          /\ h.kind = pk[hst.buf].kind
          /\ pk[hst.buf].st \in {"deferred", "cancelled"}
          /\ pk[hst.buf].got = got
          /\ answered[hst.buf] = answer

Quiescent == dev.state = "idle" /\ h2d = <<>> /\ d2h = <<>>

Sending ==
    /\ hst.state = "write_request"
    /\ hst.done < FrameLen(hst.hdr, "write_request")
    /\ Requesting(hst.done)
    /\ For(hst.hdr, NoResult, 0)

Awaiting ==
    /\ hst.state = "read_response" /\ hst.done = 0
    /\ Requesting(FrameLen(hst.hdr, "write_request"))
    /\ For(hst.hdr, NoResult, 0)

Receiving ==
    /\ hst.state = "read_response"
    /\ Responding
    /\ For(dev.hdr, dev.hdr.len, Pos(hst.done - HeaderLen))

\* Where the one transfer on the link is.
TransferInv ==
    \/ hst.state = "idle" /\ Quiescent
    \/ hst.state = "read_request" /\ hst.closed /\ gone /\ Quiescent
    \/ Sending
    \/ Awaiting
    \/ Receiving

\* The packet that passthrough_tcp would complete.
PacketInv ==
    /\ \A p \in Packets :
          /\ pk[p].st # "stalled"
          /\ pk[p].st = "deferred" <=> hst.pkt = p
          /\ pk[p].st = "new" => pk[p].got = 0 /\ answered[p] = NoResult
    /\ hst.pkt # NoPacket => hst.pkt = hst.buf /\ hst.state # "idle"
    /\ hst.thread # "done" => ~hst.up /\ hst.pkt = NoPacket
    /\ hst.inside => hst.state = "read_response"

SocketInv ==
    /\ ~gone => Len(h2d) <= SockBuf /\ Len(d2h) <= SockBuf
    /\ rst => gone

LinkInv == TypeOK /\ TransferInv /\ PacketInv /\ SocketInv /\ BuffersFilled

-----------------------------------------------------------------------------
(* Frames. *)

\* The small numbers of a link.
LEMMA LinkNumbers ==
    /\ MaxLen \in Nat /\ MaxLen >= 1 /\ MaxPackets \in Nat /\ SockBuf \in Nat
    /\ HeaderLen = 2 /\ NoPacket = 0 /\ NoResult = -2 /\ RET_NAK = -1
    /\ Results = -1 .. MaxLen /\ NoPacket \notin Packets /\ NoResult \notin Results
BY LinkAssumption DEF HeaderLen, NoPacket, NoResult, RET_NAK, Results, Packets

\* Frames have a header, and data within MaxLen.
LEMMA FrameLenType ==
    ASSUME NEW h \in Header, NEW state
    PROVE  /\ FrameLen(h, state) \in Nat
           /\ FrameLen(h, state) >= HeaderLen
           /\ FrameLen(h, state) <= HeaderLen + MaxLen
<1>1. h.len \in Results
  BY DEF Header
<1>2. Pos(h.len) \in 0 .. MaxLen
  BY <1>1, LinkNumbers DEF Pos
<1> QED BY <1>2, LinkNumbers DEF FrameLen

\* The units of a frame are units.
LEMMA FrameUnitType ==
    ASSUME NEW h \in Header, NEW i \in Nat \ {0}
    PROVE  FrameUnit(h, i) \in Unit
BY LinkNumbers DEF FrameUnit, Unit

\* Units sent go to the end of the stream.
LEMMA CarryingSend ==
    ASSUME NEW h \in Header, NEW m \in Nat, NEW n \in Nat, NEW s,
           Carrying(s, h, m, n), NEW d \in Nat, NEW t,
           t = [i \in 1 .. d |-> FrameUnit(h, n + i)]
    PROVE  Carrying(s \o t, h, m, n + d)
<1>1. t \in Seq(Unit) /\ Len(t) = d
  <2>1. \A i \in 1 .. d : FrameUnit(h, n + i) \in Unit
    BY FrameUnitType
  <2> QED BY <2>1
<1>2. s \in Seq(Unit) /\ m <= n /\ Len(s) = n - m
  BY DEF Carrying
<1>3. s \o t \in Seq(Unit) /\ Len(s \o t) = Len(s) + Len(t)
  BY <1>1, <1>2
<1>4. ASSUME NEW i \in 1 .. (n + d) - m
      PROVE  (s \o t)[i] = FrameUnit(h, m + i)
  <2>1. CASE i <= n - m
    <3>1. (s \o t)[i] = s[i]
      BY <1>1, <1>2, <2>1
    <3> QED BY <2>1, <3>1 DEF Carrying
  <2>2. CASE i > n - m
    <3>1. (s \o t)[i] = t[i - Len(s)]
      <4>1. i \in 1 .. Len(s) + Len(t) /\ ~(i <= Len(s))
        BY <1>1, <1>2, <2>2
      <4> QED BY <1>1, <1>2, <4>1, ConcatProperties
    <3>2. i - Len(s) \in 1 .. d /\ n + (i - Len(s)) = m + i
      BY <1>2, <2>2
    <3>3. t[i - Len(s)] = FrameUnit(h, n + (i - Len(s)))
      BY <3>2
    <3> QED BY <3>1, <3>2, <3>3
  <2> QED BY <1>2, <2>1, <2>2
<1>5. m <= n + d /\ Len(s \o t) = (n + d) - m
  BY <1>1, <1>2, <1>3
<1> QED BY <1>3, <1>4, <1>5 DEF Carrying

\* Units read are taken from the front.
LEMMA CarryingRead ==
    ASSUME NEW h \in Header, NEW m \in Nat, NEW n \in Nat, NEW s,
           Carrying(s, h, m, n), NEW d \in 0 .. n - m
    PROVE  Carrying(SubSeq(s, d + 1, Len(s)), h, m + d, n)
<1>1. s \in Seq(Unit) /\ m <= n /\ Len(s) = n - m
  BY DEF Carrying
<1> DEFINE t == SubSeq(s, d + 1, Len(s))
<1>2. t \in Seq(Unit) /\ Len(t) = n - (m + d)
  <2>1. \A i \in (d + 1) .. Len(s) : s[i] \in Unit
    BY <1>1
  <2> QED BY <1>1, <2>1
<1>3. ASSUME NEW i \in 1 .. n - (m + d)
      PROVE  t[i] = FrameUnit(h, (m + d) + i)
  <2>1. t[i] = s[d + i] /\ d + i \in 1 .. n - m /\ m + (d + i) = (m + d) + i
    BY <1>1
  <2>2. s[d + i] = FrameUnit(h, m + (d + i))
    BY <2>1 DEF Carrying
  <2> QED BY <2>1, <2>2
<1> QED BY <1>1, <1>2, <1>3 DEF Carrying

\* An empty stream carries nothing of any frame.
LEMMA CarryingNone ==
    ASSUME NEW h, NEW m \in Nat
    PROVE  Carrying(<<>>, h, m, m)
BY DEF Carrying

\* A stream that carries nothing is empty.
LEMMA CarryingEmpty ==
    ASSUME NEW h, NEW m \in Nat, NEW s, Carrying(s, h, m, m)
    PROVE  s = <<>>
BY DEF Carrying

-----------------------------------------------------------------------------
(* The parts of a call. *)

States == {"idle", "write_request", "read_response", "read_request", "write_response"}

HostEnd == [state : States, done : Nat, hdr : Header,
            buf : Packets \cup {NoPacket}, closed : BOOLEAN,
            pkt : Packets \cup {NoPacket}, setup_len : 0 .. MaxLen,
            inside : BOOLEAN, thread : {"accepted", "linked", "done"},
            tcp : BOOLEAN, up : BOOLEAN, early : BOOLEAN]

DevEnd == [state : States, done : Nat, hdr : Header]

Ends == HostEnd \cup DevEnd

Calls == [e : Ends, rx : Seq(Unit), tx : Seq(Unit), k : Nat, room : Nat,
          can : BOOLEAN, go : BOOLEAN, shut : BOOLEAN, got : Nat]

\* All that the parts of a call change of an endpoint.
Moved(e, s, n, h) == [e EXCEPT !.state = s, !.done = n, !.hdr = h]

\* Fields of a moved endpoint.
LEMMA MovedFacts ==
    ASSUME NEW e \in Ends, NEW s \in States, NEW n \in Nat, NEW h \in Header
    PROVE  /\ Moved(e, s, n, h) \in Ends
           /\ Moved(e, s, n, h).state = s
           /\ Moved(e, s, n, h).done = n
           /\ Moved(e, s, n, h).hdr = h
<1>1. CASE e \in HostEnd
  BY <1>1 DEF Moved, Ends, HostEnd
<1>2. CASE e \in DevEnd
  BY <1>2 DEF Moved, Ends, DevEnd
<1> QED BY <1>1, <1>2 DEF Ends

\* A moved endpoint keeps its side, and everything else it has.
LEMMA MovedSide ==
    ASSUME NEW e, NEW s \in States, NEW n \in Nat, NEW h \in Header
    PROVE  /\ e \in HostEnd =>
                 /\ Moved(e, s, n, h) \in HostEnd
                 /\ Moved(e, s, n, h).buf = e.buf /\ Moved(e, s, n, h).pkt = e.pkt
                 /\ Moved(e, s, n, h).closed = e.closed
                 /\ Moved(e, s, n, h).setup_len = e.setup_len
                 /\ Moved(e, s, n, h).inside = e.inside
                 /\ Moved(e, s, n, h).thread = e.thread
                 /\ Moved(e, s, n, h).tcp = e.tcp /\ Moved(e, s, n, h).up = e.up
                 /\ Moved(e, s, n, h).early = e.early
           /\ e \in DevEnd => Moved(e, s, n, h) \in DevEnd
<1>1. CASE e \in HostEnd
  BY <1>1 DEF Moved, HostEnd, DevEnd
<1>2. CASE e \in DevEnd
  BY <1>2 DEF Moved, HostEnd, DevEnd
<1> QED BY <1>1, <1>2

\* Two moves are one, and an endpoint that stays is moved to where it is.
LEMMA MovedTwice ==
    ASSUME NEW e \in Ends, NEW s, NEW n, NEW h, NEW s2, NEW n2, NEW h2
    PROVE  /\ Moved(Moved(e, s, n, h), s2, n2, h2) = Moved(e, s2, n2, h2)
           /\ Moved(e, e.state, e.done, e.hdr) = e
<1>1. CASE e \in HostEnd
  BY <1>1 DEF Moved, HostEnd
<1>2. CASE e \in DevEnd
  BY <1>2 DEF Moved, DevEnd
<1> QED BY <1>1, <1>2 DEF Ends

\* Fields of an endpoint.
LEMMA EndTypes ==
    ASSUME NEW e \in Ends
    PROVE  e.state \in States /\ e.done \in Nat /\ e.hdr \in Header
BY DEF Ends, HostEnd, DevEnd

\* Updates of an endpoint are moves.
LEMMA EndUpdates ==
    ASSUME NEW e \in Ends, NEW s, NEW n, NEW h
    PROVE  /\ [e EXCEPT !.done = n] = Moved(e, e.state, n, e.hdr)
           /\ [e EXCEPT !.state = s] = Moved(e, s, e.done, e.hdr)
           /\ [e EXCEPT !.state = s, !.done = n] = Moved(e, s, n, e.hdr)
<1>1. CASE e \in HostEnd
  BY <1>1 DEF Moved, HostEnd
<1>2. CASE e \in DevEnd
  BY <1>2 DEF Moved, DevEnd
<1> QED BY <1>1, <1>2 DEF Ends

\* So is a header that is filled in.
LEMMA HeaderMoved ==
    ASSUME NEW e \in Ends, NEW n, NEW h
    PROVE  [e EXCEPT !.hdr = h, !.done = n] = Moved(e, e.state, n, h)
<1>1. CASE e \in HostEnd
  BY <1>1 DEF Moved, HostEnd
<1>2. CASE e \in DevEnd
  BY <1>2 DEF Moved, DevEnd
<1> QED BY <1>1, <1>2 DEF Ends

\* Data goes with the frames that FrameLen says.
LEMMA CarriesLen ==
    ASSUME NEW e \in Ends
    PROVE  /\ Carries(e) => /\ FrameLen(e.hdr, e.state) = HeaderLen + e.hdr.len
                            /\ e.hdr.len \in 1 .. MaxLen
           /\ ~Carries(e) => FrameLen(e.hdr, e.state) = HeaderLen
<1>1. e.hdr.len \in -1 .. MaxLen
  BY EndTypes, LinkNumbers DEF Header
<1>2. Carries(e) <=> (Answering(e.state) <=> e.hdr.kind = "in") /\ e.hdr.len > 0
  BY DEF Carries, Answering
<1> QED BY <1>1, <1>2, LinkNumbers DEF FrameLen, Pos

\* What is left of a data stage, when no read or write moves EWOULDBLOCK.
LEMMA DataCounts ==
    ASSUME Orderly, NEW e \in Ends, Carries(e), e.done >= HeaderLen,
           e.done <= FrameLen(e.hdr, e.state), NEW k \in Nat
    PROVE  /\ Left(e) = FrameLen(e.hdr, e.state) - e.done
           /\ Lesser(k, Left(e)) \in 0 .. k
           /\ e.done + Lesser(k, Left(e)) <= FrameLen(e.hdr, e.state)
           /\ Counted(Lesser(k, Left(e))) = Lesser(k, Left(e))
<1>1. FrameLen(e.hdr, e.state) = HeaderLen + e.hdr.len /\ e.hdr.len \in 1 .. MaxLen
      /\ e.done \in Nat
  BY CarriesLen, EndTypes
<1>2. Left(e) = FrameLen(e.hdr, e.state) - e.done /\ Left(e) \in 0 .. MaxLen
  BY <1>1, LinkNumbers DEF Left, Pos
<1>3. Lesser(k, Left(e)) \in 0 .. k /\ Lesser(k, Left(e)) <= Left(e)
  BY <1>2, LinkNumbers DEF Lesser
<1>4. Lesser(k, Left(e)) # EWouldBlock
  BY <1>2, <1>3, LinkNumbers, LinkAssumption DEF Orderly
<1> QED BY <1>1, <1>2, <1>3, <1>4, LinkNumbers DEF Counted

\* w is r after a write: of what r could read, nothing has changed.
SameReads(r, w) ==
    /\ w.rx = r.rx /\ w.k = r.k /\ w.can = r.can /\ w.shut = r.shut /\ w.got = r.got

\* w is r after n units of its frame were written.
Wrote(r, w, m, n) ==
    /\ w \in Calls /\ SameReads(r, w)
    /\ n <= r.room /\ w.room = r.room - n
    /\ w.e = Moved(r.e, r.e.state, r.e.done + n, r.e.hdr)
    /\ Carrying(w.tx, r.e.hdr, m, r.e.done + n)

\* The header of a frame.
LEMMA WriteHeaderStep ==
    ASSUME NEW r \in Calls, Writing(r), NEW m \in Nat,
           Carrying(r.tx, r.e.hdr, m, r.e.done)
    PROVE  \E n \in Nat :
              /\ Wrote(r, WriteHeader(r), m, n)
              /\ r.e.done + n <= HeaderLen \/ n = 0
              /\ WriteHeader(r).go <=> r.e.done + n >= HeaderLen
<1> DEFINE w == WriteHeader(r)
           e == r.e
<1>1. /\ e \in Ends /\ e.state \in States /\ e.done \in Nat /\ e.hdr \in Header
      /\ r.room \in Nat /\ r.tx \in Seq(Unit)
  BY EndTypes DEF Calls
<1>2. CASE e.done >= HeaderLen
  <2>1. w = r
    BY <1>2 DEF WriteHeader
  <2>2. Wrote(r, w, m, 0)
    <3>1. e.done + 0 = e.done /\ r.room - 0 = r.room /\ 0 <= r.room
      BY <1>1
    <3>2. e = Moved(e, e.state, e.done + 0, e.hdr)
      BY <1>1, <3>1, MovedTwice, Zenon
    <3> QED BY <2>1, <3>1, <3>2 DEF Wrote, SameReads
  <2>3. r.go
    BY DEF Writing
  <2> QED BY <1>1, <1>2, <2>1, <2>2, <2>3
<1>3. CASE ~(e.done >= HeaderLen)
  <2> DEFINE n == Lesser(r.room, HeaderLen - e.done)
             t == [i \in 1 .. n |-> [slot |-> e.done + i, hdr |-> e.hdr]]
             f == [e EXCEPT !.done = e.done + n]
  <2>1. n \in Nat /\ n <= r.room /\ e.done + n <= HeaderLen /\ r.room - n \in Nat
    BY <1>1, <1>3, LinkNumbers DEF Lesser
  <2>2. w = [r EXCEPT !.tx = r.tx \o t, !.e.done = e.done + n, !.room = r.room - n,
                      !.go = e.done + n >= HeaderLen]
    BY <1>3 DEF WriteHeader
  <2> HIDE DEF n
  <2>3. t = [i \in 1 .. n |-> FrameUnit(e.hdr, e.done + i)]
    BY <1>1, <2>1, LinkNumbers DEF FrameUnit
  <2> HIDE DEF t
  <2>4. Carrying(r.tx \o t, e.hdr, m, e.done + n)
    BY <1>1, <2>1, <2>3, CarryingSend
  <2>5. r.tx \o t \in Seq(Unit)
    BY <2>4 DEF Carrying
  <2>6. f = Moved(e, e.state, e.done + n, e.hdr) /\ f \in Ends
    <3>1. e.done + n \in Nat
      BY <1>1, <2>1
    <3>2. f = Moved(e, e.state, e.done + n, e.hdr)
      BY <1>1, EndUpdates, Zenon
    <3>3. Moved(e, e.state, e.done + n, e.hdr) \in Ends
      BY <1>1, <3>1, MovedFacts, Zenon
    <3> HIDE DEF f
    <3> QED BY <3>2, <3>3
  <2>7. (e.done + n >= HeaderLen) \in BOOLEAN
    BY <1>1, <2>1, LinkNumbers
  <2>8. w = [r EXCEPT !.tx = r.tx \o t, !.e = f, !.room = r.room - n,
                      !.go = e.done + n >= HeaderLen]
    BY <2>2 DEF Calls
  <2> HIDE DEF f, w
  <2>9. w \in Calls /\ SameReads(r, w)
    BY <2>1, <2>5, <2>6, <2>7, <2>8 DEF Calls, SameReads
  <2>10. w.e = f /\ w.tx = r.tx \o t /\ w.room = r.room - n
         /\ (w.go <=> e.done + n >= HeaderLen)
    BY <2>8 DEF Calls
  <2>11. Wrote(r, w, m, n)
    BY <2>1, <2>4, <2>6, <2>9, <2>10 DEF Wrote
  <2> QED BY <2>1, <2>10, <2>11 DEF w
<1> QED BY <1>2, <1>3

\* The data of a frame.
LEMMA WriteDataStep ==
    ASSUME Orderly, NEW r \in Calls, Writing(r), NEW m \in Nat,
           Carrying(r.tx, r.e.hdr, m, r.e.done),
           r.e.done >= HeaderLen, r.e.done <= FrameLen(r.e.hdr, r.e.state)
    PROVE  \E n \in Nat :
              /\ Wrote(r, WriteData(r), m, n)
              /\ r.e.done + n <= FrameLen(r.e.hdr, r.e.state)
              /\ WriteData(r).go <=> r.e.done + n = FrameLen(r.e.hdr, r.e.state)
<1> DEFINE w == WriteData(r)
           e == r.e
           all == FrameLen(e.hdr, e.state)
<1>1. /\ e \in Ends /\ e.state \in States /\ e.done \in Nat /\ e.hdr \in Header
      /\ r.room \in Nat /\ r.tx \in Seq(Unit) /\ r.go
  BY EndTypes DEF Calls, Writing
<1>2. all \in Nat /\ all >= HeaderLen
  BY <1>1, FrameLenType
<1>3. CASE ~Carries(e)
  <2>1. w = r
    BY <1>3 DEF WriteData
  <2>2. Wrote(r, w, m, 0)
    <3>1. e.done + 0 = e.done /\ r.room - 0 = r.room /\ 0 <= r.room
      BY <1>1
    <3>2. e = Moved(e, e.state, e.done + 0, e.hdr)
      BY <1>1, <3>1, MovedTwice, Zenon
    <3> QED BY <2>1, <3>1, <3>2 DEF Wrote, SameReads
  <2>3. e.done + 0 = all
    BY <1>1, <1>3, CarriesLen, LinkNumbers
  <2> QED BY <1>1, <1>2, <2>1, <2>2, <2>3
<1>4. CASE Carries(e)
  <2> DEFINE n == Lesser(r.room, Left(e))
             t == [i \in 1 .. n |-> [slot |-> 0, hdr |-> e.hdr]]
             f == [e EXCEPT !.done = e.done + n]
  <2>1. /\ n \in Nat /\ n <= r.room /\ e.done + n <= all /\ r.room - n \in Nat
        /\ Counted(n) = n /\ Left(e) = all - e.done
    BY <1>1, <1>4, DataCounts
  <2>2. w = [r EXCEPT !.tx = r.tx \o t, !.e.done = e.done + Counted(n),
                      !.room = r.room - n, !.go = Counted(n) = Left(e)]
    BY <1>1, <1>4 DEF WriteData
  <2> HIDE DEF n
  <2>3. t = [i \in 1 .. n |-> FrameUnit(e.hdr, e.done + i)]
    BY <1>1, <2>1, LinkNumbers DEF FrameUnit
  <2> HIDE DEF t
  <2>4. Carrying(r.tx \o t, e.hdr, m, e.done + n)
    BY <1>1, <2>1, <2>3, CarryingSend
  <2>5. r.tx \o t \in Seq(Unit)
    BY <2>4 DEF Carrying
  <2>6. f = Moved(e, e.state, e.done + n, e.hdr) /\ f \in Ends
    <3>1. e.done + n \in Nat
      BY <1>1, <2>1
    <3>2. f = Moved(e, e.state, e.done + n, e.hdr)
      BY <1>1, EndUpdates, Zenon
    <3>3. Moved(e, e.state, e.done + n, e.hdr) \in Ends
      BY <1>1, <3>1, MovedFacts, Zenon
    <3> HIDE DEF f
    <3> QED BY <3>2, <3>3
  <2> DEFINE g == Counted(n) = Left(e)
  <2>7. g \in BOOLEAN /\ (g <=> e.done + n = all)
    BY <1>1, <1>2, <2>1, LinkNumbers
  <2>8. w = [r EXCEPT !.tx = r.tx \o t, !.e = f, !.room = r.room - n, !.go = g]
    BY <2>1, <2>2 DEF Calls
  <2> HIDE DEF f, w, g, all
  <2>9. w \in Calls /\ SameReads(r, w)
    BY <2>1, <2>5, <2>6, <2>7, <2>8 DEF Calls, SameReads
  <2>10. w.e = f /\ w.tx = r.tx \o t /\ w.room = r.room - n /\ w.go = g
    BY <2>8 DEF Calls
  <2>11. Wrote(r, w, m, n)
    BY <2>1, <2>4, <2>6, <2>9, <2>10 DEF Wrote
  <2> QED BY <2>1, <2>7, <2>10, <2>11 DEF w, all
<1> QED BY <1>3, <1>4

\* A call that does not write is left alone by its writes.
LEMMA NoWrites ==
    ASSUME NEW r, ~Writing(r)
    PROVE  Writes(r) = {r}
BY DEF Writes, WriteHeader, WriteData, Written

\* One that does not read is left alone by its reads.
LEMMA NoReads ==
    ASSUME NEW r, ~Reading(r)
    PROVE  Reads(r) = {r}
BY DEF Reads, ReadHeader, ReadData

\* n units of a frame have gone out: the call is over, or the whole frame has
\* and the endpoint goes on to its next state.
Sent(r, x, m, n) ==
    LET all == FrameLen(r.e.hdr, r.e.state)
    IN  /\ x \in Calls /\ SameReads(r, x) /\ n <= r.room
        /\ r.e.done + n <= all
        /\ Carrying(x.tx, r.e.hdr, m, r.e.done + n)
        /\ r.e.done + n < all =>
              ~x.go /\ x.e = Moved(r.e, r.e.state, r.e.done + n, r.e.hdr)
        /\ r.e.done + n = all =>
              IF r.e.state = "write_request"
              THEN x.go /\ x.e = Moved(r.e, "read_response", 0, r.e.hdr)
              ELSE ~x.go /\ x.e = Moved(r.e, "idle", all, r.e.hdr)

\* The writes of a call.
LEMMA WritesDo ==
    ASSUME Orderly, NEW r \in Calls, Writing(r), NEW m \in Nat,
           Carrying(r.tx, r.e.hdr, m, r.e.done),
           r.e.done < FrameLen(r.e.hdr, r.e.state), NEW x \in Writes(r)
    PROVE  \E n \in Nat : Sent(r, x, m, n)
<1> DEFINE e == r.e
           all == FrameLen(e.hdr, e.state)
           h == WriteHeader(r)
           d == WriteData(h)
<1>1. /\ e \in Ends /\ e.state \in States /\ e.done \in Nat /\ e.hdr \in Header
      /\ r.room \in Nat /\ r.go
      /\ e.state = "write_request" \/ e.state = "write_response"
  BY EndTypes DEF Calls, Writing
<1>2. all \in Nat /\ all >= HeaderLen /\ HeaderLen = 2
  BY <1>1, FrameLenType, LinkNumbers
<1>3. x = Written(d)
  BY DEF Writes
<1>4. PICK n1 \in Nat : /\ Wrote(r, h, m, n1)
                        /\ e.done + n1 <= HeaderLen \/ n1 = 0
                        /\ h.go <=> e.done + n1 >= HeaderLen
  BY WriteHeaderStep
<1> HIDE DEF h
<1>5. h.e.state = e.state /\ h.e.done = e.done + n1 /\ h.e.hdr = e.hdr /\ h \in Calls
  <2>1. e.done + n1 \in Nat
    BY <1>1
  <2> QED BY <1>1, <1>4, <2>1, MovedFacts DEF Wrote
<1>6. CASE ~h.go
  <2>1. x = h
    BY <1>3, <1>6 DEF WriteData, Written, Writing
  <2>2. e.done + n1 < all
    BY <1>1, <1>2, <1>4, <1>6
  <2> QED BY <1>1, <1>2, <1>4, <1>6, <2>1, <2>2 DEF Sent, Wrote
<1>7. CASE h.go
  <2>1. Writing(h) /\ h.e.done >= HeaderLen /\ h.e.done <= FrameLen(h.e.hdr, h.e.state)
    BY <1>1, <1>2, <1>4, <1>5, <1>7 DEF Writing
  <2>2. Carrying(h.tx, h.e.hdr, m, h.e.done)
    BY <1>4, <1>5 DEF Wrote
  <2>3. PICK n2 \in Nat : /\ Wrote(h, d, m, n2)
                          /\ h.e.done + n2 <= FrameLen(h.e.hdr, h.e.state)
                          /\ d.go <=> h.e.done + n2 = FrameLen(h.e.hdr, h.e.state)
    BY <1>5, <2>1, <2>2, WriteDataStep
  <2> HIDE DEF d
  <2> DEFINE n == n1 + n2
             q == e.done + n
  <2>4. n \in Nat /\ q \in Nat /\ h.e.done + n2 = q /\ n <= r.room
    BY <1>1, <1>4, <1>5, <2>3 DEF Wrote
  <2>5. d.e = Moved(e, e.state, q, e.hdr)
    <3>1. d.e = Moved(h.e, e.state, q, e.hdr)
      BY <1>5, <2>3, <2>4 DEF Wrote
    <3>2. h.e = Moved(e, e.state, e.done + n1, e.hdr)
      BY <1>4 DEF Wrote
    <3> QED BY <1>1, <3>1, <3>2, MovedTwice
  <2>6. /\ d \in Calls /\ SameReads(r, d) /\ Carrying(d.tx, e.hdr, m, q) /\ q <= all
        /\ d.go <=> q = all
    BY <1>4, <1>5, <2>3, <2>4 DEF Wrote, SameReads
  <2> HIDE DEF q, n, all
  <2>7. d.e \in Ends /\ d.e.state = e.state /\ d.e.done = q /\ d.e.hdr = e.hdr
    BY <1>1, <2>4, <2>5, MovedFacts
  <2>8. CASE ~d.go
    <3>1. x = d
      BY <1>3, <2>8 DEF Written, Writing
    <3>2. Sent(r, x, m, n)
      BY <1>2, <2>4, <2>5, <2>6, <2>8, <3>1 DEF Sent, q, all
    <3> QED BY <2>4, <3>2
  <2>9. CASE d.go /\ e.state = "write_request"
    <3>1. x = [d EXCEPT !.e.state = "read_response", !.e.done = 0]
      BY <1>3, <2>7, <2>9 DEF Written, Writing
    <3> DEFINE f == [d.e EXCEPT !.state = "read_response", !.done = 0]
    <3>2. f = Moved(d.e, "read_response", 0, e.hdr)
      <4>1. f = Moved(d.e, "read_response", 0, d.e.hdr)
        BY <2>7, EndUpdates, Zenon
      <4> HIDE DEF f
      <4> QED BY <2>7, <4>1
    <3>3. f = Moved(e, "read_response", 0, e.hdr)
      BY <1>1, <2>5, <3>2, MovedTwice
    <3>4. f \in Ends
      <4>1. "read_response" \in States /\ 0 \in Nat
        BY DEF States
      <4> HIDE DEF f
      <4> QED BY <1>1, <3>3, <4>1, MovedFacts
    <3>5. x = [d EXCEPT !.e = f]
      BY <2>6, <3>1 DEF Calls
    <3> HIDE DEF f
    <3>6. x \in Calls /\ x.e = f /\ x.go = d.go /\ x.tx = d.tx /\ SameReads(d, x)
      BY <2>6, <3>4, <3>5 DEF Calls, SameReads
    <3>7. Sent(r, x, m, n)
      BY <2>4, <2>6, <2>9, <3>3, <3>6 DEF Sent, SameReads, q, all
    <3> QED BY <2>4, <3>7
  <2>10. CASE d.go /\ e.state # "write_request"
    <3>1. x = [d EXCEPT !.e.state = "idle", !.go = FALSE]
      BY <1>1, <1>3, <2>7, <2>10 DEF Written, Writing
    <3> DEFINE f == [d.e EXCEPT !.state = "idle"]
    <3>2. f = Moved(d.e, "idle", q, e.hdr)
      <4>1. f = Moved(d.e, "idle", d.e.done, d.e.hdr)
        BY <2>7, EndUpdates, Zenon
      <4> HIDE DEF f
      <4> QED BY <2>7, <4>1
    <3>3. f = Moved(e, "idle", q, e.hdr)
      BY <1>1, <2>5, <3>2, MovedTwice
    <3>4. f \in Ends
      BY <1>1, <2>4, <3>3, MovedFacts DEF States
    <3>5. x = [d EXCEPT !.e = f, !.go = FALSE]
      BY <2>6, <3>1 DEF Calls
    <3> HIDE DEF f
    <3>6. x \in Calls /\ x.e = f /\ ~x.go /\ x.tx = d.tx /\ SameReads(d, x)
      BY <2>6, <3>4, <3>5 DEF Calls, SameReads
    <3>7. Sent(r, x, m, n)
      BY <2>4, <2>6, <2>10, <3>3, <3>6 DEF Sent, SameReads, q, all
    <3> QED BY <2>4, <3>7
  <2> QED BY <2>8, <2>9, <2>10
<1> QED BY <1>6, <1>7

\* x is r after d more units of the frame of h, whose first n were sent.
Received(r, x, h, n, d) ==
    /\ x \in Calls /\ x.tx = r.tx /\ x.room = r.room /\ x.k = r.k - d
    /\ x.e = Moved(r.e, r.e.state, r.e.done + d, x.e.hdr)
    /\ d = 0 => x.e = r.e
    /\ HeaderPart(x.e.hdr, h, r.e.done + d)
    /\ Carrying(x.rx, h, r.e.done + d, n)

\* The units of a header arrive as they were sent, wherever it is cut.
LEMMA FilledRight ==
    ASSUME NEW e \in Ends, NEW h \in Header, NEW n \in Nat, NEW s,
           Carrying(s, h, e.done, n), NEW d \in 0 .. n - e.done,
           e.done + d <= HeaderLen, HeaderPart(e.hdr, h, e.done)
    PROVE  /\ Filled(e, s, d) \in Header
           /\ HeaderPart(Filled(e, s, d), h, e.done + d)
           /\ d = 0 => Filled(e, s, d) = e.hdr
<1> DEFINE j == e.done
           f == Filled(e, s, d)
<1>1. j \in Nat /\ e.hdr \in Header /\ HeaderLen = 2 /\ d \in Nat
  BY EndTypes, LinkNumbers
<1>2. ASSUME NEW i \in 1 .. d PROVE s[i].hdr = h
  <2>1. i \in 1 .. n - j
    BY <1>1
  <2>2. s[i] = FrameUnit(h, j + i)
    BY <2>1 DEF Carrying
  <2> QED BY <2>2 DEF FrameUnit
<1>3. /\ 1 \in j + 1 .. j + d => s[1 - j].hdr = h /\ j = 0
      /\ 2 \in j + 1 .. j + d => s[2 - j].hdr = h /\ j <= 1
  BY <1>1, <1>2
<1>4. /\ f.kind = IF 1 \in j + 1 .. j + d THEN h.kind ELSE e.hdr.kind
      /\ f.len = IF 2 \in j + 1 .. j + d THEN h.len ELSE e.hdr.len
      /\ f.tag = IF 2 \in j + 1 .. j + d THEN h.tag ELSE e.hdr.tag
      /\ f = [kind |-> f.kind, len |-> f.len, tag |-> f.tag]
  BY <1>3 DEF Filled
<1>5. \A a, b \in Header : a.kind = b.kind /\ a.len = b.len /\ a.tag = b.tag => a = b
  BY DEF Header
<1> HIDE DEF f
<1>6. f \in Header
  BY <1>1, <1>4 DEF Header
<1>7. d = 0 => f = e.hdr
  BY <1>1, <1>4, <1>5, <1>6
<1>8. j + d >= 1 => f.kind = h.kind
  BY <1>1, <1>4 DEF HeaderPart
<1>9. j + d >= 2 => f = h
  <2> SUFFICES ASSUME j + d >= 2 PROVE f = h
    OBVIOUS
  <2>1. CASE j >= 2
    BY <1>1, <1>7, <2>1 DEF HeaderPart
  <2>2. CASE j < 2
    <3>1. 2 \in j + 1 .. j + d
      BY <1>1, <2>2
    <3> QED BY <1>1, <1>4, <1>5, <1>6, <1>8, <3>1
  <2> QED BY <1>1, <2>1, <2>2
<1> QED BY <1>1, <1>6, <1>7, <1>8, <1>9 DEF HeaderPart, f

\* r can read what there is of the frame of h, and has not done so yet.
Readable(r, h, n) ==
    /\ ~r.shut /\ r.got = 0
    /\ Carrying(r.rx, h, r.e.done, n) /\ r.k <= n - r.e.done
    /\ HeaderPart(r.e.hdr, h, r.e.done)

\* The header of a frame.
LEMMA ReadHeaderStep ==
    ASSUME NEW r \in Calls, Reading(r), NEW h \in Header, NEW n \in Nat,
           Readable(r, h, n)
    PROVE  \E d \in 0 .. r.k :
              /\ Received(r, ReadHeader(r), h, n, d)
              /\ r.e.done + d <= HeaderLen \/ d = 0
              /\ ReadHeader(r).got = 0
              /\ ReadHeader(r).go <=> r.e.done + d >= HeaderLen
              /\ ReadHeader(r).shut <=> r.e.done < HeaderLen /\ d = 0 /\ r.can
<1> DEFINE x == ReadHeader(r)
           e == r.e
<1>1. /\ e \in Ends /\ e.state \in States /\ e.done \in Nat /\ e.hdr \in Header
      /\ r.k \in Nat /\ r.rx \in Seq(Unit) /\ r.go /\ HeaderLen = 2
  BY EndTypes, LinkNumbers DEF Calls, Reading
<1>0. /\ ~r.shut /\ r.got = 0 /\ r.k <= n - e.done
      /\ Carrying(r.rx, h, e.done, n) /\ HeaderPart(e.hdr, h, e.done)
  BY DEF Readable
<1>2. CASE e.done >= HeaderLen
  <2>1. x = r
    BY <1>2 DEF ReadHeader
  <2>2. Received(r, x, h, n, 0)
    <3>1. e.done + 0 = e.done /\ r.k - 0 = r.k
      BY <1>1
    <3>2. e = Moved(e, e.state, e.done + 0, e.hdr)
      BY <1>1, <3>1, MovedTwice, Zenon
    <3> QED BY <1>0, <2>1, <3>1, <3>2 DEF Received
  <2>3. ~(e.done < HeaderLen) /\ e.done + 0 >= HeaderLen /\ 0 \in 0 .. r.k
    BY <1>1, <1>2
  <2> QED BY <1>0, <1>1, <2>1, <2>2, <2>3
<1>3. CASE ~(e.done >= HeaderLen)
  <2> DEFINE d == Lesser(r.k, HeaderLen - e.done)
             g == Filled(e, r.rx, d)
             t == SubSeq(r.rx, d + 1, Len(r.rx))
             f == [e EXCEPT !.hdr = g, !.done = e.done + d]
             c == r.can /\ d = 0
             b == e.done + d >= HeaderLen
             z == d = 0 /\ r.can
  <2>1. /\ d \in 0 .. r.k /\ d \in 0 .. n - e.done /\ e.done + d <= HeaderLen
        /\ r.k - d \in Nat /\ e.done + d \in Nat /\ e.done < HeaderLen
    <3>1. HeaderLen - e.done \in Nat /\ n - e.done \in Nat
      BY <1>0, <1>1, <1>3 DEF Carrying
    <3>2. \A i, m \in Nat : Lesser(i, m) \in 0 .. i /\ Lesser(i, m) <= m
      BY DEF Lesser
    <3>3. d \in 0 .. r.k /\ d <= HeaderLen - e.done
      BY <1>1, <3>1, <3>2
    <3> HIDE DEF d
    <3>4. d <= r.k /\ r.k <= n - e.done /\ d \in Nat
      BY <1>0, <1>1, <3>3
    <3>5. \A i, m, k, a \in Nat : i <= m /\ i <= k /\ k <= a =>
             i \in 0 .. k /\ i \in 0 .. a /\ k - i \in Nat
      OBVIOUS
    <3>6. d \in 0 .. n - e.done /\ r.k - d \in Nat
      BY <1>1, <3>1, <3>3, <3>4, <3>5
    <3> QED BY <1>1, <1>3, <3>3, <3>4, <3>6
  <2>2. x = [r EXCEPT !.e.hdr = g, !.e.done = e.done + d, !.rx = t,
                      !.k = r.k - d, !.can = c, !.go = b, !.shut = z]
    BY <1>3 DEF ReadHeader
  <2> HIDE DEF d
  <2>3. /\ g \in Header /\ HeaderPart(g, h, e.done + d) /\ (d = 0 => g = e.hdr)
    BY <1>0, <1>1, <2>1, FilledRight
  <2> HIDE DEF g
  <2>4. Carrying(t, h, e.done + d, n)
    BY <1>0, <1>1, <2>1, CarryingRead
  <2>5. t \in Seq(Unit)
    BY <2>4 DEF Carrying
  <2> HIDE DEF t
  <2>6. f = Moved(e, e.state, e.done + d, g)
    BY <1>1, HeaderMoved, Zenon
  <2>7. x = [r EXCEPT !.e = f, !.rx = t, !.k = r.k - d, !.can = c, !.go = b, !.shut = z]
    BY <2>2 DEF Calls
  <2> HIDE DEF f, x
  <2>8. f \in Ends /\ f.hdr = g
    <3>1. /\ Moved(e, e.state, e.done + d, g) \in Ends
          /\ Moved(e, e.state, e.done + d, g).hdr = g
      <4>1. PICK i \in Nat : i = e.done + d
        BY <2>1
      <4>2. PICK u \in Header : u = g
        BY <2>3
      <4>3. PICK q \in Ends : q = e
        BY <1>1
      <4>4. PICK a \in States : a = e.state
        BY <1>1
      <4>5. Moved(q, a, i, u) \in Ends /\ Moved(q, a, i, u).hdr = u
        BY MovedFacts
      <4> QED BY <4>1, <4>2, <4>3, <4>4, <4>5
    <3> QED BY <2>6, <3>1
  <2>9. c \in BOOLEAN /\ b \in BOOLEAN /\ z \in BOOLEAN
    BY <1>1, <2>1
  <2>10. (z <=> e.done < HeaderLen /\ d = 0 /\ r.can) /\ (b <=> e.done + d >= HeaderLen)
    BY <2>1
  <2> HIDE DEF c, b, z
  <2>11. x \in Calls /\ x.tx = r.tx /\ x.room = r.room /\ x.got = r.got
    BY <2>1, <2>5, <2>7, <2>8, <2>9 DEF Calls
  <2>12. x.e = f /\ x.rx = t /\ x.k = r.k - d /\ x.go = b /\ x.shut = z
    BY <2>7 DEF Calls
  <2>13. d = 0 => x.e = e
    <3> SUFFICES ASSUME d = 0 PROVE x.e = e
      OBVIOUS
    <3>1. e.done + d = e.done /\ g = e.hdr
      BY <1>1, <2>3
    <3> QED BY <1>1, <2>6, <2>12, <3>1, MovedTwice
  <2>14. Received(r, x, h, n, d)
    BY <2>3, <2>4, <2>6, <2>8, <2>11, <2>12, <2>13 DEF Received
  <2> QED BY <1>0, <2>1, <2>10, <2>11, <2>12, <2>14 DEF x
<1> QED BY <1>2, <1>3

\* The data of a frame.
LEMMA ReadDataStep ==
    ASSUME Orderly, NEW r \in Calls, Reading(r), ~r.shut, r.got = 0,
           NEW h \in Header, NEW n \in Nat, Carrying(r.rx, h, r.e.done, n),
           r.k <= n - r.e.done, r.e.hdr = h, r.e.done >= HeaderLen,
           r.e.done <= FrameLen(h, r.e.state),
           Carries(r.e) => r.e.done < FrameLen(h, r.e.state)
    PROVE  \E d \in 0 .. r.k :
              /\ Received(r, ReadData(r), h, n, d)
              /\ r.e.done + d <= FrameLen(h, r.e.state)
              /\ ReadData(r).got = d
              /\ ReadData(r).go <=> r.e.done + d = FrameLen(h, r.e.state)
              /\ ReadData(r).shut => ~ReadData(r).go
<1> DEFINE x == ReadData(r)
           e == r.e
           all == FrameLen(h, e.state)
<1>1. /\ e \in Ends /\ e.state \in States /\ e.done \in Nat /\ e.hdr \in Header
      /\ r.k \in Nat /\ r.rx \in Seq(Unit) /\ r.go /\ HeaderLen = 2
  BY EndTypes, LinkNumbers DEF Calls, Reading
<1>2. all \in Nat
  BY FrameLenType
<1>3. CASE ~Carries(e)
  <2>1. x = r
    BY <1>3 DEF ReadData
  <2>2. Received(r, x, h, n, 0)
    <3>1. e.done + 0 = e.done /\ r.k - 0 = r.k
      BY <1>1
    <3>2. e = Moved(e, e.state, e.done + 0, e.hdr)
      BY <1>1, <3>1, MovedTwice, Zenon
    <3> QED BY <2>1, <3>1, <3>2 DEF Received, HeaderPart
  <2>3. e.done + 0 = all /\ 0 \in 0 .. r.k
    BY <1>1, <1>2, <1>3, CarriesLen
  <2> QED BY <1>1, <1>2, <2>1, <2>2, <2>3
<1>4. CASE Carries(e)
  <2> DEFINE d == Lesser(r.k, Left(e))
             t == SubSeq(r.rx, d + 1, Len(r.rx))
             f == [e EXCEPT !.done = e.done + d]
             b == d > 0 /\ d = Left(e)
             z == d = 0 /\ r.can
  <2>1. /\ d \in 0 .. r.k /\ e.done + d <= all /\ Counted(d) = d /\ Left(e) = all - e.done
    BY <1>1, <1>4, DataCounts
  <2>2. x = [r EXCEPT !.e.done = e.done + Counted(d), !.got = Counted(d),
                      !.k = r.k - d, !.rx = t, !.go = Counted(d) > 0 /\ d = Left(e),
                      !.shut = z]
    BY <1>1, <1>4 DEF ReadData
  <2> HIDE DEF d
  <2>3. /\ d \in 0 .. n - e.done /\ r.k - d \in Nat /\ e.done + d \in Nat /\ d \in Nat
    BY <1>1, <2>1
  <2>4. Carrying(t, h, e.done + d, n)
    BY <1>1, <2>3, CarryingRead
  <2>5. t \in Seq(Unit)
    BY <2>4 DEF Carrying
  <2> HIDE DEF t
  <2>6. f = Moved(e, e.state, e.done + d, e.hdr)
    BY <1>1, EndUpdates, Zenon
  <2>7. x = [r EXCEPT !.e = f, !.got = d, !.rx = t, !.k = r.k - d, !.go = b, !.shut = z]
    BY <2>1, <2>2 DEF Calls
  <2> HIDE DEF f, x
  <2>8. f \in Ends /\ f.hdr = e.hdr
    BY <1>1, <2>3, <2>6, MovedFacts
  <2>9. b \in BOOLEAN /\ z \in BOOLEAN
    BY <1>1, <2>1
  <2>10. (z => ~b) /\ (b <=> e.done + d = all)
    BY <1>1, <1>2, <1>4, <2>1, <2>3
  <2> HIDE DEF b, z
  <2>11. x \in Calls /\ x.tx = r.tx /\ x.room = r.room /\ x.got = d
    BY <2>3, <2>5, <2>7, <2>8, <2>9 DEF Calls
  <2>12. x.e = f /\ x.rx = t /\ x.k = r.k - d /\ x.go = b /\ x.shut = z
    BY <2>7 DEF Calls
  <2>13. d = 0 => x.e = e
    <3> SUFFICES ASSUME d = 0 PROVE x.e = e
      OBVIOUS
    <3>1. e.done + d = e.done
      BY <1>1
    <3> QED BY <1>1, <2>6, <2>12, <3>1, MovedTwice
  <2>14. Received(r, x, h, n, d)
    BY <2>4, <2>6, <2>8, <2>11, <2>12, <2>13 DEF Received, HeaderPart
  <2> QED BY <2>1, <2>10, <2>11, <2>12, <2>14 DEF x
<1> QED BY <1>3, <1>4

\* What the reads of a call have done: d more units, the call goes on when the
\* frame is complete.
Took(r, x, h, n, d) ==
    LET all == FrameLen(h, r.e.state)
    IN  /\ Received(r, x, h, n, d)
        /\ r.e.done + d <= all
        /\ x.go <=> r.e.done + d = all
        /\ x.got = Pos(r.e.done + d - HeaderLen) - Pos(r.e.done - HeaderLen)
        /\ x.shut => ~x.go
        /\ r.e.done < HeaderLen /\ d = 0 => x.shut = r.can

\* The reads of a call.
LEMMA ReadsDo ==
    ASSUME Orderly, NEW r \in Calls, Reading(r), NEW h \in Header, NEW n \in Nat,
           Readable(r, h, n), r.e.done < FrameLen(h, r.e.state), NEW x \in Reads(r)
    PROVE  \E d \in 0 .. r.k : Took(r, x, h, n, d)
<1> DEFINE e == r.e
           all == FrameLen(h, e.state)
           y == ReadHeader(r)
<1>1. /\ e \in Ends /\ e.state \in States /\ e.done \in Nat /\ e.hdr \in Header
      /\ r.k \in Nat /\ r.go /\ HeaderLen = 2 /\ r.can \in BOOLEAN
  BY EndTypes, LinkNumbers DEF Calls, Reading
<1>0. /\ ~r.shut /\ r.got = 0 /\ r.k <= n - e.done
      /\ Carrying(r.rx, h, e.done, n) /\ HeaderPart(e.hdr, h, e.done)
  BY DEF Readable
<1>2. all \in Nat /\ all >= 2
  BY <1>1, FrameLenType
<1>3. x = ReadData(y)
  BY DEF Reads
<1>4. PICK d1 \in 0 .. r.k :
              /\ Received(r, y, h, n, d1)
              /\ e.done + d1 <= HeaderLen \/ d1 = 0
              /\ y.got = 0
              /\ y.go <=> e.done + d1 >= HeaderLen
              /\ y.shut <=> e.done < HeaderLen /\ d1 = 0 /\ r.can
  BY ReadHeaderStep
<1> HIDE DEF y
<1>5. y \in Calls /\ y.e \in Ends /\ y.e.hdr \in Header
  BY <1>4, EndTypes DEF Received, Calls
<1>6. y.e.state = e.state /\ y.e.done = e.done + d1
  <2>1. e.done + d1 \in Nat
    BY <1>1
  <2>2. /\ Moved(e, e.state, e.done + d1, y.e.hdr).state = e.state
        /\ Moved(e, e.state, e.done + d1, y.e.hdr).done = e.done + d1
    <3>1. PICK i \in Nat : i = e.done + d1
      BY <2>1
    <3>2. PICK u \in Header : u = y.e.hdr
      BY <1>5
    <3>3. Moved(e, e.state, i, u).state = e.state /\ Moved(e, e.state, i, u).done = i
      BY <1>1, MovedFacts
    <3> QED BY <3>1, <3>2, <3>3
  <2> QED BY <1>4, <2>2 DEF Received
<1>7. CASE ~y.go
  <2>1. x = y
    BY <1>3, <1>7 DEF ReadData, Reading
  <2>2. /\ e.done + d1 < 2 /\ e.done + d1 <= all /\ e.done + d1 # all /\ e.done < 2
        /\ Pos(e.done + d1 - HeaderLen) = 0 /\ Pos(e.done - HeaderLen) = 0
    BY <1>1, <1>2, <1>4, <1>7 DEF Pos
  <2>3. d1 = 0 => y.shut = r.can
    <3>1. y.shut \in BOOLEAN
      BY <1>5 DEF Calls
    <3> QED BY <1>1, <1>4, <2>2, <3>1
  <2> QED BY <1>4, <1>7, <2>1, <2>2, <2>3 DEF Took
<1>8. CASE y.go
  <2>1. e.done + d1 >= 2 /\ ~y.shut
    BY <1>1, <1>4, <1>8
  <2>2. y.e.hdr = h
    BY <1>1, <1>4, <2>1 DEF Received, HeaderPart
  <2>3. Carrying(y.rx, h, y.e.done, n) /\ y.k = r.k - d1 /\ y.k <= n - y.e.done
    <3>1. Carrying(y.rx, h, y.e.done, n) /\ y.k = r.k - d1 /\ n - y.e.done \in Int
      BY <1>1, <1>4, <1>6 DEF Received
    <3> QED BY <1>0, <1>1, <1>6, <3>1
  <2>4. Reading(y)
    BY <1>6, <1>8 DEF Reading
  <2>5. /\ y.e.done >= HeaderLen /\ y.e.done <= all
        /\ Carries(y.e) => y.e.done < all
    <3>1. Carries(y.e) => all > 2
      BY <1>1, <1>5, <1>6, <2>2, CarriesLen
    <3> QED BY <1>1, <1>2, <1>4, <1>6, <2>1, <3>1
  <2>6. PICK d2 \in 0 .. y.k :
              /\ Received(y, x, h, n, d2)
              /\ y.e.done + d2 <= FrameLen(h, y.e.state)
              /\ x.got = d2
              /\ x.go <=> y.e.done + d2 = FrameLen(h, y.e.state)
              /\ x.shut => ~x.go
    BY <1>1, <1>3, <1>4, <1>5, <1>6, <2>1, <2>2, <2>3, <2>4, <2>5, ReadDataStep
  <2> DEFINE d == d1 + d2
  <2>7. /\ d \in 0 .. r.k /\ y.e.done + d2 = e.done + d /\ y.k - d2 = r.k - d
        /\ d = 0 => d1 = 0 /\ d2 = 0
        /\ e.done + d \in Nat /\ d1 \in Nat /\ d2 \in Nat
    BY <1>1, <1>6, <2>3
  <2>8. Pos(e.done + d - HeaderLen) - Pos(e.done - HeaderLen) = d2
    <3>1. e.done <= 2 => e.done + d1 = 2
      BY <1>1, <1>4, <2>1, <2>7
    <3>2. e.done > 2 => d1 = 0
      BY <1>1, <1>4, <2>1, <2>7
    <3> QED BY <1>1, <2>7, <3>1, <3>2 DEF Pos
  <2>9. e.done < 2 => d # 0
    BY <1>1, <2>1, <2>7
  <2>10. x.e = Moved(e, e.state, e.done + d, x.e.hdr)
    <3>1. x.e = Moved(y.e, e.state, e.done + d, x.e.hdr)
      BY <1>6, <2>6, <2>7 DEF Received
    <3>2. y.e = Moved(e, e.state, e.done + d1, y.e.hdr)
      BY <1>4 DEF Received
    <3> QED BY <1>1, <3>1, <3>2, MovedTwice
  <2> HIDE DEF d
  <2>11. Received(r, x, h, n, d)
    <3>1. /\ x \in Calls /\ x.tx = r.tx /\ x.room = r.room /\ x.k = r.k - d
          /\ HeaderPart(x.e.hdr, h, e.done + d) /\ Carrying(x.rx, h, e.done + d, n)
      BY <1>4, <2>6, <2>7 DEF Received
    <3>2. d = 0 => x.e = e
      BY <1>4, <2>6, <2>7 DEF Received
    <3> QED BY <2>10, <3>1, <3>2 DEF Received
  <2>12. Took(r, x, h, n, d)
    BY <1>1, <1>6, <2>6, <2>7, <2>8, <2>9, <2>11 DEF Took
  <2> QED BY <2>7, <2>12
<1> QED BY <1>7, <1>8

-----------------------------------------------------------------------------
(* The x86 side. *)

HostStates == {"idle", "write_request", "read_response", "read_request"}
DevStates  == {"idle", "read_request", "write_response"}

Packet == [st : {"new", "deferred", "stalled", "refused", "cancelled", "done"},
           kind : {"setup", "in", "out"},
           ret : Results \cup {NoResult}, got : 0 .. MaxLen]

\* The types of the state, in the terms of the lemmas on calls.
Typed(h, d, hd, dh, g, r, ps, as) ==
    /\ h \in HostEnd /\ h.state \in HostStates /\ h.done <= HeaderLen + MaxLen
    /\ d \in DevEnd /\ d.state \in DevStates /\ d.done <= HeaderLen + MaxLen
    /\ hd \in Seq(Unit) /\ dh \in Seq(Unit) /\ g \in BOOLEAN /\ r \in BOOLEAN
    /\ ps \in [Packets -> Packet] /\ as \in [Packets -> Results \cup {NoResult}]

\* TypeOK says just that, before a step and after it.
LEMMA LinkTyped ==
    /\ TypeOK <=> Typed(hst, dev, h2d, d2h, gone, rst, pk, answered)
    /\ TypeOK' <=> Typed(hst', dev', h2d', d2h', gone', rst', pk', answered')
<1>1. HeaderLen + MaxLen \in Nat
  BY LinkNumbers
<1> DEFINE H == [state : HostStates, done : 0 .. HeaderLen + MaxLen, hdr : Header,
                 buf : Packets \cup {NoPacket}, closed : BOOLEAN,
                 pkt : Packets \cup {NoPacket}, setup_len : 0 .. MaxLen,
                 inside : BOOLEAN, thread : {"accepted", "linked", "done"},
                 tcp : BOOLEAN, up : BOOLEAN, early : BOOLEAN]
           D == [state : DevStates, done : 0 .. HeaderLen + MaxLen, hdr : Header]
<1>2. ASSUME NEW e
      PROVE  e \in H <=> e \in HostEnd /\ e.state \in HostStates /\ e.done <= HeaderLen + MaxLen
  BY <1>1 DEF HostEnd, States, HostStates
<1>3. ASSUME NEW e
      PROVE  e \in D <=> e \in DevEnd /\ e.state \in DevStates /\ e.done <= HeaderLen + MaxLen
  BY <1>1 DEF DevEnd, States, DevStates
<1>4. TypeOK <=> /\ hst \in H /\ dev \in D /\ h2d \in Seq(Unit) /\ d2h \in Seq(Unit)
                 /\ gone \in BOOLEAN /\ rst \in BOOLEAN /\ pk \in [Packets -> Packet]
                 /\ answered \in [Packets -> Results \cup {NoResult}]
  BY DEF TypeOK, HostStates, DevStates, Packet
<1>5. TypeOK' <=> /\ hst' \in H /\ dev' \in D /\ h2d' \in Seq(Unit) /\ d2h' \in Seq(Unit)
                  /\ gone' \in BOOLEAN /\ rst' \in BOOLEAN /\ pk' \in [Packets -> Packet]
                  /\ answered' \in [Packets -> Results \cup {NoResult}]
  BY DEF TypeOK, HostStates, DevStates, Packet
<1> HIDE DEF H, D
<1> QED BY <1>2, <1>3, <1>4, <1>5 DEF Typed

\* What passthrough_closed changes.
LEMMA ClosedFacts ==
    ASSUME NEW e \in HostEnd
    PROVE  LET h == passthrough_closed(e)
           IN  /\ h \in HostEnd /\ h.state = e.state /\ h.done = e.done /\ h.hdr = e.hdr
               /\ h.buf = e.buf /\ h.pkt = e.pkt /\ h.setup_len = e.setup_len
               /\ h.inside = e.inside /\ h.thread = e.thread
               /\ h.closed /\ (h.up => e.up)
<1>1. CASE e.thread = "accepted"
  BY <1>1 DEF passthrough_closed, HostEnd
<1>2. CASE e.thread # "accepted"
  BY <1>2 DEF passthrough_closed, HostEnd
<1> QED BY <1>1, <1>2

\* Only the buffer's packet has its data counted.
Counts(b, g) == IF b = NoPacket THEN pk ELSE [pk EXCEPT ![b].got = @ + g]

\* A call ends and the transfer is not complete.
LEMMA HostPauses ==
    ASSUME NEW x \in Calls, x.e \in HostEnd, HostDone(x), ~x.go
    PROVE  /\ hst' \in HostEnd /\ hst'.state = x.e.state /\ hst'.done = x.e.done
           /\ hst'.hdr = x.e.hdr /\ hst'.buf = x.e.buf /\ hst'.pkt = x.e.pkt
           /\ hst'.setup_len = x.e.setup_len /\ hst'.thread = x.e.thread
           /\ ~hst'.inside /\ (x.shut => hst'.closed) /\ (hst'.up => x.e.up)
           /\ pk' = Counts(x.e.buf, x.got)
           /\ h2d' = x.tx /\ d2h' = x.rx /\ UNCHANGED <<dev, gone, rst, answered>>
<1> DEFINE e == [x.e EXCEPT !.inside = FALSE]
<1>1. /\ e \in HostEnd /\ e.state = x.e.state /\ e.done = x.e.done /\ e.hdr = x.e.hdr
      /\ e.buf = x.e.buf /\ e.pkt = x.e.pkt /\ e.setup_len = x.e.setup_len
      /\ e.thread = x.e.thread /\ ~e.inside /\ e.up = x.e.up
  BY DEF HostEnd
<1>2. /\ hst' = IF x.shut THEN passthrough_closed(e) ELSE e
      /\ pk' = Counts(x.e.buf, x.got)
      /\ h2d' = x.tx /\ d2h' = x.rx /\ UNCHANGED <<dev, gone, rst, answered>>
  BY DEF HostDone, Reading, Counts
<1> HIDE DEF e
<1>3. CASE x.shut
  BY <1>1, <1>2, <1>3, ClosedFacts
<1>4. CASE ~x.shut
  BY <1>1, <1>2, <1>4
<1> QED BY <1>3, <1>4

\* A call ends with a complete response.
LEMMA HostFinishes ==
    ASSUME NEW x \in Calls, x.e \in HostEnd, HostDone(x), Reading(x), ~x.shut,
           pk \in [Packets -> Packet]
    PROVE  /\ hst' \in HostEnd /\ hst'.state = "idle" /\ hst'.done = x.e.done
           /\ hst'.hdr = x.e.hdr /\ hst'.buf = x.e.buf /\ hst'.up = x.e.up
           /\ hst'.setup_len = x.e.setup_len /\ hst'.thread = x.e.thread /\ ~hst'.inside
           /\ h2d' = x.tx /\ d2h' = x.rx /\ UNCHANGED <<dev, gone, rst, answered>>
           /\ IF x.e.hdr.kind = "reset" \/ x.e.pkt = NoPacket
              THEN hst'.pkt = x.e.pkt /\ pk' = Counts(x.e.buf, x.got)
              ELSE /\ hst'.pkt = NoPacket
                   /\ pk' = [Counts(x.e.buf, x.got) EXCEPT
                               ![x.e.pkt].st = "done", ![x.e.pkt].ret = x.e.hdr.len]
<1> DEFINE e == [x.e EXCEPT !.inside = FALSE]
           f == [e EXCEPT !.state = "idle"]
           fin == passthrough_tcp(f, Counts(x.e.buf, x.got))
<1>1. /\ f \in HostEnd /\ f.state = "idle" /\ f.done = x.e.done /\ f.hdr = x.e.hdr
      /\ f.buf = x.e.buf /\ f.pkt = x.e.pkt /\ f.setup_len = x.e.setup_len
      /\ f.thread = x.e.thread /\ ~f.inside /\ f.up = x.e.up
  BY DEF HostEnd, States
<1>2. /\ hst' = fin.hst /\ pk' = fin.pk
      /\ h2d' = x.tx /\ d2h' = x.rx /\ UNCHANGED <<dev, gone, rst, answered>>
  BY DEF HostDone, Counts
<1> HIDE DEF f
<1>3. CASE x.e.hdr.kind = "reset" \/ x.e.pkt = NoPacket
  <2>1. fin = [hst |-> f, pk |-> Counts(x.e.buf, x.got)]
    BY <1>1, <1>3 DEF passthrough_tcp
  <2> HIDE DEF fin
  <2> QED BY <1>1, <1>2, <1>3, <2>1
<1>4. CASE ~(x.e.hdr.kind = "reset" \/ x.e.pkt = NoPacket)
  <2> DEFINE q == [f EXCEPT !.pkt = NoPacket]
             ps == [Counts(x.e.buf, x.got) EXCEPT
                      ![x.e.pkt].st = "done", ![x.e.pkt].ret = x.e.hdr.len]
  <2>1. fin = [hst |-> q, pk |-> ps]
    BY <1>1, <1>4 DEF passthrough_tcp
  <2>2. /\ q \in HostEnd /\ q.state = "idle" /\ q.done = x.e.done /\ q.hdr = x.e.hdr
        /\ q.buf = x.e.buf /\ q.setup_len = x.e.setup_len
        /\ q.thread = x.e.thread /\ ~q.inside /\ q.up = x.e.up /\ q.pkt = NoPacket
    BY <1>1 DEF HostEnd
  <2> HIDE DEF fin, q, ps
  <2>3. hst' = q /\ pk' = ps
    BY <1>2, <2>1
  <2> QED BY <1>2, <1>4, <2>2, <2>3 DEF ps
<1> QED BY <1>3, <1>4

-----------------------------------------------------------------------------
(* Packets, and what UsbTransfer sees of them. *)

\* Data counted changes nothing else of a packet.
LEMMA CountsFacts ==
    ASSUME pk \in [Packets -> Packet], NEW b \in Packets \cup {NoPacket}, NEW g \in Nat,
           b # NoPacket => pk[b].got + g <= MaxLen
    PROVE  /\ Counts(b, g) \in [Packets -> Packet]
           /\ \A p \in Packets :
                 /\ Counts(b, g)[p].st = pk[p].st /\ Counts(b, g)[p].kind = pk[p].kind
                 /\ Counts(b, g)[p].ret = pk[p].ret
                 /\ Counts(b, g)[p].got = IF p = b THEN pk[p].got + g ELSE pk[p].got
<1>1. CASE b = NoPacket
  BY <1>1, LinkNumbers DEF Counts
<1>2. CASE b # NoPacket
  <2> DEFINE c == [pk[b] EXCEPT !.got = pk[b].got + g]
  <2>1. b \in Packets /\ pk[b] \in Packet
    BY <1>2
  <2>2. pk[b].got + g \in 0 .. MaxLen
    BY <1>2, <2>1, LinkNumbers DEF Packet
  <2>3. c \in Packet /\ c.st = pk[b].st /\ c.kind = pk[b].kind /\ c.ret = pk[b].ret
        /\ c.got = pk[b].got + g
    BY <2>1, <2>2 DEF Packet
  <2>4. Counts(b, g) = [pk EXCEPT ![b] = c]
    BY <1>2 DEF Counts
  <2> HIDE DEF c
  <2> QED BY <2>1, <2>3, <2>4
<1> QED BY <1>1, <1>2

StatusOf(st) == CASE st \in {"new", "refused"} -> "new"
                  [] st = "done" -> "done"
                  [] st = "cancelled" -> "cancelled"
                  [] OTHER -> "pending"

Status(ps) == [p \in Packets |-> StatusOf(ps[p].st)]
Rets(ps)   == [p \in Packets |-> ps[p].ret]

\* The variables of UsbTransfer.
LEMMA TransferVars ==
    /\ Transfer!vars = <<Status(pk), answered, Rets(pk)>>
    /\ Transfer!vars' = <<Status(pk'), answered', Rets(pk')>>
BY DEF Transfer!vars, Status, StatusOf, Rets

\* A step that leaves the packets and the answers alone is not seen.
LEMMA NotSeen ==
    ASSUME answered' = answered,
           \A p \in Packets : /\ StatusOf(pk'[p].st) = StatusOf(pk[p].st)
                              /\ pk'[p].ret = pk[p].ret
    PROVE  UNCHANGED Transfer!vars
<1>1. Status(pk') = Status(pk) /\ Rets(pk') = Rets(pk)
  BY DEF Status, Rets
<1> QED BY <1>1, TransferVars

\* A packet is taken while no other is pending: that is Submit.
LEMMA SeenSubmit ==
    ASSUME NEW p \in Packets, pk[p].st = "new", UNCHANGED answered,
           \A q \in Packets : pk[q].st \notin {"deferred", "stalled"},
           \A q \in Packets :
              /\ pk[q].st \in {"new", "deferred", "stalled", "refused", "cancelled", "done"}
              /\ StatusOf(pk'[q].st) = IF q = p THEN "pending" ELSE StatusOf(pk[q].st)
              /\ pk'[q].ret = pk[q].ret
    PROVE  Transfer!Next
<1>1. Rets(pk') = Rets(pk) /\ Status(pk') = [Status(pk) EXCEPT ![p] = "pending"]
  BY DEF Rets, Status
<1>2. Status(pk)[p] = "new" /\ \A q \in Packets : Status(pk)[q] # "pending"
  BY DEF Status, StatusOf
<1>3. Transfer!Submit(p)
  BY <1>1, <1>2 DEF Transfer!Submit, Status, StatusOf, Rets
<1> QED BY <1>3 DEF Transfer!Next

\* A pending packet is given up: that is Cancel.
LEMMA SeenCancel ==
    ASSUME NEW p \in Packets, pk[p].st = "deferred", UNCHANGED answered,
           \A q \in Packets :
              /\ StatusOf(pk'[q].st) = IF q = p THEN "cancelled" ELSE StatusOf(pk[q].st)
              /\ pk'[q].ret = pk[q].ret
    PROVE  Transfer!Next
<1>1. Rets(pk') = Rets(pk) /\ Status(pk') = [Status(pk) EXCEPT ![p] = "cancelled"]
  BY DEF Rets, Status
<1>2. Status(pk)[p] = "pending"
  BY DEF Status, StatusOf
<1>3. Transfer!Cancel(p)
  BY <1>1, <1>2 DEF Transfer!Cancel, Status, StatusOf, Rets
<1> QED BY <1>3 DEF Transfer!Next

\* The first answer to a packet: that is Answer.
LEMMA SeenAnswer ==
    ASSUME NEW p \in Packets, pk[p].st \in {"deferred", "cancelled"},
           answered[p] = NoResult, NEW a \in Results,
           answered' = [answered EXCEPT ![p] = a], UNCHANGED pk
    PROVE  Transfer!Next
<1>1. Status(pk)[p] \in {"pending", "cancelled"}
  BY DEF Status, StatusOf
<1>2. Transfer!Answer(p, a)
  BY <1>1 DEF Transfer!Answer, Status, StatusOf
<1> QED BY <1>2 DEF Transfer!Next

\* A pending packet is given its answer: that is Complete.
LEMMA SeenComplete ==
    ASSUME NEW p \in Packets, pk[p].st = "deferred", answered[p] # NoResult,
           UNCHANGED answered,
           \A q \in Packets :
              /\ StatusOf(pk'[q].st) = IF q = p THEN "done" ELSE StatusOf(pk[q].st)
              /\ pk'[q].ret = IF q = p THEN answered[p] ELSE pk[q].ret
    PROVE  Transfer!Next
<1>1. /\ Rets(pk') = [Rets(pk) EXCEPT ![p] = answered[p]]
      /\ Status(pk') = [Status(pk) EXCEPT ![p] = "done"]
  BY DEF Rets, Status
<1>2. Status(pk)[p] = "pending"
  BY DEF Status, StatusOf
<1>3. Transfer!Complete(p)
  BY <1>1, <1>2 DEF Transfer!Complete, Status, StatusOf, Rets
<1> QED BY <1>3 DEF Transfer!Next

\* A step that may change what an endpoint has received, but none of the
\* packets, keeps what is said of them.
LEMMA HostKeeps ==
    ASSUME LinkInv, hst' \in HostEnd, hst'.state \in HostStates,
           hst'.done <= HeaderLen + MaxLen, hst'.buf = hst.buf, hst'.pkt = hst.pkt,
           hst'.thread = hst.thread, hst'.up => hst.up,
           hst'.inside => hst'.state = "read_response",
           hst.pkt # NoPacket => hst'.state # "idle",
           NEW g \in Nat, pk' = Counts(hst.buf, g),
           hst.buf # NoPacket => pk[hst.buf].got + g <= MaxLen,
           hst.buf # NoPacket /\ g # 0 => pk[hst.buf].st \in {"deferred", "cancelled"},
           h2d' \in Seq(Unit), d2h' \in Seq(Unit), UNCHANGED <<dev, gone, rst, answered>>
    PROVE  /\ TypeOK' /\ PacketInv' /\ BuffersFilled' /\ UNCHANGED Transfer!vars
           /\ \A p \in Packets :
                 /\ pk'[p].st = pk[p].st /\ pk'[p].kind = pk[p].kind
                 /\ pk'[p].got = IF p = hst.buf THEN pk[p].got + g ELSE pk[p].got
<1>1. Typed(hst, dev, h2d, d2h, gone, rst, pk, answered) /\ PacketInv /\ BuffersFilled
  BY LinkTyped DEF LinkInv
<1>2. hst.buf \in Packets \cup {NoPacket} /\ pk \in [Packets -> Packet]
      /\ \A p \in Packets : pk[p] \in Packet
  BY <1>1 DEF Typed, HostEnd
<1>3. /\ pk' \in [Packets -> Packet]
      /\ \A p \in Packets :
            /\ pk'[p].st = pk[p].st /\ pk'[p].kind = pk[p].kind /\ pk'[p].ret = pk[p].ret
            /\ pk'[p].got = IF p = hst.buf THEN pk[p].got + g ELSE pk[p].got
  BY <1>2, CountsFacts
<1>4. TypeOK'
  BY <1>1, <1>3, LinkTyped DEF Typed
<1>5. \A p \in Packets : pk[p].st \notin {"deferred", "cancelled"} => pk'[p].got = pk[p].got
  BY <1>2, <1>3, LinkNumbers DEF Packet
<1>6. PacketInv'
  BY <1>1, <1>3, <1>5 DEF PacketInv
<1>7. BuffersFilled'
  BY <1>1, <1>3, <1>5 DEF BuffersFilled
<1>8. UNCHANGED Transfer!vars
  BY <1>3, NotSeen
<1> QED BY <1>3, <1>4, <1>6, <1>7, <1>8

-----------------------------------------------------------------------------
(* The steps of the x86 side. *)

\* What a step has to show.
StepOk == LinkInv' /\ [Transfer!Next]_(Transfer!vars)

\* Nothing has come of a response.
LEMMA NothingRead ==
    ASSUME Orderly, NEW r \in Calls, Reading(r), ~r.shut, r.got = 0, r.rx = <<>>,
           r.k = 0, r.e.done = 0, NEW x \in Reads(r)
    PROVE  /\ x \in Calls /\ x.e = r.e /\ ~x.go /\ x.rx = <<>> /\ x.tx = r.tx
           /\ x.got = 0 /\ x.shut = r.can
<1>1. r.e \in Ends /\ r.e.hdr \in Header /\ HeaderLen = 2 /\ 0 \in Nat
  BY EndTypes, LinkNumbers DEF Calls
<1>2. FrameLen(r.e.hdr, r.e.state) \in Nat /\ FrameLen(r.e.hdr, r.e.state) >= 2
  BY <1>1, FrameLenType
<1>3. Carrying(r.rx, r.e.hdr, 0, 0)
  BY <1>1, CarryingNone
<1>4. Readable(r, r.e.hdr, 0)
  BY <1>1, <1>3 DEF Readable, HeaderPart
<1>5. PICK d \in 0 .. r.k : Took(r, x, r.e.hdr, 0, d)
  BY <1>1, <1>2, <1>4, ReadsDo
<1>6. d = 0
  BY <1>5
<1>7. /\ Received(r, x, r.e.hdr, 0, 0) /\ ~x.go /\ x.shut = r.can
      /\ x.got = Pos(0 + 0 - 2) - Pos(0 - 2)
  BY <1>1, <1>2, <1>5, <1>6 DEF Took
<1>8. x.got = 0
  BY <1>7 DEF Pos
<1>9. Carrying(x.rx, r.e.hdr, 0, 0)
  BY <1>1, <1>7 DEF Received
<1>10. x.rx = <<>>
  BY <1>9, CarryingEmpty
<1> QED BY <1>7, <1>8, <1>10 DEF Received

\* The response is waited for.
LEMMA HostAwaits ==
    ASSUME Orderly, LinkInv, Awaiting, NEW k \in 0 .. Len(d2h), NEW room \in Nat,
           NEW can \in BOOLEAN, NEW x \in Reads(Call(hst, d2h, h2d, k, room, can)),
           HostDone(x)
    PROVE  StepOk
<1> DEFINE r == Call(hst, d2h, h2d, k, room, can)
<1>1. /\ hst \in HostEnd /\ hst.state \in HostStates /\ hst.done <= HeaderLen + MaxLen
      /\ h2d \in Seq(Unit) /\ d2h \in Seq(Unit) /\ hst \in Ends
      /\ pk \in [Packets -> Packet]
  BY LinkTyped DEF LinkInv, Typed, Ends
<1>2. d2h = <<>> /\ hst.state = "read_response" /\ hst.done = 0
  BY DEF Awaiting, Requesting
<1>3. k = 0
  BY <1>2
<1>4. /\ r \in Calls /\ r.e = hst /\ r.rx = <<>> /\ r.tx = h2d /\ r.k = 0
      /\ r.go /\ ~r.shut /\ r.got = 0
  <2>1. k \in Nat
    BY <1>3
  <2>2. /\ r \in Calls /\ r.e = hst /\ r.rx = d2h /\ r.tx = h2d /\ r.k = k
        /\ r.go /\ ~r.shut /\ r.got = 0
    BY <1>1, <2>1 DEF Call, Calls
  <2> QED BY <1>2, <1>3, <2>2
<1>5. x \in Reads(r)
  OBVIOUS
<1> HIDE DEF r
<1>6. Reading(r)
  BY <1>2, <1>4 DEF Reading
<1>7. x \in Calls /\ x.e = hst /\ ~x.go /\ x.rx = <<>> /\ x.tx = h2d /\ x.got = 0
  BY <1>2, <1>4, <1>5, <1>6, NothingRead
<1>8. /\ hst' \in HostEnd /\ hst'.state = hst.state /\ hst'.done = hst.done
      /\ hst'.hdr = hst.hdr /\ hst'.buf = hst.buf /\ hst'.pkt = hst.pkt
      /\ hst'.thread = hst.thread /\ ~hst'.inside /\ (hst'.up => hst.up)
      /\ pk' = Counts(hst.buf, 0)
      /\ h2d' = h2d /\ d2h' = <<>> /\ UNCHANGED <<dev, gone, rst, answered>>
  BY <1>1, <1>7, HostPauses
<1>9. hst.buf # NoPacket => pk[hst.buf].got + 0 <= MaxLen
  BY <1>1, LinkNumbers DEF Packet, HostEnd
<1>10. /\ TypeOK' /\ PacketInv' /\ BuffersFilled' /\ UNCHANGED Transfer!vars
       /\ \A p \in Packets :
             /\ pk'[p].st = pk[p].st /\ pk'[p].kind = pk[p].kind
             /\ pk'[p].got = IF p = hst.buf THEN pk[p].got + 0 ELSE pk[p].got
  BY <1>1, <1>2, <1>8, <1>9, HostKeeps
<1>11. For(hst.hdr, NoResult, 0)'
  <2>1. hst.buf # NoPacket => pk'[hst.buf].got = pk[hst.buf].got
    BY <1>1, <1>10, LinkNumbers DEF Packet, HostEnd
  <2> QED BY <1>1, <1>8, <1>10, <2>1 DEF Awaiting, For, HostEnd
<1>12. Awaiting'
  BY <1>8, <1>2, <1>11 DEF Awaiting, Requesting, DevPos
<1>13. SocketInv'
  BY <1>2, <1>8 DEF LinkInv, SocketInv
<1> QED BY <1>10, <1>12, <1>13 DEF StepOk, LinkInv, TransferInv

\* Reading on in a response.
LEMMA HostReceives ==
    ASSUME Orderly, LinkInv, Receiving, NEW k \in 0 .. Len(d2h), NEW room \in Nat,
           NEW can \in BOOLEAN, NEW x \in Reads(Call(hst, d2h, h2d, k, room, can)),
           HostDone(x)
    PROVE  StepOk
<1> DEFINE r == Call(hst, d2h, h2d, k, room, can)
           all == FrameLen(dev.hdr, "read_response")
           n == IF dev.state = "idle" THEN FrameLen(dev.hdr, "write_response")
                ELSE dev.done
           b == hst.buf
<1>1. /\ hst \in HostEnd /\ hst.state \in HostStates /\ hst.done <= HeaderLen + MaxLen
      /\ h2d \in Seq(Unit) /\ d2h \in Seq(Unit) /\ hst \in Ends /\ dev \in Ends
      /\ pk \in [Packets -> Packet]
  BY LinkTyped DEF LinkInv, Typed, Ends
<1>2. /\ hst.state = "read_response" /\ h2d = <<>> /\ HeaderPart(hst.hdr, dev.hdr, hst.done)
      /\ hst.done < all /\ Carrying(d2h, dev.hdr, hst.done, n)
      /\ dev.state \in {"idle", "write_response"}
      /\ For(dev.hdr, dev.hdr.len, Pos(hst.done - HeaderLen))
      /\ dev.state # "idle" => dev.done < all
  BY DEF Receiving, Responding, FrameLen, Answering
<1>3. /\ hst.done \in Nat /\ dev.hdr \in Header /\ dev.done \in Nat /\ HeaderLen = 2
      /\ b \in Packets \cup {NoPacket}
  BY <1>1, EndTypes, LinkNumbers DEF HostEnd
<1>4. /\ all \in Nat /\ n \in Nat /\ all >= 2 /\ all <= 2 + MaxLen
      /\ dev.state = "idle" => n = all
      /\ MaxLen \in Nat
  <2>1. all \in Nat /\ all >= 2 /\ all <= 2 + MaxLen
    BY <1>3, FrameLenType
  <2>2. FrameLen(dev.hdr, "write_response") = all
    BY DEF FrameLen, Answering
  <2> QED BY <1>3, <2>1, <2>2, LinkNumbers
<1> HIDE DEF all, n
<1>5. k \in Nat /\ k <= n - hst.done
  BY <1>2, <1>3, <1>4 DEF Carrying
<1>6. /\ r \in Calls /\ r.e = hst /\ r.rx = d2h /\ r.tx = h2d /\ r.k = k
      /\ r.go /\ ~r.shut /\ r.got = 0
  BY <1>1, <1>5 DEF Call, Calls
<1>7. x \in Reads(r)
  OBVIOUS
<1> HIDE DEF r
<1>8. Reading(r) /\ Readable(r, dev.hdr, n)
  BY <1>2, <1>5, <1>6 DEF Reading, Readable
<1>9. PICK d \in 0 .. r.k : Took(r, x, dev.hdr, n, d)
  <2>1. r.e.done < FrameLen(dev.hdr, r.e.state)
    BY <1>2, <1>6 DEF all
  <2> QED BY <1>3, <1>4, <1>6, <1>7, <1>8, <2>1, ReadsDo
<1> DEFINE m == hst.done + d
           g == Pos(m - 2) - Pos(hst.done - 2)
<1>10. m \in Nat /\ d \in Nat /\ m >= hst.done
  BY <1>3, <1>5, <1>6, <1>9
<1>11. /\ x \in Calls /\ x.tx = <<>> /\ m <= all /\ (x.go <=> m = all) /\ x.got = g
       /\ (x.shut => ~x.go) /\ HeaderPart(x.e.hdr, dev.hdr, m)
       /\ Carrying(x.rx, dev.hdr, m, n) /\ x.e = Moved(hst, hst.state, m, x.e.hdr)
  <2>1. /\ Received(r, x, dev.hdr, n, d) /\ (x.shut => ~x.go)
        /\ r.e.done + d <= FrameLen(dev.hdr, r.e.state)
        /\ (x.go <=> r.e.done + d = FrameLen(dev.hdr, r.e.state))
        /\ x.got = Pos(r.e.done + d - HeaderLen) - Pos(r.e.done - HeaderLen)
    BY <1>9 DEF Took
  <2>2. r.e.done + d = m /\ FrameLen(dev.hdr, r.e.state) = all
    BY <1>2, <1>6 DEF all
  <2>3. x.got = g
    BY <1>3, <1>6, <2>1
  <2>4. /\ x \in Calls /\ x.tx = <<>> /\ HeaderPart(x.e.hdr, dev.hdr, m)
        /\ Carrying(x.rx, dev.hdr, m, n) /\ x.e = Moved(hst, hst.state, m, x.e.hdr)
    BY <1>2, <1>6, <2>1 DEF Received
  <2> HIDE DEF m, g
  <2> QED BY <2>1, <2>2, <2>3, <2>4
<1>12. /\ x.e \in HostEnd /\ x.e.state = "read_response" /\ x.e.done = m
       /\ x.e.buf = b /\ x.e.pkt = hst.pkt /\ x.e.thread = hst.thread
       /\ x.e.up = hst.up /\ x.e.setup_len = hst.setup_len
  <2>1. PICK u \in Header : u = x.e.hdr
    BY <1>11, EndTypes DEF Calls
  <2>2. PICK i \in Nat : i = m
    BY <1>10
  <2>3. PICK y \in States : y = hst.state
    BY <1>1, EndTypes
  <2>4. x.e = Moved(hst, y, i, u)
    BY <1>11, <2>1, <2>2, <2>3
  <2>5. x.e.state = y /\ x.e.done = i
    BY <1>1, <2>4, MovedFacts
  <2>6. /\ x.e \in HostEnd /\ x.e.buf = hst.buf /\ x.e.pkt = hst.pkt
        /\ x.e.thread = hst.thread /\ x.e.up = hst.up /\ x.e.setup_len = hst.setup_len
    <3>1. /\ Moved(hst, y, i, u) \in HostEnd
          /\ Moved(hst, y, i, u).buf = hst.buf /\ Moved(hst, y, i, u).pkt = hst.pkt
          /\ Moved(hst, y, i, u).thread = hst.thread
          /\ Moved(hst, y, i, u).up = hst.up
          /\ Moved(hst, y, i, u).setup_len = hst.setup_len
      BY <1>1, MovedSide, Zenon
    <3> QED BY <2>4, <3>1, Zenon
  <2> QED BY <1>2, <2>2, <2>3, <2>5, <2>6
<1>13. /\ g \in Nat /\ Pos(m - 2) \in 0 .. MaxLen
       /\ Pos(hst.done - 2) + g = Pos(m - 2) /\ Pos(hst.done - 2) \in Nat
  <2>1. \A i, j, l \in Nat : i <= j /\ j <= 2 + l =>
           /\ Pos(j - 2) - Pos(i - 2) \in Nat /\ Pos(j - 2) \in 0 .. l
           /\ Pos(i - 2) + (Pos(j - 2) - Pos(i - 2)) = Pos(j - 2) /\ Pos(i - 2) \in Nat
    BY DEF Pos
  <2>2. m <= 2 + MaxLen
    BY <1>4, <1>10, <1>11
  <2> HIDE DEF m
  <2> QED BY <1>3, <1>4, <1>10, <2>1, <2>2
<1>14. b # NoPacket => /\ pk[b].got + g = Pos(m - 2) /\ pk[b].got + g <= MaxLen
                       /\ pk[b].st \in {"deferred", "cancelled"}
  BY <1>2, <1>3, <1>13 DEF For
<1>15. x.rx \in Seq(Unit) /\ h2d' = <<>> /\ d2h' = x.rx /\ UNCHANGED <<dev, gone, rst, answered>>
  BY <1>11 DEF HostDone, Calls
<1>16. SocketInv'
  <2>1. Len(x.rx) <= Len(d2h)
    BY <1>2, <1>3, <1>4, <1>10, <1>11 DEF Carrying
  <2>2. Len(x.rx) \in Nat /\ Len(d2h) \in Nat /\ SockBuf \in Nat
    BY <1>1, <1>15, LinkNumbers
  <2> QED BY <1>2, <1>15, <2>1, <2>2 DEF LinkInv, SocketInv
<1>17. hst.pkt # NoPacket => hst.pkt = b /\ hst.pkt \in Packets /\ pk[b].st = "deferred"
  BY <1>1 DEF LinkInv, PacketInv, HostEnd
<1> HIDE DEF g, m
<1>18. CASE ~x.go
  <2>1. /\ hst' \in HostEnd /\ hst'.state = "read_response" /\ hst'.done = m
        /\ hst'.hdr = x.e.hdr /\ hst'.buf = b /\ hst'.pkt = hst.pkt
        /\ hst'.thread = hst.thread /\ ~hst'.inside /\ (hst'.up => hst.up)
        /\ pk' = Counts(b, g)
    BY <1>11, <1>12, <1>18, HostPauses
  <2>2. hst'.state \in HostStates /\ hst'.done <= HeaderLen + MaxLen
    BY <1>3, <1>4, <1>10, <1>11, <2>1 DEF HostStates
  <2>3. /\ TypeOK' /\ PacketInv' /\ BuffersFilled' /\ UNCHANGED Transfer!vars
        /\ \A p \in Packets :
              /\ pk'[p].st = pk[p].st /\ pk'[p].kind = pk[p].kind
              /\ pk'[p].got = IF p = hst.buf THEN pk[p].got + g ELSE pk[p].got
    BY <1>1, <1>13, <1>14, <1>15, <2>1, <2>2, HostKeeps
  <2>4. For(dev.hdr, dev.hdr.len, Pos(hst.done - HeaderLen))'
    <3>1. b # NoPacket => /\ pk'[b].got = Pos(m - 2) /\ pk'[b].st = pk[b].st
                          /\ pk'[b].kind = pk[b].kind
      BY <1>3, <1>14, <2>3
    <3> QED BY <1>2, <1>3, <1>15, <2>1, <3>1 DEF For
  <2>5. m < all
    BY <1>4, <1>10, <1>11, <1>18
  <2>6. Responding'
    <3>1. dev'.hdr = dev.hdr /\ dev'.state = dev.state /\ dev'.done = dev.done
      BY <1>15
    <3> QED BY <1>2, <1>11, <1>15, <2>1, <2>5, <3>1
            DEF Receiving, Responding, n, all
  <2>7. Receiving'
    BY <2>1, <2>4, <2>6 DEF Receiving
  <2> QED BY <1>16, <2>3, <2>7 DEF StepOk, LinkInv, TransferInv
<1>19. CASE x.go
  <2>1. m = all /\ x.e.hdr = dev.hdr /\ ~x.shut /\ Reading(x)
    BY <1>3, <1>4, <1>11, <1>12, <1>19 DEF HeaderPart, Reading
  <2>2. dev.state = "idle" /\ n = all
    BY <1>2, <1>3, <1>4, <1>11, <2>1 DEF Carrying, n
  <2>3. x.rx = <<>>
    BY <1>4, <1>11, <2>1, <2>2, CarryingEmpty
  <2>4. Quiescent'
    BY <1>15, <2>2, <2>3 DEF Quiescent
  <2>5. /\ hst' \in HostEnd /\ hst'.state = "idle" /\ hst'.done = m
        /\ hst'.buf = b /\ hst'.up = hst.up /\ hst'.thread = hst.thread /\ ~hst'.inside
        /\ IF dev.hdr.kind = "reset" \/ hst.pkt = NoPacket
           THEN hst'.pkt = hst.pkt /\ pk' = Counts(b, g)
           ELSE /\ hst'.pkt = NoPacket
                /\ pk' = [Counts(b, g) EXCEPT
                            ![hst.pkt].st = "done", ![hst.pkt].ret = dev.hdr.len]
    BY <1>1, <1>11, <1>12, <2>1, HostFinishes
  <2>6. hst'.state \in HostStates /\ hst'.done <= HeaderLen + MaxLen
    BY <1>3, <1>4, <2>1, <2>5 DEF HostStates
  <2>7. CASE dev.hdr.kind = "reset" \/ hst.pkt = NoPacket
    <3>1. hst.pkt = NoPacket
      BY <1>2, <1>17, <2>7 DEF For
    <3>2. /\ TypeOK' /\ PacketInv' /\ BuffersFilled' /\ UNCHANGED Transfer!vars
      BY <1>1, <1>13, <1>14, <1>15, <2>5, <2>6, <2>7, <3>1, HostKeeps
    <3> QED BY <1>16, <2>4, <2>5, <3>2 DEF StepOk, LinkInv, TransferInv
  <2>8. CASE ~(dev.hdr.kind = "reset" \/ hst.pkt = NoPacket)
    <3> DEFINE c == Counts(b, g)
    <3>1. /\ b \in Packets /\ hst.pkt = b /\ pk[b].st = "deferred" /\ hst'.pkt = NoPacket
          /\ pk' = [c EXCEPT ![b].st = "done", ![b].ret = dev.hdr.len]
          /\ pk[b].kind = dev.hdr.kind /\ answered[b] = dev.hdr.len
      BY <1>2, <1>17, <2>5, <2>8 DEF For
    <3>2. /\ c \in [Packets -> Packet]
          /\ \A p \in Packets :
                /\ c[p].st = pk[p].st /\ c[p].kind = pk[p].kind /\ c[p].ret = pk[p].ret
                /\ c[p].got = IF p = b THEN pk[p].got + g ELSE pk[p].got
      <4>1. b # NoPacket => pk[b].got + g <= MaxLen
        BY <1>14
      <4>2. g \in Nat /\ b \in Packets \cup {NoPacket} /\ pk \in [Packets -> Packet]
        BY <1>1, <1>3, <1>13
      <4> HIDE DEF b
      <4> QED BY <4>1, <4>2, CountsFacts
    <3> HIDE DEF c
    <3>3. dev.hdr.len \in Results
      BY <1>3 DEF Header
    <3>4. /\ pk' \in [Packets -> Packet]
          /\ pk'[b].st = "done" /\ pk'[b].ret = dev.hdr.len
          /\ pk'[b].kind = dev.hdr.kind /\ pk'[b].got = pk[b].got + g
          /\ \A p \in Packets : p # b => pk'[p] = c[p]
      <4> DEFINE v == [c[b] EXCEPT !.st = "done", !.ret = dev.hdr.len]
      <4>1. c[b] \in Packet
        BY <3>1, <3>2
      <4>2. v \in Packet /\ v.st = "done" /\ v.ret = dev.hdr.len /\ v.kind = c[b].kind
            /\ v.got = c[b].got
        BY <3>3, <4>1 DEF Packet
      <4>3. pk' = [c EXCEPT ![b] = v]
        BY <3>1, <3>2
      <4> HIDE DEF v
      <4> QED BY <3>1, <3>2, <4>2, <4>3
    <3>5. TypeOK'
      BY <1>15, <2>5, <2>6, <2>3, <3>4, LinkTyped DEF LinkInv, Typed
    <3>6. /\ \A p \in Packets : p # b =>
                /\ pk'[p].st = pk[p].st /\ pk'[p].kind = pk[p].kind
                /\ pk'[p].ret = pk[p].ret /\ pk'[p].got = pk[p].got
      BY <3>2, <3>4
    <3>7. PacketInv'
      <4>1. PacketInv
        BY DEF LinkInv
      <4>2. ASSUME NEW p \in Packets
            PROVE  /\ pk'[p].st # "stalled"
                   /\ pk'[p].st = "deferred" <=> hst'.pkt = p
                   /\ pk'[p].st = "new" => pk'[p].got = 0 /\ answered'[p] = NoResult
        BY <1>15, <3>1, <3>4, <3>6, <4>1, LinkNumbers DEF PacketInv
      <4> QED BY <2>5, <3>1, <4>1, <4>2 DEF PacketInv
    <3>8. BuffersFilled'
      <4>1. pk'[b].got = IF pk'[b].kind = "in" THEN Pos(pk'[b].ret) ELSE 0
        <5>1. Pos(m - 2) = IF dev.hdr.kind = "in" THEN Pos(dev.hdr.len) ELSE 0
          <6>1. Pos(dev.hdr.len) \in Nat
            BY <3>3, LinkNumbers DEF Pos
          <6>2. all = 2 + IF dev.hdr.kind = "in" THEN Pos(dev.hdr.len) ELSE 0
            BY <1>3 DEF all, FrameLen, Answering
          <6>3. \A i \in Nat : Pos((2 + i) - 2) = i
            BY DEF Pos
          <6> QED BY <2>1, <6>1, <6>2, <6>3
        <5> QED BY <1>14, <3>1, <3>4, <5>1, LinkNumbers
      <4> QED BY <3>4, <3>6, <4>1 DEF LinkInv, BuffersFilled
    <3>9. Transfer!Next
      <4>1. answered[b] # NoResult
        BY <3>1, <3>3, LinkNumbers
      <4>2. \A q \in Packets :
              /\ StatusOf(pk'[q].st) = IF q = b THEN "done" ELSE StatusOf(pk[q].st)
              /\ pk'[q].ret = IF q = b THEN answered[b] ELSE pk[q].ret
        BY <3>1, <3>4, <3>6 DEF StatusOf
      <4> QED BY <1>15, <3>1, <4>1, <4>2, SeenComplete
    <3> QED BY <1>16, <2>4, <2>5, <3>5, <3>7, <3>8, <3>9 DEF StepOk, LinkInv, TransferInv
  <2> QED BY <2>7, <2>8
<1> QED BY <1>18, <1>19

\* What write takes is a number, and no more than the socket has room for.
LEMMA RoomFacts ==
    ASSUME LinkInv
    PROVE  /\ Room \in Nat /\ (rst => Room = 0)
           /\ ~gone => Len(h2d) + Room <= SockBuf
<1>1. Len(h2d) \in Nat /\ (~gone => Len(h2d) <= SockBuf) /\ (rst => gone)
  BY DEF LinkInv, TypeOK, SocketInv
<1>2. HeaderLen + MaxLen \in Nat /\ SockBuf \in Nat
  BY LinkNumbers
<1> QED BY <1>1, <1>2 DEF Room

\* Writing on in a request, which the response may follow at once.
LEMMA HostWrites ==
    ASSUME Orderly, LinkInv, Sending, NEW k \in 0 .. Len(d2h), NEW can \in BOOLEAN,
           NEW w \in Writes(Call(hst, d2h, h2d, k, Room, can)), NEW x \in Reads(w),
           HostDone(x)
    PROVE  StepOk
<1> DEFINE r == Call(hst, d2h, h2d, k, Room, can)
           all == FrameLen(hst.hdr, "write_request")
           m == IF rst THEN hst.done ELSE DevPos
<1>1. /\ hst \in HostEnd /\ hst.state \in HostStates /\ hst.done <= HeaderLen + MaxLen
      /\ h2d \in Seq(Unit) /\ d2h \in Seq(Unit) /\ hst \in Ends /\ dev \in Ends
      /\ pk \in [Packets -> Packet]
  BY LinkTyped DEF LinkInv, Typed, Ends
<1>2. /\ hst.state = "write_request" /\ d2h = <<>> /\ hst.done < all
      /\ Requesting(hst.done) /\ For(hst.hdr, NoResult, 0)
      /\ IF rst THEN h2d = <<>> ELSE Carrying(h2d, hst.hdr, DevPos, hst.done)
  BY DEF Sending, Requesting
<1>3. /\ hst.done \in Nat /\ hst.hdr \in Header /\ dev.done \in Nat /\ HeaderLen = 2
      /\ hst.buf \in Packets \cup {NoPacket} /\ m \in Nat
  BY <1>1, EndTypes, LinkNumbers DEF HostEnd, DevPos
<1>4. all \in Nat /\ all >= 2 /\ all <= 2 + MaxLen /\ MaxLen \in Nat /\ SockBuf \in Nat
  BY <1>3, FrameLenType, LinkNumbers
<1>5. k = 0 /\ Room \in Nat /\ (rst => Room = 0) /\ (~gone => Len(h2d) + Room <= SockBuf)
  BY <1>2, RoomFacts
<1>6. /\ r \in Calls /\ r.e = hst /\ r.rx = <<>> /\ r.tx = h2d /\ r.k = 0
      /\ r.room = Room /\ r.go /\ ~r.shut /\ r.got = 0
  <2>1. /\ r \in Calls /\ r.e = hst /\ r.rx = d2h /\ r.tx = h2d /\ r.k = k
        /\ r.room = Room /\ r.go /\ ~r.shut /\ r.got = 0
    BY <1>1, <1>5 DEF Call, Calls
  <2> QED BY <1>2, <1>5, <2>1
<1>7. w \in Writes(r)
  OBVIOUS
<1> HIDE DEF r, all
<1>8. Writing(r)
  BY <1>2, <1>6 DEF Writing
<1>9. Carrying(h2d, hst.hdr, m, hst.done)
  BY <1>2, <1>3, CarryingNone
<1> HIDE DEF m
<1>10. PICK n \in Nat : Sent(r, w, m, n)
  <2>1. r.e.done < FrameLen(r.e.hdr, r.e.state)
    BY <1>2, <1>6 DEF all
  <2> QED BY <1>3, <1>6, <1>7, <1>8, <1>9, <2>1, WritesDo
<1> DEFINE q == hst.done + n
<1>11. /\ w \in Calls /\ SameReads(r, w) /\ n <= Room /\ q <= all
       /\ Carrying(w.tx, hst.hdr, m, q)
       /\ q < all => ~w.go /\ w.e = Moved(hst, "write_request", q, hst.hdr)
       /\ q = all => w.go /\ w.e = Moved(hst, "read_response", 0, hst.hdr)
  <2>1. FrameLen(r.e.hdr, r.e.state) = all /\ r.e.state = "write_request"
    BY <1>2, <1>6 DEF all
  <2> QED BY <1>6, <1>10, <2>1 DEF Sent
<1>12. w.rx = <<>> /\ w.k = 0 /\ ~w.shut /\ w.got = 0 /\ w.tx \in Seq(Unit)
  BY <1>6, <1>11 DEF SameReads, Calls
<1>13. q \in Nat /\ (rst => n = 0)
  BY <1>3, <1>5, <1>11
<1>14. IF rst THEN w.tx = <<>> ELSE Carrying(w.tx, hst.hdr, DevPos, q)
  <2>1. CASE rst
    <3>1. q = hst.done /\ m = hst.done
      BY <1>3, <1>13, <2>1 DEF m
    <3> QED BY <1>3, <1>11, <2>1, <3>1, CarryingEmpty
  <2>2. CASE ~rst
    BY <1>11, <2>2 DEF m
  <2> QED BY <2>1, <2>2
<1>15. ~gone => Len(w.tx) <= SockBuf
  <2>1. Len(w.tx) = q - m /\ Len(h2d) = hst.done - m
    BY <1>9, <1>11 DEF Carrying
  <2> QED BY <1>3, <1>4, <1>5, <1>11, <2>1
<1>16. hst.buf # NoPacket => pk[hst.buf].got + 0 <= MaxLen
  BY <1>1, <1>3, LinkNumbers DEF Packet
<1>17. ASSUME NEW s \in {"write_request", "read_response"}, NEW i \in Nat,
              i <= 2 + MaxLen, w.e = Moved(hst, s, i, hst.hdr), x.e = w.e, x \in Calls,
              ~x.go, x.tx = w.tx, x.rx = <<>>, x.got = 0
       PROVE  /\ hst'.state = s /\ hst'.done = i /\ hst'.hdr = hst.hdr
              /\ For(hst.hdr, NoResult, 0)'
              /\ h2d' = w.tx /\ d2h' = <<>> /\ UNCHANGED <<dev, gone, rst, answered>>
              /\ TypeOK' /\ PacketInv' /\ BuffersFilled' /\ SocketInv'
              /\ UNCHANGED Transfer!vars
  <2>1. s \in States /\ s \in HostStates
    BY DEF States, HostStates
  <2>2. x.e.state = s /\ x.e.done = i /\ x.e.hdr = hst.hdr
    BY <1>1, <1>3, <1>17, <2>1, MovedFacts
  <2>3. /\ x.e \in HostEnd /\ x.e.buf = hst.buf /\ x.e.pkt = hst.pkt
        /\ x.e.thread = hst.thread /\ x.e.up = hst.up
    <3>1. PICK u \in Header : u = hst.hdr
      BY <1>3
    <3>2. x.e = Moved(hst, s, i, u)
      BY <1>17, <3>1
    <3> QED BY <1>1, <2>1, <3>2, MovedSide
  <2>4. /\ hst' \in HostEnd /\ hst'.state = s /\ hst'.done = i
        /\ hst'.hdr = hst.hdr /\ hst'.buf = hst.buf /\ hst'.pkt = hst.pkt
        /\ hst'.thread = hst.thread /\ ~hst'.inside /\ (hst'.up => hst.up)
        /\ pk' = Counts(hst.buf, 0)
        /\ h2d' = w.tx /\ d2h' = <<>> /\ UNCHANGED <<dev, gone, rst, answered>>
    BY <1>17, <2>2, <2>3, HostPauses
  <2>5. hst'.done <= HeaderLen + MaxLen /\ hst'.state # "idle" /\ d2h' \in Seq(Unit)
    BY <1>1, <1>2, <1>3, <1>17, <2>4
  <2>6. /\ TypeOK' /\ PacketInv' /\ BuffersFilled' /\ UNCHANGED Transfer!vars
        /\ \A p \in Packets :
              /\ pk'[p].st = pk[p].st /\ pk'[p].kind = pk[p].kind
              /\ pk'[p].got = IF p = hst.buf THEN pk[p].got + 0 ELSE pk[p].got
    BY <1>1, <1>12, <1>16, <2>1, <2>4, <2>5, HostKeeps
  <2>7. For(hst.hdr, NoResult, 0)'
    <3>1. hst.buf # NoPacket => pk'[hst.buf].got = pk[hst.buf].got
      BY <1>1, <1>3, <2>6, LinkNumbers DEF Packet
    <3> QED BY <1>2, <1>3, <2>4, <2>6, <3>1 DEF For
  <2>8. SocketInv'
    BY <1>2, <1>15, <2>4 DEF LinkInv, SocketInv
  <2> QED BY <2>4, <2>6, <2>7, <2>8
<1>18. CASE q < all
  <2>1. x = w
    <3>1. ~Reading(w)
      BY <1>11, <1>18 DEF Reading
    <3> QED BY <3>1, NoReads
  <2>2. q <= 2 + MaxLen
    BY <1>4, <1>13, <1>18
  <2> HIDE DEF q
  <2>3. /\ hst'.state = "write_request" /\ hst'.done = q /\ hst'.hdr = hst.hdr
        /\ For(hst.hdr, NoResult, 0)'
        /\ h2d' = w.tx /\ d2h' = <<>> /\ UNCHANGED <<dev, gone, rst, answered>>
        /\ TypeOK' /\ PacketInv' /\ BuffersFilled' /\ SocketInv'
        /\ UNCHANGED Transfer!vars
    BY <1>11, <1>12, <1>13, <1>17, <1>18, <2>1, <2>2
  <2>4. Sending'
    BY <1>2, <1>14, <1>18, <2>3 DEF Sending, Requesting, DevPos, all
  <2> QED BY <2>3, <2>4 DEF StepOk, LinkInv, TransferInv
<1>19. CASE q = all
  <2>1. ~rst
    BY <1>2, <1>3, <1>13, <1>19
  <2>2. w.e.state = "read_response" /\ w.e.done = 0
    <3>1. PICK u \in Header : u = hst.hdr
      BY <1>3
    <3>2. PICK y \in States : y = "read_response"
      BY DEF States
    <3>3. PICK z \in Nat : z = 0
      OBVIOUS
    <3>4. w.e = Moved(hst, y, z, u)
      BY <1>11, <1>19, <3>1, <3>2, <3>3
    <3>5. Moved(hst, y, z, u).state = y /\ Moved(hst, y, z, u).done = z
      <4>1. hst \in Ends /\ y \in States /\ z \in Nat /\ u \in Header
        BY <1>1
      <4> QED BY <4>1, MovedFacts
    <3> QED BY <3>2, <3>3, <3>4, <3>5, Zenon
  <2>3. Reading(w)
    BY <1>11, <1>19, <2>2 DEF Reading
  <2>4. /\ x \in Calls /\ x.e = w.e /\ ~x.go /\ x.rx = <<>> /\ x.tx = w.tx /\ x.got = 0
    BY <1>11, <1>12, <2>2, <2>3, NothingRead
  <2>5. 0 \in Nat /\ 0 <= 2 + MaxLen
    BY <1>4
  <2>6. /\ hst'.state = "read_response" /\ hst'.done = 0 /\ hst'.hdr = hst.hdr
        /\ For(hst.hdr, NoResult, 0)'
        /\ h2d' = w.tx /\ d2h' = <<>> /\ UNCHANGED <<dev, gone, rst, answered>>
        /\ TypeOK' /\ PacketInv' /\ BuffersFilled' /\ SocketInv'
        /\ UNCHANGED Transfer!vars
    BY <1>11, <1>17, <1>19, <2>4, <2>5
  <2>7. Carrying(w.tx, hst.hdr, DevPos, all)
    BY <1>14, <1>19, <2>1
  <2> HIDE DEF q
  <2>8. Awaiting'
    BY <1>2, <2>1, <2>6, <2>7 DEF Awaiting, Requesting, DevPos, all
  <2> QED BY <2>6, <2>8 DEF StepOk, LinkInv, TransferInv
<1> QED BY <1>4, <1>11, <1>13, <1>18, <1>19

\* A call that finds its endpoint idle.
LEMMA IdleFacts ==
    ASSUME NEW r \in Calls
    PROVE  /\ r.e.state # "idle" => Idle(r) = r
           /\ r.e.state = "idle" =>
                 /\ Idle(r) \in Calls
                 /\ Idle(r).e = Moved(r.e, "read_request", 0, NoHeader)
                 /\ Idle(r).rx = r.rx /\ Idle(r).tx = r.tx /\ Idle(r).k = r.k
                 /\ Idle(r).room = r.room /\ Idle(r).can = r.can /\ Idle(r).go = r.go
                 /\ Idle(r).shut = r.shut /\ Idle(r).got = r.got
           /\ NoHeader \in Header
<1>1. NoHeader \in Header
  BY LinkNumbers DEF NoHeader, Header
<1>2. ASSUME r.e.state = "idle"
      PROVE  /\ Idle(r) \in Calls
             /\ Idle(r).e = Moved(r.e, "read_request", 0, NoHeader)
             /\ Idle(r).rx = r.rx /\ Idle(r).tx = r.tx /\ Idle(r).k = r.k
             /\ Idle(r).room = r.room /\ Idle(r).can = r.can /\ Idle(r).go = r.go
             /\ Idle(r).shut = r.shut /\ Idle(r).got = r.got
  <2> DEFINE f == [r.e EXCEPT !.state = "read_request", !.done = 0, !.hdr = NoHeader]
  <2>1. f = Moved(r.e, "read_request", 0, NoHeader)
    BY DEF Moved
  <2>2. r.e \in Ends /\ "read_request" \in States /\ 0 \in Nat
    BY DEF Calls, States
  <2>3. Idle(r) = [r EXCEPT !.e = f]
    BY <1>2 DEF Idle, Calls
  <2> HIDE DEF f
  <2>4. f \in Ends
    BY <1>1, <2>1, <2>2, MovedFacts
  <2> QED BY <2>1, <2>3, <2>4 DEF Calls
<1>3. r.e.state # "idle" => Idle(r) = r
  BY DEF Idle
<1> QED BY <1>1, <1>2, <1>3

\* An idle endpoint finds the peer closed.
LEMMA HostCloses ==
    ASSUME Orderly, LinkInv, hst.state = "idle", Eof, NEW k \in 0 .. Len(d2h),
           NEW w \in Writes(Idle(Call(hst, d2h, h2d, k, Room, TRUE))), NEW x \in Reads(w),
           HostDone(x)
    PROVE  StepOk
<1> DEFINE c == Call(hst, d2h, h2d, k, Room, TRUE)
           r == Idle(c)
<1>1. /\ hst \in HostEnd /\ h2d \in Seq(Unit) /\ d2h \in Seq(Unit) /\ hst \in Ends
      /\ pk \in [Packets -> Packet] /\ hst.buf \in Packets \cup {NoPacket}
  BY LinkTyped DEF LinkInv, Typed, Ends, HostEnd
<1>2. d2h = <<>> /\ h2d = <<>> /\ Quiescent /\ gone /\ hst.pkt = NoPacket
  BY DEF Eof, LinkInv, TransferInv, Sending, Awaiting, Receiving, Quiescent, PacketInv
<1>3. k = 0 /\ Room \in Nat
  BY <1>2, RoomFacts
<1>4. /\ c \in Calls /\ c.e = hst /\ c.rx = <<>> /\ c.tx = <<>> /\ c.k = 0
      /\ c.can /\ c.go /\ ~c.shut /\ c.got = 0
  <2>1. /\ c \in Calls /\ c.e = hst /\ c.rx = d2h /\ c.tx = h2d /\ c.k = k
        /\ c.can /\ c.go /\ ~c.shut /\ c.got = 0
    BY <1>1, <1>3 DEF Call, Calls
  <2> QED BY <1>2, <1>3, <2>1
<1>5. w \in Writes(r)
  OBVIOUS
<1> HIDE DEF c
<1>6. /\ r \in Calls /\ r.e = Moved(hst, "read_request", 0, NoHeader)
      /\ r.rx = <<>> /\ r.tx = <<>> /\ r.k = 0
      /\ r.can /\ r.go /\ ~r.shut /\ r.got = 0 /\ NoHeader \in Header
  BY <1>4, IdleFacts
<1> HIDE DEF r
<1>7. "read_request" \in States /\ 0 \in Nat
  BY DEF States
<1>8. r.e.state = "read_request" /\ r.e.done = 0
  BY <1>1, <1>6, <1>7, MovedFacts
<1>9. /\ r.e \in HostEnd /\ r.e.buf = hst.buf /\ r.e.pkt = hst.pkt
      /\ r.e.thread = hst.thread /\ r.e.up = hst.up
  BY <1>1, <1>6, <1>7, MovedSide
<1>10. Reading(r) /\ ~Writing(r)
  BY <1>6, <1>8 DEF Reading, Writing
<1>11. w = r
  BY <1>5, <1>10, NoWrites
<1>12. /\ x \in Calls /\ x.e = r.e /\ ~x.go /\ x.rx = <<>> /\ x.tx = <<>>
       /\ x.got = 0 /\ x.shut
  BY <1>6, <1>8, <1>10, <1>11, NothingRead
<1>13. /\ hst' \in HostEnd /\ hst'.state = "read_request" /\ hst'.done = 0
       /\ hst'.buf = hst.buf /\ hst'.pkt = hst.pkt
       /\ hst'.thread = hst.thread /\ ~hst'.inside /\ (hst'.up => hst.up)
       /\ hst'.closed /\ pk' = Counts(hst.buf, 0)
       /\ h2d' = <<>> /\ d2h' = <<>> /\ UNCHANGED <<dev, gone, rst, answered>>
  BY <1>8, <1>9, <1>12, HostPauses
<1>14. hst'.done <= HeaderLen + MaxLen /\ hst'.state \in HostStates
       /\ h2d' \in Seq(Unit) /\ d2h' \in Seq(Unit)
  BY <1>1, <1>2, <1>13, LinkNumbers DEF HostStates
<1>15. hst.buf # NoPacket => pk[hst.buf].got + 0 <= MaxLen
  BY <1>1, LinkNumbers DEF Packet
<1>16. TypeOK' /\ PacketInv' /\ BuffersFilled' /\ UNCHANGED Transfer!vars
  BY <1>1, <1>13, <1>14, <1>15, HostKeeps
<1>17. TransferInv'
  BY <1>2, <1>13 DEF TransferInv, Quiescent
<1>18. SocketInv'
  BY <1>2, <1>13 DEF LinkInv, SocketInv
<1> QED BY <1>16, <1>17, <1>18 DEF StepOk, LinkInv

\* A call in read_response.
LEMMA HostReads ==
    ASSUME Orderly, LinkInv, hst.state = "read_response", NEW k \in 0 .. Len(d2h),
           NEW room \in Nat, NEW can \in BOOLEAN,
           NEW x \in Reads(Call(hst, d2h, h2d, k, room, can)), HostDone(x)
    PROVE  StepOk
<1>1. Awaiting \/ Receiving
  BY DEF LinkInv, TransferInv, Sending
<1> QED BY <1>1, HostAwaits, HostReceives

\* The main loop of the x86 side.
LEMMA HostRunsStep ==
    ASSUME Orderly, LinkInv, HostRuns
    PROVE  StepOk
<1>1. PICK k \in 0 .. Len(d2h), can \in BOOLEAN : HostFd(k, can)
  BY DEF HostRuns
<1> DEFINE c == Call(hst, d2h, h2d, k, Room, can)
<1>2. PICK w \in Writes(Idle(c)) : \E x \in Reads(w) : HostDone(x)
  BY <1>1 DEF HostFd
<1>3. PICK x \in Reads(w) : HostDone(x)
  BY <1>2
<1>4. /\ hst \in Ends /\ hst.state \in HostStates /\ h2d \in Seq(Unit) /\ d2h \in Seq(Unit)
      /\ Room \in Nat
  BY LinkTyped, RoomFacts DEF LinkInv, Typed, Ends
<1>5. c \in Calls /\ c.e = hst
  BY <1>4 DEF Call, Calls
<1>6. CASE hst.state = "idle"
  <2>1. can = TRUE /\ Eof
    BY <1>1, <1>6 DEF HostFd
  <2> QED BY <1>2, <1>3, <1>6, <2>1, HostCloses
<1>7. CASE hst.state = "read_request"
  <2>1. hst.closed
    BY <1>7 DEF LinkInv, TransferInv, Sending, Awaiting, Receiving
  <2> QED BY <1>1, <2>1 DEF HostFd
<1>8. CASE hst.state = "write_request"
  <2>1. Sending
    BY <1>8 DEF LinkInv, TransferInv, Awaiting, Receiving
  <2>2. w \in Writes(c)
    <3> HIDE DEF c
    <3> QED BY <1>2, <1>5, <1>8, IdleFacts
  <2> QED BY <1>3, <2>1, <2>2, HostWrites
<1>9. CASE hst.state = "read_response"
  <2>1. w = c
    <3> HIDE DEF c
    <3>1. w \in Writes(c) /\ ~Writing(c)
      BY <1>2, <1>5, <1>9, IdleFacts DEF Writing
    <3> QED BY <3>1, NoWrites
  <2> QED BY <1>3, <1>4, <1>9, <2>1, HostReads
<1> QED BY <1>4, <1>6, <1>7, <1>8, <1>9 DEF HostStates

\* The read inside handle_packet.
LEMMA HostReturnsStep ==
    ASSUME Orderly, LinkInv, HostReturns
    PROVE  StepOk
<1>1. PICK k \in 0 .. Len(d2h) : HostContinue(k)
  BY DEF HostReturns
<1>2. hst.state = "read_response"
  BY <1>1 DEF HostContinue, LinkInv, PacketInv
<1>3. PICK x \in Reads(Call(hst, d2h, h2d, k, 0, FALSE)) : HostDone(x)
  BY <1>1 DEF HostContinue
<1> QED BY <1>2, <1>3, HostReads

\* Where the link is after a request was made: it is being sent, or all of it
\* was and the call goes on to read.
Begun ==
    \/ /\ hst.state = "write_request" /\ hst.done < FrameLen(hst.hdr, "write_request")
       /\ Requesting(hst.done)
    \/ /\ hst.state = "read_response" /\ hst.done = 0
       /\ Requesting(FrameLen(hst.hdr, "write_request"))

\* tcp_usb_request on an idle connection.
LEMMA RequestStep ==
    ASSUME Orderly, LinkInv, hst.state = "idle", NEW h \in Header,
           NEW p \in Packets \cup {NoPacket}, NEW e \in HostEnd, Requested(h, p, e),
           UNCHANGED <<dev, d2h, gone, rst>>
    PROVE  /\ hst' \in HostEnd /\ hst'.state \in HostStates
           /\ hst'.done <= HeaderLen + MaxLen /\ hst'.state # "idle"
           /\ hst'.hdr = h /\ hst'.buf = p /\ hst'.pkt = e.pkt
           /\ hst'.thread = e.thread /\ hst'.up = e.up
           /\ hst'.inside => hst'.state = "read_response"
           /\ h2d' \in Seq(Unit) /\ Begun' /\ SocketInv'
<1> DEFINE f == [e EXCEPT !.state = "write_request", !.done = 0, !.hdr = h, !.buf = p]
           r == Call(f, d2h, h2d, 0, Room, FALSE)
           all == FrameLen(h, "write_request")
<1>1. /\ h2d \in Seq(Unit) /\ d2h \in Seq(Unit) /\ MaxLen \in Nat /\ SockBuf \in Nat
      /\ HeaderLen = 2
  BY LinkTyped, LinkNumbers DEF LinkInv, Typed
<1>2. dev.state = "idle" /\ h2d = <<>> /\ d2h = <<>> /\ DevPos = 0
  BY DEF LinkInv, TransferInv, Sending, Awaiting, Receiving, Quiescent, DevPos
<1>3. all \in Nat /\ all >= 2 /\ all <= 2 + MaxLen /\ all = FrameLen(h, "read_request")
  <2>1. all \in Nat /\ all >= 2 /\ all <= 2 + MaxLen
    BY <1>1, FrameLenType
  <2> QED BY <2>1 DEF FrameLen, Answering
<1>4. Room \in Nat /\ (rst => Room = 0) /\ (~gone => Len(h2d) + Room <= SockBuf)
  BY RoomFacts
<1>5. /\ f \in HostEnd /\ f.state = "write_request" /\ f.done = 0 /\ f.hdr = h
      /\ f.buf = p /\ f.pkt = e.pkt /\ f.thread = e.thread /\ f.up = e.up
  BY DEF HostEnd, States
<1>6. PICK x \in Writes(r) : hst' = [x.e EXCEPT !.inside = x.go] /\ h2d' = x.tx
  BY DEF Requested, tcp_usb_request
<1> HIDE DEF f, all
<1>7. f \in Ends
  BY <1>5 DEF Ends
<1>8. /\ r \in Calls /\ r.e = f /\ r.tx = h2d /\ r.room = Room /\ r.go
  BY <1>1, <1>4, <1>7 DEF Call, Calls
<1> HIDE DEF r
<1>9. Writing(r)
  BY <1>5, <1>8 DEF Writing
<1>10. Carrying(r.tx, h, 0, 0)
  BY <1>2, <1>8, CarryingNone
<1>11. PICK n \in Nat : Sent(r, x, 0, n)
  <2>1. r.e.done < FrameLen(r.e.hdr, r.e.state) /\ r.e.done = 0 /\ r.e.hdr = h
    BY <1>3, <1>5, <1>8 DEF all
  <2> QED BY <1>6, <1>8, <1>9, <1>10, <2>1, WritesDo
<1>12. /\ x \in Calls /\ n <= Room /\ n <= all /\ Carrying(x.tx, h, 0, n)
       /\ n < all => ~x.go /\ x.e = Moved(f, "write_request", n, h)
       /\ n = all => x.go /\ x.e = Moved(f, "read_response", 0, h)
  <2>1. FrameLen(r.e.hdr, r.e.state) = all /\ r.e.state = "write_request"
        /\ r.e.hdr = h /\ r.e.done + n = n /\ r.e = f
    BY <1>5, <1>8 DEF all
  <2> QED BY <1>8, <1>11, <2>1 DEF Sent
<1>13. rst => n = 0 /\ x.tx = <<>>
  <2> SUFFICES ASSUME rst PROVE n = 0 /\ x.tx = <<>>
    OBVIOUS
  <2>1. n = 0
    BY <1>4, <1>12
  <2> QED BY <1>12, <2>1, CarryingEmpty
<1>14. ASSUME NEW s \in {"write_request", "read_response"}, NEW i \in Nat,
              x.e = Moved(f, s, i, h)
       PROVE  /\ hst' \in HostEnd /\ hst'.state = s /\ hst'.done = i /\ hst'.hdr = h
              /\ hst'.buf = p /\ hst'.pkt = e.pkt /\ hst'.thread = e.thread
              /\ hst'.up = e.up /\ hst'.inside = x.go
  <2>1. s \in States
    BY DEF States
  <2>2. x.e.state = s /\ x.e.done = i /\ x.e.hdr = h
    BY <1>7, <1>14, <2>1, MovedFacts
  <2>3. /\ x.e \in HostEnd /\ x.e.buf = p /\ x.e.pkt = e.pkt
        /\ x.e.thread = e.thread /\ x.e.up = e.up
    BY <1>5, <1>14, <2>1, MovedSide
  <2>4. x.go \in BOOLEAN
    BY <1>12 DEF Calls
  <2> QED BY <1>6, <2>2, <2>3, <2>4 DEF HostEnd
<1>15. SocketInv' /\ h2d' \in Seq(Unit)
  <2>1. Len(h2d') = n
    BY <1>6, <1>12 DEF Carrying
  <2>2. h2d' \in Seq(Unit)
    BY <1>6, <1>12 DEF Calls
  <2>3. ~gone => n <= SockBuf
    BY <1>1, <1>2, <1>4, <1>12
  <2> QED BY <2>1, <2>2, <2>3 DEF LinkInv, SocketInv
<1>16. CASE n < all
  <2>1. /\ hst' \in HostEnd /\ hst'.state = "write_request" /\ hst'.done = n
        /\ hst'.hdr = h /\ hst'.buf = p /\ hst'.pkt = e.pkt /\ hst'.thread = e.thread
        /\ hst'.up = e.up /\ ~hst'.inside
    BY <1>12, <1>14, <1>16
  <2>2. Requesting(hst.done)'
    BY <1>2, <1>3, <1>6, <1>12, <1>13, <2>1, LinkNumbers
       DEF Requesting, DevPos, HeaderPart, all
  <2>3. Begun'
    BY <1>16, <2>1, <2>2 DEF Begun, all
  <2>4. hst'.done <= HeaderLen + MaxLen
    BY <1>1, <1>3, <1>16, <2>1
  <2> QED BY <1>15, <2>1, <2>3, <2>4 DEF HostStates
<1>17. CASE n = all
  <2>1. /\ hst' \in HostEnd /\ hst'.state = "read_response" /\ hst'.done = 0
        /\ hst'.hdr = h /\ hst'.buf = p /\ hst'.pkt = e.pkt /\ hst'.thread = e.thread
        /\ hst'.up = e.up
    BY <1>12, <1>14, <1>17
  <2>2. ~rst
    BY <1>3, <1>13, <1>17
  <2>3. Requesting(FrameLen(hst.hdr, "write_request"))'
    <3>1. Carrying(h2d', h, 0, all)
      BY <1>6, <1>12, <1>17
    <3> QED BY <1>2, <1>3, <2>1, <2>2, <3>1, LinkNumbers
            DEF Requesting, DevPos, HeaderPart, all
  <2>4. Begun'
    BY <2>1, <2>3 DEF Begun
  <2>5. hst'.done <= HeaderLen + MaxLen
    BY <1>1, <2>1
  <2> QED BY <1>15, <2>1, <2>4, <2>5 DEF HostStates
<1> QED BY <1>3, <1>12, <1>16, <1>17

\* handle_packet.
LEMMA PacketStep ==
    ASSUME Orderly, LinkInv, NEW p \in Packets, NEW kind \in {"setup", "in", "out"},
           NEW len \in 0 .. MaxLen, passthrough_packet(p, kind, len)
    PROVE  StepOk
<1> DEFINE e == [hst EXCEPT !.pkt = p,
                            !.setup_len = IF kind = "setup" THEN len ELSE hst.setup_len]
           h == [kind |-> kind, tag |-> p,
                 len |-> CASE kind = "setup" -> 1
                           [] kind = "in" -> hst.setup_len
                           [] OTHER -> len]
<1>1. /\ hst \in HostEnd /\ pk \in [Packets -> Packet] /\ PacketInv /\ BuffersFilled
      /\ \A q \in Packets : pk[q] \in Packet
      /\ hst.setup_len \in 0 .. MaxLen
  BY LinkTyped DEF LinkInv, Typed, HostEnd
<1>2. /\ hst.up /\ hst.pkt = NoPacket /\ hst.state = "idle" /\ pk[p].st = "new"
      /\ Requested(h, p, e) /\ UNCHANGED <<dev, d2h, gone, rst, answered>>
      /\ pk' = [pk EXCEPT ![p].kind = kind, ![p].st = "deferred"]
  BY DEF passthrough_packet, Orderly
<1>3. e \in HostEnd /\ e.pkt = p /\ e.thread = hst.thread /\ e.up = hst.up
  BY <1>1 DEF HostEnd
<1>4. h \in Header /\ h.tag = p /\ h.kind = kind
  <2>1. (CASE kind = "setup" -> 1 [] kind = "in" -> hst.setup_len [] OTHER -> len) \in Results
    BY <1>1, LinkNumbers
  <2> QED BY <2>1 DEF Header
<1> HIDE DEF e, h
<1>5. /\ hst' \in HostEnd /\ hst'.state \in HostStates
      /\ hst'.done <= HeaderLen + MaxLen /\ hst'.state # "idle"
      /\ hst'.hdr = h /\ hst'.buf = p /\ hst'.pkt = p
      /\ hst'.thread = hst.thread /\ hst'.up = hst.up
      /\ hst'.inside => hst'.state = "read_response"
      /\ h2d' \in Seq(Unit) /\ Begun' /\ SocketInv'
  BY <1>2, <1>3, <1>4, RequestStep
<1>6. /\ pk' \in [Packets -> Packet]
      /\ pk'[p].st = "deferred" /\ pk'[p].kind = kind /\ pk'[p].ret = pk[p].ret
      /\ pk'[p].got = pk[p].got
      /\ \A q \in Packets : q # p => pk'[q] = pk[q]
  <2> DEFINE v == [pk[p] EXCEPT !.kind = kind, !.st = "deferred"]
  <2>1. /\ v \in Packet /\ v.st = "deferred" /\ v.kind = kind /\ v.ret = pk[p].ret
        /\ v.got = pk[p].got
    BY <1>1 DEF Packet
  <2>2. pk' = [pk EXCEPT ![p] = v]
    BY <1>1, <1>2
  <2> HIDE DEF v
  <2> QED BY <1>1, <2>1, <2>2
<1>7. TypeOK'
  BY <1>2, <1>5, <1>6, LinkTyped DEF LinkInv, Typed
<1>8. PacketInv'
  <2>1. ASSUME NEW q \in Packets
        PROVE  /\ pk'[q].st # "stalled"
               /\ pk'[q].st = "deferred" <=> hst'.pkt = q
               /\ pk'[q].st = "new" => pk'[q].got = 0 /\ answered'[q] = NoResult
    BY <1>1, <1>2, <1>5, <1>6, LinkNumbers DEF PacketInv
  <2> QED BY <1>1, <1>2, <1>5, <2>1 DEF PacketInv
<1>9. BuffersFilled'
  BY <1>1, <1>6 DEF BuffersFilled
<1>10. For(hst.hdr, NoResult, 0)'
  <2>1. pk'[p].got = 0 /\ answered'[p] = NoResult
    BY <1>1, <1>2, <1>6 DEF PacketInv
  <2> QED BY <1>4, <1>5, <1>6, <2>1, LinkNumbers DEF For
<1>11. TransferInv'
  BY <1>5, <1>10 DEF Begun, TransferInv, Sending, Awaiting
<1>12. Transfer!Next
  <2>1. \A q \in Packets : pk[q].st \notin {"deferred", "stalled"}
    BY <1>1, <1>2, LinkNumbers DEF PacketInv
  <2>2. \A q \in Packets :
           /\ pk[q].st \in {"new", "deferred", "stalled", "refused", "cancelled", "done"}
           /\ StatusOf(pk'[q].st) = IF q = p THEN "pending" ELSE StatusOf(pk[q].st)
           /\ pk'[q].ret = pk[q].ret
    BY <1>1, <1>6 DEF StatusOf, Packet
  <2> QED BY <1>2, <2>1, <2>2, SeenSubmit
<1> QED BY <1>5, <1>7, <1>8, <1>9, <1>11, <1>12 DEF StepOk, LinkInv

\* A reset of the bus.
LEMMA ResetStep ==
    ASSUME Orderly, LinkInv, passthrough_reset
    PROVE  StepOk
<1> DEFINE e == [hst EXCEPT !.pkt = NoPacket]
<1>1. hst \in HostEnd /\ PacketInv /\ NoHeader \in Header /\ NoPacket \notin Packets
  <2>1. NoHeader \in Header
    BY LinkNumbers DEF NoHeader, Header
  <2> QED BY <2>1, LinkTyped, LinkNumbers DEF LinkInv, Typed
<1>2. /\ hst.state = "idle" /\ Requested(NoHeader, NoPacket, e)
      /\ UNCHANGED <<dev, d2h, gone, rst, pk, answered>>
  BY DEF passthrough_reset, Orderly
<1>3. hst.pkt = NoPacket
  BY <1>1, <1>2 DEF PacketInv
<1>4. e \in HostEnd /\ e.pkt = NoPacket /\ e.thread = hst.thread /\ e.up = hst.up
  BY <1>1 DEF HostEnd
<1> HIDE DEF e
<1>5. /\ hst' \in HostEnd /\ hst'.state \in HostStates
      /\ hst'.done <= HeaderLen + MaxLen /\ hst'.state # "idle"
      /\ hst'.hdr = NoHeader /\ hst'.buf = NoPacket /\ hst'.pkt = NoPacket
      /\ hst'.thread = hst.thread /\ hst'.up = hst.up
      /\ hst'.inside => hst'.state = "read_response"
      /\ h2d' \in Seq(Unit) /\ Begun' /\ SocketInv'
  BY <1>1, <1>2, <1>4, RequestStep
<1>6. TypeOK'
  BY <1>2, <1>5, LinkTyped DEF LinkInv, Typed
<1>7. PacketInv' /\ BuffersFilled'
  BY <1>1, <1>2, <1>3, <1>5 DEF LinkInv, PacketInv, BuffersFilled
<1>8. For(hst.hdr, NoResult, 0)'
  BY <1>5 DEF For, NoHeader
<1>9. TransferInv'
  BY <1>5, <1>8 DEF Begun, TransferInv, Sending, Awaiting
<1>10. UNCHANGED Transfer!vars
  BY <1>2, NotSeen
<1> QED BY <1>5, <1>6, <1>7, <1>9, <1>10 DEF StepOk, LinkInv

\* A step that does not touch the connection.
LEMMA LinkKept ==
    ASSUME TransferInv, UNCHANGED <<dev, h2d, d2h, gone, rst, answered>>,
           hst'.state = hst.state, hst'.done = hst.done, hst'.hdr = hst.hdr,
           hst'.buf = hst.buf, hst'.closed = hst.closed,
           hst.buf # NoPacket /\ pk[hst.buf].st \in {"deferred", "cancelled"} =>
              /\ pk'[hst.buf].st \in {"deferred", "cancelled"}
              /\ pk'[hst.buf].kind = pk[hst.buf].kind /\ pk'[hst.buf].got = pk[hst.buf].got
    PROVE  TransferInv'
<1>1. ASSUME NEW h, NEW a, NEW g, For(h, a, g)
      PROVE  /\ h.tag = hst'.buf
             /\ h.kind = "reset" <=> hst'.buf = NoPacket
             /\ hst'.buf # NoPacket =>
                   /\ h.kind = pk'[hst'.buf].kind
                   /\ pk'[hst'.buf].st \in {"deferred", "cancelled"}
                   /\ pk'[hst'.buf].got = g
                   /\ answered'[hst'.buf] = a
  BY <1>1 DEF For
<1>2. CASE hst.state \in {"idle", "read_request"}
  BY <1>2 DEF TransferInv, Sending, Awaiting, Receiving, Quiescent
<1>3. ASSUME Sending PROVE Sending'
  <2>1. For(hst.hdr, NoResult, 0)'
    BY <1>1, <1>3 DEF Sending, For
  <2>2. Requesting(hst.done)'
    BY <1>3 DEF Sending, Requesting, DevPos
  <2> QED BY <1>3, <2>1, <2>2 DEF Sending
<1>4. ASSUME Awaiting PROVE Awaiting'
  <2>1. For(hst.hdr, NoResult, 0)'
    BY <1>1, <1>4 DEF Awaiting, For
  <2>2. Requesting(FrameLen(hst.hdr, "write_request"))'
    BY <1>4 DEF Awaiting, Requesting, DevPos
  <2> QED BY <1>4, <2>1, <2>2 DEF Awaiting
<1>5. ASSUME Receiving PROVE Receiving'
  <2>1. For(dev.hdr, dev.hdr.len, Pos(hst.done - HeaderLen))'
    BY <1>1, <1>5 DEF Receiving, For
  <2>2. Responding'
    BY <1>5 DEF Receiving, Responding
  <2> QED BY <1>5, <2>1, <2>2 DEF Receiving
<1> QED BY <1>2, <1>3, <1>4, <1>5 DEF TransferInv

\* A packet refused by a device without connection.
LEMMA RefusedStep ==
    ASSUME LinkInv, NEW p \in Packets, PacketRefused(p)
    PROVE  StepOk
<1>1. /\ pk \in [Packets -> Packet] /\ PacketInv /\ BuffersFilled
      /\ pk[p] \in Packet /\ hst.buf \in Packets \cup {NoPacket}
  BY LinkTyped DEF LinkInv, Typed, HostEnd
<1>2. /\ pk[p].st = "new" /\ pk' = [pk EXCEPT ![p].st = "refused"]
      /\ UNCHANGED <<hst, dev, h2d, d2h, gone, rst, answered>>
  BY DEF PacketRefused
<1>3. /\ pk' \in [Packets -> Packet] /\ pk'[p].st = "refused"
      /\ \A q \in Packets : q # p => pk'[q] = pk[q]
      /\ pk'[p].ret = pk[p].ret /\ pk'[p].got = pk[p].got
  <2> DEFINE v == [pk[p] EXCEPT !.st = "refused"]
  <2>1. v \in Packet /\ v.st = "refused" /\ v.ret = pk[p].ret /\ v.got = pk[p].got
    BY <1>1 DEF Packet
  <2>2. pk' = [pk EXCEPT ![p] = v]
    BY <1>1, <1>2
  <2> HIDE DEF v
  <2> QED BY <1>1, <2>1, <2>2
<1>4. TypeOK'
  BY <1>2, <1>3, LinkTyped DEF LinkInv, Typed
<1>5. TransferInv'
  BY <1>1, <1>2, <1>3, LinkKept DEF LinkInv
<1>6. PacketInv'
  BY <1>1, <1>2, <1>3 DEF PacketInv
<1>7. BuffersFilled'
  BY <1>1, <1>3 DEF BuffersFilled
<1>8. SocketInv'
  BY <1>2 DEF LinkInv, SocketInv
<1>9. UNCHANGED Transfer!vars
  <2>1. \A q \in Packets : StatusOf(pk'[q].st) = StatusOf(pk[q].st) /\ pk'[q].ret = pk[q].ret
    BY <1>2, <1>3 DEF StatusOf
  <2> QED BY <1>2, <2>1, NotSeen
<1> QED BY <1>4, <1>5, <1>6, <1>7, <1>8, <1>9 DEF StepOk, LinkInv

\* A packet given up.
LEMMA CancelStep ==
    ASSUME LinkInv, passthrough_cancel
    PROVE  StepOk
<1> DEFINE p == hst.pkt
<1>1. /\ pk \in [Packets -> Packet] /\ PacketInv /\ BuffersFilled /\ hst \in HostEnd
      /\ hst.pkt \in Packets \cup {NoPacket} /\ NoPacket \notin Packets
      /\ hst.state \in HostStates /\ hst.done <= HeaderLen + MaxLen
  BY LinkTyped, LinkNumbers DEF LinkInv, Typed, HostEnd
<1>2. /\ pk[p].st = "deferred" /\ pk' = [pk EXCEPT ![p].st = "cancelled"]
      /\ p \in Packets /\ hst' = [hst EXCEPT !.pkt = NoPacket]
      /\ UNCHANGED <<dev, h2d, d2h, gone, rst, answered>>
  BY <1>1 DEF passthrough_cancel
<1>3. /\ hst' \in HostEnd /\ hst'.pkt = NoPacket /\ hst'.state = hst.state
      /\ hst'.done = hst.done /\ hst'.hdr = hst.hdr /\ hst'.buf = hst.buf
      /\ hst'.closed = hst.closed /\ hst'.thread = hst.thread /\ hst'.up = hst.up
      /\ hst'.inside = hst.inside
  BY <1>1, <1>2 DEF HostEnd
<1> HIDE DEF p
<1>4. /\ pk' \in [Packets -> Packet] /\ pk'[p].st = "cancelled"
      /\ \A q \in Packets : q # p => pk'[q] = pk[q]
      /\ pk'[p].ret = pk[p].ret /\ pk'[p].got = pk[p].got /\ pk'[p].kind = pk[p].kind
  <2> DEFINE v == [pk[p] EXCEPT !.st = "cancelled"]
  <2>1. v \in Packet /\ v.st = "cancelled" /\ v.ret = pk[p].ret /\ v.got = pk[p].got
        /\ v.kind = pk[p].kind
    BY <1>1, <1>2 DEF Packet
  <2>2. pk' = [pk EXCEPT ![p] = v]
    BY <1>1, <1>2
  <2> HIDE DEF v
  <2> QED BY <1>1, <1>2, <2>1, <2>2
<1>5. TypeOK'
  BY <1>1, <1>2, <1>3, <1>4, LinkTyped DEF LinkInv, Typed
<1>6. TransferInv'
  <2>1. hst.buf # NoPacket => hst.buf \in Packets
    BY <1>1 DEF HostEnd
  <2> QED BY <1>2, <1>3, <1>4, <2>1, LinkKept DEF LinkInv
<1>7. PacketInv'
  <2>1. ASSUME NEW q \in Packets
        PROVE  /\ pk'[q].st # "stalled"
               /\ pk'[q].st = "deferred" <=> hst'.pkt = q
               /\ pk'[q].st = "new" => pk'[q].got = 0 /\ answered'[q] = NoResult
    BY <1>1, <1>2, <1>3, <1>4 DEF PacketInv, p
  <2> QED BY <1>1, <1>3, <2>1 DEF PacketInv
<1>8. BuffersFilled'
  BY <1>1, <1>2, <1>4 DEF BuffersFilled
<1>9. SocketInv'
  BY <1>2 DEF LinkInv, SocketInv
<1>10. Transfer!Next
  <2>1. \A q \in Packets :
           /\ StatusOf(pk'[q].st) = IF q = p THEN "cancelled" ELSE StatusOf(pk[q].st)
           /\ pk'[q].ret = pk[q].ret
    BY <1>2, <1>4 DEF StatusOf
  <2> QED BY <1>2, <2>1, SeenCancel
<1> QED BY <1>5, <1>6, <1>7, <1>8, <1>9, <1>10 DEF StepOk, LinkInv

\* The accept thread.
LEMMA ThreadStep ==
    ASSUME LinkInv, tcp_bus_thread
    PROVE  StepOk
<1>1. /\ pk \in [Packets -> Packet] /\ PacketInv /\ BuffersFilled /\ hst \in HostEnd
      /\ hst.state \in HostStates /\ hst.done <= HeaderLen + MaxLen
  BY LinkTyped DEF LinkInv, Typed
<1>2. UNCHANGED <<dev, h2d, d2h, gone, rst, pk, answered>> /\ hst.thread # "done"
  BY DEF tcp_bus_thread
<1>3. hst.pkt = NoPacket /\ ~hst.up
  BY <1>1, <1>2 DEF PacketInv
<1>4. /\ hst' \in HostEnd /\ hst'.pkt = NoPacket /\ hst'.state = hst.state
      /\ hst'.done = hst.done /\ hst'.hdr = hst.hdr /\ hst'.buf = hst.buf
      /\ hst'.closed = hst.closed /\ hst'.inside = hst.inside
      /\ hst'.thread # "done" => ~hst'.up
  BY <1>1, <1>2, <1>3 DEF tcp_bus_thread, HostEnd
<1>5. TypeOK'
  BY <1>1, <1>2, <1>4, LinkTyped DEF LinkInv, Typed
<1>6. TransferInv'
  BY <1>2, <1>4, LinkKept DEF LinkInv
<1>7. PacketInv' /\ BuffersFilled'
  BY <1>1, <1>2, <1>3, <1>4 DEF PacketInv, BuffersFilled
<1>8. SocketInv'
  BY <1>2 DEF LinkInv, SocketInv
<1>9. UNCHANGED Transfer!vars
  BY <1>2, NotSeen
<1> QED BY <1>5, <1>6, <1>7, <1>8, <1>9 DEF StepOk, LinkInv

-----------------------------------------------------------------------------
(* The steps of the ARM side. *)

\* The ARM side does not touch packets, and answers only those that were sent.
LEMMA DevKeeps ==
    ASSUME LinkInv, UNCHANGED <<hst, gone, rst, pk>>, dev' \in DevEnd,
           dev'.state \in DevStates, dev'.done <= HeaderLen + MaxLen,
           h2d' \in Seq(Unit), d2h' \in Seq(Unit),
           answered' \in [Packets -> Results \cup {NoResult}],
           \A p \in Packets : pk[p].st = "new" => answered'[p] = answered[p]
    PROVE  TypeOK' /\ PacketInv' /\ BuffersFilled'
<1>1. TypeOK'
  BY LinkTyped DEF LinkInv, Typed
<1>2. PacketInv' /\ BuffersFilled'
  BY DEF LinkInv, PacketInv, BuffersFilled
<1> QED BY <1>1, <1>2

\* Writing on in a response.
LEMMA DevWrites ==
    ASSUME Orderly, LinkInv, Receiving, dev.state = "write_response", ~gone,
           NEW k \in 0 .. Len(h2d), NEW can \in BOOLEAN,
           NEW x \in Writes(Call(dev, h2d, d2h, k, SockBuf - Len(d2h), can)),
           dev' = x.e, h2d' = x.rx, d2h' = x.tx, UNCHANGED <<hst, gone, rst, pk, answered>>
    PROVE  StepOk
<1> DEFINE r == Call(dev, h2d, d2h, k, SockBuf - Len(d2h), can)
           all == FrameLen(dev.hdr, "write_response")
<1>1. /\ hst \in HostEnd /\ dev \in DevEnd /\ dev \in Ends /\ hst \in Ends
      /\ h2d \in Seq(Unit) /\ d2h \in Seq(Unit)
      /\ answered \in [Packets -> Results \cup {NoResult}]
  BY LinkTyped DEF LinkInv, Typed, Ends
<1>2. /\ hst.state = "read_response" /\ h2d = <<>> /\ HeaderPart(hst.hdr, dev.hdr, hst.done)
      /\ hst.done < all /\ dev.done < all /\ Carrying(d2h, dev.hdr, hst.done, dev.done)
      /\ For(dev.hdr, dev.hdr.len, Pos(hst.done - HeaderLen))
  BY DEF Receiving, Responding, FrameLen, Answering
<1>3. /\ hst.done \in Nat /\ dev.hdr \in Header /\ dev.done \in Nat /\ HeaderLen = 2
  BY <1>1, EndTypes, LinkNumbers
<1>4. all \in Nat /\ all >= 2 /\ all <= 2 + MaxLen /\ MaxLen \in Nat /\ SockBuf \in Nat
      /\ all = FrameLen(dev.hdr, "read_response")
  <2>1. all \in Nat /\ all >= 2 /\ all <= 2 + MaxLen
    BY <1>3, FrameLenType
  <2> QED BY <2>1, LinkNumbers DEF FrameLen, Answering
<1>5. Len(d2h) \in Nat /\ Len(d2h) <= SockBuf /\ SockBuf - Len(d2h) \in Nat /\ k = 0
  BY <1>1, <1>2, <1>4 DEF LinkInv, SocketInv
<1>6. r \in Calls /\ r.e = dev /\ r.tx = d2h /\ r.rx = h2d /\ r.room = SockBuf - Len(d2h) /\ r.go
  <2>1. k \in Nat
    BY <1>5
  <2> QED BY <1>1, <1>5, <2>1 DEF Call, Calls
<1>7. x \in Writes(r)
  OBVIOUS
<1> HIDE DEF r, all
<1>8. Writing(r)
  BY <1>6 DEF Writing
<1>9. PICK n \in Nat : Sent(r, x, hst.done, n)
  <2>1. r.e.done < FrameLen(r.e.hdr, r.e.state)
    BY <1>2, <1>6 DEF all
  <2> QED BY <1>2, <1>3, <1>6, <1>7, <1>8, <2>1, WritesDo
<1> DEFINE q == dev.done + n
<1>10. /\ x \in Calls /\ x.rx = h2d /\ n <= SockBuf - Len(d2h) /\ q <= all
       /\ Carrying(x.tx, dev.hdr, hst.done, q)
       /\ q < all => x.e = Moved(dev, "write_response", q, dev.hdr)
       /\ q = all => x.e = Moved(dev, "idle", all, dev.hdr)
  <2>1. FrameLen(r.e.hdr, r.e.state) = all /\ r.e.state = "write_response"
    BY <1>6 DEF all
  <2> QED BY <1>6, <1>9, <2>1 DEF Sent, SameReads
<1>11. q \in Nat
  BY <1>3
<1> HIDE DEF q
<1>12. /\ dev' \in DevEnd /\ dev'.hdr = dev.hdr
       /\ q < all => dev'.state = "write_response" /\ dev'.done = q
       /\ q = all => dev'.state = "idle" /\ dev'.done = all
  <2>1. "write_response" \in States /\ "idle" \in States
    BY DEF States
  <2>2. PICK u \in Header : u = dev.hdr
    BY <1>3
  <2>3. CASE q < all
    <3>1. dev' = Moved(dev, "write_response", q, u)
      BY <1>10, <2>2, <2>3
    <3>2. dev'.state = "write_response" /\ dev'.done = q /\ dev'.hdr = u
      BY <1>1, <1>11, <2>1, <3>1, MovedFacts
    <3>3. dev' \in DevEnd
      BY <1>1, <1>11, <2>1, <3>1, MovedSide
    <3> QED BY <1>4, <1>11, <2>2, <2>3, <3>2, <3>3
  <2>4. CASE q = all
    <3>1. dev' = Moved(dev, "idle", all, u)
      BY <1>10, <2>2, <2>4
    <3>2. dev'.state = "idle" /\ dev'.done = all /\ dev'.hdr = u
      <4>1. PICK y \in States : y = "idle"
        BY <2>1
      <4>2. PICK z \in Nat : z = all
        BY <1>4
      <4>3. /\ Moved(dev, y, z, u).state = y /\ Moved(dev, y, z, u).done = z
            /\ Moved(dev, y, z, u).hdr = u
        <5>1. dev \in Ends /\ y \in States /\ z \in Nat /\ u \in Header
          BY <1>1
        <5> QED BY <5>1, MovedFacts
      <4> QED BY <3>1, <4>1, <4>2, <4>3, Zenon
    <3>3. dev' \in DevEnd
      BY <1>1, <1>4, <2>1, <3>1, MovedSide
    <3> QED BY <1>4, <1>11, <2>2, <2>4, <3>2, <3>3
  <2> QED BY <1>4, <1>10, <1>11, <2>3, <2>4
<1>13. q < all \/ q = all
  BY <1>4, <1>10, <1>11
<1>14. dev'.state \in DevStates /\ dev'.done <= HeaderLen + MaxLen
  BY <1>3, <1>4, <1>11, <1>12, <1>13 DEF DevStates
<1>15. h2d' \in Seq(Unit) /\ d2h' \in Seq(Unit)
  BY <1>10 DEF Calls
<1>16. TypeOK' /\ PacketInv' /\ BuffersFilled'
  BY <1>1, <1>12, <1>14, <1>15, DevKeeps
<1>17. SocketInv'
  <2>1. Len(x.tx) = q - hst.done /\ Len(d2h) = dev.done - hst.done
    BY <1>2, <1>10 DEF Carrying
  <2>2. Len(d2h') <= SockBuf
    BY <1>3, <1>4, <1>5, <1>10, <2>1 DEF q
  <2> QED BY <1>10, <2>2 DEF LinkInv, SocketInv
<1>18. Receiving'
  <2>1. For(dev.hdr, dev.hdr.len, Pos(hst.done - HeaderLen))'
    BY <1>2, <1>12 DEF For
  <2>2. Carrying(d2h, dev.hdr, hst.done,
                 IF dev.state = "idle" THEN FrameLen(dev.hdr, "write_response")
                 ELSE dev.done)'
    BY <1>10, <1>12, <1>13 DEF all
  <2>3. Responding'
    BY <1>2, <1>4, <1>10, <1>12, <1>13, <2>2 DEF Responding, all
  <2> QED BY <1>2, <2>1, <2>3 DEF Receiving
<1>19. UNCHANGED Transfer!vars
  BY NotSeen
<1> QED BY <1>16, <1>17, <1>18, <1>19 DEF StepOk, LinkInv, TransferInv

\* The socket is closed by a soft reset.
LEMMA SoftResetStep ==
    ASSUME LinkInv, DevSoftReset
    PROVE  StepOk
<1>1. /\ ~gone /\ gone' = TRUE /\ rst' = (h2d # <<>>) /\ h2d' = <<>>
      /\ UNCHANGED <<hst, dev, d2h, pk, answered>> /\ ~rst
  BY DEF DevSoftReset, LinkInv, SocketInv
<1>2. h2d' \in Seq(Unit) /\ rst' \in BOOLEAN
  BY <1>1
<1>3. TypeOK'
  BY <1>1, <1>2, LinkTyped DEF LinkInv, Typed
<1>4. PacketInv' /\ BuffersFilled'
  BY <1>1 DEF LinkInv, PacketInv, BuffersFilled
<1>5. SocketInv'
  BY <1>1 DEF SocketInv
<1>6. ASSUME NEW n, Requesting(n)
      PROVE  /\ dev'.state \in {"idle", "read_request"}
             /\ DevPos' < FrameLen(hst'.hdr, "read_request")
             /\ HeaderPart(dev'.hdr, hst'.hdr, DevPos')
             /\ IF rst' THEN h2d' = <<>> ELSE Carrying(h2d', hst'.hdr, DevPos', n)
             /\ d2h' = <<>>
  BY <1>1, <1>6 DEF Requesting, DevPos
<1>7. ASSUME Sending PROVE Sending'
  <2>1. Requesting(hst.done)'
    BY <1>1, <1>6, <1>7 DEF Sending, Requesting
  <2> QED BY <1>1, <1>7, <2>1 DEF Sending, For
<1>8. ASSUME Awaiting PROVE Awaiting'
  <2>1. Requesting(FrameLen(hst.hdr, "write_request"))'
    BY <1>1, <1>6, <1>8 DEF Awaiting, Requesting
  <2> QED BY <1>1, <1>8, <2>1 DEF Awaiting, For
<1>9. ASSUME Receiving PROVE Receiving'
  <2>1. Responding'
    BY <1>1, <1>9 DEF Receiving, Responding
  <2> QED BY <1>1, <1>9, <2>1 DEF Receiving, For
<1>10. TransferInv'
  <2>1. CASE hst.state = "idle"
    BY <1>1, <2>1 DEF TransferInv, Quiescent, Sending, Awaiting, Receiving, LinkInv
  <2>2. CASE hst.state = "read_request"
    BY <1>1, <2>2 DEF TransferInv, Quiescent, Sending, Awaiting, Receiving, LinkInv
  <2> QED BY <1>7, <1>8, <1>9, <2>1, <2>2 DEF TransferInv, LinkInv
<1>11. UNCHANGED Transfer!vars
  BY <1>1, NotSeen
<1> QED BY <1>3, <1>4, <1>5, <1>10, <1>11 DEF StepOk, LinkInv

\* What may happen to a call q that has read: nothing more in it, or the
\* answer a is written.
Finishes(q, a, x) ==
    /\ a \in IF Reading(q) THEN Answers(q.e.hdr) ELSE {NoResult}
    /\ x \in Writes(Answered(q, a))
    /\ dev' = x.e /\ h2d' = x.rx /\ d2h' = x.tx
    /\ answered' = IF Reading(q) /\ q.e.hdr.tag # NoPacket
                   THEN [answered EXCEPT ![q.e.hdr.tag] = a]
                   ELSE answered
    /\ UNCHANGED <<hst, gone, rst, pk>>

\* Part of a request has come.
LEMMA DevReadsPart ==
    ASSUME LinkInv, ~gone, Sending \/ Awaiting, NEW n \in Nat, NEW m \in Nat,
           Requesting(n), Sending => n = hst.done,
           Awaiting => n = FrameLen(hst.hdr, "write_request"), m >= DevPos,
           NEW q \in Calls, NEW a, NEW x, Finishes(q, a, x), ~q.go,
           q.e \in DevEnd, q.e.state = "read_request", q.e.done = m, q.tx = <<>>,
           m < FrameLen(hst.hdr, "read_request"), HeaderPart(q.e.hdr, hst.hdr, m),
           Carrying(q.rx, hst.hdr, m, n)
    PROVE  StepOk
<1>1. /\ hst \in HostEnd /\ hst \in Ends /\ dev \in Ends /\ hst.hdr \in Header
      /\ answered \in [Packets -> Results \cup {NoResult}]
      /\ MaxLen \in Nat /\ SockBuf \in Nat /\ HeaderLen = 2 /\ ~rst
      /\ h2d \in Seq(Unit)
  BY LinkTyped, LinkNumbers DEF LinkInv, Typed, Ends, SocketInv, HostEnd
<1>2. x = q
  <2>1. Answered(q, a) = q /\ ~Writing(q)
    BY DEF Answered, Reading, Writing
  <2> QED BY <2>1, NoWrites DEF Finishes
<1>3. /\ dev' = q.e /\ h2d' = q.rx /\ d2h' = <<>> /\ UNCHANGED <<hst, gone, rst, pk, answered>>
  BY <1>2 DEF Finishes, Reading
<1>4. /\ FrameLen(hst.hdr, "read_request") \in Nat
      /\ FrameLen(hst.hdr, "read_request") <= 2 + MaxLen
  BY <1>1, FrameLenType
<1>5. dev' \in DevEnd /\ dev'.state \in DevStates /\ dev'.done <= HeaderLen + MaxLen
  BY <1>1, <1>3, <1>4 DEF DevStates
<1>6. h2d' \in Seq(Unit) /\ d2h' \in Seq(Unit)
  BY <1>3 DEF Calls
<1>7. TypeOK' /\ PacketInv' /\ BuffersFilled'
  BY <1>1, <1>3, <1>5, <1>6, DevKeeps
<1>8. Len(h2d') <= Len(h2d)
  <2>1. Carrying(h2d, hst.hdr, DevPos, n) /\ DevPos \in Nat
    BY <1>1, EndTypes DEF Requesting, DevPos
  <2> QED BY <1>3, <2>1 DEF Carrying
<1>9. SocketInv'
  <2>1. Len(h2d') \in Nat /\ Len(h2d) \in Nat /\ Len(d2h') = 0
    BY <1>1, <1>3, <1>6
  <2> QED BY <1>1, <1>3, <1>8, <2>1 DEF LinkInv, SocketInv
<1>10. /\ dev'.state = "read_request" /\ DevPos' = m /\ dev'.hdr = q.e.hdr
  BY <1>3 DEF DevPos
<1>11. For(hst.hdr, NoResult, 0)'
  BY <1>3 DEF For, Sending, Awaiting
<1>12. CASE Sending
  <2>1. Requesting(hst.done)'
    BY <1>1, <1>3, <1>10, <1>12 DEF Requesting
  <2>2. Sending'
    BY <1>3, <1>11, <1>12, <2>1 DEF Sending
  <2>3. UNCHANGED Transfer!vars
    BY <1>3, NotSeen
  <2> QED BY <1>7, <1>9, <2>2, <2>3 DEF StepOk, LinkInv, TransferInv
<1>13. CASE Awaiting
  <2>1. Requesting(FrameLen(hst.hdr, "write_request"))'
    BY <1>1, <1>3, <1>10, <1>13 DEF Requesting
  <2>2. Awaiting'
    BY <1>3, <1>11, <1>13, <2>1 DEF Awaiting
  <2>3. UNCHANGED Transfer!vars
    BY <1>3, NotSeen
  <2> QED BY <1>7, <1>9, <2>2, <2>3 DEF StepOk, LinkInv, TransferInv
<1> QED BY <1>12, <1>13

\* The whole request has come: the device answers.
LEMMA DevAnswers ==
    ASSUME Orderly, LinkInv, ~gone, Awaiting,
           NEW q \in Calls, NEW a, NEW x, Finishes(q, a, x), Reading(q),
           q.e \in DevEnd, q.e.hdr = hst.hdr, q.rx = <<>>, q.tx = <<>>, q.room = SockBuf
    PROVE  StepOk
<1> DEFINE h == [hst.hdr EXCEPT !.len = a]
           all == FrameLen(h, "write_response")
           r == Answered(q, a)
<1>1. /\ hst \in HostEnd /\ hst.hdr \in Header /\ hst.buf \in Packets \cup {NoPacket}
      /\ answered \in [Packets -> Results \cup {NoResult}]
      /\ MaxLen \in Nat /\ SockBuf \in Nat /\ HeaderLen = 2 /\ ~rst
      /\ pk \in [Packets -> Packet] /\ Results = -1 .. MaxLen
  BY LinkTyped, LinkNumbers DEF LinkInv, Typed, SocketInv, HostEnd
<1>2. hst.state = "read_response" /\ hst.done = 0 /\ For(hst.hdr, NoResult, 0)
  BY DEF Awaiting
<1>3. a \in Results
  <2>1. a \in Answers(hst.hdr)
    BY DEF Finishes
  <2>2. hst.hdr.len \in -1 .. MaxLen
    BY <1>1 DEF Header
  <2> QED BY <1>1, <2>1, <2>2, LinkNumbers DEF Answers, Pos
<1>4. h \in Header /\ h.len = a /\ h.tag = hst.hdr.tag /\ h.kind = hst.hdr.kind
  BY <1>1, <1>3 DEF Header
<1>5. r \in Calls /\ r.e = Moved(q.e, "write_response", 0, h) /\ r.rx = <<>> /\ r.tx = <<>>
      /\ r.room = SockBuf /\ r.go
  <2> DEFINE f == [q.e EXCEPT !.state = "write_response", !.done = 0, !.hdr = h]
  <2>1. r = [q EXCEPT !.e = f]
    BY DEF Answered, Calls, DevEnd
  <2>2. f = Moved(q.e, "write_response", 0, h)
    BY DEF Moved
  <2>3. q.e \in Ends /\ "write_response" \in States /\ 0 \in Nat
    BY DEF Ends, States
  <2> HIDE DEF f, h
  <2>4. f \in Ends
    BY <1>4, <2>2, <2>3, MovedFacts
  <2> HIDE DEF r
  <2>5. q.go
    BY DEF Reading
  <2> QED BY <2>1, <2>2, <2>4, <2>5 DEF Calls
<1>6. /\ x \in Writes(r) /\ dev' = x.e /\ h2d' = x.rx /\ d2h' = x.tx
      /\ answered' = IF hst.hdr.tag # NoPacket
                     THEN [answered EXCEPT ![hst.hdr.tag] = a] ELSE answered
      /\ UNCHANGED <<hst, gone, rst, pk>>
  BY DEF Finishes
<1> HIDE DEF r, h, all
<1>7. /\ r.e \in DevEnd /\ r.e \in Ends /\ r.e.state = "write_response" /\ r.e.done = 0
      /\ r.e.hdr = h
  <2>1. q.e \in Ends /\ "write_response" \in States /\ 0 \in Nat
    BY DEF Ends, States
  <2>2. r.e \in Ends /\ r.e.state = "write_response" /\ r.e.done = 0 /\ r.e.hdr = h
    BY <1>4, <1>5, <2>1, MovedFacts
  <2>3. r.e \in DevEnd
    BY <1>4, <1>5, <2>1, MovedSide
  <2> QED BY <2>2, <2>3
<1>8. all \in Nat /\ all >= 2 /\ all <= 2 + MaxLen /\ all = FrameLen(h, "read_response")
  <2>1. all \in Nat /\ all >= 2 /\ all <= 2 + MaxLen
    BY <1>1, <1>4, FrameLenType DEF all
  <2> QED BY <2>1 DEF all, FrameLen, Answering
<1>9. Writing(r) /\ Carrying(r.tx, h, 0, 0)
  BY <1>5, <1>7, CarryingNone DEF Writing
<1>10. PICK n \in Nat : Sent(r, x, 0, n)
  <2>1. r.e.done < FrameLen(r.e.hdr, r.e.state)
    BY <1>7, <1>8 DEF all
  <2> QED BY <1>5, <1>6, <1>7, <1>9, <2>1, WritesDo
<1>11. /\ x \in Calls /\ x.rx = <<>> /\ n <= SockBuf /\ n <= all
       /\ Carrying(x.tx, h, 0, n)
       /\ n < all => x.e = Moved(r.e, "write_response", n, h)
       /\ n = all => x.e = Moved(r.e, "idle", all, h)
  <2>1. FrameLen(r.e.hdr, r.e.state) = all /\ r.e.done + n = n
    BY <1>7 DEF all
  <2> QED BY <1>5, <1>7, <1>10, <2>1 DEF Sent, SameReads
<1>12. n < all \/ n = all
  BY <1>8, <1>11
<1>13. /\ dev' \in DevEnd /\ dev'.hdr = h
       /\ n < all => dev'.state = "write_response" /\ dev'.done = n
       /\ n = all => dev'.state = "idle" /\ dev'.done = all
  <2>1. "write_response" \in States /\ "idle" \in States
    BY DEF States
  <2>2. CASE n < all
    <3>1. dev' = Moved(r.e, "write_response", n, h)
      BY <1>6, <1>11, <2>2
    <3>2. dev'.state = "write_response" /\ dev'.done = n /\ dev'.hdr = h
      BY <1>4, <1>7, <2>1, <3>1, MovedFacts
    <3>3. dev' \in DevEnd
      BY <1>4, <1>7, <2>1, <3>1, MovedSide
    <3> QED BY <1>8, <2>2, <3>2, <3>3
  <2>3. CASE n = all
    <3>1. dev' = Moved(r.e, "idle", all, h)
      BY <1>6, <1>11, <2>3
    <3>2. dev'.state = "idle" /\ dev'.done = all /\ dev'.hdr = h
      BY <1>4, <1>7, <1>8, <2>1, <3>1, MovedFacts
    <3>3. dev' \in DevEnd
      BY <1>4, <1>7, <1>8, <2>1, <3>1, MovedSide
    <3> QED BY <1>8, <2>3, <3>2, <3>3
  <2> QED BY <1>12, <2>2, <2>3
<1>14. dev'.state \in DevStates /\ dev'.done <= HeaderLen + MaxLen
  BY <1>1, <1>8, <1>12, <1>13 DEF DevStates
<1>15. h2d' \in Seq(Unit) /\ d2h' \in Seq(Unit) /\ h2d' = <<>>
  BY <1>6, <1>11 DEF Calls
<1>16. /\ hst.hdr.tag = hst.buf
       /\ hst.buf # NoPacket => /\ hst.buf \in Packets
                                /\ pk[hst.buf].st \in {"deferred", "cancelled"}
                                /\ answered[hst.buf] = NoResult
  BY <1>1, <1>2 DEF For
<1>17. /\ answered' \in [Packets -> Results \cup {NoResult}]
       /\ hst.buf # NoPacket => answered'[hst.buf] = a
       /\ \A p \in Packets : pk[p].st = "new" => answered'[p] = answered[p]
  BY <1>1, <1>3, <1>6, <1>16
<1>18. TypeOK' /\ PacketInv' /\ BuffersFilled'
  BY <1>6, <1>13, <1>14, <1>15, <1>17, DevKeeps
<1>19. SocketInv'
  <2>1. Len(d2h') = n /\ Len(h2d') = 0
    BY <1>6, <1>11, <1>15 DEF Carrying
  <2> QED BY <1>1, <1>6, <1>11, <2>1 DEF LinkInv, SocketInv
<1>20. Receiving'
  <2>1. For(dev.hdr, dev.hdr.len, Pos(hst.done - HeaderLen))'
    <3>1. Pos(0 - 2) = 0
      BY DEF Pos
    <3> QED BY <1>1, <1>2, <1>4, <1>6, <1>13, <1>16, <1>17, <3>1 DEF For
  <2>2. Carrying(d2h, dev.hdr, hst.done,
                 IF dev.state = "idle" THEN FrameLen(dev.hdr, "write_response")
                 ELSE dev.done)'
    BY <1>2, <1>6, <1>11, <1>12, <1>13 DEF all
  <2>3. HeaderPart(hst.hdr, dev.hdr, hst.done)' /\ (hst.done < FrameLen(dev.hdr, "read_response"))'
    BY <1>1, <1>2, <1>6, <1>8, <1>13 DEF HeaderPart
  <2>4. Responding'
    BY <1>12, <1>13, <1>15, <2>2, <2>3 DEF Responding, all
  <2> QED BY <1>2, <1>6, <2>1, <2>4 DEF Receiving
<1>21. [Transfer!Next]_(Transfer!vars)
  <2>1. CASE hst.buf = NoPacket
    BY <1>6, <1>16, <2>1, NotSeen
  <2>2. CASE hst.buf # NoPacket
    BY <1>3, <1>6, <1>16, <2>2, SeenAnswer
  <2> QED BY <2>1, <2>2
<1> QED BY <1>18, <1>19, <1>20, <1>21 DEF StepOk, LinkInv, TransferInv

\* The main loop of the ARM side.
LEMMA DevRunsStep ==
    ASSUME Orderly, LinkInv, DevRuns
    PROVE  StepOk
<1>1. PICK k \in 0 .. Len(h2d), can \in BOOLEAN : DevFd(k, can)
  BY DEF DevRuns
<1> DEFINE room == SockBuf - Len(d2h)
           c == Call(dev, h2d, d2h, k, room, can)
<1>2. ~gone /\ (dev.state = "idle" => k > 0)
  BY <1>1 DEF DevFd
<1>3. PICK q \in Reads(Idle(c)) :
        \E a \in IF Reading(q) THEN Answers(q.e.hdr) ELSE {NoResult} :
        \E x \in Writes(Answered(q, a)) :
           /\ dev' = x.e /\ h2d' = x.rx /\ d2h' = x.tx
           /\ answered' = IF Reading(q) /\ q.e.hdr.tag # NoPacket
                          THEN [answered EXCEPT ![q.e.hdr.tag] = a]
                          ELSE answered
  BY <1>1 DEF DevFd
<1>4. UNCHANGED <<hst, gone, rst, pk>>
  BY <1>1 DEF DevFd
<1>5. PICK a, x : Finishes(q, a, x)
  BY <1>3, <1>4 DEF Finishes
<1>6. /\ dev \in DevEnd /\ dev \in Ends /\ dev.state \in DevStates /\ hst \in HostEnd
      /\ h2d \in Seq(Unit) /\ d2h \in Seq(Unit) /\ hst.hdr \in Header /\ hst \in Ends
      /\ dev.done \in Nat /\ hst.done \in Nat /\ SockBuf \in Nat /\ HeaderLen = 2
  BY LinkTyped, LinkNumbers, EndTypes DEF LinkInv, Typed, Ends
<1>7. room \in Nat /\ k \in Nat /\ ~rst /\ Len(d2h) \in Nat
  BY <1>2, <1>6 DEF LinkInv, SocketInv
<1>8. /\ c \in Calls /\ c.e = dev /\ c.rx = h2d /\ c.tx = d2h /\ c.k = k /\ c.room = room
      /\ c.go /\ ~c.shut /\ c.got = 0
  BY <1>6, <1>7 DEF Call, Calls
<1>9. CASE dev.state = "write_response"
  <2>1. Receiving
    BY <1>9 DEF LinkInv, TransferInv, Quiescent, Sending, Awaiting, Requesting
  <2>2. q = c
    <3> HIDE DEF c
    <3>1. q \in Reads(c) /\ ~Reading(c)
      BY <1>3, <1>8, <1>9, IdleFacts DEF Reading
    <3> QED BY <3>1, NoReads
  <2>3. x \in Writes(c) /\ UNCHANGED answered
    <3> HIDE DEF c
    <3>1. ~Reading(c)
      BY <1>8, <1>9 DEF Reading
    <3>2. Answered(c, a) = c
      BY <3>1 DEF Answered
    <3> QED BY <1>5, <2>2, <3>1, <3>2 DEF Finishes
  <2>4. dev' = x.e /\ h2d' = x.rx /\ d2h' = x.tx
    BY <1>5 DEF Finishes
  <2> QED BY <1>2, <1>4, <1>9, <2>1, <2>3, <2>4, DevWrites
<1>10. CASE dev.state # "write_response"
  <2> DEFINE r == Idle(c)
             all == FrameLen(hst.hdr, "read_request")
             n == IF Sending THEN hst.done ELSE all
  <2>1. Sending \/ Awaiting
    <3>1. dev.state = "idle" => h2d # <<>>
      BY <1>2, <1>6
    <3> QED BY <1>10, <3>1 DEF LinkInv, TransferInv, Quiescent, Receiving, Responding
  <2>2. /\ all \in Nat /\ all >= 2 /\ all = FrameLen(hst.hdr, "write_request")
    <3>1. all \in Nat /\ all >= 2
      BY <1>6, FrameLenType
    <3> QED BY <3>1 DEF FrameLen, Answering
  <2>3. /\ n \in Nat /\ Requesting(n) /\ (Sending => n = hst.done /\ n < all)
        /\ (Awaiting => n = FrameLen(hst.hdr, "write_request"))
    BY <1>6, <2>1, <2>2 DEF Sending, Awaiting
  <2>4. /\ dev.state \in {"idle", "read_request"} /\ DevPos < all
        /\ HeaderPart(dev.hdr, hst.hdr, DevPos)
        /\ Carrying(h2d, hst.hdr, DevPos, n) /\ d2h = <<>> /\ DevPos \in Nat
    <3> HIDE DEF n
    <3> QED BY <1>6, <1>7, <2>3 DEF Requesting, DevPos
  <2> HIDE DEF n, all, c
  <2>5. k <= n - DevPos /\ room = SockBuf
    BY <1>6, <1>7, <2>3, <2>4 DEF Carrying
  <2> HIDE DEF room
  <2>6. /\ r \in Calls /\ r.e \in DevEnd /\ r.e.state = "read_request" /\ r.e.done = DevPos
        /\ HeaderPart(r.e.hdr, hst.hdr, DevPos)
        /\ r.rx = h2d /\ r.tx = <<>> /\ r.k = k /\ r.room = SockBuf
        /\ r.go /\ ~r.shut /\ r.got = 0
    <3>1. CASE dev.state = "idle"
      <4>1. /\ r \in Calls /\ r.e = Moved(dev, "read_request", 0, NoHeader)
            /\ NoHeader \in Header
            /\ r.rx = h2d /\ r.tx = <<>> /\ r.k = k /\ r.room = SockBuf
            /\ r.go /\ ~r.shut /\ r.got = 0
        BY <1>8, <2>4, <2>5, <3>1, IdleFacts
      <4>2. "read_request" \in States /\ 0 \in Nat /\ DevPos = 0
        BY <3>1 DEF States, DevPos
      <4> HIDE DEF r
      <4>3. r.e.state = "read_request" /\ r.e.done = 0
        BY <1>6, <4>1, <4>2, MovedFacts
      <4>4. r.e \in DevEnd
        BY <1>6, <4>1, <4>2, MovedSide
      <4> QED BY <1>6, <4>1, <4>2, <4>3, <4>4 DEF HeaderPart
    <3>2. CASE dev.state = "read_request"
      <4>1. r = c
        BY <1>8, <3>2, IdleFacts
      <4> HIDE DEF r
      <4> QED BY <1>6, <1>8, <2>4, <2>5, <3>2, <4>1 DEF DevPos
    <3> QED BY <2>4, <3>1, <3>2
  <2>7. q \in Reads(r)
    BY <1>3
  <2> HIDE DEF r
  <2>8. Reading(r) /\ Readable(r, hst.hdr, n)
    BY <2>4, <2>5, <2>6 DEF Reading, Readable
  <2>9. PICK d \in 0 .. r.k : Took(r, q, hst.hdr, n, d)
    <3>1. r.e.done < FrameLen(hst.hdr, r.e.state)
      BY <2>4, <2>6 DEF all
    <3> QED BY <1>6, <2>3, <2>6, <2>7, <2>8, <3>1, ReadsDo
  <2> DEFINE m == DevPos + d
  <2>10. d \in Nat /\ m \in Nat /\ m >= DevPos
    BY <1>7, <2>4, <2>6, <2>9
  <2>11. /\ q \in Calls /\ q.tx = <<>> /\ q.room = SockBuf /\ m <= all /\ (q.go <=> m = all)
         /\ HeaderPart(q.e.hdr, hst.hdr, m) /\ Carrying(q.rx, hst.hdr, m, n)
         /\ q.e = Moved(r.e, "read_request", m, q.e.hdr)
    <3>1. FrameLen(hst.hdr, r.e.state) = all /\ r.e.done + d = m
      BY <2>6 DEF all
    <3> HIDE DEF m
    <3> QED BY <2>6, <2>9, <3>1 DEF Took, Received
  <2> HIDE DEF m
  <2>12. q.e \in DevEnd /\ q.e.state = "read_request" /\ q.e.done = m
    <3>1. PICK u \in Header : u = q.e.hdr
      BY <2>11, EndTypes DEF Calls
    <3>2. q.e = Moved(r.e, "read_request", m, u)
      BY <2>11, <3>1
    <3>3. "read_request" \in States /\ r.e \in Ends
      BY <2>6 DEF States, Ends
    <3>4. q.e.state = "read_request" /\ q.e.done = m
      BY <2>10, <3>2, <3>3, MovedFacts
    <3>5. q.e \in DevEnd
      BY <2>6, <2>10, <3>2, <3>3, MovedSide
    <3> QED BY <3>4, <3>5
  <2>13. CASE ~q.go
    <3>1. m < FrameLen(hst.hdr, "read_request")
      BY <2>2, <2>10, <2>11, <2>13 DEF all
    <3> QED BY <1>2, <1>5, <2>1, <2>3, <2>10, <2>11, <2>12, <2>13, <3>1, DevReadsPart
  <2>14. CASE q.go
    <3>1. m = all /\ q.e.hdr = hst.hdr /\ Reading(q)
      BY <1>6, <2>2, <2>11, <2>12, <2>14 DEF HeaderPart, Reading
    <3>2. Awaiting /\ n = all
      BY <1>6, <2>1, <2>2, <2>3, <2>11, <3>1 DEF Carrying
    <3>3. q.rx = <<>>
      BY <2>2, <2>11, <3>1, <3>2, CarryingEmpty
    <3> QED BY <1>2, <1>5, <2>11, <2>12, <3>1, <3>2, <3>3, DevAnswers
  <2> QED BY <2>13, <2>14
<1> QED BY <1>9, <1>10

-----------------------------------------------------------------------------
(* Theorems. *)

\* A new connection has nothing under way.
LEMMA LinkInit == Init => LinkInv /\ Transfer!Init
<1> SUFFICES ASSUME Init PROVE LinkInv /\ Transfer!Init
  OBVIOUS
<1>1. NoHeader \in Header
  BY LinkNumbers DEF NoHeader, Header
<1>2. /\ hst \in HostEnd /\ hst.state = "idle" /\ hst.done = 0 /\ hst.pkt = NoPacket
      /\ ~hst.up /\ ~hst.inside
  BY <1>1, LinkNumbers DEF Init, HostEnd, States
<1>3. dev \in DevEnd /\ dev.state = "idle" /\ dev.done = 0
  BY <1>1 DEF Init, DevEnd, States
<1>4. /\ pk \in [Packets -> Packet] /\ answered \in [Packets -> Results \cup {NoResult}]
      /\ \A p \in Packets : /\ pk[p].st = "new" /\ pk[p].got = 0 /\ pk[p].ret = NoResult
                            /\ answered[p] = NoResult
  BY LinkNumbers DEF Init, Packet
<1>5. h2d = <<>> /\ d2h = <<>> /\ gone = FALSE /\ rst = FALSE
  BY DEF Init
<1>6. TypeOK
  <2>1. h2d \in Seq(Unit) /\ d2h \in Seq(Unit)
    BY <1>5
  <2>2. gone \in BOOLEAN /\ rst \in BOOLEAN
    BY <1>5, Zenon
  <2> QED BY <1>2, <1>3, <1>4, <2>1, <2>2, LinkNumbers, LinkTyped DEF Typed, HostStates, DevStates
<1>7. TransferInv
  BY <1>2, <1>3, <1>5 DEF TransferInv, Quiescent
<1>8. PacketInv
  BY <1>2, <1>4, LinkNumbers DEF PacketInv
<1>9. SocketInv
  BY <1>5, LinkNumbers DEF SocketInv
<1>10. BuffersFilled
  BY <1>4 DEF BuffersFilled
<1>11. Transfer!Init
  <2>1. /\ Status(pk) = [p \in Packets |-> "new"] /\ Rets(pk) = [p \in Packets |-> NoResult]
        /\ answered = [p \in Packets |-> NoResult]
    BY <1>4 DEF Status, StatusOf, Rets
  <2> QED BY <2>1 DEF Transfer!Init, Status, StatusOf, Rets
<1> QED BY <1>6, <1>7, <1>8, <1>9, <1>10, <1>11 DEF LinkInv

\* Every step keeps the invariant, and is one of UsbTransfer or not seen there.
LEMMA LinkStep == Orderly /\ LinkInv /\ [Next]_vars => StepOk
<1> SUFFICES ASSUME Orderly, LinkInv, [Next]_vars PROVE StepOk
  OBVIOUS
<1>1. 0 \in 0 .. MaxLen
  BY LinkNumbers
<1>2. CASE \E p \in Packets, len \in 0 .. MaxLen : passthrough_packet(p, "setup", len)
  BY <1>2, PacketStep
<1>3. CASE \E p \in Packets : passthrough_packet(p, "in", 0)
  BY <1>1, <1>3, PacketStep
<1>4. CASE \E p \in Packets, len \in 0 .. MaxLen : passthrough_packet(p, "out", len)
  BY <1>4, PacketStep
<1>5. CASE UNCHANGED vars
  <2>1. UNCHANGED <<hst, dev, h2d, d2h, gone, rst, pk, answered>>
    BY <1>5 DEF vars
  <2>2. TypeOK'
    BY <2>1, LinkTyped DEF LinkInv
  <2>3. TransferInv'
    BY <2>1, LinkKept DEF LinkInv
  <2>4. PacketInv' /\ SocketInv' /\ BuffersFilled'
    BY <2>1 DEF LinkInv, PacketInv, SocketInv, BuffersFilled
  <2>5. UNCHANGED Transfer!vars
    BY <2>1, NotSeen
  <2> QED BY <2>2, <2>3, <2>4, <2>5 DEF StepOk, LinkInv
<1> QED BY <1>2, <1>3, <1>4, <1>5, HostRunsStep, HostReturnsStep, DevRunsStep,
           RefusedStep, CancelStep, ResetStep, ThreadStep, SoftResetStep DEF Next

\* One transfer is on the link at a time, and what the two ends hold of it and
\* what is on its way between them add up to its request and its response,
\* however reads and writes cut them up, and whatever is cancelled, reset or
\* closed meanwhile.
THEOREM LinkInvariant == ASSUME Orderly PROVE Spec => []LinkInv
<1>1. LinkInv /\ [Next]_vars => LinkInv'
  BY LinkStep DEF StepOk
<1> QED BY <1>1, LinkInit, PTL DEF Spec

\* The types of the link: amount_done stays within a frame, a length within
\* what was asked.
THEOREM LinkTypes == ASSUME Orderly PROVE Spec => []TypeOK
<1>1. LinkInv => TypeOK
  BY DEF LinkInv
<1> QED BY <1>1, LinkInvariant, PTL

\* The framing of tcp_usb.c never slips: the next unit an end will read is the
\* one it takes it for.
THEOREM FramingHolds == ASSUME Orderly PROVE Spec => []FramesIntact
<1>1. LinkInv => FramesIntact
  <2> SUFFICES ASSUME LinkInv PROVE FramesIntact
    OBVIOUS
  <2>1. /\ h2d \in Seq(Unit) /\ d2h \in Seq(Unit) /\ dev.done \in Nat /\ hst.done \in Nat
        /\ HeaderLen = 2
    BY LinkTyped, LinkNumbers DEF LinkInv, Typed, HostEnd, DevEnd
  <2>2. ASSUME NEW s, NEW h, NEW i \in Nat, NEW n \in Nat, Carrying(s, h, i, n), s # <<>>
        PROVE  Head(s).slot = IF i < 2 THEN i + 1 ELSE 0
    <3>1. s \in Seq(Unit) /\ Len(s) = n - i /\ i <= n
      BY <2>2 DEF Carrying
    <3>2. 1 \in 1 .. n - i
      BY <2>2, <3>1
    <3>3. Head(s) = s[1] /\ s[1] = FrameUnit(h, i + 1)
      BY <2>2, <3>1, <3>2 DEF Carrying
    <3> QED BY <2>1, <3>3 DEF FrameUnit
  <2>3. ASSUME h2d # <<>>
        PROVE  dev.state \in {"idle", "read_request"} /\ Head(h2d).slot = NextSlot(dev)
    <3>1. Sending \/ Awaiting
      BY <2>3 DEF LinkInv, TransferInv, Quiescent, Receiving, Responding
    <3>2. PICK n \in Nat : Requesting(n)
      <4>1. FrameLen(hst.hdr, "write_request") \in Nat
        BY LinkTyped, FrameLenType DEF LinkInv, Typed, HostEnd
      <4> QED BY <2>1, <3>1, <4>1 DEF Sending, Awaiting
    <3>3. /\ dev.state \in {"idle", "read_request"} /\ DevPos \in Nat
          /\ Carrying(h2d, hst.hdr, DevPos, n)
      BY <2>1, <2>3, <3>2 DEF Requesting, DevPos
    <3>4. Head(h2d).slot = IF DevPos < 2 THEN DevPos + 1 ELSE 0
      BY <2>2, <2>3, <3>3
    <3> QED BY <2>1, <3>3, <3>4 DEF NextSlot, DevPos
  <2>4. ASSUME d2h # <<>>
        PROVE  hst.state = "read_response" /\ Head(d2h).slot = NextSlot(hst)
    <3>1. Receiving
      BY <2>4 DEF LinkInv, TransferInv, Quiescent, Sending, Awaiting, Requesting
    <3>2. PICK n \in Nat : Carrying(d2h, dev.hdr, hst.done, n)
      <4>1. FrameLen(dev.hdr, "write_response") \in Nat
        BY LinkTyped, FrameLenType DEF LinkInv, Typed, DevEnd
      <4> QED BY <2>1, <3>1, <4>1 DEF Receiving, Responding
    <3>3. Head(d2h).slot = IF hst.done < 2 THEN hst.done + 1 ELSE 0
      BY <2>1, <2>2, <2>4, <3>2
    <3> QED BY <2>1, <3>1, <3>3 DEF NextSlot, Receiving
  <2> QED BY <2>3, <2>4 DEF FramesIntact
<1> QED BY <1>1, LinkInvariant, PTL

\* The passthrough device never refuses packets for ever: while one is pending
\* there is a transfer that ends in passthrough_tcp.
THEOREM NeverWedged == ASSUME Orderly PROVE Spec => []NoWedge
<1>1. LinkInv => NoWedge
  BY DEF LinkInv, PacketInv, NoWedge
<1> QED BY <1>1, LinkInvariant, PTL

\* A completed IN has all its data in its buffer, and nothing else writes one.
THEOREM DataComplete == ASSUME Orderly PROVE Spec => []BuffersFilled
<1>1. LinkInv => BuffersFilled
  BY DEF LinkInv
<1> QED BY <1>1, LinkInvariant, PTL

\* The link implements UsbTransfer: every packet that completes does so once,
\* with the answer that the device gave to it.
THEOREM LinkImplementsTransfer == ASSUME Orderly PROVE Spec => Implements
<1>1. LinkInv /\ [Next]_vars => [Transfer!Next]_(Transfer!vars)
  BY LinkStep DEF StepOk
<1>2. Init => Transfer!Init
  BY LinkInit
<1> QED BY <1>1, <1>2, LinkInvariant, PTL DEF Spec, Implements, Transfer!Spec

\* What is completed is a packet the controller was told to wait for: only a
\* host that does not wait for the transfer under way (run usb_overlap) meets
\* the completion of a packet that was refused.
THEOREM CompletesRight == ASSUME Orderly PROVE Spec => CompletesOnlyAsync
<1>1. ASSUME LinkInv, [Next]_vars, NEW p \in Packets, pk[p].st # "done", pk'[p].st = "done"
      PROVE  pk[p].st = "deferred"
  <2>1. /\ pk[p].st \in {"new", "deferred", "stalled", "refused", "cancelled", "done"}
        /\ pk[p].st # "stalled"
    BY <1>1, LinkTyped DEF LinkInv, Typed, PacketInv, Packet
  <2>2. Status(pk')[p] = "done" /\ Status(pk)[p] # "done"
    BY <1>1, <2>1 DEF Status, StatusOf
  <2>3. Transfer!Next
    <3>1. [Transfer!Next]_(Transfer!vars)
      BY <1>1, LinkStep DEF StepOk
    <3> QED BY <2>2, <3>1, TransferVars
  <2>4. Status(pk)[p] = "pending"
    <3>1. PICK q \in Packets :
             \/ Status(pk') = [Status(pk) EXCEPT ![q] = "pending"]
             \/ Status(pk') = [Status(pk) EXCEPT ![q] = "cancelled"]
             \/ Status(pk') = Status(pk)
             \/ Status(pk)[q] = "pending" /\ Status(pk') = [Status(pk) EXCEPT ![q] = "done"]
      BY <2>3 DEF Transfer!Next, Transfer!Submit, Transfer!Cancel, Transfer!Answer,
                  Transfer!Complete, Status, StatusOf
    <3>2. Status(pk) \in [Packets -> {Status(pk)[i] : i \in Packets}]
      BY DEF Status
    <3> QED BY <2>2, <3>1, <3>2
  <2> QED BY <2>1, <2>4 DEF Status, StatusOf
<1>2. LinkInv /\ [Next]_vars =>
         [\A p \in Packets : pk[p].st # "done" /\ pk'[p].st = "done" =>
                                pk[p].st = "deferred"]_vars
  BY <1>1
<1> QED BY <1>2, LinkInvariant, PTL DEF Spec, CompletesOnlyAsync

=============================================================================
