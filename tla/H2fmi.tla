------------------------------- MODULE H2fmi --------------------------------
(***************************************************************************)
(* The NAND controllers (hw/s5l8930_h2fmi.c).  A read command appends a    *)
(* page's data to buf0, its metadata to buf1 and its error words to        *)
(* eccbuf; the guest, or the CDMA on its behalf, takes them from there.    *)
(*                                                                         *)
(* Register accesses are single calls under the global lock.  Left out:    *)
(* the request and status registers CREQ, CSTS, NREQ, NSTS and STATUS,     *)
(* which are only stored and read back (the interrupt behind them is never *)
(* driven: nothing calls enableIOPH2fmi), and the erase command, which     *)
(* changes nothing but STATUS.                                             *)
(***************************************************************************)
EXTENDS Integers, Sequences

CONSTANTS
    FMIS,        \* the controllers (two)
    Chips,       \* chip enables with a chip behind them
    Half,        \* values of each half of a page address (2^16)
    PageUnits,   \* page_size, in units (4096 bytes)
    MetaUnits,   \* meta_size - 2, in units
    IdUnits,     \* H2FMI_CHIPID_LENGTH, in units
    EccStages,   \* error words per page (page_size >> ecc_shift)
    WordUnits    \* units in a 32-bit word

NoChip   == "none"
Addrs    == 0 .. Half * Half - 1
Pages    == Chips \X Addrs
\* How the reads of a page's marker, data and metadata from the image go:
\* all well, the marker says that the page was never written, or one fails.
Outcomes == {"ok", "empty", "nomarker", "nodata", "nometa"}

ASSUME NandAssumption ==
    /\ Half \in Nat \ {0}
    /\ NoChip \notin Chips
    /\ PageUnits \in Nat \ {0} /\ MetaUnits \in Nat \ {0}
    /\ IdUnits \in Nat /\ EccStages \in Nat \ {0} /\ WordUnits \in Nat \ {0}

\* A unit of memory: unit off of what a page or chip holds, decrypted with
\* the key dec; or zeros; or whatever was in memory (junk).
Raw  == "raw"
Zero == [of |-> <<"zero", 0>>, off |-> 0, dec |-> Raw]
Junk == [of |-> <<"junk", 0>>, off |-> 0, dec |-> Raw]
Unit(x, i) == [of |-> x, off |-> i, dec |-> Raw]

VARIABLE nand  \* h2fmi_state_t of each controller

-----------------------------------------------------------------------------
(* h2fmi_buffer: what was appended, and how much of it was read. *)

EmptyBuf == [data |-> <<>>, read |-> 0]

h2fmi_buffer_clear(b) == EmptyBuf

\* h2fmi_buffer_map and h2fmi_buffer_write: the buffer grows as needed.
Appended(b, units) == [b EXCEPT !.data = @ \o units]

Written(b) == Len(b.data)

\* n units are read: fewer may be there, the rest of the caller's zeros
\* stays.
Read(b, n) ==
    [i \in 1 .. n |-> IF b.read + i <= Written(b) THEN b.data[b.read + i]
                      ELSE Zero]

\* What h2fmi_buffer_read leaves: the count advances by n even when fewer
\* were there, unless none was.
AfterRead(b, n) ==
    IF b.read >= Written(b) THEN b ELSE [b EXCEPT !.read = @ + n]

\* n reads of one unit each.
AfterBytes(b, n) ==
    [b EXCEPT !.read = IF @ >= Written(b) THEN @
                       ELSE IF @ + n <= Written(b) THEN @ + n ELSE Written(b)]

-----------------------------------------------------------------------------
(* Commands. *)

\* A page: data and metadata are mapped before they are read, so a read
\* error leaves what was in the buffer's memory.  The metadata is
\* descrambled in place.
DataOf(p, out) ==
    [i \in 1 .. PageUnits |-> IF out = "nodata" THEN Junk ELSE Unit(p, i)]
MetaOf(p, out) ==
    [i \in 1 .. MetaUnits |-> IF out = "ok" THEN Unit(p, PageUnits + i) ELSE Junk]

\* The error words: 0, 4 (error) or 0xa (empty page).
ErrorOf(out) == CASE out = "ok"    -> 0
                  [] out = "empty" -> 10
                  [] OTHER         -> 4

Mapped(out) == out \notin {"nomarker", "empty"}

h2fmi_do_read(n, out) ==
    LET p == <<n.chip, n.addr>>
        err == [i \in 1 .. EccStages |-> ErrorOf(out)]
    IN  IF ~Mapped(out) THEN [n EXCEPT !.eccbuf = Appended(@, err)]
        ELSE [n EXCEPT !.buf0 = Appended(@, DataOf(p, out)),
                       !.buf1 = Appended(@, MetaOf(p, out)),
                       !.eccbuf = Appended(@, err)]

\* A chip's identification.  On a read error the whole buffer is dropped.
h2fmi_do_readid(n, out) ==
    [n EXCEPT !.buf0 =
        IF out # "ok" THEN h2fmi_buffer_clear(@)
        ELSE Appended(@, [i \in 1 .. IdUnits |-> Unit(<<n.chip, -1>>, i)])]

\* Without a chip a command does nothing, and reports nothing.
h2fmi_do_single_ncmd(n, cmd, out) ==
    IF n.chip = NoChip THEN n
    ELSE CASE cmd = "READSTART" -> h2fmi_do_read(n, out)
           [] cmd = "READID" -> h2fmi_do_readid(n, out)

-----------------------------------------------------------------------------
(* Register accesses. *)

Set(f, n) == nand' = [nand EXCEPT ![f] = n]

\* CCMD 6: the two data buffers, not the error words.
WriteCcmd(f) ==
    Set(f, [nand[f] EXCEPT !.addr = 0,
                           !.buf0 = h2fmi_buffer_clear(@),
                           !.buf1 = h2fmi_buffer_clear(@)])

WriteChipMask(f, c) == Set(f, [nand[f] EXCEPT !.chip = c])

\* The two halves of the address are written one after the other.
WriteAddr0(f, lo) ==
    Set(f, [nand[f] EXCEPT !.addr = Half * (@ \div Half) + lo])

WriteAddr1(f, hi) ==
    Set(f, [nand[f] EXCEPT !.addr = Half * hi + (@ % Half)])

WriteNcmd(f, cmd, out) == Set(f, h2fmi_do_single_ncmd(nand[f], cmd, out))
WriteEccbuf(f) == Set(f, [nand[f] EXCEPT !.eccbuf = h2fmi_buffer_clear(@)])

\* DATA0 read by the guest, a word at a time.
ReadData0(f) == Set(f, [nand[f] EXCEPT !.buf0 = AfterRead(@, WordUnits)])

\* ECCBUF holds words.  Without one left, a read gives 0: no error.
EccWord(f) ==
    LET b == nand[f].eccbuf
    IN  IF b.read < Written(b) THEN b.data[b.read + 1] ELSE 0
ReadEccbuf(f) == Set(f, [nand[f] EXCEPT !.eccbuf = AfterRead(@, 1)])

NandInit ==
    nand = [f \in FMIS |-> [chip |-> NoChip, addr |-> 0,
                            buf0 |-> EmptyBuf, buf1 |-> EmptyBuf,
                            eccbuf |-> EmptyBuf]]

=============================================================================
