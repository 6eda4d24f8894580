----------------------------- MODULE ByteQueue -----------------------------
(***************************************************************************)
(* What the receive queue of a serial port promises: while it listens,     *)
(* every batch of bytes goes in whole and in order, and bytes come out in  *)
(* the order they went in, each once.  Bytes are numbered as they arrive.  *)
(***************************************************************************)
EXTENDS Integers, Sequences

CONSTANTS Capacity, NoByte

VARIABLES
    on,       \* the queue listens
    content,  \* the bytes waiting
    heard,    \* bytes that have arrived so far
    taken     \* the byte handed out last

vars == <<on, content, heard, taken>>

Init == on = FALSE /\ content = <<>> /\ heard = 0 /\ taken = NoByte

Put(n) ==
    /\ on
    /\ Len(content) + n <= Capacity
    /\ content' = content \o [i \in 1 .. n |-> heard + i]
    /\ heard' = heard + n
    /\ UNCHANGED <<on, taken>>

\* A queue that does not listen keeps what it has.
Miss(n) ==
    /\ ~on
    /\ heard' = heard + n
    /\ UNCHANGED <<on, content, taken>>

Take ==
    /\ content # <<>>
    /\ taken' = Head(content)
    /\ content' = Tail(content)
    /\ UNCHANGED <<on, heard>>

Switch ==
    /\ on' \in BOOLEAN
    /\ content' \in {content, <<>>}
    /\ UNCHANGED <<heard, taken>>

Next == (\E n \in 1 .. Capacity : Put(n) \/ Miss(n)) \/ Take \/ Switch

Spec == Init /\ [][Next]_vars

=============================================================================
