---------------------------- MODULE UsbTransfer ----------------------------
(***************************************************************************)
(* What the USB-over-TCP link promises the host controller: a packet that  *)
(* was submitted is answered by the device at most once, and completes     *)
(* with exactly that answer.  One packet is under way at a time.           *)
(***************************************************************************)
EXTENDS Integers

CONSTANTS Packets, Results, NoResult

VARIABLES
    status,   \* of each packet: new, pending, cancelled or done
    answer,   \* what the device returned for it
    result    \* what the host controller was given

vars == <<status, answer, result>>

Init ==
    /\ status = [p \in Packets |-> "new"]
    /\ answer = [p \in Packets |-> NoResult]
    /\ result = [p \in Packets |-> NoResult]

Submit(p) ==
    /\ status[p] = "new"
    /\ \A q \in Packets : status[q] # "pending"
    /\ status' = [status EXCEPT ![p] = "pending"]
    /\ UNCHANGED <<answer, result>>

\* The device may still see a cancelled packet, the host controller not its
\* answer.
Cancel(p) ==
    /\ status[p] = "pending"
    /\ status' = [status EXCEPT ![p] = "cancelled"]
    /\ UNCHANGED <<answer, result>>

Answer(p, a) ==
    /\ status[p] \in {"pending", "cancelled"}
    /\ answer[p] = NoResult
    /\ answer' = [answer EXCEPT ![p] = a]
    /\ UNCHANGED <<status, result>>

Complete(p) ==
    /\ status[p] = "pending"
    /\ answer[p] # NoResult
    /\ status' = [status EXCEPT ![p] = "done"]
    /\ result' = [result EXCEPT ![p] = answer[p]]
    /\ UNCHANGED answer

Next ==
    \E p \in Packets :
        \/ Submit(p)
        \/ Cancel(p)
        \/ \E a \in Results : Answer(p, a)
        \/ Complete(p)

Spec == Init /\ [][Next]_vars

=============================================================================
