------------------------------- MODULE PL192 -------------------------------
(***************************************************************************)
(* The vectored interrupt controllers of the S5L8930 (hw/pl192.c): VIC_N   *)
(* controllers in a daisy chain.  Controller 0 drives the CPU's IRQ and    *)
(* FIQ lines, controller v > 0 feeds the daisy input of controller v-1.    *)
(*                                                                         *)
(* Every entry point of the device (register write, VECTADDR read, input   *)
(* line) runs to its end, the recursion through the chain included, before *)
(* another one starts: QEMU calls them under its global lock.  So each is  *)
(* one action.  pl192_update's mutual recursion with pl192_raise and       *)
(* pl192_lower only ever tail-calls the next controller towards the CPU,   *)
(* hence pl192_update is the four-fold composition of one controller's     *)
(* share of it (S5L8930_VIC_N = 4 bounds the chain).                       *)
(***************************************************************************)
EXTENDS Integers, FiniteSets

CONSTANTS
    VIC_N,        \* controllers in the chain
    INT_SOURCES,  \* inputs of one controller (PL192_INT_SOURCES, 32)
    PRIO_LEVELS,  \* priority levels (PL192_PRIO_LEVELS, 16)
    Addr, Addr0,  \* handler addresses, and the address 0 of a zeroed device
    Masks,        \* bit masks the guest writes to the set/clear registers
    Ops,          \* the operations of this instance, by name
    PollAt,       \* controllers whose VECTADDR the guest reads without an IRQ
    MaxNest       \* bound: acknowledges of one controller not yet finished

OpNames == {"line", "intselect", "intenable", "intenclear", "softint",
            "softintclear", "swprioritymask", "prioritydaisy", "vectpriority",
            "vectaddr", "reset", "migrate"}

ASSUME ChainAssumption == VIC_N \in 1..4
ASSUME SizeAssumption ==
    /\ PRIO_LEVELS \in Nat \ {0}
    /\ INT_SOURCES \in Nat
    /\ INT_SOURCES >= PRIO_LEVELS
ASSUME GuestAssumption ==
    /\ Addr0 \in Addr
    /\ Masks \subseteq SUBSET (0 .. INT_SOURCES - 1)
    /\ Ops \subseteq OpNames
    /\ PollAt \subseteq 0 .. VIC_N - 1
    /\ MaxNest \in Nat

VICS    == 0 .. VIC_N - 1
Sources == 0 .. INT_SOURCES - 1
Levels  == 0 .. PRIO_LEVELS - 1
DAISY   == INT_SOURCES          \* PL192_DAISY_IRQ
NO_IRQ  == INT_SOURCES + 1      \* PL192_NO_IRQ

VARIABLES
    ctl,      \* the pl192_state of each controller
    irq,      \* level of the CPU's IRQ line, driven by controller 0
    fiq,      \* level of the CPU's FIQ line
    depth,    \* the guest: VECTADDR reads it has not yet matched by a write
    aborted   \* hw_error or a NULL daisy_callback ended the emulator

vars == <<ctl, irq, fiq, depth, aborted>>

-----------------------------------------------------------------------------
(* One controller. *)

Irqs == Sources \cup {DAISY, NO_IRQ}

Controller ==
    [rawintr : SUBSET Sources, softint : SUBSET Sources,
     intenable : SUBSET Sources, intselect : SUBSET Sources,
     irq_status : SUBSET Sources, fiq_status : SUBSET Sources,
     sw_priority_mask : SUBSET Levels,
     vect_addr : [Sources -> Addr], vect_priority : [Sources -> Levels],
     address : Addr, current : Irqs, current_highest : Irqs,
     stack_i : Nat, priority : Nat,
     priority_stack : [0 .. PRIO_LEVELS -> Nat],
     irq_stack : [0 .. PRIO_LEVELS -> Irqs],
     daisy_vectaddr : Addr, daisy_priority : Levels,
     daisy_callback : BOOLEAN,  \* set: points to the next controller away
     daisy_input : BOOLEAN]

\* What pl192_reset assigns; it leaves inputs, enables and outputs alone.
Reset(c) ==
    [c EXCEPT !.vect_priority = [i \in Sources |-> PRIO_LEVELS - 1],
              !.sw_priority_mask = Levels,
              !.daisy_priority = PRIO_LEVELS - 1,
              !.current = NO_IRQ,
              !.current_highest = NO_IRQ,
              !.stack_i = 0,
              !.priority_stack = [@ EXCEPT ![0] = PRIO_LEVELS],
              !.irq_stack = [@ EXCEPT ![0] = NO_IRQ],
              !.priority = PRIO_LEVELS]

\* The zeroed allocation of qdev_create.
Zeroed ==
    [rawintr |-> {}, softint |-> {}, intenable |-> {}, intselect |-> {},
     irq_status |-> {}, fiq_status |-> {}, sw_priority_mask |-> {},
     vect_addr |-> [i \in Sources |-> Addr0],
     vect_priority |-> [i \in Sources |-> 0],
     address |-> Addr0, current |-> 0, current_highest |-> 0,
     stack_i |-> 0, priority |-> 0,
     priority_stack |-> [k \in 0 .. PRIO_LEVELS |-> 0],
     irq_stack |-> [k \in 0 .. PRIO_LEVELS |-> 0],
     daisy_vectaddr |-> Addr0, daisy_priority |-> 0,
     daisy_callback |-> FALSE, daisy_input |-> FALSE]

\* vect_priority[i].  The array ends at INT_SOURCES - 1; the word two places
\* behind it, which index NO_IRQ reads, is the field `current`, and the code
\* uses that index only when current = NO_IRQ.
Prio(c, i) ==
    IF i = DAISY THEN c.daisy_priority
    ELSE IF i \in Sources THEN c.vect_priority[i]
    ELSE NO_IRQ

\* The interrupts the sorter may pick: active and not masked by level.
Contenders(c) ==
    {i \in Sources \cup {DAISY} :
        /\ i \in c.irq_status \/ (i = DAISY /\ c.daisy_input)
        /\ Prio(c, i) \in c.sw_priority_mask}

\* Lowest level first; on one level the lowest source, the daisy input last.
Outranks(c, i, j) ==
    \/ Prio(c, i) < Prio(c, j)
    \/ Prio(c, i) = Prio(c, j) /\ i <= j

pl192_priority_sorter(c) ==
    IF Contenders(c) = {} THEN NO_IRQ
    ELSE CHOOSE i \in Contenders(c) :
            \A j \in Contenders(c) : Outranks(c, i, j)

-----------------------------------------------------------------------------
(* pl192_update and the chain. *)

IrqStatus(c) == ((c.rawintr \cup c.softint) \cap c.intenable) \ c.intselect
FiqStatus(c) == ((c.rawintr \cup c.softint) \cap c.intenable) \cap c.intselect

\* Nothing for the IRQ side of pl192_update to look at.
Quiet(c) == c.irq_status = {} /\ ~c.daisy_input

\* The fields pl192_update recomputes in its own controller.
Refresh(c) ==
    LET d == [c EXCEPT !.irq_status = IrqStatus(c),
                       !.fiq_status = FiqStatus(c)]
        h == pl192_priority_sorter(d)
    IN  IF Quiet(d) THEN [d EXCEPT !.current_highest = NO_IRQ]
        ELSE [d EXCEPT !.current_highest = h,
                       !.address = IF h \in Sources THEN d.vect_addr[h]
                                   ELSE d.daisy_vectaddr]

\* Mutant: the daisy input wins but is not passed on.
PreemptsNoDaisy(c) ==
    /\ c.current_highest \in Sources \ {c.current}
    /\ Prio(c, c.current_highest) < c.priority

\* The winner is new and its level is above the one in service.
Preempts(c) ==
    /\ c.current_highest \notin {c.current, NO_IRQ}
    /\ Prio(c, c.current_highest) < c.priority

\* Mutant: the output is withdrawn in service only, not when the inputs of
\* an idle controller go away.
WithdrawsInService(c) == c.current_highest = NO_IRQ /\ c.current # NO_IRQ

\* pl192_lower is reached only with no input, or with every active level
\* masked while an interrupt is in service.
Withdraws(c) ==
    Quiet(c) \/ (c.current_highest = NO_IRQ /\ c.current # NO_IRQ)

\* Mutant: pl192_raise forgets to hand the vector address on.
RaisedNoVector(c, a) == [c EXCEPT !.daisy_callback = TRUE,
                                  !.daisy_input = TRUE]

\* Mutant: pl192_raise does not say which controller it was.
RaisedNoCallback(c, a) == [c EXCEPT !.daisy_vectaddr = a,
                                    !.daisy_input = TRUE]

\* The daisy input of controller v-1 as pl192_raise sets it and pl192_lower
\* clears it.
Raised(c, a) == [c EXCEPT !.daisy_vectaddr = a,
                          !.daisy_callback = TRUE,
                          !.daisy_input = TRUE]
Lowered(c) == [c EXCEPT !.daisy_input = FALSE]

pl192_raise(cs, v) ==
    IF v = 0 THEN cs ELSE [cs EXCEPT ![v - 1] = Raised(@, cs[v].address)]
pl192_lower(cs, v) ==
    IF v = 0 THEN cs ELSE [cs EXCEPT ![v - 1] = Lowered(@)]

\* Mutant: pl192_update raises FIQ and never lowers it.
DriveNoFiqLower(st, cs, v) ==
    LET up == st.fiq \/ cs[v].fiq_status # {}
    IN  IF Preempts(cs[v])
        THEN [ctl |-> pl192_raise(cs, v), irq |-> v = 0 \/ st.irq,
              fiq |-> up, at |-> v - 1]
        ELSE IF Withdraws(cs[v])
        THEN [ctl |-> pl192_lower(cs, v), irq |-> v # 0 /\ st.irq,
              fiq |-> up, at |-> v - 1]
        ELSE [ctl |-> cs, irq |-> st.irq, fiq |-> up, at |-> -1]

\* Controller v, refreshed in cs, drives its outputs: the FIQ side walks to
\* the CPU line whatever the controller; the IRQ side ends in the tail call
\* of the next controller's pl192_update, or early.
Drive(st, cs, v) ==
    IF Preempts(cs[v])
    THEN [ctl |-> pl192_raise(cs, v), irq |-> v = 0 \/ st.irq,
          fiq |-> cs[v].fiq_status # {}, at |-> v - 1]
    ELSE IF Withdraws(cs[v])
    THEN [ctl |-> pl192_lower(cs, v), irq |-> v # 0 /\ st.irq,
          fiq |-> cs[v].fiq_status # {}, at |-> v - 1]
    ELSE [ctl |-> cs, irq |-> st.irq,
          fiq |-> cs[v].fiq_status # {}, at |-> -1]

\* One controller's share of pl192_update(st.at).  st.at < 0: nothing left.
UpdateStep(st) ==
    IF st.at < 0 THEN st
    ELSE Drive(st, [st.ctl EXCEPT ![st.at] = Refresh(@)], st.at)

\* pl192_update(v) on controller states cs.
pl192_update(cs, v) ==
    UpdateStep(UpdateStep(UpdateStep(UpdateStep(
        [ctl |-> cs, irq |-> irq, fiq |-> fiq, at |-> v]))))

\* The action of an entry point that ends in pl192_update(v).
Update(cs, v) ==
    LET st == pl192_update(cs, v)
    IN  ctl' = st.ctl /\ irq' = st.irq /\ fiq' = st.fiq

-----------------------------------------------------------------------------
(* Acknowledge and end of interrupt. *)

pl192_mask_priority(c) ==
    LET k == c.stack_i + 1
        p == Prio(c, c.current)
    IN  [c EXCEPT !.stack_i = k,
                  !.priority = p,
                  !.priority_stack = [@ EXCEPT ![k] = p],
                  !.irq_stack = [@ EXCEPT ![k] = c.current]]

\* Mutant: the interrupted level is restored, the interrupt is not.
UnmaskWithoutIrq(c) ==
    LET k == c.stack_i - 1
    IN  [c EXCEPT !.stack_i = k, !.priority = c.priority_stack[k]]

pl192_unmask_priority(c) ==
    LET k == c.stack_i - 1
    IN  [c EXCEPT !.stack_i = k,
                  !.priority = c.priority_stack[k],
                  !.current = c.irq_stack[k]]

\* The checks in front of the two stack operations end in hw_error.
MaskFails(c)   == c.stack_i >= INT_SOURCES
UnmaskFails(c) == c.stack_i < 1

Abort == aborted' = TRUE /\ UNCHANGED <<ctl, irq, fiq, depth>>

\* The controller behind the daisy input takes part in the operation: its
\* state pointer must be set and its own check must pass.
CallbackFails(v, Fails(_)) ==
    ~ctl[v].daisy_callback \/ Fails(ctl[v + 1])

\* Mutant: the acknowledge leaves the controller behind the daisy input out.
AckWithoutCallback(v) ==
    LET c == ctl[v]
        own == [ctl EXCEPT ![v] =
                  pl192_mask_priority([c EXCEPT !.current = c.current_highest])]
    IN  /\ ~MaskFails(c)
        /\ Update(own, v)
        /\ depth' = [depth EXCEPT ![v] = @ + 1]
        /\ UNCHANGED aborted

pl192_irq_ack(v) ==
    LET c == ctl[v]
        daisy == c.current_highest = DAISY
        own == [ctl EXCEPT ![v] =
                  pl192_mask_priority([c EXCEPT !.current = c.current_highest])]
    IN  IF MaskFails(c) \/ (daisy /\ CallbackFails(v, MaskFails))
        THEN Abort
        ELSE /\ Update(IF daisy
                       THEN [own EXCEPT ![v + 1] = pl192_mask_priority(@)]
                       ELSE own, v)
             /\ depth' = [depth EXCEPT ![v] = @ + 1]
             /\ UNCHANGED aborted

\* Mutant: the end of interrupt forgets pl192_update.
FinWithoutUpdate(v) ==
    LET c == ctl[v]
        daisy == c.current = DAISY
        own == [ctl EXCEPT ![v] = pl192_unmask_priority(c)]
    IN  /\ ctl' = IF daisy
                  THEN [own EXCEPT ![v + 1] = pl192_unmask_priority(@)]
                  ELSE own
        /\ depth' = [depth EXCEPT ![v] = @ - 1]
        /\ UNCHANGED <<irq, fiq, aborted>>

pl192_irq_fin(v) ==
    LET c == ctl[v]
        daisy == c.current = DAISY
        own == [ctl EXCEPT ![v] = pl192_unmask_priority(c)]
    IN  IF UnmaskFails(c) \/ (daisy /\ CallbackFails(v, UnmaskFails))
        THEN Abort
        ELSE /\ Update(IF daisy
                       THEN [own EXCEPT ![v + 1] = pl192_unmask_priority(@)]
                       ELSE own, v)
             /\ depth' = [depth EXCEPT ![v] = @ - 1]
             /\ UNCHANGED aborted

-----------------------------------------------------------------------------
(* Operations.  A register the guest only stores is written here, the       *)
(* update that follows every write is part of the write.                    *)

Write(op, v, c) ==
    /\ op \in Ops
    /\ ~aborted
    /\ Update([ctl EXCEPT ![v] = c], v)
    /\ UNCHANGED <<depth, aborted>>

\* A device raises or lowers an input line.
pl192_irq_handler(v, i, level) ==
    Write("line", v, [ctl[v] EXCEPT !.rawintr = IF level THEN @ \cup {i}
                                                ELSE @ \ {i}])

WriteIntSelect(v, m) ==
    Write("intselect", v, [ctl[v] EXCEPT !.intselect = m])
WriteIntEnable(v, m) ==
    Write("intenable", v, [ctl[v] EXCEPT !.intenable = @ \cup m])
WriteIntEnClear(v, m) ==
    Write("intenclear", v, [ctl[v] EXCEPT !.intenable = @ \ m])
WriteSoftInt(v, m) ==
    Write("softint", v, [ctl[v] EXCEPT !.softint = @ \cup m])
WriteSoftIntClear(v, m) ==
    Write("softintclear", v, [ctl[v] EXCEPT !.softint = @ \ m])
WriteSwPriorityMask(v, ls) ==
    Write("swprioritymask", v, [ctl[v] EXCEPT !.sw_priority_mask = ls])
WritePriorityDaisy(v, p) ==
    Write("prioritydaisy", v, [ctl[v] EXCEPT !.daisy_priority = p])
\* Mutant: the register keeps one level too many.
WriteVectPriorityWide(v, i, p) ==
    Write("vectpriority", v,
          [ctl[v] EXCEPT !.vect_priority = [@ EXCEPT ![i] = p + 1]])
WriteVectPriority(v, i, p) ==
    Write("vectpriority", v,
          [ctl[v] EXCEPT !.vect_priority = [@ EXCEPT ![i] = p]])
WriteVectAddr(v, i, a) ==
    Write("vectaddr", v, [ctl[v] EXCEPT !.vect_addr = [@ EXCEPT ![i] = a]])

\* The CPU takes the IRQ exception and its handler reads controller 0.
TakeIrq ==
    /\ ~aborted
    /\ irq
    /\ depth[0] < MaxNest
    /\ pl192_irq_ack(0)

\* A read of VECTADDR outside an exception.  A read of SOFTINTCLEAR falls
\* through to the same code.
PollVectAddr(v) ==
    /\ ~aborted
    /\ v \in PollAt
    /\ depth[v] < MaxNest
    /\ pl192_irq_ack(v)

\* The write of VECTADDR that matches an earlier read.
WriteVectAddrEnd(v) ==
    /\ ~aborted
    /\ depth[v] > 0
    /\ pl192_irq_fin(v)

\* system_reset resets the devices; no CPU reset handler is registered, so
\* the guest goes on where it was.  pl192_reset does not call pl192_update.
pl192_reset ==
    /\ "reset" \in Ops
    /\ ~aborted
    /\ ctl' = [v \in VICS |-> Reset(ctl[v])]
    /\ UNCHANGED <<irq, fiq, depth, aborted>>

\* Save, and load in a new process: pl192_save writes every field modelled
\* here except the pointer daisy_callback; the lines travel with the CPU.
pl192_save_load ==
    /\ "migrate" \in Ops
    /\ ~aborted
    /\ ctl' = [v \in VICS |-> [ctl[v] EXCEPT !.daisy_callback = FALSE]]
    /\ UNCHANGED <<irq, fiq, depth, aborted>>

Init ==
    /\ ctl = [v \in VICS |-> Reset(Zeroed)]
    /\ irq = FALSE
    /\ fiq = FALSE
    /\ depth = [v \in VICS |-> 0]
    /\ aborted = FALSE

Next ==
    \/ \E v \in VICS, i \in Sources, level \in BOOLEAN :
          pl192_irq_handler(v, i, level)
    \/ \E v \in VICS, m \in Masks : WriteIntSelect(v, m)
    \/ \E v \in VICS, m \in Masks : WriteIntEnable(v, m)
    \/ \E v \in VICS, m \in Masks : WriteIntEnClear(v, m)
    \/ \E v \in VICS, m \in Masks : WriteSoftInt(v, m)
    \/ \E v \in VICS, m \in Masks : WriteSoftIntClear(v, m)
    \/ \E v \in VICS, ls \in SUBSET Levels : WriteSwPriorityMask(v, ls)
    \/ \E v \in VICS, p \in Levels : WritePriorityDaisy(v, p)
    \/ \E v \in VICS, i \in Sources, p \in Levels : WriteVectPriority(v, i, p)
    \/ \E v \in VICS, i \in Sources, a \in Addr : WriteVectAddr(v, i, a)
    \/ TakeIrq
    \/ \E v \in VICS : PollVectAddr(v)
    \/ \E v \in VICS : WriteVectAddrEnd(v)
    \/ pl192_reset
    \/ pl192_save_load

Spec == Init /\ [][Next]_vars

-----------------------------------------------------------------------------
(* Properties. *)

TypeOK ==
    /\ ctl \in [VICS -> Controller]
    /\ irq \in BOOLEAN
    /\ fiq \in BOOLEAN
    /\ depth \in [VICS -> 0 .. MaxNest]
    /\ aborted \in BOOLEAN

\* What controller v shows to the CPU (v = 0) or to controller v-1.
Out(v) == IF v = 0 THEN irq ELSE ctl[v - 1].daisy_input

\* The stacks always hold the interrupt and the level in service on top, so
\* that pl192_unmask_priority gives back the ones that were interrupted.
StackTop ==
    \A v \in VICS :
        LET c == ctl[v]
        IN  c.stack_i <= PRIO_LEVELS =>
                /\ c.priority = c.priority_stack[c.stack_i]
                /\ c.current = c.irq_stack[c.stack_i]

\* A guest that pairs its reads and writes of controller 0's VECTADDR keeps
\* every stack balanced: controller v has one entry for each daisy entry of
\* controller v-1.
DaisyEntries(c) == {k \in 1 .. c.stack_i : c.irq_stack[k] = DAISY}
StacksBalanced ==
    /\ ctl[0].stack_i = depth[0]
    /\ \A v \in VICS \ {0} :
          ctl[v].stack_i = Cardinality(DaisyEntries(ctl[v - 1]))

\* Hence none of the internal checks of pl192.c ever fires (hw_error), and
\* daisy_callback is never used before it is set.
NeverAborts == ~aborted

\* pl192_update leaves no interrupt behind: a winner whose level is above
\* the one in service is shown to the CPU, or to the next controller.
NoLostInterrupt ==
    \A v \in VICS :
        LET c == ctl[v]
            h == pl192_priority_sorter(c)
        IN  (h \notin {c.current, NO_IRQ} /\ Prio(c, h) < c.priority) => Out(v)

\* End to end: with no level masked by software and nothing in service, the
\* CPU's IRQ line is up when any controller has an active interrupt.
IdleCpuSeesPending ==
    (/\ depth[0] = 0
     /\ \A v \in VICS : ctl[v].sw_priority_mask = Levels
     /\ \E v \in VICS : IrqStatus(ctl[v]) # {}) => irq

\* The other direction: no interrupt active anywhere means no IRQ line.
NoIrqWithoutCause ==
    (\A v \in VICS : IrqStatus(ctl[v]) = {}) => ~irq

\* The address the CPU will read belongs to the interrupt that won, through
\* the whole chain, also after the guest moves a handler.
VectorOfWinner ==
    \A v \in VICS :
        LET c == ctl[v]
        IN  /\ c.current_highest \in Sources =>
                  c.address = c.vect_addr[c.current_highest]
            /\ (/\ c.current_highest = DAISY
                /\ ctl[v + 1].current_highest # NO_IRQ) =>
                  c.address = ctl[v + 1].address

\* The FIQ line is up only while some controller has an active FIQ.
NoFiqWithoutCause == fiq => \E v \in VICS : FiqStatus(ctl[v]) # {}

\* A controller on its own shows its FIQ sources exactly.
FiqLineExact == fiq <=> FiqStatus(ctl[0]) # {}

\* "FIQ is directly propagated through daisy chain" (pl192.c:100): an active
\* FIQ of any controller keeps the CPU's FIQ line up.
FiqPropagated == (\E v \in VICS : FiqStatus(ctl[v]) # {}) => fiq

=============================================================================
