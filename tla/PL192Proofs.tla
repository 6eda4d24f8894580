---------------------------- MODULE PL192Proofs ----------------------------
(***************************************************************************)
(* Proofs about the chain of interrupt controllers, for every number of    *)
(* sources and levels and every chain of up to four controllers.           *)
(***************************************************************************)
EXTENDS PL192, WellFoundedInduction, FiniteSetTheorems, TLAPS

\* A guest that uses VECTADDR of controller 0 only and nests no deeper than
\* the stacks are long.
Disciplined == PollAt \subseteq {0} /\ MaxNest <= PRIO_LEVELS

\* The argument and the result of UpdateStep.
Walk == [ctl : [VICS -> Controller], irq : BOOLEAN, fiq : BOOLEAN,
         at : -1 .. VIC_N - 1]

\* d differs from c only in what pl192_update assigns.
Frame(c, d) ==
    /\ d.rawintr = c.rawintr /\ d.softint = c.softint
    /\ d.intenable = c.intenable /\ d.intselect = c.intselect
    /\ d.sw_priority_mask = c.sw_priority_mask
    /\ d.vect_addr = c.vect_addr /\ d.vect_priority = c.vect_priority
    /\ d.current = c.current /\ d.stack_i = c.stack_i
    /\ d.priority = c.priority /\ d.priority_stack = c.priority_stack
    /\ d.irq_stack = c.irq_stack /\ d.daisy_priority = c.daisy_priority

\* What controller v shows towards the CPU in the middle of a walk.
OutOf(st, v) == IF v = 0 THEN st.irq ELSE st.ctl[v - 1].daisy_input

\* e differs from c only in what a neighbour's pl192_raise and pl192_lower
\* assign.
Poked(c, e) ==
    /\ Frame(c, e)
    /\ e.irq_status = c.irq_status /\ e.fiq_status = c.fiq_status
    /\ e.current_highest = c.current_highest /\ e.address = c.address
    /\ c.daisy_callback => e.daisy_callback
    /\ e.daisy_input => e.daisy_callback \/ c.daisy_input

\* Controller w is up to date, and shows nothing when it has nothing.
Settled(st, w) ==
    LET c == st.ctl[w]
    IN  /\ c.irq_status = IrqStatus(c)
        /\ c.fiq_status = FiqStatus(c)
        /\ Quiet(c) => ~OutOf(st, w)

\* Its winner is up to date, and shown when it outranks what is in service.
Delivered(st, w) ==
    LET c == st.ctl[w]
    IN  /\ c.current_highest = IF Quiet(c) THEN NO_IRQ
                               ELSE pl192_priority_sorter(c)
        /\ Preempts(c) => OutOf(st, w)

\* The daisy input never shows or wins before daisy_callback is known.
Linked(c) == c.daisy_input \/ c.current_highest = DAISY => c.daisy_callback

\* The address that VECTADDR shows is the winner's.
Vectored(c) ==
    /\ c.current_highest \in Sources => c.address = c.vect_addr[c.current_highest]
    /\ c.current_highest = DAISY => c.address = c.daisy_vectaddr

\* What a walk keeps: everything but the controller it is about to visit is
\* settled, daisy_callback points into the chain, an FIQ line has a cause.
WalkInv(st) ==
    /\ st \in Walk
    /\ \A w \in VICS : w # st.at => Settled(st, w)
    /\ \A w \in VICS : st.ctl[w].daisy_callback => w + 1 \in VICS
    /\ st.fiq => \E w \in VICS : st.ctl[w].fiq_status # {}

WalkDelivers(st) == \A w \in VICS : w # st.at => Delivered(st, w)
WalkLinked(st) == \A w \in VICS : Linked(st.ctl[w])

\* Everything but the controller it is about to visit shows its winner's
\* address, and has handed it on to the next controller towards the CPU.
WalkVectors(st) ==
    /\ \A w \in VICS : w # st.at => Vectored(st.ctl[w])
    /\ \A w \in VICS \ {0} : w # st.at /\ st.ctl[w].current_highest # NO_IRQ =>
          st.ctl[w - 1].daisy_vectaddr = st.ctl[w].address
    /\ \A w \in VICS : st.ctl[w].daisy_input \/ st.ctl[w].current_highest = DAISY =>
          w + 1 \in VICS

-----------------------------------------------------------------------------
(* The sorter. *)

\* A non-empty set of naturals has a least element.
LEMMA LeastExists ==
    ASSUME NEW S \in SUBSET Nat, S # {}
    PROVE  \E i \in S : \A j \in S : i <= j
<1> DEFINE R == {ss \in Nat \X Nat : ss[1] < ss[2]}
<1>1. OpToRel(<, Nat) = R
  BY Zenon DEF OpToRel
<1>2. IsWellFoundedOn(R, Nat)
  BY <1>1, NatLessThanWellFounded
<1>3. \E x \in S : \A y \in S : <<y, x>> \notin R
  BY <1>2, WFMin
<1>4. \A x, y \in Nat : y < x => <<y, x>> \in R
  OBVIOUS
<1> HIDE DEF R
<1>5. PICK x \in S : \A y \in S : <<y, x>> \notin R
  BY <1>3
<1>6. ASSUME NEW y \in S PROVE x <= y
  <2>1. x \in Nat /\ y \in Nat
    OBVIOUS
  <2>2. ~(y < x)
    BY <1>4, <1>5, <2>1, Zenon
  <2> QED BY <2>1, <2>2
<1> QED BY <1>6

\* The level of an input that can win is a level.
LEMMA PrioType ==
    ASSUME NEW c \in Controller, NEW i \in Sources \cup {DAISY}
    PROVE  i \in Nat /\ Prio(c, i) \in Levels /\ Prio(c, i) \in Nat
BY SizeAssumption DEF Prio, Controller, Sources, DAISY, Levels

\* The order in which pl192_priority_sorter prefers interrupts has a first
\* element in every non-empty set, so the sorter's choice exists.
LEMMA FirstExists ==
    ASSUME NEW c \in Controller, NEW S \in SUBSET (Sources \cup {DAISY}), S # {}
    PROVE  \E i \in S : \A j \in S : Outranks(c, i, j)
<1> USE SizeAssumption
<1>1. \A i \in S : i \in Nat /\ Prio(c, i) \in Nat
  BY PrioType
<1> DEFINE P == {Prio(c, i) : i \in S}
<1>2. P \in SUBSET Nat /\ P # {}
  BY <1>1
<1>3. PICK p \in P : \A q \in P : p <= q
  BY <1>2, LeastExists
<1> DEFINE T == {i \in S : Prio(c, i) = p}
<1>4. T \in SUBSET Nat /\ T # {}
  BY <1>1
<1>5. PICK i \in T : \A j \in T : i <= j
  BY <1>4, LeastExists
<1>6. \A j \in S : Outranks(c, i, j)
  BY <1>1, <1>2, <1>3, <1>5 DEF Outranks
<1> QED BY <1>6

\* The sorter returns the contender that outranks the others, or NO_IRQ
\* when there is none.
LEMMA SorterPicks ==
    ASSUME NEW c \in Controller
    PROVE  LET h == pl192_priority_sorter(c)
           IN  /\ Contenders(c) # {} =>
                    /\ h \in Contenders(c)
                    /\ \A j \in Contenders(c) : Outranks(c, h, j)
               /\ Contenders(c) = {} => h = NO_IRQ
<1>1. Contenders(c) \in SUBSET (Sources \cup {DAISY})
  BY DEF Contenders
<1>2. CASE Contenders(c) # {}
  <2>1. \E i \in Contenders(c) : \A j \in Contenders(c) : Outranks(c, i, j)
    BY <1>1, <1>2, FirstExists
  <2> QED BY <1>2, <2>1 DEF pl192_priority_sorter
<1> QED BY <1>2 DEF pl192_priority_sorter

\* Nothing else is the sorter's choice: it depends on the active inputs,
\* their levels and the level mask only.
LEMMA SorterDepends ==
    ASSUME NEW c \in Controller, NEW d \in Controller,
           d.irq_status = c.irq_status, d.daisy_input = c.daisy_input,
           d.daisy_priority = c.daisy_priority,
           d.vect_priority = c.vect_priority,
           d.sw_priority_mask = c.sw_priority_mask
    PROVE  pl192_priority_sorter(d) = pl192_priority_sorter(c)
<1> USE SizeAssumption
<1>1. \A i : Prio(d, i) = Prio(c, i)
  BY DEF Prio
<1>2. Contenders(d) = Contenders(c)
  BY <1>1 DEF Contenders
<1>3. \A i, j : Outranks(d, i, j) <=> Outranks(c, i, j)
  BY <1>1 DEF Outranks
<1>4. \A i \in Sources \cup {DAISY} : i \in Nat /\ Prio(c, i) \in Nat
  BY PrioType
<1>5. \A i, j \in Sources \cup {DAISY} :
          Outranks(c, i, j) /\ Outranks(c, j, i) => i = j
  BY <1>4 DEF Outranks
<1> DEFINE S == Contenders(c)
           a == pl192_priority_sorter(c)
           b == pl192_priority_sorter(d)
<1>6. S \subseteq Sources \cup {DAISY}
  BY DEF Contenders
<1>7. S # {} => a \in S /\ \A j \in S : Outranks(c, a, j)
  BY SorterPicks
<1>8. S # {} => b \in S /\ \A j \in S : Outranks(c, b, j)
  BY <1>2, <1>3, SorterPicks
<1>9. S = {} => a = NO_IRQ /\ b = NO_IRQ
  BY <1>2, SorterPicks
<1>10. a = b
  <2> HIDE DEF S, a, b
  <2> QED BY <1>5, <1>6, <1>7, <1>8, <1>9
<1> QED BY <1>10

\* It is an interrupt number, and one below NO_IRQ names an active one.
LEMMA SorterType ==
    ASSUME NEW c \in Controller
    PROVE  pl192_priority_sorter(c) \in Irqs
BY SorterPicks DEF Contenders, Irqs

-----------------------------------------------------------------------------
(* pl192_update. *)

\* The controller's own share of pl192_update.
LEMMA RefreshFacts ==
    ASSUME NEW c \in Controller
    PROVE  LET r == Refresh(c)
           IN  /\ r \in Controller
               /\ Frame(c, r)
               /\ r.irq_status = IrqStatus(c)
               /\ r.fiq_status = FiqStatus(c)
               /\ r.daisy_input = c.daisy_input
               /\ r.daisy_callback = c.daisy_callback
               /\ r.daisy_vectaddr = c.daisy_vectaddr
               /\ r.current_highest = IF Quiet(r) THEN NO_IRQ
                                      ELSE pl192_priority_sorter(r)
               /\ Vectored(r)
<1> DEFINE d == [c EXCEPT !.irq_status = IrqStatus(c),
                          !.fiq_status = FiqStatus(c)]
           h == pl192_priority_sorter(d)
           a == IF h \in Sources THEN d.vect_addr[h] ELSE d.daisy_vectaddr
           r == IF Quiet(d) THEN [d EXCEPT !.current_highest = NO_IRQ]
                ELSE [d EXCEPT !.current_highest = h, !.address = a]
<1>1. d \in Controller
  BY DEF Controller, IrqStatus, FiqStatus
<1>2. h \in Irqs
  BY <1>1, SorterType
<1>3. a \in Addr
  BY <1>1 DEF Controller
<1>4. NO_IRQ \in Irqs
  BY DEF Irqs
<1>5. /\ d.irq_status = IrqStatus(c)
      /\ d.fiq_status = FiqStatus(c)
      /\ d.daisy_input = c.daisy_input
      /\ d.daisy_callback = c.daisy_callback
      /\ d.daisy_vectaddr = c.daisy_vectaddr
      /\ Frame(c, d)
  BY DEF Controller, Frame
<1> HIDE DEF d, h, a
<1>6. r \in Controller
  BY <1>1, <1>2, <1>3, <1>4 DEF Controller
<1>7. /\ Frame(c, r)
      /\ r.irq_status = d.irq_status
      /\ r.fiq_status = d.fiq_status
      /\ r.daisy_input = d.daisy_input
      /\ r.daisy_callback = d.daisy_callback
      /\ r.daisy_vectaddr = d.daisy_vectaddr
      /\ r.current_highest = IF Quiet(d) THEN NO_IRQ ELSE h
  BY <1>1, <1>5 DEF Controller, Frame
<1>8. r = Refresh(c)
  BY DEF Refresh, d, h, a
<1> HIDE DEF r
<1>9. Quiet(r) <=> Quiet(d)
  BY <1>7 DEF Quiet
<1>10. pl192_priority_sorter(r) = h
  BY <1>1, <1>5, <1>6, <1>7, SorterDepends DEF Frame, h
<1>11. Vectored(r)
  <2>1. NO_IRQ \notin Sources /\ NO_IRQ # DAISY /\ DAISY \notin Sources
    BY SizeAssumption DEF NO_IRQ, DAISY, Sources
  <2>2. CASE Quiet(d)
    BY <1>7, <2>1, <2>2 DEF Vectored
  <2>3. CASE ~Quiet(d)
    <3>1. r.address = a /\ r.vect_addr = d.vect_addr /\ r.daisy_vectaddr = d.daisy_vectaddr
      BY <1>1, <2>3 DEF r, Controller
    <3> QED BY <1>7, <2>1, <2>3, <3>1 DEF Vectored, a
  <2> QED BY <2>2, <2>3
<1> QED BY <1>5, <1>6, <1>7, <1>8, <1>9, <1>10, <1>11

\* One controller's share of pl192_update, from outside: only controller
\* v = st.at, the daisy input it drives and the two lines change; what it
\* shows afterwards fits its own state; and the walk goes on exactly when
\* the daisy input was written.
StepOK(st, v, r, nx) ==
    /\ nx \in Walk
    /\ nx.at \in {-1, v - 1}
    /\ nx.ctl[v] = r
    /\ \A w \in VICS : w # v => Poked(st.ctl[w], nx.ctl[w])
    /\ \A w \in VICS : w # v /\ w # nx.at => nx.ctl[w] = st.ctl[w]
    /\ \A w \in VICS : w # v => OutOf(nx, w) = OutOf(st, w)
    /\ \A w \in VICS : w # v /\ nx.ctl[w].daisy_callback =>
          st.ctl[w].daisy_callback \/ w + 1 = v
    /\ Preempts(r) => OutOf(nx, v)
    /\ Quiet(r) => ~OutOf(nx, v)
    /\ Preempts(r) /\ v # 0 => nx.ctl[v - 1].daisy_vectaddr = r.address
    /\ nx.fiq = (r.fiq_status # {})

\* The two writes to a neighbour.
LEMMA PokeFacts ==
    ASSUME NEW c \in Controller, NEW a \in Addr
    PROVE  /\ Raised(c, a) \in Controller
           /\ Poked(c, Raised(c, a))
           /\ Raised(c, a).daisy_input = TRUE
           /\ Raised(c, a).daisy_vectaddr = a
           /\ Lowered(c) \in Controller
           /\ Poked(c, Lowered(c))
           /\ Lowered(c).daisy_input = FALSE
           /\ Lowered(c).daisy_callback = c.daisy_callback
           /\ Poked(c, c)
BY DEF Controller, Raised, Lowered, Poked, Frame

\* StepOK from the fields of the result, without the definitions behind them.
LEMMA StepShape ==
    ASSUME NEW st \in Walk, NEW v \in VICS, NEW r \in Controller,
           NEW cs \in [VICS -> Controller], NEW i \in BOOLEAN, NEW f \in BOOLEAN,
           NEW at \in {-1, v - 1},
           cs[v] = r, r.daisy_input = st.ctl[v].daisy_input,
           \A w \in VICS : w # v /\ w # at => cs[w] = st.ctl[w],
           at \in VICS => Poked(st.ctl[at], cs[at]),
           at \in VICS /\ cs[at].daisy_callback =>
               st.ctl[at].daisy_callback \/ at + 1 = v,
           v # 0 => i = st.irq,
           Preempts(r) => IF v = 0 THEN i ELSE cs[v - 1].daisy_input,
           Quiet(r) => ~(IF v = 0 THEN i ELSE cs[v - 1].daisy_input),
           Preempts(r) /\ v # 0 => cs[v - 1].daisy_vectaddr = r.address,
           f = (r.fiq_status # {})
    PROVE  StepOK(st, v, r, [ctl |-> cs, irq |-> i, fiq |-> f, at |-> at])
<1> USE ChainAssumption DEF VICS
<1> DEFINE nx == [ctl |-> cs, irq |-> i, fiq |-> f, at |-> at]
<1>1. nx \in Walk
  BY DEF Walk
<1>2. nx.ctl = cs /\ nx.irq = i /\ nx.fiq = f /\ nx.at = at
  OBVIOUS
<1>3. st.ctl \in [VICS -> Controller] /\ st.irq \in BOOLEAN
  BY DEF Walk
<1> HIDE DEF nx
<1>4. \A w \in VICS : Poked(st.ctl[w], st.ctl[w])
  BY DEF Poked, Frame
<1>5. \A w \in VICS : w # v => Poked(st.ctl[w], nx.ctl[w])
  BY <1>2, <1>4
<1>6. \A w \in VICS : w # v => OutOf(nx, w) = OutOf(st, w)
  <2> TAKE w \in VICS
  <2> HAVE w # v
  <2>1. CASE w = 0
    BY <2>1, <1>2 DEF OutOf
  <2>2. CASE w # 0
    <3>1. w - 1 \in VICS /\ w - 1 # at
      BY <2>2
    <3>2. w - 1 # v => cs[w - 1] = st.ctl[w - 1]
      BY <3>1
    <3> QED BY <2>2, <3>1, <3>2, <1>2 DEF OutOf
  <2> QED BY <2>1, <2>2
<1> QED BY <1>1, <1>2, <1>5, <1>6 DEF StepOK, OutOf, nx

\* StepOK holds of UpdateStep.
LEMMA StepFacts ==
    ASSUME NEW st \in Walk, st.at >= 0
    PROVE  StepOK(st, st.at, Refresh(st.ctl[st.at]), UpdateStep(st))
<1> USE ChainAssumption
<1> DEFINE v == st.at
           r == Refresh(st.ctl[v])
           cs == [st.ctl EXCEPT ![v] = r]
           f == r.fiq_status # {}
<1>1. v \in VICS /\ st.ctl \in [VICS -> Controller] /\ st.irq \in BOOLEAN
  BY DEF Walk, VICS
<1>2. /\ r \in Controller
      /\ r.daisy_input = st.ctl[v].daisy_input
      /\ Quiet(r) => r.current_highest = NO_IRQ
  BY <1>1, RefreshFacts
<1>3. Quiet(r) => ~Preempts(r) /\ Withdraws(r)
  BY <1>2 DEF Preempts, Withdraws
<1>4. r.address \in Addr
  BY <1>2 DEF Controller
<1>5. cs = [st.ctl EXCEPT ![v] = Refresh(@)]
  BY <1>1
<1> HIDE DEF r
<1>6. /\ cs \in [VICS -> Controller]
      /\ cs[v] = r
      /\ \A w \in VICS : w # v => cs[w] = st.ctl[w]
  BY <1>1, <1>2
<1> SUFFICES StepOK(st, v, r, UpdateStep(st))
  BY DEF r
<1>7. ~(v < 0)
  BY <1>1 DEF VICS
<1>8. v # 0 => v - 1 \in VICS /\ v - 1 # v
  BY <1>1 DEF VICS
<1>9. /\ -1 \notin VICS /\ (v = 0 => v - 1 \notin VICS)
      /\ f \in BOOLEAN /\ (v - 1) + 1 = v
  BY <1>1 DEF VICS
<1> DEFINE g == cs[v].fiq_status # {}
<1>10. UpdateStep(st) = Drive(st, cs, v)
  BY <1>5, <1>7 DEF UpdateStep
<1>11. g = f
  BY <1>6
<1> HIDE DEF cs, v, f
<1>12. CASE Preempts(r)
  <2> DEFINE up == pl192_raise(cs, v)
             i == v = 0 \/ st.irq
             nx == [ctl |-> up, irq |-> i, fiq |-> f, at |-> v - 1]
  <2>0. UpdateStep(st) = nx
    BY <1>6, <1>12, <1>10, <1>11 DEF Drive
  <2>1. CASE v = 0
    <3>1. up = cs
      BY <2>1 DEF pl192_raise
    <3>2. i = TRUE
      BY <2>1
    <3> HIDE DEF up, i
    <3>3. StepOK(st, v, r, nx)
      BY <1>1, <1>2, <1>3, <1>6, <1>9, <1>12, <2>1, <3>1, <3>2, StepShape
      DEF f
    <3> QED BY <2>0, <3>3
  <2>2. CASE v # 0
    <3>1. up = [cs EXCEPT ![v - 1] = Raised(cs[v - 1], r.address)]
      BY <1>6, <2>2 DEF pl192_raise
    <3>2. /\ Raised(cs[v - 1], r.address) \in Controller
          /\ Poked(cs[v - 1], Raised(cs[v - 1], r.address))
          /\ Raised(cs[v - 1], r.address).daisy_input
          /\ Raised(cs[v - 1], r.address).daisy_vectaddr = r.address
      BY <1>4, <1>6, <1>8, <2>2, PokeFacts
    <3>3. /\ up \in [VICS -> Controller]
          /\ up[v - 1] = Raised(cs[v - 1], r.address)
          /\ \A w \in VICS : w # v - 1 => up[w] = cs[w]
      BY <1>6, <1>8, <2>2, <3>1, <3>2
    <3>4. i = st.irq
      BY <1>1, <2>2
    <3> HIDE DEF up, i
    <3>5. StepOK(st, v, r, nx)
      BY <1>1, <1>2, <1>3, <1>6, <1>8, <1>9, <1>12, <2>2, <3>2, <3>3, <3>4,
         StepShape DEF f
    <3> QED BY <2>0, <3>5
  <2> QED BY <2>1, <2>2
<1>13. CASE ~Preempts(r) /\ Withdraws(r)
  <2> DEFINE down == pl192_lower(cs, v)
             i == v # 0 /\ st.irq
             nx == [ctl |-> down, irq |-> i, fiq |-> f, at |-> v - 1]
  <2>0. UpdateStep(st) = nx
    BY <1>6, <1>13, <1>10, <1>11 DEF Drive
  <2>1. CASE v = 0
    <3>1. down = cs
      BY <2>1 DEF pl192_lower
    <3>2. i = FALSE
      BY <2>1
    <3> HIDE DEF down, i
    <3>3. StepOK(st, v, r, nx)
      BY <1>1, <1>2, <1>3, <1>6, <1>9, <1>13, <2>1, <3>1, <3>2, StepShape
      DEF f
    <3> QED BY <2>0, <3>3
  <2>2. CASE v # 0
    <3>1. down = [cs EXCEPT ![v - 1] = Lowered(cs[v - 1])]
      BY <1>6, <2>2 DEF pl192_lower
    <3>2. /\ Lowered(cs[v - 1]) \in Controller
          /\ Poked(cs[v - 1], Lowered(cs[v - 1]))
          /\ ~Lowered(cs[v - 1]).daisy_input
          /\ Lowered(cs[v - 1]).daisy_callback = cs[v - 1].daisy_callback
      BY <1>4, <1>6, <1>8, <2>2, PokeFacts
    <3>3. /\ down \in [VICS -> Controller]
          /\ down[v - 1] = Lowered(cs[v - 1])
          /\ \A w \in VICS : w # v - 1 => down[w] = cs[w]
      BY <1>6, <1>8, <2>2, <3>1, <3>2
    <3>4. i = st.irq
      BY <1>1, <2>2
    <3> HIDE DEF down, i
    <3>5. StepOK(st, v, r, nx)
      BY <1>1, <1>2, <1>3, <1>6, <1>8, <1>9, <1>13, <2>2, <3>2, <3>3, <3>4,
         StepShape DEF f
    <3> QED BY <2>0, <3>5
  <2> QED BY <2>1, <2>2
<1>14. CASE ~Preempts(r) /\ ~Withdraws(r)
  <2> DEFINE nx == [ctl |-> cs, irq |-> st.irq, fiq |-> f, at |-> -1]
  <2>0. UpdateStep(st) = nx
    BY <1>6, <1>14, <1>10, <1>11 DEF Drive
  <2>1. StepOK(st, v, r, nx)
    BY <1>1, <1>2, <1>3, <1>6, <1>9, <1>14, StepShape DEF f
  <2> QED BY <2>0, <2>1
<1> QED BY <1>12, <1>13, <1>14

\* A walk keeps WalkInv, and changes only what pl192_update assigns.
LEMMA StepKeepsWalkInv ==
    ASSUME NEW st, WalkInv(st)
    PROVE  /\ WalkInv(UpdateStep(st))
           /\ \A w \in VICS : Frame(st.ctl[w], UpdateStep(st).ctl[w])
           /\ st.at < 0 => UpdateStep(st) = st
           /\ st.at >= 0 => UpdateStep(st).at \in {-1, st.at - 1}
<1> DEFINE v == st.at
           r == Refresh(st.ctl[v])
           nx == UpdateStep(st)
<1>1. st \in Walk /\ v \in Int
  BY DEF WalkInv, Walk
<1>2. CASE v < 0
  <2>1. nx = st
    BY <1>2 DEF UpdateStep
  <2> QED BY <1>1, <1>2, <2>1 DEF Frame
<1>3. CASE v >= 0
  <2>1. StepOK(st, v, r, nx)
    BY <1>1, <1>3, StepFacts
  <2>2. v \in VICS /\ st.ctl[v] \in Controller
    BY <1>1, <1>3, ChainAssumption DEF Walk, VICS
  <2>3. /\ r.irq_status = IrqStatus(st.ctl[v])
        /\ r.fiq_status = FiqStatus(st.ctl[v])
        /\ Frame(st.ctl[v], r)
        /\ r.daisy_callback = st.ctl[v].daisy_callback
    BY <2>2, RefreshFacts
  <2>4. IrqStatus(r) = IrqStatus(st.ctl[v]) /\ FiqStatus(r) = FiqStatus(st.ctl[v])
    BY <2>3 DEF Frame, IrqStatus, FiqStatus
  <2> HIDE DEF nx, r, v
  <2>5. Settled(nx, v)
    BY <2>1, <2>3, <2>4 DEF Settled, StepOK
  <2>6. ASSUME NEW w \in VICS, w # v, w # nx.at
        PROVE  Settled(nx, w)
    <3>1. Settled(st, w)
      BY <2>6 DEF WalkInv, v
    <3>2. nx.ctl[w] = st.ctl[w] /\ OutOf(nx, w) = OutOf(st, w)
      BY <2>1, <2>6 DEF StepOK
    <3> QED BY <3>1, <3>2 DEF Settled
  <2>7. ASSUME NEW w \in VICS
        PROVE  /\ Frame(st.ctl[w], nx.ctl[w])
               /\ nx.ctl[w].daisy_callback => w + 1 \in VICS
    <3>1. CASE w = v
      BY <2>1, <2>3, <3>1 DEF StepOK, WalkInv
    <3>2. CASE w # v
      <4>1. Poked(st.ctl[w], nx.ctl[w])
        BY <2>1, <3>2 DEF StepOK
      <4>2. nx.ctl[w].daisy_callback => st.ctl[w].daisy_callback \/ w + 1 = v
        BY <2>1, <3>2 DEF StepOK
      <4> QED BY <2>2, <4>1, <4>2 DEF Poked, WalkInv
    <3> QED BY <3>1, <3>2
  <2>8. nx.fiq => nx.ctl[v].fiq_status # {}
    BY <2>1 DEF StepOK
  <2>9. nx \in Walk /\ nx.at \in {-1, v - 1}
    BY <2>1 DEF StepOK
  <2>10. WalkInv(nx)
    BY <2>2, <2>5, <2>6, <2>7, <2>8, <2>9 DEF WalkInv
  <2> QED BY <1>1, <1>3, <2>7, <2>9, <2>10 DEF nx, v
<1> QED BY <1>1, <1>2, <1>3

\* A walk never forgets a daisy_callback.
LEMMA StepKeepsCallback ==
    ASSUME NEW st, WalkInv(st), NEW w \in VICS, st.ctl[w].daisy_callback
    PROVE  UpdateStep(st).ctl[w].daisy_callback
<1> DEFINE v == st.at
           r == Refresh(st.ctl[v])
           nx == UpdateStep(st)
<1>1. st \in Walk /\ v \in Int
  BY DEF WalkInv, Walk
<1>2. CASE v < 0
  BY <1>2 DEF UpdateStep
<1>3. CASE v >= 0
  <2>1. StepOK(st, v, r, nx)
    BY <1>1, <1>3, StepFacts
  <2>2. v \in VICS /\ st.ctl[v] \in Controller
    BY <1>1, <1>3, ChainAssumption DEF Walk, VICS
  <2>3. r.daisy_callback = st.ctl[v].daisy_callback
    BY <2>2, RefreshFacts
  <2> HIDE DEF nx, r, v
  <2>4. CASE w = v
    BY <2>1, <2>3, <2>4 DEF StepOK, nx
  <2>5. CASE w # v
    BY <2>1, <2>5 DEF StepOK, Poked, nx
  <2> QED BY <2>4, <2>5
<1> QED BY <1>1, <1>2, <1>3

\* A walk leaves every visited controller delivered.
LEMMA StepDelivers ==
    ASSUME NEW st, WalkInv(st), WalkDelivers(st)
    PROVE  WalkDelivers(UpdateStep(st))
<1> DEFINE v == st.at
           r == Refresh(st.ctl[v])
           nx == UpdateStep(st)
<1>1. st \in Walk /\ v \in Int
  BY DEF WalkInv, Walk
<1>2. CASE v < 0
  BY <1>2 DEF UpdateStep
<1>3. CASE v >= 0
  <2>1. StepOK(st, v, r, nx)
    BY <1>1, <1>3, StepFacts
  <2>2. v \in VICS /\ st.ctl[v] \in Controller
    BY <1>1, <1>3, ChainAssumption DEF Walk, VICS
  <2>3. r.current_highest = IF Quiet(r) THEN NO_IRQ
                            ELSE pl192_priority_sorter(r)
    BY <2>2, RefreshFacts
  <2> HIDE DEF nx, r, v
  <2>4. Delivered(nx, v)
    BY <2>1, <2>3 DEF Delivered, StepOK
  <2>5. ASSUME NEW w \in VICS, w # v, w # nx.at
        PROVE  Delivered(nx, w)
    <3>1. Delivered(st, w)
      BY <2>5 DEF WalkDelivers, v
    <3>2. nx.ctl[w] = st.ctl[w] /\ OutOf(nx, w) = OutOf(st, w)
      BY <2>1, <2>5 DEF StepOK
    <3> QED BY <3>1, <3>2 DEF Delivered
  <2>6. WalkDelivers(nx)
    BY <2>4, <2>5 DEF WalkDelivers
  <2> QED BY <2>6 DEF nx
<1> QED BY <1>1, <1>2, <1>3

\* The daisy input wins only while it shows.
LEMMA DaisyWins ==
    ASSUME NEW r \in Controller,
           r.current_highest = IF Quiet(r) THEN NO_IRQ ELSE pl192_priority_sorter(r),
           r.current_highest = DAISY
    PROVE  r.daisy_input
<1>1. DAISY # NO_IRQ /\ DAISY \notin Sources
  BY SizeAssumption DEF DAISY, NO_IRQ, Sources
<1>2. DAISY \in Contenders(r) => r.daisy_input
  BY <1>1 DEF Contenders, Controller
<1>3. pl192_priority_sorter(r) = DAISY => DAISY \in Contenders(r)
  BY <1>1, SorterPicks
<1> QED BY <1>1, <1>2, <1>3

\* A walk keeps daisy_callback known wherever the daisy input is used.
LEMMA StepKeepsLinked ==
    ASSUME NEW st, WalkInv(st), WalkLinked(st)
    PROVE  WalkLinked(UpdateStep(st))
<1> DEFINE v == st.at
           r == Refresh(st.ctl[v])
           nx == UpdateStep(st)
<1>1. st \in Walk /\ v \in Int
  BY DEF WalkInv, Walk
<1>2. CASE v < 0
  BY <1>2 DEF UpdateStep
<1>3. CASE v >= 0
  <2>1. StepOK(st, v, r, nx)
    BY <1>1, <1>3, StepFacts
  <2>2. v \in VICS /\ st.ctl[v] \in Controller
    BY <1>1, <1>3, ChainAssumption DEF Walk, VICS
  <2>3. /\ r \in Controller
        /\ r.current_highest = IF Quiet(r) THEN NO_IRQ
                               ELSE pl192_priority_sorter(r)
        /\ r.daisy_input = st.ctl[v].daisy_input
        /\ r.daisy_callback = st.ctl[v].daisy_callback
    BY <2>2, RefreshFacts
  <2> HIDE DEF nx, r, v
  <2>4. r.current_highest = DAISY => r.daisy_input
    BY <2>3, DaisyWins
  <2>5. ASSUME NEW w \in VICS PROVE Linked(nx.ctl[w])
    <3>1. Linked(st.ctl[w])
      BY DEF WalkLinked
    <3>2. CASE w = v
      BY <2>1, <2>3, <2>4, <3>1, <3>2 DEF Linked, StepOK
    <3>3. CASE w # v
      <4>1. Poked(st.ctl[w], nx.ctl[w])
        BY <2>1, <3>3 DEF StepOK
      <4> QED BY <3>1, <4>1 DEF Poked, Linked
    <3> QED BY <3>2, <3>3
  <2>6. WalkLinked(nx)
    BY <2>5 DEF WalkLinked
  <2> QED BY <2>6 DEF nx
<1> QED BY <1>1, <1>2, <1>3

\* The two stacks agree with what is in service.
StackOK(c) ==
    /\ c.stack_i \in 0 .. PRIO_LEVELS
    /\ c.priority = c.priority_stack[c.stack_i]
    /\ c.current = c.irq_stack[c.stack_i]
    /\ c.priority_stack[0] = PRIO_LEVELS
    /\ c.irq_stack[0] = NO_IRQ

\* A controller the guest never acknowledges itself stays idle, however often
\* it is masked through the daisy chain.
SlaveOK(c) ==
    \A k \in 0 .. c.stack_i :
        c.priority_stack[k] >= PRIO_LEVELS /\ c.irq_stack[k] = NO_IRQ

\* A controller that is never acknowledged itself shows any winner it has.
LEMMA SlavePreempts ==
    ASSUME NEW c \in Controller, StackOK(c), SlaveOK(c)
    PROVE  /\ Preempts(c) <=> c.current_highest # NO_IRQ
           /\ c.current = NO_IRQ
           /\ DaisyEntries(c) = {}
<1>1. /\ c.stack_i \in Nat /\ c.stack_i \in 0 .. c.stack_i
      /\ c.priority \in Nat /\ c.current_highest \in Irqs
  BY DEF Controller
<1>2. c.current = NO_IRQ /\ c.priority >= PRIO_LEVELS
  BY <1>1 DEF StackOK, SlaveOK
<1>3. ASSUME c.current_highest # NO_IRQ
      PROVE  Prio(c, c.current_highest) < c.priority
  <2>1. Prio(c, c.current_highest) \in Levels
    BY <1>1, <1>3, PrioType DEF Irqs
  <2> QED BY <1>1, <1>2, <2>1, SizeAssumption DEF Levels
<1>4. DAISY # NO_IRQ
  BY SizeAssumption DEF DAISY, NO_IRQ
<1>5. DaisyEntries(c) = {}
  BY <1>1, <1>4 DEF DaisyEntries, SlaveOK
<1> QED BY <1>2, <1>3, <1>5 DEF Preempts

\* No controller but the first is acknowledged by the guest itself.
SlavesOK(st) == \A w \in VICS \ {0} : StackOK(st.ctl[w]) /\ SlaveOK(st.ctl[w])

\* A walk leaves the winner's address with every controller it visited.
LEMMA StepKeepsVectors ==
    ASSUME NEW st, WalkInv(st), SlavesOK(st), WalkVectors(st)
    PROVE  WalkVectors(UpdateStep(st)) /\ SlavesOK(UpdateStep(st))
<1> DEFINE v == st.at
           r == Refresh(st.ctl[v])
           nx == UpdateStep(st)
<1>1. st \in Walk /\ v \in Int
  BY DEF WalkInv, Walk
<1>2. CASE v < 0
  BY <1>2 DEF UpdateStep
<1>3. CASE v >= 0
  <2>1. StepOK(st, v, r, nx)
    BY <1>1, <1>3, StepFacts
  <2>2. v \in VICS /\ st.ctl[v] \in Controller
    BY <1>1, <1>3, ChainAssumption DEF Walk, VICS
  <2>3. /\ r \in Controller /\ Frame(st.ctl[v], r) /\ Vectored(r)
        /\ r.current_highest = IF Quiet(r) THEN NO_IRQ
                               ELSE pl192_priority_sorter(r)
        /\ r.daisy_input = st.ctl[v].daisy_input
        /\ r.daisy_vectaddr = st.ctl[v].daisy_vectaddr
    BY <2>2, RefreshFacts
  <2>4. \A w \in VICS : Frame(st.ctl[w], nx.ctl[w])
    BY StepKeepsWalkInv
  <2> HIDE DEF nx, r, v
  <2>5. SlavesOK(nx)
    BY <2>4 DEF SlavesOK, StackOK, SlaveOK, Frame
  <2>6. nx.ctl[v] = r
    BY <2>1 DEF StepOK
  <2>7. v # 0 /\ r.current_highest # NO_IRQ => Preempts(r)
    BY <2>2, <2>3, <2>5, <2>6, SlavePreempts DEF SlavesOK
  <2>8. r.current_highest = DAISY => r.daisy_input
    BY <2>3, DaisyWins
  <2>9. ASSUME NEW w \in VICS, w # nx.at PROVE Vectored(nx.ctl[w])
    <3>1. CASE w = v
      BY <2>3, <2>6, <3>1
    <3>2. CASE w # v
      BY <2>1, <2>9, <3>2 DEF StepOK, WalkVectors, v
    <3> QED BY <3>1, <3>2
  <2>10. ASSUME NEW w \in VICS \ {0}, w # nx.at, nx.ctl[w].current_highest # NO_IRQ
         PROVE  nx.ctl[w - 1].daisy_vectaddr = nx.ctl[w].address
    <3>1. CASE w = v
      BY <2>1, <2>6, <2>7, <2>10, <3>1 DEF StepOK
    <3>2. CASE w # v
      <4>1. nx.ctl[w] = st.ctl[w]
        BY <2>1, <2>10, <3>2 DEF StepOK
      <4>2. st.ctl[w - 1].daisy_vectaddr = st.ctl[w].address
        BY <2>10, <3>2, <4>1 DEF WalkVectors, v
      <4>3. w - 1 \in VICS /\ w - 1 # v - 1 /\ w - 1 # -1
        BY <2>2, <3>2, ChainAssumption DEF VICS
      <4>4. nx.at \in {-1, v - 1}
        BY <2>1 DEF StepOK
      <4>5. nx.ctl[w - 1].daisy_vectaddr = st.ctl[w - 1].daisy_vectaddr
        <5>1. CASE w - 1 = v
          BY <2>3, <2>6, <5>1
        <5>2. CASE w - 1 # v
          <6>1. w - 1 # nx.at
            BY <4>3, <4>4
          <6> QED BY <2>1, <4>3, <5>2, <6>1 DEF StepOK
        <5> QED BY <5>1, <5>2
      <4> QED BY <4>1, <4>2, <4>5
    <3> QED BY <3>1, <3>2
  <2>11. ASSUME NEW w \in VICS, nx.ctl[w].daisy_input \/ nx.ctl[w].current_highest = DAISY
         PROVE  w + 1 \in VICS
    <3>1. CASE w = v
      BY <2>3, <2>6, <2>8, <2>11, <3>1 DEF WalkVectors
    <3>2. CASE w # v /\ w # nx.at
      BY <2>1, <2>11, <3>2 DEF StepOK, WalkVectors
    <3>3. CASE w # v /\ w = nx.at
      <4>1. w = v - 1
        BY <2>1, <3>3, ChainAssumption DEF StepOK, VICS
      <4>2. w + 1 = v
        BY <2>2, <4>1, ChainAssumption DEF VICS
      <4> QED BY <2>2, <4>2
    <3> QED BY <3>1, <3>2, <3>3
  <2>12. WalkVectors(nx)
    BY <2>9, <2>10, <2>11 DEF WalkVectors
  <2> QED BY <2>5, <2>12 DEF nx
<1> QED BY <1>1, <1>2, <1>3

\* The whole of pl192_update(v): the walk ends with every controller settled.
LEMMA UpdateFacts ==
    ASSUME NEW cs, NEW v \in VICS,
           WalkInv([ctl |-> cs, irq |-> irq, fiq |-> fiq, at |-> v])
    PROVE  LET s0 == [ctl |-> cs, irq |-> irq, fiq |-> fiq, at |-> v]
               st == pl192_update(cs, v)
           IN  /\ WalkInv(st)
               /\ st.at = -1
               /\ \A w \in VICS : Frame(cs[w], st.ctl[w])
               /\ WalkDelivers(s0) => WalkDelivers(st)
               /\ WalkLinked(s0) => WalkLinked(st)
               /\ WalkVectors(s0) /\ SlavesOK(s0) => WalkVectors(st)
               /\ VIC_N = 1 => st.fiq = (st.ctl[0].fiq_status # {})
<1> DEFINE s0 == [ctl |-> cs, irq |-> irq, fiq |-> fiq, at |-> v]
           s1 == UpdateStep(s0)
           s2 == UpdateStep(s1)
           s3 == UpdateStep(s2)
           s4 == UpdateStep(s3)
<1>1. s4 = pl192_update(cs, v)
  BY DEF pl192_update
<1>2. s0.ctl = cs /\ s0.at = v /\ v \in 0 .. 3
  BY ChainAssumption DEF VICS
<1>3. WalkInv(s0)
  OBVIOUS
<1>4. \A st : WalkInv(st) => st.at \in Int /\ st.at >= -1
  BY ChainAssumption DEF WalkInv, Walk
<1> HIDE DEF s0, s1, s2, s3, s4
<1>5. /\ WalkInv(s1) /\ \A w \in VICS : Frame(s0.ctl[w], s1.ctl[w])
      /\ s1.at \in {-1, s0.at - 1}
  BY <1>2, <1>3, StepKeepsWalkInv DEF s1
<1>6. /\ WalkInv(s2) /\ \A w \in VICS : Frame(s1.ctl[w], s2.ctl[w])
      /\ s1.at < 0 => s2.at = s1.at
      /\ s1.at >= 0 => s2.at \in {-1, s1.at - 1}
  BY <1>5, StepKeepsWalkInv DEF s2
<1>7. /\ WalkInv(s3) /\ \A w \in VICS : Frame(s2.ctl[w], s3.ctl[w])
      /\ s2.at < 0 => s3.at = s2.at
      /\ s2.at >= 0 => s3.at \in {-1, s2.at - 1}
  BY <1>6, StepKeepsWalkInv DEF s3
<1>8. /\ WalkInv(s4) /\ \A w \in VICS : Frame(s3.ctl[w], s4.ctl[w])
      /\ s3.at < 0 => s4.at = s3.at
      /\ s3.at >= 0 => s4.at \in {-1, s3.at - 1}
  BY <1>7, StepKeepsWalkInv DEF s4
<1>9. s4.at = -1
  BY <1>2, <1>4, <1>5, <1>6, <1>7, <1>8
<1>10. \A w \in VICS : Frame(cs[w], s4.ctl[w])
  BY <1>2, <1>5, <1>6, <1>7, <1>8 DEF Frame
<1>11. WalkDelivers(s0) => WalkDelivers(s4)
  BY <1>3, <1>5, <1>6, <1>7, StepDelivers DEF s1, s2, s3, s4
<1>12. WalkLinked(s0) => WalkLinked(s4)
  BY <1>3, <1>5, <1>6, <1>7, StepKeepsLinked DEF s1, s2, s3, s4
<1>13. WalkVectors(s0) /\ SlavesOK(s0) => WalkVectors(s4)
  BY <1>3, <1>5, <1>6, <1>7, StepKeepsVectors DEF s1, s2, s3, s4
<1>14. VIC_N = 1 => s4.fiq = (s4.ctl[0].fiq_status # {})
  <2> SUFFICES ASSUME VIC_N = 1 PROVE s4.fiq = (s4.ctl[0].fiq_status # {})
    OBVIOUS
  <2>1. v = 0
    BY DEF VICS
  <2>2. s0 \in Walk /\ s0.at >= 0
    BY <1>2, <1>3 DEF WalkInv
  <2>3. StepOK(s0, 0, Refresh(s0.ctl[0]), s1)
    BY <1>2, <2>1, <2>2, StepFacts DEF s1
  <2>4. s1.fiq = (s1.ctl[0].fiq_status # {})
    BY <2>3 DEF StepOK
  <2>5. s1.at < 0
    BY <1>2, <1>5, <2>1
  <2>6. s2 = s1 /\ s3 = s2 /\ s4 = s3
    BY <2>5 DEF s2, s3, s4, UpdateStep
  <2> QED BY <2>4, <2>6
<1> QED BY <1>1, <1>8, <1>9, <1>10, <1>11, <1>12, <1>13, <1>14 DEF s0

-----------------------------------------------------------------------------
(* The stacks. *)

\* d differs from c only in what the stack operations assign.
Wires(c, d) ==
    /\ d.rawintr = c.rawintr /\ d.softint = c.softint
    /\ d.intenable = c.intenable /\ d.intselect = c.intselect
    /\ d.irq_status = c.irq_status /\ d.fiq_status = c.fiq_status
    /\ d.sw_priority_mask = c.sw_priority_mask
    /\ d.vect_addr = c.vect_addr /\ d.vect_priority = c.vect_priority
    /\ d.address = c.address /\ d.current_highest = c.current_highest
    /\ d.daisy_vectaddr = c.daisy_vectaddr
    /\ d.daisy_priority = c.daisy_priority
    /\ d.daisy_callback = c.daisy_callback /\ d.daisy_input = c.daisy_input

\* pl192_mask_priority after `current' became i.
LEMMA MaskFacts ==
    ASSUME NEW c \in Controller, StackOK(c), c.stack_i < PRIO_LEVELS,
           NEW i \in Irqs
    PROVE  LET m == pl192_mask_priority([c EXCEPT !.current = i])
           IN  /\ m \in Controller
               /\ Wires(c, m)
               /\ StackOK(m)
               /\ m.stack_i = c.stack_i + 1
               /\ \A k \in 0 .. c.stack_i :
                      /\ m.irq_stack[k] = c.irq_stack[k]
                      /\ m.priority_stack[k] = c.priority_stack[k]
               /\ m.irq_stack[c.stack_i + 1] = i
               /\ i = NO_IRQ => m.priority_stack[c.stack_i + 1] >= PRIO_LEVELS
<1> DEFINE b == [c EXCEPT !.current = i]
           k == c.stack_i + 1
           p == Prio(b, i)
           m == pl192_mask_priority(b)
<1>1. /\ b \in Controller /\ Wires(c, b) /\ b.current = i
      /\ b.stack_i = c.stack_i /\ b.priority_stack = c.priority_stack
      /\ b.irq_stack = c.irq_stack
  BY DEF Controller, Wires
<1>2. p \in Nat /\ (i = NO_IRQ => p >= PRIO_LEVELS)
  <2>1. CASE i = NO_IRQ
    BY <2>1, SizeAssumption DEF Prio, NO_IRQ, DAISY, Sources
  <2>2. CASE i # NO_IRQ
    BY <1>1, <2>2, PrioType DEF Irqs
  <2> QED BY <2>1, <2>2
<1>3. /\ c.stack_i \in Nat /\ k \in 1 .. PRIO_LEVELS
      /\ c.priority_stack \in [0 .. PRIO_LEVELS -> Nat]
      /\ c.irq_stack \in [0 .. PRIO_LEVELS -> Irqs]
  BY SizeAssumption DEF Controller, StackOK
<1> DEFINE ps == [c.priority_stack EXCEPT ![k] = p]
           is == [c.irq_stack EXCEPT ![k] = i]
<1>4. m = [b EXCEPT !.stack_i = k, !.priority = p, !.priority_stack = ps,
                    !.irq_stack = is]
  BY <1>1 DEF pl192_mask_priority
<1>5. /\ ps \in [0 .. PRIO_LEVELS -> Nat] /\ is \in [0 .. PRIO_LEVELS -> Irqs]
      /\ ps[k] = p /\ is[k] = i
      /\ \A j \in 0 .. c.stack_i : is[j] = c.irq_stack[j]
                                /\ ps[j] = c.priority_stack[j]
  BY <1>2, <1>3, SizeAssumption
<1>6. /\ m.stack_i = k /\ m.priority = p /\ m.priority_stack = ps
      /\ m.irq_stack = is /\ m.current = i /\ m \in Controller /\ Wires(b, m)
  <2>1. k \in Nat
    BY <1>3
  <2> HIDE DEF b, m, p, ps, is, k
  <2>2. m \in Controller
    BY <1>1, <1>2, <1>4, <1>5, <2>1 DEF Controller
  <2> QED BY <1>1, <1>4, <2>2 DEF Controller, Wires
<1>7. 0 \in 0 .. c.stack_i
  BY <1>3
<1> HIDE DEF b, m, p, ps, is
<1>8. Wires(c, m)
  BY <1>1, <1>6 DEF Wires
<1>9. StackOK(m)
  BY <1>3, <1>5, <1>6, <1>7 DEF StackOK
<1> QED BY <1>2, <1>5, <1>6, <1>8, <1>9 DEF m, b

\* pl192_unmask_priority gives back what the last pl192_mask_priority saved.
LEMMA UnmaskFacts ==
    ASSUME NEW c \in Controller, StackOK(c), c.stack_i >= 1
    PROVE  LET m == pl192_unmask_priority(c)
           IN  /\ m \in Controller
               /\ Wires(c, m)
               /\ StackOK(m)
               /\ m.stack_i = c.stack_i - 1
               /\ m.irq_stack = c.irq_stack
               /\ m.priority_stack = c.priority_stack
<1> DEFINE k == c.stack_i - 1
           m == pl192_unmask_priority(c)
<1>1. /\ c.stack_i \in 1 .. PRIO_LEVELS /\ k \in 0 .. PRIO_LEVELS /\ k \in Nat
      /\ c.priority_stack \in [0 .. PRIO_LEVELS -> Nat]
      /\ c.irq_stack \in [0 .. PRIO_LEVELS -> Irqs]
  BY SizeAssumption DEF Controller, StackOK
<1> DEFINE p == c.priority_stack[k]
           i == c.irq_stack[k]
<1>2. p \in Nat /\ i \in Irqs
  BY <1>1
<1>3. m = [c EXCEPT !.stack_i = k, !.priority = p, !.current = i]
  BY DEF pl192_unmask_priority
<1>4. /\ m \in Controller /\ Wires(c, m) /\ m.stack_i = k
      /\ m.irq_stack = c.irq_stack /\ m.priority_stack = c.priority_stack
      /\ m.priority = p /\ m.current = i
  <2> HIDE DEF m, k, p, i
  <2> QED BY <1>1, <1>2, <1>3 DEF Controller, Wires
<1> HIDE DEF m
<1>5. StackOK(m)
  BY <1>1, <1>4 DEF StackOK
<1> QED BY <1>4, <1>5 DEF m

-----------------------------------------------------------------------------
(* The inductive invariant. *)

\* The chain at rest.
AtRest(cs, i, f) == [ctl |-> cs, irq |-> i, fiq |-> f, at |-> -1]
Started(cs, v) == [ctl |-> cs, irq |-> irq, fiq |-> fiq, at |-> v]

\* The stacks of a chain whose guest acknowledges controller 0 only.
StackInv(cs) ==
    /\ \A v \in VICS : StackOK(cs[v])
    /\ \A v \in VICS \ {0} :
          /\ SlaveOK(cs[v])
          /\ cs[v].stack_i = Cardinality(DaisyEntries(cs[v - 1]))

\* daisy_callback is known while a daisy interrupt shows, wins or is served.
CallbackInv(cs) ==
    \A v \in VICS :
        /\ Linked(cs[v])
        /\ DaisyEntries(cs[v]) # {} => cs[v].daisy_callback

\* The strengthening: without reset the outputs are exact and the guest's
\* count is the stack's, without migration daisy_callback is known, and with
\* neither the emulator runs on.
IInv ==
    /\ TypeOK
    /\ WalkInv(AtRest(ctl, irq, fiq))
    /\ WalkVectors(AtRest(ctl, irq, fiq))
    /\ VIC_N = 1 => fiq = (ctl[0].fiq_status # {})
    /\ StackInv(ctl)
    /\ \A v \in VICS \ {0} : depth[v] = 0
    /\ ctl[0].stack_i <= depth[0]
    /\ "reset" \notin Ops => /\ ctl[0].stack_i = depth[0]
                             /\ WalkDelivers(AtRest(ctl, irq, fiq))
    /\ "migrate" \notin Ops => CallbackInv(ctl)
    /\ ("reset" \notin Ops /\ "migrate" \notin Ops) => ~aborted

\* The stacks do not depend on what pl192_update assigns.
LEMMA FrameStacks ==
    ASSUME NEW cs, NEW ds, \A w \in VICS : Frame(cs[w], ds[w])
    PROVE  /\ StackInv(cs) => StackInv(ds)
           /\ \A w \in VICS : DaisyEntries(ds[w]) = DaisyEntries(cs[w])
<1>1. \A w \in VICS : DaisyEntries(ds[w]) = DaisyEntries(cs[w])
  BY DEF Frame, DaisyEntries
<1>2. \A w \in VICS : /\ StackOK(cs[w]) => StackOK(ds[w])
                      /\ SlaveOK(cs[w]) => SlaveOK(ds[w])
                      /\ ds[w].stack_i = cs[w].stack_i
  BY DEF Frame, StackOK, SlaveOK
<1>3. \A w \in VICS \ {0} : w - 1 \in VICS
  BY ChainAssumption DEF VICS
<1>4. ASSUME StackInv(cs) PROVE StackInv(ds)
  BY <1>1, <1>2, <1>3, <1>4 DEF StackInv
<1> QED BY <1>1, <1>4

\* An entry point that ends in pl192_update(v) leaves a chain at rest.
LEMMA UpdateSettles ==
    ASSUME NEW cs, NEW v \in VICS, WalkInv(Started(cs, v)), Update(cs, v)
    PROVE  /\ WalkInv(AtRest(ctl', irq', fiq'))
           /\ \A w \in VICS : Frame(cs[w], ctl'[w])
           /\ WalkDelivers(Started(cs, v)) => WalkDelivers(AtRest(ctl', irq', fiq'))
           /\ WalkLinked(Started(cs, v)) => WalkLinked(AtRest(ctl', irq', fiq'))
           /\ WalkVectors(Started(cs, v)) /\ SlavesOK(Started(cs, v)) =>
                 WalkVectors(AtRest(ctl', irq', fiq'))
           /\ VIC_N = 1 => fiq' = (ctl'[0].fiq_status # {})
           /\ ctl' \in [VICS -> Controller] /\ irq' \in BOOLEAN /\ fiq' \in BOOLEAN
<1> DEFINE st == pl192_update(cs, v)
<1>1. ctl' = st.ctl /\ irq' = st.irq /\ fiq' = st.fiq
  BY DEF Update
<1>2. /\ WalkInv(st) /\ st.at = -1
      /\ \A w \in VICS : Frame(cs[w], st.ctl[w])
      /\ WalkDelivers(Started(cs, v)) => WalkDelivers(st)
      /\ WalkLinked(Started(cs, v)) => WalkLinked(st)
      /\ WalkVectors(Started(cs, v)) /\ SlavesOK(Started(cs, v)) => WalkVectors(st)
      /\ VIC_N = 1 => st.fiq = (st.ctl[0].fiq_status # {})
  BY UpdateFacts DEF Started
<1> HIDE DEF st
<1>3. st \in Walk
  BY <1>2 DEF WalkInv
<1>4. st = AtRest(st.ctl, st.irq, st.fiq)
  BY <1>2, <1>3 DEF Walk, AtRest
<1> QED BY <1>1, <1>2, <1>3, <1>4 DEF Walk

\* pl192_update never forgets a daisy_callback.
LEMMA UpdateKeepsCallback ==
    ASSUME NEW cs, NEW v \in VICS, WalkInv(Started(cs, v)), Update(cs, v),
           NEW w \in VICS, cs[w].daisy_callback
    PROVE  ctl'[w].daisy_callback
<1> DEFINE s0 == Started(cs, v)
           s1 == UpdateStep(s0)
           s2 == UpdateStep(s1)
           s3 == UpdateStep(s2)
           s4 == UpdateStep(s3)
<1>1. ctl' = s4.ctl
  BY DEF Update, pl192_update, Started
<1>2. s0.ctl = cs /\ WalkInv(s0)
  BY DEF Started
<1> HIDE DEF s0, s1, s2, s3, s4
<1>3. WalkInv(s1) /\ WalkInv(s2) /\ WalkInv(s3)
  BY <1>2, StepKeepsWalkInv DEF s1, s2, s3
<1>4. /\ s1.ctl[w].daisy_callback /\ s2.ctl[w].daisy_callback
      /\ s3.ctl[w].daisy_callback /\ s4.ctl[w].daisy_callback
  BY <1>2, <1>3, StepKeepsCallback DEF s1, s2, s3, s4
<1> QED BY <1>1, <1>4

\* An entry point may start from a chain at rest: it touched inputs and
\* registers of controller v, and stacks.
LEMMA StartsSettled ==
    ASSUME NEW v \in VICS, NEW cs \in [VICS -> Controller],
           WalkInv(AtRest(ctl, irq, fiq)),
           \A w \in VICS : /\ cs[w].daisy_input = ctl[w].daisy_input
                           /\ cs[w].daisy_callback = ctl[w].daisy_callback
                           /\ cs[w].fiq_status = ctl[w].fiq_status
                           /\ cs[w].current_highest = ctl[w].current_highest
                           /\ cs[w].daisy_vectaddr = ctl[w].daisy_vectaddr,
           \A w \in VICS : w # v => Wires(ctl[w], cs[w])
    PROVE  /\ WalkInv(Started(cs, v))
           /\ WalkLinked(AtRest(ctl, irq, fiq)) => WalkLinked(Started(cs, v))
           /\ WalkVectors(AtRest(ctl, irq, fiq)) => WalkVectors(Started(cs, v))
           /\ (/\ WalkDelivers(AtRest(ctl, irq, fiq))
               /\ \A w \in VICS : w # v /\ Preempts(cs[w]) => Preempts(ctl[w])) =>
                  WalkDelivers(Started(cs, v))
<1> USE ChainAssumption
<1> DEFINE a == AtRest(ctl, irq, fiq)
           b == Started(cs, v)
<1>1. /\ a.ctl = ctl /\ a.irq = irq /\ a.fiq = fiq /\ a.at = -1
      /\ b.ctl = cs /\ b.irq = irq /\ b.fiq = fiq /\ b.at = v
  BY DEF AtRest, Started
<1>2. b \in Walk
  BY DEF Walk, WalkInv, AtRest, Started, VICS
<1>3. \A w \in VICS : OutOf(b, w) = OutOf(a, w) /\ w # -1
  BY <1>1 DEF OutOf, VICS
<1>4. ctl \in [VICS -> Controller]
  BY <1>1 DEF WalkInv, Walk
<1> HIDE DEF a, b
<1>5. ASSUME NEW w \in VICS, w # v PROVE Settled(b, w)
  <2>1. Settled(a, w)
    BY <1>1, <1>3 DEF WalkInv, a
  <2>2. Wires(ctl[w], cs[w])
    BY <1>5
  <2> QED BY <1>1, <1>3, <2>1, <2>2
          DEF Settled, Wires, IrqStatus, FiqStatus, Quiet
<1>6. WalkInv(b)
  BY <1>1, <1>2, <1>5 DEF WalkInv, a
<1>7. ASSUME WalkLinked(a) PROVE WalkLinked(b)
  BY <1>1, <1>7 DEF WalkLinked, Linked
<1>8. ASSUME WalkDelivers(a),
             \A w \in VICS : w # v /\ Preempts(cs[w]) => Preempts(ctl[w]),
             NEW w \in VICS, w # v
      PROVE  Delivered(b, w)
  <2>1. Delivered(a, w)
    BY <1>3, <1>1, <1>8 DEF WalkDelivers
  <2>2. Wires(ctl[w], cs[w])
    BY <1>8
  <2>3. pl192_priority_sorter(cs[w]) = pl192_priority_sorter(ctl[w])
    BY <1>4, <2>2, SorterDepends DEF Wires
  <2> QED BY <1>1, <1>3, <1>8, <2>1, <2>2, <2>3 DEF Delivered, Wires, Quiet
<1>9. ASSUME WalkDelivers(a),
             \A w \in VICS : w # v /\ Preempts(cs[w]) => Preempts(ctl[w])
      PROVE  WalkDelivers(b)
  BY <1>1, <1>8, <1>9 DEF WalkDelivers
<1>10. ASSUME WalkVectors(a) PROVE WalkVectors(b)
  <2>1. \A w \in VICS : w # v => Vectored(cs[w])
    BY <1>1, <1>3, <1>10 DEF WalkVectors, Vectored, Wires
  <2>2. ASSUME NEW w \in VICS \ {0}, w # v, cs[w].current_highest # NO_IRQ
        PROVE  cs[w - 1].daisy_vectaddr = cs[w].address
    <3>1. w - 1 \in VICS
      BY DEF VICS
    <3>2. ctl[w - 1].daisy_vectaddr = ctl[w].address
      BY <1>1, <1>3, <1>10, <2>2 DEF WalkVectors, Wires
    <3> QED BY <2>2, <3>1, <3>2 DEF Wires
  <2>3. \A w \in VICS : cs[w].daisy_input \/ cs[w].current_highest = DAISY => w + 1 \in VICS
    BY <1>1, <1>10 DEF WalkVectors
  <2> QED BY <1>1, <2>1, <2>2, <2>3 DEF WalkVectors
<1> QED BY <1>6, <1>7, <1>9, <1>10 DEF a, b

-----------------------------------------------------------------------------
(* Each operation keeps the invariant. *)

\* d differs from c only in inputs and programmable registers.
Programmed(c, d) ==
    /\ d.irq_status = c.irq_status /\ d.fiq_status = c.fiq_status
    /\ d.current = c.current /\ d.current_highest = c.current_highest
    /\ d.stack_i = c.stack_i /\ d.priority = c.priority
    /\ d.priority_stack = c.priority_stack /\ d.irq_stack = c.irq_stack
    /\ d.daisy_callback = c.daisy_callback /\ d.daisy_input = c.daisy_input
    /\ d.daisy_vectaddr = c.daisy_vectaddr

\* Registers and input lines.
LEMMA WriteKeeps ==
    ASSUME IInv, NEW v \in VICS, NEW c \in Controller, Programmed(ctl[v], c),
           Update([ctl EXCEPT ![v] = c], v), UNCHANGED <<depth, aborted>>
    PROVE  /\ IInv'
           /\ \A w \in VICS : Frame(IF w = v THEN c ELSE ctl[w], ctl'[w])
<1> DEFINE cs == [ctl EXCEPT ![v] = c]
<1>1. /\ ctl \in [VICS -> Controller] /\ 0 \in VICS
      /\ cs \in [VICS -> Controller] /\ cs[v] = c
      /\ \A w \in VICS : w # v => cs[w] = ctl[w]
  BY ChainAssumption DEF IInv, TypeOK, VICS
<1>2. Update(cs, v)
  OBVIOUS
<1> HIDE DEF cs
<1>3. \A w \in VICS : Programmed(ctl[w], cs[w])
  BY <1>1 DEF Programmed
<1>4. \A w \in VICS : w # v => Wires(ctl[w], cs[w])
  BY <1>1 DEF Wires
<1>5. /\ WalkInv(Started(cs, v))
      /\ WalkLinked(AtRest(ctl, irq, fiq)) => WalkLinked(Started(cs, v))
      /\ WalkDelivers(AtRest(ctl, irq, fiq)) => WalkDelivers(Started(cs, v))
      /\ WalkVectors(Started(cs, v))
  BY <1>1, <1>3, <1>4, StartsSettled DEF IInv, Programmed
<1>6. /\ WalkInv(AtRest(ctl', irq', fiq'))
      /\ \A w \in VICS : Frame(cs[w], ctl'[w])
      /\ WalkDelivers(Started(cs, v)) => WalkDelivers(AtRest(ctl', irq', fiq'))
      /\ WalkLinked(Started(cs, v)) => WalkLinked(AtRest(ctl', irq', fiq'))
      /\ WalkVectors(Started(cs, v)) /\ SlavesOK(Started(cs, v)) =>
            WalkVectors(AtRest(ctl', irq', fiq'))
      /\ VIC_N = 1 => fiq' = (ctl'[0].fiq_status # {})
      /\ ctl' \in [VICS -> Controller] /\ irq' \in BOOLEAN /\ fiq' \in BOOLEAN
  BY <1>2, <1>5, UpdateSettles
<1>7. StackInv(cs) /\ \A w \in VICS : DaisyEntries(cs[w]) = DaisyEntries(ctl[w])
  <2>1. \A w \in VICS : DaisyEntries(cs[w]) = DaisyEntries(ctl[w])
    BY <1>3 DEF Programmed, DaisyEntries
  <2>2. \A w \in VICS : /\ StackOK(ctl[w]) => StackOK(cs[w])
                        /\ SlaveOK(ctl[w]) => SlaveOK(cs[w])
                        /\ cs[w].stack_i = ctl[w].stack_i
    BY <1>3 DEF Programmed, StackOK, SlaveOK
  <2>3. \A w \in VICS \ {0} : w - 1 \in VICS
    BY ChainAssumption DEF VICS
  <2> QED BY <2>1, <2>2, <2>3 DEF StackInv, IInv
<1>8. StackInv(ctl') /\ \A w \in VICS : DaisyEntries(ctl'[w]) = DaisyEntries(ctl[w])
  BY <1>6, <1>7, FrameStacks
<1>9. ctl'[0].stack_i = ctl[0].stack_i
  BY <1>1, <1>3, <1>6 DEF Frame, Programmed
<1>10. TypeOK'
  BY <1>6 DEF IInv, TypeOK
<1>11. ASSUME "migrate" \notin Ops PROVE CallbackInv(ctl')
  <2>1. CallbackInv(ctl)
    BY <1>11 DEF IInv
  <2>2. WalkLinked(AtRest(ctl, irq, fiq))
    BY <2>1 DEF CallbackInv, WalkLinked, AtRest
  <2>3. \A w \in VICS : Linked(ctl'[w])
    BY <1>5, <1>6, <2>2 DEF WalkLinked, AtRest
  <2>4. \A w \in VICS : ctl[w].daisy_callback => ctl'[w].daisy_callback
    BY <1>2, <1>3, <1>5, UpdateKeepsCallback DEF Programmed
  <2> QED BY <1>8, <2>1, <2>3, <2>4 DEF CallbackInv
<1>12. WalkVectors(AtRest(ctl', irq', fiq'))
  BY <1>5, <1>6, <1>7 DEF StackInv, SlavesOK, Started
<1>13. \A w \in VICS : Frame(IF w = v THEN c ELSE ctl[w], ctl'[w])
  BY <1>1, <1>6
<1> QED BY <1>5, <1>6, <1>8, <1>9, <1>10, <1>11, <1>12, <1>13 DEF IInv

\* What only the guest's writes and the input lines change.
Kept(c, d) ==
    /\ d.rawintr = c.rawintr /\ d.vect_addr = c.vect_addr
    /\ d.sw_priority_mask = c.sw_priority_mask

\* An acknowledge or end of interrupt of controller 0 that keeps the stacks
\* in order keeps the invariant.
LEMMA StackOpKeeps ==
    ASSUME IInv, NEW cs \in [VICS -> Controller],
           \A w \in VICS : Wires(ctl[w], cs[w]), StackInv(cs), Update(cs, 0),
           "migrate" \notin Ops => \A w \in VICS :
               DaisyEntries(cs[w]) # {} => cs[w].daisy_callback,
           depth' \in [VICS -> 0 .. MaxNest],
           \A w \in VICS \ {0} : depth'[w] = 0,
           cs[0].stack_i <= depth'[0],
           "reset" \notin Ops => cs[0].stack_i = depth'[0],
           UNCHANGED aborted
    PROVE  /\ IInv'
           /\ \A w \in VICS : Kept(ctl[w], ctl'[w]) /\ ctl'[w].current = cs[w].current
<1>1. ctl \in [VICS -> Controller] /\ 0 \in VICS /\ StackInv(ctl)
  BY ChainAssumption DEF IInv, TypeOK, VICS
<1>2. \A w \in VICS : w # 0 /\ Preempts(cs[w]) => Preempts(ctl[w])
  <2> TAKE w \in VICS
  <2> HAVE w # 0 /\ Preempts(cs[w])
  <2>1. StackOK(cs[w]) /\ SlaveOK(cs[w]) /\ StackOK(ctl[w]) /\ SlaveOK(ctl[w])
    BY <1>1 DEF StackInv
  <2>2. cs[w].current_highest = ctl[w].current_highest
    BY DEF Wires
  <2>3. cs[w] \in Controller /\ ctl[w] \in Controller
    BY <1>1
  <2> QED BY <2>1, <2>2, <2>3, SlavePreempts
<1>3. /\ WalkInv(Started(cs, 0))
      /\ WalkLinked(AtRest(ctl, irq, fiq)) => WalkLinked(Started(cs, 0))
      /\ WalkDelivers(AtRest(ctl, irq, fiq)) => WalkDelivers(Started(cs, 0))
      /\ WalkVectors(Started(cs, 0))
  <2>1. \A w \in VICS : /\ cs[w].daisy_input = ctl[w].daisy_input
                        /\ cs[w].daisy_callback = ctl[w].daisy_callback
                        /\ cs[w].fiq_status = ctl[w].fiq_status
                        /\ cs[w].current_highest = ctl[w].current_highest
                        /\ cs[w].daisy_vectaddr = ctl[w].daisy_vectaddr
    BY DEF Wires
  <2>2. WalkInv(AtRest(ctl, irq, fiq)) /\ WalkVectors(AtRest(ctl, irq, fiq))
    BY DEF IInv
  <2> QED BY <1>1, <1>2, <2>1, <2>2, StartsSettled
<1>4. /\ WalkInv(AtRest(ctl', irq', fiq'))
      /\ \A w \in VICS : Frame(cs[w], ctl'[w])
      /\ WalkDelivers(Started(cs, 0)) => WalkDelivers(AtRest(ctl', irq', fiq'))
      /\ WalkLinked(Started(cs, 0)) => WalkLinked(AtRest(ctl', irq', fiq'))
      /\ WalkVectors(Started(cs, 0)) /\ SlavesOK(Started(cs, 0)) =>
            WalkVectors(AtRest(ctl', irq', fiq'))
      /\ VIC_N = 1 => fiq' = (ctl'[0].fiq_status # {})
      /\ ctl' \in [VICS -> Controller] /\ irq' \in BOOLEAN /\ fiq' \in BOOLEAN
  BY <1>1, <1>3, UpdateSettles
<1>5. StackInv(ctl') /\ \A w \in VICS : DaisyEntries(ctl'[w]) = DaisyEntries(cs[w])
  BY <1>4, FrameStacks
<1>6. ctl'[0].stack_i = cs[0].stack_i
  BY <1>1, <1>4 DEF Frame
<1>7. TypeOK'
  BY <1>4 DEF IInv, TypeOK
<1>8. ASSUME "migrate" \notin Ops PROVE CallbackInv(ctl')
  <2>1. WalkLinked(AtRest(ctl, irq, fiq))
    BY <1>8 DEF IInv, CallbackInv, WalkLinked, AtRest
  <2>2. \A w \in VICS : Linked(ctl'[w])
    BY <1>3, <1>4, <2>1 DEF WalkLinked, AtRest
  <2>3. \A w \in VICS : cs[w].daisy_callback => ctl'[w].daisy_callback
    BY <1>1, <1>3, UpdateKeepsCallback
  <2> QED BY <1>5, <1>8, <2>2, <2>3 DEF CallbackInv
<1>9. WalkVectors(AtRest(ctl', irq', fiq'))
  BY <1>3, <1>4 DEF StackInv, SlavesOK, Started
<1>10. \A w \in VICS : Kept(ctl[w], ctl'[w]) /\ ctl'[w].current = cs[w].current
  BY <1>4 DEF Kept, Wires, Frame
<1> QED BY <1>3, <1>4, <1>5, <1>6, <1>7, <1>8, <1>9, <1>10 DEF IInv

\* An abort changes nothing else, and takes a reset or a migration.
LEMMA AbortKeeps ==
    ASSUME IInv, Abort, "reset" \in Ops \/ "migrate" \in Ops
    PROVE  IInv' /\ aborted' /\ \A w \in VICS : Kept(ctl[w], ctl'[w])
<1>1. ctl' = ctl /\ irq' = irq /\ fiq' = fiq /\ depth' = depth /\ aborted' = TRUE
  BY DEF Abort
<1>2. TypeOK'
  BY <1>1 DEF IInv, TypeOK
<1>3. AtRest(ctl', irq', fiq') = AtRest(ctl, irq, fiq)
  BY <1>1
<1> QED BY <1>1, <1>2, <1>3 DEF IInv, Kept

\* A controller has at most as many daisy entries as entries.
LEMMA EntriesBound ==
    ASSUME NEW c \in Controller
    PROVE  /\ IsFiniteSet(DaisyEntries(c))
           /\ Cardinality(DaisyEntries(c)) \in Nat
           /\ Cardinality(DaisyEntries(c)) <= c.stack_i
<1>1. c.stack_i \in Nat
  BY DEF Controller
<1>2. IsFiniteSet(1 .. c.stack_i) /\ Cardinality(1 .. c.stack_i) = c.stack_i
  BY <1>1, FS_Interval
<1>3. DaisyEntries(c) \in SUBSET (1 .. c.stack_i)
  BY DEF DaisyEntries
<1>4. /\ IsFiniteSet(DaisyEntries(c))
      /\ Cardinality(DaisyEntries(c)) <= Cardinality(1 .. c.stack_i)
  BY <1>2, <1>3, FS_Subset
<1> QED BY <1>2, <1>4, FS_CardinalityType

\* The next controller takes part in an acknowledge with room on its stack.
LEMMA SlaveRoom ==
    ASSUME IInv, ctl[0].daisy_callback
    PROVE  /\ 1 \in VICS /\ 1 # 0
           /\ ctl[1].stack_i = Cardinality(DaisyEntries(ctl[0]))
           /\ ctl[1].stack_i <= ctl[0].stack_i
<1>1. 0 \in VICS /\ 1 - 1 = 0 /\ 0 + 1 = 1
  BY ChainAssumption DEF VICS
<1>2. 1 \in VICS
  BY <1>1 DEF IInv, WalkInv, AtRest
<1>3. ctl[1].stack_i = Cardinality(DaisyEntries(ctl[0]))
  BY <1>1, <1>2 DEF IInv, StackInv
<1>4. ctl[0] \in Controller
  BY <1>1 DEF IInv, TypeOK
<1> QED BY <1>2, <1>3, <1>4, EntriesBound

\* An acknowledge of controller 0.
LEMMA AckKeeps ==
    ASSUME IInv, ~aborted, depth[0] < MaxNest, ctl[0].stack_i < PRIO_LEVELS,
           pl192_irq_ack(0)
    PROVE  /\ IInv'
           /\ \A w \in VICS : Kept(ctl[w], ctl'[w])
           /\ aborted' \/ ctl'[0].current = ctl[0].current_highest
<1> DEFINE c == ctl[0]
           ch == c.current_highest
           m0 == pl192_mask_priority([c EXCEPT !.current = ch])
           own == [ctl EXCEPT ![0] = m0]
<1> USE SizeAssumption
<1>1. /\ 0 \in VICS /\ ctl \in [VICS -> Controller] /\ StackInv(ctl)
      /\ depth \in [VICS -> 0 .. MaxNest] /\ MaxNest \in Nat
      /\ \A w \in VICS \ {0} : depth[w] = 0
  BY ChainAssumption, GuestAssumption DEF IInv, TypeOK, VICS
<1>2. c \in Controller /\ StackOK(c) /\ c.stack_i \in Nat /\ ch \in Irqs
  BY <1>1 DEF StackInv, Controller
<1>3. c.stack_i <= depth[0] /\ c.stack_i < PRIO_LEVELS /\ c.stack_i < INT_SOURCES
  BY <1>1, <1>2 DEF IInv
<1>4. ~MaskFails(c)
  BY <1>2, <1>3 DEF MaskFails
<1>5. /\ m0 \in Controller /\ Wires(c, m0) /\ StackOK(m0)
      /\ m0.stack_i = c.stack_i + 1
      /\ \A k \in 0 .. c.stack_i : m0.irq_stack[k] = c.irq_stack[k]
      /\ m0.irq_stack[c.stack_i + 1] = ch /\ m0.current = ch
  <2>1. /\ m0 \in Controller /\ Wires(c, m0) /\ StackOK(m0)
        /\ m0.stack_i = c.stack_i + 1
        /\ \A k \in 0 .. c.stack_i : m0.irq_stack[k] = c.irq_stack[k]
        /\ m0.irq_stack[c.stack_i + 1] = ch
    BY <1>2, <1>3, MaskFacts
  <2> HIDE DEF m0
  <2> QED BY <2>1 DEF StackOK
<1>6. DaisyEntries(m0) = IF ch = DAISY
                         THEN DaisyEntries(c) \cup {c.stack_i + 1}
                         ELSE DaisyEntries(c)
  <2> HIDE DEF m0, ch
  <2> QED BY <1>2, <1>5 DEF DaisyEntries
<1>7. "migrate" \notin Ops =>
          /\ \A w \in VICS : DaisyEntries(ctl[w]) # {} => ctl[w].daisy_callback
          /\ ch = DAISY => c.daisy_callback
  BY <1>1 DEF IInv, CallbackInv, Linked
<1>8. CASE Abort
  <2>1. ch = DAISY /\ CallbackFails(0, MaskFails)
    BY <1>1, <1>2, <1>4, <1>8
    DEF pl192_irq_ack, Abort, Update
  <2>2. ~c.daisy_callback
    <3>1. SUFFICES ASSUME c.daisy_callback PROVE FALSE
      OBVIOUS
    <3>2. ctl[1].stack_i <= c.stack_i /\ 1 \in VICS
      BY <3>1, SlaveRoom
    <3>3. ctl[1].stack_i \in Nat
      BY <1>1, <3>2 DEF Controller
    <3>4. ~MaskFails(ctl[1])
      BY <1>2, <1>3, <3>2, <3>3 DEF MaskFails
    <3>5. 0 + 1 = 1
      OBVIOUS
    <3> QED BY <2>1, <3>1, <3>4, <3>5 DEF CallbackFails
  <2>3. "migrate" \in Ops
    BY <1>7, <2>1, <2>2
  <2> QED BY <1>8, <2>3, AbortKeeps
<1>9. CASE ~Abort /\ ch # DAISY
  <2>1. Update(own, 0) /\ depth' = [depth EXCEPT ![0] = @ + 1] /\ UNCHANGED aborted
    BY <1>9 DEF pl192_irq_ack
  <2> HIDE DEF m0
  <2>2. /\ own \in [VICS -> Controller] /\ own[0] = m0
        /\ \A w \in VICS \ {0} : own[w] = ctl[w]
    BY <1>1, <1>5
  <2> HIDE DEF own
  <2>3. \A w \in VICS : Wires(ctl[w], own[w])
    BY <1>5, <2>2 DEF Wires
  <2>4. \A w \in VICS : DaisyEntries(own[w]) = DaisyEntries(ctl[w])
    BY <1>6, <1>9, <2>2
  <2>5. StackInv(own)
    <3>1. \A w \in VICS : StackOK(own[w])
      BY <1>1, <1>5, <2>2 DEF StackInv
    <3>2. \A w \in VICS \ {0} : w - 1 \in VICS
      BY ChainAssumption DEF VICS
    <3> QED BY <1>1, <2>2, <2>4, <3>1, <3>2 DEF StackInv
  <2>6. "migrate" \notin Ops => \A w \in VICS :
            DaisyEntries(own[w]) # {} => own[w].daisy_callback
    BY <1>7, <2>3, <2>4 DEF Wires
  <2>7. /\ depth' \in [VICS -> 0 .. MaxNest] /\ depth'[0] = depth[0] + 1
        /\ \A w \in VICS \ {0} : depth'[w] = 0
    BY <1>1, <2>1
  <2>8. /\ own[0].stack_i <= depth'[0]
        /\ "reset" \notin Ops => own[0].stack_i = depth'[0]
    BY <1>1, <1>2, <1>3, <1>5, <2>2, <2>7 DEF IInv
  <2>9. own[0].current = ch
    BY <1>5, <2>2
  <2> QED BY <1>1, <2>1, <2>2, <2>3, <2>5, <2>6, <2>7, <2>8, <2>9, StackOpKeeps
<1>10. CASE ~Abort /\ ch = DAISY
  <2> DEFINE s == ctl[1]
             m1 == pl192_mask_priority(s)
             both == [own EXCEPT ![1] = m1]
  <2>1. /\ c.daisy_callback /\ depth' = [depth EXCEPT ![0] = @ + 1]
        /\ UNCHANGED aborted
    BY <1>10 DEF pl192_irq_ack, CallbackFails
  <2>2. /\ 1 \in VICS /\ 1 # 0 /\ s.stack_i = Cardinality(DaisyEntries(c))
        /\ s.stack_i <= c.stack_i
    BY <2>1, SlaveRoom
  <2>3. s \in Controller /\ StackOK(s) /\ SlaveOK(s) /\ s.stack_i \in Nat
    BY <1>1, <2>2 DEF StackInv, Controller
  <2>4. s.current = NO_IRQ /\ NO_IRQ \in Irqs /\ DaisyEntries(s) = {}
    BY <2>3, SlavePreempts DEF Irqs
  <2>5. [s EXCEPT !.current = NO_IRQ] = s
    BY <2>3, <2>4 DEF Controller
  <2>6. /\ m1 \in Controller /\ Wires(s, m1) /\ StackOK(m1)
        /\ m1.stack_i = s.stack_i + 1
        /\ \A k \in 0 .. s.stack_i : /\ m1.irq_stack[k] = s.irq_stack[k]
                                     /\ m1.priority_stack[k] = s.priority_stack[k]
        /\ m1.irq_stack[s.stack_i + 1] = NO_IRQ
        /\ m1.priority_stack[s.stack_i + 1] >= PRIO_LEVELS
    <3>1. s.stack_i < PRIO_LEVELS
      BY <1>2, <1>3, <2>2, <2>3
    <3> HIDE DEF s
    <3> QED BY <2>3, <2>4, <2>5, <3>1, MaskFacts
  <2>7. both = [own EXCEPT ![1] = pl192_mask_priority(@)]
    BY <1>1, <2>2
  <2>8. Update(both, 0)
    <3>1. Update([own EXCEPT ![0 + 1] = pl192_mask_priority(@)], 0)
      BY <1>10 DEF pl192_irq_ack
    <3> HIDE DEF own, m1
    <3> QED BY <2>7, <3>1
  <2> HIDE DEF m0, m1, s
  <2>9. SlaveOK(m1)
    BY <2>3, <2>6 DEF SlaveOK
  <2>10. /\ both \in [VICS -> Controller] /\ both[0] = m0 /\ both[1] = m1
         /\ \A w \in VICS \ {0, 1} : both[w] = ctl[w]
    BY <1>1, <1>5, <2>2, <2>6
  <2> HIDE DEF both
  <2>11. \A w \in VICS : Wires(ctl[w], both[w])
    BY <1>5, <2>6, <2>10 DEF Wires, s
  <2>12. DaisyEntries(m1) = {} /\ \A w \in VICS \ {0} : DaisyEntries(both[w]) = DaisyEntries(ctl[w])
    <3>1. DaisyEntries(m1) = {}
      BY <2>6, <2>9, SlavePreempts
    <3> QED BY <2>4, <2>10, <3>1 DEF s
  <2>13. m1.stack_i = Cardinality(DaisyEntries(m0))
    <3>1. IsFiniteSet(DaisyEntries(c)) /\ c.stack_i + 1 \notin DaisyEntries(c)
      BY <1>2, EntriesBound DEF DaisyEntries
    <3>2. Cardinality(DaisyEntries(c) \cup {c.stack_i + 1})
            = Cardinality(DaisyEntries(c)) + 1
      BY <3>1, FS_AddElement
    <3> QED BY <1>6, <1>10, <2>2, <2>6, <3>2
  <2>14. StackInv(both)
    <3>1. \A w \in VICS : StackOK(both[w])
      BY <1>1, <1>5, <2>6, <2>10 DEF StackInv
    <3>2. \A w \in VICS \ {0} : SlaveOK(both[w])
      BY <1>1, <2>9, <2>10 DEF StackInv
    <3>3. ASSUME NEW w \in VICS \ {0}
          PROVE  both[w].stack_i = Cardinality(DaisyEntries(both[w - 1]))
      <4>1. CASE w = 1
        BY <2>10, <2>13, <4>1
      <4>2. CASE w # 1
        <5>1. w - 1 \in VICS \ {0}
          BY <4>2, ChainAssumption DEF VICS
        <5> QED BY <1>1, <2>10, <2>12, <4>2, <5>1 DEF StackInv
      <4> QED BY <4>1, <4>2
    <3> QED BY <3>1, <3>2, <3>3 DEF StackInv
  <2>15. "migrate" \notin Ops => \A w \in VICS :
            DaisyEntries(both[w]) # {} => both[w].daisy_callback
    BY <1>1, <1>7, <2>1, <2>11, <2>12 DEF Wires
  <2>16. /\ depth' \in [VICS -> 0 .. MaxNest] /\ depth'[0] = depth[0] + 1
         /\ \A w \in VICS \ {0} : depth'[w] = 0
    BY <1>1, <2>1
  <2>17. /\ both[0].stack_i <= depth'[0]
         /\ "reset" \notin Ops => both[0].stack_i = depth'[0]
    BY <1>1, <1>2, <1>3, <1>5, <2>10, <2>16 DEF IInv
  <2>18. both[0].current = ch
    BY <1>5, <2>10
  <2> QED BY <1>1, <2>1, <2>8, <2>10, <2>11, <2>14, <2>15, <2>16, <2>17, <2>18, StackOpKeeps
<1> QED BY <1>8, <1>9, <1>10

\* The end of an interrupt of controller 0.
LEMMA FinKeeps ==
    ASSUME IInv, ~aborted, depth[0] > 0, pl192_irq_fin(0)
    PROVE  IInv' /\ \A w \in VICS : Kept(ctl[w], ctl'[w])
<1> DEFINE c == ctl[0]
           m0 == pl192_unmask_priority(c)
           own == [ctl EXCEPT ![0] = m0]
<1> USE SizeAssumption
<1>1. /\ 0 \in VICS /\ ctl \in [VICS -> Controller] /\ StackInv(ctl)
      /\ depth \in [VICS -> 0 .. MaxNest] /\ MaxNest \in Nat
      /\ \A w \in VICS \ {0} : depth[w] = 0
  BY ChainAssumption, GuestAssumption DEF IInv, TypeOK, VICS
<1>2. c \in Controller /\ StackOK(c) /\ c.stack_i \in Nat
  BY <1>1 DEF StackInv, Controller
<1>3. c.stack_i <= depth[0] /\ ("reset" \notin Ops => c.stack_i >= 1)
  BY <1>1, <1>2 DEF IInv
<1>4. /\ c.stack_i >= 1 /\ c.current = DAISY => c.stack_i \in DaisyEntries(c)
      /\ c.current # DAISY => c.stack_i \notin DaisyEntries(c)
  BY <1>2 DEF StackOK, DaisyEntries
<1>5. "migrate" \notin Ops => \A w \in VICS :
          DaisyEntries(ctl[w]) # {} => ctl[w].daisy_callback
  BY DEF IInv, CallbackInv
<1>6. CASE Abort
  <2>1. UnmaskFails(c) \/ (c.current = DAISY /\ CallbackFails(0, UnmaskFails))
    BY <1>1, <1>6 DEF pl192_irq_fin, Abort, Update
  <2>2. ASSUME "reset" \notin Ops, "migrate" \notin Ops PROVE FALSE
    <3>1. c.stack_i >= 1 /\ ~UnmaskFails(c)
      BY <1>2, <1>3, <2>2 DEF UnmaskFails
    <3>2. c.stack_i \in DaisyEntries(c) /\ c.daisy_callback
      BY <1>1, <1>4, <1>5, <2>1, <2>2, <3>1
    <3>3. ctl[1].stack_i = Cardinality(DaisyEntries(c)) /\ 0 + 1 = 1
      BY <3>2, SlaveRoom
    <3>4. Cardinality(DaisyEntries(c)) \in Nat \ {0}
      BY <1>2, <3>2, EntriesBound, FS_EmptySet
    <3>5. ~UnmaskFails(ctl[1])
      BY <3>3, <3>4 DEF UnmaskFails
    <3> QED BY <2>1, <3>1, <3>2, <3>3, <3>5 DEF CallbackFails
  <2> QED BY <1>6, <2>2, AbortKeeps
<1>7. ASSUME ~Abort
      PROVE  /\ c.stack_i >= 1
             /\ m0 \in Controller /\ Wires(c, m0) /\ StackOK(m0)
             /\ m0.stack_i = c.stack_i - 1
             /\ DaisyEntries(m0) = DaisyEntries(c) \ {c.stack_i}
             /\ depth' = [depth EXCEPT ![0] = @ - 1] /\ UNCHANGED aborted
             /\ depth' \in [VICS -> 0 .. MaxNest] /\ depth'[0] = depth[0] - 1
             /\ \A w \in VICS \ {0} : depth'[w] = 0
             /\ c.stack_i - 1 <= depth'[0]
             /\ "reset" \notin Ops => c.stack_i - 1 = depth'[0]
  <2>1. /\ ~UnmaskFails(c) /\ depth' = [depth EXCEPT ![0] = @ - 1]
        /\ UNCHANGED aborted
    BY <1>7 DEF pl192_irq_fin
  <2>2. c.stack_i >= 1
    BY <1>2, <2>1 DEF UnmaskFails
  <2>3. /\ m0 \in Controller /\ Wires(c, m0) /\ StackOK(m0)
        /\ m0.stack_i = c.stack_i - 1 /\ m0.irq_stack = c.irq_stack
    BY <1>2, <2>2, UnmaskFacts
  <2> HIDE DEF m0
  <2>4. DaisyEntries(m0) = DaisyEntries(c) \ {c.stack_i}
    BY <1>2, <2>2, <2>3 DEF DaisyEntries
  <2>5. /\ depth' \in [VICS -> 0 .. MaxNest] /\ depth'[0] = depth[0] - 1
        /\ \A w \in VICS \ {0} : depth'[w] = 0
    BY <1>1, <2>1
  <2>6. "reset" \notin Ops => c.stack_i = depth[0]
    BY DEF IInv
  <2>7. /\ c.stack_i - 1 <= depth'[0]
        /\ "reset" \notin Ops => c.stack_i - 1 = depth'[0]
    BY <1>1, <1>2, <1>3, <2>5, <2>6
  <2> QED BY <2>1, <2>2, <2>3, <2>4, <2>5, <2>7
<1>8. CASE ~Abort /\ c.current # DAISY
  <2>1. Update(own, 0)
    BY <1>8 DEF pl192_irq_fin
  <2> HIDE DEF m0
  <2>2. /\ own \in [VICS -> Controller] /\ own[0] = m0
        /\ \A w \in VICS \ {0} : own[w] = ctl[w]
    BY <1>1, <1>7, <1>8
  <2> HIDE DEF own
  <2>3. \A w \in VICS : Wires(ctl[w], own[w])
    BY <1>7, <1>8, <2>2 DEF Wires
  <2>4. \A w \in VICS : DaisyEntries(own[w]) = DaisyEntries(ctl[w])
    BY <1>4, <1>7, <1>8, <2>2
  <2>5. StackInv(own)
    <3>1. \A w \in VICS : StackOK(own[w])
      BY <1>1, <1>7, <1>8, <2>2 DEF StackInv
    <3>2. \A w \in VICS \ {0} : w - 1 \in VICS
      BY ChainAssumption DEF VICS
    <3> QED BY <1>1, <2>2, <2>4, <3>1, <3>2 DEF StackInv
  <2>6. "migrate" \notin Ops => \A w \in VICS :
            DaisyEntries(own[w]) # {} => own[w].daisy_callback
    BY <1>5, <2>3, <2>4 DEF Wires
  <2> QED BY <1>7, <1>8, <2>1, <2>2, <2>3, <2>5, <2>6, StackOpKeeps
<1>9. CASE ~Abort /\ c.current = DAISY
  <2> DEFINE s == ctl[1]
             m1 == pl192_unmask_priority(s)
             both == [own EXCEPT ![1] = m1]
  <2>1. c.daisy_callback /\ ~(ctl[0 + 1].stack_i < 1)
    BY <1>9 DEF pl192_irq_fin, CallbackFails, UnmaskFails
  <2>2. 1 \in VICS /\ 1 # 0 /\ s.stack_i = Cardinality(DaisyEntries(c))
    BY <2>1, SlaveRoom
  <2>3. /\ s \in Controller /\ StackOK(s) /\ SlaveOK(s) /\ s.stack_i \in Nat
        /\ s.stack_i >= 1
    <3>1. s \in Controller /\ StackOK(s) /\ SlaveOK(s) /\ 0 + 1 = 1
      BY <1>1, <2>2 DEF StackInv
    <3>2. s.stack_i \in Nat
      BY <3>1 DEF Controller
    <3> QED BY <2>1, <3>1, <3>2
  <2>4. DaisyEntries(s) = {}
    BY <2>3, SlavePreempts
  <2>5. /\ m1 \in Controller /\ Wires(s, m1) /\ StackOK(m1)
        /\ m1.stack_i = s.stack_i - 1 /\ m1.irq_stack = s.irq_stack
        /\ m1.priority_stack = s.priority_stack
    BY <2>3, UnmaskFacts
  <2>6. both = [own EXCEPT ![1] = pl192_unmask_priority(@)]
    BY <1>1, <2>2
  <2>7. Update(both, 0)
    <3>1. Update([own EXCEPT ![0 + 1] = pl192_unmask_priority(@)], 0)
      BY <1>9 DEF pl192_irq_fin
    <3> HIDE DEF own, m1
    <3> QED BY <2>6, <3>1
  <2> HIDE DEF m0, m1, s
  <2>8. SlaveOK(m1)
    BY <2>3, <2>5 DEF SlaveOK
  <2>9. /\ both \in [VICS -> Controller] /\ both[0] = m0 /\ both[1] = m1
        /\ \A w \in VICS \ {0, 1} : both[w] = ctl[w]
    BY <1>1, <1>7, <1>9, <2>2, <2>5
  <2> HIDE DEF both
  <2>10. \A w \in VICS : Wires(ctl[w], both[w])
    BY <1>7, <1>9, <2>5, <2>9 DEF Wires, s
  <2>11. \A w \in VICS \ {0} : DaisyEntries(both[w]) = DaisyEntries(ctl[w])
    <3>1. DaisyEntries(m1) = {}
      BY <2>5, <2>8, SlavePreempts
    <3> QED BY <2>4, <2>9, <3>1 DEF s
  <2>12. m1.stack_i = Cardinality(DaisyEntries(m0))
    <3>1. IsFiniteSet(DaisyEntries(c)) /\ c.stack_i \in DaisyEntries(c)
      BY <1>2, <1>4, <1>7, <1>9, EntriesBound
    <3>2. Cardinality(DaisyEntries(c) \ {c.stack_i})
            = Cardinality(DaisyEntries(c)) - 1
      BY <3>1, FS_RemoveElement
    <3> QED BY <1>7, <1>9, <2>2, <2>5, <3>2
  <2>13. StackInv(both)
    <3>1. \A w \in VICS : StackOK(both[w])
      BY <1>1, <1>7, <1>9, <2>5, <2>9 DEF StackInv
    <3>2. \A w \in VICS \ {0} : SlaveOK(both[w])
      BY <1>1, <2>8, <2>9 DEF StackInv
    <3>3. ASSUME NEW w \in VICS \ {0}
          PROVE  both[w].stack_i = Cardinality(DaisyEntries(both[w - 1]))
      <4>1. CASE w = 1
        BY <2>9, <2>12, <4>1
      <4>2. CASE w # 1
        <5>1. w - 1 \in VICS \ {0}
          BY <4>2, ChainAssumption DEF VICS
        <5> QED BY <1>1, <2>9, <2>11, <4>2, <5>1 DEF StackInv
      <4> QED BY <4>1, <4>2
    <3> QED BY <3>1, <3>2, <3>3 DEF StackInv
  <2>14. "migrate" \notin Ops => \A w \in VICS :
            DaisyEntries(both[w]) # {} => both[w].daisy_callback
    BY <1>1, <1>5, <2>1, <2>10, <2>11 DEF Wires
  <2>15. both[0].stack_i = c.stack_i - 1
    BY <1>7, <1>9, <2>9
  <2> QED BY <1>7, <1>9, <2>7, <2>9, <2>10, <2>13, <2>14, <2>15, StackOpKeeps
<1> QED BY <1>6, <1>8, <1>9

\* What pl192_reset assigns and keeps.
LEMMA ResetFacts ==
    ASSUME NEW c \in Controller
    PROVE  /\ Reset(c) \in Controller
           /\ StackOK(Reset(c)) /\ SlaveOK(Reset(c))
           /\ Reset(c).stack_i = 0
           /\ Reset(c).current_highest = NO_IRQ
           /\ Reset(c).rawintr = c.rawintr
           /\ Reset(c).softint = c.softint
           /\ Reset(c).intenable = c.intenable
           /\ Reset(c).intselect = c.intselect
           /\ Reset(c).irq_status = c.irq_status
           /\ Reset(c).fiq_status = c.fiq_status
           /\ Reset(c).daisy_input = c.daisy_input
           /\ Reset(c).daisy_callback = c.daisy_callback
<1> USE SizeAssumption
<1> DEFINE vp == [i \in Sources |-> PRIO_LEVELS - 1]
           ps == [c.priority_stack EXCEPT ![0] = PRIO_LEVELS]
           is == [c.irq_stack EXCEPT ![0] = NO_IRQ]
<1>1. c \in Controller
  OBVIOUS
<1>2. /\ vp \in [Sources -> Levels] /\ PRIO_LEVELS - 1 \in Levels
      /\ NO_IRQ \in Irqs /\ 0 \in Nat /\ PRIO_LEVELS \in Nat
      /\ Levels \in SUBSET Levels
  BY DEF Levels, Irqs
<1>3. /\ ps \in [0 .. PRIO_LEVELS -> Nat] /\ is \in [0 .. PRIO_LEVELS -> Irqs]
      /\ ps[0] = PRIO_LEVELS /\ is[0] = NO_IRQ
  BY <1>1, <1>2 DEF Controller
<1>4. Reset(c) = [c EXCEPT !.vect_priority = vp, !.sw_priority_mask = Levels,
                           !.daisy_priority = PRIO_LEVELS - 1,
                           !.current = NO_IRQ, !.current_highest = NO_IRQ,
                           !.stack_i = 0, !.priority_stack = ps,
                           !.irq_stack = is, !.priority = PRIO_LEVELS]
  BY DEF Reset
<1> DEFINE top == PRIO_LEVELS - 1
           d == [c EXCEPT !.vect_priority = vp, !.sw_priority_mask = Levels,
                          !.daisy_priority = top, !.current = NO_IRQ]
<1> HIDE DEF vp, ps, is, top
<1>5. Reset(c) \in Controller
  <2>1. d \in Controller
    BY <1>1, <1>2 DEF Controller, top
  <2>2. Reset(c) = [d EXCEPT !.current_highest = NO_IRQ, !.stack_i = 0,
                             !.priority_stack = ps, !.irq_stack = is,
                             !.priority = PRIO_LEVELS]
    BY <1>1, <1>4 DEF Controller, top
  <2> HIDE DEF d
  <2> QED BY <1>2, <1>3, <2>1, <2>2 DEF Controller
<1>6. /\ Reset(c).current = NO_IRQ /\ Reset(c).current_highest = NO_IRQ
      /\ Reset(c).stack_i = 0 /\ Reset(c).priority_stack = ps
      /\ Reset(c).irq_stack = is /\ Reset(c).priority = PRIO_LEVELS
  BY <1>1, <1>4 DEF Controller
<1>7. /\ Reset(c).rawintr = c.rawintr /\ Reset(c).softint = c.softint
      /\ Reset(c).intenable = c.intenable /\ Reset(c).intselect = c.intselect
      /\ Reset(c).irq_status = c.irq_status
      /\ Reset(c).fiq_status = c.fiq_status
      /\ Reset(c).daisy_input = c.daisy_input
      /\ Reset(c).daisy_callback = c.daisy_callback
  BY <1>1, <1>4 DEF Controller
<1>8. StackOK(Reset(c)) /\ SlaveOK(Reset(c))
  BY <1>3, <1>6 DEF StackOK, SlaveOK
<1> QED BY <1>5, <1>6, <1>7, <1>8

\* system_reset of the chain, whatever the guest is doing.
LEMMA ResetKeeps ==
    ASSUME IInv, pl192_reset
    PROVE  IInv'
<1> USE SizeAssumption
<1>1. /\ ctl' = [v \in VICS |-> Reset(ctl[v])] /\ "reset" \in Ops
      /\ irq' = irq /\ fiq' = fiq /\ depth' = depth /\ aborted' = aborted
  BY DEF pl192_reset
<1>2. 0 \in VICS /\ ctl \in [VICS -> Controller] /\ depth[0] \in Nat
  BY ChainAssumption, GuestAssumption DEF IInv, TypeOK, VICS
<1>3. ASSUME NEW v \in VICS
      PROVE  /\ Reset(ctl[v]) \in Controller
             /\ StackOK(Reset(ctl[v])) /\ SlaveOK(Reset(ctl[v]))
             /\ Reset(ctl[v]).stack_i = 0
             /\ Reset(ctl[v]).current_highest = NO_IRQ
             /\ Reset(ctl[v]).rawintr = ctl[v].rawintr
             /\ Reset(ctl[v]).softint = ctl[v].softint
             /\ Reset(ctl[v]).intenable = ctl[v].intenable
             /\ Reset(ctl[v]).intselect = ctl[v].intselect
             /\ Reset(ctl[v]).irq_status = ctl[v].irq_status
             /\ Reset(ctl[v]).fiq_status = ctl[v].fiq_status
             /\ Reset(ctl[v]).daisy_input = ctl[v].daisy_input
             /\ Reset(ctl[v]).daisy_callback = ctl[v].daisy_callback
  BY <1>2, ResetFacts
<1>4. ctl' \in [VICS -> Controller] /\ \A v \in VICS : ctl'[v] = Reset(ctl[v])
  BY <1>1, <1>3
<1>5. \A v \in VICS : DaisyEntries(ctl'[v]) = {}
  BY <1>3, <1>4 DEF DaisyEntries
<1>6. TypeOK'
  BY <1>1, <1>4 DEF IInv, TypeOK
<1>7. StackInv(ctl')
  <2>1. \A v \in VICS \ {0} : v - 1 \in VICS
    BY ChainAssumption DEF VICS
  <2> QED BY <1>3, <1>4, <1>5, <2>1, FS_EmptySet DEF StackInv
<1>8. WalkInv(AtRest(ctl', irq', fiq'))
  <2> DEFINE a == AtRest(ctl, irq, fiq)
             b == AtRest(ctl', irq', fiq')
  <2>1. /\ a.ctl = ctl /\ a.irq = irq /\ a.fiq = fiq /\ a.at = -1
        /\ b.ctl = ctl' /\ b.irq = irq /\ b.fiq = fiq /\ b.at = -1
    BY <1>1 DEF AtRest
  <2>2. WalkInv(a)
    BY DEF IInv
  <2>3. b \in Walk
    BY <1>1, <1>4, <2>2 DEF WalkInv, Walk, AtRest
  <2> HIDE DEF a, b
  <2>4. \A v \in VICS : OutOf(b, v) = OutOf(a, v)
    <3>1. \A v \in VICS : v # 0 => v - 1 \in VICS
      BY ChainAssumption DEF VICS
    <3> QED BY <1>3, <1>4, <2>1, <3>1 DEF OutOf
  <2>5. ASSUME NEW v \in VICS, Settled(a, v) PROVE Settled(b, v)
    BY <1>3, <1>4, <2>1, <2>4, <2>5
    DEF Settled, IrqStatus, FiqStatus, Quiet
  <2> QED BY <1>3, <1>4, <2>1, <2>2, <2>3, <2>5 DEF WalkInv, b
<1>9. "migrate" \notin Ops => CallbackInv(ctl')
  <2>1. DAISY # NO_IRQ
    BY DEF DAISY, NO_IRQ
  <2> QED BY <1>3, <1>4, <1>5, <2>1 DEF IInv, CallbackInv, Linked
<1>10. ctl'[0].stack_i <= depth'[0]
  BY <1>1, <1>2, <1>3, <1>4
<1>11. WalkVectors(AtRest(ctl', irq', fiq'))
  <2>1. NO_IRQ \notin Sources /\ NO_IRQ # DAISY
    BY DEF NO_IRQ, DAISY, Sources
  <2>2. \A v \in VICS : ctl[v].daisy_input => v + 1 \in VICS
    BY DEF IInv, WalkVectors, AtRest
  <2> QED BY <1>3, <1>4, <2>1, <2>2 DEF WalkVectors, Vectored, AtRest
<1>12. VIC_N = 1 => fiq' = (ctl'[0].fiq_status # {})
  BY <1>1, <1>2, <1>3, <1>4 DEF IInv
<1> QED BY <1>1, <1>6, <1>7, <1>8, <1>9, <1>10, <1>11, <1>12 DEF IInv

\* Save and load of the chain, whatever the guest is doing.
LEMMA MigrateKeeps ==
    ASSUME IInv, pl192_save_load
    PROVE  IInv'
<1>1. /\ ctl' = [v \in VICS |-> [ctl[v] EXCEPT !.daisy_callback = FALSE]]
      /\ "migrate" \in Ops
      /\ irq' = irq /\ fiq' = fiq /\ depth' = depth /\ aborted' = aborted
  BY DEF pl192_save_load
<1>2. 0 \in VICS /\ ctl \in [VICS -> Controller]
  BY ChainAssumption DEF IInv, TypeOK, VICS
<1> DEFINE b(c) == [c EXCEPT !.daisy_callback = FALSE]
<1>3. ASSUME NEW c \in Controller
      PROVE  /\ b(c) \in Controller /\ Frame(c, b(c))
             /\ b(c).irq_status = c.irq_status
             /\ b(c).fiq_status = c.fiq_status
             /\ b(c).current_highest = c.current_highest
             /\ b(c).daisy_input = c.daisy_input
             /\ b(c).address = c.address /\ b(c).daisy_vectaddr = c.daisy_vectaddr
             /\ ~b(c).daisy_callback
  BY DEF Controller, Frame
<1>4. ctl' \in [VICS -> Controller] /\ \A v \in VICS : ctl'[v] = b(ctl[v])
  BY <1>1, <1>2, <1>3
<1> HIDE DEF b
<1>5. ASSUME NEW v \in VICS
      PROVE  /\ Frame(ctl[v], ctl'[v])
             /\ ctl'[v].irq_status = ctl[v].irq_status
             /\ ctl'[v].fiq_status = ctl[v].fiq_status
             /\ ctl'[v].current_highest = ctl[v].current_highest
             /\ ctl'[v].daisy_input = ctl[v].daisy_input
             /\ ctl'[v].address = ctl[v].address
             /\ ctl'[v].daisy_vectaddr = ctl[v].daisy_vectaddr
             /\ ~ctl'[v].daisy_callback
  <2>1. ctl'[v] = b(ctl[v]) /\ ctl[v] \in Controller
    BY <1>2, <1>4
  <2> QED BY <2>1, <1>3, Zenon
<1>6. TypeOK'
  BY <1>1, <1>4 DEF IInv, TypeOK
<1>7. StackInv(ctl') /\ ctl'[0].stack_i = ctl[0].stack_i
  <2>1. \A v \in VICS : Frame(ctl[v], ctl'[v])
    BY <1>5
  <2>2. ctl'[0].stack_i = ctl[0].stack_i
    BY <1>2, <2>1 DEF Frame
  <2>3. StackInv(ctl)
    BY DEF IInv
  <2> QED BY <2>1, <2>2, <2>3, FrameStacks
<1> DEFINE p == AtRest(ctl, irq, fiq)
           q == AtRest(ctl', irq', fiq')
<1>8. /\ p.ctl = ctl /\ p.irq = irq /\ p.fiq = fiq /\ p.at = -1
      /\ q.ctl = ctl' /\ q.irq = irq /\ q.fiq = fiq /\ q.at = -1
  BY <1>1 DEF AtRest
<1>9. WalkInv(p)
  BY DEF IInv
<1>10. q \in Walk
  BY <1>1, <1>4, <1>9 DEF WalkInv, Walk, AtRest
<1> HIDE DEF p, q
<1>11. \A v \in VICS : OutOf(q, v) = OutOf(p, v) /\ v # -1
  <2>1. \A v \in VICS : v # -1 /\ (v # 0 => v - 1 \in VICS)
    BY ChainAssumption DEF VICS
  <2> QED BY <1>5, <1>8, <2>1 DEF OutOf
<1>12. ASSUME NEW v \in VICS, Settled(p, v) PROVE Settled(q, v)
  BY <1>5, <1>8, <1>11, <1>12
  DEF Settled, IrqStatus, FiqStatus, Quiet, Frame
<1>13. WalkInv(q)
  BY <1>5, <1>8, <1>9, <1>10, <1>12 DEF WalkInv
<1>14. ASSUME WalkDelivers(p) PROVE WalkDelivers(q)
  <2> SUFFICES ASSUME NEW v \in VICS PROVE Delivered(q, v)
    BY DEF WalkDelivers
  <2>1. Delivered(p, v)
    BY <1>8, <1>11, <1>14 DEF WalkDelivers
  <2>2. /\ pl192_priority_sorter(ctl'[v]) = pl192_priority_sorter(ctl[v])
        /\ Quiet(ctl'[v]) <=> Quiet(ctl[v])
    BY <1>2, <1>4, <1>5, SorterDepends DEF Frame, Quiet
  <2>3. Preempts(ctl'[v]) <=> Preempts(ctl[v])
    BY <1>5 DEF Preempts, Prio, Frame
  <2> QED BY <1>5, <1>8, <1>11, <2>1, <2>2, <2>3 DEF Delivered
<1>15. WalkVectors(q)
  <2>1. WalkVectors(p)
    BY DEF IInv, p
  <2>2. \A v \in VICS : Vectored(ctl'[v])
    BY <1>5, <1>8, <1>11, <2>1 DEF WalkVectors, Vectored, Frame
  <2>3. \A v \in VICS \ {0} : v - 1 \in VICS
    BY ChainAssumption DEF VICS
  <2>4. \A v \in VICS \ {0} : ctl'[v].current_highest # NO_IRQ =>
           ctl'[v - 1].daisy_vectaddr = ctl'[v].address
    BY <1>5, <1>8, <1>11, <2>1, <2>3 DEF WalkVectors
  <2>5. \A v \in VICS : ctl'[v].daisy_input \/ ctl'[v].current_highest = DAISY =>
           v + 1 \in VICS
    BY <1>5, <1>8, <2>1 DEF WalkVectors
  <2> QED BY <1>8, <2>2, <2>4, <2>5 DEF WalkVectors
<1>16. VIC_N = 1 => fiq' = (ctl'[0].fiq_status # {})
  BY <1>1, <1>2, <1>5 DEF IInv
<1> QED BY <1>1, <1>6, <1>7, <1>13, <1>14, <1>15, <1>16 DEF IInv, p, q

\* A chain that shows nothing, has no inputs and serves nothing.
LEMMA IdleHolds ==
    ASSUME ctl \in [VICS -> Controller], depth = [v \in VICS |-> 0],
           irq = FALSE, fiq = FALSE, aborted = FALSE,
           \A v \in VICS :
              /\ StackOK(ctl[v]) /\ SlaveOK(ctl[v]) /\ ctl[v].stack_i = 0
              /\ ctl[v].current_highest = NO_IRQ
              /\ ctl[v].rawintr = {} /\ ctl[v].softint = {}
              /\ ctl[v].irq_status = {} /\ ctl[v].fiq_status = {}
              /\ ~ctl[v].daisy_input /\ ~ctl[v].daisy_callback
    PROVE  IInv
<1> USE SizeAssumption
<1>1. 0 \in VICS /\ MaxNest \in Nat /\ \A v \in VICS \ {0} : v - 1 \in VICS
  BY ChainAssumption, GuestAssumption DEF VICS
<1>2. NO_IRQ \notin Sources /\ NO_IRQ # DAISY
  BY DEF NO_IRQ, DAISY, Sources
<1>3. \A v \in VICS : /\ IrqStatus(ctl[v]) = {} /\ FiqStatus(ctl[v]) = {}
                      /\ Quiet(ctl[v]) /\ ~Preempts(ctl[v])
  BY DEF IrqStatus, FiqStatus, Quiet, Preempts
<1>4. \A v \in VICS : DaisyEntries(ctl[v]) = {} /\ Linked(ctl[v])
  BY <1>2 DEF DaisyEntries, Linked
<1>bits. irq \in BOOLEAN /\ fiq \in BOOLEAN /\ aborted \in BOOLEAN
  BY Zenon
<1>nest. depth \in [VICS -> 0 .. MaxNest]
  BY <1>1
<1>5. TypeOK
  BY <1>bits, <1>nest DEF TypeOK
<1>6. StackInv(ctl)
  BY <1>1, <1>4, FS_EmptySet DEF StackInv
<1> DEFINE a == AtRest(ctl, irq, fiq)
<1>7. a \in Walk /\ a.ctl = ctl /\ ~a.irq /\ ~a.fiq /\ a.at = -1
  <2>1. \A i, f \in BOOLEAN : AtRest(ctl, i, f) \in Walk
    BY ChainAssumption DEF AtRest, Walk
  <2>2. a \in Walk
    BY <1>bits, <2>1, Zenon
  <2> QED BY <2>2 DEF AtRest
<1> HIDE DEF a
<1>8. \A v \in VICS : ~OutOf(a, v)
  BY <1>1, <1>7 DEF OutOf
<1>9. WalkInv(a)
  BY <1>3, <1>7, <1>8 DEF WalkInv, Settled
<1>10. WalkDelivers(a)
  BY <1>3, <1>7, <1>8 DEF WalkDelivers, Delivered
<1>11. CallbackInv(ctl)
  BY <1>4 DEF CallbackInv
<1>12. WalkVectors(a)
  BY <1>2, <1>7 DEF WalkVectors, Vectored
<1>13. fiq = (ctl[0].fiq_status # {})
  BY <1>1
<1> QED BY <1>1, <1>5, <1>6, <1>9, <1>10, <1>11, <1>12, <1>13 DEF IInv, a

\* The allocation that a controller is reset from.
LEMMA ZeroedFacts ==
    /\ Zeroed \in Controller
    /\ Zeroed.rawintr = {} /\ Zeroed.softint = {} /\ Zeroed.irq_status = {}
    /\ Zeroed.fiq_status = {} /\ ~Zeroed.daisy_input /\ ~Zeroed.daisy_callback
<1>1. 0 \in Levels /\ 0 \in Irqs
  BY SizeAssumption DEF Levels, Irqs, Sources
<1>2. Zeroed \in Controller
  BY <1>1, SizeAssumption, GuestAssumption DEF Zeroed, Controller
<1> QED BY <1>2 DEF Zeroed

\* The chain as s5l8930_init leaves it.
LEMMA InitHolds ==
    ASSUME Init
    PROVE  IInv
<1> DEFINE r == Reset(Zeroed)
<1>1. /\ r \in Controller /\ StackOK(r) /\ SlaveOK(r) /\ r.stack_i = 0
      /\ r.current_highest = NO_IRQ /\ r.rawintr = {} /\ r.softint = {}
      /\ r.irq_status = {} /\ r.fiq_status = {} /\ ~r.daisy_input /\ ~r.daisy_callback
  BY ZeroedFacts, ResetFacts
<1> HIDE DEF r
<1>2. /\ ctl \in [VICS -> Controller] /\ \A v \in VICS : ctl[v] = r
      /\ irq = FALSE /\ fiq = FALSE /\ aborted = FALSE
      /\ depth = [v \in VICS |-> 0]
  BY <1>1 DEF Init, r
<1> QED BY <1>1, <1>2, IdleHolds

\* Every register write and input line is a WriteKeeps.
LEMMA WritesKeep ==
    ASSUME IInv, NEW op, NEW v \in VICS, NEW c \in Controller,
           Programmed(ctl[v], c), Write(op, v, c)
    PROVE  /\ IInv'
           /\ \A w \in VICS : Frame(IF w = v THEN c ELSE ctl[w], ctl'[w])
BY WriteKeeps DEF Write

\* Every step of a disciplined guest and of the devices keeps the invariant.
LEMMA NextKeeps ==
    ASSUME Disciplined, IInv, [Next]_vars
    PROVE  IInv'
<1>1. /\ 0 \in VICS /\ \A v \in VICS : ctl[v] \in Controller
      /\ Masks \subseteq SUBSET Sources
  BY ChainAssumption, GuestAssumption DEF IInv, TypeOK, VICS, Sources
<1>2. ASSUME NEW v \in VICS, NEW i \in Sources, NEW level \in BOOLEAN,
             pl192_irq_handler(v, i, level)
      PROVE  IInv'
  <2> DEFINE c == ctl[v]
             f == IF level THEN c.rawintr \cup {i} ELSE c.rawintr \ {i}
             d == [c EXCEPT !.rawintr = f]
  <2>1. c \in Controller /\ f \in SUBSET Sources
    BY <1>1 DEF Controller
  <2>2. Write("line", v, d)
    BY <1>2 DEF pl192_irq_handler
  <2> HIDE DEF c, f
  <2>3. d \in Controller /\ Programmed(c, d)
    BY <2>1 DEF Controller, Programmed
  <2> HIDE DEF d
  <2> QED BY <2>2, <2>3, WritesKeep DEF c
<1>3. ASSUME NEW v \in VICS, NEW m \in Masks,
             WriteIntSelect(v, m)
      PROVE  IInv'
  <2> DEFINE c == ctl[v]
             f == m
             d == [c EXCEPT !.intselect = f]
  <2>1. c \in Controller /\ f \in SUBSET Sources
    BY <1>1 DEF Controller
  <2>2. Write("intselect", v, d)
    BY <1>3 DEF WriteIntSelect
  <2> HIDE DEF c, f
  <2>3. d \in Controller /\ Programmed(c, d)
    BY <2>1 DEF Controller, Programmed
  <2> HIDE DEF d
  <2> QED BY <2>2, <2>3, WritesKeep DEF c
<1>4. ASSUME NEW v \in VICS, NEW m \in Masks,
             WriteIntEnable(v, m)
      PROVE  IInv'
  <2> DEFINE c == ctl[v]
             f == c.intenable \cup m
             d == [c EXCEPT !.intenable = f]
  <2>1. c \in Controller /\ f \in SUBSET Sources
    BY <1>1 DEF Controller
  <2>2. Write("intenable", v, d)
    BY <1>4 DEF WriteIntEnable
  <2> HIDE DEF c, f
  <2>3. d \in Controller /\ Programmed(c, d)
    BY <2>1 DEF Controller, Programmed
  <2> HIDE DEF d
  <2> QED BY <2>2, <2>3, WritesKeep DEF c
<1>5. ASSUME NEW v \in VICS, NEW m \in Masks,
             WriteIntEnClear(v, m)
      PROVE  IInv'
  <2> DEFINE c == ctl[v]
             f == c.intenable \ m
             d == [c EXCEPT !.intenable = f]
  <2>1. c \in Controller /\ f \in SUBSET Sources
    BY <1>1 DEF Controller
  <2>2. Write("intenclear", v, d)
    BY <1>5 DEF WriteIntEnClear
  <2> HIDE DEF c, f
  <2>3. d \in Controller /\ Programmed(c, d)
    BY <2>1 DEF Controller, Programmed
  <2> HIDE DEF d
  <2> QED BY <2>2, <2>3, WritesKeep DEF c
<1>6. ASSUME NEW v \in VICS, NEW m \in Masks,
             WriteSoftInt(v, m)
      PROVE  IInv'
  <2> DEFINE c == ctl[v]
             f == c.softint \cup m
             d == [c EXCEPT !.softint = f]
  <2>1. c \in Controller /\ f \in SUBSET Sources
    BY <1>1 DEF Controller
  <2>2. Write("softint", v, d)
    BY <1>6 DEF WriteSoftInt
  <2> HIDE DEF c, f
  <2>3. d \in Controller /\ Programmed(c, d)
    BY <2>1 DEF Controller, Programmed
  <2> HIDE DEF d
  <2> QED BY <2>2, <2>3, WritesKeep DEF c
<1>7. ASSUME NEW v \in VICS, NEW m \in Masks,
             WriteSoftIntClear(v, m)
      PROVE  IInv'
  <2> DEFINE c == ctl[v]
             f == c.softint \ m
             d == [c EXCEPT !.softint = f]
  <2>1. c \in Controller /\ f \in SUBSET Sources
    BY <1>1 DEF Controller
  <2>2. Write("softintclear", v, d)
    BY <1>7 DEF WriteSoftIntClear
  <2> HIDE DEF c, f
  <2>3. d \in Controller /\ Programmed(c, d)
    BY <2>1 DEF Controller, Programmed
  <2> HIDE DEF d
  <2> QED BY <2>2, <2>3, WritesKeep DEF c
<1>8. ASSUME NEW v \in VICS, NEW ls \in SUBSET Levels,
             WriteSwPriorityMask(v, ls)
      PROVE  IInv'
  <2> DEFINE c == ctl[v]
             f == ls
             d == [c EXCEPT !.sw_priority_mask = f]
  <2>1. c \in Controller /\ f \in SUBSET Levels
    BY <1>1 DEF Controller
  <2>2. Write("swprioritymask", v, d)
    BY <1>8 DEF WriteSwPriorityMask
  <2> HIDE DEF c, f
  <2>3. d \in Controller /\ Programmed(c, d)
    BY <2>1 DEF Controller, Programmed
  <2> HIDE DEF d
  <2> QED BY <2>2, <2>3, WritesKeep DEF c
<1>9. ASSUME NEW v \in VICS, NEW p \in Levels,
             WritePriorityDaisy(v, p)
      PROVE  IInv'
  <2> DEFINE c == ctl[v]
             f == p
             d == [c EXCEPT !.daisy_priority = f]
  <2>1. c \in Controller /\ f \in Levels
    BY <1>1 DEF Controller
  <2>2. Write("prioritydaisy", v, d)
    BY <1>9 DEF WritePriorityDaisy
  <2> HIDE DEF c, f
  <2>3. d \in Controller /\ Programmed(c, d)
    BY <2>1 DEF Controller, Programmed
  <2> HIDE DEF d
  <2> QED BY <2>2, <2>3, WritesKeep DEF c
<1>10. ASSUME NEW v \in VICS, NEW i \in Sources, NEW p \in Levels,
             WriteVectPriority(v, i, p)
      PROVE  IInv'
  <2> DEFINE c == ctl[v]
             f == [c.vect_priority EXCEPT ![i] = p]
             d == [c EXCEPT !.vect_priority = f]
  <2>1. c \in Controller /\ f \in [Sources -> Levels]
    BY <1>1 DEF Controller
  <2>2. Write("vectpriority", v, d)
    BY <1>10 DEF WriteVectPriority
  <2> HIDE DEF c, f
  <2>3. d \in Controller /\ Programmed(c, d)
    BY <2>1 DEF Controller, Programmed
  <2> HIDE DEF d
  <2> QED BY <2>2, <2>3, WritesKeep DEF c
<1>11. ASSUME NEW v \in VICS, NEW i \in Sources, NEW a \in Addr,
             WriteVectAddr(v, i, a)
      PROVE  IInv'
  <2> DEFINE c == ctl[v]
             f == [c.vect_addr EXCEPT ![i] = a]
             d == [c EXCEPT !.vect_addr = f]
  <2>1. c \in Controller /\ f \in [Sources -> Addr]
    BY <1>1 DEF Controller
  <2>2. Write("vectaddr", v, d)
    BY <1>11 DEF WriteVectAddr
  <2> HIDE DEF c, f
  <2>3. d \in Controller /\ Programmed(c, d)
    BY <2>1 DEF Controller, Programmed
  <2> HIDE DEF d
  <2> QED BY <2>2, <2>3, WritesKeep DEF c
<1>12. depth[0] < MaxNest => ctl[0].stack_i < PRIO_LEVELS
  <2>1. /\ ctl[0].stack_i \in Nat /\ depth[0] \in Nat /\ MaxNest \in Nat
        /\ ctl[0].stack_i <= depth[0] /\ MaxNest <= PRIO_LEVELS
    BY <1>1, GuestAssumption DEF IInv, TypeOK, Controller, Disciplined
  <2> QED BY <2>1, SizeAssumption
<1>18. CASE TakeIrq
  BY <1>12, <1>18, AckKeeps DEF TakeIrq
<1>13. ASSUME NEW v \in VICS, PollVectAddr(v) PROVE IInv'
  <2>1. v = 0 /\ ~aborted /\ depth[v] < MaxNest /\ pl192_irq_ack(v)
    BY <1>13 DEF PollVectAddr, Disciplined
  <2> QED BY <1>12, <2>1, AckKeeps
<1>14. ASSUME NEW v \in VICS, WriteVectAddrEnd(v) PROVE IInv'
  <2>1. v = 0 /\ ~aborted /\ depth[v] > 0 /\ pl192_irq_fin(v)
    BY <1>14 DEF WriteVectAddrEnd, IInv
  <2> QED BY <2>1, FinKeeps
<1>15. CASE pl192_reset
  BY <1>15, ResetKeeps
<1>16. CASE pl192_save_load
  BY <1>16, MigrateKeeps
<1>17. CASE UNCHANGED vars
  <2>1. ctl' = ctl /\ irq' = irq /\ fiq' = fiq /\ depth' = depth /\ aborted' = aborted
    BY <1>17 DEF vars
  <2>2. TypeOK'
    BY <2>1 DEF IInv, TypeOK
  <2> QED BY <2>1, <2>2 DEF IInv
<1> QED BY <1>2, <1>3, <1>4, <1>5, <1>6, <1>7, <1>8, <1>9, <1>10, <1>11, <1>13,
           <1>14, <1>15, <1>16, <1>17, <1>18 DEF Next

-----------------------------------------------------------------------------
(* Theorems. *)

\* A guest that stays disciplined, on a device that is never reset or
\* migrated under it.
Undisturbed == Disciplined /\ "reset" \notin Ops /\ "migrate" \notin Ops

\* IInv is an invariant of pl192.c for every chain of up to four controllers.
THEOREM Inductive ==
    ASSUME Disciplined
    PROVE  Spec => []IInv
<1>1. Init => IInv
  BY InitHolds
<1>2. IInv /\ [Next]_vars => IInv'
  BY NextKeeps
<1> QED BY <1>1, <1>2, PTL DEF Spec

\* Registers, stacks and lines keep their types: in particular no stack
\* index of pl192_mask_priority leaves the arrays.
THEOREM TypeCorrect ==
    ASSUME Disciplined
    PROVE  Spec => []TypeOK
<1>1. IInv => TypeOK
  BY DEF IInv
<1> QED BY <1>1, Inductive, PTL

\* pl192_unmask_priority always finds what pl192_mask_priority saved, also
\* across resets and migrations.
THEOREM StackTopCorrect ==
    ASSUME Disciplined
    PROVE  Spec => []StackTop
<1>1. IInv => StackTop
  BY DEF IInv, StackInv, StackOK, StackTop
<1> QED BY <1>1, Inductive, PTL

\* The CPU's FIQ line is never up without an active FIQ source.
THEOREM FiqHasCause ==
    ASSUME Disciplined
    PROVE  Spec => []NoFiqWithoutCause
<1>1. ASSUME IInv PROVE NoFiqWithoutCause
  <2> DEFINE a == AtRest(ctl, irq, fiq)
  <2>1. a.ctl = ctl /\ a.fiq = fiq /\ a.at = -1 /\ WalkInv(a)
    BY <1>1 DEF AtRest, IInv
  <2>2. \A v \in VICS : v # -1
    BY DEF VICS
  <2> HIDE DEF a
  <2>3. \A v \in VICS : ctl[v].fiq_status = FiqStatus(ctl[v])
    BY <2>1, <2>2 DEF WalkInv, Settled
  <2> QED BY <2>1, <2>3 DEF WalkInv, NoFiqWithoutCause
<1> QED BY <1>1, Inductive, PTL

\* A controller on its own drives the FIQ line exactly, across resets and
\* migrations too.
THEOREM FiqExact ==
    ASSUME Disciplined, VIC_N = 1
    PROVE  Spec => []FiqLineExact
<1>1. ASSUME IInv PROVE FiqLineExact
  <2> DEFINE a == AtRest(ctl, irq, fiq)
  <2>1. a.ctl = ctl /\ a.at = -1 /\ WalkInv(a)
    BY <1>1 DEF AtRest, IInv
  <2>2. 0 \in VICS /\ 0 # -1
    BY ChainAssumption DEF VICS
  <2> HIDE DEF a
  <2>3. ctl[0].fiq_status = FiqStatus(ctl[0])
    BY <2>1, <2>2 DEF WalkInv, Settled
  <2> QED BY <1>1, <2>3 DEF IInv, FiqLineExact
<1> QED BY <1>1, Inductive, PTL

\* VECTADDR shows the address of the interrupt that won, handed on through
\* the chain, whatever is written while it is pending.
THEOREM VectorRight ==
    ASSUME Disciplined
    PROVE  Spec => []VectorOfWinner
<1>1. ASSUME IInv PROVE VectorOfWinner
  <2>1. WalkVectors(AtRest(ctl, irq, fiq)) /\ AtRest(ctl, irq, fiq).ctl = ctl
        /\ AtRest(ctl, irq, fiq).at = -1
    BY <1>1 DEF IInv, AtRest
  <2>2. \A v \in VICS : v # -1
    BY DEF VICS
  <2>3. ASSUME NEW v \in VICS, ctl[v].current_highest = DAISY,
               ctl[v + 1].current_highest # NO_IRQ
        PROVE  ctl[v].address = ctl[v + 1].address
    <3>1. v + 1 \in VICS /\ v + 1 # 0 /\ (v + 1) - 1 = v
      BY <2>1, <2>3, ChainAssumption DEF WalkVectors, VICS
    <3>2. ctl[v].daisy_vectaddr = ctl[v + 1].address
      BY <2>1, <2>2, <2>3, <3>1 DEF WalkVectors
    <3>3. ctl[v].address = ctl[v].daisy_vectaddr
      BY <2>1, <2>2, <2>3 DEF WalkVectors, Vectored
    <3> QED BY <3>2, <3>3
  <2> QED BY <2>1, <2>2, <2>3 DEF VectorOfWinner, WalkVectors, Vectored
<1> QED BY <1>1, Inductive, PTL

\* hw_error is never reached and no unset daisy_callback is used.
THEOREM AbortFree ==
    ASSUME Undisturbed
    PROVE  Spec => []NeverAborts
<1>1. IInv => NeverAborts
  BY DEF IInv, Undisturbed, NeverAborts
<1>2. Disciplined
  BY DEF Undisturbed
<1> QED BY <1>1, <1>2, Inductive, PTL

\* Every stack is as deep as the guest's nesting makes it.
THEOREM BalancedCorrect ==
    ASSUME Undisturbed
    PROVE  Spec => []StacksBalanced
<1>1. IInv => StacksBalanced
  BY DEF IInv, StackInv, Undisturbed, StacksBalanced
<1>2. Disciplined
  BY DEF Undisturbed
<1> QED BY <1>1, <1>2, Inductive, PTL

\* A controller with nothing to look at has no winner.
LEMMA QuietSorter ==
    ASSUME NEW c \in Controller, Quiet(c)
    PROVE  pl192_priority_sorter(c) = NO_IRQ
<1>1. Contenders(c) = {}
  BY SizeAssumption DEF Quiet, Contenders, DAISY, Sources
<1> QED BY <1>1, SorterPicks

\* What rest means, read off the invariant.
LEMMA RestFacts ==
    ASSUME "reset" \notin Ops, "migrate" \notin Ops, IInv, NEW v \in VICS
    PROVE  /\ ctl[v] \in Controller
           /\ ctl[v].irq_status = IrqStatus(ctl[v])
           /\ Quiet(ctl[v]) => ~Out(v)
           /\ ctl[v].current_highest = pl192_priority_sorter(ctl[v])
           /\ Preempts(ctl[v]) => Out(v)
           /\ ctl[v].daisy_input => v + 1 \in VICS
<1> DEFINE a == AtRest(ctl, irq, fiq)
<1>1. /\ a.ctl = ctl /\ a.irq = irq /\ a.at = -1
      /\ WalkInv(a) /\ WalkDelivers(a) /\ CallbackInv(ctl)
  BY DEF AtRest, IInv
<1>2. v # -1 /\ ctl[v] \in Controller
  BY DEF VICS, IInv, TypeOK
<1> HIDE DEF a
<1>3. Settled(a, v) /\ Delivered(a, v)
  BY <1>1, <1>2 DEF WalkInv, WalkDelivers
<1>4. OutOf(a, v) <=> Out(v)
  BY <1>1 DEF OutOf, Out
<1>5. ctl[v].daisy_input => v + 1 \in VICS
  BY <1>1 DEF WalkInv, CallbackInv, Linked
<1>6. ctl[v].current_highest = pl192_priority_sorter(ctl[v])
  BY <1>1, <1>2, <1>3, QuietSorter DEF Delivered
<1> QED BY <1>1, <1>2, <1>3, <1>4, <1>5, <1>6 DEF Settled, Delivered

\* With no level masked by software, whatever is active has a winner.
LEMMA ActiveWins ==
    ASSUME NEW c \in Controller, c.sw_priority_mask = Levels, ~Quiet(c)
    PROVE  pl192_priority_sorter(c) \in Sources \cup {DAISY}
<1>1. PICK i \in Sources \cup {DAISY} :
         i \in c.irq_status \/ (i = DAISY /\ c.daisy_input)
  BY DEF Quiet, Controller
<1>2. i \in Contenders(c)
  BY <1>1, PrioType DEF Contenders
<1> QED BY <1>2, SorterPicks DEF Contenders

\* When controller 0 serves nothing, no controller does.
LEMMA IdleStacks ==
    ASSUME NEW cs \in [VICS -> Controller], StackInv(cs), cs[0].stack_i = 0
    PROVE  \A v \in VICS : cs[v].stack_i = 0
<1>1. \A v \in VICS : DaisyEntries(cs[v]) = {}
  <2> TAKE v \in VICS
  <2>1. CASE v = 0
    BY <2>1 DEF DaisyEntries
  <2>2. CASE v # 0
    <3>1. cs[v] \in Controller /\ StackOK(cs[v]) /\ SlaveOK(cs[v])
      BY <2>2 DEF StackInv
    <3> QED BY <3>1, SlavePreempts
  <2> QED BY <2>1, <2>2
<1>2. \A v \in VICS \ {0} : v - 1 \in VICS
  BY ChainAssumption DEF VICS
<1> QED BY <1>1, <1>2, FS_EmptySet DEF StackInv

\* pl192_update loses no interrupt, whatever sequence of register writes,
\* line changes, acknowledges and ends of interrupt came before.
THEOREM NothingLost ==
    ASSUME Undisturbed
    PROVE  Spec => []NoLostInterrupt
<1>1. ASSUME IInv PROVE NoLostInterrupt
  BY <1>1, RestFacts DEF NoLostInterrupt, Preempts, Undisturbed
<1>2. Disciplined
  BY DEF Undisturbed
<1> QED BY <1>1, <1>2, Inductive, PTL

\* With nothing in service and no level masked, an active interrupt reaches
\* the CPU through the whole chain.
THEOREM IdleDelivery ==
    ASSUME Undisturbed
    PROVE  Spec => []IdleCpuSeesPending
<1>1. ASSUME IInv, depth[0] = 0,
             \A v \in VICS : ctl[v].sw_priority_mask = Levels,
             NEW u \in VICS, IrqStatus(ctl[u]) # {}
      PROVE  irq
  <2>1. \A v \in VICS : StackOK(ctl[v]) /\ ctl[v].stack_i = 0
    <3>1. \A v \in VICS : StackOK(ctl[v]) /\ ctl[v].stack_i \in Nat
      BY <1>1 DEF IInv, StackInv, StackOK
    <3>2. 0 \in VICS /\ ctl[0].stack_i = 0
      BY <1>1, ChainAssumption DEF IInv, Undisturbed, VICS
    <3>3. ctl \in [VICS -> Controller] /\ StackInv(ctl)
      BY <1>1 DEF IInv, TypeOK
    <3> QED BY <3>1, <3>2, <3>3, IdleStacks
  <2>2. ASSUME NEW v \in VICS, ~Quiet(ctl[v]) PROVE Out(v)
    <3> DEFINE c == ctl[v]
               h == c.current_highest
    <3>1. /\ c \in Controller /\ h = pl192_priority_sorter(c)
          /\ Preempts(c) => Out(v)
      BY <1>1, RestFacts DEF Undisturbed
    <3>2. c.current = NO_IRQ /\ c.priority = PRIO_LEVELS
      BY <2>1 DEF StackOK
    <3>5. h \in Sources \cup {DAISY}
      BY <1>1, <2>2, <3>1, ActiveWins
    <3>6. h # NO_IRQ /\ Prio(c, h) < PRIO_LEVELS
      <4>1. Prio(c, h) \in Levels
        BY <3>1, <3>5, PrioType
      <4> QED BY <3>5, <4>1, SizeAssumption DEF Levels, NO_IRQ, DAISY, Sources
    <3> QED BY <3>1, <3>2, <3>6 DEF Preempts
  <2>3. ~Quiet(ctl[u])
    BY <1>1, RestFacts DEF Quiet, Undisturbed
  <2>4. ASSUME NEW v \in VICS, v # 0, ~Quiet(ctl[v])
        PROVE  v - 1 \in VICS /\ ~Quiet(ctl[v - 1])
    BY <2>2, <2>4, ChainAssumption DEF Out, Quiet, VICS
  <2>5. 0 \in VICS /\ (u = 0 \/ u = 1 \/ u = 2 \/ u = 3)
    BY ChainAssumption DEF VICS
  <2>6. ~Quiet(ctl[0])
    <3>1. 3 - 1 = 2 /\ 2 - 1 = 1 /\ 1 - 1 = 0
      OBVIOUS
    <3>2. u = 3 => 2 \in VICS /\ ~Quiet(ctl[2])
      BY <2>3, <2>4, <3>1
    <3>3. u = 3 \/ u = 2 => 1 \in VICS /\ ~Quiet(ctl[1])
      BY <2>3, <2>4, <3>1, <3>2
    <3>4. u # 0 => ~Quiet(ctl[0])
      BY <2>3, <2>4, <2>5, <3>1, <3>3
    <3> QED BY <2>3, <3>4
  <2> QED BY <2>2, <2>5, <2>6 DEF Out
<1>2. IInv => IdleCpuSeesPending
  BY <1>1 DEF IdleCpuSeesPending
<1>3. Disciplined
  BY DEF Undisturbed
<1> QED BY <1>2, <1>3, Inductive, PTL

\* The CPU's IRQ line is never up when no controller has an active IRQ.
THEOREM IrqHasCause ==
    ASSUME Undisturbed
    PROVE  Spec => []NoIrqWithoutCause
<1>1. ASSUME IInv, \A v \in VICS : IrqStatus(ctl[v]) = {}
      PROVE  ~irq
  <2>1. ASSUME NEW v \in VICS, ~ctl[v].daisy_input PROVE ~Out(v)
    BY <1>1, <2>1, RestFacts DEF Quiet, Undisturbed
  <2>2. ASSUME NEW v \in VICS
        PROVE  /\ v = VIC_N - 1 => ~ctl[v].daisy_input
               /\ v # 0 /\ ~ctl[v].daisy_input => ~ctl[v - 1].daisy_input
    <3>1. v = VIC_N - 1 => ~ctl[v].daisy_input
      BY <1>1, RestFacts, ChainAssumption DEF VICS, Undisturbed
    <3>2. v # 0 /\ ~ctl[v].daisy_input => ~ctl[v - 1].daisy_input
      BY <2>1 DEF Out
    <3> QED BY <3>1, <3>2
  <2>3. ~ctl[0].daisy_input
    <3>1. 3 - 1 = 2 /\ 2 - 1 = 1 /\ 1 - 1 = 0 /\ 4 - 1 = 3
      OBVIOUS
    <3>2. CASE VIC_N = 1
      BY <2>2, <3>1, <3>2 DEF VICS
    <3>3. CASE VIC_N = 2
      BY <2>2, <3>1, <3>3 DEF VICS
    <3>4. CASE VIC_N = 3
      BY <2>2, <3>1, <3>4 DEF VICS
    <3>5. CASE VIC_N = 4
      BY <2>2, <3>1, <3>5 DEF VICS
    <3> QED BY <3>2, <3>3, <3>4, <3>5, ChainAssumption
  <2>4. 0 \in VICS
    BY ChainAssumption DEF VICS
  <2> QED BY <2>1, <2>3, <2>4 DEF Out
<1>2. IInv => NoIrqWithoutCause
  BY <1>1 DEF NoIrqWithoutCause
<1>3. Disciplined
  BY DEF Undisturbed
<1> QED BY <1>2, <1>3, Inductive, PTL

=============================================================================
