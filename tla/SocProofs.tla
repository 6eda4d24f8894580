------------------------------ MODULE SocProofs ------------------------------
(***************************************************************************)
(* Proofs about the interrupt path from the devices to the threads, for    *)
(* every set of deadlines and every width of the timer's interval.  The    *)
(* chain's own invariant, IInv of PL192Proofs, is one part of the one      *)
(* here: its lemmas about a write, an acknowledge and an end of interrupt  *)
(* are the steps of these proofs.                                          *)
(***************************************************************************)
EXTENDS Soc, PL192Proofs

\* The handlers' addresses as the guest has set them up.
VectorOf(v) == [i \in Sources |-> IF v = Vic["dma"] THEN "dma"
                                  ELSE IF i = Source["i2c"] THEN "i2c" ELSE "timer"]

Configured(cs) ==
    \A v \in VICS : cs[v].sw_priority_mask = Levels /\ cs[v].vect_addr = VectorOf(v)

Points == {"serve", "rearm", "clear", "end"}

\* What is known of the timer, the handler on the CPU and the sleeper.
GuestOk ==
    /\ timer1 \in [start : BOOLEAN, timer : Nat, left : Nat \cup {None}]
    /\ cpu \in {NoHandler} \cup [name : Addr, pc : Points]
    /\ nap \in [pc : {"run", "program", "wait"}, asleep : BOOLEAN, left : Nat]

\* The inductive invariant.
SocInv ==
    /\ IInv
    /\ Configured(ctl)
    /\ GuestOk
    /\ ServiceMatches
    /\ TimerLive

\* What controller 0 has in service when the named handler runs.
ServiceOf(name) == IF Vic[name] = 0 THEN Source[name] ELSE DAISY

\* d has the setup of c, and serves what c serves.
Serves(c, d) ==
    /\ d.sw_priority_mask = c.sw_priority_mask /\ d.vect_addr = c.vect_addr
    /\ d.current = c.current /\ d.stack_i = c.stack_i

-----------------------------------------------------------------------------
(* The devices' inputs. *)

\* The constants of this SoC.
LEMMA Wiring ==
    /\ VICS = {0, 1} /\ Sources = {0, 1} /\ DAISY = 2 /\ NO_IRQ = 3
    /\ Vic["timer"] = 0 /\ Vic["i2c"] = 0 /\ Vic["dma"] = 1
    /\ Source["timer"] = 0 /\ Source["i2c"] = 1 /\ Source["dma"] = 0
    /\ "reset" \notin Ops /\ "migrate" \notin Ops
    /\ VectorOf(0)[0] = "timer" /\ VectorOf(0)[1] = "i2c"
    /\ VectorOf(1)[0] = "dma" /\ VectorOf(1)[1] = "dma"
<1>1. VICS = {0, 1} /\ Sources = {0, 1} /\ DAISY = 2 /\ NO_IRQ = 3
  BY SocAssumption DEF VICS, Sources, DAISY, NO_IRQ
<1>2. /\ Vic["timer"] = 0 /\ Vic["i2c"] = 0 /\ Vic["dma"] = 1
      /\ Source["timer"] = 0 /\ Source["i2c"] = 1 /\ Source["dma"] = 0
  BY DEF Vic, Source
<1>3. "reset" \notin Ops /\ "migrate" \notin Ops
  BY SocAssumption
<1> QED BY <1>1, <1>2, <1>3 DEF VectorOf

\* A device raises or lowers its line.
LEMMA LineKeeps ==
    ASSUME IInv, NEW d \in Addr, NEW level \in BOOLEAN,
           pl192_irq_handler(Vic[d], Source[d], level)
    PROVE  /\ IInv'
           /\ \A w \in VICS : Serves(ctl[w], ctl'[w])
           /\ d # "timer" =>
                 (Source["timer"] \in ctl[0].rawintr => Source["timer"] \in ctl'[0].rawintr)
           /\ d = "timer" /\ level => Source["timer"] \in ctl'[0].rawintr
<1> DEFINE v == Vic[d]
           i == Source[d]
<1>1. d \in {"timer", "i2c", "dma"} /\ v \in VICS /\ i \in Sources /\ 0 \in VICS
  BY SocAssumption, Wiring
<1>2. /\ d = "timer" => v = 0 /\ i = Source["timer"]
      /\ d # "timer" => v # 0 \/ i # Source["timer"]
  BY <1>1, Wiring
<1> HIDE DEF v, i
<1> DEFINE f == IF level THEN ctl[v].rawintr \cup {i} ELSE ctl[v].rawintr \ {i}
           c == [ctl[v] EXCEPT !.rawintr = f]
<1>3. ctl[v] \in Controller /\ f \in SUBSET Sources
  BY <1>1 DEF IInv, TypeOK, Controller
<1>4. Write("line", v, c)
  BY DEF pl192_irq_handler, v, i
<1> HIDE DEF f
<1>5. /\ c \in Controller /\ Programmed(ctl[v], c) /\ c.rawintr = f
      /\ Serves(ctl[v], c)
  BY <1>3 DEF Controller, Programmed, Serves
<1> HIDE DEF c
<1>6. IInv' /\ \A w \in VICS : Frame(IF w = v THEN c ELSE ctl[w], ctl'[w])
  BY <1>1, <1>4, <1>5, WritesKeep
<1>7. \A w \in VICS : Serves(ctl[w], ctl'[w])
  BY <1>5, <1>6 DEF Frame, Serves
<1>8. ctl'[0].rawintr = IF 0 = v THEN f ELSE ctl[0].rawintr
  BY <1>1, <1>5, <1>6 DEF Frame
<1> QED BY <1>2, <1>6, <1>7, <1>8 DEF f

\* The guest masks or unmasks a device's source.
LEMMA EnableKeeps ==
    ASSUME IInv, NEW d \in Addr,
           \/ WriteIntEnable(Vic[d], {Source[d]})
           \/ WriteIntEnClear(Vic[d], {Source[d]})
    PROVE  /\ IInv'
           /\ \A w \in VICS : Serves(ctl[w], ctl'[w]) /\ ctl'[w].rawintr = ctl[w].rawintr
<1> DEFINE v == Vic[d]
           i == Source[d]
<1>1. v \in VICS /\ i \in Sources
  BY SocAssumption, Wiring
<1> HIDE DEF v, i
<1>2. ctl[v] \in Controller
  BY <1>1 DEF IInv, TypeOK
<1>3. PICK op \in {"intenable", "intenclear"} : \E f \in SUBSET Sources :
         Write(op, v, [ctl[v] EXCEPT !.intenable = f])
  <2>1. ctl[v].intenable \cup {i} \in SUBSET Sources
        /\ ctl[v].intenable \ {i} \in SUBSET Sources
    BY <1>1, <1>2 DEF Controller
  <2>2. \/ Write("intenable", v, [ctl[v] EXCEPT !.intenable = ctl[v].intenable \cup {i}])
        \/ Write("intenclear", v, [ctl[v] EXCEPT !.intenable = ctl[v].intenable \ {i}])
    BY DEF WriteIntEnable, WriteIntEnClear, v, i
  <2> QED BY <2>1, <2>2
<1>7. PICK f \in SUBSET Sources : Write(op, v, [ctl[v] EXCEPT !.intenable = f])
  BY <1>3
<1> DEFINE c == [ctl[v] EXCEPT !.intenable = f]
<1>4. /\ c \in Controller /\ Programmed(ctl[v], c)
      /\ Serves(ctl[v], c) /\ c.rawintr = ctl[v].rawintr
  BY <1>2 DEF Controller, Programmed, Serves
<1>5. Write(op, v, c)
  BY <1>7
<1> HIDE DEF c
<1>6. IInv' /\ \A w \in VICS : Frame(IF w = v THEN c ELSE ctl[w], ctl'[w])
  BY <1>1, <1>4, <1>5, WritesKeep
<1> QED BY <1>4, <1>6 DEF Frame, Serves

\* A step that leaves the controllers alone.
LEMMA SteadyKeeps ==
    ASSUME IInv, Steady
    PROVE  /\ IInv' /\ \A w \in VICS : Serves(ctl[w], ctl'[w])
           /\ ctl' = ctl
<1>1. ctl' = ctl /\ irq' = irq /\ fiq' = fiq /\ depth' = depth /\ aborted' = aborted
  BY DEF Steady, vars
<1>2. TypeOK'
  BY <1>1 DEF IInv, TypeOK
<1> QED BY <1>1, <1>2 DEF IInv, Serves

-----------------------------------------------------------------------------
(* The interrupt that wins and its handler. *)

\* While the line is up, VECTADDR names the handler of the winner: for an
\* interrupt from behind the daisy input, the one of the second controller.
LEMMA WinnerNamed ==
    ASSUME IInv, Configured(ctl), irq
    PROVE  ctl[0].current_highest = ServiceOf(ctl[0].address)
<1>1. /\ VICS = {0, 1} /\ Sources = {0, 1} /\ DAISY = 2 /\ NO_IRQ = 3
      /\ "reset" \notin Ops /\ "migrate" \notin Ops
  BY Wiring
<1>2. ASSUME NEW v \in VICS, Out(v)
      PROVE  /\ ctl[v] \in Controller
             /\ ctl[v].current_highest \in Sources \cup {DAISY}
             /\ ctl[v].current_highest = DAISY => ctl[v].daisy_input /\ v + 1 \in VICS
  <2>1. /\ ctl[v] \in Controller /\ ~Quiet(ctl[v])
        /\ ctl[v].current_highest = pl192_priority_sorter(ctl[v])
        /\ ctl[v].daisy_input => v + 1 \in VICS
    BY <1>1, <1>2, RestFacts
  <2>2. ctl[v].sw_priority_mask = Levels
    BY DEF Configured
  <2> QED BY <2>1, <2>2, ActiveWins, DaisyWins
<1>3. /\ \A v \in VICS : Vectored(ctl[v])
      /\ ctl[1].current_highest # NO_IRQ => ctl[0].daisy_vectaddr = ctl[1].address
  <2>1. WalkVectors(AtRest(ctl, irq, fiq)) /\ AtRest(ctl, irq, fiq).ctl = ctl
        /\ AtRest(ctl, irq, fiq).at = -1
    BY DEF IInv, AtRest
  <2>2. 1 \in VICS \ {0} /\ 1 - 1 = 0 /\ \A v \in VICS : v # -1
    BY <1>1
  <2> QED BY <2>1, <2>2 DEF WalkVectors
<1>4. 0 \in VICS /\ 1 \in VICS /\ 2 \notin VICS /\ 0 + 1 = 1 /\ 1 + 1 = 2 /\ 1 - 1 = 0
  BY <1>1
<1>5. Out(0)
  BY DEF Out
<1>6. CASE ctl[0].current_highest \in Sources
  <2>1. ctl[0].address = VectorOf(0)[ctl[0].current_highest]
    BY <1>3, <1>4, <1>6 DEF Vectored, Configured
  <2> QED BY <1>1, <1>6, <2>1, Wiring DEF ServiceOf
<1>7. CASE ctl[0].current_highest = DAISY
  <2>1. Out(1)
    BY <1>2, <1>4, <1>5, <1>7 DEF Out
  <2>2. ctl[1].current_highest \in Sources
    BY <1>2, <1>4, <2>1
  <2>3. ctl[1].address = VectorOf(1)[ctl[1].current_highest]
    BY <1>3, <1>4, <2>2 DEF Vectored, Configured
  <2>4. ctl[1].address = "dma"
    BY <1>1, <2>2, <2>3, Wiring
  <2>5. ctl[0].address = "dma"
    BY <1>1, <1>3, <1>4, <1>7, <2>2, <2>4 DEF Vectored
  <2> QED BY <1>7, <2>5, Wiring DEF ServiceOf
<1> QED BY <1>2, <1>4, <1>5, <1>6, <1>7

-----------------------------------------------------------------------------
(* The steps. *)

\* A step that changes neither setup nor service, and leaves the handler on
\* the CPU the same one.
LEMMA SameService ==
    ASSUME Configured(ctl), ServiceMatches,
           \A w \in VICS : Serves(ctl[w], ctl'[w]),
           \/ cpu' = cpu
           \/ /\ ~InThread /\ cpu' \in [name : Addr, pc : Points]
              /\ cpu'.name = cpu.name
    PROVE  Configured(ctl') /\ ServiceMatches'
<1>1. Configured(ctl')
  BY DEF Configured, Serves
<1>2. 0 \in VICS
  BY Wiring
<1>3. InThread' <=> InThread
  BY SocAssumption DEF InThread, NoHandler
<1>4. cpu'.name = cpu.name
  OBVIOUS
<1> QED BY <1>1, <1>2, <1>3, <1>4 DEF ServiceMatches, Serves

\* A step of a handler.
LEMMA HandlerStep ==
    ASSUME GuestOk, NEW name \in Addr, NEW pc, InHandler(name, pc),
           NEW to \in Points, HandlerAt(to)
    PROVE  /\ ~InThread /\ cpu' \in [name : Addr, pc : Points]
           /\ cpu'.name = cpu.name
<1>1. cpu = [name |-> name, pc |-> pc] /\ cpu' = [cpu EXCEPT !.pc = to]
  BY DEF InHandler, HandlerAt
<1>2. cpu' = [name |-> name, pc |-> to]
  BY <1>1
<1> QED BY <1>1, <1>2, SocAssumption DEF InThread, NoHandler

\* The registers of the timer.
LEMMA TimerWrites ==
    ASSUME GuestOk
    PROVE  /\ \A v \in SUBSET {"START", "MANUALUPDATE"} :
                 LET t == WriteTick(timer1, v)
                 IN  /\ t \in [start : BOOLEAN, timer : Nat, left : Nat \cup {None}]
                     /\ t.start => Pending(t)
           /\ \A n \in Nat \cup {Never} :
                 LET t == WriteTimer(timer1, n)
                 IN  /\ t \in [start : BOOLEAN, timer : Nat, left : Nat \cup {None}]
                     /\ t.start = timer1.start
                     /\ Pending(timer1) => Pending(t)
           /\ Elapsed(timer1) \in [start : BOOLEAN, timer : Nat, left : Nat \cup {None}]
           /\ Elapsed(timer1).start = timer1.start
           /\ Pending(timer1) => Pending(Elapsed(timer1))
           /\ st_tick(timer1) \in [start : BOOLEAN, timer : Nat, left : Nat \cup {None}]
           /\ st_tick(timer1).start = timer1.start
<1> DEFINE T == [start : BOOLEAN, timer : Nat, left : Nat \cup {None}]
<1>1. timer1 \in T /\ None \notin Nat /\ None = Never
  BY DEF GuestOk, None, Never
<1>2. \A n \in Nat : Interval(n) \in Nat
  BY TimerAssumption DEF Interval
<1>3. ASSUME NEW v \in SUBSET {"START", "MANUALUPDATE"}
      PROVE  WriteTick(timer1, v) \in T
             /\ (WriteTick(timer1, v).start => Pending(WriteTick(timer1, v)))
  <2> PICK b \in BOOLEAN : b <=> "START" \in v
    OBVIOUS
  <2>1. ("START" \in v) = b
    OBVIOUS
  <2>2. WriteTick(timer1, v) = [timer1 EXCEPT !.start = b,
                  !.left = IF b THEN Interval(timer1.timer) ELSE None]
    BY <2>1 DEF WriteTick
  <2>3. PICK l \in Nat \cup {None} : l = IF b THEN Interval(timer1.timer) ELSE None
    BY <1>1, <1>2
  <2>4. WriteTick(timer1, v) = [timer1 EXCEPT !.start = b, !.left = l]
    BY <2>2, <2>3
  <2>5. b => l \in Nat
    BY <1>1, <1>2, <2>3
  <2>6. /\ [timer1 EXCEPT !.start = b, !.left = l] \in T
        /\ [timer1 EXCEPT !.start = b, !.left = l].start = b
        /\ [timer1 EXCEPT !.start = b, !.left = l].left = l
    BY <1>1
  <2> QED BY <1>1, <2>4, <2>5, <2>6 DEF Pending
<1>4. ASSUME NEW n \in Nat \cup {Never}
      PROVE  /\ WriteTimer(timer1, n) \in T
             /\ WriteTimer(timer1, n).start = timer1.start
             /\ Pending(timer1) => Pending(WriteTimer(timer1, n))
  <2>1. CASE n = Never
    BY <1>1, <2>1 DEF WriteTimer, Pending
  <2>2. CASE n # Never
    <3>1. PICK l \in Nat \cup {None} : l = IF timer1.start THEN Interval(n) ELSE timer1.left
      BY <1>1, <1>2, <2>2
    <3>2. WriteTimer(timer1, n) = [timer1 EXCEPT !.timer = n, !.left = l]
      BY <2>2, <3>1 DEF WriteTimer
    <3>3. Pending(timer1) => l \in Nat
      BY <1>1, <1>2, <2>2, <3>1 DEF Pending
    <3>4. n \in Nat
      BY <2>2
    <3>5. /\ [timer1 EXCEPT !.timer = n, !.left = l] \in T
          /\ [timer1 EXCEPT !.timer = n, !.left = l].start = timer1.start
          /\ [timer1 EXCEPT !.timer = n, !.left = l].left = l
      BY <1>1, <3>4
    <3> QED BY <1>1, <3>2, <3>3, <3>5 DEF Pending
  <2> QED BY <2>1, <2>2
<1>5. /\ Elapsed(timer1) \in T /\ Elapsed(timer1).start = timer1.start
      /\ Pending(timer1) => Pending(Elapsed(timer1))
  <2>1. PICK l \in Nat \cup {None} : l = IF timer1.left > 0 THEN timer1.left - 1 ELSE timer1.left
    BY <1>1 DEF None
  <2>2. Elapsed(timer1) = [timer1 EXCEPT !.left = l]
    BY <2>1 DEF Elapsed
  <2> QED BY <1>1, <2>1, <2>2 DEF Pending
<1>6. st_tick(timer1) \in T /\ st_tick(timer1).start = timer1.start
  BY <1>1 DEF st_tick
<1> QED BY <1>3, <1>4, <1>5, <1>6

\* What a step may do to the timer and its line.
TimerKept ==
    /\ timer1'.start = timer1.start
    /\ Pending(timer1) => Pending(timer1')
    /\ Source["timer"] \in ctl[0].rawintr => Source["timer"] \in ctl'[0].rawintr

\* A timer that goes on, or that was started afresh, is not forgotten.
LEMMA LiveTimer ==
    ASSUME TimerLive, TimerKept \/ (timer1'.start => Pending(timer1'))
    PROVE  TimerLive'
<1>1. CASE TimerKept
  BY <1>1 DEF TimerLive, TimerKept
<1>2. CASE timer1'.start => Pending(timer1')
  BY <1>2 DEF TimerLive
<1> QED BY <1>1, <1>2

\* A tick of the first timer.
LEMMA TickKeeps ==
    ASSUME SocInv, Timer1Tick
    PROVE  SocInv'
<1>1. /\ IInv /\ Configured(ctl) /\ GuestOk /\ ServiceMatches /\ TimerLive
      /\ timer1' = st_tick(timer1) /\ cpu' = cpu /\ nap' = nap
      /\ IF timer1.start THEN Raise("timer") ELSE Steady
  BY DEF SocInv, Timer1Tick, guest
<1>2. "timer" \in Addr /\ TRUE \in BOOLEAN
  BY SocAssumption
<1>3. /\ IInv' /\ \A w \in VICS : Serves(ctl[w], ctl'[w])
      /\ timer1.start => Source["timer"] \in ctl'[0].rawintr
  BY <1>1, <1>2, LineKeeps, SteadyKeeps DEF Raise
<1>4. Configured(ctl') /\ ServiceMatches'
  BY <1>1, <1>3, SameService
<1>5. GuestOk' /\ timer1'.start = timer1.start
  BY <1>1, TimerWrites DEF GuestOk
<1>6. TimerLive'
  BY <1>3, <1>5 DEF TimerLive
<1> QED BY <1>3, <1>4, <1>5, <1>6 DEF SocInv

\* A write of the tick register, by a thread or by the timer's handler.
LEMMA WriteTick1Keeps ==
    ASSUME SocInv, NEW v \in SUBSET {"START", "MANUALUPDATE"}, WriteTick1(v),
           \/ cpu' = cpu
           \/ /\ ~InThread /\ cpu' \in [name : Addr, pc : Points]
              /\ cpu'.name = cpu.name,
           nap' \in [pc : {"run", "program", "wait"}, asleep : BOOLEAN, left : Nat]
    PROVE  SocInv'
<1>1. /\ IInv /\ Configured(ctl) /\ GuestOk /\ ServiceMatches /\ TimerLive
      /\ timer1' = WriteTick(timer1, v)
      /\ IF TickLowers(v) THEN Lower("timer") ELSE Steady
  BY DEF SocInv, WriteTick1
<1>2. "timer" \in Addr /\ FALSE \in BOOLEAN
  BY SocAssumption
<1>3. IInv' /\ \A w \in VICS : Serves(ctl[w], ctl'[w])
  BY <1>1, <1>2, LineKeeps, SteadyKeeps DEF Lower
<1>4. Configured(ctl') /\ ServiceMatches'
  BY <1>1, <1>3, SameService
<1>5. /\ timer1' \in [start : BOOLEAN, timer : Nat, left : Nat \cup {None}]
      /\ timer1'.start => Pending(timer1')
  BY <1>1, TimerWrites
<1>6. GuestOk'
  BY <1>1, <1>5 DEF GuestOk
<1>7. TimerLive'
  BY <1>1, <1>5, LiveTimer
<1> QED BY <1>3, <1>4, <1>6, <1>7 DEF SocInv

\* A step that leaves the controllers alone and only moves the timer on.
LEMMA QuietKeeps ==
    ASSUME SocInv, Steady,
           timer1' \in [start : BOOLEAN, timer : Nat, left : Nat \cup {None}],
           timer1'.start = timer1.start, Pending(timer1) => Pending(timer1'),
           \/ cpu' = cpu
           \/ /\ ~InThread /\ cpu' \in [name : Addr, pc : Points]
              /\ cpu'.name = cpu.name,
           nap' \in [pc : {"run", "program", "wait"}, asleep : BOOLEAN, left : Nat]
    PROVE  SocInv'
<1>1. IInv /\ Configured(ctl) /\ GuestOk /\ ServiceMatches /\ TimerLive
  BY DEF SocInv
<1>2. IInv' /\ ctl' = ctl /\ \A w \in VICS : Serves(ctl[w], ctl'[w])
  BY <1>1, SteadyKeeps
<1>3. Configured(ctl') /\ ServiceMatches'
  BY <1>1, <1>2, SameService
<1>4. GuestOk'
  BY <1>1 DEF GuestOk
<1>5. TimerLive'
  BY <1>1, <1>2, LiveTimer DEF TimerKept
<1> QED BY <1>2, <1>3, <1>4, <1>5 DEF SocInv

\* A write of the value register.
LEMMA WriteTimer1Keeps ==
    ASSUME SocInv, NEW n \in Nat \cup {Never}, WriteTimer1(n),
           \/ cpu' = cpu
           \/ /\ ~InThread /\ cpu' \in [name : Addr, pc : Points]
              /\ cpu'.name = cpu.name,
           nap' \in [pc : {"run", "program", "wait"}, asleep : BOOLEAN, left : Nat]
    PROVE  SocInv'
<1>1. GuestOk /\ timer1' = WriteTimer(timer1, n) /\ Steady
  BY DEF SocInv, WriteTimer1
<1>2. /\ timer1' \in [start : BOOLEAN, timer : Nat, left : Nat \cup {None}]
      /\ timer1'.start = timer1.start /\ (Pending(timer1) => Pending(timer1'))
  BY <1>1, TimerWrites
<1> QED BY <1>1, <1>2, QuietKeeps

\* A line of another device, or its source's enable bit.
LEMMA JobKeeps ==
    ASSUME SocInv, NEW d \in Jobs,
           \/ Raise(d) \/ Lower(d) \/ Steady
           \/ WriteIntEnable(Vic[d], {Source[d]})
           \/ WriteIntEnClear(Vic[d], {Source[d]}),
           timer1' = timer1, nap' = nap,
           \/ cpu' = cpu
           \/ /\ ~InThread /\ cpu' \in [name : Addr, pc : Points]
              /\ cpu'.name = cpu.name
    PROVE  SocInv'
<1>1. IInv /\ Configured(ctl) /\ GuestOk /\ ServiceMatches /\ TimerLive
  BY DEF SocInv
<1>2. d \in Addr /\ d # "timer" /\ TRUE \in BOOLEAN /\ FALSE \in BOOLEAN /\ 0 \in VICS
  BY SocAssumption, Wiring DEF Jobs
<1>3. /\ IInv' /\ \A w \in VICS : Serves(ctl[w], ctl'[w])
      /\ Source["timer"] \in ctl[0].rawintr => Source["timer"] \in ctl'[0].rawintr
  <2>1. CASE Raise(d)
    BY <1>1, <1>2, <2>1, LineKeeps DEF Raise
  <2>2. CASE Lower(d)
    BY <1>1, <1>2, <2>2, LineKeeps DEF Lower
  <2>3. CASE Steady
    BY <1>1, <2>3, SteadyKeeps
  <2>4. CASE WriteIntEnable(Vic[d], {Source[d]}) \/ WriteIntEnClear(Vic[d], {Source[d]})
    BY <1>1, <1>2, <2>4, EnableKeeps
  <2> QED BY <2>1, <2>2, <2>3, <2>4
<1>4. Configured(ctl') /\ ServiceMatches'
  BY <1>1, <1>3, SameService
<1>5. GuestOk'
  BY <1>1 DEF GuestOk
<1>6. TimerLive'
  BY <1>1, <1>3, LiveTimer DEF TimerKept
<1> QED BY <1>3, <1>4, <1>5, <1>6 DEF SocInv

\* The exception: the handler that VECTADDR named runs for the interrupt
\* that the acknowledge put in service.
LEMMA EnterKeeps ==
    ASSUME SocInv, NEW name \in Addr, Enter(name)
    PROVE  SocInv'
<1>1. /\ IInv /\ Configured(ctl) /\ GuestOk /\ ServiceMatches /\ TimerLive
      /\ InThread /\ irq /\ ctl[0].address = name
      /\ cpu' = [name |-> name, pc |-> "serve"] /\ timer1' = timer1 /\ nap' = nap
      /\ ~aborted /\ depth[0] < MaxNest /\ pl192_irq_ack(0)
  BY DEF SocInv, Enter, Exception, TakeIrq, devices
<1>2. 0 \in VICS /\ ctl[0].stack_i = 0 /\ depth[0] = 0
  BY <1>1, Wiring DEF ServiceMatches, IInv
<1>3. /\ IInv' /\ \A w \in VICS : Kept(ctl[w], ctl'[w])
      /\ aborted' \/ ctl'[0].current = ctl[0].current_highest
  BY <1>1, <1>2, SocAssumption, AckKeeps
<1>4. ~aborted'
  BY <1>3, Wiring DEF IInv
<1>5. depth' = [depth EXCEPT ![0] = @ + 1]
  BY <1>1, <1>4 DEF pl192_irq_ack, Abort
<1>6. ctl'[0].stack_i = 1
  <2>1. depth'[0] = 0 + 1
    BY <1>1, <1>2, <1>5 DEF IInv, TypeOK
  <2>2. ctl'[0].stack_i = depth'[0]
    BY <1>3, Wiring DEF IInv
  <2> QED BY <2>1, <2>2
<1>7. ctl'[0].current = ServiceOf(name)
  BY <1>1, <1>3, <1>4, WinnerNamed
<1>8. cpu'.name = name /\ ~InThread'
  BY <1>1, SocAssumption DEF InThread, NoHandler
<1>9. ServiceMatches'
  BY <1>6, <1>7, <1>8 DEF ServiceMatches, ServiceOf
<1>10. Configured(ctl')
  BY <1>1, <1>3 DEF Configured, Kept
<1>11. GuestOk'
  <2>1. cpu' \in [name : Addr, pc : Points]
    BY <1>1 DEF Points
  <2> QED BY <1>1, <2>1 DEF GuestOk
<1>12. TimerLive'
  BY <1>1, <1>2, <1>3, LiveTimer DEF TimerKept, Kept
<1> QED BY <1>3, <1>9, <1>10, <1>11, <1>12 DEF SocInv

\* The end of the handler: nothing is left in service.
LEMMA LeaveKeeps ==
    ASSUME SocInv, Leave
    PROVE  SocInv'
<1>1. /\ IInv /\ Configured(ctl) /\ GuestOk /\ ServiceMatches /\ TimerLive
      /\ ~InThread /\ cpu' = NoHandler /\ timer1' = timer1 /\ nap' = nap
      /\ ~aborted /\ depth[0] > 0 /\ pl192_irq_fin(0)
  BY DEF SocInv, Leave, WriteVectAddrEnd, devices
<1>2. 0 \in VICS /\ ctl[0].stack_i = 1 /\ depth[0] = 1
  BY <1>1, Wiring DEF ServiceMatches, IInv
<1>3. IInv' /\ \A w \in VICS : Kept(ctl[w], ctl'[w])
  BY <1>1, FinKeeps
<1>4. ~aborted'
  BY <1>3, Wiring DEF IInv
<1>5. depth' = [depth EXCEPT ![0] = @ - 1]
  BY <1>1, <1>4 DEF pl192_irq_fin, Abort
<1>6. ctl'[0].stack_i = 0
  <2>1. depth'[0] = 1 - 1
    BY <1>1, <1>2, <1>5 DEF IInv, TypeOK
  <2>2. ctl'[0].stack_i = depth'[0]
    BY <1>3, Wiring DEF IInv
  <2> QED BY <2>1, <2>2
<1>7. \A v \in VICS : ctl'[v].stack_i = 0
  <2>1. ctl' \in [VICS -> Controller] /\ StackInv(ctl')
    BY <1>3 DEF IInv, TypeOK
  <2> QED BY <1>6, <2>1, IdleStacks
<1>8. ServiceMatches'
  BY <1>1, <1>7 DEF ServiceMatches, InThread
<1>9. Configured(ctl')
  BY <1>1, <1>3 DEF Configured, Kept
<1>10. GuestOk'
  BY <1>1 DEF GuestOk
<1>11. TimerLive'
  BY <1>1, <1>2, <1>3, LiveTimer DEF TimerKept, Kept
<1> QED BY <1>3, <1>8, <1>9, <1>10, <1>11 DEF SocInv

\* The controllers as the guest has set them up.
LEMMA SocInitHolds ==
    ASSUME SocInit
    PROVE  SocInv
<1> DEFINE r == Reset(Zeroed)
           p == [i \in Sources |-> i]
           s(v) == [r EXCEPT !.intenable = Sources, !.vect_addr = VectorOf(v),
                             !.vect_priority = p]
<1>1. /\ r \in Controller /\ StackOK(r) /\ SlaveOK(r) /\ r.stack_i = 0
      /\ r.current_highest = NO_IRQ /\ r.rawintr = {} /\ r.softint = {}
      /\ r.irq_status = {} /\ r.fiq_status = {} /\ ~r.daisy_input /\ ~r.daisy_callback
  BY ZeroedFacts, ResetFacts
<1>2. r.sw_priority_mask = Levels
  BY ZeroedFacts DEF Reset, Controller
<1>3. /\ ctl = [v \in VICS |-> s(v)]
      /\ irq = FALSE /\ fiq = FALSE /\ aborted = FALSE
      /\ depth = [v \in VICS |-> 0]
      /\ timer1 = Stopped /\ cpu = NoHandler
      /\ nap = [pc |-> "run", asleep |-> FALSE, left |-> 0]
  BY DEF SocInit, VectorOf
<1>4. p \in [Sources -> Levels]
  BY SocAssumption DEF Sources, Levels
<1>5. \A v \in VICS : VectorOf(v) \in [Sources -> Addr]
  BY SocAssumption DEF VectorOf
<1> HIDE DEF r, p
<1>6. ASSUME NEW v \in VICS
      PROVE  /\ s(v) \in Controller /\ s(v).vect_addr = VectorOf(v)
             /\ s(v).sw_priority_mask = Levels
             /\ s(v).stack_i = r.stack_i /\ s(v).current_highest = r.current_highest
             /\ s(v).rawintr = r.rawintr /\ s(v).softint = r.softint
             /\ s(v).irq_status = r.irq_status /\ s(v).fiq_status = r.fiq_status
             /\ s(v).daisy_input = r.daisy_input /\ s(v).daisy_callback = r.daisy_callback
             /\ s(v).priority = r.priority /\ s(v).priority_stack = r.priority_stack
             /\ s(v).current = r.current /\ s(v).irq_stack = r.irq_stack
  <2>1. PICK a \in [Sources -> Addr] : a = VectorOf(v)
    BY <1>5
  <2>2. s(v) = [r EXCEPT !.intenable = Sources, !.vect_addr = a, !.vect_priority = p]
    BY <2>1
  <2> QED BY <1>1, <1>2, <1>4, <2>1, <2>2 DEF Controller
<1>7. ctl \in [VICS -> Controller] /\ \A v \in VICS : ctl[v] = s(v)
  BY <1>3, <1>6
<1> HIDE DEF s
<1>8. \A v \in VICS : StackOK(ctl[v]) /\ SlaveOK(ctl[v])
  BY <1>1, <1>6, <1>7 DEF StackOK, SlaveOK
<1>9. IInv
  <2>1. \A v \in VICS :
              /\ StackOK(ctl[v]) /\ SlaveOK(ctl[v]) /\ ctl[v].stack_i = 0
              /\ ctl[v].current_highest = NO_IRQ
              /\ ctl[v].rawintr = {} /\ ctl[v].softint = {}
              /\ ctl[v].irq_status = {} /\ ctl[v].fiq_status = {}
              /\ ~ctl[v].daisy_input /\ ~ctl[v].daisy_callback
    BY <1>1, <1>6, <1>7, <1>8
  <2> QED BY <1>3, <1>7, <2>1, IdleHolds
<1>10. Configured(ctl)
  BY <1>6, <1>7 DEF Configured
<1>11. GuestOk
  BY <1>3 DEF GuestOk, Stopped
<1>12. ServiceMatches
  BY <1>1, <1>3, <1>6, <1>7 DEF ServiceMatches, InThread
<1>13. TimerLive
  BY <1>3 DEF TimerLive, Stopped
<1> QED BY <1>9, <1>10, <1>11, <1>12, <1>13 DEF SocInv

\* Every step of the devices, the handlers, the threads and the I/O
\* processor keeps the invariant.
LEMMA SocNextKeeps ==
    ASSUME SocInv, [SocNext]_socVars
    PROVE  SocInv'
<1> DEFINE N == [pc : {"run", "program", "wait"}, asleep : BOOLEAN, left : Nat]
<1>1. /\ GuestOk /\ nap \in N /\ nap.left \in Nat /\ "timer" \in Addr
      /\ {} \in SUBSET {"START", "MANUALUPDATE"}
      /\ {"START", "MANUALUPDATE"} \in SUBSET {"START", "MANUALUPDATE"}
      /\ Never \in Nat \cup {Never}
  BY SocAssumption DEF SocInv, GuestOk
<1>2. /\ "serve" \in Points /\ "rearm" \in Points /\ "clear" \in Points /\ "end" \in Points
      /\ \A d \in Jobs : d \in Addr
  BY SocAssumption DEF Points, Jobs
<1>3. timer1 \in [start : BOOLEAN, timer : Nat, left : Nat \cup {None}]
  BY <1>1 DEF GuestOk
<1>4. CASE Timer1Tick
  BY <1>4, TickKeeps
<1>5. ASSUME Steady, timer1' = timer1, cpu' = cpu, nap' \in N PROVE SocInv'
  BY <1>3, <1>5, QuietKeeps
<1>6. CASE Timer2Tick
  BY <1>1, <1>5, <1>6 DEF Timer2Tick, guest, Steady
<1>7. CASE Advance
  <2>1. /\ timer1' = Elapsed(timer1) /\ cpu' = cpu /\ Steady
        /\ nap' = [nap EXCEPT !.left = IF @ > 0 THEN @ - 1 ELSE 0]
    BY <1>7 DEF Advance, Steady
  <2>2. PICK l \in Nat : l = IF nap.left > 0 THEN nap.left - 1 ELSE 0
    BY <1>1
  <2>3. nap' = [nap EXCEPT !.left = l]
    BY <2>1, <2>2
  <2>4. nap' \in N
    BY <1>1, <2>3
  <2> QED BY <1>1, <2>1, <2>4, TimerWrites, QuietKeeps
<1>8. ASSUME NEW name \in Addr, Enter(name) PROVE SocInv'
  BY <1>8, EnterKeeps
<1>9. CASE ServeTimer
  <2>1. CASE WriteTimer1(nap.left) /\ HandlerAt("rearm") /\ nap' = nap
    <3>1. /\ ~InThread /\ cpu' \in [name : Addr, pc : Points] /\ cpu'.name = cpu.name
      BY <1>1, <1>2, <1>9, <2>1, HandlerStep DEF ServeTimer
    <3> QED BY <1>1, <2>1, <3>1, WriteTimer1Keeps
  <2>2. CASE WriteTick1({}) /\ HandlerAt("end") /\ nap' = [nap EXCEPT !.asleep = FALSE]
    <3>1. /\ ~InThread /\ cpu' \in [name : Addr, pc : Points] /\ cpu'.name = cpu.name
      BY <1>1, <1>2, <1>9, <2>2, HandlerStep DEF ServeTimer
    <3>2. nap' \in N
      BY <1>1, <2>2
    <3> QED BY <1>1, <2>2, <3>1, <3>2, WriteTick1Keeps
  <2> QED BY <1>9, <2>1, <2>2 DEF ServeTimer
<1>10. CASE RearmTimer
  <2>1. /\ ~InThread /\ cpu' \in [name : Addr, pc : Points] /\ cpu'.name = cpu.name
    BY <1>1, <1>2, <1>10, HandlerStep DEF RearmTimer
  <2> QED BY <1>1, <1>10, <2>1, WriteTick1Keeps DEF RearmTimer
<1>11. ASSUME NEW d \in Jobs, ServeJob(d) PROVE SocInv'
  <2>1. CASE InHandler(d, "serve") /\ StatusRead(d) /\ HandlerAt("clear") /\ nap' = nap
    <3>1. /\ ~InThread /\ cpu' \in [name : Addr, pc : Points] /\ cpu'.name = cpu.name
      BY <1>1, <1>2, <2>1, HandlerStep
    <3>2. (Lower(d) \/ Steady) /\ timer1' = timer1
      BY <2>1 DEF StatusRead, devices
    <3> QED BY <2>1, <3>1, <3>2, JobKeeps
  <2>2. CASE InHandler(d, "clear") /\ StatusWrite(d) /\ HandlerAt("end") /\ nap' = nap
    <3>1. /\ ~InThread /\ cpu' \in [name : Addr, pc : Points] /\ cpu'.name = cpu.name
      BY <1>1, <1>2, <2>2, HandlerStep
    <3>2. Lower(d) /\ timer1' = timer1
      BY <2>2 DEF StatusWrite, Finished
    <3> QED BY <2>2, <3>1, <3>2, JobKeeps
  <2> QED BY <1>11, <2>1, <2>2 DEF ServeJob
<1>12. CASE Leave
  BY <1>12, LeaveKeeps
<1>13. ASSUME NEW d \in Deadlines, Sleep(d) PROVE SocInv'
  <2>1. d \in Nat \cup {Never} /\ cpu' = cpu /\ WriteTimer1(d)
        /\ nap' = [pc |-> "program", asleep |-> TRUE, left |-> d] /\ d \in Nat
    BY <1>13, SocAssumption DEF Sleep
  <2>2. nap' \in N
    BY <2>1
  <2> QED BY <2>1, <2>2, WriteTimer1Keeps
<1>14. CASE Program
  <2>1. nap' \in N /\ cpu' = cpu /\ WriteTick1({"START", "MANUALUPDATE"})
    BY <1>1, <1>14 DEF Program
  <2> QED BY <1>1, <2>1, WriteTick1Keeps
<1>15. CASE Wake
  <2>1. nap' \in N /\ cpu' = cpu /\ timer1' = timer1 /\ Steady
    BY <1>1, <1>15 DEF Wake, devices, Steady
  <2> QED BY <1>5, <2>1
<1>16. CASE NoDeadline
  BY <1>1, <1>16, WriteTimer1Keeps DEF NoDeadline, guest
<1>17. ASSUME NEW d \in Jobs, Mask(d) \/ Transfer(d) \/ Unmask(d) \/ EndTransfer(d)
       PROVE  SocInv'
  <2>1. timer1' = timer1 /\ cpu' = cpu /\ nap' = nap
    BY <1>17 DEF Mask, Transfer, Unmask, EndTransfer, JobTo, StartWrite, Finished, devices
  <2>2. \/ Raise(d) \/ Lower(d) \/ Steady
        \/ WriteIntEnable(Vic[d], {Source[d]})
        \/ WriteIntEnClear(Vic[d], {Source[d]})
    BY <1>17 DEF Mask, Transfer, Unmask, EndTransfer, StartWrite, Steady
  <2> QED BY <2>1, <2>2, JobKeeps
<1>18. CASE IopStart \/ IopValue \/ IopServe
  BY <1>1, <1>5, <1>18 DEF IopStart, IopValue, IopServe, Steady
<1>19. CASE UNCHANGED socVars
  <2>1. Steady /\ timer1' = timer1 /\ cpu' = cpu /\ nap' = nap
    BY <1>19 DEF socVars, Steady, vars
  <2> QED BY <1>1, <1>5, <2>1
<1> QED BY <1>4, <1>6, <1>7, <1>8, <1>9, <1>10, <1>11, <1>12, <1>13, <1>14, <1>15,
           <1>16, <1>17, <1>18, <1>19 DEF SocNext, Handlers

-----------------------------------------------------------------------------
(* Theorems. *)

\* SocInv is an invariant of the SoC's interrupt path, whatever the fairness.
THEOREM SocInvariant == SocSpec => []SocInv
<1>1. SocInit => SocInv
  BY SocInitHolds
<1>2. SocInv /\ [SocNext]_socVars => SocInv'
  BY SocNextKeeps
<1> QED BY <1>1, <1>2, PTL DEF SocSpec

\* The handler on the CPU is always that of the interrupt in service, also
\* when its device is behind the daisy chain: s5l8930.c's wiring, the sorter
\* of pl192.c and the address it hands on agree.
THEOREM HandlerRight == SocSpec => []ServiceMatches
<1>1. SocInv => ServiceMatches
  BY DEF SocInv
<1> QED BY <1>1, SocInvariant, PTL

\* A started timer counts or its line is up: no order of ticks and register
\* writes loses it.
THEOREM TimerNotForgotten == SocSpec => []TimerLive
<1>1. SocInv => TimerLive
  BY DEF SocInv
<1> QED BY <1>1, SocInvariant, PTL

=============================================================================
