-------------------------------- MODULE Soc ---------------------------------
(***************************************************************************)
(* The interrupt path of the SoC from devices to threads: the system timer *)
(* and an I2C controller are inputs of the first interrupt controller, a   *)
(* DMA channel of the second, behind it in the daisy chain;                *)
(* the guest acknowledges, serves the device and ends the interrupt, with  *)
(* interrupts off in between.  The second timer belongs to the I/O         *)
(* processor and has its own line.                                         *)
(*                                                                         *)
(* The guest has a thread that sleeps until a deadline, a thread that      *)
(* makes I2C transfers, one that uses the DMA channel, and an interrupt    *)
(* handler for each device.                                                *)
(***************************************************************************)
EXTENDS PL192, Timers

CONSTANT Deadlines      \* units the sleeping thread asks for

ASSUME SocAssumption ==
    /\ Deadlines \subseteq Nat
    /\ VIC_N = 2 /\ INT_SOURCES = 2 /\ PRIO_LEVELS = 2 /\ MaxNest >= 1
    /\ Addr = {"timer", "i2c", "dma"}
    /\ Ops = {"line", "intenable", "intenclear"}

VARIABLES
    timer1, timer2,     \* the timers
    irq2,               \* the second timer's line
    done,               \* I2CSTAT and the channel's status: a transfer is done
    cpu,                \* the interrupt handler on the CPU and where it is
    nap,                \* the sleeping thread: where it is, time to wait
    job,                \* where the threads that make transfers are
    iop                 \* where the I/O processor's user of timer 2 is

socVars == <<ctl, irq, fiq, depth, aborted, timer1, timer2, irq2, done,
             cpu, nap, job, iop>>

devices == <<timer1, timer2, irq2, done>>

guest == <<cpu, nap, job, iop>>

Jobs == {"i2c", "dma"}

\* Inputs of the controllers: S5L8930_TIMER1_IRQ and S5L8930_IRQ_I2C_0 on the
\* first, S5L8930_CDMA_CHANNEL5_IRQ on the second.
Vic    == [timer |-> 0, i2c |-> 0, dma |-> 1]
Source == [timer |-> 0, i2c |-> 1, dma |-> 0]

Raise(d) == pl192_irq_handler(Vic[d], Source[d], TRUE)
Lower(d) == pl192_irq_handler(Vic[d], Source[d], FALSE)
Steady   == UNCHANGED vars

-----------------------------------------------------------------------------
(* Devices on the controllers. *)

\* Mutant: the tick is a pulse, gone before the controller sees it.
Timer1TickPulse ==
    /\ Due(timer1)
    /\ timer1' = st_tick(timer1)
    /\ Steady
    /\ UNCHANGED <<timer2, irq2, done, guest>>

Timer1Tick ==
    /\ Due(timer1)
    /\ timer1' = st_tick(timer1)
    /\ IF timer1.start THEN Raise("timer") ELSE Steady
    /\ UNCHANGED <<timer2, irq2, done, guest>>

Timer2Tick ==
    /\ Due(timer2)
    /\ timer2' = st_tick(timer2)
    /\ irq2' = (irq2 \/ timer2.start)
    /\ UNCHANGED <<vars, timer1, done, guest>>

WriteTick1(v) ==
    /\ timer1' = WriteTick(timer1, v)
    /\ IF TickLowers(v) THEN Lower("timer") ELSE Steady
    /\ UNCHANGED <<timer2, irq2, done>>

WriteTimer1(n) ==
    /\ timer1' = WriteTimer(timer1, n)
    /\ Steady
    /\ UNCHANGED <<timer2, irq2, done>>

Finished(d, on) == done' = [done EXCEPT ![d] = on] /\ UNCHANGED <<timer1, timer2, irq2>>

\* Mutant: a transfer sets the status and leaves the interrupt to a mask.
TransferSilent(d) == Finished(d, TRUE) /\ Steady

\* I2CCON, or the channel's start bit: the transfer is done within the write.
StartWrite(d) == Finished(d, TRUE) /\ Raise(d)

\* A read of the status.  Every read of the I2C controller lowers its line.
StatusRead(d) ==
    /\ IF d = "i2c" THEN Lower(d) ELSE Steady
    /\ UNCHANGED devices

\* A write of the status clears it and lowers the line.
StatusWrite(d) == Finished(d, FALSE) /\ Lower(d)

-----------------------------------------------------------------------------
(* The guest's interrupt handlers. *)

HandlerPoints(name) == [name : {name}, pc : {"serve", "rearm", "clear", "end"}]

NoHandler == [name |-> "none", pc |-> "end"]

InThread == cpu = NoHandler

InHandler(name, pc) == cpu = [name |-> name, pc |-> pc]

HandlerAt(pc) == cpu' = [cpu EXCEPT !.pc = pc]

\* The exception: VECTADDR names the handler.
Exception(name) ==
    /\ InThread
    /\ irq
    /\ ctl[0].address = name
    /\ cpu' = [name |-> name, pc |-> "serve"]

Enter(name) ==
    /\ Exception(name)
    /\ TakeIrq
    /\ UNCHANGED <<devices, nap, job, iop>>

\* The timer's handler: wakes the thread when its time has come, otherwise
\* (the interval wrapped) asks for the rest.  A tick nobody waits for stops
\* the timer.
ServeTimer ==
    /\ InHandler("timer", "serve")
    /\ \/ /\ nap.asleep /\ nap.left > 0
          /\ WriteTimer1(nap.left)
          /\ HandlerAt("rearm")
          /\ UNCHANGED <<nap, job, iop>>
       \/ /\ ~(nap.asleep /\ nap.left > 0)
          /\ WriteTick1({})
          /\ nap' = [nap EXCEPT !.asleep = FALSE]
          /\ HandlerAt("end")
          /\ UNCHANGED <<job, iop>>

RearmTimer ==
    /\ InHandler("timer", "rearm")
    /\ WriteTick1({"START", "MANUALUPDATE"})
    /\ HandlerAt("end")
    /\ UNCHANGED <<nap, job, iop>>

\* The other handlers read the status and clear it.
ServeJob(d) ==
    \/ /\ InHandler(d, "serve")
       /\ StatusRead(d)
       /\ HandlerAt("clear")
       /\ job' = [job EXCEPT ![d] = IF done[d] /\ @ = "waiting" THEN "served" ELSE @]
       /\ UNCHANGED <<nap, iop>>
    \/ /\ InHandler(d, "clear")
       /\ StatusWrite(d)
       /\ HandlerAt("end")
       /\ UNCHANGED <<nap, job, iop>>

Leave ==
    /\ ~InThread /\ cpu.pc = "end"
    /\ WriteVectAddrEnd(0)
    /\ cpu' = NoHandler
    /\ UNCHANGED <<devices, nap, job, iop>>

-----------------------------------------------------------------------------
(* The guest's threads, which run outside the handlers: the CPU takes a    *)
(* pending interrupt before a thread goes on.                              *)

ThreadsRun == InThread /\ ~irq

Sleep(d) ==
    /\ ThreadsRun /\ nap.pc = "run"
    /\ WriteTimer1(d)
    /\ nap' = [pc |-> "program", asleep |-> TRUE, left |-> d]
    /\ UNCHANGED <<cpu, job, iop>>

Program ==
    /\ ThreadsRun /\ nap.pc = "program"
    /\ WriteTick1({"START", "MANUALUPDATE"})
    /\ nap' = [nap EXCEPT !.pc = "wait"]
    /\ UNCHANGED <<cpu, job, iop>>

Wake ==
    /\ ThreadsRun /\ nap.pc = "wait" /\ ~nap.asleep
    /\ nap' = [nap EXCEPT !.pc = "run"]
    /\ UNCHANGED <<vars, devices, cpu, job, iop>>

\* No deadline.
NoDeadline ==
    /\ ThreadsRun /\ nap.pc = "run"
    /\ WriteTimer1(Never)
    /\ UNCHANGED guest

JobAt(d, pc) == ThreadsRun /\ job[d] = pc

JobTo(d, pc) == job' = [job EXCEPT ![d] = pc] /\ UNCHANGED <<cpu, nap, iop>>

\* A transfer: the source is masked while the controller is programmed.
Mask(d) ==
    /\ JobAt(d, "run") /\ JobTo(d, "masked")
    /\ WriteIntEnClear(Vic[d], {Source[d]})
    /\ UNCHANGED devices

Transfer(d) == JobAt(d, "masked") /\ JobTo(d, "started") /\ StartWrite(d)

Unmask(d) ==
    /\ JobAt(d, "started") /\ JobTo(d, "waiting")
    /\ WriteIntEnable(Vic[d], {Source[d]})
    /\ UNCHANGED devices

EndTransfer(d) == JobAt(d, "served") /\ JobTo(d, "run") /\ UNCHANGED <<vars, devices>>

-----------------------------------------------------------------------------
(* The I/O processor and its timer: started first, the value after, since  *)
(* only the value's write starts the count.                                *)

IopStart ==
    /\ iop = "run"
    /\ timer2' = WriteTick2(timer2, {"START"})
    /\ iop' = "started"
    /\ UNCHANGED <<vars, timer1, irq2, done, cpu, nap, job>>

IopValue ==
    /\ iop = "started"
    /\ timer2' = WriteTimer(timer2, 1)
    /\ iop' = "waiting"
    /\ UNCHANGED <<vars, timer1, irq2, done, cpu, nap, job>>

IopServe ==
    /\ iop = "waiting" /\ irq2
    /\ timer2' = WriteTick2(timer2, {"MANUALUPDATE"})
    /\ irq2' = FALSE
    /\ iop' = "run"
    /\ UNCHANGED <<vars, timer1, done, cpu, nap, job>>

\* Time.
Advance ==
    /\ timer1.left > 0 \/ timer2.left > 0 \/ nap.left > 0
    /\ timer1' = Elapsed(timer1)
    /\ timer2' = Elapsed(timer2)
    /\ nap' = [nap EXCEPT !.left = IF @ > 0 THEN @ - 1 ELSE 0]
    /\ UNCHANGED <<vars, irq2, done, cpu, job, iop>>

-----------------------------------------------------------------------------
\* The guest has set up the controllers: both sources enabled, a handler for
\* each, the timer above the I2C controller.
SocInit ==
    /\ ctl = [v \in VICS |->
                 [Reset(Zeroed) EXCEPT
                     !.intenable = Sources,
                     !.vect_addr = [i \in Sources |->
                         IF v = Vic["dma"] THEN "dma"
                         ELSE IF i = Source["i2c"] THEN "i2c" ELSE "timer"],
                     !.vect_priority = [i \in Sources |-> i]]]
    /\ irq = FALSE /\ fiq = FALSE /\ aborted = FALSE
    /\ depth = [v \in VICS |-> 0]
    /\ timer1 = Stopped /\ timer2 = Stopped
    /\ irq2 = FALSE /\ done = [d \in Jobs |-> FALSE]
    /\ cpu = NoHandler
    /\ nap = [pc |-> "run", asleep |-> FALSE, left |-> 0]
    /\ job = [d \in Jobs |-> "run"] /\ iop = "run"

Handlers == ServeTimer \/ RearmTimer \/ (\E d \in Jobs : ServeJob(d)) \/ Leave

SocNext ==
    \/ Timer1Tick \/ Timer2Tick \/ Advance
    \/ \E name \in Addr : Enter(name)
    \/ Handlers
    \/ \E d \in Deadlines : Sleep(d)
    \/ Program \/ Wake \/ NoDeadline
    \/ \E d \in Jobs : Mask(d) \/ Transfer(d) \/ Unmask(d) \/ EndTransfer(d)
    \/ IopStart \/ IopValue \/ IopServe

\* Time passes and QEMU's timers run; a pending interrupt is taken and its
\* handler goes on to its end.  Each condition is on the part of the state
\* that the step is about.
SocFairness ==
    /\ WF_socVars(Advance)
    /\ WF_timer1(Due(timer1) /\ timer1' = st_tick(timer1))
    /\ WF_timer2(Due(timer2) /\ timer2' = st_tick(timer2))
    /\ WF_cpu(\E name \in Addr : Exception(name))
    /\ WF_cpu(~InThread /\ cpu' \in {NoHandler} \cup HandlerPoints(cpu.name))
    /\ WF_iop(iop = "waiting" /\ irq2 /\ iop' = "run")

SocSpec == SocInit /\ [][SocNext]_socVars /\ SocFairness

-----------------------------------------------------------------------------
(* Properties. *)

\* A started timer is never forgotten, in whatever order value and tick
\* register are written around its ticks: it counts, or its line is up.
TimerLive ==
    timer1.start => Pending(timer1) \/ Source["timer"] \in ctl[0].rawintr

\* The handler on the CPU is that of the interrupt the controller has in
\* service: VECTADDR never names another device's, and none runs for an
\* interrupt that was withdrawn before it was acknowledged.
ServiceMatches ==
    /\ InThread => \A v \in VICS : ctl[v].stack_i = 0
    /\ ~InThread => /\ ctl[0].stack_i = 1
                    /\ ctl[0].current = IF Vic[cpu.name] = 0 THEN Source[cpu.name]
                                        ELSE DAISY

\* Whoever waits for a timer is woken: a sleeper, also when the interval
\* wrapped and the tick came early, or came while the timer was being
\* programmed; the user of the second timer, started before it has a value.
SleepEnds ==
    /\ nap.asleep /\ nap.pc = "wait" ~> ~nap.asleep
    /\ iop = "waiting" ~> iop = "run"

\* A transfer made while its source was masked is served when the source is
\* enabled, whatever the other devices do in between.
TransferServed == \A d \in Jobs : job[d] = "waiting" ~> job[d] = "served"

=============================================================================
