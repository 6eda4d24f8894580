------------------------------- MODULE Timers -------------------------------
(***************************************************************************)
(* The system timers of the SoC (s5l8930.c).  Each has a value register    *)
(* and a tick register, a QEMU timer that counts down to one tick, and an  *)
(* interrupt line that stays up until the guest's tick register write      *)
(* lowers it.  Time is counted in units of the value register.             *)
(***************************************************************************)
EXTENDS Integers

CONSTANTS
    Wrap,       \* the interval is computed in 32 bits and wraps here
    Default     \* 1000: the interval of the value zero

ASSUME TimerAssumption == Wrap \in Nat \ {0} /\ Default \in Nat

None  == -1     \* the QEMU timer is not pending
Never == -1     \* 0xffffffff in the value register

\* Units until the tick, as s5l8930_st_set_timer computes them.
Interval(n) == (IF n = 0 THEN Default ELSE n) % Wrap

\* A timer: its START bit, its value and the units to its tick.
Stopped == [start |-> FALSE, timer |-> 0, left |-> None]

Pending(t) == t.left # None

\* Mutant: the tick register stores the bit and leaves the timer stopped.
WriteTickUnarmed(t, v) == [t EXCEPT !.start = "START" \in v, !.left = None]

\* TIMER_REGISTER_TICK: the pending tick is dropped, a started timer counts
\* from its value again.
WriteTick(t, v) ==
    [t EXCEPT !.start = "START" \in v,
              !.left = IF "START" \in v THEN Interval(t.timer) ELSE None]

\* TIMER_REGISTER_TICK2 does not start the count.
WriteTick2(t, v) == [t EXCEPT !.start = "START" \in v, !.left = None]

\* Either lowers the line, unless the timer is started without MANUALUPDATE.
TickLowers(v) == "START" \notin v \/ "MANUALUPDATE" \in v

\* TIMER_REGISTER and TIMER_REGISTER2.  Never does not cancel a pending tick.
WriteTimer(t, n) ==
    IF n = Never THEN [t EXCEPT !.timer = 0]
    ELSE [t EXCEPT !.timer = n,
                   !.left = IF t.start THEN Interval(n) ELSE @]

Due(t) == t.left = 0

\* s5l8930_st_tick: one tick, not counted again; the line goes up if the
\* timer is still started.
st_tick(t) == [t EXCEPT !.left = None]

\* vm_clock.
Elapsed(t) == [t EXCEPT !.left = IF @ > 0 THEN @ - 1 ELSE @]

=============================================================================
