---------------------------- MODULE SimpleTimer ----------------------------
(***************************************************************************)
(* The timer (simple_timer.C): the handler counts, and current() and       *)
(* wait() read what it counts with interrupts enabled. The handler's       *)
(* message, once a second, is printed by Devices.                          *)
(***************************************************************************)
EXTENDS Caller, Integers

CONSTANTS
    hz,             \* interrupts to the second: 100 in kernel.C
    Wait            \* the seconds callers wait for

ASSUME TimerAssumption == hz \in Nat \ {0} /\ Wait \subseteq Nat

VARIABLES
    seconds, ticks,
    elapsed         \* history: the interrupts handled so far

timerVars == <<seconds, ticks, elapsed>>

TimerInit == seconds = 0 /\ ticks = 0 /\ elapsed = 0

SecondOver == ticks + 1 >= hz

\* Deviation: the ticks are not reset when a second is over.
TimerHandler_no_reset ==
    /\ elapsed' = elapsed + 1
    /\ ticks' = ticks + 1
    /\ seconds' = IF SecondOver THEN seconds + 1 ELSE seconds

\* handle_interrupt
TimerHandler ==
    /\ elapsed' = elapsed + 1
    /\ ticks' = IF SecondOver THEN 0 ELSE ticks + 1
    /\ seconds' = IF SecondOver THEN seconds + 1 ELSE seconds

-----------------------------------------------------------------------------
(* Calls. "called" is for the properties: the time of the call. "extra" is *)
(* the argument of wait().                                                 *)

TimerLocals == [op : {"current", "wait"}, called : Nat, seconds : Nat, ticks : Nat, extra : Wait \cup {0}]

CallTimer(op, extra) ==
    /\ Call("read_seconds", [op |-> op, called |-> elapsed, seconds |-> 0, ticks |-> 0, extra |-> extra])
    /\ UNCHANGED timerVars

CallCurrent == CallTimer("current", 0)
CallWait == \E s \in Wait : CallTimer("wait", s)

\* current: *_seconds = seconds
ReadSeconds ==
    /\ Go("read_seconds", "read_ticks")
    /\ loc' = [loc EXCEPT !.seconds = seconds]
    /\ UNCHANGED timerVars

\* current: *_ticks = ticks, and the return, for wait() into its loop.
ReadTicks ==
    /\ pc = "read_ticks"
    /\ IF loc.op = "wait"
       THEN Go("read_ticks", "test_seconds") /\ loc' = [loc EXCEPT !.ticks = ticks]
       ELSE Return("read_ticks")
    /\ UNCHANGED timerVars

\* wait: seconds <= then_seconds && ...
TestSeconds ==
    /\ pc = "test_seconds"
    /\ IF seconds <= loc.seconds + loc.extra
       THEN Step("test_seconds", "test_ticks") ELSE Return("test_seconds")
    /\ UNCHANGED timerVars

\* ... && ticks < now_ticks
TestTicks ==
    /\ pc = "test_ticks"
    /\ IF ticks < loc.ticks THEN Step("test_ticks", "test_seconds") ELSE Return("test_ticks")
    /\ UNCHANGED timerVars

TimerCall == CallCurrent \/ CallWait
TimerStep == ReadSeconds \/ ReadTicks \/ TestSeconds \/ TestTicks
=============================================================================
