---------------------------- MODULE BlockTimeClock ----------------------------
(***************************************************************************)
(* The clock of context.go.  Spans are not stamped with the system time    *)
(* but with the time of the block being executed, advanced by the system   *)
(* time that passed since the clock was created.  The clock travels in the *)
(* sdk.Context as a value: a context without one is given a new clock,     *)
(* contexts derived from that one share it.                                *)
(* Times are integers; sys is the reading of time.Now().                   *)
(***************************************************************************)
EXTENDS Integers

CONSTANT NoClock       \* a context without a value under clockKey

Clocks == [startTime: Int, blockTime: Int]

ASSUME NoClockAssumption == NoClock \notin Clocks

NewBlockTimeClock(sys, blockTime) == [startTime |-> sys, blockTime |-> blockTime]

Now(clock, sys) == clock.blockTime + (sys - clock.startTime)

\* Mutant: the clock of the context is not looked up.
ClockOfAlwaysNew(clock, sys, blockTime) == NewBlockTimeClock(sys, blockTime)

\* The clock a context carries after WithBlockTimeClock ...
ClockOf(clock, sys, blockTime) ==
    IF clock = NoClock THEN NewBlockTimeClock(sys, blockTime) ELSE clock

\* ... and the relative time it returns: a new clock starts at block time.
TimeOf(clock, sys, blockTime) ==
    IF clock = NoClock THEN blockTime ELSE Now(clock, sys)
=============================================================================
