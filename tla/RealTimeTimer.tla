----------------------------- MODULE RealTimeTimer --------------------------
(***************************************************************************)
(* The real-time loop: RealTimeSimulation::run and the Timer it sleeps on  *)
(* (Source/RealTimeSimulation.cpp, Source/Timer.cpp), in the variant built *)
(* on timerfd and in the fallback built on std::this_thread::sleep_until.  *)
(*                                                                         *)
(* The clock is a counter that advances while the solver computes and      *)
(* while the thread sleeps, so a step may take any time and a sleeper may  *)
(* wake up late.  The unit of time is arbitrary; unsigned arithmetic wraps *)
(* at Word, which stands for 2^64.                                         *)
(***************************************************************************)
EXTENDS Integers

CONSTANTS
  Builds,       \* the builds to consider: "timerfd" (HAVE_TIMERFD), "fallback"
  Interval,     \* mTickInterval
  FinalStep,    \* duration in time steps
  StartTimes,   \* the start times to consider, on the clock's scale
  Now0,         \* the clock when the timer is started
  MaxNow,       \* bound: the clock stops here
  Word          \* 2^64

ASSUME TimerAssumption ==
  /\ Builds \subseteq {"timerfd", "fallback"}
  /\ Interval \in Nat \ {0}
  /\ FinalStep \in Nat /\ StartTimes \subseteq Nat
  /\ Now0 \in Nat /\ MaxNow \in Nat /\ Now0 <= MaxNow
  /\ Word \in Nat /\ Word \div 2 > MaxNow

VARIABLES
  build,     \* chosen at compile time: never changes
  now,       \* IntervalClock::now()
  pc,        \* where run() is
  start,     \* the start time on the interval clock
  mState,    \* Timer::State
  mNextTick, \* next tick of the fallback
  read,      \* expirations read from the timerfd so far
  mTicks, mOverruns,
  mTime,     \* simulated time, in steps
  sleeps,    \* history: completed calls of sleep()
  overrun    \* history: the last sleep() reported an overrun

timerVars == <<build, now, pc, start, mState, mNextTick, read, mTicks, mOverruns,
               mTime, sleeps, overrun>>

TimerInit ==
  /\ build \in Builds
  /\ now = Now0 /\ pc = "start" /\ mState = "stopped"
  /\ start \in StartTimes
  /\ mNextTick = 0 /\ read = 0
  /\ mTicks = 0 /\ mOverruns = 0
  /\ mTime = 0 /\ sleeps = 0 /\ overrun = FALSE

(* The clock advances; the thread may be anywhere.                         *)
Tick ==
  /\ now < MaxNow
  /\ now' = now + 1
  /\ UNCHANGED <<build, pc, start, mState, mNextTick, read, mTicks, mOverruns, mTime,
                 sleeps, overrun>>

(* Timer::start.                                                           *)
StartTimer ==
  /\ pc = "start" /\ mState = "stopped"
  /\ mTicks' = 0 /\ mOverruns' = 0
  /\ mNextTick' = start + Interval
  /\ mState' = "running"
  /\ pc' = "step"
  /\ UNCHANGED <<build, now, start, read, mTime, sleeps, overrun>>

(* The body of the do loop: a time step is always computed, and takes time.*)
Step ==
  /\ pc = "step" /\ now < MaxNow
  /\ now' = now + 1
  /\ mTime' = mTime + 1
  /\ pc' = "sleep"
  /\ UNCHANGED <<build, start, mState, mNextTick, read, mTicks, mOverruns, sleeps,
                 overrun>>

(* Expirations of a timerfd armed for start and every Interval after it.   *)
Expirations == IF now < start THEN 0 ELSE ((now - start) \div Interval) + 1

(* Mutant of FallbackTicks: counts the interval that has only begun.       *)
FallbackTicksEarly ==
  IF mNextTick <= now THEN ((now - mNextTick) \div Interval) + 2 ELSE 0

(* The loop `while (mNextTick < now) mNextTick += mTickInterval`: how      *)
(* often it runs.                                                          *)
FallbackTicks ==
  IF mNextTick < now THEN (now - mNextTick + Interval - 1) \div Interval ELSE 0

(* Mutant of Account: every tick counts as an overrun.                     *)
AccountAll(ticks) ==
  /\ mOverruns' = mOverruns + ticks
  /\ mTicks' = mTicks + ticks
  /\ overrun' = (ticks > 0)

(* The counters at the end of sleep(); overruns is a uint64_t, mOverruns   *)
(* a long long that the sum wraps into.                                    *)
Account(ticks) ==
  LET overruns == (ticks - 1) % Word
      signed   == IF overruns >= Word \div 2 THEN overruns - Word ELSE overruns
  IN
  /\ mOverruns' = mOverruns + signed
  /\ mTicks' = mTicks + ticks
  /\ overrun' = (overruns > 0)

(* while (mTime < mFinalTime), then Timer::stop.                           *)
LoopAgain ==
  /\ sleeps' = sleeps + 1
  /\ pc' = IF mTime < FinalStep THEN "step" ELSE "stop"
  /\ UNCHANGED <<build, now, start, mState, mTime>>

(* Timer::sleep: read() blocks until there is an unread expiration.        *)
SleepTimerfd ==
  /\ pc = "sleep" /\ build = "timerfd"
  /\ Expirations > read
  /\ Account(Expirations - read)
  /\ read' = Expirations
  /\ LoopAgain /\ UNCHANGED mNextTick

(* Timer::sleep: sleep_until(mNextTick), then the missed ticks.            *)
SleepFallback ==
  /\ pc = "sleep" /\ build = "fallback"
  /\ now >= mNextTick
  /\ Account(FallbackTicks)
  /\ mNextTick' = mNextTick + FallbackTicks * Interval
  /\ LoopAgain /\ UNCHANGED read

(* Timer::stop.                                                            *)
Stop ==
  /\ pc = "stop" /\ mState = "running"
  /\ mState' = "stopped"
  /\ pc' = "done"
  /\ UNCHANGED <<build, now, start, mNextTick, read, mTicks, mOverruns, mTime,
                 sleeps, overrun>>

Run == StartTimer \/ Step \/ SleepTimerfd \/ SleepFallback \/ Stop

(* The bound of the clock is reached.                                      *)
Finished == now = MaxNow /\ UNCHANGED timerVars

TimerNext == Tick \/ Run \/ Finished

TimerSpec == TimerInit /\ [][TimerNext]_timerVars

(* Time passes, and the thread runs when it is not asleep.                 *)
TimerFairSpec == TimerSpec /\ WF_timerVars(Tick) /\ WF_timerVars(Run)

-----------------------------------------------------------------------------
(* With timerfd the simulation never runs ahead of the wall clock: when    *)
(* the n-th sleep has returned, the n-th tick instant is in the past.  The *)
(* fallback does not have this: a sleep that ends exactly at the tick does *)
(* not advance mNextTick, and the next one returns at once.                *)
NeverAhead ==
  build = "timerfd" /\ sleeps > 0 => now >= start + (sleeps - 1) * Interval

(* Simulated time and counted overruns together follow the wall clock:     *)
(* what is not a completed sleep is counted as an overrun, and ticks()     *)
(* counts tick instants that have passed, never one to come.               *)
OverrunsAccountForLag ==
  /\ mTicks = sleeps + mOverruns
  /\ mTicks > 0 => start + (mTicks - 1) * Interval <= now

(* sleep() returns, once the clock has gone on for an interval.            *)
SleepReturns == (pc = "sleep" /\ now + Interval <= MaxNow) ~> pc # "sleep"

(* Both about the counters of Timer::sleep against the clock.               *)
ClockKept == NeverAhead /\ OverrunsAccountForLag
=============================================================================
