-------------------------------- MODULE Clock --------------------------------
(***************************************************************************)
(* The clock of pico-os1: the timer interrupt counts ticks and seconds     *)
(* (kernel/systimer.c), and time() of the C library reads the seconds      *)
(* through _gettimeofday (kernel/syscalls.c).  The counter of ticks is a   *)
(* word of 32 bits; ticks counts without a limit.                          *)
(***************************************************************************)
EXTENDS Integers

WORD == 4294967296
TICKS_PER_SECOND == 100     \* TIMER_PERIOD is 10 ms

VARIABLES
    global_counter, global_seconds,
    tv_sec,     \* what the last _gettimeofday reported
    ticks       \* history: the ticks since the start

clockVars == <<global_counter, global_seconds, tv_sec, ticks>>

ClockInit == global_counter = 0 /\ global_seconds = 0 /\ tv_sec = 0 /\ ticks = 0

systimer_handler ==
    /\ global_counter' = (global_counter + 1) % WORD
    /\ global_seconds' = IF global_counter' % TICKS_PER_SECOND = 0
                         THEN global_seconds + 1 ELSE global_seconds
    /\ ticks' = ticks + 1
    /\ UNCHANGED tv_sec

_gettimeofday == /\ tv_sec' = global_seconds
                 /\ UNCHANGED <<global_counter, global_seconds, ticks>>

ClockNext == systimer_handler \/ _gettimeofday

ClockSpec == ClockInit /\ [][ClockNext]_clockVars

-----------------------------------------------------------------------------
(* Until the counter wraps (after 497 days) the clock shows the seconds    *)
(* that have passed.                                                       *)
ClockIsRight == ticks < WORD => global_seconds = ticks \div TICKS_PER_SECOND

(* 2^32 is not a multiple of 100, so that the first second after the       *)
(* counter wraps is counted four ticks early; the clock then stays ahead   *)
(* of the ticks until it wraps again.                                      *)
ClockRunsAhead ==
    (WORD <= ticks /\ ticks < 2 * WORD) =>
        global_seconds = (ticks + 4) \div TICKS_PER_SECOND

(* Time does not run backwards for those who ask for it. *)
TimeIsMonotonic == [][tv_sec <= tv_sec']_clockVars
=============================================================================
