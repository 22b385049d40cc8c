------------------------------- MODULE Event -------------------------------
(***************************************************************************)
(* Event flags and counting semaphores of pico-os1 (kernel/event.c), on    *)
(* top of the task manager, whose wait queue they share: a control block   *)
(* in it says by wait_factor that its task waits for a flag or for a       *)
(* semaphore, but not for which one.                                       *)
(*                                                                         *)
(* A bit pattern is a set of bits and a wait mode a set of TWF_ options    *)
(* (TWF_ANDW, which is zero, is the empty set).                            *)
(***************************************************************************)
EXTENDS TaskManager

CONSTANTS
    MAX_FLAGS, MAX_SEMAPHORES,  \* sizes of fcb_table and scb_table
    FlagInfos,          \* initial patterns given to sk_create_flag
    FlagSets,           \* patterns given to sk_set_flag
    FlagClears,         \* masks given to sk_clear_flag
    FlagWaits,          \* pairs of pattern and mode given to sk_wait_flag
    FlagWaiters,        \* tasks of the application that wait for flags
    SemaphoreInfos,     \* records given to sk_create_semaphore
    Counts,             \* unit counts given to the semaphore calls
    EventTimeouts       \* timeouts given to the two wait calls

FlagId == 1 .. MAX_FLAGS
SemaphoreId == 1 .. MAX_SEMAPHORES
TMO_POL == 0

ASSUME EventAssumption ==
    /\ MAX_FLAGS \in Nat
    /\ MAX_SEMAPHORES \in Nat
    /\ FlagWaiters \subseteq TaskId
    /\ SemaphoreInfos \subseteq [initial_value : Int, max_value : Int]
    /\ Counts \subseteq Int
    /\ EventTimeouts \subseteq Int

(* event.c takes any value of an int for units and counts.  What an        *)
(* application has to keep to: it starts a semaphore between none and its  *)
(* maximum, it asks for units and returns them, and the sums fit in an int.*)
UnitsInOrder ==
    /\ \A info \in SemaphoreInfos : info.initial_value \in 0 .. info.max_value
    /\ \A c \in Counts : c > 0
    /\ \A info \in SemaphoreInfos, c \in Counts : info.max_value + c <= 2147483647

VARIABLES
    fcb_table,          \* per flag its state and pattern
    scb_table,          \* per semaphore its state, value and max_value
    wait_pattern, wait_mode, flag_pattern, wait_semaphore,  \* tcb_table[t]
    waits_on            \* history: the flag or semaphore the task waits for

eventTcbVars == <<wait_pattern, wait_mode, flag_pattern, wait_semaphore,
                  waits_on>>
eventVars == <<fcb_table, scb_table, eventTcbVars>>
allVars == <<vars, eventVars>>

-----------------------------------------------------------------------------
(* Event flags.                                                            *)

check_flag(pattern, wanted, mode) ==
    IF "ORW" \in mode THEN pattern \cap wanted # {} ELSE wanted \subseteq pattern

(* What a satisfied wait leaves in the flag. *)
Consumed(pattern, wanted, mode) ==
    IF "CLR" \in mode THEN {}
    ELSE IF "BITCLR" \in mode THEN pattern \ wanted ELSE pattern

(* The first free entry of a table; with none free the search runs past    *)
(* the end of the table, which is left out.                                *)
IsFree(table, id) ==
    /\ table[id].state = "NONEXIST"
    /\ \A j \in 1 .. (id - 1) : table[j].state # "NONEXIST"

sk_create_flag(initial) ==
    /\ Running
    /\ \E f \in FlagId :
          /\ IsFree(fcb_table, f)
          /\ fcb_table' = [fcb_table EXCEPT
                             ![f] = [state |-> "EXIST", pattern |-> initial]]
    /\ UNCHANGED <<vars, scb_table, eventTcbVars>>

(* Mutants of FlagMatches: every bit is asked for whatever the mode, and   *)
(* none is.                                                                *)
FlagMatchesAll(pattern) ==
    {i \in DOMAIN wait_queue :
        /\ wait_factor[wait_queue[i]] = "FLG"
        /\ wait_pattern[wait_queue[i]] \subseteq pattern}

FlagMatchesAny(pattern) ==
    {i \in DOMAIN wait_queue : wait_factor[wait_queue[i]] = "FLG"}

(* The waiting tasks whose condition a pattern satisfies; they are found   *)
(* by wait_factor, whichever flag they wait for.                           *)
FlagMatches(pattern) ==
    {i \in DOMAIN wait_queue :
        /\ wait_factor[wait_queue[i]] = "FLG"
        /\ check_flag(pattern, wait_pattern[wait_queue[i]],
                      wait_mode[wait_queue[i]])}

IsFirst(i, indexes) == i \in indexes /\ \A j \in indexes : i <= j

(* As in the timer walk, the loop over wait_queue ends with the first task *)
(* it moves to a ready queue.                                              *)
sk_set_flag(f, bits) ==
    /\ Running
    /\ fcb_table[f].state = "EXIST"
    /\ LET pattern == fcb_table[f].pattern \cup bits
           matches == FlagMatches(pattern)
       IN  \/ /\ matches = {}
              /\ fcb_table' = [fcb_table EXCEPT ![f].pattern = pattern]
              /\ UNCHANGED <<vars, flag_pattern, waits_on>>
           \/ \E i \in matches :
                 LET t == wait_queue[i]
                 IN  /\ IsFirst(i, matches)
                     /\ fcb_table' = [fcb_table EXCEPT ![f].pattern =
                            Consumed(pattern, wait_pattern[t], wait_mode[t])]
                     /\ flag_pattern' = [flag_pattern EXCEPT ![t] = pattern]
                     /\ waits_on' = [waits_on EXCEPT ![t] = NULL]
                     /\ Release(t)
    /\ UNCHANGED <<scb_table, wait_pattern, wait_mode, wait_semaphore>>

sk_clear_flag(f, mask) ==
    /\ Running
    /\ fcb_table[f].state = "EXIST"
    /\ fcb_table' = [fcb_table EXCEPT ![f].pattern = @ \cap mask]
    /\ UNCHANGED <<vars, scb_table, eventTcbVars>>

(* With TMO_POL an unsatisfied wait returns E_TMOUT at once. *)
sk_wait_flag(f, wanted, mode, timeout) ==
    LET pattern == fcb_table[f].pattern
    IN  /\ Running
        /\ fcb_table[f].state = "EXIST"
        /\ \/ /\ check_flag(pattern, wanted, mode)
              /\ flag_pattern' = [flag_pattern EXCEPT ![curr_task] = pattern]
              /\ fcb_table' = [fcb_table EXCEPT ![f].pattern =
                                 Consumed(pattern, wanted, mode)]
              /\ UNCHANGED <<vars, wait_pattern, wait_mode, waits_on>>
           \/ /\ ~check_flag(pattern, wanted, mode)
              /\ timeout # TMO_POL
              /\ wait_pattern' = [wait_pattern EXCEPT ![curr_task] = wanted]
              /\ wait_mode' = [wait_mode EXCEPT ![curr_task] = mode]
              /\ waits_on' = [waits_on EXCEPT ![curr_task] = f]
              /\ Block("FLG", WaitTime(timeout), timeout)
              /\ UNCHANGED <<fcb_table, flag_pattern>>
        /\ UNCHANGED <<scb_table, wait_semaphore>>

-----------------------------------------------------------------------------
(* Semaphores.                                                             *)

(* Mutant of sk_create_semaphore: the two values are exchanged. *)
CreateSwapped(info) ==
    /\ Running
    /\ \E s \in SemaphoreId :
          /\ IsFree(scb_table, s)
          /\ scb_table' = [scb_table EXCEPT
                             ![s] = [state |-> "EXIST",
                                     value |-> info.max_value,
                                     max_value |-> info.initial_value]]
    /\ UNCHANGED <<vars, fcb_table, eventTcbVars>>

(* Neither value is checked. *)
sk_create_semaphore(info) ==
    /\ Running
    /\ \E s \in SemaphoreId :
          /\ IsFree(scb_table, s)
          /\ scb_table' = [scb_table EXCEPT
                             ![s] = [state |-> "EXIST",
                                     value |-> info.initial_value,
                                     max_value |-> info.max_value]]
    /\ UNCHANGED <<vars, fcb_table, eventTcbVars>>

(* The tasks that wait for a semaphore, whichever one. *)
SemaphoreWaiters ==
    {i \in DOMAIN wait_queue : wait_factor[wait_queue[i]] = "SEM"}

(* Mutant of Grants: more units are asked for than the task does. *)
GrantsStrictly(i, value) ==
    /\ IsFirst(i, SemaphoreWaiters)
    /\ value > wait_semaphore[wait_queue[i]]

(* The first of them gets its units or keeps waiting; in both cases the    *)
(* loop ends there.                                                        *)
Grants(i, value) ==
    /\ IsFirst(i, SemaphoreWaiters)
    /\ value >= wait_semaphore[wait_queue[i]]

(* Mutant of HasRoom: the units returned are not counted. *)
HadRoom(s, cnt) == scb_table[s].value <= scb_table[s].max_value

(* Returning more units than max_value allows is refused with E_QOVR. *)
HasRoom(s, cnt) == scb_table[s].value + cnt <= scb_table[s].max_value

(* The i-th waiting task gets its units, from the semaphore signalled. *)
GiveUnits(i, s, cnt) ==
    LET value == scb_table[s].value + cnt
        t == wait_queue[i]
    IN  /\ Grants(i, value)
        /\ scb_table' = [scb_table EXCEPT ![s].value = value - wait_semaphore[t]]
        /\ waits_on' = [waits_on EXCEPT ![t] = NULL]
        /\ Release(t)

KeepUnits(s, cnt) ==
    LET value == scb_table[s].value + cnt
    IN  /\ \A i \in SemaphoreWaiters : ~Grants(i, value)
        /\ scb_table' = [scb_table EXCEPT ![s].value = value]
        /\ UNCHANGED <<vars, waits_on>>

sk_signal_semaphore(s, cnt) ==
    /\ Running
    /\ scb_table[s].state = "EXIST"
    /\ HasRoom(s, cnt)
    /\ \/ \E i \in SemaphoreWaiters : GiveUnits(i, s, cnt)
       \/ KeepUnits(s, cnt)
    /\ UNCHANGED <<fcb_table, wait_pattern, wait_mode, flag_pattern,
                   wait_semaphore>>

(* Mutant of HasUnits: off by one. *)
NearlyHasUnits(s, cnt) == scb_table[s].value + 1 >= cnt

HasUnits(s, cnt) == scb_table[s].value >= cnt

(* With TMO_POL an unsatisfied wait returns E_TMOUT at once. *)
sk_wait_semaphore(s, cnt, timeout) ==
    /\ Running
    /\ scb_table[s].state = "EXIST"
    /\ \/ /\ HasUnits(s, cnt)
          /\ scb_table' = [scb_table EXCEPT ![s].value = @ - cnt]
          /\ UNCHANGED <<vars, wait_semaphore, waits_on>>
       \/ /\ ~HasUnits(s, cnt)
          /\ timeout # TMO_POL
          /\ wait_semaphore' = [wait_semaphore EXCEPT ![curr_task] = cnt]
          /\ waits_on' = [waits_on EXCEPT ![curr_task] = s]
          /\ Block("SEM", WaitTime(timeout), timeout)
          /\ UNCHANGED scb_table
    /\ UNCHANGED <<fcb_table, wait_pattern, wait_mode, flag_pattern>>

-----------------------------------------------------------------------------
EventInit ==
    /\ Init
    /\ fcb_table = [f \in FlagId |-> [state |-> "NONEXIST", pattern |-> {}]]
    /\ scb_table = [s \in SemaphoreId |->
                      [state |-> "NONEXIST", value |-> 0, max_value |-> 0]]
    /\ wait_pattern = [t \in TaskId |-> {}]
    /\ wait_mode = [t \in TaskId |-> {}]
    /\ flag_pattern = [t \in TaskId |-> {}]
    /\ wait_semaphore = [t \in TaskId |-> 0]
    /\ waits_on = [t \in TaskId |-> NULL]

FlagCall ==
    \/ \E p \in FlagInfos : sk_create_flag(p)
    \/ \E f \in FlagId :
         \/ \E p \in FlagSets : sk_set_flag(f, p)
         \/ \E p \in FlagClears : sk_clear_flag(f, p)
         \/ \E w \in FlagWaits, d \in EventTimeouts :
               /\ curr_task \in FlagWaiters
               /\ sk_wait_flag(f, w[1], w[2], d)

SemaphoreCall ==
    \/ \E info \in SemaphoreInfos : sk_create_semaphore(info)
    \/ \E s \in SemaphoreId, c \in Counts :
         \/ sk_signal_semaphore(s, c)
         \/ \E d \in EventTimeouts : sk_wait_semaphore(s, c, d)

(* The timer handler and the other calls know nothing of the event tables. *)
EventNext == FlagCall \/ SemaphoreCall \/ (Next /\ UNCHANGED eventVars)

EventSpec == EventInit /\ [][EventNext]_allVars

-----------------------------------------------------------------------------
(* Properties.                                                             *)

(* Every variable of this module has its type: a flag holds no bits that   *)
(* were never given to it, a maximum is that of sk_create_semaphore and a  *)
(* task waits for a count that was asked for.  That the value is between   *)
(* none and the maximum is SemaphoreInRange.                               *)
Bits == UNION (FlagInfos \cup FlagSets)

EventTypeOK ==
    /\ fcb_table \in [FlagId -> [state : {"NONEXIST", "EXIST"},
                                 pattern : SUBSET Bits]]
    /\ scb_table \in [SemaphoreId -> [state : {"NONEXIST", "EXIST"},
                                      value : Int,
                                      max_value : {0} \cup {info.max_value :
                                                       info \in SemaphoreInfos}]]
    /\ wait_pattern \in [TaskId -> {w[1] : w \in FlagWaits} \cup {{}}]
    /\ wait_mode \in [TaskId -> {w[2] : w \in FlagWaits} \cup {{}}]
    /\ flag_pattern \in [TaskId -> SUBSET Bits]
    /\ wait_semaphore \in [TaskId -> {0} \cup Counts]
    /\ waits_on \in [TaskId -> Nat]

(* The units of a semaphore stay between none and its maximum, whatever    *)
(* tasks signal, wait for and time out from, if the application keeps to   *)
(* UnitsInOrder.                                                           *)
SemaphoreInRange ==
    \A s \in SemaphoreId : /\ 0 <= scb_table[s].value
                           /\ scb_table[s].value <= scb_table[s].max_value

WaitsFor(t, factor, id) ==
    state[t] = "WAIT" /\ wait_factor[t] = factor /\ waits_on[t] = id

(* No unit lies idle while a task that asked for it waits.                 *)
NoIdleUnits ==
    \A s \in SemaphoreId, t \in TaskId :
        WaitsFor(t, "SEM", s) => scb_table[s].value < wait_semaphore[t]

(* A task does not go on waiting for a flag that holds the pattern it      *)
(* waits for.  api.h defines TA_WMUL as letting several tasks wait for one *)
(* flag, and the events example creates its flag with it.                  *)
NoMissedFlag ==
    \A f \in FlagId, t \in TaskId :
        WaitsFor(t, "FLG", f)
            => ~check_flag(fcb_table[f].pattern, wait_pattern[t], wait_mode[t])

(* A flag wait that ends with E_OK reports a pattern that satisfies it,    *)
(* and the bits it was to clear are cleared in the flag it waited for.     *)
FlagWaitIsSatisfied ==
    [][\A t \in TaskId, f \in FlagId :
          (WaitsFor(t, "FLG", f) /\ state'[t] = "READY"
                               /\ wait_err'[t] = "E_OK") =>
             /\ check_flag(flag_pattern'[t], wait_pattern[t], wait_mode[t])
             /\ fcb_table'[f].pattern
                  = Consumed(flag_pattern'[t], wait_pattern[t], wait_mode[t])]_allVars
=============================================================================
