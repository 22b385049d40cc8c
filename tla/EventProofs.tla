---------------------------- MODULE EventProofs ----------------------------
(***************************************************************************)
(* Proofs about event flags and semaphores, for any number of tasks, any   *)
(* patterns, modes, counts and timeouts.  What the code does not check, or *)
(* gets wrong with several waiters of a flag (the run missed_flag), is     *)
(* excluded by named assumptions, each only where it is needed.            *)
(***************************************************************************)
EXTENDS Event, TaskManagerProofs

(* Units are asked for and returned one by one. *)
SingleUnits == Counts \subseteq {1}

OneFlag == MAX_FLAGS <= 1

(* A call that sets a flag wakes one task at most: one task waits for it.  *)
OneFlagWaiter == \A t, u \in FlagWaiters : t = u

(* As TimesInRange; a call with TMO_POL does not wait. *)
EventTimesInRange ==
    \A d \in EventTimeouts :
        (d # TMO_POL /\ d # TMO_FEVR) => (0 < d /\ d + TIMER_PERIOD < Forever)

-----------------------------------------------------------------------------
(* What the calls of this module do to the variables of the task manager.  *)

BlockStep ==
    \E factor \in {"FLG", "SEM"}, d \in EventTimeouts :
        d # TMO_POL /\ Running /\ Block(factor, WaitTime(d), d)

ReleaseStep ==
    \E t \in TaskId : t \in ToSet(wait_queue) /\ Running /\ Release(t)

KernelStep == [Next]_vars \/ BlockStep \/ ReleaseStep

LEMMA FlagKernelStep ==
    ASSUME TypeOK, FlagCall
    PROVE  KernelStep
<1>1. ASSUME NEW p \in FlagInfos, sk_create_flag(p) PROVE KernelStep
  BY <1>1 DEF sk_create_flag, KernelStep
<1>2. ASSUME NEW f \in FlagId, NEW p \in FlagSets, sk_set_flag(f, p)
      PROVE  KernelStep
  <2>1. CASE UNCHANGED vars
    BY <2>1 DEF KernelStep
  <2>2. CASE \E i \in FlagMatches(fcb_table[f].pattern \cup p) :
                Running /\ Release(wait_queue[i])
    <3>1. PICK i \in DOMAIN wait_queue : Running /\ Release(wait_queue[i])
      BY <2>2 DEF FlagMatches
    <3>2. wait_queue[i] \in TaskId /\ wait_queue[i] \in ToSet(wait_queue)
      BY DEF TypeOK, ToSet
    <3> QED BY <3>1, <3>2 DEF KernelStep, ReleaseStep
  <2> QED BY <1>2, <2>1, <2>2 DEF sk_set_flag
<1>3. ASSUME NEW f \in FlagId, NEW p \in FlagClears, sk_clear_flag(f, p)
      PROVE  KernelStep
  BY <1>3 DEF sk_clear_flag, KernelStep
<1>4. ASSUME NEW f \in FlagId, NEW w \in FlagWaits, NEW d \in EventTimeouts,
             sk_wait_flag(f, w[1], w[2], d)
      PROVE  KernelStep
  BY <1>4 DEF sk_wait_flag, KernelStep, BlockStep
<1> QED BY <1>1, <1>2, <1>3, <1>4 DEF FlagCall

LEMMA SemaphoreKernelStep ==
    ASSUME TypeOK, SemaphoreCall
    PROVE  KernelStep
<1>1. ASSUME NEW info, sk_create_semaphore(info) PROVE KernelStep
  BY <1>1 DEF sk_create_semaphore, KernelStep
<1>2. ASSUME NEW s, NEW c, sk_signal_semaphore(s, c) PROVE KernelStep
  <2>1. CASE UNCHANGED vars
    BY <2>1 DEF KernelStep
  <2>2. CASE \E i \in SemaphoreWaiters : Running /\ Release(wait_queue[i])
    <3>1. PICK i \in DOMAIN wait_queue : Running /\ Release(wait_queue[i])
      BY <2>2 DEF SemaphoreWaiters
    <3>2. wait_queue[i] \in TaskId /\ wait_queue[i] \in ToSet(wait_queue)
      BY DEF TypeOK, ToSet
    <3> QED BY <3>1, <3>2 DEF KernelStep, ReleaseStep
  <2> QED BY <1>2, <2>1, <2>2 DEF sk_signal_semaphore, GiveUnits, KeepUnits
<1>3. ASSUME NEW s, NEW c, NEW d \in EventTimeouts, sk_wait_semaphore(s, c, d)
      PROVE  KernelStep
  BY <1>3 DEF sk_wait_semaphore, KernelStep, BlockStep
<1> QED BY <1>1, <1>2, <1>3 DEF SemaphoreCall

LEMMA EventKernelStep ==
    ASSUME TypeOK, [EventNext]_allVars
    PROVE  KernelStep
BY FlagKernelStep, SemaphoreKernelStep
   DEF EventNext, allVars, KernelStep

(* The times of these waits. *)
LEMMA EventWaitTime ==
    ASSUME NEW d \in EventTimeouts
    PROVE  /\ d \in Int /\ WaitTime(d) \in 0 .. Forever
           /\ (EventTimesInRange /\ d # TMO_POL) =>
                 \/ d = TMO_FEVR /\ WaitTime(d) = Forever
                 \/ /\ WaitTime(d) = d + TIMER_PERIOD
                    /\ d > 0 /\ WaitTime(d) > TIMER_PERIOD
<1>1. d \in Int /\ TIMER_PERIOD \in Nat /\ Forever \in Nat
  BY EventAssumption, TaskManagerAssumption DEF Forever
<1>2. d + TIMER_PERIOD \in Int
  BY <1>1
<1>3. WaitTime(d) \in 0 .. Forever
  BY <1>1, <1>2, ReltimeType DEF WaitTime
<1>4. ASSUME EventTimesInRange, d # TMO_POL, d # TMO_FEVR
      PROVE  WaitTime(d) = d + TIMER_PERIOD /\ d > 0
  <2>1. 0 < d /\ d + TIMER_PERIOD < Forever
    BY <1>4 DEF EventTimesInRange
  <2>2. d + TIMER_PERIOD \in 0 .. Forever
    BY <1>1, <2>1
  <2> QED BY <1>2, <1>4, <2>1, <2>2, ReltimeType DEF WaitTime
<1>5. d = TMO_FEVR => WaitTime(d) = Forever
  BY <1>1, ReltimeType DEF WaitTime
<1> QED BY <1>1, <1>3, <1>4, <1>5

LEMMA KernelTyped ==
    ASSUME Typed, KernelStep
    PROVE  Typed'
<1>1. CASE [Next]_vars
  BY <1>1, TypedStep
<1>2. CASE BlockStep
  <2>1. PICK factor \in Factors, d \in EventTimeouts :
               Running /\ Block(factor, WaitTime(d), d)
    BY <1>2 DEF BlockStep, Factors
  <2>2. TypeOK'
    BY <2>1, EventWaitTime, BlockType DEF Typed
  <2> QED BY <2>1, <2>2 DEF Typed, TickHasTask, Block, cpuVars
<1>3. CASE ReleaseStep
  <2>1. PICK t \in TaskId : Release(t)
    BY <1>3 DEF ReleaseStep
  <2>2. TypeOK'
    BY <2>1, ReleaseType DEF Typed
  <2> QED BY <2>1, <2>2 DEF Typed, TickHasTask, Release, cpuVars
<1> QED BY <1>1, <1>2, <1>3 DEF KernelStep

(* The invariant of the task manager survives the calls of this module. *)
LEMMA KernelInv ==
    ASSUME AtMostTwoPerPriority, TimesInRange, EventTimesInRange, Inv, KernelStep
    PROVE  Inv'
<1>1. CASE [Next]_vars
  BY <1>1, InvStep
<1>2. CASE BlockStep
  <2>1. PICK factor \in Factors, d \in EventTimeouts :
               d # TMO_POL /\ Running /\ Block(factor, WaitTime(d), d)
    BY <1>2 DEF BlockStep, Factors
  <2>2. /\ d \in Int /\ WaitTime(d) \in 0 .. Forever
        /\ WaitTime(d) = Forever \/ WaitTime(d) > TIMER_PERIOD
    BY <2>1, EventWaitTime
  <2> QED BY <2>1, <2>2, BlockInv
<1>3. CASE ReleaseStep
  <2>1. PICK t \in TaskId : t \in ToSet(wait_queue) /\ Running /\ Release(t)
    BY <1>3 DEF ReleaseStep
  <2>2. state[t] = "WAIT"
    BY <2>1 DEF Inv, QueuesMatchStates, WaitQueueHoldsWaitingTasks
  <2> QED BY <2>1, <2>2, ReleaseInv
<1> QED BY <1>1, <1>2, <1>3 DEF KernelStep

(* Each task is in the one queue its state names, also with the waits for  *)
(* flags and semaphores, which share wait_queue with delays and sleeps.    *)
THEOREM EventQueuesCorrect ==
    ASSUME AtMostTwoPerPriority, TimesInRange, EventTimesInRange
    PROVE  EventSpec => []QueuesMatchStates
<1>1. EventInit => Inv
  BY InitInv DEF EventInit
<1>2. Inv /\ [EventNext]_allVars => Inv'
  BY EventKernelStep, KernelInv DEF Inv, Typed
<1>3. Inv => QueuesMatchStates
  BY DEF Inv
<1> QED BY <1>1, <1>2, <1>3, PTL DEF EventSpec

(* Priority scheduling with flags and semaphores: a signal that makes a    *)
(* more urgent task ready takes the processor away at once.                *)
THEOREM EventPriorityScheduling ==
    ASSUME AtMostTwoPerPriority, TimesInRange, EventTimesInRange
    PROVE  EventSpec => []RunningIsHighest
<1>1. EventInit => Inv
  BY InitInv DEF EventInit
<1>2. Inv /\ [EventNext]_allVars => Inv'
  BY EventKernelStep, KernelInv DEF Inv, Typed
<1>3. Inv => RunningIsHighest
  BY RunningIsTop DEF RunningIsHighest
<1> QED BY <1>1, <1>2, <1>3, PTL DEF EventSpec

-----------------------------------------------------------------------------
(* Timeouts.                                                               *)

LEMMA KernelPromise ==
    ASSUME TimesInRange, EventTimesInRange, Typed, PromiseKept, KernelStep
    PROVE  PromiseKept'
<1>1. CASE [Next]_vars
  BY <1>1, PromiseStep
<1>2. CASE BlockStep
  <2>1. PICK factor \in {"FLG", "SEM"}, d \in EventTimeouts :
               d # TMO_POL /\ Running /\ Block(factor, WaitTime(d), d)
    BY <1>2 DEF BlockStep
  <2>2. /\ d \in Int /\ WaitTime(d) \in 0 .. Forever
        /\ WaitTime(d) # Forever => d >= 0 /\ d + TIMER_PERIOD <= WaitTime(d)
    BY <2>1, EventWaitTime, TaskManagerAssumption
  <2> QED BY <2>1, <2>2, BlockPromise
<1>3. CASE ReleaseStep
  BY <1>3 DEF ReleaseStep, Release, PromiseKept, PromiseOf, Typed, TypeOK, Forever
<1> QED BY <1>1, <1>2, <1>3 DEF KernelStep

(* The tick ends a wait for a flag or a semaphore only when the whole time *)
(* asked for has passed, and one without a timeout never.                  *)
THEOREM EventTimeoutsNotEarly ==
    ASSUME TimesInRange, EventTimesInRange
    PROVE  EventSpec => NoEarlyTimeout
<1> DEFINE I == Typed /\ PromiseKept
<1>1. EventInit => I
  BY InitTyped DEF EventInit, Init, PromiseKept, PromiseOf
<1>2. I /\ [EventNext]_allVars => I'
  BY EventKernelStep, KernelTyped, KernelPromise DEF Typed
<1>3. I /\ [EventNext]_allVars =>
        [systimer_handler =>
           \A t \in TaskId : (state[t] = "WAIT" /\ state'[t] = "READY")
                                => promised[t] = 0]_vars
  BY PromiseAtTick
<1> HIDE DEF I
<1> QED BY <1>1, <1>2, <1>3, PTL DEF EventSpec, NoEarlyTimeout

-----------------------------------------------------------------------------
(* Typing.                                                                 *)

FlagTypeOK ==
    /\ fcb_table \in [FlagId -> [state : {"NONEXIST", "EXIST"},
                                 pattern : SUBSET Bits]]
    /\ wait_pattern \in [TaskId -> {w[1] : w \in FlagWaits} \cup {{}}]
    /\ wait_mode \in [TaskId -> {w[2] : w \in FlagWaits} \cup {{}}]
    /\ flag_pattern \in [TaskId -> SUBSET Bits]

SemaphoreTables ==
    [SemaphoreId -> [state : {"NONEXIST", "EXIST"}, value : Int,
                     max_value : {0} \cup {info.max_value : info \in SemaphoreInfos}]]

SemaphoreTypeOK ==
    /\ scb_table \in SemaphoreTables
    /\ wait_semaphore \in [TaskId -> {0} \cup Counts]

LEMMA EventTypeParts ==
    EventTypeOK <=> FlagTypeOK /\ SemaphoreTypeOK /\ waits_on \in [TaskId -> Nat]
BY DEF EventTypeOK, FlagTypeOK, SemaphoreTypeOK, SemaphoreTables

LEMMA WaitsOnType ==
    ASSUME waits_on \in [TaskId -> Nat], FlagCall \/ SemaphoreCall
    PROVE  waits_on' \in [TaskId -> Nat]
<1>1. FlagId \subseteq Nat /\ SemaphoreId \subseteq Nat /\ NULL \in Nat
  BY EventAssumption DEF FlagId, SemaphoreId, NULL
<1> DEFINE Goal == waits_on' \in [TaskId -> Nat]
<1>2. ASSUME waits_on' = waits_on PROVE Goal
  BY <1>2
<1>3. ASSUME NEW t, NEW n \in Nat, waits_on' = [waits_on EXCEPT ![t] = n]
      PROVE  Goal
  BY <1>3
<1> HIDE DEF Goal
<1>4. ASSUME NEW p, sk_create_flag(p) PROVE Goal
  BY <1>2, <1>4 DEF sk_create_flag, eventTcbVars
<1>5. ASSUME NEW f, NEW p, sk_set_flag(f, p) PROVE Goal
  BY <1>1, <1>2, <1>3, <1>5 DEF sk_set_flag
<1>6. ASSUME NEW f, NEW p, sk_clear_flag(f, p) PROVE Goal
  BY <1>2, <1>6 DEF sk_clear_flag, eventTcbVars
<1>7. ASSUME NEW f \in FlagId, NEW p, NEW m, NEW d, sk_wait_flag(f, p, m, d)
      PROVE  Goal
  BY <1>1, <1>2, <1>3, <1>7 DEF sk_wait_flag
<1>8. ASSUME NEW info, sk_create_semaphore(info) PROVE Goal
  BY <1>2, <1>8 DEF sk_create_semaphore, eventTcbVars
<1>9. ASSUME NEW s, NEW c, sk_signal_semaphore(s, c) PROVE Goal
  BY <1>1, <1>2, <1>3, <1>9 DEF sk_signal_semaphore, GiveUnits, KeepUnits
<1>10. ASSUME NEW s \in SemaphoreId, NEW c, NEW d, sk_wait_semaphore(s, c, d)
       PROVE  Goal
  BY <1>1, <1>2, <1>3, <1>10 DEF sk_wait_semaphore
<1>11. Goal
  BY <1>4, <1>5, <1>6, <1>7, <1>8, <1>9, <1>10 DEF FlagCall, SemaphoreCall
<1> QED BY <1>11 DEF Goal

(* What a wait consumes is taken from the pattern. *)
LEMMA ConsumedIsSubset ==
    ASSUME NEW pattern, NEW wanted, NEW mode
    PROVE  Consumed(pattern, wanted, mode) \subseteq pattern
BY DEF Consumed

LEMMA FlagCallTyped ==
    ASSUME TypeOK, FlagTypeOK, SemaphoreTypeOK, FlagCall
    PROVE  FlagTypeOK' /\ SemaphoreTypeOK'
<1> USE DEF FlagTypeOK
<1>1. UNCHANGED <<scb_table, wait_semaphore>>
  BY DEF FlagCall, sk_create_flag, sk_set_flag, sk_clear_flag, sk_wait_flag,
         eventTcbVars
<1>2. ASSUME NEW p \in FlagInfos, sk_create_flag(p) PROVE FlagTypeOK'
  <2>1. p \in SUBSET Bits
    BY DEF Bits
  <2> QED BY <1>2, <2>1 DEF sk_create_flag, eventTcbVars
<1>3. ASSUME NEW f \in FlagId, NEW p \in FlagSets, sk_set_flag(f, p)
      PROVE  FlagTypeOK'
  <2> DEFINE pattern == fcb_table[f].pattern \cup p
  <2>1. pattern \in SUBSET Bits
    BY DEF Bits
  <2>2. \E q \in SUBSET Bits : fcb_table' = [fcb_table EXCEPT ![f].pattern = q]
    BY <1>3, <2>1, ConsumedIsSubset DEF sk_set_flag
  <2>3. \/ flag_pattern' = flag_pattern
        \/ \E t : flag_pattern' = [flag_pattern EXCEPT ![t] = pattern]
    BY <1>3 DEF sk_set_flag
  <2>4. UNCHANGED <<wait_pattern, wait_mode>>
    BY <1>3 DEF sk_set_flag
  <2> HIDE DEF pattern
  <2> QED BY <2>1, <2>2, <2>3, <2>4
<1>4. ASSUME NEW f \in FlagId, NEW p, sk_clear_flag(f, p) PROVE FlagTypeOK'
  BY <1>4 DEF sk_clear_flag, eventTcbVars
<1>5. ASSUME NEW f \in FlagId, NEW w \in FlagWaits, NEW d,
             sk_wait_flag(f, w[1], w[2], d)
      PROVE  FlagTypeOK'
  <2>1. CASE check_flag(fcb_table[f].pattern, w[1], w[2])
    <3>1. fcb_table[f].pattern \in SUBSET Bits
      OBVIOUS
    <3>2. \E q \in SUBSET Bits : fcb_table' = [fcb_table EXCEPT ![f].pattern = q]
      BY <1>5, <2>1, <3>1, ConsumedIsSubset DEF sk_wait_flag
    <3> QED BY <1>5, <2>1, <3>1, <3>2 DEF sk_wait_flag
  <2>2. CASE ~check_flag(fcb_table[f].pattern, w[1], w[2])
    BY <1>5, <2>2 DEF sk_wait_flag
  <2> QED BY <2>1, <2>2
<1>6. SemaphoreTypeOK'
  BY <1>1 DEF SemaphoreTypeOK
<1> QED BY <1>2, <1>3, <1>4, <1>5, <1>6 DEF FlagCall

(* An entry of the table after its value has changed. *)
LEMMA ValueTyped ==
    ASSUME scb_table \in SemaphoreTables, NEW s \in SemaphoreId, NEW n \in Int,
           scb_table' = [scb_table EXCEPT ![s].value = n]
    PROVE  scb_table' \in SemaphoreTables
BY DEF SemaphoreTables

LEMMA SemaphoreCallTyped ==
    ASSUME TypeOK, FlagTypeOK, SemaphoreTypeOK, SemaphoreCall
    PROVE  FlagTypeOK' /\ SemaphoreTypeOK'
<1>0. /\ scb_table \in SemaphoreTables
      /\ wait_semaphore \in [TaskId -> {0} \cup Counts]
      /\ Counts \subseteq Int
      /\ {0} \cup Counts \subseteq Int
  BY EventAssumption DEF SemaphoreTypeOK
<1>1. UNCHANGED <<fcb_table, wait_pattern, wait_mode, flag_pattern>>
  BY DEF SemaphoreCall, sk_create_semaphore, sk_signal_semaphore,
         sk_wait_semaphore, eventTcbVars
<1>2. ASSUME NEW info \in SemaphoreInfos, sk_create_semaphore(info)
      PROVE  SemaphoreTypeOK'
  <2>1. info.initial_value \in Int
    BY EventAssumption
  <2>2. scb_table' \in SemaphoreTables
    BY <1>0, <1>2, <2>1 DEF sk_create_semaphore, SemaphoreTables
  <2> QED BY <1>0, <1>2, <2>2 DEF sk_create_semaphore, eventTcbVars, SemaphoreTypeOK
<1>3. ASSUME NEW s \in SemaphoreId, NEW c \in Counts, sk_signal_semaphore(s, c)
      PROVE  SemaphoreTypeOK'
  <2>1. scb_table[s].value + c \in Int
    BY <1>0 DEF SemaphoreTables
  <2>2. wait_semaphore' = wait_semaphore
    BY <1>3 DEF sk_signal_semaphore
  <2>3. CASE KeepUnits(s, c)
    <3>1. scb_table' \in SemaphoreTables
      BY <1>0, <2>1, <2>3, ValueTyped DEF KeepUnits
    <3> QED BY <1>0, <2>2, <3>1 DEF SemaphoreTypeOK
  <2>4. ASSUME NEW i \in SemaphoreWaiters, GiveUnits(i, s, c)
        PROVE  SemaphoreTypeOK'
    <3>1. wait_semaphore[wait_queue[i]] \in Int
      <4>1. wait_semaphore[wait_queue[i]] \in {0} \cup Counts
        BY <1>0 DEF SemaphoreWaiters, TypeOK
      <4> QED BY <1>0, <4>1
    <3>2. (scb_table[s].value + c) - wait_semaphore[wait_queue[i]] \in Int
      BY <2>1, <3>1
    <3>3. scb_table' \in SemaphoreTables
      BY <1>0, <2>4, <3>2, ValueTyped DEF GiveUnits
    <3> QED BY <1>0, <2>2, <3>3 DEF SemaphoreTypeOK
  <2> QED BY <1>3, <2>3, <2>4 DEF sk_signal_semaphore
<1>4. ASSUME NEW s \in SemaphoreId, NEW c \in Counts, NEW d,
             sk_wait_semaphore(s, c, d)
      PROVE  SemaphoreTypeOK'
  <2>1. scb_table[s].value - c \in Int
    BY <1>0 DEF SemaphoreTables
  <2>2. scb_table' \in SemaphoreTables
    BY <1>0, <1>4, <2>1, ValueTyped DEF sk_wait_semaphore
  <2>3. wait_semaphore' \in [TaskId -> {0} \cup Counts]
    BY <1>0, <1>4 DEF sk_wait_semaphore
  <2> QED BY <2>2, <2>3 DEF SemaphoreTypeOK
<1>5. FlagTypeOK'
  BY <1>1 DEF FlagTypeOK
<1> QED BY <1>2, <1>3, <1>4, <1>5 DEF SemaphoreCall

EventTyped == Typed /\ EventTypeOK

LEMMA EventTypedInit == EventInit => EventTyped
<1> SUFFICES ASSUME EventInit PROVE EventTypeOK
  BY InitTyped DEF EventInit, EventTyped
<1>1. 0 \in Nat /\ 0 \in Int /\ {} \in SUBSET Bits /\ NULL \in Nat
  BY DEF NULL
<1> QED BY <1>1 DEF EventInit, EventTypeOK

LEMMA EventTypedStep ==
    ASSUME EventTyped, [EventNext]_allVars
    PROVE  EventTyped'
<1>1. Typed'
  BY EventKernelStep, KernelTyped DEF EventTyped, Typed
<1>2. CASE FlagCall \/ SemaphoreCall
  <2>1. TypeOK /\ FlagTypeOK /\ SemaphoreTypeOK /\ waits_on \in [TaskId -> Nat]
    BY EventTypeParts DEF EventTyped, Typed
  <2>2. FlagTypeOK' /\ SemaphoreTypeOK'
    BY <1>2, <2>1, FlagCallTyped, SemaphoreCallTyped
  <2>3. waits_on' \in [TaskId -> Nat]
    BY <1>2, <2>1, WaitsOnType
  <2>4. EventTypeOK'
    BY <2>2, <2>3 DEF EventTypeOK, FlagTypeOK, SemaphoreTypeOK, SemaphoreTables
  <2> QED BY <1>1, <2>4 DEF EventTyped
<1>3. CASE UNCHANGED eventVars
  BY <1>1, <1>3 DEF EventTyped, EventTypeOK, eventVars, eventTcbVars
<1> QED BY <1>2, <1>3 DEF EventNext, allVars

LEMMA SemaphoresTyped ==
    ASSUME EventTypeOK
    PROVE  /\ scb_table \in [SemaphoreId -> [state : {"NONEXIST", "EXIST"},
                                             value : Int, max_value : Int]]
           /\ wait_semaphore \in [TaskId -> Int]
<1>1. /\ Counts \subseteq Int
      /\ \A info \in SemaphoreInfos : info.max_value \in Int
  BY EventAssumption
<1>2. {0} \cup Counts \subseteq Int
  BY <1>1
<1>3. {0} \cup {info.max_value : info \in SemaphoreInfos} \subseteq Int
  BY <1>1
<1> QED BY <1>2, <1>3 DEF EventTypeOK

(* The tables and the wait fields keep their types, whatever tasks signal, *)
(* wait for and time out from.  Nothing is assumed of the application: the *)
(* value of a semaphore may be any integer, see SemaphoreRange.            *)
THEOREM EventTypeCorrect == EventSpec => []EventTypeOK
<1>1. EventTyped => EventTypeOK
  BY DEF EventTyped
<1> QED BY <1>1, EventTypedInit, EventTypedStep, PTL DEF EventSpec

-----------------------------------------------------------------------------
(* Who waits for what.                                                     *)

EventFactors == {"FLG", "SEM"}

(* A task that waits for a flag or a semaphore waits for one that exists;  *)
(* only the tasks of FlagWaiters wait for flags.                           *)
FlagWaitsKnown ==
    \A t \in TaskId : wait_factor[t] = "FLG" =>
        /\ t \in FlagWaiters
        /\ waits_on[t] \in FlagId
        /\ fcb_table[waits_on[t]].state = "EXIST"

SemaphoreWaitsKnown ==
    \A t \in TaskId : wait_factor[t] = "SEM" =>
        /\ waits_on[t] \in SemaphoreId
        /\ wait_semaphore[t] \in Counts
        /\ scb_table[waits_on[t]].state = "EXIST"

(* The task manager by itself begins none of these waits. *)
LEMMA NextKeepsWaits ==
    ASSUME Typed, [Next]_vars, NEW t \in TaskId, wait_factor'[t] \in EventFactors
    PROVE  /\ wait_factor'[t] = wait_factor[t]
           /\ state'[t] = "WAIT" => state[t] = "WAIT"
<1> USE DEF EventFactors
<1>0. TypeOK
  BY DEF Typed
<1>1. CASE main
  BY <1>0, <1>1 DEF main, TypeOK
<1>2. CASE systimer_handler
  BY <1>2 DEF systimer_handler
<1>3. CASE dispatch_entry \/ dispatch_loop_exit
  BY <1>3 DEF dispatch_entry, dispatch_loop_exit, tcbVars
<1>4. CASE UNCHANGED vars
  BY <1>4 DEF vars, tcbVars
<1>5. CASE SystemCall
  <2>1. CASE sk_create_task \/ sk_exit_task
    BY <1>0, <2>1 DEF sk_create_task, sk_exit_task, TypeOK
  <2>2. CASE \E u \in TaskId : sk_start_task(u)
    BY <1>0, <2>2 DEF sk_start_task, TypeOK
  <2>3. CASE \E d \in DelayTimes : sk_delay_task(d)
    BY <1>0, <2>3 DEF sk_delay_task, Block, TypeOK
  <2>4. CASE \E d \in Timeouts : sk_sleep_task(d)
    BY <1>0, <2>4 DEF sk_sleep_task, Block, TypeOK
  <2>5. CASE \E u \in TaskId : sk_wakeup_task(u)
    BY <1>0, <2>5 DEF sk_wakeup_task, Release, TypeOK
  <2> QED BY <1>5, <2>1, <2>2, <2>3, <2>4, <2>5 DEF SystemCall
<1> QED BY <1>1, <1>2, <1>3, <1>4, <1>5 DEF Next

LEMMA BlockWaits ==
    ASSUME TypeOK, Running, NEW factor, NEW time, NEW promise,
           Block(factor, time, promise)
    PROVE  /\ curr_task \in TaskId
           /\ \A t \in TaskId :
                 /\ state'[t] = IF t = curr_task THEN "WAIT" ELSE state[t]
                 /\ wait_factor'[t] = IF t = curr_task THEN factor ELSE wait_factor[t]
BY DEF TypeOK, Running, Block

LEMMA ReleaseWaits ==
    ASSUME TypeOK, NEW t \in TaskId, Release(t)
    PROVE  \A u \in TaskId :
              /\ state'[u] = IF u = t THEN "READY" ELSE state[u]
              /\ wait_factor'[u] = IF u = t THEN "NON" ELSE wait_factor[u]
BY DEF TypeOK, Release

(* The calls of one kind leave the waits of the other kind alone. *)
LEMMA FlagCallKeepsSemaphores ==
    ASSUME EventTyped, FlagCall
    PROVE  /\ UNCHANGED <<scb_table, wait_semaphore>>
           /\ \A t \in TaskId : wait_factor'[t] = "SEM" =>
                 /\ wait_factor[t] = "SEM"
                 /\ state'[t] = state[t]
                 /\ waits_on'[t] = waits_on[t]
<1> DEFINE Goal == \A t \in TaskId : wait_factor'[t] = "SEM" =>
                      /\ wait_factor[t] = "SEM"
                      /\ state'[t] = state[t]
                      /\ waits_on'[t] = waits_on[t]
<1>0. TypeOK /\ waits_on \in [TaskId -> Nat]
  BY DEF EventTyped, Typed, EventTypeOK
<1>1. ASSUME NEW p, sk_create_flag(p) PROVE Goal
  BY <1>1 DEF sk_create_flag, vars, tcbVars, eventTcbVars
<1>2. ASSUME NEW f, NEW p, sk_set_flag(f, p) PROVE Goal
  <2>1. CASE UNCHANGED <<vars, waits_on>>
    BY <2>1 DEF vars, tcbVars
  <2>2. CASE \E i \in DOMAIN wait_queue :
                /\ waits_on' = [waits_on EXCEPT ![wait_queue[i]] = NULL]
                /\ Release(wait_queue[i])
    <3>1. PICK i \in DOMAIN wait_queue :
             /\ waits_on' = [waits_on EXCEPT ![wait_queue[i]] = NULL]
             /\ Release(wait_queue[i])
      BY <2>2
    <3>2. wait_queue[i] \in TaskId
      BY <1>0 DEF TypeOK
    <3> QED BY <1>0, <3>1, <3>2, ReleaseWaits
  <2> QED BY <1>2, <2>1, <2>2 DEF sk_set_flag, FlagMatches
<1>3. ASSUME NEW f, NEW p, sk_clear_flag(f, p) PROVE Goal
  BY <1>3 DEF sk_clear_flag, vars, tcbVars, eventTcbVars
<1>4. ASSUME NEW f, NEW p, NEW m, NEW d, sk_wait_flag(f, p, m, d) PROVE Goal
  <2>1. CASE UNCHANGED <<vars, waits_on>>
    BY <2>1 DEF vars, tcbVars
  <2>2. CASE /\ Running
             /\ waits_on' = [waits_on EXCEPT ![curr_task] = f]
             /\ Block("FLG", WaitTime(d), d)
    BY <1>0, <2>2, BlockWaits
  <2> QED BY <1>4, <2>1, <2>2 DEF sk_wait_flag
<1>5. UNCHANGED <<scb_table, wait_semaphore>>
  BY DEF FlagCall, sk_create_flag, sk_set_flag, sk_clear_flag, sk_wait_flag,
         eventTcbVars
<1> HIDE DEF Goal
<1>6. Goal
  BY <1>1, <1>2, <1>3, <1>4 DEF FlagCall
<1> QED BY <1>5, <1>6 DEF Goal

LEMMA SemaphoreCallKeepsFlags ==
    ASSUME EventTyped, SemaphoreCall
    PROVE  /\ UNCHANGED <<fcb_table, wait_pattern, wait_mode, flag_pattern>>
           /\ \A t \in TaskId : wait_factor'[t] = "FLG" =>
                 /\ wait_factor[t] = "FLG"
                 /\ state'[t] = state[t]
                 /\ waits_on'[t] = waits_on[t]
<1> DEFINE Goal == \A t \in TaskId : wait_factor'[t] = "FLG" =>
                      /\ wait_factor[t] = "FLG"
                      /\ state'[t] = state[t]
                      /\ waits_on'[t] = waits_on[t]
<1>0. TypeOK /\ waits_on \in [TaskId -> Nat]
  BY DEF EventTyped, Typed, EventTypeOK
<1>1. ASSUME NEW info, sk_create_semaphore(info) PROVE Goal
  BY <1>1 DEF sk_create_semaphore, vars, tcbVars, eventTcbVars
<1>2. ASSUME NEW s, NEW c, sk_signal_semaphore(s, c) PROVE Goal
  <2>1. CASE UNCHANGED <<vars, waits_on>>
    BY <2>1 DEF vars, tcbVars
  <2>2. CASE \E i \in SemaphoreWaiters : GiveUnits(i, s, c)
    <3>1. PICK i \in DOMAIN wait_queue :
             /\ waits_on' = [waits_on EXCEPT ![wait_queue[i]] = NULL]
             /\ Release(wait_queue[i])
      BY <2>2 DEF SemaphoreWaiters, GiveUnits
    <3>2. wait_queue[i] \in TaskId
      BY <1>0 DEF TypeOK
    <3> QED BY <1>0, <3>1, <3>2, ReleaseWaits
  <2> QED BY <1>2, <2>1, <2>2 DEF sk_signal_semaphore, KeepUnits
<1>3. ASSUME NEW s, NEW c, NEW d, sk_wait_semaphore(s, c, d) PROVE Goal
  <2>1. CASE UNCHANGED <<vars, waits_on>>
    BY <2>1 DEF vars, tcbVars
  <2>2. CASE /\ Running
             /\ waits_on' = [waits_on EXCEPT ![curr_task] = s]
             /\ Block("SEM", WaitTime(d), d)
    BY <1>0, <2>2, BlockWaits
  <2> QED BY <1>3, <2>1, <2>2 DEF sk_wait_semaphore
<1>4. UNCHANGED <<fcb_table, wait_pattern, wait_mode, flag_pattern>>
  BY DEF SemaphoreCall, sk_create_semaphore, sk_signal_semaphore,
         sk_wait_semaphore, eventTcbVars
<1> HIDE DEF Goal
<1>5. Goal
  BY <1>1, <1>2, <1>3 DEF SemaphoreCall
<1> QED BY <1>4, <1>5 DEF Goal

-----------------------------------------------------------------------------
(* The table of the semaphores.                                            *)

NewSemaphore(s, info) ==
    /\ scb_table[s].state = "NONEXIST"
    /\ scb_table' = [scb_table EXCEPT
                       ![s] = [state |-> "EXIST", value |-> info.initial_value,
                               max_value |-> info.max_value]]

NewValue(s, n) == scb_table' = [scb_table EXCEPT ![s].value = n]

LEMMA SemaphoreTable ==
    ASSUME EventTyped, SemaphoreCall
    PROVE  \/ \E s \in SemaphoreId, info \in SemaphoreInfos : NewSemaphore(s, info)
           \/ \E s \in SemaphoreId, n \in Int :
                 /\ NewValue(s, n)
                 /\ (UnitsInOrder /\ SemaphoreInRange)
                       => n \in 0 .. scb_table[s].max_value
<1> DEFINE InOrder(s, n) == (UnitsInOrder /\ SemaphoreInRange)
                              => n \in 0 .. scb_table[s].max_value
           Goal == \/ \E s \in SemaphoreId, info \in SemaphoreInfos :
                         NewSemaphore(s, info)
                   \/ \E s \in SemaphoreId, n \in Int : NewValue(s, n) /\ InOrder(s, n)
<1>0. /\ TypeOK /\ wait_semaphore \in [TaskId -> {0} \cup Counts]
      /\ scb_table \in SemaphoreTables
      /\ Counts \subseteq Int
      /\ \A info \in SemaphoreInfos : info.max_value \in Int
  BY EventAssumption DEF EventTyped, Typed, EventTypeOK, SemaphoreTables
<1>1. ASSUME NEW s \in SemaphoreId
      PROVE  /\ scb_table[s].value \in Int /\ scb_table[s].max_value \in Int
             /\ SemaphoreInRange => scb_table[s].value \in 0 .. scb_table[s].max_value
  BY <1>0 DEF SemaphoreTables, SemaphoreInRange
<1>2. ASSUME UnitsInOrder, NEW c \in Counts PROVE c > 0
  BY <1>2 DEF UnitsInOrder
<1>3. ASSUME NEW info \in SemaphoreInfos, sk_create_semaphore(info) PROVE Goal
  BY <1>3 DEF sk_create_semaphore, IsFree, NewSemaphore
<1>4. ASSUME NEW s \in SemaphoreId, NEW c \in Counts, sk_signal_semaphore(s, c)
      PROVE  Goal
  <2>1. c \in Int /\ scb_table[s].value + c <= scb_table[s].max_value
    BY <1>0, <1>4 DEF sk_signal_semaphore, HasRoom
  <2>2. ASSUME NEW i \in SemaphoreWaiters, GiveUnits(i, s, c) PROVE Goal
    <3> DEFINE w == wait_semaphore[wait_queue[i]]
               n == (scb_table[s].value + c) - w
    <3>1. w \in {0} \cup Counts
      BY <1>0 DEF SemaphoreWaiters, TypeOK
    <3>2. w \in Int /\ (UnitsInOrder => w >= 0)
      <4> HIDE DEF w
      <4>1. CASE w = 0
        BY <4>1
      <4>2. CASE w \in Counts
        <5>1. w \in Int
          BY <1>0, <4>2
        <5> QED BY <1>2, <4>2, <5>1
      <4> QED BY <3>1, <4>1, <4>2
    <3>3. n \in Int /\ n >= 0
      BY <1>1, <2>1, <2>2, <3>2 DEF GiveUnits, Grants
    <3>4. InOrder(s, n)
      BY <1>1, <2>1, <3>2, <3>3
    <3>5. NewValue(s, n)
      BY <2>2 DEF GiveUnits, NewValue
    <3> HIDE DEF n, InOrder
    <3> QED BY <3>3, <3>4, <3>5
  <2>3. CASE KeepUnits(s, c)
    <3> DEFINE n == scb_table[s].value + c
    <3>1. n \in Int /\ InOrder(s, n)
      BY <1>1, <1>2, <2>1
    <3>2. NewValue(s, n)
      BY <2>3 DEF KeepUnits, NewValue
    <3> HIDE DEF n, InOrder
    <3> QED BY <3>1, <3>2
  <2> QED BY <1>4, <2>2, <2>3 DEF sk_signal_semaphore
<1>5. ASSUME NEW s \in SemaphoreId, NEW c \in Counts, NEW d,
             sk_wait_semaphore(s, c, d)
      PROVE  Goal
  <2>1. c \in Int
    BY <1>0
  <2>2. CASE HasUnits(s, c)
    <3> DEFINE n == scb_table[s].value - c
    <3>1. n \in Int /\ InOrder(s, n)
      BY <1>1, <1>2, <2>1, <2>2 DEF HasUnits
    <3>2. NewValue(s, n)
      BY <1>5, <2>2 DEF sk_wait_semaphore, NewValue
    <3> HIDE DEF n, InOrder
    <3> QED BY <3>1, <3>2
  <2>3. CASE ~HasUnits(s, c)
    <3>1. scb_table' = scb_table
      BY <1>5, <2>3 DEF sk_wait_semaphore
    <3>2. NewValue(s, scb_table[s].value)
      BY <1>0, <3>1 DEF NewValue, SemaphoreTables
    <3>3. InOrder(s, scb_table[s].value)
      BY <1>1
    <3> HIDE DEF InOrder
    <3> QED BY <1>1, <3>2, <3>3
  <2> QED BY <2>2, <2>3
<1> HIDE DEF Goal
<1>6. Goal
  BY <1>3, <1>4, <1>5 DEF SemaphoreCall
<1> QED BY <1>6 DEF Goal

(* Semaphores are never deleted. *)
LEMMA SemaphoresStay ==
    ASSUME EventTyped, SemaphoreCall, NEW s \in SemaphoreId,
           scb_table[s].state = "EXIST"
    PROVE  scb_table'[s].state = "EXIST"
<1>1. scb_table \in SemaphoreTables
  BY DEF EventTyped, EventTypeOK, SemaphoreTables
<1>2. ASSUME NEW r \in SemaphoreId, NEW info, NewSemaphore(r, info)
      PROVE  scb_table'[s].state = "EXIST"
  BY <1>1, <1>2 DEF NewSemaphore, SemaphoreTables
<1>3. ASSUME NEW r \in SemaphoreId, NEW n, NewValue(r, n)
      PROVE  scb_table'[s].state = "EXIST"
  BY <1>1, <1>3 DEF NewValue, SemaphoreTables
<1> QED BY <1>2, <1>3, SemaphoreTable

(* A semaphore has between none and max_value units, whatever tasks        *)
(* signal, wait for and time out from: the test of sk_signal_semaphore     *)
(* comes before the units are given out.  It takes an application that     *)
(* keeps to UnitsInOrder: sk_create_semaphore stores any initial value, and*)
(* the other calls add and subtract any count, also a negative one.        *)
THEOREM SemaphoreRange ==
    ASSUME UnitsInOrder
    PROVE  EventSpec => []SemaphoreInRange
<1> DEFINE I == EventTyped /\ SemaphoreInRange
<1>1. EventInit => I
  BY EventTypedInit DEF EventInit, SemaphoreInRange
<1>2. I /\ [EventNext]_allVars => I'
  <2> SUFFICES ASSUME I, [EventNext]_allVars PROVE SemaphoreInRange'
    BY EventTypedStep
  <2>1. scb_table \in SemaphoreTables
    BY DEF EventTyped, EventTypeOK, SemaphoreTables
  <2>2. ASSUME NEW s \in SemaphoreId, NEW info \in SemaphoreInfos,
               NewSemaphore(s, info)
        PROVE  SemaphoreInRange'
    <3>1. info.initial_value \in 0 .. info.max_value
      BY DEF UnitsInOrder
    <3> QED BY <2>1, <2>2, <3>1 DEF NewSemaphore, SemaphoreInRange, SemaphoreTables
  <2>3. ASSUME NEW s \in SemaphoreId, NEW n \in 0 .. scb_table[s].max_value,
               NewValue(s, n)
        PROVE  SemaphoreInRange'
    BY <2>1, <2>3 DEF NewValue, SemaphoreInRange, SemaphoreTables
  <2>4. CASE scb_table' = scb_table
    BY <2>4 DEF SemaphoreInRange
  <2> QED BY <2>2, <2>3, <2>4, SemaphoreTable, FlagCallKeepsSemaphores
          DEF EventNext, allVars, eventVars
<1>3. I => SemaphoreInRange
  OBVIOUS
<1> HIDE DEF I
<1> QED BY <1>1, <1>2, <1>3, PTL DEF EventSpec

-----------------------------------------------------------------------------
(* The waits for semaphores.                                               *)

LEMMA SemaphoreCallWaits ==
    ASSUME EventTyped, SemaphoreCall, NEW t \in TaskId, wait_factor'[t] = "SEM"
    PROVE  \/ /\ wait_factor[t] = "SEM"
              /\ state'[t] = state[t]
              /\ waits_on'[t] = waits_on[t]
              /\ wait_semaphore'[t] = wait_semaphore[t]
           \/ \E s \in SemaphoreId, c \in Counts :
                 /\ scb_table[s].state = "EXIST" /\ ~HasUnits(s, c)
                 /\ waits_on'[t] = s /\ wait_semaphore'[t] = c
                 /\ scb_table' = scb_table
<1> DEFINE Goal ==
      \/ /\ wait_factor[t] = "SEM"
         /\ state'[t] = state[t]
         /\ waits_on'[t] = waits_on[t]
         /\ wait_semaphore'[t] = wait_semaphore[t]
      \/ \E s \in SemaphoreId, c \in Counts :
            /\ scb_table[s].state = "EXIST" /\ ~HasUnits(s, c)
            /\ waits_on'[t] = s /\ wait_semaphore'[t] = c
            /\ scb_table' = scb_table
<1>0. /\ TypeOK /\ waits_on \in [TaskId -> Nat]
      /\ wait_semaphore \in [TaskId -> {0} \cup Counts]
  BY DEF EventTyped, Typed, EventTypeOK
<1>1. ASSUME NEW info, sk_create_semaphore(info) PROVE Goal
  BY <1>1 DEF sk_create_semaphore, vars, tcbVars, eventTcbVars
<1>2. ASSUME NEW s, NEW c, sk_signal_semaphore(s, c) PROVE Goal
  <2>1. wait_semaphore' = wait_semaphore
    BY <1>2 DEF sk_signal_semaphore
  <2>2. CASE UNCHANGED <<vars, waits_on>>
    BY <2>1, <2>2 DEF vars, tcbVars
  <2>3. CASE \E i \in SemaphoreWaiters : GiveUnits(i, s, c)
    <3>1. PICK i \in DOMAIN wait_queue :
             /\ waits_on' = [waits_on EXCEPT ![wait_queue[i]] = NULL]
             /\ Release(wait_queue[i])
      BY <2>3 DEF SemaphoreWaiters, GiveUnits
    <3>2. wait_queue[i] \in TaskId
      BY <1>0 DEF TypeOK
    <3> QED BY <1>0, <2>1, <3>1, <3>2, ReleaseWaits
  <2> QED BY <1>2, <2>2, <2>3 DEF sk_signal_semaphore, KeepUnits
<1>3. ASSUME NEW s \in SemaphoreId, NEW c \in Counts, NEW d,
             sk_wait_semaphore(s, c, d)
      PROVE  Goal
  <2>1. CASE HasUnits(s, c)
    BY <1>3, <2>1 DEF sk_wait_semaphore, vars, tcbVars
  <2>2. CASE ~HasUnits(s, c)
    <3>1. /\ Running /\ Block("SEM", WaitTime(d), d)
          /\ scb_table[s].state = "EXIST"
          /\ waits_on' = [waits_on EXCEPT ![curr_task] = s]
          /\ wait_semaphore' = [wait_semaphore EXCEPT ![curr_task] = c]
          /\ scb_table' = scb_table
      BY <1>3, <2>2 DEF sk_wait_semaphore
    <3>2. CASE t = curr_task
      <4>1. waits_on'[t] = s /\ wait_semaphore'[t] = c
        BY <1>0, <3>1, <3>2
      <4> QED BY <2>2, <3>1, <4>1
    <3>3. CASE t # curr_task
      <4>1. wait_factor[t] = "SEM" /\ state'[t] = state[t]
        BY <1>0, <3>1, <3>3, BlockWaits
      <4> QED BY <1>0, <3>1, <3>3, <4>1
    <3> QED BY <3>2, <3>3
  <2> QED BY <2>1, <2>2
<1> HIDE DEF Goal
<1>4. Goal
  BY <1>1, <1>2, <1>3 DEF SemaphoreCall
<1> QED BY <1>4 DEF Goal

LEMMA SemaphoreWaitsInit == EventInit => SemaphoreWaitsKnown
BY DEF EventInit, Init, SemaphoreWaitsKnown

LEMMA SemaphoreWaitsStep ==
    ASSUME EventTyped, SemaphoreWaitsKnown, [EventNext]_allVars
    PROVE  SemaphoreWaitsKnown'
<1> SUFFICES ASSUME NEW t \in TaskId, wait_factor'[t] = "SEM"
             PROVE  /\ waits_on'[t] \in SemaphoreId
                    /\ wait_semaphore'[t] \in Counts
                    /\ scb_table'[waits_on'[t]].state = "EXIST"
  BY DEF SemaphoreWaitsKnown
<1>1. CASE FlagCall
  BY <1>1, FlagCallKeepsSemaphores DEF SemaphoreWaitsKnown
<1>2. CASE SemaphoreCall
  BY <1>2, SemaphoreCallWaits, SemaphoresStay DEF SemaphoreWaitsKnown
<1>3. CASE [Next]_vars /\ UNCHANGED eventVars
  <2>1. wait_factor[t] = "SEM"
    BY <1>3, NextKeepsWaits DEF EventTyped, EventFactors
  <2> QED BY <1>3, <2>1 DEF SemaphoreWaitsKnown, eventVars, eventTcbVars
<1> QED BY <1>1, <1>2, <1>3 DEF EventNext, allVars

-----------------------------------------------------------------------------
(* No unit lies idle.                                                      *)

(* A waiter in the queue: the first one is found. *)
LEMMA FirstWaiter ==
    ASSUME TypeOK, SemaphoreWaiters # {}
    PROVE  \E i \in SemaphoreWaiters : IsFirst(i, SemaphoreWaiters)
<1>1. DOMAIN wait_queue = 1 .. Len(wait_queue) /\ Len(wait_queue) \in Nat
  BY DEF TypeOK
<1>2. SemaphoreWaiters \subseteq DOMAIN wait_queue
  BY DEF SemaphoreWaiters
<1>3. SemaphoreWaiters \subseteq Nat
  BY <1>1, <1>2
<1> QED BY <1>3, SmallestExists DEF IsFirst

NoneFree ==
    \A t \in TaskId : (state[t] = "WAIT" /\ wait_factor[t] = "SEM")
                        => scb_table[waits_on[t]].value <= 0

LEMMA NoneFreeStep ==
    ASSUME SingleUnits, Inv, EventTyped, SemaphoreWaitsKnown, NoneFree,
           [EventNext]_allVars
    PROVE  NoneFree'
<1>0. /\ TypeOK /\ wait_semaphore \in [TaskId -> {0} \cup Counts]
      /\ scb_table \in SemaphoreTables
      /\ \A s \in SemaphoreId : scb_table[s].value \in Int
  BY DEF EventTyped, Typed, EventTypeOK, SemaphoreTables
<1>1. \A c \in Counts : c = 1
  BY DEF SingleUnits
<1> SUFFICES ASSUME NEW t \in TaskId, state'[t] = "WAIT", wait_factor'[t] = "SEM"
             PROVE  scb_table'[waits_on'[t]].value <= 0
  BY DEF NoneFree
<1> DEFINE Before == /\ state[t] = "WAIT" /\ wait_factor[t] = "SEM"
                     /\ waits_on'[t] = waits_on[t]
<1>2. Before => /\ waits_on[t] \in SemaphoreId
                /\ scb_table[waits_on[t]].state = "EXIST"
                /\ scb_table[waits_on[t]].value <= 0
  BY DEF SemaphoreWaitsKnown, NoneFree
<1>3. CASE FlagCall
  BY <1>2, <1>3, FlagCallKeepsSemaphores
<1>4. CASE [Next]_vars /\ UNCHANGED eventVars
  BY <1>2, <1>4, NextKeepsWaits
     DEF EventTyped, EventFactors, eventVars, eventTcbVars
<1>5. CASE SemaphoreCall
  <2>1. CASE /\ scb_table' = scb_table
             /\ \E s \in SemaphoreId, c \in Counts :
                   waits_on'[t] = s /\ ~HasUnits(s, c)
    BY <1>0, <1>1, <2>1 DEF HasUnits
  <2>2. CASE Before
    <3>1. ASSUME NEW info, sk_create_semaphore(info)
          PROVE  scb_table'[waits_on'[t]].value <= 0
      BY <1>0, <1>2, <2>2, <3>1 DEF sk_create_semaphore, IsFree, SemaphoreTables
    <3>2. ASSUME NEW s \in SemaphoreId, NEW c \in Counts, NEW d,
                 sk_wait_semaphore(s, c, d)
          PROVE  scb_table'[waits_on'[t]].value <= 0
      <4>1. CASE waits_on[t] = s
        <5>1. ~HasUnits(s, c)
          BY <1>0, <1>1, <1>2, <2>2, <4>1 DEF HasUnits
        <5> QED BY <1>2, <2>2, <3>2, <5>1 DEF sk_wait_semaphore
      <4>2. CASE waits_on[t] # s
        <5>1. \/ scb_table' = scb_table
              \/ scb_table' = [scb_table EXCEPT ![s].value = @ - c]
          BY <3>2 DEF sk_wait_semaphore
        <5> QED BY <1>0, <1>2, <2>2, <4>2, <5>1 DEF SemaphoreTables
      <4> QED BY <4>1, <4>2
    <3>3. ASSUME NEW s \in SemaphoreId, NEW c \in Counts,
                 sk_signal_semaphore(s, c)
          PROVE  scb_table'[waits_on'[t]].value <= 0
      <4>1. PICK j \in DOMAIN wait_queue : wait_queue[j] = t
        BY <2>2 DEF Inv, QueuesMatchStates, WaitQueueHoldsWaitingTasks, ToSet
      <4>2. SemaphoreWaiters # {}
        BY <2>2, <4>1 DEF SemaphoreWaiters
      <4>3. ASSUME NEW i \in SemaphoreWaiters
            PROVE  wait_semaphore[wait_queue[i]] = 1
        BY <1>0, <1>1 DEF SemaphoreWaiters, SemaphoreWaitsKnown, TypeOK
      <4>4. PICK i \in SemaphoreWaiters : IsFirst(i, SemaphoreWaiters)
        BY <1>0, <4>2, FirstWaiter
      <4>5. c = 1 /\ wait_semaphore[wait_queue[i]] = 1 /\ scb_table[s].value \in Int
        BY <1>0, <1>1, <4>3
      <4>6. CASE scb_table[s].value >= 0
        <5>1. Grants(i, scb_table[s].value + c)
          BY <4>4, <4>5, <4>6 DEF Grants
        <5>2. PICK k \in SemaphoreWaiters : GiveUnits(k, s, c)
          BY <3>3, <5>1 DEF sk_signal_semaphore, KeepUnits
        <5>3. scb_table' = [scb_table EXCEPT ![s].value =
                              (scb_table[s].value + c) - wait_semaphore[wait_queue[k]]]
          BY <5>2 DEF GiveUnits
        <5>4. (scb_table[s].value + c) - wait_semaphore[wait_queue[k]]
                = scb_table[s].value
          BY <4>3, <4>5
        <5>5. scb_table' = [scb_table EXCEPT ![s].value = scb_table[s].value]
          BY <5>3, <5>4
        <5> QED BY <1>0, <1>2, <2>2, <5>5 DEF SemaphoreTables
      <4>7. CASE scb_table[s].value < 0
        <5>1. \A k \in SemaphoreWaiters : ~Grants(k, scb_table[s].value + c)
          BY <4>3, <4>5, <4>7 DEF Grants
        <5>2. scb_table' = [scb_table EXCEPT ![s].value = scb_table[s].value + c]
          BY <3>3, <5>1 DEF sk_signal_semaphore, GiveUnits, KeepUnits
        <5>3. scb_table[s].value + c \in Int /\ scb_table[s].value + c <= 0
          BY <4>5, <4>7
        <5> QED BY <1>0, <1>2, <2>2, <5>2, <5>3 DEF SemaphoreTables
      <4> QED BY <4>5, <4>6, <4>7
    <3> QED BY <1>5, <3>1, <3>2, <3>3 DEF SemaphoreCall
  <2> QED BY <1>5, <2>1, <2>2, SemaphoreCallWaits
<1> QED BY <1>3, <1>4, <1>5 DEF EventNext, allVars

(* No task waits for a unit that is free.  It takes that units are asked   *)
(* for and given back one by one: with larger counts the first waiter may  *)
(* ask for more than there is and the loop ends at it, with smaller        *)
(* requests behind.                                                        *)
THEOREM UnitsNotIdle ==
    ASSUME AtMostTwoPerPriority, TimesInRange, EventTimesInRange, SingleUnits
    PROVE  EventSpec => []NoIdleUnits
<1> DEFINE I == Inv /\ EventTyped /\ SemaphoreWaitsKnown /\ NoneFree
<1>1. EventInit => I
  BY InitInv, EventTypedInit, SemaphoreWaitsInit DEF EventInit, Init, NoneFree
<1>2. I /\ [EventNext]_allVars => I'
  BY EventKernelStep, KernelInv, EventTypedStep, SemaphoreWaitsStep,
     NoneFreeStep DEF EventTyped, Typed
<1>3. I => NoIdleUnits
  <2>1. \A c \in Counts : c = 1
    BY DEF SingleUnits
  <2>2. ASSUME I, NEW s \in SemaphoreId PROVE scb_table[s].value \in Int
    BY <2>2 DEF EventTyped, EventTypeOK
  <2> QED BY <2>1, <2>2 DEF NoIdleUnits, WaitsFor, SemaphoreWaitsKnown, NoneFree
<1> HIDE DEF I
<1> QED BY <1>1, <1>2, <1>3, PTL DEF EventSpec

-----------------------------------------------------------------------------
(* The waits for flags.                                                    *)

LEMMA CheckMonotone ==
    ASSUME NEW p, NEW q, p \subseteq q, NEW wanted, NEW mode,
           check_flag(p, wanted, mode)
    PROVE  check_flag(q, wanted, mode)
BY DEF check_flag

LEMMA FlagCallWaits ==
    ASSUME EventTyped, FlagCall, NEW t \in TaskId, wait_factor'[t] = "FLG"
    PROVE  \/ /\ wait_factor[t] = "FLG"
              /\ state'[t] = state[t]
              /\ waits_on'[t] = waits_on[t]
              /\ wait_pattern'[t] = wait_pattern[t]
              /\ wait_mode'[t] = wait_mode[t]
           \/ \E f \in FlagId :
                 /\ t \in FlagWaiters
                 /\ fcb_table[f].state = "EXIST"
                 /\ waits_on'[t] = f
                 /\ ~check_flag(fcb_table[f].pattern, wait_pattern'[t], wait_mode'[t])
                 /\ fcb_table' = fcb_table
<1> DEFINE Goal ==
      \/ /\ wait_factor[t] = "FLG"
         /\ state'[t] = state[t]
         /\ waits_on'[t] = waits_on[t]
         /\ wait_pattern'[t] = wait_pattern[t]
         /\ wait_mode'[t] = wait_mode[t]
      \/ \E f \in FlagId :
            /\ t \in FlagWaiters
            /\ fcb_table[f].state = "EXIST"
            /\ waits_on'[t] = f
            /\ ~check_flag(fcb_table[f].pattern, wait_pattern'[t], wait_mode'[t])
            /\ fcb_table' = fcb_table
<1>0. /\ TypeOK /\ waits_on \in [TaskId -> Nat]
      /\ wait_pattern \in [TaskId -> {w[1] : w \in FlagWaits} \cup {{}}]
      /\ wait_mode \in [TaskId -> {w[2] : w \in FlagWaits} \cup {{}}]
  BY DEF EventTyped, Typed, EventTypeOK
<1>1. ASSUME NEW p, sk_create_flag(p) PROVE Goal
  BY <1>1 DEF sk_create_flag, vars, tcbVars, eventTcbVars
<1>2. ASSUME NEW f, NEW p, sk_set_flag(f, p) PROVE Goal
  <2>1. UNCHANGED <<wait_pattern, wait_mode>>
    BY <1>2 DEF sk_set_flag
  <2>2. CASE UNCHANGED <<vars, waits_on>>
    BY <2>1, <2>2 DEF vars, tcbVars
  <2>3. CASE \E i \in DOMAIN wait_queue :
                /\ waits_on' = [waits_on EXCEPT ![wait_queue[i]] = NULL]
                /\ Release(wait_queue[i])
    <3>1. PICK i \in DOMAIN wait_queue :
             /\ waits_on' = [waits_on EXCEPT ![wait_queue[i]] = NULL]
             /\ Release(wait_queue[i])
      BY <2>3
    <3>2. wait_queue[i] \in TaskId
      BY <1>0 DEF TypeOK
    <3> QED BY <1>0, <2>1, <3>1, <3>2, ReleaseWaits
  <2> QED BY <1>2, <2>2, <2>3 DEF sk_set_flag, FlagMatches
<1>3. ASSUME NEW f, NEW p, sk_clear_flag(f, p) PROVE Goal
  BY <1>3 DEF sk_clear_flag, vars, tcbVars, eventTcbVars
<1>4. ASSUME NEW f \in FlagId, NEW p, NEW m, NEW d, curr_task \in FlagWaiters,
             sk_wait_flag(f, p, m, d)
      PROVE  Goal
  <2>1. CASE check_flag(fcb_table[f].pattern, p, m)
    BY <1>4, <2>1 DEF sk_wait_flag, vars, tcbVars
  <2>2. CASE ~check_flag(fcb_table[f].pattern, p, m)
    <3>1. /\ Running /\ Block("FLG", WaitTime(d), d)
          /\ fcb_table[f].state = "EXIST"
          /\ waits_on' = [waits_on EXCEPT ![curr_task] = f]
          /\ wait_pattern' = [wait_pattern EXCEPT ![curr_task] = p]
          /\ wait_mode' = [wait_mode EXCEPT ![curr_task] = m]
          /\ fcb_table' = fcb_table
      BY <1>4, <2>2 DEF sk_wait_flag
    <3>2. CASE t = curr_task
      <4>1. waits_on'[t] = f /\ wait_pattern'[t] = p /\ wait_mode'[t] = m
        BY <1>0, <3>1, <3>2
      <4> QED BY <1>4, <2>2, <3>1, <3>2, <4>1
    <3>3. CASE t # curr_task
      <4>1. wait_factor[t] = "FLG" /\ state'[t] = state[t]
        BY <1>0, <3>1, <3>3, BlockWaits
      <4> QED BY <1>0, <3>1, <3>3, <4>1
    <3> QED BY <3>2, <3>3
  <2> QED BY <2>1, <2>2
<1> HIDE DEF Goal
<1>5. Goal
  BY <1>1, <1>2, <1>3, <1>4 DEF FlagCall
<1> QED BY <1>5 DEF Goal

(* Flags are never deleted. *)
LEMMA FlagsStay ==
    ASSUME EventTyped, FlagCall, NEW f \in FlagId, fcb_table[f].state = "EXIST"
    PROVE  fcb_table'[f].state = "EXIST"
<1> DEFINE Goal == fcb_table'[f].state = "EXIST"
<1>0. fcb_table \in [FlagId -> [state : {"NONEXIST", "EXIST"},
                                pattern : SUBSET Bits]]
  BY DEF EventTyped, EventTypeOK
<1>1. ASSUME NEW g, NEW q, fcb_table' = [fcb_table EXCEPT ![g].pattern = q]
      PROVE  Goal
  BY <1>0, <1>1
<1>2. ASSUME NEW p, sk_create_flag(p) PROVE Goal
  BY <1>0, <1>2 DEF sk_create_flag, IsFree
<1>3. ASSUME fcb_table' = fcb_table PROVE Goal
  BY <1>3
<1> HIDE DEF Goal
<1>4. ASSUME NEW g, NEW p, sk_set_flag(g, p) PROVE Goal
  BY <1>1, <1>4 DEF sk_set_flag
<1>5. ASSUME NEW g, NEW p, sk_clear_flag(g, p) PROVE Goal
  BY <1>1, <1>5 DEF sk_clear_flag
<1>6. ASSUME NEW g, NEW p, NEW m, NEW d, sk_wait_flag(g, p, m, d) PROVE Goal
  <2>1. CASE check_flag(fcb_table[g].pattern, p, m)
    BY <1>1, <1>6, <2>1 DEF sk_wait_flag
  <2>2. CASE ~check_flag(fcb_table[g].pattern, p, m)
    BY <1>3, <1>6, <2>2 DEF sk_wait_flag
  <2> QED BY <2>1, <2>2
<1>7. Goal
  BY <1>2, <1>4, <1>5, <1>6 DEF FlagCall
<1> QED BY <1>7 DEF Goal

LEMMA FlagWaitsInit == EventInit => FlagWaitsKnown
BY DEF EventInit, Init, FlagWaitsKnown

LEMMA FlagWaitsStep ==
    ASSUME EventTyped, FlagWaitsKnown, [EventNext]_allVars
    PROVE  FlagWaitsKnown'
<1> SUFFICES ASSUME NEW t \in TaskId, wait_factor'[t] = "FLG"
             PROVE  /\ t \in FlagWaiters
                    /\ waits_on'[t] \in FlagId
                    /\ fcb_table'[waits_on'[t]].state = "EXIST"
  BY DEF FlagWaitsKnown
<1>1. CASE SemaphoreCall
  BY <1>1, SemaphoreCallKeepsFlags DEF FlagWaitsKnown
<1>2. CASE FlagCall
  BY <1>2, FlagCallWaits, FlagsStay DEF FlagWaitsKnown
<1>3. CASE [Next]_vars /\ UNCHANGED eventVars
  <2>1. wait_factor[t] = "FLG"
    BY <1>3, NextKeepsWaits DEF EventTyped, EventFactors
  <2> QED BY <1>3, <2>1 DEF FlagWaitsKnown, eventVars, eventTcbVars
<1> QED BY <1>1, <1>2, <1>3 DEF EventNext, allVars

-----------------------------------------------------------------------------
(* No task misses its flag.                                                *)

Unsatisfied ==
    \A t \in TaskId : (state[t] = "WAIT" /\ wait_factor[t] = "FLG") =>
        ~check_flag(fcb_table[waits_on[t]].pattern, wait_pattern[t], wait_mode[t])

LEMMA UnsatisfiedStep ==
    ASSUME OneFlagWaiter, Inv, EventTyped, FlagWaitsKnown, Unsatisfied,
           [EventNext]_allVars
    PROVE  Unsatisfied'
<1>0. /\ TypeOK
      /\ fcb_table \in [FlagId -> [state : {"NONEXIST", "EXIST"},
                                   pattern : SUBSET Bits]]
  BY DEF EventTyped, Typed, EventTypeOK
<1> SUFFICES ASSUME NEW t \in TaskId, state'[t] = "WAIT", wait_factor'[t] = "FLG"
             PROVE  ~check_flag(fcb_table'[waits_on'[t]].pattern,
                                wait_pattern'[t], wait_mode'[t])
  BY DEF Unsatisfied
<1> DEFINE Goal == ~check_flag(fcb_table'[waits_on'[t]].pattern,
                               wait_pattern'[t], wait_mode'[t])
           Before == /\ state[t] = "WAIT" /\ wait_factor[t] = "FLG"
                     /\ waits_on'[t] = waits_on[t]
                     /\ wait_pattern'[t] = wait_pattern[t]
                     /\ wait_mode'[t] = wait_mode[t]
           f == waits_on[t]
<1>1. Before => /\ t \in FlagWaiters /\ f \in FlagId
                /\ fcb_table[f].state = "EXIST"
                /\ ~check_flag(fcb_table[f].pattern, wait_pattern[t], wait_mode[t])
  BY DEF FlagWaitsKnown, Unsatisfied
(* The pattern of the flag of t does not grow. *)
<1>2. ASSUME Before, fcb_table'[f].pattern \subseteq fcb_table[f].pattern
      PROVE  Goal
  BY <1>1, <1>2, CheckMonotone
<1> HIDE DEF Goal
<1>3. CASE SemaphoreCall
  <2>1. Before /\ fcb_table' = fcb_table
    BY <1>3, SemaphoreCallKeepsFlags
  <2> QED BY <1>2, <2>1 DEF Goal
<1>4. CASE [Next]_vars /\ UNCHANGED eventVars
  <2>1. Before /\ fcb_table' = fcb_table
    BY <1>4, NextKeepsWaits DEF EventTyped, EventFactors, eventVars, eventTcbVars
  <2> QED BY <1>2, <2>1 DEF Goal
<1>5. CASE FlagCall
  <2>1. CASE \E g \in FlagId :
                /\ waits_on'[t] = g /\ fcb_table' = fcb_table
                /\ ~check_flag(fcb_table[g].pattern, wait_pattern'[t], wait_mode'[t])
    BY <2>1
  <2>2. CASE Before
    <3>1. ASSUME NEW p, sk_create_flag(p) PROVE Goal
      <4>1. PICK g \in FlagId :
               /\ fcb_table[g].state = "NONEXIST"
               /\ fcb_table' = [fcb_table EXCEPT
                                  ![g] = [state |-> "EXIST", pattern |-> p]]
        BY <3>1 DEF sk_create_flag, IsFree
      <4>2. f # g
        BY <1>1, <2>2, <4>1
      <4>3. fcb_table'[f].pattern = fcb_table[f].pattern
        BY <1>0, <1>1, <2>2, <4>1, <4>2
      <4> QED BY <1>2, <2>2, <4>3
    <3>2. ASSUME NEW g \in FlagId, NEW p, sk_set_flag(g, p) PROVE Goal
      <4> DEFINE pattern == fcb_table[g].pattern \cup p
      <4>1. PICK j \in DOMAIN wait_queue : wait_queue[j] = t
        BY <2>2 DEF Inv, QueuesMatchStates, WaitQueueHoldsWaitingTasks, ToSet
      <4>2. CASE FlagMatches(pattern) = {}
        <5>1. ~check_flag(pattern, wait_pattern[t], wait_mode[t])
          BY <2>2, <4>1, <4>2 DEF FlagMatches
        <5>2. fcb_table' = [fcb_table EXCEPT ![g].pattern = pattern]
          BY <3>2, <4>2 DEF sk_set_flag
        <5>3. CASE f = g
          <6>1. fcb_table'[f].pattern = pattern
            BY <1>0, <5>2, <5>3
          <6> QED BY <2>2, <5>1, <6>1 DEF Goal
        <5>4. CASE f # g
          <6>1. fcb_table'[f].pattern = fcb_table[f].pattern
            BY <1>0, <1>1, <2>2, <5>2, <5>4
          <6> QED BY <1>2, <2>2, <6>1
        <5> QED BY <5>3, <5>4
      <4>3. CASE FlagMatches(pattern) # {}
        <5>1. PICK i \in FlagMatches(pattern) : Release(wait_queue[i])
          BY <3>2, <4>3 DEF sk_set_flag
        <5>2. /\ wait_queue[i] \in TaskId
              /\ wait_factor[wait_queue[i]] = "FLG"
          BY <1>0 DEF FlagMatches, TypeOK
        <5>3. wait_queue[i] = t
          BY <1>1, <2>2, <5>2 DEF FlagWaitsKnown, OneFlagWaiter
        <5>4. state'[t] = "READY"
          BY <1>0, <5>1, <5>3, ReleaseWaits
        <5> QED BY <5>4
      <4> QED BY <4>2, <4>3
    <3>3. ASSUME NEW g \in FlagId, NEW p, sk_clear_flag(g, p) PROVE Goal
      <4>1. fcb_table' = [fcb_table EXCEPT ![g].pattern = @ \cap p]
        BY <3>3 DEF sk_clear_flag
      <4>2. fcb_table'[f].pattern \subseteq fcb_table[f].pattern
        BY <1>0, <1>1, <2>2, <4>1
      <4> QED BY <1>2, <2>2, <4>2
    <3>4. ASSUME NEW g \in FlagId, NEW p, NEW m, NEW d, sk_wait_flag(g, p, m, d)
          PROVE  Goal
      <4>1. \/ fcb_table' = fcb_table
            \/ fcb_table' = [fcb_table EXCEPT ![g].pattern =
                               Consumed(fcb_table[g].pattern, p, m)]
        BY <3>4 DEF sk_wait_flag
      <4>2. Consumed(fcb_table[g].pattern, p, m) \subseteq fcb_table[g].pattern
        BY ConsumedIsSubset
      <4>3. fcb_table'[f].pattern \subseteq fcb_table[f].pattern
        BY <1>0, <1>1, <2>2, <4>1, <4>2
      <4> QED BY <1>2, <2>2, <4>3
    <3>5. Goal
      BY <1>5, <3>1, <3>2, <3>3, <3>4 DEF FlagCall
    <3> QED BY <3>5 DEF Goal
  <2>3. Before \/ \E g \in FlagId :
                     /\ waits_on'[t] = g /\ fcb_table' = fcb_table
                     /\ ~check_flag(fcb_table[g].pattern, wait_pattern'[t],
                                    wait_mode'[t])
    BY <1>5, FlagCallWaits
  <2> QED BY <2>1, <2>2, <2>3 DEF Goal
<1> QED BY <1>3, <1>4, <1>5 DEF EventNext, allVars

(* A task does not go on waiting for a flag that holds its pattern.  It    *)
(* takes that one task waits for flags: the call that sets a flag ends the *)
(* wait of one task only, the first it finds (run missed_flag).            *)
THEOREM FlagsNotMissed ==
    ASSUME AtMostTwoPerPriority, TimesInRange, EventTimesInRange, OneFlagWaiter
    PROVE  EventSpec => []NoMissedFlag
<1> DEFINE I == Inv /\ EventTyped /\ FlagWaitsKnown /\ Unsatisfied
<1>1. EventInit => I
  BY InitInv, EventTypedInit, FlagWaitsInit DEF EventInit, Init, Unsatisfied
<1>2. I /\ [EventNext]_allVars => I'
  BY EventKernelStep, KernelInv, EventTypedStep, FlagWaitsStep,
     UnsatisfiedStep DEF EventTyped, Typed
<1>3. I => NoMissedFlag
  BY DEF NoMissedFlag, WaitsFor, Unsatisfied
<1> HIDE DEF I
<1> QED BY <1>1, <1>2, <1>3, PTL DEF EventSpec

-----------------------------------------------------------------------------
(* How a wait for a flag ends.                                             *)

(* The task manager ends such a wait by its timeout only. *)
LEMMA NextEndsWait ==
    ASSUME Typed, [Next]_vars, NEW t \in TaskId,
           state[t] = "WAIT", wait_factor[t] \in EventFactors, state'[t] = "READY"
    PROVE  wait_err'[t] = "E_TMOUT"
<1> USE DEF EventFactors
<1>0. TypeOK
  BY DEF Typed
<1>1. CASE main
  BY <1>0, <1>1 DEF main, TypeOK
<1>2. CASE systimer_handler
  BY <1>2 DEF systimer_handler
<1>3. CASE dispatch_entry \/ dispatch_loop_exit
  BY <1>3 DEF dispatch_entry, dispatch_loop_exit, tcbVars
<1>4. CASE UNCHANGED vars
  BY <1>4 DEF vars, tcbVars
<1>5. CASE SystemCall
  <2>1. CASE sk_create_task \/ sk_exit_task
    BY <1>0, <2>1 DEF sk_create_task, sk_exit_task, TypeOK
  <2>2. CASE \E u \in TaskId : sk_start_task(u)
    BY <1>0, <2>2 DEF sk_start_task, TypeOK
  <2>3. CASE \E d \in DelayTimes : sk_delay_task(d)
    BY <1>0, <2>3 DEF sk_delay_task, Block, TypeOK
  <2>4. CASE \E d \in Timeouts : sk_sleep_task(d)
    BY <1>0, <2>4 DEF sk_sleep_task, Block, TypeOK
  <2>5. CASE \E u \in TaskId : sk_wakeup_task(u)
    BY <1>0, <2>5 DEF sk_wakeup_task, Release, TypeOK
  <2> QED BY <1>5, <2>1, <2>2, <2>3, <2>4, <2>5 DEF SystemCall
<1> QED BY <1>1, <1>2, <1>3, <1>4, <1>5 DEF Next

LEMMA FlagWaitEnds ==
    ASSUME OneFlag, EventTyped, [EventNext]_allVars, NEW t \in TaskId,
           NEW f \in FlagId, WaitsFor(t, "FLG", f),
           state'[t] = "READY", wait_err'[t] = "E_OK"
    PROVE  /\ check_flag(flag_pattern'[t], wait_pattern[t], wait_mode[t])
           /\ fcb_table'[f].pattern
                = Consumed(flag_pattern'[t], wait_pattern[t], wait_mode[t])
<1> DEFINE Goal ==
      /\ check_flag(flag_pattern'[t], wait_pattern[t], wait_mode[t])
      /\ fcb_table'[f].pattern
           = Consumed(flag_pattern'[t], wait_pattern[t], wait_mode[t])
<1>0. /\ TypeOK
      /\ fcb_table \in [FlagId -> [state : {"NONEXIST", "EXIST"},
                                   pattern : SUBSET Bits]]
      /\ flag_pattern \in [TaskId -> SUBSET Bits]
      /\ state[t] = "WAIT" /\ wait_factor[t] = "FLG"
  BY DEF EventTyped, Typed, EventTypeOK, WaitsFor
<1>1. \A g \in FlagId : g = f
  BY EventAssumption DEF OneFlag, FlagId
<1>2. state'[t] # state[t]
  BY <1>0
<1> HIDE DEF Goal
<1>3. ASSUME [Next]_vars PROVE FALSE
  BY <1>0, <1>3, NextEndsWait DEF EventTyped, EventFactors
<1>4. ASSUME SemaphoreCall PROVE FALSE
  <2>1. ASSUME NEW info, sk_create_semaphore(info) PROVE FALSE
    BY <1>2, <2>1 DEF sk_create_semaphore, vars, tcbVars
  <2>2. ASSUME NEW s, NEW c, sk_signal_semaphore(s, c) PROVE FALSE
    <3>1. CASE UNCHANGED vars
      BY <1>2, <3>1 DEF vars, tcbVars
    <3>2. CASE \E i \in SemaphoreWaiters : Release(wait_queue[i])
      <4>1. PICK i \in SemaphoreWaiters : Release(wait_queue[i])
        BY <3>2
      <4>2. wait_queue[i] \in TaskId /\ wait_factor[wait_queue[i]] = "SEM"
        BY <1>0 DEF SemaphoreWaiters, TypeOK
      <4> QED BY <1>0, <1>2, <4>1, <4>2, ReleaseWaits
    <3> QED BY <2>2, <3>1, <3>2 DEF sk_signal_semaphore, GiveUnits, KeepUnits
  <2>3. ASSUME NEW s, NEW c, NEW d, sk_wait_semaphore(s, c, d) PROVE FALSE
    <3>1. CASE UNCHANGED vars
      BY <1>2, <3>1 DEF vars, tcbVars
    <3>2. CASE Running /\ Block("SEM", WaitTime(d), d)
      BY <1>0, <3>2, BlockWaits
    <3> QED BY <2>3, <3>1, <3>2 DEF sk_wait_semaphore
  <2> QED BY <1>4, <2>1, <2>2, <2>3 DEF SemaphoreCall
<1>5. ASSUME FlagCall PROVE Goal
  <2>1. ASSUME UNCHANGED vars PROVE Goal
    BY <1>2, <2>1 DEF vars, tcbVars
  <2>2. ASSUME NEW p, sk_create_flag(p) PROVE Goal
    BY <2>1, <2>2 DEF sk_create_flag
  <2>3. ASSUME NEW g \in FlagId, NEW p \in FlagSets, sk_set_flag(g, p) PROVE Goal
    <3> DEFINE pattern == fcb_table[g].pattern \cup p
    <3>1. CASE FlagMatches(pattern) = {}
      BY <2>1, <2>3, <3>1 DEF sk_set_flag
    <3>2. CASE FlagMatches(pattern) # {}
      <4>1. PICK i \in FlagMatches(pattern) :
               /\ fcb_table' = [fcb_table EXCEPT ![g].pattern =
                      Consumed(pattern, wait_pattern[wait_queue[i]],
                               wait_mode[wait_queue[i]])]
               /\ flag_pattern' = [flag_pattern EXCEPT ![wait_queue[i]] = pattern]
               /\ Release(wait_queue[i])
        BY <2>3, <3>2 DEF sk_set_flag
      <4>2. wait_queue[i] \in TaskId
        BY <1>0 DEF FlagMatches, TypeOK
      <4>3. wait_queue[i] = t
        BY <1>0, <1>2, <4>1, <4>2, ReleaseWaits
      <4>4. check_flag(pattern, wait_pattern[t], wait_mode[t])
        BY <4>3 DEF FlagMatches
      <4> HIDE DEF pattern
      <4>5. flag_pattern'[t] = pattern
        BY <1>0, <4>1, <4>3
      <4>6. fcb_table'[f].pattern = Consumed(pattern, wait_pattern[t], wait_mode[t])
        BY <1>0, <1>1, <4>1, <4>3
      <4> QED BY <4>4, <4>5, <4>6 DEF Goal
    <3> QED BY <3>1, <3>2
  <2>4. ASSUME NEW g, NEW p, sk_clear_flag(g, p) PROVE Goal
    BY <2>1, <2>4 DEF sk_clear_flag
  <2>5. ASSUME NEW g, NEW p, NEW m, NEW d, sk_wait_flag(g, p, m, d) PROVE Goal
    <3>1. ASSUME Running, Block("FLG", WaitTime(d), d) PROVE FALSE
      BY <1>0, <3>1, BlockWaits
    <3> QED BY <2>1, <2>5, <3>1 DEF sk_wait_flag
  <2> QED BY <1>5, <2>2, <2>3, <2>4, <2>5 DEF FlagCall
<1> QED BY <1>3, <1>4, <1>5 DEF EventNext, allVars, Goal

(* A flag wait that ends with E_OK reports a pattern that satisfies it,    *)
(* and its flag is left as its mode asks for.  It takes that there is one  *)
(* flag: sk_set_flag takes a waiter of any flag.                           *)
THEOREM FlagWaitsSatisfied ==
    ASSUME OneFlag
    PROVE  EventSpec => FlagWaitIsSatisfied
<1> DEFINE Step == \A t \in TaskId, f \in FlagId :
                     (WaitsFor(t, "FLG", f) /\ state'[t] = "READY"
                                          /\ wait_err'[t] = "E_OK") =>
                        /\ check_flag(flag_pattern'[t], wait_pattern[t], wait_mode[t])
                        /\ fcb_table'[f].pattern
                             = Consumed(flag_pattern'[t], wait_pattern[t], wait_mode[t])
<1>1. EventTyped /\ [EventNext]_allVars => [Step]_allVars
  BY FlagWaitEnds
<1> HIDE DEF Step
<1>2. EventSpec => [][Step]_allVars
  BY <1>1, EventTypedInit, EventTypedStep, PTL DEF EventSpec
<1> QED BY <1>2 DEF Step, FlagWaitIsSatisfied
=============================================================================
