----------------------------- MODULE I2cProofs -----------------------------
(***************************************************************************)
(* Proofs about the I2C driver: it is a client of the semaphores, so that  *)
(* what is proved of them holds of a system with the driver too, and the   *)
(* unit's semaphore keeps the transfers of its tasks apart, for any number *)
(* of tasks and bytes and wherever the tasks are preempted.                *)
(***************************************************************************)
EXTENDS I2c, EventProofs

(* One of the two units is used: the signal at the end of a transfer on    *)
(* one unit may end a wait for the other.                                  *)
OneDevice == \A c, d \in Devices : c = d

Phase == {"idle", "begin", "send", "receive", "stop"}
Size == 0 .. (RELTIME_MOD - 1)

I2cTypeOK ==
    /\ device_table \in [Units -> [open_count : {0, 1},
                                   open_mode : SUBSET {"READ", "WRITE"}]]
    /\ ll_devcb \in [Units -> [semid : Nat, sdat_num : Size, rdat_num : Size]]
    /\ phase \in [TaskId -> Phase]
    /\ request \in [TaskId -> [unit : Units, send : Size, receive : Size]]

(* An open unit has a semaphore, and transfers are on open units. *)
OpenUnits ==
    /\ \A u \in Units : device_table[u].open_count > 0
                          => ll_devcb[u].semid \in SemaphoreId
    /\ \A t \in TaskId : phase[t] # "idle" =>
          /\ request[t].unit \in Devices
          /\ device_table[request[t].unit].open_count > 0

DriverTyped == Typed /\ I2cTypeOK /\ OpenUnits

-----------------------------------------------------------------------------
(* The steps.                                                              *)

OtherCall ==
    /\ Running /\ phase[curr_task] = "idle"
    /\ \/ sk_create_task \/ sk_exit_task
       \/ \E t \in TaskId : sk_start_task(t)
       \/ \E d \in DelayTimes : sk_delay_task(d)

KernelOnly == (OtherCall \/ main \/ systimer_handler \/ dispatch_entry
                         \/ dispatch_loop_exit)
              /\ UNCHANGED <<eventVars, i2cVars>>

LEMMA SizeFacts ==
    /\ RELTIME_MOD \in Nat /\ RELTIME_MOD > 1
    /\ 0 \in Size /\ 1 \in Size /\ Sizes \subseteq Size
    /\ Devices \subseteq Units
    /\ \A n \in Size : /\ Less(n) \in Size
                       /\ n > 0 => Less(n) = n - 1
<1>1. RELTIME_MOD \in Nat /\ RELTIME_MOD > 1
  BY TaskManagerAssumption
<1>2. 0 \in Size /\ 1 \in Size /\ Sizes \subseteq Size /\ Devices \subseteq Units
  BY <1>1, I2cAssumption DEF Size
<1>3. ASSUME NEW n \in Size
      PROVE  /\ Less(n) \in Size
             /\ n > 0 => Less(n) = n - 1
  <2>1. n - 1 \in Int /\ (n - 1) % RELTIME_MOD \in Size
    BY <1>1 DEF Size
  <2>2. n > 0 => (n - 1) % RELTIME_MOD = n - 1
    BY <1>1 DEF Size
  <2> QED BY <2>1, <2>2 DEF Less
<1> QED BY <1>1, <1>2, <1>3

LEMMA I2cCases ==
    ASSUME [I2cNext]_systemVars
    PROVE  \/ \E d \in Devices, mode \in OpenModes : sk_open_device(d, mode)
           \/ \E d \in Devices, mode \in {"READ", "WRITE"}, s, r \in Size :
                 Begin(d, mode, s, r)
           \/ i2c_trans
           \/ KernelOnly
           \/ UNCHANGED systemVars
<1>1. CASE Running /\ Client
  <2>1. \A d, n : dev_i2c_read(d, n) => Begin(d, "READ", 0, n)
    BY DEF dev_i2c_read
  <2>2. \A d, n : dev_i2c_write(d, n) => \/ Begin(d, "WRITE", n, 0)
                                         \/ Begin(d, "WRITE", 1, 1)
    BY DEF dev_i2c_write
  <2> QED BY <1>1, <2>1, <2>2, SizeFacts DEF Client, KernelOnly, OtherCall
<1>2. CASE Interrupt
  BY <1>2 DEF Interrupt, KernelOnly
<1> QED BY <1>1, <1>2 DEF I2cNext

(* The semaphore calls of the driver. *)
LEMMA DriverCallsSemaphores ==
    /\ \A u : dev_i2c_open(u) => SemaphoreCall
    /\ \A s \in SemaphoreId :
          /\ sk_wait_semaphore(s, 1, TMO_FEVR) => SemaphoreCall
          /\ sk_signal_semaphore(s, 1) => SemaphoreCall
BY DriverCalls DEF SemaphoreCall, dev_i2c_open

LEMMA DriverIsClient ==
    ASSUME DriverTyped, [I2cNext]_systemVars
    PROVE  [EventNext]_allVars
<1>1. ASSUME NEW d, NEW mode, sk_open_device(d, mode) PROVE SemaphoreCall
  BY <1>1, DriverCallsSemaphores DEF sk_open_device
<1>2. ASSUME NEW d \in Devices, NEW mode, NEW s, NEW r, Begin(d, mode, s, r)
      PROVE  SemaphoreCall
  <2>1. ll_devcb[d].semid \in SemaphoreId
    BY <1>2, SizeFacts DEF Begin, Permitted, DriverTyped, OpenUnits
  <2> QED BY <1>2, <2>1, DriverCallsSemaphores DEF Begin
<1>3. CASE set_com_start \/ i2c_send \/ i2c_receive
  BY <1>3 DEF set_com_start, i2c_send, i2c_receive, GoTo
<1>4. ASSUME i2c_stop PROVE SemaphoreCall
  <2>1. curr_task \in TaskId /\ phase[curr_task] # "idle"
    BY <1>4 DEF i2c_stop, InPhase, Running, DriverTyped, Typed, TypeOK
  <2>2. ll_devcb[unit].semid \in SemaphoreId
    BY <2>1, SizeFacts DEF DriverTyped, OpenUnits, unit
  <2> QED BY <1>4, <2>2, DriverCallsSemaphores DEF i2c_stop
<1>5. ASSUME KernelOnly PROVE Next /\ UNCHANGED eventVars
  BY <1>5 DEF KernelOnly, OtherCall, Next, SystemCall
<1>6. CASE UNCHANGED systemVars
  BY <1>6 DEF systemVars
<1> QED BY <1>1, <1>2, <1>3, <1>4, <1>5, <1>6, I2cCases
        DEF i2c_trans, EventNext

(* What the steps of a transfer do to the driver's variables. *)
LEMMA TransferStep ==
    ASSUME TypeOK, I2cTypeOK, i2c_trans
    PROVE  /\ curr_task \in TaskId /\ phase[curr_task] # "idle"
           /\ device_table' = device_table
           /\ \A t \in TaskId \ {curr_task} : /\ phase'[t] = phase[t]
                                              /\ request'[t] = request[t]
           /\ phase'[curr_task] \in Phase
           /\ phase'[curr_task] # "idle" => request' = request
<1>1. curr_task \in TaskId /\ phase[curr_task] # "idle"
  BY DEF i2c_trans, set_com_start, i2c_send, i2c_receive, i2c_stop, InPhase,
         Running, TypeOK
<1>2. ASSUME NEW name \in Phase \ {"idle"}, GoTo(name)
      PROVE  /\ device_table' = device_table
             /\ request' = request
             /\ phase' = [phase EXCEPT ![curr_task] = name]
  BY <1>2 DEF GoTo
<1> QED BY <1>1 DEF i2c_trans, set_com_start, i2c_send, i2c_receive, i2c_stop,
                    GoTo, I2cTypeOK, Phase

LEMMA DriverTypedInit == I2cInit => DriverTyped
<1> SUFFICES ASSUME I2cInit PROVE I2cTypeOK /\ OpenUnits
  BY InitTyped DEF I2cInit, EventInit, DriverTyped
<1>1. I2cTypeOK
  BY SizeFacts DEF I2cInit, I2cTypeOK, Units, NoRequest, Phase
<1>2. OpenUnits
  BY DEF I2cInit, OpenUnits
<1> QED BY <1>1, <1>2

LEMMA DriverTypedStep ==
    ASSUME DriverTyped, [I2cNext]_systemVars
    PROVE  DriverTyped'
<1>1. Typed'
  BY DriverIsClient, EventKernelStep, KernelTyped DEF DriverTyped, Typed
<1> USE DEF DriverTyped
<1>2. CASE UNCHANGED i2cVars
  BY <1>1, <1>2 DEF i2cVars, I2cTypeOK, OpenUnits
<1>3. ASSUME NEW d \in Devices, NEW mode \in OpenModes, sk_open_device(d, mode)
      PROVE  I2cTypeOK' /\ OpenUnits'
  <2>1. PICK s \in SemaphoreId : ll_devcb' = [ll_devcb EXCEPT ![d].semid = s]
    BY <1>3 DEF sk_open_device, dev_i2c_open
  <2>2. /\ device_table' = [device_table EXCEPT
                              ![d] = [open_count |-> 1, open_mode |-> mode]]
        /\ UNCHANGED <<phase, request>>
    BY <1>3 DEF sk_open_device
  <2>3. /\ s \in Nat /\ d \in Units /\ mode \in SUBSET {"READ", "WRITE"}
    BY I2cAssumption, EventAssumption DEF SemaphoreId
  <2>4. I2cTypeOK'
    BY <2>1, <2>2, <2>3 DEF I2cTypeOK
  <2>5. OpenUnits'
    BY <2>1, <2>2, <2>3, SizeFacts DEF I2cTypeOK, OpenUnits
  <2> QED BY <2>4, <2>5
<1>4. ASSUME NEW d \in Devices, NEW mode, NEW s \in Size, NEW r \in Size,
             Begin(d, mode, s, r)
      PROVE  I2cTypeOK' /\ OpenUnits'
  <2>1. /\ phase' = [phase EXCEPT ![curr_task] = "begin"]
        /\ request' = [request EXCEPT ![curr_task] =
                         [unit |-> d, send |-> s, receive |-> r]]
        /\ UNCHANGED <<device_table, ll_devcb>>
        /\ device_table[d].open_count > 0
    BY <1>4 DEF Begin, Permitted
  <2>2. d \in Units
    BY SizeFacts
  <2>3. I2cTypeOK'
    BY <2>1, <2>2 DEF I2cTypeOK, Phase
  <2>4. OpenUnits'
    BY <2>1, <2>2 DEF I2cTypeOK, OpenUnits
  <2> QED BY <2>3, <2>4
<1>5. ASSUME i2c_trans PROVE I2cTypeOK' /\ OpenUnits'
  <2>1. curr_task \in TaskId /\ phase[curr_task] # "idle" /\ unit \in Units
    BY <1>5, TransferStep DEF Typed, I2cTypeOK, unit
  <2> DEFINE Kept == /\ ll_devcb' \in [Units -> [semid : Nat, sdat_num : Size,
                                                 rdat_num : Size]]
                     /\ \A u \in Units : ll_devcb'[u].semid = ll_devcb[u].semid
             Moved == /\ phase' \in [TaskId -> Phase]
                      /\ request' \in [TaskId -> [unit : Units, send : Size,
                                                  receive : Size]]
  <2>2. ll_devcb \in [Units -> [semid : Nat, sdat_num : Size, rdat_num : Size]]
    BY DEF I2cTypeOK
  <2>3. ASSUME NEW name \in Phase, GoTo(name) PROVE Moved
    BY <2>1, <2>3 DEF GoTo, I2cTypeOK
  <2>4. ASSUME set_com_start PROVE Kept /\ Moved
    <3>1. PICK m \in Size, n \in Size :
             ll_devcb' = [ll_devcb EXCEPT ![unit].sdat_num = m, ![unit].rdat_num = n]
      BY <2>1, <2>4 DEF set_com_start, I2cTypeOK
    <3>2. Kept
      BY <2>1, <2>2, <3>1
    <3>3. Moved
      BY <2>4, <2>3 DEF set_com_start, Phase
    <3> QED BY <3>2, <3>3
  <2>5. ASSUME i2c_send PROVE Kept /\ Moved
    <3>1. PICK n \in Size : ll_devcb' = [ll_devcb EXCEPT ![unit].sdat_num = n]
      BY <2>1, <2>5, SizeFacts DEF i2c_send, I2cTypeOK
    <3>2. Kept
      BY <2>1, <2>2, <3>1
    <3>3. Moved
      BY <2>5, <2>3 DEF i2c_send, Phase
    <3> QED BY <3>2, <3>3
  <2>6. ASSUME i2c_receive PROVE Kept /\ Moved
    <3>1. PICK n \in Size : ll_devcb' = [ll_devcb EXCEPT ![unit].rdat_num = n]
      BY <2>1, <2>6, SizeFacts DEF i2c_receive, I2cTypeOK
    <3>2. Kept
      BY <2>1, <2>2, <3>1
    <3>3. Moved
      BY <2>6, <2>3 DEF i2c_receive, Phase
    <3> QED BY <3>2, <3>3
  <2>7. ASSUME i2c_stop PROVE Kept /\ Moved
    <3>1. NoRequest \in [unit : Units, send : Size, receive : Size]
      BY SizeFacts DEF NoRequest, Units
    <3> QED BY <2>1, <2>2, <2>7, <3>1 DEF i2c_stop, I2cTypeOK, Phase
  <2>8. device_table' = device_table
    BY <1>5, TransferStep DEF Typed
  <2>9. I2cTypeOK'
    BY <1>5, <2>4, <2>5, <2>6, <2>7, <2>8 DEF I2cTypeOK, i2c_trans
  <2>10. \A u \in Units : ll_devcb'[u].semid = ll_devcb[u].semid
    BY <1>5, <2>4, <2>5, <2>6, <2>7 DEF i2c_trans
  <2>11. OpenUnits'
    BY <1>5, <2>8, <2>10, TransferStep DEF Typed, OpenUnits
  <2> QED BY <2>9, <2>11
<1>6. I2cTypeOK' /\ OpenUnits'
  BY <1>2, <1>3, <1>4, <1>5, I2cCases DEF KernelOnly, systemVars
<1> QED BY <1>1, <1>6

(* The driver is a client of the semaphores: a behaviour of it and of the  *)
(* tasks that use it is one of the event module, with all that is proved   *)
(* about them.                                                             *)
THEOREM DriverUsesSemaphores == I2cSpec => EventSpec
<1>1. DriverTyped /\ [I2cNext]_systemVars => [EventNext]_allVars
  BY DriverIsClient
<1>2. I2cInit => EventInit
  BY DEF I2cInit
<1> QED BY <1>1, <1>2, DriverTypedInit, DriverTypedStep, PTL
        DEF I2cSpec, EventSpec

-----------------------------------------------------------------------------
(* Mutual exclusion.                                                       *)

(* The tasks that use a unit: there is only one. *)
Using == {t \in TaskId : /\ phase[t] # "idle"
                         /\ phase[t] = "begin" => state[t] # "WAIT"}

(* A task that waits in a transfer waits for the unit's semaphore, without *)
(* a timeout, and the others wait for no semaphore.                        *)
WaitsForUnit ==
    \A t \in TaskId :
        (state[t] = "WAIT" /\ (wait_factor[t] = "SEM" \/ phase[t] # "idle")) =>
            /\ phase[t] = "begin"
            /\ wait_factor[t] = "SEM"
            /\ wait_semaphore[t] = 1
            /\ wait_time[t] = Forever

(* The unit is free, or one task uses it. *)
UnitHeld(s) == \/ scb_table[s].value = 1 /\ Using = {}
               \/ scb_table[s].value = 0 /\ \E t \in TaskId : Using = {t}

Exclusion ==
    \A d \in Devices :
        IF device_table[d].open_count = 0 THEN Using = {}
        ELSE /\ scb_table[ll_devcb[d].semid].state = "EXIST"
             /\ scb_table[ll_devcb[d].semid].max_value = 1
             /\ UnitHeld(ll_devcb[d].semid)

DriverInv == /\ Inv
             /\ EventTyped
             /\ DriverTyped
             /\ WaitsForUnit
             /\ Exclusion

(* A step of the kernel alone: no wait for the unit begins or ends. *)
LEMMA KernelKeepsWaits ==
    ASSUME DriverInv, KernelOnly
    PROVE  WaitsForUnit' /\ Using' = Using
<1>0. /\ TypeOK /\ UNCHANGED <<wait_semaphore, phase>> /\ Forever' = Forever
  BY DEF DriverInv, Inv, Typed, KernelOnly, eventVars, eventTcbVars, i2cVars, Forever
<1> SUFFICES ASSUME NEW t \in TaskId
             PROVE  /\ phase[t] = "begin"
                         => (state'[t] = "WAIT" <=> state[t] = "WAIT")
                    /\ (state'[t] = "WAIT" /\ (wait_factor'[t] = "SEM"
                                               \/ phase[t] # "idle")) =>
                          /\ state[t] = "WAIT"
                          /\ wait_factor'[t] = wait_factor[t]
                          /\ wait_time[t] = Forever => wait_time'[t] = Forever
  BY <1>0 DEF WaitsForUnit, Using, DriverInv
<1>1. CASE main
  BY <1>0, <1>1 DEF main, TypeOK
<1>2. CASE systimer_handler
  <2>1. phase[t] = "begin" /\ state[t] = "WAIT" => ~Expired(t)
    BY DEF DriverInv, WaitsForUnit, Expired
  <2> QED BY <1>0, <1>2, <2>1, TickWaits DEF systimer_handler, DriverInv, Inv, WaitsForUnit
<1>3. CASE dispatch_entry \/ dispatch_loop_exit
  BY <1>3 DEF dispatch_entry, dispatch_loop_exit, tcbVars
<1>4. CASE OtherCall
  <2>1. /\ curr_task \in TaskId /\ state[curr_task] = "READY"
        /\ phase[curr_task] = "idle"
    BY <1>4, RunningIsTop DEF DriverInv, OtherCall
  <2>2. CASE sk_create_task \/ sk_exit_task
    BY <1>0, <2>1, <2>2 DEF sk_create_task, sk_exit_task, TypeOK
  <2>3. CASE \E u \in TaskId : sk_start_task(u)
    BY <1>0, <2>3 DEF sk_start_task, TypeOK
  <2>4. CASE \E d \in DelayTimes : sk_delay_task(d)
    BY <1>0, <2>1, <2>4 DEF sk_delay_task, Block, TypeOK
  <2> QED BY <1>4, <2>2, <2>3, <2>4 DEF OtherCall
<1> QED BY <1>1, <1>2, <1>3, <1>4 DEF KernelOnly

LEMMA OpenKeeps ==
    ASSUME OneDevice, DriverInv, NEW d \in Devices, NEW mode,
           sk_open_device(d, mode)
    PROVE  WaitsForUnit' /\ Exclusion'
<1>1. /\ \A c \in Devices : c = d
      /\ d \in Units
      /\ device_table[d].open_count = 0
      /\ device_table \in [Units -> [open_count : {0, 1},
                                     open_mode : SUBSET {"READ", "WRITE"}]]
      /\ ll_devcb \in [Units -> [semid : Nat, sdat_num : Size, rdat_num : Size]]
      /\ scb_table \in [SemaphoreId -> [state : {"NONEXIST", "EXIST"},
                                        value : Int, max_value : Int]]
  BY SemaphoresTyped, SizeFacts DEF OneDevice, sk_open_device, DriverInv, DriverTyped, I2cTypeOK,
                   EventTyped, EventTypeOK
<1>2. PICK s \in SemaphoreId : /\ IsFree(scb_table, s)
                               /\ ll_devcb' = [ll_devcb EXCEPT ![d].semid = s]
  BY DEF sk_open_device, dev_i2c_open
<1>3. PICK r \in SemaphoreId :
         /\ IsFree(scb_table, r)
         /\ scb_table' = [scb_table EXCEPT ![r] = [state |-> "EXIST", value |-> 1,
                                                   max_value |-> 1]]
         /\ UNCHANGED <<vars, wait_semaphore>>
  BY DEF sk_open_device, dev_i2c_open, sk_create_semaphore, UnitSemaphore, eventTcbVars
<1>4. r = s
  BY <1>2, <1>3 DEF IsFree, SemaphoreId
<1>5. device_table' = [device_table EXCEPT ![d] = [open_count |-> 1, open_mode |-> mode]]
      /\ UNCHANGED <<phase, request>>
  BY DEF sk_open_device
<1>6. UNCHANGED <<state, wait_factor, wait_time>>
  BY <1>3 DEF vars, tcbVars
<1>7. WaitsForUnit'
  BY <1>3, <1>5, <1>6 DEF DriverInv, WaitsForUnit, Forever
<1>8. Using' = {}
  BY <1>1, <1>5, <1>6 DEF DriverInv, Exclusion, Using
<1>9. Exclusion'
  BY <1>1, <1>2, <1>3, <1>4, <1>5, <1>8 DEF Exclusion, UnitHeld
<1> QED BY <1>7, <1>9

LEMMA BeginKeeps ==
    ASSUME OneDevice, DriverInv, NEW d \in Devices, NEW mode, NEW send, NEW receive,
           Begin(d, mode, send, receive)
    PROVE  WaitsForUnit' /\ Exclusion'
<1> DEFINE s == ll_devcb[d].semid
<1>1. /\ \A c \in Devices : c = d
      /\ device_table[d].open_count # 0
      /\ s \in SemaphoreId
  BY SizeFacts
     DEF OneDevice, Begin, Permitted, DriverInv, DriverTyped, OpenUnits, I2cTypeOK
<1>2. /\ scb_table \in [SemaphoreId -> [state : {"NONEXIST", "EXIST"},
                                        value : Int, max_value : Int]]
      /\ wait_semaphore \in [TaskId -> Int]
      /\ TypeOK /\ phase \in [TaskId -> Phase]
  BY SemaphoresTyped DEF DriverInv, DriverTyped, Typed, I2cTypeOK, EventTyped, EventTypeOK
<1>3. /\ Running /\ curr_task \in TaskId /\ state[curr_task] = "READY"
      /\ phase[curr_task] = "idle"
  BY RunningIsTop DEF DriverInv, Begin, sk_wait_semaphore
<1>4. /\ sk_wait_semaphore(s, 1, TMO_FEVR)
      /\ phase' = [phase EXCEPT ![curr_task] = "begin"]
      /\ UNCHANGED <<device_table, ll_devcb>>
  BY DEF Begin
<1>5. /\ scb_table[s].state = "EXIST" /\ scb_table[s].max_value = 1
      /\ UnitHeld(s)
  BY <1>1 DEF DriverInv, Exclusion
<1> HIDE DEF s
<1>6. CASE HasUnits(s, 1)
  <2>1. /\ scb_table' = [scb_table EXCEPT ![s].value = @ - 1]
        /\ UNCHANGED <<vars, wait_semaphore>>
    BY <1>4, <1>6 DEF sk_wait_semaphore
  <2>2. scb_table[s].value = 1 /\ Using = {}
    BY <1>5, <1>6 DEF HasUnits, UnitHeld
  <2>3. UNCHANGED <<state, wait_factor, wait_time>>
    BY <2>1 DEF vars, tcbVars
  <2>4. Using' = {curr_task}
    BY <1>2, <1>3, <1>4, <2>2, <2>3 DEF Using
  <2>5. WaitsForUnit'
    BY <1>2, <1>3, <1>4, <2>1, <2>3 DEF DriverInv, WaitsForUnit, Forever
  <2>6. Exclusion'
    <3>1. /\ scb_table'[s].value = 0 /\ scb_table'[s].state = "EXIST"
          /\ scb_table'[s].max_value = 1
      BY <1>1, <1>2, <1>5, <2>1, <2>2
    <3> QED BY <1>1, <1>3, <1>4, <2>4, <3>1 DEF Exclusion, UnitHeld, s
  <2> QED BY <2>5, <2>6
<1>7. CASE ~HasUnits(s, 1)
  <2>1. /\ Block("SEM", WaitTime(TMO_FEVR), TMO_FEVR)
        /\ wait_semaphore' = [wait_semaphore EXCEPT ![curr_task] = 1]
        /\ scb_table' = scb_table
    BY <1>4, <1>7 DEF sk_wait_semaphore
  <2>2. WaitTime(TMO_FEVR) = Forever /\ Forever' = Forever
    BY DriverCalls, ReltimeType, TaskManagerAssumption DEF WaitTime, Forever, TMO_FEVR
  <2>3. \A t \in TaskId :
           /\ state'[t] = IF t = curr_task THEN "WAIT" ELSE state[t]
           /\ wait_factor'[t] = IF t = curr_task THEN "SEM" ELSE wait_factor[t]
           /\ wait_time'[t] = IF t = curr_task THEN Forever ELSE wait_time[t]
           /\ wait_semaphore'[t] = IF t = curr_task THEN 1 ELSE wait_semaphore[t]
           /\ phase'[t] = IF t = curr_task THEN "begin" ELSE phase[t]
    BY <1>2, <1>3, <1>4, <2>1, <2>2, BlockWaits DEF Block, TypeOK
  <2>4. WaitsForUnit'
    BY <2>2, <2>3 DEF DriverInv, WaitsForUnit
  <2>5. Using' = Using
    BY <1>3, <2>3 DEF Using
  <2>6. Exclusion'
    BY <1>4, <2>1, <2>5 DEF DriverInv, Exclusion, UnitHeld
  <2> QED BY <2>4, <2>6
<1> QED BY <1>6, <1>7

LEMMA TransferKeeps ==
    ASSUME DriverInv, set_com_start \/ i2c_send \/ i2c_receive
    PROVE  WaitsForUnit' /\ Exclusion'
<1>1. /\ Running /\ UNCHANGED <<allVars, device_table>>
      /\ curr_task \in TaskId /\ unit \in Units
      /\ phase' = [phase EXCEPT ![curr_task] = phase'[curr_task]]
      /\ phase[curr_task] # "idle"
      /\ phase'[curr_task] \notin {"idle", "begin"}
  BY DEF set_com_start, i2c_send, i2c_receive, GoTo, InPhase, DriverInv,
         DriverTyped, I2cTypeOK, Typed, TypeOK, Running, unit
<1>2. state[curr_task] = "READY"
  BY <1>1, RunningIsTop DEF DriverInv
<1>3. \A u \in Units : ll_devcb'[u].semid = ll_devcb[u].semid
  <2> DEFINE Same == \A u \in Units : ll_devcb'[u].semid = ll_devcb[u].semid
  <2>1. ll_devcb \in [Units -> [semid : Nat, sdat_num : Size, rdat_num : Size]]
    BY DEF DriverInv, DriverTyped, I2cTypeOK
  <2>2. \/ \E m, n : ll_devcb' = [ll_devcb EXCEPT ![unit].sdat_num = m,
                                                  ![unit].rdat_num = n]
        \/ \E n : ll_devcb' = [ll_devcb EXCEPT ![unit].sdat_num = n]
        \/ \E n : ll_devcb' = [ll_devcb EXCEPT ![unit].rdat_num = n]
    BY DEF set_com_start, i2c_send, i2c_receive
  <2>3. ASSUME NEW m, NEW n, ll_devcb' = [ll_devcb EXCEPT ![unit].sdat_num = m,
                                                          ![unit].rdat_num = n]
        PROVE  Same
    BY <1>1, <2>1, <2>3
  <2>4. ASSUME NEW n, ll_devcb' = [ll_devcb EXCEPT ![unit].sdat_num = n]
        PROVE  Same
    BY <1>1, <2>1, <2>4
  <2>5. ASSUME NEW n, ll_devcb' = [ll_devcb EXCEPT ![unit].rdat_num = n]
        PROVE  Same
    BY <1>1, <2>1, <2>5
  <2> HIDE DEF Same
  <2>6. Same
    BY <2>2, <2>3, <2>4, <2>5
  <2> QED BY <2>6 DEF Same
<1>4. UNCHANGED <<state, wait_factor, wait_time, wait_semaphore, scb_table>>
  BY <1>1 DEF allVars, vars, tcbVars, eventVars, eventTcbVars
<1>5. phase \in [TaskId -> Phase]
  BY DEF DriverInv, DriverTyped, I2cTypeOK
<1>6. WaitsForUnit'
  BY <1>1, <1>2, <1>4, <1>5 DEF DriverInv, WaitsForUnit, Forever
<1>7. Using' = Using
  BY <1>1, <1>2, <1>4, <1>5 DEF Using
<1>8. Exclusion'
  BY <1>1, <1>3, <1>4, <1>7, SizeFacts DEF DriverInv, Exclusion, UnitHeld
<1> QED BY <1>6, <1>8

(* The task that stops is the one that uses the unit; the unit goes to a   *)
(* task that waits for it, if there is one.                                *)
LEMMA StopKeeps ==
    ASSUME OneDevice, DriverInv, i2c_stop
    PROVE  WaitsForUnit' /\ Exclusion'
<1> DEFINE s == ll_devcb[unit].semid
<1>1. /\ Running /\ phase[curr_task] = "stop"
      /\ sk_signal_semaphore(s, 1)
      /\ phase' = [phase EXCEPT ![curr_task] = "idle"]
      /\ UNCHANGED <<device_table, ll_devcb>>
  BY DEF i2c_stop, InPhase
<1>2. /\ scb_table \in [SemaphoreId -> [state : {"NONEXIST", "EXIST"},
                                        value : Int, max_value : Int]]
      /\ TypeOK /\ phase \in [TaskId -> Phase]
  BY SemaphoresTyped DEF DriverInv, DriverTyped, Typed, I2cTypeOK, EventTyped, EventTypeOK
<1>3. curr_task \in TaskId /\ state[curr_task] = "READY"
  BY <1>1, RunningIsTop DEF DriverInv
<1>4. /\ unit \in Devices /\ device_table[unit].open_count # 0
      /\ s \in SemaphoreId
      /\ \A d \in Devices : d = unit
  BY <1>1, <1>3, SizeFacts
     DEF OneDevice, DriverInv, DriverTyped, OpenUnits, I2cTypeOK, unit
<1>5. /\ scb_table[s].state = "EXIST" /\ scb_table[s].max_value = 1
      /\ UnitHeld(s)
  BY <1>4 DEF DriverInv, Exclusion
<1>6. /\ ll_devcb'[unit].semid = s
      /\ device_table'[unit].open_count # 0
  BY <1>1, <1>4
<1> HIDE DEF s
<1>7. scb_table[s].value = 0 /\ Using = {curr_task}
  BY <1>1, <1>3, <1>5 DEF UnitHeld, Using
<1>8. wait_semaphore' = wait_semaphore
  BY <1>1 DEF sk_signal_semaphore
<1>9. ASSUME NEW v \in {0, 1}, scb_table' = [scb_table EXCEPT ![s].value = v],
             \/ v = 1 /\ Using' = {}
             \/ v = 0 /\ \E t \in TaskId : Using' = {t}
      PROVE  Exclusion'
  <2>1. /\ scb_table'[s].value = v /\ scb_table'[s].state = "EXIST"
        /\ scb_table'[s].max_value = 1
    BY <1>2, <1>4, <1>5, <1>9
  <2>2. \A d \in Devices : ll_devcb'[d].semid = s
    BY <1>4, <1>6
  <2> QED BY <1>4, <1>6, <1>9, <2>1, <2>2 DEF Exclusion, UnitHeld
<1>10. CASE KeepUnits(s, 1)
  <2>1. UNCHANGED <<state, wait_factor, wait_time>>
    BY <1>10 DEF KeepUnits, vars, tcbVars
  <2>2. Using' = {}
    BY <1>1, <1>2, <1>7, <2>1 DEF Using
  <2>3. scb_table' = [scb_table EXCEPT ![s].value = 1]
    BY <1>7, <1>10 DEF KeepUnits
  <2>4. Exclusion'
    BY <1>9, <2>2, <2>3
  <2>5. WaitsForUnit'
    BY <1>1, <1>2, <1>3, <1>8, <2>1 DEF DriverInv, WaitsForUnit, Forever
  <2> QED BY <2>4, <2>5
<1>11. ASSUME NEW i \in SemaphoreWaiters, GiveUnits(i, s, 1)
       PROVE  WaitsForUnit' /\ Exclusion'
  <2> DEFINE t == wait_queue[i]
  <2>1. i \in DOMAIN wait_queue /\ wait_factor[t] = "SEM"
    BY DEF SemaphoreWaiters
  <2>2. t \in TaskId /\ state[t] = "WAIT"
    BY <1>2, <2>1
       DEF DriverInv, Inv, QueuesMatchStates, WaitQueueHoldsWaitingTasks, ToSet, TypeOK
  <2>3. phase[t] = "begin" /\ wait_semaphore[t] = 1 /\ t # curr_task
    BY <1>3, <2>1, <2>2 DEF DriverInv, WaitsForUnit
  <2>4. scb_table' = [scb_table EXCEPT ![s].value = (scb_table[s].value + 1)
                                                      - wait_semaphore[t]]
    BY <1>11 DEF GiveUnits
  <2>5. scb_table' = [scb_table EXCEPT ![s].value = 0]
    BY <1>7, <2>3, <2>4
  <2>6. Release(t)
    BY <1>11 DEF GiveUnits
  <2> HIDE DEF t
  <2>7. \A u \in TaskId :
           /\ state'[u] = IF u = t THEN "READY" ELSE state[u]
           /\ wait_factor'[u] = IF u = t THEN "NON" ELSE wait_factor[u]
           /\ wait_time'[u] = wait_time[u]
           /\ phase'[u] = IF u = curr_task THEN "idle" ELSE phase[u]
    BY <1>1, <1>2, <2>2, <2>6, ReleaseWaits DEF Release
  <2>8. Using' = {t}
    BY <1>7, <2>2, <2>3, <2>7 DEF Using
  <2>9. Exclusion'
    BY <1>9, <2>2, <2>5, <2>8
  <2>10. WaitsForUnit'
    BY <1>3, <1>8, <2>7 DEF DriverInv, WaitsForUnit, Forever
  <2> QED BY <2>9, <2>10
<1> QED BY <1>1, <1>10, <1>11 DEF sk_signal_semaphore

LEMMA DriverInit == I2cInit => DriverInv
<1> SUFFICES ASSUME I2cInit PROVE WaitsForUnit /\ Exclusion
  BY InitInv, EventTypedInit, DriverTypedInit DEF I2cInit, EventInit, DriverInv
<1>1. Using = {}
  BY DEF I2cInit, Using
<1>2. WaitsForUnit
  BY DEF I2cInit, EventInit, Init, WaitsForUnit
<1>3. Exclusion
  BY <1>1, SizeFacts DEF I2cInit, Exclusion
<1> QED BY <1>2, <1>3

LEMMA DriverStep ==
    ASSUME AtMostTwoPerPriority, TimesInRange, EventTimesInRange, OneDevice,
           DriverInv, [I2cNext]_systemVars
    PROVE  DriverInv'
<1>1. [EventNext]_allVars /\ DriverTyped'
  BY DriverIsClient, DriverTypedStep DEF DriverInv
<1>2. Inv' /\ EventTyped'
  BY <1>1, EventKernelStep, KernelInv, EventTypedStep
     DEF DriverInv, EventTyped, Typed
<1> DEFINE Goal == WaitsForUnit' /\ Exclusion'
<1>3. ASSUME UNCHANGED systemVars PROVE Goal
  BY <1>3
     DEF DriverInv, WaitsForUnit, Exclusion, UnitHeld, Using, Forever, systemVars,
         allVars, vars, tcbVars, eventVars, eventTcbVars, i2cVars
<1>4. ASSUME KernelOnly PROVE Goal
  <2>1. WaitsForUnit' /\ Using' = Using
    BY <1>4, KernelKeepsWaits DEF DriverInv
  <2> QED BY <1>4, <2>1 DEF DriverInv, KernelOnly, eventVars, i2cVars, Exclusion,
                            UnitHeld
<1> HIDE DEF Goal
<1>5. Goal
  BY <1>3, <1>4, I2cCases, OpenKeeps, BeginKeeps, TransferKeeps, StopKeeps
     DEF i2c_trans, Goal, DriverInv
<1> QED BY <1>1, <1>2, <1>5 DEF DriverInv, Goal

(* No two tasks are in transfers on the unit: the semaphore's value is one *)
(* when nobody uses it and zero when one task does, and a wait for it ends *)
(* only with the unit handed over.                                         *)
THEOREM TransfersExclude ==
    ASSUME AtMostTwoPerPriority, TimesInRange, EventTimesInRange, OneDevice
    PROVE  I2cSpec => []OneTransfer
<1>1. DriverInv /\ [I2cNext]_systemVars => DriverInv'
  BY DriverStep
<1>2. DriverInv => OneTransfer
  <2> SUFFICES ASSUME DriverInv, NEW u \in Units, NEW s \in TaskId,
                      NEW t \in TaskId, Uses(s, u), Uses(t, u)
               PROVE  s = t
    BY DEF OneTransfer
  <2>1. s \in Using /\ t \in Using
    BY DEF Using, Uses
  <2>2. request[s].unit \in Devices
    BY DEF DriverInv, DriverTyped, OpenUnits, Uses
  <2> QED BY <2>1, <2>2 DEF DriverInv, Exclusion, UnitHeld
<1> QED BY <1>1, <1>2, DriverInit, PTL DEF I2cSpec

(* The unit comes back from every transfer, an aborted one too, at once.   *)
THEOREM UnitsComeBack ==
    ASSUME AtMostTwoPerPriority, TimesInRange, EventTimesInRange, OneDevice
    PROVE  I2cSpec => []UnitComesBack
<1>1. DriverInv /\ [I2cNext]_systemVars => DriverInv'
  BY DriverStep
<1>2. DriverInv => UnitComesBack
  <2> SUFFICES ASSUME DriverInv, NEW d \in Devices,
                      device_table[d].open_count > 0,
                      \A t \in TaskId : ~Uses(t, d)
               PROVE  scb_table[ll_devcb[d].semid].value = 1
    BY DEF UnitComesBack
  <2>1. \A t \in TaskId : phase[t] # "idle" => request[t].unit = d
    BY DEF OneDevice, DriverInv, DriverTyped, OpenUnits
  <2>2. Using = {}
    BY <2>1 DEF Using, Uses
  <2>3. device_table[d].open_count # 0
    BY SizeFacts DEF DriverInv, DriverTyped, I2cTypeOK
  <2> QED BY <2>2, <2>3 DEF DriverInv, Exclusion, UnitHeld
<1> QED BY <1>1, <1>2, DriverInit, PTL DEF I2cSpec

-----------------------------------------------------------------------------
(* The counts in the control block.                                        *)

LEMMA OwnStep ==
    ASSUME OneDevice, DriverInv, TransferIsOwn, [I2cNext]_systemVars
    PROVE  TransferIsOwn'
<1>0. /\ TypeOK /\ phase \in [TaskId -> Phase]
      /\ request \in [TaskId -> [unit : Units, send : Size, receive : Size]]
      /\ ll_devcb \in [Units -> [semid : Nat, sdat_num : Size, rdat_num : Size]]
  BY DEF DriverInv, DriverTyped, Typed, I2cTypeOK
<1> DEFINE Own(t, p, r, cbs) ==
      LET cb == cbs[r.unit]
      IN  /\ p = "send" => /\ cb.sdat_num \in 1 .. r.send
                           /\ cb.rdat_num = r.receive
          /\ p = "receive" => /\ cb.sdat_num = 0
                              /\ cb.rdat_num \in 1 .. r.receive
<1>1. CASE UNCHANGED <<ll_devcb, phase, request>>
  BY <1>1 DEF TransferIsOwn
<1>2. ASSUME NEW d, NEW mode, sk_open_device(d, mode) PROVE TransferIsOwn'
  <2>1. PICK s : ll_devcb' = [ll_devcb EXCEPT ![d].semid = s]
    BY <1>2 DEF sk_open_device, dev_i2c_open
  <2>2. \A u \in Units : /\ ll_devcb'[u].sdat_num = ll_devcb[u].sdat_num
                         /\ ll_devcb'[u].rdat_num = ll_devcb[u].rdat_num
    BY <1>0, <2>1
  <2> QED BY <1>0, <1>2, <2>2 DEF sk_open_device, TransferIsOwn
<1>3. ASSUME NEW d, NEW mode, NEW s, NEW r, Begin(d, mode, s, r)
      PROVE  TransferIsOwn'
  <2>1. /\ phase' = [phase EXCEPT ![curr_task] = "begin"]
        /\ request' = [request EXCEPT ![curr_task] =
                         [unit |-> d, send |-> s, receive |-> r]]
        /\ ll_devcb' = ll_devcb
    BY <1>3 DEF Begin
  <2>2. \A t \in TaskId \ {curr_task} : phase'[t] = phase[t] /\ request'[t] = request[t]
    BY <1>0, <2>1
  <2>3. curr_task \in TaskId => phase'[curr_task] = "begin"
    BY <1>0, <2>1
  <2> QED BY <2>1, <2>2, <2>3 DEF TransferIsOwn
<1>4. ASSUME i2c_trans PROVE TransferIsOwn'
  <2>1. /\ curr_task \in TaskId /\ phase[curr_task] # "idle"
        /\ \A t \in TaskId \ {curr_task} : /\ phase'[t] = phase[t]
                                           /\ request'[t] = request[t]
        /\ unit \in Units
    BY <1>0, <1>4, TransferStep DEF DriverInv, DriverTyped, unit
  <2>2. Running /\ state[curr_task] = "READY"
    BY <1>4, RunningIsTop
       DEF DriverInv, i2c_trans, set_com_start, i2c_send, i2c_receive, i2c_stop, InPhase
  (* No other task has begun to transfer. *)
  <2>3. \A t \in TaskId \ {curr_task} : phase'[t] \notin {"send", "receive"}
    <3>1. curr_task \in Using
      BY <2>1, <2>2 DEF Using
    <3>2. \A t \in TaskId : phase[t] \in {"send", "receive"} => t \in Using
      BY DEF Using
    <3>3. request[curr_task].unit \in Devices
      BY <2>1 DEF DriverInv, DriverTyped, OpenUnits
    <3>4. \A t \in Using : t = curr_task
      BY <3>1, <3>3 DEF DriverInv, Exclusion, UnitHeld
    <3> QED BY <2>1, <3>2, <3>4
  <2> SUFFICES Own(curr_task, phase'[curr_task], request'[curr_task], ll_devcb')
    BY <2>3 DEF TransferIsOwn
  <2>4. Own(curr_task, phase[curr_task], request[curr_task], ll_devcb)
    BY <2>1 DEF TransferIsOwn
  <2> DEFINE req == request[curr_task]
             cb == ll_devcb[unit]
  <2>5. req.unit = unit /\ req.send \in Size /\ req.receive \in Size
    BY <1>0, <2>1 DEF unit
  <2>6. CASE set_com_start
    <3>1. /\ ll_devcb' = [ll_devcb EXCEPT ![unit].sdat_num = req.send,
                                          ![unit].rdat_num = req.receive]
          /\ request' = request
          /\ phase'[curr_task] = IF req.send # 0 THEN "send"
                                 ELSE IF req.receive # 0 THEN "receive" ELSE "stop"
      BY <1>0, <2>1, <2>6 DEF set_com_start, GoTo
    <3>2. /\ ll_devcb'[unit].sdat_num = req.send
          /\ ll_devcb'[unit].rdat_num = req.receive
      BY <1>0, <2>1, <3>1
    <3> HIDE DEF req
    <3>3. /\ req.send # 0 => req.send \in 1 .. req.send
          /\ req.receive # 0 => req.receive \in 1 .. req.receive
      BY <2>5 DEF Size
    <3> QED BY <2>5, <3>1, <3>2, <3>3 DEF req
  <2>7. CASE i2c_send
    <3>1. /\ ll_devcb' = [ll_devcb EXCEPT ![unit].sdat_num = Less(cb.sdat_num)]
          /\ request' = request
          /\ phase[curr_task] = "send"
          /\ phase'[curr_task] = IF ll_devcb'[unit].sdat_num # 0 THEN "send"
                                 ELSE IF cb.rdat_num # 0 THEN "receive" ELSE "stop"
      BY <1>0, <2>1, <2>7 DEF i2c_send, GoTo, InPhase
    <3>2. /\ ll_devcb'[unit].sdat_num = Less(cb.sdat_num)
          /\ ll_devcb'[unit].rdat_num = cb.rdat_num
      BY <1>0, <2>1, <3>1
    <3>3. /\ cb.sdat_num \in 1 .. req.send /\ cb.rdat_num = req.receive
          /\ cb.sdat_num \in Size
      BY <1>0, <2>1, <2>4, <2>5, <3>1
    <3>4. Less(cb.sdat_num) = cb.sdat_num - 1
      BY <2>5, <3>3, SizeFacts DEF Size
    <3> HIDE DEF req, cb
    <3>5. /\ Less(cb.sdat_num) # 0 => Less(cb.sdat_num) \in 1 .. req.send
          /\ cb.rdat_num # 0 => cb.rdat_num \in 1 .. req.receive
      BY <2>5, <3>3, <3>4 DEF Size
    <3> QED BY <2>5, <3>1, <3>2, <3>3, <3>5 DEF req
  <2>8. CASE i2c_receive
    <3>1. /\ ll_devcb' = [ll_devcb EXCEPT ![unit].rdat_num = Less(cb.rdat_num)]
          /\ request' = request
          /\ phase[curr_task] = "receive"
          /\ \/ phase'[curr_task] = "stop"
             \/ ll_devcb'[unit].rdat_num # 0 /\ phase'[curr_task] = "receive"
      BY <1>0, <2>1, <2>8 DEF i2c_receive, GoTo, InPhase
    <3>2. /\ ll_devcb'[unit].rdat_num = Less(cb.rdat_num)
          /\ ll_devcb'[unit].sdat_num = cb.sdat_num
      BY <1>0, <2>1, <3>1
    <3>3. /\ cb.rdat_num \in 1 .. req.receive /\ cb.sdat_num = 0
          /\ cb.rdat_num \in Size
      BY <1>0, <2>1, <2>4, <2>5, <3>1
    <3>4. Less(cb.rdat_num) = cb.rdat_num - 1
      BY <2>5, <3>3, SizeFacts DEF Size
    <3> HIDE DEF req, cb
    <3>5. Less(cb.rdat_num) # 0 => Less(cb.rdat_num) \in 1 .. req.receive
      BY <2>5, <3>3, <3>4 DEF Size
    <3> QED BY <2>5, <3>1, <3>2, <3>3, <3>5 DEF req
  <2>9. CASE i2c_stop
    BY <1>0, <2>1, <2>9 DEF i2c_stop
  <2> QED BY <1>4, <2>6, <2>7, <2>8, <2>9 DEF i2c_trans
<1> QED BY <1>1, <1>2, <1>3, <1>4, I2cCases
        DEF KernelOnly, i2cVars, systemVars

(* The counts a transfer works with are its own, from the first byte to    *)
(* the last: none is left over from an aborted transfer, and none is       *)
(* counted down below zero, where UW arithmetic would wrap.                *)
THEOREM TransfersOwnCounts ==
    ASSUME AtMostTwoPerPriority, TimesInRange, EventTimesInRange, OneDevice
    PROVE  I2cSpec => []TransferIsOwn
<1> DEFINE I == DriverInv /\ TransferIsOwn
<1>1. I2cInit => I
  BY DriverInit DEF I2cInit, TransferIsOwn
<1>2. I /\ [I2cNext]_systemVars => I'
  BY DriverStep, OwnStep
<1>3. I => TransferIsOwn
  OBVIOUS
<1> HIDE DEF I
<1> QED BY <1>1, <1>2, <1>3, PTL DEF I2cSpec
=============================================================================
