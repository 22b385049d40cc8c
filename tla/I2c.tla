-------------------------------- MODULE I2c --------------------------------
(***************************************************************************)
(* The device manager and the I2C driver of pico-os1 (device/device.c,     *)
(* device/i2c_rp2040.c) with tasks that use them.  A unit's control block  *)
(* is shared by all tasks; the unit's semaphore keeps their transfers      *)
(* apart.  Outside the kernel calls interrupts are enabled, so that a task *)
(* may lose the processor between any two steps of a transfer.             *)
(*                                                                         *)
(* The controller is external: it accepts every byte, and answers a read   *)
(* with a byte or with an abort.                                           *)
(***************************************************************************)
EXTENDS Event

CONSTANTS
    Devices,        \* the devices the tasks open: 0 is iica, 1 is iicb
    OpenModes,      \* the modes they are opened in, sets of "READ" and "WRITE"
    Sizes           \* numbers of bytes given to the read and write calls

Units == 0 .. 1
NoRequest == [unit |-> 0, send |-> 0, receive |-> 0]

ASSUME I2cAssumption ==
    /\ Devices \subseteq Units
    /\ OpenModes \subseteq SUBSET {"READ", "WRITE"}
    /\ Sizes \subseteq 0 .. (RELTIME_MOD - 1)

(* A unit's semaphore has a single unit of its own; the driver's calls are *)
(* among those the event module is given.                                  *)
UnitSemaphore == [initial_value |-> 1, max_value |-> 1]

ASSUME DriverCalls ==
    /\ UnitSemaphore \in SemaphoreInfos
    /\ 1 \in Counts
    /\ TMO_FEVR \in EventTimeouts

VARIABLES
    device_table,   \* per device whether it is open, and its mode
    ll_devcb,       \* per unit its semaphore and what is left to transfer
    phase,          \* per task how far it is in a read or write
    request         \* per task the transfer it asked for

i2cVars == <<device_table, ll_devcb, phase, request>>
systemVars == <<allVars, i2cVars>>

-----------------------------------------------------------------------------
dev_i2c_open(u) ==
    /\ \E s \in SemaphoreId :
          /\ IsFree(scb_table, s)
          /\ ll_devcb' = [ll_devcb EXCEPT ![u].semid = s]
    /\ sk_create_semaphore(UnitSemaphore)

(* The first open of a device opens its unit; a later one changes nothing, *)
(* not even the mode.                                                      *)
sk_open_device(d, mode) ==
    /\ device_table[d].open_count = 0
    /\ dev_i2c_open(d)
    /\ device_table' = [device_table EXCEPT
                          ![d] = [open_count |-> 1, open_mode |-> mode]]
    /\ UNCHANGED <<phase, request>>

(* sk_sync_read_device and sk_sync_write_device refuse anything else. *)
Permitted(d, mode) ==
    /\ device_table[d].open_count > 0
    /\ mode \in device_table[d].open_mode

(* A read or a write that the device's mode allows first takes the unit's  *)
(* semaphore; the task goes on when it has it.                             *)
Begin(d, mode, send, receive) ==
    /\ phase[curr_task] = "idle"
    /\ Permitted(d, mode)
    /\ sk_wait_semaphore(ll_devcb[d].semid, 1, TMO_FEVR)
    /\ phase' = [phase EXCEPT ![curr_task] = "begin"]
    /\ request' = [request EXCEPT ![curr_task] =
                     [unit |-> d, send |-> send, receive |-> receive]]
    /\ UNCHANGED <<device_table, ll_devcb>>

dev_i2c_read(d, size) == Begin(d, "READ", 0, size)

(* TDN_I2C_EXEC sends one byte and receives one. *)
dev_i2c_write(d, size) == Begin(d, "WRITE", size, 0) \/ Begin(d, "WRITE", 1, 1)

(* The steps of the running task's transfer, which work on the control     *)
(* block of its unit.                                                      *)
InPhase(name) == Running /\ phase[curr_task] = name
unit == request[curr_task].unit
GoTo(name) ==
    /\ phase' = [phase EXCEPT ![curr_task] = name]
    /\ UNCHANGED <<allVars, device_table, request>>

(* UW arithmetic. *)
Less(n) == (n - 1) % RELTIME_MOD

(* Mutant of set_com_start: bytes that an aborted read left are kept when  *)
(* none are asked for.                                                     *)
ComStartKeepsRest ==
    LET receive == IF request[curr_task].receive # 0 THEN request[curr_task].receive
                   ELSE ll_devcb[unit].rdat_num
    IN  /\ InPhase("begin")
        /\ ll_devcb' = [ll_devcb EXCEPT
                          ![unit].sdat_num = request[curr_task].send,
                          ![unit].rdat_num = receive]
        /\ GoTo(IF request[curr_task].send # 0 THEN "send"
                ELSE IF receive # 0 THEN "receive" ELSE "stop")

set_com_start ==
    /\ InPhase("begin")
    /\ ll_devcb' = [ll_devcb EXCEPT
                      ![unit].sdat_num = request[curr_task].send,
                      ![unit].rdat_num = request[curr_task].receive]
    /\ GoTo(IF request[curr_task].send # 0 THEN "send"
            ELSE IF request[curr_task].receive # 0 THEN "receive" ELSE "stop")

i2c_send ==
    /\ InPhase("send")
    /\ ll_devcb' = [ll_devcb EXCEPT ![unit].sdat_num = Less(@)]
    /\ GoTo(IF ll_devcb'[unit].sdat_num # 0 THEN "send"
            ELSE IF ll_devcb[unit].rdat_num # 0 THEN "receive" ELSE "stop")

(* An abort ends the transfer. *)
i2c_receive ==
    /\ InPhase("receive")
    /\ ll_devcb' = [ll_devcb EXCEPT ![unit].rdat_num = Less(@)]
    /\ \/ GoTo(IF ll_devcb'[unit].rdat_num # 0 THEN "receive" ELSE "stop")
       \/ GoTo("stop")

(* Mutant of i2c_stop: an aborted transfer returns without the signal. *)
StopAborted ==
    /\ InPhase("stop")
    /\ \/ /\ ll_devcb[unit].rdat_num = 0
          /\ sk_signal_semaphore(ll_devcb[unit].semid, 1)
       \/ /\ ll_devcb[unit].rdat_num # 0
          /\ UNCHANGED allVars
    /\ phase' = [phase EXCEPT ![curr_task] = "idle"]
    /\ request' = [request EXCEPT ![curr_task] = NoRequest]
    /\ UNCHANGED <<device_table, ll_devcb>>

(* The controller is switched off and the unit's semaphore given back,     *)
(* after an error too.                                                     *)
i2c_stop ==
    /\ InPhase("stop")
    /\ sk_signal_semaphore(ll_devcb[unit].semid, 1)
    /\ phase' = [phase EXCEPT ![curr_task] = "idle"]
    /\ request' = [request EXCEPT ![curr_task] = NoRequest]
    /\ UNCHANGED <<device_table, ll_devcb>>

i2c_trans == set_com_start \/ i2c_send \/ i2c_receive \/ i2c_stop

-----------------------------------------------------------------------------
I2cInit ==
    /\ EventInit
    /\ device_table = [d \in Units |-> [open_count |-> 0, open_mode |-> {}]]
    /\ ll_devcb = [u \in Units |-> [semid |-> 0, sdat_num |-> 0, rdat_num |-> 0]]
    /\ phase = [t \in TaskId |-> "idle"]
    /\ request = [t \in TaskId |-> NoRequest]

(* Clients: a task that is in no transfer opens a device, starts one,      *)
(* delays, ends, or makes another task.                                    *)
Client ==
    /\ phase[curr_task] = "idle"
    /\ \/ \E d \in Devices :
            \/ \E mode \in OpenModes : sk_open_device(d, mode)
            \/ \E n \in Sizes : dev_i2c_read(d, n) \/ dev_i2c_write(d, n)
       \/ /\ \/ sk_create_task
             \/ sk_exit_task
             \/ \E t \in TaskId : sk_start_task(t)
             \/ \E d \in DelayTimes : sk_delay_task(d)
          /\ UNCHANGED <<eventVars, i2cVars>>

Interrupt ==
    /\ main \/ systimer_handler \/ dispatch_entry \/ dispatch_loop_exit
    /\ UNCHANGED <<eventVars, i2cVars>>

I2cNext == (Running /\ Client) \/ i2c_trans \/ Interrupt

I2cSpec == I2cInit /\ [][I2cNext]_systemVars

-----------------------------------------------------------------------------
(* Properties.                                                             *)

(* A task uses a unit from the moment its wait for the semaphore ends. *)
Uses(t, u) ==
    /\ phase[t] # "idle"
    /\ request[t].unit = u
    /\ phase[t] = "begin" => state[t] # "WAIT"

(* No two tasks are in transfers on one unit, wherever they are preempted. *)
OneTransfer ==
    \A u \in Units, s, t \in TaskId : (Uses(s, u) /\ Uses(t, u)) => s = t

(* The counts in the shared control block are those of the task whose      *)
(* transfer is under way: none is left over from another transfer, and     *)
(* none is counted down below zero, where it would wrap.                   *)
TransferIsOwn ==
    \A t \in TaskId :
        LET cb == ll_devcb[request[t].unit]
        IN  /\ phase[t] = "send" => /\ cb.sdat_num \in 1 .. request[t].send
                                    /\ cb.rdat_num = request[t].receive
            /\ phase[t] = "receive" => /\ cb.sdat_num = 0
                                       /\ cb.rdat_num \in 1 .. request[t].receive

(* A unit that no task uses is free: it comes back from every transfer,    *)
(* however it ends, and at once.                                           *)
UnitComesBack ==
    \A u \in Devices :
        (device_table[u].open_count > 0 /\ \A t \in TaskId : ~Uses(t, u))
            => scb_table[ll_devcb[u].semid].value = 1
=============================================================================
