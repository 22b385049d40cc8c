-------------------------------- MODULE Lcd --------------------------------
(***************************************************************************)
(* The shell of pico-os1 and the LCD tasks it starts (application/shell.c, *)
(* device() of application/examples.c, application/example_lcd.c): each    *)
(* lcd command makes one more LCD task, and a semaphore is to let one of   *)
(* them draw at a time.  The display is written through the I2C driver.    *)
(*                                                                         *)
(* The other commands of the shell change nothing the kernel or the LCD    *)
(* tasks see.  How often a picture is written and how often the picture is *)
(* changed is left open.                                                   *)
(***************************************************************************)
EXTENDS I2c

CONSTANTS
    PollDelay,      \* the shell's delay between two looks at the UART, 1 ms
    LcdTimeout,     \* how long a LCD task waits for the semaphore, 100 ms
    ShowDelay       \* how long a picture is shown, 1000 ms

(* All three lie in 1 .. RELTIME_MOD - 1; both devices are opened, and with *)
(* sid there are three semaphores.                                          *)

VARIABLES
    pc,                 \* per task, what it does next
    lcd_initialized     \* whether a LCD task has set up the display

lcdVars == <<systemVars, pc, lcd_initialized>>

sid == 1
shell == 1
LcdTasks == TaskId \ {shell}
iica == 0
iicb == 1

-----------------------------------------------------------------------------
(* The running task t does what pc says and goes on at one of next.        *)
At(t, name, next) ==
    /\ curr_task = t
    /\ Running
    /\ phase[t] = "idle"
    /\ pc[t] = name
    /\ \E n \in next : pc' = [pc EXCEPT ![t] = n]

KernelOnly == UNCHANGED <<eventVars, i2cVars>>

(* device(): a device that is open is not opened again. *)
Open(d) ==
    \/ sk_open_device(d, {"READ", "WRITE"})
    \/ device_table[d].open_count > 0 /\ UNCHANGED systemVars

(* Without a free control block no task is made, and sk_start_task refuses *)
(* the error number it is given.                                           *)
Create ==
    \/ /\ At(shell, "create", {"start"})
       /\ sk_create_task
    \/ /\ At(shell, "create", {"poll"})
       /\ \A t \in TaskId : state[t] # "NONEXIST"
       /\ UNCHANGED vars

(* The task to start is the one that was created last. *)
StartNew ==
    \E t \in TaskId : /\ state[t] = "DORMANT"
                      /\ \A u \in t + 1 .. MAX_TASKS : state[u] = "NONEXIST"
                      /\ sk_start_task(t)

Shell ==
    /\ \/ /\ At(shell, "usermain", {"poll"})
          /\ sk_create_semaphore([initial_value |-> 1, max_value |-> 1])
          /\ UNCHANGED i2cVars
       \/ At(shell, "poll", {"poll", "iica"}) /\ sk_delay_task(PollDelay) /\ KernelOnly
       \/ At(shell, "iica", {"iicb"}) /\ Open(iica)
       \/ At(shell, "iicb", {"create"}) /\ Open(iicb)
       \/ Create /\ KernelOnly
       \/ At(shell, "start", {"poll"}) /\ StartNew /\ KernelOnly
    /\ UNCHANGED lcd_initialized

(* A wait that timed out prints "LCD task is already running". *)
Refused(t) == wait_err[t] = "E_TMOUT"

(* task_lcd_func: the display is initialised by the first task that gets   *)
(* here; a picture takes several transfers.                                *)
LcdTask(t) ==
    /\ \/ /\ At(t, "wait", {"check"})
          /\ sk_wait_semaphore(sid, 1, LcdTimeout)
          /\ UNCHANGED <<i2cVars, lcd_initialized>>
       \/ /\ At(t, "check", {"end"})
          /\ Refused(t)
          /\ UNCHANGED <<systemVars, lcd_initialized>>
       \/ /\ At(t, "check", IF lcd_initialized THEN {"show"} ELSE {"init"})
          /\ ~Refused(t)
          /\ UNCHANGED <<systemVars, lcd_initialized>>
       \/ /\ At(t, "init", {"init", "initialized"})
          /\ \E n \in Sizes : dev_i2c_write(iica, n)
          /\ UNCHANGED lcd_initialized
       \/ /\ At(t, "initialized", {"show"})
          /\ lcd_initialized' = TRUE
          /\ UNCHANGED systemVars
       \/ /\ At(t, "show", {"show", "delay", "signal"})
          /\ \E n \in Sizes : dev_i2c_write(iica, n)
          /\ UNCHANGED lcd_initialized
       \/ /\ At(t, "delay", {"show"})
          /\ sk_delay_task(ShowDelay)
          /\ KernelOnly
          /\ UNCHANGED lcd_initialized
       \/ /\ At(t, "signal", {"end"})
          /\ \/ sk_signal_semaphore(sid, 1)
             \/ ~HasRoom(sid, 1) /\ UNCHANGED allVars
          /\ UNCHANGED <<i2cVars, lcd_initialized>>
       \/ /\ At(t, "end", {"wait"})
          /\ sk_exit_task
          /\ KernelOnly
          /\ UNCHANGED lcd_initialized

-----------------------------------------------------------------------------
LcdInit ==
    /\ I2cInit
    /\ pc = [t \in TaskId |-> IF t = shell THEN "usermain" ELSE "wait"]
    /\ lcd_initialized = FALSE

LcdNext ==
    \/ Shell
    \/ \E t \in LcdTasks : LcdTask(t)
    \/ (i2c_trans \/ Interrupt) /\ UNCHANGED <<pc, lcd_initialized>>

LcdSpec == LcdInit /\ [][LcdNext]_lcdVars

-----------------------------------------------------------------------------
(* Properties.                                                             *)

(* A LCD task draws from the end of its wait for the semaphore until it    *)
(* has signalled it, or has found that the wait timed out.                 *)
Draws(t) ==
    \/ pc[t] \in {"init", "initialized", "show", "delay", "signal"}
    \/ pc[t] = "check" /\ state[t] = "READY" /\ ~Refused(t)

(* One LCD task draws at a time: another is told "LCD task is already      *)
(* running" (example_lcd.c:49) and ends.                                   *)
OneLcdTask == \A s, t \in LcdTasks : (Draws(s) /\ Draws(t)) => s = t
=============================================================================
