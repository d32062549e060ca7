------------------------------ MODULE N5Driver ------------------------------
(***************************************************************************)
(* The pwm half of the minisforum_n5_it5571 hwmon driver as shipped, that  *)
(* is upstream 0.2.1 plus driver/patches (0002 and 0004 to 0007 change     *)
(* what is modelled here): the sysfs writes, the cache they keep, the      *)
(* restore at unbind, the shutdown hook, probe after a failed restore, and *)
(* the EC that carries the commands out one PMC2 transaction at a time.    *)
(*                                                                         *)
(* A transaction that times out may have reached the EC all the same: the  *)
(* EC then acts on it later (variable late), at any moment before it       *)
(* accepts the next transaction.                                           *)
(***************************************************************************)
EXTENDS Integers, FiniteSets

CONSTANTS
  Channels,      \* the pwm channels looked at, numbered as in the driver
  CurvePoints,   \* points the EC keeps per channel: 4 for CPU and PCIe, 1 else
  Duty,          \* the duties user space asks for; 255 is one of them
  Threads,       \* user-space threads that use the sysfs files
  Writable       \* n5_write_block_reason() finds no reason on this host

CPU == 0
SSD == 1
HDD == 2
N5_PWM_PCIE == 3
FullDuty == 255

ASSUME DriverAssumption ==
  /\ Channels \subseteq {CPU, SSD, HDD, N5_PWM_PCIE}
  /\ CurvePoints \in [Channels -> Nat \ {0}]
  /\ Duty \subseteq 0..FullDuty /\ FullDuty \in Duty
  /\ Writable \in BOOLEAN

VARIABLES
  phase,       \* of the module: see Phases
  active,      \* threads inside a sysfs callback (kernfs active references)
  dead,        \* data->dead
  todo,        \* channels the restore or shutdown loop has still to visit
  cmd,         \* the EC command in progress under data->lock, or NoCmd
  pwm,         \* data->pwm, the cached duty
  enable,      \* data->pwm_enable, the cached mode: 0, 1 or 2
  touched,     \* channels with data->pwm_touched set
  unknown,     \* channels with data->pwm_unknown set
  unrestored,  \* n5_unrestored, the bit mask that outlives a binding
  staged,      \* EC: the curve points written, not necessarily in force
  out,         \* EC: the curve in force; EcAuto(c) is the EC's own regulation
  late,        \* EC: a command the driver gave up on and the EC may still do
  lost,        \* history: channels whose mark was dropped with a restore owed
  failed       \* history: channels whose last EC write returned an error

drv  == <<pwm, enable, touched, unknown, unrestored>>
ec   == <<staged, out, late>>
hist == <<lost, failed>>
vars == <<phase, active, dead, todo, cmd, drv, ec, hist>>

(***************************************************************************)
(* "removing" is hwmon_device_unregister() waiting for running callbacks,  *)
(* "teardown" the devres action n5_teardown with the ports still reserved. *)
(***************************************************************************)
Phases == {"absent", "unbound", "bound", "removing", "teardown"}

Firmware == -1     \* a curve point the EC firmware chose itself, not a duty
NoCmd    == [op |-> "none"]
NoLate   == [step |-> -1]

Points(c)  == 1..CurvePoints[c]
Flat(c, d) == [i \in Points(c) |-> d]
EcAuto(c)    == Flat(c, Firmware)
Curves(c)  == [Points(c) -> Duty \cup {Firmware}]
EcCurves   == {f \in [Channels -> UNION {Curves(c) : c \in Channels}] :
                 \A c \in Channels : f[c] \in Curves(c)}

\* A command is a run of steps. Steps 1..n write the curve points, step n+1
\* (0x20, 0x2d, 0x2a, 0x30) puts them in force; AutoStep is 0x21, 0x2e, 0x2b.
AutoStep     == 0
ApplyStep(c) == CurvePoints[c] + 1
Steps(c)     == 0..ApplyStep(c)

SysfsOps  == {"pwm", "full", "manual", "auto"}
DriverOps == {"restore", "shutdown"}

CmdOn(op, who, c, d, step) ==
  [op |-> op, who |-> who, ch |-> c, duty |-> d, step |-> step]
Kernel == "kernel"
Commands ==
  {k \in [op : SysfsOps \cup DriverOps, who : Threads \cup {Kernel},
          ch : Channels, duty : Duty, step : Nat] : k.step \in Steps(k.ch)}
LateSteps ==
  {l \in [ch : Channels, duty : Duty, step : Nat] : l.step \in Steps(l.ch)}

\* n5_set_pwm_locked() and n5_set_auto_locked(): where their steps begin.
SetPwm(op, who, c, d) == CmdOn(op, who, c, d, 1)
SetAuto(op, who, c)   == CmdOn(op, who, c, FullDuty, AutoStep)
LastStep(k)           == k.step \in {AutoStep, ApplyStep(k.ch)}

\* Seeded fault: the safe duty is one more than the register takes.
HandbackOffByOne(op, who, c) ==
  IF c = N5_PWM_PCIE THEN SetPwm(op, who, c, FullDuty + 1) ELSE SetAuto(op, who, c)

\* n5_handback_locked(): the PCIe channel has no EC automatic.
Handback(op, who, c) ==
  IF c = N5_PWM_PCIE THEN SetPwm(op, who, c, FullDuty) ELSE SetAuto(op, who, c)

\* The table in n5_shutdown(): HDD and PCIe are left at full speed.
FullSpeed == {HDD, N5_PWM_PCIE}
ShutdownCmd(c) ==
  IF c \in FullSpeed THEN SetPwm("shutdown", Kernel, c, FullDuty)
                     ELSE SetAuto("shutdown", Kernel, c)

LockFree == cmd = NoCmd /\ todo = {}

\* What n5_probe() fills in, and all that is left once devres freed the data.
FreshData ==
  /\ dead' = FALSE
  /\ pwm' = [c \in Channels |-> FullDuty]
  /\ enable' = [c \in Channels |-> 2]

-----------------------------------------------------------------------------
Init ==
  /\ phase = "absent" /\ active = {} /\ dead = FALSE /\ todo = {} /\ cmd = NoCmd
  /\ pwm = [c \in Channels |-> FullDuty] /\ enable = [c \in Channels |-> 2]
  /\ touched = {} /\ unknown = {} /\ unrestored = {}
  /\ staged = [c \in Channels |-> EcAuto(c)]
  /\ out = [c \in Channels |-> EcAuto(c)]
  /\ late = NoLate
  /\ lost = {} /\ failed = {}

-----------------------------------------------------------------------------
(* The life of the module and of the binding.                              *)

\* insmod: module memory starts empty.
LoadModule ==
  /\ phase = "absent" /\ phase' = "unbound"
  /\ unrestored' = {}
  /\ UNCHANGED <<active, dead, todo, cmd, pwm, enable, touched, unknown, ec, hist>>

\* rmmod of a module without a binding: the mask goes with the module.
UnloadModule ==
  /\ phase = "unbound" /\ phase' = "absent"
  /\ lost' = lost \cup unrestored
  /\ unrestored' = {}
  /\ UNCHANGED <<active, dead, todo, cmd, pwm, enable, touched, unknown, ec, failed>>

\* Seeded faults: the new binding drops the marks, or the unknown modes.
ProbeUnmarked ==
  /\ phase = "unbound"
  /\ phase' \in {"bound", "teardown"}
  /\ FreshData
  /\ touched' = {}
  /\ unknown' = IF Writable THEN unrestored ELSE {}
  /\ UNCHANGED <<active, todo, cmd, unrestored, ec, hist>>

ProbeSureOfMode ==
  /\ phase = "unbound"
  /\ phase' \in {"bound", "teardown"}
  /\ FreshData
  /\ touched' = IF Writable THEN unrestored ELSE {}
  /\ unknown' = {}
  /\ UNCHANGED <<active, todo, cmd, unrestored, ec, hist>>

\* n5_probe() up to the hwmon registration; no port access. A failure after
\* the restore action is registered runs that action.
Probe ==
  /\ phase = "unbound"
  /\ phase' \in {"bound", "teardown"}
  /\ FreshData
  /\ touched' = IF Writable THEN unrestored ELSE {}
  /\ unknown' = IF Writable THEN unrestored ELSE {}
  /\ UNCHANGED <<active, todo, cmd, unrestored, ec, hist>>

\* Unbind, or n5_exit(): the hwmon device goes first and takes no new callers.
Unbind ==
  /\ phase = "bound" /\ LockFree
  /\ phase' = "removing"
  /\ UNCHANGED <<active, dead, todo, cmd, drv, ec, hist>>

\* hwmon_device_unregister() returns once the running callbacks are done.
HwmonGone ==
  /\ phase = "removing" /\ active = {}
  /\ phase' = "teardown"
  /\ UNCHANGED <<active, dead, todo, cmd, drv, ec, hist>>

\* n5_restore() takes the lock and marks the device dead.
RestoreBegin ==
  /\ phase = "teardown" /\ ~dead /\ LockFree
  /\ dead' = TRUE
  /\ todo' = touched
  /\ UNCHANGED <<phase, active, cmd, drv, ec, hist>>

\* The loops visit the channels in order.
NextChannel(c) == c \in todo /\ \A d \in todo : c <= d

RestoreChannel(c) ==
  /\ phase = "teardown" /\ dead /\ cmd = NoCmd
  /\ NextChannel(c)
  /\ cmd' = Handback("restore", Kernel, c)
  /\ UNCHANGED <<phase, active, dead, todo, drv, ec, hist>>

\* devres goes on: the driver data is freed and the port regions released.
ReleasePorts ==
  /\ phase = "teardown" /\ dead /\ LockFree
  /\ phase' = "unbound"
  /\ FreshData /\ touched' = {} /\ unknown' = {} /\ failed' = {}
  /\ UNCHANGED <<active, todo, cmd, unrestored, ec, lost>>

\* n5_shutdown(); callbacks may be waiting for the lock.
ShutdownBegin ==
  /\ phase = "bound" /\ LockFree /\ ~dead
  /\ dead' = TRUE
  /\ todo' = touched
  /\ UNCHANGED <<phase, active, cmd, drv, ec, hist>>

ShutdownChannel(c) ==
  /\ phase = "bound" /\ dead /\ cmd = NoCmd
  /\ NextChannel(c)
  /\ cmd' = ShutdownCmd(c)
  /\ UNCHANGED <<phase, active, dead, todo, drv, ec, hist>>

\* Reboot or power-off. BIOS and EC set up CPU, SSD and HDD again; the PCIe
\* channel keeps its last value over a warm boot.
PowerOff(warm) ==
  /\ LockFree
  /\ phase \in {"absent", "unbound"} \/ (phase = "bound" /\ dead)
  /\ phase' = "absent" /\ active' = {} /\ failed' = {}
  /\ FreshData /\ touched' = {} /\ unknown' = {} /\ unrestored' = {}
  /\ staged' = [c \in Channels |-> EcAuto(c)]
  /\ out' = [c \in Channels |-> IF warm /\ c = N5_PWM_PCIE THEN out[c] ELSE EcAuto(c)]
  /\ late' = NoLate
  /\ lost' = IF warm THEN (lost \cup unrestored) \cap {N5_PWM_PCIE} ELSE {}
  /\ UNCHANGED <<todo, cmd>>

-----------------------------------------------------------------------------
(* The sysfs callbacks.                                                    *)

\* A thread gets an active reference while the hwmon device is registered.
EnterCallback(t) ==
  /\ phase = "bound" /\ t \notin active
  /\ active' = active \cup {t}
  /\ UNCHANGED <<phase, dead, todo, cmd, drv, ec, hist>>

\* n5_read(), or an n5_write() that an early return ends.
ReturnUnchanged(t) ==
  /\ t \in active /\ LockFree
  /\ active' = active \ {t}
  /\ UNCHANGED <<phase, dead, todo, cmd, drv, ec, hist>>

\* Seeded fault: a write that waited for the lock does not look at data->dead.
MayWriteDead(t) == t \in active /\ LockFree /\ Writable

\* What n5_write() has checked before it talks to the EC.
MayWrite(t) == t \in active /\ LockFree /\ ~dead /\ Writable

\* Seeded fault: the channel is not marked.
StartUnmarked(command, c) ==
  /\ cmd' = command
  /\ UNCHANGED <<phase, active, dead, todo, pwm, enable, touched, unknown, unrestored,
                 ec, hist>>

\* The channel is marked before the first byte goes to the EC.
Start(command, c) ==
  /\ cmd' = command
  /\ touched' = touched \cup {c}
  /\ UNCHANGED <<phase, active, dead, todo, pwm, enable, unknown, unrestored, ec, hist>>

WritePwm(t, c, d) ==
  /\ MayWrite(t) /\ enable[c] = 1
  /\ Start(SetPwm("pwm", t, c, d), c)

WriteEnable0(t, c) ==
  /\ MayWrite(t)
  /\ Start(SetPwm("full", t, c, FullDuty), c)

\* Seeded fault: manual mode begins with the cached duty.
WriteEnable1AtOldDuty(t, c) ==
  /\ MayWrite(t) /\ enable[c] # 1
  /\ Start(SetPwm("manual", t, c, pwm[c]), c)

WriteEnable1(t, c) ==
  /\ MayWrite(t) /\ enable[c] # 1
  /\ Start(SetPwm("manual", t, c, FullDuty), c)

\* Already manual: nothing goes to the EC.
WriteEnable1Again(t, c) ==
  /\ MayWrite(t) /\ enable[c] = 1
  /\ active' = active \ {t}
  /\ unknown' = unknown \ {c}
  /\ UNCHANGED <<phase, dead, todo, cmd, pwm, enable, touched, unrestored, ec, hist>>

WriteEnable2(t, c) ==
  /\ MayWrite(t)
  /\ Start(Handback("auto", t, c), c)

-----------------------------------------------------------------------------
(* One PMC2 transaction after the other, under the lock.                   *)

\* What the EC does with a step.
EcDoes(c, step, d) ==
  \/ /\ step = AutoStep
     /\ out' = [out EXCEPT ![c] = EcAuto(c)] /\ UNCHANGED staged
  \/ /\ step \in Points(c)
     /\ staged' = [staged EXCEPT ![c][step] = d] /\ UNCHANGED out
  \/ /\ step = ApplyStep(c)
     /\ out' = [out EXCEPT ![c] = staged[c]] /\ UNCHANGED staged

\* The updates after the last step succeeded, by what was asked for.
CacheAfter(op, c, d) ==
  \/ /\ op = "pwm"
     /\ pwm' = [pwm EXCEPT ![c] = d]
     /\ UNCHANGED <<enable, touched, unknown, unrestored>>
  \/ /\ op \in {"full", "manual"}
     /\ pwm' = [pwm EXCEPT ![c] = FullDuty]
     /\ enable' = [enable EXCEPT ![c] = IF op = "full" THEN 0 ELSE 1]
     /\ unknown' = unknown \ {c}
     /\ UNCHANGED <<touched, unrestored>>
  \/ /\ op \in {"auto", "restore"}
     /\ enable' = [enable EXCEPT ![c] = 2]
     /\ unknown' = unknown \ {c}
     /\ unrestored' = unrestored \ {c}
     /\ IF op = "auto" /\ c = N5_PWM_PCIE
        THEN pwm' = [pwm EXCEPT ![c] = FullDuty] /\ UNCHANGED touched
        ELSE touched' = touched \ {c} /\ UNCHANGED pwm
  \/ /\ op = "shutdown"
     /\ touched' = touched \ {c}
     /\ UNCHANGED <<pwm, enable, unknown, unrestored>>

\* Seeded fault: a restore that failed is only logged.
CacheAfterErrorLogged(op, c) ==
  UNCHANGED <<pwm, enable, touched, unknown, unrestored>>

\* After a step failed: only the restore loop notes it in the driver. A
\* channel that shutdown could not set is noted nowhere.
CacheAfterError(op, c) ==
  /\ unrestored' = IF op = "restore" THEN unrestored \cup {c} ELSE unrestored
  /\ UNCHANGED <<pwm, enable, touched, unknown>>

\* Seeded fault: the loop stays at its channel.
EndCommandSameChannel ==
  /\ cmd' = NoCmd
  /\ active' = active \ {cmd.who}
  /\ UNCHANGED <<phase, dead, todo>>

\* The callback returns, or the loop goes on to its next channel.
EndCommand ==
  /\ cmd' = NoCmd
  /\ active' = active \ {cmd.who}
  /\ todo' = todo \ (IF cmd.op \in DriverOps THEN {cmd.ch} ELSE {})
  /\ UNCHANGED <<phase, dead>>

\* n5_pmc2_write() or n5_pmc2_action() of a step before the last returns 0.
\* n5_sync() let it begin only with nothing left in the EC's input.
StepDone ==
  /\ cmd # NoCmd /\ late = NoLate /\ ~LastStep(cmd)
  /\ EcDoes(cmd.ch, cmd.step, cmd.duty)
  /\ cmd' = [cmd EXCEPT !.step = @ + 1]
  /\ UNCHANGED <<phase, active, dead, todo, drv, late, hist>>

CommandDone ==
  /\ cmd # NoCmd /\ late = NoLate /\ LastStep(cmd)
  /\ EcDoes(cmd.ch, cmd.step, cmd.duty)
  /\ CacheAfter(cmd.op, cmd.ch, cmd.duty)
  /\ EndCommand
  /\ failed' = failed \ {cmd.ch}
  /\ lost' = lost \ (IF cmd.op \in {"auto", "restore", "shutdown"} THEN {cmd.ch} ELSE {})
  /\ UNCHANGED late

\* Seeded fault: the error of a curve point is not looked at.
StepTimesOutUnseen ==
  /\ cmd # NoCmd /\ ~LastStep(cmd)
  /\ cmd' = [cmd EXCEPT !.step = @ + 1]
  /\ UNCHANGED <<phase, active, dead, todo, drv, ec, hist>>

\* n5_wait_status() runs out: the rest of the command is not sent. The EC may
\* have taken the step in, unless it still has an earlier one to do.
StepTimesOut ==
  /\ cmd # NoCmd
  /\ IF late = NoLate
     THEN late' \in {NoLate, [ch |-> cmd.ch, duty |-> cmd.duty, step |-> cmd.step]}
     ELSE UNCHANGED late
  /\ CacheAfterError(cmd.op, cmd.ch)
  /\ EndCommand
  /\ failed' = failed \cup {cmd.ch}
  /\ lost' = IF cmd.op = "shutdown" THEN lost \cup {cmd.ch} ELSE lost
  /\ UNCHANGED <<staged, out>>

\* The EC gets round to a step the driver has given up on.
EcCatchesUp ==
  /\ late # NoLate
  /\ EcDoes(late.ch, late.step, late.duty)
  /\ late' = NoLate
  /\ UNCHANGED <<phase, active, dead, todo, cmd, drv, hist>>

-----------------------------------------------------------------------------
Sysfs(t) ==
  \/ EnterCallback(t)
  \/ ReturnUnchanged(t)
  \/ \E c \in Channels, d \in Duty : WritePwm(t, c, d)
  \/ \E c \in Channels : WriteEnable0(t, c)
  \/ \E c \in Channels : WriteEnable1(t, c)
  \/ \E c \in Channels : WriteEnable1Again(t, c)
  \/ \E c \in Channels : WriteEnable2(t, c)

Transaction == StepDone \/ CommandDone \/ StepTimesOut

Next ==
  \/ LoadModule \/ UnloadModule \/ Probe \/ Unbind \/ HwmonGone
  \/ RestoreBegin \/ (\E c \in Channels : RestoreChannel(c)) \/ ReleasePorts
  \/ ShutdownBegin \/ (\E c \in Channels : ShutdownChannel(c))
  \/ \E warm \in BOOLEAN : PowerOff(warm)
  \/ \E t \in Threads : Sysfs(t)
  \/ Transaction
  \/ EcCatchesUp

Spec == Init /\ [][Next]_vars

\* Every wait of the driver is bounded (n5_wait_status, the access budget), a
\* callback that got the lock runs to its end, and devres goes through.
Fairness ==
  /\ WF_vars(Transaction)
  /\ \A t \in Threads : WF_vars(ReturnUnchanged(t))
  /\ WF_vars(HwmonGone) /\ WF_vars(RestoreBegin) /\ WF_vars(ReleasePorts)
  /\ WF_vars(\E c \in Channels : RestoreChannel(c))
  /\ WF_vars(\E c \in Channels : ShutdownChannel(c))

FairSpec == Spec /\ Fairness

-----------------------------------------------------------------------------
(* Properties.                                                             *)

\* Types of the driver's data, of the module's mask and of the EC state.
TypeOK ==
  /\ phase \in Phases /\ active \subseteq Threads /\ dead \in BOOLEAN
  /\ todo \subseteq Channels /\ cmd \in Commands \cup {NoCmd}
  /\ pwm \in [Channels -> Duty] /\ enable \in [Channels -> 0..2]
  /\ touched \subseteq Channels /\ unknown \subseteq Channels
  /\ unrestored \subseteq Channels
  /\ staged \in EcCurves /\ out \in EcCurves
  /\ late \in LateSteps \cup {NoLate}
  /\ lost \subseteq Channels /\ failed \subseteq Channels

\* The state the driver promises to leave a channel in: EC automatic, or full
\* speed on the channels whose automatic does not protect anything.
Parked(c) == out[c] = EcAuto(c) \/ (c \in FullSpeed /\ out[c] = Flat(c, FullDuty))

CmdOf(c)  == cmd # NoCmd /\ cmd.ch = c
LateOf(c) == late # NoLate /\ late.ch = c

\* README, "hwmon attributes" and the comments in n5_write, n5_restore and
\* n5_probe: a channel that is, or may yet come, under host control is marked
\* in the driver data, in the module's mask, or its failure was reported when
\* the memory of it went away. So after an unbind a channel that is not
\* parked is in n5_unrestored.
Held   == {c \in Channels : ~Parked(c) \/ LateOf(c)}
Claims == touched \cup unrestored \cup lost
NoForgottenChannel == Held \subseteq Claims

\* n5_set_pwm_locked stops at the first failed step: the EC never puts a curve
\* in force whose points are not all the one duty that was asked for.
NoMixedCurve ==
  \A c \in Channels : \E d \in Duty \cup {Firmware} : out[c] = Flat(c, d)

\* README: pwmN and pwmN_enable "return what the driver last wrote
\* successfully". While the last EC write of a channel did not fail and its
\* mode is not marked unknown, the cache says what the EC does.
CacheTruth ==
  (phase \in {"bound", "removing"} /\ ~dead) =>
    \A c \in Channels \ (failed \cup unknown \cup lost) :
      \/ CmdOf(c)
      \/ enable[c] = 0 /\ pwm[c] = FullDuty /\ out[c] = Flat(c, FullDuty)
      \/ enable[c] = 1 /\ out[c] = Flat(c, pwm[c])
      \/ enable[c] = 2 /\ Parked(c)

\* What an earlier binding left unrestored is handed back again by the next
\* teardown, and a channel that reads -ENODATA is not in manual mode, so that
\* only a write of pwmN_enable ends the unknown mode.
UnrestoredIsRetried ==
  (phase \in {"bound", "removing"} /\ ~dead) =>
    /\ unrestored \subseteq touched
    /\ unknown \subseteq touched
    /\ \A c \in unknown : enable[c] = 2

\* "never re-enter manual mode", "no port access after the restore": once
\* teardown or shutdown has begun no sysfs write gets through, and without
\* the port regions nobody is left who could use the ports.
NoAccessWhenDead ==
  /\ dead => cmd = NoCmd \/ cmd.op \in DriverOps
  /\ phase \in {"absent", "unbound"} => cmd = NoCmd /\ active = {}

\* The driver implements N5Ownership: no step puts a channel under host control
\* that is not noted, and none drops the note of a channel still held.
Own == INSTANCE N5Ownership WITH held <- Held, claims <- Claims
OwnershipKept == Own!Spec

\* Every duty in force is 255 or one that a thread asked for in manual mode:
\* the step that puts a lower duty in force belongs to a pwmN write.
LowerOnlyOnRequest ==
  [][\A c \in Channels :
       out'[c] # out[c] /\ out'[c] # EcAuto(c) /\ out'[c] # Flat(c, FullDuty)
         => (CmdOf(c) /\ cmd.op = "pwm") \/ LateOf(c)]_vars

\* An unbind that began comes to its end, whatever callbacks are running and
\* whether or not the EC answers.
UnbindEnds == phase = "removing" ~> phase = "unbound"
=============================================================================
