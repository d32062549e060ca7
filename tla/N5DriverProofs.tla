--------------------------- MODULE N5DriverProofs ---------------------------
(***************************************************************************)
(* Proofs about N5Driver, for every subset of the four channels, every     *)
(* number of curve points, every set of duties and of threads.             *)
(***************************************************************************)
EXTENDS N5Driver, TLAPS

-----------------------------------------------------------------------------
(* The inductive invariant, in named parts.                                *)

\* Who is where: the commands of sysfs callbacks, of the restore and of the
\* shutdown loop exclude each other, and the loops run with dead set.
Places ==
  /\ active # {} => phase \in {"bound", "removing"}
  /\ cmd # NoCmd =>
       \/ /\ cmd.op \in SysfsOps /\ ~dead /\ todo = {} /\ Writable
          /\ phase \in {"bound", "removing"} /\ cmd.who \in active
       \/ /\ cmd.op = "restore" /\ phase = "teardown" /\ dead /\ cmd.ch \in todo
       \/ /\ cmd.op = "shutdown" /\ phase = "bound" /\ dead /\ cmd.ch \in todo
  /\ todo # {} => dead /\ phase \in {"bound", "teardown"}
  /\ phase \in {"absent", "unbound"} => touched = {} /\ todo = {} /\ ~dead
  /\ phase = "absent" => unrestored = {}

\* The marks: no command without one, the loops visit marked channels, and a
\* visited channel that is still marked is recorded as failed.
Marks ==
  /\ cmd # NoCmd => cmd.ch \in touched
  /\ todo \subseteq touched
  /\ dead => touched \subseteq todo \cup unrestored \cup lost
  /\ ~Writable => touched = {} /\ unrestored = {}
  /\ (phase \notin {"absent", "unbound"} /\ ~dead) =>
       /\ unrestored \subseteq touched
       /\ unknown \subseteq touched
       /\ \A c \in unknown : enable[c] = 2

\* How far a command has come, and that its curve is the one it was asked for.
Progress ==
  /\ cmd # NoCmd /\ cmd.step # AutoStep =>
       \A i \in Points(cmd.ch) : i < cmd.step => staged[cmd.ch][i] = cmd.duty
  /\ late # NoLate /\ cmd # NoCmd => cmd.step \in {AutoStep, 1}
  /\ late # NoLate /\ late.step = ApplyStep(late.ch) =>
       staged[late.ch] = Flat(late.ch, late.duty)

\* What a command sends, by what was asked for.
Plan ==
  cmd # NoCmd =>
    /\ cmd.op \in {"auto", "restore"} =>
         IF cmd.ch = N5_PWM_PCIE THEN cmd.step # AutoStep /\ cmd.duty = FullDuty
                                 ELSE cmd.step = AutoStep
    /\ cmd.op = "shutdown" =>
         IF cmd.ch \in FullSpeed THEN cmd.step # AutoStep /\ cmd.duty = FullDuty
                                 ELSE cmd.step = AutoStep
    /\ cmd.op \in {"pwm", "full", "manual"} => cmd.step # AutoStep
    /\ cmd.op \in {"full", "manual"} => cmd.duty = FullDuty
    /\ cmd.op = "pwm" => enable[cmd.ch] = 1

IInv ==
  /\ TypeOK /\ Places /\ Marks /\ Progress /\ Plan
  /\ NoForgottenChannel /\ NoMixedCurve

-----------------------------------------------------------------------------
(* Lemmas about the curves.                                                *)

\* A flat curve of an allowed duty is a curve.
LEMMA FlatIsCurve ==
  ASSUME NEW c \in Channels, NEW d \in Duty \cup {Firmware}
  PROVE  Flat(c, d) \in Curves(c)
  BY DEF Flat, Curves

\* A curve whose points are all d is the flat curve of d.
LEMMA CurveIsFlat ==
  ASSUME NEW c \in Channels, NEW f \in Curves(c), NEW d,
         \A i \in Points(c) : f[i] = d
  PROVE  f = Flat(c, d)
  BY DEF Flat, Curves

\* Giving one channel another curve keeps the EC state well formed.
LEMMA ExceptIsCurves ==
  ASSUME NEW f \in EcCurves, NEW c \in Channels, NEW g \in Curves(c)
  PROVE  [f EXCEPT ![c] = g] \in EcCurves
  BY DEF EcCurves

\* A step of a command leaves the EC with curves.
LEMMA EcDoesType ==
  ASSUME NEW c \in Channels, NEW s \in Steps(c), NEW d \in Duty,
         TypeOK, EcDoes(c, s, d)
  PROVE  staged' \in EcCurves /\ out' \in EcCurves
  <1> USE DEF TypeOK
  <1>1. CASE out' = [out EXCEPT ![c] = EcAuto(c)] /\ UNCHANGED staged
    BY <1>1, FlatIsCurve, ExceptIsCurves DEF EcAuto
  <1>2. CASE s \in Points(c) /\ staged' = [staged EXCEPT ![c][s] = d] /\ UNCHANGED out
    <2>1. [staged[c] EXCEPT ![s] = d] \in Curves(c)
      BY <1>2 DEF Curves, EcCurves
    <2>2. QED
      BY <1>2, <2>1, ExceptIsCurves
  <1>3. CASE out' = [out EXCEPT ![c] = staged[c]] /\ UNCHANGED staged
    BY <1>3, ExceptIsCurves DEF EcCurves
  <1>4. QED
    BY <1>1, <1>2, <1>3 DEF EcDoes

-----------------------------------------------------------------------------
(* Type correctness.                                                       *)

\* The commands that sysfs writes and the loops begin with are commands.
LEMMA FirstSteps ==
  ASSUME NEW c \in Channels, NEW d \in Duty, NEW who \in Threads \cup {Kernel},
         NEW op \in SysfsOps \cup DriverOps
  PROVE  /\ SetPwm(op, who, c, d) \in Commands
         /\ SetAuto(op, who, c) \in Commands
         /\ Handback(op, who, c) \in Commands
         /\ ShutdownCmd(c) \in Commands
  BY DriverAssumption
  DEF SetPwm, SetAuto, Handback, ShutdownCmd, CmdOn, Commands, Steps, ApplyStep,
      AutoStep, DriverOps

\* A command in progress is a record of a channel, a duty and a step.
LEMMA CmdFields ==
  ASSUME TypeOK, cmd # NoCmd
  PROVE  /\ cmd \in Commands
         /\ cmd.ch \in Channels /\ cmd.duty \in Duty /\ cmd.step \in Steps(cmd.ch)
         /\ cmd.op \in SysfsOps \cup DriverOps /\ cmd.who \in Threads \cup {Kernel}
  BY DEF TypeOK, Commands

\* The fields of a step the EC may still do.
LEMMA LateFields ==
  ASSUME TypeOK, late # NoLate
  PROVE  late.ch \in Channels /\ late.duty \in Duty /\ late.step \in Steps(late.ch)
  BY DEF TypeOK, LateSteps

\* The values a new binding starts from.
LEMMA FreshIsTyped ==
  /\ [c \in Channels |-> FullDuty] \in [Channels -> Duty]
  /\ [c \in Channels |-> 2] \in [Channels -> 0..2]
  BY DriverAssumption DEF DriverAssumption

\* Types hold in the beginning: an untouched board under EC control.
LEMMA InitIsTyped == Init => TypeOK
  <1> SUFFICES ASSUME Init PROVE TypeOK
    OBVIOUS
  <1>1. [c \in Channels |-> EcAuto(c)] \in EcCurves
    BY FlatIsCurve DEF EcAuto, EcCurves
  <1>2. QED
    BY <1>1, FreshIsTyped DEF Init, TypeOK, Phases

\* Every action of driver, module and EC keeps the types.
LEMMA TypeStep == TypeOK /\ [Next]_vars => TypeOK'
  <1> SUFFICES ASSUME TypeOK, [Next]_vars PROVE TypeOK'
    OBVIOUS
  <1> USE DEF drv, ec, hist
  <1>1. CASE LoadModule \/ UnloadModule \/ Probe \/ Unbind \/ HwmonGone
    BY <1>1, FreshIsTyped
    DEF LoadModule, UnloadModule, Probe, FreshData, Unbind, HwmonGone, TypeOK, Phases
  <1>2. CASE RestoreBegin \/ ReleasePorts \/ ShutdownBegin
    BY <1>2, FreshIsTyped
    DEF RestoreBegin, ReleasePorts, FreshData, ShutdownBegin, TypeOK, Phases
  <1>3. ASSUME NEW c \in Channels, RestoreChannel(c) \/ ShutdownChannel(c)
        PROVE  TypeOK'
    <2>1. Handback("restore", Kernel, c) \in Commands /\ ShutdownCmd(c) \in Commands
      BY FirstSteps, DriverAssumption DEF DriverOps
    <2>2. QED
      BY <1>3, <2>1 DEF RestoreChannel, ShutdownChannel, TypeOK
  <1>4. ASSUME NEW warm \in BOOLEAN, PowerOff(warm)
        PROVE  TypeOK'
    <2>1. \A c \in Channels : EcAuto(c) \in Curves(c)
      BY FlatIsCurve DEF EcAuto
    <2>2. staged' \in EcCurves /\ out' \in EcCurves
      BY <1>4, <2>1 DEF PowerOff, TypeOK, EcCurves
    <2>3. QED
      BY <1>4, <2>2, FreshIsTyped DEF PowerOff, FreshData, TypeOK, Phases
  <1>5. ASSUME NEW t \in Threads, Sysfs(t)
        PROVE  TypeOK'
    <2>1. CASE EnterCallback(t) \/ ReturnUnchanged(t)
      BY <2>1 DEF EnterCallback, ReturnUnchanged, TypeOK
    <2>2. ASSUME NEW c \in Channels, NEW k \in Commands, Start(k, c)
          PROVE  TypeOK'
      BY <2>2 DEF Start, TypeOK
    <2>3. ASSUME NEW c \in Channels, NEW d \in Duty, WritePwm(t, c, d)
          PROVE  TypeOK'
      BY <2>2, <2>3, FirstSteps DEF WritePwm, SysfsOps
    <2>4. ASSUME NEW c \in Channels,
                 WriteEnable0(t, c) \/ WriteEnable1(t, c) \/ WriteEnable2(t, c)
          PROVE  TypeOK'
      BY <2>2, <2>4, FirstSteps, DriverAssumption
      DEF WriteEnable0, WriteEnable1, WriteEnable2, SysfsOps
    <2>5. ASSUME NEW c \in Channels, WriteEnable1Again(t, c)
          PROVE  TypeOK'
      BY <2>5 DEF WriteEnable1Again, TypeOK
    <2>6. QED
      BY <1>5, <2>1, <2>3, <2>4, <2>5 DEF Sysfs
  <1>6. CASE StepDone
    <2>1. staged' \in EcCurves /\ out' \in EcCurves
      BY <1>6, CmdFields, EcDoesType DEF StepDone
    <2>2. cmd' \in Commands
      <3>1. cmd.step + 1 \in Steps(cmd.ch)
        BY <1>6, CmdFields, DriverAssumption
        DEF StepDone, LastStep, Steps, ApplyStep, AutoStep
      <3>2. QED
        BY <1>6, <3>1, CmdFields DEF StepDone, Commands, Steps
    <2>3. QED
      BY <1>6, <2>1, <2>2 DEF StepDone, TypeOK
  <1>7. CASE CommandDone
    <2>1. staged' \in EcCurves /\ out' \in EcCurves
      BY <1>7, CmdFields, EcDoesType DEF CommandDone
    <2>2. QED
      BY <1>7, <2>1, CmdFields, DriverAssumption
      DEF CommandDone, CacheAfter, EndCommand, TypeOK
  <1>8. CASE StepTimesOut
    <2>1. late' \in LateSteps \cup {NoLate}
      BY <1>8, CmdFields DEF StepTimesOut, TypeOK, LateSteps, Steps
    <2>2. QED
      BY <1>8, <2>1, CmdFields DEF StepTimesOut, CacheAfterError, EndCommand, TypeOK
  <1>9. CASE EcCatchesUp
    <2>1. staged' \in EcCurves /\ out' \in EcCurves
      BY <1>9, LateFields, EcDoesType DEF EcCatchesUp
    <2>2. QED
      BY <1>9, <2>1 DEF EcCatchesUp, TypeOK
  <1>10. CASE UNCHANGED vars
    BY <1>10 DEF vars, TypeOK
  <1>11. QED
    BY <1>1, <1>2, <1>3, <1>4, <1>5, <1>6, <1>7, <1>8, <1>9, <1>10
    DEF Next, Transaction

\* The driver's data, the module's mask and the EC state keep their types.
THEOREM TypeCorrect == Spec => []TypeOK
  BY InitIsTyped, TypeStep, PTL DEF Spec

-----------------------------------------------------------------------------
(* The inductive invariant.                                                *)

\* The inductive invariant holds before the module is loaded.
LEMMA InitInv == Init => IInv
  <1> SUFFICES ASSUME Init PROVE IInv
    OBVIOUS
  <1>1. TypeOK
    BY InitIsTyped
  <1>2. Places /\ Marks /\ Progress /\ Plan
    BY DEF Init, Places, Marks, Progress, Plan
  <1>3. NoForgottenChannel
    BY DEF Init, NoForgottenChannel, Held, Parked, LateOf
  <1>4. NoMixedCurve
    BY DEF Init, NoMixedCurve, EcAuto
  <1>5. QED
    BY <1>1, <1>2, <1>3, <1>4 DEF IInv

\* Locks, dead flag and kernfs keep the commands apart, step by step.
LEMMA PlacesStep == TypeOK /\ Places /\ [Next]_vars => Places'
  <1> SUFFICES ASSUME TypeOK, Places, [Next]_vars PROVE Places'
    OBVIOUS
  <1> USE DEF drv, ec, hist, LockFree, Places
  <1>1. CASE LoadModule \/ UnloadModule \/ Probe \/ Unbind \/ HwmonGone
    BY <1>1
    DEF LoadModule, UnloadModule, Probe, FreshData, Unbind, HwmonGone
  <1>2. CASE RestoreBegin \/ ReleasePorts \/ ShutdownBegin
    BY <1>2 DEF RestoreBegin, ReleasePorts, FreshData, ShutdownBegin
  <1>3. ASSUME NEW c \in Channels, RestoreChannel(c)
        PROVE  Places'
    <2>1. cmd'.op = "restore" /\ cmd'.ch = c
      BY <1>3 DEF RestoreChannel, Handback, SetPwm, SetAuto, CmdOn
    <2>2. QED
      BY <1>3, <2>1 DEF RestoreChannel, NextChannel
  <1>4. ASSUME NEW c \in Channels, ShutdownChannel(c)
        PROVE  Places'
    <2>1. cmd'.op = "shutdown" /\ cmd'.ch = c
      BY <1>4 DEF ShutdownChannel, ShutdownCmd, SetPwm, SetAuto, CmdOn
    <2>2. QED
      BY <1>4, <2>1 DEF ShutdownChannel, NextChannel
  <1>5. ASSUME NEW warm \in BOOLEAN, PowerOff(warm)
        PROVE  Places'
    BY <1>5 DEF PowerOff, FreshData
  <1>6. ASSUME NEW t \in Threads, Sysfs(t)
        PROVE  Places'
    <2>1. CASE EnterCallback(t) \/ ReturnUnchanged(t)
      BY <2>1 DEF EnterCallback, ReturnUnchanged
    <2>2. ASSUME NEW c \in Channels, NEW k, k.op \in SysfsOps, k.who = t,
                 MayWrite(t), Start(k, c)
          PROVE  Places'
      BY <2>2 DEF Start, MayWrite
    <2>3. ASSUME NEW c \in Channels, NEW d \in Duty, WritePwm(t, c, d)
          PROVE  Places'
      BY <2>2, <2>3 DEF WritePwm, SetPwm, CmdOn, SysfsOps
    <2>4. ASSUME NEW c \in Channels,
                 WriteEnable0(t, c) \/ WriteEnable1(t, c) \/ WriteEnable2(t, c)
          PROVE  Places'
      BY <2>2, <2>4
      DEF WriteEnable0, WriteEnable1, WriteEnable2, Handback, SetPwm, SetAuto, CmdOn,
          SysfsOps
    <2>5. ASSUME NEW c \in Channels, WriteEnable1Again(t, c)
          PROVE  Places'
      BY <2>5 DEF WriteEnable1Again, MayWrite
    <2>6. QED
      BY <1>6, <2>1, <2>3, <2>4, <2>5 DEF Sysfs
  <1>7. CASE StepDone
    <2>1. cmd' # NoCmd /\ cmd'.op = cmd.op /\ cmd'.ch = cmd.ch /\ cmd'.who = cmd.who
      BY <1>7, CmdFields DEF StepDone, Commands, NoCmd, SysfsOps, DriverOps
    <2>2. QED
      BY <1>7, <2>1 DEF StepDone
  <1>8. CASE CommandDone
    BY <1>8, CmdFields DEF CommandDone, EndCommand, SysfsOps, DriverOps
  <1>9. CASE StepTimesOut
    BY <1>9, CmdFields DEF StepTimesOut, EndCommand, CacheAfterError, SysfsOps, DriverOps
  <1>10. CASE EcCatchesUp
    BY <1>10 DEF EcCatchesUp
  <1>11. CASE UNCHANGED vars
    BY <1>11 DEF vars
  <1>12. QED
    BY <1>1, <1>2, <1>3, <1>4, <1>5, <1>6, <1>7, <1>8, <1>9, <1>10, <1>11
    DEF Next, Transaction

\* n5_write, n5_restore and n5_probe keep the marks in order.
LEMMA MarksStep == TypeOK /\ Places /\ Marks /\ [Next]_vars => Marks'
  <1> SUFFICES ASSUME TypeOK, Places, Marks, [Next]_vars PROVE Marks'
    OBVIOUS
  <1> USE DEF drv, ec, hist, LockFree, Places, Marks
  <1>1. CASE LoadModule \/ UnloadModule \/ Unbind \/ HwmonGone
    BY <1>1 DEF LoadModule, UnloadModule, Unbind, HwmonGone
  <1>2. CASE Probe
    <2>1. \A c \in Channels : enable'[c] = 2
      BY <1>2 DEF Probe, FreshData
    <2>2. QED
      BY <1>2, <2>1 DEF Probe, FreshData, TypeOK
  <1>3. CASE RestoreBegin \/ ReleasePorts \/ ShutdownBegin
    BY <1>3 DEF RestoreBegin, ReleasePorts, FreshData, ShutdownBegin
  <1>4. ASSUME NEW c \in Channels, RestoreChannel(c) \/ ShutdownChannel(c)
        PROVE  Marks'
    <2>1. cmd'.ch = c
      BY <1>4 DEF RestoreChannel, ShutdownChannel, ShutdownCmd, Handback, SetPwm,
                  SetAuto, CmdOn
    <2>2. QED
      BY <1>4, <2>1 DEF RestoreChannel, ShutdownChannel, NextChannel
  <1>5. ASSUME NEW warm \in BOOLEAN, PowerOff(warm)
        PROVE  Marks'
    BY <1>5 DEF PowerOff, FreshData
  <1>6. ASSUME NEW t \in Threads, Sysfs(t)
        PROVE  Marks'
    <2>1. CASE EnterCallback(t) \/ ReturnUnchanged(t)
      BY <2>1 DEF EnterCallback, ReturnUnchanged
    <2>2. ASSUME NEW c \in Channels, NEW k, k.ch = c, MayWrite(t), Start(k, c)
          PROVE  Marks'
      BY <2>2 DEF Start, MayWrite
    <2>3. ASSUME NEW c \in Channels, NEW d \in Duty, WritePwm(t, c, d)
          PROVE  Marks'
      BY <2>2, <2>3 DEF WritePwm, SetPwm, CmdOn
    <2>4. ASSUME NEW c \in Channels,
                 WriteEnable0(t, c) \/ WriteEnable1(t, c) \/ WriteEnable2(t, c)
          PROVE  Marks'
      BY <2>2, <2>4
      DEF WriteEnable0, WriteEnable1, WriteEnable2, Handback, SetPwm, SetAuto, CmdOn
    <2>5. ASSUME NEW c \in Channels, WriteEnable1Again(t, c)
          PROVE  Marks'
      BY <2>5 DEF WriteEnable1Again, MayWrite
    <2>6. QED
      BY <1>6, <2>1, <2>3, <2>4, <2>5 DEF Sysfs
  <1>7. CASE StepDone
    <2>1. cmd' # NoCmd /\ cmd'.ch = cmd.ch
      BY <1>7, CmdFields DEF StepDone, Commands, NoCmd, SysfsOps, DriverOps
    <2>2. QED
      BY <1>7, <2>1 DEF StepDone
  <1>8. CASE CommandDone
    <2> DEFINE c == cmd.ch
    <2>1. c \in Channels /\ cmd' = NoCmd /\ dead' = dead /\ phase' = phase
      BY <1>8, CmdFields DEF CommandDone, EndCommand
    <2>2. \A x \in unknown' : x \in unknown /\ (enable[x] = 2 => enable'[x] = 2)
      BY <1>8, CmdFields DEF CommandDone, CacheAfter, TypeOK
    <2>3. /\ unrestored' \subseteq unrestored /\ unknown' \subseteq unknown
          /\ touched' \subseteq touched
          /\ touched \ touched' \subseteq {c}
          /\ c \notin touched' =>
               (c \notin unrestored' /\ c \notin unknown') \/ cmd.op = "shutdown"
      BY <1>8 DEF CommandDone, CacheAfter
    <2>4. CASE cmd.op \in DriverOps
      <3>1. dead /\ todo' = todo \ {c}
        BY <1>8, <2>4 DEF CommandDone, EndCommand, DriverOps, SysfsOps
      <3>2. c \notin touched'
        BY <1>8, <2>4 DEF CommandDone, CacheAfter, DriverOps
      <3>3. /\ unrestored \ unrestored' \subseteq {c} /\ lost \ lost' \subseteq {c}
        BY <1>8 DEF CommandDone, CacheAfter
      <3>4. QED
        BY <2>1, <2>3, <3>1, <3>2, <3>3
    <2>5. CASE cmd.op \in SysfsOps
      <3>1. ~dead /\ todo' = {} /\ Writable /\ phase \in {"bound", "removing"}
        BY <1>8, <2>5 DEF CommandDone, EndCommand, DriverOps, SysfsOps
      <3>2. QED
        BY <2>1, <2>2, <2>3, <2>5, <3>1 DEF SysfsOps
    <2>6. QED
      BY <1>8, <2>4, <2>5, CmdFields DEF CommandDone
  <1>9. CASE StepTimesOut
    BY <1>9, CmdFields DEF StepTimesOut, EndCommand, CacheAfterError, SysfsOps, DriverOps
  <1>10. CASE EcCatchesUp
    BY <1>10 DEF EcCatchesUp
  <1>11. CASE UNCHANGED vars
    BY <1>11 DEF vars
  <1>12. QED
    BY <1>1, <1>2, <1>3, <1>4, <1>5, <1>6, <1>7, <1>8, <1>9, <1>10, <1>11
    DEF Next, Transaction

\* The steps between commands and boots: the EC and the command stay as they are.
QuietStep ==
  \/ LoadModule \/ UnloadModule \/ Probe \/ Unbind \/ HwmonGone
  \/ RestoreBegin \/ ReleasePorts \/ ShutdownBegin
  \/ \E t \in Threads : \/ EnterCallback(t) \/ ReturnUnchanged(t)
                        \/ \E c \in Channels : WriteEnable1Again(t, c)
  \/ UNCHANGED vars
Quiet == UNCHANGED <<cmd, staged, out, late>>

\* The actions that leave commands, curves and modes alone.
LEMMA QuietActions ==
  ASSUME QuietStep
  PROVE  Quiet
  BY DEF QuietStep, Quiet, LoadModule, UnloadModule, Probe, Unbind, HwmonGone, RestoreBegin,
         ReleasePorts, ShutdownBegin, EnterCallback, ReturnUnchanged,
         WriteEnable1Again, vars, drv, ec, hist

\* The steps that begin a command, and how they leave everything else.
Begins ==
  /\ UNCHANGED <<staged, out, late>>
  /\ cmd = NoCmd /\ cmd' \in Commands /\ cmd'.step \in {AutoStep, 1}
  /\ UNCHANGED <<unrestored, lost>>
  /\ \E c \in Channels : touched' \in {touched, touched \cup {c}}
BeginStep ==
  \/ \E c \in Channels : RestoreChannel(c) \/ ShutdownChannel(c)
  \/ \E t \in Threads, c \in Channels :
       \/ \E d \in Duty : WritePwm(t, c, d)
       \/ WriteEnable0(t, c) \/ WriteEnable1(t, c) \/ WriteEnable2(t, c)

\* The actions that begin a command, and what it looks like then.
LEMMA BeginActions ==
  ASSUME TypeOK, BeginStep
  PROVE  Begins /\ Plan'
  <1> USE DriverAssumption DEF ec, drv, hist, LockFree
  <1>1. ASSUME NEW c \in Channels, RestoreChannel(c)
        PROVE  Begins /\ Plan'
    <2>1. cmd' \in Commands
      BY <1>1, FirstSteps DEF RestoreChannel, DriverOps
    <2>2. QED
      BY <1>1, <2>1
      DEF Begins, RestoreChannel, Handback, SetPwm, SetAuto, CmdOn, Plan, AutoStep
  <1>2. ASSUME NEW c \in Channels, ShutdownChannel(c)
        PROVE  Begins /\ Plan'
    <2>1. cmd' \in Commands
      BY <1>2, FirstSteps DEF ShutdownChannel, DriverOps
    <2>2. QED
      BY <1>2, <2>1
      DEF Begins, ShutdownChannel, ShutdownCmd, SetPwm, SetAuto, CmdOn, Plan, AutoStep
  <1>3. ASSUME NEW t \in Threads, NEW c \in Channels, NEW d \in Duty, WritePwm(t, c, d)
        PROVE  Begins /\ Plan'
    <2>1. cmd' \in Commands
      BY <1>3, FirstSteps DEF WritePwm, Start, SysfsOps
    <2>2. QED
      BY <1>3, <2>1 DEF Begins, WritePwm, MayWrite, Start, SetPwm, CmdOn, Plan, AutoStep
  <1>4. ASSUME NEW t \in Threads, NEW c \in Channels, WriteEnable0(t, c)
        PROVE  Begins /\ Plan'
    <2>1. SetPwm("full", t, c, FullDuty) \in Commands
      BY FirstSteps DEF SysfsOps
    <2>2. QED
      BY <1>4, <2>1 DEF Begins, WriteEnable0, MayWrite, Start, SetPwm, CmdOn, Plan, AutoStep
  <1>5. ASSUME NEW t \in Threads, NEW c \in Channels, WriteEnable1(t, c)
        PROVE  Begins /\ Plan'
    <2>1. SetPwm("manual", t, c, FullDuty) \in Commands
      BY FirstSteps DEF SysfsOps
    <2>2. QED
      BY <1>5, <2>1 DEF Begins, WriteEnable1, MayWrite, Start, SetPwm, CmdOn, Plan, AutoStep
  <1>6. ASSUME NEW t \in Threads, NEW c \in Channels, WriteEnable2(t, c)
        PROVE  Begins /\ Plan'
    <2>1. Handback("auto", t, c) \in Commands
      BY FirstSteps DEF SysfsOps
    <2>2. QED
      BY <1>6, <2>1
      DEF Begins, WriteEnable2, Handback, MayWrite, Start, SetPwm, SetAuto, CmdOn, Plan,
          AutoStep
  <1>7. QED
    BY <1>1, <1>2, <1>3, <1>4, <1>5, <1>6 DEF BeginStep

\* A quiet step leaves the cached mode alone as long as a command is running.
LEMMA QuietKeepsMode ==
  ASSUME Places, QuietStep
  PROVE  cmd = NoCmd \/ enable' = enable
  BY DEF QuietStep, Places, LockFree, LoadModule, UnloadModule, Probe, Unbind, HwmonGone,
         RestoreBegin, ReleasePorts, ShutdownBegin, EnterCallback, ReturnUnchanged,
         WriteEnable1Again, vars, drv, ec, hist

\* Next, sorted by what the proofs below distinguish.
LEMMA NextCases ==
  ASSUME TypeOK, Places, [Next]_vars
  PROVE  \/ Quiet /\ (cmd = NoCmd \/ enable' = enable)
            /\ \/ LoadModule \/ UnloadModule \/ Probe \/ ReleasePorts
               \/ UNCHANGED <<touched, unrestored, lost>>
         \/ Begins /\ Plan'
         \/ \E warm \in BOOLEAN : PowerOff(warm)
         \/ StepDone \/ CommandDone \/ StepTimesOut \/ EcCatchesUp
  <1>1. CASE QuietStep
    <2>1. \/ LoadModule \/ UnloadModule \/ Probe \/ ReleasePorts
          \/ UNCHANGED <<touched, unrestored, lost>>
      BY <1>1 DEF QuietStep, Unbind, HwmonGone, RestoreBegin, ShutdownBegin, EnterCallback,
                  ReturnUnchanged, WriteEnable1Again, vars, drv, hist
    <2>2. QED
      BY <1>1, <2>1, QuietActions, QuietKeepsMode
  <1>2. CASE BeginStep
    BY <1>2, BeginActions
  <1>3. QED
    BY <1>1, <1>2 DEF QuietStep, BeginStep, Next, Sysfs, Transaction

\* What becomes of the curve in force when the EC does a step.
LEMMA EcDoesOut ==
  ASSUME NEW c \in Channels, NEW s \in Steps(c), NEW d \in Duty,
         TypeOK, EcDoes(c, s, d),
         s = ApplyStep(c) => staged[c] = Flat(c, d)
  PROVE  /\ s = AutoStep => out' = [out EXCEPT ![c] = EcAuto(c)]
         /\ s = ApplyStep(c) => out' = [out EXCEPT ![c] = Flat(c, d)]
         /\ s \notin {AutoStep, ApplyStep(c)} => s \in Points(c) /\ out' = out
  BY DriverAssumption DEF EcDoes, Steps, Points, ApplyStep, AutoStep

\* A command is what was asked for until it ends.
LEMMA PlanStep == TypeOK /\ Places /\ Plan /\ [Next]_vars => Plan'
  <1> SUFFICES ASSUME TypeOK, Places, Plan, [Next]_vars PROVE Plan'
    OBVIOUS
  <1>1. CASE Quiet /\ (cmd = NoCmd \/ enable' = enable)
    BY <1>1 DEF Quiet, Plan
  <1>2. CASE \E warm \in BOOLEAN : PowerOff(warm)
    BY <1>2 DEF PowerOff, LockFree, Plan
  <1>3. CASE StepDone
    <2>1. /\ cmd # NoCmd /\ cmd.step \in Nat \ {AutoStep}
          /\ cmd'.op = cmd.op /\ cmd'.ch = cmd.ch /\ cmd'.duty = cmd.duty
          /\ cmd'.step = cmd.step + 1 /\ enable' = enable
      BY <1>3, CmdFields, DriverAssumption
      DEF StepDone, LastStep, Commands, Steps, ApplyStep, AutoStep, drv
    <2>2. QED
      BY <2>1 DEF Plan, AutoStep
  <1>4. CASE CommandDone \/ StepTimesOut
    BY <1>4 DEF CommandDone, StepTimesOut, EndCommand, Plan
  <1>5. CASE EcCatchesUp
    BY <1>5 DEF EcCatchesUp, drv, Plan
  <1>6. QED
    BY <1>1, <1>2, <1>3, <1>4, <1>5, NextCases

\* The points written so far are those of the command in hand.
LEMMA ProgressStep == TypeOK /\ Places /\ Progress /\ [Next]_vars => Progress'
  <1> SUFFICES ASSUME TypeOK, Places, Progress, [Next]_vars PROVE Progress'
    OBVIOUS
  <1>1. CASE Quiet
    BY <1>1 DEF Quiet, Progress
  <1>2. CASE Begins
    <2>1. cmd'.step # AutoStep =>
            \A i \in Points(cmd'.ch) : i < cmd'.step => FALSE
      BY <1>2 DEF Begins, Points, AutoStep
    <2>2. QED
      BY <1>2, <2>1 DEF Begins, Progress
  <1>3. CASE \E warm \in BOOLEAN : PowerOff(warm)
    BY <1>3 DEF PowerOff, LockFree, Progress
  <1>4. CASE StepDone
    <2> DEFINE c == cmd.ch
    <2>1. /\ c \in Channels /\ cmd.step \in Points(c) /\ late' = NoLate
          /\ cmd'.ch = c /\ cmd'.duty = cmd.duty /\ cmd'.step = cmd.step + 1
      BY <1>4, CmdFields, DriverAssumption
      DEF StepDone, LastStep, Commands, Steps, ApplyStep, Points, AutoStep
    <2>2. staged' = [staged EXCEPT ![c][cmd.step] = cmd.duty]
      BY <1>4, <2>1, DriverAssumption
      DEF StepDone, EcDoes, Points, ApplyStep, AutoStep, LastStep
    <2>3. staged[c] \in Curves(c)
      BY <2>1 DEF TypeOK, EcCurves
    <2>4. staged'[c] = [staged[c] EXCEPT ![cmd.step] = cmd.duty]
      BY <2>1, <2>2 DEF TypeOK, EcCurves
    <2>5. \A i \in Points(c) : i < cmd.step => staged[c][i] = cmd.duty
      BY <1>4, <2>1 DEF StepDone, Progress, LastStep
    <2>6. \A i \in Points(c) : i < cmd.step + 1 => staged'[c][i] = cmd.duty
      BY <2>1, <2>3, <2>4, <2>5, DriverAssumption DEF Curves, Points
    <2>7. QED
      BY <2>1, <2>6 DEF Progress
  <1>5. CASE CommandDone
    BY <1>5 DEF CommandDone, EndCommand, Progress
  <1>6. CASE StepTimesOut
    <2>1. cmd' = NoCmd /\ staged' = staged /\ cmd # NoCmd
      BY <1>6 DEF StepTimesOut, EndCommand
    <2>2. CASE late' = late
      BY <2>1, <2>2 DEF Progress
    <2>3. CASE late' = [ch |-> cmd.ch, duty |-> cmd.duty, step |-> cmd.step]
      <3>1. ASSUME cmd.step = ApplyStep(cmd.ch)
            PROVE  staged[cmd.ch] = Flat(cmd.ch, cmd.duty)
        <4>1. \A i \in Points(cmd.ch) : staged[cmd.ch][i] = cmd.duty
          BY <2>1, <3>1, CmdFields, DriverAssumption
          DEF Progress, Points, ApplyStep, AutoStep
        <4>2. QED
          BY <2>1, <4>1, CmdFields, CurveIsFlat DEF TypeOK, EcCurves
      <3>2. QED
        BY <2>1, <2>3, <3>1 DEF Progress
    <2>4. QED
      BY <1>6, <2>2, <2>3 DEF StepTimesOut
  <1>7. CASE EcCatchesUp
    <2>1. late' = NoLate /\ cmd' = cmd
      BY <1>7 DEF EcCatchesUp
    <2>2. cmd # NoCmd => cmd.step \in {AutoStep, 1}
      BY <1>7 DEF EcCatchesUp, Progress
    <2>3. \A i \in Nat \ {0} : ~(i < 1)
      OBVIOUS
    <2>4. QED
      BY <2>1, <2>2, <2>3 DEF Progress, Points, AutoStep
  <1>8. QED
    BY <1>1, <1>2, <1>3, <1>4, <1>5, <1>6, <1>7, NextCases

\* A channel whose curve in force becomes flat is not mixed.
LEMMA FlatIsNotMixed ==
  ASSUME NEW c \in Channels, NEW d \in Duty \cup {Firmware}, TypeOK, NoMixedCurve,
         out' = [out EXCEPT ![c] = Flat(c, d)]
  PROVE  NoMixedCurve'
  <1>1. ASSUME NEW x \in Channels
        PROVE  \E y \in Duty \cup {Firmware} : out'[x] = Flat(x, y)
    <2>1. CASE x = c
      BY <2>1 DEF TypeOK, EcCurves
    <2>2. CASE x # c
      BY <2>2 DEF TypeOK, EcCurves, NoMixedCurve
    <2>3. QED
      BY <2>1, <2>2
  <1>2. QED
    BY <1>1 DEF NoMixedCurve, Flat, Points

\* The step of a command in progress, and the late one, find the curve staged.
LEMMA StagedCurve ==
  ASSUME TypeOK, Progress
  PROVE  /\ cmd # NoCmd /\ cmd.step = ApplyStep(cmd.ch) =>
              staged[cmd.ch] = Flat(cmd.ch, cmd.duty)
         /\ late # NoLate /\ late.step = ApplyStep(late.ch) =>
              staged[late.ch] = Flat(late.ch, late.duty)
  <1>1. ASSUME cmd # NoCmd, cmd.step = ApplyStep(cmd.ch)
        PROVE  staged[cmd.ch] = Flat(cmd.ch, cmd.duty)
    <2>1. \A i \in Points(cmd.ch) : staged[cmd.ch][i] = cmd.duty
      BY <1>1, CmdFields, DriverAssumption
      DEF Progress, Points, ApplyStep, AutoStep
    <2>2. QED
      BY <1>1, <2>1, CmdFields, CurveIsFlat DEF TypeOK, EcCurves
  <1>2. QED
    BY <1>1 DEF Progress

\* No step of the EC puts a mixed curve in force.
LEMMA NoMixedStep ==
  TypeOK /\ Places /\ Progress /\ NoMixedCurve /\ [Next]_vars => NoMixedCurve'
  <1> SUFFICES ASSUME TypeOK, Places, Progress, NoMixedCurve, [Next]_vars
               PROVE  NoMixedCurve'
    OBVIOUS
  <1>1. CASE out' = out
    BY <1>1 DEF NoMixedCurve, Flat, Points
  <1>2. ASSUME NEW warm \in BOOLEAN, PowerOff(warm)
        PROVE  NoMixedCurve'
    <2>1. \A c \in Channels : out'[c] \in {out[c], Flat(c, Firmware)}
      BY <1>2 DEF PowerOff, EcAuto
    <2>2. ASSUME NEW c \in Channels
          PROVE  \E d \in Duty \cup {Firmware} : out'[c] = Flat(c, d)
      <3>1. CASE out'[c] = out[c]
        BY <3>1 DEF NoMixedCurve
      <3>2. CASE out'[c] = Flat(c, Firmware)
        BY <3>2
      <3>3. QED
        BY <2>1, <3>1, <3>2
    <2>3. QED
      BY <2>2 DEF NoMixedCurve, Flat, Points
  <1>3. ASSUME NEW c \in Channels, NEW s \in Steps(c), NEW d \in Duty,
               EcDoes(c, s, d), s = ApplyStep(c) => staged[c] = Flat(c, d)
        PROVE  NoMixedCurve'
    <2>1. CASE s = AutoStep
      BY <1>3, <2>1, EcDoesOut, FlatIsNotMixed DEF EcAuto
    <2>2. CASE s = ApplyStep(c)
      BY <1>3, <2>2, EcDoesOut, FlatIsNotMixed
    <2>3. CASE s \notin {AutoStep, ApplyStep(c)}
      BY <1>1, <1>3, <2>3, EcDoesOut
    <2>4. QED
      BY <2>1, <2>2, <2>3
  <1>4. CASE StepDone \/ CommandDone
    BY <1>3, <1>4, CmdFields, StagedCurve DEF StepDone, CommandDone
  <1>5. CASE StepTimesOut
    BY <1>1, <1>5 DEF StepTimesOut
  <1>6. CASE EcCatchesUp
    BY <1>3, <1>6, LateFields, StagedCurve DEF EcCatchesUp
  <1>7. QED
    BY <1>1, <1>2, <1>4, <1>5, <1>6, NextCases DEF Quiet, Begins

\* The command that ends a channel's mark leaves the channel parked.
LEMMA HandbackParks ==
  ASSUME IInv, CommandDone, cmd.op \in {"auto", "restore", "shutdown"},
         NEW c, c = cmd.ch
  PROVE  Parked(c)'
  <1>1. /\ TypeOK /\ Progress /\ Plan /\ cmd # NoCmd /\ LastStep(cmd)
        /\ EcDoes(c, cmd.step, cmd.duty)
    BY DEF IInv, CommandDone
  <1>2. /\ c \in Channels /\ cmd.step \in Steps(c) /\ cmd.duty \in Duty
        /\ out \in [Channels -> UNION {Curves(x) : x \in Channels}]
    BY <1>1, CmdFields DEF TypeOK, EcCurves
  <1>3. CASE cmd.step = AutoStep
    <2>1. out'[c] = EcAuto(c)
      BY <1>1, <1>2, <1>3, EcDoesOut, StagedCurve
    <2>2. QED
      BY <2>1 DEF Parked, EcAuto, Flat, Points
  <1>4. CASE cmd.step # AutoStep
    <2>1. c \in FullSpeed /\ cmd.duty = FullDuty /\ cmd.step = ApplyStep(c)
      BY <1>1, <1>4 DEF Plan, FullSpeed, LastStep
    <2>2. out'[c] = Flat(c, FullDuty)
      BY <1>1, <1>2, <2>1, EcDoesOut, StagedCurve
    <2>3. QED
      BY <2>1, <2>2 DEF Parked, EcAuto, Flat, Points
  <1>5. QED
    BY <1>3, <1>4

\* No step drops the last note of a channel that is still held.
LEMMA NoForgottenStep == IInv /\ [Next]_vars => NoForgottenChannel'
  <1> SUFFICES ASSUME IInv, [Next]_vars PROVE NoForgottenChannel'
    OBVIOUS
  <1>0. TypeOK /\ Places /\ Marks /\ NoForgottenChannel
    BY DEF IInv
  <1>1. ASSUME out' = out, late' = late
        PROVE  Held' = Held
    BY <1>1 DEF Held, Parked, LateOf, EcAuto, Flat, Points
  <1>2. CASE Quiet /\ UNCHANGED <<touched, unrestored, lost>>
    BY <1>0, <1>1, <1>2 DEF Quiet, NoForgottenChannel, Claims
  <1>3. CASE Quiet /\ (LoadModule \/ UnloadModule \/ Probe \/ ReleasePorts)
    <2>1. Claims \subseteq Claims'
      BY <1>0, <1>3 DEF Places, Marks, LoadModule, UnloadModule, Probe, ReleasePorts,
                        LockFree, Claims, hist
    <2>2. QED
      BY <1>0, <1>1, <1>3, <2>1 DEF Quiet, NoForgottenChannel
  <1>4. CASE Begins
    BY <1>0, <1>1, <1>4 DEF Begins, NoForgottenChannel, Claims
  <1>5. ASSUME NEW warm \in BOOLEAN, PowerOff(warm)
        PROVE  NoForgottenChannel'
    <2>1. \A c \in Channels : c \in Held' => warm /\ c = N5_PWM_PCIE /\ c \in Held
      BY <1>5, <1>0 DEF PowerOff, Held, Parked, LateOf, EcAuto, Flat, Points, TypeOK, EcCurves
    <2>2. touched \subseteq unrestored \cup lost
      BY <1>0, <1>5 DEF PowerOff, LockFree, Places, Marks
    <2>3. warm /\ N5_PWM_PCIE \in Claims => N5_PWM_PCIE \in lost'
      BY <1>5, <2>2 DEF PowerOff, Claims
    <2>4. QED
      BY <1>0, <2>1, <2>3 DEF NoForgottenChannel, Claims, Held
  <1>6. CASE StepDone
    BY <1>0, <1>1, <1>6, CmdFields, EcDoesOut
    DEF StepDone, LastStep, drv, hist, NoForgottenChannel, Claims
  <1>7. CASE CommandDone
    <2>1. \A c \in Channels \ {cmd.ch} : Parked(c) => Parked(c)'
      BY <1>0, <1>7, CmdFields DEF CommandDone, EcDoes, Parked, EcAuto, Flat, Points, TypeOK, EcCurves
    <2>2. Held' \subseteq Held \cup {cmd.ch}
      BY <2>1, <1>7 DEF Held, CommandDone, LateOf
    <2>3. CASE cmd.op \in {"auto", "restore", "shutdown"}
      <3>1. cmd.ch \notin Held'
        BY <1>7, <2>3, HandbackParks DEF Held, CommandDone, LateOf
      <3>2. Claims \ {cmd.ch} \subseteq Claims'
        BY <1>7, <2>3 DEF CommandDone, CacheAfter, Claims
      <3>3. QED
        BY <1>0, <2>2, <3>1, <3>2 DEF NoForgottenChannel
    <2>4. CASE cmd.op \in {"pwm", "full", "manual"}
      <3>1. UNCHANGED <<touched, unrestored, lost>>
        BY <1>7, <2>4 DEF CommandDone, CacheAfter
      <3>2. QED
        BY <1>0, <1>7, <2>2, <3>1 DEF NoForgottenChannel, Claims, Marks, CommandDone
    <2>5. QED
      BY <1>0, <1>7, <2>3, <2>4, CmdFields DEF CommandDone, SysfsOps, DriverOps
  <1>8. CASE StepTimesOut
    <2>1. Held' \subseteq Held \cup {cmd.ch}
      BY <1>8 DEF StepTimesOut, Held, Parked, LateOf, EcAuto, Flat, Points
    <2>2. cmd.ch \in touched /\ Claims \subseteq Claims'
      BY <1>0, <1>8 DEF StepTimesOut, CacheAfterError, Marks, Claims
    <2>3. QED
      BY <1>0, <2>1, <2>2 DEF NoForgottenChannel, Claims
  <1>9. CASE EcCatchesUp
    <2>1. \A c \in Channels \ {late.ch} : Parked(c) => Parked(c)'
      BY <1>0, <1>9, LateFields
      DEF EcCatchesUp, EcDoes, Parked, EcAuto, Flat, Points, TypeOK, EcCurves
    <2>2. Held' \subseteq Held
      BY <1>0, <1>9, <2>1, LateFields DEF Held, EcCatchesUp, LateOf
    <2>3. QED
      BY <1>0, <1>9, <2>2 DEF NoForgottenChannel, EcCatchesUp, Claims, drv, hist
  <1>10. QED
    BY <1>0, <1>2, <1>3, <1>4, <1>5, <1>6, <1>7, <1>8, <1>9, NextCases

\* The inductive invariant is kept by every step.
LEMMA InvStep == IInv /\ [Next]_vars => IInv'
  BY TypeStep, PlacesStep, MarksStep, ProgressStep, PlanStep, NoMixedStep, NoForgottenStep
  DEF IInv

\* The inductive invariant holds always: the other theorems follow from it.
THEOREM Invariance == Spec => []IInv
  BY InitInv, InvStep, PTL DEF Spec

-----------------------------------------------------------------------------
(* The safety properties.                                                  *)

\* A channel under host control, or that the EC may yet put there, is marked
\* in the driver, in the module's mask, or its loss was reported.
THEOREM ChannelsNotForgotten == Spec => []NoForgottenChannel
  BY Invariance, PTL DEF IInv

\* The EC never runs a channel on a partly written curve.
THEOREM CurvesNotMixed == Spec => []NoMixedCurve
  BY Invariance, PTL DEF IInv

\* No sysfs write gets through after the restore or the shutdown hook, and no
\* command and no callback outlives the port regions.
THEOREM DeadIsDead == Spec => []NoAccessWhenDead
  <1>1. IInv => NoAccessWhenDead
    BY DEF IInv, Places, NoAccessWhenDead, DriverOps
  <1>2. QED
    BY <1>1, Invariance, PTL

\* What an earlier binding could not restore is tried again by this one.
THEOREM RestoreIsRetried == Spec => []UnrestoredIsRetried
  <1>1. IInv => UnrestoredIsRetried
    BY DEF IInv, Marks, UnrestoredIsRetried
  <1>2. QED
    BY <1>1, Invariance, PTL

\* A duty below full speed is only put in force for a pwmN write.
THEOREM LoweringIsRequested == Spec => LowerOnlyOnRequest
  <1>1. ASSUME IInv, [Next]_vars, NEW c \in Channels,
               out'[c] # out[c], out'[c] # EcAuto(c), out'[c] # Flat(c, FullDuty)
        PROVE  (CmdOf(c) /\ cmd.op = "pwm") \/ LateOf(c)
    <2>1. TypeOK /\ Places /\ Progress /\ Plan
      BY <1>1 DEF IInv
    <2>2. CASE CommandDone
      <3>1. /\ cmd # NoCmd /\ EcDoes(cmd.ch, cmd.step, cmd.duty)
            /\ cmd.ch \in Channels /\ cmd.step \in Steps(cmd.ch) /\ cmd.duty \in Duty
        BY <2>1, <2>2, CmdFields DEF CommandDone
      <3>2. \/ cmd.step = AutoStep /\ out' = [out EXCEPT ![cmd.ch] = EcAuto(cmd.ch)]
            \/ cmd.step # AutoStep /\ out' = [out EXCEPT ![cmd.ch] = Flat(cmd.ch, cmd.duty)]
            \/ out' = out
        BY <2>1, <3>1, EcDoesOut, StagedCurve DEF AutoStep, ApplyStep
      <3>3. c = cmd.ch /\ cmd.step # AutoStep /\ out'[c] = Flat(c, cmd.duty)
        BY <1>1, <2>1, <3>1, <3>2 DEF TypeOK, EcCurves
      <3>4. cmd.op = "pwm"
        BY <1>1, <2>1, <3>1, <3>3, CmdFields DEF Plan, SysfsOps, DriverOps
      <3>5. QED
        BY <3>1, <3>3, <3>4 DEF CmdOf
    <2>3. CASE EcCatchesUp
      BY <1>1, <2>1, <2>3, LateFields DEF EcCatchesUp, EcDoes, LateOf, TypeOK, EcCurves
    <2>4. CASE StepDone
      BY <1>1, <2>1, <2>4, CmdFields, EcDoesOut DEF StepDone, LastStep
    <2>5. QED
      BY <1>1, <2>1, <2>2, <2>3, <2>4, NextCases
      DEF Quiet, Begins, PowerOff, StepTimesOut
  <1>2. IInv /\ [Next]_vars =>
          [\A c \in Channels :
             out'[c] # out[c] /\ out'[c] # EcAuto(c) /\ out'[c] # Flat(c, FullDuty)
               => (CmdOf(c) /\ cmd.op = "pwm") \/ LateOf(c)]_vars
    BY <1>1
  <1>3. QED
    BY <1>2, Invariance, PTL DEF Spec, LowerOnlyOnRequest

-----------------------------------------------------------------------------
(* The cache.                                                              *)

\* The channels the cache may be wrong about while a binding is in use.
Doubtful == failed \cup unknown \cup lost
InUse    == phase \in {"bound", "removing"} /\ ~dead

\* CacheTruth, and that a late step belongs to a doubtful channel.
CacheInv ==
  /\ InUse /\ late # NoLate => late.ch \in Doubtful
  /\ CacheTruth

Truthful(c) ==
  \/ enable[c] = 0 /\ pwm[c] = FullDuty /\ out[c] = Flat(c, FullDuty)
  \/ enable[c] = 1 /\ out[c] = Flat(c, pwm[c])
  \/ enable[c] = 2 /\ Parked(c)

\* Nothing about channel c changes that its cache entry is about.
Same(c) == out'[c] = out[c] /\ pwm'[c] = pwm[c] /\ enable'[c] = enable[c]

\* A channel none of whose data changes keeps a true cache.
LEMMA SameIsTruthful ==
  ASSUME NEW c \in Channels, Same(c), Truthful(c)
  PROVE  Truthful(c)'
  BY DEF Same, Truthful, Parked, EcAuto, Flat, Points

\* CacheTruth, split into its precondition and one formula per channel.
LEMMA CacheSplit ==
  CacheTruth <=> (InUse => \A c \in Channels \ Doubtful : CmdOf(c) \/ Truthful(c))
  BY DEF CacheTruth, InUse, Doubtful, Truthful

\* A command that ended well leaves a cache entry that is true.
LEMMA DoneIsTruthful ==
  ASSUME IInv, CommandDone, cmd.op \in SysfsOps, NEW c, c = cmd.ch
  PROVE  Truthful(c)'
  <1>1. /\ TypeOK /\ Progress /\ Plan /\ cmd # NoCmd /\ LastStep(cmd)
        /\ EcDoes(c, cmd.step, cmd.duty) /\ CacheAfter(cmd.op, c, cmd.duty)
    BY DEF IInv, CommandDone
  <1>2. c \in Channels /\ cmd.step \in Steps(c) /\ cmd.duty \in Duty
    BY <1>1, CmdFields
  <1>3. CASE cmd.op = "auto"
    <2>1. enable'[c] = 2
      BY <1>1, <1>2, <1>3 DEF CacheAfter, TypeOK
    <2>2. QED
      BY <1>3, <2>1, HandbackParks DEF Truthful
  <1>4. CASE cmd.op # "auto"
    <2>1. cmd.step = ApplyStep(c)
      BY <1>1, <1>4 DEF Plan, LastStep, SysfsOps
    <2>2. out' = [out EXCEPT ![c] = Flat(c, cmd.duty)]
      BY <1>1, <1>2, <2>1, EcDoesOut, StagedCurve
    <2>3. out'[c] = Flat(c, cmd.duty) /\ pwm'[c] = cmd.duty
          /\ enable'[c] = IF cmd.op = "full" THEN 0 ELSE 1
      BY <1>1, <1>2, <1>4, <2>2 DEF CacheAfter, TypeOK, EcCurves, Plan, SysfsOps
    <2>4. cmd.op = "full" => cmd.duty = FullDuty
      BY <1>1 DEF Plan
    <2>5. QED
      BY <2>3, <2>4 DEF Truthful, Flat, Points
  <1>5. QED
    BY <1>3, <1>4

\* n5_write updates the cache only after the EC has taken the last step.
LEMMA CacheStep == IInv /\ CacheInv /\ [Next]_vars => CacheInv'
  <1> SUFFICES ASSUME IInv, CacheInv, [Next]_vars, InUse'
               PROVE  /\ late' # NoLate => late'.ch \in Doubtful'
                      /\ \A c \in Channels \ Doubtful' : CmdOf(c)' \/ Truthful(c)'
    BY DEF CacheInv, CacheTruth, InUse, Doubtful, Truthful
  <1>0. TypeOK /\ Places /\ Marks /\ NoForgottenChannel
    BY DEF IInv
  \* A binding that has just begun: every channel not doubtful is parked.
  <1>1. CASE Probe
    <2>1. /\ out' = out /\ late' = late /\ enable' = [c \in Channels |-> 2]
          /\ unrestored \subseteq unknown' /\ lost' = lost /\ touched = {}
      BY <1>0, <1>1 DEF Probe, FreshData, Places, Marks, ec, hist
    <2>2. Held \subseteq Doubtful'
      BY <1>0, <2>1 DEF NoForgottenChannel, Claims, Doubtful
    <2>3. \A c \in Channels \ Doubtful' : Truthful(c)'
      BY <2>1, <2>2 DEF Held, Parked, Truthful, EcAuto, Flat, Points
    <2>4. QED
      BY <1>0, <2>1, <2>2, <2>3, LateFields DEF Held, LateOf
  \* Any other step finds the binding in use.
  <1>2. CASE InUse /\ UNCHANGED <<out, late, pwm, enable, cmd>>
             /\ Doubtful \subseteq Doubtful'
    <2>1. \A c \in Channels \ Doubtful' : CmdOf(c) \/ Truthful(c)
      BY <1>2, CacheSplit DEF CacheInv
    <2>2. \A c \in Channels : Same(c) /\ (CmdOf(c) => CmdOf(c)')
      BY <1>2 DEF Same, CmdOf
    <2>3. QED
      BY <1>2, <2>1, <2>2, SameIsTruthful DEF CacheInv
  <1>3. CASE \/ Unbind \/ ShutdownBegin \/ UNCHANGED vars
             \/ \E t \in Threads : EnterCallback(t) \/ ReturnUnchanged(t)
    BY <1>2, <1>3
    DEF Unbind, ShutdownBegin, EnterCallback, ReturnUnchanged, InUse, Doubtful, vars,
        drv, ec, hist
  <1>4. ASSUME NEW t \in Threads, NEW c \in Channels, WriteEnable1Again(t, c)
        PROVE  /\ late' # NoLate => late'.ch \in Doubtful'
               /\ \A x \in Channels \ Doubtful' : CmdOf(x)' \/ Truthful(x)'
    <2>1. InUse
      BY <1>0, <1>4 DEF WriteEnable1Again, MayWrite, Places, InUse
    <2>2. c \notin unknown
      BY <1>0, <1>4, <2>1 DEF WriteEnable1Again, Marks, InUse
    <2>3. QED
      BY <1>2, <1>4, <2>1, <2>2 DEF WriteEnable1Again, Doubtful, ec, hist
  <1>5. ASSUME NEW t \in Threads, NEW c \in Channels,
               \/ \E d \in Duty : WritePwm(t, c, d)
               \/ WriteEnable0(t, c) \/ WriteEnable1(t, c) \/ WriteEnable2(t, c)
        PROVE  /\ late' # NoLate => late'.ch \in Doubtful'
               /\ \A x \in Channels \ Doubtful' : CmdOf(x)' \/ Truthful(x)'
    <2>1. InUse /\ cmd = NoCmd
      BY <1>0, <1>5
      DEF WritePwm, WriteEnable0, WriteEnable1, WriteEnable2, MayWrite, LockFree, Places,
          InUse
    <2>2. UNCHANGED <<out, late, pwm, enable, failed, unknown, lost>>
      BY <1>5 DEF WritePwm, WriteEnable0, WriteEnable1, WriteEnable2, Start, ec, hist
    <2>3. \A x \in Channels \ Doubtful' : Truthful(x) /\ Same(x)
      BY <2>1, <2>2, CacheSplit DEF CacheInv, Doubtful, CmdOf, Same
    <2>4. QED
      BY <2>1, <2>2, <2>3, SameIsTruthful DEF CacheInv, Doubtful
  <1>6. CASE StepDone
    <2>1. /\ cmd'.ch = cmd.ch /\ cmd' # NoCmd /\ InUse /\ out' = out
      BY <1>0, <1>6, CmdFields, EcDoesOut
      DEF StepDone, LastStep, Commands, NoCmd, InUse, SysfsOps, DriverOps
    <2>2. Doubtful' = Doubtful /\ UNCHANGED <<late, pwm, enable>> /\ late = NoLate
      BY <1>6 DEF StepDone, Doubtful, drv, hist
    <2>3. \A x \in Channels : Same(x) /\ (CmdOf(x) => CmdOf(x)')
      BY <2>1, <2>2 DEF Same, CmdOf
    <2>4. \A x \in Channels \ Doubtful' : CmdOf(x) \/ Truthful(x)
      BY <2>1, <2>2, CacheSplit DEF CacheInv
    <2>5. QED
      BY <2>2, <2>3, <2>4, SameIsTruthful
  <1>7. CASE CommandDone
    <2>1. InUse /\ cmd.op \in SysfsOps /\ cmd.ch \in Channels /\ late' = NoLate
      BY <1>0, <1>7, CmdFields DEF CommandDone, EndCommand, InUse, Places
    <2>2. \A x \in Channels \ {cmd.ch} : Same(x)
      BY <1>0, <1>7, <2>1 DEF CommandDone, EcDoes, CacheAfter, Same, TypeOK, EcCurves
    <2>3. \A x \in Channels \ {cmd.ch} : x \notin Doubtful' => Truthful(x)
      <3>1. Doubtful \ {cmd.ch} \subseteq Doubtful'
        BY <1>7 DEF CommandDone, CacheAfter, Doubtful
      <3>2. QED
        BY <2>1, <3>1, CacheSplit DEF CacheInv, CmdOf
    <2>4. QED
      BY <1>7, <2>1, <2>2, <2>3, SameIsTruthful, DoneIsTruthful
  <1>8. CASE StepTimesOut
    <2>1. InUse /\ cmd.ch \in Channels
      BY <1>0, <1>8, CmdFields DEF StepTimesOut, EndCommand, InUse, Places
    <2>2. Doubtful' = Doubtful \cup {cmd.ch} /\ UNCHANGED <<out, pwm, enable>>
      BY <1>0, <1>8, <2>1
      DEF StepTimesOut, CacheAfterError, Doubtful, Places, InUse, SysfsOps
    <2>3. \A x \in Channels \ Doubtful' : Truthful(x) /\ Same(x)
      BY <2>1, <2>2, CacheSplit DEF CacheInv, CmdOf, Same
    <2>4. late' # NoLate => late'.ch \in Doubtful'
      BY <1>8, <2>1, <2>2 DEF StepTimesOut, CacheInv
    <2>5. QED
      BY <2>3, <2>4, SameIsTruthful
  <1>9. CASE EcCatchesUp
    <2>1. InUse /\ late.ch \in Doubtful /\ late' = NoLate /\ Doubtful' = Doubtful
          /\ UNCHANGED <<pwm, enable, cmd>>
      BY <1>9 DEF EcCatchesUp, InUse, CacheInv, Doubtful, drv, hist
    <2>2. \A x \in Channels \ Doubtful' : Same(x)
      BY <1>0, <1>9, <2>1, LateFields DEF EcCatchesUp, EcDoes, Same, TypeOK, EcCurves
    <2>3. \A x \in Channels \ Doubtful' : CmdOf(x)' \/ Truthful(x)
      BY <2>1, CacheSplit DEF CacheInv, CmdOf
    <2>4. QED
      BY <2>1, <2>2, <2>3, SameIsTruthful
  \* The steps that no binding in use survives, or that none begins with.
  <1>10. CASE \/ LoadModule \/ UnloadModule \/ HwmonGone \/ RestoreBegin \/ ReleasePorts
              \/ \E c \in Channels : RestoreChannel(c) \/ ShutdownChannel(c)
              \/ \E warm \in BOOLEAN : PowerOff(warm)
    BY <1>10
    DEF LoadModule, UnloadModule, HwmonGone, RestoreBegin, ReleasePorts, RestoreChannel,
        ShutdownChannel, PowerOff, InUse
  <1>11. QED
    BY <1>1, <1>3, <1>4, <1>5, <1>6, <1>7, <1>8, <1>9, <1>10
    DEF Next, Sysfs, Transaction

\* As long as no EC write of a channel failed, and its mode is not marked
\* unknown, pwmN and pwmN_enable read what the EC does.
THEOREM CacheIsTrue == Spec => []CacheTruth
  <1>1. Init => CacheInv
    BY DEF Init, CacheInv, CacheTruth, InUse
  <1>2. CacheInv => CacheTruth
    BY DEF CacheInv
  <1>3. QED
    BY <1>1, <1>2, CacheStep, Invariance, PTL DEF Spec

-----------------------------------------------------------------------------
(* The driver implements N5Ownership.                                      *)

\* The notes as a whole stay as they are when they change their place.
LEMMA ClaimsMove ==
  ASSUME TypeOK, Places, Marks,
         LoadModule \/ UnloadModule \/ Probe \/ ReleasePorts
  PROVE  Claims' = Claims
  BY DEF Places, Marks, LoadModule, UnloadModule, Probe, ReleasePorts, LockFree,
         Claims, hist

\* A hand-back that succeeds releases the channel.
LEMMA HandbackReleases ==
  ASSUME IInv, CommandDone, cmd.op \in {"auto", "restore", "shutdown"},
         NEW c, c = cmd.ch
  PROVE  Own!Release(c)
  <1>1. TypeOK /\ Marks /\ c \in Channels
    BY CmdFields DEF IInv, CommandDone
  <1>2. \A x \in Channels \ {c} : Parked(x)' <=> Parked(x)
    BY <1>1 DEF CommandDone, EcDoes, Parked, EcAuto, Flat, Points, TypeOK, EcCurves
  <1>3. Held' = Held \ {c}
    BY <1>1, <1>2, HandbackParks DEF Held, CommandDone, LateOf
  <1>4. Claims' \in {Claims, Claims \ {c}}
    <2>1. CASE c \in touched'
      BY <1>1, <2>1 DEF CommandDone, CacheAfter, Claims
    <2>2. CASE c \notin touched'
      BY <1>1, <2>2 DEF CommandDone, CacheAfter, Claims
    <2>3. QED
      BY <2>1, <2>2
  <1>5. QED
    BY <1>3, <1>4 DEF Own!Release

\* Every step of the driver is one of N5Ownership, or changes nothing there.
LEMMA OwnershipStep ==
  ASSUME IInv, IInv', [Next]_vars
  PROVE  [Own!Next]_<<Held, Claims>>
  <1>0. TypeOK /\ Places /\ Marks /\ NoForgottenChannel /\ NoForgottenChannel'
    BY DEF IInv
  <1>1. ASSUME out' = out, late' = late
        PROVE  Held' = Held
    BY <1>1 DEF Held, Parked, LateOf, EcAuto, Flat, Points
  <1>2. CASE Quiet /\ UNCHANGED <<touched, unrestored, lost>>
    BY <1>1, <1>2 DEF Quiet, Claims
  <1>3. CASE Quiet /\ (LoadModule \/ UnloadModule \/ Probe \/ ReleasePorts)
    BY <1>0, <1>1, <1>3, ClaimsMove DEF Quiet
  <1>4. CASE Begins
    <2>1. PICK c \in Channels : touched' \in {touched, touched \cup {c}}
      BY <1>4 DEF Begins
    <2>2. Claims' = Claims \/ Own!Claim(c)
      BY <1>1, <1>4, <2>1 DEF Begins, Claims, Own!Claim
    <2>3. QED
      BY <1>1, <1>4, <2>2 DEF Begins, Own!Next
  <1>5. ASSUME NEW warm \in BOOLEAN, PowerOff(warm)
        PROVE  [Own!Next]_<<Held, Claims>>
    <2>1. Held' \subseteq Held
      BY <1>5, <1>0
      DEF PowerOff, Held, Parked, LateOf, EcAuto, Flat, Points, TypeOK, EcCurves
    <2>2. Claims' \subseteq Claims
      BY <1>5 DEF PowerOff, Claims
    <2>3. QED
      BY <1>0, <2>1, <2>2 DEF NoForgottenChannel, Own!PowerCycle, Own!Next
  <1>6. CASE StepDone
    BY <1>0, <1>1, <1>6, CmdFields, EcDoesOut DEF StepDone, LastStep, drv, hist, Claims
  <1>7. CASE CommandDone
    <2>1. cmd.ch \in Channels
      BY <1>0, <1>7, CmdFields DEF CommandDone
    <2>2. CASE cmd.op \in {"auto", "restore", "shutdown"}
      BY <1>7, <2>1, <2>2, HandbackReleases DEF Own!Next
    <2>3. CASE cmd.op \in {"pwm", "full", "manual"}
      <3>1. \A x \in Channels \ {cmd.ch} : Parked(x)' <=> Parked(x)
        BY <1>0, <1>7, <2>1
        DEF CommandDone, EcDoes, Parked, EcAuto, Flat, Points, TypeOK, EcCurves
      <3>2. Held' \in {Held \cup {cmd.ch}, Held \ {cmd.ch}}
        BY <1>7, <2>1, <3>1 DEF Held, CommandDone, LateOf
      <3>3. Claims' = Claims /\ cmd.ch \in Claims
        BY <1>0, <1>7, <2>3 DEF CommandDone, CacheAfter, Claims, Marks
      <3>4. Own!Seize(cmd.ch) \/ Own!Release(cmd.ch)
        BY <3>2, <3>3 DEF Own!Seize, Own!Release
      <3>5. QED
        BY <2>1, <3>4 DEF Own!Next
    <2>4. QED
      BY <1>0, <1>7, <2>2, <2>3, CmdFields DEF CommandDone, SysfsOps, DriverOps
  <1>8. CASE StepTimesOut
    <2>1. cmd.ch \in Channels /\ cmd.ch \in touched
      BY <1>0, <1>8, CmdFields DEF StepTimesOut, Marks
    <2>2. Held' \in {Held, Held \cup {cmd.ch}}
      BY <1>8, <2>1 DEF StepTimesOut, Held, Parked, LateOf, EcAuto, Flat, Points
    <2>3. Claims' = Claims /\ cmd.ch \in Claims
      BY <1>8, <2>1 DEF StepTimesOut, CacheAfterError, Claims
    <2>4. QED
      BY <2>1, <2>2, <2>3 DEF Own!Seize, Own!Next
  <1>9. CASE EcCatchesUp
    <2>1. late.ch \in Channels /\ late.ch \in Claims /\ Claims' = Claims
      BY <1>0, <1>9, LateFields
      DEF EcCatchesUp, NoForgottenChannel, Held, LateOf, Claims, drv, hist
    <2>2. \A x \in Channels \ {late.ch} : Parked(x)' <=> Parked(x)
      BY <1>0, <1>9, <2>1
      DEF EcCatchesUp, EcDoes, Parked, EcAuto, Flat, Points, TypeOK, EcCurves
    <2>3. Held' \in {Held \cup {late.ch}, Held \ {late.ch}}
      BY <1>9, <2>1, <2>2 DEF Held, EcCatchesUp, LateOf
    <2>4. Own!Seize(late.ch) \/ Own!Release(late.ch)
      BY <2>1, <2>3 DEF Own!Seize, Own!Release
    <2>5. QED
      BY <2>1, <2>4 DEF Own!Next
  <1>10. QED
    BY <1>0, <1>2, <1>3, <1>4, <1>5, <1>6, <1>7, <1>8, <1>9, NextCases

\* Every step of the driver is one of N5Ownership, or changes neither who has a
\* channel nor what is noted about it.
THEOREM ImplementsOwnership == Spec => OwnershipKept
  <1>1. Init => Own!Init
    BY DEF Init, Own!Init, Held, Claims, Parked, LateOf
  <1>2. QED
    BY <1>1, OwnershipStep, Invariance, PTL DEF Spec, OwnershipKept, Own!Spec
=============================================================================
