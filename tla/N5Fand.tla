------------------------------- MODULE N5Fand -------------------------------
(***************************************************************************)
(* The legacy regulator n5-fand: a Bash loop that reads temperatures and   *)
(* tachometers, computes a duty per channel and writes it; its systemd     *)
(* unit, the stop handler, the ExecStopPost hook n5-fand-failsafe and the  *)
(* override files of n5fan.                                                *)
(*                                                                         *)
(* One cycle is Sense (everything up to the wanted duties), one ApplyNext  *)
(* per channel and EndApply; signals, foreign writers and module reloads   *)
(* come between any two of these steps. Temperatures and tachometers are   *)
(* read anew in every cycle and may have any of the given values.          *)
(***************************************************************************)
EXTENDS Integers, FiniteSets

CONSTANTS
  Channels,       \* regulated channels: 1 CPU, 2 SSD, 3 HDD
  Conf,           \* per channel: tmin, tmax, pmin, pmax, tcrit
  StepUp, StepDown, StallMinDuty, StallCycles, HddStopPwm,
  Refresh,        \* a duty is written again every Refresh cycles (6)
  Resolve,        \* hwmon paths are looked up every Resolve cycles (60)
  Temps, Rpms,    \* readings; a tachometer that cannot be read gives -1
  Overrides,      \* duties n5fan sets
  Disturbances    \* what may happen, a subset of AllDisturbances

FullDuty == 255
EcAuto == -1      \* a channel under the EC's own regulation
NoFan == 0        \* no hwmon directory of the driver
Hwmons == {1, 2}  \* names the hwmon directory may get
Emergency == {"KRITISCH", "STALL"}
AllDisturbances == {"sensor", "write", "foreign", "unload", "load", "term", "kill", "override"}

ASSUME FandAssumption ==
  /\ Channels \subseteq 1..3
  /\ \A c \in Channels :
       /\ Conf[c].pmin \in 0..FullDuty /\ Conf[c].pmax \in Conf[c].pmin..FullDuty
       /\ Conf[c].tmin \in Int /\ Conf[c].tmax \in Int /\ Conf[c].tcrit \in Int
       /\ Conf[c].tmin < Conf[c].tmax /\ Conf[c].tmax < Conf[c].tcrit
  /\ StepUp \in 1..FullDuty /\ StepDown \in 1..FullDuty
  /\ StallMinDuty \in 1..FullDuty /\ StallCycles \in 1..20 /\ HddStopPwm \in 80..FullDuty
  /\ Refresh \in Nat \ {0} /\ Resolve \in Nat \ {0} /\ Resolve % Refresh = 0
  /\ Temps \subseteq Int /\ Rpms \subseteq Int /\ Overrides \subseteq 0..FullDuty
  /\ Disturbances \subseteq AllDisturbances

VARIABLES
  here,      \* the driver's hwmon directory, NoFan while it is not loaded
  out,       \* what each channel runs on: a manual duty or EcAuto
  over,      \* override.N below /run/n5-fand: a duty, or -1 for no file
  unit,      \* "off", "start", "loop", "stop" (trap handler), "post" (failsafe)
  pc,        \* in the loop: "sense", "apply", "full" (failsafe_all), "sleep"
  todo,      \* channels the present loop over the channels has still to visit
  fan,       \* $FAN, the hwmon directory the daemon writes to
  n,         \* cycle count; counts on from 1 after Resolve
  cur,       \* CUR, the duty the daemon believes a channel has
  want,      \* N, the duty of this cycle
  mode,      \* MODE
  stalled, stallcnt, recov,
  wrerr,     \* WRERR, up to WrerrSeen
  werr,      \* a write of this cycle failed
  astray,    \* history: channels not as the last successful write left them
  tried,     \* history: channels written in this cycle
  late       \* history: cycle ends in a row with an emergency left unwritten

hw     == <<here, out>>
calc   == <<cur, want, mode, stalled, stallcnt, recov, wrerr, werr>>
hist   == <<astray, tried, late>>
vars   == <<hw, over, unit, pc, todo, fan, n, calc, hist>>

WrerrSeen == 2    \* the code only asks whether WRERR has reached 2

Next1(S) == CHOOSE c \in S : \A x \in S : c <= x
May(d) == d \in Disturbances

-----------------------------------------------------------------------------
(* Pure parts of a cycle.                                                  *)

curve(c, t) ==
  LET k == Conf[c] IN
  IF t <= k.tmin THEN k.pmin
  ELSE IF t >= k.tmax THEN k.pmax
  ELSE k.pmin + ((t - k.tmin) * (k.pmax - k.pmin)) \div (k.tmax - k.tmin)

\* Seeded faults: the way down is not limited; the way up passes the target.
slewDown(from, to) == IF to > from + StepUp THEN from + StepUp ELSE to

slewPast(from, to) ==
  IF to > from THEN from + StepUp
  ELSE IF to < from - StepDown THEN from - StepDown
  ELSE to

slew(from, to) ==
  IF to > from + StepUp THEN from + StepUp
  ELSE IF to < from - StepDown THEN from - StepDown
  ELSE to

IsCritical(c, t) == t >= Conf[c].tcrit

\* T and MODE before the stall logic: an override beats the curve, TCRIT both.
Target(c, t) ==
  IF IsCritical(c, t) THEN FullDuty
  ELSE IF over[c] # -1 THEN over[c] ELSE curve(c, t)

ModeOf(c, t) ==
  IF IsCritical(c, t) THEN "KRITISCH" ELSE IF over[c] # -1 THEN "manuell" ELSE "auto"

\* The value of CUR that the stall logic and the write step see.
CurAt(c, t) == IF IsCritical(c, t) THEN FullDuty ELSE cur[c]

Stands(c, t, r) == r = 0 /\ CurAt(c, t) >= StallMinDuty
StallBegins(c, t, r) ==
  ~stalled[c] /\ Stands(c, t, r) /\ stallcnt[c] + 1 >= StallCycles
Recovers(c, r) == stalled[c] /\ r > 0 /\ recov[c] + 1 >= 3
StallNow(c, t, r) == stalled[c] \/ StallBegins(c, t, r)

\* N: the first cycle and every mode but auto go straight to the target.
Wanted(c, t, r) ==
  LET m == IF StallNow(c, t, r) THEN "STALL" ELSE ModeOf(c, t)
      T == IF StallNow(c, t, r) THEN FullDuty ELSE Target(c, t)
      k == IF StallBegins(c, t, r) THEN FullDuty ELSE CurAt(c, t)
  IN IF n = 0 \/ m # "auto" THEN T ELSE slew(k, T)

-----------------------------------------------------------------------------
(* Writes to the driver.                                                   *)

Usable == fan = here /\ here # NoFan

\* A write that fails leaves the channel alone, in manual mode at 255 (only
\* the first of two writes worked), or at the new value all the same.
WriteOk(c, v)   == out' = [out EXCEPT ![c] = v] /\ astray' = astray \ {c}
WriteFails(c, v, usable) ==
  /\ astray' = astray \cup {c}
  /\ \/ ~usable /\ UNCHANGED out
     \/ /\ usable /\ May("write")
        /\ out' \in {out, [out EXCEPT ![c] = v]} \cup
                    (IF out[c] = EcAuto /\ v # EcAuto THEN {[out EXCEPT ![c] = FullDuty]} ELSE {})

\* modprobe by the unit or by ensure_module(): may fail, may give another name.
Modprobe ==
  \/ UNCHANGED here
  \/ here = NoFan /\ May("load") /\ here' \in Hwmons

-----------------------------------------------------------------------------
(* The unit.                                                               *)

Fresh ==
  /\ n' = 0 /\ fan' = NoFan /\ pc' = "sense" /\ todo' = {}
  /\ cur' = [c \in Channels |-> FullDuty] /\ want' = [c \in Channels |-> FullDuty]
  /\ mode' = [c \in Channels |-> "auto"]
  /\ stalled' = [c \in Channels |-> FALSE] /\ stallcnt' = [c \in Channels |-> 0]
  /\ recov' = [c \in Channels |-> 0] /\ wrerr' = 0 /\ werr' = FALSE
  /\ tried' = {} /\ late' = [c \in Channels |-> 0]

\* ExecStartPre=modprobe; without a module the start fails.
StartUnit ==
  /\ unit = "off"
  /\ Modprobe /\ here' # NoFan
  /\ unit' = "start"
  /\ Fresh
  /\ UNCHANGED <<out, over, astray>>

\* until ensure_module && resolve
StartLoop ==
  /\ unit = "start"
  /\ Modprobe
  /\ fan' = here'
  /\ unit' \in {"start"} \cup (IF fan' = NoFan THEN {} ELSE {"loop"})
  /\ unit' = "start" => here = NoFan \/ May("sensor")
  /\ UNCHANGED <<out, over, pc, todo, n, calc, hist>>

\* SIGTERM: the trap handler runs after the command in hand.
Term ==
  /\ May("term") /\ unit \in {"start", "loop"}
  /\ IF fan = NoFan THEN unit' = "post" ELSE unit' = "stop"
  /\ todo' = Channels
  /\ UNCHANGED <<hw, over, pc, fan, n, calc, hist>>

\* Seeded fault: the unit has no ExecStopPost.
KillNoHook ==
  /\ May("kill") /\ unit \in {"start", "loop", "stop"}
  /\ unit' = "off"
  /\ UNCHANGED <<hw, over, pc, todo, fan, n, calc, hist>>

\* SIGKILL, a crash, or the watchdog of a loop that hangs.
Kill ==
  /\ May("kill") /\ unit \in {"start", "loop", "stop"}
  /\ unit' = "post" /\ todo' = Channels
  /\ UNCHANGED <<hw, over, pc, fan, n, calc, hist>>

\* Where a stop leaves a channel: HDD keeps a fixed duty.
StopValue(c) == IF c = 3 THEN HddStopPwm ELSE EcAuto

\* shutdown_handler() and n5-fand-failsafe set the channels one by one; the
\* handler through $FAN, the hook through the directory it finds itself.
StopNext ==
  /\ unit \in {"stop", "post"} /\ todo # {}
  /\ LET c == Next1(todo)
         usable == IF unit = "stop" THEN Usable ELSE here # NoFan IN
       /\ todo' = todo \ {c}
       /\ (usable /\ WriteOk(c, StopValue(c))) \/ WriteFails(c, StopValue(c), usable)
  /\ UNCHANGED <<here, over, unit, pc, fan, n, calc, tried, late>>

StopEnds ==
  /\ unit \in {"stop", "post"} /\ todo = {}
  /\ IF unit = "stop" THEN unit' = "post" /\ todo' = Channels
                      ELSE unit' = "off" /\ UNCHANGED todo
  /\ UNCHANGED <<hw, over, pc, fan, n, calc, hist>>

-----------------------------------------------------------------------------
(* One cycle.                                                              *)

\* Seeded fault: the paths are looked up at the start only.
PeriodicResolveNever == fan

\* Every 60 cycles resolve() looks the directories up again.
PeriodicResolve == IF n = Resolve THEN here ELSE fan

\* A sensor is unreadable, implausible or has not changed for a long time.
SensorFault ==
  /\ unit = "loop" /\ pc = "sense" /\ May("sensor")
  /\ Modprobe /\ fan' = here'
  /\ mode' = [c \in Channels |-> "SENSORFEHLER"]
  /\ pc' = "full" /\ todo' = Channels /\ tried' = {}
  /\ UNCHANGED <<out, over, unit, n, cur, want, stalled, stallcnt, recov, wrerr, werr,
                 astray, late>>

\* The tachometers are files of the driver.
Sense(t, r) ==
  /\ unit = "loop" /\ pc = "sense"
  /\ fan' = PeriodicResolve
  /\ (fan' = here /\ here # NoFan) \/ r = [c \in Channels |-> -1]
  /\ mode' = [c \in Channels |-> IF StallNow(c, t[c], r[c]) THEN "STALL" ELSE ModeOf(c, t[c])]
  /\ want' = [c \in Channels |-> Wanted(c, t[c], r[c])]
  /\ cur' = [c \in Channels |-> IF StallBegins(c, t[c], r[c]) THEN FullDuty ELSE CurAt(c, t[c])]
  /\ stalled' = [c \in Channels |-> StallNow(c, t[c], r[c]) /\ ~Recovers(c, r[c])]
  /\ stallcnt' = [c \in Channels |->
       IF stalled[c] THEN (IF Recovers(c, r[c]) THEN 0 ELSE stallcnt[c])
       ELSE IF Stands(c, t[c], r[c]) THEN stallcnt[c] + 1 ELSE 0]
  /\ recov' = [c \in Channels |->
       IF ~stalled[c] THEN recov[c]
       ELSE IF r[c] > 0 /\ ~Recovers(c, r[c]) THEN recov[c] + 1 ELSE 0]
  /\ werr' = FALSE
  /\ pc' = "apply" /\ todo' = Channels /\ tried' = {}
  /\ UNCHANGED <<hw, over, unit, n, wrerr, astray, late>>

\* Seeded fault: nothing is written while the value does not change.
DueOnChange(c) == want[c] # cur[c]

\* Unchanged duties are written again every 6 cycles.
Due(c) == want[c] # cur[c] \/ n % Refresh = 0

\* setpwm(): CUR follows a write that succeeded.
ApplyNext ==
  /\ unit = "loop" /\ pc = "apply" /\ todo # {}
  /\ LET c == Next1(todo) IN
       /\ todo' = todo \ {c}
       /\ \/ ~Due(c) /\ UNCHANGED <<out, cur, werr, astray, tried>>
          \/ /\ Due(c) /\ Usable /\ WriteOk(c, want[c])
             /\ cur' = [cur EXCEPT ![c] = want[c]]
             /\ tried' = tried \cup {c} /\ UNCHANGED werr
          \/ /\ Due(c) /\ WriteFails(c, want[c], Usable)
             /\ werr' = TRUE /\ tried' = tried \cup {c} /\ UNCHANGED cur
  /\ UNCHANGED <<here, over, unit, pc, fan, n, want, mode, stalled, stallcnt, recov,
                 wrerr, late>>

\* End of a cycle. The history counts emergencies that were not written.
EndCycle ==
  /\ pc' = "sleep"
  /\ n' = IF n = Resolve THEN 1 ELSE n + 1
  /\ late' = [c \in Channels |->
       IF mode[c] \in Emergency /\ out[c] # FullDuty /\ c \notin tried THEN late[c] + 1 ELSE 0]

\* The second cycle in a row with a failed write raises the alert and writes
\* 255; a cycle that had nothing to write counts as one without failure.
EndApply ==
  /\ unit = "loop" /\ pc = "apply" /\ todo = {}
  /\ IF ~werr THEN /\ wrerr' = 0
                   /\ EndCycle
                   /\ UNCHANGED <<here, fan, todo>>
     ELSE IF wrerr + 1 < 2 THEN /\ wrerr' = wrerr + 1
                                /\ EndCycle
                                /\ UNCHANGED <<here, fan, todo>>
     ELSE /\ wrerr' = WrerrSeen
          /\ Modprobe /\ fan' = here'
          /\ pc' = "full" /\ todo' = Channels
          /\ UNCHANGED <<n, late>>
  /\ UNCHANGED <<out, over, unit, cur, want, mode, stalled, stallcnt, recov, werr,
                 astray, tried>>

\* Seeded fault: a channel believed to be at 255 is left out.
FullNeededChanged(c) == cur[c] # FullDuty

\* failsafe_all() writes every channel.
FullNeeded(c) == c \in Channels

FullNext ==
  /\ unit = "loop" /\ pc = "full" /\ todo # {}
  /\ LET c == Next1(todo) IN
       /\ todo' = todo \ {c}
       /\ \/ ~FullNeeded(c) /\ UNCHANGED <<out, cur, astray, tried>>
          \/ /\ FullNeeded(c) /\ Usable /\ WriteOk(c, FullDuty)
             /\ cur' = [cur EXCEPT ![c] = FullDuty] /\ tried' = tried \cup {c}
          \/ /\ FullNeeded(c) /\ WriteFails(c, FullDuty, Usable)
             /\ tried' = tried \cup {c} /\ UNCHANGED cur
  /\ UNCHANGED <<here, over, unit, pc, fan, n, want, mode, stalled, stallcnt, recov,
                 wrerr, werr, late>>

FullEnds ==
  /\ unit = "loop" /\ pc = "full" /\ todo = {}
  /\ EndCycle
  /\ UNCHANGED <<hw, over, unit, todo, fan, calc, astray, tried>>

WakeUp ==
  /\ unit = "loop" /\ pc = "sleep"
  /\ pc' = "sense"
  /\ UNCHANGED <<hw, over, unit, todo, fan, n, calc, hist>>

-----------------------------------------------------------------------------
(* Others.                                                                 *)

\* Somebody writes the sysfs files.
ForeignWrite(c, v) ==
  /\ May("foreign") /\ here # NoFan
  /\ out' = [out EXCEPT ![c] = v] /\ astray' = astray \cup {c}
  /\ UNCHANGED <<here, over, unit, pc, todo, fan, n, calc, tried, late>>

\* The driver hands the channels back when its module is unloaded.
UnloadModule ==
  /\ May("unload") /\ here # NoFan
  /\ here' = NoFan
  /\ out' = [c \in Channels |-> EcAuto] /\ astray' = Channels
  /\ UNCHANGED <<over, unit, pc, todo, fan, n, calc, tried, late>>

LoadModule ==
  /\ May("load") /\ here = NoFan
  /\ here' \in Hwmons
  /\ UNCHANGED <<out, over, unit, pc, todo, fan, n, calc, hist>>

\* n5fan set refuses a low duty for the HDD channel; n5fan auto removes the file.
SetOverride(c, v) ==
  /\ May("override") /\ (v # -1 => c # 3 \/ v >= 60) /\ over[c] # v
  /\ over' = [over EXCEPT ![c] = v]
  /\ UNCHANGED <<hw, unit, pc, todo, fan, n, calc, hist>>

Init ==
  /\ here = 1 /\ out = [c \in Channels |-> EcAuto] /\ over = [c \in Channels |-> -1]
  /\ unit = "off" /\ pc = "sense" /\ todo = {} /\ fan = NoFan /\ n = 0
  /\ cur = [c \in Channels |-> FullDuty] /\ want = cur
  /\ mode = [c \in Channels |-> "auto"]
  /\ stalled = [c \in Channels |-> FALSE] /\ stallcnt = [c \in Channels |-> 0]
  /\ recov = stallcnt /\ wrerr = 0 /\ werr = FALSE
  /\ astray = Channels /\ tried = {} /\ late = stallcnt

Cycle ==
  \/ SensorFault
  \/ \E t \in [Channels -> Temps], r \in [Channels -> Rpms] : Sense(t, r)
  \/ ApplyNext \/ EndApply \/ FullNext \/ FullEnds \/ WakeUp

Next ==
  \/ StartUnit \/ StartLoop \/ Term \/ Kill \/ StopNext \/ StopEnds
  \/ Cycle
  \/ \E c \in Channels, v \in Overrides \cup {EcAuto} : ForeignWrite(c, v)
  \/ UnloadModule \/ LoadModule
  \/ \E c \in Channels, v \in Overrides \cup {-1} : SetOverride(c, v)

Spec == Init /\ [][Next]_vars

\* The daemon's own steps take bounded time: WatchdogSec kills a loop that hangs.
FairSpec == Spec /\ WF_vars(Cycle) /\ WF_vars(StopNext) /\ WF_vars(StopEnds)

-----------------------------------------------------------------------------
(* Properties.                                                             *)

Duties == 0..FullDuty
CycleOver == unit = "loop" /\ pc = "sleep"

\* Types; the stall counters stay within what the code compares them with, the
\* duty to be written in a register's range.
TypeOK ==
  /\ here \in Hwmons \cup {NoFan} /\ fan \in Hwmons \cup {NoFan}
  /\ out \in [Channels -> Duties \cup {EcAuto}] /\ over \in [Channels -> Duties \cup {-1}]
  /\ unit \in {"off", "start", "loop", "stop", "post"}
  /\ pc \in {"sense", "apply", "full", "sleep"} /\ todo \subseteq Channels
  /\ n \in 0..Resolve
  /\ cur \in [Channels -> Duties] /\ want \in [Channels -> Duties]
  /\ mode \in [Channels -> {"auto", "manuell", "SENSORFEHLER"} \cup Emergency]
  /\ stalled \in [Channels -> BOOLEAN]
  /\ stallcnt \in [Channels -> 0..StallCycles] /\ recov \in [Channels -> 0..2]
  /\ wrerr \in 0..WrerrSeen /\ werr \in BOOLEAN
  /\ astray \subseteq Channels /\ tried \subseteq Channels /\ late \in [Channels -> Nat]

\* BETRIEB.md: "ab hier: sofort 255". A cycle that found a channel critical or
\* its fan standing ends with the channel at 255, unless a write failed or
\* somebody else changed the channel.
EmergencyAtOnce ==
  CycleOver => \A c \in Channels :
    mode[c] \in Emergency => out[c] = FullDuty \/ c \in astray

\* What the loop does keep: the write comes with the next refresh.
EmergencySoon == \A c \in Channels : late[c] < Refresh

\* A cycle with a sensor fault leaves every channel at 255, whatever the daemon
\* believed before, unless the write failed or somebody changed it since.
SensorFaultIsFull ==
  CycleOver => \A c \in Channels :
    mode[c] = "SENSORFEHLER" => out[c] = FullDuty \/ c \in astray

\* A channel on its curve never falls by more than STEP_DOWN at a time, except
\* in the first cycle and after a disturbance.
LowersSlowly ==
  [][\A c \in Channels :
       unit = "loop" /\ n # 0 /\ mode[c] = "auto" /\ c \notin astray /\ c \notin astray'
         => out'[c] >= out[c] - StepDown]_vars

\* After any end of the daemon CPU and SSD are back with the EC and HDD at its
\* stop duty, unless a write failed or somebody changed the channel since.
StoppedSafe ==
  unit = "off" => \A c \in Channels : out[c] = StopValue(c) \/ c \in astray

\* The daemon finds the driver again after a reload, or notices that it is gone.
FindsDriver ==
  (unit = "loop" /\ fan # here) ~> (unit # "loop" \/ fan = here)
=============================================================================
