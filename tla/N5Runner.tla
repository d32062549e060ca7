------------------------------ MODULE N5Runner ------------------------------
(***************************************************************************)
(* One run of n5-ectest map (T1) or handback (T2/T3) as its worker does    *)
(* it: confirmation, gates, the gate window, the test, the restore and the *)
(* files of the bundle. A test is a plan of commands and holds; a hold is  *)
(* a series of samples, and every sample may end the run.                  *)
(*                                                                         *)
(* Time counts sample intervals. What a sample shows is the set of odd     *)
(* things in it; the values themselves are left out. The guardian around   *)
(* the worker and the values restored are in N5Guardian, what makes the    *)
(* guard of a sample answer is in N5Writers.                               *)
(***************************************************************************)
EXTENDS Integers, FiniteSets, Sequences, SequencesExt

CONSTANTS
  Tests,      \* subset of {"map", "handback"}
  Channels,   \* channels under test
  T1Steps,    \* duties of T1, in order
  Repeat,     \* repetitions of T2
  Hold, Pre, Observe, Window,  \* lengths of the holds, in samples
  Sensors,    \* sensors with an abort limit
  LostAfter,  \* samples without a value after which a sensor is lost (3)
  ChannelOf,  \* the channel that a sensor at its limit puts to 255
  MaxOdd      \* bound on the odd things of a behaviour

PCIeChannel == 4
PreGates == {"G1", "G2", "G7", "pwm"}
Blocking == PreGates \cup {"G3", "G4"}
Gates == Blocking \cup {"G6"}

\* Odd things in a sample: registers not readable; a limit reached; a tachometer
\* at 0; another writer; in the gate window an input that moved or a high load;
\* and the sensors that gave no value.
Ending   == {"hot", "tach", "writer"}
OddKinds == Ending \cup {"nodcr", "drift", "load"} \cup Sensors

ASSUME RunnerAssumption ==
  /\ Tests \subseteq {"map", "handback"} /\ Channels \subseteq 1..4
  /\ T1Steps \in Seq(100..255) /\ IsInjective(T1Steps)
  /\ {Repeat, Hold, Pre, Observe, Window, LostAfter} \subseteq Nat \ {0} /\ MaxOdd \in Nat
  /\ ChannelOf \in [Sensors -> 1..3]

VARIABLES
  test, ch, dcrOK,   \* the command, its channel, registers readable at the start
  confirmed,         \* the operator typed the confirmation
  pc,        \* "confirm", "gates", "test", "close", "meta", "verdict", "sums",
             \* "end"; "refused", "killed", "panic"
  plan,      \* what the present stage has still to do
  slot, t0,  \* hold: the sample due next, the time it counts from
  now,
  cancel,    \* a signal came
  abort,     \* why the run stopped early, "" for not
  hot,       \* channel of the sensor that reached its limit, 0 for none
  nan,       \* consecutive samples without a value, per limit sensor
  limits,    \* sensors that had a value in the gate window
  gates, touched,
  coll,      \* what the test collected, per phase
  subs,      \* sub-runs of T2 that were evaluated
  aKnown,    \* T2: the value A is determined
  results,   \* verdict of the test and the data it was made from
  tries,     \* passes over the channels to restore so far
  samples, events, meta, verdict, sums,   \* the files of the bundle
  guarded,   \* the guardian restored after the worker and said so in the bundle
  odd        \* odd things so far

request == <<test, ch, dcrOK, confirmed>>
hold    == <<slot, t0, now>>
watch   == <<cancel, abort, hot, nan, limits>>
data    == <<coll, subs, aKnown, results>>
final   == <<meta, verdict, sums, guarded>>
vars    == <<request, pc, plan, hold, watch, gates, touched, data, tries,
             samples, events, final, odd>>

Writing == test = "map" \/ ch # PCIeChannel
Costs(n) == odd + n <= MaxOdd /\ odd' = odd + n
Now(text) == [e |-> text, ts |-> now]
Plain(text) == <<text, 0, "">>      \* an event without parameters
CommandTexts == {"manual", "write", "auto", "FAILED"}
Wrote == CommandTexts \cap {events[i].e[1] : i \in DOMAIN events} # {}

\* Some numbers in order, and the elements of q that have them.
Ordered(P) == [k \in 1..Cardinality(P) |-> Max({i \in P : Cardinality({j \in P : j < i}) < k})]
Those(q, P) == [k \in 1..Cardinality(P) |-> q[Ordered(P)[k]]]

\* The streamed files of the bundle.
CreateBundle == samples' = <<>> /\ events' = <<>> /\ sums' = FALSE
Log(texts) == events' = events \o [i \in DOMAIN texts |-> Now(texts[i])]
Row(s) == samples' = Append(samples, s)

-----------------------------------------------------------------------------
(* Plans.                                                                  *)

Phase(name, rep, what) == <<name, rep, what>>
Boot == Phase("boot", 0, "")
Gate == Phase("gate", 0, "")
Rest == Phase("rest", 0, "")
A    == Phase("pre", 0, "")
WriteOf(d) == <<"write", 0, d>>      \* texts of events
AutoOf(rep, lab) == <<"T2 auto", rep, lab>>
T1Complete == Plain("T1 complete")
T2Complete == Plain("T2 complete")
SubRuns == [i \in 1..2 * Repeat |-> <<(i + 1) \div 2, IF i % 2 = 1 THEN "H" ELSE "M">>]

GatePlan ==
  IF ~Writing \/ ~dcrOK \/ gates["G7"] = "FAIL"
  THEN << <<"sample", Boot>>, <<"decide">> >>
  ELSE << <<"sample", Boot>>, <<"sample", Gate>>, <<"hold", Gate, Window>>, <<"decide">> >>

\* Parts of n steps each, one after the other.
InTurn(parts, n) == [k \in 1..n * Len(parts) |-> parts[1 + (k - 1) \div n][1 + ((k - 1) % n)]]

StepPlan(d) == << <<"write", WriteOf(d)>>, <<"hold", Phase("step", 0, d), Hold>> >>

T1Plan ==
  << <<"hold", Rest, Hold>>, <<"manual">> >>
  \o InTurn([i \in DOMAIN T1Steps |-> StepPlan(T1Steps[i])], 2)
  \o << <<"mark", T1Complete>> >>

SubPlan(s) ==
  << <<"manual">>, <<"write", WriteOf(s[2])>>, <<"hold", Phase("hold", s[1], s[2]), Hold>>,
     <<"auto">>, <<"mark", AutoOf(s[1], s[2])>>,
     <<"hold", Phase("log", s[1], s[2]), Observe>> >>

T2Plan ==
  << <<"auto">>, <<"hold", A, Pre>>, <<"value A">> >>
  \o InTurn([i \in DOMAIN SubRuns |-> SubPlan(SubRuns[i])], 6)
  \o << <<"mark", T2Complete>> >>

Does(op) == pc \in {"gates", "test"} /\ plan # <<>> /\ Head(plan)[1] = op
Got(ph) == IF ph \in DOMAIN coll THEN coll[ph] ELSE <<>>
Readable(s) == "nodcr" \notin s.odd

\* stop(): the first reason wins; the gates are still recorded, a test is over.
Stopped(why) ==
  /\ abort' = IF abort = "" THEN why ELSE abort
  /\ plan' = IF pc = "gates" THEN << <<"decide">> >> ELSE <<>>

\* The next step of the plan counts its samples from here.
NextStep(t) == plan' = Tail(plan) /\ slot' = 1 /\ t0' = t

-----------------------------------------------------------------------------
(* Before the first sample.                                                *)

\* Nothing is created before the confirmation; a bundle that cannot be created
\* ends the command.
Confirm(bad, d, typed) ==
  /\ pc = "confirm"
  /\ Costs(Cardinality(bad) + (IF d THEN 0 ELSE 1))
  /\ dcrOK' = d /\ confirmed' = (typed /\ Writing)
  /\ gates' = [g \in Gates |-> IF g \in bad THEN "FAIL" ELSE IF g \in PreGates THEN "PASS" ELSE "SKIPPED"]
  /\ \/ (~Writing \/ typed) /\ pc' = "gates" /\ meta' = "provisional"
     \/ pc' = "refused" /\ UNCHANGED meta
  /\ CreateBundle
  /\ UNCHANGED <<test, ch, plan, hold, watch, touched, data, tries, verdict,
                 guarded>>

StartGates ==
  /\ pc = "gates" /\ plan = <<>>
  /\ plan' = GatePlan
  /\ UNCHANGED <<request, pc, hold, watch, gates, touched, data, tries, samples, events,
                 final, odd>>

-----------------------------------------------------------------------------
(* Samples.                                                                *)

\* What the sample checks find, in their order. A guard that answers ends the
\* checks before the sensors are counted.
LostNow(c) == \E s \in limits : c[s] >= LostAfter
Finding(O, c) ==
  CASE "writer" \in O -> "writer"
    [] "writer" \notin O /\ LostNow(c) -> "lost"
    [] "writer" \notin O /\ ~LostNow(c) /\ "hot" \in O -> "hot"
    [] "writer" \notin O /\ ~LostNow(c) /\ "hot" \notin O /\ "tach" \in O -> "tach"
    [] OTHER -> ""

\* Seeded fault: a value that is missing again and again ends nothing.
CountedNot(O) == nan

\* Seeded fault: a value does not end the count.
CountedSum(O) == [s \in Sensors |-> IF s \in limits /\ s \in O THEN nan[s] + 1 ELSE nan[s]]

Counted(O) ==
  [s \in Sensors |-> IF s \notin limits THEN nan[s] ELSE IF s \in O THEN nan[s] + 1 ELSE 0]

CountsAfter(O) == IF "writer" \in O THEN nan ELSE Counted(O)

Possible(O, ph) ==
  /\ ph # Gate => O \cap {"drift", "load"} = {}
  /\ "hot" \in O => ~(Sensors \subseteq O)     \* some sensor read the limit
  /\ ~dcrOK => "nodcr" \notin O                \* not even tried

\* A temperature limit names the channel of its sensor, one that gave a value.
Ends(why, O) ==
  /\ Stopped(why) /\ Log(<<Plain("ABORT")>>)
  /\ IF why = "hot" THEN hot' \in {ChannelOf[s] : s \in Sensors \ O} ELSE UNCHANGED hot

\* sampleAt(): the sample is stored, then the caller collects it, then the
\* limits end the run.
Sampled(ph, t, O) ==
  /\ Possible(O, ph)
  /\ Row([ph |-> ph, ts |-> t, odd |-> O])
  /\ now' = t
  /\ nan' = CountsAfter(O)
  /\ coll' = [p \in DOMAIN coll \cup {ph} |->
                IF p = ph THEN Append(Got(ph), [t |-> t - t0, odd |-> O]) ELSE coll[p]]
  /\ UNCHANGED <<request, pc, cancel, limits, gates, touched, aKnown, results, tries, final>>

\* Seeded fault: an aborted log of a sub-run is not evaluated.
EvaluatedOnEnd(ph, ended, ok) == ph[1] = "log" /\ ended /\ ok

\* The log of a sub-run is evaluated when it ended and when it was cut off.
Evaluated(ph, ended, ok) == ph[1] = "log" /\ ended

Judge(ph, ended, ok) ==
  subs' = IF Evaluated(ph, ended, ok) THEN Append(subs, <<ph[2], ph[3]>>) ELSE subs

\* The first sample of a run and of the gate window has no due time.
TakeSample(O) ==
  /\ Does("sample")
  /\ LET ph == Head(plan)[2]
         why == Finding(O, CountsAfter(O)) IN
       /\ Sampled(ph, now, O) /\ Costs(Cardinality(O))
       /\ IF why # "" THEN Ends(why, O) /\ UNCHANGED <<slot, t0>>
                      ELSE NextStep(now) /\ UNCHANGED <<abort, hot, events>>
  /\ UNCHANGED subs

\* Seeded fault: the last sample is skipped like any other.
SlotAfterNoLast(k, n, slow) == k + 1 + slow

\* A sample that overran skips the samples it missed, never the last one.
SlotAfter(k, n, slow) == IF k < n /\ k + 1 + slow > n THEN n ELSE k + 1 + slow

\* holdFrom(): sample number slot is due at t0 + slot; slow more are missed.
HoldSample(O, slow) ==
  /\ Does("hold") /\ ~cancel
  /\ LET ph == Head(plan)[2]
         n == Head(plan)[3]
         next == SlotAfter(slot, n, slow)
         why == Finding(O, CountsAfter(O)) IN
       /\ Sampled(ph, t0 + slot, O) /\ Costs(Cardinality(O) + slow)
       /\ slow > 0 => slot < n
       /\ IF why # "" THEN Ends(why, O) /\ UNCHANGED <<slot, t0>>
          ELSE /\ UNCHANGED <<abort, hot, events>>
               /\ IF next > n THEN NextStep(t0 + slot) ELSE slot' = next /\ UNCHANGED <<plan, t0>>
       /\ Judge(ph, why # "" \/ next > n, why = "")

\* Ctrl-C is noticed when the hold would sleep.
HoldCancelled ==
  /\ Does("hold") /\ cancel
  /\ Stopped("cancelled") /\ Log(<<Plain("ABORT")>>)
  /\ Judge(Head(plan)[2], TRUE, FALSE)
  /\ UNCHANGED <<request, pc, hold, cancel, hot, nan, limits, gates, touched, coll, aKnown,
                 results, tries, samples, final, odd>>

-----------------------------------------------------------------------------
(* Gates.                                                                  *)

Rows(ph) == Those(samples, {i \in DOMAIN samples : samples[i].ph = ph})
G3(first) == IF "load" \in first.odd THEN "FAIL" ELSE "PASS"

HadValue(rows) == {s \in Sensors : \E i \in DOMAIN rows : s \notin rows[i].odd}

\* EvalG4(): inputs steady, every limit sensor has a value in the window, and the
\* disks, which are also an input, have one at both its ends.
EvalG4(rows) ==
  IF /\ \A i \in DOMAIN rows : "drift" \notin rows[i].odd
     /\ HadValue(rows) = Sensors
     /\ "hdd" \notin rows[1].odd /\ "hdd" \notin rows[Len(rows)].odd
  THEN "PASS" ELSE "FAIL"

\* FAIL? stands for a FAIL because the window was not sampled or not completed.
WindowGates ==
  LET rows == Rows(Gate) IN
  [gates EXCEPT
    !["G3"] = IF rows = <<>> THEN "FAIL?" ELSE G3(rows[1]),
    !["G4"] = IF abort # "" THEN "FAIL?" ELSE EvalG4(rows)]

Inconclusive == [v |-> <<"inconclusive">>, runs |-> <<>>]
NotApplicable == [v |-> <<"n/a">>, runs |-> <<>>]

Windowed == Writing /\ dcrOK /\ gates["G7"] # "FAIL"
Blocked(g) == \E x \in Blocking : g[x] \in {"FAIL", "FAIL?"}

\* gateG6(): the registers and the tables of the EC recorded before the first
\* write. It blocks nothing.
GateG6 == IF dcrOK THEN {"PASS", "PARTIAL", "FAIL"} ELSE {"FAIL"}

\* Gates recorded; a test is started, or it is not run.
Decide(g6) ==
  /\ Does("decide") /\ g6 \in GateG6
  /\ IF g6 = "PASS" THEN UNCHANGED odd ELSE Costs(1)
  /\ LET g == [IF Windowed THEN WindowGates ELSE gates EXCEPT !["G6"] = g6]
         over == abort # "" \/ cancel
         starts == ~(Blocked(g) /\ Writing) /\ ~over /\ Writing /\ dcrOK IN
       /\ gates' = g
       /\ limits' = IF Windowed /\ abort = "" THEN HadValue(Rows(Gate)) ELSE {}
       /\ pc' = "test"
       /\ plan' = IF ~starts THEN <<>> ELSE IF test = "map" THEN T1Plan ELSE T2Plan
       /\ results' = IF ~Writing THEN NotApplicable ELSE Inconclusive
  /\ slot' = 1 /\ t0' = now
  /\ UNCHANGED <<request, now, cancel, abort, hot, nan, touched, coll, subs, aKnown, tries,
                 samples, events, final>>

-----------------------------------------------------------------------------
(* Commands of a test.                                                     *)

\* manual(), write(), auto(): the state file of the guardian is written before the
\* first one; a command that fails, or must not be sent, ends the run.
Command(out) ==
  /\ pc = "test" /\ plan # <<>> /\ Head(plan)[1] \in {"manual", "write", "auto"}
  /\ \/ /\ out = "sent" /\ touched' = {ch}
        /\ Log(<<IF Len(Head(plan)) > 1 THEN Head(plan)[2] ELSE Plain(Head(plan)[1])>>)
        /\ NextStep(now) /\ UNCHANGED <<abort, odd>>
     \/ /\ out = "failed" /\ touched' = {ch}
        /\ Log(<<Plain("FAILED"), Plain("ABORT")>>)
        /\ Stopped("command") /\ Costs(1) /\ UNCHANGED <<slot, t0>>
     \/ /\ out = "no state file" /\ ~Wrote /\ UNCHANGED touched
        /\ Log(<<Plain("ABORT")>>)
        /\ Stopped("command") /\ Costs(1) /\ UNCHANGED <<slot, t0>>
  /\ UNCHANGED <<request, pc, now, cancel, hot, nan, limits, gates, data, tries, samples, final>>

Mark ==
  /\ Does("mark")
  /\ Log(<<Head(plan)[2]>>)
  /\ NextStep(now)
  /\ UNCHANGED <<request, pc, now, watch, gates, touched, data, tries, samples, final, odd>>

\* A is the last readable value of the window; without one the test is over,
\* and so is the run, which is not called aborted.
ValueA ==
  /\ Does("value A")
  /\ IF \E i \in DOMAIN Got(A) : Readable(Got(A)[i])
     THEN aKnown' = TRUE /\ NextStep(now)
     ELSE plan' = <<>> /\ UNCHANGED <<aKnown, slot, t0>>
  /\ UNCHANGED <<request, pc, now, watch, gates, touched, coll, subs, results, tries,
                 samples, events, final, odd>>

Values(q) == [i \in DOMAIN q |-> q[i].odd]
Series(q) == Those(q, {i \in DOMAIN q : Readable(q[i])})

\* EvalT1(): the verdict is made from the rest values and the timed steps.
EvalT1(rest, steps) == <<"T1", Values(rest), steps>>

\* AutoValues(): A is the last readable value before.
AutoValue(pre) == Last(pre).odd

\* MarkCrossing(): a step of the table is crossed in the window of A or between
\* write and end of the log.
MarkCrossing(preIn, in) == <<Values(preIn), Values(in)>>

\* One sub-run: A, the inputs, the readable values of the log.
SubResult(lab, a, crossed, log) == <<lab, a, crossed, Series(log)>>

\* The sub-runs of a repetition, in order; repetitions without one are left out.
ByRep(list, rep) == Those(list, {i \in DOMAIN list : list[i].rep = rep})
RunsOf(list) ==
  Those([rep \in 1..Repeat |-> ByRep(list, rep)],
        {rep \in 1..Repeat : \E i \in DOMAIN list : list[i].rep = rep})

\* FinishHandback(): an aborted T2 is inconclusive and keeps its runs.
FinishHandback(a, runs, why) ==
  [v |-> IF why # "" THEN <<"inconclusive">> ELSE <<"T2", a, runs>>, runs |-> runs]

Outcome ==
  IF test = "map"
  THEN IF abort # "" THEN Inconclusive
       ELSE [v |-> EvalT1(Got(Rest), [i \in DOMAIN T1Steps |-> Got(Phase("step", 0, T1Steps[i]))]),
             runs |-> <<>>]
  ELSE IF ~aKnown THEN Inconclusive
       ELSE LET a == AutoValue(Series(Got(A)))
                Sub(rep, lab) ==
                  LET log == Got(Phase("log", rep, lab)) IN
                  SubResult(lab, a, MarkCrossing(Got(A), Got(Phase("hold", rep, lab)) \o log), log)
            IN FinishHandback(a, RunsOf([i \in DOMAIN subs |->
                 [rep |-> subs[i][1], res |-> Sub(subs[i][1], subs[i][2])]]), abort)

\* A test ended or was never started (touched = {}: no command was sent, the
\* result says so already, except for an abort before the first command).
TestEnds ==
  /\ pc = "test" /\ plan = <<>>
  /\ results' = IF touched = {} THEN results ELSE Outcome
  /\ pc' = "close" /\ tries' = 0
  /\ UNCHANGED <<request, plan, hold, watch, gates, touched, coll, subs, aKnown, samples,
                 events, final, odd>>

-----------------------------------------------------------------------------
(* The end of a run.                                                       *)

\* WaitDCR(): the registers are read until they show the value or the settle time
\* is over.
WaitDCR == IF dcrOK THEN {"reached", "differs", "unreadable"} ELSE {"unreadable"}

\* liveEnv.Restore(): a value whose register differs is restored, with a warning.
EnvRestore ==
  {"restore failed"} \cup {IF w = "differs" THEN "restore differs" ELSE "restore ok" : w \in WaitDCR}

Restored(c) == \E i \in DOMAIN events : events[i].e \in {<<"restore ok", c, "">>, <<"restore differs", c, "">>}

\* After a temperature abort the channel of the sensor is set to 255, touched or
\* not, when the run wrote at all.
HotChannel == IF Wrote THEN {hot} \ {0} ELSE {}
ToClose == touched \cup {c \in HotChannel : ~Restored(c)}

\* The first pass is that of the test, unless it was cut off before its end.
OfTest == tries = 0 /\ (IF test = "map" THEN abort = "" ELSE aKnown)
Passes ==
  1 + (IF (IF test = "map" THEN abort = "" ELSE aKnown) THEN 1 ELSE 0)
    + (IF abort # "" \/ cancel THEN 1 ELSE 0)
Passed == tries >= Passes \/ ToClose = {}

\* restore() of one channel after the test, then Close() of every channel, called
\* again at every later exit: one answer for every channel.
Restore(fails, differs) ==
  /\ pc \in {"close", "panic"} /\ ~Passed
  /\ LET todo == IF OfTest THEN touched ELSE ToClose
         asked == Ordered(todo)
         Answer(c) == IF c \in fails THEN "restore failed"
                      ELSE IF c \in differs THEN "restore differs" ELSE "restore ok" IN
       /\ fails \cup differs \subseteq todo
       /\ \A c \in todo : Answer(c) \in EnvRestore
       /\ Log([i \in DOMAIN asked |-> <<Answer(asked[i]), asked[i], "">>])
  /\ Costs(Cardinality(fails \cup differs))
  /\ touched' = fails
  /\ tries' = tries + 1
  /\ UNCHANGED <<request, pc, plan, hold, watch, gates, data, samples, final>>

Closed ==
  /\ pc = "close" /\ Passed
  /\ pc' = "meta"
  /\ UNCHANGED <<request, plan, hold, watch, gates, touched, data, tries, samples, events,
                 final, odd>>

\* meta.json replaces the provisional one, then comes verdict.json; when one cannot
\* be written the next is not tried. Each is written whole or not at all.
WriteMeta ==
  /\ pc = "meta"
  /\ \/ meta' = "final" /\ pc' = "verdict" /\ UNCHANGED odd
     \/ Costs(1) /\ pc' = "sums" /\ UNCHANGED meta
  /\ UNCHANGED <<request, plan, hold, watch, gates, touched, data, tries, samples, events,
                 verdict, sums, guarded>>

WriteVerdict ==
  /\ pc = "verdict" /\ pc' = "sums"
  /\ \/ verdict' = <<results>> /\ UNCHANGED odd
     \/ Costs(1) /\ UNCHANGED verdict
  /\ UNCHANGED <<request, plan, hold, watch, gates, touched, data, tries, samples, events,
                 meta, sums, guarded>>

\* Finish(): the streamed files are closed and SHA256SUMS covers what is there.
Finish ==
  /\ pc = "sums" \/ (pc = "panic" /\ Passed)
  /\ \/ sums' = TRUE /\ UNCHANGED odd
     \/ Costs(1) /\ UNCHANGED sums
  /\ pc' = IF pc = "sums" THEN "end" ELSE "killed"
  /\ UNCHANGED <<request, plan, hold, watch, gates, touched, data, tries, samples, events,
                 meta, verdict, guarded>>

\* appendEvents(): the guardian, or n5-ectest restore, restores what a worker left
\* behind; its line has no time of the run, and SHA256SUMS is written anew.
Aftermath ==
  /\ ~guarded /\ Wrote
  /\ pc = "killed" \/ (pc = "end" /\ touched # {})
  /\ guarded' = TRUE
  /\ events' = Append(events, [e |-> Plain("guardian"), ts |-> -1])
  /\ \/ sums' = TRUE /\ UNCHANGED odd
     \/ Costs(1) /\ sums' = FALSE
  /\ UNCHANGED <<request, pc, plan, hold, watch, gates, touched, data, tries, samples,
                 meta, verdict>>

SomeOdd == UNION {kSubset(k, OddKinds) : k \in 0..MaxOdd - odd}

Running == pc \in {"gates", "test", "close", "meta", "verdict", "sums"}

Cancel ==
  /\ pc \in {"gates", "test"} /\ ~cancel /\ Costs(1)
  /\ cancel' = TRUE
  /\ UNCHANGED <<request, pc, plan, hold, abort, hot, nan, limits, gates, touched, data, tries,
                 samples, events, final>>

\* A kill leaves everything as it is; a panic (a refused write) restores once more
\* and closes the bundle.
Dies(how) ==
  /\ Running /\ Costs(1) /\ pc' = how
  /\ \/ how = "killed" /\ UNCHANGED tries
     \/ how = "panic" /\ pc \in {"gates", "test", "close"} /\ tries' = Passes - 1
  /\ UNCHANGED <<request, plan, hold, watch, gates, touched, data, samples, events, final>>

Init ==
  /\ test \in Tests /\ ch \in Channels
  /\ dcrOK = TRUE /\ confirmed = FALSE /\ pc = "confirm" /\ plan = <<>>
  /\ slot = 1 /\ t0 = 0 /\ now = 0
  /\ cancel = FALSE /\ abort = "" /\ hot = 0 /\ nan = [s \in Sensors |-> 0] /\ limits = {}
  /\ gates = [g \in Gates |-> "SKIPPED"] /\ touched = {}
  /\ coll = <<>> /\ subs = <<>> /\ aKnown = FALSE /\ results = Inconclusive /\ tries = 0
  /\ samples = <<>> /\ events = <<>> /\ meta = "none" /\ verdict = <<>> /\ sums = FALSE
  /\ guarded = FALSE
  /\ odd = 0

Next ==
  \/ \E bad \in {{}} \cup {{g} : g \in PreGates}, d, typed \in BOOLEAN : Confirm(bad, d, typed)
  \/ StartGates
  \/ \E g6 \in {"PASS", "PARTIAL", "FAIL"} : Decide(g6)
  \/ \E O \in SomeOdd : TakeSample(O)
  \/ \E O \in SomeOdd, slow \in 0..MaxOdd - odd : HoldSample(O, slow)
  \/ HoldCancelled
  \/ \E out \in {"sent", "failed", "no state file"} : Command(out)
  \/ Mark \/ ValueA \/ TestEnds
  \/ \E fails \in SUBSET ToClose : \E differs \in SUBSET (ToClose \ fails) : Restore(fails, differs)
  \/ Closed \/ WriteMeta \/ WriteVerdict \/ Finish
  \/ Aftermath \/ Cancel \/ \E how \in {"killed", "panic"} : Dies(how)

Spec == Init /\ [][Next]_vars

-----------------------------------------------------------------------------
(* Properties.                                                             *)

IsTest(s) == s.ph \notin {Boot, Gate}

\* No command of a test is sent to the EC by a run that was not confirmed, with a
\* gate that is not passed, or after a sample that found a limit reached, a fan
\* standing, another writer or a sensor lost (TESTSPEC 3 and 4), whichever of the
\* holds the sample was in. What is written afterwards are restores.
WritesAllowed ==
  [][(\E i \in DOMAIN events' \ DOMAIN events : events'[i].e[1] \in CommandTexts) =>
       /\ confirmed /\ \A g \in Blocking : gates[g] = "PASS"
       /\ \A i \in DOMAIN samples : samples[i].odd \cap Ending = {}
       /\ \A i \in DOMAIN samples, s \in Sensors :
            i + LostAfter - 1 \in DOMAIN samples =>
              \E j \in i..i + LostAfter - 1 : s \notin samples[j].odd \/ ~IsTest(samples[j])]_vars

\* A sensor is called lost only when the last samples all came without its value:
\* gaps that a value ended do not add up.
LostInARow ==
  abort = "lost" =>
    \E s \in Sensors :
      \A j \in Len(samples) - LostAfter + 1..Len(samples) : j \in DOMAIN samples /\ s \in samples[j].odd

\* A hold that was not cut short has its last sample at its end, however slow the
\* samples were, and never two at one time: a test that is evaluated has judged
\* the EC after the whole of every hold.
Complete(ph, n) ==
  LET q == Got(ph) IN
  /\ q # <<>> /\ q[Len(q)].t = n
  /\ \A i \in DOMAIN q : i > 1 => q[i - 1].t < q[i].t

LastSlotSampled ==
  pc \in {"close", "meta", "verdict", "sums", "end"} /\ results.v[1] \in {"T1", "T2"} =>
    IF test = "map"
    THEN Complete(Rest, Hold) /\ \A i \in DOMAIN T1Steps : Complete(Phase("step", 0, T1Steps[i]), Hold)
    ELSE /\ Complete(A, Pre)
         /\ \A i \in DOMAIN SubRuns :
              /\ Complete(Phase("hold", SubRuns[i][1], SubRuns[i][2]), Hold)
              /\ Complete(Phase("log", SubRuns[i][1], SubRuns[i][2]), Observe)
=============================================================================
