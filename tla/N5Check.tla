------------------------------- MODULE N5Check -------------------------------
(***************************************************************************)
(* Around a log run: the outside check, which a timer and the failure unit *)
(* of the logger start each on its own, annotations of the operator, and   *)
(* the end of the run with its SHA256SUMS. All of them share the run       *)
(* directory and no lock; a file is replaced whole or gets one more line.  *)
(*                                                                         *)
(* The logger is kept to what the others see of it (N5Logger has the       *)
(* rest): the age of samples.csv, state.json and its end.                  *)
(***************************************************************************)
EXTENDS Integers, Sequences

CONSTANTS
  Gap,         \* CheckGapMaxS
  Cooldown,    \* AlertCooldownS
  Annotators,  \* operators with an annotation
  MaxClock,    \* bound of the time, in periods of the timer
  MaxDies      \* bound: deaths of the logger, kills of a check

Checks == {"timer", "failed"}
Kinds  == {"stale", "failed"}      \* K5 and FAILED mails
Logger == "log"
Summers == {Logger} \cup Annotators
Start == Cooldown + 1              \* the epoch is long past 0
NoState == [last |-> 0, finished |-> FALSE]
NoMail == [k \in Kinds |-> 0]
Summed == <<"annotations", "check">>   \* files that can still change at the end

ASSUME CheckAssumption ==
  /\ Gap \in Nat \ {0} /\ Cooldown \in Nat \ {0} /\ MaxClock \in Nat /\ MaxDies \in Nat
  /\ Logger \notin Annotators

VARIABLES
  clock,
  up,       \* the logger runs
  row,      \* time of the last row of samples.csv, 0 for none
  state,    \* state.json: <<>>, or <<its content>>
  failure,  \* systemd has to start the failure unit
  dies,
  json,     \* check.json: <<>>, or <<time of the last mail of each kind>>
  notes,    \* lines of annotations.txt
  sums,     \* SHA256SUMS: <<>>, or <<what it holds of each file>>
  pc, hash, \* of those that write SHA256SUMS: files hashed so far
  check,    \* the outside checks
  told,     \* history: time of the last mail of each kind that was tried
  torn,     \* history: a check was killed, or wrote back what it read before another's write
  crossed   \* history: a file was written after somebody had hashed it

logger == <<up, row, state, failure, dies>>
record == <<notes, sums, pc, hash>>
vars   == <<clock, logger, json, record, check, told, torn, crossed>>

\* "began" is history: the last row when the check began.
IdleCheck == [pc |-> "idle", now |-> 0, began |-> 0, last |-> 0, read |-> NoMail, mail |-> "no"]

-----------------------------------------------------------------------------
(* The logger as the others see it.                                        *)

\* A check is over, or killed, long before the timer is due again.
Tick ==
  /\ clock < MaxClock /\ clock' = clock + 1
  /\ \A k \in Checks : check[k].pc = "idle"
  /\ UNCHANGED <<logger, json, record, check, told, torn, crossed>>

\* A run without a state file begins, one with a state file is resumed.
LoggerStarts ==
  /\ ~up /\ pc[Logger] = "idle"
  /\ IF state = <<>> THEN state' = <<[NoState EXCEPT !.last = clock]>>
                     ELSE ~state[1].finished /\ UNCHANGED state
  /\ up' = TRUE
  /\ UNCHANGED <<clock, row, failure, dies, json, record, check, told, torn, crossed>>

\* The row is in samples.csv at once, the state file follows when it can be written.
Row ==
  /\ up /\ row' = clock
  /\ UNCHANGED <<clock, up, state, failure, dies, json, record, check, told, torn, crossed>>

SaveState ==
  /\ up /\ row > 0 /\ state' = <<[state[1] EXCEPT !.last = row]>>
  /\ UNCHANGED <<clock, up, row, failure, dies, json, record, check, told, torn, crossed>>

\* Killed, an error, the watchdog: at the first start also before there is a state.
LoggerDies ==
  /\ dies < MaxDies /\ (up \/ state = <<>> \/ pc[Logger] # "idle")
  /\ dies' = dies + 1 /\ up' = FALSE /\ failure' = TRUE
  /\ pc' = [pc EXCEPT ![Logger] = "idle"] /\ hash' = [hash EXCEPT ![Logger] = <<>>]
  /\ UNCHANGED <<clock, row, state, json, notes, sums, check, told, torn, crossed>>

\* finish(): the state is saved as finished, then comes WriteSums.
LoggerFinishes ==
  /\ up /\ row > 0
  /\ state' = <<[last |-> row, finished |-> TRUE]>> /\ up' = FALSE
  /\ pc' = [pc EXCEPT ![Logger] = "hash"]
  /\ UNCHANGED <<clock, row, failure, dies, json, notes, sums, hash, check, told, torn, crossed>>

-----------------------------------------------------------------------------
(* SHA256SUMS and annotations.                                             *)

Content(f) == IF f = "annotations" THEN notes ELSE json

\* WriteSums(): the files are hashed one after the other ...
HashOne(p) ==
  /\ pc[p] = "hash" /\ Len(hash[p]) < Len(Summed)
  /\ hash' = [hash EXCEPT ![p] = Append(@, Content(Summed[Len(@) + 1]))]
  /\ UNCHANGED <<clock, logger, json, notes, sums, pc, check, told, torn, crossed>>

\* ... and the list replaces the old one.
PutSums(p) ==
  /\ pc[p] = "hash" /\ Len(hash[p]) = Len(Summed)
  /\ sums' = <<hash[p]>>
  /\ pc' = [pc EXCEPT ![p] = "idle"] /\ hash' = [hash EXCEPT ![p] = <<>>]
  /\ UNCHANGED <<clock, logger, json, notes, check, told, torn, crossed>>

\* Somebody has hashed file number i and not yet put his list in place.
Hashed(i) == \E q \in Summers : Len(hash[q]) >= i

\* AnnotateEvents(), AnnotateDown(): one more line.
AddNote == notes' = notes + 1

\* cmdLogAnnotate: the line is added to a run that is there ...
Annotate(p) ==
  /\ pc[p] = "ready" /\ state # <<>>
  /\ AddNote /\ pc' = [pc EXCEPT ![p] = "stat"]
  /\ crossed' = (crossed \/ Hashed(1))
  /\ UNCHANGED <<clock, logger, json, sums, hash, check, told, torn>>

\* Seeded fault: the annotation of a finished run is not summed.
AfterAnnotationNever == "idle"

\* The annotation of a finished run is part of its record.
AfterAnnotation == IF sums = <<>> THEN "idle" ELSE "hash"

\* ... and SHA256SUMS anew when there is one.
StatSums(p) ==
  /\ pc[p] = "stat"
  /\ pc' = [pc EXCEPT ![p] = AfterAnnotation]
  /\ UNCHANGED <<clock, logger, json, notes, sums, hash, check, told, torn, crossed>>

-----------------------------------------------------------------------------
(* The outside check.                                                      *)

\* Started by the timer, or by systemd after a failure. The time is taken first.
CheckStarts(k) ==
  /\ check[k].pc = "idle"
  /\ IF k = "timer" THEN UNCHANGED failure ELSE failure /\ failure' = FALSE
  /\ check' = [check EXCEPT ![k] = [IdleCheck EXCEPT !.pc = "load", !.now = clock, !.began = row]]
  /\ UNCHANGED <<clock, up, row, state, dies, json, record, told, torn, crossed>>

Ends(k) == check' = [check EXCEPT ![k] = IdleCheck]

\* Seeded fault: only the state file is asked for the last sample.
LastSampleOfState == state[1].last

\* The last sample: state.json, or samples.csv when it is younger.
LastSample == IF row > state[1].last THEN row ELSE state[1].last

\* A run without a state file, or a finished one, is not mailed about.
LoadState(k) ==
  /\ check[k].pc = "load"
  /\ IF state = <<>> \/ (state # <<>> /\ state[1].finished) THEN Ends(k)
     ELSE check' = [check EXCEPT ![k].pc = "decide", ![k].last = LastSample]
  /\ UNCHANGED <<clock, logger, json, record, told, torn, crossed>>

Stale(c) == c.now - c.last > Gap

\* Seeded fault: one cooldown for both kinds of mail.
MailOfAny(k, c, read) ==
  IF k = "failed" THEN IF c.now - read["failed"] >= Cooldown THEN "failed" ELSE "no"
  ELSE IF Stale(c) /\ \A j \in Kinds : c.now - read[j] >= Cooldown THEN "stale" ELSE "no"

\* What is mailed: a failure, or a gap; each at most once in Cooldown.
MailOf(k, c, read) ==
  IF k = "failed" THEN IF c.now - read["failed"] >= Cooldown THEN "failed" ELSE "no"
  ELSE IF Stale(c) /\ c.now - read["stale"] >= Cooldown THEN "stale" ELSE "no"

\* check.json is read; a missing one tells of no mail.
Decide(k) ==
  /\ check[k].pc = "decide"
  /\ LET read == IF json = <<>> THEN NoMail ELSE json[1]
         mail == MailOf(k, check[k], read) IN
       IF mail = "no" /\ k = "timer" THEN Ends(k)
       ELSE check' = [check EXCEPT ![k].pc = IF mail = "no" THEN "write" ELSE "mail",
                                   ![k].read = read, ![k].mail = mail, ![k].last = 0]
  /\ UNCHANGED <<clock, logger, json, record, told, torn, crossed>>

\* The mail is tried once; whether it goes out is not asked.
SendMail(k) ==
  /\ check[k].pc = "mail"
  /\ told' = [told EXCEPT ![check[k].mail] = check[k].now]
  /\ check' = [check EXCEPT ![k].pc = "write", ![k].read[check[k].mail] = check[k].now]
  /\ UNCHANGED <<clock, logger, json, record, torn, crossed>>

\* check.json is replaced by what was read and the mail sent (the count of failures
\* is left out), or cannot be written.
WriteCheck(k) ==
  /\ check[k].pc = "write"
  /\ json' \in {json, <<check[k].read>>}
  /\ torn' = (torn \/ json' # <<told>>)
  /\ crossed' = (crossed \/ (json' # json /\ (Hashed(2) \/ sums # <<>>)))
  /\ Ends(k)
  /\ UNCHANGED <<clock, logger, record, told>>

\* TimeoutStartSec: a check whose mail hangs is killed.
CheckKilled(k) ==
  /\ check[k].pc # "idle" /\ dies < MaxDies /\ dies' = dies + 1
  /\ torn' = TRUE /\ Ends(k)
  /\ UNCHANGED <<clock, up, row, state, failure, json, record, told, crossed>>

Init ==
  /\ clock = Start /\ up = FALSE /\ row = 0 /\ state = <<>> /\ failure = FALSE /\ dies = 0
  /\ json = <<>> /\ notes = 0 /\ sums = <<>>
  /\ pc = [p \in Summers |-> IF p = Logger THEN "idle" ELSE "ready"]
  /\ hash = [p \in Summers |-> <<>>]
  /\ check = [k \in Checks |-> IdleCheck]
  /\ told = NoMail /\ torn = FALSE /\ crossed = FALSE

LoggerStep == LoggerStarts \/ Row \/ SaveState \/ LoggerDies \/ LoggerFinishes

CheckStep(k) ==
  CheckStarts(k) \/ LoadState(k) \/ Decide(k) \/ SendMail(k) \/ WriteCheck(k)
  \/ CheckKilled(k)

Next ==
  \/ Tick \/ LoggerStep
  \/ \E p \in Summers : HashOne(p) \/ PutSums(p)
  \/ \E p \in Annotators : Annotate(p) \/ StatSums(p)
  \/ \E k \in Checks : CheckStep(k)

Spec == Init /\ [][Next]_vars

-----------------------------------------------------------------------------
(* Properties.                                                             *)

\* The outside check tells of a dead logger and of every kind of trouble once an
\* hour: it leaves a mail out only when one of the same kind was tried within the
\* hour, whatever the other check did meanwhile; it repeats one within the hour only
\* after a check was killed, could not write check.json or wrote back what it had
\* read before the other's write.
OncePerHour ==
  [][\A k \in Checks :
       check[k].pc = "decide" /\ check'[k].pc # "decide" /\ dies' = dies =>
         LET kind == IF k = "failed" THEN "failed" ELSE "stale" IN
         /\ (check'[k].pc # "mail" /\ (k = "timer" => Stale(check[k]))) =>
              check[k].now - told[kind] < Cooldown
         /\ check'[k].pc = "mail" => torn \/ check[k].now - told[kind] >= Cooldown]_vars

\* No alarm of a gap that is none: a K5 mail goes out only when, at the time the
\* check began, no row had been written for Gap, however far the state file lagged
\* behind the rows.
NoFalseAlarm ==
  \A k \in Checks :
    check[k].pc = "mail" /\ check[k].mail = "stale" => check[k].now - check[k].began > Gap

\* VerifySums(): every file is listed with what it holds.
VerifySums == sums[1] = [i \in DOMAIN Summed |-> Content(Summed[i])]

\* SHA256SUMS of a finished run fits its files whenever nobody is writing it, except
\* for writes that crossed: an annotation while somebody else sums, or the check.json
\* of an outside check that had begun before the end of the run.
SumsHold ==
  sums # <<>> /\ (\A p \in Summers : pc[p] \in {"idle", "ready"}) =>
    crossed \/ VerifySums
=============================================================================
