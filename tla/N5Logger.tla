------------------------------ MODULE N5Logger ------------------------------
(***************************************************************************)
(* The long-term logger `n5-ectest log`: the sampling loop with its        *)
(* criteria, the check every CheckEvery with the kernel log, the alert     *)
(* mails and the outbox, the state file, and the unit that starts the      *)
(* logger again after a failure or a reboot.                               *)
(*                                                                         *)
(* The criteria of a sample have one of four forms, and the model has one  *)
(* of each: a changed value (K2, boot id; K3 restart counter and K7        *)
(* alike), a gap (K5), a count of bad samples in a row (K4, fan at 0 rpm;  *)
(* missing EC alike) and an episode (K4, hot; EC errors, dcr, fangov state *)
(* and K6 alike). The kernel log (K1) and the journal of n5-fangov (K3)    *)
(* are read through cursors.                                               *)
(*                                                                         *)
(* Time counts in sample intervals. The row of a sample, each criterion    *)
(* hit and each call that can hang or fail is a step of its own, so that   *)
(* the logger may die before and after each. The rows of samples.csv and   *)
(* aux.csv are one step: a death between them leaves no boot id.           *)
(***************************************************************************)
EXTENDS Integers, Sequences, FiniteSets, SequencesExt

CONSTANTS
  RunLen,      \* length of the run
  GapMax,      \* a longer gap between samples is K5 (90 s)
  CheckEvery,  \* CheckIntervalS
  DailyEvery,  \* 86400 s
  Cooldown,    \* AlertCooldownS
  K1Max,       \* K1MaxPerRun
  EvidenceMax, \* journal lines of n5-fangov that one event quotes (40)
  PendingMax,  \* a key with so many lines for the next mail takes no more (200)
  MailMax,     \* lines of an alert mail (50)
  OutboxMax,   \* mails that fit the outbox (OutboxMaxMB)
  MaxLines,    \* bound: lines of the logs that match K1 or are of n5-fangov
  MaxSlow,     \* bound: intervals a slow pass takes
  Sources,     \* where the kernel log is read: "journal", "kmsg"
  Limit,       \* bound: faults of each kind
  MaxFaults    \* bound: faults altogether

Readings == {"good", "stall", "hot"}   \* of one sample; all but the first are faults
FaultKinds == {"die", "reboot", "stop", "journal", "mail", "save", "stall", "hot"}
Keys == <<"K1", "K2", "K3", "K4", "K5", "K8">>   \* the order in which alerts go out
Units == {"kernel", "fangov"}
ZeroCap == 3    \* bound of ZeroRun, which is only compared with 2
Up == {"startMail", "startSave", "top", "sampled", "check", "checked", "flush", "alerts",
       "daily", "save", "sleep", "endMail", "endSave", "sums"}

ASSUME LoggerAssumption ==
  /\ RunLen \in Nat \ {0} /\ GapMax \in Nat \ {0} /\ CheckEvery \in Nat \ {0}
  /\ DailyEvery \in Nat \ {0} /\ Cooldown \in Nat \ {0}
  /\ K1Max \in Nat /\ EvidenceMax \in Nat /\ PendingMax \in Nat /\ MailMax \in Nat
  /\ OutboxMax \in Nat /\ MaxLines \in Nat /\ MaxSlow \in Nat \ {0}
  /\ Sources \subseteq {"journal", "kmsg"}
  /\ Limit \in [FaultKinds -> Nat] /\ MaxFaults \in Nat

VARIABLES
  clock, boot,   \* time and the boot id
  source, log,   \* the logs: time, boot and unit of each line that counts
  file,          \* state.json
  events,        \* the criterion hits in events.log
  row,           \* the last row of samples.csv and aux.csv, and its history
  outbox,        \* queued mails, each the set of log lines it tells of
  told, binned,  \* log lines in mails that were sent, that were dropped
  cut,           \* log lines that a full queue or a full mail left out
  sums,          \* SHA256SUMS is written
  pc, st,        \* the process and its State
  todo,          \* the hits of this sample or check still to be recorded
  mailDown,
  faults         \* faults so far

world == <<clock, boot, source, log>>
mails == <<outbox, told, binned>>
mem == <<st, todo, mailDown>>
vars == <<world, file, events, row, mails, cut, sums, pc, mem, faults>>

----------------------------------------------------------------------------
(* State and events *)

\* State before the run: there is no state.json.
NoState ==
  [start |-> 0, end |-> 0, boot |-> 0, last |-> 0, sampled |-> FALSE, resumed |-> FALSE,
   seq |-> 0, zero |-> 0, episodes |-> {}, cursor |-> [u \in Units |-> 0], k1 |-> 0,
   lastCheck |-> 0, lastDaily |-> 0, sent |-> [k \in ToSet(Keys) |-> 0],
   pending |-> [k \in ToSet(Keys) |-> <<>>], finished |-> FALSE]

Faults == FoldFunction(+, 0, faults)
Strike(k) ==
  faults[k] < Limit[k] /\ Faults < MaxFaults /\ faults' = [faults EXCEPT ![k] = @ + 1]

\* A criterion hit: the log lines it is about, and the lines of text it has in
\* a mail, each the set of log lines that it quotes or counts.
Hit(k, lines, texts) == [key |-> k, hits |-> lines, texts |-> texts]
Plain(k) == Hit(k, {}, <<{}>>)

\* A hit is recorded: numbered, written to events.log, and put in the queue
\* of its key for the next mail if that is not full.
Event(hit) ==
  /\ events' = events \cup
       {[key |-> hit.key, hits |-> hit.hits, id |-> st.seq + 1, t |-> clock, boot |-> boot]}
  /\ IF Len(st.pending[hit.key]) < PendingMax
       THEN /\ st' = [st EXCEPT !.seq = @ + 1, !.pending[hit.key] = @ \o hit.texts]
            /\ UNCHANGED cut
       ELSE st' = [st EXCEPT !.seq = @ + 1] /\ cut' = cut \cup hit.hits

\* An episode is reported when it starts and armed again when it ends.
EpisodeHits(s, k, name, on) == IF on /\ name \notin s.episodes THEN <<Plain(k)>> ELSE <<>>
Episodes(s, name, on) == IF on THEN s.episodes \cup {name} ELSE s.episodes \ {name}

\* The process ends; what it had in memory is gone.
Down(how) == pc' = how /\ st' = NoState /\ todo' = <<>> /\ mailDown' = FALSE

Save(next, failed) ==
  \/ file' = st /\ pc' = next /\ UNCHANGED <<events, cut, mem, faults>>
  \/ Strike("save") /\ failed

\* In the loop a state file that is not written is a K8 event.
SaveOrReport(next) ==
  Save(next, Event(Plain("K8")) /\ pc' = next /\ UNCHANGED <<file, todo, mailDown>>)

\* Outside the loop it ends the process with an error.
SaveOrFail(next) == Save(next, Down("off") /\ UNCHANGED <<file, events, cut>>)

----------------------------------------------------------------------------
(* Mail *)

Sent(m) == told' = told \cup m /\ UNCHANGED <<mailDown, faults>>

\* Seeded fault: the outbox is not bounded.
QueueAlways(m) == outbox' = Append(outbox, m) /\ UNCHANGED <<told, binned>>

\* A mail that does not go out is queued or, with the outbox full, dropped.
Queue(m) ==
  /\ IF Len(outbox) < OutboxMax
       THEN outbox' = Append(outbox, m) /\ UNCHANGED binned
       ELSE binned' = binned \cup m /\ UNCHANGED outbox
  /\ UNCHANGED told

\* One attempt, none if one failed in this pass.
Mail(m) ==
  \/ ~mailDown /\ Sent(m) /\ UNCHANGED <<outbox, binned>>
  \/ ~mailDown /\ Strike("mail") /\ mailDown' = TRUE /\ Queue(m)
  \/ mailDown /\ Queue(m) /\ UNCHANGED <<mailDown, faults>>

----------------------------------------------------------------------------
(* Start, resume, end of the process *)

Init ==
  /\ clock = 1 /\ boot = 1 /\ source \in Sources /\ log = <<>>
  /\ file = NoState /\ st = NoState /\ events = {}
  /\ row = [t |-> 0, boot |-> 0, gap |-> 0, zeros |-> 0, from |-> 0]
  /\ outbox = <<>> /\ told = {} /\ binned = {} /\ cut = {} /\ sums = FALSE
  /\ pc = "off" /\ todo = <<>> /\ mailDown = FALSE
  /\ faults = [k \in FaultKinds |-> 0]

\* A new run saves its state before the start mail.
Begin ==
  /\ pc \in {"off", "stopped"} /\ file.start = 0
  /\ LET new == [NoState EXCEPT !.start = clock, !.end = clock + RunLen, !.boot = boot,
                                !.lastDaily = clock] IN
     \/ st' = new /\ file' = new /\ pc' = "startMail" /\ UNCHANGED faults
     \/ Strike("save") /\ UNCHANGED <<st, file, pc>>
  /\ UNCHANGED <<world, events, row, mails, cut, sums, todo, mailDown>>

StartMail ==
  /\ pc = "startMail"
  /\ Mail({}) /\ pc' = "startSave"
  /\ UNCHANGED <<world, file, events, row, cut, sums, st, todo>>

StartSave ==
  /\ pc = "startSave" /\ SaveOrFail("top")
  /\ UNCHANGED <<world, row, mails, sums>>

\* A run with a state file is resumed.
Resume ==
  /\ pc \in {"off", "stopped"} /\ file.start > 0 /\ ~file.finished
  /\ st' = [file EXCEPT !.resumed = TRUE] /\ pc' = "startSave"
  /\ UNCHANGED <<world, file, events, row, mails, cut, sums, todo, mailDown, faults>>

\* ErrFinished: nothing is left to do.
StartFinished ==
  /\ pc \in {"off", "stopped"} /\ file.finished
  /\ Down("done")
  /\ UNCHANGED <<world, file, events, row, mails, cut, sums, faults>>

\* SIGTERM ends the sleep; the unit is not started again by itself.
Stop ==
  /\ pc = "sleep" /\ Strike("stop")
  /\ file' \in {st, file}   \* an error of this save is ignored
  /\ Down("stopped")
  /\ UNCHANGED <<world, events, row, mails, cut, sums>>

\* Killed, out of memory, watchdog.
Die ==
  /\ pc \in Up /\ Strike("die") /\ Down("off")
  /\ UNCHANGED <<world, file, events, row, mails, cut, sums>>

Reboot ==
  /\ pc # "done" /\ file.start > 0 /\ Strike("reboot")
  /\ boot' = boot + 1 /\ Down("off")
  /\ UNCHANGED <<clock, source, log, file, events, row, mails, cut, sums>>

\* Time passes while the logger is down.
Wait ==
  /\ pc \in {"off", "stopped"} /\ file.start > 0 /\ clock < file.end
  /\ clock' = clock + 1
  /\ UNCHANGED <<boot, source, log, file, events, row, mails, cut, sums, pc, mem, faults>>

\* A line that comes during a pass counts as one that comes after it.
LogLine ==
  /\ pc \in {"sleep", "off", "stopped"} /\ file.start > 0 /\ Len(log) < MaxLines
  /\ \E u \in Units : log' = Append(log, [t |-> clock, boot |-> boot, unit |-> u])
  /\ UNCHANGED <<clock, boot, source, file, events, row, mails, cut, sums, pc, mem, faults>>

----------------------------------------------------------------------------
(* The loop *)

Due(since, after) == since = 0 \/ clock - since >= after

\* Seeded fault: a restart before the first saved sample is not asked about.
BreakHitsOfSampled ==
  LET gap == IF st.last > 0 /\ clock - st.last > GapMax THEN <<Plain("K5")>> ELSE <<>> IN
  IF ~st.sampled THEN <<>>
  ELSE IF boot # st.boot THEN <<Plain("K2")>> \o gap
  ELSE gap

\* K2 and K5: a reboot or a gap since the last sample on record.
BreakHits ==
  LET gap == IF st.last > 0 /\ clock - st.last > GapMax THEN <<Plain("K5")>> ELSE <<>> IN
  IF ~st.sampled /\ ~st.resumed THEN <<>>
  ELSE IF boot # st.boot THEN <<Plain("K2")>> \o gap
  ELSE gap

Zeros(reading) == IF reading = "stall" THEN IF st.zero < ZeroCap THEN st.zero + 1 ELSE ZeroCap ELSE 0

SampleHits(reading) ==
  BreakHits
  \o (IF Zeros(reading) = 2 THEN <<Plain("K4")>> ELSE <<>>)
  \o EpisodeHits(st, "K4", "hot", reading = "hot")

\* The row goes to the files first, then the hits are recorded; the state is
\* saved only at the end of the pass.
Sample(reading) ==
  /\ pc = "top" /\ clock < st.end
  /\ IF reading = "good" THEN UNCHANGED faults ELSE Strike(reading)
  /\ row' = [t |-> clock, boot |-> boot,
             gap |-> IF row.t > 0 /\ clock - row.t > GapMax /\ file.last > 0 THEN clock ELSE row.gap,
             zeros |-> IF reading = "stall" THEN row.zeros + 1 ELSE 0,
             from |-> IF row.zeros = 0 THEN clock ELSE row.from]
  /\ todo' = SampleHits(reading)
  /\ st' = [st EXCEPT !.boot = boot, !.last = clock, !.sampled = TRUE, !.zero = Zeros(reading),
                      !.episodes = Episodes(st, "hot", reading = "hot")]
  /\ pc' = "sampled"
  /\ UNCHANGED <<world, file, events, mails, cut, sums, mailDown>>

\* The hits of a sample or of a check, one after the other. Between K2 and K5
\* the code also notes the identity of the machine (identitySnapshot), which is
\* outside the model.
Record ==
  /\ todo # <<>> /\ Event(Head(todo)) /\ todo' = Tail(todo)
  /\ UNCHANGED <<world, file, row, mails, sums, pc, mailDown, faults>>

SampleEnds ==
  /\ pc = "sampled" /\ todo = <<>>
  /\ pc' = IF Due(st.lastCheck, CheckEvery) THEN "check" ELSE "daily"
  /\ UNCHANGED <<world, file, events, row, mails, cut, sums, mem, faults>>

\* Seeded fault: the end of the run comes without a check.
FinishUnchecked ==
  /\ pc = "top" /\ clock >= st.end
  /\ pc' = "endMail"
  /\ UNCHANGED <<world, file, events, row, mails, cut, sums, mem, faults>>

\* After the end of the run only the check is left to do.
Finish ==
  /\ pc = "top" /\ clock >= st.end
  /\ pc' = "check"
  /\ UNCHANGED <<world, file, events, row, mails, cut, sums, mem, faults>>

\* The number of a line: kmsg counts anew at each boot.
Position(i) ==
  IF source = "journal" THEN i
  ELSE Cardinality({j \in 1..i : log[j].boot = log[i].boot /\ log[j].unit = log[i].unit})

\* Lines the next read returns: those after the cursor; without a cursor the
\* journal gives those since the last check, kmsg all of this boot.
Unread(s, u) ==
  {i \in DOMAIN log :
     /\ log[i].unit = u
     /\ source = "kmsg" => log[i].boot = boot
     /\ \/ s.cursor[u] > 0 /\ Position(i) > s.cursor[u]
        \/ s.cursor[u] = 0 /\ (source = "journal" => log[i].t >= s.lastCheck)}

\* The place of a line among those that were read together.
Rank(l, lines) == Cardinality({m \in lines : m <= l})

\* Seeded fault: lines beyond K1Max leave no trace.
K1HitsCapped(lines) ==
  LET room == K1Max - st.k1
      n == Cardinality(lines) IN
  [i \in 1..(IF n <= room THEN n ELSE room) |->
     LET line == {l \in lines : Rank(l, lines) = i} IN Hit("K1", line, <<line, line>>)]

\* K1: one event per line up to K1Max per run, in the mail its text and the
\* line itself; then one event for all the others, with their number.
K1Hits(lines) ==
  LET room == K1Max - st.k1
      n == Cardinality(lines) IN
  [i \in 1..(IF n <= room THEN n ELSE room + 1) |->
     IF i <= room
       THEN LET line == {l \in lines : Rank(l, lines) = i} IN Hit("K1", line, <<line, line>>)
       ELSE LET rest == {l \in lines : Rank(l, lines) > room} IN Hit("K1", rest, <<rest>>)]

\* The warnings of n5-fangov are one event: their number, and in the mail
\* the last ones themselves.
FangovHits(lines) ==
  LET n == Cardinality(lines)
      quoted == IF n <= EvidenceMax THEN n ELSE EvidenceMax IN
  IF lines = {} THEN <<>>
  ELSE <<Hit("K3", lines, <<lines>> \o
               [i \in 1..quoted |-> {l \in lines : Rank(l, lines) = n - quoted + i}])>>

Cursor(u, lines) == IF lines = {} THEN st.cursor[u] ELSE Position(Max(lines))

\* Both logs, as far as they are readable. Only of the kernel log it is
\* reported (K8) when it is not. The check counts as done either way.
Read(readable) ==
  LET lines == [u \in Units |-> IF u \in readable THEN Unread(st, u) ELSE {}]
      k1 == st.k1 + Cardinality(lines["kernel"])
      hits == EpisodeHits(st, "K8", "journal", "kernel" \notin readable)
              \o K1Hits(lines["kernel"]) \o FangovHits(lines["fangov"])
  IN
  /\ todo' = hits
  /\ st' = [st EXCEPT !.cursor = [u \in Units |-> Cursor(u, lines[u])],
                      !.k1 = IF k1 < K1Max THEN k1 ELSE K1Max,
                      !.lastCheck = clock,
                      !.episodes = Episodes(st, "journal", "kernel" \notin readable)]

\* kmsg stands in for the kernel log only.
Readable == IF source = "journal" THEN Units ELSE {"kernel"}

Check ==
  /\ pc = "check" /\ pc' = "checked"
  /\ \/ Read(Readable) /\ UNCHANGED faults
     \/ Strike("journal") /\ \E fail \in (SUBSET Units) \ {{}} : Read(Readable \ fail)
  /\ UNCHANGED <<world, file, events, row, mails, cut, sums, mailDown>>

\* The state before any mail.
CheckSave ==
  /\ pc = "checked" /\ todo = <<>> /\ SaveOrReport("flush")
  /\ UNCHANGED <<world, row, mails, sums>>

\* Seeded fault: a queued mail is removed before the attempt.
FlushNextTaken ==
  /\ pc = "flush" /\ outbox # <<>> /\ ~mailDown
  /\ outbox' = Tail(outbox)
  /\ \/ Sent(Head(outbox)) /\ UNCHANGED <<binned, pc>>
     \/ Strike("mail") /\ mailDown' = TRUE /\ pc' = "alerts" /\ UNCHANGED <<told, binned>>
  /\ UNCHANGED <<world, file, events, row, cut, sums, st, todo>>

\* Queued mails, the oldest first, until one does not go out.
FlushNext ==
  /\ pc = "flush" /\ outbox # <<>> /\ ~mailDown
  /\ \/ Sent(Head(outbox)) /\ outbox' = Tail(outbox) /\ UNCHANGED <<binned, pc>>
     \/ Strike("mail") /\ mailDown' = TRUE /\ pc' = "alerts" /\ UNCHANGED mails
  /\ UNCHANGED <<world, file, events, row, cut, sums, st, todo>>

FlushEnds ==
  /\ pc = "flush" /\ (outbox = <<>> \/ mailDown)
  /\ pc' = "alerts"
  /\ UNCHANGED <<world, file, events, row, mails, cut, sums, mem, faults>>

AlertDue(i) == st.pending[Keys[i]] # <<>> /\ Due(st.sent[Keys[i]], Cooldown)

\* The log lines in lines of text, and in those that fit a mail: the last ones.
Quoted(texts) == UNION ToSet(texts)
Mailed(texts) == UNION {texts[j] : j \in {j \in DOMAIN texts : j > Len(texts) - MailMax}}

\* Seeded fault: an alert stays pending and its time is not kept.
AlertNextKept ==
  /\ pc = "alerts"
  /\ \E i \in DOMAIN Keys :
       /\ AlertDue(i) /\ \A j \in 1..(i - 1) : ~AlertDue(j)
       /\ Mail(Mailed(st.pending[Keys[i]]))
  /\ UNCHANGED <<world, file, events, row, cut, sums, pc, st, todo>>

\* One mail per key with pending events, unless it had one in Cooldown. What
\* does not fit goes to no later mail.
AlertNext ==
  /\ pc = "alerts"
  /\ \E i \in DOMAIN Keys :
       LET texts == st.pending[Keys[i]] IN
       /\ AlertDue(i) /\ \A j \in 1..(i - 1) : ~AlertDue(j)
       /\ Mail(Mailed(texts))
       /\ cut' = cut \cup (Quoted(texts) \ Mailed(texts))
       /\ st' = [st EXCEPT !.sent[Keys[i]] = clock, !.pending[Keys[i]] = <<>>]
  /\ UNCHANGED <<world, file, events, row, sums, pc, todo>>

AlertsEnd ==
  /\ pc = "alerts" /\ \A i \in DOMAIN Keys : ~AlertDue(i)
  /\ pc' = IF clock >= st.end THEN "endMail" ELSE "daily"
  /\ UNCHANGED <<world, file, events, row, mails, cut, sums, mem, faults>>

Daily ==
  /\ pc = "daily" /\ pc' = "save"
  /\ IF clock - st.lastDaily >= DailyEvery
       THEN Mail({}) /\ st' = [st EXCEPT !.lastDaily = clock]
       ELSE UNCHANGED <<mails, st, mailDown, faults>>
  /\ UNCHANGED <<world, file, events, row, cut, sums, todo>>

PassSave ==
  /\ pc = "save" /\ SaveOrReport("sleep")
  /\ UNCHANGED <<world, row, mails, sums>>

\* A pass with reads and mails that hang takes longer.
Sleep ==
  /\ pc = "sleep"
  /\ \E d \in 1..MaxSlow : clock' = clock + d
  /\ mailDown' = FALSE /\ pc' = "top"
  /\ UNCHANGED <<boot, source, log, file, events, row, mails, cut, sums, st, todo, faults>>

EndMail ==
  /\ pc = "endMail" /\ pc' = "endSave"
  /\ Mail({}) /\ st' = [st EXCEPT !.finished = TRUE]
  /\ UNCHANGED <<world, file, events, row, cut, sums, todo>>

EndSave ==
  /\ pc = "endSave" /\ SaveOrFail("sums")
  /\ UNCHANGED <<world, row, mails, sums>>

WriteSums ==
  /\ pc = "sums"
  /\ \/ sums' = TRUE /\ Down("done") /\ UNCHANGED faults
     \/ Strike("save") /\ Down("off") /\ UNCHANGED sums
  /\ UNCHANGED <<world, file, events, row, mails, cut>>

Loop ==
  \/ \E reading \in Readings : Sample(reading)
  \/ Record \/ SampleEnds \/ Finish \/ Check \/ CheckSave \/ FlushNext \/ FlushEnds \/ AlertNext \/ AlertsEnd
  \/ Daily \/ PassSave \/ Sleep \/ EndMail \/ EndSave \/ WriteSums

Starts == Begin \/ StartMail \/ StartSave \/ Resume \/ StartFinished

Next == Starts \/ Loop \/ Stop \/ Die \/ Reboot \/ Wait \/ LogLine

Spec == Init /\ [][Next]_vars

\* The process runs; systemd starts it again after a failure and at boot,
\* not after a stop.
FairSpec == Spec /\ WF_vars(Loop \/ (pc # "stopped" /\ Starts))

----------------------------------------------------------------------------
(* Properties *)

Lines == 1..MaxLines
LinesOf(hits) == UNION {h.hits : h \in hits}
Hits ==
  {h \in [key : ToSet(Keys), hits : SUBSET Lines, texts : Seq(SUBSET Lines)] : h.hits \subseteq Quoted(h.texts)}
Events == [key : ToSet(Keys), hits : SUBSET Lines, id : Nat, t : Nat, boot : Nat]
States ==
  [start : Nat, end : Nat, boot : Nat, last : Nat, sampled : BOOLEAN, resumed : BOOLEAN,
   seq : Nat, zero : 0..ZeroCap, episodes : SUBSET {"hot", "journal"}, cursor : [Units -> 0..MaxLines],
   k1 : 0..K1Max, lastCheck : Nat, lastDaily : Nat, sent : [ToSet(Keys) -> Nat],
   pending : [ToSet(Keys) -> Seq(SUBSET Lines)], finished : BOOLEAN]

\* Types; in particular the outbox and the count of K1 keep their limits,
\* and no counter of the state runs past what it is compared with.
TypeOK ==
  /\ clock \in Nat /\ boot \in Nat /\ source \in Sources
  /\ log \in Seq([t : Nat, boot : Nat, unit : Units]) /\ Len(log) <= MaxLines
  /\ file \in States /\ st \in States /\ events \subseteq Events
  /\ row \in [t : Nat, boot : Nat, gap : Nat, zeros : Nat, from : Nat]
  /\ outbox \in Seq(SUBSET Lines) /\ Len(outbox) <= OutboxMax
  /\ told \subseteq Lines /\ binned \subseteq Lines /\ cut \subseteq Lines
  /\ sums \in BOOLEAN /\ pc \in Up \cup {"off", "stopped", "done"}
  /\ todo \in Seq(Hits) /\ (todo # <<>> => pc \in {"sampled", "checked"})
  /\ mailDown \in BOOLEAN /\ faults \in [FaultKinds -> Nat]

\* The state the next read of the logs goes by: that in memory, but as long
\* as hits are to be recorded the one a restart would load.
Current == IF pc \in Up /\ todo = <<>> THEN st ELSE file
Passed(i) == i \notin Unread(Current, log[i].unit)

InLog == LinesOf(events)
InPending(s) == UNION {Quoted(s.pending[k]) : k \in ToSet(Keys)}
InMail == told \cup binned \cup (UNION ToSet(outbox)) \cup InPending(Current)

\* Known holes. A log that was unreadable while there was no cursor is not
\* read again for that time; for the kernel log a K8 event tells so, for
\* n5-fangov nothing does. kmsg counts anew after a reboot, the cursor stays.
KnownHole(i) ==
  IF log[i].unit = "kernel"
  THEN (\E e \in events : e.key = "K8") \/ (source = "kmsg" /\ boot > 1)
  ELSE faults["journal"] > 0 \/ source = "kmsg"

\* A line that no read will return again is quoted or counted in events.log:
\* neither a death between a read, its events and the save of its cursor,
\* nor a flood beyond K1Max loses one.
HitsKept == \A i \in DOMAIN log : Passed(i) => i \in InLog \/ KnownHole(i)

\* Such a line is also quoted or counted in a mail that went out, is queued
\* or was dropped, or in the pending alerts of the state a restart would
\* load; only a queue of PendingMax lines or a mail of MailMax leaves it out.
HitsMailed == \A i \in DOMAIN log : Passed(i) => i \in InMail \cup cut \/ KnownHole(i)

\* A finished run has every line from before its end: the last check comes
\* after the end of the run, whatever happened before.
FinalCheck ==
  file.finished => \A i \in DOMAIN log : log[i].t < file.end => i \in InLog \/ KnownHole(i)

\* The events of a row are on record.
RebootTold == row.boot > 1 => \E e \in events : e.key = "K2" /\ e.boot = row.boot
GapTold == row.gap > 0 => \E e \in events : e.key = "K5" /\ e.t >= row.gap

\* A death between a row and its events costs neither the reboot (K2) nor the
\* gap (K5) that the row shows: they are reported with this row or the next
\* one, before any state counts the row as seen. Reboots in between become
\* one, and a run whose first pass never reached the save of its state has
\* nothing to measure a gap from.
BreaksReported ==
  \A s \in {file, Current} : s.last = row.t /\ s.boot = row.boot => RebootTold /\ GapTold

\* The logger comes to its end: the run is finished or an operator stopped
\* the unit. No pass hangs in its mails, no restart loops.
RunEnds == <>[](pc \in {"done", "stopped"})

=============================================================================
