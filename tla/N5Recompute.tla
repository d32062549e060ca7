----------------------------- MODULE N5Recompute -----------------------------
(***************************************************************************)
(* n5-ectest report: the verdicts of a bundle recomputed from its samples, *)
(* events and meta.json, and compared with the stored ones. The run that   *)
(* writes the bundle is N5Runner; the report may be asked for at any time. *)
(* Evaluations are compared by the data they are made from.                *)
(***************************************************************************)
EXTENDS N5Runner

InPhase(ph) == Rows(ph)
HasEvent(text) == \E i \in DOMAIN events : events[i].e = text

\* writeTS(): the time of the first write of duty d, of the lines that have one.
WriteTS(d) ==
  Those(events, {i \in DOMAIN events : events[i].ts >= 0 /\ events[i].e = WriteOf(d)})[1].ts

Timed(q, from) == [i \in DOMAIN q |-> [t |-> q[i].ts - from, odd |-> q[i].odd]]

recomputeT1 ==
  IF ~HasEvent(T1Complete) THEN Inconclusive
  ELSE [v |-> EvalT1(InPhase(Rest),
              [i \in DOMAIN T1Steps |->
                 Timed(InPhase(Phase("step", 0, T1Steps[i])), WriteTS(T1Steps[i]))]),
        runs |-> <<>>]

AutoEvents ==
  LET texts == {AutoOf(SubRuns[i][1], SubRuns[i][2]) : i \in DOMAIN SubRuns} IN
  Those(events, {i \in DOMAIN events : events[i].ts >= 0 /\ events[i].e \in texts})

\* One sub-run for every auto event of a sub-run, in the order of the log.
recomputeT2 ==
  LET pre == Series(InPhase(A))
      Of(e) ==
        LET log == InPhase(Phase("log", e.e[2], e.e[3])) IN
        [rep |-> e.e[2],
         res |-> SubResult(e.e[3], AutoValue(pre),
                   MarkCrossing(InPhase(A), InPhase(Phase("hold", e.e[2], e.e[3])) \o log),
                   Timed(log, e.ts))] IN
  IF ch = PCIeChannel THEN NotApplicable
  ELSE IF pre = <<>> THEN Inconclusive
  ELSE FinishHandback(AutoValue(pre), RunsOf([i \in DOMAIN AutoEvents |-> Of(AutoEvents[i])]), abort)

Recomputed == IF test = "map" THEN recomputeT1 ELSE recomputeT2

\* compareTests(), compareRuns(): a stored verdict that is missing differs.
SameVerdict == verdict = <<Recomputed>>

\* A gate that failed because its window was cut off is not compared.
GateCompared(g) == gates[g] \in {"PASS", "FAIL"}

checkGates ==
  \A g \in {"G3", "G4"} :
    GateCompared(g) =>
      LET rows == InPhase(Gate) IN
      /\ rows # <<>>
      /\ gates[g] = IF g = "G3" THEN G3(rows[1]) ELSE EvalG4(rows)

\* Without a meta.json, or with the provisional one, nothing is recomputed.
Judged == meta = "final"

\* Seeded fault: a missing or stale SHA256SUMS is not looked at.
ReportCleanNoSums == Judged /\ checkGates /\ SameVerdict

\* The report ends with 0: nothing differs and the checksums are there.
ReportClean == Judged /\ checkGates /\ SameVerdict /\ sums

-----------------------------------------------------------------------------
(* Properties.                                                             *)

\* A clean report means that the bundle was closed after its last line: by a run
\* that came to its end, or by the guardian that restored after a worker that got as
\* far as its verdict. A worker that was killed, at whatever step, panicked or is
\* still running has no clean report of its own.
CleanMeansFinished == ReportClean => pc = "end" \/ guarded

\* The report agrees with every run that came to its end and could write its
\* files, aborted ones included: runner and report build the same tests, sub-runs
\* and gates from what one saw and the other reads.
FinishedIsClean ==
  pc = "end" /\ meta = "final" /\ verdict # <<>> /\ sums => ReportClean
=============================================================================
