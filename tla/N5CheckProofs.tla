---------------------------- MODULE N5CheckProofs ----------------------------
(***************************************************************************)
(* Proofs about N5Check, for any lengths of gap and cooldown, any number   *)
(* of annotating operators, and without a use of the bounds.               *)
(*                                                                         *)
(* The invariant has a part for every property: Rows (no false alarm),     *)
(* Summing (SHA256SUMS) and Mails (once per hour).                         *)
(***************************************************************************)
EXTENDS N5Check, TLAPS

States == {<<>>} \cup {<<s>> : s \in [last : Nat, finished : BOOLEAN]}
Jsons  == {<<>>} \cup {<<r>> : r \in [Kinds -> Nat]}
CheckStates ==
  [pc : {"idle", "load", "decide", "mail", "write"}, now : Nat, began : Nat, last : Nat,
   read : [Kinds -> Nat], mail : {"no"} \cup Kinds]

Types ==
  /\ clock \in Nat /\ clock > Cooldown /\ up \in BOOLEAN /\ row \in Nat /\ dies \in Nat
  /\ state \in States /\ (up => state # <<>>) /\ json \in Jsons /\ notes \in Nat
  /\ pc \in [Summers -> {"idle", "ready", "stat", "hash"}]
  /\ hash \in [Summers -> Seq(Nat \cup Jsons)]
  /\ check \in [Checks -> CheckStates] /\ told \in [Kinds -> Nat]
  /\ torn \in BOOLEAN /\ crossed \in BOOLEAN

\* What a check knows of the rows is true of the time it began or later.
Rows ==
  /\ row <= clock
  /\ \A k \in Checks : check[k].pc # "idle" => check[k].now = clock /\ check[k].began <= row
  /\ \A k \in Checks : check[k].pc = "decide" => check[k].began <= check[k].last
  /\ NoFalseAlarm

\* A list that is being made fits so far, and one that does not is being made again.
Summing ==
  /\ \A p \in Summers : hash[p] # <<>> => pc[p] = "hash"
  /\ \A p \in Annotators : pc[p] = "hash" => sums # <<>>
  /\ sums # <<>> \/ pc[Logger] = "hash" => ~up /\ state # <<>> /\ state[1].finished
  /\ sums # <<>> => pc[Logger] # "hash"
  /\ \A p \in Summers :
       ~crossed => /\ Len(hash[p]) >= 1 => hash[p][1] = notes
                   /\ Len(hash[p]) >= 2 => hash[p][2] = json
  /\ sums # <<>> /\ ~crossed => VerifySums \/ \E p \in Annotators : pc[p] \in {"stat", "hash"}

\* check.json is never ahead of the mails that were tried; for the mails of a check
\* that is not just writing it is level with them, unless it was torn.
KindOf(k) == IF k = "failed" THEN "failed" ELSE "stale"
InFile == IF json = <<>> THEN NoMail ELSE json[1]
Mails ==
  /\ \A j \in Kinds : InFile[j] <= told[j] /\ told[j] <= clock
  /\ \A k \in Checks : check[k].pc \in {"mail", "write"} =>
       \A j \in Kinds : check[k].read[j] <= told[j]
  /\ \A k \in Checks : check[k].pc = "mail" => check[k].mail = KindOf(k)
  /\ \A k \in Checks : ~torn /\ check[k].pc # "write" => InFile[KindOf(k)] = told[KindOf(k)]

IInv == Types /\ Rows /\ Summing /\ Mails

\* A list of two files is its two entries.
LEMMA TwoEntries ==
  ASSUME NEW S, NEW s \in Seq(S), Len(s) = 2
  PROVE  s = <<s[1], s[2]>>
OBVIOUS

LEMMA SummedLen == Len(Summed) = 2 /\ Summed[1] = "annotations" /\ Summed[2] = "check"
BY DEF Summed

LEMMA InFileType == Types => InFile \in [Kinds -> Nat]
BY DEF Types, InFile, Jsons, NoMail, Kinds

\* What is in a state file and in check.json.
LEMMA OneEntry ==
  ASSUME NEW S, NEW x \in {<<>>} \cup {<<r>> : r \in S}, x # <<>>
  PROVE  x[1] \in S /\ x = <<x[1]>>
OBVIOUS

LEMMA Entry ==
  ASSUME NEW r
  PROVE  <<r>> # <<>> /\ <<r>>[1] = r
OBVIOUS

LEMMA StateType == Types /\ state # <<>> => state[1] \in [last : Nat, finished : BOOLEAN]
  <1> SUFFICES ASSUME Types, state # <<>> PROVE state[1] \in [last : Nat, finished : BOOLEAN]
    OBVIOUS
  <1> QED
    BY OneEntry DEF Types, States

LEMMA LastSampleBound == Types /\ state # <<>> => LastSample \in Nat /\ LastSample >= row
BY StateType DEF Types, LastSample

-----------------------------------------------------------------------------
\* Types.
LEMMA TypesInit == Init => Types
  <1> SUFFICES ASSUME Init PROVE Types
    OBVIOUS
  <1>1. IdleCheck \in CheckStates
    BY DEF IdleCheck, CheckStates, NoMail, Kinds
  <1>2. told \in [Kinds -> Nat] /\ clock \in Nat /\ clock > Cooldown
    BY CheckAssumption DEF Init, NoMail, Start
  <1>3. pc \in [Summers -> {"idle", "ready", "stat", "hash"}] /\ hash \in [Summers -> Seq(Nat \cup Jsons)]
    BY DEF Init
  <1> QED
    BY <1>1, <1>2, <1>3 DEF Init, Types, States, Jsons

LEMMA LoggerSums == Logger \in Summers
BY DEF Summers

LEMMA TypesLogger == Types /\ LoggerStep => Types'
  <1> SUFFICES ASSUME Types, LoggerStep PROVE Types'
    OBVIOUS
  <1> USE DEF Types, logger, record
  <1>1. CASE LoggerStarts
    <2>0. [NoState EXCEPT !.last = clock] \in [last : Nat, finished : BOOLEAN]
      BY DEF NoState
    <2>3. ASSUME NEW s \in [last : Nat, finished : BOOLEAN]
          PROVE  <<s>> \in States /\ <<s>> # <<>>
      BY DEF States
    <2>1. state' \in States /\ state' # <<>>
      <3>1. CASE state = <<>>
        BY <1>1, <3>1, <2>0, <2>3 DEF LoggerStarts
      <3>2. CASE state # <<>>
        BY <1>1, <3>2 DEF LoggerStarts
      <3> QED
        BY <3>1, <3>2
    <2>2. UNCHANGED <<clock, row, dies, json, notes, pc, hash, check, told, torn, crossed>> /\ up' = TRUE
      BY <1>1 DEF LoggerStarts
    <2> QED
      BY <2>1, <2>2
  <1>2. CASE Row
    BY <1>2 DEF Row
  <1>3. CASE SaveState
    <2>1. [state[1] EXCEPT !.last = row] \in [last : Nat, finished : BOOLEAN]
      BY <1>3, StateType DEF SaveState
    <2>2. state' \in States /\ state' # <<>>
      BY <1>3, <2>1 DEF SaveState, States
    <2> QED
      BY <1>3, <2>2 DEF SaveState
  <1>4. CASE LoggerDies
    <2>1. pc' \in [Summers -> {"idle", "ready", "stat", "hash"}]
      BY <1>4 DEF LoggerDies
    <2>2. hash' \in [Summers -> Seq(Nat \cup Jsons)]
      BY <1>4, LoggerSums DEF LoggerDies
    <2>3. dies' \in Nat
      BY <1>4 DEF LoggerDies
    <2> QED
      BY <1>4, <2>1, <2>2, <2>3 DEF LoggerDies
  <1>5. CASE LoggerFinishes
    <2>1. state' \in States
      BY <1>5 DEF LoggerFinishes, States
    <2> QED
      BY <1>5, <2>1 DEF LoggerFinishes, Summers
  <1> QED
    BY <1>1, <1>2, <1>3, <1>4, <1>5 DEF LoggerStep

LEMMA TypesRecord ==
  ASSUME Types, NEW p \in Summers, HashOne(p) \/ PutSums(p) \/ Annotate(p) \/ StatSums(p)
  PROVE  Types'
  <1> USE DEF Types, logger, record
  <1>1. CASE HashOne(p)
    <2>1. \A f : Content(f) \in Nat \cup Jsons
      BY DEF Content
    <2>2. Append(hash[p], Content(Summed[Len(hash[p]) + 1])) \in Seq(Nat \cup Jsons)
      BY <2>1
    <2>3. hash' \in [Summers -> Seq(Nat \cup Jsons)]
      BY <1>1, <2>2 DEF HashOne
    <2> QED
      BY <1>1, <2>3 DEF HashOne
  <1>2. CASE PutSums(p)
    BY <1>2 DEF PutSums
  <1>3. CASE Annotate(p)
    BY <1>3 DEF Annotate, AddNote, Hashed
  <1>4. CASE StatSums(p)
    BY <1>4 DEF StatSums, AfterAnnotation
  <1> QED
    BY <1>1, <1>2, <1>3, <1>4

LEMMA IdleType == IdleCheck \in CheckStates
BY DEF IdleCheck, CheckStates, NoMail, Kinds

LEMMA MailType ==
  ASSUME NEW k \in Checks, NEW c, NEW r
  PROVE  MailOf(k, c, r) \in {"no", KindOf(k)}
BY DEF MailOf, KindOf

LEMMA TypesCheck ==
  ASSUME Types, NEW k \in Checks, CheckStep(k)
  PROVE  Types'
  <1> USE DEF Types, logger, record
  <1>0. check[k] \in CheckStates
    OBVIOUS
  <1>1. CASE CheckStarts(k)
    <2>1. [IdleCheck EXCEPT !.pc = "load", !.now = clock, !.began = row] \in CheckStates
      BY IdleType DEF CheckStates
    <2>2. check' \in [Checks -> CheckStates]
      BY <1>1, <2>1 DEF CheckStarts
    <2> QED
      BY <1>1, <2>2 DEF CheckStarts
  <1>2. CASE LoadState(k)
    <2>1. CASE Ends(k)
      BY <1>2, <2>1, IdleType DEF LoadState, Ends
    <2>2. CASE ~Ends(k)
      <3>1. state # <<>> /\ check' = [check EXCEPT ![k].pc = "decide", ![k].last = LastSample]
        BY <1>2, <2>2 DEF LoadState
      <3>2. [check[k] EXCEPT !.pc = "decide", !.last = LastSample] \in CheckStates
        BY <1>0, <3>1, LastSampleBound DEF CheckStates
      <3> QED
        BY <1>2, <3>1, <3>2 DEF LoadState
    <2> QED
      BY <2>1, <2>2
  <1>3. CASE Decide(k)
    <2> DEFINE mail == MailOf(k, check[k], InFile)
               next == [check[k] EXCEPT !.pc = IF mail = "no" THEN "write" ELSE "mail",
                                        !.read = InFile, !.mail = mail, !.last = 0]
    <2>1. check' = [check EXCEPT ![k] = IdleCheck] \/ check' = [check EXCEPT ![k] = next]
      BY <1>3 DEF Decide, Ends, InFile
    <2>2. mail \in {"no"} \cup Kinds
      BY MailType DEF KindOf, Kinds
    <2>3. next \in CheckStates
      BY <1>0, <2>2, InFileType DEF CheckStates
    <2>4. check' \in [Checks -> CheckStates]
      <3> HIDE DEF next
      <3> QED
        BY <2>1, <2>3, IdleType
    <2> QED
      BY <1>3, <2>4 DEF Decide
  <1>4. CASE SendMail(k)
    <2>1. [check[k] EXCEPT !.pc = "write", !.read = [@ EXCEPT ![check[k].mail] = check[k].now]] \in CheckStates
      BY <1>0 DEF CheckStates
    <2>2. check' \in [Checks -> CheckStates]
      BY <1>4, <2>1 DEF SendMail
    <2>3. told' \in [Kinds -> Nat]
      BY <1>0, <1>4 DEF SendMail, CheckStates
    <2> QED
      BY <1>4, <2>2, <2>3 DEF SendMail
  <1>5. CASE WriteCheck(k)
    <2>1. json' \in Jsons
      BY <1>0, <1>5 DEF WriteCheck, Jsons, CheckStates
    <2> QED
      BY <1>5, <2>1, IdleType DEF WriteCheck, Ends, Hashed
  <1>6. CASE CheckKilled(k)
    BY <1>6, IdleType DEF CheckKilled, Ends
  <1> QED
    BY <1>1, <1>2, <1>3, <1>4, <1>5, <1>6 DEF CheckStep

LEMMA TypesNext == Types /\ [Next]_vars => Types'
  <1> SUFFICES ASSUME Types, [Next]_vars PROVE Types'
    OBVIOUS
  <1>1. CASE Tick
    BY <1>1, CheckAssumption DEF Tick, Types, logger, record
  <1>2. CASE UNCHANGED vars
    BY <1>2 DEF vars, Types, logger, record
  <1> QED
    BY <1>1, <1>2, TypesLogger, TypesRecord, TypesCheck DEF Next, Summers

-----------------------------------------------------------------------------
\* Rows.
LEMMA RowsKept ==
  ASSUME Types, Rows, NEW k \in Checks, NEW c, check' = [check EXCEPT ![k] = c],
         UNCHANGED <<clock, row>>,
         c.pc # "idle" => c.now = clock /\ c.began <= row,
         c.pc = "decide" => c.began <= c.last,
         c.pc = "mail" /\ c.mail = "stale" => c.now - c.began > Gap
  PROVE  Rows'
  <1>1. \A q \in Checks : check'[q] = (IF q = k THEN c ELSE check[q])
    BY DEF Types
  <1> QED
    BY <1>1 DEF Rows, NoFalseAlarm

LEMMA RowsNext == Types /\ Rows /\ [Next]_vars => Rows'
  <1> SUFFICES ASSUME Types, Rows, [Next]_vars PROVE Rows'
    OBVIOUS
  <1> USE DEF logger, record
  <1>0. \A k \in Checks : check[k] \in CheckStates
    BY DEF Types
  <1>1. CASE Tick
    BY <1>0, <1>1 DEF Tick, Types, Rows, NoFalseAlarm, CheckStates
  <1>2. CASE LoggerStep
    <2>1. UNCHANGED <<clock, check>> /\ row <= row' /\ row' <= clock /\ row' \in Nat
      BY <1>2 DEF LoggerStep, LoggerStarts, Row, SaveState, LoggerDies, LoggerFinishes, Types, Rows
    <2> QED
      BY <1>0, <2>1 DEF Types, Rows, NoFalseAlarm, CheckStates
  <1>3. ASSUME NEW p \in Summers, HashOne(p) \/ PutSums(p) \/ Annotate(p) \/ StatSums(p) PROVE Rows'
    BY <1>3 DEF HashOne, PutSums, Annotate, StatSums, Rows, NoFalseAlarm
  <1>4. ASSUME NEW k \in Checks, CheckStep(k) PROVE Rows'
    <2>0. UNCHANGED <<clock, row>>
      BY <1>4 DEF CheckStep, CheckStarts, LoadState, Decide, SendMail, WriteCheck, CheckKilled
    <2>1. CASE CheckStarts(k)
      BY <1>0, <2>0, <2>1 DEF CheckStarts, Types, Rows, NoFalseAlarm, CheckStates, IdleCheck
    <2>2. CASE LoadState(k)
      <3>1. CASE Ends(k)
        BY <2>0, <3>1, RowsKept DEF Ends, IdleCheck
      <3>2. CASE ~Ends(k)
        <4> DEFINE next == [check[k] EXCEPT !.pc = "decide", !.last = LastSample]
        <4>1. state # <<>> /\ check[k].pc = "load" /\ check' = [check EXCEPT ![k] = next]
          BY <2>2, <3>2 DEF LoadState
        <4>2. next.pc = "decide" /\ next.now = check[k].now /\ next.began = check[k].began
              /\ next.last = LastSample
          BY <1>0 DEF CheckStates
        <4>3. next.now = clock /\ next.began <= row /\ check[k].began \in Nat
          BY <1>0, <4>1, <4>2 DEF Rows, CheckStates
        <4>4. next.began <= next.last
          BY <4>1, <4>2, <4>3, LastSampleBound DEF Types
        <4> HIDE DEF next
        <4> QED
          BY <2>0, <4>1, <4>2, <4>3, <4>4, RowsKept
      <3> QED
        BY <3>1, <3>2
    <2>3. CASE Decide(k)
      <3> DEFINE mail == MailOf(k, check[k], InFile)
                 next == [check[k] EXCEPT !.pc = IF mail = "no" THEN "write" ELSE "mail",
                                          !.read = InFile, !.mail = mail, !.last = 0]
      <3>1. check' = [check EXCEPT ![k] = IdleCheck] \/ check' = [check EXCEPT ![k] = next]
        BY <2>3 DEF Decide, Ends, InFile
      <3>2. mail = "stale" => check[k].now - check[k].last > Gap
        BY DEF MailOf, Stale
      <3>3. check[k].pc = "decide"
        BY <2>3 DEF Decide
      <3>4. Gap \in Int /\ check[k].now \in Int /\ check[k].last \in Int /\ check[k].began \in Int
        BY <1>0, CheckAssumption DEF CheckStates
      <3>5. mail = "stale" => check[k].now - check[k].began > Gap
        BY <3>2, <3>3, <3>4 DEF Rows
      <3>6. next.pc \in {"write", "mail"} /\ next.now = check[k].now /\ next.began = check[k].began
            /\ next.mail = mail
        BY <1>0 DEF CheckStates
      <3> HIDE DEF mail, next
      <3> QED
        <4>1. CASE check' = [check EXCEPT ![k] = IdleCheck]
          BY <2>0, <4>1, RowsKept DEF IdleCheck
        <4>2. CASE check' = [check EXCEPT ![k] = next]
          <5>1. next.now = clock /\ next.began <= row
            BY <3>3, <3>6 DEF Rows
          <5> QED
            BY <2>0, <3>5, <3>6, <4>2, <5>1, RowsKept
        <4> QED
          BY <3>1, <4>1, <4>2
    <2>4. CASE SendMail(k)
      BY <1>0, <2>0, <2>4 DEF SendMail, Types, Rows, NoFalseAlarm, CheckStates
    <2>5. CASE Ends(k)
      BY <1>0, <2>0, <2>5 DEF Ends, Types, Rows, NoFalseAlarm, IdleCheck
    <2> QED
      BY <1>4, <2>1, <2>2, <2>3, <2>4, <2>5 DEF CheckStep, WriteCheck, CheckKilled
  <1>5. CASE UNCHANGED vars
    BY <1>5 DEF vars, Rows, NoFalseAlarm
  <1> QED
    BY <1>1, <1>2, <1>3, <1>4, <1>5 DEF Next, Summers

-----------------------------------------------------------------------------
\* Mails.
LEMMA KindsDiffer == \A k, q \in Checks : KindOf(k) \in Kinds /\ (KindOf(k) = KindOf(q) => k = q)
BY DEF KindOf, Checks, Kinds

LEMMA MailsNext == Types /\ Rows /\ Mails /\ [Next]_vars => Mails'
  <1> SUFFICES ASSUME Types, Rows, Mails, [Next]_vars PROVE Mails'
    OBVIOUS
  <1> USE DEF logger, record
  <1>0. \A k \in Checks : check[k] \in CheckStates
    BY DEF Types
  <1>1. CASE UNCHANGED <<json, check, told, torn>> /\ clock' \in Nat /\ clock' >= clock
    <2>1. InFile' = InFile
      BY <1>1 DEF InFile
    <2> QED
      BY <1>1, <2>1, InFileType DEF Mails, Types
  <1>2. CASE Tick
    BY <1>1, <1>2 DEF Tick, Types
  <1>3. CASE LoggerStep
    BY <1>1, <1>3 DEF LoggerStep, LoggerStarts, Row, SaveState, LoggerDies, LoggerFinishes, Types
  <1>4. ASSUME NEW p \in Summers, HashOne(p) \/ PutSums(p) \/ Annotate(p) \/ StatSums(p) PROVE Mails'
    BY <1>1, <1>4 DEF HashOne, PutSums, Annotate, StatSums, Types
  <1>5. ASSUME NEW k \in Checks, CheckStep(k) PROVE Mails'
    <2>0. InFile \in [Kinds -> Nat] /\ told \in [Kinds -> Nat] /\ clock \in Nat /\ clock' = clock
      BY <1>5, InFileType DEF Types, CheckStep, CheckStarts, LoadState, Decide, SendMail, WriteCheck, CheckKilled
    <2>1. ASSUME NEW c, check' = [check EXCEPT ![k] = c], c.pc \notin {"mail", "write"},
                 check[k].pc # "write", UNCHANGED <<json, told, torn>>
          PROVE  Mails'
      <3>1. InFile' = InFile
        BY <2>1 DEF InFile
      <3> QED
        BY <2>0, <2>1, <3>1 DEF Mails, Types
    <2>2. CASE CheckStarts(k)
      BY <1>0, <2>1, <2>2 DEF CheckStarts, IdleCheck
    <2>3. CASE LoadState(k)
      <3>1. CASE Ends(k)
        BY <2>1, <2>3, <3>1 DEF LoadState, Ends, IdleCheck
      <3>2. CASE check' = [check EXCEPT ![k].pc = "decide", ![k].last = LastSample]
        <4> DEFINE next == [check[k] EXCEPT !.pc = "decide", !.last = LastSample]
        <4>1. check' = [check EXCEPT ![k] = next]
          BY <3>2
        <4>2. next.pc = "decide"
          BY <1>0 DEF CheckStates
        <4>3. UNCHANGED <<json, told, torn>> /\ check[k].pc # "write"
          BY <2>3 DEF LoadState
        <4> HIDE DEF next
        <4> QED
          BY <2>1, <4>1, <4>2, <4>3
      <3> QED
        BY <2>3, <3>1, <3>2 DEF LoadState
    <2>4. CASE Decide(k)
      <3> DEFINE mail == MailOf(k, check[k], InFile)
                 next == [check[k] EXCEPT !.pc = IF mail = "no" THEN "write" ELSE "mail",
                                          !.read = InFile, !.mail = mail, !.last = 0]
      <3>1. check' = [check EXCEPT ![k] = IdleCheck] \/ check' = [check EXCEPT ![k] = next]
        BY <2>4 DEF Decide, Ends, InFile
      <3>2. mail \in {"no", KindOf(k)}
        BY MailType
      <3>3. next.pc = (IF mail = "no" THEN "write" ELSE "mail") /\ next.read = InFile /\ next.mail = mail
        BY <1>0 DEF CheckStates
      <3>4. InFile' = InFile /\ UNCHANGED <<json, told, torn>> /\ check[k].pc = "decide"
        BY <2>4 DEF Decide, InFile
      <3>5. CASE check' = [check EXCEPT ![k] = IdleCheck]
        BY <2>1, <3>4, <3>5 DEF IdleCheck
      <3>6. CASE check' = [check EXCEPT ![k] = next]
        <4> HIDE DEF mail, next
        <4> QED
          BY <2>0, <3>2, <3>3, <3>4, <3>6 DEF Mails, Types
      <3> QED
        BY <3>1, <3>5, <3>6
    <2>5. CASE SendMail(k)
      <3> DEFINE kind == KindOf(k)
                 next == [check[k] EXCEPT !.pc = "write", !.read = [@ EXCEPT ![kind] = clock]]
      <3>1. check[k].pc = "mail" /\ check[k].mail = kind /\ check[k].now = clock
        BY <2>5 DEF SendMail, Mails, Rows
      <3>2. check' = [check EXCEPT ![k] = next] /\ told' = [told EXCEPT ![kind] = clock]
            /\ UNCHANGED <<json, torn>>
        BY <1>0, <2>5, <3>1 DEF SendMail, CheckStates
      <3>3. InFile' = InFile
        BY <3>2 DEF InFile
      <3>4. next.pc = "write" /\ next.read = [check[k].read EXCEPT ![kind] = clock]
            /\ check[k].read \in [Kinds -> Nat]
        BY <1>0 DEF CheckStates
      <3>5. kind \in Kinds /\ \A q \in Checks : KindOf(q) = kind => q = k
        BY KindsDiffer
      <3>6. \A j \in Kinds : told'[j] = (IF j = kind THEN clock ELSE told[j])
        BY <2>0, <3>2, <3>5
      <3>7. \A j \in Kinds : next.read[j] = (IF j = kind THEN clock ELSE check[k].read[j])
        BY <3>4, <3>5
      <3>8. \A q \in Checks : check'[q] = (IF q = k THEN next ELSE check[q])
        BY <3>2 DEF Types
      <3> HIDE DEF kind, next
      <3>9. \A j \in Kinds : told[j] \in Nat /\ told[j] <= told'[j] /\ told'[j] <= clock
        BY <2>0, <3>6 DEF Mails
      <3>10. \A j \in Kinds : InFile'[j] <= told'[j] /\ told'[j] <= clock'
        BY <2>0, <3>3, <3>6, <3>9 DEF Mails
      <3>11. ASSUME NEW q \in Checks, check'[q].pc \in {"mail", "write"}, NEW j \in Kinds
             PROVE  check'[q].read[j] <= told'[j]
        <4>1. CASE q = k
          BY <2>0, <3>1, <3>6, <3>7, <3>8, <4>1 DEF Mails
        <4>2. CASE q # k
          <5>1. check[q].read[j] <= told[j] /\ check[q].read[j] \in Nat
            BY <1>0, <3>8, <3>11, <4>2 DEF Mails, CheckStates
          <5> QED
            BY <2>0, <3>6, <3>8, <3>9, <4>2, <5>1
        <4> QED
          BY <4>1, <4>2
      <3>12. \A q \in Checks : check'[q].pc = "mail" => check'[q].mail = KindOf(q)
        BY <3>4, <3>8 DEF Mails
      <3>13. ASSUME NEW q \in Checks, ~torn', check'[q].pc # "write"
             PROVE  InFile'[KindOf(q)] = told'[KindOf(q)]
        <4>1. q # k
          BY <3>4, <3>8, <3>13
        <4>2. InFile[KindOf(q)] = told[KindOf(q)] /\ KindOf(q) # kind /\ KindOf(q) \in Kinds
          BY <3>2, <3>5, <3>8, <3>13, <4>1, KindsDiffer DEF Mails
        <4> QED
          BY <3>3, <3>6, <4>2
      <3> QED
        BY <3>10, <3>11, <3>12, <3>13 DEF Mails
    <2>6. CASE WriteCheck(k)
      <3>1. check[k].pc = "write" /\ check[k].read \in [Kinds -> Nat]
            /\ json' \in {json, <<check[k].read>>} /\ UNCHANGED told
            /\ torn' = (torn \/ json' # <<told>>) /\ check' = [check EXCEPT ![k] = IdleCheck]
        BY <1>0, <2>6 DEF WriteCheck, Ends, CheckStates
      <3>2. InFile' = InFile \/ InFile' = check[k].read
        <4>1. CASE json' = json
          BY <4>1 DEF InFile
        <4>2. CASE json' = <<check[k].read>>
          BY <4>2, Entry DEF InFile
        <4> QED
          BY <3>1, <4>1, <4>2
      <3>3. ~torn' => InFile' = told
        <4>1. json' = <<told>> => InFile' = told
          BY Entry DEF InFile
        <4> QED
          BY <3>1, <4>1
      <3>4. \A q \in Checks : check'[q] = (IF q = k THEN IdleCheck ELSE check[q])
        BY <3>1 DEF Types
      <3>5. \A j \in Kinds : InFile'[j] <= told'[j] /\ told'[j] <= clock'
        BY <2>0, <3>1, <3>2 DEF Mails
      <3>6. IdleCheck.pc = "idle"
        BY DEF IdleCheck
      <3> QED
        BY <3>1, <3>3, <3>4, <3>5, <3>6 DEF Mails
    <2>7. CASE CheckKilled(k)
      <3>1. torn' = TRUE /\ check' = [check EXCEPT ![k] = IdleCheck] /\ UNCHANGED <<json, told>>
        BY <2>7 DEF CheckKilled, Ends
      <3>2. InFile' = InFile
        BY <3>1 DEF InFile
      <3> QED
        BY <2>0, <3>1, <3>2 DEF Mails, Types, IdleCheck
    <2> QED
      BY <1>5, <2>2, <2>3, <2>4, <2>5, <2>6, <2>7 DEF CheckStep
  <1>6. CASE UNCHANGED vars
    BY <1>1, <1>6 DEF vars, Types
  <1> QED
    BY <1>2, <1>3, <1>4, <1>5, <1>6 DEF Next, Summers

-----------------------------------------------------------------------------
\* Summing.
LEMMA ContentIs == Content("annotations") = notes /\ Content("check") = json
BY DEF Content

\* The next entry of a list is that of the next file.
LEMMA NextEntry ==
  ASSUME Types, NEW p \in Summers, Len(hash[p]) < 2,
         ~crossed => /\ Len(hash[p]) >= 1 => hash[p][1] = notes
                     /\ Len(hash[p]) >= 2 => hash[p][2] = json,
         NEW h, h = Append(hash[p], Content(Summed[Len(hash[p]) + 1]))
  PROVE  ~crossed => /\ Len(h) >= 1 => h[1] = notes
                     /\ Len(h) >= 2 => h[2] = json
  <1>1. hash[p] \in Seq(Nat \cup Jsons) /\ Len(hash[p]) \in Nat
    BY DEF Types
  <1>2. \A f : Content(f) \in Nat \cup Jsons
    BY DEF Content, Types
  <1>3. Len(h) = Len(hash[p]) + 1 /\ h[Len(hash[p]) + 1] = Content(Summed[Len(hash[p]) + 1])
        /\ \A i \in 1..Len(hash[p]) : h[i] = hash[p][i]
    BY <1>1, <1>2
  <1>4. CASE Len(hash[p]) = 0
    BY <1>3, <1>4, SummedLen, ContentIs
  <1>5. CASE Len(hash[p]) = 1
    BY <1>3, <1>5, SummedLen, ContentIs
  <1>6. \A n \in Nat : n < 2 => n = 0 \/ n = 1
    OBVIOUS
  <1> QED
    BY <1>1, <1>4, <1>5, <1>6

LEMMA ListFits ==
  ASSUME Types, NEW p \in Summers, Len(hash[p]) = 2, hash[p][1] = notes, hash[p][2] = json
  PROVE  hash[p] = [i \in DOMAIN Summed |-> Content(Summed[i])]
  <1>1. hash[p] \in Seq(Nat \cup Jsons)
    BY DEF Types
  <1>2. hash[p] = [i \in 1..2 |-> hash[p][i]]
    BY <1>1
  <1>3. DOMAIN Summed = 1..2
    BY DEF Summed
  <1>4. \A i \in 1..2 : hash[p][i] = Content(Summed[i])
    BY SummedLen, ContentIs
  <1> QED
    BY <1>2, <1>3, <1>4

LEMMA SummingKept ==
  /\ Types /\ Summing /\ UNCHANGED <<notes, json, sums, pc, hash, crossed>>
  /\ up' => up \/ (sums = <<>> /\ pc[Logger] # "hash")
  /\ state # <<>> /\ state[1].finished => UNCHANGED state
  => Summing'
  <1> SUFFICES ASSUME Types, Summing, UNCHANGED <<notes, json, sums, pc, hash, crossed>>,
                      up' => up \/ (sums = <<>> /\ pc[Logger] # "hash"),
                      state # <<>> /\ state[1].finished => UNCHANGED state
               PROVE  Summing'
    OBVIOUS
  <1>1. VerifySums' = VerifySums
    BY DEF VerifySums, Content
  <1> QED
    BY <1>1 DEF Summing

LEMMA SummingLogger == Types /\ Summing /\ LoggerStep => Summing'
  <1> SUFFICES ASSUME Types, Summing, LoggerStep PROVE Summing'
    OBVIOUS
  <1> USE DEF logger, record
  <1>1. CASE LoggerStarts
    BY <1>1, SummingKept DEF LoggerStarts, Summing
  <1>2. CASE Row
    BY <1>2, SummingKept DEF Row
  <1>3. CASE SaveState
    BY <1>3, SummingKept DEF SaveState, Summing
  <1>4. CASE LoggerDies
    <2>1. VerifySums' = VerifySums
      BY <1>4 DEF LoggerDies, VerifySums, Content
    <2>2. \A p \in Summers : (p = Logger => pc'[p] = "idle" /\ hash'[p] = <<>>)
                             /\ (p # Logger => pc'[p] = pc[p] /\ hash'[p] = hash[p])
      BY <1>4 DEF LoggerDies, Types
    <2>3. \A p \in Annotators : p \in Summers /\ p # Logger
      BY CheckAssumption DEF Summers
    <2>4. UNCHANGED <<sums, state, crossed, notes, json>> /\ up' = FALSE
      BY <1>4 DEF LoggerDies
    <2>5. Len(<<>>) = 0
      OBVIOUS
    <2>6. pc'[Logger] = "idle"
      BY <2>2, LoggerSums
    <2> QED
      BY <2>1, <2>2, <2>3, <2>4, <2>5, <2>6 DEF Summing
  <1>5. CASE LoggerFinishes
    <2>1. sums = <<>> /\ pc[Logger] # "hash"
      BY <1>5 DEF LoggerFinishes, Summing
    <2>2. \A p \in Summers : pc'[p] = (IF p = Logger THEN "hash" ELSE pc[p])
      BY <1>5 DEF LoggerFinishes, Types
    <2>3. \A p \in Annotators : p \in Summers /\ p # Logger
      BY CheckAssumption DEF Summers
    <2>4. UNCHANGED <<sums, hash, crossed, notes, json>> /\ up' = FALSE /\ state' # <<>>
          /\ state'[1].finished
      BY <1>5 DEF LoggerFinishes
    <2> QED
      BY <2>1, <2>2, <2>3, <2>4 DEF Summing
  <1> QED
    BY <1>1, <1>2, <1>3, <1>4, <1>5 DEF LoggerStep

LEMMA SummingRecord ==
  ASSUME Types, Summing, NEW p \in Summers,
         HashOne(p) \/ PutSums(p) \/ (p \in Annotators /\ (Annotate(p) \/ StatSums(p)))
  PROVE  Summing'
  <1> USE DEF logger
  <1>0. \A q \in Annotators : q \in Summers /\ q # Logger
    BY CheckAssumption DEF Summers
  <1>1. CASE HashOne(p)
    <2>1. /\ pc[p] = "hash" /\ Len(hash[p]) < 2
          /\ hash' = [hash EXCEPT ![p] = Append(hash[p], Content(Summed[Len(hash[p]) + 1]))]
          /\ UNCHANGED <<up, state, json, notes, sums, pc, crossed>>
      BY <1>1, SummedLen DEF HashOne
    <2>2. ~crossed => /\ Len(hash'[p]) >= 1 => hash'[p][1] = notes
                      /\ Len(hash'[p]) >= 2 => hash'[p][2] = json
      BY <2>1, NextEntry DEF Summing, Types
    <2>3. \A q \in Summers : q # p => hash'[q] = hash[q]
      BY <2>1 DEF Types
    <2>4. VerifySums' = VerifySums
      BY <2>1 DEF VerifySums, Content
    <2> QED
      BY <2>1, <2>2, <2>3, <2>4 DEF Summing
  <1>2. CASE PutSums(p)
    <2>1. /\ pc[p] = "hash" /\ Len(hash[p]) = 2 /\ sums' = <<hash[p]>>
          /\ UNCHANGED <<up, state, json, notes, crossed>>
      BY <1>2, SummedLen DEF PutSums
    <2>2. \A q \in Summers : /\ pc'[q] = (IF q = p THEN "idle" ELSE pc[q])
                             /\ hash'[q] = (IF q = p THEN <<>> ELSE hash[q])
      BY <1>2 DEF PutSums, Types
    <2>3. sums' # <<>> /\ sums'[1] = hash[p]
      BY <2>1, Entry
    <2>4. sums # <<>> \/ pc[Logger] = "hash"
      BY <2>1, LoggerSums DEF Summing, Summers
    <2>5. ~up /\ state # <<>> /\ state[1].finished
      BY <2>4 DEF Summing
    <2>6. pc'[Logger] # "hash"
      BY <2>1, <2>2, LoggerSums DEF Summing, Summers
    <2>7. ~crossed => VerifySums'
      <3>1. ~crossed => hash[p] = [i \in DOMAIN Summed |-> Content(Summed[i])]
        BY <2>1, ListFits DEF Summing
      <3>2. \A f : Content(f)' = Content(f)
        BY <2>1 DEF Content
      <3> QED
        BY <2>3, <3>1, <3>2 DEF VerifySums
    <2>8. Len(<<>>) = 0
      OBVIOUS
    <2> QED
      BY <1>0, <2>1, <2>2, <2>3, <2>5, <2>6, <2>7, <2>8 DEF Summing
  <1>3. CASE p \in Annotators /\ Annotate(p)
    <2>1. /\ pc[p] = "ready" /\ crossed' = (crossed \/ Hashed(1))
          /\ UNCHANGED <<up, state, json, sums, hash>>
      BY <1>3 DEF Annotate
    <2>2. \A q \in Summers : pc'[q] = (IF q = p THEN "stat" ELSE pc[q])
      BY <1>3 DEF Annotate, Types
    <2>3. ~crossed' => ~crossed /\ \A q \in Summers : ~(Len(hash[q]) >= 1)
      BY <2>1 DEF Hashed
    <2>4. \A q \in Summers : Len(hash[q]) \in Nat
      BY DEF Types
    <2>5. \A q \in Summers : ~crossed' => ~(Len(hash'[q]) >= 1) /\ ~(Len(hash'[q]) >= 2)
      BY <2>1, <2>3, <2>4
    <2>6. hash[p] = <<>>
      BY <2>1 DEF Summing
    <2> QED
      BY <1>0, <1>3, <2>1, <2>2, <2>5, <2>6, LoggerSums DEF Summing
  <1>4. CASE p \in Annotators /\ StatSums(p)
    <2>1. /\ pc[p] = "stat" /\ UNCHANGED <<up, state, json, notes, sums, hash, crossed>>
      BY <1>4 DEF StatSums, record
    <2>2. \A q \in Summers :
            pc'[q] = (IF q = p THEN (IF sums = <<>> THEN "idle" ELSE "hash") ELSE pc[q])
      BY <1>4 DEF StatSums, AfterAnnotation, Types
    <2>3. VerifySums' = VerifySums
      BY <2>1 DEF VerifySums, Content
    <2>4. hash[p] = <<>>
      BY <2>1 DEF Summing
    <2> QED
      BY <1>0, <1>4, <2>1, <2>2, <2>3, <2>4, LoggerSums DEF Summing
  <1> QED
    BY <1>1, <1>2, <1>3, <1>4

LEMMA SummingCheck ==
  ASSUME Types, Summing, NEW k \in Checks, CheckStep(k)
  PROVE  Summing'
  <1> USE DEF logger, record
  <1>1. CASE WriteCheck(k)
    <2>1. /\ UNCHANGED <<up, state, notes, sums, pc, hash>>
          /\ crossed' = (crossed \/ (json' # json /\ (Hashed(2) \/ sums # <<>>)))
      BY <1>1 DEF WriteCheck
    <2>2. CASE json' = json
      <3>1. crossed' = crossed
        BY <2>1, <2>2 DEF Types
      <3> QED
        BY <2>1, <2>2, <3>1, SummingKept
    <2>3. CASE json' # json
      <3>1. ~crossed' => ~crossed /\ sums = <<>> /\ \A q \in Summers : ~(Len(hash[q]) >= 2)
        BY <2>1, <2>3 DEF Hashed
      <3> QED
        BY <2>1, <3>1 DEF Summing
    <2> QED
      BY <2>2, <2>3
  <1>2. CASE CheckStarts(k) \/ LoadState(k) \/ Decide(k) \/ SendMail(k) \/ CheckKilled(k)
    BY <1>2, SummingKept DEF CheckStarts, LoadState, Decide, SendMail, CheckKilled
  <1> QED
    BY <1>1, <1>2 DEF CheckStep

LEMMA SummingNext == Types /\ Summing /\ [Next]_vars => Summing'
  <1> SUFFICES ASSUME Types, Summing, [Next]_vars PROVE Summing'
    OBVIOUS
  <1>1. CASE Tick
    BY <1>1, SummingKept DEF Tick, logger, record
  <1>2. CASE UNCHANGED vars
    BY <1>2, SummingKept DEF vars, logger, record
  <1> QED
    BY <1>1, <1>2, SummingLogger, SummingRecord, SummingCheck DEF Next, Summers

-----------------------------------------------------------------------------
\* The results.

LEMMA IInvInit == Init => IInv
  <1> SUFFICES ASSUME Init PROVE IInv
    OBVIOUS
  <1>1. Types
    BY TypesInit
  <1>2. Rows
    BY <1>1 DEF Init, Rows, NoFalseAlarm, IdleCheck, Types
  <1>3. Summing
    BY LoggerSums DEF Init, Summing, Summers
  <1>4. Mails
    BY <1>1 DEF Init, Mails, InFile, NoMail, IdleCheck, KindOf, Kinds, Types
  <1> QED
    BY <1>1, <1>2, <1>3, <1>4 DEF IInv

LEMMA IInvNext == IInv /\ [Next]_vars => IInv'
BY TypesNext, RowsNext, SummingNext, MailsNext DEF IInv

\* The inductive invariant of checks, mails and checksums.
THEOREM Invariance == Spec => []IInv
  <1> QED
    BY IInvInit, IInvNext, PTL DEF Spec

\* A gap is mailed only when there was one as the check began (events.go:475).
THEOREM NoFalseAlarms == Spec => []NoFalseAlarm
  <1>1. IInv => NoFalseAlarm
    BY DEF IInv, Rows
  <1> QED
    BY <1>1, Invariance, PTL

\* The checksums of a finished run fit its files (log.go:354).
THEOREM SumsAlwaysHold == Spec => []SumsHold
  <1>1. IInv => SumsHold
    <2> SUFFICES ASSUME IInv, sums # <<>>, \A p \in Summers : pc[p] \in {"idle", "ready"}, ~crossed
                 PROVE  VerifySums
      BY DEF SumsHold
    <2>1. \A p \in Annotators : pc[p] \notin {"stat", "hash"}
      BY DEF Summers
    <2> QED
      BY <2>1 DEF IInv, Summing, VerifySums
  <1> QED
    BY <1>1, Invariance, PTL

\* A mail is left out or repeated within the hour only as the property allows
\* (events.go:491).
THEOREM MailsOncePerHour == Spec => OncePerHour
  <1> DEFINE Kind(k) == IF k = "failed" THEN "failed" ELSE "stale"
             Right(k) ==
               check[k].pc = "decide" /\ check'[k].pc # "decide" /\ dies' = dies =>
                 /\ (check'[k].pc # "mail" /\ (k = "timer" => Stale(check[k]))) =>
                      check[k].now - told[Kind(k)] < Cooldown
                 /\ check'[k].pc = "mail" => torn \/ check[k].now - told[Kind(k)] >= Cooldown
  <1>1. ASSUME IInv, [Next]_vars, NEW k \in Checks PROVE Right(k)
    <2> SUFFICES ASSUME check[k].pc = "decide", check'[k].pc # "decide", dies' = dies
                 PROVE  /\ (check'[k].pc # "mail" /\ (k = "timer" => Stale(check[k]))) =>
                             check[k].now - told[Kind(k)] < Cooldown
                        /\ check'[k].pc = "mail" => torn \/ check[k].now - told[Kind(k)] >= Cooldown
      OBVIOUS
    <2>1. Decide(k)
      <3>1. ASSUME NEW q \in Checks, CheckStep(q) PROVE q = k
        <4>1. check \in [Checks -> CheckStates] /\ check'[k] # check[k]
          BY <1>1 DEF IInv, Types
        <4>2. ASSUME NEW c, check' = [check EXCEPT ![q] = c] PROVE q = k
          BY <4>1, <4>2
        <4>3. CASE LoadState(q)
          BY <3>1, <4>1, <4>2, <4>3 DEF LoadState, Ends
        <4>4. CASE Decide(q)
          BY <4>1, <4>4 DEF Decide, Ends
        <4>5. CASE SendMail(q)
          BY <4>1, <4>5 DEF SendMail
        <4> QED
          BY <3>1, <4>2, <4>3, <4>4, <4>5 DEF CheckStep, CheckStarts, WriteCheck, CheckKilled, Ends
      <3>2. check' # check
        OBVIOUS
      <3>3. PICK q \in Checks : CheckStep(q)
        BY <1>1, <3>2 DEF Next, Tick, LoggerStep, LoggerStarts, Row, SaveState, LoggerDies,
           LoggerFinishes, HashOne, PutSums, Annotate, StatSums, vars
      <3>4. CheckStep(k)
        BY <3>1, <3>3
      <3>5. dies \in Nat
        BY <1>1 DEF IInv, Types
      <3> QED
        BY <3>4, <3>5 DEF CheckStep, CheckStarts, LoadState, SendMail, WriteCheck, CheckKilled
    <2> DEFINE mail == MailOf(k, check[k], InFile)
               next == [check[k] EXCEPT !.pc = IF mail = "no" THEN "write" ELSE "mail",
                                        !.read = InFile, !.mail = mail, !.last = 0]
    <2>2. check' = [check EXCEPT ![k] = IF mail = "no" /\ k = "timer" THEN IdleCheck ELSE next]
      BY <2>1 DEF Decide, Ends, InFile
    <2>3. check'[k].pc = "mail" <=> mail # "no"
      BY <1>1, <2>2 DEF IInv, Types, CheckStates, IdleCheck
    <2>4. Kind(k) = KindOf(k) /\ Kind(k) \in Kinds
      BY KindsDiffer DEF KindOf
    <2>5. /\ InFile[Kind(k)] \in Nat /\ told[Kind(k)] \in Nat /\ check[k].now \in Nat
          /\ InFile[Kind(k)] <= told[Kind(k)]
          /\ ~torn => InFile[Kind(k)] = told[Kind(k)]
      BY <1>1, <2>4, InFileType DEF IInv, Types, Mails, CheckStates
    <2>6. mail # "no" => check[k].now - InFile[Kind(k)] >= Cooldown
      BY DEF MailOf, Checks
    <2>7. mail = "no" /\ (k = "timer" => Stale(check[k])) => ~(check[k].now - InFile[Kind(k)] >= Cooldown)
      BY DEF MailOf, Checks
    <2>8. Cooldown \in Nat
      BY CheckAssumption
    <2> HIDE DEF mail, next, Kind
    <2> QED
      BY <2>3, <2>5, <2>6, <2>7, <2>8
  <1>2. IInv /\ [Next]_vars => [\A k \in Checks : Right(k)]_vars
    BY <1>1
  <1>3. Spec => [][\A k \in Checks : Right(k)]_vars
    BY <1>2, Invariance, PTL DEF Spec
  <1> QED
    BY <1>3 DEF OncePerHour
=============================================================================
