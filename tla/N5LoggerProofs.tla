-------------------------- MODULE N5LoggerProofs --------------------------
(***************************************************************************)
(* Proofs about N5Logger, for runs of any length, any limits and any       *)
(* number of faults: no line of the logs is lost between the logs, the     *)
(* events and the mails but by the limits of the alerts, and no reboot or  *)
(* gap that a row shows.                                                   *)
(***************************************************************************)
EXTENDS N5Logger, FiniteSetTheorems, WellFoundedInduction, TLAPS

-----------------------------------------------------------------------------
(* Numbers and finite sets.                                                *)

\* A set of numbers has a least one.
LEMMA LeastNumber ==
  ASSUME NEW S \in SUBSET Nat, S # {}
  PROVE  \E n \in S : \A m \in S : n <= m
<1>. DEFINE R == OpToRel(<, Nat)
<1>1. IsWellFoundedOn(R, Nat)
  BY NatLessThanWellFounded
<1>2. \A m, n \in S : m < n => <<m, n>> \in R
  BY DEF OpToRel
<1>. HIDE DEF R
<1>3. PICK n \in S : \A m \in S : <<m, n>> \notin R
  BY <1>1, WFMin
<1>4. \A m \in S : ~(m < n)
  BY <1>2, <1>3
<1>. QED
  BY <1>4

\* A set of numbers up to n is finite.
LEMMA UpTo ==
  ASSUME NEW n \in Nat, NEW T \in SUBSET (1..n)
  PROVE  IsFiniteSet(T) /\ Cardinality(T) \in 0..n
<1>1. IsFiniteSet(1..n) /\ Cardinality(1..n) = n
  BY FS_Interval
<1>2. IsFiniteSet(T) /\ Cardinality(T) <= Cardinality(1..n)
  BY <1>1, FS_Subset
<1>3. Cardinality(T) \in Nat
  BY <1>2, FS_CardinalityType
<1>. QED
  BY <1>1, <1>2, <1>3

\* A smaller set has fewer elements.
LEMMA Fewer ==
  ASSUME NEW n \in Nat, NEW T \in SUBSET (1..n), NEW U \in SUBSET T, U # T
  PROVE  Cardinality(U) < Cardinality(T)
<1>1. IsFiniteSet(T) /\ Cardinality(T) \in Nat
  BY UpTo
<1>2. Cardinality(U) \in Nat
  <2>1. U \in SUBSET (1..n)
    OBVIOUS
  <2>. QED
    BY <2>1, UpTo
<1>3. Cardinality(U) <= Cardinality(T) /\ (Cardinality(T) = Cardinality(U) => T = U)
  BY <1>1, FS_Subset
<1>. QED
  BY <1>1, <1>2, <1>3

\* The last of some numbers up to n.
LEMMA Greatest ==
  ASSUME NEW n \in Nat, NEW T \in SUBSET (1..n), T # {}
  PROVE  Max(T) \in T /\ \A i \in T : i <= Max(T)
<1>. DEFINE S == {m \in Nat : \A i \in T : i <= m}
<1>1. PICK m \in S : \A k \in S : m <= k
  <2>1. n \in S
    OBVIOUS
  <2>. QED
    BY <2>1, LeastNumber
<1>2. m \in T
  <2>1. SUFFICES ASSUME m \notin T
                 PROVE  FALSE
    OBVIOUS
  <2>2. m # 0
    <3>1. PICK i \in T : i \in 1..n
      OBVIOUS
    <3>. QED
      BY <1>1, <3>1
  <2>3. \A i \in T : i <= m - 1
    BY <1>1, <2>1
  <2>. QED
    BY <1>1, <2>2, <2>3
<1>3. \E x \in T : \A y \in T : x >= y
  BY <1>1, <1>2
<1>. QED
  BY <1>3 DEF Max

\* The places of some lines are 1 to their number.
LEMMA Ranked ==
  ASSUME NEW n \in Nat, NEW T \in SUBSET (1..n), NEW l \in T
  PROVE  Rank(l, T) \in 1..Cardinality(T)
<1>. DEFINE U == {m \in T : m <= l}
<1>1. l \in 1..n /\ l <= l
  OBVIOUS
<1>2. U \subseteq T /\ l \in U
  BY <1>1
<1>. HIDE DEF U
<1>3. U \in SUBSET (1..n) /\ U \in SUBSET T
  BY <1>2
<1>4. Cardinality(T) \in Nat /\ Cardinality(U) \in Nat
  BY <1>3, UpTo
<1>5. Cardinality(U) <= Cardinality(T)
  <2>1. CASE U = T
    BY <1>4, <2>1
  <2>2. CASE U # T
    <3>1. Cardinality(U) < Cardinality(T)
      BY <1>3, <2>2, Fewer
    <3>. QED
      BY <1>4, <3>1
  <2>. QED
    BY <2>1, <2>2
<1>6. Cardinality({}) < Cardinality(U)
  <2>1. {} \in SUBSET U /\ {} # U
    BY <1>2
  <2>. QED
    BY <1>3, <2>1, Fewer
<1>7. Cardinality(U) \in 1..Cardinality(T)
  BY <1>4, <1>5, <1>6, FS_EmptySet
<1>. QED
  BY <1>7 DEF U, Rank

-----------------------------------------------------------------------------
(* The inductive invariant, in named parts.                                *)

\* Where a line is once it left the pending alerts.
InMails == told \cup binned \cup (UNION ToSet(outbox))
Outside == InMails \cup cut

\* What hits that are still to be recorded will tell.
Coming(q) == LinesOf(ToSet(q))
KeysOf(q) == {h.key : h \in ToSet(q)}

\* Nothing is from the future.
Dated ==
  /\ clock >= 1 /\ boot >= 1
  /\ row.t <= clock /\ row.gap <= row.t /\ row.boot <= boot
  /\ \A i \in DOMAIN log : log[i].t <= clock /\ log[i].boot \in 1..boot

\* Positions of lines can be compared.
Comparable == source = "journal" \/ boot = 1

\* No read that starts from state s returns line i.
Taken(s, i) ==
  IF s.cursor[log[i].unit] > 0 THEN Position(i) <= s.cursor[log[i].unit]
  ELSE source = "journal" /\ log[i].t < s.lastCheck

\* The kernel log was unreadable, and it is told or will be.
Unreadable(q) == (\E e \in events : e.key = "K8") \/ "K8" \in KeysOf(q)

\* KnownHole, with what is to be recorded.
Hole(i, q) ==
  IF log[i].unit = "kernel" THEN Unreadable(q) \/ (source = "kmsg" /\ boot > 1)
  ELSE faults["journal"] > 0 \/ source = "kmsg"

\* A line is in events.log or will be, or is lost in a known hole.
Known(i, q) == i \in Coming(q) \/ i \in InLog \/ Hole(i, q)

\* A line is in events.log and in a mail, in the alerts of state s or left
\* out by their limits; or it will be.
Accounted(s, q, i) ==
  \/ i \in Coming(q)
  \/ i \in InLog /\ i \in Outside \cup InPending(s)
  \/ Hole(i, q)

\* What a state, in memory with the hits still to be recorded or on the disk,
\* says of the logs.
Reading(s, q) ==
  /\ s.lastCheck <= clock
  /\ \A u \in Units : Comparable /\ s.cursor[u] > 0 =>
       \E k \in DOMAIN log : log[k].unit = u /\ s.cursor[u] = Position(k)
  /\ "journal" \in s.episodes => Unreadable(q)
  /\ \A i \in DOMAIN log : Taken(s, i) => Accounted(s, q, i)

\* What it says of the end of the run.
Ended(s) ==
  s.finished => clock >= s.end /\ \A i \in DOMAIN log : log[i].t < s.end => Known(i, <<>>)

Says(s, q) == Reading(s, q) /\ Ended(s)

\* A boot that a state has is told of by K2, or will be.
BootTold(s, q) ==
  s.boot > 1 => \/ \E e \in events : e.key = "K2" /\ e.boot = s.boot
                \/ "K2" \in KeysOf(q) /\ s.boot = boot

\* A gap is told of by K5, or will be, or is seen again by the next sample.
GapSeen(s, q) ==
  s.start > 0 /\ row.gap > 0 =>
    \/ GapTold \/ "K5" \in KeysOf(q)
    \/ s.last > 0 /\ row.gap - s.last > GapMax

\* What a state says of the last row.
Sampling(s, q) == s.last <= row.t /\ BootTold(s, q) /\ GapSeen(s, q)

\* What the place of the process says of the states and the run.
Place ==
  /\ file.start = 0 => row.t = 0 /\ boot = 1
  /\ pc \in Up => file.start > 0 /\ st.start > 0
  /\ pc \in Up /\ row.t > 0 => st.sampled \/ st.resumed
  /\ pc \in Up => st.sampled \/ st.resumed \/ st.boot = boot
  /\ pc \in Up /\ file.last > 0 => st.last > 0
  /\ pc = "endMail" => clock >= st.end

\* After a check, and until lines can come again, all of them are known.
Phases ==
  /\ Place
  /\ pc \in {"checked", "flush", "alerts", "endMail"} => \A i \in DOMAIN log : Known(i, todo)

IInv ==
  /\ TypeOK /\ Dated /\ Phases
  /\ Says(st, todo) /\ Says(file, <<>>)
  /\ Sampling(st, todo) /\ Sampling(file, <<>>)

-----------------------------------------------------------------------------
(* Types.                                                                  *)

\* Lines of hits are lines of the logs.
LEMMA LinesOfHits ==
  /\ \A S \in SUBSET Hits : LinesOf(S) \in SUBSET Lines
  /\ \A S, T : LinesOf(S \cup T) = LinesOf(S) \cup LinesOf(T)
  /\ \A S, T : S \subseteq T => LinesOf(S) \subseteq LinesOf(T)
BY DEF LinesOf, Hits

\* The elements of a sequence that is joined or consumed.
LEMMA Joined ==
  ASSUME NEW T
  PROVE  /\ <<>> \in Seq(T) /\ ToSet(<<>>) = {}
         /\ \A h \in T : <<h>> \in Seq(T) /\ ToSet(<<h>>) = {h}
         /\ \A a, b \in Seq(T) : a \o b \in Seq(T) /\ ToSet(a \o b) = ToSet(a) \cup ToSet(b)
<1>1. <<>> \in Seq(T) /\ ToSet(<<>>) = {}
  BY DEF ToSet
<1>2. ASSUME NEW h \in T
      PROVE  <<h>> \in Seq(T) /\ ToSet(<<h>>) = {h}
  BY <1>2 DEF ToSet
<1>3. ASSUME NEW a \in Seq(T), NEW b \in Seq(T)
      PROVE  a \o b \in Seq(T) /\ ToSet(a \o b) = ToSet(a) \cup ToSet(b)
  <2>1. /\ a \o b \in Seq(T) /\ Len(a) \in Nat /\ Len(b) \in Nat
        /\ DOMAIN a = 1..Len(a) /\ DOMAIN b = 1..Len(b) /\ DOMAIN (a \o b) = 1..(Len(a) + Len(b))
        /\ \A i \in 1..Len(a) : (a \o b)[i] = a[i]
        /\ \A i \in 1..Len(b) : (a \o b)[Len(a) + i] = b[i]
    OBVIOUS
  <2>2. \A i \in DOMAIN (a \o b) : i \in 1..Len(a) \/ (i - Len(a) \in 1..Len(b) /\ i = Len(a) + (i - Len(a)))
    BY <2>1
  <2>3. ToSet(a \o b) \subseteq ToSet(a) \cup ToSet(b)
    BY <2>1, <2>2 DEF ToSet
  <2>4. ToSet(a) \cup ToSet(b) \subseteq ToSet(a \o b)
    <3>1. \A i \in 1..Len(b) : Len(a) + i \in DOMAIN (a \o b)
      BY <2>1
    <3>2. \A i \in 1..Len(a) : i \in DOMAIN (a \o b)
      BY <2>1
    <3>. QED
      BY <2>1, <3>1, <3>2 DEF ToSet
  <2>. QED
    BY <2>1, <2>3, <2>4
<1>. QED
  BY <1>1, <1>2, <1>3

\* The first element of a sequence and the others.
LEMMA Consumed ==
  ASSUME NEW T, NEW q \in Seq(T), q # <<>>
  PROVE  /\ Head(q) \in T /\ Tail(q) \in Seq(T)
         /\ ToSet(q) = {Head(q)} \cup ToSet(Tail(q))
<1>1. /\ DOMAIN q = 1..Len(q) /\ Len(q) \in Nat /\ Len(q) > 0
      /\ Tail(q) \in Seq(T) /\ DOMAIN Tail(q) = 1..(Len(q) - 1)
      /\ \A i \in 1..(Len(q) - 1) : Tail(q)[i] = q[i + 1]
      /\ Head(q) = q[1] /\ Head(q) \in T
  OBVIOUS
<1>2. ASSUME NEW i \in DOMAIN q
      PROVE  q[i] = Head(q) \/ q[i] \in ToSet(Tail(q))
  <2>1. CASE i = 1
    BY <1>1, <2>1
  <2>2. CASE i # 1
    <3>1. i - 1 \in DOMAIN Tail(q) /\ Tail(q)[i - 1] = q[i]
      BY <1>1, <2>2
    <3>. QED
      BY <3>1 DEF ToSet
  <2>. QED
    BY <2>1, <2>2
<1>3. ASSUME NEW i \in DOMAIN Tail(q)
      PROVE  Tail(q)[i] \in ToSet(q)
  <2>1. i + 1 \in DOMAIN q /\ Tail(q)[i] = q[i + 1]
    BY <1>1
  <2>. QED
    BY <2>1 DEF ToSet
<1>4. Head(q) \in ToSet(q)
  BY <1>1 DEF ToSet
<1>. QED
  BY <1>1, <1>2, <1>3, <1>4 DEF ToSet

\* The lines of text of a mail or a queue.
LEMMA Texts ==
  ASSUME NEW texts \in Seq(SUBSET Lines)
  PROVE  /\ Quoted(texts) \in SUBSET Lines /\ Mailed(texts) \in SUBSET Lines
         /\ \A more \in Seq(SUBSET Lines) : Quoted(texts \o more) = Quoted(texts) \cup Quoted(more)
<1>. DEFINE T == SUBSET Lines
<1>1. texts \in Seq(T)
  OBVIOUS
<1>. HIDE DEF T
<1>2. ToSet(texts) \subseteq T
  BY <1>1 DEF ToSet
<1>3. \A more \in Seq(T) : ToSet(texts \o more) = ToSet(texts) \cup ToSet(more)
  BY <1>1, Joined
<1>4. Quoted(texts) \in SUBSET Lines
  BY <1>2 DEF T, Quoted
<1>5. Mailed(texts) \subseteq Quoted(texts)
  BY DEF Mailed, Quoted, ToSet
<1>6. ASSUME NEW more \in Seq(T)
      PROVE  Quoted(texts \o more) = Quoted(texts) \cup Quoted(more)
  BY <1>3 DEF Quoted
<1>. QED
  BY <1>4, <1>5, <1>6 DEF T

\* A state goes on from another but for its number of events and its alerts.
SameBut(s, r) ==
  /\ r.start = s.start /\ r.end = s.end /\ r.boot = s.boot /\ r.last = s.last
  /\ r.sampled = s.sampled /\ r.resumed = s.resumed /\ r.episodes = s.episodes
  /\ r.cursor = s.cursor /\ r.lastCheck = s.lastCheck /\ r.finished = s.finished

\* A hit that is recorded is in events.log, and in the alerts or left out.
LEMMA Recording ==
  ASSUME NEW hit \in Hits, Event(hit), st \in States, clock \in Nat, boot \in Nat,
         events \subseteq Events, cut \subseteq Lines
  PROVE  /\ st' \in States /\ events' \subseteq Events /\ cut' \subseteq Lines
         /\ events \subseteq events' /\ cut \subseteq cut'
         /\ SameBut(st, st')
         /\ \E e \in events' : e.key = hit.key /\ e.hits = hit.hits /\ e.t = clock /\ e.boot = boot
         /\ InPending(st) \subseteq InPending(st')
         /\ hit.hits \subseteq InPending(st') \cup cut'
<1>1. /\ hit.key \in ToSet(Keys) /\ hit.hits \in SUBSET Lines
      /\ hit.texts \in Seq(SUBSET Lines) /\ hit.hits \subseteq Quoted(hit.texts)
  BY DEF Hits
<1>2. /\ st.seq \in Nat /\ st.pending \in [ToSet(Keys) -> Seq(SUBSET Lines)]
  BY DEF States
<1>. DEFINE e == [key |-> hit.key, hits |-> hit.hits, id |-> st.seq + 1, t |-> clock, boot |-> boot]
<1>3. e \in Events /\ events' = events \cup {e}
  BY <1>1, <1>2 DEF Event, Events
<1>4. /\ e.key = hit.key /\ e.hits = hit.hits /\ e.t = clock /\ e.boot = boot
  OBVIOUS
<1>. HIDE DEF e
<1>5. CASE Len(st.pending[hit.key]) < PendingMax
  <2>. DEFINE queue == st.pending[hit.key] \o hit.texts
              all == [st.pending EXCEPT ![hit.key] = queue]
  <2>1. st.pending[hit.key] \in Seq(SUBSET Lines)
    BY <1>1, <1>2
  <2>2. queue \in Seq(SUBSET Lines)
    BY <1>1, <2>1, Joined
  <2>3. Quoted(queue) = Quoted(st.pending[hit.key]) \cup Quoted(hit.texts)
    BY <1>1, <2>1, Texts
  <2>4. st' = [st EXCEPT !.seq = st.seq + 1, !.pending = all] /\ cut' = cut
    BY <1>5 DEF Event
  <2>. HIDE DEF queue
  <2>5. /\ all \in [ToSet(Keys) -> Seq(SUBSET Lines)]
        /\ \A k \in ToSet(Keys) : all[k] = IF k = hit.key THEN queue ELSE st.pending[k]
    BY <1>1, <1>2, <2>2
  <2>. HIDE DEF all
  <2>6. st' \in States /\ SameBut(st, st') /\ st'.pending = all
    <3>1. st.seq + 1 \in Nat
      BY <1>2
    <3>2. st' \in States
      BY <2>4, <2>5, <3>1 DEF States
    <3>3. SameBut(st, st') /\ st'.pending = all
      BY <2>4 DEF States, SameBut
    <3>. QED
      BY <3>2, <3>3
  <2>7. InPending(st) \cup Quoted(hit.texts) \subseteq InPending(st')
    BY <1>1, <2>3, <2>5, <2>6 DEF InPending
  <2>. QED
    BY <1>1, <1>3, <1>4, <2>4, <2>6, <2>7
<1>6. CASE ~(Len(st.pending[hit.key]) < PendingMax)
  <2>1. st' = [st EXCEPT !.seq = st.seq + 1] /\ cut' = cut \cup hit.hits
    BY <1>6 DEF Event
  <2>2. st' \in States /\ SameBut(st, st') /\ st'.pending = st.pending
    <3>1. st.seq + 1 \in Nat
      BY <1>2
    <3>2. st' \in States
      BY <2>1, <3>1 DEF States
    <3>3. SameBut(st, st') /\ st'.pending = st.pending
      BY <2>1 DEF States, SameBut
    <3>. QED
      BY <3>2, <3>3
  <2>3. InPending(st') = InPending(st)
    BY <2>2 DEF InPending
  <2>. QED
    BY <1>1, <1>3, <1>4, <2>1, <2>2, <2>3
<1>. QED
  BY <1>5, <1>6

\* What the process keeps is typed.
LEMMA StateTypes ==
  /\ NoState \in States
  /\ \A s \in States :
       /\ [s EXCEPT !.resumed = TRUE] \in States
       /\ [s EXCEPT !.finished = TRUE] \in States
       /\ \A t \in Nat : [s EXCEPT !.lastDaily = t] \in States
<1>1. NoState \in States
  BY LoggerAssumption DEF NoState, States, LoggerAssumption, ToSet, Keys, Units, Lines, ZeroCap
<1>. QED
  BY <1>1 DEF States

\* A mail that is sent, queued or dropped: its lines are not lost.
LEMMA Mailing ==
  ASSUME NEW m \in SUBSET Lines, TypeOK, Mail(m)
  PROVE  /\ outbox' \in Seq(SUBSET Lines) /\ Len(outbox') <= OutboxMax
         /\ told' \subseteq Lines /\ binned' \subseteq Lines
         /\ mailDown' \in BOOLEAN /\ faults' \in [FaultKinds -> Nat]
         /\ faults'["journal"] = faults["journal"]
         /\ InMails \cup m \subseteq InMails'
<1>1. /\ outbox \in Seq(SUBSET Lines) /\ Len(outbox) <= OutboxMax /\ OutboxMax \in Nat
      /\ told \subseteq Lines /\ binned \subseteq Lines
      /\ mailDown \in BOOLEAN /\ faults \in [FaultKinds -> Nat]
  BY LoggerAssumption DEF TypeOK, LoggerAssumption
<1>2. Strike("mail") => /\ faults' \in [FaultKinds -> Nat]
                        /\ faults'["journal"] = faults["journal"]
  BY <1>1 DEF Strike, FaultKinds
<1>3. ASSUME Queue(m)
      PROVE  /\ outbox' \in Seq(SUBSET Lines) /\ Len(outbox') <= OutboxMax
             /\ told' = told /\ binned' \subseteq Lines
             /\ InMails \cup m \subseteq InMails'
  <2>1. CASE outbox' = Append(outbox, m) /\ Len(outbox) < OutboxMax /\ UNCHANGED <<told, binned>>
    <3>1. outbox' \in Seq(SUBSET Lines) /\ Len(outbox') = Len(outbox) + 1
      BY <1>1, <2>1
    <3>2. /\ \A i \in DOMAIN outbox : i \in DOMAIN outbox' /\ outbox'[i] = outbox[i]
          /\ Len(outbox) + 1 \in DOMAIN outbox' /\ outbox'[Len(outbox) + 1] = m
      BY <1>1, <2>1
    <3>3. ToSet(outbox) \cup {m} \subseteq ToSet(outbox')
      BY <3>2 DEF ToSet
    <3>4. InMails \cup m \subseteq InMails'
      BY <2>1, <3>3 DEF InMails
    <3>. QED
      BY <1>1, <2>1, <3>1, <3>4
  <2>2. CASE binned' = binned \cup m /\ UNCHANGED <<outbox, told>>
    BY <1>1, <2>2 DEF InMails
  <2>. QED
    BY <1>3, <2>1, <2>2 DEF Queue
<1>4. ASSUME Sent(m), UNCHANGED <<outbox, binned>>
      PROVE  told' \subseteq Lines /\ InMails \cup m \subseteq InMails'
  BY <1>1, <1>4 DEF Sent, InMails
<1>. QED
  BY <1>1, <1>2, <1>3, <1>4 DEF Mail, Sent

-----------------------------------------------------------------------------
(* The hits of a sample and of a read.                                     *)

\* The keys of the alerts.
LEMMA KeySet ==
  ToSet(Keys) = {"K1", "K2", "K3", "K4", "K5", "K8"}
BY DEF ToSet, Keys

\* A hit with its texts.
LEMMA AHit ==
  ASSUME NEW k \in ToSet(Keys), NEW lines \in SUBSET Lines, NEW texts \in Seq(SUBSET Lines),
         lines \subseteq Quoted(texts)
  PROVE  Hit(k, lines, texts) \in Hits /\ Hit(k, lines, texts).key = k /\ Hit(k, lines, texts).hits = lines
BY DEF Hit, Hits

\* A hit without lines.
LEMMA BareHit ==
  ASSUME NEW k \in ToSet(Keys)
  PROVE  Plain(k) \in Hits /\ Plain(k).key = k /\ Plain(k).hits = {}
<1>1. <<{}>> \in Seq(SUBSET Lines) /\ {} \in SUBSET Lines /\ {} \subseteq Quoted(<<{}>>)
  OBVIOUS
<1>. HIDE DEF Hits
<1>. QED
  BY <1>1, AHit DEF Plain

\* An episode is one hit at most.
LEMMA EpisodeType ==
  ASSUME NEW s, NEW k \in ToSet(Keys), NEW name, NEW on \in BOOLEAN
  PROVE  /\ EpisodeHits(s, k, name, on) \in Seq(Hits)
         /\ on /\ name \notin s.episodes => EpisodeHits(s, k, name, on) = <<Plain(k)>>
BY BareHit, Joined DEF EpisodeHits

\* The breaks are among the hits of a sample.
LEMMA SampleType ==
  ASSUME NEW reading \in Readings
  PROVE  /\ BreakHits \in Seq(Hits) /\ SampleHits(reading) \in Seq(Hits)
         /\ KeysOf(BreakHits) \subseteq KeysOf(SampleHits(reading))
<1>1. \A k \in {"K2", "K4", "K5"} : <<Plain(k)>> \in Seq(Hits)
  BY KeySet, BareHit, Joined
<1>2. BreakHits \in Seq(Hits)
  <2>1. <<>> \in Seq(Hits) /\ <<Plain("K2")>> \in Seq(Hits) /\ <<Plain("K5")>> \in Seq(Hits)
    BY <1>1, Joined
  <2>2. <<Plain("K2")>> \o <<>> \in Seq(Hits) /\ <<Plain("K2")>> \o <<Plain("K5")>> \in Seq(Hits)
    BY <2>1, Joined
  <2>. QED
    BY <2>1, <2>2 DEF BreakHits
<1>. DEFINE four == IF Zeros(reading) = 2 THEN <<Plain("K4")>> ELSE <<>>
            hot == EpisodeHits(st, "K4", "hot", reading = "hot")
<1>3. four \in Seq(Hits) /\ hot \in Seq(Hits)
  BY <1>1, Joined, KeySet, EpisodeType
<1>4. SampleHits(reading) = (BreakHits \o four) \o hot
  BY DEF SampleHits
<1>. HIDE DEF four, hot
<1>5. BreakHits \o four \in Seq(Hits) /\ ToSet(BreakHits) \subseteq ToSet(BreakHits \o four)
  BY <1>2, <1>3, Joined
<1>6. /\ SampleHits(reading) \in Seq(Hits)
      /\ ToSet(BreakHits \o four) \subseteq ToSet(SampleHits(reading))
  <2>1. PICK a \in Seq(Hits) : a = BreakHits \o four
    BY <1>5
  <2>2. a \o hot \in Seq(Hits) /\ ToSet(a \o hot) = ToSet(a) \cup ToSet(hot)
    BY <1>3, Joined
  <2>. QED
    BY <1>4, <2>1, <2>2
<1>. QED
  BY <1>2, <1>5, <1>6 DEF KeysOf

\* K1 tells of every line that was read, however many there are.
LEMMA K1All ==
  ASSUME st \in States, NEW lines \in SUBSET Lines
  PROVE  K1Hits(lines) \in Seq(Hits) /\ LinesOf(ToSet(K1Hits(lines))) = lines
<1>. DEFINE room == K1Max - st.k1
            n == Cardinality(lines)
            len == IF n <= room THEN n ELSE room + 1
            Of(i) == {l \in lines : IF i <= room THEN Rank(l, lines) = i ELSE Rank(l, lines) > room}
<1>1. MaxLines \in Nat /\ lines \in SUBSET (1..MaxLines)
  BY LoggerAssumption DEF LoggerAssumption, Lines
<1>2. room \in Nat
  BY LoggerAssumption DEF LoggerAssumption, States
<1>3. n \in Nat
  BY <1>1, UpTo
<1>4. \A l \in lines : Rank(l, lines) \in 1..n
  BY <1>1, Ranked
<1>. DEFINE TextsOf(i) == IF i <= room THEN <<Of(i), Of(i)>> ELSE <<Of(i)>>
<1>5. K1Hits(lines) = [i \in 1..len |-> Hit("K1", Of(i), TextsOf(i))]
  <2>1. ASSUME NEW i
        PROVE  (IF i <= room
                  THEN LET line == {l \in lines : Rank(l, lines) = i} IN Hit("K1", line, <<line, line>>)
                  ELSE LET others == {l \in lines : Rank(l, lines) > room} IN Hit("K1", others, <<others>>))
                = Hit("K1", Of(i), TextsOf(i))
    OBVIOUS
  <2>. QED
    BY <2>1 DEF K1Hits
<1>. HIDE DEF room, n, Of
<1>6. len \in Nat
  BY <1>2, <1>3
<1>7. \A i : Of(i) \in SUBSET lines
  BY DEF Of
<1>8. ASSUME NEW i
      PROVE  Hit("K1", Of(i), TextsOf(i)) \in Hits /\ Hit("K1", Of(i), TextsOf(i)).hits = Of(i)
  <2>1. Of(i) \in SUBSET Lines
    BY <1>7
  <2>2. TextsOf(i) \in Seq(SUBSET Lines) /\ 1 \in DOMAIN TextsOf(i) /\ TextsOf(i)[1] = Of(i)
    <3>. HIDE DEF len
    <3>1. CASE i <= room
      <4>1. TextsOf(i) = <<Of(i), Of(i)>>
        BY <3>1
      <4>2. \A x \in SUBSET Lines :
              <<x, x>> \in Seq(SUBSET Lines) /\ 1 \in DOMAIN <<x, x>> /\ <<x, x>>[1] = x
        OBVIOUS
      <4>. HIDE DEF TextsOf
      <4>. QED
        BY <2>1, <4>1, <4>2
    <3>2. CASE ~(i <= room)
      <4>1. TextsOf(i) = <<Of(i)>>
        BY <3>2
      <4>. QED
        BY <2>1, <4>1
    <3>. QED
      BY <3>1, <3>2
  <2>3. Of(i) \subseteq Quoted(TextsOf(i))
    BY <2>2 DEF Quoted, ToSet
  <2>. HIDE DEF TextsOf
  <2>. QED
    BY <2>1, <2>2, <2>3, KeySet, AHit
<1>. HIDE DEF TextsOf
<1>9. K1Hits(lines) \in Seq(Hits) /\ DOMAIN K1Hits(lines) = 1..len
  <2>. HIDE DEF len
  <2>. QED
    BY <1>5, <1>6, <1>8
<1>10. ASSUME NEW l \in lines
       PROVE  \E i \in 1..len : l \in Of(i)
  <2>1. CASE Rank(l, lines) <= room
    <3>1. Rank(l, lines) \in 1..len
      BY <1>2, <1>3, <1>4, <2>1
    <3>. QED
      BY <2>1, <3>1 DEF Of
  <2>2. CASE ~(Rank(l, lines) <= room)
    <3>1. room + 1 \in 1..len /\ ~(room + 1 <= room)
      BY <1>2, <1>3, <1>4, <2>2
    <3>2. Rank(l, lines) > room
      BY <1>2, <1>3, <1>4, <2>2
    <3>. QED
      BY <3>1, <3>2 DEF Of
  <2>. QED
    BY <2>1, <2>2
<1>11. LinesOf(ToSet(K1Hits(lines))) = UNION {Of(i) : i \in 1..len}
  <2>. HIDE DEF len
  <2>1. ToSet(K1Hits(lines)) = {Hit("K1", Of(i), TextsOf(i)) : i \in 1..len}
    BY <1>5, <1>9 DEF ToSet
  <2>. QED
    BY <1>8, <2>1 DEF LinesOf
<1>. QED
  BY <1>7, <1>9, <1>10, <1>11

\* The warnings of n5-fangov are one hit.
LEMMA K3All ==
  ASSUME NEW lines \in SUBSET Lines
  PROVE  FangovHits(lines) \in Seq(Hits) /\ LinesOf(ToSet(FangovHits(lines))) = lines
<1>. DEFINE n == Cardinality(lines)
            quoted == IF n <= EvidenceMax THEN n ELSE EvidenceMax
            last == [i \in 1..quoted |-> {l \in lines : Rank(l, lines) = n - quoted + i}]
            texts == <<lines>> \o last
<1>1. CASE lines = {}
  BY <1>1, Joined DEF FangovHits, LinesOf
<1>2. CASE lines # {}
  <2>1. FangovHits(lines) = <<Hit("K3", lines, texts)>>
    BY <1>2 DEF FangovHits
  <2>2. quoted \in Nat
    <3>1. MaxLines \in Nat /\ lines \in SUBSET (1..MaxLines)
      BY LoggerAssumption DEF LoggerAssumption, Lines
    <3>. QED
      BY <3>1, UpTo, LoggerAssumption DEF LoggerAssumption
  <2>3. last \in Seq(SUBSET Lines)
    <3>. HIDE DEF quoted, n
    <3>. QED
      BY <2>2
  <2>. HIDE DEF last
  <2>4. <<lines>> \in Seq(SUBSET Lines) /\ ToSet(<<lines>>) = {lines}
    BY Joined
  <2>5. texts \in Seq(SUBSET Lines) /\ ToSet(texts) = {lines} \cup ToSet(last)
    <3>. DEFINE T == SUBSET Lines
    <3>1. <<lines>> \in Seq(T) /\ last \in Seq(T)
      BY <2>3, <2>4
    <3>. HIDE DEF T
    <3>2. \A a, b \in Seq(T) : a \o b \in Seq(T) /\ ToSet(a \o b) = ToSet(a) \cup ToSet(b)
      BY Joined
    <3>3. <<lines>> \o last \in Seq(T) /\ ToSet(<<lines>> \o last) = ToSet(<<lines>>) \cup ToSet(last)
      BY <3>1, <3>2
    <3>. QED
      BY <2>4, <3>3 DEF T
  <2>. HIDE DEF texts
  <2>6. lines \subseteq Quoted(texts)
    BY <2>5 DEF Quoted
  <2>7. Hit("K3", lines, texts) \in Hits /\ Hit("K3", lines, texts).hits = lines
    BY <2>5, <2>6, KeySet, AHit
  <2>8. ToSet(FangovHits(lines)) = {Hit("K3", lines, texts)} /\ FangovHits(lines) \in Seq(Hits)
    BY <2>1, <2>7, Joined
  <2>. QED
    BY <2>7, <2>8 DEF LinesOf
<1>. QED
  BY <1>1, <1>2

-----------------------------------------------------------------------------
(* Positions and reads.                                                    *)

\* The lines so far have their places in the log.
LEMMA LogShape ==
  ASSUME TypeOK
  PROVE  /\ Len(log) \in Nat /\ DOMAIN log = 1..Len(log) /\ DOMAIN log \in SUBSET Lines
         /\ \A i \in DOMAIN log : log[i].t \in Nat /\ log[i].boot \in Nat /\ log[i].unit \in Units
<1>1. /\ log \in Seq([t : Nat, boot : Nat, unit : Units]) /\ Len(log) <= MaxLines
      /\ MaxLines \in Nat
  BY LoggerAssumption DEF TypeOK, LoggerAssumption
<1>2. Len(log) \in Nat /\ DOMAIN log = 1..Len(log)
  BY <1>1
<1>3. \A i \in DOMAIN log : log[i] \in [t : Nat, boot : Nat, unit : Units]
  <2>. DEFINE S == [t : Nat, boot : Nat, unit : Units]
  <2>1. log \in Seq(S)
    BY <1>1
  <2>. HIDE DEF S
  <2>2. \A i \in DOMAIN log : log[i] \in S
    BY <1>2, <2>1
  <2>. QED
    BY <2>2 DEF S
<1>. QED
  BY <1>1, <1>2, <1>3 DEF Lines

\* A line is counted itself.
LEMMA PositionType ==
  ASSUME TypeOK, NEW i \in DOMAIN log
  PROVE  Position(i) \in 1..i
<1>1. i \in Nat \ {0} /\ i \in 1..i
  BY LogShape
<1>. DEFINE T == {j \in 1..i : log[j].boot = log[i].boot /\ log[j].unit = log[i].unit}
<1>2. T \in SUBSET (1..i) /\ i \in T
  BY <1>1
<1>3. Position(i) = IF source = "journal" THEN i ELSE Cardinality(T)
  BY DEF Position
<1>. HIDE DEF T
<1>4. Cardinality(T) \in 0..i
  BY <1>1, <1>2, UpTo
<1>5. Cardinality({}) < Cardinality(T)
  <2>1. {} \in SUBSET T /\ {} # T
    BY <1>2
  <2>. QED
    BY <1>1, <1>2, <2>1, Fewer
<1>. QED
  BY <1>1, <1>3, <1>4, <1>5, FS_EmptySet

\* Later lines of a unit have greater positions.
LEMMA PositionGrows ==
  ASSUME TypeOK, Dated, Comparable, NEW i \in DOMAIN log, NEW j \in DOMAIN log,
         i < j, log[i].unit = log[j].unit
  PROVE  Position(i) < Position(j)
<1>1. i \in Nat \ {0} /\ j \in Nat \ {0} /\ j \in 1..j
  BY LogShape
<1>2. CASE source = "journal"
  BY <1>2 DEF Position
<1>3. CASE source # "journal"
  <2>1. log[i].boot = log[j].boot
    <3>1. boot = 1 /\ log[i].boot \in 1..boot /\ log[j].boot \in 1..boot
      BY <1>3 DEF Comparable, Dated
    <3>. QED
      BY <3>1
  <2>. DEFINE U == {k \in 1..i : log[k].boot = log[i].boot /\ log[k].unit = log[i].unit}
              T == {k \in 1..j : log[k].boot = log[j].boot /\ log[k].unit = log[j].unit}
  <2>2. T \in SUBSET (1..j) /\ U \in SUBSET T /\ j \in T /\ j \notin U
    BY <1>1, <2>1
  <2>3. Position(i) = Cardinality(U) /\ Position(j) = Cardinality(T)
    BY <1>3 DEF Position
  <2>. HIDE DEF U, T
  <2>. QED
    BY <1>1, <2>2, <2>3, Fewer
<1>. QED
  BY <1>2, <1>3

\* What a read finds and what it makes of it.
LinesRead(readable) == [u \in Units |-> IF u \in readable THEN Unread(st, u) ELSE {}]
HitsRead(readable) ==
  EpisodeHits(st, "K8", "journal", "kernel" \notin readable)
  \o K1Hits(LinesRead(readable)["kernel"]) \o FangovHits(LinesRead(readable)["fangov"])

\* All lines read are in the hits of the read.
LEMMA ReadAll ==
  ASSUME TypeOK, NEW readable \in SUBSET Units
  PROVE  /\ \A u \in Units : LinesRead(readable)[u] \in SUBSET DOMAIN log
         /\ HitsRead(readable) \in Seq(Hits)
         /\ \A u \in Units : LinesRead(readable)[u] \subseteq Coming(HitsRead(readable))
         /\ "kernel" \notin readable /\ "journal" \notin st.episodes => "K8" \in KeysOf(HitsRead(readable))
<1>. DEFINE ep == EpisodeHits(st, "K8", "journal", "kernel" \notin readable)
            k1 == K1Hits(LinesRead(readable)["kernel"])
            k3 == FangovHits(LinesRead(readable)["fangov"])
<1>1. \A u \in Units : LinesRead(readable)[u] \in SUBSET DOMAIN log
  BY DEF LinesRead, Unread
<1>2. \A u \in Units : LinesRead(readable)[u] \in SUBSET Lines
  BY <1>1, LogShape
<1>3. st \in States
  BY DEF TypeOK
<1>4. k1 \in Seq(Hits) /\ LinesOf(ToSet(k1)) = LinesRead(readable)["kernel"]
  BY <1>2, <1>3, K1All DEF Units
<1>5. k3 \in Seq(Hits) /\ LinesOf(ToSet(k3)) = LinesRead(readable)["fangov"]
  BY <1>2, K3All DEF Units
<1>6. /\ ep \in Seq(Hits)
      /\ "kernel" \notin readable /\ "journal" \notin st.episodes => ep = <<Plain("K8")>>
  BY KeySet, EpisodeType
<1>7. HitsRead(readable) = (ep \o k1) \o k3
  BY DEF HitsRead
<1>. HIDE DEF ep, k1, k3
<1>8. ep \o k1 \in Seq(Hits) /\ ToSet(ep \o k1) = ToSet(ep) \cup ToSet(k1)
  BY <1>4, <1>6, Joined
<1>9. /\ HitsRead(readable) \in Seq(Hits)
      /\ ToSet(HitsRead(readable)) = (ToSet(ep) \cup ToSet(k1)) \cup ToSet(k3)
  <2>1. PICK a \in Seq(Hits) : a = ep \o k1
    BY <1>8
  <2>2. a \o k3 \in Seq(Hits) /\ ToSet(a \o k3) = ToSet(a) \cup ToSet(k3)
    BY <1>5, Joined
  <2>. QED
    BY <1>7, <1>8, <2>1, <2>2
<1>10. \A u \in Units : LinesRead(readable)[u] \subseteq Coming(HitsRead(readable))
  BY <1>4, <1>5, <1>9, LinesOfHits DEF Units, Coming
<1>11. ASSUME "kernel" \notin readable, "journal" \notin st.episodes
       PROVE  "K8" \in KeysOf(HitsRead(readable))
  <2>1. Plain("K8") \in Hits /\ Plain("K8").key = "K8"
    BY KeySet, BareHit
  <2>2. ToSet(ep) = {Plain("K8")}
    BY <1>6, <1>11, <2>1, Joined
  <2>. QED
    BY <1>9, <2>1, <2>2 DEF KeysOf
<1>. QED
  BY <1>1, <1>9, <1>10, <1>11

\* The cursor after a read is at a line, if it moved.
LEMMA CursorAt ==
  ASSUME TypeOK, NEW u \in Units, NEW lines \in SUBSET DOMAIN log
  PROVE  IF lines = {} THEN Cursor(u, lines) = st.cursor[u]
         ELSE /\ Max(lines) \in lines /\ \A i \in lines : i <= Max(lines)
              /\ Cursor(u, lines) = Position(Max(lines))
<1>1. Len(log) \in Nat /\ lines \in SUBSET (1..Len(log))
  BY LogShape
<1>. QED
  BY <1>1, Greatest DEF Cursor

\* A read keeps the state typed.
LEMMA ReadType ==
  ASSUME TypeOK, NEW readable \in SUBSET Units, Read(readable)
  PROVE  st' \in States /\ todo' \in Seq(Hits)
<1>1. st \in States /\ clock \in Nat
  BY DEF TypeOK
<1>. DEFINE lines == LinesRead(readable)
            k == st.k1 + Cardinality(lines["kernel"])
            k1 == IF k < K1Max THEN k ELSE K1Max
            cursor == [u \in Units |-> Cursor(u, lines[u])]
            ep == Episodes(st, "journal", "kernel" \notin readable)
<1>2. /\ todo' = HitsRead(readable)
      /\ st' = [st EXCEPT !.cursor = cursor, !.k1 = k1, !.lastCheck = clock, !.episodes = ep]
  BY DEF Read, LinesRead, HitsRead
<1>3. HitsRead(readable) \in Seq(Hits) /\ \A u \in Units : lines[u] \in SUBSET DOMAIN log
  BY ReadAll
<1>5. k1 \in 0..K1Max
  <2>1. lines["kernel"] \in SUBSET (1..Len(log)) /\ Len(log) \in Nat
    BY <1>3, LogShape DEF Units
  <2>2. Cardinality(lines["kernel"]) \in Nat
    BY <2>1, UpTo
  <2>3. st.k1 \in 0..K1Max /\ K1Max \in Nat
    BY <1>1, LoggerAssumption DEF States, LoggerAssumption
  <2>. QED
    BY <2>2, <2>3
<1>6. cursor \in [Units -> 0..MaxLines]
  <2>. SUFFICES ASSUME NEW u \in Units
                PROVE  Cursor(u, lines[u]) \in 0..MaxLines
    OBVIOUS
  <2>1. CASE lines[u] = {}
    <3>1. Cursor(u, lines[u]) = st.cursor[u]
      BY <1>3, <2>1, CursorAt
    <3>2. st.cursor \in [Units -> 0..MaxLines]
      BY <1>1 DEF States
    <3>. QED
      BY <3>1, <3>2
  <2>2. CASE lines[u] # {}
    <3>1. Max(lines[u]) \in DOMAIN log /\ Cursor(u, lines[u]) = Position(Max(lines[u]))
      BY <1>3, <2>2, CursorAt
    <3>2. Max(lines[u]) \in 1..MaxLines /\ MaxLines \in Nat
      BY <3>1, LogShape, LoggerAssumption DEF Lines, LoggerAssumption
    <3>3. Position(Max(lines[u])) \in 1..Max(lines[u])
      BY <3>1, PositionType
    <3>. QED
      BY <3>1, <3>2, <3>3
  <2>. QED
    BY <2>1, <2>2
<1>7. ep \in SUBSET {"hot", "journal"}
  BY <1>1 DEF Episodes, States
<1>. HIDE DEF k1, cursor, ep
<1>8. st' \in States
  BY <1>1, <1>2, <1>5, <1>6, <1>7 DEF States
<1>. QED
  BY <1>2, <1>3, <1>8

-----------------------------------------------------------------------------
(* Every step keeps the types.                                             *)

\* The type invariant, part by part: the process and the logs, the mails, the states.
TypeWorld ==
  /\ clock \in Nat /\ boot \in Nat /\ source \in Sources
  /\ log \in Seq([t : Nat, boot : Nat, unit : Units]) /\ Len(log) <= MaxLines
  /\ row \in [t : Nat, boot : Nat, gap : Nat, zeros : Nat, from : Nat]
  /\ sums \in BOOLEAN /\ pc \in Up \cup {"off", "stopped", "done"}
TypeMails ==
  /\ outbox \in Seq(SUBSET Lines) /\ Len(outbox) <= OutboxMax
  /\ told \subseteq Lines /\ binned \subseteq Lines
  /\ mailDown \in BOOLEAN /\ faults \in [FaultKinds -> Nat]
TypeStates ==
  /\ file \in States /\ st \in States /\ events \subseteq Events /\ cut \subseteq Lines
  /\ todo \in Seq(Hits) /\ (todo # <<>> => pc \in {"sampled", "checked"})

\* The type invariant in three parts: the world, the mails, the state and the file.
LEMMA TypeParts ==
  TypeOK <=> TypeWorld /\ TypeMails /\ TypeStates
BY DEF TypeOK, TypeWorld, TypeMails, TypeStates

\* A fault is counted.
LEMMA Struck ==
  ASSUME TypeMails, NEW k, Strike(k)
  PROVE  /\ faults' \in [FaultKinds -> Nat]
         /\ \A j \in FaultKinds : faults[j] <= faults'[j]
         /\ k \in FaultKinds => faults'[k] > 0
<1>1. /\ faults \in [FaultKinds -> Nat] /\ faults' = [faults EXCEPT ![k] = @ + 1]
  BY DEF TypeMails, Strike
<1>2. \A j \in FaultKinds : faults[j] \in Nat /\ faults'[j] = IF j = k THEN faults[j] + 1 ELSE faults[j]
  BY <1>1
<1>3. faults' \in [FaultKinds -> Nat]
  <2>1. DOMAIN faults' = FaultKinds
    BY <1>1
  <2>2. \A j \in FaultKinds : faults'[j] \in Nat
    BY <1>2
  <2>3. faults' = [j \in FaultKinds |-> faults'[j]]
    BY <1>1
  <2>. HIDE DEF FaultKinds
  <2>. QED
    BY <2>2, <2>3
<1>. QED
  BY <1>2, <1>3

\* The save of a state, in the loop and outside of it.
LEMMA SaveType ==
  ASSUME TypeMails, TypeStates, clock \in Nat, boot \in Nat, NEW next, todo = <<>>,
         SaveOrReport(next) \/ SaveOrFail(next), outbox' = outbox, told' = told, binned' = binned
  PROVE  /\ TypeStates' /\ faults' \in [FaultKinds -> Nat] /\ mailDown' \in BOOLEAN
         /\ pc' \in {next, "off"} /\ todo' = <<>>
<1>1. Plain("K8") \in Hits /\ <<>> \in Seq(Hits)
  BY KeySet, BareHit, Joined
<1>2. Strike("save") => faults' \in [FaultKinds -> Nat]
  BY Struck
<1>3. CASE file' = st /\ pc' = next /\ UNCHANGED <<events, cut, mem, faults>>
  BY <1>3 DEF mem, TypeStates, TypeMails
<1>4. CASE Strike("save") /\ Event(Plain("K8")) /\ pc' = next /\ UNCHANGED <<file, todo, mailDown>>
  <2>1. st' \in States /\ events' \subseteq Events /\ cut' \subseteq Lines
    BY <1>1, <1>4, Recording DEF TypeStates
  <2>. QED
    BY <1>1, <1>2, <1>4, <2>1 DEF TypeStates, TypeMails
<1>5. CASE Strike("save") /\ Down("off") /\ UNCHANGED <<file, events, cut>>
  BY <1>1, <1>2, <1>5, StateTypes DEF Down, TypeStates, TypeMails
<1>. QED
  BY <1>3, <1>4, <1>5 DEF SaveOrReport, SaveOrFail, Save

\* What is pending, and what of it goes into the mail of a key.
LEMMA Alerting ==
  ASSUME TypeOK, AlertNext
  PROVE  \E k \in ToSet(Keys) :
           /\ st.pending[k] \in Seq(SUBSET Lines)
           /\ Mailed(st.pending[k]) \in SUBSET Lines /\ Quoted(st.pending[k]) \in SUBSET Lines
           /\ Mail(Mailed(st.pending[k]))
           /\ cut' = cut \cup (Quoted(st.pending[k]) \ Mailed(st.pending[k]))
           /\ st' = [st EXCEPT !.sent = [st.sent EXCEPT ![k] = clock],
                               !.pending = [st.pending EXCEPT ![k] = <<>>]]
<1>1. PICK i \in DOMAIN Keys :
             /\ Mail(Mailed(st.pending[Keys[i]]))
             /\ cut' = cut \cup (Quoted(st.pending[Keys[i]]) \ Mailed(st.pending[Keys[i]]))
             /\ st' = [st EXCEPT !.sent[Keys[i]] = clock, !.pending[Keys[i]] = <<>>]
  BY DEF AlertNext
<1>2. PICK k \in ToSet(Keys) : k = Keys[i]
  BY DEF ToSet
<1>3. st.pending[k] \in Seq(SUBSET Lines)
  <2>1. st.pending \in [ToSet(Keys) -> Seq(SUBSET Lines)]
    BY DEF TypeOK, States
  <2>. QED
    BY <2>1
<1>4. Mailed(st.pending[k]) \in SUBSET Lines /\ Quoted(st.pending[k]) \in SUBSET Lines
  BY <1>3, Texts
<1>5. st' = [st EXCEPT !.sent = [st.sent EXCEPT ![k] = clock],
                      !.pending = [st.pending EXCEPT ![k] = <<>>]]
  BY <1>1, <1>2 DEF TypeOK, States
<1>. QED
  BY <1>1, <1>2, <1>3, <1>4, <1>5

\* The clock, the logs and the place of the process.
LEMMA TypeWorldStep ==
  TypeOK /\ [Next]_vars => TypeWorld'
<1>. SUFFICES ASSUME TypeOK, [Next]_vars PROVE TypeWorld'
  OBVIOUS
<1>. USE TypeParts
<1>1. CASE Begin
  BY <1>1, LoggerAssumption DEF LoggerAssumption, Begin, world, mails, mem, Up, TypeWorld, TypeMails, TypeStates, States
<1>2. CASE StartMail
  BY <1>2 DEF StartMail, Down, world, mails, mem, Up, TypeWorld
<1>3. CASE StartSave
  BY <1>3 DEF StartSave, SaveOrFail, Save, Down, world, mails, mem, Up, TypeWorld
<1>4. CASE Resume
  BY <1>4 DEF Resume, Down, world, mails, mem, Up, TypeWorld
<1>5. CASE StartFinished
  BY <1>5 DEF StartFinished, Down, world, mails, mem, Up, TypeWorld
<1>6. CASE \E reading \in Readings : Sample(reading)
  <2>1. PICK reading \in Readings : Sample(reading)
    BY <1>6
  <2>2. /\ row' = [t |-> clock, boot |-> boot,
                   gap |-> IF row.t > 0 /\ clock - row.t > GapMax /\ file.last > 0 THEN clock ELSE row.gap,
                   zeros |-> IF reading = "stall" THEN row.zeros + 1 ELSE 0,
                   from |-> IF row.zeros = 0 THEN clock ELSE row.from]
        /\ UNCHANGED <<world, sums>> /\ pc' = "sampled"
    BY <2>1 DEF Sample
  <2>3. clock \in Nat /\ boot \in Nat /\ row.zeros \in Nat /\ row.from \in Nat /\ row.gap \in Nat
    BY DEF TypeWorld
  <2>4. row' \in [t : Nat, boot : Nat, gap : Nat, zeros : Nat, from : Nat]
    BY <2>2, <2>3
  <2>. QED
    BY <2>2, <2>4 DEF world, Up, TypeWorld
<1>7. CASE Finish
  BY <1>7 DEF Finish, Down, world, mails, mem, Up, TypeWorld
<1>8. CASE Check
  BY <1>8 DEF Check, Down, world, mails, mem, Up, TypeWorld
<1>9. CASE CheckSave
  BY <1>9 DEF CheckSave, SaveOrReport, Save, Down, world, mails, mem, Up, TypeWorld
<1>10. CASE FlushNext
  BY <1>10 DEF FlushNext, Down, world, mails, mem, Up, TypeWorld
<1>11. CASE FlushEnds
  BY <1>11 DEF FlushEnds, Down, world, mails, mem, Up, TypeWorld
<1>12. CASE AlertNext
  BY <1>12 DEF AlertNext, Down, world, mails, mem, Up, TypeWorld
<1>13. CASE AlertsEnd
  BY <1>13 DEF AlertsEnd, Down, world, mails, mem, Up, TypeWorld
<1>14. CASE Daily
  BY <1>14 DEF Daily, Down, world, mails, mem, Up, TypeWorld
<1>15. CASE PassSave
  BY <1>15 DEF PassSave, SaveOrReport, Save, Down, world, mails, mem, Up, TypeWorld
<1>16. CASE Sleep
  <2>1. clock \in Nat /\ MaxSlow \in Nat
    BY LoggerAssumption DEF LoggerAssumption, TypeWorld
  <2>2. PICK d \in 1..MaxSlow : clock' = clock + d
    BY <1>16 DEF Sleep
  <2>3. clock' \in Nat
    BY <2>1, <2>2
  <2>. QED
    BY <1>16, <2>3 DEF Sleep, Up, TypeWorld
<1>17. CASE EndMail
  BY <1>17 DEF EndMail, Down, world, mails, mem, Up, TypeWorld
<1>18. CASE EndSave
  BY <1>18 DEF EndSave, SaveOrFail, Save, Down, world, mails, mem, Up, TypeWorld
<1>19. CASE WriteSums
  BY <1>19 DEF WriteSums, Down, world, mails, mem, Up, TypeWorld
<1>20. CASE Stop
  BY <1>20 DEF Stop, Down, world, mails, mem, Up, TypeWorld
<1>21. CASE Die
  BY <1>21 DEF Die, Down, world, mails, mem, Up, TypeWorld
<1>22. CASE Reboot
  BY <1>22 DEF Reboot, Down, world, mails, mem, Up, TypeWorld
<1>23. CASE Wait
  <2>1. clock' \in Nat
    BY <1>23 DEF Wait, TypeWorld
  <2>. QED
    BY <1>23, <2>1 DEF Wait, Up, TypeWorld
<1>24. CASE LogLine
  BY <1>24, LoggerAssumption DEF LoggerAssumption, LogLine, world, mails, mem, Up, TypeWorld, TypeMails, TypeStates, States
<1>26. CASE Record
  BY <1>26 DEF Record, world, mails, TypeWorld
<1>27. CASE SampleEnds
  BY <1>27 DEF SampleEnds, world, mails, mem, Up, TypeWorld
<1>25. CASE UNCHANGED vars
  BY <1>25 DEF vars, world, mails, mem, TypeWorld
<1>. QED
  BY <1>1, <1>2, <1>3, <1>4, <1>5, <1>6, <1>7, <1>8, <1>9, <1>10, <1>11, <1>12, <1>13, <1>14, <1>15, <1>16, <1>17, <1>18, <1>19, <1>20, <1>21, <1>22, <1>23, <1>24, <1>25, <1>26, <1>27 DEF Next, Starts, Loop

\* The mails, queued or out, and the counted faults.
LEMMA TypeMailsStep ==
  TypeOK /\ [Next]_vars => TypeMails'
<1>. SUFFICES ASSUME TypeOK, [Next]_vars PROVE TypeMails'
  OBVIOUS
<1>. USE TypeParts
<1>1. CASE Begin
  BY <1>1, Struck, TypeParts DEF Begin, Down, world, mails, mem, TypeMails
<1>2. CASE StartMail
  BY <1>2, Mailing DEF StartMail, TypeMails
<1>3. CASE StartSave
  <2>1. todo = <<>>
    BY <1>3 DEF StartSave, TypeStates
  <2>. QED
    BY <1>3, <2>1, SaveType DEF StartSave, mails, TypeMails, TypeWorld
<1>4. CASE Resume
  BY <1>4, Struck, TypeParts DEF Resume, Down, world, mails, mem, TypeMails
<1>5. CASE StartFinished
  BY <1>5, Struck, TypeParts DEF StartFinished, Down, world, mails, mem, TypeMails
<1>6. CASE \E reading \in Readings : Sample(reading)
  BY <1>6, Struck, TypeParts DEF Sample, Down, world, mails, mem, TypeMails
<1>7. CASE Finish
  BY <1>7, Struck, TypeParts DEF Finish, Down, world, mails, mem, TypeMails
<1>8. CASE Check
  BY <1>8, Struck, TypeParts DEF Check, Down, world, mails, mem, TypeMails
<1>9. CASE CheckSave
  <2>1. todo = <<>>
    BY <1>9 DEF CheckSave, TypeStates
  <2>. QED
    BY <1>9, <2>1, SaveType DEF CheckSave, mails, TypeMails, TypeWorld
<1>10. CASE FlushNext
  <2>1. /\ outbox \in Seq(SUBSET Lines) /\ outbox # <<>> /\ Len(outbox) <= OutboxMax
        /\ OutboxMax \in Nat /\ told \subseteq Lines
    BY <1>10, LoggerAssumption DEF FlushNext, LoggerAssumption, TypeMails
  <2>2. Head(outbox) \subseteq Lines
    <3>. DEFINE S == SUBSET Lines
    <3>1. outbox \in Seq(S) /\ outbox # <<>>
      BY <2>1
    <3>. HIDE DEF S
    <3>2. Head(outbox) \in S
      BY <3>1
    <3>. QED
      BY <3>2 DEF S
  <2>3. Tail(outbox) \in Seq(SUBSET Lines) /\ Len(Tail(outbox)) <= OutboxMax
    BY <2>1
  <2>4. CASE Sent(Head(outbox)) /\ outbox' = Tail(outbox) /\ UNCHANGED binned
    BY <2>1, <2>2, <2>3, <2>4 DEF Sent, TypeMails
  <2>5. CASE Strike("mail") /\ mailDown' = TRUE /\ UNCHANGED mails
    BY <2>5, Struck DEF mails, TypeMails
  <2>. QED
    BY <1>10, <2>4, <2>5 DEF FlushNext
<1>11. CASE FlushEnds
  BY <1>11, Struck, TypeParts DEF FlushEnds, Down, world, mails, mem, TypeMails
<1>12. CASE AlertNext
  <2>1. \E m \in SUBSET Lines : Mail(m)
    BY <1>12, Alerting
  <2>. QED
    BY <2>1, Mailing DEF TypeMails
<1>13. CASE AlertsEnd
  BY <1>13, Struck, TypeParts DEF AlertsEnd, Down, world, mails, mem, TypeMails
<1>14. CASE Daily
  <2>1. CASE Mail({})
    <3>1. {} \in SUBSET Lines
      OBVIOUS
    <3>. QED
      BY <2>1, <3>1, Mailing DEF TypeMails
  <2>2. CASE UNCHANGED <<mails, st, mailDown, faults>>
    BY <2>2 DEF mails, TypeMails
  <2>. QED
    BY <1>14, <2>1, <2>2 DEF Daily
<1>15. CASE PassSave
  <2>1. todo = <<>>
    BY <1>15 DEF PassSave, TypeStates
  <2>. QED
    BY <1>15, <2>1, SaveType DEF PassSave, mails, TypeMails, TypeWorld
<1>16. CASE Sleep
  BY <1>16, Struck, TypeParts DEF Sleep, Down, world, mails, mem, TypeMails
<1>17. CASE EndMail
  BY <1>17, Mailing DEF EndMail, TypeMails
<1>18. CASE EndSave
  <2>1. todo = <<>>
    BY <1>18 DEF EndSave, TypeStates
  <2>. QED
    BY <1>18, <2>1, SaveType DEF EndSave, mails, TypeMails, TypeWorld
<1>19. CASE WriteSums
  BY <1>19, Struck, TypeParts DEF WriteSums, Down, world, mails, mem, TypeMails
<1>20. CASE Stop
  BY <1>20, Struck, TypeParts DEF Stop, Down, world, mails, mem, TypeMails
<1>21. CASE Die
  BY <1>21, Struck, TypeParts DEF Die, Down, world, mails, mem, TypeMails
<1>22. CASE Reboot
  BY <1>22, Struck, TypeParts DEF Reboot, Down, world, mails, mem, TypeMails
<1>23. CASE Wait
  BY <1>23, Struck, TypeParts DEF Wait, Down, world, mails, mem, TypeMails
<1>24. CASE LogLine
  BY <1>24, Struck, TypeParts DEF LogLine, Down, world, mails, mem, TypeMails
<1>26. CASE Record
  BY <1>26 DEF Record, mails, TypeMails
<1>27. CASE SampleEnds
  BY <1>27 DEF SampleEnds, mails, mem, TypeMails
<1>25. CASE UNCHANGED vars
  BY <1>25 DEF vars, world, mails, mem, TypeMails
<1>. QED
  BY <1>1, <1>2, <1>3, <1>4, <1>5, <1>6, <1>7, <1>8, <1>9, <1>10, <1>11, <1>12, <1>13, <1>14, <1>15, <1>16, <1>17, <1>18, <1>19, <1>20, <1>21, <1>22, <1>23, <1>24, <1>25, <1>26, <1>27 DEF Next, Starts, Loop

\* The states and the events.
LEMMA TypeStatesStep ==
  TypeOK /\ [Next]_vars => TypeStates'
<1>. SUFFICES ASSUME TypeOK, [Next]_vars PROVE TypeStates'
  OBVIOUS
<1>. USE TypeParts
<1>1. CASE Begin
  <2>. DEFINE new == [NoState EXCEPT !.start = clock, !.end = clock + RunLen, !.boot = boot,
                                     !.lastDaily = clock]
  <2>1. clock \in Nat /\ boot \in Nat /\ clock + RunLen \in Nat
    BY LoggerAssumption DEF LoggerAssumption, TypeWorld
  <2>2. new \in States
    BY <2>1, StateTypes DEF States
  <2>3. /\ file' \in {new, file} /\ st' \in {new, st} /\ events' = events /\ cut' = cut
        /\ todo' = todo /\ todo = <<>>
    BY <1>1 DEF Begin, TypeStates
  <2>. HIDE DEF new
  <2>. QED
    BY <2>2, <2>3 DEF TypeStates
<1>2. CASE StartMail
  BY <1>2, StateTypes DEF StartMail, Down, world, mails, mem, TypeStates, TypeWorld
<1>3. CASE StartSave
  <2>1. todo = <<>>
    BY <1>3 DEF StartSave, TypeStates
  <2>. QED
    BY <1>3, <2>1, SaveType DEF StartSave, mails, TypeMails, TypeWorld
<1>4. CASE Resume
  BY <1>4, StateTypes DEF Resume, Down, world, mails, mem, TypeStates, TypeWorld
<1>5. CASE StartFinished
  BY <1>5, StateTypes DEF StartFinished, Down, world, mails, mem, TypeStates, TypeWorld
<1>6. CASE \E reading \in Readings : Sample(reading)
  <2>1. PICK reading \in Readings : Sample(reading)
    BY <1>6
  <2>. DEFINE zero == Zeros(reading)
              ep == Episodes(st, "hot", reading = "hot")
  <2>2. /\ events' = events /\ file' = file /\ cut' = cut /\ pc' = "sampled"
        /\ todo' = SampleHits(reading)
        /\ st' = [st EXCEPT !.boot = boot, !.last = clock, !.sampled = TRUE,
                            !.zero = zero, !.episodes = ep]
    BY <2>1 DEF Sample
  <2>3. clock \in Nat /\ boot \in Nat /\ st \in States
    BY DEF TypeWorld, TypeStates
  <2>4. SampleHits(reading) \in Seq(Hits)
    BY SampleType
  <2>5. zero \in 0..ZeroCap
    BY <2>3 DEF Zeros, ZeroCap, States
  <2>6. ep \in SUBSET {"hot", "journal"}
    BY <2>3 DEF Episodes, States
  <2>. HIDE DEF zero, ep
  <2>7. st' \in States
    BY <2>2, <2>3, <2>5, <2>6 DEF States
  <2>. QED
    BY <2>2, <2>4, <2>7 DEF TypeStates
<1>7. CASE Finish
  BY <1>7, StateTypes DEF Finish, Down, world, mails, mem, TypeStates, TypeWorld
<1>8. CASE Check
  <2>1. PICK readable \in SUBSET Units : Read(readable)
    BY <1>8 DEF Check, Readable, Units
  <2>. QED
    BY <1>8, <2>1, ReadType DEF Check, TypeStates
<1>9. CASE CheckSave
  <2>1. todo = <<>>
    BY <1>9 DEF CheckSave, TypeStates
  <2>. QED
    BY <1>9, <2>1, SaveType DEF CheckSave, mails, TypeMails, TypeWorld
<1>10. CASE FlushNext
  BY <1>10, StateTypes DEF FlushNext, Down, world, mails, mem, TypeStates, TypeWorld
<1>11. CASE FlushEnds
  BY <1>11, StateTypes DEF FlushEnds, Down, world, mails, mem, TypeStates, TypeWorld
<1>12. CASE AlertNext
  <2>1. PICK k \in ToSet(Keys) :
               /\ Quoted(st.pending[k]) \in SUBSET Lines
               /\ cut' = cut \cup (Quoted(st.pending[k]) \ Mailed(st.pending[k]))
               /\ st' = [st EXCEPT !.sent = [st.sent EXCEPT ![k] = clock],
                                   !.pending = [st.pending EXCEPT ![k] = <<>>]]
    BY <1>12, Alerting
  <2>2. clock \in Nat /\ st \in States
    BY DEF TypeWorld, TypeStates
  <2>3. [st.sent EXCEPT ![k] = clock] \in [ToSet(Keys) -> Nat]
    BY <2>2 DEF States
  <2>4. [st.pending EXCEPT ![k] = <<>>] \in [ToSet(Keys) -> Seq(SUBSET Lines)]
    BY <2>2 DEF States
  <2>5. st' \in States
    BY <2>1, <2>2, <2>3, <2>4 DEF States
  <2>6. /\ file' = file /\ events' = events /\ cut' \subseteq Lines /\ todo' = todo /\ todo = <<>>
    BY <1>12, <2>1 DEF AlertNext, TypeStates
  <2>. QED
    BY <2>5, <2>6 DEF TypeStates
<1>13. CASE AlertsEnd
  BY <1>13, StateTypes DEF AlertsEnd, Down, world, mails, mem, TypeStates, TypeWorld
<1>14. CASE Daily
  BY <1>14, StateTypes DEF Daily, Down, world, mails, mem, TypeStates, TypeWorld
<1>15. CASE PassSave
  <2>1. todo = <<>>
    BY <1>15 DEF PassSave, TypeStates
  <2>. QED
    BY <1>15, <2>1, SaveType DEF PassSave, mails, TypeMails, TypeWorld
<1>16. CASE Sleep
  BY <1>16, StateTypes DEF Sleep, Down, world, mails, mem, TypeStates, TypeWorld
<1>17. CASE EndMail
  BY <1>17, StateTypes DEF EndMail, Down, world, mails, mem, TypeStates, TypeWorld
<1>18. CASE EndSave
  <2>1. todo = <<>>
    BY <1>18 DEF EndSave, TypeStates
  <2>. QED
    BY <1>18, <2>1, SaveType DEF EndSave, mails, TypeMails, TypeWorld
<1>19. CASE WriteSums
  BY <1>19, StateTypes DEF WriteSums, Down, world, mails, mem, TypeStates, TypeWorld
<1>20. CASE Stop
  BY <1>20, StateTypes DEF Stop, Down, world, mails, mem, TypeStates, TypeWorld
<1>21. CASE Die
  BY <1>21, StateTypes DEF Die, Down, world, mails, mem, TypeStates, TypeWorld
<1>22. CASE Reboot
  BY <1>22, StateTypes DEF Reboot, Down, world, mails, mem, TypeStates, TypeWorld
<1>23. CASE Wait
  BY <1>23, StateTypes DEF Wait, Down, world, mails, mem, TypeStates, TypeWorld
<1>24. CASE LogLine
  BY <1>24, StateTypes DEF LogLine, Down, world, mails, mem, TypeStates, TypeWorld
<1>26. CASE Record
  <2>1. /\ Event(Head(todo)) /\ todo' = Tail(todo) /\ file' = file /\ pc' = pc
        /\ todo \in Seq(Hits) /\ todo # <<>> /\ pc \in {"sampled", "checked"}
    BY <1>26 DEF Record, TypeStates
  <2>2. Head(todo) \in Hits /\ Tail(todo) \in Seq(Hits)
    BY <2>1, Consumed
  <2>3. st' \in States /\ events' \subseteq Events /\ cut' \subseteq Lines
    BY <2>1, <2>2, Recording DEF TypeStates, TypeWorld
  <2>. QED
    BY <2>1, <2>2, <2>3 DEF TypeStates
<1>27. CASE SampleEnds
  BY <1>27 DEF SampleEnds, mem, TypeStates
<1>25. CASE UNCHANGED vars
  BY <1>25 DEF vars, world, mails, mem, TypeStates
<1>. QED
  BY <1>1, <1>2, <1>3, <1>4, <1>5, <1>6, <1>7, <1>8, <1>9, <1>10, <1>11, <1>12, <1>13, <1>14, <1>15, <1>16, <1>17, <1>18, <1>19, <1>20, <1>21, <1>22, <1>23, <1>24, <1>25, <1>26, <1>27 DEF Next, Starts, Loop

\* The type invariant is inductive.
LEMMA TypeStep ==
  TypeOK /\ [Next]_vars => TypeOK'
<1>1. TypeOK' <=> TypeWorld' /\ TypeMails' /\ TypeStates'
  BY DEF TypeOK, TypeWorld, TypeMails, TypeStates
<1>. QED
  BY <1>1, TypeWorldStep, TypeMailsStep, TypeStatesStep


-----------------------------------------------------------------------------
(* What no step undoes.                                                    *)

\* Time, logs, events and mails grow.
Grows ==
  /\ clock <= clock' /\ boot <= boot' /\ source' = source
  /\ events \subseteq events' /\ Outside \subseteq Outside'
  /\ faults["journal"] <= faults'["journal"]
  /\ \/ log' = log
     \/ /\ clock' = clock /\ boot' = boot
        /\ \E u \in Units : log' = Append(log, [t |-> clock, boot |-> boot, unit |-> u])

\* Mails aside, a step leaves them where they are.
LEMMA MailsStay ==
  UNCHANGED mails => InMails' = InMails
BY DEF mails, InMails

\* A queued mail that is sent is not lost.
LEMMA FlushKeeps ==
  ASSUME TypeOK, FlushNext
  PROVE  InMails \subseteq InMails'
<1>1. CASE Sent(Head(outbox)) /\ outbox' = Tail(outbox) /\ UNCHANGED binned
  <2>1. outbox \in Seq(SUBSET Lines) /\ outbox # <<>>
    BY DEF TypeOK, FlushNext
  <2>2. ToSet(outbox) = {Head(outbox)} \cup ToSet(Tail(outbox))
    BY <2>1, Consumed
  <2>3. told' = told \cup Head(outbox) /\ binned' = binned /\ outbox' = Tail(outbox)
    BY <1>1 DEF Sent
  <2>. QED
    BY <2>2, <2>3 DEF InMails
<1>2. CASE UNCHANGED mails
  BY <1>2, MailsStay
<1>. QED
  BY <1>1, <1>2 DEF FlushNext

\* No step loses a line that is in a mail.
LEMMA MailsKeep ==
  TypeOK /\ [Next]_vars => InMails \subseteq InMails'
<1>. SUFFICES ASSUME TypeOK, [Next]_vars PROVE InMails \subseteq InMails'
  OBVIOUS
<1>1. CASE UNCHANGED mails
  BY <1>1, MailsStay
<1>2. CASE FlushNext
  BY <1>2, FlushKeeps
<1>3. CASE Mail({})
  <2>1. {} \in SUBSET Lines
    OBVIOUS
  <2>. QED
    BY <1>3, <2>1, Mailing
<1>4. CASE AlertNext
  BY <1>4, Alerting, Mailing
<1>. QED
  BY <1>1, <1>2, <1>3, <1>4
     DEF Next, Starts, Loop, vars, Begin, StartMail, StartSave, Resume, StartFinished, Sample, Record,
         SampleEnds, Finish, Check, CheckSave, FlushEnds, AlertsEnd, Daily, PassSave, Sleep, EndMail,
         EndSave, WriteSums, Stop, Die, Reboot, Wait, LogLine

\* A hit of a sample or a check that is recorded.
LEMMA RecordNext ==
  ASSUME TypeOK, Record
  PROVE  /\ Head(todo) \in Hits /\ Tail(todo) \in Seq(Hits) /\ todo' = Tail(todo)
         /\ ToSet(todo) = {Head(todo)} \cup ToSet(todo')
         /\ SameBut(st, st') /\ events \subseteq events' /\ cut \subseteq cut'
         /\ \E e \in events' : e.key = Head(todo).key /\ e.hits = Head(todo).hits /\ e.t = clock /\ e.boot = boot
         /\ InPending(st) \subseteq InPending(st')
         /\ Head(todo).hits \subseteq InPending(st') \cup cut'
<1>1. todo \in Seq(Hits) /\ todo # <<>> /\ Event(Head(todo)) /\ todo' = Tail(todo)
  BY DEF TypeOK, Record
<1>2. /\ Head(todo) \in Hits /\ Tail(todo) \in Seq(Hits)
      /\ ToSet(todo) = {Head(todo)} \cup ToSet(Tail(todo))
  BY <1>1, Consumed
<1>3. st \in States /\ clock \in Nat /\ boot \in Nat /\ events \subseteq Events /\ cut \subseteq Lines
  BY DEF TypeOK
<1>. QED
  BY <1>1, <1>2, <1>3, Recording

\* The save of a state: it is kept, with K8 if the file was not written, or the process ends.
LEMMA SaveNext ==
  ASSUME TypeOK, NEW next, SaveOrReport(next) \/ SaveOrFail(next)
  PROVE  /\ events \subseteq events' /\ cut \subseteq cut'
         /\ \/ st' = NoState
            \/ SameBut(st, st') /\ InPending(st) \subseteq InPending(st')
<1>1. CASE Event(Plain("K8"))
  <2>1. Plain("K8") \in Hits
    BY KeySet, BareHit
  <2>2. st \in States /\ clock \in Nat /\ boot \in Nat /\ events \subseteq Events /\ cut \subseteq Lines
    BY DEF TypeOK
  <2>. QED
    BY <1>1, <2>1, <2>2, Recording
<1>2. CASE UNCHANGED <<events, cut>> /\ st' \in {st, NoState}
  BY <1>2 DEF SameBut
<1>. QED
  BY <1>1, <1>2 DEF SaveOrReport, SaveOrFail, Save, Down, mem

\* An event is never removed, nor a line that the limits of the alerts left out.
LEMMA EventsGrow ==
  TypeOK /\ [Next]_vars => events \subseteq events' /\ cut \subseteq cut'
<1>. SUFFICES ASSUME TypeOK, [Next]_vars PROVE events \subseteq events' /\ cut \subseteq cut'
  OBVIOUS
<1>1. CASE \E next : SaveOrReport(next) \/ SaveOrFail(next)
  BY <1>1, SaveNext
<1>2. CASE Record
  BY <1>2, RecordNext
<1>3. CASE AlertNext
  BY <1>3 DEF AlertNext
<1>4. CASE UNCHANGED <<events, cut>>
  BY <1>4
<1>. QED
  BY <1>1, <1>2, <1>3, <1>4
     DEF Next, Starts, Loop, vars, Begin, StartMail, StartSave, Resume, StartFinished, Sample, SampleEnds,
         Finish, Check, CheckSave, FlushNext, FlushEnds, AlertsEnd, Daily, PassSave, Sleep,
         EndMail, EndSave, WriteSums, Stop, Die, Reboot, Wait, LogLine

\* Only Check counts unreadable journals, and no step takes a fault back.
LEMMA FaultsGrow ==
  TypeOK /\ [Next]_vars => faults["journal"] <= faults'["journal"]
<1>. SUFFICES ASSUME TypeOK, [Next]_vars PROVE faults["journal"] <= faults'["journal"]
  OBVIOUS
<1>0. "journal" \in FaultKinds /\ faults["journal"] \in Nat /\ TypeMails
  BY TypeParts DEF FaultKinds, TypeOK
<1>1. CASE \E k : Strike(k)
  BY <1>0, <1>1, Struck
<1>2. CASE UNCHANGED faults
  BY <1>0, <1>2
<1>3. CASE Mail({})
  BY <1>0, <1>1, <1>2, <1>3 DEF Mail, Sent
<1>4. CASE AlertNext
  BY <1>0, <1>1, <1>2, <1>4 DEF AlertNext, Mail, Sent
<1>5. CASE \E next : SaveOrReport(next) \/ SaveOrFail(next)
  BY <1>0, <1>1, <1>2, <1>5 DEF SaveOrReport, SaveOrFail, Save
<1>6. CASE \E reading \in Readings : Sample(reading)
  BY <1>1, <1>2, <1>6 DEF Sample
<1>. QED
  BY <1>1, <1>2, <1>3, <1>4, <1>5, <1>6
     DEF Next, Starts, Loop, vars, Begin, StartMail, StartSave, Resume, StartFinished, Record, SampleEnds,
         Finish, Check, CheckSave, FlushNext, Sent, FlushEnds, AlertsEnd, Daily, PassSave, Sleep,
         EndMail, EndSave, WriteSums, Stop, Die, Reboot, Wait, LogLine

\* Every step lets time, logs, events and mails grow.
LEMMA GrowsStep ==
  TypeOK /\ [Next]_vars => Grows
<1>. SUFFICES ASSUME TypeOK, [Next]_vars PROVE Grows
  OBVIOUS
<1>0. clock \in Nat /\ boot \in Nat /\ MaxSlow \in Nat
  BY LoggerAssumption DEF TypeOK, LoggerAssumption
<1>a. /\ events \subseteq events' /\ Outside \subseteq Outside'
      /\ faults["journal"] <= faults'["journal"]
  BY MailsKeep, FaultsGrow, EventsGrow DEF Outside
<1>1. CASE UNCHANGED world
  BY <1>0, <1>a, <1>1 DEF world, Grows
<1>2. CASE LogLine
  BY <1>0, <1>a, <1>2 DEF LogLine, Grows
<1>3. CASE Wait \/ Reboot
  BY <1>0, <1>a, <1>3 DEF Wait, Reboot, Grows
<1>4. CASE Sleep
  <2>1. PICK d \in 1..MaxSlow : clock' = clock + d
    BY <1>4 DEF Sleep
  <2>2. clock <= clock'
    BY <1>0, <2>1
  <2>. QED
    BY <1>0, <1>a, <1>4, <2>2 DEF Sleep, Grows
<1>. QED
  BY <1>1, <1>2, <1>3, <1>4
     DEF Next, Starts, Loop, vars, Begin, StartMail, StartSave, Resume, StartFinished, Sample, Record,
         SampleEnds, Finish, Check, CheckSave, FlushNext, FlushEnds, AlertNext, AlertsEnd, Daily, PassSave,
         EndMail, EndSave, WriteSums, Stop, Die

-----------------------------------------------------------------------------
(* Lines keep their places, and what is known of them stays known.         *)

\* A line once in the log stays where it is.
LEMMA LogGrows ==
  ASSUME TypeOK, Grows
  PROVE  /\ \A i \in DOMAIN log : i \in DOMAIN log' /\ log'[i] = log[i] /\ Position(i)' = Position(i)
         /\ \A i \in DOMAIN log' : i \notin DOMAIN log =>
              /\ log'[i].t = clock' /\ log'[i].boot = boot' /\ log'[i].unit \in Units /\ clock' = clock /\ boot' = boot
              /\ \A k \in DOMAIN log : k < i
              /\ DOMAIN log' = 1..i
<1>1. /\ log \in Seq([t : Nat, boot : Nat, unit : Units]) /\ source' = source
      /\ Len(log) \in Nat /\ DOMAIN log = 1..Len(log)
  BY LogShape DEF TypeOK, Grows
<1>2. CASE log' = log
  BY <1>1, <1>2 DEF Position
<1>3. CASE /\ clock' = clock /\ boot' = boot
           /\ \E u \in Units : log' = Append(log, [t |-> clock, boot |-> boot, unit |-> u])
  <2>1. PICK u \in Units : log' = Append(log, [t |-> clock, boot |-> boot, unit |-> u])
    BY <1>3
  <2>. DEFINE l == [t |-> clock, boot |-> boot, unit |-> u]
  <2>2. /\ DOMAIN log' = 1..(Len(log) + 1)
        /\ \A i \in 1..Len(log) : log'[i] = log[i]
        /\ log'[Len(log) + 1] = l
    <3>1. PICK S : log \in Seq(S) /\ l \in S
      <4>1. log \in Seq([t : Nat, boot : Nat, unit : Units]) /\ l \in [t : Nat, boot : Nat, unit : Units]
        BY <1>1 DEF TypeOK
      <4>. QED
        BY <4>1
    <3>. HIDE DEF l
    <3>2. log' = Append(log, l)
      BY <2>1 DEF l
    <3>. QED
      BY <3>1, <3>2
  <2>3. l.t = clock /\ l.boot = boot /\ l.unit = u
    OBVIOUS
  <2>. HIDE DEF l
  <2>4. ASSUME NEW i \in DOMAIN log
        PROVE  i \in DOMAIN log' /\ log'[i] = log[i] /\ Position(i)' = Position(i)
    <3>1. i \in DOMAIN log' /\ log'[i] = log[i]
      BY <1>1, <2>2
    <3>2. \A j \in 1..i : log'[j] = log[j]
      BY <1>1, <2>2
    <3>3. {j \in 1..i : log'[j].boot = log'[i].boot /\ log'[j].unit = log'[i].unit}
            = {j \in 1..i : log[j].boot = log[i].boot /\ log[j].unit = log[i].unit}
      BY <3>1, <3>2
    <3>. QED
      BY <1>1, <3>1, <3>3 DEF Position
  <2>5. ASSUME NEW i \in DOMAIN log', i \notin DOMAIN log
        PROVE  i = Len(log) + 1
    BY <1>1, <2>2, <2>5
  <2>. QED
    BY <1>1, <1>3, <2>2, <2>3, <2>4, <2>5
<1>. QED
  BY <1>2, <1>3 DEF Grows

\* What is told or will be told: hits that were to be recorded are, or still will be.
LEMMA KnownStays ==
  ASSUME TypeOK, TypeOK', Grows, NEW i \in DOMAIN log, NEW q, NEW p,
         Unreadable(q) => Unreadable(p)', Coming(q) \subseteq Coming(p) \cup InLog'
  PROVE  /\ i \in InLog => i \in InLog'
         /\ Hole(i, q) => Hole(i, p)'
         /\ Known(i, q) => Known(i, p)'
<1>1. log'[i] = log[i]
  BY LogGrows
<1>2. i \in InLog => i \in InLog'
  BY DEF Grows, InLog, LinesOf
<1>3. Hole(i, q) => Hole(i, p)'
  <2>1. /\ faults["journal"] \in Nat /\ faults'["journal"] \in Nat /\ boot \in Nat /\ boot' \in Nat
        /\ faults["journal"] <= faults'["journal"] /\ boot <= boot'
        /\ source' = source
    BY DEF TypeOK, Grows, FaultKinds
  <2>2. CASE log[i].unit = "kernel"
    <3>1. Hole(i, q) <=> Unreadable(q) \/ (source = "kmsg" /\ boot > 1)
      BY <2>2 DEF Hole
    <3>2. Hole(i, p)' <=> Unreadable(p)' \/ (source' = "kmsg" /\ boot' > 1)
      BY <1>1, <2>2 DEF Hole
    <3>. HIDE DEF Unreadable
    <3>. QED
      BY <2>1, <3>1, <3>2
  <2>3. CASE log[i].unit # "kernel"
    <3>1. Hole(i, q) <=> faults["journal"] > 0 \/ source = "kmsg"
      BY <2>3 DEF Hole
    <3>2. Hole(i, p)' <=> faults'["journal"] > 0 \/ source' = "kmsg"
      BY <1>1, <2>3 DEF Hole
    <3>. QED
      BY <2>1, <3>1, <3>2
  <2>. QED
    BY <2>2, <2>3
<1>4. Known(i, q) => Known(i, p)'
  BY <1>2, <1>3 DEF Known
<1>. QED
  BY <1>2, <1>3, <1>4

\* With nothing to be recorded.
LEMMA NothingComes ==
  /\ Coming(<<>>) = {} /\ KeysOf(<<>>) = {}
  /\ Grows => (Unreadable(<<>>) => Unreadable(<<>>)')
  /\ Grows => \A q : Unreadable(q) => (\E e \in events' : e.key = "K8") \/ "K8" \in KeysOf(q)
<1>1. Coming(<<>>) = {} /\ KeysOf(<<>>) = {}
  BY Joined DEF Coming, KeysOf, LinesOf
<1>. QED
  BY <1>1 DEF Grows, Unreadable

\* A line that is new comes after every cursor.
LEMMA NewIsLast ==
  ASSUME TypeOK, Grows, NEW i \in DOMAIN log', i \notin DOMAIN log, NEW k \in DOMAIN log,
         log[k].unit = log'[i].unit,
         source = "journal" \/ \A j \in DOMAIN log : log[j].boot = boot'
  PROVE  /\ Position(k) \in Nat /\ Position(i)' \in Nat
         /\ Position(k) < Position(i)'
<1>0. Position(k) \in Nat
  BY PositionType, LogShape
<1>1. i \in Nat /\ k \in Nat \ {0} /\ k < i
  <2>1. k \in Nat \ {0}
    BY LogShape
  <2>2. k < i /\ DOMAIN log' = 1..i
    BY LogGrows
  <2>. QED
    BY <2>1, <2>2
<1>2. /\ log'[i].boot = boot' /\ source' = source /\ DOMAIN log' = 1..i
      /\ \A j \in DOMAIN log : log'[j] = log[j]
  BY LogGrows DEF Grows
<1>3. CASE source = "journal"
  BY <1>0, <1>1, <1>2, <1>3 DEF Position
<1>4. CASE source # "journal"
  <2>. DEFINE U == {j \in 1..k : log[j].boot = log[k].boot /\ log[j].unit = log[k].unit}
              T == {j \in 1..i : log'[j].boot = log'[i].boot /\ log'[j].unit = log'[i].unit}
  <2>1. Position(k) = Cardinality(U) /\ Position(i)' = Cardinality(T)
    BY <1>2, <1>4 DEF Position
  <2>2. \A j \in 1..k : j \in DOMAIN log /\ j \in 1..i
    BY <1>1, LogShape
  <2>3. T \in SUBSET (1..i) /\ U \in SUBSET T
    <3>1. ASSUME NEW j \in U
          PROVE  j \in T
      <4>1. j \in 1..i /\ log'[j] = log[j] /\ log[j].boot = boot' /\ log[j].unit = log'[i].unit
        BY <1>2, <1>4, <2>2
      <4>. QED
        BY <1>2, <4>1
    <3>. QED
      BY <3>1
  <2>4. i \in T /\ i \notin U
    BY <1>1
  <2>. HIDE DEF U, T
  <2>5. Cardinality(U) < Cardinality(T)
    BY <1>1, <2>3, <2>4, Fewer
  <2>6. Cardinality(T) \in Nat
    BY <1>1, <2>3, UpTo
  <2>. QED
    BY <1>0, <2>1, <2>5, <2>6
<1>. QED
  BY <1>3, <1>4

-----------------------------------------------------------------------------
(* What a state says stays true when it is kept, saved or loaded.          *)

\* State r with p to be recorded goes on where state s with q was: no alert
\* and no hit is lost on the way.
Carries(s, q, r, p) ==
  /\ Unreadable(q) => (\E e \in events' : e.key = "K8") \/ "K8" \in KeysOf(p)
  /\ Coming(q) \subseteq Coming(p) \cup (InLog' \cap (Outside' \cup InPending(r)))
  /\ InPending(s) \subseteq Outside' \cup InPending(r)
Continues(s, q, r, p) ==
  /\ r.cursor = s.cursor /\ r.lastCheck = s.lastCheck
  /\ "journal" \in r.episodes => "journal" \in s.episodes
  /\ Carries(s, q, r, p)
Keeps(s, q, r, p) ==
  /\ Continues(s, q, r, p)
  /\ r.finished => s.finished /\ r.end = s.end

\* A cursor that is kept is at the same line.
LEMMA CursorKept ==
  ASSUME TypeOK, Dated, Grows, NEW s \in States, NEW q, Reading(s, q),
         NEW u \in Units, Comparable', s.cursor[u] > 0
  PROVE  \E k \in DOMAIN log : log[k].unit = u /\ s.cursor[u] = Position(k)
<1>1. boot \in Nat /\ boot >= 1 /\ boot <= boot' /\ source' = source
  BY DEF TypeOK, Dated, Grows
<1>2. Comparable
  BY <1>1 DEF Comparable
<1>. QED
  BY <1>2 DEF Reading

\* What is accounted for stays so.
LEMMA AccountedStays ==
  ASSUME TypeOK, TypeOK', Grows, NEW s, NEW q, NEW r, NEW p, Carries(s, q, r, p),
         NEW i \in DOMAIN log, Accounted(s, q, i)
  PROVE  Accounted(r, p, i)'
<1>1. /\ Outside \subseteq Outside' /\ InPending(s) \subseteq Outside' \cup InPending(r)
      /\ Coming(q) \subseteq Coming(p) \cup (InLog' \cap (Outside' \cup InPending(r)))
  BY DEF Grows, Carries
<1>2. (i \in InLog => i \in InLog') /\ (Hole(i, q) => Hole(i, p)')
  <2>1. Unreadable(q) => Unreadable(p)'
    BY DEF Carries, Unreadable
  <2>2. Coming(q) \subseteq Coming(p) \cup InLog'
    BY <1>1
  <2>. QED
    BY <2>1, <2>2, KnownStays
<1>3. InPending(r)' = InPending(r) /\ Coming(p)' = Coming(p)
  BY DEF InPending, Coming, LinesOf
<1>. HIDE DEF Outside, InLog, Hole, InPending, Coming
<1>. QED
  BY <1>1, <1>2, <1>3 DEF Accounted

\* A new line is read by the next read, if positions tell.
LEMMA NewIsUnread ==
  ASSUME TypeOK, TypeOK', Dated, Grows, NEW s \in States, NEW q, Reading(s, q),
         NEW r, r.cursor = s.cursor, r.lastCheck = s.lastCheck, NEW p,
         NEW i \in DOMAIN log', i \notin DOMAIN log, Taken(r, i)'
  PROVE  Hole(i, p)'
<1>. DEFINE u == log'[i].unit
<1>1. log'[i].t = clock /\ u \in Units /\ boot' = boot /\ source' = source /\ source \in {"journal", "kmsg"}
  BY LogGrows, LoggerAssumption DEF Grows, TypeOK, LoggerAssumption
<1>2. s.cursor \in [Units -> 0..MaxLines] /\ s.lastCheck \in Nat /\ s.lastCheck <= clock /\ clock \in Nat
  BY DEF States, Reading, TypeOK
<1>3. s.cursor[u] > 0
  <2>1. s.cursor[u] > 0 \/ log'[i].t < s.lastCheck
    BY DEF Taken
  <2>. QED
    BY <1>1, <1>2, <2>1
<1>4. Position(i)' <= s.cursor[u]
  BY <1>3 DEF Taken
<1>5. ~Comparable'
  <2>. SUFFICES ASSUME Comparable' PROVE FALSE
    OBVIOUS
  <2>1. PICK k \in DOMAIN log : log[k].unit = u /\ s.cursor[u] = Position(k)
    BY <1>1, <1>3, CursorKept
  <2>2. source = "journal" \/ \A j \in DOMAIN log : log[j].boot = boot'
    <3>1. \A j \in DOMAIN log : log[j].boot \in 1..boot
      BY DEF Dated
    <3>2. source = "journal" \/ boot = 1
      BY <1>1 DEF Comparable
    <3>. QED
      BY <1>1, <3>1, <3>2
  <2>3. Position(k) \in Nat /\ Position(i)' \in Nat /\ Position(k) < Position(i)'
    BY <2>1, <2>2, NewIsLast
  <2>. QED
    BY <1>4, <2>1, <2>3
<1>6. source' = "kmsg" /\ boot' > 1
  <2>1. boot \in Nat /\ boot >= 1
    BY DEF TypeOK, Dated
  <2>. QED
    BY <1>1, <1>5, <2>1 DEF Comparable
<1>. QED
  BY <1>6 DEF Hole

\* What a state says of the logs goes over to the one that goes on from it.
LEMMA ReadingKept ==
  ASSUME TypeOK, TypeOK', Dated, Grows, NEW s \in States, NEW q, NEW r \in States, NEW p,
         Reading(s, q), Continues(s, q, r, p)
  PROVE  Reading(r, p)'
<1>0. /\ r.cursor = s.cursor /\ r.lastCheck = s.lastCheck
      /\ "journal" \in r.episodes => "journal" \in s.episodes
      /\ Carries(s, q, r, p)
  BY DEF Continues
<1>1. r.lastCheck <= clock'
  <2>1. s.lastCheck \in Nat /\ clock \in Nat /\ clock' \in Nat
    BY DEF States, TypeOK
  <2>2. s.lastCheck <= clock /\ clock <= clock'
    BY DEF Reading, Grows
  <2>. QED
    BY <1>0, <2>1, <2>2
<1>2. ASSUME NEW u \in Units, Comparable', r.cursor[u] > 0
      PROVE  \E k \in DOMAIN log' : log'[k].unit = u /\ r.cursor[u] = Position(k)'
  <2>1. PICK k \in DOMAIN log : log[k].unit = u /\ s.cursor[u] = Position(k)
    BY <1>0, <1>2, CursorKept
  <2>. QED
    BY <1>0, <2>1, LogGrows
<1>3. "journal" \in r.episodes => Unreadable(p)'
  BY <1>0 DEF Reading, Carries, Unreadable
<1>4. ASSUME NEW i \in DOMAIN log', Taken(r, i)'
      PROVE  Accounted(r, p, i)'
  <2>1. CASE i \in DOMAIN log
    <3>1. log'[i] = log[i] /\ Position(i)' = Position(i) /\ source' = source
      BY <2>1, LogGrows DEF Grows
    <3>2. Taken(s, i)
      BY <1>0, <1>4, <3>1 DEF Taken
    <3>3. Accounted(s, q, i)
      BY <2>1, <3>2 DEF Reading
    <3>. QED
      BY <1>0, <2>1, <3>3, AccountedStays
  <2>2. CASE i \notin DOMAIN log
    <3>1. Hole(i, p)'
      BY <1>0, <1>4, <2>2, NewIsUnread
    <3>. QED
      BY <3>1 DEF Accounted
  <2>. QED
    BY <2>1, <2>2
<1>. QED
  BY <1>1, <1>2, <1>3, <1>4 DEF Reading

\* So does what it says of the end.
LEMMA EndedKept ==
  ASSUME TypeOK, TypeOK', Grows, NEW s \in States, NEW r \in States, Ended(s),
         r.finished => s.finished /\ r.end = s.end
  PROVE  Ended(r)'
<1>. SUFFICES ASSUME r.finished
              PROVE  /\ clock' >= r.end
                     /\ \A i \in DOMAIN log' : log'[i].t < r.end => Known(i, <<>>)'
  BY DEF Ended
<1>1. s.finished /\ r.end = s.end /\ s.end \in Nat /\ clock \in Nat /\ clock' \in Nat /\ clock <= clock'
  BY DEF States, TypeOK, Grows
<1>2. clock >= s.end /\ \A i \in DOMAIN log : log[i].t < s.end => Known(i, <<>>)
  BY <1>1 DEF Ended
<1>3. ASSUME NEW i \in DOMAIN log', log'[i].t < r.end
      PROVE  Known(i, <<>>)'
  <2>1. CASE i \in DOMAIN log
    <3>1. log'[i] = log[i]
      BY <2>1, LogGrows
    <3>2. Known(i, <<>>)
      BY <1>1, <1>2, <1>3, <2>1, <3>1
    <3>. QED
      BY <2>1, <3>2, NothingComes, KnownStays
  <2>2. CASE i \notin DOMAIN log
    <3>1. log'[i].t = clock'
      BY <2>2, LogGrows
    <3>. QED
      BY <1>1, <1>2, <1>3, <3>1
  <2>. QED
    BY <2>1, <2>2
<1>. QED
  BY <1>1, <1>2, <1>3

\* A state that keeps what another one says of the run.
LEMMA SaysKept ==
  ASSUME TypeOK, TypeOK', Dated, Grows, NEW s \in States, NEW q, NEW r \in States, NEW p,
         Says(s, q), Keeps(s, q, r, p)
  PROVE  Says(r, p)'
<1>1. Reading(r, p)'
  BY ReadingKept DEF Says, Keeps
<1>2. Ended(r)'
  <2>1. r.finished => s.finished /\ r.end = s.end
    BY DEF Keeps
  <2>. QED
    BY <2>1, EndedKept DEF Says
<1>. QED
  BY <1>1, <1>2 DEF Says

\* Before anything was read.
LEMMA NoStateSays ==
  TypeOK => Says(NoState, <<>>) /\ Sampling(NoState, <<>>)
<1>. SUFFICES ASSUME TypeOK PROVE Says(NoState, <<>>) /\ Sampling(NoState, <<>>)
  OBVIOUS
<1>1. /\ NoState.cursor = [u \in Units |-> 0] /\ NoState.lastCheck = 0 /\ NoState.episodes = {}
      /\ NoState.finished = FALSE /\ NoState.last = 0 /\ NoState.boot = 0 /\ NoState.start = 0
  BY DEF NoState
<1>2. \A i \in DOMAIN log : ~Taken(NoState, i)
  BY <1>1, LogShape DEF Taken
<1>3. clock \in Nat /\ boot \in Nat /\ row.t \in Nat
  BY DEF TypeOK
<1>4. Says(NoState, <<>>)
  BY <1>1, <1>2, <1>3 DEF Says, Reading, Ended
<1>. QED
  BY <1>1, <1>3, <1>4 DEF Sampling, BootTold, GapSeen

-----------------------------------------------------------------------------
(* Every step goes on from a state, but for a check and the end of the run. *)

\* A state goes on from one that differs in what is not asked about here.
LEMMA KeepsBut ==
  ASSUME Grows, NEW s, NEW r, NEW q,
         r.cursor = s.cursor, r.lastCheck = s.lastCheck,
         "journal" \in r.episodes => "journal" \in s.episodes,
         r.finished => s.finished, r.end = s.end, InPending(s) \subseteq InPending(r)
  PROVE  Keeps(s, q, r, q)
BY NothingComes DEF Keeps, Continues, Carries

\* A state that is left alone goes on from itself.
LEMMA KeepsItself ==
  ASSUME Grows, NEW s, NEW q
  PROVE  Keeps(s, q, s, q)
BY KeepsBut

\* A hit that is recorded is no longer to be recorded.
LEMMA KeepsRecord ==
  ASSUME TypeOK, Grows, Record
  PROVE  Keeps(st, todo, st', todo')
<1>1. /\ ToSet(todo) = {Head(todo)} \cup ToSet(todo')
      /\ SameBut(st, st') /\ cut \subseteq cut'
      /\ \E e \in events' : e.key = Head(todo).key /\ e.hits = Head(todo).hits
      /\ InPending(st) \subseteq InPending(st')
      /\ Head(todo).hits \subseteq InPending(st') \cup cut'
  BY RecordNext
<1>2. /\ Coming(todo) = Head(todo).hits \cup Coming(todo')
      /\ KeysOf(todo) = {Head(todo).key} \cup KeysOf(todo')
  BY <1>1 DEF Coming, KeysOf, LinesOf
<1>3. Head(todo).hits \subseteq InLog'
  BY <1>1 DEF InLog, LinesOf
<1>4. Head(todo).hits \subseteq Outside' \cup InPending(st')
  BY <1>1 DEF Outside
<1>5. Unreadable(todo) => (\E e \in events' : e.key = "K8") \/ "K8" \in KeysOf(todo')
  BY <1>1, <1>2 DEF Unreadable, Grows
<1>. HIDE DEF Coming, InLog, Outside, InPending
<1>. QED
  BY <1>1, <1>2, <1>3, <1>4, <1>5 DEF SameBut, Keeps, Continues, Carries

\* A new run goes on from nothing.
LEMMA KeepsNew ==
  ASSUME TypeOK, Grows, Begin, st' # st
  PROVE  Keeps(NoState, <<>>, st', <<>>) /\ file' = st'
<1>1. /\ st' = [NoState EXCEPT !.start = clock, !.end = clock + RunLen, !.boot = boot, !.lastDaily = clock]
      /\ file' = st'
  BY DEF Begin
<1>2. /\ st'.cursor = NoState.cursor /\ st'.lastCheck = NoState.lastCheck
      /\ st'.episodes = NoState.episodes /\ st'.pending = NoState.pending /\ st'.finished = FALSE
  BY <1>1 DEF NoState
<1>3. InPending(st') = InPending(NoState)
  BY <1>2 DEF InPending
<1>4. Unreadable(<<>>) => (\E e \in events' : e.key = "K8") \/ "K8" \in KeysOf(<<>>)
  BY NothingComes
<1>5. Carries(NoState, <<>>, st', <<>>)
  BY <1>3, <1>4 DEF Carries
<1>6. st'.end = st'.end
  OBVIOUS
<1>. QED
  BY <1>1, <1>2, <1>5 DEF Keeps, Continues

\* A mail of the pending alerts of a key takes them over, but for those that
\* do not fit.
LEMMA KeepsAlert ==
  ASSUME TypeOK, Grows, AlertNext
  PROVE  Keeps(st, todo, st', todo)
<1>1. PICK k \in ToSet(Keys) :
             /\ Mailed(st.pending[k]) \in SUBSET Lines
             /\ Mail(Mailed(st.pending[k]))
             /\ cut' = cut \cup (Quoted(st.pending[k]) \ Mailed(st.pending[k]))
             /\ st' = [st EXCEPT !.sent = [st.sent EXCEPT ![k] = clock],
                                 !.pending = [st.pending EXCEPT ![k] = <<>>]]
  BY Alerting
<1>2. Mailed(st.pending[k]) \subseteq InMails'
  BY <1>1, Mailing
<1>3. Quoted(st.pending[k]) \subseteq Outside'
  BY <1>1, <1>2 DEF Outside
<1>4. /\ st'.pending = [st.pending EXCEPT ![k] = <<>>] /\ st'.cursor = st.cursor
      /\ st'.lastCheck = st.lastCheck /\ st'.episodes = st.episodes
      /\ st'.finished = st.finished /\ st'.end = st.end
  BY <1>1 DEF TypeOK, States
<1>5. InPending(st) \subseteq Outside' \cup InPending(st')
  <2>1. \A j \in ToSet(Keys) : j # k => st'.pending[j] = st.pending[j]
    <3>1. st.pending \in [ToSet(Keys) -> Seq(SUBSET Lines)]
      BY DEF TypeOK, States
    <3>. QED
      BY <1>4, <3>1
  <2>2. \A j \in ToSet(Keys) : Quoted(st.pending[j]) \subseteq Outside' \cup InPending(st')
    BY <1>3, <2>1 DEF InPending
  <2>. HIDE DEF Outside
  <2>. QED
    BY <2>2 DEF InPending
<1>6. Unreadable(todo) => (\E e \in events' : e.key = "K8") \/ "K8" \in KeysOf(todo)
  BY NothingComes
<1>. HIDE DEF Outside, InPending
<1>. QED
  BY <1>4, <1>5, <1>6 DEF Keeps, Continues, Carries

\* A sample leaves the alerts alone.
LEMMA KeepsSample ==
  ASSUME TypeOK, Grows, NEW reading \in Readings, Sample(reading)
  PROVE  Keeps(st, <<>>, st', todo')
<1>. DEFINE zero == Zeros(reading)
            ep == Episodes(st, "hot", reading = "hot")
<1>1. /\ st' = [st EXCEPT !.boot = boot, !.last = clock, !.sampled = TRUE,
                          !.zero = zero, !.episodes = ep]
      /\ st \in States
  BY DEF Sample, TypeOK
<1>2. "journal" \in ep <=> "journal" \in st.episodes
  BY DEF Episodes
<1>. HIDE DEF zero, ep
<1>3. /\ st'.pending = st.pending /\ st'.cursor = st.cursor
      /\ st'.lastCheck = st.lastCheck /\ st'.episodes = ep
      /\ st'.finished = st.finished /\ st'.end = st.end
  BY <1>1 DEF States
<1>4. InPending(st') = InPending(st)
  BY <1>3 DEF InPending
<1>5. Unreadable(<<>>) => \E e \in events' : e.key = "K8"
  BY NothingComes
<1>6. Carries(st, <<>>, st', todo')
  BY <1>4, <1>5, NothingComes DEF Carries
<1>. QED
  BY <1>2, <1>3, <1>6 DEF Keeps, Continues

\* Only after a sample or a check there is something to record.
LEMMA NothingTodo ==
  ASSUME TypeOK, pc \notin {"sampled", "checked"}
  PROVE  todo = <<>>
BY DEF TypeOK

\* The state in memory goes on from itself, from the state file or from
\* nothing. A check and the end of the run say more than before.
LEMMA StateFrom ==
  ASSUME IInv, Grows, [Next]_vars, ~Check, ~EndMail
  PROVE  Keeps(st, todo, st', todo') \/ Keeps(file, <<>>, st', todo') \/ Keeps(NoState, <<>>, st', todo')
<1>0. TypeOK /\ st \in States /\ file \in States
  BY DEF IInv, TypeOK
<1>1. CASE st' = st /\ todo' = todo
  BY <1>1, KeepsItself
<1>2. CASE st' = NoState /\ todo' = <<>>
  BY <1>2, KeepsItself
<1>3. CASE Begin
  <2>1. todo = <<>> /\ todo' = todo
    BY <1>0, <1>3, NothingTodo DEF Begin
  <2>. QED
    BY <1>0, <1>1, <1>3, <2>1, KeepsNew
<1>4. CASE \E next : (SaveOrReport(next) \/ SaveOrFail(next)) /\ todo = <<>>
  <2>1. PICK next : (SaveOrReport(next) \/ SaveOrFail(next)) /\ todo = <<>>
    BY <1>4
  <2>2. todo' = todo
    BY <2>1 DEF SaveOrReport, SaveOrFail, Save, Down, mem
  <2>3. st' = NoState \/ (SameBut(st, st') /\ InPending(st) \subseteq InPending(st'))
    BY <1>0, <2>1, SaveNext
  <2>. QED
    BY <1>2, <2>1, <2>2, <2>3, KeepsBut DEF SameBut
<1>5. CASE \E reading \in Readings : Sample(reading)
  <2>1. todo = <<>>
    BY <1>0, <1>5, NothingTodo DEF Sample
  <2>. QED
    BY <1>0, <1>5, <2>1, KeepsSample
<1>6. CASE AlertNext
  <2>1. todo' = todo
    BY <1>6 DEF AlertNext
  <2>. QED
    BY <1>0, <1>6, <2>1, KeepsAlert
<1>7. CASE Resume
  <2>1. /\ st'.cursor = file.cursor /\ st'.lastCheck = file.lastCheck
        /\ st'.episodes = file.episodes /\ st'.pending = file.pending
        /\ st'.finished = file.finished /\ st'.end = file.end
    BY <1>0, <1>7 DEF Resume, States
  <2>2. todo' = <<>>
    BY <1>0, <1>7, NothingTodo DEF Resume
  <2>3. InPending(file) \subseteq InPending(st')
    BY <2>1 DEF InPending
  <2>. QED
    BY <2>1, <2>2, <2>3, KeepsBut
<1>8. CASE Daily
  <2>1. /\ st'.cursor = st.cursor /\ st'.lastCheck = st.lastCheck
        /\ st'.episodes = st.episodes /\ st'.pending = st.pending
        /\ st'.finished = st.finished /\ st'.end = st.end
    BY <1>0, <1>8 DEF Daily, States
  <2>2. todo' = todo
    BY <1>8 DEF Daily
  <2>3. InPending(st) \subseteq InPending(st')
    BY <2>1 DEF InPending
  <2>. QED
    BY <2>1, <2>2, <2>3, KeepsBut
<1>9. CASE Record
  BY <1>0, <1>9, KeepsRecord
<1>10. CASE StartSave \/ CheckSave \/ PassSave \/ EndSave
  <2>1. todo = <<>>
    BY <1>0, <1>10, NothingTodo DEF StartSave, CheckSave, PassSave, EndSave
  <2>. QED
    BY <1>4, <1>10, <2>1 DEF StartSave, CheckSave, PassSave, EndSave
<1>. QED
  BY <1>1, <1>2, <1>3, <1>5, <1>6, <1>7, <1>8, <1>9, <1>10
     DEF Next, Starts, Loop, vars, mem, StartMail, StartFinished, Down, SampleEnds,
         Finish, FlushNext, FlushEnds, AlertsEnd, Sleep, WriteSums, Stop, Die, Reboot, Wait, LogLine

\* The state file is left alone, or gets the state in memory, with nothing to be recorded.
LEMMA FileFrom ==
  ASSUME TypeOK, [Next]_vars
  PROVE  \/ file' = file
         \/ file' = st /\ todo = <<>>
         \/ Begin /\ st' # st /\ file' = st'
<1>1. CASE StartSave \/ CheckSave \/ PassSave \/ EndSave
  <2>1. todo = <<>>
    BY <1>1, NothingTodo DEF StartSave, CheckSave, PassSave, EndSave
  <2>. QED
    BY <1>1, <2>1 DEF StartSave, CheckSave, PassSave, EndSave, SaveOrReport, SaveOrFail, Save
<1>2. CASE Begin
  BY <1>2, NothingTodo DEF Begin
<1>3. CASE Stop
  BY <1>3, NothingTodo DEF Stop
<1>4. CASE file' = file
  BY <1>4
<1>. QED
  BY <1>1, <1>2, <1>3, <1>4
     DEF Next, Starts, Loop, vars, StartMail, Resume, StartFinished, Sample, Record, SampleEnds,
         Finish, Check, FlushNext, FlushEnds, AlertNext, AlertsEnd, Daily, Sleep,
         EndMail, WriteSums, Die, Reboot, Wait, LogLine

-----------------------------------------------------------------------------
(* A check accounts for every line.                                        *)

\* A line that a read of its log does not return was taken before, or is of
\* a boot that /dev/kmsg no longer knows.
LEMMA NotUnread ==
  ASSUME TypeOK, Dated, NEW s \in States, NEW q, Reading(s, q),
         NEW i \in DOMAIN log, i \notin Unread(s, log[i].unit)
  PROVE  Accounted(s, q, i)
<1>. DEFINE u == log[i].unit
<1>1. u \in Units /\ log[i].boot \in 1..boot /\ boot \in Nat /\ log[i].t \in Nat
      /\ source \in {"journal", "kmsg"} /\ Position(i) \in Nat
  <2>1. i \in Nat /\ u \in Units /\ log[i].t \in Nat
    BY LogShape
  <2>2. Position(i) \in 1..i
    BY PositionType
  <2>3. log[i].boot \in 1..boot /\ boot \in Nat
    BY DEF Dated, TypeOK
  <2>4. source \in {"journal", "kmsg"}
    BY LoggerAssumption DEF TypeOK, LoggerAssumption
  <2>. QED
    BY <2>1, <2>2, <2>3, <2>4
<1>2. s.cursor[u] \in Nat /\ s.lastCheck \in Nat
  <2>1. s.cursor \in [Units -> 0..MaxLines] /\ s.lastCheck \in Nat
    BY DEF States
  <2>. QED
    BY <1>1, <2>1
<1>3. CASE source = "kmsg" /\ log[i].boot # boot
  <2>1. boot > 1
    BY <1>1, <1>3
  <2>. QED
    BY <1>3, <2>1 DEF Accounted, Hole
<1>4. CASE ~(source = "kmsg" /\ log[i].boot # boot)
  <2>1. /\ ~(s.cursor[u] > 0 /\ Position(i) > s.cursor[u])
        /\ ~(s.cursor[u] = 0 /\ (source = "journal" => log[i].t >= s.lastCheck))
    BY <1>4 DEF Unread
  <2>2. Taken(s, i)
    BY <1>1, <1>2, <2>1 DEF Taken
  <2>. QED
    BY <2>2 DEF Reading
<1>. QED
  BY <1>3, <1>4

\* After a read, and whatever of it failed, every line is accounted for.
LEMMA ReadFinds ==
  ASSUME TypeOK, TypeOK', Dated, Grows, Reading(st, <<>>), UNCHANGED <<world, events, mails, cut>>,
         NEW readable \in SUBSET Units, Read(readable),
         readable = Readable \/ faults'["journal"] > 0
  PROVE  /\ Reading(st, todo)'
         /\ \A i \in DOMAIN log' : Known(i, todo)'
         /\ st'.finished = st.finished /\ st'.end = st.end
<1>. DEFINE lines == LinesRead(readable)
            hits == HitsRead(readable)
<1>1. /\ todo' = hits
      /\ st'.cursor = [u \in Units |-> Cursor(u, lines[u])] /\ st'.lastCheck = clock
      /\ st'.episodes = Episodes(st, "journal", "kernel" \notin readable)
      /\ st'.pending = st.pending
      /\ st'.finished = st.finished /\ st'.end = st.end
  <2>1. st \in States
    BY DEF TypeOK
  <2>. DEFINE k == st.k1 + Cardinality(lines["kernel"])
              k1 == IF k < K1Max THEN k ELSE K1Max
  <2>2. /\ todo' = hits
        /\ st' = [st EXCEPT !.cursor = [u \in Units |-> Cursor(u, lines[u])], !.k1 = k1,
                     !.lastCheck = clock, !.episodes = Episodes(st, "journal", "kernel" \notin readable)]
    BY DEF Read, LinesRead, HitsRead
  <2>. HIDE DEF hits, lines, k1
  <2>. QED
    BY <2>1, <2>2 DEF States
<1>2. /\ \A u \in Units : lines[u] \in SUBSET DOMAIN log
      /\ \A u \in Units : lines[u] \subseteq Coming(hits)
      /\ "kernel" \notin readable /\ "journal" \notin st.episodes => "K8" \in KeysOf(hits)
  BY ReadAll
<1>3. /\ clock' = clock /\ boot' = boot /\ source' = source /\ log' = log
      /\ st \in States /\ clock \in Nat /\ source \in {"journal", "kmsg"}
  BY LoggerAssumption DEF world, TypeOK, LoggerAssumption
<1>5. \A i : Position(i)' = Position(i)
  BY <1>3 DEF Position
<1>6. "kernel" \notin readable => Unreadable(todo)'
  <2>1. CASE "journal" \in st.episodes
    <3>1. \E e \in events : e.key = "K8"
      BY <2>1, NothingComes DEF Reading, Unreadable
    <3>. QED
      BY <3>1 DEF Unreadable
  <2>2. CASE "journal" \notin st.episodes
    <3>1. "kernel" \notin readable => "K8" \in KeysOf(hits)
      BY <1>2, <2>2
    <3>2. KeysOf(todo)' = KeysOf(hits)
      BY <1>1 DEF KeysOf
    <3>. QED
      BY <3>1, <3>2 DEF Unreadable
  <2>. QED
    BY <2>1, <2>2
<1>7. \A u \in Units : lines[u] \subseteq Coming(todo)'
  <2>1. Coming(todo)' = Coming(hits)
    BY <1>1 DEF Coming, LinesOf
  <2>. QED
    BY <1>2, <2>1
<1>. HIDE DEF hits
<1>8. ASSUME NEW i \in DOMAIN log
      PROVE  Accounted(st, todo, i)'
  <2>. DEFINE u == log[i].unit
  <2>1. u \in Units
    BY LogShape
  <2>2. CASE u \in readable /\ i \in Unread(st, u)
    <3>1. i \in lines[u]
      BY <2>1, <2>2 DEF LinesRead
    <3>2. i \in Coming(todo)'
      BY <1>7, <2>1, <3>1
    <3>. QED
      BY <3>2 DEF Accounted
  <2>3. CASE u \in readable /\ i \notin Unread(st, u)
    <3>1. Accounted(st, <<>>, i)
      BY <1>3, <2>3, NotUnread
    <3>2. InPending(st') = InPending(st)
      BY <1>1 DEF InPending
    <3>3. Carries(st, <<>>, st', todo')
      BY <3>2, NothingComes DEF Carries
    <3>4. \A r, p : Carries(st, <<>>, r, p) => Accounted(r, p, i)'
      BY <1>3, <3>1, AccountedStays
    <3>. QED
      BY <3>3, <3>4 DEF Accounted, InPending, Coming, LinesOf, Hole, Unreadable, KeysOf
  <2>4. CASE u \notin readable /\ u = "kernel"
    <3>1. Hole(i, todo)'
      BY <1>3, <1>6, <2>4 DEF Hole
    <3>. QED
      BY <3>1 DEF Accounted
  <2>5. CASE u \notin readable /\ u = "fangov"
    <3>1. source = "kmsg" \/ faults'["journal"] > 0
      BY <1>3, <2>5 DEF Readable, Units
    <3>2. Hole(i, todo)'
      BY <1>3, <2>5, <3>1 DEF Hole
    <3>. QED
      BY <3>2 DEF Accounted
  <2>. QED
    BY <2>1, <2>2, <2>3, <2>4, <2>5 DEF Units
<1>9. \A i \in DOMAIN log' : Accounted(st, todo, i)' /\ Known(i, todo)'
  BY <1>3, <1>8 DEF Accounted, Known
<1>10. ASSUME NEW u \in Units, Comparable', st'.cursor[u] > 0
       PROVE  \E k \in DOMAIN log' : log'[k].unit = u /\ st'.cursor[u] = Position(k)'
  <2>1. st'.cursor[u] = Cursor(u, lines[u])
    BY <1>1
  <2>2. CASE lines[u] = {}
    <3>1. st'.cursor[u] = st.cursor[u]
      BY <1>2, <2>1, <2>2, CursorAt
    <3>2. \E k \in DOMAIN log : log[k].unit = u /\ st.cursor[u] = Position(k)
      BY <1>3, <1>10, <3>1, CursorKept
    <3>. QED
      BY <1>3, <1>5, <3>1, <3>2
  <2>3. CASE lines[u] # {}
    <3>1. Max(lines[u]) \in lines[u] /\ st'.cursor[u] = Position(Max(lines[u]))
      BY <1>2, <2>1, <2>3, CursorAt
    <3>2. lines[u] \subseteq Unread(st, u)
      BY DEF LinesRead
    <3>3. Max(lines[u]) \in DOMAIN log /\ log[Max(lines[u])].unit = u
      BY <3>1, <3>2 DEF Unread
    <3>. QED
      BY <1>3, <1>5, <3>1, <3>3
  <2>. QED
    BY <2>2, <2>3
<1>11. "journal" \in st'.episodes => Unreadable(todo)'
  BY <1>1, <1>6 DEF Episodes
<1>12. Reading(st, todo)'
  BY <1>1, <1>3, <1>9, <1>10, <1>11 DEF Reading
<1>. QED
  BY <1>1, <1>9, <1>12

\* A check says what there is to say of every line.
LEMMA CheckSays ==
  ASSUME IInv, TypeOK', Grows, Check
  PROVE  Says(st, todo)' /\ \A i \in DOMAIN log' : Known(i, todo)'
<1>0. /\ TypeOK /\ Dated /\ Reading(st, <<>>) /\ Ended(st)
      /\ st \in States /\ st' \in States
  BY NothingTodo DEF IInv, Says, TypeOK, Check
<1>1. UNCHANGED <<world, events, mails, cut>>
  BY DEF Check
<1>2. PICK readable \in SUBSET Units :
             Read(readable) /\ (readable = Readable \/ faults'["journal"] > 0)
  <2>1. CASE Read(Readable)
    BY <2>1 DEF Readable, Units
  <2>2. CASE Strike("journal") /\ \E fail \in (SUBSET Units) \ {{}} : Read(Readable \ fail)
    <3>1. PICK fail \in SUBSET Units : Read(Readable \ fail)
      BY <2>2
    <3>2. faults'["journal"] > 0
      <4>1. TypeMails /\ "journal" \in FaultKinds
        BY <1>0, TypeParts DEF FaultKinds
      <4>. QED
        BY <2>2, <4>1, Struck
    <3>3. Readable \ fail \in SUBSET Units
      BY DEF Readable, Units
    <3>. QED
      BY <3>1, <3>2, <3>3
  <2>. QED
    BY <2>1, <2>2 DEF Check
<1>3. /\ Reading(st, todo)' /\ \A i \in DOMAIN log' : Known(i, todo)'
      /\ st'.finished = st.finished /\ st'.end = st.end
  BY <1>0, <1>1, <1>2, ReadFinds
<1>4. Ended(st)'
  BY <1>0, <1>3, EndedKept
<1>. QED
  BY <1>3, <1>4 DEF Says

\* The end of a run comes after it, and after a check.
LEMMA EndSays ==
  ASSUME IInv, TypeOK', Grows, EndMail
  PROVE  Says(st, todo)'
<1>0. /\ TypeOK /\ Dated /\ Reading(st, <<>>) /\ st \in States /\ st' \in States
      /\ clock' = clock /\ log' = log /\ todo = <<>> /\ todo' = <<>>
  BY NothingTodo DEF IInv, Says, TypeOK, EndMail, world
<1>1. /\ st'.cursor = st.cursor /\ st'.lastCheck = st.lastCheck
      /\ st'.episodes = st.episodes /\ st'.pending = st.pending /\ st'.end = st.end
  BY <1>0 DEF EndMail, States
<1>2. Reading(st, todo)'
  <2>1. InPending(st') = InPending(st)
    BY <1>1 DEF InPending
  <2>2. Continues(st, <<>>, st', <<>>)
    BY <1>1, <2>1, NothingComes DEF Continues, Carries
  <2>3. \A r \in States : Continues(st, <<>>, r, <<>>) => Reading(r, <<>>)'
    BY <1>0, ReadingKept
  <2>. QED
    BY <1>0, <2>2, <2>3 DEF Reading, Accounted, InPending, Coming, LinesOf, Hole, Unreadable, KeysOf, Taken
<1>3. clock >= st.end /\ \A i \in DOMAIN log : Known(i, <<>>)
  BY <1>0 DEF IInv, Phases, Place, EndMail
<1>4. Ended(st)'
  BY <1>0, <1>1, <1>3, KnownStays, NothingComes DEF Ended
<1>. QED
  BY <1>2, <1>4 DEF Says

\* States in memory and on the disk keep saying what is so.
LEMMA SaysStep ==
  ASSUME IInv, TypeOK', Grows, [Next]_vars
  PROVE  Says(st, todo)' /\ Says(file, <<>>)'
<1>0. /\ TypeOK /\ Dated /\ Says(st, todo) /\ Says(file, <<>>) /\ Says(NoState, <<>>)
      /\ st \in States /\ file \in States /\ NoState \in States
      /\ st' \in States /\ file' \in States
  BY NoStateSays, StateTypes DEF IInv, TypeOK
<1>1. Says(st, todo)'
  <2>1. CASE Check
    BY <2>1, CheckSays
  <2>2. CASE EndMail
    BY <2>2, EndSays
  <2>3. CASE ~Check /\ ~EndMail
    <3>1. Keeps(st, todo, st', todo') \/ Keeps(file, <<>>, st', todo') \/ Keeps(NoState, <<>>, st', todo')
      BY <2>3, StateFrom
    <3>. QED
      BY <1>0, <3>1, SaysKept
  <2>. QED
    BY <2>1, <2>2, <2>3
<1>2. Says(file, <<>>)'
  <2>1. CASE file' = file
    BY <1>0, <2>1, KeepsItself, SaysKept
  <2>2. CASE file' = st /\ todo = <<>>
    BY <1>0, <2>2, KeepsItself, SaysKept
  <2>3. CASE Begin /\ st' # st
    BY <1>0, <2>3, KeepsNew, SaysKept
  <2>. QED
    BY <1>0, <2>1, <2>2, <2>3, FileFrom
<1>. QED
  BY <1>1, <1>2

\* Nothing comes from the future.
LEMMA DatedStep ==
  ASSUME TypeOK, TypeOK', Dated, Grows, [Next]_vars
  PROVE  Dated'
<1>1. /\ clock \in Nat /\ boot \in Nat /\ clock' \in Nat /\ boot' \in Nat
      /\ row.t \in Nat /\ row.boot \in Nat /\ row.gap \in Nat
      /\ clock <= clock' /\ boot <= boot' /\ clock >= 1 /\ boot >= 1
      /\ row.t <= clock /\ row.boot <= boot /\ row.gap <= row.t
  BY DEF TypeOK, Dated, Grows
<1>2. row'.t <= clock' /\ row'.boot <= boot' /\ row'.gap <= row'.t
  <2>1. CASE row' = row
    BY <1>1, <2>1
  <2>2. CASE \E reading \in Readings : Sample(reading)
    <3>1. row'.t = clock /\ row'.boot = boot /\ row'.gap \in {clock, row.gap}
      BY <2>2 DEF Sample
    <3>. QED
      BY <1>1, <3>1
  <2>. QED
    BY <2>1, <2>2
       DEF Next, Starts, Loop, vars, Begin, StartMail, StartSave, Resume, StartFinished, Record, SampleEnds,
           Finish, Check, CheckSave, FlushNext, FlushEnds, AlertNext, AlertsEnd, Daily, PassSave,
           Sleep, EndMail, EndSave, WriteSums, Stop, Die, Reboot, Wait, LogLine
<1>3. ASSUME NEW i \in DOMAIN log'
      PROVE  log'[i].t <= clock' /\ log'[i].boot \in 1..boot'
  <2>1. CASE i \in DOMAIN log
    <3>1. log'[i] = log[i] /\ log[i].t \in Nat /\ log[i].t <= clock /\ log[i].boot \in 1..boot
      BY <2>1, LogGrows, LogShape DEF Dated
    <3>. QED
      BY <1>1, <3>1
  <2>2. CASE i \notin DOMAIN log
    <3>1. log'[i].t = clock' /\ log'[i].boot = boot'
      BY <2>2, LogGrows
    <3>. QED
      BY <1>1, <3>1
  <2>. QED
    BY <2>1, <2>2
<1>. QED
  BY <1>1, <1>2, <1>3 DEF Dated

-----------------------------------------------------------------------------
(* What the states say of the last row.                                    *)

\* The hits for a reboot and for a gap, if there was one since the state.
LEMMA Breaks ==
  ASSUME st.sampled \/ st.resumed
  PROVE  /\ boot # st.boot => "K2" \in KeysOf(BreakHits)
         /\ st.last > 0 /\ clock - st.last > GapMax => "K5" \in KeysOf(BreakHits)
<1>. DEFINE k2 == <<Plain("K2")>>
            k5 == IF st.last > 0 /\ clock - st.last > GapMax THEN <<Plain("K5")>> ELSE <<>>
<1>1. BreakHits = IF boot # st.boot THEN k2 \o k5 ELSE k5
  BY DEF BreakHits
<1>2. /\ k2 \in Seq(Hits) /\ k5 \in Seq(Hits) /\ \E h \in ToSet(k2) : h.key = "K2"
      /\ st.last > 0 /\ clock - st.last > GapMax => \E h \in ToSet(k5) : h.key = "K5"
  <2>1. \A k \in {"K2", "K5"} : Plain(k) \in Hits /\ Plain(k).key = k
    BY KeySet, BareHit
  <2>. QED
    BY <2>1, Joined
<1>. HIDE DEF k2, k5
<1>3. ToSet(k2 \o k5) = ToSet(k2) \cup ToSet(k5)
  BY <1>2, Joined
<1>. QED
  BY <1>1, <1>2, <1>3 DEF KeysOf

\* The last row stays as it is; a state goes on from another.
LEMMA SamplingKept ==
  ASSUME Grows, NEW s, NEW q, NEW r, NEW p, Sampling(s, q), row' = row,
         r.start = s.start, r.last = s.last, r.boot = s.boot,
         q = <<>> \/ (q = p /\ boot' = boot)
  PROVE  Sampling(r, p)'
<1>1. events \subseteq events' /\ KeysOf(<<>>) = {}
  BY NothingComes DEF Grows
<1>2. BootTold(r, p)'
  <2>1. s.boot > 1 => \/ \E e \in events : e.key = "K2" /\ e.boot = s.boot
                      \/ "K2" \in KeysOf(q) /\ s.boot = boot
    BY DEF Sampling, BootTold
  <2>. QED
    BY <1>1, <2>1 DEF BootTold, KeysOf
<1>3. GapSeen(r, p)'
  <2>1. s.start > 0 /\ row.gap > 0 =>
          \/ GapTold \/ "K5" \in KeysOf(q)
          \/ s.last > 0 /\ row.gap - s.last > GapMax
    BY DEF Sampling, GapSeen
  <2>2. GapTold => GapTold'
    BY <1>1 DEF GapTold
  <2>3. "K5" \in KeysOf(q) => "K5" \in KeysOf(p)'
    BY <1>1 DEF KeysOf
  <2>. HIDE DEF GapTold
  <2>. QED
    BY <2>1, <2>2, <2>3 DEF GapSeen
<1>4. r.last <= row'.t
  BY DEF Sampling
<1>. QED
  BY <1>2, <1>3, <1>4 DEF Sampling

\* A sample tells of the breaks that its row shows.
LEMMA SampleSees ==
  ASSUME IInv, Grows, NEW reading \in Readings, Sample(reading)
  PROVE  Sampling(st, todo)' /\ Sampling(file, <<>>)'
<1>1. /\ TypeOK /\ Dated /\ Place /\ todo = <<>> /\ st \in States /\ file \in States
      /\ Sampling(st, <<>>) /\ Sampling(file, <<>>)
  BY NothingTodo DEF IInv, Phases, TypeOK, Sample
<1>2. /\ clock \in Nat /\ boot \in Nat /\ row.t \in Nat /\ row.gap \in Nat /\ GapMax \in Nat
      /\ st.last \in Nat /\ st.boot \in Nat /\ file.last \in Nat /\ file.boot \in Nat
      /\ row.gap <= row.t /\ row.t <= clock /\ KeysOf(<<>>) = {}
  BY <1>1, LoggerAssumption, NothingComes DEF LoggerAssumption, TypeOK, States, Dated
<1>3. /\ row'.t = clock /\ boot' = boot /\ file' = file /\ events' = events
      /\ row'.gap = IF row.t > 0 /\ clock - row.t > GapMax /\ file.last > 0 THEN clock ELSE row.gap
      /\ st'.last = clock /\ st'.boot = boot /\ st'.start = st.start
      /\ todo' = SampleHits(reading)
  <2>. DEFINE zero == Zeros(reading)
              ep == Episodes(st, "hot", reading = "hot")
  <2>1. st' = [st EXCEPT !.boot = boot, !.last = clock, !.sampled = TRUE, !.zero = zero, !.episodes = ep]
    BY DEF Sample
  <2>. HIDE DEF zero, ep
  <2>2. st'.last = clock /\ st'.boot = boot /\ st'.start = st.start
    BY <1>1, <2>1 DEF States
  <2>. QED
    BY <2>2 DEF Sample, world
<1>4. /\ row.t > 0 => st.sampled \/ st.resumed
      /\ st.sampled \/ st.resumed \/ st.boot = boot
      /\ file.last > 0 => st.last > 0
  BY <1>1 DEF Place, Sample, Up
<1>5. KeysOf(BreakHits) \subseteq KeysOf(todo')
  BY <1>3, SampleType
<1>6. KeysOf(todo)' = KeysOf(todo')
  BY DEF KeysOf
<1>7. BootTold(st, todo)'
  <2>1. CASE boot # st.boot
    <3>1. "K2" \in KeysOf(todo')
      BY <1>4, <1>5, <2>1, Breaks
    <3>. QED
      BY <1>3, <1>6, <3>1 DEF BootTold
  <2>2. CASE boot = st.boot
    <3>1. boot > 1 => \E e \in events : e.key = "K2" /\ e.boot = boot
      BY <1>1, <1>2, <2>2 DEF Sampling, BootTold
    <3>. QED
      BY <1>3, <3>1 DEF BootTold
  <2>. QED
    BY <2>1, <2>2
<1>8. GapSeen(st, todo)'
  <2>1. CASE row.t > 0 /\ clock - row.t > GapMax /\ file.last > 0
    <3>1. st.last > 0 /\ st.last <= row.t
      BY <1>1, <1>4, <2>1 DEF Sampling
    <3>2. "K5" \in KeysOf(todo')
      BY <1>2, <1>4, <1>5, <2>1, <3>1, Breaks
    <3>. QED
      BY <1>6, <3>2 DEF GapSeen
  <2>2. CASE row'.gap = row.gap
    <3>1. st.start > 0 /\ row.gap > 0 => GapTold \/ (st.last > 0 /\ row.gap - st.last > GapMax)
      BY <1>1, <1>2 DEF Sampling, GapSeen
    <3>2. GapTold => GapTold'
      BY <1>3, <2>2 DEF GapTold
    <3>3. row.gap > 0 /\ st.last > 0 /\ row.gap - st.last > GapMax => "K5" \in KeysOf(todo')
      BY <1>2, <1>4, <1>5, Breaks
    <3>. HIDE DEF GapTold
    <3>. QED
      BY <1>3, <1>6, <2>2, <3>1, <3>2, <3>3 DEF GapSeen
  <2>. QED
    BY <1>3, <2>1, <2>2
<1>9. Sampling(st, todo)'
  BY <1>2, <1>3, <1>7, <1>8 DEF Sampling
<1>10. GapSeen(file, <<>>)'
  <2>1. CASE row.t > 0 /\ clock - row.t > GapMax /\ file.last > 0
    <3>1. file.last <= row.t
      BY <1>1 DEF Sampling
    <3>2. clock - file.last > GapMax
      BY <1>2, <2>1, <3>1
    <3>. QED
      BY <1>3, <2>1, <3>2 DEF GapSeen
  <2>2. CASE row'.gap = row.gap
    <3>1. file.start > 0 /\ row.gap > 0 => GapTold \/ (file.last > 0 /\ row.gap - file.last > GapMax)
      BY <1>1, <1>2 DEF Sampling, GapSeen
    <3>2. GapTold => GapTold'
      BY <1>3, <2>2 DEF GapTold
    <3>. HIDE DEF GapTold
    <3>. QED
      BY <1>3, <2>2, <3>1, <3>2 DEF GapSeen
  <2>. QED
    BY <1>3, <2>1, <2>2
<1>11. Sampling(file, <<>>)'
  <2>1. BootTold(file, <<>>)'
    BY <1>1, <1>2, <1>3 DEF Sampling, BootTold, KeysOf
  <2>2. file.last <= clock
    BY <1>1, <1>2 DEF Sampling
  <2>. QED
    BY <1>3, <1>10, <2>1, <2>2 DEF Sampling
<1>. QED
  BY <1>9, <1>11

\* A break that is recorded is told of.
LEMMA RecordTells ==
  ASSUME IInv, Grows, Record
  PROVE  Sampling(st, todo)' /\ Sampling(file, <<>>)'
<1>1. TypeOK /\ Dated /\ Sampling(st, todo) /\ Sampling(file, <<>>)
  BY DEF IInv
<1>2. row' = row /\ boot' = boot /\ file' = file
  BY DEF Record, world
<1>3. /\ ToSet(todo) = {Head(todo)} \cup ToSet(todo')
      /\ st'.start = st.start /\ st'.last = st.last /\ st'.boot = st.boot /\ events \subseteq events'
  BY <1>1, RecordNext DEF SameBut
<1>4. PICK e \in events' : e.key = Head(todo).key /\ e.t = clock /\ e.boot = boot
  BY <1>1, RecordNext
<1>5. KeysOf(todo) = {Head(todo).key} \cup KeysOf(todo') /\ KeysOf(todo)' = KeysOf(todo')
  BY <1>3 DEF KeysOf
<1>6. BootTold(st, todo)'
  <2>1. st.boot > 1 => \/ \E d \in events : d.key = "K2" /\ d.boot = st.boot
                       \/ "K2" \in KeysOf(todo) /\ st.boot = boot
    BY <1>1 DEF Sampling, BootTold
  <2>. QED
    BY <1>2, <1>3, <1>4, <1>5, <2>1 DEF BootTold
<1>7. GapSeen(st, todo)'
  <2>1. st.start > 0 /\ row.gap > 0 =>
          \/ GapTold \/ "K5" \in KeysOf(todo)
          \/ st.last > 0 /\ row.gap - st.last > GapMax
    BY <1>1 DEF Sampling, GapSeen
  <2>2. GapTold => GapTold'
    BY <1>2, <1>3 DEF GapTold
  <2>3. Head(todo).key = "K5" => GapTold'
    <3>1. clock \in Nat /\ row.gap \in Nat /\ row.t \in Nat /\ row.gap <= row.t /\ row.t <= clock
      BY <1>1 DEF TypeOK, Dated
    <3>2. e.t >= row'.gap
      BY <1>2, <1>4, <3>1
    <3>. QED
      BY <1>4, <3>2 DEF GapTold
  <2>. HIDE DEF GapTold
  <2>. QED
    BY <1>2, <1>3, <1>5, <2>1, <2>2, <2>3 DEF GapSeen
<1>8. st'.last <= row'.t
  BY <1>1, <1>2, <1>3 DEF Sampling
<1>9. Sampling(file, <<>>)'
  BY <1>1, <1>2, SamplingKept
<1>. QED
  BY <1>6, <1>7, <1>8, <1>9 DEF Sampling

\* The state in memory is of the same row as itself, the state file or nothing.
LEMMA RowFrom ==
  ASSUME TypeOK, [Next]_vars, ~Begin, ~Record, \A reading \in Readings : ~Sample(reading)
  PROVE  /\ row' = row
         /\ \/ /\ st'.start = st.start /\ st'.last = st.last /\ st'.boot = st.boot
               /\ todo = <<>> \/ (todo' = todo /\ boot' = boot)
            \/ st'.start = file.start /\ st'.last = file.last /\ st'.boot = file.boot
            \/ st' = NoState
<1>0. st \in States /\ file \in States
  BY DEF TypeOK
<1>1. row' = row
  BY DEF Next, Starts, Loop, vars, StartMail, StartSave, Resume, StartFinished, SampleEnds,
         Finish, Check, CheckSave, FlushNext, FlushEnds, AlertNext, AlertsEnd, Daily, PassSave,
         Sleep, EndMail, EndSave, WriteSums, Stop, Die, Reboot, Wait, LogLine
<1>2. CASE StartSave \/ CheckSave \/ PassSave \/ EndSave
  <2>1. todo = <<>>
    BY <1>2, NothingTodo DEF StartSave, CheckSave, PassSave, EndSave
  <2>2. st' = NoState \/ SameBut(st, st')
    BY <1>2, SaveNext DEF StartSave, CheckSave, PassSave, EndSave
  <2>. QED
    BY <1>1, <2>1, <2>2 DEF SameBut
<1>3. CASE Check
  <2>1. todo = <<>>
    BY <1>3, NothingTodo DEF Check
  <2>2. PICK readable : Read(readable)
    BY <1>3 DEF Check
  <2>3. st'.start = st.start /\ st'.last = st.last /\ st'.boot = st.boot
    BY <1>0, <2>2 DEF Read, States
  <2>. QED
    BY <1>1, <2>1, <2>3
<1>4. CASE AlertNext
  BY <1>0, <1>1, <1>4 DEF AlertNext, world, States
<1>5. CASE Daily \/ EndMail
  BY <1>0, <1>1, <1>5 DEF Daily, EndMail, world, States
<1>6. CASE Resume
  BY <1>0, <1>1, <1>6 DEF Resume, States
<1>7. CASE st' = NoState
  BY <1>1, <1>7
<1>8. CASE st' = st /\ todo' = todo /\ boot' = boot
  BY <1>1, <1>8
<1>. QED
  BY <1>2, <1>3, <1>4, <1>5, <1>6, <1>7, <1>8
     DEF Next, Starts, Loop, vars, world, mem, StartMail, StartFinished, Down, SampleEnds,
         Finish, FlushNext, FlushEnds, AlertsEnd, Sleep, WriteSums, Stop, Die, Reboot, Wait, LogLine

\* What the states say of the last row stays true.
LEMMA SamplingStep ==
  ASSUME IInv, TypeOK', Grows, [Next]_vars
  PROVE  Sampling(st, todo)' /\ Sampling(file, <<>>)'
<1>0. /\ TypeOK /\ Place /\ Dated /\ Sampling(st, todo) /\ Sampling(file, <<>>) /\ Sampling(NoState, <<>>)
  BY NoStateSays DEF IInv, Phases
<1>1. CASE \E reading \in Readings : Sample(reading)
  BY <1>1, SampleSees
<1>2. CASE Record
  BY <1>2, RecordTells
<1>3. CASE Begin
  <2>1. row' = row /\ boot' = boot /\ boot = 1 /\ todo = <<>> /\ todo' = <<>> /\ row.t = 0
    BY <1>0, <1>3, NothingTodo DEF Begin, Place, world
  <2>2. row.gap = 0
    BY <1>0, <2>1 DEF Dated, TypeOK
  <2>3. \/ st' = st /\ file' = file
        \/ st'.last = 0 /\ st'.boot = 1 /\ file' = st'
    BY <1>3, <2>1 DEF Begin, NoState
  <2>4. CASE st' = st /\ file' = file
    BY <1>0, <2>1, <2>4, SamplingKept
  <2>5. CASE st'.last = 0 /\ st'.boot = 1 /\ file' = st'
    BY <2>1, <2>2, <2>5 DEF Sampling, BootTold, GapSeen
  <2>. QED
    BY <2>3, <2>4, <2>5
<1>4. CASE ~Begin /\ ~Record /\ \A reading \in Readings : ~Sample(reading)
  <2>1. /\ row' = row
        /\ \/ /\ st'.start = st.start /\ st'.last = st.last /\ st'.boot = st.boot
              /\ todo = <<>> \/ (todo' = todo /\ boot' = boot)
           \/ st'.start = file.start /\ st'.last = file.last /\ st'.boot = file.boot
           \/ st' = NoState
    BY <1>0, <1>4, RowFrom
  <2>2. Sampling(st, todo)'
    BY <1>0, <2>1, SamplingKept
  <2>3. file' = file \/ (file' = st /\ todo = <<>>)
    BY <1>0, <1>4, FileFrom
  <2>4. Sampling(file, <<>>)'
    BY <1>0, <2>1, <2>3, SamplingKept
  <2>. QED
    BY <2>2, <2>4
<1>. QED
  BY <1>1, <1>2, <1>3, <1>4

-----------------------------------------------------------------------------
(* The place of the process.                                               *)

\* The process goes on in its run.
LEMMA PlaceUp ==
  ASSUME Place, pc \in Up, row' = row, boot' = boot, file' \in {st, file},
         st'.start = st.start, st'.last = st.last, st'.boot = st.boot,
         st'.sampled = st.sampled, st'.resumed = st.resumed,
         pc' = "endMail" => clock' >= st'.end
  PROVE  Place'
BY DEF Place, Up

\* The process ends, or is not there.
LEMMA PlaceDown ==
  ASSUME TypeOK, Place, pc' \notin Up, row' = row, file' = file \/ (file' = st /\ pc \in Up),
         boot' = boot \/ file.start > 0
  PROVE  Place'
<1>1. file.start > 0 => file'.start > 0
  BY DEF Place
<1>2. file'.start = 0 => file.start = 0
  <2>1. file.start \in Nat
    BY DEF TypeOK, States
  <2>. QED
    BY <1>1, <2>1
<1>. QED
  BY <1>2 DEF Place, Up

\* The save of a state, and where the process is then.
LEMMA SavePlace ==
  ASSUME TypeOK, Place, pc \in Up, NEW next, next # "endMail",
         SaveOrReport(next) \/ SaveOrFail(next), row' = row, boot' = boot
  PROVE  Place'
<1>1. CASE Event(Plain("K8")) /\ pc' = next /\ file' = file
  <2>1. SameBut(st, st')
    <3>1. Plain("K8") \in Hits
      BY KeySet, BareHit
    <3>2. st \in States /\ clock \in Nat /\ boot \in Nat /\ events \subseteq Events /\ cut \subseteq Lines
      BY DEF TypeOK
    <3>. QED
      BY <1>1, <3>1, <3>2, Recording
  <2>. QED
    BY <1>1, <2>1, PlaceUp DEF SameBut
<1>2. CASE file' = st /\ pc' = next /\ st' = st
  BY <1>2, PlaceUp
<1>3. CASE pc' = "off" /\ file' = file
  BY <1>3, PlaceDown DEF Up
<1>. QED
  BY <1>1, <1>2, <1>3 DEF SaveOrReport, SaveOrFail, Save, Down, mem

\* The state file, the state in memory and the place of the process.
LEMMA PlaceStep ==
  ASSUME TypeOK, TypeOK', Dated, Place, [Next]_vars
  PROVE  Place'
<1>0. /\ st \in States /\ file \in States /\ clock \in Nat /\ clock >= 1
      /\ st' \in States /\ file' \in States
  BY DEF TypeOK, Dated
<1>1. CASE Begin
  <2>. DEFINE new == [NoState EXCEPT !.start = clock, !.end = clock + RunLen, !.boot = boot,
                                     !.lastDaily = clock]
  <2>1. new.start = clock /\ new.last = 0 /\ new.boot = boot
    BY DEF NoState
  <2>2. /\ \/ st' = new /\ file' = new /\ pc' = "startMail"
           \/ st' = st /\ file' = file /\ pc' = pc
        /\ row' = row /\ row.t = 0 /\ boot' = boot /\ boot = 1 /\ pc \in {"off", "stopped"}
    BY <1>0, <1>1 DEF Begin, Place, world
  <2>. HIDE DEF new
  <2>. QED
    BY <1>0, <2>1, <2>2 DEF Place, Up
<1>2. CASE StartSave \/ CheckSave \/ PassSave \/ EndSave
  <2>1. /\ \E next \in {"top", "flush", "sleep", "sums"} : SaveOrReport(next) \/ SaveOrFail(next)
        /\ row' = row /\ boot' = boot /\ pc \in Up
    BY <1>2 DEF StartSave, CheckSave, PassSave, EndSave, world, Up
  <2>. QED
    BY <2>1, SavePlace
<1>3. CASE Resume
  BY <1>0, <1>3 DEF Resume, world, States, Place, Up
<1>4. CASE \E reading \in Readings : Sample(reading)
  <2>1. PICK reading \in Readings : Sample(reading)
    BY <1>4
  <2>. DEFINE zero == Zeros(reading)
              ep == Episodes(st, "hot", reading = "hot")
  <2>2. st' = [st EXCEPT !.boot = boot, !.last = clock, !.sampled = TRUE, !.zero = zero, !.episodes = ep]
    BY <2>1 DEF Sample
  <2>. HIDE DEF zero, ep
  <2>3. st'.start = st.start /\ st'.last = clock /\ st'.sampled = TRUE
    BY <1>0, <2>2 DEF States
  <2>4. boot' = boot /\ file' = file /\ pc' = "sampled" /\ pc = "top"
    BY <2>1 DEF Sample, world
  <2>. QED
    BY <1>0, <2>3, <2>4 DEF Place, Up
<1>5. CASE Check
  <2>1. PICK readable : Read(readable)
    BY <1>5 DEF Check
  <2>. DEFINE cursor == [u \in Units |-> Cursor(u, LinesRead(readable)[u])]
              k == st.k1 + Cardinality(LinesRead(readable)["kernel"])
              k1 == IF k < K1Max THEN k ELSE K1Max
              ep == Episodes(st, "journal", "kernel" \notin readable)
  <2>2. st' = [st EXCEPT !.cursor = cursor, !.k1 = k1, !.lastCheck = clock, !.episodes = ep]
    BY <2>1 DEF Read, LinesRead, HitsRead
  <2>. HIDE DEF cursor, k1, ep
  <2>3. /\ st'.start = st.start /\ st'.last = st.last /\ st'.boot = st.boot
        /\ st'.sampled = st.sampled /\ st'.resumed = st.resumed
    BY <1>0, <2>2 DEF States
  <2>. QED
    BY <1>5, <2>3, PlaceUp DEF Check, world, Up
<1>6. CASE Record
  <2>1. SameBut(st, st') /\ pc \in {"sampled", "checked"}
    BY <1>6, RecordNext DEF TypeOK, Record
  <2>. QED
    BY <1>6, <2>1, PlaceUp DEF Record, SameBut, world, Up
<1>7. CASE AlertNext
  <2>1. /\ st'.start = st.start /\ st'.last = st.last /\ st'.boot = st.boot
        /\ st'.sampled = st.sampled /\ st'.resumed = st.resumed
    BY <1>0, <1>7 DEF AlertNext, States
  <2>. QED
    BY <1>7, <2>1, PlaceUp DEF AlertNext, world, Up
<1>8. CASE Daily \/ EndMail
  <2>1. /\ st'.start = st.start /\ st'.last = st.last /\ st'.boot = st.boot
        /\ st'.sampled = st.sampled /\ st'.resumed = st.resumed
    BY <1>0, <1>8 DEF Daily, EndMail, States
  <2>. QED
    BY <1>8, <2>1, PlaceUp DEF Daily, EndMail, world, Up
<1>9. CASE AlertsEnd
  <2>1. pc' = "endMail" => clock' >= st'.end
    BY <1>9 DEF AlertsEnd, world, mem
  <2>. QED
    BY <1>9, <2>1, PlaceUp DEF AlertsEnd, world, mem, Up
<1>10. CASE StartMail \/ SampleEnds \/ Finish \/ FlushEnds
  BY <1>10, PlaceUp DEF StartMail, SampleEnds, Finish, FlushEnds, world, mem, Up
<1>11. CASE FlushNext \/ Sleep
  BY <1>11, PlaceUp DEF FlushNext, Sleep, world, Up
<1>12. CASE WriteSums \/ StartFinished \/ Die \/ Stop \/ Reboot
  <2>1. /\ pc' \notin Up /\ row' = row /\ (file' = file \/ (file' = st /\ pc \in Up))
        /\ (boot' = boot \/ file.start > 0)
    BY <1>12 DEF WriteSums, StartFinished, Die, Stop, Reboot, Down, world, Up
  <2>. QED
    BY <2>1, PlaceDown
<1>13. CASE Wait
  <2>1. pc' \notin Up /\ row' = row /\ file' = file /\ boot' = boot
    BY <1>13 DEF Wait, Up
  <2>. QED
    BY <2>1, PlaceDown
<1>15. CASE LogLine
  BY <1>15 DEF LogLine, mem, Place
<1>14. CASE UNCHANGED vars
  BY <1>14 DEF vars, world, mem, Place
<1>. QED
  BY <1>1, <1>2, <1>3, <1>4, <1>5, <1>6, <1>7, <1>8, <1>9, <1>10, <1>11, <1>12, <1>13, <1>14, <1>15
     DEF Next, Starts, Loop

\* From the check to the end of the pass, or of the run, no line comes.
LEMMA KnownStep ==
  ASSUME IInv, TypeOK', Grows, [Next]_vars, pc' \in {"checked", "flush", "alerts", "endMail"}
  PROVE  \A i \in DOMAIN log' : Known(i, todo)'
<1>0. TypeOK /\ (pc \in {"checked", "flush", "alerts", "endMail"} => \A i \in DOMAIN log : Known(i, todo))
  BY DEF IInv, Phases
<1>1. CASE Check
  BY <1>1, CheckSays
<1>2. CASE pc \in {"checked", "flush", "alerts", "endMail"} /\ log' = log /\ ~Check /\ ~EndMail
  <2>1. ASSUME NEW i \in DOMAIN log
        PROVE  Known(i, todo)'
    <3>1. Known(i, todo)
      BY <1>0, <1>2, <2>1
    <3>2. CASE Record
      <4>1. /\ Unreadable(todo) => (\E e \in events' : e.key = "K8") \/ "K8" \in KeysOf(todo')
            /\ Coming(todo) \subseteq Coming(todo') \cup InLog'
        BY <1>0, <3>2, KeepsRecord DEF Keeps, Continues, Carries
      <4>2. \A p : /\ Unreadable(todo) => (\E e \in events' : e.key = "K8") \/ "K8" \in KeysOf(p)
                   /\ Coming(todo) \subseteq Coming(p) \cup InLog'
                   => Known(i, p)'
        BY <1>0, <2>1, <3>1, KnownStays DEF Unreadable
      <4>. QED
        BY <4>1, <4>2 DEF Known, Coming, LinesOf, Hole, Unreadable, KeysOf
    <3>3. CASE ~Record
      <4>1. todo = <<>> \/ todo' = todo
        BY <1>0, <1>2, <3>3, NothingTodo
           DEF Next, Starts, Loop, vars, mem, Begin, StartMail, StartSave, Resume, StartFinished, Sample,
               SampleEnds, Finish, CheckSave, FlushNext, FlushEnds, AlertNext, AlertsEnd, Daily, PassSave,
               Sleep, EndSave, WriteSums, Stop, Die, Reboot, Wait, LogLine, Down,
               SaveOrReport, SaveOrFail, Save
      <4>2. ASSUME NEW q, Known(i, q)
            PROVE  Known(i, q)'
        <5>1. Unreadable(q) => Unreadable(q)'
          BY NothingComes DEF Unreadable
        <5>. QED
          BY <1>0, <2>1, <4>2, <5>1, KnownStays
      <4>3. CASE todo' = todo
        BY <3>1, <4>2, <4>3 DEF Known, Coming, LinesOf, Hole, Unreadable, KeysOf
      <4>4. CASE todo = <<>>
        <5>1. Known(i, <<>>)'
          BY <3>1, <4>2, <4>4
        <5>. QED
          BY <5>1, NothingComes DEF Known, Hole, Unreadable
      <4>. QED
        BY <4>1, <4>3, <4>4
    <3>. QED
      BY <3>2, <3>3
  <2>. QED
    BY <1>2, <2>1
<1>. QED
  BY <1>1, <1>2
     DEF Next, Starts, Loop, vars, world, Begin, StartMail, StartSave, Resume, StartFinished, Sample, Record,
         SampleEnds, Finish, CheckSave, FlushNext, FlushEnds, AlertNext, AlertsEnd, Daily, PassSave,
         Sleep, EndMail, EndSave, WriteSums, Stop, Die, Reboot, Wait, LogLine, Down,
         SaveOrReport, SaveOrFail, Save, Up, TypeOK

\* The inductive invariant holds at first and after every step.
LEMMA InitIsFine ==
  Init => IInv
<1>. SUFFICES ASSUME Init PROVE IInv
  OBVIOUS
<1>1. TypeOK
  <2>1. NoState \in States
    BY StateTypes
  <2>2. /\ OutboxMax \in Nat /\ MaxLines \in Nat /\ Limit \in [FaultKinds -> Nat]
    BY LoggerAssumption DEF LoggerAssumption
  <2>3. [t |-> 0, boot |-> 0, gap |-> 0, zeros |-> 0, from |-> 0]
          \in [t : Nat, boot : Nat, gap : Nat, zeros : Nat, from : Nat]
    OBVIOUS
  <2>4. /\ outbox \in Seq(SUBSET Lines) /\ Len(outbox) <= OutboxMax
        /\ log \in Seq([t : Nat, boot : Nat, unit : Units]) /\ Len(log) <= MaxLines
    BY <2>2 DEF Init
  <2>5. todo \in Seq(Hits) /\ todo = <<>>
    BY Joined DEF Init
  <2>. QED
    BY <2>1, <2>3, <2>4, <2>5 DEF Init, TypeOK
<1>2. /\ DOMAIN log = {} /\ pc = "off" /\ clock = 1 /\ boot = 1
      /\ row.t = 0 /\ row.boot = 0 /\ row.gap = 0
  BY DEF Init
<1>3. Dated /\ Phases
  BY <1>2 DEF Dated, Phases, Place, Up
<1>4. Says(NoState, <<>>) /\ Sampling(NoState, <<>>)
  BY <1>1, NoStateSays
<1>. QED
  BY <1>1, <1>3, <1>4 DEF Init, IInv

\* The invariant is inductive.
LEMMA IInvStep ==
  IInv /\ [Next]_vars => IInv'
<1>. SUFFICES ASSUME IInv, [Next]_vars PROVE IInv'
  OBVIOUS
<1>1. TypeOK /\ Dated /\ Place
  BY DEF IInv, Phases
<1>2. TypeOK' /\ Grows
  BY <1>1, TypeStep, GrowsStep
<1>3. Says(st, todo)' /\ Says(file, <<>>)' /\ Sampling(st, todo)' /\ Sampling(file, <<>>)'
  BY <1>2, SaysStep, SamplingStep
<1>4. Dated' /\ Place'
  BY <1>1, <1>2, DatedStep, PlaceStep
<1>5. Phases'
  BY <1>2, <1>4, KnownStep DEF Phases
<1>. QED
  BY <1>2, <1>3, <1>4, <1>5 DEF IInv

-----------------------------------------------------------------------------
(* The theorems.                                                           *)

\* The inductive invariant holds in every state, for every schedule of the
\* passes, failures, deaths, reboots and log lines.
THEOREM Invariance == Spec => []IInv
<1>1. Init => IInv
  BY InitIsFine
<1>2. IInv /\ [Next]_vars => IInv'
  BY IInvStep
<1>. QED
  BY <1>1, <1>2, PTL DEF Spec

\* Type correctness: in particular the outbox holds no more mails than fit,
\* the K1 count stays under its limit, and every cursor is a place in the log.
THEOREM TypeCorrect == Spec => []TypeOK
<1>1. IInv => TypeOK
  BY DEF IInv
<1>. QED
  BY <1>1, Invariance, PTL

\* The state the next read goes by has nothing to be recorded.
LEMMA CurrentSays ==
  ASSUME IInv
  PROVE  Current \in States /\ Says(Current, <<>>) /\ Sampling(Current, <<>>)
BY DEF IInv, TypeOK, Current

\* What the next read passes over was taken by an earlier one, or is of a
\* boot that /dev/kmsg no longer knows: it is in a known hole, or recorded
\* and in a mail, in the alerts or left out by their limits.
LEMMA PassedIsAccounted ==
  ASSUME IInv, NEW i \in DOMAIN log, Passed(i)
  PROVE  KnownHole(i) \/ (i \in InLog /\ i \in Outside \cup InPending(Current))
<1>1. TypeOK /\ Dated /\ Reading(Current, <<>>) /\ Current \in States
  BY CurrentSays DEF IInv, Says
<1>2. Accounted(Current, <<>>, i)
  BY <1>1, NotUnread DEF Passed
<1>3. Hole(i, <<>>) => KnownHole(i)
  BY NothingComes DEF Hole, KnownHole, Unreadable
<1>. QED
  BY <1>2, <1>3, NothingComes DEF Accounted

\* A line that no read will return again is quoted or counted in events.log:
\* neither a death between the read, its events and the save of its cursor
\* nor a flood beyond K1Max loses one, whatever the limits are.
THEOREM HitsAreKept == Spec => []HitsKept
<1>1. IInv => HitsKept
  BY PassedIsAccounted DEF HitsKept
<1>. QED
  BY <1>1, Invariance, PTL

\* Such a line is also in a mail that went out, is queued or was dropped, or
\* in the pending alerts of the state that a restart would load, but for
\* those that a queue of PendingMax lines or a mail of MailMax left out.
THEOREM HitsAreMailed == Spec => []HitsMailed
<1>1. IInv => HitsMailed
  <2>. SUFFICES ASSUME IInv, NEW i \in DOMAIN log, Passed(i)
                PROVE  i \in InMail \cup cut \/ KnownHole(i)
    BY DEF HitsMailed
  <2>1. KnownHole(i) \/ i \in Outside \cup InPending(Current)
    BY PassedIsAccounted
  <2>2. InMail \cup cut = Outside \cup InPending(Current)
    BY DEF InMail, InMails, Outside
  <2>. HIDE DEF Current, Outside, InPending, InMail
  <2>. QED
    BY <2>1, <2>2
<1>. QED
  BY <1>1, Invariance, PTL

\* A run that is finished on the disk has every line from before its end.
THEOREM RunsEndChecked == Spec => []FinalCheck
<1>1. IInv => FinalCheck
  <2>1. \A i : Known(i, <<>>) => i \in InLog \/ KnownHole(i)
    BY NothingComes DEF Known, Hole, KnownHole, Unreadable
  <2>. QED
    BY <2>1 DEF IInv, Says, Ended, FinalCheck
<1>. QED
  BY <1>1, Invariance, PTL

\* No state, on the disk or one that a restart would load, counts a row as
\* seen before the reboot and the gap that the row shows are in events.log:
\* a death between the row and its events leaves them to the next row.
THEOREM BreaksAreReported == Spec => []BreaksReported
<1>1. ASSUME IInv, NEW s, Sampling(s, <<>>), s \in States, s.last = row.t, s.boot = row.boot,
             s.start > 0 \/ row.t = 0
      PROVE  RebootTold /\ GapTold
  <2>1. /\ row.gap \in Nat /\ row.t \in Nat /\ row.gap <= row.t /\ GapMax \in Nat
        /\ KeysOf(<<>>) = {}
    BY <1>1, LoggerAssumption, NothingComes DEF LoggerAssumption, IInv, TypeOK, Dated
  <2>2. RebootTold
    BY <1>1, <2>1 DEF Sampling, BootTold, RebootTold
  <2>3. GapTold
    <3>1. ~(row.gap - s.last > GapMax)
      BY <1>1, <2>1
    <3>2. row.t = 0 => row.gap = 0
      BY <2>1
    <3>3. row.gap = 0 => GapTold
      BY DEF GapTold
    <3>4. s.start > 0 /\ row.gap > 0 => GapTold
      BY <1>1, <2>1, <3>1 DEF Sampling, GapSeen
    <3>. HIDE DEF GapTold
    <3>. QED
      BY <1>1, <2>1, <3>2, <3>3, <3>4
  <2>. QED
    BY <2>2, <2>3
<1>2. IInv => BreaksReported
  <2>. SUFFICES ASSUME IInv, NEW s \in {file, Current}, s.last = row.t, s.boot = row.boot
                PROVE  RebootTold /\ GapTold
    BY DEF BreaksReported
  <2>1. s \in States /\ Sampling(s, <<>>)
    BY CurrentSays DEF IInv, TypeOK
  <2>2. s.start > 0 \/ row.t = 0
    <3>1. Place /\ file.start \in Nat
      BY DEF IInv, Phases, TypeOK, States
    <3>2. file.start > 0 \/ row.t = 0
      BY <3>1 DEF Place
    <3>3. Current.start > 0 \/ row.t = 0
      BY <3>1, <3>2 DEF Current, Place
    <3>. QED
      BY <3>2, <3>3
  <2>. QED
    BY <1>1, <2>1, <2>2
<1>. QED
  BY <1>2, Invariance, PTL
=============================================================================
