------------------------------ MODULE JobProofs ------------------------------
(***************************************************************************)
(* Proofs about the jobs of newsd: the event desk, for any calendar, any   *)
(* lead times and any faults; and the scorecard, for any trades and bars,  *)
(* any window and any size of the tally.                                   *)
(***************************************************************************)
EXTENDS EventDesk, Scorecard, SequenceLemmas, TLAPS

(* What the agenda has in hand is still to come: no time passes until it is *)
(* through.                                                                 *)
HandInv ==
    /\ InHand => Agenda \in running
    /\ \A w \in arming \cup noting : FireAt(w) > now
    /\ \A v, w \in noting : v = w /\ renewed[w] = now

(* A wake-up runs once its time has come, and once only: it is booked for   *)
(* that time or not at all, and by then it is too late to book it again.    *)
WakeInv ==
    \A w \in WakeUp :
        /\ next[w] # NoTime => next[w] = FireAt(w) /\ w \notin running /\ told[w] = 0
        /\ w \in running \/ told[w] > 0 => FireAt(w) <= now
        /\ w \in running \ sent => told[w] = 0
        /\ told[w] <= 1
        /\ told[w] > 0 => w \in running \cup fired \cup cut

(* A record lives from the last time its wake-up was booked.                *)
RecordInv ==
    \A w \in WakeUp :
        record[w] > 0 => w \in cut \cup noting \/ record[w] = renewed[w] + RecordTtl

ClearInv ==
    \A w \in cleared :
        /\ FireAt(w) + LateAfter <= now
        /\ w \notin fired /\ record[w] > 0 =>
             w \in cut \/ renewed[w] + RecordTtl <= FireAt(w) + LateAfter + Day

(* Who is blamed has had its time, and does not run any more.               *)
BlameInv ==
    \A w \in blamed :
        /\ FireAt(w) <= now /\ next[w] = NoTime /\ w \notin running \cup fired
        /\ told[w] > 0 => w \in cut

DeskInv == TypeOK /\ HandInv /\ WakeInv /\ RecordInv /\ ClearInv /\ BlameInv

-----------------------------------------------------------------------------
\* A wake-up fires within the time that is followed.
LEMMA WakeUps ==
    /\ Agenda \notin WakeUp /\ Watchdog \notin WakeUp /\ {Agenda, Watchdog} \subseteq Job
    /\ WakeUp \subseteq Job \ CronJob /\ Job \ CronJob \subseteq WakeUp
    /\ \A w \in WakeUp : FireAt(w) \in 1..MaxTime
    /\ MaxTime \in Nat /\ Day \in Nat \ {0} /\ NoTime \in Nat /\ NoTime = MaxTime + Day + 1
    /\ RecordTtl \in Nat /\ LateAfter \in Nat /\ MinLead \in Nat /\ MaxFaults \in Nat
<1>1. MaxTime \in Nat /\ Day \in Nat \ {0} /\ CronJob \cap DateJob = {}
  BY SchedulerAssumption
<1>2. /\ CronJob = {Agenda, Watchdog} /\ DateJob = WakeUp /\ When \subseteq 0..MaxTime
      /\ LeadOf \in [Kind -> Nat] /\ \A w \in WakeUp : LeadOf[w.kind] < w.at
      /\ {MinLead, LateAfter, RecordTtl, MaxFaults} \subseteq Nat
  BY DeskAssumption DEF Time
<1>3. ASSUME NEW w \in WakeUp PROVE FireAt(w) \in 1..MaxTime
  <2>1. w.kind \in Kind /\ w.at \in 0..MaxTime
    BY <1>2 DEF WakeUp
  <2>2. LeadOf[w.kind] \in Nat /\ LeadOf[w.kind] < w.at
    BY <1>2, <2>1
  <2>3. QED BY <1>1, <2>1, <2>2 DEF FireAt
<1>4. QED BY <1>1, <1>2, <1>3 DEF Job, NoTime

\* A cron job is due again within the day.
LEMMA NextFireBound ==
    ASSUME NEW j \in CronJob, NEW t \in Nat
    PROVE  NextFire(j, t) \in Nat /\ NextFire(j, t) < t + Day
<1>1. Day \in Nat \ {0} /\ At[j] \in 0..(Day - 1)
  BY SchedulerAssumption
<1>2. t % Day \in 0..(Day - 1)
  BY <1>1
<1> DEFINE ahead == At[j] + Day - (t % Day)
<1>3. ahead \in Nat
  BY <1>1, <1>2
<1> HIDE DEF ahead
<1>4. ahead % Day \in 0..(Day - 1)
  BY <1>1, <1>3
<1>5. NextFire(j, t) = t + (ahead % Day)
  BY DEF NextFire, ahead
<1>6. QED BY <1>1, <1>4, <1>5

LEMMA DeskInitInv == Init => DeskInv
<1> SUFFICES ASSUME Init PROVE DeskInv
  OBVIOUS
<1>1. now = 0 /\ up = FALSE /\ running = {} /\ next = [j \in Job |-> NoTime]
  BY DEF Init, SchedulerInit
<1>2. /\ arming = {} /\ noting = {} /\ sent = {} /\ fired = {} /\ cleared = {} /\ blamed = {} /\ cut = {}
      /\ record = [w \in WakeUp |-> 0] /\ told = [w \in WakeUp |-> 0]
      /\ renewed = [w \in WakeUp |-> 0] /\ faults = 0 /\ feed \in [Release -> When]
  BY DEF Init
<1>3. \A v, w \in noting : v = w
  BY <1>2
<1>4. TypeOK
  <2>1. SchedulerTypeOK
    <3>1. NoTime \in 0..NoTime /\ 0 \in 0..MaxTime
      BY WakeUps
    <3>2. QED BY <1>1, <3>1 DEF SchedulerTypeOK, Time
  <2>2. QED BY <1>2, <1>3, <2>1, WakeUps DEF TypeOK, Time
<1>5. HandInv
  BY <1>2 DEF HandInv, InHand
<1>6. WakeInv
  BY <1>1, <1>2, WakeUps DEF WakeInv
<1>7. RecordInv /\ ClearInv /\ BlameInv
  BY <1>2 DEF RecordInv, ClearInv, BlameInv
<1>8. QED BY <1>4, <1>5, <1>6, <1>7 DEF DeskInv
-----------------------------------------------------------------------------
(* The scheduler.                                                           *)

LEMMA StartInv == ASSUME DeskInv, Start, UNCHANGED desk PROVE DeskInv'
<1> USE DEF DeskInv
<1>1. /\ next' = [j \in Job |-> IF j \in CronJob THEN NextFire(j, now) ELSE next[j]]
      /\ up' = TRUE /\ now' = now /\ running' = running
  BY DEF Start
<1>2. now \in Nat /\ now <= MaxTime
  BY WakeUps DEF TypeOK, SchedulerTypeOK, Time
<1>3. next' \in [Job -> 0..NoTime]
  <2>1. ASSUME NEW j \in Job PROVE next'[j] \in 0..NoTime
    <3>1. CASE j \in CronJob
      BY <1>1, <1>2, <3>1, NextFireBound, WakeUps
    <3>2. CASE j \notin CronJob
      BY <1>1, <3>2 DEF TypeOK, SchedulerTypeOK
    <3>3. QED BY <3>1, <3>2
  <2>2. QED BY <1>1, <2>1
<1>4. \A w \in WakeUp : next'[w] = next[w]
  BY <1>1, WakeUps
<1>5. TypeOK'
  BY <1>1, <1>3 DEF TypeOK, SchedulerTypeOK, desk
<1>6. HandInv' /\ RecordInv' /\ ClearInv'
  BY <1>1 DEF HandInv, InHand, RecordInv, ClearInv, desk
<1>7. WakeInv' /\ BlameInv'
  BY <1>1, <1>4 DEF WakeInv, BlameInv, TypeOK, desk
<1>8. QED BY <1>5, <1>6, <1>7

LEMMA WakeStepInv == ASSUME DeskInv, NEW j \in Job, Wake(j), UNCHANGED desk PROVE DeskInv'
<1> USE DEF DeskInv
<1>1. /\ next[j] <= now /\ now' = now /\ up' = up
      /\ next' = [next EXCEPT ![j] = IF j \in CronJob THEN NextFire(j, now + 1) ELSE NoTime]
      /\ running' \in {running, running \cup {j}}
  BY DEF Wake, Book, DueNow
<1>2. now \in Nat /\ now <= MaxTime
  BY WakeUps DEF TypeOK, SchedulerTypeOK, Time
<1>3. next' \in [Job -> 0..NoTime]
  <2>1. j \in CronJob => NextFire(j, now + 1) \in 0..NoTime
    BY <1>2, NextFireBound, WakeUps
  <2>2. QED BY <1>1, <2>1, WakeUps DEF TypeOK, SchedulerTypeOK
<1>4. \A w \in WakeUp : /\ w # j => next'[w] = next[w] /\ (w \in running' <=> w \in running)
                        /\ w = j => next'[w] = NoTime
  BY <1>1, WakeUps DEF TypeOK, SchedulerTypeOK
<1>5. j \in WakeUp => next[j] # NoTime
  BY <1>1, <1>2, WakeUps
<1>6. TypeOK'
  BY <1>1, <1>3 DEF TypeOK, SchedulerTypeOK, desk
<1>7. HandInv' /\ RecordInv' /\ ClearInv'
  BY <1>1 DEF HandInv, InHand, RecordInv, ClearInv, desk
<1>8. WakeInv'
  <2>1. j \in WakeUp => FireAt(j) <= now /\ told[j] = 0
    BY <1>1, <1>5 DEF WakeInv
  <2>2. UNCHANGED <<now, sent, told, fired, cut>>
    BY <1>1 DEF desk
  <2>3. ASSUME NEW w \in WakeUp
        PROVE  /\ next'[w] # NoTime => next'[w] = FireAt(w) /\ w \notin running' /\ told[w] = 0
               /\ w \in running' \/ told[w] > 0 => FireAt(w) <= now
               /\ w \in running' \ sent => told[w] = 0
               /\ told[w] <= 1
               /\ told[w] > 0 => w \in running' \cup fired \cup cut
    <3>1. CASE w = j
      BY <1>4, <2>1, <3>1 DEF WakeInv
    <3>2. CASE w # j
      BY <1>4, <3>2 DEF WakeInv
    <3>3. QED BY <3>1, <3>2
  <2>4. QED BY <2>2, <2>3 DEF WakeInv
<1>9. BlameInv'
  BY <1>1, <1>4, <1>5 DEF BlameInv, TypeOK, desk
<1>10. QED BY <1>6, <1>7, <1>8, <1>9

LEMMA TickInv == ASSUME DeskInv, TimePasses, UNCHANGED desk PROVE DeskInv'
<1> USE DEF DeskInv
<1>1. /\ running = {} /\ now < MaxTime /\ now' = now + 1
      /\ up' = up /\ next' = next /\ running' = running
  BY DEF TimePasses, Tick
<1>2. now \in Nat
  BY WakeUps DEF TypeOK, SchedulerTypeOK, Time
<1>3. now' \in Time
  BY <1>1, <1>2, WakeUps DEF Time
<1>4. TypeOK'
  BY <1>1, <1>3 DEF TypeOK, SchedulerTypeOK, desk
<1>5. HandInv'
  BY <1>1 DEF HandInv, InHand, desk
<1>6. WakeInv' /\ RecordInv'
  BY <1>1, <1>2, WakeUps DEF WakeInv, RecordInv, desk
<1>7. ClearInv' /\ BlameInv'
  BY <1>1, <1>2, WakeUps DEF ClearInv, BlameInv, TypeOK, desk
<1>8. QED BY <1>4, <1>5, <1>6, <1>7
-----------------------------------------------------------------------------
(* The agenda.                                                              *)

\* A cron job ends, and the desk has nothing in hand.
LEMMA CronDoneInv ==
    ASSUME DeskInv, NEW j \in CronJob, Done(j), j = Agenda => arming' = {} /\ noting' = {},
           TypeOK' /\ ClearInv' /\ BlameInv' /\ RecordInv',
           arming' \subseteq arming, noting' \subseteq noting, cut \subseteq cut',
           UNCHANGED <<told, sent, fired, renewed>>
    PROVE  DeskInv'
<1> USE DEF DeskInv
<1>1. running' = running \ {j} /\ UNCHANGED <<now, up, next>>
  BY DEF Done
<1>2. HandInv'
  BY <1>1, WakeUps DEF HandInv, InHand
<1>3. \A w \in WakeUp : w \in running' <=> w \in running
  BY <1>1, WakeUps
<1>4. WakeInv'
  BY <1>1, <1>3 DEF WakeInv
<1>5. QED BY <1>2, <1>4

LEMMA RunAgendaInv == ASSUME DeskInv, RunAgenda PROVE DeskInv'
<1> USE DEF DeskInv
<1> DEFINE found == {w \in WakeUp : feed[w.of] = w.at /\ FarEnough(w)}
<1>1. /\ Agenda \in running /\ arming = {} /\ noting = {}
      /\ UNCHANGED <<feed, noting, record, sent, fired, told, cleared, blamed, renewed, cut, faults>>
  BY DEF RunAgenda, InHand
<1>2. now \in Nat
  BY WakeUps DEF TypeOK, SchedulerTypeOK, Time
<1>3. CASE arming' = found /\ UNCHANGED scheduler
  <2>1. UNCHANGED <<now, up, next, running>>
    BY <1>3 DEF scheduler
  <2>2. \A w \in found : FireAt(w) > now
    BY <1>2, WakeUps DEF FarEnough
  <2>3. TypeOK'
    BY <1>1, <1>3, <2>1 DEF TypeOK, SchedulerTypeOK
  <2> HIDE DEF found
  <2>4. HandInv'
    BY <1>1, <1>3, <2>1, <2>2 DEF HandInv, InHand
  <2>5. WakeInv' /\ RecordInv' /\ ClearInv' /\ BlameInv'
    BY <1>1, <2>1 DEF WakeInv, RecordInv, ClearInv, BlameInv
  <2>6. QED BY <2>3, <2>4, <2>5
<1>4. CASE Done(Agenda) /\ UNCHANGED arming
  <2>1. TypeOK' /\ RecordInv' /\ ClearInv' /\ BlameInv'
    BY <1>1, <1>4 DEF Done, TypeOK, SchedulerTypeOK, RecordInv, ClearInv, BlameInv
  <2>2. Agenda \in CronJob
    BY DeskAssumption
  <2>3. QED BY <1>1, <1>4, <2>1, <2>2, CronDoneInv
<1>5. QED BY <1>3, <1>4 DEF RunAgenda

LEMMA FaultFacts == ASSUME TypeOK, Fault PROVE faults' \in 0..MaxFaults
BY WakeUps DEF TypeOK, Fault

LEMMA FeedFailsInv == ASSUME DeskInv, FeedFails PROVE DeskInv'
<1>1. /\ arming = {} /\ noting = {} /\ Done(Agenda) /\ Agenda \in CronJob
      /\ UNCHANGED <<feed, arming, noting, record, sent, fired, told, cleared, blamed, renewed, cut>>
  BY DeskAssumption DEF FeedFails, InHand
<1>2. faults' \in 0..MaxFaults
  BY FaultFacts DEF FeedFails, DeskInv
<1>3. TypeOK' /\ RecordInv' /\ ClearInv' /\ BlameInv'
  BY <1>1, <1>2 DEF Done, DeskInv, TypeOK, SchedulerTypeOK, RecordInv, ClearInv, BlameInv
<1>4. QED BY <1>1, <1>3, CronDoneInv

LEMMA ArmInv == ASSUME DeskInv, NEW w \in WakeUp, Arm(w) PROVE DeskInv'
<1> USE DEF DeskInv
<1>1. /\ w \in arming /\ noting = {} /\ next' = [next EXCEPT ![w] = FireAt(w)]
      /\ arming' = arming \ {w} /\ noting' = {w} /\ renewed' = [renewed EXCEPT ![w] = now]
      /\ UNCHANGED <<now, up, running, feed, record, sent, fired, told, cleared, blamed, cut, faults>>
  BY DEF Arm, Book
<1>2. FireAt(w) > now /\ now \in Time /\ now \in Nat
  BY <1>1, WakeUps DEF HandInv, TypeOK, SchedulerTypeOK, Time
<1>3. FireAt(w) \in 0..NoTime /\ w \in Job
  BY WakeUps
<1>4. /\ next' \in [Job -> 0..NoTime] /\ next'[w] = FireAt(w)
      /\ \A v \in WakeUp \ {w} : next'[v] = next[v]
  BY <1>1, <1>3, WakeUps DEF TypeOK, SchedulerTypeOK
<1>5. /\ renewed' \in [WakeUp -> Time] /\ renewed'[w] = now
      /\ \A v \in WakeUp \ {w} : renewed'[v] = renewed[v]
  BY <1>1, <1>2 DEF TypeOK
<1>6. TypeOK'
  <2>1. \A u, v \in noting' : u = v
    BY <1>1
  <2>2. QED BY <1>1, <1>4, <1>5, <2>1 DEF TypeOK, SchedulerTypeOK
<1>7. HandInv'
  BY <1>1, <1>2, <1>5 DEF HandInv, InHand
<1>8. WakeInv'
  <2>1. told[w] = 0 /\ w \notin running
    BY <1>2, WakeUps DEF WakeInv, TypeOK
  <2>2. QED BY <1>1, <1>4, <2>1 DEF WakeInv
<1>9. RecordInv'
  BY <1>1, <1>5 DEF RecordInv
<1>10. w \notin cleared /\ w \notin blamed
  BY <1>2, WakeUps DEF ClearInv, BlameInv
<1>11. \A v \in cleared \cup blamed : v \in WakeUp \ {w}
  BY <1>10 DEF TypeOK
<1>12. ClearInv' /\ BlameInv'
  BY <1>1, <1>4, <1>5, <1>11 DEF ClearInv, BlameInv
<1>13. QED BY <1>6, <1>7, <1>8, <1>9, <1>12

LEMMA RecordArmedInv == ASSUME DeskInv, NEW w \in WakeUp, RecordArmed(w) PROVE DeskInv'
<1> USE DEF DeskInv
<1>1. /\ w \in noting /\ noting' = {} /\ arming' = arming
      /\ UNCHANGED <<feed, sent, fired, told, cleared, blamed, renewed>>
  BY DEF RecordArmed
<1>2. FireAt(w) > now /\ renewed[w] = now /\ now \in Nat /\ now <= MaxTime
  BY <1>1, WakeUps DEF HandInv, TypeOK, SchedulerTypeOK, Time
<1>3. /\ record' \in [WakeUp -> 0..(MaxTime + RecordTtl)]
      /\ \A v \in WakeUp \ {w} : record'[v] = record[v]
      /\ cut \subseteq cut' /\ cut' \subseteq WakeUp /\ faults' \in 0..MaxFaults
      /\ w \in cut' \/ record'[w] = renewed[w] + RecordTtl
  <2>1. CASE record' = [record EXCEPT ![w] = now + RecordTtl] /\ UNCHANGED <<cut, faults>>
    <3>1. now + RecordTtl \in 0..(MaxTime + RecordTtl)
      BY <1>2, WakeUps
    <3>2. QED BY <1>2, <2>1, <3>1 DEF TypeOK
  <2>2. CASE cut' = cut \cup {w} /\ Fault /\ UNCHANGED record
    BY <2>2, FaultFacts DEF TypeOK
  <2>3. QED BY <2>1, <2>2 DEF RecordArmed
<1>4. noting = {w}
  BY <1>1 DEF HandInv
<1>5. TypeOK' /\ HandInv'
  <2>1. \A u, v \in noting' : u = v
    BY <1>1
  <2>2. CASE arming = {} /\ Done(Agenda)
    BY <1>1, <1>3, <2>1, <2>2 DEF Done, TypeOK, SchedulerTypeOK, HandInv, InHand
  <2>3. CASE arming # {} /\ UNCHANGED scheduler
    BY <1>1, <1>3, <2>1, <2>3 DEF scheduler, TypeOK, SchedulerTypeOK, HandInv, InHand
  <2>4. QED BY <2>2, <2>3 DEF RecordArmed
<1>6. /\ UNCHANGED <<now, next>> /\ running' \subseteq running
      /\ \A v \in WakeUp : v \in running' <=> v \in running
  <2>1. CASE Done(Agenda)
    BY <2>1, WakeUps DEF Done
  <2>2. CASE UNCHANGED scheduler
    BY <2>2 DEF scheduler
  <2>3. QED BY <2>1, <2>2 DEF RecordArmed
<1>7. WakeInv'
  BY <1>1, <1>3, <1>6 DEF WakeInv
<1>8. RecordInv'
  BY <1>1, <1>3, <1>4 DEF RecordInv
<1>9. w \notin cleared
  BY <1>2, WakeUps DEF ClearInv
<1>10. \A v \in cleared : v \in WakeUp \ {w}
  BY <1>9 DEF TypeOK
<1>11. ClearInv'
  BY <1>1, <1>3, <1>6, <1>10 DEF ClearInv
<1>12. BlameInv'
  BY <1>1, <1>3, <1>6 DEF BlameInv
<1>13. QED BY <1>5, <1>7, <1>8, <1>11, <1>12
-----------------------------------------------------------------------------
(* A wake-up at its work.                                                   *)

LEMMA SendBriefInv == ASSUME DeskInv, NEW w \in WakeUp, SendBrief(w) PROVE DeskInv'
<1> USE DEF DeskInv
<1>1. /\ w \in running \ sent /\ sent' = sent \cup {w}
      /\ told' \in {told, [told EXCEPT ![w] = @ + 1]}
      /\ UNCHANGED <<now, up, next, running>>
      /\ UNCHANGED <<feed, arming, noting, record, fired, cleared, blamed, renewed, cut, faults>>
  BY DEF SendBrief, scheduler
<1>2. told[w] = 0 /\ FireAt(w) <= now /\ next[w] = NoTime /\ w \notin blamed
  BY <1>1 DEF WakeInv, BlameInv
<1>3. /\ told' \in [WakeUp -> 0..2] /\ told'[w] \in 0..1
      /\ \A v \in WakeUp \ {w} : told'[v] = told[v]
  BY <1>1, <1>2 DEF TypeOK
<1>4. TypeOK'
  BY <1>1, <1>3 DEF TypeOK, SchedulerTypeOK
<1>5. HandInv' /\ RecordInv' /\ ClearInv'
  BY <1>1 DEF HandInv, InHand, RecordInv, ClearInv
<1>6. WakeInv'
  <2>1. ASSUME NEW v \in WakeUp, v # w
        PROVE  told'[v] = told[v] /\ (v \in sent' <=> v \in sent)
    BY <1>1, <1>3, <2>1
  <2>2. ASSUME NEW v \in WakeUp
        PROVE  /\ next[v] # NoTime => next[v] = FireAt(v) /\ v \notin running /\ told'[v] = 0
               /\ v \in running \/ told'[v] > 0 => FireAt(v) <= now
               /\ v \in running \ sent' => told'[v] = 0
               /\ told'[v] <= 1
               /\ told'[v] > 0 => v \in running \cup fired \cup cut
    <3>1. CASE v = w
      BY <1>1, <1>2, <1>3, <3>1
    <3>2. CASE v # w
      BY <2>1, <3>2 DEF WakeInv
    <3>3. QED BY <3>1, <3>2
  <2>3. QED BY <1>1, <2>2 DEF WakeInv
<1>7. BlameInv'
  BY <1>1, <1>2, <1>3 DEF BlameInv, TypeOK
<1>8. QED BY <1>4, <1>5, <1>6, <1>7

\* A job ends that fired, or leaves nothing but a cut.
LEMMA WakeUpEnds ==
    ASSUME DeskInv, NEW w \in WakeUp, Done(w), sent' = sent \ {w},
           fired' \in {fired, fired \cup {w}}, cut' \in {cut, cut \cup {w}},
           told[w] > 0 => w \in fired' \cup cut', faults' \in 0..MaxFaults,
           UNCHANGED <<feed, arming, noting, record, told, cleared, blamed, renewed>>
    PROVE  DeskInv'
<1> USE DEF DeskInv
<1>1. w \in running /\ running' = running \ {w} /\ UNCHANGED <<now, up, next>>
  BY DEF Done
<1>2. Agenda \in running' <=> Agenda \in running
  BY <1>1, WakeUps
<1>3. TypeOK'
  BY <1>1 DEF TypeOK, SchedulerTypeOK
<1>4. HandInv'
  BY <1>1, <1>2 DEF HandInv, InHand
<1>5. WakeInv'
  <2>1. ASSUME NEW v \in WakeUp
        PROVE  /\ next[v] # NoTime => next[v] = FireAt(v) /\ v \notin running' /\ told[v] = 0
               /\ v \in running' \/ told[v] > 0 => FireAt(v) <= now
               /\ v \in running' \ sent' => told[v] = 0
               /\ told[v] <= 1
               /\ told[v] > 0 => v \in running' \cup fired' \cup cut'
    <3>1. CASE v = w
      BY <1>1, <3>1 DEF WakeInv
    <3>2. CASE v # w
      BY <1>1, <3>2 DEF WakeInv
    <3>3. QED BY <3>1, <3>2
  <2>2. QED BY <1>1, <2>1 DEF WakeInv
<1>6. RecordInv' /\ ClearInv'
  BY <1>1 DEF RecordInv, ClearInv
<1>7. w \notin blamed
  BY <1>1 DEF BlameInv
<1>8. BlameInv'
  BY <1>1, <1>7 DEF BlameInv
<1>9. QED BY <1>3, <1>4, <1>5, <1>6, <1>8

LEMMA RecordFiredInv == ASSUME DeskInv, NEW w \in WakeUp, RecordFired(w) PROVE DeskInv'
<1>1. /\ Done(w) /\ sent' = sent \ {w}
      /\ UNCHANGED <<feed, arming, noting, record, told, cleared, blamed, renewed>>
  BY DEF RecordFired
<1>2. CASE fired' = fired \cup {w} /\ UNCHANGED <<cut, faults>>
  <2>1. faults' \in 0..MaxFaults
    BY <1>2 DEF DeskInv, TypeOK
  <2>2. QED BY <1>1, <1>2, <2>1, WakeUpEnds
<1>3. CASE cut' = cut \cup {w} /\ Fault /\ UNCHANGED fired
  BY <1>1, <1>3, FaultFacts, WakeUpEnds DEF DeskInv
<1>4. QED BY <1>2, <1>3 DEF RecordFired

LEMMA BriefRaisesInv == ASSUME DeskInv, NEW w \in WakeUp, BriefRaises(w) PROVE DeskInv'
<1>1. /\ w \notin sent /\ Done(w) /\ cut' = cut \cup {w} /\ faults' \in 0..MaxFaults
      /\ UNCHANGED <<feed, arming, noting, record, sent, fired, told, cleared, blamed, renewed>>
  BY FaultFacts DEF BriefRaises, DeskInv
<1>2. sent' = sent \ {w}
  BY <1>1
<1>3. QED BY <1>1, <1>2, WakeUpEnds
-----------------------------------------------------------------------------
(* The watchdog.                                                            *)

LEMMA SweepInv == ASSUME DeskInv, Sweep PROVE DeskInv'
<1> USE DEF DeskInv
<1>1. /\ Done(Watchdog) /\ Watchdog \in CronJob /\ Watchdog # Agenda
      /\ UNCHANGED <<feed, arming, noting, record, sent, fired, told, renewed, cut, faults>>
      /\ blamed' = blamed \cup {w \in Missed \ running : next[w] = NoTime}
      /\ cleared' = IF Missed = {} THEN cleared \cup {w \in Due : now < FireAt(w) + LateAfter + Day}
                    ELSE cleared
  BY DeskAssumption DEF Sweep
<1>2. running' = running \ {Watchdog} /\ UNCHANGED <<now, up, next>> /\ now \in Nat
  BY <1>1, WakeUps DEF Done, TypeOK, SchedulerTypeOK, Time
<1>3. TypeOK'
  BY <1>1, <1>2 DEF TypeOK, SchedulerTypeOK, Missed, Due
<1>4. RecordInv'
  BY <1>1, <1>2 DEF RecordInv
<1>5. ASSUME NEW w \in cleared'
      PROVE  /\ FireAt(w) + LateAfter <= now
             /\ w \notin fired /\ record[w] > 0 =>
                  w \in cut \/ renewed[w] + RecordTtl <= FireAt(w) + LateAfter + Day
  <2>1. CASE w \in cleared
    BY <2>1 DEF ClearInv
  <2>2. CASE w \notin cleared
    <3>1. w \in Due /\ Missed = {} /\ now < FireAt(w) + LateAfter + Day
      BY <1>1, <1>5, <2>2
    <3>2. w \in WakeUp /\ FireAt(w) + LateAfter <= now
      BY <3>1 DEF Due
    <3>3. w \notin fired => record[w] <= now
      BY <1>2, <3>1, <3>2, WakeUps DEF Missed, TypeOK
    <3>4. w \notin noting
      BY <1>2, <3>2, WakeUps DEF HandInv
    <3>5. record[w] \in Nat /\ renewed[w] \in Nat /\ FireAt(w) \in Nat
      BY <3>2, WakeUps DEF TypeOK, Time
    <3>6. QED BY <1>2, <3>1, <3>2, <3>3, <3>4, <3>5, WakeUps DEF RecordInv
  <2>3. QED BY <2>1, <2>2
<1>6. ClearInv'
  BY <1>1, <1>2, <1>5 DEF ClearInv
<1>7. ASSUME NEW w \in blamed'
      PROVE  /\ FireAt(w) <= now /\ next[w] = NoTime /\ w \notin running \cup fired
             /\ told[w] > 0 => w \in cut
  <2>1. CASE w \in blamed
    BY <2>1 DEF BlameInv
  <2>2. CASE w \notin blamed
    <3>1. w \in Due /\ w \notin fired \cup running /\ next[w] = NoTime
      BY <1>1, <1>7, <2>2 DEF Missed
    <3>2. w \in WakeUp /\ FireAt(w) <= now
      BY <1>2, <3>1, WakeUps DEF Due
    <3>3. QED BY <3>1, <3>2 DEF WakeInv
  <2>3. QED BY <2>1, <2>2
<1>8. BlameInv'
  BY <1>1, <1>2, <1>7 DEF BlameInv
<1>9. QED BY <1>1, <1>3, <1>4, <1>6, <1>8, CronDoneInv

LEMMA SweepFailsInv == ASSUME DeskInv, SweepFails PROVE DeskInv'
<1>1. /\ Done(Watchdog) /\ Watchdog \in CronJob /\ Watchdog # Agenda
      /\ UNCHANGED <<feed, arming, noting, record, sent, fired, told, cleared, blamed, renewed, cut>>
  BY DeskAssumption DEF SweepFails
<1>2. faults' \in 0..MaxFaults
  BY FaultFacts DEF SweepFails, DeskInv
<1>3. TypeOK' /\ RecordInv' /\ ClearInv' /\ BlameInv'
  BY <1>1, <1>2 DEF Done, DeskInv, TypeOK, SchedulerTypeOK, RecordInv, ClearInv, BlameInv
<1>4. QED BY <1>1, <1>3, CronDoneInv
-----------------------------------------------------------------------------
(* The process, and the calendar.                                           *)

LEMMA DieInv == ASSUME DeskInv, Die PROVE DeskInv'
<1> USE DEF DeskInv
<1>1. /\ up' = FALSE /\ running' = {} /\ UNCHANGED <<now, next>>
      /\ arming' = {} /\ noting' = {} /\ sent' = {} /\ faults' \in 0..MaxFaults
      /\ cut' = cut \cup noting \cup (running \cap WakeUp)
      /\ UNCHANGED <<feed, record, fired, told, cleared, blamed, renewed>>
  BY FaultFacts DEF Die, Stop
<1>2. TypeOK'
  <2>1. \A u, v \in noting' : u = v
    BY <1>1
  <2>2. QED BY <1>1, <2>1 DEF TypeOK, SchedulerTypeOK
<1>3. HandInv'
  BY <1>1 DEF HandInv, InHand
<1>4. WakeInv'
  BY <1>1 DEF WakeInv
<1>5. RecordInv' /\ ClearInv'
  BY <1>1 DEF RecordInv, ClearInv
<1>6. BlameInv'
  BY <1>1 DEF BlameInv
<1>7. QED BY <1>2, <1>3, <1>4, <1>5, <1>6

LEMMA MoveInv == ASSUME DeskInv, NEW r \in Release, Move(r) PROVE DeskInv'
<1> USE DEF DeskInv
<1>1. /\ feed' \in [Release -> When] /\ UNCHANGED <<now, up, next, running>>
      /\ UNCHANGED <<arming, noting, record, sent, fired, told, cleared, blamed, renewed, cut, faults>>
  BY DEF Move, TypeOK, scheduler
<1>2. TypeOK'
  BY <1>1 DEF TypeOK, SchedulerTypeOK
<1>3. HandInv' /\ WakeInv' /\ RecordInv' /\ ClearInv' /\ BlameInv'
  BY <1>1 DEF HandInv, InHand, WakeInv, RecordInv, ClearInv, BlameInv
<1>4. QED BY <1>2, <1>3

LEMMA DeskStepInv == DeskInv /\ [Next]_vars => DeskInv'
<1> SUFFICES ASSUME DeskInv, [Next]_vars PROVE DeskInv'
  OBVIOUS
<1>1. ASSUME Start \/ TimePasses \/ (\E j \in Job : Wake(j)), UNCHANGED desk PROVE DeskInv'
  BY <1>1, StartInv, TickInv, WakeStepInv
<1>2. ASSUME RunAgenda \/ FeedFails \/ Sweep \/ SweepFails \/ Die PROVE DeskInv'
  BY <1>2, RunAgendaInv, FeedFailsInv, SweepInv, SweepFailsInv, DieInv
<1>3. ASSUME NEW w \in WakeUp,
             Arm(w) \/ RecordArmed(w) \/ SendBrief(w) \/ RecordFired(w) \/ BriefRaises(w)
      PROVE  DeskInv'
  BY <1>3, ArmInv, RecordArmedInv, SendBriefInv, RecordFiredInv, BriefRaisesInv
<1>4. ASSUME NEW r \in Release, Move(r) PROVE DeskInv'
  BY <1>4, MoveInv
<1>5. ASSUME UNCHANGED vars PROVE DeskInv'
  <2>1. UNCHANGED <<now, up, next, running>> /\ UNCHANGED desk
    BY <1>5 DEF vars, scheduler
  <2>2. TypeOK'
    BY <2>1 DEF DeskInv, TypeOK, SchedulerTypeOK, desk
  <2>3. HandInv' /\ WakeInv' /\ RecordInv' /\ ClearInv' /\ BlameInv'
    BY <2>1 DEF DeskInv, HandInv, InHand, WakeInv, RecordInv, ClearInv, BlameInv, desk
  <2>4. QED BY <2>2, <2>3 DEF DeskInv
<1>6. QED BY <1>1, <1>2, <1>3, <1>4, <1>5 DEF Next

\* The conjunction is an invariant of the desk.
THEOREM DeskInvariant == Spec => []DeskInv
BY DeskInitInv, DeskStepInv, PTL DEF Spec

\* The watchdog's "ok" is true: what it knew of and did not hear of was cut off,
\* or its record had run out.
THEOREM AllClearHolds == Spec => []AllClearIsTrue
<1>1. DeskInv => AllClearIsTrue
  BY DEF DeskInv, ClearInv, AllClearIsTrue
<1>2. QED BY <1>1, DeskInvariant, PTL

\* No message goes out twice, and what the watchdog blames did not run.
THEOREM ReportsHold == Spec => []ReportsAreTrue
<1>1. ASSUME DeskInv PROVE ReportsAreTrue
  <2>1. TypeOK /\ ToldOnce
    BY <1>1 DEF DeskInv, WakeInv, ToldOnce
  <2>2. BlameIsDeserved
    BY <1>1 DEF DeskInv, BlameInv, BlameIsDeserved
  <2>3. QED BY <2>1, <2>2 DEF ReportsAreTrue
<1>2. QED BY <1>1, DeskInvariant, PTL
-----------------------------------------------------------------------------
(* The sweep's queue.                                                       *)
LOCAL INSTANCE FiniteSetsExt

\* A queue without some: the others, in their order.
LEMMA WithoutFacts ==
    ASSUME NEW S, NEW s \in Seq(S), NEW gone, Distinct(s)
    PROVE  /\ Without(s, gone) \in Seq(S) /\ Distinct(Without(s, gone))
           /\ \A d : Among(d, Without(s, gone)) <=> Among(d, s) /\ d \notin gone
<1> DEFINE n == Len(s)
           Next2(r, i) == IF s[i] \in gone THEN r ELSE Append(r, s[i])
           step == [p \in Seq(S) \X (1..n) |-> Next2(p[1], p[2])]
<1>1. n \in Nat /\ \A i \in 1..n : s[i] \in S
  BY LenProperties, ElementOfSeq
<1>2. \A r \in Seq(S), i \in 1..n : step[<<r, i>>] = Next2(r, i)
  OBVIOUS
<1>3. \A r \in Seq(S), i \in 1..n : step[<<r, i>>] \in Seq(S)
  <2>1. \A r \in Seq(S), i \in 1..n : Next2(r, i) \in Seq(S)
    BY <1>1, AppendProperties
  <2> HIDE DEF step, Next2
  <2>2. QED BY <1>2, <2>1
<1> HIDE DEF step
<1>4. PICK g \in [0..n -> Seq(S)] : g[0] = <<>> /\ \A i \in 1..n : g[i] = step[<<g[i - 1], i>>]
  <2>1. IsLoop(Seq(S), n, <<>>, step)
    BY <1>1, <1>3 DEF IsLoop
  <2>2. QED BY <2>1, LoopIsFunction
<1>5. ASSUME NEW i \in 1..n PROVE g[i] = IF s[i] \in gone THEN g[i - 1] ELSE Append(g[i - 1], s[i])
  <2>1. i - 1 \in 0..n
    BY <1>1, <1>5
  <2>2. g[i - 1] \in Seq(S)
    BY <2>1
  <2>3. QED BY <1>2, <1>4, <2>2
<1> DEFINE kept == CHOOSE f : f = [i \in 0..n |-> IF i = 0 THEN <<>>
                                   ELSE IF s[i] \in gone THEN f[i - 1] ELSE Append(f[i - 1], s[i])]
<1>6. /\ kept = [i \in 0..n |-> IF i = 0 THEN <<>>
                                ELSE IF s[i] \in gone THEN kept[i - 1] ELSE Append(kept[i - 1], s[i])]
      /\ Without(s, gone) = kept[n]
  <2>1. \A i \in 0..n : g[i] = IF i = 0 THEN <<>>
                               ELSE IF s[i] \in gone THEN g[i - 1] ELSE Append(g[i - 1], s[i])
    <3>1. ASSUME NEW i \in 0..n, i # 0 PROVE i \in 1..n
      BY <1>1, <3>1
    <3>2. QED BY <1>4, <1>5, <3>1
  <2>2. g = [i \in 0..n |-> IF i = 0 THEN <<>>
                            ELSE IF s[i] \in gone THEN g[i - 1] ELSE Append(g[i - 1], s[i])]
    BY <2>1
  <2>3. kept = [i \in 0..n |-> IF i = 0 THEN <<>>
                               ELSE IF s[i] \in gone THEN kept[i - 1] ELSE Append(kept[i - 1], s[i])]
    BY <2>2, Zenon
  <2>4. Without(s, gone) = kept[n]
    BY Zenon DEF Without
  <2>5. QED BY <2>3, <2>4
<1> HIDE DEF kept
<1>7. kept[0] = <<>> /\ \A i \in 1..n : kept[i] = IF s[i] \in gone THEN kept[i - 1] ELSE Append(kept[i - 1], s[i])
  <2> DEFINE f(i) == IF i = 0 THEN <<>>
                     ELSE IF s[i] \in gone THEN kept[i - 1] ELSE Append(kept[i - 1], s[i])
  <2>1. kept = [i \in 0..n |-> f(i)]
    BY <1>6, Zenon
  <2>2. \A i \in 0..n : kept[i] = f(i)
    <3> HIDE DEF f
    <3>1. QED BY <2>1
  <2>3. 0 \in 0..n /\ \A i \in 1..n : i \in 0..n /\ i # 0
    BY <1>1
  <2>4. kept[0] = f(0) /\ \A i \in 1..n : kept[i] = f(i)
    BY <2>2, <2>3
  <2>5. f(0) = <<>> /\ \A i \in 1..n : f(i) = IF s[i] \in gone THEN kept[i - 1] ELSE Append(kept[i - 1], s[i])
    BY <2>3, Zenon
  <2>6. QED BY <2>4, <2>5, Zenon
<1> DEFINE Good(r, i) == /\ r \in Seq(S) /\ Distinct(r)
                         /\ \A d : Among(d, r) <=> d \notin gone /\ \E j \in 1..i : s[j] = d
           T == {i \in 0..n : Good(kept[i], i)}
<1>8. 0 \in T
  <2>1. <<>> \in Seq(S) /\ Len(<<>>) = 0
    OBVIOUS
  <2>2. Good(<<>>, 0)
    BY <2>1 DEF Distinct, Among
  <2> HIDE DEF Good
  <2>3. QED BY <1>1, <1>7, <2>2
<1>9. ASSUME NEW i \in 0..(n - 1), i \in T PROVE i + 1 \in T
  <2>1. i + 1 \in 1..n /\ i + 1 \in 0..n /\ (i + 1) - 1 = i /\ i \in 0..n
    BY <1>1
  <2> DEFINE r == kept[i]
             d1 == s[i + 1]
  <2>2. Good(r, i) /\ d1 \in S
    BY <1>1, <1>9, <2>1
  <2>3. kept[i + 1] = IF d1 \in gone THEN r ELSE Append(r, d1)
    BY <1>7, <2>1
  <2> HIDE DEF r
  <2>4. \A j \in 1..(i + 1) : j \in 1..i \/ j = i + 1
    BY <2>1
  <2>5. \A j \in 1..i : j \in 1..(i + 1) /\ j \in 1..n /\ j # i + 1
    BY <1>1, <2>1
  <2>6. i + 1 \in 1..(i + 1)
    BY <2>1
  <2>7. CASE d1 \in gone
    <3>1. \A d : d \notin gone =>
             ((\E j \in 1..(i + 1) : s[j] = d) <=> (\E j \in 1..i : s[j] = d))
      BY <2>4, <2>5, <2>7
    <3>2. Good(r, i + 1)
      BY <2>2, <3>1
    <3> HIDE DEF Good
    <3>3. QED BY <2>1, <2>3, <2>7, <3>2
  <2>8. CASE d1 \notin gone
    <3>1. ~Among(d1, r)
      <4>1. \A j \in 1..i : s[j] # d1
        BY <2>1, <2>5 DEF Distinct
      <4>2. QED BY <2>2, <4>1
    <3>2. /\ Append(r, d1) \in Seq(S) /\ Distinct(Append(r, d1))
          /\ \A e : Among(e, Append(r, d1)) <=> e = d1 \/ Among(e, r)
      BY <2>2, <3>1, AppendedFacts
    <3>3. \A e : (\E j \in 1..(i + 1) : s[j] = e) <=> e = d1 \/ \E j \in 1..i : s[j] = e
      BY <2>4, <2>5, <2>6
    <3>4. Good(Append(r, d1), i + 1)
      BY <2>2, <2>8, <3>2, <3>3
    <3> HIDE DEF Good
    <3>5. QED BY <2>1, <2>3, <2>8, <3>4
  <2>9. QED BY <2>7, <2>8
<1>10. n \in T
  <2> HIDE DEF T
  <2>1. n \in 0..n
    BY <1>1
  <2>2. QED BY <1>1, <1>8, <1>9, <2>1, Climb
<1>11. Good(kept[n], n)
  BY <1>10
<1>12. QED BY <1>6, <1>11 DEF Among
-----------------------------------------------------------------------------
(* settle().                                                                *)

LEMMA MinIsLeast ==
    ASSUME NEW S, S \subseteq Nat, S # {}
    PROVE  Min(S) \in S /\ \A k \in S : Min(S) <= k
<1>1. \E m \in S : \A k \in S : m <= k
  BY LeastOfSome
<1>2. QED BY <1>1 DEF Min

LEMMA MinIs ==
    ASSUME NEW S, S \subseteq Nat, NEW m \in S, \A k \in S : m <= k
    PROVE  Min(S) = m
<1>1. Min(S) \in S /\ Min(S) <= m
  BY MinIsLeast
<1>2. m <= Min(S) /\ Min(S) \in Nat /\ m \in Nat
  BY <1>1
<1>3. QED BY <1>1, <1>2

\* The first few of a sequence.
Shorter(n, bound) == IF n <= bound THEN n ELSE bound
First(s, bound) == SubSeq(s, 1, Min({Len(s), bound}))

LEMMA FirstFacts ==
    ASSUME NEW S, NEW s \in Seq(S), NEW bound \in Nat
    PROVE  /\ Shorter(Len(s), bound) \in Nat
           /\ First(s, bound) \in Seq(S) /\ Len(First(s, bound)) = Shorter(Len(s), bound)
           /\ \A i \in 1..Shorter(Len(s), bound) : i \in 1..Len(s) /\ First(s, bound)[i] = s[i]
<1> DEFINE n == Len(s)
           k == Shorter(n, bound)
           two == {n, bound}
<1>1. n \in Nat /\ \A i \in 1..n : s[i] \in S
  BY LenProperties, ElementOfSeq
<1>2. k \in two /\ two \subseteq Nat /\ \A j \in two : k <= j
  BY <1>1 DEF Shorter
<1>3. k \in Nat /\ k <= n
  BY <1>1 DEF Shorter
<1>4. First(s, bound) = SubSeq(s, 1, Min(two))
  BY DEF First
<1> HIDE DEF k, two
<1>5. First(s, bound) = SubSeq(s, 1, k)
  BY <1>2, <1>4, MinIs
<1>6. \A i \in 1..k : i \in 1..n /\ s[i] \in S
  BY <1>1, <1>3
<1>7. /\ SubSeq(s, 1, k) \in Seq(S) /\ Len(SubSeq(s, 1, k)) = k
      /\ \A i \in 1..k : SubSeq(s, 1, k)[i] = s[i]
  BY <1>1, <1>3, <1>6, SubSeqProperties
<1>8. QED BY <1>3, <1>5, <1>6, <1>7 DEF k

LEMMA WindowFacts ==
    ASSUME NEW b \in Seq(AnyBar)
    PROVE  /\ Window(b) \in Seq(AnyBar)
           /\ Len(Window(b)) = IF Len(b) <= MaxBars THEN Len(b) ELSE MaxBars
           /\ \A i \in 1..Len(Window(b)) : Window(b)[i] = b[i]
<1>1. MaxBars \in Nat /\ Window(b) = First(b, MaxBars)
  BY BoundAssumption DEF Window, First
<1>2. QED BY <1>1, FirstFacts DEF Shorter

\* When an order is filled and what ends it, on the bars of a window.
Reach(w) == {i \in 1..Len(w) : w[i].entry}
Fill(o, w) == IF o = "market" THEN 0 ELSE Min(Reach(w))
Ends(o, w) == {i \in 1..Len(w) : i > Fill(o, w) /\ (w[i].stop \/ w[i].target)}
Before(o, w) == IF o = "market" THEN 0 ELSE Min(Reach(w)) - 1
Filled(o, w) == o = "market" \/ Reach(w) # {}
Ended(w, i) == IF w[i].stop THEN "stop" ELSE "target"

LEMMA SettleIs ==
    ASSUME NEW b \in Seq(AnyBar), NEW o, NEW w, w = Window(b)
    PROVE  Settle(o, b) =
              IF ~Filled(o, w) THEN [status |-> "unfilled", held |-> Len(w)]
              ELSE IF Ends(o, w) = {} THEN [status |-> "expired", held |-> Len(w) - Before(o, w)]
              ELSE [status |-> Ended(w, Min(Ends(o, w))),
                    held |-> Min(Ends(o, w)) - 1 - Before(o, w)]
<1>1. DOMAIN w = 1..Len(w)
  BY WindowFacts, LenProperties
<1>2. QED BY <1>1 DEF Settle, Reach, Fill, Ends, Before, Filled, Ended

LEMMA FillFacts ==
    ASSUME NEW w \in Seq(AnyBar), NEW o, Filled(o, w)
    PROVE  /\ Len(w) \in Nat /\ Fill(o, w) \in 0..Len(w) /\ Before(o, w) \in Nat
           /\ Before(o, w) = IF o = "market" THEN 0 ELSE Fill(o, w) - 1
           /\ o # "market" => Fill(o, w) \in Reach(w) /\ \A i \in Reach(w) : Fill(o, w) <= i
           /\ Ends(o, w) # {} => Min(Ends(o, w)) \in Ends(o, w) /\ \A i \in Ends(o, w) : Min(Ends(o, w)) <= i
<1>1. Len(w) \in Nat
  BY LenProperties
<1>2. Reach(w) \subseteq Nat /\ Ends(o, w) \subseteq Nat /\ Reach(w) \subseteq 1..Len(w)
  BY <1>1 DEF Reach, Ends
<1>3. Ends(o, w) # {} => Min(Ends(o, w)) \in Ends(o, w) /\ \A i \in Ends(o, w) : Min(Ends(o, w)) <= i
  BY <1>2, MinIsLeast
<1>4. CASE o = "market"
  BY <1>1, <1>3, <1>4 DEF Fill, Before
<1>5. CASE o # "market"
  <2>1. Min(Reach(w)) \in Reach(w) /\ \A i \in Reach(w) : Min(Reach(w)) <= i
    BY <1>2, <1>5, MinIsLeast DEF Filled
  <2>2. Min(Reach(w)) \in 1..Len(w)
    BY <1>2, <2>1
  <2>3. QED BY <1>1, <1>3, <1>5, <2>1, <2>2 DEF Fill, Before
<1>6. QED BY <1>4, <1>5

\* The loop of settle(), bar by bar.
LEMMA WalkFacts ==
    ASSUME NEW w \in Seq(AnyBar), NEW o
    PROVE  /\ Walk(o, w)[0] = [filled |-> o = "market", at |-> 0, status |-> NoTrade, held |-> 0]
           /\ \A i \in 1..Len(w) : Walk(o, w)[i] = WalkBar(Walk(o, w)[i - 1], w[i], i)
<1> DEFINE n == Len(w)
           first == [filled |-> o = "market", at |-> 0, status |-> NoTrade, held |-> 0]
           S == [filled : BOOLEAN, at : Int, status : {NoTrade, "stop", "target"}, held : Int]
           step == [p \in S \X (1..n) |-> WalkBar(p[1], w[p[2]], p[2])]
<1>1. n \in Nat /\ first \in S
  BY LenProperties
<1>2. ASSUME NEW s \in S, NEW i \in 1..n PROVE step[<<s, i>>] = WalkBar(s, w[i], i)
  OBVIOUS
<1>3. ASSUME NEW s \in S, NEW i \in 1..n PROVE WalkBar(s, w[i], i) \in S
  BY <1>1 DEF WalkBar
<1> HIDE DEF S, step, first
<1>4. PICK g \in [0..n -> S] : g[0] = first /\ \A i \in 1..n : g[i] = step[<<g[i - 1], i>>]
  <2>1. IsLoop(S, n, first, step)
    BY <1>1, <1>2, <1>3 DEF IsLoop
  <2>2. QED BY <2>1, LoopIsFunction
<1>5. ASSUME NEW i \in 1..n PROVE g[i] = WalkBar(g[i - 1], w[i], i)
  <2>1. i - 1 \in 0..n
    BY <1>1, <1>5
  <2>2. g[i - 1] \in S
    BY <2>1
  <2>3. QED BY <1>2, <1>4, <2>2
<1>6. g = [i \in 0..n |-> IF i = 0 THEN first ELSE WalkBar(g[i - 1], w[i], i)]
  <2>1. \A i \in 0..n : g[i] = IF i = 0 THEN first ELSE WalkBar(g[i - 1], w[i], i)
    <3>1. ASSUME NEW i \in 0..n, i # 0 PROVE i \in 1..n
      BY <1>1, <3>1
    <3>2. QED BY <1>4, <1>5, <3>1
  <2>2. QED BY <2>1
<1> DEFINE a == Walk(o, w)
<1>7. a = [i \in 0..n |-> IF i = 0 THEN first ELSE WalkBar(a[i - 1], w[i], i)]
  BY <1>6, Zenon DEF Walk, first
<1> HIDE DEF a
<1>8. a[0] = first /\ \A i \in 1..n : a[i] = WalkBar(a[i - 1], w[i], i)
  BY <1>1, <1>7
<1>9. QED BY <1>8 DEF a, first

\* What the loop has after some bars: an order that waits, one that is filled, or
\* the verdict the first end gives.
State(filled, at, status, held) == [filled |-> filled, at |-> at, status |-> status, held |-> held]
Waits(o, w, i) == o # "market" /\ \A j \in 1..i : ~w[j].entry
Runs(o, w, i) == \A j \in 1..i : j \notin Ends(o, w)

WalkedTo(o, w, i) ==
    IF Waits(o, w, i) THEN State(FALSE, 0, NoTrade, 0)
    ELSE IF Runs(o, w, i) THEN State(TRUE, Before(o, w), NoTrade, 0)
    ELSE State(TRUE, Before(o, w), Ended(w, Min(Ends(o, w))), Min(Ends(o, w)) - 1 - Before(o, w))

LEMMA WalkSteps ==
    ASSUME NEW w \in Seq(AnyBar), NEW o, NEW i \in 0..(Len(w) - 1)
    PROVE  WalkBar(WalkedTo(o, w, i), w[i + 1], i + 1) = WalkedTo(o, w, i + 1)
<1> DEFINE j == i + 1
           bar == w[j]
<1>1. /\ Len(w) \in Nat /\ i \in Nat /\ j \in 1..Len(w) /\ j \in Nat /\ j - 1 = i
      /\ \A k \in 1..j : k \in 1..i \/ k = j
      /\ \A k \in 1..i : k \in 1..j
      /\ j \in 1..j
  BY LenProperties
<1>2. bar \in AnyBar /\ bar.entry \in BOOLEAN /\ bar.stop \in BOOLEAN /\ bar.target \in BOOLEAN
  <2>1. bar \in AnyBar
    BY <1>1, ElementOfSeq
  <2>2. QED BY <2>1 DEF AnyBar
<1> HIDE DEF j
<1>3. CASE Waits(o, w, i) /\ ~bar.entry
  <2>1. Waits(o, w, j)
    BY <1>1, <1>3 DEF Waits
  <2>2. WalkBar(State(FALSE, 0, NoTrade, 0), bar, j) = State(FALSE, 0, NoTrade, 0)
    BY <1>3 DEF WalkBar, State
  <2>3. QED BY <1>3, <2>1, <2>2 DEF WalkedTo, j
<1>4. CASE Waits(o, w, i) /\ bar.entry
  <2>1. j \in Reach(w) /\ Reach(w) \subseteq Nat /\ \A k \in Reach(w) : j <= k
    BY <1>1, <1>4 DEF Reach, Waits
  <2>2. Min(Reach(w)) = j
    BY <2>1, MinIs
  <2>3. Fill(o, w) = j /\ Before(o, w) = j - 1
    BY <1>4, <2>2 DEF Fill, Before, Waits
  <2>4. Runs(o, w, j) /\ ~Waits(o, w, j)
    BY <1>1, <1>4, <2>3 DEF Runs, Ends, Waits
  <2>5. WalkBar(State(FALSE, 0, NoTrade, 0), bar, j) = State(TRUE, j - 1, NoTrade, 0)
    BY <1>4 DEF WalkBar, State
  <2>6. QED BY <1>4, <2>3, <2>4, <2>5 DEF WalkedTo, j
<1>5. CASE ~Waits(o, w, i)
  <2>1. ~Waits(o, w, j)
    BY <1>1, <1>5 DEF Waits
  <2>2. Fill(o, w) < j
    <3>1. CASE o = "market"
      BY <1>1, <3>1 DEF Fill
    <3>2. CASE o # "market"
      <4>1. PICK k \in 1..i : w[k].entry
        BY <1>5, <3>2 DEF Waits
      <4>2. k \in Reach(w) /\ Filled(o, w)
        BY <1>1, <4>1 DEF Reach, Filled
      <4>3. Fill(o, w) <= k /\ Fill(o, w) \in Nat
        BY <3>2, <4>2, FillFacts
      <4>4. QED BY <1>1, <4>3
    <3>3. QED BY <3>1, <3>2
  <2>3. j \in Ends(o, w) <=> bar.stop \/ bar.target
    BY <1>1, <2>2 DEF Ends
  <2>4. CASE Runs(o, w, i) /\ j \notin Ends(o, w)
    <3>1. Runs(o, w, j)
      BY <1>1, <2>4 DEF Runs
    <3>2. WalkBar(State(TRUE, Before(o, w), NoTrade, 0), bar, j) = State(TRUE, Before(o, w), NoTrade, 0)
      BY <2>3, <2>4 DEF WalkBar, State
    <3>3. QED BY <1>5, <2>1, <2>4, <3>1, <3>2 DEF WalkedTo, j
  <2>5. CASE Runs(o, w, i) /\ j \in Ends(o, w)
    <3>1. ~Runs(o, w, j)
      BY <1>1, <2>5 DEF Runs
    <3>2. Ends(o, w) \subseteq Nat /\ \A k \in Ends(o, w) : j <= k
      BY <1>1, <2>5 DEF Ends, Runs
    <3>3. Min(Ends(o, w)) = j
      BY <2>5, <3>2, MinIs
    <3>4. WalkBar(State(TRUE, Before(o, w), NoTrade, 0), bar, j)
            = State(TRUE, Before(o, w), Ended(w, j), j - 1 - Before(o, w))
      BY <2>3, <2>5 DEF WalkBar, State, Ended
    <3>5. QED BY <1>5, <2>1, <2>5, <3>1, <3>3, <3>4 DEF WalkedTo, j
  <2>6. CASE ~Runs(o, w, i)
    <3>1. ~Runs(o, w, j)
      BY <1>1, <2>6 DEF Runs
    <3>2. WalkedTo(o, w, i).status # NoTrade
      BY <1>5, <2>6 DEF WalkedTo, State, Ended, NoTrade
    <3>3. WalkBar(WalkedTo(o, w, i), bar, j) = WalkedTo(o, w, i)
      BY <3>2 DEF WalkBar
    <3>4. WalkedTo(o, w, j) = WalkedTo(o, w, i)
      BY <1>5, <2>1, <2>6, <3>1 DEF WalkedTo
    <3>5. QED BY <3>3, <3>4 DEF j
  <2>7. QED BY <2>4, <2>5, <2>6
<1>6. QED BY <1>3, <1>4, <1>5

LEMMA WalkEnds ==
    ASSUME NEW w \in Seq(AnyBar), NEW o
    PROVE  Walk(o, w)[Len(w)] = WalkedTo(o, w, Len(w))
<1> DEFINE n == Len(w)
           T == {i \in 0..n : Walk(o, w)[i] = WalkedTo(o, w, i)}
<1>1. n \in Nat
  BY LenProperties
<1>2. 0 \in T
  <2>1. Runs(o, w, 0) /\ (Waits(o, w, 0) <=> o # "market") /\ (o = "market" => Before(o, w) = 0)
    BY DEF Runs, Waits, Before
  <2>2. Walk(o, w)[0] = State(o = "market", 0, NoTrade, 0)
    BY WalkFacts DEF State
  <2>3. CASE o = "market"
    <3>1. Walk(o, w)[0] = State(TRUE, 0, NoTrade, 0)
      BY <2>2, <2>3, Zenon
    <3>2. WalkedTo(o, w, 0) = State(TRUE, 0, NoTrade, 0)
      BY <2>1, <2>3 DEF WalkedTo
    <3>3. Walk(o, w)[0] = WalkedTo(o, w, 0)
      BY <3>1, <3>2, Zenon
    <3>4. 0 \in 0..n
      BY <1>1
    <3>5. QED BY <3>3, <3>4, Zenon
  <2>4. CASE o # "market"
    <3>1. Walk(o, w)[0] = State(FALSE, 0, NoTrade, 0)
      BY <2>2, <2>4, Zenon
    <3>2. WalkedTo(o, w, 0) = State(FALSE, 0, NoTrade, 0)
      BY <2>1, <2>4 DEF WalkedTo
    <3>3. Walk(o, w)[0] = WalkedTo(o, w, 0)
      BY <3>1, <3>2, Zenon
    <3>4. 0 \in 0..n
      BY <1>1
    <3>5. QED BY <3>3, <3>4, Zenon
  <2>5. QED BY <2>3, <2>4
<1>3. ASSUME NEW i \in 0..(n - 1), i \in T PROVE i + 1 \in T
  <2>1. i + 1 \in 0..n /\ i + 1 \in 1..n /\ (i + 1) - 1 = i
    BY <1>1
  <2>2. Walk(o, w)[i + 1] = WalkBar(Walk(o, w)[i], w[i + 1], i + 1)
    <3>1. \A j \in 1..n : Walk(o, w)[j] = WalkBar(Walk(o, w)[j - 1], w[j], j)
      BY WalkFacts
    <3>2. Walk(o, w)[i + 1] = WalkBar(Walk(o, w)[(i + 1) - 1], w[i + 1], i + 1)
      BY <2>1, <3>1
    <3>3. QED BY <2>1, <3>2, Zenon
  <2>3. Walk(o, w)[i] = WalkedTo(o, w, i)
    BY <1>3
  <2>4. QED BY <2>1, <2>2, <2>3, WalkSteps
<1>4. n \in T
  <2> HIDE DEF T
  <2>1. n \in 0..n
    BY <1>1
  <2>2. QED BY <1>1, <1>2, <1>3, <2>1, Climb
<1>5. QED BY <1>4

\* The definition by first bars is what the loop computes.
LEMMA LoopSettles ==
    ASSUME NEW b \in Seq(AnyBar), NEW o
    PROVE  Settle(o, b) = SettleLoop(o, b)
<1> DEFINE w == Window(b)
           n == Len(w)
           s == Walk(o, w)[n]
<1>1. w \in Seq(AnyBar) /\ n \in Nat
  BY WindowFacts, LenProperties
<1>2. s = WalkedTo(o, w, n)
  BY <1>1, WalkEnds
<1>3. Waits(o, w, n) <=> ~Filled(o, w)
  BY DEF Waits, Filled, Reach
<1>4. Runs(o, w, n) <=> Ends(o, w) = {}
  BY DEF Runs, Ends
<1>5. SettleLoop(o, b) = IF s.status # NoTrade THEN [status |-> s.status, held |-> s.held]
                         ELSE IF ~s.filled THEN [status |-> "unfilled", held |-> n]
                         ELSE [status |-> "expired", held |-> n - s.at]
  BY DEF SettleLoop
<1>6. Settle(o, b) =
              IF ~Filled(o, w) THEN [status |-> "unfilled", held |-> n]
              ELSE IF Ends(o, w) = {} THEN [status |-> "expired", held |-> n - Before(o, w)]
              ELSE [status |-> Ended(w, Min(Ends(o, w))),
                    held |-> Min(Ends(o, w)) - 1 - Before(o, w)]
  BY SettleIs
<1>7. Ended(w, Min(Ends(o, w))) # NoTrade
  BY DEF Ended, NoTrade
<1> HIDE DEF w, n, s
<1>8. CASE ~Filled(o, w)
  BY <1>2, <1>3, <1>5, <1>6, <1>8 DEF WalkedTo, State
<1>9. CASE Filled(o, w) /\ Ends(o, w) = {}
  BY <1>2, <1>3, <1>4, <1>5, <1>6, <1>9 DEF WalkedTo, State
<1>10. CASE Filled(o, w) /\ Ends(o, w) # {}
  BY <1>2, <1>3, <1>4, <1>5, <1>6, <1>7, <1>10 DEF WalkedTo, State
<1>11. QED BY <1>8, <1>9, <1>10

\* What a bar said.
EndedSet == {"stop", "target"}

\* A verdict that bars gave is the one that more of them give.
LEMMA VerdictKept ==
    ASSUME NEW b \in Seq(AnyBar), NEW b2 \in Seq(AnyBar), NEW o, NEW status,
           Len(b) <= Len(b2), \A i \in 1..Len(b) : b2[i] = b[i],
           Settle(o, b).status = status,
           status \in EndedSet \/ Len(b) >= MaxBars
    PROVE  Settle(o, b2).status = status
<1> DEFINE w == Window(b)
           w2 == Window(b2)
           n == Len(b)
<1>1. MaxBars \in Nat /\ n \in Nat
  BY BoundAssumption, LenProperties
<1>2. Len(b2) \in Nat /\ n <= Len(b2) /\ \A i \in 1..n : b2[i] = b[i]
  BY LenProperties
<1>3. /\ w \in Seq(AnyBar) /\ w2 \in Seq(AnyBar) /\ Len(w) \in Nat /\ Len(w2) \in Nat
      /\ Len(w) = IF n <= MaxBars THEN n ELSE MaxBars
      /\ Len(w2) = IF Len(b2) <= MaxBars THEN Len(b2) ELSE MaxBars
      /\ \A i \in 1..Len(w) : w[i] = b[i]
      /\ \A i \in 1..Len(w2) : w2[i] = b2[i]
  <2>1. w \in Seq(AnyBar) /\ w2 \in Seq(AnyBar)
    BY <1>2, WindowFacts
  <2>2. QED BY <1>2, <2>1, WindowFacts, LenProperties
<1> HIDE DEF w, w2
<1>4. /\ Len(w) <= Len(w2)
      /\ n >= MaxBars => Len(w2) = Len(w)
      /\ \A i \in 1..Len(w) : i \in 1..Len(w2) /\ i \in 1..n /\ w2[i] = w[i]
  BY <1>1, <1>2, <1>3
<1>5. CASE n >= MaxBars
  <2>1. w2 = w
    BY <1>3, <1>4, <1>5, SeqEqual
  <2>2. Settle(o, b2) = Settle(o, b)
    BY <1>2, <2>1, SettleIs DEF w, w2
  <2>3. QED BY <2>2
<1>7. CASE ~(n >= MaxBars)
  <2>1. status \in {"stop", "target"} /\ Settle(o, b).status = status
    BY <1>7 DEF EndedSet
  <2>2. Filled(o, w) /\ Ends(o, w) # {} /\ status = Ended(w, Min(Ends(o, w)))
    <3>1. CASE ~Filled(o, w)
      BY <2>1, <3>1, SettleIs DEF w
    <3>2. CASE Filled(o, w) /\ Ends(o, w) = {}
      BY <2>1, <3>2, SettleIs DEF w
    <3>3. CASE Filled(o, w) /\ Ends(o, w) # {}
      BY <2>1, <3>3, SettleIs DEF w
    <3>4. QED BY <3>1, <3>2, <3>3
  <2>3. Reach(w) \subseteq Reach(w2) /\ \A i \in Reach(w2) : i \in Reach(w) \/ i > Len(w)
    BY <1>3, <1>4 DEF Reach
  <2>4. Filled(o, w2) /\ Fill(o, w2) = Fill(o, w)
    <3>1. CASE o = "market"
      BY <3>1 DEF Fill, Filled
    <3>2. CASE o # "market"
      <4>1. /\ Fill(o, w) \in Reach(w) /\ Fill(o, w) \in 0..Len(w)
            /\ \A i \in Reach(w) : Fill(o, w) <= i
        BY <1>3, <2>2, <3>2, FillFacts
      <4>2. Reach(w2) \subseteq Nat /\ \A i \in Reach(w2) : Fill(o, w) <= i
        BY <1>3, <2>3, <4>1 DEF Reach
      <4>3. Min(Reach(w2)) = Fill(o, w)
        BY <2>3, <4>1, <4>2, MinIs
      <4>4. QED BY <2>3, <3>2, <4>1, <4>3 DEF Fill, Filled
    <3>3. QED BY <3>1, <3>2
  <2>5. Ends(o, w) \subseteq Ends(o, w2) /\ \A i \in Ends(o, w2) : i \in Ends(o, w) \/ i > Len(w)
    BY <1>3, <1>4, <2>4 DEF Ends
  <2> DEFINE m == Min(Ends(o, w))
  <2>6. m \in Ends(o, w) /\ m \in 1..Len(w) /\ \A i \in Ends(o, w) : m <= i
    <3>1. m \in Ends(o, w) /\ \A i \in Ends(o, w) : m <= i
      BY <1>3, <2>2, FillFacts
    <3>2. QED BY <3>1 DEF Ends
  <2> HIDE DEF m
  <2>7. m \in Ends(o, w2) /\ Ends(o, w2) \subseteq Nat /\ \A i \in Ends(o, w2) : m <= i
    BY <1>3, <2>5, <2>6 DEF Ends
  <2>8. Min(Ends(o, w2)) = m
    BY <2>7, MinIs
  <2>9. Ended(w2, m) = Ended(w, m)
    BY <1>4, <2>6 DEF Ended
  <2>10. Settle(o, b2).status = Ended(w2, Min(Ends(o, w2)))
    BY <1>2, <2>4, <2>7, SettleIs DEF w2
  <2>11. Settle(o, b2).status = status
    BY <2>2, <2>8, <2>9, <2>10 DEF m
  <2>12. QED BY <2>1, <2>11
<1>8. QED BY <1>5, <1>7

\* The last bar widens: what an earlier one decided stays, a stop stays, and
\* what was decided stays decided.
LEMMA VerdictWidens ==
    ASSUME NEW b \in Seq(AnyBar), NEW b2 \in Seq(AnyBar), NEW o, Len(b) \in 1..MaxBars,
           Len(b2) = Len(b), \A i \in 1..(Len(b) - 1) : b2[i] = b[i], Widens(b[Len(b)], b2[Len(b)])
    PROVE  /\ Settle(o, b).status = "stop" => Settle(o, b2).status = "stop"
           /\ Settle(o, b).status \in EndedSet => Settle(o, b2).status \in EndedSet
           /\ Settle(o, b).status # "unfilled" => Settle(o, b2).status # "unfilled"
<1> DEFINE n == Len(b)
           w == Window(b)
           w2 == Window(b2)
<1>1. MaxBars \in Nat /\ n \in Nat /\ n <= MaxBars /\ n >= 1
  BY BoundAssumption, LenProperties
<1>2. /\ w \in Seq(AnyBar) /\ w2 \in Seq(AnyBar) /\ Len(w) = n /\ Len(w2) = n
      /\ \A i \in 1..n : w[i] = b[i] /\ w2[i] = b2[i]
  BY <1>1, WindowFacts
<1>3. /\ \A i \in 1..n : i # n => w2[i] = w[i]
      /\ Widens(w[n], w2[n])
  BY <1>1, <1>2
<1> HIDE DEF w, w2, n
<1>4. \A i \in 1..n : (w[i].entry => w2[i].entry) /\ (w[i].stop => w2[i].stop) /\ (w[i].target => w2[i].target)
  BY <1>1, <1>3 DEF Widens
<1>5. Reach(w) \subseteq Reach(w2) /\ \A i \in Reach(w2) : i \in Reach(w) \/ i = n
  BY <1>2, <1>3, <1>4 DEF Reach
<1>6. Filled(o, w) => Filled(o, w2)
  BY <1>5 DEF Filled
<1>7. Settle(o, b).status # "unfilled" <=> Filled(o, w)
  BY SettleIs DEF w, Ended
<1>8. Settle(o, b2).status # "unfilled" <=> Filled(o, w2)
  BY SettleIs DEF w2, Ended
<1>9. ASSUME Settle(o, b).status \in EndedSet
      PROVE  /\ Settle(o, b2).status \in EndedSet
             /\ Settle(o, b).status = "stop" => Settle(o, b2).status = "stop"
  <2>1. Filled(o, w) /\ Ends(o, w) # {} /\ Settle(o, b).status = Ended(w, Min(Ends(o, w)))
    <3>1. CASE ~Filled(o, w)
      BY <1>9, <3>1, SettleIs DEF w, EndedSet
    <3>2. CASE Filled(o, w) /\ Ends(o, w) = {}
      BY <1>9, <3>2, SettleIs DEF w, EndedSet
    <3>3. CASE Filled(o, w) /\ Ends(o, w) # {}
      BY <1>9, <3>3, SettleIs DEF w
    <3>4. QED BY <3>1, <3>2, <3>3
  <2>2. Filled(o, w2) /\ Fill(o, w2) = Fill(o, w)
    <3>1. CASE o = "market"
      BY <3>1 DEF Fill, Filled
    <3>2. CASE o # "market"
      <4>1. /\ Fill(o, w) \in Reach(w) /\ Fill(o, w) \in 0..n
            /\ \A i \in Reach(w) : Fill(o, w) <= i
        BY <1>2, <2>1, <3>2, FillFacts
      <4>2. Reach(w2) \subseteq Nat /\ \A i \in Reach(w2) : Fill(o, w) <= i
        BY <1>1, <1>2, <1>5, <4>1 DEF Reach
      <4>3. Min(Reach(w2)) = Fill(o, w)
        BY <1>5, <4>1, <4>2, MinIs
      <4>4. QED BY <1>5, <3>2, <4>1, <4>3 DEF Fill, Filled
    <3>3. QED BY <3>1, <3>2
  <2>3. Ends(o, w) \subseteq Ends(o, w2) /\ \A i \in Ends(o, w2) : i \in Ends(o, w) \/ i = n
    BY <1>2, <1>3, <1>4, <2>2 DEF Ends
  <2> DEFINE m == Min(Ends(o, w))
  <2>4. m \in Ends(o, w) /\ m \in 1..n /\ \A i \in Ends(o, w) : m <= i
    <3>1. m \in Ends(o, w) /\ \A i \in Ends(o, w) : m <= i
      BY <1>2, <2>1, FillFacts
    <3>2. QED BY <1>2, <3>1 DEF Ends
  <2> HIDE DEF m
  <2>5. m \in Ends(o, w2) /\ Ends(o, w2) \subseteq Nat /\ \A i \in Ends(o, w2) : m <= i
    BY <1>1, <1>2, <2>3, <2>4 DEF Ends
  <2>6. Min(Ends(o, w2)) = m
    BY <2>5, MinIs
  <2>7. Settle(o, b2).status = Ended(w2, m)
    BY <2>2, <2>5, <2>6, SettleIs DEF w2
  <2>8. Settle(o, b).status = Ended(w, m)
    BY <2>1 DEF m
  <2>9. QED BY <1>4, <2>4, <2>7, <2>8 DEF Ended, EndedSet
<1>10. QED BY <1>6, <1>7, <1>8, <1>9 DEF EndedSet

\* The first bars, as many as the sweep was given.
UpTo(b, j) == SubSeq(b, 1, j)

LEMMA UpToFacts ==
    ASSUME NEW b \in Seq(AnyBar), NEW j \in 0..Len(b)
    PROVE  /\ UpTo(b, j) \in Seq(AnyBar) /\ Len(UpTo(b, j)) = j
           /\ \A i \in 1..j : UpTo(b, j)[i] = b[i]
<1>1. Len(b) \in Nat /\ \A i \in 1..Len(b) : b[i] \in AnyBar
  BY LenProperties, ElementOfSeq
<1>2. \A i \in 1..j : i \in 1..Len(b) /\ b[i] \in AnyBar
  BY <1>1
<1>3. QED BY <1>1, <1>2, SubSeqProperties DEF UpTo

\* The bars that were finished when a window of an unfilled order was open do not
\* fill it.
LEMMA UnfilledBefore ==
    ASSUME NEW b \in Seq(AnyBar), NEW o, NEW j \in 1..Len(b), Settle(o, b).status = "unfilled"
    PROVE  Settle(o, UpTo(b, j - 1)).status = "unfilled"
<1> DEFINE f == UpTo(b, j - 1)
           w == Window(b)
           w1 == Window(f)
<1>1. MaxBars \in Nat /\ Len(b) \in Nat /\ j - 1 \in 0..Len(b) /\ j - 1 \in Nat
  BY BoundAssumption, LenProperties
<1>2. f \in Seq(AnyBar) /\ Len(f) = j - 1 /\ \A i \in 1..(j - 1) : f[i] = b[i]
  BY <1>1, UpToFacts
<1> HIDE DEF f
<1>3. /\ Len(w) = IF Len(b) <= MaxBars THEN Len(b) ELSE MaxBars
      /\ \A i \in 1..Len(w) : w[i] = b[i]
  BY WindowFacts
<1>4. /\ Len(w1) = IF j - 1 <= MaxBars THEN j - 1 ELSE MaxBars
      /\ \A i \in 1..Len(w1) : w1[i] = f[i]
  BY <1>2, WindowFacts
<1>5. ~Filled(o, w)
  <2>1. CASE Filled(o, w) /\ Ends(o, w) = {}
    BY <2>1, SettleIs
  <2>2. CASE Filled(o, w) /\ Ends(o, w) # {}
    BY <2>2, SettleIs DEF Ended
  <2>3. QED BY <2>1, <2>2
<1> HIDE DEF w, w1
<1>6. \A i \in 1..Len(w1) : i \in 1..Len(w) /\ w1[i] = w[i]
  BY <1>1, <1>2, <1>3, <1>4
<1>7. ~Filled(o, w1)
  BY <1>5, <1>6 DEF Filled, Reach
<1>8. Settle(o, f).status = "unfilled"
  BY <1>2, <1>7, SettleIs DEF w1
<1>9. QED BY <1>8 DEF f

\* What the bars of its sweep said for a verdict; or what the last of them,
\* undecided before it, has come to say; or that none of those before it fills.
Holds(o, b, j, status) ==
    \/ /\ Settle(o, UpTo(b, j)).status = status
       /\ status = "expired" => j >= MaxBars
       /\ status = "unfilled" => j > MaxBars
    \/ /\ status = "unfilled" /\ j <= MaxBars
       /\ Settle(o, UpTo(b, j - 1)).status = "unfilled"
    \/ /\ status \in {"target", "expired"} /\ j <= MaxBars
       /\ Settle(o, UpTo(b, j - 1)).status \notin EndedSet
       /\ Settle(o, UpTo(b, j)).status \in EndedSet

Told(o, b, j, status) ==
    status \in Final => j \in 1..Len(b) /\ Holds(o, b, j, status)

LEMMA ToldLater ==
    ASSUME NEW b \in Seq(AnyBar), NEW o, NEW j, NEW bar \in AnyBar, NEW status, Told(o, b, j, status)
    PROVE  Told(o, Append(b, bar), j, status)
<1> DEFINE b2 == Append(b, bar)
<1>1. /\ b2 \in Seq(AnyBar) /\ Len(b) \in Nat /\ Len(b2) = Len(b) + 1
      /\ \A i \in 1..Len(b) : b2[i] = b[i]
  BY AppendProperties, LenProperties
<1> HIDE DEF b2
<1>2. ASSUME NEW k \in 0..Len(b) PROVE UpTo(b2, k) = UpTo(b, k)
  <2>1. k \in 0..Len(b2) /\ \A i \in 1..k : i \in 1..Len(b)
    BY <1>1
  <2>2. /\ UpTo(b, k) \in Seq(AnyBar) /\ UpTo(b2, k) \in Seq(AnyBar)
        /\ Len(UpTo(b, k)) = k /\ Len(UpTo(b2, k)) = k
        /\ \A i \in 1..k : UpTo(b2, k)[i] = UpTo(b, k)[i]
    BY <1>1, <2>1, UpToFacts
  <2>3. QED BY <2>2, SeqEqual
<1>3. CASE status \in Final
  <2>1. j \in 1..Len(b) /\ Holds(o, b, j, status)
    BY <1>3 DEF Told
  <2>2. j \in 0..Len(b) /\ j - 1 \in 0..Len(b) /\ j \in 1..Len(b2)
    BY <1>1, <2>1
  <2>3. UpTo(b2, j) = UpTo(b, j) /\ UpTo(b2, j - 1) = UpTo(b, j - 1)
    BY <1>2, <2>2
  <2>4. QED BY <2>1, <2>2, <2>3 DEF Told, Holds, b2
<1>4. QED BY <1>3 DEF Told

LEMMA ToldWider ==
    ASSUME NEW b \in Seq(AnyBar), b # <<>>, NEW o, NEW j, NEW bar \in AnyBar, NEW status,
           Widens(b[Len(b)], bar), Told(o, b, j, status)
    PROVE  Told(o, [b EXCEPT ![Len(b)] = bar], j, status)
<1> DEFINE n == Len(b)
           b2 == [b EXCEPT ![n] = bar]
<1>1. n \in Nat /\ n >= 1 /\ MaxBars \in Nat
  BY BoundAssumption, EmptySeq, LenProperties
<1>2. /\ b2 \in Seq(AnyBar) /\ Len(b2) = n /\ b2[n] = bar
      /\ \A i \in 1..n : i # n => b2[i] = b[i]
  BY <1>1, ExceptSeq
<1> SUFFICES Told(o, b2, j, status)
  BY DEF b2, n
<1> HIDE DEF b2, n
<1>3. CASE status \in Final
  <2>1. j \in 1..n /\ Holds(o, b, j, status)
    BY <1>3 DEF Told, n
  <2>2. j \in 0..n /\ j - 1 \in 0..n /\ j - 1 # n /\ j \in Nat
    BY <1>1, <2>1
  <2> DEFINE p == UpTo(b, j)  p2 == UpTo(b2, j)  f == UpTo(b, j - 1)
  <2>3. /\ p \in Seq(AnyBar) /\ p2 \in Seq(AnyBar) /\ f \in Seq(AnyBar)
        /\ UpTo(b2, j - 1) \in Seq(AnyBar)
        /\ Len(p) = j /\ Len(p2) = j /\ Len(f) = j - 1 /\ Len(UpTo(b2, j - 1)) = j - 1
        /\ \A i \in 1..j : p[i] = b[i] /\ p2[i] = b2[i]
        /\ \A i \in 1..(j - 1) : f[i] = b[i] /\ UpTo(b2, j - 1)[i] = b2[i]
    BY <1>2, <2>2, UpToFacts DEF n
  <2> HIDE DEF p, p2, f
  <2>4. \A i \in 1..(j - 1) : i \in 1..n /\ i # n /\ i \in 1..j /\ b2[i] = b[i]
    BY <1>1, <1>2, <2>1
  <2>5. UpTo(b2, j - 1) = f
    BY <2>3, <2>4, SeqEqual
  <2>6. CASE j # n
    <3>0. \A i \in 1..j : i \in 1..n /\ i # n
      BY <1>1, <2>1, <2>6
    <3>1. p2 = p
      <4>1. \A i \in 1..Len(p) : p2[i] = p[i]
        BY <1>2, <2>3, <3>0
      <4>2. QED BY <2>3, <4>1, SeqEqual
    <3>2. QED BY <1>2, <2>1, <2>5, <3>1 DEF Told, Holds, p, p2, f
  <2>7. CASE j = n /\ j > MaxBars
    <3>1. Window(p) \in Seq(AnyBar) /\ Window(p2) \in Seq(AnyBar) /\ Len(Window(p)) = MaxBars /\ Len(Window(p2)) = MaxBars
          /\ \A i \in 1..MaxBars : Window(p)[i] = p[i] /\ Window(p2)[i] = p2[i]
      <4>1. /\ Window(p) \in Seq(AnyBar) /\ Window(p2) \in Seq(AnyBar)
            /\ Len(Window(p)) = MaxBars /\ Len(Window(p2)) = MaxBars
        BY <1>1, <2>2, <2>3, <2>7, WindowFacts
      <4>2. \A i \in 1..MaxBars : Window(p)[i] = p[i] /\ Window(p2)[i] = p2[i]
        BY <2>3, <4>1, WindowFacts
      <4>3. QED BY <4>1, <4>2
    <3>2. \A i \in 1..MaxBars : p2[i] = p[i]
      BY <1>1, <2>2, <2>3, <2>4, <2>7
    <3>3. Window(p2) = Window(p)
      BY <3>1, <3>2, SeqEqual
    <3>4. Settle(o, p2) = Settle(o, p)
      BY <3>3 DEF Settle
    <3>5. QED BY <1>2, <2>1, <2>5, <3>4 DEF Told, Holds, p, p2, f
  <2>8. CASE j = n /\ ~(j > MaxBars)
    <3>1. /\ Len(p) \in 1..MaxBars /\ Len(p2) = Len(p)
          /\ \A i \in 1..(Len(p) - 1) : p2[i] = p[i]
          /\ Widens(p[Len(p)], p2[Len(p)])
      <4>1. j = n /\ n \in 1..MaxBars /\ n \in 1..j
        BY <1>1, <2>1, <2>8
      <4>2. \A i \in 1..(j - 1) : p2[i] = p[i]
        BY <2>3, <2>4
      <4>3. p[n] = b[n] /\ p2[n] = bar /\ Widens(b[n], bar)
        BY <1>2, <2>3, <4>1 DEF n
      <4>4. QED BY <2>3, <4>1, <4>2, <4>3
    <3>2. /\ Settle(o, p).status = "stop" => Settle(o, p2).status = "stop"
          /\ Settle(o, p).status \in EndedSet => Settle(o, p2).status \in EndedSet
          /\ Settle(o, p).status # "unfilled" => Settle(o, p2).status # "unfilled"
      BY <2>3, <3>1, VerdictWidens
    <3>3. CASE /\ Settle(o, p).status = status
               /\ status = "expired" => j >= MaxBars
               /\ status = "unfilled" => j > MaxBars
               /\ Settle(o, p2).status # status
      <4>1. Settle(o, p2).status \in Final
        BY <2>3, SettleIs DEF Final, Ended
      <4>2. status # "unfilled"
        BY <2>8, <3>3
      <4>22. status \in {"target", "expired"} /\ Settle(o, p2).status \in EndedSet
        BY <1>3, <3>2, <3>3, <4>1, <4>2 DEF Final, EndedSet
      <4>3. ASSUME Settle(o, f).status \in EndedSet PROVE FALSE
        <5>1. /\ Len(f) <= Len(p) /\ \A i \in 1..Len(f) : p[i] = f[i]
              /\ Len(f) <= Len(p2) /\ \A i \in 1..Len(f) : p2[i] = f[i]
          <6>1. j - 1 <= j
            BY <2>2
          <6>2. \A i \in 1..Len(f) : p[i] = f[i] /\ p2[i] = f[i]
            BY <2>3, <2>4
          <6>3. QED BY <2>3, <6>1, <6>2
        <5>2. Settle(o, p).status = Settle(o, f).status
          BY <2>3, <4>3, <5>1, VerdictKept
        <5>3. Settle(o, p2).status = Settle(o, f).status
          BY <2>3, <4>3, <5>1, VerdictKept
        <5>4. QED BY <3>3, <5>2, <5>3
      <4>4. j <= MaxBars
        BY <1>1, <2>2, <2>8
      <4>5. QED BY <1>2, <2>1, <2>5, <4>22, <4>3, <4>4 DEF Told, Holds, p2, f
    <3>4. CASE /\ Settle(o, p).status = status
               /\ status = "expired" => j >= MaxBars
               /\ status = "unfilled" => j > MaxBars
               /\ Settle(o, p2).status = status
      BY <1>2, <2>1, <3>4 DEF Told, Holds, p2
    <3>5. CASE /\ status \in {"target", "expired"} /\ j <= MaxBars
               /\ Settle(o, f).status \notin EndedSet
               /\ Settle(o, p).status \in EndedSet
      BY <1>2, <2>1, <2>5, <3>2, <3>5 DEF Told, Holds, p2, f
    <3>6. CASE status = "unfilled" /\ j <= MaxBars /\ Settle(o, f).status = "unfilled"
      BY <1>2, <2>1, <2>5, <3>6 DEF Told, Holds, f
    <3>7. QED BY <2>1, <3>3, <3>4, <3>5, <3>6 DEF Holds, p, f
  <2>9. QED BY <2>6, <2>7, <2>8
<1>4. QED BY <1>3 DEF Told

\* So the bars that came since say the same, unless it was that bar or the window
\* of an unfilled order was open.
LEMMA ToldStands ==
    ASSUME NEW b \in Seq(AnyBar), NEW o, NEW j, NEW status, status \in Final, Told(o, b, j, status)
    PROVE  \/ Settle(o, b).status = status
           \/ /\ j <= MaxBars
              /\ \/ /\ status \in {"target", "expired"}
                    /\ Settle(o, SubSeq(b, 1, j - 1)).status \notin EndedSet
                    /\ Settle(o, SubSeq(b, 1, j)).status \in EndedSet
                 \/ status = "unfilled" /\ Settle(o, SubSeq(b, 1, j - 1)).status = "unfilled"
<1>1. j \in 1..Len(b) /\ Holds(o, b, j, status) /\ Len(b) \in Nat
  BY LenProperties DEF Told
<1>2. CASE /\ Settle(o, UpTo(b, j)).status = status
           /\ status = "expired" => j >= MaxBars
           /\ status = "unfilled" => j > MaxBars
  <2>1. j \in 0..Len(b) /\ MaxBars \in Nat
    BY <1>1, BoundAssumption
  <2>2. UpTo(b, j) \in Seq(AnyBar) /\ Len(UpTo(b, j)) = j /\ \A i \in 1..j : b[i] = UpTo(b, j)[i]
    BY <2>1, UpToFacts
  <2>3. status \in EndedSet \/ j >= MaxBars
    BY <1>2, <2>1 DEF Final, EndedSet
  <2>4. Settle(o, b).status = status
    BY <1>1, <1>2, <2>2, <2>3, VerdictKept
  <2>5. QED BY <2>4
<1>3. QED BY <1>1, <1>2 DEF Holds, UpTo

\* A trade that was left open past its window.
LeftOpen(o, b) == o = "limit" /\ Len(b) > MaxBars /\ ~b[1].entry

LEMMA LeftOpenFacts ==
    ASSUME NEW b \in Seq(AnyBar), NEW o \in Order, Len(b) > MaxBars, StillOpen(Settle(o, b))
    PROVE  LeftOpen(o, b)
<1> DEFINE w == Window(b)
           v == Settle(o, b)
<1>1. MaxBars \in Nat /\ MaxBars >= 1 /\ Len(b) \in Nat
  BY BoundAssumption, LenProperties
<1>2. w \in Seq(AnyBar) /\ Len(w) = MaxBars /\ w[1] = b[1]
  BY <1>1, WindowFacts
<1>3. v = IF ~Filled(o, w) THEN [status |-> "unfilled", held |-> Len(w)]
          ELSE IF Ends(o, w) = {} THEN [status |-> "expired", held |-> Len(w) - Before(o, w)]
          ELSE [status |-> Ended(w, Min(Ends(o, w))),
                held |-> Min(Ends(o, w)) - 1 - Before(o, w)]
  BY SettleIs
<1>4. v.status = "expired" /\ v.held < MaxBars
  BY DEF StillOpen
<1> HIDE DEF w, v
<1>5. Filled(o, w) /\ v.held = Len(w) - Before(o, w)
  BY <1>3, <1>4 DEF Ended
<1>6. Before(o, w) \in Nat /\ Before(o, w) > 0
  BY <1>1, <1>2, <1>4, <1>5, FillFacts
<1>7. o # "market" /\ Fill(o, w) - 1 > 0 /\ Fill(o, w) \in 0..Len(w) /\ \A i \in Reach(w) : Fill(o, w) <= i
  BY <1>2, <1>5, <1>6, FillFacts
<1>8. 1 \notin Reach(w)
  BY <1>1, <1>2, <1>7
<1>9. ~b[1].entry
  BY <1>1, <1>2, <1>8 DEF Reach
<1>10. QED BY <1>7, <1>9 DEF LeftOpen, Order

\* A verdict the sweep writes is told by the bars it was given.
LEMMA VerdictTold ==
    ASSUME NEW b \in Seq(AnyBar), b # <<>>, NEW o, ~StillOpen(Settle(o, b))
    PROVE  /\ Len(b) \in Nat /\ Settle(o, b).status \in Final
           /\ Told(o, b, Len(b), Settle(o, b).status)
<1> DEFINE w == Window(b)
           v == Settle(o, b)
<1>1. MaxBars \in Nat /\ Len(b) \in Nat
  BY BoundAssumption, LenProperties
<1>2. w \in Seq(AnyBar) /\ Len(w) = IF Len(b) <= MaxBars THEN Len(b) ELSE MaxBars
  BY WindowFacts
<1>3. v = IF ~Filled(o, w) THEN [status |-> "unfilled", held |-> Len(w)]
          ELSE IF Ends(o, w) = {} THEN [status |-> "expired", held |-> Len(w) - Before(o, w)]
          ELSE [status |-> Ended(w, Min(Ends(o, w))),
                held |-> Min(Ends(o, w)) - 1 - Before(o, w)]
  BY SettleIs
<1> HIDE DEF w, v
<1>4. v.status \in Final
  <2>1. Ended(w, Min(Ends(o, w))) \in Final
    BY DEF Ended, Final
  <2>2. QED BY <1>3, <2>1 DEF Final
<1>5. ASSUME v.status = "expired" PROVE Len(b) >= MaxBars
  <2>1. Filled(o, w) /\ v.held = Len(w) - Before(o, w)
    BY <1>3, <1>5 DEF Ended
  <2>2. Before(o, w) \in Nat
    BY <1>2, <2>1, FillFacts
  <2>3. ~(v.held < MaxBars)
    BY <1>5 DEF StillOpen, v
  <2>4. QED BY <1>1, <1>2, <2>1, <2>2, <2>3
<1>6. UpTo(b, Len(b)) = b
  <2>1. Len(b) \in 0..Len(b)
    BY <1>1
  <2>2. QED BY <2>1, UpToFacts, SeqEqual
<1>7. Len(b) \in 1..Len(b)
  BY <1>1, EmptySeq
<1>8. v.status = "unfilled" => Settle(o, UpTo(b, Len(b) - 1)).status = "unfilled"
  BY <1>7, UnfilledBefore DEF v
<1>9. QED BY <1>1, <1>4, <1>5, <1>6, <1>7, <1>8 DEF Told, Holds, v
-----------------------------------------------------------------------------
(* The queue, the sweep and the tally.                                      *)

AtClose == {"set", "zrem", "lpush", "ltrim"}
Gone == {"lpush", "ltrim"}

(* Who is in the queue, and in the sweep's hands, is there once; a trade     *)
(* half recorded is not there yet, one half closed not any more.             *)
QueueInv ==
    /\ Distinct(openSet) /\ Distinct(pending)
    /\ \A t \in Trade :
          /\ records[t] # "absent" \/ Among(t, openSet) \/ Among(t, pending) \/ t \in passed =>
                order[t] # NoTrade
          /\ t \in recording => records[t] = "open" /\ ~Among(t, openSet)
          /\ Among(t, pending) =>
                (Among(t, openSet) <=> ~(stage \in Gone /\ t = Head(pending)))
          /\ Among(t, pending) \/ t \in passed => t \notin recording

(* How far the close of the trade at hand is.                                *)
AtHandInv ==
    /\ stage = "idle" => pending = <<>>
    /\ stage \in AtClose => pending # <<>> /\ verdict \in Final
    /\ stage \in AtClose \ {"set"} => records[Head(pending)] = verdict
    /\ stage = "ltrim" => closed # <<>> /\ closed[1] = [trade |-> Head(pending), status |-> verdict]

(* Who is in the tally is done with.                                         *)
DoneInv ==
    \A t \in Trade : InClosed(t) # {} =>
        /\ records[t] \in Final /\ ~Among(t, openSet)
        /\ Among(t, pending) => stage = "ltrim" /\ t = Head(pending)

VerdictInv ==
    /\ \A t \in Trade : Told(order[t], bars[t], judged[t], records[t])
    /\ stage \in AtClose => Told(order[Head(pending)], bars[Head(pending)], looked, verdict)
    /\ \A t \in passed : LeftOpen(order[t], bars[t])

ScoreInv ==
    /\ ScoreTypeOK /\ QueueInv /\ AtHandInv
    /\ DoneInv /\ CountedOnce /\ SettledIsCounted /\ VerdictInv

LEMMA ScoreInitInv == ScoreInit => ScoreInv
<1> SUFFICES ASSUME ScoreInit PROVE ScoreInv
  OBVIOUS
<1>1. /\ openSet = <<>> /\ closed = <<>> /\ pending = <<>> /\ stage = "idle" /\ verdict = NoTrade
      /\ recording = {} /\ passed = {} /\ interrupted = {} /\ crashes = 0
      /\ records = [t \in Trade |-> "absent"] /\ order = [t \in Trade |-> NoTrade]
      /\ bars = [t \in Trade |-> <<>>] /\ looked = 0 /\ judged = [t \in Trade |-> 0]
  BY DEF ScoreInit
<1>2. \A S : <<>> \in Seq(S) /\ Len(<<>>) = 0 /\ DOMAIN <<>> = 1..0
  OBVIOUS
<1>3. ScoreTypeOK
  BY <1>1, <1>2, BoundAssumption DEF ScoreTypeOK, Stages
<1>4. QueueInv
  BY <1>1, <1>2 DEF QueueInv, Distinct, Among
<1>5. AtHandInv
  BY <1>1 DEF AtHandInv, AtClose
<1>6. DoneInv /\ CountedOnce
  BY <1>1, <1>2 DEF DoneInv, CountedOnce, InClosed
<1>7. SettledIsCounted
  BY <1>1 DEF SettledIsCounted, Final
<1>8. VerdictInv
  BY <1>1 DEF VerdictInv, Told, Final, AtClose
<1>9. QED BY <1>3, <1>4, <1>5, <1>6, <1>7, <1>8 DEF ScoreInv

\* The trade at hand, and what is left when it is done with.
LEMMA HeadFacts ==
    ASSUME ScoreInv, pending # <<>>
    PROVE  /\ Head(pending) \in Trade /\ Among(Head(pending), pending)
           /\ Tail(pending) \in Seq(Trade) /\ Distinct(Tail(pending))
           /\ \A d : Among(d, Tail(pending)) <=> d # Head(pending) /\ Among(d, pending)
           /\ order[Head(pending)] # NoTrade /\ Head(pending) \notin recording
<1>1. pending \in Seq(Trade) /\ Distinct(pending)
  BY DEF ScoreInv, ScoreTypeOK, QueueInv
<1>2. QED BY <1>1, TakenFacts DEF ScoreInv, QueueInv

\* The tally, entry by entry.
LEMMA TallyFacts ==
    ASSUME ScoreInv
    PROVE  /\ Len(closed) \in Nat /\ DOMAIN closed = 1..Len(closed)
           /\ closed \in Seq([trade : Trade, status : Final])
           /\ openSet \in Seq(Trade) /\ pending \in Seq(Trade)
           /\ \A t : (\A i \in DOMAIN openSet : openSet[i] # t) <=> ~Among(t, openSet)
           /\ \A t \in Trade : order[t] \in Order \cup {NoTrade} /\ bars[t] \in Seq(AnyBar)
<1>1. /\ closed \in Seq([trade : Trade, status : Final]) /\ openSet \in Seq(Trade) /\ pending \in Seq(Trade)
      /\ order \in [Trade -> Order \cup {NoTrade}] /\ bars \in [Trade -> Seq(AnyBar)]
  BY DEF ScoreInv, ScoreTypeOK
<1>2. Len(closed) \in Nat /\ DOMAIN closed = 1..Len(closed) /\ DOMAIN openSet = 1..Len(openSet)
  BY <1>1, LenProperties
<1>3. QED BY <1>1, <1>2 DEF Among

\* What leaves the tally, the queue and the records alone, and starts no close.
LEMMA TallyFrame ==
    ASSUME ScoreInv, UNCHANGED <<records, openSet, closed, interrupted>>,
           stage \notin AtClose, stage' \in {"idle", "walk"},
           \A t \in Trade : Among(t, pending') => Among(t, openSet)
    PROVE  DoneInv' /\ CountedOnce' /\ SettledIsCounted'
<1>1. DoneInv'
  BY DEF ScoreInv, DoneInv, InClosed
<1>2. CountedOnce'
  BY DEF ScoreInv, CountedOnce
<1>3. SettledIsCounted'
  BY DEF ScoreInv, SettledIsCounted, InClosed, Closing, AtClose
<1>4. QED BY <1>1, <1>2, <1>3
-----------------------------------------------------------------------------
LEMMA ProposeInv == ASSUME ScoreInv, NEW t \in Trade, Propose(t) PROVE ScoreInv'
<1>1. /\ records[t] = "absent" /\ order[t] = NoTrade
      /\ records' = [records EXCEPT ![t] = "open"] /\ recording' = recording \cup {t}
      /\ UNCHANGED <<openSet, closed, bars, stage, pending, verdict, looked, judged, passed, crashes, interrupted>>
  BY DEF Propose, history
<1>2. PICK o \in Order : order' = [order EXCEPT ![t] = o]
  BY DEF Propose
<1>3. ScoreTypeOK'
  BY <1>1, <1>2 DEF ScoreInv, ScoreTypeOK
<1>4. o # NoTrade /\ ~Among(t, openSet) /\ ~Among(t, pending) /\ t \notin passed
  BY <1>1 DEF ScoreInv, QueueInv, Order, NoTrade
<1>5. /\ \A u \in Trade : u # t => records'[u] = records[u] /\ order'[u] = order[u]
      /\ records'[t] = "open" /\ order'[t] = o
  BY <1>1, <1>2 DEF ScoreInv, ScoreTypeOK
<1>6. QueueInv'
  BY <1>1, <1>4, <1>5 DEF ScoreInv, QueueInv
<1>7. stage \in AtClose => Head(pending) \in Trade /\ Head(pending) # t
  BY <1>1, HeadFacts DEF ScoreInv, AtHandInv
<1>8. AtHandInv'
  BY <1>1, <1>5, <1>7 DEF ScoreInv, AtHandInv, AtClose
<1>9. InClosed(t) = {}
  BY <1>1 DEF ScoreInv, DoneInv, Final
<1>10. DoneInv' /\ CountedOnce'
  BY <1>1, <1>5, <1>9 DEF ScoreInv, DoneInv, CountedOnce, InClosed
<1>11. SettledIsCounted'
  BY <1>1, <1>5 DEF ScoreInv, SettledIsCounted, InClosed, Closing, Final
<1>12. VerdictInv'
  BY <1>1, <1>4, <1>5, <1>7 DEF ScoreInv, ScoreTypeOK, VerdictInv, Told, Final
<1>13. QED BY <1>3, <1>6, <1>8, <1>10, <1>11, <1>12 DEF ScoreInv

LEMMA EnqueueInv == ASSUME ScoreInv, NEW t \in Trade, Enqueue(t) PROVE ScoreInv'
<1>1. /\ t \in recording /\ openSet' = Append(openSet, t) /\ recording' = recording \ {t}
      /\ UNCHANGED <<records, order, closed, bars, stage, pending, verdict, looked, judged, passed, crashes, interrupted>>
  BY DEF Enqueue, history
<1>2. records[t] = "open" /\ ~Among(t, openSet) /\ ~Among(t, pending)
  BY <1>1 DEF ScoreInv, QueueInv
<1>3. /\ openSet' \in Seq(Trade) /\ Distinct(openSet')
      /\ \A e : Among(e, openSet') <=> e = t \/ Among(e, openSet)
  BY <1>1, <1>2, AppendedFacts, TallyFacts DEF ScoreInv, QueueInv
<1>4. ScoreTypeOK'
  BY <1>1, <1>3 DEF ScoreInv, ScoreTypeOK
<1>5. QueueInv'
  BY <1>1, <1>2, <1>3 DEF ScoreInv, QueueInv
<1>6. AtHandInv'
  BY <1>1 DEF ScoreInv, AtHandInv
<1>7. DoneInv' /\ CountedOnce'
  BY <1>1, <1>2, <1>3 DEF ScoreInv, DoneInv, CountedOnce, InClosed, Final
<1>8. SettledIsCounted'
  <2>1. DOMAIN openSet' = 1..Len(openSet')
    BY <1>3, LenProperties
  <2>2. \A u : (\A i \in DOMAIN openSet' : openSet'[i] # u) <=> ~Among(u, openSet')
    BY <2>1 DEF Among
  <2>3. ASSUME NEW u \in Trade, records[u] \in Final, ~Closing(u), u \notin interrupted
        PROVE  /\ \/ \E i \in InClosed(u) : closed[i].status = records[u]
                  \/ InClosed(u) = {} /\ Len(closed) >= MaxClosed
               /\ ~Among(u, openSet')
    BY <1>2, <1>3, <2>3, TallyFacts DEF ScoreInv, SettledIsCounted, Final
  <2>4. QED BY <1>1, <2>2, <2>3 DEF SettledIsCounted, InClosed, Closing
<1>9. VerdictInv'
  BY <1>1 DEF ScoreInv, VerdictInv
<1>10. QED BY <1>4, <1>5, <1>6, <1>7, <1>8, <1>9 DEF ScoreInv

LEMMA NewBarInv == ASSUME ScoreInv, NEW t \in Trade, NewBar(t) PROVE ScoreInv'
<1>1. UNCHANGED <<records, order, openSet, closed, recording, stage, pending, verdict, looked, judged, passed, crashes, interrupted>>
  BY DEF NewBar, history
<1>2. PICK b \in Bar[t] : bars' = [bars EXCEPT ![t] = Append(bars[t], b)]
  BY DEF NewBar
<1>3. b \in AnyBar /\ bars[t] \in Seq(AnyBar)
  BY BarAssumption, TallyFacts
<1>4. /\ \A u \in Trade : u # t => bars'[u] = bars[u]
      /\ bars'[t] = Append(bars[t], b) /\ bars' \in [Trade -> Seq(AnyBar)]
  BY <1>2, <1>3, AppendProperties DEF ScoreInv, ScoreTypeOK
<1>5. ScoreTypeOK'
  BY <1>1, <1>4 DEF ScoreInv, ScoreTypeOK
<1>6. QueueInv' /\ AtHandInv' /\ DoneInv' /\ CountedOnce' /\ SettledIsCounted'
  BY <1>1 DEF ScoreInv, QueueInv, AtHandInv, DoneInv, CountedOnce, SettledIsCounted, InClosed, Closing
<1>7. ASSUME NEW u \in Trade, NEW j, NEW status, Told(order[u], bars[u], j, status)
      PROVE  Told(order[u], bars'[u], j, status)
  BY <1>3, <1>4, <1>7, ToldLater
<1>8. VerdictInv'
  <2>1. stage \in AtClose => Head(pending) \in Trade
    BY HeadFacts DEF ScoreInv, AtHandInv
  <2>2. ASSUME NEW u \in passed PROVE LeftOpen(order[u], bars'[u])
    <3>1. u \in Trade /\ LeftOpen(order[u], bars[u])
      BY DEF ScoreInv, ScoreTypeOK, VerdictInv
    <3>2. CASE u = t
      <4>1. MaxBars \in Nat /\ MaxBars >= 1 /\ Len(bars[t]) \in Nat
        BY <1>3, BoundAssumption, LenProperties
      <4>2. Len(bars'[t]) = Len(bars[t]) + 1 /\ (Len(bars[t]) >= 1 => bars'[t][1] = bars[t][1])
        BY <1>3, <1>4, <4>1, AppendProperties
      <4>3. QED BY <3>1, <3>2, <4>1, <4>2 DEF LeftOpen
    <3>3. QED BY <1>4, <3>1, <3>2
  <2>3. QED BY <1>1, <1>7, <2>1, <2>2 DEF ScoreInv, VerdictInv
<1>9. QED BY <1>5, <1>6, <1>8 DEF ScoreInv

LEMMA WidenBarInv == ASSUME ScoreInv, NEW t \in Trade, WidenBar(t) PROVE ScoreInv'
<1>1. UNCHANGED <<records, order, openSet, closed, recording, stage, pending, verdict, looked, judged, passed, crashes, interrupted>>
  BY DEF WidenBar, history
<1>2. PICK b \in Bar[t] : Widens(bars[t][Len(bars[t])], b) /\ bars' = [bars EXCEPT ![t] = [bars[t] EXCEPT ![Len(bars[t])] = b]]
  BY DEF WidenBar
<1>3. b \in AnyBar /\ bars[t] \in Seq(AnyBar) /\ bars[t] # <<>>
  BY BarAssumption, TallyFacts DEF WidenBar
<1>4. /\ \A u \in Trade : u # t => bars'[u] = bars[u]
      /\ bars'[t] = [bars[t] EXCEPT ![Len(bars[t])] = b] /\ bars' \in [Trade -> Seq(AnyBar)]
  <2>1. Len(bars[t]) \in 1..Len(bars[t])
    BY <1>3, EmptySeq, LenProperties
  <2>2. [bars[t] EXCEPT ![Len(bars[t])] = b] \in Seq(AnyBar)
    BY <1>3, <2>1, ExceptSeq
  <2>3. QED BY <1>2, <2>2 DEF ScoreInv, ScoreTypeOK
<1>5. ScoreTypeOK'
  BY <1>1, <1>4 DEF ScoreInv, ScoreTypeOK
<1>6. QueueInv' /\ AtHandInv' /\ DoneInv' /\ CountedOnce' /\ SettledIsCounted'
  BY <1>1 DEF ScoreInv, QueueInv, AtHandInv, DoneInv, CountedOnce, SettledIsCounted, InClosed, Closing
<1>7. ASSUME NEW u \in Trade, NEW j, NEW status, Told(order[u], bars[u], j, status)
      PROVE  Told(order[u], bars'[u], j, status)
  BY <1>3, <1>4, <1>2, <1>7, ToldWider
<1>8. VerdictInv'
  <2>1. stage \in AtClose => Head(pending) \in Trade
    BY HeadFacts DEF ScoreInv, AtHandInv
  <2>2. ASSUME NEW u \in passed PROVE LeftOpen(order[u], bars'[u])
    <3>1. u \in Trade /\ LeftOpen(order[u], bars[u])
      BY DEF ScoreInv, ScoreTypeOK, VerdictInv
    <3>2. CASE u = t
      <4>1. MaxBars \in Nat /\ MaxBars >= 1 /\ Len(bars[t]) \in Nat
        BY <1>3, BoundAssumption, LenProperties
      <4>2. Len(bars[t]) > MaxBars
        BY <3>1, <3>2 DEF LeftOpen
      <4>3. Len(bars[t]) \in 1..Len(bars[t]) /\ 1 \in 1..Len(bars[t]) /\ Len(bars[t]) # 1
        <5>1. \A m, n \in Nat : m >= 1 /\ n > m => n \in 1..n /\ 1 \in 1..n /\ n # 1
          OBVIOUS
        <5>2. QED BY <4>1, <4>2, <5>1
      <4>4. Len(bars'[t]) = Len(bars[t]) /\ bars'[t][1] = bars[t][1]
        BY <1>3, <1>4, <4>3, ExceptSeq
      <4>5. QED BY <3>1, <3>2, <4>4 DEF LeftOpen
    <3>3. QED BY <1>4, <3>1, <3>2
  <2>3. QED BY <1>1, <1>7, <2>1, <2>2 DEF ScoreInv, VerdictInv
<1>9. QED BY <1>5, <1>6, <1>8 DEF ScoreInv

LEMMA ExpireInv == ASSUME ScoreInv, NEW t \in Trade, ExpireRecord(t) PROVE ScoreInv'
<1>1. /\ records[t] = "open" /\ t \notin recording /\ records' = [records EXCEPT ![t] = "absent"]
      /\ \A i \in DOMAIN pending : pending[i] # t
      /\ UNCHANGED <<order, openSet, closed, bars, recording, stage, pending, verdict, looked, judged, passed, crashes, interrupted>>
  BY DEF ExpireRecord, history
<1>2. /\ \A u \in Trade : u # t => records'[u] = records[u]
      /\ records'[t] = "absent" /\ t \notin recording /\ order[t] # NoTrade
  BY <1>1 DEF ScoreInv, ScoreTypeOK, QueueInv
<1>3. ScoreTypeOK'
  BY <1>1 DEF ScoreInv, ScoreTypeOK
<1>4. QueueInv'
  BY <1>1, <1>2 DEF ScoreInv, QueueInv
<1>5. stage \in AtClose => Head(pending) \in Trade /\ Head(pending) # t
  <2>1. ~Among(t, pending)
    <3>1. DOMAIN pending = 1..Len(pending)
      BY TallyFacts, LenProperties
    <3>2. QED BY <1>1, <3>1 DEF Among
  <2>2. QED BY <2>1, HeadFacts DEF ScoreInv, AtHandInv
<1>6. AtHandInv'
  BY <1>1, <1>2, <1>5 DEF ScoreInv, AtHandInv, AtClose
<1>7. DoneInv' /\ CountedOnce'
  BY <1>1, <1>2 DEF ScoreInv, DoneInv, CountedOnce, InClosed, Final
<1>8. SettledIsCounted'
  BY <1>1, <1>2 DEF ScoreInv, SettledIsCounted, InClosed, Closing, Final
<1>9. VerdictInv'
  BY <1>1, <1>2 DEF ScoreInv, VerdictInv, Told, Final
<1>10. QED BY <1>3, <1>4, <1>6, <1>7, <1>8, <1>9 DEF ScoreInv
-----------------------------------------------------------------------------
(* The sweep.                                                               *)

LEMMA StartSweepInv == ASSUME ScoreInv, StartSweep PROVE ScoreInv'
<1> DEFINE oldest == First(openSet, OpenLimit)
           k == Shorter(Len(openSet), OpenLimit)
<1>1. PICK ghosts : pending' = Without(oldest, ghosts) /\ openSet' = Without(openSet, ghosts)
  BY DEF StartSweep, First
<1>2. /\ stage = "idle" /\ stage' = "walk"
      /\ UNCHANGED <<records, order, closed, bars, recording, verdict, looked, judged, passed, crashes, interrupted>>
  BY DEF StartSweep, history
<1>3. openSet \in Seq(Trade) /\ Distinct(openSet) /\ OpenLimit \in Nat
  BY BoundAssumption, TallyFacts DEF ScoreInv, QueueInv
<1>4. /\ oldest \in Seq(Trade) /\ Len(oldest) = k
      /\ \A i \in 1..k : i \in 1..Len(openSet) /\ oldest[i] = openSet[i]
  BY <1>3, FirstFacts
<1> HIDE DEF oldest, k
<1>5. oldest \in Seq(Trade)
  BY <1>4
<1>6. Distinct(oldest) /\ \A d : Among(d, oldest) => Among(d, openSet)
  BY <1>3, <1>4 DEF Distinct, Among
<1>7. /\ pending' \in Seq(Trade) /\ Distinct(pending')
      /\ \A d : Among(d, pending') <=> Among(d, oldest) /\ d \notin ghosts
  BY <1>1, <1>5, <1>6, WithoutFacts
<1>8. /\ openSet' \in Seq(Trade) /\ Distinct(openSet')
      /\ \A d : Among(d, openSet') <=> Among(d, openSet) /\ d \notin ghosts
  BY <1>1, <1>3, WithoutFacts
<1>9. \A d : Among(d, pending') => Among(d, openSet') /\ Among(d, openSet)
  BY <1>6, <1>7, <1>8
<1>10. ScoreTypeOK'
  BY <1>2, <1>7, <1>8 DEF ScoreInv, ScoreTypeOK, Stages
<1>11. QueueInv'
  <2>1. stage' \notin Gone
    BY <1>2 DEF Gone
  <2>2. Distinct(openSet)' /\ Distinct(pending)'
    BY <1>7, <1>8
  <2>3. ASSUME NEW t \in Trade
        PROVE  /\ records'[t] # "absent" \/ Among(t, openSet') \/ Among(t, pending') \/ t \in passed' =>
                     order'[t] # NoTrade
               /\ t \in recording' => records'[t] = "open" /\ ~Among(t, openSet')
               /\ Among(t, pending') => Among(t, openSet')
               /\ Among(t, pending') \/ t \in passed' => t \notin recording'
    BY <1>2, <1>8, <1>9 DEF ScoreInv, QueueInv
  <2>4. QED BY <2>1, <2>2, <2>3 DEF QueueInv
<1>12. AtHandInv'
  BY <1>2 DEF AtHandInv, AtClose
<1>13. DoneInv' /\ CountedOnce'
  BY <1>2, <1>8, <1>9 DEF ScoreInv, DoneInv, CountedOnce, InClosed
<1>14. SettledIsCounted'
  <2>1. DOMAIN openSet' = 1..Len(openSet')
    BY <1>8, LenProperties
  <2>2. \A u : (\A i \in DOMAIN openSet' : openSet'[i] # u) <=> ~Among(u, openSet')
    BY <2>1 DEF Among
  <2>3. ASSUME NEW u \in Trade, records[u] \in Final, u \notin interrupted
        PROVE  /\ \/ \E i \in InClosed(u) : closed[i].status = records[u]
                  \/ InClosed(u) = {} /\ Len(closed) >= MaxClosed
               /\ ~Among(u, openSet')
    BY <1>2, <1>8, <2>3, TallyFacts DEF ScoreInv, SettledIsCounted, Closing
  <2>4. QED BY <1>2, <2>2, <2>3 DEF SettledIsCounted, InClosed
<1>15. VerdictInv'
  BY <1>2 DEF ScoreInv, VerdictInv, AtClose
<1>16. QED BY <1>10, <1>11, <1>12, <1>13, <1>14, <1>15 DEF ScoreInv

\* The sweep leaves the trade at hand, and what it may note of it.
LEMMA NextInv ==
    ASSUME ScoreInv, stage = "walk", stage' = "walk", pending # <<>>, pending' = Tail(pending),
           passed' \in {passed, passed \cup {Head(pending)}},
           passed' # passed => LeftOpen(order[Head(pending)], bars[Head(pending)]),
           UNCHANGED <<records, order, openSet, closed, bars, recording, verdict, looked, judged, crashes, interrupted>>
    PROVE  ScoreInv'
<1>1. /\ Head(pending) \in Trade /\ Among(Head(pending), pending) /\ order[Head(pending)] # NoTrade
      /\ Head(pending) \notin recording
      /\ pending' \in Seq(Trade) /\ Distinct(pending')
      /\ \A d : Among(d, pending') => Among(d, pending)
  BY HeadFacts
<1>2. ScoreTypeOK'
  BY <1>1 DEF ScoreInv, ScoreTypeOK
<1>3. QueueInv'
  BY <1>1 DEF ScoreInv, QueueInv, Gone
<1>4. AtHandInv'
  BY DEF AtHandInv, AtClose
<1>5. \A t \in Trade : Among(t, pending') => Among(t, openSet)
  BY <1>1 DEF ScoreInv, QueueInv, Gone
<1>6. DoneInv' /\ CountedOnce' /\ SettledIsCounted'
  BY <1>5, TallyFrame DEF AtClose
<1>7. VerdictInv'
  BY DEF ScoreInv, VerdictInv, AtClose
<1>8. QED BY <1>2, <1>3, <1>4, <1>6, <1>7 DEF ScoreInv

LEMMA SkipInv == ASSUME ScoreInv, Skip PROVE ScoreInv'
BY NextInv DEF Skip, history

LEMMA JudgeInv == ASSUME ScoreInv, Judge PROVE ScoreInv'
<1> DEFINE t == Head(pending)
           v == Settle(order[t], bars[t])
<1>1. /\ stage = "walk" /\ pending # <<>>
      /\ bars[t] # <<>>
      /\ UNCHANGED <<records, order, openSet, closed, bars, recording, judged, crashes, interrupted>>
      /\ IF StillOpen(v)
         THEN /\ pending' = Tail(pending) /\ passed' \in {passed, passed \cup {t}}
              /\ passed' # passed => Len(bars[t]) > MaxBars
              /\ UNCHANGED <<stage, verdict, looked>>
         ELSE /\ stage' = "set" /\ verdict' = v.status /\ looked' = Len(bars[t])
              /\ UNCHANGED <<pending, passed>>
  BY DEF Judge, history
<1>2. CASE StillOpen(v)
  <2>1. t \in Trade /\ bars[t] \in Seq(AnyBar) /\ order[t] \in Order
    BY <1>1, HeadFacts, TallyFacts
  <2>2. passed' # passed => LeftOpen(order[t], bars[t])
    BY <1>1, <1>2, <2>1, LeftOpenFacts
  <2>3. QED BY <1>1, <1>2, <2>2, NextInv
<1>3. CASE ~StillOpen(v)
  <2>1. t \in Trade /\ bars[t] \in Seq(AnyBar)
    BY <1>1, HeadFacts, TallyFacts
  <2>2. verdict' \in Final /\ looked' \in Nat /\ Told(order[t], bars[t], looked', verdict')
    BY <1>1, <1>3, <2>1, VerdictTold
  <2> HIDE DEF v
  <2>3. UNCHANGED <<pending, passed>> /\ stage' = "set"
    BY <1>1, <1>3
  <2>4. ScoreTypeOK'
    BY <1>1, <2>2, <2>3 DEF ScoreInv, ScoreTypeOK, Stages
  <2>5. QueueInv'
    BY <1>1, <2>3 DEF ScoreInv, QueueInv, Gone
  <2>6. AtHandInv'
    BY <1>1, <2>2, <2>3 DEF AtHandInv, AtClose
  <2>7. DoneInv' /\ CountedOnce'
    BY <1>1, <2>3 DEF ScoreInv, DoneInv, CountedOnce, InClosed
  <2>8. SettledIsCounted'
    BY <1>1, <2>3 DEF ScoreInv, SettledIsCounted, InClosed, Closing
  <2>9. VerdictInv'
    BY <1>1, <2>2, <2>3 DEF ScoreInv, VerdictInv
  <2>10. QED BY <2>4, <2>5, <2>6, <2>7, <2>8, <2>9 DEF ScoreInv
<1>4. QED BY <1>2, <1>3

LEMMA EndSweepInv == ASSUME ScoreInv, EndSweep PROVE ScoreInv'
<1>1. /\ stage = "walk" /\ stage' = "idle" /\ pending = <<>>
      /\ UNCHANGED <<records, order, openSet, closed, bars, recording, pending, verdict, looked, judged, passed, crashes, interrupted>>
  BY DEF EndSweep, history
<1>2. \A t : ~Among(t, pending')
  BY <1>1 DEF Among
<1>3. ScoreTypeOK' /\ QueueInv' /\ AtHandInv' /\ VerdictInv'
  BY <1>1, <1>2 DEF ScoreInv, ScoreTypeOK, Stages, QueueInv, AtHandInv, VerdictInv, AtClose
<1>4. DoneInv' /\ CountedOnce' /\ SettledIsCounted'
  BY <1>1, <1>2, TallyFrame DEF AtClose
<1>5. QED BY <1>3, <1>4 DEF ScoreInv

LEMMA CrashInv == ASSUME ScoreInv, Crash PROVE ScoreInv'
<1>1. /\ crashes < MaxCrashes /\ crashes' = crashes + 1
      /\ interrupted' = interrupted \cup recording \cup {t \in Trade : Closing(t)}
      /\ stage' = "idle" /\ pending' = <<>> /\ verdict' = NoTrade /\ recording' = {}
      /\ UNCHANGED <<records, order, openSet, closed, bars, looked, judged, passed>>
  BY DEF Crash
<1>2. pending' \in Seq(Trade) /\ Distinct(pending') /\ \A t : ~Among(t, pending')
  BY <1>1 DEF Distinct, Among
<1>3. ScoreTypeOK'
  BY <1>1, <1>2, BoundAssumption DEF ScoreInv, ScoreTypeOK, Stages
<1>4. QueueInv'
  BY <1>1, <1>2 DEF ScoreInv, QueueInv
<1>5. AtHandInv' /\ VerdictInv'
  BY <1>1 DEF ScoreInv, AtHandInv, VerdictInv, AtClose
<1>6. DoneInv' /\ CountedOnce'
  BY <1>1, <1>2 DEF ScoreInv, DoneInv, CountedOnce, InClosed
<1>7. SettledIsCounted'
  <2>1. ASSUME NEW t \in Trade, records[t] \in Final, t \notin interrupted'
        PROVE  ~Closing(t) /\ t \notin interrupted
    BY <1>1, <2>1
  <2>2. QED BY <1>1, <2>1 DEF ScoreInv, SettledIsCounted, InClosed
<1>8. QED BY <1>3, <1>4, <1>5, <1>6, <1>7 DEF ScoreInv
-----------------------------------------------------------------------------
(* A trade is closed.                                                       *)

LEMMA CloseSetInv == ASSUME ScoreInv, CloseSet PROVE ScoreInv'
<1> DEFINE t == Head(pending)
<1>1. /\ stage = "set" /\ stage' = "zrem" /\ records' = [records EXCEPT ![t] = verdict]
      /\ judged' = [judged EXCEPT ![t] = looked]
      /\ UNCHANGED <<order, openSet, closed, bars, recording, pending, verdict, looked, passed, crashes, interrupted>>
  BY DEF CloseSet, history
<1>2. pending # <<>> /\ verdict \in Final /\ Told(order[t], bars[t], looked, verdict)
  BY <1>1 DEF ScoreInv, AtHandInv, VerdictInv, AtClose
<1>3. t \in Trade /\ Among(t, pending) /\ order[t] # NoTrade /\ t \notin recording
  BY <1>2, HeadFacts
<1>4. t' = t
  BY <1>1
<1> HIDE DEF t
<1>5. /\ records'[t] = verdict /\ judged'[t] = looked
      /\ \A u \in Trade : u # t => records'[u] = records[u] /\ judged'[u] = judged[u]
  BY <1>1, <1>3 DEF ScoreInv, ScoreTypeOK
<1>6. ScoreTypeOK'
  BY <1>1, <1>2 DEF ScoreInv, ScoreTypeOK, Stages
<1>7. QueueInv'
  BY <1>1, <1>3, <1>5 DEF ScoreInv, QueueInv, Gone
<1>8. AtHandInv'
  BY <1>1, <1>2, <1>5 DEF AtHandInv, AtClose, t
<1>9. InClosed(t) = {}
  BY <1>1, <1>3 DEF ScoreInv, DoneInv
<1>10. DoneInv' /\ CountedOnce'
  BY <1>1, <1>5, <1>9 DEF ScoreInv, DoneInv, CountedOnce, InClosed
<1>11. SettledIsCounted'
  <2>1. ASSUME NEW u \in Trade, ~Closing(u)' PROVE u # t /\ ~Closing(u)
    BY <1>1, <2>1 DEF Closing, t
  <2>2. QED BY <1>1, <1>5, <2>1 DEF ScoreInv, SettledIsCounted, InClosed
<1>12. VerdictInv'
  BY <1>1, <1>2, <1>5 DEF ScoreInv, VerdictInv, AtClose, t
<1>13. QED BY <1>6, <1>7, <1>8, <1>10, <1>11, <1>12 DEF ScoreInv

LEMMA CloseZremInv == ASSUME ScoreInv, CloseZrem PROVE ScoreInv'
<1> DEFINE t == Head(pending)
<1>1. /\ stage = "zrem" /\ stage' = "lpush" /\ openSet' = Without(openSet, {t})
      /\ UNCHANGED <<records, order, closed, bars, recording, pending, verdict, looked, judged, passed, crashes, interrupted>>
  BY DEF CloseZrem, history
<1>2. /\ openSet' \in Seq(Trade) /\ Distinct(openSet')
      /\ \A d : Among(d, openSet') <=> Among(d, openSet) /\ d # t
  <2>1. openSet \in Seq(Trade) /\ Distinct(openSet)
    BY TallyFacts DEF ScoreInv, QueueInv
  <2>2. QED BY <1>1, <2>1, WithoutFacts
<1>3. ScoreTypeOK'
  BY <1>1, <1>2 DEF ScoreInv, ScoreTypeOK, Stages
<1>4. QueueInv'
  BY <1>1, <1>2 DEF ScoreInv, QueueInv, Gone
<1>5. AtHandInv'
  BY <1>1 DEF ScoreInv, AtHandInv, AtClose
<1>6. DoneInv' /\ CountedOnce'
  BY <1>1, <1>2 DEF ScoreInv, DoneInv, CountedOnce, InClosed
<1>7. SettledIsCounted'
  <2>1. DOMAIN openSet' = 1..Len(openSet')
    BY <1>2, LenProperties
  <2>2. \A u : (\A i \in DOMAIN openSet' : openSet'[i] # u) <=> ~Among(u, openSet')
    BY <2>1 DEF Among
  <2>3. \A u \in Trade : Closing(u)' <=> Closing(u)
    BY <1>1 DEF Closing
  <2>4. ASSUME NEW u \in Trade, records[u] \in Final, ~Closing(u), u \notin interrupted
        PROVE  /\ \/ \E i \in InClosed(u) : closed[i].status = records[u]
                  \/ InClosed(u) = {} /\ Len(closed) >= MaxClosed
               /\ ~Among(u, openSet')
    BY <1>2, <2>4, TallyFacts DEF ScoreInv, SettledIsCounted
  <2>5. QED BY <1>1, <2>2, <2>3, <2>4 DEF SettledIsCounted, InClosed
<1>8. VerdictInv'
  BY <1>1 DEF ScoreInv, VerdictInv, AtClose
<1>9. QED BY <1>3, <1>4, <1>5, <1>6, <1>7, <1>8 DEF ScoreInv

LEMMA ClosePushInv == ASSUME ScoreInv, ClosePush PROVE ScoreInv'
<1> DEFINE t == Head(pending)
           entry == [trade |-> t, status |-> verdict]
<1>1. /\ stage = "lpush" /\ stage' = "ltrim" /\ closed' = <<entry>> \o closed
      /\ UNCHANGED <<records, order, openSet, bars, recording, pending, verdict, looked, judged, passed, crashes, interrupted>>
  BY DEF ClosePush, history
<1>2. pending # <<>> /\ verdict \in Final /\ records[t] = verdict
  BY <1>1 DEF ScoreInv, AtHandInv, AtClose
<1>3. t \in Trade /\ Among(t, pending) /\ ~Among(t, openSet)
  <2>1. t \in Trade /\ Among(t, pending)
    BY <1>2, HeadFacts
  <2>2. QED BY <1>1, <2>1 DEF ScoreInv, QueueInv, Gone
<1> DEFINE n == Len(closed)
<1>4. n \in Nat /\ closed \in Seq([trade : Trade, status : Final]) /\ DOMAIN closed = 1..n
  BY TallyFacts
<1>5. entry \in [trade : Trade, status : Final] /\ entry.trade = t /\ entry.status = verdict
  BY <1>2, <1>3
<1> HIDE DEF entry
<1>6. /\ closed' \in Seq([trade : Trade, status : Final]) /\ Len(closed') = n + 1
      /\ closed'[1] = entry
      /\ \A i \in 1..n : closed'[i + 1] = closed[i]
  <2> DEFINE S == [trade : Trade, status : Final]
             one == <<entry>>
  <2>1. one \in Seq(S) /\ Len(one) = 1 /\ one[1] = entry
    BY <1>5
  <2>2. closed \in Seq(S) /\ closed' = one \o closed
    BY <1>1, <1>4
  <2> HIDE DEF S, one
  <2>3. /\ closed' \in Seq(S) /\ Len(closed') = 1 + n
        /\ \A i \in 1..(1 + n) : closed'[i] = IF i <= 1 THEN one[i] ELSE closed[i - 1]
    <3>1. /\ one \o closed \in Seq(S) /\ Len(one \o closed) = Len(one) + n
          /\ \A i \in 1..(Len(one) + n) :
                (one \o closed)[i] = IF i <= Len(one) THEN one[i] ELSE closed[i - Len(one)]
      BY <2>1, <2>2, ConcatProperties
    <3>2. QED BY <2>1, <2>2, <3>1
  <2>4. 1 \in 1..(1 + n) /\ \A i \in 1..n : i + 1 \in 1..(1 + n) /\ ~(i + 1 <= 1) /\ (i + 1) - 1 = i
    BY <1>4
  <2>5. QED BY <1>4, <2>1, <2>3, <2>4 DEF S
<1>7. /\ DOMAIN closed' = 1..(n + 1) /\ closed' # <<>>
      /\ \A i \in 1..(n + 1) : i = 1 \/ (i - 1 \in 1..n /\ closed'[i] = closed[i - 1])
  <2>1. DOMAIN closed' = 1..(n + 1) /\ closed' # <<>>
    BY <1>4, <1>6, LenProperties, EmptySeq
  <2>2. ASSUME NEW i \in 1..(n + 1), i # 1 PROVE i - 1 \in 1..n /\ closed'[i] = closed[i - 1]
    <3>1. i - 1 \in 1..n /\ (i - 1) + 1 = i
      BY <1>4, <2>2
    <3>2. QED BY <1>6, <3>1
  <2>3. QED BY <2>1, <2>2
<1>8. InClosed(t) = {}
  BY <1>1, <1>3 DEF ScoreInv, DoneInv
<1>9. ASSUME NEW u \in Trade, u # t
      PROVE  /\ \A i \in InClosed(u) : i + 1 \in InClosed(u)' /\ closed'[i + 1].status = closed[i].status
             /\ InClosed(u)' # {} => InClosed(u) # {}
  <2>1. \A i \in InClosed(u) : i \in 1..n /\ i + 1 \in 1..(n + 1)
    BY <1>4 DEF InClosed
  <2>2. \A i \in InClosed(u) : i + 1 \in InClosed(u)' /\ closed'[i + 1].status = closed[i].status
    BY <1>6, <1>7, <2>1 DEF InClosed
  <2>3. ASSUME NEW i \in InClosed(u)' PROVE i - 1 \in InClosed(u)
    <3>1. i \in 1..(n + 1) /\ closed'[i].trade = u
      BY <1>7 DEF InClosed
    <3>2. i # 1
      BY <1>5, <1>6, <1>9, <3>1
    <3>3. QED BY <1>4, <1>7, <3>1, <3>2 DEF InClosed
  <2>4. QED BY <2>2, <2>3
<1>10. ScoreTypeOK'
  BY <1>1, <1>6 DEF ScoreInv, ScoreTypeOK, Stages
<1>11. QueueInv'
  BY <1>1 DEF ScoreInv, QueueInv, Gone
<1>12. AtHandInv'
  BY <1>1, <1>2, <1>6, <1>7 DEF AtHandInv, AtClose, entry
<1>13. DoneInv'
  <2>1. ASSUME NEW u \in Trade, InClosed(u)' # {}
        PROVE  /\ records[u] \in Final /\ ~Among(u, openSet)
               /\ Among(u, pending) => u = t
    <3>1. CASE u = t
      BY <1>2, <1>3, <3>1
    <3>2. CASE u # t
      BY <1>9, <2>1, <3>2 DEF ScoreInv, DoneInv
    <3>3. QED BY <3>1, <3>2
  <2>2. QED BY <1>1, <2>1 DEF DoneInv
<1>14. CountedOnce'
  <2>1. ASSUME NEW i \in 1..(n + 1), NEW j \in 1..(n + 1), closed'[i].trade = closed'[j].trade, i # j
        PROVE  FALSE
    <3>1. \A k \in 1..n : closed[k].trade # t
      BY <1>4, <1>8 DEF InClosed
    <3>2. CASE i = 1
      <4>1. j - 1 \in 1..n /\ closed[j - 1].trade = t
        BY <1>5, <1>6, <1>7, <2>1, <3>2
      <4>2. QED BY <3>1, <4>1
    <3>3. CASE j = 1
      <4>1. i - 1 \in 1..n /\ closed[i - 1].trade = t
        BY <1>5, <1>6, <1>7, <2>1, <3>3
      <4>2. QED BY <3>1, <4>1
    <3>4. CASE i # 1 /\ j # 1
      <4>1. i - 1 \in 1..n /\ j - 1 \in 1..n /\ closed[i - 1].trade = closed[j - 1].trade
        BY <1>7, <2>1, <3>4
      <4>2. i - 1 = j - 1
        BY <1>4, <4>1 DEF ScoreInv, CountedOnce
      <4>3. QED BY <1>4, <2>1, <4>2
    <3>5. QED BY <3>2, <3>3, <3>4
  <2>2. QED BY <1>7, <2>1 DEF CountedOnce
<1>15. SettledIsCounted'
  <2>1. ASSUME NEW u \in Trade, records[u] \in Final, ~Closing(u)', u \notin interrupted
        PROVE  /\ \/ \E i \in InClosed(u)' : closed'[i].status = records[u]
                  \/ InClosed(u)' = {} /\ Len(closed') >= MaxClosed
               /\ \A i \in DOMAIN openSet : openSet[i] # u
    <3>1. u # t /\ ~Closing(u)
      BY <1>1, <2>1 DEF Closing
    <3>2. /\ \/ \E i \in InClosed(u) : closed[i].status = records[u]
             \/ InClosed(u) = {} /\ n >= MaxClosed
          /\ \A i \in DOMAIN openSet : openSet[i] # u
      BY <2>1, <3>1 DEF ScoreInv, SettledIsCounted
    <3>3. MaxClosed \in Nat
      BY BoundAssumption
    <3>4. CASE \E i \in InClosed(u) : closed[i].status = records[u]
      BY <1>9, <3>1, <3>2, <3>4
    <3>5. CASE InClosed(u) = {} /\ n >= MaxClosed
      BY <1>4, <1>6, <1>9, <3>1, <3>2, <3>3, <3>5
    <3>6. QED BY <3>2, <3>4, <3>5
  <2>2. QED BY <1>1, <2>1 DEF SettledIsCounted
<1>16. VerdictInv'
  BY <1>1 DEF ScoreInv, VerdictInv, AtClose
<1>17. QED BY <1>10, <1>11, <1>12, <1>13, <1>14, <1>15, <1>16 DEF ScoreInv

LEMMA CloseTrimInv == ASSUME ScoreInv, CloseTrim PROVE ScoreInv'
<1> DEFINE t == Head(pending)
           n == Len(closed)
           k == Shorter(n, MaxClosed)
<1>1. /\ stage = "ltrim" /\ stage' = "walk" /\ pending' = Tail(pending) /\ verdict' = NoTrade
      /\ closed' = First(closed, MaxClosed)
      /\ UNCHANGED <<records, order, openSet, bars, recording, looked, judged, passed, crashes, interrupted>>
  BY DEF CloseTrim, history, First
<1>2. /\ pending # <<>> /\ verdict \in Final /\ records[t] = verdict
      /\ closed # <<>> /\ closed[1] = [trade |-> t, status |-> verdict]
  BY <1>1 DEF ScoreInv, AtHandInv, AtClose
<1>3. /\ t \in Trade /\ Among(t, pending)
      /\ pending' \in Seq(Trade) /\ Distinct(pending')
      /\ \A d : Among(d, pending') <=> d # t /\ Among(d, pending)
  BY <1>1, <1>2, HeadFacts
<1>4. ~Among(t, openSet)
  BY <1>1, <1>3 DEF ScoreInv, QueueInv, Gone
<1>5. \A u \in Trade : Among(u, pending') => Among(u, openSet)
  BY <1>3 DEF ScoreInv, QueueInv
<1>6. /\ n \in Nat /\ n # 0 /\ closed \in Seq([trade : Trade, status : Final]) /\ DOMAIN closed = 1..n
      /\ MaxClosed \in Nat /\ MaxClosed # 0
  <2>1. n \in Nat /\ closed \in Seq([trade : Trade, status : Final]) /\ DOMAIN closed = 1..n
    BY TallyFacts
  <2>2. n # 0
    BY <1>2, <2>1, EmptySeq
  <2>3. QED BY <2>1, <2>2, BoundAssumption
<1>7. /\ n \in Nat /\ MaxClosed \in Nat /\ k \in Nat /\ 1 \in 1..k /\ 1 \in 1..n
      /\ n >= MaxClosed => k = MaxClosed
      /\ n <= MaxClosed => k = n
  <2>1. n \in Nat \ {0} /\ MaxClosed \in Nat \ {0}
    BY <1>6
  <2> HIDE DEF n
  <2>2. QED BY <2>1 DEF Shorter
<1>8. /\ closed' \in Seq([trade : Trade, status : Final]) /\ Len(closed') = k
      /\ \A i \in 1..k : i \in 1..n /\ closed'[i] = closed[i]
  <2> DEFINE S == [trade : Trade, status : Final]
  <2>1. closed \in Seq(S)
    BY <1>6
  <2> HIDE DEF S
  <2>2. /\ First(closed, MaxClosed) \in Seq(S) /\ Len(First(closed, MaxClosed)) = k
        /\ \A i \in 1..k : i \in 1..n /\ First(closed, MaxClosed)[i] = closed[i]
    BY <1>7, <2>1, FirstFacts
  <2>3. QED BY <1>1, <2>2 DEF S
<1> HIDE DEF k
<1>9. DOMAIN closed' = 1..k /\ 1 \in 1..k /\ 1 \in 1..n
  <2>1. DOMAIN closed' = 1..k
    BY <1>8, LenProperties
  <2>2. QED BY <1>7, <2>1
<1>10. \A u \in Trade : InClosed(u)' = InClosed(u) \cap (1..k)
  BY <1>6, <1>8, <1>9 DEF InClosed
<1>11. ScoreTypeOK'
  BY <1>1, <1>3, <1>8 DEF ScoreInv, ScoreTypeOK, Stages
<1>12. QueueInv'
  BY <1>1, <1>3, <1>5 DEF ScoreInv, QueueInv, Gone
<1>13. AtHandInv'
  BY <1>1 DEF AtHandInv, AtClose
<1>14. DoneInv'
  <2>1. ASSUME NEW u \in Trade, InClosed(u)' # {}
        PROVE  records[u] \in Final /\ ~Among(u, openSet) /\ ~Among(u, pending')
    <3>1. InClosed(u) # {}
      BY <1>10, <2>1
    <3>2. QED BY <1>5, <3>1 DEF ScoreInv, DoneInv
  <2>2. QED BY <1>1, <2>1 DEF DoneInv
<1>15. CountedOnce'
  BY <1>6, <1>8, <1>9 DEF ScoreInv, CountedOnce
<1>16. SettledIsCounted'
  <2>1. ASSUME NEW u \in Trade, records[u] \in Final, u \notin interrupted
        PROVE  /\ \/ \E i \in InClosed(u)' : closed'[i].status = records[u]
                  \/ InClosed(u)' = {} /\ Len(closed') >= MaxClosed
               /\ ~Among(u, openSet)
    <3>1. CASE u = t
      <4>1. closed'[1].trade = u /\ closed'[1].status = records[u]
        BY <1>2, <1>8, <1>9, <3>1
      <4>2. 1 \in InClosed(u)'
        BY <1>9, <4>1 DEF InClosed
      <4>3. QED BY <1>4, <3>1, <4>1, <4>2
    <3>2. CASE u # t
      <4>1. ~Closing(u)
        BY <3>2 DEF Closing
      <4>2. /\ \/ \E i \in InClosed(u) : closed[i].status = records[u]
               \/ InClosed(u) = {} /\ n >= MaxClosed
            /\ ~Among(u, openSet)
        BY <2>1, <4>1, TallyFacts DEF ScoreInv, SettledIsCounted
      <4>3. ASSUME NEW i \in InClosed(u), closed[i].status = records[u], i \in 1..k
            PROVE  i \in InClosed(u)' /\ closed'[i].status = records[u]
        BY <1>8, <1>10, <4>3
      <4>4. ASSUME NEW i \in InClosed(u), i \notin 1..k
            PROVE  InClosed(u)' = {} /\ Len(closed') >= MaxClosed
        <5>1. i \in 1..n /\ closed[i].trade = u /\ k = MaxClosed
          <6>1. i \in 1..n /\ closed[i].trade = u
            BY <1>6 DEF InClosed
          <6>2. n \in Nat /\ k \in Nat /\ MaxClosed \in Nat /\ ~(n <= MaxClosed)
            BY <1>7, <4>4, <6>1
          <6>3. QED BY <1>7, <6>1, <6>2
        <5>2. \A j \in InClosed(u) : j = i
          BY <1>6, <5>1 DEF InClosed, ScoreInv, CountedOnce
        <5>3. InClosed(u) \cap (1..k) = {}
          BY <4>4, <5>2
        <5>4. InClosed(u)' = {}
          BY <1>10, <5>3
        <5>5. Len(closed') >= MaxClosed
          BY <1>6, <1>8, <5>1
        <5>6. QED BY <5>4, <5>5
      <4>5. CASE InClosed(u) = {} /\ n >= MaxClosed
        <5>1. InClosed(u)' = {} /\ Len(closed') = MaxClosed
          BY <1>7, <1>8, <1>10, <4>5
        <5>2. QED BY <1>7, <4>2, <5>1
      <4>6. QED BY <4>2, <4>3, <4>4, <4>5
    <3>3. QED BY <3>1, <3>2
  <2>2. \A u : (\A i \in DOMAIN openSet : openSet[i] # u) <=> ~Among(u, openSet)
    BY TallyFacts
  <2>3. QED BY <1>1, <2>1, <2>2 DEF SettledIsCounted
<1>17. VerdictInv'
  BY <1>1 DEF ScoreInv, VerdictInv, AtClose
<1>18. QED BY <1>11, <1>12, <1>13, <1>14, <1>15, <1>16, <1>17 DEF ScoreInv
-----------------------------------------------------------------------------
LEMMA ScoreStepInv == ScoreInv /\ [ScoreNext]_scoreVars => ScoreInv'
<1> SUFFICES ASSUME ScoreInv, [ScoreNext]_scoreVars PROVE ScoreInv'
  OBVIOUS
<1>1. ASSUME NEW t \in Trade, Propose(t) \/ Enqueue(t) \/ NewBar(t) \/ WidenBar(t) \/ ExpireRecord(t) PROVE ScoreInv'
  BY <1>1, ProposeInv, EnqueueInv, NewBarInv, WidenBarInv, ExpireInv
<1>2. CASE StartSweep \/ Skip \/ Judge \/ EndSweep \/ Crash
  BY <1>2, StartSweepInv, SkipInv, JudgeInv, EndSweepInv, CrashInv
<1>3. CASE Close
  BY <1>3, CloseSetInv, CloseZremInv, ClosePushInv, CloseTrimInv DEF Close
<1>4. CASE UNCHANGED scoreVars
  <2>1. UNCHANGED <<records, order, openSet, closed, bars, recording, stage, pending, verdict,
                    looked, judged, passed, crashes, interrupted>>
    BY <1>4 DEF scoreVars
  <2>2. ScoreTypeOK' /\ QueueInv' /\ AtHandInv'
    BY <2>1 DEF ScoreInv, ScoreTypeOK, QueueInv, AtHandInv
  <2>3. DoneInv' /\ CountedOnce' /\ SettledIsCounted'
    BY <2>1 DEF ScoreInv, DoneInv, CountedOnce, SettledIsCounted, InClosed, Closing
  <2>4. VerdictInv'
    BY <2>1 DEF ScoreInv, VerdictInv
  <2>5. QED BY <2>2, <2>3, <2>4 DEF ScoreInv
<1>5. QED BY <1>1, <1>2, <1>3, <1>4 DEF ScoreNext

\* The queue, the sweep and the tally fit each other, whatever is proposed and
\* wherever the process dies.
THEOREM ScoreInvariant == ScoreSpec => []ScoreInv
<1>1. QED BY ScoreInitInv, ScoreStepInv, PTL DEF ScoreSpec

\* Every settled trade is counted once, and every trade whose record or close was
\* not cut short is counted, until the tally is full without it.
THEOREM TallyHolds == ScoreSpec => []TallyIsSound
<1>1. ScoreInv => TallyIsSound
  BY DEF ScoreInv, TallyIsSound
<1>2. QED BY <1>1, ScoreInvariant, PTL

\* settle()'s loop computes what its definition by first bars says; a verdict depends
\* on the day of its sweep by the bar that was still forming then and, if it is
\* `unfilled`, by the rest of its window, and by nothing else; and whatever a sweep
\* leaves open past its window is a limit order that was filled late.
THEOREM VerdictsHold == ScoreSpec => []VerdictsAreSound
<1>1. ScoreInv => VerdictsAreSound
  <2> SUFFICES ASSUME ScoreInv PROVE VerdictsAreSound
    OBVIOUS
  <2>1. SettleAgrees
    BY LoopSettles, TallyFacts DEF SettleAgrees
  <2>2. VerdictStands
    BY ToldStands, TallyFacts DEF ScoreInv, VerdictInv, VerdictStands, EndedSet
  <2>3. OnlyLateFillsStay
    BY DEF ScoreInv, VerdictInv, OnlyLateFillsStay, LeftOpen
  <2>4. QED BY <2>1, <2>2, <2>3 DEF ScoreInv, VerdictsAreSound
<1>2. QED BY <1>1, ScoreInvariant, PTL
=============================================================================
