----------------------------- MODULE EventDesk -----------------------------
(***************************************************************************)
(* The event desk of newsd: the daily agenda arms a brief and a nudge for  *)
(* every high-impact release (events/watcher.py, run_agenda), the          *)
(* scheduler wakes them, each is sent and recorded, and the daily watchdog *)
(* compares what was armed with what fired (events/watchdog.py).  All of   *)
(* it reports to Healthchecks (worker/heartbeat.py), which also misses a   *)
(* ping that never comes.                                                  *)
(***************************************************************************)
EXTENDS Scheduler

CONSTANTS
    Agenda, Watchdog,  \* event-agenda and event-watchdog
    Release,     \* high-impact events of watched currencies
    When,        \* the times at which they may be scheduled
    LeadOf,      \* LEAD of a brief, NUDGE_LEAD of a nudge
    MinLead,     \* MIN_LEAD
    LateAfter,   \* GRACE_SECONDS of the watchdog
    RecordTtl,   \* RECORD_TTL_SECONDS
    MaxFaults    \* bound: what goes wrong, deaths of newsd included

Kind == {"brief", "nudge"}

\* A job id names the currency, the title and the time of the event.
WakeUp == [of : Release, kind : Kind, at : When]

FireAt(w) == w.at - LeadOf[w.kind]

ASSUME DeskAssumption ==
    /\ CronJob = {Agenda, Watchdog} /\ Agenda # Watchdog /\ DateJob = WakeUp
    /\ When \subseteq Time
    /\ LeadOf \in [Kind -> Nat] /\ \A w \in WakeUp : LeadOf[w.kind] < w.at
    /\ {MinLead, LateAfter, RecordTtl, MaxFaults} \subseteq Nat

VARIABLES
    feed,      \* when every release is scheduled
    arming,    \* the wake-ups the agenda run has still to book
    noting,    \* those it booked and has not recorded
    record,    \* until when ARMED_PREFIX + id is there; 0 if it never was
    sent,      \* the messages of jobs under way that went to Telegram
    fired,     \* FIRED_PREFIX + id
    told,      \* history: how often each message was delivered
    cleared,   \* history: the wake-ups of its day, for a sweep that pinged "ok"
    blamed,    \* history: those reported as not sent, neither booked nor under way
    renewed,   \* history: when every wake-up was booked last
    cut,       \* history: jobs that raised, were cut off or not recorded
    faults     \* history: how much went wrong

desk == <<feed, arming, noting, record, sent, fired, told, cleared, blamed, renewed, cut, faults>>
vars == <<scheduler, desk>>

TypeOK ==
    /\ SchedulerTypeOK
    /\ feed \in [Release -> When]
    /\ arming \subseteq WakeUp /\ noting \subseteq WakeUp /\ \A v, w \in noting : v = w
    /\ record \in [WakeUp -> 0..(MaxTime + RecordTtl)]
    /\ {sent, fired, cleared, blamed, cut} \subseteq SUBSET WakeUp
    /\ told \in [WakeUp -> 0..2]
    /\ renewed \in [WakeUp -> Time] /\ faults \in 0..MaxFaults

Init ==
    /\ SchedulerInit
    /\ feed \in [Release -> When]
    /\ arming = {} /\ noting = {} /\ sent = {} /\ fired = {}
    /\ record = [w \in WakeUp |-> 0]
    /\ told = [w \in WakeUp |-> 0]
    /\ cleared = {} /\ blamed = {} /\ cut = {}
    /\ renewed = [w \in WakeUp |-> 0] /\ faults = 0

Fault == faults < MaxFaults /\ faults' = faults + 1

InHand == arming # {} \/ noting # {}
-----------------------------------------------------------------------------
\* Mutant: everything that is still to come is armed, however close.
FarEnoughAnyway(w) == w.at > now

\* arm: what is far enough out to be worth a wake-up.
FarEnough(w) == w.at > now /\ FireAt(w) > now + MinLead

\* run_agenda with a feed it can trust; what it sends is told apart no further.
RunAgenda ==
    /\ Agenda \in running /\ ~InHand
    /\ LET found == {w \in WakeUp : feed[w.of] = w.at /\ FarEnough(w)} IN
        IF found # {}
        THEN arming' = found /\ UNCHANGED scheduler
        ELSE Done(Agenda) /\ UNCHANGED arming
    /\ UNCHANGED <<feed, noting, record, sent, fired, told, cleared, blamed, renewed, cut, faults>>

\* fetch_week could not be reached, or returned what is no calendar.
FeedFails ==
    /\ Agenda \in running /\ ~InHand
    /\ Done(Agenda)
    /\ Fault
    /\ UNCHANGED <<feed, arming, noting, record, sent, fired, told, cleared, blamed, renewed, cut>>

\* Mutant: everything is booked, and recorded afterwards.
ArmAhead(w) ==
    /\ w \in arming
    /\ Book(w, FireAt(w))
    /\ arming' = arming \ {w} /\ noting' = noting \cup {w}
    /\ renewed' = [renewed EXCEPT ![w] = now]
    /\ UNCHANGED <<now, up, running, feed, record, sent, fired, told, cleared, blamed, cut, faults>>

\* add_job replaces the wake-up of the same id.
Arm(w) ==
    /\ w \in arming /\ noting = {}
    /\ Book(w, FireAt(w))
    /\ arming' = arming \ {w} /\ noting' = {w}
    /\ renewed' = [renewed EXCEPT ![w] = now]
    /\ UNCHANGED <<now, up, running, feed, record, sent, fired, told, cleared, blamed, cut, faults>>

\* Mutant: the record of an earlier sweep is left as it is.
RecordOnce(w) ==
    /\ w \in noting
    /\ noting' = {}
    /\ \/ record' = [record EXCEPT ![w] = IF @ > 0 THEN @ ELSE now + RecordTtl] /\ UNCHANGED <<cut, faults>>
       \/ cut' = cut \cup {w} /\ Fault /\ UNCHANGED record
    /\ IF arming = {} THEN Done(Agenda) ELSE UNCHANGED scheduler
    /\ UNCHANGED <<feed, arming, sent, fired, told, cleared, blamed, renewed>>

\* record_armed, which swallows what goes wrong.
RecordArmed(w) ==
    /\ w \in noting
    /\ noting' = {}
    /\ \/ record' = [record EXCEPT ![w] = now + RecordTtl] /\ UNCHANGED <<cut, faults>>
       \/ cut' = cut \cup {w} /\ Fault /\ UNCHANGED record
    /\ IF arming = {} THEN Done(Agenda) ELSE UNCHANGED scheduler
    /\ UNCHANGED <<feed, arming, sent, fired, told, cleared, blamed, renewed>>

\* send_event_brief and send_event_nudge up to the message, which Telegram may
\* refuse.
SendBrief(w) ==
    /\ w \in running \ sent
    /\ sent' = sent \cup {w}
    /\ told' \in {told, [told EXCEPT ![w] = @ + 1]}
    /\ UNCHANGED <<scheduler, feed, arming, noting, record, fired, cleared, blamed, renewed, cut, faults>>

\* Mutant: a nudge is recorded under the id of the brief.
RecordAsBrief(w) ==
    /\ w \in running \cap sent
    /\ Done(w)
    /\ sent' = sent \ {w}
    /\ \/ fired' = fired \cup {[w EXCEPT !.kind = "brief"]} /\ UNCHANGED <<cut, faults>>
       \/ cut' = cut \cup {w} /\ Fault /\ UNCHANGED fired
    /\ UNCHANGED <<feed, arming, noting, record, told, cleared, blamed, renewed>>

\* record_fired: whether or not it was delivered.
RecordFired(w) ==
    /\ w \in running \cap sent
    /\ Done(w)
    /\ sent' = sent \ {w}
    /\ \/ fired' = fired \cup {w} /\ UNCHANGED <<cut, faults>>
       \/ cut' = cut \cup {w} /\ Fault /\ UNCHANGED fired
    /\ UNCHANGED <<feed, arming, noting, record, told, cleared, blamed, renewed>>

\* The quote, the history or the offer raises before anything is sent.
BriefRaises(w) ==
    /\ w \in running \ sent
    /\ Done(w)
    /\ Fault
    /\ cut' = cut \cup {w}
    /\ UNCHANGED <<feed, arming, noting, record, sent, fired, told, cleared, blamed, renewed>>

\* Promises whose time is over by the grace.
Due == {w \in WakeUp : FireAt(w) + LateAfter <= now}
\* missed: armed, over, and not known to have fired.
Missed == {w \in Due : record[w] > now /\ w \notin fired}

\* sweep, and the ping of its monitor: "ok" means that nothing was missed.
Sweep ==
    /\ Watchdog \in running
    /\ Done(Watchdog)
    /\ blamed' = blamed \cup {w \in Missed \ running : next[w] = NoTime}
    /\ cleared' = IF Missed = {}
                  THEN cleared \cup {w \in Due : now < FireAt(w) + LateAfter + Day}
                  ELSE cleared
    /\ UNCHANGED <<feed, arming, noting, record, sent, fired, told, renewed, cut, faults>>

\* Redis cannot be read: ok is False, and so is the ping.
SweepFails ==
    /\ Watchdog \in running
    /\ Done(Watchdog)
    /\ Fault
    /\ UNCHANGED <<feed, arming, noting, record, sent, fired, told, cleared, blamed, renewed, cut>>

\* newsd dies, and every job under way with it.
Die ==
    /\ Stop
    /\ arming' = {} /\ noting' = {} /\ sent' = {}
    /\ Fault
    /\ cut' = cut \cup noting \cup (running \cap WakeUp)
    /\ UNCHANGED <<feed, record, fired, told, cleared, blamed, renewed>>

\* The release is put off, its wake-up booked or not.
Move(r) ==
    /\ feed[r] > now
    /\ \E t \in When : t > feed[r] /\ feed' = [feed EXCEPT ![r] = t]
    /\ UNCHANGED <<scheduler, arming, noting, record, sent, fired, told, cleared, blamed, renewed, cut, faults>>

\* A step is longer than a job takes: no time passes while one runs.
TimePasses == running = {} /\ Tick

Next ==
    \/ (Start \/ TimePasses \/ \E j \in Job : Wake(j)) /\ UNCHANGED desk
    \/ RunAgenda \/ FeedFails \/ Sweep \/ SweepFails \/ Die
    \/ \E w \in WakeUp : Arm(w) \/ RecordArmed(w) \/ SendBrief(w) \/ RecordFired(w) \/ BriefRaises(w)
    \/ \E r \in Release : Move(r)

Spec == Init /\ [][Next]_vars
-----------------------------------------------------------------------------
\* "Silent failure on a time-critical path is worse than no product": when the
\* watchdog pings that all is well, every wake-up of the day before that it knew
\* of has fired, unless its record could not be written or was last renewed
\* longer ago than a record lives.
AllClearIsTrue ==
    \A w \in cleared \ fired :
        record[w] > 0 => w \in cut \/ renewed[w] + RecordTtl <= FireAt(w) + LateAfter + Day

\* A wake-up the watchdog blames did not run to its end: it raised, was cut off,
\* missed its grace or could not be recorded.  None that ran is reported, and
\* what he was told is reported as not sent only if the desk failed after that.
BlameIsDeserved ==
    \A w \in blamed : w \in fired \cup running \/ told[w] > 0 => w \in cut

\* However often the sweep of the calendar arms it again, a message goes out
\* once.
ToldOnce == \A w \in WakeUp : told[w] <= 1

\* What the desk says is true: of its messages, each sent once, and of itself.
ReportsAreTrue == TypeOK /\ BlameIsDeserved /\ ToldOnce
=============================================================================
