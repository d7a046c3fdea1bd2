----------------------------- MODULE GreenTimer -----------------------------
(***************************************************************************)
(* The clockwork of RunScheduler: the one-shot debounce timer, the         *)
(* reconciliation ticker, and a select loop that both wake.  Time is in    *)
(* whole units; Green.tla takes from here only that the loop keeps cycling.*)
(***************************************************************************)
EXTENDS Integers

CONSTANTS
    Timings,        \* the [poll, quiescence] pairs a config may ask for
    MaxBatch,       \* bound on the duration of a batch of checks
    MaxEdits,       \* bound on relevant changes
    Horizon         \* the waiting time is measured up to here

TimerAssumption ==
    /\ Timings \subseteq [poll : Nat \ {0}, quiescence : Nat \ {0}]
    /\ MaxBatch \in Nat /\ Horizon \in Nat

VARIABLES
    disk,           \* the timing the config file asks for
    timing,         \* the timing in force
    debounce,       \* time left on the debounce timer, Off when it is not armed
    tick,           \* time left until the ticker fires
    fired,          \* timer channels holding a value: subset of {"debounce", "tick"}
    notified,       \* the monitor's one-slot change channel
    busy,           \* time left in the running batch
    wait,           \* time since the last change no batch has looked at, or Off
    edits

vars == <<disk, timing, debounce, tick, fired, notified, busy, wait, edits>>

Off == -1

Init ==
    /\ disk \in Timings /\ timing = disk
    /\ debounce = timing.quiescence /\ tick = timing.poll
    /\ fired = {} /\ notified = FALSE /\ busy = 0
    /\ wait = 0
    /\ edits = 0

\* A relevant change, of the config or of an input; its notification may be lost.
Edit(t) ==
    /\ edits < MaxEdits /\ edits' = edits + 1
    /\ disk' = t
    /\ wait' = 0
    /\ notified' \in {notified, TRUE}
    /\ UNCHANGED <<timing, debounce, tick, fired, busy>>

\* Mutant: a debounce that has just fired is not drained.
ResetWithoutDrain(channel) ==
    /\ debounce' = timing.quiescence
    /\ fired' = fired \ {channel}

\* resetSchedulerTimer: stop, drain, start again.
resetSchedulerTimer(channel) ==
    /\ debounce' = timing.quiescence
    /\ fired' = fired \ {"debounce", channel}

OnChange ==
    /\ busy = 0 /\ notified
    /\ notified' = FALSE
    /\ resetSchedulerTimer("debounce")
    /\ UNCHANGED <<disk, timing, tick, busy, wait, edits>>

\* Mutant: the tick is consumed and the debounce stays as it was.
ReconcileNothing ==
    /\ busy = 0 /\ "tick" \in fired
    /\ fired' = fired \ {"tick"}
    /\ UNCHANGED <<disk, timing, debounce, tick, notified, busy, wait, edits>>

OnReconcile ==
    /\ busy = 0 /\ "tick" \in fired
    /\ resetSchedulerTimer("tick")
    /\ UNCHANGED <<disk, timing, tick, notified, busy, wait, edits>>

\* Reload the config, restart the ticker if its period changed, run a batch.
OnDebounce ==
    /\ busy = 0 /\ "debounce" \in fired
    /\ fired' = fired \ {"debounce"}
    /\ timing' = disk
    /\ tick' = IF disk.poll # timing.poll THEN disk.poll ELSE tick
    /\ busy' \in 0..MaxBatch
    /\ wait' = Off
    /\ UNCHANGED <<disk, debounce, notified, edits>>

\* A unit of time passes once the idle loop has taken every value it can.
Advance ==
    /\ busy > 0 \/ (fired = {} /\ ~notified)
    /\ busy' = IF busy > 0 THEN busy - 1 ELSE 0
    /\ debounce' = IF debounce \in {Off, 1} THEN Off ELSE debounce - 1
    /\ tick' = IF tick = 1 THEN timing.poll ELSE tick - 1
    /\ fired' = fired \cup (IF debounce = 1 THEN {"debounce"} ELSE {})
                      \cup (IF tick = 1 THEN {"tick"} ELSE {})
    /\ wait' = IF wait = Off \/ wait = Horizon THEN wait ELSE wait + 1
    /\ UNCHANGED <<disk, timing, notified, edits>>

Next ==
    \/ \E t \in Timings : Edit(t)
    \/ OnChange \/ OnReconcile \/ OnDebounce \/ Advance

Spec == Init /\ [][Next]_vars

\* Time never stops and the loop takes what its channels hold; select is fair
\* between channels, so that debounce does not lose every race.
FairSpec == Spec /\ WF_vars(OnChange \/ OnReconcile \/ OnDebounce \/ Advance)
                 /\ SF_vars(OnDebounce)

\* Types, and the state of a Go timer: a debounce that has fired is not running.
TypeOK ==
    /\ disk \in Timings /\ timing \in Timings
    /\ debounce \in Nat \cup {Off} /\ tick \in Nat \ {0}
    /\ fired \subseteq {"debounce", "tick"}
    /\ "debounce" \in fired => debounce = Off
    /\ notified \in BOOLEAN /\ busy \in 0..MaxBatch
    /\ wait \in 0..Horizon \cup {Off} /\ edits \in Nat

\* Validation after quiescence: a change is looked at within a poll interval and
\* a quiescence period, or within the batch in progress and two of them, even
\* when its notification is lost, the config changes its timing or the ticker
\* rearms a debounce about to fire.
Slowest(field) == CHOOSE n \in {t[field] : t \in Timings} : \A t \in Timings : t[field] <= n

PickedUpInTime ==
    \/ wait <= Slowest("poll") + Slowest("quiescence")
    \/ wait <= MaxBatch + 2 * Slowest("quiescence")

\* The periodic reconciliation: every change is looked at in the end, under any
\* timing the config parser accepts.
EventuallyPickedUp == []<>(wait = Off)

\* What the defaults have and normalizeConfig does not ask for.
SlowTicker == \A t \in Timings : t.quiescence < t.poll
=============================================================================
