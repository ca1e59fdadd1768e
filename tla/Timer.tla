------------------------------- MODULE Timer -------------------------------
(***************************************************************************)
(* Timer and its Manager: a background thread that fires the timers of a   *)
(* schedule, one at a time.  Times are left out: how soon a timer fires    *)
(* after it is scheduled is up to the clock, so any scheduled timer may be *)
(* the earliest.  The Manager's mutex is held for single steps only.       *)
(***************************************************************************)
EXTENDS Naturals, FiniteSets

CONSTANT Timers

VARIABLES
    schedule,    \* the timers in Manager::_schedule; their _state is kScheduled
    triggered    \* the timers whose _triggered is set: being fired

timerVars == <<schedule, triggered>>

TimerInit == schedule = {} /\ triggered = {}

TimerTypeOK ==
    /\ schedule \subseteq Timers
    /\ triggered \subseteq Timers
    /\ Cardinality(triggered) <= 1    \* there is one background thread

\* fireAt, fireAfter: (re)schedules a timer, even one that is being fired.
FireAfter(t) ==
    /\ schedule' = schedule \union {t}
    /\ UNCHANGED triggered

\* stop: a timer that is being fired goes on.
Stop(t) ==
    /\ schedule' = schedule \ {t}
    /\ UNCHANGED triggered

\* One round of Manager::run, up to the call of the callback.
Fire(t) ==
    /\ triggered = {}
    /\ t \in schedule
    /\ schedule' = schedule \ {t}
    /\ triggered' = {t}

\* The rest of the round.
CallbackReturns ==
    /\ triggered' = {}
    /\ UNCHANGED schedule

HasFired_AtOnce(t) == TRUE

\* waitForFire, the second half of the destructor, polls for this.
HasFired(t) == t \notin triggered
==============================================================================
