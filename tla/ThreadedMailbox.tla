-------------------------- MODULE ThreadedMailbox --------------------------
(***************************************************************************)
(* How actors run on the Scheduler's thread pool.  Each actor has a        *)
(* ThreadedMailbox, a Channel of events; the Scheduler has one Channel of  *)
(* mailboxes that have something to do.  Whoever finds a mailbox empty     *)
(* when pushing an event puts it in the Scheduler's Channel, and a worker  *)
(* that leaves events behind puts it back.                                 *)
(*                                                                         *)
(* A step is what happens under one lock.  Between the push into a mailbox *)
(* and the push into the Scheduler's Channel anything may happen.          *)
(***************************************************************************)
EXTENDS Integers, Sequences

CONSTANTS
    Actors,
    Workers,        \* the threads of the Scheduler
    Callers,        \* other threads that call Actor::enqueue
    NoActor,
    MaxEvents,      \* bound: events enqueued to each actor
    MayStop         \* whether Scheduler::stop may be called

ASSUME ThreadAssumption ==
    /\ NoActor \notin Actors
    /\ Workers \intersect Callers = {}
    /\ MaxEvents \in Nat
    /\ MayStop \in BOOLEAN

VARIABLES
    box,        \* each mailbox's Channel: events not yet finished
    handled,    \* each actor's events so far, in the order they were run
    enqueued,   \* how many events each actor was sent: the next one's name
    queue,      \* Scheduler::_queue
    closed,     \* its _closed
    due,        \* history: events in the Scheduler's hands when it was stopped
    pc,         \* where each worker is
    current,    \* the mailbox a worker is performing
    posting     \* the mailbox a thread has pushed into and must schedule

vars == <<box, handled, enqueued, queue, closed, due, pc, current, posting>>

Threads == Workers \union Callers

TypeOK ==
    /\ box \in [Actors -> Seq(Nat)]
    /\ handled \in [Actors -> Seq(Nat)]
    /\ enqueued \in [Actors -> Nat]
    /\ queue \in Seq(Actors)
    /\ closed \in BOOLEAN
    /\ due \in [Actors -> Nat]
    /\ pc \in [Workers -> {"pop", "wait", "perform", "reschedule", "finished"}]
    /\ current \in [Workers -> Actors \union {NoActor}]
    /\ posting \in [Threads -> Actors \union {NoActor}]

Init ==
    /\ box = [a \in Actors |-> <<>>]
    /\ handled = [a \in Actors |-> <<>>]
    /\ enqueued = [a \in Actors |-> 0]
    /\ queue = <<>>
    /\ closed = FALSE
    /\ due = [a \in Actors |-> 0]
    /\ pc = [t \in Workers |-> "pop"]
    /\ current = [t \in Workers |-> NoActor]
    /\ posting = [x \in Threads |-> NoActor]
----------------------------------------------------------------------------
\* Mutants, each the way a slip in the code would change one definition.
PopEvent_NeverReschedules(t) ==
    /\ pc[t] = "perform"
    /\ posting[t] = NoActor
    /\ box' = [box EXCEPT ![current[t]] = Tail(@)]
    /\ handled' = [handled EXCEPT ![current[t]] = Append(@, Head(box[current[t]]))]
    /\ pc' = [pc EXCEPT ![t] = "pop"]
    /\ current' = [current EXCEPT ![t] = NoActor]
    /\ UNCHANGED <<enqueued, queue, closed, due, posting>>

Enqueue_SchedulesAlways(x, a) ==
    /\ posting[x] = NoActor
    /\ x \in Workers => pc[x] = "perform"
    /\ enqueued[a] < MaxEvents
    /\ enqueued' = [enqueued EXCEPT ![a] = @ + 1]
    /\ box' = [box EXCEPT ![a] = Append(@, enqueued[a] + 1)]
    /\ posting' = [posting EXCEPT ![x] = a]
    /\ UNCHANGED <<handled, queue, closed, due, pc, current>>

Enqueue_AtFront(x, a) ==
    /\ posting[x] = NoActor
    /\ x \in Workers => pc[x] = "perform"
    /\ enqueued[a] < MaxEvents
    /\ enqueued' = [enqueued EXCEPT ![a] = @ + 1]
    /\ box' = [box EXCEPT ![a] = <<enqueued[a] + 1>> \o @]
    /\ posting' = [posting EXCEPT ![x] = IF box[a] = <<>> THEN a ELSE NoActor]
    /\ UNCHANGED <<handled, queue, closed, due, pc, current>>

Wakes_Nobody(woken) == woken = {}
----------------------------------------------------------------------------
\* notify_one, when the Channel was empty: one waiting worker wakes, if any.
Wakes(woken) ==
    LET waiting == {t \in Workers : pc[t] = "wait"}
    IN  IF queue = <<>> /\ waiting # {}
        THEN \E t \in waiting : woken = {t}
        ELSE woken = {}

\* Channel::push of a mailbox into the Scheduler's queue: Scheduler::schedule.
Schedule(a) == queue' = IF closed THEN queue ELSE Append(queue, a)

\* ThreadedMailbox::enqueue, first half: the push into the mailbox, by a thread
\* outside the pool or by a worker from inside an actor's method.
Enqueue(x, a) ==
    /\ posting[x] = NoActor
    /\ x \in Workers => pc[x] = "perform"
    /\ enqueued[a] < MaxEvents
    /\ enqueued' = [enqueued EXCEPT ![a] = @ + 1]
    /\ box' = [box EXCEPT ![a] = Append(@, enqueued[a] + 1)]
    /\ posting' = [posting EXCEPT ![x] = IF box[a] = <<>> THEN a ELSE NoActor]
    /\ UNCHANGED <<handled, queue, closed, due, pc, current>>

\* ThreadedMailbox::enqueue, second half: reschedule if the mailbox was empty.
ScheduleEnqueued(x) ==
    /\ posting[x] # NoActor
    /\ Schedule(posting[x])
    /\ \E woken \in SUBSET Workers :
          /\ Wakes(woken)
          /\ pc' = [t \in Workers |-> IF t \in woken THEN "pop" ELSE pc[t]]
    /\ posting' = [posting EXCEPT ![x] = NoActor]
    /\ UNCHANGED <<box, handled, enqueued, closed, due, current>>

\* Scheduler::task: _queue.pop() returns a mailbox, waits, or ends the thread.
PopMailbox(t) ==
    /\ pc[t] = "pop"
    /\ queue # <<>>
    /\ queue' = Tail(queue)
    /\ current' = [current EXCEPT ![t] = Head(queue)]
    /\ pc' = [pc EXCEPT ![t] = "perform"]
    /\ UNCHANGED <<box, handled, enqueued, closed, due, posting>>

WaitOrFinish(t) ==
    /\ pc[t] = "pop"
    /\ queue = <<>>
    /\ pc' = [pc EXCEPT ![t] = IF closed THEN "finished" ELSE "wait"]
    /\ UNCHANGED <<box, handled, enqueued, queue, closed, due, current, posting>>

\* performNextMessage: the method at the front has run; its event is popped.
PopEvent(t) ==
    /\ pc[t] = "perform"
    /\ posting[t] = NoActor
    /\ LET a == current[t] IN
       /\ box' = [box EXCEPT ![a] = Tail(@)]
       /\ handled' = [handled EXCEPT ![a] = Append(@, Head(box[a]))]
       /\ IF Tail(box[a]) = <<>>
          THEN /\ pc' = [pc EXCEPT ![t] = "pop"]
               /\ current' = [current EXCEPT ![t] = NoActor]
          ELSE /\ pc' = [pc EXCEPT ![t] = "reschedule"]
               /\ UNCHANGED current
    /\ UNCHANGED <<enqueued, queue, closed, due, posting>>

\* performNextMessage: there was another event, so reschedule().
Reschedule(t) ==
    /\ pc[t] = "reschedule"
    /\ Schedule(current[t])
    /\ \E woken \in SUBSET Workers :
          /\ Wakes(woken)
          /\ pc' = [w \in Workers |-> IF w = t \/ w \in woken THEN "pop" ELSE pc[w]]
    /\ current' = [current EXCEPT ![t] = NoActor]
    /\ UNCHANGED <<box, handled, enqueued, closed, due, posting>>

\* Scheduler::stop: close the Channel and wake everyone; then join them.
InScheduler(a) ==
    (\E i \in 1..Len(queue) : queue[i] = a) \/ (\E t \in Workers : current[t] = a)

Stop ==
    /\ MayStop
    /\ ~closed
    /\ closed' = TRUE
    /\ due' = [a \in Actors |-> IF InScheduler(a) THEN enqueued[a] ELSE 0]
    /\ pc' = [t \in Workers |-> IF pc[t] = "wait" THEN "pop" ELSE pc[t]]
    /\ UNCHANGED <<box, handled, enqueued, queue, current, posting>>

WorkerStep(t) ==
    \/ PopMailbox(t)
    \/ WaitOrFinish(t)
    \/ PopEvent(t)
    \/ Reschedule(t)

Next ==
    \/ \E x \in Threads, a \in Actors : Enqueue(x, a)
    \/ \E x \in Threads : ScheduleEnqueued(x)
    \/ \E t \in Workers : WorkerStep(t)
    \/ Stop

Spec == Init /\ [][Next]_vars

\* Every thread runs, and every actor method returns.
Fairness ==
    /\ \A x \in Threads : WF_vars(ScheduleEnqueued(x))
    /\ \A t \in Workers : WF_vars(WorkerStep(t))

FairSpec == Spec /\ Fairness
----------------------------------------------------------------------------
(***************************************************************************)
(* An actor is never run by two threads at once: the promise of the actor  *)
(* model, which performNextMessage checks with its _active counter.        *)
(***************************************************************************)
NotReentrant ==
    \A t, u \in Workers :
        (current[t] = current[u] /\ current[t] # NoActor) => t = u

(***************************************************************************)
(* A mailbox that is scheduled has an event: front() in performNextMessage *)
(* never reads an empty queue.                                             *)
(***************************************************************************)
FrontExists == \A t \in Workers : pc[t] = "perform" => box[current[t]] # <<>>

(***************************************************************************)
(* An actor runs its events one by one in the order they were enqueued,    *)
(* whichever threads run it.                                               *)
(***************************************************************************)
HandledInOrder ==
    \A a \in Actors :
        LET all == handled[a] \o box[a]
        IN  Len(all) = enqueued[a] /\ \A i \in 1..Len(all) : all[i] = i

(***************************************************************************)
(* No event is forgotten: a mailbox with events is in the Scheduler's      *)
(* queue, being performed, or about to be scheduled.                       *)
(***************************************************************************)
Scheduled(a) == InScheduler(a) \/ \E x \in Threads : posting[x] = a

NoneForgotten == ~closed => \A a \in Actors : box[a] # <<>> => Scheduled(a)

(***************************************************************************)
(* Unless the Scheduler is stopped, every event is eventually run, although*)
(* push wakes a worker only when the Scheduler's queue was empty.          *)
(***************************************************************************)
AllHandled == \A a \in Actors : box[a] # <<>> ~> (box[a] = <<>> \/ closed)

(***************************************************************************)
(* stop() is documented to block until all pending messages are handled:   *)
(* when the last worker has finished, every event of a mailbox that the    *)
(* Scheduler had in its queue, or was performing, has been run.            *)
(***************************************************************************)
StopHandlesAll ==
    (\A t \in Workers : pc[t] = "finished") =>
        \A a \in Actors : Len(handled[a]) >= due[a]
----------------------------------------------------------------------------
(***************************************************************************)
(* The inductive invariant: a mailbox is scheduled at most once, wherever  *)
(* its turn is just now, and only while it has events.                     *)
(***************************************************************************)
CurrentInv == \A t \in Workers : pc[t] \in {"perform", "reschedule"} <=> current[t] # NoActor

OnceInQueue == \A i, j \in 1..Len(queue) : queue[i] = queue[j] => i = j

QueueOrRunning ==
    \A i \in 1..Len(queue) :
        /\ \A t \in Workers : current[t] # queue[i]
        /\ \A x \in Threads : posting[x] # queue[i]

OnePosting ==
    \A x, y \in Threads : (posting[x] = posting[y] /\ posting[x] # NoActor) => x = y

RunningOrPosting ==
    \A t \in Workers, x \in Threads : current[t] # NoActor => current[t] # posting[x]

HasEvents ==
    /\ \A i \in 1..Len(queue) : box[queue[i]] # <<>>
    /\ \A t \in Workers : current[t] # NoActor => box[current[t]] # <<>>
    /\ \A x \in Threads : posting[x] # NoActor => box[posting[x]] # <<>>

MailboxInv ==
    /\ TypeOK
    /\ CurrentInv
    /\ OnceInQueue
    /\ QueueOrRunning
    /\ OnePosting
    /\ RunningOrPosting
    /\ HasEvents
    /\ NotReentrant
    /\ NoneForgotten
============================================================================
