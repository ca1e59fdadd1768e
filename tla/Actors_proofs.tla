---------------------------- MODULE Actors_proofs ----------------------------
(***************************************************************************)
(* Proofs about what actors run on: ThreadedMailbox, for any sets of       *)
(* actors, workers and calling threads, and Batcher, for any latency,      *)
(* capacity and number of items.                                           *)
(***************************************************************************)
EXTENDS ThreadedMailbox, Batcher, SequenceTheorems, TLAPS

------------------------------------------------------------------------------
(***************************************************************************)
(* ThreadedMailbox: a mailbox has one turn at a time, and has it exactly   *)
(* while it has events.                                                    *)
(***************************************************************************)

(***************************************************************************)
(* A push at the end of a Channel leaves what was there in place.          *)
(***************************************************************************)
LEMMA Pushed ==
    ASSUME NEW S, NEW s \in Seq(S), NEW e \in S
    PROVE  /\ Append(s, e) \in Seq(S)
           /\ Append(s, e) # <<>>
           /\ Len(s) \in Nat
           /\ Len(Append(s, e)) = Len(s) + 1
           /\ Append(s, e)[Len(s) + 1] = e
           /\ \A i \in 1..Len(s) : Append(s, e)[i] = s[i]
    OBVIOUS

(***************************************************************************)
(* A pop from the front of a Channel moves the rest up.                    *)
(***************************************************************************)
LEMMA Popped ==
    ASSUME NEW S, NEW s \in Seq(S), s # <<>>
    PROVE  /\ Head(s) = s[1] /\ Head(s) \in S
           /\ Len(s) \in Nat /\ Len(s) >= 1
           /\ Tail(s) \in Seq(S)
           /\ Len(Tail(s)) = Len(s) - 1
           /\ \A i \in 1..Len(s) - 1 : Tail(s)[i] = s[i + 1]
    <1>1. Len(s) \in Nat /\ Len(s) >= 1
      BY EmptySeq, LenProperties
    <1> QED  BY <1>1

(***************************************************************************)
(* What an actor was sent, in order: the events it has run and the events  *)
(* in its mailbox.  Running the first event of the mailbox leaves this     *)
(* sequence alone.                                                         *)
(***************************************************************************)
LEMMA RunFirst ==
    ASSUME NEW h \in Seq(Nat), NEW b \in Seq(Nat), b # <<>>
    PROVE  Append(h, Head(b)) \o Tail(b) = h \o b
    <1>1. /\ Head(b) = b[1] /\ Head(b) \in Nat /\ Len(b) \in Nat /\ Len(b) >= 1
          /\ Tail(b) \in Seq(Nat) /\ Len(Tail(b)) = Len(b) - 1
          /\ \A i \in 1..Len(b) - 1 : Tail(b)[i] = b[i + 1]
      BY Popped
    <1>2. <<Head(b)>> \in Seq(Nat) /\ Len(<<Head(b)>>) = 1
      BY <1>1
    <1>3. <<Head(b)>> \o Tail(b) = b
      <2> DEFINE c == <<Head(b)>> \o Tail(b)
      <2>1. c \in Seq(Nat) /\ Len(c) = Len(b)
        BY <1>1, <1>2, ConcatProperties
      <2>2. \A i \in 1..Len(b) : c[i] = b[i]
        BY <1>1
      <2> HIDE DEF c
      <2> QED  BY <2>1, <2>2, SeqEqual
    <1>4. Append(h, Head(b)) = h \o <<Head(b)>>
      BY <1>1, AppendIsConcat
    <1> QED  BY <1>1, <1>2, <1>3, <1>4, ConcatAssociative

(***************************************************************************)
(* A push into the mailbox extends it at the end.                          *)
(***************************************************************************)
LEMMA PushLast ==
    ASSUME NEW h \in Seq(Nat), NEW b \in Seq(Nat), NEW e \in Nat
    PROVE  h \o Append(b, e) = Append(h \o b, e)
    BY AppendIsConcat, ConcatAssociative, ConcatProperties

-----------------------------------------------------------------------------
(***************************************************************************)
(* The initial states satisfy the invariant.                               *)
(***************************************************************************)
LEMMA MailboxInit == Init => MailboxInv
    <1> SUFFICES ASSUME Init PROVE MailboxInv
      OBVIOUS
    <1> USE DEF Init
    <1>0. <<>> \in Seq(Nat) /\ <<>> \in Seq(Actors)
      OBVIOUS
    <1>1. TypeOK
      BY <1>0 DEF TypeOK
    <1>2. CurrentInv /\ OnceInQueue /\ QueueOrRunning /\ OnePosting
      BY DEF CurrentInv, OnceInQueue, QueueOrRunning, OnePosting
    <1>3. RunningOrPosting /\ HasEvents /\ NotReentrant /\ NoneForgotten
      BY DEF RunningOrPosting, HasEvents, NotReentrant, NoneForgotten
    <1> QED  BY <1>1, <1>2, <1>3 DEF MailboxInv

(***************************************************************************)
(* Enqueue: only a thread that found the mailbox empty, so that it had no  *)
(* turn, gives it one.                                                     *)
(***************************************************************************)
LEMMA MailboxEnqueue ==
    ASSUME MailboxInv, NEW x \in Threads, NEW a \in Actors, Enqueue(x, a)
    PROVE  MailboxInv'
    <1> USE ThreadAssumption
    <1>t. TypeOK
      BY DEF MailboxInv
    <1>1. /\ UNCHANGED <<handled, queue, closed, due, pc, current>>
          /\ enqueued' = [enqueued EXCEPT ![a] = @ + 1]
          /\ box' = [box EXCEPT ![a] = Append(@, enqueued[a] + 1)]
          /\ posting' = [posting EXCEPT ![x] = IF box[a] = <<>> THEN a ELSE NoActor]
      BY DEF Enqueue
    <1>2. /\ box' \in [Actors -> Seq(Nat)]
          /\ box'[a] # <<>>
          /\ \A b \in Actors : b # a => box'[b] = box[b]
      <2>1. Append(box[a], enqueued[a] + 1) \in Seq(Nat) /\ Append(box[a], enqueued[a] + 1) # <<>>
        <3>1. box[a] \in Seq(Nat) /\ enqueued[a] + 1 \in Nat
          BY <1>t DEF TypeOK
        <3> QED  BY <3>1, Pushed
      <2> QED  BY <2>1, <1>1, <1>t DEF TypeOK
    <1>3. TypeOK'
      BY <1>1, <1>2, <1>t DEF TypeOK
    <1>4. \A b \in Actors : box[b] # <<>> => box'[b] # <<>>
      BY <1>2
    <1>5. box[a] = <<>> => ~Scheduled(a)
      BY DEF MailboxInv, HasEvents, Scheduled, InScheduler
    <1>6. /\ posting' \in [Threads -> Actors \union {NoActor}]
          /\ posting'[x] # NoActor => posting'[x] = a /\ ~Scheduled(a)
          /\ \A y \in Threads : y # x => posting'[y] = posting[y]
      BY <1>1, <1>t, <1>5 DEF TypeOK
    <1>7. CurrentInv' /\ OnceInQueue' /\ NotReentrant'
      BY <1>1 DEF MailboxInv, CurrentInv, OnceInQueue, NotReentrant
    <1>8. QueueOrRunning'
      <2> SUFFICES ASSUME NEW i \in 1..Len(queue)
                   PROVE  /\ \A t \in Workers : current[t] # queue[i]
                          /\ \A y \in Threads : posting'[y] # queue[i]
        BY <1>1 DEF QueueOrRunning
      <2>1. /\ \A t \in Workers : current[t] # queue[i]
            /\ \A y \in Threads : posting[y] # queue[i]
        BY DEF MailboxInv, QueueOrRunning
      <2>2. queue[i] \in Actors
        BY <1>t DEF TypeOK
      <2>3. posting'[x] # queue[i]
        BY <2>2, <1>6 DEF Scheduled, InScheduler
      <2> QED  BY <2>1, <2>3, <1>6
    <1>9. OnePosting'
      BY <1>6 DEF MailboxInv, OnePosting, Scheduled
    <1>10. RunningOrPosting'
      BY <1>1, <1>6 DEF MailboxInv, RunningOrPosting, Scheduled, InScheduler
    <1>11. HasEvents'
      <2>1. \A i \in 1..Len(queue) : queue[i] \in Actors
        BY <1>t DEF TypeOK
      <2> QED
        BY <2>1, <1>1, <1>2, <1>4, <1>6, <1>t DEF MailboxInv, HasEvents, TypeOK
    <1>12. NoneForgotten'
      <2> SUFFICES ASSUME ~closed, NEW b \in Actors, box'[b] # <<>>
                   PROVE  Scheduled(b)'
        BY <1>1 DEF NoneForgotten
      <2>1. CASE box[b] # <<>>
        <3>1. Scheduled(b)
          BY <2>1 DEF MailboxInv, NoneForgotten
        <3>2. \A y \in Threads : posting[y] = b => posting'[y] = b
          BY <1>6 DEF Enqueue
        <3> QED  BY <3>1, <3>2, <1>1 DEF Scheduled, InScheduler
      <2>2. CASE box[b] = <<>>
        <3>1. b = a /\ posting'[x] = a
          BY <2>2, <1>1, <1>2, <1>t DEF TypeOK
        <3> QED  BY <3>1 DEF Scheduled
      <2> QED  BY <2>1, <2>2
    <1> QED
      BY <1>3, <1>7, <1>8, <1>9, <1>10, <1>11, <1>12 DEF MailboxInv

(***************************************************************************)
(* A mailbox whose turn is not in the queue is put there: this is shared   *)
(* by the two callers of Scheduler::schedule.                              *)
(***************************************************************************)
LEMMA ScheduleKeeps ==
    ASSUME MailboxInv, NEW a \in Actors, Schedule(a),
           \A i \in 1..Len(queue) : queue[i] # a
    PROVE  /\ queue' \in Seq(Actors)
           /\ \A i \in 1..Len(queue') : queue'[i] = a \/ \E j \in 1..Len(queue) : queue'[i] = queue[j]
           /\ \A j \in 1..Len(queue) : \E i \in 1..Len(queue') : queue'[i] = queue[j]
           /\ ~closed => \E i \in 1..Len(queue') : queue'[i] = a
           /\ OnceInQueue'
    <1>t. queue \in Seq(Actors) /\ OnceInQueue
      BY DEF MailboxInv, TypeOK
    <1>1. CASE closed
      <2>1. queue' = queue
        BY <1>1 DEF Schedule
      <2> QED  BY <2>1, <1>1, <1>t DEF OnceInQueue
    <1>2. CASE ~closed
      <2>1. queue' = Append(queue, a)
        BY <1>2 DEF Schedule
      <2>2. /\ queue' \in Seq(Actors)
            /\ Len(queue) \in Nat
            /\ Len(queue') = Len(queue) + 1
            /\ queue'[Len(queue) + 1] = a
            /\ \A i \in 1..Len(queue) : queue'[i] = queue[i]
        BY <2>1, <1>t, Pushed
      <2>3. \A i \in 1..Len(queue') : i \in 1..Len(queue) \/ i = Len(queue) + 1
        BY <2>2
      <2>4. Len(queue) + 1 \in 1..Len(queue') /\ 1..Len(queue) \subseteq 1..Len(queue')
        BY <2>2
      <2>5. OnceInQueue'
        <3> SUFFICES ASSUME NEW i \in 1..Len(queue'), NEW j \in 1..Len(queue'),
                            queue'[i] = queue'[j]
                     PROVE  i = j
          BY DEF OnceInQueue
        <3> QED  BY <2>2, <2>3, <1>t DEF OnceInQueue
      <2> QED  BY <2>2, <2>3, <2>4, <2>5
    <1> QED  BY <1>1, <1>2

(***************************************************************************)
(* ScheduleEnqueued moves the turn from the thread to the queue.           *)
(***************************************************************************)
LEMMA MailboxScheduleEnqueued ==
    ASSUME MailboxInv, NEW x \in Threads, ScheduleEnqueued(x)
    PROVE  MailboxInv'
    <1> USE ThreadAssumption
    <1>t. TypeOK
      BY DEF MailboxInv
    <1> DEFINE a == posting[x]
    <1>1. /\ a \in Actors
          /\ Schedule(a)
          /\ UNCHANGED <<box, handled, enqueued, closed, due, current>>
          /\ posting' = [posting EXCEPT ![x] = NoActor]
      BY <1>t DEF ScheduleEnqueued, TypeOK
    <1>2. \A i \in 1..Len(queue) : queue[i] # a
      BY DEF MailboxInv, QueueOrRunning
    <1>3. /\ queue' \in Seq(Actors)
          /\ \A i \in 1..Len(queue') : queue'[i] = a \/ \E j \in 1..Len(queue) : queue'[i] = queue[j]
          /\ \A j \in 1..Len(queue) : \E i \in 1..Len(queue') : queue'[i] = queue[j]
          /\ ~closed => \E i \in 1..Len(queue') : queue'[i] = a
          /\ OnceInQueue'
      BY <1>1, <1>2, ScheduleKeeps
    <1>4. /\ pc' \in [Workers -> {"pop", "wait", "perform", "reschedule", "finished"}]
          /\ \A t \in Workers : pc'[t] = pc[t] \/ (pc[t] = "wait" /\ pc'[t] = "pop")
      <2>1. PICK woken \in SUBSET Workers :
               Wakes(woken) /\ pc' = [t \in Workers |-> IF t \in woken THEN "pop" ELSE pc[t]]
        BY DEF ScheduleEnqueued
      <2>2. \A t \in woken : pc[t] = "wait"
        BY <2>1 DEF Wakes
      <2> QED  BY <2>1, <2>2, <1>t DEF TypeOK
    <1>5. /\ posting'[x] = NoActor
          /\ \A y \in Threads : y # x => posting'[y] = posting[y] /\ posting[y] # a
          /\ \A t \in Workers : current[t] # a
      BY <1>1, <1>t DEF MailboxInv, OnePosting, RunningOrPosting, TypeOK
    <1>6. TypeOK'
      BY <1>1, <1>3, <1>4, <1>t DEF TypeOK
    <1>7. CurrentInv' /\ NotReentrant'
      BY <1>1, <1>4 DEF MailboxInv, CurrentInv, NotReentrant
    <1>8. QueueOrRunning'
      <2> SUFFICES ASSUME NEW i \in 1..Len(queue')
                   PROVE  /\ \A t \in Workers : current[t] # queue'[i]
                          /\ \A y \in Threads : posting'[y] # queue'[i]
        BY <1>1 DEF QueueOrRunning
      <2>1. CASE queue'[i] = a
        BY <2>1, <1>1, <1>5
      <2>2. CASE \E j \in 1..Len(queue) : queue'[i] = queue[j]
        <3>1. PICK j \in 1..Len(queue) : queue'[i] = queue[j]
          BY <2>2
        <3>2. queue[j] # NoActor
          BY <1>t DEF TypeOK
        <3> QED  BY <3>1, <3>2, <1>5 DEF MailboxInv, QueueOrRunning
      <2> QED  BY <2>1, <2>2, <1>3
    <1>9. OnePosting' /\ RunningOrPosting'
      BY <1>1, <1>5 DEF MailboxInv, OnePosting, RunningOrPosting
    <1>10. HasEvents'
      <2>1. box[a] # <<>>
        BY <1>1 DEF MailboxInv, HasEvents, ScheduleEnqueued
      <2>2. \A i \in 1..Len(queue') : box[queue'[i]] # <<>>
        BY <2>1, <1>3 DEF MailboxInv, HasEvents
      <2>3. \A t \in Workers : current[t] # NoActor => box[current[t]] # <<>>
        BY DEF MailboxInv, HasEvents
      <2>4. \A y \in Threads : posting'[y] # NoActor => box[posting'[y]] # <<>>
        BY <1>5 DEF MailboxInv, HasEvents
      <2> QED  BY <2>2, <2>3, <2>4, <1>1 DEF HasEvents
    <1>11. NoneForgotten'
      <2> SUFFICES ASSUME ~closed, NEW b \in Actors, box[b] # <<>>
                   PROVE  Scheduled(b)'
        BY <1>1 DEF NoneForgotten
      <2>1. Scheduled(b)
        BY DEF MailboxInv, NoneForgotten
      <2> QED  BY <2>1, <1>1, <1>3, <1>5 DEF Scheduled, InScheduler
    <1> QED
      BY <1>3, <1>6, <1>7, <1>8, <1>9, <1>10, <1>11 DEF MailboxInv

(***************************************************************************)
(* PopMailbox moves the turn from the queue to the worker.                 *)
(***************************************************************************)
LEMMA MailboxPopMailbox ==
    ASSUME MailboxInv, NEW t \in Workers, PopMailbox(t)
    PROVE  MailboxInv'
    <1> USE ThreadAssumption
    <1>t. TypeOK
      BY DEF MailboxInv
    <1>1. /\ pc[t] = "pop" /\ queue # <<>>
          /\ queue' = Tail(queue)
          /\ current' = [current EXCEPT ![t] = Head(queue)]
          /\ pc' = [pc EXCEPT ![t] = "perform"]
          /\ UNCHANGED <<box, handled, enqueued, closed, due, posting>>
      BY DEF PopMailbox
    <1>2. /\ Head(queue) = queue[1] /\ Head(queue) \in Actors
          /\ Len(queue) \in Nat /\ Len(queue) >= 1
          /\ queue' \in Seq(Actors)
          /\ Len(queue') = Len(queue) - 1
          /\ \A i \in 1..Len(queue) - 1 : queue'[i] = queue[i + 1]
      BY <1>1, <1>t, Popped DEF TypeOK
    <1>3. /\ 1 \in 1..Len(queue)
          /\ \A i \in 1..Len(queue') : i + 1 \in 1..Len(queue) /\ i + 1 # 1 /\ queue'[i] = queue[i + 1]
      BY <1>2
    <1>4. /\ \A i \in 1..Len(queue') : \E j \in 1..Len(queue) : queue'[i] = queue[j]
          /\ \A i \in 1..Len(queue') : queue'[i] # queue[1]
      BY <1>3 DEF MailboxInv, OnceInQueue
    <1>5. \A j \in 1..Len(queue) : j = 1 \/ \E i \in 1..Len(queue') : queue'[i] = queue[j]
      <2> SUFFICES ASSUME NEW j \in 1..Len(queue), j # 1
                   PROVE  \E i \in 1..Len(queue') : queue'[i] = queue[j]
        OBVIOUS
      <2>1. j - 1 \in 1..Len(queue') /\ j - 1 \in 1..Len(queue) - 1 /\ (j - 1) + 1 = j
        BY <1>2
      <2> QED  BY <2>1, <1>2
    <1>6. /\ current'[t] = queue[1]
          /\ \A u \in Workers : u # t => current'[u] = current[u] /\ current[u] # queue[1]
          /\ \A y \in Threads : posting[y] # queue[1]
          /\ current[t] = NoActor
      BY <1>1, <1>2, <1>3, <1>t DEF MailboxInv, QueueOrRunning, CurrentInv, TypeOK
    <1>7. TypeOK'
      BY <1>1, <1>2, <1>t DEF TypeOK
    <1>8. CurrentInv'
      BY <1>1, <1>2, <1>6, <1>t DEF MailboxInv, CurrentInv, TypeOK
    <1>9. OnceInQueue'
      <2> SUFFICES ASSUME NEW i \in 1..Len(queue'), NEW j \in 1..Len(queue'),
                          queue'[i] = queue'[j]
                   PROVE  i = j
        BY DEF OnceInQueue
      <2>1. i + 1 \in 1..Len(queue) /\ j + 1 \in 1..Len(queue) /\ queue[i + 1] = queue[j + 1]
        BY <1>3
      <2>2. i + 1 = j + 1
        BY <2>1 DEF MailboxInv, OnceInQueue
      <2> QED  BY <2>2
    <1>10. QueueOrRunning'
      BY <1>1, <1>4, <1>6 DEF MailboxInv, QueueOrRunning
    <1>11. OnePosting' /\ RunningOrPosting'
      BY <1>1, <1>6 DEF MailboxInv, OnePosting, RunningOrPosting
    <1>12. HasEvents'
      BY <1>1, <1>3, <1>4, <1>6 DEF MailboxInv, HasEvents
    <1>13. NotReentrant'
      BY <1>6 DEF MailboxInv, NotReentrant
    <1>14. NoneForgotten'
      <2> SUFFICES ASSUME ~closed, NEW b \in Actors, box[b] # <<>>
                   PROVE  Scheduled(b)'
        BY <1>1 DEF NoneForgotten
      <2>1. Scheduled(b)
        BY DEF MailboxInv, NoneForgotten
      <2> QED  BY <2>1, <1>1, <1>5, <1>6, ThreadAssumption DEF Scheduled, InScheduler
    <1> QED
      BY <1>7, <1>8, <1>9, <1>10, <1>11, <1>12, <1>13, <1>14 DEF MailboxInv

(***************************************************************************)
(* WaitOrFinish touches no turn.                                           *)
(***************************************************************************)
LEMMA MailboxWaitOrFinish ==
    ASSUME MailboxInv, NEW t \in Workers, WaitOrFinish(t)
    PROVE  MailboxInv'
    <1>1. /\ pc[t] = "pop"
          /\ pc' = [pc EXCEPT ![t] = IF closed THEN "finished" ELSE "wait"]
          /\ UNCHANGED <<box, handled, enqueued, queue, closed, due, current, posting>>
      BY DEF WaitOrFinish
    <1>2. TypeOK'
      BY <1>1 DEF MailboxInv, TypeOK
    <1>3. CurrentInv'
      BY <1>1 DEF MailboxInv, CurrentInv, TypeOK
    <1>4. OnceInQueue' /\ QueueOrRunning' /\ OnePosting' /\ RunningOrPosting'
      BY <1>1 DEF MailboxInv, OnceInQueue, QueueOrRunning, OnePosting, RunningOrPosting
    <1>5. HasEvents' /\ NotReentrant' /\ NoneForgotten'
      BY <1>1 DEF MailboxInv, HasEvents, NotReentrant, NoneForgotten, Scheduled, InScheduler
    <1> QED  BY <1>2, <1>3, <1>4, <1>5 DEF MailboxInv

(***************************************************************************)
(* PopEvent: the worker keeps the turn if an event is left, and the turn   *)
(* ends with the last event.                                               *)
(***************************************************************************)
LEMMA MailboxPopEvent ==
    ASSUME MailboxInv, NEW t \in Workers, PopEvent(t)
    PROVE  MailboxInv'
    <1> USE ThreadAssumption
    <1>t. TypeOK
      BY DEF MailboxInv
    <1> DEFINE a == current[t]
    <1>0. a \in Actors /\ a # NoActor /\ box[a] # <<>>
      BY <1>t DEF PopEvent, MailboxInv, CurrentInv, HasEvents, TypeOK
    <1>1. /\ pc[t] = "perform"
          /\ box' = [box EXCEPT ![a] = Tail(@)]
          /\ handled' = [handled EXCEPT ![a] = Append(@, Head(box[a]))]
          /\ UNCHANGED <<enqueued, queue, closed, due, posting>>
          /\ IF Tail(box[a]) = <<>>
             THEN /\ pc' = [pc EXCEPT ![t] = "pop"]
                  /\ current' = [current EXCEPT ![t] = NoActor]
             ELSE /\ pc' = [pc EXCEPT ![t] = "reschedule"]
                  /\ current' = current
      BY DEF PopEvent
    <1>2. Tail(box[a]) \in Seq(Nat) /\ Head(box[a]) \in Nat
      BY <1>0, <1>t, Popped DEF TypeOK
    <1>3. /\ box' \in [Actors -> Seq(Nat)]
          /\ box'[a] = Tail(box[a])
          /\ \A b \in Actors : b # a => box'[b] = box[b]
      BY <1>0, <1>1, <1>2, <1>t DEF TypeOK
    <1>4. handled' \in [Actors -> Seq(Nat)]
      <2>1. Append(handled[a], Head(box[a])) \in Seq(Nat)
        BY <1>0, <1>2, <1>t, Pushed DEF TypeOK
      <2> QED  BY <2>1, <1>0, <1>1, <1>t DEF TypeOK
    <1>5. /\ current' \in [Workers -> Actors \union {NoActor}]
          /\ pc' \in [Workers -> {"pop", "wait", "perform", "reschedule", "finished"}]
          /\ \A u \in Workers : u # t => /\ current'[u] = current[u]
                                         /\ pc'[u] = pc[u]
                                         /\ current[u] # a
          /\ current'[t] \in {a, NoActor}
          /\ current'[t] = NoActor <=> box'[a] = <<>>
          /\ pc'[t] = (IF current'[t] = NoActor THEN "pop" ELSE "reschedule")
      <2>1. \A u \in Workers : u # t => current[u] # a
        BY <1>0 DEF MailboxInv, NotReentrant
      <2>2. CASE Tail(box[a]) = <<>>
        BY <2>1, <2>2, <1>0, <1>1, <1>3, <1>t DEF TypeOK
      <2>3. CASE Tail(box[a]) # <<>>
        BY <2>1, <2>3, <1>0, <1>1, <1>3, <1>t DEF TypeOK
      <2> QED  BY <2>2, <2>3
    <1>6. TypeOK'
      BY <1>1, <1>3, <1>4, <1>5, <1>t DEF TypeOK
    <1>7. CurrentInv'
      BY <1>5, <1>0 DEF MailboxInv, CurrentInv
    <1>8. OnceInQueue' /\ OnePosting'
      BY <1>1 DEF MailboxInv, OnceInQueue, OnePosting
    <1>9. \A i \in 1..Len(queue) : queue[i] \in Actors /\ queue[i] # a
      BY <1>t DEF MailboxInv, QueueOrRunning, TypeOK
    <1>10. \A x \in Threads : posting[x] # a
      BY <1>0 DEF MailboxInv, RunningOrPosting
    <1>11. QueueOrRunning'
      BY <1>1, <1>5, <1>9 DEF MailboxInv, QueueOrRunning
    <1>12. RunningOrPosting'
      BY <1>1, <1>5, <1>10 DEF MailboxInv, RunningOrPosting
    <1>13. HasEvents'
      <2>1. \A i \in 1..Len(queue) : box'[queue[i]] # <<>>
        BY <1>3, <1>9 DEF MailboxInv, HasEvents
      <2>2. \A u \in Workers : current'[u] # NoActor => box'[current'[u]] # <<>>
        <3> SUFFICES ASSUME NEW u \in Workers, current'[u] # NoActor
                     PROVE  box'[current'[u]] # <<>>
          OBVIOUS
        <3>1. CASE u = t
          BY <3>1, <1>5
        <3>2. CASE u # t
          <4>1. /\ current'[u] = current[u] /\ current[u] # a
                /\ current[u] \in Actors /\ box[current[u]] # <<>>
            BY <3>2, <1>5, <1>t DEF MailboxInv, HasEvents, TypeOK
          <4> QED  BY <4>1, <1>3
        <3> QED  BY <3>1, <3>2
      <2>3. \A x \in Threads : posting[x] # NoActor => box'[posting[x]] # <<>>
        BY <1>3, <1>10, <1>t DEF MailboxInv, HasEvents, TypeOK
      <2> QED  BY <2>1, <2>2, <2>3, <1>1 DEF HasEvents
    <1>14. NotReentrant'
      BY <1>5 DEF MailboxInv, NotReentrant
    <1>15. NoneForgotten'
      <2> SUFFICES ASSUME ~closed, NEW b \in Actors, box'[b] # <<>>
                   PROVE  Scheduled(b)'
        BY <1>1 DEF NoneForgotten
      <2>1. CASE b = a
        <3>1. current'[t] = a
          BY <2>1, <1>5
        <3> QED  BY <3>1, <2>1 DEF Scheduled, InScheduler
      <2>2. CASE b # a
        <3>1. Scheduled(b)
          BY <2>2, <1>3 DEF MailboxInv, NoneForgotten
        <3>2. \A u \in Workers : current[u] = b => current'[u] = b
          BY <2>2, <1>5
        <3> QED  BY <3>1, <3>2, <1>1 DEF Scheduled, InScheduler
      <2> QED  BY <2>1, <2>2
    <1> QED
      BY <1>6, <1>7, <1>8, <1>11, <1>12, <1>13, <1>14, <1>15 DEF MailboxInv

(***************************************************************************)
(* Reschedule moves the turn from the worker to the queue.                 *)
(***************************************************************************)
LEMMA MailboxReschedule ==
    ASSUME MailboxInv, NEW t \in Workers, Reschedule(t)
    PROVE  MailboxInv'
    <1> USE ThreadAssumption
    <1>t. TypeOK
      BY DEF MailboxInv
    <1> DEFINE a == current[t]
    <1>0. a \in Actors /\ a # NoActor /\ box[a] # <<>>
      BY <1>t DEF Reschedule, MailboxInv, CurrentInv, HasEvents, TypeOK
    <1>1. /\ Schedule(a)
          /\ UNCHANGED <<box, handled, enqueued, closed, due, posting>>
          /\ current' = [current EXCEPT ![t] = NoActor]
      BY DEF Reschedule
    <1>2. \A i \in 1..Len(queue) : queue[i] # a
      BY DEF MailboxInv, QueueOrRunning
    <1>3. /\ queue' \in Seq(Actors)
          /\ \A i \in 1..Len(queue') : queue'[i] = a \/ \E j \in 1..Len(queue) : queue'[i] = queue[j]
          /\ \A j \in 1..Len(queue) : \E i \in 1..Len(queue') : queue'[i] = queue[j]
          /\ ~closed => \E i \in 1..Len(queue') : queue'[i] = a
          /\ OnceInQueue'
      BY <1>0, <1>1, <1>2, ScheduleKeeps
    <1>4. /\ pc' \in [Workers -> {"pop", "wait", "perform", "reschedule", "finished"}]
          /\ pc'[t] = "pop"
          /\ \A u \in Workers :
                u # t => (pc'[u] = pc[u] \/ (pc[u] = "wait" /\ pc'[u] = "pop"))
      <2>1. PICK woken \in SUBSET Workers :
               /\ Wakes(woken)
               /\ pc' = [w \in Workers |-> IF w = t \/ w \in woken THEN "pop" ELSE pc[w]]
        BY DEF Reschedule
      <2>2. \A u \in woken : pc[u] = "wait"
        BY <2>1 DEF Wakes
      <2> QED  BY <2>1, <2>2, <1>t DEF TypeOK
    <1>5. /\ current' \in [Workers -> Actors \union {NoActor}]
          /\ current'[t] = NoActor
          /\ \A u \in Workers : u # t => current'[u] = current[u] /\ current[u] # a
          /\ \A x \in Threads : posting[x] # a
      BY <1>0, <1>1, <1>t DEF MailboxInv, NotReentrant, RunningOrPosting, TypeOK
    <1>6. TypeOK'
      BY <1>1, <1>3, <1>4, <1>5, <1>t DEF TypeOK
    <1>7. CurrentInv'
      BY <1>4, <1>5 DEF MailboxInv, CurrentInv
    <1>8. QueueOrRunning'
      BY <1>0, <1>1, <1>3, <1>5 DEF MailboxInv, QueueOrRunning
    <1>9. OnePosting' /\ RunningOrPosting' /\ NotReentrant'
      BY <1>1, <1>5 DEF MailboxInv, OnePosting, RunningOrPosting, NotReentrant
    <1>10. HasEvents'
      BY <1>0, <1>1, <1>3, <1>5 DEF MailboxInv, HasEvents
    <1>11. NoneForgotten'
      <2> SUFFICES ASSUME ~closed, NEW b \in Actors, box[b] # <<>>
                   PROVE  Scheduled(b)'
        BY <1>1 DEF NoneForgotten
      <2>1. Scheduled(b)
        BY DEF MailboxInv, NoneForgotten
      <2> QED  BY <2>1, <1>1, <1>3, <1>5 DEF Scheduled, InScheduler
    <1> QED
      BY <1>3, <1>6, <1>7, <1>8, <1>9, <1>10, <1>11 DEF MailboxInv

(***************************************************************************)
(* Stop touches no turn; from then on events may be forgotten.             *)
(***************************************************************************)
LEMMA MailboxStop ==
    ASSUME MailboxInv, Stop
    PROVE  MailboxInv'
    <1>t. TypeOK
      BY DEF MailboxInv
    <1>1. /\ closed'
          /\ due' = [a \in Actors |-> IF InScheduler(a) THEN enqueued[a] ELSE 0]
          /\ pc' = [t \in Workers |-> IF pc[t] = "wait" THEN "pop" ELSE pc[t]]
          /\ UNCHANGED <<box, handled, enqueued, queue, current, posting>>
      BY DEF Stop
    <1>2. TypeOK'
      BY <1>1, <1>t DEF TypeOK, Stop
    <1>3. CurrentInv'
      BY <1>1 DEF MailboxInv, CurrentInv
    <1>4. OnceInQueue' /\ QueueOrRunning' /\ OnePosting' /\ RunningOrPosting'
      BY <1>1 DEF MailboxInv, OnceInQueue, QueueOrRunning, OnePosting, RunningOrPosting
    <1>5. HasEvents' /\ NotReentrant' /\ NoneForgotten'
      BY <1>1 DEF MailboxInv, HasEvents, NotReentrant, NoneForgotten
    <1> QED  BY <1>2, <1>3, <1>4, <1>5 DEF MailboxInv

(***************************************************************************)
(* Steps that change nothing keep the invariant.                           *)
(***************************************************************************)
LEMMA MailboxStutter ==
    ASSUME MailboxInv, UNCHANGED vars
    PROVE  MailboxInv'
    BY DEF vars, MailboxInv, TypeOK, CurrentInv, OnceInQueue, QueueOrRunning, OnePosting,
           RunningOrPosting, HasEvents, NotReentrant, NoneForgotten, Scheduled, InScheduler

-----------------------------------------------------------------------------
(***************************************************************************)
(* The inductive invariant holds in every reachable state: a mailbox with  *)
(* events has exactly one turn (until the Scheduler is stopped), and one   *)
(* without has none.                                                       *)
(***************************************************************************)
THEOREM MailboxInvariant == Spec => []MailboxInv
    <1>1. MailboxInv /\ [Next]_vars => MailboxInv'
      <2> SUFFICES ASSUME MailboxInv, [Next]_vars PROVE MailboxInv'
        OBVIOUS
      <2>1. ASSUME NEW x \in Threads, NEW a \in Actors, Enqueue(x, a) PROVE MailboxInv'
        BY <2>1, MailboxEnqueue
      <2>2. ASSUME NEW x \in Threads, ScheduleEnqueued(x) PROVE MailboxInv'
        BY <2>2, MailboxScheduleEnqueued
      <2>3. ASSUME NEW t \in Workers, WorkerStep(t) PROVE MailboxInv'
        BY <2>3, MailboxPopMailbox, MailboxWaitOrFinish, MailboxPopEvent,
           MailboxReschedule DEF WorkerStep
      <2> QED  BY <2>1, <2>2, <2>3, MailboxStop, MailboxStutter DEF Next
    <1> QED  BY <1>1, MailboxInit, PTL DEF Spec

(***************************************************************************)
(* An actor is never run by two threads at once, and never with an empty   *)
(* mailbox.                                                                *)
(***************************************************************************)
THEOREM ActorsAreSequential == Spec => [](NotReentrant /\ FrontExists)
    <1>1. MailboxInv => NotReentrant /\ FrontExists
      BY DEF MailboxInv, FrontExists, HasEvents, CurrentInv
    <1> QED  BY <1>1, MailboxInvariant, PTL

(***************************************************************************)
(* While the Scheduler runs, no event is forgotten.                        *)
(***************************************************************************)
THEOREM NoEventIsForgotten == Spec => []NoneForgotten
    <1>1. MailboxInv => NoneForgotten
      BY DEF MailboxInv
    <1> QED  BY <1>1, MailboxInvariant, PTL

(***************************************************************************)
(* Every step keeps an actor's events in order: only a push and the pop of *)
(* an event touch them, and a worker that pops has an event to pop.        *)
(***************************************************************************)
LEMMA OrderStep ==
    ASSUME MailboxInv, HandledInOrder, [Next]_vars
    PROVE  HandledInOrder'
    <1>t. TypeOK
      BY DEF MailboxInv
    <1>1. ASSUME NEW x \in Threads, NEW a \in Actors, Enqueue(x, a)
          PROVE  HandledInOrder'
      <2> DEFINE all == handled[a] \o box[a]  e == enqueued[a] + 1
      <2>1. /\ handled' = handled
            /\ enqueued' = [enqueued EXCEPT ![a] = e]
            /\ box' = [box EXCEPT ![a] = Append(@, e)]
        BY <1>1 DEF Enqueue
      <2>2. all \in Seq(Nat) /\ e \in Nat
        BY <1>t, ConcatProperties DEF TypeOK
      <2>3. handled'[a] \o box'[a] = Append(all, e)
        BY <2>1, <1>t, PushLast DEF TypeOK
      <2>4. Len(all) = enqueued[a] /\ \A i \in 1..Len(all) : all[i] = i
        BY DEF HandledInOrder
      <2>5. Len(Append(all, e)) = e /\ \A i \in 1..e : Append(all, e)[i] = i
        <3> HIDE DEF all
        <3> QED  BY <2>2, <2>4, <1>t, Pushed DEF TypeOK
      <2>6. \A b \in Actors : b # a => /\ handled'[b] \o box'[b] = handled[b] \o box[b]
                                      /\ enqueued'[b] = enqueued[b]
        BY <2>1, <1>t DEF TypeOK
      <2>7. enqueued'[a] = e
        BY <2>1, <1>t DEF TypeOK
      <2> HIDE DEF all, e
      <2> QED  BY <2>3, <2>5, <2>6, <2>7 DEF HandledInOrder
    <1>2. ASSUME NEW t \in Workers, PopEvent(t)
          PROVE  HandledInOrder'
      <2> DEFINE a == current[t]
      <2>0. a \in Actors /\ box[a] # <<>>
        BY <1>t, <1>2, ThreadAssumption DEF PopEvent, MailboxInv, CurrentInv, HasEvents, TypeOK
      <2>1. /\ enqueued' = enqueued
            /\ box' = [box EXCEPT ![a] = Tail(@)]
            /\ handled' = [handled EXCEPT ![a] = Append(@, Head(box[a]))]
        BY <1>2 DEF PopEvent
      <2>2. handled'[a] \o box'[a] = handled[a] \o box[a]
        BY <2>0, <2>1, <1>t, RunFirst DEF TypeOK
      <2>3. \A b \in Actors : handled'[b] \o box'[b] = handled[b] \o box[b]
        BY <2>1, <2>2, <1>t DEF TypeOK
      <2> QED  BY <2>1, <2>3 DEF HandledInOrder
    <1>3. ASSUME UNCHANGED <<box, handled, enqueued>>
          PROVE  HandledInOrder'
      BY <1>3 DEF HandledInOrder
    <1> QED
      BY <1>1, <1>2, <1>3 DEF Next, WorkerStep, vars, ScheduleEnqueued, PopMailbox,
         WaitOrFinish, Reschedule, Stop

(***************************************************************************)
(* Whichever workers run an actor, and whoever sends it events, it runs    *)
(* them one by one in the order in which they were pushed.                 *)
(***************************************************************************)
THEOREM EventsInOrder == Spec => []HandledInOrder
    <1>1. Init => HandledInOrder
      <2> SUFFICES ASSUME Init PROVE HandledInOrder
        OBVIOUS
      <2>1. <<>> \in Seq(Nat) /\ Len(<<>>) = 0
        OBVIOUS
      <2>2. ASSUME NEW a \in Actors
            PROVE  Len(handled[a] \o box[a]) = enqueued[a] /\ enqueued[a] = 0
        <3>1. handled[a] = <<>> /\ box[a] = <<>> /\ enqueued[a] = 0
          BY DEF Init
        <3>2. Len(<<>> \o <<>>) = Len(<<>>) + Len(<<>>)
          BY <2>1, ConcatProperties
        <3> QED  BY <3>1, <3>2, <2>1
      <2>3. ASSUME NEW a \in Actors, NEW i \in 1..Len(handled[a] \o box[a]) PROVE FALSE
        <3>1. Len(handled[a] \o box[a]) = 0
          BY <2>2
        <3> QED  BY <3>1
      <2> QED  BY <2>2, <2>3, Zenon DEF HandledInOrder
    <1>2. MailboxInv /\ HandledInOrder /\ [Next]_vars => HandledInOrder'
      BY OrderStep
    <1> QED  BY <1>1, <1>2, MailboxInvariant, PTL DEF Spec

------------------------------------------------------------------------------
(***************************************************************************)
(* Batcher: while there are items, a call of their generation is under way.*)
(***************************************************************************)

(***************************************************************************)
(* push adds the next item at the end of everything handed over so far.    *)
(***************************************************************************)
LEMMA PushedInOrder ==
    ASSUME BatcherTypeOK, InOrder, items' = Append(items, pushed + 1), processed' = processed,
           pushed' = pushed + 1
    PROVE  InOrder'
    <1> DEFINE all == processed \o items
    <1>1. processed \in Seq(Nat) /\ items \in Seq(Nat) /\ pushed \in Nat
      BY BatcherAssumption DEF BatcherTypeOK
    <1>2. all \in Seq(Nat) /\ all = [i \in 1..pushed |-> i] /\ Len(all) = pushed
      BY <1>1 DEF InOrder
    <1>3. processed \o Append(items, pushed + 1) = Append(all, pushed + 1)
      BY <1>1
    <1>4. Append(all, pushed + 1) = [i \in 1..pushed + 1 |-> i]
      BY <1>1, <1>2
    <1> QED
      BY <1>3, <1>4 DEF InOrder

(***************************************************************************)
(* Calls added to the mailbox leave the ones before them waiting ...       *)
(***************************************************************************)
LEMMA CallsAdded ==
    ASSUME NEW s \in Seq(Nat), NEW t \in Seq(Nat)
    PROVE  /\ s \o t \in Seq(Nat)
           /\ \A i \in 1..Len(s) : i \in 1..Len(s \o t) /\ (s \o t)[i] = s[i]
           /\ \A i \in 1..Len(t) :
                 Len(s) + i \in 1..Len(s \o t) /\ (s \o t)[Len(s) + i] = t[i]
           /\ \A i \in 1..Len(s \o t) :
                 \/ i \in 1..Len(s) /\ (s \o t)[i] = s[i]
                 \/ i - Len(s) \in 1..Len(t) /\ (s \o t)[i] = t[i - Len(s)]
    OBVIOUS

(***************************************************************************)
(* ... and so does taking the first of them, unless it is that one.        *)
(***************************************************************************)
LEMMA CallTaken ==
    ASSUME NEW s \in Seq(Nat), s # <<>>
    PROVE  /\ Head(s) = s[1] /\ Head(s) \in Nat /\ 1 \in 1..Len(s)
           /\ Tail(s) \in Seq(Nat)
           /\ \A i \in 1..Len(Tail(s)) : i + 1 \in 1..Len(s) /\ Tail(s)[i] = s[i + 1]
           /\ \A i \in 1..Len(s) :
                 i = 1 \/ (i - 1 \in 1..Len(Tail(s)) /\ Tail(s)[i - 1] = s[i])
    <1>1. Len(s) \in Nat /\ Len(s) >= 1
      BY EmptySeq, LenProperties
    <1> QED
      BY <1>1

(***************************************************************************)
(* push preserves the invariant.  A batch that gets its first item gets a  *)
(* call, and one that becomes full gets one in the mailbox.                *)
(***************************************************************************)
LEMMA PushPreserves ==
    ASSUME BatcherInv, Push
    PROVE  BatcherInv'
    <1> USE BatcherAssumption
    <1> DEFINE first == IF ~scheduled /\ ~Delayed THEN <<generation>> ELSE <<>>
               full  == IF BecomesFull THEN <<generation>> ELSE <<>>
               added == first \o full
    <1>1. BatcherTypeOK /\ ScheduledInv /\ NoneAhead /\ FullIsPrompt /\ InOrder
      BY DEF BatcherInv
    <1>2. /\ pushed < MaxItems /\ pushed' = pushed + 1
          /\ items' = Append(items, pushed + 1)
          /\ scheduled' = TRUE
          /\ mailbox' = mailbox \o added
          /\ timers' = IF ~scheduled /\ Delayed THEN timers \union {generation} ELSE timers
          /\ generation' = generation /\ processed' = processed
      BY DEF Push
    <1>3. /\ added \in Seq(Nat)
          /\ \A i \in 1..Len(added) : added[i] = generation
          /\ (~scheduled /\ ~Delayed) => Len(added) >= 1
          /\ BecomesFull => Len(added) >= 1
      <2>1. generation \in Nat  BY <1>1 DEF BatcherTypeOK
      <2>2. first \in Seq(Nat) /\ full \in Seq(Nat)  BY <2>1
      <2>3. /\ Len(first) \in 0..1 /\ \A i \in 1..Len(first) : first[i] = generation
            /\ (~scheduled /\ ~Delayed) => Len(first) = 1
        BY <2>1
      <2>4. /\ Len(full) \in 0..1 /\ \A i \in 1..Len(full) : full[i] = generation
            /\ BecomesFull => Len(full) = 1
        BY <2>1
      <2> HIDE DEF first, full
      <2>5. Len(added) = Len(first) + Len(full)  BY <2>2
      <2>6. \A i \in 1..Len(added) : added[i] = generation
        BY <2>2, <2>3, <2>4, <2>5, CallsAdded
      <2>7. added \in Seq(Nat)  BY <2>2
      <2>8. (~scheduled /\ ~Delayed) => Len(added) >= 1
        BY <2>3, <2>4, <2>5
      <2>9. BecomesFull => Len(added) >= 1
        BY <2>3, <2>4, <2>5
      <2> QED  BY <2>6, <2>7, <2>8, <2>9
    <1> HIDE DEF first, full, added
    <1>4. /\ mailbox' \in Seq(Nat)
          /\ Waiting(generation) => Waiting(generation)'
          /\ Len(added) >= 1 => Waiting(generation)'
          /\ \A i \in 1..Len(mailbox') : mailbox'[i] <= generation
      <2>1. mailbox \in Seq(Nat) /\ generation \in Nat  BY <1>1 DEF BatcherTypeOK
      <2>2. Len(mailbox) \in Nat /\ Len(added) \in Nat  BY <2>1, <1>3
      <2>3. \A i \in 1..Len(mailbox) :
               i \in 1..Len(mailbox') /\ mailbox'[i] = mailbox[i]
        BY <1>2, <1>3, <2>1, CallsAdded
      <2>4. \A i \in 1..Len(added) :
               Len(mailbox) + i \in 1..Len(mailbox') /\ mailbox'[Len(mailbox) + i] = generation
        BY <1>2, <1>3, <2>1, CallsAdded
      <2>5. \A i \in 1..Len(mailbox') :
               (i \in 1..Len(mailbox) /\ mailbox'[i] = mailbox[i]) \/ mailbox'[i] = generation
        BY <1>2, <1>3, <2>1, CallsAdded
      <2>6. mailbox' \in Seq(Nat)  BY <1>2, <1>3, <2>1, CallsAdded
      <2>7. Waiting(generation) => Waiting(generation)'
        BY <2>3, <1>2 DEF Waiting
      <2>8. Len(added) >= 1 => Waiting(generation)'
        <3> HAVE Len(added) >= 1
        <3> 1 \in 1..Len(added)  BY <2>2
        <3> QED  BY <2>4, <1>2 DEF Waiting
      <2>9. \A i \in 1..Len(mailbox') : mailbox'[i] <= generation
        BY <2>1, <2>5, <1>1 DEF NoneAhead
      <2> QED  BY <2>6, <2>7, <2>8, <2>9
    <1>5. BatcherTypeOK'
      BY <1>1, <1>2, <1>4 DEF BatcherTypeOK
    <1>6. ScheduledInv'
      BY <1>1, <1>2, <1>3, <1>4 DEF ScheduledInv, BatcherTypeOK, Waiting
    <1>7. NoneAhead'
      BY <1>1, <1>2, <1>4 DEF NoneAhead, BatcherTypeOK
    <1>8. FullIsPrompt'
      <2>1. Len(items') = Len(items) + 1 /\ Len(items) \in Nat
        BY <1>1, <1>2 DEF BatcherTypeOK
      <2>2. SUFFICES ASSUME Delayed, Capacity > 0, Len(items') >= Capacity
                     PROVE  Waiting(generation)'
        BY DEF FullIsPrompt
      <2>3. CASE BecomesFull
        BY <1>3, <1>4, <2>3
      <2>4. CASE ~BecomesFull
        <3>1. Len(items) >= Capacity
          BY <2>1, <2>2, <2>4 DEF BecomesFull
        <3> QED  BY <1>1, <1>4, <2>2, <3>1 DEF FullIsPrompt
      <2> QED  BY <2>3, <2>4
    <1>9. InOrder'
      BY <1>1, <1>2, PushedInOrder
    <1> QED  BY <1>5, <1>6, <1>7, <1>8, <1>9 DEF BatcherInv

(***************************************************************************)
(* A Timer moves its call into the mailbox.                                *)
(***************************************************************************)
LEMMA FirePreserves ==
    ASSUME BatcherInv, NEW gen \in timers, Fire(gen)
    PROVE  BatcherInv'
    <1>1. BatcherTypeOK /\ ScheduledInv /\ NoneAhead /\ FullIsPrompt /\ InOrder
      BY DEF BatcherInv
    <1>2. /\ timers' = timers \ {gen} /\ mailbox' = Append(mailbox, gen)
          /\ UNCHANGED <<items, generation, scheduled, pushed, processed>>
      BY DEF Fire
    <1>3. gen \in Nat /\ mailbox \in Seq(Nat) /\ generation \in Nat /\ Len(mailbox) \in Nat
      BY <1>1 DEF BatcherTypeOK
    <1>4. /\ mailbox' \in Seq(Nat) /\ Len(mailbox') = Len(mailbox) + 1
          /\ mailbox'[Len(mailbox) + 1] = gen
          /\ \A i \in 1..Len(mailbox) : mailbox'[i] = mailbox[i]
      BY <1>2, <1>3
    <1>5. BatcherTypeOK'
      BY <1>1, <1>2, <1>4 DEF BatcherTypeOK
    <1>6. ScheduledInv'
      BY <1>1, <1>2, <1>3, <1>4 DEF ScheduledInv, Waiting
    <1>7. NoneAhead'
      <2>1. \A i \in 1..Len(mailbox') : i \in 1..Len(mailbox) \/ i = Len(mailbox) + 1
        BY <1>3, <1>4
      <2> QED  BY <1>1, <1>2, <1>3, <1>4, <2>1 DEF NoneAhead
    <1>8. FullIsPrompt'
      BY <1>1, <1>2, <1>3, <1>4 DEF FullIsPrompt, Waiting
    <1>9. InOrder'
      BY <1>1, <1>2 DEF InOrder
    <1> QED  BY <1>5, <1>6, <1>7, <1>8, <1>9 DEF BatcherInv

(***************************************************************************)
(* Taking the batch, asked or not: nothing is left that would need a call, *)
(* and every call still under way belongs to the past.                     *)
(***************************************************************************)
LEMMA BatchTaken ==
    ASSUME BatcherInv, NEW gen \in Nat, gen >= generation, Pop(gen),
           timers' = timers, pushed' = pushed, mailbox' \in Seq(Nat),
           \A i \in 1..Len(mailbox') : mailbox'[i] <= generation
    PROVE  BatcherInv'
    <1>1. BatcherTypeOK /\ ScheduledInv /\ NoneAhead /\ FullIsPrompt /\ InOrder
      BY DEF BatcherInv
    <1>2. generation \in Nat  BY <1>1 DEF BatcherTypeOK
    <1>3. /\ processed' = processed \o items /\ items' = <<>>
          /\ generation' = generation + 1 /\ scheduled' = FALSE
      BY <1>2 DEF Pop
    <1>4. processed' \in Seq(1..MaxItems)
      BY <1>1, <1>3 DEF BatcherTypeOK
    <1>5. BatcherTypeOK'
      <2>1. generation' \in Nat
        BY <1>2, <1>3
      <2>2. scheduled' \in BOOLEAN
        BY <1>3, Zenon
      <2>3. items' \in Seq(1..MaxItems)
        BY <1>3, EmptySeq, Zenon
      <2> QED  BY <1>1, <1>4, <2>1, <2>2, <2>3 DEF BatcherTypeOK
    <1>6. ScheduledInv'
      BY <1>3 DEF ScheduledInv
    <1>7. NoneAhead'
      BY <1>1, <1>2, <1>3 DEF NoneAhead, BatcherTypeOK
    <1>8. FullIsPrompt'
      BY <1>3, BatcherAssumption DEF FullIsPrompt
    <1>9. InOrder'
      <2>1. processed' \o <<>> = processed'
        BY <1>4
      <2> QED  BY <1>1, <1>3, <2>1 DEF InOrder
    <1> QED  BY <1>5, <1>6, <1>7, <1>8, <1>9 DEF BatcherInv

(***************************************************************************)
(* The actor runs a call.  One that is not of the current generation       *)
(* leaves everything as it is, and the current one still waits behind it.  *)
(***************************************************************************)
LEMMA ProcessPreserves ==
    ASSUME BatcherInv, Process
    PROVE  BatcherInv'
    <1> DEFINE gen == Head(mailbox)
    <1>1. BatcherTypeOK /\ ScheduledInv /\ NoneAhead /\ FullIsPrompt /\ InOrder
      BY DEF BatcherInv
    <1>2. /\ mailbox # <<>> /\ mailbox' = Tail(mailbox) /\ Pop(gen)
          /\ UNCHANGED <<timers, pushed>>
      BY DEF Process
    <1>3. mailbox \in Seq(Nat) /\ generation \in Nat
      BY <1>1 DEF BatcherTypeOK
    <1>4. /\ gen = mailbox[1] /\ gen \in Nat
          /\ mailbox' \in Seq(Nat)
          /\ \A i \in 1..Len(mailbox') : i + 1 \in 1..Len(mailbox) /\ mailbox'[i] = mailbox[i + 1]
          /\ \A i \in 1..Len(mailbox) :
                i = 1 \/ (i - 1 \in 1..Len(mailbox') /\ mailbox'[i - 1] = mailbox[i])
      BY <1>2, <1>3, CallTaken
    <1> HIDE DEF gen
    <1>5. \A i \in 1..Len(mailbox') : mailbox'[i] <= generation
      BY <1>1, <1>4 DEF NoneAhead
    <1>6. CASE gen >= generation
      BY <1>2, <1>4, <1>5, <1>6, BatchTaken
    <1>7. CASE ~(gen >= generation)
      <2>1. UNCHANGED <<items, generation, scheduled, processed>>
        BY <1>2, <1>3, <1>4, <1>7 DEF Pop
      <2>2. Waiting(generation) => Waiting(generation)'
        <3> SUFFICES ASSUME NEW i \in 1..Len(mailbox), mailbox[i] = generation
                     PROVE  Waiting(generation)'
          BY DEF Waiting
        <3>1. i # 1
          BY <1>3, <1>4, <1>7
        <3> QED  BY <1>4, <2>1, <3>1 DEF Waiting
      <2>3. BatcherTypeOK'
        BY <1>1, <1>2, <1>4, <2>1 DEF BatcherTypeOK
      <2>4. ScheduledInv'
        BY <1>1, <1>2, <2>1, <2>2 DEF ScheduledInv, Waiting
      <2>5. NoneAhead'
        BY <1>1, <1>2, <1>5, <2>1 DEF NoneAhead
      <2>6. FullIsPrompt'
        BY <1>1, <2>1, <2>2 DEF FullIsPrompt, Waiting
      <2>7. InOrder'
        BY <1>1, <1>2, <2>1 DEF InOrder
      <2> QED  BY <2>3, <2>4, <2>5, <2>6, <2>7 DEF BatcherInv
    <1> QED  BY <1>6, <1>7

(***************************************************************************)
(* The invariant holds throughout: a Batcher never strands an item, for    *)
(* any latency and capacity, however its calls are delayed and overtake    *)
(* each other.                                                             *)
(***************************************************************************)
THEOREM BatcherInvariant == BatcherSpec => []BatcherInv
    <1>1. BatcherInit => BatcherInv
      <2> SUFFICES ASSUME BatcherInit PROVE BatcherInv
        OBVIOUS
      <2>1. BatcherTypeOK
        <3>1. items \in Seq(1..MaxItems) /\ mailbox \in Seq(Nat)
              /\ processed \in Seq(1..MaxItems)
          BY EmptySeq, Zenon DEF BatcherInit
        <3>2. scheduled \in BOOLEAN
          BY Zenon DEF BatcherInit
        <3>3. generation \in Nat /\ timers \subseteq Nat /\ pushed \in 0..MaxItems
          BY BatcherAssumption DEF BatcherInit
        <3> QED  BY <3>1, <3>2, <3>3 DEF BatcherTypeOK
      <2>2. ScheduledInv /\ NoneAhead /\ FullIsPrompt
        BY BatcherAssumption DEF BatcherInit, ScheduledInv, NoneAhead, FullIsPrompt
      <2>3. InOrder
        BY DEF BatcherInit, InOrder
      <2> QED  BY <2>1, <2>2, <2>3 DEF BatcherInv
    <1>2. BatcherInv /\ [BatcherNext]_batcherVars => BatcherInv'
      <2> SUFFICES ASSUME BatcherInv, [BatcherNext]_batcherVars PROVE BatcherInv'
        OBVIOUS
      <2>1. CASE Push  BY <2>1, PushPreserves
      <2>2. ASSUME NEW gen \in timers, Fire(gen) PROVE BatcherInv'
        BY <2>2, FirePreserves
      <2>3. CASE Process  BY <2>3, ProcessPreserves
      <2>4. CASE ProcessAny
        <3>1. generation \in Nat /\ mailbox \in Seq(Nat)  BY DEF BatcherInv, BatcherTypeOK
        <3>2. Pop(generation) /\ UNCHANGED <<timers, mailbox, pushed>>
          BY <2>4 DEF ProcessAny
        <3>3. \A i \in 1..Len(mailbox') : mailbox'[i] <= generation
          BY <3>2 DEF BatcherInv, NoneAhead
        <3> QED  BY <3>1, <3>2, <3>3, BatchTaken
      <2>5. CASE UNCHANGED batcherVars
        BY <2>5 DEF batcherVars, BatcherInv, BatcherTypeOK, ScheduledInv, NoneAhead, FullIsPrompt,
                    InOrder, Waiting
      <2> QED  BY <2>1, <2>2, <2>3, <2>4, <2>5 DEF BatcherNext
    <1> QED  BY <1>1, <1>2, PTL DEF BatcherSpec

(***************************************************************************)
(* While there are items, a call that will take them is under way.         *)
(***************************************************************************)
THEOREM ItemsAreNotStranded == BatcherSpec => []NoItemStranded
    <1>1. BatcherInv => NoItemStranded
      BY DEF BatcherInv, ScheduledInv, NoItemStranded
    <1> QED  BY <1>1, BatcherInvariant, PTL

(***************************************************************************)
(* Items are handed over once each, in order; a full batch does not wait.  *)
(***************************************************************************)
THEOREM ItemsInOrder == BatcherSpec => [](InOrder /\ FullIsPrompt)
    <1>1. BatcherInv => InOrder /\ FullIsPrompt
      BY DEF BatcherInv
    <1> QED  BY <1>1, BatcherInvariant, PTL
==============================================================================
