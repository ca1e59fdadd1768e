---------------------------- MODULE Async_proofs ----------------------------
(***************************************************************************)
(* Proofs about Async, for any actors, threads, providers and functions,   *)
(* whatever the functions await: a method of an actor runs on its actor    *)
(* only and finds its value ready when it is resumed, and a function can   *)
(* miss its value only if it was provided on another thread.               *)
(***************************************************************************)
EXTENDS Async, SequenceTheorems, FiniteSetTheorems, TLAPS

(***************************************************************************)
(* A context has one place at most: a frame of a stack, an event in a      *)
(* mailbox, or, for a function that waits, the _observer of what it awaits.*)
(***************************************************************************)
OnStack(c) == \E th \in Threads : \E i \in 1..Len(stack[th]) : stack[th][i].ctx = c
InMailbox(f) == \E a \in Actors : \E i \in 1..Len(mailbox[a]) : mailbox[a][i].ctx = f

OneFrame ==
    \A th, u \in Threads : \A i \in 1..Len(stack[th]), j \in 1..Len(stack[u]) :
        stack[th][i].ctx = stack[u][j].ctx => th = u /\ i = j

OneEvent ==
    \A a, b \in Actors : \A i \in 1..Len(mailbox[a]), j \in 1..Len(mailbox[b]) :
        mailbox[a][i].ctx = mailbox[b][j].ctx => a = b /\ i = j

FrameOrEvent == \A f \in Functions : ~(OnStack(f) /\ InMailbox(f))

Observes ==
    \A c \in Contexts : LET f == observer[c] IN
        f # None => /\ calling[f] = c /\ f \in started /\ pos[f] < Len(Calls[f])
                    /\ ~OnStack(f) /\ ~InMailbox(f) /\ ~ready[f]

(***************************************************************************)
(* What is known of a context from where it is.  Below its innermost frame *)
(* a thread is in functions that have just called another.                 *)
(***************************************************************************)
CheckBelow ==
    \A th \in Threads : \A i \in 1..Len(stack[th]) :
        i < Len(stack[th]) => stack[th][i].at = "check"

FrameOK(th, fr) ==
    /\ fr.ctx \in Functions => fr.ctx \in started
    /\ ready[fr.ctx] <=> fr.at = "notify"
    /\ fr.at \in {"check", "wait", "resume"} => pos[fr.ctx] < Len(Calls[fr.ctx])
    /\ fr.at = "wait" => /\ calling[fr.ctx] \in Contexts
                         /\ ready[calling[fr.ctx]] => setBy[calling[fr.ctx]] # th
    /\ fr.at = "resume" => calling[fr.ctx] \in Contexts /\ ready[calling[fr.ctx]]
    /\ fr.ctx \in Functions /\ ActorOf[fr.ctx] # None => th = ActorOf[fr.ctx]

FramesOK == \A th \in Threads : \A i \in 1..Len(stack[th]) : FrameOK(th, stack[th][i])

EventOK(a, ev) ==
    /\ ev.ctx \in started
    /\ ~ready[ev.ctx]
    /\ ev.at = "resume" => /\ pos[ev.ctx] < Len(Calls[ev.ctx])
                           /\ calling[ev.ctx] \in Contexts /\ ready[calling[ev.ctx]]
    /\ ActorOf[ev.ctx] # None => a = ActorOf[ev.ctx]

EventsOK == \A a \in Actors : \A i \in 1..Len(mailbox[a]) : EventOK(a, mailbox[a][i])

NotStarted == \A f \in Functions \ started : ~ready[f]

(***************************************************************************)
(* A function that waits for a value knows its actor; if the value has     *)
(* come, whoever provided it will still look at _observer, or was another  *)
(* thread.                                                                 *)
(***************************************************************************)
WaitsOnItsActor ==
    \A c \in Contexts : LET f == observer[c] IN
        f # None /\ ActorOf[f] # None => waitingActor[f] = ActorOf[f]

MissedAcrossThreads ==
    \A c \in Contexts :
        observer[c] # None /\ ready[c] => OnStack(c) \/ waitedOn[observer[c]] # setBy[c]

AsyncInv ==
    /\ TypeOK
    /\ OneFrame /\ OneEvent /\ FrameOrEvent
    /\ CheckBelow /\ FramesOK /\ EventsOK
    /\ Observes /\ NotStarted
    /\ WaitsOnItsActor /\ MissedAcrossThreads

-----------------------------------------------------------------------------
(***************************************************************************)
(* A function's place in its body, and the value it calls there.           *)
(***************************************************************************)
LEMMA CalleeType ==
    ASSUME TypeOK, NEW f \in Functions, pos[f] < Len(Calls[f])
    PROVE  Callee(f) \in Contexts /\ pos[f] + 1 \in Nat /\ pos[f] + 1 <= Len(Calls[f])
    <1>1. Calls[f] \in Seq(Contexts) /\ Len(Calls[f]) \in Nat /\ pos[f] \in Nat
      BY AsyncAssumption DEF TypeOK
    <1>2. pos[f] + 1 \in 1..Len(Calls[f])
      BY <1>1
    <1> QED  BY <1>1, <1>2, ElementOfSeq DEF Callee

(***************************************************************************)
(* What a thread leaves of its stack when it goes on: nothing, if it was   *)
(* idle, and otherwise all but its innermost frame.                        *)
(***************************************************************************)
Kept(th) == IF Idle(th) THEN 0 ELSE Len(stack[th]) - 1
Left(th, c) == ~Idle(th) /\ Top(th).ctx = c

(***************************************************************************)
(* The innermost frame is the one behind those that are kept.              *)
(***************************************************************************)
LEMMA KeptFrames ==
    ASSUME TypeOK, NEW th \in Threads
    PROVE  /\ Kept(th) \in Nat /\ Kept(th) <= Len(stack[th]) /\ Len(stack[th]) \in Nat
           /\ ~Idle(th) => /\ Len(stack[th]) = Kept(th) + 1
                           /\ Top(th) = stack[th][Kept(th) + 1] /\ Top(th) \in Frames
    <1>1. stack[th] \in Seq(Frames) /\ Len(stack[th]) \in Nat
      BY DEF TypeOK
    <1>2. CASE Idle(th)
      BY <1>1, <1>2 DEF Kept
    <1>3. CASE ~Idle(th)
      <2>1. Len(stack[th]) >= 1
        BY <1>1, <1>3, EmptySeq DEF Idle
      <2>2. Len(stack[th]) \in 1..Len(stack[th])
        BY <1>1, <2>1
      <2>3. stack[th][Len(stack[th])] \in Frames
        BY <1>1, <2>2, ElementOfSeq
      <2> QED  BY <1>1, <1>3, <2>1, <2>3 DEF Kept, Top
    <1> QED  BY <1>2, <1>3

(***************************************************************************)
(* The elements of two sequences put together.                             *)
(***************************************************************************)
LEMMA Joined ==
    ASSUME NEW S, NEW s \in Seq(S), NEW t \in Seq(S)
    PROVE  /\ s \o t \in Seq(S) /\ Len(s \o t) = Len(s) + Len(t)
           /\ \A i \in 1..Len(s) : (s \o t)[i] = s[i]
           /\ \A j \in 1..Len(t) : (s \o t)[Len(s) + j] = t[j]
    BY ConcatProperties

(***************************************************************************)
(* The stacks after a thread has gone on with new innermost frames.        *)
(***************************************************************************)
LEMMA KeptStack ==
    ASSUME TypeOK, NEW th \in Threads, NEW new \in Seq(Frames),
           \/ Idle(th) /\ stack' = [stack EXCEPT ![th] = new]
           \/ ~Idle(th) /\ Goes(th, new)
    PROVE  /\ stack' \in [Threads -> Seq(Frames)]
           /\ Len(stack'[th]) = Kept(th) + Len(new)
           /\ \A i \in 1..Kept(th) : stack'[th][i] = stack[th][i]
           /\ \A j \in 1..Len(new) : stack'[th][Kept(th) + j] = new[j]
           /\ \A u \in Threads : u # th => stack'[u] = stack[u]
    <1> USE DEF TypeOK
    <1>1. stack[th] \in Seq(Frames) /\ Len(stack[th]) \in Nat /\ Len(new) \in Nat
      OBVIOUS
    <1>2. CASE Idle(th)
      <2>1. stack' = [stack EXCEPT ![th] = new] /\ Kept(th) = 0
        BY <1>2 DEF Kept
      <2> QED  BY <1>1, <2>1
    <1>3. CASE ~Idle(th)
      <2> DEFINE k == Len(stack[th]) - 1
      <2>1. stack' = [stack EXCEPT ![th] = Callers(th) \o new] /\ Kept(th) = k
        BY <1>3 DEF Goes, Kept
      <2>2. k \in Nat /\ k <= Len(stack[th])
        BY <1>1, <1>3, EmptySeq DEF Idle
      <2>3. /\ Callers(th) \in Seq(Frames) /\ Len(Callers(th)) = k
            /\ \A i \in 1..k : Callers(th)[i] = stack[th][i]
        <3>1. \A i \in 1..k : stack[th][i] \in Frames
          BY <1>1, <2>2, ElementOfSeq
        <3>2. Callers(th) = SubSeq(stack[th], 1, k) /\ k <= Len(stack[th]) /\ 1 \in 1..k + 1
          BY <2>2 DEF Callers
        <3>3. /\ SubSeq(stack[th], 1, k) \in Seq(Frames)
              /\ Len(SubSeq(stack[th], 1, k)) = IF 1 <= k THEN k - 1 + 1 ELSE 0
              /\ \A i \in 1..k - 1 + 1 : SubSeq(stack[th], 1, k)[i] = stack[th][1 + i - 1]
          BY <1>1, <2>2, <3>1, SubSeqProperties
        <3> HIDE DEF k
        <3> QED  BY <2>2, <3>2, <3>3
      <2>4. stack'[th] = Callers(th) \o new
        BY <2>1
      <2>5. /\ stack'[th] \in Seq(Frames) /\ Len(stack'[th]) = k + Len(new)
            /\ \A i \in 1..k : stack'[th][i] = Callers(th)[i]
            /\ \A j \in 1..Len(new) : stack'[th][k + j] = new[j]
        <3> DEFINE s == Callers(th)
        <3>1. s \in Seq(Frames) /\ Len(s) = k
          BY <2>3
        <3> HIDE DEF s, k
        <3>2. s \o new \in Seq(Frames) /\ Len(s \o new) = Len(s) + Len(new)
          BY <3>1, Joined
        <3>3. \A i \in 1..Len(s) : (s \o new)[i] = s[i]
          BY <3>1, Joined
        <3>4. \A j \in 1..Len(new) : (s \o new)[Len(s) + j] = new[j]
          <4> SUFFICES ASSUME NEW j \in 1..Len(new) PROVE (s \o new)[Len(s) + j] = new[j]
            OBVIOUS
          <4> HIDE DEF TypeOK
          <4>1. s \in Seq(Frames)
            BY <3>1
          <4> QED  BY <4>1, Joined
        <3>5. stack'[th] = s \o new
          BY <2>4 DEF s
        <3> QED  BY <3>1, <3>2, <3>3, <3>4, <3>5, Zenon DEF s
      <2> QED  BY <2>1, <2>3, <2>5
    <1> QED  BY <1>2, <1>3

(***************************************************************************)
(* When a thread goes on, its new frames take the place of the innermost   *)
(* one.  If each is of the context it leaves, or of one that had no frame, *)
(* no context has two.                                                     *)
(***************************************************************************)
GoesOn(th, new) ==
    /\ \/ Idle(th) /\ stack' = [stack EXCEPT ![th] = new]
       \/ ~Idle(th) /\ Goes(th, new)
    /\ \A j \in 1..Len(new) : Left(th, new[j].ctx) \/ ~OnStack(new[j].ctx)
    /\ \A i, j \in 1..Len(new) : new[i].ctx = new[j].ctx => i = j

Carried(th, u, i) ==
    /\ i \in 1..Len(stack[u]) /\ stack'[u][i] = stack[u][i] /\ ~Left(th, stack[u][i].ctx)
    /\ IF u = th THEN i < Len(stack[th]) ELSE Len(stack'[u]) = Len(stack[u])

\* The frames after such a step: carried over, or new.
LEMMA FramesAfter ==
    ASSUME TypeOK, OneFrame, NEW th \in Threads, NEW new \in Seq(Frames), GoesOn(th, new)
    PROVE  /\ stack' \in [Threads -> Seq(Frames)]
           /\ Len(stack'[th]) = Kept(th) + Len(new)
           /\ \A u \in Threads : \A i \in 1..Len(stack'[u]) :
                 \/ Carried(th, u, i)
                 \/ u = th /\ \E j \in 1..Len(new) : stack'[u][i] = new[j] /\ i = Kept(th) + j
           /\ \A c : OnStack(c)' <=> \/ \E j \in 1..Len(new) : new[j].ctx = c
                                     \/ OnStack(c) /\ ~Left(th, c)
           /\ OneFrame'
    <1>1. /\ Kept(th) \in Nat /\ Kept(th) <= Len(stack[th]) /\ Len(stack[th]) \in Nat
          /\ ~Idle(th) => Len(stack[th]) = Kept(th) + 1 /\ Top(th) = stack[th][Kept(th) + 1]
          /\ Len(new) \in Nat
      BY KeptFrames
    <1>2. /\ stack' \in [Threads -> Seq(Frames)]
          /\ Len(stack'[th]) = Kept(th) + Len(new)
          /\ \A i \in 1..Kept(th) : stack'[th][i] = stack[th][i]
          /\ \A j \in 1..Len(new) : stack'[th][Kept(th) + j] = new[j]
          /\ \A u \in Threads : u # th => stack'[u] = stack[u]
      BY KeptStack DEF GoesOn
    <1>3. Idle(th) => Len(stack[th]) = 0
      BY DEF Idle
    <1>4. \A u \in Threads : Len(stack[u]) \in Nat
      BY DEF TypeOK
    <1>5. ASSUME NEW u \in Threads, NEW i \in 1..Len(stack[u]), u = th => i <= Kept(th)
          PROVE  ~Left(th, stack[u][i].ctx)
      <2> SUFFICES ASSUME ~Idle(th), Top(th).ctx = stack[u][i].ctx PROVE FALSE
        BY DEF Left
      <2>1. Kept(th) + 1 \in 1..Len(stack[th]) /\ stack[th][Kept(th) + 1].ctx = stack[u][i].ctx
        BY <1>1
      <2>2. u = th /\ i = Kept(th) + 1
        BY <2>1 DEF OneFrame
      <2> QED  BY <1>1, <1>5, <2>2
    <1>6. ASSUME NEW u \in Threads, NEW i \in 1..Len(stack'[u])
          PROVE  \/ Carried(th, u, i)
                 \/ u = th /\ \E j \in 1..Len(new) : stack'[u][i] = new[j] /\ i = Kept(th) + j
      <2>1. CASE u # th
        BY <1>2, <1>5, <2>1 DEF Carried
      <2>2. CASE u = th /\ i <= Kept(th)
        <3>1. i \in 1..Kept(th) /\ i \in 1..Len(stack[u]) /\ i < Len(stack[th])
          BY <1>1, <1>3, <1>4, <2>2
        <3> QED  BY <1>2, <1>5, <2>2, <3>1 DEF Carried
      <2>3. CASE u = th /\ ~(i <= Kept(th))
        <3>1. i - Kept(th) \in 1..Len(new) /\ i = Kept(th) + (i - Kept(th))
          BY <1>1, <1>2, <2>3
        <3> QED  BY <1>2, <2>3, <3>1
      <2> QED  BY <2>1, <2>2, <2>3
    <1>7. ASSUME NEW c, OnStack(c), ~Left(th, c) PROVE OnStack(c)'
      <2>1. PICK u \in Threads : \E i \in 1..Len(stack[u]) : stack[u][i].ctx = c
        BY <1>7 DEF OnStack
      <2>2. PICK i \in 1..Len(stack[u]) : stack[u][i].ctx = c
        BY <2>1
      <2>3. CASE u # th
        BY <1>2, <2>2, <2>3 DEF OnStack
      <2>4. CASE u = th
        <3>1. ~Idle(th)
          BY <1>3, <2>2, <2>4
        <3>2. i # Kept(th) + 1
          BY <1>1, <1>7, <2>2, <2>4, <3>1 DEF Left
        <3>3. i \in 1..Kept(th) /\ i \in 1..Len(stack'[th])
          BY <1>1, <1>2, <2>2, <2>4, <3>1, <3>2
        <3> QED  BY <1>2, <2>2, <2>4, <3>3 DEF OnStack
      <2> QED  BY <2>3, <2>4
    <1>8. ASSUME NEW c PROVE OnStack(c)' <=> \/ \E j \in 1..Len(new) : new[j].ctx = c
                                             \/ OnStack(c) /\ ~Left(th, c)
      <2>1. ASSUME NEW j \in 1..Len(new), new[j].ctx = c PROVE OnStack(c)'
        <3>1. Kept(th) + j \in 1..Len(stack'[th]) /\ stack'[th][Kept(th) + j].ctx = c
          BY <1>1, <1>2, <2>1
        <3> QED  BY <3>1 DEF OnStack
      <2>2. ASSUME OnStack(c)' PROVE \/ \E j \in 1..Len(new) : new[j].ctx = c
                                     \/ OnStack(c) /\ ~Left(th, c)
        <3>1. PICK u \in Threads : \E i \in 1..Len(stack'[u]) : stack'[u][i].ctx = c
          BY <2>2 DEF OnStack
        <3>2. PICK i \in 1..Len(stack'[u]) : stack'[u][i].ctx = c
          BY <3>1
        <3> QED  BY <1>6, <3>2 DEF Carried, OnStack
      <2> QED  BY <1>7, <2>1, <2>2
    <1>9. OneFrame'
      <2> SUFFICES ASSUME NEW u \in Threads, NEW v \in Threads,
                          NEW i \in 1..Len(stack'[u]), NEW j \in 1..Len(stack'[v]),
                          stack'[u][i].ctx = stack'[v][j].ctx
                   PROVE  u = v /\ i = j
        BY DEF OneFrame
      <2>1. CASE Carried(th, u, i) /\ Carried(th, v, j)
        BY <2>1 DEF Carried, OneFrame
      <2>2. ASSUME NEW w \in Threads, NEW m, Carried(th, w, m), NEW n \in 1..Len(new),
                   stack'[w][m].ctx = new[n].ctx
            PROVE  FALSE
        BY <2>2 DEF Carried, GoesOn, OnStack
      <2>3. CASE ~Carried(th, u, i) /\ ~Carried(th, v, j)
        BY <1>6, <2>3 DEF GoesOn
      <2> QED  BY <1>6, <2>1, <2>2, <2>3
    <1> QED  BY <1>2, <1>6, <1>8, <1>9

(***************************************************************************)
(* An event pushed into a mailbox, of a context that had none.             *)
(***************************************************************************)
LEMMA EventPushed ==
    ASSUME TypeOK, OneEvent, NEW a \in Actors, NEW ev \in Events, ~InMailbox(ev.ctx),
           mailbox' = [mailbox EXCEPT ![a] = Append(@, ev)]
    PROVE  /\ mailbox' \in [Actors -> Seq(Events)]
           /\ \A b \in Actors : \A i \in 1..Len(mailbox'[b]) :
                 \/ i \in 1..Len(mailbox[b]) /\ mailbox'[b][i] = mailbox[b][i]
                 \/ b = a /\ mailbox'[b][i] = ev
           /\ \A f : InMailbox(f)' <=> InMailbox(f) \/ f = ev.ctx
           /\ OneEvent'
    <1>1. \A b \in Actors : mailbox[b] \in Seq(Events) /\ Len(mailbox[b]) \in Nat
      BY DEF TypeOK
    <1> DEFINE n == Len(mailbox[a])
    <1>2. /\ mailbox'[a] \in Seq(Events) /\ Len(mailbox'[a]) = n + 1
          /\ mailbox'[a][n + 1] = ev /\ \A i \in 1..n : mailbox'[a][i] = mailbox[a][i]
      BY <1>1, AppendProperties DEF TypeOK
    <1>3. /\ mailbox' \in [Actors -> Seq(Events)]
          /\ \A b \in Actors : b # a => mailbox'[b] = mailbox[b]
      BY <1>1, <1>2 DEF TypeOK
    <1>4. ASSUME NEW b \in Actors, NEW i \in 1..Len(mailbox'[b])
          PROVE  \/ i \in 1..Len(mailbox[b]) /\ mailbox'[b][i] = mailbox[b][i]
                 \/ b = a /\ i = n + 1 /\ mailbox'[b][i] = ev
      BY <1>1, <1>2, <1>3
    <1>5. ASSUME NEW f PROVE InMailbox(f)' <=> InMailbox(f) \/ f = ev.ctx
      <2>1. InMailbox(f)' => InMailbox(f) \/ f = ev.ctx
        BY <1>4 DEF InMailbox
      <2>2. InMailbox(f) => InMailbox(f)'
        BY <1>1, <1>2, <1>3 DEF InMailbox
      <2>3. InMailbox(ev.ctx)'
        <3>1. n + 1 \in 1..Len(mailbox'[a]) /\ mailbox'[a][n + 1].ctx = ev.ctx
          BY <1>1, <1>2
        <3> QED  BY <3>1 DEF InMailbox
      <2> QED  BY <2>1, <2>2, <2>3
    <1>6. OneEvent'
      BY <1>4 DEF OneEvent, InMailbox
    <1> QED  BY <1>3, <1>4, <1>5, <1>6

(***************************************************************************)
(* The next event taken out of a mailbox.                                  *)
(***************************************************************************)
LEMMA EventPopped ==
    ASSUME TypeOK, OneEvent, NEW a \in Actors, mailbox[a] # <<>>,
           mailbox' = [mailbox EXCEPT ![a] = Tail(@)]
    PROVE  /\ mailbox' \in [Actors -> Seq(Events)]
           /\ 1 \in 1..Len(mailbox[a]) /\ Head(mailbox[a]) = mailbox[a][1]
           /\ Head(mailbox[a]) \in Events
           /\ \A b \in Actors : \A i \in 1..Len(mailbox'[b]) :
                 \E k \in 1..Len(mailbox[b]) : mailbox'[b][i] = mailbox[b][k]
           /\ \A f : InMailbox(f)' <=> InMailbox(f) /\ f # Head(mailbox[a]).ctx
           /\ OneEvent'
    <1>1. \A b \in Actors : mailbox[b] \in Seq(Events) /\ Len(mailbox[b]) \in Nat
      BY DEF TypeOK
    <1> DEFINE n == Len(mailbox[a])
    <1>2. /\ n >= 1 /\ Head(mailbox[a]) = mailbox[a][1] /\ Head(mailbox[a]) \in Events
          /\ mailbox'[a] \in Seq(Events) /\ Len(mailbox'[a]) = n - 1
          /\ \A i \in 1..n - 1 : mailbox'[a][i] = mailbox[a][i + 1]
      <2>1. n >= 1
        BY <1>1, EmptySeq
      <2>2. mailbox'[a] = Tail(mailbox[a])
        BY DEF TypeOK
      <2>3. Head(mailbox[a]) = mailbox[a][1] /\ mailbox[a][1] \in Events
        BY <1>1, <2>1, HeadTailProperties, ElementOfSeq
      <2>4. /\ Tail(mailbox[a]) \in Seq(Events) /\ Len(Tail(mailbox[a])) = n - 1
            /\ \A i \in 1..n - 1 : Tail(mailbox[a])[i] = mailbox[a][i + 1]
        BY <1>1, <2>1, HeadTailProperties
      <2> QED  BY <2>1, <2>2, <2>3, <2>4
    <1>3. /\ mailbox' \in [Actors -> Seq(Events)]
          /\ \A b \in Actors : b # a => mailbox'[b] = mailbox[b]
      BY <1>1, <1>2 DEF TypeOK
    <1> DEFINE old(b, i) == IF b = a THEN i + 1 ELSE i
    <1>4. ASSUME NEW b \in Actors, NEW i \in 1..Len(mailbox'[b])
          PROVE  /\ old(b, i) \in 1..Len(mailbox[b])
                 /\ mailbox'[b][i] = mailbox[b][old(b, i)]
                 /\ b = a => old(b, i) # 1
      BY <1>1, <1>2, <1>3
    <1>5. ASSUME NEW f PROVE InMailbox(f)' <=> InMailbox(f) /\ f # Head(mailbox[a]).ctx
      <2>1. InMailbox(f)' => InMailbox(f)
        BY <1>4 DEF InMailbox
      <2>2. ASSUME InMailbox(f)', f = Head(mailbox[a]).ctx PROVE FALSE
        <3>1. PICK b \in Actors : \E i \in 1..Len(mailbox'[b]) : mailbox'[b][i].ctx = f
          BY <2>2 DEF InMailbox
        <3>2. PICK i \in 1..Len(mailbox'[b]) : mailbox'[b][i].ctx = f
          BY <3>1
        <3>3. 1 \in 1..Len(mailbox[a]) /\ mailbox[a][1].ctx = mailbox[b][old(b, i)].ctx
          BY <1>1, <1>2, <1>4, <2>2, <3>2
        <3>4. b = a /\ old(b, i) = 1
          BY <1>4, <3>3 DEF OneEvent
        <3> QED  BY <1>4, <3>4
      <2>3. ASSUME InMailbox(f), f # Head(mailbox[a]).ctx PROVE InMailbox(f)'
        <3>1. PICK b \in Actors : \E i \in 1..Len(mailbox[b]) : mailbox[b][i].ctx = f
          BY <2>3 DEF InMailbox
        <3>2. PICK i \in 1..Len(mailbox[b]) : mailbox[b][i].ctx = f
          BY <3>1
        <3>3. CASE b # a
          BY <1>3, <3>2, <3>3 DEF InMailbox
        <3>4. CASE b = a
          <4>1. i # 1
            BY <1>2, <2>3, <3>2, <3>4
          <4>2. i - 1 \in 1..Len(mailbox'[a]) /\ mailbox'[a][i - 1] = mailbox[a][i]
            BY <1>1, <1>2, <3>2, <3>4, <4>1
          <4> QED  BY <3>2, <3>4, <4>2 DEF InMailbox
        <3> QED  BY <3>3, <3>4
      <2> QED  BY <2>1, <2>2, <2>3
    <1>6. OneEvent'
      <2> SUFFICES ASSUME NEW b \in Actors, NEW c \in Actors,
                          NEW i \in 1..Len(mailbox'[b]), NEW j \in 1..Len(mailbox'[c]),
                          mailbox'[b][i].ctx = mailbox'[c][j].ctx
                   PROVE  b = c /\ i = j
        BY DEF OneEvent
      <2>1. /\ old(b, i) \in 1..Len(mailbox[b]) /\ mailbox'[b][i] = mailbox[b][old(b, i)]
            /\ old(c, j) \in 1..Len(mailbox[c]) /\ mailbox'[c][j] = mailbox[c][old(c, j)]
        BY <1>4
      <2>2. b = c /\ old(b, i) = old(c, j)
        <3> HIDE DEF old
        <3> QED  BY <2>1 DEF OneEvent
      <2>3. i \in Nat /\ j \in Nat
        BY <1>1, <1>2, <1>3
      <2> QED  BY <2>2, <2>3
    <1>7. 1 \in 1..Len(mailbox[a])
      BY <1>1, <1>2
    <1> HIDE DEF old
    <1> QED  BY <1>2, <1>3, <1>4, <1>5, <1>6, <1>7

(***************************************************************************)
(* The frames after a step: those that are carried over stay as they       *)
(* should be if the step does to them what it may, and the new ones are.   *)
(***************************************************************************)
LEMMA FramesKept ==
    ASSUME AsyncInv, NEW th \in Threads, NEW new \in Seq(Frames), GoesOn(th, new),
           \A j \in 1..Len(new) : /\ FrameOK(th, new[j])'
                                  /\ j < Len(new) => new[j].at = "check",
           \A u \in Threads : \A fr \in Frames :
               FrameOK(u, fr) /\ ~Left(th, fr.ctx) /\ (u = th => fr.at = "check") => FrameOK(u, fr)'
    PROVE  CheckBelow' /\ FramesOK'
    <1>1. /\ stack' \in [Threads -> Seq(Frames)]
          /\ Len(stack'[th]) = Kept(th) + Len(new)
          /\ \A u \in Threads : \A i \in 1..Len(stack'[u]) :
                \/ Carried(th, u, i)
                \/ u = th /\ \E j \in 1..Len(new) : stack'[u][i] = new[j] /\ i = Kept(th) + j
      BY FramesAfter DEF AsyncInv
    <1>2. \A u \in Threads : Len(stack[u]) \in Nat /\ \A i \in 1..Len(stack[u]) : stack[u][i] \in Frames
      BY ElementOfSeq DEF AsyncInv, TypeOK
    <1>3. Kept(th) \in Nat /\ Len(new) \in Nat
      BY KeptFrames DEF AsyncInv
    <1>4. ASSUME NEW u \in Threads, NEW i \in 1..Len(stack'[u]), Carried(th, u, i),
                 NEW x, x = stack'[u][i]
          PROVE  (i < Len(stack'[u]) => x.at = "check") /\ FrameOK(u, x)'
      <2>1. x \in Frames /\ FrameOK(u, x) /\ ~Left(th, x.ctx) /\ x = stack[u][i]
        BY <1>2, <1>4 DEF Carried, AsyncInv, FramesOK
      <2>2. i < Len(stack'[u]) \/ u = th => x.at = "check"
        BY <1>2, <1>4, <2>1 DEF Carried, AsyncInv, CheckBelow
      <2> QED  BY <2>1, <2>2
    <1>5. ASSUME NEW i \in 1..Len(stack'[th]), NEW j \in 1..Len(new),
                 stack'[th][i] = new[j], i = Kept(th) + j
          PROVE  (i < Len(stack'[th]) => new[j].at = "check") /\ FrameOK(th, new[j])'
      BY <1>1, <1>3, <1>5
    <1>6. CheckBelow'
      <2> SUFFICES ASSUME NEW u \in Threads, NEW i \in 1..Len(stack'[u]), i < Len(stack'[u])
                   PROVE  stack'[u][i].at = "check"
        BY DEF CheckBelow
      <2> QED  BY <1>1, <1>4, <1>5
    <1>7. FramesOK'
      <2> SUFFICES ASSUME NEW u \in Threads, NEW i \in 1..Len(stack'[u])
                   PROVE  FrameOK(u, stack[u][i])'
        BY DEF FramesOK
      <2>1. PICK x : x = stack'[u][i]
        OBVIOUS
      <2>2. FrameOK(u, x)'
        BY <1>1, <1>4, <1>5, <2>1
      <2> QED  BY <2>1, <2>2 DEF FrameOK
    <1> QED  BY <1>6, <1>7

(***************************************************************************)
(* A thread whose innermost frame is replaced by another one, or that      *)
(* enters its first one ...                                                *)
(***************************************************************************)
OthersKept(th) ==
    \A u \in Threads : \A x \in Frames :
        FrameOK(u, x) /\ ~Left(th, x.ctx) /\ (u = th => x.at = "check") => FrameOK(u, x)'

\* With one new frame the invariants of the stacks are kept.
LEMMA OneNewFrame ==
    ASSUME AsyncInv, NEW th \in Threads, NEW fr \in Frames,
           \/ Idle(th) /\ stack' = [stack EXCEPT ![th] = <<fr>>]
           \/ ~Idle(th) /\ Goes(th, <<fr>>),
           Left(th, fr.ctx) \/ ~OnStack(fr.ctx), FrameOK(th, fr)', OthersKept(th)
    PROVE  /\ stack' \in [Threads -> Seq(Frames)] /\ OneFrame' /\ CheckBelow' /\ FramesOK'
           /\ \A c : OnStack(c)' <=> c = fr.ctx \/ (OnStack(c) /\ ~Left(th, c))
    <1>1. PICK new : new = <<fr>>
      OBVIOUS
    <1>2. new \in Seq(Frames) /\ Len(new) = 1 /\ new[1] = fr
      BY <1>1
    <1>3. \A j \in 1..Len(new) : j = 1 /\ new[j] = fr
      BY <1>2
    <1>4. GoesOn(th, new)
      BY <1>1, <1>3 DEF GoesOn
    <1>5. \A j \in 1..Len(new) : FrameOK(th, new[j])' /\ (j < Len(new) => new[j].at = "check")
      <2> TAKE j \in 1..Len(new)
      <2>1. new[j] = fr /\ ~(j < Len(new))
        BY <1>2, <1>3
      <2> QED  BY <2>1
    <1>6. CheckBelow' /\ FramesOK'
      BY <1>2, <1>4, <1>5, FramesKept DEF OthersKept
    <1>7. /\ stack' \in [Threads -> Seq(Frames)] /\ OneFrame'
          /\ \A c : OnStack(c)' <=> \/ \E j \in 1..Len(new) : new[j].ctx = c
                                    \/ OnStack(c) /\ ~Left(th, c)
      BY <1>2, <1>4, FramesAfter DEF AsyncInv
    <1>8. 1 \in 1..Len(new)
      BY <1>2
    <1> QED  BY <1>2, <1>3, <1>6, <1>7, <1>8, Zenon

(***************************************************************************)
(* ... or that returns to the frame below.                                 *)
(***************************************************************************)
LEMMA NoNewFrame ==
    ASSUME AsyncInv, NEW th \in Threads, ~Idle(th), Goes(th, <<>>), OthersKept(th)
    PROVE  /\ stack' \in [Threads -> Seq(Frames)] /\ OneFrame' /\ CheckBelow' /\ FramesOK'
           /\ \A c : OnStack(c)' <=> OnStack(c) /\ ~Left(th, c)
    <1>1. PICK new : new = <<>>
      OBVIOUS
    <1>2. new \in Seq(Frames) /\ \A j \in 1..Len(new) : FALSE
      BY <1>1
    <1>3. GoesOn(th, new)
      BY <1>1, <1>2 DEF GoesOn
    <1>4. CheckBelow' /\ FramesOK'
      BY <1>2, <1>3, FramesKept DEF OthersKept
    <1> QED  BY <1>2, <1>3, <1>4, FramesAfter DEF AsyncInv

(***************************************************************************)
(* A thread's innermost frame, and what is known of its context.           *)
(***************************************************************************)
LEMMA TopFrame ==
    ASSUME AsyncInv, NEW th \in Threads, NEW where, AtTop(th, where)
    PROVE  /\ Top(th) \in Frames /\ FrameOK(th, Top(th)) /\ Top(th).at = where
           /\ ~Idle(th) /\ \A c : Left(th, c) <=> c = Top(th).ctx
           /\ Top(th).ctx \in Contexts
           /\ where \notin {"result", "notify"} => Top(th).ctx \in Functions
           /\ OnStack(Top(th).ctx) /\ ~InMailbox(Top(th).ctx)
           /\ \A c \in Contexts : observer[c] # Top(th).ctx
    <1>1. ~Idle(th) /\ Top(th).at = where /\ Top(th) \in Frames
      BY KeptFrames DEF AtTop, AsyncInv
    <1>2. Kept(th) + 1 \in 1..Len(stack[th]) /\ Top(th) = stack[th][Kept(th) + 1]
      BY <1>1, KeptFrames DEF AsyncInv
    <1>3. FrameOK(th, Top(th)) /\ OnStack(Top(th).ctx)
      BY <1>2 DEF AsyncInv, FramesOK, OnStack
    <1>4. /\ Top(th).ctx \in Contexts
          /\ where \notin {"result", "notify"} => Top(th).ctx \in Functions
      BY <1>1 DEF Frames, Contexts
    <1>5. ~InMailbox(Top(th).ctx)
      <2>1. CASE Top(th).ctx \in Functions
        BY <1>3, <2>1 DEF AsyncInv, FrameOrEvent
      <2>2. CASE Top(th).ctx \notin Functions
        <3>1. \A a \in Actors : \A i \in 1..Len(mailbox[a]) : mailbox[a][i] \in Events
          BY ElementOfSeq DEF AsyncInv, TypeOK
        <3> QED  BY <2>2, <3>1 DEF InMailbox, Events
      <2> QED  BY <2>1, <2>2
    <1>6. \A c \in Contexts : observer[c] # Top(th).ctx
      BY <1>3, <1>4, AsyncAssumption DEF AsyncInv, Observes
    <1> QED  BY <1>1, <1>3, <1>4, <1>5, <1>6 DEF Left

(***************************************************************************)
(* The events in the mailboxes stay as they should be: with a new one ...  *)
(***************************************************************************)
QueuedKept ==
    \A a \in Actors : \A x \in Events : EventOK(a, x) /\ InMailbox(x.ctx) => EventOK(a, x)'

\* The invariants of the mailboxes are kept by one push of a function that was in none.
LEMMA OneNewEvent ==
    ASSUME AsyncInv, NEW a \in Actors, NEW ev \in Events, ~InMailbox(ev.ctx),
           mailbox' = [mailbox EXCEPT ![a] = Append(@, ev)],
           EventOK(a, ev)', QueuedKept
    PROVE  /\ mailbox' \in [Actors -> Seq(Events)] /\ OneEvent' /\ EventsOK'
           /\ \A f : InMailbox(f)' <=> InMailbox(f) \/ f = ev.ctx
    <1>1. /\ mailbox' \in [Actors -> Seq(Events)] /\ OneEvent'
          /\ \A b \in Actors : \A i \in 1..Len(mailbox'[b]) :
                \/ i \in 1..Len(mailbox[b]) /\ mailbox'[b][i] = mailbox[b][i]
                \/ b = a /\ mailbox'[b][i] = ev
          /\ \A f : InMailbox(f)' <=> InMailbox(f) \/ f = ev.ctx
      BY EventPushed DEF AsyncInv
    <1>2. ASSUME NEW b \in Actors, NEW i \in 1..Len(mailbox'[b]), NEW x, x = mailbox'[b][i]
          PROVE  EventOK(b, x)'
      <2>1. CASE i \in 1..Len(mailbox[b]) /\ mailbox'[b][i] = mailbox[b][i]
        <3>1. x \in Events /\ InMailbox(x.ctx) /\ EventOK(b, x)
          BY <1>2, <2>1, ElementOfSeq DEF AsyncInv, TypeOK, EventsOK, InMailbox
        <3> QED  BY <3>1 DEF QueuedKept
      <2>2. CASE b = a /\ mailbox'[b][i] = ev
        BY <1>2, <2>2
      <2> QED  BY <1>1, <2>1, <2>2
    <1>3. EventsOK'
      <2> SUFFICES ASSUME NEW b \in Actors, NEW i \in 1..Len(mailbox'[b])
                   PROVE  EventOK(b, mailbox[b][i])'
        BY DEF EventsOK
      <2>1. PICK x : x = mailbox'[b][i]
        OBVIOUS
      <2>2. EventOK(b, x)'
        BY <1>2, <2>1
      <2> QED  BY <2>1, <2>2 DEF EventOK
    <1> QED  BY <1>1, <1>3

(***************************************************************************)
(* ... and with none.                                                      *)
(***************************************************************************)
LEMMA SameEvents ==
    ASSUME AsyncInv, mailbox' = mailbox, QueuedKept
    PROVE  /\ mailbox' \in [Actors -> Seq(Events)] /\ OneEvent' /\ EventsOK'
           /\ \A f : InMailbox(f)' <=> InMailbox(f)
    <1>1. mailbox' \in [Actors -> Seq(Events)] /\ OneEvent' /\ \A f : InMailbox(f)' <=> InMailbox(f)
      BY DEF AsyncInv, TypeOK, OneEvent, InMailbox
    <1>2. ASSUME NEW b \in Actors, NEW i \in 1..Len(mailbox[b]), NEW x, x = mailbox[b][i]
          PROVE  EventOK(b, x)'
      <2>1. x \in Events /\ InMailbox(x.ctx) /\ EventOK(b, x)
        BY <1>2, ElementOfSeq DEF AsyncInv, TypeOK, EventsOK, InMailbox
      <2> QED  BY <2>1 DEF QueuedKept
    <1>3. EventsOK'
      <2> SUFFICES ASSUME NEW b \in Actors, NEW i \in 1..Len(mailbox[b])
                   PROVE  EventOK(b, mailbox[b][i])'
        BY DEF EventsOK
      <2>1. PICK x : x = mailbox[b][i]
        OBVIOUS
      <2> QED  BY <1>2, <2>1 DEF EventOK
    <1> QED  BY <1>1, <1>3
-----------------------------------------------------------------------------
(***************************************************************************)
(* The function that is called has no frame, no event and no value yet, so *)
(* that it may begin on the thread that calls it, or wait in a mailbox.    *)
(***************************************************************************)
LEMMA Fresh ==
    ASSUME AsyncInv, NEW f \in Functions, f \notin started
    PROVE  ~OnStack(f) /\ ~InMailbox(f) /\ ~ready[f] /\ \A c \in Contexts : observer[c] # f
    <1>1. ~OnStack(f)
      BY DEF AsyncInv, FramesOK, FrameOK, OnStack
    <1>2. ~InMailbox(f)
      BY DEF AsyncInv, EventsOK, EventOK, InMailbox
    <1>3. ~ready[f] /\ \A c \in Contexts : observer[c] # f
      BY AsyncAssumption DEF AsyncInv, NotStarted, Observes, Contexts
    <1> QED  BY <1>1, <1>2, <1>3

(***************************************************************************)
(* A thread calls an async function.                                       *)
(***************************************************************************)
LEMMA KeepsStart ==
    ASSUME AsyncInv, NEW th \in Threads, NEW f \in Functions, Start(th, f)
    PROVE  AsyncInv'
    <1>1. /\ Idle(th) /\ f \notin started /\ started' = started \union {f}
          /\ UNCHANGED <<ready, observer, calling, waitingActor, pos, setBy, waitedOn>>
      BY DEF Start
    <1>2. ~OnStack(f) /\ ~InMailbox(f) /\ ~ready[f] /\ \A c \in Contexts : observer[c] # f
      BY <1>1, Fresh
    <1>3. \A c : ~Left(th, c)
      BY <1>1 DEF Left
    <1>4. /\ \A u : \A x : FrameOK(u, x) => FrameOK(u, x)'
          /\ \A a : \A x : EventOK(a, x) => EventOK(a, x)'
      BY <1>1 DEF FrameOK, EventOK
    <1>5. In(f, "body") \in Frames /\ In(f, "body") \in Events /\ In(f, "body").ctx = f
      BY DEF In, Frames, Events, Places
    <1>6. CASE StartsInline(th, f)
      <2>1. stack' = [stack EXCEPT ![th] = <<In(f, "body")>>] /\ mailbox' = mailbox
        BY <1>6 DEF Start
      <2>2. FrameOK(th, In(f, "body"))'
        BY <1>1, <1>2, <1>6, AsyncAssumption DEF FrameOK, In, StartsInline, currentActor
      <2>3. /\ stack' \in [Threads -> Seq(Frames)] /\ OneFrame' /\ CheckBelow' /\ FramesOK'
            /\ \A c : OnStack(c)' <=> c = f \/ OnStack(c)
        BY <1>1, <1>2, <1>3, <1>4, <1>5, <2>1, <2>2, OneNewFrame DEF OthersKept
      <2>4. TypeOK' /\ OneEvent' /\ \A g : InMailbox(g)' <=> InMailbox(g)
        BY <1>1, <2>1, <2>3 DEF AsyncInv, TypeOK, OneEvent, InMailbox
      <2>5. FrameOrEvent'
        BY <1>2, <2>3, <2>4 DEF AsyncInv, FrameOrEvent
      <2>6. EventsOK'
        BY <1>1, <2>1 DEF AsyncInv, EventsOK, EventOK
      <2>7. Observes' /\ NotStarted' /\ WaitsOnItsActor' /\ MissedAcrossThreads'
        BY <1>1, <1>2, <2>3, <2>4 DEF AsyncInv, Observes, NotStarted, WaitsOnItsActor, MissedAcrossThreads
      <2> QED  BY <2>3, <2>4, <2>5, <2>6, <2>7 DEF AsyncInv
    <1>7. CASE ~StartsInline(th, f)
      <2>1. /\ mailbox' = [mailbox EXCEPT ![ActorOf[f]] = Append(@, In(f, "body"))]
            /\ stack' = stack
        BY <1>7 DEF Start
      <2>2. ActorOf[f] \in Actors
        BY <1>7, AsyncAssumption DEF StartsInline
      <2>3. /\ mailbox' \in [Actors -> Seq(Events)] /\ OneEvent' /\ EventsOK'
            /\ \A g : InMailbox(g)' <=> InMailbox(g) \/ g = f
        <3>1. PICK ev \in Events : ev = In(f, "body") /\ ev.ctx = f
          BY <1>5
        <3>2. EventOK(ActorOf[f], ev)'
          BY <1>1, <1>2, <3>1 DEF EventOK, In
        <3>3. mailbox' = [mailbox EXCEPT ![ActorOf[f]] = Append(@, ev)]
          BY <2>1, <3>1
        <3>4. QueuedKept
          BY <1>4 DEF QueuedKept
        <3> QED  BY <1>2, <2>2, <3>1, <3>2, <3>3, <3>4, OneNewEvent
      <2>4. /\ TypeOK' /\ OneFrame' /\ CheckBelow' /\ \A c : OnStack(c)' <=> OnStack(c)
        <3>1. TypeOK'
          BY <1>1, <2>1, <2>3 DEF AsyncInv, TypeOK
        <3>2. OneFrame' /\ CheckBelow' /\ \A c : OnStack(c)' <=> OnStack(c)
          BY <2>1 DEF AsyncInv, OneFrame, CheckBelow, OnStack
        <3> QED  BY <3>1, <3>2
      <2>5. FrameOrEvent'
        BY <1>2, <2>3, <2>4 DEF AsyncInv, FrameOrEvent
      <2>6. FramesOK'
        BY <1>1, <2>1 DEF AsyncInv, FramesOK, FrameOK
      <2>7. Observes' /\ NotStarted' /\ WaitsOnItsActor' /\ MissedAcrossThreads'
        BY <1>1, <1>2, <2>3, <2>4 DEF AsyncInv, Observes, NotStarted, WaitsOnItsActor, MissedAcrossThreads
      <2> QED  BY <2>3, <2>4, <2>5, <2>6, <2>7 DEF AsyncInv
    <1> QED  BY <1>6, <1>7

(***************************************************************************)
(* A thread sets the result of a provider.                                 *)
(***************************************************************************)
LEMMA KeepsSetResult ==
    ASSUME AsyncInv, NEW th \in Threads, NEW p \in Providers, SetResult(th, p)
    PROVE  AsyncInv'
    <1>1. /\ Idle(th) /\ ~ready[p] /\ stack' = [stack EXCEPT ![th] = <<In(p, "result")>>]
          /\ UNCHANGED <<ready, observer, calling, waitingActor, pos, started, mailbox, setBy, waitedOn>>
      BY DEF SetResult
    <1>2. ~OnStack(p)
      BY DEF SetResult, OnStack, AsyncInv, TypeOK
    <1>3. \A c : ~Left(th, c)
      BY <1>1 DEF Left
    <1>4. In(p, "result") \in Frames /\ In(p, "result").ctx = p /\ p \notin Functions
      BY AsyncAssumption DEF In, Frames, Places
    <1>5. FrameOK(th, In(p, "result"))' /\ \A u : \A x : FrameOK(u, x) => FrameOK(u, x)'
      BY <1>1, <1>4 DEF FrameOK, In
    <1>6. /\ stack' \in [Threads -> Seq(Frames)] /\ OneFrame' /\ CheckBelow' /\ FramesOK'
          /\ \A c : OnStack(c)' <=> c = p \/ OnStack(c)
      BY <1>1, <1>2, <1>3, <1>4, <1>5, OneNewFrame DEF OthersKept
    <1>7. TypeOK' /\ OneEvent' /\ EventsOK' /\ NotStarted' /\ WaitsOnItsActor'
      <2>1. TypeOK'
        BY <1>1, <1>6 DEF AsyncInv, TypeOK
      <2>2. OneEvent' /\ EventsOK' /\ NotStarted' /\ WaitsOnItsActor'
        BY <1>1 DEF AsyncInv, OneEvent, EventsOK, EventOK, NotStarted, WaitsOnItsActor
      <2> QED  BY <2>1, <2>2
    <1>8. \A g : InMailbox(g)' <=> InMailbox(g)
      BY <1>1 DEF InMailbox
    <1>9. FrameOrEvent' /\ Observes' /\ MissedAcrossThreads'
      BY <1>1, <1>4, <1>6, <1>8, AsyncAssumption
      DEF AsyncInv, TypeOK, FrameOrEvent, Observes, MissedAcrossThreads
    <1> QED  BY <1>6, <1>7, <1>9 DEF AsyncInv

(***************************************************************************)
(* The frames and the events of a function.                                *)
(***************************************************************************)
LEMMA NewFrame ==
    ASSUME NEW f \in Functions, NEW where \in Places
    PROVE  /\ In(f, where) \in Frames /\ In(f, where).ctx = f /\ In(f, where).at = where
           /\ where \in {"body", "resume"} => In(f, where) \in Events
    BY DEF In, Frames, Events

(***************************************************************************)
(* What is known of the function that a thread is in.                      *)
(***************************************************************************)
Inside(th, f, where) ==
    /\ f = Top(th).ctx /\ ~Idle(th) /\ \A c : Left(th, c) <=> c = f
    /\ OnStack(f) /\ ~InMailbox(f) /\ \A c \in Contexts : observer[c] # f
    /\ FrameOK(th, In(f, where))

\* A thread that is in a function has it nowhere else.
LEMMA InFunction ==
    ASSUME AsyncInv, NEW th \in Threads, NEW where \in {"body", "check", "wait", "resume"},
           AtTop(th, where)
    PROVE  \E f \in Functions : Inside(th, f, where)
    <1>1. /\ Top(th) \in Frames /\ FrameOK(th, Top(th)) /\ Top(th).at = where
          /\ ~Idle(th) /\ \A c : Left(th, c) <=> c = Top(th).ctx
          /\ Top(th).ctx \in Functions
          /\ OnStack(Top(th).ctx) /\ ~InMailbox(Top(th).ctx)
          /\ \A c \in Contexts : observer[c] # Top(th).ctx
      BY TopFrame
    <1>2. FrameOK(th, In(Top(th).ctx, where))
      BY <1>1 DEF FrameOK, In
    <1> QED  BY <1>1, <1>2 DEF Inside

(***************************************************************************)
(* The body of a function calls another.                                   *)
(***************************************************************************)
LEMMA KeepsBody ==
    ASSUME AsyncInv, NEW th \in Threads, Body(th)
    PROVE  AsyncInv'
    <1>1. PICK f \in Functions : Inside(th, f, "body")
      BY InFunction DEF Body
    <1>2. PICK c : c = Callee(f)
      OBVIOUS
    <1>3. /\ ~AtEnd(f) /\ started' = started \union ({c} \intersect Functions)
          /\ UNCHANGED <<ready, observer, calling, waitingActor, pos, setBy, waitedOn>>
      BY <1>1, <1>2 DEF Body, Inside
    <1>4. pos[f] < Len(Calls[f]) /\ c \in Contexts
      <2>1. pos[f] \in Nat /\ Len(Calls[f]) \in Nat /\ pos[f] <= Len(Calls[f]) /\ pos[f] # Len(Calls[f])
        BY <1>3, AsyncAssumption DEF AsyncInv, TypeOK, AtEnd
      <2>2. pos[f] < Len(Calls[f])
        BY <2>1
      <2> QED  BY <1>2, <2>2, CalleeType DEF AsyncInv
    <1>5. /\ \A u : \A x : FrameOK(u, x) => FrameOK(u, x)'
          /\ \A a : \A x : EventOK(a, x) => EventOK(a, x)'
      BY <1>3 DEF FrameOK, EventOK
    <1>6. OthersKept(th) /\ QueuedKept
      BY <1>5 DEF OthersKept, QueuedKept
    <1>7. f \in started /\ ~ready[f]
      BY <1>1 DEF Inside, FrameOK, In
    <1>8. PICK fr \in Frames : fr = In(f, "check") /\ fr.ctx = f /\ fr.at = "check"
      BY NewFrame DEF Places
    <1>9. FrameOK(th, fr)'
      BY <1>1, <1>3, <1>4, <1>8 DEF Inside, FrameOK, In
    <1>10. CASE c \in Providers \union started
      <2>1. Goes(th, <<fr>>) /\ mailbox' = mailbox
        BY <1>1, <1>2, <1>8, <1>10 DEF Body, Inside
      <2>2. started' = started
        BY <1>3, <1>10, AsyncAssumption
      <2>3. /\ stack' \in [Threads -> Seq(Frames)] /\ OneFrame' /\ CheckBelow' /\ FramesOK'
            /\ \A d : OnStack(d)' <=> OnStack(d)
        <3>1. Left(th, fr.ctx) /\ ~Idle(th)
          BY <1>1, <1>8 DEF Inside
        <3>2. /\ stack' \in [Threads -> Seq(Frames)] /\ OneFrame' /\ CheckBelow' /\ FramesOK'
              /\ \A d : OnStack(d)' <=> d = f \/ (OnStack(d) /\ ~Left(th, d))
          BY <1>6, <1>8, <1>9, <2>1, <3>1, OneNewFrame
        <3> QED  BY <1>1, <3>2 DEF Inside
      <2>4. /\ mailbox' \in [Actors -> Seq(Events)] /\ OneEvent' /\ EventsOK'
            /\ \A g : InMailbox(g)' <=> InMailbox(g)
        BY <1>6, <2>1, SameEvents
      <2>5. TypeOK'
        BY <1>3, <2>2, <2>3, <2>4 DEF AsyncInv, TypeOK
      <2>6. FrameOrEvent' /\ Observes' /\ NotStarted' /\ WaitsOnItsActor' /\ MissedAcrossThreads'
        BY <1>3, <2>2, <2>3, <2>4
        DEF AsyncInv, FrameOrEvent, Observes, NotStarted, WaitsOnItsActor, MissedAcrossThreads
      <2> QED  BY <2>3, <2>4, <2>5, <2>6 DEF AsyncInv
    <1>11. CASE c \notin Providers \union started
      <2>1. c \in Functions /\ c \notin started /\ c # f /\ started' = started \union {c}
        BY <1>3, <1>4, <1>7, <1>11 DEF Contexts
      <2>2. ~OnStack(c) /\ ~InMailbox(c) /\ ~ready[c] /\ \A d \in Contexts : observer[d] # c
        BY <2>1, Fresh
      <2>3. PICK ev : ev \in Frames /\ ev \in Events /\ ev = In(c, "body") /\ ev.ctx = c
        BY <2>1, NewFrame DEF Places
      <2>4. CASE StartsInline(th, c)
        <3>1. Goes(th, <<fr, ev>>) /\ mailbox' = mailbox
          BY <1>1, <1>2, <1>8, <1>11, <2>3, <2>4 DEF Body, Inside
        <3>2. FrameOK(th, ev)'
          BY <1>3, <2>1, <2>2, <2>3, <2>4, AsyncAssumption DEF FrameOK, In, StartsInline, currentActor
        <3>3. PICK new : new = <<fr, ev>>
          OBVIOUS
        <3>4. new \in Seq(Frames) /\ Len(new) = 2 /\ new[1] = fr /\ new[2] = ev
          BY <2>3, <3>3
        <3>5. \A j \in 1..Len(new) : (j = 1 /\ new[j] = fr) \/ (j = 2 /\ new[j] = ev)
          BY <3>4
        <3>6. GoesOn(th, new)
          BY <1>1, <1>8, <2>1, <2>2, <2>3, <3>1, <3>3, <3>5 DEF GoesOn, Inside
        <3>7. \A j \in 1..Len(new) : FrameOK(th, new[j])' /\ (j < Len(new) => new[j].at = "check")
          <4> TAKE j \in 1..Len(new)
          <4>1. CASE j = 1 /\ new[j] = fr
            BY <1>8, <1>9, <4>1
          <4>2. CASE j = 2 /\ new[j] = ev
            BY <3>2, <3>4, <4>2
          <4> QED  BY <3>5, <4>1, <4>2
        <3>8. CheckBelow' /\ FramesOK'
          BY <1>6, <3>4, <3>6, <3>7, FramesKept DEF OthersKept
        <3>9. /\ stack' \in [Threads -> Seq(Frames)] /\ OneFrame'
              /\ \A d : OnStack(d)' <=> OnStack(d) \/ d = c
          <4>1. /\ stack' \in [Threads -> Seq(Frames)] /\ OneFrame'
                /\ \A d : OnStack(d)' <=> \/ \E j \in 1..Len(new) : new[j].ctx = d
                                          \/ OnStack(d) /\ ~Left(th, d)
            BY <3>4, <3>6, FramesAfter DEF AsyncInv
          <4>2. 1 \in 1..Len(new) /\ 2 \in 1..Len(new)
            BY <3>4
          <4>3. \A d : (\E j \in 1..Len(new) : new[j].ctx = d) <=> d \in {f, c}
            BY <1>8, <2>3, <3>4, <3>5, <4>2
          <4> QED  BY <1>1, <4>1, <4>3 DEF Inside
        <3>10. /\ mailbox' \in [Actors -> Seq(Events)] /\ OneEvent' /\ EventsOK'
               /\ \A g : InMailbox(g)' <=> InMailbox(g)
          BY <1>6, <3>1, SameEvents
        <3>11. TypeOK'
          BY <1>3, <2>1, <3>9, <3>10 DEF AsyncInv, TypeOK
        <3>12. FrameOrEvent'
          BY <2>2, <3>9, <3>10 DEF AsyncInv, FrameOrEvent
        <3>13. Observes' /\ NotStarted' /\ WaitsOnItsActor' /\ MissedAcrossThreads'
          BY <1>3, <2>1, <2>2, <3>9, <3>10
          DEF AsyncInv, Observes, NotStarted, WaitsOnItsActor, MissedAcrossThreads
        <3> QED  BY <3>8, <3>9, <3>10, <3>11, <3>12, <3>13 DEF AsyncInv
      <2>5. CASE ~StartsInline(th, c)
        <3>1. Goes(th, <<fr>>) /\ mailbox' = [mailbox EXCEPT ![ActorOf[c]] = Append(@, ev)]
          BY <1>1, <1>2, <1>8, <1>11, <2>3, <2>5 DEF Body, Inside
        <3>2. ActorOf[c] \in Actors
          BY <2>1, <2>5, AsyncAssumption DEF StartsInline
        <3>3. /\ mailbox' \in [Actors -> Seq(Events)] /\ OneEvent' /\ EventsOK'
              /\ \A g : InMailbox(g)' <=> InMailbox(g) \/ g = c
          <4>1. EventOK(ActorOf[c], ev)'
            BY <1>3, <2>1, <2>2, <2>3 DEF EventOK, In
          <4> QED  BY <1>6, <2>2, <2>3, <3>1, <3>2, <4>1, OneNewEvent
        <3>4. /\ stack' \in [Threads -> Seq(Frames)] /\ OneFrame' /\ CheckBelow' /\ FramesOK'
              /\ \A d : OnStack(d)' <=> OnStack(d)
          <4>1. Left(th, fr.ctx) /\ ~Idle(th)
            BY <1>1, <1>8 DEF Inside
          <4>2. /\ stack' \in [Threads -> Seq(Frames)] /\ OneFrame' /\ CheckBelow' /\ FramesOK'
                /\ \A d : OnStack(d)' <=> d = f \/ (OnStack(d) /\ ~Left(th, d))
            BY <1>6, <1>8, <1>9, <3>1, <4>1, OneNewFrame
          <4> QED  BY <1>1, <4>2 DEF Inside
        <3>5. TypeOK'
          BY <1>3, <2>1, <3>3, <3>4 DEF AsyncInv, TypeOK
        <3>6. FrameOrEvent'
          BY <2>2, <3>3, <3>4 DEF AsyncInv, FrameOrEvent
        <3>7. Observes' /\ NotStarted' /\ WaitsOnItsActor' /\ MissedAcrossThreads'
          BY <1>3, <2>1, <2>2, <3>3, <3>4
          DEF AsyncInv, Observes, NotStarted, WaitsOnItsActor, MissedAcrossThreads
        <3> QED  BY <3>3, <3>4, <3>5, <3>6, <3>7 DEF AsyncInv
      <2> QED  BY <2>4, <2>5
    <1> QED  BY <1>10, <1>11

(***************************************************************************)
(* An actor performs an event: the function begins, or is resumed.         *)
(***************************************************************************)
LEMMA KeepsPerform ==
    ASSUME AsyncInv, NEW a \in Actors, Perform(a)
    PROVE  AsyncInv'
    <1>1. /\ Idle(a) /\ mailbox[a] # <<>> /\ mailbox' = [mailbox EXCEPT ![a] = Tail(@)]
          /\ stack' = [stack EXCEPT ![a] = <<Head(mailbox[a])>>]
          /\ UNCHANGED <<ready, observer, calling, waitingActor, pos, started, setBy, waitedOn>>
      BY DEF Perform
    <1>2. /\ mailbox' \in [Actors -> Seq(Events)]
          /\ 1 \in 1..Len(mailbox[a]) /\ Head(mailbox[a]) = mailbox[a][1]
          /\ Head(mailbox[a]) \in Events
          /\ \A b \in Actors : \A i \in 1..Len(mailbox'[b]) :
                \E k \in 1..Len(mailbox[b]) : mailbox'[b][i] = mailbox[b][k]
          /\ \A f : InMailbox(f)' <=> InMailbox(f) /\ f # Head(mailbox[a]).ctx
          /\ OneEvent'
      BY <1>1, EventPopped DEF AsyncInv
    <1>3. PICK ev \in Events : ev = Head(mailbox[a])
      BY <1>2
    <1>4. /\ ev \in Frames /\ ev.ctx \in Functions /\ ev.at \in {"body", "resume"}
          /\ EventOK(a, ev) /\ InMailbox(ev.ctx) /\ a \in Threads
      <2>1. ev \in Frames /\ ev.ctx \in Functions /\ ev.at \in {"body", "resume"}
        BY DEF Events, Frames, Places
      <2>2. EventOK(a, ev) /\ InMailbox(ev.ctx)
        BY <1>2, <1>3 DEF AsyncInv, EventsOK, InMailbox
      <2> QED  BY <2>1, <2>2 DEF Threads
    <1>5. ~OnStack(ev.ctx) /\ \A c \in Contexts : observer[c] # ev.ctx
      <2>1. ev.ctx # None
        BY <1>4, AsyncAssumption DEF Contexts
      <2> QED  BY <1>4, <2>1 DEF AsyncInv, FrameOrEvent, Observes
    <1>6. \A c : ~Left(a, c)
      BY <1>1 DEF Left
    <1>7. FrameOK(a, ev)' /\ \A u : \A x : FrameOK(u, x) => FrameOK(u, x)'
      BY <1>1, <1>4 DEF FrameOK, EventOK
    <1>8. /\ stack' \in [Threads -> Seq(Frames)] /\ OneFrame' /\ CheckBelow' /\ FramesOK'
          /\ \A c : OnStack(c)' <=> c = ev.ctx \/ OnStack(c)
      <2>1. stack' = [stack EXCEPT ![a] = <<ev>>] /\ OthersKept(a)
        BY <1>1, <1>3, <1>7 DEF OthersKept
      <2> QED  BY <1>1, <1>4, <1>5, <1>6, <1>7, <2>1, OneNewFrame
    <1>9. EventsOK'
      <2> SUFFICES ASSUME NEW b \in Actors, NEW i \in 1..Len(mailbox'[b])
                   PROVE  EventOK(b, mailbox[b][i])'
        BY DEF EventsOK
      <2>1. PICK k \in 1..Len(mailbox[b]) : mailbox'[b][i] = mailbox[b][k]
        BY <1>2
      <2>2. PICK x : x = mailbox[b][k]
        OBVIOUS
      <2>3. EventOK(b, x)
        BY <2>2 DEF AsyncInv, EventsOK
      <2>4. x = mailbox'[b][i] /\ EventOK(b, x)'
        BY <1>1, <2>1, <2>2, <2>3 DEF EventOK
      <2> QED  BY <2>4 DEF EventOK
    <1>10. TypeOK'
      BY <1>1, <1>2, <1>8 DEF AsyncInv, TypeOK
    <1>11. \A f : InMailbox(f)' <=> InMailbox(f) /\ f # ev.ctx
      BY <1>2, <1>3
    <1>12. FrameOrEvent' /\ Observes' /\ NotStarted' /\ WaitsOnItsActor' /\ MissedAcrossThreads'
      BY <1>1, <1>5, <1>8, <1>11
      DEF AsyncInv, FrameOrEvent, Observes, NotStarted, WaitsOnItsActor, MissedAcrossThreads
    <1> QED  BY <1>2, <1>8, <1>9, <1>10, <1>12 DEF AsyncInv

(***************************************************************************)
(* A step of a function that moves on in its body: it changes what belongs *)
(* to this function alone.                                                 *)
(***************************************************************************)
LEMMA MovesOn ==
    ASSUME AsyncInv, NEW th \in Threads, NEW f \in Functions, NEW where, Inside(th, f, where),
           NEW at \in Places, Goes(th, <<In(f, at)>>), FrameOK(th, In(f, at))',
           UNCHANGED <<ready, observer, waitingActor, started, mailbox, setBy, waitedOn>>,
           calling' \in [Functions -> Contexts \union {None}],
           pos' \in [Functions -> Nat], pos'[f] <= Len(Calls[f]),
           \A g \in Functions : g # f => calling'[g] = calling[g] /\ pos'[g] = pos[g]
    PROVE  AsyncInv'
    <1>1. /\ ~Idle(th) /\ \A c : Left(th, c) <=> c = f
          /\ OnStack(f) /\ ~InMailbox(f) /\ \A c \in Contexts : observer[c] # f
      BY DEF Inside
    <1>2. PICK fr \in Frames : fr = In(f, at) /\ fr.ctx = f
      BY NewFrame
    <1>3. OthersKept(th)
      <2> SUFFICES ASSUME NEW u \in Threads, NEW x \in Frames, FrameOK(u, x), x.ctx # f
                   PROVE  FrameOK(u, x)'
        BY <1>1 DEF OthersKept
      <2>1. x.ctx \in Functions \/ x.at \in {"result", "notify"}
        BY DEF Frames
      <2> QED  BY <2>1 DEF FrameOK
    <1>4. QueuedKept
      <2> SUFFICES ASSUME NEW a \in Actors, NEW x \in Events, EventOK(a, x), x.ctx # f
                   PROVE  EventOK(a, x)'
        BY <1>1 DEF QueuedKept
      <2>1. x.ctx \in Functions
        BY DEF Events
      <2> QED  BY <2>1 DEF EventOK
    <1>5. /\ stack' \in [Threads -> Seq(Frames)] /\ OneFrame' /\ CheckBelow' /\ FramesOK'
          /\ \A c : OnStack(c)' <=> OnStack(c)
      <2>1. /\ stack' \in [Threads -> Seq(Frames)] /\ OneFrame' /\ CheckBelow' /\ FramesOK'
            /\ \A c : OnStack(c)' <=> c = f \/ (OnStack(c) /\ ~Left(th, c))
        <3>1. Goes(th, <<fr>>) /\ FrameOK(th, fr)' /\ Left(th, fr.ctx)
          BY <1>1, <1>2
        <3> QED  BY <1>1, <1>2, <1>3, <3>1, OneNewFrame
      <2> QED  BY <1>1, <2>1
    <1>6. /\ mailbox' \in [Actors -> Seq(Events)] /\ OneEvent' /\ EventsOK'
          /\ \A g : InMailbox(g)' <=> InMailbox(g)
      BY <1>4, SameEvents
    <1>7. TypeOK'
      <2>1. \A g \in Functions : pos'[g] <= Len(Calls[g])
        BY DEF AsyncInv, TypeOK
      <2> QED  BY <1>5, <1>6, <2>1 DEF AsyncInv, TypeOK
    <1>8. \A c \in Contexts : observer[c] \in Functions \union {None}
      BY DEF AsyncInv, TypeOK
    <1>9. FrameOrEvent' /\ Observes' /\ NotStarted' /\ WaitsOnItsActor' /\ MissedAcrossThreads'
      BY <1>1, <1>5, <1>6, <1>8
      DEF AsyncInv, FrameOrEvent, Observes, NotStarted, WaitsOnItsActor, MissedAcrossThreads
    <1> QED  BY <1>5, <1>6, <1>7, <1>9 DEF AsyncInv

(***************************************************************************)
(* The value is ready, and the body goes on, or not, and it returns.       *)
(***************************************************************************)
LEMMA KeepsAsyncCall ==
    ASSUME AsyncInv, NEW th \in Threads, AsyncCall(th)
    PROVE  AsyncInv'
    <1>1. PICK f \in Functions : Inside(th, f, "check")
      BY InFunction DEF AsyncCall
    <1>2. PICK c : c = Callee(f)
      OBVIOUS
    <1>3. UNCHANGED <<ready, observer, waitingActor, started, mailbox, setBy, waitedOn>>
      BY DEF AsyncCall
    <1>4. f \in started /\ ~ready[f] /\ pos[f] < Len(Calls[f])
      BY <1>1 DEF Inside, FrameOK, In
    <1>5. c \in Contexts /\ pos[f] + 1 \in Nat /\ pos[f] + 1 <= Len(Calls[f])
      BY <1>2, <1>4, CalleeType DEF AsyncInv
    <1>6. CASE ready[c]
      <2>1. pos' = [pos EXCEPT ![f] = @ + 1] /\ Goes(th, <<In(f, "body")>>) /\ calling' = calling
        BY <1>1, <1>2, <1>6 DEF AsyncCall, Inside
      <2>2. FrameOK(th, In(f, "body"))'
        BY <1>1, <1>3, <1>4 DEF Inside, FrameOK, In
      <2>3. /\ calling' \in [Functions -> Contexts \union {None}]
            /\ pos' \in [Functions -> Nat] /\ pos'[f] <= Len(Calls[f])
            /\ \A g \in Functions : g # f => calling'[g] = calling[g] /\ pos'[g] = pos[g]
        BY <1>5, <2>1 DEF AsyncInv, TypeOK
      <2> QED  BY <1>1, <1>3, <2>1, <2>2, <2>3, MovesOn DEF Places
    <1>7. CASE ~ready[c]
      <2>1. calling' = [calling EXCEPT ![f] = c] /\ Goes(th, <<In(f, "wait")>>) /\ pos' = pos
        BY <1>1, <1>2, <1>7 DEF AsyncCall, Inside
      <2>2. calling'[f] = c
        BY <2>1 DEF AsyncInv, TypeOK
      <2>3. FrameOK(th, In(f, "wait"))'
        BY <1>1, <1>3, <1>4, <1>5, <1>7, <2>1, <2>2 DEF Inside, FrameOK, In
      <2>4. /\ calling' \in [Functions -> Contexts \union {None}]
            /\ pos' \in [Functions -> Nat] /\ pos'[f] <= Len(Calls[f])
            /\ \A g \in Functions : g # f => calling'[g] = calling[g] /\ pos'[g] = pos[g]
        BY <1>5, <2>1 DEF AsyncInv, TypeOK
      <2> QED  BY <1>1, <1>3, <2>1, <2>3, <2>4, MovesOn DEF Places
    <1> QED  BY <1>6, <1>7

(***************************************************************************)
(* A function that waited takes its value, and its body goes on.           *)
(***************************************************************************)
LEMMA KeepsResume ==
    ASSUME AsyncInv, NEW th \in Threads, Resume(th)
    PROVE  AsyncInv'
    <1>1. PICK f \in Functions : Inside(th, f, "resume")
      BY InFunction DEF Resume
    <1>2. /\ pos' = [pos EXCEPT ![f] = @ + 1] /\ calling' = [calling EXCEPT ![f] = None]
          /\ Goes(th, <<In(f, "body")>>)
          /\ UNCHANGED <<ready, observer, waitingActor, started, mailbox, setBy, waitedOn>>
      BY <1>1 DEF Resume, Inside
    <1>3. pos[f] < Len(Calls[f])
      BY <1>1 DEF Inside, FrameOK, In
    <1>4. pos[f] + 1 \in Nat /\ pos[f] + 1 <= Len(Calls[f])
      BY <1>3, CalleeType DEF AsyncInv
    <1>5. FrameOK(th, In(f, "body"))'
      BY <1>1, <1>2 DEF Inside, FrameOK, In
    <1>6. /\ calling' \in [Functions -> Contexts \union {None}]
          /\ pos' \in [Functions -> Nat] /\ pos'[f] <= Len(Calls[f])
          /\ \A g \in Functions : g # f => calling'[g] = calling[g] /\ pos'[g] = pos[g]
      BY <1>2, <1>4 DEF AsyncInv, TypeOK
    <1> QED  BY <1>1, <1>2, <1>5, <1>6, MovesOn DEF Places

(***************************************************************************)
(* The body of a function returns its value.                               *)
(***************************************************************************)
LEMMA KeepsReturn ==
    ASSUME AsyncInv, NEW th \in Threads, Return(th)
    PROVE  AsyncInv'
    <1>1. PICK f \in Functions : Inside(th, f, "body")
      BY InFunction DEF Return
    <1>2. /\ Goes(th, <<In(f, "result")>>)
          /\ UNCHANGED <<ready, observer, calling, waitingActor, pos, started, mailbox, setBy, waitedOn>>
      BY <1>1 DEF Return, Inside
    <1>3. FrameOK(th, In(f, "result"))'
      BY <1>1, <1>2 DEF Inside, FrameOK, In
    <1>4. /\ calling' \in [Functions -> Contexts \union {None}]
          /\ pos' \in [Functions -> Nat] /\ pos'[f] <= Len(Calls[f])
          /\ \A g \in Functions : g # f => calling'[g] = calling[g] /\ pos'[g] = pos[g]
      BY <1>2 DEF AsyncInv, TypeOK
    <1> QED  BY <1>1, <1>2, <1>3, <1>4, MovesOn DEF Places

(***************************************************************************)
(* A function leaves its thread, as the observer of what it awaits: no     *)
(* other value has it as its observer.                                     *)
(***************************************************************************)
LEMMA KeepsWait ==
    ASSUME AsyncInv, NEW th \in Threads, Wait(th)
    PROVE  AsyncInv'
    <1>1. PICK f \in Functions : Inside(th, f, "wait")
      BY InFunction DEF Wait
    <1>2. PICK c : c = calling[f]
      OBVIOUS
    <1>3. /\ waitingActor' = [waitingActor EXCEPT ![f] = currentActor(th)]
          /\ observer' = [observer EXCEPT ![c] = f]
          /\ waitedOn' = [waitedOn EXCEPT ![f] = th]
          /\ Goes(th, <<>>)
          /\ UNCHANGED <<ready, calling, pos, started, mailbox, setBy>>
      BY <1>1, <1>2 DEF Wait, Inside
    <1>4. /\ ~Idle(th) /\ \A d : Left(th, d) <=> d = f
          /\ OnStack(f) /\ ~InMailbox(f) /\ \A d \in Contexts : observer[d] # f
      BY <1>1 DEF Inside
    <1>5. /\ f \in started /\ ~ready[f] /\ pos[f] < Len(Calls[f])
          /\ c \in Contexts /\ (ready[c] => setBy[c] # th)
          /\ ActorOf[f] # None => th = ActorOf[f]
      BY <1>1, <1>2 DEF Inside, FrameOK, In
    <1>6. OthersKept(th) /\ QueuedKept
      BY <1>3 DEF OthersKept, QueuedKept, FrameOK, EventOK
    <1>7. /\ stack' \in [Threads -> Seq(Frames)] /\ OneFrame' /\ CheckBelow' /\ FramesOK'
          /\ \A d : OnStack(d)' <=> OnStack(d) /\ d # f
      <2>1. /\ stack' \in [Threads -> Seq(Frames)] /\ OneFrame' /\ CheckBelow' /\ FramesOK'
            /\ \A d : OnStack(d)' <=> OnStack(d) /\ ~Left(th, d)
        BY <1>3, <1>4, <1>6, NoNewFrame
      <2> QED  BY <1>4, <2>1
    <1>8. /\ mailbox' \in [Actors -> Seq(Events)] /\ OneEvent' /\ EventsOK'
          /\ \A g : InMailbox(g)' <=> InMailbox(g)
      BY <1>3, <1>6, SameEvents
    <1>9. TypeOK'
      <2>1. currentActor(th) \in Actors \union {None}
        BY DEF currentActor
      <2> QED  BY <1>3, <1>5, <1>7, <1>8, <2>1 DEF AsyncInv, TypeOK
    <1>10. /\ observer'[c] = f /\ waitingActor'[f] = currentActor(th) /\ waitedOn'[f] = th
           /\ \A d \in Contexts : d # c => observer'[d] = observer[d] /\ observer[d] # f
           /\ \A g \in Functions : g # f => waitingActor'[g] = waitingActor[g] /\ waitedOn'[g] = waitedOn[g]
           /\ \A d \in Contexts : observer[d] \in Functions \union {None}
      BY <1>3, <1>4, <1>5 DEF AsyncInv, TypeOK
    <1>11. FrameOrEvent' /\ NotStarted'
      BY <1>3, <1>7, <1>8 DEF AsyncInv, FrameOrEvent, NotStarted
    <1>12. Observes'
      BY <1>2, <1>3, <1>4, <1>5, <1>7, <1>8, <1>10 DEF AsyncInv, Observes
    <1>13. WaitsOnItsActor'
      <2>1. ActorOf[f] # None => currentActor(th) = ActorOf[f]
        BY <1>5, AsyncAssumption DEF currentActor
      <2> QED  BY <1>3, <1>10, <2>1 DEF AsyncInv, WaitsOnItsActor
    <1>14. MissedAcrossThreads'
      BY <1>3, <1>5, <1>7, <1>10 DEF AsyncInv, MissedAcrossThreads
    <1> QED  BY <1>7, <1>8, <1>9, <1>11, <1>12, <1>13, <1>14 DEF AsyncInv

(***************************************************************************)
(* A context gets its value: a function in the middle of a wait for it is  *)
(* on another thread, and one that waits is told by the frame that stays.  *)
(***************************************************************************)
LEMMA KeepsGotResult ==
    ASSUME AsyncInv, NEW th \in Threads, GotResult(th)
    PROVE  AsyncInv'
    <1>1. PICK fr \in Frames : fr = Top(th)
      BY TopFrame DEF GotResult
    <1>2. PICK c \in Contexts : c = fr.ctx
      BY <1>1, TopFrame DEF GotResult
    <1>3. /\ ready' = [ready EXCEPT ![c] = TRUE] /\ setBy' = [setBy EXCEPT ![c] = th]
          /\ Goes(th, <<In(c, "notify")>>)
          /\ UNCHANGED <<observer, calling, waitingActor, pos, started, mailbox, waitedOn>>
      BY <1>1, <1>2 DEF GotResult
    <1>4. /\ ~Idle(th) /\ \A d : Left(th, d) <=> d = c
          /\ OnStack(c) /\ ~InMailbox(c) /\ \A d \in Contexts : observer[d] # c
          /\ FrameOK(th, fr) /\ fr.at = "result"
      BY <1>1, <1>2, TopFrame DEF GotResult
    <1>5. /\ ready'[c] /\ setBy'[c] = th
          /\ \A d \in Contexts : d # c => ready'[d] = ready[d] /\ setBy'[d] = setBy[d]
          /\ \A d \in Contexts : ready[d] => ready'[d]
          /\ ready' \in [Contexts -> BOOLEAN] /\ setBy' \in [Contexts -> Threads \union {None}]
      BY <1>3 DEF AsyncInv, TypeOK
    <1>6. PICK new \in Frames : new = In(c, "notify") /\ new.ctx = c /\ new.at = "notify"
      <2>1. In(c, "notify") \in Frames
        BY DEF In, Frames, Places, Contexts
      <2> QED  BY <2>1 DEF In
    <1>7. FrameOK(th, new)'
      BY <1>2, <1>3, <1>4, <1>5, <1>6 DEF FrameOK
    <1>8. OthersKept(th)
      <2> SUFFICES ASSUME NEW u \in Threads, NEW x \in Frames, FrameOK(u, x), x.ctx # c,
                          u = th => x.at = "check"
                   PROVE  FrameOK(u, x)'
        BY <1>4 DEF OthersKept
      <2>1. x.ctx \in Contexts
        BY DEF Frames, Contexts
      <2>2. ready'[x.ctx] = ready[x.ctx]
        BY <1>5, <2>1
      <2>3. ASSUME x.at = "wait" PROVE ready'[calling[x.ctx]] => setBy'[calling[x.ctx]] # u
        BY <1>5, <2>3 DEF FrameOK
      <2> QED  BY <1>3, <1>5, <2>2, <2>3 DEF FrameOK
    <1>9. QueuedKept
      <2> SUFFICES ASSUME NEW a \in Actors, NEW x \in Events, EventOK(a, x), x.ctx # c
                   PROVE  EventOK(a, x)'
        BY <1>4 DEF QueuedKept
      <2>1. ready'[x.ctx] = ready[x.ctx]
        BY <1>5 DEF Events, Contexts
      <2> QED  BY <1>3, <1>5, <2>1 DEF EventOK
    <1>10. /\ stack' \in [Threads -> Seq(Frames)] /\ OneFrame' /\ CheckBelow' /\ FramesOK'
           /\ \A d : OnStack(d)' <=> OnStack(d)
      <2>1. Goes(th, <<new>>) /\ Left(th, new.ctx)
        BY <1>3, <1>4, <1>6
      <2>2. /\ stack' \in [Threads -> Seq(Frames)] /\ OneFrame' /\ CheckBelow' /\ FramesOK'
            /\ \A d : OnStack(d)' <=> d = c \/ (OnStack(d) /\ ~Left(th, d))
        BY <1>4, <1>6, <1>7, <1>8, <2>1, OneNewFrame
      <2> QED  BY <1>4, <2>2
    <1>11. /\ mailbox' \in [Actors -> Seq(Events)] /\ OneEvent' /\ EventsOK'
           /\ \A g : InMailbox(g)' <=> InMailbox(g)
      BY <1>3, <1>9, SameEvents
    <1>12. TypeOK'
      BY <1>3, <1>5, <1>10, <1>11 DEF AsyncInv, TypeOK
    <1>13. FrameOrEvent' /\ WaitsOnItsActor'
      BY <1>3, <1>10, <1>11 DEF AsyncInv, FrameOrEvent, WaitsOnItsActor
    <1>14. Observes'
      <2>1. \A d \in Contexts : observer[d] # None => ready'[observer[d]] = ready[observer[d]]
        BY <1>4, <1>5 DEF AsyncInv, TypeOK, Contexts
      <2> QED  BY <1>3, <1>10, <1>11, <2>1 DEF AsyncInv, Observes
    <1>15. NotStarted'
      <2>1. c \in Functions => c \in started
        BY <1>2, <1>4 DEF FrameOK
      <2> QED  BY <1>3, <1>5, <2>1 DEF AsyncInv, NotStarted, Contexts
    <1>16. MissedAcrossThreads'
      BY <1>3, <1>4, <1>5, <1>10 DEF AsyncInv, MissedAcrossThreads
    <1> QED  BY <1>10, <1>11, <1>12, <1>13, <1>14, <1>15, <1>16 DEF AsyncInv

(***************************************************************************)
(* The observer is woken up, if there is one.  Nothing else waits for this *)
(* value, and this function waits for nothing else.                        *)
(***************************************************************************)
LEMMA KeepsNotify ==
    ASSUME AsyncInv, NEW th \in Threads, Notify(th)
    PROVE  AsyncInv'
    <1>1. PICK c \in Contexts : c = Top(th).ctx
      BY TopFrame DEF Notify
    <1>2. /\ ~Idle(th) /\ \A d : Left(th, d) <=> d = c
          /\ OnStack(c) /\ FrameOK(th, Top(th)) /\ Top(th).at = "notify"
      BY <1>1, TopFrame DEF Notify
    <1>3. PICK f : f = observer[c]
      OBVIOUS
    <1>4. /\ f # None /\ observer' = [observer EXCEPT ![c] = None]
          /\ waitingActor' = [waitingActor EXCEPT ![f] = None]
          /\ UNCHANGED <<ready, calling, pos, started, setBy, waitedOn>>
      BY <1>1, <1>3 DEF Notify
    <1>5. /\ f \in Functions /\ calling[f] = c /\ f \in started /\ pos[f] < Len(Calls[f])
          /\ ~OnStack(f) /\ ~InMailbox(f) /\ ~ready[f] /\ ready[c]
          /\ ActorOf[f] # None => waitingActor[f] = ActorOf[f]
      <2>1. f \in Functions
        BY <1>3, <1>4 DEF AsyncInv, TypeOK
      <2>2. ready[c]
        BY <1>1, <1>2 DEF FrameOK
      <2>3. /\ calling[f] = c /\ f \in started /\ pos[f] < Len(Calls[f])
            /\ ~OnStack(f) /\ ~InMailbox(f) /\ ~ready[f]
        BY <1>3, <1>4 DEF AsyncInv, Observes
      <2>4. ActorOf[f] # None => waitingActor[f] = ActorOf[f]
        BY <1>3, <1>4 DEF AsyncInv, WaitsOnItsActor
      <2> QED  BY <2>1, <2>2, <2>3, <2>4
    <1>6. OthersKept(th) /\ QueuedKept
      BY <1>4 DEF OthersKept, QueuedKept, FrameOK, EventOK
    <1>7. /\ observer' \in [Contexts -> Functions \union {None}]
          /\ waitingActor' \in [Functions -> Actors \union {None}]
          /\ observer'[c] = None
          /\ \A d \in Contexts : observer'[d] # None =>
                 d # c /\ observer'[d] = observer[d] /\ observer[d] \in Functions \ {f}
          /\ \A g \in Functions : g # f => waitingActor'[g] = waitingActor[g]
      <2>1. \A d \in Contexts : observer[d] = f => d = c
        BY <1>4, <1>5 DEF AsyncInv, Observes
      <2> QED  BY <1>4, <1>5, <2>1 DEF AsyncInv, TypeOK
    <1>8. PICK fr : fr \in Frames /\ fr \in Events /\ fr = In(f, "resume") /\ fr.ctx = f
      BY <1>5, NewFrame DEF Places
    <1>9. CASE waitingActor[f] # None
      <2>1. PICK a : a = waitingActor[f]
        OBVIOUS
      <2>2. a \in Actors
        BY <1>5, <1>9, <2>1 DEF AsyncInv, TypeOK
      <2>3. mailbox' = [mailbox EXCEPT ![a] = Append(@, fr)] /\ Goes(th, <<>>)
        BY <1>1, <1>3, <1>8, <1>9, <2>1 DEF Notify
      <2>4. EventOK(a, fr)'
        BY <1>4, <1>5, <1>8, <2>1 DEF EventOK
      <2>5. /\ mailbox' \in [Actors -> Seq(Events)] /\ OneEvent' /\ EventsOK'
            /\ \A g : InMailbox(g)' <=> InMailbox(g) \/ g = f
        BY <1>5, <1>6, <1>8, <2>2, <2>3, <2>4, OneNewEvent
      <2>6. /\ stack' \in [Threads -> Seq(Frames)] /\ OneFrame' /\ CheckBelow' /\ FramesOK'
            /\ \A d : OnStack(d)' <=> OnStack(d) /\ d # c
        <3>1. /\ stack' \in [Threads -> Seq(Frames)] /\ OneFrame' /\ CheckBelow' /\ FramesOK'
              /\ \A d : OnStack(d)' <=> OnStack(d) /\ ~Left(th, d)
          BY <1>2, <1>6, <2>3, NoNewFrame
        <3> QED  BY <1>2, <3>1
      <2>7. TypeOK'
        BY <1>4, <1>7, <2>5, <2>6 DEF AsyncInv, TypeOK
      <2>8. FrameOrEvent' /\ NotStarted'
        BY <1>4, <1>5, <2>5, <2>6 DEF AsyncInv, FrameOrEvent, NotStarted
      <2>9. Observes' /\ WaitsOnItsActor' /\ MissedAcrossThreads'
        BY <1>4, <1>7, <2>5, <2>6 DEF AsyncInv, Observes, WaitsOnItsActor, MissedAcrossThreads
      <2> QED  BY <2>5, <2>6, <2>7, <2>8, <2>9 DEF AsyncInv
    <1>10. CASE waitingActor[f] = None
      <2>1. Goes(th, <<fr>>) /\ mailbox' = mailbox
        BY <1>1, <1>3, <1>8, <1>10 DEF Notify
      <2>2. FrameOK(th, fr)'
        BY <1>4, <1>5, <1>8, <1>10 DEF FrameOK, In
      <2>3. /\ stack' \in [Threads -> Seq(Frames)] /\ OneFrame' /\ CheckBelow' /\ FramesOK'
            /\ \A d : OnStack(d)' <=> d = f \/ (OnStack(d) /\ d # c)
        <3>1. /\ stack' \in [Threads -> Seq(Frames)] /\ OneFrame' /\ CheckBelow' /\ FramesOK'
              /\ \A d : OnStack(d)' <=> d = f \/ (OnStack(d) /\ ~Left(th, d))
          BY <1>2, <1>5, <1>6, <1>8, <2>1, <2>2, OneNewFrame
        <3> QED  BY <1>2, <3>1
      <2>4. /\ mailbox' \in [Actors -> Seq(Events)] /\ OneEvent' /\ EventsOK'
            /\ \A g : InMailbox(g)' <=> InMailbox(g)
        BY <1>6, <2>1, SameEvents
      <2>5. TypeOK'
        BY <1>4, <1>7, <2>3, <2>4 DEF AsyncInv, TypeOK
      <2>6. FrameOrEvent' /\ NotStarted'
        BY <1>4, <1>5, <2>3, <2>4 DEF AsyncInv, FrameOrEvent, NotStarted
      <2>7. Observes' /\ WaitsOnItsActor' /\ MissedAcrossThreads'
        BY <1>4, <1>7, <2>3, <2>4 DEF AsyncInv, Observes, WaitsOnItsActor, MissedAcrossThreads
      <2> QED  BY <2>3, <2>4, <2>5, <2>6, <2>7 DEF AsyncInv
    <1> QED  BY <1>9, <1>10

(***************************************************************************)
(* Nobody waits for the value.                                             *)
(***************************************************************************)
LEMMA KeepsNobodyWaits ==
    ASSUME AsyncInv, NEW th \in Threads, NobodyWaits(th)
    PROVE  AsyncInv'
    <1>1. PICK c \in Contexts : c = Top(th).ctx
      BY TopFrame DEF NobodyWaits
    <1>2. ~Idle(th) /\ \A d : Left(th, d) <=> d = c
      BY <1>1, TopFrame DEF NobodyWaits
    <1>3. /\ observer[c] = None /\ Goes(th, <<>>)
          /\ UNCHANGED <<ready, observer, calling, waitingActor, pos, started, mailbox, setBy, waitedOn>>
      BY <1>1 DEF NobodyWaits
    <1>4. OthersKept(th) /\ QueuedKept
      BY <1>3 DEF OthersKept, QueuedKept, FrameOK, EventOK
    <1>5. /\ stack' \in [Threads -> Seq(Frames)] /\ OneFrame' /\ CheckBelow' /\ FramesOK'
          /\ \A d : OnStack(d)' <=> OnStack(d) /\ d # c
      <2>1. /\ stack' \in [Threads -> Seq(Frames)] /\ OneFrame' /\ CheckBelow' /\ FramesOK'
            /\ \A d : OnStack(d)' <=> OnStack(d) /\ ~Left(th, d)
        BY <1>2, <1>3, <1>4, NoNewFrame
      <2> QED  BY <1>2, <2>1
    <1>6. /\ mailbox' \in [Actors -> Seq(Events)] /\ OneEvent' /\ EventsOK'
          /\ \A g : InMailbox(g)' <=> InMailbox(g)
      BY <1>3, <1>4, SameEvents
    <1>7. TypeOK'
      BY <1>3, <1>5, <1>6 DEF AsyncInv, TypeOK
    <1>8. FrameOrEvent' /\ NotStarted' /\ Observes' /\ WaitsOnItsActor' /\ MissedAcrossThreads'
      BY <1>3, <1>5, <1>6
      DEF AsyncInv, FrameOrEvent, NotStarted, Observes, WaitsOnItsActor, MissedAcrossThreads
    <1> QED  BY <1>5, <1>6, <1>7, <1>8 DEF AsyncInv
-----------------------------------------------------------------------------
(***************************************************************************)
(* The invariant holds at first, and every step of next(), of a mailbox or *)
(* of a provider keeps it.                                                 *)
(***************************************************************************)
LEMMA AsyncInit == Init => AsyncInv
    <1> SUFFICES ASSUME Init PROVE AsyncInv
      OBVIOUS
    <1>1. TypeOK
      <2>1. \A f \in Functions : 0 <= Len(Calls[f])
        BY AsyncAssumption
      <2> QED  BY <2>1 DEF Init, TypeOK
    <1>2. /\ \A th \in Threads : \A i \in 1..Len(stack[th]) : FALSE
          /\ \A a \in Actors : \A i \in 1..Len(mailbox[a]) : FALSE
      BY DEF Init
    <1>3. \A c \in Contexts : observer[c] = None /\ ~ready[c]
      BY DEF Init
    <1>4. OneFrame /\ OneEvent /\ FrameOrEvent /\ CheckBelow /\ FramesOK /\ EventsOK
      BY <1>2 DEF OneFrame, OneEvent, FrameOrEvent, CheckBelow, FramesOK, EventsOK, OnStack
    <1>5. Observes /\ NotStarted /\ WaitsOnItsActor /\ MissedAcrossThreads
      BY <1>3 DEF Observes, NotStarted, WaitsOnItsActor, MissedAcrossThreads, Contexts
    <1> QED  BY <1>1, <1>4, <1>5 DEF AsyncInv

(***************************************************************************)
(* One case per action.                                                    *)
(***************************************************************************)
LEMMA AsyncNext == AsyncInv /\ [Next]_vars => AsyncInv'
    <1> SUFFICES ASSUME AsyncInv, [Next]_vars PROVE AsyncInv'
      OBVIOUS
    <1>1. ASSUME NEW th \in Threads, Runs(th) PROVE AsyncInv'
      BY <1>1, KeepsBody, KeepsAsyncCall, KeepsWait, KeepsResume, KeepsReturn,
         KeepsGotResult, KeepsNotify, KeepsNobodyWaits DEF Runs
    <1>2. ASSUME NEW th \in Threads, NEW f \in Functions, Start(th, f) PROVE AsyncInv'
      BY <1>2, KeepsStart
    <1>3. ASSUME NEW p \in Providers, Provides(p) PROVE AsyncInv'
      BY <1>3, KeepsSetResult DEF Provides
    <1>4. ASSUME NEW a \in Actors, Perform(a) PROVE AsyncInv'
      BY <1>4, KeepsPerform
    <1>5. CASE UNCHANGED vars
      <2>1. \A c : (OnStack(c)' <=> OnStack(c)) /\ (InMailbox(c)' <=> InMailbox(c))
        BY <1>5 DEF vars, OnStack, InMailbox
      <2>2. TypeOK' /\ OneFrame' /\ OneEvent' /\ CheckBelow'
        <3>1. TypeOK'
          BY <1>5 DEF vars, AsyncInv, TypeOK
        <3>2. OneFrame' /\ CheckBelow'
          BY <1>5 DEF vars, AsyncInv, OneFrame, CheckBelow
        <3>3. OneEvent'
          BY <1>5 DEF vars, AsyncInv, OneEvent
        <3> QED  BY <3>1, <3>2, <3>3
      <2>3. FramesOK' /\ EventsOK'
        BY <1>5 DEF vars, AsyncInv, FramesOK, FrameOK, EventsOK, EventOK
      <2>4. FrameOrEvent' /\ Observes' /\ NotStarted' /\ WaitsOnItsActor' /\ MissedAcrossThreads'
        BY <1>5, <2>1
        DEF vars, AsyncInv, FrameOrEvent, Observes, NotStarted, WaitsOnItsActor, MissedAcrossThreads
      <2> QED  BY <2>2, <2>3, <2>4 DEF AsyncInv
    <1> QED  BY <1>1, <1>2, <1>3, <1>4, <1>5 DEF Next

(***************************************************************************)
(* The invariant holds in every reachable state: of start, next, _wait,    *)
(* asyncResult, setResult and _gotResult, on any number of threads.        *)
(***************************************************************************)
THEOREM AsyncInvariant == Spec => []AsyncInv
    BY AsyncInit, AsyncNext, PTL DEF Spec

(***************************************************************************)
(* The threads on which a context runs, and the mailboxes that hold it,    *)
(* are one at most, together.                                              *)
(***************************************************************************)
LEMMA OnePlace ==
    ASSUME AsyncInv, NEW f \in Functions
    PROVE  Cardinality(RunningOn(f)) + Cardinality(QueuedOn(f)) <= 1
    <1>1. /\ \A th \in Threads : DOMAIN stack[th] = 1..Len(stack[th])
          /\ \A a \in Actors : DOMAIN mailbox[a] = 1..Len(mailbox[a])
      BY DEF AsyncInv, TypeOK
    <1>2. RunningOn(f) = {} \/ \E th : RunningOn(f) = {th}
      <2>1. ASSUME NEW th \in RunningOn(f), NEW u \in RunningOn(f) PROVE th = u
        BY <1>1 DEF RunningOn, AsyncInv, OneFrame
      <2> QED  BY <2>1
    <1>3. QueuedOn(f) = {} \/ \E a : QueuedOn(f) = {a}
      <2>1. ASSUME NEW a \in QueuedOn(f), NEW b \in QueuedOn(f) PROVE a = b
        BY <1>1 DEF QueuedOn, AsyncInv, OneEvent
      <2> QED  BY <2>1
    <1>4. RunningOn(f) = {} \/ QueuedOn(f) = {}
      BY <1>1 DEF RunningOn, QueuedOn, AsyncInv, FrameOrEvent, OnStack, InMailbox
    <1>5. Cardinality(RunningOn(f)) \in {0, 1} /\ (RunningOn(f) = {} => Cardinality(RunningOn(f)) = 0)
      BY <1>2, FS_EmptySet, FS_Singleton
    <1>6. Cardinality(QueuedOn(f)) \in {0, 1} /\ (QueuedOn(f) = {} => Cardinality(QueuedOn(f)) = 0)
      BY <1>3, FS_EmptySet, FS_Singleton
    <1> QED  BY <1>4, <1>5, <1>6

(***************************************************************************)
(* "if an async Actor method waits, it will be resumed on that Actor's     *)
(* execution context" (Async.hh:128): whoever sets the result, a method is *)
(* in its actor's mailbox or on its actor's thread, no function is in two  *)
(* places, and the value is ready when next() calls asyncResult.           *)
(***************************************************************************)
THEOREM MethodsStayOnTheirActor == Spec => []ResumesOnItsActor
    <1>1. ASSUME AsyncInv PROVE ResumesOnItsActor
      <2>1. /\ \A th \in Threads : DOMAIN stack[th] = 1..Len(stack[th])
            /\ \A a \in Actors : DOMAIN mailbox[a] = 1..Len(mailbox[a])
        BY <1>1 DEF AsyncInv, TypeOK
      <2>2. ASSUME NEW f \in Functions, ActorOf[f] # None
            PROVE  RunningOn(f) \union QueuedOn(f) \subseteq {ActorOf[f]}
        <3>1. RunningOn(f) \subseteq {ActorOf[f]}
          <4> SUFFICES ASSUME NEW th \in RunningOn(f) PROVE th = ActorOf[f]
            OBVIOUS
          <4>1. PICK i \in 1..Len(stack[th]) : th \in Threads /\ stack[th][i].ctx = f
            BY <2>1 DEF RunningOn
          <4>2. FrameOK(th, stack[th][i])
            BY <1>1, <4>1 DEF AsyncInv, FramesOK
          <4> QED  BY <2>2, <4>1, <4>2 DEF FrameOK
        <3>2. QueuedOn(f) \subseteq {ActorOf[f]}
          BY <1>1, <2>1, <2>2 DEF QueuedOn, AsyncInv, EventsOK, EventOK
        <3> QED  BY <3>1, <3>2
      <2>3. \A th \in Threads : \A i \in DOMAIN stack[th] :
                stack[th][i].at = "resume" => ready[calling[stack[th][i].ctx]]
        BY <1>1, <2>1 DEF AsyncInv, FramesOK, FrameOK
      <2> QED  BY <1>1, <2>2, <2>3, OnePlace DEF ResumesOnItsActor
    <1> QED  BY <1>1, AsyncInvariant, PTL

(***************************************************************************)
(* A function that waits is resumed by whoever sets the result it waits    *)
(* for, unless another thread did so between the test of ready() in        *)
(* _asyncCall and the setObserver of _wait: on one thread no wake-up is    *)
(* lost.                                                                   *)
(***************************************************************************)
THEOREM WakeupsLostOnlyAcrossThreads == Spec => []LostOnlyAcrossThreads
    <1>1. ASSUME AsyncInv PROVE LostOnlyAcrossThreads
      <2> SUFFICES ASSUME NEW f \in Functions, Lost(f) PROVE waitedOn[f] # setBy[calling[f]]
        BY DEF LostOnlyAcrossThreads
      <2>1. calling[f] \in Contexts /\ f # None
        BY <1>1, AsyncAssumption DEF AsyncInv, TypeOK, Lost, Contexts
      <2>2. ~OnStack(calling[f])
        <3>1. \A th \in Threads : DOMAIN stack[th] = 1..Len(stack[th])
          BY <1>1 DEF AsyncInv, TypeOK
        <3> QED  BY <3>1 DEF OnStack, Lost, RunningOn
      <2> QED  BY <1>1, <2>1, <2>2 DEF AsyncInv, MissedAcrossThreads, Lost
    <1> QED  BY <1>1, AsyncInvariant, PTL
=============================================================================
