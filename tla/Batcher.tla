------------------------------ MODULE Batcher ------------------------------
(***************************************************************************)
(* The Batcher through which frames reach a BLIPIO: any thread pushes      *)
(* items, one call to the owning actor is scheduled per batch, after a     *)
(* latency or at once, and whichever call of the batch comes first takes   *)
(* all its items.  Calls that come after it find a later generation and do *)
(* nothing; the owner may also take the items unasked (as _closed does).   *)
(*                                                                         *)
(* A step is what happens under the Batcher's lock.  A call scheduled with *)
(* a latency waits in a Timer first, so it may be overtaken by any other.  *)
(***************************************************************************)
EXTENDS Integers, Sequences

CONSTANTS
    Delayed,        \* is _latency greater than zero?
    Capacity,       \* _capacity, 0 for none
    MaxItems,       \* bound: how many items are pushed
    MaxUnasked      \* bound: the batches taken before pop(AnyGen) is ruled out

ASSUME BatcherAssumption ==
    /\ Delayed \in BOOLEAN
    /\ Capacity \in Nat
    /\ MaxItems \in Nat
    /\ MaxUnasked \in Nat

VARIABLES
    items,          \* _items, empty when it is null; items are numbered
    generation,     \* _generation
    scheduled,      \* _scheduled
    timers,         \* generations whose _processLater call waits in a Timer
    mailbox,        \* generations whose call waits in the actor's mailbox
    pushed,         \* how many items have been pushed
    processed       \* history: the items the actor has been given

batcherVars == <<items, generation, scheduled, timers, mailbox, pushed, processed>>

BatcherTypeOK ==
    /\ items \in Seq(1..MaxItems)
    /\ generation \in Nat
    /\ scheduled \in BOOLEAN
    /\ timers \subseteq Nat
    /\ mailbox \in Seq(Nat)
    /\ pushed \in 0..MaxItems
    /\ processed \in Seq(1..MaxItems)

BatcherInit ==
    /\ items = <<>>
    /\ generation = 0
    /\ scheduled = FALSE
    /\ timers = {}
    /\ mailbox = <<>>
    /\ pushed = 0
    /\ processed = <<>>
----------------------------------------------------------------------------
\* Mutants, each the way a slip in the code would change one definition.
Pop_KeepsScheduled(gen) ==
    IF gen < generation
    THEN UNCHANGED <<items, generation, scheduled, processed>>
    ELSE /\ processed' = processed \o items
         /\ items' = <<>>
         /\ generation' = generation + 1
         /\ UNCHANGED scheduled

Pop_Reversed(gen) ==
    IF gen < generation
    THEN UNCHANGED <<items, generation, scheduled, processed>>
    ELSE /\ processed' = processed \o [i \in 1..Len(items) |-> items[Len(items) + 1 - i]]
         /\ items' = <<>>
         /\ generation' = generation + 1
         /\ scheduled' = FALSE
----------------------------------------------------------------------------
\* The push that fills the batch makes _processNow schedule a call at once.
BecomesFull == Delayed /\ Capacity > 0 /\ Len(items) + 1 = Capacity

\* push: add the item, schedule a call if none is, and another if full.
Push ==
    /\ pushed < MaxItems
    /\ pushed' = pushed + 1
    /\ items' = Append(items, pushed + 1)
    /\ scheduled' = TRUE
    /\ LET atOnce == (IF ~scheduled /\ ~Delayed THEN <<generation>> ELSE <<>>)
                        \o (IF BecomesFull THEN <<generation>> ELSE <<>>)
       IN  mailbox' = mailbox \o atOnce
    /\ timers' = IF ~scheduled /\ Delayed THEN timers \union {generation} ELSE timers
    /\ UNCHANGED <<generation, processed>>

\* enqueueAfter: the Timer of a delayed call fires, into the mailbox.
Fire(gen) ==
    /\ gen \in timers
    /\ timers' = timers \ {gen}
    /\ mailbox' = Append(mailbox, gen)
    /\ UNCHANGED <<items, generation, scheduled, pushed, processed>>

\* pop(gen): nothing for a call of an earlier batch, otherwise all the items.
Pop(gen) ==
    IF gen < generation
    THEN UNCHANGED <<items, generation, scheduled, processed>>
    ELSE /\ processed' = processed \o items
         /\ items' = <<>>
         /\ generation' = generation + 1
         /\ scheduled' = FALSE

\* The actor runs a scheduled call ...
Process ==
    /\ mailbox # <<>>
    /\ mailbox' = Tail(mailbox)
    /\ Pop(Head(mailbox))
    /\ UNCHANGED <<timers, pushed>>

\* ... or takes what there is, if anything: pop(AnyGen).
ProcessAny ==
    /\ generation < MaxUnasked
    /\ Pop(generation)
    /\ UNCHANGED <<timers, mailbox, pushed>>

BatcherNext ==
    \/ Push
    \/ \E gen \in timers : Fire(gen)
    \/ Process
    \/ ProcessAny

BatcherSpec == BatcherInit /\ [][BatcherNext]_batcherVars

\* Timers fire, and the actor keeps running its mailbox.
BatcherFairSpec ==
    /\ BatcherSpec
    /\ WF_batcherVars(\E gen \in timers : Fire(gen))
    /\ WF_batcherVars(Process)
----------------------------------------------------------------------------
\* Is a call of this generation in the mailbox?
Waiting(gen) == \E i \in 1..Len(mailbox) : mailbox[i] = gen

(***************************************************************************)
(* No item is stranded: while there are items, a call that will take them, *)
(* one of the current generation, waits in a Timer or in the mailbox, in   *)
(* spite of all the calls left over from batches already taken.            *)
(***************************************************************************)
NoItemStranded == items # <<>> => generation \in timers \/ Waiting(generation)

(***************************************************************************)
(* A batch at its capacity does not wait for the latency: a call that will *)
(* take it is in the mailbox already.                                      *)
(***************************************************************************)
FullIsPrompt ==
    (Delayed /\ Capacity > 0 /\ Len(items) >= Capacity) => Waiting(generation)

(***************************************************************************)
(* Items are handed over once each, in the order they were pushed.         *)
(***************************************************************************)
InOrder == processed \o items = [i \in 1..pushed |-> i]

(***************************************************************************)
(* Everything pushed is eventually handed over.                            *)
(***************************************************************************)
AllProcessed == []<>(items = <<>>)
----------------------------------------------------------------------------
(***************************************************************************)
(* The inductive invariant: _scheduled means just that a call of the       *)
(* current generation is under way, and no call is ahead of it.            *)
(***************************************************************************)
ScheduledInv ==
    /\ items # <<>> => scheduled
    /\ scheduled => (generation \in timers \/ Waiting(generation))

NoneAhead ==
    /\ \A gen \in timers : gen <= generation
    /\ \A i \in 1..Len(mailbox) : mailbox[i] <= generation

BatcherInv == BatcherTypeOK /\ ScheduledInv /\ NoneAhead /\ FullIsPrompt /\ InOrder
============================================================================
