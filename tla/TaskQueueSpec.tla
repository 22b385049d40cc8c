--------------------------- MODULE TaskQueueSpec ---------------------------
(***************************************************************************)
(* What the queues of task control blocks promise: each queue is a         *)
(* sequence of entries, an entry is in at most one queue, and a walk       *)
(* visits the entries of a queue from the head.  The walk of the timer     *)
(* handler and of the signalling calls ends with the first entry it moves. *)
(***************************************************************************)
EXTENDS Integers, SequencesExt

CONSTANTS Queue, Tcb

VARIABLES
    content,    \* the sequence of entries of each queue
    walked,     \* the queue of the walk in progress
    index       \* the position the walk has reached, 0 without a walk

specVars == <<content, walked, index>>

Queued(t) == \E q \in Queue : Contains(content[q], t)

SpecInit ==
    /\ content = [q \in Queue |-> <<>>]
    /\ walked \in Queue
    /\ index = 0

AddEntry(q, t) ==
    /\ index = 0
    /\ ~Queued(t)
    /\ content' = [content EXCEPT ![q] = Append(@, t)]
    /\ UNCHANGED <<walked, index>>

RemoveTop(q) ==
    /\ index = 0
    /\ content[q] # <<>>
    /\ content' = [content EXCEPT ![q] = Tail(@)]
    /\ UNCHANGED <<walked, index>>

RemoveEntry(q, t) ==
    /\ index = 0
    /\ Contains(content[q], t)
    /\ content' = [content EXCEPT ![q] = RemoveFirst(@, t)]
    /\ UNCHANGED <<walked, index>>

WalkStart(q) ==
    /\ index = 0
    /\ content[q] # <<>>
    /\ walked' = q
    /\ index' = 1
    /\ UNCHANGED content

WalkPass ==
    /\ index > 0
    /\ index' = (index + 1) % (Len(content[walked]) + 1)
    /\ UNCHANGED <<content, walked>>

WalkMove(r) ==
    /\ index > 0
    /\ r # walked
    /\ content' = [content EXCEPT
                     ![walked] = RemoveAt(@, index),
                     ![r] = Append(@, content[walked][index])]
    /\ index' = 0
    /\ UNCHANGED walked

SpecNext ==
    \/ \E q \in Queue :
          RemoveTop(q) \/ WalkStart(q) \/ WalkMove(q)
    \/ \E q \in Queue, t \in Tcb : AddEntry(q, t) \/ RemoveEntry(q, t)
    \/ WalkPass

Spec == SpecInit /\ [][SpecNext]_specVars
=============================================================================
