----------------------------- MODULE TaskQueue -----------------------------
(***************************************************************************)
(* The doubly linked queues of kernel/task_manager.c, pointer by pointer.  *)
(* A queue is a pointer to its first entry; prev of the first entry is the *)
(* last one; next of the last one is NULL.  The pointers of an entry that  *)
(* was removed keep their values.                                          *)
(*                                                                         *)
(* Callers add an entry that is in no queue and remove one that is, as     *)
(* QueuesMatchStates of TaskManager shows of the kernel.                   *)
(***************************************************************************)
EXTENDS Integers, SequencesExt

CONSTANTS Queue, Tcb, NULL

ASSUME TaskQueueAssumption == NULL \notin Tcb /\ IsFiniteSet(Tcb)

VARIABLES
    queue,      \* queue heads: wait_queue and the ready queues
    prev, next, \* the queue pointers of each control block
    tcb,        \* the variable of the loops that walk a queue
    walked      \* the queue being walked

queueVars == <<queue, prev, next, tcb, walked>>

(* The entries of a queue that begins with first, along its next pointers, *)
(* no more of them than any queue can have.                                *)
Following(pointers, first) ==
    LET from[n \in 0 .. Cardinality(Tcb) + 1] ==
            [t \in Tcb \cup {NULL} |->
                IF t = NULL \/ n = 0 THEN <<>>
                ELSE <<t>> \o from[n - 1][pointers[t]]]
    IN  from[Cardinality(Tcb) + 1][first]

Entries(q) == Following(next, queue[q])

Linked(t) == \E q \in Queue : Contains(Entries(q), t)

QueueInit ==
    /\ queue = [q \in Queue |-> NULL]
    /\ prev = [t \in Tcb |-> NULL]
    /\ next = [t \in Tcb |-> NULL]
    /\ tcb = NULL
    /\ walked \in Queue

-----------------------------------------------------------------------------
(* The three operations on the links, as records of heads and pointers.    *)

Links == [queue |-> queue, prev |-> prev, next |-> next]

(* Mutant of task_queue_add_entry: the next pointer of t is kept. *)
AddEntryKeepsNext(l, q, t) ==
    IF l.queue[q] = NULL
    THEN [l EXCEPT !.queue[q] = t, !.prev[t] = t]
    ELSE LET queue_end == l.prev[l.queue[q]]
         IN  [l EXCEPT !.prev = [@ EXCEPT ![t] = queue_end, ![l.queue[q]] = t],
                       !.next[queue_end] = t]

task_queue_add_entry(l, q, t) ==
    IF l.queue[q] = NULL
    THEN [queue |-> [l.queue EXCEPT ![q] = t],
          prev |-> [l.prev EXCEPT ![t] = t],
          next |-> [l.next EXCEPT ![t] = NULL]]
    ELSE LET queue_end == l.prev[l.queue[q]]
         IN  [queue |-> l.queue,
              prev |-> [l.prev EXCEPT ![t] = queue_end, ![l.queue[q]] = t],
              next |-> [l.next EXCEPT ![queue_end] = t, ![t] = NULL]]

task_queue_remove_top(l, q) ==
    LET top == l.queue[q]
        new == l.next[top]
    IN  IF top = NULL THEN l
        ELSE [l EXCEPT !.queue[q] = new,
                       !.prev = IF new = NULL THEN @
                                ELSE [@ EXCEPT ![new] = l.prev[top]]]

(* Mutant of task_queue_remove_entry: the first entry is not told of its   *)
(* new last one.                                                           *)
RemoveEntryKeepsEnd(l, q, t) ==
    IF l.queue[q] = t THEN task_queue_remove_top(l, q)
    ELSE [l EXCEPT !.next[l.prev[t]] = l.next[t],
                   !.prev = IF l.next[t] = NULL THEN @
                            ELSE [@ EXCEPT ![l.next[t]] = l.prev[t]]]

task_queue_remove_entry(l, q, t) ==
    IF l.queue[q] = t THEN task_queue_remove_top(l, q)
    ELSE LET after == IF l.next[t] # NULL THEN l.next[t] ELSE l.queue[q]
         IN  [l EXCEPT !.next[l.prev[t]] = l.next[t],
                       !.prev[after] = l.prev[t]]

Store(l) == queue' = l.queue /\ prev' = l.prev /\ next' = l.next

-----------------------------------------------------------------------------
Add(q, t) ==
    /\ tcb = NULL
    /\ ~Linked(t)
    /\ Store(task_queue_add_entry(Links, q, t))
    /\ UNCHANGED <<tcb, walked>>

RemoveTop(q) ==
    /\ tcb = NULL
    /\ queue[q] # NULL
    /\ Store(task_queue_remove_top(Links, q))
    /\ UNCHANGED <<tcb, walked>>

RemoveEntry(q, t) ==
    /\ tcb = NULL
    /\ Contains(Entries(q), t)
    /\ Store(task_queue_remove_entry(Links, q, t))
    /\ UNCHANGED <<tcb, walked>>

(* for (tcb = queue; tcb != NULL; tcb = tcb->next), as in systimer_handler,*)
(* sk_set_flag and sk_signal_semaphore: an entry is left in place, or it   *)
(* is moved to another queue and the loop goes on with its next pointer.   *)
WalkStart(q) ==
    /\ tcb = NULL
    /\ queue[q] # NULL
    /\ tcb' = queue[q]
    /\ walked' = q
    /\ UNCHANGED <<queue, prev, next>>

WalkPass ==
    /\ tcb # NULL
    /\ tcb' = next[tcb]
    /\ UNCHANGED <<queue, prev, next, walked>>

WalkMove(r) ==
    /\ tcb # NULL
    /\ r # walked
    /\ Store(task_queue_add_entry(
                task_queue_remove_entry(Links, walked, tcb), r, tcb))
    /\ tcb' = next'[tcb]
    /\ UNCHANGED walked

QueueNext ==
    \/ \E q \in Queue :
          RemoveTop(q) \/ WalkStart(q) \/ WalkMove(q)
    \/ \E q \in Queue, t \in Tcb : Add(q, t) \/ RemoveEntry(q, t)
    \/ WalkPass

QueueSpec == QueueInit /\ [][QueueNext]_queueVars

-----------------------------------------------------------------------------
(* Properties.                                                             *)

(* Whatever was added, removed from the top or from the middle, and left   *)
(* behind in stale pointers, the back links of every queue mirror its      *)
(* forward links, the first entry knows the last one, and no entry is in   *)
(* two queues; every pointer is a control block or NULL.                   *)
WellLinked ==
    /\ queue \in [Queue -> Tcb \cup {NULL}]
    /\ prev \in [Tcb -> Tcb \cup {NULL}] /\ next \in [Tcb -> Tcb \cup {NULL}]
    /\ tcb \in Tcb \cup {NULL}
    /\ \A q \in Queue :
         LET e == Entries(q)
         IN  /\ IsInjective(e)
             /\ e # <<>> => prev[e[1]] = e[Len(e)]
             /\ \A i \in 2 .. Len(e) : prev[e[i]] = e[i - 1]
    /\ \A q, r \in Queue :
         q # r => ToSet(Entries(q)) \cap ToSet(Entries(r)) = {}

(* The queues as sequences, and the place of a walk in its queue. *)
Content == [q \in Queue |-> Entries(q)]
Index == IF tcb = NULL THEN 0
         ELSE CHOOSE i \in DOMAIN Entries(walked) : Entries(walked)[i] = tcb

(* The pointers implement queues that are sequences: this is what lets the *)
(* other modules write a queue as a sequence, and what makes a loop over a *)
(* queue end with the first entry it moves.                                *)
Abstract == INSTANCE TaskQueueSpec WITH content <- Content, index <- Index

ImplementsSequences == Abstract!Spec
=============================================================================
