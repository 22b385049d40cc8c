-------------------------- MODULE TaskQueueProofs --------------------------
(***************************************************************************)
(* The links of TaskQueue represent sequences, for any number of control   *)
(* blocks and queues.  First, the entries found along the next pointers    *)
(* are the sequence that the pointers describe; then, each operation on    *)
(* the links is one on that sequence; last, each step is one of            *)
(* TaskQueueSpec.                                                          *)
(***************************************************************************)
EXTENDS TaskQueue, QueueLemmas, FiniteSetTheorems

Pointer == Tcb \cup {NULL}

(* from is the function that Following defines, up to k entries. *)
IsFrom(pointers, k, from) ==
    from = [n \in 0 .. k |->
              [t \in Pointer |->
                 IF t = NULL \/ n = 0 THEN <<>>
                 ELSE <<t>> \o from[n - 1][pointers[t]]]]

(* A function of that form exists: it is built one entry at a time. *)
LEMMA FromExists ==
    ASSUME NEW pointers \in [Tcb -> Pointer], NEW k \in Nat
    PROVE  \E from : IsFrom(pointers, k, from)
<1> DEFINE P(m) == \E from : IsFrom(pointers, m, from)
           Bad == {m \in Nat : ~P(m)}
<1>1. P(0)
  <2> DEFINE f == [n \in 0 .. 0 |-> [t \in Pointer |-> <<>>]]
  <2>1. f = [n \in 0 .. 0 |->
              [t \in Pointer |->
                 IF t = NULL \/ n = 0 THEN <<>>
                 ELSE <<t>> \o f[n - 1][pointers[t]]]]
    OBVIOUS
  <2> QED BY <2>1 DEF IsFrom
<1>2. ASSUME NEW m \in Nat, P(m) PROVE P(m + 1)
  <2>1. PICK f : IsFrom(pointers, m, f)
    BY <1>2
  <2> DEFINE At(n, t) == IF t = NULL \/ n = 0 THEN <<>>
                         ELSE <<t>> \o f[n - 1][pointers[t]]
             g == [n \in 0 .. m + 1 |-> [t \in Pointer |-> At(n, t)]]
  <2>2. \A n \in 0 .. m : g[n] = f[n]
    <3> SUFFICES ASSUME NEW n \in 0 .. m PROVE g[n] = f[n]
      OBVIOUS
    <3>1. f[n] = [t \in Pointer |-> At(n, t)]
      <4> DEFINE F == [i \in 0 .. m |-> [t \in Pointer |-> At(i, t)]]
      <4>1. f = F
        BY <2>1, Zenon DEF IsFrom
      <4>2. F[n] = [t \in Pointer |-> At(n, t)]
        OBVIOUS
      <4> HIDE DEF F
      <4> QED BY <4>1, <4>2
    <3>2. n \in 0 .. m + 1
      OBVIOUS
    <3>3. g[n] = [t \in Pointer |-> At(n, t)]
      BY <3>2
    <3> QED BY <3>1, <3>3
  <2>3. \A n \in 0 .. m + 1, t \in Pointer :
           At(n, t) = IF t = NULL \/ n = 0 THEN <<>>
                      ELSE <<t>> \o g[n - 1][pointers[t]]
    <3> SUFFICES ASSUME NEW n \in 0 .. m + 1, NEW t \in Pointer, t # NULL, n # 0
                 PROVE  At(n, t) = <<t>> \o g[n - 1][pointers[t]]
      OBVIOUS
    <3>1. n - 1 \in 0 .. m
      OBVIOUS
    <3>2. g[n - 1] = f[n - 1]
      BY <2>2, <3>1
    <3> QED BY <3>2
  <2>4. IsFrom(pointers, m + 1, g)
    BY <2>3, Zenon DEF IsFrom
  <2> QED BY <2>4
<1>3. Bad = {}
  <2> SUFFICES ASSUME Bad # {} PROVE FALSE
    OBVIOUS
  <2> HIDE DEF P
  <2>1. PICK m \in Bad : \A n \in Bad : m <= n
    BY SmallestExists
  <2>2. m # 0
    BY <1>1, <2>1
  <2>3. m - 1 \in Nat /\ (m - 1) + 1 = m /\ m - 1 \notin Bad
    BY <2>1, <2>2
  <2>4. P(m - 1)
    BY <2>3
  <2> QED BY <1>2, <2>1, <2>3, <2>4
<1> HIDE DEF P
<1>4. P(k)
  BY <1>3
<1> QED BY <1>4 DEF P

(* Its value is given by the value for one entry less. *)
LEMMA FromStep ==
    ASSUME NEW pointers \in [Tcb -> Pointer], NEW k \in Nat, NEW from,
           IsFrom(pointers, k, from), NEW n \in 0 .. k, NEW t \in Pointer
    PROVE  from[n][t] = IF t = NULL \/ n = 0 THEN <<>>
                        ELSE <<t>> \o from[n - 1][pointers[t]]
<1> DEFINE F == [i \in 0 .. k |->
                   [u \in Pointer |->
                     IF u = NULL \/ i = 0 THEN <<>>
                     ELSE <<u>> \o from[i - 1][pointers[u]]]]
<1>1. from = F
  BY Zenon DEF IsFrom
<1>2. F[n][t] = IF t = NULL \/ n = 0 THEN <<>>
                ELSE <<t>> \o from[n - 1][pointers[t]]
  OBVIOUS
<1> HIDE DEF F
<1> QED BY <1>1, <1>2

(* Following is a value of such a function. *)
LEMMA FollowingUnfolds ==
    ASSUME NEW pointers \in [Tcb -> Pointer], NEW first
    PROVE  \E from :
              /\ IsFrom(pointers, Cardinality(Tcb) + 1, from)
              /\ Following(pointers, first) = from[Cardinality(Tcb) + 1][first]
<1>1. Cardinality(Tcb) + 1 \in Nat
  BY TaskQueueAssumption, FS_CardinalityType
<1>2. PICK f : IsFrom(pointers, Cardinality(Tcb) + 1, f)
  BY <1>1, FromExists
<1> QED BY <1>2 DEF Following, IsFrom, Pointer

(* The entry at a position, NULL after the last. *)
EntryAt(s, i) == IF i \in DOMAIN s THEN s[i] ELSE NULL

(* The entries that follow each other by the pointers are the queue. *)
LEMMA FollowingIs ==
    ASSUME NEW pointers \in [Tcb -> Pointer],
           NEW s \in Seq(Tcb), IsInjective(s),
           \A i \in 1 .. Len(s) : pointers[s[i]] = EntryAt(s, i + 1)
    PROVE  Following(pointers, EntryAt(s, 1)) = s
<1> DEFINE N == Cardinality(Tcb) + 1
           L == Len(s)
           Rest(j) == [i \in 1 .. j |-> s[(L - j) + i]]
<1>1. /\ L \in Nat /\ DOMAIN s = 1 .. L
      /\ \A i \in 1 .. L : s[i] \in Tcb
      /\ NULL \notin Tcb
  BY TaskQueueAssumption
<1>2. N \in Nat /\ L <= N - 1
  <2>1. IsFiniteSet(Tcb) /\ Cardinality(Tcb) \in Nat
    BY TaskQueueAssumption, FS_CardinalityType
  <2>2. s \in Injection(1 .. L, Tcb)
    BY <1>1 DEF Injection, IsInjective
  <2>3. Cardinality(1 .. L) = L
    <3>1. 1 \in Int /\ L \in Int
      BY <1>1
    <3>2. Cardinality(1 .. L) = IF 1 > L THEN 0 ELSE L - 1 + 1
      BY <3>1, FS_Interval
    <3> QED BY <1>1, <3>2
  <2>4. Cardinality(1 .. L) <= Cardinality(Tcb)
    BY <2>1, <2>2, FS_Injection
  <2> QED BY <2>1, <2>3, <2>4
<1>3. PICK from : /\ IsFrom(pointers, N, from)
                  /\ Following(pointers, EntryAt(s, 1)) = from[N][EntryAt(s, 1)]
  BY FollowingUnfolds
<1>4. Len(s) = L
  OBVIOUS
<1> HIDE DEF N, L
<1> DEFINE P(j) == \A n \in j .. N : from[n][EntryAt(s, (L - j) + 1)] = Rest(j)
           Bad == {j \in 0 .. L : ~P(j)}
<1>5. P(0)
  <2> SUFFICES ASSUME NEW n \in 0 .. N PROVE from[n][EntryAt(s, L + 1)] = <<>>
    BY <1>1
  <2>1. EntryAt(s, L + 1) = NULL
    BY <1>1 DEF EntryAt
  <2>2. NULL \in Pointer
    BY DEF Pointer
  <2>3. from[n][NULL] = IF NULL = NULL \/ n = 0 THEN <<>>
                        ELSE <<NULL>> \o from[n - 1][pointers[NULL]]
    BY <1>2, <1>3, <2>2, FromStep
  <2> QED BY <2>1, <2>3
<1>6. ASSUME NEW j \in 1 .. L, P(j - 1) PROVE P(j)
  <2> SUFFICES ASSUME NEW n \in j .. N
               PROVE  from[n][EntryAt(s, (L - j) + 1)] = Rest(j)
    OBVIOUS
  <2> DEFINE k == (L - j) + 1
  <2>1. /\ k \in 1 .. L /\ EntryAt(s, k) = s[k] /\ s[k] \in Tcb
        /\ s[k] # NULL
        /\ n \in 0 .. N /\ n # 0 /\ n - 1 \in (j - 1) .. N
    BY <1>1, <1>2 DEF EntryAt
  <2>2. from[n][s[k]] = <<s[k]>> \o from[n - 1][pointers[s[k]]]
    <3>1. s[k] \in Pointer /\ n \in 0 .. N
      BY <2>1 DEF Pointer
    <3> HIDE DEF k
    <3>2. from[n][s[k]] = IF s[k] = NULL \/ n = 0 THEN <<>>
                          ELSE <<s[k]>> \o from[n - 1][pointers[s[k]]]
      BY <1>2, <1>3, <3>1, FromStep
    <3> QED BY <2>1, <3>2
  <2>3. pointers[s[k]] = EntryAt(s, (L - (j - 1)) + 1)
    <3>1. k + 1 = (L - (j - 1)) + 1
      BY <1>1
    <3>2. pointers[s[k]] = EntryAt(s, k + 1)
      BY <1>4, <2>1
    <3> QED BY <3>1, <3>2
  <2>4. from[n - 1][pointers[s[k]]] = Rest(j - 1)
    BY <1>6, <2>1, <2>3
  <2>5. <<s[k]>> \o Rest(j - 1) = Rest(j)
    <3> DEFINE a == <<s[k]>>
               b == Rest(j - 1)
               c == Rest(j)
    <3>1. a \in Seq(Tcb) /\ Len(a) = 1 /\ a[1] = s[k]
      <4> HIDE DEF k
      <4> QED BY <2>1
    <3>2. \A i \in 1 .. j - 1 : (L - (j - 1)) + i \in 1 .. L
      BY <1>1
    <3>3. b \in [1 .. j - 1 -> Tcb] /\ j - 1 \in Nat
      BY <1>1, <3>2
    <3>4. b \in Seq(Tcb) /\ Len(b) = j - 1
      BY <3>3, SeqDef
    <3>5. \A i \in 1 .. j : (L - j) + i \in 1 .. L
      BY <1>1
    <3>6. c \in [1 .. j -> Tcb] /\ j \in Nat
      BY <1>1, <3>5
    <3>7. c \in Seq(Tcb) /\ Len(c) = j
      BY <3>6, SeqDef
    <3>8. /\ a \o b \in Seq(Tcb) /\ Len(a \o b) = j
          /\ \A i \in 1 .. j : (a \o b)[i] = IF i <= 1 THEN a[i] ELSE b[i - 1]
      <4> HIDE DEF a, b
      <4>1. Len(a) + Len(b) = j /\ j \in Nat
        BY <1>1, <3>1, <3>4
      <4>2. /\ a \o b \in Seq(Tcb)
            /\ Len(a \o b) = Len(a) + Len(b)
            /\ \A i \in 1 .. Len(a) + Len(b) :
                  (a \o b)[i] = IF i <= Len(a) THEN a[i] ELSE b[i - Len(a)]
        BY <3>1, <3>4, ConcatProperties
      <4>3. \A i \in 1 .. j : (a \o b)[i] = IF i <= 1 THEN a[i] ELSE b[i - 1]
        BY <3>1, <4>1, <4>2
      <4> QED BY <4>1, <4>2, <4>3
    <3>9. \A i \in 1 .. j : (a \o b)[i] = c[i]
      <4> SUFFICES ASSUME NEW i \in 1 .. j PROVE (a \o b)[i] = c[i]
        OBVIOUS
      <4>1. c[i] = s[(L - j) + i]
        OBVIOUS
      <4>2. CASE i = 1
        BY <3>1, <3>8, <4>1, <4>2
      <4>3. CASE i > 1
        <5>1. i - 1 \in 1 .. j - 1 /\ (L - (j - 1)) + (i - 1) = (L - j) + i
          BY <1>1, <4>3
        <5>2. b[i - 1] = s[(L - (j - 1)) + (i - 1)]
          BY <5>1
        <5>3. (a \o b)[i] = b[i - 1]
          <6> HIDE DEF a, b, c
          <6> QED BY <3>8, <4>3
        <5> HIDE DEF a, b, c
        <5> QED BY <4>1, <5>1, <5>2, <5>3
      <4> QED BY <4>2, <4>3
    <3> HIDE DEF a, b, c
    <3>10. a \o b = c
      BY <3>7, <3>8, <3>9, SeqEqual
    <3> QED BY <3>10 DEF a, b, c
  <2> QED BY <2>1, <2>2, <2>4, <2>5
<1>7. Bad = {}
  <2> SUFFICES ASSUME Bad # {} PROVE FALSE
    OBVIOUS
  <2> HIDE DEF P
  <2>0. Bad \subseteq Nat
    BY <1>1
  <2>1. PICK j \in Bad : \A i \in Bad : j <= i
    <3> HIDE DEF Bad
    <3> QED BY <2>0, SmallestExists
  <2>2. j \in 1 .. L /\ j - 1 \in 0 .. L /\ j - 1 \notin Bad
    BY <1>1, <1>5, <2>1
  <2> QED BY <1>6, <2>1, <2>2
<1>8. P(L)
  <2> HIDE DEF P
  <2> QED BY <1>1, <1>7
<1>9. from[N][EntryAt(s, 1)] = Rest(L)
  <2>1. N \in L .. N /\ (L - L) + 1 = 1
    BY <1>1, <1>2
  <2> QED BY <1>8, <2>1
<1>10. Rest(L) = s
  <2>1. \A i \in 1 .. L : (L - L) + i = i
    BY <1>1
  <2> QED BY <1>1, <2>1
<1> QED BY <1>3, <1>9, <1>10

-----------------------------------------------------------------------------
(* What the pointers of a queue with the entries s are, and of all queues. *)

LinksType == [queue : [Queue -> Pointer],
              prev : [Tcb -> Pointer], next : [Tcb -> Pointer]]

Back(s, i) == IF i = 1 THEN s[Len(s)] ELSE s[i - 1]

QueueOf(l, q, s) ==
    /\ IsInjective(s)
    /\ l.queue[q] = EntryAt(s, 1)
    /\ \A i \in 1 .. Len(s) : /\ l.next[s[i]] = EntryAt(s, i + 1)
                              /\ l.prev[s[i]] = Back(s, i)

Represents(l, c) ==
    /\ l \in LinksType
    /\ c \in [Queue -> Seq(Tcb)]
    /\ \A q \in Queue : QueueOf(l, q, c[q])
    /\ \A q, r \in Queue : q # r => ToSet(c[q]) \cap ToSet(c[r]) = {}

(* The entries that are found along the pointers are those represented. *)
LEMMA EntriesRepresented ==
    ASSUME NEW l, NEW c, Represents(l, c), NEW q \in Queue
    PROVE  Following(l.next, l.queue[q]) = c[q]
<1>1. /\ l.next \in [Tcb -> Pointer]
      /\ c[q] \in Seq(Tcb) /\ IsInjective(c[q])
      /\ \A i \in 1 .. Len(c[q]) : l.next[c[q][i]] = EntryAt(c[q], i + 1)
      /\ l.queue[q] = EntryAt(c[q], 1)
  BY DEF Represents, QueueOf, LinksType
<1> QED BY <1>1, FollowingIs

(* A queue whose pointers do not change keeps its entries. *)
LEMMA QueueKept ==
    ASSUME NEW l, NEW m, NEW q \in Queue, NEW s \in Seq(Tcb), QueueOf(l, q, s),
           m.queue[q] = l.queue[q],
           \A t \in ToSet(s) : m.prev[t] = l.prev[t] /\ m.next[t] = l.next[t]
    PROVE  QueueOf(m, q, s)
<1>1. \A i \in 1 .. Len(s) : s[i] \in ToSet(s)
  BY DEF ToSet
<1> QED BY <1>1 DEF QueueOf

(* Adding an entry that is in no queue puts it behind the last one. *)
LEMMA AddRepresents ==
    ASSUME NEW l, NEW c, Represents(l, c), NEW q \in Queue, NEW t \in Tcb,
           \A r \in Queue : t \notin ToSet(c[r])
    PROVE  /\ Represents(task_queue_add_entry(l, q, t),
                         [c EXCEPT ![q] = Append(@, t)])
           /\ task_queue_add_entry(l, q, t).next[t] = NULL
<1> DEFINE s == c[q]
           m == task_queue_add_entry(l, q, t)
           d == [c EXCEPT ![q] = Append(@, t)]
           end == s[Len(s)]
<1>1. /\ l.queue \in [Queue -> Pointer]
      /\ l.prev \in [Tcb -> Pointer] /\ l.next \in [Tcb -> Pointer]
      /\ c \in [Queue -> Seq(Tcb)]
      /\ s \in Seq(Tcb) /\ Len(s) \in Nat /\ DOMAIN s = 1 .. Len(s)
      /\ IsInjective(s)
      /\ NULL \notin Tcb
      /\ \A r \in Queue : QueueOf(l, r, c[r])
      /\ \A r, u \in Queue : r # u => ToSet(c[r]) \cap ToSet(c[u]) = {}
  BY TaskQueueAssumption DEF Represents, LinksType, QueueOf
<1>2. /\ \A i \in 1 .. Len(s) : s[i] \in Tcb /\ s[i] # t /\ s[i] \in ToSet(s)
      /\ l.queue[q] = EntryAt(s, 1)
      /\ \A i \in 1 .. Len(s) : l.next[s[i]] = EntryAt(s, i + 1)
                                  /\ l.prev[s[i]] = Back(s, i)
  <2>1. \A i \in 1 .. Len(s) : s[i] \in Tcb /\ s[i] \in ToSet(s)
    BY <1>1 DEF ToSet
  <2>2. t \notin ToSet(s)
    OBVIOUS
  <2>3. QueueOf(l, q, s)
    BY <1>1
  <2> QED BY <2>1, <2>2, <2>3 DEF QueueOf
<1>3. /\ d \in [Queue -> Seq(Tcb)] /\ d[q] = Append(s, t)
      /\ \A r \in Queue : r # q => d[r] = c[r]
      /\ IsInjective(d[q]) /\ ToSet(d[q]) = ToSet(s) \cup {t}
  <2>1. Append(s, t) \in Seq(Tcb)
    BY <1>1
  <2>2. IsInjective(Append(s, t)) /\ ToSet(Append(s, t)) = ToSet(s) \cup {t}
    BY <1>1, AppendDistinct
  <2> QED BY <1>1, <2>1, <2>2
<1>4. /\ Len(d[q]) = Len(s) + 1
      /\ \A i \in 1 .. Len(s) : d[q][i] = s[i]
      /\ d[q][Len(s) + 1] = t
      /\ DOMAIN d[q] = 1 .. Len(s) + 1
  BY <1>1, <1>3
<1>5. /\ m.queue = IF s = <<>> THEN [l.queue EXCEPT ![q] = t] ELSE l.queue
      /\ m.prev = IF s = <<>> THEN [l.prev EXCEPT ![t] = t]
                  ELSE [l.prev EXCEPT ![t] = end, ![s[1]] = t]
      /\ m.next = IF s = <<>> THEN [l.next EXCEPT ![t] = NULL]
                  ELSE [l.next EXCEPT ![end] = t, ![t] = NULL]
      /\ m = [queue |-> m.queue, prev |-> m.prev, next |-> m.next]
  <2>1. CASE s = <<>>
    <3>1. l.queue[q] = NULL
      BY <1>1, <1>2, <2>1 DEF EntryAt
    <3> QED BY <2>1, <3>1 DEF task_queue_add_entry
  <2>2. CASE s # <<>>
    <3>1. /\ 1 \in 1 .. Len(s) /\ l.queue[q] = s[1] /\ s[1] # NULL
          /\ l.prev[s[1]] = end
      BY <1>1, <1>2, <2>2 DEF EntryAt, Back
    <3> QED BY <2>2, <3>1 DEF task_queue_add_entry
  <2> QED BY <2>1, <2>2
<1>6. m \in LinksType
  <2>1. s # <<>> => end \in Tcb /\ s[1] \in Tcb
    BY <1>1, <1>2
  <2>2. /\ m.queue \in [Queue -> Pointer] /\ m.prev \in [Tcb -> Pointer]
        /\ m.next \in [Tcb -> Pointer]
    <3> HIDE DEF m, end
    <3>1. CASE s = <<>>
      BY <1>1, <1>5, <3>1 DEF Pointer
    <3>2. CASE s # <<>>
      <4>1. end \in Pointer /\ t \in Pointer /\ NULL \in Pointer
        BY <2>1, <3>2 DEF Pointer
      <4>2. m.prev = [l.prev EXCEPT ![t] = end, ![s[1]] = t]
        BY <1>5, <3>2
      <4>3. m.next = [l.next EXCEPT ![end] = t, ![t] = NULL]
        BY <1>5, <3>2
      <4>4. m.prev \in [Tcb -> Pointer]
        BY <1>1, <4>1, <4>2
      <4>5. m.next \in [Tcb -> Pointer]
        BY <1>1, <4>1, <4>3
      <4> QED BY <1>1, <1>5, <3>2, <4>4, <4>5
    <3> QED BY <3>1, <3>2
  <2> HIDE DEF m
  <2> QED BY <1>5, <2>2 DEF LinksType
<1>7. /\ m.next[t] = NULL
      /\ m.queue[q] = EntryAt(d[q], 1)
      /\ \A i \in 1 .. Len(d[q]) : m.next[d[q][i]] = EntryAt(d[q], i + 1)
                                     /\ m.prev[d[q][i]] = Back(d[q], i)
  <2>1. CASE s = <<>>
    <3>1. Len(s) = 0 /\ Len(d[q]) = 1 /\ d[q][1] = t /\ DOMAIN d[q] = 1 .. 1
      BY <1>1, <1>4, <2>1
    <3>2. m.queue[q] = t /\ m.prev[t] = t /\ m.next[t] = NULL
      <4> HIDE DEF m
      <4> QED BY <1>1, <1>5, <2>1
    <3> HIDE DEF m, d
    <3> QED BY <3>1, <3>2 DEF EntryAt, Back
  <2>2. CASE s # <<>>
    <3>1. /\ Len(s) >= 1 /\ end \in Tcb /\ s[1] \in Tcb /\ end # t /\ s[1] # t
          /\ l.queue[q] = s[1]
      BY <1>1, <1>2, <2>2 DEF EntryAt
    <3>2. /\ m.queue[q] = s[1] /\ m.next[t] = NULL /\ m.next[end] = t
          /\ m.prev[t] = end /\ m.prev[s[1]] = t
          /\ \A u \in Tcb \ {t, end} : m.next[u] = l.next[u]
          /\ \A u \in Tcb \ {t, s[1]} : m.prev[u] = l.prev[u]
      <4> HIDE DEF m, end
      <4> QED BY <1>1, <1>5, <2>2, <3>1
    <3>3. \A i \in 1 .. Len(s) : (s[i] = end => i = Len(s)) /\ (s[i] = s[1] => i = 1)
      BY <1>1, <3>1 DEF IsInjective
    <3> HIDE DEF m, d
    <3>4. m.queue[q] = EntryAt(d[q], 1)
      BY <1>1, <1>4, <3>1, <3>2 DEF EntryAt
    <3>5. ASSUME NEW i \in 1 .. Len(d[q])
          PROVE  m.next[d[q][i]] = EntryAt(d[q], i + 1)
      <4>1. CASE i = Len(s) + 1
        BY <1>1, <1>4, <3>2, <4>1 DEF EntryAt
      <4>2. CASE i = Len(s)
        BY <1>1, <1>4, <3>1, <3>2, <4>2 DEF EntryAt
      <4>3. CASE i < Len(s)
        <5>1. i \in 1 .. Len(s) /\ i + 1 \in 1 .. Len(s) /\ i + 1 \in 1 .. Len(s) + 1
          BY <1>1, <4>3
        <5>2. s[i] \in Tcb \ {t, end}
          BY <1>2, <3>3, <4>3, <5>1
        <5> QED BY <1>1, <1>2, <1>4, <3>2, <5>1, <5>2 DEF EntryAt
      <4> QED BY <1>1, <1>4, <4>1, <4>2, <4>3
    <3>6. ASSUME NEW i \in 1 .. Len(d[q])
          PROVE  m.prev[d[q][i]] = Back(d[q], i)
      <4>1. CASE i = Len(s) + 1
        <5>1. i # 1 /\ i - 1 = Len(s) /\ Len(s) \in 1 .. Len(s)
          BY <1>1, <3>1, <4>1
        <5> QED BY <1>4, <3>2, <4>1, <5>1 DEF Back
      <4>2. CASE i = 1
        BY <1>1, <1>4, <3>1, <3>2, <4>2 DEF Back
      <4>3. CASE i # 1 /\ i <= Len(s)
        <5>1. i \in 1 .. Len(s) /\ i - 1 \in 1 .. Len(s)
          BY <1>1, <4>3
        <5>2. s[i] \in Tcb \ {t, s[1]}
          BY <1>2, <3>3, <4>3, <5>1
        <5>3. d[q][i] = s[i] /\ d[q][i - 1] = s[i - 1]
          BY <1>4, <5>1
        <5>4. m.prev[s[i]] = l.prev[s[i]]
          BY <3>2, <5>2
        <5> QED BY <1>2, <4>3, <5>1, <5>3, <5>4 DEF Back
      <4> QED BY <1>1, <1>4, <4>1, <4>2, <4>3
    <3> QED BY <3>2, <3>4, <3>5, <3>6
  <2> QED BY <2>1, <2>2
<1>8. ASSUME NEW r \in Queue, r # q PROVE QueueOf(m, r, d[r])
  <2>1. \A u \in ToSet(c[r]) : u \in Tcb /\ u # t /\ u \notin ToSet(s)
    <3>1. c[r] \in Seq(Tcb) /\ t \notin ToSet(c[r])
      BY <1>1
    <3>2. ToSet(c[r]) \cap ToSet(s) = {}
      BY <1>1, <1>8
    <3>3. ToSet(c[r]) \subseteq Tcb
      BY <3>1 DEF ToSet
    <3> QED BY <3>1, <3>2, <3>3
  <2>2. s # <<>> => end \in ToSet(s) /\ s[1] \in ToSet(s) /\ end \in Tcb /\ s[1] \in Tcb
    BY <1>1, <1>2
  <2>3. m.queue[r] = l.queue[r]
    <3> HIDE DEF m
    <3> QED BY <1>1, <1>5, <1>8
  <2>4. \A u \in ToSet(c[r]) : m.prev[u] = l.prev[u] /\ m.next[u] = l.next[u]
    <3> HIDE DEF m, end
    <3> QED BY <1>1, <1>5, <2>1, <2>2
  <2>5. d[r] = c[r] /\ c[r] \in Seq(Tcb) /\ QueueOf(l, r, c[r])
    BY <1>1, <1>3, <1>8
  <2> HIDE DEF m, d
  <2> QED BY <2>3, <2>4, <2>5, QueueKept
<1>9. \A r, u \in Queue : r # u => ToSet(d[r]) \cap ToSet(d[u]) = {}
  <2>1. \A r \in Queue : t \notin ToSet(c[r])
    OBVIOUS
  <2> HIDE DEF d
  <2>2. ASSUME NEW r \in Queue, NEW u \in Queue, r # u
        PROVE  ToSet(d[r]) \cap ToSet(d[u]) = {}
    <3>1. ToSet(c[r]) \cap ToSet(c[u]) = {} /\ t \notin ToSet(c[r]) /\ t \notin ToSet(c[u])
      BY <1>1, <2>1, <2>2
    <3>2. CASE r = q
      BY <1>3, <2>2, <3>1, <3>2
    <3>3. CASE u = q
      BY <1>3, <2>2, <3>1, <3>3
    <3>4. CASE r # q /\ u # q
      BY <1>3, <3>1, <3>4
    <3> QED BY <3>2, <3>3, <3>4
  <2> QED BY <2>2
<1>10. QueueOf(m, q, d[q])
  <2> HIDE DEF m, d
  <2> QED BY <1>3, <1>7 DEF QueueOf
<1> HIDE DEF m, d
<1>11. Represents(m, d)
  BY <1>3, <1>6, <1>8, <1>9, <1>10 DEF Represents
<1> QED BY <1>7, <1>11 DEF m, d

(* A queue whose entries are replaced by some of them leaves the others as *)
(* they are.                                                               *)
LEMMA ReplaceRepresents ==
    ASSUME NEW l, NEW c, Represents(l, c), NEW q \in Queue,
           NEW m \in LinksType, NEW u \in Seq(Tcb), QueueOf(m, q, u),
           ToSet(u) \subseteq ToSet(c[q]),
           \A r \in Queue : r # q => m.queue[r] = l.queue[r],
           \A x \in Tcb : x \notin ToSet(c[q])
                            => m.prev[x] = l.prev[x] /\ m.next[x] = l.next[x]
    PROVE  Represents(m, [c EXCEPT ![q] = u])
<1> DEFINE d == [c EXCEPT ![q] = u]
<1>1. /\ c \in [Queue -> Seq(Tcb)]
      /\ \A r \in Queue : c[r] \in Seq(Tcb) /\ QueueOf(l, r, c[r])
      /\ \A r, w \in Queue : r # w => ToSet(c[r]) \cap ToSet(c[w]) = {}
  BY DEF Represents
<1>2. /\ d \in [Queue -> Seq(Tcb)] /\ d[q] = u
      /\ \A r \in Queue : r # q => d[r] = c[r]
  BY <1>1
<1> HIDE DEF d
<1>3. ASSUME NEW r \in Queue PROVE QueueOf(m, r, d[r])
  <2>1. CASE r = q
    BY <1>2, <2>1
  <2>2. CASE r # q
    <3>1. ToSet(c[r]) \subseteq Tcb
      <4>1. c[r] \in Seq(Tcb)
        BY <1>1
      <4> QED BY <4>1 DEF ToSet
    <3>2. ToSet(c[r]) \cap ToSet(c[q]) = {}
      BY <1>1, <2>2
    <3>3. /\ m.queue[r] = l.queue[r]
          /\ \A x \in ToSet(c[r]) : m.prev[x] = l.prev[x] /\ m.next[x] = l.next[x]
      BY <2>2, <3>1, <3>2
    <3>4. c[r] \in Seq(Tcb) /\ QueueOf(l, r, c[r])
      BY <1>1
    <3>5. QueueOf(m, r, c[r])
      BY <3>3, <3>4, QueueKept
    <3> QED BY <1>2, <2>2, <3>5
  <2> QED BY <2>1, <2>2
<1>4. ASSUME NEW r \in Queue, NEW w \in Queue, r # w
      PROVE  ToSet(d[r]) \cap ToSet(d[w]) = {}
  <2>1. ToSet(c[r]) \cap ToSet(c[w]) = {}
    BY <1>1, <1>4
  <2>2. ToSet(d[r]) \subseteq ToSet(c[r]) /\ ToSet(d[w]) \subseteq ToSet(c[w])
    BY <1>2
  <2> QED BY <2>1, <2>2
<1>5. Represents(m, d)
  BY <1>2, <1>3, <1>4 DEF Represents
<1> QED BY <1>5 DEF d

(* Removing the first entry. *)
LEMMA RemoveTopRepresents ==
    ASSUME NEW l, NEW c, Represents(l, c), NEW q \in Queue, c[q] # <<>>
    PROVE  Represents(task_queue_remove_top(l, q), [c EXCEPT ![q] = Tail(@)])
<1> DEFINE s == c[q]
           m == task_queue_remove_top(l, q)
           u == Tail(s)
<1>1. /\ l.queue \in [Queue -> Pointer]
      /\ l.prev \in [Tcb -> Pointer] /\ l.next \in [Tcb -> Pointer]
      /\ l = [queue |-> l.queue, prev |-> l.prev, next |-> l.next]
      /\ c \in [Queue -> Seq(Tcb)]
      /\ s \in Seq(Tcb) /\ Len(s) \in Nat \ {0} /\ DOMAIN s = 1 .. Len(s)
      /\ IsInjective(s) /\ QueueOf(l, q, s)
      /\ NULL \notin Tcb
  BY TaskQueueAssumption DEF Represents, LinksType, QueueOf
<1>2. /\ \A i \in 1 .. Len(s) : s[i] \in Tcb /\ s[i] \in ToSet(s) /\ s[i] # NULL
      /\ l.queue[q] = s[1] /\ l.prev[s[1]] = s[Len(s)]
      /\ l.next[s[1]] = EntryAt(s, 2)
      /\ \A i \in 1 .. Len(s) : l.next[s[i]] = EntryAt(s, i + 1)
                                  /\ l.prev[s[i]] = Back(s, i)
  <2>1. \A i \in 1 .. Len(s) : s[i] \in Tcb /\ s[i] \in ToSet(s) /\ s[i] # NULL
    BY <1>1 DEF ToSet
  <2>2. 1 \in 1 .. Len(s) /\ 1 + 1 = 2
    BY <1>1
  <2> QED BY <1>1, <2>1, <2>2 DEF QueueOf, EntryAt, Back
<1>3. /\ u \in Seq(Tcb) /\ IsInjective(u) /\ ToSet(u) \subseteq ToSet(s)
      /\ Len(u) = Len(s) - 1 /\ DOMAIN u = 1 .. Len(s) - 1
      /\ \A i \in 1 .. Len(s) - 1 : u[i] = s[i + 1]
  <2>1. u \in Seq(Tcb) /\ IsInjective(u) /\ ToSet(u) = ToSet(s) \ {Head(s)}
    BY <1>1, TailDistinct
  <2> QED BY <1>1, <2>1
<1>4. /\ m.queue = [l.queue EXCEPT ![q] = EntryAt(s, 2)]
      /\ m.prev = IF Len(s) = 1 THEN l.prev
                  ELSE [l.prev EXCEPT ![s[2]] = s[Len(s)]]
      /\ m.next = l.next
      /\ m = [queue |-> m.queue, prev |-> m.prev, next |-> m.next]
  <2>1. Len(s) = 1 => EntryAt(s, 2) = NULL
    BY <1>1 DEF EntryAt
  <2>2. Len(s) # 1 => EntryAt(s, 2) = s[2] /\ s[2] # NULL
    BY <1>1, <1>2 DEF EntryAt
  <2>3. l.queue[q] # NULL
    BY <1>1, <1>2
  <2>4. m = [l EXCEPT !.queue[q] = EntryAt(s, 2),
                      !.prev = IF EntryAt(s, 2) = NULL THEN @
                               ELSE [@ EXCEPT ![EntryAt(s, 2)] = s[Len(s)]]]
    BY <1>2, <2>3 DEF task_queue_remove_top
  <2>5. /\ m.queue = [l.queue EXCEPT ![q] = EntryAt(s, 2)]
        /\ m.prev = IF EntryAt(s, 2) = NULL THEN l.prev
                    ELSE [l.prev EXCEPT ![EntryAt(s, 2)] = s[Len(s)]]
        /\ m.next = l.next
        /\ m = [queue |-> m.queue, prev |-> m.prev, next |-> m.next]
    <3> HIDE DEF m
    <3> QED BY <1>1, <2>4
  <2> HIDE DEF m
  <2> QED BY <2>1, <2>2, <2>5
<1> HIDE DEF m
<1>5. m \in LinksType
  <2>1. EntryAt(s, 2) \in Pointer
    BY <1>1, <1>2 DEF EntryAt, Pointer
  <2>2. m.queue \in [Queue -> Pointer]
    BY <1>1, <1>4, <2>1
  <2>3. m.prev \in [Tcb -> Pointer]
    <3>1. s[Len(s)] \in Pointer
      BY <1>1, <1>2 DEF Pointer
    <3> QED BY <1>1, <1>4, <3>1
  <2>4. m.next \in [Tcb -> Pointer]
    BY <1>1, <1>4
  <2> QED BY <1>4, <2>2, <2>3, <2>4 DEF LinksType
<1>6. QueueOf(m, q, u)
  <2>1. m.queue[q] = EntryAt(u, 1)
    <3>1. m.queue[q] = EntryAt(s, 2)
      BY <1>1, <1>4
    <3> HIDE DEF u
    <3> QED BY <1>1, <1>3, <3>1 DEF EntryAt
  <2> HIDE DEF u
  <2>2. ASSUME NEW i \in 1 .. Len(u)
        PROVE  m.next[u[i]] = EntryAt(u, i + 1) /\ m.prev[u[i]] = Back(u, i)
    <3>1. i \in 1 .. Len(s) - 1 /\ i + 1 \in 1 .. Len(s)
      BY <1>1, <1>3
    <3>2. u[i] = s[i + 1] /\ l.next[u[i]] = EntryAt(s, (i + 1) + 1)
      BY <1>2, <1>3, <3>1
    <3>3. EntryAt(s, (i + 1) + 1) = EntryAt(u, i + 1)
      BY <1>1, <1>3, <3>1 DEF EntryAt
    <3>4. CASE i = 1
      <4>1. Len(s) # 1 /\ u[1] = s[2] /\ Len(u) \in 1 .. Len(s) - 1 /\ Len(u) + 1 = Len(s)
        BY <1>1, <1>3, <3>1, <3>2, <3>4
      <4>2. m.prev[s[2]] = s[Len(s)]
        BY <1>1, <1>2, <1>4, <3>1, <3>4, <4>1
      <4>3. u[Len(u)] = s[Len(s)]
        BY <1>3, <4>1
      <4> QED BY <1>4, <3>2, <3>3, <3>4, <4>1, <4>2, <4>3 DEF Back
    <3>5. CASE i # 1
      <4>1. /\ i - 1 \in 1 .. Len(s) - 1 /\ (i - 1) + 1 = i
            /\ (i + 1) - 1 = i /\ i + 1 # 1 /\ i + 1 # 2
            /\ Len(s) # 1 /\ 2 \in 1 .. Len(s)
        <5>1. i \in Nat /\ i > 1 /\ Len(s) \in Nat /\ i <= Len(s) - 1
          BY <1>1, <3>1, <3>5
        <5>2. ASSUME NEW n \in Nat, NEW j \in Nat, j > 1, j <= n - 1
              PROVE  /\ j - 1 \in 1 .. n - 1 /\ (j - 1) + 1 = j
                     /\ (j + 1) - 1 = j /\ j + 1 # 1 /\ j + 1 # 2
                     /\ n # 1 /\ 2 \in 1 .. n
          BY <5>2
        <5> QED BY <5>1, <5>2
      <4>2. u[i - 1] = s[i]
        BY <1>3, <4>1
      <4>3. s[i + 1] # s[2]
        BY <1>1, <3>1, <4>1 DEF IsInjective
      <4>4. m.prev[s[i + 1]] = l.prev[s[i + 1]]
        BY <1>1, <1>2, <1>4, <3>1, <4>3
      <4>5. l.prev[s[i + 1]] = s[i]
        BY <1>2, <3>1, <4>1 DEF Back
      <4> QED BY <1>4, <3>2, <3>3, <3>5, <4>2, <4>4, <4>5 DEF Back
    <3> QED BY <3>4, <3>5
  <2> QED BY <1>3, <2>1, <2>2 DEF QueueOf
<1>7. \A r \in Queue : r # q => m.queue[r] = l.queue[r]
  BY <1>1, <1>4
<1>8. \A x \in Tcb : x \notin ToSet(s) => m.prev[x] = l.prev[x] /\ m.next[x] = l.next[x]
  BY <1>1, <1>2, <1>4
<1>9. Represents(m, [c EXCEPT ![q] = u])
  <2> HIDE DEF u
  <2> QED BY <1>3, <1>5, <1>6, <1>7, <1>8, ReplaceRepresents
<1> QED BY <1>1, <1>9 DEF m

(* Removing an entry anywhere. *)
LEMMA RemoveEntryRepresents ==
    ASSUME NEW l, NEW c, Represents(l, c), NEW q \in Queue,
           NEW k \in DOMAIN c[q]
    PROVE  Represents(task_queue_remove_entry(l, q, c[q][k]),
                      [c EXCEPT ![q] = RemoveAt(@, k)])
<1> DEFINE s == c[q]
           t == s[k]
           m == task_queue_remove_entry(l, q, t)
           u == RemoveAt(s, k)
<1>1. /\ l.queue \in [Queue -> Pointer]
      /\ l.prev \in [Tcb -> Pointer] /\ l.next \in [Tcb -> Pointer]
      /\ l = [queue |-> l.queue, prev |-> l.prev, next |-> l.next]
      /\ c \in [Queue -> Seq(Tcb)]
      /\ s \in Seq(Tcb) /\ Len(s) \in Nat \ {0} /\ DOMAIN s = 1 .. Len(s)
      /\ IsInjective(s) /\ QueueOf(l, q, s)
      /\ NULL \notin Tcb /\ k \in 1 .. Len(s)
  BY TaskQueueAssumption DEF Represents, LinksType, QueueOf
<1>2. /\ \A i \in 1 .. Len(s) : s[i] \in Tcb /\ s[i] \in ToSet(s) /\ s[i] # NULL
      /\ l.queue[q] = s[1]
      /\ \A i \in 1 .. Len(s) : l.next[s[i]] = EntryAt(s, i + 1)
                                  /\ l.prev[s[i]] = Back(s, i)
  <2>1. \A i \in 1 .. Len(s) : s[i] \in Tcb /\ s[i] \in ToSet(s) /\ s[i] # NULL
    BY <1>1 DEF ToSet
  <2>2. 1 \in 1 .. Len(s)
    BY <1>1
  <2> QED BY <1>1, <2>1, <2>2 DEF QueueOf, EntryAt
<1>3. /\ u \in Seq(Tcb) /\ IsInjective(u) /\ ToSet(u) \subseteq ToSet(s)
      /\ Len(u) = Len(s) - 1 /\ DOMAIN u = 1 .. Len(s) - 1
      /\ \A i \in 1 .. Len(s) - 1 : u[i] = IF i < k THEN s[i] ELSE s[i + 1]
  <2>1. /\ u \in Seq(Tcb)
        /\ Len(u) = Len(s) - 1
        /\ \A j \in 1 .. Len(s) - 1 : u[j] = IF j < k THEN s[j] ELSE s[j + 1]
        /\ IsInjective(u) /\ ToSet(u) = ToSet(s) \ {s[k]}
    <3>1. s \in Seq(Tcb) /\ k \in DOMAIN s /\ IsInjective(s)
      BY <1>1
    <3> HIDE DEF s
    <3> QED BY <3>1, RemoveAtDistinct
  <2> HIDE DEF u
  <2> QED BY <1>1, <2>1
<1>4. CASE k = 1
  <2>1. u = Tail(s)
    <3>1. Tail(s) \in Seq(Tcb) /\ Len(Tail(s)) = Len(s) - 1
          /\ \A i \in 1 .. Len(s) - 1 : Tail(s)[i] = s[i + 1]
      BY <1>1
    <3>2. \A i \in 1 .. Len(u) : u[i] = Tail(s)[i]
      BY <1>1, <1>3, <1>4, <3>1
    <3> HIDE DEF u
    <3> QED BY <1>3, <3>1, <3>2, SeqEqual
  <2>2. m = task_queue_remove_top(l, q)
    BY <1>2, <1>4 DEF task_queue_remove_entry
  <2>3. Represents(task_queue_remove_top(l, q), [c EXCEPT ![q] = Tail(@)])
    <3>1. s # <<>>
      BY <1>1
    <3> QED BY <3>1, RemoveTopRepresents
  <2> HIDE DEF m
  <2>4. Represents(m, [c EXCEPT ![q] = u])
    BY <2>1, <2>2, <2>3
  <2> QED BY <2>4 DEF m
<1>5. CASE k # 1
  <2> DEFINE before == s[k - 1]
             after == IF k = Len(s) THEN s[1] ELSE s[k + 1]
  <2>1. /\ k - 1 \in 1 .. Len(s) - 1 /\ k - 1 \in 1 .. Len(s) /\ 1 \in 1 .. Len(s)
        /\ k # Len(s) => k + 1 \in 1 .. Len(s)
        /\ t # s[1]
        /\ l.prev[t] = before
        /\ l.next[t] = EntryAt(s, k + 1)
    <3>1. k - 1 \in 1 .. Len(s) - 1 /\ k - 1 \in 1 .. Len(s) /\ 1 \in 1 .. Len(s)
          /\ (k # Len(s) => k + 1 \in 1 .. Len(s))
      BY <1>1, <1>5
    <3>2. t # s[1]
      BY <1>1, <1>5, <3>1 DEF IsInjective
    <3> QED BY <1>1, <1>2, <1>5, <3>1, <3>2 DEF Back
  <2>2. (IF l.next[t] # NULL THEN l.next[t] ELSE l.queue[q]) = after
    BY <1>1, <1>2, <2>1 DEF EntryAt
  <2>3. /\ m.queue = l.queue
        /\ m.next = [l.next EXCEPT ![before] = EntryAt(s, k + 1)]
        /\ m.prev = [l.prev EXCEPT ![after] = before]
        /\ m = [queue |-> m.queue, prev |-> m.prev, next |-> m.next]
    <3>1. m = [l EXCEPT !.next[before] = EntryAt(s, k + 1), !.prev[after] = before]
      <4> HIDE DEF after, before, t
      <4> QED BY <1>2, <2>1, <2>2 DEF task_queue_remove_entry
    <3> HIDE DEF m, after, before
    <3> QED BY <1>1, <3>1
  <2>4. before \in Tcb /\ after \in Tcb /\ before \in ToSet(s) /\ after \in ToSet(s)
        /\ EntryAt(s, k + 1) \in Pointer
    BY <1>1, <1>2, <2>1 DEF EntryAt, Pointer
  <2> HIDE DEF m, u
  <2>5. m \in LinksType
    <3> HIDE DEF before, after
    <3>1. m.queue \in [Queue -> Pointer]
      BY <1>1, <2>3
    <3>2. m.next \in [Tcb -> Pointer]
      BY <1>1, <2>3, <2>4
    <3>3. m.prev \in [Tcb -> Pointer]
      BY <1>1, <2>3, <2>4 DEF Pointer
    <3> QED BY <2>3, <3>1, <3>2, <3>3 DEF LinksType
  <2>6. m.queue[q] = EntryAt(u, 1)
    <3>1. 1 \in 1 .. Len(s) - 1 /\ 1 < k
      BY <1>1, <1>5
    <3>2. u[1] = s[1]
      BY <1>3, <3>1
    <3> QED BY <1>2, <1>3, <2>3, <3>1, <3>2 DEF EntryAt
  <2>7. ASSUME NEW i \in 1 .. Len(u)
        PROVE  m.next[u[i]] = EntryAt(u, i + 1)
    <3>1. CASE i = k - 1
      <4>1. u[i] = before
        BY <1>3, <2>1, <3>1
      <4>2. m.next[before] = EntryAt(s, k + 1)
        BY <1>1, <2>3, <2>4
      <4>3. EntryAt(s, k + 1) = EntryAt(u, i + 1)
        BY <1>1, <1>3, <3>1 DEF EntryAt
      <4> QED BY <4>1, <4>2, <4>3
    <3>2. CASE i # k - 1
      <4> DEFINE j == IF i < k THEN i ELSE i + 1
      <4>1. j \in 1 .. Len(s) /\ u[i] = s[j] /\ j # k - 1
        BY <1>1, <1>3, <3>2
      <4>2. s[j] # before
        BY <1>1, <2>1, <4>1 DEF IsInjective
      <4>3. m.next[s[j]] = EntryAt(s, j + 1)
        BY <1>1, <1>2, <2>3, <4>1, <4>2
      <4>4. EntryAt(s, j + 1) = EntryAt(u, i + 1)
        <5>1. CASE i + 1 < k
          <6>1. j = i /\ i + 1 \in 1 .. Len(s) - 1 /\ i + 1 \in 1 .. Len(s)
            BY <1>1, <1>3, <5>1
          <6>2. u[i + 1] = s[i + 1]
            BY <1>3, <5>1, <6>1
          <6> HIDE DEF j
          <6> QED BY <1>1, <1>3, <6>1, <6>2 DEF EntryAt
        <5>2. CASE i >= k
          <6>1. j = i + 1 /\ i + 1 \in Nat /\ ~(i + 1 < k) /\ i + 1 >= 1
            BY <1>1, <1>3, <5>2
          <6> HIDE DEF j
          <6>2. CASE i + 1 <= Len(s) - 1
            <7>1. i + 1 \in 1 .. Len(s) - 1 /\ (i + 1) + 1 \in 1 .. Len(s)
              BY <1>1, <6>1, <6>2
            <7>2. u[i + 1] = s[(i + 1) + 1]
              BY <1>3, <6>1, <7>1
            <7> QED BY <1>1, <1>3, <6>1, <7>1, <7>2 DEF EntryAt
          <6>3. CASE ~(i + 1 <= Len(s) - 1)
            <7>1. i + 1 \notin 1 .. Len(s) - 1 /\ (i + 1) + 1 \notin 1 .. Len(s)
              BY <1>1, <6>1, <6>3
            <7> QED BY <1>1, <1>3, <6>1, <7>1 DEF EntryAt
          <6> QED BY <6>2, <6>3
        <5> QED BY <1>1, <1>3, <3>2, <5>1, <5>2
      <4> QED BY <4>1, <4>3, <4>4
    <3> QED BY <3>1, <3>2
  <2>8. ASSUME NEW i \in 1 .. Len(u)
        PROVE  m.prev[u[i]] = Back(u, i)
    <3> DEFINE j == IF i < k THEN i ELSE i + 1
    <3>1. j \in 1 .. Len(s) /\ u[i] = s[j] /\ j # k /\ Len(u) \in 1 .. Len(s) - 1
      BY <1>1, <1>3
    <3>2. CASE s[j] = after
      <4>1. m.prev[s[j]] = before
        BY <1>1, <2>3, <2>4, <3>2
      <4>2. CASE k = Len(s)
        <5>1. s[j] = s[1]
          BY <3>2, <4>2
        <5>2. j = 1
          BY <1>1, <2>1, <3>1, <5>1 DEF IsInjective
        <5>3. i = 1 /\ Len(u) = k - 1
          BY <1>1, <1>3, <4>2, <5>2
        <5>4. u[Len(u)] = before
          BY <1>3, <2>1, <5>3
        <5> QED BY <3>1, <4>1, <5>3, <5>4 DEF Back
      <4>3. CASE k # Len(s)
        <5>1. s[j] = s[k + 1]
          BY <3>2, <4>3
        <5>2. j = k + 1
          BY <1>1, <2>1, <3>1, <4>3, <5>1 DEF IsInjective
        <5>3. i = k /\ i # 1
          BY <1>1, <1>5, <5>2
        <5>4. u[i - 1] = before
          BY <1>3, <2>1, <5>3
        <5> QED BY <3>1, <4>1, <5>3, <5>4 DEF Back
      <4> QED BY <4>2, <4>3
    <3>3. CASE s[j] # after
      <4>1. m.prev[s[j]] = Back(s, j)
        BY <1>1, <1>2, <2>3, <3>1, <3>3
      <4>2. CASE i = 1
        <5>1. j = 1
          BY <1>1, <1>5, <4>2
        <5>2. k # Len(s)
          BY <3>3, <5>1
        <5>3. u[Len(u)] = s[Len(s)]
          BY <1>1, <1>3, <3>1, <5>2
        <5> QED BY <3>1, <4>1, <4>2, <5>1, <5>3 DEF Back
      <4>3. CASE i # 1
        <5>1. j # 1 /\ i # k
          <6>1. i # k
            BY <1>1, <1>3, <3>3
          <6> QED BY <1>1, <4>3, <6>1
        <5>2. u[i - 1] = s[j - 1]
          <6>1. i - 1 \in 1 .. Len(s) - 1 /\ (i - 1) + 1 = i
            BY <1>1, <1>3, <4>3
          <6>2. CASE i < k
            BY <1>1, <1>3, <6>1, <6>2
          <6>3. CASE i > k
            BY <1>1, <1>3, <6>1, <6>3
          <6> QED BY <1>1, <1>3, <5>1, <6>2, <6>3
        <5> HIDE DEF j
        <5> QED BY <3>1, <4>1, <4>3, <5>1, <5>2 DEF Back
      <4> QED BY <4>2, <4>3
    <3> QED BY <3>2, <3>3
  <2>9. QueueOf(m, q, u)
    BY <1>3, <2>6, <2>7, <2>8 DEF QueueOf
  <2>10. \A r \in Queue : r # q => m.queue[r] = l.queue[r]
    BY <2>3
  <2>11. \A x \in Tcb : x \notin ToSet(s) => m.prev[x] = l.prev[x] /\ m.next[x] = l.next[x]
    <3> HIDE DEF before, after
    <3> QED BY <1>1, <2>3, <2>4
  <2>12. Represents(m, [c EXCEPT ![q] = u])
    BY <1>3, <2>5, <2>9, <2>10, <2>11, ReplaceRepresents
  <2> QED BY <2>12 DEF m, u
<1> QED BY <1>4, <1>5

-----------------------------------------------------------------------------
(* The inductive invariant: the pointers represent sequences, and a walk   *)
(* stands at an entry of the queue it walks.                               *)
QueueInv ==
    /\ Represents(Links, Content)
    /\ walked \in Queue
    /\ tcb \in Pointer
    /\ tcb # NULL => tcb \in ToSet(Content[walked])

(* At first every queue is empty. *)
LEMMA QueueInvInit == QueueInit => QueueInv
<1> SUFFICES ASSUME QueueInit PROVE QueueInv
  OBVIOUS
<1> DEFINE c == [q \in Queue |-> <<>>]
<1>1. /\ queue = [q \in Queue |-> NULL]
      /\ prev = [t \in Tcb |-> NULL]
      /\ next = [t \in Tcb |-> NULL]
      /\ tcb = NULL /\ walked \in Queue
  BY DEF QueueInit
<1>2. Links \in LinksType
  BY <1>1 DEF Links, LinksType, Pointer
<1>3. \A q \in Queue : QueueOf(Links, q, <<>>)
  BY <1>1 DEF QueueOf, Links, EntryAt, IsInjective
<1>4. Represents(Links, c)
  BY <1>2, <1>3 DEF Represents, ToSet
<1>5. ASSUME NEW q \in Queue PROVE Entries(q) = <<>>
  <2>1. Following(Links.next, Links.queue[q]) = c[q]
    BY <1>4, EntriesRepresented
  <2> QED BY <2>1 DEF Entries, Links
<1>6. Content = c
  BY <1>5 DEF Content
<1> QED BY <1>1, <1>4, <1>6 DEF QueueInv, Pointer

(* What the operations on the links mean for the queues after a step. *)
LEMMA ContentAfter ==
    ASSUME NEW m, NEW c, Represents(m, c), Store(m)
    PROVE  Links' = m /\ Content' = c /\ Represents(Links', Content')
<1>1. Links' = m
  BY DEF Store, Links, Represents, LinksType
<1>2. ASSUME NEW q \in Queue PROVE Entries(q)' = c[q]
  <2>1. Following(m.next, m.queue[q]) = c[q]
    BY EntriesRepresented
  <2> QED BY <2>1 DEF Entries, Store
<1>3. Content' = c
  <2>1. c = [q \in Queue |-> c[q]]
    BY DEF Represents
  <2> QED BY <1>2, <2>1 DEF Content
<1> QED BY <1>1, <1>3

(* Without a change of the links the queues keep their entries. *)
LEMMA ContentKept ==
    ASSUME QueueInv, UNCHANGED <<queue, prev, next>>
    PROVE  Content' = Content /\ Links' = Links /\ Represents(Links', Content')
<1>1. Content' = Content
  BY DEF Content, Entries
<1>2. Links' = Links
  BY DEF Links
<1> QED BY <1>1, <1>2 DEF QueueInv

(* What the invariant says of a queue, in terms of its sequence. *)
LEMMA ContentType ==
    ASSUME Represents(Links, Content)
    PROVE  /\ Content \in [Queue -> Seq(Tcb)]
           /\ \A q \in Queue : /\ Content[q] = Entries(q)
                               /\ Content[q] \in Seq(Tcb) /\ IsInjective(Content[q])
                               /\ queue[q] = EntryAt(Content[q], 1)
                               /\ queue[q] = NULL <=> Content[q] = <<>>
                               /\ \A i \in 1 .. Len(Content[q]) :
                                     next[Content[q][i]] = EntryAt(Content[q], i + 1)
<1>1. Content \in [Queue -> Seq(Tcb)]
  BY DEF Represents
<1>2. ASSUME NEW q \in Queue
      PROVE  /\ Content[q] = Entries(q)
             /\ Content[q] \in Seq(Tcb) /\ IsInjective(Content[q])
             /\ queue[q] = EntryAt(Content[q], 1)
             /\ queue[q] = NULL <=> Content[q] = <<>>
             /\ \A i \in 1 .. Len(Content[q]) :
                   next[Content[q][i]] = EntryAt(Content[q], i + 1)
  <2>1. Content[q] = Entries(q)
    BY DEF Content
  <2>2. Content[q] \in Seq(Tcb) /\ QueueOf(Links, q, Content[q])
    BY DEF Represents
  <2>3. /\ IsInjective(Content[q]) /\ queue[q] = EntryAt(Content[q], 1)
        /\ \A i \in 1 .. Len(Content[q]) :
              next[Content[q][i]] = EntryAt(Content[q], i + 1)
    BY <2>2 DEF QueueOf, Links
  <2>4. queue[q] = NULL <=> Content[q] = <<>>
    BY <2>2, <2>3, TaskQueueAssumption DEF EntryAt
  <2> QED BY <2>1, <2>2, <2>3, <2>4
<1> QED BY <1>1, <1>2

(* The place of a walk is the one of the entry it stands at. *)
LEMMA IndexIs ==
    ASSUME Represents(Links, Content), walked \in Queue,
           NEW i \in DOMAIN Content[walked], tcb = Content[walked][i]
    PROVE  Index = i /\ tcb \in Tcb /\ tcb # NULL
<1>1. /\ Content[walked] \in Seq(Tcb) /\ IsInjective(Content[walked])
      /\ Content[walked] = Entries(walked)
  BY ContentType
<1>2. tcb \in Tcb /\ tcb # NULL
  BY <1>1, TaskQueueAssumption
<1>3. \A k \in DOMAIN Entries(walked) : Entries(walked)[k] = tcb => k = i
  BY <1>1 DEF IsInjective
<1>4. \E k \in DOMAIN Entries(walked) : Entries(walked)[k] = tcb
  BY <1>1
<1> QED BY <1>2, <1>3, <1>4 DEF Index

(* Without a walk the place is 0. *)
LEMMA IndexKept ==
    ASSUME UNCHANGED <<tcb, walked>>, tcb = NULL
    PROVE  Index = 0 /\ Index' = 0
BY DEF Index

(* The first occurrence of an entry is its only one. *)
LEMMA RemoveFirstIs ==
    ASSUME NEW S, NEW s \in Seq(S), IsInjective(s), NEW k \in DOMAIN s
    PROVE  RemoveFirst(s, s[k]) = RemoveAt(s, k)
<1>1. k \in 1 .. Len(s) /\ Len(s) \in Nat
  OBVIOUS
<1>2. {i \in 1 .. Len(s) : s[i] = s[k]} = {k}
  BY <1>1 DEF IsInjective
<1>3. SelectInSeq(s, LAMBDA v : v = s[k]) = k
  BY <1>1, <1>2 DEF SelectInSeq, Min
<1> QED BY <1>1, <1>3 DEF RemoveFirst

-----------------------------------------------------------------------------
(* Each step keeps the invariant and is the step of the same name of       *)
(* TaskQueueSpec.                                                          *)

(* An entry is added at the tail. *)
LEMMA AddRefines ==
    ASSUME QueueInv, NEW q \in Queue, NEW t \in Tcb, Add(q, t)
    PROVE  QueueInv' /\ Abstract!AddEntry(q, t)
<1>1. Represents(Links, Content) /\ walked \in Queue /\ tcb = NULL
  BY DEF QueueInv, Add
<1>2. ~Abstract!Queued(t) /\ \A r \in Queue : t \notin ToSet(Content[r])
  <2>1. \A r \in Queue : ~Contains(Content[r], t)
    BY <1>1, ContentType DEF Add, Linked
  <2>2. \A r \in Queue : Content[r] \in Seq(Tcb)
    BY <1>1, ContentType
  <2>3. \A r \in Queue : t \notin ToSet(Content[r])
    BY <2>1, <2>2 DEF Contains, ToSet
  <2> QED BY <2>1, <2>3 DEF Abstract!Queued, Abstract!Contains, Contains
<1>3. Represents(task_queue_add_entry(Links, q, t),
                 [Content EXCEPT ![q] = Append(@, t)])
  BY <1>1, <1>2, AddRepresents
<1>4. Content' = [Content EXCEPT ![q] = Append(@, t)] /\ Represents(Links', Content')
  BY <1>3, ContentAfter DEF Add
<1>5. UNCHANGED <<tcb, walked>>
  BY DEF Add
<1>6. Index = 0 /\ Index' = 0
  BY <1>1, <1>5, IndexKept
<1> QED BY <1>1, <1>2, <1>4, <1>5, <1>6 DEF QueueInv, Abstract!AddEntry, Pointer

(* The first entry is removed. *)
LEMMA RemoveTopRefines ==
    ASSUME QueueInv, NEW q \in Queue, RemoveTop(q)
    PROVE  QueueInv' /\ Abstract!RemoveTop(q)
<1>1. Represents(Links, Content) /\ walked \in Queue /\ tcb = NULL
  BY DEF QueueInv, RemoveTop
<1>2. Content[q] # <<>>
  BY <1>1, ContentType DEF RemoveTop
<1>3. Represents(task_queue_remove_top(Links, q), [Content EXCEPT ![q] = Tail(@)])
  BY <1>1, <1>2, RemoveTopRepresents
<1>4. Content' = [Content EXCEPT ![q] = Tail(@)] /\ Represents(Links', Content')
  BY <1>3, ContentAfter DEF RemoveTop
<1>5. UNCHANGED <<tcb, walked>>
  BY DEF RemoveTop
<1>6. Index = 0 /\ Index' = 0
  BY <1>1, <1>5, IndexKept
<1> QED BY <1>1, <1>2, <1>4, <1>5, <1>6 DEF QueueInv, Abstract!RemoveTop, Pointer

(* An entry is removed, wherever it is. *)
LEMMA RemoveEntryRefines ==
    ASSUME QueueInv, NEW q \in Queue, NEW t \in Tcb, RemoveEntry(q, t)
    PROVE  QueueInv' /\ Abstract!RemoveEntry(q, t)
<1>1. Represents(Links, Content) /\ walked \in Queue /\ tcb = NULL
  BY DEF QueueInv, RemoveEntry
<1>2. Content[q] \in Seq(Tcb) /\ IsInjective(Content[q]) /\ Contains(Content[q], t)
  BY <1>1, ContentType DEF RemoveEntry
<1>3. PICK k \in DOMAIN Content[q] : Content[q][k] = t
  BY <1>2 DEF Contains
<1>4. Represents(task_queue_remove_entry(Links, q, t),
                 [Content EXCEPT ![q] = RemoveAt(@, k)])
  BY <1>1, <1>3, RemoveEntryRepresents
<1>5. Content' = [Content EXCEPT ![q] = RemoveAt(@, k)] /\ Represents(Links', Content')
  BY <1>4, ContentAfter DEF RemoveEntry
<1>6. RemoveFirst(Content[q], t) = RemoveAt(Content[q], k)
  BY <1>2, <1>3, RemoveFirstIs
<1>7. /\ Content' = [Content EXCEPT ![q] = Abstract!RemoveFirst(@, t)]
      /\ Abstract!Contains(Content[q], t)
  <2>1. Abstract!RemoveFirst(Content[q], t) = RemoveFirst(Content[q], t)
    BY DEF Abstract!RemoveFirst, Abstract!SelectInSeq, Abstract!RemoveAt, Abstract!Min,
           RemoveFirst, SelectInSeq, RemoveAt, Min
  <2>2. Abstract!Contains(Content[q], t)
    BY <1>2 DEF Contains, Abstract!Contains
  <2> QED BY <1>5, <1>6, <2>1, <2>2
<1>8. UNCHANGED <<tcb, walked>>
  BY DEF RemoveEntry
<1>9. Index = 0 /\ Index' = 0
  BY <1>1, <1>8, IndexKept
<1> QED BY <1>1, <1>2, <1>5, <1>7, <1>8, <1>9
        DEF QueueInv, Abstract!RemoveEntry, Pointer

(* A walk begins at the first entry. *)
LEMMA WalkStartRefines ==
    ASSUME QueueInv, NEW q \in Queue, WalkStart(q)
    PROVE  QueueInv' /\ Abstract!WalkStart(q)
<1>1. Represents(Links, Content) /\ tcb = NULL /\ queue[q] # NULL
      /\ tcb' = queue[q] /\ walked' = q /\ UNCHANGED <<queue, prev, next>>
  BY DEF QueueInv, WalkStart
<1>2. Content' = Content /\ Represents(Links', Content')
  BY <1>1, ContentKept
<1>3. Content[q] \in Seq(Tcb) /\ Content[q] # <<>> /\ queue[q] = EntryAt(Content[q], 1)
  BY <1>1, ContentType
<1>4. 1 \in DOMAIN Content[q] /\ tcb' = Content[q][1] /\ Content[q][1] \in Tcb
  BY <1>1, <1>3 DEF EntryAt
<1>5. IsInjective(Content[q]) /\ Content[q] = Entries(q)
  BY <1>1, ContentType
<1>6. Entries(walked)' = Content[q]
  BY <1>1, <1>5 DEF Entries
<1>7. Index' = 1
  <2>1. \A k \in DOMAIN Content[q] : Content[q][k] = tcb' <=> k = 1
    BY <1>4, <1>5 DEF IsInjective
  <2>2. tcb' # NULL
    BY <1>4, TaskQueueAssumption
  <2> QED BY <1>4, <1>6, <2>1, <2>2 DEF Index
<1>8. tcb' \in ToSet(Content'[walked'])
  BY <1>1, <1>2, <1>4 DEF ToSet
<1>9. Index = 0
  BY <1>1 DEF Index
<1> QED BY <1>1, <1>2, <1>3, <1>4, <1>7, <1>8, <1>9
        DEF QueueInv, Abstract!WalkStart, Pointer

(* A walk goes on to the next entry, or ends behind the last. *)
LEMMA WalkPassRefines ==
    ASSUME QueueInv, WalkPass
    PROVE  QueueInv' /\ Abstract!WalkPass
<1> DEFINE s == Content[walked]
<1>1. /\ Represents(Links, Content) /\ walked \in Queue
      /\ tcb # NULL /\ tcb \in ToSet(s)
      /\ tcb' = next[tcb] /\ UNCHANGED <<queue, prev, next, walked>>
  BY DEF QueueInv, WalkPass
<1>2. Content' = Content /\ Represents(Links', Content')
  BY <1>1, ContentKept
<1>3. /\ s \in Seq(Tcb) /\ IsInjective(s) /\ s = Entries(walked)
      /\ Len(s) \in Nat /\ DOMAIN s = 1 .. Len(s)
      /\ \A i \in 1 .. Len(s) : next[s[i]] = EntryAt(s, i + 1) /\ s[i] \in Tcb
  BY <1>1, ContentType
<1>4. PICK i \in DOMAIN s : tcb = s[i]
  BY <1>1 DEF ToSet
<1>5. Index = i
  BY <1>1, <1>4, IndexIs
<1>6. Entries(walked)' = s
  BY <1>1, <1>3 DEF Entries
<1> HIDE DEF s
<1>7. CASE i < Len(s)
  <2>1. i + 1 \in DOMAIN s /\ tcb' = s[i + 1] /\ s[i + 1] \in Tcb
    BY <1>1, <1>3, <1>4, <1>7 DEF EntryAt
  <2>2. Index' = i + 1
    <3>1. \A k \in DOMAIN s : s[k] = tcb' <=> k = i + 1
      BY <1>3, <2>1 DEF IsInjective
    <3>2. tcb' # NULL
      BY <2>1, TaskQueueAssumption
    <3> QED BY <1>6, <2>1, <3>1, <3>2 DEF Index
  <2>3. Index > 0 /\ (Index + 1) % (Len(s) + 1) = i + 1
    <3>1. \A a, b \in Nat : a < b => a % b = a
      OBVIOUS
    <3>2. i + 1 \in Nat /\ Len(s) + 1 \in Nat /\ i + 1 < Len(s) + 1 /\ i > 0
      BY <1>3, <1>7
    <3> QED BY <1>5, <3>1, <3>2
  <2>4. tcb' \in ToSet(s)
    BY <2>1 DEF ToSet
  <2> QED BY <1>1, <1>2, <2>1, <2>2, <2>3, <2>4
          DEF QueueInv, Abstract!WalkPass, Pointer, s
<1>8. CASE i = Len(s)
  <2>1. tcb' = NULL
    BY <1>1, <1>3, <1>4, <1>8 DEF EntryAt
  <2>2. Index' = 0
    BY <2>1 DEF Index
  <2>3. Index > 0 /\ (Index + 1) % (Len(s) + 1) = 0
    BY <1>3, <1>5, <1>8
  <2> QED BY <1>1, <1>2, <2>1, <2>2, <2>3
          DEF QueueInv, Abstract!WalkPass, Pointer, s
<1> QED BY <1>3, <1>7, <1>8

(* A walk that moves its entry ends: the entry is now the last of another
   queue, and its next pointer is NULL. *)
LEMMA WalkMoveRefines ==
    ASSUME QueueInv, NEW r \in Queue, WalkMove(r)
    PROVE  QueueInv' /\ Abstract!WalkMove(r)
<1> DEFINE s == Content[walked]
           m == task_queue_remove_entry(Links, walked, tcb)
           n == task_queue_add_entry(m, r, tcb)
<1>1. /\ Represents(Links, Content) /\ walked \in Queue
      /\ tcb # NULL /\ tcb \in ToSet(s) /\ r # walked
      /\ Store(n) /\ tcb' = next'[tcb] /\ UNCHANGED walked
  BY DEF QueueInv, WalkMove
<1>2. s \in Seq(Tcb) /\ IsInjective(s) /\ Content \in [Queue -> Seq(Tcb)]
      /\ \A q \in Queue : Content[q] \in Seq(Tcb)
  BY <1>1, ContentType
<1>3. PICK i \in DOMAIN s : tcb = s[i]
  BY <1>1 DEF ToSet
<1>4. Index = i /\ tcb \in Tcb
  BY <1>1, <1>3, IndexIs
<1> DEFINE c == [Content EXCEPT ![walked] = RemoveAt(@, i)]
           d == [Content EXCEPT ![walked] = RemoveAt(@, i),
                                ![r] = Append(@, s[i])]
<1>5. Represents(m, c)
  BY <1>1, <1>3, RemoveEntryRepresents
<1>6. \A q \in Queue : tcb \notin ToSet(c[q])
  <2>1. tcb \notin ToSet(RemoveAt(s, i))
    BY <1>2, <1>3, RemoveAtDistinct
  <2>2. \A q \in Queue : q # walked => tcb \notin ToSet(Content[q])
    BY <1>1 DEF Represents
  <2>3. /\ c[walked] = RemoveAt(s, i)
        /\ \A q \in Queue : q # walked => c[q] = Content[q]
    BY <1>1, <1>2
  <2> HIDE DEF c
  <2> QED BY <2>1, <2>2, <2>3
<1>7. Represents(n, [c EXCEPT ![r] = Append(@, tcb)]) /\ n.next[tcb] = NULL
  <2> HIDE DEF c, m
  <2> QED BY <1>4, <1>5, <1>6, AddRepresents
<1>8. [c EXCEPT ![r] = Append(@, tcb)] = d
  BY <1>1, <1>2, <1>3
<1>9. Content' = d /\ Represents(Links', Content')
  <2> HIDE DEF c, d, n
  <2>1. Represents(n, d) /\ Store(n)
    BY <1>1, <1>7, <1>8
  <2> QED BY <2>1, ContentAfter
<1>10. tcb' = NULL
  <2> HIDE DEF n
  <2> QED BY <1>1, <1>7 DEF Store
<1>11. Index' = 0
  BY <1>10 DEF Index
<1>12. i > 0
  BY <1>2, <1>3
<1> HIDE DEF m, n, c
<1> QED BY <1>1, <1>4, <1>9, <1>10, <1>11, <1>12
        DEF QueueInv, Abstract!WalkMove, Pointer, Abstract!RemoveAt, RemoveAt

(* All steps together. *)
LEMMA StepRefines ==
    ASSUME QueueInv, [QueueNext]_queueVars
    PROVE  QueueInv' /\ [Abstract!SpecNext]_<<Content, walked, Index>>
<1>1. ASSUME NEW q \in Queue, RemoveTop(q)
      PROVE  QueueInv' /\ [Abstract!SpecNext]_<<Content, walked, Index>>
  BY <1>1, RemoveTopRefines DEF Abstract!SpecNext
<1>2. ASSUME NEW q \in Queue, WalkStart(q)
      PROVE  QueueInv' /\ [Abstract!SpecNext]_<<Content, walked, Index>>
  BY <1>2, WalkStartRefines DEF Abstract!SpecNext
<1>3. ASSUME NEW q \in Queue, WalkMove(q)
      PROVE  QueueInv' /\ [Abstract!SpecNext]_<<Content, walked, Index>>
  BY <1>3, WalkMoveRefines DEF Abstract!SpecNext
<1>4. ASSUME NEW q \in Queue, NEW t \in Tcb, Add(q, t)
      PROVE  QueueInv' /\ [Abstract!SpecNext]_<<Content, walked, Index>>
  BY <1>4, AddRefines DEF Abstract!SpecNext
<1>5. ASSUME NEW q \in Queue, NEW t \in Tcb, RemoveEntry(q, t)
      PROVE  QueueInv' /\ [Abstract!SpecNext]_<<Content, walked, Index>>
  BY <1>5, RemoveEntryRefines DEF Abstract!SpecNext
<1>6. ASSUME WalkPass
      PROVE  QueueInv' /\ [Abstract!SpecNext]_<<Content, walked, Index>>
  BY <1>6, WalkPassRefines DEF Abstract!SpecNext
<1>7. ASSUME UNCHANGED queueVars
      PROVE  QueueInv' /\ [Abstract!SpecNext]_<<Content, walked, Index>>
  <2>1. UNCHANGED <<queue, prev, next>> /\ UNCHANGED <<tcb, walked>>
    BY <1>7 DEF queueVars
  <2>2. Content' = Content /\ Represents(Links', Content')
    BY <2>1, ContentKept
  <2>3. Index' = Index
    BY <2>1 DEF Index, Entries
  <2> QED BY <2>1, <2>2, <2>3 DEF QueueInv
<1> QED BY <1>1, <1>2, <1>3, <1>4, <1>5, <1>6, <1>7 DEF QueueNext

-----------------------------------------------------------------------------
(* Whatever is added and removed, and from wherever, the links of every    *)
(* queue mirror each other and no entry is in two queues.                  *)
THEOREM QueuesWellLinked == QueueSpec => []WellLinked
<1>1. QueueInv => WellLinked
  <2> SUFFICES ASSUME QueueInv PROVE WellLinked
    OBVIOUS
  <2>1. /\ queue \in [Queue -> Pointer]
        /\ prev \in [Tcb -> Pointer] /\ next \in [Tcb -> Pointer]
        /\ tcb \in Pointer /\ Represents(Links, Content)
    BY DEF QueueInv, Represents, LinksType, Links
  <2>2. ASSUME NEW q \in Queue
        PROVE  LET e == Entries(q)
               IN  /\ IsInjective(e)
                   /\ e # <<>> => prev[e[1]] = e[Len(e)]
                   /\ \A i \in 2 .. Len(e) : prev[e[i]] = e[i - 1]
    <3> DEFINE e == Entries(q)
    <3>1. e = Content[q] /\ e \in Seq(Tcb) /\ IsInjective(e)
      BY <2>1, ContentType
    <3>2. QueueOf(Links, q, Content[q])
      BY <2>1 DEF Represents
    <3> HIDE DEF e
    <3>3. \A i \in 1 .. Len(e) : prev[e[i]] = Back(e, i)
      BY <3>1, <3>2 DEF QueueOf, Links
    <3>4. e # <<>> => prev[e[1]] = e[Len(e)]
      BY <3>1, <3>3 DEF Back
    <3>5. \A i \in 2 .. Len(e) : prev[e[i]] = e[i - 1]
      BY <3>1, <3>3 DEF Back
    <3> QED BY <3>1, <3>4, <3>5 DEF e
  <2>3. \A q, r \in Queue :
           q # r => ToSet(Entries(q)) \cap ToSet(Entries(r)) = {}
    BY <2>1, ContentType DEF Represents
  <2> QED BY <2>1, <2>2, <2>3 DEF WellLinked, Pointer
<1>2. QueueInv /\ [QueueNext]_queueVars => QueueInv'
  BY StepRefines
<1> QED BY <1>1, <1>2, QueueInvInit, PTL DEF QueueSpec

(* The links implement sequences: what is added, removed and walked along  *)
(* the pointers is what TaskQueueSpec says, also when the walk moves the   *)
(* entry it stands at.                                                     *)
THEOREM SequencesImplemented == QueueSpec => ImplementsSequences
<1>1. QueueInit => Abstract!SpecInit
  <2> SUFFICES ASSUME QueueInit PROVE Abstract!SpecInit
    OBVIOUS
  <2>1. QueueInv /\ tcb = NULL /\ walked \in Queue /\ \A q \in Queue : queue[q] = NULL
    BY QueueInvInit DEF QueueInit
  <2>2. \A q \in Queue : Content[q] = <<>>
    BY <2>1, ContentType DEF QueueInv
  <2>3. Content = [q \in Queue |-> <<>>]
    BY <2>2 DEF Content
  <2>4. Index = 0
    BY <2>1 DEF Index
  <2> QED BY <2>1, <2>3, <2>4 DEF Abstract!SpecInit
<1>2. QueueInv /\ [QueueNext]_queueVars
        => QueueInv' /\ [Abstract!SpecNext]_Abstract!specVars
  BY StepRefines DEF Abstract!specVars
<1> QED BY <1>1, <1>2, QueueInvInit, PTL
        DEF QueueSpec, ImplementsSequences, Abstract!Spec
=============================================================================
