---------------------------- MODULE UserGicProofs ----------------------------
(***************************************************************************)
(* For any number of vCPUs and of interrupts: the lists of the interrupt   *)
(* controller hold an interrupt once, and none is lost except for the      *)
(* reasons that NoneLost names.                                            *)
(***************************************************************************)
EXTENDS UserGic, TLAPS

\* The drain has taken something only while it applies it.
BatchApplied == \A c \in CPUS : place[c] \notin {"apply", "parkapply"} => batch[c] = <<>>

Inv == TypeOK /\ BatchApplied /\ DeliveredOnce /\ NoneLost

-----------------------------------------------------------------------------
\* Lists.

\* What is in a list after an append.
LEMMA InAppend ==
    ASSUME NEW S, NEW s \in Seq(S), NEW e \in S, NEW i
    PROVE  In(i, Append(s, e)) <=> In(i, s) \/ i = e
<1>1. /\ Len(Append(s, e)) = Len(s) + 1
      /\ Len(s) \in Nat
      /\ \A k \in 1..Len(s) : Append(s, e)[k] = s[k]
      /\ Append(s, e)[Len(s) + 1] = e
    OBVIOUS
<1>2. ASSUME In(i, Append(s, e)) PROVE In(i, s) \/ i = e
    BY <1>1, <1>2 DEF In
<1>3. ASSUME In(i, s) PROVE In(i, Append(s, e))
    BY <1>1, <1>3 DEF In
<1>4. ASSUME i = e PROVE In(i, Append(s, e))
    BY <1>1, <1>4 DEF In
<1> QED BY <1>2, <1>3, <1>4

\* A list without repetitions stays one when something new is appended.
LEMMA OnceAppend ==
    ASSUME NEW S, NEW s \in Seq(S), NEW e \in S, Once(s), ~In(e, s)
    PROVE  Once(Append(s, e))
<1>1. /\ Len(Append(s, e)) = Len(s) + 1
      /\ Len(s) \in Nat
      /\ \A k \in 1..Len(s) : Append(s, e)[k] = s[k]
      /\ Append(s, e)[Len(s) + 1] = e
    OBVIOUS
<1> QED BY <1>1 DEF Once, In

\* What is in a list is its head or in its tail.
LEMMA InTail ==
    ASSUME NEW S, NEW s \in Seq(S), s # <<>>, NEW i
    PROVE  In(i, s) <=> i = Head(s) \/ In(i, Tail(s))
<1>1. /\ Len(s) \in Nat \ {0}
      /\ Len(Tail(s)) = Len(s) - 1
      /\ Head(s) = s[1]
      /\ \A k \in 1..(Len(s) - 1) : Tail(s)[k] = s[k + 1]
    OBVIOUS
<1>2. ASSUME In(i, s), i # Head(s) PROVE In(i, Tail(s))
    <2>1. PICK k \in 1..Len(s) : s[k] = i
        BY <1>2 DEF In
    <2>2. k - 1 \in 1..(Len(s) - 1) /\ Tail(s)[k - 1] = i
        BY <1>1, <1>2, <2>1
    <2> QED BY <1>1, <2>2 DEF In
<1>3. ASSUME In(i, Tail(s)) PROVE In(i, s)
    <2>1. PICK k \in 1..(Len(s) - 1) : Tail(s)[k] = i
        BY <1>1, <1>3 DEF In
    <2>2. k + 1 \in 1..Len(s) /\ s[k + 1] = i
        BY <1>1, <2>1
    <2> QED BY <2>2 DEF In
<1>4. ASSUME i = Head(s) PROVE In(i, s)
    BY <1>1, <1>4 DEF In
<1> QED BY <1>2, <1>3, <1>4

\* The tail of a list without repetitions has none, and not the head.
LEMMA OnceTail ==
    ASSUME NEW S, NEW s \in Seq(S), s # <<>>, Once(s)
    PROVE  Once(Tail(s)) /\ ~In(Head(s), Tail(s))
<1>1. /\ Len(s) \in Nat \ {0}
      /\ Len(Tail(s)) = Len(s) - 1
      /\ Head(s) = s[1]
      /\ \A k \in 1..(Len(s) - 1) : Tail(s)[k] = s[k + 1]
    OBVIOUS
<1>2. Once(Tail(s))
    <2>1. SUFFICES ASSUME NEW j \in 1..(Len(s) - 1), NEW k \in 1..(Len(s) - 1), Tail(s)[j] = Tail(s)[k]
                   PROVE  j = k
        BY <1>1 DEF Once
    <2>2. s[j + 1] = s[k + 1] /\ j + 1 \in 1..Len(s) /\ k + 1 \in 1..Len(s)
        BY <1>1, <2>1
    <2> QED BY <2>2 DEF Once
<1>3. ~In(Head(s), Tail(s))
    <2>1. SUFFICES ASSUME NEW k \in 1..(Len(s) - 1), Tail(s)[k] = Head(s) PROVE FALSE
        BY <1>1 DEF In
    <2>2. s[k + 1] = s[1] /\ k + 1 \in 1..Len(s) /\ 1 \in 1..Len(s)
        BY <1>1, <2>1
    <2>3. k + 1 = 1
        BY <2>2 DEF Once
    <2> QED BY <2>3
<1> QED BY <1>2, <1>3

\* A list without repetitions, and one of its elements taken out of it.
LEMMA InWithout ==
    ASSUME NEW S, NEW s \in Seq(S), Once(s), NEW k \in 1..Len(s)
    PROVE  /\ Without(s, k) \in Seq(S)
           /\ Once(Without(s, k))
           /\ \A i : In(i, Without(s, k)) <=> In(i, s) /\ i # s[k]
<1> DEFINE w == Without(s, k)
           n == Len(s) - 1
<1>1. /\ Len(s) \in Nat \ {0}
      /\ n \in Nat
      /\ \A j \in 1..Len(s) : s[j] \in S
    OBVIOUS
<1>2. /\ w = [j \in 1..n |-> IF j < k THEN s[j] ELSE s[j + 1]]
      /\ \A j \in 1..n : j \in 1..Len(s) /\ j + 1 \in 1..Len(s)
      /\ \A j \in 1..n : w[j] = IF j < k THEN s[j] ELSE s[j + 1]
    BY <1>1 DEF Without
<1>3. w \in [1..n -> S]
    BY <1>1, <1>2
<1>4. w \in Seq(S) /\ Len(w) = n
    BY <1>1, <1>3
<1>5. Once(w)
    <2>1. SUFFICES ASSUME NEW a \in 1..n, NEW b \in 1..n, w[a] = w[b] PROVE a = b
        BY <1>4 DEF Once
    <2>2. \A x, y \in 1..Len(s) : s[x] = s[y] => x = y
        BY DEF Once
    <2>3. CASE a < k /\ b < k
        <3>1. s[a] = s[b] BY <1>2, <2>1, <2>3
        <3> QED BY <3>1, <2>2, <1>2
    <2>4. CASE a < k /\ ~(b < k)
        <3>1. s[a] = s[b + 1] BY <1>2, <2>1, <2>4
        <3>2. a = b + 1 BY <3>1, <2>2, <1>2
        <3> QED BY <3>2, <2>4, <1>1
    <2>5. CASE ~(a < k) /\ b < k
        <3>1. s[a + 1] = s[b] BY <1>2, <2>1, <2>5
        <3>2. a + 1 = b BY <3>1, <2>2, <1>2
        <3> QED BY <3>2, <2>5, <1>1
    <2>6. CASE ~(a < k) /\ ~(b < k)
        <3>1. s[a + 1] = s[b + 1] BY <1>2, <2>1, <2>6
        <3>2. a + 1 = b + 1 BY <3>1, <2>2, <1>2
        <3> QED BY <3>2, <1>1
    <2> QED BY <2>3, <2>4, <2>5, <2>6
<1>6. ASSUME NEW i, In(i, w) PROVE In(i, s) /\ i # s[k]
    <2>1. PICK j \in 1..n : w[j] = i
        BY <1>4, <1>6 DEF In
    <2>2. CASE j < k
        <3>1. s[j] = i /\ j \in 1..Len(s) /\ j # k BY <1>1, <1>2, <2>1, <2>2
        <3> QED BY <3>1 DEF In, Once
    <2>3. CASE ~(j < k)
        <3>1. s[j + 1] = i /\ j + 1 \in 1..Len(s) /\ j + 1 # k BY <1>1, <1>2, <2>1, <2>3
        <3> QED BY <3>1 DEF In, Once
    <2> QED BY <2>2, <2>3
<1>7. ASSUME NEW i, In(i, s), i # s[k] PROVE In(i, w)
    <2>1. PICK j \in 1..Len(s) : s[j] = i
        BY <1>7 DEF In
    <2>2. CASE j < k
        <3>1. j \in 1..n /\ w[j] = i BY <1>1, <1>2, <2>1, <2>2
        <3> QED BY <3>1, <1>4 DEF In
    <2>3. CASE ~(j < k)
        <3>1. j # k BY <1>7, <2>1
        <3>2. j - 1 \in 1..n /\ ~(j - 1 < k) /\ (j - 1) + 1 = j BY <1>1, <2>1, <2>3, <3>1
        <3>3. w[j - 1] = i BY <3>2, <1>2, <2>1
        <3> QED BY <3>2, <3>3, <1>4 DEF In
    <2> QED BY <2>2, <2>3
<1>8. \A i : In(i, w) <=> In(i, s) /\ i # s[k]
    BY <1>6, <1>7
<1> QED BY <1>4, <1>5, <1>8

\* The last place of an interrupt in a list without repetitions is its place.
LEMMA LastPlaceIn ==
    ASSUME NEW S, NEW s \in Seq(S), Once(s), NEW i, In(i, s)
    PROVE  LastPlace(i, s) \in 1..Len(s) /\ s[LastPlace(i, s)] = i
<1>1. PICK k \in 1..Len(s) : s[k] = i
    BY DEF In
<1>2. \A j \in (k + 1)..Len(s) : s[j] # i
    <2>1. SUFFICES ASSUME NEW j \in (k + 1)..Len(s), s[j] = i PROVE FALSE
        OBVIOUS
    <2>2. j \in 1..Len(s) /\ j # k
        OBVIOUS
    <2> QED BY <1>1, <2>1, <2>2 DEF Once
<1> QED BY <1>1, <1>2 DEF LastPlace

-----------------------------------------------------------------------------
\* The CPU interface.

\* push_pending queues an interrupt, unless it is active, and nothing else.
LEMMA PushPendingIn ==
    ASSUME TypeOK, DeliveredOnce, NEW c \in CPUS, NEW i \in INTIDS
    PROVE  /\ PushPending(c, i) \in Seq(INTIDS)
           /\ Once(PushPending(c, i))
           /\ \A j : In(j, PushPending(c, i)) <=> In(j, pending[c]) \/ (j = i /\ ~In(i, active[c]))
<1>1. pending[c] \in Seq(INTIDS) /\ Once(pending[c]) /\ ~(In(i, pending[c]) /\ In(i, active[c]))
    BY DEF TypeOK, DeliveredOnce
<1>2. CASE In(i, active[c]) \/ In(i, pending[c])
    BY <1>1, <1>2 DEF PushPending
<1>3. CASE ~(In(i, active[c]) \/ In(i, pending[c]))
    <2>1. PushPending(c, i) = Append(pending[c], i)
        BY <1>3 DEF PushPending
    <2>2. Append(pending[c], i) \in Seq(INTIDS)
        BY <1>1
    <2>3. Once(Append(pending[c], i))
        BY <1>1, <1>3, OnceAppend
    <2>4. \A j : In(j, Append(pending[c], i)) <=> In(j, pending[c]) \/ j = i
        BY <1>1, InAppend
    <2> QED BY <2>1, <2>2, <2>3, <2>4, <1>3
<1> QED BY <1>2, <1>3

\* deactivate takes an interrupt off the stack, and nothing else.
LEMMA DeactivateIn ==
    ASSUME TypeOK, DeliveredOnce, NEW c \in CPUS, NEW i \in INTIDS
    PROVE  /\ Deactivate(c, i) \in Seq(INTIDS)
           /\ Once(Deactivate(c, i))
           /\ \A j : In(j, Deactivate(c, i)) <=> In(j, active[c]) /\ j # i
<1>1. active[c] \in Seq(INTIDS) /\ Once(active[c])
    BY DEF TypeOK, DeliveredOnce
<1>2. CASE In(i, active[c])
    <2>1. /\ LastPlace(i, active[c]) \in 1..Len(active[c])
          /\ active[c][LastPlace(i, active[c])] = i
        BY <1>1, <1>2, LastPlaceIn
    <2>2. Deactivate(c, i) = Without(active[c], LastPlace(i, active[c]))
        BY <1>2 DEF Deactivate
    <2>3. /\ Without(active[c], LastPlace(i, active[c])) \in Seq(INTIDS)
          /\ Once(Without(active[c], LastPlace(i, active[c])))
          /\ \A j : In(j, Without(active[c], LastPlace(i, active[c])))
                       <=> In(j, active[c]) /\ j # active[c][LastPlace(i, active[c])]
        BY <1>1, <2>1, InWithout
    <2> QED BY <2>1, <2>2, <2>3
<1>3. CASE ~In(i, active[c])
    BY <1>1, <1>3 DEF Deactivate
<1> QED BY <1>2, <1>3

-----------------------------------------------------------------------------
\* One lemma per kind of step.

\* Steps that leave the lists and the histories alone.
LEMMA Quiet ==
    ASSUME Inv, TypeOK', BatchApplied',
           UNCHANGED <<queue, batch, pending, active, phase, owed, lost>>
    PROVE  DeliveredOnce' /\ NoneLost'
BY DEF Inv, DeliveredOnce, NoneLost, InFlight

\* Initially the lists are empty and nothing is owed.
LEMMA InitInv == Init => Inv
<1> SUFFICES ASSUME Init PROVE Inv
    OBVIOUS
<1>1. TypeOK
    <2>1. \A S : <<>> \in Seq(S)
        OBVIOUS
    <2> QED BY <2>1, UserGicAssumption DEF Init, Fresh, TypeOK, PLACES, INTIDS, EVENTS, Timer, OneOfN
<1>2. BatchApplied
    BY DEF Init, BatchApplied
<1>3. DeliveredOnce
    <2>1. Once(<<>>) /\ \A i : ~In(i, <<>>)
        BY DEF Once, In
    <2> QED BY <2>1 DEF Init, DeliveredOnce
<1>4. NoneLost
    BY DEF Init, NoneLost
<1> QED BY <1>1, <1>2, <1>3, <1>4 DEF Inv

\* A source pushes on a queue.
LEMMA InjectInv ==
    ASSUME Inv, NEW d \in CPUS, NEW i \in EVENTS, Inject(d, i),
           TypeOK', BatchApplied',
           UNCHANGED <<batch, pending, active, phase, lost>>
    PROVE  DeliveredOnce' /\ NoneLost'
<1>1. DeliveredOnce'
    BY DEF Inv, DeliveredOnce
<1>2. queue[d] \in Seq(EVENTS) /\ queue' = [queue EXCEPT ![d] = Append(queue[d], i)]
    BY DEF Inv, TypeOK, Inject
<1>3. \A j : In(j, Append(queue[d], i)) <=> In(j, queue[d]) \/ j = i
    BY <1>2, InAppend
<1>4. ASSUME NEW c \in CPUS, NEW j \in owed'[c], lost'[c][j] = {} PROVE InFlight(c, j)'
    <2>1. CASE j \in owed[c]
        <3>1. InFlight(c, j)
            BY <2>1, <1>4 DEF Inv, NoneLost
        <3> QED BY <3>1, <1>2, <1>3 DEF InFlight, Inv, TypeOK
    <2>2. CASE j \notin owed[c]
        <3>1. c = d /\ j = i
            BY <2>2, <1>4 DEF Inject, Inv, TypeOK
        <3> QED BY <3>1, <1>2, <1>3 DEF InFlight, Inv, TypeOK
    <2> QED BY <2>1, <2>2
<1> QED BY <1>1, <1>4 DEF NoneLost

\* The types of what asserting the timer changes.
LEMMA AssertTimerType ==
    ASSUME Inv, NEW c \in CPUS, AssertTimer(c)
    PROVE  pending' \in [CPUS -> Seq(INTIDS)] /\ line' \in [CPUS -> BOOLEAN]
<1>1. PushPending(c, Timer) \in Seq(INTIDS)
    BY PushPendingIn DEF INTIDS, Inv
<1>2. /\ pending' = [pending EXCEPT ![c] = PushPending(c, Timer)] /\ pending \in [CPUS -> Seq(INTIDS)]
      /\ line' = [line EXCEPT ![c] = TRUE] /\ line \in [CPUS -> BOOLEAN]
    BY DEF AssertTimer, Inv, TypeOK
<1> QED BY <1>1, <1>2

\* The timer is asserted.
LEMMA AssertTimerInv ==
    ASSUME Inv, NEW c \in CPUS, AssertTimer(c), TypeOK',
           UNCHANGED <<queue, batch, active, phase, owed, lost>>
    PROVE  DeliveredOnce' /\ NoneLost'
<1>1. /\ PushPending(c, Timer) \in Seq(INTIDS)
      /\ Once(PushPending(c, Timer))
      /\ \A j : In(j, PushPending(c, Timer))
                   <=> In(j, pending[c]) \/ (j = Timer /\ ~In(Timer, active[c]))
    BY PushPendingIn DEF Inv, INTIDS
<1>2. pending' = [pending EXCEPT ![c] = PushPending(c, Timer)] /\ pending \in [CPUS -> Seq(INTIDS)]
    BY DEF AssertTimer, Inv, TypeOK
<1>3. DeliveredOnce'
    BY <1>1, <1>2 DEF Inv, DeliveredOnce
<1>4. NoneLost'
    BY <1>1, <1>2 DEF Inv, NoneLost, InFlight
<1> QED BY <1>3, <1>4

\* Where a step takes a vCPU, and what it leaves in the batch of the others.
LEMMA GoApplied ==
    ASSUME Inv, NEW c \in CPUS, NEW p \in PLACES, Go(c, p), UNCHANGED batch,
           p \notin {"apply", "parkapply"} => batch[c] = <<>>
    PROVE  place' \in [CPUS -> PLACES] /\ BatchApplied'
BY DEF Inv, TypeOK, BatchApplied, Go

\* The drain takes the queue: nothing is in the batch it overwrites.
LEMMA TakeQueueInv ==
    ASSUME Inv, NEW c \in CPUS, TakeQueue(c)
    PROVE  Inv'
<1> USE DEF Inv
<1>1. batch[c] = <<>>
    BY DEF TakeQueue, BatchApplied
<1>2. /\ queue' = [queue EXCEPT ![c] = <<>>] /\ queue \in [CPUS -> Seq(EVENTS)]
      /\ batch' = [batch EXCEPT ![c] = queue[c]] /\ batch \in [CPUS -> Seq(EVENTS)]
      /\ UNCHANGED <<active, eoimode, spi_on, route, sgi_on, saved, vmask, timer, masked, phase, owed, lost, raised>>
    BY DEF TakeQueue, TypeOK, guest, history
<1>3. \/ UNCHANGED <<pending, line>>
      \/ AssertTimer(c)
    BY DEF TakeQueue
<1>4. pending' \in [CPUS -> Seq(INTIDS)] /\ line' \in [CPUS -> BOOLEAN]
    <2>1. CASE UNCHANGED <<pending, line>>
        BY <2>1 DEF TypeOK
    <2>2. CASE AssertTimer(c)
        BY <2>2, AssertTimerType
    <2> QED BY <1>3, <2>1, <2>2
<1>5. place' \in [CPUS -> PLACES]
    <2>1. place \in [CPUS -> PLACES]
        BY DEF TypeOK
    <2>2. PICK p \in {"apply", "parkapply"} : place' = [place EXCEPT ![c] = p]
        BY DEF TakeQueue, Go
    <2> QED BY <2>1, <2>2 DEF PLACES
<1>6. queue' \in [CPUS -> Seq(EVENTS)] /\ batch' \in [CPUS -> Seq(EVENTS)]
    <2>1. <<>> \in Seq(EVENTS) /\ queue[c] \in Seq(EVENTS)
        BY <1>2
    <2> QED BY <1>2, <2>1
<1>7. TypeOK'
    BY <1>2, <1>4, <1>5, <1>6 DEF TypeOK
<1>8. BatchApplied'
    BY <1>2 DEF TakeQueue, Go, BatchApplied, TypeOK
<1>9. \A d \in CPUS, i \in INTIDS : In(i, pending[d]) => In(i, pending'[d])
    <2>1. \A j : In(j, PushPending(c, Timer))
                   <=> In(j, pending[c]) \/ (j = Timer /\ ~In(Timer, active[c]))
        BY PushPendingIn DEF INTIDS
    <2>2. CASE UNCHANGED pending
        BY <2>2
    <2>3. CASE AssertTimer(c)
        <3>1. pending' = [pending EXCEPT ![c] = PushPending(c, Timer)] /\ pending \in [CPUS -> Seq(INTIDS)]
            BY <2>3 DEF AssertTimer, TypeOK
        <3> QED BY <2>1, <3>1
    <2> QED BY <1>3, <2>2, <2>3
<1>10. DeliveredOnce'
    <2>1. CASE UNCHANGED pending
        BY <2>1, <1>2 DEF DeliveredOnce
    <2>2. CASE AssertTimer(c)
        <3>1. /\ Once(PushPending(c, Timer))
              /\ \A j : In(j, PushPending(c, Timer))
                           <=> In(j, pending[c]) \/ (j = Timer /\ ~In(Timer, active[c]))
            BY PushPendingIn DEF INTIDS
        <3> QED BY <3>1, <2>2, <1>2 DEF AssertTimer, DeliveredOnce, TypeOK
    <2> QED BY <1>3, <2>1, <2>2
<1>11. NoneLost'
    <2>1. SUFFICES ASSUME NEW d \in CPUS, NEW i \in owed[d], lost[d][i] = {} PROVE InFlight(d, i)'
        BY <1>2 DEF NoneLost
    <2>2. InFlight(d, i) /\ i \in INTIDS
        BY <2>1 DEF NoneLost, TypeOK, INTIDS
    <2>3. ~In(i, <<>>)
        BY DEF In
    <2>4. In(i, queue[d]) \/ In(i, batch[d]) => In(i, queue'[d]) \/ In(i, batch'[d])
        BY <1>1, <1>2, <2>3
    <2> QED BY <2>2, <2>4, <1>2, <1>9 DEF InFlight
<1> QED BY <1>7, <1>8, <1>10, <1>11

\* One interrupt of the batch is pushed, or its loss recorded.
LEMMA ApplyOneInv ==
    ASSUME Inv, NEW c \in CPUS, ApplyOne(c)
    PROVE  Inv'
<1> USE DEF Inv
<1> DEFINE i == Head(batch[c])
<1>1. /\ batch[c] \in Seq(EVENTS) /\ batch[c] # <<>>
      /\ place[c] \in {"apply", "parkapply"}
      /\ batch' = [batch EXCEPT ![c] = Tail(batch[c])]
      /\ UNCHANGED <<queue, active, eoimode, spi_on, route, sgi_on, saved, line, vmask, place, timer, masked,
                     phase, owed, raised>>
    BY DEF ApplyOne, PushOne, TypeOK, hvf, guest
<1>2. i \in EVENTS /\ i \in INTIDS /\ Tail(batch[c]) \in Seq(EVENTS)
    BY <1>1 DEF INTIDS
<1>3. /\ PushPending(c, i) \in Seq(INTIDS)
      /\ Once(PushPending(c, i))
      /\ \A j : In(j, PushPending(c, i)) <=> In(j, pending[c]) \/ (j = i /\ ~In(i, active[c]))
    BY <1>2, PushPendingIn
<1>4. /\ pending' = [pending EXCEPT ![c] = IF Enabled(c, i) THEN PushPending(c, i) ELSE pending[c]]
      /\ lost' = [lost EXCEPT ![c][i] =
                     IF ~Enabled(c, i) THEN lost[c][i] \cup {"disabled"}
                     ELSE IF In(i, active[c]) THEN lost[c][i] \cup {"active"} ELSE lost[c][i]]
    BY DEF ApplyOne, PushOne
<1>5. TypeOK'
    <2>1. pending' \in [CPUS -> Seq(INTIDS)]
        BY <1>3, <1>4 DEF TypeOK
    <2>2. lost' \in [CPUS -> [EVENTS -> SUBSET {"active", "disabled", "queued"}]]
        BY <1>2, <1>4 DEF TypeOK
    <2>3. batch' \in [CPUS -> Seq(EVENTS)]
        BY <1>1, <1>2 DEF TypeOK
    <2> QED BY <1>1, <2>1, <2>2, <2>3 DEF TypeOK
<1>6. BatchApplied'
    BY <1>1 DEF BatchApplied, TypeOK
<1>7. DeliveredOnce'
    BY <1>1, <1>3, <1>4 DEF DeliveredOnce, TypeOK
<1>8. NoneLost'
    <2>1. SUFFICES ASSUME NEW d \in CPUS, NEW j \in owed[d], lost'[d][j] = {} PROVE InFlight(d, j)'
        BY <1>1 DEF NoneLost
    <2>2. j \in EVENTS
        BY <2>1 DEF TypeOK
    <2>3. lost[d][j] = {}
        BY <1>2, <1>4, <2>1, <2>2 DEF TypeOK
    <2>4. InFlight(d, j)
        BY <2>3 DEF NoneLost
    <2>5. In(j, batch[c]) <=> j = i \/ In(j, Tail(batch[c]))
        BY <1>1, InTail
    <2>6. CASE d = c /\ j = i
        <3>1. Enabled(c, i) /\ ~In(i, active[c])
            BY <1>2, <1>4, <2>1, <2>6 DEF TypeOK
        <3>2. In(i, pending'[c])
            BY <3>1, <1>3, <1>4 DEF TypeOK
        <3> QED BY <3>2, <2>6 DEF InFlight
    <2>7. CASE ~(d = c /\ j = i)
        <3>1. In(j, batch[d]) => In(j, batch'[d])
            BY <1>1, <2>5, <2>7 DEF TypeOK
        <3>2. In(j, pending[d]) => In(j, pending'[d])
            BY <1>3, <1>4 DEF TypeOK
        <3> QED BY <3>1, <3>2, <2>4, <1>1 DEF InFlight
    <2> QED BY <2>6, <2>7
<1> QED BY <1>5, <1>6, <1>7, <1>8

\* The oldest pending interrupt becomes active.
LEMMA ReadIarInv ==
    ASSUME Inv, NEW c \in CPUS, ReadIar(c)
    PROVE  Inv'
<1> USE DEF Inv
<1>1. /\ place[c] = "guest" /\ Go(c, "host")
      /\ line' = [line EXCEPT ![c] = FALSE]
      /\ UNCHANGED <<queue, batch, eoimode, spi_on, route, sgi_on, saved, vmask, timer, owed, lost, raised>>
    BY DEF ReadIar, history
<1>2. place' \in [CPUS -> PLACES] /\ BatchApplied'
    BY <1>1, GoApplied DEF BatchApplied, PLACES
<1>3. CASE pending[c] = <<>>
    <2>1. active' = active
        BY <1>3 DEF ReadIar, Acknowledge, TypeOK
    <2>2. UNCHANGED <<pending, masked, phase>>
        BY <1>3 DEF ReadIar
    <2>3. TypeOK'
        BY <1>1, <1>2, <2>1, <2>2 DEF TypeOK
    <2> QED BY <1>1, <1>2, <2>1, <2>2, <2>3, Quiet
<1>4. CASE pending[c] # <<>>
    <2> DEFINE i == Head(pending[c])
    <2>1. pending[c] \in Seq(INTIDS) /\ active[c] \in Seq(INTIDS) /\ Once(pending[c]) /\ Once(active[c])
        BY DEF TypeOK, DeliveredOnce
    <2>2. i \in INTIDS /\ Tail(pending[c]) \in Seq(INTIDS) /\ Append(active[c], i) \in Seq(INTIDS)
        BY <2>1, <1>4
    <2>3. /\ pending' = [pending EXCEPT ![c] = Tail(pending[c])]
          /\ phase' = [phase EXCEPT ![c][i] = "taken"]
          /\ masked' = [masked EXCEPT ![c] = TRUE]
          /\ active' = [active EXCEPT ![c] = Append(active[c], i)]
        BY <1>4 DEF ReadIar, Acknowledge
    <2>4. TypeOK'
        BY <1>1, <1>2, <2>2, <2>3 DEF TypeOK
    <2>5. \A j : In(j, pending[c]) <=> j = i \/ In(j, Tail(pending[c]))
        BY <2>1, <1>4, InTail
    <2>6. Once(Tail(pending[c])) /\ ~In(i, Tail(pending[c]))
        BY <2>1, <1>4, OnceTail
    <2>7. ~In(i, active[c])
        BY <2>2, <2>5 DEF DeliveredOnce
    <2>8. Once(Append(active[c], i)) /\ \A j : In(j, Append(active[c], i)) <=> In(j, active[c]) \/ j = i
        BY <2>1, <2>2, <2>7, OnceAppend, InAppend
    <2>9. DeliveredOnce'
        <3>1. SUFFICES ASSUME NEW d \in CPUS
                       PROVE  /\ Once(pending'[d])
                              /\ Once(active'[d])
                              /\ \A j \in INTIDS :
                                    /\ ~(In(j, pending'[d]) /\ In(j, active'[d]))
                                    /\ In(j, active'[d]) <=> phase'[d][j] # "none"
            BY DEF DeliveredOnce
        <3>2. CASE d # c
            BY <3>2, <2>3 DEF DeliveredOnce, TypeOK
        <3>3. CASE d = c
            <4>1. pending'[d] = Tail(pending[c]) /\ active'[d] = Append(active[c], i)
                BY <3>3, <2>3 DEF TypeOK
            <4>2. \A j \in INTIDS : phase'[d][j] = IF j = i THEN "taken" ELSE phase[c][j]
                BY <3>3, <2>2, <2>3 DEF TypeOK
            <4> QED BY <4>1, <4>2, <2>5, <2>6, <2>8 DEF DeliveredOnce
        <3> QED BY <3>2, <3>3
    <2>10. NoneLost'
        <3>1. SUFFICES ASSUME NEW d \in CPUS, NEW j \in owed[d], lost[d][j] = {} PROVE InFlight(d, j)'
            BY <1>1 DEF NoneLost
        <3>2. InFlight(d, j) /\ j \in INTIDS
            BY <3>1 DEF NoneLost, TypeOK, INTIDS
        <3>3. In(j, pending[d]) => In(j, pending'[d]) \/ phase'[d][j] = "taken"
            BY <2>2, <2>3, <2>5, <3>2 DEF TypeOK
        <3>4. phase'[d][j] = phase[d][j] \/ phase'[d][j] = "taken"
            BY <2>2, <2>3, <3>2 DEF TypeOK
        <3> QED BY <3>2, <3>3, <3>4, <1>1 DEF InFlight
    <2> QED BY <1>2, <2>4, <2>9, <2>10
<1> QED BY <1>3, <1>4

\* The rest of run(), up to the entry.
LEMMA EnterInv ==
    ASSUME Inv, NEW c \in CPUS, Enter(c)
    PROVE  Inv'
<1> USE DEF Inv
<1>1. /\ batch[c] = <<>> /\ Go(c, "guest") /\ PollAndRefresh(c)
      /\ UNCHANGED <<queue, batch, active, eoimode, spi_on, route, sgi_on, saved, vmask, timer, masked, phase,
                     owed, lost, raised>>
    BY DEF Enter, guest, history
<1>2. place' \in [CPUS -> PLACES] /\ BatchApplied'
    BY <1>1, GoApplied DEF PLACES
<1>3. CASE timer[c] = "due"
    <2>1. AssertTimer(c)
        BY <1>1, <1>3 DEF PollAndRefresh
    <2>2. TypeOK'
        BY <1>1, <1>2, <2>1, AssertTimerType DEF TypeOK
    <2> QED BY <1>1, <1>2, <2>1, <2>2, AssertTimerInv
<1>4. CASE timer[c] # "due"
    <2>1. UNCHANGED pending /\ line' = [line EXCEPT ![c] = line[c] \/ ShouldAssert(c)]
        BY <1>1, <1>4 DEF PollAndRefresh
    <2>2. line' \in [CPUS -> BOOLEAN]
        <3>1. line \in [CPUS -> BOOLEAN]
            BY DEF TypeOK
        <3>2. (line[c] \/ ShouldAssert(c)) \in BOOLEAN
            BY Zenon
        <3> QED BY <2>1, <3>1, <3>2
    <2>3. TypeOK'
        BY <1>1, <1>2, <2>1, <2>2 DEF TypeOK
    <2> QED BY <1>1, <1>2, <2>1, <2>3, Quiet
<1> QED BY <1>3, <1>4

\* Steps that move a vCPU and at most mask or unmask its timer.
LEMMA MoveInv ==
    ASSUME Inv, NEW c \in CPUS,
           ParkOver(c) \/ ParkNap(c) \/ OtherExit(c) \/ Wfx(c)
    PROVE  Inv'
<1> USE DEF Inv
<1>1. PICK p \in {"host", "park"} : Go(c, p)
    BY DEF ParkOver, ParkNap, OtherExit, Wfx
<1>2. /\ batch[c] = <<>>
      /\ UNCHANGED <<queue, batch, pending, active, line, eoimode, spi_on, route, sgi_on, saved, timer, masked,
                     phase, owed, lost, raised>>
    BY DEF ParkOver, ParkNap, OtherExit, Wfx, BatchApplied, gic, hvf, guest, history
<1>3. place' \in [CPUS -> PLACES] /\ BatchApplied'
    BY <1>1, <1>2, GoApplied DEF PLACES
<1>4. vmask' \in [CPUS -> BOOLEAN]
    BY DEF ParkOver, ParkNap, OtherExit, Wfx, hvf, TypeOK
<1>5. TypeOK'
    BY <1>2, <1>3, <1>4 DEF TypeOK
<1> QED BY <1>2, <1>3, <1>5, Quiet

\* The guest reads another register of the CPU interface.
LEMMA ReadIccInv ==
    ASSUME Inv, NEW c \in CPUS, ReadIcc(c)
    PROVE  Inv'
<1> USE DEF Inv
<1>1. /\ batch[c] = <<>> /\ Go(c, "host")
      /\ line' = [line EXCEPT ![c] = line[c] /\ ShouldAssert(c)]
      /\ UNCHANGED <<queue, batch, pending, active, vmask, eoimode, spi_on, route, sgi_on, saved,
                     timer, masked, phase, owed, lost, raised>>
    BY DEF ReadIcc, BatchApplied, gic, guest, history
<1>2. place' \in [CPUS -> PLACES] /\ BatchApplied'
    BY <1>1, GoApplied DEF PLACES
<1>3. line' \in [CPUS -> BOOLEAN]
    <2>1. line \in [CPUS -> BOOLEAN]
        BY DEF TypeOK
    <2>2. (line[c] /\ ShouldAssert(c)) \in BOOLEAN
        BY Zenon
    <2> QED BY <1>1, <2>1, <2>2
<1>4. TypeOK'
    BY <1>1, <1>2, <1>3 DEF TypeOK
<1> QED BY <1>1, <1>2, <1>4, Quiet

\* A vCPU captures itself.
LEMMA CaptureInv ==
    ASSUME Inv, NEW c \in CPUS, Capture(c)
    PROVE  Inv'
<1> USE DEF Inv
<1>1. /\ batch[c] = <<>> /\ Go(c, "gate")
      /\ saved' = [saved EXCEPT ![c] = Config(c)]
      /\ UNCHANGED <<queue, batch, pending, active, line, vmask, eoimode, spi_on, route, sgi_on,
                     timer, masked, phase, owed, lost, raised>>
    BY DEF Capture, BatchApplied, hvf, guest, history
<1>2. place' \in [CPUS -> PLACES] /\ BatchApplied'
    BY <1>1, GoApplied DEF PLACES
<1>3. Config(c) \in [spi : BOOLEAN, route : CPUS \cup {OneOfN}, sgi : BOOLEAN]
    BY DEF Config, TypeOK
<1>4. TypeOK'
    BY <1>1, <1>2, <1>3 DEF TypeOK
<1> QED BY <1>1, <1>2, <1>4, Quiet

\* HVF's exit for a timer that fired.
LEMMA VtimerActivatedInv ==
    ASSUME Inv, NEW c \in CPUS, VtimerActivated(c)
    PROVE  Inv'
<1> USE DEF Inv
<1>1. /\ batch[c] = <<>> /\ Go(c, "host") /\ AssertTimer(c)
      /\ vmask' = [vmask EXCEPT ![c] = TRUE]
      /\ UNCHANGED <<queue, batch, active, eoimode, spi_on, route, sgi_on, saved, timer, masked, phase,
                     owed, lost, raised>>
    BY DEF VtimerActivated, BatchApplied, guest, history
<1>2. place' \in [CPUS -> PLACES] /\ BatchApplied'
    BY <1>1, GoApplied DEF PLACES
<1>3. TypeOK'
    BY <1>1, <1>2, AssertTimerType DEF TypeOK
<1> QED BY <1>1, <1>2, <1>3, AssertTimerInv

\* Time passes.
LEMMA TimerDueInv ==
    ASSUME Inv, NEW c \in CPUS, TimerDue(c)
    PROVE  Inv'
<1> USE DEF Inv
<1>1. UNCHANGED <<queue, batch, pending, active, line, vmask, place, eoimode, spi_on, route, sgi_on, saved, masked,
                  phase, owed, lost, raised>>
    BY DEF TimerDue, gic, hvf, history
<1>2. TypeOK'
    BY <1>1 DEF TimerDue, TypeOK
<1>3. BatchApplied'
    BY <1>1 DEF BatchApplied
<1> QED BY <1>1, <1>2, <1>3, Quiet

\* An interrupt is taken off the stack, and its handler is over.
LEMMA EndInv ==
    ASSUME Inv, NEW c \in CPUS, NEW i \in INTIDS, phase[c][i] = "looked",
           active' = [active EXCEPT ![c] = Deactivate(c, i)],
           phase' = [phase EXCEPT ![c][i] = "none"],
           UNCHANGED <<queue, batch, pending, owed, lost>>
    PROVE  DeliveredOnce' /\ NoneLost' /\ active' \in [CPUS -> Seq(INTIDS)]
<1> USE DEF Inv
<1>1. /\ Deactivate(c, i) \in Seq(INTIDS)
      /\ Once(Deactivate(c, i))
      /\ \A j : In(j, Deactivate(c, i)) <=> In(j, active[c]) /\ j # i
    BY DeactivateIn
<1>2. active \in [CPUS -> Seq(INTIDS)] /\ phase \in [CPUS -> [INTIDS -> {"none", "taken", "dropped", "looked"}]]
    BY DEF TypeOK
<1>3. \A d \in CPUS, j \in INTIDS : phase'[d][j] = IF d = c /\ j = i THEN "none" ELSE phase[d][j]
    BY <1>2
<1>4. DeliveredOnce'
    <2>1. SUFFICES ASSUME NEW d \in CPUS
                   PROVE  /\ Once(pending[d])
                          /\ Once(active'[d])
                          /\ \A j \in INTIDS :
                                /\ ~(In(j, pending[d]) /\ In(j, active'[d]))
                                /\ In(j, active'[d]) <=> phase'[d][j] # "none"
        BY DEF DeliveredOnce
    <2>2. CASE d # c
        BY <2>2, <1>2, <1>3 DEF DeliveredOnce
    <2>3. CASE d = c
        <3>1. active'[d] = Deactivate(c, i)
            BY <2>3, <1>2
        <3> QED BY <3>1, <2>3, <1>1, <1>3 DEF DeliveredOnce
    <2> QED BY <2>2, <2>3
<1>5. NoneLost'
    <2>1. SUFFICES ASSUME NEW d \in CPUS, NEW j \in owed[d], lost[d][j] = {} PROVE InFlight(d, j)'
        BY DEF NoneLost
    <2>2. InFlight(d, j) /\ j \in INTIDS
        BY <2>1 DEF NoneLost, TypeOK, INTIDS
    <2> QED BY <2>2, <1>3 DEF InFlight
<1>6. active' \in [CPUS -> Seq(INTIDS)]
    BY <1>1, <1>2
<1> QED BY <1>4, <1>5, <1>6

\* What Rearm does to the mask of the timer.
LEMMA RearmType ==
    ASSUME Inv, NEW c \in CPUS, NEW i \in INTIDS, Rearm(c, i)
    PROVE  vmask' \in [CPUS -> BOOLEAN]
<1>1. vmask \in [CPUS -> BOOLEAN] /\ vmask' = [vmask EXCEPT ![c] = vmask[c] /\ i # Timer]
    BY DEF Inv, TypeOK, Rearm
<1>2. (vmask[c] /\ i # Timer) \in BOOLEAN
    BY Zenon
<1> QED BY <1>1, <1>2

\* The guest ends an interrupt, or drops its priority.
LEMMA WriteEoirInv ==
    ASSUME Inv, NEW c \in CPUS, NEW i \in INTIDS, WriteEoir(c, i)
    PROVE  Inv'
<1> USE DEF Inv
<1>1. /\ batch[c] = <<>> /\ Go(c, "host")
      /\ UNCHANGED <<queue, batch, pending, eoimode, spi_on, route, sgi_on, saved, line, timer, owed, lost, raised>>
    BY DEF WriteEoir, BatchApplied, history
<1>2. place' \in [CPUS -> PLACES] /\ BatchApplied'
    BY <1>1, GoApplied DEF PLACES
<1>3. CASE eoimode = 0
    <2>1. /\ phase[c][i] = "looked"
          /\ active' = [active EXCEPT ![c] = Deactivate(c, i)]
          /\ phase' = [phase EXCEPT ![c][i] = "none"]
          /\ masked' = [masked EXCEPT ![c] = FALSE]
          /\ Rearm(c, i)
        BY <1>3 DEF WriteEoir
    <2>2. DeliveredOnce' /\ NoneLost' /\ active' \in [CPUS -> Seq(INTIDS)]
        BY <1>1, <2>1, EndInv
    <2>3. TypeOK'
        BY <1>1, <1>2, <2>1, <2>2, RearmType DEF TypeOK
    <2> QED BY <1>2, <2>2, <2>3
<1>4. CASE eoimode # 0
    <2>1. /\ phase[c][i] = "taken"
          /\ phase' = [phase EXCEPT ![c][i] = "dropped"]
          /\ UNCHANGED <<active, masked, vmask>>
        BY <1>4 DEF WriteEoir
    <2>2. \A d \in CPUS, j \in INTIDS :
             phase'[d][j] = IF d = c /\ j = i THEN "dropped" ELSE phase[d][j]
        BY <2>1 DEF TypeOK
    <2>3. TypeOK'
        BY <1>1, <1>2, <2>1 DEF TypeOK
    <2>4. DeliveredOnce'
        BY <1>1, <2>1, <2>2 DEF DeliveredOnce
    <2>5. NoneLost'
        <3>1. SUFFICES ASSUME NEW d \in CPUS, NEW j \in owed[d], lost[d][j] = {} PROVE InFlight(d, j)'
            BY <1>1 DEF NoneLost
        <3>2. InFlight(d, j) /\ j \in INTIDS
            BY <3>1 DEF NoneLost, TypeOK, INTIDS
        <3> QED BY <3>2, <2>2, <1>1 DEF InFlight
    <2> QED BY <1>2, <2>3, <2>4, <2>5
<1> QED BY <1>3, <1>4

\* The guest deactivates an interrupt.
LEMMA WriteDirInv ==
    ASSUME Inv, NEW c \in CPUS, NEW i \in INTIDS, WriteDir(c, i)
    PROVE  Inv'
<1> USE DEF Inv
<1>1. /\ batch[c] = <<>> /\ Go(c, "host")
      /\ UNCHANGED <<queue, batch, pending, eoimode, spi_on, route, sgi_on, saved, line, timer, owed, lost, raised>>
    BY DEF WriteDir, BatchApplied, history
<1>2. place' \in [CPUS -> PLACES] /\ BatchApplied'
    BY <1>1, GoApplied DEF PLACES
<1>3. /\ phase[c][i] = "looked"
      /\ active' = [active EXCEPT ![c] = Deactivate(c, i)]
      /\ phase' = [phase EXCEPT ![c][i] = "none"]
      /\ Rearm(c, i)
    BY DEF WriteDir
<1>4. DeliveredOnce' /\ NoneLost' /\ active' \in [CPUS -> Seq(INTIDS)]
    BY <1>1, <1>3, EndInv
<1>5. masked' \in [CPUS -> BOOLEAN]
    <2>1. masked \in [CPUS -> BOOLEAN] /\ masked' = [masked EXCEPT ![c] = masked[c] /\ i # Timer]
        BY DEF WriteDir, TypeOK
    <2>2. (masked[c] /\ i # Timer) \in BOOLEAN
        BY Zenon
    <2> QED BY <2>1, <2>2
<1>6. TypeOK'
    BY <1>1, <1>2, <1>3, <1>4, <1>5, RearmType DEF TypeOK
<1> QED BY <1>2, <1>4, <1>6

\* A handler looks at its source: what it finds there is no longer owed.
LEMMA HandleInv ==
    ASSUME Inv, NEW c \in CPUS, NEW i \in INTIDS, Handle(c, i)
    PROVE  Inv'
<1> USE DEF Inv
<1>1. /\ phase[c][i] \in {"taken", "dropped"}
      /\ phase' = [phase EXCEPT ![c][i] = "looked"]
      /\ UNCHANGED <<queue, batch, pending, active, eoimode, spi_on, route, sgi_on, saved, line, vmask, place, raised>>
    BY DEF Handle, gic, hvf
<1>2. \A d \in CPUS, j \in INTIDS :
         phase'[d][j] = IF d = c /\ j = i THEN "looked" ELSE phase[d][j]
    BY <1>1 DEF TypeOK
<1>3. BatchApplied'
    BY <1>1 DEF BatchApplied
<1>4. DeliveredOnce'
    BY <1>1, <1>2 DEF DeliveredOnce
<1>5. masked' \in [CPUS -> BOOLEAN]
    <2>1. /\ masked \in [CPUS -> BOOLEAN]
          /\ masked' = [masked EXCEPT ![c] = masked[c] /\ ~(eoimode = 1 /\ i # Timer)]
        BY DEF Handle, TypeOK
    <2>2. (masked[c] /\ ~(eoimode = 1 /\ i # Timer)) \in BOOLEAN
        BY Zenon
    <2> QED BY <2>1, <2>2
<1>6. CASE i = Timer
    <2>1. /\ UNCHANGED <<owed, lost>>
          /\ timer' \in [CPUS -> {"off", "armed", "due"}]
        BY <1>6 DEF Handle, TypeOK
    <2>2. TypeOK'
        BY <1>1, <1>5, <2>1 DEF TypeOK
    <2>3. NoneLost'
        <3>1. SUFFICES ASSUME NEW d \in CPUS, NEW j \in owed[d], lost[d][j] = {} PROVE InFlight(d, j)'
            BY <2>1 DEF NoneLost
        <3>2. InFlight(d, j) /\ j \in EVENTS
            BY <3>1 DEF NoneLost, TypeOK
        <3>3. j # i /\ j \in INTIDS
            BY <3>2, <1>6 DEF EVENTS, Timer, INTIDS
        <3> QED BY <3>2, <3>3, <1>2, <1>1 DEF InFlight
    <2> QED BY <1>3, <1>4, <2>2, <2>3
<1>7. CASE i # Timer
    <2> DEFINE seen == IF i = "sgi" THEN {c} ELSE CPUS
    <2>1. /\ owed' = [d \in CPUS |-> IF d \in seen THEN owed[d] \ {i} ELSE owed[d]]
          /\ lost' = [d \in CPUS |-> IF d \in seen THEN [lost[d] EXCEPT ![i] = {}] ELSE lost[d]]
          /\ UNCHANGED timer
        BY <1>7 DEF Handle
    <2>2. i \in EVENTS
        BY <1>7 DEF INTIDS
    <2>3. c \in seen
        OBVIOUS
    <2> HIDE DEF seen
    <2>4. TypeOK'
        <3>1. owed' \in [CPUS -> SUBSET EVENTS]
            BY <2>1 DEF TypeOK
        <3>2. lost' \in [CPUS -> [EVENTS -> SUBSET {"active", "disabled", "queued"}]]
            BY <2>1, <2>2 DEF TypeOK
        <3> QED BY <1>1, <1>5, <2>1, <3>1, <3>2 DEF TypeOK
    <2>5. NoneLost'
        <3>1. SUFFICES ASSUME NEW d \in CPUS, NEW j \in owed'[d], lost'[d][j] = {} PROVE InFlight(d, j)'
            BY DEF NoneLost
        <3>2. j \in owed[d] /\ j \in EVENTS /\ j \in INTIDS
            BY <2>1, <3>1 DEF TypeOK, INTIDS
        <3>3. ~(d \in seen /\ j = i)
            BY <2>1, <3>1
        <3>4. lost[d][j] = {}
            BY <2>1, <2>2, <3>1, <3>2, <3>3 DEF TypeOK
        <3>5. InFlight(d, j)
            BY <3>2, <3>4 DEF NoneLost
        <3>6. ~(d = c /\ j = i)
            BY <2>3, <3>3
        <3> QED BY <3>2, <3>5, <3>6, <1>2, <1>1 DEF InFlight
    <2> QED BY <1>3, <1>4, <2>4, <2>5
<1> QED BY <1>6, <1>7

\* A device or a vCPU raises an interrupt.
LEMMA SourceInv ==
    ASSUME Inv, DeliverSpi \/ DeliverLpi \/ \E c, d \in CPUS : SendSgi(c, d)
    PROVE  Inv'
<1> USE DEF Inv
<1>1. PICK d \in CPUS, i \in EVENTS : Inject(d, i)
    <2>1. 0 \in CPUS /\ SpiTarget(route) \in CPUS
        BY UserGicAssumption DEF SpiTarget
    <2> QED BY <2>1 DEF DeliverSpi, DeliverLpi, SendSgi, EVENTS
<1>2. UNCHANGED <<batch, pending, active, eoimode, spi_on, route, sgi_on, saved, line, vmask, timer, masked, phase, lost>>
    BY DEF DeliverSpi, DeliverLpi, SendSgi, hvf, guest
<1>3. place' \in [CPUS -> PLACES] /\ BatchApplied'
    <2>1. CASE UNCHANGED place
        BY <2>1, <1>2 DEF TypeOK, BatchApplied
    <2>2. CASE \E c, e \in CPUS : SendSgi(c, e)
        <3>1. PICK c \in CPUS : place[c] = "guest" /\ Go(c, "host")
            BY <2>2 DEF SendSgi
        <3>2. batch[c] = <<>>
            BY <3>1 DEF BatchApplied
        <3> QED BY <3>1, <3>2, <1>2, GoApplied DEF PLACES
    <2> QED BY <2>1, <2>2 DEF DeliverSpi, DeliverLpi
<1>4. TypeOK'
    <2>1. Append(queue[d], i) \in Seq(EVENTS)
        BY DEF TypeOK
    <2>2. queue' \in [CPUS -> Seq(EVENTS)]
        BY <1>1, <2>1 DEF TypeOK, Inject
    <2>3. owed' \in [CPUS -> SUBSET EVENTS] /\ raised' \in 0..MaxRaise
        <3>1. /\ raised \in 0..MaxRaise /\ raised < MaxRaise /\ raised' = raised + 1
              /\ owed \in [CPUS -> SUBSET EVENTS] /\ owed' = [owed EXCEPT ![d] = owed[d] \cup {i}]
            BY <1>1 DEF TypeOK, Inject
        <3>2. raised' \in 0..MaxRaise
            BY <3>1, UserGicAssumption
        <3>3. owed' \in [CPUS -> SUBSET EVENTS]
            BY <3>1
        <3> QED BY <3>2, <3>3
    <2> QED BY <1>2, <1>3, <2>2, <2>3 DEF TypeOK
<1> QED BY <1>1, <1>2, <1>3, <1>4, InjectInv

\* The guest writes the distributor.
LEMMA WriteDistInv ==
    ASSUME Inv, NEW c \in CPUS, WriteDist(c)
    PROVE  Inv'
<1> USE DEF Inv
<1>1. /\ batch[c] = <<>> /\ Go(c, "host")
      /\ spi_on' \in BOOLEAN /\ route' \in CPUS \cup {OneOfN}
      /\ UNCHANGED <<queue, batch, pending, active, eoimode, sgi_on, saved, line, vmask, timer, masked,
                     phase, owed, lost, raised>>
    BY DEF WriteDist, BatchApplied, hvf, guest, history
<1>2. place' \in [CPUS -> PLACES] /\ BatchApplied'
    BY <1>1, GoApplied DEF PLACES
<1>3. TypeOK'
    BY <1>1, <1>2 DEF TypeOK
<1> QED BY <1>1, <1>2, <1>3, Quiet

\* The guest writes a redistributor.
LEMMA WriteRedistInv ==
    ASSUME Inv, NEW c \in CPUS, NEW d \in CPUS, WriteRedist(c, d)
    PROVE  Inv'
<1> USE DEF Inv
<1>1. /\ batch[c] = <<>> /\ Go(c, "host")
      /\ sgi_on' = [sgi_on EXCEPT ![d] = ~sgi_on[d]]
      /\ UNCHANGED <<queue, batch, pending, active, eoimode, spi_on, route, saved, line, vmask,
                     timer, masked, phase, owed, lost, raised>>
    BY DEF WriteRedist, BatchApplied, hvf, guest, history
<1>2. place' \in [CPUS -> PLACES] /\ BatchApplied'
    BY <1>1, GoApplied DEF PLACES
<1>3. sgi_on' \in [CPUS -> BOOLEAN]
    BY <1>1 DEF TypeOK
<1>4. TypeOK'
    BY <1>1, <1>2, <1>3 DEF TypeOK
<1> QED BY <1>1, <1>2, <1>4, Quiet

\* Between two checkpoints nothing of a capture is left.
LEMMA FreshType == [c \in CPUS |-> Fresh] \in [CPUS -> [spi : BOOLEAN, route : CPUS \cup {OneOfN}, sgi : BOOLEAN]]
BY UserGicAssumption DEF Fresh

\* The world is released after a live snapshot.
LEMMA ReleaseInv ==
    ASSUME Inv, Release
    PROVE  Inv'
<1> USE DEF Inv
<1>1. UNCHANGED <<queue, batch, pending, active, line, vmask, eoimode, spi_on, route, sgi_on, timer, masked,
                  phase, owed, lost, raised>>
    BY DEF Release, hvf, guest, history
<1>2. place' \in [CPUS -> PLACES] /\ BatchApplied'
    BY <1>1 DEF Release, BatchApplied, PLACES
<1>3. TypeOK'
    BY <1>1, <1>2, FreshType DEF Release, TypeOK
<1> QED BY <1>1, <1>2, <1>3, Quiet

\* Another session resumes the checkpoint: what was queued is lost, and said to be.
LEMMA ResumeInv ==
    ASSUME Inv, Resume
    PROVE  Inv'
<1> USE DEF Inv
<1>1. /\ UNCHANGED <<batch, pending, active, eoimode, timer, masked, phase, owed, raised>>
      /\ queue' = [c \in CPUS |-> <<>>]
      /\ line' = [c \in CPUS |-> FALSE] /\ vmask' = [c \in CPUS |-> FALSE]
      /\ lost' = [c \in CPUS |-> [i \in EVENTS |->
                  IF In(i, queue[c]) THEN lost[c][i] \cup {"queued"} ELSE lost[c][i]]]
    BY DEF Resume, guest
<1>2. place' \in [CPUS -> PLACES] /\ BatchApplied'
    BY <1>1 DEF Resume, BatchApplied, PLACES
<1>3. TypeOK'
    <2>1. queue' \in [CPUS -> Seq(EVENTS)]
        <3>1. <<>> \in Seq(EVENTS)
            OBVIOUS
        <3> QED BY <1>1, <3>1
    <2>2. lost' \in [CPUS -> [EVENTS -> SUBSET {"active", "disabled", "queued"}]]
        BY <1>1 DEF TypeOK
    <2>3. spi_on' \in BOOLEAN /\ route' \in CPUS \cup {OneOfN} /\ sgi_on' \in [CPUS -> BOOLEAN]
        BY DEF Resume, TypeOK
    <2> QED BY <1>1, <1>2, <2>1, <2>2, <2>3, FreshType DEF Resume, TypeOK
<1>4. DeliveredOnce'
    BY <1>1 DEF DeliveredOnce
<1>5. NoneLost'
    <2>1. SUFFICES ASSUME NEW d \in CPUS, NEW j \in owed[d], lost'[d][j] = {} PROVE InFlight(d, j)'
        BY <1>1 DEF NoneLost
    <2>2. j \in EVENTS
        BY <2>1 DEF TypeOK
    <2>3. lost'[d][j] = IF In(j, queue[d]) THEN lost[d][j] \cup {"queued"} ELSE lost[d][j]
        BY <1>1, <2>2
    <2>4. ~In(j, queue[d]) /\ lost[d][j] = {}
        BY <2>1, <2>3
    <2>5. InFlight(d, j)
        BY <2>4 DEF NoneLost
    <2> QED BY <2>4, <2>5, <1>1 DEF InFlight
<1> QED BY <1>2, <1>3, <1>4, <1>5

-----------------------------------------------------------------------------
\* Every step, and every step that changes nothing, keeps the invariant.
LEMMA NextInv == Inv /\ [Next]_vars => Inv'
<1> SUFFICES ASSUME Inv, [Next]_vars PROVE Inv'
    OBVIOUS
<1>1. ASSUME NEW c \in CPUS, Vcpu(c) PROVE Inv'
    BY <1>1, TakeQueueInv, ApplyOneInv, EnterInv, MoveInv DEF Vcpu
<1>2. ASSUME NEW c \in CPUS, Guest(c) PROVE Inv'
    <2>1. CASE OtherExit(c) \/ Wfx(c)
        BY <2>1, MoveInv
    <2>2. CASE VtimerActivated(c)
        BY <2>2, VtimerActivatedInv
    <2>3. CASE ReadIar(c)
        BY <2>3, ReadIarInv
    <2>4. ASSUME NEW i \in INTIDS, Handle(c, i) \/ WriteEoir(c, i) \/ WriteDir(c, i) PROVE Inv'
        BY <2>4, HandleInv, WriteEoirInv, WriteDirInv
    <2>5. CASE WriteDist(c)
        BY <2>5, WriteDistInv
    <2>6. CASE \E d \in CPUS : SendSgi(c, d)
        BY <2>6, SourceInv
    <2>7. CASE \E d \in CPUS : WriteRedist(c, d)
        BY <2>7, WriteRedistInv
    <2>8. CASE ReadIcc(c)
        BY <2>8, ReadIccInv
    <2> QED BY <1>2, <2>1, <2>2, <2>3, <2>4, <2>5, <2>6, <2>7, <2>8 DEF Guest, Handler
<1>3. ASSUME NEW c \in CPUS, TimerDue(c) \/ Capture(c) PROVE Inv'
    BY <1>3, TimerDueInv, CaptureInv
<1>4. CASE DeliverSpi \/ DeliverLpi
    BY <1>4, SourceInv
<1>5. CASE Release \/ Resume
    BY <1>5, ReleaseInv, ResumeInv
<1>6. CASE UNCHANGED vars
    BY <1>6 DEF vars, Inv, TypeOK, BatchApplied, DeliveredOnce, NoneLost, InFlight
<1> QED BY <1>1, <1>2, <1>3, <1>4, <1>5, <1>6 DEF Next

\* The inductive invariant holds always.
THEOREM InvHolds == Spec => []Inv
BY InitInv, NextInv, PTL DEF Spec

\* Every variable keeps its type (UserGic's lists and the queues in front of them).
THEOREM TypeCorrect == Spec => []TypeOK
<1>1. Inv => TypeOK
    BY DEF Inv
<1> QED BY <1>1, InvHolds, PTL

\* The CPU interface (push_pending, read_iar, deactivate) holds an interrupt
\* once, and keeps it active exactly while its handler runs.
THEOREM DeliveredOnceHolds == Spec => []DeliveredOnce
<1>1. Inv => DeliveredOnce
    BY DEF Inv
<1> QED BY <1>1, InvHolds, PTL

\* usgic_drain_injected loses an interrupt only when it refuses it, and a
\* checkpoint only what was in the queue.
THEOREM NoneLostHolds == Spec => []NoneLost
<1>1. Inv => NoneLost
    BY DEF Inv
<1> QED BY <1>1, InvHolds, PTL
=============================================================================
