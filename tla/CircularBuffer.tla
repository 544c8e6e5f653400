--------------------------- MODULE CircularBuffer ---------------------------
(* CircularBuffer<T, N>: an array, two counters that only grow (and wrap    *)
(* at the width of size_t) and a size. Two classes use it: the InfoScreen   *)
(* puts one value per frame and plots the array from the tail on, and the   *)
(* ParticleSystem resets the particles one after the other.                 *)
EXTENDS Integers, Sequences, SequencesExt, SequenceTheorems, TLAPS

CONSTANTS
  N,            \* capacity
  Width,        \* bits of size_t
  Value, Default,
  MaxBurst,     \* particles of one fire()
  MaxSteps      \* bound on the calls

CircularBufferAssumption ==
  /\ N \in Nat \ {0} /\ Width \in Nat \ {0} /\ MaxSteps \in Nat
  /\ Default \notin Value

VARIABLES
  data, head, tail, size,      \* m_data, m_head, m_tail, m_size
  answer,                      \* what get() returned last
  plot,                        \* m_frameTimesVector
  currentIndex,                \* m_currentIndex of a particle system
  particles,                   \* which firing each particle shows, 0 if none
  puts,                        \* history: the last N values put, oldest first
  taken,                       \* history: get() was called
  fired,                       \* history: number of particles fired
  steps

counters == <<head, tail, size>>
buffer   == <<data, counters, answer, plot, puts, taken>>
system   == <<currentIndex, particles, fired>>
vars     == <<buffer, system, steps>>

Modulus == 2^Width

\* IndexWrapper::wrap; for a power of two the mask does the same.
Wrap(i) == i % N

\* An index of size_t that grows by one.
Inc(i) == (i + 1) % Modulus

\* Mutant: a full buffer keeps its oldest value as the head.
HeadKept(h) == h

\* A put into a full buffer overwrites the oldest value.
HeadAfterFull(h) == Inc(h)

TailAfterEmpty(t) == Inc(t)

\* Mutant: the plot begins with the oldest place of the array.
PlotFromStart(d, t) == [i \in 1..N |-> d[i - 1]]

\* InfoScreen::doUpdate copies the array beginning with the tail.
Plotted(d, t) == [i \in 1..N |-> d[Wrap(Wrap(t) + i - 1)]]

Put(v) ==
  /\ data' = [data EXCEPT ![Wrap(tail)] = v]
  /\ tail' = Inc(tail)
  /\ IF size = N THEN head' = HeadAfterFull(head) /\ UNCHANGED size
                 ELSE size' = size + 1 /\ UNCHANGED head
  /\ plot' = Plotted(data', tail')
  /\ puts' = Append(IF Len(puts) = N THEN Tail(puts) ELSE puts, v)
  /\ UNCHANGED <<answer, taken, system>>

Get ==
  /\ head' = Inc(head)
  /\ IF size = 0
       THEN tail' = TailAfterEmpty(tail) /\ answer' = Default /\ UNCHANGED size
       ELSE size' = size - 1 /\ answer' = data[Wrap(head)] /\ UNCHANGED tail
  /\ taken' = TRUE
  /\ UNCHANGED <<data, plot, puts, system>>

\* Mutant: every fire() begins with the first particle.
FromFirst(i) == 0

FromCurrent(i) == i

\* ParticleSystem::fire.
Fire(num) ==
  LET first == FromCurrent(currentIndex) IN
  /\ particles' = [p \in 0..N - 1 |->
       LET mine == {k \in 1..num : Wrap((first + k - 1) % Modulus) = p} IN
       IF mine = {} THEN particles[p]
       ELSE fired + (CHOOSE k \in mine : \A j \in mine : j <= k)]
  /\ currentIndex' = (first + num) % Modulus
  /\ fired' = fired + num
  /\ UNCHANGED buffer

Init ==
  /\ data = [i \in 0..N - 1 |-> Default]
  /\ head = 0 /\ tail = 0 /\ size = 0
  /\ answer = Default
  /\ plot = [i \in 1..N |-> Default]
  /\ currentIndex = 0 /\ particles = [p \in 0..N - 1 |-> 0] /\ fired = 0
  /\ puts = <<>> /\ taken = FALSE /\ steps = 0

BufferStep == (\E v \in Value : Put(v)) \/ Get

Step == BufferStep \/ \E num \in 1..MaxBurst : Fire(num)

Next == steps < MaxSteps /\ Step /\ steps' = steps + 1

Spec == Init /\ [][Next]_vars

-----------------------------------------------------------------------------
(* Properties *)

TypeOK ==
  /\ data \in [0..N - 1 -> Value \cup {Default}]
  /\ {head, tail, currentIndex} \subseteq 0..Modulus - 1 /\ size \in 0..N
  /\ answer \in Value \cup {Default}
  /\ plot \in [1..N -> Value \cup {Default}]
  /\ particles \in [0..N - 1 -> 0..fired]
  /\ Len(puts) <= N /\ taken \in BOOLEAN /\ steps \in 0..MaxSteps

\* The valid values, from the head on.
Stored == [i \in 1..size |-> data[Wrap(head + i - 1)]]

Queue == INSTANCE BoundedQueue WITH Capacity <- N, queue <- Stored

\* The buffer is a queue of the newest N values (circular_buffer.hpp:116-148),
\* whether puts overtake gets or gets overtake puts.
IsQueue == Queue!Spec

\* The plot of the info screen, which never takes a value, ends with the values
\* of the last frames, in their order.
PlotInOrder ==
  ~taken =>
    \A i \in 1..Len(puts) : plot[N - Len(puts) + i] = puts[i]

\* The particles in use are those of the N newest firings: no particle is
\* taken away while an older one could be.
NewestParticles ==
  {particles[p] : p \in 0..N - 1} \ {0} =
    {k \in 1..fired : k > fired - N}

-----------------------------------------------------------------------------
(* Theorems *)

\* The counters of size_t meet the end of the array when they wrap, or there
\* are not as many calls as they can count.
CountersSuffice ==
  /\ Modulus \in Nat \ {0}
  /\ Modulus % N = 0 \/ MaxSteps < Modulus

\* Quotient and remainder.
LEMMA Remainder ==
  ASSUME NEW n \in Nat \ {0}, NEW i \in Nat
  PROVE  /\ i % n \in 0..n - 1 /\ i \div n \in Nat
         /\ i = n * (i \div n) + (i % n)
OBVIOUS

LEMMA RemainderIsUnique ==
  ASSUME NEW n \in Nat \ {0}, NEW a \in Int, NEW b \in Int,
         NEW r \in 0..n - 1, NEW s \in 0..n - 1, n * a + r = n * b + s
  PROVE  r = s
<1>1. CASE a < b
  <2>1. b - a >= 1 /\ b - a \in Nat  BY <1>1
  <2>2. n * (b - a) = r - s  OBVIOUS
  <2>3. n * (b - a) >= n  BY <2>1
  <2> QED  BY <2>2, <2>3
<1>2. CASE a > b
  <2>1. a - b >= 1 /\ a - b \in Nat  BY <1>2
  <2>2. n * (a - b) = s - r  OBVIOUS
  <2>3. n * (a - b) >= n  BY <2>1
  <2> QED  BY <2>2, <2>3
<1>3. CASE a = b
  BY <1>3
<1> QED  BY <1>1, <1>2, <1>3

\* The remainder of a number is that of any other at a multiple's distance.
LEMMA RemainderIs ==
  ASSUME NEW n \in Nat \ {0}, NEW i \in Nat, NEW a \in Int, NEW r \in 0..n - 1,
         i = n * a + r
  PROVE  i % n = r
<1>1. PICK b \in Nat, s \in 0..n - 1 : i = n * b + s /\ s = i % n
  BY Remainder
<1>2. b \in Int /\ n * a + r = n * b + s
  BY <1>1
<1>3. r = s  BY <1>2, RemainderIsUnique
<1> QED  BY <1>1, <1>3

\* Just beyond the end of the array, the index is that from its beginning.
LEMMA WrapOnce ==
  ASSUME CircularBufferAssumption, NEW x \in 0..2 * N - 1
  PROVE  Wrap(x) = IF x < N THEN x ELSE x - N
<1>0. N \in Nat \ {0}  BY DEF CircularBufferAssumption
<1>1. CASE x < N
  <2>1. x = N * 0 + x /\ x \in 0..N - 1 /\ x \in Nat  BY <1>0, <1>1
  <2> QED  BY <1>0, <1>1, <2>1, RemainderIs DEF Wrap
<1>2. CASE ~(x < N)
  <2>1. x = N * 1 + (x - N) /\ x - N \in 0..N - 1 /\ x \in Nat  BY <1>0, <1>2
  <2>2. x % N = x - N  BY <1>0, <2>1, RemainderIs
  <2> QED  BY <1>2, <2>2 DEF Wrap
<1> QED  BY <1>1, <1>2

\* A distance may be added before or after an index is wrapped.
LEMMA WrapOfSum ==
  ASSUME CircularBufferAssumption, NEW a \in Nat, NEW b \in Nat
  PROVE  Wrap(a) \in 0..N - 1 /\ Wrap(a + b) = Wrap(Wrap(a) + b)
<1>0. N \in Nat \ {0}  BY DEF CircularBufferAssumption
<1>1. /\ a % N \in 0..N - 1 /\ a \div N \in Nat
      /\ a = N * (a \div N) + (a % N)
  BY <1>0, Remainder
<1>2. PICK q \in Nat, r \in 0..N - 1 : a = N * q + r /\ r = Wrap(a)
  BY <1>1 DEF Wrap
<1>3. r + b \in Nat /\ a + b \in Nat  BY <1>0
<1>4. PICK p \in Nat, s \in 0..N - 1 : r + b = N * p + s /\ s = Wrap(r + b)
  BY <1>0, <1>3, Remainder DEF Wrap
<1>5. a + b = N * (q + p) + s /\ q + p \in Int
  <2>1. N * (q + p) = N * q + N * p  BY <1>0
  <2>2. N * q \in Int /\ N * p \in Int  BY <1>0
  <2> QED  BY <1>0, <1>2, <1>4, <2>1, <2>2
<1>6. (a + b) % N = s  BY <1>0, <1>3, <1>5, RemainderIs
<1> QED  BY <1>2, <1>4, <1>6 DEF Wrap

\* A counter that grows moves its place by one, also when it wraps.
LEMMA IncMovesOn ==
  ASSUME CircularBufferAssumption, CountersSuffice, NEW i \in 0..Modulus - 1,
         Modulus % N = 0 \/ i + 1 < Modulus
  PROVE  /\ Inc(i) \in 0..Modulus - 1
         /\ Wrap(Inc(i)) = Wrap(Wrap(i) + 1)
         /\ i + 1 < Modulus => Inc(i) = i + 1
<1>0. N \in Nat \ {0} /\ Modulus \in Nat \ {0} /\ i \in Nat
  BY DEF CircularBufferAssumption, CountersSuffice
<1>1. Wrap(i + 1) = Wrap(Wrap(i) + 1)  BY <1>0, WrapOfSum
<1>2. CASE i + 1 < Modulus
  <2>1. i + 1 = Modulus * 0 + (i + 1) /\ i + 1 \in 0..Modulus - 1 /\ i + 1 \in Nat
    BY <1>0, <1>2
  <2>2. (i + 1) % Modulus = i + 1  BY <1>0, <2>1, RemainderIs
  <2> QED  BY <1>1, <2>1, <2>2 DEF Inc
<1>3. CASE ~(i + 1 < Modulus)
  <2>1. i + 1 = Modulus  BY <1>0, <1>3
  <2>2. Modulus = Modulus * 1 + 0 /\ 0 \in 0..Modulus - 1  BY <1>0
  <2>3. Inc(i) = 0  BY <1>0, <2>1, <2>2, RemainderIs DEF Inc
  <2>4. 0 = N * 0 + 0 /\ 0 \in 0..N - 1  BY <1>0
  <2>5. Wrap(0) = 0  BY <1>0, <2>4, RemainderIs DEF Wrap
  <2>6. Wrap(i + 1) = 0  BY <1>3, <2>1 DEF Wrap
  <2> QED  BY <1>1, <1>3, <2>2, <2>3, <2>5, <2>6
<1> QED  BY <1>2, <1>3

\* The i-th place from an index on.
LEMMA PlaceFrom ==
  ASSUME CircularBufferAssumption, NEW h \in Nat, NEW i \in 1..N
  PROVE  /\ Wrap(h) \in 0..N - 1 /\ Wrap(h + i - 1) \in 0..N - 1
         /\ Wrap(h + i - 1) = IF Wrap(h) + i - 1 < N THEN Wrap(h) + i - 1
                                                     ELSE Wrap(h) + i - 1 - N
<1>0. N \in Nat \ {0}  BY DEF CircularBufferAssumption
<1>1. i - 1 \in Nat /\ h + (i - 1) = h + i - 1  BY <1>0
<1>2. Wrap(h) \in 0..N - 1 /\ Wrap(h + i - 1) = Wrap(Wrap(h) + (i - 1))
  BY <1>1, WrapOfSum
<1>3. PICK x \in 0..2 * N - 1 : x = Wrap(h) + (i - 1)
  BY <1>0, <1>1, <1>2
<1>4. Wrap(x) = IF x < N THEN x ELSE x - N
  BY <1>3, WrapOnce
<1>5. x = Wrap(h) + i - 1 /\ Wrap(x) = Wrap(h + i - 1) /\ Wrap(h) \in Int
  BY <1>0, <1>2, <1>3
<1> QED
  <2>1. Wrap(h + i - 1) = IF x < N THEN x ELSE x - N  BY <1>4, <1>5
  <2>2. Wrap(h + i - 1) \in 0..N - 1  BY <1>0, <1>3, <2>1
  <2>3. CASE x < N
    <3>1. Wrap(h) + i - 1 < N /\ Wrap(h + i - 1) = Wrap(h) + i - 1
      BY <1>0, <1>5, <2>1, <2>3
    <3> QED  BY <1>0, <1>2, <2>2, <3>1
  <2>4. CASE ~(x < N)
    <3>1. ~(Wrap(h) + i - 1 < N) /\ Wrap(h + i - 1) = Wrap(h) + i - 1 - N
      BY <1>0, <1>5, <2>1, <2>4
    <3> QED  BY <1>0, <1>2, <2>2, <3>1
  <2> QED  BY <2>3, <2>4

\* The tail stands size places behind the head.
TailBehindHead == Wrap(tail) = Wrap(Wrap(head) + size)

\* The counters do not wrap, unless that does no harm.
Counting ==
  /\ steps \in 0..MaxSteps
  /\ Modulus % N = 0 \/ (head <= steps /\ tail <= steps)

BufferInv ==
  /\ data \in [0..N - 1 -> Value \cup {Default}]
  /\ head \in 0..Modulus - 1 /\ tail \in 0..Modulus - 1 /\ size \in 0..N
  /\ Counting
  /\ TailBehindHead

LEMMA BufferInit ==
  ASSUME CircularBufferAssumption, CountersSuffice, Init
  PROVE  BufferInv /\ Stored = <<>> /\ answer = Default
<1>0. N \in Nat \ {0} /\ Modulus \in Nat \ {0} /\ MaxSteps \in Nat
  BY DEF CircularBufferAssumption, CountersSuffice
<1>1. head = 0 /\ tail = 0 /\ size = 0 /\ steps = 0
  BY DEF Init
<1>2. data \in [0..N - 1 -> Value \cup {Default}]
  BY DEF Init
<1>3. 0 = N * 0 + 0 /\ 0 \in 0..N - 1  BY <1>0
<1>4. Wrap(0) = 0  BY <1>0, <1>3, RemainderIs DEF Wrap
<1>5. TailBehindHead  BY <1>1, <1>4 DEF TailBehindHead
<1>6. Stored = <<>>  BY <1>1 DEF Stored
<1> QED  BY <1>0, <1>1, <1>2, <1>5, <1>6 DEF BufferInv, Counting, Init

\* Counting on does no harm while calls are left.
LEMMA CountOn ==
  ASSUME CircularBufferAssumption, CountersSuffice, BufferInv,
         steps < MaxSteps, NEW i \in {head, tail}
  PROVE  /\ i \in Nat /\ Inc(i) \in 0..Modulus - 1
         /\ Wrap(Inc(i)) = Wrap(Wrap(i) + 1)
         /\ Modulus % N = 0 \/ Inc(i) <= steps + 1
<1>0. N \in Nat \ {0} /\ Modulus \in Nat \ {0} /\ MaxSteps \in Nat
  BY DEF CircularBufferAssumption, CountersSuffice
<1>1. i \in 0..Modulus - 1 /\ steps \in 0..MaxSteps
      /\ (Modulus % N = 0 \/ i <= steps)
  BY DEF BufferInv, Counting
<1>2. Modulus % N = 0 \/ i + 1 < Modulus
  BY <1>0, <1>1 DEF CountersSuffice
<1>3. Modulus % N = 0 \/ i + 1 <= steps + 1
  BY <1>0, <1>1
<1> QED  BY <1>0, <1>1, <1>2, <1>3, IncMovesOn

LEMMA FunctionAsSeq ==
  ASSUME NEW S, NEW n \in Nat, NEW q \in [1..n -> S]
  PROVE  q \in Seq(S) /\ Len(q) = n
OBVIOUS

\* Each place from an index on holds a value.
LEMMA PlacesRead ==
  ASSUME CircularBufferAssumption,
         NEW S, NEW d \in [0..N - 1 -> S], NEW h \in Nat, NEW z \in 0..N
  PROVE  \A i \in 1..z : d[Wrap(h + i - 1)] \in S
<1>0. N \in Nat \ {0}  BY DEF CircularBufferAssumption
<1> TAKE i \in 1..z
<1>1. i \in 1..N  BY <1>0
<1>2. Wrap(h + i - 1) \in 0..N - 1  BY <1>1, PlaceFrom
<1> QED  BY <1>2

LEMMA AppendAt ==
  ASSUME NEW S, NEW s \in Seq(S), NEW q \in Seq(S), NEW v \in S,
         Len(q) = Len(s) + 1, \A i \in 1..Len(s) : q[i] = s[i], q[Len(s) + 1] = v
  PROVE  q = Append(s, v)
<1>1. /\ Append(s, v) \in Seq(S) /\ Len(Append(s, v)) = Len(s) + 1
      /\ \A i \in 1..Len(s) : Append(s, v)[i] = s[i]
      /\ Append(s, v)[Len(s) + 1] = v
  BY AppendProperties
<1>2. Len(s) \in Nat  OBVIOUS
<1>3. \A i \in 1..Len(q) : i \in 1..Len(s) \/ i = Len(s) + 1  BY <1>2
<1>4. \A i \in 1..Len(q) : q[i] = Append(s, v)[i]  BY <1>1, <1>3, Zenon
<1> QED  BY <1>1, <1>4, SeqEqual

LEMMA TailAt ==
  ASSUME NEW S, NEW s \in Seq(S), NEW q \in Seq(S), s # <<>>,
         Len(q) = Len(s) - 1, \A i \in 1..Len(s) - 1 : q[i] = s[i + 1]
  PROVE  q = Tail(s)
<1>1. /\ Tail(s) \in Seq(S) /\ Len(Tail(s)) = Len(s) - 1
      /\ \A i \in 1..Len(s) - 1 : Tail(s)[i] = s[i + 1]
  BY HeadTailProperties
<1>2. \A i \in 1..Len(q) : q[i] = Tail(s)[i]  BY <1>1, Zenon
<1> QED  BY <1>1, <1>2, SeqEqual

LEMMA ShiftAt ==
  ASSUME NEW S, NEW s \in Seq(S), NEW q \in Seq(S), NEW v \in S, s # <<>>,
         Len(q) = Len(s), \A i \in 1..Len(s) - 1 : q[i] = s[i + 1], q[Len(s)] = v
  PROVE  q = Append(Tail(s), v)
<1>1. /\ Tail(s) \in Seq(S) /\ Len(Tail(s)) = Len(s) - 1
      /\ \A i \in 1..Len(s) - 1 : Tail(s)[i] = s[i + 1]
  BY HeadTailProperties
<1>2. PICK t \in Seq(S) : t = Tail(s)  BY <1>1
<1>3. Len(s) \in Nat /\ Len(t) = Len(s) - 1  BY <1>1, <1>2
<1>4. Len(q) = Len(t) + 1 /\ q[Len(t) + 1] = v  BY <1>3
<1>5. \A i \in 1..Len(t) : q[i] = t[i]  BY <1>1, <1>2, <1>3, Zenon
<1>6. q = Append(t, v)  BY <1>4, <1>5, AppendAt
<1> QED  BY <1>2, <1>6

\* The way from one place to another, at most once around.
LEMMA WrapAhead ==
  ASSUME CircularBufferAssumption, NEW w \in 0..N - 1, NEW k \in 0..N
  PROVE  /\ Wrap(w + k) \in 0..N - 1
         /\ w + k < N => Wrap(w + k) = w + k
         /\ w + k >= N => Wrap(w + k) = w + k - N
         /\ Wrap(w + k + 1) = Wrap(Wrap(w + k) + 1)
<1>0. N \in Nat \ {0}  BY DEF CircularBufferAssumption
<1>1. PICK x \in 0..2 * N - 1 : x = w + k  BY <1>0
<1>2. Wrap(x) = IF x < N THEN x ELSE x - N  BY WrapOnce
<1>3. Wrap(w + k) = Wrap(x)  BY <1>1
<1>4. x < N => Wrap(x) = x  BY <1>2
<1>5. x >= N => Wrap(x) = x - N  BY <1>0, <1>2
<1>6. Wrap(x) \in 0..N - 1  BY <1>0, <1>4, <1>5
<1>7. w + k < N => Wrap(w + k) = w + k  BY <1>1, <1>4
<1>8. w + k >= N => Wrap(w + k) = w + k - N  BY <1>0, <1>1, <1>5
<1>9. w + k \in Nat /\ 1 \in Nat  BY <1>0
<1>10. Wrap(w + k + 1) = Wrap(Wrap(w + k) + 1)  BY <1>9, WrapOfSum
<1>11. Wrap(w + k) \in 0..N - 1  BY <1>3, <1>6
<1> QED  BY <1>7, <1>8, <1>10, <1>11

LEMMA WrapStays ==
  ASSUME CircularBufferAssumption, NEW w \in 0..N - 1
  PROVE  Wrap(w + 0) = w
<1>1. N \in Nat \ {0} /\ 0 \in 0..N  BY DEF CircularBufferAssumption
<1>2. w + 0 < N => Wrap(w + 0) = w + 0  BY <1>1, WrapAhead
<1> QED  BY <1>1, <1>2

\* What is stored, place by place.
LEMMA StoredPlaces ==
  ASSUME CircularBufferAssumption, BufferInv
  PROVE  /\ Stored \in Seq(Value \cup {Default}) /\ Len(Stored) = size
         /\ \A i \in 1..size : Stored[i] = data[Wrap(head + i - 1)]
<1>0. N \in Nat \ {0}  BY DEF CircularBufferAssumption
<1>1. /\ data \in [0..N - 1 -> Value \cup {Default}] /\ size \in 0..N
      /\ head \in Nat /\ size \in Nat
  BY <1>0 DEF BufferInv
<1>2. \A i \in 1..size : data[Wrap(head + i - 1)] \in Value \cup {Default}
  BY <1>1, PlacesRead
<1>3. Stored \in [1..size -> Value \cup {Default}]  BY <1>2, Zenon DEF Stored
<1>4. \A i \in 1..size : Stored[i] = data[Wrap(head + i - 1)]
  BY Zenon DEF Stored
<1> QED  BY <1>1, <1>3, <1>4, FunctionAsSeq

\* A put into a buffer that is not full.
LEMMA PutMore ==
  ASSUME CircularBufferAssumption, CountersSuffice, BufferInv, steps < MaxSteps,
         NEW v \in Value, Put(v), steps' = steps + 1, size # N
  PROVE  BufferInv' /\ Stored' = Append(Stored, v)
<1>0. N \in Nat \ {0} /\ Modulus \in Nat \ {0} /\ MaxSteps \in Nat
  BY DEF CircularBufferAssumption, CountersSuffice
<1>1. /\ data \in [0..N - 1 -> Value \cup {Default}] /\ head \in 0..Modulus - 1
      /\ tail \in 0..Modulus - 1 /\ size \in 0..N
      /\ steps \in 0..MaxSteps /\ (Modulus % N = 0 \/ (head <= steps /\ tail <= steps))
      /\ Wrap(tail) = Wrap(Wrap(head) + size)
  BY DEF BufferInv, Counting, TailBehindHead
<1>2. /\ data' = [data EXCEPT ![Wrap(tail)] = v] /\ tail' = Inc(tail)
      /\ head' = head /\ size' = size + 1
  BY DEF Put
<1>3. /\ tail \in Nat /\ Inc(tail) \in 0..Modulus - 1
      /\ Wrap(Inc(tail)) = Wrap(Wrap(tail) + 1)
      /\ Modulus % N = 0 \/ Inc(tail) <= steps + 1
  BY CountOn
<1>4. head \in Nat /\ size \in Nat /\ size < N  BY <1>0, <1>1
<1>5. Wrap(head) \in 0..N - 1  BY <1>0, <1>4, WrapOfSum
<1>6. PICK w \in 0..N - 1 : w = Wrap(head)  BY <1>5
<1>7. /\ Wrap(w + size) \in 0..N - 1
      /\ w + size < N => Wrap(w + size) = w + size
      /\ w + size >= N => Wrap(w + size) = w + size - N
      /\ Wrap(w + size + 1) = Wrap(Wrap(w + size) + 1)
  BY <1>1, WrapAhead
<1>8. PICK t \in 0..N - 1 : t = Wrap(tail) /\ t = Wrap(w + size)
  BY <1>1, <1>6, <1>7
<1>9. BufferInv'
  <2>1. Wrap(tail') = Wrap(Wrap(head') + size')
    <3>1. w + size + 1 = w + (size + 1)  BY <1>0, <1>4
    <3>2. Wrap(tail') = Wrap(t + 1) /\ Wrap(t + 1) = Wrap(w + size + 1)
      BY <1>2, <1>3, <1>7, <1>8
    <3> QED  BY <1>2, <1>6, <3>1, <3>2
  <2>2. data' \in [0..N - 1 -> Value \cup {Default}]  BY <1>1, <1>2
  <2>3. size' \in 0..N /\ head' \in 0..Modulus - 1 /\ tail' \in 0..Modulus - 1
    BY <1>0, <1>1, <1>2, <1>3, <1>4
  <2>4. /\ steps' \in 0..MaxSteps
        /\ Modulus % N = 0 \/ (head' <= steps' /\ tail' <= steps')
    BY <1>0, <1>1, <1>2, <1>3
  <2> QED  BY <2>1, <2>2, <2>3, <2>4 DEF BufferInv, Counting, TailBehindHead
<1>10. PICK V : V = Value \cup {Default} /\ v \in V  OBVIOUS
<1>11. /\ Stored \in Seq(V) /\ Len(Stored) = size
       /\ \A i \in 1..size : Stored[i] = data[Wrap(head + i - 1)]
  BY <1>10, StoredPlaces
<1>12. Stored' = [i \in 1..size + 1 |-> data'[Wrap(head + i - 1)]]
  BY <1>2 DEF Stored
<1>13. /\ data' \in [0..N - 1 -> V] /\ size + 1 \in 0..N /\ size + 1 \in Nat
  BY <1>0, <1>2, <1>4, <1>9, <1>10 DEF BufferInv
<1>14. /\ Stored' \in Seq(V) /\ Len(Stored') = size + 1
       /\ \A i \in 1..size + 1 : Stored'[i] = data'[Wrap(head + i - 1)]
  <2>1. \A i \in 1..size + 1 : data'[Wrap(head + i - 1)] \in V
    BY <1>4, <1>13, PlacesRead
  <2>2. Stored' \in [1..size + 1 -> V]  BY <1>12, <2>1, Zenon
  <2>3. \A i \in 1..size + 1 : Stored'[i] = data'[Wrap(head + i - 1)]
    BY <1>12, Zenon
  <2> QED  BY <1>13, <2>2, <2>3, FunctionAsSeq
<1>15. ASSUME NEW i \in 1..size  PROVE Stored'[i] = Stored[i]
  <2>1. i \in 1..N /\ i \in 1..size + 1  BY <1>0, <1>4
  <2>2. /\ Wrap(head + i - 1) \in 0..N - 1
        /\ Wrap(head + i - 1) = IF w + i - 1 < N THEN w + i - 1 ELSE w + i - 1 - N
    BY <1>4, <1>6, <2>1, PlaceFrom
  <2>3. Wrap(head + i - 1) # t
    BY <1>0, <1>4, <1>7, <1>8, <2>1, <2>2
  <2>4. data'[Wrap(head + i - 1)] = data[Wrap(head + i - 1)]
    BY <1>1, <1>2, <1>8, <2>2, <2>3
  <2> QED  BY <1>11, <1>14, <2>1, <2>4
<1>16. Stored'[size + 1] = v
  <2>1. size + 1 \in 1..size + 1 /\ head + (size + 1) - 1 = head + size
    BY <1>0, <1>4
  <2>2. Wrap(head + size) = Wrap(w + size)  BY <1>4, <1>6, WrapOfSum
  <2>3. data'[t] = v  BY <1>1, <1>2, <1>8
  <2> QED  BY <1>8, <1>14, <2>1, <2>2, <2>3
<1> QED
  BY <1>9, <1>10, <1>11, <1>14, <1>15, <1>16, AppendAt

\* A put into a full buffer.
LEMMA PutOver ==
  ASSUME CircularBufferAssumption, CountersSuffice, BufferInv, steps < MaxSteps,
         NEW v \in Value, Put(v), steps' = steps + 1, size = N
  PROVE  BufferInv' /\ Stored' = Append(Tail(Stored), v)
<1>0. N \in Nat \ {0} /\ Modulus \in Nat \ {0} /\ MaxSteps \in Nat
  BY DEF CircularBufferAssumption, CountersSuffice
<1>1. /\ data \in [0..N - 1 -> Value \cup {Default}] /\ head \in 0..Modulus - 1
      /\ tail \in 0..Modulus - 1 /\ size \in 0..N
      /\ steps \in 0..MaxSteps /\ (Modulus % N = 0 \/ (head <= steps /\ tail <= steps))
      /\ Wrap(tail) = Wrap(Wrap(head) + size)
  BY DEF BufferInv, Counting, TailBehindHead
<1>2. /\ data' = [data EXCEPT ![Wrap(tail)] = v] /\ tail' = Inc(tail)
      /\ head' = Inc(head) /\ size' = size
  BY DEF Put, HeadAfterFull
<1>3. /\ tail \in Nat /\ Inc(tail) \in 0..Modulus - 1
      /\ Wrap(Inc(tail)) = Wrap(Wrap(tail) + 1)
      /\ Modulus % N = 0 \/ Inc(tail) <= steps + 1
  BY CountOn
<1>4. /\ head \in Nat /\ Inc(head) \in 0..Modulus - 1
      /\ Wrap(Inc(head)) = Wrap(Wrap(head) + 1)
      /\ Modulus % N = 0 \/ Inc(head) <= steps + 1
  BY CountOn
<1>5. Wrap(head) \in 0..N - 1  BY <1>0, <1>4, WrapOfSum
<1>6. PICK w \in 0..N - 1 : w = Wrap(head)  BY <1>5
<1>7. N \in 0..N /\ 1 \in 0..N  BY <1>0
<1>8. Wrap(tail) = w
  <2>1. w + N >= N => Wrap(w + N) = w + N - N  BY <1>7, WrapAhead
  <2> QED  BY <1>0, <1>1, <1>6, <2>1
<1>9. PICK u \in 0..N - 1 :
        /\ u = Wrap(w + 1)
        /\ w + 1 < N => u = w + 1
        /\ w + 1 >= N => u = w + 1 - N
  BY <1>7, WrapAhead
<1>10. Wrap(head') = u /\ Wrap(tail') = u
  BY <1>2, <1>3, <1>4, <1>6, <1>8, <1>9
<1>11. head' \in Nat /\ head' \in 0..Modulus - 1 /\ tail' \in 0..Modulus - 1
  BY <1>0, <1>2, <1>3, <1>4
<1>12. data' \in [0..N - 1 -> Value \cup {Default}]  BY <1>1, <1>2
<1>13. BufferInv'
  <2>1. Wrap(tail') = Wrap(Wrap(head') + size')
    <3>1. u + N >= N => Wrap(u + N) = u + N - N  BY <1>7, WrapAhead
    <3>2. Wrap(u + N) = u  BY <1>0, <3>1
    <3> QED  BY <1>2, <1>10, <3>2
  <2>2. /\ steps' \in 0..MaxSteps
        /\ Modulus % N = 0 \/ (head' <= steps' /\ tail' <= steps')
    BY <1>0, <1>1, <1>2, <1>3, <1>4
  <2>3. size' \in 0..N  BY <1>1, <1>2
  <2> QED
    BY <1>11, <1>12, <2>1, <2>2, <2>3 DEF BufferInv, Counting, TailBehindHead
<1>14. PICK V : V = Value \cup {Default} /\ v \in V  OBVIOUS
<1>15. /\ Stored \in Seq(V) /\ Len(Stored) = N
       /\ \A i \in 1..N : Stored[i] = data[Wrap(head + i - 1)]
  BY <1>14, StoredPlaces
<1>16. /\ Stored' \in Seq(V) /\ Len(Stored') = N
       /\ \A i \in 1..N : Stored'[i] = data'[Wrap(head' + i - 1)]
  <2>1. Stored' = [i \in 1..N |-> data'[Wrap(head' + i - 1)]]
    BY <1>2 DEF Stored
  <2>2. \A i \in 1..N : data'[Wrap(head' + i - 1)] \in V
    BY <1>7, <1>11, <1>12, <1>14, PlacesRead
  <2>3. Stored' \in [1..N -> V]  BY <2>1, <2>2, Zenon
  <2>4. \A i \in 1..N : Stored'[i] = data'[Wrap(head' + i - 1)]
    BY <2>1, Zenon
  <2> QED  BY <1>0, <2>3, <2>4, FunctionAsSeq
<1>17. ASSUME NEW i \in 1..N - 1  PROVE Stored'[i] = Stored[i + 1]
  <2>1. i \in 1..N /\ i + 1 \in 1..N  BY <1>0
  <2>2. /\ Wrap(head' + i - 1) \in 0..N - 1
        /\ Wrap(head' + i - 1) = IF u + i - 1 < N THEN u + i - 1 ELSE u + i - 1 - N
    BY <1>10, <1>11, <2>1, PlaceFrom
  <2>3. /\ Wrap(head + (i + 1) - 1) \in 0..N - 1
        /\ Wrap(head + (i + 1) - 1)
             = IF w + (i + 1) - 1 < N THEN w + (i + 1) - 1 ELSE w + (i + 1) - 1 - N
    BY <1>4, <1>6, <2>1, PlaceFrom
  <2>4. PICK a \in 0..N - 1, b \in 0..N - 1 :
          /\ a = Wrap(head' + i - 1) /\ b = Wrap(head + (i + 1) - 1)
          /\ a = IF u + i - 1 < N THEN u + i - 1 ELSE u + i - 1 - N
          /\ b = IF w + (i + 1) - 1 < N THEN w + (i + 1) - 1 ELSE w + (i + 1) - 1 - N
    BY <2>2, <2>3
  <2>5. a = b /\ b # w  BY <1>0, <1>9, <2>1, <2>4
  <2>6. data'[a] = data[b]  BY <1>1, <1>2, <1>8, <2>5
  <2> QED  BY <1>15, <1>16, <2>1, <2>4, <2>6
<1>18. Stored'[N] = v
  <2>1. N \in 1..N  BY <1>0
  <2>2. Wrap(head' + N - 1) = IF u + N - 1 < N THEN u + N - 1 ELSE u + N - 1 - N
    BY <1>10, <1>11, <2>1, PlaceFrom
  <2>3. Wrap(head' + N - 1) = w  BY <1>0, <1>9, <2>2
  <2>4. data'[w] = v  BY <1>1, <1>2, <1>8
  <2> QED  BY <1>16, <2>1, <2>3, <2>4
<1> QED
  <2>1. Stored # <<>>  BY <1>0, <1>15
  <2> QED  BY <1>13, <1>14, <1>15, <1>16, <1>17, <1>18, <2>1, ShiftAt

\* A get from a buffer that holds something.
LEMMA GetSome ==
  ASSUME CircularBufferAssumption, CountersSuffice, BufferInv, steps < MaxSteps,
         Get, steps' = steps + 1, size # 0
  PROVE  /\ BufferInv'
         /\ Stored # <<>> /\ answer' = Head(Stored) /\ Stored' = Tail(Stored)
<1>0. N \in Nat \ {0} /\ Modulus \in Nat \ {0} /\ MaxSteps \in Nat
  BY DEF CircularBufferAssumption, CountersSuffice
<1>1. /\ data \in [0..N - 1 -> Value \cup {Default}] /\ head \in 0..Modulus - 1
      /\ tail \in 0..Modulus - 1 /\ size \in 0..N
      /\ steps \in 0..MaxSteps /\ (Modulus % N = 0 \/ (head <= steps /\ tail <= steps))
      /\ Wrap(tail) = Wrap(Wrap(head) + size)
  BY DEF BufferInv, Counting, TailBehindHead
<1>2. /\ data' = data /\ tail' = tail /\ head' = Inc(head) /\ size' = size - 1
      /\ answer' = data[Wrap(head)]
  BY DEF Get
<1>3. /\ head \in Nat /\ Inc(head) \in 0..Modulus - 1
      /\ Wrap(Inc(head)) = Wrap(Wrap(head) + 1)
      /\ Modulus % N = 0 \/ Inc(head) <= steps + 1
  BY CountOn
<1>4. Wrap(head) \in 0..N - 1  BY <1>0, <1>3, WrapOfSum
<1>5. PICK w \in 0..N - 1 : w = Wrap(head)  BY <1>4
<1>6. 1 \in 0..N /\ size \in 1..N /\ size \in Nat /\ size - 1 \in 0..N
      /\ size - 1 \in Nat
  BY <1>0, <1>1
<1>7. PICK u \in 0..N - 1 :
        /\ u = Wrap(w + 1)
        /\ w + 1 < N => u = w + 1
        /\ w + 1 >= N => u = w + 1 - N
  BY <1>6, WrapAhead
<1>8. Wrap(head') = u  BY <1>2, <1>3, <1>5, <1>7
<1>9. head' \in Nat /\ head' \in 0..Modulus - 1  BY <1>0, <1>2, <1>3
<1>10. BufferInv'
  <2>1. Wrap(tail') = Wrap(Wrap(head') + size')
    <3>1. PICK a \in 0..N - 1 :
            /\ a = Wrap(w + size)
            /\ w + size < N => a = w + size
            /\ w + size >= N => a = w + size - N
      BY <1>6, WrapAhead
    <3>2. PICK b \in 0..N - 1 :
            /\ b = Wrap(u + (size - 1))
            /\ u + (size - 1) < N => b = u + (size - 1)
            /\ u + (size - 1) >= N => b = u + (size - 1) - N
      BY <1>6, WrapAhead
    <3>3. a = b  BY <1>0, <1>6, <1>7, <3>1, <3>2
    <3> QED  BY <1>1, <1>2, <1>5, <1>8, <3>1, <3>2, <3>3
  <2>2. /\ steps' \in 0..MaxSteps
        /\ Modulus % N = 0 \/ (head' <= steps' /\ tail' <= steps')
    BY <1>0, <1>1, <1>2, <1>3
  <2> QED
    BY <1>1, <1>2, <1>6, <1>9, <2>1, <2>2 DEF BufferInv, Counting, TailBehindHead
<1>11. PICK V : V = Value \cup {Default}  OBVIOUS
<1>12. /\ Stored \in Seq(V) /\ Len(Stored) = size
       /\ \A i \in 1..size : Stored[i] = data[Wrap(head + i - 1)]
  BY <1>11, StoredPlaces
<1>13. /\ Stored' \in Seq(V) /\ Len(Stored') = size - 1
       /\ \A i \in 1..size - 1 : Stored'[i] = data[Wrap(head' + i - 1)]
  <2>1. Stored' = [i \in 1..size - 1 |-> data[Wrap(head' + i - 1)]]
    BY <1>2 DEF Stored
  <2>2. \A i \in 1..size - 1 : data[Wrap(head' + i - 1)] \in V
    BY <1>1, <1>6, <1>9, <1>11, PlacesRead
  <2>3. Stored' \in [1..size - 1 -> V]  BY <2>1, <2>2, Zenon
  <2>4. \A i \in 1..size - 1 : Stored'[i] = data[Wrap(head' + i - 1)]
    BY <2>1, Zenon
  <2> QED  BY <1>6, <2>3, <2>4, FunctionAsSeq
<1>14. ASSUME NEW i \in 1..size - 1  PROVE Stored'[i] = Stored[i + 1]
  <2>1. i \in 1..N /\ i + 1 \in 1..N /\ i + 1 \in 1..size  BY <1>0, <1>6
  <2>2. /\ Wrap(head' + i - 1) \in 0..N - 1
        /\ Wrap(head' + i - 1) = IF u + i - 1 < N THEN u + i - 1 ELSE u + i - 1 - N
    BY <1>8, <1>9, <2>1, PlaceFrom
  <2>3. /\ Wrap(head + (i + 1) - 1) \in 0..N - 1
        /\ Wrap(head + (i + 1) - 1)
             = IF w + (i + 1) - 1 < N THEN w + (i + 1) - 1 ELSE w + (i + 1) - 1 - N
    BY <1>3, <1>5, <2>1, PlaceFrom
  <2>4. PICK a \in 0..N - 1, b \in 0..N - 1 :
          /\ a = Wrap(head' + i - 1) /\ b = Wrap(head + (i + 1) - 1)
          /\ a = IF u + i - 1 < N THEN u + i - 1 ELSE u + i - 1 - N
          /\ b = IF w + (i + 1) - 1 < N THEN w + (i + 1) - 1 ELSE w + (i + 1) - 1 - N
    BY <2>2, <2>3
  <2>5. a = b  BY <1>0, <1>7, <2>1, <2>4
  <2>6. Stored[i + 1] = data[b]  BY <1>12, <2>1, <2>4
  <2>7. Stored'[i] = data[a]  BY <1>13, <2>4
  <2> QED  BY <2>5, <2>6, <2>7
<1>15. Stored[1] = data[Wrap(head)]
  <2>1. head + 1 - 1 = head /\ 1 \in 1..size  BY <1>3, <1>6
  <2> QED  BY <1>12, <2>1
<1>16. Stored # <<>>  BY <1>6, <1>12
<1>17. answer' = Head(Stored)  BY <1>2, <1>12, <1>15, <1>16
<1>18. Stored' = Tail(Stored)  BY <1>12, <1>13, <1>14, <1>16, TailAt
<1> QED  BY <1>10, <1>16, <1>17, <1>18

\* A get from an empty buffer: both counters go on.
LEMMA GetNone ==
  ASSUME CircularBufferAssumption, CountersSuffice, BufferInv, steps < MaxSteps,
         Get, steps' = steps + 1, size = 0
  PROVE  BufferInv' /\ Stored = <<>> /\ answer' = Default /\ Stored' = Stored
<1>0. N \in Nat \ {0} /\ Modulus \in Nat \ {0} /\ MaxSteps \in Nat
  BY DEF CircularBufferAssumption, CountersSuffice
<1>1. /\ data \in [0..N - 1 -> Value \cup {Default}] /\ size \in 0..N
      /\ steps \in 0..MaxSteps
      /\ Wrap(tail) = Wrap(Wrap(head) + size)
  BY DEF BufferInv, Counting, TailBehindHead
<1>2. /\ data' = data /\ tail' = Inc(tail) /\ head' = Inc(head) /\ size' = size
      /\ answer' = Default
  BY DEF Get, TailAfterEmpty
<1>3. /\ tail \in Nat /\ Inc(tail) \in 0..Modulus - 1
      /\ Wrap(Inc(tail)) = Wrap(Wrap(tail) + 1)
      /\ Modulus % N = 0 \/ Inc(tail) <= steps + 1
  BY CountOn
<1>4. /\ head \in Nat /\ Inc(head) \in 0..Modulus - 1
      /\ Wrap(Inc(head)) = Wrap(Wrap(head) + 1)
      /\ Modulus % N = 0 \/ Inc(head) <= steps + 1
  BY CountOn
<1>5. Wrap(tail') = Wrap(Wrap(head') + size')
  <2>1. Wrap(head) \in 0..N - 1  BY <1>0, <1>4, WrapOfSum
  <2>2. PICK w \in 0..N - 1 : w = Wrap(head)  BY <2>1
  <2>3. Wrap(w + 0) = w  BY WrapStays
  <2>4. Wrap(tail) = w  BY <1>1, <2>2, <2>3
  <2>5. PICK u \in 0..N - 1 : u = Wrap(w + 1)
    <3>1. 1 \in 0..N  BY <1>0
    <3> QED  BY <3>1, WrapAhead
  <2>6. Wrap(u + 0) = u  BY WrapStays
  <2>7. Wrap(tail') = u /\ Wrap(head') = u /\ size' = 0
    BY <1>2, <1>3, <1>4, <2>2, <2>4, <2>5
  <2> QED  BY <2>6, <2>7
<1>6. BufferInv'
  <2>1. /\ steps' \in 0..MaxSteps
        /\ Modulus % N = 0 \/ (head' <= steps' /\ tail' <= steps')
    BY <1>0, <1>1, <1>2, <1>3, <1>4
  <2> QED
    BY <1>1, <1>2, <1>3, <1>4, <1>5, <2>1 DEF BufferInv, Counting, TailBehindHead
<1>7. Stored = <<>> /\ Stored' = <<>>
  BY <1>2 DEF Stored
<1> QED  BY <1>2, <1>6, <1>7

LEMMA BufferUnchanged ==
  ASSUME BufferInv, UNCHANGED counters, UNCHANGED data,
         steps' \in 0..MaxSteps, steps' >= steps
  PROVE  BufferInv' /\ Stored' = Stored
<1>1. head' = head /\ tail' = tail /\ size' = size /\ data' = data
  BY DEF counters
<1>2. Modulus % N = 0 \/ (head' <= steps' /\ tail' <= steps')
  <2>1. head \in Int /\ tail \in Int /\ steps \in Int /\ steps' \in Int
    BY DEF BufferInv, Counting
  <2> QED  BY <1>1, <2>1 DEF BufferInv, Counting
<1>3. BufferInv'  BY <1>1, <1>2 DEF BufferInv, Counting, TailBehindHead
<1>4. Stored' = Stored  BY <1>1 DEF Stored
<1> QED  BY <1>3, <1>4

\* Every call is one of the queue, or nothing to it.
LEMMA BufferCall ==
  ASSUME CircularBufferAssumption, CountersSuffice, BufferInv, [Next]_vars
  PROVE  BufferInv' /\ [Queue!Next]_<<Stored, answer>>
<1>0. /\ MaxSteps \in Nat /\ N \in Nat \ {0} /\ steps \in 0..MaxSteps
  BY DEF CircularBufferAssumption, BufferInv, Counting
<1>1. CASE UNCHANGED vars
  <2>1. UNCHANGED counters /\ UNCHANGED data /\ answer' = answer /\ steps' = steps
    BY <1>1 DEF vars, buffer
  <2> QED  BY <1>0, <2>1, BufferUnchanged
<1>2. CASE Next
  <2>0. steps < MaxSteps /\ steps' = steps + 1 /\ Step  BY <1>2 DEF Next
  <2>1. ASSUME NEW v \in Value, Put(v)
        PROVE  BufferInv' /\ [Queue!Next]_<<Stored, answer>>
    <3>1. answer' = answer  BY <2>1 DEF Put
    <3>2. Len(Stored) = size  BY StoredPlaces
    <3>3. BufferInv' /\ Stored' = Append(IF Len(Stored) = N THEN Tail(Stored)
                                         ELSE Stored, v)
      <4>1. CASE size = N
        BY <2>0, <2>1, <3>2, <4>1, PutOver
      <4>2. CASE size # N
        BY <2>0, <2>1, <3>2, <4>2, PutMore
      <4> QED  BY <4>1, <4>2
    <3> QED  BY <3>1, <3>3 DEF Queue!Next, Queue!Put
  <2>2. ASSUME Get
        PROVE  BufferInv' /\ [Queue!Next]_<<Stored, answer>>
    <3>1. CASE size = 0
      BY <2>0, <2>2, <3>1, GetNone DEF Queue!Next, Queue!Get
    <3>2. CASE size # 0
      BY <2>0, <2>2, <3>2, GetSome DEF Queue!Next, Queue!Get
    <3> QED  BY <3>1, <3>2
  <2>3. ASSUME NEW num \in 1..MaxBurst, Fire(num)
        PROVE  BufferInv' /\ [Queue!Next]_<<Stored, answer>>
    <3>1. UNCHANGED counters /\ UNCHANGED data /\ answer' = answer
      BY <2>3 DEF Fire, buffer
    <3>2. steps' \in 0..MaxSteps /\ steps' >= steps  BY <1>0, <2>0
    <3> QED  BY <3>1, <3>2, BufferUnchanged
  <2> QED  BY <2>0, <2>1, <2>2, <2>3 DEF Step, BufferStep
<1> QED  BY <1>1, <1>2

\* A buffer of any capacity, holding values of any type, is a queue of the newest
\* N values, also when its counters wrap at a multiple of the capacity (as they do
\* for a power of two) or never get there (circular_buffer.hpp:116-148).
THEOREM BufferIsQueue ==
  ASSUME CircularBufferAssumption, CountersSuffice
  PROVE  Spec => IsQueue
<1>1. Init => BufferInv /\ Queue!Init
  BY BufferInit DEF Queue!Init
<1>2. BufferInv /\ [Next]_vars => BufferInv' /\ [Queue!Next]_<<Stored, answer>>
  BY BufferCall
<1> QED  BY <1>1, <1>2, PTL DEF Spec, IsQueue, Queue!Spec

\* From the tail on, the last size places are those from the head on.
LEMMA PlotMeetsHead ==
  ASSUME CircularBufferAssumption, NEW h \in Nat, NEW t \in Nat, NEW z \in 0..N,
         Wrap(t) = Wrap(Wrap(h) + z), NEW i \in 1..z
  PROVE  Wrap(Wrap(t) + (N - z + i) - 1) = Wrap(h + i - 1)
<1>0. N \in Nat \ {0}  BY DEF CircularBufferAssumption
<1>1. i \in 1..N /\ N - z + i - 1 \in 0..N  BY <1>0
<1>2. PICK k \in 0..N : k = N - z + i - 1  BY <1>1
<1>3. PICK w \in 0..N - 1, b \in 0..N - 1 :
        /\ w = Wrap(h) /\ b = Wrap(h + i - 1)
        /\ b = IF w + i - 1 < N THEN w + i - 1 ELSE w + i - 1 - N
  BY <1>1, PlaceFrom
<1>4. PICK a \in 0..N - 1 :
        /\ a = Wrap(w + z)
        /\ w + z < N => a = w + z
        /\ w + z >= N => a = w + z - N
  BY WrapAhead
<1>5. PICK c \in 0..N - 1 :
        /\ c = Wrap(a + k)
        /\ a + k < N => c = a + k
        /\ a + k >= N => c = a + k - N
  BY WrapAhead
<1>6. b = c  BY <1>0, <1>2, <1>3, <1>4, <1>5
<1>7. a + k = a + (N - z + i) - 1  BY <1>0, <1>2
<1> QED  BY <1>3, <1>4, <1>5, <1>6, <1>7

\* While nothing was taken, the history is what is stored, and the plot ends with it.
PlotInv ==
  ~taken => puts = Stored /\ \A i \in 1..size : plot[N - size + i] = Stored[i]

LEMMA PlotAfterPut ==
  ASSUME CircularBufferAssumption, BufferInv, BufferInv', PlotInv,
         NEW v \in Value, Put(v),
         Stored' = Append(IF Len(Stored) = N THEN Tail(Stored) ELSE Stored, v)
  PROVE  PlotInv'
<1> SUFFICES ASSUME ~taken'
             PROVE  /\ puts' = Stored'
                    /\ \A i \in 1..size' : plot'[N - size' + i] = Stored'[i]
  BY DEF PlotInv
<1>0. N \in Nat \ {0}  BY DEF CircularBufferAssumption
<1>1. /\ taken' = taken /\ plot' = Plotted(data', tail')
      /\ puts' = Append(IF Len(puts) = N THEN Tail(puts) ELSE puts, v)
  BY DEF Put
<1>2. puts' = Stored'  BY <1>1 DEF PlotInv
<1>3. PICK h \in Nat, t \in Nat, z \in 0..N :
        /\ h = head' /\ t = tail' /\ z = size'
        /\ Wrap(t) = Wrap(Wrap(h) + z)
  <2>1. head' \in Nat /\ tail' \in Nat /\ size' \in 0..N
        /\ Wrap(tail') = Wrap(Wrap(head') + size')
    BY DEF BufferInv, TailBehindHead
  <2> QED  BY <2>1
<1>4. ASSUME NEW i \in 1..z  PROVE plot'[N - z + i] = Stored'[i]
  <2>1. N - z + i \in 1..N  BY <1>0
  <2>2. \A j \in 1..N : plot'[j] = data'[Wrap(Wrap(t) + j - 1)]
    BY <1>1, <1>3, Zenon DEF Plotted
  <2>3. plot'[N - z + i] = data'[Wrap(Wrap(t) + (N - z + i) - 1)]
    BY <2>1, <2>2
  <2>4. Wrap(Wrap(t) + (N - z + i) - 1) = Wrap(h + i - 1)
    BY <1>3, PlotMeetsHead
  <2>5. Stored'[i] = data'[Wrap(h + i - 1)]
    BY <1>3, Zenon DEF Stored
  <2> QED  BY <2>3, <2>4, <2>5
<1> QED  BY <1>2, <1>3, <1>4

\* The plot of the info screen ends with the values of the last frames in their
\* order, for any capacity, before and after the buffer is full
\* (info_screen.cpp, doUpdate).
THEOREM PlotStaysInOrder ==
  ASSUME CircularBufferAssumption, CountersSuffice
  PROVE  Spec => []PlotInOrder
<1>1. Init => BufferInv /\ PlotInv
  <2>1. Init => size = 0 /\ puts = <<>>  BY DEF Init
  <2>2. Init => \A i \in 1..0 : plot[N - 0 + i] = Stored[i]  OBVIOUS
  <2> QED  BY <2>1, <2>2, BufferInit DEF PlotInv
<1>2. ASSUME BufferInv, PlotInv, [Next]_vars  PROVE BufferInv' /\ PlotInv'
  <2>0. /\ BufferInv' /\ MaxSteps \in Nat /\ steps \in 0..MaxSteps
    BY <1>2, BufferCall DEF CircularBufferAssumption, BufferInv, Counting
  <2>1. ASSUME NEW v \in Value, Put(v), steps < MaxSteps, steps' = steps + 1
        PROVE  PlotInv'
    <3>1. Len(Stored) = size  BY <1>2, StoredPlaces
    <3>2. Stored' = Append(IF Len(Stored) = N THEN Tail(Stored) ELSE Stored, v)
      <4>1. CASE size = N
        BY <1>2, <2>1, <3>1, <4>1, PutOver
      <4>2. CASE size # N
        BY <1>2, <2>1, <3>1, <4>2, PutMore
      <4> QED  BY <4>1, <4>2
    <3> QED  BY <1>2, <2>0, <2>1, <3>2, PlotAfterPut
  <2>2. ASSUME Get PROVE PlotInv'
    BY <2>2 DEF Get, PlotInv
  <2>3. ASSUME UNCHANGED buffer PROVE PlotInv'
    <3>1. /\ taken' = taken /\ puts' = puts /\ plot' = plot /\ size' = size
          /\ data' = data /\ head' = head
      BY <2>3 DEF buffer, counters
    <3>2. Stored' = Stored  BY <3>1 DEF Stored
    <3> QED  BY <1>2, <3>1, <3>2 DEF PlotInv
  <2> QED
    BY <1>2, <2>0, <2>1, <2>2, <2>3 DEF Next, Step, BufferStep, Fire, vars
<1>3. BufferInv /\ PlotInv => PlotInOrder
  <2> SUFFICES ASSUME BufferInv, PlotInv, ~taken, NEW i \in 1..Len(puts)
               PROVE  plot[N - Len(puts) + i] = puts[i]
    BY DEF PlotInOrder
  <2>1. puts = Stored /\ Len(puts) = size  BY StoredPlaces DEF PlotInv
  <2> QED  BY <2>1 DEF PlotInv
<1> QED  BY <1>1, <1>2, <1>3, PTL DEF Spec

\* The firings of a particle system do not wrap m_currentIndex (particle_system.hpp),
\* unless that does no harm.
FiringsSuffice ==
  /\ Modulus \in Nat \ {0} /\ MaxBurst \in Nat
  /\ Modulus % N = 0 \/ MaxSteps * MaxBurst < Modulus

\* Indices less than a round apart have different places.
LEMMA PlacesDiffer ==
  ASSUME CircularBufferAssumption, NEW x \in Nat, NEW y \in Nat,
         x < y, y < x + N
  PROVE  Wrap(x) # Wrap(y)
<1>0. N \in Nat \ {0}  BY DEF CircularBufferAssumption
<1>1. PICK a \in Nat, r \in 0..N - 1 : x = N * a + r /\ r = Wrap(x)
  BY <1>0, Remainder DEF Wrap
<1>2. PICK b \in Nat, s \in 0..N - 1 : y = N * b + s /\ s = Wrap(y)
  BY <1>0, Remainder DEF Wrap
<1>3. ASSUME r = s PROVE FALSE
  <2>1. N * (b - a) = y - x
    <3>1. PICK u \in Nat, v \in Nat : u = N * a /\ v = N * b  BY <1>0
    <3>2. N * (b - a) = N * b - N * a  BY <1>0
    <3>3. v - u = y - x
      <4>1. x = u + r  BY <1>1, <3>1
      <4>2. y = v + r  BY <1>2, <1>3, <3>1
      <4>3. r \in Int  BY <1>0
      <4> QED  BY <4>1, <4>2, <4>3
    <3> QED  BY <3>1, <3>2, <3>3
  <2>2. CASE b <= a
    <3>1. N * (b - a) <= 0  BY <1>0, <2>2
    <3> QED  BY <2>1, <3>1
  <2>3. CASE b > a
    <3>1. b - a \in Nat /\ b - a >= 1  BY <2>3
    <3>2. N * (b - a) >= N  BY <1>0, <3>1
    <3> QED  BY <1>0, <2>1, <3>2
  <2> QED  BY <2>2, <2>3
<1> QED  BY <1>1, <1>2, <1>3

\* A round later the place is the same.
LEMMA PlaceRecurs ==
  ASSUME CircularBufferAssumption, NEW x \in Nat
  PROVE  Wrap(x + N) = Wrap(x)
<1>0. N \in Nat \ {0}  BY DEF CircularBufferAssumption
<1>1. PICK a \in Nat, r \in 0..N - 1 : x = N * a + r /\ r = Wrap(x)
  BY <1>0, Remainder DEF Wrap
<1>2. x + N = N * (a + 1) + r /\ x + N \in Nat /\ a + 1 \in Int
  BY <1>0, <1>1
<1>3. (x + N) % N = r  BY <1>0, <1>2, RemainderIs
<1> QED  BY <1>1, <1>3 DEF Wrap

\* An index of size_t that grows has the place it would have without a width.
LEMMA PlaceOfIndex ==
  ASSUME CircularBufferAssumption, FiringsSuffice, NEW x \in Nat,
         Modulus % N = 0 \/ x < Modulus
  PROVE  x % Modulus \in 0..Modulus - 1 /\ Wrap(x % Modulus) = Wrap(x)
<1>0. N \in Nat \ {0}  BY DEF CircularBufferAssumption
<1>1. PICK M \in Nat \ {0} : M = Modulus  BY DEF FiringsSuffice
<1>2. PICK a \in Nat, s \in 0..M - 1 : x = M * a + s /\ s = x % M
  BY <1>1, Remainder
<1>3. CASE x < M
  <2>1. x = M * 0 + x /\ x \in 0..M - 1  BY <1>1, <1>3
  <2>2. x % M = x  BY <1>1, <2>1, RemainderIs
  <2> QED  BY <1>1, <2>1, <2>2
<1>4. CASE M % N = 0
  <2>1. PICK q \in Nat : M = N * q
    <3>1. M % N \in 0..N - 1 /\ M \div N \in Nat /\ M = N * (M \div N) + (M % N)
      BY <1>0, <1>1, Remainder
    <3>2. PICK q \in Nat, r \in 0..N - 1 : M = N * q + r /\ r = M % N
      BY <3>1
    <3>3. r = 0 /\ N * q \in Nat  BY <1>0, <1>4, <3>2
    <3> QED  BY <1>0, <3>2, <3>3
  <2>2. PICK b \in Nat, r \in 0..N - 1 : s = N * b + r /\ r = Wrap(s)
    <3>1. s \in Nat  BY <1>1
    <3> QED  BY <1>0, <3>1, Remainder DEF Wrap
  <2>3. x = N * (q * a + b) + r
    <3>1. M * a = N * (q * a)  BY <1>0, <2>1
    <3>2. q * a \in Nat  OBVIOUS
    <3>3. N * (q * a + b) = N * (q * a) + N * b  BY <1>0, <3>2
    <3>4. PICK u \in Nat, v \in Nat : u = N * (q * a) /\ v = N * b  BY <1>0, <3>2
    <3>5. x = u + (v + r)  BY <1>2, <2>2, <3>1, <3>4
    <3>6. N * (q * a + b) = u + v  BY <3>3, <3>4
    <3> QED  BY <3>4, <3>5, <3>6
  <2>4. q * a + b \in Int  OBVIOUS
  <2>5. x % N = r  BY <1>0, <2>3, <2>4, RemainderIs
  <2> QED  BY <1>1, <1>2, <2>2, <2>5 DEF Wrap
<1> QED  BY <1>1, <1>3, <1>4

\* Of the j-th place before the current one, the firing it shows.
ShownBefore(f, j) == IF j <= f THEN f - j + 1 ELSE 0

SystemInv ==
  /\ steps \in 0..MaxSteps /\ fired \in Nat /\ currentIndex \in 0..Modulus - 1
  /\ Modulus % N = 0 \/ currentIndex <= steps * MaxBurst
  /\ particles \in [0..N - 1 -> Nat]
  /\ \A j \in 1..N : particles[Wrap(currentIndex + N - j)] = ShownBefore(fired, j)

LEMMA SystemBegins ==
  ASSUME CircularBufferAssumption, FiringsSuffice, Init
  PROVE  SystemInv
<1>0. N \in Nat \ {0} /\ MaxSteps \in Nat /\ Modulus \in Nat \ {0} /\ MaxBurst \in Nat
  BY DEF CircularBufferAssumption, FiringsSuffice
<1>1. /\ steps = 0 /\ fired = 0 /\ currentIndex = 0
      /\ particles = [p \in 0..N - 1 |-> 0]
  BY DEF Init
<1>2. ASSUME NEW j \in 1..N
      PROVE  particles[Wrap(currentIndex + N - j)] = ShownBefore(fired, j)
  <2>1. currentIndex + N - j \in Nat  BY <1>0, <1>1
  <2>2. Wrap(currentIndex + N - j) \in 0..N - 1
    BY <1>0, <2>1, Remainder DEF Wrap
  <2>3. ~(j <= fired)  BY <1>0, <1>1
  <2> QED  BY <1>1, <2>2, <2>3 DEF ShownBefore
<1>3. particles \in [0..N - 1 -> Nat]  BY <1>1
<1> QED  BY <1>0, <1>1, <1>2, <1>3 DEF SystemInv

\* Firing shows the last of the new firings at a place, and leaves the others.
LEMMA FireKeeps ==
  ASSUME CircularBufferAssumption, FiringsSuffice, SystemInv,
         NEW num \in 1..MaxBurst, Fire(num), steps < MaxSteps, steps' = steps + 1
  PROVE  SystemInv'
<1>0. /\ N \in Nat \ {0} /\ MaxSteps \in Nat /\ Modulus \in Nat \ {0}
      /\ MaxBurst \in Nat
  BY DEF CircularBufferAssumption, FiringsSuffice
<1>1. PICK c \in Nat, f \in Nat, t \in Nat :
        c = currentIndex /\ f = fired /\ t = steps /\ t < MaxSteps
  BY <1>0 DEF SystemInv
<1> DEFINE Mine(p) == {k \in 1..num : Wrap((c + k - 1) % Modulus) = p}
<1>2. /\ \A p \in 0..N - 1 :
           particles'[p] = IF Mine(p) = {} THEN particles[p]
                           ELSE f + (CHOOSE k \in Mine(p) : \A j \in Mine(p) : j <= k)
      /\ currentIndex' = (c + num) % Modulus /\ fired' = f + num
      /\ DOMAIN particles' = 0..N - 1
      /\ particles' = [p \in 0..N - 1 |-> particles'[p]]
  BY <1>1 DEF Fire, FromCurrent
<1>3. \A x \in Nat : x <= c + num => Modulus % N = 0 \/ x < Modulus
  <2>1. ASSUME Modulus % N # 0
        PROVE  c + num < Modulus
    <3>1. c <= t * MaxBurst /\ MaxSteps * MaxBurst < Modulus
      BY <1>1, <2>1 DEF SystemInv, FiringsSuffice
    <3>2. (t + 1) * MaxBurst = t * MaxBurst + MaxBurst  BY <1>0
    <3>3. (t + 1) * MaxBurst <= MaxSteps * MaxBurst
      <4>1. MaxSteps * MaxBurst
              = (t + 1) * MaxBurst + (MaxSteps - (t + 1)) * MaxBurst
        BY <1>0
      <4>2. MaxSteps - (t + 1) \in Nat  BY <1>0, <1>1
      <4>3. (MaxSteps - (t + 1)) * MaxBurst \in Nat /\ (t + 1) * MaxBurst \in Nat
        BY <1>0, <4>2
      <4> QED  BY <4>1, <4>3
    <3>4. t * MaxBurst \in Nat /\ MaxSteps * MaxBurst \in Nat  BY <1>0
    <3> QED  BY <1>0, <3>1, <3>2, <3>3, <3>4
  <2> QED  BY <1>0, <2>1
<1>4. \A k \in 1..num : Wrap((c + k - 1) % Modulus) = Wrap(c + k - 1)
  <2> TAKE k \in 1..num
  <2>1. c + k - 1 \in Nat /\ c + k - 1 <= c + num  BY <1>0
  <2>2. Modulus % N = 0 \/ c + k - 1 < Modulus  BY <1>3, <2>1
  <2> QED  BY <2>1, <2>2, PlaceOfIndex
<1>5. /\ currentIndex' \in 0..Modulus - 1 /\ Wrap(currentIndex') = Wrap(c + num)
      /\ Modulus % N = 0 \/ currentIndex' <= (t + 1) * MaxBurst
  <2>1. c + num \in Nat /\ (Modulus % N = 0 \/ c + num < Modulus)  BY <1>0, <1>3
  <2>2. currentIndex' \in 0..Modulus - 1 /\ Wrap(currentIndex') = Wrap(c + num)
    BY <1>2, <2>1, PlaceOfIndex
  <2>3. ASSUME Modulus % N # 0 PROVE currentIndex' <= (t + 1) * MaxBurst
    <3>1. PICK x \in Nat : x = c + num /\ x < Modulus  BY <2>1, <2>3
    <3>2. x = Modulus * 0 + x /\ x \in 0..Modulus - 1  BY <1>0, <3>1
    <3>3. x % Modulus = x  BY <1>0, <3>2, RemainderIs
    <3>4. c <= t * MaxBurst  BY <1>1, <2>3 DEF SystemInv
    <3>5. (t + 1) * MaxBurst = t * MaxBurst + MaxBurst /\ t * MaxBurst \in Nat
      BY <1>0
    <3> QED  BY <1>0, <1>2, <3>1, <3>3, <3>4, <3>5
  <2> QED  BY <2>2, <2>3
<1>6. ASSUME NEW j \in 1..N
      PROVE  /\ Wrap(currentIndex' + N - j) \in 0..N - 1
             /\ particles'[Wrap(currentIndex' + N - j)] = ShownBefore(f + num, j)
  <2> DEFINE y == c + num + N - j
             p == Wrap(y)
  <2>1. y \in Nat /\ p \in 0..N - 1 /\ y = c + num + (N - j) /\ N - j \in Nat
    BY <1>0, Remainder DEF Wrap
  <2>2. Wrap(currentIndex' + N - j) = p
    <3>1. PICK i \in Nat : i = currentIndex' /\ Wrap(i) = Wrap(c + num)
      BY <1>0, <1>5
    <3>2. PICK d \in Nat, e \in Nat : d = N - j /\ e = c + num  BY <2>1
    <3>3. Wrap(i + d) = Wrap(Wrap(i) + d) /\ Wrap(e + d) = Wrap(Wrap(e) + d)
      BY WrapOfSum
    <3>4. i + d = i + N - j /\ e + d = y /\ Wrap(i) = Wrap(e)
      BY <1>0, <3>1, <3>2
    <3> QED  BY <3>1, <3>3, <3>4
  <2>3. CASE j <= num
    <3>1. PICK k \in 1..num : k = num - j + 1  BY <2>3
    <3>2. k \in Mine(p)
      <4>1. c + k - 1 \in Nat /\ y = (c + k - 1) + N  BY <1>0, <3>1
      <4>2. Wrap(c + k - 1) = p  BY <4>1, PlaceRecurs
      <4> QED  BY <1>4, <4>2
    <3>3. ASSUME NEW i \in Mine(p) PROVE i <= k
      <4>1. i \in 1..num /\ Wrap(c + i - 1) = p /\ Wrap(c + k - 1) = p
        BY <1>4, <3>2
      <4>2. c + i - 1 \in Nat /\ c + k - 1 \in Nat  BY <4>1
      <4>3. ASSUME k < i PROVE FALSE
        <5>1. c + k - 1 < c + i - 1 /\ c + i - 1 < (c + k - 1) + N
          BY <1>0, <3>1, <4>1, <4>3
        <5> QED  BY <4>1, <4>2, <5>1, PlacesDiffer
      <4> QED  BY <4>1, <4>3
    <3>4. (CHOOSE i \in Mine(p) : \A l \in Mine(p) : l <= i) = k
      <4>1. \A i \in Mine(p) : (\A l \in Mine(p) : l <= i) => i = k
        <5>1. Mine(p) \subseteq Int  OBVIOUS
        <5> HIDE DEF Mine
        <5> QED  BY <3>2, <3>3, <5>1
      <4> HIDE DEF Mine
      <4> QED  BY <3>2, <3>3, <4>1
    <3>5. particles'[p] = f + k
      <4> HIDE DEF Mine, p
      <4> QED  BY <1>2, <2>1, <3>2, <3>4
    <3> HIDE DEF p
    <3> QED  BY <2>1, <2>2, <2>3, <3>1, <3>5 DEF ShownBefore
  <2>4. CASE ~(j <= num)
    <3>1. Mine(p) = {}
      <4>1. ASSUME NEW i \in Mine(p) PROVE FALSE
        <5>1. i \in 1..num /\ Wrap(c + i - 1) = p  BY <1>4, <4>1
        <5>2. c + i - 1 \in Nat /\ c + i - 1 < y /\ y < (c + i - 1) + N
          BY <1>0, <2>4, <5>1
        <5> QED  BY <2>1, <5>1, <5>2, PlacesDiffer
      <4> QED  BY <4>1
    <3>2. particles'[p] = particles[p]
      <4> HIDE DEF Mine, p
      <4> QED  BY <1>2, <2>1, <3>1
    <3>3. PICK l \in 1..N : l = j - num  BY <1>0, <2>4
    <3>4. particles[Wrap(c + N - l)] = ShownBefore(f, l)
      BY <1>1 DEF SystemInv
    <3>5. c + N - l = y  BY <1>0, <3>3
    <3>6. ShownBefore(f, l) = ShownBefore(f + num, j)
      BY <3>3 DEF ShownBefore
    <3> QED  BY <2>1, <2>2, <3>2, <3>4, <3>5, <3>6
  <2> QED  BY <2>3, <2>4
<1>7. particles' \in [0..N - 1 -> Nat]
  <2>1. ASSUME NEW p \in 0..N - 1 PROVE particles'[p] \in Nat
    <3>1. PICK i \in 0..N - 1 : i = Wrap(currentIndex')
      <4>1. PICK x \in Nat : x = currentIndex'  BY <1>0, <1>5
      <4>2. Wrap(x) \in 0..N - 1  BY <1>0, Remainder DEF Wrap
      <4> QED  BY <4>1, <4>2
    <3>2. PICK j \in 1..N : p = IF i + N - j < N THEN i + N - j ELSE i + N - j - N
      <4>1. CASE p < i
        <5>1. i - p \in 1..N /\ p = i + N - (i - p) - N /\ ~(i + N - (i - p) < N)
          BY <1>0, <4>1
        <5> QED  BY <5>1
      <4>2. CASE ~(p < i)
        <5>1. i + N - p \in 1..N /\ p = i + N - (i + N - p) /\ i + N - (i + N - p) < N
          BY <1>0, <4>2
        <5> QED  BY <5>1
      <4> QED  BY <4>1, <4>2
    <3>3. Wrap(currentIndex' + N - j) = p
      <4>1. PICK x \in Nat : x = currentIndex' /\ i = Wrap(x)  BY <1>0, <1>5, <3>1
      <4>2. N - j \in Nat /\ x + (N - j) = x + N - j  BY <1>0
      <4>3. Wrap(x + (N - j)) = Wrap(i + (N - j))  BY <4>1, <4>2, WrapOfSum
      <4>4. i + (N - j) \in 0..2 * N - 1 /\ i + (N - j) = i + N - j  BY <1>0, <3>1
      <4> QED  BY <1>0, <3>2, <4>1, <4>2, <4>3, <4>4, WrapOnce
    <3>4. particles'[p] = ShownBefore(f + num, j)  BY <1>6, <3>3
    <3> QED  BY <3>4 DEF ShownBefore
  <2> QED  BY <1>2, <2>1
<1>8. fired' = f + num /\ steps' = t + 1 /\ t + 1 \in 0..MaxSteps
  BY <1>0, <1>1, <1>2
<1> QED  BY <1>5, <1>6, <1>7, <1>8 DEF SystemInv

\* ParticleSystem reuses the particle that was fired longest ago: those in use
\* are those of the last N firings, for any capacity and any bursts.
THEOREM ParticlesAreNewest ==
  ASSUME CircularBufferAssumption, FiringsSuffice
  PROVE  Spec => []NewestParticles
<1>1. Init => SystemInv  BY SystemBegins
<1>2. SystemInv /\ [Next]_vars => SystemInv'
  <2> SUFFICES ASSUME SystemInv, [Next]_vars PROVE SystemInv'
    OBVIOUS
  <2>0. MaxSteps \in Nat /\ MaxBurst \in Nat
    BY DEF CircularBufferAssumption, FiringsSuffice
  <2>1. ASSUME NEW num \in 1..MaxBurst, Fire(num), steps < MaxSteps, steps' = steps + 1
        PROVE  SystemInv'
    BY <2>1, FireKeeps
  <2>2. ASSUME UNCHANGED system, steps' = steps \/ (steps < MaxSteps /\ steps' = steps + 1)
        PROVE  SystemInv'
    <3>1. particles' = particles /\ fired' = fired /\ currentIndex' = currentIndex
      BY <2>2 DEF system
    <3>2. PICK t \in 0..MaxSteps : t = steps  BY DEF SystemInv
    <3>3. steps' \in 0..MaxSteps  BY <2>0, <2>2, <3>2
    <3>4. Modulus % N = 0 \/ currentIndex <= steps' * MaxBurst
      <4>1. (t + 1) * MaxBurst = t * MaxBurst + MaxBurst /\ t * MaxBurst \in Nat
        BY <2>0
      <4>2. currentIndex \in 0..Modulus - 1 /\ Modulus \in Nat
            /\ (Modulus % N = 0 \/ currentIndex <= t * MaxBurst)
        BY <3>2 DEF SystemInv, FiringsSuffice
      <4> QED  BY <2>0, <2>2, <3>2, <4>1, <4>2
    <3> QED  BY <3>1, <3>3, <3>4 DEF SystemInv
  <2>3. CASE UNCHANGED vars
    BY <2>2, <2>3 DEF vars
  <2>4. CASE BufferStep /\ steps < MaxSteps /\ steps' = steps + 1
    BY <2>2, <2>4 DEF BufferStep, Put, Get
  <2> QED  BY <2>1, <2>3, <2>4 DEF Next, Step
<1>3. SystemInv => NewestParticles
  <2> SUFFICES ASSUME SystemInv PROVE NewestParticles
    OBVIOUS
  <2>0. N \in Nat \ {0}  BY DEF CircularBufferAssumption
  <2>1. PICK c \in Nat, f \in Nat : c = currentIndex /\ f = fired
    BY DEF SystemInv
  <2>2. ASSUME NEW j \in 1..N
        PROVE  Wrap(c + N - j) \in 0..N - 1
               /\ particles[Wrap(c + N - j)] = ShownBefore(f, j)
    <3>1. c + N - j \in Nat  BY <2>0
    <3> QED  BY <2>0, <2>1, <3>1, Remainder DEF SystemInv, Wrap
  <2>3. ASSUME NEW p \in 0..N - 1
        PROVE  \E j \in 1..N : Wrap(c + N - j) = p
    <3>1. PICK i \in 0..N - 1 : i = Wrap(c)  BY <2>0, Remainder DEF Wrap
    <3>2. PICK j \in 1..N : p = IF i + N - j < N THEN i + N - j ELSE i + N - j - N
      <4>1. CASE p < i
        <5>1. i - p \in 1..N /\ p = i + N - (i - p) - N /\ ~(i + N - (i - p) < N)
          BY <2>0, <4>1
        <5> QED  BY <5>1
      <4>2. CASE ~(p < i)
        <5>1. i + N - p \in 1..N /\ p = i + N - (i + N - p) /\ i + N - (i + N - p) < N
          BY <2>0, <4>2
        <5> QED  BY <5>1
      <4> QED  BY <4>1, <4>2
    <3>3. N - j \in Nat /\ c + (N - j) = c + N - j  BY <2>0
    <3>4. Wrap(c + (N - j)) = Wrap(i + (N - j))  BY <3>1, <3>3, WrapOfSum
    <3>5. i + (N - j) \in 0..2 * N - 1 /\ i + (N - j) = i + N - j  BY <2>0
    <3> QED  BY <2>0, <3>2, <3>3, <3>4, <3>5, WrapOnce
  <2>4. ASSUME NEW k \in 1..f, k > f - N
        PROVE  \E p \in 0..N - 1 : particles[p] = k /\ k # 0
    <3>1. PICK j \in 1..N : j = f - k + 1 /\ j <= f  BY <2>0, <2>4
    <3>2. ShownBefore(f, j) = k  BY <3>1 DEF ShownBefore
    <3> QED  BY <2>2, <3>2
  <2>5. ASSUME NEW p \in 0..N - 1, particles[p] # 0
        PROVE  particles[p] \in {k \in 1..f : k > f - N}
    <3>1. PICK j \in 1..N : Wrap(c + N - j) = p  BY <2>3
    <3>2. particles[p] = ShownBefore(f, j)  BY <2>2, <3>1
    <3>3. j <= f /\ particles[p] = f - j + 1  BY <2>5, <3>2 DEF ShownBefore
    <3> QED  BY <2>0, <3>3
  <2> QED  BY <2>1, <2>4, <2>5 DEF NewestParticles
<1> QED  BY <1>1, <1>2, <1>3, PTL DEF Spec
=============================================================================
