---------------------------- MODULE RingProofs ------------------------------
(***************************************************************************)
(* The two rings of the repository, for any sizes.  kfifo.c: the ring of   *)
(* bytes is a bounded queue, and its two sides never touch the same slot;  *)
(* the argument compares the counters, which wrap, with the numbers of     *)
(* bytes put and got, which do not, and the size is the power of two that  *)
(* its masks need.  pthread_sem_sync.c: in the ring of threads one at a    *)
(* time has the turn, so no two threads ever write at the same time, and   *)
(* each line is the one asked for.                                         *)
(***************************************************************************)
EXTENDS Kfifo, SemRing, CommonLemmas, SequenceTheorems, TLAPS

-----------------------------------------------------------------------------
(* Remainders.  SMT knows how % and \div are related; the rest follows     *)
(* from the uniqueness of quotient and remainder.                          *)
LEMMA DivMod ==
  ASSUME NEW a \in Int, NEW m \in Nat \ {0}
  PROVE  /\ a \div m \in Int
         /\ a % m \in 0..(m - 1)
         /\ a = m * (a \div m) + (a % m)
OBVIOUS

LEMMA Quotient ==
  ASSUME NEW m \in Nat \ {0}, NEW p \in Int, NEW q \in Int,
         NEW r \in 0..(m - 1), NEW s \in 0..(m - 1), m * p + r = m * q + s
  PROVE  r = s
<1>1. ASSUME NEW x \in Int, NEW y \in Int, x < y
      PROVE  m * x + m <= m * y
  <2>1. m * (y - x - 1) >= 0
    BY <1>1
  <2>2. m * (y - x - 1) = m * y - m * x - m
    OBVIOUS
  <2>3. QED
    BY <2>1, <2>2
<1>2. ~(p < q) /\ ~(q < p)
  BY <1>1
<1>3. QED
  BY <1>2

LEMMA Remainder ==
  ASSUME NEW m \in Nat \ {0}, NEW q \in Int, NEW r \in 0..(m - 1)
  PROVE  (m * q + r) % m = r
<1> DEFINE a == m * q + r
<1>1. a \in Int
  OBVIOUS
<1>2. /\ a \div m \in Int /\ a % m \in 0..(m - 1)
      /\ m * q + r = m * (a \div m) + (a % m)
  BY <1>1, DivMod
<1>3. a % m = r
  <2> HIDE DEF a
  <2>1. QED
    BY <1>2, Quotient
<1>4. QED
  BY <1>3

(* A number below m is its own remainder. *)
LEMMA SmallMod ==
  ASSUME NEW m \in Nat \ {0}, NEW a \in 0..(m - 1)
  PROVE  a % m = a
<1>1. (m * 0 + a) % m = a
  BY Remainder
<1>2. QED
  BY <1>1

(* Multiples of m do not matter. *)
LEMMA ModPlusMultiple ==
  ASSUME NEW m \in Nat \ {0}, NEW a \in Int, NEW h \in Int
  PROVE  (a + m * h) % m = a % m
<1>1. /\ a \div m \in Int /\ a % m \in 0..(m - 1)
      /\ a = m * (a \div m) + (a % m)
  BY DivMod
<1> DEFINE q == (a \div m) + h
           r == a % m
<1>2. q \in Int /\ m * q = m * (a \div m) + m * h
  BY <1>1
<1>3. a + m * h = m * q + r
  BY <1>1, <1>2
<1>4. (m * q + r) % m = r
  <2>1. r \in 0..(m - 1)
    BY <1>1
  <2> HIDE DEF q, r
  <2>2. QED
    BY <1>2, <2>1, Remainder
<1>5. QED
  BY <1>3, <1>4

(* Inside a sum or a difference a remainder may be taken or not. *)
LEMMA ModInSum ==
  ASSUME NEW m \in Nat \ {0}, NEW a \in Int, NEW b \in Int
  PROVE  /\ (a + (b % m)) % m = (a + b) % m
         /\ (a - (b % m)) % m = (a - b) % m
<1>1. /\ b \div m \in Int /\ b % m \in Int
      /\ b = m * (b \div m) + (b % m)
  BY DivMod
<1> DEFINE h == b \div m
<1>2. /\ a + b = (a + (b % m)) + m * h
      /\ a - (b % m) = (a - b) + m * h
  BY <1>1
<1>3. a + (b % m) \in Int /\ a - b \in Int /\ h \in Int
  BY <1>1
<1> HIDE DEF h
<1>4. (a + (b % m)) % m = (a + b) % m
  <2>1. PICK x \in Int : x = a + (b % m)
    BY <1>3
  <2>2. (x + m * h) % m = x % m
    BY <1>3, ModPlusMultiple
  <2>3. QED
    BY <1>2, <2>1, <2>2
<1>5. (a - (b % m)) % m = (a - b) % m
  <2>1. PICK x \in Int : x = a - b
    BY <1>3
  <2>2. (x + m * h) % m = x % m
    BY <1>3, ModPlusMultiple
  <2>3. QED
    BY <1>2, <2>1, <2>2
<1>6. QED
  BY <1>4, <1>5

(* Numbers less than m apart have different remainders. *)
LEMMA ModApart ==
  ASSUME NEW m \in Nat \ {0}, NEW a \in Int, NEW b \in Int, a < b, b - a < m
  PROVE  a % m # b % m
<1>1. /\ a % m \in 0..(m - 1) /\ b % m \in 0..(m - 1)
  BY DivMod
<1>2. SUFFICES ASSUME a % m = b % m PROVE FALSE
  OBVIOUS
<1>3. (b - (a % m)) % m = (b - a) % m /\ (b - (b % m)) % m = (b - b) % m
  BY ModInSum
<1>4. (b - a) % m = b - a
  BY SmallMod
<1>5. (b - b) % m = 0
  BY SmallMod
<1>6. QED
  BY <1>2, <1>3, <1>4, <1>5

(* The remainder for a divisor of m can be taken after that for m. *)
LEMMA ModOfMod ==
  ASSUME NEW m \in Nat \ {0}, NEW d \in Nat \ {0}, m % d = 0, NEW a \in Int
  PROVE  (a % m) % d = a % d
<1> DEFINE p == m \div d
           q == a \div m
<1>1. p \in Int /\ m = d * p
  BY DivMod
<1>2. q \in Int /\ a % m \in Int /\ a = m * q + (a % m)
  BY DivMod
<1> HIDE DEF p, q
<1> DEFINE h == p * q
<1>3. m * q = d * h /\ h \in Int
  BY <1>1, <1>2
<1> HIDE DEF h
<1>4. a = (a % m) + d * h
  BY <1>2, <1>3
<1>5. ((a % m) + d * h) % d = (a % m) % d
  BY <1>2, <1>3, ModPlusMultiple
<1>6. QED
  BY <1>4, <1>5

LEMMA MinOfTwo ==
  ASSUME NEW a \in Int, NEW b \in Int
  PROVE  Min({a, b}) = IF a <= b THEN a ELSE b
BY DEF Min

-----------------------------------------------------------------------------
(* The inductive invariant.                                                *)

(* How far a value x of a counter is behind its latest value c. *)
Lag(c, x) == (c - x) % M

Count == sent - received

(* What is on its way to memory is not older than what is there, and comes *)
(* in order.                                                               *)
Newer(c, mem, stores) ==
  /\ \A v \in 1..Len(stores) : Lag(c, stores[v]) <= Lag(c, mem)
  /\ \A v, j \in 1..Len(stores) : v <= j => Lag(c, stores[j]) <= Lag(c, stores[v])

Lags == Newer(in, inMem, inStores) /\ Newer(out, outMem, outStores)

(* The counters are the numbers of bytes, modulo M.  What the consumer has *)
(* begun to take is published in memory; what the producer has begun to    *)
(* put fits beside what the consumer has not released in memory.           *)
Counters ==
  /\ in = sent % M /\ out = received % M
  /\ glen + Lag(in, inMem) <= Count
  /\ plen + Count + Lag(out, outMem) <= Size
  /\ sent + plen <= MaxBytes

Calls ==
  /\ ppc = "idle" => plen = 0 /\ ptodo = {}
  /\ gpc = "idle" => glen = 0 /\ gtodo = {}
  /\ DOMAIN dest = 0..(glen - 1)

(* Byte p + 1 of the stream is in its slot until it is got. *)
Written ==
  \A p \in received..(sent + plen - 1) : p - sent \notin ptodo => buf[p % Size] = p + 1

RingInv == TypeOK /\ Lags /\ Counters /\ Calls /\ Written /\ InOrder

-----------------------------------------------------------------------------
LEMMA Sizes ==
  /\ M \in Nat \ {0} /\ Size \in Nat \ {0} /\ Size < M /\ M % Size = 0
  /\ MaxWant \in Nat \ {0} /\ MaxBytes \in Nat
BY KfifoAssumption

LEMMA LagTyped ==
  ASSUME NEW c \in Counter, NEW x \in Counter
  PROVE  Lag(c, x) \in Counter /\ Lag(c, x) \in Nat
<1>1. c - x \in Int
  BY Sizes DEF Counter
<1>2. (c - x) % M \in 0..(M - 1)
  BY <1>1, DivMod, Sizes
<1>3. QED
  BY <1>2 DEF Lag, Counter

(* A value of a counter, in terms of the number the counter stands for. *)
LEMMA LagValue ==
  ASSUME NEW n \in Nat, NEW x \in Counter
  PROVE  /\ Lag(n % M, x) \in Counter
         /\ x = (n - Lag(n % M, x)) % M
<1> USE Sizes
<1> DEFINE c == n % M
<1>1. c \in Int /\ x \in Int /\ x \in 0..(M - 1)
  BY DivMod DEF Counter
<1>2. Lag(c, x) \in Counter
  <2> HIDE DEF c
  <2>1. c - x \in Int
    BY <1>1
  <2>2. QED
    BY <2>1, DivMod DEF Lag, Counter
<1>3. (n - Lag(c, x)) % M = (n - (c - x)) % M
  <2> HIDE DEF c
  <2>1. c - x \in Int /\ n \in Int
    BY <1>1
  <2>2. QED
    BY <2>1, ModInSum DEF Lag
<1>4. (n - (c - x)) % M = ((n + x) - c) % M
  <2> HIDE DEF c
  <2>1. n - (c - x) = (n + x) - c
    BY <1>1
  <2>2. QED
    BY <2>1
<1>5. ((n + x) - c) % M = ((n + x) - n) % M
  <2>1. n + x \in Int /\ n \in Int
    BY <1>1
  <2>2. QED
    BY <2>1, ModInSum
<1>6. (n + x) - n = x
  BY <1>1
<1>7. x % M = x
  BY <1>1, SmallMod
<1>8. QED
  BY <1>2, <1>3, <1>4, <1>5, <1>6, <1>7

(* The counter goes on: all older values are further behind. *)
LEMMA LagAdvances ==
  ASSUME NEW n \in Nat, NEW h \in Nat, NEW x \in Counter, Lag(n % M, x) + h < M
  PROVE  Lag((n + h) % M, x) = Lag(n % M, x) + h
<1> USE Sizes
<1> DEFINE L == Lag(n % M, x)
<1>1. L \in Counter /\ x = (n - L) % M
  BY LagValue
<1>2. L \in Nat /\ L + h \in 0..(M - 1)
  BY <1>1 DEF Counter
<1> HIDE DEF L
<1>3. (n + h) % M \in Int
  BY DivMod
<1> DEFINE c == (n + h) % M
<1>4. (c - x) % M = (c - (n - L)) % M
  <2>1. c \in Int /\ n - L \in Int
    BY <1>2, <1>3
  <2> HIDE DEF c
  <2>2. QED
    BY <1>1, <2>1, ModInSum
<1>5. (c - (n - L)) % M = ((L - n) + c) % M
  <2>0. c \in Int
    BY <1>3
  <2> HIDE DEF c
  <2>1. c - (n - L) = (L - n) + c
    BY <1>2, <2>0
  <2>2. QED
    BY <2>1
<1>6. ((L - n) + c) % M = ((L - n) + (n + h)) % M
  <2>1. L - n \in Int /\ n + h \in Int
    BY <1>2
  <2>2. QED
    BY <2>1, ModInSum
<1>7. (L - n) + (n + h) = L + h
  BY <1>2
<1>8. (L + h) % M = L + h
  BY <1>2, SmallMod
<1>9. QED
  BY <1>4, <1>5, <1>6, <1>7, <1>8 DEF Lag, L

LEMMA LagOfLatest ==
  ASSUME NEW n \in Nat
  PROVE  n % M \in Counter /\ Lag(n % M, n % M) = 0
<1> USE Sizes
<1>1. n % M \in 0..(M - 1)
  BY DivMod
<1>2. (n % M) - (n % M) = 0
  BY <1>1
<1>3. 0 % M = 0
  BY SmallMod
<1>4. QED
  BY <1>1, <1>2, <1>3 DEF Lag, Counter

(* What kfifo_put and kfifo_get find, in the numbers they stand for. *)
LEMMA CounterDifference ==
  ASSUME NEW m \in Nat, NEW n \in Nat, NEW x \in Counter,
         n - Lag(n % M, x) - m \in 0..(M - 1)
  PROVE  (x - (m % M)) % M = n - Lag(n % M, x) - m
<1> USE Sizes
<1> DEFINE L == Lag(n % M, x)
<1>1. L \in Nat /\ x = (n - L) % M
  BY LagValue DEF Counter
<1> HIDE DEF L
<1>2. x \in Int /\ n - L - m \in 0..(M - 1)
  BY DEF Counter, L
<1>3. (x - (m % M)) % M = (x - m) % M
  <2>1. m \in Int
    OBVIOUS
  <2>2. QED
    BY <1>2, <2>1, ModInSum
<1>4. (x - m) % M = (-m + x) % M
  <2>1. x - m = -m + x
    BY <1>2
  <2>2. QED
    BY <2>1
<1>5. (-m + x) % M = (-m + (n - L)) % M
  <2>1. -m \in Int /\ n - L \in Int
    BY <1>1
  <2>2. QED
    BY <1>1, <2>1, ModInSum
<1>6. -m + (n - L) = n - L - m
  BY <1>1
<1>7. (n - L - m) % M = n - L - m
  BY <1>2, SmallMod
<1>8. QED
  BY <1>3, <1>4, <1>5, <1>6, <1>7 DEF L

(* The slots of a transfer are those of its bytes in the stream. *)
LEMMA SlotOfByte ==
  ASSUME NEW n \in Nat, NEW len \in 0..Size, NEW j \in 0..(len - 1)
  PROVE  /\ Slot(n % M, len, j) = (n + j) % Size
         /\ Slot(n % M, len, j) \in Slots
<1> USE Sizes
<1> DEFINE off == (n % M) % Size
           l == Min({len, Size - off})
<1>1. off = n % Size /\ off \in 0..(Size - 1)
  <2>1. n \in Int
    OBVIOUS
  <2>2. off = n % Size
    BY <2>1, ModOfMod
  <2>3. n % Size \in 0..(Size - 1)
    BY <2>1, DivMod
  <2>4. QED
    BY <2>2, <2>3
<1>2. (n + j) % Size = (j + off) % Size
  <2>0. j \in Int /\ n \in Int
    OBVIOUS
  <2>1. (j + (n % Size)) % Size = (j + n) % Size
    BY <2>0, ModInSum
  <2>2. j + n = n + j
    OBVIOUS
  <2>3. QED
    BY <1>1, <2>1, <2>2
<1>3. Slot(n % M, len, j) = IF j < l THEN off + j ELSE j - l
  BY DEF Slot
<1> HIDE DEF off
<1>4. l = IF len <= Size - off THEN len ELSE Size - off
  BY <1>1, MinOfTwo
<1> HIDE DEF l
<1>5. CASE j < l
  <2>1. off + j \in 0..(Size - 1) /\ off + j = j + off
    BY <1>1, <1>4, <1>5
  <2>2. (j + off) % Size = off + j
    BY <2>1, SmallMod
  <2>3. QED
    BY <1>2, <1>3, <1>5, <2>1, <2>2 DEF Slots
<1>6. CASE ~(j < l)
  <2>1. l = Size - off /\ j - l \in 0..(Size - 1) /\ j + off = (j - l) + Size * 1
    BY <1>1, <1>4, <1>6
  <2>2. ((j - l) + Size * 1) % Size = (j - l) % Size
    <3>1. j - l \in Int /\ 1 \in Int
      BY <2>1
    <3>2. QED
      BY <3>1, ModPlusMultiple
  <2>3. (j - l) % Size = j - l
    BY <2>1, SmallMod
  <2>4. QED
    BY <1>2, <1>3, <1>6, <2>1, <2>2, <2>3 DEF Slots
<1>7. QED
  BY <1>5, <1>6

(* A store reaches memory. *)
LEMMA NewerAfterFlush ==
  ASSUME NEW c \in Counter, NEW mem \in Counter, NEW stores \in Seq(Counter),
         stores # <<>>, Newer(c, mem, stores)
  PROVE  /\ Head(stores) \in Counter /\ Tail(stores) \in Seq(Counter)
         /\ Newer(c, Head(stores), Tail(stores))
         /\ Lag(c, Head(stores)) <= Lag(c, mem)
<1>1. /\ Head(stores) = stores[1] /\ Len(stores) \in Nat \ {0}
      /\ Tail(stores) \in Seq(Counter) /\ Len(Tail(stores)) = Len(stores) - 1
      /\ \A v \in 1..(Len(stores) - 1) : Tail(stores)[v] = stores[v + 1]
      /\ \A v \in 1..Len(stores) : stores[v] \in Counter
  OBVIOUS
<1>2. Newer(c, Head(stores), Tail(stores))
  <2>1. \A v \in 1..(Len(stores) - 1) : v + 1 \in 1..Len(stores) /\ 1 <= v + 1
    BY <1>1
  <2>2. \A v, j \in 1..(Len(stores) - 1) : v <= j => v + 1 <= j + 1
    BY <1>1
  <2>3. 1 \in 1..Len(stores)
    BY <1>1
  <2>4. \A v \in 1..(Len(stores) - 1) : Lag(c, Tail(stores)[v]) <= Lag(c, Head(stores))
    BY <1>1, <2>1, <2>3 DEF Newer
  <2>5. \A v, j \in 1..(Len(stores) - 1) :
           v <= j => Lag(c, Tail(stores)[j]) <= Lag(c, Tail(stores)[v])
    BY <1>1, <2>1, <2>2 DEF Newer
  <2>6. QED
    BY <1>1, <2>4, <2>5 DEF Newer
<1>3. QED
  BY <1>1, <1>2 DEF Newer

(* A counter is published. *)
LEMMA NewerAfterStore ==
  ASSUME NEW n \in Nat, NEW h \in Nat, NEW mem \in Counter, NEW stores \in Seq(Counter),
         Newer(n % M, mem, stores), Lag(n % M, mem) + h < M
  PROVE  /\ Newer((n + h) % M, mem, stores)
         /\ Newer((n + h) % M, mem, Append(stores, (n + h) % M))
<1> USE Sizes
<1> DEFINE c == n % M
           d == (n + h) % M
<1>1. \A x \in Counter : Lag(c, x) \in Nat
  <2>1. c \in Counter
    BY LagOfLatest
  <2> HIDE DEF c
  <2>2. QED
    BY <2>1, LagTyped
<1>2. \A v \in 1..Len(stores) : stores[v] \in Counter /\ Lag(c, stores[v]) + h < M
  BY <1>1 DEF Newer
<1>3. /\ Lag(d, mem) = Lag(c, mem) + h
      /\ \A v \in 1..Len(stores) : Lag(d, stores[v]) = Lag(c, stores[v]) + h
  BY <1>2, LagAdvances
<1>4. d \in Counter /\ Lag(d, d) = 0
  <2>1. n + h \in Nat
    OBVIOUS
  <2>2. QED
    BY <2>1, LagOfLatest
<1>5. Newer(c, mem, stores)
  OBVIOUS
<1> HIDE DEF c, d
<1>6. /\ \A v \in 1..Len(stores) : Lag(c, stores[v]) \in Nat
      /\ Lag(c, mem) \in Nat
  BY <1>1, <1>2
<1>7. Newer(d, mem, stores)
  <2>1. \A v \in 1..Len(stores) : Lag(d, stores[v]) <= Lag(d, mem)
    BY <1>3, <1>5, <1>6 DEF Newer
  <2>2. ASSUME NEW v \in 1..Len(stores), NEW j \in 1..Len(stores), v <= j
        PROVE  Lag(d, stores[j]) <= Lag(d, stores[v])
    <3>1. Lag(c, stores[j]) <= Lag(c, stores[v])
      BY <1>5, <2>2 DEF Newer
    <3>2. QED
      BY <1>3, <1>6, <3>1
  <2>3. QED
    BY <2>1, <2>2 DEF Newer
<1> DEFINE all == Append(stores, d)
<1>8. /\ Len(all) = Len(stores) + 1 /\ Len(stores) \in Nat
      /\ all[Len(stores) + 1] = d
      /\ \A v \in 1..Len(stores) : all[v] = stores[v]
  BY <1>4
<1> HIDE DEF all
<1>9. \A v \in 1..Len(all) : v \in 1..Len(stores) \/ v = Len(stores) + 1
  BY <1>8
<1>10. Newer(d, mem, all)
  <2>1. ASSUME NEW v \in 1..Len(all)
        PROVE  Lag(d, all[v]) <= Lag(d, mem)
    <3>1. CASE v \in 1..Len(stores)
      BY <1>7, <1>8, <3>1 DEF Newer
    <3>2. CASE v = Len(stores) + 1
      BY <1>3, <1>4, <1>6, <1>8, <3>2
    <3>3. QED
      BY <1>9, <3>1, <3>2
  <2>2. ASSUME NEW v \in 1..Len(all), NEW j \in 1..Len(all), v <= j
        PROVE  Lag(d, all[j]) <= Lag(d, all[v])
    <3>1. CASE j = Len(stores) + 1
      <4>1. Lag(d, all[j]) = 0
        BY <1>4, <1>8, <3>1
      <4>2. CASE v \in 1..Len(stores)
        <5>1. Lag(d, all[v]) = Lag(c, stores[v]) + h /\ Lag(c, stores[v]) \in Nat
          BY <1>3, <1>6, <1>8, <4>2
        <5>2. QED
          BY <4>1, <5>1
      <4>3. CASE v = Len(stores) + 1
        BY <3>1, <4>1, <4>3
      <4>4. QED
        BY <1>9, <4>2, <4>3
    <3>2. CASE j \in 1..Len(stores)
      <4>1. v \in 1..Len(stores)
        BY <1>8, <2>2, <3>2
      <4>2. QED
        BY <1>7, <1>8, <2>2, <3>2, <4>1 DEF Newer
    <3>3. QED
      BY <1>9, <3>1, <3>2
  <2>3. QED
    BY <2>1, <2>2 DEF Newer
<1>11. QED
  BY <1>7, <1>10 DEF all, d

-----------------------------------------------------------------------------
(* What a call finds it may put or get. *)
LEMMA RoomAndAvailable ==
  ASSUME RingInv
  PROVE  /\ Count \in 0..Size
         /\ Lag(in, inMem) \in 0..Count /\ Lag(out, outMem) \in 0..(Size - Count)
         /\ Room = Size - Count - Lag(out, outMem)
         /\ Available = Count - Lag(in, inMem)
<1> USE Sizes
<1> DEFINE L == Lag(in, inMem)
           E == Lag(out, outMem)
<1>1. /\ sent \in Nat /\ received \in Nat /\ plen \in Nat /\ glen \in Nat
      /\ inMem \in Counter /\ outMem \in Counter
      /\ in = sent % M /\ out = received % M
      /\ glen + L <= sent - received /\ plen + (sent - received) + E <= Size
      /\ received <= sent
  BY DEF RingInv, TypeOK, Counters, Count
<1>2. L \in Nat /\ E \in Nat /\ outMem = (received - E) % M
  <2>1. L \in Counter /\ E \in Counter /\ outMem = (received - E) % M
    BY <1>1, LagValue
  <2>2. QED
    BY <2>1 DEF Counter
<1> HIDE DEF L, E
<1>3. Available = sent - L - received
  <2>1. sent - L - received \in 0..(M - 1)
    BY <1>1, <1>2
  <2>2. QED
    BY <1>1, <2>1, CounterDifference DEF Available, L
<1>4. Room = Size - (sent - received) - E
  <2> DEFINE a == Size - (sent % M)
  <2>1. a \in Int /\ sent \in Int /\ received - E \in Int
    <3>1. sent % M \in Int
      BY <1>1, DivMod
    <3>2. QED
      BY <1>1, <1>2, <3>1
  <2>2. Room = (a + outMem) % M
    BY <1>1 DEF Room
  <2>3. (a + ((received - E) % M)) % M = (a + (received - E)) % M
    <3> HIDE DEF a
    <3>1. QED
      BY <2>1, ModInSum
  <2>4. a + (received - E) = (Size + received - E) - (sent % M)
    <3>1. sent % M \in Int
      BY <1>1, DivMod
    <3>2. QED
      BY <1>1, <1>2, <3>1
  <2>5. ((Size + received - E) - (sent % M)) % M = ((Size + received - E) - sent) % M
    <3>1. Size + received - E \in Int
      BY <1>1, <1>2
    <3>2. QED
      BY <2>1, <3>1, ModInSum
  <2>6. /\ (Size + received - E) - sent = Size - (sent - received) - E
        /\ Size - (sent - received) - E \in 0..(M - 1)
    BY <1>1, <1>2
  <2>7. (Size - (sent - received) - E) % M = Size - (sent - received) - E
    BY <2>6, SmallMod
  <2> HIDE DEF a
  <2>8. QED
    BY <1>2, <2>2, <2>3, <2>4, <2>5, <2>6, <2>7
<1>5. QED
  BY <1>1, <1>2, <1>3, <1>4 DEF Count, L, E

-----------------------------------------------------------------------------
(* The steps of the producer. *)
LEMMA PutStartKeeps ==
  ASSUME RingInv, NEW want \in 1..MaxWant, PutStart(want)
  PROVE  RingInv'
<1> USE Sizes
<1>1. /\ ppc = "idle" /\ ppc' = "copy" /\ sent + want <= MaxBytes
      /\ plen' = Min({want, Room}) /\ ptodo' = 0..(plen' - 1)
      /\ UNCHANGED <<buf, inVars, outVars, sent, getVars>>
  BY DEF PutStart
<1>2. plen = 0 /\ ptodo = {}
  BY <1>1 DEF RingInv, Calls
<1>3. /\ Room = Size - Count - Lag(out, outMem)
      /\ Room \in 0..Size
  BY RoomAndAvailable
<1>4. plen' \in 0..Size /\ plen' <= Room /\ plen' <= want
  <2>1. plen' = IF want <= Room THEN want ELSE Room
    BY <1>1, <1>3, MinOfTwo
  <2>2. QED
    BY <1>3, <2>1
<1>5. TypeOK'
  BY <1>1, <1>4 DEF RingInv, TypeOK, inVars, outVars, getVars
<1>6. Lags'
  BY <1>1 DEF RingInv, Lags, Newer, Lag, inVars, outVars
<1>7. Counters'
  <2>1. /\ in' = in /\ out' = out /\ inMem' = inMem /\ outMem' = outMem
        /\ sent' = sent /\ received' = received /\ glen' = glen
    BY <1>1 DEF inVars, outVars, getVars
  <2>2. Count' = Count /\ Lag(in, inMem)' = Lag(in, inMem)
        /\ Lag(out, outMem)' = Lag(out, outMem)
    BY <2>1 DEF Count, Lag
  <2>3. plen' + Count + Lag(out, outMem) <= Size
    <3>1. Count \in Int /\ Lag(out, outMem) \in Int
      BY RoomAndAvailable
    <3>2. QED
      BY <1>3, <1>4, <3>1
  <2>4. sent + plen' <= MaxBytes
    BY <1>1, <1>4 DEF RingInv, TypeOK
  <2>5. QED
    BY <2>1, <2>2, <2>3, <2>4 DEF RingInv, Counters
<1>8. Calls'
  BY <1>1 DEF RingInv, Calls, getVars
<1>9. Written'
  <2> SUFFICES ASSUME NEW p \in received'..(sent' + plen' - 1), p - sent' \notin ptodo'
               PROVE  buf'[p % Size] = p + 1
    BY DEF Written
  <2>1. received' = received /\ sent' = sent /\ buf' = buf
        /\ sent \in Nat /\ received \in Nat
    BY <1>1 DEF getVars, RingInv, TypeOK
  <2>2. p \in received..(sent + plen - 1) /\ p - sent \notin ptodo
    BY <1>1, <1>2, <1>4, <2>1
  <2>3. QED
    BY <2>1, <2>2 DEF RingInv, Written
<1>10. InOrder'
  BY <1>1 DEF RingInv, InOrder, getVars
<1>11. QED
  BY <1>5, <1>6, <1>7, <1>8, <1>9, <1>10 DEF RingInv

LEMMA PutByteKeeps ==
  ASSUME RingInv, PutByte
  PROVE  RingInv'
<1> USE Sizes
<1>1. PICK j \in ptodo :
        /\ ppc = "copy"
        /\ buf' = [buf EXCEPT ![Slot(in, plen, j)] = sent + j + 1]
        /\ ptodo' = ptodo \ {j}
        /\ UNCHANGED <<inVars, outVars, ppc, plen, sent, getVars>>
  BY DEF PutByte
<1>2. /\ in = sent % M /\ sent \in Nat /\ plen \in 0..Size /\ received \in Nat
      /\ ptodo \subseteq 0..(plen - 1) /\ buf \in [Slots -> 0..MaxBytes]
      /\ sent + plen <= MaxBytes /\ received <= sent
  BY DEF RingInv, TypeOK, Counters
<1>3. /\ Slot(in, plen, j) = (sent + j) % Size /\ Slot(in, plen, j) \in Slots
      /\ j \in 0..(plen - 1)
  <2>1. j \in 0..(plen - 1)
    BY <1>2
  <2>2. Slot(sent % M, plen, j) = (sent + j) % Size /\ Slot(sent % M, plen, j) \in Slots
    BY <1>2, <2>1, SlotOfByte
  <2>3. QED
    BY <1>2, <2>1, <2>2
<1>4. sent + plen - received <= Size
  BY <1>2, RoomAndAvailable DEF RingInv, Counters, Count
<1>5. TypeOK'
  BY <1>1, <1>2, <1>3 DEF RingInv, TypeOK, inVars, outVars, getVars
<1>6. Lags'
  BY <1>1 DEF RingInv, Lags, Newer, Lag, inVars, outVars
<1>7. Counters' /\ Calls'
  BY <1>1 DEF RingInv, Counters, Calls, Count, Lag, inVars, outVars, getVars
<1>8. Written'
  <2> SUFFICES ASSUME NEW p \in received..(sent + plen - 1), p - sent \notin ptodo \ {j}
               PROVE  buf'[p % Size] = p + 1
    BY <1>1 DEF Written, getVars
  <2>1. p \in Nat /\ p \in Int /\ p % Size \in Slots
    <3>1. p \in Nat /\ p \in Int
      BY <1>2
    <3>2. p % Size \in 0..(Size - 1)
      BY <3>1, DivMod
    <3>3. QED
      BY <3>1, <3>2 DEF Slots
  <2>2. CASE p = sent + j
    BY <1>1, <1>2, <1>3, <2>2
  <2>3. CASE p # sent + j
    <3>1. p - sent \notin ptodo
      BY <1>2, <2>3
    <3>2. p % Size # (sent + j) % Size
      <4>1. /\ sent + j \in Int /\ p \in Int
            /\ p - (sent + j) < Size /\ (sent + j) - p < Size
        BY <1>2, <1>3, <1>4
      <4>2. CASE p < sent + j
        BY <4>1, <4>2, ModApart
      <4>3. CASE sent + j < p
        BY <4>1, <4>3, ModApart
      <4>4. QED
        BY <2>3, <4>1, <4>2, <4>3
    <3>3. buf'[p % Size] = buf[p % Size]
      BY <1>1, <1>2, <1>3, <2>1, <3>2
    <3>4. QED
      BY <3>1, <3>3 DEF RingInv, Written
  <2>4. QED
    BY <2>2, <2>3
<1>9. InOrder'
  BY <1>1 DEF RingInv, InOrder, getVars
<1>10. QED
  BY <1>5, <1>6, <1>7, <1>8, <1>9 DEF RingInv

LEMMA PutPublishKeeps ==
  ASSUME RingInv, PutPublish
  PROVE  RingInv'
<1> USE Sizes
<1>1. /\ ppc' = "idle" /\ ptodo = {} /\ plen' = 0 /\ ptodo' = {}
      /\ in' = (in + plen) % M /\ sent' = sent + plen
      /\ inStores' = IF plen = 0 THEN inStores ELSE Append(inStores, in')
      /\ inMem' = inMem /\ buf' = buf
      /\ UNCHANGED <<outVars, getVars>>
  BY DEF PutPublish, Copied
<1>2. /\ sent \in Nat /\ plen \in 0..Size /\ received \in Nat /\ in = sent % M
      /\ inMem \in Counter /\ inStores \in Seq(Counter) /\ sent + plen <= MaxBytes
      /\ received <= sent /\ glen \in Nat
  BY DEF RingInv, TypeOK, Counters
<1>3. in' = (sent + plen) % M /\ in' \in Counter
  <2>1. sent \in Int /\ plen \in Int /\ plen + sent = sent + plen /\ sent + plen \in Nat
    BY <1>2
  <2>2. in' = (plen + (sent % M)) % M
    <3>1. sent % M \in Int
      BY <2>1, DivMod
    <3>2. in + plen = plen + (sent % M)
      BY <1>2, <3>1
    <3>3. QED
      BY <1>1, <3>2
  <2>3. (plen + (sent % M)) % M = (plen + sent) % M
    BY <2>1, ModInSum
  <2>4. (sent + plen) % M \in Counter
    BY <2>1, LagOfLatest
  <2>5. QED
    BY <2>1, <2>2, <2>3, <2>4
<1>4. /\ Lag(in, inMem) + plen < M /\ Lag(in, inMem) \in Nat
      /\ Count + plen <= Size
  <2>1. /\ Count \in 0..Size /\ Lag(in, inMem) \in 0..Count
        /\ Lag(out, outMem) \in 0..(Size - Count)
    BY RoomAndAvailable
  <2>2. plen + Count + Lag(out, outMem) <= Size
    BY DEF RingInv, Counters
  <2>3. QED
    <3> HIDE DEF Count, Lag
    <3>1. QED
      BY <1>2, <2>1, <2>2, Sizes
<1>5. TypeOK'
  <2>1. inStores' \in Seq(Counter)
    BY <1>1, <1>2, <1>3
  <2>2. sent' \in 0..MaxBytes /\ received \in 0..sent'
    BY <1>1, <1>2
  <2>3. QED
    BY <1>1, <1>3, <2>1, <2>2 DEF RingInv, TypeOK, outVars, getVars
<1>6. Newer(in, inMem, inStores)
  BY DEF RingInv, Lags
<1>7. Newer(in', inMem', inStores') /\ Lag(in', inMem') = Lag(in, inMem) + plen
  <2>1. plen \in Nat /\ Newer(sent % M, inMem, inStores) /\ Lag(sent % M, inMem) + plen < M
    BY <1>2, <1>4, <1>6
  <2>2. /\ Newer((sent + plen) % M, inMem, inStores)
        /\ Newer((sent + plen) % M, inMem, Append(inStores, (sent + plen) % M))
    BY <1>2, <2>1, NewerAfterStore
  <2>3. Lag((sent + plen) % M, inMem) = Lag(sent % M, inMem) + plen
    BY <1>2, <2>1, LagAdvances
  <2>4. QED
    BY <1>1, <1>2, <1>3, <2>2, <2>3
<1>8. Lags'
  <2>1. Newer(out, outMem, outStores)'
    BY <1>1 DEF RingInv, Lags, Newer, Lag, outVars
  <2>2. Newer(in, inMem, inStores)'
    BY <1>7 DEF Newer, Lag
  <2>3. QED
    BY <2>1, <2>2 DEF Lags
<1>9. Counters'
  <2>1. Count' = Count + plen /\ Count \in Int
    BY <1>1, <1>2 DEF Count, getVars
  <2>2. Lag(in, inMem)' = Lag(in, inMem) + plen
    BY <1>7 DEF Lag
  <2>3. Lag(out, outMem)' = Lag(out, outMem) /\ Lag(out, outMem) \in Int
    BY <1>1, RoomAndAvailable DEF Lag, outVars
  <2>4. glen' = glen /\ received' = received /\ out' = out
    BY <1>1 DEF getVars, outVars
  <2>5. in' = sent' % M /\ out' = received' % M
    BY <1>1, <1>3, <2>4 DEF RingInv, Counters
  <2>6. glen' + Lag(in, inMem)' <= Count'
    BY <1>2, <1>4, <2>1, <2>2, <2>4 DEF RingInv, Counters
  <2>7. plen' + Count' + Lag(out, outMem)' <= Size
    BY <1>1, <1>2, <2>1, <2>3 DEF RingInv, Counters
  <2>8. sent' + plen' <= MaxBytes
    BY <1>1, <1>2
  <2>9. QED
    BY <2>5, <2>6, <2>7, <2>8 DEF Counters
<1>10. Calls'
  BY <1>1 DEF RingInv, Calls, getVars
<1>11. Written'
  <2>1. sent' + plen' - 1 = sent + plen - 1 /\ received' = received
    BY <1>1, <1>2 DEF getVars
  <2>2. QED
    BY <1>1, <2>1 DEF RingInv, Written
<1>12. InOrder'
  BY <1>1 DEF RingInv, InOrder, getVars
<1>13. QED
  BY <1>5, <1>8, <1>9, <1>10, <1>11, <1>12 DEF RingInv

LEMMA FlushInKeeps ==
  ASSUME RingInv, FlushIn
  PROVE  RingInv'
<1>1. /\ inStores # <<>> /\ inMem' = Head(inStores) /\ inStores' = Tail(inStores)
      /\ UNCHANGED <<buf, in, outVars, putVars, getVars>>
  BY DEF FlushIn
<1>2. /\ inMem' \in Counter /\ inStores' \in Seq(Counter)
      /\ Newer(in, inMem', inStores')
      /\ Lag(in, inMem') <= Lag(in, inMem)
  BY <1>1, NewerAfterFlush DEF RingInv, TypeOK, Lags
<1>3. TypeOK'
  BY <1>1, <1>2 DEF RingInv, TypeOK, outVars, putVars, getVars
<1>4. Lags'
  BY <1>1, <1>2 DEF RingInv, Lags, Newer, Lag, outVars
<1>5. Counters'
  <2>1. Lag(in, inMem') \in Nat /\ Lag(in, inMem) \in Nat
    BY <1>2, LagTyped DEF RingInv, TypeOK
  <2>2. UNCHANGED <<in, out, outMem, sent, received, plen, glen>>
    BY <1>1 DEF outVars, putVars, getVars
  <2>3. Lag(in, inMem)' <= Lag(in, inMem) /\ Lag(in, inMem)' \in Int
    BY <1>2, <2>1, <2>2 DEF Lag
  <2>4. glen' + Lag(in, inMem)' <= Count'
    BY <2>1, <2>2, <2>3, Sizes DEF RingInv, Counters, TypeOK, Count
  <2>5. QED
    BY <2>2, <2>4 DEF RingInv, Counters, Count, Lag
<1>6. Calls' /\ Written' /\ InOrder'
  BY <1>1 DEF RingInv, Calls, Written, InOrder, putVars, getVars
<1>7. QED
  BY <1>3, <1>4, <1>5, <1>6 DEF RingInv

-----------------------------------------------------------------------------
(* The steps of the consumer. *)
LEMMA GetStartKeeps ==
  ASSUME RingInv, NEW want \in 1..MaxWant, GetStart(want)
  PROVE  RingInv'
<1> USE Sizes
<1>1. /\ gpc = "idle" /\ gpc' = "copy"
      /\ glen' = Min({want, Available}) /\ gtodo' = 0..(glen' - 1)
      /\ dest' = [j \in 0..(glen' - 1) |-> 0]
      /\ UNCHANGED <<buf, inVars, outVars, putVars, received>>
  BY DEF GetStart
<1>2. /\ Available = Count - Lag(in, inMem) /\ Available \in 0..Size
      /\ Count \in Int /\ Lag(in, inMem) \in Int
  BY RoomAndAvailable
<1>3. glen' \in 0..Size /\ glen' <= Available
  <2>1. glen' = IF want <= Available THEN want ELSE Available
    BY <1>1, <1>2, MinOfTwo
  <2>2. QED
    BY <1>2, <2>1
<1>4. TypeOK'
  BY <1>1, <1>3 DEF RingInv, TypeOK, inVars, outVars, putVars
<1>5. Lags'
  BY <1>1 DEF RingInv, Lags, Newer, Lag, inVars, outVars
<1>6. Counters'
  <2>1. UNCHANGED <<in, inMem, out, outMem, sent, received, plen>>
    BY <1>1 DEF inVars, outVars, putVars
  <2>2. glen' + Lag(in, inMem) <= Count
    BY <1>2, <1>3
  <2>3. QED
    BY <2>1, <2>2 DEF RingInv, Counters, Count, Lag
<1>7. Calls'
  BY <1>1 DEF RingInv, Calls, putVars
<1>8. Written'
  BY <1>1 DEF RingInv, Written, putVars
<1>9. InOrder'
  BY <1>1 DEF InOrder
<1>10. QED
  BY <1>4, <1>5, <1>6, <1>7, <1>8, <1>9 DEF RingInv

LEMMA GetByteKeeps ==
  ASSUME RingInv, GetByte
  PROVE  RingInv'
<1> USE Sizes
<1>1. PICK j \in gtodo :
        /\ gpc = "copy"
        /\ dest' = [dest EXCEPT ![j] = buf[Slot(out, glen, j)]]
        /\ gtodo' = gtodo \ {j}
        /\ UNCHANGED <<buf, inVars, outVars, putVars, gpc, glen, received>>
  BY DEF GetByte
<1>2. /\ out = received % M /\ received \in Nat /\ sent \in Nat /\ glen \in 0..Size
      /\ plen \in Nat /\ ptodo \subseteq 0..(plen - 1)
      /\ gtodo \subseteq 0..(glen - 1) /\ DOMAIN dest = 0..(glen - 1)
  BY DEF RingInv, TypeOK, Counters, Calls
<1>3. Slot(out, glen, j) = (received + j) % Size /\ j \in 0..(glen - 1)
  BY <1>2, SlotOfByte
<1>4. buf[(received + j) % Size] = received + j + 1
  <2>1. glen <= sent - received
    BY <1>2, RoomAndAvailable DEF RingInv, Counters, Count
  <2>2. /\ received + j \in received..(sent + plen - 1)
        /\ (received + j) - sent \notin ptodo
    BY <1>2, <1>3, <2>1
  <2>3. QED
    BY <2>2 DEF RingInv, Written
<1>5. TypeOK'
  BY <1>1 DEF RingInv, TypeOK, inVars, outVars, putVars
<1>6. Lags'
  BY <1>1 DEF RingInv, Lags, Newer, Lag, inVars, outVars
<1>7. Counters' /\ Written'
  BY <1>1 DEF RingInv, Counters, Written, Count, Lag, inVars, outVars, putVars
<1>8. Calls'
  BY <1>1, <1>2 DEF RingInv, Calls, putVars
<1>9. InOrder'
  <2> SUFFICES ASSUME NEW h \in (0..(glen - 1)) \ (gtodo \ {j})
               PROVE  dest'[h] = received + h + 1
    BY <1>1 DEF InOrder
  <2>1. CASE h = j
    BY <1>1, <1>2, <1>3, <1>4, <2>1
  <2>2. CASE h # j
    BY <1>1, <1>2, <2>2 DEF RingInv, InOrder
  <2>3. QED
    BY <2>1, <2>2
<1>10. QED
  BY <1>5, <1>6, <1>7, <1>8, <1>9 DEF RingInv

LEMMA GetPublishKeeps ==
  ASSUME RingInv, GetPublish
  PROVE  RingInv'
<1> USE Sizes
<1>1. /\ gpc' = "idle" /\ gtodo = {} /\ glen' = 0 /\ gtodo' = gtodo /\ dest' = <<>>
      /\ out' = (out + glen) % M /\ received' = received + glen
      /\ outStores' = IF glen = 0 THEN outStores ELSE Append(outStores, out')
      /\ outMem' = outMem /\ buf' = buf
      /\ UNCHANGED <<inVars, putVars>>
  BY DEF GetPublish
<1>2. /\ sent \in Nat /\ plen \in Nat /\ received \in Nat /\ glen \in 0..Size
      /\ glen \in Nat /\ out = received % M
      /\ outMem \in Counter /\ outStores \in Seq(Counter)
      /\ plen + Count + Lag(out, outMem) <= Size /\ glen + Lag(in, inMem) <= Count
  BY DEF RingInv, TypeOK, Counters
<1>3. out' = (received + glen) % M /\ out' \in Counter
  <2>1. received \in Int /\ glen \in Int /\ glen + received = received + glen
        /\ received + glen \in Nat
    BY <1>2
  <2>2. out' = (glen + (received % M)) % M
    <3>1. received % M \in Int
      BY <2>1, DivMod
    <3>2. out + glen = glen + (received % M)
      BY <1>2, <3>1
    <3>3. QED
      BY <1>1, <3>2
  <2>3. (glen + (received % M)) % M = (glen + received) % M
    BY <2>1, ModInSum
  <2>4. (received + glen) % M \in Counter
    BY <2>1, LagOfLatest
  <2>5. QED
    BY <2>1, <2>2, <2>3, <2>4
<1>4. /\ Lag(out, outMem) \in Nat /\ Lag(in, inMem) \in Nat /\ glen <= Count
      /\ Count \in Nat /\ Lag(out, outMem) + glen < M
  <2>1. /\ Count \in 0..Size /\ Lag(in, inMem) \in 0..Count
        /\ Lag(out, outMem) \in 0..(Size - Count)
    BY RoomAndAvailable
  <2>2. QED
    BY <1>2, <2>1
<1>5. TypeOK'
  <2>1. outStores' \in Seq(Counter)
    BY <1>1, <1>2, <1>3
  <2>2. received' \in 0..sent
    BY <1>1, <1>2, <1>4 DEF Count
  <2>3. QED
    BY <1>1, <1>3, <2>1, <2>2 DEF RingInv, TypeOK, inVars, putVars
<1>6. Newer(out', outMem', outStores') /\ Lag(out', outMem') = Lag(out, outMem) + glen
  <2>1. /\ Newer(received % M, outMem, outStores)
        /\ Lag(received % M, outMem) + glen < M
    BY <1>2, <1>4 DEF RingInv, Lags
  <2>2. /\ Newer((received + glen) % M, outMem, outStores)
        /\ Newer((received + glen) % M, outMem, Append(outStores, (received + glen) % M))
    BY <1>2, <2>1, NewerAfterStore
  <2>3. Lag((received + glen) % M, outMem) = Lag(received % M, outMem) + glen
    BY <1>2, <2>1, LagAdvances
  <2>4. QED
    BY <1>1, <1>2, <1>3, <2>2, <2>3
<1>7. Lags'
  <2>1. Newer(in, inMem, inStores)'
    BY <1>1 DEF RingInv, Lags, Newer, Lag, inVars
  <2>2. Newer(out, outMem, outStores)'
    BY <1>6 DEF Newer, Lag
  <2>3. QED
    BY <2>1, <2>2 DEF Lags
<1>8. Counters'
  <2>1. UNCHANGED <<in, inMem, sent, plen>>
    BY <1>1 DEF inVars, putVars
  <2>2. Count' = Count - glen
    BY <1>1, <1>2, <2>1 DEF Count
  <2>3. Lag(out, outMem)' = Lag(out, outMem) + glen /\ Lag(in, inMem)' = Lag(in, inMem)
    BY <1>6, <2>1 DEF Lag
  <2>4. out' = received' % M /\ in' = sent' % M
    BY <1>1, <1>3, <2>1 DEF RingInv, Counters
  <2>5. glen' + Lag(in, inMem)' <= Count'
    BY <1>1, <1>2, <1>4, <2>2, <2>3
  <2>6. plen' + Count' + Lag(out, outMem)' <= Size
    BY <1>2, <1>4, <2>1, <2>2, <2>3
  <2>7. QED
    BY <2>1, <2>4, <2>5, <2>6 DEF RingInv, Counters
<1>9. Calls'
  <2>1. DOMAIN dest' = 0..(glen' - 1)
    BY <1>1
  <2>2. QED
    BY <1>1, <2>1 DEF RingInv, Calls, putVars
<1>10. Written'
  <2>1. UNCHANGED <<sent, plen, ptodo, buf>>
    BY <1>1 DEF putVars
  <2>2. received'..(sent + plen - 1) \subseteq received..(sent + plen - 1)
    BY <1>1, <1>2
  <2>3. QED
    BY <2>1, <2>2 DEF RingInv, Written
<1>11. InOrder'
  BY <1>1 DEF InOrder
<1>12. QED
  BY <1>5, <1>7, <1>8, <1>9, <1>10, <1>11 DEF RingInv

LEMMA FlushOutKeeps ==
  ASSUME RingInv, FlushOut
  PROVE  RingInv'
<1>1. /\ outStores # <<>> /\ outMem' = Head(outStores) /\ outStores' = Tail(outStores)
      /\ UNCHANGED <<buf, inVars, out, putVars, getVars>>
  BY DEF FlushOut
<1>2. /\ outMem' \in Counter /\ outStores' \in Seq(Counter)
      /\ Newer(out, outMem', outStores')
      /\ Lag(out, outMem') <= Lag(out, outMem)
  BY <1>1, NewerAfterFlush DEF RingInv, TypeOK, Lags
<1>3. TypeOK'
  BY <1>1, <1>2 DEF RingInv, TypeOK, inVars, putVars, getVars
<1>4. Lags'
  BY <1>1, <1>2 DEF RingInv, Lags, Newer, Lag, inVars
<1>5. Counters'
  <2>1. Lag(out, outMem') \in Nat /\ Lag(out, outMem) \in Nat
    BY <1>2, LagTyped DEF RingInv, TypeOK
  <2>2. UNCHANGED <<in, inMem, out, sent, received, plen, glen>>
    BY <1>1 DEF inVars, putVars, getVars
  <2>3. Lag(out, outMem)' <= Lag(out, outMem) /\ Lag(out, outMem)' \in Nat
    BY <1>2, <2>1, <2>2 DEF Lag
  <2>4. plen' + Count' + Lag(out, outMem)' <= Size
    BY <2>1, <2>2, <2>3, Sizes DEF RingInv, Counters, TypeOK, Count
  <2>5. QED
    BY <2>2, <2>4 DEF RingInv, Counters, Count, Lag
<1>6. Calls' /\ Written' /\ InOrder'
  BY <1>1 DEF RingInv, Calls, Written, InOrder, putVars, getVars
<1>7. QED
  BY <1>3, <1>4, <1>5, <1>6 DEF RingInv

-----------------------------------------------------------------------------
(* RingInv is inductive. *)
LEMMA RingInvInit == Init => RingInv
<1> SUFFICES ASSUME Init PROVE RingInv
  OBVIOUS
<1> USE Sizes DEF Init
<1>1. 0 % M = 0 /\ 0 \in Counter
  BY SmallMod DEF Counter
<1>2. Lag(in, inMem) = 0 /\ Lag(out, outMem) = 0
  BY <1>1 DEF Lag
<1>3. TypeOK
  BY <1>1 DEF TypeOK
<1>4. Lags
  BY DEF Lags, Newer
<1>5. Counters
  BY <1>1, <1>2 DEF Counters, Count
<1>6. Calls /\ Written /\ InOrder
  BY DEF Calls, Written, InOrder
<1>7. QED
  BY <1>3, <1>4, <1>5, <1>6 DEF RingInv

LEMMA RingInvStep == RingInv /\ [Next]_vars => RingInv'
<1> SUFFICES ASSUME RingInv, [Next]_vars PROVE RingInv'
  OBVIOUS
<1>1. CASE UNCHANGED vars
  BY <1>1 DEF RingInv, TypeOK, Lags, Newer, Counters, Calls, Written, InOrder, Lag, Count,
              vars, inVars, outVars, putVars, getVars
<1>2. QED
  BY <1>1, PutStartKeeps, PutByteKeeps, PutPublishKeeps, FlushInKeeps,
     GetStartKeeps, GetByteKeeps, GetPublishKeeps, FlushOutKeeps DEF Next

(* Under any interleaving of producer and consumer, with stores that come  *)
(* late: counters, transfers and buffer agree with the numbers of bytes.   *)
THEOREM RingInvariant == Spec => []RingInv
<1>1. QED
  BY RingInvInit, RingInvStep, PTL DEF Spec

(* The counters are as far apart as the numbers of bytes. *)
LEMMA CountersApart ==
  ASSUME RingInv
  PROVE  (in - out) % M = Count
<1> USE Sizes
<1>1. /\ sent \in Nat /\ received \in Nat /\ in = sent % M /\ out = received % M
      /\ in \in Counter
  BY DEF RingInv, TypeOK, Counters
<1>2. Count \in 0..Size
  BY RoomAndAvailable
<1>3. Lag(sent % M, in) = 0
  BY <1>1, LagOfLatest
<1>4. sent - Lag(sent % M, in) - received \in 0..(M - 1)
  <2>1. sent - 0 - received = Count /\ Count \in 0..(M - 1)
    BY <1>1, <1>2 DEF Count
  <2>2. QED
    BY <1>3, <2>1
<1>5. (in - (received % M)) % M = sent - Lag(sent % M, in) - received
  BY <1>1, <1>4, CounterDifference
<1>6. QED
  BY <1>1, <1>3, <1>5 DEF Count

(* The bytes in the ring are never more than it holds, what the producer   *)
(* sees is never less than what is there, and what the consumer sees never *)
(* more: the counters agree with the numbers of bytes when they have       *)
(* wrapped, and when stores are late.                                      *)
THEOREM OccupancyIsBounded == Spec => []Occupancy
<1>1. RingInv => Occupancy
  <2> SUFFICES ASSUME RingInv PROVE Occupancy
    OBVIOUS
  <2> USE Sizes
  <2> DEFINE L == Lag(in, inMem)
             E == Lag(out, outMem)
  <2>1. /\ sent \in Nat /\ received \in Nat /\ in = sent % M /\ out = received % M
        /\ in \in Counter /\ inMem \in Counter /\ outMem \in Counter
    BY DEF RingInv, TypeOK, Counters
  <2>2. Count \in 0..Size /\ L \in 0..Count /\ E \in 0..(Size - Count)
    BY RoomAndAvailable
  <2>3. (inMem - out) % M = Count - L
    BY RoomAndAvailable DEF Available
  <2>4. (in - out) % M = Count
    BY CountersApart
  <2>5. (in - outMem) % M = Count + E
    <3>1. outMem = (received - E) % M
      BY <2>1, LagValue
    <3>2. E \in Nat /\ Count + E \in 0..(M - 1) /\ Count = sent - received
      BY <2>2 DEF Count
    <3> HIDE DEF E
    <3>3. /\ received - E \in Int /\ in \in Int /\ sent \in Int
      BY <2>1, <3>2 DEF Counter
    <3>4. (in - ((received - E) % M)) % M = (in - (received - E)) % M
      BY <3>3, ModInSum
    <3>5. in - (received - E) = (E - received) + (sent % M)
      BY <2>1, <3>2, <3>3
    <3>6. ((E - received) + (sent % M)) % M = ((E - received) + sent) % M
      <4>1. E - received \in Int
        BY <2>1, <3>2
      <4>2. QED
        BY <3>3, <4>1, ModInSum
    <3>7. (E - received) + sent = Count + E
      BY <2>1, <3>2
    <3>8. (Count + E) % M = Count + E
      BY <3>2, SmallMod
    <3>9. QED
      BY <3>1, <3>4, <3>5, <3>6, <3>7, <3>8
  <2>6. TypeOK
    BY DEF RingInv
  <2>7. /\ Count + E \in Count..Size /\ Count - L \in 0..Count
        /\ Count <= Size
    BY <2>2
  <2> HIDE DEF L, E
  <2>8. QED
    BY <2>3, <2>4, <2>5, <2>6, <2>7 DEF Occupancy, Count
<1>2. QED
  BY <1>1, RingInvariant, PTL

(* No slot is written by kfifo_put while kfifo_get has it to read.         *)
THEOREM SlotsNeverShared == Spec => []NoSlotRace
<1>1. RingInv => NoSlotRace
  <2> SUFFICES ASSUME RingInv, NEW j \in ptodo, NEW h \in gtodo
               PROVE  Slot(in, plen, j) # Slot(out, glen, h)
    BY DEF NoSlotRace
  <2> USE Sizes
  <2>1. /\ sent \in Nat /\ received \in Nat /\ in = sent % M /\ out = received % M
        /\ plen \in 0..Size /\ glen \in 0..Size
        /\ j \in 0..(plen - 1) /\ h \in 0..(glen - 1)
    BY DEF RingInv, TypeOK, Counters
  <2>2. /\ Slot(in, plen, j) = (sent + j) % Size
        /\ Slot(out, glen, h) = (received + h) % Size
    BY <2>1, SlotOfByte
  <2>3. /\ sent - received + plen <= Size /\ glen <= sent - received
    BY <2>1, RoomAndAvailable DEF RingInv, Counters, Count
  <2>4. /\ received + h \in Int /\ sent + j \in Int
        /\ received + h < sent + j /\ (sent + j) - (received + h) < Size
    BY <2>1, <2>3
  <2>5. QED
    BY <2>2, <2>4, ModApart
<1>2. QED
  BY <1>1, RingInvariant, PTL

(* What kfifo_get has copied is the stream, in order.                      *)
THEOREM BytesInOrder == Spec => []InOrder
<1>1. RingInv => InOrder
  BY DEF RingInv
<1>2. QED
  BY <1>1, RingInvariant, PTL

-----------------------------------------------------------------------------
(* The refinement of BoundedFifo. *)

(* What the abstract queue holds, as ImplementsFifo maps it. *)
Held == [v \in 1..((in - out) % M) |-> buf[(out + v - 1) % Size]]

(* It is what has been put and not got, in order. *)
HoldsTheStream ==
  /\ Held = [v \in 1..Count |-> received + v]
  /\ Count \in 0..Size /\ received \in Nat /\ sent = received + Count

LEMMA HeldIsTheStream == RingInv => HoldsTheStream
<1> SUFFICES ASSUME RingInv PROVE HoldsTheStream
  OBVIOUS
<1> USE Sizes
<1>1. /\ sent \in Nat /\ received \in Nat /\ out = received % M
      /\ plen \in Nat /\ ptodo \subseteq 0..(plen - 1)
  BY DEF RingInv, TypeOK, Counters
<1>2. Count \in 0..Size /\ sent = received + Count
  BY <1>1, RoomAndAvailable DEF Count
<1>3. ASSUME NEW v \in 1..Count
      PROVE  buf[(out + v - 1) % Size] = received + v
  <2>1. v \in Nat /\ v <= Count /\ v - 1 \in Int /\ received \in Int /\ 1 <= v
    BY <1>1, <1>2
  <2>2. received % M \in Int
    BY <2>1, DivMod
  <2>3. (out + v) - 1 = (v - 1) + (received % M)
    BY <1>1, <2>1, <2>2
  <2>4. ((v - 1) + (received % M)) % Size = ((v - 1) + ((received % M) % Size)) % Size
    <3> DEFINE x == received % M
    <3>1. x \in Int
      BY <2>2
    <3> HIDE DEF x
    <3>2. ((v - 1) + (x % Size)) % Size = ((v - 1) + x) % Size
      BY <2>1, <3>1, ModInSum
    <3>3. QED
      BY <3>2 DEF x
  <2>5. (received % M) % Size = received % Size
    BY <2>1, ModOfMod
  <2>6. ((v - 1) + (received % Size)) % Size = ((v - 1) + received) % Size
    BY <2>1, ModInSum
  <2>7. (out + v - 1) % Size = ((v - 1) + received) % Size
    <3>1. (out + v - 1) % Size = ((v - 1) + (received % M)) % Size
      <4> DEFINE x == (v - 1) + (received % M)
      <4>1. x = out + v - 1
        BY <1>1, <2>1, <2>2
      <4> HIDE DEF x
      <4>2. (out + v - 1) % Size = x % Size
        BY <4>1
      <4>3. QED
        BY <4>2 DEF x
    <3>2. QED
      BY <2>4, <2>5, <2>6, <3>1
  <2> DEFINE p == (v - 1) + received
  <2>8. /\ p \in received..(sent + plen - 1) /\ p + 1 = received + v
        /\ p - sent \notin 0..(plen - 1)
    BY <1>1, <1>2, <2>1
  <2> HIDE DEF p
  <2>9. buf[p % Size] = p + 1
    BY <1>1, <2>8 DEF RingInv, Written
  <2>10. QED
    BY <2>7, <2>8, <2>9 DEF p
<1>4. (in - out) % M = Count
  BY CountersApart
<1>5. Held = [v \in 1..Count |-> buf[(out + v - 1) % Size]]
  BY <1>4 DEF Held
<1>6. [v \in 1..Count |-> buf[(out + v - 1) % Size]] = [v \in 1..Count |-> received + v]
  BY <1>3
<1>7. QED
  BY <1>1, <1>2, <1>5, <1>6 DEF HoldsTheStream

(* The numbers from r + 1 on, n of them, then h more. *)
LEMMA StreamAppended ==
  ASSUME NEW r \in Nat, NEW n \in Nat, NEW h \in Nat
  PROVE  [v \in 1..(n + h) |-> r + v] = [v \in 1..n |-> r + v] \o [v \in 1..h |-> (r + n) + v]
<1> DEFINE s == [v \in 1..n |-> r + v]
           t == [v \in 1..h |-> (r + n) + v]
           u == [v \in 1..(n + h) |-> r + v]
<1>1. /\ s \in Seq(Nat) /\ t \in Seq(Nat) /\ u \in Seq(Nat)
      /\ Len(s) = n /\ Len(t) = h /\ Len(u) = n + h
  OBVIOUS
<1>2. /\ \A v \in 1..n : s[v] = r + v
      /\ \A v \in 1..h : t[v] = (r + n) + v
      /\ \A v \in 1..(n + h) : u[v] = r + v
  OBVIOUS
<1> HIDE DEF s, t, u
<1>3. /\ s \o t \in Seq(Nat) /\ Len(s \o t) = n + h
      /\ \A v \in 1..(n + h) : (s \o t)[v] = IF v <= n THEN s[v] ELSE t[v - n]
  BY <1>1, ConcatProperties
<1>4. ASSUME NEW v \in 1..(n + h)
      PROVE  u[v] = (s \o t)[v]
  <2>1. CASE v <= n
    BY <1>2, <1>3, <2>1
  <2>2. CASE ~(v <= n)
    <3>1. v - n \in 1..h /\ (r + n) + (v - n) = r + v
      BY <2>2
    <3>2. QED
      BY <1>2, <1>3, <2>2, <3>1
  <2>3. QED
    BY <2>1, <2>2
<1>5. u = s \o t
  BY <1>1, <1>3, <1>4, SeqEqual
<1>6. QED
  BY <1>5 DEF s, t, u

(* The numbers from r + 1 on, n of them, without the first h. *)
LEMMA StreamConsumed ==
  ASSUME NEW r \in Nat, NEW n \in Nat, NEW h \in 0..n
  PROVE  [v \in 1..(n - h) |-> (r + h) + v] = SubSeq([v \in 1..n |-> r + v], h + 1, n)
<1> DEFINE s == [v \in 1..n |-> r + v]
           t == [v \in 1..(n - h) |-> (r + h) + v]
<1>1. /\ s \in Seq(Nat) /\ t \in Seq(Nat) /\ Len(s) = n /\ Len(t) = n - h
      /\ \A v \in 1..n : s[v] = r + v
      /\ \A v \in 1..(n - h) : t[v] = (r + h) + v
  OBVIOUS
<1> HIDE DEF s, t
<1>2. /\ SubSeq(s, h + 1, n) \in Seq(Nat) /\ Len(SubSeq(s, h + 1, n)) = n - h
      /\ \A v \in 1..(n - h) : SubSeq(s, h + 1, n)[v] = s[h + v]
  BY <1>1, SubSeqProperties
<1>3. \A v \in 1..(n - h) : h + v \in 1..n /\ r + (h + v) = (r + h) + v
  OBVIOUS
<1>4. t = SubSeq(s, h + 1, n)
  BY <1>1, <1>2, <1>3
<1>5. QED
  BY <1>4 DEF s, t

LEMMA PutRefined ==
  ASSUME RingInv, HoldsTheStream, HoldsTheStream', PutPublish, plen # 0
  PROVE  Fifo!Put(plen)
<1>1. /\ received' = received /\ sent' = sent + plen /\ plen \in Nat /\ sent \in Nat
  BY DEF PutPublish, getVars, RingInv, TypeOK
<1>2. /\ Held = [v \in 1..Count |-> received + v]
      /\ Count \in 0..Size /\ received \in Nat /\ sent = received + Count
  BY DEF HoldsTheStream
<1>3. Held' = [v \in 1..Count |-> received + v]'
  BY DEF HoldsTheStream
<1>4. Count' = Count + plen /\ Count \in Nat
  BY <1>1, <1>2 DEF Count
<1>5. Held' = [v \in 1..(Count + plen) |-> received + v]
  BY <1>1, <1>3, <1>4
<1>6. [v \in 1..(Count + plen) |-> received + v]
        = [v \in 1..Count |-> received + v] \o [v \in 1..plen |-> (received + Count) + v]
  BY <1>1, <1>2, <1>4, StreamAppended
<1>7. Held' = Held \o [v \in 1..plen |-> sent + v]
  BY <1>2, <1>5, <1>6
<1>8. Len(Held) + plen <= Size
  <2>1. Len(Held) = Count
    BY <1>2, <1>4
  <2>2. Count + plen <= Size
    BY <1>1, <1>4, RoomAndAvailable, Sizes DEF RingInv, Counters
  <2>3. QED
    BY <2>1, <2>2
<1>9. QED
  BY <1>1, <1>7, <1>8 DEF Fifo!Put, Held

LEMMA GetRefined ==
  ASSUME RingInv, HoldsTheStream, HoldsTheStream', GetPublish, glen # 0
  PROVE  Fifo!Get(glen)
<1>1. /\ received' = received + glen /\ sent' = sent /\ glen \in Nat /\ sent \in Nat
  BY DEF GetPublish, putVars, RingInv, TypeOK
<1>2. /\ Held = [v \in 1..Count |-> received + v]
      /\ Count \in 0..Size /\ received \in Nat /\ sent = received + Count
  BY DEF HoldsTheStream
<1>3. Held' = [v \in 1..Count |-> received + v]'
  BY DEF HoldsTheStream
<1>4. /\ Count' = Count - glen /\ Count \in Nat /\ glen \in 0..Count
  <2>1. glen <= Count
    BY <1>1, <1>2, RoomAndAvailable DEF RingInv, Counters
  <2>2. QED
    BY <1>1, <1>2, <2>1 DEF Count
<1>5. Held' = [v \in 1..(Count - glen) |-> (received + glen) + v]
  BY <1>1, <1>3, <1>4
<1>6. [v \in 1..(Count - glen) |-> (received + glen) + v]
        = SubSeq([v \in 1..Count |-> received + v], glen + 1, Count)
  BY <1>2, <1>4, StreamConsumed
<1>7. Len(Held) = Count
  BY <1>2, <1>4
<1>8. Held' = SubSeq(Held, glen + 1, Len(Held)) /\ glen <= Len(Held)
  BY <1>2, <1>4, <1>5, <1>6, <1>7
<1>9. QED
  BY <1>1, <1>8 DEF Fifo!Get, Held

(* No other step shows in the queue: neither the copying of bytes, nor the *)
(* stores that become visible.                                             *)
LEMMA OthersStutter ==
  ASSUME HoldsTheStream, HoldsTheStream', UNCHANGED <<sent, received>>
  PROVE  UNCHANGED Fifo!fifoVars
<1>1. Held = [v \in 1..Count |-> received + v]
  BY DEF HoldsTheStream
<1>2. Held' = [v \in 1..Count |-> received + v]'
  BY DEF HoldsTheStream
<1>3. Count' = Count
  BY DEF Count
<1>4. Held' = Held
  BY <1>1, <1>2, <1>3
<1>5. QED
  BY <1>4 DEF Fifo!fifoVars, Held

(* kfifo_put and kfifo_get without a lock are a bounded first-in first-out *)
(* queue: each call takes effect at the step that publishes its counter.   *)
THEOREM RefinesBoundedFifo == Spec => ImplementsFifo
<1>1. Init => Fifo!FifoInit
  <2> SUFFICES ASSUME Init PROVE Fifo!FifoInit
    OBVIOUS
  <2>1. RingInv
    BY RingInvInit
  <2>2. Count = 0 /\ sent = 0
    BY DEF Init, Count
  <2>3. Held = [v \in 1..0 |-> received + v]
    BY <2>1, <2>2, HeldIsTheStream DEF HoldsTheStream
  <2>4. Held = <<>>
    BY <2>3
  <2>5. QED
    BY <2>2, <2>4 DEF Fifo!FifoInit, Held
<1>2. RingInv /\ HoldsTheStream /\ HoldsTheStream' /\ [Next]_vars => [Fifo!FifoNext]_(Fifo!fifoVars)
  <2> SUFFICES ASSUME RingInv, HoldsTheStream, HoldsTheStream', [Next]_vars
               PROVE  Fifo!FifoNext \/ UNCHANGED Fifo!fifoVars
    OBVIOUS
  <2>1. plen \in 0..Size /\ glen \in 0..Size
    BY DEF RingInv, TypeOK
  <2>2. CASE PutPublish
    <3>1. CASE plen = 0
      <4>1. UNCHANGED <<sent, received>>
        BY <2>2, <3>1 DEF PutPublish, getVars, RingInv, TypeOK
      <4>2. QED
        BY <4>1, OthersStutter
    <3>2. CASE plen # 0
      <4>1. PICK h \in 1..Size : h = plen
        BY <2>1, <3>2, Sizes
      <4>2. Fifo!Put(h)
        BY <2>2, <3>2, <4>1, PutRefined DEF Fifo!Put
      <4>3. QED
        BY <4>1, <4>2 DEF Fifo!FifoNext
    <3>3. QED
      BY <3>1, <3>2
  <2>3. CASE GetPublish
    <3>1. CASE glen = 0
      <4>1. UNCHANGED <<sent, received>>
        BY <2>3, <3>1 DEF GetPublish, putVars, RingInv, TypeOK
      <4>2. QED
        BY <4>1, OthersStutter
    <3>2. CASE glen # 0
      <4>1. PICK h \in 1..Size : h = glen
        BY <2>1, <3>2, Sizes
      <4>2. Fifo!Get(h)
        BY <2>3, <3>2, <4>1, GetRefined DEF Fifo!Get
      <4>3. QED
        BY <4>1, <4>2 DEF Fifo!FifoNext
    <3>3. QED
      BY <3>1, <3>2
  <2>4. CASE \/ \E want \in 1..MaxWant : PutStart(want) \/ GetStart(want)
             \/ PutByte \/ FlushIn \/ GetByte \/ FlushOut \/ UNCHANGED vars
    <3>1. UNCHANGED <<sent, received>>
      BY <2>4 DEF PutStart, GetStart, PutByte, FlushIn, GetByte, FlushOut,
                  vars, putVars, getVars
    <3>2. QED
      BY <3>1, OthersStutter
  <2>5. QED
    BY <2>2, <2>3, <2>4 DEF Next
<1>3. QED
  BY <1>1, <1>2, HeldIsTheStream, RingInvariant, PTL DEF Spec, ImplementsFifo, Fifo!FifoSpec

-----------------------------------------------------------------------------
(* The size of the ring: nextPowerOfTwo on the bits of an int, which has   *)
(* no more than 32.                                                        *)
Weight == [b \in 0..Sign |-> 2^b]

LEMMA ExponentsAre ==
  ASSUME W <= 32
  PROVE  /\ W \in Widths /\ Sign \in Widths /\ Sign \in Nat /\ Sign = W - 1
         /\ \A b \in 0..Sign : b \in Widths /\ b + 1 \in Widths /\ b \in Nat
BY WidthAssumption DEF Sign, Widths

(* The number of a set of bits is a sum. *)
LEMMA NumberIs ==
  ASSUME NEW X \in SUBSET (0..Sign)
  PROVE  Number(X) = Sum(Weight, X)
<1> DEFINE Taken(s) == CHOOSE x \in s : TRUE
           Added(g, s) == IF s = {} THEN 0 ELSE 2^Taken(s) + g[s \ {Taken(s)}]
<1>1. ASSUME NEW g
      PROVE  [s \in SUBSET X |-> Step(Weight, g, s)] = [s \in SUBSET X |-> Added(g, s)]
  <2>1. ASSUME NEW s \in SUBSET X, s # {}
        PROVE  Weight[Chosen(s)] = 2^Taken(s)
    BY <2>1 DEF Weight, Chosen
  <2>2. QED
    BY <2>1 DEF Step, Chosen
<1>2. Number(X) = (CHOOSE g : g = [s \in SUBSET X |-> Added(g, s)])[X]
  BY DEF Number, MapThenSumSet, MapThenFoldSet
<1>3. \A g : (g = [s \in SUBSET X |-> Step(Weight, g, s)])
                <=> (g = [s \in SUBSET X |-> Added(g, s)])
  BY <1>1
<1>4. (CHOOSE g : g = [s \in SUBSET X |-> Added(g, s)]) = Iter(Weight, X)
  <2> HIDE DEF Added
  <2>1. QED
    BY <1>3, Zenon DEF Iter
<1>5. QED
  BY <1>2, <1>4, SumIs

LEMMA NumberTakes ==
  ASSUME W <= 32, NEW X \in SUBSET (0..Sign)
  PROVE  /\ Number(X) \in Nat
         /\ X = {} => Number(X) = 0
         /\ \A b \in X : Number(X) = Pow(b) + Number(X \ {b})
<1>1. \A b \in 0..Sign : Weight[b] = Pow(b) /\ Weight[b] \in Nat
  BY ExponentsAre, Powers DEF Weight, Pow
<1>2. IsFiniteSet(0..Sign)
  BY ExponentsAre, FS_Interval
<1>3. /\ Sum(Weight, X) \in Nat
      /\ \A b \in X : Sum(Weight, X) = Weight[b] + Sum(Weight, X \ {b})
  <2>1. PICK f, S : f = Weight /\ S = 0..Sign
    OBVIOUS
  <2>2. IsFiniteSet(S)
    BY <1>2, <2>1
  <2>3. \A b \in S : f[b] \in Nat
    BY <1>1, <2>1
  <2>4. \A Y \in SUBSET S : Sum(f, Y) \in Nat
    BY <2>2, <2>3, SumType
  <2>5. ASSUME NEW Y \in SUBSET S, NEW b \in Y
        PROVE  Sum(f, Y) = f[b] + Sum(f, Y \ {b})
    BY <2>2, <2>3, SumTake
  <2>6. QED
    BY <2>1, <2>4, <2>5
<1>4. Number(X) = Sum(Weight, X) /\ \A b \in X : Number(X \ {b}) = Sum(Weight, X \ {b})
  BY NumberIs
<1>5. X = {} => Number(X) = 0
  BY <1>4, SumEmpty
<1>6. QED
  BY <1>1, <1>3, <1>4, <1>5

(* A bit of a number is the remainder of a quotient. *)
LEMMA BitIs ==
  ASSUME NEW n, NEW b \in 0..Sign
  PROVE  b \in Bits(n) <=> (n \div Pow(b)) % 2 = 1
BY DEF Bits, Pow

LEMMA DivTwice ==
  ASSUME NEW n \in Nat, NEW p \in Nat \ {0}
  PROVE  /\ n \div (2 * p) = (n \div p) \div 2
         /\ n % (2 * p) = (n % p) + p * ((n \div p) % 2)
<1>1. n \div (2 * p) = (n \div p) \div 2
  OBVIOUS
<1>2. n % (2 * p) = (n % p) + p * ((n \div p) % 2)
  <2>1. PICK q \in Int, r \in 0..(p - 1) : q = n \div p /\ r = n % p /\ n = p * q + r
    BY DivMod
  <2>2. PICK h \in Int, t \in 0..1 : t = q % 2 /\ q = 2 * h + t
    BY DivMod
  <2>3. n = (2 * p) * h + (r + p * t)
    <3>1. p * q = p * (2 * h) + p * t
      BY <2>2
    <3>2. QED
      BY <2>1, <3>1
  <2>4. 2 * p \in Nat \ {0} /\ r + p * t \in 0..(2 * p - 1)
    <3>1. t = 0 \/ t = 1
      OBVIOUS
    <3>2. QED
      BY <3>1
  <2>5. ((2 * p) * h + (r + p * t)) % (2 * p) = r + p * t
    BY <2>4, Remainder
  <2>6. QED
    BY <2>1, <2>2, <2>3, <2>5
<1>3. QED
  BY <1>1, <1>2

(* The bits below bit e make up the remainder modulo 2^e. *)
LEMMA LowBits ==
  ASSUME W <= 32, NEW n \in Nat, NEW e \in 0..W
  PROVE  Number(Bits(n) \cap (0..(e - 1))) = n % Pow(e)
<1> DEFINE Low(c) == Bits(n) \cap (0..(c - 1))
           T == {c \in Nat : c \in 0..W => Number(Low(c)) = n % Pow(c)}
<1>1. \A c \in Nat : Low(c) \in SUBSET (0..Sign)
  BY DEF Bits
<1>2. 0 \in T
  <2>1. Low(0) = {}
    OBVIOUS
  <2>2. Number(Low(0)) = 0
    BY <1>1, <2>1, NumberTakes
  <2>3. n % Pow(0) = 0
    BY Powers
  <2>4. QED
    BY <2>2, <2>3
<1>3. ASSUME NEW c \in T
      PROVE  c + 1 \in T
  <2>1. SUFFICES ASSUME c + 1 \in 0..W
                 PROVE  Number(Low(c + 1)) = n % Pow(c + 1)
    OBVIOUS
  <2>2. /\ c \in 0..W /\ c \in 0..Sign /\ c \in Widths /\ c + 1 \in Widths
        /\ c \in Nat /\ c + 1 \in Nat
    BY <2>1, ExponentsAre DEF Widths
  <2>3. PICK p \in Nat \ {0} : p = Pow(c) /\ Pow(c + 1) = 2 * p
    BY <2>2, Powers
  <2>4. PICK r \in Nat : r = n % p /\ Number(Low(c)) = r
    BY <1>3, <2>2, <2>3
  <2>5. n % (2 * p) = r + p * ((n \div p) % 2) /\ (n \div p) % 2 \in {0, 1}
    <3>1. (n \div p) \in Int
      OBVIOUS
    <3>2. (n \div p) % 2 \in {0, 1}
      BY <3>1
    <3>3. QED
      BY <2>4, <3>2, DivTwice
  <2>6. c \in Bits(n) <=> (n \div p) % 2 = 1
    BY <2>2, <2>3, BitIs
  <2>7. CASE c \in Bits(n)
    <3>1. c \in Low(c + 1) /\ Low(c + 1) \ {c} = Low(c)
      BY <2>2, <2>7
    <3>2. Number(Low(c + 1)) = Pow(c) + Number(Low(c))
      <4>1. Number(Low(c + 1)) = Pow(c) + Number(Low(c + 1) \ {c})
        <5>1. Low(c + 1) \in SUBSET (0..Sign)
          BY <1>1, <2>2
        <5> HIDE DEF Low
        <5>2. QED
          BY <3>1, <5>1, NumberTakes
      <4>2. QED
        BY <3>1, <4>1
    <3>3. (n \div p) % 2 = 1
      BY <2>6, <2>7
    <3>4. n % (2 * p) = r + p
      BY <2>5, <3>3
    <3> HIDE DEF Low
    <3>5. QED
      BY <2>3, <2>4, <3>2, <3>4
  <2>8. CASE c \notin Bits(n)
    <3>1. Low(c + 1) = Low(c)
      BY <2>2, <2>8
    <3>2. (n \div p) % 2 = 0
      BY <2>5, <2>6, <2>8
    <3>3. n % (2 * p) = r
      BY <2>5, <3>2
    <3> HIDE DEF Low
    <3>4. QED
      BY <2>3, <2>4, <3>1, <3>3
  <2>9. QED
    BY <2>7, <2>8
<1>4. \A c \in Nat : c \in T
  <2> HIDE DEF T
  <2>1. QED
    BY <1>2, <1>3, NatSet
<1>5. e \in T
  BY <1>4, WidthAssumption
<1>6. QED
  BY <1>5

(* 2^e - 1 has the bits below bit e. *)
LEMMA AllOnes ==
  ASSUME W <= 32, NEW e \in 0..W
  PROVE  Bits(Pow(e) - 1) = 0..(e - 1)
<1>1. e \in Widths /\ e \in Nat
  BY ExponentsAre DEF Widths
<1>2. PICK n \in Nat : n = Pow(e) - 1
  BY <1>1, Powers
<1> DEFINE T == {b \in Nat : b <= e => n \div Pow(b) = Pow(e - b) - 1}
<1>3. 0 \in T
  <2>1. e - 0 = e /\ Pow(0) = 1 /\ n \div 1 = n
    BY <1>1, Powers
  <2>2. QED
    BY <1>2, <2>1
<1>4. ASSUME NEW b \in T
      PROVE  b + 1 \in T
  <2>1. ASSUME b + 1 <= e
        PROVE  n \div Pow(b + 1) = Pow(e - (b + 1)) - 1
    <3>1. /\ b \in Widths /\ b + 1 \in Widths /\ e - b \in Widths
          /\ e - (b + 1) \in Widths /\ (e - (b + 1)) + 1 = e - b
      BY <1>1, <2>1 DEF Widths
    <3>2. PICK p \in Nat \ {0}, q \in Nat \ {0} :
            p = Pow(b) /\ q = Pow(e - (b + 1)) /\ Pow(b + 1) = 2 * p /\ Pow(e - b) = 2 * q
      BY <3>1, Powers
    <3>3. n \div p = 2 * q - 1
      BY <1>4, <2>1, <3>1, <3>2
    <3>4. n \div (2 * p) = (2 * q - 1) \div 2
      BY <3>3, DivTwice
    <3>5. (2 * q - 1) \div 2 = q - 1
      OBVIOUS
    <3>6. QED
      BY <3>2, <3>4, <3>5
  <2>2. QED
    BY <2>1
<1>5. \A b \in Nat : b \in T
  <2> HIDE DEF T
  <2>1. QED
    BY <1>3, <1>4, NatSet
<1>6. ASSUME NEW b \in 0..Sign, b < e
      PROVE  b \in Bits(n)
  <2>1. b \in Nat /\ e - b \in Widths /\ (e - b) - 1 \in Widths /\ ((e - b) - 1) + 1 = e - b
    BY <1>1, <1>6 DEF Widths
  <2>2. PICK q \in Nat : Pow(e - b) = 2 * q
    BY <2>1, Powers
  <2>3. n \div Pow(b) = 2 * q - 1
    <3>1. b \in T
      BY <1>5, <2>1
    <3>2. QED
      BY <1>6, <2>1, <2>2, <3>1
  <2>4. (2 * q - 1) % 2 = 1
    OBVIOUS
  <2>5. QED
    BY <2>3, <2>4, BitIs
<1>7. ASSUME NEW b \in 0..Sign, ~(b < e)
      PROVE  b \notin Bits(n)
  <2>1. b \in Widths /\ b \in Nat
    BY <1>7, ExponentsAre
  <2>2. PICK p \in Nat \ {0} : p = Pow(b) /\ n < p
    <3>1. Pow(b) \in Nat \ {0} /\ Pow(e) \in Nat \ {0}
      BY <1>1, <2>1, Powers
    <3>2. CASE b = e
      BY <1>2, <3>1, <3>2
    <3>3. CASE b # e
      <4>1. e < b
        BY <1>1, <1>7, <2>1, <3>3
      <4>2. 2 * Pow(e) <= Pow(b)
        BY <1>1, <2>1, <4>1, PowersGrow
      <4>3. QED
        BY <1>2, <3>1, <4>2
    <3>4. QED
      BY <3>2, <3>3
  <2>3. n \div p = 0
    BY <2>2
  <2>4. QED
    BY <2>2, <2>3, BitIs
<1>8. Bits(n) = 0..(e - 1)
  <2>1. Bits(n) \subseteq 0..Sign /\ 0..(e - 1) \subseteq 0..Sign
    <3>1. Bits(n) \subseteq 0..Sign
      BY DEF Bits
    <3>2. 0..(e - 1) \subseteq 0..Sign
      BY <1>1, WidthAssumption DEF Sign
    <3>3. QED
      BY <3>1, <3>2
  <2>2. \A b \in 0..Sign : b < e <=> b \in 0..(e - 1)
    BY <1>1, ExponentsAre
  <2>3. QED
    BY <1>6, <1>7, <2>1, <2>2
<1>9. QED
  BY <1>2, <1>8

LEMMA NumberOfOnes ==
  ASSUME W <= 32, NEW e \in 0..W
  PROVE  Number(0..(e - 1)) = Pow(e) - 1
<1>1. e \in Widths
  BY ExponentsAre DEF Widths
<1>2. PICK p \in Nat \ {0} : p = Pow(e) /\ p - 1 \in Nat
  BY <1>1, Powers
<1>3. Number(Bits(p - 1) \cap (0..(e - 1))) = (p - 1) % p
  BY <1>2, LowBits
<1>4. (p - 1) % p = p - 1
  BY <1>2
<1>5. Bits(p - 1) \cap (0..(e - 1)) = 0..(e - 1)
  BY <1>2, AllOnes
<1>6. QED
  BY <1>2, <1>3, <1>4, <1>5

(* The fold over the shifts is their succession.                           *)
Places == 1..6

LEMMA GreatestOf ==
  ASSUME NEW s \in SUBSET Places, NEW c \in s, \A b \in s : b <= c
  PROVE  Max(s) = c
<1>1. \A b \in s : b \in Int
  BY DEF Places
<1>2. Max(s) \in s /\ \A b \in s : Max(s) >= b
  BY DEF Max
<1>3. QED
  BY <1>1, <1>2

LEMMA HasGreatest ==
  ASSUME NEW s \in SUBSET Places, s # {}
  PROVE  \E c \in s : \A b \in s : b <= c
<1> DEFINE T == {7 - b : b \in s}
<1>1. T \in SUBSET Nat /\ T # {}
  <2>1. \A b \in s : 7 - b \in Nat
    BY DEF Places
  <2>2. QED
    BY <2>1
<1>2. PICK t \in T : \A u \in T : t <= u
  <2> HIDE DEF T
  <2>1. QED
    BY <1>1, Least
<1>3. PICK c \in s : t = 7 - c
  BY <1>2
<1>4. ASSUME NEW b \in s
      PROVE  b <= c
  <2>1. 7 - c <= 7 - b
    BY <1>2, <1>3
  <2>2. QED
    BY <2>1 DEF Places
<1>5. QED
  BY <1>4

ShiftStep(bits, g, s) ==
  IF s = {} THEN bits ELSE OrShifted(g[s \ {Max(s)}], Shifts[Max(s)])

Or(c, s, bits) == IF c \in s THEN OrShifted(bits, Shifts[c]) ELSE bits

AllOf(s, bits) == Or(6, s, Or(5, s, Or(4, s, Or(3, s, Or(2, s, Or(1, s, bits))))))

LEMMA ShiftsInOrder ==
  ASSUME NEW bits, NEW s \in SUBSET Places, s # {}
  PROVE  AllOf(s, bits) = OrShifted(AllOf(s \ {Max(s)}, bits), Shifts[Max(s)])
<1>1. PICK c \in s : \A b \in s : b <= c
  BY HasGreatest
<1>2. c \in Places /\ Max(s) = c
  BY <1>1, GreatestOf
<1>3. PICK r : r = s \ {c}
  OBVIOUS
<1>4. SUFFICES AllOf(s, bits) = OrShifted(AllOf(r, bits), Shifts[c])
  BY <1>2, <1>3
<1>5. ASSUME NEW b \in Places, NEW x
      PROVE  /\ b < c => Or(b, s, x) = Or(b, r, x)
             /\ b > c => Or(b, s, x) = x /\ Or(b, r, x) = x
             /\ b = c => Or(b, s, x) = OrShifted(x, Shifts[c]) /\ Or(b, r, x) = x
  <2>1. b \in Int /\ c \in Int
    BY <1>2 DEF Places
  <2>2. ASSUME b < c
        PROVE  b \in s <=> b \in r
    BY <1>3, <2>1, <2>2
  <2>3. ASSUME b > c
        PROVE  b \notin s /\ b \notin r
    BY <1>1, <1>3, <2>1, <2>3
  <2>4. c \in s /\ c \notin r
    BY <1>3
  <2>5. QED
    BY <2>2, <2>3, <2>4 DEF Or
<1>6. /\ 1 \in Places /\ 2 \in Places /\ 3 \in Places
      /\ 4 \in Places /\ 5 \in Places /\ 6 \in Places
  BY DEF Places
<1>7. CASE c = 1
  BY <1>5, <1>6, <1>7 DEF AllOf
<1>8. CASE c = 2
  BY <1>5, <1>6, <1>8 DEF AllOf
<1>9. CASE c = 3
  BY <1>5, <1>6, <1>9 DEF AllOf
<1>10. CASE c = 4
  BY <1>5, <1>6, <1>10 DEF AllOf
<1>11. CASE c = 5
  BY <1>5, <1>6, <1>11 DEF AllOf
<1>12. CASE c = 6
  BY <1>5, <1>6, <1>12 DEF AllOf
<1>13. QED
  BY <1>2, <1>7, <1>8, <1>9, <1>10, <1>11, <1>12 DEF Places

Smeared(bits) ==
  OrShifted(OrShifted(OrShifted(OrShifted(OrShifted(OrShifted(bits, 1), 1), 2), 4), 8), 16)

LEMMA FoldIs ==
  ASSUME NEW bits
  PROVE  FoldLeft(OrShifted, bits, Shifts) = Smeared(bits)
<1> DEFINE fold == CHOOSE g : g = [s \in SUBSET Places |-> ShiftStep(bits, g, s)]
<1>1. DOMAIN Shifts = Places
  BY DEF Shifts, Places
<1>2. FoldLeft(OrShifted, bits, Shifts) = fold[Places]
  BY <1>1 DEF FoldLeft, MapThenFoldSet, ShiftStep
<1>3. fold = [s \in SUBSET Places |-> ShiftStep(bits, fold, s)]
  <2> DEFINE g == [s \in SUBSET Places |-> AllOf(s, bits)]
  <2>1. ASSUME NEW s \in SUBSET Places
        PROVE  AllOf(s, bits) = ShiftStep(bits, g, s)
    <3>1. CASE s = {}
      BY <3>1 DEF AllOf, Or, ShiftStep
    <3>2. CASE s # {}
      <4>1. g[s \ {Max(s)}] = AllOf(s \ {Max(s)}, bits)
        OBVIOUS
      <4>2. QED
        BY <3>2, <4>1, ShiftsInOrder DEF ShiftStep
    <3>3. QED
      BY <3>1, <3>2
  <2>2. g = [s \in SUBSET Places |-> ShiftStep(bits, g, s)]
    BY <2>1
  <2>3. QED
    BY <2>2
<1> HIDE DEF fold
<1>4. \A s \in SUBSET Places : fold[s] = ShiftStep(bits, fold, s)
  BY <1>3
<1>5. fold[{}] = bits
  BY <1>4 DEF ShiftStep
<1>6. ASSUME NEW c \in Places
      PROVE  fold[1..c] = OrShifted(fold[1..(c - 1)], Shifts[c])
  <2>1. 1..c \in SUBSET Places /\ c \in 1..c /\ \A b \in 1..c : b <= c
    BY DEF Places
  <2>2. Max(1..c) = c
    BY <2>1, GreatestOf
  <2>3. (1..c) \ {c} = 1..(c - 1) /\ 1..c # {}
    BY <2>1 DEF Places
  <2>4. QED
    BY <1>4, <2>1, <2>2, <2>3 DEF ShiftStep
<1>7. /\ Shifts[1] = 1 /\ Shifts[2] = 1 /\ Shifts[3] = 2
      /\ Shifts[4] = 4 /\ Shifts[5] = 8 /\ Shifts[6] = 16
  BY DEF Shifts
<1>8. fold[1..1] = OrShifted(bits, 1)
  <2>1. 1..(1 - 1) = {} /\ 1 \in Places
    BY DEF Places
  <2>2. QED
    BY <1>5, <1>6, <1>7, <2>1
<1>9. /\ fold[1..2] = OrShifted(fold[1..1], 1)
      /\ fold[1..3] = OrShifted(fold[1..2], 2)
      /\ fold[1..4] = OrShifted(fold[1..3], 4)
      /\ fold[1..5] = OrShifted(fold[1..4], 8)
      /\ fold[1..6] = OrShifted(fold[1..5], 16)
  <2>1. /\ 2 \in Places /\ 3 \in Places /\ 4 \in Places /\ 5 \in Places /\ 6 \in Places
        /\ 2 - 1 = 1 /\ 3 - 1 = 2 /\ 4 - 1 = 3 /\ 5 - 1 = 4 /\ 6 - 1 = 5
    BY DEF Places
  <2>2. QED
    BY <1>6, <1>7, <2>1
<1>10. QED
  BY <1>2, <1>8, <1>9 DEF Smeared, Places

(* The shifts spread the highest bit e to all below it: t places so far.   *)
Top(bits, e, t) == bits \subseteq 0..e /\ \A b \in 0..e : b >= e - t => b \in bits

LEMMA SpreadOnce ==
  ASSUME NEW e \in Nat, e < Sign, NEW t \in Nat, NEW s \in 1..(t + 1),
         NEW bits, Top(bits, e, t)
  PROVE  Top(OrShifted(bits, s), e, t + s)
<1>1. Sign \in Nat /\ Sign \notin bits
  BY WidthAssumption DEF Sign, Top
<1>2. OrShifted(bits, s) \subseteq 0..e
  <2>1. \A b \in 0..Sign : b + s \in bits => b \in 0..e
    BY <1>1 DEF Top
  <2>2. bits \subseteq 0..e
    BY DEF Top
  <2>3. QED
    BY <1>1, <2>1, <2>2 DEF OrShifted
<1>3. ASSUME NEW b \in 0..e, b >= e - (t + s)
      PROVE  b \in OrShifted(bits, s)
  <2>1. CASE b >= e - t
    BY <2>1 DEF Top, OrShifted
  <2>2. CASE ~(b >= e - t)
    <3>1. b + s \in 0..e /\ b + s >= e - t /\ b \in 0..Sign
      BY <1>1, <1>3, <2>2
    <3>2. b + s \in bits
      BY <3>1 DEF Top
    <3>3. QED
      BY <3>1, <3>2 DEF OrShifted
  <2>3. QED
    BY <2>1, <2>2
<1>4. QED
  BY <1>2, <1>3 DEF Top

LEMMA SpreadAll ==
  ASSUME W <= 32, NEW e \in Nat, e < Sign, NEW bits \in SUBSET (0..e), e \in bits
  PROVE  Smeared(bits) = 0..e
<1>1. PICK b1 : b1 = OrShifted(bits, 1)
  OBVIOUS
<1>2. PICK b2 : b2 = OrShifted(b1, 1)
  OBVIOUS
<1>3. PICK b3 : b3 = OrShifted(b2, 2)
  OBVIOUS
<1>4. PICK b4 : b4 = OrShifted(b3, 4)
  OBVIOUS
<1>5. PICK b5 : b5 = OrShifted(b4, 8)
  OBVIOUS
<1>6. PICK b6 : b6 = OrShifted(b5, 16)
  OBVIOUS
<1>7. Smeared(bits) = b6
  BY <1>1, <1>2, <1>3, <1>4, <1>5, <1>6 DEF Smeared
<1>8. Top(bits, e, 0)
  <2>1. \A b \in 0..e : b >= e - 0 => b = e
    OBVIOUS
  <2>2. QED
    BY <2>1 DEF Top
<1>9. Top(b1, e, 0 + 1)
  BY <1>1, <1>8, SpreadOnce
<1>10. Top(b2, e, 1 + 1)
  BY <1>2, <1>9, SpreadOnce
<1>11. Top(b3, e, 2 + 2)
  BY <1>3, <1>10, SpreadOnce
<1>12. Top(b4, e, 4 + 4)
  BY <1>4, <1>11, SpreadOnce
<1>13. Top(b5, e, 8 + 8)
  BY <1>5, <1>12, SpreadOnce
<1>14. Top(b6, e, 16 + 16)
  BY <1>6, <1>13, SpreadOnce
<1>15. \A b \in 0..e : b >= e - (16 + 16)
  BY WidthAssumption DEF Sign
<1>16. b6 \subseteq 0..e
  BY <1>14 DEF Top
<1>17. \A b \in 0..e : b \in b6
  BY <1>14, <1>15 DEF Top
<1>18. QED
  BY <1>7, <1>16, <1>17

LEMMA SpreadNone ==
  Smeared({}) = {}
<1>1. \A s \in Nat : OrShifted({}, s) = {}
  BY DEF OrShifted
<1>2. QED
  BY <1>1 DEF Smeared

(* nextPowerOfTwo of a number between 2^e and 2^(e + 1), and one more.     *)
LEMMA NextPowerIs ==
  ASSUME W <= 32, NEW n \in Nat, NEW e \in 0..(W - 3), Pow(e) <= n, n < Pow(e + 1)
  PROVE  NextPowerOfTwo(n + 1) = Pow(e + 1)
<1>1. /\ e \in Nat /\ e < Sign /\ e \in Widths /\ e + 1 \in Widths /\ W \in Widths
      /\ e + 1 \in 0..W /\ e + 1 < W /\ e \in 0..Sign
  BY WidthAssumption DEF Widths, Sign
<1>2. PICK p \in Nat \ {0}, w \in Nat \ {0} : p = Pow(e) /\ Pow(e + 1) = 2 * p /\ w = Pow(W)
  BY <1>1, Powers
<1>3. e \in Bits(n)
  <2>1. n \div p = 1
    BY <1>2
  <2>2. QED
    BY <1>1, <1>2, <2>1, BitIs
<1>4. Bits(n) \in SUBSET (0..e)
  <2>1. ASSUME NEW b \in 0..Sign, e < b
        PROVE  b \notin Bits(n)
    <3>1. b \in Widths /\ Pow(b) \in Nat \ {0} /\ 2 * Pow(e) <= Pow(b)
      BY <1>1, <2>1, ExponentsAre, Powers, PowersGrow
    <3>2. PICK q \in Nat \ {0} : q = Pow(b) /\ n < q
      BY <1>2, <3>1
    <3>3. n \div q = 0
      BY <3>2
    <3>4. QED
      BY <3>2, <3>3, BitIs
  <2>2. Bits(n) \subseteq 0..Sign
    BY DEF Bits
  <2>3. \A b \in 0..Sign : b \in 0..e \/ e < b
    BY <1>1
  <2>4. QED
    BY <2>1, <2>2, <2>3
<1>5. FoldLeft(OrShifted, Bits(n), Shifts) = 0..e
  <2>1. Smeared(Bits(n)) = 0..e
    BY <1>1, <1>3, <1>4, SpreadAll
  <2>2. QED
    BY <2>1, FoldIs
<1>6. Number(0..e) = 2 * p - 1
  <2>1. Number(0..((e + 1) - 1)) = Pow(e + 1) - 1
    BY <1>1, NumberOfOnes
  <2>2. (e + 1) - 1 = e
    BY <1>1
  <2>3. QED
    BY <1>2, <2>1, <2>2
<1>7. (2 * p - 1) + 1 = 2 * p /\ (2 * p) % w = 2 * p
  <2>1. 2 * Pow(e + 1) <= Pow(W)
    BY <1>1, PowersGrow
  <2>2. 2 * p < w
    BY <1>2, <2>1
  <2>3. QED
    BY <2>2
<1>8. (n + 1) - 1 = n /\ n + 1 # 0
  OBVIOUS
<1>9. NextPowerOfTwo(n + 1) = (Number(FoldLeft(OrShifted, Bits(n), Shifts)) + 1) % Pow(W)
  BY <1>8 DEF NextPowerOfTwo, Pow
<1>10. QED
  BY <1>2, <1>5, <1>6, <1>7, <1>9

LEMMA NextPowerOfOne ==
  ASSUME W <= 32
  PROVE  NextPowerOfTwo(0) = 1 /\ NextPowerOfTwo(1) = 1
<1>1. Bits(0) = {}
  <2>1. ASSUME NEW b \in 0..Sign
        PROVE  b \notin Bits(0)
    <3>1. PICK p \in Nat \ {0} : p = Pow(b)
      BY ExponentsAre, Powers
    <3>2. 0 \div p = 0
      OBVIOUS
    <3>3. QED
      BY <3>1, <3>2, BitIs
  <2>2. Bits(0) \subseteq 0..Sign
    BY DEF Bits
  <2>3. QED
    BY <2>1, <2>2
<1>2. FoldLeft(OrShifted, Bits(0), Shifts) = {}
  BY <1>1, FoldIs, SpreadNone
<1>3. Number({}) = 0
  BY NumberTakes
<1>4. PICK w \in Nat : w = Pow(W) /\ 1 < w
  <2>1. 0 \in Widths /\ W \in Widths /\ 0 < W
    BY WidthAssumption DEF Widths
  <2>2. 2 * Pow(0) <= Pow(W) /\ Pow(0) = 1 /\ Pow(W) \in Nat
    BY <2>1, PowersGrow, Powers
  <2>3. QED
    BY <2>2
<1>5. (0 + 1) % w = 1 /\ 1 - 1 = 0
  BY <1>4
<1>6. NextPowerOfTwo(1) = (Number(FoldLeft(OrShifted, Bits(1 - 1), Shifts)) + 1) % Pow(W)
  BY DEF NextPowerOfTwo, Pow
<1>7. NextPowerOfTwo(1) = 1
  BY <1>2, <1>3, <1>4, <1>5, <1>6
<1>8. QED
  BY <1>7 DEF NextPowerOfTwo

(* nextPowerOfTwo rounds up, to a number that is an int.                   *)
LEMMA SizeIs ==
  ASSUME W <= 32, NEW n \in 0..2^(W - 2)
  PROVE  \E e \in 0..(W - 2) :
           /\ NextPowerOfTwo(n) = Pow(e) /\ n <= Pow(e)
           /\ \A c \in 0..Sign : n <= Pow(c) => Pow(e) <= Pow(c)
<1>1. /\ W - 2 \in Widths /\ 0 \in 0..(W - 2) /\ n \in Nat /\ n <= Pow(W - 2)
      /\ Pow(0) = 1 /\ \A c \in 0..Sign : c \in Widths /\ Pow(c) \in Nat \ {0}
  <2>1. W - 2 \in Widths /\ 0 \in 0..(W - 2)
    BY WidthAssumption DEF Widths
  <2>2. Pow(W - 2) \in Nat /\ n \in 0..Pow(W - 2)
    <3>1. Pow(W - 2) = 2^(W - 2)
      BY DEF Pow
    <3>2. QED
      BY <2>1, <3>1, Powers
  <2>3. \A c \in 0..Sign : c \in Widths /\ Pow(c) \in Nat \ {0}
    BY ExponentsAre, Powers
  <2>4. QED
    BY <2>1, <2>2, <2>3, Powers
<1>2. CASE n = 0 \/ n = 1
  <2>1. NextPowerOfTwo(n) = Pow(0) /\ n <= Pow(0)
    BY <1>1, <1>2, NextPowerOfOne
  <2>2. \A c \in 0..Sign : Pow(0) <= Pow(c)
    BY <1>1
  <2>3. QED
    BY <1>1, <2>1, <2>2
<1>3. CASE ~(n = 0 \/ n = 1)
  <2>1. PICK m \in Nat \ {0} : n = m + 1 /\ m < Pow(W - 2)
    <3>1. n - 1 \in Nat \ {0} /\ n = (n - 1) + 1 /\ n - 1 < Pow(W - 2)
      <4>1. Pow(W - 2) \in Nat
        BY <1>1, Powers
      <4>2. QED
        BY <1>1, <1>3, <4>1
    <3>2. QED
      BY <3>1
  <2>2. PICK e \in 0..((W - 2) - 1) : Pow(e) <= m /\ m < Pow(e + 1)
    BY <1>1, <2>1, HighestBit
  <2>3. /\ e \in 0..(W - 3) /\ e + 1 \in 0..(W - 2) /\ e \in Widths /\ e + 1 \in Widths
        /\ e \in Int
    BY <2>2, WidthAssumption DEF Widths
  <2>4. NextPowerOfTwo(n) = Pow(e + 1)
    BY <2>1, <2>2, <2>3, NextPowerIs
  <2>5. PICK p \in Nat, q \in Nat : p = Pow(e) /\ q = Pow(e + 1) /\ p <= m /\ m < q
    BY <2>2, <2>3, Powers
  <2>6. ASSUME NEW c \in 0..Sign, n <= Pow(c)
        PROVE  Pow(e + 1) <= Pow(c)
    <3>1. PICK r \in Nat : r = Pow(c) /\ m < r
      BY <1>1, <2>1, <2>6
    <3>2. ~(c < e)
      <4>1. ASSUME c < e
            PROVE  2 * r <= p
        BY <1>1, <2>3, <2>5, <3>1, <4>1, PowersGrow
      <4>2. QED
        BY <2>5, <3>1, <4>1
    <3>3. c # e
      BY <2>5, <3>1
    <3>4. CASE c = e + 1
      BY <2>5, <3>4
    <3>5. CASE c # e + 1
      <4>1. e + 1 < c
        BY <2>3, <3>2, <3>3, <3>5
      <4>2. 2 * q <= r
        BY <1>1, <2>3, <2>5, <3>1, <4>1, PowersGrow
      <4>3. QED
        BY <2>5, <3>1, <4>2
    <3>6. QED
      BY <3>4, <3>5
  <2>7. n <= Pow(e + 1)
    BY <2>1, <2>5
  <2>8. QED
    BY <2>3, <2>4, <2>6, <2>7
<1>4. QED
  BY <1>2, <1>3

(* The mask of such a size takes the remainder. *)
LEMMA MaskIs ==
  ASSUME W <= 32, NEW e \in 0..(W - 2), NEW n \in Nat
  PROVE  Masked(n, Pow(e) - 1) = n % Pow(e)
<1>1. e \in 0..W
  BY WidthAssumption
<1>2. Bits(Pow(e) - 1) = 0..(e - 1)
  BY <1>1, AllOnes
<1>3. Number(Bits(n) \cap (0..(e - 1))) = n % Pow(e)
  BY <1>1, LowBits
<1>4. QED
  BY <1>2, <1>3 DEF Masked

(* For every request that nextPowerOfTwo can round up to an int of at most *)
(* 32 bits, the size of the ring is the least power of two that holds it,  *)
(* and masking any counter with the size - 1 is the remainder that the     *)
(* model of kfifo_put and kfifo_get uses.                                  *)
THEOREM SizesRoundedUp ==
  ASSUME W <= 32
  PROVE  Spec => []SizesArePowers
<1>1. ASSUME NEW n \in Requests
      PROVE  /\ IsLeastPower(NextPowerOfTwo(n), n)
             /\ \A c \in Indices : Masked(c, NextPowerOfTwo(n) - 1) = c % NextPowerOfTwo(n)
  <2>1. n \in 0..2^(W - 2) /\ Indices \subseteq Nat
    BY <1>1, KfifoAssumption
  <2>2. PICK e \in 0..(W - 2) :
          /\ NextPowerOfTwo(n) = Pow(e) /\ n <= Pow(e)
          /\ \A c \in 0..Sign : n <= Pow(c) => Pow(e) <= Pow(c)
    BY <2>1, SizeIs
  <2>3. e \in 0..Sign /\ \A c \in 0..Sign : Pow(c) \in Nat
    BY ExponentsAre, Powers, WidthAssumption
  <2>4. PowersOfTwo = {Pow(c) : c \in 0..Sign}
    BY DEF PowersOfTwo, Pow
  <2>5. \A q \in PowersOfTwo : q >= n => q >= Pow(e)
    <3>1. n \in Nat /\ Pow(e) \in Nat
      BY <2>1, <2>3
    <3>2. QED
      BY <2>2, <2>3, <2>4, <3>1
  <2>6. Pow(e) \in PowersOfTwo /\ Pow(e) >= n
    <3>1. n \in Int /\ Pow(e) \in Int
      BY <2>1, <2>3
    <3>2. QED
      BY <2>2, <2>3, <2>4, <3>1
  <2>7. IsLeastPower(Pow(e), n)
    BY <2>5, <2>6 DEF IsLeastPower
  <2>8. \A c \in Indices : Masked(c, Pow(e) - 1) = c % Pow(e)
    BY <2>1, MaskIs
  <2>9. QED
    BY <2>2, <2>7, <2>8
<1>2. SizesArePowers
  BY <1>1 DEF SizesArePowers
<1>3. QED
  BY <1>2, PTL

(* What the theorems above assume of Size and of M, the range of the       *)
(* counters, is so for the counters of the code: of an int's width.        *)
THEOREM SizesDivideRange ==
  ASSUME W <= 32, NEW n \in 0..2^(W - 2)
  PROVE  /\ NextPowerOfTwo(n) \in 1..(2^W - 1)
         /\ 2^W % NextPowerOfTwo(n) = 0
<1>1. PICK e \in 0..(W - 2) : NextPowerOfTwo(n) = Pow(e)
  BY SizeIs
<1>2. e \in Nat /\ e \in Widths /\ W \in Widths /\ W \in Nat /\ e < W
  BY WidthAssumption DEF Widths
<1>3. PICK p \in Nat \ {0}, w \in Nat : p = Pow(e) /\ w = Pow(W) /\ 2 * p <= w
  BY <1>2, Powers, PowersGrow
<1>4. w % p = 0
  <2> DEFINE T == {d \in Nat : e + d \in Widths => \E q \in Nat : Pow(e + d) = p * q}
  <2>1. 0 \in T
    <3>1. Pow(e + 0) = p * 1 /\ 1 \in Nat
      BY <1>2, <1>3
    <3>2. QED
      BY <3>1
  <2>2. ASSUME NEW d \in T
        PROVE  d + 1 \in T
    <3>1. SUFFICES ASSUME e + (d + 1) \in Widths
                   PROVE  \E q \in Nat : Pow(e + (d + 1)) = p * q
      OBVIOUS
    <3>2. e + d \in Widths /\ (e + d) + 1 = e + (d + 1) /\ (e + d) + 1 \in Widths
      BY <1>2, <3>1 DEF Widths
    <3>3. PICK q \in Nat : Pow(e + d) = p * q
      BY <2>2, <3>2
    <3>4. Pow((e + d) + 1) = 2 * Pow(e + d)
      BY <3>2, Powers
    <3>5. 2 * (p * q) = p * (2 * q) /\ 2 * q \in Nat
      OBVIOUS
    <3>6. QED
      BY <3>2, <3>3, <3>4, <3>5
  <2>3. \A d \in Nat : d \in T
    <3> HIDE DEF T
    <3>1. QED
      BY <2>1, <2>2, NatSet
  <2>4. W - e \in Nat /\ e + (W - e) = W
    BY <1>2
  <2>5. W - e \in T
    BY <2>3, <2>4
  <2>6. PICK q \in Nat : w = p * q + 0
    <3>1. PICK q \in Nat : Pow(e + (W - e)) = p * q
      BY <1>2, <2>4, <2>5
    <3>2. w = p * q + 0
      BY <1>3, <2>4, <3>1
    <3>3. QED
      BY <3>2
  <2>7. (p * q + 0) % p = 0
    BY Remainder
  <2>8. QED
    BY <2>6, <2>7
<1>5. w = 2^W
  BY <1>3 DEF Pow
<1>6. QED
  BY <1>1, <1>3, <1>4, <1>5

-----------------------------------------------------------------------------
(* The ring of semaphores of pthread_sem_sync.c.                           *)
USE RingAssumption

Types ==
  /\ k \in Nat /\ i \in Nat
  /\ sems \in [Threads -> Nat]
  /\ tpc \in [Threads -> {"none", "wait", "print", "post", "exited"}]

(* Between two lines nobody runs; main posts the first semaphore of a line *)
(* when all of them are 0; the threads main has joined have exited.        *)
Handover ==
  /\ mpc \in {"init", "newline", "done"} => \A t \in Threads : tpc[t] \in {"none", "exited"}
  /\ mpc \in {"create", "post"} =>
       \A t \in Threads : sems[t] = 0 /\ tpc[t] \notin {"print", "post"}
  /\ mpc = "join" => \A t \in Threads : t < i => tpc[t] = "exited"

TurnInv == Types /\ Handover /\ OneToken

(* The ring closes: the index of the next semaphore is one of the ring.    *)
LEMMA NextIndex ==
  ASSUME NEW n \in Nat
  PROVE  n % THREAD_NUM \in Threads
BY DEF Threads

LEMMA MainKeeps ==
  ASSUME TurnInv, MainStep
  PROVE  TurnInv'
<1> USE DEF TurnInv, Types, Handover, OneToken, HasTurn
<1>1. CASE InitSems
  <2>1. /\ sems' = [t \in Threads |-> 0] /\ tpc' = tpc /\ k' = k /\ i' = 0
        /\ mpc = "init" /\ mpc' = "create"
    BY <1>1 DEF InitSems
  <2>2. \A t \in Threads : sems'[t] = 0 /\ tpc'[t] \notin {"print", "post"}
    BY <2>1
  <2>3. Types'
    BY <2>1
  <2>4. Handover' /\ OneToken'
    BY <2>1, <2>2
  <2>5. QED
    BY <2>3, <2>4
<1>2. CASE CreateThread
  <2>1. /\ sems' = sems /\ k' = k /\ i' = i + 1
        /\ mpc = "create" /\ mpc' \in {"create", "post"}
    BY <1>2 DEF CreateThread
  <2>2. /\ tpc' \in [Threads -> {"none", "wait", "print", "post", "exited"}]
        /\ \A t \in Threads : sems'[t] = 0 /\ tpc'[t] \notin {"print", "post"}
    BY <1>2, <2>1 DEF CreateThread
  <2>3. Types'
    BY <2>1, <2>2
  <2>4. Handover' /\ OneToken'
    BY <2>1, <2>2
  <2>5. QED
    BY <2>3, <2>4
<1>3. CASE PostFirst
  <2>1. k % THREAD_NUM \in Threads
    BY NextIndex
  <2>2. \A t \in Threads : sems[t] = 0 /\ tpc[t] \notin {"print", "post"}
    BY <1>3 DEF PostFirst
  <2>3. \A t \in Threads : ~(t < 0)
    BY DEF Threads
  <2>4. QED
    BY <1>3, <2>1, <2>2, <2>3 DEF PostFirst
<1>4. CASE JoinThread
  <2>1. i' = i + 1 /\ tpc' = tpc /\ sems' = sems /\ k' = k /\ tpc[i] = "exited"
    BY <1>4 DEF JoinThread
  <2>2. mpc = "join" /\ mpc' \in {"join", "newline"} /\ (mpc' = "newline" => i' = THREAD_NUM)
    BY <1>4 DEF JoinThread
  <2>3. \A t \in Threads : t < i' => tpc'[t] = "exited"
    <3>1. \A t \in Threads : t < i + 1 => t < i \/ t = i
      BY DEF Threads
    <3>2. QED
      BY <2>1, <2>2, <3>1
  <2>4. mpc' = "newline" => \A t \in Threads : tpc'[t] = "exited"
    BY <2>2, <2>3 DEF Threads
  <2>5. Handover'
    BY <2>2, <2>3, <2>4
  <2>6. QED
    BY <2>1, <2>5
<1>5. CASE NewLine
  BY <1>5 DEF NewLine
<1>6. QED
  BY <1>1, <1>2, <1>3, <1>4, <1>5 DEF MainStep

LEMMA ThreadKeeps ==
  ASSUME TurnInv, NEW t \in Threads, ThreadStep(t)
  PROVE  TurnInv'
<1> USE DEF TurnInv, Types, Handover, OneToken, HasTurn
<1>1. CASE SemWait(t)
  <2>0. sems[t] = 1
    BY <1>1 DEF SemWait
  <2>1. /\ sems' = [sems EXCEPT ![t] = 0] /\ tpc[t] = "wait"
        /\ tpc' = [tpc EXCEPT ![t] = "print"]
        /\ UNCHANGED <<k, i, mpc>>
    BY <1>1, <2>0 DEF SemWait
  <2>2. HasTurn(t)
    BY <2>0
  <2>3. Types'
    BY <2>1
  <2>4. Handover'
    BY <2>1, <2>2
  <2>5. OneToken'
    BY <2>1, <2>2
  <2>6. QED
    BY <2>3, <2>4, <2>5
<1>2. CASE PrintIdx(t)
  BY <1>2 DEF PrintIdx
<1>3. CASE SemPost(t)
  <2> DEFINE u == (t + 1) % THREAD_NUM
  <2>1. u \in Threads
    <3>1. t + 1 \in Nat
      BY DEF Threads
    <3>2. QED
      BY <3>1, NextIndex
  <2>2. /\ sems' = [sems EXCEPT ![u] = @ + 1] /\ tpc[t] = "post"
        /\ tpc' \in [Threads -> {"none", "wait", "print", "post", "exited"}]
        /\ tpc'[t] \in {"exited", "wait"}
        /\ \A v \in Threads : v # t => tpc'[v] = tpc[v]
        /\ UNCHANGED <<k, i, mpc>>
    BY <1>3 DEF SemPost
  <2> HIDE DEF u
  <2>3. Types'
    BY <2>1, <2>2
  <2>4. Handover'
    BY <2>1, <2>2
  <2>5. OneToken'
    BY <2>1, <2>2
  <2>6. QED
    BY <2>3, <2>4, <2>5
<1>4. QED
  BY <1>1, <1>2, <1>3 DEF ThreadStep

(* TurnInv is inductive.                                                   *)
THEOREM TurnInvariant == LinesSpec => []TurnInv
<1>1. LinesInit => TurnInv
  BY DEF LinesInit, TurnInv, Types, Handover, OneToken, HasTurn
<1>2. TurnInv /\ [LinesNext]_linesVars => TurnInv'
  <2> SUFFICES ASSUME TurnInv, [LinesNext]_linesVars PROVE TurnInv'
    OBVIOUS
  <2>1. CASE UNCHANGED linesVars
    BY <2>1 DEF linesVars, TurnInv, Types, Handover, OneToken, HasTurn
  <2>2. QED
    BY <2>1, MainKeeps, ThreadKeeps DEF LinesNext
<1>3. QED
  BY <1>1, <1>2, PTL DEF LinesSpec

(* The turn is never held twice.                                           *)
THEOREM AlwaysOneToken == LinesSpec => []OneToken
<1>1. TurnInv => OneToken
  BY DEF TurnInv
<1>2. QED
  BY <1>1, TurnInvariant, PTL

-----------------------------------------------------------------------------
(* The order of the numbers.  Threads are numbered anew for each line,     *)
(* from the one that begins it.                                            *)

(* The thread that begins the line, and how many turns after it t's first  *)
(* turn comes. *)
First == k % THREAD_NUM
Distance(t) == IF First <= t THEN t - First ELSE t - First + THREAD_NUM

NextThread(t) == (t + 1) % THREAD_NUM

(* The numbers t has on the line. *)
NumbersOf(t) == IF tpc[t] = "post" THEN num[t] + 1 ELSE num[t]

(* The line has q rounds and r more numbers: the first r threads are one   *)
(* number ahead, and the turn is with the next one, or on its way to it.   *)
Rounds(q, r) ==
  /\ Len(line) = THREAD_NUM * q + r
  /\ \A t \in Threads : NumbersOf(t) = IF Distance(t) < r THEN q + 1 ELSE q
  /\ \A t \in Threads : sems[t] > 0 \/ tpc[t] = "print" => Distance(t) = r
  /\ \A t \in Threads : tpc[t] = "post" => Distance(NextThread(t)) = r

(* Threads start with nothing written, write all they have to, and are     *)
(* joined when they have.                                                  *)
Counts ==
  /\ mpc \in {"init", "create", "post", "join", "newline", "done"}
  /\ num \in [Threads -> 0..TEST_CASE_NUM]
  /\ line \in Seq(1..THREAD_NUM)
  /\ mpc = "create" => \A t \in Threads : t < i => tpc[t] = "wait" /\ num[t] = 0
  /\ mpc = "post" => \A t \in Threads : tpc[t] = "wait" /\ num[t] = 0
  /\ mpc = "newline" => \A t \in Threads : tpc[t] = "exited"
  /\ \A t \in Threads : /\ tpc[t] = "exited" => num[t] = TEST_CASE_NUM
                        /\ tpc[t] \in {"wait", "print", "post"} => num[t] < TEST_CASE_NUM

InRounds ==
  /\ mpc \in {"init", "create", "post", "done"} => line = <<>>
  /\ mpc \in {"join", "newline"} =>
       \E q \in 0..TEST_CASE_NUM, r \in Threads : Rounds(q, r)

Sequence == line = [j \in 1..Len(line) |-> ((k + j - 1) % THREAD_NUM) + 1]

LineInv == TurnInv /\ Counts /\ InRounds /\ Sequence

(* Distances on the ring: who is first, who is next, and whose turn it is  *)
(* after q rounds and r numbers.                                           *)
LEMMA RingDistances ==
  ASSUME TurnInv
  PROVE  /\ First \in Threads /\ Distance(First) = 0
         /\ \A t \in Threads : Distance(t) \in Threads
         /\ \A d \in Threads : \E t \in Threads : Distance(t) = d
         /\ \A t, u \in Threads : Distance(t) = Distance(u) => t = u
<1>1. k \in Nat
  BY DEF TurnInv, Types
<1>2. First \in Threads
  BY <1>1, NextIndex DEF First
<1>3. ASSUME NEW d \in Threads
      PROVE  \E t \in Threads : Distance(t) = d
  <2>1. CASE First + d < THREAD_NUM
    <3>1. First + d \in Threads /\ Distance(First + d) = d
      BY <1>2, <2>1 DEF Threads, Distance
    <3>2. QED
      BY <3>1
  <2>2. CASE ~(First + d < THREAD_NUM)
    <3>1. First + d - THREAD_NUM \in Threads /\ Distance(First + d - THREAD_NUM) = d
      BY <1>2, <2>2 DEF Threads, Distance
    <3>2. QED
      BY <3>1
  <2>3. QED
    BY <2>1, <2>2
<1>4. QED
  BY <1>2, <1>3 DEF Threads, Distance

LEMMA NextDistance ==
  ASSUME TurnInv, NEW t \in Threads
  PROVE  /\ NextThread(t) \in Threads
         /\ Distance(NextThread(t)) = IF Distance(t) + 1 = THREAD_NUM THEN 0 ELSE Distance(t) + 1
<1>1. First \in Threads
  BY RingDistances
<1>2. NextThread(t) = IF t + 1 = THREAD_NUM THEN 0 ELSE t + 1
  <2>1. CASE t + 1 = THREAD_NUM
    <3>1. (THREAD_NUM * 1 + 0) % THREAD_NUM = 0
      BY Remainder
    <3>2. QED
      BY <2>1, <3>1 DEF NextThread
  <2>2. CASE t + 1 # THREAD_NUM
    <3>1. t + 1 \in 0..(THREAD_NUM - 1)
      BY <2>2 DEF Threads
    <3>2. (THREAD_NUM * 0 + (t + 1)) % THREAD_NUM = t + 1
      BY <3>1, Remainder
    <3>3. QED
      BY <2>2, <3>1, <3>2 DEF NextThread
  <2>3. QED
    BY <2>1, <2>2
<1>3. NextThread(t) \in Threads
  BY <1>2 DEF Threads
<1>4. PICK f \in Threads, n \in Threads : f = First /\ n = NextThread(t)
  BY <1>1, <1>3
<1>5. /\ f \in 0..(THREAD_NUM - 1) /\ n \in 0..(THREAD_NUM - 1)
      /\ t \in 0..(THREAD_NUM - 1)
  BY <1>4 DEF Threads
<1>6. Distance(n) = IF Distance(t) + 1 = THREAD_NUM THEN 0 ELSE Distance(t) + 1
  <2>1. /\ Distance(t) = IF f <= t THEN t - f ELSE t - f + THREAD_NUM
        /\ Distance(n) = IF f <= n THEN n - f ELSE n - f + THREAD_NUM
    BY <1>4 DEF Distance
  <2>2. n = IF t + 1 = THREAD_NUM THEN 0 ELSE t + 1
    BY <1>2, <1>4
  <2>3. CASE t + 1 = THREAD_NUM
    <3>1. n = 0 /\ t = THREAD_NUM - 1
      BY <1>5, <2>2, <2>3
    <3>2. QED
      BY <1>5, <2>1, <3>1
  <2>4. CASE t + 1 # THREAD_NUM
    <3>1. n = t + 1
      BY <2>2, <2>4
    <3>2. QED
      BY <1>5, <2>1, <3>1
  <2>5. QED
    BY <2>3, <2>4
<1>7. QED
  BY <1>3, <1>4, <1>6

(* The thread that has the turn writes the number the line needs.          *)
LEMMA TurnIsRight ==
  ASSUME TurnInv, NEW q \in Nat, NEW r \in Threads, NEW t \in Threads, Distance(t) = r
  PROVE  (k + (THREAD_NUM * q + r)) % THREAD_NUM = t
<1> DEFINE p == k \div THREAD_NUM
<1>1. p \in Int /\ First \in Threads /\ k = THREAD_NUM * p + First
  <2>1. PICK n \in Nat, m \in Nat \ {0} : n = k /\ m = THREAD_NUM
    BY DEF TurnInv, Types
  <2>2. n \div m \in Int /\ n % m \in 0..(m - 1) /\ n = m * (n \div m) + (n % m)
    BY DivMod
  <2>3. QED
    BY <2>1, <2>2 DEF First, Threads
<1> HIDE DEF p
<1>2. CASE First <= t
  <2>1. First + r = t
    BY <1>1, <1>2 DEF Distance, Threads
  <2>2. k + (THREAD_NUM * q + r) = THREAD_NUM * (p + q) + t
    BY <1>1, <2>1 DEF Threads
  <2>3. (THREAD_NUM * (p + q) + t) % THREAD_NUM = t
    BY <1>1, Remainder DEF Threads
  <2>4. QED
    BY <2>2, <2>3
<1>3. CASE ~(First <= t)
  <2>1. First + r = t + THREAD_NUM
    BY <1>1, <1>3 DEF Distance, Threads
  <2>2. k + (THREAD_NUM * q + r) = THREAD_NUM * (p + q + 1) + t
    BY <1>1, <2>1 DEF Threads
  <2>3. (THREAD_NUM * (p + q + 1) + t) % THREAD_NUM = t
    BY <1>1, Remainder DEF Threads
  <2>4. QED
    BY <2>2, <2>3
<1>4. QED
  BY <1>2, <1>3

LEMMA EmptyLine ==
  ASSUME line = <<>>
  PROVE  Sequence /\ Len(line) = 0
BY DEF Sequence

LEMMA MainLineKeeps ==
  ASSUME LineInv, MainStep
  PROVE  Counts' /\ InRounds' /\ Sequence'
<1>1. CASE InitSems
  <2>1. /\ mpc = "init" /\ mpc' = "create" /\ i' = 0
        /\ UNCHANGED <<k, tpc, num, line>>
    BY <1>1 DEF InitSems
  <2>2. Counts'
    BY <2>1 DEF LineInv, Counts, Threads
  <2>3. InRounds' /\ Sequence'
    BY <2>1 DEF LineInv, InRounds, Sequence
  <2>4. QED
    BY <2>2, <2>3
<1>2. CASE CreateThread
  <2>1. /\ mpc = "create" /\ mpc' \in {"create", "post"} /\ i' = i + 1
        /\ mpc' = "post" => i' = THREAD_NUM
        /\ tpc' = [tpc EXCEPT ![i] = "wait"] /\ num' = [num EXCEPT ![i] = 0]
        /\ UNCHANGED <<k, line>>
    BY <1>2 DEF CreateThread
  <2>2. \A t \in Threads : t < i' => tpc'[t] = "wait" /\ num'[t] = 0
    BY <2>1 DEF LineInv, TurnInv, Types, Counts, Threads
  <2>3. /\ num' \in [Threads -> 0..TEST_CASE_NUM]
        /\ \A t \in Threads : \/ tpc'[t] = tpc[t] /\ num'[t] = num[t]
                              \/ tpc'[t] = "wait" /\ num'[t] = 0
    <3>1. /\ num \in [Threads -> 0..TEST_CASE_NUM]
          /\ tpc \in [Threads -> {"none", "wait", "print", "post", "exited"}]
      BY DEF LineInv, TurnInv, Types, Counts
    <3>2. 0 \in 0..TEST_CASE_NUM
      OBVIOUS
    <3>3. num' \in [Threads -> 0..TEST_CASE_NUM]
      BY <2>1, <3>1, <3>2
    <3>4. ASSUME NEW t \in Threads
          PROVE  \/ tpc'[t] = tpc[t] /\ num'[t] = num[t]
                 \/ tpc'[t] = "wait" /\ num'[t] = 0
      <4>1. CASE t = i
        BY <2>1, <3>1, <4>1
      <4>2. CASE t # i
        BY <2>1, <3>1, <4>2
      <4>3. QED
        BY <4>1, <4>2
    <3>5. QED
      BY <3>3, <3>4
  <2>4. mpc' = "post" => \A t \in Threads : tpc'[t] = "wait" /\ num'[t] = 0
    BY <2>1, <2>2 DEF Threads
  <2>5. Counts'
    <3>1. \A t \in Threads : /\ tpc[t] = "exited" => num[t] = TEST_CASE_NUM
                             /\ tpc[t] \in {"wait", "print", "post"} => num[t] < TEST_CASE_NUM
      BY DEF LineInv, Counts
    <3>2. \A t \in Threads : /\ tpc'[t] = "exited" => num'[t] = TEST_CASE_NUM
                             /\ tpc'[t] \in {"wait", "print", "post"} => num'[t] < TEST_CASE_NUM
      BY <2>3, <3>1, 0 < TEST_CASE_NUM
    <3>3. line' \in Seq(1..THREAD_NUM)
      BY <2>1 DEF LineInv, Counts
    <3>4. QED
      BY <2>1, <2>2, <2>3, <2>4, <3>2, <3>3 DEF Counts
  <2>6. InRounds' /\ Sequence'
    BY <2>1 DEF LineInv, InRounds, Sequence
  <2>7. QED
    BY <2>5, <2>6
<1>3. CASE PostFirst
  <2>1. /\ mpc = "post" /\ mpc' = "join"
        /\ sems' = [sems EXCEPT ![First] = @ + 1]
        /\ UNCHANGED <<k, tpc, num, line>>
    BY <1>3 DEF PostFirst, First
  <2>2. Counts' /\ Sequence'
    BY <2>1 DEF LineInv, Counts, Sequence
  <2>3. \A t \in Threads : sems[t] = 0 /\ tpc[t] = "wait" /\ num[t] = 0
    BY <2>1 DEF LineInv, TurnInv, Handover, Counts
  <2>4. First \in Threads /\ Distance(First) = 0 /\ \A t \in Threads : Distance(t) \in Threads
    BY RingDistances DEF LineInv
  <2>5. \A t \in Threads : sems'[t] > 0 => t = First
    BY <2>1, <2>3, <2>4 DEF LineInv, TurnInv, Types
  <2>6. Rounds(0, 0)'
    <3>1. Len(line') = THREAD_NUM * 0 + 0
      BY <2>1 DEF LineInv, InRounds
    <3>2. \A t \in Threads : Distance(t)' = Distance(t) /\ Distance(t) \in Nat
      BY <2>1, <2>4 DEF Distance, First, Threads
    <3>3. \A t \in Threads : NumbersOf(t)' = 0
      BY <2>1, <2>3 DEF NumbersOf
    <3>4. QED
      BY <2>1, <2>3, <2>4, <2>5, <3>1, <3>2, <3>3 DEF Rounds
  <2>7. InRounds'
    BY <2>1, <2>6 DEF InRounds, Threads
  <2>8. QED
    BY <2>2, <2>7
<1>4. CASE JoinThread
  <2>1. /\ mpc = "join" /\ mpc' \in {"join", "newline"} /\ i' = i + 1
        /\ mpc' = "newline" => i' = THREAD_NUM
        /\ tpc[i] = "exited"
        /\ UNCHANGED <<k, sems, tpc, num, line>>
    BY <1>4 DEF JoinThread
  <2>2. \A t \in Threads : t < i' => tpc'[t] = "exited"
    BY <2>1 DEF LineInv, TurnInv, Types, Handover, Threads
  <2>3. Counts' /\ Sequence'
    BY <2>1, <2>2 DEF LineInv, Counts, Sequence, Threads
  <2>4. \A q \in 0..TEST_CASE_NUM, r \in Threads : Rounds(q, r)' = Rounds(q, r)
    BY <2>1 DEF Rounds, Distance, First, NextThread, NumbersOf
  <2>5. InRounds'
    BY <2>1, <2>4 DEF LineInv, InRounds
  <2>6. QED
    BY <2>3, <2>5
<1>5. CASE NewLine
  <2>1. /\ mpc = "newline" /\ mpc' \in {"init", "done"} /\ line' = <<>>
        /\ UNCHANGED <<tpc, num>>
    BY <1>5 DEF NewLine
  <2>2. Counts'
    BY <2>1 DEF LineInv, Counts
  <2>3. InRounds' /\ Sequence'
    BY <2>1 DEF InRounds, Sequence
  <2>4. QED
    BY <2>2, <2>3
<1>6. QED
  BY <1>1, <1>2, <1>3, <1>4, <1>5 DEF MainStep

(* A thread's number, and the turn that goes round.                        *)
LEMMA ThreadLineKeeps ==
  ASSUME LineInv, NEW t \in Threads, ThreadStep(t)
  PROVE  Counts' /\ InRounds' /\ Sequence'
<1>0. mpc \in {"join", "newline"}
  <2>1. mpc \notin {"init", "done"}
    BY DEF LineInv, TurnInv, Handover, ThreadStep, SemWait, PrintIdx, SemPost
  <2>2. mpc \notin {"create", "post"}
    BY DEF LineInv, TurnInv, Types, Handover, ThreadStep, SemWait, PrintIdx, SemPost
  <2>3. QED
    BY <2>1, <2>2 DEF LineInv, Counts
<1>1. PICK q \in 0..TEST_CASE_NUM, r \in Threads : Rounds(q, r)
  BY <1>0 DEF LineInv, InRounds
<1>2. tpc[t] \in {"wait", "print", "post"} /\ mpc = "join"
  BY <1>0 DEF LineInv, Counts, ThreadStep, SemWait, PrintIdx, SemPost
<1>3. UNCHANGED <<k, i, mpc>>
  BY DEF ThreadStep, SemWait, PrintIdx, SemPost
<1>4. \A u \in Threads : Distance(u) \in Threads /\ Distance(u)' = Distance(u)
  BY <1>3, RingDistances DEF LineInv, Distance, First
<1>5. num \in [Threads -> 0..TEST_CASE_NUM] /\ num[t] < TEST_CASE_NUM /\ line \in Seq(1..THREAD_NUM)
  BY <1>2 DEF LineInv, Counts
<1>6. CASE SemWait(t)
  <2>1. /\ sems[t] > 0 /\ tpc[t] = "wait"
        /\ sems' = [sems EXCEPT ![t] = @ - 1] /\ tpc' = [tpc EXCEPT ![t] = "print"]
        /\ UNCHANGED <<num, line>>
    BY <1>6 DEF SemWait
  <2>2. Counts' /\ Sequence'
    BY <1>2, <1>3, <2>1 DEF LineInv, TurnInv, Types, Counts, Sequence
  <2>3. Distance(t) = r
    BY <1>1, <2>1 DEF Rounds
  <2>4. /\ \A u \in Threads : NumbersOf(u)' = NumbersOf(u)
        /\ \A u \in Threads : sems'[u] > 0 \/ tpc'[u] = "print" =>
             u = t \/ sems[u] > 0 \/ tpc[u] = "print"
        /\ \A u \in Threads : tpc'[u] = "post" => tpc[u] = "post"
    BY <2>1 DEF LineInv, TurnInv, Types, NumbersOf
  <2>5. Rounds(q, r)'
    <3>1. \A u \in Threads : Distance(u)' = Distance(u) /\ NextThread(u)' = NextThread(u)
      BY <1>3 DEF Distance, NextThread, First
    <3>2. line' = line
      BY <2>1
    <3>6. ASSUME NEW u \in Threads
          PROVE  NextThread(u) \in Threads
      BY NextDistance DEF LineInv
    <3>3. \A u \in Threads : sems'[u] > 0 \/ tpc'[u] = "print" => Distance(u) = r
      BY <1>1, <2>3, <2>4 DEF Rounds
    <3>4. \A u \in Threads : tpc'[u] = "post" => Distance(NextThread(u)) = r
      BY <1>1, <2>4 DEF Rounds
    <3>5. QED
      BY <1>1, <2>4, <3>1, <3>2, <3>3, <3>4, <3>6 DEF Rounds
  <2>6. InRounds'
    BY <1>2, <1>3, <2>5 DEF InRounds
  <2>7. QED
    BY <2>2, <2>6
<1>7. CASE PrintIdx(t)
  <2>1. /\ tpc[t] = "print" /\ tpc' = [tpc EXCEPT ![t] = "post"]
        /\ line' = Append(line, t + 1)
        /\ UNCHANGED <<sems, num>>
    BY <1>7 DEF PrintIdx
  <2>2. Counts'
    BY <1>2, <1>3, <1>5, <2>1 DEF LineInv, TurnInv, Types, Counts, Threads
  <2>3. Distance(t) = r /\ Len(line) = THREAD_NUM * q + r /\ Len(line) \in Nat
    BY <1>1, <1>5, <2>1 DEF Rounds
  <2>4. (k + Len(line)) % THREAD_NUM = t
    BY <2>3, TurnIsRight DEF LineInv
  <2>5. Sequence'
    <3> DEFINE f == [j \in 1..(Len(line) + 1) |-> ((k + j - 1) % THREAD_NUM) + 1]
    <3>1. k + (Len(line) + 1) - 1 = k + Len(line)
      BY <2>3 DEF LineInv, TurnInv, Types
    <3>2. f[Len(line) + 1] = t + 1
      BY <2>3, <2>4, <3>1
    <3>3. \A j \in 1..Len(line) : f[j] = line[j]
      BY <2>3 DEF LineInv, Sequence
    <3>4. f = [j \in 1..(Len(line) + 1) |-> f[j]]
      OBVIOUS
    <3> HIDE DEF f
    <3>5. /\ Len(line') = Len(line) + 1
          /\ \A j \in 1..Len(line) : line'[j] = line[j]
          /\ line'[Len(line) + 1] = t + 1
      <4>1. t + 1 \in 1..THREAD_NUM
        BY DEF Threads
      <4>2. QED
        BY <1>5, <2>1, <4>1, AppendProperties
    <3>6. line' = [j \in 1..(Len(line) + 1) |-> line'[j]]
      BY <2>2, <3>5, LenProperties DEF Counts
    <3>7. \A j \in 1..(Len(line) + 1) : line'[j] = f[j]
      BY <2>3, <3>2, <3>3, <3>5
    <3>8. line' = f
      BY <3>4, <3>6, <3>7
    <3>9. QED
      BY <1>3, <3>5, <3>8 DEF f, Sequence
  <2> DEFINE q2 == IF r + 1 = THREAD_NUM THEN q + 1 ELSE q
             r2 == IF r + 1 = THREAD_NUM THEN 0 ELSE r + 1
  <2>6. r \in 0..(THREAD_NUM - 1) /\ r2 \in Threads /\ q2 \in Nat
    BY DEF Threads
  <2>7. Len(line') = THREAD_NUM * q2 + r2
    <3>1. Len(line') = THREAD_NUM * q + r + 1
      <4>1. t + 1 \in 1..THREAD_NUM
        BY DEF Threads
      <4>2. Len(line') = Len(line) + 1
        BY <1>5, <2>1, <4>1
      <4>3. QED
        BY <2>3, <4>2
    <3>2. THREAD_NUM * (q + 1) + 0 = THREAD_NUM * q + THREAD_NUM
      OBVIOUS
    <3>3. QED
      BY <2>6, <3>1, <3>2
  <2>8. Distance(NextThread(t)) = r2
    BY <2>3, NextDistance DEF LineInv
  <2>9. ~\E u \in Threads \ {t} : sems[u] > 0 \/ tpc[u] \in {"print", "post"}
    BY <2>1 DEF LineInv, TurnInv, OneToken, HasTurn
  <2>10. sems[t] = 0
    BY <2>1 DEF LineInv, TurnInv, Types, OneToken
  <2>11. \A u \in Threads : Distance(u) = r => u = t
    BY <2>3, RingDistances DEF LineInv
  <2>12. /\ NumbersOf(t)' = NumbersOf(t) + 1
         /\ \A u \in Threads \ {t} : NumbersOf(u)' = NumbersOf(u)
    BY <2>1 DEF LineInv, TurnInv, Types, NumbersOf
  <2>13. \A u \in Threads : NumbersOf(u) = IF Distance(u) < r THEN q + 1 ELSE q
    BY <1>1 DEF Rounds
  <2>14. \A u \in Threads : NumbersOf(u)' = IF Distance(u) < r2 THEN q2 + 1 ELSE q2
    <3>1. ASSUME NEW u \in Threads
          PROVE  NumbersOf(u)' = IF Distance(u) < r2 THEN q2 + 1 ELSE q2
      <4>1. Distance(u) \in 0..(THREAD_NUM - 1)
        BY <1>4 DEF Threads
      <4>2. CASE u = t
        BY <2>3, <2>6, <2>12, <2>13, <4>1, <4>2
      <4>3. CASE u # t
        <5>1. Distance(u) # r
          BY <2>11, <4>3
        <5>2. QED
          BY <2>6, <2>12, <2>13, <4>1, <4>3, <5>1
      <4>4. QED
        BY <4>2, <4>3
    <3>2. QED
      BY <3>1
  <2>15. q2 \in 0..TEST_CASE_NUM
    <3>1. NumbersOf(t) = q /\ NumbersOf(t) < TEST_CASE_NUM
      BY <1>5, <2>1, <2>3, <2>6, <2>13 DEF NumbersOf
    <3>2. QED
      BY <3>1
  <2> HIDE DEF q2, r2
  <2>16. \A u \in Threads : ~(sems'[u] > 0 \/ tpc'[u] = "print") /\ (tpc'[u] = "post" => u = t)
    BY <2>1, <2>9, <2>10 DEF LineInv, TurnInv, Types
  <2>17. Distance(NextThread(t))' = Distance(NextThread(t))
    BY <1>3 DEF Distance, NextThread, First
  <2>18. Rounds(q2, r2)'
    BY <1>4, <2>7, <2>8, <2>14, <2>16, <2>17 DEF Rounds
  <2>19. InRounds'
    BY <1>2, <1>3, <2>6, <2>15, <2>18 DEF InRounds
  <2>20. QED
    BY <2>2, <2>5, <2>19
<1>8. CASE SemPost(t)
  <2>1. /\ tpc[t] = "post"
        /\ sems' = [sems EXCEPT ![NextThread(t)] = @ + 1]
        /\ num' = [num EXCEPT ![t] = @ + 1]
        /\ tpc' = [tpc EXCEPT ![t] = IF num[t] + 1 = TEST_CASE_NUM THEN "exited" ELSE "wait"]
        /\ line' = line
    BY <1>5, <1>8 DEF SemPost, NextThread
  <2>2. Counts' /\ Sequence'
    BY <1>2, <1>3, <1>5, <2>1 DEF LineInv, TurnInv, Types, Counts, Sequence
  <2>3. NextThread(t) \in Threads /\ Distance(NextThread(t)) = r
    BY <1>1, <2>1, NextDistance DEF LineInv, Rounds
  <2>4. /\ \A u \in Threads : NumbersOf(u)' = NumbersOf(u)
        /\ \A u \in Threads : sems'[u] > 0 \/ tpc'[u] = "print" =>
             u = NextThread(t) \/ sems[u] > 0 \/ tpc[u] = "print"
        /\ \A u \in Threads : tpc'[u] = "post" => tpc[u] = "post"
    BY <1>5, <2>1, <2>3 DEF LineInv, TurnInv, Types, NumbersOf
  <2>5. Rounds(q, r)'
    BY <1>1, <1>3, <1>4, <2>1, <2>3, <2>4 DEF Rounds, NextThread, Distance, First
  <2>6. InRounds'
    BY <1>2, <1>3, <2>5 DEF InRounds
  <2>7. QED
    BY <2>2, <2>6
<1>9. QED
  BY <1>6, <1>7, <1>8 DEF ThreadStep

(* LineInv is inductive.                                                   *)
THEOREM LineInvariant == LinesSpec => []LineInv
<1>1. LinesInit => Counts /\ InRounds /\ Sequence
  <2>1. LinesInit => Counts
    BY DEF LinesInit, Counts
  <2>2. LinesInit => InRounds
    BY DEF LinesInit, InRounds
  <2>3. LinesInit => Sequence
    BY EmptyLine DEF LinesInit
  <2>4. QED
    BY <2>1, <2>2, <2>3
<1>2. LineInv /\ [LinesNext]_linesVars => (Counts /\ InRounds /\ Sequence)'
  <2> SUFFICES ASSUME LineInv, [LinesNext]_linesVars PROVE (Counts /\ InRounds /\ Sequence)'
    OBVIOUS
  <2>1. CASE UNCHANGED linesVars
    <3>1. \A q \in 0..TEST_CASE_NUM, r \in Threads : Rounds(q, r)' = Rounds(q, r)
      BY <2>1 DEF linesVars, Rounds, Distance, First, NextThread, NumbersOf
    <3>2. InRounds'
      BY <2>1, <3>1 DEF linesVars, LineInv, InRounds
    <3>3. Counts' /\ Sequence'
      BY <2>1 DEF linesVars, LineInv, Counts, Sequence
    <3>4. QED
      BY <3>2, <3>3
  <2>2. CASE LinesNext
    BY <2>2, MainLineKeeps, ThreadLineKeeps DEF LinesNext
  <2>3. QED
    BY <2>1, <2>2
<1>3. TurnInv /\ Counts /\ InRounds /\ Sequence => LineInv
  BY DEF LineInv
<1>4. LineInv => TurnInv
  BY DEF LineInv
<1>5. QED
  BY <1>1, <1>2, <1>3, <1>4, TurnInvariant, PTL DEF LinesSpec

(* Whatever the schedule, the numbers on line k are those of thread k and  *)
(* the ones after it, round and round, and main ends the line when every   *)
(* thread has written all of its numbers.                                  *)
THEOREM LinesInOrder == LinesSpec => []LineInOrder
<1>1. LineInv => LineInOrder
  <2> SUFFICES ASSUME LineInv PROVE LineInOrder
    OBVIOUS
  <2>1. ASSUME mpc = "newline"
        PROVE  Len(line) = THREAD_NUM * TEST_CASE_NUM
    <3>1. PICK q \in 0..TEST_CASE_NUM, r \in Threads : Rounds(q, r)
      BY <2>1 DEF LineInv, InRounds
    <3>2. \A t \in Threads : NumbersOf(t) = TEST_CASE_NUM
      BY <2>1 DEF LineInv, Counts, NumbersOf
    <3>3. THREAD_NUM - 1 \in Threads /\ 0 \in Threads
      BY DEF Threads
    <3>4. PICK u \in Threads : Distance(u) = THREAD_NUM - 1
      BY <3>3, RingDistances DEF LineInv
    <3>5. First \in Threads /\ Distance(First) = 0
      BY RingDistances DEF LineInv
    <3>6. q = TEST_CASE_NUM
      BY <3>1, <3>2, <3>4 DEF Rounds, Threads
    <3>7. r = 0
      BY <3>1, <3>2, <3>5, <3>6 DEF Rounds, Threads
    <3>8. QED
      BY <3>1, <3>6, <3>7 DEF Rounds
  <2>2. QED
    BY <2>1 DEF LineInv, Sequence, LineInOrder
<1>2. QED
  BY <1>1, LineInvariant, PTL

=============================================================================
