--------------------------- MODULE MbEnzianProofs ---------------------------
(***************************************************************************)
(* Proofs about main of mb_enzian.c and its latency tests, for any command *)
(* lines, any number of cores up to 96 and every size of a test that main  *)
(* asks for, that is up to 2^19 lines.                                     *)
(***************************************************************************)
EXTENDS MbEnzian, TLAPS

-----------------------------------------------------------------------------
(* Quotients and remainders *)

(* Quotient and remainder, as the provers know them. *)
LEMMA QuotientAndRemainder ==
  ASSUME NEW B \in Nat \ {0}, NEW x \in Int
  PROVE  /\ x \div B \in Int /\ x % B \in 0 .. (B - 1)
         /\ x = (x \div B) * B + (x % B)
  OBVIOUS

(* Multiples of B are at least B apart. *)
LEMMA MultiplesApart ==
  ASSUME NEW B \in Nat \ {0}, NEW p1 \in Int, NEW q1 \in Int, p1 < q1
  PROVE  p1 * B + B =< q1 * B
<1>1. q1 - p1 - 1 \in Nat
  OBVIOUS
<1>2. (q1 - p1 - 1) * B >= 0
  BY <1>1
<1>3. (q1 - p1 - 1) * B = q1 * B - p1 * B - B
  OBVIOUS
<1>4. p1 * B \in Int /\ q1 * B \in Int
  OBVIOUS
<1> QED
  BY <1>2, <1>3, <1>4

(* The remainder of a multiple of B and a remainder is that remainder.     *)
LEMMA RemainderOf ==
  ASSUME NEW B \in Nat \ {0}, NEW q1 \in Int, NEW r \in 0 .. (B - 1)
  PROVE  (q1 * B + r) % B = r
<1> DEFINE x == q1 * B + r
           p1 == x \div B
<1>1. x \in Int /\ q1 * B \in Int
  OBVIOUS
<1>2. p1 \in Int /\ x % B \in 0 .. (B - 1) /\ x = p1 * B + (x % B)
  BY <1>1, QuotientAndRemainder
<1>3. ~(p1 < q1)
  <2>1. p1 < q1 => p1 * B + B =< q1 * B
    BY <1>2, MultiplesApart
  <2>2. p1 * B \in Int
    BY <1>2
  <2> QED
    BY <2>1, <2>2, <1>1, <1>2
<1>4. ~(q1 < p1)
  <2>1. q1 < p1 => q1 * B + B =< p1 * B
    BY <1>2, MultiplesApart
  <2>2. p1 * B \in Int
    BY <1>2
  <2> QED
    BY <2>1, <2>2, <1>1, <1>2
<1>5. p1 = q1
  BY <1>2, <1>3, <1>4
<1> QED
  BY <1>1, <1>2, <1>5

(* A remainder is its own, also one block further on. *)
LEMMA SmallRemainder ==
  ASSUME NEW B \in Nat \ {0}, NEW r \in 0 .. (B - 1)
  PROVE  r % B = r /\ (B + r) % B = r
<1>1. \A n \in Int : (n * B + r) % B = r
  BY RemainderOf
<1>2. 0 * B + r = r /\ 1 * B + r = B + r
  OBVIOUS
<1>3. (0 * B + r) % B = r /\ (1 * B + r) % B = r
  BY <1>1
<1> QED
  BY <1>2, <1>3

(* Whole blocks do not change the remainder. *)
LEMMA RemainderShift ==
  ASSUME NEW B \in Nat \ {0}, NEW x \in Int, NEW n \in Int
  PROVE  (x + n * B) % B = x % B
<1>1. x \div B \in Int /\ x % B \in 0 .. (B - 1) /\ x = (x \div B) * B + (x % B)
  BY QuotientAndRemainder
<1>2. x + n * B = (x \div B + n) * B + (x % B)
  BY <1>1
<1>3. x \div B + n \in Int
  BY <1>1
<1>4. ((x \div B + n) * B + (x % B)) % B = x % B
  BY <1>1, <1>3, RemainderOf
<1> QED
  BY <1>2, <1>4

(* Nor does a remainder instead of the number, under the generator.        *)
LEMMA RemainderFirst ==
  ASSUME NEW B \in Nat \ {0}, NEW x \in Int
  PROVE  ((x % B) * 13 + 7) % B = (x * 13 + 7) % B
<1> DEFINE q1 == x \div B
           r == x % B
<1>1. q1 \in Int /\ r \in 0 .. (B - 1) /\ x = q1 * B + r
  BY QuotientAndRemainder
<1>2. x * 13 + 7 = (r * 13 + 7) + (q1 * 13) * B
  BY <1>1
<1>3. r * 13 + 7 \in Int /\ q1 * 13 \in Int
  BY <1>1
<1>4. ((r * 13 + 7) + (q1 * 13) * B) % B = (r * 13 + 7) % B
  BY <1>3, RemainderShift
<1> QED
  BY <1>2, <1>4

-----------------------------------------------------------------------------
(* The generator (o * 13 + 7) & (l - 1) has full period *)

(***************************************************************************)
(* Without the mask the generator runs through f: N numbers that leave     *)
(* every remainder of N.  N steps together are x * a + b, where a is one   *)
(* more than a multiple of 4 * N and b an odd multiple of N: so the next N *)
(* numbers leave the other remainders of 2 * N.                            *)
(***************************************************************************)
Runs(f, N) ==
  /\ f \in [0 .. (N - 1) -> Nat] /\ f[0] = 0
  /\ \A k \in 0 .. (N - 2) : f[k + 1] = f[k] * 13 + 7

Leap(f, a, b, s, t, N) ==
  /\ a = 4 * N * s + 1 /\ b = N * (2 * t + 1)
  /\ 7 * (a - 1) = 12 * b
  /\ f[N - 1] * 13 + 7 = b

FullPeriod(N) ==
  \E f, a, b, s, t :
    /\ a \in Nat /\ b \in Nat /\ s \in Nat /\ t \in Nat
    /\ Runs(f, N) /\ Leap(f, a, b, s, t, N)
    /\ \A y \in 0 .. (N - 1) : \E k \in 0 .. (N - 1) : f[k] % N = y

(* One number: 0. *)
LEMMA PeriodOne == FullPeriod(1)
<1> DEFINE f == [k \in 0 .. 0 |-> 0]
<1>1. Runs(f, 1)
  BY DEF Runs
<1>2. Leap(f, 13, 7, 3, 3, 1)
  BY DEF Leap
<1>3. \A y \in 0 .. (1 - 1) : \E k \in 0 .. (1 - 1) : f[k] % 1 = y
  OBVIOUS
<1> HIDE DEF f
<1> QED
  BY <1>1, <1>2, <1>3 DEF FullPeriod

(* A name for it, as the provers had better not compute with it.           *)
IsTwice(M, N) == M = 2 * N

(* Where N steps of the generator lead from x. *)
LeapFrom(x, N, s, t) == x * (4 * N * s + 1) + N * (2 * t + 1)

(* The next N numbers leave the other remainder of 2 * N each.             *)
LEMMA OtherHalf ==
  ASSUME NEW N \in Nat \ {0}, NEW M \in Nat \ {0}, IsTwice(M, N),
         NEW x \in Nat, NEW y \in 0 .. (M - 1), NEW s \in Nat, NEW t \in Nat,
         x % N = IF y < N THEN y ELSE y - N
  PROVE  x % M = y \/ LeapFrom(x, N, s, t) % M = y
<1>1. PICK d \in Int, z \in 0 .. (M - 1) : x = d * M + z /\ x % M = z
  <2>1. M \in Nat \ {0} /\ x \in Int
    OBVIOUS
  <2>2. x \div M \in Int /\ x % M \in 0 .. (M - 1) /\ x = (x \div M) * M + (x % M)
    BY ONLY <2>1, QuotientAndRemainder
  <2> QED
    BY <2>2
<1>2. x % N = z % N
  <2>1. x = z + (2 * d) * N
    BY <1>1 DEF IsTwice
  <2>2. z \in Int /\ 2 * d \in Int
    BY <1>1
  <2> QED
    BY <2>1, <2>2, RemainderShift
<1>3. z % N = IF z < N THEN z ELSE z - N
  <2>1. CASE z < N
    BY <2>1, <1>1, SmallRemainder
  <2>2. CASE z >= N
    <3>1. z - N \in 0 .. (N - 1)
      BY <1>1, <2>2 DEF IsTwice
    <3>2. (N + (z - N)) % N = z - N
      BY <3>1, SmallRemainder
    <3>3. N + (z - N) = z
      BY <1>1
    <3> QED
      BY <2>2, <3>2, <3>3
  <2> QED
    BY <2>1, <2>2, <1>1
<1>4. LeapFrom(x, N, s, t) % M = (z + N) % M
  <2> DEFINE n == 2 * s * x + t
  <2>1. LeapFrom(x, N, s, t) = (x + N) + n * M
    BY DEF IsTwice, LeapFrom
  <2>2. (x + N) + n * M = (z + N) + (d + n) * M
    <3> n \in Int
      OBVIOUS
    <3> HIDE DEF n
    <3>1. (d + n) * M = d * M + n * M /\ d * M \in Int /\ n * M \in Int
      BY <1>1
    <3> QED
      BY <1>1, <3>1
  <2>3. z + N \in Int /\ d + n \in Int
    BY <1>1
  <2> HIDE DEF n
  <2>4. ((z + N) + (d + n) * M) % M = (z + N) % M
    BY <2>3, RemainderShift
  <2> QED
    BY <2>1, <2>2, <2>4
<1>5. CASE z # y /\ z < N
  <2>1. y = z + N
    BY <1>1, <1>2, <1>3, <1>5
  <2>2. y % M = y
    BY SmallRemainder
  <2> QED
    BY <2>1, <2>2, <1>4
<1>6. CASE z # y /\ z >= N
  <2>1. y = z - N
    BY <1>1, <1>2, <1>3, <1>6
  <2>2. (M + y) % M = y
    BY SmallRemainder
  <2>3. M + y = z + N
    BY <2>1, <1>1 DEF IsTwice
  <2> QED
    BY <2>2, <2>3, <1>4
<1> QED
  BY <1>1, <1>5, <1>6

(* Twice the numbers. *)
LEMMA PeriodDoubles ==
  ASSUME NEW N \in Nat \ {0}, FullPeriod(N)
  PROVE  FullPeriod(2 * N)
<1>1. PICK f, a, b, s, t :
        /\ a \in Nat /\ b \in Nat /\ s \in Nat /\ t \in Nat
        /\ Runs(f, N) /\ Leap(f, a, b, s, t, N)
        /\ \A y \in 0 .. (N - 1) : \E k \in 0 .. (N - 1) : f[k] % N = y
  BY DEF FullPeriod
<1> DEFINE M == 2 * N
           g == [k \in 0 .. (M - 1) |-> IF k < N THEN f[k] ELSE f[k - N] * a + b]
           a2 == a * a
           b2 == b * (a + 1)
           s2 == 2 * N * s * s + s
           t2 == 2 * t * N * s + t + N * s
<1>2. a2 \in Nat /\ b2 \in Nat /\ s2 \in Nat /\ t2 \in Nat
  BY <1>1
<1>3. \A k \in 0 .. (N - 1) : f[k] \in Nat
  BY <1>1 DEF Runs
<1>4. 7 * a + b = 13 * b + 7
  BY <1>1 DEF Leap
<1>5. Runs(g, M)
  <2>1. g \in [0 .. (M - 1) -> Nat]
    <3>1. ASSUME NEW k \in 0 .. (M - 1)
          PROVE  (IF k < N THEN f[k] ELSE f[k - N] * a + b) \in Nat
      <4>1. CASE k < N
        BY <4>1, <1>3
      <4>2. CASE k >= N
        <5>1. k - N \in 0 .. (N - 1)
          BY <4>2
        <5>2. f[k - N] \in Nat
          BY <5>1, <1>3
        <5> QED
          BY <4>2, <5>2, <1>1
      <4> QED
        BY <4>1, <4>2
    <3> QED
      BY <3>1
  <2>2. g[0] = 0
    BY <1>1 DEF Runs
  <2>3. ASSUME NEW k \in 0 .. (M - 2)
        PROVE  g[k + 1] = g[k] * 13 + 7
    <3>1. k \in 0 .. (M - 1) /\ k + 1 \in 0 .. (M - 1)
      OBVIOUS
    <3>2. CASE k + 1 < N
      <4>1. g[k] = f[k] /\ g[k + 1] = f[k + 1] /\ k \in 0 .. (N - 2)
        BY <3>1, <3>2
      <4> QED
        BY <4>1, <1>1 DEF Runs
    <3>3. CASE k + 1 = N
      <4>1. g[k] = f[N - 1] /\ g[k + 1] = f[0] * a + b
        BY <3>1, <3>3
      <4>2. f[0] * a + b = b
        BY <1>1 DEF Runs
      <4> QED
        BY <4>1, <4>2, <1>1 DEF Leap
    <3>4. CASE k + 1 > N
      <4> DEFINE h == f[k - N]
      <4>1. k - N \in 0 .. (N - 2) /\ (k + 1) - N = (k - N) + 1
        BY <3>4
      <4>2. g[k] = h * a + b /\ g[k + 1] = f[(k - N) + 1] * a + b
        BY <3>1, <3>4, <4>1
      <4>3. f[(k - N) + 1] = h * 13 + 7
        BY <4>1, <1>1 DEF Runs
      <4>4. h \in Nat
        BY <4>1, <1>3
      <4>5. (h * 13 + 7) * a + b = 13 * (h * a) + 7 * a + b
        BY <4>4, <1>1
      <4>6. (h * a + b) * 13 + 7 = 13 * (h * a) + 13 * b + 7
        BY <4>4, <1>1
      <4> HIDE DEF g, h
      <4> QED
        BY <4>2, <4>3, <4>4, <4>5, <4>6, <1>4, <1>1
    <3> QED
      BY <3>2, <3>3, <3>4
  <2> HIDE DEF g
  <2> QED
    BY <2>1, <2>2, <2>3 DEF Runs
<1>6. Leap(g, a2, b2, s2, t2, M)
  <2>1. a2 = 4 * M * s2 + 1
    <3>1. a = 4 * N * s + 1
      BY <1>1 DEF Leap
    <3>2. (4 * N * s + 1) * (4 * N * s + 1) = 4 * M * s2 + 1
      BY <1>1
    <3> QED
      BY <3>1, <3>2
  <2>2. b2 = M * (2 * t2 + 1)
    <3>1. a = 4 * N * s + 1 /\ b = N * (2 * t + 1)
      BY <1>1 DEF Leap
    <3>2. N * (2 * t + 1) * (4 * N * s + 1 + 1) = M * (2 * t2 + 1)
      BY <1>1
    <3> QED
      BY <3>1, <3>2
  <2>3. 7 * (a2 - 1) = 12 * b2
    <3>1. 7 * (a2 - 1) = (7 * (a - 1)) * (a + 1)
      BY <1>1
    <3>2. 7 * (a - 1) = 12 * b
      BY <1>1 DEF Leap
    <3>3. (12 * b) * (a + 1) = 12 * b2
      BY <1>1
    <3> QED
      BY <3>1, <3>2, <3>3
  <2>4. g[M - 1] * 13 + 7 = b2
    <3> DEFINE h == f[N - 1]
    <3>1. M - 1 \in 0 .. (M - 1) /\ M - 1 >= N /\ (M - 1) - N = N - 1
      OBVIOUS
    <3>2. g[M - 1] = h * a + b
      BY <3>1
    <3>3. h \in Nat
      BY <1>3
    <3>4. h * 13 + 7 = b
      BY <1>1 DEF Leap
    <3>5. (h * a + b) * 13 + 7 = 13 * (h * a) + 13 * b + 7
      BY <3>3, <1>1
    <3>6. (h * 13 + 7) * a + b = 13 * (h * a) + 7 * a + b
      BY <3>3, <1>1
    <3>7. b * a + b = b2
      BY <1>1
    <3>8. h * a \in Int /\ b * a \in Int
      BY <3>3, <1>1
    <3> HIDE DEF g, h
    <3>9. (h * 13 + 7) * a = b * a
      BY <3>4
    <3> QED
      BY <3>2, <3>5, <3>6, <3>7, <3>8, <3>9, <1>1, <1>4
  <2> QED
    BY <2>1, <2>2, <2>3, <2>4 DEF Leap
<1>7. ASSUME NEW y \in 0 .. (M - 1)
      PROVE  \E k \in 0 .. (M - 1) : g[k] % M = y
  <2>1. (IF y < N THEN y ELSE y - N) \in 0 .. (N - 1)
    OBVIOUS
  <2>2. PICK k \in 0 .. (N - 1) : f[k] % N = IF y < N THEN y ELSE y - N
    BY <2>1, <1>1
  <2>3. f[k] \in Nat
    BY <1>3
  <2>4. f[k] % M = y \/ LeapFrom(f[k], N, s, t) % M = y
    <3> DEFINE x == f[k]
    <3>1. M \in Nat \ {0} /\ IsTwice(M, N) /\ y \in 0 .. (M - 1)
      BY DEF IsTwice
    <3>2. s \in Nat /\ t \in Nat /\ x \in Nat /\ N \in Nat \ {0}
      BY <1>1, <2>3
    <3>3. x % N = IF y < N THEN y ELSE y - N
      BY <2>2
    <3> HIDE DEF M, g, x
    <3>4. x % M = y \/ LeapFrom(x, N, s, t) % M = y
      BY ONLY <3>1, <3>2, <3>3, OtherHalf
    <3> QED
      BY <3>4 DEF x
  <2>5. k \in 0 .. (M - 1) /\ g[k] = f[k]
    OBVIOUS
  <2>6. k + N \in 0 .. (M - 1) /\ g[k + N] = f[k] * a + b
    <3>1. k + N \in 0 .. (M - 1) /\ ~(k + N < N) /\ (k + N) - N = k
      OBVIOUS
    <3> QED
      BY <3>1
  <2>7. a = 4 * N * s + 1 /\ b = N * (2 * t + 1)
    BY <1>1 DEF Leap
  <2> HIDE DEF g, M
  <2> QED
    BY <2>4, <2>5, <2>6, <2>7 DEF LeapFrom
<1> HIDE DEF g, M, a2, b2, s2, t2
<1> QED
  BY <1>2, <1>5, <1>6, <1>7 DEF FullPeriod, M

(***************************************************************************)
(* What the masked generator runs through, beginning with 0: every line    *)
(* once, and then 0 again.                                                 *)
(***************************************************************************)
IsOrbit(g, N) ==
  /\ g \in [0 .. N -> 0 .. (N - 1)] /\ g[0] = 0 /\ g[N] = 0
  /\ \A k \in 0 .. (N - 1) : g[k + 1] = (g[k] * 13 + 7) % N
  /\ \A y \in 0 .. (N - 1) : \E k \in 0 .. (N - 1) : g[k] = y

Orbit(N) == CHOOSE g : IsOrbit(g, N)

(* A full period, with the mask, is such an orbit. *)
LEMMA OrbitOfPeriod ==
  ASSUME NEW N \in Nat \ {0}, FullPeriod(N)
  PROVE  IsOrbit(Orbit(N), N)
<1>1. PICK f, a, b, s, t :
        /\ a \in Nat /\ b \in Nat /\ s \in Nat /\ t \in Nat
        /\ Runs(f, N) /\ Leap(f, a, b, s, t, N)
        /\ \A y \in 0 .. (N - 1) : \E k \in 0 .. (N - 1) : f[k] % N = y
  BY DEF FullPeriod
<1> DEFINE g == [k \in 0 .. N |-> IF k < N THEN f[k] % N ELSE 0]
<1>2. \A k \in 0 .. (N - 1) : f[k] \in Nat /\ f[k] % N \in 0 .. (N - 1)
  <2>1. \A k \in 0 .. (N - 1) : f[k] \in Nat
    BY <1>1 DEF Runs
  <2>2. \A x \in Nat : x % N \in 0 .. (N - 1)
    BY QuotientAndRemainder
  <2> QED
    BY <2>1, <2>2
<1>3. g \in [0 .. N -> 0 .. (N - 1)]
  <2>1. ASSUME NEW k \in 0 .. N
        PROVE  (IF k < N THEN f[k] % N ELSE 0) \in 0 .. (N - 1)
    BY <1>2
  <2> QED
    BY <2>1
<1>4. g[0] = 0 /\ g[N] = 0
  <2>1. f[0] = 0 /\ 0 % N = 0
    BY <1>1, SmallRemainder DEF Runs
  <2> QED
    BY <2>1
<1>5. ASSUME NEW k \in 0 .. (N - 1)
      PROVE  g[k + 1] = (g[k] * 13 + 7) % N
  <2>1. g[k] = f[k] % N /\ f[k] \in Int
    BY <1>2
  <2>2. ((f[k] % N) * 13 + 7) % N = (f[k] * 13 + 7) % N
    BY <2>1, RemainderFirst
  <2>3. CASE k < N - 1
    <3>1. g[k + 1] = f[k + 1] % N /\ k \in 0 .. (N - 2)
      BY <2>3
    <3>2. f[k + 1] = f[k] * 13 + 7
      BY <3>1, <1>1 DEF Runs
    <3> QED
      BY <2>1, <2>2, <3>1, <3>2
  <2>4. CASE k = N - 1
    <3>1. g[k + 1] = 0
      BY <2>4
    <3>2. f[k] * 13 + 7 = (2 * t + 1) * N + 0
      BY <2>4, <1>1 DEF Leap
    <3>3. 2 * t + 1 \in Int /\ 0 \in 0 .. (N - 1)
      BY <1>1
    <3>4. ((2 * t + 1) * N + 0) % N = 0
      BY <3>3, RemainderOf
    <3> QED
      BY <2>1, <2>2, <3>1, <3>2, <3>4
  <2> QED
    BY <2>3, <2>4
<1>6. ASSUME NEW y \in 0 .. (N - 1)
      PROVE  \E k \in 0 .. (N - 1) : g[k] = y
  <2>1. PICK k \in 0 .. (N - 1) : f[k] % N = y
    BY <1>1
  <2>2. g[k] = f[k] % N
    OBVIOUS
  <2> QED
    BY <2>1, <2>2
<1> HIDE DEF g
<1>7. IsOrbit(g, N)
  BY <1>3, <1>4, <1>5, <1>6 DEF IsOrbit
<1> QED
  BY <1>7 DEF Orbit

(* The sizes that main asks for. *)
LEMMA Periods ==
  /\ FullPeriod(8) /\ FullPeriod(16) /\ FullPeriod(32)
  /\ FullPeriod(64) /\ FullPeriod(128) /\ FullPeriod(256)
  /\ FullPeriod(512) /\ FullPeriod(1024) /\ FullPeriod(2048)
  /\ FullPeriod(4096) /\ FullPeriod(8192) /\ FullPeriod(16384)
  /\ FullPeriod(32768) /\ FullPeriod(65536) /\ FullPeriod(131072)
  /\ FullPeriod(262144) /\ FullPeriod(524288)
<1>0. FullPeriod(1)
  BY PeriodOne
<1>1. FullPeriod(2)
  <2>1. FullPeriod(2 * 1)
    BY <1>0, PeriodDoubles
  <2> QED
    BY <2>1
<1>2. FullPeriod(4)
  <2>1. FullPeriod(2 * 2)
    BY <1>1, PeriodDoubles
  <2> QED
    BY <2>1
<1>3. FullPeriod(8)
  <2>1. FullPeriod(2 * 4)
    BY <1>2, PeriodDoubles
  <2> QED
    BY <2>1
<1>4. FullPeriod(16)
  <2>1. FullPeriod(2 * 8)
    BY <1>3, PeriodDoubles
  <2> QED
    BY <2>1
<1>5. FullPeriod(32)
  <2>1. FullPeriod(2 * 16)
    BY <1>4, PeriodDoubles
  <2> QED
    BY <2>1
<1>6. FullPeriod(64)
  <2>1. FullPeriod(2 * 32)
    BY <1>5, PeriodDoubles
  <2> QED
    BY <2>1
<1>7. FullPeriod(128)
  <2>1. FullPeriod(2 * 64)
    BY <1>6, PeriodDoubles
  <2> QED
    BY <2>1
<1>8. FullPeriod(256)
  <2>1. FullPeriod(2 * 128)
    BY <1>7, PeriodDoubles
  <2> QED
    BY <2>1
<1>9. FullPeriod(512)
  <2>1. FullPeriod(2 * 256)
    BY <1>8, PeriodDoubles
  <2> QED
    BY <2>1
<1>10. FullPeriod(1024)
  <2>1. FullPeriod(2 * 512)
    BY <1>9, PeriodDoubles
  <2> QED
    BY <2>1
<1>11. FullPeriod(2048)
  <2>1. FullPeriod(2 * 1024)
    BY <1>10, PeriodDoubles
  <2> QED
    BY <2>1
<1>12. FullPeriod(4096)
  <2>1. FullPeriod(2 * 2048)
    BY <1>11, PeriodDoubles
  <2> QED
    BY <2>1
<1>13. FullPeriod(8192)
  <2>1. FullPeriod(2 * 4096)
    BY <1>12, PeriodDoubles
  <2> QED
    BY <2>1
<1>14. FullPeriod(16384)
  <2>1. FullPeriod(2 * 8192)
    BY <1>13, PeriodDoubles
  <2> QED
    BY <2>1
<1>15. FullPeriod(32768)
  <2>1. FullPeriod(2 * 16384)
    BY <1>14, PeriodDoubles
  <2> QED
    BY <2>1
<1>16. FullPeriod(65536)
  <2>1. FullPeriod(2 * 32768)
    BY <1>15, PeriodDoubles
  <2> QED
    BY <2>1
<1>17. FullPeriod(131072)
  <2>1. FullPeriod(2 * 65536)
    BY <1>16, PeriodDoubles
  <2> QED
    BY <2>1
<1>18. FullPeriod(262144)
  <2>1. FullPeriod(2 * 131072)
    BY <1>17, PeriodDoubles
  <2> QED
    BY <2>1
<1>19. FullPeriod(524288)
  <2>1. FullPeriod(2 * 262144)
    BY <1>18, PeriodDoubles
  <2> QED
    BY <2>1
<1> QED
  BY <1>3, <1>4, <1>5, <1>6, <1>7, <1>8, <1>9, <1>10, <1>11,
     <1>12, <1>13, <1>14, <1>15, <1>16, <1>17, <1>18, <1>19

(* A power of two that the provers do not compute with. *)
Lines(e) == 2^e

(* The powers of two up to the largest test. *)
LEMMA Powers ==
  /\ Lines(0) = 1 /\ Lines(1) = 2 /\ Lines(2) = 4 /\ Lines(3) = 8
  /\ Lines(4) = 16 /\ Lines(5) = 32 /\ Lines(6) = 64 /\ Lines(7) = 128
  /\ Lines(8) = 256 /\ Lines(9) = 512 /\ Lines(10) = 1024 /\ Lines(11) = 2048
  /\ Lines(12) = 4096 /\ Lines(13) = 8192 /\ Lines(14) = 16384 /\ Lines(15) = 32768
  /\ Lines(16) = 65536 /\ Lines(17) = 131072 /\ Lines(18) = 262144 /\ Lines(19) = 524288
  BY DEF Lines

(* The sizes of the tests: a multiple of 8 lines, on which the generator *)
(* has full period.                                                      *)
LEMMA LinesOfTest ==
  ASSUME NEW e \in 3 .. 19
  PROVE  /\ Lines(e) \in Nat /\ Lines(e) >= 8 /\ FullPeriod(Lines(e))
         /\ \E m \in Nat : Lines(e) = 8 * m
         /\ \A d \in e .. 19 : Lines(e) =< Lines(d)
<1>1. e \in {3, 4, 5, 6, 7, 8, 9, 10, 11, 12, 13, 14, 15, 16, 17, 18, 19}
  OBVIOUS
<1>2. Lines(e) \in Nat /\ Lines(e) >= 8
  BY <1>1, Powers
<1>3. FullPeriod(Lines(e))
  BY <1>1, Powers, Periods
<1>4. \E m \in Nat : Lines(e) = 8 * m
  <2>1. \E m \in 0 .. 16 : e = m + 3 /\ Lines(e) = 8 * Lines(m) /\ Lines(m) \in Nat
    BY <1>1, Powers
  <2> QED
    BY <2>1
<1>5. ASSUME NEW d \in e .. 19
      PROVE  Lines(e) =< Lines(d)
  <2>1. d \in {3, 4, 5, 6, 7, 8, 9, 10, 11, 12, 13, 14, 15, 16, 17, 18, 19}
    OBVIOUS
  <2> QED
    BY <1>1, <2>1, Powers
<1> QED
  BY <1>2, <1>3, <1>4, <1>5

-----------------------------------------------------------------------------
(* The inductive invariant *)

(* What a latency test finds when it is called. *)
MainInv == stage = "main" => i = 0 /\ o = 0 /\ p = 0 /\ visited = {}

(* The lines that the generator has run through have their pointer.        *)
FillInv ==
  stage = "fill" =>
    /\ i =< l /\ o = Orbit(l)[i] /\ p = 0 /\ visited = {}
    /\ \A k \in 0 .. (i - 1) : line[Orbit(l)[k]] = Follower(Orbit(l)[k])

(* All have, and the chase follows the generator. *)
ChaseInv ==
  stage = "chase" =>
    /\ i =< l /\ o = Orbit(l)[i]
    /\ visited = {Orbit(l)[k] : k \in 0 .. (i - 1)}
    /\ \A x \in Tested : line[x] = Follower(x)

SeqInv ==
  stage = "seq" =>
    /\ i =< l /\ \E n \in 0 .. i : i = 8 * n
    /\ visited = 0 .. (i - 1)

(* A latency test runs on first_cpu, which stays the same. *)
RunInv ==
  stage # "main" =>
    /\ pinned = first_cpu
    /\ phase \in {"stress", "latency", "seq"} \/ (phase = "overall" /\ turn > 0)

IsSetUp == phase \notin {"setup", "failed"}

(* From the set-up on, the blocks of the area are mapped. *)
TouchInv ==
  /\ IsSetUp => Touches \subseteq touched
  /\ last_cpu < NCpus => ~disturbed
  /\ phase = "setup" \/ (phase = "overall" /\ turn = 0) => ~disturbed

(* The set-up is for the cores of the command line.                        *)
SetUpInv == phase = "setup" => first_cpu = opt.first /\ last_cpu = opt.last

LatencyInv ==
  LatencyTypeOK /\ p < Passes /\ MainInv /\ FillInv /\ ChaseInv /\ SeqInv

IInv == TypeOK /\ LatencyInv /\ RunInv /\ TouchInv /\ SetUpInv

-----------------------------------------------------------------------------
(* The latency tests *)

(* The lines of any test. *)
LEMMA TestedLines ==
  ASSUME NEW e \in MinExp .. MaxExp
  PROVE  /\ 2^e \in Nat /\ 2^e >= 8 /\ \E m \in Nat : 2^e = 8 * m
         /\ 2^MaxExp \in Nat /\ 2^e =< 2^MaxExp
         /\ IsOrbit(Orbit(2^e), 2^e)
<1>1. e \in 3 .. 19 /\ MaxExp \in 3 .. 19 /\ MaxExp \in e .. 19
  BY ExpAssumption
<1>2. /\ Lines(e) \in Nat /\ Lines(e) >= 8 /\ FullPeriod(Lines(e))
      /\ \E m \in Nat : Lines(e) = 8 * m
      /\ Lines(MaxExp) \in Nat /\ Lines(e) =< Lines(MaxExp)
  BY <1>1, LinesOfTest
<1>3. Lines(e) \in Nat \ {0}
  BY <1>2
<1>4. IsOrbit(Orbit(Lines(e)), Lines(e))
  BY <1>2, <1>3, OrbitOfPeriod
<1> QED
  BY <1>2, <1>4 DEF Lines

(* The lines of the test that runs. *)
LEMMA TestRuns ==
  ASSUME LatencyTypeOK
  PROVE  /\ l \in Nat /\ l >= 8 /\ \E m \in Nat : l = 8 * m
         /\ 2^MaxExp \in Nat /\ l =< 2^MaxExp
         /\ Tested \subseteq Area /\ i \in Nat /\ 0 \in Area
         /\ IsOrbit(Orbit(l), l)
<1>1. exp \in MinExp .. MaxExp /\ i \in 0 .. 2^MaxExp
  BY DEF LatencyTypeOK
<1>2. /\ l \in Nat /\ l >= 8 /\ \E m \in Nat : l = 8 * m
      /\ 2^MaxExp \in Nat /\ l =< 2^MaxExp
      /\ IsOrbit(Orbit(l), l)
  BY <1>1, TestedLines DEF l
<1>3. i \in Nat
  BY <1>1, <1>2
<1>4. Tested \subseteq Area /\ 0 \in Area
  BY <1>2 DEF Tested, Area
<1> QED
  BY <1>2, <1>3, <1>4

(* Before the first test. *)
LEMMA LatencyInit == NoLatencyTest => LatencyInv
<1> SUFFICES ASSUME NoLatencyTest PROVE LatencyInv
  OBVIOUS
<1>1. exp \in MinExp .. MaxExp /\ MinExp \in MinExp .. MaxExp
  BY ExpAssumption DEF NoLatencyTest
<1>2. 2^MaxExp \in Nat /\ 2^MaxExp >= 8
  BY <1>1, ExpAssumption, TestedLines
<1>3. LatencyTypeOK
  <2>1. 0 \in Area /\ 0 \in 0 .. 2^MaxExp /\ 0 \in 0 .. Passes
    BY <1>2 DEF Area, Passes
  <2> QED
    BY <1>1, <2>1 DEF NoLatencyTest, LatencyTypeOK
<1> QED
  BY <1>3 DEF NoLatencyTest, LatencyInv, MainInv, FillInv, ChaseInv, SeqInv, Passes

(* The call of a latency test, of any of its sizes. *)
LEMMA CallStep ==
  ASSUME LatencyInv, NEW loop \in {"fill", "seq"}, NEW e \in MinExp .. MaxExp,
         NEW forever \in BOOLEAN, Call(loop, e, forever)
  PROVE  LatencyInv'
<1>1. LatencyTypeOK'
  BY DEF LatencyInv, Call, LatencyTypeOK, Area
<1>2. i = 0 /\ o = 0 /\ p = 0 /\ visited = {}
  BY DEF LatencyInv, MainInv, Call
<1>3. /\ stage' = loop /\ i' = 0 /\ o' = 0 /\ p' = 0 /\ visited' = {}
  BY <1>2 DEF Call
<1>4. l' \in Nat /\ Orbit(l')[0] = 0
  <2>1. exp' = e
    BY DEF Call
  <2>2. 2^e \in Nat /\ IsOrbit(Orbit(2^e), 2^e)
    BY TestedLines
  <2> QED
    BY <2>1, <2>2 DEF l, IsOrbit
<1>5. MainInv' /\ ChaseInv'
  BY <1>3 DEF MainInv, ChaseInv
<1>6. FillInv'
  BY <1>3, <1>4 DEF FillInv
<1>7. SeqInv'
  BY <1>3, <1>4 DEF SeqInv
<1> QED
  BY <1>1, <1>3, <1>5, <1>6, <1>7 DEF LatencyInv, Passes

(* Other tests write lines between the latency tests. *)
LEMMA LinesWritten ==
  ASSUME LatencyInv, stage = "main", line' \in [Area -> Area \union {Garbage}],
         UNCHANGED <<exp, stage, i, o, p, endless, visited>>
  PROVE  LatencyInv'
<1>1. LatencyTypeOK'
  BY DEF LatencyInv, LatencyTypeOK, Area
<1> QED
  BY <1>1 DEF LatencyInv, MainInv, FillInv, ChaseInv, SeqInv

(* The generator writes the pointer of one line, and no line twice.        *)
LEMMA FillStep ==
  ASSUME LatencyInv, Fill
  PROVE  LatencyInv'
<1>1. /\ stage = "fill" /\ i < l /\ i' = i + 1
      /\ line' = [line EXCEPT ![o] = Follower(o)] /\ o' = Follower(o)
      /\ stage' = "fill" /\ p' = p /\ visited' = visited /\ exp' = exp
      /\ endless' = endless /\ l' = l
  BY DEF Fill, Fills, l
<1>2. LatencyTypeOK /\ i \in Nat /\ i =< l /\ o = Orbit(l)[i] /\ visited = {} /\ p = 0
  BY <1>1, TestRuns DEF LatencyInv, FillInv
<1>3. /\ l \in Nat /\ l >= 8 /\ 2^MaxExp \in Nat /\ l =< 2^MaxExp
      /\ Tested \subseteq Area /\ IsOrbit(Orbit(l), l)
  BY <1>2, TestRuns
<1>4. i \in 0 .. (l - 1)
  BY <1>1, <1>2, <1>3
<1>5. o \in Tested /\ Follower(o) = Orbit(l)[i + 1] /\ Follower(o) \in Tested
  <2>1. Orbit(l)[i + 1] = (Orbit(l)[i] * 13 + 7) % l
    BY <1>3, <1>4 DEF IsOrbit
  <2>2. i \in 0 .. l /\ i + 1 \in 0 .. l
    BY <1>4, <1>3
  <2>3. Orbit(l)[i] \in 0 .. (l - 1) /\ Orbit(l)[i + 1] \in 0 .. (l - 1)
    BY <2>2, <1>3 DEF IsOrbit
  <2> QED
    BY <1>2, <2>1, <2>3 DEF Follower, Tested
<1>6. LatencyTypeOK'
  <2>1. i' \in 0 .. 2^MaxExp
    BY <1>1, <1>3, <1>4
  <2>2. line' \in [Area -> Area \union {Garbage}] /\ o' \in Area
    BY <1>1, <1>2, <1>3, <1>5 DEF LatencyTypeOK
  <2> QED
    BY <1>1, <1>2, <2>1, <2>2 DEF LatencyTypeOK, Area
<1>7. FillInv'
  <2>1. ASSUME NEW k \in 0 .. i
        PROVE  line'[Orbit(l)[k]] = Follower(Orbit(l)[k])
    <3>1. k \in 0 .. l
      BY <1>4, <1>3
    <3>2. Orbit(l)[k] \in Area
      BY <3>1, <1>3 DEF IsOrbit, Tested
    <3>3. line \in [Area -> Area \union {Garbage}]
      BY <1>2 DEF LatencyTypeOK
    <3>4. CASE k = i
      BY <1>1, <1>2, <3>2, <3>3, <3>4
    <3>5. CASE k < i
      <4>1. k \in 0 .. (i - 1)
        BY <1>2, <3>5
      <4>2. line[Orbit(l)[k]] = Follower(Orbit(l)[k])
        BY <1>1, <4>1 DEF LatencyInv, FillInv
      <4> QED
        BY <1>1, <1>2, <3>2, <3>3, <4>2
    <3> QED
      BY <1>2, <3>4, <3>5
  <2>2. i' =< l /\ o' = Orbit(l)[i'] /\ i' - 1 = i
    BY <1>1, <1>2, <1>3, <1>5
  <2>3. Follower(Orbit(l)[0])' = Follower(Orbit(l)[0])
    BY <1>1 DEF Follower
  <2>4. \A k \in 0 .. (i' - 1) : line'[Orbit(l)[k]] = (Orbit(l)[k] * 13 + 7) % l
    BY <2>1, <2>2 DEF Follower
  <2> QED
    BY <1>1, <1>2, <2>2, <2>4 DEF FillInv, Follower
<1>8. MainInv' /\ ChaseInv' /\ SeqInv' /\ (p < Passes)'
  BY <1>1 DEF MainInv, ChaseInv, SeqInv, LatencyInv
<1> QED
  BY <1>6, <1>7, <1>8 DEF LatencyInv

(* When the generator is back at line 0 every line has its pointer.        *)
LEMMA FilledStep ==
  ASSUME LatencyInv, Filled
  PROVE  LatencyInv'
<1>1. /\ stage = "fill" /\ i >= l /\ i' = 0 /\ o' = 0 /\ line' = line
      /\ stage' = "chase" /\ p' = p /\ visited' = visited /\ exp' = exp
      /\ endless' = endless /\ l' = l
  BY DEF Filled, Fills, l
<1>2. LatencyTypeOK /\ i \in Nat /\ i =< l /\ visited = {}
  BY <1>1, TestRuns DEF LatencyInv, FillInv
<1>3. l \in Nat /\ l >= 8 /\ 2^MaxExp \in Nat /\ 0 \in Area /\ IsOrbit(Orbit(l), l)
  BY <1>2, TestRuns
<1>4. i = l
  BY <1>1, <1>2, <1>3
<1>5. LatencyTypeOK'
  <2>1. 0 \in 0 .. 2^MaxExp
    BY <1>3
  <2> QED
    BY <1>1, <1>2, <1>3, <2>1 DEF LatencyTypeOK, Area
<1>6. ChaseInv'
  <2>1. ASSUME NEW x \in Tested
        PROVE  line[x] = Follower(x)
    <3>1. PICK k \in 0 .. (l - 1) : Orbit(l)[k] = x
      BY <1>3 DEF IsOrbit, Tested
    <3>2. line[Orbit(l)[k]] = Follower(Orbit(l)[k])
      BY <1>1, <1>4 DEF LatencyInv, FillInv
    <3> QED
      BY <3>1, <3>2
  <2>2. Orbit(l)[0] = 0
    BY <1>3 DEF IsOrbit
  <2>3. {Orbit(l)[k] : k \in 0 .. (0 - 1)} = {}
    OBVIOUS
  <2> QED
    BY <1>1, <1>2, <1>3, <2>1, <2>2, <2>3 DEF ChaseInv, Follower, Tested
<1>7. MainInv' /\ FillInv' /\ SeqInv' /\ (p < Passes)'
  BY <1>1 DEF MainInv, FillInv, SeqInv, LatencyInv
<1> QED
  BY <1>5, <1>6, <1>7 DEF LatencyInv

(* The chase reads the line that the generator has been at.                *)
LEMMA ChaseStep ==
  ASSUME LatencyInv, Chase
  PROVE  LatencyInv'
<1>1. /\ stage = "chase" /\ i < l /\ i' = i + 1 /\ visited' = visited \union {o}
      /\ o' = line[o] /\ line' = line /\ stage' = "chase" /\ p' = p /\ exp' = exp
      /\ endless' = endless /\ l' = l
  BY DEF Chase, l
<1>2. /\ LatencyTypeOK /\ i \in Nat /\ i =< l /\ o = Orbit(l)[i]
      /\ visited = {Orbit(l)[k] : k \in 0 .. (i - 1)}
      /\ \A x \in Tested : line[x] = Follower(x)
  BY <1>1, TestRuns DEF LatencyInv, ChaseInv
<1>3. /\ l \in Nat /\ l >= 8 /\ 2^MaxExp \in Nat /\ l =< 2^MaxExp
      /\ Tested \subseteq Area /\ IsOrbit(Orbit(l), l)
  BY <1>2, TestRuns
<1>4. i \in 0 .. (l - 1) /\ i \in 0 .. l /\ i + 1 \in 0 .. l
  BY <1>1, <1>2, <1>3
<1>5. o \in Tested /\ line[o] = Orbit(l)[i + 1] /\ line[o] \in Tested
  <2>1. Orbit(l)[i + 1] = (Orbit(l)[i] * 13 + 7) % l
    BY <1>3, <1>4 DEF IsOrbit
  <2>2. Orbit(l)[i] \in 0 .. (l - 1) /\ Orbit(l)[i + 1] \in 0 .. (l - 1)
    BY <1>4, <1>3 DEF IsOrbit
  <2>3. o \in Tested
    BY <1>2, <2>2 DEF Tested
  <2>4. line[o] = Orbit(l)[i + 1]
    BY <1>2, <2>1, <2>3 DEF Follower
  <2> QED
    BY <2>2, <2>3, <2>4 DEF Tested
<1>6. LatencyTypeOK'
  <2>1. i' \in 0 .. 2^MaxExp
    BY <1>1, <1>3, <1>4
  <2>2. o' \in Area /\ visited' \subseteq Area
    BY <1>1, <1>2, <1>3, <1>5 DEF LatencyTypeOK
  <2> QED
    BY <1>1, <1>2, <2>1, <2>2 DEF LatencyTypeOK, Area
<1>7. ChaseInv'
  <2>1. visited' = {Orbit(l)[k] : k \in 0 .. (i' - 1)}
    <3>1. i' - 1 = i
      BY <1>1, <1>2
    <3>2. \A k : k \in 0 .. i <=> k \in 0 .. (i - 1) \/ k = i
      BY <1>2
    <3>3. {Orbit(l)[k] : k \in 0 .. i} = {Orbit(l)[k] : k \in 0 .. (i - 1)} \union {Orbit(l)[i]}
      BY <3>2
    <3> QED
      BY <1>1, <1>2, <3>1, <3>3
  <2>2. i' =< l /\ o' = Orbit(l)[i']
    BY <1>1, <1>2, <1>3, <1>5
  <2> QED
    BY <1>1, <1>2, <2>1, <2>2 DEF ChaseInv, Follower, Tested
<1>8. MainInv' /\ FillInv' /\ SeqInv' /\ (p < Passes)'
  BY <1>1 DEF MainInv, FillInv, SeqInv, LatencyInv
<1> QED
  BY <1>6, <1>7, <1>8 DEF LatencyInv

(* Eight lines more, which are lines of the test. *)
LEMMA SeqStep ==
  ASSUME LatencyInv, Seq
  PROVE  LatencyInv'
<1>1. /\ stage = "seq" /\ i < l /\ i' = i + 8
      /\ visited' = visited \union (i .. (i + 7))
      /\ o' = o /\ line' = line /\ stage' = "seq" /\ p' = p /\ exp' = exp
      /\ endless' = endless /\ l' = l
  BY DEF Seq, l
<1>2. /\ LatencyTypeOK /\ i \in Nat /\ \E n \in 0 .. i : i = 8 * n
      /\ visited = 0 .. (i - 1)
  BY <1>1, TestRuns DEF LatencyInv, SeqInv
<1>3. /\ l \in Nat /\ \E m \in Nat : l = 8 * m
      /\ 2^MaxExp \in Nat /\ l =< 2^MaxExp /\ Tested \subseteq Area
  BY <1>2, TestRuns
<1>4. i + 8 =< l
  BY <1>1, <1>2, <1>3
<1>5. visited' = 0 .. (i' - 1)
  BY <1>1, <1>2
<1>6. \E n \in 0 .. i' : i' = 8 * n
  <2>1. PICK n \in 0 .. i : i = 8 * n
    BY <1>2
  <2>2. n + 1 \in 0 .. i' /\ i' = 8 * (n + 1)
    BY <1>1, <1>2, <2>1
  <2> QED
    BY <2>2
<1>7. LatencyTypeOK'
  <2>1. i' \in 0 .. 2^MaxExp
    BY <1>1, <1>2, <1>3, <1>4
  <2>2. visited' \subseteq Tested
    BY <1>1, <1>2, <1>3, <1>4, <1>5 DEF Tested
  <2> QED
    BY <1>1, <1>2, <1>3, <2>1, <2>2 DEF LatencyTypeOK, Area
<1>8. SeqInv'
  BY <1>1, <1>4, <1>5, <1>6 DEF SeqInv
<1>9. MainInv' /\ FillInv' /\ ChaseInv' /\ (p < Passes)'
  BY <1>1 DEF MainInv, FillInv, ChaseInv, LatencyInv
<1> QED
  BY <1>7, <1>8, <1>9 DEF LatencyInv

(* Another pass, or the end of the test. *)
LEMMA PassOverStep ==
  ASSUME LatencyInv, PassOver
  PROVE  LatencyInv'
<1>1. /\ stage \in {"chase", "seq"} /\ i' = 0 /\ o' = 0 /\ visited' = {}
      /\ \/ p + 1 < Passes /\ p' = p + 1 /\ stage' = stage
         \/ p' = 0 /\ stage' \in {"seq", "main"} /\ (stage' = "seq" => endless)
      /\ line' = line /\ exp' = exp /\ endless' = endless /\ l' = l
  BY DEF PassOver, l
<1>2. LatencyTypeOK /\ p \in Nat /\ l \in Nat /\ 0 \in Area /\ 2^MaxExp \in Nat
      /\ IsOrbit(Orbit(l), l)
  <2>1. LatencyTypeOK
    BY DEF LatencyInv
  <2>2. p \in 0 .. 5
    BY <2>1 DEF LatencyTypeOK, Passes
  <2> QED
    BY <2>1, <2>2, TestRuns
<1>3. p' \in 0 .. Passes /\ p' < Passes
  BY <1>1, <1>2 DEF Passes
<1>4. LatencyTypeOK'
  <2>1. 0 \in 0 .. 2^MaxExp
    BY <1>2
  <2> QED
    BY <1>1, <1>2, <1>3, <2>1 DEF LatencyTypeOK, Area
<1>5. ChaseInv'
  <2> SUFFICES ASSUME stage' = "chase" PROVE ChaseInv'
    BY DEF ChaseInv
  <2>1. \A x \in Tested : line[x] = Follower(x)
    BY <1>1 DEF LatencyInv, ChaseInv
  <2>2. Orbit(l)[0] = 0 /\ {Orbit(l)[k] : k \in 0 .. (0 - 1)} = {}
    BY <1>2 DEF IsOrbit
  <2> QED
    BY <1>1, <1>2, <2>1, <2>2 DEF ChaseInv, Follower, Tested
<1>6. SeqInv'
  <2>1. 0 \in 0 .. 0 /\ 0 = 8 * 0 /\ {} = 0 .. (0 - 1)
    OBVIOUS
  <2> QED
    BY <1>1, <1>2, <2>1 DEF SeqInv
<1>7. FillInv'
  BY <1>1 DEF FillInv
<1>8. MainInv'
  BY <1>1 DEF MainInv
<1> QED
  BY <1>3, <1>4, <1>5, <1>6, <1>7, <1>8 DEF LatencyInv

(* Every step of a latency test keeps its invariant. *)
LEMMA LatencySteps ==
  ASSUME LatencyInv, LatencyStep
  PROVE  LatencyInv'
  BY FillStep, FilledStep, ChaseStep, SeqStep, PassOverStep DEF LatencyStep

(* A pass that is over has read every line. *)
LEMMA PassIsComplete == LatencyInv => EveryLineOnce
<1> SUFFICES ASSUME LatencyInv, stage \in {"chase", "seq"}, i >= l
             PROVE  visited = Tested /\ i = l
  BY DEF EveryLineOnce
<1>1. l \in Nat /\ i \in Nat /\ IsOrbit(Orbit(l), l)
  BY TestRuns DEF LatencyInv
<1>2. i = l
  BY <1>1 DEF LatencyInv, ChaseInv, SeqInv
<1>3. CASE stage = "seq"
  BY <1>2, <1>3 DEF LatencyInv, SeqInv, Tested
<1>4. CASE stage = "chase"
  <2>1. visited = {Orbit(l)[k] : k \in 0 .. (l - 1)}
    BY <1>2, <1>4 DEF LatencyInv, ChaseInv
  <2>2. \A k \in 0 .. (l - 1) : k \in 0 .. l /\ Orbit(l)[k] \in 0 .. (l - 1)
    <3>1. \A k \in 0 .. (l - 1) : k \in 0 .. l
      BY <1>1
    <3>2. \A k \in 0 .. l : Orbit(l)[k] \in 0 .. (l - 1)
      BY <1>1 DEF IsOrbit
    <3> QED
      BY <3>1, <3>2
  <2>3. \A y \in 0 .. (l - 1) : \E k \in 0 .. (l - 1) : Orbit(l)[k] = y
    BY <1>1 DEF IsOrbit
  <2>4. visited = 0 .. (l - 1)
    BY <2>1, <2>2, <2>3
  <2> QED
    BY <1>2, <2>4 DEF Tested
<1> QED
  BY <1>2, <1>3, <1>4

-----------------------------------------------------------------------------
(* The parts of the workers *)

(* The parts of a command line. *)
LEMMA OptionTypes ==
  ASSUME TypeOK
  PROVE  /\ opt \in Options /\ opt.first \in Nat /\ opt.last \in Nat
         /\ opt.stress \in {"none", "w", "c", "r", "l"} /\ opt.cpuMemory \in BOOLEAN
         /\ first_cpu \in Nat /\ last_cpu \in Nat
  BY OptionsAssumption DEF TypeOK

(* An address in the parts of the workers, by the blocks it may be in. *)
LEMMA BlockOfAddress ==
  ASSUME NEW x \in Nat
  PROVE  /\ x \div 65536 \in Nat
         /\ x < 196608 => x \div 65536 \in Touches
  BY DEF Touches

(* The part of a worker of a throughput test has at most 2^25 bytes: the   *)
(* parts of all the cores of the machine are in the three blocks.          *)
LEMMA PartsOfWorkers ==
  ASSUME TypeOK, NEW size \in 14 .. 25
  PROVE  /\ BlocksOf(size) \subseteq Nat
         /\ last_cpu < NCpus => BlocksOf(size) \subseteq Touches
<1> DEFINE part == Lines(size - 14)
<1>1. part \in Nat /\ 1 =< part /\ part =< 2048
  <2>1. size - 14 \in {0, 1, 2, 3, 4, 5, 6, 7, 8, 9, 10, 11}
    OBVIOUS
  <2> QED
    BY <2>1, Powers
<1>2. first_cpu \in Nat /\ last_cpu \in Nat
  BY OptionTypes
<1> DEFINE starts == {w * part : w \in first_cpu .. last_cpu}
           ends == {(w + 1) * part - 1 : w \in first_cpu .. last_cpu}
<1>3. ASSUME NEW w \in first_cpu .. last_cpu
      PROVE  /\ w * part \in Nat /\ (w + 1) * part - 1 \in Nat
             /\ last_cpu < NCpus => w * part < 196608 /\ (w + 1) * part - 1 < 196608
  <2>1. w \in Nat
    BY <1>2
  <2> HIDE DEF part
  <2>2. w * part \in Nat /\ (w + 1) * part = w * part + part
    BY <2>1, <1>1
  <2>3. ASSUME last_cpu < NCpus
        PROVE  w * part + part =< 196608
    <3>1. w + 1 =< 96
      BY <2>3, <1>2, NCpusAssumption
    <3>2. (w + 1) * part =< 96 * part
      BY <3>1, <2>1, <1>1
    <3> QED
      BY <3>2, <2>2, <1>1
  <2> QED
    BY <2>2, <2>3, <1>1
<1>4. starts \union ends \subseteq Nat
  BY <1>3
<1>5. last_cpu < NCpus => \A x \in starts \union ends : x < 196608
  BY <1>3
<1>6. BlocksOf(size) = {x \div 65536 : x \in starts \union ends}
  BY DEF BlocksOf, Lines
<1> HIDE DEF starts, ends
<1> QED
  BY <1>4, <1>5, <1>6, BlockOfAddress

(***************************************************************************)
(* A call of start_threads keeps what the set-up has done.                 *)
(***************************************************************************)
LEMMA StartThreadsStep ==
  ASSUME IInv, NEW kind \in {"write", "clear", "read"}, NEW size \in 14 .. 25,
         StartThreads(kind, size), IsSetUp, UNCHANGED cores, turn' \in 0 .. 36,
         phase \in DOMAIN After, phase = "overall" => turn' > 0
  PROVE  IInv'
<1>1. /\ stage = "main" /\ phase' \in {phase, "hung", "killed"}
      /\ UNCHANGED <<opt, l2_cache_size, pinned, ran, exp, stage, i, o, p,
                     endless, visited, first_cpu, last_cpu>>
      /\ touched' = touched \union BlocksOf(size)
      /\ disturbed' = (disturbed \/ touched' # touched)
  BY DEF StartThreads, StartThreadsEnds, setup, cores, After
<1>2. TypeOK /\ LatencyInv /\ LatencyTypeOK /\ Touches \subseteq touched
  BY DEF IInv, LatencyInv, TouchInv
<1>3. line' \in [Area -> Area \union {Garbage}]
  <2>1. line \in [Area -> Area \union {Garbage}] /\ 0 \in Area
    BY <1>2, TestRuns DEF LatencyTypeOK
  <2>2. \A x \in Area : Left(kind, line[x]) \in Area \union {Garbage}
    BY <2>1 DEF Left
  <2> QED
    BY <2>1, <2>2 DEF StartThreads
<1>4. LatencyInv'
  BY <1>1, <1>2, <1>3, LinesWritten
<1>5. TypeOK'
  <2>1. touched' \subseteq Nat /\ disturbed' \in BOOLEAN
    BY <1>1, <1>2, PartsOfWorkers DEF TypeOK
  <2> QED
    BY <1>1, <1>2, <1>4, <2>1 DEF TypeOK, LatencyInv
<1>6. RunInv'
  BY <1>1 DEF RunInv
<1>7. last_cpu < NCpus => touched' = touched
  BY <1>1, <1>2, PartsOfWorkers
<1>8. phase' # "setup" /\ (phase' = "overall" => turn' > 0)
  BY <1>1 DEF IsSetUp
<1>9. TouchInv'
  <2>1. Touches \subseteq touched'
    BY <1>1, <1>2
  <2>2. last_cpu' < NCpus => ~disturbed'
    BY <1>1, <1>7 DEF IInv, TouchInv
  <2> QED
    BY <1>8, <2>1, <2>2 DEF TouchInv, Touches
<1>10. SetUpInv'
  BY <1>8 DEF SetUpInv
<1> QED
  BY <1>4, <1>5, <1>6, <1>9, <1>10 DEF IInv

(***************************************************************************)
(* So does a call of do_c2c_test, whose two lines are in the area or in    *)
(* the FPGA's part of it.                                                  *)
(***************************************************************************)
LEMMA C2cTestStep ==
  ASSUME IInv, DoC2cTest, IsSetUp, UNCHANGED cores, turn' \in 0 .. 36,
         phase \in DOMAIN After, phase = "overall" => turn' > 0
  PROVE  IInv'
<1>1. /\ stage = "main" /\ phase' \in {phase, "hung"}
      /\ UNCHANGED <<opt, l2_cache_size, pinned, ran, exp, stage, i, o, p,
                     endless, visited, first_cpu, last_cpu, disturbed>>
      /\ touched' = touched \union {C2cBlock} /\ C2cBlock \in Nat
  BY DEF DoC2cTest, setup, cores, C2cBlock, FpgaLine
<1>2. TypeOK /\ LatencyInv /\ LatencyTypeOK /\ Touches \subseteq touched
  BY DEF IInv, LatencyInv, TouchInv
<1>3. line' \in [Area -> Area \union {Garbage}]
  <2>1. line \in [Area -> Area \union {Garbage}] /\ 0 \in Area
    BY <1>2, TestRuns DEF LatencyTypeOK
  <2> QED
    BY <2>1 DEF DoC2cTest
<1>4. LatencyInv'
  BY <1>1, <1>2, <1>3, LinesWritten
<1>5. TypeOK'
  BY <1>1, <1>2, <1>4 DEF TypeOK, LatencyInv
<1>6. RunInv'
  BY <1>1 DEF RunInv
<1>7. phase' # "setup" /\ (phase' = "overall" => turn' > 0)
  BY <1>1 DEF IsSetUp
<1>8. TouchInv'
  BY <1>1, <1>2, <1>7 DEF IInv, TouchInv, Touches
<1>9. SetUpInv'
  BY <1>7 DEF SetUpInv
<1> QED
  BY <1>4, <1>5, <1>6, <1>8, <1>9 DEF IInv

(***************************************************************************)
(* A latency test is called with main bound to first_cpu, or not at all.   *)
(***************************************************************************)
LEMMA PinnedStep ==
  ASSUME IInv, NEW loop \in {"fill", "seq"}, NEW e \in MinExp .. MaxExp,
         NEW forever \in BOOLEAN, Pinned(Call(loop, e, forever)),
         UNCHANGED cores, turn' \in 0 .. 36,
         phase \in {"stress", "latency", "seq"} \/ (phase = "overall" /\ turn' > 0)
  PROVE  IInv'
<1>1. /\ stage = "main"
      /\ UNCHANGED <<opt, l2_cache_size, first_cpu, last_cpu, touched,
                     disturbed, ran>>
      /\ \/ /\ first_cpu < NCpus /\ Call(loop, e, forever)
            /\ pinned' = first_cpu /\ phase' = phase
         \/ phase' = "killed" /\ UNCHANGED <<pinned, latencyVars>>
  BY DEF Pinned, setup, cores
<1>2. TypeOK /\ LatencyInv /\ LatencyTypeOK /\ IsSetUp
  BY DEF IInv, LatencyInv, IsSetUp
<1>3. LatencyInv'
  <2>1. CASE Call(loop, e, forever)
    BY <1>2, <2>1, CallStep
  <2>2. CASE UNCHANGED latencyVars
    <3>1. /\ line' = line /\ UNCHANGED <<exp, stage, i, o, p, endless, visited>>
          /\ line' \in [Area -> Area \union {Garbage}]
      BY <1>2, <2>2 DEF latencyVars, LatencyTypeOK
    <3> QED
      BY <1>1, <1>2, <3>1, LinesWritten
  <2> QED
    BY <1>1, <2>1, <2>2
<1>4. TypeOK'
  <2>1. pinned' \in -1 .. (NCpus - 1)
    BY <1>1, <1>2, NCpusAssumption DEF TypeOK
  <2>2. phase' \in {"setup", "end", "failed", "hung", "killed"} \union DOMAIN After
    BY <1>1, <1>2 DEF TypeOK
  <2> QED
    BY <1>1, <1>2, <1>3, <2>1, <2>2 DEF TypeOK, LatencyInv
<1>5. RunInv'
  BY <1>1 DEF RunInv, latencyVars
<1>6. phase' # "setup" /\ (phase' = "overall" => turn' > 0)
  BY <1>1
<1>7. TouchInv'
  BY <1>1, <1>2, <1>6 DEF IInv, TouchInv, Touches
<1>8. SetUpInv'
  BY <1>6 DEF SetUpInv
<1> QED
  BY <1>3, <1>4, <1>5, <1>7, <1>8 DEF IInv

-----------------------------------------------------------------------------
(* The set-up *)

(* The size of the L2, as a number. *)
LEMMA L2Bytes == L2Size \in Nat
  BY SMT DEF L2Size

(* A share is at most the whole. *)
LEMMA Share ==
  ASSUME NEW T \in Nat \ {0}, NEW X \in Nat
  PROVE  X \div T \in 0 .. X
<1> DEFINE q == X \div T
<1>1. q \in Int /\ X % T \in 0 .. (T - 1) /\ X = q * T + (X % T)
  BY QuotientAndRemainder
<1> HIDE DEF q
<1>2. q >= 0
  <2>1. q < 0 => q * T + T =< 0 * T
    BY <1>1, MultiplesApart
  <2>2. q * T \in Int /\ 0 * T = 0
    BY <1>1
  <2> QED
    BY <1>1, <2>1, <2>2
<1>3. q * T >= q
  BY <1>1, <1>2
<1> QED
  BY <1>1, <1>2, <1>3 DEF q

(* The invariant holds when main has read its options.                     *)
LEMMA InitIInv == Init => IInv
<1> SUFFICES ASSUME Init PROVE IInv
  OBVIOUS
<1>1. LatencyInv
  BY LatencyInit DEF Init
<1>2. opt \in Options /\ opt.first \in Nat /\ opt.last \in Nat
  BY OptionsAssumption DEF Init
<1>3. TypeOK
  <2>1. 0 \in 0 .. L2Size
    BY L2Bytes
  <2>2. -1 \in -1 .. (NCpus - 1) /\ 0 \in 0 .. 36
    BY NCpusAssumption
  <2>3. phase \in {"setup", "end", "failed", "hung", "killed"} \union DOMAIN After
    BY DEF Init
  <2>4. LatencyTypeOK
    BY <1>1 DEF LatencyInv
  <2> QED
    BY <1>2, <2>1, <2>2, <2>3, <2>4 DEF Init, TypeOK
<1>4. RunInv
  BY DEF Init, NoLatencyTest, RunInv
<1>5. TouchInv /\ SetUpInv
  BY DEF Init, TouchInv, SetUpInv, IsSetUp
<1> QED
  BY <1>1, <1>3, <1>4, <1>5 DEF IInv

(* Nothing changes in the area and in the latency tests. *)
LEMMA NoTestStep ==
  ASSUME LatencyInv, UNCHANGED latencyVars
  PROVE  LatencyInv'
<1>1. LatencyTypeOK'
  BY DEF latencyVars, LatencyInv, LatencyTypeOK, Area
<1>2. l' = l /\ Tested' = Tested
  BY DEF latencyVars, l, Tested
<1> QED
  BY <1>1, <1>2 DEF latencyVars, LatencyInv, MainInv, FillInv, ChaseInv, SeqInv, Follower

(* The set-up prints the cores, divides the L2 and touches the blocks.     *)
LEMMA SetUpStep ==
  ASSUME IInv, SetUp
  PROVE  IInv'
<1>1. /\ phase = "setup" /\ phase' = "overall" /\ l2_cache_size' \in L2Share
      /\ touched' = {0, 1, 2}
      /\ UNCHANGED <<opt, first_cpu, last_cpu, turn, pinned, disturbed, ran, latencyVars>>
  BY DEF SetUp, cores, Touches
<1>2. /\ TypeOK /\ LatencyInv /\ stage = "main" /\ ~disturbed
      /\ first_cpu = opt.first /\ last_cpu = opt.last
  BY <1>1 DEF IInv, RunInv, TouchInv, SetUpInv
<1>3. opt.first \in Nat /\ opt.last \in Nat
  BY <1>2, OptionTypes
<1>4. l2_cache_size' \in 0 .. L2Size
  <2>1. Threads = opt.last - opt.first + 1 /\ Threads \in Int
    BY <1>2, <1>3 DEF Threads
  <2>2. L2Size \in Nat
    BY L2Bytes
  <2>3. Threads > 0 => L2Size \div Threads \in 0 .. L2Size
    BY <2>1, <2>2, Share
  <2>4. 0 \in 0 .. L2Size /\ L2Size \in 0 .. L2Size
    BY <2>2
  <2> QED
    BY <1>1, <1>3, <2>1, <2>3, <2>4 DEF L2Share
<1>6. LatencyInv'
  BY <1>1, <1>2, NoTestStep
<1>7. TypeOK'
  BY <1>1, <1>2, <1>4, <1>6 DEF TypeOK, LatencyInv, After
<1>8. RunInv'
  BY <1>1, <1>2 DEF RunInv, latencyVars
<1>9. TouchInv'
  BY <1>1, <1>2 DEF TouchInv, Touches
<1>10. SetUpInv'
  BY <1>1 DEF SetUpInv
<1> QED
  BY <1>6, <1>7, <1>8, <1>9, <1>10 DEF IInv

(* Without the area no test begins. *)
LEMMA SetUpFailsStep ==
  ASSUME IInv, SetUpFails
  PROVE  IInv'
<1>1. /\ phase = "setup" /\ phase' = "failed"
      /\ UNCHANGED <<opt, l2_cache_size, first_cpu, last_cpu, turn, touched,
                     pinned, disturbed, ran, latencyVars>>
  BY DEF SetUpFails, setup, cores
<1>2. LatencyInv'
  BY <1>1, NoTestStep DEF IInv
<1>3. TypeOK'
  BY <1>1, <1>2 DEF IInv, TypeOK, LatencyInv
<1>4. RunInv' /\ TouchInv' /\ SetUpInv'
  BY <1>1 DEF IInv, RunInv, TouchInv, SetUpInv, IsSetUp, latencyVars
<1> QED
  BY <1>2, <1>3, <1>4 DEF IInv

-----------------------------------------------------------------------------
(* The tests of main *)

(* Cores 0 and 1 take the place of those of the command line.              *)
LEMMA OverallStep ==
  ASSUME IInv, Overall
  PROVE  IInv'
<1>1. phase = "overall" /\ Asked("overall") /\ turn' = turn + 1
      /\ phase \in DOMAIN After /\ IsSetUp
  BY DEF Overall, Turn, After, IsSetUp
<1>2. turn \in 0 .. 36
  BY DEF IInv, TypeOK
<1>3. CASE /\ turn = 0 /\ first_cpu' = 0 /\ last_cpu' = 1
           /\ UNCHANGED <<setup, phase, touched, pinned, disturbed, ran, latencyVars>>
  <2>1. /\ UNCHANGED <<opt, l2_cache_size, phase, touched, pinned, disturbed,
                       ran, latencyVars>>
        /\ turn' = 1
    BY <1>1, <1>3 DEF setup
  <2>2. stage = "main" /\ stage' = "main" /\ ~disturbed
    BY <1>1, <1>3 DEF IInv, RunInv, TouchInv, latencyVars
  <2>3. LatencyInv'
    BY <2>1, NoTestStep DEF IInv
  <2>4. TypeOK'
    BY <1>3, <2>1, <2>3 DEF IInv, TypeOK, LatencyInv
  <2>5. RunInv' /\ TouchInv'
    BY <2>1, <2>2 DEF IInv, RunInv, TouchInv, IsSetUp, Touches
  <2>6. SetUpInv'
    BY <1>1, <2>1 DEF SetUpInv
  <2> QED
    BY <2>3, <2>4, <2>5, <2>6 DEF IInv
<1>4. CASE turn \in 1 .. 3 /\ StartThreads(Kinds[turn], 25) /\ UNCHANGED cores
  <2>1. Kinds[turn] \in {"write", "clear", "read"}
    BY <1>4 DEF Kinds
  <2>2. turn' \in 0 .. 36 /\ turn' > 0 /\ 25 \in 14 .. 25
    BY <1>1, <1>4
  <2> QED
    BY <1>1, <1>4, <2>1, <2>2, StartThreadsStep
<1>5. CASE turn = 4 /\ DoC2cTest /\ UNCHANGED cores
  <2>1. turn' \in 0 .. 36 /\ turn' > 0
    BY <1>1, <1>5
  <2> QED
    BY <1>1, <1>5, <2>1, C2cTestStep
<1>6. CASE turn = 5 /\ Pinned(DoSeqLatencyTest(MaxExp, FALSE)) /\ UNCHANGED cores
  <2>1. turn' \in 0 .. 36 /\ turn' > 0 /\ MaxExp \in MinExp .. MaxExp
    BY <1>1, <1>6, ExpAssumption
  <2>2. Pinned(Call("seq", MaxExp, FALSE))
    BY <1>6 DEF DoSeqLatencyTest
  <2> QED
    BY <1>1, <1>6, <2>1, <2>2, PinnedStep
<1> QED
  BY <1>3, <1>4, <1>5, <1>6 DEF Overall

(* The sizes from 2^14 to 2^25, each with the three kinds.                 *)
LEMMA ThroughputStep ==
  ASSUME IInv, Throughput
  PROVE  IInv'
<1>1. /\ phase = "throughput" /\ phase \in DOMAIN After /\ IsSetUp
      /\ turn' = turn + 1 /\ UNCHANGED cores
      /\ StartThreads(Kinds[(turn % 3) + 1], ThroughputSize) /\ ThroughputSize =< 25
  BY DEF Throughput, Turn, After, IsSetUp
<1>2. turn \in 0 .. 36
  BY DEF IInv, TypeOK
<1>3. ThroughputSize \in 14 .. 25 /\ turn' \in 0 .. 36
  BY <1>1, <1>2 DEF ThroughputSize
<1>4. Kinds[(turn % 3) + 1] \in {"write", "clear", "read"}
  <2>1. (turn % 3) + 1 \in {1, 2, 3}
    BY <1>2
  <2> QED
    BY <2>1 DEF Kinds
<1> QED
  BY <1>1, <1>3, <1>4, StartThreadsStep

(* Either workers over and over, or one endless latency test.              *)
LEMMA StressStep ==
  ASSUME IInv, Stress
  PROVE  IInv'
<1>1. /\ phase = "stress" /\ phase \in DOMAIN After /\ IsSetUp
      /\ opt.stress # "none" /\ turn' = turn /\ UNCHANGED cores
  BY DEF Stress, Asked, After, IsSetUp
<1>2. turn' \in 0 .. 36 /\ opt.stress \in {"none", "w", "c", "r", "l"}
  BY <1>1, OptionTypes DEF IInv, TypeOK
<1>3. CASE opt.stress # "l" /\ StartThreads(Modes[opt.stress], 25)
  <2>1. Modes[opt.stress] \in {"write", "clear", "read"} /\ 25 \in 14 .. 25
    BY <1>1, <1>2, <1>3 DEF Modes
  <2> QED
    BY <1>1, <1>2, <1>3, <2>1, StartThreadsStep
<1>4. CASE Pinned(DoSeqLatencyTest(MaxExp, TRUE))
  <2>1. Pinned(Call("seq", MaxExp, TRUE))
    BY <1>4 DEF DoSeqLatencyTest
  <2>2. MaxExp \in MinExp .. MaxExp
    BY ExpAssumption
  <2> QED
    BY <1>1, <1>2, <2>1, <2>2, PinnedStep
<1> QED
  BY <1>3, <1>4 DEF Stress

(* One core-to-core test on the cores of the command line.                 *)
LEMMA CoreToCoreStep ==
  ASSUME IInv, CoreToCore
  PROVE  IInv'
<1>1. /\ phase = "c2c" /\ phase \in DOMAIN After /\ IsSetUp
      /\ turn' \in 0 .. 36 /\ UNCHANGED cores /\ DoC2cTest
  BY DEF CoreToCore, Turn, After, IsSetUp
<1> QED
  BY <1>1, C2cTestStep

(* The latency tests of growing sizes. *)
LEMMA LatencyTestsStep ==
  ASSUME IInv, Latency
  PROVE  IInv'
<1>1. /\ phase \in {"latency", "seq"} /\ UNCHANGED cores
      /\ turn' = turn + 1 /\ MinExp + turn =< MaxExp
  BY DEF Latency, Turn
<1>2. turn \in 0 .. 36
  BY DEF IInv, TypeOK
<1> DEFINE e == MinExp + turn
<1>3. turn' \in 0 .. 36 /\ e \in MinExp .. MaxExp
  BY <1>1, <1>2, ExpAssumption
<1>4. Pinned(Call("fill", e, FALSE)) \/ Pinned(Call("seq", e, FALSE))
  BY DEF Latency, DoLatencyTest, DoSeqLatencyTest
<1> HIDE DEF e
<1> QED
  BY <1>1, <1>3, <1>4, PinnedStep

(* Between two tests of main only the counters change. *)
LEMMA NextPhaseStep ==
  ASSUME IInv, NextPhase
  PROVE  IInv'
<1>1. /\ phase \in DOMAIN After /\ stage = "main" /\ phase' = After[phase] /\ turn' = 0
      /\ ran' \in {ran, ran \union {phase}}
      /\ UNCHANGED <<opt, l2_cache_size, first_cpu, last_cpu, touched,
                     pinned, disturbed, latencyVars>>
  BY DEF NextPhase, setup, cores
<1>2. /\ phase' \in {"throughput", "stress", "c2c", "latency", "seq", "end"}
      /\ phase' \in {"end"} \union DOMAIN After /\ IsSetUp
  BY <1>1 DEF After, IsSetUp
<1>3. LatencyInv'
  BY <1>1, NoTestStep DEF IInv
<1>4. TypeOK'
  BY <1>1, <1>2, <1>3 DEF IInv, TypeOK, LatencyInv
<1>5. RunInv'
  BY <1>1 DEF RunInv, latencyVars
<1>6. TouchInv'
  BY <1>1, <1>2 DEF IInv, TouchInv, Touches
<1>7. SetUpInv'
  BY <1>1, <1>2 DEF SetUpInv
<1> QED
  BY <1>3, <1>4, <1>5, <1>6, <1>7 DEF IInv

(* A latency test changes nothing of main. *)
LEMMA InLatencyTestStep ==
  ASSUME IInv, InLatencyTest
  PROVE  IInv'
<1>1. /\ LatencyStep
      /\ UNCHANGED <<opt, l2_cache_size, first_cpu, last_cpu, phase, turn,
                     touched, pinned, disturbed, ran>>
  BY DEF InLatencyTest, setup, cores
<1>2. stage # "main"
  BY <1>1 DEF LatencyStep, Fill, Filled, Chase, Seq, PassOver
<1>3. LatencyInv'
  BY <1>1, LatencySteps DEF IInv
<1>4. TypeOK'
  BY <1>1, <1>3 DEF IInv, TypeOK, LatencyInv
<1>5. RunInv'
  BY <1>1, <1>2 DEF IInv, RunInv
<1>6. TouchInv' /\ SetUpInv'
  BY <1>1 DEF IInv, TouchInv, SetUpInv, IsSetUp, Touches
<1> QED
  BY <1>3, <1>4, <1>5, <1>6 DEF IInv

(* Nor does a step that changes nothing. *)
LEMMA StutterStep ==
  ASSUME IInv, UNCHANGED vars
  PROVE  IInv'
<1>1. UNCHANGED <<opt, l2_cache_size, first_cpu, last_cpu, phase, turn,
                  touched, pinned, disturbed, ran, latencyVars>>
  BY DEF vars, setup, cores
<1>2. LatencyInv'
  BY <1>1, NoTestStep DEF IInv
<1>3. TypeOK'
  BY <1>1, <1>2 DEF IInv, TypeOK, LatencyInv
<1>4. RunInv' /\ TouchInv' /\ SetUpInv'
  BY <1>1 DEF IInv, RunInv, TouchInv, SetUpInv, IsSetUp, Touches,
              latencyVars
<1> QED
  BY <1>2, <1>3, <1>4 DEF IInv

(* Every step of main keeps the invariant. *)
LEMMA NextIInv == IInv /\ [Next]_vars => IInv'
  BY SetUpStep, SetUpFailsStep, NextPhaseStep, OverallStep, ThroughputStep, StressStep,
     CoreToCoreStep, LatencyTestsStep, InLatencyTestStep, StutterStep
  DEF Next

(* The invariant of main, for every command line. *)
THEOREM Invariance == Spec => []IInv
<1>1. Init => IInv
  BY InitIInv
<1>2. IInv /\ [Next]_vars => IInv'
  BY NextIInv
<1> QED
  BY <1>1, <1>2, PTL DEF Spec

(***************************************************************************)
(* Every access of main, and of its latency tests, is to a line that is    *)
(* there, with whatever other tests have left in the area.                 *)
(***************************************************************************)
THEOREM TypeCorrect == Spec => []TypeOK
<1>1. IInv => TypeOK
  BY DEF IInv
<1> QED
  BY <1>1, Invariance, PTL

(***************************************************************************)
(* A pass of a latency test reads each line of the size under test once,   *)
(* for each size up to 2^19 lines: o * 13 + 7 modulo a power of two has    *)
(* the full period.                                                        *)
(***************************************************************************)
THEOREM PassesAreComplete == Spec => []EveryLineOnce
<1>1. IInv => EveryLineOnce
  BY PassIsComplete DEF IInv
<1> QED
  BY <1>1, Invariance, PTL

(***************************************************************************)
(* No timed loop has the first access to a block of 1 GB in it, and main   *)
(* is bound to one core for the whole of a latency test.                   *)
(***************************************************************************)
THEOREM NoTestIsDisturbed == Spec => []NothingDisturbs
<1>1. IInv => NothingDisturbs
  BY DEF IInv, RunInv, TouchInv, NothingDisturbs, IsSetUp, Touches
<1> QED
  BY <1>1, Invariance, PTL
=============================================================================
