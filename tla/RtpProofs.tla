----------------------------- MODULE RtpProofs ------------------------------
(***************************************************************************)
(* What holds of the media path for every length of the sequence numbers,  *)
(* every window and every stream: the statistics of RtpTracker, the output *)
(* of RtpForward and the arithmetic of Rtcp.                               *)
(***************************************************************************)
EXTENDS RtpForward, Rtcp, FiniteSetTheorems, TLAPS

-----------------------------------------------------------------------------
(* Arithmetic modulo m.                                                    *)

\* Quotient and remainder.
LEMMA DivMod ==
  ASSUME NEW a \in Int, NEW m \in Nat \ {0}
  PROVE  /\ a % m \in Nat /\ a % m < m /\ a \div m \in Int
         /\ a = m * (a \div m) + (a % m)
<1>1. a % m \in 0..(m - 1)
  BY SMT
<1>2. a \div m \in Int
  BY SMT
<1>3. a = m * (a \div m) + (a % m)
  BY SMT
<1> QED
  BY <1>1, <1>2, <1>3, SMT

\* They are unique.
LEMMA ModUnique ==
  ASSUME NEW m \in Nat \ {0}, NEW q \in Int, NEW r \in Nat, r < m
  PROVE  (m * q + r) % m = r /\ (m * q + r) \div m = q
BY SMT

\* A multiple of m near zero.
LEMMA Multiple ==
  ASSUME NEW m \in Nat \ {0}, NEW q \in Int
  PROVE  /\ -m < m * q /\ m * q < m => q = 0
         /\ 0 < m * q /\ m * q < 2 * m => q = 1
<1>1. q >= 1 => m * q >= m
  BY SMT
<1>2. q >= 2 => m * q >= 2 * m
  BY SMT
<1>3. q <= -1 => m * q <= -m
  BY SMT
<1>4. q = 0 => m * q = 0
  BY SMT
<1>5. m * q \in Int
  BY SMT
<1> DEFINE p == m * q
<1> HIDE DEF p
<1>6. /\ q >= 1 => p >= m
      /\ q >= 2 => p >= 2 * m
      /\ q <= -1 => p <= -m
      /\ q = 0 => p = 0
      /\ p \in Int
  BY <1>1, <1>2, <1>3, <1>4, <1>5 DEF p
<1>7. /\ -m < p /\ p < m => q = 0
      /\ 0 < p /\ p < 2 * m => q = 1
  BY <1>6, SMT
<1> QED
  BY <1>7 DEF p

\* Adding a multiple of m.
LEMMA ModAdd ==
  ASSUME NEW m \in Nat \ {0}, NEW a \in Int, NEW q \in Int
  PROVE  (a + m * q) % m = a % m
<1> DEFINE p == a \div m
           r == a % m
<1>1. r \in Nat /\ r < m /\ p \in Int /\ a = m * p + r
  BY DivMod
<1> HIDE DEF p, r
<1>2. p + q \in Int /\ a + m * q = m * (p + q) + r
  BY <1>1, SMT
<1>3. (m * (p + q) + r) % m = r
  BY <1>1, <1>2, ModUnique
<1> QED
  BY <1>2, <1>3 DEF r

\* The difference of two remainders.
LEMMA ModDiff ==
  ASSUME NEW m \in Nat \ {0}, NEW a \in Int, NEW b \in Int
  PROVE  ((a % m) - (b % m)) % m = (a - b) % m
<1> DEFINE p == a \div m
           r == a % m
           p2 == b \div m
           r2 == b % m
<1>1. /\ r \in Nat /\ p \in Int /\ a = m * p + r
      /\ r2 \in Nat /\ p2 \in Int /\ b = m * p2 + r2
  BY DivMod
<1> HIDE DEF p, r, p2, r2
<1>2. p2 - p \in Int /\ r - r2 = (a - b) + m * (p2 - p)
  <2>1. m * p \in Int /\ m * p2 \in Int /\ m * (p2 - p) = m * p2 - m * p
    BY <1>1, SMT
  <2> DEFINE x == m * p
             y == m * p2
             z == m * (p2 - p)
  <2>2. x \in Int /\ y \in Int /\ z = y - x /\ a = x + r /\ b = y + r2
    BY <1>1, <2>1
  <2> HIDE DEF x, y, z
  <2>3. r - r2 = (a - b) + z
    BY <1>1, <2>2, SMT
  <2> QED
    BY <1>1, <2>3, SMT DEF z
<1>3. a - b \in Int
  BY SMT
<1>4. ((a - b) + m * (p2 - p)) % m = (a - b) % m
  BY <1>2, <1>3, ModAdd, Zenon
<1> QED
  BY <1>2, <1>4, Zenon DEF r, r2

\* A small difference is its own remainder, or is one below zero.
LEMMA SmallDifference ==
  ASSUME NEW m \in Nat \ {0}, NEW d \in Int, -m <= d, d < m
  PROVE  d % m = IF d >= 0 THEN d ELSE d + m
<1>1. CASE d >= 0
  <2>1. (m * 0 + d) % m = d /\ m * 0 + d = d
    BY <1>1, ModUnique, SMT
  <2> QED
    BY <1>1, <2>1
<1>2. CASE d < 0
  <2>1. d + m \in Nat /\ d + m < m
    BY <1>2, SMT
  <2>2. (m * (-1) + (d + m)) % m = d + m
    BY <2>1, ModUnique
  <2>3. m * (-1) + (d + m) = d
    BY SMT
  <2> QED
    BY <1>2, <2>2, <2>3
<1> QED
  BY <1>1, <1>2, SMT

\* Two numbers with the same remainder that are less than m apart are equal.
LEMMA SameRemainder ==
  ASSUME NEW m \in Nat \ {0}, NEW a \in Int, NEW b \in Int, a % m = b % m,
         -m < a - b, a - b < m
  PROVE  a = b
<1> DEFINE p == a \div m
           r == a % m
           p2 == b \div m
<1>1. r \in Nat /\ p \in Int /\ a = m * p + r /\ p2 \in Int /\ b = m * p2 + r
  BY DivMod
<1> HIDE DEF p, r, p2
<1>2. p - p2 \in Int /\ a - b = m * (p - p2)
  BY <1>1, SMT
<1>3. p - p2 = 0
  BY <1>2, Multiple
<1> QED
  BY <1>1, <1>3, SMT

-----------------------------------------------------------------------------
(* The numbers of a stream, modulo SeqModulus.                             *)

Half == SeqModulus \div 2

\* The modulus is even and a multiple of the window.
LEMMA Modulus ==
  /\ SeqModulus \in Nat \ {0} /\ Window \in Nat \ {0}
  /\ Half \in Nat /\ SeqModulus = 2 * Half
  /\ \E k \in Int : SeqModulus = Window * k
<1> DEFINE w == 2 * Window
           k == SeqModulus \div w
<1>1. SeqModulus \in Nat \ {0} /\ Window \in Nat \ {0} /\ w \in Nat \ {0}
  BY TrackerAssumption
<1>2. SeqModulus % w = 0
  BY TrackerAssumption
<1> HIDE DEF w
<1>3. k \in Int /\ SeqModulus = w * k + (SeqModulus % w)
  BY <1>1, DivMod
<1> HIDE DEF k
<1>4. w * k = Window * (2 * k) /\ w * k = 2 * (Window * k) /\ w * k + 0 = w * k
  BY <1>1, <1>3, SMT DEF w
<1>5. SeqModulus = Window * (2 * k) /\ 2 * k \in Int /\ Window * k \in Int
      /\ SeqModulus = 2 * (Window * k)
  BY <1>1, <1>2, <1>3, <1>4, SMT
<1>6. Half \in Nat /\ SeqModulus = 2 * Half
  <2> DEFINE h == Window * k
  <2>1. h \in Int /\ SeqModulus = 2 * h
    BY <1>5
  <2> HIDE DEF h
  <2> QED
    BY <1>1, <2>1, SMT DEF Half
<1> QED
  BY <1>1, <1>5, <1>6, Zenon

\* What arrives is a number of the wire.
LEMMA WireNumber ==
  ASSUME NEW n \in Int
  PROVE  n % SeqModulus \in Nat /\ n % SeqModulus < SeqModulus
BY Modulus, DivMod

\* A number is remembered in the slot that its sender's number has too.
LEMMA SlotOf ==
  ASSUME NEW n \in Int
  PROVE  /\ (n % SeqModulus) % Window = n % Window
         /\ n % Window \in 0..(Window - 1)
<1>0. SeqModulus \in Nat \ {0} /\ Window \in Nat \ {0}
  BY Modulus
<1>1. PICK k \in Int : SeqModulus = Window * k
  BY Modulus
<1> DEFINE p == n \div SeqModulus
           r == n % SeqModulus
<1>2. p \in Int /\ r \in Int /\ n = SeqModulus * p + r
  BY <1>0, DivMod
<1> HIDE DEF p, r
<1>3. k * p \in Int /\ SeqModulus * p = Window * (k * p)
  BY <1>0, <1>1, <1>2, SMT
<1>4. n = r + Window * (k * p)
  <2> DEFINE x == Window * (k * p)
  <2>1. x \in Int /\ n = x + r
    BY <1>0, <1>2, <1>3
  <2> HIDE DEF x
  <2> QED
    BY <1>2, <2>1, SMT DEF x
<1>5. (r + Window * (k * p)) % Window = r % Window
  BY <1>0, <1>2, <1>3, ModAdd, Zenon
<1>6. n % Window \in Nat /\ n % Window < Window
  BY <1>0, DivMod
<1> QED
  BY <1>0, <1>4, <1>5, <1>6 DEF r

\* int16(seq - max) is the distance of the two packets in the stream.
LEMMA DeltaExact ==
  ASSUME NEW n \in Int, NEW t \in Int, n - t \in (-Half)..(Half - 1)
  PROVE  Delta(n % SeqModulus, t % SeqModulus) = n - t
<1> DEFINE d == n - t
<1>0. SeqModulus \in Nat \ {0} /\ Half \in Nat /\ SeqModulus = 2 * Half
  BY Modulus
<1>1. d \in Int /\ -Half <= d /\ d < Half
  BY <1>0, SMT
<1>2. ((n % SeqModulus) - (t % SeqModulus)) % SeqModulus = d % SeqModulus
  BY <1>0, ModDiff, Zenon
<1> HIDE DEF d
<1>a. -SeqModulus <= d /\ d < SeqModulus
  BY <1>0, <1>1, SMT
<1>3. d % SeqModulus = IF d >= 0 THEN d ELSE d + SeqModulus
  BY <1>0, <1>1, <1>a, SmallDifference, Zenon
<1>4. (IF d % SeqModulus < Half THEN d % SeqModulus ELSE (d % SeqModulus) - SeqModulus) = d
  BY <1>0, <1>1, <1>3, SMT
<1> QED
  BY <1>2, <1>4 DEF Delta, Half, d

\* A newer packet starts a new cycle exactly when its number on the wire is
\* smaller.
LEMMA WrapCounted ==
  ASSUME NEW n \in Int, NEW t \in Int, t < n, n - t < SeqModulus
  PROVE  n = (t - (t % SeqModulus)) + (n % SeqModulus)
             + (IF n % SeqModulus < t % SeqModulus THEN SeqModulus ELSE 0)
<1> DEFINE p == n \div SeqModulus
           r == n % SeqModulus
           p2 == t \div SeqModulus
           r2 == t % SeqModulus
           x == SeqModulus * (p - p2)
<1>0. SeqModulus \in Nat \ {0}
  BY Modulus
<1>1. /\ p \in Int /\ r \in Nat /\ r < SeqModulus /\ n = SeqModulus * p + r
      /\ p2 \in Int /\ r2 \in Nat /\ r2 < SeqModulus /\ t = SeqModulus * p2 + r2
  BY <1>0, DivMod
<1> HIDE DEF p, r, p2, r2
<1>2. p - p2 \in Int /\ n - t = x + r - r2 /\ x \in Int
  BY <1>0, <1>1, SMT
<1>3. /\ -SeqModulus < x /\ x < SeqModulus => p - p2 = 0
      /\ 0 < x /\ x < 2 * SeqModulus => p - p2 = 1
  BY <1>0, <1>2, Multiple
<1>4. (p - p2 = 0 => x = 0) /\ (p - p2 = 1 => x = SeqModulus)
  BY <1>0, <1>2, SMT
<1> HIDE DEF x
<1>5. x = IF r < r2 THEN SeqModulus ELSE 0
  BY <1>0, <1>1, <1>2, <1>3, <1>4, SMT
<1> QED
  BY <1>0, <1>1, <1>2, <1>5, SMT DEF r, r2

\* A packet that is not newer belongs to the cycle of the newest, or to the one
\* before.
LEMMA CycleOf ==
  ASSUME NEW n \in Int, NEW t \in Int, n <= t, t - n < SeqModulus
  PROVE  (t - (t % SeqModulus)) + (n % SeqModulus)
           = IF n \div SeqModulus < t \div SeqModulus THEN n + SeqModulus ELSE n
<1> DEFINE p == n \div SeqModulus
           r == n % SeqModulus
           p2 == t \div SeqModulus
           r2 == t % SeqModulus
           x == SeqModulus * (p2 - p)
<1>0. SeqModulus \in Nat \ {0}
  BY Modulus
<1>1. /\ p \in Int /\ r \in Nat /\ r < SeqModulus /\ n = SeqModulus * p + r
      /\ p2 \in Int /\ r2 \in Nat /\ r2 < SeqModulus /\ t = SeqModulus * p2 + r2
  BY <1>0, DivMod
<1> HIDE DEF p, r, p2, r2
<1>2. p2 - p \in Int /\ t - n = x + r2 - r /\ x \in Int
  BY <1>0, <1>1, SMT
<1>3. /\ -SeqModulus < x /\ x < SeqModulus => p2 - p = 0
      /\ 0 < x /\ x < 2 * SeqModulus => p2 - p = 1
  BY <1>0, <1>2, Multiple
<1>4. (p2 - p = 0 => x = 0) /\ (p2 - p = 1 => x = SeqModulus)
  BY <1>0, <1>2, SMT
<1> HIDE DEF x
<1>5. x = IF p < p2 THEN SeqModulus ELSE 0
  BY <1>0, <1>1, <1>2, <1>3, <1>4, SMT
<1>6. (t - r2) + r = n + x
  BY <1>1, <1>2, SMT
<1>7. (t - r2) + r = IF p < p2 THEN n + SeqModulus ELSE n
  BY <1>0, <1>5, <1>6, SMT
<1> QED
  BY <1>7 DEF p, p2, r, r2

-----------------------------------------------------------------------------
(* The statistics.                                                         *)

\* What the tracker knows of a stream: the newest packet, the losses at most,
\* the number it reports, and in their slots the newest packets it got.
Known ==
  /\ first \in Int /\ top \in Int /\ first <= top
  /\ got \subseteq Int /\ top \in got /\ \A g \in got : g <= top
  /\ maxSeq = top % SeqModulus /\ cycles = top - (top % SeqModulus)
  /\ lost \in Nat /\ lost <= Cardinality((first..top) \ got)
  /\ lastSequence = IF last \div SeqModulus < top \div SeqModulus
                      THEN last + SeqModulus ELSE last
  /\ seen \in [0..(Window - 1) -> Int]
  /\ ~stale => \A g \in got : top - g < Window => seen[g % Window] = g % SeqModulus

TrackerInv ==
  /\ ~started => /\ seen = [i \in 0..(Window - 1) |-> NoSeq]
                 /\ cycles = 0 /\ lost = 0 /\ got = {}
  /\ Faithful => Known

\* The four cases of Observe for packet n of the stream: the first one, a
\* repeat, a newer one, and a late one.
Stored(n) == seen' = [seen EXCEPT ![(n % SeqModulus) % Window] = n % SeqModulus]

FirstOne(n) ==
  /\ ~started /\ n \in Starts
  /\ Stored(n) /\ maxSeq' = n % SeqModulus /\ first' = n /\ top' = n
  /\ UNCHANGED <<cycles, lost>>

Again(n) ==
  /\ Faithful /\ n \in got /\ n <= top /\ top - n <= Half
  /\ UNCHANGED <<seen, maxSeq, first, top, cycles, lost>>

Ahead(n) ==
  /\ Faithful /\ top < n /\ n - top < Half
  /\ Stored(n) /\ maxSeq' = n % SeqModulus /\ first' = first /\ top' = n
  /\ cycles' = IF n % SeqModulus < maxSeq THEN cycles + SeqModulus ELSE cycles
  /\ lost' = lost + (n - top) - 1

Behind(n) ==
  /\ Faithful /\ n <= top /\ top - n <= Half
  /\ Stored(n) /\ UNCHANGED <<maxSeq, first, top, cycles>>
  /\ lost' \in {lost, decrementAtomic(lost)}
  /\ n < top => lost' = decrementAtomic(lost)

Recorded(n) ==
  /\ last' = n /\ got' = got \cup {n} /\ lastSequence' = cycles' + (n % SeqModulus)
  /\ ~stale' => ~stale /\ (started => ~(top - n >= Window))

\* The first packet is no repeat: no slot is in use.
LEMMA FirstIsFresh ==
  ASSUME TrackerInv, ~started, NEW n \in Int
  PROVE  ~isRepeat(n % SeqModulus)
<1> DEFINE s == n % SeqModulus
<1>1. s \in Nat
  BY WireNumber, Zenon
<1>2. s % Window \in 0..(Window - 1)
  BY SlotOf, Zenon
<1>3. seen[s % Window] = NoSeq
  BY <1>2, Zenon DEF TrackerInv
<1> HIDE DEF s
<1>4. s # NoSeq
  BY <1>1, SMT DEF NoSeq
<1> QED
  BY <1>3, <1>4, Zenon DEF isRepeat, s

\* Observe takes one of them, as long as the stream is followed.
LEMMA Observed ==
  ASSUME TrackerInv, NEW n \in Int, Arrives(n), Faithful'
  PROVE  Recorded(n) /\ (FirstOne(n) \/ Again(n) \/ Ahead(n) \/ Behind(n))
<1> DEFINE s == n % SeqModulus
<1>0. Half \in Nat
  BY Modulus, Zenon
<1>1. ~fooled /\ ~other /\ (class' = "duplicate" => n \in got)
  BY Zenon DEF Arrives, Faithful
<1>2. Recorded(n)
  BY Zenon DEF Arrives, Observe, publishArrival, Recorded
<1>3. CASE ~started
  <2>1. ~isRepeat(s)
    BY <1>3, FirstIsFresh, Zenon
  <2>2. FirstPacket(s, 1) /\ Remember(s)
    BY <1>3, <2>1, Zenon DEF Arrives, Observe, Repeated, NextPacket
  <2>3. n \in Starts /\ first' = n /\ top' = n
    BY <1>3, Zenon DEF Arrives
  <2> QED
    BY <1>2, <1>3, <2>2, <2>3, Zenon DEF FirstOne, FirstPacket, Remember, Stored
<1>4. CASE started
  <2>1. Faithful /\ Known
    BY <1>1, <1>4, Zenon DEF TrackerInv, Faithful
  <2>2. /\ n - top \in (-Half)..(Half - 1) /\ first' = first
        /\ top' = IF top > n THEN top ELSE n
    BY <1>4, Zenon DEF Arrives, Half
  <2>3. top \in Int /\ maxSeq = top % SeqModulus /\ \A g \in got : g <= top
    BY <2>1, Zenon DEF Known
  <2>4. Delta(s, maxSeq) = n - top
    BY <2>2, <2>3, DeltaExact
  <2>5. /\ n <= top => top' = top /\ top - n <= Half
        /\ top < n => top' = n /\ n - top < Half
    BY <1>0, <2>2, <2>3, SMT
  <2>6. CASE Repeated(s)
    <3>1. n \in got /\ UNCHANGED <<seen, maxSeq, cycles, lost>>
      BY <1>1, <2>6, Zenon DEF Repeated
    <3>2. n <= top
      BY <2>3, <3>1, Zenon
    <3> QED
      BY <1>2, <2>1, <2>2, <2>5, <3>1, <3>2, Zenon DEF Again
  <2>7. CASE ~Repeated(s)
    <3>1. Remember(s) /\ (Newer(s) \/ Older(s) \/ Same(s))
      BY <1>4, <2>7, Zenon DEF Arrives, Observe, FirstPacket, NextPacket
    <3>2. Stored(n)
      BY <3>1, Zenon DEF Remember, Stored
    <3>3. CASE Newer(s)
      <4>1. /\ n - top > 0 /\ maxSeq' = s /\ lost' = lost + (n - top) - 1
            /\ cycles' = IF s < maxSeq THEN cycles + SeqModulus ELSE cycles
        BY <2>4, <3>3, Zenon DEF Newer
      <4>2. top < n
        BY <2>3, <4>1, SMT
      <4> QED
        BY <1>2, <2>1, <2>2, <2>5, <3>2, <4>1, <4>2, Zenon DEF Ahead
    <3>4. CASE Older(s)
      <4>1. n - top < 0 /\ lost' = decrementAtomic(lost) /\ UNCHANGED <<maxSeq, cycles>>
        BY <2>4, <3>4, Zenon DEF Older
      <4>2. n <= top
        BY <2>3, <4>1, SMT
      <4> QED
        BY <1>2, <2>1, <2>2, <2>5, <3>2, <4>1, <4>2, Zenon DEF Behind
    <3>5. CASE Same(s)
      <4>1. n - top = 0 /\ UNCHANGED <<maxSeq, cycles, lost>>
        BY <2>4, <3>5, Zenon DEF Same
      <4>2. n <= top /\ ~(n < top)
        BY <2>3, <4>1, SMT
      <4> QED
        BY <1>2, <2>1, <2>2, <2>5, <3>2, <4>1, <4>2, Zenon DEF Behind
    <3> QED
      BY <3>1, <3>3, <3>4, <3>5, Zenon
  <2> QED
    BY <2>6, <2>7, Zenon
<1> QED
  BY <1>3, <1>4, Zenon

\* What arrived, as one of the four cases.
Taken(n) == Recorded(n) /\ (FirstOne(n) \/ Again(n) \/ Ahead(n) \/ Behind(n))

\* The first packet bears its own number, and so nothing is missing.
LEMMA FirstNumber ==
  ASSUME NEW n \in Starts
  PROVE  n \in Int /\ 0 <= n /\ n < SeqModulus /\ n % SeqModulus = n
<1>1. n \in Int /\ 0 <= n /\ n < SeqModulus /\ SeqModulus \in Nat \ {0}
  BY TrackerAssumption, Modulus, SMT
<1>2. -SeqModulus <= n
  BY <1>1, SMT
<1>3. n % SeqModulus = IF n >= 0 THEN n ELSE n + SeqModulus
  BY <1>1, <1>2, SmallDifference, Zenon
<1> QED
  BY <1>1, <1>3, SMT

\* The newest packet, and all that arrived are not newer.
LEMMA NewestStep ==
  ASSUME TrackerInv, NEW n \in Int, Taken(n)
  PROVE  /\ first' \in Int /\ top' \in Int /\ first' <= top'
         /\ got' \subseteq Int /\ top' \in got' /\ \A g \in got' : g <= top'
<1>0. got' = got \cup {n}
  BY Zenon DEF Taken, Recorded
<1>1. CASE FirstOne(n)
  <2>1. first' = n /\ top' = n /\ got = {}
    BY <1>1, Zenon DEF FirstOne, TrackerInv
  <2> QED
    BY <1>0, <2>1, SMT
<1>2. ASSUME Faithful
      PROVE  /\ first \in Int /\ top \in Int /\ first <= top
             /\ got \subseteq Int /\ top \in got /\ \A g \in got : g <= top
  BY <1>2, Zenon DEF TrackerInv, Known
<1>3. CASE Again(n) \/ Behind(n)
  <2>1. Faithful /\ n <= top /\ UNCHANGED <<first, top>>
    BY <1>3, Zenon DEF Again, Behind
  <2> QED
    BY <1>0, <1>2, <2>1, SMT
<1>4. CASE Ahead(n)
  <2>1. Faithful /\ top < n /\ top' = n /\ first' = first
    BY <1>4, Zenon DEF Ahead
  <2> QED
    BY <1>0, <1>2, <2>1, SMT
<1> QED
  BY <1>1, <1>3, <1>4, Zenon DEF Taken

\* The extended number.
LEMMA ExtendedStep ==
  ASSUME TrackerInv, NEW n \in Int, Taken(n)
  PROVE  maxSeq' = top' % SeqModulus /\ cycles' = top' - (top' % SeqModulus)
<1>0. Faithful => /\ top \in Int /\ maxSeq = top % SeqModulus
                  /\ cycles = top - (top % SeqModulus)
  BY Zenon DEF TrackerInv, Known
<1>1. CASE FirstOne(n)
  <2>1. n \in Starts /\ maxSeq' = n % SeqModulus /\ top' = n /\ cycles' = 0
    BY <1>1, Zenon DEF FirstOne, TrackerInv
  <2>2. n % SeqModulus = n /\ 0 = n - n
    BY <2>1, FirstNumber, SMT
  <2> QED
    BY <2>1, <2>2, Zenon
<1>2. CASE Again(n) \/ Behind(n)
  BY <1>0, <1>2, Zenon DEF Again, Behind
<1>3. CASE Ahead(n)
  <2>1. /\ top < n /\ n - top < Half /\ top' = n /\ maxSeq' = n % SeqModulus
        /\ cycles' = IF n % SeqModulus < maxSeq THEN cycles + SeqModulus ELSE cycles
        /\ top \in Int /\ maxSeq = top % SeqModulus /\ cycles = top - (top % SeqModulus)
    BY <1>0, <1>3, Zenon DEF Ahead
  <2>2. Half \in Nat /\ SeqModulus = 2 * Half
    BY Modulus
  <2>3. n - top < SeqModulus
    BY <2>1, <2>2, SMT
  <2> DEFINE s == n % SeqModulus
             t == top % SeqModulus
  <2>4. s \in Nat /\ t \in Nat
    BY <2>1, WireNumber, Zenon
  <2>5. n = (top - t) + s + (IF s < t THEN SeqModulus ELSE 0)
    BY <2>1, <2>3, WrapCounted, Zenon
  <2>6. cycles' = IF s < t THEN (top - t) + SeqModulus ELSE top - t
    BY <2>1, Zenon
  <2> HIDE DEF s, t
  <2>7. cycles' = n - s
    BY <2>1, <2>2, <2>4, <2>5, <2>6, SMT
  <2> QED
    BY <2>1, <2>7, Zenon DEF s
<1> QED
  BY <1>1, <1>2, <1>3, Zenon DEF Taken

\* The number in the report.
LEMMA ReportedStep ==
  ASSUME TrackerInv, NEW n \in Int, Taken(n)
  PROVE  lastSequence' = IF last' \div SeqModulus < top' \div SeqModulus
                           THEN last' + SeqModulus ELSE last'
<1>0. last' = n /\ lastSequence' = cycles' + (n % SeqModulus)
  BY Zenon DEF Taken, Recorded
<1>1. cycles' = top' - (top' % SeqModulus) /\ top' \in Int
  BY ExtendedStep, NewestStep, Zenon
<1>2. Half \in Nat /\ SeqModulus = 2 * Half /\ SeqModulus \in Nat \ {0}
  BY Modulus
<1>3. n <= top' /\ top' - n < SeqModulus
  <2>1. FirstOne(n) \/ Ahead(n) => top' = n
    BY Zenon DEF FirstOne, Ahead
  <2>2. Again(n) \/ Behind(n) => n <= top' /\ top' - n <= Half
    BY Zenon DEF Again, Behind
  <2>3. top' = n \/ (n <= top' /\ top' - n <= Half)
    BY <2>1, <2>2, Zenon DEF Taken
  <2>4. top' \in Int
    BY <1>1, Zenon
  <2>5. ASSUME NEW t \in Int, t = n \/ (n <= t /\ t - n <= Half)
        PROVE  n <= t /\ t - n < SeqModulus
    <3>1. 0 < Half /\ Half < SeqModulus
      BY <1>2, SMT
    <3> QED
      BY <1>2, <2>5, <3>1, SMT
  <2> QED
    BY <2>3, <2>4, <2>5, Zenon
<1>4. (top' - (top' % SeqModulus)) + (n % SeqModulus)
        = IF n \div SeqModulus < top' \div SeqModulus THEN n + SeqModulus ELSE n
  BY <1>1, <1>3, CycleOf, Zenon
<1> QED
  BY <1>0, <1>1, <1>4, Zenon

\* A newer packet leaves a gap: the packets between it and the newest so far.
LEMMA MissingAhead ==
  ASSUME NEW n \in Int, first \in Int, top \in Int, first <= top, top < n,
         got \subseteq Int, \A g \in got : g <= top
  PROVE  /\ IsFiniteSet((first..top) \ got)
         /\ Cardinality((first..n) \ (got \cup {n}))
              = Cardinality((first..top) \ got) + ((n - top) - 1)
<1> DEFINE A == (first..top) \ got
           B == (top + 1)..(n - 1)
<1>1. (first..n) \ (got \cup {n}) = A \cup B /\ A \cap B = {}
  BY SMT
<1>2. IsFiniteSet(first..top) /\ IsFiniteSet(B) /\ top + 1 \in Int /\ n - 1 \in Int
  BY FS_Interval, SMT
<1>3. Cardinality(B) = IF top + 1 > n - 1 THEN 0 ELSE (n - 1) - (top + 1) + 1
  BY <1>2, FS_Interval, Zenon
<1>4. Cardinality(B) = (n - top) - 1
  BY <1>3, SMT
<1>5. IsFiniteSet(A)
  BY <1>2, FS_Difference, Zenon
<1>6. Cardinality(A) \in Nat
  BY <1>5, FS_CardinalityType, Zenon
<1> HIDE DEF A, B
<1>7. Cardinality(A \cup B) = Cardinality(A) + Cardinality(B) - Cardinality(A \cap B)
  BY <1>2, <1>5, FS_Union, Zenon
<1>8. Cardinality(A \cap B) = 0
  BY <1>1, FS_EmptySet, Zenon
<1>9. Cardinality(A \cup B) = Cardinality(A) + ((n - top) - 1)
  BY <1>4, <1>6, <1>7, <1>8, SMT
<1> QED
  BY <1>1, <1>5, <1>9, Zenon DEF A

\* A late packet fills at most one gap.
LEMMA MissingBehind ==
  ASSUME NEW a \in Int, NEW t \in Int, NEW n, NEW G
  PROVE  LET before == Cardinality((a..t) \ G)
             after == Cardinality((a..t) \ (G \cup {n}))
         IN  before \in Nat /\ after \in Nat /\ (after = before \/ after = before - 1)
             /\ (n \in G => after = before)
<1> DEFINE A == (a..t) \ G
<1>1. (a..t) \ (G \cup {n}) = A \ {n} /\ (n \in G => A \ {n} = A)
  BY Zenon
<1>2. IsFiniteSet(a..t)
  BY FS_Interval, Zenon
<1>3. IsFiniteSet(A)
  BY <1>2, FS_Difference, Zenon
<1> HIDE DEF A
<1>4. /\ IsFiniteSet(A \ {n})
      /\ Cardinality(A \ {n}) = IF n \in A THEN Cardinality(A) - 1 ELSE Cardinality(A)
  BY <1>3, FS_RemoveElement, Zenon
<1>5. Cardinality(A) \in Nat /\ Cardinality(A \ {n}) \in Nat
  BY <1>3, <1>4, FS_CardinalityType, Zenon
<1> QED
  BY <1>1, <1>4, <1>5, Zenon DEF A

\* The losses are not overstated.
LEMMA LostStep ==
  ASSUME TrackerInv, NEW n \in Int, Taken(n)
  PROVE  lost' \in Nat /\ lost' <= Cardinality((first'..top') \ got')
<1>0. got' = got \cup {n}
  BY Zenon DEF Taken, Recorded
<1>1. ASSUME Faithful
      PROVE  /\ first \in Int /\ top \in Int /\ first <= top
             /\ got \subseteq Int /\ \A g \in got : g <= top
             /\ lost \in Nat /\ lost <= Cardinality((first..top) \ got)
  BY <1>1, Zenon DEF TrackerInv, Known
<1>2. CASE FirstOne(n)
  <2>1. lost' = 0 /\ first' = n /\ top' = n
    BY <1>2, Zenon DEF FirstOne, TrackerInv
  <2>2. Cardinality((n..n) \ got') \in Nat
    <3>1. IsFiniteSet(n..n)
      BY FS_Interval, Zenon
    <3>2. IsFiniteSet((n..n) \ got')
      BY <3>1, FS_Difference, Zenon
    <3> QED
      BY <3>2, FS_CardinalityType, Zenon
  <2> DEFINE c == Cardinality((n..n) \ got')
  <2> HIDE DEF c
  <2>3. lost' \in Nat /\ lost' <= c
    BY <2>1, <2>2, SMT DEF c
  <2> QED
    BY <2>1, <2>3, Zenon DEF c
<1>3. CASE Again(n) \/ Behind(n)
  <2>1. /\ Faithful /\ UNCHANGED <<first, top>> /\ n <= top
        /\ lost' \in {lost, decrementAtomic(lost)}
        /\ n \in got \/ (n < top => lost' = decrementAtomic(lost))
    BY <1>3, Zenon DEF Again, Behind
  <2>2. top \in got
    BY <2>1, Zenon DEF TrackerInv, Known
  <2>3. \/ n \in got /\ lost' \in {lost, decrementAtomic(lost)}
        \/ lost' = decrementAtomic(lost)
    <3>1. n < top \/ n = top
      <4>1. top \in Int /\ n <= top
        BY <1>1, <2>1, Zenon
      <4> QED
        BY <4>1, SMT
    <3> QED
      BY <2>1, <2>2, <3>1, Zenon
  <2> DEFINE before == Cardinality((first..top) \ got)
             after == Cardinality((first..top) \ (got \cup {n}))
  <2>4. /\ before \in Nat /\ after \in Nat /\ (after = before \/ after = before - 1)
        /\ n \in got => after = before
    BY <1>1, <2>1, MissingBehind, Zenon
  <2>5. lost \in Nat /\ lost <= before
    BY <1>1, <2>1, Zenon
  <2> HIDE DEF before, after
  <2>6. lost' \in Nat /\ lost' <= after
    BY <2>3, <2>4, <2>5, SMT DEF decrementAtomic
  <2> QED
    BY <1>0, <2>1, <2>6, Zenon DEF after
<1>4. CASE Ahead(n)
  <2>1. /\ Faithful /\ top < n /\ first' = first /\ top' = n
        /\ lost' = lost + (n - top) - 1
    BY <1>4, Zenon DEF Ahead
  <2> DEFINE before == Cardinality((first..top) \ got)
             after == Cardinality((first..n) \ (got \cup {n}))
  <2>2. IsFiniteSet((first..top) \ got) /\ after = before + ((n - top) - 1)
    <3>1. /\ first \in Int /\ top \in Int /\ first <= top
          /\ got \subseteq Int /\ \A g \in got : g <= top
      BY <1>1, <2>1, Zenon
    <3>2. top < n
      BY <2>1, Zenon
    <3> QED
      BY <3>1, <3>2, MissingAhead, Zenon
  <2>3. before \in Nat /\ lost \in Nat /\ lost <= before /\ top \in Int
    <3>1. before \in Nat
      BY <2>2, FS_CardinalityType, Zenon
    <3> QED
      BY <1>1, <2>1, <3>1, Zenon
  <2> HIDE DEF before, after
  <2>4. lost' \in Nat /\ lost' <= after
    <3>1. top < n /\ lost' = lost + (n - top) - 1 /\ after = before + ((n - top) - 1)
      BY <2>1, <2>2, Zenon
    <3> QED
      BY <2>3, <3>1, SMT
  <2> QED
    BY <1>0, <2>1, <2>4, Zenon DEF after
<1> QED
  BY <1>2, <1>3, <1>4, Zenon DEF Taken

\* Remember changes one slot, which no other packet within the window has.
LEMMA StoredSlots ==
  ASSUME NEW n \in Int, Stored(n), seen \in [0..(Window - 1) -> Int]
  PROVE  /\ seen' \in [0..(Window - 1) -> Int]
         /\ seen'[n % Window] = n % SeqModulus
         /\ \A g \in Int : -Window < g - n /\ g - n < Window /\ g # n =>
              seen'[g % Window] = seen[g % Window]
<1>0. (n % SeqModulus) % Window = n % Window /\ n % Window \in 0..(Window - 1)
  BY SlotOf, Zenon
<1>1. n % SeqModulus \in Int
  BY WireNumber, SMT
<1>2. seen' = [seen EXCEPT ![n % Window] = n % SeqModulus]
  BY <1>0, Zenon DEF Stored
<1>3. ASSUME NEW g \in Int, -Window < g - n, g - n < Window, g # n
      PROVE  seen'[g % Window] = seen[g % Window]
  <2>1. g % Window # n % Window
    BY <1>3, SameRemainder, Modulus, Zenon
  <2>2. g % Window \in 0..(Window - 1)
    BY SlotOf, Zenon
  <2> QED
    BY <1>2, <2>1, <2>2, Zenon
<1> QED
  BY <1>0, <1>1, <1>2, <1>3, Zenon

\* The newest packets stay in their slots, unless a stale one came.
LEMMA SeenStep ==
  ASSUME TrackerInv, NEW n \in Int, Taken(n)
  PROVE  /\ seen' \in [0..(Window - 1) -> Int]
         /\ ~stale' => \A g \in got' : top' - g < Window =>
                         seen'[g % Window] = g % SeqModulus
<1>0. got' = got \cup {n} /\ (~stale' => ~stale /\ (started => ~(top - n >= Window)))
  BY Zenon DEF Taken, Recorded
<1>w. Window \in Nat \ {0}
  BY Modulus, Zenon
<1>1. ASSUME Faithful
      PROVE  /\ started /\ top \in Int /\ got \subseteq Int /\ \A g \in got : g <= top
             /\ seen \in [0..(Window - 1) -> Int]
             /\ ~stale => \A g \in got : top - g < Window =>
                            seen[g % Window] = g % SeqModulus
  BY <1>1, Zenon DEF TrackerInv, Known, Faithful
<1>2. CASE FirstOne(n)
  <2>1. Stored(n) /\ seen = [i \in 0..(Window - 1) |-> NoSeq] /\ got = {}
    BY <1>2, Zenon DEF FirstOne, TrackerInv
  <2>2. NoSeq \in Int
    BY DEF NoSeq
  <2>3. seen \in [0..(Window - 1) -> Int]
    BY <2>1, <2>2, Zenon
  <2> QED
    BY <1>0, <2>1, <2>3, StoredSlots, Zenon
<1>3. CASE Again(n)
  <2>1. Faithful /\ n \in got /\ UNCHANGED <<seen, top>>
    BY <1>3, Zenon DEF Again
  <2>2. got' = got
    BY <1>0, <2>1, Zenon
  <2> QED
    BY <1>0, <1>1, <2>1, <2>2, Zenon
<1>4. CASE Ahead(n) \/ Behind(n)
  <2>1. Faithful /\ Stored(n) /\ ((top' = n /\ top < n) \/ (top' = top /\ n <= top))
    BY <1>4, Zenon DEF Ahead, Behind
  <2>2. /\ started /\ top \in Int /\ got \subseteq Int /\ \A g \in got : g <= top
        /\ seen \in [0..(Window - 1) -> Int]
        /\ ~stale => \A g \in got : top - g < Window =>
                       seen[g % Window] = g % SeqModulus
    BY <1>1, <2>1, Zenon
  <2>3. ASSUME ~stale', NEW g \in got, g # n, top' - g < Window
        PROVE  seen'[g % Window] = g % SeqModulus
    <3>1. g \in Int /\ g <= top /\ top \in Int
      BY <2>2, Zenon
    <3>2. ~(top - n >= Window)
      BY <1>0, <2>2, <2>3, Zenon
    <3>3. ASSUME NEW t \in Int, (t = n /\ top < n) \/ (t = top /\ n <= top), t - g < Window
          PROVE  -Window < g - n /\ g - n < Window /\ top - g < Window
      BY <1>w, <3>1, <3>2, <3>3, SMT
    <3>4. top' \in Int
      BY <2>1, <3>1, Zenon
    <3>5. -Window < g - n /\ g - n < Window /\ top - g < Window
      BY <2>1, <2>3, <3>3, <3>4, Zenon
    <3>6. seen'[g % Window] = seen[g % Window]
      BY <2>1, <2>2, <2>3, <3>1, <3>5, StoredSlots, Zenon
    <3>7. seen[g % Window] = g % SeqModulus
      BY <1>0, <2>2, <2>3, <3>5, Zenon
    <3> QED
      BY <3>6, <3>7, Zenon
  <2> QED
    BY <1>0, <2>1, <2>2, <2>3, StoredSlots, Zenon
<1> QED
  BY <1>2, <1>3, <1>4, Zenon DEF Taken

\* Every step of the stream, and of another one, keeps the invariant.
LEMMA TrackerStep == TrackerInv /\ [Next]_vars => TrackerInv'
<1> SUFFICES ASSUME TrackerInv, [Next]_vars PROVE TrackerInv'
  OBVIOUS
<1>1. ASSUME NEW n \in -SeqModulus..(SeqModulus * (MaxPackets + 1)), Arrives(n)
      PROVE  TrackerInv'
  <2>1. n \in Int
    BY SMT
  <2>2. CASE Faithful'
    <3>1. Taken(n) /\ started'
      BY <1>1, <2>1, <2>2, Observed, Zenon DEF Taken, Faithful
    <3> QED
      BY <2>1, <3>1, NewestStep, ExtendedStep, ReportedStep, LostStep, SeenStep, Zenon
         DEF TrackerInv, Known
  <2>3. CASE ~Faithful'
    <3>1. started'
      <4>1. CASE started
        BY <1>1, <4>1, Zenon DEF Arrives, Observe, Repeated, FirstPacket, NextPacket
      <4>2. CASE ~started
        <5>1. ~isRepeat(n % SeqModulus)
          BY <2>1, <4>2, FirstIsFresh, Zenon
        <5> QED
          BY <1>1, <4>2, <5>1, Zenon DEF Arrives, Observe, Repeated, FirstPacket,
             NextPacket
      <4> QED
        BY <4>1, <4>2, Zenon
    <3> QED
      BY <2>3, <3>1, Zenon DEF TrackerInv
  <2> QED
    BY <2>2, <2>3, Zenon
<1>2. ASSUME NEW seq \in 0..(SeqModulus - 1), OtherStream(seq) PROVE TrackerInv'
  <2>1. started' /\ other'
    BY <1>2, Zenon DEF OtherStream, Observe, Repeated, FirstPacket, NextPacket
  <2> QED
    BY <2>1, Zenon DEF TrackerInv, Faithful
<1>3. CASE UNCHANGED vars
  BY <1>3, Zenon DEF vars, tracker, history, TrackerInv, Known, Faithful
<1> QED
  BY <1>1, <1>2, <1>3, Zenon DEF Next

\* Tracker.Observe keeps the invariant, for every stream.
THEOREM TrackerInvariant == Spec => []TrackerInv
<1>1. Init => TrackerInv
  BY Zenon DEF Init, TrackerInv, Faithful
<1> QED
  BY <1>1, TrackerStep, PTL DEF Spec

-----------------------------------------------------------------------------
(* The media path: forwardRTP with the tracker and the rewriter.           *)

\* The rewriter and the refusals of forwardRTP do not disturb the tracker: seen
\* from it, every step of the media path is one of its own.
THEOREM ForwardKeepsTracker == ForwardSpec => Spec
<1>1. ForwardInit => Init
  BY Zenon DEF ForwardInit
<1>2. [ForwardNext]_forwardVars => [Next]_vars
  BY Zenon DEF ForwardNext, ForwardArrives, ForwardOther, Next, forwardVars
<1> QED
  BY <1>1, <1>2, PTL DEF ForwardSpec, Spec

\* cycles + maxSeq is the number of the newest packet, for every modulus: a
\* wrap is counted once, however packets around it are lost or reordered.
THEOREM ExtendedNumberExact == ForwardSpec => []ExtendedExact
<1>1. TrackerInv => ExtendedExact
  <2> SUFFICES ASSUME TrackerInv, Faithful PROVE cycles + maxSeq = top
    BY Zenon DEF ExtendedExact
  <2> DEFINE t == top % SeqModulus
  <2>1. top \in Int /\ maxSeq = t /\ cycles = top - t
    BY Zenon DEF TrackerInv, Known
  <2>2. t \in Nat
    BY <2>1, WireNumber, Zenon
  <2> HIDE DEF t
  <2> QED
    BY <2>1, <2>2, SMT
<1> QED
  BY <1>1, TrackerInvariant, ForwardKeepsTracker, PTL

\* The losses that the RTCP reports and the summary state never exceed the
\* packets that are missing between the first and the newest.
THEOREM LossesNotOverstated == ForwardSpec => []LostNeverOverstated
<1>1. TrackerInv => LostNeverOverstated
  BY Zenon DEF TrackerInv, Known, LostNeverOverstated
<1> QED
  BY <1>1, TrackerInvariant, ForwardKeepsTracker, PTL

\* The number in the reception report is that of the last packet, or one cycle
\* ahead of it for a late packet from before a wrap.
THEOREM ReportedNumber == ForwardSpec => []ReportedSequence
<1>1. TrackerInv => ReportedSequence
  BY Zenon DEF TrackerInv, Known, ReportedSequence
<1> QED
  BY <1>1, TrackerInvariant, ForwardKeepsTracker, PTL

\* A repeat of one of the Window newest packets is dropped, as long as no packet
\* older than the window has taken a slot.
THEOREM RepeatsAreDropped == ForwardSpec => RepeatsDropped
<1>1. ASSUME TrackerInv, [Next]_vars
      PROVE  [ Faithful /\ ~stale' /\ last' \in got /\ top - last' < Window
                 /\ ~other' => class' = "duplicate" ]_vars
  <2> SUFFICES ASSUME Next, Faithful, ~stale', last' \in got, top - last' < Window, ~other'
               PROVE  class' = "duplicate"
    BY <1>1, Zenon
  <2>1. PICK n \in -SeqModulus..(SeqModulus * (MaxPackets + 1)) : Arrives(n)
    BY Zenon DEF Next, OtherStream
  <2>2. last' = n /\ ~stale
    BY <2>1, Zenon DEF Arrives
  <2>3. n \in Int /\ seen[n % Window] = n % SeqModulus
    BY <1>1, <2>2, Zenon DEF TrackerInv, Known
  <2>4. (n % SeqModulus) % Window = n % Window
    BY <2>3, SlotOf, Zenon
  <2>5. isRepeat(n % SeqModulus)
    BY <2>3, <2>4, Zenon DEF isRepeat
  <2> QED
    BY <2>1, <2>5, Zenon DEF Arrives, Observe, Repeated
<1> QED
  BY <1>1, TrackerInvariant, ForwardKeepsTracker, PTL DEF Spec, RepeatsDropped

\* One place further in a stream that began at o.
LEMMA NextPlace ==
  ASSUME NEW m \in Nat \ {0}, NEW s \in Int, NEW o \in Int, NEW k \in Int,
         (s - o) % m = k % m
  PROVE  (((s + 1) % m) - o) % m = (k + 1) % m
<1> DEFINE p == (s + 1) \div m
           r == (s + 1) % m
           q == (s - o) \div m
           c == (s - o) % m
           q2 == k \div m
<1>1. s + 1 \in Int /\ s - o \in Int /\ k + 1 \in Int
  BY SMT
<1>2. /\ p \in Int /\ r \in Nat /\ s + 1 = m * p + r
      /\ q \in Int /\ c \in Nat /\ s - o = m * q + c
      /\ q2 \in Int /\ k = m * q2 + c
  BY <1>1, DivMod
<1> HIDE DEF p, r, q, c, q2
<1>3. q - q2 - p \in Int /\ r - o = (k + 1) + m * (q - q2 - p)
  <2>1. /\ m * p \in Int /\ m * q \in Int /\ m * q2 \in Int
        /\ m * (q - q2 - p) = m * q - m * q2 - m * p
    BY <1>2, SMT
  <2> DEFINE x == m * p
             y == m * q
             y2 == m * q2
             z == m * (q - q2 - p)
  <2>2. /\ x \in Int /\ y \in Int /\ y2 \in Int /\ z = y - y2 - x
        /\ s + 1 = x + r /\ s - o = y + c /\ k = y2 + c
    BY <1>2, <2>1
  <2> HIDE DEF x, y, y2, z
  <2>3. r - o = (k + 1) + z
    BY <1>2, <2>2, SMT
  <2>4. q - q2 - p \in Int
    BY <1>2, SMT
  <2> QED
    BY <2>3, <2>4 DEF z
<1>4. ((k + 1) + m * (q - q2 - p)) % m = (k + 1) % m
  BY <1>1, <1>3, ModAdd, Zenon
<1> QED
  BY <1>3, <1>4, Zenon DEF r

\* The place of the last packet that was rewritten, counted from the first that
\* left, and its media time and that of the first on the output's clock.
PlaceInv ==
  /\ inputBase \in Int /\ outputBase \in Int /\ input \in Int /\ sequence \in Int
  /\ sent \in Nat /\ unsent \in Nat /\ (unsent = 0 \/ sent > 0)
  /\ sent > 0 =>
       /\ initialized /\ origin.sequence \in Int /\ origin.input \in Int
       /\ (sequence - origin.sequence) % SeqModulus = (sent - 1 + unsent) % SeqModulus
       /\ origin.timestamp = (outputBase + origin.input - inputBase) % TsModulus

\* The output is one continuous stream: from the first packet that leaves on, a
\* number is missing only for a packet dropped between Rewrite and the write, and
\* every packet is as far from the first in media time as at the sender.
THEOREM OutputIsContinuous == ForwardSpec => OutputContinuous
<1> DEFINE Good == sent > 0 /\ sent' > sent =>
      /\ (sequence' - origin.sequence) % SeqModulus = (sent + unsent) % SeqModulus
      /\ (timestamp' - origin.timestamp) % TsModulus = (input' - origin.input) % TsModulus
<1>0. /\ TsModulus \in Nat \ {0} /\ SeqModulus \in Nat \ {0}
      /\ 0 \in Int /\ \A s \in Seeds : s \in Int
  BY ForwardAssumption, TrackerAssumption
<1>1. ForwardInit => PlaceInv
  BY <1>0 DEF ForwardInit, PlaceInv
<1>2. ASSUME PlaceInv, NEW ts \in Int, Rewrite(ts), Written \/ Discarded
      PROVE  PlaceInv' /\ Good
  <2>1. /\ inputBase' \in Int /\ outputBase' = outputBase /\ outputBase \in Int
        /\ input' = ts /\ initialized'
        /\ initialized => inputBase' = inputBase
        /\ initialized => sequence' = (sequence + 1) % SeqModulus
        /\ timestamp' = (outputBase + ts - inputBase') % TsModulus
        /\ sequence \in Int /\ sent \in Nat /\ unsent \in Nat /\ (unsent = 0 \/ sent > 0)
    BY <1>2, Zenon DEF Rewrite, PlaceInv
  <2>2. sequence' \in Int
    <3>1. sequence + 1 \in Int
      BY <2>1, SMT
    <3>2. (sequence + 1) % SeqModulus \in Nat
      BY <1>0, <3>1, DivMod, Zenon
    <3>3. (sequence + 1) % SeqModulus \in Int
      BY <3>2, SMT
    <3> QED
      BY <1>2, <2>1, <3>3, Zenon DEF Rewrite
  <2>3. ASSUME sent > 0
        PROVE  /\ (sequence' - origin.sequence) % SeqModulus = (sent + unsent) % SeqModulus
               /\ (timestamp' - origin.timestamp) % TsModulus = (ts - origin.input) % TsModulus
    <3> DEFINE k == sent - 1 + unsent
               a == outputBase + ts - inputBase
               b == outputBase + origin.input - inputBase
    <3>1. /\ origin.sequence \in Int /\ origin.input \in Int /\ inputBase \in Int
          /\ (sequence - origin.sequence) % SeqModulus = k % SeqModulus
          /\ sequence' = (sequence + 1) % SeqModulus
          /\ timestamp' = a % TsModulus /\ origin.timestamp = b % TsModulus
      BY <1>2, <2>1, <2>3, Zenon DEF PlaceInv
    <3>2. k \in Int /\ k + 1 = sent + unsent
      BY <2>1, SMT
    <3>3. a \in Int /\ b \in Int /\ a - b = ts - origin.input
      BY <2>1, <3>1, SMT
    <3> HIDE DEF k, a, b
    <3>4. (((sequence + 1) % SeqModulus) - origin.sequence) % SeqModulus = (k + 1) % SeqModulus
      <4> DEFINE o == origin.sequence
                 Place(s, p, j) ==
                   (s - p) % SeqModulus = j % SeqModulus
                     => (((s + 1) % SeqModulus) - p) % SeqModulus = (j + 1) % SeqModulus
      <4>1. sequence \in Int /\ o \in Int /\ k \in Int
        BY <2>1, <3>1, <3>2, Zenon
      <4>2. \A s, p, j \in Int : Place(s, p, j)
        BY <1>0, NextPlace, Zenon
      <4> HIDE DEF Place
      <4>3. Place(sequence, o, k)
        BY <4>1, <4>2, Zenon
      <4> QED
        BY <3>1, <4>3, Zenon DEF Place
    <3>5. ((a % TsModulus) - (b % TsModulus)) % TsModulus = (a - b) % TsModulus
      BY <1>0, <3>3, ModDiff, Zenon
    <3> QED
      BY <3>1, <3>2, <3>3, <3>4, <3>5, Zenon
  <2>4. ASSUME sent > 0 PROVE initialized
    BY <1>2, <2>4, Zenon DEF PlaceInv
  <2>5. CASE sent > 0 /\ Written
    <3>1. sent' = sent + 1 /\ origin' = origin /\ unsent' = unsent
      BY <2>5, Zenon DEF Written
    <3>2. sent' \in Nat /\ sent' > 0 /\ sent' - 1 + unsent' = sent + unsent
      BY <2>1, <3>1, SMT
    <3> QED
      BY <1>2, <2>1, <2>2, <2>3, <2>4, <2>5, <3>1, <3>2, Zenon DEF PlaceInv
  <2>6. CASE sent > 0 /\ Discarded
    <3>1. sent' = sent /\ origin' = origin /\ unsent' = unsent + 1
      BY <2>6, Zenon DEF Discarded
    <3>2. unsent' \in Nat /\ sent' - 1 + unsent' = sent + unsent
      BY <2>1, <3>1, SMT
    <3> QED
      BY <1>2, <2>1, <2>2, <2>3, <2>4, <2>6, <3>1, <3>2, Zenon DEF PlaceInv
  <2>7. CASE ~(sent > 0) /\ Discarded
    <3>1. sent' = sent /\ unsent' = unsent
      BY <2>7, Zenon DEF Discarded
    <3> QED
      BY <1>2, <2>1, <2>2, <2>7, <3>1, Zenon DEF PlaceInv
  <2>8. CASE ~(sent > 0) /\ Written
    <3>1. /\ sent = 0 /\ sent' = 1 /\ unsent' = unsent
          /\ origin'.sequence = sequence' /\ origin'.timestamp = timestamp'
          /\ origin'.input = ts
      BY <2>1, <2>8, SMT DEF Written
    <3>2. /\ sent' \in Nat /\ sent' > 0 /\ unsent' \in Nat
          /\ sequence' - sequence' = sent' - 1 + unsent'
      <4>1. unsent' = 0 /\ sent' = 1
        BY <2>1, <2>8, <3>1, Zenon
      <4>2. \A s \in Int : s - s = 0
        BY SMT
      <4>3. sequence' - sequence' = 0
        BY <2>2, <4>2, Zenon
      <4>4. 1 \in Nat /\ 1 > 0 /\ 0 \in Nat /\ 1 - 1 + 0 = 0
        BY SMT
      <4> QED
        BY <4>1, <4>3, <4>4, Zenon
    <3> QED
      BY <1>2, <2>1, <2>2, <2>8, <3>1, <3>2, Zenon DEF PlaceInv
  <2> QED
    BY <1>2, <2>5, <2>6, <2>7, <2>8, Zenon
<1>3. ASSUME PlaceInv, NEW ts \in Int, NEW r, Forward(ts, r)
      PROVE  PlaceInv' /\ Good
  <2>1. CASE UNCHANGED <<rewriter, output>>
    <3>1. UNCHANGED <<inputBase, outputBase, input, sequence, initialized, sent, origin, unsent>>
      BY <2>1, Zenon DEF rewriter, output
    <3>2. PlaceInv' /\ sent' = sent /\ sent \in Nat
      BY <1>3, <3>1, Zenon DEF PlaceInv
    <3>3. ~(sent' > sent)
      BY <3>2, SMT
    <3> QED
      BY <3>2, <3>3, Zenon
  <2> QED
    BY <1>2, <1>3, <2>1, Zenon DEF Forward
<1>4. ASSUME PlaceInv, [ForwardNext]_forwardVars PROVE PlaceInv' /\ [Good]_forwardVars
  <2>1. ASSUME NEW n \in -SeqModulus..(SeqModulus * (MaxPackets + 1)), ForwardArrives(n)
        PROVE  PlaceInv' /\ Good
    <3>1. n \in Int
      BY SMT
    <3>2. n % TsModulus \in Nat
      BY <1>0, <3>1, DivMod, Zenon
    <3>3. n % TsModulus \in Int
      BY <3>2, SMT
    <3> QED
      BY <1>3, <1>4, <2>1, <3>3, Zenon DEF ForwardArrives
  <2>2. ASSUME NEW seq \in 0..(SeqModulus - 1), NEW ts \in Seeds, ForwardOther(seq, ts)
        PROVE  PlaceInv' /\ Good
    BY <1>0, <1>3, <1>4, <2>2, Zenon DEF ForwardOther
  <2>3. CASE UNCHANGED forwardVars
    BY <1>4, <2>3, Zenon DEF forwardVars, rewriter, output, PlaceInv
  <2> QED
    BY <1>4, <2>1, <2>2, <2>3, Zenon DEF ForwardNext
<1> QED
  BY <1>1, <1>4, PTL DEF ForwardSpec, OutputContinuous

-----------------------------------------------------------------------------
(* The RTCP reports.                                                       *)

\* The sample on the wrapped clock, for a report that left at s, was kept for d
\* and travelled for r units.
LEMMA SampleIsTravel ==
  ASSUME NEW s \in Nat, NEW d \in Nat, NEW r \in Nat, NEW old \in Int,
         d < TwoTo32, r < TwoTo32
  PROVE  rttUnits(uint32(s), d, uint32(s), uint32(s + d + r), old) \in {r, old}
  BY SMT DEF rttUnits, uint32, TwoTo32

\* The clock counts up from zero.
LEMMA ClockNat ==
  ASSUME NEW t \in Nat
  PROVE  ntpUnits(t) \in Nat
<1>1. t \div Second \in Nat /\ t % Second \in Nat
  BY SMT DEF Second
<1>2. (t % Second) * TwoTo32 \in Nat
  BY <1>1, SMT DEF TwoTo32
<1>3. ((t % Second) * TwoTo32) \div Second \in Nat
  BY <1>2, SMT DEF Second
<1> QED
  BY <1>1, <1>3, SMT DEF ntpUnits

\* updateRemoteReport measures the travel time and nothing else: when a peer
\* names the last report sent, at time t, and states truly how long it kept it,
\* its report read at time u gives exactly the rest of the time between t and u,
\* or no sample, wherever the 32-bit clock wraps in between.
THEOREM RttExact ==
  ASSUME NEW t \in Nat, NEW u \in Nat, NEW d \in Nat, NEW old \in Int,
         d < TwoTo32, ntpUnits(t) + d <= ntpUnits(u),
         ntpUnits(u) - ntpUnits(t) - d < TwoTo32
  PROVE  rttUnits(compactNTP(t), d, compactNTP(t), compactNTP(u), old)
           \in {ntpUnits(u) - ntpUnits(t) - d, old}
<1> DEFINE s == ntpUnits(t)
           r == ntpUnits(u) - ntpUnits(t) - d
<1>1. s \in Nat /\ ntpUnits(u) \in Nat
  BY ClockNat
<1> HIDE DEF s
<1>2. r \in Nat /\ r < TwoTo32 /\ ntpUnits(u) = s + d + r
  BY <1>1, SMT DEF s
<1> HIDE DEF r
<1>3. rttUnits(uint32(s), d, uint32(s), uint32(s + d + r), old) \in {r, old}
  BY <1>1, <1>2, SampleIsTravel
<1> QED
  BY <1>2, <1>3 DEF compactNTP, s, r

\* There is a sample whenever the clock does not wrap during the travel.
THEOREM RttTaken ==
  ASSUME NEW s \in Nat, NEW d \in Nat, NEW r \in Nat, NEW old \in Int,
         d < TwoTo32, r > 0, uint32(s) # 0, uint32(s + d) + r < TwoTo32
  PROVE  rttUnits(uint32(s), d, uint32(s), uint32(s + d + r), old) = r
  BY SMT DEF rttUnits, uint32, TwoTo32

\* A peer that overstates the time it kept the report by x more than the travel
\* gets no sample, unless the clock wrapped between the report's arrival and
\* the end of the stated delay.
THEOREM OverstatedIgnored ==
  ASSUME NEW s \in Nat, NEW d \in Nat, NEW x \in Nat, NEW old \in Int,
         d < TwoTo32, x <= d, uint32(s + d - x) + x < TwoTo32
  PROVE  rttUnits(uint32(s), d, uint32(s), uint32(s + d - x), old) = old
  BY SMT DEF rttUnits, uint32, TwoTo32

\* A non-negative 64-bit value below 2^63 is not changed by its width.
LEMMA NoOverflow ==
  ASSUME NEW x \in Nat, x < TwoTo63
  PROVE  int64(x) = x
  BY SMT DEF int64, TwoTo63, TwoTo32

\* A product is below the product of larger factors.
LEMMA ProductBelow ==
  ASSUME NEW a \in Nat, NEW b \in Nat, NEW c \in Nat, NEW d \in Nat,
         a < b, c <= d, 0 < d
  PROVE  a * c < b * d
<1>1. a * c <= a * d
  BY SMT
<1>2. a * d < b * d
  BY SMT
<1> QED
  BY <1>1, <1>2, SMT

\* Converting a sample to a Duration never overflows.
THEOREM RttFits ==
  ASSUME NEW units \in Nat, units < TwoTo32
  PROVE  rttNanos(units) = (units * Second) \div 65536 /\ rttNanos(units) >= 0
<1>1. units * Second \in Nat /\ units * Second < TwoTo63
  <2>1. units * Second \in Nat
    BY SMT DEF Second
  <2>2. units * Second < TwoTo63
    <3>1. Second \in Nat /\ Second <= 32768 * 65536
      BY SMT DEF Second
    <3>2. TwoTo32 \in Nat /\ TwoTo63 = TwoTo32 * (32768 * 65536)
      BY SMT DEF TwoTo32, TwoTo63
    <3> QED
      BY <3>1, <3>2, ProductBelow
  <2> QED
    BY <2>1, <2>2
<1>2. int64(units * Second) = units * Second
  BY <1>1, NoOverflow
<1>3. (units * Second) \div 65536 >= 0
  BY <1>1, SMT
<1> QED
  BY <1>2, <1>3 DEF rttNanos

\* The delay is exact up to the largest value of the field; the product
\* overflows only when the peer has been silent for more than 2^47 ns (39 h).
THEOREM DelaySaturates ==
  ASSUME NEW lastSR \in Nat \ {0}, NEW received \in Nat \ {0},
         NEW elapsed \in Nat, elapsed > 0, elapsed < 32768 * TwoTo32
  PROVE  LET units == (elapsed * 65536) \div Second
         IN  reportDelay(lastSR, received, received + elapsed)
               = IF units < TwoTo32 THEN units ELSE TwoTo32 - 1
<1>1. elapsed * 65536 \in Nat /\ elapsed * 65536 < TwoTo63
  <2>1. elapsed * 65536 \in Nat
    BY SMT
  <2>2. elapsed * 65536 < TwoTo63
    <3>1. TwoTo32 \in Nat /\ TwoTo63 = (32768 * TwoTo32) * 65536
      BY SMT DEF TwoTo32, TwoTo63
    <3> QED
      BY <3>1, ProductBelow
  <2> QED
    BY <2>1, <2>2
<1>2. int64(elapsed * 65536) = elapsed * 65536
  BY <1>1, NoOverflow
<1>3. (received + elapsed) - received = elapsed
  BY SMT
<1>4. ~(elapsed <= 0) /\ elapsed * 65536 >= 0
  BY <1>1, SMT
<1>5. (elapsed * 65536) \div Second \in Nat /\ TwoTo32 \in Nat
  BY <1>1, SMT DEF Second, TwoTo32
<1>6. lastSR # 0 /\ received # 0
  OBVIOUS
<1> QED
  BY <1>2, <1>3, <1>4, <1>5, <1>6, SMT DEF reportDelay

\* FractionLost fits its byte and never overstates the loss.
THEOREM FractionBounded ==
  ASSUME NEW l \in Nat, NEW p \in Nat
  PROVE  /\ fractionLost(l, p) \in 0..255
         /\ fractionLost(l, p) * (p + l) <= l * 256
  BY SMT DEF fractionLost
=============================================================================
