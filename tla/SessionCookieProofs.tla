----------------------- MODULE SessionCookieProofs -----------------------
(***************************************************************************)
(* Proofs about SessionCookie.                                             *)
(*                                                                         *)
(* cut and flatten are recursive functions, and no prover here does        *)
(* induction over data.  What they compute is proved without it: a closed  *)
(* form is shown to satisfy the equation of the recursion, so that there   *)
(* is a solution, and two solutions are shown to agree because the least   *)
(* argument where they differed would not be one.                          *)
(***************************************************************************)
EXTENDS SessionCookie, SequenceTheorems, WellFoundedInduction, TLAPS

-----------------------------------------------------------------------------
(* Arithmetic.                                                             *)

(* Every inhabited set of naturals has a least element: induction without  *)
(* a predicate parameter.                                                  *)
LEMMA LeastNatural ==
    ASSUME NEW T, T \subseteq Nat, T # {}
    PROVE  \E x \in T : \A y \in T : x <= y
  <1> DEFINE R == OpToRel(<, Nat)
  <1>1. \A a, b \in Nat : a < b => <<a, b>> \in R
    BY DEF OpToRel
  <1>2. IsWellFoundedOn(R, Nat)
    BY NatLessThanWellFounded
  <1> HIDE DEF R
  <1>3. PICK x \in T : \A y \in T : <<y, x>> \notin R
    BY <1>2, WFMin
  <1>4. ASSUME NEW y \in T
        PROVE  x <= y
    <2>1. x \in Nat /\ y \in Nat
      OBVIOUS
    <2>2. ~ y < x
      BY <2>1, <1>1, <1>3
    <2>3. QED
      BY <2>1, <2>2
  <1>5. QED
    BY <1>4

(* Multiplication by the chunk size is monotone and distributes.           *)
LEMMA Multiples ==
    ASSUME NEW i \in Nat, NEW j \in Nat, NEW c \in Nat
    PROVE  /\ i * c \in Nat
           /\ i <= j => i * c <= j * c
           /\ (i + 1) * c = i * c + c
           /\ i > 0 => i * c = (i - 1) * c + c
  <1>1. i * c \in Nat /\ j * c \in Nat /\ (i + 1) * c = i * c + c
    OBVIOUS
  <1>2. ASSUME i <= j
        PROVE  i * c <= j * c
    <2>1. j - i \in Nat /\ (j - i) * c \in Nat
      BY <1>2
    <2>2. j * c = i * c + (j - i) * c
      OBVIOUS
    <2>3. QED
      BY <1>1, <2>1, <2>2
  <1>3. i > 0 => i * c = (i - 1) * c + c
    OBVIOUS
  <1>4. QED
    BY <1>1, <1>2, <1>3

(* How many chunks r bytes are cut into.                                   *)
Count(r) == IF r <= ChunkSize THEN 1 ELSE ((r - 1) \div ChunkSize) + 1

(* How many of r bytes the first i chunks hold.                            *)
Held(r, i) == IF i * ChunkSize <= r THEN i * ChunkSize ELSE r

(* A chunk holds something.                                                *)
LEMMA ChunkSizeType == ChunkSize \in Nat \ {0}
  BY SessionCookieAssumption

(* What Go's integer division of lengths returns.                          *)
LEMMA Quotient ==
    ASSUME NEW c \in Nat \ {0}, NEW r \in Nat
    PROVE  /\ r \div c \in Nat
           /\ (r \div c) * c <= r
           /\ r < (r \div c) * c + c
  OBVIOUS

(* A quotient is known by its bounds.                                      *)
LEMMA QuotientUnique ==
    ASSUME NEW c \in Nat \ {0}, NEW p \in Nat, NEW q \in Nat, NEW r \in Nat,
           p * c <= r, r < p * c + c, q * c <= r, r < q * c + c
    PROVE  p = q
  <1>1. CASE p < q
    <2>1. (p + 1) * c <= q * c
      BY <1>1, Multiples
    <2>2. QED
      BY <2>1, Multiples
  <1>2. CASE q < p
    <2>1. (q + 1) * c <= p * c
      BY <1>2, Multiples
    <2>2. QED
      BY <2>1, Multiples
  <1>3. QED
    BY <1>1, <1>2

(* The last chunk is the one that the remaining bytes fit in.              *)
LEMMA CountBounds ==
    ASSUME NEW r \in Nat
    PROVE  /\ Count(r) \in Nat \ {0}
           /\ r <= Count(r) * ChunkSize
           /\ (Count(r) - 1) * ChunkSize <= r
           /\ r > 0 => (Count(r) - 1) * ChunkSize < r
  <1> USE ChunkSizeType
  <1>1. CASE r <= ChunkSize
    BY <1>1 DEF Count
  <1>2. CASE r > ChunkSize
    <2> DEFINE q == (r - 1) \div ChunkSize
    <2>1. r - 1 \in Nat
      BY <1>2
    <2>2. q \in Nat /\ q * ChunkSize <= r - 1 /\ r - 1 < q * ChunkSize + ChunkSize
      BY <2>1, Quotient
    <2>3. Count(r) = q + 1
      BY <1>2 DEF Count
    <2> HIDE DEF q
    <2>4. (q + 1) * ChunkSize = q * ChunkSize + ChunkSize /\ q * ChunkSize \in Nat
      BY <2>2, Multiples
    <2>5. q + 1 \in Nat \ {0} /\ q + 1 - 1 = q
      BY <2>2
    <2>6. QED
      BY <2>2, <2>3, <2>4, <2>5
  <1>3. QED
    BY <1>1, <1>2

(* Cutting off a chunk leaves one chunk fewer.                             *)
LEMMA CountStep ==
    ASSUME NEW r \in Nat, r > ChunkSize
    PROVE  Count(r) = Count(r - ChunkSize) + 1
  <1> USE ChunkSizeType
  <1>1. r - ChunkSize \in Nat \ {0}
    OBVIOUS
  <1> DEFINE p == Count(r) - 1
             q == Count(r - ChunkSize)
  <1>2. /\ p \in Nat /\ r <= (p + 1) * ChunkSize /\ p * ChunkSize < r
    BY CountBounds
  <1>3. /\ q \in Nat \ {0} /\ r - ChunkSize <= q * ChunkSize
        /\ (q - 1) * ChunkSize < r - ChunkSize
    BY <1>1, CountBounds
  <1>4. Count(r) = p + 1
    BY CountBounds
  <1> HIDE DEF p, q
  <1>5. /\ (p + 1) * ChunkSize = p * ChunkSize + ChunkSize
        /\ q * ChunkSize = (q - 1) * ChunkSize + ChunkSize
        /\ p * ChunkSize \in Nat /\ q * ChunkSize \in Nat
    BY <1>2, <1>3, Multiples
  <1>6. /\ p * ChunkSize <= r - 1 /\ r - 1 < p * ChunkSize + ChunkSize
        /\ q * ChunkSize <= r - 1 /\ r - 1 < q * ChunkSize + ChunkSize
    BY <1>2, <1>3, <1>5
  <1>7. p = q
    BY <1>1, <1>2, <1>3, <1>6, QuotientUnique
  <1>8. QED
    BY <1>4, <1>7 DEF q

(* The first chunks are full, and all of them hold all the bytes.          *)
LEMMA HeldBounds ==
    ASSUME NEW r \in Nat, NEW i \in 1 .. Count(r)
    PROVE  /\ (i - 1) * ChunkSize \in 0 .. r
           /\ Held(r, i) \in (i - 1) * ChunkSize .. r
           /\ Held(r, i) <= (i - 1) * ChunkSize + ChunkSize
           /\ Held(r, i - 1) = (i - 1) * ChunkSize
           /\ i = Count(r) => Held(r, i) = r
  <1> USE ChunkSizeType
  <1>1. Count(r) \in Nat \ {0} /\ (Count(r) - 1) * ChunkSize <= r /\ r <= Count(r) * ChunkSize
    BY CountBounds
  <1>2. i \in Nat \ {0} /\ i - 1 \in Nat /\ Count(r) - 1 \in Nat /\ i - 1 <= Count(r) - 1
    BY <1>1
  <1>3. (i - 1) * ChunkSize <= (Count(r) - 1) * ChunkSize /\ (i - 1) * ChunkSize \in Nat
    BY <1>2, Multiples
  <1>4. i * ChunkSize = (i - 1) * ChunkSize + ChunkSize
    BY <1>2, Multiples
  <1>5. (i - 1) * ChunkSize <= r
    BY <1>1, <1>2, <1>3, Multiples
  <1>6. Held(r, i - 1) = (i - 1) * ChunkSize
    BY <1>5 DEF Held
  <1>7. Held(r, i) = IF (i - 1) * ChunkSize + ChunkSize <= r
                     THEN (i - 1) * ChunkSize + ChunkSize ELSE r
    BY <1>4 DEF Held
  <1>8. i = Count(r) => Held(r, i) = r
    BY <1>1, <1>4, <1>7
  <1>9. QED
    BY <1>3, <1>5, <1>6, <1>7, <1>8

-----------------------------------------------------------------------------
(* chunkString.                                                            *)

(* The chunks of the last r bytes of s.                                    *)
Chunks(s, r) ==
    [i \in 1 .. Count(r) |->
        SubSeq(s, Len(s) - r + (i - 1) * ChunkSize + 1, Len(s) - r + Held(r, i))]

(* One round of the loop: cut off a chunk, or keep what is left.           *)
Round(s, f) ==
    [rest \in 0 .. Len(s) |->
        IF rest > ChunkSize
        THEN <<SubSeq(s, Len(s) - rest + 1, Len(s) - rest + ChunkSize)>>
                 \o f[rest - ChunkSize]
        ELSE <<SubSeq(s, Len(s) - rest + 1, Len(s))>>]

(* Each chunk is a piece of s no longer than a cookie.                     *)
LEMMA ChunkType ==
    ASSUME NEW S, NEW s \in Seq(S), NEW r \in 0 .. Len(s), NEW i \in 1 .. Count(r)
    PROVE  /\ Chunks(s, r)[i] \in Seq(S)
           /\ Len(Chunks(s, r)[i]) <= ChunkSize
  <1> USE ChunkSizeType
  <1> DEFINE m == Len(s) - r + (i - 1) * ChunkSize + 1
             n == Len(s) - r + Held(r, i)
  <1>1. Len(s) \in Nat /\ r \in Nat
    OBVIOUS
  <1>2. /\ (i - 1) * ChunkSize \in 0 .. r
        /\ Held(r, i) \in (i - 1) * ChunkSize .. r
        /\ Held(r, i) <= (i - 1) * ChunkSize + ChunkSize
    BY <1>1, HeldBounds
  <1>3. m \in Int /\ n \in Int /\ m >= 1 /\ n <= Len(s) /\ n - m + 1 <= ChunkSize
    BY <1>1, <1>2
  <1>4. Chunks(s, r)[i] = SubSeq(s, m, n)
    BY DEF Chunks
  <1> HIDE DEF m, n
  <1>5. \A k \in m .. n : s[k] \in S
    BY <1>3, ElementOfSeq
  <1>6. SubSeq(s, m, n) \in Seq(S) /\ Len(SubSeq(s, m, n)) = IF m <= n THEN n - m + 1 ELSE 0
    BY <1>3, <1>5, SubSeqProperties
  <1>7. QED
    BY <1>3, <1>4, <1>6

(* The chunks, as a sequence.                                              *)
LEMMA ChunksType ==
    ASSUME NEW S, NEW s \in Seq(S), NEW r \in 0 .. Len(s)
    PROVE  /\ Chunks(s, r) \in Seq(Seq(S))
           /\ Len(Chunks(s, r)) = Count(r)
  <1>1. Count(r) \in Nat
    BY CountBounds
  <1>2. \A i \in 1 .. Count(r) : Chunks(s, r)[i] \in Seq(S)
    BY ChunkType
  <1>3. Chunks(s, r) \in [1 .. Count(r) -> Seq(S)]
    BY <1>2 DEF Chunks
  <1>4. QED
    BY <1>1, <1>3

(* Cutting a chunk off the closed form gives the closed form of the rest.  *)
LEMMA ChunksCut ==
    ASSUME NEW S, NEW s \in Seq(S), NEW r \in 0 .. Len(s), r > ChunkSize
    PROVE  Chunks(s, r) = <<SubSeq(s, Len(s) - r + 1, Len(s) - r + ChunkSize)>>
                              \o Chunks(s, r - ChunkSize)
  <1> USE ChunkSizeType
  <1> DEFINE first == SubSeq(s, Len(s) - r + 1, Len(s) - r + ChunkSize)
             p == r - ChunkSize
             rest == Chunks(s, p)
  <1>1. Len(s) \in Nat /\ r \in Nat /\ p \in 0 .. Len(s) /\ p \in Nat
    OBVIOUS
  <1>2. Count(r) = Count(p) + 1 /\ Count(r) \in Nat /\ Count(p) \in Nat \ {0}
    BY <1>1, CountStep, CountBounds
  <1>3. rest \in Seq(Seq(S)) /\ Len(rest) = Count(p)
    BY <1>1, ChunksType
  <1>4. Chunks(s, r) \in Seq(Seq(S)) /\ Len(Chunks(s, r)) = Count(r)
    BY ChunksType
  <1>5. Chunks(s, r)[1] = first
    <2>1. (1 - 1) * ChunkSize = 0 /\ 1 * ChunkSize = ChunkSize
      OBVIOUS
    <2>2. Held(r, 1) = ChunkSize
      BY <2>1, <1>1 DEF Held
    <2>3. 1 \in 1 .. Count(r)
      BY <1>2
    <2>4. Len(s) - r + 0 + 1 = Len(s) - r + 1
      BY <1>1
    <2>5. QED
      BY <2>1, <2>2, <2>3, <2>4 DEF Chunks
  <1>6. first \in Seq(S)
    BY <1>2, <1>5, ChunkType
  <1>7. ASSUME NEW i \in 2 .. Count(r)
        PROVE  Chunks(s, r)[i] = rest[i - 1]
    <2>1. i \in Nat /\ i - 1 \in Nat \ {0} /\ i - 1 \in 1 .. Count(p) /\ i \in 1 .. Count(r)
      BY <1>2
    <2>2. /\ i * ChunkSize = (i - 1) * ChunkSize + ChunkSize
          /\ (i - 1) * ChunkSize = (i - 1 - 1) * ChunkSize + ChunkSize
          /\ (i - 1) * ChunkSize \in Nat /\ (i - 1 - 1) * ChunkSize \in Nat
          /\ i * ChunkSize \in Nat
      BY <2>1, Multiples
    <2>3. Len(s) - r + (i - 1) * ChunkSize + 1 = Len(s) - p + (i - 1 - 1) * ChunkSize + 1
      BY <1>1, <2>2
    <2>4. Len(s) - r + Held(r, i) = Len(s) - p + Held(p, i - 1)
      BY <1>1, <2>2 DEF Held
    <2>5. Chunks(s, r)[i] = SubSeq(s, Len(s) - r + (i - 1) * ChunkSize + 1,
                                      Len(s) - r + Held(r, i))
      BY <2>1 DEF Chunks
    <2>6. rest[i - 1] = SubSeq(s, Len(s) - p + (i - 1 - 1) * ChunkSize + 1,
                                  Len(s) - p + Held(p, i - 1))
      BY <2>1 DEF Chunks
    <2>7. QED
      BY <2>3, <2>4, <2>5, <2>6
  <1> HIDE DEF first, rest, p
  <1>8. <<first>> \in Seq(Seq(S)) /\ Len(<<first>>) = 1 /\ <<first>>[1] = first
    BY <1>6
  <1>9. /\ <<first>> \o rest \in Seq(Seq(S))
        /\ Len(<<first>> \o rest) = 1 + Count(p)
        /\ \A i \in 1 .. 1 + Count(p) :
               (<<first>> \o rest)[i] = IF i <= 1 THEN <<first>>[i] ELSE rest[i - 1]
    BY <1>3, <1>8, ConcatProperties
  <1>10. Len(<<first>> \o rest) = Count(r)
    BY <1>2, <1>9
  <1>11. \A i \in 1 .. Count(r) : Chunks(s, r)[i] = (<<first>> \o rest)[i]
    <2> SUFFICES ASSUME NEW i \in 1 .. Count(r)
                 PROVE  Chunks(s, r)[i] = (<<first>> \o rest)[i]
      OBVIOUS
    <2>1. CASE i = 1
      BY <2>1, <1>2, <1>5, <1>8, <1>9
    <2>2. CASE i # 1
      <3>1. i \in 2 .. Count(r) /\ ~ i <= 1 /\ i \in 1 .. 1 + Count(p)
        BY <2>2, <1>2
      <3>2. QED
        BY <3>1, <1>7, <1>9
    <2>3. QED
      BY <2>1, <2>2
  <1>12. Chunks(s, r) = <<first>> \o rest
    BY <1>4, <1>9, <1>10, <1>11, SeqEqual
  <1>13. QED
    BY <1>12 DEF first, rest, p

(* The last chunk is what is left.                                         *)
LEMMA ChunksRest ==
    ASSUME NEW S, NEW s \in Seq(S), NEW r \in 0 .. Len(s), r <= ChunkSize
    PROVE  Chunks(s, r) = <<SubSeq(s, Len(s) - r + 1, Len(s))>>
  <1> USE ChunkSizeType
  <1> DEFINE only == SubSeq(s, Len(s) - r + 1, Len(s))
  <1>1. Len(s) \in Nat /\ r \in Nat
    OBVIOUS
  <1>2. Count(r) = 1
    BY DEF Count
  <1>3. (1 - 1) * ChunkSize = 0 /\ 1 * ChunkSize = ChunkSize
    OBVIOUS
  <1>4. Len(s) - r + (1 - 1) * ChunkSize + 1 = Len(s) - r + 1
    BY <1>1, <1>3
  <1>5. Len(s) - r + Held(r, 1) = Len(s)
    BY <1>1, <1>3 DEF Held
  <1>6. Chunks(s, r)[1] = only
    BY <1>2, <1>4, <1>5 DEF Chunks
  <1>7. Chunks(s, r) \in Seq(Seq(S)) /\ Len(Chunks(s, r)) = 1
    BY <1>2, ChunksType
  <1>8. only \in Seq(S)
    BY <1>2, <1>6, ChunkType
  <1> HIDE DEF only
  <1>9. <<only>> \in Seq(Seq(S)) /\ Len(<<only>>) = 1 /\ <<only>>[1] = only
    BY <1>8
  <1>10. \A i \in 1 .. 1 : Chunks(s, r)[i] = <<only>>[i]
    BY <1>6, <1>9
  <1>11. Chunks(s, r) = <<only>>
    BY <1>7, <1>9, <1>10, SeqEqual
  <1>12. QED
    BY <1>11 DEF only

(* The closed form is a solution of the loop's equation.                   *)
LEMMA ChunksRound ==
    ASSUME NEW S, NEW s \in Seq(S)
    PROVE  LET h == [r \in 0 .. Len(s) |-> Chunks(s, r)] IN h = Round(s, h)
  <1> USE ChunkSizeType
  <1> DEFINE h == [r \in 0 .. Len(s) |-> Chunks(s, r)]
  <1>1. ASSUME NEW r \in 0 .. Len(s)
        PROVE  h[r] = Round(s, h)[r]
    <2>1. CASE r > ChunkSize
      <3>1. r - ChunkSize \in 0 .. Len(s)
        BY <2>1
      <3>2. h[r - ChunkSize] = Chunks(s, r - ChunkSize) /\ h[r] = Chunks(s, r)
        BY <3>1
      <3> HIDE DEF h
      <3>3. QED
        BY <2>1, <3>2, ChunksCut DEF Round
    <2>2. CASE r <= ChunkSize
      <3>1. h[r] = Chunks(s, r)
        OBVIOUS
      <3> HIDE DEF h
      <3>2. ~ r > ChunkSize
        BY <2>2
      <3>3. QED
        BY <2>2, <3>1, <3>2, ChunksRest DEF Round
    <2>3. QED
      BY <2>1, <2>2
  <1>2. h = Round(s, h)
    BY <1>1 DEF Round
  <1>3. QED
    BY <1>2

(* The loop's equation has one solution: two that differ would differ      *)
(* first where the equation says that they agree.                          *)
LEMMA RoundUnique ==
    ASSUME NEW S, NEW s \in Seq(S), NEW f, NEW g, f = Round(s, f), g = Round(s, g)
    PROVE  f[Len(s)] = g[Len(s)]
  <1> USE ChunkSizeType
  <1> DEFINE T == {r \in 0 .. Len(s) : f[r] # g[r]}
  <1>1. Len(s) \in Nat
    OBVIOUS
  <1>2. T = {}
    <2> SUFFICES ASSUME T # {} PROVE FALSE
      OBVIOUS
    <2>1. T \subseteq Nat
      OBVIOUS
    <2>2. PICK x \in T : \A y \in T : x <= y
      BY <2>1, LeastNatural
    <2>3. x \in 0 .. Len(s) /\ f[x] # g[x]
      OBVIOUS
    <2>4. f[x] = Round(s, f)[x] /\ g[x] = Round(s, g)[x]
      OBVIOUS
    <2>5. CASE x > ChunkSize
      <3>1. x - ChunkSize \in 0 .. Len(s) /\ x - ChunkSize < x
        BY <2>3, <2>5
      <3>2. x - ChunkSize \notin T
        BY <2>2, <3>1
      <3>3. f[x - ChunkSize] = g[x - ChunkSize]
        BY <3>1, <3>2
      <3>4. QED
        BY <2>3, <2>4, <2>5, <3>3 DEF Round
    <2>6. CASE ~ x > ChunkSize
      BY <2>3, <2>4, <2>6 DEF Round
    <2>7. QED
      BY <2>5, <2>6
  <1>3. QED
    BY <1>1, <1>2

(* What chunkString returns.                                               *)
LEMMA ChunkStringChunks ==
    ASSUME NEW S, NEW s \in Seq(S)
    PROVE  ChunkString(s) = Chunks(s, Len(s))
  <1> DEFINE h == [r \in 0 .. Len(s) |-> Chunks(s, r)]
             cut == CHOOSE f : f = Round(s, f)
  <1>1. ChunkString(s) = cut[Len(s)]
    BY DEF ChunkString, Round
  <1>2. h = Round(s, h)
    BY ChunksRound
  <1> HIDE DEF h
  <1>3. cut = Round(s, cut)
    BY <1>2
  <1> HIDE DEF cut
  <1>4. cut[Len(s)] = h[Len(s)]
    BY <1>2, <1>3, RoundUnique
  <1>5. h[Len(s)] = Chunks(s, Len(s))
    <2>1. Len(s) \in 0 .. Len(s)
      BY LenProperties
    <2>2. QED
      BY <2>1 DEF h
  <1>6. QED
    BY <1>1, <1>4, <1>5

-----------------------------------------------------------------------------
(* Putting the chunks together again.                                      *)

(* One step of the concatenation.                                          *)
Joined(q, f) == [i \in 1 .. Len(q) |-> IF i = 1 THEN q[i] ELSE f[i - 1] \o q[i]]

(* The equation of the concatenation has one solution as well.             *)
LEMMA JoinedUnique ==
    ASSUME NEW q, Len(q) \in Nat \ {0}, NEW f, NEW g, f = Joined(q, f), g = Joined(q, g)
    PROVE  f[Len(q)] = g[Len(q)]
  <1> DEFINE T == {i \in 1 .. Len(q) : f[i] # g[i]}
  <1>1. T = {}
    <2> SUFFICES ASSUME T # {} PROVE FALSE
      OBVIOUS
    <2>1. T \subseteq Nat
      OBVIOUS
    <2>2. PICK x \in T : \A y \in T : x <= y
      BY <2>1, LeastNatural
    <2>3. x \in 1 .. Len(q) /\ f[x] # g[x]
      OBVIOUS
    <2>4. f[x] = Joined(q, f)[x] /\ g[x] = Joined(q, g)[x]
      OBVIOUS
    <2>5. CASE x # 1
      <3>1. x - 1 \in 1 .. Len(q) /\ x - 1 < x
        BY <2>3, <2>5
      <3>2. x - 1 \notin T
        BY <2>2, <3>1
      <3>3. f[x - 1] = g[x - 1]
        BY <3>1, <3>2
      <3>4. QED
        BY <2>3, <2>4, <2>5, <3>3 DEF Joined
    <2>6. CASE x = 1
      BY <2>3, <2>4, <2>6 DEF Joined
    <2>7. QED
      BY <2>5, <2>6
  <1>2. QED
    BY <1>1

(* The first i chunks together are the beginning of the payload.           *)
LEMMA PrefixJoined ==
    ASSUME NEW S, NEW s \in Seq(S)
    PROVE  LET q == Chunks(s, Len(s))
               g == [i \in 1 .. Len(q) |-> SubSeq(s, 1, Held(Len(s), i))]
           IN  g = Joined(q, g)
  <1> USE ChunkSizeType
  <1> DEFINE L == Len(s)
             q == Chunks(s, L)
             g == [i \in 1 .. Len(q) |-> SubSeq(s, 1, Held(L, i))]
  <1>1. L \in Nat /\ L \in 0 .. L
    OBVIOUS
  <1>2. Len(q) = Count(L) /\ Count(L) \in Nat \ {0}
    BY <1>1, ChunksType, CountBounds
  <1>3. ASSUME NEW i \in 1 .. Len(q)
        PROVE  q[i] = SubSeq(s, (i - 1) * ChunkSize + 1, Held(L, i))
    <2>1. i \in 1 .. Count(L)
      BY <1>2
    <2>2. (i - 1) * ChunkSize \in 0 .. L /\ Held(L, i) \in (i - 1) * ChunkSize .. L
      BY <1>1, <2>1, HeldBounds
    <2>3. L - L + (i - 1) * ChunkSize + 1 = (i - 1) * ChunkSize + 1 /\ L - L + Held(L, i) = Held(L, i)
      BY <1>1, <2>2
    <2>4. QED
      BY <2>1, <2>3 DEF Chunks
  <1>4. ASSUME NEW i \in 1 .. Len(q)
        PROVE  g[i] = Joined(q, g)[i]
    <2>1. i \in 1 .. Count(L) /\ i \in Nat
      BY <1>2
    <2>2. /\ (i - 1) * ChunkSize \in 0 .. L /\ Held(L, i) \in (i - 1) * ChunkSize .. L
          /\ Held(L, i - 1) = (i - 1) * ChunkSize
      BY <1>1, <2>1, HeldBounds
    <2>3. CASE i = 1
      <3>1. (1 - 1) * ChunkSize + 1 = 1
        OBVIOUS
      <3>2. q[i] = SubSeq(s, 1, Held(L, i))
        BY <1>3, <2>3, <3>1
      <3>3. g[i] = SubSeq(s, 1, Held(L, i))
        OBVIOUS
      <3> HIDE DEF g, q
      <3>4. QED
        BY <2>3, <3>2, <3>3 DEF Joined
    <2>4. CASE i # 1
      <3>1. i - 1 \in 1 .. Len(q)
        BY <1>2, <2>1, <2>4
      <3>2. g[i - 1] = SubSeq(s, 1, (i - 1) * ChunkSize) /\ g[i] = SubSeq(s, 1, Held(L, i))
        BY <2>2, <3>1
      <3> DEFINE k == (i - 1) * ChunkSize
                 n == Held(L, i)
      <3>3. k \in 0 .. L /\ n \in k .. L
        BY <2>2
      <3>4. q[i] = SubSeq(s, k + 1, n)
        BY <1>3
      <3> HIDE DEF g, q, k, n
      <3>5. SubSeq(s, 1, k) \o SubSeq(s, k + 1, n) = SubSeq(s, 1, n)
        <4>1. 1 \in 1 .. Len(s) + 1 /\ k \in 1 - 1 .. Len(s) /\ n \in k .. Len(s)
          BY <1>1, <3>3 DEF L
        <4>2. QED
          BY <4>1, ConcatAdjacentSubSeq
      <3>6. g[i] = g[i - 1] \o q[i]
        BY <3>2, <3>4, <3>5 DEF k, n
      <3>7. QED
        BY <2>4, <3>6 DEF Joined
    <2>5. QED
      BY <2>3, <2>4
  <1>5. g = Joined(q, g)
    BY <1>4 DEF Joined
  <1>6. QED
    BY <1>5

(***************************************************************************)
(* readSessionCookie puts together what chunkString took apart, for every  *)
(* payload and every chunk size, the payloads that are a whole number of   *)
(* chunks included; there is always a chunk, and none is longer than one   *)
(* cookie may be.                                                          *)
(***************************************************************************)
THEOREM ChunksReassemble ==
    ASSUME NEW S, NEW s \in Seq(S)
    PROVE  /\ FlattenSeq(ChunkString(s)) = s
           /\ Len(ChunkString(s)) = Count(Len(s))
           /\ \A i \in 1 .. Count(Len(s)) :
                  ChunkString(s)[i] \in Seq(S) /\ Len(ChunkString(s)[i]) <= ChunkSize
  <1> DEFINE L == Len(s)
             q == Chunks(s, L)
             g == [i \in 1 .. Len(q) |-> SubSeq(s, 1, Held(L, i))]
             flatten == CHOOSE f : f = Joined(q, f)
  <1>1. L \in Nat /\ L \in 0 .. L
    OBVIOUS
  <1>2. ChunkString(s) = q
    BY ChunkStringChunks
  <1>3. Len(q) = Count(L) /\ Count(L) \in Nat \ {0}
    BY <1>1, ChunksType, CountBounds
  <1>4. g = Joined(q, g)
    BY PrefixJoined
  <1>5. g[Len(q)] = SubSeq(s, 1, Held(L, Len(q)))
    <2>1. Len(q) \in 1 .. Len(q)
      BY <1>3
    <2> HIDE DEF q
    <2>2. QED
      BY <2>1
  <1> HIDE DEF g
  <1>6. flatten = Joined(q, flatten)
    BY <1>4
  <1>7. FlattenSeq(q) = flatten[Len(q)]
    BY <1>3 DEF FlattenSeq, Joined
  <1> HIDE DEF flatten, q
  <1>8. flatten[Len(q)] = g[Len(q)]
    BY <1>3, <1>4, <1>6, JoinedUnique
  <1>9. Held(L, Count(L)) = L
    BY <1>1, <1>3, HeldBounds
  <1>10. FlattenSeq(q) = s
    BY <1>3, <1>5, <1>7, <1>8, <1>9, SubSeqFull
  <1>11. \A i \in 1 .. Count(L) : q[i] \in Seq(S) /\ Len(q[i]) <= ChunkSize
    BY <1>1, ChunkType DEF q
  <1>12. QED
    BY <1>2, <1>3, <1>10, <1>11

-----------------------------------------------------------------------------
(* The cookies of one write.                                               *)

CookiesOf(w, size) == SetSessionCookie(Encrypt(w, size))

(* setSessionCookie does not refuse the payload.                           *)
Fits(size) == size <= ChunkSize * MaxChunks

(* An encoded payload has the length it is given and begins with its write.*)
LEMMA EncryptType ==
    ASSUME NEW w \in Nat, NEW size \in Nat \ {0}
    PROVE  /\ Encrypt(w, size) \in Seq(Nat \X Nat)
           /\ Len(Encrypt(w, size)) = size
           /\ Encrypt(w, size)[1] = <<w, 1>>
  BY DEF Encrypt

(* The assumption, in the form the provers use.                            *)
LEMMA Constants ==
    /\ ChunkSize \in Nat \ {0} /\ MaxChunks \in Nat \ {0} /\ CookieCap \in Nat \ {0}
    /\ ChunkSize <= CookieCap
    /\ Sizes \subseteq Nat \ {0}
    /\ ChunkSize * MaxChunks \in Nat
    /\ Names = 0 .. MaxChunks /\ 0 \in Names
  <1>1. ChunkSize \in Nat \ {0} /\ MaxChunks \in Nat \ {0} /\ CookieCap \in Nat \ {0}
    BY SessionCookieAssumption
  <1>2. QED
    BY <1>1, SessionCookieAssumption DEF Names

(* The number of chunks is over the cap when the bytes are.                *)
LEMMA CountFits ==
    ASSUME NEW size \in Nat \ {0}
    PROVE  Count(size) <= MaxChunks <=> Fits(size)
  <1> USE Constants
  <1>1. /\ Count(size) \in Nat \ {0}
        /\ size <= Count(size) * ChunkSize
        /\ (Count(size) - 1) * ChunkSize < size
    <2>1. size \in Nat /\ size > 0
      OBVIOUS
    <2>2. QED
      BY ONLY <2>1, CountBounds
  <1>2. ChunkSize * MaxChunks = MaxChunks * ChunkSize
    OBVIOUS
  <1>3. ASSUME Count(size) <= MaxChunks
        PROVE  Fits(size)
    <2>1. Count(size) * ChunkSize <= MaxChunks * ChunkSize /\ Count(size) * ChunkSize \in Nat
      BY <1>1, <1>3, Multiples
    <2>2. QED
      BY <1>1, <1>2, <2>1 DEF Fits
  <1>4. ASSUME ~ Count(size) <= MaxChunks
        PROVE  ~ Fits(size)
    <2>1. Count(size) - 1 \in Nat /\ MaxChunks <= Count(size) - 1
      BY <1>1, <1>4
    <2>2. MaxChunks * ChunkSize <= (Count(size) - 1) * ChunkSize /\ (Count(size) - 1) * ChunkSize \in Nat
      BY <2>1, Multiples
    <2>3. QED
      BY <1>1, <1>2, <2>2 DEF Fits
  <1>5. QED
    BY <1>3, <1>4

(* A payload that fits in one cookie.                                      *)
LEMMA CookiesSmall ==
    ASSUME NEW w \in Nat, NEW size \in Nat \ {0}, size <= ChunkSize
    PROVE  /\ DOMAIN CookiesOf(w, size) = {0}
           /\ CookiesOf(w, size)[0] = Data(Encrypt(w, size))
           /\ Fits(size)
  <1> USE Constants
  <1>1. CookiesOf(w, size) = [name \in {0} |-> Data(Encrypt(w, size))]
    BY EncryptType DEF CookiesOf, SetSessionCookie
  <1>2. Count(size) = 1
    BY DEF Count
  <1>3. Fits(size)
    BY <1>2, CountFits
  <1>4. QED
    BY <1>1, <1>3

(* A payload that is cut into chunks.                                      *)
LEMMA CookiesChunked ==
    ASSUME NEW w \in Nat, NEW size \in Nat \ {0}, size > ChunkSize, Fits(size)
    PROVE  LET q == ChunkString(Encrypt(w, size))
           IN  /\ Count(size) \in 1 .. MaxChunks
               /\ DOMAIN CookiesOf(w, size) = 0 .. Count(size)
               /\ CookiesOf(w, size)[0] = Header(Count(size))
               /\ \A i \in 1 .. Count(size) :
                      /\ CookiesOf(w, size)[i] = Data(q[i])
                      /\ Len(q[i]) <= ChunkSize /\ Len(q[i]) \in Nat
               /\ FlattenSeq([i \in 1 .. Count(size) |-> q[i]]) = Encrypt(w, size)
  <1> USE Constants
  <1> DEFINE s == Encrypt(w, size)
             q == ChunkString(s)
             n == Count(size)
  <1>1. s \in Seq(Nat \X Nat) /\ Len(s) = size
    BY EncryptType
  <1>2. n \in Nat \ {0} /\ n <= MaxChunks
    BY CountBounds, CountFits
  <1>3. /\ FlattenSeq(q) = s /\ Len(q) = n
        /\ \A i \in 1 .. n : q[i] \in Seq(Nat \X Nat) /\ Len(q[i]) <= ChunkSize
    BY <1>1, ChunksReassemble
  <1>4. q = [i \in 1 .. n |-> q[i]]
    <2>1. q = Chunks(s, Len(s))
      BY <1>1, ChunkStringChunks
    <2>2. q \in Seq(Seq(Nat \X Nat))
      BY <1>1, <2>1, ChunksType
    <2> HIDE DEF q, n
    <2>3. QED
      BY <1>3, <2>2, LenProperties
  <1>5. CookiesOf(w, size) = [name \in 0 .. n |-> IF name = 0 THEN Header(n) ELSE Data(q[name])]
    <2>1. ~ Len(s) <= ChunkSize /\ ~ n > MaxChunks
      BY <1>1, <1>2
    <2>2. QED
      BY <1>3, <2>1 DEF CookiesOf, SetSessionCookie
  <1> HIDE DEF q, n
  <1>6. 0 \in 0 .. n /\ \A i \in 1 .. n : i \in 0 .. n /\ i # 0
    BY <1>2
  <1>7. \A i \in 1 .. n : Len(q[i]) \in Nat
    BY <1>3, LenProperties
  <1>8. n \in 1 .. MaxChunks
    BY <1>2
  <1>9. FlattenSeq([i \in 1 .. n |-> q[i]]) = s
    BY <1>3, <1>4
  <1>10. QED
    BY <1>3, <1>5, <1>6, <1>7, <1>8, <1>9 DEF q, n

(* A payload over the cap sets no cookie.                                  *)
LEMMA CookiesRefused ==
    ASSUME NEW w \in Nat, NEW size \in Nat \ {0}, ~ Fits(size)
    PROVE  DOMAIN CookiesOf(w, size) = {}
  <1> USE Constants
  <1> DEFINE s == Encrypt(w, size)
  <1>1. s \in Seq(Nat \X Nat) /\ Len(s) = size
    BY EncryptType
  <1>2. ~ size <= ChunkSize
    BY CookiesSmall
  <1>3. Count(size) \in Nat /\ ~ Count(size) <= MaxChunks
    BY CountFits, CountBounds
  <1>4. Len(ChunkString(s)) > MaxChunks
    BY <1>1, <1>3, ChunksReassemble
  <1>5. CookiesOf(w, size) = <<>>
    BY <1>1, <1>2, <1>4 DEF CookiesOf, SetSessionCookie
  <1>6. QED
    BY <1>5

(* The browser keeps every cookie that a write sets.                       *)
LEMMA CookiesKept ==
    ASSUME NEW w \in Nat, NEW size \in Nat \ {0}, NEW name \in DOMAIN CookiesOf(w, size)
    PROVE  name \in Names /\ Len(CookiesOf(w, size)[name].bytes) <= CookieCap
  <1> USE Constants
  <1>1. CASE size <= ChunkSize
    <2>1. name = 0 /\ CookiesOf(w, size)[name] = Data(Encrypt(w, size))
      BY <1>1, CookiesSmall
    <2>2. CookiesOf(w, size)[name].bytes = Encrypt(w, size)
      BY <2>1 DEF Data
    <2>3. QED
      BY <1>1, <2>1, <2>2, EncryptType
  <1>2. CASE size > ChunkSize /\ Fits(size)
    <2>1. Count(size) \in 1 .. MaxChunks /\ name \in 0 .. Count(size)
      BY <1>2, CookiesChunked
    <2>2. CASE name = 0
      <3>1. CookiesOf(w, size)[name] = Header(Count(size))
        BY <1>2, <2>2, CookiesChunked
      <3>2. CookiesOf(w, size)[name].bytes = <<>>
        BY <3>1 DEF Header
      <3>3. QED
        BY <2>2, <3>2
    <2>3. CASE name # 0
      <3>1. name \in 1 .. Count(size) /\ name \in Names
        BY <2>1, <2>3
      <3> DEFINE bytes == ChunkString(Encrypt(w, size))[name]
      <3>2. CookiesOf(w, size)[name] = Data(bytes) /\ Len(bytes) <= ChunkSize /\ Len(bytes) \in Nat
        BY <1>2, <3>1, CookiesChunked
      <3> HIDE DEF bytes
      <3>3. CookiesOf(w, size)[name].bytes = bytes
        BY <3>2 DEF Data
      <3>4. QED
        BY <3>1, <3>2, <3>3
    <2>4. QED
      BY <2>2, <2>3
  <1>3. CASE ~ Fits(size)
    BY <1>3, CookiesRefused
  <1>4. QED
    BY <1>1, <1>2, <1>3

-----------------------------------------------------------------------------
(* The browser's cookies.                                                  *)

(* What a response under way can be.                                       *)
Sent(response) ==
    \/ response = [write |-> 0, set |-> ClearSessionCookie]
    \/ \E w \in 1 .. Len(sizes) : response = [write |-> w, set |-> CookiesOf(w, sizes[w])]

(***************************************************************************)
(* Every response carries all the cookies of its write or clears every     *)
(* name; the browser holds nothing after a clear, and after a write the    *)
(* cookies of that write under the names it set, less the ones evicted.    *)
(* What lies under the other names is not constrained: those are the       *)
(* chunks that larger sessions left behind.                                *)
(***************************************************************************)
CookieInv ==
    /\ sizes \in Seq(Sizes)
    /\ last \in 0 .. Len(sizes)
    /\ evicted \in BOOLEAN
    /\ DOMAIN jar = Names
    /\ \A response \in inFlight : Sent(response)
    /\ last = 0 => \A name \in Names : jar[name] = NoCookie
    /\ last # 0 =>
           /\ Fits(sizes[last])
           /\ \A name \in DOMAIN CookiesOf(last, sizes[last]) :
                  \/ jar[name] = CookiesOf(last, sizes[last])[name]
                  \/ evicted /\ jar[name] = NoCookie

(* Every payload written has a length.                                     *)
LEMMA SizeType ==
    ASSUME CookieInv, NEW w \in 1 .. Len(sizes)
    PROVE  sizes[w] \in Nat \ {0} /\ w \in Nat
  BY Constants DEF CookieInv

LEMMA InitCookie == Init => CookieInv
  <1> SUFFICES ASSUME Init PROVE CookieInv
    OBVIOUS
  <1>1. sizes \in Seq(Sizes) /\ Len(sizes) = 0 /\ last = 0 /\ last \in 0 .. Len(sizes)
    BY DEF Init
  <1>2. DOMAIN jar = Names /\ \A name \in Names : jar[name] = NoCookie
    BY DEF Init
  <1>3. inFlight = {} /\ evicted \in BOOLEAN
    BY DEF Init
  <1>4. QED
    BY <1>1, <1>2, <1>3 DEF CookieInv

LEMMA WriteCookie ==
    ASSUME CookieInv, NEW size \in Sizes, Write(size)
    PROVE  CookieInv'
  <1> USE Constants
  <1> DEFINE w == Len(sizes) + 1
             new == [write |-> w, set |-> CookiesOf(w, size)]
  <1>1. sizes \in Seq(Sizes) /\ Len(sizes) \in Nat /\ last \in 0 .. Len(sizes)
    BY DEF CookieInv
  <1>2. /\ sizes' \in Seq(Sizes) /\ Len(sizes') = w
        /\ \A v \in 1 .. Len(sizes) : sizes'[v] = sizes[v]
        /\ sizes'[w] = size
    BY <1>1 DEF Write
  <1>3. inFlight' = inFlight \cup {new}
    BY <1>2 DEF Write, CookiesOf
  <1>4. jar' = jar /\ last' = last /\ evicted' = evicted
    BY DEF Write
  <1>5. 1 .. Len(sizes) \subseteq 1 .. w /\ w \in 1 .. w /\ last \in 0 .. w
    BY <1>1
  <1>6. ASSUME NEW response \in inFlight
        PROVE  Sent(response)'
    <2>1. Sent(response)
      BY DEF CookieInv
    <2>2. CASE response = [write |-> 0, set |-> ClearSessionCookie]
      BY <2>2 DEF Sent
    <2>3. ASSUME NEW v \in 1 .. Len(sizes), response = [write |-> v, set |-> CookiesOf(v, sizes[v])]
          PROVE  Sent(response)'
      <3>1. v \in 1 .. Len(sizes') /\ sizes'[v] = sizes[v]
        BY <1>2, <1>5
      <3>2. response = [write |-> v, set |-> CookiesOf(v, sizes'[v])]
        BY <2>3, <3>1
      <3>3. QED
        BY <3>1, <3>2 DEF Sent
    <2>4. QED
      BY <2>1, <2>2, <2>3 DEF Sent
  <1>7. ASSUME NEW response, response = new
        PROVE  Sent(response)'
    <2>1. w \in 1 .. Len(sizes') /\ response = [write |-> w, set |-> CookiesOf(w, sizes'[w])]
      BY <1>2, <1>5, <1>7
    <2> HIDE DEF w
    <2>2. QED
      BY <2>1 DEF Sent
  <1>8. \A response \in inFlight' : Sent(response)'
    BY <1>3, <1>6, <1>7
  <1>9. last # 0 => sizes'[last] = sizes[last]
    BY <1>1, <1>2
  <1> HIDE DEF w, new
  <1>10. last' = 0 => \A name \in Names : jar'[name] = NoCookie
    BY <1>4 DEF CookieInv
  <1>11. last' # 0 =>
             /\ Fits(sizes'[last'])
             /\ \A name \in DOMAIN CookiesOf(last', sizes'[last']) :
                    \/ jar'[name] = CookiesOf(last', sizes'[last'])[name]
                    \/ evicted' /\ jar'[name] = NoCookie
    BY <1>4, <1>9 DEF CookieInv
  <1>12. sizes' \in Seq(Sizes) /\ last' \in 0 .. Len(sizes') /\ evicted' \in BOOLEAN /\ DOMAIN jar' = Names
    BY <1>2, <1>4, <1>5 DEF CookieInv
  <1>13. QED
    BY <1>8, <1>10, <1>11, <1>12 DEF CookieInv

LEMMA ClearCookie ==
    ASSUME CookieInv, Clear
    PROVE  CookieInv'
  <1>1. UNCHANGED <<jar, sizes, last, evicted>>
    BY DEF Clear
  <1>2. \A response \in inFlight' : Sent(response)'
    BY <1>1 DEF Clear, CookieInv, Sent
  <1>3. QED
    BY <1>1, <1>2 DEF CookieInv

(* What the browser holds once it took the cookies of a response.          *)
LEMMA Delivered ==
    ASSUME CookieInv, NEW response \in inFlight, Deliver(response)
    PROVE  /\ DOMAIN jar' = Names /\ sizes' = sizes
           /\ \A other \in inFlight' : Sent(other)'
  <1>1. DOMAIN jar' = Names /\ sizes' = sizes
    BY DEF Deliver
  <1>2. inFlight' \subseteq inFlight
    BY DEF Deliver
  <1>3. QED
    BY <1>1, <1>2 DEF CookieInv, Sent

(* A response that clears the session.                                     *)
LEMMA DeliverClear ==
    ASSUME CookieInv, NEW response \in inFlight, Deliver(response),
           response = [write |-> 0, set |-> ClearSessionCookie]
    PROVE  CookieInv'
  <1> USE Constants
  <1>1. DOMAIN jar' = Names /\ sizes' = sizes /\ \A other \in inFlight' : Sent(other)'
    BY Delivered
  <1>2. response.write = 0 /\ response.set = ClearSessionCookie
    OBVIOUS
  <1>3. last' = 0 /\ evicted' = FALSE
    BY <1>2 DEF Deliver
  <1>4. ASSUME NEW name \in Names
        PROVE  jar'[name] = NoCookie
    <2>1. name \in DOMAIN ClearSessionCookie /\ ClearSessionCookie[name] = NoCookie
      BY DEF ClearSessionCookie
    <2>2. Len(NoCookie.bytes) <= CookieCap
      BY DEF NoCookie
    <2>3. QED
      BY <1>2, <2>1, <2>2 DEF Deliver
  <1>5. sizes' \in Seq(Sizes) /\ Len(sizes') \in Nat
    BY <1>1 DEF CookieInv
  <1>6. last' \in 0 .. Len(sizes')
    BY <1>3, <1>5
  <1>7. evicted' \in BOOLEAN
    BY <1>3
  <1>8. last' = 0 /\ \A name \in Names : jar'[name] = NoCookie
    BY <1>3, <1>4
  <1>9. QED
    BY <1>1, <1>5, <1>6, <1>7, <1>8 DEF CookieInv

(* A response that carries a session, or was refused one.                  *)
LEMMA DeliverWrite ==
    ASSUME CookieInv, NEW response \in inFlight, Deliver(response),
           NEW w \in 1 .. Len(sizes), response = [write |-> w, set |-> CookiesOf(w, sizes[w])]
    PROVE  CookieInv'
  <1> USE Constants
  <1> DEFINE set == CookiesOf(w, sizes[w])
  <1>1. DOMAIN jar' = Names /\ sizes' = sizes /\ \A other \in inFlight' : Sent(other)'
    BY Delivered
  <1>2. sizes[w] \in Nat \ {0} /\ w \in Nat /\ w # 0
    BY SizeType
  <1>3. response.write = w /\ response.set = set
    OBVIOUS
  <1>4. \A name \in DOMAIN set : name \in Names /\ Len(set[name].bytes) <= CookieCap
    BY <1>2, CookiesKept
  <1> HIDE DEF set
  <1>5. \A name \in Names : jar'[name] = IF name \in DOMAIN set THEN set[name] ELSE jar[name]
    BY <1>3, <1>4 DEF Deliver
  <1>6. CASE Fits(sizes[w])
    <2>1. ~ sizes[w] > ChunkSize * MaxChunks
      BY <1>2, <1>6 DEF Fits
    <2>2. last' = w /\ evicted' = FALSE
      BY <1>3, <2>1 DEF Deliver
    <2>3. \A name \in DOMAIN set : jar'[name] = set[name]
      BY <1>4, <1>5
    <2>4. \A name \in DOMAIN CookiesOf(last', sizes'[last']) :
              jar'[name] = CookiesOf(last', sizes'[last'])[name]
      BY <1>1, <2>2, <2>3 DEF set
    <2>5. last' # 0 /\ last' \in 0 .. Len(sizes') /\ Fits(sizes'[last']) /\ evicted' \in BOOLEAN
      BY <1>1, <1>2, <1>6, <2>2
    <2>6. sizes' \in Seq(Sizes)
      BY <1>1 DEF CookieInv
    <2>7. QED
      BY <1>1, <2>4, <2>5, <2>6 DEF CookieInv
  <1>7. CASE ~ Fits(sizes[w])
    <2>1. sizes[w] > ChunkSize * MaxChunks
      BY <1>2, <1>7 DEF Fits
    <2>2. last' = last /\ evicted' = evicted
      BY <1>2, <1>3, <2>1 DEF Deliver
    <2>3. DOMAIN set = {}
      BY <1>2, <1>7, CookiesRefused DEF set
    <2>4. \A name \in Names : jar'[name] = jar[name]
      BY <1>5, <2>3
    <2>5. ASSUME last # 0
          PROVE  \A name \in DOMAIN CookiesOf(last, sizes[last]) : name \in Names
      <3>1. last \in 1 .. Len(sizes)
        BY <2>5 DEF CookieInv
      <3>2. QED
        BY <3>1, SizeType, CookiesKept
    <2>6. last' # 0 =>
             /\ Fits(sizes'[last'])
             /\ \A name \in DOMAIN CookiesOf(last', sizes'[last']) :
                    \/ jar'[name] = CookiesOf(last', sizes'[last'])[name]
                    \/ evicted' /\ jar'[name] = NoCookie
      BY <1>1, <2>2, <2>4, <2>5 DEF CookieInv
    <2>7. last' = 0 => \A name \in Names : jar'[name] = NoCookie
      BY <2>2, <2>4 DEF CookieInv
    <2>8. sizes' \in Seq(Sizes) /\ last' \in 0 .. Len(sizes') /\ evicted' \in BOOLEAN
      BY <1>1, <2>2 DEF CookieInv
    <2>9. QED
      BY <1>1, <2>6, <2>7, <2>8 DEF CookieInv
  <1>8. QED
    BY <1>6, <1>7

LEMMA EvictCookie ==
    ASSUME CookieInv, NEW gone \in Names, Evict(gone)
    PROVE  CookieInv'
  <1>1. UNCHANGED <<sizes, inFlight, last>> /\ evicted' = TRUE
    BY DEF Evict
  <1>2. DOMAIN jar' = Names /\ \A name \in Names : jar'[name] = IF name = gone THEN NoCookie ELSE jar[name]
    BY DEF Evict, CookieInv
  <1>3. \A response \in inFlight' : Sent(response)'
    BY <1>1 DEF CookieInv, Sent
  <1>4. ASSUME last # 0
        PROVE  \A name \in DOMAIN CookiesOf(last, sizes[last]) : name \in Names
    <2>1. last \in 1 .. Len(sizes)
      BY <1>4 DEF CookieInv
    <2>2. QED
      BY <2>1, SizeType, CookiesKept
  <1>5. last' # 0 =>
            /\ Fits(sizes'[last'])
            /\ \A name \in DOMAIN CookiesOf(last', sizes'[last']) :
                   \/ jar'[name] = CookiesOf(last', sizes'[last'])[name]
                   \/ evicted' /\ jar'[name] = NoCookie
    BY <1>1, <1>2, <1>4 DEF CookieInv
  <1>6. last' = 0 => \A name \in Names : jar'[name] = NoCookie
    BY <1>1, <1>2 DEF CookieInv
  <1>7. sizes' \in Seq(Sizes) /\ last' \in 0 .. Len(sizes') /\ evicted' \in BOOLEAN
    BY <1>1 DEF CookieInv
  <1>8. QED
    BY <1>2, <1>3, <1>5, <1>6, <1>7 DEF CookieInv

LEMMA NextCookie == CookieInv /\ [Next]_vars => CookieInv'
  <1> SUFFICES ASSUME CookieInv, [Next]_vars PROVE CookieInv'
    OBVIOUS
  <1>1. ASSUME NEW size \in Sizes, Write(size)
        PROVE  CookieInv'
    BY <1>1, WriteCookie
  <1>2. CASE Clear
    BY <1>2, ClearCookie
  <1>3. ASSUME NEW response \in inFlight, Deliver(response)
        PROVE  CookieInv'
    <2>1. Sent(response)
      BY DEF CookieInv
    <2>2. CASE response = [write |-> 0, set |-> ClearSessionCookie]
      BY <1>3, <2>2, DeliverClear
    <2>3. ASSUME NEW w \in 1 .. Len(sizes), response = [write |-> w, set |-> CookiesOf(w, sizes[w])]
          PROVE  CookieInv'
      BY <1>3, <2>3, DeliverWrite
    <2>4. QED
      BY <2>1, <2>2, <2>3 DEF Sent
  <1>4. ASSUME NEW name \in Names, Evict(name)
        PROVE  CookieInv'
    BY <1>4, EvictCookie
  <1>5. CASE UNCHANGED vars
    BY <1>5 DEF CookieInv, Sent, vars
  <1>6. QED
    BY <1>1, <1>2, <1>3, <1>4, <1>5 DEF Next

(***************************************************************************)
(* The inductive invariant of the browser's cookies, whatever the sizes of *)
(* the sessions, the chunk size and the order of the responses.            *)
(***************************************************************************)
THEOREM CookieInvHolds == Spec => []CookieInv
  <1>1. Init => CookieInv
    BY InitCookie
  <1>2. CookieInv /\ [Next]_vars => CookieInv'
    BY NextCookie
  <1>3. QED
    BY <1>1, <1>2, PTL DEF Spec

(***************************************************************************)
(* clearSessionCookie expires every name that setSessionCookie may have    *)
(* used, so that nothing of a session is left after a sign-out.            *)
(***************************************************************************)
THEOREM SignOutLeavesNothing == Spec => []ClearedClean
  <1>1. CookieInv => ClearedClean
    BY DEF CookieInv, ClearedClean
  <1>2. QED
    BY <1>1, CookieInvHolds, PTL

-----------------------------------------------------------------------------
(* Reading.                                                                *)

(* decryptSession authenticates: only the write that made them has these   *)
(* bytes.                                                                  *)
LEMMA DecryptWrite ==
    ASSUME CookieInv, NEW w \in 1 .. Len(sizes)
    PROVE  Decrypt(Encrypt(w, sizes[w])) = w
  <1>1. DOMAIN sizes = 1 .. Len(sizes)
    BY DEF CookieInv
  <1>2. ASSUME NEW v \in DOMAIN sizes, Encrypt(w, sizes[w]) = Encrypt(v, sizes[v])
        PROVE  v = w
    <2>1. v \in 1 .. Len(sizes)
      BY <1>1
    <2>2. Encrypt(w, sizes[w])[1] = <<w, 1>>
      BY SizeType, EncryptType
    <2>3. Encrypt(v, sizes[v])[1] = <<v, 1>>
      BY <2>1, SizeType, EncryptType
    <2>4. QED
      BY <1>2, <2>2, <2>3
  <1>3. QED
    BY <1>1, <1>2 DEF Decrypt

(* A base cookie is told from its absence, and a header from a payload.    *)
LEMMA CookieKinds ==
    ASSUME NEW n \in Nat, NEW bytes
    PROVE  /\ Header(n).chunks = n /\ Header(n) # NoCookie
           /\ Data(bytes).chunks = 0 /\ Data(bytes).bytes = bytes /\ Data(bytes) # NoCookie
  <1>1. Header(n).chunks = n /\ Data(bytes).chunks = 0 /\ Data(bytes).bytes = bytes /\ NoCookie.chunks = -1
    BY DEF Header, Data, NoCookie
  <1>2. n # -1 /\ 0 # -1
    OBVIOUS
  <1>3. QED
    BY <1>1, <1>2

(* The three ways a request can go: no base cookie, one cookie, chunks.    *)
LEMMA ReadNothing ==
    ASSUME jar[0] = NoCookie
    PROVE  ReadSessionCookie = NoSession
  BY DEF ReadSessionCookie

LEMMA ReadSmall ==
    ASSUME CookieInv, last # 0, sizes[last] <= ChunkSize, jar[0] # NoCookie
    PROVE  ReadSessionCookie = last
  <1>1. last \in 1 .. Len(sizes)
    BY DEF CookieInv
  <1>2. sizes[last] \in Nat \ {0} /\ last \in Nat
    BY <1>1, SizeType
  <1> DEFINE s == Encrypt(last, sizes[last])
  <1>3. jar[0] = Data(s)
    BY <1>2, CookiesSmall DEF CookieInv
  <1>4. Decrypt(s) = last
    BY <1>1, DecryptWrite
  <1> HIDE DEF s
  <1>5. jar[0].chunks = 0 /\ jar[0].bytes = s
    BY <1>3, CookieKinds
  <1>6. QED
    BY <1>4, <1>5 DEF ReadSessionCookie

LEMMA ReadChunked ==
    ASSUME CookieInv, last # 0, sizes[last] > ChunkSize, jar[0] # NoCookie
    PROVE  \/ ReadSessionCookie = last
           \/ evicted /\ ReadSessionCookie = Invalid
  <1> USE Constants
  <1>1. last \in 1 .. Len(sizes)
    BY DEF CookieInv
  <1>2. sizes[last] \in Nat \ {0} /\ last \in Nat
    BY <1>1, SizeType
  <1> DEFINE s == Encrypt(last, sizes[last])
             q == ChunkString(s)
             n == Count(sizes[last])
             set == CookiesOf(last, sizes[last])
  <1>3. Fits(sizes[last])
    BY DEF CookieInv
  <1>4. /\ n \in 1 .. MaxChunks
        /\ DOMAIN set = 0 .. n /\ set[0] = Header(n)
        /\ \A i \in 1 .. n : set[i] = Data(q[i]) /\ Len(q[i]) <= ChunkSize
        /\ FlattenSeq([i \in 1 .. n |-> q[i]]) = s
    BY <1>2, <1>3, CookiesChunked
  <1>5. \A name \in DOMAIN set : jar[name] = set[name] \/ (evicted /\ jar[name] = NoCookie)
    BY DEF CookieInv
  <1>6. Decrypt(s) = last
    BY <1>1, DecryptWrite
  <1> HIDE DEF s, q, n, set
  <1>7. n \in Nat \ {0} /\ n <= MaxChunks /\ 0 \in 0 .. n
    BY <1>4
  <1>8. jar[0] = Header(n)
    BY <1>4, <1>5, <1>7
  <1>9. jar[0].chunks = n
    BY <1>7, <1>8, CookieKinds
  <1>10. \A i \in 1 .. n : i \in 0 .. n
    BY <1>7
  <1>11. \A i \in 1 .. n : jar[i] = Data(q[i]) \/ (evicted /\ jar[i] = NoCookie)
    BY <1>4, <1>5, <1>10
  <1>12. CASE \E i \in 1 .. n : jar[i] = NoCookie
    <2>1. evicted
      BY <1>11, <1>12, CookieKinds
    <2>2. ReadSessionCookie = Invalid
      BY <1>7, <1>9, <1>12 DEF ReadSessionCookie
    <2>3. QED
      BY <2>1, <2>2
  <1>13. CASE ~ \E i \in 1 .. n : jar[i] = NoCookie
    <2>1. \A i \in 1 .. n : jar[i].bytes = q[i] /\ ~ Len(jar[i].bytes) > ChunkSize
      <3> SUFFICES ASSUME NEW i \in 1 .. n
                   PROVE  jar[i].bytes = q[i] /\ ~ Len(jar[i].bytes) > ChunkSize
        OBVIOUS
      <3>1. jar[i] = Data(q[i])
        BY <1>11, <1>13
      <3>2. jar[i].bytes = q[i]
        BY <3>1, CookieKinds
      <3>3. Len(q[i]) <= ChunkSize /\ Len(q[i]) \in Nat
        BY <1>2, <1>3, CookiesChunked DEF q, n, s
      <3>4. QED
        BY <3>2, <3>3
    <2>2. [i \in 1 .. n |-> jar[i].bytes] = [i \in 1 .. n |-> q[i]]
      BY <2>1
    <2>3. ReadSessionCookie = Decrypt(FlattenSeq([i \in 1 .. n |-> jar[i].bytes]))
      BY <1>7, <1>9, <1>13, <2>1 DEF ReadSessionCookie
    <2>4. QED
      BY <1>4, <1>6, <2>2, <2>3
  <1>14. QED
    BY <1>12, <1>13

LEMMA ReadBackInv ==
    ASSUME CookieInv
    PROVE  ReadBack
  <1> USE Constants
  <1>1. CASE last = 0
    <2>1. ReadSessionCookie = NoSession
      BY <1>1, ReadNothing DEF CookieInv
    <2>2. QED
      BY <1>1, <2>1 DEF ReadBack
  <1>2. CASE last # 0
    <2>1. last \in 1 .. Len(sizes)
      BY <1>2 DEF CookieInv
    <2>2. sizes[last] \in Nat \ {0} /\ last \in Nat
      BY <2>1, SizeType
    <2>3. CASE jar[0] = NoCookie
      <3>1. ReadSessionCookie = NoSession
        BY <2>3, ReadNothing
      <3>2. evicted
        <4>1. CASE sizes[last] <= ChunkSize
          BY <1>2, <2>2, <2>3, <4>1, CookiesSmall, CookieKinds DEF CookieInv
        <4>2. CASE sizes[last] > ChunkSize
          <5> DEFINE n == Count(sizes[last])
                     set == CookiesOf(last, sizes[last])
          <5>1. n \in 1 .. MaxChunks /\ DOMAIN set = 0 .. n /\ set[0] = Header(n)
            BY <1>2, <2>2, <4>2, CookiesChunked DEF CookieInv
          <5>2. \A name \in DOMAIN set : jar[name] = set[name] \/ evicted
            BY <1>2 DEF CookieInv
          <5> HIDE DEF n, set
          <5>3. n \in Nat /\ 0 \in 0 .. n
            BY <5>1
          <5>4. Header(n) # NoCookie
            BY <5>3, CookieKinds
          <5>5. QED
            BY <2>3, <5>1, <5>2, <5>3, <5>4
        <4>3. QED
          BY <2>2, <4>1, <4>2
      <3>3. QED
        BY <3>1, <3>2 DEF ReadBack
    <2>4. CASE jar[0] # NoCookie
      <3>1. ReadSessionCookie = last \/ (evicted /\ ReadSessionCookie = Invalid)
        BY <1>2, <2>2, <2>4, ReadSmall, ReadChunked
      <3>2. QED
        BY <1>2, <3>1 DEF ReadBack
    <2>5. QED
      BY <2>3, <2>4
  <1>3. QED
    BY <1>1, <1>2

(***************************************************************************)
(* readSessionCookie returns the session of the last response that was not *)
(* refused, for every sequence of payload sizes, clears and evictions; an  *)
(* eviction can end the session but never bring an older one back.         *)
(***************************************************************************)
THEOREM LastWriteIsRead == Spec => []ReadBack
  <1>1. CookieInv => ReadBack
    BY ReadBackInv
  <1>2. QED
    BY <1>1, CookieInvHolds, PTL
=============================================================================
