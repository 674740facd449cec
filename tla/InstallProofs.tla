----------------------------- MODULE InstallProofs -----------------------------
(***************************************************************************)
(* What ImageInstall and Uninstaller promise for any builds, artifacts,    *)
(* parts, chunks and block sizes, whatever fails and whatever the          *)
(* publisher replaces meanwhile.                                           *)
(***************************************************************************)
EXTENDS Uninstaller, TLAPS, FiniteSetTheorems, WellFoundedInduction, SequenceTheorems

-----------------------------------------------------------------------------
(* Numbers *)

\* A set of naturals that is not empty has a least member: of the intervals up to its
\* members, one contains no other.
LEMMA LeastExists ==
    ASSUME NEW S \in SUBSET Nat, S # {}
    PROVE  \E x \in S : \A y \in S : x <= y
<1> DEFINE R == StrictSubsetOrdering(Nat)
           T == {0..x : x \in S}
<1>1. IsWellFoundedOn(R, FiniteSubsetsOf(Nat))
    BY FS_StrictSubsetOrderingWellFounded
<1>2. T \subseteq FiniteSubsetsOf(Nat) /\ T # {}
    <2>1. \A x \in S : IsFiniteSet(0..x) /\ 0..x \in SUBSET Nat
        BY FS_Interval
    <2> QED BY <2>1 DEF FiniteSubsetsOf
<1>3. \E t \in T : \A u \in T : <<u, t>> \notin R
    <2> HIDE DEF T, R
    <2> QED BY <1>1, <1>2, WFMin
<1>4. PICK x \in S : \A u \in T : <<u, 0..x>> \notin R
    BY <1>3
<1>5. ASSUME NEW y \in S, y < x PROVE FALSE
    <2>1. 0..y \in SUBSET Nat /\ 0..x \in SUBSET Nat /\ 0..y \subseteq 0..x /\ x \in 0..x /\ x \notin 0..y
        BY <1>5
    <2>2. <<0..y, 0..x>> \in R
        BY <2>1 DEF StrictSubsetOrdering
    <2> QED BY <1>4, <2>2
<1> QED BY <1>4, <1>5

\* A bounded one has a greatest: the least of its bounds.
LEMMA MaxIs ==
    ASSUME NEW S \in SUBSET Nat, S # {}, NEW n \in Nat, \A x \in S : x <= n
    PROVE  Max(S) \in S /\ \A y \in S : y <= Max(S)
<1> DEFINE B == {u \in Nat : \A y \in S : y <= u}
<1>1. B \in SUBSET Nat /\ B # {}
    <2>1. n \in B
        OBVIOUS
    <2> QED BY <2>1
<1>2. \E u \in B : \A v \in B : u <= v
    <2> HIDE DEF B
    <2> QED BY <1>1, LeastExists
<1>3. PICK u \in B : \A v \in B : u <= v
    BY <1>2
<1>4. u \in S
    <2> SUFFICES ASSUME u \notin S PROVE FALSE
        OBVIOUS
    <2>1. u \in Nat /\ \A y \in S : y <= u /\ y # u /\ y \in Nat
        OBVIOUS
    <2>2. PICK z \in S : TRUE
        OBVIOUS
    <2>3. u > 0 /\ \A y \in S : y <= u - 1
        BY <2>1, <2>2
    <2>4. u - 1 \in Nat
        BY <2>1, <2>3
    <2>5. u - 1 \in B
        BY <2>3, <2>4
    <2> QED BY <1>3, <2>1, <2>5
<1>5. \E x \in S : \A y \in S : x >= y
    BY <1>4
<1>6. Max(S) \in S /\ \A y \in S : Max(S) >= y
    BY <1>5 DEF Max
<1>7. \A y \in S : y <= Max(S)
    BY <1>6
<1> QED BY <1>6, <1>7

LEMMA Division ==
    ASSUME NEW n \in Nat, NEW d \in Nat \ {0}
    PROVE  /\ n \div d \in Nat /\ (n \div d) * d \in Nat
           /\ (n \div d) * d <= n /\ n < (n \div d) * d + d
OBVIOUS

-----------------------------------------------------------------------------
(* Bits *)

Bits == Seq({0, 1})

\* The i-th bit of a file of which the end was not written: a hole is read as zeroes.
Bit(file, i) == IF i <= Len(file) THEN file[i] ELSE 0

LEMMA BitsAre ==
    ASSUME NEW s \in Bits
    PROVE  /\ Len(s) \in Nat /\ DOMAIN s = 1..Len(s) /\ s \in [1..Len(s) -> {0, 1}]
           /\ \A i \in 1..Len(s) : s[i] \in {0, 1}
BY LenProperties, ElementOfSeq DEF Bits

LEMMA BitsMade ==
    ASSUME NEW n \in Nat, NEW s \in [1..n -> {0, 1}]
    PROVE  s \in Bits /\ Len(s) = n
BY IsASeq, LenProperties DEF Bits

LEMMA PaddedIs ==
    ASSUME NEW s \in Bits, NEW n \in Nat
    PROVE  LET p == Padded(s, n)
           IN  /\ p \in Bits /\ Len(p) = IF Len(s) < n THEN n ELSE Len(s)
               /\ \A i \in 1..Len(p) : p[i] = Bit(s, i)
<1>1. CASE Len(s) < n
    <2> DEFINE z == Zeroes(n - Len(s))
    <2>1. n - Len(s) \in Nat /\ Len(s) \in Nat
        BY <1>1, BitsAre
    <2>2. z \in Bits /\ Len(z) = n - Len(s) /\ \A i \in 1..Len(z) : z[i] = 0
        BY <2>1, BitsMade DEF Zeroes
    <2> HIDE DEF z
    <2>3. /\ s \o z \in Bits /\ Len(s \o z) = Len(s) + Len(z)
          /\ \A i \in 1..(Len(s) + Len(z)) : (s \o z)[i] = IF i <= Len(s) THEN s[i] ELSE z[i - Len(s)]
        BY <2>2, ConcatProperties DEF Bits
    <2>4. \A i \in 1..n : (s \o z)[i] = Bit(s, i)
        BY <2>1, <2>2, <2>3 DEF Bit
    <2>5. Padded(s, n) = s \o z
        BY <1>1 DEF Padded, z
    <2> QED BY <1>1, <2>1, <2>2, <2>3, <2>4, <2>5
<1>2. CASE ~(Len(s) < n)
    BY <1>2, BitsAre DEF Padded, Bit
<1> QED BY <1>1, <1>2

LEMMA BitsEqual ==
    ASSUME NEW s \in Bits, NEW t \in Bits, Len(s) = Len(t), \A i \in 1..Len(s) : s[i] = t[i]
    PROVE  s = t
BY SeqEqual DEF Bits

-----------------------------------------------------------------------------
(* The sparse writer *)

LEMMA BlockIs == BlockSize \in Nat \ {0}
BY ImageConstants

LEMMA Times ==
    ASSUME NEW a \in Nat, NEW b \in Nat
    PROVE  /\ a * b \in Nat /\ (a + 1) * b = a * b + b
           /\ b # 0 => a <= a * b
           /\ \A c \in Nat : a <= c => a * b <= c * b
OBVIOUS

\* The i-th bit lies in one block.
LEMMA BlockOf ==
    ASSUME NEW i \in Nat \ {0}
    PROVE  \E j \in 1..i : /\ (j - 1) * BlockSize \in Nat /\ j * BlockSize \in Nat
                           /\ (j - 1) * BlockSize + 1 <= i /\ i <= j * BlockSize
<1> DEFINE q == (i - 1) \div BlockSize
           p == q * BlockSize
<1>1. /\ q \in Nat /\ p \in Nat /\ p <= i - 1 /\ i - 1 < p + BlockSize
    <2>1. i - 1 \in Nat
        OBVIOUS
    <2> QED BY <2>1, Division, BlockIs
<1>2. q <= p /\ (q + 1) * BlockSize = p + BlockSize
    <2> HIDE DEF q
    <2> QED BY <1>1, Times, BlockIs
<1>3. PICK j \in Nat : j = q + 1
    BY <1>1
<1>4. j * BlockSize = p + BlockSize
    BY <1>2, <1>3
<1>5. j - 1 = q
    BY <1>1, <1>3
<1>6. (j - 1) * BlockSize = p
    BY <1>5
<1> HIDE DEF q, p
<1>7. j \in 1..i
    BY <1>1, <1>2, <1>3
<1> QED BY <1>1, <1>4, <1>6, <1>7, BlockIs

\* Flushing bits at a position leaves what was before it, holes included, and puts
\* the bits there, a tail of zeroes perhaps not written: for every size of blocks.
LEMMA FlushedIs ==
    ASSUME NEW file \in Bits, NEW bits \in Bits, NEW position \in Nat, Len(file) <= position
    PROVE  LET g == Flushed(file, position, bits)
           IN  /\ g \in Bits /\ Len(g) <= position + Len(bits)
               /\ \A i \in 1..position : Bit(g, i) = Bit(file, i)
               /\ \A i \in 1..Len(bits) : Bit(g, position + i) = bits[i]
<1> DEFINE end(j) == IF j * BlockSize < Len(bits) THEN j * BlockSize ELSE Len(bits)
           In(j)  == ((j - 1) * BlockSize + 1)..end(j)
           dirty  == {j \in 1..Len(bits) : \E i \in In(j) : bits[i] # 0}
           upTo   == IF dirty = {} THEN Len(file) ELSE position + Max(In(Max(dirty)))
           Value(i) == IF i <= Len(file) THEN file[i]
                       ELSE IF i > position THEN bits[i - position] ELSE 0
           g      == [i \in 1..upTo |-> Value(i)]
<1>0. Flushed(file, position, bits) = g
    BY DEF Flushed
<1>1. /\ Len(file) \in Nat /\ Len(bits) \in Nat
      /\ (\A i \in 1..Len(file) : file[i] \in {0, 1}) /\ (\A i \in 1..Len(bits) : bits[i] \in {0, 1})
    BY BitsAre
\* What is written ends at the last bit that is set, or behind it in its block.
<1>2. \E last \in 0..Len(bits) :
         /\ dirty = {} => last = 0
         /\ dirty # {} => Max(In(Max(dirty))) = last
         /\ \A i \in 1..Len(bits) : i > last => bits[i] = 0
    <2>1. ASSUME NEW i \in 1..Len(bits), bits[i] # 0
          PROVE  \E j \in dirty : /\ (j - 1) * BlockSize \in Nat /\ j * BlockSize \in Nat
                                  /\ i \in In(j) /\ i <= j * BlockSize
        <3>1. PICK j \in 1..i : /\ (j - 1) * BlockSize \in Nat /\ j * BlockSize \in Nat
                                /\ (j - 1) * BlockSize + 1 <= i /\ i <= j * BlockSize
            BY BlockOf
        <3>2. i <= end(j) /\ end(j) \in Nat
            BY <1>1, <3>1
        <3>3. i \in In(j)
            <4> HIDE DEF end
            <4> QED BY <3>1, <3>2
        <3>4. j \in 1..Len(bits)
            BY <1>1
        <3> HIDE DEF In
        <3> QED BY <2>1, <3>1, <3>3, <3>4
    <2>2. CASE dirty = {}
        <3> HIDE DEF dirty
        <3> QED BY <1>1, <2>1, <2>2
    <2>3. CASE dirty # {}
        <3> DEFINE m == Max(dirty)
        <3>1. m \in dirty /\ \A j \in dirty : j <= m
            <4>1. dirty \in SUBSET Nat /\ \A j \in dirty : j <= Len(bits)
                BY <1>1
            <4> HIDE DEF dirty
            <4> QED BY <1>1, <2>3, <4>1, MaxIs
        <3>2. m \in 1..Len(bits) /\ \E i \in In(m) : bits[i] # 0
            <4> HIDE DEF m
            <4> QED BY <3>1
        <3> HIDE DEF m
        <3>3. (m - 1) * BlockSize \in Nat /\ m * BlockSize \in Nat
            <4>1. m \in Nat /\ m - 1 \in Nat
                BY <3>2
            <4> QED BY <4>1, Times, BlockIs
        <3>4. end(m) \in 0..Len(bits) /\ (end(m) = Len(bits) \/ end(m) = m * BlockSize)
            BY <1>1, <3>3
        <3>5. In(m) \in SUBSET Nat /\ In(m) # {} /\ \A i \in In(m) : i <= end(m)
            <4> HIDE DEF end
            <4> QED BY <1>1, <3>2, <3>3, <3>4
        <3>6. Max(In(m)) = end(m)
            <4>1. Max(In(m)) \in In(m) /\ \A i \in In(m) : i <= Max(In(m))
                <5>1. PICK n \in Nat : n = end(m)
                    BY <3>4
                <5>2. \A i \in In(m) : i <= n
                    BY <3>5, <5>1
                <5> HIDE DEF In, end
                <5> QED BY <3>5, <5>2, MaxIs
            <4>2. end(m) \in In(m)
                <5> HIDE DEF end
                <5> QED BY <3>3, <3>4, <3>5
            <4> HIDE DEF end
            <4> QED BY <3>4, <3>5, <4>1, <4>2
        <3>7. ASSUME NEW i \in 1..Len(bits), i > end(m), bits[i] # 0 PROVE FALSE
            <4>1. PICK j \in dirty : (j - 1) * BlockSize \in Nat /\ j * BlockSize \in Nat /\ i <= j * BlockSize
                BY <2>1, <3>7
            <4>2. j \in Nat /\ m \in Nat /\ j <= m
                <5> HIDE DEF In
                <5> QED BY <3>1, <3>2, <4>1
            <4>3. j * BlockSize <= m * BlockSize
                BY <4>2, Times, BlockIs
            <4>4. end(m) = m * BlockSize
                <5> HIDE DEF end
                <5> QED BY <1>1, <3>4, <3>7
            <4> HIDE DEF end
            <4> QED BY <1>1, <3>3, <3>4, <3>7, <4>1, <4>3, <4>4
        <3> HIDE DEF end, In, dirty
        <3>8. \A i \in 1..Len(bits) : i > end(m) => bits[i] = 0
            BY <3>7
        <3>9. Max(In(Max(dirty))) = end(m)
            BY <3>6 DEF m
        <3> QED BY <2>3, <3>4, <3>8, <3>9
    <2> QED BY <2>2, <2>3
<1>3. PICK last \in 0..Len(bits) : /\ dirty = {} => last = 0
                                   /\ dirty # {} => Max(In(Max(dirty))) = last
                                   /\ \A i \in 1..Len(bits) : i > last => bits[i] = 0
    BY <1>2
<1>4. upTo = IF dirty = {} THEN Len(file) ELSE position + last
    <2> HIDE DEF dirty, In
    <2> QED BY <1>3
<1> HIDE DEF dirty, In, upTo
<1>5. upTo \in Nat /\ Len(file) <= upTo /\ upTo <= position + Len(bits)
      /\ (upTo > position => upTo = position + last)
    BY <1>1, <1>3, <1>4
<1>6. \A i \in 1..upTo : Value(i) \in {0, 1}
    <2> TAKE i \in 1..upTo
    <2>1. i > position => i - position \in 1..Len(bits)
        BY <1>1, <1>5
    <2> QED BY <1>1, <1>5, <2>1
<1> HIDE DEF Value
<1>7. g \in [1..upTo -> {0, 1}]
    BY <1>6
<1>8. g \in Bits /\ Len(g) = upTo
    BY <1>5, <1>7, BitsMade
<1>9. \A i \in 1..upTo : g[i] = Value(i)
    OBVIOUS
<1> HIDE DEF g
<1>10. ASSUME NEW i \in 1..position PROVE Bit(g, i) = Bit(file, i)
    <2>1. Value(i) = IF i <= Len(file) THEN file[i] ELSE 0
        BY DEF Value
    <2> QED BY <1>1, <1>5, <1>8, <1>9, <2>1 DEF Bit
<1>11. ASSUME NEW i \in 1..Len(bits) PROVE Bit(g, position + i) = bits[i]
    <2>1. Value(position + i) = bits[i]
        <3>1. position + i > Len(file) /\ position + i > position /\ (position + i) - position = i
            BY <1>1
        <3> QED BY <3>1 DEF Value
    <2>2. CASE position + i <= upTo
        BY <1>1, <1>5, <1>8, <1>9, <2>1, <2>2 DEF Bit
    <2>3. CASE ~(position + i <= upTo)
        <3>1. i > last
            <4>1. CASE dirty = {}
                BY <1>1, <1>3, <4>1
            <4>2. CASE dirty # {}
                BY <1>1, <1>3, <1>4, <2>3, <4>2
            <4> QED BY <4>1, <4>2
        <3> QED BY <1>3, <1>8, <2>3, <3>1 DEF Bit
    <2> QED BY <2>2, <2>3
<1> QED BY <1>0, <1>5, <1>8, <1>10, <1>11

\* The digest has covered what is in the file up to the writer's position, and then
\* what the writer holds back.
Written(file, seen, pending, position) ==
    /\ file \in Bits /\ Len(file) <= position /\ Len(seen) = position + Len(pending)
    /\ \A i \in 1..position : Bit(file, i) = seen[i]
    /\ \A i \in 1..Len(pending) : pending[i] = seen[position + i]

LEMMA NothingWritten == <<>> \in Bits /\ Written(<<>>, <<>>, <<>>, 0)
BY EmptySeq DEF Written, Bits

LEMMA SlicesAre ==
    ASSUME NEW s \in Bits, NEW m \in 1..(Len(s) + 1), NEW n \in (m - 1)..Len(s)
    PROVE  /\ SubSeq(s, m, n) \in Bits /\ Len(SubSeq(s, m, n)) = n - m + 1
           /\ \A i \in 1..(n - m + 1) : SubSeq(s, m, n)[i] = s[m + i - 1]
<1>1. Len(s) \in Nat /\ \A i \in 1..Len(s) : s[i] \in {0, 1}
    BY BitsAre
<1>2. m \in Int /\ n \in Int /\ n - m + 1 >= 0 /\ \A i \in m..n : i \in 1..Len(s)
    BY <1>1
<1>3. \A i \in m..n : s[i] \in {0, 1}
    BY <1>1, <1>2
<1>4. /\ SubSeq(s, m, n) \in Seq({0, 1})
      /\ Len(SubSeq(s, m, n)) = IF m <= n THEN n - m + 1 ELSE 0
      /\ \A i \in 1..(n - m + 1) : SubSeq(s, m, n)[i] = s[m + i - 1]
    BY <1>2, <1>3, SubSeqProperties
<1>5. Len(SubSeq(s, m, n)) = n - m + 1
    BY <1>2, <1>4
<1> QED BY <1>4, <1>5 DEF Bits

LEMMA JoinIs ==
    ASSUME NEW s \in Bits, NEW t \in Bits
    PROVE  /\ s \o t \in Bits /\ Len(s \o t) = Len(s) + Len(t)
           /\ \A i \in 1..Len(s) : (s \o t)[i] = s[i]
           /\ \A i \in 1..Len(t) : (s \o t)[Len(s) + i] = t[i]
<1>1. /\ s \o t \in Bits /\ Len(s \o t) = Len(s) + Len(t)
      /\ \A i \in 1..(Len(s) + Len(t)) : (s \o t)[i] = IF i <= Len(s) THEN s[i] ELSE t[i - Len(s)]
    BY ConcatProperties DEF Bits
<1>2. Len(s) \in Nat /\ Len(t) \in Nat
    BY BitsAre
<1>3. ASSUME NEW i \in 1..Len(t) PROVE (s \o t)[Len(s) + i] = t[i]
    <2>1. Len(s) + i \in 1..(Len(s) + Len(t)) /\ ~(Len(s) + i <= Len(s)) /\ (Len(s) + i) - Len(s) = i
        BY <1>2
    <2> QED BY <1>1, <2>1
<1>4. ASSUME NEW i \in 1..Len(s) PROVE (s \o t)[i] = s[i]
    BY <1>1, <1>2
<1> QED BY <1>1, <1>3, <1>4

LEMMA WholeIs == ASSUME NEW s \in Bits PROVE Whole(s) \in 0..Len(s)
BY BitsAre, Division, BlockIs DEF Whole

\* A chunk, of whatever length, is covered by the digest and goes to the file as far
\* as it fills blocks.
LEMMA ChunkWrites ==
    ASSUME NEW file, NEW seen \in Bits, NEW pending \in Bits, NEW position \in Nat,
           Written(file, seen, pending, position), NEW chunk \in Bits
    PROVE  LET bits == pending \o chunk
               k    == Whole(bits)
           IN  /\ bits \in Bits /\ k \in Nat /\ SubSeq(bits, k + 1, Len(bits)) \in Bits
               /\ seen \o chunk \in Bits
               /\ Written(Flushed(file, position, SubSeq(bits, 1, k)), seen \o chunk,
                          SubSeq(bits, k + 1, Len(bits)), position + k)
<1> DEFINE bits == pending \o chunk
           k    == Whole(bits)
           head == SubSeq(bits, 1, k)
           tail == SubSeq(bits, k + 1, Len(bits))
           read == seen \o chunk
           f    == Flushed(file, position, head)
<1>1. /\ Len(pending) \in Nat /\ Len(chunk) \in Nat /\ Len(seen) \in Nat
      /\ file \in Bits /\ Len(file) <= position /\ Len(seen) = position + Len(pending)
    BY BitsAre DEF Written
<1>2. /\ bits \in Bits /\ Len(bits) = Len(pending) + Len(chunk)
      /\ \A i \in 1..Len(pending) : bits[i] = pending[i]
      /\ \A i \in 1..Len(chunk) : bits[Len(pending) + i] = chunk[i]
    BY JoinIs
<1>3. /\ read \in Bits /\ Len(read) = Len(seen) + Len(chunk)
      /\ \A i \in 1..Len(seen) : read[i] = seen[i]
      /\ \A i \in 1..Len(chunk) : read[Len(seen) + i] = chunk[i]
    BY JoinIs
<1> HIDE DEF bits, read
<1>4. k \in 0..Len(bits)
    BY <1>2, WholeIs
<1> HIDE DEF k
<1>5. /\ head \in Bits /\ Len(head) = k /\ \A i \in 1..k : head[i] = bits[i]
    <2>1. 1 \in 1..(Len(bits) + 1) /\ k \in (1 - 1)..Len(bits) /\ (k - 1) + 1 = k
        BY <1>1, <1>2, <1>4
    <2>2. head \in Bits /\ Len(head) = k - 1 + 1 /\ \A i \in 1..(k - 1 + 1) : head[i] = bits[1 + i - 1]
        BY <1>2, <2>1, SlicesAre
    <2>3. k - 1 + 1 = k /\ \A i \in 1..k : 1 + i - 1 = i
        BY <1>4
    <2> HIDE DEF head
    <2> QED BY <2>2, <2>3
<1>6. /\ tail \in Bits /\ Len(tail) = Len(bits) - k /\ \A i \in 1..(Len(bits) - k) : tail[i] = bits[k + i]
    <2>1. /\ k + 1 \in 1..(Len(bits) + 1) /\ Len(bits) \in ((k + 1) - 1)..Len(bits)
          /\ Len(bits) - (k + 1) + 1 = Len(bits) - k
        BY <1>1, <1>2, <1>4
    <2>2. /\ tail \in Bits /\ Len(tail) = Len(bits) - (k + 1) + 1
          /\ \A i \in 1..(Len(bits) - (k + 1) + 1) : tail[i] = bits[(k + 1) + i - 1]
        BY <1>2, <2>1, SlicesAre
    <2>3. \A i \in 1..(Len(bits) - k) : (k + 1) + i - 1 = k + i
        BY <1>4
    <2> HIDE DEF tail
    <2> QED BY <2>1, <2>2, <2>3
<1>7. /\ f \in Bits /\ Len(f) <= position + k
      /\ \A i \in 1..position : Bit(f, i) = Bit(file, i)
      /\ \A i \in 1..k : Bit(f, position + i) = bits[i]
    <2> HIDE DEF head
    <2> QED BY <1>1, <1>5, FlushedIs
\* What was held back and what arrived is what the digest covers behind the position.
<1>8. \A i \in 1..Len(bits) : bits[i] = read[position + i]
    <2> TAKE i \in 1..Len(bits)
    <2>1. CASE i <= Len(pending)
        <3>1. bits[i] = pending[i] /\ pending[i] = seen[position + i] /\ position + i \in 1..Len(seen)
            BY <1>1, <1>2, <2>1 DEF Written
        <3> QED BY <1>3, <3>1
    <2>2. CASE i > Len(pending)
        <3>0. i - Len(pending) \in 1..Len(chunk) /\ i = Len(pending) + (i - Len(pending))
            BY <1>1, <1>2, <2>2
        <3>1. PICK j \in 1..Len(chunk) : i = Len(pending) + j
            BY <3>0
        <3>2. position + i = Len(seen) + j
            BY <1>1, <3>1
        <3> QED BY <1>2, <1>3, <3>1, <3>2
    <2> QED BY <1>1, <2>1, <2>2
<1> HIDE DEF head, tail, f
<1>9. \A i \in 1..(position + k) : Bit(f, i) = read[i]
    <2> TAKE i \in 1..(position + k)
    <2>1. CASE i <= position
        <3>1. i \in 1..position /\ i \in 1..Len(seen)
            BY <1>1, <2>1
        <3> QED BY <1>3, <1>7, <3>1 DEF Written
    <2>2. CASE i > position
        <3>0. i - position \in 1..k /\ i = position + (i - position)
            BY <1>4, <2>2
        <3>1. PICK j \in 1..k : i = position + j
            BY <3>0
        <3>2. j \in 1..Len(bits)
            BY <1>1, <1>2, <1>4
        <3> QED BY <1>7, <1>8, <3>1, <3>2
    <2> QED BY <1>4, <2>1, <2>2
<1>10. \A i \in 1..Len(tail) : tail[i] = read[(position + k) + i]
    <2> TAKE i \in 1..Len(tail)
    <2>1. k + i \in 1..Len(bits) /\ i \in 1..(Len(bits) - k) /\ position + (k + i) = (position + k) + i
        BY <1>1, <1>2, <1>4, <1>6
    <2> QED BY <1>6, <1>8, <2>1
<1>11. Len(read) = (position + k) + Len(tail)
    BY <1>1, <1>2, <1>3, <1>4, <1>6
<1>12. Written(f, read, tail, position + k)
    BY <1>7, <1>9, <1>10, <1>11 DEF Written
<1> QED BY <1>2, <1>3, <1>4, <1>6, <1>12 DEF bits, k, head, tail, read, f

\* The file as it is closed is what the digest covers.
LEMMA CloseWrites ==
    ASSUME NEW file, NEW seen \in Bits, NEW pending \in Bits, NEW position \in Nat,
           Written(file, seen, pending, position)
    PROVE  Padded(Flushed(file, position, pending), position + Len(pending)) = seen
<1> DEFINE f == Flushed(file, position, pending)
           n == position + Len(pending)
           p == Padded(f, n)
<1>1. Len(pending) \in Nat /\ file \in Bits /\ Len(file) <= position /\ Len(seen) = n /\ n \in Nat
    BY BitsAre DEF Written
<1>2. /\ f \in Bits /\ Len(f) <= n
      /\ \A i \in 1..position : Bit(f, i) = Bit(file, i)
      /\ \A i \in 1..Len(pending) : Bit(f, position + i) = pending[i]
    BY <1>1, FlushedIs
<1> HIDE DEF f
<1>3. Len(f) \in Nat
    BY <1>2, BitsAre
<1>4. p \in Bits /\ Len(p) = n /\ \A i \in 1..n : p[i] = Bit(f, i)
    <2>1. p \in Bits /\ Len(p) = (IF Len(f) < n THEN n ELSE Len(f)) /\ \A i \in 1..Len(p) : p[i] = Bit(f, i)
        BY <1>1, <1>2, PaddedIs
    <2> HIDE DEF p
    <2>2. Len(p) = n
        BY <1>1, <1>2, <1>3, <2>1
    <2> QED BY <2>1, <2>2
<1> HIDE DEF p
<1>5. \A i \in 1..n : p[i] = seen[i]
    <2> TAKE i \in 1..n
    <2>1. CASE i <= position
        BY <1>2, <1>4, <2>1 DEF Written
    <2>2. CASE i > position
        <3>0. i - position \in 1..Len(pending) /\ i = position + (i - position)
            BY <1>1, <2>2
        <3>1. PICK j \in 1..Len(pending) : i = position + j
            BY <3>0
        <3> QED BY <1>2, <1>4, <3>1 DEF Written
    <2> QED BY <1>1, <2>1, <2>2
<1>6. p = seen
    BY <1>1, <1>4, <1>5, BitsEqual
<1> QED BY <1>6 DEF p, f

-----------------------------------------------------------------------------
(* The image: its types, and what is staged *)

InstType == [pc: Pcs, had: BOOLEAN, manifest: Builds \cup {NoBuild}, name: 1..Len(Names), part: Nat,
             attempt: 1..3, body: Bits, seen: Bits, pending: Bits, position: Nat,
             notice: {"none", "unrecorded", "current", "stale", "unknown"}]

\* A directory that is not there has nothing in it.
DirTyped(dir) ==
    /\ dir = [exists |-> dir.exists, files |-> dir.files, record |-> dir.record]
    /\ dir.exists \in BOOLEAN
    /\ dir.files = [f \in DOMAIN dir.files |-> dir.files[f]]
    /\ DOMAIN dir.files \subseteq Files
    /\ ~dir.exists => dir = NoDir

ImageTyped ==
    /\ published \in Builds /\ inst \in InstType /\ faults \in 0..MaxFaults
    /\ DirTyped(final) /\ DirTyped(staging)

Fetching == {"connects", "reads", "closes"}

\* The artifacts of the manifest up to the one being fetched are done, that one as
\* far as the writer has come: those that are left, and all of them while nobody has
\* taken the image one had, and with it what is staged.
PartStaged ==
    inst.pc \in Fetching =>
        /\ DOMAIN staging.files \subseteq {Names[k] : k \in 1..inst.name}
        /\ \A f \in DOMAIN staging.files \ {Fetched} : staging.files[f] = Disk(inst.manifest, f)
        /\ Linked => Written(staging.files[Fetched], inst.seen, inst.pending, inst.position)
        /\ inst.had => staging.exists /\ DOMAIN staging.files = {Names[k] : k \in 1..inst.name}

AllStaged ==
    inst.pc = "records" =>
        /\ \A f \in DOMAIN staging.files : staging.files[f] = Disk(inst.manifest, f)
        /\ inst.had => staging.exists /\ DOMAIN staging.files = Files

\* What is in a directory is of one build.
OneBuild(dir) ==
    \E b \in Builds : /\ dir.record \in {b, Handmade, NoBuild}
                      /\ \A f \in DOMAIN dir.files : dir.files[f] = Disk(b, f)

\* Nothing but a whole image waits to take the place of the one that one had.
WholeStaged ==
    inst.pc \in {"removes", "renames"} =>
        /\ OneBuild(staging)
        /\ inst.had => \E b \in Builds : staging = Image(b)

StagedInv ==
    /\ inst.pc \in {"clears", "records"} \cup Fetching => inst.manifest \in Builds
    /\ PartStaged /\ AllStaged /\ WholeStaged

ImageInv == ImageTyped /\ StagedInv /\ FinalIsOneBuild

LEMMA NamesAre ==
    /\ Len(Names) \in Nat \ {0} /\ Root \in Files
    /\ \A k \in 1..Len(Names) : Names[k] \in Files
    /\ Files = {Names[k] : k \in 1..Len(Names)}
<1>1. Names \in Seq(Files) /\ Names # <<>>
    BY ImageConstants
<1>2. DOMAIN Names = 1..Len(Names) /\ Len(Names) \in Nat /\ Len(Names) # 0
    BY <1>1, EmptySeq, LenProperties
<1>3. Files = {Names[k] : k \in 1..Len(Names)}
    BY <1>2 DEF Files, Range
<1>4. 1 \in 1..Len(Names)
    BY <1>2
<1> QED BY <1>2, <1>3, <1>4 DEF Root

LEMMA PartsAre ==
    ASSUME NEW b \in Builds, NEW f \in Files, NEW p \in DOMAIN Parts[b][f]
    PROVE  p \in Nat /\ Parts[b][f][p] \in Bits
<1>1. Parts[b][f] \in Seq(Seq({0, 1}))
    BY ImageConstants
<1> QED BY <1>1, ElementOfSeq, LenProperties DEF Bits

LEMMA FetchedIs == ASSUME ImageTyped PROVE Fetched \in Files
BY NamesAre DEF ImageTyped, InstType, Fetched

LEMMA DirMade ==
    ASSUME NEW e \in BOOLEAN, NEW s, NEW r,
           s = [f \in DOMAIN s |-> s[f]], DOMAIN s \subseteq Files, e \/ (s = <<>> /\ r = NoBuild)
    PROVE  DirTyped([exists |-> e, files |-> s, record |-> r])
<1> DEFINE dir == [exists |-> e, files |-> s, record |-> r]
<1>1. dir.exists = e /\ dir.files = s /\ dir.record = r
    OBVIOUS
<1>2. ~e => dir = NoDir
    BY DEF NoDir
<1>3. dir = [exists |-> dir.exists, files |-> dir.files, record |-> dir.record]
    BY <1>1
<1> HIDE DEF dir
<1>4. DirTyped(dir)
    BY <1>1, <1>2, <1>3 DEF DirTyped
<1> QED BY <1>4 DEF dir

\* What EXCEPT makes of a directory.
LEMMA DirEdited ==
    ASSUME NEW dir, DirTyped(dir), NEW x
    PROVE  /\ [dir EXCEPT !.files = x] = [exists |-> dir.exists, files |-> x, record |-> dir.record]
           /\ [dir EXCEPT !.record = x] = [exists |-> dir.exists, files |-> dir.files, record |-> x]
           /\ [dir EXCEPT !.exists = x] = [exists |-> x, files |-> dir.files, record |-> dir.record]
<1>1. dir = [exists |-> dir.exists, files |-> dir.files, record |-> dir.record]
    BY DEF DirTyped
<1>2. PICK e, s, r : dir = [exists |-> e, files |-> s, record |-> r]
    BY <1>1
<1>3. dir.exists = e /\ dir.files = s /\ dir.record = r
    BY <1>2
<1>4. /\ [dir EXCEPT !.files = x] = [exists |-> e, files |-> x, record |-> r]
      /\ [dir EXCEPT !.record = x] = [exists |-> e, files |-> s, record |-> x]
      /\ [dir EXCEPT !.exists = x] = [exists |-> x, files |-> s, record |-> r]
    BY <1>2
<1> QED BY <1>3, <1>4

LEMMA NoDirTyped ==
    /\ DirTyped(NoDir) /\ ~NoDir.exists /\ DOMAIN NoDir.files = {} /\ NoDir.record = NoBuild
    /\ DirTyped(EmptyDir) /\ EmptyDir.exists /\ DOMAIN EmptyDir.files = {} /\ EmptyDir.record = NoBuild
<1>1. <<>> = [f \in DOMAIN <<>> |-> <<>>[f]] /\ DOMAIN <<>> = {}
    OBVIOUS
<1>2. NoDir = [exists |-> FALSE, files |-> <<>>, record |-> NoBuild]
    BY DEF NoDir
<1>3. DirTyped(NoDir) /\ NoDir.files = <<>> /\ NoDir.record = NoBuild /\ ~NoDir.exists
    BY <1>1, <1>2, DirMade
<1>4. EmptyDir = [exists |-> TRUE, files |-> <<>>, record |-> NoBuild]
    BY <1>3, DirEdited DEF EmptyDir
<1>5. DirTyped(EmptyDir)
    BY <1>1, <1>4, DirMade
<1> QED BY <1>1, <1>3, <1>4, <1>5

\* Files rewritten or added leave a directory of artifacts.
LEMMA PutTyped ==
    ASSUME NEW dir, DirTyped(dir), dir.exists, NEW files, DOMAIN files \subseteq Files,
           files = [f \in DOMAIN files |-> files[f]], NEW put, put = [dir EXCEPT !.files = files]
    PROVE  DirTyped(put) /\ put.exists /\ put.files = files /\ put.record = dir.record
<1> DEFINE new == [exists |-> dir.exists, files |-> files, record |-> dir.record]
<1>1. put = new
    BY DirEdited
<1>2. dir.exists \in BOOLEAN
    BY DEF DirTyped
<1>3. DirTyped(new) /\ new.exists /\ new.files = files /\ new.record = dir.record
    BY <1>2, DirMade
<1> HIDE DEF new
<1> QED BY <1>1, <1>3

LEMMA ImagesTyped ==
    ASSUME NEW b
    PROVE  /\ DirTyped(Image(b)) /\ Image(b).exists /\ Image(b).record = b
           /\ DOMAIN Image(b).files = Files /\ \A f \in Files : Image(b).files[f] = Disk(b, f)
           /\ \A r : LET image == [Image(b) EXCEPT !.record = r]
                     IN  /\ DirTyped(image) /\ image.exists /\ image.record = r /\ image.files = Image(b).files
<1> DEFINE files == [f \in Files |-> Disk(b, f)]
<1>1. files = [f \in DOMAIN files |-> files[f]] /\ DOMAIN files = Files /\ \A f \in Files : files[f] = Disk(b, f)
    OBVIOUS
<1>2. Image(b) = [exists |-> TRUE, files |-> files, record |-> b]
    BY DEF Image
<1> HIDE DEF files
<1>3. Image(b).exists = TRUE /\ Image(b).record = b /\ Image(b).files = files
    BY <1>2
<1>4. DirTyped(Image(b))
    BY <1>1, <1>2, DirMade
<1>5. ASSUME NEW r
      PROVE  LET image == [Image(b) EXCEPT !.record = r]
             IN  /\ DirTyped(image) /\ image.exists /\ image.record = r /\ image.files = Image(b).files
    <2>1. [Image(b) EXCEPT !.record = r] = [exists |-> TRUE, files |-> files, record |-> r]
        <3> DEFINE dir == Image(b)
        <3>1. DirTyped(dir) /\ dir.exists = TRUE /\ dir.files = files
            BY <1>3, <1>4
        <3> HIDE DEF dir
        <3>2. [dir EXCEPT !.record = r] = [exists |-> TRUE, files |-> files, record |-> r]
            BY <3>1, DirEdited
        <3> QED BY <3>2 DEF dir
    <2>2. DirTyped([exists |-> TRUE, files |-> files, record |-> r])
        BY <1>1, DirMade
    <2> QED BY <1>3, <2>1, <2>2
<1> QED BY <1>1, <1>3, <1>4, <1>5

-----------------------------------------------------------------------------
(* The steps of `mola start` *)

Elsewhere == {"off", "manifest", "catches", "serving"}

LEMMA IdleTyped ==
    ASSUME NEW pc \in Pcs, NEW had \in BOOLEAN,
           NEW notice \in {"none", "unrecorded", "current", "stale", "unknown"}
    PROVE  /\ [Idle EXCEPT !.pc = pc, !.had = had, !.notice = notice] \in InstType
           /\ [Idle EXCEPT !.pc = pc, !.had = had, !.notice = notice].pc = pc
           /\ [Idle EXCEPT !.pc = pc, !.had = had] \in InstType
           /\ [Idle EXCEPT !.pc = pc, !.had = had].pc = pc
           /\ Idle \in InstType
<1>1. Idle \in InstType
    <2>1. <<>> \in Bits /\ 1 \in 1..Len(Names) /\ 1 \in 1..3 /\ "off" \in Pcs
        BY EmptySeq, NamesAre DEF Bits, Pcs
    <2> QED BY <2>1 DEF InstType, Idle
<1> QED BY <1>1 DEF InstType

LEMMA LeavesIs ==
    ASSUME inst \in InstType, NEW pc \in Pcs, Leaves(pc)
    PROVE  inst' \in InstType /\ inst'.pc = pc /\ inst'.had = inst.had
<1>1. inst.had \in BOOLEAN
    BY DEF InstType
<1>2. inst' = [Idle EXCEPT !.pc = pc, !.had = inst.had]
    BY DEF Leaves
<1>3. [Idle EXCEPT !.pc = pc, !.had = inst.had].had = inst.had
    BY DEF Idle
<1> QED BY <1>1, <1>2, <1>3, IdleTyped

LEMMA SpendIs == ASSUME ImageTyped, Spend PROVE faults' \in 0..MaxFaults
BY ImageConstants DEF ImageTyped, Spend

\* Steps that leave both directories alone and end a download, or none was under way.
LEMMA QuietSteps ==
    ASSUME ImageInv, UNCHANGED <<final, staging>>, published' \in Builds, faults' \in 0..MaxFaults,
           inst' \in InstType, inst'.pc \in Elsewhere
    PROVE  ImageInv'
<1>1. ImageTyped'
    BY DEF ImageInv, ImageTyped
<1>2. StagedInv'
    BY DEF StagedInv, PartStaged, AllStaged, WholeStaged, Elsewhere, Fetching
<1>3. FinalIsOneBuild'
    BY DEF ImageInv, FinalIsOneBuild
<1> QED BY <1>1, <1>2, <1>3 DEF ImageInv

LEMMA Quiets ==
    ASSUME ImageInv,
           \/ \E refresh \in BOOLEAN : Starts(refresh)
           \/ StartsOffline \/ ManifestFails \/ BodyFails \/ StagingGone \/ Crashes
           \/ ConnectFails /\ inst.attempt >= 3
    PROVE  ImageInv'
<1> USE DEF Pcs, Elsewhere
<1>1. ImageTyped /\ inst \in InstType /\ published \in Builds /\ faults \in 0..MaxFaults
    BY DEF ImageInv, ImageTyped
<1>2. ASSUME NEW refresh \in BOOLEAN, Starts(refresh) PROVE ImageInv'
    <2> DEFINE pc     == IF HasImage /\ ~refresh THEN "serving" ELSE "manifest"
               notice == IF HasImage /\ ~refresh THEN Notice ELSE "none"
    <2>1. HasImage \in BOOLEAN
        BY <1>1 DEF HasImage, ImageTyped, DirTyped
    <2>2. notice \in {"none", "unrecorded", "current", "stale", "unknown"} /\ pc \in Pcs
        BY DEF Notice
    <2>3. inst' = [Idle EXCEPT !.pc = pc, !.had = HasImage, !.notice = notice]
        BY <1>2 DEF Starts
    <2>4. pc \in Elsewhere
        OBVIOUS
    <2> HIDE DEF pc, notice, Pcs
    <2>5. PICK had \in BOOLEAN : inst' = [Idle EXCEPT !.pc = pc, !.had = had, !.notice = notice]
        BY <2>1, <2>3
    <2>6. inst' \in InstType /\ inst'.pc = pc
        BY <2>2, <2>5, IdleTyped
    <2>7. inst'.pc \in Elsewhere
        BY <2>4, <2>6
    <2> QED BY <1>1, <1>2, <2>6, <2>7, QuietSteps DEF Starts
<1>3. CASE StartsOffline
    <2>1. inst' \in InstType /\ inst'.pc = "serving"
        BY <1>3, IdleTyped DEF StartsOffline
    <2> QED BY <1>1, <1>3, <2>1, SpendIs, QuietSteps DEF StartsOffline
<1>4. CASE ManifestFails
    BY <1>1, <1>4, LeavesIs, SpendIs, QuietSteps DEF ManifestFails
<1>5. CASE BodyFails
    BY <1>1, <1>5, LeavesIs, SpendIs, QuietSteps DEF BodyFails, Throws
<1>6. CASE StagingGone
    BY <1>1, <1>6, LeavesIs, QuietSteps DEF StagingGone, Throws
<1>7. CASE Crashes
    <2>1. faults' \in 0..MaxFaults
        BY <1>1, <1>7, SpendIs DEF Crashes
    <2> QED BY <1>1, <1>7, <2>1, LeavesIs, QuietSteps DEF Crashes
<1>8. CASE ConnectFails /\ inst.attempt >= 3
    <2>1. faults' \in 0..MaxFaults
        BY <1>1, <1>8, SpendIs DEF ConnectFails
    <2> QED BY <1>1, <1>8, <2>1, LeavesIs, QuietSteps DEF ConnectFails, Throws
<1> QED BY <1>2, <1>3, <1>4, <1>5, <1>6, <1>7, <1>8

\* Steps of a download that touch neither directory and none of what PartStaged is about.
LEMMA ReadSteps ==
    ASSUME ImageInv, UNCHANGED <<final, staging>>, published' \in Builds, faults' \in 0..MaxFaults,
           inst.pc \in Fetching, inst'.pc \in Fetching, inst' \in InstType,
           inst'.manifest = inst.manifest, inst'.name = inst.name, inst'.had = inst.had, inst'.seen = inst.seen,
           inst'.pending = inst.pending, inst'.position = inst.position
    PROVE  ImageInv'
<1>1. ImageTyped'
    BY DEF ImageInv, ImageTyped
<1>2. StagedInv'
    BY DEF ImageInv, StagedInv, PartStaged, AllStaged, WholeStaged, Fetching, Fetched, Linked
<1>3. FinalIsOneBuild'
    BY DEF ImageInv, FinalIsOneBuild
<1> QED BY <1>1, <1>2, <1>3 DEF ImageInv

LEMMA Reads ==
    ASSUME ImageInv, Connects \/ (ConnectFails /\ ~(inst.attempt >= 3)) \/ BodyCut \/ NextPart
    PROVE  ImageInv'
<1> USE DEF Pcs, Fetching
<1>1. ImageTyped /\ inst \in InstType /\ published \in Builds /\ faults \in 0..MaxFaults /\ Fetched \in Files
    BY FetchedIs DEF ImageInv, ImageTyped
<1>2. <<>> \in Bits
    BY EmptySeq DEF Bits
<1>3. CASE Connects
    <2>1. Parts[published][Fetched][inst.part] \in Bits
        BY <1>1, <1>3, PartsAre DEF Connects
    <2>2. /\ inst' \in InstType /\ inst.pc \in Fetching /\ inst'.pc \in Fetching
          /\ inst'.manifest = inst.manifest /\ inst'.name = inst.name /\ inst'.seen = inst.seen /\ inst'.had = inst.had
          /\ inst'.pending = inst.pending /\ inst'.position = inst.position
        BY <1>1, <1>3, <2>1 DEF Connects, InstType
    <2> QED BY <1>1, <1>3, <2>2, ReadSteps DEF Connects
<1>4. CASE ConnectFails /\ ~(inst.attempt >= 3)
    <2>1. faults' \in 0..MaxFaults
        BY <1>1, <1>4, SpendIs DEF ConnectFails
    <2>2. inst' = [inst EXCEPT !.attempt = inst.attempt + 1] /\ inst.attempt + 1 \in 1..3 /\ inst.pc \in Fetching
        BY <1>1, <1>4 DEF ConnectFails, InstType
    <2>3. /\ inst' \in InstType /\ inst'.pc \in Fetching
          /\ inst'.manifest = inst.manifest /\ inst'.name = inst.name /\ inst'.seen = inst.seen /\ inst'.had = inst.had
          /\ inst'.pending = inst.pending /\ inst'.position = inst.position
        BY <1>1, <2>2 DEF InstType
    <2> QED BY <1>1, <1>4, <2>1, <2>2, <2>3, ReadSteps DEF ConnectFails
<1>5. CASE BodyCut
    <2>1. /\ inst' \in InstType /\ inst.pc \in Fetching /\ inst'.pc \in Fetching
          /\ inst'.manifest = inst.manifest /\ inst'.name = inst.name /\ inst'.seen = inst.seen /\ inst'.had = inst.had
          /\ inst'.pending = inst.pending /\ inst'.position = inst.position
        BY <1>1, <1>2, <1>5 DEF BodyCut, InstType
    <2> QED BY <1>1, <1>5, <2>1, SpendIs, ReadSteps DEF BodyCut
<1>6. CASE NextPart
    <2>1. \/ inst' = [inst EXCEPT !.pc = "connects", !.part = inst.part + 1, !.attempt = 1]
          \/ inst' = [inst EXCEPT !.pc = "closes"]
        BY <1>6 DEF NextPart
    <2>2. inst.pc \in Fetching
        BY <1>6 DEF NextPart
    <2>3. /\ inst' \in InstType /\ inst'.pc \in Fetching
          /\ inst'.manifest = inst.manifest /\ inst'.name = inst.name /\ inst'.seen = inst.seen /\ inst'.had = inst.had
          /\ inst'.pending = inst.pending /\ inst'.position = inst.position
        <3>1. inst.part + 1 \in Nat
            BY <1>1 DEF InstType
        <3>2. CASE inst' = [inst EXCEPT !.pc = "connects", !.part = inst.part + 1, !.attempt = 1]
            <4>1. "connects" \in Pcs /\ 1 \in 1..3 /\ "connects" \in Fetching
                OBVIOUS
            <4>2. inst' \in InstType
                BY <1>1, <3>1, <3>2, <4>1 DEF InstType
            <4> QED BY <1>1, <3>2, <4>1, <4>2 DEF InstType
        <3>3. CASE inst' = [inst EXCEPT !.pc = "closes"]
            BY <1>1, <3>3 DEF InstType
        <3> QED BY <2>1, <3>2, <3>3
    <2> QED BY <1>1, <1>6, <2>2, <2>3, ReadSteps DEF NextPart
<1> QED BY <1>3, <1>4, <1>5, <1>6

LEMMA Befores ==
    ASSUME ImageInv, ManifestRead \/ Catches \/ \E b \in Builds : Publishes(b)
    PROVE  ImageInv'
<1>1. ImageTyped /\ inst \in InstType /\ published \in Builds /\ faults \in 0..MaxFaults
    BY DEF ImageInv, ImageTyped
<1>2. CASE ManifestRead
    <2>1. inst' \in InstType /\ inst'.pc = "clears" /\ inst'.manifest \in Builds
        BY <1>1, <1>2 DEF ManifestRead, InstType, Pcs
    <2>2. ImageTyped' /\ FinalIsOneBuild'
        BY <1>1, <1>2, <2>1 DEF ImageInv, ImageTyped, FinalIsOneBuild, ManifestRead
    <2>3. StagedInv'
        BY <2>1 DEF StagedInv, PartStaged, AllStaged, WholeStaged, Fetching
    <2> QED BY <2>2, <2>3 DEF ImageInv
<1>3. CASE Catches
    <2>1. inst' \in InstType /\ inst'.pc = "off"
        BY <1>1, <1>3, LeavesIs DEF Catches, Pcs
    <2>2. ImageTyped' /\ FinalIsOneBuild'
        BY <1>1, <1>3, <2>1, NoDirTyped DEF ImageInv, ImageTyped, FinalIsOneBuild, Catches
    <2>3. StagedInv'
        BY <2>1 DEF StagedInv, PartStaged, AllStaged, WholeStaged, Fetching
    <2> QED BY <2>2, <2>3 DEF ImageInv
<1>4. ASSUME NEW b \in Builds, Publishes(b) PROVE ImageInv'
    <2>1. ImageTyped' /\ FinalIsOneBuild'
        BY <1>1, <1>4 DEF ImageInv, ImageTyped, FinalIsOneBuild, Publishes
    <2>2. StagedInv'
        BY <1>4 DEF ImageInv, StagedInv, PartStaged, AllStaged, WholeStaged, Fetching, Fetched, Linked, Publishes
    <2> QED BY <2>1, <2>2 DEF ImageInv
<1> QED BY <1>2, <1>3, <1>4

LEMMA OpenedTyped ==
    ASSUME inst \in InstType, NEW name \in 1..Len(Names)
    PROVE  LET new == [Opened EXCEPT !.name = name]
           IN  /\ new \in InstType /\ new.pc = "connects" /\ new.name = name /\ new.manifest = inst.manifest
               /\ new.had = inst.had
               /\ new.seen = <<>> /\ new.pending = <<>> /\ new.position = 0
<1>1. <<>> \in Bits /\ "connects" \in Pcs /\ 1 \in 1..3
    BY EmptySeq DEF Bits, Pcs
<1>2. /\ Opened \in InstType /\ Opened.pc = "connects" /\ Opened.manifest = inst.manifest
      /\ Opened.had = inst.had
      /\ Opened.seen = <<>> /\ Opened.pending = <<>> /\ Opened.position = 0
    BY <1>1 DEF Opened, InstType
<1> QED BY <1>2 DEF InstType

\* A file is being fetched again: the ones before it stand.
LEMMA FetchSteps ==
    ASSUME ImageTyped', FinalIsOneBuild', inst'.pc \in Fetching, inst'.manifest \in Builds,
           DOMAIN staging'.files \subseteq {Names[k] : k \in 1..inst'.name},
           \A f \in DOMAIN staging'.files \ {Fetched'} : staging'.files[f] = Disk(inst'.manifest, f),
           Linked' => Written(staging'.files[Fetched'], inst'.seen, inst'.pending, inst'.position),
           inst'.had => staging'.exists /\ DOMAIN staging'.files = {Names[k] : k \in 1..inst'.name}
    PROVE  ImageInv'
<1>1. StagedInv'
    BY DEF StagedInv, PartStaged, AllStaged, WholeStaged, Fetching
<1> QED BY <1>1 DEF ImageInv

LEMMA ClearsHolds == ASSUME ImageInv, Clears PROVE ImageInv'
<1>1. ImageTyped /\ inst \in InstType /\ inst.manifest \in Builds
    BY DEF ImageInv, ImageTyped, StagedInv, Clears
<1>2. 1 \in 1..Len(Names) /\ Names[1] \in Files
    BY NamesAre DEF Root
<1>3. /\ inst' \in InstType /\ inst'.pc = "connects" /\ inst'.name = 1 /\ inst'.manifest = inst.manifest
      /\ inst'.seen = <<>> /\ inst'.pending = <<>> /\ inst'.position = 0
    BY <1>1, <1>2, OpenedTyped DEF Clears
<1>4. /\ DirTyped(staging') /\ staging'.exists /\ staging'.files[Names[1]] = <<>>
      /\ DOMAIN staging'.files = {Names[1]}
    <2> DEFINE files == Put(EmptyDir.files, Names[1], <<>>)
    <2>1. staging' = [EmptyDir EXCEPT !.files = files]
        BY DEF Clears
    <2>2. files = Put(EmptyDir.files, Names[1], <<>>)
        OBVIOUS
    <2> HIDE DEF files
    <2>3. DOMAIN files = {Names[1]} /\ files[Names[1]] = <<>> /\ files = [f \in DOMAIN files |-> files[f]]
        BY <2>2, NoDirTyped DEF Put
    <2>4. DirTyped(staging') /\ staging'.exists /\ staging'.files = files
        BY <1>2, <2>1, <2>3, NoDirTyped, PutTyped
    <2> QED BY <2>3, <2>4
<1>5. ImageTyped' /\ FinalIsOneBuild'
    BY <1>3, <1>4 DEF ImageInv, ImageTyped, FinalIsOneBuild, Clears
<1>6. Fetched' = Names[1] /\ {Names[k] : k \in 1..inst'.name} = {Names[1]}
    BY <1>3 DEF Fetched
<1> QED BY <1>1, <1>3, <1>4, <1>5, <1>6, NothingWritten, FetchSteps DEF Fetching

\* A chunk, of whatever length, on its way through the digest and the writer.
LEMMA LinkedChunk == ASSUME ImageInv, NEW n \in 1..Len(inst.body), Chunk(n), Linked PROVE ImageInv'
<1> DEFINE got  == SubSeq(inst.body, 1, n)
           bits == inst.pending \o got
           k    == Whole(bits)
           file == Flushed(staging.files[Fetched], inst.position, SubSeq(bits, 1, k))
           rest == SubSeq(inst.body, n + 1, Len(inst.body))
           tail == SubSeq(bits, k + 1, Len(bits))
           files == Put(staging.files, Fetched, file)
<1>1. /\ inst \in InstType /\ Fetched \in Files /\ DirTyped(staging) /\ staging.exists
      /\ inst.seen \in Bits /\ inst.pending \in Bits /\ inst.position \in Nat /\ inst.body \in Bits
      /\ inst.pc = "reads" /\ inst.manifest \in Builds
      /\ DOMAIN staging.files \subseteq {Names[j] : j \in 1..inst.name} /\ Fetched \in DOMAIN staging.files
      /\ \A f \in DOMAIN staging.files \ {Fetched} : staging.files[f] = Disk(inst.manifest, f)
      /\ Written(staging.files[Fetched], inst.seen, inst.pending, inst.position)
    <2>1. ImageTyped /\ StagedInv /\ inst.pc = "reads" /\ Fetched \in DOMAIN staging.files
        BY DEF ImageInv, Chunk, Linked
    <2>2. DirTyped(staging) /\ staging.exists
        BY <2>1, NoDirTyped DEF ImageTyped, DirTyped
    <2> QED BY <2>1, <2>2, FetchedIs DEF ImageTyped, InstType, StagedInv, PartStaged, Fetching, Linked
<1>12. inst.had => DOMAIN staging.files = {Names[j] : j \in 1..inst.name}
    BY <1>1 DEF ImageInv, StagedInv, PartStaged, Fetching
<1>2. got \in Bits /\ rest \in Bits
    <2>1. Len(inst.body) \in Nat
        BY <1>1, BitsAre
    <2>2. /\ 1 \in 1..(Len(inst.body) + 1) /\ n \in (1 - 1)..Len(inst.body)
          /\ n + 1 \in 1..(Len(inst.body) + 1) /\ Len(inst.body) \in ((n + 1) - 1)..Len(inst.body)
        BY <2>1
    <2>3. got \in Bits
        BY <1>1, <2>2, SlicesAre
    <2>4. rest \in Bits
        BY <1>1, <2>2, SlicesAre
    <2> QED BY <2>3, <2>4
<1>3. /\ k \in Nat /\ tail \in Bits /\ inst.seen \o got \in Bits
      /\ Written(file, inst.seen \o got, tail, inst.position + k)
    <2> HIDE DEF got
    <2> QED BY <1>1, <1>2, ChunkWrites
<1>4. /\ staging' = [staging EXCEPT !.files = files]
      /\ inst' = [inst EXCEPT !.body = rest, !.seen = inst.seen \o got, !.pending = tail,
                              !.position = inst.position + k]
      /\ UNCHANGED <<published, final, faults>>
    BY DEF Chunk, Rewritten
<1>11. files = Put(staging.files, Fetched, file)
    OBVIOUS
<1> HIDE DEF file, tail, rest, k, bits, got, files
<1>5. inst.position + k \in Nat
    BY <1>1, <1>3
<1>6. /\ inst' \in InstType /\ inst'.pc = "reads" /\ inst'.name = inst.name /\ inst'.manifest = inst.manifest
      /\ inst'.had = inst.had
      /\ inst'.seen = inst.seen \o got /\ inst'.pending = tail /\ inst'.position = inst.position + k
    BY <1>1, <1>2, <1>3, <1>4, <1>5 DEF InstType
<1>7. /\ DirTyped(staging') /\ staging'.exists
      /\ DOMAIN staging'.files = DOMAIN staging.files \cup {Fetched}
      /\ staging'.files[Fetched] = file
      /\ \A f \in DOMAIN staging.files \ {Fetched} : staging'.files[f] = staging.files[f]
    <2>1. /\ DOMAIN files = DOMAIN staging.files \cup {Fetched} /\ files[Fetched] = file
          /\ \A f \in DOMAIN staging.files \ {Fetched} : files[f] = staging.files[f]
          /\ files = [f \in DOMAIN files |-> files[f]]
        BY <1>11 DEF Put
    <2>2. DOMAIN files \subseteq Files
        BY <1>1, <2>1 DEF DirTyped
    <2>3. DirTyped(staging') /\ staging'.exists /\ staging'.files = files
        BY <1>1, <1>4, <2>1, <2>2, PutTyped
    <2> QED BY <2>1, <2>3
<1>8. Fetched' = Fetched
    BY <1>6 DEF Fetched
<1>9. ImageTyped' /\ FinalIsOneBuild'
    BY <1>4, <1>6, <1>7 DEF ImageInv, ImageTyped, FinalIsOneBuild
<1>10. /\ DOMAIN staging'.files \subseteq {Names[j] : j \in 1..inst'.name}
       /\ \A f \in DOMAIN staging'.files \ {Fetched'} : staging'.files[f] = Disk(inst'.manifest, f)
       /\ Written(staging'.files[Fetched'], inst'.seen, inst'.pending, inst'.position)
       /\ inst'.had => DOMAIN staging'.files = {Names[j] : j \in 1..inst'.name}
    BY <1>1, <1>3, <1>6, <1>7, <1>8, <1>12
<1> QED BY <1>1, <1>6, <1>7, <1>9, <1>10, FetchSteps DEF Fetching

LEMMA ChunkHolds == ASSUME ImageInv, NEW n \in 1..Len(inst.body), Chunk(n) PROVE ImageInv'
<1>1. CASE Linked
    BY <1>1, LinkedChunk
<1>2. CASE ~Linked
    <2> DEFINE got  == SubSeq(inst.body, 1, n)
               bits == inst.pending \o got
               rest == SubSeq(inst.body, n + 1, Len(inst.body))
               tail == SubSeq(bits, Whole(bits) + 1, Len(bits))
    <2>1. /\ ImageTyped /\ inst \in InstType /\ inst.pc = "reads"
          /\ inst.seen \in Bits /\ inst.pending \in Bits /\ inst.position \in Nat /\ inst.body \in Bits
          /\ UNCHANGED <<published, final, staging, faults>>
        BY <1>2 DEF ImageInv, ImageTyped, InstType, Chunk
    <2>2. inst' = [inst EXCEPT !.body = rest, !.seen = inst.seen \o got, !.pending = tail,
                               !.position = inst.position + Whole(bits)]
        BY DEF Chunk
    <2>3. got \in Bits /\ rest \in Bits
        <3>1. Len(inst.body) \in Nat
            BY <2>1, BitsAre
        <3>2. /\ 1 \in 1..(Len(inst.body) + 1) /\ n \in (1 - 1)..Len(inst.body)
              /\ n + 1 \in 1..(Len(inst.body) + 1) /\ Len(inst.body) \in ((n + 1) - 1)..Len(inst.body)
            BY <3>1
        <3>3. got \in Bits
            BY <2>1, <3>2, SlicesAre
        <3>4. rest \in Bits
            BY <2>1, <3>2, SlicesAre
        <3> QED BY <3>3, <3>4
    <2> HIDE DEF got, rest
    <2>4. bits \in Bits /\ inst.seen \o got \in Bits
        BY <2>1, <2>3, JoinIs
    <2> HIDE DEF bits
    <2>5. Whole(bits) \in 0..Len(bits) /\ Len(bits) \in Nat
        BY <2>4, WholeIs, BitsAre
    <2>6. tail \in Bits
        <3>1. Whole(bits) + 1 \in 1..(Len(bits) + 1) /\ Len(bits) \in ((Whole(bits) + 1) - 1)..Len(bits)
            BY <2>5
        <3> QED BY <2>4, <3>1, SlicesAre
    <2>7. inst.position + Whole(bits) \in Nat
        BY <2>1, <2>5
    <2> HIDE DEF tail
    <2>8. /\ inst' \in InstType /\ inst'.pc = "reads" /\ inst'.name = inst.name
          /\ inst'.manifest = inst.manifest /\ inst'.had = inst.had
        BY <2>1, <2>2, <2>3, <2>4, <2>6, <2>7 DEF InstType
    <2>9. ~Linked' /\ Fetched' = Fetched
        BY <1>2, <2>1, <2>8 DEF Linked, Fetched
    <2>10. ImageTyped' /\ FinalIsOneBuild'
        BY <2>1, <2>8 DEF ImageInv, ImageTyped, FinalIsOneBuild
    <2>11. StagedInv'
        BY <2>1, <2>8, <2>9 DEF ImageInv, StagedInv, PartStaged, AllStaged, WholeStaged, Fetching
    <2> QED BY <2>10, <2>11 DEF ImageInv
<1> QED BY <1>1, <1>2

\* What is verified is the artifact, and grown to its size it is the disk.
LEMMA VerifiedIs ==
    ASSUME ImageInv, inst.pc = "closes", Verified, Linked
    PROVE  Padded(Closed(staging.files[Fetched]), FullSize[Fetched]) = Disk(inst.manifest, Fetched)
<1>1. /\ inst.seen \in Bits /\ inst.pending \in Bits /\ inst.position \in Nat
      /\ Written(staging.files[Fetched], inst.seen, inst.pending, inst.position)
    BY DEF ImageInv, ImageTyped, InstType, StagedInv, PartStaged, Fetching
<1>2. Closed(staging.files[Fetched]) = inst.seen
    BY <1>1, CloseWrites DEF Closed
<1> QED BY <1>2 DEF Verified, Disk

LEMMA EndSteps == ASSUME ImageTyped', FinalIsOneBuild', inst'.pc \in Elsewhere PROVE ImageInv'
<1>1. StagedInv'
    BY DEF StagedInv, PartStaged, AllStaged, WholeStaged, Elsewhere, Fetching
<1> QED BY <1>1 DEF ImageInv

LEMMA RewrittenIs ==
    ASSUME ImageTyped, staging.exists, NEW file
    PROVE  /\ DirTyped(Rewritten(file)) /\ Rewritten(file).exists
           /\ DOMAIN Rewritten(file).files = DOMAIN staging.files \cup {Fetched}
           /\ Rewritten(file).files[Fetched] = file
           /\ \A f \in DOMAIN staging.files \ {Fetched} : Rewritten(file).files[f] = staging.files[f]
<1> DEFINE files == Put(staging.files, Fetched, file)
           new   == Rewritten(file)
<1>1. new = [staging EXCEPT !.files = files]
    BY DEF Rewritten
<1>2. files = Put(staging.files, Fetched, file)
    OBVIOUS
<1> HIDE DEF files, new
<1>3. /\ DOMAIN files = DOMAIN staging.files \cup {Fetched} /\ files[Fetched] = file
      /\ \A f \in DOMAIN staging.files \ {Fetched} : files[f] = staging.files[f]
      /\ files = [f \in DOMAIN files |-> files[f]]
    BY <1>2 DEF Put
<1>4. DOMAIN files \subseteq Files
    BY <1>3, FetchedIs DEF ImageTyped, DirTyped
<1>5. DirTyped(new) /\ new.exists /\ new.files = files
    BY <1>1, <1>3, <1>4, PutTyped DEF ImageTyped
<1> QED BY <1>3, <1>5 DEF new

LEMMA MismatchesHolds == ASSUME ImageInv, Mismatches PROVE ImageInv'
<1>1. ImageTyped /\ inst \in InstType /\ DirTyped(staging) /\ UNCHANGED <<published, final, faults>>
    BY DEF ImageInv, ImageTyped, Mismatches
<1>2. inst' \in InstType /\ inst'.pc = "catches"
    BY <1>1, LeavesIs DEF Mismatches, Throws, Pcs
<1>3. DirTyped(staging')
    <2>1. CASE Linked
        <3>1. staging.exists
            BY <1>1, <2>1, NoDirTyped DEF DirTyped, Linked
        <3> QED BY <1>1, <2>1, <3>1, RewrittenIs DEF Mismatches
    <2>2. CASE ~Linked
        BY <1>1, <2>2 DEF Mismatches
    <2> QED BY <2>1, <2>2
<1>4. ImageTyped' /\ FinalIsOneBuild'
    BY <1>1, <1>2, <1>3 DEF ImageInv, ImageTyped, FinalIsOneBuild
<1> QED BY <1>2, <1>4, EndSteps DEF Elsewhere

\* What stands in staging once the file at hand is closed.
ClosedDir == IF Linked THEN Rewritten(Padded(Closed(staging.files[Fetched]), FullSize[Fetched])) ELSE staging

LEMMA ClosedDirIs ==
    ASSUME ImageInv, inst.pc = "closes", Verified
    PROVE  /\ DirTyped(ClosedDir) /\ ClosedDir.exists = staging.exists
           /\ DOMAIN ClosedDir.files = DOMAIN staging.files
           /\ \A f \in DOMAIN ClosedDir.files : ClosedDir.files[f] = Disk(inst.manifest, f)
<1>1. /\ ImageTyped /\ DirTyped(staging)
      /\ \A f \in DOMAIN staging.files \ {Fetched} : staging.files[f] = Disk(inst.manifest, f)
    BY DEF ImageInv, ImageTyped, StagedInv, PartStaged, Fetching
<1>2. CASE Linked
    <2> DEFINE grown == Padded(Closed(staging.files[Fetched]), FullSize[Fetched])
               new   == Rewritten(grown)
    <2>1. ClosedDir = new
        BY <1>2 DEF ClosedDir
    <2>2. grown = Disk(inst.manifest, Fetched)
        BY <1>2, VerifiedIs
    <2>3. staging.exists = TRUE /\ Fetched \in DOMAIN staging.files
        BY <1>1, <1>2, NoDirTyped DEF DirTyped, Linked
    <2> HIDE DEF grown
    <2>4. /\ DirTyped(new) /\ new.exists /\ DOMAIN new.files = DOMAIN staging.files
          /\ new.files[Fetched] = Disk(inst.manifest, Fetched)
          /\ \A f \in DOMAIN staging.files \ {Fetched} : new.files[f] = staging.files[f]
        BY <1>1, <2>2, <2>3, RewrittenIs
    <2>5. new.exists = TRUE
        BY <2>4 DEF DirTyped
    <2> HIDE DEF new
    <2> QED BY <1>1, <2>1, <2>3, <2>4, <2>5
<1>3. CASE ~Linked
    BY <1>1, <1>3 DEF ClosedDir, Linked
<1> QED BY <1>2, <1>3

LEMMA ClosesHolds == ASSUME ImageInv, Closes PROVE ImageInv'
<1> DEFINE next == Names[inst.name + 1]
<1>1. /\ ImageTyped /\ inst \in InstType /\ DirTyped(staging)
      /\ inst.pc = "closes" /\ inst.manifest \in Builds /\ Verified
      /\ DOMAIN staging.files \subseteq {Names[j] : j \in 1..inst.name}
      /\ inst.had => staging.exists /\ DOMAIN staging.files = {Names[j] : j \in 1..inst.name}
      /\ UNCHANGED <<published, final, faults>>
    BY DEF ImageInv, ImageTyped, StagedInv, PartStaged, Fetching, Closes
<1>2. inst.name \in 1..Len(Names) /\ Len(Names) \in Nat
    BY <1>1, NamesAre DEF InstType
<1>3. /\ DirTyped(ClosedDir) /\ ClosedDir.exists = staging.exists
      /\ DOMAIN ClosedDir.files = DOMAIN staging.files
      /\ \A f \in DOMAIN ClosedDir.files : ClosedDir.files[f] = Disk(inst.manifest, f)
    BY <1>1, ClosedDirIs
<1>4. ASSUME inst' \in InstType, DirTyped(staging') PROVE ImageTyped' /\ FinalIsOneBuild'
    BY <1>1, <1>4 DEF ImageInv, ImageTyped, FinalIsOneBuild
<1>5. CASE inst.name # Len(Names)
    <2> DEFINE files == Put(ClosedDir.files, next, <<>>)
    <2>1. /\ inst' = [Opened EXCEPT !.name = inst.name + 1] /\ staging' = [ClosedDir EXCEPT !.files = files]
          /\ staging.exists
        BY <1>5 DEF Closes, Opened, ClosedDir
    <2>2. inst.name + 1 \in 1..Len(Names) /\ next \in Files
        BY <1>2, <1>5, NamesAre
    <2>3. /\ inst' \in InstType /\ inst'.pc = "connects" /\ inst'.name = inst.name + 1
          /\ inst'.manifest = inst.manifest /\ inst'.had = inst.had
          /\ inst'.seen = <<>> /\ inst'.pending = <<>> /\ inst'.position = 0
        BY <1>1, <2>1, <2>2, OpenedTyped
    <2>5. files = Put(ClosedDir.files, next, <<>>) /\ Fetched' = next
        BY <2>3 DEF Fetched
    <2> HIDE DEF files, next
    <2>6. /\ DOMAIN files = DOMAIN staging.files \cup {next} /\ files[next] = <<>>
          /\ \A f \in DOMAIN files \ {next} : files[f] = Disk(inst'.manifest, f)
          /\ files = [f \in DOMAIN files |-> files[f]]
        BY <1>3, <2>3, <2>5 DEF Put
    <2>7. DOMAIN files \subseteq Files
        BY <1>1, <2>2, <2>6 DEF DirTyped
    <2>8. DirTyped(staging') /\ staging'.exists /\ staging'.files = files
        <3>1. DirTyped(ClosedDir) /\ ClosedDir.exists /\ files = [f \in DOMAIN files |-> files[f]]
            BY <1>3, <2>1, <2>6
        <3> QED BY <2>1, <2>7, <3>1, PutTyped
    <2>9. {Names[j] : j \in 1..inst'.name} = {Names[j] : j \in 1..inst.name} \cup {next}
        <3>1. 1..inst'.name = 1..inst.name \cup {inst.name + 1}
            BY <1>2, <2>3
        <3> QED BY <3>1 DEF next
    <2>10. /\ DOMAIN staging'.files \subseteq {Names[j] : j \in 1..inst'.name}
           /\ inst'.had => DOMAIN staging'.files = {Names[j] : j \in 1..inst'.name}
        BY <1>1, <2>3, <2>6, <2>8, <2>9
    <2> QED BY <1>1, <1>4, <2>3, <2>5, <2>6, <2>8, <2>10, NothingWritten, FetchSteps DEF Fetching
<1>6. CASE inst.name = Len(Names)
    <2>1. inst' = [inst EXCEPT !.pc = "records"] /\ staging' = ClosedDir
        BY <1>6 DEF Closes, Goto, ClosedDir
    <2>2. inst' \in InstType /\ inst'.pc = "records" /\ inst'.manifest = inst.manifest /\ inst'.had = inst.had
        BY <1>1, <2>1 DEF InstType, Pcs
    <2>3. /\ \A f \in DOMAIN staging'.files : staging'.files[f] = Disk(inst'.manifest, f)
          /\ inst'.had => staging'.exists /\ DOMAIN staging'.files = Files
        BY <1>1, <1>3, <1>6, <2>1, <2>2, NamesAre
    <2>4. StagedInv'
        BY <1>1, <2>2, <2>3 DEF StagedInv, PartStaged, AllStaged, WholeStaged, Fetching
    <2> QED BY <1>3, <1>4, <2>1, <2>2, <2>4 DEF ImageInv
<1> QED BY <1>5, <1>6

LEMMA RecordsHolds == ASSUME ImageInv, Records PROVE ImageInv'
<1>1. /\ ImageTyped /\ inst \in InstType /\ DirTyped(staging) /\ staging.exists = TRUE /\ inst.manifest \in Builds
      /\ \A f \in DOMAIN staging.files : staging.files[f] = Disk(inst.manifest, f)
      /\ inst.had => DOMAIN staging.files = Files
    BY DEF ImageInv, ImageTyped, DirTyped, StagedInv, AllStaged, Records
<1>2. inst' \in InstType /\ inst'.pc = "removes" /\ inst'.had = inst.had
    BY <1>1, LeavesIs DEF Records, Pcs
<1>3. staging' = [exists |-> TRUE, files |-> staging.files, record |-> inst.manifest]
    BY <1>1, DirEdited DEF Records
<1>4. DirTyped(staging') /\ staging'.files = staging.files /\ staging'.record = inst.manifest
    <2> DEFINE files == staging.files
    <2>1. files = [f \in DOMAIN files |-> files[f]] /\ DOMAIN files \subseteq Files
        BY <1>1 DEF DirTyped
    <2> HIDE DEF files
    <2>2. DirTyped([exists |-> TRUE, files |-> files, record |-> inst.manifest])
        BY <2>1, DirMade
    <2> QED BY <1>3, <2>2 DEF files
<1>5. OneBuild(staging')
    BY <1>1, <1>4 DEF OneBuild
<1>6. ASSUME inst'.had PROVE staging' = Image(inst.manifest)
    <2>1. staging.files = [f \in Files |-> Disk(inst.manifest, f)]
        BY <1>1, <1>2, <1>6 DEF DirTyped
    <2> QED BY <1>3, <2>1 DEF Image
<1>7. ImageTyped' /\ FinalIsOneBuild'
    BY <1>2, <1>4 DEF ImageInv, ImageTyped, FinalIsOneBuild, Records
<1>8. StagedInv'
    BY <1>1, <1>2, <1>5, <1>6 DEF StagedInv, PartStaged, AllStaged, WholeStaged, Fetching
<1> QED BY <1>7, <1>8 DEF ImageInv

\* What rmSync leaves of a directory at each of its steps.
LEMMA OneRemovedIs ==
    ASSUME NEW dir, DirTyped(dir), NEW new \in OneRemoved(dir)
    PROVE  /\ DirTyped(new) /\ DOMAIN new.files \subseteq DOMAIN dir.files
           /\ \A f \in DOMAIN new.files : new.files[f] = dir.files[f]
           /\ new.record \in {dir.record, NoBuild}
           /\ new.exists => dir.exists
<1>1. CASE new = NoDir
    BY <1>1, NoDirTyped
<1>2. ASSUME NEW f \in DOMAIN dir.files, new = [dir EXCEPT !.files = Restrict(@, DOMAIN @ \ {f})]
      PROVE  /\ DirTyped(new) /\ DOMAIN new.files \subseteq DOMAIN dir.files
             /\ \A g \in DOMAIN new.files : new.files[g] = dir.files[g]
             /\ new.record \in {dir.record, NoBuild}
             /\ dir.exists
    <2> DEFINE files == Restrict(dir.files, DOMAIN dir.files \ {f})
    <2>1. new = [dir EXCEPT !.files = files]
        BY <1>2
    <2>2. files = [g \in DOMAIN dir.files \ {f} |-> dir.files[g]]
        BY DEF Restrict
    <2> HIDE DEF files
    <2>3. dir.exists
        BY <1>2, NoDirTyped DEF DirTyped
    <2>4. /\ DOMAIN files = DOMAIN dir.files \ {f} /\ files = [g \in DOMAIN files |-> files[g]]
          /\ \A g \in DOMAIN files : files[g] = dir.files[g]
        BY <2>2
    <2>5. DOMAIN files \subseteq Files
        BY <2>4 DEF DirTyped
    <2>6. DirTyped(new) /\ new.files = files /\ new.record = dir.record
        BY <2>1, <2>3, <2>4, <2>5, PutTyped
    <2> QED BY <2>3, <2>4, <2>6
<1>3. CASE dir.record \in Builds /\ new = [dir EXCEPT !.record = NoBuild]
    <2>1. dir.exists
        BY <1>3, NoDirTyped, ImageConstants DEF DirTyped
    <2>2. new = [exists |-> dir.exists, files |-> dir.files, record |-> NoBuild]
        BY <1>3, DirEdited
    <2>3. DirTyped(new)
        BY <2>1, <2>2, DirMade DEF DirTyped
    <2> QED BY <2>1, <2>2, <2>3
<1> QED BY <1>1, <1>2, <1>3 DEF OneRemoved

LEMMA OneBuildIs ==
    ASSUME NEW dir, DirTyped(dir), NEW new \in OneRemoved(dir), OneBuild(dir)
    PROVE  OneBuild(new)
BY OneRemovedIs DEF OneBuild

LEMMA FinalIs == FinalIsOneBuild <=> (final.exists => OneBuild(final))
BY DEF FinalIsOneBuild, OneBuild

LEMMA FinalShrinks ==
    ASSUME ImageInv, final' \in OneRemoved(final)
    PROVE  DirTyped(final') /\ FinalIsOneBuild'
<1>1. DirTyped(final) /\ FinalIsOneBuild
    BY DEF ImageInv, ImageTyped
<1>2. DirTyped(final') /\ (final'.exists => final.exists)
    BY <1>1, OneRemovedIs
<1>3. final'.exists => OneBuild(final')
    BY <1>1, <1>2, OneBuildIs DEF FinalIsOneBuild, OneBuild
<1> QED BY <1>2, <1>3 DEF FinalIsOneBuild, OneBuild

\* The image that is being taken away file by file is still of one build.
LEMMA RemovesHolds == ASSUME ImageInv, Removes PROVE ImageInv'
<1>1. ImageTyped /\ inst \in InstType /\ inst.pc = "removes" /\ published' = published /\ staging' = staging
    BY DEF ImageInv, ImageTyped, Removes
<1>2. CASE /\ final' \in OneRemoved(final) /\ UNCHANGED faults
          /\ IF final'.exists THEN UNCHANGED inst ELSE Goto("renames")
    <2>1. inst' = inst \/ inst' = [inst EXCEPT !.pc = "renames"]
        BY <1>2 DEF Goto
    <2>2. inst' \in InstType /\ inst'.pc \in {"removes", "renames"} /\ inst'.had = inst.had
        BY <1>1, <2>1 DEF InstType, Pcs
    <2>3. ImageTyped' /\ FinalIsOneBuild'
        BY <1>1, <1>2, <2>2, FinalShrinks DEF ImageTyped
    <2>4. StagedInv'
        BY <1>1, <2>2 DEF ImageInv, StagedInv, PartStaged, AllStaged, WholeStaged, Fetching, OneBuild
    <2> QED BY <2>3, <2>4 DEF ImageInv
<1>3. CASE Spend /\ Throws /\ UNCHANGED final
    <2>1. inst' \in InstType /\ inst'.pc = "catches"
        BY <1>1, <1>3, LeavesIs DEF Throws, Pcs
    <2>2. faults' \in 0..MaxFaults
        BY <1>1, <1>3, SpendIs
    <2>3. published' \in Builds
        BY <1>1 DEF ImageTyped
    <2> QED BY <1>1, <1>3, <2>1, <2>2, <2>3, QuietSteps DEF Elsewhere
<1> QED BY <1>2, <1>3 DEF Removes

LEMMA RenamesHolds == ASSUME ImageInv, Renames PROVE ImageInv'
<1>1. inst \in InstType /\ DirTyped(staging) /\ published' = published /\ published \in Builds /\ inst.pc = "renames"
    BY DEF ImageInv, ImageTyped, Renames
<1>2. CASE staging.exists /\ final' = staging /\ staging' = NoDir /\ Leaves("serving") /\ UNCHANGED faults
    <2>1. inst' \in InstType /\ inst'.pc = "serving"
        BY <1>1, <1>2, LeavesIs DEF Pcs
    <2>2. OneBuild(staging)
        BY <1>1 DEF ImageInv, StagedInv, WholeStaged
    <2>4. FinalIsOneBuild'
        BY <1>2, <2>2 DEF FinalIsOneBuild, OneBuild
    <2>5. ImageTyped'
        BY <1>1, <1>2, <2>1, NoDirTyped DEF ImageInv, ImageTyped
    <2> QED BY <2>1, <2>4, <2>5, EndSteps DEF Elsewhere
<1>3. CASE ~staging.exists /\ Throws /\ UNCHANGED <<final, staging, faults>>
    <2>1. inst' \in InstType /\ inst'.pc = "catches"
        BY <1>1, <1>3, LeavesIs DEF Throws, Pcs
    <2>2. faults' \in 0..MaxFaults
        BY <1>3 DEF ImageInv, ImageTyped
    <2> QED BY <1>1, <1>3, <2>1, <2>2, QuietSteps DEF Elsewhere
<1>4. CASE Spend /\ Throws /\ UNCHANGED <<final, staging>>
    <2>1. inst' \in InstType /\ inst'.pc = "catches"
        BY <1>1, <1>4, LeavesIs DEF Throws, Pcs
    <2>2. faults' \in 0..MaxFaults
        BY <1>4, SpendIs DEF ImageInv
    <2> QED BY <1>1, <1>4, <2>1, <2>2, QuietSteps DEF Elsewhere
<1> QED BY <1>2, <1>3, <1>4 DEF Renames

LEMMA ImageSteps == ASSUME ImageInv, ImageNext PROVE ImageInv'
<1>1. ConnectFails => ConnectFails /\ (inst.attempt >= 3 \/ ~(inst.attempt >= 3))
    OBVIOUS
<1> QED
    BY <1>1, Quiets, Reads, Befores, ClearsHolds, ChunkHolds, MismatchesHolds, ClosesHolds, RecordsHolds, RemovesHolds,
       RenamesHolds
    DEF ImageNext

LEMMA ImageStarts == ASSUME ImageInit PROVE ImageInv
<1>1. inst \in InstType /\ inst.pc = "off"
    <2>1. Idle \in InstType /\ Idle.pc = "off"
        BY IdleTyped DEF Idle, Pcs
    <2> QED BY <2>1 DEF ImageInit
<1>2. PICK b \in Builds : \/ final = NoDir
                          \/ final = [Image(b) EXCEPT !.record = Handmade]
                          \/ final = Image(b)
    BY DEF ImageInit
<1>3. DirTyped(final)
    BY <1>2, NoDirTyped, ImagesTyped
<1>4. FinalIsOneBuild
    <2>1. CASE final = NoDir
        BY <2>1, NoDirTyped DEF FinalIsOneBuild
    <2>2. CASE final = [Image(b) EXCEPT !.record = Handmade]
        <3>1. final.record = Handmade /\ final.files = Image(b).files
            BY <2>2, ImagesTyped
        <3> QED BY <3>1, ImagesTyped DEF FinalIsOneBuild
    <2>3. CASE final = Image(b)
        BY <2>3, ImagesTyped DEF FinalIsOneBuild
    <2> QED BY <1>2, <2>1, <2>2, <2>3
<1>5. ImageTyped
    BY <1>1, <1>3, NoDirTyped, ImageConstants DEF ImageTyped, ImageInit
<1>6. StagedInv
    BY <1>1 DEF StagedInv, PartStaged, AllStaged, WholeStaged, Fetching
<1> QED BY <1>4, <1>5, <1>6 DEF ImageInv

-----------------------------------------------------------------------------
(* `mola uninstall` *)

UnType == [pc: {"none", "asks", "deletes", "waits", "removes"}, found: SUBSET Machines, asked: BOOLEAN,
           todo: SUBSET Machines, parts: SUBSET {"runtime", "image", "staging"},
           part: {"none", "runtime", "image", "staging"}, killed: SUBSET Machines, unseen: SUBSET Machines]

UnTyped ==
    /\ procs \subseteq Machines \cup {"foreign"} /\ machines \subseteq Machines
    /\ un \in UnType
    /\ un.part \in un.parts \cup {"none"}
    /\ un.killed \subseteq procs /\ un.unseen \subseteq procs

\* Every QEMU that runs was found by the survey, has been sent SIGKILL, or is one no
\* ps has shown.
Known ==
    ~un.asked => /\ un.pc # "deletes"
                 /\ un.pc \in {"asks", "waits"} => RunningMachines \subseteq un.found \cup un.unseen
                 /\ un.pc = "removes" => RunningMachines \subseteq un.killed \cup un.unseen

Inv == ImageInv /\ UnTyped /\ Known

LEMMA Starting == ASSUME Init PROVE Inv
<1>1. UnTyped /\ Known
    BY DEF Init, UnTyped, UnType, Known, NotRun
<1> QED BY <1>1, ImageStarts DEF Init, Inv

LEMMA Unmoved ==
    ASSUME ImageInv, UNCHANGED <<published, final, staging, inst>>, faults' \in 0..MaxFaults
    PROVE  ImageInv'
<1>1. ImageTyped' /\ FinalIsOneBuild'
    BY DEF ImageInv, ImageTyped, FinalIsOneBuild
<1>2. StagedInv'
    BY DEF ImageInv, StagedInv, PartStaged, AllStaged, WholeStaged, Fetching, Fetched, Linked, OneBuild
<1> QED BY <1>1, <1>2 DEF ImageInv

\* A file of the image, or the directory itself.
LEMMA ImageGoes ==
    ASSUME ImageInv, final' \in OneRemoved(final), inst' = [inst EXCEPT !.had = FALSE],
           UNCHANGED <<published, staging, faults>>
    PROVE  ImageInv'
<1>1. ImageTyped /\ inst \in InstType
    BY DEF ImageInv, ImageTyped
<1>2. /\ inst' \in InstType /\ inst'.pc = inst.pc /\ inst'.manifest = inst.manifest /\ inst'.name = inst.name
      /\ inst'.seen = inst.seen /\ inst'.pending = inst.pending /\ inst'.position = inst.position /\ ~inst'.had
    BY <1>1 DEF InstType
<1>3. ImageTyped' /\ FinalIsOneBuild'
    BY <1>1, <1>2, FinalShrinks DEF ImageTyped
<1>4. StagedInv'
    BY <1>2 DEF ImageInv, StagedInv, PartStaged, AllStaged, WholeStaged, Fetching, Fetched, Linked, OneBuild
<1> QED BY <1>3, <1>4 DEF ImageInv

\* A file of what is staged: what stays is as good as it was.
LEMMA StagingGoes ==
    ASSUME ImageInv, staging' \in OneRemoved(staging), inst' = [inst EXCEPT !.had = FALSE],
           UNCHANGED <<published, final, faults>>
    PROVE  ImageInv'
<1>1. ImageTyped /\ inst \in InstType /\ DirTyped(staging)
    BY DEF ImageInv, ImageTyped
<1>2. /\ inst' \in InstType /\ inst'.pc = inst.pc /\ inst'.manifest = inst.manifest /\ inst'.name = inst.name
      /\ inst'.seen = inst.seen /\ inst'.pending = inst.pending /\ inst'.position = inst.position /\ ~inst'.had
    BY <1>1 DEF InstType
<1>3. /\ DirTyped(staging') /\ DOMAIN staging'.files \subseteq DOMAIN staging.files
      /\ \A f \in DOMAIN staging'.files : staging'.files[f] = staging.files[f]
    BY <1>1, OneRemovedIs
<1>4. ImageTyped' /\ FinalIsOneBuild'
    BY <1>1, <1>2, <1>3 DEF ImageInv, ImageTyped, FinalIsOneBuild
<1>5. Fetched' = Fetched /\ (Linked' => Linked)
    BY <1>2, <1>3 DEF Fetched, Linked
<1>6. PartStaged' /\ AllStaged'
    BY <1>2, <1>3, <1>5 DEF ImageInv, StagedInv, PartStaged, AllStaged, Linked
<1>7. WholeStaged'
    <2>1. OneBuild(staging) => OneBuild(staging')
        BY <1>1, OneBuildIs
    <2> QED BY <1>2, <2>1 DEF ImageInv, StagedInv, WholeStaged, OneBuild
<1>8. StagedInv'
    BY <1>2, <1>6, <1>7 DEF ImageInv, StagedInv, Fetching
<1> QED BY <1>4, <1>8 DEF ImageInv

LEMMA MachineSteps ==
    ASSUME UnTyped, Known, NEW m \in Machines,
           EngineBoots(m) \/ QemuExits(m) \/ Deleted(m) \/ RemovesDisk(m)
    PROVE  UnTyped' /\ Known'
<1> USE DEF UnTyped, UnType
<1>1. CASE EngineBoots(m)
    BY <1>1 DEF EngineBoots, Known, RunningMachines
<1>2. CASE QemuExits(m)
    BY <1>2 DEF QemuExits, Known, RunningMachines, Forgets
<1>3. CASE Deleted(m)
    <2>1. CASE un' = [un EXCEPT !.todo = @ \ {m}] /\ UNCHANGED machineVars
        BY <1>3, <2>1 DEF Deleted, Known, RunningMachines, machineVars
    <2>2. CASE /\ procs' = procs \ {m} /\ machines' = machines \ {m}
               /\ un' = [Forgets(m) EXCEPT !.todo = @ \ {m}]
        <3>1. un' = [un EXCEPT !.killed = @ \ {m}, !.unseen = @ \ {m}, !.todo = @ \ {m}]
            BY <2>2 DEF Forgets
        <3>2. /\ un' \in UnType /\ un'.pc = un.pc /\ un'.asked = un.asked /\ un'.found = un.found
              /\ un'.part = un.part /\ un'.parts = un.parts
              /\ un'.killed = un.killed \ {m} /\ un'.unseen = un.unseen \ {m}
            BY <3>1
        <3> QED BY <2>2, <3>2 DEF Known, RunningMachines
    <2> QED BY <1>3, <2>1, <2>2 DEF Deleted
<1>4. CASE RemovesDisk(m)
    BY <1>4 DEF RemovesDisk, Known, RunningMachines, At, Goes
<1> QED BY <1>1, <1>2, <1>3, <1>4

LEMMA CommandSteps ==
    ASSUME UnTyped, Known,
           \/ \E keep, there \in BOOLEAN : Survey(keep, there)
           \/ Declines \/ EngineAbsent \/ EngineLists \/ RemovesAfterEngine \/ Insists \/ PsFails
           \/ RemovalEnds \/ RemovalFails
    PROVE  UnTyped' /\ Known'
<1> USE DEF UnTyped, UnType, machineVars
<1>1. ASSUME NEW keep \in BOOLEAN, NEW there \in BOOLEAN, Survey(keep, there) PROVE UnTyped' /\ Known'
    <2>1. Doomed(keep, there) \subseteq {"runtime", "image", "staging"}
        BY DEF Doomed
    <2>2. RunningMachines \subseteq Machines /\ RunningMachines \subseteq procs /\ RunningMachines' = RunningMachines
        BY <1>1 DEF RunningMachines, Survey
    <2>3. PICK found \in {{}, RunningMachines} : \E unseen \in {{}, RunningMachines} :
              un' = Surveyed(keep, there, found, unseen) /\ found \cup unseen = RunningMachines
        BY <1>1 DEF Survey
    <2>4. PICK unseen \in {{}, RunningMachines} :
              un' = Surveyed(keep, there, found, unseen) /\ found \cup unseen = RunningMachines
        BY <2>3
    <2>5. un' = [pc |-> "asks", found |-> found, asked |-> FALSE, todo |-> {}, parts |-> Doomed(keep, there),
                 part |-> "none", killed |-> {}, unseen |-> unseen]
        BY <2>4 DEF Surveyed, NotRun
    <2>6. /\ un' \in UnType /\ un'.pc = "asks" /\ un'.found = found /\ un'.unseen = unseen /\ un'.killed = {}
          /\ un'.part = "none"
        BY <2>1, <2>2, <2>5
    <2> QED BY <1>1, <2>2, <2>4, <2>6 DEF Survey, Known
<1>2. CASE Declines
    BY <1>2 DEF Declines, NotRun, Known
<1>3. CASE EngineAbsent
    <2>1. \/ un.found = {} /\ un' = [un EXCEPT !.pc = "removes", !.found = {}]
          \/ un' = [un EXCEPT !.pc = "waits"]
        BY <1>3 DEF EngineAbsent, Removing
    <2>2. /\ un' \in UnType /\ un'.asked = un.asked /\ un'.found = un.found /\ un'.unseen = un.unseen
          /\ un'.killed = un.killed /\ un'.part = un.part /\ un'.parts = un.parts
          /\ un'.pc = "waits" \/ (un'.pc = "removes" /\ un.found = {})
        BY <2>1
    <2>3. un.pc = "asks" /\ UNCHANGED <<procs, machines>>
        BY <1>3 DEF EngineAbsent
    <2> QED BY <2>2, <2>3 DEF Known, RunningMachines
<1>4. CASE EngineLists
    BY <1>4 DEF EngineLists, Known
<1>5. CASE RemovesAfterEngine
    <2>1. un.pc = "deletes" /\ un' = [un EXCEPT !.pc = "removes", !.found = {}] /\ UNCHANGED <<procs, machines>>
        BY <1>5 DEF RemovesAfterEngine, Removing
    <2>2. /\ un' \in UnType /\ un'.asked = un.asked /\ un'.unseen = un.unseen
          /\ un'.killed = un.killed /\ un'.part = un.part /\ un'.parts = un.parts /\ un'.pc = "removes"
        BY <2>1
    <2> QED BY <2>1, <2>2 DEF Known, RunningMachines
<1>6. CASE Insists
    <2>1. /\ un' = [un EXCEPT !.pc = "removes", !.found = {}, !.killed = RunningMachines, !.unseen = {}]
          /\ UNCHANGED <<procs, machines>>
        BY <1>6 DEF Insists, Removing
    <2>2. /\ un' \in UnType /\ un'.killed = RunningMachines /\ un'.unseen = {}
          /\ un'.part = un.part /\ un'.parts = un.parts /\ un'.pc = "removes"
        BY <2>1 DEF RunningMachines
    <2> QED BY <2>1, <2>2 DEF Known, RunningMachines
<1>7. CASE PsFails
    <2>1. /\ un' = [un EXCEPT !.pc = "removes", !.found = {}, !.unseen = RunningMachines]
          /\ UNCHANGED <<procs, machines>>
        BY <1>7 DEF PsFails, Removing
    <2>2. /\ un' \in UnType /\ un'.killed = un.killed /\ un'.unseen = RunningMachines
          /\ un'.part = un.part /\ un'.parts = un.parts /\ un'.pc = "removes"
        BY <2>1 DEF RunningMachines
    <2> QED BY <2>1, <2>2 DEF Known, RunningMachines
<1>8. CASE RemovalEnds \/ RemovalFails
    <2>1. un' = NotRun /\ UNCHANGED <<procs, machines>>
        BY <1>8 DEF RemovalEnds, RemovalFails
    <2>2. NotRun \in UnType /\ NotRun.pc = "none" /\ NotRun.part = "none" /\ NotRun.killed = {} /\ NotRun.unseen = {}
        BY DEF NotRun
    <2> QED BY <2>1, <2>2 DEF Known
<1> QED BY <1>1, <1>2, <1>3, <1>4, <1>5, <1>6, <1>7, <1>8

LEMMA RemovalSteps ==
    ASSUME UnTyped, Known, RemovesRuntime \/ RemovesImage \/ RemovesStaging PROVE UnTyped' /\ Known'
<1>1. PICK part \in {"runtime", "image", "staging"} :
          /\ At(part) /\ UNCHANGED <<procs, machines>>
          /\ \/ un' = [un EXCEPT !.part = "none", !.parts = un.parts \ {part}]
             \/ un' = [un EXCEPT !.part = part]
    BY DEF RemovesRuntime, RemovesImage, RemovesStaging, Goes, machineVars
<1>2. /\ un' \in UnType /\ un'.pc = un.pc /\ un'.asked = un.asked /\ un'.found = un.found
      /\ un'.killed = un.killed /\ un'.unseen = un.unseen /\ un'.part \in un'.parts \cup {"none"}
    <2>1. un \in UnType /\ part \in un.parts
        BY <1>1 DEF UnTyped, At
    <2>2. CASE un' = [un EXCEPT !.part = "none", !.parts = un.parts \ {part}]
        <3> DEFINE parts == un.parts \ {part}
        <3>1. un.parts \in SUBSET {"runtime", "image", "staging"}
            BY <2>1 DEF UnType
        <3>2. parts \subseteq {"runtime", "image", "staging"} /\ un' = [un EXCEPT !.part = "none", !.parts = parts]
            BY <2>2, <3>1
        <3> HIDE DEF parts
        <3> QED BY <2>1, <3>2 DEF UnType
    <2>3. CASE un' = [un EXCEPT !.part = part]
        BY <2>1, <2>3 DEF UnType
    <2> QED BY <1>1, <2>2, <2>3
<1> QED BY <1>1, <1>2 DEF UnTyped, Known, RunningMachines

LEMMA Stepping == ASSUME Inv, [Next]_vars PROVE Inv'
<1>1. ImageInv /\ ImageTyped /\ faults \in 0..MaxFaults /\ UnTyped /\ Known
    BY DEF Inv, ImageInv, ImageTyped
<1>2. CASE ImageCommand
    BY <1>1, <1>2, ImageSteps DEF ImageCommand, UnTyped, Known, RunningMachines, machineVars, Inv
<1>3. ASSUME NEW m \in Machines, EngineBoots(m) \/ QemuExits(m) \/ Deleted(m) \/ RemovesDisk(m) PROVE Inv'
    <2>1. UNCHANGED imageVars
        BY <1>3 DEF EngineBoots, QemuExits, Deleted, RemovesDisk
    <2> QED BY <1>1, <1>3, <2>1, MachineSteps, Unmoved DEF imageVars, Inv
<1>4. CASE \/ \E keep, there \in BOOLEAN : Survey(keep, there)
           \/ Declines \/ EngineAbsent \/ EngineLists \/ RemovesAfterEngine \/ Insists \/ PsFails
           \/ RemovalEnds \/ RemovalFails
    <2>1. UNCHANGED <<published, final, staging, inst>> /\ faults' \in 0..MaxFaults
        BY <1>1, <1>4, SpendIs DEF Survey, Declines, EngineAbsent, EngineLists, RemovesAfterEngine, Insists, PsFails,
                                   RemovalEnds, RemovalFails, imageVars
    <2> QED BY <1>1, <1>4, <2>1, CommandSteps, Unmoved DEF Inv
<1>5. CASE RemovesRuntime
    <2>1. UNCHANGED imageVars
        BY <1>5 DEF RemovesRuntime
    <2> QED BY <1>1, <1>5, <2>1, RemovalSteps, Unmoved DEF imageVars, Inv
<1>6. CASE RemovesImage
    BY <1>1, <1>6, ImageGoes, RemovalSteps DEF RemovesImage, Inv
<1>7. CASE RemovesStaging
    BY <1>1, <1>7, StagingGoes, RemovalSteps DEF RemovesStaging, Inv
<1>8. CASE UNCHANGED vars
    BY <1>1, <1>8, Unmoved DEF vars, imageVars, machineVars, UnTyped, Known, RunningMachines, Inv
<1> QED BY <1>2, <1>3, <1>4, <1>5, <1>6, <1>7, <1>8 DEF Next

LEMMA Holding == Spec => []Inv
BY Starting, Stepping, PTL DEF Spec

-----------------------------------------------------------------------------
(* What follows *)

\* Whatever is answered, removed or killed, every variable stays of its type, and a
\* directory that is not there has nothing in it (src/image.js, src/uninstall.js).
THEOREM InstallTypeCorrect == Spec => []InstallTypeOK
<1>1. ASSUME Inv PROVE InstallTypeOK
    <2>1. \A dir : DirTyped(dir) => DOMAIN dir = {"exists", "files", "record"} /\ DOMAIN dir.files \subseteq Files
                                    /\ (~dir.exists => dir = NoDir)
        <3> TAKE dir
        <3> HAVE DirTyped(dir)
        <3>1. PICK e, s, r : dir = [exists |-> e, files |-> s, record |-> r]
            BY DEF DirTyped
        <3>2. DOMAIN dir = {"exists", "files", "record"}
            BY <3>1
        <3> QED BY <3>2 DEF DirTyped
    <2>2. DirTyped(final) /\ DirTyped(staging)
        BY <1>1 DEF Inv, ImageInv, ImageTyped
    <2>3. /\ published \in Builds /\ faults \in 0..MaxFaults
          /\ inst.pc \in Pcs /\ inst.name \in 1..Len(Names) /\ inst.attempt \in 1..3
        BY <1>1 DEF Inv, ImageInv, ImageTyped, InstType
    <2>4. /\ procs \subseteq Machines \cup {"foreign"} /\ machines \subseteq Machines
          /\ un.pc \in {"none", "asks", "deletes", "waits", "removes"}
          /\ un.found \cup un.todo \subseteq Machines /\ un.killed \cup un.unseen \subseteq RunningMachines
          /\ un.part \in un.parts \cup {"none"}
        BY <1>1 DEF Inv, UnTyped, UnType, RunningMachines
    <2>5. \A dir \in {final, staging} : /\ DOMAIN dir = {"exists", "files", "record"}
                                        /\ DOMAIN dir.files \subseteq Files
                                        /\ ~dir.exists => dir = NoDir
        BY <2>1, <2>2
    <2> QED BY <2>3, <2>4, <2>5 DEF InstallTypeOK
<1> QED BY <1>1, Holding, PTL

\* The image on disk is bit for bit what one build published, at its full size,
\* however its parts were cut into chunks and blocks, and although any of them may have
\* come from another build (image.js, fetchArtifact, sparseWriter, replaceImage).
THEOREM ImagesAreWhole == Spec => []FinalIsOneBuild
<1>1. Inv => FinalIsOneBuild
    BY DEF Inv, ImageInv
<1> QED BY <1>1, Holding, PTL

\* Nothing but the uninstaller touches the image one had before a whole one is staged
\* in its place (image.js:246-253).
THEOREM RefreshesAreStaged == Spec => RefreshNeedsStaged
<1>1. ASSUME Inv, [Next]_vars
      PROVE  [(inst.had /\ final.exists /\ final' # final /\ ~RemovesImage)
                  => \E b \in Builds : staging = Image(b)]_vars
    <2> SUFFICES ASSUME Next, inst.had, final' # final, ~RemovesImage
                 PROVE  \E b \in Builds : staging = Image(b)
        BY <1>1
    <2>1. ImageNext
        BY DEF Next, ImageCommand, EngineBoots, QemuExits, Deleted, RemovesDisk, Survey, Declines, EngineAbsent,
               EngineLists, RemovesAfterEngine, Insists, PsFails, RemovesRuntime, RemovesStaging, RemovalEnds,
               RemovalFails, imageVars
    <2>2. Removes \/ Renames
        BY <2>1 DEF ImageNext, Starts, StartsOffline, ManifestFails, ManifestRead, Clears, Connects,
                    ConnectFails, Chunk, BodyCut, BodyFails, NextPart, Mismatches, Closes, StagingGone, Records,
                    Catches, Crashes, Publishes
    <2>3. inst.pc \in {"removes", "renames"}
        BY <2>2 DEF Removes, Renames
    <2> QED BY <1>1, <2>3 DEF Inv, ImageInv, StagedInv, WholeStaged
<1> QED BY <1>1, Holding, PTL DEF Spec, RefreshNeedsStaged

\* A start that says nothing of the image's age has the root file system that is
\* published (image.js, imageStatus).
THEOREM SilenceMeansCurrent == Spec => SilenceIsCurrent
<1>1. ASSUME Inv, [Next]_vars
      PROVE  [(inst'.pc = "serving" /\ inst'.notice = "current" /\ inst.pc = "off")
                  => final.files[Root] = Disk(published, Root)]_vars
    <2> SUFFICES ASSUME Next, inst'.pc = "serving", inst'.notice = "current", inst.pc = "off"
                 PROVE  final.files[Root] = Disk(published, Root)
        BY <1>1
    <2>1. inst \in InstType /\ inst' # inst
        BY <1>1 DEF Inv, ImageInv, ImageTyped
    <2>2. ImageNext
        BY <2>1 DEF Next, ImageCommand, EngineBoots, QemuExits, Deleted, RemovesDisk, Survey, Declines,
                    EngineAbsent, EngineLists, RemovesAfterEngine, Insists, PsFails, RemovesRuntime, RemovesImage,
                    RemovesStaging, RemovalEnds, RemovalFails, imageVars, InstType
    <2>3. PICK refresh \in BOOLEAN : Starts(refresh)
        BY <2>1, <2>2 DEF ImageNext, StartsOffline, ManifestFails, ManifestRead, Clears, Connects,
                    ConnectFails, Chunk, BodyCut, BodyFails, NextPart, Mismatches, Closes, StagingGone, Records,
                    Removes, Renames, Catches, Crashes, Publishes, Idle
    <2>4. HasImage /\ ~refresh /\ Notice = "current"
        BY <2>3 DEF Starts, Idle, Notice
    <2>5. /\ final.exists /\ Root \in DOMAIN final.files /\ final.record \in Builds
          /\ Artifact(final.record, Root) = Artifact(published, Root)
        BY <2>4 DEF HasImage, Notice
    <2>6. final.files[Root] = Disk(final.record, Root)
        BY <1>1, <2>5, ImageConstants DEF Inv, ImageInv, FinalIsOneBuild
    <2> QED BY <2>5, <2>6 DEF Disk
<1> QED BY <1>1, Holding, PTL DEF Spec, SilenceIsCurrent

\* Where no engine answered, a QEMU that lives while its disk goes has been sent SIGKILL,
\* or no ps has shown it (uninstall.js:166-185): whatever was found at the survey, started
\* during the wait, or went away and came back under the same name.
THEOREM NothingRunsUnderRemoval == Spec => StoppedBeforeRemoval
<1>1. ASSUME Inv
      PROVE  [\A m \in machines \ machines' : m \in RunningMachines /\ un.pc = "removes" /\ ~un.asked
                                                => m \in un.killed \cup un.unseen]_vars
    BY <1>1 DEF Inv, Known
<1> QED BY <1>1, Holding, PTL DEF Spec, StoppedBeforeRemoval
=============================================================================
