------------------------------- MODULE McpProofs -------------------------------
(***************************************************************************)
(* What Mcp promises for any frames, however the stream is cut into        *)
(* chunks, and whatever the engine and other clients of it do.             *)
(***************************************************************************)
EXTENDS Mcp, TLAPS, FiniteSetTheorems, WellFoundedInduction, SequenceTheorems

-----------------------------------------------------------------------------
(* The answers that a sequence of frames is owed *)

\* Of some natural numbers, one is the least.
LEMMA LeastExists ==
    ASSUME NEW S \in SUBSET Nat, S # {}
    PROVE  \E x \in S : \A y \in S : x <= y
<1> DEFINE R == StrictSubsetOrdering(Nat)
           T == {0..x : x \in S}
<1>1. IsWellFoundedOn(R, FiniteSubsetsOf(Nat))
    BY FS_StrictSubsetOrderingWellFounded
<1>2. T \subseteq FiniteSubsetsOf(Nat) /\ T # {}
    <2>1. \A x \in S : IsFiniteSet(0..x) /\ 0..x \in SUBSET Nat
        BY FS_Interval
    <2> QED BY <2>1 DEF FiniteSubsetsOf
<1>3. \E t \in T : \A u \in T : <<u, t>> \notin R
    <2> HIDE DEF T, R
    <2> QED BY <1>1, <1>2, WFMin
<1>4. PICK x \in S : \A u \in T : <<u, 0..x>> \notin R
    BY <1>3
<1>5. ASSUME NEW y \in S, y < x PROVE FALSE
    <2>1. 0..y \in SUBSET Nat /\ 0..x \in SUBSET Nat /\ 0..y \subseteq 0..x /\ x \in 0..x /\ x \notin 0..y
        BY <1>5
    <2>2. <<0..y, 0..x>> \in R
        BY <2>1 DEF StrictSubsetOrdering
    <2> QED BY <1>4, <2>2
<1> QED BY <1>4, <1>5

\* An answer: the frame whose id it carries, 0 for a null id, and its class.
Answer == Nat \X {"result", "error"}

\* Due and Owed, of the frames fs, those of d broken, rather than of what was sent.
DueIn(fs, d, i) ==
    IF fs[i].line = "garbage" THEN <<0, "error">>
    ELSE <<IF i \in d THEN MaxFrames + i ELSE i, IF AtFault(fs[i]) THEN "error" ELSE "result">>

\* An answer is owed to frame i of fs.
OwedIn(fs, i) ==
    /\ \A k \in 1..i : fs[k].line # "null"
    /\ fs[i].line = "garbage" \/ (fs[i].line = "message" /\ fs[i].id)

\* Is g the function that gives, for each n \in 0..m, the answers to the first n
\* frames of fs?
UpTo(fs, d, m, g) ==
    g = [i \in 0..m |-> IF i = 0 THEN <<>>
                        ELSE IF OwedIn(fs, i) THEN Append(g[i - 1], DueIn(fs, d, i)) ELSE g[i - 1]]

\* The answers owed to the first frames of fs, for each number of frames.
Answered(fs, d) == CHOOSE g : UpTo(fs, d, Len(fs), g)

\* Expected is what all frames that were sent are owed.
LEMMA ExpectedIs == Expected = Answered(sent, broken)[Len(sent)]
BY DEF Expected, Answered, UpTo, OwedIn, DueIn, Owed, Due

\* There is such a function for every m: a least m without one would have one,
\* extended from m - 1.
LEMMA UpToExists == ASSUME NEW fs, NEW d, NEW m \in Nat PROVE \E g : UpTo(fs, d, m, g)
<1> DEFINE B == {n \in Nat : ~\E g : UpTo(fs, d, n, g)}
<1>1. SUFFICES ASSUME B # {} PROVE FALSE
    OBVIOUS
<1>2. PICK n \in B : \A k \in B : n <= k
    <2>1. B \in SUBSET Nat
        OBVIOUS
    <2> HIDE DEF B
    <2> QED BY <1>1, <2>1, LeastExists
<1>3. n # 0
    <2> SUFFICES ASSUME n = 0 PROVE FALSE
        OBVIOUS
    <2> DEFINE g == [i \in 0..0 |-> <<>>]
    <2>1. UpTo(fs, d, 0, g)
        BY DEF UpTo
    <2> QED BY <1>2, <2>1
<1>4. n - 1 \in Nat /\ n - 1 \notin B
    BY <1>2, <1>3
<1>5. PICK h : UpTo(fs, d, n - 1, h)
    BY <1>4
<1> DEFINE next == IF OwedIn(fs, n) THEN Append(h[n - 1], DueIn(fs, d, n)) ELSE h[n - 1]
           g == [i \in 0..n |-> IF i = n THEN next ELSE h[i]]
           Step(f, i) == IF i = 0 THEN <<>>
                         ELSE IF OwedIn(fs, i) THEN Append(f[i - 1], DueIn(fs, d, i)) ELSE f[i - 1]
<1>6. h = [i \in 0..n-1 |-> Step(h, i)]
    BY <1>5 DEF UpTo
<1>7. ASSUME NEW i \in 0..n PROVE g[i] = Step(g, i)
    <2>1. CASE i = n
        <3>1. g[n - 1] = h[n - 1] /\ g[n] = next
            BY <1>2, <1>3
        <3> HIDE DEF g
        <3> QED BY <1>3, <2>1, <3>1
    <2>2. CASE i # n
        <3>1. i \in 0..n-1 /\ g[i] = h[i] /\ (i # 0 => g[i - 1] = h[i - 1])
            BY <1>2, <2>2
        <3>2. h[i] = Step(h, i)
            <4> HIDE DEF Step
            <4> QED BY <1>6, <3>1
        <3> HIDE DEF g
        <3> QED BY <3>1, <3>2
    <2> QED BY <2>1, <2>2
<1>8. g = [i \in 0..n |-> Step(g, i)]
    <2>1. g = [i \in 0..n |-> g[i]]
        OBVIOUS
    <2> HIDE DEF g, Step
    <2> QED BY <1>7, <2>1
<1>9. UpTo(fs, d, n, g)
    <2> HIDE DEF g
    <2> QED BY <1>8 DEF UpTo
<1> QED BY <1>2, <1>9

\* Answered by its recursion.
LEMMA AnsweredIs ==
    ASSUME NEW fs \in Seq(Frame), NEW d
    PROVE  /\ Answered(fs, d)[0] = <<>>
           /\ \A i \in 1..Len(fs) :
                 Answered(fs, d)[i] = IF OwedIn(fs, i) THEN Append(Answered(fs, d)[i - 1], DueIn(fs, d, i))
                                   ELSE Answered(fs, d)[i - 1]
<1> DEFINE g == Answered(fs, d)
           Step(i) == IF i = 0 THEN <<>>
                      ELSE IF OwedIn(fs, i) THEN Append(g[i - 1], DueIn(fs, d, i)) ELSE g[i - 1]
<1>1. Len(fs) \in Nat
    BY LenProperties
<1>2. UpTo(fs, d, Len(fs), g)
    BY <1>1, UpToExists DEF Answered
<1> HIDE DEF g
<1>3. g = [i \in 0..Len(fs) |-> Step(i)]
    BY <1>2 DEF UpTo
<1>4. \A i \in 0..Len(fs) : g[i] = Step(i)
    <2> HIDE DEF Step
    <2> QED BY <1>3
<1>5. 0 \in 0..Len(fs) /\ \A i \in 1..Len(fs) : i \in 0..Len(fs) /\ i # 0
    BY <1>1
<1> QED BY <1>4, <1>5 DEF g

\* What a frame is owed is an answer.
LEMMA DueIsAnswer ==
    ASSUME NEW fs, NEW d, NEW i \in Nat
    PROVE  DueIn(fs, d, i) \in Answer
BY McpConstants DEF DueIn, Answer

\* What is owed up to a frame is a sequence of answers.
LEMMA AnsweredTyped ==
    ASSUME NEW fs \in Seq(Frame), NEW d, NEW n \in 0..Len(fs)
    PROVE  Answered(fs, d)[n] \in Seq(Answer)
<1> DEFINE B == {i \in 0..Len(fs) : Answered(fs, d)[i] \notin Seq(Answer)}
<1>1. SUFFICES ASSUME B # {} PROVE FALSE
    OBVIOUS
<1>2. Len(fs) \in Nat
    BY LenProperties
<1>3. PICK m \in B : \A k \in B : m <= k
    <2>1. B \in SUBSET Nat
        OBVIOUS
    <2> HIDE DEF B
    <2> QED BY <1>1, <2>1, LeastExists
<1>4. m # 0
    <2>1. <<>> \in Seq(Answer)
        OBVIOUS
    <2> QED BY <1>3, <2>1, AnsweredIs
<1>5. m \in 1..Len(fs) /\ m - 1 \in 0..Len(fs) /\ m - 1 \notin B
    BY <1>2, <1>3, <1>4
<1>6. Answered(fs, d)[m - 1] \in Seq(Answer) /\ DueIn(fs, d, m) \in Answer
    BY <1>5, DueIsAnswer
<1>7. Append(Answered(fs, d)[m - 1], DueIn(fs, d, m)) \in Seq(Answer)
    BY <1>6, AppendProperties
<1> QED BY <1>3, <1>5, <1>6, <1>7, AnsweredIs

\* A prefix stays one when the other sequence grows.
LEMMA PrefixOfAppend ==
    ASSUME NEW s \in Seq(Answer), NEW t \in Seq(Answer), NEW x \in Answer, IsPrefix(s, t)
    PROVE  IsPrefix(s, Append(t, x))
<1>1. Len(s) \in Nat /\ Len(t) \in Nat /\ Len(s) <= Len(t)
    BY LenProperties DEF IsPrefix
<1>2. /\ Append(t, x) \in Seq(Answer) /\ Len(Append(t, x)) = Len(t) + 1
      /\ \A i \in 1..Len(t) : Append(t, x)[i] = t[i]
    BY AppendProperties
<1> DEFINE a == Append(t, x)
<1> HIDE DEF a
<1>3. SubSeq(a, 1, Len(s)) = SubSeq(t, 1, Len(s))
    <2>1. \A i \in 1..Len(s) : a[i] \in Answer /\ t[i] \in Answer /\ a[i] = t[i]
        BY <1>1, <1>2, ElementOfSeq DEF a
    <2>2. /\ SubSeq(a, 1, Len(s)) \in Seq(Answer) /\ SubSeq(t, 1, Len(s)) \in Seq(Answer)
          /\ Len(SubSeq(a, 1, Len(s))) = Len(s) /\ Len(SubSeq(t, 1, Len(s))) = Len(s)
          /\ \A i \in 1..Len(s) : /\ SubSeq(a, 1, Len(s))[i] = a[i]
                                  /\ SubSeq(t, 1, Len(s))[i] = t[i]
        BY <1>1, <2>1, SubSeqProperties
    <2> QED BY <2>1, <2>2, SeqEqual
<1> QED BY <1>1, <1>2, <1>3 DEF IsPrefix, a

\* A sequence is a prefix of itself.
LEMMA PrefixOfItself ==
    ASSUME NEW s \in Seq(Answer)
    PROVE  IsPrefix(s, s)
BY LenProperties DEF IsPrefix

\* Answers are only ever added.
LEMMA AnsweredGrows ==
    ASSUME NEW fs \in Seq(Frame), NEW d, NEW m \in 0..Len(fs), NEW n \in 0..m
    PROVE  IsPrefix(Answered(fs, d)[n], Answered(fs, d)[m])
<1> DEFINE B == {i \in n..Len(fs) : ~IsPrefix(Answered(fs, d)[n], Answered(fs, d)[i])}
<1>1. Len(fs) \in Nat /\ n \in Nat /\ n \in 0..Len(fs)
    BY LenProperties
<1>2. SUFFICES ASSUME B # {} PROVE FALSE
    BY <1>1
<1>3. PICK i \in B : \A k \in B : i <= k
    <2>1. B \in SUBSET Nat
        BY <1>1
    <2> HIDE DEF B
    <2> QED BY <1>2, <2>1, LeastExists
<1>4. i # n
    BY <1>1, <1>3, AnsweredTyped, PrefixOfItself
<1>5. i \in 1..Len(fs) /\ i - 1 \in n..Len(fs) /\ i - 1 \in 0..Len(fs) /\ i - 1 \notin B
    BY <1>1, <1>3, <1>4
<1>6. IsPrefix(Answered(fs, d)[n], Answered(fs, d)[i - 1])
    BY <1>5
<1>7. /\ Answered(fs, d)[n] \in Seq(Answer) /\ Answered(fs, d)[i - 1] \in Seq(Answer)
      /\ DueIn(fs, d, i) \in Answer
    BY <1>1, <1>5, AnsweredTyped, DueIsAnswer
<1>8. IsPrefix(Answered(fs, d)[n], Append(Answered(fs, d)[i - 1], DueIn(fs, d, i)))
    BY <1>6, <1>7, PrefixOfAppend
<1> QED BY <1>3, <1>5, <1>6, <1>8, AnsweredIs

\* Frames that are owed nothing add nothing.
LEMMA AnsweredStays ==
    ASSUME NEW fs \in Seq(Frame), NEW d, NEW m \in 0..Len(fs), NEW n \in 0..m,
           \A i \in n+1..m : ~OwedIn(fs, i)
    PROVE  Answered(fs, d)[m] = Answered(fs, d)[n]
<1> DEFINE B == {i \in n..m : Answered(fs, d)[i] # Answered(fs, d)[n]}
<1>1. Len(fs) \in Nat /\ n \in Nat /\ m \in Nat
    BY LenProperties
<1>2. SUFFICES ASSUME B # {} PROVE FALSE
    BY <1>1
<1>3. PICK i \in B : \A k \in B : i <= k
    <2>1. B \in SUBSET Nat
        BY <1>1
    <2> HIDE DEF B
    <2> QED BY <1>2, <2>1, LeastExists
<1>4. i # n /\ i \in n..m
    BY <1>3
<1>5. i \in 1..Len(fs) /\ i \in n+1..m /\ i - 1 \in n..m /\ i - 1 \notin B
    BY <1>1, <1>3, <1>4
<1> QED BY <1>3, <1>5, AnsweredIs

\* The first n frames of fs and gs are the same, and the same of them are broken.
Agree(fs, d, gs, e, n) ==
    n <= Len(fs) /\ n <= Len(gs) /\ \A k \in 1..n : gs[k] = fs[k] /\ (k \in e <=> k \in d)

\* What is owed for the first frames does not depend on those that follow.
LEMMA AnsweredOfFirst ==
    ASSUME NEW fs \in Seq(Frame), NEW gs \in Seq(Frame), NEW d, NEW e, NEW n \in Nat,
           Agree(fs, d, gs, e, n)
    PROVE  Answered(gs, e)[n] = Answered(fs, d)[n]
<1> DEFINE B == {i \in 0..n : Answered(gs, e)[i] # Answered(fs, d)[i]}
<1>1. /\ Len(fs) \in Nat /\ Len(gs) \in Nat /\ n <= Len(fs) /\ n <= Len(gs)
      /\ \A k \in 1..n : gs[k] = fs[k] /\ (k \in e <=> k \in d)
    BY LenProperties DEF Agree
<1>2. SUFFICES ASSUME B # {} PROVE FALSE
    BY <1>1
<1>3. PICK i \in B : \A k \in B : i <= k
    <2>1. B \in SUBSET Nat
        OBVIOUS
    <2> HIDE DEF B
    <2> QED BY <1>2, <2>1, LeastExists
<1>4. i # 0
    BY <1>3, AnsweredIs
<1>5. i \in 1..n /\ i \in 1..Len(fs) /\ i \in 1..Len(gs) /\ i - 1 \in 0..n /\ i - 1 \notin B
    BY <1>1, <1>3, <1>4
<1>6. Answered(gs, e)[i - 1] = Answered(fs, d)[i - 1]
    BY <1>5
<1>7. (OwedIn(gs, i) <=> OwedIn(fs, i)) /\ DueIn(gs, e, i) = DueIn(fs, d, i)
    <2>1. \A k \in 1..i : gs[k] = fs[k]
        BY <1>1, <1>5
    <2>2. gs[i] = fs[i] /\ (i \in e <=> i \in d)
        BY <1>1, <1>5
    <2> QED BY <2>1, <2>2 DEF OwedIn, DueIn
<1> QED BY <1>3, <1>5, <1>6, <1>7, AnsweredIs

-----------------------------------------------------------------------------
(* The text that has not been taken *)

\* Half a frame, or a newline, as the stream carries it.
Piece == [frame: Nat, piece: 0..2]

\* The text st is that of the frames of fs that follow the n-th: R gives what
\* follows each.
Rests(st, fs, n) ==
    \E R \in [n..Len(fs) -> Seq(Piece)] :
        /\ R[n] = st /\ R[Len(fs)] = <<>>
        /\ \A i \in n+1..Len(fs) : R[i - 1] = Text(i, fs[i]) \o R[i]

\* The text of a frame ends with its only newline.
LEMMA TextIs ==
    ASSUME NEW i \in Nat, NEW frame
    PROVE  LET t == Text(i, frame) IN
           /\ t \in Seq(Piece) /\ Len(t) \in Nat \ {0} /\ t[Len(t)] = Newline
           /\ \A k \in 1..(Len(t) - 1) : t[k] # Newline
           /\ frame.line = "blank" => Len(t) = 1
           /\ frame.line # "blank" => /\ Len(t) = 3 /\ t[1] = [frame |-> i, piece |-> 1]
                                      /\ t[2] = [frame |-> i, piece |-> 2]
<1> DEFINE p == [frame |-> i, piece |-> 1]
           q == [frame |-> i, piece |-> 2]
<1>1. p \in Piece /\ q \in Piece /\ Newline \in Piece /\ p # Newline /\ q # Newline
    BY DEF Piece, Newline
<1>2. CASE frame.line = "blank"
    <2>1. Text(i, frame) = <<Newline>>
        BY <1>2 DEF Text
    <2> QED BY <1>1, <1>2, <2>1
<1>3. CASE frame.line # "blank"
    <2>1. Text(i, frame) = <<p, q, Newline>>
        BY <1>3 DEF Text
    <2> HIDE DEF p, q
    <2>2. Text(i, frame) \in Seq(Piece) /\ Len(Text(i, frame)) = 3
        BY <1>1, <2>1
    <2>3. /\ Text(i, frame)[1] = p /\ Text(i, frame)[2] = q /\ Text(i, frame)[3] = Newline
        BY <2>1
    <2>4. \A k \in 1..2 : k = 1 \/ k = 2
        OBVIOUS
    <2> QED BY <1>1, <1>3, <2>2, <2>3, <2>4 DEF p, q
<1> QED BY <1>2, <1>3

\* Pieces join to text, in whatever order the joints are made.
LEMMA PiecesJoin ==
    ASSUME NEW s \in Seq(Piece), NEW t \in Seq(Piece), NEW u \in Seq(Piece)
    PROVE  s \o t \in Seq(Piece) /\ (s \o t) \o u = s \o (t \o u)
BY ConcatProperties, ConcatAssociative

\* The text of a frame is made of pieces.
LEMMA TextTyped == \A i \in Nat : \A frame : Text(i, frame) \in Seq(Piece)
BY TextIs

\* At the start nothing was sent, and there is no text.
LEMMA RestsEmpty == Rests(<<>>, <<>>, 0)
<1> DEFINE R == [i \in 0..0 |-> <<>>]
<1>1. Len(<<>>) = 0 /\ <<>> \in Seq(Piece)
    OBVIOUS
<1>2. R \in [0..0 -> Seq(Piece)] /\ R[0] = <<>>
    BY <1>1
<1> HIDE DEF R
<1> QED BY <1>1, <1>2 DEF Rests

\* One frame more.
LEMMA RestsMore ==
    ASSUME NEW fs \in Seq(Frame), NEW st \in Seq(Piece), NEW n \in 0..Len(fs), Rests(st, fs, n),
           NEW frame \in Frame
    PROVE  Rests(st \o Text(Len(fs) + 1, frame), Append(fs, frame), n)
<1> DEFINE gs == Append(fs, frame)
           T == Text(Len(fs) + 1, frame)
<1>1. /\ Len(fs) \in Nat /\ gs \in Seq(Frame) /\ Len(gs) = Len(fs) + 1 /\ n \in Nat
      /\ gs[Len(fs) + 1] = frame /\ \A i \in 1..Len(fs) : gs[i] = fs[i]
    BY LenProperties, AppendProperties
<1>2. T \in Seq(Piece)
    <2>1. Len(fs) + 1 \in Nat
        BY <1>1
    <2> QED BY <2>1, TextTyped
<1>3. PICK R \in [n..Len(fs) -> Seq(Piece)] :
         /\ R[n] = st /\ R[Len(fs)] = <<>>
         /\ \A i \in n+1..Len(fs) : R[i - 1] = Text(i, fs[i]) \o R[i]
    BY DEF Rests
<1> HIDE DEF gs, T
<1> DEFINE Q == [i \in n..Len(gs) |-> IF i = Len(gs) THEN <<>> ELSE R[i] \o T]
<1>4. /\ \A i \in n..Len(fs) : R[i] \in Seq(Piece) /\ i # Len(gs) /\ i \in n..Len(gs)
      /\ Len(gs) \in n..Len(gs)
    <2>1. \A i \in n..Len(fs) : i # Len(gs) /\ i \in n..Len(gs)
        BY <1>1
    <2>2. Len(gs) \in n..Len(gs)
        BY <1>1
    <2> QED BY <1>3, <2>1, <2>2
<1>5. /\ Q[Len(gs)] = <<>> /\ \A i \in n..Len(fs) : Q[i] = R[i] \o T
    BY <1>4
<1>6. \A i \in n..Len(fs) : R[i] \o T \in Seq(Piece)
    BY <1>2, <1>4, ConcatProperties
<1>7. Q \in [n..Len(gs) -> Seq(Piece)]
    <2>1. <<>> \in Seq(Piece)
        OBVIOUS
    <2>2. \A i \in n..Len(gs) : i = Len(gs) \/ i \in n..Len(fs)
        BY <1>1
    <2>3. \A i \in n..Len(gs) : (IF i = Len(gs) THEN <<>> ELSE R[i] \o T) \in Seq(Piece)
        BY <1>6, <2>1, <2>2
    <2> QED BY <2>3
<1> HIDE DEF Q
<1>8. Q[n] = st \o T
    <2>1. n \in n..Len(fs)
        BY <1>1
    <2> QED BY <1>3, <1>5, <2>1
<1>9. ASSUME NEW i \in n+1..Len(gs) PROVE Q[i - 1] = Text(i, gs[i]) \o Q[i]
    <2>1. CASE i = Len(gs)
        <3>1. Q[i - 1] = <<>> \o T
            <4>1. i - 1 = Len(fs) /\ Len(fs) \in n..Len(fs)
                BY <1>1, <2>1
            <4> QED BY <1>3, <1>5, <4>1
        <3>2. Text(i, gs[i]) = T /\ Q[i] = <<>>
            BY <1>1, <1>5, <2>1 DEF T
        <3> QED BY <1>2, <3>1, <3>2, ConcatEmptySeq
    <2>2. CASE i # Len(gs)
        <3>1. i \in n+1..Len(fs) /\ i \in n..Len(fs) /\ i - 1 \in n..Len(fs) /\ gs[i] = fs[i] /\ i \in Nat
            BY <1>1, <2>2
        <3>2. Q[i - 1] = (Text(i, fs[i]) \o R[i]) \o T /\ Q[i] = R[i] \o T
            BY <1>3, <1>5, <3>1
        <3>3. Text(i, fs[i]) \in Seq(Piece) /\ R[i] \in Seq(Piece)
            BY <1>4, <3>1, TextTyped
        <3>4. (Text(i, fs[i]) \o R[i]) \o T = Text(i, fs[i]) \o (R[i] \o T)
            <4> DEFINE s == Text(i, fs[i])
                       t == R[i]
            <4>1. s \in Seq(Piece) /\ t \in Seq(Piece)
                BY <3>3
            <4> HIDE DEF s, t
            <4>2. (s \o t) \o T = s \o (t \o T)
                BY <1>2, <4>1, PiecesJoin, SMTT(30)
            <4> QED BY <4>2 DEF s, t
        <3> QED BY <3>1, <3>2, <3>4
    <2> QED BY <2>1, <2>2
<1> QED BY <1>1, <1>5, <1>7, <1>8, <1>9 DEF Rests, gs, T

\* One frame less.
LEMMA RestsNext ==
    ASSUME NEW fs \in Seq(Frame), NEW st \in Seq(Piece), NEW n \in 0..Len(fs), Rests(st, fs, n),
           n # Len(fs)
    PROVE  \E rest \in Seq(Piece) : st = Text(n + 1, fs[n + 1]) \o rest /\ Rests(rest, fs, n + 1)
<1>1. Len(fs) \in Nat /\ n \in Nat /\ n + 1 \in n+1..Len(fs) /\ n + 1 \in n..Len(fs)
    BY LenProperties
<1>2. PICK R \in [n..Len(fs) -> Seq(Piece)] :
         /\ R[n] = st /\ R[Len(fs)] = <<>>
         /\ \A i \in n+1..Len(fs) : R[i - 1] = Text(i, fs[i]) \o R[i]
    BY DEF Rests
<1> DEFINE Q == [i \in n+1..Len(fs) |-> R[i]]
<1>3. /\ Q \in [n+1..Len(fs) -> Seq(Piece)] /\ \A i \in n+1..Len(fs) : Q[i] = R[i]
    BY <1>1, <1>2
<1> HIDE DEF Q
<1>4. /\ Q[n + 1] = R[n + 1] /\ Q[Len(fs)] = <<>> /\ R[n + 1] \in Seq(Piece)
      /\ \A i \in n+2..Len(fs) : Q[i - 1] = Text(i, fs[i]) \o Q[i]
    <2>1. /\ Len(fs) \in n+1..Len(fs)
          /\ \A i \in n+2..Len(fs) : i \in n+1..Len(fs) /\ i - 1 \in n+1..Len(fs)
        BY <1>1
    <2> QED BY <1>1, <1>2, <1>3, <2>1
<1>5. Rests(R[n + 1], fs, n + 1)
    <2>1. (n + 1) + 1 = n + 2
        BY <1>1
    <2> QED BY <1>3, <1>4, <2>1 DEF Rests
<1>6. st = Text(n + 1, fs[n + 1]) \o R[n + 1]
    <2>1. (n + 1) - 1 = n
        BY <1>1
    <2> QED BY <1>1, <1>2, <2>1
<1> QED BY <1>4, <1>5, <1>6

\* The text left is that of frames that were not taken.
LEMMA RestsLater ==
    ASSUME NEW fs \in Seq(Frame), NEW st \in Seq(Piece), NEW n \in 0..Len(fs), Rests(st, fs, n),
           NEW k \in 1..Len(st)
    PROVE  st[k] = Newline \/ st[k].frame > n
<1> DEFINE Later(s, m) == \A j \in 1..Len(s) : s[j] = Newline \/ s[j].frame > m
           Bad(m) == \E s \in Seq(Piece), i \in 0..Len(fs) :
                        m = Len(fs) - i /\ Rests(s, fs, i) /\ ~Later(s, i)
           B == {m \in Nat : Bad(m)}
<1>1. Len(fs) \in Nat /\ n \in Nat
    BY LenProperties
<1>2. SUFFICES ASSUME B # {} PROVE FALSE
    <2>1. Len(fs) - n \in Nat /\ Len(fs) - n \notin B
        <3> HIDE DEF B
        <3> QED BY <1>1, <1>2
    <2>2. ~Bad(Len(fs) - n)
        <3> HIDE DEF Bad
        <3> QED BY <2>1
    <2>3. Later(st, n)
        <3> HIDE DEF Later
        <3> QED BY <2>2
    <2> QED BY <2>3
<1>3. PICK m \in B : \A x \in B : m <= x
    <2>1. B \in SUBSET Nat
        OBVIOUS
    <2> HIDE DEF B
    <2> QED BY <1>2, <2>1, LeastExists
<1>4. PICK s \in Seq(Piece), i \in 0..Len(fs) : m = Len(fs) - i /\ Rests(s, fs, i) /\ ~Later(s, i)
    BY <1>3
<1>5. i # Len(fs)
    <2> SUFFICES ASSUME i = Len(fs) PROVE FALSE
        OBVIOUS
    <2>1. s = <<>>
        BY <1>4 DEF Rests
    <2>2. Later(<<>>, i)
        <3>1. \A j \in 1..Len(<<>>) : FALSE
            OBVIOUS
        <3> QED BY <3>1
    <2> HIDE DEF Later
    <2> QED BY <1>4, <2>1, <2>2
<1> DEFINE t == Text(i + 1, fs[i + 1])
<1>6. PICK rest \in Seq(Piece) : s = t \o rest /\ Rests(rest, fs, i + 1)
    BY <1>4, <1>5, RestsNext
<1>7. i \in Nat /\ i + 1 \in Nat /\ i + 1 \in 0..Len(fs)
    BY <1>1, <1>4, <1>5
<1>8. Later(rest, i + 1)
    <2>1. Len(fs) - (i + 1) \in Nat /\ ~(m <= Len(fs) - (i + 1))
        BY <1>1, <1>4, <1>7
    <2>2. Len(fs) - (i + 1) \notin B
        <3> HIDE DEF B
        <3> QED BY <1>3, <2>1
    <2>3. ~Bad(Len(fs) - (i + 1))
        <3> HIDE DEF Bad
        <3> QED BY <2>1, <2>2
    <2> HIDE DEF Later
    <2> QED BY <1>6, <1>7, <2>3
<1>9. \A j \in 1..Len(t) : t[j] = Newline \/ t[j].frame = i + 1
    <2>1. /\ Len(t) \in Nat \ {0} /\ t[Len(t)] = Newline
          /\ fs[i + 1].line = "blank" => Len(t) = 1
          /\ fs[i + 1].line # "blank" => /\ Len(t) = 3 /\ t[1] = [frame |-> i + 1, piece |-> 1]
                                         /\ t[2] = [frame |-> i + 1, piece |-> 2]
        BY <1>7, TextIs
    <2> HIDE DEF t
    <2>2. CASE fs[i + 1].line = "blank"
        <3>1. \A j \in 1..1 : j = 1
            OBVIOUS
        <3> QED BY <2>1, <2>2, <3>1
    <2>3. CASE fs[i + 1].line # "blank"
        <3>1. \A j \in 1..3 : j = 1 \/ j = 2 \/ j = 3
            OBVIOUS
        <3>2. \A x \in {1, 2} : [frame |-> i + 1, piece |-> x].frame = i + 1
            OBVIOUS
        <3>3. t[1].frame = i + 1 /\ t[2].frame = i + 1 /\ t[3] = Newline
            BY <2>1, <2>3, <3>2
        <3> QED BY <2>1, <2>3, <3>1, <3>3
    <2> QED BY <2>2, <2>3
<1>10. t \in Seq(Piece)
    BY <1>7, TextTyped
<1> HIDE DEF t
<1>11. /\ Len(s) = Len(t) + Len(rest) /\ Len(t) \in Nat /\ Len(rest) \in Nat
       /\ \A j \in 1..(Len(t) + Len(rest)) : s[j] = IF j <= Len(t) THEN t[j] ELSE rest[j - Len(t)]
    BY <1>6, <1>10, ConcatProperties, LenProperties
<1>12. Later(s, i)
    <2> SUFFICES ASSUME NEW j \in 1..Len(s) PROVE s[j] = Newline \/ s[j].frame > i
        OBVIOUS
    <2>1. CASE j <= Len(t)
        <3>1. j \in 1..Len(t) /\ s[j] = t[j]
            BY <1>11, <2>1
        <3> QED BY <1>7, <1>9, <3>1
    <2>2. CASE ~(j <= Len(t))
        <3>1. j - Len(t) \in 1..Len(rest) /\ s[j] = rest[j - Len(t)]
            BY <1>11, <2>2
        <3>2. rest[j - Len(t)] = Newline \/ rest[j - Len(t)].frame > i + 1
            BY <1>8, <3>1
        <3>3. s[j].frame \in Nat
            <4>1. s[j] \in Piece
                BY ElementOfSeq
            <4> QED BY <4>1 DEF Piece
        <3> HIDE DEF Later, Bad, B
        <3> QED BY <1>7, <3>1, <3>2, <3>3
    <2> QED BY <2>1, <2>2
<1> QED BY <1>4, <1>12

\* Where every frame was taken there is no text left.
LEMMA RestsNone ==
    ASSUME NEW fs \in Seq(Frame), NEW st, Rests(st, fs, Len(fs))
    PROVE  st = <<>>
BY DEF Rests

\* Where a newline is in the buffer.
Newlines(b) == {k \in 1..Len(b) : b[k] = Newline}

\* The n pieces t are a line: the last of them is its only newline.
IsLine(t, n) ==
    /\ t \in Seq(Piece) /\ n = Len(t) /\ n \in Nat \ {0} /\ t[n] = Newline
    /\ \A k \in 1..(n - 1) : t[k] # Newline

\* Where the first newline of the buffer b is, what comes before it and what is
\* left, when w is to be read yet.
Cut(b, w, t, n, rest) ==
    /\ Min(Newlines(b)) = n /\ n \in 1..Len(b)
    /\ \A k \in 1..n : b[k] = t[k]
    /\ SubSeq(b, n + 1, Len(b)) \in Seq(Piece) /\ SubSeq(b, n + 1, Len(b)) \o w = rest

\* A text that starts with a line and is cut in two: the first newline of the front
\* part ends that line, and what remains of both is the rest.
LEMMA LineIs ==
    ASSUME NEW b \in Seq(Piece), NEW w \in Seq(Piece), NEW rest \in Seq(Piece),
           NEW t, NEW n, IsLine(t, n), b \o w = t \o rest, Newlines(b) # {}
    PROVE  Cut(b, w, t, n, rest)
<1> DEFINE I == Newlines(b)
           st == b \o w
<1>1. t \in Seq(Piece) /\ n = Len(t) /\ n \in Nat \ {0} /\ t[n] = Newline
    BY DEF IsLine
<1>2. st = t \o rest /\ Len(b) \in Nat /\ Len(w) \in Nat /\ Len(rest) \in Nat
    BY LenProperties
<1>3. /\ Len(st) = Len(b) + Len(w) /\ Len(st) = n + Len(rest)
      /\ \A k \in 1..Len(b) : st[k] = b[k]
      /\ \A k \in 1..n : st[k] = t[k]
    <2>1. /\ Len(b \o w) = Len(b) + Len(w)
          /\ \A k \in 1..(Len(b) + Len(w)) : (b \o w)[k] = IF k <= Len(b) THEN b[k] ELSE w[k - Len(b)]
        BY ConcatProperties
    <2>2. /\ Len(t \o rest) = Len(t) + Len(rest)
          /\ \A k \in 1..(Len(t) + Len(rest)) : (t \o rest)[k] = IF k <= Len(t) THEN t[k] ELSE rest[k - Len(t)]
        BY <1>1, ConcatProperties
    <2> HIDE DEF st
    <2>3. \A k \in 1..Len(b) : st[k] = b[k]
        BY <1>2, <2>1 DEF st
    <2>4. \A k \in 1..n : st[k] = t[k]
        BY <1>1, <1>2, <2>2
    <2> QED BY <1>1, <1>2, <2>1, <2>2, <2>3, <2>4 DEF st
<1> HIDE DEF st
<1>4. PICK j \in 1..Len(b) : b[j] = Newline
    BY DEF Newlines
<1>5. n \in 1..Len(b)
    <2> SUFFICES ASSUME ~(n <= Len(b)) PROVE FALSE
        BY <1>1, <1>2
    <2>1. j \in 1..(n - 1) /\ j \in 1..n
        BY <1>1, <1>2
    <2>2. t[j] = Newline
        BY <1>3, <1>4, <2>1
    <2> QED BY <2>1, <2>2 DEF IsLine
<1>6. \A k \in 1..n : b[k] = t[k]
    BY <1>1, <1>2, <1>3, <1>5
<1>7. Min(I) = n
    <2>1. n \in I
        <3>1. n \in 1..n
            BY <1>1
        <3> QED BY <1>1, <1>5, <1>6, <3>1 DEF Newlines
    <2>2. \A k \in I : n <= k
        <3> SUFFICES ASSUME NEW k \in I, k < n PROVE FALSE
            BY <1>1, <1>2 DEF Newlines
        <3>1. k \in 1..(n - 1) /\ k \in 1..n /\ b[k] = Newline
            BY <1>1, <1>2 DEF Newlines
        <3> QED BY <1>6, <3>1 DEF IsLine
    <2>3. \A k \in I : k \in Nat
        BY <1>2 DEF Newlines
    <2> HIDE DEF I
    <2> DEFINE m == Min(I)
    <2>4. m \in I /\ \A k \in I : m <= k
        BY <2>1, <2>2 DEF Min
    <2> HIDE DEF m
    <2>5. m = n
        BY <1>1, <2>1, <2>2, <2>3, <2>4
    <2> QED BY <2>5 DEF m
<1> DEFINE u == SubSeq(b, n + 1, Len(b))
<1>8. /\ u \in Seq(Piece) /\ Len(u) = Len(b) - n
      /\ \A k \in 1..(Len(b) - n) : u[k] = b[n + k]
    <2>1. \A k \in n+1..Len(b) : b[k] \in Piece
        BY <1>1, <1>2, ElementOfSeq
    <2>2. /\ u \in Seq(Piece) /\ Len(u) = (IF n + 1 <= Len(b) THEN Len(b) - (n + 1) + 1 ELSE 0)
          /\ \A k \in 1..(Len(b) - (n + 1) + 1) : u[k] = b[(n + 1) + k - 1]
        BY <1>1, <1>2, <2>1, SubSeqProperties
    <2> HIDE DEF u
    <2>3. /\ Len(b) - (n + 1) + 1 = Len(b) - n
          /\ (IF n + 1 <= Len(b) THEN Len(b) - (n + 1) + 1 ELSE 0) = Len(b) - n
        BY <1>1, <1>2, <1>5
    <2>4. ASSUME NEW k \in 1..(Len(b) - n) PROVE u[k] = b[n + k]
        <3>1. (n + 1) + k - 1 = n + k
            BY <1>1, <1>2
        <3> QED BY <2>2, <2>3, <3>1
    <2> QED BY <2>2, <2>3, <2>4
<1> HIDE DEF u
<1>9. u \o w = rest
    <2>1. /\ u \o w \in Seq(Piece) /\ Len(u \o w) = Len(u) + Len(w)
          /\ \A k \in 1..(Len(u) + Len(w)) : (u \o w)[k] = IF k <= Len(u) THEN u[k] ELSE w[k - Len(u)]
        BY <1>8, ConcatProperties
    <2>2. \A k \in 1..(Len(b) + Len(w)) : st[k] = IF k <= Len(b) THEN b[k] ELSE w[k - Len(b)]
        BY ConcatProperties DEF st
    <2>3. \A k \in 1..(Len(t) + Len(rest)) : st[k] = IF k <= Len(t) THEN t[k] ELSE rest[k - Len(t)]
        BY <1>1, <1>2, ConcatProperties
    <2>4. Len(u) + Len(w) = Len(rest)
        BY <1>1, <1>2, <1>3, <1>8
    <2>5. ASSUME NEW k \in 1..Len(rest) PROVE (u \o w)[k] = rest[k]
        <3>1. n + k \in 1..(Len(b) + Len(w)) /\ n + k \in 1..(Len(t) + Len(rest)) /\ ~(n + k <= Len(t))
              /\ (n + k) - Len(t) = k /\ k \in 1..(Len(u) + Len(w))
            BY <1>1, <1>2, <1>3, <2>4
        <3>2. st[n + k] = rest[k]
            BY <2>3, <3>1
        <3>3. CASE k <= Len(u)
            <4>1. k \in 1..(Len(b) - n) /\ n + k <= Len(b)
                BY <1>1, <1>2, <1>8, <3>3
            <4>2. (u \o w)[k] = b[n + k] /\ st[n + k] = b[n + k]
                BY <1>8, <2>1, <2>2, <3>1, <3>3, <4>1
            <4> QED BY <3>2, <4>2
        <3>4. CASE ~(k <= Len(u))
            <4>1. ~(n + k <= Len(b)) /\ (n + k) - Len(b) = k - Len(u)
                BY <1>1, <1>2, <1>8, <3>4
            <4>2. (u \o w)[k] = w[k - Len(u)] /\ st[n + k] = w[k - Len(u)]
                BY <2>1, <2>2, <3>1, <3>4, <4>1
            <4> QED BY <3>2, <4>2
        <3> QED BY <3>3, <3>4
    <2> QED BY <2>1, <2>4, <2>5, SeqEqual
<1> QED BY <1>5, <1>6, <1>7, <1>8, <1>9 DEF u, Cut

-----------------------------------------------------------------------------
(* The invariant *)

\* McpTypeOK, and the types of the stream.
Typed ==
    /\ sent \in Seq(Frames) /\ Len(sent) <= MaxFrames
    /\ wire \in Seq(Piece) /\ buffer \in Seq(Piece)
    /\ broken \subseteq {i \in 1..Len(sent) : sent[i].wide}
    /\ server \in [pc: Pcs, frame: 0..MaxFrames, polls: 0..MaxPolls,
                   answer: {"none", "down", "timeout", "refused", "done", "ready"}]
    /\ machine \in [exists: BOOLEAN, on: BOOLEAN, boot: 0..MaxBoots, beat: 0..MaxBoots, fresh: BOOLEAN]

\* A machine that runs was booted, and a fresh heartbeat is one of a boot.
MachineInv ==
    /\ machine.on => machine.boot > 0
    /\ machine.fresh => machine.beat > 0

\* The first n of the frames fs, those of d broken, were taken, of which all are answered, but one for
\* which a tool is waited and one that ended the session; st is the text of the others.
Place(fs, d, st, sv, o, n) ==
    /\ Rests(st, fs, n)
    /\ sv.pc # "ended" => \A k \in 1..n : fs[k].line # "null"
    /\ sv.pc = "idle" => o = Answered(fs, d)[n]
    /\ sv.pc # "idle" => n # 0 /\ o = Answered(fs, d)[n - 1]
    /\ sv.pc = "ended" => fs[n].line = "null"
    /\ sv.pc \in {"calling", "polling"} =>
          sv.frame = n /\ fs[n].line = "message" /\ ~AtFault(fs[n])

\* The first n frames were taken.
Progress(n) == Place(sent, broken, buffer \o wire, server, out, n)

\* The inductive invariant.
McpInv == Typed /\ MachineInv /\ \E n \in 0..Len(sent) : Progress(n)

\* The successor of a step has made some progress.
LEMMA PlaceNext ==
    ASSUME NEW n \in 0..Len(sent'), Place(sent', broken', buffer' \o wire', server', out', n)
    PROVE  (\E k \in 0..Len(sent) : Progress(k))'
<1>1. Progress(n)'
    BY DEF Progress, Place, Rests, Text, Newline, Answered, UpTo, OwedIn, DueIn, AtFault
<1> QED BY <1>1

\* The frames that are sent are frames.
LEMMA FramesTyped ==
    ASSUME NEW fs \in Seq(Frames)
    PROVE  fs \in Seq(Frame) /\ Len(fs) \in Nat /\ \A i \in 1..Len(fs) : fs[i] \in Frame
<1>1. fs \in Seq(Frame)
    BY McpConstants, SeqMonotonic
<1> QED BY <1>1, LenProperties, ElementOfSeq

\* A server that waits is a server.
LEMMA IdleTyped ==
    Idle \in [pc: Pcs, frame: 0..MaxFrames, polls: 0..MaxPolls,
              answer: {"none", "down", "timeout", "refused", "done", "ready"}]
BY McpConstants DEF Idle, Pcs

-----------------------------------------------------------------------------
(* The client, and the reading of its stream *)

\* A frame that is sent lengthens the text that follows what was taken.
LEMMA ClientKeeps ==
    ASSUME McpInv, NEW frame \in Frames, ClientSends(frame)
    PROVE  McpInv'
<1> DEFINE fs == sent
           d == broken
           gs == Append(sent, frame)
           T == Text(Len(sent) + 1, frame)
<1>1. /\ sent' = gs /\ wire' = wire \o T /\ UNCHANGED <<buffer, broken, server, out, machine>>
      /\ Len(sent) < MaxFrames
    BY DEF ClientSends
<1>2. /\ fs \in Seq(Frames) /\ fs \in Seq(Frame) /\ Len(fs) \in Nat /\ frame \in Frame
      /\ gs \in Seq(Frames) /\ gs \in Seq(Frame) /\ Len(gs) = Len(fs) + 1 /\ \A i \in 1..Len(fs) : gs[i] = fs[i]
    BY FramesTyped, AppendProperties, McpConstants DEF McpInv, Typed
<1>3. T \in Seq(Piece) /\ wire \in Seq(Piece) /\ buffer \in Seq(Piece)
    <2>1. Len(sent) + 1 \in Nat
        BY <1>2
    <2> QED BY <2>1, TextTyped DEF McpInv, Typed
<1>4. /\ wire' \in Seq(Piece) /\ buffer \o wire \in Seq(Piece)
      /\ buffer' \o wire' = (buffer \o wire) \o T
    BY <1>1, <1>3, PiecesJoin
<1>5. Typed' /\ MachineInv'
    BY <1>1, <1>2, <1>4, McpConstants DEF McpInv, Typed, MachineInv
<1>6. PICK n \in 0..Len(fs) : Place(fs, d, buffer \o wire, server, out, n)
    BY DEF McpInv, Progress
<1>7. Rests((buffer \o wire) \o T, gs, n)
    BY <1>2, <1>4, <1>6, RestsMore DEF Place
<1>8. Answered(gs, d)[n] = Answered(fs, d)[n] /\ (n # 0 => Answered(gs, d)[n - 1] = Answered(fs, d)[n - 1])
    <2>1. Agree(fs, d, gs, d, n) /\ n \in Nat
        BY <1>2 DEF Agree
    <2>2. n # 0 => Agree(fs, d, gs, d, n - 1) /\ n - 1 \in Nat
        BY <1>2 DEF Agree
    <2> HIDE DEF gs, d, fs
    <2>3. Answered(gs, d)[n] = Answered(fs, d)[n]
        BY <1>2, <2>1, AnsweredOfFirst
    <2>4. n # 0 => Answered(gs, d)[n - 1] = Answered(fs, d)[n - 1]
        BY <1>2, <2>2, AnsweredOfFirst
    <2> QED BY <2>3, <2>4
<1>9. (\A k \in 1..n : gs[k] = fs[k]) /\ (n # 0 => gs[n] = fs[n]) /\ n \in 0..Len(gs)
    BY <1>2
<1> HIDE DEF gs, T
<1>10. Place(gs, d, (buffer \o wire) \o T, server, out, n)
    BY <1>6, <1>7, <1>8, <1>9 DEF Place
<1>11. Place(sent', broken', buffer' \o wire', server', out', n) /\ n \in 0..Len(sent')
    BY <1>1, <1>4, <1>9, <1>10
<1> QED BY <1>5, <1>11, PlaceNext DEF McpInv

\* A chunk only moves text from the wire to the buffer, and breaks at most an id of a
\* frame that has not been taken (stdio.js:20-29).
LEMMA ReadsKeeps ==
    ASSUME McpInv, NEW n \in 1..Len(wire), Reads(n)
    PROVE  McpInv'
<1> DEFINE read == SubSeq(wire, 1, n)
           left == SubSeq(wire, n + 1, Len(wire))
<1>1. /\ buffer' = buffer \o read /\ wire' = left /\ UNCHANGED <<sent, server, out, machine>>
      /\ broken' = broken \cup Breaks(read) /\ server.pc = "idle"
    BY DEF Reads, Received
<1>2. /\ wire \in Seq(Piece) /\ buffer \in Seq(Piece) /\ Len(wire) \in Nat
    BY LenProperties DEF McpInv, Typed
<1>3. read \in Seq(Piece) /\ left \in Seq(Piece)
    <2>1. \A i \in 1..Len(wire) : wire[i] \in Piece
        BY <1>2, ElementOfSeq
    <2>2. \A i \in 1..n : wire[i] \in Piece
        BY <1>2, <2>1
    <2>3. \A i \in n+1..Len(wire) : wire[i] \in Piece
        BY <1>2, <2>1
    <2>4. n \in Int /\ n + 1 \in Int /\ Len(wire) \in Int /\ 1 \in Int
        BY <1>2
    <2> QED BY <2>2, <2>3, <2>4, SubSeqProperties
<1>30. Len(read) = n /\ read[n] = wire[n]
    <2>1. \A i \in 1..n : wire[i] \in Piece
        <3>1. \A i \in 1..Len(wire) : wire[i] \in Piece
            BY <1>2, ElementOfSeq
        <3> QED BY <1>2, <3>1
    <2>2. /\ Len(read) = IF 1 <= n THEN n - 1 + 1 ELSE 0
          /\ \A i \in 1..(n - 1 + 1) : read[i] = wire[1 + i - 1]
        BY <2>1, SubSeqProperties
    <2>3. n \in Int /\ 1 <= n /\ n - 1 + 1 = n /\ n \in 1..n /\ 1 + n - 1 = n
        BY <1>2
    <2> HIDE DEF read
    <2> QED BY <2>2, <2>3
<1>4. read \o left = wire
    <2>1. 1 \in 1..Len(wire)+1 /\ n \in 1-1..Len(wire) /\ Len(wire) \in n..Len(wire)
        BY <1>2
    <2>2. read \o left = SubSeq(wire, 1, Len(wire))
        BY <1>2, <2>1, ConcatAdjacentSubSeq
    <2> QED BY <1>2, <2>2, SubSeqFull
<1> HIDE DEF read, left
<1>5. buffer' \in Seq(Piece) /\ wire' \in Seq(Piece) /\ buffer' \o wire' = buffer \o wire
    BY <1>1, <1>2, <1>3, <1>4, PiecesJoin
<1>6. Typed' /\ MachineInv'
    BY <1>1, <1>5 DEF McpInv, Typed, MachineInv, Breaks
<1>7. PICK k \in 0..Len(sent) : Place(sent, broken, buffer \o wire, server, out, k)
    BY DEF McpInv, Progress
<1>8. \A i \in 1..k : i \in broken' <=> i \in broken
    <2> SUFFICES ASSUME NEW i \in 1..k, i \in Breaks(read) PROVE FALSE
        BY <1>1
    <2>1. /\ Len(read) = n /\ read[n] = wire[n] /\ n \in 1..Len(wire)
        BY <1>30
    <2>2. wire[n].frame = i /\ wire[n].piece = 1
        BY <2>1 DEF Breaks
    <2> DEFINE st == buffer \o wire
               e == Len(buffer) + n
    <2>3. st \in Seq(Piece) /\ e \in 1..Len(st) /\ st[e] = wire[n]
        <3>1. /\ st \in Seq(Piece) /\ Len(st) = Len(buffer) + Len(wire) /\ Len(buffer) \in Nat
              /\ \A j \in 1..(Len(buffer) + Len(wire)) :
                    st[j] = IF j <= Len(buffer) THEN buffer[j] ELSE wire[j - Len(buffer)]
            BY <1>2, ConcatProperties, LenProperties
        <3> HIDE DEF st
        <3>2. e \in 1..(Len(buffer) + Len(wire)) /\ ~(e <= Len(buffer)) /\ e - Len(buffer) = n
            BY <1>2, <3>1
        <3> HIDE DEF e
        <3> QED BY <3>1, <3>2
    <2>4. sent \in Seq(Frame) /\ Rests(st, sent, k)
        BY <1>7, FramesTyped DEF Place, McpInv, Typed
    <2> HIDE DEF st, e
    <2>5. st[e] = Newline \/ st[e].frame > k
        BY <1>7, <2>3, <2>4, RestsLater
    <2> QED BY <2>2, <2>3, <2>5 DEF Newline
<1>9. Answered(sent, broken')[k] = Answered(sent, broken)[k]
    <2>1. sent \in Seq(Frame) /\ Len(sent) \in Nat
        BY FramesTyped DEF McpInv, Typed
    <2>2. Agree(sent, broken, sent, broken', k) /\ k \in Nat
        BY <1>8, <2>1 DEF Agree
    <2> QED BY <2>1, <2>2, AnsweredOfFirst
<1>10. Place(sent', broken', buffer' \o wire', server', out', k) /\ k \in 0..Len(sent')
    BY <1>1, <1>5, <1>7, <1>9 DEF Place
<1> QED BY <1>6, <1>10, PlaceNext DEF McpInv

\* A line that holds both pieces of a frame.
LEMMA ParsedIs ==
    ASSUME NEW i \in Nat, NEW line, Len(line) = 2,
           line[1] = [frame |-> i, piece |-> 1], line[2] = [frame |-> i, piece |-> 2]
    PROVE  line # <<>> /\ Parsed(line) = IF sent[i].line = "garbage" THEN 0 ELSE i
<1>1. line[1].frame = i /\ line[1].piece = 1 /\ line[2].frame = i /\ line[2].piece = 2
    OBVIOUS
<1>2. Len(<<>>) = 0
    OBVIOUS
<1> QED BY <1>1, <1>2 DEF Parsed

-----------------------------------------------------------------------------
(* Serving *)

\* The line that is cut off at the first newline is that of the next frame
\* (stdio.js:24-28).
LEMMA FirstLine ==
    ASSUME Typed, HasLine, NEW i \in 1..Len(sent), NEW rest \in Seq(Piece),
           buffer \o wire = Text(i, sent[i]) \o rest
    PROVE  LET cut  == SelectInSeq(buffer, LAMBDA s : s = Newline)
               line == SubSeq(buffer, 1, cut - 1)
               left == SubSeq(buffer, cut + 1, Len(buffer))
           IN  /\ left \in Seq(Piece) /\ left \o wire = rest
               /\ sent[i].line = "blank" => line = <<>>
               /\ sent[i].line # "blank" =>
                     line # <<>> /\ Parsed(line) = IF sent[i].line = "garbage" THEN 0 ELSE i
<1> DEFINE t == Text(i, sent[i])
           cut == SelectInSeq(buffer, LAMBDA s : s = Newline)
           line == SubSeq(buffer, 1, cut - 1)
           left == SubSeq(buffer, cut + 1, Len(buffer))
           p == [frame |-> i, piece |-> 1]
           q == [frame |-> i, piece |-> 2]
<1>1. /\ buffer \in Seq(Piece) /\ wire \in Seq(Piece) /\ Len(buffer) \in Nat /\ i \in Nat
    BY FramesTyped, LenProperties DEF Typed
<1>10. Newlines(buffer) # {}
    BY DEF HasLine, Newlines
<1>2. IsLine(t, Len(t))
    BY <1>1, TextIs DEF IsLine
<1>3. /\ sent[i].line = "blank" => Len(t) = 1
      /\ sent[i].line # "blank" => Len(t) = 3 /\ t[1] = p /\ t[2] = q
    BY <1>1, TextIs
<1>30. buffer \o wire = t \o rest
    OBVIOUS
<1> HIDE DEF t
<1>31. Cut(buffer, wire, t, Len(t), rest)
    BY <1>1, <1>2, <1>10, <1>30, LineIs
<1>32. cut = Min(Newlines(buffer))
    BY <1>10 DEF SelectInSeq, Newlines
<1> HIDE DEF cut, left
<1>33. cut = Len(t) /\ cut \in 1..Len(buffer) /\ \A k \in 1..cut : buffer[k] = t[k]
    BY <1>31, <1>32 DEF Cut
<1>34. left \in Seq(Piece) /\ left \o wire = rest
    BY <1>31, <1>33 DEF Cut, left
<1>4. CASE sent[i].line = "blank"
    <2>1. cut - 1 = 0
        BY <1>3, <1>33, <1>4
    <2>2. line = <<>>
        BY <2>1, SubSeqEmpty
    <2> QED BY <1>34, <1>4, <2>2 DEF cut, left
<1>5. CASE sent[i].line # "blank"
    <2>1. cut - 1 = 2 /\ 1 \in 1..cut /\ 2 \in 1..cut
        BY <1>3, <1>33, <1>5
    <2>2. buffer[1] = p /\ buffer[2] = q
        BY <1>3, <1>33, <1>5, <2>1
    <2>3. p \in Piece /\ q \in Piece
        BY <1>1 DEF Piece
    <2> HIDE DEF p, q
    <2>4. \A k \in 1..2 : buffer[k] \in Piece
        <3>1. \A k \in 1..2 : k = 1 \/ k = 2
            OBVIOUS
        <3> QED BY <2>2, <2>3, <3>1
    <2>5. Len(line) = 2 /\ line[1] = p /\ line[2] = q
        <3>1. line = SubSeq(buffer, 1, 2)
            BY <2>1
        <3>2. /\ Len(SubSeq(buffer, 1, 2)) = IF 1 <= 2 THEN 2 - 1 + 1 ELSE 0
              /\ \A k \in 1..(2 - 1 + 1) : SubSeq(buffer, 1, 2)[k] = buffer[1 + k - 1]
            BY <2>4, SubSeqProperties
        <3> HIDE DEF line
        <3> QED BY <2>2, <3>1, <3>2
    <2> HIDE DEF line
    <2>6. line # <<>> /\ Parsed(line) = IF sent[i].line = "garbage" THEN 0 ELSE i
        BY <1>1, <2>5, ParsedIs DEF p, q
    <2> QED BY <1>34, <1>5, <2>6 DEF line, cut, left
<1> QED BY <1>4, <1>5

\* What the frames before have, and the next is owed.
LEMMA NextAnswer ==
    ASSUME NEW fs \in Seq(Frame), NEW d, NEW i \in 1..Len(fs), \A k \in 1..i-1 : fs[k].line # "null"
    PROVE  /\ fs[i].line = "blank" => Answered(fs, d)[i] = Answered(fs, d)[i - 1]
           /\ fs[i].line = "garbage" => Answered(fs, d)[i] = Append(Answered(fs, d)[i - 1], <<0, "error">>)
           /\ fs[i].line = "message" /\ ~fs[i].id => Answered(fs, d)[i] = Answered(fs, d)[i - 1]
           /\ fs[i].line = "message" /\ fs[i].id =>
                 Answered(fs, d)[i] = Append(Answered(fs, d)[i - 1],
                                          <<IF i \in d THEN MaxFrames + i ELSE i,
                                            IF AtFault(fs[i]) THEN "error" ELSE "result">>)
<1>1. Answered(fs, d)[i] = IF OwedIn(fs, i) THEN Append(Answered(fs, d)[i - 1], DueIn(fs, d, i))
                        ELSE Answered(fs, d)[i - 1]
    BY AnsweredIs
<1>2. Len(fs) \in Nat
    BY LenProperties
<1>3. \A k \in 1..i : k = i \/ k \in 1..i-1
    BY <1>2
<1>4. OwedIn(fs, i) <=> fs[i].line = "garbage" \/ (fs[i].line = "message" /\ fs[i].id)
    BY <1>3 DEF OwedIn
<1> QED BY <1>1, <1>4 DEF DueIn

\* The line taken is that of frame n + 1, and gets what that frame is owed, now or
\* after a tool (stdio.js:31-63).
LEMMA TakesLineKeeps ==
    ASSUME McpInv, TakesLine
    PROVE  McpInv'
<1> DEFINE fs == sent
           d == broken
           cut == SelectInSeq(buffer, LAMBDA s : s = Newline)
           line == SubSeq(buffer, 1, cut - 1)
           left == SubSeq(buffer, cut + 1, Len(buffer))
           j == Parsed(line)
<1>1. /\ server.pc = "idle" /\ HasLine /\ buffer' = left /\ UNCHANGED <<sent, wire, broken, machine>>
      /\ \/ line = <<>> /\ UNCHANGED <<server, out>>
         \/ line # <<>> /\ j = 0 /\ Answers(0, "error") /\ UNCHANGED server
         \/ j # 0 /\ fs[j].line = "null" /\ server' = [Idle EXCEPT !.pc = "ended"] /\ UNCHANGED out
         \/ j # 0 /\ fs[j].line = "message" /\ Served(j, fs[j])
    BY DEF TakesLine
<1> HIDE DEF cut, line, left, j
<1>2. PICK n \in 0..Len(fs) : Place(fs, d, buffer \o wire, server, out, n)
    BY DEF McpInv, Progress
<1>3. /\ fs \in Seq(Frames) /\ fs \in Seq(Frame) /\ Len(fs) \in Nat /\ Len(fs) <= MaxFrames
      /\ \A i \in 1..Len(fs) : fs[i] \in Frame
      /\ buffer \in Seq(Piece) /\ wire \in Seq(Piece) /\ buffer \o wire \in Seq(Piece)
    BY FramesTyped, ConcatProperties DEF McpInv, Typed
<1>4. n # Len(fs)
    <2> SUFFICES ASSUME n = Len(fs) PROVE FALSE
        OBVIOUS
    <2>1. buffer \o wire = <<>>
        BY <1>2, <1>3, RestsNone DEF Place
    <2>2. buffer = <<>>
        BY <1>3, <2>1, ConcatEqualIffEmpty
    <2>3. Len(buffer) = 0
        BY <2>2
    <2> QED BY <1>1, <2>3 DEF HasLine
<1> DEFINE i == n + 1
<1>5. i \in 1..Len(fs) /\ i \in Nat /\ i # 0 /\ i - 1 = n /\ i \in 0..MaxFrames /\ fs[i] \in Frame
    BY <1>3, <1>4, McpConstants
<1>6. PICK rest \in Seq(Piece) : buffer \o wire = Text(i, fs[i]) \o rest /\ Rests(rest, fs, i)
    BY <1>2, <1>3, <1>4, RestsNext DEF Place
<1> HIDE DEF i
<1>7. /\ left \in Seq(Piece) /\ left \o wire = rest
      /\ fs[i].line = "blank" => line = <<>>
      /\ fs[i].line # "blank" => line # <<>> /\ j = IF fs[i].line = "garbage" THEN 0 ELSE i
    BY <1>1, <1>5, <1>6, FirstLine DEF McpInv, left, line, j, cut
<1>8. /\ out = Answered(fs, d)[i - 1] /\ \A k \in 1..i-1 : fs[k].line # "null"
    BY <1>1, <1>2, <1>5 DEF Place
<1>9. fs[i].line \in {"message", "garbage", "null", "blank"}
    BY <1>5 DEF Frame
<1>10. fs[i].line # "null" => \A k \in 1..i : fs[k].line # "null"
    <2>1. \A k \in 1..i : k = i \/ k \in 1..i-1
        BY <1>5
    <2> QED BY <1>8, <2>1
<1>11. Rests(buffer' \o wire', sent', i) /\ i \in 0..Len(sent')
    BY <1>1, <1>5, <1>6, <1>7
\* It is enough to say how the frame was answered.
<1>12. ASSUME server' \in [pc: Pcs, frame: 0..MaxFrames, polls: 0..MaxPolls,
                          answer: {"none", "down", "timeout", "refused", "done", "ready"}],
              \/ server'.pc = "idle" /\ fs[i].line # "null" /\ out' = Answered(fs, d)[i]
              \/ server'.pc = "ended" /\ fs[i].line = "null" /\ out' = out
              \/ /\ server'.pc = "calling" /\ server'.frame = i /\ out' = out
                 /\ fs[i].line = "message" /\ ~AtFault(fs[i])
       PROVE  McpInv'
    <2>1. Typed' /\ MachineInv'
        BY <1>1, <1>7, <1>12 DEF McpInv, Typed, MachineInv
    <2>2. Place(sent', broken', buffer' \o wire', server', out', i)
        BY <1>1, <1>5, <1>8, <1>10, <1>11, <1>12 DEF Place
    <2> QED BY <1>11, <2>1, <2>2, PlaceNext DEF McpInv
<1>13. server \in [pc: Pcs, frame: 0..MaxFrames, polls: 0..MaxPolls,
                   answer: {"none", "down", "timeout", "refused", "done", "ready"}]
    BY DEF McpInv, Typed
<1>14. CASE fs[i].line = "blank"
    <2>1. j = 0 /\ line = <<>>
        <3>1. Parsed(<<>>) = 0
            BY DEF Parsed
        <3> QED BY <1>7, <1>14, <3>1 DEF j
    <2>2. UNCHANGED <<server, out>>
        BY <1>1, <2>1
    <2>3. Answered(fs, d)[i] = Answered(fs, d)[i - 1]
        BY <1>3, <1>5, <1>8, <1>14, NextAnswer
    <2> QED BY <1>1, <1>8, <1>12, <1>13, <1>14, <2>2, <2>3
<1>15. CASE fs[i].line = "garbage"
    <2>1. Answers(0, "error") /\ UNCHANGED server
        BY <1>1, <1>7, <1>15
    <2>2. out' = Answered(fs, d)[i]
        BY <1>3, <1>5, <1>8, <1>15, <2>1, NextAnswer DEF Answers
    <2> QED BY <1>1, <1>12, <1>13, <1>15, <2>1, <2>2
<1>16. CASE fs[i].line = "null"
    <2>1. server' = [Idle EXCEPT !.pc = "ended"] /\ UNCHANGED out
        BY <1>1, <1>5, <1>7, <1>16
    <2>2. /\ server'.pc = "ended"
          /\ server' \in [pc: Pcs, frame: 0..MaxFrames, polls: 0..MaxPolls,
                          answer: {"none", "down", "timeout", "refused", "done", "ready"}]
        BY <2>1, IdleTyped DEF Pcs
    <2> QED BY <1>12, <1>16, <2>1, <2>2
<1>17. CASE fs[i].line = "message"
    <2>1. Served(i, fs[i])
        BY <1>1, <1>5, <1>7, <1>17
    <2>2. ASSUME NEW class \in {"result", "error"}, Reply(i, class), server' = Idle,
                 class = (IF AtFault(fs[i]) THEN "error" ELSE "result")
          PROVE  McpInv'
        <3>1. out' = Answered(fs, d)[i]
            <4>1. CASE fs[i].id
                BY <1>3, <1>5, <1>8, <1>17, <2>2, <4>1, NextAnswer DEF Reply, Answers, IdOf
            <4>2. CASE ~fs[i].id
                BY <1>3, <1>5, <1>8, <1>17, <2>2, <4>2, NextAnswer DEF Reply
            <4> QED BY <4>1, <4>2
        <3>2. server'.pc = "idle"
            BY <2>2 DEF Idle
        <3> QED BY <1>12, <1>17, <2>2, <3>1, <3>2, IdleTyped
    <2>3. CASE fs[i].method \in Methods \ {"tools/call", "unknown"} /\ Reply(i, "result") /\ server' = Idle
        <3>1. ~AtFault(fs[i])
            BY <2>3 DEF AtFault
        <3> QED BY <2>2, <2>3, <3>1
    <2>4. CASE AtFault(fs[i]) /\ Reply(i, "error") /\ server' = Idle
        BY <2>2, <2>4
    <2>5. CASE /\ fs[i].method = "tools/call" /\ ~AtFault(fs[i])
               /\ server' = [Idle EXCEPT !.pc = "calling", !.frame = i] /\ UNCHANGED out
        <3>1. /\ server'.pc = "calling" /\ server'.frame = i
              /\ server' \in [pc: Pcs, frame: 0..MaxFrames, polls: 0..MaxPolls,
                              answer: {"none", "down", "timeout", "refused", "done", "ready"}]
            <4>1. Idle.pc = "idle" /\ Idle.frame = 0
                BY DEF Idle
                    <4> QED BY <1>5, <2>5, <4>1, IdleTyped DEF Pcs
        <3> QED BY <1>12, <1>17, <2>5, <3>1
    <2> QED BY <2>1, <2>3, <2>4, <2>5 DEF Served
<1> QED BY <1>9, <1>14, <1>15, <1>16, <1>17

-----------------------------------------------------------------------------
(* Tools and the machine *)

\* The type of server, as in McpTypeOK.
ServerType == [pc: Pcs, frame: 0..MaxFrames, polls: 0..MaxPolls,
               answer: {"none", "down", "timeout", "refused", "done", "ready"}]

\* The type of machine, as in McpTypeOK.
MachineType == [exists: BOOLEAN, on: BOOLEAN, boot: 0..MaxBoots, beat: 0..MaxBoots, fresh: BOOLEAN]

\* The machine is well typed and consistent.
MachineOK == machine \in MachineType /\ MachineInv

\* A step that leaves the machine alone.
LEMMA SameMachine == ASSUME McpInv, UNCHANGED machine PROVE MachineOK'
BY DEF McpInv, Typed, MachineType, MachineOK, MachineInv

\* A step that leaves the stream and the answers alone.
LEMMA AsideSteps ==
    ASSUME McpInv, UNCHANGED <<input, out>>, MachineOK', server' \in ServerType,
           \/ server' = server
           \/ /\ server.pc \in {"calling", "polling"} /\ server'.pc \in {"calling", "polling"}
              /\ server'.frame = server.frame
    PROVE  McpInv'
<1>1. Typed' /\ MachineInv'
    BY DEF McpInv, Typed, ServerType, MachineOK, MachineType, input
<1>2. PICK n \in 0..Len(sent) : Place(sent, broken, buffer \o wire, server, out, n)
    BY DEF McpInv, Progress
<1>3. Place(sent', broken', buffer' \o wire', server', out', n) /\ n \in 0..Len(sent')
    BY <1>2 DEF Place, input
<1> QED BY <1>1, <1>3, PlaceNext DEF McpInv

\* The step that answers a tool call answers the frame it was made for.
LEMMA AnswerSteps ==
    ASSUME McpInv, server.pc \in {"calling", "polling"}, UNCHANGED input, MachineOK',
           NEW answer \in {"down", "timeout", "refused", "done", "ready"}, AnswersWith(answer)
    PROVE  McpInv' /\ server'.pc = "idle" /\ server'.answer = answer
<1>1. server' = [Idle EXCEPT !.answer = answer] /\ Reply(server.frame, "result")
    BY DEF AnswersWith
<1>2. server' \in ServerType /\ server'.pc = "idle" /\ server'.answer = answer
    <2>1. Idle.pc = "idle" /\ Idle \in ServerType
        BY IdleTyped DEF Idle, ServerType
    <2> QED BY <1>1, <2>1 DEF ServerType
<1>3. Typed' /\ MachineInv'
    BY <1>2 DEF McpInv, Typed, ServerType, MachineOK, MachineType, input
<1>4. PICK n \in 0..Len(sent) : Place(sent, broken, buffer \o wire, server, out, n)
    BY DEF McpInv, Progress
<1>5. /\ Len(sent) \in Nat /\ sent \in Seq(Frame) /\ n \in 1..Len(sent)
      /\ server.frame = n /\ sent[n].line = "message" /\ ~AtFault(sent[n])
      /\ out = Answered(sent, broken)[n - 1] /\ \A k \in 1..n : sent[k].line # "null"
    BY <1>4, FramesTyped DEF Place, McpInv, Typed
<1>6. \A k \in 1..n-1 : sent[k].line # "null"
    BY <1>5
<1>7. out' = Answered(sent, broken)[n]
    <2>1. CASE sent[n].id
        <3>1. out' = Append(Answered(sent, broken)[n - 1], <<IdOf(n), "result">>)
            BY <1>1, <1>5, <2>1 DEF Reply, Answers
        <3>2. Answered(sent, broken)[n] = Append(Answered(sent, broken)[n - 1], <<IdOf(n), "result">>)
            <4>0. /\ sent \in Seq(Frame) /\ n \in 1..Len(sent)
                  /\ sent[n].line = "message" /\ sent[n].id
                BY <1>5, <2>1
            <4>1. Answered(sent, broken)[n] =
                      Append(Answered(sent, broken)[n - 1],
                             <<IF n \in broken THEN MaxFrames + n ELSE n, IF AtFault(sent[n]) THEN "error" ELSE "result">>)
                BY <4>0, <1>6, NextAnswer
            <4>2. (IF AtFault(sent[n]) THEN "error" ELSE "result") = "result"
                BY <1>5
            <4> QED BY <4>1, <4>2 DEF IdOf
        <3> QED BY <3>1, <3>2
    <2>2. CASE ~sent[n].id
        <3>1. Answered(sent, broken)[n] = Answered(sent, broken)[n - 1]
            BY <1>5, <1>6, <2>2, NextAnswer
        <3> QED BY <1>1, <1>5, <2>2, <3>1 DEF Reply
    <2> QED BY <2>1, <2>2
<1>8. Place(sent', broken', buffer' \o wire', server', out', n) /\ n \in 0..Len(sent')
    BY <1>2, <1>4, <1>5, <1>7 DEF Place, input
<1> QED BY <1>2, <1>3, <1>8, PlaceNext DEF McpInv

\* What calls, other clients and heartbeats make of a machine.
LEMMA MachineSteps ==
    ASSUME MachineOK,
           \/ \E m \in MachineType : /\ m.fresh => m.beat > 0
                                     /\ m.on => m.boot > 0
                                     /\ machine' = On(m) /\ machine'.boot <= MaxBoots
           \/ machine' = Off(machine)
           \/ machine' = NoMachine
           \/ machine.on /\ machine' = [machine EXCEPT !.beat = machine.boot, !.fresh = TRUE]
           \/ machine' = [machine EXCEPT !.fresh = FALSE]
    PROVE  MachineOK'
<1>0. MaxBoots \in Nat
    BY McpConstants
<1>1. CASE \E m \in MachineType : /\ m.fresh => m.beat > 0
                                  /\ m.on => m.boot > 0
                                  /\ machine' = On(m) /\ machine'.boot <= MaxBoots
    <2>1. PICK m \in MachineType : /\ m.fresh => m.beat > 0
                                   /\ m.on => m.boot > 0
                                   /\ machine' = On(m) /\ machine'.boot <= MaxBoots
        BY <1>1
    <2>2. CASE m.on
        BY <2>1, <2>2 DEF On, MachineOK, MachineInv
    <2>3. CASE ~m.on
        <3>1. machine' = [m EXCEPT !.on = TRUE, !.boot = @ + 1]
            BY <2>1, <2>3 DEF On
        <3>2. /\ machine'.exists = m.exists /\ machine'.on = TRUE /\ machine'.boot = m.boot + 1
              /\ machine'.beat = m.beat /\ machine'.fresh = m.fresh
            BY <2>1, <3>1 DEF MachineType
        <3>3. m.boot + 1 \in 0..MaxBoots /\ m.boot + 1 > 0
            BY <1>0, <2>1, <3>2 DEF MachineType
        <3> QED BY <2>1, <3>1, <3>2, <3>3 DEF MachineOK, MachineInv, MachineType
    <2> QED BY <2>2, <2>3
<1>2. CASE machine' = Off(machine)
    BY <1>2 DEF Off, MachineOK, MachineInv, MachineType
<1>3. CASE machine' = NoMachine
    BY <1>0, <1>3 DEF NoMachine, MachineOK, MachineInv, MachineType
<1>4. CASE machine.on /\ machine' = [machine EXCEPT !.beat = machine.boot, !.fresh = TRUE]
    BY <1>4 DEF MachineOK, MachineInv, MachineType
<1>5. CASE machine' = [machine EXCEPT !.fresh = FALSE]
    BY <1>5 DEF MachineOK, MachineInv, MachineType
<1> QED BY <1>1, <1>2, <1>3, <1>4, <1>5

\* The parts of the invariant that are about the machine and the server.
LEMMA NowTyped == ASSUME McpInv PROVE MachineOK /\ server \in ServerType
BY DEF McpInv, Typed, MachineOK, MachineType, ServerType

\* Calls and polls: what is more, "ready" is only said with a heartbeat.
LEMMA ToolKeeps ==
    ASSUME McpInv,
           \/ EngineIsDown \/ CallTimesOut \/ Refused \/ EngineBootsMachine \/ EngineStopsMachine
           \/ EngineLists \/ GuestRuns \/ Poll \/ Deadline
    PROVE  /\ McpInv'
           /\ server'.answer = "ready" /\ server'.pc = "idle" => machine.beat > 0
<1>0. MachineOK /\ server \in ServerType
    BY NowTyped
<1>1. ASSUME server.pc \in {"calling", "polling"}, UNCHANGED <<input, machine>>,
             NEW answer \in {"down", "timeout", "refused", "done"}, AnswersWith(answer)
      PROVE  McpInv' /\ ~(server'.answer = "ready" /\ server'.pc = "idle")
    <2>1. MachineOK'
        BY <1>1, SameMachine
    <2> QED BY <1>1, <2>1, AnswerSteps
<1>2. CASE EngineIsDown
    BY <1>1, <1>2 DEF EngineIsDown
<1>3. CASE CallTimesOut
    BY <1>1, <1>3 DEF CallTimesOut
<1>4. CASE Refused
    BY <1>1, <1>4 DEF Refused
<1>5. CASE EngineLists
    BY <1>1, <1>5 DEF EngineLists
<1>6. CASE GuestRuns
    BY <1>1, <1>6 DEF GuestRuns
<1>7. CASE Deadline
    BY <1>1, <1>7 DEF Deadline
<1>8. CASE EngineStopsMachine
    <2>1. /\ server.pc = "calling" /\ UNCHANGED input /\ AnswersWith("done")
          /\ machine' = Off(machine) \/ machine' = NoMachine
        BY <1>8 DEF EngineStopsMachine
    <2>2. MachineOK'
        BY <1>0, <2>1, MachineSteps
    <2>3. McpInv' /\ server'.answer = "done"
        BY <2>1, <2>2, AnswerSteps
    <2> QED BY <2>3
<1>9. CASE EngineBootsMachine
    <2> DEFINE m == [machine EXCEPT !.exists = TRUE]
    <2>1. /\ server.pc = "calling" /\ server' = [server EXCEPT !.pc = "polling"]
          /\ machine' = On(m) /\ machine'.boot <= MaxBoots /\ UNCHANGED <<input, out>>
        BY <1>9 DEF EngineBootsMachine
    <2>2. m \in MachineType /\ (m.fresh => m.beat > 0) /\ (m.on => m.boot > 0)
        BY <1>0 DEF MachineOK, MachineInv, MachineType
    <2> HIDE DEF m
    <2>3. MachineOK'
        BY <1>0, <2>1, <2>2, MachineSteps
    <2>4. /\ server' \in ServerType /\ server'.pc = "polling" /\ server'.frame = server.frame
        BY <1>0, <2>1 DEF ServerType, Pcs
    <2>5. McpInv'
        BY <2>1, <2>3, <2>4, AsideSteps
    <2> QED BY <2>4, <2>5
<1>10. CASE Poll
    <2>1. /\ server.pc = "polling" /\ ~Overdue /\ UNCHANGED <<input, machine>>
        BY <1>10 DEF Poll
    <2>2. MachineOK'
        BY <2>1, SameMachine
    <2>3. PICK status \in IF machine.exists THEN Presented ELSE {"gone"} :
             \/ Usable(status) /\ AnswersWith("ready")
             \/ status \in {"stopped", "gone"} /\ AnswersWith("refused")
             \/ server' = [server EXCEPT !.polls = @ + 1] /\ UNCHANGED out
        BY <1>10 DEF Poll
    <2>4. CASE Usable(status) /\ AnswersWith("ready")
        <3>1. machine.fresh
            BY <2>3, <2>4 DEF Usable, Presented, Reported
        <3>2. machine.beat > 0
            BY <1>0, <3>1 DEF MachineOK, MachineInv
        <3>3. McpInv'
            BY <2>1, <2>2, <2>4, AnswerSteps
        <3> QED BY <3>2, <3>3
    <2>5. CASE status \in {"stopped", "gone"} /\ AnswersWith("refused")
        BY <1>1, <2>1, <2>5
    <2>6. CASE server' = [server EXCEPT !.polls = @ + 1] /\ UNCHANGED out
        <3>1. server.polls \in 0..MaxPolls /\ ~(server.polls >= MaxPolls) /\ MaxPolls \in Nat
            BY <1>0, <2>1, McpConstants DEF ServerType, Overdue
        <3>2. server.polls + 1 \in 0..MaxPolls
            BY <3>1
        <3>3. /\ server' \in ServerType /\ server'.pc = server.pc /\ server'.frame = server.frame
            BY <1>0, <2>6, <3>2 DEF ServerType
        <3>4. McpInv'
            BY <2>1, <2>2, <2>6, <3>3, AsideSteps
        <3> QED BY <2>1, <3>3, <3>4
    <2> QED BY <2>3, <2>4, <2>5, <2>6
<1> QED BY <1>2, <1>3, <1>4, <1>5, <1>6, <1>7, <1>8, <1>9, <1>10

\* What others and the guest do to the machine leaves the server alone.
LEMMA OthersKeep ==
    ASSUME McpInv, Elsewhere \/ GuestBeats \/ BeatAges \/ UNCHANGED vars
    PROVE  McpInv' /\ UNCHANGED server
<1>0. MachineOK /\ server \in ServerType
    BY NowTyped
<1>1. UNCHANGED <<input, server, out>>
    BY DEF Elsewhere, GuestBeats, BeatAges, vars, input
<1>2. MachineOK'
    <2>1. CASE Elsewhere
        <3>1. machine' \in {Off(machine), On(machine), NoMachine} /\ machine'.boot <= MaxBoots
            BY <2>1 DEF Elsewhere
        <3>2. machine \in MachineType /\ (machine.fresh => machine.beat > 0)
              /\ (machine.on => machine.boot > 0)
            BY <1>0 DEF MachineOK, MachineInv
        <3> QED BY <1>0, <3>1, <3>2, MachineSteps
    <2>2. CASE GuestBeats
        BY <1>0, <2>2, MachineSteps DEF GuestBeats
    <2>3. CASE BeatAges
        BY <1>0, <2>3, MachineSteps DEF BeatAges
    <2>4. CASE UNCHANGED vars
        BY <2>4, SameMachine DEF vars
    <2> QED BY <2>1, <2>2, <2>3, <2>4
<1> QED BY <1>0, <1>1, <1>2, AsideSteps

-----------------------------------------------------------------------------

\* The invariant holds at the start,
LEMMA McpInit == Init => McpInv
<1> SUFFICES ASSUME Init PROVE McpInv
    OBVIOUS
<1>1. /\ sent = <<>> /\ wire = <<>> /\ buffer = <<>> /\ broken = {} /\ out = <<>>
      /\ server = Idle /\ machine = NoMachine
    BY DEF Init
<1>2. Len(<<>>) = 0 /\ <<>> \in Seq(Frames) /\ <<>> \in Seq(Frame) /\ <<>> \in Seq(Piece)
      /\ <<>> \o <<>> = <<>>
    OBVIOUS
<1>3. Typed
    BY <1>1, <1>2, IdleTyped, McpConstants DEF Typed, NoMachine
<1>4. MachineInv
    BY <1>1 DEF MachineInv, NoMachine
<1>5. Place(<<>>, {}, <<>>, Idle, <<>>, 0)
    <2>1. Answered(<<>>, {})[0] = <<>>
        BY <1>2, AnsweredIs
    <2>2. Idle.pc = "idle"
        BY DEF Idle
    <2> QED BY <2>1, <2>2, RestsEmpty DEF Place
<1>6. Progress(0) /\ 0 \in 0..Len(sent)
    BY <1>1, <1>2, <1>5 DEF Progress
<1> QED BY <1>3, <1>4, <1>6 DEF McpInv

\* every step keeps it,
LEMMA McpStep == ASSUME McpInv, [Next]_vars PROVE McpInv'
<1>1. CASE \E frame \in Frames : ClientSends(frame)
    BY <1>1, ClientKeeps
<1>2. CASE \E n \in 1..Len(wire) : Reads(n)
    BY <1>2, ReadsKeeps
<1>3. CASE Serves
    BY <1>3, TakesLineKeeps, ToolKeeps DEF Serves
<1>4. CASE Elsewhere \/ GuestBeats \/ BeatAges \/ UNCHANGED vars
    BY <1>4, OthersKeep
<1> QED BY <1>1, <1>2, <1>3, <1>4 DEF Next

\* and it says that the answers are those owed.
LEMMA McpAnswers == ASSUME McpInv PROVE AnsweredOnceInOrder
<1>1. PICK n \in 0..Len(sent) : Place(sent, broken, buffer \o wire, server, out, n)
    BY DEF McpInv, Progress
<1>2. /\ sent \in Seq(Frame) /\ Len(sent) \in Nat /\ buffer \in Seq(Piece) /\ wire \in Seq(Piece)
      /\ \A i \in 1..Len(sent) : sent[i] \in Frame
      /\ server.pc \in Pcs
    BY FramesTyped DEF McpInv, Typed
<1>3. PICK m \in 0..Len(sent) : /\ out = Answered(sent, broken)[m]
                                /\ server.pc = "idle" => m = n
                                /\ server.pc = "ended" => m = n - 1 /\ n # 0
    <2>1. CASE server.pc = "idle"
        BY <1>1, <2>1 DEF Place
    <2>2. CASE server.pc # "idle"
        <3>1. n # 0 /\ out = Answered(sent, broken)[n - 1]
            BY <1>1, <2>2 DEF Place
        <3>2. n - 1 \in 0..Len(sent)
            BY <1>2, <3>1
        <3> QED BY <2>2, <3>1, <3>2
    <2> QED BY <2>1, <2>2
<1>4. IsPrefix(out, Expected)
    <2>1. Len(sent) \in 0..Len(sent) /\ m \in 0..Len(sent)
        BY <1>2
    <2> QED BY <1>2, <1>3, <2>1, AnsweredGrows, ExpectedIs
<1>5. CASE server.pc = "ended"
    <2>1. m = n - 1 /\ n # 0 /\ sent[n].line = "null"
        BY <1>1, <1>3, <1>5 DEF Place
    <2>2. \A i \in m+1..Len(sent) : ~OwedIn(sent, i)
        <3>1. \A i \in m+1..Len(sent) : n \in 1..i
            BY <1>2, <2>1
        <3> QED BY <2>1, <3>1 DEF OwedIn
    <2>3. Answered(sent, broken)[Len(sent)] = Answered(sent, broken)[m]
        <3>1. Len(sent) \in 0..Len(sent) /\ m \in 0..Len(sent)
            BY <1>2
        <3> QED BY <1>2, <2>2, <3>1, AnsweredStays
    <2> QED BY <1>3, <1>4, <2>3, ExpectedIs DEF AnsweredOnceInOrder
<1>6. CASE server.pc = "idle" /\ wire = <<>> /\ ~HasLine
    <2>1. buffer \o wire = buffer
        BY <1>2, <1>6, ConcatEmptySeq
    <2>2. n = Len(sent)
        <3> SUFFICES ASSUME n # Len(sent) PROVE FALSE
            OBVIOUS
        <3> DEFINE t == Text(n + 1, sent[n + 1])
        <3>0. Rests(buffer, sent, n)
            BY <1>1, <2>1 DEF Place
        <3>1. PICK rest \in Seq(Piece) : buffer = t \o rest
            <4>1. \E rest \in Seq(Piece) : buffer = Text(n + 1, sent[n + 1]) \o rest /\ Rests(rest, sent, n + 1)
                <5>1. sent \in Seq(Frame) /\ buffer \in Seq(Piece) /\ n \in 0..Len(sent) /\ n # Len(sent)
                    BY <1>2
                <5> QED BY <3>0, <5>1, RestsNext
            <4> QED BY <4>1
        <3>2. n + 1 \in Nat
            BY <1>2
        <3>3. t \in Seq(Piece) /\ Len(t) \in Nat \ {0} /\ t[Len(t)] = Newline
            BY <3>2, TextIs
        <3> HIDE DEF t
        <3>4. /\ Len(buffer) = Len(t) + Len(rest) /\ Len(rest) \in Nat
              /\ \A k \in 1..(Len(t) + Len(rest)) : buffer[k] = IF k <= Len(t) THEN t[k] ELSE rest[k - Len(t)]
            BY <3>1, <3>3, ConcatProperties, LenProperties
        <3>5. Len(t) \in 1..(Len(t) + Len(rest)) /\ Len(t) \in 1..Len(buffer)
            BY <3>3, <3>4
        <3>6. buffer[Len(t)] = Newline
            BY <3>3, <3>4, <3>5
        <3> QED BY <1>6, <3>5, <3>6 DEF HasLine
    <2> QED BY <1>3, <1>4, <1>6, <2>2, ExpectedIs DEF AnsweredOnceInOrder
<1>7. CASE ~(server.pc = "ended" \/ (server.pc = "idle" /\ wire = <<>> /\ ~HasLine))
    BY <1>4, <1>7 DEF AnsweredOnceInOrder
<1> QED BY <1>5, <1>6, <1>7

-----------------------------------------------------------------------------

\* Every reachable state of the MCP server is well typed: it never takes a frame
\* that was not sent, nor polls on after its deadline (index.js, engine.js:100-117).
THEOREM McpTypeCorrect == Spec => []McpTypeOK
<1>1. McpInv => McpTypeOK
    BY DEF McpInv, Typed, McpTypeOK
<1> QED BY <1>1, McpInit, McpStep, PTL DEF Spec

\* However a stream of any frames is cut into chunks, every request is answered
\* once and in order, a notification never, a frame that is no JSON once with a
\* null id, and what goes wrong behind a tool is a result (stdio.js:20-63,
\* index.js:28-33).
THEOREM AnswersAreInOrder == Spec => []AnsweredOnceInOrder
<1> QED BY McpAnswers, McpInit, McpStep, PTL DEF Spec

\* No machine is reported ready of which no guest was ever heard (engine.js:101-104).
THEOREM ReadyWasHeard == Spec => ReadyHasReported
<1> DEFINE Ready == server.pc = "polling" /\ server'.answer = "ready" /\ server'.pc = "idle"
<1>1. ASSUME McpInv, [Next]_vars, Ready PROVE machine.beat > 0
    <2>1. CASE Serves
        <3>1. ~TakesLine
            BY <1>1 DEF TakesLine
        <3> QED BY <1>1, <2>1, <3>1, ToolKeeps DEF Serves
    <2>2. CASE ~Serves
        <3>1. UNCHANGED server
            BY <1>1, <2>2, OthersKeep DEF Next, ClientSends, Reads
        <3> QED BY <1>1, <3>1
    <2> QED BY <2>1, <2>2
<1>2. McpInv /\ [Next]_vars => [Ready => machine.beat > 0]_vars
    BY <1>1
<1> QED BY <1>2, McpInit, McpStep, PTL DEF Spec, ReadyHasReported
================================================================================
