----------------------- MODULE SocketConnectionProofs -----------------------
(***************************************************************************)
(* The connection is a line channel, for streams and lines of any length,  *)
(* any cut into chunks and any size of the write buffer.                   *)
(*                                                                         *)
(* The first half is about the reader's algorithm: what SplitLines makes   *)
(* of the parts of a stream is together what Frames, the definition of a   *)
(* stream's lines, makes of the whole (LineSplitting).  Both are reduced   *)
(* to what one more byte does.                                             *)
(***************************************************************************)
EXTENDS SocketConnection, SequenceTheorems, WellFoundedInduction, TLAPS

-----------------------------------------------------------------------------
(***************************************************************************)
(* Numbers and sequences                                                   *)
(***************************************************************************)

\* A nonempty set of natural numbers has a least element: induction, in the form
\* of a least counterexample.
LEMMA LeastNatural ==
    ASSUME NEW T, T \subseteq Nat, T # {}
    PROVE  \E x \in T : \A y \in T : x <= y
<1> DEFINE R == OpToRel(<, Nat)
<1>1. R = {ss \in Nat \X Nat : ss[1] < ss[2]}
  BY Zenon DEF OpToRel
<1>2. \E x \in T : \A y \in T : ~ (<<y, x>> \in R)
  <2>1. IsWellFoundedOn(R, Nat)
    BY NatLessThanWellFounded
  <2> HIDE DEF R
  <2>2. QED
    BY <2>1, WFMin
<1> HIDE DEF R
<1>3. PICK x \in T : \A y \in T : ~ (<<y, x>> \in R)
  BY <1>2
<1>4. \A y, z \in Nat : <<y, z>> \in R <=> y < z
  BY <1>1
<1>5. ASSUME NEW y \in T PROVE x <= y
  <2>1. x \in Nat /\ y \in Nat
    OBVIOUS
  <2>2. ~ (y < x)
    BY <1>3, <1>4, <2>1
  <2>3. QED
    BY <2>1, <2>2
<1>6. QED
  BY <1>5

\* Induction up to a bound, over a set.
LEMMA UpTo ==
    ASSUME NEW n \in Nat, NEW T, 0 \in T, \A k \in 0 .. n - 1 : k \in T => k + 1 \in T
    PROVE  \A k \in 0 .. n : k \in T
<1> DEFINE Bad == {k \in 0 .. n : k \notin T}
<1>1. SUFFICES ASSUME Bad # {} PROVE FALSE
  OBVIOUS
<1>2. PICK k \in Bad : \A m \in Bad : k <= m
  <2>1. Bad \subseteq Nat
    OBVIOUS
  <2> HIDE DEF Bad
  <2> QED
    BY <1>1, <2>1, LeastNatural
<1>3. k # 0 /\ k \in 0 .. n
  OBVIOUS
<1>4. k - 1 \in 0 .. n - 1 /\ (k - 1) + 1 = k /\ ~ (k <= k - 1) /\ k - 1 \in 0 .. n
  BY <1>3
<1>5. k - 1 \in T
  BY <1>2, <1>4
<1>6. (k - 1) + 1 \in T
  BY <1>4, <1>5
<1> QED
  BY <1>2, <1>4, <1>6

LEMMA MinOfNaturals ==
    ASSUME NEW T, T \subseteq Nat, T # {}
    PROVE  Min(T) \in T /\ \A y \in T : Min(T) <= y
  BY LeastNatural DEF Min

LEMMA MaxOfNaturals ==
    ASSUME NEW n \in Nat, NEW T, T \subseteq 0 .. n, T # {}
    PROVE  Max(T) \in T /\ \A y \in T : y <= Max(T)
<1> DEFINE U == {k \in 0 .. n : n - k \in T}
<1>1. U \subseteq Nat /\ U # {}
  <2>1. PICK t \in T : TRUE
    OBVIOUS
  <2>2. n - t \in 0 .. n /\ n - (n - t) = t
    OBVIOUS
  <2> QED
    BY <2>2
<1>2. PICK u \in U : \A v \in U : u <= v
  <2> HIDE DEF U
  <2> QED
    BY <1>1, LeastNatural
<1>3. n - u \in T
  OBVIOUS
<1>4. ASSUME NEW y \in T PROVE n - u >= y
  <2>1. n - y \in U
    <3>1. n - y \in 0 .. n /\ n - (n - y) = y
      OBVIOUS
    <3> QED
      BY <3>1
  <2>2. u <= n - y
    BY <1>2, <2>1
  <2> QED
    BY <2>2
<1>5. \E x \in T : \A y \in T : x >= y
  BY <1>3, <1>4
<1>6. Max(T) \in T /\ \A y \in T : Max(T) >= y
  BY <1>5, Zenon DEF Max
<1> QED
  BY <1>6

\* A prefix that is one element longer.
LEMMA PrefixStep ==
    ASSUME NEW S, NEW s \in Seq(S), NEW j \in 0 .. Len(s) - 1
    PROVE  /\ SubSeq(s, 1, j) \in Seq(S)
           /\ s[j + 1] \in S
           /\ SubSeq(s, 1, j + 1) = Append(SubSeq(s, 1, j), s[j + 1])
<1>1. Len(s) \in Nat /\ j + 1 \in 1 .. Len(s) /\ (j + 1) - 1 = j
  OBVIOUS
<1>2. s[j + 1] \in S
  BY <1>1
<1>3. SubSeq(s, 1, j) \in Seq(S)
  BY SubSeqProperties
<1>4. SubSeq(s, 1, j + 1) = SubSeq(s, 1, j) \o << s[j + 1] >>
  BY <1>1, SubSeqRecursiveSecond
<1>5. Append(SubSeq(s, 1, j), s[j + 1]) = SubSeq(s, 1, j) \o << s[j + 1] >>
  BY <1>2, <1>3, AppendIsConcat
<1> QED
  BY <1>2, <1>3, <1>4, <1>5

\* An element is appended to the second of two parts.
LEMMA ConcatAppend ==
    ASSUME NEW S, NEW s \in Seq(S), NEW t \in Seq(S), NEW e \in S
    PROVE  s \o Append(t, e) = Append(s \o t, e)
<1>1. << e >> \in Seq(S) /\ s \o t \in Seq(S)
  BY ConcatProperties
<1>2. Append(t, e) = t \o << e >> /\ Append(s \o t, e) = (s \o t) \o << e >>
  BY <1>1, AppendIsConcat
<1> QED
  BY <1>1, <1>2, ConcatAssociative

-----------------------------------------------------------------------------
(***************************************************************************)
(* The lines of a stream                                                   *)
(***************************************************************************)

Stream == Seq(Byte)
LineSeq == Seq(Stream)

\* A line makes one packet, itself, or none.
LEMMA HandleLineResult ==
    ASSUME NEW line \in Stream
    PROVE  /\ HandleLine(line) \in LineSeq
           /\ HandleLine(line) = << >> \/ Len(HandleLine(line)) = 1
  BY DEF HandleLine, LineSeq

LEMMA NoLine == HandleLine(<< >>) = << >>
  BY DEF HandleLine

\* The parts of Frames: the line ends, where the line that ends at e begins, and
\* one step of the recursion.
Ends(stream) == {e \in DOMAIN stream : stream[e] = "n"}

Begin(stream, e) == Max({0} \cup {d \in Ends(stream) : d < e}) + 1

FrameStep(stream, f, i) ==
    IF i = 0 THEN << >>
    ELSE f[i - 1] \o
         (IF i \in Ends(stream) THEN HandleLine(SubSeq(stream, Begin(stream, i), i - 1))
                                ELSE << >>)

\* What follows the last line end: a line that is not complete.
LastLine(stream) == SubSeq(stream, Begin(stream, Len(stream) + 1), Len(stream))

\* The recursive function in Frames exists, up to each position.
LEMMA FramesPrefixExists ==
    ASSUME NEW s \in Stream
    PROVE  \A n \in 0 .. Len(s) : \E F : F = [i \in 0 .. n |-> FrameStep(s, F, i)]
<1> DEFINE Good(n) == \E F : F = [i \in 0 .. n |-> FrameStep(s, F, i)]
           Bad == {n \in 0 .. Len(s) : ~ Good(n)}
<1>1. SUFFICES ASSUME Bad # {} PROVE FALSE
  OBVIOUS
<1>2. PICK n \in Bad : \A m \in Bad : n <= m
  <2>1. Bad \subseteq Nat
    OBVIOUS
  <2> HIDE DEF Bad
  <2> QED
    BY <1>1, <2>1, LeastNatural
<1>3. n # 0
  <2>1. [i \in 0 .. 0 |-> << >>] = [i \in 0 .. 0 |-> FrameStep(s, [j \in 0 .. 0 |-> << >>], i)]
    BY DEF FrameStep
  <2> QED
    BY <1>2, <2>1
<1>4. PICK F : F = [i \in 0 .. (n - 1) |-> FrameStep(s, F, i)]
  <2>1. Len(s) \in Nat /\ n - 1 \in 0 .. Len(s) /\ ~ (n <= n - 1)
    BY <1>3 DEF Stream
  <2> QED
    BY <1>2, <2>1
<1> DEFINE G == [i \in 0 .. n |-> IF i < n THEN F[i] ELSE FrameStep(s, F, i)]
<1>5. ASSUME NEW i \in 0 .. n PROVE G[i] = FrameStep(s, G, i)
  <2>1. CASE i < n
    <3>1. G[i] = FrameStep(s, F, i)
      BY <1>4, <2>1
    <3>2. i # 0 => G[i - 1] = F[i - 1]
      BY <2>1
    <3> QED
      BY <3>1, <3>2 DEF FrameStep
  <2>2. CASE i = n
    <3>1. G[i] = FrameStep(s, F, i)
      BY <2>2
    <3>2. G[i - 1] = F[i - 1]
      BY <1>3, <2>2
    <3> QED
      BY <3>1, <3>2 DEF FrameStep
  <2> QED
    BY <2>1, <2>2
<1>6. G = [i \in 0 .. n |-> FrameStep(s, G, i)]
  <2> HIDE DEF G
  <2>1. G = [i \in 0 .. n |-> G[i]]
    BY DEF G
  <2> QED
    BY <1>5, <2>1
<1> QED
  BY <1>2, <1>6

LEMMA FramesUnfold ==
    ASSUME NEW s \in Stream
    PROVE  \E F : /\ F = [i \in 0 .. Len(s) |-> FrameStep(s, F, i)]
                  /\ Frames(s) = F[Len(s)]
<1> DEFINE F == CHOOSE G : G = [i \in 0 .. Len(s) |-> FrameStep(s, G, i)]
<1>1. F = [i \in 0 .. Len(s) |-> FrameStep(s, F, i)]
  <2>1. \E G : G = [i \in 0 .. Len(s) |-> FrameStep(s, G, i)]
    BY FramesPrefixExists, Len(s) \in 0 .. Len(s) DEF Stream
  <2> QED
    BY <2>1
<1>2. Frames(s) = F[Len(s)]
  BY Zenon DEF Frames, FrameStep, Ends, Begin
<1> QED
  BY <1>1, <1>2

\* A line begins at the start of the stream or after a line end, and holds none.
LEMMA BeginOfLine ==
    ASSUME NEW s \in Stream, NEW e \in 1 .. Len(s) + 1
    PROVE  /\ Begin(s, e) \in 1 .. e
           /\ Begin(s, e) = 1 \/ s[Begin(s, e) - 1] = "n"
           /\ \A i \in Begin(s, e) .. e - 1 : s[i] # "n"
<1> DEFINE T == {0} \cup {d \in Ends(s) : d < e}
<1>1. Len(s) \in Nat /\ DOMAIN s = 1 .. Len(s)
  BY DEF Stream
<1>2. e - 1 \in Nat /\ T \subseteq 0 .. e - 1 /\ T # {}
  BY <1>1 DEF Ends
<1>3. Max(T) \in T /\ \A y \in T : y <= Max(T)
  <2> HIDE DEF T
  <2> QED
    BY <1>2, MaxOfNaturals
<1>4. Begin(s, e) = Max(T) + 1
  BY DEF Begin
<1>5. Max(T) \in 0 .. e - 1
  BY <1>2, <1>3
<1>6. Max(T) = 0 \/ s[Max(T)] = "n"
  BY <1>3 DEF Ends
<1>7. ASSUME NEW i \in Max(T) + 1 .. e - 1 PROVE s[i] # "n"
  <2>1. i \in DOMAIN s /\ i < e /\ ~ (i <= Max(T))
    BY <1>1, <1>5
  <2>2. i \notin T
    BY <1>3, <2>1
  <2> QED
    BY <2>1, <2>2 DEF Ends
<1> HIDE DEF T
<1>8. Begin(s, e) \in 1 .. e /\ Begin(s, e) - 1 = Max(T)
  BY <1>4, <1>5
<1> QED
  BY <1>4, <1>6, <1>7, <1>8

LEMMA BeginIsUnique ==
    ASSUME NEW s \in Stream, NEW e \in 1 .. Len(s) + 1, NEW b \in 1 .. e,
           b = 1 \/ s[b - 1] = "n",
           \A i \in b .. e - 1 : s[i] # "n"
    PROVE  Begin(s, e) = b
<1>1. PICK c : c = Begin(s, e)
  OBVIOUS
<1>2. /\ c \in 1 .. e
      /\ c = 1 \/ s[c - 1] = "n"
      /\ \A i \in c .. e - 1 : s[i] # "n"
  BY <1>1, BeginOfLine
<1>3. Len(s) \in Nat
  BY DEF Stream
<1>4. ~ (c < b)
  <2>1. c < b => b - 1 \in c .. e - 1 /\ b # 1
    BY <1>2, <1>3
  <2> QED
    BY <1>2, <2>1
<1>5. ~ (b < c)
  <2>1. b < c => c - 1 \in b .. e - 1 /\ c # 1
    BY <1>2, <1>3
  <2> QED
    BY <1>2, <2>1
<1> QED
  BY <1>1, <1>2, <1>4, <1>5

\* One more byte: the first part stays where it was.
LEMMA OneMore ==
    ASSUME NEW s \in Stream, NEW c \in Byte
    PROVE  /\ Append(s, c) \in Stream
           /\ Len(Append(s, c)) = Len(s) + 1
           /\ Append(s, c)[Len(s) + 1] = c
           /\ \A i \in 1 .. Len(s) : Append(s, c)[i] = s[i]
           /\ \A a \in 1 .. Len(s) + 1, b \in 0 .. Len(s) :
                 SubSeq(Append(s, c), a, b) = SubSeq(s, a, b)
<1>1. /\ Append(s, c) \in Stream
      /\ Len(Append(s, c)) = Len(s) + 1
      /\ Append(s, c)[Len(s) + 1] = c
      /\ \A i \in 1 .. Len(s) : Append(s, c)[i] = s[i]
  BY AppendProperties DEF Stream
<1>2. ASSUME NEW a \in 1 .. Len(s) + 1, NEW b \in 0 .. Len(s)
      PROVE  SubSeq(Append(s, c), a, b) = SubSeq(s, a, b)
  <2>1. Len(s) \in Nat
    BY DEF Stream
  <2> DEFINE t == Append(s, c)
  <2>2. t \in Stream /\ Len(t) = Len(s) + 1 /\ \A i \in 1 .. Len(s) : t[i] = s[i]
    BY <1>1
  <2> HIDE DEF t
  <2>3. \A i \in 1 .. b - a + 1 : t[i + a - 1] = s[i + a - 1]
    BY <2>1, <2>2
  <2>4. SubSeq(t, a, b) = SubSeq(s, a, b)
    BY <2>1, <2>2, <2>3, SMT DEF Stream
  <2> QED
    BY <2>4 DEF t
<1> QED
  BY <1>1, <1>2

LEMMA BeginStays ==
    ASSUME NEW s \in Stream, NEW c \in Byte, NEW e \in 1 .. Len(s) + 1
    PROVE  Begin(Append(s, c), e) = Begin(s, e)
<1> DEFINE t == Append(s, c)
<1>1. t \in Stream /\ Len(t) = Len(s) + 1 /\ \A i \in 1 .. Len(s) : t[i] = s[i]
  BY OneMore
<1> HIDE DEF t
<1>2. Len(s) \in Nat
  BY DEF Stream
<1>3. PICK b : b = Begin(s, e)
  OBVIOUS
<1>4. /\ b \in 1 .. e
      /\ b = 1 \/ s[b - 1] = "n"
      /\ \A i \in b .. e - 1 : s[i] # "n"
  BY <1>3, BeginOfLine
<1>5. b = 1 \/ t[b - 1] = "n"
  <2>1. b # 1 => b - 1 \in 1 .. Len(s)
    BY <1>2, <1>4
  <2> QED
    BY <1>1, <1>4, <2>1
<1>6. \A i \in b .. e - 1 : t[i] # "n"
  <2>1. \A i \in b .. e - 1 : i \in 1 .. Len(s)
    BY <1>2, <1>4
  <2> QED
    BY <1>1, <1>4, <2>1
<1>7. e \in 1 .. Len(t) + 1
  BY <1>1, <1>2
<1>8. Begin(t, e) = b
  BY <1>1, <1>4, <1>5, <1>6, <1>7, BeginIsUnique
<1> QED
  BY <1>3, <1>8 DEF t

\* What one more byte does to the line that is not complete.
LEMMA LastLineStep ==
    ASSUME NEW s \in Stream
    PROVE  /\ LastLine(s) \in Stream
           /\ LastLine(<< >>) = << >>
           /\ \A c \in Byte : LastLine(Append(s, c)) =
                 IF c = "n" THEN << >> ELSE Append(LastLine(s), c)
<1>1. Len(s) \in Nat /\ Len(s) + 1 \in 1 .. Len(s) + 1
  BY DEF Stream
<1>2. PICK b : b = Begin(s, Len(s) + 1)
  OBVIOUS
<1>3. /\ b \in 1 .. Len(s) + 1
      /\ b = 1 \/ s[b - 1] = "n"
      /\ \A i \in b .. Len(s) : s[i] # "n"
  BY <1>1, <1>2, BeginOfLine
<1>4. LastLine(s) = SubSeq(s, b, Len(s))
  BY <1>2 DEF LastLine
<1>5. LastLine(s) \in Stream
  BY <1>1, <1>3, <1>4, SubSeqProperties DEF Stream
<1>6. LastLine(<< >>) = << >>
  <2>1. << >> \in Stream /\ Len(<< >>) = 0
    BY DEF Stream
  <2>2. Begin(<< >>, 0 + 1) \in 1 .. 1
    BY <2>1, BeginOfLine
  <2> QED
    BY <2>1, <2>2 DEF LastLine
<1>7. ASSUME NEW c \in Byte
      PROVE  LastLine(Append(s, c)) = IF c = "n" THEN << >> ELSE Append(LastLine(s), c)
  <2> DEFINE t == Append(s, c)
  <2>1. /\ t \in Stream
        /\ Len(t) = Len(s) + 1
        /\ t[Len(s) + 1] = c
        /\ \A i \in 1 .. Len(s) : t[i] = s[i]
        /\ SubSeq(t, b, Len(s)) = SubSeq(s, b, Len(s))
    BY <1>1, <1>3, OneMore
  <2> HIDE DEF t
  <2>2. LastLine(t) = SubSeq(t, Begin(t, Len(s) + 2), Len(s) + 1)
    <3>1. (Len(s) + 1) + 1 = Len(s) + 2
      BY <1>1
    <3> QED
      BY <2>1, <3>1 DEF LastLine
  <2>3. CASE c = "n"
    <3>1. Begin(t, Len(s) + 2) = Len(s) + 2
      <4>1. /\ Len(s) + 2 \in 1 .. Len(t) + 1
            /\ Len(s) + 2 \in 1 .. Len(s) + 2
            /\ (Len(s) + 2) - 1 = Len(s) + 1
            /\ Len(s) + 2 .. Len(s) + 1 = {}
        BY <1>1, <2>1
      <4> QED
        BY <2>1, <2>3, <4>1, BeginIsUnique
    <3>2. SubSeq(t, Len(s) + 2, Len(s) + 1) = << >>
      BY <1>1, <2>1 DEF Stream
    <3> QED
      BY <2>2, <2>3, <3>1, <3>2 DEF t
  <2>4. CASE c # "n"
    <3>1. Begin(t, Len(s) + 2) = b
      <4>1. Len(s) + 2 \in 1 .. Len(t) + 1 /\ b \in 1 .. Len(s) + 2
        BY <1>1, <1>3, <2>1
      <4>2. b = 1 \/ t[b - 1] = "n"
        <5>1. b # 1 => b - 1 \in 1 .. Len(s)
          BY <1>1, <1>3
        <5> QED
          BY <1>3, <2>1, <5>1
      <4>3. ASSUME NEW i \in b .. (Len(s) + 2) - 1 PROVE t[i] # "n"
        <5>1. i = Len(s) + 1 \/ (i \in 1 .. Len(s) /\ i \in b .. Len(s))
          BY <1>1, <1>3
        <5> QED
          BY <1>3, <2>1, <2>4, <5>1
      <4> QED
        BY <2>1, <4>1, <4>2, <4>3, BeginIsUnique
    <3>2. SubSeq(t, b, Len(s) + 1) = Append(SubSeq(t, b, Len(s)), t[Len(s) + 1])
      <4>1. SubSeq(t, b, Len(s)) \in Stream
        BY <1>4, <1>5, <2>1
      <4>2. SubSeq(t, b, Len(s) + 1) = SubSeq(t, b, Len(s)) \o << t[Len(s) + 1] >>
        <5>1. /\ b \in 1 .. Len(t)
              /\ Len(s) + 1 \in b .. Len(t)
              /\ (Len(s) + 1) - 1 = Len(s)
          BY <1>1, <1>3, <2>1
        <5> QED
          BY <2>1, <5>1, SubSeqRecursiveSecond DEF Stream
      <4> QED
        BY <2>1, <4>1, <4>2, AppendIsConcat DEF Stream
    <3> QED
      BY <1>4, <2>1, <2>2, <2>4, <3>1, <3>2 DEF t
  <2> QED
    BY <2>3, <2>4
<1> QED
  BY <1>5, <1>6, <1>7

\* What Frames yields at each position is a sequence of lines.
LEMMA FramesTyped ==
    ASSUME NEW s \in Stream, NEW F, F = [i \in 0 .. Len(s) |-> FrameStep(s, F, i)]
    PROVE  \A i \in 0 .. Len(s) : F[i] \in LineSeq
<1> DEFINE T == {i \in 0 .. Len(s) : F[i] \in LineSeq}
<1>1. Len(s) \in Nat /\ << >> \in LineSeq
  BY DEF Stream, LineSeq
<1>2. 0 \in T
  <2>1. F[0] = FrameStep(s, F, 0)
    BY <1>1
  <2> QED
    BY <1>1, <2>1 DEF FrameStep
<1>3. ASSUME NEW k \in 0 .. Len(s) - 1, k \in T PROVE k + 1 \in T
  <2>1. k + 1 \in 1 .. Len(s) /\ k + 1 # 0 /\ (k + 1) - 1 = k /\ k + 1 \in 0 .. Len(s)
    BY <1>1
  <2>2. F[k + 1] = FrameStep(s, F, k + 1)
    BY <2>1
  <2>3. SubSeq(s, Begin(s, k + 1), k) \in Stream
    <3>1. Begin(s, k + 1) \in 1 .. k + 1
      BY <1>1, <2>1, BeginOfLine
    <3> QED
      BY <1>1, <2>1, <3>1, SubSeqProperties DEF Stream
  <2>4. HandleLine(SubSeq(s, Begin(s, k + 1), k)) \in LineSeq
    BY <2>3, HandleLineResult
  <2>5. F[k] \in LineSeq
    BY <1>3
  <2>6. F[k + 1] \in LineSeq
    BY <1>1, <2>1, <2>2, <2>4, <2>5, ConcatProperties DEF FrameStep, LineSeq
  <2> QED
    BY <2>1, <2>6
<1> HIDE DEF T
<1>4. \A k \in 0 .. Len(s) : k \in T
  BY <1>1, <1>2, <1>3, UpTo
<1> QED
  BY <1>4 DEF T

\* What one more byte does to the lines of a stream.
LEMMA FramesStep ==
    ASSUME NEW s \in Stream
    PROVE  /\ Frames(s) \in LineSeq
           /\ Frames(<< >>) = << >>
           /\ \A c \in Byte : Frames(Append(s, c)) =
                 IF c = "n" THEN Frames(s) \o HandleLine(LastLine(s)) ELSE Frames(s)
<1>1. Len(s) \in Nat /\ Len(s) \in 0 .. Len(s)
  BY DEF Stream
<1>2. PICK F : F = [i \in 0 .. Len(s) |-> FrameStep(s, F, i)] /\ Frames(s) = F[Len(s)]
  BY FramesUnfold
<1>3. Frames(s) \in LineSeq
  BY <1>1, <1>2, FramesTyped
<1>4. Frames(<< >>) = << >>
  <2>1. << >> \in Stream /\ Len(<< >>) = 0
    BY DEF Stream
  <2>2. PICK G : G = [i \in 0 .. 0 |-> FrameStep(<< >>, G, i)] /\ Frames(<< >>) = G[0]
    BY <2>1, FramesUnfold
  <2>3. G[0] = FrameStep(<< >>, G, 0)
    BY <2>2
  <2> QED
    BY <2>2, <2>3 DEF FrameStep
<1>5. ASSUME NEW c \in Byte
      PROVE  Frames(Append(s, c)) =
                IF c = "n" THEN Frames(s) \o HandleLine(LastLine(s)) ELSE Frames(s)
  <2> DEFINE t == Append(s, c)
  <2>1. /\ t \in Stream
        /\ Len(t) = Len(s) + 1
        /\ t[Len(s) + 1] = c
        /\ \A i \in 1 .. Len(s) : t[i] = s[i]
        /\ \A a \in 1 .. Len(s) + 1, b \in 0 .. Len(s) : SubSeq(t, a, b) = SubSeq(s, a, b)
        /\ \A e \in 1 .. Len(s) + 1 : Begin(t, e) = Begin(s, e)
    BY OneMore, BeginStays
  <2> HIDE DEF t
  <2>2. PICK G : G = [i \in 0 .. Len(t) |-> FrameStep(t, G, i)] /\ Frames(t) = G[Len(t)]
    BY <2>1, FramesUnfold
  <2>3. \A i \in 1 .. Len(s) + 1 :
           SubSeq(t, Begin(t, i), i - 1) = SubSeq(s, Begin(s, i), i - 1)
    <3>1. \A i \in 1 .. Len(s) + 1 : Begin(s, i) \in 1 .. Len(s) + 1 /\ i - 1 \in 0 .. Len(s)
      BY <1>1, BeginOfLine
    <3> QED
      BY <2>1, <3>1
  <2>4. \A i \in 1 .. Len(s) : (i \in Ends(t)) = (i \in Ends(s))
    <3>1. DOMAIN s = 1 .. Len(s) /\ DOMAIN t = 1 .. Len(s) + 1
      BY <2>1 DEF Stream
    <3> QED
      BY <1>1, <2>1, <3>1 DEF Ends
  <2> DEFINE T == {i \in 0 .. Len(s) : G[i] = F[i]}
  <2>5. 0 \in T
    <3>1. 0 \in 0 .. Len(s) /\ 0 \in 0 .. Len(t)
      BY <1>1, <2>1
    <3>2. G[0] = FrameStep(t, G, 0)
      BY <2>2, <3>1
    <3>3. F[0] = FrameStep(s, F, 0)
      BY <1>2, <3>1
    <3>4. G[0] = F[0]
      BY <3>2, <3>3 DEF FrameStep
    <3> QED
      BY <3>1, <3>4
  <2>6. ASSUME NEW k \in 0 .. Len(s) - 1, k \in T PROVE k + 1 \in T
    <3>1. /\ k + 1 \in 1 .. Len(s) /\ k + 1 # 0 /\ (k + 1) - 1 = k
          /\ k + 1 \in 0 .. Len(s) /\ k + 1 \in 0 .. Len(t) /\ k + 1 \in 1 .. Len(s) + 1
      BY <1>1, <2>1
    <3>2. G[k + 1] = FrameStep(t, G, k + 1) /\ F[k + 1] = FrameStep(s, F, k + 1)
      BY <1>2, <2>2, <3>1
    <3>3. FrameStep(t, G, k + 1) = FrameStep(s, F, k + 1)
      <4>1. G[k] = F[k]
        BY <2>6
      <4>2. SubSeq(t, Begin(t, k + 1), k) = SubSeq(s, Begin(s, k + 1), k)
        BY <2>3, <3>1
      <4>3. (k + 1 \in Ends(t)) = (k + 1 \in Ends(s))
        BY <2>4, <3>1
      <4> QED
        BY <3>1, <4>1, <4>2, <4>3 DEF FrameStep
    <3> QED
      BY <3>1, <3>2, <3>3
  <2> HIDE DEF T
  <2>7. Len(s) \in T
    BY <1>1, <2>5, <2>6, UpTo
  <2>8. G[Len(s)] = Frames(s)
    BY <1>2, <2>7 DEF T
  <2>9. Frames(t) = FrameStep(t, G, Len(s) + 1)
    BY <1>1, <2>1, <2>2
  <2>10. (Len(s) + 1 \in Ends(t)) = (c = "n")
    <3>1. Len(s) + 1 \in DOMAIN t
      BY <1>1, <2>1 DEF Stream
    <3> QED
      BY <2>1, <3>1 DEF Ends
  <2>11. SubSeq(t, Begin(t, Len(s) + 1), Len(s)) = LastLine(s)
    <3>1. Len(s) + 1 \in 1 .. Len(s) + 1 /\ (Len(s) + 1) - 1 = Len(s)
      BY <1>1
    <3> QED
      BY <2>3, <3>1 DEF LastLine
  <2>12. FrameStep(t, G, Len(s) + 1) =
            Frames(s) \o (IF c = "n" THEN HandleLine(LastLine(s)) ELSE << >>)
    <3>1. Len(s) + 1 # 0 /\ (Len(s) + 1) - 1 = Len(s)
      BY <1>1
    <3> QED
      BY <2>8, <2>10, <2>11, <3>1 DEF FrameStep
  <2>13. Frames(s) \o << >> = Frames(s)
    BY <1>3, ConcatEmptySeq DEF LineSeq
  <2> QED
    BY <2>9, <2>12, <2>13 DEF t
<1> QED
  BY <1>3, <1>4, <1>5

\* A part that is extended byte by byte.
LEMMA PartStep ==
    ASSUME NEW s \in Stream, NEW r \in Stream, NEW k \in 0 .. Len(r) - 1
    PROVE  /\ SubSeq(r, 1, k) \in Stream
           /\ s \o SubSeq(r, 1, k) \in Stream
           /\ r[k + 1] \in Byte
           /\ k + 1 \in 1 .. Len(r)
           /\ SubSeq(r, 1, k + 1) = Append(SubSeq(r, 1, k), r[k + 1])
           /\ s \o SubSeq(r, 1, k + 1) = Append(s \o SubSeq(r, 1, k), r[k + 1])
<1>1. /\ SubSeq(r, 1, k) \in Seq(Byte)
      /\ r[k + 1] \in Byte
      /\ SubSeq(r, 1, k + 1) = Append(SubSeq(r, 1, k), r[k + 1])
  BY PrefixStep DEF Stream
<1>2. s \o SubSeq(r, 1, k) \in Stream
  BY <1>1, ConcatProperties DEF Stream
<1>3. s \o Append(SubSeq(r, 1, k), r[k + 1]) = Append(s \o SubSeq(r, 1, k), r[k + 1])
  BY <1>1, ConcatAppend DEF Stream
<1>4. Len(r) \in Nat /\ k + 1 \in 1 .. Len(r)
  BY DEF Stream
<1> QED
  BY <1>1, <1>2, <1>3, <1>4 DEF Stream

LEMMA PartEnds ==
    ASSUME NEW s \in Stream, NEW r \in Stream
    PROVE  /\ Len(r) \in Nat
           /\ SubSeq(r, 1, 0) = << >>
           /\ s \o << >> = s
           /\ << >> \o s = s
           /\ SubSeq(r, 1, Len(r)) = r
<1>1. Len(r) \in Nat /\ SubSeq(r, 1, 0) = << >>
  BY SubSeqEmpty DEF Stream
<1>2. s \o << >> = s /\ << >> \o s = s
  BY ConcatEmptySeq DEF Stream
<1>3. SubSeq(r, 1, Len(r)) = r
  BY SubSeqFull DEF Stream
<1> QED
  BY <1>1, <1>2, <1>3

\* Bytes without a line end complete no line.
LEMMA RunOfText ==
    ASSUME NEW s \in Stream, NEW r \in Stream, \A i \in 1 .. Len(r) : r[i] # "n"
    PROVE  Frames(s \o r) = Frames(s) /\ LastLine(s \o r) = LastLine(s) \o r
<1> DEFINE P(k) == s \o SubSeq(r, 1, k)
           Q(k) == LastLine(s) \o SubSeq(r, 1, k)
           T == {k \in 0 .. Len(r) : Frames(P(k)) = Frames(s) /\ LastLine(P(k)) = Q(k)}
<1>1. LastLine(s) \in Stream
  BY LastLineStep
<1>2. /\ Len(r) \in Nat /\ 0 \in 0 .. Len(r) /\ Len(r) \in 0 .. Len(r)
      /\ P(0) = s /\ P(Len(r)) = s \o r
      /\ Q(0) = LastLine(s) /\ Q(Len(r)) = LastLine(s) \o r
  <2>1. Len(r) \in Nat /\ SubSeq(r, 1, 0) = << >> /\ SubSeq(r, 1, Len(r)) = r
    BY PartEnds
  <2>2. s \o << >> = s
    BY PartEnds
  <2>3. LastLine(s) \o << >> = LastLine(s)
    BY <1>1, PartEnds
  <2>4. 0 \in 0 .. Len(r) /\ Len(r) \in 0 .. Len(r)
    BY <2>1
  <2> QED
    BY <2>1, <2>2, <2>3, <2>4, Zenon
<1>3. \A k \in 0 .. Len(r) - 1 :
         /\ P(k) \in Stream /\ P(k + 1) = Append(P(k), r[k + 1])
         /\ Q(k + 1) = Append(Q(k), r[k + 1])
         /\ r[k + 1] \in Byte /\ k + 1 \in 1 .. Len(r) /\ k + 1 \in 0 .. Len(r)
  <2> TAKE k \in 0 .. Len(r) - 1
  <2>1. /\ P(k) \in Stream /\ P(k + 1) = Append(P(k), r[k + 1])
        /\ r[k + 1] \in Byte /\ k + 1 \in 1 .. Len(r)
    BY PartStep, Zenon
  <2>2. Q(k) \in Stream /\ Q(k + 1) = Append(Q(k), r[k + 1])
    BY <1>1, PartStep, Zenon
  <2>3. k + 1 \in 0 .. Len(r)
    BY <1>2
  <2> QED
    BY <2>1, <2>2, <2>3
<1> HIDE DEF P, Q
<1>4. 0 \in T
  BY <1>2
<1>5. ASSUME NEW k \in 0 .. Len(r) - 1, k \in T PROVE k + 1 \in T
  <2>1. r[k + 1] # "n" /\ r[k + 1] \in Byte /\ P(k) \in Stream
    BY <1>3
  <2>2. Frames(P(k + 1)) = Frames(P(k))
    BY <1>3, <2>1, FramesStep
  <2>3. LastLine(P(k + 1)) = Append(LastLine(P(k)), r[k + 1])
    BY <1>3, <2>1, LastLineStep
  <2> QED
    BY <1>3, <1>5, <2>2, <2>3
<1> HIDE DEF T
<1>6. Len(r) \in T
  BY <1>2, <1>4, <1>5, UpTo
<1> QED
  BY <1>2, <1>6 DEF T

\* A run of line ends completes one line.
LEMMA RunOfEnds ==
    ASSUME NEW s \in Stream, NEW r \in Stream, r # << >>, \A i \in 1 .. Len(r) : r[i] = "n"
    PROVE  /\ Frames(s \o r) = Frames(s) \o HandleLine(LastLine(s))
           /\ LastLine(s \o r) = << >>
<1> DEFINE P(k) == s \o SubSeq(r, 1, k)
           Done == Frames(s) \o HandleLine(LastLine(s))
           T == {k \in 0 .. Len(r) :
                   k # 0 => Frames(P(k)) = Done /\ LastLine(P(k)) = << >>}
<1>1. /\ Len(r) \in Nat /\ 0 \in 0 .. Len(r) /\ Len(r) \in 0 .. Len(r)
      /\ P(0) = s /\ P(Len(r)) = s \o r
  BY PartEnds
<1>2. Len(r) # 0
  BY EmptySeq DEF Stream
<1>3. \A k \in 0 .. Len(r) - 1 :
         /\ P(k) \in Stream /\ P(k + 1) = Append(P(k), r[k + 1])
         /\ r[k + 1] \in Byte /\ k + 1 \in 1 .. Len(r) /\ k + 1 \in 0 .. Len(r)
  BY <1>1, PartStep
<1>4. Done \in LineSeq
  <2>1. Frames(s) \in LineSeq
    BY FramesStep
  <2>2. LastLine(s) \in Stream
    BY LastLineStep
  <2>3. HandleLine(LastLine(s)) \in LineSeq
    BY <2>2, HandleLineResult
  <2> QED
    BY <2>1, <2>3, ConcatProperties DEF LineSeq
<1> HIDE DEF P
<1>5. 0 \in T
  BY <1>1
<1>6. ASSUME NEW k \in 0 .. Len(r) - 1, k \in T PROVE k + 1 \in T
  <2>1. r[k + 1] = "n" /\ r[k + 1] \in Byte /\ P(k) \in Stream
    BY <1>3
  <2>2. Frames(P(k + 1)) = Frames(P(k)) \o HandleLine(LastLine(P(k)))
    <3>1. P(k + 1) = Append(P(k), r[k + 1])
      BY <1>3
    <3>2. Frames(Append(P(k), r[k + 1])) = Frames(P(k)) \o HandleLine(LastLine(P(k)))
      BY <2>1, FramesStep, Zenon
    <3> QED
      BY <3>1, <3>2
  <2>3. LastLine(P(k + 1)) = << >>
    BY <1>3, <2>1, LastLineStep
  <2>4. Done \o HandleLine(<< >>) = Done
    <3> HIDE DEF Done
    <3> QED
      BY <1>4, NoLine, ConcatEmptySeq DEF LineSeq
  <2>5. k # 0 => Frames(P(k)) = Done /\ LastLine(P(k)) = << >>
    BY <1>6
  <2>6. Frames(P(k + 1)) = Done
    <3>1. CASE k = 0
      BY <1>1, <2>2, <3>1, Zenon
    <3>2. CASE k # 0
      BY <2>2, <2>4, <2>5, <3>2, Zenon
    <3> QED
      BY <3>1, <3>2
  <2> QED
    BY <1>3, <2>3, <2>6
<1> HIDE DEF T
<1>7. Len(r) \in T
  BY <1>1, <1>5, <1>6, UpTo
<1> QED
  BY <1>1, <1>2, <1>7 DEF T

\* The line that is not complete has no line end, and completes none.
LEMMA LastLineHasNoEnd ==
    ASSUME NEW s \in Stream
    PROVE  Frames(LastLine(s)) = << >> /\ LastLine(LastLine(s)) = LastLine(s)
<1>1. PICK b : b = Begin(s, Len(s) + 1)
  OBVIOUS
<1>2. Len(s) \in Nat /\ Len(s) + 1 \in 1 .. Len(s) + 1 /\ (Len(s) + 1) - 1 = Len(s)
  BY DEF Stream
<1>3. b \in 1 .. Len(s) + 1 /\ \A i \in b .. Len(s) : s[i] # "n"
  BY <1>1, <1>2, BeginOfLine
<1>4. LastLine(s) = SubSeq(s, b, Len(s))
  BY <1>1 DEF LastLine
<1>5. \A i \in 1 .. Len(LastLine(s)) : i + b - 1 \in b .. Len(s) /\ LastLine(s)[i] = s[i + b - 1]
  BY <1>2, <1>3, <1>4 DEF Stream
<1>6. \A i \in 1 .. Len(LastLine(s)) : LastLine(s)[i] # "n"
  BY <1>3, <1>5
<1>7. PICK l : l = LastLine(s)
  OBVIOUS
<1>8. l \in Stream /\ \A i \in 1 .. Len(l) : l[i] # "n"
  BY <1>6, <1>7, LastLineStep
<1>9. << >> \in Stream /\ << >> \o l = l
  BY <1>8, PartEnds DEF Stream
<1>10. Frames(<< >> \o l) = Frames(<< >>) /\ LastLine(<< >> \o l) = LastLine(<< >>) \o l
  BY <1>8, <1>9, RunOfText
<1>11. Frames(<< >>) = << >>
  BY <1>8, FramesStep
<1>12. LastLine(<< >>) = << >>
  BY <1>8, LastLineStep
<1> QED
  BY <1>7, <1>9, <1>10, <1>11, <1>12

\* The lines of a stream in two parts: the second part goes on from the line that
\* the first has not completed.
LEMMA FramesInParts ==
    ASSUME NEW s \in Stream, NEW r \in Stream
    PROVE  /\ Frames(s \o r) = Frames(s) \o Frames(LastLine(s) \o r)
           /\ LastLine(s \o r) = LastLine(LastLine(s) \o r)
<1> DEFINE P(k) == s \o SubSeq(r, 1, k)
           Q(k) == LastLine(s) \o SubSeq(r, 1, k)
           T == {k \in 0 .. Len(r) : /\ Frames(P(k)) = Frames(s) \o Frames(Q(k))
                                     /\ LastLine(P(k)) = LastLine(Q(k))}
<1>1. LastLine(s) \in Stream
  BY LastLineStep
<1>2. /\ Len(r) \in Nat /\ 0 \in 0 .. Len(r) /\ Len(r) \in 0 .. Len(r)
      /\ P(0) = s /\ P(Len(r)) = s \o r
      /\ Q(0) = LastLine(s) /\ Q(Len(r)) = LastLine(s) \o r
  <2>1. Len(r) \in Nat /\ SubSeq(r, 1, 0) = << >> /\ SubSeq(r, 1, Len(r)) = r
    BY PartEnds
  <2>2. s \o << >> = s
    BY PartEnds
  <2>3. LastLine(s) \o << >> = LastLine(s)
    BY <1>1, PartEnds
  <2>4. 0 \in 0 .. Len(r) /\ Len(r) \in 0 .. Len(r)
    BY <2>1
  <2> QED
    BY <2>1, <2>2, <2>3, <2>4, Zenon
<1>3. \A k \in 0 .. Len(r) - 1 :
         /\ P(k) \in Stream /\ P(k + 1) = Append(P(k), r[k + 1])
         /\ Q(k) \in Stream /\ Q(k + 1) = Append(Q(k), r[k + 1])
         /\ r[k + 1] \in Byte /\ k + 1 \in 1 .. Len(r) /\ k + 1 \in 0 .. Len(r)
  <2> TAKE k \in 0 .. Len(r) - 1
  <2>1. /\ P(k) \in Stream /\ P(k + 1) = Append(P(k), r[k + 1])
        /\ r[k + 1] \in Byte /\ k + 1 \in 1 .. Len(r)
    BY PartStep, Zenon
  <2>2. Q(k) \in Stream /\ Q(k + 1) = Append(Q(k), r[k + 1])
    BY <1>1, PartStep, Zenon
  <2>3. k + 1 \in 0 .. Len(r)
    BY <1>2
  <2> QED
    BY <2>1, <2>2, <2>3
<1>4. Frames(s) \in LineSeq
  BY FramesStep
<1> HIDE DEF P, Q
<1>5. 0 \in T
  <2>1. Frames(s) \o << >> = Frames(s)
    BY <1>4, ConcatEmptySeq DEF LineSeq
  <2>2. Frames(LastLine(s)) = << >> /\ LastLine(LastLine(s)) = LastLine(s)
    BY LastLineHasNoEnd
  <2>3. Frames(P(0)) = Frames(s) \o Frames(Q(0))
    BY <1>2, <2>1, <2>2
  <2>4. LastLine(P(0)) = LastLine(Q(0))
    BY <1>2, <2>2
  <2> QED
    BY <1>2, <2>3, <2>4
<1>6. ASSUME NEW k \in 0 .. Len(r) - 1, k \in T PROVE k + 1 \in T
  <2>1. P(k) \in Stream /\ Q(k) \in Stream /\ r[k + 1] \in Byte
    BY <1>3
  <2>2. Frames(P(k)) = Frames(s) \o Frames(Q(k)) /\ LastLine(P(k)) = LastLine(Q(k))
    BY <1>6
  <2>3. LastLine(P(k + 1)) =
           IF r[k + 1] = "n" THEN << >> ELSE Append(LastLine(P(k)), r[k + 1])
    BY <1>3, <2>1, LastLineStep
  <2>4. LastLine(Q(k + 1)) =
           IF r[k + 1] = "n" THEN << >> ELSE Append(LastLine(Q(k)), r[k + 1])
    BY <1>3, <2>1, LastLineStep
  <2>5. Frames(P(k + 1)) =
           IF r[k + 1] = "n" THEN Frames(P(k)) \o HandleLine(LastLine(P(k))) ELSE Frames(P(k))
    BY <1>3, <2>1, FramesStep
  <2>6. Frames(Q(k + 1)) =
           IF r[k + 1] = "n" THEN Frames(Q(k)) \o HandleLine(LastLine(Q(k))) ELSE Frames(Q(k))
    BY <1>3, <2>1, FramesStep
  <2>7. LastLine(Q(k)) \in Stream
    BY <2>1, LastLineStep
  <2>8. Frames(Q(k)) \in LineSeq
    BY <2>1, FramesStep
  <2>9. HandleLine(LastLine(Q(k))) \in LineSeq
    BY <2>7, HandleLineResult
  <2>10. (Frames(s) \o Frames(Q(k))) \o HandleLine(LastLine(Q(k)))
            = Frames(s) \o (Frames(Q(k)) \o HandleLine(LastLine(Q(k))))
    BY <1>4, <2>8, <2>9, ConcatAssociative DEF LineSeq
  <2>11. Frames(P(k + 1)) = Frames(s) \o Frames(Q(k + 1))
    BY <2>2, <2>5, <2>6, <2>10, Zenon
  <2>12. LastLine(P(k + 1)) = LastLine(Q(k + 1))
    BY <2>2, <2>3, <2>4
  <2> QED
    BY <1>3, <2>11, <2>12
<1> HIDE DEF T
<1>7. Len(r) \in T
  BY <1>2, <1>5, <1>6, UpTo
<1> QED
  BY <1>2, <1>7 DEF T

-----------------------------------------------------------------------------
(***************************************************************************)
(* The loop of on_read_ready()                                             *)
(***************************************************************************)

\* The parts of SplitLines: the line ends and the other bytes from a position on,
\* and one round of the loop.
EndsFrom(buffer, a) == {e \in a .. Len(buffer) : buffer[e] = "n"}

OthersFrom(buffer, a) == {i \in a .. Len(buffer) : buffer[i] # "n"}

SplitStep(buffer, f, start) ==
    IF EndsFrom(buffer, start) = {}
      THEN [packets |-> << >>, rest |-> SubSeq(buffer, start, Len(buffer))]
      ELSE LET end == Min(EndsFrom(buffer, start))
               packets == HandleLine(SubSeq(buffer, start, end - 1))
           IN  IF OthersFrom(buffer, end) = {}
                 THEN [packets |-> packets, rest |-> << >>]
                 ELSE LET later == f[Min(OthersFrom(buffer, end))] IN
                      [packets |-> packets \o later.packets, rest |-> later.rest]

\* Where a round finds the line's end, and where the next one starts.
LEMMA RoundPositions ==
    ASSUME NEW b \in Stream, NEW a \in 1 .. Len(b) + 1, EndsFrom(b, a) # {},
           NEW e, e = Min(EndsFrom(b, a))
    PROVE  /\ e \in a .. Len(b)
           /\ b[e] = "n"
           /\ \A i \in a .. e - 1 : b[i] # "n"
           /\ OthersFrom(b, e) = {} => \A i \in e .. Len(b) : b[i] = "n"
           /\ OthersFrom(b, e) # {} =>
                 /\ Min(OthersFrom(b, e)) \in e + 1 .. Len(b)
                 /\ \A i \in e .. Min(OthersFrom(b, e)) - 1 : b[i] = "n"
<1>1. Len(b) \in Nat
  BY DEF Stream
<1>2. EndsFrom(b, a) \subseteq Nat
  BY <1>1 DEF EndsFrom
<1>3. e \in EndsFrom(b, a) /\ \A y \in EndsFrom(b, a) : e <= y
  BY <1>2, MinOfNaturals
<1>4. e \in a .. Len(b) /\ b[e] = "n"
  BY <1>3 DEF EndsFrom
<1>5. ASSUME NEW i \in a .. e - 1 PROVE b[i] # "n"
  <2>1. i \in a .. Len(b) /\ ~ (e <= i)
    BY <1>1, <1>4
  <2> QED
    BY <1>3, <2>1 DEF EndsFrom
<1>6. OthersFrom(b, e) = {} => \A i \in e .. Len(b) : b[i] = "n"
  BY DEF OthersFrom
<1>7. ASSUME OthersFrom(b, e) # {}
      PROVE  /\ Min(OthersFrom(b, e)) \in e + 1 .. Len(b)
             /\ \A i \in e .. Min(OthersFrom(b, e)) - 1 : b[i] = "n"
  <2>1. PICK m : m = Min(OthersFrom(b, e))
    OBVIOUS
  <2>2. OthersFrom(b, e) \subseteq Nat
    BY <1>1, <1>4 DEF OthersFrom
  <2>3. m \in OthersFrom(b, e) /\ \A y \in OthersFrom(b, e) : m <= y
    BY <1>7, <2>1, <2>2, MinOfNaturals
  <2>4. m \in e .. Len(b) /\ m # e
    BY <1>4, <2>3 DEF OthersFrom
  <2>5. m \in e + 1 .. Len(b)
    BY <1>1, <1>4, <2>4
  <2>6. ASSUME NEW i \in e .. m - 1 PROVE b[i] = "n"
    <3>1. i \in e .. Len(b) /\ ~ (m <= i)
      BY <1>1, <1>4, <2>5
    <3> QED
      BY <2>3, <3>1 DEF OthersFrom
  <2> QED
    BY <2>1, <2>5, <2>6
<1> QED
  BY <1>4, <1>5, <1>6, <1>7

\* A round depends on later rounds only.
LEMMA RoundLooksAhead ==
    ASSUME NEW b \in Stream, NEW a \in 1 .. Len(b) + 1, NEW f, NEW g,
           \A i \in a + 1 .. Len(b) + 1 : f[i] = g[i]
    PROVE  SplitStep(b, f, a) = SplitStep(b, g, a)
<1>1. CASE EndsFrom(b, a) = {}
  BY <1>1 DEF SplitStep
<1>2. CASE EndsFrom(b, a) # {}
  <2>1. PICK e : e = Min(EndsFrom(b, a))
    OBVIOUS
  <2>2. CASE OthersFrom(b, e) = {}
    BY <1>2, <2>1, <2>2 DEF SplitStep
  <2>3. CASE OthersFrom(b, e) # {}
    <3>1. Len(b) \in Nat
      BY DEF Stream
    <3>2. e \in a .. Len(b) /\ Min(OthersFrom(b, e)) \in e + 1 .. Len(b)
      BY <1>2, <2>1, <2>3, RoundPositions
    <3>3. Min(OthersFrom(b, e)) \in a + 1 .. Len(b) + 1
      BY <3>1, <3>2
    <3>4. f[Min(OthersFrom(b, e))] = g[Min(OthersFrom(b, e))]
      BY <3>3
    <3> QED
      BY <1>2, <2>1, <2>3, <3>4, Zenon DEF SplitStep
  <2> QED
    BY <2>2, <2>3
<1> QED
  BY <1>1, <1>2

\* The recursive function in SplitLines exists, back from the buffer's end.
LEMMA SplitSuffixExists ==
    ASSUME NEW b \in Stream
    PROVE  \A k \in 0 .. Len(b) :
              \E F : F = [i \in Len(b) + 1 - k .. Len(b) + 1 |-> SplitStep(b, F, i)]
<1> DEFINE n == Len(b)
           T == {k \in 0 .. n : \E F : F = [i \in n + 1 - k .. n + 1 |-> SplitStep(b, F, i)]}
<1>1. n \in Nat
  BY DEF Stream
<1> HIDE DEF n
<1>2. 0 \in T
  <2> DEFINE F == [i \in n + 1 - 0 .. n + 1 |-> SplitStep(b, << >>, i)]
  <2>1. ASSUME NEW i \in n + 1 - 0 .. n + 1 PROVE SplitStep(b, << >>, i) = SplitStep(b, F, i)
    <3>1. i \in 1 .. Len(b) + 1 /\ i + 1 .. Len(b) + 1 = {}
      BY <1>1 DEF n
    <3> HIDE DEF F
    <3> QED
      BY <3>1, RoundLooksAhead
  <2>2. F = [i \in n + 1 - 0 .. n + 1 |-> SplitStep(b, F, i)]
    BY <2>1, Zenon
  <2> HIDE DEF F
  <2>3. 0 \in 0 .. n
    BY <1>1
  <2> QED
    BY <2>2, <2>3
<1>3. ASSUME NEW k \in 0 .. n - 1, k \in T PROVE k + 1 \in T
  <2>1. PICK F : F = [i \in n + 1 - k .. n + 1 |-> SplitStep(b, F, i)]
    BY <1>3
  <2> DEFINE a == n + 1 - (k + 1)
             G == [i \in a .. n + 1 |-> IF i = a THEN SplitStep(b, F, i) ELSE F[i]]
  <2>2. a \in 1 .. n + 1 /\ k + 1 \in 0 .. n
    BY <1>1
  <2>3. \A i \in a .. n + 1 : i # a => i \in n + 1 - k .. n + 1
    BY <1>1
  <2>4. \A i \in a + 1 .. n + 1 : i \in a .. n + 1 /\ i # a
    BY <2>2
  <2> HIDE DEF a
  <2>5. \A i \in a + 1 .. n + 1 : G[i] = F[i]
    BY <2>4
  <2>6. ASSUME NEW i \in a .. n + 1 PROVE G[i] = SplitStep(b, G, i)
    <3>1. G[i] = SplitStep(b, F, i)
      <4>1. CASE i = a
        BY <4>1
      <4>2. CASE i # a
        <5>1. G[i] = F[i]
          BY <4>2
        <5>2. F[i] = SplitStep(b, F, i)
          BY <2>1, <2>3, <4>2
        <5> QED
          BY <5>1, <5>2
      <4> QED
        BY <4>1, <4>2
    <3>2. i \in 1 .. n + 1 /\ \A j \in i + 1 .. n + 1 : j \in a + 1 .. n + 1
      BY <2>2
    <3> HIDE DEF G
    <3>3. \A j \in i + 1 .. n + 1 : F[j] = G[j]
      BY <2>5, <3>2
    <3>4. SplitStep(b, F, i) = SplitStep(b, G, i)
      BY <3>2, <3>3, RoundLooksAhead DEF n
    <3> QED
      BY <3>1, <3>4
  <2>7. G = [i \in a .. n + 1 |-> SplitStep(b, G, i)]
    <3> HIDE DEF G
    <3>1. G = [i \in a .. n + 1 |-> G[i]]
      BY DEF G
    <3> QED
      BY <2>6, <3>1
  <2> HIDE DEF G
  <2> QED
    BY <2>2, <2>7 DEF a
<1> HIDE DEF T
<1>4. \A k \in 0 .. n : k \in T
  BY <1>1, <1>2, <1>3, UpTo
<1> QED
  BY <1>4 DEF T, n

LEMMA SplitUnfold ==
    ASSUME NEW b \in Stream
    PROVE  \E F : /\ F = [i \in 1 .. Len(b) + 1 |-> SplitStep(b, F, i)]
                  /\ SplitLines(b) = F[1]
<1> DEFINE F == CHOOSE G : G = [i \in 1 .. Len(b) + 1 |-> SplitStep(b, G, i)]
<1>1. F = [i \in 1 .. Len(b) + 1 |-> SplitStep(b, F, i)]
  <2>1. Len(b) \in 0 .. Len(b) /\ Len(b) + 1 - Len(b) = 1
    BY DEF Stream
  <2>2. \E G : G = [i \in Len(b) + 1 - Len(b) .. Len(b) + 1 |-> SplitStep(b, G, i)]
    BY <2>1, SplitSuffixExists
  <2>3. \E G : G = [i \in 1 .. Len(b) + 1 |-> SplitStep(b, G, i)]
    BY <2>1, <2>2
  <2> QED
    BY <2>3
<1>2. SplitLines(b) = F[1]
  BY Zenon DEF SplitLines, SplitStep, EndsFrom, OthersFrom
<1> QED
  BY <1>1, <1>2

\* What is left from a position on, cut in two.
LEMMA CutPart ==
    ASSUME NEW b \in Stream, NEW a \in 1 .. Len(b) + 1, NEW m \in a .. Len(b) + 1
    PROVE  /\ SubSeq(b, a, m - 1) \in Stream
           /\ Len(SubSeq(b, a, m - 1)) = m - a
           /\ \A i \in 1 .. m - a : /\ SubSeq(b, a, m - 1)[i] = b[a + i - 1]
                                    /\ a + i - 1 \in a .. m - 1
           /\ SubSeq(b, a, m - 1) \o SubSeq(b, m, Len(b)) = SubSeq(b, a, Len(b))
<1>1. Len(b) \in Nat /\ a \in Nat /\ m \in Nat
  BY DEF Stream
<1>2. /\ m - 1 \in a - 1 .. Len(b) /\ Len(b) \in m - 1 .. Len(b) /\ (m - 1) + 1 = m
      /\ (m - 1) - a + 1 = m - a
  BY <1>1
<1>3. SubSeq(b, a, m - 1) \in Stream
  BY <1>1, <1>2, SubSeqProperties DEF Stream
<1>4. Len(SubSeq(b, a, m - 1)) = m - a
  BY <1>1, <1>2 DEF Stream
<1>5. \A i \in 1 .. m - a : SubSeq(b, a, m - 1)[i] = b[a + i - 1] /\ a + i - 1 \in a .. m - 1
  BY <1>1, <1>2 DEF Stream
<1>6. SubSeq(b, a, m - 1) \o SubSeq(b, (m - 1) + 1, Len(b)) = SubSeq(b, a, Len(b))
  BY <1>2, ConcatAdjacentSubSeq DEF Stream
<1> QED
  BY <1>2, <1>3, <1>4, <1>5, <1>6

LEMMA StreamsAssociate ==
    ASSUME NEW s \in Stream, NEW t \in Stream, NEW u \in Stream
    PROVE  (s \o t) \o u = s \o (t \o u)
  BY ConcatAssociative DEF Stream

\* A line with the line ends that follow it, and the rest.
LEMMA FramesAfterLine ==
    ASSUME NEW l \in Stream, NEW e \in Stream, NEW r \in Stream, e # << >>,
           \A i \in 1 .. Len(l) : l[i] # "n",
           \A i \in 1 .. Len(e) : e[i] = "n"
    PROVE  /\ Frames((l \o e) \o r) = HandleLine(l) \o Frames(r)
           /\ LastLine((l \o e) \o r) = LastLine(r)
<1>1. << >> \in Stream /\ << >> \o l = l
  BY PartEnds DEF Stream
<1>2. Frames(<< >>) = << >>
  BY FramesStep
<1>3. LastLine(<< >>) = << >>
  BY LastLineStep
<1>4. Frames(<< >> \o l) = Frames(<< >>) /\ LastLine(<< >> \o l) = LastLine(<< >>) \o l
  BY <1>1, RunOfText
<1>5. Frames(l) = << >> /\ LastLine(l) = l
  BY <1>1, <1>2, <1>3, <1>4
<1>6. Frames(l \o e) = Frames(l) \o HandleLine(LastLine(l)) /\ LastLine(l \o e) = << >>
  BY RunOfEnds
<1>7. << >> \o HandleLine(l) = HandleLine(l)
  BY HandleLineResult, ConcatEmptySeq DEF LineSeq
<1>8. Frames(l \o e) = HandleLine(l)
  BY <1>5, <1>6, <1>7
<1>9. PICK c : c = l \o e
  OBVIOUS
<1>10. c \in Stream
  BY <1>9, ConcatProperties DEF Stream
<1>11. Frames(c \o r) = Frames(c) \o Frames(LastLine(c) \o r)
       /\ LastLine(c \o r) = LastLine(LastLine(c) \o r)
  BY <1>10, FramesInParts
<1>12. << >> \o r = r
  BY PartEnds
<1> QED
  BY <1>6, <1>8, <1>9, <1>11, <1>12

\* From any position the loop yields the lines of what is left, and keeps the line
\* that is not complete.
LEMMA RoundsYieldFrames ==
    ASSUME NEW b \in Stream, NEW F, F = [i \in 1 .. Len(b) + 1 |-> SplitStep(b, F, i)]
    PROVE  \A a \in 1 .. Len(b) + 1 :
              /\ F[a].packets = Frames(SubSeq(b, a, Len(b)))
              /\ F[a].rest = LastLine(SubSeq(b, a, Len(b)))
<1> DEFINE Rest(a) == SubSeq(b, a, Len(b))
           Good(a) == F[a].packets = Frames(Rest(a)) /\ F[a].rest = LastLine(Rest(a))
           Bad == {k \in 0 .. Len(b) : ~ Good(Len(b) + 1 - k)}
<1>1. Len(b) \in Nat
  BY DEF Stream
<1>2. \A a \in 1 .. Len(b) + 1 : Rest(a) \in Stream
  <2> TAKE a \in 1 .. Len(b) + 1
  <2> QED
    BY <1>1, SubSeqProperties DEF Stream
<1> HIDE DEF Rest
<1>3. SUFFICES ASSUME Bad # {} PROVE FALSE
  <2>1. SUFFICES \A a \in 1 .. Len(b) + 1 : Good(a)
    BY DEF Rest
  <2> TAKE a \in 1 .. Len(b) + 1
  <2>2. Len(b) + 1 - a \in 0 .. Len(b) /\ Len(b) + 1 - (Len(b) + 1 - a) = a
    BY <1>1
  <2> QED
    BY <1>3, <2>2
<1>4. PICK k \in Bad : \A j \in Bad : k <= j
  <2>1. Bad \subseteq Nat
    OBVIOUS
  <2> HIDE DEF Bad
  <2> QED
    BY <1>3, <2>1, LeastNatural
<1>5. PICK a \in 1 .. Len(b) + 1 : a = Len(b) + 1 - k
  <2>1. k \in 0 .. Len(b)
    BY <1>4
  <2> QED
    BY <1>1, <2>1
<1>6. ASSUME NEW m \in a + 1 .. Len(b) + 1 PROVE Good(m)
  <2>1. /\ Len(b) + 1 - m \in 0 .. Len(b)
        /\ Len(b) + 1 - (Len(b) + 1 - m) = m
        /\ ~ (k <= Len(b) + 1 - m)
    BY <1>1, <1>4, <1>5
  <2> QED
    BY <1>4, <2>1
<1>7. F[a] = SplitStep(b, F, a)
  BY <1>5
<1>8. Good(a)
  <2>1. CASE EndsFrom(b, a) = {}
    <3>1. F[a] = [packets |-> << >>, rest |-> Rest(a)]
      BY <1>7, <2>1 DEF SplitStep, Rest
    <3>2. \A i \in 1 .. Len(Rest(a)) : Rest(a)[i] # "n"
      <4>1. \A i \in 1 .. Len(Rest(a)) : Rest(a)[i] = b[a + i - 1] /\ a + i - 1 \in a .. Len(b)
        BY <1>1, <1>5 DEF Rest, Stream
      <4> QED
        BY <2>1, <4>1 DEF EndsFrom
    <3>3. << >> \in Stream /\ << >> \o Rest(a) = Rest(a) /\ Rest(a) \in Stream
      BY <1>2, <1>5, PartEnds DEF Stream
    <3>4. Frames(<< >> \o Rest(a)) = Frames(<< >>)
          /\ LastLine(<< >> \o Rest(a)) = LastLine(<< >>) \o Rest(a)
      BY <3>2, <3>3, RunOfText
    <3>5. Frames(<< >>) = << >>
      BY <3>3, FramesStep
    <3>6. LastLine(<< >>) = << >>
      BY <3>3, LastLineStep
    <3>7. Frames(Rest(a)) = << >> /\ LastLine(Rest(a)) = Rest(a)
      BY <3>3, <3>4, <3>5, <3>6
    <3> QED
      BY <3>1, <3>7
  <2>2. CASE EndsFrom(b, a) # {}
    <3>1. PICK e : e = Min(EndsFrom(b, a))
      OBVIOUS
    <3> DEFINE l == SubSeq(b, a, e - 1)
    <3>2. /\ e \in a .. Len(b)
          /\ b[e] = "n"
          /\ \A i \in a .. e - 1 : b[i] # "n"
          /\ OthersFrom(b, e) = {} => \A i \in e .. Len(b) : b[i] = "n"
          /\ OthersFrom(b, e) # {} =>
                /\ Min(OthersFrom(b, e)) \in e + 1 .. Len(b)
                /\ \A i \in e .. Min(OthersFrom(b, e)) - 1 : b[i] = "n"
      BY <1>5, <2>2, <3>1, RoundPositions
    <3>3. e \in a .. Len(b) + 1 /\ e \in 1 .. Len(b) + 1
      BY <1>1, <1>5, <3>2
    <3>4. /\ l \in Stream /\ Len(l) = e - a
          /\ \A i \in 1 .. e - a : l[i] = b[a + i - 1] /\ a + i - 1 \in a .. e - 1
          /\ l \o Rest(e) = Rest(a)
      BY <1>5, <3>3, CutPart DEF Rest
    <3> HIDE DEF l
    <3>5. \A i \in 1 .. Len(l) : l[i] # "n"
      BY <3>2, <3>4
    \* The line ends up to m, where the next round starts or the buffer is at its end.
    <3>6. ASSUME NEW m \in e + 1 .. Len(b) + 1, \A i \in e .. m - 1 : b[i] = "n"
          PROVE  /\ Frames(Rest(a)) = HandleLine(l) \o Frames(Rest(m))
                 /\ LastLine(Rest(a)) = LastLine(Rest(m))
      <4> DEFINE r == SubSeq(b, e, m - 1)
      <4>1. m \in e .. Len(b) + 1 /\ m \in 1 .. Len(b) + 1 /\ m - e # 0
        BY <1>1, <3>3
      <4>2. /\ r \in Stream /\ Len(r) = m - e
            /\ \A i \in 1 .. m - e : r[i] = b[e + i - 1] /\ e + i - 1 \in e .. m - 1
            /\ r \o Rest(m) = Rest(e)
        BY <3>3, <4>1, CutPart DEF Rest
      <4> HIDE DEF r
      <4>3. r # << >> /\ \A i \in 1 .. Len(r) : r[i] = "n"
        BY <3>6, <4>1, <4>2
      <4>4. Rest(m) \in Stream
        BY <1>2, <4>1
      <4>5. (l \o r) \o Rest(m) = Rest(a)
        <5>1. PICK q : q = Rest(m)
          OBVIOUS
        <5>2. l \in Stream /\ r \in Stream /\ q \in Stream
          BY <3>4, <4>2, <4>4, <5>1
        <5>3. (l \o r) \o q = l \o (r \o q)
          BY <5>2, StreamsAssociate, Zenon
        <5> QED
          BY <3>4, <4>2, <5>1, <5>3, Zenon
      <4>6. /\ Frames((l \o r) \o Rest(m)) = HandleLine(l) \o Frames(Rest(m))
            /\ LastLine((l \o r) \o Rest(m)) = LastLine(Rest(m))
        BY <3>4, <3>5, <4>2, <4>3, <4>4, FramesAfterLine
      <4> QED
        BY <4>5, <4>6
    <3>7. CASE OthersFrom(b, e) = {}
      <4>1. F[a] = [packets |-> HandleLine(l), rest |-> << >>]
        BY <1>7, <2>2, <3>1, <3>7 DEF SplitStep, l
      <4>2. Len(b) + 1 \in e + 1 .. Len(b) + 1 /\ (Len(b) + 1) - 1 = Len(b)
        BY <1>1, <3>3, <3>2
      <4>3. Rest(Len(b) + 1) = << >>
        BY <1>1 DEF Rest, Stream
      <4>4. /\ Frames(Rest(a)) = HandleLine(l) \o Frames(<< >>)
            /\ LastLine(Rest(a)) = LastLine(<< >>)
        BY <3>2, <3>6, <3>7, <4>2, <4>3
      <4>5. Frames(<< >>) = << >>
        BY FramesStep
      <4>6. LastLine(<< >>) = << >>
        BY LastLineStep
      <4>7. HandleLine(l) \o << >> = HandleLine(l)
        BY <3>4, HandleLineResult, ConcatEmptySeq DEF LineSeq
      <4>8. F[a].packets = HandleLine(l) /\ F[a].rest = << >>
        BY <4>1
      <4> QED
        BY <4>4, <4>5, <4>6, <4>7, <4>8, Zenon
    <3>8. CASE OthersFrom(b, e) # {}
      <4>1. PICK m : m = Min(OthersFrom(b, e))
        OBVIOUS
      <4>2. F[a] = [packets |-> HandleLine(l) \o F[m].packets, rest |-> F[m].rest]
        BY <1>7, <2>2, <3>1, <3>8, <4>1, Zenon DEF SplitStep, l
      <4>3. m \in e + 1 .. Len(b) + 1 /\ m \in a + 1 .. Len(b) + 1
        BY <1>1, <1>5, <3>2, <3>8, <4>1
      <4>4. \A i \in e .. m - 1 : b[i] = "n"
        BY <3>2, <3>8, <4>1
      <4>5. Good(m)
        BY <1>6, <4>3
      <4>6. /\ Frames(Rest(a)) = HandleLine(l) \o Frames(Rest(m))
            /\ LastLine(Rest(a)) = LastLine(Rest(m))
        BY <3>6, <4>3, <4>4
      <4>7. F[a].packets = HandleLine(l) \o F[m].packets /\ F[a].rest = F[m].rest
        <5>1. PICK p, q : p = HandleLine(l) \o F[m].packets /\ q = F[m].rest
          OBVIOUS
        <5>2. F[a] = [packets |-> p, rest |-> q]
          BY <4>2, <5>1, Zenon
        <5>3. F[a].packets = p /\ F[a].rest = q
          BY <5>2
        <5> QED
          BY <5>1, <5>3, Zenon
      <4> QED
        BY <4>5, <4>6, <4>7, Zenon
    <3> QED
      BY <3>7, <3>8
  <2> QED
    BY <2>1, <2>2
<1> QED
  BY <1>4, <1>5, <1>8

\* The reader's loop on one buffer: its packets are the buffer's lines, and it keeps
\* the line that is not complete (SocketConnection::on_read_ready).
THEOREM LineSplitting ==
    ASSUME NEW b \in Stream
    PROVE  SplitLines(b).packets = Frames(b) /\ SplitLines(b).rest = LastLine(b)
<1>1. PICK F : F = [i \in 1 .. Len(b) + 1 |-> SplitStep(b, F, i)] /\ SplitLines(b) = F[1]
  BY SplitUnfold
<1>2. SubSeq(b, 1, Len(b)) = b
  BY PartEnds
<1>3. 1 \in 1 .. Len(b) + 1
  BY DEF Stream
<1>4. /\ F[1].packets = Frames(SubSeq(b, 1, Len(b)))
      /\ F[1].rest = LastLine(SubSeq(b, 1, Len(b)))
  BY <1>1, <1>3, RoundsYieldFrames
<1> QED
  BY <1>1, <1>2, <1>4

-----------------------------------------------------------------------------
(***************************************************************************)
(* The invariant                                                           *)
(***************************************************************************)

\* read_buffer_ is the line that has not ended yet.  Until the owner leaves, it has
\* been told, or will be from the queue, the lines received and then the error.
ReadInv ==
    /\ read_buffer = LastLine(Received)
    /\ subscribed => delivered \o PacketsOf(event_queue) = Frames(Received) \o Error

\* Nothing is listened to after an error or after the owner has left.
ListenInv ==
    /\ ~ subscribed \/ got_error => ~ read_listener /\ ~ write_listener
    /\ WriteListenerArmed

\* The queued events are valid exactly until the owner leaves.
ScopeInv ==
    \A i \in DOMAIN event_queue :
       IF subscribed THEN event_queue[i].scope = scope ELSE event_queue[i].scope < scope

\* The bytes sent and the bytes to send are the accepted ones, in order.
WriteInv ==
    /\ IF subscribed THEN Len(wire) + Len(write_buffer) = accepted ELSE write_buffer = << >>
    /\ Len(wire) <= accepted
    /\ \A i \in 1 .. Len(wire) : wire[i] = i
    /\ \A i \in 1 .. Len(write_buffer) : write_buffer[i] = Len(wire) + i

ConnectionInv == TypeOK /\ ReadInv /\ ListenInv /\ ScopeInv /\ WriteInv

-----------------------------------------------------------------------------
(***************************************************************************)
(* The event queue                                                         *)
(***************************************************************************)

Event == [packet : Packet, scope : Nat]

\* The elements of a concatenation.
LEMMA Concatenated ==
    ASSUME NEW S, NEW s \in Seq(S), NEW t \in Seq(S), NEW r, r = s \o t
    PROVE  /\ r \in Seq(S)
           /\ Len(r) = Len(s) + Len(t)
           /\ DOMAIN r = 1 .. Len(s) + Len(t)
           /\ \A i \in 1 .. Len(s) : r[i] = s[i]
           /\ \A i \in 1 .. Len(t) : r[Len(s) + i] = t[i]
<1>1. Len(s) \in Nat /\ Len(t) \in Nat
  OBVIOUS
<1>2. r \in Seq(S) /\ Len(r) = Len(s) + Len(t)
  BY ConcatProperties
<1>3. \A i \in 1 .. Len(s) : r[i] = s[i]
  BY <1>1
<1>4. \A i \in 1 .. Len(t) : r[Len(s) + i] = t[i]
  BY <1>1
<1> QED
  BY <1>2, <1>3, <1>4

LEMMA PacketsTyped ==
    ASSUME NEW q \in Seq(Event)
    PROVE  /\ PacketsOf(q) \in Seq(Packet)
           /\ Len(PacketsOf(q)) = Len(q)
           /\ \A i \in 1 .. Len(q) : PacketsOf(q)[i] = q[i].packet /\ q[i].packet \in Packet
<1>1. Len(q) \in Nat /\ DOMAIN q = 1 .. Len(q) /\ \A i \in 1 .. Len(q) : q[i] \in Event
  OBVIOUS
<1>2. ASSUME NEW i \in 1 .. Len(q) PROVE q[i].packet \in Packet
  <2>1. q[i] \in [packet : Packet, scope : Nat]
    BY <1>1 DEF Event
  <2> QED
    BY <2>1
<1>3. PacketsOf(q) = [i \in 1 .. Len(q) |-> q[i].packet]
  BY <1>1 DEF PacketsOf
<1> QED
  BY <1>1, <1>2, <1>3

\* The packets of a longer queue.
LEMMA QueueExtended ==
    ASSUME NEW q \in Seq(Event), NEW n \in Seq(Event)
    PROVE  /\ q \o n \in Seq(Event)
           /\ PacketsOf(q \o n) = PacketsOf(q) \o PacketsOf(n)
           /\ \A i \in DOMAIN (q \o n) : \/ i \in DOMAIN q /\ (q \o n)[i] = q[i]
                                         \/ \E j \in DOMAIN n : (q \o n)[i] = n[j]
<1>0. PICK r : r = q \o n
  OBVIOUS
<1>1. /\ Len(q) \in Nat /\ DOMAIN q = 1 .. Len(q)
      /\ Len(n) \in Nat /\ DOMAIN n = 1 .. Len(n)
  OBVIOUS
<1>2. /\ r \in Seq(Event) /\ Len(r) = Len(q) + Len(n) /\ DOMAIN r = 1 .. Len(q) + Len(n)
      /\ \A i \in 1 .. Len(q) : r[i] = q[i]
      /\ \A i \in 1 .. Len(n) : r[Len(q) + i] = n[i]
  BY <1>0, Concatenated
<1>3. PICK Q : Q = PacketsOf(q)
  OBVIOUS
<1>4. PICK N : N = PacketsOf(n)
  OBVIOUS
<1>5. PICK R : R = PacketsOf(r)
  OBVIOUS
<1>6. PICK x : x = Q \o N
  OBVIOUS
<1>7. Q \in Seq(Packet) /\ Len(Q) = Len(q) /\ \A i \in 1 .. Len(q) : Q[i] = q[i].packet
  BY <1>3, PacketsTyped
<1>8. N \in Seq(Packet) /\ Len(N) = Len(n) /\ \A i \in 1 .. Len(n) : N[i] = n[i].packet
  BY <1>4, PacketsTyped
<1>9. R \in Seq(Packet) /\ Len(R) = Len(r) /\ \A i \in 1 .. Len(r) : R[i] = r[i].packet
  BY <1>2, <1>5, PacketsTyped
<1>10. Q \in Seq(Packet) /\ N \in Seq(Packet)
  BY <1>7, <1>8
<1>11. /\ x \in Seq(Packet) /\ Len(x) = Len(Q) + Len(N)
       /\ \A i \in 1 .. Len(Q) : x[i] = Q[i]
       /\ \A i \in 1 .. Len(N) : x[Len(Q) + i] = N[i]
  BY <1>6, <1>10, Concatenated
<1>12. ASSUME NEW i \in 1 .. Len(q) + Len(n)
       PROVE  i \in 1 .. Len(q) \/ \E j \in 1 .. Len(n) : i = Len(q) + j
  <2>1. i \in 1 .. Len(q) \/ (i - Len(q) \in 1 .. Len(n) /\ i = Len(q) + (i - Len(q)))
    BY <1>1
  <2> QED
    BY <2>1
<1>13. ASSUME NEW i \in 1 .. Len(q) + Len(n)
       PROVE  /\ r[i].packet = x[i]
              /\ \/ i \in DOMAIN q /\ r[i] = q[i]
                 \/ \E j \in DOMAIN n : r[i] = n[j]
  <2>1. CASE i \in 1 .. Len(q)
    BY <1>1, <1>2, <1>7, <1>11, <2>1
  <2>2. ASSUME NEW j \in 1 .. Len(n), i = Len(q) + j
        PROVE  r[i].packet = x[i] /\ j \in DOMAIN n /\ r[i] = n[j]
    <3>1. r[i] = n[j]
      BY <1>2, <2>2
    <3>2. x[i] = N[j]
      BY <1>7, <1>8, <1>11, <2>2
    <3> QED
      BY <1>1, <1>8, <3>1, <3>2
  <2> QED
    BY <1>12, <2>1, <2>2
<1>14. R = x
  <2>1. \A i \in 1 .. Len(R) : R[i] = x[i]
    BY <1>2, <1>9, <1>13
  <2>2. Len(R) = Len(x)
    BY <1>2, <1>7, <1>8, <1>9, <1>11
  <2> QED
    BY <1>9, <1>11, <2>1, <2>2, SeqEqual
<1>15. \A i \in DOMAIN r : \/ i \in DOMAIN q /\ r[i] = q[i]
                           \/ \E j \in DOMAIN n : r[i] = n[j]
  BY <1>2, <1>13
<1> QED
  BY <1>0, <1>2, <1>3, <1>4, <1>5, <1>6, <1>14, <1>15, Zenon

\* The events that Queued() adds for a sequence of packets.
LEMMA NewEvents ==
    ASSUME NEW p \in Seq(Packet), NEW c \in Nat, NEW n,
           n = [i \in DOMAIN p |-> [packet |-> p[i], scope |-> c]]
    PROVE  /\ n \in Seq(Event)
           /\ PacketsOf(n) = p
           /\ \A i \in DOMAIN n : n[i].scope = c
<1>1. Len(p) \in Nat /\ DOMAIN p = 1 .. Len(p) /\ \A i \in 1 .. Len(p) : p[i] \in Packet
  OBVIOUS
<1>2. /\ n \in Seq(Event) /\ Len(n) = Len(p) /\ DOMAIN n = 1 .. Len(p)
      /\ \A i \in 1 .. Len(p) : n[i].packet = p[i] /\ n[i].scope = c
  BY <1>1 DEF Event
<1>3. PacketsOf(n) = [i \in 1 .. Len(p) |-> p[i]]
  BY <1>2 DEF PacketsOf
<1>4. p = [i \in 1 .. Len(p) |-> p[i]]
  BY <1>1
<1> QED
  BY <1>2, <1>3, <1>4

\* The first event's packet is the next one the owner is told.
LEMMA QueueHead ==
    ASSUME NEW q \in Seq(Event), q # << >>, NEW d \in Seq(Packet)
    PROVE  /\ Head(q) \in Event
           /\ Head(q) = q[1] /\ 1 \in DOMAIN q
           /\ Tail(q) \in Seq(Event)
           /\ \A i \in DOMAIN Tail(q) : Tail(q)[i] = q[i + 1] /\ i + 1 \in DOMAIN q
           /\ Append(d, Head(q).packet) \in Seq(Packet)
           /\ Append(d, Head(q).packet) \o PacketsOf(Tail(q)) = d \o PacketsOf(q)
           /\ Len(d \o PacketsOf(q)) >= Len(d) + 1
           /\ (d \o PacketsOf(q))[Len(d) + 1] = Head(q).packet
           /\ \A i \in 1 .. Len(d) : (d \o PacketsOf(q))[i] = d[i]
<1>1. PICK h, t : h = Head(q).packet /\ t = Tail(q)
  OBVIOUS
<1>2. /\ Head(q) \in Event /\ t \in Seq(Event) /\ Len(t) = Len(q) - 1
      /\ \A i \in 1 .. Len(t) : t[i] = q[i + 1]
  BY <1>1, HeadTailProperties
<1>3. Len(q) \in Nat \ {0} /\ Len(d) \in Nat
  BY EmptySeq
<1>4. DOMAIN q = 1 .. Len(q) /\ DOMAIN t = 1 .. Len(q) - 1 /\ Head(q) = q[1] /\ 1 \in 1 .. Len(q)
  BY <1>2, <1>3
<1>5. PICK P : P = PacketsOf(q)
  OBVIOUS
<1>6. PICK Q : Q = PacketsOf(t)
  OBVIOUS
<1>7. /\ P \in Seq(Packet) /\ Len(P) = Len(q)
      /\ \A i \in 1 .. Len(q) : P[i] = q[i].packet /\ q[i].packet \in Packet
  BY <1>5, PacketsTyped
<1>8. /\ Q \in Seq(Packet) /\ Len(Q) = Len(t)
      /\ \A i \in 1 .. Len(t) : Q[i] = t[i].packet
  BY <1>2, <1>6, PacketsTyped
<1>9. h \in Packet /\ h = P[1]
  BY <1>1, <1>4, <1>7
<1>10. PICK a : a = Append(d, h)
  OBVIOUS
<1>11. /\ a \in Seq(Packet) /\ Len(a) = Len(d) + 1 /\ a[Len(d) + 1] = h
       /\ \A i \in 1 .. Len(d) : a[i] = d[i]
  BY <1>9, <1>10, AppendProperties
<1>12. PICK x : x = a \o Q
  OBVIOUS
<1>13. PICK y : y = d \o P
  OBVIOUS
<1>14. P \in Seq(Packet) /\ Q \in Seq(Packet) /\ a \in Seq(Packet)
  BY <1>7, <1>8, <1>11
<1>15. /\ x \in Seq(Packet) /\ Len(x) = Len(a) + Len(Q)
       /\ \A i \in 1 .. Len(a) : x[i] = a[i]
       /\ \A i \in 1 .. Len(Q) : x[Len(a) + i] = Q[i]
  BY <1>12, <1>14, Concatenated
<1>16. /\ y \in Seq(Packet) /\ Len(y) = Len(d) + Len(P)
       /\ \A i \in 1 .. Len(d) : y[i] = d[i]
       /\ \A i \in 1 .. Len(P) : y[Len(d) + i] = P[i]
  BY <1>13, <1>14, Concatenated
<1>17. Len(x) = Len(y)
  BY <1>2, <1>3, <1>7, <1>8, <1>11, <1>15, <1>16
<1>18. ASSUME NEW i \in 1 .. Len(y) PROVE x[i] = y[i]
  <2>1. CASE i \in 1 .. Len(d)
    <3>1. i \in 1 .. Len(a)
      BY <1>3, <1>11, <2>1
    <3> QED
      BY <1>11, <1>15, <1>16, <2>1, <3>1
  <2>2. CASE i = Len(d) + 1
    <3>1. i \in 1 .. Len(a) /\ 1 \in 1 .. Len(P)
      BY <1>3, <1>7, <1>11, <2>2
    <3> QED
      BY <1>9, <1>11, <1>15, <1>16, <2>2, <3>1
  <2>3. ASSUME NEW j \in 1 .. Len(Q), i = Len(d) + 1 + j PROVE x[i] = y[i]
    <3>1. x[Len(a) + j] = Q[j] /\ Len(a) + j = i
      BY <1>3, <1>11, <1>15, <2>3
    <3>2. j + 1 \in 1 .. Len(P) /\ i = Len(d) + (j + 1) /\ j \in 1 .. Len(t) /\ j + 1 \in 1 .. Len(q)
      BY <1>2, <1>3, <1>7, <1>8, <2>3
    <3>3. y[i] = P[j + 1]
      BY <1>16, <3>2
    <3>4. t[j] = q[j + 1]
      BY <1>2, <3>2
    <3> QED
      BY <1>7, <1>8, <3>1, <3>2, <3>3, <3>4
  <2>4. \/ i \in 1 .. Len(d)
        \/ i = Len(d) + 1
        \/ i - (Len(d) + 1) \in 1 .. Len(Q) /\ i = Len(d) + 1 + (i - (Len(d) + 1))
    <3>1. Len(Q) = Len(q) - 1 /\ Len(y) = Len(d) + Len(q)
      BY <1>2, <1>7, <1>8, <1>16
    <3>2. i \in 1 .. Len(d) + Len(q)
      BY <3>1
    <3> QED
      BY <1>3, <3>1, <3>2
  <2> QED
    BY <2>1, <2>2, <2>3, <2>4
<1>19. x = y
  BY <1>15, <1>16, <1>17, <1>18, SeqEqual
<1>20. Len(y) >= Len(d) + 1 /\ y[Len(d) + 1] = h
  BY <1>3, <1>7, <1>9, <1>16
<1>21. \A i \in DOMAIN t : t[i] = q[i + 1] /\ i + 1 \in DOMAIN q
  BY <1>2, <1>3, <1>4
<1> QED
  BY <1>1, <1>2, <1>4, <1>5, <1>6, <1>10, <1>11, <1>12, <1>16, <1>19, <1>20, <1>21, <1>13, Zenon

\* Connection::packet_received() for a sequence of packets.
LEMMA QueuedEvents ==
    ASSUME TypeOK, NEW p \in Seq(Packet)
    PROVE  /\ Queued(p) \in Seq(Event)
           /\ PacketsOf(Queued(p)) = PacketsOf(event_queue) \o p
           /\ \A i \in DOMAIN Queued(p) :
                 \/ Queued(p)[i].scope = scope
                 \/ i \in DOMAIN event_queue /\ Queued(p)[i].scope = event_queue[i].scope
<1>1. event_queue \in Seq(Event) /\ scope \in Nat
  BY DEF TypeOK, Event
<1>2. PICK n : n = [i \in DOMAIN p |-> [packet |-> p[i], scope |-> scope]]
  OBVIOUS
<1>3. n \in Seq(Event) /\ PacketsOf(n) = p /\ \A i \in DOMAIN n : n[i].scope = scope
  BY <1>1, <1>2, NewEvents
<1>4. PICK r : r = event_queue \o n
  OBVIOUS
<1>5. /\ r \in Seq(Event)
      /\ PacketsOf(r) = PacketsOf(event_queue) \o PacketsOf(n)
      /\ \A i \in DOMAIN r : \/ i \in DOMAIN event_queue /\ r[i] = event_queue[i]
                             \/ \E j \in DOMAIN n : r[i] = n[j]
  <2>1. event_queue \in Seq(Event) /\ n \in Seq(Event)
    BY <1>1, <1>3
  <2> QED
    BY <1>4, <2>1, QueueExtended, Zenon
<1>6. Queued(p) = r
  BY <1>2, <1>4, Zenon DEF Queued
<1>7. \A i \in DOMAIN r : \/ r[i].scope = scope
                          \/ i \in DOMAIN event_queue /\ r[i].scope = event_queue[i].scope
  <2> TAKE i \in DOMAIN r
  <2>1. CASE i \in DOMAIN event_queue /\ r[i] = event_queue[i]
    BY <2>1, Zenon
  <2>2. ASSUME NEW j \in DOMAIN n, r[i] = n[j] PROVE r[i].scope = scope
    <3>1. n[j].scope = scope
      BY <1>3
    <3> QED
      BY <2>2, <3>1, Zenon
  <2>3. \/ i \in DOMAIN event_queue /\ r[i] = event_queue[i]
        \/ \E j \in DOMAIN n : r[i] = n[j]
    BY <1>5
  <2> QED
    BY <2>1, <2>2, <2>3
<1> QED
  BY <1>3, <1>5, <1>6, <1>7, Zenon

-----------------------------------------------------------------------------
(***************************************************************************)
(* The invariant holds                                                     *)
(***************************************************************************)

\* A chunk that is read queues the lines it completes.
LEMMA ChunkRead ==
    ASSUME TypeOK, ReadInv, NEW k, OnReadReady(k)
    PROVE  \E p \in LineSeq :
              /\ event_queue' = Queued(p)
              /\ p \in Seq(Packet)
              /\ taken' \in 0 .. Len(incoming)
              /\ read_buffer' \in Stream
              /\ read_buffer' = LastLine(SubSeq(incoming, 1, taken'))
              /\ Frames(SubSeq(incoming, 1, taken')) = Frames(Received) \o p
<1>1. /\ incoming \in Stream /\ taken \in 0 .. Len(incoming) /\ Len(incoming) \in Nat
      /\ k \in 1 .. Len(incoming) - taken
      /\ taken' = taken + k
  BY DEF TypeOK, OnReadReady, Stream
<1>2. taken \in Nat /\ k \in Nat /\ taken + k \in 0 .. Len(incoming)
  BY <1>1
<1>3. PICK c : c = SubSeq(incoming, taken + 1, taken + k)
  OBVIOUS
<1>4. c \in Stream
  <2>1. \A i \in taken + 1 .. taken + k : incoming[i] \in Byte
    BY <1>1, <1>2 DEF Stream
  <2> QED
    BY <1>2, <1>3, <2>1, SubSeqProperties DEF Stream
<1>5. PICK g : g = SubSeq(incoming, 1, taken)
  OBVIOUS
<1>6. g \in Stream
  <2>1. \A i \in 1 .. taken : incoming[i] \in Byte
    BY <1>1, <1>2 DEF Stream
  <2> QED
    BY <1>2, <1>5, <2>1, SubSeqProperties DEF Stream
<1>7. g \o c = SubSeq(incoming, 1, taken + k)
  <2>1. /\ 1 \in 1 .. Len(incoming) + 1
        /\ taken \in 1 - 1 .. Len(incoming)
        /\ taken + k \in taken .. Len(incoming)
    BY <1>1, <1>2
  <2>2. SubSeq(incoming, 1, taken) \o SubSeq(incoming, taken + 1, taken + k)
           = SubSeq(incoming, 1, taken + k)
    BY <1>1, <2>1, ConcatAdjacentSubSeq DEF Stream
  <2> QED
    BY <1>3, <1>5, <2>2
<1>8. read_buffer = LastLine(g)
  BY <1>5 DEF ReadInv, Received
<1>9. PICK b : b = LastLine(g) \o c
  OBVIOUS
<1>10. b \in Stream
  <2>1. LastLine(g) \in Stream
    BY <1>6, LastLineStep
  <2> QED
    BY <1>4, <1>9, <2>1, ConcatProperties DEF Stream
<1>11. SplitLines(b).packets = Frames(b) /\ SplitLines(b).rest = LastLine(b)
  BY <1>10, LineSplitting
<1>12. read_buffer' = SplitLines(b).rest /\ event_queue' = Queued(SplitLines(b).packets)
  <2>1. SplitLines(read_buffer \o SubSeq(incoming, taken + 1, taken + k)) = SplitLines(b)
    BY <1>3, <1>8, <1>9
  <2> QED
    BY <2>1, Zenon DEF OnReadReady
<1>13. Frames(g \o c) = Frames(g) \o Frames(b) /\ LastLine(g \o c) = LastLine(b)
  BY <1>4, <1>6, <1>9, FramesInParts
<1>14. Frames(b) \in LineSeq
  BY <1>10, FramesStep
<1>15. LastLine(b) \in Stream
  BY <1>10, LastLineStep
<1>16. Frames(b) \in Seq(Packet)
  <2>1. Stream \subseteq Packet
    BY DEF Stream, Packet
  <2> QED
    BY <1>14, <2>1, SeqMonotonic DEF LineSeq
<1>17. event_queue' = Queued(Frames(b)) /\ read_buffer' = LastLine(b)
  BY <1>11, <1>12, Zenon
<1>18. Frames(SubSeq(incoming, 1, taken')) = Frames(Received) \o Frames(b)
  BY <1>1, <1>5, <1>7, <1>13, Zenon DEF Received
<1>19. read_buffer' = LastLine(SubSeq(incoming, 1, taken'))
  BY <1>1, <1>7, <1>13, <1>17, Zenon
<1>20. taken' \in 0 .. Len(incoming)
  BY <1>1, <1>2
<1>21. read_buffer' \in Stream
  BY <1>15, <1>17
<1> WITNESS Frames(b) \in LineSeq
<1> QED
  BY <1>16, <1>17, <1>18, <1>19, <1>20, <1>21, Zenon

\* The first pos bytes of write_buffer_ go to the wire.
LEMMA BytesSent ==
    ASSUME TypeOK, WriteInv, NEW pos \in 0 .. Len(write_buffer), NEW w, NEW b
    PROVE  /\ w = wire \o SubSeq(write_buffer, 1, pos)
           /\ b = BufferAfterSend(pos)
           => /\ w \in Seq(1 .. MaxWritten) /\ Len(w) = Len(wire) + pos
              /\ \A i \in 1 .. Len(w) : w[i] = i
              /\ b \in Seq(1 .. MaxWritten) /\ Len(b) = Len(write_buffer) - pos
              /\ \A i \in 1 .. Len(b) : b[i] = Len(w) + i
              /\ b = << >> <=> pos = Len(write_buffer)
<1>0. SUFFICES ASSUME w = wire \o SubSeq(write_buffer, 1, pos), b = BufferAfterSend(pos)
               PROVE  /\ w \in Seq(1 .. MaxWritten) /\ Len(w) = Len(wire) + pos
                      /\ \A i \in 1 .. Len(w) : w[i] = i
                      /\ b \in Seq(1 .. MaxWritten) /\ Len(b) = Len(write_buffer) - pos
                      /\ \A i \in 1 .. Len(b) : b[i] = Len(w) + i
                      /\ b = << >> <=> pos = Len(write_buffer)
  OBVIOUS
<1>1. PICK M : M = 1 .. MaxWritten
  OBVIOUS
<1>2. /\ wire \in Seq(M) /\ write_buffer \in Seq(M)
      /\ Len(wire) \in Nat /\ Len(write_buffer) \in Nat
      /\ \A i \in 1 .. Len(write_buffer) : write_buffer[i] \in M
  <2>1. wire \in Seq(M) /\ write_buffer \in Seq(M)
    BY <1>1, Zenon DEF TypeOK
  <2> QED
    BY <2>1
<1>3. /\ \A i \in 1 .. Len(wire) : wire[i] = i
      /\ \A i \in 1 .. Len(write_buffer) : write_buffer[i] = Len(wire) + i
  BY DEF WriteInv
<1>4. PICK s : s = SubSeq(write_buffer, 1, pos)
  OBVIOUS
<1>5. s \in Seq(M) /\ Len(s) = pos /\ \A i \in 1 .. pos : s[i] = write_buffer[i]
  BY <1>2, <1>4
<1>6. b \in Seq(M) /\ Len(b) = Len(write_buffer) - pos
      /\ \A i \in 1 .. Len(b) : b[i] = write_buffer[pos + i] /\ pos + i \in 1 .. Len(write_buffer)
  <2>1. b = SubSeq(write_buffer, pos + 1, Len(write_buffer))
    BY <1>0 DEF BufferAfterSend
  <2> QED
    BY <1>2, <2>1
<1>7. w = wire \o s
  BY <1>0, <1>4
<1>8. /\ w \in Seq(M) /\ Len(w) = Len(wire) + Len(s)
      /\ \A i \in 1 .. Len(wire) : w[i] = wire[i]
      /\ \A i \in 1 .. Len(s) : w[Len(wire) + i] = s[i]
  <2>1. wire \in Seq(M) /\ s \in Seq(M)
    BY <1>2, <1>5
  <2> QED
    BY <1>7, <2>1, Concatenated
<1>9. ASSUME NEW i \in 1 .. Len(w) PROVE w[i] = i
  <2>1. CASE i \in 1 .. Len(wire)
    BY <1>3, <1>8, <2>1
  <2>2. CASE i \notin 1 .. Len(wire)
    <3>1. PICK j : j = i - Len(wire)
      OBVIOUS
    <3>2. j \in 1 .. pos /\ i = Len(wire) + j /\ j \in 1 .. Len(write_buffer)
      BY <1>2, <1>5, <1>8, <2>2, <3>1
    <3>3. w[Len(wire) + j] = s[j]
      BY <1>5, <1>8, <3>2
    <3> QED
      BY <1>3, <1>5, <3>2, <3>3
  <2> QED
    BY <2>1, <2>2
<1>10. ASSUME NEW i \in 1 .. Len(b) PROVE b[i] = Len(w) + i
  <2>1. b[i] = Len(wire) + (pos + i)
    BY <1>3, <1>6
  <2>2. Len(w) = Len(wire) + pos /\ i \in Nat /\ pos \in Nat
    BY <1>2, <1>5, <1>6, <1>8
  <2> QED
    BY <1>2, <2>1, <2>2
<1>11. b = << >> <=> pos = Len(write_buffer)
  <2>1. b = << >> <=> Len(b) = 0
    BY <1>6
  <2> QED
    BY <1>2, <1>6, <2>1
<1> QED
  BY <1>1, <1>5, <1>6, <1>8, <1>9, <1>10, <1>11

\* A line goes to the end of write_buffer_.
LEMMA BytesAccepted ==
    ASSUME TypeOK, WriteInv, subscribed, NEW size \in Nat \ {0},
           accepted + size <= MaxWritten, NEW b
    PROVE  b = write_buffer \o [i \in 1 .. size |-> accepted + i]
           => /\ b \in Seq(1 .. MaxWritten) /\ Len(b) = Len(write_buffer) + size
              /\ \A i \in 1 .. Len(b) : b[i] = Len(wire) + i
              /\ b # << >>
<1>0. SUFFICES ASSUME b = write_buffer \o [i \in 1 .. size |-> accepted + i]
               PROVE  /\ b \in Seq(1 .. MaxWritten) /\ Len(b) = Len(write_buffer) + size
                      /\ \A i \in 1 .. Len(b) : b[i] = Len(wire) + i
                      /\ b # << >>
  OBVIOUS
<1>1. /\ write_buffer \in Seq(1 .. MaxWritten) /\ accepted \in Nat
      /\ Len(wire) \in Nat /\ Len(write_buffer) \in Nat
  BY SocketAssumption DEF TypeOK
<1>2. /\ Len(wire) + Len(write_buffer) = accepted
      /\ \A i \in 1 .. Len(write_buffer) : write_buffer[i] = Len(wire) + i
  BY DEF WriteInv
<1>3. PICK n : n = [i \in 1 .. size |-> accepted + i]
  OBVIOUS
<1>4. n \in Seq(1 .. MaxWritten) /\ Len(n) = size /\ \A i \in 1 .. size : n[i] = accepted + i
  BY <1>1, <1>3, SocketAssumption
<1>5. b = write_buffer \o n
  BY <1>0, <1>3
<1>6. PICK M : M = 1 .. MaxWritten
  OBVIOUS
<1>7. /\ b \in Seq(M) /\ Len(b) = Len(write_buffer) + Len(n)
      /\ \A i \in 1 .. Len(write_buffer) : b[i] = write_buffer[i]
      /\ \A i \in 1 .. Len(n) : b[Len(write_buffer) + i] = n[i]
  <2>1. write_buffer \in Seq(M) /\ n \in Seq(M)
    BY <1>1, <1>4, <1>6
  <2> QED
    BY <1>5, <2>1, Concatenated
<1>8. ASSUME NEW i \in 1 .. Len(b) PROVE b[i] = Len(wire) + i
  <2>1. CASE i \in 1 .. Len(write_buffer)
    BY <1>2, <1>7, <2>1
  <2>2. CASE i \notin 1 .. Len(write_buffer)
    <3>1. PICK j : j = i - Len(write_buffer)
      OBVIOUS
    <3>2. j \in 1 .. size /\ i = Len(write_buffer) + j
      BY <1>1, <1>4, <1>7, <2>2, <3>1
    <3>3. b[Len(write_buffer) + j] = accepted + j
      BY <1>4, <1>7, <3>2
    <3> QED
      BY <1>1, <1>2, <3>2, <3>3
  <2> QED
    BY <2>1, <2>2
<1>9. Len(b) # 0
  BY <1>1, <1>4, <1>7
<1> QED
  BY <1>4, <1>6, <1>7, <1>8, <1>9

LEMMA ConnectionInit == Init => ConnectionInv
<1> SUFFICES ASSUME Init PROVE ConnectionInv
  OBVIOUS
<1>1. TypeOK
  <2>1. /\ subscribed \in BOOLEAN /\ got_error \in BOOLEAN
        /\ read_listener \in BOOLEAN /\ write_listener \in BOOLEAN
    BY Zenon DEF Init
  <2>2. /\ status \in {"running", "terminated"} /\ peer \in {"open", "closed"}
        /\ scope \in Nat /\ accepted \in 0 .. MaxWritten /\ taken \in 0 .. Len(incoming)
        /\ Len(write_buffer) <= write_buffer_limit
    BY SocketAssumption DEF Init
  <2>3. /\ read_buffer \in Seq(Byte) /\ write_buffer \in Seq(1 .. MaxWritten)
        /\ event_queue \in Seq([packet : Packet, scope : Nat])
        /\ incoming \in Seq(Byte) /\ wire \in Seq(1 .. MaxWritten)
        /\ delivered \in Seq(Packet)
    BY EmptySeq DEF Init
  <2> QED
    BY <2>1, <2>2, <2>3 DEF TypeOK
<1>2. ReadInv
  <2>1. Received = << >>
    BY SubSeqEmpty DEF Init, Received
  <2>2. << >> \in Stream
    BY DEF Stream
  <2>3. LastLine(<< >>) = << >>
    BY <2>2, LastLineStep
  <2>4. Frames(<< >>) = << >>
    BY <2>2, FramesStep
  <2>5. PacketsOf(event_queue) = << >> /\ Error = << >> /\ delivered = << >>
    BY DEF Init, PacketsOf, Error
  <2>6. read_buffer = << >>
    BY DEF Init
  <2> QED
    BY <2>1, <2>3, <2>4, <2>5, <2>6 DEF ReadInv
<1>3. ListenInv
  BY DEF Init, ListenInv, WriteListenerArmed
<1>4. ScopeInv
  BY DEF Init, ScopeInv
<1>5. WriteInv
  BY DEF Init, WriteInv
<1> QED
  BY <1>1, <1>2, <1>3, <1>4, <1>5 DEF ConnectionInv

LEMMA NullPacket == << Null >> \in Seq(Packet)
  BY DEF Packet

LEMMA TypeStep == ConnectionInv /\ [Next]_vars => TypeOK'
<1> SUFFICES ASSUME ConnectionInv, [Next]_vars PROVE TypeOK'
  OBVIOUS
<1> USE SocketAssumption
<1>0. TypeOK /\ ReadInv /\ WriteInv
  BY DEF ConnectionInv
<1>1. ASSUME NEW b \in Byte, PeerSends(b) PROVE TypeOK'
  <2>1. incoming' \in Seq(Byte) /\ Len(incoming') = Len(incoming) + 1
    BY <1>0, <1>1, AppendProperties DEF TypeOK, PeerSends
  <2>2. taken' \in 0 .. Len(incoming')
    BY <1>0, <1>1, <2>1 DEF TypeOK, PeerSends
  <2> QED
    BY <1>0, <1>1, <2>1, <2>2 DEF TypeOK, PeerSends, listeners, writing, events
<1>2. CASE PeerCloses
  BY <1>0, <1>2 DEF TypeOK, PeerCloses, listeners, writing, events
<1>3. ASSUME NEW k \in 1 .. MaxRead, OnReadReady(k) PROVE TypeOK'
  <2>1. PICK p \in LineSeq :
           /\ event_queue' = Queued(p)
           /\ p \in Seq(Packet)
           /\ taken' \in 0 .. Len(incoming)
           /\ read_buffer' \in Stream
    BY <1>0, <1>3, ChunkRead
  <2>2. Queued(p) \in Seq(Event)
    BY <1>0, <2>1, QueuedEvents
  <2>3. event_queue' \in Seq([packet : Packet, scope : Nat]) /\ read_buffer' \in Seq(Byte)
    BY <2>1, <2>2 DEF Event, Stream
  <2>4. UNCHANGED << status, subscribed, got_error, listeners, incoming, peer, writing,
                     scope, delivered >>
    BY <1>3 DEF OnReadReady
  <2> QED
    BY <1>0, <2>1, <2>3, <2>4 DEF TypeOK, listeners, writing
<1>4. CASE ReadError
  <2>1. Queued(<< Null >>) \in Seq(Event)
    BY <1>0, NullPacket, QueuedEvents
  <2>2. event_queue' \in Seq([packet : Packet, scope : Nat])
    BY <1>4, <2>1 DEF ReadError, HandleError, Event
  <2>3. got_error' \in BOOLEAN /\ read_listener' \in BOOLEAN /\ write_listener' \in BOOLEAN
    BY <1>4, Zenon DEF ReadError, HandleError
  <2>4. UNCHANGED << status, subscribed, reading, writing, scope, delivered >>
    BY <1>4 DEF ReadError
  <2> QED
    BY <1>0, <2>2, <2>3, <2>4 DEF TypeOK, reading, writing
<1>5. CASE Throws
  BY <1>0, <1>5 DEF TypeOK, Throws, listeners, reading, writing, events
<1>6. ASSUME NEW size \in LineSizes, Send(size) PROVE TypeOK'
  <2>1. /\ size \in Nat \ {0} /\ accepted + size <= MaxWritten /\ subscribed
        /\ Len(write_buffer) + size <= write_buffer_limit
        /\ write_buffer' = write_buffer \o [i \in 1 .. size |-> accepted + i]
        /\ accepted' = accepted + size
        /\ UNCHANGED << status, subscribed, got_error, read_listener, reading, wire, events >>
    BY <1>6 DEF Send, Fits
  <2>2. PICK b : b = write_buffer'
    OBVIOUS
  <2>3. b \in Seq(1 .. MaxWritten) /\ Len(b) = Len(write_buffer) + size
    BY <1>0, <2>1, <2>2, BytesAccepted
  <2>4. write_buffer' \in Seq(1 .. MaxWritten) /\ Len(write_buffer') <= write_buffer_limit
    BY <2>1, <2>2, <2>3
  <2>5. accepted' \in 0 .. MaxWritten
    BY <1>0, <2>1 DEF TypeOK
  <2>6. write_listener' \in BOOLEAN
    BY <1>6, Zenon DEF Send
  <2>7. UNCHANGED << status, subscribed, got_error, read_listener, reading, wire, events >>
    BY <2>1
  <2> QED
    BY <1>0, <2>4, <2>5, <2>6, <2>7 DEF TypeOK, reading, events
<1>7. ASSUME NEW pos \in 0 .. Len(write_buffer),
             wire' = wire \o SubSeq(write_buffer, 1, pos),
             write_buffer' = BufferAfterSend(pos)
      PROVE  /\ wire' \in Seq(1 .. MaxWritten)
             /\ write_buffer' \in Seq(1 .. MaxWritten)
             /\ Len(write_buffer') <= write_buffer_limit
  <2>1. PICK w, b : w = wire' /\ b = write_buffer'
    OBVIOUS
  <2>2. /\ w = wire \o SubSeq(write_buffer, 1, pos) /\ b = BufferAfterSend(pos)
        => /\ w \in Seq(1 .. MaxWritten)
           /\ b \in Seq(1 .. MaxWritten) /\ Len(b) = Len(write_buffer) - pos
    BY <1>0, BytesSent
  <2>3. /\ w \in Seq(1 .. MaxWritten)
        /\ b \in Seq(1 .. MaxWritten) /\ Len(b) = Len(write_buffer) - pos
    BY <1>7, <2>1, <2>2
  <2>4. Len(b) <= write_buffer_limit
    BY <1>0, <2>3 DEF TypeOK
  <2> QED
    BY <2>1, <2>3, <2>4
<1>8. ASSUME NEW pos \in 1 .. write_buffer_limit, OnWriteReady(pos) PROVE TypeOK'
  <2>1. /\ pos \in 0 .. Len(write_buffer)
        /\ wire' = wire \o SubSeq(write_buffer, 1, pos)
        /\ write_buffer' = BufferAfterSend(pos)
    BY <1>0, <1>8 DEF OnWriteReady, TypeOK
  <2>2. /\ wire' \in Seq(1 .. MaxWritten)
        /\ write_buffer' \in Seq(1 .. MaxWritten)
        /\ Len(write_buffer') <= write_buffer_limit
    BY <1>7, <2>1
  <2>3. write_listener' \in BOOLEAN
    <3>1. write_listener' = (pos < Len(write_buffer))
      BY <1>8 DEF OnWriteReady, WritesOn
    <3>2. (pos < Len(write_buffer)) \in BOOLEAN
      OBVIOUS
    <3> QED
      BY <3>1, <3>2, Zenon
  <2>4. UNCHANGED << status, subscribed, got_error, read_listener, reading, accepted, events >>
    BY <1>8 DEF OnWriteReady
  <2> QED
    BY <1>0, <2>2, <2>3, <2>4 DEF TypeOK, reading, events
<1>9. ASSUME NEW pos \in 0 .. write_buffer_limit, WriteError(pos) PROVE TypeOK'
  <2>1. /\ pos \in 0 .. Len(write_buffer)
        /\ wire' = wire \o SubSeq(write_buffer, 1, pos)
        /\ write_buffer' = BufferAfterSend(pos)
    BY <1>0, <1>9 DEF WriteError, TypeOK
  <2>2. /\ wire' \in Seq(1 .. MaxWritten)
        /\ write_buffer' \in Seq(1 .. MaxWritten)
        /\ Len(write_buffer') <= write_buffer_limit
    BY <1>7, <2>1
  <2>3. got_error' \in BOOLEAN /\ read_listener' \in BOOLEAN /\ write_listener' \in BOOLEAN
    BY <1>9, Zenon DEF WriteError, HandleError
  <2>4. Queued(<< Null >>) \in Seq(Event)
    BY <1>0, NullPacket, QueuedEvents
  <2>5. event_queue' \in Seq([packet : Packet, scope : Nat])
    BY <1>9, <2>4 DEF WriteError, HandleError, Event
  <2>6. UNCHANGED << status, subscribed, reading, accepted, scope, delivered >>
    BY <1>9 DEF WriteError
  <2> QED
    BY <1>0, <2>2, <2>3, <2>5, <2>6 DEF TypeOK, reading
<1>10. CASE HandleEvent
  <2>1. event_queue \in Seq(Event) /\ event_queue # << >> /\ delivered \in Seq(Packet)
    BY <1>0, <1>10 DEF TypeOK, HandleEvent, Event
  <2>2. Tail(event_queue) \in Seq(Event)
        /\ Append(delivered, Head(event_queue).packet) \in Seq(Packet)
    BY <2>1, QueueHead
  <2>3. delivered' \in Seq(Packet)
    BY <1>10, <2>1, <2>2, Zenon DEF HandleEvent
  <2>4. event_queue' \in Seq([packet : Packet, scope : Nat])
    BY <1>10, <2>2 DEF HandleEvent, Event
  <2>5. UNCHANGED << status, subscribed, got_error, listeners, reading, writing, scope >>
    BY <1>10 DEF HandleEvent
  <2> QED
    BY <1>0, <2>3, <2>4, <2>5 DEF TypeOK, listeners, reading, writing
<1>11. CASE Unsubscribe
  <2>1. subscribed' \in BOOLEAN /\ read_listener' \in BOOLEAN /\ write_listener' \in BOOLEAN
    BY <1>11, Zenon DEF Unsubscribe
  <2>2. /\ write_buffer' \in Seq(1 .. MaxWritten) /\ Len(write_buffer') <= write_buffer_limit
        /\ scope' \in Nat
        /\ UNCHANGED << status, got_error, reading, accepted, wire, event_queue, delivered >>
    BY <1>0, <1>11 DEF Unsubscribe, TypeOK
  <2> QED
    BY <1>0, <2>1, <2>2 DEF TypeOK, reading
<1>12. CASE UNCHANGED vars
  BY <1>0, <1>12 DEF TypeOK, vars, listeners, reading, writing, events
<1> QED
  BY <1>1, <1>2, <1>3, <1>4, <1>5, <1>6, <1>8, <1>9, <1>10, <1>11, <1>12 DEF Next

\* What a step does to the owner's side.  handle_error() is met by two of them.
ErrorStep ==
    /\ read_listener \/ write_listener
    /\ got_error' = TRUE
    /\ ~ read_listener' /\ ~ write_listener'
    /\ event_queue' = Queued(<< Null >>)
    /\ UNCHANGED << subscribed, scope, delivered, reading >>

LEMMA OwnerSteps ==
    ASSUME [Next]_vars
    PROVE  \/ \E b \in Byte : PeerSends(b)
           \/ \E k \in 1 .. MaxRead : OnReadReady(k)
           \/ ErrorStep
           \/ HandleEvent
           \/ Unsubscribe
           \/ UNCHANGED << subscribed, got_error, scope, event_queue, delivered,
                           read_buffer, incoming, taken >>
<1>1. ASSUME ReadError \/ \E pos \in 0 .. write_buffer_limit : WriteError(pos) PROVE ErrorStep
  <2>1. ASSUME ReadError PROVE ErrorStep
    BY <2>1, Zenon DEF ReadError, HandleError, ErrorStep
  <2>2. ASSUME NEW pos \in 0 .. write_buffer_limit, WriteError(pos) PROVE ErrorStep
    BY <2>2, Zenon DEF WriteError, HandleError, ErrorStep
  <2> QED
    BY <1>1, <2>1, <2>2
<1>2. ASSUME \/ PeerCloses
             \/ Throws
             \/ \E size \in LineSizes : Send(size)
             \/ \E pos \in 1 .. write_buffer_limit : OnWriteReady(pos)
             \/ UNCHANGED vars
      PROVE  UNCHANGED << subscribed, got_error, scope, event_queue, delivered,
                          read_buffer, incoming, taken >>
  BY <1>2 DEF PeerCloses, Throws, Send, OnWriteReady, vars, listeners, reading, writing, events
<1> QED
  BY <1>1, <1>2 DEF Next

LEMMA ScopeStep == ConnectionInv /\ [Next]_vars => ScopeInv'
<1> SUFFICES ASSUME ConnectionInv, [Next]_vars PROVE ScopeInv'
  OBVIOUS
<1>0. TypeOK /\ ReadInv /\ ListenInv /\ ScopeInv
  BY DEF ConnectionInv
<1>1. ASSUME NEW b \in Byte, PeerSends(b) PROVE ScopeInv'
  BY <1>0, <1>1 DEF ScopeInv, PeerSends, events
<1>2. ASSUME NEW p \in Seq(Packet), event_queue' = Queued(p), subscribed,
             UNCHANGED << subscribed, scope >>
      PROVE  ScopeInv'
  <2>1. \A i \in DOMAIN Queued(p) :
           \/ Queued(p)[i].scope = scope
           \/ i \in DOMAIN event_queue /\ Queued(p)[i].scope = event_queue[i].scope
    BY <1>0, QueuedEvents
  <2>2. \A i \in DOMAIN event_queue : event_queue[i].scope = scope
    BY <1>0, <1>2 DEF ScopeInv
  <2>3. \A i \in DOMAIN Queued(p) : Queued(p)[i].scope = scope
    BY <2>1, <2>2
  <2>4. subscribed' /\ scope' = scope
    BY <1>2
  <2>5. \A i \in DOMAIN event_queue' : event_queue'[i].scope = scope'
    BY <1>2, <2>3, <2>4
  <2> QED
    BY <2>4, <2>5 DEF ScopeInv
<1>3. ASSUME NEW k \in 1 .. MaxRead, OnReadReady(k) PROVE ScopeInv'
  <2>1. PICK p \in LineSeq : event_queue' = Queued(p) /\ p \in Seq(Packet)
    BY <1>0, <1>3, ChunkRead
  <2>2. subscribed /\ UNCHANGED << subscribed, scope >>
    BY <1>0, <1>3 DEF OnReadReady, ListenInv
  <2> QED
    BY <1>2, <2>1, <2>2
<1>4. CASE ErrorStep
  <2>1. subscribed /\ UNCHANGED << subscribed, scope >> /\ event_queue' = Queued(<< Null >>)
    BY <1>0, <1>4 DEF ErrorStep, ListenInv
  <2> QED
    BY <1>2, <2>1, NullPacket
<1>5. CASE HandleEvent
  <2>1. event_queue \in Seq(Event) /\ event_queue # << >> /\ delivered \in Seq(Packet)
    BY <1>0, <1>5 DEF TypeOK, HandleEvent, Event
  <2>2. \A i \in DOMAIN Tail(event_queue) :
           Tail(event_queue)[i] = event_queue[i + 1] /\ i + 1 \in DOMAIN event_queue
    BY <2>1, QueueHead
  <2>3. event_queue' = Tail(event_queue) /\ UNCHANGED << subscribed, scope >>
    BY <1>5 DEF HandleEvent
  <2>4. ASSUME NEW i \in DOMAIN event_queue'
        PROVE  IF subscribed THEN event_queue'[i].scope = scope ELSE event_queue'[i].scope < scope
    <3>1. event_queue'[i] = event_queue[i + 1] /\ i + 1 \in DOMAIN event_queue
      BY <2>2, <2>3
    <3>2. IF subscribed THEN event_queue[i + 1].scope = scope ELSE event_queue[i + 1].scope < scope
      BY <1>0, <3>1 DEF ScopeInv
    <3> QED
      BY <3>1, <3>2
  <2> QED
    BY <2>3, <2>4 DEF ScopeInv
<1>6. CASE Unsubscribe
  <2>1. ~ subscribed' /\ subscribed /\ event_queue' = event_queue /\ scope' = scope + 1
    BY <1>6 DEF Unsubscribe
  <2>2. scope \in Nat /\ \A i \in DOMAIN event_queue : event_queue[i].scope = scope
    BY <1>0, <2>1 DEF ScopeInv, TypeOK
  <2>3. \A i \in DOMAIN event_queue' : event_queue'[i].scope < scope'
    BY <2>1, <2>2
  <2> QED
    BY <2>1, <2>3 DEF ScopeInv
<1>7. CASE UNCHANGED << subscribed, got_error, scope, event_queue, delivered,
                        read_buffer, incoming, taken >>
  BY <1>0, <1>7 DEF ScopeInv
<1> QED
  BY <1>1, <1>3, <1>4, <1>5, <1>6, <1>7, OwnerSteps

LEMMA ReadStep == ConnectionInv /\ [Next]_vars => ReadInv'
<1> SUFFICES ASSUME ConnectionInv, [Next]_vars PROVE ReadInv'
  OBVIOUS
<1>0. TypeOK /\ ReadInv /\ ListenInv /\ ScopeInv
  BY DEF ConnectionInv
<1>1. /\ event_queue \in Seq(Event) /\ delivered \in Seq(Packet)
      /\ incoming \in Stream /\ Len(incoming) \in Nat /\ taken \in 0 .. Len(incoming)
  BY <1>0 DEF TypeOK, Event, Stream
<1>2. Received \in Stream
  <2>1. \A i \in 1 .. taken : incoming[i] \in Byte
    BY <1>1 DEF Stream
  <2> QED
    BY <1>1, <2>1, SubSeqProperties DEF Received, Stream
<1>3. Frames(Received) \in Seq(Packet)
  <2>1. Stream \subseteq Packet
    BY DEF Stream, Packet
  <2>2. Frames(Received) \in LineSeq
    BY <1>2, FramesStep
  <2> QED
    BY <2>1, <2>2, SeqMonotonic DEF LineSeq
<1>4. PacketsOf(event_queue) \in Seq(Packet)
  BY <1>1, PacketsTyped
\* More packets in the queue: the sequence that the owner is told grows by them.
<1>5. ASSUME NEW p \in Seq(Packet), event_queue' = Queued(p), subscribed, ~ got_error,
             UNCHANGED delivered
      PROVE  delivered' \o PacketsOf(event_queue') = Frames(Received) \o p
  <2>1. PacketsOf(event_queue') = PacketsOf(event_queue) \o p
    <3>1. PacketsOf(Queued(p)) = PacketsOf(event_queue) \o p
      BY <1>0, QueuedEvents
    <3> QED
      BY <1>5, <3>1
  <2>2. delivered \o PacketsOf(event_queue) = Frames(Received)
    <3>1. Frames(Received) \o << >> = Frames(Received)
      BY <1>3, ConcatEmptySeq
    <3>2. Error = << >>
      BY <1>5 DEF Error
    <3> QED
      BY <1>0, <1>5, <3>1, <3>2 DEF ReadInv
  <2>3. (delivered \o PacketsOf(event_queue)) \o p = delivered \o (PacketsOf(event_queue) \o p)
    BY <1>1, <1>4, ConcatAssociative
  <2> QED
    BY <1>5, <2>1, <2>2, <2>3, Zenon
<1>6. ASSUME NEW b \in Byte, PeerSends(b) PROVE ReadInv'
  <2>1. /\ incoming' = Append(incoming, b)
        /\ UNCHANGED << subscribed, got_error, event_queue, delivered, read_buffer, taken >>
    BY <1>6 DEF PeerSends, events
  <2>2. SubSeq(incoming', 1, taken) = SubSeq(incoming, 1, taken)
    <3>1. 1 \in 1 .. Len(incoming) + 1
      BY <1>1
    <3> QED
      BY <1>1, <2>1, <3>1, OneMore
  <2>3. Received' = Received /\ Error' = Error
    BY <2>1, <2>2 DEF Received, Error
  <2> QED
    BY <1>0, <2>1, <2>3 DEF ReadInv
<1>7. ASSUME NEW k \in 1 .. MaxRead, OnReadReady(k) PROVE ReadInv'
  <2>1. PICK p \in LineSeq :
           /\ event_queue' = Queued(p)
           /\ p \in Seq(Packet)
           /\ read_buffer' = LastLine(SubSeq(incoming, 1, taken'))
           /\ Frames(SubSeq(incoming, 1, taken')) = Frames(Received) \o p
    BY <1>0, <1>7, ChunkRead
  <2>2. subscribed /\ ~ got_error /\ UNCHANGED << subscribed, got_error, incoming, delivered >>
    BY <1>0, <1>7 DEF OnReadReady, ListenInv
  <2>3. Received' = SubSeq(incoming, 1, taken') /\ Error' = << >>
    BY <2>2 DEF Received, Error
  <2>4. delivered' \o PacketsOf(event_queue') = Frames(Received')
    BY <1>5, <2>1, <2>2, <2>3
  <2>5. Frames(Received') \o Error' = Frames(Received')
    <3>1. Frames(Received) \o p \in Seq(Packet)
      BY <1>3, <2>1, ConcatProperties
    <3>2. Frames(Received') \in Seq(Packet)
      BY <2>1, <2>3, <3>1
    <3> QED
      BY <2>3, <3>2, ConcatEmptySeq
  <2>6. delivered' \o PacketsOf(event_queue') = Frames(Received') \o Error'
    BY <2>4, <2>5, Zenon
  <2> QED
    BY <2>1, <2>3, <2>6 DEF ReadInv
<1>8. CASE ErrorStep
  <2>1. /\ subscribed /\ ~ got_error /\ got_error'
        /\ event_queue' = Queued(<< Null >>)
        /\ UNCHANGED << subscribed, incoming, taken, read_buffer, delivered >>
    BY <1>0, <1>8 DEF ErrorStep, ListenInv, reading
  <2>2. Received' = Received /\ Error' = << Null >>
    BY <2>1 DEF Received, Error
  <2>3. delivered' \o PacketsOf(event_queue') = Frames(Received) \o << Null >>
    BY <1>5, <2>1, NullPacket
  <2> QED
    BY <1>0, <2>1, <2>2, <2>3 DEF ReadInv
<1>9. CASE HandleEvent
  <2>1. /\ event_queue # << >> /\ event_queue' = Tail(event_queue)
        /\ delivered' = IF Valid(Head(event_queue))
                          THEN Append(delivered, Head(event_queue).packet) ELSE delivered
        /\ UNCHANGED << subscribed, got_error, incoming, taken, read_buffer >>
    BY <1>9 DEF HandleEvent, reading
  <2>2. Received' = Received /\ Error' = Error
    BY <2>1 DEF Received, Error
  <2>3. /\ Head(event_queue) = event_queue[1] /\ 1 \in DOMAIN event_queue
        /\ Append(delivered, Head(event_queue).packet) \o PacketsOf(Tail(event_queue))
              = delivered \o PacketsOf(event_queue)
    BY <1>1, <2>1, QueueHead
  <2>4. ASSUME subscribed
        PROVE  delivered' \o PacketsOf(event_queue') = delivered \o PacketsOf(event_queue)
    <3>1. Valid(Head(event_queue))
      BY <1>0, <2>3, <2>4 DEF ScopeInv, Valid
    <3> QED
      BY <2>1, <2>3, <3>1
  <2> QED
    BY <1>0, <2>1, <2>2, <2>4 DEF ReadInv
<1>10. CASE Unsubscribe
  <2>1. ~ subscribed' /\ UNCHANGED << incoming, taken, read_buffer >>
    BY <1>10 DEF Unsubscribe, reading
  <2> QED
    BY <1>0, <2>1 DEF ReadInv, Received
<1>11. CASE UNCHANGED << subscribed, got_error, scope, event_queue, delivered,
                         read_buffer, incoming, taken >>
  BY <1>0, <1>11 DEF ReadInv, Received, PacketsOf, Error
<1> QED
  BY <1>6, <1>7, <1>8, <1>9, <1>10, <1>11, OwnerSteps

\* What a step does to the bytes to be sent.
SentStep(pos) ==
    /\ write_listener
    /\ pos \in 0 .. Len(write_buffer)
    /\ wire' = wire \o SubSeq(write_buffer, 1, pos)
    /\ write_buffer' = BufferAfterSend(pos)
    /\ UNCHANGED << subscribed, accepted >>

LEMMA WriterSteps ==
    ASSUME TypeOK, [Next]_vars
    PROVE  \/ \E size \in LineSizes : Send(size)
           \/ \E pos \in 1 .. write_buffer_limit : OnWriteReady(pos) /\ SentStep(pos)
           \/ \E pos \in 0 .. write_buffer_limit : WriteError(pos) /\ SentStep(pos)
           \/ Unsubscribe
           \/ ReadError /\ UNCHANGED << subscribed, accepted, wire, write_buffer >>
           \/ UNCHANGED << subscribed, got_error, accepted, wire, write_buffer,
                           read_listener, write_listener >>
<1>1. Len(write_buffer) \in Nat
  BY DEF TypeOK
<1>2. ASSUME NEW pos \in 1 .. write_buffer_limit, OnWriteReady(pos) PROVE SentStep(pos)
  BY <1>1, <1>2 DEF OnWriteReady, SentStep
<1>3. ASSUME NEW pos \in 0 .. write_buffer_limit, WriteError(pos) PROVE SentStep(pos)
  BY <1>1, <1>3 DEF WriteError, SentStep
<1>4. ASSUME ReadError PROVE UNCHANGED << subscribed, accepted, wire, write_buffer >>
  BY <1>4 DEF ReadError, writing
<1>5. ASSUME \/ \E b \in Byte : PeerSends(b)
             \/ PeerCloses
             \/ \E k \in 1 .. MaxRead : OnReadReady(k)
             \/ Throws
             \/ HandleEvent
             \/ UNCHANGED vars
      PROVE  UNCHANGED << subscribed, got_error, accepted, wire, write_buffer,
                          read_listener, write_listener >>
  BY <1>5 DEF PeerSends, PeerCloses, OnReadReady, Throws, HandleEvent, vars, listeners, writing
<1> QED
  BY <1>2, <1>3, <1>4, <1>5 DEF Next

LEMMA WriteStep == ConnectionInv /\ [Next]_vars => WriteInv'
<1> SUFFICES ASSUME ConnectionInv, [Next]_vars PROVE WriteInv'
  OBVIOUS
<1>0. TypeOK /\ ListenInv /\ WriteInv
  BY DEF ConnectionInv
<1>1. /\ Len(wire) \in Nat /\ Len(write_buffer) \in Nat /\ accepted \in Nat
  BY <1>0, SocketAssumption DEF TypeOK
<1>2. ASSUME NEW size \in LineSizes, Send(size) PROVE WriteInv'
  <2>1. /\ size \in Nat \ {0} /\ accepted + size <= MaxWritten /\ subscribed
        /\ write_buffer' = write_buffer \o [i \in 1 .. size |-> accepted + i]
    BY <1>2, SocketAssumption DEF Send
  <2>2. accepted' = accepted + size /\ subscribed' /\ wire' = wire
    BY <1>2 DEF Send
  <2>3. PICK b : b = write_buffer'
    OBVIOUS
  <2>4. Len(b) = Len(write_buffer) + size /\ \A i \in 1 .. Len(b) : b[i] = Len(wire) + i
    <3>1. b = write_buffer \o [i \in 1 .. size |-> accepted + i]
      BY <2>1, <2>3
    <3>2. /\ TypeOK /\ WriteInv /\ subscribed /\ size \in Nat \ {0}
          /\ accepted + size <= MaxWritten
      BY <1>0, <2>1
    <3> QED
      BY <3>1, <3>2, BytesAccepted, Zenon
  <2>5. Len(wire) + Len(write_buffer) = accepted /\ \A i \in 1 .. Len(wire) : wire[i] = i
    BY <1>0, <2>1 DEF WriteInv
  <2>6. Len(wire) + Len(b) = accepted + size /\ Len(wire) <= accepted + size
    <3>1. /\ size \in Nat /\ Len(b) = Len(write_buffer) + size
          /\ Len(wire) + Len(write_buffer) = accepted
      BY <2>1, <2>4, <2>5
    <3> QED
      BY <1>1, <3>1
  <2> QED
    BY <2>2, <2>3, <2>4, <2>5, <2>6 DEF WriteInv
<1>3. ASSUME NEW pos, SentStep(pos) PROVE WriteInv'
  <2>1. pos \in 0 .. Len(write_buffer) /\ subscribed /\ subscribed' /\ accepted' = accepted
    BY <1>0, <1>3 DEF SentStep, ListenInv
  <2>2. PICK w, b : w = wire' /\ b = write_buffer'
    OBVIOUS
  <2>3. w = wire \o SubSeq(write_buffer, 1, pos) /\ b = BufferAfterSend(pos)
    BY <1>3, <2>2 DEF SentStep
  <2>4. TypeOK /\ WriteInv
    BY <1>0
  <2>5. /\ Len(w) = Len(wire) + pos
        /\ \A i \in 1 .. Len(w) : w[i] = i
        /\ Len(b) = Len(write_buffer) - pos
        /\ \A i \in 1 .. Len(b) : b[i] = Len(w) + i
    <3>1. pos \in 0 .. Len(write_buffer)
      BY <2>1
    <3>2. /\ w = wire \o SubSeq(write_buffer, 1, pos)
          /\ b = BufferAfterSend(pos)
          => /\ w \in Seq(1 .. MaxWritten) /\ Len(w) = Len(wire) + pos
             /\ \A i \in 1 .. Len(w) : w[i] = i
             /\ b \in Seq(1 .. MaxWritten) /\ Len(b) = Len(write_buffer) - pos
             /\ \A i \in 1 .. Len(b) : b[i] = Len(w) + i
             /\ b = << >> <=> pos = Len(write_buffer)
      BY <2>4, <3>1, BytesSent, Zenon
    <3> QED
      BY <2>3, <3>2, Zenon
  <2>6. Len(wire) + Len(write_buffer) = accepted
    BY <1>0, <2>1 DEF WriteInv
  <2>7. Len(w) + Len(b) = accepted /\ Len(w) <= accepted
    <3>1. Len(w) = Len(wire) + pos /\ Len(b) = Len(write_buffer) - pos
      BY <2>5
    <3> QED
      BY <1>1, <2>1, <2>6, <3>1
  <2> QED
    BY <2>1, <2>2, <2>5, <2>7 DEF WriteInv
<1>4. CASE Unsubscribe
  <2>1. ~ subscribed' /\ write_buffer' = << >> /\ wire' = wire /\ accepted' = accepted
    BY <1>4 DEF Unsubscribe
  <2>2. Len(wire) <= accepted /\ \A i \in 1 .. Len(wire) : wire[i] = i
    BY <1>0 DEF WriteInv
  <2> QED
    BY <2>1, <2>2 DEF WriteInv
<1>5. CASE UNCHANGED << subscribed, accepted, wire, write_buffer >>
  BY <1>0, <1>5 DEF WriteInv
<1> QED
  BY <1>0, <1>2, <1>3, <1>4, <1>5, WriterSteps

LEMMA ListenStep == ConnectionInv /\ [Next]_vars => ListenInv'
<1> SUFFICES ASSUME ConnectionInv, [Next]_vars PROVE ListenInv'
  OBVIOUS
<1>0. TypeOK /\ ListenInv /\ WriteInv
  BY DEF ConnectionInv
<1>1. ASSUME NEW size \in LineSizes, Send(size) PROVE ListenInv'
  <2>1. /\ size \in Nat \ {0} /\ accepted + size <= MaxWritten /\ subscribed
        /\ write_buffer' = write_buffer \o [i \in 1 .. size |-> accepted + i]
    BY <1>1, SocketAssumption DEF Send
  <2>2. /\ subscribed' /\ ~ got_error' /\ write_listener'
    BY <1>1 DEF Send
  <2>3. PICK b : b = write_buffer'
    OBVIOUS
  <2>4. b # << >>
    BY <1>0, <2>1, <2>3, BytesAccepted
  <2> QED
    BY <2>2, <2>3, <2>4 DEF ListenInv, WriteListenerArmed
<1>2. ASSUME NEW pos \in 1 .. write_buffer_limit, OnWriteReady(pos), SentStep(pos)
      PROVE  ListenInv'
  <2>1. /\ pos \in 0 .. Len(write_buffer) /\ subscribed' /\ ~ got_error'
        /\ write_listener' = (pos < Len(write_buffer))
    BY <1>0, <1>2 DEF OnWriteReady, SentStep, ListenInv, WritesOn
  <2>2. PICK w, b : w = wire' /\ b = write_buffer'
    OBVIOUS
  <2>3. w = wire \o SubSeq(write_buffer, 1, pos) /\ b = BufferAfterSend(pos)
    BY <1>2, <2>2 DEF SentStep
  <2>4. /\ w = wire \o SubSeq(write_buffer, 1, pos) /\ b = BufferAfterSend(pos)
        => (b = << >> <=> pos = Len(write_buffer))
    BY <1>0, <2>1, BytesSent
  <2>5. b = << >> <=> pos = Len(write_buffer)
    BY <2>3, <2>4
  <2>6. pos < Len(write_buffer) <=> pos # Len(write_buffer)
    BY <1>0, <2>1 DEF TypeOK
  <2>7. write_listener' <=> write_buffer' # << >>
    BY <2>1, <2>2, <2>5, <2>6
  <2> QED
    BY <2>1, <2>7 DEF ListenInv, WriteListenerArmed
<1>3. ASSUME HandleError PROVE ListenInv'
  BY <1>3 DEF HandleError, ListenInv, WriteListenerArmed
<1>4. CASE Unsubscribe
  BY <1>4 DEF Unsubscribe, ListenInv, WriteListenerArmed
<1>5. CASE UNCHANGED << subscribed, got_error, accepted, wire, write_buffer,
                        read_listener, write_listener >>
  BY <1>0, <1>5 DEF ListenInv, WriteListenerArmed
<1>6. (ReadError \/ \E pos \in 0 .. write_buffer_limit : WriteError(pos)) => HandleError
  BY DEF ReadError, WriteError
<1> QED
  BY <1>0, <1>1, <1>2, <1>3, <1>4, <1>5, <1>6, WriterSteps

LEMMA ConnectionInvariant == Spec => []ConnectionInv
<1>1. ConnectionInv /\ [Next]_vars => ConnectionInv'
  BY TypeStep, ReadStep, ListenStep, ScopeStep, WriteStep DEF ConnectionInv
<1> QED
  BY ConnectionInit, <1>1, PTL DEF Spec

-----------------------------------------------------------------------------
(***************************************************************************)
(* Theorems                                                                *)
(***************************************************************************)

\* The connection's state has its type, whatever the limits: in particular
\* write_buffer_ never holds more than its limit (SocketConnection::impl_send).
THEOREM ConnectionTypeCorrect == Spec => []TypeOK
<1>1. ConnectionInv => TypeOK
  BY DEF ConnectionInv
<1> QED
  BY <1>1, ConnectionInvariant, PTL

\* Accepted bytes are never stranded without a write listener, and the listener
\* never waits with nothing to write (impl_send, on_write_ready, handle_error).
THEOREM WritesNeverStrand == Spec => []WriteListenerArmed
<1>1. ConnectionInv => WriteListenerArmed
  BY DEF ConnectionInv, ListenInv
<1> QED
  BY <1>1, ConnectionInvariant, PTL

\* Until the owner leaves, told and queued are together the lines received and then
\* the error, and sent and buffered are together the bytes handed over: neither a
\* failing socket (handle_error) nor a partial send() (on_write_ready) drops anything.
THEOREM NothingEverLost == Spec => []NothingLost
<1>1. ConnectionInv => NothingLost
  BY DEF ConnectionInv, ReadInv, WriteInv, NothingLost
<1> QED
  BY <1>1, ConnectionInvariant, PTL

\* What the owner is told next: the next line, or the error if there is none left.
LEMMA NextTold ==
    ASSUME ConnectionInv, subscribed, event_queue # << >>
    PROVE  /\ ~ (delivered # << >> /\ delivered[Len(delivered)] = Null)
           /\ \/ Head(event_queue).packet = Null
              \/ /\ Len(delivered) < Len(Frames(incoming))
                 /\ Head(event_queue).packet = Frames(incoming)[Len(delivered) + 1]
<1>1. /\ event_queue \in Seq(Event) /\ delivered \in Seq(Packet)
      /\ incoming \in Stream /\ Len(incoming) \in Nat /\ taken \in 0 .. Len(incoming)
  BY DEF ConnectionInv, TypeOK, Event, Stream
<1>2. PICK f : f = Frames(Received)
  OBVIOUS
<1>3. PICK g : g = Frames(incoming)
  OBVIOUS
<1>4. PICK rest : rest = SubSeq(incoming, taken + 1, Len(incoming))
  OBVIOUS
<1>5. Received \in Stream /\ rest \in Stream /\ Received \o rest = incoming
  <2>1. /\ taken + 1 \in 1 .. Len(incoming) + 1 /\ 1 \in 1 .. Len(incoming) + 1
        /\ taken + 1 \in 1 .. Len(incoming) + 1 /\ (taken + 1) - 1 = taken
        /\ Len(incoming) + 1 \in taken + 1 .. Len(incoming) + 1
        /\ (Len(incoming) + 1) - 1 = Len(incoming)
    BY <1>1
  <2>2. /\ SubSeq(incoming, 1, (taken + 1) - 1) \in Stream
        /\ SubSeq(incoming, 1, (taken + 1) - 1) \o SubSeq(incoming, taken + 1, Len(incoming))
              = SubSeq(incoming, 1, Len(incoming))
    BY <1>1, <2>1, CutPart
  <2>3. SubSeq(incoming, taken + 1, (Len(incoming) + 1) - 1) \in Stream
    BY <1>1, <2>1, CutPart
  <2>4. SubSeq(incoming, 1, Len(incoming)) = incoming
    BY <1>1, PartEnds
  <2> QED
    BY <1>4, <2>1, <2>2, <2>3, <2>4 DEF Received
<1>6. PICK h : h = Frames(LastLine(Received) \o rest)
  OBVIOUS
<1>7. g = f \o h
  BY <1>2, <1>3, <1>5, <1>6, FramesInParts
<1>8. f \in LineSeq /\ h \in LineSeq
  <2>1. LastLine(Received) \in Stream
    BY <1>5, LastLineStep
  <2>2. LastLine(Received) \o rest \in Stream
    BY <1>5, <2>1, ConcatProperties DEF Stream
  <2> QED
    BY <1>2, <1>5, <1>6, <2>2, FramesStep
<1>9. /\ Len(g) = Len(f) + Len(h) /\ \A i \in 1 .. Len(f) : g[i] = f[i]
  <2>1. f \in Seq(Stream) /\ h \in Seq(Stream)
    BY <1>8 DEF LineSeq
  <2> QED
    BY <1>7, <2>1, Concatenated
<1>10. Len(f) \in Nat /\ Len(h) \in Nat /\ \A i \in 1 .. Len(f) : f[i] \in Stream /\ f[i] # Null
  BY <1>8, SocketAssumption DEF LineSeq, Stream
<1>11. PICK e : e = Error
  OBVIOUS
<1>12. e \in Seq(Packet) /\ Len(e) \in 0 .. 1 /\ (Len(e) = 1 => e[1] = Null)
  <2>1. e = << Null >> \/ e = << >>
    BY <1>11 DEF Error
  <2>2. << >> \in Seq(Packet)
    BY EmptySeq
  <2>3. CASE e = << Null >>
    <3>1. Len(e) = 1 /\ e[1] = Null
      BY <2>3
    <3> QED
      BY <2>3, <3>1, NullPacket
  <2>4. CASE e = << >>
    <3>1. Len(e) = 0
      BY <2>4
    <3> QED
      BY <2>2, <2>4, <3>1
  <2> QED
    BY <2>1, <2>3, <2>4
<1>13. f \in Seq(Packet)
  <2>1. Stream \subseteq Packet
    BY DEF Stream, Packet
  <2> QED
    BY <1>8, <2>1, SeqMonotonic DEF LineSeq
<1>14. PICK y : y = f \o e
  OBVIOUS
<1>15. /\ Len(y) = Len(f) + Len(e)
       /\ \A i \in 1 .. Len(f) : y[i] = f[i]
       /\ \A i \in 1 .. Len(e) : y[Len(f) + i] = e[i]
  <2>1. e \in Seq(Packet)
    BY <1>12
  <2> QED
    BY <1>13, <1>14, <2>1, Concatenated
<1>16. delivered \o PacketsOf(event_queue) = y
  BY <1>2, <1>11, <1>14 DEF ConnectionInv, ReadInv
<1>17. PICK d : d = Len(delivered)
  OBVIOUS
<1>18. /\ Len(delivered \o PacketsOf(event_queue)) >= Len(delivered) + 1
       /\ (delivered \o PacketsOf(event_queue))[Len(delivered) + 1] = Head(event_queue).packet
       /\ \A i \in 1 .. Len(delivered) :
             (delivered \o PacketsOf(event_queue))[i] = delivered[i]
  BY <1>1, QueueHead
<1>19. /\ Len(y) >= d + 1 /\ y[d + 1] = Head(event_queue).packet
       /\ \A i \in 1 .. d : y[i] = delivered[i]
  BY <1>16, <1>17, <1>18, Zenon
<1>20. d \in Nat /\ (delivered # << >> => d # 0)
  BY <1>1, <1>17, EmptySeq
<1>21. Len(y) >= d + 1 /\ Len(y) = Len(f) + Len(e) /\ Len(e) \in 0 .. 1
  BY <1>12, <1>15, <1>19
<1>22. d <= Len(f) /\ (d + 1 \in 1 .. Len(f) \/ (d = Len(f) /\ Len(e) = 1))
  <2>1. Len(f) \in Nat /\ d \in Nat
    BY <1>10, <1>20
  <2>2. PICK m, n : m = Len(f) /\ n = Len(e)
    OBVIOUS
  <2>3. m \in Nat /\ n \in 0 .. 1 /\ m + n >= d + 1
    BY <1>21, <2>1, <2>2
  <2>4. d <= m /\ (d + 1 \in 1 .. m \/ (d = m /\ n = 1))
    BY <2>1, <2>3
  <2> QED
    BY <2>2, <2>4
<1>23. ~ (delivered # << >> /\ delivered[d] = Null)
  <2>1. d # 0 => d \in 1 .. Len(f) /\ d \in 1 .. d
    BY <1>10, <1>20, <1>22
  <2>2. d # 0 => delivered[d] = f[d] /\ f[d] # Null
    BY <1>10, <1>15, <1>19, <2>1
  <2> QED
    BY <1>20, <2>2
<1>24. CASE d + 1 \in 1 .. Len(f)
  <2>1. y[d + 1] = g[d + 1]
    BY <1>9, <1>15, <1>24
  <2>2. d < Len(g)
    <3>1. Len(g) = Len(f) + Len(h)
      BY <1>9
    <3> QED
      BY <1>10, <1>20, <1>24, <3>1
  <2> QED
    BY <1>3, <1>17, <1>19, <1>23, <2>1, <2>2, Zenon
<1>25. CASE d = Len(f) /\ Len(e) = 1
  <2>1. y[d + 1] = Null
    BY <1>12, <1>15, <1>25
  <2> QED
    BY <1>17, <1>19, <1>23, <2>1, Zenon
<1> QED
  BY <1>22, <1>24, <1>25

\* The connection implements the line channel: see ImplementsLineChannel.
THEOREM ConnectionRefines == Spec => ImplementsLineChannel
<1>1. Init => Channel!Init
  <2>1. << >> \in Stream
    BY DEF Stream
  <2>2. Frames(<< >>) = << >>
    BY <2>1, FramesStep
  <2> QED
    BY <2>2 DEF Init, Channel!Init
<1>2. ConnectionInv /\ [Next]_vars => [Channel!Next]_(Channel!vars)
  <2> SUFFICES ASSUME ConnectionInv, [Next]_vars PROVE [Channel!Next]_(Channel!vars)
    OBVIOUS
  <2>0. TypeOK /\ ListenInv /\ ScopeInv /\ WriteInv
    BY DEF ConnectionInv
  <2>1. ASSUME NEW b \in Byte, PeerSends(b) PROVE [Channel!Next]_(Channel!vars)
    <3>1. /\ incoming' = Append(incoming, b) /\ incoming \in Stream
          /\ UNCHANGED << subscribed, delivered, accepted, wire >>
      BY <2>0, <2>1 DEF PeerSends, TypeOK, Stream, writing, events
    <3>2. PICK f, l : f = Frames(incoming) /\ l = HandleLine(LastLine(incoming))
      OBVIOUS
    <3>3. Frames(incoming') = IF b = "n" THEN f \o l ELSE f
      BY <3>1, <3>2, FramesStep
    <3>4. f \in LineSeq
      BY <3>1, <3>2, FramesStep
    <3>5. l \in LineSeq /\ (l = << >> \/ Len(l) = 1)
      <4>1. LastLine(incoming) \in Stream
        BY <3>1, LastLineStep
      <4> QED
        BY <3>2, <4>1, HandleLineResult
    <3>6. f \o << >> = f
      BY <3>4, ConcatEmptySeq DEF LineSeq
    <3>7. CASE b = "n" /\ Len(l) = 1
      <4>1. PICK g : g = f \o l
        OBVIOUS
      <4>2. f \in Seq(Stream) /\ l \in Seq(Stream)
        BY <3>4, <3>5 DEF LineSeq
      <4>3. g \in Seq(Stream) /\ Len(g) = Len(f) + Len(l) /\ \A i \in 1 .. Len(f) : g[i] = f[i]
        BY <4>1, <4>2, Concatenated
      <4>4. Len(g) = Len(f) + 1
        BY <3>7, <4>3
      <4>5. SubSeq(g, 1, Len(f)) = f
        BY <4>2, <4>3, <4>4
      <4>6. Frames(incoming') = g
        BY <3>3, <3>7, <4>1
      <4>7. Channel!PeerCompletesLine
        BY <3>1, <3>2, <4>4, <4>5, <4>6 DEF Channel!PeerCompletesLine
      <4> QED
        BY <4>7 DEF Channel!Next
    <3>8. CASE b # "n" \/ l = << >>
      BY <3>1, <3>2, <3>3, <3>6, <3>8 DEF Channel!vars
    <3> QED
      BY <3>5, <3>7, <3>8
  <2>2. CASE HandleEvent
    <3>1. /\ event_queue # << >>
          /\ delivered' = IF Valid(Head(event_queue))
                            THEN Append(delivered, Head(event_queue).packet) ELSE delivered
          /\ UNCHANGED << subscribed, incoming, accepted, wire >>
      BY <2>2 DEF HandleEvent, reading, writing
    <3>2. CASE subscribed /\ Valid(Head(event_queue))
      <4>1. PICK p : p = Head(event_queue).packet
        OBVIOUS
      <4>2. /\ ~ (delivered # << >> /\ delivered[Len(delivered)] = Null)
            /\ \/ p = Null
               \/ /\ Len(delivered) < Len(Frames(incoming))
                  /\ p = Frames(incoming)[Len(delivered) + 1]
        BY <3>1, <3>2, <4>1, NextTold
      <4>3. delivered' = Append(delivered, p)
        BY <3>1, <3>2, <4>1
      <4>4. Channel!Tell
        BY <3>1, <3>2, <4>2, <4>3 DEF Channel!Tell, Channel!Failed
      <4> QED
        BY <4>4 DEF Channel!Next
    <3>3. CASE ~ Valid(Head(event_queue))
      BY <3>1, <3>3 DEF Channel!vars
    <3>4. Valid(Head(event_queue)) => subscribed
      <4>1. event_queue \in Seq(Event) /\ delivered \in Seq(Packet) /\ scope \in Nat
        BY <2>0 DEF TypeOK, Event
      <4>2. Head(event_queue) = event_queue[1] /\ 1 \in DOMAIN event_queue
        BY <3>1, <4>1, QueueHead
      <4>3. ~ subscribed => Head(event_queue).scope < scope
        BY <2>0, <4>2 DEF ScopeInv
      <4> QED
        BY <4>1, <4>3 DEF Valid
    <3> QED
      BY <3>2, <3>3, <3>4
  <2>3. ASSUME NEW size \in LineSizes, Send(size) PROVE [Channel!Next]_(Channel!vars)
    <3>1. /\ subscribed /\ size \in Nat \ {0} /\ accepted \in Nat /\ accepted' = accepted + size
          /\ UNCHANGED << subscribed, incoming, delivered, wire >>
      BY <2>0, <2>3, SocketAssumption DEF Send, TypeOK, reading, events
    <3>2. Channel!Accept
      BY <3>1 DEF Channel!Accept
    <3> QED
      BY <3>2 DEF Channel!Next
  <2>4. ASSUME NEW pos, SentStep(pos), UNCHANGED << incoming, delivered >>
        PROVE  [Channel!Next]_(Channel!vars)
    <3>1. /\ subscribed /\ pos \in 0 .. Len(write_buffer)
          /\ UNCHANGED << subscribed, incoming, delivered, accepted >>
          /\ Len(wire) \in Nat /\ Len(write_buffer) \in Nat /\ accepted \in Nat
      BY <2>0, <2>4, SocketAssumption DEF SentStep, ListenInv, TypeOK
    <3>2. PICK w, b : w = wire' /\ b = write_buffer'
      OBVIOUS
    <3>3. w = wire \o SubSeq(write_buffer, 1, pos) /\ b = BufferAfterSend(pos)
      BY <2>4, <3>2 DEF SentStep
    <3>4. w \in Seq(1 .. MaxWritten) /\ Len(w) = Len(wire) + pos /\ \A i \in 1 .. Len(w) : w[i] = i
      <4>1. TypeOK /\ WriteInv /\ pos \in 0 .. Len(write_buffer)
        BY <2>0, <3>1
      <4>2. /\ w = wire \o SubSeq(write_buffer, 1, pos)
            /\ b = BufferAfterSend(pos)
            => /\ w \in Seq(1 .. MaxWritten) /\ Len(w) = Len(wire) + pos
               /\ \A i \in 1 .. Len(w) : w[i] = i
               /\ b \in Seq(1 .. MaxWritten) /\ Len(b) = Len(write_buffer) - pos
               /\ \A i \in 1 .. Len(b) : b[i] = Len(w) + i
               /\ b = << >> <=> pos = Len(write_buffer)
        BY <4>1, BytesSent, Zenon
      <4> QED
        BY <3>3, <4>2, Zenon
    <3>5. w = [i \in 1 .. Len(wire) + pos |-> i]
      BY <3>4
    <3>6. wire = [i \in 1 .. Len(wire) |-> i]
      <4>1. wire \in Seq(1 .. MaxWritten) /\ \A i \in 1 .. Len(wire) : wire[i] = i
        BY <2>0 DEF TypeOK, WriteInv
      <4> QED
        BY <4>1
    <3>7. CASE pos = 0
      <4>1. wire' = wire
        BY <3>1, <3>2, <3>5, <3>6, <3>7
      <4> QED
        BY <3>1, <4>1 DEF Channel!vars
    <3>8. CASE pos # 0
      <4>1. pos \in 1 .. accepted - Len(wire)
        BY <2>0, <3>1, <3>8 DEF WriteInv
      <4>2. Channel!Transmit
        BY <3>1, <3>2, <3>5, <4>1 DEF Channel!Transmit
      <4> QED
        BY <4>2 DEF Channel!Next
    <3> QED
      BY <3>7, <3>8
  <2>5. CASE Unsubscribe
    <3>1. Channel!Leave
      BY <2>5 DEF Unsubscribe, Channel!Leave, reading
    <3> QED
      BY <3>1 DEF Channel!Next
  <2>6. CASE UNCHANGED << subscribed, incoming, delivered, accepted, wire >>
    BY <2>6 DEF Channel!vars
  <2>7. ASSUME \/ PeerCloses
               \/ \E k \in 1 .. MaxRead : OnReadReady(k)
               \/ ReadError
               \/ Throws
               \/ UNCHANGED vars
        PROVE  UNCHANGED << subscribed, incoming, delivered, accepted, wire >>
    BY <2>7 DEF PeerCloses, OnReadReady, ReadError, Throws, vars, reading, writing, events
  <2>8. ASSUME NEW pos, OnWriteReady(pos) \/ WriteError(pos)
        PROVE  SentStep(pos) /\ UNCHANGED << incoming, delivered >>
    <3>1. Len(write_buffer) \in Nat
      BY <2>0 DEF TypeOK
    <3> QED
      BY <2>8, <3>1 DEF OnWriteReady, WriteError, SentStep, reading, events
  <2>9. ASSUME NEW pos, OnWriteReady(pos) \/ WriteError(pos)
        PROVE  [Channel!Next]_(Channel!vars)
    BY <2>4, <2>8, <2>9
  <2> QED
    BY <2>1, <2>2, <2>3, <2>5, <2>6, <2>7, <2>9 DEF Next
<1> QED
  BY <1>1, <1>2, ConnectionInvariant, PTL DEF Spec, ImplementsLineChannel, Channel!Spec
=============================================================================
