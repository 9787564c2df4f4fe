----------------------------- MODULE NamerProofs -----------------------------
(***************************************************************************)
(* Names lead back to what they were made for, and the readable part of    *)
(* the name of a NEG fits the limit: for all UIDs, keys, limits and        *)
(* lengths (pkg/utils/namer.go, trimFieldsEvenly of pkg/utils/utils.go).   *)
(***************************************************************************)
EXTENDS Namer, WellFoundedInduction, SequenceTheorems, FiniteSetTheorems, TLAPS

\* The part of the excess that one field gives up is less than the field, and
\* times the total it is the field's share of the excess up to a remainder.
Shares(l, e, t) ==
    \E q \in 0..(l - 1), r \in 0..(t - 1) : q = (l * e) \div t /\ l * e = t * q + r

\* That holds of every field as long as the limit is not zero.
LEMMA Share ==
    ASSUME NEW l \in Nat \ {0}, NEW e \in Nat, NEW t \in Nat \ {0}, e < t
    PROVE  Shares(l, e, t)
<1>. DEFINE a == l * e
            q == a \div t
            r == a % t
<1>1. a \in Nat /\ a < l * t
  OBVIOUS
<1>. HIDE DEF a
<1>2. /\ q \in Int /\ r \in 0..(t - 1)
      /\ a = t * q + r
  BY <1>1
<1>. HIDE DEF q, r
<1>3. q >= 0
  <2>1. SUFFICES ASSUME q <= -1 PROVE FALSE
    BY <1>2
  <2>2. t * q <= -t
    BY <1>2, <2>1
  <2>. QED
    BY <1>1, <1>2, <2>2
<1>4. q < l
  <2>1. SUFFICES ASSUME q >= l PROVE FALSE
    BY <1>2
  <2>2. t * q >= l * t
    BY <1>2, <2>1
  <2>. QED
    BY <1>1, <1>2, <2>2
<1>. QED
  BY <1>2, <1>3, <1>4 DEF Shares, a, q

\* What rounding leaves to give back is one, two or three symbols: not more than
\* there are fields.
LEMMA Remaining ==
    ASSUME NEW t \in Nat \ {0}, NEW e \in Nat, NEW q \in Int, NEW s \in Int,
           t * e = t * q + s, 0 <= s, s < 3 * t
    PROVE  e - q \in 0..2
<1>1. t * (e - q) = s
  OBVIOUS
<1>. DEFINE d == e - q
<1>2. d \in Int /\ t * d = s
  BY <1>1
<1>. HIDE DEF d
<1>3. d >= 0
  <2>1. SUFFICES ASSUME d <= -1 PROVE FALSE
    BY <1>2
  <2>2. t * d <= -t
    BY <1>2, <2>1
  <2>. QED
    BY <1>2, <2>2
<1>4. d <= 2
  <2>1. SUFFICES ASSUME d >= 3 PROVE FALSE
    BY <1>2
  <2>2. t * d >= 3 * t
    BY <1>2, <2>1
  <2>. QED
    BY <1>2, <2>2
<1>. QED
  BY <1>2, <1>3, <1>4 DEF d

\* The label of a NEG: for every limit and all lengths of namespace, name and port,
\* trimFieldsEvenly keeps fields that fit, and otherwise cuts them to exactly the
\* limit together; it lengthens none and slices none below nothing.
THEOREM LabelAlwaysFits ==
    ASSUME NEW max \in Nat \ {0}, NEW len \in [1..3 -> Nat \ {0}]
    PROVE  LabelFits(max, len)
<1>. DEFINE t == len[1] + len[2] + len[3]
            e == t - max
            q(i) == (len[i] * e) \div t
            short == [i \in 1..3 |-> len[i] - (len[i] * e) \div t - 1]
            remaining == max - (short[1] + short[2] + short[3])
<1>1. len[1] \in Nat \ {0} /\ len[2] \in Nat \ {0} /\ len[3] \in Nat \ {0}
  OBVIOUS
<1>2. t \in Nat \ {0}
  BY <1>1
<1>3. CASE t <= max
  <2>1. TrimmedLengths(max, len) = len
    BY <1>3 DEF TrimmedLengths
  <2>. QED
    BY <1>1, <1>3, <2>1 DEF LabelFits
<1>4. CASE t > max
  <2>1. e \in Nat /\ e < t
    BY <1>2, <1>4
  <2>2. TrimmedLengths(max, len)
          = [i \in 1..3 |-> IF i <= remaining THEN short[i] + 1 ELSE short[i]]
    BY <1>2, <1>4 DEF TrimmedLengths
  <2>3. t * e = len[1] * e + len[2] * e + len[3] * e
    BY <1>1, <2>1
  <2>4. t = len[1] + len[2] + len[3] /\ e = t - max
    OBVIOUS
  <2>5. short[1] = len[1] - q(1) - 1 /\ short[2] = len[2] - q(2) - 1
          /\ short[3] = len[3] - q(3) - 1
    OBVIOUS
  <2>. HIDE DEF t, e, q, short
  <2>6. PICK q1 \in 0..(len[1] - 1), r1 \in 0..(t - 1) :
               q1 = q(1) /\ len[1] * e = t * q1 + r1
    <3>1. Shares(len[1], e, t)
      BY <1>1, <1>2, <2>1, Share, Zenon
    <3>. QED
      BY <3>1 DEF Shares, q
  <2>7. PICK q2 \in 0..(len[2] - 1), r2 \in 0..(t - 1) :
               q2 = q(2) /\ len[2] * e = t * q2 + r2
    <3>1. Shares(len[2], e, t)
      BY <1>1, <1>2, <2>1, Share, Zenon
    <3>. QED
      BY <3>1 DEF Shares, q
  <2>8. PICK q3 \in 0..(len[3] - 1), r3 \in 0..(t - 1) :
               q3 = q(3) /\ len[3] * e = t * q3 + r3
    <3>1. Shares(len[3], e, t)
      BY <1>1, <1>2, <2>1, Share, Zenon
    <3>. QED
      BY <3>1 DEF Shares, q
  <2>9. e - (q1 + q2 + q3) \in 0..2
    <3>1. t * e = t * (q1 + q2 + q3) + (r1 + r2 + r3)
      BY <1>2, <2>3, <2>6, <2>7, <2>8
    <3>. DEFINE qs == q1 + q2 + q3
                rs == r1 + r2 + r3
    <3>2. qs \in Int /\ rs \in Int /\ 0 <= rs /\ rs < 3 * t
      BY <1>2, <2>6, <2>7, <2>8
    <3>3. t * e = t * qs + rs
      BY <3>1
    <3>. HIDE DEF qs, rs
    <3>4. e - qs \in 0..2
      BY <1>2, <2>1, <3>2, <3>3, Remaining
    <3>. QED
      BY <3>4 DEF qs
  <2>10. /\ short[1] \in 0..(len[1] - 1) /\ short[2] \in 0..(len[2] - 1)
         /\ short[3] \in 0..(len[3] - 1)
         /\ remaining \in 1..3
         /\ short[1] + short[2] + short[3] + remaining = max
    <3>1. /\ short[1] = len[1] - q1 - 1 /\ short[2] = len[2] - q2 - 1
          /\ short[3] = len[3] - q3 - 1
      BY <2>5, <2>6, <2>7, <2>8, Zenon
    <3>2. q1 \in 0..(len[1] - 1) /\ q2 \in 0..(len[2] - 1) /\ q3 \in 0..(len[3] - 1)
      OBVIOUS
    <3>3. /\ short[1] \in 0..(len[1] - 1) /\ short[2] \in 0..(len[2] - 1)
          /\ short[3] \in 0..(len[3] - 1)
      BY <1>1, <3>1, <3>2
    <3>4. remaining = 3 - (e - (q1 + q2 + q3))
      BY <1>1, <2>4, <3>1, <3>2
    <3>5. remaining \in 1..3
      BY <1>2, <2>1, <2>9, <3>2, <3>4
    <3>. QED
      BY <3>3, <3>5
  <2>. HIDE DEF remaining
  <2>. QED
    BY <1>1, <1>4, <2>2, <2>4, <2>10 DEF LabelFits
<1>. QED
  BY <1>2, <1>3, <1>4

-----------------------------------------------------------------------------
\* A set of numbers has a least one: what is shown of sequences below is shown by the
\* first place where it would fail.
LEMMA Least ==
  ASSUME NEW T \in SUBSET Nat, T # {}
  PROVE  \E x \in T : \A y \in T : x <= y
<1> DEFINE R == OpToRel(<, Nat)
<1>1. IsWellFoundedOn(R, Nat)
  BY NatLessThanWellFounded
<1>2. \A x, y \in Nat : <<x, y>> \in R <=> x < y
  BY DEF OpToRel
<1> HIDE DEF R
<1>3. PICK x \in T : \A y \in T : ~(<<y, x>> \in R)
  BY <1>1, WFMin, Zenon
<1>4. \A y \in T : ~(y < x)
  BY <1>2, <1>3, Zenon
<1> QED
  BY <1>4

\* A bounded set of numbers has a largest one, which Max is.
LEMMA Largest ==
  ASSUME NEW n \in Nat, NEW S \in SUBSET (0..n), S # {}
  PROVE  Max(S) \in S /\ \A x \in S : x <= Max(S)
<1> DEFINE T == {k \in 0..n : n - k \in S}
<1>1. PICK z \in S : TRUE
  OBVIOUS
<1>2. n - z \in T /\ \A k \in T : k \in Nat
  OBVIOUS
<1>3. \A k \in T : k \in 0..n /\ n - k \in S
  OBVIOUS
<1>4. \A y \in S : y \in 0..n /\ n - y \in T
  OBVIOUS
<1> HIDE DEF T
<1>5. PICK m \in T : \A y \in T : m <= y
  <2>1. T \in SUBSET Nat /\ T # {}
    BY <1>2
  <2> QED
    BY <2>1, Least
<1>7. \A y \in S : n - m >= y
  BY <1>3, <1>4, <1>5
<1>8. n - m \in S
  BY <1>3
<1>9. PICK x \in S : \A y \in S : x >= y
  BY <1>7, <1>8, Zenon
<1>10. Max(S) \in S /\ \A y \in S : Max(S) >= y
  BY <1>9, Zenon DEF Max
<1> QED
  BY <1>10, <1>4

\* A set of numbers with 0 and with every successor is that of all numbers.
LEMMA Induct ==
  ASSUME NEW T \in SUBSET Nat, 0 \in T, \A n \in T : n + 1 \in T
  PROVE  T = Nat
<1>1. SUFFICES ASSUME Nat \ T # {} PROVE FALSE
  OBVIOUS
<1>2. PICK x \in Nat \ T : \A y \in Nat \ T : x <= y
  BY <1>1, Least, Zenon
<1>3. x - 1 \in Nat /\ x - 1 \notin Nat \ T
  BY <1>2
<1> QED
  BY <1>3

\* A scan of the first n symbols for delimiters, as strings.Split does it.
Scanned(s, n, g) ==
    /\ g \in [0..n -> BOOLEAN]
    /\ \A i \in 0..n : g[i] <=> i > 1 /\ s[i] = "-" /\ s[i-1] = "-" /\ ~g[i-1]

\* There is one for every length.
LEMMA ScanExists ==
  ASSUME NEW s
  PROVE  \A n \in Nat : \E g : Scanned(s, n, g)
<1> DEFINE T == {n \in Nat : \E g : Scanned(s, n, g)}
<1>1. 0 \in T
  <2> DEFINE g == [i \in 0..0 |-> FALSE]
  <2>1. Scanned(s, 0, g)
    BY DEF Scanned
  <2> QED
    BY <2>1
<1>2. ASSUME NEW n \in T PROVE n + 1 \in T
  <2>1. PICK g : Scanned(s, n, g)
    OBVIOUS
  <2> DEFINE last == n + 1 > 1 /\ s[n + 1] = "-" /\ s[n] = "-" /\ ~g[n]
             h == [i \in 0..(n+1) |-> IF i = n + 1 THEN last ELSE g[i]]
  <2>a. last \in BOOLEAN
    OBVIOUS
  <2> HIDE DEF last
  <2>b. \A i \in 0..n : g[i] \in BOOLEAN
    BY <2>1 DEF Scanned
  <2>c. \A i \in 0..(n+1) : i = n + 1 \/ i \in 0..n
    OBVIOUS
  <2>d. \A i \in 0..n : i # n + 1 /\ i \in 0..(n + 1)
    OBVIOUS
  <2>e. n + 1 \in 0..(n + 1)
    OBVIOUS
  <2>2. /\ h \in [0..(n+1) -> BOOLEAN]
        /\ \A i \in 0..n : h[i] = g[i]
        /\ h[n+1] = last
    BY <2>a, <2>b, <2>c, <2>d, <2>e, Zenon
  <2> HIDE DEF h
  <2> USE DEF last
  <2>3. Scanned(s, n + 1, h)
    BY <2>1, <2>2 DEF Scanned
  <2> QED
    BY <2>3
<1> HIDE DEF T
<1>3. T = Nat
  BY <1>1, <1>2, Induct, Zenon DEF T
<1> QED
  BY <1>3 DEF T

\* Where strings.Split cuts: after two dashes, of which the first does not end another
\* delimiter.
LEMMA CutsStep ==
  ASSUME NEW s, Len(s) \in Nat, NEW i \in 1..Len(s)
  PROVE  i \in Cuts(s) <=> i > 1 /\ s[i] = "-" /\ s[i-1] = "-" /\ i - 1 \notin Cuts(s)
<1>1. PICK g : Scanned(s, Len(s), g)
  BY ScanExists
<1>2. g = [j \in 0..Len(s) |-> j > 1 /\ s[j] = "-" /\ s[j-1] = "-" /\ ~g[j-1]]
  <2>1. g = [j \in 0..Len(s) |-> g[j]]
    BY <1>1 DEF Scanned
  <2>2. ASSUME NEW j \in 0..Len(s)
        PROVE  g[j] = (j > 1 /\ s[j] = "-" /\ s[j-1] = "-" /\ ~g[j-1])
    BY <1>1, Zenon DEF Scanned
  <2> QED
    BY <2>1, <2>2, Zenon
<1>3. Scan(s) = [j \in 0..Len(s) |-> j > 1 /\ s[j] = "-" /\ s[j-1] = "-" /\ ~Scan(s)[j-1]]
  BY <1>2 DEF Scan
<1>4. Scan(s)[i] <=> i > 1 /\ s[i] = "-" /\ s[i-1] = "-" /\ ~Scan(s)[i-1]
  <2>1. i \in 0..Len(s)
    OBVIOUS
  <2> QED
    BY <1>3, <2>1, Zenon
<1>5. CASE i = 1
  BY <1>4, <1>5 DEF Cuts
<1>6. CASE i - 1 \in 1..Len(s)
  BY <1>4, <1>6 DEF Cuts
<1> QED
  BY <1>5, <1>6

\* Two dashes end at i; after a, the scan goes on as at the beginning of a string.
Dashes(s, i) == s[i-1] = "-" /\ s[i] = "-"
Begins(s, a) == a = 0 \/ a \in Cuts(s) \/ s[a] # "-" \/ s[a+1] # "-"

\* Two strings with dashes in the same places, from two such places on, are cut in the
\* same places.
LEMMA Aligned ==
  ASSUME NEW s, Len(s) \in Nat, NEW t, Len(t) \in Nat, NEW a \in Nat, NEW b \in Nat,
         NEW n \in Nat, a + n <= Len(s), b + n <= Len(t), Begins(s, a), Begins(t, b),
         \A i \in 2..n : Dashes(s, a + i) <=> Dashes(t, b + i)
  PROVE  \A i \in 1..n : a + i \in Cuts(s) <=> b + i \in Cuts(t)
<1> DEFINE T == {i \in 1..n : ~(a + i \in Cuts(s) <=> b + i \in Cuts(t))}
<1>1. SUFFICES ASSUME T # {} PROVE FALSE
  OBVIOUS
<1>2. T \in SUBSET Nat
  OBVIOUS
<1>3. PICK x \in T : \A y \in T : x <= y
  <2> HIDE DEF T
  <2> QED
    BY <1>1, <1>2, Least
<1>4. x \in 1..n /\ ~(a + x \in Cuts(s) <=> b + x \in Cuts(t))
  OBVIOUS
<1>5. x > 1 => (a + x - 1 \in Cuts(s) <=> b + x - 1 \in Cuts(t))
  <2>1. x > 1 => x - 1 \in 1..n /\ x - 1 \notin T
    BY <1>3, <1>4
  <2> QED
    BY <2>1, <1>4
<1> HIDE DEF T
<1> DEFINE p == a + x
           q == b + x
<1>6. p \in 1..Len(s) /\ q \in 1..Len(t)
  BY <1>4
<1>7. CASE x = 1
  <2>1. p = a + 1 /\ q = b + 1 /\ p - 1 = a /\ q - 1 = b
    BY <1>7
  <2>2. /\ p > 1 /\ s[p] = "-" /\ s[p - 1] = "-" => p - 1 \in Cuts(s)
        /\ q > 1 /\ t[q] = "-" /\ t[q - 1] = "-" => q - 1 \in Cuts(t)
    BY <2>1 DEF Begins
  <2>3. ~(p \in Cuts(s) <=> q \in Cuts(t))
    BY <1>4
  <2> HIDE DEF p, q
  <2> QED
    BY <1>6, <2>2, <2>3, CutsStep
<1>8. CASE x \in 2..n
  <2>1. Dashes(s, p) <=> Dashes(t, q)
    BY <1>8
  <2>2. p > 1 /\ q > 1
    BY <1>8
  <2>3. ~(p \in Cuts(s) <=> q \in Cuts(t))
    BY <1>4
  <2>4. p - 1 \in Cuts(s) <=> q - 1 \in Cuts(t)
    BY <1>5, <1>8
  <2> HIDE DEF p, q
  <2> QED
    BY <1>6, <2>1, <2>2, <2>3, <2>4, CutsStep DEF Dashes
<1>9. x = 1 \/ x \in 2..n
  BY <1>4
<1> QED
  BY <1>7, <1>8, <1>9

\* A delimiter has two symbols.
LEMMA CutsBound ==
  ASSUME NEW s, Len(s) \in Nat
  PROVE  Cuts(s) \in SUBSET (2..Len(s))
<1>1. Cuts(s) \in SUBSET (1..Len(s))
  BY DEF Cuts
<1>2. ASSUME NEW i \in Cuts(s) PROVE i \in 2..Len(s)
  <2>1. i \in 1..Len(s)
    BY <1>1
  <2>2. i > 1
    BY <2>1, CutsStep
  <2> QED
    BY <2>1, <2>2
<1> QED
  BY <1>2

\* c is where the last delimiter ends, or 0.
IsLastCut(s, c) ==
    c \in 0..Len(s) /\ (c = 0 \/ c \in Cuts(s)) /\ \A d \in Cuts(s) : d <= c

\* LastCut is that place, and it only.
LEMMA LastCutIs ==
  ASSUME NEW s, Len(s) \in Nat
  PROVE  /\ IsLastCut(s, LastCut(s))
         /\ \A c : IsLastCut(s, c) => LastCut(s) = c
<1> DEFINE S == Cuts(s) \cup {0}
<1>1. S \in SUBSET (0..Len(s)) /\ 0 \in S
  BY CutsBound
<1>2. \A c : c \in S <=> c = 0 \/ c \in Cuts(s)
  OBVIOUS
<1>3. LastCut(s) = Max(S)
  BY DEF LastCut
<1> HIDE DEF S
<1>4. Max(S) \in S /\ \A x \in S : x <= Max(S)
  <2>1. S # {}
    BY <1>1
  <2> QED
    BY <1>1, <2>1, Largest, Zenon
<1>5. IsLastCut(s, LastCut(s))
  BY <1>1, <1>2, <1>3, <1>4, Zenon DEF IsLastCut
<1>6. ASSUME NEW c, IsLastCut(s, c) PROVE LastCut(s) = c
  <2>1. c \in S /\ c \in Nat /\ \A x \in S : x <= c
    BY <1>1, <1>2, <1>6 DEF IsLastCut
  <2> DEFINE m == Max(S)
  <2>2. m \in S /\ \A x \in S : x <= m
    BY <1>4
  <2>3. m = LastCut(s)
    BY <1>3
  <2> HIDE DEF m
  <2>4. c <= m /\ m <= c /\ m \in Nat
    BY <1>1, <2>1, <2>2
  <2> QED
    BY <2>1, <2>3, <2>4
<1> QED
  BY <1>5, <1>6

\* The symbols of the last part.
LEMMA LastPartFacts ==
  ASSUME NEW S, NEW s \in Seq(S)
  PROVE  /\ LastPart(s) \in Seq(S)
         /\ Len(LastPart(s)) = Len(s) - LastCut(s)
         /\ \A i \in 1..Len(LastPart(s)) : LastPart(s)[i] = s[LastCut(s) + i]
<1>1. LastCut(s) \in 0..Len(s) /\ Len(s) \in Nat
  BY LastCutIs DEF IsLastCut
<1> DEFINE c == LastCut(s)
<1>2. LastPart(s) = SubSeq(s, c + 1, Len(s))
  BY DEF LastPart
<1> HIDE DEF c
<1>3. c \in 0..Len(s) /\ Len(s) \in Nat
  BY <1>1 DEF c
<1>4. SubSeq(s, c + 1, Len(s)) \in Seq(S) /\ Len(SubSeq(s, c + 1, Len(s))) = Len(s) - c
  BY <1>3
<1>5. \A i \in 1..(Len(s) - c) : SubSeq(s, c + 1, Len(s))[i] = s[c + i]
  BY <1>3
<1> QED
  BY <1>2, <1>4, <1>5 DEF c

\* The last part of strings.Split has no delimiter.
LEMMA LastPartUncut ==
  ASSUME NEW S, NEW s \in Seq(S)
  PROVE  Cuts(LastPart(s)) = {}
<1> DEFINE c == LastCut(s)
           t == LastPart(s)
<1>1. IsLastCut(s, c) /\ Len(s) \in Nat
  BY LastCutIs
<1>2. Len(t) = Len(s) - c /\ \A i \in 1..Len(t) : t[i] = s[c + i]
  BY LastPartFacts
<1> HIDE DEF c, t
<1>3. Len(t) \in Nat /\ c \in Nat
  BY <1>1, <1>2 DEF IsLastCut
<1>4. \A i \in 1..Len(t) : c + i \in Cuts(s) <=> 0 + i \in Cuts(t)
  <2>1. ASSUME NEW i \in 2..Len(t)
        PROVE  Dashes(s, c + i) <=> Dashes(t, 0 + i)
    <3>1. i \in 1..Len(t) /\ i - 1 \in 1..Len(t) /\ c + (i - 1) = (c + i) - 1 /\ 0 + i = i
      BY <1>3
    <3>2. t[i] = s[c + i] /\ t[i - 1] = s[(c + i) - 1]
      BY <1>2, <3>1
    <3> QED
      BY <3>1, <3>2 DEF Dashes
  <2>2. Begins(s, c) /\ Begins(t, 0)
    BY <1>1 DEF IsLastCut, Begins
  <2>3. c + Len(t) <= Len(s) /\ 0 + Len(t) <= Len(t)
    BY <1>1, <1>2, <1>3
  <2> QED
    BY <1>1, <1>3, <2>1, <2>2, <2>3, Aligned, Zenon
<1>5. \A i \in 1..Len(t) : c + i \notin Cuts(s)
  BY <1>1, <1>3 DEF IsLastCut
<1>6. \A i \in Cuts(t) : i \in 1..Len(t) /\ i = 0 + i
  BY <1>3, CutsBound
<1> QED
  BY <1>4, <1>5, <1>6 DEF t

\* A string without delimiters is its last part.
LEMMA Uncut ==
  ASSUME NEW S, NEW s \in Seq(S), Cuts(s) = {}
  PROVE  LastPart(s) = s
<1>1. IsLastCut(s, 0)
  BY DEF IsLastCut
<1>2. LastCut(s) = 0
  BY <1>1, LastCutIs
<1>3. Len(LastPart(s)) = Len(s) /\ LastPart(s) \in Seq(S)
      /\ \A i \in 1..Len(s) : LastPart(s)[i] = s[i]
  BY <1>2, LastPartFacts
<1> QED
  BY <1>3, SeqEqual

\* SetUID: what it stores has no delimiter, and it stores that unchanged.
LEMMA UidUncut ==
  ASSUME NEW S, NEW s \in Seq(S)
  PROVE  UidOf(s) \in Seq(S) /\ Cuts(UidOf(s)) = {} /\ UidOf(UidOf(s)) = UidOf(s)
BY LastPartFacts, LastPartUncut, Uncut DEF UidOf

\* Two names with the same symbols after their last cuts have the same last part.
LEMMA SamePart ==
  ASSUME NEW S, NEW s \in Seq(S), NEW t \in Seq(S),
         Len(s) - LastCut(s) = Len(t) - LastCut(t),
         \A i \in 1..(Len(s) - LastCut(s)) : s[LastCut(s) + i] = t[LastCut(t) + i]
  PROVE  LastPart(s) = LastPart(t)
BY LastPartFacts, SeqEqual

\* decorateName and LoadBalancer: a UID that is appended with the delimiter is the
\* last part of the name.
LEMMA Joined ==
  ASSUME NEW S, "-" \in S, NEW p \in Seq(S), p # <<>>, p[Len(p)] # "-",
         NEW u \in Seq(S), Cuts(u) = {}
  PROVE  /\ Cuts(p \o clusterNameDelimiter \o u) = Cuts(p) \cup {Len(p) + 2}
         /\ LastPart(p \o clusterNameDelimiter \o u) = u
<1> DEFINE s == p \o clusterNameDelimiter \o u
           n == Len(p)
           m == Len(u)
<1>1. /\ s \in Seq(S) /\ Len(s) = n + 2 + m /\ n \in Nat \ {0} /\ m \in Nat
      /\ \A i \in 1..n : s[i] = p[i]
      /\ s[n+1] = "-" /\ s[n+2] = "-"
      /\ \A i \in 1..m : s[n + 2 + i] = u[i]
  BY DEF clusterNameDelimiter
<1> HIDE DEF s, n, m
<1>2. Len(p) = n /\ Len(u) = m
  BY DEF n, m
<1>3. \A i \in 1..n : 0 + i \in Cuts(s) <=> 0 + i \in Cuts(p)
  <2>1. Begins(s, 0) /\ Begins(p, 0)
    BY DEF Begins
  <2>2. \A i \in 2..n : Dashes(s, 0 + i) <=> Dashes(p, 0 + i)
    BY <1>1 DEF Dashes
  <2>3. Len(s) \in Nat /\ 0 + n <= Len(s) /\ 0 + n <= Len(p) /\ Len(p) \in Nat
    BY <1>1, <1>2
  <2> QED
    BY <1>1, <2>1, <2>2, <2>3, Aligned, Zenon
<1>4. \A i \in 1..n : i \in Cuts(s) <=> i \in Cuts(p)
  BY <1>3
<1>5. n + 1 \notin Cuts(s)
  <2> DEFINE k == n + 1
  <2>1. k \in 1..Len(s) /\ s[k-1] # "-" /\ Len(s) \in Nat
    BY <1>1, <1>2
  <2> HIDE DEF k
  <2>2. k \notin Cuts(s)
    BY <2>1, CutsStep
  <2> QED
    BY <2>2 DEF k
<1>6. n + 2 \in Cuts(s)
  <2> DEFINE k == n + 2
  <2>1. /\ k \in 1..Len(s) /\ k > 1 /\ s[k-1] = "-" /\ s[k] = "-"
        /\ Len(s) \in Nat /\ k - 1 \notin Cuts(s)
    BY <1>1, <1>5
  <2> HIDE DEF k
  <2>2. k \in Cuts(s)
    BY <2>1, CutsStep
  <2> QED
    BY <2>2 DEF k
<1> DEFINE k == n + 2
<1>7. \A i \in 1..m : k + i \notin Cuts(s)
  <2>1. Begins(s, k) /\ Begins(u, 0)
    BY <1>6 DEF Begins
  <2>2. \A i \in 2..m : Dashes(s, k + i) <=> Dashes(u, 0 + i)
    BY <1>1 DEF Dashes
  <2>3. Len(s) \in Nat /\ k + m <= Len(s) /\ 0 + m <= Len(u) /\ Len(u) \in Nat /\ k \in Nat
    BY <1>1, <1>2
  <2> HIDE DEF k
  <2>4. \A i \in 1..m : k + i \in Cuts(s) <=> 0 + i \in Cuts(u)
    BY <1>1, <2>1, <2>2, <2>3, Aligned, Zenon
  <2> QED
    BY <2>4
<1>8. Cuts(s) \in SUBSET (2..Len(s)) /\ Cuts(p) \in SUBSET (2..Len(p))
  BY <1>1, <1>2, CutsBound
<1>9. Cuts(s) = Cuts(p) \cup {n + 2}
  <2>1. \A i \in 2..Len(s) : \/ i \in 1..n \/ i = n + 1 \/ i = n + 2
                             \/ i - k \in 1..m /\ i = k + (i - k)
    BY <1>1
  <2>2. ASSUME NEW i \in Cuts(s) PROVE i \in Cuts(p) \/ i = n + 2
    <3>1. i \in 1..n \/ i = n + 1 \/ i = n + 2 \/ (i - k \in 1..m /\ i = k + (i - k))
      BY <1>8, <2>1
    <3> HIDE DEF k
    <3>2. ~(i - k \in 1..m /\ i = k + (i - k))
      BY <1>7, Zenon
    <3> QED
      BY <1>4, <1>5, <3>1, <3>2, Zenon
  <2>3. \A i \in Cuts(p) : i \in Cuts(s)
    BY <1>1, <1>2, <1>4, <1>8
  <2> QED
    BY <1>6, <2>2, <2>3
<1>10. LastCut(s) = n + 2
  <2>1. IsLastCut(s, n + 2)
    BY <1>1, <1>2, <1>8, <1>9 DEF IsLastCut
  <2> QED
    BY <1>1, <2>1, LastCutIs
<1>11. LastPart(s) = u
  <2>1. /\ LastPart(s) \in Seq(S) /\ Len(LastPart(s)) = m
        /\ \A i \in 1..m : LastPart(s)[i] = s[n + 2 + i]
    <3>1. /\ LastPart(s) \in Seq(S) /\ Len(LastPart(s)) = Len(s) - (n + 2)
          /\ \A i \in 1..Len(LastPart(s)) : LastPart(s)[i] = s[n + 2 + i]
      BY <1>1, <1>10, LastPartFacts
    <3> QED
      BY <1>1, <3>1
  <2> QED
    BY <1>1, <1>2, <2>1, SeqEqual
<1> QED
  BY <1>2, <1>9, <1>11 DEF s

\* ForwardingRule: a prefix without a delimiter leaves the last part as it is.
LEMMA Prefixed ==
  ASSUME NEW S, NEW p \in Seq(S), Cuts(p) = {}, NEW q \in Seq(S), q # <<>>, q[1] # "-"
  PROVE  /\ Cuts(p \o q) = {} <=> Cuts(q) = {}
         /\ Cuts(q) # {} => LastPart(p \o q) = LastPart(q)
<1> DEFINE s == p \o q
           n == Len(p)
           m == Len(q)
<1>1. /\ s \in Seq(S) /\ Len(s) = n + m /\ n \in Nat /\ m \in Nat \ {0}
      /\ \A i \in 1..n : s[i] = p[i]
      /\ \A i \in 1..m : s[n + i] = q[i]
  OBVIOUS
<1> HIDE DEF s, n, m
<1>2. Len(p) = n /\ Len(q) = m
  BY DEF n, m
<1>3. \A i \in 1..n : i \notin Cuts(s)
  <2>1. Begins(s, 0) /\ Begins(p, 0)
    BY DEF Begins
  <2>2. \A i \in 2..n : Dashes(s, 0 + i) <=> Dashes(p, 0 + i)
    BY <1>1 DEF Dashes
  <2>3. Len(s) \in Nat /\ 0 + n <= Len(s) /\ 0 + n <= Len(p) /\ Len(p) \in Nat
    BY <1>1, <1>2
  <2>4. \A i \in 1..n : 0 + i \in Cuts(s) <=> 0 + i \in Cuts(p)
    BY <1>1, <2>1, <2>2, <2>3, Aligned, Zenon
  <2> QED
    BY <2>4
<1>4. \A i \in 1..m : n + i \in Cuts(s) <=> 0 + i \in Cuts(q)
  <2>1. Begins(s, n) /\ Begins(q, 0)
    BY <1>1 DEF Begins
  <2>2. \A i \in 2..m : Dashes(s, n + i) <=> Dashes(q, 0 + i)
    BY <1>1 DEF Dashes
  <2>3. Len(s) \in Nat /\ n + m <= Len(s) /\ 0 + m <= Len(q) /\ Len(q) \in Nat
    BY <1>1, <1>2
  <2> QED
    BY <1>1, <2>1, <2>2, <2>3, Aligned, Zenon
<1>5. Cuts(s) \in SUBSET (2..Len(s)) /\ Cuts(q) \in SUBSET (2..Len(q))
  BY <1>1, <1>2, CutsBound
<1>6. \A i \in Cuts(s) : i - n \in Cuts(q)
  <2>1. ASSUME NEW i \in Cuts(s) PROVE i - n \in Cuts(q)
    <3>1. i \in Nat /\ i - n \in 1..m /\ n + (i - n) = i /\ 0 + (i - n) = i - n
      BY <1>1, <1>3, <1>5
    <3> QED
      BY <1>4, <3>1
  <2> QED
    BY <2>1
<1>7. \A i \in Cuts(q) : n + i \in Cuts(s) /\ i \in Nat
  BY <1>1, <1>2, <1>4, <1>5
<1>8. Cuts(s) = {} <=> Cuts(q) = {}
  BY <1>6, <1>7
<1>9. ASSUME Cuts(q) # {} PROVE LastPart(s) = LastPart(q)
  <2>1. IsLastCut(q, LastCut(q))
    BY <1>1, <1>2, LastCutIs
  <2>2. LastCut(q) \in Cuts(q) /\ LastCut(q) \in 0..m
    BY <1>1, <1>2, <1>5, <1>9, <2>1 DEF IsLastCut
  <2>3. IsLastCut(s, n + LastCut(q))
    BY <1>1, <1>5, <1>6, <1>7, <2>1, <2>2 DEF IsLastCut
  <2>4. LastCut(s) = n + LastCut(q)
    BY <1>1, <2>3, LastCutIs
  <2> DEFINE c == LastCut(q)
  <2>5. /\ Len(s) - LastCut(s) = Len(q) - c
        /\ \A i \in 1..(Len(s) - LastCut(s)) : s[LastCut(s) + i] = q[c + i]
    BY <1>1, <1>2, <2>2, <2>4
  <2> QED
    BY <1>1, <2>5, SamePart, Zenon
<1> QED
  BY <1>8, <1>9 DEF s

\* LoadBalancer replaces nothing in a string without "/".
LEMMA ScrubPlain ==
  ASSUME NEW s \in Seq(Plain)
  PROVE  Scrubbed(s) = s
<1>1. \A i \in 1..Len(s) : s[i] # "/"
  BY DEF Plain
<1>2. /\ Scrubbed(s) \in Seq(Plain) /\ Len(Scrubbed(s)) = Len(s)
      /\ \A i \in 1..Len(s) : Scrubbed(s)[i] = s[i]
  BY <1>1 DEF Scrubbed
<1> QED
  BY <1>2, SeqEqual

\* What LoadBalancer makes of a key, symbol by symbol.
LEMMA ScrubSeq ==
  ASSUME NEW s \in Seq(Symbols)
  PROVE  /\ Scrubbed(s) \in Seq(Plain) /\ Len(Scrubbed(s)) = Len(s)
         /\ \A i \in 1..Len(s) : Scrubbed(s)[i] = IF s[i] = "/" THEN "-" ELSE s[i]
<1>1. "-" \in Plain
  BY SymbolsAssumption DEF Plain
<1>2. \A i \in 1..Len(s) : (IF s[i] = "/" THEN "-" ELSE s[i]) \in Plain
  BY <1>1 DEF Plain
<1> QED
  BY <1>2 DEF Scrubbed

\* LoadBalancer: the dash that replaces the "/" of a key is not part of a delimiter.
LEMMA ScrubbedKey ==
  ASSUME NEW key, IsIngressKey(key)
  PROVE  LET s == Scrubbed(key)
         IN /\ s # <<>> /\ s[1] # "-" /\ s[Len(s)] # "-"
            /\ Cuts(s) = Cuts(key)
            /\ LastPart(s) = Scrubbed(LastPart(key))
<1> DEFINE s == Scrubbed(key)
           n == Len(key)
<1>1. PICK slash \in 2..(n - 1) :
          /\ \A i \in 1..n : key[i] = "/" <=> i = slash
          /\ \A i \in {1, slash - 1, slash + 1, n} : key[i] # "-"
  BY DEF IsIngressKey
<1>2. /\ key \in Seq(Symbols) /\ n \in Nat /\ Len(key) = n
      /\ s \in Seq(Plain) /\ Len(s) = n
      /\ \A i \in 1..n : s[i] = IF key[i] = "/" THEN "-" ELSE key[i]
  BY ScrubSeq DEF IsIngressKey
<1>3. n >= 3 /\ slash > 1 /\ slash < n
  BY <1>1, <1>2
<1> HIDE DEF s, n
<1>4. \A i \in 2..n : Dashes(s, 0 + i) <=> Dashes(key, 0 + i)
  <2> SUFFICES ASSUME NEW i \in 2..n PROVE Dashes(s, i) <=> Dashes(key, i)
    BY <1>2
  <2>1. i \in 1..n /\ i - 1 \in 1..n
    BY <1>2
  <2>2. i # slash /\ i - 1 # slash => s[i] = key[i] /\ s[i-1] = key[i-1]
    BY <1>1, <1>2, <2>1
  <2>3. i = slash => s[i-1] # "-" /\ key[i-1] # "-"
    BY <1>1, <1>2, <1>3, <2>1
  <2>4. i - 1 = slash => s[i] # "-" /\ key[i] # "-"
    BY <1>1, <1>2, <1>3, <2>1
  <2> QED
    BY <2>2, <2>3, <2>4 DEF Dashes
<1>5. Cuts(s) = Cuts(key)
  <2>1. Begins(s, 0) /\ Begins(key, 0) /\ 0 + n <= Len(s) /\ 0 + n <= Len(key)
        /\ Len(s) \in Nat /\ Len(key) \in Nat
    BY <1>2 DEF Begins
  <2>2. \A i \in 1..n : 0 + i \in Cuts(s) <=> 0 + i \in Cuts(key)
    BY <1>2, <1>4, <2>1, Aligned, Zenon
  <2>3. \A i \in 1..n : i \in Cuts(s) <=> i \in Cuts(key)
    BY <2>2
  <2>4. Cuts(s) \in SUBSET (2..n) /\ Cuts(key) \in SUBSET (2..n)
    BY <1>2, CutsBound
  <2> QED
    BY <2>3, <2>4
<1>6. LastPart(s) = Scrubbed(LastPart(key))
  <2> DEFINE c == LastCut(key)
             t == LastPart(key)
  <2>1. LastCut(s) = c
    BY <1>5 DEF LastCut
  <2>2. c \in 0..n
    BY <1>2, LastCutIs DEF IsLastCut
  <2>3. /\ t \in Seq(Symbols) /\ Len(t) = n - c
        /\ \A i \in 1..Len(t) : t[i] = key[c + i]
    BY <1>2, LastPartFacts
  <2>4. /\ LastPart(s) \in Seq(Plain) /\ Len(LastPart(s)) = n - c
        /\ \A i \in 1..(n - c) : LastPart(s)[i] = s[c + i]
    <3>1. /\ LastPart(s) \in Seq(Plain) /\ Len(LastPart(s)) = Len(s) - c
          /\ \A i \in 1..Len(LastPart(s)) : LastPart(s)[i] = s[c + i]
      BY <1>2, <2>1, LastPartFacts
    <3> QED
      BY <1>2, <3>1
  <2> HIDE DEF c, t
  <2>5. /\ Scrubbed(t) \in Seq(Plain) /\ Len(Scrubbed(t)) = n - c
        /\ \A i \in 1..(n - c) : Scrubbed(t)[i] = IF t[i] = "/" THEN "-" ELSE t[i]
    BY <2>3, ScrubSeq
  <2>6. \A i \in 1..(n - c) : c + i \in 1..n
    BY <1>2, <2>2
  <2>7. \A i \in 1..(n - c) : LastPart(s)[i] = Scrubbed(t)[i]
    BY <1>2, <2>3, <2>4, <2>5, <2>6
  <2>8. LastPart(s) = Scrubbed(t)
    BY <2>4, <2>5, <2>7, SeqEqual
  <2> QED
    BY <2>8 DEF t
<1>7. s # <<>> /\ s[1] # "-" /\ s[Len(s)] # "-"
  BY <1>1, <1>2, <1>3
<1> QED
  BY <1>5, <1>6, <1>7 DEF s

\* truncate keeps a name that fits, and makes the others one longer than the limit.
LEMMA Truncated ==
  ASSUME NEW S, "0" \in S, NEW name \in Seq(S)
  PROVE  /\ Truncate(name) \in Seq(S)
         /\ Len(name) <= NameLenLimit => Truncate(name) = name
         /\ Len(name) > NameLenLimit => Len(Truncate(name)) = NameLenLimit + 1
         /\ Len(Truncate(name)) <= NameLenLimit => Len(name) <= NameLenLimit
BY LimitsAssumption DEF Truncate

\* s is p followed by q.
IsConcat(S, s, p, q) ==
    /\ s \in Seq(S)
    /\ Len(s) = Len(p) + Len(q)
    /\ \A i \in 1..Len(p) : s[i] = p[i]
    /\ \A i \in 1..Len(q) : s[Len(p) + i] = q[i]

\* fmt.Sprintf of two strings.
LEMMA Concat ==
  ASSUME NEW S, NEW p \in Seq(S), NEW q \in Seq(S)
  PROVE  IsConcat(S, p \o q, p, q)
BY DEF IsConcat

\* The test of NameBelongsToCluster for the prefix.
LEMMA Headed ==
  ASSUME NEW S, NEW s \in Seq(S), Len(s) >= 2, s[1] = "k8s", s[2] = "-"
  PROVE  HasPrefix(s, <<"k8s", "-">>)
<1>1. SubSeq(s, 1, 2) = <<"k8s", "-">>
  <2>1. SubSeq(s, 1, 2) \in Seq(S) /\ Len(SubSeq(s, 1, 2)) = 2
        /\ SubSeq(s, 1, 2)[1] = s[1] /\ SubSeq(s, 1, 2)[2] = s[2]
    OBVIOUS
  <2>2. <<"k8s", "-">> \in Seq(S) /\ Len(<<"k8s", "-">>) = 2
        /\ <<"k8s", "-">>[1] = "k8s" /\ <<"k8s", "-">>[2] = "-"
    OBVIOUS
  <2> DEFINE t == SubSeq(s, 1, 2)
             u == <<"k8s", "-">>
  <2>3. t \in Seq(S) /\ u \in Seq(S) /\ Len(t) = Len(u) /\ Len(t) = 2 /\ t[1] = u[1] /\ t[2] = u[2]
    BY <2>1, <2>2
  <2> HIDE DEF t, u
  <2>4. \A i \in 1..Len(t) : t[i] = u[i]
    BY <2>3
  <2>5. t = u
    BY <2>3, <2>4, SeqEqual, Zenon
  <2> QED
    BY <2>5 DEF t, u
<1> QED
  BY <1>1 DEF HasPrefix

\* The name of a backend service belongs to the cluster that has made it and to no
\* other, for all UIDs.
LEMMA BackendTells ==
  ASSUME NEW uid \in Seq(Symbols), Cuts(uid) = {}, NEW other
  PROVE  TellsCluster(uid, other)
<1> DEFINE base == <<"k8s", "-", "be", "-", "80">>
           name == Backend(uid, "80")
<1>1. base \in Seq(Symbols) /\ Len(base) = 5 /\ base # <<>> /\ base[1] = "k8s" /\ base[2] = "-"
      /\ base[3] = "be" /\ base[4] = "-" /\ base[5] = "80"
  BY SymbolsAssumption
<1>2. name = IF uid = <<>> THEN base ELSE Truncate(base \o clusterNameDelimiter \o uid)
  BY DEF Backend, DecorateName
<1> HIDE DEF base, name
<1>3. Cuts(base) = {}
  <2>1. \A i \in 2..5 : ~(base[i] = "-" /\ base[i-1] = "-")
    BY <1>1
  <2>2. Cuts(base) \in SUBSET (2..5) /\ Len(base) \in Nat
    <3>1. Len(base) \in Nat
      BY <1>1
    <3>2. Cuts(base) \in SUBSET (2..Len(base))
      BY <3>1, CutsBound
    <3> QED
      BY <1>1, <3>1, <3>2
  <2>3. ASSUME NEW i \in Cuts(base) PROVE FALSE
    <3>1. i \in 1..Len(base) /\ i \in 2..5
      BY <1>1, <2>2
    <3>2. base[i] = "-" /\ base[i-1] = "-"
      BY <2>2, <3>1, CutsStep
    <3> QED
      BY <2>1, <3>1, <3>2
  <2> QED
    BY <2>3
<1>4. SUFFICES ASSUME Len(name) <= NameLenLimit
      PROVE  NameBelongsToCluster(other, name) <=> uid = other
  BY DEF TellsCluster, name
<1>5. CASE uid = <<>>
  <2>1. Cuts(name) = {} /\ Cardinality(Cuts(name)) = 0
    BY <1>2, <1>3, <1>5, FS_EmptySet
  <2>2. HasPrefix(name, <<"k8s", "-">>)
    BY <1>1, <1>2, <1>5, Headed
  <2> QED
    BY <1>5, <2>1, <2>2 DEF NameBelongsToCluster
<1>6. CASE uid # <<>>
  <2> DEFINE full == base \o clusterNameDelimiter \o uid
  <2>1. full \in Seq(Symbols) /\ Len(full) >= 5 /\ full[1] = "k8s" /\ full[2] = "-"
    <3>1. clusterNameDelimiter \in Seq(Symbols) /\ Len(clusterNameDelimiter) = 2
      BY SymbolsAssumption DEF clusterNameDelimiter
    <3> HIDE DEF clusterNameDelimiter
    <3>2. IsConcat(Symbols, base \o clusterNameDelimiter, base, clusterNameDelimiter)
      <4>1. base \in Seq(Symbols)
        BY <1>1
      <4>2. clusterNameDelimiter \in Seq(Symbols)
        BY <3>1
      <4> QED
        BY <4>1, <4>2, Concat, Zenon
    <3>3. IsConcat(Symbols, full, base \o clusterNameDelimiter, uid)
      <4>1. base \o clusterNameDelimiter \in Seq(Symbols)
        BY <3>2, Zenon DEF IsConcat
      <4> QED
        BY <4>1, Concat, Zenon
    <3> HIDE DEF full
    <3> DEFINE p == base \o clusterNameDelimiter
    <3>4. IsConcat(Symbols, p, base, clusterNameDelimiter) /\ IsConcat(Symbols, full, p, uid)
      BY <3>2, <3>3
    <3> HIDE DEF p
    <3>5. Len(p) = 7 /\ p[1] = "k8s" /\ p[2] = "-"
      <4>1. Len(base) = 5 /\ base[1] = "k8s" /\ base[2] = "-"
        BY <1>1
      <4> QED
        BY <3>1, <3>4, <4>1 DEF IsConcat
    <3>6. full \in Seq(Symbols) /\ full[1] = p[1] /\ full[2] = p[2] /\ Len(full) = 7 + Len(uid)
      <4>1. 1 \in 1..Len(p) /\ 2 \in 1..Len(p) /\ Len(p) = 7
        BY <3>5
      <4>2. IsConcat(Symbols, full, p, uid)
        BY <3>4
      <4> QED
        BY <4>1, <4>2, Zenon DEF IsConcat
    <3>7. Len(uid) \in Nat
      OBVIOUS
    <3> QED
      BY <3>5, <3>6, <3>7
  <2>2. Cuts(full) = {7} /\ LastPart(full) = uid
    <3>1. Cuts(full) = Cuts(base) \cup {Len(base) + 2} /\ LastPart(full) = uid
      BY <1>1, SymbolsAssumption, Joined, Zenon
    <3> QED
      BY <1>1, <1>3, <3>1
  <2>3. name = full
    <3>1. name = Truncate(full)
      BY <1>2, <1>6
    <3> HIDE DEF full
    <3> QED
      BY <1>4, <2>1, <3>1, SymbolsAssumption, Truncated
  <2> HIDE DEF full
  <2>4. Cardinality(Cuts(name)) = 1 /\ LastPart(name) = uid /\ Cuts(name) # {}
    BY <2>2, <2>3, FS_Singleton, Zenon
  <2>5. HasPrefix(name, <<"k8s", "-">>)
    BY <2>1, <2>3, Headed
  <2> QED
    BY <2>4, <2>5 DEF NameBelongsToCluster
<1> QED
  BY <1>5, <1>6

\* LoadBalancer: the three ways to name, the UID being appended in the last.
LEMMA LoadBalancerName ==
  ASSUME NEW uid \in Seq(Plain), Cuts(uid) = {}, NEW key, IsIngressKey(key)
  PROVE  LET s == Scrubbed(key)
             full == s \o clusterNameDelimiter \o uid
             lb == LoadBalancer(uid, key)
         IN \/ lb = s /\ uid = <<>>
            \/ lb = s /\ uid # <<>> /\ LastPart(s) = uid /\ Cuts(s) # {}
            \/ lb = Truncate(full) /\ uid # <<>> /\ LastPart(key) # uid
<1> DEFINE s == Scrubbed(key)
<1>1. CASE uid = <<>>
  BY <1>1 DEF LoadBalancer
<1>2. CASE uid # <<>> /\ LastPart(key) = uid
  <2>1. LastPart(s) = uid /\ Cuts(s) = Cuts(key)
    BY <1>2, ScrubbedKey, ScrubPlain
  <2>2. Cuts(key) # {}
    <3>1. SUFFICES ASSUME Cuts(key) = {} PROVE FALSE
      OBVIOUS
    <3>2. key \in Seq(Symbols) /\ \E i \in 1..Len(key) : key[i] = "/"
      BY DEF IsIngressKey
    <3>3. key = uid
      BY <1>2, <3>1, <3>2, Uncut
    <3> QED
      BY <3>2, <3>3 DEF Plain
  <2> QED
    BY <1>2, <2>1, <2>2 DEF LoadBalancer
<1>3. CASE uid # <<>> /\ LastPart(key) # uid
  BY <1>3 DEF LoadBalancer
<1> QED
  BY <1>1, <1>2, <1>3

\* truncate: a name that was truncated and is extended is truncated to the same.
LEMMA TruncateAgain ==
  ASSUME NEW S, "0" \in S, NEW name \in Seq(S), Len(name) > NameLenLimit,
         NEW t \in Seq(S), Len(t) > 0
  PROVE  Truncate(Truncate(name) \o t) = Truncate(name)
<1> DEFINE lb == Truncate(name)
           longer == lb \o t
           again == Truncate(longer)
           L == NameLenLimit
<1>1. L \in Nat
  BY LimitsAssumption
<1>2. lb = Append(SubSeq(name, 1, L), "0")
  BY <1>1 DEF Truncate
<1>3. lb \in Seq(S) /\ Len(lb) = L + 1 /\ lb[L + 1] = "0"
  BY <1>1, <1>2
<1> HIDE DEF lb
<1>4. IsConcat(S, longer, lb, t)
  BY <1>3, Concat, Zenon
<1> HIDE DEF longer
<1>5. longer \in Seq(S) /\ Len(longer) > L /\ \A i \in 1..(L + 1) : longer[i] = lb[i]
  BY <1>1, <1>3, <1>4 DEF IsConcat
<1>6. again = Append(SubSeq(longer, 1, L), "0")
  BY <1>1, <1>5 DEF Truncate
<1>7. again \in Seq(S) /\ Len(again) = L + 1 /\ again[L + 1] = "0"
      /\ \A i \in 1..L : again[i] = longer[i]
  BY <1>1, <1>5, <1>6
<1> HIDE DEF again
<1>8. \A i \in 1..(L + 1) : again[i] = lb[i]
  BY <1>1, <1>3, <1>5, <1>7
<1>9. again = lb
  BY <1>1, <1>3, <1>7, <1>8, SeqEqual
<1> QED
  BY <1>9 DEF again, longer, lb

\* The constant parts of names have no "/".
LEMMA PlainFacts ==
  /\ "-" \in Plain /\ "0" \in Plain /\ clusterNameDelimiter \in Seq(Plain)
  /\ Len(clusterNameDelimiter) = 2 /\ <<>> \in Seq(Plain)
  /\ <<"k8s", "-", "fw", "-">> \in Seq(Plain) /\ Len(<<"k8s", "-", "fw", "-">>) = 4
BY SymbolsAssumption DEF Plain, clusterNameDelimiter

\* A string without "/" is a string.
LEMMA PlainSeq ==
  ASSUME NEW s \in Seq(Plain) PROVE s \in Seq(Symbols)
BY DEF Plain

\* LoadBalancer finds the entry again that it has named, for all UIDs and keys.
LEMMA LookUpAgain ==
  ASSUME NEW uid \in Seq(Plain), Cuts(uid) = {}, NEW key, IsIngressKey(key)
  PROVE  LoadBalancer(uid, LoadBalancer(uid, key)) = LoadBalancer(uid, key)
<1> DEFINE s == Scrubbed(key)
           p == s \o clusterNameDelimiter
           full == s \o clusterNameDelimiter \o uid
           lb == LoadBalancer(uid, key)
<1>1. s \in Seq(Plain) /\ s # <<>> /\ s[Len(s)] # "-"
  BY ScrubbedKey, ScrubSeq DEF IsIngressKey
<1>2. \/ lb = s /\ uid = <<>>
      \/ lb = s /\ uid # <<>> /\ LastPart(s) = uid
      \/ lb = Truncate(full) /\ uid # <<>>
  BY LoadBalancerName
<1>3. full \in Seq(Plain)
  <2>1. p \in Seq(Plain)
    BY <1>1, PlainFacts, Concat DEF IsConcat
  <2> HIDE DEF p
  <2>2. p \o uid \in Seq(Plain)
    BY <2>1, Concat DEF IsConcat
  <2> QED
    BY <2>2 DEF p
<1>4. LastPart(full) = uid
  BY <1>1, PlainFacts, Joined
<1> HIDE DEF s, full
<1>5. CASE lb = s /\ (uid = <<>> \/ LastPart(s) = uid)
  BY <1>1, <1>5, ScrubPlain DEF LoadBalancer
<1>6. CASE lb = Truncate(full) /\ uid # <<>> /\ Len(full) <= NameLenLimit
  <2>1. lb = full
    BY <1>3, <1>6, PlainFacts, Truncated
  <2>2. LoadBalancer(uid, full) = full
    BY <1>3, <1>4, ScrubPlain DEF LoadBalancer
  <2> QED
    BY <2>1, <2>2
<1>7. CASE lb = Truncate(full) /\ uid # <<>> /\ ~(Len(full) <= NameLenLimit)
  <2> DEFINE d == clusterNameDelimiter \o uid
             name == Truncate(full)
  <2>1. Len(full) > NameLenLimit
    BY <1>3, <1>7, LimitsAssumption
  <2>2. d \in Seq(Plain) /\ Len(d) > 0
    <3>1. IsConcat(Plain, d, clusterNameDelimiter, uid) /\ Len(uid) \in Nat
      BY PlainFacts, Concat
    <3> HIDE DEF d
    <3> QED
      BY <3>1, PlainFacts DEF IsConcat
  <2>3. name \in Seq(Plain)
    BY <1>3, PlainFacts, Truncated
  <2>4. (name \o clusterNameDelimiter) \o uid = name \o d
    <3> HIDE DEF name
    <3>1. clusterNameDelimiter \in Seq(Plain)
      BY PlainFacts
    <3> QED
      BY <2>3, <3>1, ConcatAssociative
  <2> HIDE DEF d
  <2>5. Truncate(name \o d) = name
    BY <1>3, <2>1, <2>2, PlainFacts, TruncateAgain
  <2> HIDE DEF name
  <2>6. LoadBalancer(uid, name) = name
    BY <2>3, <2>4, <2>5, ScrubPlain, Zenon DEF LoadBalancer
  <2> QED
    BY <1>7, <2>6 DEF name
<1> QED
  BY <1>2, <1>5, <1>6, <1>7

\* The prefix of forwarding rules has no delimiter.
LEMMA PlainPrefix == Cuts(<<"k8s", "-", "fw", "-">>) = {}
<1> DEFINE base == <<"k8s", "-", "fw", "-">>
<1>1. \A i \in 2..4 : ~(base[i] = "-" /\ base[i-1] = "-")
  OBVIOUS
<1>2. Len(base) = 4 /\ Len(base) \in Nat
  BY PlainFacts
<1> HIDE DEF base
<1>3. Cuts(base) \in SUBSET (2..Len(base))
  BY <1>2, CutsBound, Zenon
<1>4. ASSUME NEW i \in Cuts(base) PROVE FALSE
  <2>1. i \in 1..Len(base) /\ i \in 2..4
    BY <1>2, <1>3
  <2>2. base[i] = "-" /\ base[i-1] = "-"
    BY <1>2, <2>1, CutsStep
  <2> QED
    BY <1>1, <2>1, <2>2
<1> QED
  BY <1>4 DEF base

\* ParseName, of a forwarding rule that is not truncated: the UID it was made with; or
\* if there was none, what follows the last delimiter in the key.
LEMMA RuleGivesUid ==
  ASSUME NEW uid \in Seq(Plain), Cuts(uid) = {}, NEW key, IsIngressKey(key),
         Len(ForwardingRule(LoadBalancer(uid, key))) <= NameLenLimit
  PROVE  ParsedUid(ForwardingRule(LoadBalancer(uid, key)))
            = IF uid = <<>> /\ Cuts(key) # {} THEN LastPart(Scrubbed(key)) ELSE uid
<1> DEFINE s == Scrubbed(key)
           p == s \o clusterNameDelimiter
           full == s \o clusterNameDelimiter \o uid
           lb == LoadBalancer(uid, key)
           fw == <<"k8s", "-", "fw", "-">>
           rule == ForwardingRule(lb)
<1>1. s \in Seq(Plain) /\ s # <<>> /\ s[1] # "-" /\ s[Len(s)] # "-" /\ Cuts(s) = Cuts(key)
  BY ScrubbedKey, ScrubSeq DEF IsIngressKey
<1>2. \/ lb = s /\ uid = <<>>
      \/ lb = s /\ uid # <<>> /\ LastPart(s) = uid /\ Cuts(s) # {}
      \/ lb = Truncate(full) /\ uid # <<>>
  BY LoadBalancerName
<1>3. full \in Seq(Plain) /\ full # <<>> /\ full[1] = s[1]
  <2>1. IsConcat(Plain, p, s, clusterNameDelimiter)
    BY <1>1, PlainFacts, Concat
  <2>2. p \in Seq(Plain)
    BY <2>1, Zenon DEF IsConcat
  <2>3. IsConcat(Plain, p \o uid, p, uid)
    BY <2>2, Concat, Zenon
  <2>4. full = p \o uid
    OBVIOUS
  <2> HIDE DEF s, p, full
  <2>5. Len(s) \in Nat \ {0} /\ Len(uid) \in Nat
    BY <1>1
  <2>6. Len(p) \in Nat \ {0} /\ p[1] = s[1]
    BY <2>1, <2>5, PlainFacts DEF IsConcat
  <2>7. full \in Seq(Plain) /\ Len(full) # 0 /\ full[1] = p[1]
    BY <2>3, <2>4, <2>5, <2>6 DEF IsConcat
  <2> QED
    BY <2>6, <2>7
<1>4. LastPart(full) = uid /\ Cuts(full) # {}
  <2>1. LastPart(full) = uid /\ Cuts(full) = Cuts(s) \cup {Len(s) + 2}
    BY <1>1, PlainFacts, Joined
  <2> HIDE DEF s, full
  <2> QED
    BY <2>1
<1> HIDE DEF s, full, p
<1>5. lb \in Seq(Plain)
  <2>1. Truncate(full) \in Seq(Plain)
    BY <1>3, PlainFacts, Truncated
  <2> HIDE DEF lb
  <2> QED
    BY <1>1, <1>2, <2>1
<1>6. rule = fw \o lb /\ Len(lb) <= NameLenLimit
  <2>1. rule = Truncate(fw \o lb)
    BY DEF ForwardingRule
  <2> HIDE DEF lb, fw
  <2>2. IsConcat(Plain, fw \o lb, fw, lb)
    BY <1>5, PlainFacts, Concat, Zenon DEF fw
  <2> DEFINE name == fw \o lb
  <2>3. name \in Seq(Plain) /\ Len(name) = 4 + Len(lb) /\ Len(lb) \in Nat
    BY <1>5, <2>2, PlainFacts DEF IsConcat, fw
  <2>4. rule = Truncate(name) /\ Len(rule) <= NameLenLimit
    BY <2>1 DEF lb
  <2> HIDE DEF name, rule
  <2>5. rule = name /\ Len(name) <= NameLenLimit
    BY <2>3, <2>4, PlainFacts, Truncated
  <2> QED
    BY <2>3, <2>5, LimitsAssumption DEF name
<1>7. \/ lb = s /\ uid = <<>>
      \/ lb = s /\ uid # <<>> /\ LastPart(s) = uid /\ Cuts(s) # {}
      \/ lb = full /\ uid # <<>>
  BY <1>2, <1>3, <1>6, PlainFacts, Truncated, Zenon
<1> HIDE DEF lb, fw, rule
<1>8. ASSUME NEW q \in Seq(Plain), q # <<>>, q[1] # "-"
      PROVE  /\ Cuts(fw \o q) = {} <=> Cuts(q) = {}
             /\ Cuts(q) # {} => LastPart(fw \o q) = LastPart(q)
  BY <1>8, PlainFacts, PlainPrefix, Prefixed, Zenon DEF fw
<1>9. CASE lb = s /\ uid = <<>>
  <2>1. Cuts(rule) = {} <=> Cuts(key) = {}
    BY <1>1, <1>6, <1>8, <1>9
  <2>2. Cuts(key) # {} => LastPart(rule) = LastPart(s)
    BY <1>1, <1>6, <1>8, <1>9
  <2>3. ParsedUid(rule) = IF Cuts(key) = {} THEN uid ELSE LastPart(s)
    BY <1>9, <2>1, <2>2 DEF ParsedUid
  <2> QED
    BY <1>9, <2>3 DEF rule, lb, s
<1>10. CASE uid # <<>> /\ \E q \in {s, full} : lb = q /\ LastPart(q) = uid /\ Cuts(q) # {}
  <2>1. PICK q \in {s, full} : lb = q /\ LastPart(q) = uid /\ Cuts(q) # {}
    BY <1>10
  <2>2. q \in Seq(Plain) /\ q # <<>> /\ q[1] # "-"
    BY <1>1, <1>3
  <2>3. Cuts(rule) # {} /\ LastPart(rule) = uid
    BY <1>6, <1>8, <2>1, <2>2, Zenon
  <2>4. ParsedUid(rule) = uid
    BY <2>3 DEF ParsedUid
  <2> QED
    BY <1>10, <2>4 DEF rule, lb
<1> QED
  BY <1>4, <1>7, <1>9, <1>10

\* LoadBalancer and ForwardingRule return strings without "/".
LEMMA RuleSeq ==
  ASSUME NEW uid \in Seq(Plain), NEW key \in Seq(Symbols)
  PROVE  ForwardingRule(LoadBalancer(uid, key)) \in Seq(Plain)
<1> DEFINE s == Scrubbed(key)
           p == s \o clusterNameDelimiter
           lb == LoadBalancer(uid, key)
           fw == <<"k8s", "-", "fw", "-">>
<1>1. s \in Seq(Plain)
  BY ScrubSeq
<1>2. p \in Seq(Plain)
  BY <1>1, PlainFacts, Concat DEF IsConcat
<1>3. lb = s \/ lb = Truncate(p \o uid)
  BY DEF LoadBalancer
<1> HIDE DEF s, p, lb, fw
<1>4. p \o uid \in Seq(Plain)
  BY <1>2, Concat DEF IsConcat
<1>5. Truncate(p \o uid) \in Seq(Plain)
  BY <1>4, PlainFacts, Truncated, Zenon
<1>6. lb \in Seq(Plain)
  BY <1>1, <1>3, <1>5
<1>7. fw \o lb \in Seq(Plain)
  BY <1>6, PlainFacts, Concat DEF IsConcat, fw
<1>8. Truncate(fw \o lb) \in Seq(Plain)
  BY <1>7, PlainFacts, Truncated, Zenon
<1> QED
  BY <1>8 DEF ForwardingRule, fw, lb

\* The keys of the pool of load balancers, and the names of forwarding rules: for every
\* UID that SetUID stores and the key of every ingress, LoadBalancer applied to its own
\* result returns it, and ParseName gives the UID back where a name can.
THEOREM AlwaysLeadsBack ==
  ASSUME NEW uid \in Seq(Plain), Cuts(uid) = {}, NEW key, IsIngressKey(key)
  PROVE  LeadsBack(uid, key)
<1> DEFINE rule == ForwardingRule(LoadBalancer(uid, key))
<1>1. Len(rule) \in Nat /\ NameLenLimit \in Nat
  BY RuleSeq, LimitsAssumption DEF IsIngressKey
<1>2. Len(rule) <= NameLenLimit /\ ~(uid = <<>> /\ Cuts(key) # {}) => ParsedUid(rule) = uid
  BY RuleGivesUid
<1> HIDE DEF rule
<1>3. \/ ParsedUid(rule) = uid
      \/ Len(rule) > NameLenLimit
      \/ uid = <<>> /\ Cuts(key) # {}
  BY <1>1, <1>2
<1> QED
  BY <1>3, LookUpAgain DEF LeadsBack, rule

\* getClusterUID: the UID that it recovers from a readable forwarding rule gives the
\* ingress the same forwarding rule again.
LEMMA RuleKept ==
  ASSUME NEW uid \in Seq(Plain), Cuts(uid) = {}, NEW key, IsIngressKey(key),
         Readable(ForwardingRule(LoadBalancer(uid, key)), key)
  PROVE  LET rule == ForwardingRule(LoadBalancer(uid, key))
         IN ForwardingRule(LoadBalancer(UidOf(ParsedUid(rule)), key)) = rule
<1> DEFINE rule == ForwardingRule(LoadBalancer(uid, key))
<1>1. ParsedUid(rule) = IF uid = <<>> /\ Cuts(key) # {} THEN LastPart(Scrubbed(key)) ELSE uid
  BY RuleGivesUid DEF Readable
<1>2. CASE uid = <<>> /\ Cuts(key) # {}
  <2> DEFINE v == LastPart(key)
  <2>1. "/" \notin Range(v)
    BY <1>2 DEF Readable
  <2>2. v \in Seq(Plain)
    <3>1. v \in Seq(Symbols)
      BY LastPartFacts DEF IsIngressKey
    <3> HIDE DEF v
    <3>2. \A i \in 1..Len(v) : v[i] \in Plain
      BY <2>1, <3>1 DEF Plain, Range
    <3> QED
      BY <3>1, <3>2
  <2>3. LastPart(Scrubbed(key)) = v
    BY <2>2, ScrubbedKey, ScrubPlain
  <2>4. UidOf(v) = v
    BY LastPartUncut, Uncut, <2>2 DEF UidOf, IsIngressKey
  <2>5. LoadBalancer(v, key) = LoadBalancer(uid, key)
    BY <1>2 DEF LoadBalancer
  <2> QED
    BY <1>1, <1>2, <2>3, <2>4, <2>5
<1>3. CASE ~(uid = <<>> /\ Cuts(key) # {})
  BY <1>1, <1>3, Uncut DEF UidOf
<1> QED
  BY <1>2, <1>3

\* ParseName returns a string without "/", if there is none in the name.
LEMMA ParsedSeq ==
  ASSUME NEW name \in Seq(Plain)
  PROVE  ParsedUid(name) \in Seq(Plain)
BY LastPartFacts, PlainFacts DEF ParsedUid

\* decorateName and firewallRuleSuffix return strings without "/".
LEMMA DecoratedSeq ==
  ASSUME NEW uid \in Seq(Plain)
  PROVE  Backend(uid, "80") \in Seq(Plain) /\ FirewallRule(uid) \in Seq(Plain)
<1>1. ASSUME NEW base \in Seq(Plain)
      PROVE  Truncate(base \o clusterNameDelimiter \o uid) \in Seq(Plain)
  <2> DEFINE p == base \o clusterNameDelimiter
  <2>1. p \in Seq(Plain)
    BY PlainFacts, Concat DEF IsConcat
  <2> HIDE DEF p
  <2>2. p \o uid \in Seq(Plain)
    BY <2>1, Concat DEF IsConcat
  <2>3. Truncate(p \o uid) \in Seq(Plain)
    BY <2>2, PlainFacts, Truncated, Zenon
  <2> QED
    BY <2>3 DEF p
<1> DEFINE be == <<"k8s", "-", "be", "-", "80">>
           l7 == <<"l7">>
           fw == <<"k8s", "-", "fw", "-">>
           suffix == IF uid = <<>> THEN l7 ELSE Truncate(l7 \o clusterNameDelimiter \o uid)
<1>2. be \in Seq(Plain) /\ l7 \in Seq(Plain) /\ fw \in Seq(Plain)
  BY SymbolsAssumption DEF Plain
<1>3. Backend(uid, "80") = IF uid = <<>> THEN be ELSE Truncate(be \o clusterNameDelimiter \o uid)
  BY DEF Backend, DecorateName
<1>4. FirewallRule(uid) = fw \o suffix
  BY DEF FirewallRule
<1> HIDE DEF be, l7, fw
<1>5. Backend(uid, "80") \in Seq(Plain) /\ suffix \in Seq(Plain)
  BY <1>1, <1>2, <1>3
<1> HIDE DEF suffix
<1>6. fw \o suffix \in Seq(Plain)
  BY <1>2, <1>5, Concat DEF IsConcat
<1> QED
  BY <1>4, <1>5, <1>6

\* NEG slices its fields within their bounds, and joins them.
LEMMA NegSeq ==
  ASSUME NEW uid \in Seq(Plain), NEW namespace \in Seq(Plain), NEW name \in Seq(Plain),
         NEW port \in Seq(Plain), namespace # <<>>, name # <<>>, port # <<>>
  PROVE  NEG(uid, namespace, name, port) \in [text : Seq(Plain), hash : Seq(Plain)]
<1> DEFINE len == <<Len(namespace), Len(name), Len(port)>>
           cut == TrimmedLengths(MaxNEGLabel, len)
           A == SubSeq(namespace, 1, cut[1])
           B == SubSeq(name, 1, cut[2])
           C == SubSeq(port, 1, cut[3])
           D == <<"-">>
           P == <<"k8s1", "-">>
<1>1. len \in [1..3 -> Nat \ {0}] /\ len[1] = Len(namespace) /\ len[2] = Len(name)
      /\ len[3] = Len(port)
  OBVIOUS
<1> HIDE DEF len
<1>2. LabelFits(MaxNEGLabel, len)
  BY <1>1, LimitsAssumption, LabelAlwaysFits
<1>3. cut[1] \in 0..len[1] /\ cut[2] \in 0..len[2] /\ cut[3] \in 0..len[3]
  BY <1>2 DEF LabelFits
<1> HIDE DEF cut
<1>4. A \in Seq(Plain) /\ B \in Seq(Plain) /\ C \in Seq(Plain)
  <2>1. ASSUME NEW s \in Seq(Plain), NEW n \in 0..Len(s) PROVE SubSeq(s, 1, n) \in Seq(Plain)
    BY <2>1
  <2>2. cut[1] \in 0..Len(namespace) /\ cut[2] \in 0..Len(name) /\ cut[3] \in 0..Len(port)
    BY <1>1, <1>3
  <2> QED
    BY <2>1, <2>2, Zenon
<1>5. D \in Seq(Plain) /\ P \in Seq(Plain)
  BY SymbolsAssumption DEF Plain
<1>6. NEG(uid, namespace, name, port) =
        [text |-> P \o uid \o D \o A \o D \o B \o D \o C, hash |-> namespace \o name \o port]
  BY DEF NEG, NegPrefix, len, cut
<1> HIDE DEF A, B, C, D, P
<1>7. \A s, t \in Seq(Plain) : s \o t \in Seq(Plain)
  BY Concat DEF IsConcat
<1>8. P \o uid \o D \o A \o D \o B \o D \o C \in Seq(Plain)
  BY <1>4, <1>5, <1>7, Zenon
<1>9. namespace \o name \o port \in Seq(Plain)
  BY <1>7, Zenon
<1> QED
  BY <1>6, <1>8, <1>9
=============================================================================
