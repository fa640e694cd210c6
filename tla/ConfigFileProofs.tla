--------------------------- MODULE ConfigFileProofs ---------------------------
(* Proofs about ConfigFile, for files of any number of lines, with words   *)
(* of any length and any number of blanks: the numbers of a file laid out  *)
(* as the repository's are loaded as written, although removeWhiteSpaces   *)
(* moves one character too few.                                            *)
EXTENDS ConfigFile, TLAPS, WellFoundedInduction

-----------------------------------------------------------------------------
(* Sequences.                                                              *)

LEMMA LeastOf ==
  ASSUME NEW R, IsWellFoundedOn(R, Nat),
         \A x, y \in Nat : <<y, x>> \in R <=> y < x,
         NEW S \in SUBSET Nat, S # {}
  PROVE  \E x \in S : \A y \in S : x <= y
<1>1. PICK x \in S : \A y \in S : ~(<<y, x>> \in R)
  BY WFMin
<1>2. \A y \in S : ~(y < x)
  BY <1>1
<1>3. x \in Nat /\ \A y \in S : y \in Nat
  OBVIOUS
<1> QED
  BY <1>2, <1>3

(* A set of natural numbers has a least element.                           *)
LEMMA LeastExists ==
  ASSUME NEW S \in SUBSET Nat, S # {}
  PROVE  \E x \in S : \A y \in S : x <= y
<1>1. IsWellFoundedOn(OpToRel(<, Nat), Nat)
  BY NatLessThanWellFounded
<1>2. \A x, y \in Nat : <<y, x>> \in OpToRel(<, Nat) <=> y < x
  BY DEF OpToRel
<1> QED
  BY <1>1, <1>2, LeastOf, Zenon

LEMMA LeastIs ==
  ASSUME NEW S \in SUBSET Nat, NEW n \in S, \A m \in S : n <= m
  PROVE  Min(S) = n
<1>1. \A m \in S : m \in Int
  OBVIOUS
<1>2. n \in S /\ \A m \in S : n <= m
  BY <1>1
<1>3. Min(S) \in S /\ \A m \in S : Min(S) <= m
  BY <1>2, Zenon DEF Min
<1>4. n \in Int /\ Min(S) \in Int
  BY <1>1, <1>3, Zenon
<1>5. n <= Min(S) /\ Min(S) <= n
  BY <1>2, <1>3, Zenon
<1> QED
  BY <1>4, <1>5

LEMMA GreatestIs ==
  ASSUME NEW S \in SUBSET Nat, NEW n \in S, \A m \in S : m <= n
  PROVE  Max(S) = n
<1>1. \A m \in S : m \in Int
  OBVIOUS
<1>2. n \in S /\ \A m \in S : n >= m
  BY <1>1
<1>3. Max(S) \in S /\ \A m \in S : Max(S) >= m
  BY <1>2, Zenon DEF Max
<1>4. n \in Int /\ Max(S) \in Int
  BY <1>1, <1>3, Zenon
<1>5. n >= Max(S) /\ Max(S) >= n
  BY <1>2, <1>3, Zenon
<1> QED
  BY <1>4, <1>5

(* A set of natural numbers with an upper bound has a greatest element:    *)
(* the one whose distance to the bound is least.                           *)
LEMMA GreatestExists ==
  ASSUME NEW n \in Nat, NEW S \in SUBSET (0 .. n), S # {}
  PROVE  Max(S) \in S
<1> DEFINE T == {m \in 0 .. n : n - m \in S}
<1>1. \A x \in S : x \in Int /\ x \in 0 .. n /\ n - x \in T
  OBVIOUS
<1>2. T \in SUBSET Nat /\ T # {}
  <2>1. T \in SUBSET Nat
    OBVIOUS
  <2> HIDE DEF T
  <2> QED
    BY <1>1, <2>1
<1>3. PICK d \in T : \A e \in T : d <= e
  BY <1>2, LeastExists
<1>4. n - d \in S /\ d \in Int
  BY <1>3
<1>5. \A e \in T : e \in Int
  OBVIOUS
<1> HIDE DEF T
<1>6. \A x \in S : x <= n - d
  BY <1>1, <1>3, <1>4, <1>5
<1>7. S \in SUBSET Nat
  BY <1>1
<1>8. Max(S) = n - d
  BY <1>4, <1>6, <1>7, GreatestIs
<1> QED
  BY <1>4, <1>8

LEMMA FirstIs ==
  ASSUME NEW w \in Seq(Int), NEW n \in 1 .. Len(w), w[n] # Blank,
         \A i \in 1 .. n - 1 : w[i] = Blank
  PROVE  FirstOf(w) = n
<1> DEFINE I == {i \in 1 .. Len(w) : w[i] # Blank}
<1>1. n \in I /\ I \in SUBSET Nat
  OBVIOUS
<1>2. \A m \in I : n <= m
  OBVIOUS
<1>3. FirstOf(w) = IF I # {} THEN Min(I) ELSE 0
  BY DEF FirstOf, SelectInSeq
<1> HIDE DEF I
<1> QED
  BY <1>1, <1>2, <1>3, LeastIs

LEMMA LastIs ==
  ASSUME NEW w \in Seq(Int), NEW n \in 1 .. Len(w), w[n] # Blank,
         \A i \in n + 1 .. Len(w) : w[i] = Blank
  PROVE  LastOf(w) = n
<1> DEFINE I == {i \in 1 .. Len(w) : w[i] # Blank}
<1>1. n \in I /\ I \in SUBSET Nat
  OBVIOUS
<1>2. \A m \in I : m <= n
  OBVIOUS
<1>3. LastOf(w) = IF I # {} THEN Max(I) ELSE 0
  BY DEF LastOf, SelectLastInSeq
<1> HIDE DEF I
<1> QED
  BY <1>1, <1>2, <1>3, GreatestIs

LEMMA BlanksAre ==
  ASSUME NEW n \in Nat
  PROVE  /\ Blanks(n) \in Seq(Int) /\ Len(Blanks(n)) = n
         /\ \A i \in 1 .. n : Blanks(n)[i] = Blank
BY DEF Blanks, Blank

LEMMA Joined ==
  ASSUME NEW s \in Seq(Int), NEW t \in Seq(Int)
  PROVE  /\ s \o t \in Seq(Int) /\ Len(s \o t) = Len(s) + Len(t)
         /\ \A i \in 1 .. Len(s) : (s \o t)[i] = s[i]
         /\ \A i \in 1 .. Len(t) : (s \o t)[Len(s) + i] = t[i]
<1>1. \A i \in 1 .. Len(s) : (s \o t)[i] = s[i]
  OBVIOUS
<1>2. \A i \in 1 .. Len(t) : (s \o t)[Len(s) + i] = t[i]
  OBVIOUS
<1> QED
  BY <1>1, <1>2

LEMMA WordsAre ==
  ASSUME NEW v \in Words
  PROVE  /\ v \in Seq(Int) /\ Len(v) \in Nat /\ 1 <= Len(v)
         /\ v[1] # Blank /\ v[Len(v)] # Blank
<1>1. v \in Seq(Characters) /\ v # <<>> /\ v[1] # Blank /\ v[Len(v)] # Blank
  BY DEF Words
<1>2. Characters \subseteq Int
  BY DEF Characters
<1>3. v \in Seq(Int)
  <2>1. v \in [1 .. Len(v) -> Characters] /\ Len(v) \in Nat
    BY <1>1
  <2>2. v \in [1 .. Len(v) -> Int]
    BY <1>2, <2>1
  <2> QED
    BY <2>1, <2>2
<1> QED
  BY <1>1, <1>3

-----------------------------------------------------------------------------
(* The words of a line.                                                    *)

(* A word and blanks behind it come out as the word.                       *)
LEMMA BlanksBehind ==
  ASSUME NEW v \in Seq(Int), 1 <= Len(v), v[1] # Blank, v[Len(v)] # Blank,
         NEW gap \in Nat, NEW w, w = v \o Blanks(gap)
  PROVE  removeWhiteSpaces(w) = v
<1> DEFINE e == Blanks(gap)
<1>1. /\ e \in Seq(Int) /\ Len(e) = gap
      /\ \A i \in 1 .. gap : e[i] = Blank
  BY BlanksAre
<1>2. /\ w \in Seq(Int) /\ Len(w) = Len(v) + Len(e)
      /\ \A i \in 1 .. Len(v) : w[i] = v[i]
      /\ \A i \in 1 .. Len(e) : w[Len(v) + i] = e[i]
  BY <1>1, Joined
<1> HIDE DEF e
<1>3. Len(v) \in Nat
  OBVIOUS
<1>4. FirstOf(w) = 1
  <2>1. 1 \in 1 .. Len(w) /\ w[1] # Blank /\ \A i \in 1 .. 1 - 1 : w[i] = Blank
    BY <1>1, <1>2, <1>3
  <2> QED
    BY <1>2, <2>1, FirstIs
<1>5. LastOf(w) = Len(v)
  <2>1. Len(v) \in 1 .. Len(w) /\ w[Len(v)] # Blank
    BY <1>1, <1>2, <1>3
  <2>2. ASSUME NEW i \in Len(v) + 1 .. Len(w) PROVE w[i] = Blank
    <3>1. i - Len(v) \in 1 .. gap /\ i = Len(v) + (i - Len(v))
      BY <1>1, <1>2, <1>3
    <3> QED
      BY <1>1, <1>2, <3>1
  <2> QED
    BY <1>2, <2>1, <2>2, LastIs
<1>6. removeWhiteSpaces(w)
        = [j \in 1 .. Len(v) |-> IF j < Len(v) THEN w[j] ELSE w[j]]
  BY <1>3, <1>4, <1>5 DEF removeWhiteSpaces
<1>7. v = [j \in 1 .. Len(v) |-> v[j]]
  OBVIOUS
<1> QED
  BY <1>2, <1>6, <1>7

(* Blanks, a word, blanks and the newline.                                 *)
LineEnd(w, lead, v, trail) ==
  /\ w \in Seq(Int) /\ Len(w) = lead + Len(v) + trail + 1
  /\ \A i \in 1 .. lead : w[i] = Blank
  /\ \A i \in 1 .. Len(v) : w[lead + i] = v[i]
  /\ \A i \in 1 .. trail : w[lead + Len(v) + i] = Blank
  /\ w[Len(w)] = Newline

LEMMA LineEndIs ==
  ASSUME NEW v \in Seq(Int), NEW lead \in Nat, NEW trail \in Nat
  PROVE  LineEnd(((Blanks(lead) \o v) \o Blanks(trail)) \o <<Newline>>,
                 lead, v, trail)
<1> DEFINE w == ((Blanks(lead) \o v) \o Blanks(trail)) \o <<Newline>>
           d == Blanks(lead)
           e == Blanks(trail)
           f == <<Newline>>
           a == d \o v
           b == a \o e
<1>1. d \in Seq(Int) /\ Len(d) = lead /\ \A i \in 1 .. lead : d[i] = Blank
  BY BlanksAre
<1>2. e \in Seq(Int) /\ Len(e) = trail /\ \A i \in 1 .. trail : e[i] = Blank
  BY BlanksAre
<1>3. f \in Seq(Int) /\ Len(f) = 1 /\ f[1] = Newline
  BY DEF Newline
<1>4. w = b \o f
  OBVIOUS
<1> HIDE DEF d, e, f, w
<1>5. /\ a \in Seq(Int) /\ Len(a) = Len(d) + Len(v)
      /\ \A i \in 1 .. Len(d) : a[i] = d[i]
      /\ \A i \in 1 .. Len(v) : a[Len(d) + i] = v[i]
  BY <1>1, Joined
<1> HIDE DEF a
<1>6. /\ b \in Seq(Int) /\ Len(b) = Len(a) + Len(e)
      /\ \A i \in 1 .. Len(a) : b[i] = a[i]
      /\ \A i \in 1 .. Len(e) : b[Len(a) + i] = e[i]
  BY <1>2, <1>5, Joined
<1> HIDE DEF b
<1>7. /\ w \in Seq(Int) /\ Len(w) = Len(b) + Len(f)
      /\ \A i \in 1 .. Len(b) : w[i] = b[i]
      /\ \A i \in 1 .. Len(f) : w[Len(b) + i] = f[i]
  <2>1. /\ b \o f \in Seq(Int) /\ Len(b \o f) = Len(b) + Len(f)
        /\ \A i \in 1 .. Len(b) : (b \o f)[i] = b[i]
        /\ \A i \in 1 .. Len(f) : (b \o f)[Len(b) + i] = f[i]
    BY <1>3, <1>6, Joined
  <2> QED
    BY <1>4, <2>1
<1>8. /\ Len(v) \in Nat /\ Len(a) = lead + Len(v)
      /\ Len(b) = lead + Len(v) + trail /\ Len(w) = lead + Len(v) + trail + 1
  BY <1>1, <1>2, <1>3, <1>5, <1>6, <1>7
<1>9. \A i \in 1 .. lead : w[i] = Blank
  <2> SUFFICES ASSUME NEW i \in 1 .. lead PROVE w[i] = Blank
    OBVIOUS
  <2>1. i \in 1 .. Len(d) /\ i \in 1 .. Len(a) /\ i \in 1 .. Len(b)
    BY <1>1, <1>8
  <2>2. w[i] = b[i] /\ b[i] = a[i]
    BY <1>6, <1>7, <2>1
  <2>3. a[i] = d[i] /\ d[i] = Blank
    BY <1>1, <1>5, <2>1
  <2> QED
    BY <2>2, <2>3
<1>10. \A i \in 1 .. Len(v) : w[lead + i] = v[i]
  <2>1. \A i \in 1 .. Len(v) : lead + i \in 1 .. Len(a) /\ lead + i \in 1 .. Len(b)
    BY <1>8
  <2> QED
    BY <1>1, <1>5, <1>6, <1>7, <2>1
<1>11. \A i \in 1 .. trail : w[lead + Len(v) + i] = Blank
  <2>1. \A i \in 1 .. trail : Len(a) + i \in 1 .. Len(b) /\ Len(a) + i = lead + Len(v) + i
    BY <1>8
  <2>2. \A i \in 1 .. trail : w[Len(a) + i] = Blank
    BY <1>2, <1>6, <1>7, <2>1
  <2> QED
    BY <2>1, <2>2
<1>12. w[Len(w)] = Newline
  <2>1. 1 \in 1 .. Len(f) /\ Len(w) = Len(b) + 1
    BY <1>3, <1>8
  <2> QED
    BY <1>3, <1>7, <2>1
<1>13. LineEnd(w, lead, v, trail)
  BY <1>7, <1>8, <1>9, <1>10, <1>11, <1>12 DEF LineEnd
<1> QED
  BY <1>13 DEF w

(* Such a word, if it ends in a blank or does not begin with one, comes    *)
(* out with something behind it, but no digit: the newline that stood      *)
(* directly behind it, or a blank.                                         *)
NumberEnd(s, v, trail) ==
  /\ s \in Seq(Int) /\ Len(s) = Len(v) + trail + 1
  /\ \A i \in 1 .. Len(v) : s[i] = v[i]
  /\ s[Len(v) + 1] \in {Blank, Newline}

LEMMA NewlineBehind ==
  ASSUME NEW v \in Seq(Int), 1 <= Len(v), v[1] # Blank,
         NEW lead \in Nat, NEW trail \in Nat, trail > 0 \/ lead = 0,
         NEW w, LineEnd(w, lead, v, trail)
  PROVE  NumberEnd(removeWhiteSpaces(w), v, trail)
<1> DEFINE n == Len(v) + trail + 1
           s == removeWhiteSpaces(w)
<1>1. /\ w \in Seq(Int) /\ Len(w) = lead + Len(v) + trail + 1
      /\ \A i \in 1 .. lead : w[i] = Blank
      /\ \A i \in 1 .. Len(v) : w[lead + i] = v[i]
      /\ \A i \in 1 .. trail : w[lead + Len(v) + i] = Blank
      /\ w[Len(w)] = Newline
  BY DEF LineEnd
<1>2. Len(v) \in Nat /\ n \in Nat /\ n = Len(v) + trail + 1 /\ Len(w) = lead + n
  BY <1>1
<1>3. Blank # Newline
  BY DEF Blank, Newline
<1> HIDE DEF n
<1>4. FirstOf(w) = lead + 1
  <2>1. /\ lead + 1 \in 1 .. Len(w) /\ w[lead + 1] # Blank
        /\ \A i \in 1 .. (lead + 1) - 1 : w[i] = Blank
    <3>1. lead + 1 \in 1 .. Len(w) /\ (lead + 1) - 1 = lead /\ 1 \in 1 .. Len(v)
      BY <1>2
    <3> QED
      BY <1>1, <3>1
  <2> QED
    BY <1>1, <2>1, FirstIs
<1>5. LastOf(w) = Len(w)
  <2>1. Len(w) \in 1 .. Len(w) /\ \A i \in Len(w) + 1 .. Len(w) : FALSE
    BY <1>2
  <2>2. w \in Seq(Int) /\ w[Len(w)] # Blank
    BY <1>1, <1>3
  <2> QED
    BY <2>1, <2>2, LastIs
<1>6. s = [j \in 1 .. n |-> IF j < n THEN w[j + lead] ELSE w[j]]
  <2>1. (lead + 1) - 1 = lead /\ Len(w) - lead = n
    BY <1>2
  <2> QED
    BY <1>4, <1>5, <2>1 DEF removeWhiteSpaces
<1> HIDE DEF s
<1>7. \A j \in 1 .. n : s[j] = IF j < n THEN w[j + lead] ELSE w[j]
  BY <1>6
<1>8. s \in Seq(Int) /\ Len(s) = n
  <2>1. \A j \in 1 .. n : j \in 1 .. Len(w) /\ (j < n => j + lead \in 1 .. Len(w))
    BY <1>2
  <2>0. w \in Seq(Int)
    BY <1>1
  <2>2. \A j \in 1 .. Len(w) : w[j] \in Int
    BY <2>0
  <2>3. \A j \in 1 .. n : s[j] \in Int
    BY <1>7, <2>1, <2>2
  <2>4. s \in [1 .. n -> Int]
    BY <1>6, <2>3
  <2>5. n \in Nat
    BY <1>2
  <2> QED
    BY <2>4, <2>5
<1>9. \A i \in 1 .. Len(v) : s[i] = v[i]
  <2>1. \A i \in 1 .. Len(v) : i \in 1 .. n /\ i < n /\ i + lead = lead + i
    BY <1>2
  <2> QED
    BY <1>1, <1>7, <2>1
<1>10. s[Len(v) + 1] \in {Blank, Newline}
  <2>1. CASE trail > 0
    <3>1. /\ Len(v) + 1 \in 1 .. n /\ Len(v) + 1 < n
          /\ Len(v) + 1 + lead = lead + Len(v) + 1 /\ 1 \in 1 .. trail
      BY <1>2, <2>1
    <3>2. w[lead + Len(v) + 1] = Blank
      BY <1>1, <3>1
    <3>3. s[Len(v) + 1] = w[Len(v) + 1 + lead]
      BY <1>7, <3>1
    <3> QED
      BY <3>1, <3>2, <3>3
  <2>2. CASE trail = 0
    <3>1. Len(v) + 1 = n /\ Len(v) + 1 \in 1 .. n /\ n = Len(w)
      BY <1>2, <2>2
    <3>2. ~(n < n)
      BY <1>2
    <3>3. s[n] = w[n] /\ w[n] = Newline
      BY <1>1, <1>7, <3>1, <3>2
    <3> QED
      BY <3>1, <3>3
  <2> QED
    BY <2>1, <2>2
<1>11. NumberEnd(s, v, trail)
  BY <1>2, <1>8, <1>9, <1>10 DEF NumberEnd
<1> QED
  BY <1>11 DEF s

-----------------------------------------------------------------------------
(* The number of a word.                                                   *)

LEMMA PrefixIs ==
  ASSUME NEW w \in Seq(Int), NEW n \in 0 .. Len(w)
  PROVE  SubSeq(w, 1, n) = [i \in 1 .. n |-> w[i]]
OBVIOUS

LEMMA FirstNoDigitIs ==
  ASSUME NEW w \in Seq(Int), NEW n \in 1 .. Len(w), ~IsDigit(w[n]),
         \A i \in 1 .. n - 1 : IsDigit(w[i])
  PROVE  FirstNoDigit(w) = n
<1> DEFINE I == {i \in 1 .. Len(w) : ~IsDigit(w[i])}
<1>1. n \in I /\ I \in SUBSET Nat
  OBVIOUS
<1>2. \A m \in I : n <= m
  OBVIOUS
<1>3. FirstNoDigit(w) = IF I # {} THEN Min(I) ELSE 0
  BY DEF FirstNoDigit, SelectInSeq
<1> HIDE DEF I
<1> QED
  BY <1>1, <1>2, <1>3, LeastIs

LEMMA NoNoDigit ==
  ASSUME NEW w \in Seq(Int), \A i \in 1 .. Len(w) : IsDigit(w[i])
  PROVE  FirstNoDigit(w) = 0
<1> DEFINE I == {i \in 1 .. Len(w) : ~IsDigit(w[i])}
<1>1. I = {}
  OBVIOUS
<1>2. FirstNoDigit(w) = IF I # {} THEN Min(I) ELSE 0
  BY DEF FirstNoDigit, SelectInSeq
<1> QED
  BY <1>1, <1>2

LEMMA DigitsOfWord ==
  ASSUME NEW w \in Seq(Int), 1 <= Len(w), w[1] # Blank
  PROVE  Digits(w) = IF FirstNoDigit(w) = 0 THEN w
                     ELSE SubSeq(w, 1, FirstNoDigit(w) - 1)
<1>1. FirstOf(w) = 1
  <2>1. 1 \in 1 .. Len(w) /\ \A i \in 1 .. 1 - 1 : w[i] = Blank
    OBVIOUS
  <2> QED
    BY <2>1, FirstIs
<1>2. SubSeq(w, 1, Len(w)) = w
  OBVIOUS
<1>3. FirstOf(w) # 0 /\ SubSeq(w, FirstOf(w), Len(w)) = w
  BY <1>1, <1>2
<1> QED
  BY <1>3, Zenon DEF Digits

(* What stands behind a word does not matter to atoi, if it begins with no *)
(* digit.                                                                  *)
LEMMA NumberBefore ==
  ASSUME NEW v \in Seq(Int), 1 <= Len(v), v[1] # Blank,
         NEW s \in Seq(Int), Len(v) < Len(s),
         \A i \in 1 .. Len(v) : s[i] = v[i],
         ~IsDigit(s[Len(v) + 1])
  PROVE  atoi(s) = atoi(v)
<1>1. Len(v) \in Nat /\ Len(s) \in Nat
  OBVIOUS
<1>2. \A i \in 1 .. Len(v) : i \in 1 .. Len(s)
  BY <1>1
<1>3. Digits(v) = IF FirstNoDigit(v) = 0 THEN v
                  ELSE SubSeq(v, 1, FirstNoDigit(v) - 1)
  BY DigitsOfWord
<1>4. Digits(s) = IF FirstNoDigit(s) = 0 THEN s
                  ELSE SubSeq(s, 1, FirstNoDigit(s) - 1)
  <2>1. 1 <= Len(s) /\ s[1] # Blank
    BY <1>1
  <2> QED
    BY <2>1, DigitsOfWord
<1>5. CASE \A i \in 1 .. Len(v) : IsDigit(v[i])
  <2>1. FirstNoDigit(v) = 0
    BY <1>5, NoNoDigit
  <2>2. FirstNoDigit(s) = Len(v) + 1
    <3>1. /\ Len(v) + 1 \in 1 .. Len(s)
          /\ \A i \in 1 .. (Len(v) + 1) - 1 : i \in 1 .. Len(v)
      BY <1>1
    <3>2. \A i \in 1 .. (Len(v) + 1) - 1 : IsDigit(s[i])
      BY <1>5, <3>1
    <3> QED
      BY <3>1, <3>2, FirstNoDigitIs
  <2>3. SubSeq(s, 1, Len(v)) = v
    <3>1. SubSeq(s, 1, Len(v)) = [i \in 1 .. Len(v) |-> s[i]]
      <4>1. Len(v) \in 0 .. Len(s)
        BY <1>1
      <4> QED
        BY <4>1, PrefixIs
    <3>2. v = [i \in 1 .. Len(v) |-> v[i]]
      OBVIOUS
    <3> QED
      BY <3>1, <3>2
  <2>4. FirstNoDigit(s) # 0 /\ FirstNoDigit(s) - 1 = Len(v)
    BY <1>1, <2>2
  <2> QED
    BY <1>3, <1>4, <2>1, <2>3, <2>4 DEF atoi
<1>6. CASE \E i \in 1 .. Len(v) : ~IsDigit(v[i])
  <2> DEFINE I == {i \in 1 .. Len(v) : ~IsDigit(v[i])}
  <2>1. I # {} /\ I \in SUBSET Nat
    BY <1>6
  <2>2. PICK m \in I : \A i \in I : m <= i
    BY <2>1, LeastExists
  <2>3. m \in 1 .. Len(v) /\ ~IsDigit(v[m])
    BY <2>2
  <2>4. \A i \in 1 .. m - 1 : i \in 1 .. Len(v) /\ ~(m <= i)
    BY <1>1, <2>3
  <2>5. \A i \in 1 .. m - 1 : IsDigit(v[i])
    BY <2>2, <2>4
  <2> HIDE DEF I
  <2>6. FirstNoDigit(v) = m
    BY <2>3, <2>5, FirstNoDigitIs
  <2>7. FirstNoDigit(s) = m
    <3>1. m \in 1 .. Len(s) /\ ~IsDigit(s[m])
      BY <1>2, <2>3
    <3>2. \A i \in 1 .. m - 1 : IsDigit(s[i])
      BY <2>4, <2>5
    <3> QED
      BY <3>1, <3>2, FirstNoDigitIs
  <2>8. SubSeq(s, 1, m - 1) = SubSeq(v, 1, m - 1)
    <3>1. m - 1 \in 0 .. Len(v) /\ m - 1 \in 0 .. Len(s)
      BY <1>1, <2>3
    <3>2. /\ SubSeq(s, 1, m - 1) = [i \in 1 .. m - 1 |-> s[i]]
          /\ SubSeq(v, 1, m - 1) = [i \in 1 .. m - 1 |-> v[i]]
      BY <3>1, PrefixIs
    <3> QED
      BY <2>4, <3>2
  <2>9. m # 0
    BY <2>3
  <2> QED
    BY <1>3, <1>4, <2>6, <2>7, <2>8, <2>9 DEF atoi
<1> QED
  BY <1>5, <1>6

-----------------------------------------------------------------------------
(* A line.                                                                 *)

(* The key of a line without indent is read as it was written.             *)
LEMMA KeyRead ==
  ASSUME NEW l \in Line, LaidOut(l)
  PROVE  removeWhiteSpaces(FirstWord(l)) = l.key
<1>1. l.key \in Words /\ l.gap \in Nat /\ l.indent = 0 /\ l.dash = TRUE
  BY DEF Line, LaidOut
<1>2. /\ l.key \in Seq(Int) /\ 1 <= Len(l.key)
      /\ l.key[1] # Blank /\ l.key[Len(l.key)] # Blank
  BY <1>1, WordsAre
<1>3. FirstWord(l) = l.key \o Blanks(l.gap)
  <2>1. Blanks(0) = <<>>
    BY DEF Blanks
  <2>2. FirstWord(l) = ((<<>> \o l.key) \o Blanks(l.gap)) \o <<>>
    BY <1>1, <2>1 DEF FirstWord
  <2>3. Blanks(l.gap) \in Seq(Int)
    BY <1>1, BlanksAre
  <2>4. \A a, b \in Seq(Int) : ((<<>> \o a) \o b) \o <<>> = a \o b
    OBVIOUS
  <2> QED
    BY <1>2, <2>2, <2>3, <2>4
<1> QED
  BY <1>1, <1>2, <1>3, BlanksBehind

(* Its value is read as the number that was written, and never as "DVB_T": *)
(* the newline is still behind it.                                         *)
LEMMA ValueRead ==
  ASSUME NEW l \in Line, LaidOut(l), NEW w, w = removeWhiteSpaces(SecondWord(l))
  PROVE  atoi(w) = atoi(l.value) /\ w # DvbT
<1>1. /\ l.value \in Words /\ l.lead \in Nat /\ l.trail \in Nat
      /\ l.newline = TRUE /\ (l.trail > 0 \/ l.lead = 0)
  BY DEF Line, LaidOut
<1>2. l.value \in Seq(Int) /\ 1 <= Len(l.value) /\ l.value[1] # Blank
  BY <1>1, WordsAre
<1>3. LineEnd(SecondWord(l), l.lead, l.value, l.trail)
  <2>1. SecondWord(l)
          = ((Blanks(l.lead) \o l.value) \o Blanks(l.trail)) \o <<Newline>>
    BY <1>1 DEF SecondWord
  <2> QED
    BY <1>1, <1>2, <2>1, LineEndIs
<1>4. /\ w \in Seq(Int) /\ Len(w) = Len(l.value) + l.trail + 1
      /\ \A i \in 1 .. Len(l.value) : w[i] = l.value[i]
      /\ w[Len(l.value) + 1] \in {Blank, Newline}
  <2>1. NumberEnd(w, l.value, l.trail)
    BY <1>1, <1>2, <1>3, NewlineBehind
  <2> QED
    BY <2>1 DEF NumberEnd
<1>5. atoi(w) = atoi(l.value)
  <2>1. \A c \in {Blank, Newline} : ~IsDigit(c)
    BY DEF IsDigit, Zero, Blank, Newline
  <2>2. Len(l.value) < Len(w)
    BY <1>1, <1>2, <1>4
  <2> QED
    BY <1>2, <1>4, <2>1, <2>2, NumberBefore
<1>6. w # DvbT
  <2> SUFFICES ASSUME w = DvbT PROVE FALSE
    OBVIOUS
  <2>1. Len(w) = 2 /\ w[2] = 84
    BY DEF DvbT
  <2>2. Len(l.value) + 1 = 2
    <3>1. Len(l.value) \in Nat /\ l.trail \in Nat
      BY <1>1, <1>2
    <3>2. 2 = Len(l.value) + l.trail + 1
      BY <1>4, <2>1
    <3> QED
      BY <1>2, <3>1, <3>2
  <2> QED
    BY <1>4, <2>1, <2>2 DEF Blank, Newline
<1> QED
  BY <1>5, <1>6

LEMMA KeysDiffer ==
  /\ DOMAIN Keys = {"frequency", "bandwidth", "module", "program_number"}
  /\ \A a, b \in DOMAIN Keys : Keys[a] = Keys[b] => a = b
<1>1. DOMAIN Keys = {"frequency", "bandwidth", "module", "program_number"}
  BY DEF Keys
<1>2. /\ Keys["frequency"][1] = 102 /\ Keys["bandwidth"][1] = 98
      /\ Keys["module"][1] = 109 /\ Keys["program_number"][1] = 112
  BY DEF Keys
<1> QED
  BY <1>1, <1>2

-----------------------------------------------------------------------------
(* The file.                                                               *)

Acceptable == \A n \in DOMAIN file : LaidOut(file[n]) /\ Fits(file[n])

FileInv ==
  /\ file \in Seq(Line) /\ line \in 0 .. Len(file)
  /\ DOMAIN configFile = DOMAIN Keys

(* At every line what was read is what the lines up to it say; the program *)
(* is taken last.                                                          *)
LoadInv == FileInv /\ LoadedAsWritten

LEMMA LoadInvInit == Init => LoadInv
<1> SUFFICES ASSUME Init PROVE LoadInv
  OBVIOUS
<1>1. file \in Files /\ line = 0 /\ result = "reading"
      /\ configFile = [frequency |-> 0, bandwidth |-> 0, program_number |-> 0,
                       module |-> "none"]
  BY DEF Init
<1>2. file \in Seq(Line)
  BY <1>1, FilesOK
<1>3. FileInv
  <2>1. DOMAIN configFile = DOMAIN Keys
    BY <1>1, KeysDiffer
  <2> QED
    BY <1>1, <1>2, <2>1 DEF FileInv
<1>4. \A key : Setting(key) = {} /\ Written(key) = 0
  BY <1>1 DEF Setting, Written
<1>5. \A key \in DOMAIN Keys \ {"module"} : configFile[key] = 0
  BY <1>1, KeysDiffer
<1>6. LoadedAsWritten
  BY <1>1, <1>4, <1>5 DEF LoadedAsWritten
<1> QED
  BY <1>3, <1>6 DEF LoadInv

(* A line that does not set a key leaves what is written for it.           *)
LEMMA OtherKey ==
  ASSUME NEW key, line \in Nat, line' = line + 1, file' = file,
         file[line + 1].key # Keys[key]
  PROVE  Written(key)' = Written(key)
<1>1. Setting(key)' = Setting(key)
  BY DEF Setting
<1> QED
  BY <1>1 DEF Written

(* One that sets it is the last to do so.                                  *)
LEMMA SameKey ==
  ASSUME NEW key, line \in Nat, line' = line + 1, file' = file,
         file[line + 1].key = Keys[key]
  PROVE  Written(key)' = atoi(file[line + 1].value)
<1>1. Setting(key)' = Setting(key) \cup {line + 1}
  BY DEF Setting
<1>2. /\ Setting(key)' \in SUBSET Nat /\ line + 1 \in Setting(key)'
      /\ \A m \in Setting(key)' : m <= line + 1
  BY <1>1 DEF Setting
<1>3. Max(Setting(key)') = line + 1 /\ Setting(key)' # {}
  BY <1>2, GreatestIs
<1> QED
  BY <1>3 DEF Written

LEMMA ReadLineKeeps ==
  ASSUME LoadInv, ReadLine
  PROVE  LoadInv'
<1> DEFINE l == file[line + 1]
           word == removeWhiteSpaces(SecondWord(l))
           known == {key \in DOMAIN Keys :
                       removeWhiteSpaces(FirstWord(l)) = Keys[key]}
<1>1. /\ result = "reading" /\ line < Len(file) /\ line' = line + 1
      /\ UNCHANGED <<file, programNumber>>
      /\ \/ known = {} /\ UNCHANGED <<configFile, result>>
         \/ known # {} /\ ~l.dash /\ result' = "null" /\ UNCHANGED configFile
         \/ l.dash /\ \E key \in known : Take(key, word)
  BY DEF ReadLine
<1>2. /\ file \in Seq(Line) /\ line \in Nat /\ line + 1 \in 1 .. Len(file)
      /\ line' \in 0 .. Len(file) /\ l \in Line
  <2>1. file \in Seq(Line) /\ Len(file) \in Nat /\ line \in 0 .. Len(file)
    BY DEF LoadInv, FileInv
  <2>2. line \in Nat /\ line + 1 \in 1 .. Len(file) /\ line' \in 0 .. Len(file)
    BY <1>1, <2>1
  <2> QED
    BY <2>1, <2>2
<1>3. FileInv'
  <2>1. DOMAIN configFile' = DOMAIN configFile
    BY <1>1 DEF Take
  <2> QED
    BY <1>1, <1>2, <2>1 DEF LoadInv, FileInv
<1>4. ASSUME Acceptable
      PROVE  /\ result' = "reading"
             /\ \A key \in DOMAIN Keys \ {"module"} :
                  configFile'[key] = Written(key)'
  <2>1. LaidOut(l) /\ l.dash
    BY <1>2, <1>4 DEF Acceptable, LaidOut
  <2>2. known = {key \in DOMAIN Keys : l.key = Keys[key]}
    BY <1>2, <2>1, KeyRead
  <2>3. atoi(word) = atoi(l.value) /\ word # DvbT
    BY <1>2, <2>1, ValueRead
  <2>4. \A key \in DOMAIN Keys \ {"module"} : configFile[key] = Written(key)
    BY <1>4 DEF LoadInv, LoadedAsWritten, Acceptable
  <2>5. \A key : l.key # Keys[key] => Written(key)' = Written(key)
    BY <1>1, <1>2, OtherKey
  <2> HIDE DEF l, word, known
  <2>6. CASE known = {} /\ UNCHANGED <<configFile, result>>
    <3>1. \A key \in DOMAIN Keys : l.key # Keys[key]
      BY <2>2, <2>6
    <3> QED
      BY <1>1, <2>4, <2>5, <2>6, <3>1
  <2>7. ASSUME NEW key \in known, Take(key, word)
        PROVE  /\ result' = "reading"
               /\ \A k \in DOMAIN Keys \ {"module"} :
                    configFile'[k] = Written(k)'
    <3>1. key \in DOMAIN Keys /\ l.key = Keys[key]
      BY <2>2, <2>7
    <3>2. \A k \in DOMAIN Keys : k # key => Written(k)' = Written(k)
      BY <2>5, <3>1, KeysDiffer
    <3>3. Written(key)' = atoi(l.value)
      BY <1>1, <1>2, <3>1, SameKey DEF l
    <3>4. DOMAIN configFile = DOMAIN Keys
      BY DEF LoadInv, FileInv
    <3>5. CASE key # "module"
      <4>1. /\ configFile' = [configFile EXCEPT ![key] = atoi(word)]
            /\ result' = result
        BY <2>7, <3>5 DEF Take
      <4>2. configFile'[key] = atoi(word)
        BY <3>1, <3>4, <4>1
      <4>3. \A k \in DOMAIN Keys : k # key => configFile'[k] = configFile[k]
        BY <3>4, <4>1
      <4> QED
        BY <1>1, <2>3, <2>4, <3>2, <3>3, <4>1, <4>2, <4>3
    <3>6. CASE key = "module"
      <4>1. /\ configFile' = [configFile EXCEPT !.module = "DVB_T"]
            /\ result' = result
        BY <2>3, <2>7, <3>6 DEF Take
      <4>2. \A k \in DOMAIN Keys : k # "module" => configFile'[k] = configFile[k]
        BY <3>4, <4>1
      <4> QED
        BY <1>1, <2>4, <3>2, <3>6, <4>1, <4>2
    <3> QED
      BY <3>5, <3>6
  <2> QED
    BY <1>1, <2>1, <2>6, <2>7
<1>5. LoadedAsWritten'
  <2>1. Acceptable' <=> Acceptable
    BY <1>1 DEF Acceptable
  <2> QED
    BY <1>4, <2>1 DEF LoadedAsWritten, Acceptable
<1> QED
  BY <1>3, <1>5 DEF LoadInv

LEMMA EndOfFileKeeps ==
  ASSUME LoadInv, EndOfFile
  PROVE  LoadInv'
<1>1. /\ result' = "ok" /\ UNCHANGED <<file, line, configFile>>
      /\ programNumber' = Int16(configFile.program_number)
  BY DEF EndOfFile
<1>2. FileInv'
  BY <1>1 DEF LoadInv, FileInv
<1>3. \A key : Written(key)' = Written(key)
  BY <1>1 DEF Written, Setting
<1>4. ASSUME Acceptable
      PROVE  /\ \A key \in DOMAIN Keys \ {"module"} :
                  configFile[key] = Written(key)
             /\ Int16(configFile.program_number) = configFile.program_number
  <2>1. \A key \in DOMAIN Keys \ {"module"} : configFile[key] = Written(key)
    BY <1>4 DEF LoadInv, LoadedAsWritten, Acceptable
  <2>2. configFile.program_number = Written("program_number")
    BY <2>1, KeysDiffer
  <2>3. Written("program_number") \in 0 .. INT16_MAX
    <3>1. CASE Setting("program_number") = {}
      BY <3>1 DEF Written, INT16_MAX
    <3>2. CASE Setting("program_number") # {}
      <4> DEFINE n == Max(Setting("program_number"))
      <4>1. n \in Setting("program_number")
        <5>1. line \in Nat
          BY DEF LoadInv, FileInv
        <5>2. Setting("program_number") \in SUBSET (0 .. line)
          BY <5>1 DEF Setting
        <5> QED
          BY <3>2, <5>1, <5>2, GreatestExists
      <4>2. n \in DOMAIN file /\ file[n].key = Keys["program_number"]
        <5>1. /\ DOMAIN file = 1 .. Len(file) /\ Len(file) \in Nat
              /\ line \in 0 .. Len(file)
          BY DEF LoadInv, FileInv
        <5>2. n \in 1 .. line /\ file[n].key = Keys["program_number"]
          BY <4>1 DEF Setting
        <5> QED
          BY <5>1, <5>2
      <4>3. Written("program_number") = atoi(file[n].value)
        BY <3>2 DEF Written
      <4> HIDE DEF n
      <4> QED
        BY <1>4, <4>2, <4>3 DEF Acceptable, Fits
    <3> QED
      BY <3>1, <3>2
  <2>4. \A n \in 0 .. INT16_MAX : Int16(n) = n
    <3>1. \A n \in 0 .. INT16_MAX : n \in Int /\ 0 <= n /\ n <= 32767
      BY DEF INT16_MAX
    <3>2. \A n \in Int : 0 <= n /\ n <= 32767 => (n + 32768) % 65536 = n + 32768
      OBVIOUS
    <3> QED
      BY <3>1, <3>2 DEF Int16
  <2> QED
    BY <2>1, <2>2, <2>3, <2>4
<1>5. LoadedAsWritten'
  <2>1. Acceptable' <=> Acceptable
    BY <1>1 DEF Acceptable
  <2> QED
    BY <1>1, <1>3, <1>4, <2>1 DEF LoadedAsWritten, Acceptable
<1> QED
  BY <1>2, <1>5 DEF LoadInv

(* The numbers of a file of any number of lines that are laid out as the   *)
(* repository's are loaded as they are written: the last line of each key  *)
(* counts, with all its digits, and the program fits.                      *)
THEOREM LoadsAsWritten == Spec => []LoadedAsWritten
<1>1. LoadInv /\ [Next]_vars => LoadInv'
  <2> SUFFICES ASSUME LoadInv, [Next]_vars PROVE LoadInv'
    OBVIOUS
  <2>1. CASE UNCHANGED vars
    <3>1. UNCHANGED <<file, line, configFile, programNumber, result>>
      BY <2>1 DEF vars
    <3>2. \A key : Written(key)' = Written(key)
      BY <3>1 DEF Written, Setting
    <3> QED
      BY <3>1, <3>2 DEF LoadInv, FileInv, LoadedAsWritten
  <2> QED
    BY <2>1, ReadLineKeeps, EndOfFileKeeps DEF Next
<1>2. LoadInv => LoadedAsWritten
  BY DEF LoadInv
<1> QED
  BY <1>1, <1>2, LoadInvInit, PTL DEF Spec
=============================================================================
