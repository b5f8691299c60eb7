------------------------ MODULE PreprocessorProofs ------------------------
(***************************************************************************)
(* Proofs about Preprocessor, for any files, packages, macros and blocks   *)
(* and any number of lines.                                                *)
(***************************************************************************)
EXTENDS Preprocessor, SequenceTheorems, FiniteSetTheorems,
        WellFoundedInduction, TLAPS

-----------------------------------------------------------------------------
(* Sets of natural numbers. *)

\* Each that is not empty has a least element.
LEMMA LeastExists ==
    ASSUME NEW S \in SUBSET Nat, S # {}
    PROVE  \E e \in S : \A d \in S : e <= d
  <1> DEFINE less == {ss \in Nat \X Nat : ss[1] < ss[2]}
  <1>1. IsWellFoundedOn(less, Nat)
    BY NatLessThanWellFounded DEF OpToRel
  <1>2. PICK e \in S : \A d \in S : <<d, e>> \notin less
    <2> HIDE DEF less
    <2>1. QED
      BY <1>1, WFMin
  <1>3. ASSUME NEW d \in S PROVE e <= d
    <2>1. e \in Nat /\ d \in Nat /\ <<d, e>> \in Nat \X Nat
      OBVIOUS
    <2>2. ~(<<d, e>>[1] < <<d, e>>[2])
      BY <1>2, <2>1
    <2>3. QED
      BY <2>1, <2>2
  <1>4. QED
    BY <1>3

\* Min picks it.
LEMMA MinIs ==
    ASSUME NEW S \in SUBSET Nat, S # {}
    PROVE  Min(S) \in S /\ \A d \in S : Min(S) <= d
  <1>1. \E e \in S : \A d \in S : e <= d
    BY LeastExists
  <1>2. QED
    BY <1>1 DEF Min

\* Each that is bounded and not empty has a greatest element; Max picks it.
LEMMA MaxIs ==
    ASSUME NEW n \in Nat, NEW S \in SUBSET (0..n), S # {}
    PROVE  Max(S) \in S /\ \A d \in S : d <= Max(S)
  <1> DEFINE T == {n - d : d \in S}
  <1>1. T \in SUBSET Nat /\ T # {}
    <2>1. \A d \in S : d \in 0..n /\ n - d \in Nat
      OBVIOUS
    <2>2. QED
      BY <2>1
  <1>2. PICK e \in T : \A d \in T : e <= d
    <2> HIDE DEF T
    <2>1. QED
      BY <1>1, LeastExists
  <1>3. PICK m \in S : e = n - m
    BY <1>2
  <1>4. \A d \in S : d <= m
    <2>1. ASSUME NEW d \in S PROVE d <= m
      <3>1. n - d \in T /\ d \in Int /\ m \in Int
        OBVIOUS
      <3>2. n - m <= n - d
        BY <1>2, <1>3, <3>1
      <3>3. QED
        BY <3>1, <3>2
    <2>2. QED
      BY <2>1
  <1>5. QED
    BY <1>4 DEF Max

\* The greatest element is the only one of its kind.
LEMMA MaxOnly ==
    ASSUME NEW S \in SUBSET Nat, NEW m \in S, \A d \in S : d <= m
    PROVE  Max(S) = m
  <1>1. \A x \in S : (\A d \in S : d <= x) => x = m
    <2>1. ASSUME NEW x \in S, \A d \in S : d <= x PROVE x = m
      <3>1. m <= x /\ x <= m /\ x \in Nat /\ m \in Nat
        BY <2>1
      <3>2. QED
        BY <3>1
    <2>2. QED
      BY <2>1
  <1>2. QED
    BY <1>1 DEF Max

\* Induction, for the members of a set.
LEMMA Inductive ==
    ASSUME NEW S, 0 \in S, \A n \in Nat : n \in S => n + 1 \in S
    PROVE  \A n \in Nat : n \in S
  <1> DEFINE bad == {n \in Nat : n \notin S}
  <1>1. SUFFICES ASSUME bad # {} PROVE FALSE
    OBVIOUS
  <1>2. bad \in SUBSET Nat
    OBVIOUS
  <1>3. PICK e \in bad : \A d \in bad : e <= d
    <2> HIDE DEF bad
    <2>1. QED
      BY <1>1, <1>2, LeastExists
  <1>4. e # 0
    OBVIOUS
  <1>5. e - 1 \in Nat /\ e - 1 \notin bad
    BY <1>3, <1>4
  <1>6. e - 1 + 1 \in S
    BY <1>5
  <1>7. QED
    BY <1>6

-----------------------------------------------------------------------------
(* The two loops. *)

\* The output of the activations is that of one after the other.
LEMMA OutsIs ==
    ASSUME NEW frames, NEW n \in Nat, Len(frames) = n
    PROVE  Outs(frames) =
             [j \in 0..n |-> IF j = 0 THEN <<>>
                             ELSE Outs(frames)[j - 1] \o frames[j].out]
  <1> DEFINE Is(g, m) ==
        g = [j \in 0..m |-> IF j = 0 THEN <<>> ELSE g[j - 1] \o frames[j].out]
      Good == {m \in Nat : \E g : Is(g, m)}
  <1>1. 0 \in Good
    <2>1. Is([j \in 0..0 |-> <<>>], 0)
      OBVIOUS
    <2>2. QED
      BY <2>1
  <1>2. ASSUME NEW m \in Nat, m \in Good PROVE m + 1 \in Good
    <2>1. PICK g : Is(g, m)
      BY <1>2
    <2> DEFINE h == [j \in 0..(m + 1) |->
                       IF j = m + 1 THEN g[m] \o frames[m + 1].out ELSE g[j]]
    <2>2. ASSUME NEW j \in 0..(m + 1)
          PROVE  h[j] = IF j = 0 THEN <<>> ELSE h[j - 1] \o frames[j].out
      <3>1. CASE j = m + 1
        BY <3>1
      <3>2. CASE j # m + 1
        <4>1. j \in 0..m /\ h[j] = g[j]
          BY <3>2
        <4>2. j # 0 => j - 1 \in 0..(m + 1) /\ j - 1 # m + 1
          BY <4>1
        <4>3. j # 0 => h[j - 1] = g[j - 1]
          BY <4>2
        <4>4. g[j] = IF j = 0 THEN <<>> ELSE g[j - 1] \o frames[j].out
          BY <2>1, <4>1
        <4>5. QED
          BY <4>1, <4>3, <4>4
      <3>3. QED
        BY <3>1, <3>2
    <2>3. Is(h, m + 1)
      BY <2>2
    <2>4. \E u : Is(u, m + 1)
      <3> HIDE DEF h, Is
      <3>1. QED
        BY <2>3
    <2>5. QED
      <3> HIDE DEF Is
      <3>1. QED
        BY <2>4
  <1>3. n \in Good
    <2> HIDE DEF Good
    <2>1. QED
      BY <1>1, <1>2, Inductive
  <1>4. QED
    BY <1>3 DEF Outs

\* What the splitting of a block keeps is that of one line after the other.
LEMMA SplitToIs ==
    ASSUME NEW block, NEW n \in Nat, Len(block) = n
    PROVE  SplitTo(block) =
             [k \in 0..n |-> IF k = 0 THEN NoCases
                             ELSE SplitStep(SplitTo(block)[k - 1], block[k])]
  <1> DEFINE Is(g, m) ==
        g = [k \in 0..m |-> IF k = 0 THEN NoCases
                            ELSE SplitStep(g[k - 1], block[k])]
      Good == {m \in Nat : \E g : Is(g, m)}
  <1>1. 0 \in Good
    <2>1. Is([k \in 0..0 |-> NoCases], 0)
      OBVIOUS
    <2>2. QED
      BY <2>1
  <1>2. ASSUME NEW m \in Nat, m \in Good PROVE m + 1 \in Good
    <2>1. PICK g : Is(g, m)
      BY <1>2
    <2> DEFINE h == [k \in 0..(m + 1) |->
                       IF k = m + 1 THEN SplitStep(g[m], block[m + 1]) ELSE g[k]]
    <2>2. ASSUME NEW k \in 0..(m + 1)
          PROVE  h[k] = IF k = 0 THEN NoCases ELSE SplitStep(h[k - 1], block[k])
      <3>1. CASE k = m + 1
        BY <3>1
      <3>2. CASE k # m + 1
        <4>1. k \in 0..m /\ h[k] = g[k]
          BY <3>2
        <4>2. k # 0 => k - 1 \in 0..(m + 1) /\ k - 1 # m + 1
          BY <4>1
        <4>3. k # 0 => h[k - 1] = g[k - 1]
          BY <4>2
        <4>4. g[k] = IF k = 0 THEN NoCases ELSE SplitStep(g[k - 1], block[k])
          BY <2>1, <4>1
        <4>5. QED
          BY <4>1, <4>3, <4>4
      <3>3. QED
        BY <3>1, <3>2
    <2>3. Is(h, m + 1)
      BY <2>2
    <2>4. \E u : Is(u, m + 1)
      <3> HIDE DEF h, Is
      <3>1. QED
        BY <2>3
    <2>5. QED
      <3> HIDE DEF Is
      <3>1. QED
        BY <2>4
  <1>3. n \in Good
    <2> HIDE DEF Good
    <2>1. QED
      BY <1>1, <1>2, Inductive
  <1>4. QED
    BY <1>3 DEF SplitTo

-----------------------------------------------------------------------------
(* What process_plugswitch goes on with. *)

\* Lines as blocks have them.
LinesOf(L) == \A l \in L : l.op = "case" => l.arg \notin {"none", "DEFAULT"}

CaseMarks(block, m) == {j \in Marks(block) : j < m /\ block[j].op = "case"}

DefaultMarks(block, m) == {j \in Marks(block) : j < m /\ block[j].op = "default"}

Cases(L) == [cond : {l.arg : l \in L}, body : Seq(L)]

\* The cases and the default flushed before m are the texts of the marks
\* before it: of each case, in order, and of the last default.
Collected(block, cases, default, m) ==
    /\ \E f \in [DOMAIN cases -> CaseMarks(block, m)] :
          /\ \A i, k \in DOMAIN cases : i < k => f[i] < f[k]
          /\ \A j \in CaseMarks(block, m) : \E i \in DOMAIN cases : f[i] = j
          /\ \A i \in DOMAIN cases :
                /\ cases[i].cond = block[f[i]].arg
                /\ cases[i].body = CaseText(block, f[i])
    /\ default = IF DefaultMarks(block, m) = {} THEN <<>>
                 ELSE CaseText(block, Max(DefaultMarks(block, m)))

MarksTo(block, k) == {j \in Marks(block) : j <= k}

\* What the loop keeps after k lines: the text of the last mark so far is
\* being read, those before it are flushed.
SplitSoFar(L, block, k, s) ==
    /\ s = [cond |-> s.cond, lines |-> s.lines, cases |-> s.cases,
            default |-> s.default]
    /\ s.lines \in Seq(L) /\ s.cases \in Seq(Cases(L))
    /\ MarksTo(block, k) = {} =>
          s.cond = "none" /\ s.cases = <<>> /\ s.default = <<>>
    /\ \A m \in MarksTo(block, k) : (\A j \in MarksTo(block, k) : j <= m) =>
          /\ s.cond = IF block[m].op = "case" THEN block[m].arg ELSE "DEFAULT"
          /\ s.lines = SubSeq(block, m + 1, k)
          /\ Collected(block, s.cases, s.default, m)

LEMMA CaseTextIs ==
    ASSUME NEW L, NEW block \in Seq(L), NEW m \in Marks(block), NEW k \in Nat,
           m <= k, k <= Len(block),
           \A j \in Marks(block) : j <= k => j <= m,
           k = Len(block) \/ k + 1 \in Marks(block)
    PROVE  CaseText(block, m) = SubSeq(block, m + 1, k)
  <1> DEFINE later == {j \in Marks(block) : j > m}
  <1>1. \A j \in Marks(block) : j \in 1..Len(block)
    BY DEF Marks
  <1>2. CASE later = {}
    <2>1. k + 1 \notin Marks(block)
      BY <1>1, <1>2
    <2>2. QED
      BY <1>2, <2>1 DEF CaseText
  <1>3. CASE later # {}
    <2>1. later \in SUBSET Nat
      BY <1>1
    <2>2. Min(later) \in later /\ \A d \in later : Min(later) <= d
      <3> HIDE DEF later
      <3>1. QED
        BY <1>3, <2>1, MinIs
    <2>3. Min(later) > k /\ Min(later) \in Nat
      BY <1>1, <2>2
    <2>4. k + 1 \in later
      BY <1>1, <2>2, <2>3
    <2>5. Min(later) - 1 = k
      <3> HIDE DEF later
      <3>1. Min(later) <= k + 1
        BY <2>2, <2>4
      <3>2. QED
        BY <2>3, <3>1
    <2>6. CaseText(block, m) =
            SubSeq(block, m + 1, IF later = {} THEN Len(block) ELSE Min(later) - 1)
      BY DEF CaseText
    <2>7. QED
      BY <1>3, <2>5, <2>6
  <1>4. QED
    BY <1>2, <1>3

LEMMA MarksIn ==
    ASSUME NEW L, NEW block \in Seq(L)
    PROVE  /\ Marks(block) \in SUBSET (1..Len(block))
           /\ \A j \in Marks(block) :
                 block[j] \in L /\ block[j].op \in {"case", "default"}
  BY DEF Marks

\* The marks up to k, and the last of them.
LEMMA MarksBefore ==
    ASSUME NEW L, NEW block \in Seq(L), NEW m \in Marks(block), NEW k \in Nat,
           m <= k, \A j \in Marks(block) : j <= k => j <= m
    PROVE  /\ CaseMarks(block, k + 1) =
                 CaseMarks(block, m) \union IF block[m].op = "case" THEN {m} ELSE {}
           /\ DefaultMarks(block, k + 1) =
                 DefaultMarks(block, m)
                     \union IF block[m].op = "default" THEN {m} ELSE {}
  <1>1. \A j \in Marks(block) : j \in Int
    BY MarksIn
  <1>2. \A j \in Marks(block) : j < k + 1 <=> j < m \/ j = m
    BY <1>1
  <1>3. QED
    BY <1>2, Zenon DEF CaseMarks, DefaultMarks

\* flush after the text of a case: the case is added to those collected.
LEMMA CaseFlushed ==
    ASSUME NEW L, NEW block \in Seq(L), NEW m \in Marks(block), NEW k \in Nat,
           NEW cases \in Seq(Cases(L)), NEW default, NEW text \in Seq(L),
           m <= k, \A j \in Marks(block) : j <= k => j <= m,
           block[m].op = "case", text = CaseText(block, m),
           Collected(block, cases, default, m)
    PROVE  LET all == Append(cases, [cond |-> block[m].arg, body |-> text])
           IN  all \in Seq(Cases(L)) /\ Collected(block, all, default, k + 1)
  <1> DEFINE new == [cond |-> block[m].arg, body |-> text]
             all == Append(cases, new)
             C == Cases(L)
  <1>1. new \in C
    BY MarksIn DEF Cases
  <1>2. PICK c \in Nat : c = Len(cases)
    OBVIOUS
  <1>3. /\ all \in Seq(C) /\ DOMAIN all = 1..(c + 1) /\ DOMAIN cases = 1..c
        /\ all[c + 1] = new /\ \A i \in 1..c : all[i] = cases[i]
    <2> HIDE DEF C, new
    <2>1. cases \in Seq(C)
      BY DEF C
    <2>2. QED
      BY <1>1, <1>2, <2>1, AppendProperties
  <1>4. PICK f \in [DOMAIN cases -> CaseMarks(block, m)] :
          /\ \A i, j \in DOMAIN cases : i < j => f[i] < f[j]
          /\ \A j \in CaseMarks(block, m) : \E i \in DOMAIN cases : f[i] = j
          /\ \A i \in DOMAIN cases :
                /\ cases[i].cond = block[f[i]].arg
                /\ cases[i].body = CaseText(block, f[i])
    BY DEF Collected
  <1> DEFINE g == [i \in 1..(c + 1) |-> IF i = c + 1 THEN m ELSE f[i]]
  <1>5. CaseMarks(block, k + 1) = CaseMarks(block, m) \union {m}
    BY MarksBefore
  <1>6. DefaultMarks(block, k + 1) = DefaultMarks(block, m)
    <2>1. (IF block[m].op = "default" THEN {m} ELSE {}) = {}
      OBVIOUS
    <2>2. DefaultMarks(block, k + 1) =
            DefaultMarks(block, m) \union IF block[m].op = "default" THEN {m} ELSE {}
      BY MarksBefore
    <2>3. QED
      BY <2>1, <2>2
  <1>7. \A i \in 1..c : i \in 1..(c + 1) /\ i # c + 1 /\ i \in DOMAIN cases
    BY <1>3
  <1>8. /\ g[c + 1] = m
        /\ \A i \in 1..c : g[i] = f[i] /\ f[i] \in CaseMarks(block, m)
    BY <1>7
  <1>9. \A i \in 1..(c + 1) : i = c + 1 \/ i \in 1..c
    OBVIOUS
  <1> HIDE DEF g
  <1>10. g \in [DOMAIN all -> CaseMarks(block, k + 1)]
    <2>1. \A i \in 1..(c + 1) : g[i] \in CaseMarks(block, k + 1)
      BY <1>5, <1>8, <1>9
    <2>2. QED
      BY <1>3, <2>1 DEF g
  <1>11. ASSUME NEW i \in DOMAIN all, NEW j \in DOMAIN all, i < j
         PROVE  g[i] < g[j]
    <2>1. i \in 1..c
      BY <1>3, <1>11
    <2>2. CASE j \in 1..c
      BY <1>4, <1>7, <1>8, <1>11, <2>1, <2>2
    <2>3. CASE j = c + 1
      BY <1>8, <2>1, <2>3 DEF CaseMarks
    <2>4. QED
      BY <1>3, <1>9, <2>2, <2>3
  <1>12. ASSUME NEW j \in CaseMarks(block, k + 1)
         PROVE  \E i \in DOMAIN all : g[i] = j
    <2>1. CASE j = m
      BY <1>3, <1>8, <2>1
    <2>2. CASE j \in CaseMarks(block, m)
      <3>1. PICK i \in DOMAIN cases : f[i] = j
        BY <1>4, <2>2
      <3>2. i \in 1..c /\ i \in DOMAIN all
        BY <1>3, <3>1
      <3>3. QED
        BY <1>8, <3>1, <3>2
    <2>3. QED
      BY <1>5, <2>1, <2>2
  <1>13. ASSUME NEW i \in DOMAIN all
         PROVE  all[i].cond = block[g[i]].arg /\ all[i].body = CaseText(block, g[i])
    <2>1. CASE i = c + 1
      BY <1>3, <1>8, <2>1
    <2>2. CASE i \in 1..c
      BY <1>3, <1>4, <1>7, <1>8, <2>2
    <2>3. QED
      BY <1>3, <1>9, <2>1, <2>2
  <1>14. default = IF DefaultMarks(block, k + 1) = {} THEN <<>>
                   ELSE CaseText(block, Max(DefaultMarks(block, k + 1)))
    BY <1>6 DEF Collected
  <1>15. Collected(block, all, default, k + 1)
    <2> HIDE DEF all
    <2>1. QED
      BY <1>10, <1>11, <1>12, <1>13, <1>14 DEF Collected
  <1>16. QED
    BY <1>3, <1>15

\* flush after the text of a default: it is the last one.
LEMMA DefaultFlushed ==
    ASSUME NEW L, NEW block \in Seq(L), NEW m \in Marks(block), NEW k \in Nat,
           NEW cases \in Seq(Cases(L)), NEW default, NEW text \in Seq(L),
           m <= k, \A j \in Marks(block) : j <= k => j <= m,
           block[m].op = "default", text = CaseText(block, m),
           Collected(block, cases, default, m)
    PROVE  Collected(block, cases, text, k + 1)
  <1>1. CaseMarks(block, k + 1) = CaseMarks(block, m)
    <2>1. (IF block[m].op = "case" THEN {m} ELSE {}) = {}
      OBVIOUS
    <2>2. CaseMarks(block, k + 1) =
            CaseMarks(block, m) \union IF block[m].op = "case" THEN {m} ELSE {}
      BY MarksBefore
    <2>3. QED
      BY <2>1, <2>2
  <1>2. DefaultMarks(block, k + 1) = DefaultMarks(block, m) \union {m}
    BY MarksBefore, SMTT(30)
  <1>3. Max(DefaultMarks(block, k + 1)) = m
    <2>1. DefaultMarks(block, k + 1) \in SUBSET Nat
      BY MarksIn DEF DefaultMarks
    <2>2. \A d \in DefaultMarks(block, k + 1) : d <= m
      BY MarksIn DEF DefaultMarks
    <2>3. QED
      BY <1>2, <2>1, <2>2, MaxOnly
  <1>4. QED
    BY <1>1, <1>2, <1>3, ZenonT(60) DEF Collected

LEMMA AppendStretch ==
    ASSUME NEW S, NEW s \in Seq(S), NEW a \in Nat \ {0}, NEW k \in Nat,
           a <= k + 1, k < Len(s)
    PROVE  Append(SubSeq(s, a, k), s[k + 1]) = SubSeq(s, a, k + 1)
  <1>1. a \in 1..Len(s) /\ k + 1 \in a..Len(s) /\ k + 1 - 1 = k
    OBVIOUS
  <1>2. SubSeq(s, a, k + 1) = SubSeq(s, a, k) \o <<s[k + 1]>>
    BY <1>1, SubSeqRecursiveSecond
  <1>3. SubSeq(s, a, k) \in Seq(S) /\ s[k + 1] \in S
    <2>1. \A i \in a..k : s[i] \in S
      BY <1>1
    <2>2. QED
      BY <1>1, <2>1, SubSeqProperties
  <1>4. Append(SubSeq(s, a, k), s[k + 1]) = SubSeq(s, a, k) \o <<s[k + 1]>>
    BY <1>3, AppendIsConcat
  <1>5. QED
    BY <1>2, <1>4

LEMMA LastMark ==
    ASSUME NEW L, NEW block \in Seq(L), NEW k \in Nat, MarksTo(block, k) # {}
    PROVE  \E m \in MarksTo(block, k) : \A j \in MarksTo(block, k) : j <= m
  <1>1. MarksTo(block, k) \in SUBSET (0..k)
    BY MarksIn DEF MarksTo
  <1>2. QED
    BY <1>1, MaxIs

\* flush where a text ends, at the next mark or the end of the block.
LEMMA FlushCollects ==
    ASSUME NEW L, LinesOf(L), NEW block \in Seq(L), NEW k \in Nat,
           k <= Len(block), k = Len(block) \/ k + 1 \in Marks(block),
           NEW s, SplitSoFar(L, block, k, s)
    PROVE  LET t == Flush(s)
           IN  /\ t = [cond |-> t.cond, lines |-> t.lines, cases |-> t.cases,
                       default |-> t.default]
               /\ t.cases \in Seq(Cases(L))
               /\ Collected(block, t.cases, t.default, k + 1)
  <1>1. CASE MarksTo(block, k) = {}
    <2>1. s.cond = "none" /\ s.cases = <<>> /\ s.default = <<>>
      BY <1>1 DEF SplitSoFar
    <2>2. Flush(s) = s
      BY <2>1 DEF Flush
    <2>3. CaseMarks(block, k + 1) = {} /\ DefaultMarks(block, k + 1) = {}
      BY <1>1, MarksIn DEF CaseMarks, DefaultMarks, MarksTo
    <2>4. <<>> \in [DOMAIN <<>> -> CaseMarks(block, k + 1)] /\ DOMAIN <<>> = {}
      OBVIOUS
    <2>5. Collected(block, <<>>, <<>>, k + 1)
      BY <2>3, <2>4 DEF Collected
    <2>6. QED
      BY <2>1, <2>2, <2>5 DEF SplitSoFar
  <1>2. CASE MarksTo(block, k) # {}
    <2>1. PICK m \in MarksTo(block, k) : \A j \in MarksTo(block, k) : j <= m
      BY <1>2, LastMark
    <2>2. /\ m \in Marks(block) /\ m <= k
          /\ \A j \in Marks(block) : j <= k => j <= m
      BY <2>1 DEF MarksTo
    <2>3. /\ s.cond = IF block[m].op = "case" THEN block[m].arg ELSE "DEFAULT"
          /\ s.lines = SubSeq(block, m + 1, k)
          /\ Collected(block, s.cases, s.default, m)
      BY <2>1 DEF SplitSoFar
    <2>4. /\ s.lines \in Seq(L) /\ s.cases \in Seq(Cases(L))
          /\ s = [cond |-> s.cond, lines |-> s.lines, cases |-> s.cases,
                  default |-> s.default]
      BY DEF SplitSoFar
    <2>5. s.lines = CaseText(block, m)
      BY <2>2, <2>3, CaseTextIs
    <2>6. block[m] \in L /\ block[m].op \in {"case", "default"}
      BY <2>2, MarksIn
    <2>7. CASE block[m].op = "case"
      <3>1. s.cond = block[m].arg /\ s.cond \notin {"none", "DEFAULT"}
        BY <2>3, <2>6, <2>7 DEF LinesOf
      <3>2. Flush(s) =
              [s EXCEPT !.cases = Append(@, [cond |-> s.cond, body |-> s.lines]),
                        !.cond = "none", !.lines = <<>>]
        BY <3>1 DEF Flush
      <3> DEFINE all == Append(s.cases, [cond |-> block[m].arg, body |-> s.lines])
      <3>3. Flush(s) = [cond |-> "none", lines |-> <<>>, cases |-> all,
                        default |-> s.default]
        BY <2>4, <3>1, <3>2
      <3>4. all \in Seq(Cases(L)) /\ Collected(block, all, s.default, k + 1)
        BY <2>2, <2>3, <2>4, <2>5, <2>7, CaseFlushed
      <3> HIDE DEF all
      <3>5. QED
        BY <3>3, <3>4
    <2>8. CASE block[m].op = "default"
      <3>1. s.cond = "DEFAULT"
        BY <2>3, <2>8
      <3>2. Flush(s) = [cond |-> "none", lines |-> <<>>, cases |-> s.cases,
                        default |-> s.lines]
        BY <2>4, <3>1 DEF Flush
      <3>3. Collected(block, s.cases, s.lines, k + 1)
        BY <2>2, <2>3, <2>4, <2>5, <2>8, DefaultFlushed
      <3>4. QED
        BY <2>4, <3>2, <3>3
    <2>9. QED
      BY <2>6, <2>7, <2>8
  <1>3. QED
    BY <1>1, <1>2

\* One line more.
LEMMA SplitsOn ==
    ASSUME NEW L, LinesOf(L), NEW block \in Seq(L), NEW k \in Nat,
           k < Len(block), NEW s, SplitSoFar(L, block, k, s)
    PROVE  SplitSoFar(L, block, k + 1, SplitStep(s, block[k + 1]))
  <1> DEFINE line == block[k + 1]
             t == SplitStep(s, line)
  <1>1. k + 1 \in DOMAIN block /\ line \in L /\ k <= Len(block)
    OBVIOUS
  <1>2. CASE line.op \in {"case", "default"}
    <2>1. k + 1 \in Marks(block)
      BY <1>1, <1>2 DEF Marks
    <2> DEFINE u == Flush(s)
    <2>2. /\ u = [cond |-> u.cond, lines |-> u.lines, cases |-> u.cases,
                  default |-> u.default]
          /\ u.cases \in Seq(Cases(L))
          /\ Collected(block, u.cases, u.default, k + 1)
      BY <1>1, <2>1, FlushCollects
    <2> HIDE DEF u
    <2>3. t = [u EXCEPT !.cond = IF line.op = "case" THEN line.arg ELSE "DEFAULT",
                        !.lines = <<>>]
      BY <1>2 DEF SplitStep, u
    <2>4. t = [cond |-> IF line.op = "case" THEN line.arg ELSE "DEFAULT",
               lines |-> <<>>, cases |-> u.cases, default |-> u.default]
      BY <2>2, <2>3
    <2>5. \A m \in MarksTo(block, k + 1) :
              (\A j \in MarksTo(block, k + 1) : j <= m) => m = k + 1
      <3>1. k + 1 \in MarksTo(block, k + 1)
        BY <2>1 DEF MarksTo
      <3>2. \A m \in MarksTo(block, k + 1) : m \in Nat /\ m <= k + 1
        BY MarksIn DEF MarksTo
      <3>3. QED
        BY <3>1, <3>2
    <2>6. <<>> = SubSeq(block, k + 1 + 1, k + 1)
      BY SubSeqEmpty
    <2>7. MarksTo(block, k + 1) # {}
      BY <2>1 DEF MarksTo
    <2>8. <<>> \in Seq(L)
      OBVIOUS
    <2> HIDE DEF t, line
    <2>10. ASSUME NEW m \in MarksTo(block, k + 1),
                  \A j \in MarksTo(block, k + 1) : j <= m
           PROVE  /\ t.cond = IF block[m].op = "case" THEN block[m].arg ELSE "DEFAULT"
                  /\ t.lines = SubSeq(block, m + 1, k + 1)
                  /\ Collected(block, t.cases, t.default, m)
      <3>1. m = k + 1
        BY <2>5, <2>10
      <3>2. QED
        BY <2>2, <2>4, <2>6, <3>1 DEF line
    <2>11. SplitSoFar(L, block, k + 1, t)
      BY <2>2, <2>4, <2>7, <2>8, <2>10 DEF SplitSoFar
    <2>12. QED
      BY <2>11 DEF t, line
  <1>3. CASE line.op \notin {"case", "default"}
    <2>1. t = [s EXCEPT !.lines = Append(@, line)]
      BY <1>3 DEF SplitStep
    <2>2. /\ s.lines \in Seq(L) /\ s.cases \in Seq(Cases(L))
          /\ s = [cond |-> s.cond, lines |-> s.lines, cases |-> s.cases,
                  default |-> s.default]
      BY DEF SplitSoFar
    <2>3. t = [cond |-> s.cond, lines |-> Append(s.lines, line),
               cases |-> s.cases, default |-> s.default]
      BY <2>1, <2>2
    <2>4. Append(s.lines, line) \in Seq(L)
      BY <1>1, <2>2
    <2>5. MarksTo(block, k + 1) = MarksTo(block, k)
      <3>1. k + 1 \notin Marks(block)
        BY <1>3 DEF Marks
      <3>2. \A j \in Marks(block) : j <= k + 1 => j <= k
        BY <3>1, MarksIn
      <3>3. \A j \in Marks(block) : j <= k => j <= k + 1
        BY MarksIn
      <3>4. QED
        BY <3>2, <3>3 DEF MarksTo
    <2>6. \A m \in MarksTo(block, k) :
              Append(SubSeq(block, m + 1, k), line) = SubSeq(block, m + 1, k + 1)
      <3>1. \A m \in MarksTo(block, k) : m \in Nat /\ m <= k
        BY MarksIn DEF MarksTo
      <3>2. ASSUME NEW m \in MarksTo(block, k)
            PROVE  Append(SubSeq(block, m + 1, k), line) = SubSeq(block, m + 1, k + 1)
        <4>1. m + 1 \in Nat \ {0} /\ m + 1 <= k + 1
          BY <3>1
        <4>2. QED
          BY <4>1, AppendStretch
      <3>3. QED
        BY <3>2
    <2> HIDE DEF t, line
    <2>7. SplitSoFar(L, block, k + 1, t)
      BY <2>2, <2>3, <2>4, <2>5, <2>6 DEF SplitSoFar
    <2>8. QED
      BY <2>7 DEF t, line
  <1>4. QED
    BY <1>2, <1>3

LEMMA SplitRuns ==
    ASSUME NEW L, LinesOf(L), NEW block \in Seq(L), NEW k \in 0..Len(block)
    PROVE  SplitSoFar(L, block, k, SplitTo(block)[k])
  <1>1. PICK n \in Nat : n = Len(block)
    OBVIOUS
  <1> DEFINE after == SplitTo(block)
             Good == {i \in Nat : i <= n => SplitSoFar(L, block, i, after[i])}
  <1>2. after = [i \in 0..n |-> IF i = 0 THEN NoCases
                                ELSE SplitStep(after[i - 1], block[i])]
    BY <1>1, SplitToIs
  <1> HIDE DEF after
  <1>3. 0 \in Good
    <2>1. after[0] = NoCases
      BY <1>2
    <2>2. MarksTo(block, 0) = {}
      BY MarksIn DEF MarksTo
    <2>3. <<>> \in Seq(L) /\ <<>> \in Seq(Cases(L))
      OBVIOUS
    <2>4. SplitSoFar(L, block, 0, NoCases)
      BY <2>2, <2>3 DEF SplitSoFar, NoCases
    <2>5. QED
      BY <2>1, <2>4
  <1>4. ASSUME NEW i \in Nat, i \in Good PROVE i + 1 \in Good
    <2>1. CASE i + 1 <= n
      <3>1. SplitSoFar(L, block, i, after[i]) /\ i < n
        BY <1>4, <2>1
      <3>2. SplitSoFar(L, block, i + 1, SplitStep(after[i], block[i + 1]))
        BY <1>1, <3>1, SplitsOn
      <3>3. after[i + 1] = SplitStep(after[i], block[i + 1])
        BY <1>2, <2>1
      <3>4. QED
        BY <3>2, <3>3
    <2>2. QED
      BY <2>1
  <1>5. k \in Good
    <2> HIDE DEF Good
    <2>1. QED
      BY <1>3, <1>4, Inductive
  <1>6. QED
    BY <1>1, <1>5 DEF after

\* The first case collected that holds is that of the least mark that holds.
Holding(cases) == {i \in DOMAIN cases : Holds(cases[i].cond)}

HoldingMarks(block, m) == {j \in CaseMarks(block, m) : Holds(block[j].arg)}

LEMMA FirstHolds ==
    ASSUME NEW L, NEW block \in Seq(L), NEW n \in Nat, NEW cases \in Seq(Cases(L)),
           NEW default, Collected(block, cases, default, n)
    PROVE  /\ Holding(cases) = {} <=> HoldingMarks(block, n) = {}
           /\ Holding(cases) # {} =>
                 cases[Min(Holding(cases))].body =
                     CaseText(block, Min(HoldingMarks(block, n)))
  <1> DEFINE holding == Holding(cases)
             marks == HoldingMarks(block, n)
  <1>0. PICK f \in [DOMAIN cases -> CaseMarks(block, n)] :
          /\ \A i, k \in DOMAIN cases : i < k => f[i] < f[k]
          /\ \A j \in CaseMarks(block, n) : \E i \in DOMAIN cases : f[i] = j
          /\ \A i \in DOMAIN cases :
                /\ cases[i].cond = block[f[i]].arg
                /\ cases[i].body = CaseText(block, f[i])
    BY DEF Collected
  <1>1. \A i \in holding : i \in DOMAIN cases /\ f[i] \in marks
    BY <1>0 DEF Holding, HoldingMarks
  <1>2. \A j \in marks : \E i \in holding : f[i] = j
    <2>1. ASSUME NEW j \in marks PROVE \E i \in holding : f[i] = j
      <3>1. PICK i \in DOMAIN cases : f[i] = j
        BY <1>0 DEF HoldingMarks
      <3>2. QED
        BY <1>0, <3>1 DEF Holding, HoldingMarks
    <2>2. QED
      BY <2>1
  <1>3. ASSUME holding # {}
        PROVE  cases[Min(holding)].body = CaseText(block, Min(marks))
    <2>1. holding \in SUBSET Nat /\ marks \in SUBSET Nat /\ marks # {}
      <3>1. \A i \in holding : i \in Nat
        BY DEF Holding
      <3>2. \A j \in marks : j \in Nat
        BY MarksIn DEF CaseMarks, HoldingMarks
      <3>3. QED
        BY <1>1, <1>3, <3>1, <3>2
    <2>2. PICK a \in holding : a = Min(holding) /\ \A i \in holding : a <= i
      BY <1>3, <2>1, MinIs
    <2>3. PICK m \in marks : m = Min(marks) /\ \A j \in marks : m <= j
      BY <2>1, MinIs
    <2>4. PICK i \in holding : f[i] = m
      BY <1>2
    <2>5. m <= f[a] /\ a <= i
      BY <1>1, <2>2, <2>3
    <2>6. a = i
      <3>1. a \in Nat /\ i \in Nat /\ f[a] \in Nat /\ f[i] \in Nat
        BY <1>1, <2>1
      <3>2. a < i => f[a] < f[i]
        BY <1>0, <1>1
      <3>3. QED
        BY <2>4, <2>5, <3>1, <3>2
    <2>7. QED
      BY <1>0, <1>1, <2>2, <2>3, <2>4, <2>6
  <1>4. QED
    BY <1>1, <1>2, <1>3

\* The case a Plugswitch goes on with is the one that it selects.
LEMMA ChosenIs ==
    ASSUME NEW L, LinesOf(L), NEW block \in Seq(L)
    PROVE  IsSelected(Chosen(block), block)
  <1>1. PICK n \in Nat : n = Len(block)
    OBVIOUS
  <1> DEFINE s == SplitTo(block)[n]
             t == Split(block)
             holding == Holding(t.cases)
             true == {j \in Marks(block) : block[j].op = "case" /\ Holds(block[j].arg)}
             defaults == {j \in Marks(block) : block[j].op = "default"}
  <1>2. SplitSoFar(L, block, n, s)
    BY <1>1, SplitRuns
  <1>3. t = Flush(s)
    BY <1>1 DEF Split
  <1> HIDE DEF s, t
  <1>4. t.cases \in Seq(Cases(L)) /\ Collected(block, t.cases, t.default, n + 1)
    BY <1>1, <1>2, <1>3, FlushCollects
  <1>6. /\ true = HoldingMarks(block, n + 1)
        /\ defaults = DefaultMarks(block, n + 1)
    <2>1. \A j \in Marks(block) : j < n + 1
      BY <1>1, MarksIn
    <2>2. QED
      BY <2>1 DEF CaseMarks, DefaultMarks, HoldingMarks
  <1>7. Chosen(block) = IF holding = {} THEN t.default ELSE t.cases[Min(holding)].body
    BY DEF Chosen, Holding, t
  <1>8. /\ holding = {} <=> true = {}
        /\ holding # {} => t.cases[Min(holding)].body = CaseText(block, Min(true))
    <2> HIDE DEF true
    <2>1. n + 1 \in Nat
      OBVIOUS
    <2>2. QED
      BY <1>4, <1>6, <2>1, FirstHolds
  <1>9. \A k : Selects(block, k) <=>
            \/ true # {} /\ k = Min(true)
            \/ true = {} /\ defaults # {} /\ k = Max(defaults)
    BY Zenon DEF Selects
  <1>10. true # {} => Min(true) \in Marks(block)
    <2>1. true \in SUBSET Nat
      BY MarksIn
    <2> HIDE DEF true
    <2>2. true # {} => Min(true) \in true
      BY <2>1, MinIs
    <2>3. QED
      BY <2>2 DEF true
  <1>11. defaults # {} => Max(defaults) \in Marks(block)
    <2>1. defaults \in SUBSET (0..n)
      BY <1>1, MarksIn
    <2> HIDE DEF defaults
    <2>2. defaults # {} => Max(defaults) \in defaults
      BY <2>1, MaxIs
    <2>3. QED
      BY <2>2 DEF defaults
  <1>12. t.default = IF defaults = {} THEN <<>> ELSE CaseText(block, Max(defaults))
    BY <1>4, <1>6 DEF Collected
  <1> HIDE DEF true, defaults, holding
  <1>13. CASE true # {}
    <2>1. Chosen(block) = CaseText(block, Min(true))
      BY <1>7, <1>8, <1>13
    <2>2. QED
      BY <1>9, <1>10, <1>13, <2>1 DEF IsSelected
  <1>14. CASE true = {} /\ defaults # {}
    <2>1. Chosen(block) = CaseText(block, Max(defaults))
      BY <1>7, <1>8, <1>12, <1>14
    <2>2. QED
      BY <1>9, <1>11, <1>14, <2>1 DEF IsSelected
  <1>15. CASE true = {} /\ defaults = {}
    <2>1. Chosen(block) = <<>>
      BY <1>7, <1>8, <1>12, <1>15
    <2>2. QED
      BY <1>9, <1>15, <2>1 DEF IsSelected
  <1>16. QED
    BY <1>13, <1>14, <1>15

\* It is no longer than the block.
LEMMA ChosenFits ==
    ASSUME NEW L, LinesOf(L), NEW block \in Seq(L)
    PROVE  Chosen(block) \in Seq(L) /\ Len(Chosen(block)) <= Len(block)
  <1>1. CASE Chosen(block) = <<>>
    BY <1>1
  <1>2. ASSUME NEW k \in Marks(block)
        PROVE  /\ CaseText(block, k) \in Seq(L)
               /\ Len(CaseText(block, k)) <= Len(block)
    <2> DEFINE later == {j \in Marks(block) : j > k}
               end == IF later = {} THEN Len(block) ELSE Min(later) - 1
    <2>1. end \in Int /\ end <= Len(block)
      <3>1. \A j \in later : j \in Nat /\ j <= Len(block)
        BY MarksIn
      <3>2. later # {} => Min(later) \in later
        <4>1. later \in SUBSET Nat
          BY <3>1
        <4> HIDE DEF later
        <4>2. QED
          BY <4>1, MinIs
      <3> HIDE DEF later
      <3>3. QED
        BY <3>1, <3>2
    <2>2. CaseText(block, k) = SubSeq(block, k + 1, end)
      BY Zenon DEF CaseText
    <2> HIDE DEF end
    <2>3. k \in Nat
      BY MarksIn
    <2>4. \A i \in (k + 1)..end : block[i] \in L
      BY <2>1, <2>3
    <2>5. /\ SubSeq(block, k + 1, end) \in Seq(L)
          /\ Len(SubSeq(block, k + 1, end)) =
                IF k + 1 <= end THEN end - (k + 1) + 1 ELSE 0
      BY <2>1, <2>3, <2>4, SubSeqProperties
    <2>6. QED
      BY <2>1, <2>2, <2>3, <2>5
  <1>3. QED
    BY <1>1, <1>2, ChosenIs DEF IsSelected

\* A block and what follows its Plugend are in the lines.
LEMMA BlockFits ==
    ASSUME NEW L, NEW lines \in Seq(L)
    PROVE  /\ BlockOf(lines) \in Seq(L) /\ AfterBlock(lines) \in Seq(L)
           /\ Len(BlockOf(lines)) + Len(AfterBlock(lines)) <= Len(lines)
  <1>1. CASE Plugends(lines) = {}
    <2>1. BlockOf(lines) = lines /\ AfterBlock(lines) = <<>>
      BY <1>1 DEF BlockOf, AfterBlock
    <2>2. QED
      BY <2>1
  <1>2. CASE Plugends(lines) # {}
    <2>1. PICK n \in Nat : n = Len(lines)
      OBVIOUS
    <2>2. Plugends(lines) \in SUBSET (1..n) /\ Plugends(lines) \in SUBSET Nat
      BY <2>1 DEF Plugends
    <2>3. PICK m \in 1..n : m = Min(Plugends(lines))
      BY <1>2, <2>2, MinIs
    <2>4. /\ SubSeq(lines, 1, m - 1) \in Seq(L)
          /\ Len(SubSeq(lines, 1, m - 1)) = m - 1
      <3>1. \A i \in 1..(m - 1) : lines[i] \in L
        BY <2>1
      <3>2. /\ SubSeq(lines, 1, m - 1) \in Seq(L)
            /\ Len(SubSeq(lines, 1, m - 1)) =
                  IF 1 <= m - 1 THEN m - 1 - 1 + 1 ELSE 0
        BY <3>1, SubSeqProperties
      <3>3. QED
        BY <3>2
    <2>5. /\ SubSeq(lines, m + 1, n) \in Seq(L)
          /\ Len(SubSeq(lines, m + 1, n)) = n - m
      <3>1. \A i \in (m + 1)..n : lines[i] \in L
        BY <2>1
      <3>2. /\ SubSeq(lines, m + 1, n) \in Seq(L)
            /\ Len(SubSeq(lines, m + 1, n)) =
                  IF m + 1 <= n THEN n - (m + 1) + 1 ELSE 0
        BY <3>1, SubSeqProperties
      <3>3. QED
        BY <3>2
    <2>6. BlockOf(lines) = SubSeq(lines, 1, m - 1)
      BY <1>2, <2>3 DEF BlockOf
    <2>7. AfterBlock(lines) = SubSeq(lines, m + 1, n)
      BY <1>2, <2>1, <2>3 DEF AfterBlock
    <2>8. m - 1 + (n - m) <= n
      BY <2>1
    <2>9. QED
      BY <2>1, <2>4, <2>5, <2>6, <2>7, <2>8
  <1>3. QED
    BY <1>1, <1>2

-----------------------------------------------------------------------------
(* Frames. *)

Lines == UNION {ToSet(b) : b \in Blocks}

InPackages == Packages \union {Start}

\* What a macro makes of a package's name is read as one.
ReadPackages == InPackages \union Values

Pieces ==
    [op : {"package", "text"}, file : Files, at : Nat, package : ReadPackages,
     sure : BOOLEAN]

Frames ==
    [file : Files, via : {"main", "include", "plugin", "switch"}, at : Nat,
     body : Seq(Lines), package : InPackages, sure : BOOLEAN, out : Seq(Pieces)]

LEMMA LinesAreLines == LinesOf(Lines) /\ Blocks \subseteq Seq(Lines)
  <1>1. \A b \in Blocks : ToSet(b) \subseteq Lines
    BY DEF Lines
  <1>2. \A b \in Blocks : b \in Seq(Lines)
    BY <1>1, BlocksAssumption, SeqMonotonic
  <1>3. QED
    BY <1>2, BlocksAssumption DEF LinesOf, Lines

\* The output so far, frame by frame: each adds its own.
LEMMA OutsTyped ==
    ASSUME NEW frames \in Seq(Frames)
    PROVE  /\ Outs(frames)[0] = <<>>
           /\ \A j \in 1..Len(frames) :
                 Outs(frames)[j] = Outs(frames)[j - 1] \o frames[j].out
           /\ \A j \in 0..Len(frames) : Outs(frames)[j] \in Seq(Pieces)
  <1>1. PICK n \in Nat : n = Len(frames)
    OBVIOUS
  <1> DEFINE outs == Outs(frames)
             Good == {j \in Nat : j <= n => outs[j] \in Seq(Pieces)}
  <1>2. outs = [j \in 0..n |-> IF j = 0 THEN <<>> ELSE outs[j - 1] \o frames[j].out]
    BY <1>1, OutsIs
  <1> HIDE DEF outs
  <1>3. outs[0] = <<>>
    BY <1>2
  <1>4. \A j \in 1..n : outs[j] = outs[j - 1] \o frames[j].out
    BY <1>2
  <1>5. 0 \in Good
    <2>1. outs[0] \in Seq(Pieces)
      BY <1>3
    <2>2. QED
      BY <2>1
  <1>6. ASSUME NEW j \in Nat, j \in Good PROVE j + 1 \in Good
    <2>1. CASE j + 1 <= n
      <3>1. PICK i \in 1..n : i = j + 1 /\ i - 1 = j
        BY <2>1
      <3>2. outs[j] \in Seq(Pieces)
        BY <1>6, <2>1
      <3>3. frames[i] \in Frames
        BY <1>1
      <3>4. frames[i].out \in Seq(Pieces)
        BY <3>3 DEF Frames
      <3>5. outs[i] = outs[j] \o frames[i].out
        BY <1>4, <3>1
      <3>6. outs[i] \in Seq(Pieces)
        BY <3>2, <3>4, <3>5, ConcatProperties
      <3>7. QED
        BY <3>1, <3>6
    <2>2. QED
      BY <2>1
  <1>7. \A j \in Nat : j \in Good
    <2> HIDE DEF Good
    <2>1. QED
      BY <1>5, <1>6, Inductive
  <1>8. \A j \in 0..n : outs[j] \in Seq(Pieces)
    BY <1>7
  <1>9. QED
    BY <1>1, <1>3, <1>4, <1>8 DEF outs

\* Frames that wrote the same have the same output.
LEMMA OutsSame ==
    ASSUME NEW f \in Seq(Frames), NEW g \in Seq(Frames), NEW m \in Nat,
           m <= Len(f), m <= Len(g), \A i \in 1..m : f[i].out = g[i].out
    PROVE  \A j \in 0..m : Outs(f)[j] = Outs(g)[j]
  <1> DEFINE Good == {j \in Nat : j <= m => Outs(f)[j] = Outs(g)[j]}
  <1>1. 0 \in Good
    BY OutsTyped
  <1>2. ASSUME NEW j \in Nat, j \in Good PROVE j + 1 \in Good
    <2>1. CASE j + 1 <= m
      <3>1. PICK i \in 1..m : i = j + 1 /\ i - 1 = j
        BY <2>1
      <3>2. i \in 1..Len(f) /\ i \in 1..Len(g)
        OBVIOUS
      <3>3. Outs(f)[i] = Outs(f)[i - 1] \o f[i].out
        BY <3>2, OutsTyped
      <3>4. Outs(g)[i] = Outs(g)[i - 1] \o g[i].out
        BY <3>2, OutsTyped
      <3>5. Outs(f)[j] = Outs(g)[j]
        BY <1>2, <2>1
      <3>6. Outs(f)[i] = Outs(g)[i]
        BY <3>1, <3>3, <3>4, <3>5
      <3>7. QED
        BY <3>1, <3>6
    <2>2. QED
      BY <2>1
  <1>3. \A j \in Nat : j \in Good
    <2> HIDE DEF Good
    <2>1. QED
      BY <1>1, <1>2, Inductive
  <1>4. QED
    BY <1>3

FrameOf(file, via, at, body, package, sure, out) ==
    [file |-> file, via |-> via, at |-> at, body |-> body, package |-> package,
     sure |-> sure, out |-> out]

LEMMA FrameIs ==
    ASSUME NEW f \in Frames
    PROVE  f = FrameOf(f.file, f.via, f.at, f.body, f.package, f.sure, f.out)
  BY DEF Frames, FrameOf

LEMMA FrameFields ==
    ASSUME NEW a, NEW b, NEW c, NEW d, NEW e, NEW h, NEW u
    PROVE  LET f == FrameOf(a, b, c, d, e, h, u)
           IN  /\ f.file = a /\ f.via = b /\ f.at = c /\ f.body = d
               /\ f.package = e /\ f.sure = h /\ f.out = u
  BY DEF FrameOf

LEMMA FrameTyped ==
    ASSUME NEW a \in Files, NEW b \in {"main", "include", "plugin", "switch"},
           NEW c \in Nat, NEW d \in Seq(Lines), NEW e \in InPackages,
           NEW h \in BOOLEAN, NEW u \in Seq(Pieces)
    PROVE  FrameOf(a, b, c, d, e, h, u) \in Frames
  BY DEF Frames, FrameOf

\* The body after a line of it.
Rest(body) == IF body = <<>> THEN <<>> ELSE Tail(body)

LEMMA RestTyped ==
    ASSUME NEW L, NEW body \in Seq(L)
    PROVE  /\ Rest(body) \in Seq(L)
           /\ body # <<>> => Len(Rest(body)) = Len(body) - 1
           /\ body = <<>> => Len(Rest(body)) = 0
  BY HeadTailProperties DEF Rest

LEMMA AdvanceIs ==
    ASSUME NEW f \in Frames, NEW items \in Seq(Pieces)
    PROVE  /\ Advance(f, items) =
                FrameOf(f.file, f.via, f.at + 1, Rest(f.body), f.package, f.sure,
                        f.out \o items)
           /\ Advance(f, items) \in Frames
  <1>1. Rest(f.body) \in Seq(Lines)
    BY RestTyped DEF Frames
  <1>2. f.out \o items \in Seq(Pieces)
    BY ConcatProperties DEF Frames
  <1>3. Advance(f, items) =
                FrameOf(f.file, f.via, f.at + 1, Rest(f.body), f.package, f.sure,
                        f.out \o items)
    <2>1. PICK a, b, c, d, e, h, u : f = FrameOf(a, b, c, d, e, h, u)
      BY FrameIs
    <2>2. /\ f.file = a /\ f.via = b /\ f.at = c /\ f.body = d /\ f.package = e
          /\ f.sure = h /\ f.out = u
      BY <2>1, FrameFields
    <2>3. PICK n, r, o : n = c + 1 /\ r = Rest(d) /\ o = u \o items
      OBVIOUS
    <2>4. PICK f1 : f1 = [f EXCEPT !.at = n]
      OBVIOUS
    <2>5. f1 = FrameOf(a, b, n, d, e, h, u)
      BY <2>1, <2>4 DEF FrameOf
    <2>6. PICK f2 : f2 = [f1 EXCEPT !.body = r]
      OBVIOUS
    <2>7. f2 = FrameOf(a, b, n, r, e, h, u)
      BY <2>5, <2>6 DEF FrameOf
    <2>8. [f2 EXCEPT !.out = o] = FrameOf(a, b, n, r, e, h, o)
      BY <2>7 DEF FrameOf
    <2>9. Advance(f, items) = [f2 EXCEPT !.out = o]
      BY <2>2, <2>3, <2>4, <2>6 DEF Advance, Rest
    <2>10. QED
      BY <2>2, <2>3, <2>8, <2>9
  <1>4. /\ f.file \in Files /\ f.via \in {"main", "include", "plugin", "switch"}
        /\ f.at + 1 \in Nat /\ f.package \in InPackages /\ f.sure \in BOOLEAN
    BY DEF Frames
  <1>5. FrameOf(f.file, f.via, f.at + 1, Rest(f.body), f.package, f.sure,
                f.out \o items) \in Frames
    BY <1>1, <1>2, <1>4, FrameTyped, Zenon
  <1>6. QED
    BY <1>3, <1>5, Zenon

-----------------------------------------------------------------------------
(* The inductive invariant. *)

Activations ==
    /\ stack \in Seq(Frames) /\ stack # <<>>
    /\ \A j \in DOMAIN stack :
          /\ stack[j].file \in seen
          /\ stack[j].via = "main" <=> j = 1
    /\ seen \subseteq Files

Typed ==
    /\ Activations
    /\ macros \in [Macros -> Values]
    /\ status \in {"running", "done", "error"}
    /\ left \in 0..MaxLines

\* Activations on one file are that on the file and those on the cases of
\* its Plugswitches, each with fewer lines to go than the next one has left
\* behind it.
Nested ==
    \A j \in DOMAIN stack : \A i \in 1..(j - 1) :
        stack[i].file = stack[j].file =>
            /\ stack[j].via = "switch"
            /\ stack[j].at + Len(stack[j].body) <= stack[i].at

\* A case that reads a file is at a line.
Waiting ==
    \A j \in DOMAIN stack :
        (j > 1 /\ stack[j].via \in {"include", "plugin"}
            /\ stack[j - 1].via = "switch") => stack[j - 1].body # <<>>

\* Every line written is behind the lines that its file's activations are at.
Behind(text) ==
    \A k \in DOMAIN text : text[k].op = "text" =>
        /\ text[k].file \in seen
        /\ \A j \in DOMAIN stack :
              stack[j].file = text[k].file => text[k].at < stack[j].at

Once(text) ==
    \A j, k \in DOMAIN text :
        /\ text[j].op = "text"
        /\ text[k].op = "text"
        /\ text[j].file = text[k].file
        /\ text[j].at = text[k].at
        => j = k

\* The package of what comes after a text.
PackageAfter(text) == PackageAt(text, Len(text) + 1)

Kept(text) ==
    \A k \in DOMAIN text :
        (text[k].op = "text" /\ text[k].sure) => PackageAt(text, k) = text[k].package

\* The package of an activation that only Plugins interrupted since its last
\* Package line is the one its output ends in.
Sure ==
    \A j \in DOMAIN stack :
        stack[j].sure => PackageAfter(Outs(stack)[j]) = stack[j].package

Inv ==
    /\ Activations
    /\ Nested
    /\ Waiting
    /\ Sure
    /\ Behind(Written)
    /\ Once(Written)
    /\ Kept(Written)

IInv == Typed /\ Inv

-----------------------------------------------------------------------------
(* What a step does to the activations.  There are five shapes.            *)

AtLine == IF Top.via = "switch" THEN Top.body # <<>> ELSE Top.at < FileLines

\* The activation is done with a line.
LineDone ==
    /\ seen' = seen /\ AtLine
    /\ \E g \in Frames, items \in Seq(Pieces) :
          /\ stack' = Replaced(g)
          /\ g.file = Top.file /\ g.via = Top.via /\ g.at = Top.at + 1
          /\ g.body = Rest(Top.body) /\ g.out = Top.out \o items
          /\ \/ /\ items = <<>> \/ items = <<Text(Top)>>
                /\ g.sure => g.package = Top.package /\ Top.sure
             \/ \E q \in ReadPackages :
                   items = <<PackageLine(q)>> /\ (g.sure => g.package = q)

\* A file is entered.
Entered ==
    /\ AtLine
    /\ \E name \in Files \ seen, via \in {"include", "plugin"} :
          /\ seen' = seen \union {name}
          /\ stack' = Append(stack, Frame(name, via, 0, <<>>))

\* A Plugswitch is entered.
Selected ==
    /\ seen' = seen /\ AtLine
    /\ \E lines \in Seq(Lines) :
          /\ Select(lines)
          /\ IF Top.via = "switch" THEN lines = Tail(Top.body)
             ELSE Top.at + Len(BlockOf(lines)) < FileLines

\* An activation returns.
Returned ==
    /\ seen' = seen /\ Len(stack) > 1
    /\ \E g \in Frames, items \in Seq(Pieces) :
          /\ stack' = [SubSeq(stack, 1, Len(stack) - 1) EXCEPT ![Len(stack) - 1] = g]
          /\ g.file = Caller.file /\ g.via = Caller.via
          /\ g.package = Caller.package
          /\ g.out = Caller.out \o (Top.out \o items)
          /\ IF Top.via = "switch"
             THEN g.at = Caller.at /\ g.body = Caller.body
             ELSE g.at = Caller.at + 1 /\ g.body = Rest(Caller.body)
          /\ \/ items = <<>> /\ g.sure = FALSE
             \/ items = <<PackageLine(Caller.package)>>

\* A file is missing, and the last Plugin fails.
Failed ==
    /\ ReadMissingInclude
    /\ seen' = seen
    /\ PluginFrames # {}
    /\ stack' = [SubSeq(stack, 1, Max(PluginFrames) - 1) EXCEPT
                    ![Max(PluginFrames) - 1] = Advance(@, <<>>)]

LEMMA TopTyped ==
    ASSUME Activations
    PROVE  /\ Len(stack) \in Nat \ {0} /\ DOMAIN stack = 1..Len(stack)
           /\ Len(stack) \in DOMAIN stack
           /\ Top \in Frames /\ Top = stack[Len(stack)]
           /\ \A j \in DOMAIN stack : stack[j] \in Frames
           /\ Top.via # "main" => Len(stack) > 1
           /\ Len(stack) > 1 =>
                 /\ Len(stack) - 1 \in DOMAIN stack
                 /\ Caller \in Frames /\ Caller = stack[Len(stack) - 1]
  <1>1. stack \in Seq(Frames) /\ stack # <<>>
    BY DEF Activations
  <1>2. PICK n \in Nat \ {0} : n = Len(stack)
    BY <1>1
  <1>3. DOMAIN stack = 1..n /\ \A j \in 1..n : stack[j] \in Frames
    BY <1>1, <1>2
  <1>4. Top = stack[n] /\ Caller = stack[n - 1] /\ n \in 1..n
    BY <1>2 DEF Top, Caller
  <1>5. Top.via # "main" => n > 1
    BY <1>3, <1>4 DEF Activations
  <1>6. n > 1 => n - 1 \in 1..n
    OBVIOUS
  <1>7. QED
    BY <1>2, <1>3, <1>4, <1>5, <1>6

LEMMA StackLength ==
    ASSUME Activations
    PROVE  \E n \in Nat \ {0} : n = Len(stack) /\ DOMAIN stack = 1..n /\ n \in 1..n
  <1>1. stack \in Seq(Frames) /\ stack # <<>>
    BY DEF Activations
  <1>2. PICK n \in Nat : n = Len(stack) /\ DOMAIN stack = 1..n
    BY <1>1
  <1>3. n # 0
    BY <1>1, <1>2
  <1>4. n \in Nat \ {0} /\ n \in 1..n
    BY <1>3
  <1>5. QED
    BY <1>2, <1>4

LEMMA PiecesTyped ==
    /\ <<>> \in Seq(Pieces)
    /\ \A f \in Frames : Text(f) \in Pieces /\ <<Text(f)>> \in Seq(Pieces)
    /\ \A p \in ReadPackages : PackageLine(p) \in Pieces
                                /\ <<PackageLine(p)>> \in Seq(Pieces)
    /\ \A p \in InPackages : p \in ReadPackages
  <1>1. \A f \in Frames : Text(f) \in Pieces
    BY DEF Text, Frames, Pieces, ReadPackages
  <1>2. \A p \in ReadPackages : PackageLine(p) \in Pieces
    BY PreprocessorAssumption DEF PackageLine, Pieces
  <1>3. QED
    BY <1>1, <1>2 DEF ReadPackages

LEMMA Done ==
    ASSUME Activations, NEW items \in Seq(Pieces), seen' = seen, AtLine,
           stack' = Replaced(Advance(Top, items)),
           \/ items = <<>>
           \/ items = <<Text(Top)>>
           \/ items = <<PackageLine(Top.package)>>
    PROVE  LineDone
  <1> DEFINE g == Advance(Top, items)
  <1>1. Top \in Frames
    BY TopTyped
  <1>2. /\ g = FrameOf(Top.file, Top.via, Top.at + 1, Rest(Top.body), Top.package,
                       Top.sure, Top.out \o items)
        /\ g \in Frames
    BY <1>1, AdvanceIs
  <1>3. /\ g.file = Top.file /\ g.via = Top.via /\ g.at = Top.at + 1
        /\ g.body = Rest(Top.body) /\ g.out = Top.out \o items
        /\ g.package = Top.package /\ g.sure = Top.sure
    BY <1>2 DEF FrameOf
  <1> HIDE DEF g
  <1>4. stack' = Replaced(g)
    BY DEF g
  <1>5. Top.package \in ReadPackages
    BY <1>1, PiecesTyped DEF Frames
  <1>6. QED
    BY <1>2, <1>3, <1>4, <1>5 DEF LineDone

LEMMA ReadsAt ==
    ASSUME NEW line, Reads(line)
    PROVE  AtLine
  BY DEF Reads, AtLine

\* A Package line of any kind.
LEMMA PackageRead ==
    ASSUME Activations, AtLine, seen' = seen,
           NEW items \in Seq(Pieces), NEW p \in InPackages, NEW sure \in BOOLEAN,
           stack' = Replaced(Remembers(Advance(Top, items), p, sure)),
           \/ items = <<>> /\ ~sure
           \/ \E q \in ReadPackages :
                 items = <<PackageLine(q)>> /\ (sure => p = q)
    PROVE  LineDone
  <1>1. Top \in Frames
    BY TopTyped
  <1> DEFINE f == Advance(Top, items)
  <1>3. /\ f = FrameOf(Top.file, Top.via, Top.at + 1, Rest(Top.body), Top.package,
                       Top.sure, Top.out \o items)
        /\ f \in Frames
    BY <1>1, AdvanceIs
  <1> HIDE DEF f
  <1>4. PICK g : g = [f EXCEPT !.package = p, !.sure = sure]
    OBVIOUS
  <1>5. g = FrameOf(Top.file, Top.via, Top.at + 1, Rest(Top.body), p, sure,
                    Top.out \o items)
    <2>1. PICK a, b, c, d, e, h, u : f = FrameOf(a, b, c, d, e, h, u)
      BY <1>3
    <2>2. PICK f1 : f1 = [f EXCEPT !.package = p]
      OBVIOUS
    <2>3. f1 = FrameOf(a, b, c, d, p, h, u)
      BY <2>1, <2>2 DEF FrameOf
    <2>4. [f1 EXCEPT !.sure = sure] = FrameOf(a, b, c, d, p, sure, u)
      <3>1. PICK t : t = sure
        OBVIOUS
      <3>2. [f1 EXCEPT !.sure = t] = FrameOf(a, b, c, d, p, t, u)
        BY <2>3 DEF FrameOf
      <3>3. QED
        BY <3>1, <3>2
    <2>5. g = FrameOf(a, b, c, d, p, sure, u)
      BY <1>4, <2>2, <2>4, Zenon
    <2>6. /\ f.file = a /\ f.via = b /\ f.at = c /\ f.body = d /\ f.out = u
      BY <2>1 DEF FrameOf
    <2>7. /\ f.file = Top.file /\ f.via = Top.via /\ f.at = Top.at + 1
          /\ f.body = Rest(Top.body) /\ f.out = Top.out \o items
      BY <1>3 DEF FrameOf
    <2>8. QED
      BY <2>5, <2>6, <2>7
  <1>6. /\ g.file = Top.file /\ g.via = Top.via /\ g.at = Top.at + 1
        /\ g.body = Rest(Top.body) /\ g.out = Top.out \o items
        /\ g.package = p /\ g.sure = sure
    BY <1>5 DEF FrameOf
  <1>7. g \in Frames
    <2>1. /\ f.file \in Files /\ f.via \in {"main", "include", "plugin", "switch"}
          /\ f.at \in Nat /\ f.body \in Seq(Lines) /\ f.out \in Seq(Pieces)
      BY <1>3 DEF Frames
    <2>2. /\ f.file = Top.file /\ f.via = Top.via /\ f.at = Top.at + 1
          /\ f.body = Rest(Top.body) /\ f.out = Top.out \o items
      BY <1>3 DEF FrameOf
    <2>3. QED
      BY <1>5, <2>1, <2>2, FrameTyped
  <1>8. stack' = Replaced(g)
    BY <1>4 DEF Remembers, f
  <1>9. QED
    BY <1>6, <1>7, <1>8 DEF LineDone

LEMMA FileRead ==
    ASSUME Activations, AtLine, NEW name \in Files, NEW via \in {"include", "plugin"},
           Enter(name, via), seen' = seen \union {name}
    PROVE  LineDone \/ Entered
  <1>1. CASE name \in seen
    <2>1. seen' = seen
      BY <1>1
    <2>2. Top.package \in InPackages
      BY TopTyped DEF Frames
    <2>3. CASE via = "plugin"
      <3>1. stack' = Replaced(Advance(Top, <<PackageLine(Top.package)>>))
        BY <1>1, <2>3 DEF Enter, Restored
      <3>2. QED
        BY <2>1, <2>2, <3>1, Done, PiecesTyped
    <2>4. CASE via = "include"
      <3>1. stack' = Replaced(Advance(Top, <<>>))
        BY <1>1, <2>4 DEF Enter
      <3>2. QED
        BY <2>1, <3>1, Done, PiecesTyped
    <2>5. QED
      BY <2>3, <2>4
  <1>2. CASE name \notin seen
    BY <1>2 DEF Enter, Entered
  <1>3. QED
    BY <1>1, <1>2

\* The caller, with what is written for its line.
WentOn(c, items, sure) ==
    \E g \in Frames :
        /\ stack' = [SubSeq(stack, 1, Len(stack) - 1) EXCEPT ![Len(stack) - 1] = g]
        /\ g.file = c.file /\ g.via = c.via /\ g.at = c.at /\ g.body = c.body
        /\ g.package = c.package /\ g.sure = sure /\ g.out = c.out \o items

LEMMA Resumed ==
    ASSUME NEW c \in Frames, NEW items \in Seq(Pieces), NEW sure \in BOOLEAN,
           Resume(c, items, sure)
    PROVE  WentOn(c, items, sure)
  <1>1. PICK o : o = c.out \o items
    OBVIOUS
  <1>2. o \in Seq(Pieces)
    BY <1>1, ConcatProperties DEF Frames
  <1>3. PICK g : g = [c EXCEPT !.out = o, !.sure = sure]
    OBVIOUS
  <1>4. PICK a, b, e, d, h, i, u : c = FrameOf(a, b, e, d, h, i, u)
    BY FrameIs
  <1>5. PICK f : f = [c EXCEPT !.out = o]
    OBVIOUS
  <1>6. f = FrameOf(a, b, e, d, h, i, o)
    BY <1>4, <1>5 DEF FrameOf
  <1>7. [f EXCEPT !.sure = sure] = FrameOf(a, b, e, d, h, sure, o)
    <2>1. PICK t : t = sure
      OBVIOUS
    <2>2. [f EXCEPT !.sure = t] = FrameOf(a, b, e, d, h, t, o)
      BY <1>6 DEF FrameOf
    <2>3. QED
      BY <2>1, <2>2
  <1>8. g = FrameOf(a, b, e, d, h, sure, o)
    BY <1>3, <1>5, <1>7
  <1>9. /\ c.file = a /\ c.via = b /\ c.at = e /\ c.body = d /\ c.package = h
    BY <1>4 DEF FrameOf
  <1>10. /\ g.file = a /\ g.via = b /\ g.at = e /\ g.body = d /\ g.package = h
         /\ g.out = o
    BY <1>8 DEF FrameOf
  <1>11. g.sure = sure
    <2>1. PICK t : t = sure
      OBVIOUS
    <2>2. FrameOf(a, b, e, d, h, t, o).sure = t
      BY DEF FrameOf
    <2>3. QED
      BY <1>8, <2>1, <2>2
  <1>12. g \in Frames
    <2>1. /\ a \in Files /\ b \in {"main", "include", "plugin", "switch"}
          /\ e \in Nat /\ d \in Seq(Lines) /\ h \in InPackages
      BY <1>9 DEF Frames
    <2>2. QED
      BY <1>2, <1>8, <2>1, FrameTyped
  <1>13. stack' = [SubSeq(stack, 1, Len(stack) - 1) EXCEPT ![Len(stack) - 1] = g]
    BY <1>1, <1>3 DEF Resume
  <1>14. QED
    BY <1>1, <1>9, <1>10, <1>11, <1>12, <1>13 DEF WentOn

\* The caller goes on with its next line.
LEMMA NextLine ==
    ASSUME Activations, Len(stack) > 1
    PROVE  LET c == Advance(Caller, <<>>)
           IN  /\ c \in Frames /\ c.file = Caller.file /\ c.via = Caller.via
               /\ c.at = Caller.at + 1 /\ c.body = Rest(Caller.body)
               /\ c.package = Caller.package /\ c.sure = Caller.sure
               /\ c.out = Caller.out
  <1> DEFINE c == Advance(Caller, <<>>)
  <1>1. Caller \in Frames /\ Caller.out \in Seq(Pieces)
    BY TopTyped DEF Frames
  <1>2. Caller.out \o <<>> = Caller.out
    BY <1>1, ConcatEmptySeq
  <1>3. /\ c = FrameOf(Caller.file, Caller.via, Caller.at + 1, Rest(Caller.body),
                       Caller.package, Caller.sure, Caller.out)
        /\ c \in Frames
    BY <1>1, <1>2, AdvanceIs, PiecesTyped
  <1> HIDE DEF c
  <1>4. /\ c.file = Caller.file /\ c.via = Caller.via
        /\ c.at = Caller.at + 1 /\ c.body = Rest(Caller.body)
        /\ c.package = Caller.package /\ c.sure = Caller.sure
        /\ c.out = Caller.out
    BY <1>3 DEF FrameOf
  <1>5. QED
    BY <1>3, <1>4 DEF c

LEMMA Ends ==
    ASSUME Activations, EndInclude \/ EndPlugin \/ EndPlugswitch
    PROVE  Returned
  <1>1. Top.via # "main"
    BY DEF EndInclude, EndPlugin, EndPlugswitch
  <1>2. /\ Len(stack) > 1 /\ Caller \in Frames
        /\ Caller.out \in Seq(Pieces) /\ Top.out \in Seq(Pieces)
        /\ Caller.package \in InPackages /\ Caller.sure \in BOOLEAN
    BY <1>1, TopTyped DEF Frames
  <1>3. seen' = seen
    BY DEF EndInclude, EndPlugin, EndPlugswitch
  <1>4. Top.out \o <<>> = Top.out
    BY <1>2, ConcatEmptySeq
  <1> DEFINE c == Advance(Caller, <<>>)
  <1>5. /\ c \in Frames /\ c.file = Caller.file /\ c.via = Caller.via
        /\ c.at = Caller.at + 1 /\ c.body = Rest(Caller.body)
        /\ c.package = Caller.package /\ c.sure = Caller.sure
        /\ c.out = Caller.out
    BY <1>2, NextLine
  <1> HIDE DEF c
  <1>6. CASE EndInclude
    <2>1. Resume(c, Top.out, FALSE) /\ Top.via # "switch"
      BY <1>6 DEF EndInclude, c
    <2>2. WentOn(c, Top.out, FALSE)
      BY <1>2, <1>5, <2>1, Resumed
    <2>3. QED
      BY <1>2, <1>3, <1>4, <1>5, <2>1, <2>2, PiecesTyped DEF Returned, WentOn
  <1>7. CASE EndPlugin
    <2> DEFINE items == <<PackageLine(Caller.package)>>
    <2>1. Resume(c, Top.out \o items, Caller.sure) /\ Top.via # "switch"
      BY <1>7 DEF EndPlugin, Restored, c
    <2>2. items \in Seq(Pieces)
      BY <1>2, PiecesTyped
    <2>3. Top.out \o items \in Seq(Pieces)
      BY <1>2, <2>2, ConcatProperties
    <2> HIDE DEF items
    <2>4. WentOn(c, Top.out \o items, Caller.sure)
      BY <1>2, <1>5, <2>1, <2>3, Resumed, Zenon
    <2>5. QED
      BY <1>2, <1>3, <1>5, <2>1, <2>2, <2>4 DEF Returned, WentOn, items
  <1>8. CASE EndPlugswitch
    <2>1. Resume(Caller, Top.out, FALSE) /\ Top.via = "switch"
      BY <1>8 DEF EndPlugswitch
    <2>2. WentOn(Caller, Top.out, FALSE)
      BY <1>2, <2>1, Resumed, Zenon
    <2>3. QED
      BY <1>2, <1>3, <1>4, <2>1, <2>2, PiecesTyped DEF Returned, WentOn
  <1>9. QED
    BY <1>6, <1>7, <1>8

\* Every step has one of the shapes, or leaves the activations alone.
LEMMA StepShape ==
    ASSUME Activations, macros \in [Macros -> Values], [Next]_vars
    PROVE  \/ LineDone \/ Entered \/ Selected \/ Returned \/ Failed
           \/ UNCHANGED <<stack, seen>> /\ (status' # "running" \/ UNCHANGED vars)
  <1>1. Top \in Frames
    BY TopTyped
  <1>2. CASE ReadText
    <2>1. /\ stack' = Replaced(Advance(Top, <<Text(Top)>>)) /\ seen' = seen
          /\ AtLine /\ <<Text(Top)>> \in Seq(Pieces)
      BY <1>1, <1>2, ReadsAt, PiecesTyped DEF ReadText
    <2>2. QED
      BY <2>1, Done
  <1>3. ASSUME NEW p \in Packages,
               ReadPackage(p) \/ ReadNotedPackage(p) \/ ReadCommentedPackage(p)
        PROVE  LineDone
    <2>1. p \in InPackages /\ Top.package \in InPackages
      BY <1>1 DEF InPackages, Frames
    <2>2. PICK q \in ReadPackages : q = Expanded(p)
      BY <2>1, PiecesTyped DEF Expanded, ReadPackages
    <2>3. <<PackageLine(q)>> \in Seq(Pieces) /\ <<>> \in Seq(Pieces)
      BY PiecesTyped
    <2>4. CASE ReadPackage(p)
      <3>1. AtLine /\ seen' = seen
        BY <2>4, ReadsAt DEF ReadPackage
      <3>2. PICK sure \in BOOLEAN : sure = (q = p)
        OBVIOUS
      <3>3. stack' = Replaced(Remembers(Advance(Top, <<PackageLine(q)>>), p, sure))
        BY <2>2, <2>4, <3>2 DEF ReadPackage
      <3>4. QED
        BY <2>1, <2>3, <3>1, <3>2, <3>3, PackageRead
    <2>5. CASE ReadNotedPackage(p)
      <3>1. AtLine /\ seen' = seen
        BY <2>5, ReadsAt DEF ReadNotedPackage
      <3>2. stack' = Replaced(Remembers(Advance(Top, <<PackageLine(q)>>),
                                        Top.package, FALSE))
        BY <2>2, <2>5 DEF ReadNotedPackage
      <3>3. QED
        BY <2>1, <2>3, <3>1, <3>2, PackageRead
    <2>6. CASE ReadCommentedPackage(p)
      <3>1. AtLine /\ seen' = seen
        BY <2>6, ReadsAt DEF ReadCommentedPackage
      <3>2. stack' = Replaced(Remembers(Advance(Top, <<>>), p, FALSE))
        BY <2>6 DEF ReadCommentedPackage
      <3>3. QED
        BY <2>1, <2>3, <3>1, <3>2, PackageRead
    <2>7. QED
      BY <1>3, <2>4, <2>5, <2>6
  <1>4. ASSUME /\ stack' = Replaced(Advance(Top, <<>>)) /\ seen' = seen /\ AtLine
        PROVE  LineDone
    BY <1>4, Done, PiecesTyped
  <1>5. ASSUME NEW m \in Macros, NEW v \in Values, ReadMacro(m, v) PROVE LineDone
    BY <1>4, <1>5, ReadsAt DEF ReadMacro
  <1>6. CASE ReadStray(Line("end", ""))
    BY <1>4, <1>6, ReadsAt DEF ReadStray
  <1>7. ASSUME NEW name \in Includable, ReadInclude(name) PROVE LineDone \/ Entered
    <2>1. name \in Files
      BY <1>7, PreprocessorAssumption DEF ReadInclude
    <2>2. /\ AtLine /\ Enter(name, "include") /\ seen' = seen \union {name}
      BY <1>7, ReadsAt DEF ReadInclude
    <2>3. QED
      BY <2>1, <2>2, FileRead
  <1>8. ASSUME NEW name \in Names, ReadPlugin(name) PROVE LineDone \/ Entered
    <2>1. name \in Files
      BY <1>8 DEF ReadPlugin, Names
    <2>2. /\ AtLine /\ Enter(name, "plugin") /\ seen' = seen \union {name}
      BY <1>8, ReadsAt DEF ReadPlugin
    <2>3. QED
      BY <2>1, <2>2, FileRead
  <1>9. CASE ReadMissingPlugin
    BY <1>4, <1>9, ReadsAt DEF ReadMissingPlugin
  <1>10. CASE ReadMissingInclude
    BY <1>10 DEF ReadMissingInclude, Failed
  <1>11. ASSUME NEW block \in Blocks, ReadPlugswitch(block) PROVE Selected
    <2>1. block \in Seq(Lines) /\ BlockOf(block) = block
      BY LinesAreLines, BlocksAssumption DEF BlockOf
    <2>2. QED
      BY <1>11, <2>1, ReadsAt DEF ReadPlugswitch, Selected
  <1>12. CASE ReadNestedPlugswitch
    <2>1. Top.body \in Seq(Lines) /\ Top.body # <<>>
      BY <1>1, <1>12 DEF ReadNestedPlugswitch, Reads, Frames
    <2>2. Tail(Top.body) \in Seq(Lines)
      BY <2>1, HeadTailProperties
    <2>3. QED
      BY <1>12, <2>2, ReadsAt DEF ReadNestedPlugswitch, Selected
  <1>13. CASE EndInclude \/ EndPlugin \/ EndPlugswitch
    BY <1>13, Ends
  <1>14. CASE EndMain
    BY <1>14 DEF EndMain
  <1>15. CASE UNCHANGED vars
    BY <1>15 DEF vars
  <1>16. QED
    BY <1>2, <1>3, <1>5, <1>6, <1>7, <1>8, <1>9, <1>10, <1>11, <1>12, <1>13, <1>14,
       <1>15, PreprocessorAssumption DEF Next

-----------------------------------------------------------------------------
(* What the shapes do to the output. *)

LEMMA Associative ==
    \A a, b, c \in Seq(Pieces) : (a \o b) \o c = a \o (b \o c)
  BY ConcatAssociative

\* What a frame has written, after what was there.
Writes(out, before, items) == out = before \o items

LEMMA OutsOne ==
    ASSUME NEW s \in Seq(Frames), NEW n \in 1..Len(s)
    PROVE  /\ s[n] \in Frames /\ s[n].out \in Seq(Pieces)
           /\ Outs(s)[n - 1] \in Seq(Pieces) /\ Outs(s)[n] \in Seq(Pieces)
           /\ Outs(s)[n] = Outs(s)[n - 1] \o s[n].out
  <1>1. s[n] \in Frames
    BY ElementOfSeq
  <1>2. s[n].out \in Seq(Pieces)
    BY <1>1 DEF Frames
  <1>3. n - 1 \in 0..Len(s) /\ n \in 0..Len(s)
    OBVIOUS
  <1>4. QED
    BY <1>1, <1>2, <1>3, OutsTyped

\* t is s with g for its n-th frame, and items more from it.
Added(t, s, n, g, items) ==
    /\ t \in Seq(Frames) /\ Len(t) = n /\ t[n] = g
    /\ \A i \in 1..(n - 1) : t[i] = s[i]
    /\ \A i \in 0..(n - 1) : Outs(t)[i] = Outs(s)[i]
    /\ Outs(t)[n] = Outs(s)[n] \o items

\* A frame that adds to what it wrote.
LEMMA OutsReplaced ==
    ASSUME NEW s \in Seq(Frames), NEW n \in Nat \ {0}, n = Len(s),
           NEW g \in Frames, NEW items \in Seq(Pieces),
           Writes(g.out, s[n].out, items)
    PROVE  Added([s EXCEPT ![n] = g], s, n, g, items)
  <1> DEFINE t == [s EXCEPT ![n] = g]
  <1>1. n \in 1..Len(s)
    OBVIOUS
  <1>2. /\ t \in Seq(Frames) /\ Len(t) = n
        /\ \A i \in 1..n : t[i] = IF i = n THEN g ELSE s[i]
    BY <1>1, ExceptSeq
  <1> HIDE DEF t
  <1>3. t[n] = g /\ \A i \in 1..(n - 1) : t[i] = s[i]
    BY <1>2
  <1>4. \A i \in 0..(n - 1) : Outs(t)[i] = Outs(s)[i]
    <2>1. PICK m \in Nat : m = n - 1
      OBVIOUS
    <2>2. m <= Len(s) /\ m <= Len(t) /\ \A i \in 1..m : t[i].out = s[i].out
      BY <1>2, <1>3, <2>1
    <2>3. \A i \in 0..m : Outs(t)[i] = Outs(s)[i]
      BY <1>2, <2>2, OutsSame
    <2>4. QED
      BY <2>1, <2>3
  <1>5. Outs(t)[n] = Outs(s)[n] \o items
    <2>1. Outs(t)[n] = Outs(t)[n - 1] \o g.out
      <3>1. n \in 1..Len(t)
        BY <1>2
      <3>2. Outs(t)[n] = Outs(t)[n - 1] \o t[n].out
        BY <1>2, <3>1, OutsOne, Zenon
      <3>3. QED
        BY <1>3, <3>2
    <2>2. /\ Outs(s)[n] = Outs(s)[n - 1] \o s[n].out
          /\ s[n].out \in Seq(Pieces)
      BY <1>1, OutsOne
    <2>3. PICK w \in Seq(Pieces) : w = Outs(s)[n - 1]
      BY <1>1, OutsOne
    <2>4. Outs(t)[n - 1] = w
      BY <1>4, <2>3
    <2>5. w \o (s[n].out \o items) = (w \o s[n].out) \o items
      <3>1. PICK v \in Seq(Pieces) : v = s[n].out
        BY <2>2
      <3>2. (w \o v) \o items = w \o (v \o items)
        BY Associative, Zenon
      <3>3. QED
        BY <3>1, <3>2
    <2>6. g.out = s[n].out \o items
      BY DEF Writes
    <2>7. QED
      BY <2>1, <2>2, <2>3, <2>4, <2>5, <2>6
  <1>6. QED
    BY <1>2, <1>3, <1>4, <1>5 DEF Added, t

\* A frame that has written nothing.
LEMMA OutsEntered ==
    ASSUME NEW s \in Seq(Frames), NEW n \in Nat, n = Len(s),
           NEW g \in Frames, g.out = <<>>
    PROVE  LET t == Append(s, g)
           IN  /\ t \in Seq(Frames) /\ Len(t) = n + 1 /\ t[n + 1] = g
               /\ \A i \in 1..n : t[i] = s[i]
               /\ \A i \in 0..n : Outs(t)[i] = Outs(s)[i]
               /\ Outs(t)[n + 1] = Outs(s)[n]
  <1> DEFINE t == Append(s, g)
  <1>1. /\ t \in Seq(Frames) /\ Len(t) = n + 1 /\ t[n + 1] = g
        /\ \A i \in 1..n : t[i] = s[i]
    BY AppendProperties
  <1> HIDE DEF t
  <1>2. \A i \in 0..n : Outs(t)[i] = Outs(s)[i]
    <2>1. n <= Len(s) /\ n <= Len(t) /\ \A i \in 1..n : t[i].out = s[i].out
      BY <1>1
    <2>2. QED
      BY <1>1, <2>1, OutsSame
  <1>3. Outs(t)[n + 1] = Outs(s)[n]
    <2>1. PICK e \in 1..Len(t) : e = n + 1 /\ e - 1 = n
      BY <1>1
    <2>2. Outs(t)[e] = Outs(t)[e - 1] \o t[e].out
      BY <1>1, OutsTyped
    <2>3. PICK w \in Seq(Pieces) : w = Outs(s)[n]
      <3>1. n \in 0..Len(s)
        OBVIOUS
      <3>2. QED
        BY <3>1, OutsTyped
    <2>4. w \o <<>> = w
      BY ConcatEmptySeq
    <2>5. QED
      BY <1>1, <1>2, <2>1, <2>2, <2>3, <2>4
  <1>4. QED
    BY <1>1, <1>2, <1>3 DEF t

LEMMA CutFrames ==
    ASSUME NEW s \in Seq(Frames), NEW m \in 1..Len(s)
    PROVE  LET t == SubSeq(s, 1, m)
           IN  /\ t \in Seq(Frames) /\ Len(t) = m
               /\ \A i \in 1..m : t[i] = s[i]
               /\ \A i \in 0..m : Outs(t)[i] = Outs(s)[i]
  <1> DEFINE t == SubSeq(s, 1, m)
  <1>1. t \in Seq(Frames) /\ Len(t) = m /\ \A i \in 1..m : t[i] = s[i]
    <2>1. \A i \in 1..m : s[i] \in Frames
      OBVIOUS
    <2>2. 1 \in Int /\ m \in Int /\ 1 <= m
      OBVIOUS
    <2>3. /\ t \in Seq(Frames)
          /\ Len(t) = IF 1 <= m THEN m - 1 + 1 ELSE 0
          /\ \A i \in 1..(m - 1 + 1) : t[i] = s[1 + i - 1]
      BY <2>1, <2>2, SubSeqProperties
    <2>4. QED
      BY <2>3
  <1> HIDE DEF t
  <1>2. m \in Nat /\ m <= Len(s) /\ m <= Len(t) /\ \A i \in 1..m : t[i].out = s[i].out
    BY <1>1
  <1>3. \A i \in 0..m : Outs(t)[i] = Outs(s)[i]
    BY <1>1, <1>2, OutsSame
  <1>4. QED
    BY <1>1, <1>3 DEF t

\* t is s without its n-th frame, with g for the one below, and items more
\* than all of s wrote.
TookOver(t, s, n, g, items) ==
    /\ t \in Seq(Frames) /\ Len(t) = n - 1 /\ t[n - 1] = g
    /\ \A i \in 1..(n - 2) : t[i] = s[i]
    /\ \A i \in 0..(n - 2) : Outs(t)[i] = Outs(s)[i]
    /\ Outs(t)[n - 1] = Outs(s)[n] \o items

\* A frame that takes over what the one above it wrote.
LEMMA OutsReturned ==
    ASSUME NEW s \in Seq(Frames), NEW n \in Nat, n > 1, n = Len(s),
           NEW g \in Frames, NEW items \in Seq(Pieces),
           NEW all, Writes(all, s[n].out, items), Writes(g.out, s[n - 1].out, all)
    PROVE  TookOver([SubSeq(s, 1, n - 1) EXCEPT ![n - 1] = g], s, n, g, items)
  <1>1. PICK m \in Nat \ {0} : m = n - 1 /\ m \in 1..Len(s) /\ m - 1 = n - 2
                              /\ n \in 1..Len(s)
    OBVIOUS
  <1>2. PICK u : u = SubSeq(s, 1, m)
    OBVIOUS
  <1>3. /\ u \in Seq(Frames) /\ Len(u) = m
        /\ \A i \in 1..m : u[i] = s[i]
        /\ \A i \in 0..m : Outs(u)[i] = Outs(s)[i]
    BY <1>1, <1>2, CutFrames, ZenonT(60)
  <1>4. PICK o \in Seq(Pieces) : o = s[n].out \o items /\ o = all
    <2>1. s[n].out \in Seq(Pieces)
      BY <1>1, OutsOne
    <2>2. QED
      BY <2>1, ConcatProperties DEF Writes
  <1>5. PICK t : t = [u EXCEPT ![m] = g]
    OBVIOUS
  <1>6. Writes(g.out, u[m].out, o)
    <2>1. u[m] = s[n - 1]
      BY <1>1, <1>3
    <2>2. QED
      BY <1>4, <2>1
  <1>7. /\ t \in Seq(Frames) /\ Len(t) = m /\ t[m] = g
        /\ \A i \in 1..(m - 1) : t[i] = u[i]
        /\ \A i \in 0..(m - 1) : Outs(t)[i] = Outs(u)[i]
        /\ Outs(t)[m] = Outs(u)[m] \o o
    <2>1. m = Len(u)
      BY <1>3
    <2>2. Added(t, u, m, g, o)
      BY <1>3, <1>5, <1>6, <2>1, OutsReplaced
    <2>3. QED
      BY <2>2 DEF Added
  <1>8. /\ \A i \in 1..(m - 1) : t[i] = s[i]
        /\ \A i \in 0..(m - 1) : Outs(t)[i] = Outs(s)[i]
    <2>1. /\ \A i \in 1..(m - 1) : i \in 1..m
          /\ \A i \in 0..(m - 1) : i \in 0..m
      OBVIOUS
    <2>2. QED
      BY <1>3, <1>7, <2>1
  <1>9. Outs(t)[m] = Outs(s)[n] \o items
    <2>1. PICK w \in Seq(Pieces) : w = Outs(s)[m]
      BY <1>1, OutsOne
    <2>2. Outs(s)[n] = w \o s[n].out
      <3>1. Outs(s)[n] = Outs(s)[n - 1] \o s[n].out
        BY <1>1, OutsOne
      <3>2. QED
        BY <1>1, <2>1, <3>1
    <2>3. s[n].out \in Seq(Pieces)
      BY <1>1, OutsOne
    <2>4. w \o (s[n].out \o items) = (w \o s[n].out) \o items
      <3>1. PICK v \in Seq(Pieces) : v = s[n].out
        BY <2>3
      <3>2. (w \o v) \o items = w \o (v \o items)
        BY Associative, Zenon
      <3>3. QED
        BY <3>1, <3>2
    <2>5. m \in 0..m
      BY <1>1
    <2>6. Outs(u)[m] = w
      BY <1>3, <2>1, <2>5
    <2>7. QED
      BY <1>4, <1>7, <2>2, <2>4, <2>6
  <1>10. t = [SubSeq(s, 1, n - 1) EXCEPT ![n - 1] = g]
    BY <1>1, <1>2, <1>5
  <1>11. TookOver(t, s, n, g, items)
    BY <1>1, <1>7, <1>8, <1>9 DEF TookOver
  <1>12. QED
    BY <1>10, <1>11

-----------------------------------------------------------------------------
(* Texts: the package of what comes after, and what more text does to it.  *)

Starts(w, v) == Len(v) <= Len(w) /\ \A k \in 1..Len(v) : w[k] = v[k]

LEMMA StartsSame ==
    ASSUME NEW w \in Seq(Pieces)
    PROVE  Starts(w, w)
  BY DEF Starts

LEMMA StartsMore ==
    ASSUME NEW w \in Seq(Pieces), NEW v \in Seq(Pieces)
    PROVE  Starts(w \o v, w)
  BY ConcatProperties DEF Starts

\* What the first frames wrote comes first.
LEMMA OutsStart ==
    ASSUME NEW s \in Seq(Frames), NEW i \in 0..Len(s)
    PROVE  \A j \in i..Len(s) : Starts(Outs(s)[j], Outs(s)[i])
  <1> DEFINE outs == Outs(s)
             n == Len(s)
             Good == {d \in Nat : i + d <= n => Starts(outs[i + d], outs[i])}
  <1>1. \A j \in 0..n : outs[j] \in Seq(Pieces)
    BY OutsTyped
  <1>2. \A j \in 1..n : outs[j] = outs[j - 1] \o s[j].out /\ s[j].out \in Seq(Pieces)
    BY OutsOne
  <1>3. n \in Nat /\ i \in Nat /\ i <= n
    OBVIOUS
  <1> HIDE DEF outs, n
  <1>4. 0 \in Good
    <2>1. i + 0 = i /\ i \in 0..n
      BY <1>3
    <2>2. Starts(outs[i], outs[i])
      BY <1>1, <2>1 DEF Starts
    <2>3. QED
      BY <2>1, <2>2
  <1>5. ASSUME NEW d \in Nat, d \in Good PROVE d + 1 \in Good
    <2>1. CASE i + (d + 1) <= n
      <3>1. PICK j \in 1..n : j = i + (d + 1) /\ j - 1 = i + d /\ j - 1 \in 0..n
        BY <1>3, <2>1
      <3>2. Starts(outs[j - 1], outs[i])
        BY <1>3, <1>5, <3>1
      <3>3. Starts(outs[j], outs[j - 1])
        BY <1>1, <1>2, <3>1, StartsMore
      <3>4. outs[i] \in Seq(Pieces) /\ outs[j - 1] \in Seq(Pieces)
            /\ outs[j] \in Seq(Pieces)
        BY <1>1, <1>3, <3>1
      <3>5. Starts(outs[j], outs[i])
        BY <3>2, <3>3, <3>4 DEF Starts
      <3>6. QED
        BY <3>1, <3>5
    <2>2. QED
      BY <2>1
  <1>6. \A d \in Nat : d \in Good
    <2> HIDE DEF Good
    <2>1. QED
      BY <1>4, <1>5, Inductive
  <1>7. ASSUME NEW j \in i..n PROVE Starts(outs[j], outs[i])
    <2>1. PICK d \in Nat : d = j - i /\ i + d = j /\ i + d <= n
      BY <1>3
    <2>2. QED
      BY <1>6, <2>1
  <1>8. QED
    BY <1>7 DEF outs, n

PackageLines(text, k) == {j \in 1..(k - 1) : text[j].op = "package"}

LEMMA PackageAtIs ==
    ASSUME NEW text, NEW k
    PROVE  PackageAt(text, k) = IF PackageLines(text, k) = {} THEN Start
                                ELSE text[Max(PackageLines(text, k))].package
  BY Zenon DEF PackageAt, PackageLines

LEMMA LastPackageLine ==
    ASSUME NEW text, NEW k \in Nat \ {0}, PackageLines(text, k) # {}
    PROVE  /\ Max(PackageLines(text, k)) \in PackageLines(text, k)
           /\ Max(PackageLines(text, k)) \in 1..(k - 1)
  <1>1. PackageLines(text, k) \in SUBSET (0..k)
    BY DEF PackageLines
  <1>2. Max(PackageLines(text, k)) \in PackageLines(text, k)
    BY <1>1, MaxIs
  <1>3. QED
    BY <1>2 DEF PackageLines

\* Only what is before counts.
LEMMA PackageAtStart ==
    ASSUME NEW v \in Seq(Pieces), NEW w \in Seq(Pieces), Starts(w, v),
           NEW k \in 1..(Len(v) + 1)
    PROVE  PackageAt(w, k) = PackageAt(v, k)
  <1>1. \A j \in 1..(k - 1) : w[j] = v[j]
    BY DEF Starts
  <1>2. PackageLines(w, k) = PackageLines(v, k)
    BY <1>1 DEF PackageLines
  <1>3. PackageLines(w, k) # {} => Max(PackageLines(w, k)) \in 1..(k - 1)
    <2>1. k \in Nat \ {0}
      OBVIOUS
    <2>2. QED
      BY <2>1, LastPackageLine
  <1>4. QED
    BY <1>1, <1>2, <1>3, PackageAtIs

LEMMA PackageAfterText ==
    ASSUME NEW w \in Seq(Pieces), NEW x \in Pieces
    PROVE  /\ x.op = "text" => PackageAfter(Append(w, x)) = PackageAfter(w)
           /\ x.op = "package" => PackageAfter(Append(w, x)) = x.package
  <1>1. PICK n \in Nat : n = Len(w)
    OBVIOUS
  <1>2. PICK u \in Seq(Pieces) : u = Append(w, x)
    BY AppendProperties
  <1>3. Len(u) = n + 1 /\ u[n + 1] = x /\ \A j \in 1..n : u[j] = w[j]
    BY <1>1, <1>2, AppendProperties
  <1>4. /\ PackageAfter(u) = PackageAt(u, n + 2)
        /\ PackageAfter(w) = PackageAt(w, n + 1)
    BY <1>1, <1>3 DEF PackageAfter
  <1>5. \A j : j \in 1..(n + 2 - 1) <=> j \in 1..n \/ j = n + 1
    OBVIOUS
  <1>6. CASE x.op = "text"
    <2>1. PackageLines(u, n + 2) = PackageLines(w, n + 1)
      <3>1. u[n + 1].op # "package"
        BY <1>3, <1>6
      <3>2. n + 1 - 1 = n
        OBVIOUS
      <3>3. \A j : j \in PackageLines(u, n + 2) <=> j \in PackageLines(w, n + 1)
        BY <1>3, <1>5, <3>1, <3>2 DEF PackageLines
      <3>4. QED
        BY <3>3
    <2>2. PackageLines(w, n + 1) # {} => Max(PackageLines(w, n + 1)) \in 1..n
      <3>1. PICK e \in Nat \ {0} : e = n + 1 /\ e - 1 = n
        OBVIOUS
      <3>2. PackageLines(w, e) # {} => Max(PackageLines(w, e)) \in 1..(e - 1)
        BY LastPackageLine
      <3>3. QED
        BY <3>1, <3>2
    <2>3. PackageAt(u, n + 2) = PackageAt(w, n + 1)
      BY <1>3, <2>1, <2>2, PackageAtIs
    <2>4. QED
      BY <1>2, <1>4, <1>6, <2>3
  <1>7. CASE x.op = "package"
    <2>1. n + 1 \in PackageLines(u, n + 2)
      BY <1>3, <1>7 DEF PackageLines
    <2>2. PackageLines(u, n + 2) \in SUBSET Nat
      BY DEF PackageLines
    <2>3. \A d \in PackageLines(u, n + 2) : d <= n + 1
      BY DEF PackageLines
    <2>4. Max(PackageLines(u, n + 2)) = n + 1
      BY <2>1, <2>2, <2>3, MaxOnly
    <2>5. PackageAt(u, n + 2) = x.package
      BY <1>3, <2>1, <2>4, PackageAtIs
    <2>6. QED
      BY <1>2, <1>4, <1>7, <2>5
  <1>8. QED
    BY <1>6, <1>7 DEF Pieces

\* One piece more: its line must be new, and its package that of the text.
LEMMA OneMore ==
    ASSUME NEW w \in Seq(Pieces), NEW x \in Pieces,
           Once(w), Kept(w),
           x.op = "text" =>
               /\ \A k \in DOMAIN w :
                     (w[k].op = "text" /\ w[k].file = x.file) => w[k].at # x.at
               /\ x.sure => PackageAfter(w) = x.package
    PROVE  Once(Append(w, x)) /\ Kept(Append(w, x))
  <1>1. PICK n \in Nat : n = Len(w)
    OBVIOUS
  <1>2. PICK u \in Seq(Pieces) : u = Append(w, x)
    BY AppendProperties
  <1>3. /\ Len(u) = n + 1 /\ DOMAIN u = 1..(n + 1) /\ DOMAIN w = 1..n
        /\ u[n + 1] = x /\ \A j \in 1..n : u[j] = w[j]
    BY <1>1, <1>2, AppendProperties
  <1>4. \A j : j \in 1..(n + 1) <=> j \in 1..n \/ j = n + 1
    OBVIOUS
  <1>5. Once(u)
    BY <1>3, <1>4 DEF Once
  <1>6. ASSUME NEW k \in DOMAIN u, u[k].op = "text", u[k].sure
        PROVE  PackageAt(u, k) = u[k].package
    <2>1. Starts(u, w)
      BY <1>1, <1>3 DEF Starts
    <2>2. k \in 1..(Len(w) + 1)
      BY <1>1, <1>3
    <2>3. PackageAt(u, k) = PackageAt(w, k)
      BY <2>1, <2>2, PackageAtStart
    <2>4. CASE k = n + 1
      BY <1>1, <1>3, <1>6, <2>3, <2>4 DEF PackageAfter
    <2>5. CASE k \in 1..n
      BY <1>3, <1>6, <2>3, <2>5 DEF Kept
    <2>6. QED
      BY <1>3, <1>4, <2>4, <2>5
  <1>7. Kept(u)
    BY <1>6 DEF Kept
  <1>8. QED
    BY <1>2, <1>5, <1>7

LEMMA Fewer ==
    ASSUME NEW w \in Seq(Pieces), NEW v \in Seq(Pieces), Starts(w, v),
           Once(w), Kept(w)
    PROVE  Once(v) /\ Kept(v)
  <1>1. \A k \in DOMAIN v : k \in DOMAIN w /\ w[k] = v[k] /\ k \in 1..(Len(v) + 1)
    BY DEF Starts
  <1>2. Once(v)
    BY <1>1 DEF Once
  <1>3. \A k \in DOMAIN v : PackageAt(w, k) = PackageAt(v, k)
    BY <1>1, PackageAtStart
  <1>4. Kept(v)
    BY <1>1, <1>3 DEF Kept
  <1>5. QED
    BY <1>2, <1>4

LEMMA WrittenIs ==
    ASSUME Activations
    PROVE  /\ Written = Outs(stack)[Len(stack)] /\ Written \in Seq(Pieces)
           /\ \A j \in DOMAIN stack :
                 Outs(stack)[j] \in Seq(Pieces) /\ Starts(Written, Outs(stack)[j])
  <1>1. stack \in Seq(Frames) /\ Len(stack) \in 0..Len(stack)
    BY TopTyped DEF Activations
  <1>2. Written = Outs(stack)[Len(stack)]
    BY DEF Written
  <1>3. Written \in Seq(Pieces)
    BY <1>1, <1>2, OutsTyped
  <1>4. ASSUME NEW j \in DOMAIN stack
        PROVE  Outs(stack)[j] \in Seq(Pieces) /\ Starts(Written, Outs(stack)[j])
    <2>1. j \in 0..Len(stack) /\ Len(stack) \in j..Len(stack)
      BY <1>1
    <2>2. QED
      BY <1>1, <1>2, <2>1, OutsTyped, OutsStart
  <1>5. QED
    BY <1>2, <1>3, <1>4

\* The same of the next state.
LEMMA WrittenTyped ==
    ASSUME Activations'
    PROVE  Written' \in Seq(Pieces)
  <1>1. PICK t : t = stack'
    OBVIOUS
  <1>2. t \in Seq(Frames)
    BY <1>1 DEF Activations
  <1>3. Len(t) \in 0..Len(t)
    BY <1>2
  <1>4. Outs(t)[Len(t)] \in Seq(Pieces)
    BY <1>2, <1>3, OutsTyped
  <1>5. QED
    BY <1>1, <1>4 DEF Written

\* What a line can add to the text.
LEMMA Wrote ==
    ASSUME Inv, NEW items,
           \/ items = <<>>
           \/ items = <<Text(Top)>>
           \/ \E p \in ReadPackages : items = <<PackageLine(p)>>
    PROVE  LET w == Written \o items
           IN  /\ w \in Seq(Pieces) /\ Once(w) /\ Kept(w)
               /\ (items = <<>> \/ items = <<Text(Top)>>) =>
                     PackageAfter(w) = PackageAfter(Written)
               /\ \A p : items = <<PackageLine(p)>> => PackageAfter(w) = p
               /\ Starts(w, Written)
               /\ \A k \in DOMAIN w :
                     \/ k \in DOMAIN Written /\ w[k] = Written[k]
                     \/ items = <<Text(Top)>> /\ w[k] = Text(Top)
                     \/ w[k].op = "package"
  <1>1. Activations /\ Once(Written) /\ Kept(Written)
    BY DEF Inv
  <1>2. PICK v \in Seq(Pieces) : v = Written
    BY <1>1, WrittenIs
  <1>3. Top \in Frames
    BY <1>1, TopTyped
  <1> DEFINE w == Written \o items
  <1>4. CASE items = <<>>
    <2>1. w = v
      BY <1>2, <1>4, ConcatEmptySeq
    <2>2. Starts(v, v)
      BY DEF Starts
    <2>3. \A p : items # <<PackageLine(p)>>
      BY <1>4
    <2> HIDE DEF w
    <2>4. QED
      BY <1>1, <1>2, <2>1, <2>2, <2>3 DEF w
  <1>5. ASSUME NEW x \in Pieces, items = <<x>>
        PROVE  /\ w = Append(v, x) /\ w \in Seq(Pieces)
               /\ Starts(w, v)
               /\ \A k \in DOMAIN w : (k \in DOMAIN v /\ w[k] = v[k]) \/ w[k] = x
    <2>1. Append(v, x) = v \o <<x>>
      BY AppendIsConcat
    <2>2. w = Append(v, x)
      BY <1>2, <1>5, <2>1
    <2>3. /\ w \in Seq(Pieces) /\ Len(w) = Len(v) + 1 /\ w[Len(v) + 1] = x
          /\ \A k \in 1..Len(v) : w[k] = v[k]
      BY <2>2, AppendProperties
    <2> HIDE DEF w
    <2>4. QED
      BY <2>2, <2>3 DEF Starts
  <1>6. CASE items = <<Text(Top)>>
    <2> DEFINE x == Text(Top)
    <2>1. x \in Pieces
      BY <1>3, PiecesTyped
    <2>2. x.op = "text" /\ x.file = Top.file /\ x.at = Top.at
          /\ x.package = Top.package /\ x.sure = Top.sure
      BY DEF Text
    <2>3. /\ Len(stack) \in DOMAIN stack /\ Top = stack[Len(stack)]
          /\ Top.at \in Nat
      BY <1>1, <1>3, TopTyped DEF Frames
    <2>4. \A k \in DOMAIN v :
            (v[k].op = "text" /\ v[k].file = x.file) => v[k].at # x.at
      <3>1. \A k \in DOMAIN v : v[k].at \in Nat
        <4>1. \A k \in DOMAIN v : v[k] \in Pieces
          OBVIOUS
        <4>2. QED
          BY <4>1 DEF Pieces
      <3>2. \A k \in DOMAIN v :
              (v[k].op = "text" /\ v[k].file = Top.file) => v[k].at < Top.at
        BY <1>2, <2>3 DEF Inv, Behind
      <3>3. QED
        BY <2>2, <2>3, <3>1, <3>2
    <2>5. x.sure => PackageAfter(v) = x.package
      BY <1>2, <2>2, <2>3, WrittenIs DEF Inv, Sure
    <2> HIDE DEF x
    <2>6. /\ w = Append(v, x) /\ w \in Seq(Pieces)
          /\ Starts(w, v)
          /\ \A k \in DOMAIN w : (k \in DOMAIN v /\ w[k] = v[k]) \/ w[k] = x
      BY <1>5, <1>6, <2>1 DEF x
    <2>7. Once(w) /\ Kept(w)
      BY <1>1, <1>2, <2>1, <2>4, <2>5, <2>6, OneMore
    <2>8. PackageAfter(w) = PackageAfter(v)
      BY <2>1, <2>2, <2>6, PackageAfterText
    <2>9. \A p : items # <<PackageLine(p)>>
      <3>1. \A p : PackageLine(p).op = "package"
        BY DEF PackageLine
      <3>2. QED
        BY <1>6, <2>2, <3>1 DEF x
    <2> HIDE DEF w
    <2>10. QED
      BY <1>2, <1>6, <2>6, <2>7, <2>8, <2>9 DEF w, x
  <1>7. ASSUME NEW p \in ReadPackages, items = <<PackageLine(p)>>
        PROVE  /\ w \in Seq(Pieces) /\ Once(w) /\ Kept(w)
               /\ items # <<>> /\ items # <<Text(Top)>>
               /\ \A q : items = <<PackageLine(q)>> => PackageAfter(w) = q
               /\ Starts(w, v)
               /\ \A k \in DOMAIN w :
                     (k \in DOMAIN v /\ w[k] = v[k]) \/ w[k].op = "package"
    <2>1. PICK x \in Pieces : x = PackageLine(p)
      BY PiecesTyped
    <2>2. x.op = "package" /\ x.package = p
      BY <2>1 DEF PackageLine
    <2>3. /\ w = Append(v, x) /\ w \in Seq(Pieces)
          /\ Starts(w, v)
          /\ \A k \in DOMAIN w : (k \in DOMAIN v /\ w[k] = v[k]) \/ w[k] = x
      BY <1>5, <1>7, <2>1
    <2> HIDE DEF w
    <2>4. Once(w) /\ Kept(w)
      <3>1. x.op # "text"
        BY <2>2
      <3>2. QED
        BY <1>1, <1>2, <2>3, <3>1, OneMore
    <2>5. PackageAfter(w) = p
      BY <2>2, <2>3, PackageAfterText
    <2>6. \A q : items = <<PackageLine(q)>> => q = p
      <3>1. \A q : PackageLine(q).package = q
        BY DEF PackageLine
      <3>2. \A q : items = <<PackageLine(q)>> => PackageLine(q) = PackageLine(p)
        BY <1>7
      <3>3. QED
        BY <3>1, <3>2
    <2>7. items # <<Text(Top)>>
      <3>1. Text(Top).op = "text"
        BY DEF Text
      <3>2. QED
        BY <1>7, <2>1, <2>2, <3>1
    <2>8. QED
      BY <1>7, <2>2, <2>3, <2>4, <2>5, <2>6, <2>7
  <1>8. QED
    <2> HIDE DEF w
    <2>1. CASE \E p \in ReadPackages : items = <<PackageLine(p)>>
      BY <1>2, <1>7, <2>1 DEF w
    <2>2. QED
      BY <1>4, <1>6, <2>1

-----------------------------------------------------------------------------
(* Each shape keeps the invariant. *)

\* The activation is at a line of its body, or in a file: after the line,
\* what is left of the body ends where it did.
LEMMA RestEnds ==
    ASSUME NEW f \in Frames, f.via = "switch" => f.body # <<>>
    PROVE  f.via = "switch" =>
             /\ f.at + 1 + Len(Rest(f.body)) = f.at + Len(f.body)
             /\ f.at < f.at + Len(f.body)
  <1>1. f.body \in Seq(Lines) /\ f.at \in Nat
    BY DEF Frames
  <1>2. PICK b \in Seq(Lines) : b = f.body
    BY <1>1
  <1>3. b # <<>> => Len(b) \in Nat \ {0} /\ Len(Rest(b)) = Len(b) - 1
    BY RestTyped
  <1>4. QED
    BY <1>1, <1>2, <1>3

LEMMA LineDoneKeeps ==
    ASSUME Inv, LineDone
    PROVE  Inv' /\ Starts(Written', Written)
  <1>1. Activations /\ Nested /\ Waiting /\ Sure /\ Behind(Written)
    BY DEF Inv
  <1>2. PICK n \in Nat \ {0} : n = Len(stack) /\ DOMAIN stack = 1..n /\ n \in 1..n
    BY <1>1, StackLength
  <1>3. /\ Top \in Frames /\ Top = stack[n] /\ stack \in Seq(Frames)
        /\ \A j \in 1..n : stack[j] \in Frames
    BY <1>1, <1>2, TopTyped DEF Activations
  <1>4. PICK g \in Frames, items \in Seq(Pieces) :
          /\ stack' = Replaced(g)
          /\ g.file = Top.file /\ g.via = Top.via /\ g.at = Top.at + 1
          /\ g.body = Rest(Top.body) /\ g.out = Top.out \o items
          /\ \/ /\ items = <<>> \/ items = <<Text(Top)>>
                /\ g.sure => g.package = Top.package /\ Top.sure
             \/ \E q \in ReadPackages :
                   items = <<PackageLine(q)>> /\ (g.sure => g.package = q)
    BY DEF LineDone
  <1>5. seen' = seen /\ AtLine
    BY DEF LineDone
  <1>6. PICK t : t = stack'
    OBVIOUS
  <1>7. Added(t, stack, n, g, items)
    <2>1. t = [stack EXCEPT ![n] = g]
      BY <1>2, <1>4, <1>6 DEF Replaced
    <2>2. Writes(g.out, stack[n].out, items)
      BY <1>3, <1>4 DEF Writes
    <2>3. QED
      BY <1>2, <1>3, <2>1, <2>2, OutsReplaced
  <1>8. /\ t \in Seq(Frames) /\ Len(t) = n /\ t[n] = g /\ DOMAIN t = 1..n
        /\ \A i \in 1..(n - 1) : t[i] = stack[i]
        /\ \A i \in 0..(n - 1) : Outs(t)[i] = Outs(stack)[i]
        /\ Outs(t)[n] = Outs(stack)[n] \o items
    BY <1>7 DEF Added
  <1>9. \A j \in 1..n : j = n \/ (j \in 1..(n - 1) /\ j \in 0..(n - 1))
    OBVIOUS
  <1>10. PICK w : w = Written \o items
    OBVIOUS
  <1>11. w = Written'
    <2>1. Written = Outs(stack)[n]
      BY <1>1, <1>2, WrittenIs
    <2>2. Written' = Outs(t)[n]
      BY <1>6, <1>8 DEF Written
    <2>3. QED
      BY <1>8, <1>10, <2>1, <2>2
  <1>12. /\ w \in Seq(Pieces) /\ Once(w) /\ Kept(w)
         /\ (items = <<>> \/ items = <<Text(Top)>>) =>
               PackageAfter(w) = PackageAfter(Written)
         /\ \A p : items = <<PackageLine(p)>> => PackageAfter(w) = p
         /\ Starts(w, Written)
         /\ \A k \in DOMAIN w :
               \/ k \in DOMAIN Written /\ w[k] = Written[k]
               \/ items = <<Text(Top)>> /\ w[k] = Text(Top)
               \/ w[k].op = "package"
    BY <1>4, <1>10, Wrote
  <1>13. Activations'
    <2>1. \A j \in 1..n : t[j].file = stack[j].file /\ t[j].via = stack[j].via
      BY <1>3, <1>4, <1>8, <1>9
    <2>2. t # <<>>
      BY <1>8
    <2>3. QED
      BY <1>1, <1>2, <1>5, <1>6, <1>8, <2>1, <2>2 DEF Activations
  <1>14. ASSUME NEW j \in 1..n, NEW i \in 1..(j - 1), t[i].file = t[j].file
         PROVE  t[j].via = "switch" /\ t[j].at + Len(t[j].body) <= t[i].at
    <2>1. i \in 1..(n - 1) /\ t[i] = stack[i]
      BY <1>8
    <2>2. CASE j = n
      <3>1. stack[i].file = Top.file
        BY <1>4, <1>8, <1>14, <2>1, <2>2
      <3>2. Top.via = "switch" /\ Top.at + Len(Top.body) <= stack[i].at
        BY <1>1, <1>2, <1>3, <1>14, <2>2, <3>1 DEF Nested
      <3>3. g.at + Len(g.body) = Top.at + Len(Top.body)
        BY <1>3, <1>4, <1>5, <3>2, RestEnds DEF AtLine
      <3>4. QED
        BY <1>4, <1>8, <2>1, <2>2, <3>2, <3>3
    <2>3. CASE j \in 1..(n - 1)
      BY <1>1, <1>2, <1>8, <1>14, <2>1, <2>3 DEF Nested
    <2>4. QED
      BY <1>9, <2>2, <2>3
  <1>15. Nested'
    BY <1>6, <1>8, <1>14 DEF Nested
  <1>16. Waiting'
    <2>1. ASSUME NEW j \in 1..n, j > 1, t[j].via \in {"include", "plugin"},
                 t[j - 1].via = "switch"
          PROVE  t[j - 1].body # <<>>
      <3>1. j - 1 \in 1..(n - 1) /\ t[j - 1] = stack[j - 1]
        BY <1>8, <2>1
      <3>2. t[j].via = stack[j].via
        BY <1>3, <1>4, <1>8, <1>9
      <3>3. QED
        BY <1>1, <1>2, <2>1, <3>1, <3>2 DEF Waiting
    <2>2. QED
      BY <1>6, <1>8, <2>1 DEF Waiting
  <1>17. Sure'
    <2>1. ASSUME NEW j \in 1..n, t[j].sure
          PROVE  PackageAfter(Outs(t)[j]) = t[j].package
      <3>1. CASE j \in 1..(n - 1)
        <4>1. t[j] = stack[j] /\ Outs(t)[j] = Outs(stack)[j]
          BY <1>8, <1>9, <3>1
        <4>2. QED
          BY <1>1, <1>2, <2>1, <4>1 DEF Sure
      <3>2. CASE j = n
        <4>1. Outs(t)[j] = w /\ t[j] = g
          BY <1>1, <1>2, <1>8, <1>10, <3>2, WrittenIs
        <4>2. CASE /\ items = <<>> \/ items = <<Text(Top)>>
                   /\ g.sure => g.package = Top.package /\ Top.sure
          <5>1. PackageAfter(Written) = Top.package
            BY <1>1, <1>2, <1>3, <2>1, <4>1, <4>2, WrittenIs DEF Sure
          <5>2. QED
            BY <1>12, <2>1, <4>1, <4>2, <5>1
        <4>3. ASSUME NEW q \in ReadPackages, items = <<PackageLine(q)>>,
                     g.sure => g.package = q
              PROVE  PackageAfter(Outs(t)[j]) = t[j].package
          BY <1>12, <2>1, <4>1, <4>3
        <4>4. QED
          BY <1>4, <4>2, <4>3
      <3>3. QED
        BY <1>9, <3>1, <3>2
    <2>2. QED
      BY <1>6, <1>8, <2>1 DEF Sure
  <1>18. ASSUME NEW k \in DOMAIN w, w[k].op = "text"
         PROVE  /\ w[k].file \in seen
                /\ \A j \in 1..n : t[j].file = w[k].file => w[k].at < t[j].at
    <2>1. \A j \in 1..n : t[j].file = stack[j].file
      BY <1>3, <1>4, <1>8, <1>9
    <2>2. \A j \in 1..n : stack[j].at \in Nat /\ Top.at \in Nat
      BY <1>3 DEF Frames
    <2>3. CASE k \in DOMAIN Written /\ w[k] = Written[k]
      <3>1. /\ w[k].file \in seen
            /\ \A j \in 1..n : stack[j].file = w[k].file => w[k].at < stack[j].at
        BY <1>1, <1>2, <1>18, <2>3 DEF Behind
      <3>2. w[k].at \in Nat
        <4>1. w[k] \in Pieces
          BY <1>12
        <4>2. QED
          BY <4>1 DEF Pieces
      <3>3. \A j \in 1..n : t[j].at = stack[j].at \/ t[j].at = stack[j].at + 1
        BY <1>3, <1>4, <1>8, <1>9
      <3>4. QED
        BY <2>1, <2>2, <3>1, <3>2, <3>3
    <2>4. CASE w[k] = Text(Top)
      <3>1. w[k].file = Top.file /\ w[k].at = Top.at
        BY <2>4 DEF Text
      <3>2. Top.file \in seen
        BY <1>1, <1>2, <1>3 DEF Activations
      <3>3. ASSUME NEW j \in 1..n, t[j].file = Top.file PROVE Top.at < t[j].at
        <4>1. CASE j = n
          BY <1>4, <1>8, <2>2, <4>1
        <4>2. CASE j \in 1..(n - 1)
          <5>1. Top.via = "switch" /\ Top.at + Len(Top.body) <= stack[j].at
            BY <1>1, <1>2, <1>3, <2>1, <3>3, <4>2 DEF Nested
          <5>2. Top.at < Top.at + Len(Top.body)
            BY <1>3, <1>5, <5>1, RestEnds DEF AtLine
          <5>3. t[j].at = stack[j].at /\ Len(Top.body) \in Nat
            <6>1. t[j] = stack[j]
              BY <1>8, <4>2
            <6>2. Top.body \in Seq(Lines)
              BY <1>3 DEF Frames
            <6>3. Len(Top.body) \in Nat
              BY <6>2
            <6>4. QED
              BY <6>1, <6>3
          <5>4. QED
            BY <2>2, <5>1, <5>2, <5>3
        <4>3. QED
          BY <1>9, <4>1, <4>2
      <3>4. QED
        BY <3>1, <3>2, <3>3
    <2>5. QED
      BY <1>12, <1>18, <2>3, <2>4
  <1>19. Behind(Written)'
    BY <1>5, <1>6, <1>8, <1>11, <1>18 DEF Behind
  <1>20. Once(Written)' /\ Kept(Written)'
    BY <1>11, <1>12
  <1>21. QED
    BY <1>11, <1>12, <1>13, <1>15, <1>16, <1>17, <1>19, <1>20 DEF Inv

LEMMA EnteredKeeps ==
    ASSUME Inv, Entered
    PROVE  Inv' /\ Starts(Written', Written)
  <1>1. /\ Activations /\ Nested /\ Waiting /\ Sure /\ Behind(Written)
        /\ Once(Written) /\ Kept(Written)
    BY DEF Inv
  <1>2. PICK n \in Nat \ {0} : n = Len(stack) /\ DOMAIN stack = 1..n /\ n \in 1..n
    BY <1>1, StackLength
  <1>3. /\ Top = stack[n] /\ stack \in Seq(Frames)
        /\ \A j \in 1..n : stack[j] \in Frames /\ stack[j].file \in seen
    BY <1>1, <1>2, TopTyped DEF Activations
  <1>4. PICK name \in Files \ seen, via \in {"include", "plugin"} :
          /\ seen' = seen \union {name}
          /\ stack' = Append(stack, Frame(name, via, 0, <<>>))
    BY DEF Entered
  <1>5. PICK g : g = Frame(name, via, 0, <<>>)
    OBVIOUS
  <1>6. /\ g.file = name /\ g.via = via /\ g.sure = FALSE /\ g.out = <<>>
        /\ g \in Frames
    <2>1. (via = "main") = FALSE
      BY <1>4
    <2>2. g = FrameOf(name, via, 0, <<>>, Start, FALSE, <<>>)
      BY <1>5, <2>1 DEF Frame, FrameOf
    <2>3. g \in Frames
      <3>1. <<>> \in Seq(Lines) /\ <<>> \in Seq(Pieces) /\ Start \in InPackages
            /\ 0 \in Nat /\ FALSE \in BOOLEAN
        BY DEF InPackages
      <3>2. name \in Files /\ via \in {"main", "include", "plugin", "switch"}
        BY <1>4
      <3>3. QED
        BY <2>2, <3>1, <3>2, FrameTyped, Zenon
    <2>4. QED
      BY <2>2, <2>3 DEF FrameOf
  <1>7. PICK t, e : t = stack' /\ e \in Nat /\ e = n + 1 /\ e - 1 = n
    BY <1>2
  <1>8. /\ t \in Seq(Frames) /\ Len(t) = e /\ t[e] = g /\ DOMAIN t = 1..e
        /\ \A i \in 1..n : t[i] = stack[i]
        /\ \A i \in 0..n : Outs(t)[i] = Outs(stack)[i]
        /\ Outs(t)[e] = Outs(stack)[n]
    <2>1. t = Append(stack, g)
      BY <1>4, <1>5, <1>7
    <2>2. QED
      BY <1>2, <1>3, <1>6, <1>7, <2>1, OutsEntered
  <1>9. \A j \in 1..e : j = e \/ (j \in 1..n /\ j \in 0..n)
    BY <1>7
  <1>10. Written' = Written
    BY <1>1, <1>2, <1>7, <1>8, WrittenIs DEF Written
  <1>11. Activations'
    <2>1. \A j \in 1..e : t[j].file \in seen' /\ (t[j].via = "main" <=> j = 1)
      <3>1. \A j \in 1..n : stack[j].via = "main" <=> j = 1
        BY <1>1, <1>2 DEF Activations
      <3>2. e # 1 /\ via # "main"
        BY <1>2, <1>4, <1>7
      <3>3. \A j \in 1..n : t[j].file \in seen' /\ (t[j].via = "main" <=> j = 1)
        BY <1>3, <1>4, <1>8, <3>1
      <3>4. t[e].file \in seen' /\ t[e].via # "main"
        BY <1>4, <1>6, <1>8, <3>2
      <3>5. QED
        BY <1>9, <3>2, <3>3, <3>4
    <2>2. seen' \subseteq Files
      BY <1>1, <1>4 DEF Activations
    <2>3. t # <<>>
      BY <1>7, <1>8
    <2>4. QED
      BY <1>7, <1>8, <2>1, <2>2, <2>3 DEF Activations
  <1>12. \A j \in 1..n : t[j].file # name
    BY <1>3, <1>4, <1>8
  <1>13. Nested'
    <2>1. ASSUME NEW j \in 1..e, NEW i \in 1..(j - 1), t[i].file = t[j].file
          PROVE  t[j].via = "switch" /\ t[j].at + Len(t[j].body) <= t[i].at
      <3>1. i \in 1..n /\ j # e
        BY <1>6, <1>7, <1>8, <1>12, <2>1
      <3>2. j \in 1..n
        BY <1>9, <3>1
      <3>3. QED
        BY <1>1, <1>2, <1>8, <2>1, <3>1, <3>2 DEF Nested
    <2>2. QED
      BY <1>7, <1>8, <2>1 DEF Nested
  <1>14. Waiting'
    <2>1. ASSUME NEW j \in 1..e, j > 1, t[j].via \in {"include", "plugin"},
                 t[j - 1].via = "switch"
          PROVE  t[j - 1].body # <<>>
      <3>1. j - 1 \in 1..n /\ t[j - 1] = stack[j - 1]
        BY <1>7, <1>8, <2>1
      <3>2. CASE j = e
        BY <1>3, <1>7, <2>1, <3>1, <3>2 DEF Entered, AtLine
      <3>3. CASE j \in 1..n
        BY <1>1, <1>2, <1>8, <2>1, <3>1, <3>3 DEF Waiting
      <3>4. QED
        BY <1>9, <3>2, <3>3
    <2>2. QED
      BY <1>7, <1>8, <2>1 DEF Waiting
  <1>15. Sure'
    <2>1. ASSUME NEW j \in 1..e, t[j].sure
          PROVE  PackageAfter(Outs(t)[j]) = t[j].package
      <3>1. j \in 1..n /\ j \in 0..n
        BY <1>6, <1>8, <1>9, <2>1
      <3>2. QED
        BY <1>1, <1>2, <1>8, <2>1, <3>1 DEF Sure
    <2>2. QED
      BY <1>7, <1>8, <2>1 DEF Sure
  <1>16. Behind(Written)'
    <2>1. ASSUME NEW k \in DOMAIN Written, Written[k].op = "text"
          PROVE  /\ Written[k].file \in seen'
                 /\ \A j \in 1..e : t[j].file = Written[k].file =>
                                        Written[k].at < t[j].at
      <3>1. /\ Written[k].file \in seen
            /\ \A j \in 1..n : stack[j].file = Written[k].file =>
                                  Written[k].at < stack[j].at
        BY <1>1, <1>2, <2>1 DEF Behind
      <3>2. Written[k].file # name
        BY <1>4, <3>1
      <3>3. QED
        BY <1>4, <1>6, <1>8, <1>9, <3>1, <3>2
    <2>2. QED
      BY <1>7, <1>8, <1>10, <2>1 DEF Behind
  <1>17. Once(Written)' /\ Kept(Written)'
    BY <1>1, <1>10
  <1>18. Starts(Written', Written)
    <2>1. PICK v \in Seq(Pieces) : v = Written
      BY <1>1, WrittenIs
    <2>2. QED
      BY <1>10, <2>1, StartsSame
  <1>19. QED
    BY <1>11, <1>13, <1>14, <1>15, <1>16, <1>17, <1>18 DEF Inv

\* The two activations a Plugswitch leaves.
Selection(after, g, lines) ==
    /\ after \in Frames /\ after.file = Top.file /\ after.via = Top.via
    /\ after.at = Top.at + Len(BlockOf(lines)) + 1
    /\ after.body = AfterBlock(lines) /\ after.package = Top.package
    /\ after.sure = Top.sure /\ after.out = Top.out
    /\ g \in Frames /\ g.file = Top.file /\ g.via = "switch" /\ g.at = Top.at
    /\ g.body = Chosen(BlockOf(lines)) /\ g.sure = FALSE /\ g.out = <<>>
    /\ stack' = Append(Replaced(after), g)

LEMMA SelectionIs ==
    ASSUME Activations, NEW lines \in Seq(Lines), Select(lines)
    PROVE  \E after, g : Selection(after, g, lines)
  <1>1. PICK f \in Frames : f = Top
    BY TopTyped
  <1>2. PICK a, b, c, d, e, h, u : f = FrameOf(a, b, c, d, e, h, u)
    BY FrameIs
  <1>3. /\ f.file = a /\ f.via = b /\ f.at = c /\ f.body = d /\ f.package = e
        /\ f.sure = h /\ f.out = u
    BY <1>2, FrameFields
  <1>4. /\ a \in Files /\ b \in {"main", "include", "plugin", "switch"}
        /\ c \in Nat /\ e \in InPackages /\ h \in BOOLEAN /\ u \in Seq(Pieces)
    BY <1>1, <1>3 DEF Frames
  <1>5. PICK block \in Seq(Lines), rest \in Seq(Lines) :
          block = BlockOf(lines) /\ rest = AfterBlock(lines)
    BY BlockFits
  <1>6. PICK body \in Seq(Lines) : body = Chosen(block)
    BY LinesAreLines, ChosenFits
  <1>7. PICK n \in Nat : n = c + Len(block) + 1
    BY <1>4
  <1>8. PICK f1 : f1 = [f EXCEPT !.at = n]
    OBVIOUS
  <1>9. f1 = FrameOf(a, b, n, d, e, h, u)
    BY <1>2, <1>8 DEF FrameOf
  <1>10. PICK after : after = [f1 EXCEPT !.body = rest]
    OBVIOUS
  <1>11. after = FrameOf(a, b, n, rest, e, h, u)
    BY <1>9, <1>10 DEF FrameOf
  <1>12. after \in Frames
    BY <1>4, <1>11, FrameTyped, Zenon
  <1>13. PICK g : g = Frame(a, "switch", c, body)
    OBVIOUS
  <1>14. g = FrameOf(a, "switch", c, body, Start, FALSE, <<>>)
    <2>1. ("switch" = "main") = FALSE
      OBVIOUS
    <2>2. QED
      BY <1>13, <2>1 DEF Frame, FrameOf
  <1>15. g \in Frames
    <2>1. /\ <<>> \in Seq(Pieces) /\ Start \in InPackages /\ FALSE \in BOOLEAN
          /\ "switch" \in {"main", "include", "plugin", "switch"}
      BY DEF InPackages
    <2>2. QED
      BY <1>4, <1>14, <2>1, FrameTyped, Zenon
  <1>16. stack' = Append(Replaced(after), g)
    <2>1. PICK k : k = Top.at + Len(BlockOf(lines)) + 1
      OBVIOUS
    <2>2. k = n
      BY <1>1, <1>3, <1>5, <1>7, <2>1
    <2>3. [Top EXCEPT !.at = k, !.body = AfterBlock(lines)] = after
      BY <1>1, <1>5, <1>8, <1>10, <2>2
    <2>4. Frame(Top.file, "switch", Top.at, Chosen(BlockOf(lines))) = g
      BY <1>1, <1>3, <1>5, <1>6, <1>13
    <2>5. stack' = Append(Replaced([Top EXCEPT !.at = k, !.body = AfterBlock(lines)]),
                      Frame(Top.file, "switch", Top.at, Chosen(BlockOf(lines))))
      BY <2>1, Zenon DEF Select
    <2>6. QED
      BY <2>3, <2>4, <2>5
  <1>17. /\ after.file = a /\ after.via = b /\ after.at = n /\ after.body = rest
         /\ after.package = e /\ after.sure = h /\ after.out = u
    BY <1>11, FrameFields
  <1>18. /\ g.file = a /\ g.via = "switch" /\ g.at = c /\ g.body = body
         /\ g.sure = FALSE /\ g.out = <<>>
    BY <1>14 DEF FrameOf
  <1>19. QED
    <2>1. Selection(after, g, lines)
      BY <1>1, <1>3, <1>5, <1>6, <1>7, <1>12, <1>15, <1>16, <1>17, <1>18
         DEF Selection
    <2>2. QED
      BY <2>1

\* The lines of the case are lines of the block.
LEMMA CaseFits ==
    ASSUME NEW lines \in Seq(Lines)
    PROVE  LET block == BlockOf(lines)
               rest == AfterBlock(lines)
               body == Chosen(block)
           IN  /\ Len(block) \in Nat /\ Len(rest) \in Nat /\ Len(body) \in Nat
               /\ Len(body) <= Len(block)
               /\ Len(block) + Len(rest) <= Len(lines)
  <1>1. PICK block \in Seq(Lines), rest \in Seq(Lines) :
          /\ block = BlockOf(lines) /\ rest = AfterBlock(lines)
          /\ Len(block) + Len(rest) <= Len(lines)
    BY BlockFits
  <1>2. PICK body \in Seq(Lines) : body = Chosen(block) /\ Len(body) <= Len(block)
    BY LinesAreLines, ChosenFits
  <1>3. QED
    BY <1>1, <1>2

LEMMA SelectedKeeps ==
    ASSUME Inv, Selected
    PROVE  Inv' /\ Starts(Written', Written)
  <1>1. /\ Activations /\ Nested /\ Waiting /\ Sure /\ Behind(Written)
        /\ Once(Written) /\ Kept(Written)
    BY DEF Inv
  <1>2. PICK n \in Nat \ {0} : n = Len(stack) /\ DOMAIN stack = 1..n /\ n \in 1..n
    BY <1>1, StackLength
  <1>3. /\ Top = stack[n] /\ stack \in Seq(Frames) /\ Top \in Frames
        /\ \A j \in 1..n : /\ stack[j] \in Frames /\ stack[j].file \in seen
                           /\ stack[j].via = "main" <=> j = 1
    BY <1>1, <1>2, TopTyped DEF Activations
  <1>4. PICK lines \in Seq(Lines) :
          Select(lines) /\ (Top.via = "switch" => lines = Tail(Top.body))
    BY DEF Selected
  <1>5. seen' = seen /\ AtLine
    BY DEF Selected
  <1>6. PICK after, g : Selection(after, g, lines)
    BY <1>1, <1>4, SelectionIs
  <1>7. PICK blk, rst, bdy, all : /\ blk = Len(BlockOf(lines))
                                  /\ rst = Len(AfterBlock(lines))
                                  /\ bdy = Len(Chosen(BlockOf(lines)))
                                  /\ all = Len(lines)
    OBVIOUS
  <1>8. /\ blk \in Nat /\ rst \in Nat /\ bdy \in Nat /\ all \in Nat
        /\ bdy <= blk /\ blk + rst <= all
    BY <1>7, CaseFits
  <1>9. PICK at : at = Top.at
    OBVIOUS
  <1>10. /\ after \in Frames /\ after.file = Top.file /\ after.via = Top.via
         /\ after.at = at + blk + 1 /\ Len(after.body) = rst
         /\ after.package = Top.package
         /\ after.sure = Top.sure /\ after.out = Top.out
         /\ g \in Frames /\ g.file = Top.file /\ g.via = "switch" /\ g.at = at
         /\ Len(g.body) = bdy /\ g.sure = FALSE /\ g.out = <<>>
         /\ stack' = Append(Replaced(after), g)
    BY <1>6, <1>7, <1>9 DEF Selection
  <1>11. at \in Nat
    BY <1>3, <1>9 DEF Frames
  <1>12. Top.via = "switch" => at + all + 1 = at + Len(Top.body)
    <2>1. ASSUME Top.via = "switch" PROVE at + all + 1 = at + Len(Top.body)
      <3>1. PICK b \in Seq(Lines) : b = Top.body
        BY <1>3 DEF Frames
      <3>2. b # <<>> /\ all = Len(Tail(b))
        BY <1>4, <1>5, <1>7, <2>1, <3>1 DEF AtLine
      <3>3. Len(Tail(b)) = Len(b) - 1 /\ Len(b) \in Nat
        BY <3>2, HeadTailProperties
      <3>4. QED
        BY <1>11, <3>1, <3>2, <3>3
    <2>2. QED
      BY <2>1
  <1>13. PICK s : s = Replaced(after)
    OBVIOUS
  <1>14. Added(s, stack, n, after, <<>>)
    <2>1. s = [stack EXCEPT ![n] = after]
      BY <1>2, <1>13 DEF Replaced
    <2>2. <<>> \in Seq(Pieces) /\ stack[n].out \in Seq(Pieces)
      BY <1>3, PiecesTyped DEF Frames
    <2>3. Writes(after.out, stack[n].out, <<>>)
      BY <1>3, <1>10, <2>2, ConcatEmptySeq DEF Writes
    <2>4. QED
      BY <1>2, <1>3, <1>10, <2>1, <2>2, <2>3, OutsReplaced
  <1>15. /\ s \in Seq(Frames) /\ Len(s) = n /\ s[n] = after
         /\ \A i \in 1..(n - 1) : s[i] = stack[i]
         /\ \A i \in 0..(n - 1) : Outs(s)[i] = Outs(stack)[i]
         /\ Outs(s)[n] = Outs(stack)[n]
    <2>1. Outs(stack)[n] \in Seq(Pieces)
      BY <1>1, <1>2, WrittenIs
    <2>2. PICK v \in Seq(Pieces) : v = Outs(stack)[n]
      BY <2>1
    <2>3. v \o <<>> = v
      BY ConcatEmptySeq
    <2>4. QED
      BY <1>14, <2>2, <2>3 DEF Added
  <1>16. PICK t, e : t = stack' /\ e \in Nat /\ e = n + 1 /\ e - 1 = n
    BY <1>2
  <1>17. /\ t \in Seq(Frames) /\ Len(t) = e /\ t[e] = g /\ DOMAIN t = 1..e
         /\ \A i \in 1..n : t[i] = s[i]
         /\ \A i \in 0..n : Outs(t)[i] = Outs(s)[i]
         /\ Outs(t)[e] = Outs(s)[n]
    <2>1. t = Append(s, g)
      BY <1>10, <1>13, <1>16
    <2>2. QED
      BY <1>2, <1>10, <1>15, <1>16, <2>1, OutsEntered
  <1>18. \A j \in 1..e : j = e \/ j = n \/ (j \in 1..(n - 1) /\ j \in 1..n)
    BY <1>16
  <1>19. /\ \A j \in 1..(n - 1) : t[j] = stack[j]
         /\ t[n] = after
         /\ \A j \in 1..n : Outs(t)[j] = Outs(stack)[j]
    <2>1. \A j \in 1..n : j = n \/ j \in 1..(n - 1)
      OBVIOUS
    <2>2. \A j \in 1..(n - 1) : j \in 1..n /\ j \in 0..(n - 1)
      OBVIOUS
    <2>3. \A j \in 1..n : j \in 0..n
      OBVIOUS
    <2>4. QED
      BY <1>2, <1>15, <1>17, <2>1, <2>2, <2>3
  <1>20. Written' = Written
    BY <1>1, <1>2, <1>15, <1>16, <1>17, WrittenIs DEF Written
  <1>21. \A j \in 1..n : t[j].file = stack[j].file /\ t[j].via = stack[j].via
    <2>1. \A j \in 1..n : j = n \/ j \in 1..(n - 1)
      OBVIOUS
    <2>2. QED
      BY <1>3, <1>10, <1>19, <2>1
  <1>22. \A j \in 1..e : j = e \/ j \in 1..n
    BY <1>16
  <1>23. Activations'
    <2>1. \A j \in 1..n : t[j].file \in seen /\ (t[j].via = "main" <=> j = 1)
      BY <1>3, <1>21
    <2>2. t[e].file \in seen /\ t[e].via # "main" /\ e # 1
      BY <1>2, <1>3, <1>10, <1>16, <1>17
    <2>3. t # <<>>
      BY <1>16, <1>17
    <2>4. QED
      BY <1>1, <1>5, <1>16, <1>17, <1>22, <2>1, <2>2, <2>3 DEF Activations
  <1>24. ASSUME NEW i \in 1..(n - 1), stack[i].file = Top.file
         PROVE  Top.via = "switch" /\ at + all + 1 <= stack[i].at
    BY <1>1, <1>2, <1>3, <1>9, <1>12, <1>24 DEF Nested
  <1>25. \A i \in 1..n : stack[i].at \in Nat
    BY <1>3 DEF Frames
  <1>26. ASSUME NEW j \in 1..e, NEW i \in 1..(j - 1), t[i].file = t[j].file
         PROVE  t[j].via = "switch" /\ t[j].at + Len(t[j].body) <= t[i].at
    <2>1. CASE j = e
      <3>1. i \in 1..n /\ (i = n \/ i \in 1..(n - 1))
        BY <1>16, <2>1
      <3>2. t[j].via = "switch" /\ t[j].at + Len(t[j].body) = at + bdy
        BY <1>10, <1>17, <2>1
      <3>3. CASE i = n
        BY <1>8, <1>10, <1>11, <1>19, <3>2, <3>3
      <3>4. CASE i \in 1..(n - 1)
        <4>1. stack[i].file = Top.file /\ t[i] = stack[i]
          BY <1>10, <1>17, <1>19, <1>26, <2>1, <3>4
        <4>2. PICK x : x = stack[i].at /\ x \in Nat
          BY <1>25, <3>1
        <4>3. at + all + 1 <= x
          BY <1>24, <3>4, <4>1, <4>2
        <4>4. at + bdy <= x
          BY <1>8, <1>11, <4>2, <4>3
        <4>5. QED
          BY <3>2, <4>1, <4>2, <4>4
      <3>5. QED
        BY <3>1, <3>3, <3>4
    <2>2. CASE j = n
      <3>1. i \in 1..(n - 1)
        BY <2>2
      <3>2. stack[i].file = Top.file /\ t[i] = stack[i]
        BY <1>10, <1>19, <1>26, <2>2, <3>1
      <3>3. t[j].at + Len(t[j].body) = at + blk + 1 + rst
        BY <1>10, <1>19, <2>2
      <3>4. Top.via = "switch" /\ at + all + 1 <= stack[i].at
        BY <1>24, <3>1, <3>2
      <3>5. PICK x : x = stack[i].at /\ x \in Nat
        <4>1. i \in 1..n
          BY <3>1
        <4>2. QED
          BY <1>25, <4>1
      <3>6. at + blk + 1 + rst <= x
        <4>1. at + all + 1 <= x
          BY <3>4, <3>5
        <4>2. x \in Nat
          BY <3>5
        <4>3. QED
          BY <1>8, <1>11, <4>1, <4>2
      <3>7. t[j].via = "switch"
        BY <1>10, <1>19, <2>2, <3>4
      <3>8. QED
        BY <3>2, <3>3, <3>5, <3>6, <3>7
    <2>3. CASE j \in 1..(n - 1)
      <3>1. i \in 1..(n - 1) /\ j \in 1..n
        BY <2>3
      <3>2. t[i] = stack[i] /\ t[j] = stack[j]
        BY <1>19, <2>3, <3>1
      <3>3. QED
        BY <1>1, <1>2, <1>26, <3>1, <3>2 DEF Nested
    <2>4. QED
      BY <1>18, <2>1, <2>2, <2>3
  <1>27. Nested'
    BY <1>16, <1>17, <1>26 DEF Nested
  <1>28. Waiting'
    <2>1. ASSUME NEW j \in 1..e, j > 1, t[j].via \in {"include", "plugin"},
                 t[j - 1].via = "switch"
          PROVE  t[j - 1].body # <<>>
      <3>1. j \in 1..n
        BY <1>10, <1>17, <1>22, <2>1
      <3>2. j - 1 \in 1..(n - 1) /\ t[j - 1] = stack[j - 1]
        BY <1>19, <2>1, <3>1
      <3>3. QED
        BY <1>1, <1>2, <1>21, <2>1, <3>1, <3>2 DEF Waiting
    <2>2. QED
      BY <1>16, <1>17, <2>1 DEF Waiting
  <1>29. Sure'
    <2>1. ASSUME NEW j \in 1..e, t[j].sure
          PROVE  PackageAfter(Outs(t)[j]) = t[j].package
      <3>1. j \in 1..n
        BY <1>10, <1>17, <1>22, <2>1
      <3>2. t[j].sure = stack[j].sure /\ t[j].package = stack[j].package
        BY <1>3, <1>10, <1>18, <1>19, <3>1
      <3>3. QED
        BY <1>1, <1>2, <1>19, <2>1, <3>1, <3>2 DEF Sure
    <2>2. QED
      BY <1>16, <1>17, <2>1 DEF Sure
  <1>30. Behind(Written)'
    <2>1. ASSUME NEW k \in DOMAIN Written, Written[k].op = "text"
          PROVE  /\ Written[k].file \in seen
                 /\ \A j \in 1..e : t[j].file = Written[k].file =>
                                        Written[k].at < t[j].at
      <3>1. /\ Written[k].file \in seen
            /\ \A j \in 1..n : stack[j].file = Written[k].file =>
                                  Written[k].at < stack[j].at
        BY <1>1, <1>2, <2>1 DEF Behind
      <3>2. Written[k].at \in Nat
        <4>1. Written[k] \in Pieces
          BY <1>1, WrittenIs
        <4>2. QED
          BY <4>1 DEF Pieces
      <3>3. Top.file = Written[k].file => Written[k].at < at
        BY <1>2, <1>3, <1>9, <3>1
      <3>4. Top.file = Written[k].file => Written[k].at < at + blk + 1
        BY <1>8, <1>11, <3>2, <3>3
      <3>5. \A j \in 1..(n - 1) : t[j] = stack[j] /\ j \in 1..n
        BY <1>19
      <3>6. /\ t[n].file = Top.file /\ t[n].at = at + blk + 1
            /\ t[e].file = Top.file /\ t[e].at = at
        BY <1>10, <1>17, <1>19
      <3>7. QED
        BY <1>18, <3>1, <3>3, <3>4, <3>5, <3>6
    <2>2. QED
      BY <1>5, <1>16, <1>17, <1>20, <2>1 DEF Behind
  <1>31. Once(Written)' /\ Kept(Written)'
    BY <1>1, <1>20
  <1>32. Starts(Written', Written)
    <2>1. PICK v \in Seq(Pieces) : v = Written
      BY <1>1, WrittenIs
    <2>2. QED
      BY <1>20, <2>1, StartsSame
  <1>33. QED
    BY <1>23, <1>27, <1>28, <1>29, <1>30, <1>31, <1>32 DEF Inv

LEMMA ReturnedKeeps ==
    ASSUME Inv, Returned
    PROVE  Inv' /\ Starts(Written', Written)
  <1>1. /\ Activations /\ Nested /\ Waiting /\ Sure /\ Behind(Written)
    BY DEF Inv
  <1>2. PICK n \in Nat \ {0} : n = Len(stack) /\ DOMAIN stack = 1..n /\ n \in 1..n
    BY <1>1, StackLength
  <1>3. /\ stack \in Seq(Frames)
        /\ \A j \in 1..n : /\ stack[j] \in Frames /\ stack[j].file \in seen
                           /\ stack[j].via = "main" <=> j = 1
    BY <1>1, <1>2, TopTyped DEF Activations
  <1>4. PICK m : /\ m = n - 1 /\ m - 1 = n - 2 /\ m \in Nat \ {0} /\ n > 1
                 /\ m \in 1..n /\ n = m + 1
    BY <1>2 DEF Returned
  <1>5. PICK c : c = Caller /\ c = stack[m] /\ c \in Frames
    BY <1>2, <1>3, <1>4 DEF Caller
  <1>6. Top = stack[n]
    BY <1>2 DEF Top
  <1>7. PICK g \in Frames, items \in Seq(Pieces) :
          /\ stack' = [SubSeq(stack, 1, n - 1) EXCEPT ![n - 1] = g]
          /\ g.file = c.file /\ g.via = c.via
          /\ g.package = c.package
          /\ g.out = c.out \o (Top.out \o items)
          /\ IF Top.via = "switch"
             THEN g.at = c.at /\ g.body = c.body
             ELSE g.at = c.at + 1 /\ g.body = Rest(c.body)
          /\ \/ items = <<>> /\ g.sure = FALSE
             \/ items = <<PackageLine(c.package)>>
    BY <1>2, <1>5 DEF Returned
  <1>8. seen' = seen
    BY DEF Returned
  <1>9. PICK t : t = stack'
    OBVIOUS
  <1>10. /\ t \in Seq(Frames) /\ Len(t) = m /\ t[m] = g /\ DOMAIN t = 1..m
         /\ \A i \in 1..(m - 1) : t[i] = stack[i]
         /\ \A i \in 0..(m - 1) : Outs(t)[i] = Outs(stack)[i]
         /\ Outs(t)[m] = Outs(stack)[n] \o items
    <2>1. PICK all : all = Top.out \o items
      OBVIOUS
    <2>2. Writes(all, stack[n].out, items) /\ Writes(g.out, stack[n - 1].out, all)
      BY <1>4, <1>5, <1>6, <1>7, <2>1 DEF Writes
    <2>3. t = [SubSeq(stack, 1, n - 1) EXCEPT ![n - 1] = g]
      BY <1>7, <1>9
    <2>4. TookOver(t, stack, n, g, items)
      BY <1>2, <1>3, <1>4, <2>2, <2>3, OutsReturned
    <2>5. QED
      BY <1>4, <2>4 DEF TookOver
  <1>11. \A j \in 1..m : j = m \/ (j \in 1..(m - 1) /\ j \in 0..(m - 1))
    BY <1>4
  <1>12. PICK w : w = Written \o items
    OBVIOUS
  <1>13. w = Written'
    <2>1. Written = Outs(stack)[n]
      BY <1>1, <1>2, WrittenIs
    <2>2. Written' = Outs(t)[m]
      BY <1>9, <1>10 DEF Written
    <2>3. QED
      BY <1>10, <1>12, <2>1, <2>2
  <1>14. /\ w \in Seq(Pieces) /\ Once(w) /\ Kept(w)
         /\ \A p : items = <<PackageLine(p)>> => PackageAfter(w) = p
         /\ Starts(w, Written)
         /\ \A k \in DOMAIN w :
               \/ k \in DOMAIN Written /\ w[k] = Written[k]
               \/ w[k].op = "package"
    <2>1. c.package \in InPackages
      BY <1>5 DEF Frames
    <2>2. items = <<>> \/ \E p \in ReadPackages : items = <<PackageLine(p)>>
      BY <1>7, <2>1, PiecesTyped
    <2>3. items # <<Text(Top)>>
      <3>1. Text(Top).op = "text" /\ \A p : PackageLine(p).op = "package"
        BY DEF Text, PackageLine
      <3>2. QED
        BY <2>2, <3>1
    <2>4. QED
      BY <1>12, <2>2, <2>3, Wrote
  <1>15. \A j \in 1..m : /\ t[j].file = stack[j].file /\ t[j].via = stack[j].via
                         /\ j \in 1..n
    <2>1. t[m].file = stack[m].file /\ t[m].via = stack[m].via
      BY <1>5, <1>7, <1>10
    <2>2. \A j \in 1..m : j \in 1..n
      BY <1>4
    <2>3. QED
      BY <1>10, <1>11, <2>1, <2>2
  <1>16. Activations'
    <2>1. t # <<>>
      BY <1>4, <1>10
    <2>2. \A j \in 1..m : t[j].file \in seen /\ (t[j].via = "main" <=> j = 1)
      BY <1>3, <1>15
    <2>3. seen \subseteq Files
      BY <1>1 DEF Activations
    <2>4. QED
      BY <1>8, <1>9, <1>10, <2>1, <2>2, <2>3 DEF Activations
  <1>17. c.at \in Nat /\ (g.at = c.at \/ g.at = c.at + 1)
    <2>1. c.at \in Nat
      BY <1>5 DEF Frames
    <2>2. QED
      BY <1>7, <2>1
  <1>18. c.via = "switch" => g.at + Len(g.body) = c.at + Len(c.body)
    <2>1. CASE Top.via = "switch"
      <3>1. g.at = c.at /\ g.body = c.body
        BY <1>7, <2>1
      <3>2. QED
        BY <3>1
    <2>2. CASE Top.via # "switch"
      <3>1. Top.via \in {"include", "plugin"}
        <4>1. n # 1 /\ Top \in Frames
          BY <1>3, <1>4, <1>6
        <4>2. Top.via \in {"main", "include", "plugin", "switch"}
          BY <4>1 DEF Frames
        <4>3. Top.via # "main"
          BY <1>2, <1>3, <1>6, <4>1
        <4>4. QED
          BY <2>2, <4>2, <4>3
      <3>2. c.via = "switch" => c.body # <<>>
        <4>1. stack[n - 1] = c
          BY <1>4, <1>5
        <4>2. QED
          BY <1>1, <1>2, <1>4, <1>6, <3>1, <4>1 DEF Waiting
      <3>3. QED
        BY <1>5, <1>7, <2>2, <3>2, RestEnds
    <2>3. QED
      BY <2>1, <2>2
  <1>19. ASSUME NEW j \in 1..m, NEW i \in 1..(j - 1), t[i].file = t[j].file
         PROVE  t[j].via = "switch" /\ t[j].at + Len(t[j].body) <= t[i].at
    <2>1. i \in 1..(m - 1) /\ t[i] = stack[i] /\ j \in 1..n /\ i \in 1..n
      BY <1>4, <1>10
    <2>2. stack[j].via = "switch" /\ stack[j].at + Len(stack[j].body) <= stack[i].at
      <3>1. stack[i].file = stack[j].file
        BY <1>15, <1>19, <2>1
      <3>2. QED
        BY <1>1, <1>2, <2>1, <3>1 DEF Nested
    <2>3. CASE j = m
      BY <1>5, <1>7, <1>10, <1>18, <2>1, <2>2, <2>3
    <2>4. CASE j \in 1..(m - 1)
      BY <1>10, <2>1, <2>2, <2>4
    <2>5. QED
      BY <1>11, <2>3, <2>4
  <1>20. Nested'
    BY <1>9, <1>10, <1>19 DEF Nested
  <1>21. Waiting'
    <2>1. ASSUME NEW j \in 1..m, j > 1, t[j].via \in {"include", "plugin"},
                 t[j - 1].via = "switch"
          PROVE  t[j - 1].body # <<>>
      <3>1. j - 1 \in 1..(m - 1) /\ t[j - 1] = stack[j - 1]
        BY <1>10, <2>1
      <3>2. t[j].via = stack[j].via /\ j \in 1..n
        BY <1>15
      <3>3. QED
        BY <1>1, <1>2, <2>1, <3>1, <3>2 DEF Waiting
    <2>2. QED
      BY <1>9, <1>10, <2>1 DEF Waiting
  <1>22. Sure'
    <2>1. ASSUME NEW j \in 1..m, t[j].sure
          PROVE  PackageAfter(Outs(t)[j]) = t[j].package
      <3>1. CASE j \in 1..(m - 1)
        <4>1. t[j] = stack[j] /\ Outs(t)[j] = Outs(stack)[j] /\ j \in 1..n
          BY <1>10, <1>11, <1>15, <3>1
        <4>2. QED
          BY <1>1, <1>2, <2>1, <4>1 DEF Sure
      <3>2. CASE j = m
        <4>1. Outs(t)[j] = w /\ t[j] = g
          BY <1>1, <1>2, <1>10, <1>12, <3>2, WrittenIs
        <4>2. items = <<PackageLine(c.package)>>
          BY <1>7, <2>1, <4>1
        <4>3. QED
          BY <1>7, <1>14, <4>1, <4>2
      <3>3. QED
        BY <1>11, <3>1, <3>2
    <2>2. QED
      BY <1>9, <1>10, <2>1 DEF Sure
  <1>23. Behind(Written)'
    <2>1. ASSUME NEW k \in DOMAIN w, w[k].op = "text"
          PROVE  /\ w[k].file \in seen
                 /\ \A j \in 1..m : t[j].file = w[k].file => w[k].at < t[j].at
      <3>1. k \in DOMAIN Written /\ w[k] = Written[k]
        BY <1>14, <2>1
      <3>2. /\ w[k].file \in seen
            /\ \A j \in 1..n : stack[j].file = w[k].file => w[k].at < stack[j].at
        BY <1>1, <1>2, <2>1, <3>1 DEF Behind
      <3>3. w[k].at \in Nat
        <4>1. w[k] \in Pieces
          BY <1>14
        <4>2. QED
          BY <4>1 DEF Pieces
      <3>4. c.file = w[k].file => w[k].at < c.at
        BY <1>4, <1>5, <3>2
      <3>5. g.file = w[k].file => w[k].at < g.at
        BY <1>7, <1>17, <3>3, <3>4
      <3>6. \A j \in 1..(m - 1) : t[j] = stack[j] /\ j \in 1..n
        BY <1>4, <1>10
      <3>7. QED
        BY <1>10, <1>11, <3>2, <3>5, <3>6
    <2>2. QED
      BY <1>8, <1>9, <1>10, <1>13, <2>1 DEF Behind
  <1>24. Once(Written)' /\ Kept(Written)'
    BY <1>13, <1>14
  <1>25. QED
    BY <1>13, <1>14, <1>16, <1>20, <1>21, <1>22, <1>23, <1>24 DEF Inv

\* The Plugin that fails is not the file being compiled.
LEMMA LastPlugin ==
    ASSUME Activations, PluginFrames # {}
    PROVE  /\ Max(PluginFrames) \in DOMAIN stack /\ Max(PluginFrames) # 1
           /\ stack[Max(PluginFrames)].via = "plugin"
           /\ \A i \in PluginFrames : i <= Max(PluginFrames)
  <1>1. PICK n \in Nat \ {0} : n = Len(stack) /\ DOMAIN stack = 1..n /\ n \in 1..n
    BY StackLength
  <1>2. PluginFrames \in SUBSET (0..n)
    BY <1>1 DEF PluginFrames
  <1>3. /\ Max(PluginFrames) \in PluginFrames
        /\ \A i \in PluginFrames : i <= Max(PluginFrames)
    BY <1>2, MaxIs
  <1>4. 1 \notin PluginFrames
    BY <1>1 DEF PluginFrames, Activations
  <1>5. QED
    BY <1>3, <1>4 DEF PluginFrames

\* What is left when a Plugin fails.
Remains(m, t, g) ==
    /\ t = stack' /\ g \in Frames /\ m \in 1..(Len(stack) - 1)
    /\ stack[m + 1].via = "plugin"
    /\ \A i \in PluginFrames : i <= m + 1
    /\ m + 1 \in PluginFrames
    /\ g.file = stack[m].file /\ g.via = stack[m].via
    /\ g.at = stack[m].at + 1 /\ g.body = Rest(stack[m].body)
    /\ g.package = stack[m].package /\ g.sure = stack[m].sure
    /\ t \in Seq(Frames) /\ Len(t) = m /\ t[m] = g /\ DOMAIN t = 1..m
    /\ \A i \in 1..(m - 1) : t[i] = stack[i]
    /\ \A i \in 0..m : Outs(t)[i] = Outs(stack)[i]

LEMMA FailedLeaves ==
    ASSUME Activations, Failed
    PROVE  \E m, t, g : Remains(m, t, g)
  <1>1. PICK n \in Nat \ {0} : n = Len(stack) /\ DOMAIN stack = 1..n /\ n \in 1..n
    BY StackLength
  <1>2. stack \in Seq(Frames)
    BY DEF Activations
  <1>3. PICK p : /\ p = Max(PluginFrames) /\ p \in 1..n /\ p # 1
                 /\ stack[p].via = "plugin" /\ p \in PluginFrames
                 /\ \A i \in PluginFrames : i <= p
    BY <1>1, LastPlugin DEF Failed, PluginFrames
  <1>4. PICK m : m = p - 1 /\ m \in Nat \ {0} /\ m \in 1..(n - 1) /\ m + 1 = p
                 /\ m \in 1..n
    BY <1>3
  <1>5. PICK u : u = SubSeq(stack, 1, m)
    OBVIOUS
  <1>6. /\ u \in Seq(Frames) /\ Len(u) = m
        /\ \A i \in 1..m : u[i] = stack[i]
        /\ \A i \in 0..m : Outs(u)[i] = Outs(stack)[i]
    BY <1>1, <1>2, <1>4, <1>5, CutFrames
  <1>7. PICK f \in Frames : f = stack[m] /\ f = u[m]
    <2>1. stack[m] \in Frames /\ u[m] = stack[m]
      BY <1>1, <1>2, <1>4, <1>6
    <2>2. QED
      BY <2>1
  <1>8. PICK g : g = Advance(f, <<>>)
    OBVIOUS
  <1>9. /\ g = FrameOf(f.file, f.via, f.at + 1, Rest(f.body), f.package, f.sure,
                       f.out \o <<>>)
        /\ g \in Frames
    BY <1>8, AdvanceIs, PiecesTyped
  <1>10. /\ g.file = f.file /\ g.via = f.via /\ g.at = f.at + 1
         /\ g.body = Rest(f.body) /\ g.package = f.package /\ g.sure = f.sure
         /\ g.out = f.out \o <<>>
    BY <1>9, FrameFields
  <1>11. PICK t : t = stack'
    OBVIOUS
  <1>12. t = [u EXCEPT ![m] = g]
    <2>1. stack' = [u EXCEPT ![m] = Advance(@, <<>>)]
      BY <1>3, <1>4, <1>5 DEF Failed
    <2>2. Advance(u[m], <<>>) = g
      BY <1>7, <1>8
    <2>3. QED
      BY <1>11, <2>1, <2>2, Zenon
  <1>13. Added(t, u, m, g, <<>>)
    <2>1. Writes(g.out, u[m].out, <<>>)
      BY <1>7, <1>10 DEF Writes
    <2>2. <<>> \in Seq(Pieces)
      BY PiecesTyped
    <2>3. QED
      BY <1>4, <1>6, <1>9, <1>12, <2>1, <2>2, OutsReplaced
  <1>14. /\ t \in Seq(Frames) /\ Len(t) = m /\ t[m] = g /\ DOMAIN t = 1..m
         /\ \A i \in 1..(m - 1) : t[i] = u[i]
         /\ \A i \in 0..(m - 1) : Outs(t)[i] = Outs(u)[i]
         /\ Outs(t)[m] = Outs(u)[m] \o <<>>
    BY <1>13 DEF Added
  <1>15. \A i \in 1..(m - 1) : t[i] = stack[i]
    <2>1. \A i \in 1..(m - 1) : i \in 1..m
      BY <1>4
    <2>2. QED
      BY <1>6, <1>14, <2>1
  <1>16. \A i \in 0..m : Outs(t)[i] = Outs(stack)[i]
    <2>1. PICK v \in Seq(Pieces) : v = Outs(stack)[m]
      BY <1>1, <1>4, WrittenIs
    <2>2. v \o <<>> = v
      BY ConcatEmptySeq
    <2>3. Outs(u)[m] = v
      <3>1. m \in 0..m
        BY <1>4
      <3>2. QED
        BY <1>6, <2>1, <3>1
    <2>4. \A i \in 0..m : i = m \/ i \in 0..(m - 1)
      BY <1>4
    <2>5. QED
      BY <1>6, <1>14, <2>1, <2>2, <2>3, <2>4
  <1>17. Remains(m, t, g)
    BY <1>1, <1>3, <1>4, <1>7, <1>9, <1>10, <1>11, <1>14, <1>15, <1>16 DEF Remains
  <1>18. QED
    BY <1>17

LEMMA FailedKeeps ==
    ASSUME Inv, Failed
    PROVE  Inv'
  <1>1. /\ Activations /\ Nested /\ Waiting /\ Sure /\ Behind(Written)
        /\ Once(Written) /\ Kept(Written)
    BY DEF Inv
  <1>2. PICK n \in Nat \ {0} : n = Len(stack) /\ DOMAIN stack = 1..n /\ n \in 1..n
    BY <1>1, StackLength
  <1>3. \A j \in 1..n : /\ stack[j] \in Frames /\ stack[j].file \in seen
                        /\ stack[j].via = "main" <=> j = 1
    BY <1>1, <1>2, TopTyped DEF Activations
  <1>4. PICK m, t, g : Remains(m, t, g)
    BY <1>1, FailedLeaves
  <1>5. PICK c : c = stack[m]
    OBVIOUS
  <1>6. /\ t = stack' /\ m \in 1..(n - 1) /\ stack[m + 1].via = "plugin"
        /\ g.file = c.file /\ g.via = c.via
        /\ g.at = c.at + 1 /\ g.body = Rest(c.body)
        /\ g.package = c.package /\ g.sure = c.sure
        /\ t \in Seq(Frames) /\ Len(t) = m /\ t[m] = g /\ DOMAIN t = 1..m
        /\ \A i \in 1..(m - 1) : t[i] = stack[i]
        /\ \A i \in 0..m : Outs(t)[i] = Outs(stack)[i]
    BY <1>2, <1>4, <1>5 DEF Remains
  <1>7. m \in Nat \ {0} /\ m \in 1..n /\ m \in 0..m
    BY <1>2, <1>6
  <1>8. seen' = seen
    BY DEF Failed
  <1>9. \A j \in 1..m : (j = m \/ j \in 1..(m - 1)) /\ j \in 0..m /\ j \in 1..n
    BY <1>6, <1>7
  <1>10. c \in Frames
    BY <1>3, <1>5, <1>7
  <1>11. \A j \in 1..m : t[j].file = stack[j].file /\ t[j].via = stack[j].via
    BY <1>5, <1>6, <1>9
  <1>12. PICK w : w = Outs(stack)[m]
    OBVIOUS
  <1>13. Written' = w
    BY <1>6, <1>7, <1>12 DEF Written
  <1>14. /\ w \in Seq(Pieces) /\ Written \in Seq(Pieces)
         /\ \A k \in DOMAIN w : k \in DOMAIN Written /\ w[k] = Written[k]
         /\ Once(w) /\ Kept(w)
    <2>1. w \in Seq(Pieces) /\ Written \in Seq(Pieces) /\ Starts(Written, w)
      BY <1>1, <1>2, <1>7, <1>12, WrittenIs
    <2>2. \A k \in DOMAIN w : k \in DOMAIN Written /\ w[k] = Written[k]
      BY <2>1 DEF Starts
    <2>3. QED
      BY <1>1, <2>1, <2>2, Fewer
  <1>15. Activations'
    <2>1. t # <<>>
      BY <1>6, <1>7
    <2>2. \A j \in 1..m : t[j].file \in seen /\ (t[j].via = "main" <=> j = 1)
      BY <1>3, <1>9, <1>11
    <2>3. seen \subseteq Files
      BY <1>1 DEF Activations
    <2>4. QED
      BY <1>6, <1>8, <2>1, <2>2, <2>3 DEF Activations
  <1>16. c.via = "switch" => g.at + Len(g.body) = c.at + Len(c.body)
    <2>1. c.via = "switch" => c.body # <<>>
      <3>1. PICK e : e = m + 1 /\ e \in 1..n /\ e > 1 /\ e - 1 = m
        BY <1>2, <1>6, <1>7
      <3>2. stack[e].via \in {"include", "plugin"} /\ stack[e - 1] = c
        BY <1>5, <1>6, <3>1
      <3>3. QED
        BY <1>1, <1>2, <3>1, <3>2 DEF Waiting
    <2>2. QED
      BY <1>6, <1>10, <2>1, RestEnds
  <1>17. ASSUME NEW j \in 1..m, NEW i \in 1..(j - 1), t[i].file = t[j].file
         PROVE  t[j].via = "switch" /\ t[j].at + Len(t[j].body) <= t[i].at
    <2>1. i \in 1..(m - 1) /\ t[i] = stack[i] /\ j \in 1..n /\ i \in 1..m
      BY <1>6, <1>7, <1>9
    <2>2. stack[j].via = "switch" /\ stack[j].at + Len(stack[j].body) <= stack[i].at
      <3>1. stack[i].file = stack[j].file
        BY <1>11, <1>17, <2>1
      <3>2. QED
        BY <1>1, <1>2, <2>1, <3>1 DEF Nested
    <2>3. CASE j = m
      BY <1>5, <1>6, <1>16, <2>1, <2>2, <2>3
    <2>4. CASE j \in 1..(m - 1)
      BY <1>6, <2>1, <2>2, <2>4
    <2>5. QED
      BY <1>9, <2>3, <2>4
  <1>18. Nested'
    BY <1>6, <1>17 DEF Nested
  <1>19. Waiting'
    <2>1. ASSUME NEW j \in 1..m, j > 1, t[j].via \in {"include", "plugin"},
                 t[j - 1].via = "switch"
          PROVE  t[j - 1].body # <<>>
      <3>1. j - 1 \in 1..(m - 1) /\ t[j - 1] = stack[j - 1]
        BY <1>6, <1>7, <2>1
      <3>2. t[j].via = stack[j].via /\ j \in 1..n
        BY <1>9, <1>11
      <3>3. QED
        BY <1>1, <1>2, <2>1, <3>1, <3>2 DEF Waiting
    <2>2. QED
      BY <1>6, <2>1 DEF Waiting
  <1>20. Sure'
    <2>1. ASSUME NEW j \in 1..m, t[j].sure
          PROVE  PackageAfter(Outs(t)[j]) = t[j].package
      <3>1. t[j].sure = stack[j].sure /\ t[j].package = stack[j].package
        BY <1>5, <1>6, <1>9
      <3>2. Outs(t)[j] = Outs(stack)[j] /\ j \in 1..n
        BY <1>6, <1>9
      <3>3. QED
        BY <1>1, <1>2, <2>1, <3>1, <3>2 DEF Sure
    <2>2. QED
      BY <1>6, <2>1 DEF Sure
  <1>21. Behind(Written)'
    <2>1. ASSUME NEW k \in DOMAIN w, w[k].op = "text"
          PROVE  /\ w[k].file \in seen
                 /\ \A j \in 1..m : t[j].file = w[k].file => w[k].at < t[j].at
      <3>1. k \in DOMAIN Written /\ w[k] = Written[k]
        BY <1>14, <2>1
      <3>2. /\ w[k].file \in seen
            /\ \A j \in 1..n : stack[j].file = w[k].file => w[k].at < stack[j].at
        BY <1>1, <1>2, <2>1, <3>1 DEF Behind
      <3>3. w[k].at \in Nat
        <4>1. w[k] \in Pieces
          BY <1>14
        <4>2. QED
          BY <4>1 DEF Pieces
      <3>4. c.file = w[k].file => w[k].at < c.at
        BY <1>5, <1>7, <3>2
      <3>5. c.at \in Nat
        BY <1>10 DEF Frames
      <3>6. g.file = w[k].file => w[k].at < g.at
        BY <1>6, <3>3, <3>4, <3>5
      <3>7. QED
        BY <1>6, <1>9, <3>2, <3>6
    <2>2. QED
      BY <1>6, <1>8, <1>13, <2>1 DEF Behind
  <1>22. Once(Written)' /\ Kept(Written)'
    BY <1>13, <1>14
  <1>23. QED
    BY <1>15, <1>18, <1>19, <1>20, <1>21, <1>22 DEF Inv

-----------------------------------------------------------------------------
(* What is left to be done. *)

\* A file has no more lines than files have, and one that another is read for
\* has a line for it.
Fitting ==
    \A j \in DOMAIN stack : stack[j].via # "switch" =>
        /\ stack[j].at <= FileLines
        /\ (j < Len(stack) /\ stack[j + 1].via # "switch")
              => stack[j].at < FileLines

Total == Sums(stack)[Len(stack)]

\* No activation is behind the end of its lines.
Fits(frames) == \A j \in 1..Len(frames) : LinesLeft(frames[j]) \in Nat

LEMMA LeftIs ==
    ASSUME NEW f \in Frames
    PROVE  /\ f.via = "switch" => LinesLeft(f) = Len(f.body) /\ LinesLeft(f) \in Nat
           /\ f.via # "switch" => LinesLeft(f) = FileLines - f.at
           /\ f.via # "switch" /\ f.at <= FileLines => LinesLeft(f) \in Nat
           /\ f.at \in Nat /\ f.body \in Seq(Lines)
  <1>1. f.at \in Nat /\ f.body \in Seq(Lines) /\ FileLines \in Nat
    BY PreprocessorAssumption DEF Frames
  <1>2. Len(f.body) \in Nat
    BY <1>1
  <1>3. f.at <= FileLines => FileLines - f.at \in Nat
    BY <1>1
  <1>4. QED
    BY <1>1, <1>2, <1>3 DEF LinesLeft

LEMMA SumsIs ==
    ASSUME NEW frames, NEW n \in Nat, Len(frames) = n
    PROVE  Sums(frames) =
             [j \in 0..n |-> IF j = 0 THEN 0
                             ELSE Sums(frames)[j - 1] + Weight(frames[j])]
  <1> DEFINE Is(g, m) ==
        g = [j \in 0..m |-> IF j = 0 THEN 0 ELSE g[j - 1] + Weight(frames[j])]
      Good == {m \in Nat : \E g : Is(g, m)}
  <1>1. 0 \in Good
    <2>1. Is([j \in 0..0 |-> 0], 0)
      OBVIOUS
    <2>2. QED
      BY <2>1
  <1>2. ASSUME NEW m \in Nat, m \in Good PROVE m + 1 \in Good
    <2>1. PICK g : Is(g, m)
      BY <1>2
    <2> DEFINE h == [j \in 0..(m + 1) |->
                       IF j = m + 1 THEN g[m] + Weight(frames[m + 1]) ELSE g[j]]
    <2>2. ASSUME NEW j \in 0..(m + 1)
          PROVE  h[j] = IF j = 0 THEN 0 ELSE h[j - 1] + Weight(frames[j])
      <3>1. CASE j = m + 1
        BY <3>1
      <3>2. CASE j # m + 1
        <4>1. j \in 0..m /\ h[j] = g[j]
          BY <3>2
        <4>2. j # 0 => j - 1 \in 0..(m + 1) /\ j - 1 # m + 1
          BY <4>1
        <4>3. j # 0 => h[j - 1] = g[j - 1]
          BY <4>2
        <4>4. g[j] = IF j = 0 THEN 0 ELSE g[j - 1] + Weight(frames[j])
          BY <2>1, <4>1
        <4>5. QED
          BY <4>1, <4>3, <4>4
      <3>3. QED
        BY <3>1, <3>2
    <2>3. Is(h, m + 1)
      BY <2>2
    <2>4. \E u : Is(u, m + 1)
      <3> HIDE DEF h, Is
      <3>1. QED
        BY <2>3
    <2>5. QED
      <3> HIDE DEF Is
      <3>1. QED
        BY <2>4
  <1>3. n \in Good
    <2> HIDE DEF Good
    <2>1. QED
      BY <1>1, <1>2, Inductive
  <1>4. QED
    BY <1>3 DEF Sums

\* The sums are those of one frame after the other, and grow.
LEMMA SumsTyped ==
    ASSUME NEW frames \in Seq(Frames), Fits(frames)
    PROVE  /\ Sums(frames)[0] = 0
           /\ \A j \in 1..Len(frames) :
                 /\ Sums(frames)[j] = Sums(frames)[j - 1] + Weight(frames[j])
                 /\ Weight(frames[j]) \in Nat \ {0}
           /\ \A j \in 0..Len(frames) : Sums(frames)[j] \in Nat
  <1>1. PICK n \in Nat : n = Len(frames)
    OBVIOUS
  <1> DEFINE sums == Sums(frames)
             Good == {j \in Nat : j <= n => sums[j] \in Nat}
  <1>2. sums = [j \in 0..n |-> IF j = 0 THEN 0 ELSE sums[j - 1] + Weight(frames[j])]
    BY <1>1, SumsIs
  <1> HIDE DEF sums
  <1>3. sums[0] = 0
    BY <1>2
  <1>4. \A j \in 1..n : sums[j] = sums[j - 1] + Weight(frames[j])
    BY <1>2
  <1>5. \A j \in 1..n : Weight(frames[j]) \in Nat \ {0}
    BY <1>1 DEF Fits, Weight
  <1>6. 0 \in Good
    BY <1>3
  <1>7. ASSUME NEW j \in Nat, j \in Good PROVE j + 1 \in Good
    <2>1. CASE j + 1 <= n
      <3>1. PICK i \in 1..n : i = j + 1 /\ i - 1 = j
        BY <2>1
      <3>2. sums[j] \in Nat
        BY <1>7, <2>1
      <3>3. sums[i] = sums[j] + Weight(frames[i])
        BY <1>4, <3>1
      <3>4. sums[i] \in Nat
        BY <1>5, <3>2, <3>3
      <3>5. QED
        BY <3>1, <3>4
    <2>2. QED
      BY <2>1
  <1>8. \A j \in Nat : j \in Good
    <2> HIDE DEF Good
    <2>1. QED
      BY <1>6, <1>7, Inductive
  <1>9. \A j \in 0..n : sums[j] \in Nat
    BY <1>8
  <1>10. QED
    BY <1>1, <1>3, <1>4, <1>5, <1>9 DEF sums

LEMMA SumsSame ==
    ASSUME NEW f \in Seq(Frames), NEW g \in Seq(Frames), Fits(f), Fits(g),
           NEW m \in Nat, m <= Len(f), m <= Len(g), \A i \in 1..m : f[i] = g[i]
    PROVE  \A j \in 0..m : Sums(f)[j] = Sums(g)[j]
  <1> DEFINE Good == {j \in Nat : j <= m => Sums(f)[j] = Sums(g)[j]}
  <1>1. 0 \in Good
    BY SumsTyped
  <1>2. ASSUME NEW j \in Nat, j \in Good PROVE j + 1 \in Good
    <2>1. CASE j + 1 <= m
      <3>1. PICK i \in 1..m : i = j + 1 /\ i - 1 = j
        BY <2>1
      <3>2. i \in 1..Len(f) /\ i \in 1..Len(g)
        OBVIOUS
      <3>3. Sums(f)[i] = Sums(f)[i - 1] + Weight(f[i])
        BY <3>2, SumsTyped
      <3>4. Sums(g)[i] = Sums(g)[i - 1] + Weight(g[i])
        BY <3>2, SumsTyped
      <3>5. Sums(f)[j] = Sums(g)[j]
        BY <1>2, <2>1
      <3>6. Sums(f)[i] = Sums(g)[i]
        BY <3>1, <3>3, <3>4, <3>5
      <3>7. QED
        BY <3>1, <3>6
    <2>2. QED
      BY <2>1
  <1>3. \A j \in Nat : j \in Good
    <2> HIDE DEF Good
    <2>1. QED
      BY <1>1, <1>2, Inductive
  <1>4. QED
    BY <1>3

LEMMA SumsGrow ==
    ASSUME NEW frames \in Seq(Frames), Fits(frames), NEW m \in Nat
    PROVE  \A j \in m..Len(frames) :
              /\ Sums(frames)[m] <= Sums(frames)[j]
              /\ m < j => Sums(frames)[m] < Sums(frames)[j]
  <1>1. PICK n \in Nat : n = Len(frames)
    OBVIOUS
  <1> DEFINE S(j) == Sums(frames)[j]
             Good == {j \in Nat : j \in m..n => S(m) <= S(j) /\ (m < j => S(m) < S(j))}
  <1>2. \A j \in 0..n : S(j) \in Nat
    BY <1>1, SumsTyped
  <1>3. \A j \in 1..n : S(j) = S(j - 1) + Weight(frames[j])
                        /\ Weight(frames[j]) \in Nat \ {0}
    BY <1>1, SumsTyped
  <1> HIDE DEF S
  <1>4. 0 \in Good
    <2>1. 0 \in m..n => m = 0
      OBVIOUS
    <2>2. S(0) \in Nat
      BY <1>2
    <2>3. QED
      BY <2>1, <2>2
  <1>5. ASSUME NEW j \in Nat, j \in Good PROVE j + 1 \in Good
    <2>1. SUFFICES ASSUME j + 1 \in m..n PROVE S(m) <= S(j + 1) /\ (m < j + 1 => S(m) < S(j + 1))
      OBVIOUS
    <2>2. CASE j + 1 = m
      <3>1. S(m) \in Nat
        BY <1>2, <2>1, <2>2
      <3>2. QED
        BY <2>2, <3>1
    <2>3. CASE j \in m..n
      <3>1. PICK i \in 1..n : i = j + 1 /\ i - 1 = j
        BY <2>1, <2>3
      <3>2. S(i) = S(j) + Weight(frames[i]) /\ Weight(frames[i]) \in Nat \ {0}
        BY <1>3, <3>1
      <3>3. S(m) <= S(j)
        BY <1>5, <2>3
      <3>4. S(m) \in Nat /\ S(j) \in Nat
        BY <1>2, <2>3
      <3>5. QED
        BY <3>1, <3>2, <3>3, <3>4
    <2>4. QED
      BY <2>1, <2>2, <2>3
  <1>6. \A j \in Nat : j \in Good
    <2> HIDE DEF Good
    <2>1. QED
      BY <1>4, <1>5, Inductive
  <1>7. QED
    BY <1>1, <1>6 DEF S

\* Activations with less to do, or fewer of them.
LEMMA Lowers ==
    ASSUME NEW s \in Seq(Frames), NEW t \in Seq(Frames), Fits(s), Fits(t),
           NEW m \in Nat \ {0}, m <= Len(s), Len(t) = m,
           \A i \in 1..(m - 1) : t[i] = s[i],
           Weight(t[m]) <= Weight(s[m]),
           m < Len(s) \/ Weight(t[m]) < Weight(s[m])
    PROVE  Sums(t)[Len(t)] < Sums(s)[Len(s)]
  <1>1. PICK k \in Nat : k = m - 1 /\ k \in 0..m
    OBVIOUS
  <1>2. PICK n \in Nat : n = Len(s) /\ n \in m..Len(s) /\ n \in 0..Len(s)
    OBVIOUS
  <1>3. k <= Len(s) /\ k <= Len(t) /\ \A i \in 1..k : t[i] = s[i]
    BY <1>1
  <1>4. Sums(t)[k] = Sums(s)[k]
    <2>1. k \in 0..k
      BY <1>1
    <2>2. QED
      BY <1>3, <2>1, SumsSame
  <1>5. /\ Sums(t)[m] = Sums(t)[k] + Weight(t[m]) /\ Weight(t[m]) \in Nat
        /\ Sums(t)[k] \in Nat
    <2>1. m \in 1..Len(t) /\ k \in 0..Len(t)
      BY <1>1
    <2>2. QED
      BY <1>1, <2>1, SumsTyped
  <1>6. /\ Sums(s)[m] = Sums(s)[k] + Weight(s[m]) /\ Weight(s[m]) \in Nat
        /\ Sums(s)[m] \in Nat
    <2>1. m \in 1..Len(s) /\ m \in 0..Len(s)
      OBVIOUS
    <2>2. QED
      BY <1>1, <2>1, SumsTyped
  <1>7. Sums(s)[m] <= Sums(s)[n] /\ (m < n => Sums(s)[m] < Sums(s)[n])
    BY <1>2, SumsGrow
  <1>8. Sums(s)[n] \in Nat
    BY <1>2, SumsTyped
  <1>9. Sums(t)[m] <= Sums(s)[m] /\ (Weight(t[m]) < Weight(s[m]) => Sums(t)[m] < Sums(s)[m])
    BY <1>4, <1>5, <1>6
  <1>10. Sums(t)[m] \in Nat
    BY <1>5
  <1>11. QED
    BY <1>2, <1>6, <1>7, <1>8, <1>9, <1>10

LEMMA FittingFits ==
    ASSUME Activations, Fitting
    PROVE  Fits(stack)
  <1>1. PICK n \in Nat \ {0} : n = Len(stack) /\ DOMAIN stack = 1..n /\ n \in 1..n
    BY StackLength
  <1>2. \A j \in 1..n : stack[j] \in Frames
    BY <1>1, TopTyped
  <1>3. \A j \in 1..n : stack[j].via # "switch" => stack[j].at <= FileLines
    BY <1>1 DEF Fitting
  <1>4. QED
    BY <1>1, <1>2, <1>3, LeftIs DEF Fits

\* The frame after a line has less to do, and still fits its file.
LEMMA LessLeft ==
    ASSUME NEW f \in Frames, NEW g \in Frames, g.via = f.via, g.at = f.at + 1,
           g.body = Rest(f.body),
           IF f.via = "switch" THEN f.body # <<>> ELSE f.at < FileLines
    PROVE  /\ LinesLeft(g) \in Nat /\ LinesLeft(f) = LinesLeft(g) + 1
           /\ Weight(g) < Weight(f) /\ Weight(g) \in Nat /\ Weight(f) \in Nat
           /\ f.via # "switch" => g.at <= FileLines
  <1>1. LinesLeft(g) \in Nat /\ LinesLeft(f) = LinesLeft(g) + 1
    <2>1. CASE f.via = "switch"
      <3>1. Len(Rest(f.body)) = Len(f.body) - 1
        BY <2>1, LeftIs, RestTyped
      <3>2. LinesLeft(f) = Len(f.body) /\ LinesLeft(g) = Len(f.body) - 1
            /\ LinesLeft(g) \in Nat /\ LinesLeft(f) \in Nat
        BY <2>1, <3>1, LeftIs
      <3>3. QED
        BY <3>2
    <2>2. CASE f.via # "switch"
      <3>1. /\ LinesLeft(f) = FileLines - f.at /\ LinesLeft(g) = FileLines - g.at
            /\ f.at \in Nat /\ FileLines \in Nat
        BY <2>2, LeftIs, PreprocessorAssumption
      <3>2. QED
        BY <2>2, <3>1
    <2>3. QED
      BY <2>1, <2>2
  <1>2. f.via # "switch" => g.at <= FileLines
    BY LeftIs, PreprocessorAssumption
  <1>3. QED
    BY <1>1, <1>2 DEF Weight

LEMMA LineDoneLowers ==
    ASSUME Inv, Fitting, LineDone
    PROVE  Fitting' /\ Total' < Total
  <1>1. Activations
    BY DEF Inv
  <1>2. PICK n \in Nat \ {0} : n = Len(stack) /\ DOMAIN stack = 1..n /\ n \in 1..n
    BY <1>1, StackLength
  <1>3. /\ Top \in Frames /\ Top = stack[n] /\ stack \in Seq(Frames)
        /\ \A j \in 1..n : stack[j] \in Frames
    BY <1>1, <1>2, TopTyped DEF Activations
  <1>4. PICK g \in Frames :
          /\ stack' = Replaced(g) /\ AtLine
          /\ g.via = Top.via /\ g.at = Top.at + 1 /\ g.body = Rest(Top.body)
    BY DEF LineDone
  <1>5. PICK t : t = stack'
    OBVIOUS
  <1>6. /\ t \in Seq(Frames) /\ Len(t) = n /\ t[n] = g /\ DOMAIN t = 1..n
        /\ \A i \in 1..(n - 1) : t[i] = stack[i]
    <2>1. t = [stack EXCEPT ![n] = g]
      BY <1>2, <1>4, <1>5 DEF Replaced
    <2>2. QED
      BY <1>2, <1>3, <2>1, ExceptSeq
  <1>7. /\ LinesLeft(g) \in Nat /\ Weight(g) < Weight(Top)
        /\ Weight(g) \in Nat /\ Weight(Top) \in Nat
        /\ Top.via # "switch" => g.at <= FileLines
    BY <1>3, <1>4, LessLeft DEF AtLine
  <1>8. Fits(stack) /\ Fits(t)
    <2>1. Fits(stack)
      BY <1>1, FittingFits
    <2>2. \A j \in 1..n : j = n \/ j \in 1..(n - 1)
      OBVIOUS
    <2>3. QED
      BY <1>2, <1>6, <1>7, <2>1, <2>2 DEF Fits
  <1>9. ASSUME NEW j \in 1..n, t[j].via # "switch"
        PROVE  /\ t[j].at <= FileLines
               /\ (j < n /\ t[j + 1].via # "switch") => t[j].at < FileLines
    <2>1. CASE j = n
      BY <1>4, <1>6, <1>7, <1>9, <2>1
    <2>2. CASE j \in 1..(n - 1)
      <3>1. t[j] = stack[j] /\ j + 1 \in 1..n
        BY <1>6, <2>2
      <3>2. t[j + 1].via = stack[j + 1].via
        BY <1>3, <1>4, <1>6, <3>1
      <3>3. QED
        BY <1>2, <1>9, <3>1, <3>2 DEF Fitting
    <2>3. QED
      BY <2>1, <2>2
  <1>10. Fitting'
    BY <1>5, <1>6, <1>9 DEF Fitting
  <1>11. Sums(t)[Len(t)] < Sums(stack)[Len(stack)]
    <2>1. Weight(t[n]) < Weight(stack[n]) /\ Weight(t[n]) <= Weight(stack[n])
      BY <1>3, <1>6, <1>7
    <2>2. n <= Len(stack)
      BY <1>2
    <2>3. QED
      BY <1>3, <1>6, <1>8, <2>1, <2>2, Lowers
  <1>12. QED
    BY <1>5, <1>10, <1>11 DEF Total

\* An activation more.
LEMMA OneMoreFrame ==
    ASSUME NEW s \in Seq(Frames), NEW g \in Frames, Fits(s), LinesLeft(g) \in Nat
    PROVE  LET t == Append(s, g)
           IN  /\ t \in Seq(Frames) /\ Len(t) = Len(s) + 1 /\ t[Len(s) + 1] = g
               /\ \A i \in 1..Len(s) : t[i] = s[i]
               /\ Fits(t) /\ Sums(t)[Len(t)] = Sums(s)[Len(s)] + Weight(g)
               /\ Sums(s)[Len(s)] \in Nat /\ Weight(g) \in Nat
  <1>1. PICK n \in Nat : n = Len(s)
    OBVIOUS
  <1>2. PICK t : t = Append(s, g)
    OBVIOUS
  <1>3. /\ t \in Seq(Frames) /\ Len(t) = n + 1 /\ t[n + 1] = g
        /\ \A i \in 1..n : t[i] = s[i]
    BY <1>1, <1>2, AppendProperties
  <1>4. Fits(t)
    <2>1. \A i \in 1..(n + 1) : i = n + 1 \/ i \in 1..n
      OBVIOUS
    <2>2. QED
      BY <1>1, <1>3, <2>1 DEF Fits
  <1>5. Sums(t)[n] = Sums(s)[n]
    <2>1. n <= Len(s) /\ n <= Len(t) /\ n \in 0..n
      BY <1>1, <1>3
    <2>2. QED
      BY <1>3, <1>4, <2>1, SumsSame
  <1>6. Sums(t)[n + 1] = Sums(t)[n] + Weight(g) /\ Weight(g) \in Nat
    <2>1. PICK e \in 1..Len(t) : e = n + 1 /\ e - 1 = n
      BY <1>3
    <2>2. Sums(t)[e] = Sums(t)[e - 1] + Weight(t[e]) /\ Weight(t[e]) \in Nat
      BY <1>3, <1>4, SumsTyped
    <2>3. QED
      BY <1>3, <2>1, <2>2
  <1>7. Sums(s)[n] \in Nat
    <2>1. n \in 0..Len(s)
      BY <1>1
    <2>2. QED
      BY <2>1, SumsTyped
  <1>8. QED
    BY <1>1, <1>2, <1>3, <1>4, <1>5, <1>6, <1>7

LEMMA EnteredLowers ==
    ASSUME Inv, Fitting, Entered
    PROVE  /\ Fitting' /\ Total' = Total + 2 * FileLines + 1 /\ Total \in Nat
           /\ \E name \in Files \ seen : seen' = seen \union {name}
  <1>1. Activations
    BY DEF Inv
  <1>2. PICK n \in Nat \ {0} : n = Len(stack) /\ DOMAIN stack = 1..n /\ n \in 1..n
    BY <1>1, StackLength
  <1>3. /\ Top \in Frames /\ Top = stack[n] /\ stack \in Seq(Frames)
        /\ \A j \in 1..n : stack[j] \in Frames
    BY <1>1, <1>2, TopTyped DEF Activations
  <1>4. PICK name \in Files \ seen, via \in {"include", "plugin"} :
          /\ seen' = seen \union {name}
          /\ stack' = Append(stack, Frame(name, via, 0, <<>>)) /\ AtLine
    BY DEF Entered
  <1>5. PICK g : g = Frame(name, via, 0, <<>>)
    OBVIOUS
  <1>6. g = FrameOf(name, via, 0, <<>>, Start, FALSE, <<>>)
    <2>1. (via = "main") = FALSE
      OBVIOUS
    <2>2. QED
      BY <1>5, <2>1 DEF Frame, FrameOf
  <1>7. g \in Frames
    <2>1. /\ <<>> \in Seq(Pieces) /\ Start \in InPackages /\ FALSE \in BOOLEAN
          /\ via \in {"main", "include", "plugin", "switch"} /\ 0 \in Nat
          /\ <<>> \in Seq(Lines) /\ name \in Files
      BY DEF InPackages
    <2>2. QED
      BY <1>6, <2>1, FrameTyped, Zenon
  <1>8. g.via # "switch" /\ g.at = 0
    BY <1>6 DEF FrameOf
  <1>9. LinesLeft(g) = FileLines /\ FileLines \in Nat
    <2>1. LinesLeft(g) = FileLines - g.at /\ FileLines \in Nat
      BY <1>7, <1>8, LeftIs, PreprocessorAssumption
    <2>2. QED
      BY <1>8, <2>1
  <1>10. PICK t : t = stack'
    OBVIOUS
  <1>11. t = Append(stack, g)
    BY <1>4, <1>5, <1>10
  <1>12. Fits(stack)
    BY <1>1, FittingFits
  <1>13. /\ t \in Seq(Frames) /\ Len(t) = n + 1 /\ t[n + 1] = g
         /\ \A i \in 1..n : t[i] = stack[i]
         /\ Sums(t)[Len(t)] = Sums(stack)[Len(stack)] + Weight(g)
         /\ Sums(stack)[Len(stack)] \in Nat
    BY <1>2, <1>3, <1>7, <1>9, <1>11, <1>12, OneMoreFrame
  <1>14. ASSUME NEW j \in 1..(n + 1), t[j].via # "switch"
         PROVE  /\ t[j].at <= FileLines
                /\ (j < n + 1 /\ t[j + 1].via # "switch") => t[j].at < FileLines
    <2>1. CASE j = n + 1
      BY <1>8, <1>9, <1>13, <2>1
    <2>2. CASE j = n
      <3>1. Top.at < FileLines /\ Top.at \in Nat /\ FileLines \in Nat /\ t[j] = Top
        <4>1. t[j] = Top
          BY <1>2, <1>3, <1>13, <2>2
        <4>2. QED
          BY <1>3, <1>4, <1>9, <1>14, <4>1, LeftIs DEF AtLine
      <3>2. QED
        BY <3>1
    <2>3. CASE j \in 1..(n - 1)
      <3>1. t[j] = stack[j] /\ t[j + 1] = stack[j + 1] /\ j \in 1..n /\ j < n
        BY <1>13, <2>3
      <3>2. QED
        BY <1>2, <1>14, <3>1 DEF Fitting
    <2>4. QED
      BY <2>1, <2>2, <2>3
  <1>15. Fitting'
    <2>1. DOMAIN t = 1..(n + 1)
      BY <1>13
    <2>2. QED
      BY <1>10, <1>13, <1>14, <2>1 DEF Fitting
  <1>16. Total' = Total + 2 * FileLines + 1 /\ Total \in Nat
    <2>1. Weight(g) = 2 * FileLines + 1
      BY <1>9 DEF Weight
    <2>2. QED
      BY <1>9, <1>10, <1>13, <2>1 DEF Total
  <1>17. QED
    BY <1>4, <1>15, <1>16

LEMMA SelectedLowers ==
    ASSUME Inv, Fitting, Selected
    PROVE  Fitting' /\ Total' < Total
  <1>1. Activations
    BY DEF Inv
  <1>2. PICK n \in Nat \ {0} : n = Len(stack) /\ DOMAIN stack = 1..n /\ n \in 1..n
    BY <1>1, StackLength
  <1>3. /\ Top \in Frames /\ Top = stack[n] /\ stack \in Seq(Frames)
        /\ \A j \in 1..n : stack[j] \in Frames
    BY <1>1, <1>2, TopTyped DEF Activations
  <1>4. PICK lines \in Seq(Lines) :
          /\ Select(lines) /\ AtLine
          /\ IF Top.via = "switch" THEN lines = Tail(Top.body)
             ELSE Top.at + Len(BlockOf(lines)) < FileLines
    BY DEF Selected
  <1>5. PICK after, g : Selection(after, g, lines)
    BY <1>1, <1>4, SelectionIs
  <1>6. PICK blk, rst, bdy, all : /\ blk = Len(BlockOf(lines))
                                  /\ rst = Len(AfterBlock(lines))
                                  /\ bdy = Len(Chosen(BlockOf(lines)))
                                  /\ all = Len(lines)
    OBVIOUS
  <1>7. /\ blk \in Nat /\ rst \in Nat /\ bdy \in Nat /\ all \in Nat
        /\ bdy <= blk /\ blk + rst <= all
    BY <1>6, CaseFits
  <1>8. PICK at : at = Top.at /\ at \in Nat
    BY <1>3 DEF Frames
  <1>9. /\ after \in Frames /\ after.via = Top.via
        /\ after.at = at + blk + 1 /\ Len(after.body) = rst
        /\ g \in Frames /\ g.via = "switch" /\ Len(g.body) = bdy
        /\ stack' = Append(Replaced(after), g)
    BY <1>5, <1>6, <1>8 DEF Selection
  <1>10. /\ LinesLeft(after) \in Nat /\ LinesLeft(Top) \in Nat
         /\ LinesLeft(after) + blk + 1 <= LinesLeft(Top)
         /\ Top.via # "switch" => after.at <= FileLines
    <2>1. CASE Top.via = "switch"
      <3>1. PICK b \in Seq(Lines) : b = Top.body
        BY <1>3 DEF Frames
      <3>2. b # <<>> /\ all = Len(Tail(b))
        BY <1>4, <1>6, <2>1, <3>1 DEF AtLine
      <3>3. Len(Tail(b)) = Len(b) - 1 /\ Len(b) \in Nat
        BY <3>2, HeadTailProperties
      <3>4. LinesLeft(after) = rst /\ LinesLeft(Top) = Len(b)
        BY <1>3, <1>9, <2>1, <3>1, LeftIs
      <3>5. QED
        BY <1>7, <2>1, <3>2, <3>3, <3>4
    <2>2. CASE Top.via # "switch"
      <3>1. /\ LinesLeft(after) = FileLines - after.at
            /\ LinesLeft(Top) = FileLines - at /\ FileLines \in Nat
        BY <1>3, <1>8, <1>9, <2>2, LeftIs, PreprocessorAssumption
      <3>2. at + blk < FileLines
        BY <1>4, <1>6, <1>8, <2>2
      <3>3. PICK k : k = at + blk + 1 /\ k \in Nat /\ k <= FileLines
        BY <1>7, <1>8, <3>1, <3>2
      <3>4. LinesLeft(after) = FileLines - k /\ after.at = k
        BY <1>9, <3>1, <3>3
      <3>5. /\ FileLines - k \in Nat /\ FileLines - at \in Nat
            /\ FileLines - k + blk + 1 <= FileLines - at
        <4>1. \A f, x, y \in Nat : x + y + 1 <= f =>
                /\ f - (x + y + 1) \in Nat /\ f - x \in Nat
                /\ f - (x + y + 1) + y + 1 <= f - x
          OBVIOUS
        <4>2. at \in Nat /\ blk \in Nat /\ FileLines \in Nat
          BY <1>7, <1>8, <3>1
        <4>3. QED
          BY <3>3, <4>1, <4>2
      <3>6. QED
        BY <3>1, <3>3, <3>4, <3>5
    <2>3. QED
      BY <2>1, <2>2
  <1>11. LinesLeft(g) = bdy
    BY <1>9, LeftIs
  <1>12. PICK s : s = Replaced(after)
    OBVIOUS
  <1>13. /\ s \in Seq(Frames) /\ Len(s) = n /\ s[n] = after
         /\ \A i \in 1..(n - 1) : s[i] = stack[i]
    <2>1. s = [stack EXCEPT ![n] = after]
      BY <1>2, <1>12 DEF Replaced
    <2>2. QED
      BY <1>2, <1>3, <1>9, <2>1, ExceptSeq
  <1>14. Fits(stack) /\ Fits(s)
    <2>1. Fits(stack)
      BY <1>1, FittingFits
    <2>2. \A j \in 1..n : j = n \/ j \in 1..(n - 1)
      OBVIOUS
    <2>3. QED
      BY <1>2, <1>10, <1>13, <2>1, <2>2 DEF Fits
  <1>15. PICK t : t = stack'
    OBVIOUS
  <1>16. /\ t \in Seq(Frames) /\ Len(t) = n + 1 /\ t[n + 1] = g
         /\ \A i \in 1..n : t[i] = s[i]
         /\ Sums(t)[Len(t)] = Sums(s)[Len(s)] + Weight(g)
         /\ Sums(s)[Len(s)] \in Nat
    <2>1. t = Append(s, g) /\ LinesLeft(g) \in Nat
      BY <1>7, <1>9, <1>11, <1>12, <1>15
    <2>2. QED
      BY <1>9, <1>13, <1>14, <2>1, OneMoreFrame
  <1>17. Sums(t)[Len(t)] < Sums(stack)[Len(stack)]
    <2>1. PICK k \in Nat : k = n - 1 /\ k \in 0..n /\ k \in 0..k
      OBVIOUS
    <2>2. Sums(s)[k] = Sums(stack)[k]
      <3>1. k <= Len(s) /\ k <= Len(stack) /\ \A i \in 1..k : s[i] = stack[i]
        BY <1>2, <1>13, <2>1
      <3>2. QED
        BY <1>3, <1>13, <1>14, <2>1, <3>1, SumsSame
    <2>3. Sums(s)[n] = Sums(s)[k] + Weight(after)
      <3>1. n \in 1..Len(s)
        BY <1>13
      <3>2. Sums(s)[n] = Sums(s)[n - 1] + Weight(s[n])
        BY <1>13, <1>14, <3>1, SumsTyped
      <3>3. QED
        BY <1>13, <2>1, <3>2
    <2>4. Sums(stack)[n] = Sums(stack)[k] + Weight(Top) /\ Sums(stack)[k] \in Nat
      <3>1. n \in 1..Len(stack) /\ k \in 0..Len(stack)
        BY <1>2, <2>1
      <3>2. Sums(stack)[n] = Sums(stack)[n - 1] + Weight(stack[n])
            /\ Sums(stack)[k] \in Nat
        BY <1>3, <1>14, <3>1, SumsTyped
      <3>3. QED
        BY <1>3, <2>1, <3>2
    <2>5. PICK x, y, z : x = LinesLeft(after) /\ y = LinesLeft(Top) /\ z = Sums(stack)[k]
      OBVIOUS
    <2>6. /\ Weight(after) = 2 * x + 1 /\ Weight(Top) = 2 * y + 1
          /\ Weight(g) = 2 * bdy + 1
          /\ x \in Nat /\ y \in Nat /\ z \in Nat /\ x + blk + 1 <= y
      BY <1>10, <1>11, <2>4, <2>5 DEF Weight
    <2>7. Sums(t)[Len(t)] = z + (2 * x + 1) + (2 * bdy + 1)
      BY <1>13, <1>16, <2>2, <2>3, <2>5, <2>6
    <2>8. Sums(stack)[Len(stack)] = z + (2 * y + 1)
      BY <1>2, <2>4, <2>5, <2>6
    <2>9. QED
      BY <1>7, <2>6, <2>7, <2>8
  <1>18. ASSUME NEW j \in 1..(n + 1), t[j].via # "switch"
         PROVE  /\ t[j].at <= FileLines
                /\ (j < n + 1 /\ t[j + 1].via # "switch") => t[j].at < FileLines
    <2>1. j # n + 1
      BY <1>9, <1>16, <1>18
    <2>2. CASE j = n
      <3>1. t[j] = after /\ t[j + 1].via = "switch"
        BY <1>2, <1>9, <1>13, <1>16, <2>2
      <3>2. QED
        BY <1>9, <1>10, <1>18, <3>1
    <2>3. CASE j \in 1..(n - 1)
      <3>1. t[j] = stack[j] /\ j \in 1..n /\ j < n /\ j + 1 \in 1..n
            /\ t[j + 1] = s[j + 1]
        BY <1>13, <1>16, <2>3
      <3>2. t[j + 1].via = stack[j + 1].via
        <4>1. j + 1 = n \/ j + 1 \in 1..(n - 1)
          BY <2>3
        <4>2. QED
          BY <1>3, <1>9, <1>13, <3>1, <4>1
      <3>3. QED
        BY <1>2, <1>18, <3>1, <3>2 DEF Fitting
    <2>4. QED
      BY <2>1, <2>2, <2>3
  <1>19. Fitting'
    <2>1. DOMAIN t = 1..(n + 1)
      BY <1>16
    <2>2. QED
      BY <1>15, <1>16, <1>18, <2>1 DEF Fitting
  <1>20. QED
    BY <1>15, <1>17, <1>19 DEF Total

\* Activations that are gone, with the one they were for at or behind the line
\* they came from.
LEMMA FewerLower ==
    ASSUME Activations, Fitting, NEW m \in Nat \ {0}, m < Len(stack),
           NEW t, t = stack', t \in Seq(Frames), Len(t) = m,
           \A i \in 1..(m - 1) : t[i] = stack[i],
           t[m].via = stack[m].via,
           \/ stack[m + 1].via = "switch"
              /\ t[m].at = stack[m].at /\ t[m].body = stack[m].body
           \/ stack[m + 1].via # "switch"
              /\ t[m].at = stack[m].at + 1 /\ t[m].body = Rest(stack[m].body)
    PROVE  Fitting' /\ Total' < Total
  <1>1. PICK n \in Nat \ {0} : n = Len(stack) /\ DOMAIN stack = 1..n /\ n \in 1..n
    BY StackLength
  <1>2. stack \in Seq(Frames) /\ m \in 1..n /\ stack[m] \in Frames
    BY <1>1 DEF Activations
  <1>3. PICK g \in Frames : g = t[m]
    BY ElementOfSeq
  <1>4. PICK f \in Frames : f = stack[m]
    BY <1>2
  <1>5. f.via # "switch" => f.at <= FileLines
                           /\ (stack[m + 1].via # "switch" => f.at < FileLines)
    BY <1>1, <1>2, <1>4 DEF Fitting
  <1>6. /\ LinesLeft(g) \in Nat /\ LinesLeft(g) <= LinesLeft(f)
        /\ LinesLeft(f) \in Nat
        /\ g.via # "switch" => g.at <= FileLines
    <2>1. CASE g.at = f.at /\ g.body = f.body
      <3>1. LinesLeft(f) \in Nat /\ LinesLeft(g) = LinesLeft(f)
        BY <1>3, <1>4, <1>5, <2>1, LeftIs DEF LinesLeft
      <3>2. QED
        BY <1>3, <1>4, <1>5, <2>1, <3>1
    <2>2. CASE stack[m + 1].via # "switch" /\ g.at = f.at + 1 /\ g.body = Rest(f.body)
      <3>1. CASE f.via = "switch"
        <4>1. /\ Len(g.body) = Len(f.body) - 1 \/ Len(g.body) = 0
              /\ Len(g.body) \in Nat /\ Len(f.body) \in Nat
          BY <2>2, LeftIs, RestTyped
        <4>2. LinesLeft(f) = Len(f.body) /\ LinesLeft(g) = Len(g.body)
          BY <1>3, <1>4, <3>1, LeftIs
        <4>3. QED
          BY <1>3, <1>4, <3>1, <4>1, <4>2
      <3>2. CASE f.via # "switch"
        <4>1. f.at < FileLines
          BY <1>5, <2>2, <3>2
        <4>2. /\ LinesLeft(f) = FileLines - f.at /\ LinesLeft(g) = FileLines - g.at
              /\ f.at \in Nat /\ FileLines \in Nat
          BY <1>3, <1>4, <3>2, LeftIs, PreprocessorAssumption
        <4>3. QED
          BY <2>2, <4>1, <4>2
      <3>3. QED
        BY <3>1, <3>2
    <2>3. QED
      BY <1>3, <1>4, <2>1, <2>2
  <1>7. Weight(g) <= Weight(f)
    BY <1>6 DEF Weight
  <1>8. Fits(stack)
    BY FittingFits
  <1>9. Fits(t)
    <2>1. \A j \in 1..m : j = m \/ j \in 1..(m - 1)
      OBVIOUS
    <2>2. \A j \in 1..(m - 1) : j \in 1..n
      BY <1>2
    <2>3. QED
      BY <1>1, <1>3, <1>6, <1>8, <2>1, <2>2 DEF Fits
  <1>10. Sums(t)[Len(t)] < Sums(stack)[Len(stack)]
    <2>1. m <= Len(stack) /\ Weight(t[m]) <= Weight(stack[m])
      BY <1>1, <1>2, <1>3, <1>4, <1>7
    <2>2. QED
      BY <1>2, <1>8, <1>9, <2>1, Lowers
  <1>11. ASSUME NEW j \in 1..m, t[j].via # "switch"
         PROVE  /\ t[j].at <= FileLines
                /\ (j < m /\ t[j + 1].via # "switch") => t[j].at < FileLines
    <2>1. CASE j = m
      BY <1>3, <1>6, <1>11, <2>1
    <2>2. CASE j \in 1..(m - 1)
      <3>1. t[j] = stack[j] /\ j + 1 \in 1..m /\ j \in 1..n /\ j < n
        BY <1>2, <2>2
      <3>2. t[j + 1].via = stack[j + 1].via
        <4>1. j + 1 = m \/ j + 1 \in 1..(m - 1)
          BY <2>2
        <4>2. QED
          BY <4>1
      <3>3. QED
        BY <1>1, <1>11, <3>1, <3>2 DEF Fitting
    <2>3. QED
      BY <2>1, <2>2
  <1>12. Fitting'
    <2>1. DOMAIN t = 1..m
      OBVIOUS
    <2>2. QED
      BY <1>11, <2>1 DEF Fitting
  <1>13. QED
    BY <1>10, <1>12 DEF Total

LEMMA ReturnedLowers ==
    ASSUME Inv, Fitting, Returned
    PROVE  Fitting' /\ Total' < Total
  <1>1. Activations
    BY DEF Inv
  <1>2. PICK n \in Nat \ {0} : n = Len(stack) /\ DOMAIN stack = 1..n /\ n \in 1..n
    BY <1>1, StackLength
  <1>3. stack \in Seq(Frames)
    BY <1>1 DEF Activations
  <1>4. PICK m : /\ m = n - 1 /\ m \in Nat \ {0} /\ m \in 1..n /\ n = m + 1
    BY <1>2 DEF Returned
  <1>5. Caller = stack[m] /\ Top = stack[m + 1]
    BY <1>2, <1>4 DEF Caller, Top
  <1>6. PICK g \in Frames :
          /\ stack' = [SubSeq(stack, 1, m) EXCEPT ![m] = g]
          /\ g.via = stack[m].via
          /\ IF stack[m + 1].via = "switch"
             THEN g.at = stack[m].at /\ g.body = stack[m].body
             ELSE g.at = stack[m].at + 1 /\ g.body = Rest(stack[m].body)
    BY <1>2, <1>4, <1>5 DEF Returned
  <1>7. PICK u : u = SubSeq(stack, 1, m)
    OBVIOUS
  <1>8. u \in Seq(Frames) /\ Len(u) = m /\ \A i \in 1..m : u[i] = stack[i]
    BY <1>2, <1>3, <1>4, <1>7, CutFrames
  <1>9. PICK t : t = stack'
    OBVIOUS
  <1>10. /\ t \in Seq(Frames) /\ Len(t) = m /\ t[m] = g
         /\ \A i \in 1..(m - 1) : t[i] = stack[i]
    <2>1. t = [u EXCEPT ![m] = g] /\ m \in 1..Len(u)
      BY <1>4, <1>6, <1>7, <1>8, <1>9
    <2>2. \A i \in 1..(m - 1) : i \in 1..m /\ i # m
      BY <1>4
    <2>3. QED
      BY <1>8, <2>1, <2>2, ExceptSeq
  <1>11. m < Len(stack)
    BY <1>2, <1>4
  <1>12. QED
    BY <1>1, <1>4, <1>6, <1>9, <1>10, <1>11, FewerLower

LEMMA FailedLowers ==
    ASSUME Inv, Fitting, Failed
    PROVE  Fitting' /\ Total' < Total
  <1>1. Activations
    BY DEF Inv
  <1>2. PICK n \in Nat \ {0} : n = Len(stack) /\ DOMAIN stack = 1..n /\ n \in 1..n
    BY <1>1, StackLength
  <1>3. PICK m, t, g : Remains(m, t, g)
    BY <1>1, FailedLeaves
  <1>4. /\ t = stack' /\ m \in 1..(n - 1) /\ stack[m + 1].via = "plugin"
        /\ g.via = stack[m].via
        /\ g.at = stack[m].at + 1 /\ g.body = Rest(stack[m].body)
        /\ t \in Seq(Frames) /\ Len(t) = m /\ t[m] = g
        /\ \A i \in 1..(m - 1) : t[i] = stack[i]
    BY <1>2, <1>3 DEF Remains
  <1>5. m \in Nat \ {0} /\ m < Len(stack)
    BY <1>2, <1>4
  <1>6. stack[m + 1].via # "switch"
    BY <1>4
  <1>7. QED
    BY <1>1, <1>4, <1>5, <1>6, FewerLower

\* Every step keeps the invariant.
LEMMA StepKeeps ==
    ASSUME Typed, Inv, [Next]_vars
    PROVE  Inv'
  <1>1. CASE UNCHANGED <<stack, seen>>
    <2>1. Written' = Written
      BY <1>1 DEF Written
    <2>2. /\ Activations' = Activations /\ Nested' = Nested
          /\ Waiting' = Waiting /\ Sure' = Sure
      BY <1>1 DEF Activations, Nested, Waiting, Sure
    <2>3. /\ Behind(Written)' = Behind(Written) /\ Once(Written)' = Once(Written)
          /\ Kept(Written)' = Kept(Written)
      BY <1>1, <2>1 DEF Behind
    <2>4. QED
      BY <2>2, <2>3 DEF Inv
  <1>2. QED
    BY <1>1, StepShape, LineDoneKeeps, EnteredKeeps, SelectedKeeps, ReturnedKeeps,
       FailedKeeps DEF Inv, Typed

\* Files that were not read, and one less.
LEMMA OneFileLess ==
    ASSUME NEW name \in Files \ seen, seen' = seen \union {name}
    PROVE  /\ Cardinality(Files \ seen) \in Nat
           /\ Cardinality(Files \ seen') \in Nat
           /\ (2 * FileLines + 2) * Cardinality(Files \ seen) =
                 (2 * FileLines + 2) * Cardinality(Files \ seen')
                     + (2 * FileLines + 2)
  <1>1. PICK S : S = Files \ seen /\ IsFiniteSet(S) /\ name \in S
    BY FS_Subset, PreprocessorAssumption
  <1>2. Files \ seen' = S \ {name}
    BY <1>1
  <1>3. /\ Cardinality(S \ {name}) = Cardinality(S) - 1
        /\ Cardinality(S) \in Nat
    BY <1>1, FS_RemoveElement, FS_CardinalityType
  <1>4. IsFiniteSet(S \ {name})
    BY <1>1, FS_Subset
  <1>5. Cardinality(S \ {name}) \in Nat
    BY <1>4, FS_CardinalityType
  <1>6. PICK k \in Nat : k = 2 * FileLines + 2
    BY PreprocessorAssumption
  <1>7. \A i, j \in Nat : j = i - 1 => k * i = k * j + k
    OBVIOUS
  <1>8. PICK i \in Nat, j \in Nat :
           /\ i = Cardinality(Files \ seen)
           /\ j = Cardinality(Files \ seen')
           /\ j = i - 1
    BY <1>1, <1>2, <1>3, <1>5
  <1>9. k * i = k * j + k
    BY <1>7, <1>8
  <1>10. QED
    BY <1>6, <1>8, <1>9

LEMMA StepLowers ==
    ASSUME Typed, Inv, Fitting, [Next]_vars
    PROVE  Fitting' /\ (UNCHANGED vars \/ Remaining' < Remaining)
  <1>1. Activations
    BY DEF Inv
  <1>2. PICK n \in Nat \ {0} : n = Len(stack) /\ n \in 0..Len(stack)
    BY <1>1, StackLength
  <1>3. Total \in Nat
    <2>1. Fits(stack) /\ stack \in Seq(Frames)
      BY <1>1, FittingFits DEF Activations
    <2>2. QED
      BY <1>2, <2>1, SumsTyped DEF Total
  <1>4. PICK c \in Nat : c = (2 * FileLines + 2) * Cardinality(Files \ seen)
    <2>1. IsFiniteSet(Files \ seen)
      BY FS_Subset, PreprocessorAssumption
    <2>2. Cardinality(Files \ seen) \in Nat
      BY <2>1, FS_CardinalityType
    <2>3. PICK k \in Nat : k = 2 * FileLines + 2
      BY PreprocessorAssumption
    <2>4. \A i \in Nat : k * i \in Nat
      OBVIOUS
    <2>5. QED
      BY <2>2, <2>3, <2>4
  <1>5. Next => status = "running"
    <2>1. \A line : Reads(line) => status = "running"
      BY Zenon DEF Reads
    <2>2. AtEnd => status = "running"
      BY DEF AtEnd
    <2>3. QED
      BY <2>1, <2>2, Zenon
         DEF Next, ReadText, ReadPackage, ReadNotedPackage, ReadCommentedPackage,
             ReadMacro, ReadStray, ReadInclude, ReadPlugin, ReadMissingPlugin,
             ReadMissingInclude, ReadPlugswitch, ReadNestedPlugswitch, EndInclude,
             EndPlugin, EndPlugswitch, EndMain
  <1>6. ASSUME NEW b, NEW d, NEW e,
               b = (IF status = "running" THEN 1 ELSE 0),
               d = (IF status' = "running" THEN 1 ELSE 0),
               e = (2 * FileLines + 2) * Cardinality(Files \ seen')
        PROVE  Remaining = Total + c + b /\ Remaining' = Total' + e + d
    BY <1>4, <1>6 DEF Remaining, Total
  <1>7. PICK b \in {0, 1} : b = (IF status = "running" THEN 1 ELSE 0)
    OBVIOUS
  <1>8. PICK d \in {0, 1} : d = (IF status' = "running" THEN 1 ELSE 0)
    OBVIOUS
  <1>9. PICK e : e = (2 * FileLines + 2) * Cardinality(Files \ seen')
    OBVIOUS
  <1>10. Remaining = Total + c + b /\ Remaining' = Total' + e + d
    BY <1>6, <1>7, <1>8, <1>9
  <1>11. Next => b = 1
    BY <1>5, <1>7
  <1>12. seen' = seen => e = c
    BY <1>4, <1>9
  <1>13. ASSUME seen' = seen, Total' < Total, Total' \in Int, Next
         PROVE  Remaining' < Remaining
    <2>1. \A x, y, z \in Int, f \in {0, 1} : y < x => y + z + f < x + z + 1
      OBVIOUS
    <2>2. Total + c + 1 = Remaining /\ Total' + c + d = Remaining'
      BY <1>10, <1>11, <1>12, <1>13
    <2>3. Total \in Int /\ c \in Int /\ d \in {0, 1}
      BY <1>3, <1>4, <1>8
    <2>4. Total' + c + d < Total + c + 1
      BY <1>13, <2>1, <2>3
    <2>5. QED
      BY <2>2, <2>4
  <1>14. CASE UNCHANGED <<stack, seen>> /\ (status' # "running" \/ UNCHANGED vars)
    <2>1. Fitting'
      BY <1>14 DEF Fitting
    <2>2. CASE status' # "running" /\ ~UNCHANGED vars
      <3>1. Total' = Total
        BY <1>14 DEF Total
      <3>2. Next
        BY <2>2
      <3>3. e = c /\ d = 0 /\ b = 1
        BY <1>8, <1>11, <1>12, <1>14, <2>2, <3>2
      <3>4. \A x, z \in Int : x + z + 0 < x + z + 1
        OBVIOUS
      <3>5. Remaining = Total + c + 1 /\ Remaining' = Total + c + 0
        BY <1>10, <3>1, <3>3
      <3>6. Total + c + 0 < Total + c + 1
        BY <1>3, <1>4, <3>4
      <3>7. QED
        BY <2>1, <3>5, <3>6
    <2>3. QED
      BY <1>14, <2>1, <2>2
  <1>15. ASSUME Fitting', Total' < Total, seen' = seen, Inv'
         PROVE  Fitting' /\ (UNCHANGED vars \/ Remaining' < Remaining)
    <2>1. Activations'
      BY <1>15 DEF Inv
    <2>2. Total' \in Nat
      <3>1. PICK s : s = stack'
        OBVIOUS
      <3>2. s \in Seq(Frames) /\ s # <<>>
        BY <2>1, <3>1 DEF Activations
      <3>3. Fits(s)
        <4>1. \A j \in 1..Len(s) : s[j] \in Frames
          BY <3>2
        <4>2. \A j \in 1..Len(s) : s[j].via # "switch" => s[j].at <= FileLines
          BY <1>15, <3>1, <3>2 DEF Fitting
        <4>3. QED
          BY <4>1, <4>2, LeftIs DEF Fits
      <3>4. Len(s) \in 0..Len(s)
        BY <3>2
      <3>5. QED
        BY <3>1, <3>2, <3>3, <3>4, SumsTyped DEF Total
    <2>3. QED
      BY <1>13, <1>15, <2>2
  <1>16. CASE Entered
    <2>1. /\ Fitting' /\ Total' = Total + 2 * FileLines + 1
          /\ \E name \in Files \ seen : seen' = seen \union {name}
      BY <1>16, EnteredLowers
    <2>2. c = e + (2 * FileLines + 2) /\ e \in Int
      <3>1. PICK name \in Files \ seen : seen' = seen \union {name}
        BY <2>1
      <3>2. c = e + (2 * FileLines + 2)
        BY <1>4, <1>9, <3>1, OneFileLess
      <3>3. Cardinality(Files \ seen') \in Nat
        BY <3>1, OneFileLess
      <3>4. PICK k \in Nat : k = 2 * FileLines + 2
        BY PreprocessorAssumption
      <3>5. \A i \in Nat : k * i \in Nat
        OBVIOUS
      <3>6. e \in Nat
        BY <1>9, <3>3, <3>4, <3>5
      <3>7. QED
        BY <3>2, <3>6
    <2>3. Next \/ UNCHANGED vars
      OBVIOUS
    <2>4. ASSUME Next PROVE Remaining' < Remaining
      <3>1. b = 1 /\ FileLines \in Nat
        BY <1>11, <2>4, PreprocessorAssumption
      <3>2. PICK k \in Nat : k = 2 * FileLines
        BY <3>1
      <3>3. /\ Remaining = Total + (e + (k + 2)) + 1
            /\ Remaining' = Total + k + 1 + e + d
        BY <1>10, <2>1, <2>2, <3>1, <3>2
      <3>4. QED
        BY <1>3, <2>2, <3>3
    <2>5. QED
      BY <2>1, <2>3, <2>4
  <1>17. CASE LineDone
    BY <1>15, <1>17, LineDoneLowers, LineDoneKeeps DEF LineDone
  <1>18. CASE Selected
    BY <1>15, <1>18, SelectedLowers, SelectedKeeps DEF Selected
  <1>19. CASE Returned
    BY <1>15, <1>19, ReturnedLowers, ReturnedKeeps DEF Returned
  <1>20. CASE Failed
    BY <1>15, <1>20, FailedLowers, FailedKeeps DEF Failed
  <1>21. QED
    BY <1>1, <1>14, <1>16, <1>17, <1>18, <1>19, <1>20, StepShape DEF Typed

\* The rest of the types.
LEMMA OthersTyped ==
    ASSUME Typed, [Next]_vars
    PROVE  /\ macros' \in [Macros -> Values]
           /\ status' \in {"running", "done", "error"}
           /\ left' \in 0..MaxLines
  <1>1. /\ macros \in [Macros -> Values] /\ left \in 0..MaxLines /\ MaxLines \in Nat
        /\ status \in {"running", "done", "error"}
    BY PreprocessorAssumption DEF Typed
  <1>2. ASSUME NEW line, Reads(line) PROVE left' \in 0..MaxLines
    BY <1>1, <1>2 DEF Reads
  <1>3. ASSUME NEW m \in Macros, NEW v \in Values, ReadMacro(m, v)
        PROVE  macros' \in [Macros -> Values]
    BY <1>1, <1>3 DEF ReadMacro
  <1> DEFINE Good == /\ macros' \in [Macros -> Values]
                     /\ status' \in {"running", "done", "error"}
                     /\ left' \in 0..MaxLines
  <1>4. ASSUME ReadText PROVE Good
    <2>1. (\E line : Reads(line)) /\ macros' = macros /\ status' = status
      BY <1>4, Zenon DEF ReadText
    <2>2. QED
      BY <1>1, <1>2, <2>1
  <1>5. ASSUME NEW p \in Packages,
               ReadPackage(p) \/ ReadNotedPackage(p) \/ ReadCommentedPackage(p)
        PROVE  Good
    BY <1>1, <1>2, <1>5
       DEF ReadPackage, ReadNotedPackage, ReadCommentedPackage
  <1>6. ASSUME NEW m \in Macros, NEW v \in Values, ReadMacro(m, v) PROVE Good
    BY <1>1, <1>2, <1>3, <1>6 DEF ReadMacro
  <1>7. ASSUME ReadStray(Line("end", "")) PROVE Good
    <2>1. (\E line : Reads(line)) /\ macros' = macros /\ status' = status
      BY <1>7, Zenon DEF ReadStray
    <2>2. QED
      BY <1>1, <1>2, <2>1
  <1>8. ASSUME NEW name \in Includable, ReadInclude(name) PROVE Good
    BY <1>1, <1>2, <1>8 DEF ReadInclude
  <1>9. ASSUME NEW name \in Names, ReadPlugin(name) PROVE Good
    BY <1>1, <1>2, <1>9 DEF ReadPlugin
  <1>10. ASSUME ReadMissingPlugin PROVE Good
    BY <1>1, <1>2, <1>10 DEF ReadMissingPlugin
  <1>11. ASSUME ReadMissingInclude PROVE Good
    BY <1>1, <1>2, <1>11 DEF ReadMissingInclude
  <1>12. ASSUME NEW block \in Blocks, ReadPlugswitch(block) PROVE Good
    <2>1. (\E line : Reads(line)) /\ macros' = macros /\ status' = status
      BY <1>12, Zenon DEF ReadPlugswitch
    <2>2. QED
      BY <1>1, <1>2, <2>1
  <1>13. ASSUME ReadNestedPlugswitch PROVE Good
    <2>1. (\E line : Reads(line)) /\ macros' = macros /\ status' = status
      BY <1>13, Zenon DEF ReadNestedPlugswitch
    <2>2. QED
      BY <1>1, <1>2, <2>1
  <1>14. ASSUME EndInclude \/ EndPlugin \/ EndPlugswitch \/ EndMain PROVE Good
    BY <1>1, <1>14 DEF EndInclude, EndPlugin, EndPlugswitch, EndMain
  <1>15. ASSUME UNCHANGED vars PROVE Good
    BY <1>1, <1>15 DEF vars
  <1> HIDE DEF Good
  <1>16. Good
    <2>1. ASSUME Next PROVE Good
      BY <1>4, <1>5, <1>6, <1>7, <1>8, <1>9, <1>10, <1>11, <1>12, <1>13, <1>14, <2>1,
         PreprocessorAssumption, Zenon DEF Next
    <2>2. QED
      BY <1>15, <2>1
  <1>17. QED
    BY <1>16 DEF Good

LEMMA InitKeeps ==
    ASSUME Init
    PROVE  IInv
  <1>1. PICK g : g = Frame(Main, "main", 0, <<>>)
    OBVIOUS
  <1>2. g = FrameOf(Main, "main", 0, <<>>, Start, TRUE, <<>>)
    <2>1. ("main" = "main") = TRUE
      OBVIOUS
    <2>2. QED
      BY <1>1, <2>1 DEF Frame, FrameOf
  <1>3. g \in Frames
    <2>1. /\ <<>> \in Seq(Lines) /\ <<>> \in Seq(Pieces) /\ Start \in InPackages
          /\ 0 \in Nat /\ TRUE \in BOOLEAN /\ Main \in Files
          /\ "main" \in {"main", "include", "plugin", "switch"}
      BY PreprocessorAssumption DEF InPackages
    <2>2. QED
      BY <1>2, <2>1, FrameTyped, Zenon
  <1>4. /\ g.file = Main /\ g.via = "main" /\ g.package = Start /\ g.out = <<>>
    BY <1>2 DEF FrameOf
  <1>5. /\ stack \in Seq(Frames) /\ Len(stack) = 1 /\ stack[1] = g
        /\ DOMAIN stack = 1..1 /\ stack # <<>>
    BY <1>1, <1>3 DEF Init
  <1>6. \A j \in 1..1 : j = 1 /\ 1..(j - 1) = {}
    OBVIOUS
  <1>7. Main \in Files /\ MaxLines \in Nat /\ seen = {Main}
    BY PreprocessorAssumption DEF Init
  <1>8. Activations
    BY <1>4, <1>5, <1>6, <1>7 DEF Activations
  <1>9. Outs(stack)[1] = <<>>
    <2>1. PICK e \in 1..Len(stack) : e = 1 /\ e - 1 = 0
      BY <1>5
    <2>2. Outs(stack)[e] = Outs(stack)[e - 1] \o stack[e].out /\ Outs(stack)[0] = <<>>
      BY <1>5, OutsTyped
    <2>3. <<>> \o <<>> = <<>>
      BY PiecesTyped, ConcatEmptySeq
    <2>4. QED
      BY <1>4, <1>5, <2>1, <2>2, <2>3
  <1>10. Written = <<>>
    BY <1>5, <1>9 DEF Written
  <1>11. Typed
    BY <1>7, <1>8 DEF Typed, Init
  <1>12. Nested /\ Waiting
    BY <1>5, <1>6 DEF Nested, Waiting
  <1>13. PackageAfter(<<>>) = Start
    <2>1. Len(<<>>) + 1 = 1 /\ 1..(1 - 1) = {}
      OBVIOUS
    <2>2. PackageLines(<<>>, 1) = {}
      BY <2>1 DEF PackageLines
    <2>3. QED
      BY <2>1, <2>2, PackageAtIs DEF PackageAfter
  <1>14. Sure
    BY <1>4, <1>5, <1>6, <1>9, <1>13 DEF Sure
  <1>15. Behind(Written) /\ Once(Written) /\ Kept(Written)
    BY <1>10 DEF Behind, Once, Kept
  <1>16. QED
    BY <1>8, <1>11, <1>12, <1>14, <1>15 DEF IInv, Inv

-----------------------------------------------------------------------------
(* Theorems. *)

\* The inductive invariant holds in every state.
LEMMA Invariant == Spec => []IInv
  <1>1. Init => IInv
    BY InitKeeps
  <1>2. IInv /\ [Next]_vars => IInv'
    BY StepKeeps, OthersTyped DEF IInv, Typed, Inv
  <1>3. QED
    BY <1>1, <1>2, PTL DEF Spec

\* Every variable has its type, and the innermost activation of a run is the
\* last of a chain of includes, Plugins and Plugswitches from the file being
\* compiled (process, process_text).
THEOREM TypesHold == Spec => []TypeOK
  <1>1. IInv => TypeOK
    <2>1. SUFFICES ASSUME IInv PROVE TypeOK
      OBVIOUS
    <2>2. /\ seen \subseteq Files /\ stack # <<>> /\ Typed /\ Activations
      BY <2>1 DEF IInv, Typed, Activations
    <2>3. 1 \in DOMAIN stack /\ DOMAIN stack \subseteq Nat
      BY <2>2, StackLength
    <2>4. stack[1].via = "main"
      BY <2>2, <2>3 DEF Activations
    <2>5. ASSUME NEW j \in DOMAIN stack
          PROVE  /\ stack[j].file \in seen
                 /\ stack[j].package \in Packages \union {Start}
                 /\ j > 1 => stack[j].via \in {"include", "plugin", "switch"}
      <3>1. /\ stack[j].package \in InPackages
            /\ stack[j].via \in {"main", "include", "plugin", "switch"}
        <4>1. stack[j] \in Frames
          BY <2>2, TopTyped
        <4>2. QED
          BY <4>1 DEF Frames
      <3>2. stack[j].file \in seen /\ (stack[j].via = "main" <=> j = 1)
        BY <2>2 DEF Activations
      <3>3. QED
        BY <3>1, <3>2 DEF InPackages
    <2>6. QED
      BY <2>2, <2>4, <2>5 DEF TypeOK, Typed
  <1>2. QED
    BY <1>1, Invariant, PTL

\* Plugins do not retag the text that follows them: however files plug in,
\* include and switch, text copied while only Plugins came since its
\* activation's last Package line is in that package, if that line stood
\* alone on its line and no macro changed its name (process_text,
\* assign_packages).
THEOREM PackagesKept == Spec => []OwnPackage
  <1>1. IInv => OwnPackage
    BY DEF IInv, Inv, Kept, OwnPackage
  <1>2. QED
    BY <1>1, Invariant, PTL

\* Include once: no line of any file comes twice in the output, whatever the
\* files and however they include each other (process's seen).
THEOREM IncludedOnce == Spec => []AtMostOnce
  <1>1. IInv => AtMostOnce
    BY DEF IInv, Inv, Once, AtMostOnce
  <1>2. QED
    BY <1>1, Invariant, PTL

\* Every step leaves less to be done, so a run over files of any bounded
\* length ends, however they plug in and include each other: a file is entered
\* once, and a Plugswitch's lines are passed before its case is processed
\* (process's seen, process_text).
THEOREM RunsOutAlways == Spec => RunsOut
  <1>1. Init => Fitting
    <2>1. SUFFICES ASSUME Init PROVE Fitting
      OBVIOUS
    <2>2. PICK g : g = Frame(Main, "main", 0, <<>>)
      OBVIOUS
    <2>3. stack = <<g>> /\ g.at = 0
      BY <2>1, <2>2 DEF Init, Frame
    <2>4. DOMAIN stack = 1..1 /\ Len(stack) = 1 /\ stack[1] = g
      BY <2>3
    <2>5. \A j \in 1..1 : j = 1 /\ ~(j < 1)
      OBVIOUS
    <2>6. QED
      BY <2>3, <2>4, <2>5, PreprocessorAssumption DEF Fitting
  <1>2. IInv /\ Fitting /\ [Next]_vars => Fitting' /\ [Remaining' < Remaining]_vars
    BY StepLowers DEF IInv
  <1>3. QED
    BY <1>1, <1>2, Invariant, PTL DEF Spec, RunsOut

LEMMA TextsStart ==
    ASSUME NEW w \in Seq(Pieces), NEW v \in Seq(Pieces), Starts(w, v)
    PROVE  TextIn(v) \subseteq TextIn(w)
  <1>1. \A k \in DOMAIN v : k \in DOMAIN w /\ w[k] = v[k]
    BY DEF Starts
  <1>2. ToSet(v) \subseteq ToSet(w)
    BY <1>1 DEF ToSet
  <1>3. QED
    BY <1>2 DEF TextIn

LEMMA TextsAfter ==
    ASSUME NEW w \in Seq(Pieces), NEW v \in Seq(Pieces)
    PROVE  TextIn(v) \subseteq TextIn(w \o v)
  <1>1. PICK u : u = w \o v
    OBVIOUS
  <1>2. PICK a \in Nat, b \in Nat : a = Len(w) /\ b = Len(v)
    OBVIOUS
  <1>3. u \in Seq(Pieces) /\ Len(u) = a + b
    BY <1>1, <1>2, ConcatProperties
  <1>4. \A k \in 1..b : k + a \in DOMAIN u /\ u[k + a] = v[k]
    <2>1. \A i \in 1..(a + b) : u[i] = IF i <= a THEN w[i] ELSE v[i - a]
      BY <1>1, <1>2, ConcatProperties
    <2>2. \A k \in 1..b : k + a \in 1..(a + b) /\ ~(k + a <= a) /\ k + a - a = k
      BY <1>2
    <2>3. DOMAIN u = 1..(a + b)
      BY <1>3
    <2>4. QED
      BY <2>1, <2>2, <2>3
  <1>5. DOMAIN v = 1..b
    BY <1>2
  <1>6. ToSet(v) \subseteq ToSet(u)
    BY <1>4, <1>5 DEF ToSet
  <1>7. QED
    BY <1>1, <1>6 DEF TextIn

\* Of the text only what the failing Plugin wrote is lost.
LEMMA StepLoses ==
    ASSUME Typed, Inv, [Next]_vars, NEW l \in TextLines \ TextLines'
    PROVE  WrittenForFailed(l)
  <1>1. Activations /\ Written \in Seq(Pieces)
    BY WrittenIs DEF Inv
  <1>2. ASSUME Starts(Written', Written), Inv' PROVE FALSE
    <2>1. Written' \in Seq(Pieces)
      <3>1. Activations'
        BY <1>2 DEF Inv
      <3>2. QED
        BY <3>1, WrittenTyped
    <2>2. TextIn(Written) \subseteq TextIn(Written')
      BY <1>1, <1>2, <2>1, TextsStart
    <2>3. QED
      BY <2>2 DEF TextLines
  <1>3. CASE UNCHANGED <<stack, seen>>
    <2>1. Written' = Written
      BY <1>3 DEF Written
    <2>2. QED
      BY <2>1 DEF TextLines
  <1>4. CASE Failed
    <2>1. PICK m, t, g : Remains(m, t, g)
      BY <1>1, <1>4, FailedLeaves
    <2>2. PICK n \in Nat \ {0} : n = Len(stack) /\ DOMAIN stack = 1..n /\ n \in 1..n
      BY <1>1, StackLength
    <2>3. /\ t = stack' /\ m \in 1..(n - 1) /\ Len(t) = m
          /\ m + 1 \in PluginFrames /\ \A i \in PluginFrames : i <= m + 1
          /\ \A i \in 0..m : Outs(t)[i] = Outs(stack)[i]
      BY <2>1, <2>2 DEF Remains
    <2>4. m \in Nat /\ m \in 0..m /\ m \in 1..n /\ stack \in Seq(Frames)
      BY <1>1, <2>2, <2>3 DEF Activations
    <2>5. Written' = Outs(stack)[m]
      BY <2>3, <2>4 DEF Written
    <2>6. ASSUME NEW k \in 1..m PROVE l \notin TextIn(stack[k].out)
      <3>1. k \in 1..n /\ k \in 0..n /\ m \in k..n
        BY <2>3, <2>4
      <3>2. PICK a \in Seq(Pieces), b \in Seq(Pieces), c \in Seq(Pieces) :
              /\ a = Outs(stack)[k - 1] /\ b = stack[k].out /\ c = Outs(stack)[k]
              /\ c = a \o b
        <4>1. k \in 1..Len(stack)
          BY <2>2, <3>1
        <4>2. /\ stack[k].out \in Seq(Pieces) /\ Outs(stack)[k - 1] \in Seq(Pieces)
              /\ Outs(stack)[k] \in Seq(Pieces)
              /\ Outs(stack)[k] = Outs(stack)[k - 1] \o stack[k].out
          BY <2>4, <4>1, OutsOne
        <4>3. QED
          BY <4>2
      <3>3. TextIn(b) \subseteq TextIn(c)
        BY <3>2, TextsAfter
      <3>4. PICK d \in Seq(Pieces) : d = Outs(stack)[m]
        BY <1>1, <2>2, <2>4, WrittenIs
      <3>5. Starts(d, c)
        BY <2>2, <2>4, <3>1, <3>2, <3>4, OutsStart
      <3>6. TextIn(c) \subseteq TextIn(d)
        BY <3>5, TextsStart
      <3>7. l \notin TextIn(d)
        BY <2>5, <3>4 DEF TextLines
      <3>8. QED
        BY <3>2, <3>3, <3>6, <3>7
    <2>7. PICK j : j = m + 1 /\ 1..(j - 1) = 1..m
      BY <2>4
    <2>8. ReadMissingInclude
      BY <1>4 DEF Failed
    <2>9. QED
      BY <2>3, <2>6, <2>7, <2>8 DEF WrittenForFailed
  <1>5. QED
    BY <1>1, <1>2, <1>3, <1>4, StepShape, LineDoneKeeps, EnteredKeeps, SelectedKeeps,
       ReturnedKeeps DEF Typed

\* A Plugin that misses a file takes back what it and the files under it
\* wrote, and nothing else is ever taken back (process_text's handler of
\* FileNotFoundError).
THEOREM OnlyFailedDropped == Spec => OnlyFailedPluginDropped
  <1>1. IInv /\ [Next]_vars => [\A l \in TextLines \ TextLines' : WrittenForFailed(l)]_vars
    BY StepLoses DEF IInv
  <1>2. QED
    BY <1>1, Invariant, PTL DEF Spec, OnlyFailedPluginDropped

\* What a Plugswitch is entered with is the text of the case it selects.
LEMMA SwitchTakes ==
    ASSUME Inv, NEW block \in Blocks, ReadPlugswitch(block)
    PROVE  IsSelected(stack'[Len(stack')].body, block)
  <1>1. Activations /\ LinesOf(Lines) /\ block \in Seq(Lines)
    BY LinesAreLines DEF Inv
  <1>2. BlockOf(block) = block
    <2>1. Plugends(block) = {}
      BY BlocksAssumption
    <2>2. QED
      BY <2>1 DEF BlockOf
  <1>3. PICK after, g : Selection(after, g, block)
    BY <1>1, SelectionIs DEF ReadPlugswitch
  <1>4. PICK s : s = Replaced(after)
    OBVIOUS
  <1>5. stack' = Append(s, g) /\ g \in Frames /\ after \in Frames
        /\ g.body = Chosen(block)
    BY <1>2, <1>3, <1>4 DEF Selection
  <1>6. s \in Seq(Frames)
    <2>1. PICK n \in Nat \ {0} : n = Len(stack) /\ DOMAIN stack = 1..n /\ n \in 1..n
      BY <1>1, StackLength
    <2>2. stack \in Seq(Frames)
      BY <1>1 DEF Activations
    <2>3. [stack EXCEPT ![n] = after] \in Seq(Frames)
      BY <1>5, <2>1, <2>2, ExceptSeq
    <2>4. QED
      BY <1>4, <2>1, <2>3 DEF Replaced
  <1>7. stack'[Len(stack')] = g
    <2>1. PICK t : t = Append(s, g)
      OBVIOUS
    <2>2. t[Len(t)] = g
      BY <1>5, <1>6, <2>1, AppendProperties
    <2>3. QED
      BY <1>5, <2>1, <2>2
  <1>8. IsSelected(Chosen(block), block)
    BY <1>1, ChosenIs
  <1>9. QED
    BY <1>5, <1>7, <1>8

\* However a block mixes cases and Plugdefaults, the split loop goes on with
\* the first case that holds under the macros at that point, else with the
\* last Plugdefault, else with nothing, and with exactly the lines between
\* that mark and the next (process_plugswitch).
THEOREM FirstTrueTaken == Spec => FirstTrueCase
  <1>1. IInv /\ [Next]_vars =>
          [\A block \in {b \in Blocks : \A l \in ToSet(b) : l.op # "switch"} :
              ReadPlugswitch(block) =>
                  IsSelected(stack'[Len(stack')].body, block)]_vars
    BY SwitchTakes DEF IInv
  <1>2. QED
    BY <1>1, Invariant, PTL DEF Spec, FirstTrueCase

=============================================================================
