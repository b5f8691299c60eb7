---------------------------- MODULE ParserProofs ----------------------------
(***************************************************************************)
(* Proofs about Parser, for any files: sequences of any tokens.            *)
(***************************************************************************)
EXTENDS Parser, SequenceTheorems, WellFoundedInduction, TLAPS

-----------------------------------------------------------------------------
(* Sets of natural numbers. *)

\* Each that is not empty has a least element.
LEMMA LeastExists ==
    ASSUME NEW S \in SUBSET Nat, S # {}
    PROVE  \E e \in S : \A d \in S : e <= d
  <1> DEFINE less == {ss \in Nat \X Nat : ss[1] < ss[2]}
  <1>1. IsWellFoundedOn(less, Nat)
    BY NatLessThanWellFounded DEF OpToRel
  <1>2. PICK e \in S : \A d \in S : <<d, e>> \notin less
    <2> HIDE DEF less
    <2>1. QED
      BY <1>1, WFMin
  <1>3. ASSUME NEW d \in S PROVE e <= d
    <2>1. e \in Nat /\ d \in Nat /\ <<d, e>> \in Nat \X Nat
      OBVIOUS
    <2>2. ~(<<d, e>>[1] < <<d, e>>[2])
      BY <1>2, <2>1
    <2>3. QED
      BY <2>1, <2>2
  <1>4. QED
    BY <1>3

\* Induction, for the members of a set.
LEMMA Inductive ==
    ASSUME NEW S, 0 \in S, \A n \in Nat : n \in S => n + 1 \in S
    PROVE  \A n \in Nat : n \in S
  <1> DEFINE bad == {n \in Nat : n \notin S}
  <1>1. SUFFICES ASSUME bad # {} PROVE FALSE
    OBVIOUS
  <1>2. bad \in SUBSET Nat
    OBVIOUS
  <1>3. PICK e \in bad : \A d \in bad : e <= d
    <2> HIDE DEF bad
    <2>1. QED
      BY <1>1, <1>2, LeastExists
  <1>4. e # 0
    OBVIOUS
  <1>5. e - 1 \in Nat /\ e - 1 \notin bad
    BY <1>3, <1>4
  <1>6. e - 1 + 1 \in S
    BY <1>5
  <1>7. QED
    BY <1>6

-----------------------------------------------------------------------------
(* Positions.  What reads from p leaves the parser there, or further on,   *)
(* or with an error there or further on; what takes a token does not leave *)
(* it there.  Behind an error neither does anything.                       *)

Readable == tokens \in Seq(STRING)

Reads(p, q) ==
    p \in Int /\ q \in Int /\ (q = p \/ (p > 0 /\ (q > p \/ q <= -p)))
Takes(p, q) ==
    p \in Int /\ q \in Int /\ ((p < 0 /\ q = p) \/ (p > 0 /\ (q > p \/ q <= -p)))

\* The positions from m on, and those of errors.
From(m) == {q \in Int : q >= m \/ q < 0}

LEMMA Reading ==
    /\ \A p \in Int : Reads(p, p)
    /\ \A p, q, r : Reads(p, q) /\ Reads(q, r) => Reads(p, r)
    /\ \A p, q, r : Takes(p, q) /\ Reads(q, r) => Takes(p, r)
    /\ \A p, q, r : Reads(p, q) /\ Takes(q, r) => Takes(p, r)
    /\ \A p, q : Takes(p, q) => Reads(p, q)
    /\ \A p \in Int : p > 0 => Takes(p, p + 1)
  BY DEF Reads, Takes

LEMMA Moved == \A p, q : Reads(p, q) /\ (q < 0 \/ q # p) => Takes(p, q)
  BY DEF Reads, Takes

LEMMA ReadingFrom ==
    ASSUME NEW m \in Nat \ {0}, NEW p \in From(m)
    PROVE  /\ p \in Int /\ p # 0
           /\ \A q : Reads(p, q) => q \in From(m)
           /\ \A q : Takes(p, q) => q \in From(m + 1) /\ q \in From(m)
  BY DEF Reads, Takes, From

LEMMA TokIs ==
    ASSUME Readable, NEW p \in Int
    PROVE  /\ Tok(p) \in Toks
           /\ Tok(p) # "EOF" => p \in 1..Len(tokens) /\ p > 0
  <1>1. DOMAIN tokens = 1..Len(tokens) /\ Len(tokens) \in Nat
    BY LenProperties DEF Readable
  <1>2. CASE p \in 1..Len(tokens)
    BY <1>1, <1>2 DEF Tok, Toks, Range
  <1>3. CASE p \notin 1..Len(tokens)
    <2>1. Tok(p) = "EOF"
      BY <1>1, <1>3 DEF Tok
    <2>2. QED
      BY <2>1 DEF Toks
  <1>4. QED
    BY <1>2, <1>3

LEMMA PassReads ==
    ASSUME NEW p \in Int
    PROVE  Reads(p, Pass(p)) /\ (p # 0 => Takes(p, Pass(p)))
  BY DEF Pass, Reads, Takes

LEMMA RaiseReads ==
    ASSUME NEW p \in Int
    PROVE  Reads(p, Raise(p)) /\ (p # 0 => Takes(p, Raise(p)))
  BY DEF Raise, Reads, Takes

LEMMA TakeReads ==
    ASSUME Readable, NEW p \in Int, NEW t, t # "EOF"
    PROVE  Reads(p, Take(p, t)) /\ (p # 0 => Takes(p, Take(p, t)))
  <1>1. Tok(p) = t => p > 0
    BY TokIs
  <1>2. QED
    BY <1>1 DEF Take, Raise, Reads, Takes

LEMMA AcceptReads ==
    ASSUME Readable, NEW p \in Int, NEW t, t # "EOF"
    PROVE  Reads(p, Accept(p, t)) /\ (Tok(p) = t => Takes(p, Accept(p, t)))
  <1>1. Tok(p) = t => p > 0
    BY TokIs
  <1>2. QED
    BY <1>1 DEF Accept, Reads, Takes

LEMMA FirstReads ==
    ASSUME Readable, NEW p \in Int, NEW at
    PROVE  /\ Reads(p, First(p, at)) /\ First(p, at) >= p
           /\ Tok(p) = "EOF" => First(p, at) = p
           /\ Tok(p) # "EOF" /\ p \notin at => Takes(p, First(p, at))
           /\ First(p, at) \in at \/ Tok(First(p, at)) = "EOF"
  <1>1. CASE Tok(p) = "EOF"
    BY <1>1 DEF First, Reads
  <1>2. CASE Tok(p) # "EOF"
    <2>1. PICK n \in Nat : n = Len(tokens) /\ DOMAIN tokens = 1..n
      BY LenProperties DEF Readable
    <2>2. p \in Nat /\ p > 0 /\ p <= n
      BY <1>2, <2>1, TokIs
    <2> DEFINE T == {q \in p..(n + 1) : q \in at \/ Tok(q) = "EOF"}
    <2>3. T \in SUBSET Nat /\ T # {}
      <3>1. Tok(n + 1) = "EOF"
        BY <2>1 DEF Tok
      <3>2. n + 1 \in T
        BY <2>2, <3>1
      <3>3. QED
        BY <2>2, <3>2
    <2>4. PICK e \in T : \A d \in T : e <= d
      <3> HIDE DEF T
      <3>1. QED
        BY <2>3, LeastExists
    <2> DEFINE Good(q) == (q \in at \/ Tok(q) = "EOF") /\ \A r \in p..(q - 1) : r \notin at
    <2>5. e \in Ahead(p) /\ Good(e)
      <3>1. ASSUME NEW r \in p..(e - 1) PROVE r \notin at
        <4>1. r \in p..(n + 1) /\ ~(e <= r)
          BY <2>2, <2>4
        <4>2. r \notin T
          BY <2>4, <4>1
        <4>3. QED
          BY <4>1, <4>2
      <3>2. QED
        BY <2>1, <2>4, <3>1 DEF Ahead
    <2>6. First(p, at) = CHOOSE q \in Ahead(p) : Good(q)
      BY <1>2 DEF First
    <2>7. First(p, at) \in Ahead(p) /\ Good(First(p, at))
      <3> HIDE DEF Good
      <3>1. QED
        BY <2>5, <2>6
    <2>8. PICK q \in Int : q = First(p, at) /\ q >= p
      BY <2>1, <2>2, <2>7 DEF Ahead
    <2>9. q \in at \/ Tok(q) = "EOF"
      BY <2>7, <2>8
    <2>10. p \notin at => q # p
      BY <1>2, <2>9
    <2>11. QED
      BY <1>2, <2>2, <2>8, <2>9, <2>10 DEF Reads, Takes
  <1>3. QED
    BY <1>1, <1>2

LEMMA UptoReads ==
    ASSUME Readable, NEW p \in Int, NEW ts
    PROVE  /\ Reads(p, Upto(p, ts)) /\ Upto(p, ts) >= p
           /\ Tok(p) # "EOF" /\ Tok(p) \notin ts => Takes(p, Upto(p, ts))
           /\ Tok(Upto(p, ts)) \in ts \union {"EOF"}
  BY FirstReads DEF Upto

LEMMA OverReads ==
    ASSUME Readable, NEW p \in Int, NEW ts
    PROVE  /\ Reads(p, Over(p, ts)) /\ Over(p, ts) >= p
           /\ Tok(p) \in ts \ {"EOF"} => Takes(p, Over(p, ts))
           /\ Tok(Over(p, ts)) \notin ts \ {"EOF"}
  BY FirstReads DEF Over

LEMMA SkipReads ==
    ASSUME Readable, NEW p \in Int
    PROVE  /\ Reads(p, Skip(p)) /\ Skip(p) >= p /\ Skip(p) \in Int
           /\ Tok(p) = "EOF" => Skip(p) = p
           /\ Tok(p) = "EOL" => Takes(p, Skip(p))
           /\ Tok(Skip(p)) # "EOL"
  <1>1. Tok(p) = "EOF" => Skip(p) = p
    BY FirstReads DEF Skip, Over
  <1>2. QED
    BY <1>1, OverReads DEF Skip, Reads

LEMMA OutOfBracketsReads ==
    ASSUME Readable, NEW p \in Int, NEW ts
    PROVE  /\ Reads(p, OutOfBrackets(p, ts))
           /\ Tok(p) # "EOF" /\ Tok(p) \notin ts => Takes(p, OutOfBrackets(p, ts))
           /\ Tok(OutOfBrackets(p, ts)) \in ts \union {"EOF"}
  BY FirstReads DEF OutOfBrackets

LEMMA ExprUntilReads ==
    ASSUME Readable, NEW p \in Int, NEW t
    PROVE  /\ Reads(p, ExprUntil(p, t))
           /\ Tok(p) # "EOF" /\ Tok(p) # t => Takes(p, ExprUntil(p, t))
  BY OutOfBracketsReads DEF ExprUntil

LEMMA UntilEolReads ==
    ASSUME Readable, NEW p \in Int, NEW ts
    PROVE  Reads(p, ExprUntilEolOr(p, ts)) /\ Reads(p, TypeUntil(p, ts))
  <1>1. ASSUME NEW q, Reads(p, q) PROVE Reads(p, Skip(q))
    BY <1>1, SkipReads, Reading DEF Reads
  <1>2. Reads(p, ExprUntilEolOr(p, ts))
    BY <1>1, OutOfBracketsReads DEF ExprUntilEolOr
  <1>3. \A at : Reads(p, First(p, at))
    BY FirstReads
  <1>4. QED
    BY <1>1, <1>2, <1>3 DEF TypeUntil

LEMMA BalancedReads ==
    ASSUME Readable, NEW p \in Int, NEW open, NEW close
    PROVE  /\ Reads(p, Balanced(p, open, close))
           /\ Tok(p) # "EOF" => Takes(p, Balanced(p, open, close))
  <1> DEFINE at == {q \in Ahead(p) :
                      /\ q > p /\ Tok(q - 1) = close
                      /\ HowMany(p, q, {open}) = HowMany(p, q, {close})}
  <1>1. p \notin at
    OBVIOUS
  <1>2. Balanced(p, open, close) = First(p, at)
    BY DEF Balanced
  <1>3. QED
    <2> HIDE DEF at
    <2>1. QED
      BY <1>1, <1>2, FirstReads

LEMMA BeforeReads ==
    ASSUME Readable, NEW p \in Int
    PROVE  Reads(p, BeforeBlock(p).at) /\ Reads(p, BeforeSemicolon(p).at)
  BY BalancedReads, UptoReads, ExprUntilReads
     DEF BeforeBlock, BeforeSemicolon, Within, Collected, Got

LEMMA TypeReads ==
    ASSUME Readable, NEW p \in Int, NEW ts
    PROVE  Reads(p, Type(p, ts).at)
  BY UntilEolReads DEF Type, Collected, Got

-----------------------------------------------------------------------------
(* A grammar does its work from m on, if what it gives at any place behind *)
(* m, or at an error, is read from there.                                  *)

Works(g, m) ==
    \A p \in From(m + 1) :
        /\ Reads(p, g.bitFields[p])
        /\ Reads(p, g.statements[p].at) /\ Reads(p, g.catches[p].at)
        /\ Reads(p, g.fields[p].at) /\ Reads(p, g.oldParams[p].at)
        /\ Reads(p, g.lineParams[p].at) /\ Reads(p, g.bases[p].at)
        /\ Reads(p, g.templateParams[p].at)
        /\ \A class \in Toks, v \in Visibility :
                Reads(p, g.group[p][class][v].at) /\ Reads(p, g.items[p][class][v].at)

\* A production at p may call it.
Calls(g, m, p) == Readable /\ m \in Nat \ {0} /\ p \in From(m) /\ Works(g, m)

LEMMA CallsFrom ==
    ASSUME NEW g, NEW m, NEW p, Calls(g, m, p)
    PROVE  /\ Readable /\ p \in Int /\ p # 0
           /\ p < 0 => Tok(p) = "EOF"
           /\ \A q : Reads(p, q) => Calls(g, m, q)
  <1>1. Readable /\ m \in Nat \ {0} /\ p \in From(m) /\ Works(g, m)
    BY DEF Calls
  <1>2. /\ p \in Int /\ p # 0
        /\ \A q : Reads(p, q) => q \in From(m)
    BY <1>1, ReadingFrom
  <1>3. \A q : Reads(p, q) => Calls(g, m, q)
    BY <1>1, <1>2 DEF Calls
  <1>4. p < 0 => Tok(p) = "EOF"
    BY <1>1, <1>2, TokIs
  <1>5. QED
    BY <1>1, <1>2, <1>3, <1>4

\* What is called takes up where a token was taken.
LEMMA Called ==
    ASSUME NEW g, NEW m, NEW p, Calls(g, m, p), NEW q, Takes(p, q)
    PROVE  /\ Takes(p, g.bitFields[q])
           /\ Takes(p, g.statements[q].at) /\ Takes(p, g.catches[q].at)
           /\ Takes(p, g.fields[q].at) /\ Takes(p, g.oldParams[q].at)
           /\ Takes(p, g.lineParams[q].at) /\ Takes(p, g.bases[q].at)
           /\ Takes(p, g.templateParams[q].at)
           /\ \A class \in Toks, v \in Visibility :
                /\ Takes(p, g.group[q][class][v].at)
                /\ Takes(p, g.items[q][class][v].at)
  <1>1. m \in Nat \ {0} /\ p \in From(m) /\ Works(g, m)
    BY DEF Calls
  <1>2. q \in From(m + 1)
    BY <1>1, ReadingFrom
  <1>3. /\ Reads(q, g.bitFields[q])
        /\ Reads(q, g.statements[q].at) /\ Reads(q, g.catches[q].at)
        /\ Reads(q, g.fields[q].at) /\ Reads(q, g.oldParams[q].at)
        /\ Reads(q, g.lineParams[q].at) /\ Reads(q, g.bases[q].at)
        /\ Reads(q, g.templateParams[q].at)
        /\ \A class \in Toks, v \in Visibility :
                Reads(q, g.group[q][class][v].at) /\ Reads(q, g.items[q][class][v].at)
    BY <1>1, <1>2 DEF Works
  <1>4. \A r : Reads(q, r) => Takes(p, r)
    BY Reading
  <1>5. QED
    BY <1>3, <1>4

LEMMA ThenReads ==
    ASSUME NEW p, NEW made, NEW rest, Reads(p, made.at), Takes(p, rest.at)
    PROVE  Takes(p, Then(made, rest).at)
  <1>1. CASE made.at < 0
    BY <1>1, Moved DEF Then
  <1>2. CASE ~(made.at < 0)
    BY <1>2 DEF Then, Got
  <1>3. QED
    BY <1>1, <1>2

LEMMA ClosedReads ==
    ASSUME Readable, NEW made, made.at \in Int, NEW t, t # "EOF"
    PROVE  Reads(made.at, Closed(made, t).at) /\ Reads(made.at, Ended(made, t).at)
  <1>1. Closed(made, t).at = Take(made.at, t) /\ Ended(made, t).at = Accept(made.at, t)
    BY DEF Closed, Ended, Got
  <1>2. QED
    BY <1>1, TakeReads, AcceptReads

\* Where the search stopped at once, it was at what is accepted.
LEMMA StopTaken ==
    ASSUME Readable, NEW p \in Int, NEW e, Reads(p, e), NEW t, t # "EOF",
           e = p => Tok(p) = t
    PROVE  Takes(p, Accept(e, t))
  <1>1. e \in Int /\ Reads(e, Accept(e, t))
    BY AcceptReads DEF Reads
  <1>2. CASE e = p
    BY <1>2, AcceptReads
  <1>3. CASE e # p
    BY <1>1, <1>3, Reading, Moved
  <1>4. QED
    BY <1>2, <1>3

LEMMA ValueReads ==
    ASSUME Readable, NEW p \in Int, NEW end, Tok(p) = "=" => Reads(p, end)
    PROVE  Reads(p, Value(p, end).at)
  BY Reading DEF Value, Collected, Got

LEMMA InitialReads ==
    ASSUME Readable, NEW p \in Int
    PROVE  Reads(p, Initial(p).at)
  <1>1. ASSUME Tok(p) = "=" PROVE Reads(p, ExprUntil(p + 1, ";"))
    <2>1. p + 1 \in Int /\ Takes(p, p + 1)
      BY <1>1, TokIs, Reading
    <2>2. Reads(p + 1, ExprUntil(p + 1, ";"))
      BY <2>1, ExprUntilReads
    <2>3. QED
      BY <2>1, <2>2, Reading
  <1>2. QED
    BY <1>1, ValueReads DEF Initial

-----------------------------------------------------------------------------
(* Statements. *)

\* The token at p, if it is not the end, can be taken.
LEMMA Further ==
    ASSUME NEW g, NEW m, NEW p, Calls(g, m, p), Tok(p) # "EOF"
    PROVE  /\ p + 1 \in Int /\ p > 0 /\ Takes(p, p + 1) /\ Calls(g, m, p + 1)
           /\ \A q : Reads(p + 1, q) => Takes(p, q)
           /\ \A q : Takes(p + 1, q) => Takes(p, q)
  <1>1. p \in Int /\ p > 0 /\ Takes(p, p + 1) /\ p + 1 \in Int
    BY CallsFrom, TokIs, Reading
  <1>2. Reads(p, p + 1)
    BY <1>1, Reading
  <1>3. QED
    BY <1>1, <1>2, CallsFrom, Reading

\* Behind the ends of lines.
LEMMA Behind ==
    ASSUME NEW g, NEW m, NEW p, Calls(g, m, p)
    PROVE  Skip(p) \in Int /\ Reads(p, Skip(p)) /\ Calls(g, m, Skip(p))
  BY CallsFrom, SkipReads

LEMMA BitFieldsReads ==
    ASSUME NEW g, NEW m, NEW p, Calls(g, m, p)
    PROVE  Reads(p, BitFields(p, g))
  <1>1. PICK q : q = Skip(p)
    OBVIOUS
  <1>2. q \in Int /\ Reads(p, q) /\ Calls(g, m, q) /\ Readable
    BY <1>1, Behind, CallsFrom
  <1>3. CASE Tok(q) \in {"EOF", "}"}
    <2>1. BitFields(p, g) = Take(q, "}")
      BY <1>1, <1>3 DEF BitFields
    <2>2. Reads(q, Take(q, "}"))
      BY <1>2, TakeReads
    <2>3. QED
      BY <1>2, <2>1, <2>2, Reading
  <1>4. CASE Tok(q) \notin {"EOF", "}"}
    <2>1. PICK s, t, r : s = Take(q + 1, ":") /\ t = Pass(s) /\ r = Accept(t, ",")
      OBVIOUS
    <2>2. BitFields(p, g) = g.bitFields[r]
      BY <1>1, <1>4, <2>1 DEF BitFields
    <2>3. Takes(q, r)
      <3>1. Tok(q) # "EOF"
        BY <1>4
      <3>2. q + 1 \in Int /\ Takes(q, q + 1)
        BY <1>2, <3>1, Further
      <3>3. s \in Int /\ Reads(q + 1, s)
        BY <1>2, <2>1, <3>2, TakeReads DEF Reads
      <3>4. t \in Int /\ Reads(s, t)
        BY <2>1, <3>3, PassReads DEF Reads
      <3>5. Reads(t, r)
        BY <1>2, <2>1, <3>4, AcceptReads
      <3>6. QED
        BY <3>2, <3>3, <3>4, <3>5, Reading
    <2>4. QED
      BY <1>2, <2>2, <2>3, Called, Reading
  <1>5. QED
    BY <1>3, <1>4

\* A bit field, if the type ends there, and the value.
LEMMA AfterTypeReads ==
    ASSUME NEW g, NEW m, NEW p, Calls(g, m, p)
    PROVE  Reads(p, Initial(IF Tok(p) = "{" THEN g.bitFields[p + 1] ELSE p).at)
  <1>1. PICK q : q = IF Tok(p) = "{" THEN g.bitFields[p + 1] ELSE p
    OBVIOUS
  <1>2. Reads(p, q)
    <2>1. CASE Tok(p) = "{"
      <3>1. Takes(p, p + 1)
        <4>1. Tok(p) # "EOF"
          BY <2>1
        <4>2. QED
          BY <4>1, Further
      <3>2. Takes(p, g.bitFields[p + 1])
        BY <3>1, Called
      <3>3. QED
        BY <1>1, <2>1, <3>2, Reading
    <2>2. CASE Tok(p) # "{"
      <3>1. q = p
        BY <1>1, <2>2
      <3>2. QED
        BY <3>1, CallsFrom, Reading
    <2>3. QED
      BY <2>1, <2>2
  <1>3. Reads(q, Initial(q).at)
    BY <1>2, CallsFrom, InitialReads
  <1>4. QED
    BY <1>1, <1>2, <1>3, Reading

LEMMA EndOfVarReads ==
    ASSUME Readable, NEW p \in Int
    PROVE  Reads(p, EndOfVar(Accept(Accept(p, "Block"), ";")))
  <1>1. PICK q, r : q = Accept(p, "Block") /\ r = Accept(q, ";")
    OBVIOUS
  <1>2. Reads(p, q) /\ q \in Int
    BY <1>1, AcceptReads DEF Reads
  <1>3. Reads(q, r)
    BY <1>1, <1>2, AcceptReads
  <1>4. r \in Int
    BY <1>3 DEF Reads
  <1>5. Reads(r, EndOfVar(r))
    <2>1. CASE Tok(r) = "Block"
      <3>1. r + 1 \in Int /\ Takes(r, r + 1)
        BY <1>4, <2>1, TokIs, Reading
      <3>2. Reads(r + 1, Accept(r + 1, ";"))
        BY <3>1, AcceptReads
      <3>3. EndOfVar(r) = Accept(r + 1, ";")
        BY <2>1 DEF EndOfVar
      <3>4. QED
        BY <3>1, <3>2, <3>3, Reading
    <2>2. CASE Tok(r) # "Block"
      <3>1. EndOfVar(r) = r
        BY <2>2 DEF EndOfVar
      <3>2. QED
        BY <1>4, <3>1, Reading
    <2>3. QED
      BY <2>1, <2>2
  <1>6. QED
    BY <1>1, <1>2, <1>3, <1>5, Reading

LEMMA VarDeclReads ==
    ASSUME NEW g, NEW m, NEW p, Calls(g, m, p), NEW isGlobal
    PROVE  Takes(p, VarDecl(p, isGlobal, g).at)
  <1>1. PICK q, r, t :
            /\ q = IF Tok(p) = "Global" THEN Skip(p + 1) ELSE p
            /\ r = Take(Pass(q), ":") /\ t = Type(r, {"=", ";", "{", "Block"}).at
    OBVIOUS
  <1>2. PICK v, e :
            /\ v = Initial(IF Tok(t) = "{" THEN g.bitFields[t + 1] ELSE t).at
            /\ e = EndOfVar(Accept(Accept(v, "Block"), ";"))
    OBVIOUS
  <1>3. Reads(p, q)
    <2>1. CASE Tok(p) = "Global"
      <3>1. p + 1 \in Int /\ Takes(p, p + 1) /\ Calls(g, m, p + 1)
        BY <2>1, Further
      <3>2. Reads(p + 1, Skip(p + 1))
        BY <3>1, Behind
      <3>3. QED
        BY <1>1, <2>1, <3>1, <3>2, Reading
    <2>2. CASE Tok(p) # "Global"
      BY <1>1, <2>2, CallsFrom, Reading
    <2>3. QED
      BY <2>1, <2>2
  <1>4. q \in Int /\ q # 0 /\ Calls(g, m, q) /\ Readable
    BY <1>3, CallsFrom
  <1>5. r \in Int /\ Takes(q, r)
    <2>1. PICK s : s = Pass(q) /\ s \in Int /\ Takes(q, s)
      BY <1>4, PassReads DEF Takes
    <2>2. Reads(s, r) /\ r \in Int
      BY <1>1, <1>4, <2>1, TakeReads DEF Reads
    <2>3. QED
      BY <2>1, <2>2, Reading
  <1>6. Reads(r, t)
    BY <1>1, <1>4, <1>5, TypeReads
  <1>7. Calls(g, m, t)
    BY <1>4, <1>5, <1>6, CallsFrom, Reading
  <1>8. Reads(t, v)
    BY <1>2, <1>7, AfterTypeReads
  <1>9. v \in Int
    BY <1>8 DEF Reads
  <1>10. Reads(v, e)
    BY <1>2, <1>4, <1>9, EndOfVarReads
  <1>11. VarDecl(p, isGlobal, g).at = e
    BY <1>1, <1>2 DEF VarDecl, Got
  <1>12. Takes(p, e)
    BY <1>3, <1>5, <1>6, <1>8, <1>10, Reading
  <1>13. QED
    BY <1>11, <1>12

LEMMA BlockReads ==
    ASSUME NEW g, NEW m, NEW p, Calls(g, m, p)
    PROVE  Takes(p, Block(p, g).at)
  <1>1. PICK q, r, b : /\ q = Take(p, "{") /\ r = Skip(q)
                       /\ b = Closed(g.statements[r], "}").at
    OBVIOUS
  <1>2. Readable /\ p \in Int /\ p # 0
    BY CallsFrom
  <1>3. Takes(p, q)
    BY <1>1, <1>2, TakeReads
  <1>4. Calls(g, m, q)
    BY <1>3, CallsFrom, Reading
  <1>5. Takes(p, r)
    <2>1. Reads(q, Skip(q))
      BY <1>4, Behind
    <2>2. QED
      BY <1>1, <1>3, <2>1, Reading
  <1>6. Takes(p, g.statements[r].at)
    BY <1>5, Called
  <1>7. g.statements[r].at \in Int
    BY <1>6 DEF Takes
  <1>8. Reads(g.statements[r].at, b)
    BY <1>1, <1>2, <1>7, ClosedReads
  <1>9. Block(p, g).at = b
    BY <1>1 DEF Block
  <1>10. QED
    BY <1>6, <1>8, <1>9, Reading

\* A head and its block.
LEMMA HeadedReads ==
    ASSUME NEW g, NEW m, NEW p, Calls(g, m, p), NEW head, head.at = p
    PROVE  Takes(p, Headed(head, g).at)
  <1>1. Reads(p, Skip(p)) /\ Calls(g, m, Skip(p))
    BY Behind
  <1>2. Takes(Skip(p), Block(Skip(p), g).at)
    BY <1>1, BlockReads
  <1>3. Headed(head, g).at = Block(Skip(p), g).at
    BY DEF Headed, WithBlock, Got
  <1>4. QED
    BY <1>1, <1>2, <1>3, Reading

LEMMA BranchReads ==
    ASSUME NEW g, NEW m, NEW p, Calls(g, m, p)
    PROVE  Takes(p, Branch(p, g).at)
  <1>1. PICK q : q = Skip(p)
    OBVIOUS
  <1>2. q \in Int /\ Reads(p, q) /\ Calls(g, m, q) /\ Readable
    BY <1>1, Behind, CallsFrom
  <1>3. PICK head : head = BeforeBlock(q) /\ Reads(q, head.at)
    BY <1>2, BeforeReads
  <1>4. Calls(g, m, head.at)
    BY <1>2, <1>3, CallsFrom
  <1>5. Takes(head.at, Headed(head, g).at)
    BY <1>4, HeadedReads
  <1>6. Branch(p, g) = Headed(head, g)
    BY <1>1, <1>3 DEF Branch
  <1>7. QED
    BY <1>2, <1>3, <1>5, <1>6, Reading

LEMMA ElseReads ==
    ASSUME NEW g, NEW m, NEW p, Calls(g, m, p)
    PROVE  Reads(p, Else(p, g).at)
  <1>1. CASE Tok(p) = "Else"
    <2>1. Takes(p, p + 1) /\ Calls(g, m, p + 1)
      BY <1>1, Further
    <2>2. Reads(p + 1, Skip(p + 1)) /\ Calls(g, m, Skip(p + 1))
      BY <2>1, Behind
    <2>3. Takes(Skip(p + 1), Block(Skip(p + 1), g).at)
      BY <2>2, BlockReads
    <2>4. Else(p, g) = Block(Skip(p + 1), g)
      BY <1>1 DEF Else
    <2>5. QED
      BY <2>1, <2>2, <2>3, <2>4, Reading
  <1>2. CASE Tok(p) # "Else"
    <2>1. Else(p, g).at = p
      BY <1>2 DEF Else, Got
    <2>2. QED
      BY <2>1, CallsFrom, Reading
  <1>3. QED
    BY <1>1, <1>2

LEMMA AfterIfReads ==
    ASSUME NEW g, NEW m, NEW p, Calls(g, m, p)
    PROVE  Reads(p, AfterIf(p, g).at)
  <1>1. CASE Tok(p) = "Elif"
    <2>1. Takes(p, p + 1) /\ Calls(g, m, p + 1)
      BY <1>1, Further
    <2>2. PICK elif : elif = Branch(p + 1, g) /\ Takes(p + 1, elif.at)
      BY <2>1, BranchReads
    <2>3. Calls(g, m, elif.at)
      BY <2>1, <2>2, CallsFrom, Reading
    <2>4. Reads(elif.at, Skip(elif.at)) /\ Calls(g, m, Skip(elif.at))
      BY <2>3, Behind
    <2>5. Reads(Skip(elif.at), Else(Skip(elif.at), g).at)
      BY <2>4, ElseReads
    <2>6. AfterIf(p, g).at = Else(Skip(elif.at), g).at
      BY <1>1, <2>2 DEF AfterIf, Elif, If, Got
    <2>7. QED
      BY <2>1, <2>2, <2>4, <2>5, <2>6, Reading
  <1>2. CASE Tok(p) # "Elif"
    <2>1. AfterIf(p, g) = Else(p, g)
      BY <1>2 DEF AfterIf
    <2>2. QED
      BY <2>1, ElseReads
  <1>3. QED
    BY <1>1, <1>2

LEMMA IfReads ==
    ASSUME NEW g, NEW m, NEW p, Calls(g, m, p), Tok(p) # "EOF"
    PROVE  Takes(p, IfStatement(p, g).at)
  <1>1. Takes(p, p + 1) /\ Calls(g, m, p + 1)
    BY Further
  <1>2. PICK branch : branch = Branch(p + 1, g) /\ Takes(p + 1, branch.at)
    BY <1>1, BranchReads
  <1>3. Calls(g, m, branch.at)
    BY <1>1, <1>2, CallsFrom, Reading
  <1>4. Reads(branch.at, Skip(branch.at)) /\ Calls(g, m, Skip(branch.at))
    BY <1>3, Behind
  <1>5. Reads(Skip(branch.at), AfterIf(Skip(branch.at), g).at)
    BY <1>4, AfterIfReads
  <1>6. IfStatement(p, g).at = AfterIf(Skip(branch.at), g).at
    BY <1>2 DEF IfStatement, If, Got
  <1>7. QED
    BY <1>1, <1>2, <1>4, <1>5, <1>6, Reading

LEMMA LoopReads ==
    ASSUME NEW g, NEW m, NEW p, Calls(g, m, p), Tok(p) # "EOF"
    PROVE  Takes(p, Loop(p, g).at)
  <1>1. Takes(p, p + 1) /\ Calls(g, m, p + 1)
    BY Further
  <1>2. Takes(p + 1, Branch(p + 1, g).at)
    BY <1>1, BranchReads
  <1>3. Loop(p, g).at = Branch(p + 1, g).at
    BY DEF Loop, Got
  <1>4. QED
    BY <1>1, <1>2, <1>3, Reading

\* Block(Skip(p + 1)), behind a keyword at p.
LEMMA BlockBehind ==
    ASSUME NEW g, NEW m, NEW p, Calls(g, m, p), Tok(p) # "EOF"
    PROVE  /\ Takes(p, Block(Skip(p + 1), g).at)
           /\ Calls(g, m, Skip(Block(Skip(p + 1), g).at))
           /\ Takes(p, Skip(Block(Skip(p + 1), g).at))
  <1>1. Takes(p, p + 1) /\ Calls(g, m, p + 1)
    BY Further
  <1>2. Reads(p + 1, Skip(p + 1)) /\ Calls(g, m, Skip(p + 1))
    BY <1>1, Behind
  <1>3. PICK b : b = Block(Skip(p + 1), g).at /\ Takes(Skip(p + 1), b)
    BY <1>2, BlockReads
  <1>4. Calls(g, m, b)
    BY <1>2, <1>3, CallsFrom, Reading
  <1>5. Reads(b, Skip(b)) /\ Calls(g, m, Skip(b))
    BY <1>4, Behind
  <1>6. QED
    BY <1>1, <1>2, <1>3, <1>5, Reading

LEMMA DoWhileReads ==
    ASSUME NEW g, NEW m, NEW p, Calls(g, m, p), Tok(p) # "EOF"
    PROVE  Takes(p, DoWhile(p, g).at)
  <1>1. PICK q, r, s, e :
            /\ q = Skip(Block(Skip(p + 1), g).at) /\ r = Accept(q, "While")
            /\ s = BeforeSemicolon(Skip(r)).at /\ e = Accept(s, ";")
    OBVIOUS
  <1>2. Takes(p, q) /\ Calls(g, m, q)
    BY <1>1, BlockBehind
  <1>3. Readable /\ q \in Int
    BY <1>2, CallsFrom
  <1>4. Reads(q, r)
    BY <1>1, <1>3, AcceptReads
  <1>5. Calls(g, m, r)
    BY <1>2, <1>4, CallsFrom
  <1>6. Reads(r, Skip(r)) /\ Skip(r) \in Int
    BY <1>5, Behind
  <1>7. Reads(Skip(r), s)
    BY <1>1, <1>3, <1>6, BeforeReads
  <1>8. s \in Int
    BY <1>7 DEF Reads
  <1>9. Reads(s, e)
    BY <1>1, <1>3, <1>8, AcceptReads
  <1>10. DoWhile(p, g).at = e
    BY <1>1 DEF DoWhile, Ended, Got
  <1>11. QED
    BY <1>2, <1>4, <1>6, <1>7, <1>9, <1>10, Reading

LEMMA CatchesReads ==
    ASSUME NEW g, NEW m, NEW p, Calls(g, m, p)
    PROVE  Reads(p, Catches(p, g).at)
  <1>1. CASE Tok(p) \notin {"Catch", "Catchall"}
    <2>1. Catches(p, g).at = p
      BY <1>1 DEF Catches, Got
    <2>2. QED
      BY <2>1, CallsFrom, Reading
  <1>2. CASE Tok(p) \in {"Catch", "Catchall"}
    <2>1. PICK head : head = IF Tok(p + 1) = "(" THEN BeforeBlock(Skip(p + 1))
                             ELSE Got(p + 1, <<"all">>)
      OBVIOUS
    <2>2. Takes(p, p + 1) /\ Calls(g, m, p + 1)
      BY <1>2, Further
    <2>3. Reads(p + 1, head.at)
      <3>1. CASE Tok(p + 1) = "("
        <4>1. Reads(p + 1, Skip(p + 1)) /\ Skip(p + 1) \in Int /\ Readable
          BY <2>2, Behind, CallsFrom
        <4>2. Reads(Skip(p + 1), BeforeBlock(Skip(p + 1)).at)
          BY <4>1, BeforeReads
        <4>3. QED
          BY <2>1, <3>1, <4>1, <4>2, Reading
      <3>2. CASE Tok(p + 1) # "("
        <4>1. head.at = p + 1
          BY <2>1, <3>2 DEF Got
        <4>2. QED
          BY <2>2, <4>1, CallsFrom, Reading
      <3>3. QED
        BY <3>1, <3>2
    <2>4. Calls(g, m, head.at)
      BY <2>2, <2>3, CallsFrom
    <2>5. PICK c : c = Headed(head, g)
      OBVIOUS
    <2>6. Takes(head.at, c.at)
      BY <2>4, <2>5, HeadedReads
    <2>7. Takes(p, c.at)
      BY <2>2, <2>3, <2>6, Reading
    <2>8. Calls(g, m, c.at)
      BY <2>7, CallsFrom, Reading
    <2>9. Reads(c.at, Skip(c.at))
      BY <2>8, Behind
    <2>10. Takes(p, g.catches[Skip(c.at)].at)
      <3>1. Takes(p, Skip(c.at))
        BY <2>7, <2>9, Reading
      <3>2. QED
        BY <3>1, Called
    <2>11. PICK made : made = Got(c.at, <<[spec |-> c.ast.head, body |-> c.ast.body]>>)
      OBVIOUS
    <2>12. made.at = c.at
      BY <2>11 DEF Got
    <2>13. Catches(p, g) = Then(made, g.catches[Skip(c.at)])
      BY <1>2, <2>1, <2>5, <2>11 DEF Catches
    <2>14. Takes(p, Then(made, g.catches[Skip(c.at)]).at)
      BY <2>7, <2>10, <2>12, ThenReads, Reading
    <2>15. QED
      BY <2>13, <2>14, Reading
  <1>3. QED
    BY <1>1, <1>2

LEMMA TryCatchReads ==
    ASSUME NEW g, NEW m, NEW p, Calls(g, m, p), Tok(p) # "EOF"
    PROVE  Takes(p, TryCatch(p, g).at)
  <1>1. PICK q : q = Skip(Block(Skip(p + 1), g).at)
    OBVIOUS
  <1>2. Takes(p, q)
    BY <1>1, BlockBehind
  <1>3. Takes(p, g.catches[q].at)
    BY <1>2, Called
  <1>4. TryCatch(p, g).at = g.catches[q].at
    BY <1>1 DEF TryCatch, Got
  <1>5. QED
    BY <1>3, <1>4

\* An expression behind a keyword, with its semicolon.
LEMMA SimpleReads ==
    ASSUME NEW g, NEW m, NEW p, Calls(g, m, p), Tok(p) # "EOF"
    PROVE  Takes(p, Simple(p).at)
  <1>1. PICK q, e : q = ExprUntil(p + 1, ";") /\ e = Accept(q, ";")
    OBVIOUS
  <1>2. p + 1 \in Int /\ Takes(p, p + 1) /\ Readable
    BY Further, CallsFrom
  <1>3. Reads(p + 1, q)
    BY <1>1, <1>2, ExprUntilReads
  <1>4. q \in Int
    BY <1>3 DEF Reads
  <1>5. Reads(q, e)
    BY <1>1, <1>2, <1>4, AcceptReads
  <1>6. Simple(p).at = e
    BY <1>1 DEF Simple, Ended, Collected, Got
  <1>7. QED
    BY <1>2, <1>3, <1>5, <1>6, Reading

LEMMA RawKeywordReads ==
    ASSUME NEW g, NEW m, NEW p, Calls(g, m, p), Tok(p) # "EOF"
    PROVE  Takes(p, RawKeyword(p).at)
  <1>1. PICK r, q :
            /\ r = IF Tok(p + 1) = "(" THEN Balanced(p + 1, "(", ")") ELSE p + 1
            /\ q = Skip(r)
    OBVIOUS
  <1>2. /\ p + 1 \in Int /\ Takes(p, p + 1) /\ Readable
        /\ Calls(g, m, p + 1) /\ Reads(p + 1, p + 1)
    BY Further, CallsFrom, Reading
  <1>3. Reads(p + 1, r)
    <2>1. Reads(p + 1, Balanced(p + 1, "(", ")"))
      BY <1>2, BalancedReads
    <2>2. QED
      BY <1>1, <1>2, <2>1
  <1>4. Calls(g, m, r)
    BY <1>2, <1>3, CallsFrom
  <1>5. Reads(r, q) /\ q \in Int
    BY <1>1, <1>4, Behind
  <1>6. Reads(q, RawKeyword(p).at)
    <2>1. CASE Tok(q) = "{"
      <3>1. RawKeyword(p).at = Balanced(q, "{", "}")
        BY <1>1, <2>1 DEF RawKeyword, RawText, Got
      <3>2. QED
        BY <1>2, <1>5, <3>1, BalancedReads
    <2>2. CASE Tok(q) # "{"
      <3>1. PICK u : u = Upto(q, {";"})
        OBVIOUS
      <3>2. Reads(q, u)
        BY <1>2, <1>5, <3>1, UptoReads
      <3>3. u \in Int
        BY <3>2 DEF Reads
      <3>4. Reads(u, Accept(u, ";"))
        BY <1>2, <3>3, AcceptReads
      <3>5. RawKeyword(p).at = Accept(u, ";")
        BY <1>1, <2>2, <3>1 DEF RawKeyword, RawText, Ended, Got
      <3>6. QED
        BY <3>2, <3>4, <3>5, Reading
    <2>3. QED
      BY <2>1, <2>2
  <1>7. QED
    BY <1>2, <1>3, <1>5, <1>6, Reading

LEMMA OldVarDeclReads ==
    ASSUME NEW g, NEW m, NEW p, Calls(g, m, p), Tok(p) # "EOF"
    PROVE  Takes(p, OldVarDecl(p).at)
  <1>1. PICK t, v, e :
            /\ t = (IF Tok(p + 2) = ":" THEN Type(p + 3, {"=", ";"})
                    ELSE Got(p + 2, <<"I32">>)).at
            /\ v = Initial(t).at /\ e = Accept(v, ";")
    OBVIOUS
  <1>2. Readable /\ p \in Int /\ p > 0
    BY CallsFrom, TokIs
  <1>3. Takes(p, t)
    <2>1. CASE Tok(p + 2) = ":"
      <3>1. p + 3 \in Int /\ Takes(p, p + 3)
        BY <1>2 DEF Takes
      <3>2. t = Type(p + 3, {"=", ";"}).at
        BY <1>1, <2>1
      <3>3. Reads(p + 3, t)
        BY <1>2, <3>1, <3>2, TypeReads
      <3>4. QED
        BY <3>1, <3>3, Reading
    <2>2. CASE Tok(p + 2) # ":"
      <3>1. t = p + 2
        BY <1>1, <2>2 DEF Got
      <3>2. QED
        BY <1>2, <3>1 DEF Takes
    <2>3. QED
      BY <2>1, <2>2
  <1>4. t \in Int
    BY <1>3 DEF Takes
  <1>5. Reads(t, v)
    BY <1>1, <1>2, <1>4, InitialReads
  <1>6. v \in Int
    BY <1>5 DEF Reads
  <1>7. Reads(v, e)
    BY <1>1, <1>2, <1>6, AcceptReads
  <1>8. OldVarDecl(p).at = e
    BY <1>1 DEF OldVarDecl, Ended, Got
  <1>9. QED
    BY <1>3, <1>5, <1>7, <1>8, Reading

LEMMA TargetReads ==
    ASSUME NEW g, NEW m, NEW p, Calls(g, m, p), Tok(p) # "EOF"
    PROVE  Takes(p, TargetStatement(p).at)
  <1>1. PICK q, e : q = ExprUntilEolOr(p + 1, {";"}) /\ e = Accept(q, ";")
    OBVIOUS
  <1>2. p + 1 \in Int /\ Takes(p, p + 1) /\ Readable
    BY Further, CallsFrom
  <1>3. Reads(p + 1, q)
    BY <1>1, <1>2, UntilEolReads
  <1>4. q \in Int
    BY <1>3 DEF Reads
  <1>5. Reads(q, e)
    BY <1>1, <1>2, <1>4, AcceptReads
  <1>6. TargetStatement(p).at = e
    BY <1>1 DEF TargetStatement, Got
  <1>7. QED
    BY <1>2, <1>3, <1>5, <1>6, Reading

LEMMA ExprReads ==
    ASSUME NEW g, NEW m, NEW p, Calls(g, m, p), Tok(p) # "EOF"
    PROVE  Tok(p) # ";" => Takes(p, ExprStatement(p).at)
  <1>1. PICK q, e : q = ExprUntil(p, ";") /\ e = Accept(q, ";")
    OBVIOUS
  <1>2. p \in Int /\ Readable
    BY CallsFrom
  <1>3. Tok(p) # ";" => Takes(p, q)
    BY <1>1, <1>2, ExprUntilReads
  <1>4. Reads(p, q)
    BY <1>1, <1>2, ExprUntilReads
  <1>5. q \in Int
    BY <1>4 DEF Reads
  <1>6. Reads(q, e)
    BY <1>1, <1>2, <1>5, AcceptReads
  <1>7. ExprStatement(p).at = e
    BY <1>1 DEF ExprStatement, Got
  <1>8. Takes(p, q) => Takes(p, e)
    BY <1>6, Reading
  <1>9. QED
    BY <1>3, <1>7, <1>8

LEMMA ExpansionReads ==
    ASSUME NEW g, NEW m, NEW p, Calls(g, m, p), Tok(p) # "EOF"
    PROVE  Takes(p, Expansion(p, g).at)
  <1>1. PICK q, s, e :
            /\ q = Take(p + 1, "Expand") /\ s = Take(Skip(q), "{")
            /\ e = Accept(g.fields[s].at, ";")
    OBVIOUS
  <1>2. p + 1 \in Int /\ Takes(p, p + 1) /\ Calls(g, m, p + 1) /\ Readable
    BY Further, CallsFrom
  <1>3. Reads(p + 1, q)
    BY <1>1, <1>2, TakeReads
  <1>4. Calls(g, m, q)
    BY <1>2, <1>3, CallsFrom
  <1>5. Reads(q, Skip(q)) /\ Skip(q) \in Int
    BY <1>4, Behind
  <1>6. Reads(Skip(q), s)
    BY <1>1, <1>2, <1>5, TakeReads
  <1>7. Takes(p, s)
    BY <1>2, <1>3, <1>5, <1>6, Reading
  <1>8. Takes(p, g.fields[s].at)
    BY <1>7, Called
  <1>9. g.fields[s].at \in Int
    BY <1>8 DEF Takes
  <1>10. Reads(g.fields[s].at, e)
    BY <1>1, <1>2, <1>9, AcceptReads
  <1>11. Expansion(p, g).at = e
    BY <1>1 DEF Expansion, Ended, Got
  <1>12. QED
    BY <1>8, <1>10, <1>11, Reading

LEMMA StatementReads ==
    ASSUME NEW g, NEW m, NEW p, Calls(g, m, p), Tok(p) # "EOF"
    PROVE  Takes(p, Statement(p, g).at)
  <1>1. Readable /\ p \in Int /\ Takes(p, p + 1) /\ p + 1 \in Int
    BY CallsFrom, Further
  <1>2. PICK all : all = {Got(p + 1, <<>>), Expansion(p, g), TargetStatement(p),
                          Simple(p), Got(Accept(p + 1, ";"), <<[node |-> Tok(p)]>>),
                          IfStatement(p, g), Loop(p, g), DoWhile(p, g),
                          TryCatch(p, g), RawKeyword(p), OldVarDecl(p),
                          RawText(p, Balanced(p, "{", "}")), VarDecl(p, FALSE, g)}
    OBVIOUS
  <1>3. Takes(p, Got(p + 1, <<>>).at)
    BY <1>1 DEF Got
  <1>4. Takes(p, Got(Accept(p + 1, ";"), <<[node |-> Tok(p)]>>).at)
    <2>1. PICK q : q = Accept(p + 1, ";")
      OBVIOUS
    <2>2. Reads(p + 1, q)
      BY <1>1, <2>1, AcceptReads
    <2>3. Takes(p, q)
      BY <1>1, <2>2, Reading
    <2>4. QED
      BY <2>1, <2>3 DEF Got
  <1>5. Takes(p, RawText(p, Balanced(p, "{", "}")).at)
    <2>1. Takes(p, Balanced(p, "{", "}"))
      BY <1>1, BalancedReads
    <2>2. QED
      BY <2>1 DEF RawText, Got
  <1>6. \A made \in all : Takes(p, made.at)
    BY <1>2, <1>3, <1>4, <1>5, ExpansionReads, TargetReads, SimpleReads, IfReads,
       LoopReads, DoWhileReads, TryCatchReads, RawKeywordReads, OldVarDeclReads,
       VarDeclReads
  <1>7. Statement(p, g) \in all \/ (Tok(p) # ";" /\ Statement(p, g) = ExprStatement(p))
    BY <1>2 DEF Statement
  <1>8. QED
    BY <1>6, <1>7, ExprReads

LEMMA StatementsReads ==
    ASSUME NEW g, NEW m, NEW p, Calls(g, m, p)
    PROVE  Reads(p, Statements(p, g).at)
  <1>1. CASE Tok(p) \in {"EOF", "}"}
    <2>1. Statements(p, g).at = p
      BY <1>1 DEF Statements, Got
    <2>2. QED
      BY <2>1, CallsFrom, Reading
  <1>2. CASE Tok(p) \notin {"EOF", "}"}
    <2>1. PICK s, q : s = Statement(p, g) /\ q = Skip(s.at)
      OBVIOUS
    <2>2. Tok(p) # "EOF"
      BY <1>2
    <2>3. Takes(p, s.at)
      BY <2>1, <2>2, StatementReads
    <2>4. Calls(g, m, s.at)
      BY <2>3, CallsFrom, Reading
    <2>5. Reads(s.at, q)
      BY <2>1, <2>4, Behind
    <2>6. Takes(p, g.statements[q].at)
      <3>1. Takes(p, q)
        BY <2>3, <2>5, Reading
      <3>2. QED
        BY <3>1, Called
    <2>7. Takes(p, Then(s, g.statements[q]).at)
      BY <2>3, <2>6, ThenReads, Reading
    <2>8. Statements(p, g) = Then(s, g.statements[q])
      BY <1>2, <2>1 DEF Statements
    <2>9. QED
      BY <2>7, <2>8, Reading
  <1>3. QED
    BY <1>1, <1>2

LEMMA FieldsReads ==
    ASSUME NEW g, NEW m, NEW p, Calls(g, m, p)
    PROVE  Reads(p, StructFields(p, g).at)
  <1>1. PICK q : q = Skip(p)
    OBVIOUS
  <1>2. q \in Int /\ Reads(p, q) /\ Calls(g, m, q) /\ Readable
    BY <1>1, Behind, CallsFrom
  <1>3. CASE Tok(q) \in {"EOF", "}"}
    <2>1. StructFields(p, g).at = Take(q, "}")
      BY <1>1, <1>3 DEF StructFields, Got
    <2>2. Reads(q, Take(q, "}"))
      BY <1>2, TakeReads
    <2>3. QED
      BY <1>2, <2>1, <2>2, Reading
  <1>4. CASE Tok(q) \notin {"EOF", "}"} /\ LooksLikeVarDecl(q)
    <2>1. PICK var : var = VarDecl(q, FALSE, g)
      OBVIOUS
    <2>2. Takes(q, var.at)
      BY <1>2, <2>1, VarDeclReads
    <2>3. PICK made : made = Got(var.at, <<<<var.ast[1].name, var.ast[1].type>>>>)
      OBVIOUS
    <2>4. made.at = var.at
      BY <2>3 DEF Got
    <2>5. Takes(q, g.fields[var.at].at)
      BY <1>2, <2>2, Called
    <2>6. Takes(q, Then(made, g.fields[var.at]).at)
      BY <2>2, <2>4, <2>5, ThenReads, Reading
    <2>7. StructFields(p, g) = Then(made, g.fields[var.at])
      BY <1>1, <1>4, <2>1, <2>3 DEF StructFields
    <2>8. QED
      BY <1>2, <2>6, <2>7, Reading
  <1>5. CASE Tok(q) \notin {"EOF", "}"} /\ ~LooksLikeVarDecl(q)
    <2>1. PICK e, s : e = OutOfBrackets(q, {";", "}"}) /\ s = Accept(e, ";")
      OBVIOUS
    <2>2. PICK text : text = Collected(q, e)
      OBVIOUS
    <2>3. PICK raw : raw = SelectSeq(text.ast, LAMBDA t : t # ",")
      OBVIOUS
    <2>4. PICK made : made = Got(e, IF Len(raw) < 2 THEN <<>>
                                    ELSE <<<<Last(raw), Front(raw)>>>>)
      OBVIOUS
    <2>5. StructFields(p, g) = Then(made, g.fields[s])
      <3>1. text.at = e
        BY <2>2 DEF Collected, Got
      <3>2. QED
        BY <1>1, <1>5, <2>1, <2>2, <2>3, <2>4, <3>1 DEF StructFields
    <2>6. Reads(q, e) /\ Tok(e) \in {";", "}", "EOF"}
      BY <1>2, <2>1, OutOfBracketsReads
    <2>7. e = q => Tok(q) = ";"
      BY <1>5, <2>6
    <2>8. Takes(q, s)
      BY <1>2, <2>1, <2>6, <2>7, StopTaken
    <2>9. Takes(q, g.fields[s].at)
      BY <1>2, <2>8, Called
    <2>10. made.at = e
      BY <2>4 DEF Got
    <2>11. Takes(q, Then(made, g.fields[s]).at)
      BY <2>6, <2>9, <2>10, ThenReads
    <2>12. QED
      BY <1>2, <2>5, <2>11, Reading
  <1>6. QED
    BY <1>3, <1>4, <1>5

-----------------------------------------------------------------------------
(* Functions. *)

\* A parameter, with what it is if none is given, and those behind it.
LEMMA AddedReads ==
    ASSUME NEW g, NEW m, NEW p, Calls(g, m, p), NEW q, Takes(p, q),
           NEW name, NEW type, NEW v, Reads(q, v.at), NEW rules,
           rules \in {g.oldParams, g.lineParams}
    PROVE  Takes(p, Then(OneParam(name, type, v),
                         rules[Accept(OneParam(name, type, v).at, ",")]).at)
  <1>1. PICK made, r : made = OneParam(name, type, v) /\ r = Accept(made.at, ",")
    OBVIOUS
  <1>2. made.at = v.at
    BY <1>1 DEF OneParam, Got
  <1>3. Takes(p, made.at)
    BY <1>2, Reading
  <1>4. made.at \in Int /\ Readable
    BY <1>3, CallsFrom DEF Takes
  <1>5. Reads(made.at, r)
    BY <1>1, <1>4, AcceptReads
  <1>6. Takes(p, r)
    BY <1>3, <1>5, Reading
  <1>7. Takes(p, rules[r].at)
    BY <1>6, Called
  <1>8. Takes(p, Then(made, rules[r]).at)
    BY <1>3, <1>7, ThenReads, Reading
  <1>9. QED
    BY <1>1, <1>8

\* The value behind a type, up to the next parameter.
LEMMA DefaultReads ==
    ASSUME Readable, NEW p \in Int, NEW ts
    PROVE  Reads(p, Value(p, ExprUntilEolOr(p + 1, ts)).at)
  <1>1. ASSUME Tok(p) = "=" PROVE Reads(p, ExprUntilEolOr(p + 1, ts))
    <2>1. p + 1 \in Int /\ Takes(p, p + 1)
      BY <1>1, TokIs, Reading
    <2>2. Reads(p + 1, ExprUntilEolOr(p + 1, ts))
      BY <2>1, UntilEolReads
    <2>3. QED
      BY <2>1, <2>2, Reading
  <1>2. QED
    BY <1>1, ValueReads

LEMMA OldParamsReads ==
    ASSUME NEW g, NEW m, NEW p, Calls(g, m, p)
    PROVE  Reads(p, OldParams(p, g).at)
  <1>1. PICK q : q = Skip(p)
    OBVIOUS
  <1>2. q \in Int /\ Reads(p, q) /\ Calls(g, m, q) /\ Readable
    BY <1>1, Behind, CallsFrom
  <1>3. CASE Tok(q) \in {"EOF", ")"}
    <2>1. OldParams(p, g).at = Take(q, ")")
      BY <1>1, <1>3 DEF OldParams, Got
    <2>2. Reads(q, Take(q, ")"))
      BY <1>2, TakeReads
    <2>3. QED
      BY <1>2, <2>1, <2>2, Reading
  <1>4. CASE Tok(q) \notin {"EOF", ")"} /\ Tok(q) \in Names
    <2>1. PICK type, v :
            /\ type = IF Tok(q + 1) = ":" THEN Type(q + 2, {",", ")", "="})
                      ELSE Got(q + 1, <<>>)
            /\ v = Value(type.at, ExprUntilEolOr(type.at + 1, {",", ")"}))
      OBVIOUS
    <2>2. q > 0
      BY <1>2, <1>4, TokIs
    <2>3. Takes(q, type.at)
      <3>1. CASE Tok(q + 1) = ":"
        <4>1. q + 2 \in Int /\ Takes(q, q + 2)
          BY <1>2, <2>2 DEF Takes
        <4>2. type = Type(q + 2, {",", ")", "="})
          BY <2>1, <3>1
        <4>3. Reads(q + 2, type.at)
          BY <1>2, <4>1, <4>2, TypeReads
        <4>4. QED
          BY <4>1, <4>3, Reading
      <3>2. CASE Tok(q + 1) # ":"
        <4>1. type.at = q + 1
          BY <2>1, <3>2 DEF Got
        <4>2. QED
          BY <1>2, <2>2, <4>1 DEF Takes
      <3>3. QED
        BY <3>1, <3>2
    <2>4. type.at \in Int
      BY <2>3 DEF Takes
    <2>5. Reads(type.at, v.at)
      BY <1>2, <2>1, <2>4, DefaultReads
    <2>6. PICK name, made :
            name = Tok(q) /\ made = OneParam(name, type, v)
      OBVIOUS
    <2>7. Takes(q, Then(made, g.oldParams[Accept(made.at, ",")]).at)
      BY <1>2, <2>3, <2>5, <2>6, AddedReads
    <2>8. OldParams(p, g) = Then(made, g.oldParams[Accept(made.at, ",")])
      BY <1>1, <1>4, <2>1, <2>6 DEF OldParams
    <2>9. PICK u : u = Then(made, g.oldParams[Accept(made.at, ",")])
      OBVIOUS
    <2>10. Takes(q, u.at) /\ OldParams(p, g) = u
      BY <2>7, <2>8, <2>9
    <2>11. QED
      BY <1>2, <2>10, Reading
  <1>5. CASE Tok(q) \notin {"EOF", ")"} /\ Tok(q) \notin Names
    <2>1. PICK r : r = Accept(q + 1, ",")
      OBVIOUS
    <2>2. Tok(q) # "EOF"
      BY <1>5
    <2>3. q + 1 \in Int /\ Takes(q, q + 1)
      BY <1>2, <2>2, Further
    <2>4. Reads(q + 1, r)
      BY <1>2, <2>1, <2>3, AcceptReads
    <2>5. Takes(q, g.oldParams[r].at)
      <3>1. Takes(q, r)
        BY <2>3, <2>4, Reading
      <3>2. QED
        BY <1>2, <3>1, Called
    <2>6. OldParams(p, g) = g.oldParams[r]
      BY <1>1, <1>5, <2>1 DEF OldParams
    <2>7. QED
      BY <1>2, <2>5, <2>6, Reading
  <1>6. QED
    BY <1>3, <1>4, <1>5

LEMMA LineParamsReads ==
    ASSUME NEW g, NEW m, NEW p, Calls(g, m, p)
    PROVE  Reads(p, LineParams(p, g).at)
  <1>1. PICK q : q = Skip(p)
    OBVIOUS
  <1>2. q \in Int /\ Reads(p, q) /\ Calls(g, m, q) /\ Readable
    BY <1>1, Behind, CallsFrom
  <1>3. CASE Tok(q) \notin Names \/ NextBut(q, 1) # ":"
    <2>1. LineParams(p, g).at = q
      BY <1>1, <1>3 DEF LineParams, Got
    <2>2. QED
      BY <1>2, <2>1
  <1>4. CASE Tok(q) \in Names /\ NextBut(q, 1) = ":" /\ Tok(q + 1) # ":"
    <2>1. LineParams(p, g).at = Raise(q + 1)
      BY <1>1, <1>4 DEF LineParams, Got
    <2>2. Tok(q) # "EOF"
      BY <1>4 DEF Names, Ids
    <2>3. q + 1 \in Int /\ Takes(q, q + 1)
      BY <1>2, <2>2, Further
    <2>4. Reads(q + 1, Raise(q + 1))
      BY <2>3, RaiseReads
    <2>5. QED
      BY <1>2, <2>1, <2>3, <2>4, Reading
  <1>5. CASE Tok(q) \in Names /\ NextBut(q, 1) = ":" /\ Tok(q + 1) = ":"
    <2>1. PICK type, v :
            /\ type = Type(q + 2, {"=", ",", "{", ";", "("})
            /\ v = Value(type.at, ExprUntilEolOr(type.at + 1, {",", "("}))
      OBVIOUS
    <2>2. q > 0
      <3>1. Tok(q) # "EOF"
        BY <1>5 DEF Names, Ids
      <3>2. QED
        BY <1>2, <3>1, TokIs
    <2>3. Takes(q, type.at)
      <3>1. q + 2 \in Int /\ Takes(q, q + 2)
        BY <1>2, <2>2 DEF Takes
      <3>2. Reads(q + 2, type.at)
        BY <1>2, <2>1, <3>1, TypeReads
      <3>3. QED
        BY <3>1, <3>2, Reading
    <2>4. type.at \in Int
      BY <2>3 DEF Takes
    <2>5. Reads(type.at, v.at)
      BY <1>2, <2>1, <2>4, DefaultReads
    <2>6. PICK name, made :
            name = Tok(q) /\ made = OneParam(name, type, v)
      OBVIOUS
    <2>7. Takes(q, Then(made, g.lineParams[Accept(made.at, ",")]).at)
      BY <1>2, <2>3, <2>5, <2>6, AddedReads
    <2>8. LineParams(p, g) = Then(made, g.lineParams[Accept(made.at, ",")])
      BY <1>1, <1>5, <2>1, <2>6 DEF LineParams
    <2>9. PICK u : u = Then(made, g.lineParams[Accept(made.at, ",")])
      OBVIOUS
    <2>10. Takes(q, u.at) /\ LineParams(p, g) = u
      BY <2>7, <2>8, <2>9
    <2>11. QED
      BY <1>2, <2>10, Reading
  <1>6. QED
    BY <1>3, <1>4, <1>5

\* Params is called behind a token.
LEMMA ParamsReads ==
    ASSUME NEW g, NEW m, NEW p, Calls(g, m, p), NEW q, Takes(p, q), NEW decorated
    PROVE  Takes(p, Params(q, decorated, g).at)
  <1>1. PICK lines : lines = g.lineParams[q]
    OBVIOUS
  <1>2. Takes(p, lines.at)
    BY <1>1, Called
  <1>3. Calls(g, m, lines.at)
    BY <1>2, CallsFrom, Reading
  <1>4. CASE Tok(lines.at) # "("
    BY <1>1, <1>2, <1>4 DEF Params
  <1>5. CASE Tok(lines.at) = "("
    <2>1. /\ lines.at + 1 \in Int /\ Takes(lines.at, lines.at + 1)
          /\ Calls(g, m, lines.at + 1)
      BY <1>3, <1>5, Further
    <2>2. Takes(p, lines.at + 1)
      BY <1>2, <2>1, Reading
    <2>3. Takes(p, Skip(lines.at + 1) + 1)
      <3>1. PICK r : r = Skip(lines.at + 1)
        OBVIOUS
      <3>2. Reads(lines.at + 1, r) /\ r \in Int /\ r >= lines.at + 1
        BY <2>1, <3>1, SkipReads, CallsFrom
      <3>3. r > 0
        BY <1>3, <1>5, <3>2, CallsFrom, TokIs
      <3>4. Takes(r, r + 1)
        BY <3>2, <3>3, Reading
      <3>5. Takes(p, r + 1)
        BY <2>2, <3>2, <3>4, Reading
      <3>6. QED
        BY <3>1, <3>5
    <2>4. Takes(p, g.oldParams[lines.at + 1].at)
      BY <2>2, Called
    <2>5. Params(q, decorated, g).at \in
            {lines.at, Skip(lines.at + 1) + 1, g.oldParams[lines.at + 1].at}
      BY <1>1, <1>5 DEF Params, Got
    <2>6. QED
      BY <1>2, <2>3, <2>4, <2>5
  <1>6. QED
    BY <1>4, <1>5

LEMMA ReturnTypeReads ==
    ASSUME Readable, NEW p \in Int, p # 0
    PROVE  Takes(p, ReturnType(p)) /\ ReturnType(p) \in Int
  <1>1. PICK q : q = Pass(p) /\ q \in Int /\ Takes(p, q)
    BY PassReads DEF Takes
  <1>2. Reads(q, Over(q, {"*"}))
    BY <1>1, OverReads
  <1>3. Takes(p, ReturnType(p))
    BY <1>1, <1>2, Reading DEF ReturnType
  <1>4. QED
    BY <1>3 DEF Takes

LEMMA OptionalBodyReads ==
    ASSUME NEW g, NEW m, NEW p, Calls(g, m, p)
    PROVE  Reads(p, OptionalBody(p, g).at)
  <1>1. PICK body, e :
            /\ body = (IF Tok(p) = "{" THEN Block(p, g) ELSE Got(p, <<>>)).at
            /\ e = Accept(body, ";")
    OBVIOUS
  <1>2. Readable /\ Reads(p, p)
    BY CallsFrom, Reading
  <1>3. Reads(p, body)
    <2>1. Takes(p, Block(p, g).at)
      BY BlockReads
    <2>2. Reads(p, Block(p, g).at)
      BY <2>1, Reading
    <2>3. body \in {Block(p, g).at, p}
      BY <1>1 DEF Got
    <2>4. QED
      BY <1>2, <2>2, <2>3
  <1>4. body \in Int
    BY <1>3 DEF Reads
  <1>5. Reads(body, e)
    BY <1>1, <1>2, <1>4, AcceptReads
  <1>6. OptionalBody(p, g).at = e
    BY <1>1 DEF OptionalBody, OfKind, Ended, Got
  <1>7. QED
    BY <1>3, <1>5, <1>6, Reading

LEMMA OldTypeReads ==
    ASSUME NEW g, NEW m, NEW p, Calls(g, m, p), NEW params, params.at = p,
           NEW name, NEW class
    PROVE  Reads(p, OldType(name, params, class, g).at)
  <1>1. PICK type : type = IF Tok(p) = ":" THEN Collected(p + 1, ReturnType(p + 1))
                           ELSE Got(p, <<"I32">>)
    OBVIOUS
  <1>2. Reads(p, type.at)
    <2>1. CASE Tok(p) = ":"
      <3>1. /\ p + 1 \in Int /\ p + 1 # 0 /\ Takes(p, p + 1) /\ Calls(g, m, p + 1)
            /\ Readable
        BY <2>1, Further, CallsFrom
      <3>2. Takes(p + 1, ReturnType(p + 1))
        BY <3>1, ReturnTypeReads
      <3>3. type.at = ReturnType(p + 1)
        BY <1>1, <2>1 DEF Collected, Got
      <3>4. QED
        BY <3>1, <3>2, <3>3, Reading
    <2>2. CASE Tok(p) # ":"
      <3>1. type.at = p
        BY <1>1, <2>2 DEF Got
      <3>2. QED
        BY <3>1, CallsFrom, Reading
    <2>3. QED
      BY <2>1, <2>2
  <1>3. Calls(g, m, type.at)
    BY <1>2, CallsFrom
  <1>4. Reads(type.at, Skip(type.at)) /\ Calls(g, m, Skip(type.at))
    BY <1>3, Behind
  <1>5. Reads(Skip(type.at), OptionalBody(Skip(type.at), g).at)
    BY <1>4, OptionalBodyReads
  <1>6. OldType(name, params, class, g).at = OptionalBody(Skip(type.at), g).at
    BY <1>1 DEF OldType, OldBody, RoutineOf, Got
  <1>7. QED
    BY <1>2, <1>4, <1>5, <1>6, Reading

LEMMA OldFunctionReads ==
    ASSUME NEW g, NEW m, NEW p, Calls(g, m, p), Tok(p) # "EOF", NEW class
    PROVE  Takes(p, OldFunction(p, class, g).at)
  <1>1. PICK q, r : q = Pass(p + 1) /\ r = Take(q, "(")
    OBVIOUS
  <1>2. p + 1 \in Int /\ Takes(p, p + 1) /\ Readable
    BY Further, CallsFrom
  <1>3. Reads(p + 1, q) /\ q \in Int
    BY <1>1, <1>2, PassReads DEF Reads
  <1>4. Reads(q, r)
    BY <1>1, <1>2, <1>3, TakeReads
  <1>5. PICK params, name : params = g.oldParams[r] /\ name = Tok(p + 1)
    OBVIOUS
  <1>6. Takes(p, params.at)
    <2>1. Takes(p, r)
      BY <1>2, <1>3, <1>4, Reading
    <2>2. QED
      BY <1>5, <2>1, Called
  <1>7. Calls(g, m, params.at)
    BY <1>6, CallsFrom, Reading
  <1>8. Reads(params.at, OldType(name, params, class, g).at)
    BY <1>7, OldTypeReads
  <1>9. OldFunction(p, class, g) = OldType(name, params, class, g)
    BY <1>1, <1>5 DEF OldFunction
  <1>10. QED
    BY <1>6, <1>8, <1>9, Reading

\* A heading takes a token, or raises.
LEMMA HeadingReads ==
    ASSUME NEW g, NEW m, NEW p, Calls(g, m, p), p > 0, NEW class
    PROVE  Takes(p, Heading(p, class).at)
  <1>1. PICK q : q = Skip(ReturnType(p))
    OBVIOUS
  <1>2. Readable /\ p \in Int /\ p # 0
    BY CallsFrom
  <1>3. Takes(p, ReturnType(p))
    BY <1>2, ReturnTypeReads
  <1>4. Calls(g, m, ReturnType(p))
    BY <1>3, CallsFrom, Reading
  <1>5. Reads(ReturnType(p), q) /\ q \in Int
    BY <1>1, <1>4, Behind
  <1>6. Takes(p, Pass(q))
    BY <1>3, <1>5, PassReads, Reading
  <1>7. Takes(p, Raise(p)) /\ Takes(p, p + 1) /\ Takes(p, p + 2)
    BY <1>2, RaiseReads DEF Takes
  <1>8. Takes(p, Raise(p + 2))
    <2>1. p + 2 \in Int
      BY <1>2
    <2>2. QED
      BY <1>7, <2>1, RaiseReads, Reading
  <1>9. Heading(p, class).at \in {Pass(q), Raise(p), p + 1, p + 2, Raise(p + 2)}
    BY <1>1 DEF Heading
  <1>10. QED
    BY <1>6, <1>7, <1>8, <1>9

LEMMA DefinitionReads ==
    ASSUME NEW g, NEW m, NEW p, Calls(g, m, p), NEW kind
    PROVE  Reads(p, Definition(p, kind, g).at)
  <1>1. PICK q, e : q = ExprUntil(p + 1, ";") /\ e = Accept(q, ";")
    OBVIOUS
  <1>2. Readable /\ p \in Int /\ p # 0
    BY CallsFrom
  <1>3. ASSUME Tok(p) # "EOF" PROVE Takes(p, e) /\ Takes(p, p + 1)
    <2>1. p + 1 \in Int /\ Takes(p, p + 1)
      BY <1>3, Further
    <2>2. Reads(p + 1, q)
      BY <1>1, <1>2, <2>1, ExprUntilReads
    <2>3. q \in Int
      BY <2>2 DEF Reads
    <2>4. Reads(q, e)
      BY <1>1, <1>2, <2>3, AcceptReads
    <2>5. QED
      BY <2>1, <2>2, <2>4, Reading
  <1>4. Takes(p, Block(p, g).at) /\ Reads(p, Raise(p))
    BY <1>2, BlockReads, RaiseReads
  <1>5. \/ Tok(p) # "EOF" /\ Definition(p, kind, g).at \in {e, p + 1}
        \/ Definition(p, kind, g).at \in {Block(p, g).at, Raise(p)}
    BY <1>1 DEF Definition, OfKind, Got
  <1>6. QED
    <2>1. PICK d, b : d = Definition(p, kind, g).at /\ b = Block(p, g).at
      OBVIOUS
    <2>2. (Tok(p) # "EOF" /\ d \in {e, p + 1}) \/ d \in {b, Raise(p)}
      BY <1>5, <2>1
    <2>3. Takes(p, b) /\ Reads(p, Raise(p))
      BY <1>4, <2>1
    <2>4. Reads(p, d)
      BY <1>3, <2>2, <2>3, Reading
    <2>5. QED
      BY <2>1, <2>4

LEMMA AfterHeadingReads ==
    ASSUME NEW g, NEW m, NEW p, Calls(g, m, p), NEW head, Takes(p, head.at), NEW class
    PROVE  Takes(p, AfterHeading(head, class, g).at)
  <1>1. PICK params : params = Params(head.at, FALSE, g)
    OBVIOUS
  <1>2. Takes(p, params.at)
    BY <1>1, ParamsReads
  <1>3. Calls(g, m, params.at)
    BY <1>2, CallsFrom, Reading
  <1>4. PICK q : q = Skip(params.at)
    OBVIOUS
  <1>5. Reads(params.at, q) /\ Calls(g, m, q)
    BY <1>3, <1>4, Behind
  <1>6. PICK kind, d : kind = head.kind /\ d = Definition(q, kind, g)
    OBVIOUS
  <1>7. Reads(q, d.at)
    BY <1>5, <1>6, DefinitionReads
  <1>8. AfterHeading(head, class, g).at = d.at
    BY <1>1, <1>4, <1>6 DEF AfterHeading, AfterParams, RoutineOf, Got
  <1>9. QED
    BY <1>2, <1>5, <1>7, <1>8, Reading

LEMMA FunctionReads ==
    ASSUME NEW g, NEW m, NEW p, Calls(g, m, p), p > 0, NEW class
    PROVE  Takes(p, Function(p, class, g).at)
  <1>1. PICK q : q = Over(p, Decorators \union {"EOL"})
    OBVIOUS
  <1>2. Readable /\ p \in Int
    BY CallsFrom
  <1>3. Reads(p, q) /\ q >= p
    BY <1>1, <1>2, OverReads
  <1>4. q \in Int /\ q > 0 /\ Calls(g, m, q)
    BY <1>2, <1>3, CallsFrom DEF Reads
  <1>5. CASE Tok(q) = "func"
    <2>1. Takes(q, OldFunction(q, class, g).at)
      BY <1>4, <1>5, OldFunctionReads
    <2>2. Function(p, class, g) = OldFunction(q, class, g)
      BY <1>1, <1>5 DEF Function
    <2>3. QED
      BY <1>3, <2>1, <2>2, Reading
  <1>6. CASE Tok(q) # "func"
    <2>1. PICK head : head = Heading(q, class)
      OBVIOUS
    <2>2. Takes(q, head.at)
      BY <1>4, <2>1, HeadingReads
    <2>3. Takes(q, AfterHeading(head, class, g).at)
      BY <1>4, <2>2, AfterHeadingReads
    <2>4. Function(p, class, g) = AfterHeading(head, class, g)
      BY <1>1, <1>6, <2>1 DEF Function
    <2>5. QED
      BY <1>3, <2>3, <2>4, Reading
  <1>7. QED
    BY <1>5, <1>6

LEMMA MethodBodyReads ==
    ASSUME NEW g, NEW m, NEW p, Calls(g, m, p), NEW params, Takes(p, params.at),
           NEW name, NEW type, NEW class
    PROVE  Takes(p, MethodBody(name, type, params, class, g).at)
  <1>1. Calls(g, m, params.at)
    BY CallsFrom, Reading
  <1>2. Reads(params.at, Skip(params.at)) /\ Calls(g, m, Skip(params.at))
    BY <1>1, Behind
  <1>3. Reads(Skip(params.at), OptionalBody(Skip(params.at), g).at)
    BY <1>2, OptionalBodyReads
  <1>4. MethodBody(name, type, params, class, g).at = OptionalBody(Skip(params.at), g).at
    BY DEF MethodBody, RoutineOf, Got
  <1>5. QED
    BY <1>2, <1>3, <1>4, Reading

LEMMA OutOfClassReads ==
    ASSUME NEW g, NEW m, NEW p, Calls(g, m, p), Tok(p) # "EOF"
    PROVE  Takes(p, OutOfClass(p, g).at)
  <1>1. PICK class, q, s :
            /\ class = Tok(p + 1) /\ q = Pass(p + 1)
            /\ s = Over(q, Decorators \union {"EOL"})
    OBVIOUS
  <1>2. PICK bare : bare = (/\ Tok(s) \in Ids
                            /\ NextBut(s, 1) = "(" \/ NextBut(s, 2) = ":")
    OBVIOUS
  <1>3. PICK name, type, decorated :
            /\ name = IF bare THEN s ELSE Skip(ReturnType(s))
            /\ type = IF bare THEN <<"Void">> ELSE Words(s, ReturnType(s))
            /\ decorated = \E r \in (p + 2)..(s - 1) : Tok(r) \in Decorators
    OBVIOUS
  <1>4. p + 1 \in Int /\ p > 0 /\ p + 1 > 0 /\ Takes(p, p + 1) /\ Readable
    <2>1. p \in Int /\ p > 0 /\ Takes(p, p + 1) /\ Readable
      BY Further, CallsFrom
    <2>2. QED
      BY <2>1
  <1>5. Takes(p, q) /\ q \in Int /\ q > 0
    BY <1>1, <1>4 DEF Pass, Takes
  <1>6. Reads(q, s) /\ s \in Int /\ s > 0
    <2>1. Reads(q, s) /\ s >= q
      BY <1>1, <1>4, <1>5, OverReads
    <2>2. QED
      BY <1>5, <2>1 DEF Reads
  <1>7. Takes(p, s) /\ Calls(g, m, s)
    BY <1>5, <1>6, CallsFrom, Reading
  <1>8. Reads(s, name) /\ name \in Int
    <2>1. Takes(s, ReturnType(s))
      BY <1>4, <1>6, ReturnTypeReads
    <2>2. Calls(g, m, ReturnType(s))
      BY <1>7, <2>1, CallsFrom, Reading
    <2>3. Reads(ReturnType(s), Skip(ReturnType(s)))
      BY <2>2, Behind
    <2>4. Reads(s, Skip(ReturnType(s)))
      BY <2>1, <2>3, Reading
    <2>5. Reads(s, s)
      BY <1>6, Reading
    <2>6. Reads(s, name)
      BY <1>3, <2>4, <2>5
    <2>7. QED
      BY <2>6 DEF Reads
  <1>9. PICK params : params = Params(Pass(name), ~bare, g)
    OBVIOUS
  <1>10. Takes(p, params.at)
    <2>1. Takes(p, Pass(name))
      BY <1>7, <1>8, PassReads, Reading
    <2>2. QED
      BY <1>9, <2>1, ParamsReads
  <1>11. PICK n, made : n = Tok(name) /\ made = MethodBody(n, type, params, class, g)
    OBVIOUS
  <1>12. Takes(p, made.at)
    BY <1>10, <1>11, MethodBodyReads
  <1>13. Takes(p, Got(Raise(s), <<>>).at)
    BY <1>6, <1>7, RaiseReads, Reading DEF Got
  <1>14. Takes(p, Function(s, class, g).at)
    <2>1. Takes(s, Function(s, class, g).at)
      BY <1>6, <1>7, FunctionReads
    <2>2. QED
      BY <1>7, <2>1, Reading
  <1>15. OutOfClass(p, g) \in {made, Got(Raise(s), <<>>), Function(s, class, g)}
    <2>1. OutOfClass(p, g) =
            IF bare \/ (decorated /\ Tok(s) \in Names) THEN made
            ELSE IF decorated THEN Got(Raise(s), <<>>) ELSE Function(s, class, g)
      BY <1>1, <1>2, <1>3, <1>9, <1>11 DEF OutOfClass
    <2>2. QED
      BY <2>1
  <1>16. QED
    BY <1>12, <1>13, <1>14, <1>15

-----------------------------------------------------------------------------
(* Classes. *)

LEMMA BasesReads ==
    ASSUME NEW g, NEW m, NEW p, Calls(g, m, p)
    PROVE  Reads(p, Bases(p, g).at)
  <1>1. PICK q, r, s, made :
            /\ q = Skip(p) /\ r = Skip(q + 1)
            /\ s = IF Tok(r) \in Visibility THEN r + 1 ELSE r
            /\ made = Got(r, <<Tok(q)>>)
    OBVIOUS
  <1>2. q \in Int /\ Reads(p, q) /\ Calls(g, m, q)
    BY <1>1, Behind
  <1>3. CASE Tok(q) \notin Names
    <2>1. Bases(p, g).at = q
      BY <1>1, <1>3 DEF Bases, Got
    <2>2. QED
      BY <1>2, <2>1
  <1>4. CASE Tok(q) \in Names
    <2>1. Tok(q) # "EOF"
      BY <1>4 DEF Names, Ids
    <2>2. Takes(q, q + 1) /\ Calls(g, m, q + 1)
      BY <1>2, <2>1, Further
    <2>3. Reads(q + 1, r) /\ Calls(g, m, r)
      BY <1>1, <2>2, Behind
    <2>4. Reads(r, s)
      <3>1. CASE Tok(r) \in Visibility
        <4>1. Tok(r) # "EOF"
          BY <3>1 DEF Visibility
        <4>2. Takes(r, r + 1)
          BY <2>3, <4>1, Further
        <4>3. QED
          BY <1>1, <3>1, <4>2, Reading
      <3>2. CASE Tok(r) \notin Visibility
        BY <1>1, <2>3, <3>2, CallsFrom, Reading
      <3>3. QED
        BY <3>1, <3>2
    <2>5. Takes(q, r) /\ Takes(q, s)
      BY <2>2, <2>3, <2>4, Reading
    <2>6. Takes(q, g.bases[s].at)
      BY <1>2, <2>5, Called
    <2>7. Reads(q, made.at)
      BY <1>1, <2>5, Reading DEF Got
    <2>8. Takes(q, Then(made, g.bases[s]).at)
      BY <2>6, <2>7, ThenReads
    <2>9. Bases(p, g) = Then(made, g.bases[s])
      BY <1>1, <1>4 DEF Bases
    <2>10. QED
      BY <1>2, <2>8, <2>9, Reading
  <1>5. QED
    BY <1>3, <1>4

LEMMA RawItemReads ==
    ASSUME Readable, NEW p \in Int
    PROVE  /\ Reads(p, RawItem(p))
           /\ Tok(p) \notin {"EOF", "}"} => Takes(p, RawItem(p))
  <1> DEFINE at == {q \in Ahead(p) :
                      /\ HowMany(p, q, {"{"}) = HowMany(p, q, {"}"})
                      /\ Tok(q) \in {";", "}"}}
  <1>1. PICK e, r : e = First(p, at) /\ r = Accept(e, ";")
    OBVIOUS
  <1>2. e \in at => Tok(e) \in {";", "}"}
    OBVIOUS
  <1>3. RawItem(p) = r
    BY <1>1 DEF RawItem
  <1>4. Reads(p, e) /\ (e \in at \/ Tok(e) = "EOF")
    <2> HIDE DEF at
    <2>1. QED
      BY <1>1, FirstReads
  <1> HIDE DEF at
  <1>5. e \in Int
    BY <1>4 DEF Reads
  <1>6. Reads(e, r)
    BY <1>1, <1>5, AcceptReads
  <1>7. Reads(p, r)
    BY <1>4, <1>6, Reading
  <1>8. ASSUME Tok(p) \notin {"EOF", "}"} PROVE Takes(p, r)
    <2>1. e = p => Tok(p) = ";"
      BY <1>2, <1>4, <1>8
    <2>2. QED
      BY <1>1, <1>4, <2>1, StopTaken
  <1>9. QED
    BY <1>3, <1>7, <1>8

LEMMA ClassReads ==
    ASSUME NEW g, NEW m, NEW p, Calls(g, m, p), Tok(p) # "EOF"
    PROVE  Takes(p, ClassDecl(p, g).at)
  <1>1. PICK name, q, bases :
            /\ name = Skip(p + 1) /\ q = Skip(Pass(name))
            /\ bases = IF Tok(q) = "Inherits" THEN g.bases[q + 1] ELSE Got(q, <<>>)
    OBVIOUS
  <1>2. Takes(p, p + 1) /\ Calls(g, m, p + 1)
    BY Further
  <1>3. Reads(p + 1, name) /\ Calls(g, m, name) /\ name \in Int
    BY <1>1, <1>2, Behind
  <1>4. Reads(name, Pass(name))
    BY <1>3, PassReads
  <1>5. Calls(g, m, Pass(name))
    BY <1>3, <1>4, CallsFrom
  <1>6. Reads(Pass(name), q) /\ Calls(g, m, q) /\ q \in Int
    BY <1>1, <1>5, Behind
  <1>7. Takes(p, q)
    BY <1>2, <1>3, <1>4, <1>6, Reading
  <1>8. Takes(p, bases.at)
    <2>1. CASE Tok(q) = "Inherits"
      <3>1. Takes(q, q + 1)
        BY <1>6, <2>1, Further
      <3>2. Takes(p, q + 1)
        BY <1>7, <3>1, Reading
      <3>3. QED
        BY <1>1, <2>1, <3>2, Called
    <2>2. CASE Tok(q) # "Inherits"
      BY <1>1, <1>7, <2>2 DEF Got
    <2>3. QED
      BY <2>1, <2>2
  <1>9. bases.at \in Int /\ Readable
    BY <1>8, CallsFrom DEF Takes
  <1>10. PICK class, v, r : class = Tok(name) /\ v = "Public" /\ r = Take(bases.at, "{")
    OBVIOUS
  <1>11. Reads(bases.at, r)
    BY <1>9, <1>10, TakeReads
  <1>12. Takes(p, r)
    BY <1>8, <1>11, Reading
  <1>13. class \in Toks /\ v \in Visibility
    BY <1>3, <1>9, <1>10, TokIs DEF Visibility
  <1>14. Takes(p, g.items[r][class][v].at)
    BY <1>12, <1>13, Called
  <1>15. PICK c, e : c = g.items[r][class][v].at /\ e = Accept(c, ";")
    OBVIOUS
  <1>16. c \in Int
    BY <1>14, <1>15 DEF Takes
  <1>17. Reads(c, e)
    BY <1>9, <1>15, <1>16, AcceptReads
  <1>18. Takes(p, e)
    <2>1. Takes(p, c)
      BY <1>14, <1>15, ZenonT(60)
    <2>2. QED
      BY <1>17, <2>1, Reading
  <1>19. ClassDecl(p, g).at = e
    BY <1>1, <1>10, <1>15 DEF ClassDecl, AfterBases, ClassOf, Got
  <1>20. QED
    BY <1>18, <1>19

LEMMA AfterHitReads ==
    ASSUME NEW g, NEW m, NEW p, Calls(g, m, p), Tok(p) # "EOF"
    PROVE  Takes(p, AfterHit(p)) /\ AfterHit(p) > 0 /\ Calls(g, m, AfterHit(p))
  <1>1. PICK o, h, r : /\ o = OutOfBrackets(p + 1, {";"} \union {"EOL"})
                       /\ h = Skip(o) /\ r = Accept(h, ";")
    OBVIOUS
  <1>2. Readable /\ p + 1 \in Int /\ p + 1 > 0 /\ Takes(p, p + 1)
    <2>1. Readable /\ p \in Int /\ p > 0 /\ Takes(p, p + 1)
      BY Further, CallsFrom
    <2>2. QED
      BY <2>1
  <1>3. Reads(p + 1, o) /\ o >= p + 1
    <2>1. \A at : Reads(p + 1, First(p + 1, at)) /\ First(p + 1, at) >= p + 1
      BY <1>2, FirstReads
    <2>2. QED
      BY <1>1, <2>1 DEF OutOfBrackets
  <1>4. o \in Int
    BY <1>3 DEF Reads
  <1>5. Reads(o, h) /\ h >= o /\ h \in Int
    BY <1>1, <1>2, <1>4, SkipReads
  <1>6. Reads(h, r) /\ r >= h
    <2>1. Reads(h, r) /\ r \in {h, h + 1}
      BY <1>1, <1>2, <1>5, AcceptReads DEF Accept
    <2>2. QED
      BY <1>5, <2>1
  <1>7. r \in Int /\ r > 0
    BY <1>2, <1>3, <1>4, <1>5, <1>6 DEF Reads
  <1>8. Reads(r, Skip(r)) /\ Skip(r) >= r /\ Skip(r) \in Int
    BY <1>2, <1>7, SkipReads
  <1>9. Takes(p, Skip(r)) /\ Skip(r) > 0
    BY <1>2, <1>3, <1>5, <1>6, <1>7, <1>8, Reading
  <1>10. AfterHit(p) = Skip(r)
    BY <1>1 DEF AfterHit, HitSpec, ExprUntilEolOr
  <1>11. Calls(g, m, Skip(r))
    BY <1>9, CallsFrom, Reading
  <1>12. QED
    BY <1>9, <1>10, <1>11

\* Where items end.
Closes(p) == Tok(p) \in {"EOF", "}"}

\* Where a function is not one after all, its error is at q or further on.
LEMMA PassedOver ==
    ASSUME NEW g, NEW m, NEW q, Calls(g, m, q), ~Closes(q), NEW e, Takes(q, e), e < 0
    PROVE  Takes(q, RawItem(-e))
  <1>1. Readable /\ q \in Int /\ q > 0
    <2>1. Readable /\ q \in Int
      BY CallsFrom
    <2>2. Tok(q) # "EOF"
      BY DEF Closes
    <2>3. QED
      BY <2>1, <2>2, TokIs
  <1>2. PICK f \in Int : f = -e /\ f >= q
    BY <1>1 DEF Takes
  <1>3. \A r \in Int : Reads(r, RawItem(r)) /\ (~Closes(r) => Takes(r, RawItem(r)))
    BY <1>1, RawItemReads DEF Closes
  <1>4. CASE f = q
    BY <1>1, <1>2, <1>3, <1>4
  <1>5. CASE f # q
    <2>1. Takes(q, f)
      BY <1>1, <1>2, <1>5 DEF Takes
    <2>2. Reads(f, RawItem(f))
      BY <1>3
    <2>3. Takes(q, RawItem(f))
      BY <2>1, <2>2, Reading
    <2>4. QED
      BY <1>2, <2>3
  <1>6. QED
    BY <1>4, <1>5

\* A function, or what is put before a Hit.
LEMMA FunctionItemReads ==
    ASSUME NEW g, NEW m, NEW q, Calls(g, m, q), Tok(q) \notin {"EOF", "}"},
           NEW class, NEW f,
           f = Function(IF Tok(q) = "Hit" THEN AfterHit(q) ELSE q, class, g)
    PROVE  Takes(q, f.at) /\ (f.at < 0 => Takes(q, RawItem(-f.at)))
  <1>1. Tok(q) # "EOF"
    OBVIOUS
  <1>2. q \in Int /\ q > 0
    <2>1. q \in Int /\ Readable
      BY CallsFrom
    <2>2. QED
      BY <1>1, <2>1, TokIs
  <1>3. Takes(q, f.at)
    <2>1. CASE Tok(q) = "Hit"
      <3>1. PICK r : r = AfterHit(q)
        OBVIOUS
      <3>2. Takes(q, r) /\ r > 0 /\ Calls(g, m, r)
        BY <1>1, <3>1, AfterHitReads
      <3>3. Takes(r, Function(r, class, g).at)
        BY <3>2, FunctionReads
      <3>4. f = Function(r, class, g)
        BY <2>1, <3>1
      <3>5. QED
        BY <3>2, <3>3, <3>4, Reading
    <2>2. CASE Tok(q) # "Hit"
      <3>1. f = Function(q, class, g)
        BY <2>2
      <3>2. QED
        BY <1>2, <3>1, FunctionReads
    <2>3. QED
      BY <2>1, <2>2
  <1>4. QED
    BY <1>3, PassedOver DEF Closes

LEMMA ItemReads ==
    ASSUME NEW g, NEW m, NEW p, Calls(g, m, p), NEW class, NEW visibility
    PROVE  /\ Reads(p, ClassItem(p, class, visibility, g).at)
           /\ Tok(p) \notin {"EOF", "}"} =>
                Takes(p, ClassItem(p, class, visibility, g).at)
  <1>1. PICK q : q = Skip(p)
    OBVIOUS
  <1>2. q \in Int /\ Reads(p, q) /\ Calls(g, m, q) /\ Readable
    BY <1>1, Behind, CallsFrom
  <1>3. PICK item : item = ClassItem(p, class, visibility, g)
    OBVIOUS
  <1>4. CASE Tok(q) \in {"EOF", "}"}
    <2>1. item.at = q
      BY <1>1, <1>3, <1>4 DEF ClassItem, Got
    <2>2. Tok(p) \notin {"EOF", "}"} => q # p
      BY <1>4
    <2>3. Tok(p) \notin {"EOF", "}"} => Takes(p, q)
      BY <1>2, <2>2, Moved
    <2>4. QED
      BY <1>2, <1>3, <2>1, <2>3
  <1>5. CASE Tok(q) \notin {"EOF", "}"}
    <2>1. Tok(q) # "EOF"
      BY <1>5
    <2>2. q > 0 /\ Takes(q, ClassDecl(q, g).at)
      BY <1>2, <2>1, TokIs, ClassReads
    <2>3. PICK u, e : u = Upto(q + 2, {";"}) /\ e = Accept(u, ";")
      OBVIOUS
    <2>4. Takes(q, e)
      <3>1. q + 2 \in Int /\ Takes(q, q + 2)
        BY <1>2, <2>2 DEF Takes
      <3>2. Reads(q + 2, u)
        BY <1>2, <2>3, <3>1, UptoReads
      <3>3. u \in Int
        BY <3>2 DEF Reads
      <3>4. Reads(u, e)
        BY <1>2, <2>3, <3>3, AcceptReads
      <3>5. QED
        BY <3>1, <3>2, <3>4, Reading
    <2>5. Takes(q, VarDecl(q, FALSE, g).at)
      BY <1>2, VarDeclReads
    <2>6. Takes(q, RawItem(q))
      BY <1>2, <1>5, RawItemReads
    <2>7. PICK f : f = Function(IF Tok(q) = "Hit" THEN AfterHit(q) ELSE q, class, g)
      OBVIOUS
    <2>8. Takes(q, f.at) /\ (f.at < 0 => Takes(q, RawItem(-f.at)))
      BY <1>2, <1>5, <2>7, FunctionItemReads
    <2>9. \/ item.at \in {ClassDecl(q, g).at, e, VarDecl(q, FALSE, g).at, RawItem(q), f.at}
          \/ f.at < 0 /\ item.at = RawItem(-f.at)
      BY <1>1, <1>3, <1>5, <2>3, <2>7 DEF ClassItem, Hitting, Got
    <2>10. Takes(q, item.at)
      BY <2>2, <2>4, <2>5, <2>6, <2>8, <2>9
    <2>11. Takes(p, item.at)
      BY <1>2, <2>10, Reading
    <2>12. QED
      BY <1>3, <2>11, Reading
  <1>6. QED
    BY <1>4, <1>5

LEMMA GroupReads ==
    ASSUME NEW g, NEW m, NEW p, Calls(g, m, p),
           NEW class \in Toks, NEW visibility \in Visibility
    PROVE  Reads(p, Group(p, class, visibility, g).at)
  <1>1. CASE Tok(p) \in {"EOF", "}"}
    <2>1. Group(p, class, visibility, g).at = Take(p, "}")
      BY <1>1 DEF Group, Got
    <2>2. QED
      BY <2>1, CallsFrom, TakeReads
  <1>2. CASE Tok(p) \notin {"EOF", "}"}
    <2>1. PICK item, more :
            /\ item = ClassItem(p, class, visibility, g)
            /\ more = g.group[item.at][class][visibility]
      OBVIOUS
    <2>2. Takes(p, item.at)
      BY <1>2, <2>1, ItemReads
    <2>3. Takes(p, more.at)
      BY <2>1, <2>2, Called
    <2>4. Takes(p, Then(item, more).at)
      BY <2>2, <2>3, ThenReads, Reading
    <2>5. Group(p, class, visibility, g) = Then(item, more)
      BY <1>2, <2>1 DEF Group
    <2>6. QED
      BY <2>4, <2>5, Reading
  <1>3. QED
    BY <1>1, <1>2

LEMMA ItemsReads ==
    ASSUME NEW g, NEW m, NEW p, Calls(g, m, p),
           NEW class \in Toks, NEW visibility \in Visibility
    PROVE  Reads(p, Items(p, class, visibility, g).at)
  <1>1. PICK q, r : q = Skip(p) /\ r = Skip(q + 1)
    OBVIOUS
  <1>2. q \in Int /\ Reads(p, q) /\ Calls(g, m, q) /\ Readable
    BY <1>1, Behind, CallsFrom
  <1>3. PICK items : items = Items(p, class, visibility, g)
    OBVIOUS
  <1>4. CASE Tok(q) \in {"EOF", "}"}
    <2>1. items.at = Take(q, "}")
      BY <1>1, <1>3, <1>4 DEF Items, Got
    <2>2. Reads(q, Take(q, "}"))
      BY <1>2, TakeReads
    <2>3. QED
      BY <1>2, <1>3, <2>1, <2>2, Reading
  <1>5. CASE Tok(q) \notin {"EOF", "}"} /\ Tok(q) \notin Visibility
    <2>1. PICK item, more :
            /\ item = ClassItem(q, class, visibility, g)
            /\ more = g.items[item.at][class][visibility]
      OBVIOUS
    <2>2. Takes(q, item.at)
      BY <1>2, <1>5, <2>1, ItemReads
    <2>3. Takes(q, more.at)
      BY <1>2, <2>1, <2>2, Called
    <2>4. Takes(q, Then(item, more).at)
      BY <2>2, <2>3, ThenReads, Reading
    <2>5. items = Then(item, more)
      BY <1>1, <1>3, <1>5, <2>1 DEF Items
    <2>6. QED
      BY <1>2, <1>3, <2>4, <2>5, Reading
  <1>6. CASE Tok(q) \notin {"EOF", "}"} /\ Tok(q) \in Visibility
    <2>1. PICK v \in Visibility : v = Tok(q)
      BY <1>6
    <2>2. Tok(q) # "EOF"
      BY <1>6
    <2>3. Takes(q, q + 1) /\ Calls(g, m, q + 1)
      BY <1>2, <2>2, Further
    <2>4. Reads(q + 1, r) /\ Calls(g, m, r) /\ r \in Int
      BY <1>1, <2>3, Behind
    <2>5. Takes(q, r)
      BY <2>3, <2>4, Reading
    <2>6. CASE Tok(r) # "{"
      <3>1. Takes(q, g.items[r][class][v].at)
        BY <1>2, <2>5, Called
      <3>2. items = g.items[r][class][v]
        BY <1>1, <1>3, <1>6, <2>1, <2>6 DEF Items
      <3>3. QED
        BY <1>2, <1>3, <3>1, <3>2, Reading
    <2>7. CASE Tok(r) = "{"
      <3>1. PICK group, more :
              group = g.group[r + 1][class][v] /\ more = g.items[group.at][class][v]
        OBVIOUS
      <3>2. Takes(r, r + 1)
        BY <2>4, <2>7, Further
      <3>3. Takes(q, r + 1)
        BY <2>5, <3>2, Reading
      <3>4. Takes(q, group.at)
        BY <1>2, <3>1, <3>3, Called
      <3>5. Takes(q, more.at)
        BY <1>2, <3>1, <3>4, Called, ZenonT(60)
      <3>6. Takes(q, Then(group, more).at)
        BY <3>4, <3>5, ThenReads, Reading
      <3>7. items = Then(group, more)
        BY <1>1, <1>3, <1>6, <2>1, <2>7, <3>1 DEF Items
      <3>8. QED
        BY <1>2, <1>3, <3>6, <3>7, Reading
    <2>8. QED
      BY <2>6, <2>7
  <1>7. QED
    BY <1>4, <1>5, <1>6

-----------------------------------------------------------------------------
(* The other declarations. *)

LEMMA TemplateParamsReads ==
    ASSUME NEW g, NEW m, NEW p, Calls(g, m, p)
    PROVE  Reads(p, TemplateParams(p, g).at)
  <1>1. PICK q, t : q = Skip(p) /\ t = Take(q + 1, ":")
    OBVIOUS
  <1>2. PICK e, made, r :
            /\ e = TypeUntil(t, {",", "{", ";", "("}) /\ made = Got(e, <<Tok(q)>>)
            /\ r = Accept(e, ",")
    OBVIOUS
  <1>3. q \in Int /\ Reads(p, q) /\ Calls(g, m, q) /\ Readable
    BY <1>1, Behind, CallsFrom
  <1>4. CASE Tok(q) \notin Names \/ NextBut(q, 1) # ":"
    <2>1. TemplateParams(p, g).at = q
      BY <1>1, <1>4 DEF TemplateParams, Got
    <2>2. QED
      BY <1>3, <2>1
  <1>5. CASE Tok(q) \in Names /\ NextBut(q, 1) = ":"
    <2>1. Tok(q) # "EOF"
      BY <1>5 DEF Names, Ids
    <2>2. q + 1 \in Int /\ Takes(q, q + 1)
      BY <1>3, <2>1, Further
    <2>3. Reads(q + 1, t) /\ t \in Int
      BY <1>1, <1>3, <2>2, TakeReads DEF Reads
    <2>4. Reads(t, e)
      BY <1>2, <1>3, <2>3, UntilEolReads
    <2>5. e \in Int
      BY <2>4 DEF Reads
    <2>6. Reads(e, r)
      BY <1>2, <1>3, <2>5, AcceptReads
    <2>7. Takes(q, e) /\ Takes(q, r) /\ Takes(q, t)
      BY <2>2, <2>3, <2>4, <2>6, Reading
    <2>8. Takes(q, g.templateParams[r].at)
      BY <1>3, <2>7, Called
    <2>9. made.at = e
      BY <1>2 DEF Got
    <2>10. Takes(q, Then(made, g.templateParams[r]).at)
      BY <2>7, <2>8, <2>9, ThenReads, Reading
    <2>11. PICK u : u = Then(made, g.templateParams[r])
      OBVIOUS
    <2>12. TemplateParams(p, g).at \in {t, q, u.at}
      BY <1>1, <1>2, <1>5, <2>11 DEF TemplateParams, Got
    <2>13. Reads(q, TemplateParams(p, g).at)
      <3>1. Takes(q, u.at) /\ Reads(q, q)
        BY <1>3, <2>10, <2>11, Reading
      <3>2. QED
        BY <2>7, <2>12, <3>1, Reading
    <2>14. QED
      BY <1>3, <2>13, Reading
  <1>6. QED
    BY <1>4, <1>5

LEMMA UpToStatementReads ==
    ASSUME Readable, NEW p \in Int
    PROVE  Reads(p, UpToStatement(p).at)
  <1>1. PICK q, r : /\ q = IF Tok(p) = "{" THEN Balanced(p, "{", "}") ELSE Upto(p, {";"})
                    /\ r = Accept(q, ";")
    OBVIOUS
  <1>2. Reads(p, q)
    BY <1>1, BalancedReads, UptoReads
  <1>3. q \in Int
    BY <1>2 DEF Reads
  <1>4. Reads(q, r)
    BY <1>1, <1>3, AcceptReads
  <1>5. UpToStatement(p).at = r
    BY <1>1 DEF UpToStatement, Ended, Collected, Got
  <1>6. QED
    BY <1>2, <1>4, <1>5, Reading

LEMMA TemplateReads ==
    ASSUME NEW g, NEW m, NEW p, Calls(g, m, p), Tok(p) # "EOF"
    PROVE  Takes(p, Template(p, g).at)
  <1>1. PICK params : params = g.templateParams[p + 1]
    OBVIOUS
  <1>2. Takes(p, p + 1) /\ Readable
    BY Further, CallsFrom
  <1>3. Takes(p, params.at)
    BY <1>1, <1>2, Called
  <1>4. Calls(g, m, params.at) /\ params.at \in Int /\ params.at # 0
    BY <1>3, CallsFrom, Reading
  <1>5. Template(p, g) = AfterTemplate(params, g)
    BY <1>1 DEF Template
  <1>6. CASE params.at < 0
    BY <1>3, <1>5, <1>6 DEF AfterTemplate
  <1>7. CASE params.at > 0 /\ Tok(params.at) = "Class"
    <2>1. Takes(params.at, ClassDecl(params.at, g).at)
      BY <1>4, <1>7, ClassReads
    <2>2. Template(p, g).at = ClassDecl(params.at, g).at
      <3>1. ~(params.at < 0)
        BY <1>4, <1>7
      <3>2. QED
        BY <1>5, <1>7, <3>1 DEF AfterTemplate, TemplateOf, Got
    <2>3. QED
      BY <1>3, <2>1, <2>2, Reading
  <1>8. CASE params.at > 0 /\ Tok(params.at) # "Class"
    <2>1. PICK f, name : name = "" /\ f = Function(params.at, name, g)
      OBVIOUS
    <2>2. Takes(params.at, f.at)
      BY <1>4, <1>8, <2>1, FunctionReads
    <2>3. ~(params.at < 0)
      BY <1>4, <1>8
    <2>4. Template(p, g).at = AttemptFunction(f).at
      <3>1. Template(p, g) = TemplateOf(params, AttemptFunction(f))
        BY <1>5, <1>8, <2>1, <2>3 DEF AfterTemplate
      <3>2. QED
        BY <3>1 DEF TemplateOf, Got
    <2>5. CASE f.at < 0
      <3>1. PICK e \in Int : e = -f.at /\ Reads(params.at, e)
        <4>1. PICK h \in Int : h = f.at
          BY <2>2 DEF Takes
        <4>2. Reads(params.at, -h) /\ -h \in Int
          BY <1>8, <2>2, <2>5, <4>1 DEF Takes, Reads
        <4>3. QED
          BY <4>1, <4>2
      <3>2. Reads(e, UpToStatement(e).at)
        BY <1>2, UpToStatementReads
      <3>3. AttemptFunction(f) = UpToStatement(e)
        BY <2>5, <3>1 DEF AttemptFunction
      <3>4. QED
        BY <1>3, <2>4, <3>1, <3>2, <3>3, Reading
    <2>6. CASE ~(f.at < 0)
      <3>1. AttemptFunction(f) = f
        BY <2>6 DEF AttemptFunction
      <3>2. QED
        BY <1>3, <2>2, <2>4, <3>1, Reading
    <2>7. QED
      BY <2>5, <2>6
  <1>9. QED
    BY <1>4, <1>6, <1>7, <1>8

LEMMA LineReads ==
    ASSUME NEW g, NEW m, NEW p, Calls(g, m, p), Tok(p) # "EOF"
    PROVE  Takes(p, Line(p).at)
  <1>1. PICK q, r : q = Upto(p + 1, {"EOL", ";"}) /\ r = Accept(q, ";")
    OBVIOUS
  <1>2. p + 1 \in Int /\ Takes(p, p + 1) /\ Readable
    BY Further, CallsFrom
  <1>3. Reads(p + 1, q)
    BY <1>1, <1>2, UptoReads
  <1>4. q \in Int
    BY <1>3 DEF Reads
  <1>5. Reads(q, r)
    BY <1>1, <1>2, <1>4, AcceptReads
  <1>6. Line(p).at = r
    BY <1>1 DEF Line, Got
  <1>7. QED
    BY <1>2, <1>3, <1>5, <1>6, Reading

LEMMA PlugswitchReads ==
    ASSUME Readable, NEW p \in Int, Tok(p) # "EOF"
    PROVE  Takes(p, Plugswitch(p).at)
  <1> DEFINE at == {q \in Ahead(p) :
                /\ q > p /\ Tok(q - 1) = "Plugend"
                /\ HowMany(p, q, {"Plugend"}) >= HowMany(p, q, {"Plugswitch"})}
  <1>1. p \notin at
    OBVIOUS
  <1>2. Plugswitch(p).at = First(p, at)
    BY DEF Plugswitch, Got
  <1>3. QED
    <2> HIDE DEF at
    <2>1. QED
      BY <1>1, <1>2, FirstReads

LEMMA BlendReads ==
    ASSUME NEW g, NEW m, NEW p, Calls(g, m, p), Tok(p) # "EOF"
    PROVE  Takes(p, Blend(p).at)
  <1>1. PICK s, q, b, e :
            /\ s = IF Tok(p + 1) \in Ids THEN p + 2 ELSE p + 1
            /\ q = Skip(s) /\ b = Balanced(q, "{", "}") /\ e = Accept(b, ";")
    OBVIOUS
  <1>2. p \in Int /\ p > 0 /\ Readable
    BY CallsFrom, TokIs
  <1>3. Takes(p, s)
    <2>1. Takes(p, p + 1) /\ Takes(p, p + 2)
      BY <1>2 DEF Takes
    <2>2. QED
      BY <1>1, <2>1
  <1>4. Calls(g, m, s)
    BY <1>3, CallsFrom, Reading
  <1>5. Reads(s, q) /\ q \in Int
    BY <1>1, <1>4, Behind
  <1>6. Reads(q, b)
    BY <1>1, <1>2, <1>5, BalancedReads
  <1>7. b \in Int
    BY <1>6 DEF Reads
  <1>8. Reads(b, e)
    BY <1>1, <1>2, <1>7, AcceptReads
  <1>9. Takes(p, q) /\ Takes(p, e)
    BY <1>3, <1>5, <1>6, <1>8, Reading
  <1>10. Blend(p).at \in {q, e}
    BY <1>1 DEF Blend, Got
  <1>11. QED
    BY <1>9, <1>10

LEMMA DynamicStructReads ==
    ASSUME NEW g, NEW m, NEW p, Calls(g, m, p), Tok(p) # "EOF"
    PROVE  Takes(p, DynamicStruct(p, g).at)
  <1>1. PICK q, s, name, r, t :
            /\ q = Skip(p + 1) /\ s = Take(q, "Struct") /\ name = Skip(s)
            /\ r = Skip(Pass(name)) /\ t = Take(r, "{")
    OBVIOUS
  <1>2. Takes(p, p + 1) /\ Calls(g, m, p + 1) /\ Readable
    BY Further, CallsFrom
  <1>3. Reads(p + 1, q) /\ Calls(g, m, q) /\ q \in Int
    BY <1>1, <1>2, Behind
  <1>4. Reads(q, s)
    BY <1>1, <1>2, <1>3, TakeReads
  <1>5. Calls(g, m, s)
    BY <1>3, <1>4, CallsFrom
  <1>6. Reads(s, name) /\ Calls(g, m, name) /\ name \in Int
    BY <1>1, <1>5, Behind
  <1>7. Reads(name, Pass(name))
    BY <1>6, PassReads
  <1>8. Calls(g, m, Pass(name))
    BY <1>6, <1>7, CallsFrom
  <1>9. Reads(Pass(name), r) /\ r \in Int
    BY <1>1, <1>8, Behind
  <1>10. Reads(r, t)
    BY <1>1, <1>2, <1>9, TakeReads
  <1>11. Takes(p, t)
    <2>1. Takes(p, name)
      BY <1>2, <1>3, <1>4, <1>6, Reading
    <2>2. QED
      BY <1>7, <1>9, <1>10, <2>1, Reading
  <1>12. PICK f, e : f = g.fields[t].at /\ e = Accept(f, ";")
    OBVIOUS
  <1>13. Takes(p, f)
    BY <1>11, <1>12, Called
  <1>14. f \in Int
    BY <1>13 DEF Takes
  <1>15. Reads(f, e)
    BY <1>2, <1>12, <1>14, AcceptReads
  <1>16. DynamicStruct(p, g).at = e
    BY <1>1, <1>12 DEF DynamicStruct, Ended, Got
  <1>17. QED
    BY <1>13, <1>15, <1>16, Reading

LEMMA HitReads ==
    ASSUME NEW g, NEW m, NEW p, Calls(g, m, p), Tok(p) # "EOF"
    PROVE  Takes(p, Hit(p, g).at)
  <1>1. PICK q, name : q = AfterHit(p) /\ name = ""
    OBVIOUS
  <1>2. Takes(p, q) /\ q > 0 /\ Calls(g, m, q)
    BY <1>1, AfterHitReads
  <1>3. PICK f : f = IF Tok(q) = "$" THEN OutOfClass(q, g) ELSE Function(q, name, g)
    OBVIOUS
  <1>4. Takes(q, f.at)
    <2>1. CASE Tok(q) = "$"
      BY <1>2, <1>3, <2>1, OutOfClassReads
    <2>2. CASE Tok(q) # "$"
      BY <1>2, <1>3, <2>2, FunctionReads
    <2>3. QED
      BY <2>1, <2>2
  <1>5. Hit(p, g).at = f.at
    BY <1>1, <1>3 DEF Hit, Hitting, Got
  <1>6. QED
    BY <1>2, <1>4, <1>5, Reading

LEMMA RawReads ==
    ASSUME Readable, NEW p \in Int
    PROVE  Reads(p, Raw(p).at) /\ (Tok(p) # "EOF" => Takes(p, Raw(p).at))
  <1>1. PICK q, r, b, e : /\ q = Upto(p, {";", "{"}) /\ r = Accept(q, ";")
                          /\ b = Balanced(q, "{", "}") /\ e = Accept(b, ";")
    OBVIOUS
  <1>2. Reads(p, q) /\ Tok(q) \in {";", "{", "EOF"}
    BY <1>1, UptoReads
  <1>3. Reads(p, q) /\ q \in Int
    BY <1>2 DEF Reads
  <1>4. CASE Tok(q) = "{"
    <2>1. Takes(q, b)
      BY <1>1, <1>3, <1>4, BalancedReads
    <2>2. b \in Int
      BY <2>1 DEF Takes
    <2>3. Reads(b, e)
      BY <1>1, <2>2, AcceptReads
    <2>4. Takes(p, e)
      BY <1>3, <2>1, <2>3, Reading
    <2>5. Raw(p).at = e
      BY <1>1, <1>4 DEF Raw, Got
    <2>6. QED
      BY <2>4, <2>5, Reading
  <1>5. CASE Tok(q) # "{"
    <2>1. Raw(p).at = r
      BY <1>1, <1>5 DEF Raw, Got
    <2>2. Reads(q, r)
      BY <1>1, <1>3, AcceptReads
    <2>3. Reads(p, r)
      BY <1>3, <2>2, Reading
    <2>4. ASSUME Tok(p) # "EOF" PROVE Takes(p, r)
      <3>1. q = p => Tok(p) = ";"
        BY <1>2, <1>5, <2>4
      <3>2. QED
        BY <1>1, <1>3, <3>1, StopTaken
    <2>5. QED
      BY <2>1, <2>3, <2>4
  <1>6. QED
    BY <1>4, <1>5

LEMMA DeclarationReads ==
    ASSUME NEW g, NEW m, NEW p, Calls(g, m, p), Tok(p) # "EOF"
    PROVE  Takes(p, Declaration(p, g).at)
  <1>1. Readable /\ p \in Int
    BY CallsFrom
  <1>2. PICK all : all = {Line(p), Plugswitch(p), Template(p, g), DynamicStruct(p, g),
                          Blend(p), Hit(p, g), ClassDecl(p, g), OutOfClass(p, g), Raw(p)}
    OBVIOUS
  <1>3. \A made \in all : Takes(p, made.at)
    BY <1>1, <1>2, LineReads, PlugswitchReads, TemplateReads, DynamicStructReads,
       BlendReads, HitReads, ClassReads, OutOfClassReads, RawReads
  <1>4. Takes(p, GlobalVar(p, g).at)
    <2>1. Takes(p, VarDecl(p, TRUE, g).at)
      BY VarDeclReads
    <2>2. GlobalVar(p, g).at = VarDecl(p, TRUE, g).at
      BY DEF GlobalVar, Got
    <2>3. QED
      BY <2>1, <2>2
  <1>5. Declaration(p, g) \in all \/ Declaration(p, g) = GlobalVar(p, g)
    BY <1>2 DEF Declaration
  <1>6. QED
    BY <1>3, <1>4, <1>5

-----------------------------------------------------------------------------
(* The rounds.  The first does its work at the end of the tokens, each     *)
(* other one token before that.                                            *)

LEMMA RulesAre ==
    ASSUME NEW g, NEW p \in Int, NEW r, r = Rules(g)
    PROVE  /\ r.bitFields[p] = BitFields(p, g)
           /\ r.statements[p] = Statements(p, g) /\ r.catches[p] = Catches(p, g)
           /\ r.fields[p] = StructFields(p, g) /\ r.oldParams[p] = OldParams(p, g)
           /\ r.lineParams[p] = LineParams(p, g) /\ r.bases[p] = Bases(p, g)
           /\ r.templateParams[p] = TemplateParams(p, g)
           /\ \A class \in Toks, v \in Visibility :
                /\ r.group[p][class][v] = Group(p, class, v, g)
                /\ r.items[p][class][v] = Items(p, class, v, g)
  <1>1. /\ r.bitFields = [q \in Int |-> BitFields(q, g)]
        /\ r.statements = [q \in Int |-> Statements(q, g)]
        /\ r.catches = [q \in Int |-> Catches(q, g)]
        /\ r.fields = [q \in Int |-> StructFields(q, g)]
    BY DEF Rules
  <1>2. /\ r.oldParams = [q \in Int |-> OldParams(q, g)]
        /\ r.lineParams = [q \in Int |-> LineParams(q, g)]
        /\ r.bases = [q \in Int |-> Bases(q, g)]
        /\ r.templateParams = [q \in Int |-> TemplateParams(q, g)]
    BY DEF Rules
  <1>3. r.group = [q \in Int |->
                    [class \in Toks |-> [v \in Visibility |-> Group(q, class, v, g)]]]
    BY DEF Rules
  <1>4. r.items = [q \in Int |->
                    [class \in Toks |-> [v \in Visibility |-> Items(q, class, v, g)]]]
    BY DEF Rules
  <1>5. \A class \in Toks, v \in Visibility :
            r.group[p][class][v] = Group(p, class, v, g)
    BY <1>3
  <1>6. \A class \in Toks, v \in Visibility :
            r.items[p][class][v] = Items(p, class, v, g)
    BY <1>4
  <1>7. QED
    BY <1>1, <1>2, <1>5, <1>6

LEMMA WorksIf ==
    ASSUME NEW g, NEW m,
           \A p \in From(m + 1) :
                /\ p \in Int
                /\ Reads(p, BitFields(p, g))
                /\ Reads(p, Statements(p, g).at) /\ Reads(p, Catches(p, g).at)
                /\ Reads(p, StructFields(p, g).at) /\ Reads(p, OldParams(p, g).at)
                /\ Reads(p, LineParams(p, g).at) /\ Reads(p, Bases(p, g).at)
                /\ Reads(p, TemplateParams(p, g).at)
                /\ \A class \in Toks, v \in Visibility :
                        /\ Reads(p, Group(p, class, v, g).at)
                        /\ Reads(p, Items(p, class, v, g).at)
    PROVE  Works(Rules(g), m)
  <1>1. SUFFICES ASSUME NEW p \in From(m + 1), NEW r, r = Rules(g)
                 PROVE  /\ Reads(p, r.bitFields[p])
                        /\ Reads(p, r.statements[p].at) /\ Reads(p, r.catches[p].at)
                        /\ Reads(p, r.fields[p].at) /\ Reads(p, r.oldParams[p].at)
                        /\ Reads(p, r.lineParams[p].at) /\ Reads(p, r.bases[p].at)
                        /\ Reads(p, r.templateParams[p].at)
                        /\ \A class \in Toks, v \in Visibility :
                                /\ Reads(p, r.group[p][class][v].at)
                                /\ Reads(p, r.items[p][class][v].at)
    BY DEF Works
  <1>2. p \in Int
    OBVIOUS
  <1>3. /\ r.bitFields[p] = BitFields(p, g)
        /\ r.statements[p] = Statements(p, g) /\ r.catches[p] = Catches(p, g)
        /\ r.fields[p] = StructFields(p, g) /\ r.oldParams[p] = OldParams(p, g)
        /\ r.lineParams[p] = LineParams(p, g) /\ r.bases[p] = Bases(p, g)
        /\ r.templateParams[p] = TemplateParams(p, g)
        /\ \A class \in Toks, v \in Visibility :
                /\ r.group[p][class][v] = Group(p, class, v, g)
                /\ r.items[p][class][v] = Items(p, class, v, g)
    BY <1>1, <1>2, RulesAre
  <1>4. QED
    BY <1>3

LEMMA RoundWorks ==
    ASSUME Readable, NEW m \in Nat, NEW g, Works(g, m + 1)
    PROVE  Works(Rules(g), m)
  <1>1. ASSUME NEW p \in From(m + 1) PROVE p \in Int /\ Calls(g, m + 1, p)
    BY <1>1 DEF Calls, From
  <1>2. QED
    BY <1>1, BitFieldsReads, StatementsReads, CatchesReads, FieldsReads, OldParamsReads,
       LineParamsReads, BasesReads, TemplateParamsReads, GroupReads, ItemsReads, WorksIf

\* At the end of the tokens every production stops, or raises.
LEMMA FirstRound ==
    ASSUME Readable, NEW n \in Nat, n = Len(tokens), NEW g
    PROVE  Works(Rules(g), n)
  <1>1. ASSUME NEW p \in From(n + 1)
        PROVE  /\ p \in Int
               /\ Reads(p, BitFields(p, g))
               /\ Reads(p, Statements(p, g).at) /\ Reads(p, Catches(p, g).at)
               /\ Reads(p, StructFields(p, g).at) /\ Reads(p, OldParams(p, g).at)
               /\ Reads(p, LineParams(p, g).at) /\ Reads(p, Bases(p, g).at)
               /\ Reads(p, TemplateParams(p, g).at)
               /\ \A class \in Toks, v \in Visibility :
                    /\ Reads(p, Group(p, class, v, g).at)
                    /\ Reads(p, Items(p, class, v, g).at)
    <2>1. p \in Int /\ p \notin 1..n
      BY DEF From
    <2>2. Tok(p) = "EOF"
      BY <2>1, TokIs
    <2>3. Skip(p) = p
      BY <2>1, <2>2, SkipReads
    <2>4. Reads(p, p) /\ Reads(p, Take(p, "}")) /\ Reads(p, Take(p, ")"))
      BY <2>1, TakeReads, Reading
    <2>5. BitFields(p, g) = Take(p, "}") /\ StructFields(p, g).at = Take(p, "}")
      BY <2>2, <2>3 DEF BitFields, StructFields, Got
    <2>6. Statements(p, g).at = p /\ Catches(p, g).at = p
      BY <2>2 DEF Statements, Catches, Got
    <2>7. OldParams(p, g).at = Take(p, ")")
      BY <2>2, <2>3 DEF OldParams, Got
    <2>8. LineParams(p, g).at = p /\ Bases(p, g).at = p /\ TemplateParams(p, g).at = p
      <3>1. "EOF" \notin Names
        BY DEF Names, Ids
      <3>2. QED
        BY <2>2, <2>3, <3>1 DEF LineParams, Bases, TemplateParams, Got
    <2>9. \A class, v : /\ Group(p, class, v, g).at = Take(p, "}")
                        /\ Items(p, class, v, g).at = Take(p, "}")
      BY <2>2, <2>3 DEF Group, Items, Got
    <2>10. QED
      BY <2>1, <2>4, <2>5, <2>6, <2>7, <2>8, <2>9
  <1>2. QED
    BY <1>1, WorksIf

Rounds(round, n) ==
    round = [k \in 0..n |-> IF k = 0 THEN NoRules ELSE Rules(round[k - 1])]

LEMMA RoundsExist ==
    ASSUME NEW n \in Nat
    PROVE  \E round : Rounds(round, n)
  <1> DEFINE Good == {k \in Nat : \E round : Rounds(round, k)}
  <1>1. 0 \in Good
    <2>1. Rounds([k \in 0..0 |-> NoRules], 0)
      BY DEF Rounds
    <2>2. QED
      BY <2>1
  <1>2. ASSUME NEW k \in Nat, k \in Good PROVE k + 1 \in Good
    <2>1. PICK f : Rounds(f, k)
      BY <1>2
    <2> DEFINE h == [j \in 0..(k + 1) |-> IF j = k + 1 THEN Rules(f[k]) ELSE f[j]]
    <2>2. ASSUME NEW j \in 0..(k + 1)
          PROVE  h[j] = IF j = 0 THEN NoRules ELSE Rules(h[j - 1])
      <3>1. CASE j = k + 1
        BY <3>1
      <3>2. CASE j # k + 1
        <4>1. j \in 0..k /\ h[j] = f[j]
          BY <3>2
        <4>2. j # 0 => j - 1 \in 0..(k + 1) /\ j - 1 # k + 1
          BY <4>1
        <4>3. j # 0 => h[j - 1] = f[j - 1]
          BY <4>2
        <4>4. f[j] = IF j = 0 THEN NoRules ELSE Rules(f[j - 1])
          BY <2>1, <4>1 DEF Rounds
        <4>5. QED
          BY <4>1, <4>3, <4>4
      <3>3. QED
        BY <3>1, <3>2
    <2>3. Rounds(h, k + 1)
      <3> DEFINE d == [j \in 0..(k + 1) |-> IF j = 0 THEN NoRules ELSE Rules(h[j - 1])]
      <3>1. h = d
        BY <2>2
      <3>2. QED
        BY <3>1 DEF Rounds
    <2>4. QED
      <3> HIDE DEF h
      <3>1. QED
        BY <2>3
  <1>3. n \in Good
    <2> HIDE DEF Good
    <2>1. QED
      BY <1>1, <1>2, Inductive
  <1>4. QED
    BY <1>3

LEMMA GrammarIs ==
    ASSUME NEW n \in Nat, Len(tokens) = n
    PROVE  \E round : Rounds(round, n + 1) /\ Grammar = round[n + 1]
  <1> DEFINE Is(f) == f = [k \in 0..(Len(tokens) + 1) |->
                            IF k = 0 THEN NoRules ELSE Rules(f[k - 1])]
      To == CHOOSE f : Is(f)
  <1>1. \A f : Is(f) <=> Rounds(f, n + 1)
    BY DEF Rounds
  <1>2. \E f : Is(f)
    BY <1>1, RoundsExist
  <1>3. Is(To)
    <2> HIDE DEF Is
    <2>1. QED
      BY <1>2
  <1>4. Grammar = To[n + 1]
    BY DEF Grammar
  <1>5. QED
    <2> HIDE DEF Is, To
    <2>1. QED
      BY <1>1, <1>3, <1>4

\* After as many rounds as there are tokens, and one, it works from the first.
LEMMA GrammarWorks ==
    ASSUME Readable
    PROVE  Works(Grammar, 0)
  <1>1. PICK n \in Nat : n = Len(tokens)
    BY LenProperties DEF Readable
  <1>2. PICK round : Rounds(round, n + 1) /\ Grammar = round[n + 1]
    BY <1>1, GrammarIs
  <1> DEFINE Good == {k \in Nat : k <= n => Works(round[k + 1], n - k)}
  <1>3. 0 \in Good
    <2>1. round[1] = Rules(round[0])
      BY <1>2 DEF Rounds
    <2>2. Works(round[1], n)
      BY <1>1, <2>1, FirstRound
    <2>3. QED
      BY <2>2
  <1>4. ASSUME NEW k \in Nat, k \in Good PROVE k + 1 \in Good
    <2>1. SUFFICES ASSUME k + 1 <= n PROVE Works(round[k + 2], n - (k + 1))
      OBVIOUS
    <2>2. round[k + 2] = Rules(round[k + 1])
      <3>1. k + 2 \in 0..(n + 1) /\ k + 2 # 0 /\ k + 2 - 1 = k + 1
        BY <2>1
      <3>2. QED
        BY <1>2, <3>1 DEF Rounds
    <2>3. PICK m \in Nat : m = n - (k + 1) /\ n - k = m + 1
      BY <2>1
    <2>4. Works(round[k + 1], m + 1)
      BY <1>4, <2>1, <2>3
    <2>5. QED
      BY <2>2, <2>3, <2>4, RoundWorks
  <1>5. n \in Good
    <2> HIDE DEF Good
    <2>1. QED
      BY <1>3, <1>4, Inductive
  <1>6. Works(round[n + 1], 0)
    BY <1>5
  <1>7. QED
    BY <1>2, <1>6

-----------------------------------------------------------------------------
(* The loop. *)

\* A production may be called with the grammar at any token.
LEMMA GrammarCalls ==
    ASSUME Readable, NEW p \in Int, p > 0
    PROVE  Calls(Grammar, 1, p)
  <1>1. From(1 + 1) \subseteq From(0 + 1) /\ p \in From(1)
    BY DEF From
  <1>2. Works(Grammar, 1)
    BY <1>1, GrammarWorks DEF Works
  <1>3. QED
    BY <1>1, <1>2 DEF Calls

IInv == Readable /\ i \in Nat \ {0}

LEMMA DeclaresAdvances ==
    ASSUME IInv, NEW d, Takes(Here, d.at), Declares(d), status' = "parsing"
    PROVE  i' \in Nat /\ i' > i
  <1>1. Here \in Int /\ Here >= i
    BY SkipReads DEF IInv, Here
  <1>2. ~(d.at < 0) /\ i' = d.at
    BY DEF Declares
  <1>3. QED
    BY <1>1, <1>2 DEF Takes, IInv

LEMMA FunctionAdvances ==
    ASSUME IInv, DeclareFunction, status' = "parsing"
    PROVE  i' \in Nat /\ i' > i
  <1>1. PICK p : p = Here
    OBVIOUS
  <1>2. p \in Int /\ p >= i /\ p > 0 /\ Readable
    BY <1>1, SkipReads DEF IInv, Here
  <1>3. PICK f, name : name = "" /\ f = Function(p, name, Grammar)
    OBVIOUS
  <1>4. PICK d : d = IF f.at < 0 THEN Raw(-f.at) ELSE f
    OBVIOUS
  <1>5. Declares(d)
    BY <1>1, <1>3, <1>4 DEF DeclareFunction
  <1>6. Takes(p, f.at)
    BY <1>2, <1>3, GrammarCalls, FunctionReads
  <1>7. Tok(p) # "EOF"
    BY <1>1 DEF DeclareFunction, IsFunction, MayBeFunction, Decorators, Names, Ids
  <1>8. Takes(p, d.at)
    <2>1. CASE f.at < 0
      <3>1. PICK e \in Int : e = -f.at /\ e >= p
        <4>1. PICK h \in Int : h = f.at
          BY <1>6 DEF Takes
        <4>2. -h \in Int /\ -h >= p
          BY <1>2, <1>6, <2>1, <4>1 DEF Takes
        <4>3. QED
          BY <4>1, <4>2
      <3>2. d.at = Raw(e).at
        BY <1>4, <2>1, <3>1
      <3>3. CASE e = p
        BY <1>2, <1>7, <3>2, <3>3, RawReads
      <3>4. CASE e # p
        <4>1. Takes(p, e)
          BY <1>2, <3>1, <3>4 DEF Takes
        <4>2. Reads(e, d.at)
          BY <1>2, <3>2, RawReads
        <4>3. QED
          BY <4>1, <4>2, Reading
      <3>5. QED
        BY <3>3, <3>4
    <2>2. CASE ~(f.at < 0)
      BY <1>4, <1>6, <2>2
    <2>3. QED
      BY <2>1, <2>2
  <1>9. QED
    BY <1>1, <1>5, <1>8, DeclaresAdvances

LEMMA StepAdvances ==
    ASSUME IInv, Next
    PROVE  /\ IInv' /\ (status' = "parsing" => i' > i)
  <1>1. PICK p \in Int : p = Here /\ p >= i /\ p > 0
    BY SkipReads DEF IInv, Here
  <1>2. tokens' = tokens /\ Readable /\ i \in Nat /\ i > 0
    <2>1. Parsing
      BY DEF Next, Semicolon, Declare, DeclareFunction, Finish
    <2>2. QED
      BY <2>1 DEF Parsing, IInv
  <1>3. CASE Semicolon
    <2>1. i' = p + 1
      BY <1>1, <1>3 DEF Semicolon
    <2>2. QED
      BY <1>1, <1>2, <2>1 DEF IInv, Readable
  <1>4. CASE Declare
    <2>1. PICK d : d = Declaration(p, Grammar)
      OBVIOUS
    <2>2. Tok(p) # "EOF" /\ Declares(d)
      BY <1>1, <1>4, <2>1 DEF Declare
    <2>3. Takes(p, d.at)
      BY <1>1, <1>2, <2>1, <2>2, GrammarCalls, DeclarationReads
    <2>4. status' = "parsing" => i' \in Nat /\ i' > i
      BY <1>1, <2>2, <2>3, DeclaresAdvances
    <2>5. status' # "parsing" => i' = i
      BY <2>2, <1>4 DEF Declares, Declare, Parsing
    <2>6. QED
      BY <1>2, <2>4, <2>5 DEF IInv, Readable
  <1>5. CASE DeclareFunction
    <2>1. status' = "parsing" => i' \in Nat /\ i' > i
      BY <1>5, FunctionAdvances
    <2>2. status' # "parsing" => i' = i
      <3>1. PICK d : Declares(d)
        BY <1>5 DEF DeclareFunction
      <3>2. QED
        BY <1>5, <3>1 DEF Declares, DeclareFunction, Parsing
    <2>3. QED
      BY <1>2, <2>1, <2>2 DEF IInv, Readable
  <1>6. CASE Finish
    BY <1>2, <1>6 DEF Finish, IInv, Readable
  <1>7. QED
    BY <1>3, <1>4, <1>5, <1>6 DEF Next

LEMMA Begins == Init => IInv
  <1>1. SUFFICES ASSUME Init PROVE IInv
    OBVIOUS
  <1>2. PICK input \in Inputs : tokens = input.tokens
    BY <1>1 DEF Init
  <1>3. QED
    BY <1>1, <1>2, InputsAssumption DEF Init, IInv, Readable

(* Whatever tokens a file consists of, in each turn of parse() that does   *)
(* not end it a token is taken, so no file keeps the parser going for ever. *)
THEOREM ParsingAdvances == Spec => Advances
  <1>1. ASSUME IInv, [Next]_vars
        PROVE  IInv' /\ [status' = "parsing" => i' > i]_vars
    <2>1. CASE Next
      BY <1>1, <2>1, StepAdvances
    <2>2. CASE UNCHANGED vars
      BY <1>1, <2>2 DEF vars, IInv, Readable
    <2>3. QED
      BY <1>1, <2>1, <2>2
  <1>2. QED
    BY <1>1, Begins, PTL DEF Spec, Advances

=============================================================================
