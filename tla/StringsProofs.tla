--------------------------- MODULE StringsProofs ---------------------------
(***************************************************************************)
(* What StringsProperties states, for any document, any header and any     *)
(* pieces in which the text arrives.                                       *)
(***************************************************************************)
EXTENDS StringsProperties, OperatorProofs, SequenceTheorems

-----------------------------------------------------------------------------
(* FlattenSeq is what its recursion says it is, from either end.             *)

LEMMA FlattenSteps ==
    ASSUME NEW T, NEW s \in Seq(Seq(T))
    PROVE  \E h \in [0 .. Len(s) -> Seq(T)] :
              /\ h[0] = << >> /\ \A k \in 1 .. Len(s) : h[k] = h[k - 1] \o s[k]
              /\ FlattenSeq(s) = h[Len(s)]
<1>1. PICK m \in Nat : m = Len(s) /\ \A k \in 1 .. m : s[k] \in Seq(T)
  BY LenProperties, ElementOfSeq
<1>2. CASE m = 0
  <2>1. s = << >> /\ FlattenSeq(s) = s
    <3>1. Len(s) = 0
      BY <1>1, <1>2
    <3>2. s = << >>
      BY <3>1, EmptySeq
    <3> QED
      BY <3>1, <3>2, Zenon DEF FlattenSeq
  <2>2. PICK h : h = [k \in 0 .. 0 |-> << >>]
    OBVIOUS
  <2>3. h \in [0 .. 0 -> Seq(T)] /\ h[0] = << >>
    BY <2>2
  <2> QED
    BY <1>1, <1>2, <2>1, <2>3
<1>3. CASE m # 0
  <2> DEFINE body(f, i) == IF i = 1 THEN s[i] ELSE f[i - 1] \o s[i]
             flat == CHOOSE f : f = [i \in 1 .. Len(s) |-> body(f, i)]
  <2>1. FlattenSeq(s) = flat[m]
    BY <1>1, <1>3 DEF FlattenSeq
  <2> DEFINE step == [k \in 1 .. m |-> [v \in Seq(T) |-> v \o s[k]]]
  <2>2. PICK f \in [0 .. m -> Seq(T)] :
           f[0] = << >> /\ \A k \in 1 .. m : f[k] = step[k][f[k - 1]]
    <3>1. step \in [1 .. m -> [Seq(T) -> Seq(T)]]
      BY <1>1, ConcatProperties
    <3>2. << >> \in Seq(T)
      BY EmptySeq
    <3> HIDE DEF step
    <3>3. IsRun(m, Seq(T), << >>, step)
      BY <3>1, <3>2, RecursionExists
    <3> QED
      BY <3>3 DEF IsRun
  <2>3. ASSUME NEW k \in 1 .. m PROVE f[k] = f[k - 1] \o s[k]
    <3>1. k - 1 \in 0 .. m
      OBVIOUS
    <3> QED
      BY <2>2, <3>1
  <2>4. f[1] = s[1]
    <3>1. 1 \in 1 .. m /\ 1 - 1 = 0
      BY <1>3
    <3>2. << >> \o s[1] = s[1]
      BY <1>1, <3>1, ConcatEmptySeq
    <3> QED
      BY <2>2, <2>3, <3>1, <3>2
  <2> DEFINE g == [k \in 1 .. m |-> f[k]]
  <2>5. ASSUME NEW k \in 1 .. m PROVE g[k] = body(g, k)
    <3>1. CASE k = 1
      BY <2>4, <3>1
    <3>2. CASE k # 1
      <4>1. k - 1 \in 1 .. m
        BY <3>2
      <4> QED
        BY <2>3, <3>2, <4>1
    <3> QED
      BY <3>1, <3>2
  <2> HIDE DEF body
  <2>6. g = [i \in 1 .. Len(s) |-> body(g, i)]
    BY <1>1, <2>5
  <2>7. flat = [i \in 1 .. Len(s) |-> body(flat, i)]
    BY <2>6, Zenon
  <2> HIDE DEF flat
  <2> DEFINE G == {k \in Nat : k \in 1 .. m => flat[k] = f[k]}
  <2>8. 0 \in G
    OBVIOUS
  <2>9. ASSUME NEW k \in Nat, k \in G PROVE k + 1 \in G
    <3> SUFFICES ASSUME k + 1 \in 1 .. m PROVE flat[k + 1] = f[k + 1]
      OBVIOUS
    <3>1. flat[k + 1] = body(flat, k + 1)
      BY <1>1, <2>7
    <3>2. CASE k = 0
      BY <2>4, <3>1, <3>2 DEF body
    <3>3. CASE k # 0
      <4>1. k \in 1 .. m /\ (k + 1) - 1 = k /\ k + 1 # 1
        BY <3>3
      <4> QED
        BY <2>3, <2>9, <3>1, <4>1 DEF body
    <3> QED
      BY <3>2, <3>3
  <2>10. m \in G
    <3> HIDE DEF G
    <3> QED
      BY <2>8, <2>9, NaturalInduction
  <2>11. flat[m] = f[m]
    BY <1>3, <2>10
  <2> QED
    BY <1>1, <2>1, <2>2, <2>3, <2>11
<1> QED
  BY <1>2, <1>3

LEMMA FlattenAppend ==
    ASSUME NEW T
    PROVE  /\ FlattenSeq(<< >>) = << >>
           /\ \A s \in Seq(Seq(T)) : FlattenSeq(s) \in Seq(T)
           /\ \A s \in Seq(Seq(T)), x \in Seq(T) :
                 FlattenSeq(Append(s, x)) = FlattenSeq(s) \o x
<1>1. FlattenSeq(<< >>) = << >>
  <2>1. << >> \in Seq(Seq(T)) /\ Len(<< >>) = 0
    BY EmptySeq
  <2> QED
    BY <2>1, FlattenSteps
<1>2. ASSUME NEW s \in Seq(Seq(T)) PROVE FlattenSeq(s) \in Seq(T)
  <2>1. PICK h \in [0 .. Len(s) -> Seq(T)] : FlattenSeq(s) = h[Len(s)]
    BY FlattenSteps
  <2> QED
    BY <2>1, LenProperties
<1>3. ASSUME NEW s \in Seq(Seq(T)), NEW x \in Seq(T)
      PROVE  FlattenSeq(Append(s, x)) = FlattenSeq(s) \o x
  <2>0. PICK t : t = Append(s, x)
    OBVIOUS
  <2>1. PICK m \in Nat : m = Len(s)
    BY LenProperties
  <2>2. t \in Seq(Seq(T)) /\ Len(t) = m + 1 /\ t[m + 1] = x /\ \A k \in 1 .. m : t[k] = s[k]
    BY <2>0, <2>1, AppendProperties
  <2>3. PICK h \in [0 .. m -> Seq(T)] :
           /\ h[0] = << >> /\ \A k \in 1 .. m : h[k] = h[k - 1] \o s[k]
           /\ FlattenSeq(s) = h[m]
    BY <2>1, FlattenSteps
  <2>4. PICK g \in [0 .. m + 1 -> Seq(T)] :
           /\ g[0] = << >> /\ \A k \in 1 .. m + 1 : g[k] = g[k - 1] \o t[k]
           /\ FlattenSeq(t) = g[m + 1]
    <3>1. PICK g \in [0 .. Len(t) -> Seq(T)] :
             /\ g[0] = << >> /\ \A k \in 1 .. Len(t) : g[k] = g[k - 1] \o t[k]
             /\ FlattenSeq(t) = g[Len(t)]
      BY <2>2, FlattenSteps
    <3> QED
      BY <2>2, <3>1
  <2> DEFINE G == {k \in Nat : k <= m => g[k] = h[k]}
  <2>5. 0 \in G
    BY <2>3, <2>4
  <2>6. ASSUME NEW k \in Nat, k \in G PROVE k + 1 \in G
    <3> SUFFICES ASSUME k + 1 <= m PROVE g[k + 1] = h[k + 1]
      OBVIOUS
    <3>1. k + 1 \in 1 .. m /\ k + 1 \in 1 .. m + 1 /\ (k + 1) - 1 = k
      OBVIOUS
    <3>2. g[k + 1] = g[k] \o t[k + 1] /\ h[k + 1] = h[k] \o s[k + 1]
      BY <2>3, <2>4, <3>1
    <3>3. g[k] = h[k]
      BY <2>6
    <3>4. t[k + 1] = s[k + 1]
      BY <2>2, <3>1
    <3> QED
      BY <3>2, <3>3, <3>4, Zenon
  <2>7. m \in G
    <3> HIDE DEF G
    <3> QED
      BY <2>5, <2>6, NaturalInduction
  <2>8. g[m + 1] = g[m] \o x
    <3>1. m + 1 \in 1 .. m + 1 /\ (m + 1) - 1 = m
      OBVIOUS
    <3> QED
      BY <2>2, <2>4, <3>1
  <2>9. g[m] = h[m]
    BY <2>7
  <2> QED
    BY <2>0, <2>3, <2>4, <2>8, <2>9
<1> QED
  BY <1>1, <1>2, <1>3

LEMMA FlattenPrepend ==
    ASSUME NEW T, NEW x \in Seq(T)
    PROVE  \A s \in Seq(Seq(T)) : FlattenSeq(<<x>> \o s) = x \o FlattenSeq(s)
<1> DEFINE Bad0 == {s \in Seq(Seq(T)) : FlattenSeq(<<x>> \o s) # x \o FlattenSeq(s)}
           Lengths == {Len(s) : s \in Bad0}
<1> SUFFICES ASSUME Bad0 # {} PROVE FALSE
  OBVIOUS
<1>1. PICK s \in Bad0 : \A t \in Bad0 : Len(s) <= Len(t)
  <2>1. Lengths \in SUBSET Nat /\ Lengths # {}
    <3>1. \A t \in Bad0 : Len(t) \in Nat
      BY LenProperties
    <3>2. \E t : t \in Bad0
      OBVIOUS
    <3> HIDE DEF Bad0
    <3> QED
      BY <3>1, <3>2
  <2>2. PICK n \in Lengths : \A k \in Lengths : n <= k
    <3> HIDE DEF Lengths
    <3> QED
      BY <2>1, LeastExists
  <2> HIDE DEF Bad0
  <2> QED
    BY <2>2
<1>2. s \in Seq(Seq(T)) /\ FlattenSeq(<<x>> \o s) # x \o FlattenSeq(s) /\ <<x>> \in Seq(Seq(T))
  <2>1. <<x>> \in Seq(Seq(T))
    OBVIOUS
  <2> QED
    BY <2>1, Zenon
<1> HIDE DEF Bad0
<1>3. CASE s = << >>
  <2>1. <<x>> \o s = <<x>> /\ <<x>> = Append(<< >>, x) /\ << >> \in Seq(Seq(T))
    BY <1>2, <1>3, ConcatEmptySeq
  <2>2. FlattenSeq(<<x>>) = << >> \o x
    BY <2>1, FlattenAppend
  <2>3. << >> \o x = x /\ x \o << >> = x
    BY ConcatEmptySeq
  <2> QED
    BY <1>2, <1>3, <2>1, <2>2, <2>3, FlattenAppend
<1>4. CASE s # << >>
  <2>1. PICK f \in Seq(Seq(T)), l \in Seq(T) : s = Append(f, l)
    BY <1>2, <1>4, SequenceEmptyOrAppend
  <2>2. Len(s) = Len(f) + 1 /\ Len(f) \in Nat
    BY <2>1, AppendProperties, LenProperties
  <2>3. f \notin Bad0
    BY <1>1, <2>2
  <2>4. FlattenSeq(<<x>> \o f) = x \o FlattenSeq(f)
    BY <2>1, <2>3 DEF Bad0
  <2>5. <<x>> \o s = Append(<<x>> \o f, l)
    <3>1. Append(f, l) = f \o <<l>> /\ <<l>> \in Seq(Seq(T))
      BY <2>1, AppendIsConcat
    <3>2. <<x>> \o f \in Seq(Seq(T))
      BY <1>2, <2>1, ConcatProperties
    <3>3. Append(<<x>> \o f, l) = (<<x>> \o f) \o <<l>>
      BY <3>2, AppendIsConcat
    <3>4. (<<x>> \o f) \o <<l>> = <<x>> \o (f \o <<l>>)
      BY <1>2, <2>1, <3>1, ConcatAssociative
    <3> QED
      BY <2>1, <3>1, <3>3, <3>4
  <2>6. FlattenSeq(<<x>> \o s) = FlattenSeq(<<x>> \o f) \o l
    <3>1. <<x>> \o f \in Seq(Seq(T))
      BY <1>2, <2>1, ConcatProperties
    <3> QED
      BY <2>1, <2>5, <3>1, FlattenAppend
  <2>7. FlattenSeq(s) = FlattenSeq(f) \o l /\ FlattenSeq(f) \in Seq(T)
    BY <2>1, FlattenAppend
  <2>8. (x \o FlattenSeq(f)) \o l = x \o (FlattenSeq(f) \o l)
    BY <2>1, <2>7, ConcatAssociative
  <2> QED
    BY <1>2, <2>4, <2>6, <2>7, <2>8
<1> QED
  BY <1>3, <1>4

(* What the first k sequences make up, and the others.                       *)
LEMMA UpToFacts ==
    ASSUME NEW T, NEW s \in Seq(Seq(T))
    PROVE  /\ UpTo(s, 0) = << >> /\ UpTo(s, Len(s)) = FlattenSeq(s)
           /\ \A k \in 0 .. Len(s) : UpTo(s, k) \in Seq(T)
           /\ \A k \in 1 .. Len(s) : UpTo(s, k) = UpTo(s, k - 1) \o s[k]
<1>1. PICK m \in Nat : m = Len(s) /\ \A k \in 1 .. m : s[k] \in Seq(T)
  BY LenProperties, ElementOfSeq
<1>2. UpTo(s, 0) = << >>
  <2>1. SubSeq(s, 1, 0) = << >>
    BY SubSeqEmpty
  <2> QED
    BY <2>1, FlattenAppend DEF UpTo
<1>3. UpTo(s, m) = FlattenSeq(s)
  BY <1>1, SubSeqFull DEF UpTo
<1>4. ASSUME NEW k \in 0 .. m PROVE SubSeq(s, 1, k) \in Seq(Seq(T))
  <2>1. \A i \in 1 .. k : s[i] \in Seq(T)
    BY <1>1
  <2> QED
    BY <2>1, SubSeqProperties
<1>5. ASSUME NEW k \in 0 .. m PROVE UpTo(s, k) \in Seq(T)
  BY <1>4, FlattenAppend DEF UpTo
<1>6. ASSUME NEW k \in 1 .. m PROVE UpTo(s, k) = UpTo(s, k - 1) \o s[k]
  <2>1. 1 \in 1 .. m /\ k \in 1 .. m /\ k - 1 \in 0 .. m
    OBVIOUS
  <2>2. SubSeq(s, 1, k) = SubSeq(s, 1, k - 1) \o <<s[k]>>
    BY <1>1, <2>1, SubSeqRecursiveSecond
  <2>3. SubSeq(s, 1, k - 1) \in Seq(Seq(T)) /\ s[k] \in Seq(T)
    BY <1>1, <1>4, <2>1
  <2>4. SubSeq(s, 1, k) = Append(SubSeq(s, 1, k - 1), s[k])
    BY <2>2, <2>3, AppendIsConcat
  <2> QED
    BY <2>3, <2>4, FlattenAppend DEF UpTo
<1> QED
  BY <1>1, <1>2, <1>3, <1>5, <1>6

LEMMA FromFacts ==
    ASSUME NEW T, NEW s \in Seq(Seq(T))
    PROVE  /\ From(s, 0) = FlattenSeq(s) /\ From(s, Len(s)) = << >>
           /\ \A k \in 0 .. Len(s) : From(s, k) \in Seq(T)
           /\ \A k \in 1 .. Len(s) : From(s, k - 1) = s[k] \o From(s, k)
<1>1. PICK m \in Nat : m = Len(s) /\ \A k \in 1 .. m : s[k] \in Seq(T)
  BY LenProperties, ElementOfSeq
<1>2. From(s, m) = << >>
  <2>1. SubSeq(s, m + 1, m) = << >>
    BY SubSeqEmpty
  <2> QED
    BY <1>1, <2>1, FlattenAppend DEF From
<1>3. From(s, 0) = FlattenSeq(s)
  <2>1. 0 + 1 = 1 /\ SubSeq(s, 1, Len(s)) = s
    BY SubSeqFull
  <2> QED
    BY <2>1 DEF From
<1>4. ASSUME NEW k \in 0 .. m PROVE SubSeq(s, k + 1, m) \in Seq(Seq(T))
  <2>1. (\A i \in k + 1 .. m : s[i] \in Seq(T)) /\ k + 1 \in Int
    BY <1>1
  <2> QED
    BY <2>1, SubSeqProperties
<1>5. ASSUME NEW k \in 0 .. m PROVE From(s, k) \in Seq(T)
  BY <1>1, <1>4, FlattenAppend DEF From
<1>6. ASSUME NEW k \in 1 .. m PROVE From(s, k - 1) = s[k] \o From(s, k)
  <2>1. m \in k .. m /\ (k - 1) + 1 = k /\ k \in 0 .. m
    OBVIOUS
  <2>2. SubSeq(s, k, m) = <<s[k]>> \o SubSeq(s, k + 1, m)
    BY <1>1, <2>1, SubSeqRecursiveFirst
  <2>3. SubSeq(s, k + 1, m) \in Seq(Seq(T)) /\ s[k] \in Seq(T)
    BY <1>1, <1>4, <2>1
  <2>4. FlattenSeq(SubSeq(s, k, m)) = s[k] \o FlattenSeq(SubSeq(s, k + 1, m))
    BY <2>2, <2>3, FlattenPrepend
  <2> QED
    BY <1>1, <2>1, <2>4 DEF From
<1> QED
  BY <1>1, <1>2, <1>3, <1>5, <1>6

-----------------------------------------------------------------------------
(* Concatenations in the order in which the proofs need them.                *)
Grouped(a, b, c, d) == ((a \o b) \o c) \o d = a \o ((b \o c) \o d)
LEMMA Regroup ==
    ASSUME NEW T, NEW a \in Seq(T), NEW b \in Seq(T), NEW c \in Seq(T), NEW d \in Seq(T)
    PROVE  Grouped(a, b, c, d)
<1>1. PICK y : y = b \o c /\ y \in Seq(T)
  BY ConcatProperties
<1>2. (a \o b) \o c = a \o y
  BY <1>1, ConcatAssociative
<1>3. (a \o y) \o d = a \o (y \o d)
  <2>1. y \in Seq(T)
    BY <1>1
  <2> QED
    BY <2>1, ConcatAssociative
<1> QED
  BY <1>1, <1>2, <1>3 DEF Grouped

LEMMA FirstToken ==
    ASSUME NEW T, NEW t \in T, NEW s \in Seq(T)
    PROVE  /\ <<t>> \o s # << >> /\ Head(<<t>> \o s) = t /\ Tail(<<t>> \o s) = s
           /\ <<t>> \o s \in Seq(T)
<1>1. PICK r : r = <<t>> \o s
  OBVIOUS
<1>2. PICK n \in Nat : n = Len(s)
  BY LenProperties
<1>3. <<t>> \in Seq(T) /\ Len(<<t>>) = 1 /\ <<t>>[1] = t
  OBVIOUS
<1>4. /\ r \in Seq(T) /\ Len(r) = 1 + n
      /\ \A i \in 1 .. 1 + n : r[i] = IF i <= 1 THEN <<t>>[i] ELSE s[i - 1]
  BY <1>1, <1>2, <1>3, ConcatProperties
<1>5. r # << >>
  BY <1>4, EmptySeq
<1>6. Head(r) = t
  BY <1>3, <1>4, <1>5
<1>7. Tail(r) \in Seq(T) /\ Len(Tail(r)) = n /\ \A i \in 1 .. n : Tail(r)[i] = r[i + 1]
  BY <1>4, <1>5, HeadTailProperties
<1>8. \A i \in 1 .. n : r[i + 1] = s[i]
  <2>1. ASSUME NEW i \in 1 .. n PROVE r[i + 1] = s[i]
    <3>1. i + 1 \in 1 .. 1 + n /\ ~(i + 1 <= 1) /\ (i + 1) - 1 = i
      OBVIOUS
    <3> QED
      BY <1>4, <3>1
  <2> QED
    BY <2>1
<1>9. Tail(r) = s
  BY <1>2, <1>7, <1>8, SeqEqual
<1> QED
  BY <1>1, <1>4, <1>5, <1>6, <1>9

(* A sequence made from another one, element by element.                     *)
LEMMA MadeFrom ==
    ASSUME NEW S, NEW s \in Seq(S), NEW V, NEW f, DOMAIN f = DOMAIN s,
           f = [i \in DOMAIN f |-> f[i]], \A i \in 1 .. Len(s) : f[i] \in V
    PROVE  f \in Seq(V) /\ Len(f) = Len(s)
<1>1. PICK n \in Nat : n = Len(s) /\ DOMAIN s = 1 .. n
  BY LenProperties
<1>2. f \in [1 .. n -> V]
  BY <1>1
<1>3. f \in Seq(V)
  BY <1>2
<1> QED
  BY <1>1, <1>3, LenProperties

-----------------------------------------------------------------------------
(* The document: what follows each place begins with the next token.         *)
Tags == {"sst", "si", "t", "r", "rPh"}
Toks == [event : {"start", "end", "text"}, what : Tags \cup Chars]

LEMMA TokenFacts ==
    /\ \A tag \in Tags : Start(tag) \in Toks /\ End(tag) \in Toks
    /\ \A tag \in Tags : <<Start(tag)>> \in Seq(Toks) /\ <<End(tag)>> \in Seq(Toks)
    /\ \A x \in Toks : <<x>> \in Seq(Toks)
<1>1. ASSUME NEW tag \in Tags PROVE Start(tag) \in Toks /\ End(tag) \in Toks
  BY DEF Start, End, Toks
<1>2. \A x \in Toks : <<x>> \in Seq(Toks)
  OBVIOUS
<1> QED
  BY <1>1, <1>2

LEMMA TextFacts ==
    ASSUME NEW text \in Seq(Chars)
    PROVE  /\ Pieces(text) \in Seq(Toks) /\ Len(Pieces(text)) = Len(text)
           /\ TextElement(text) = <<Start("t")>> \o TextFrom(text, 0)
           /\ TextElement(text) \in Seq(Toks)
           /\ \A p \in 0 .. Len(text) : TextFrom(text, p) \in Seq(Toks)
           /\ \A p \in 0 .. Len(text) : p < Len(text) =>
                 TextFrom(text, p) = <<Pieces(text)[p + 1]>> \o TextFrom(text, p + 1)
           /\ TextFrom(text, Len(text)) = <<End("t")>>
<1>1. PICK n \in Nat : n = Len(text) /\ DOMAIN text = 1 .. n /\ \A i \in 1 .. n : text[i] \in Chars
  BY LenProperties, ElementOfSeq
<1>2. PICK L : L = Pieces(text)
  OBVIOUS
<1>3. L \in Seq(Toks) /\ Len(L) = n
  <2>1. \A x \in Chars : [event |-> "text", what |-> x] \in Toks
    BY DEF Toks
  <2>2. L = [i \in 1 .. n |-> [event |-> "text", what |-> text[i]]]
    BY <1>1, <1>2 DEF Pieces
  <2>3. \A i \in 1 .. n : L[i] = [event |-> "text", what |-> text[i]]
    BY <2>2
  <2>4. \A i \in 1 .. n : L[i] \in Toks
    BY <1>1, <2>1, <2>3
  <2>5. L \in [1 .. n -> Toks]
    BY <2>2, <2>4
  <2>6. L \in Seq(Toks) /\ DOMAIN L = 1 .. n
    BY <2>5
  <2> QED
    BY <2>6, LenProperties
<1>4. PICK S, E : S = <<Start("t")>> /\ E = <<End("t")>> /\ S \in Seq(Toks) /\ E \in Seq(Toks)
  BY TokenFacts DEF Tags
<1>5. TextElement(text) = (S \o L) \o E
  BY <1>2, <1>4 DEF TextElement
<1>6. TextFrom(text, 0) = L \o E
  <2>1. 0 + 1 = 1 /\ SubSeq(L, 1, n) = L
    BY <1>3, SubSeqFull
  <2> QED
    BY <1>1, <1>2, <1>4, <2>1 DEF TextFrom
<1>7. (S \o L) \o E = S \o (L \o E) /\ (S \o L) \o E \in Seq(Toks)
  BY <1>3, <1>4, ConcatAssociative, ConcatProperties
<1>8. ASSUME NEW p \in 0 .. n PROVE SubSeq(L, p + 1, n) \in Seq(Toks)
  <2>1. (\A i \in p + 1 .. n : L[i] \in Toks) /\ p + 1 \in Int
    BY <1>3, ElementOfSeq
  <2> QED
    BY <2>1, SubSeqProperties
<1>9. ASSUME NEW p \in 0 .. n PROVE TextFrom(text, p) \in Seq(Toks)
  BY <1>1, <1>2, <1>4, <1>8, ConcatProperties DEF TextFrom
<1>10. ASSUME NEW p \in 0 .. n, p < n
       PROVE  TextFrom(text, p) = <<L[p + 1]>> \o TextFrom(text, p + 1)
  <2>1. p + 1 \in 1 .. n /\ n \in p + 1 .. n /\ p + 1 \in 0 .. n
    BY <1>10
  <2>2. SubSeq(L, p + 1, n) = <<L[p + 1]>> \o SubSeq(L, (p + 1) + 1, n)
    BY <1>3, <2>1, SubSeqRecursiveFirst
  <2>3. PICK R : R = SubSeq(L, (p + 1) + 1, n) /\ R \in Seq(Toks)
    BY <1>8, <2>1
  <2>4. PICK X : X = <<L[p + 1]>> /\ X \in Seq(Toks)
    <3>1. L[p + 1] \in Toks
      BY <1>3, <2>1, ElementOfSeq
    <3> QED
      BY <3>1, TokenFacts, Zenon
  <2>5. (X \o R) \o E = X \o (R \o E)
    <3>1. X \in Seq(Toks) /\ R \in Seq(Toks) /\ E \in Seq(Toks)
      BY <1>4, <2>3, <2>4
    <3> QED
      BY <3>1, ConcatAssociative
  <2>6. TextFrom(text, p) = SubSeq(L, p + 1, n) \o E
    BY <1>1, <1>2, <1>4 DEF TextFrom
  <2>7. TextFrom(text, p + 1) = R \o E
    BY <1>1, <1>2, <1>4, <2>3 DEF TextFrom
  <2> QED
    BY <2>2, <2>3, <2>4, <2>5, <2>6, <2>7
<1>11. TextFrom(text, n) = E
  <2>1. SubSeq(L, n + 1, n) = << >>
    BY SubSeqEmpty
  <2>2. << >> \o E = E
    BY <1>4, ConcatEmptySeq
  <2> QED
    BY <1>1, <1>2, <1>4, <2>1, <2>2 DEF TextFrom
<1> QED
  BY <1>1, <1>2, <1>3, <1>4, <1>5, <1>6, <1>7, <1>9, <1>10, <1>11

LEMMA RunFacts ==
    ASSUME NEW run \in Runs
    PROVE  /\ run.text \in Seq(Chars) /\ run.tag \in Tags
           /\ Closing(run) \in Seq(Toks) /\ RunTokens(run) \in Seq(Toks)
           /\ run.tag = "t" => Closing(run) = << >> /\ RunTokens(run) = TextElement(run.text)
           /\ run.tag # "t" =>
                 /\ Closing(run) = <<End(run.tag)>>
                 /\ RunTokens(run) = (<<Start(run.tag)>> \o TextElement(run.text)) \o Closing(run)
<1>1. run.text \in Seq(Chars) /\ run.tag \in {"t", "r", "rPh"} /\ run.tag \in Tags
  BY DEF Runs, Tags
<1>2. TextElement(run.text) \in Seq(Toks)
  BY <1>1, TextFacts
<1>3. CASE run.tag = "t"
  BY <1>1, <1>2, <1>3, EmptySeq DEF Closing, RunTokens
<1>4. CASE run.tag # "t"
  <2>1. PICK X, Y, Z : /\ X = <<Start(run.tag)>> /\ Y = TextElement(run.text) /\ Z = <<End(run.tag)>>
                       /\ X \in Seq(Toks) /\ Y \in Seq(Toks) /\ Z \in Seq(Toks)
    BY <1>1, <1>2, TokenFacts
  <2>2. (X \o Y) \o Z \in Seq(Toks)
    BY <2>1, ConcatProperties
  <2> QED
    BY <1>1, <1>4, <2>1, <2>2 DEF Closing, RunTokens
<1> QED
  BY <1>3, <1>4

LEMMA ItemFacts ==
    ASSUME NEW item \in Seq(Runs)
    PROVE  /\ AllRuns(item) \in Seq(Seq(Toks)) /\ Len(AllRuns(item)) = Len(item)
           /\ \A j \in 1 .. Len(item) : AllRuns(item)[j] = RunTokens(item[j])
           /\ ItemTokens(item) = (<<Start("si")>> \o FlattenSeq(AllRuns(item))) \o <<End("si")>>
           /\ ItemTokens(item) \in Seq(Toks)
<1>1. DOMAIN item = 1 .. Len(item) /\ \A i \in 1 .. Len(item) : item[i] \in Runs
  BY LenProperties, ElementOfSeq
<1>2. \A i \in 1 .. Len(item) : AllRuns(item)[i] = RunTokens(item[i]) /\ RunTokens(item[i]) \in Seq(Toks)
  BY <1>1, RunFacts DEF AllRuns
<1>3. AllRuns(item) \in Seq(Seq(Toks)) /\ Len(AllRuns(item)) = Len(item)
  <2>1. PICK f : f = AllRuns(item)
    OBVIOUS
  <2>2. DOMAIN f = DOMAIN item /\ f = [i \in DOMAIN f |-> f[i]]
    BY <2>1 DEF AllRuns
  <2>3. \A i \in 1 .. Len(item) : f[i] \in Seq(Toks)
    BY <1>2, <2>1
  <2> QED
    BY <2>1, <2>2, <2>3, MadeFrom
<1>4. PICK X, F, Y : /\ X = <<Start("si")>> /\ F = FlattenSeq(AllRuns(item)) /\ Y = <<End("si")>>
                     /\ X \in Seq(Toks) /\ F \in Seq(Toks) /\ Y \in Seq(Toks)
  BY <1>3, FlattenAppend, TokenFacts DEF Tags
<1>5. ItemTokens(item) = (X \o F) \o Y
  BY <1>4 DEF ItemTokens, AllRuns
<1>6. (X \o F) \o Y \in Seq(Toks)
  BY <1>4, ConcatProperties
<1> QED
  BY <1>2, <1>3, <1>4, <1>5, <1>6

LEMMA ReadingText ==
    ASSUME NEW run \in Runs, NEW X \in Seq(Toks)
    PROVE  /\ Closing(run) \o X \in Seq(Toks)
           /\ \A p \in 0 .. Len(run.text) : (TextFrom(run.text, p) \o Closing(run)) \o X \in Seq(Toks)
           /\ (TextElement(run.text) \o Closing(run)) \o X =
                 <<Start("t")>> \o ((TextFrom(run.text, 0) \o Closing(run)) \o X)
           /\ \A p \in 0 .. Len(run.text) : p < Len(run.text) =>
                 (TextFrom(run.text, p) \o Closing(run)) \o X =
                    <<Pieces(run.text)[p + 1]>> \o ((TextFrom(run.text, p + 1) \o Closing(run)) \o X)
           /\ (TextFrom(run.text, Len(run.text)) \o Closing(run)) \o X = <<End("t")>> \o (Closing(run) \o X)
<1>1. PICK text, C : text = run.text /\ C = Closing(run) /\ text \in Seq(Chars) /\ C \in Seq(Toks)
  BY RunFacts
<1>2. PICK n \in Nat : n = Len(text)
  BY <1>1, LenProperties
<1>3. \A y, z \in Seq(Toks) : y \o z \in Seq(Toks)
  BY ConcatProperties
<1>4. \A x, y \in Seq(Toks) : Grouped(x, y, C, X)
  BY <1>1, Regroup
<1>5. \A x, y, z \in Seq(Toks) : (x \o y) \o z = x \o (y \o z)
  BY ConcatAssociative
<1>6. \A p \in 0 .. n : TextFrom(text, p) \in Seq(Toks)
  BY <1>1, <1>2, TextFacts
<1>7. C \o X \in Seq(Toks) /\ \A p \in 0 .. n : (TextFrom(text, p) \o C) \o X \in Seq(Toks)
  BY <1>1, <1>3, <1>6
<1>8. (TextElement(text) \o C) \o X = <<Start("t")>> \o ((TextFrom(text, 0) \o C) \o X)
  <2>1. TextElement(text) = <<Start("t")>> \o TextFrom(text, 0)
    BY <1>1, TextFacts
  <2>2. <<Start("t")>> \in Seq(Toks) /\ TextFrom(text, 0) \in Seq(Toks)
    BY <1>2, <1>6, TokenFacts DEF Tags
  <2> QED
    <3>1. Grouped(<<Start("t")>>, TextFrom(text, 0), C, X)
      BY <1>4, <2>2
    <3> QED
      BY <2>1, <3>1 DEF Grouped
<1>9. ASSUME NEW p \in 0 .. n, p < n
      PROVE  (TextFrom(text, p) \o C) \o X =
                <<Pieces(text)[p + 1]>> \o ((TextFrom(text, p + 1) \o C) \o X)
  <2>1. TextFrom(text, p) = <<Pieces(text)[p + 1]>> \o TextFrom(text, p + 1)
    BY <1>1, <1>2, <1>9, TextFacts
  <2>2. <<Pieces(text)[p + 1]>> \in Seq(Toks)
    <3>1. p + 1 \in 1 .. n /\ Pieces(text) \in Seq(Toks) /\ Len(Pieces(text)) = n
      BY <1>1, <1>2, <1>9, TextFacts
    <3>2. Pieces(text)[p + 1] \in Toks
      BY <3>1, ElementOfSeq
    <3> QED
      BY <3>2, TokenFacts, Zenon
  <2>3. p + 1 \in 0 .. n
    BY <1>9
  <2>4. TextFrom(text, p + 1) \in Seq(Toks)
    BY <1>6, <2>3
  <2> QED
    <3>1. Grouped(<<Pieces(text)[p + 1]>>, TextFrom(text, p + 1), C, X)
      BY <1>4, <2>2, <2>4
    <3> QED
      BY <2>1, <3>1 DEF Grouped
<1>10. (TextFrom(text, n) \o C) \o X = <<End("t")>> \o (C \o X)
  <2>1. TextFrom(text, n) = <<End("t")>> /\ <<End("t")>> \in Seq(Toks)
    BY <1>1, <1>2, TextFacts, TokenFacts DEF Tags
  <2> QED
    <3>1. (<<End("t")>> \o C) \o X = <<End("t")>> \o (C \o X)
      BY <1>1, <1>5, <2>1, Zenon
    <3> QED
      BY <2>1, <3>1
<1> QED
  BY <1>1, <1>2, <1>7, <1>8, <1>9, <1>10

LEMMA ItemsAre ==
    ASSUME TypeOK
    PROVE  /\ Len(items) \in Nat /\ DOMAIN items = 1 .. Len(items)
           /\ \A k \in 1 .. Len(items) :
                 /\ items[k] \in Seq(Runs) /\ Len(items[k]) \in Nat
                 /\ \A j \in 1 .. Len(items[k]) : items[k][j] \in Runs
           /\ AllItems \in Seq(Seq(Toks)) /\ Len(AllItems) = Len(items)
           /\ \A k \in 1 .. Len(items) : AllItems[k] = ItemTokens(items[k])
<1>1. items \in Seq(Seq(Runs))
  BY StringsAssumption, SeqMonotonic DEF TypeOK
<1>2. Len(items) \in Nat /\ DOMAIN items = 1 .. Len(items)
  BY <1>1, LenProperties
<1>3. \A k \in 1 .. Len(items) : items[k] \in Seq(Runs)
  BY <1>1, ElementOfSeq
<1>4. ASSUME NEW k \in 1 .. Len(items)
      PROVE  Len(items[k]) \in Nat /\ \A j \in 1 .. Len(items[k]) : items[k][j] \in Runs
  BY <1>3, LenProperties, ElementOfSeq
<1>5. \A k \in 1 .. Len(items) : AllItems[k] = ItemTokens(items[k])
  BY <1>2 DEF AllItems
<1>6. AllItems \in Seq(Seq(Toks)) /\ Len(AllItems) = Len(items)
  <2>1. PICK f : f = AllItems
    OBVIOUS
  <2>2. DOMAIN f = DOMAIN items /\ f = [i \in DOMAIN f |-> f[i]]
    BY <2>1 DEF AllItems
  <2>3. \A i \in 1 .. Len(items) : f[i] \in Seq(Toks)
    BY <1>3, <1>5, <2>1, ItemFacts
  <2> QED
    BY <1>1, <2>1, <2>2, <2>3, MadeFrom
<1> QED
  BY <1>2, <1>3, <1>4, <1>5, <1>6

LEMMA AmongItems ==
    ASSUME TypeOK
    PROVE  /\ Tokens = <<Start("sst")>> \o ItemsFrom(0)
           /\ \A k \in 0 .. Len(items) : ItemsFrom(k) \in Seq(Toks)
           /\ \A k \in 1 .. Len(items) : ItemsFrom(k - 1) = <<Start("si")>> \o RunsFrom(k, 0)
           /\ ItemsFrom(Len(items)) = <<End("sst")>>
<1>1. PICK n \in Nat : n = Len(items)
  BY ItemsAre
<1>2. PICK A : A = AllItems /\ A \in Seq(Seq(Toks)) /\ Len(A) = n
  BY <1>1, ItemsAre
<1>3. PICK S, E : S = <<Start("sst")>> /\ E = <<End("sst")>> /\ S \in Seq(Toks) /\ E \in Seq(Toks)
  BY TokenFacts DEF Tags
<1>4. /\ From(A, 0) = FlattenSeq(A) /\ From(A, n) = << >>
      /\ \A k \in 0 .. n : From(A, k) \in Seq(Toks)
      /\ \A k \in 1 .. n : From(A, k - 1) = A[k] \o From(A, k)
  BY <1>2, FromFacts
<1>5. \A k : ItemsFrom(k) = From(A, k) \o E
  BY <1>2, <1>3 DEF ItemsFrom
<1>6. Tokens = S \o ItemsFrom(0)
  <2>1. Tokens = (S \o FlattenSeq(A)) \o E
    BY <1>2, <1>3 DEF Tokens, AllItems
  <2>2. FlattenSeq(A) \in Seq(Toks)
    BY <1>2, FlattenAppend
  <2>3. (S \o FlattenSeq(A)) \o E = S \o (FlattenSeq(A) \o E)
    BY <1>3, <2>2, ConcatAssociative
  <2> QED
    BY <1>4, <1>5, <2>1, <2>3
<1>7. \A k \in 0 .. n : ItemsFrom(k) \in Seq(Toks)
  BY <1>3, <1>4, <1>5, ConcatProperties
<1>8. ItemsFrom(n) = E
  <2>1. << >> \o E = E
    BY <1>3, ConcatEmptySeq
  <2> QED
    BY <1>4, <1>5, <2>1
<1>9. ASSUME NEW k \in 1 .. n PROVE ItemsFrom(k - 1) = <<Start("si")>> \o RunsFrom(k, 0)
  <2>1. items[k] \in Seq(Runs) /\ A[k] = ItemTokens(items[k])
    BY <1>1, <1>2, ItemsAre
  <2>2. PICK X, F, Y : /\ X = <<Start("si")>> /\ F = FlattenSeq(AllRuns(items[k])) /\ Y = <<End("si")>>
                       /\ X \in Seq(Toks) /\ F \in Seq(Toks) /\ Y \in Seq(Toks)
    BY <2>1, ItemFacts, FlattenAppend, TokenFacts DEF Tags
  <2>3. PICK G : G = From(A, k) /\ G \in Seq(Toks)
    BY <1>4
  <2>4. A[k] = (X \o F) \o Y
    BY <2>1, <2>2, ItemFacts
  <2>5. ItemsFrom(k - 1) = (((X \o F) \o Y) \o G) \o E
    BY <1>4, <1>5, <2>3, <2>4
  <2>6. RunsFrom(k, 0) = (F \o Y) \o (G \o E)
    <3>1. From(AllRuns(items[k]), 0) = F
      BY <2>1, <2>2, ItemFacts, FromFacts
    <3>2. ItemsFrom(k) = G \o E
      BY <1>5, <2>3
    <3> QED
      BY <2>2, <3>1, <3>2 DEF RunsFrom
  <2>7. (((X \o F) \o Y) \o G) \o E = X \o ((F \o Y) \o (G \o E))
    <3>1. PICK Z, V : /\ Z = F \o Y /\ Z \in Seq(Toks) /\ V = G \o E
      BY <2>2, ConcatProperties
    <3>2. (X \o F) \o Y = X \o Z
      BY <2>2, <3>1, ConcatAssociative
    <3>3. Grouped(X, Z, G, E)
      BY <1>3, <2>2, <2>3, <3>1, Regroup
    <3>4. (Z \o G) \o E = Z \o V
      BY <1>3, <2>3, <3>1, ConcatAssociative
    <3> QED
      BY <3>1, <3>2, <3>3, <3>4 DEF Grouped
  <2> QED
    BY <2>2, <2>5, <2>6, <2>7
<1> QED
  BY <1>1, <1>3, <1>6, <1>7, <1>8, <1>9

LEMMA AmongRuns ==
    ASSUME TypeOK, NEW k \in 1 .. Len(items)
    PROVE  /\ \A j \in 0 .. Len(items[k]) : RunsFrom(k, j) \in Seq(Toks)
           /\ RunsFrom(k, Len(items[k])) = <<End("si")>> \o ItemsFrom(k)
           /\ \A j \in 1 .. Len(items[k]) :
                 LET run == items[k][j]
                 IN  /\ run.tag = "t" => RunsFrom(k, j - 1) = <<Start("t")>> \o
                           ((TextFrom(run.text, 0) \o Closing(run)) \o RunsFrom(k, j))
                     /\ run.tag # "t" => RunsFrom(k, j - 1) = <<Start(run.tag)>> \o
                           ((TextElement(run.text) \o Closing(run)) \o RunsFrom(k, j))
<1>1. PICK item \in Seq(Runs) : item = items[k]
  BY ItemsAre
<1>2. PICK m \in Nat : m = Len(item) /\ \A j \in 1 .. m : item[j] \in Runs
  BY <1>1, ItemsAre
<1>3. PICK R : R = AllRuns(item) /\ R \in Seq(Seq(Toks)) /\ Len(R) = m
  BY <1>2, ItemFacts
<1>4. PICK E, I : E = <<End("si")>> /\ I = ItemsFrom(k) /\ E \in Seq(Toks) /\ I \in Seq(Toks)
  <2>1. k \in 0 .. Len(items)
    BY ItemsAre
  <2> QED
    BY <2>1, AmongItems, TokenFacts DEF Tags
<1>5. /\ From(R, m) = << >> /\ \A j \in 0 .. m : From(R, j) \in Seq(Toks)
      /\ \A j \in 1 .. m : From(R, j - 1) = R[j] \o From(R, j)
  BY <1>3, FromFacts
<1>6. \A j : RunsFrom(k, j) = (From(R, j) \o E) \o I
  BY <1>1, <1>3, <1>4 DEF RunsFrom
<1>7. \A y, z \in Seq(Toks) : y \o z \in Seq(Toks)
  BY ConcatProperties
<1>8. ASSUME NEW j \in 0 .. m PROVE RunsFrom(k, j) \in Seq(Toks)
  <2>1. From(R, j) \in Seq(Toks) /\ E \in Seq(Toks) /\ I \in Seq(Toks)
    BY <1>4, <1>5
  <2>2. (From(R, j) \o E) \o I \in Seq(Toks)
    BY <1>7, <2>1, Zenon
  <2> QED
    BY <1>6, <2>2
<1>9. RunsFrom(k, m) = E \o I
  <2>1. << >> \o E = E
    BY <1>4, ConcatEmptySeq
  <2> QED
    BY <1>5, <1>6, <2>1
<1>10. \A w, x, y, z \in Seq(Toks) : Grouped(w, x, y, z)
  BY Regroup
<1>11. ASSUME NEW j \in 1 .. m
       PROVE  LET run == item[j]
              IN  /\ run.tag = "t" => RunsFrom(k, j - 1) = <<Start("t")>> \o
                        ((TextFrom(run.text, 0) \o Closing(run)) \o RunsFrom(k, j))
                  /\ run.tag # "t" => RunsFrom(k, j - 1) = <<Start(run.tag)>> \o
                        ((TextElement(run.text) \o Closing(run)) \o RunsFrom(k, j))
  <2>1. PICK run \in Runs : run = item[j] /\ R[j] = RunTokens(run) /\ RunTokens(run) \in Seq(Toks)
    BY <1>2, <1>3, ItemFacts, RunFacts
  <2>2. PICK G, X : /\ G = From(R, j) /\ G \in Seq(Toks)
                    /\ X = RunsFrom(k, j) /\ X = (G \o E) \o I /\ X \in Seq(Toks)
    <3>1. j \in 0 .. m
      OBVIOUS
    <3> QED
      BY <1>5, <1>6, <1>8, <3>1
  <2>3. RunsFrom(k, j - 1) = ((RunTokens(run) \o G) \o E) \o I
    BY <1>5, <1>6, <2>1, <2>2
  <2>4. RunsFrom(k, j - 1) = RunTokens(run) \o X
    <3>1. E \in Seq(Toks) /\ I \in Seq(Toks) /\ G \in Seq(Toks)
      BY <1>4, <2>2
    <3>2. Grouped(RunTokens(run), G, E, I)
      BY <1>10, <2>1, <3>1
    <3> QED
      BY <2>2, <2>3, <3>2 DEF Grouped
  <2>5. CASE run.tag = "t"
    <3>1. RunTokens(run) = TextElement(run.text) /\ Closing(run) = << >>
      BY <2>5, RunFacts
    <3>2. PICK Y : Y = TextElement(run.text) /\ Y \in Seq(Toks)
      BY <2>1, <3>1
    <3>3. Y \o << >> = Y
      BY <3>2, ConcatEmptySeq
    <3>4. (Y \o Closing(run)) \o X = <<Start("t")>> \o ((TextFrom(run.text, 0) \o Closing(run)) \o X)
      BY <2>2, <3>2, ReadingText
    <3> QED
      BY <2>1, <2>2, <2>4, <2>5, <3>1, <3>2, <3>3, <3>4
  <2>6. CASE run.tag # "t"
    <3>1. RunTokens(run) = (<<Start(run.tag)>> \o TextElement(run.text)) \o Closing(run)
      BY <2>6, RunFacts
    <3>2. <<Start(run.tag)>> \in Seq(Toks) /\ TextElement(run.text) \in Seq(Toks) /\ Closing(run) \in Seq(Toks)
      BY RunFacts, TextFacts, TokenFacts
    <3>3. RunsFrom(k, j - 1) = <<Start(run.tag)>> \o ((TextElement(run.text) \o Closing(run)) \o X)
      <4>1. Grouped(<<Start(run.tag)>>, TextElement(run.text), Closing(run), X)
        BY <1>10, <2>2, <3>2
      <4> QED
        BY <2>4, <3>1, <4>1 DEF Grouped
    <3> QED
      BY <2>1, <2>2, <2>6, <3>3
  <2> QED
    BY <2>5, <2>6
<1> QED
  BY <1>1, <1>2, <1>4, <1>8, <1>9, <1>11

-----------------------------------------------------------------------------
(* What a callback does, by the token it is called for.                      *)
LEMMA OnStart ==
    ASSUME Next, Parsing, NEW tag \in Tags, NEW s \in Seq(Toks), rest = <<Start(tag)>> \o s
    PROVE  /\ rest' = s /\ state' = AfterStart(tag)
           /\ UNCHANGED <<data, phase, searcher, strings, document, names>>
<1>1. rest # << >> /\ Token = Start(tag) /\ Tail(rest) = s
  BY TokenFacts, FirstToken DEF Token
<1>2. Token.event = "start" /\ Token.what = tag
  BY <1>1 DEF Start
<1>3. OnStartElement
  BY <1>2 DEF Next, Parsing, Reads, OnText, EndText, EndItem, EndTable, EndPhonetic, EndIgnored,
              ResolveColumnNames, AtThrows, Terminated
<1> QED
  BY <1>1, <1>2, <1>3 DEF OnStartElement, Reads

LEMMA OnPiece ==
    ASSUME Next, Parsing, NEW x, NEW c, x = [event |-> "text", what |-> c], x \in Toks,
           NEW s \in Seq(Toks), rest = <<x>> \o s
    PROVE  /\ rest' = s /\ data' = IF text_handler THEN Append(data, c) ELSE data
           /\ UNCHANGED <<state, phase, searcher, strings, document, names>>
<1>1. rest # << >> /\ Token = x /\ Tail(rest) = s
  BY FirstToken DEF Token
<1>2. Token.event = "text" /\ Token.what = c
  BY <1>1
<1>3. OnText
  BY <1>2 DEF Next, Parsing, Reads, OnStartElement, EndText, EndItem, EndTable, EndPhonetic,
              EndIgnored, ResolveColumnNames, AtThrows, Terminated
<1> QED
  BY <1>1, <1>2, <1>3 DEF OnText, Reads

Silent == UNCHANGED <<data, phase, searcher, strings>>
LEMMA OnEnd ==
    ASSUME Next, Parsing, NEW tag \in Tags, NEW s \in Seq(Toks), rest = <<End(tag)>> \o s
    PROVE  /\ rest' = s /\ UNCHANGED <<document, names>>
           /\ \/ state = "T" /\ tag = "t" /\ state' = "SI" /\ Silent
              \/ state = "SI" /\ tag = "si" /\ state' = "SST" /\ OnString(data) /\ data' = << >>
              \/ state = "SST" /\ tag = "sst" /\ Finished /\ UNCHANGED <<searcher, strings>>
              \/ state = "RPH" /\ tag = "rPh" /\ state' = "SI" /\ Silent
              \/ /\ ~(state = "T" /\ tag = "t") /\ ~(state = "SI" /\ tag = "si")
                 /\ ~(state = "SST" /\ tag = "sst") /\ ~(state = "RPH" /\ tag = "rPh")
                 /\ UNCHANGED state /\ Silent
<1>1. rest # << >> /\ Token = End(tag) /\ Tail(rest) = s
  BY TokenFacts, FirstToken DEF Token
<1>2. Token.event = "end" /\ Token.what = tag
  BY <1>1 DEF End
<1>3. EndText \/ EndItem \/ EndTable \/ EndPhonetic \/ EndIgnored
  BY <1>2 DEF Next, Parsing, Reads, OnStartElement, OnText, ResolveColumnNames, AtThrows, Terminated
<1>4. rest' = s
  BY <1>1, <1>3 DEF EndText, EndItem, EndTable, EndPhonetic, EndIgnored, Reads
<1>5. CASE EndText
  BY <1>2, <1>4, <1>5 DEF EndText, Silent
<1>6. CASE EndItem
  BY <1>2, <1>4, <1>6 DEF EndItem
<1>7. CASE EndTable
  BY <1>2, <1>4, <1>7 DEF EndTable
<1>8. CASE EndPhonetic
  BY <1>2, <1>4, <1>8 DEF EndPhonetic, Silent
<1>9. CASE EndIgnored
  BY <1>2, <1>4, <1>9 DEF EndIgnored, Silent
<1> QED
  BY <1>3, <1>5, <1>6, <1>7, <1>8, <1>9

LEMMA SamePlaces ==
    ASSUME UNCHANGED items
    PROVE  /\ Tokens' = Tokens /\ \A k : ItemsFrom(k)' = ItemsFrom(k)
           /\ \A k, j : RunsFrom(k, j)' = RunsFrom(k, j) /\ Spoken(k, j)' = Spoken(k, j)
<1>1. Tokens' = Tokens /\ AllItems' = AllItems
  BY DEF Tokens, AllItems
<1>2. \A k : ItemsFrom(k)' = ItemsFrom(k)
  BY <1>1 DEF ItemsFrom
<1>3. \A k, j : RunsFrom(k, j)' = RunsFrom(k, j)
  BY <1>2 DEF RunsFrom
<1>4. \A k, j : Spoken(k, j)' = Spoken(k, j)
  BY DEF Spoken
<1> QED
  BY <1>1, <1>2, <1>3, <1>4

LEMMA SamePassed ==
    ASSUME UNCHANGED <<phase, searcher, strings>>
    PROVE  \A k : Passed(k) => Passed(k)'
BY DEF Passed, searcher, strings

(* What is said in an item, run by run.                                      *)
LEMMA SpokenFacts ==
    ASSUME NEW k, items[k] \in Seq(Runs)
    PROVE  /\ Spoken(k, 0) = << >> /\ Spoken(k, Len(items[k])) = StringOf(items[k])
           /\ \A j \in 0 .. Len(items[k]) : Spoken(k, j) \in Seq(Chars)
           /\ \A j \in 1 .. Len(items[k]) :
                 LET run == items[k][j]
                 IN  /\ run.tag = "rPh" => Spoken(k, j) = Spoken(k, j - 1)
                     /\ run.tag # "rPh" => Spoken(k, j) = Spoken(k, j - 1) \o run.text
<1>1. PICK item, X : item \in Seq(Runs) /\ item = items[k] /\ X = Texts(item)
  OBVIOUS
<1>2. DOMAIN item = 1 .. Len(item) /\ \A j \in 1 .. Len(item) : item[j] \in Runs
  BY <1>1, LenProperties, ElementOfSeq
<1>3. \A j \in 1 .. Len(item) :
         /\ X[j] = IF item[j].tag = "rPh" THEN << >> ELSE item[j].text
         /\ X[j] \in Seq(Chars)
  BY <1>1, <1>2, RunFacts, EmptySeq DEF Texts
<1>4. X \in Seq(Seq(Chars)) /\ Len(X) = Len(item)
  <2>1. DOMAIN X = DOMAIN item /\ X = [i \in DOMAIN X |-> X[i]]
    BY <1>1 DEF Texts
  <2> QED
    BY <1>3, <2>1, MadeFrom
<1>5. \A j : Spoken(k, j) = UpTo(X, j)
  BY <1>1 DEF Spoken
<1>6. /\ UpTo(X, 0) = << >> /\ UpTo(X, Len(item)) = FlattenSeq(X)
      /\ \A j \in 0 .. Len(item) : UpTo(X, j) \in Seq(Chars)
      /\ \A j \in 1 .. Len(item) : UpTo(X, j) = UpTo(X, j - 1) \o X[j]
  BY <1>4, UpToFacts
<1>7. StringOf(item) = FlattenSeq(X)
  BY <1>1 DEF StringOf
<1>8. ASSUME NEW j \in 1 .. Len(item)
      PROVE  /\ item[j].tag = "rPh" => Spoken(k, j) = Spoken(k, j - 1)
             /\ item[j].tag # "rPh" => Spoken(k, j) = Spoken(k, j - 1) \o item[j].text
  <2>1. Spoken(k, j) = Spoken(k, j - 1) \o X[j]
    BY <1>5, <1>6
  <2>2. j - 1 \in 0 .. Len(item)
    BY LenProperties
  <2>3. Spoken(k, j - 1) \o << >> = Spoken(k, j - 1)
    BY <1>5, <1>6, <2>2, ConcatEmptySeq
  <2> QED
    BY <1>3, <2>1, <2>3
<1> QED
  BY <1>1, <1>5, <1>6, <1>7, <1>8

-----------------------------------------------------------------------------
(* From place to place.                                                      *)
LEMMA FromStart ==
    ASSUME TypeOK, Next, Parsing, AtStart PROVE AtAPlace' /\ Silent
<1>1. rest = <<Start("sst")>> \o ItemsFrom(0) /\ ItemsFrom(0) \in Seq(Toks) /\ 0 \in 0 .. Len(items)
  BY ItemsAre, AmongItems DEF AtStart
<1>2. /\ rest' = ItemsFrom(0) /\ state' = AfterStart("sst")
      /\ UNCHANGED <<data, phase, searcher, strings, document>>
  <2>1. "sst" \in Tags
    BY DEF Tags
  <2> QED
    BY <1>1, <2>1, OnStart
<1>3. UNCHANGED items
  BY <1>2 DEF document
<1>4. state' = "SST" /\ data' = << >>
  BY <1>2 DEF AtStart, AfterStart
<1>5. Passed(0)'
  BY <1>2, SamePassed DEF AtStart
<1>6. BetweenItems(0)'
  BY <1>2, <1>3, <1>4, <1>5, SamePlaces DEF BetweenItems
<1>7. \E k \in 0 .. Len(items') : BetweenItems(k)'
  BY <1>1, <1>3, <1>6
<1> QED
  BY <1>2, <1>7 DEF AtAPlace, Silent

LEMMA FromBetweenItems ==
    ASSUME TypeOK, Next, Parsing, NEW k \in 0 .. Len(items), BetweenItems(k)
    PROVE  \/ AtAPlace' /\ Silent
           \/ k = Len(items) /\ Finished /\ UNCHANGED <<searcher, strings>>
<1>1. ItemsFrom(k) \in Seq(Toks) /\ Len(items) \in Nat
  BY ItemsAre, AmongItems
<1>2. CASE k = Len(items)
  <2>1. rest = <<End("sst")>> \o << >> /\ << >> \in Seq(Toks)
    <3>1. rest = <<End("sst")>> /\ <<End("sst")>> \in Seq(Toks)
      BY <1>2, AmongItems, TokenFacts DEF BetweenItems, Tags
    <3> QED
      BY <3>1, ConcatEmptySeq, EmptySeq
  <2>2. "sst" \in Tags /\ state = "SST"
    BY DEF Tags, BetweenItems
  <2> QED
    BY <1>2, <2>1, <2>2, OnEnd
<1>3. CASE k # Len(items)
  <2>1. k + 1 \in 1 .. Len(items) /\ (k + 1) - 1 = k
    BY <1>1, <1>3
  <2>2. rest = <<Start("si")>> \o RunsFrom(k + 1, 0)
    BY <2>1, AmongItems DEF BetweenItems
  <2>3. 0 \in 0 .. Len(items[k + 1]) /\ items[k + 1] \in Seq(Runs)
    BY <2>1, ItemsAre
  <2>4. RunsFrom(k + 1, 0) \in Seq(Toks)
    BY <2>1, <2>3, AmongRuns
  <2>5. "si" \in Tags
    BY DEF Tags
  <2>6. /\ rest' = RunsFrom(k + 1, 0) /\ state' = AfterStart("si")
        /\ UNCHANGED <<data, phase, searcher, strings, document>>
    BY <2>2, <2>4, <2>5, OnStart
  <2>7. UNCHANGED items
    BY <2>6 DEF document
  <2>8. state' = "SI" /\ data' = Spoken(k + 1, 0)
    BY <2>3, <2>6, SpokenFacts DEF BetweenItems, AfterStart
  <2>9. Passed((k + 1) - 1)'
    BY <2>1, <2>6, SamePassed DEF BetweenItems
  <2>10. BetweenRuns(k + 1, 0)'
    BY <2>6, <2>7, <2>8, SamePlaces DEF BetweenRuns
  <2>11. \E i \in 1 .. Len(items') :
            Passed(i - 1)' /\ \E j \in 0 .. Len(items'[i]) : BetweenRuns(i, j)'
    BY <2>1, <2>3, <2>7, <2>9, <2>10
  <2> QED
    BY <2>6, <2>11 DEF AtAPlace, Silent
<1> QED
  BY <1>2, <1>3

(* A place in a run is one when the item is.                                 *)
LEMMA InRunIsPlace ==
    ASSUME TypeOK, NEW k \in 1 .. Len(items), NEW j \in 1 .. Len(items[k]), UNCHANGED items,
           Passed(k - 1)', NEW run, run = items[k][j],
           \/ BeforeText(k, j, run)' \/ AfterText(k, j, run)'
           \/ \E p \in 0 .. Len(run.text) : InText(k, j, run, p)'
    PROVE  AtAPlace'
<1>1. j \in 1 .. Len(items'[k]) /\ items'[k][j] = run
  OBVIOUS
<1>2. CASE BeforeText(k, j, run)'
  <2>1. BeforeText(k, j, items[k][j])'
    BY <1>1, <1>2 DEF BeforeText
  <2> QED
    BY <1>1, <2>1 DEF InRun, AtAPlace
<1>3. CASE AfterText(k, j, run)'
  <2>1. AfterText(k, j, items[k][j])'
    BY <1>1, <1>3 DEF AfterText
  <2> QED
    BY <1>1, <2>1 DEF InRun, AtAPlace
<1>4. ASSUME NEW p \in 0 .. Len(run.text), InText(k, j, run, p)' PROVE AtAPlace'
  <2>1. InText(k, j, items[k][j], p)'
    BY <1>1, <1>4 DEF InText
  <2> QED
    BY <1>1, <2>1 DEF InRun, AtAPlace
<1> QED
  BY <1>2, <1>3, <1>4

LEMMA BetweenRunsIsPlace ==
    ASSUME NEW k \in 1 .. Len(items), NEW j \in 0 .. Len(items[k]), UNCHANGED items,
           Passed(k - 1)', BetweenRuns(k, j)'
    PROVE  AtAPlace'
<1>1. \E i \in 1 .. Len(items') :
         Passed(i - 1)' /\ \E l \in 0 .. Len(items'[i]) : BetweenRuns(i, l)'
  OBVIOUS
<1> QED
  BY <1>1 DEF AtAPlace

LEMMA FromBetweenRuns ==
    ASSUME TypeOK, Next, Parsing, NEW k \in 1 .. Len(items), NEW j \in 0 .. Len(items[k]),
           Passed(k - 1), BetweenRuns(k, j)
    PROVE  \/ AtAPlace' /\ Silent
           \/ /\ data = StringOf(items[k]) /\ OnString(data)
              /\ rest' = ItemsFrom(k) /\ state' = "SST" /\ data' = << >> /\ UNCHANGED items
<1>1. PICK m \in Nat : m = Len(items[k]) /\ items[k] \in Seq(Runs)
  BY ItemsAre
<1>2. state = "SI" /\ rest = RunsFrom(k, j) /\ data = Spoken(k, j) /\ Spoken(k, j) \in Seq(Chars)
  BY <1>1, SpokenFacts DEF BetweenRuns
<1>3. CASE j = m
  <2>1. rest = <<End("si")>> \o ItemsFrom(k) /\ ItemsFrom(k) \in Seq(Toks) /\ "si" \in Tags
    <3>1. k \in 0 .. Len(items)
      BY ItemsAre
    <3> QED
      BY <1>1, <1>2, <1>3, <3>1, AmongRuns, AmongItems DEF Tags
  <2>2. /\ rest' = ItemsFrom(k) /\ UNCHANGED document
        /\ state' = "SST" /\ OnString(data) /\ data' = << >>
    BY <1>2, <2>1, OnEnd
  <2> QED
    BY <1>1, <1>2, <1>3, <2>2, SpokenFacts DEF document
<1>4. CASE j # m
  <2>1. j + 1 \in 1 .. m /\ (j + 1) - 1 = j /\ j + 1 \in 0 .. m
    BY <1>1, <1>4
  <2>2. PICK run \in Runs : run = items[k][j + 1]
    BY <1>1, <2>1, ItemsAre
  <2>3. PICK X : X = RunsFrom(k, j + 1) /\ X \in Seq(Toks)
    BY <1>1, <2>1, AmongRuns
  <2>4. CASE run.tag = "t"
    <3>1. PICK Y : /\ Y = (TextFrom(run.text, 0) \o Closing(run)) \o X /\ Y \in Seq(Toks)
                   /\ 0 \in 0 .. Len(run.text)
      <4>1. 0 \in 0 .. Len(run.text)
        BY RunFacts, LenProperties
      <4> QED
        BY <2>3, <4>1, ReadingText
    <3>2. rest = <<Start("t")>> \o Y
      BY <1>1, <1>2, <2>1, <2>2, <2>3, <2>4, <3>1, AmongRuns
    <3>3. rest' = Y /\ state' = AfterStart("t") /\ UNCHANGED <<data, phase, searcher, strings, document>>
      <4>1. "t" \in Tags
        BY DEF Tags
      <4> QED
        BY <3>1, <3>2, <4>1, OnStart
    <3>4. state' = "T" /\ UNCHANGED items /\ Passed(k - 1)'
      BY <1>2, <3>3, SamePassed DEF AfterStart, document
    <3>5. data' = Spoken(k, j) \o SubSeq(run.text, 1, 0)
      <4>1. SubSeq(run.text, 1, 0) = << >>
        BY SubSeqEmpty
      <4> QED
        BY <1>2, <3>3, <4>1, ConcatEmptySeq
    <3>6. InText(k, j + 1, run, 0)'
      BY <2>1, <2>3, <2>4, <3>1, <3>3, <3>4, <3>5, SamePlaces DEF InText
    <3> QED
      BY <1>1, <2>1, <2>2, <3>1, <3>3, <3>4, <3>6, InRunIsPlace DEF Silent
  <2>5. CASE run.tag # "t"
    <3>1. PICK Y : Y = (TextElement(run.text) \o Closing(run)) \o X /\ Y \in Seq(Toks)
      <4>1. TextElement(run.text) \in Seq(Toks) /\ Closing(run) \in Seq(Toks)
        BY RunFacts, TextFacts
      <4>2. TextElement(run.text) \o Closing(run) \in Seq(Toks)
        BY <4>1, ConcatProperties
      <4> QED
        BY <2>3, <4>2, ConcatProperties
    <3>2. rest = <<Start(run.tag)>> \o Y
      BY <1>1, <1>2, <2>1, <2>2, <2>3, <2>5, <3>1, AmongRuns
    <3>3. rest' = Y /\ state' = AfterStart(run.tag) /\ UNCHANGED <<data, phase, searcher, strings, document>>
      <4>1. run.tag \in Tags
        BY RunFacts
      <4> QED
        BY <3>1, <3>2, <4>1, OnStart
    <3>4. state' = Around(run)
      <4>1. run.tag \in {"r", "rPh"}
        BY <2>5 DEF Runs
      <4>2. CASE run.tag = "r"
        BY <1>2, <3>3, <4>2 DEF AfterStart, Around
      <4>3. CASE run.tag = "rPh"
        BY <1>2, <3>3, <4>3 DEF AfterStart, Around
      <4> QED
        BY <4>1, <4>2, <4>3
    <3>5. UNCHANGED items /\ Passed(k - 1)'
      BY <3>3, SamePassed DEF document
    <3>6. BeforeText(k, j + 1, run)'
      BY <1>2, <2>1, <2>3, <2>5, <3>1, <3>3, <3>4, <3>5, SamePlaces DEF BeforeText
    <3> QED
      BY <1>1, <2>1, <2>2, <3>3, <3>5, <3>6, InRunIsPlace DEF Silent
  <2> QED
    BY <2>4, <2>5
<1> QED
  BY <1>3, <1>4

LEMMA FromBeforeText ==
    ASSUME TypeOK, Next, Parsing, NEW k \in 1 .. Len(items), NEW j \in 1 .. Len(items[k]),
           Passed(k - 1), BeforeText(k, j, items[k][j])
    PROVE  AtAPlace' /\ Silent
<1>1. PICK run \in Runs : run = items[k][j] /\ BeforeText(k, j, run)
  BY ItemsAre
<1>2. PICK X : X = RunsFrom(k, j) /\ X \in Seq(Toks)
  <2>1. j \in 0 .. Len(items[k])
    BY ItemsAre
  <2> QED
    BY <2>1, AmongRuns
<1>3. PICK Y : /\ Y = (TextFrom(run.text, 0) \o Closing(run)) \o X /\ Y \in Seq(Toks)
               /\ 0 \in 0 .. Len(run.text)
  <2>1. 0 \in 0 .. Len(run.text)
    BY RunFacts, LenProperties
  <2> QED
    BY <1>2, <2>1, ReadingText
<1>4. rest = <<Start("t")>> \o Y
  BY <1>1, <1>2, <1>3, ReadingText DEF BeforeText
<1>5. rest' = Y /\ state' = AfterStart("t") /\ UNCHANGED <<data, phase, searcher, strings, document>>
  <2>1. "t" \in Tags
    BY DEF Tags
  <2> QED
    BY <1>3, <1>4, <2>1, OnStart
<1>6. UNCHANGED items /\ Passed(k - 1)'
  BY <1>5, SamePassed DEF document
<1>7. state' = IF run.tag = "rPh" THEN "RPH" ELSE "T"
  <2>1. CASE run.tag = "rPh"
    BY <1>1, <1>5, <2>1 DEF BeforeText, Around, AfterStart
  <2>2. CASE run.tag # "rPh"
    BY <1>1, <1>5, <2>2 DEF BeforeText, Around, AfterStart
  <2> QED
    BY <2>1, <2>2
<1>8. data' = Spoken(k, j - 1) \o (IF run.tag = "rPh" THEN << >> ELSE SubSeq(run.text, 1, 0))
  <2>1. SubSeq(run.text, 1, 0) = << >>
    BY SubSeqEmpty
  <2>2. items[k] \in Seq(Runs) /\ j - 1 \in 0 .. Len(items[k])
    BY ItemsAre
  <2>3. Spoken(k, j - 1) \in Seq(Chars)
    BY <2>2, SpokenFacts
  <2>4. Spoken(k, j - 1) \o << >> = Spoken(k, j - 1)
    BY <2>3, ConcatEmptySeq
  <2> QED
    BY <1>1, <1>5, <2>1, <2>4 DEF BeforeText
<1>9. InText(k, j, run, 0)'
  BY <1>2, <1>3, <1>5, <1>6, <1>7, <1>8, SamePlaces DEF InText
<1> QED
  BY <1>1, <1>3, <1>5, <1>6, <1>9, InRunIsPlace DEF Silent

LEMMA FromAfterText ==
    ASSUME TypeOK, Next, Parsing, NEW k \in 1 .. Len(items), NEW j \in 1 .. Len(items[k]),
           Passed(k - 1), AfterText(k, j, items[k][j])
    PROVE  AtAPlace' /\ Silent
<1>1. PICK run \in Runs : run = items[k][j] /\ AfterText(k, j, run)
  BY ItemsAre
<1>2. PICK X : X = RunsFrom(k, j) /\ X \in Seq(Toks) /\ j \in 0 .. Len(items[k])
  <2>1. j \in 0 .. Len(items[k])
    BY ItemsAre
  <2> QED
    BY <2>1, AmongRuns
<1>3. run.tag \in {"r", "rPh"} /\ run.tag \in Tags /\ rest = <<End(run.tag)>> \o X
  BY <1>1, <1>2, RunFacts DEF AfterText, Runs
<1>4. state = Around(run) /\ data = Spoken(k, j)
  BY <1>1 DEF AfterText
<1>5. rest' = X /\ UNCHANGED document /\ state' = "SI" /\ Silent
  <2>1. CASE run.tag = "r"
    BY <1>2, <1>3, <1>4, <2>1, OnEnd DEF Around
  <2>2. CASE run.tag = "rPh"
    BY <1>2, <1>3, <1>4, <2>2, OnEnd DEF Around
  <2> QED
    BY <1>3, <2>1, <2>2
<1>6. UNCHANGED items /\ Passed(k - 1)'
  BY <1>5, SamePassed DEF document, Silent
<1>7. BetweenRuns(k, j)'
  BY <1>2, <1>4, <1>5, <1>6, SamePlaces DEF BetweenRuns, Silent
<1> QED
  BY <1>2, <1>5, <1>6, <1>7, BetweenRunsIsPlace

LEMMA FromInText ==
    ASSUME TypeOK, Next, Parsing, NEW k \in 1 .. Len(items), NEW j \in 1 .. Len(items[k]),
           NEW p \in 0 .. Len(items[k][j].text), Passed(k - 1), InText(k, j, items[k][j], p)
    PROVE  AtAPlace' /\ UNCHANGED <<phase, searcher, strings>>
<1>1. PICK run \in Runs : run = items[k][j] /\ InText(k, j, run, p)
  BY ItemsAre
<1>2. PICK X : X = RunsFrom(k, j) /\ X \in Seq(Toks) /\ j \in 0 .. Len(items[k])
  <2>1. j \in 0 .. Len(items[k])
    BY ItemsAre
  <2> QED
    BY <2>1, AmongRuns
<1>3. PICK n \in Nat : n = Len(run.text) /\ p \in 0 .. n
  BY <1>1, RunFacts, LenProperties
<1>4. PICK text, S : text = run.text /\ text \in Seq(Chars) /\ S = Spoken(k, j - 1) /\ S \in Seq(Chars)
  <2>1. items[k] \in Seq(Runs) /\ j - 1 \in 0 .. Len(items[k])
    BY ItemsAre
  <2> QED
    BY <2>1, SpokenFacts, RunFacts
<1>5. /\ rest = (TextFrom(text, p) \o Closing(run)) \o X
      /\ state = (IF run.tag = "rPh" THEN "RPH" ELSE "T")
      /\ data = S \o (IF run.tag = "rPh" THEN << >> ELSE SubSeq(text, 1, p))
  BY <1>1, <1>2, <1>4 DEF InText
<1>6. CASE p < n
  <2>1. PICK x, Y : /\ x = Pieces(text)[p + 1] /\ Y = (TextFrom(text, p + 1) \o Closing(run)) \o X
                    /\ rest = <<x>> \o Y /\ Y \in Seq(Toks)
    <3>1. p + 1 \in 0 .. Len(run.text)
      BY <1>3, <1>6
    <3>2. p \in 0 .. Len(run.text) /\ p < Len(run.text)
      BY <1>3, <1>6
    <3>3. (TextFrom(run.text, p + 1) \o Closing(run)) \o X \in Seq(Toks)
      BY <1>2, <3>1, ReadingText
    <3>4. (TextFrom(run.text, p) \o Closing(run)) \o X =
             <<Pieces(run.text)[p + 1]>> \o ((TextFrom(run.text, p + 1) \o Closing(run)) \o X)
      BY <1>2, <3>2, ReadingText
    <3> QED
      BY <1>4, <1>5, <3>3, <3>4
  <2>2. x = [event |-> "text", what |-> text[p + 1]] /\ x \in Toks /\ text[p + 1] \in Chars
    <3>1. p + 1 \in 1 .. n /\ DOMAIN text = 1 .. n /\ text[p + 1] \in Chars
      BY <1>3, <1>4, <1>6, LenProperties, ElementOfSeq
    <3> QED
      BY <2>1, <3>1 DEF Pieces, Toks
  <2>3. /\ rest' = Y /\ data' = IF text_handler THEN Append(data, text[p + 1]) ELSE data
        /\ UNCHANGED <<state, phase, searcher, strings, document>>
    BY <2>1, <2>2, OnPiece
  <2>4. UNCHANGED items /\ Passed(k - 1)'
    BY <2>3, SamePassed DEF document
  <2>5. data' = S \o (IF run.tag = "rPh" THEN << >> ELSE SubSeq(text, 1, p + 1))
    <3>1. CASE run.tag = "rPh"
      BY <1>5, <2>3, <3>1 DEF TypeOK
    <3>2. CASE run.tag # "rPh"
      <4>1. text_handler = TRUE
        BY <1>5, <3>2 DEF TypeOK
      <4>2. PICK U : U = SubSeq(text, 1, p) /\ U \in Seq(Chars)
        <5>1. \A i \in 1 .. p : text[i] \in Chars
          BY <1>3, <1>4, ElementOfSeq
        <5>2. p \in Int
          BY <1>3
        <5>3. SubSeq(text, 1, p) \in Seq(Chars)
          BY <5>1, <5>2, SubSeqProperties
        <5> QED
          BY <5>3
      <4>3. data = S \o U /\ S \o U \in Seq(Chars)
        BY <1>4, <1>5, <3>2, <4>2, ConcatProperties
      <4>4. PICK c : c = <<text[p + 1]>> /\ c \in Seq(Chars)
        <5>1. <<text[p + 1]>> \in Seq(Chars)
          BY <2>2
        <5> QED
          BY <5>1
      <4>5. Append(S \o U, text[p + 1]) = (S \o U) \o c
        BY <2>2, <4>3, <4>4, AppendIsConcat
      <4>6. (S \o U) \o c = S \o (U \o c)
        <5>1. S \in Seq(Chars) /\ U \in Seq(Chars) /\ c \in Seq(Chars)
          BY <1>4, <4>2, <4>4
        <5>2. \A a, b, d \in Seq(Chars) : (a \o b) \o d = a \o (b \o d)
          BY ConcatAssociative
        <5> QED
          BY <5>1, <5>2, Zenon
      <4>7. SubSeq(text, 1, p + 1) = U \o c
        <5>1. 1 \in 1 .. n /\ p + 1 \in 1 .. n /\ (p + 1) - 1 = p
          BY <1>3, <1>6
        <5> QED
          BY <1>3, <1>4, <4>2, <4>4, <5>1, SubSeqRecursiveSecond
      <4> QED
        BY <2>3, <3>2, <4>1, <4>3, <4>5, <4>6, <4>7
    <3> QED
      BY <3>1, <3>2
  <2>6. p + 1 \in 0 .. Len(run.text)
    BY <1>3, <1>6
  <2>7. InText(k, j, run, p + 1)'
    BY <1>2, <1>4, <1>5, <2>1, <2>3, <2>4, <2>5, SamePlaces DEF InText
  <2> QED
    BY <1>1, <2>3, <2>4, <2>6, <2>7, InRunIsPlace
<1>7. CASE p = n
  <2>1. PICK Y : Y = Closing(run) \o X /\ rest = <<End("t")>> \o Y /\ Y \in Seq(Toks)
    BY <1>2, <1>3, <1>4, <1>5, <1>7, ReadingText
  <2>2. "t" \in Tags
    BY DEF Tags
  <2>3. data = Spoken(k, j)
    <3>1. S \o << >> = S /\ SubSeq(text, 1, n) = text
      BY <1>3, <1>4, ConcatEmptySeq, SubSeqFull
    <3>2. items[k] \in Seq(Runs)
      BY ItemsAre
    <3>3. /\ run.tag = "rPh" => Spoken(k, j) = S
          /\ run.tag # "rPh" => Spoken(k, j) = S \o text
      BY <1>1, <1>4, <3>2, SpokenFacts
    <3> QED
      BY <1>5, <1>7, <3>1, <3>3
  <2>4. rest' = Y /\ UNCHANGED document /\ Silent /\ state' = Around(run)
    <3>1. CASE run.tag = "rPh"
      BY <1>5, <2>1, <2>2, <3>1, OnEnd DEF Around
    <3>2. CASE run.tag # "rPh"
      BY <1>5, <2>1, <2>2, <3>2, OnEnd DEF Around
    <3> QED
      BY <3>1, <3>2
  <2>5. UNCHANGED items /\ Passed(k - 1)'
    BY <2>4, SamePassed DEF document, Silent
  <2>6. CASE run.tag = "t"
    <3>1. Y = X
      BY <1>2, <2>1, <2>6, RunFacts, ConcatEmptySeq
    <3>2. BetweenRuns(k, j)'
      BY <1>2, <2>3, <2>4, <2>5, <2>6, <3>1, SamePlaces DEF BetweenRuns, Around, Silent
    <3> QED
      BY <1>2, <2>4, <2>5, <3>2, BetweenRunsIsPlace DEF Silent
  <2>7. CASE run.tag # "t"
    <3>1. AfterText(k, j, run)'
      BY <1>2, <2>1, <2>3, <2>4, <2>5, <2>7, SamePlaces DEF AfterText, Silent
    <3> QED
      BY <1>1, <2>4, <2>5, <3>1, InRunIsPlace DEF Silent
  <2> QED
    BY <2>6, <2>7
<1> QED
  BY <1>3, <1>6, <1>7

(* One callback: to the next place, to the end of the table, or to the end   *)
(* of an item, with the string of the item.                                  *)
Handed(k) ==
    /\ Passed(k - 1) /\ OnString(StringOf(items[k]))
    /\ rest' = ItemsFrom(k) /\ state' = "SST" /\ data' = << >> /\ UNCHANGED items
LEMMA PlaceStep ==
    ASSUME TypeOK, Next, Parsing, AtAPlace
    PROVE  \/ AtAPlace' /\ UNCHANGED <<phase, searcher, strings>>
           \/ Finished /\ UNCHANGED <<searcher, strings>> /\ Passed(Len(items))
           \/ \E k \in 1 .. Len(items) : Handed(k)
<1>1. CASE AtStart
  BY <1>1, FromStart DEF Silent
<1>2. ASSUME NEW k \in 0 .. Len(items), BetweenItems(k)
      PROVE  \/ AtAPlace' /\ UNCHANGED <<phase, searcher, strings>>
             \/ Finished /\ UNCHANGED <<searcher, strings>> /\ Passed(Len(items))
  BY <1>2, FromBetweenItems DEF Silent, BetweenItems
<1>3. ASSUME NEW k \in 1 .. Len(items), Passed(k - 1), InRun(k)
      PROVE  AtAPlace' /\ UNCHANGED <<phase, searcher, strings>>
  <2>1. PICK j \in 1 .. Len(items[k]) :
           \/ BeforeText(k, j, items[k][j]) \/ AfterText(k, j, items[k][j])
           \/ \E p \in 0 .. Len(items[k][j].text) : InText(k, j, items[k][j], p)
    BY <1>3 DEF InRun
  <2>2. CASE BeforeText(k, j, items[k][j])
    BY <1>3, <2>2, FromBeforeText DEF Silent
  <2>3. CASE AfterText(k, j, items[k][j])
    BY <1>3, <2>3, FromAfterText DEF Silent
  <2>4. ASSUME NEW p \in 0 .. Len(items[k][j].text), InText(k, j, items[k][j], p)
        PROVE  AtAPlace' /\ UNCHANGED <<phase, searcher, strings>>
    BY <1>3, <2>4, FromInText
  <2> QED
    BY <2>1, <2>2, <2>3, <2>4
<1>4. ASSUME NEW k \in 1 .. Len(items), Passed(k - 1), NEW j \in 0 .. Len(items[k]), BetweenRuns(k, j)
      PROVE  (AtAPlace' /\ UNCHANGED <<phase, searcher, strings>>) \/ Handed(k)
  BY <1>4, FromBetweenRuns DEF Silent, Handed
<1> QED
  BY <1>1, <1>2, <1>3, <1>4 DEF AtAPlace

-----------------------------------------------------------------------------
(* The ids of the header, in ascending order.                                *)
LEMMA IdsFacts ==
    ASSUME header \in Seq(Nat)
    PROVE  LET s == Ascending(Range(header))
           IN  /\ Len(s) \in Nat /\ DOMAIN s = 1 .. Len(s)
               /\ \A i \in 1 .. Len(s) : s[i] \in Nat /\ \E j \in DOMAIN header : s[i] = header[j]
               /\ \A j, i \in 1 .. Len(s) : j < i => s[j] < s[i]
               /\ \A j \in DOMAIN header : \E i \in 1 .. Len(s) : s[i] = header[j]
<1>1. PICK R : R = Range(header)
  OBVIOUS
<1>2. R = {header[j] : j \in DOMAIN header} /\ DOMAIN header = 1 .. Len(header) /\ Len(header) \in Nat
  BY <1>1, LenProperties DEF Range
<1>3. \A j \in DOMAIN header : header[j] \in Nat
  BY <1>2, ElementOfSeq
<1>4. R \in SUBSET Int /\ R \in SUBSET Nat
  BY <1>2, <1>3
<1>5. IsFiniteSet(R)
  <2>1. IsFiniteSet(DOMAIN header)
    BY <1>2, FS_Interval
  <2>2. header = [j \in DOMAIN header |-> header[j]]
    BY LenProperties
  <2> QED
    BY <1>2, <2>1, <2>2, ImageFinite
<1>0. PICK n \in Nat : n = Cardinality(R)
  BY <1>4, <1>5, AscendingFacts
<1>6. PICK s : /\ s = Ascending(R) /\ Len(s) = n /\ s \in Seq(R) /\ DOMAIN s = 1 .. n
               /\ \A j, i \in 1 .. n : j < i => s[j] < s[i]
               /\ \A x \in R : \E i \in 1 .. n : s[i] = x
  <2>1. /\ Len(Ascending(R)) = n /\ Ascending(R) \in Seq(R) /\ DOMAIN Ascending(R) = 1 .. n
        /\ \A j, i \in 1 .. n : j < i => Ascending(R)[j] < Ascending(R)[i]
        /\ \A x \in R : \E i \in 1 .. n : Ascending(R)[i] = x
    BY <1>0, <1>4, <1>5, AscendingFacts
  <2> QED
    BY <2>1
<1>7. \A i \in 1 .. n : s[i] \in R
  BY <1>6, ElementOfSeq
<1>8. \A i \in 1 .. n : s[i] \in Nat /\ \E j \in DOMAIN header : s[i] = header[j]
  BY <1>2, <1>4, <1>7
<1>9. \A j \in DOMAIN header : \E i \in 1 .. n : s[i] = header[j]
  BY <1>2, <1>6
<1> QED
  BY <1>1, <1>6, <1>8, <1>9

LEMMA StringsAreText ==
    ASSUME TypeOK, NEW k \in 1 .. Len(items) PROVE StringOf(items[k]) \in Seq(Chars)
<1>1. items[k] \in Seq(Runs) /\ Len(items[k]) \in 0 .. Len(items[k])
  BY ItemsAre
<1> QED
  BY <1>1, SpokenFacts

-----------------------------------------------------------------------------
LEMMA StringsInit == Init => StringsInv
<1> SUFFICES ASSUME Init PROVE StringsInv
  OBVIOUS
<1>1. items \in Seq(ItemShapes)
  BY DEF Init
<1>2. header \in Seq(Nat)
  BY StringsAssumption DEF Init
<1>3. PICK N \in Nat : N = Len(ids) /\ DOMAIN ids = 1 .. N /\ \A i \in 1 .. N : ids[i] \in Nat
  BY <1>2, IdsFacts DEF Init
<1>4. PICK n \in Nat : n = Len(items)
  BY <1>1, LenProperties
<1>5. TypeOK
  <2>1. phase \in {"search", "resolve", "failed"} /\ (~has_entry => phase # "search")
    BY DEF Init
  <2>2. text_handler = (state = "T")
    BY DEF Init, NothingParsed
  <2>3. index \in Seq(Refs) /\ arena \in Seq(Seq(Chars))
    BY EmptySeq DEF Init
  <2> QED
    BY <1>1, <1>2, <2>1, <2>2, <2>3 DEF TypeOK, Init
<1>6. AtAPlace
  BY EmptySeq DEF Init, NothingParsed, AtAPlace, AtStart, Passed
<1>7. Searched
  <2>1. current_idx = 0 /\ current_str = 0 /\ DOMAIN result = {} /\ ids = Ascending(Range(header))
    BY DEF Init, NoString
  <2>2. phase = "resolve" => current_idx = N
    <3> SUFFICES ASSUME phase = "resolve" PROVE N = 0
      BY <2>1
    <3>1. header = << >> /\ DOMAIN header = {}
      <4>1. header = << >>
        BY DEF Init
      <4>2. Len(header) = 0 /\ DOMAIN header = 1 .. 0
        BY <1>2, <4>1, EmptySeq, LenProperties
      <4> QED
        BY <4>1, <4>2
    <3>2. \A i \in 1 .. N : FALSE
      BY <1>2, <1>3, <2>1, <3>1, IdsFacts
    <3> QED
      BY <3>2
  <2>3. {ids[i] : i \in 1 .. 0} = {}
    OBVIOUS
  <2> QED
    BY <1>3, <1>4, <2>1, <2>2, <2>3 DEF Searched
<1>8. Stored
  <2>1. index = << >> /\ DOMAIN index = {} /\ DOMAIN table = {} /\ phase # "done"
    BY EmptySeq DEF Init, NoString
  <2> QED
    BY <2>1 DEF Stored
<1>9. NamesResolve
  <2>1. phase \notin {"load", "done"}
    BY DEF Init
  <2>2. ASSUME phase = "failed" PROVE \E i \in DOMAIN header : header[i] >= Len(items)
    <3>1. header # << >> /\ items = << >>
      BY <2>2 DEF Init
    <3>2. Len(items) = 0
      BY <3>1
    <3>3. 1 \in DOMAIN header /\ header[1] \in Nat
      BY <1>2, <3>1, EmptySeq, LenProperties, ElementOfSeq
    <3> QED
      BY <3>2, <3>3
  <2> QED
    BY <2>1, <2>2 DEF NamesResolve
<1>10. SearchStops
  BY DEF Init, SearchStops
<1> QED
  BY <1>5, <1>6, <1>7, <1>8, <1>9, <1>10 DEF StringsInv

-----------------------------------------------------------------------------
(* A step keeps the invariant.                                               *)
LEMMA Moves ==
    ASSUME TypeOK, [Next]_vars
    PROVE  \/ UNCHANGED vars
           \/ Parsing /\ Next /\ UNCHANGED <<document, names>>
           \/ ~Parsing /\ (ResolveColumnNames \/ AtThrows)
<1>1. CASE UNCHANGED vars
  BY <1>1
<1>2. CASE OnStartElement \/ OnText \/ EndText \/ EndItem \/ EndTable \/ EndPhonetic \/ EndIgnored
  BY <1>2 DEF Next, OnStartElement, OnText, EndText, EndItem, EndTable, EndPhonetic, EndIgnored, Reads
<1>3. CASE ResolveColumnNames \/ AtThrows
  BY <1>3 DEF ResolveColumnNames, AtThrows, Parsing
<1>4. CASE Terminated
  BY <1>4 DEF Terminated
<1> QED
  BY <1>1, <1>2, <1>3, <1>4 DEF Next

LEMMA StillAtPlace ==
    ASSUME AtAPlace, UNCHANGED vars PROVE AtAPlace'
<1> USE DEF vars, document, parser, searcher, strings
<1>1. UNCHANGED <<items, rest, state, data>> /\ \A k : Passed(k)' = Passed(k)
  BY DEF Passed
<1>2. CASE AtStart
  BY <1>1, <1>2, SamePlaces DEF AtStart, AtAPlace
<1>3. ASSUME NEW k \in 0 .. Len(items), BetweenItems(k) PROVE AtAPlace'
  BY <1>1, <1>3, SamePlaces DEF BetweenItems, AtAPlace
<1>4. ASSUME NEW k \in 1 .. Len(items), Passed(k - 1), NEW j \in 0 .. Len(items[k]), BetweenRuns(k, j)
      PROVE  AtAPlace'
  BY <1>1, <1>4, SamePlaces DEF BetweenRuns, AtAPlace
<1>5. ASSUME NEW k \in 1 .. Len(items), Passed(k - 1), InRun(k) PROVE AtAPlace'
  <2>1. InRun(k)'
    BY <1>1, <1>5, SamePlaces DEF InRun, BeforeText, AfterText, InText
  <2> QED
    BY <1>1, <1>5, <2>1 DEF AtAPlace
<1> QED
  BY <1>2, <1>3, <1>4, <1>5 DEF AtAPlace

LEMMA TypeStep == StringsInv /\ [Next]_vars => TypeOK'
<1> SUFFICES ASSUME StringsInv, [Next]_vars PROVE TypeOK'
  OBVIOUS
<1> USE DEF StringsInv, TypeOK
<1>1. CASE UNCHANGED vars
  BY <1>1 DEF vars, document, parser, strings
<1>2. CASE ~Parsing /\ (ResolveColumnNames \/ AtThrows)
  <2>1. UNCHANGED <<items, has_entry, header, index, arena>>
    BY <1>2 DEF ResolveColumnNames, AtThrows, document, strings
  <2>2. CASE ResolveColumnNames
    <3>1. phase' \in {"load", "done"} /\ (~has_entry => phase' = "done")
      BY <2>2 DEF ResolveColumnNames
    <3>2. text_handler' = FALSE /\ state' = "START"
      BY <2>2 DEF ResolveColumnNames, NewParser
    <3> QED
      BY <2>1, <3>1, <3>2
  <2>3. CASE AtThrows
    <3>1. phase' = "failed" /\ UNCHANGED <<text_handler, state>>
      BY <2>3 DEF AtThrows, parser
    <3> QED
      BY <2>1, <3>1
  <2> QED
    BY <1>2, <2>2, <2>3
<1>3. CASE Parsing /\ Next /\ UNCHANGED <<document, names>>
  <2>1. UNCHANGED <<items, has_entry, header>>
    BY <1>3 DEF document
  <2>2. phase' \in {"search", "resolve", "load", "done", "failed"} /\ has_entry
    BY <1>3 DEF Next, Parsing, OnStartElement, OnText, EndText, EndItem, EndTable, EndPhonetic,
                EndIgnored, ResolveColumnNames, AtThrows, Terminated, OnString, Finished
  <2>3. (text_handler = (state = "T"))'
    <3>1. CASE OnStartElement
      BY <3>1 DEF OnStartElement, AfterStart
    <3>2. CASE OnText \/ EndText \/ EndItem \/ EndTable \/ EndPhonetic \/ EndIgnored
      BY <3>2 DEF OnText, EndText, EndItem, EndTable, EndPhonetic, EndIgnored
    <3> QED
      BY <1>3, <3>1, <3>2 DEF Next, Parsing, ResolveColumnNames, AtThrows, Terminated
  <2>4. index' \in Seq(Refs) /\ arena' \in Seq(Seq(Chars))
    <3>1. CASE UNCHANGED strings
      BY <3>1 DEF strings
    <3>2. ASSUME NEW k \in 1 .. Len(items), Handed(k), ~UNCHANGED strings
          PROVE  index' \in Seq(Refs) /\ arena' \in Seq(Seq(Chars))
      <4>1. PICK str \in Seq(Chars) : str = StringOf(items[k]) /\ Add(str)
        BY <3>2, StringsAreText DEF Handed, OnString
      <4>2. CASE AddFound(str)
        <5>1. table[str].key \in Refs
          BY <4>2 DEF AddFound, Stored, Lasting
        <5> QED
          BY <4>2, <5>1, AppendProperties DEF AddFound
      <4>3. CASE AddNew(str)
        <5>1. Len(arena) + 1 \in Nat \ {0}
          BY LenProperties
        <5>2. InPlace(str) \in Refs /\ InArena(Len(arena) + 1) \in Refs
          BY <5>1 DEF InPlace, InArena, Refs
        <5>3. index' \in Seq(Refs)
          BY <4>3, <5>2, AppendProperties DEF AddNew
        <5>4. arena' \in Seq(Seq(Chars))
          BY <4>3, AppendProperties DEF AddNew
        <5> QED
          BY <5>3, <5>4
      <4> QED
        BY <4>1, <4>2, <4>3 DEF Add
    <3> QED
      BY <1>3, <3>1, <3>2, PlaceStep
  <2> QED
    BY <2>1, <2>2, <2>3, <2>4
<1> QED
  BY <1>1, <1>2, <1>3, Moves

LEMMA AtPlaceStep == StringsInv /\ [Next]_vars /\ Parsing' => AtAPlace'
<1> SUFFICES ASSUME StringsInv, [Next]_vars, Parsing' PROVE AtAPlace'
  OBVIOUS
<1> USE DEF StringsInv
<1>1. CASE UNCHANGED vars
  BY <1>1, StillAtPlace DEF vars, Parsing
<1>2. CASE ~Parsing /\ (ResolveColumnNames \/ AtThrows)
  <2>1. ResolveColumnNames /\ phase' = "load"
    BY <1>2 DEF ResolveColumnNames, AtThrows, Parsing
  <2>2. UNCHANGED <<items, index>> /\ NewParser /\ index = << >>
    BY <2>1 DEF ResolveColumnNames, document, strings, Stored
  <2>3. Passed(0)' /\ Tokens' = Tokens
    BY <2>1, <2>2, SamePlaces, EmptySeq DEF Passed
  <2> QED
    BY <2>2, <2>3 DEF NewParser, AtStart, AtAPlace
<1>3. CASE Parsing /\ Next /\ UNCHANGED <<document, names>>
  <2>1. ~(Finished /\ Parsing)
    BY DEF Finished, Parsing
  <2>2. ASSUME NEW k \in 1 .. Len(items), Handed(k) PROVE AtAPlace'
    <3>1. Passed(k)'
      <4>1. k \in Int /\ (k - 1) + 1 = k
        OBVIOUS
      <4>2. CASE phase = "search"
        <5>1. Find(StringOf(items[k])) /\ phase' = phase
          BY <2>2, <4>2 DEF Handed, OnString, Finished, Parsing
        <5> QED
          BY <2>2, <4>1, <4>2, <5>1 DEF Handed, Find, Passed
      <4>3. CASE phase = "load"
        <5>1. Add(StringOf(items[k])) /\ phase' = phase
          BY <2>2, <4>3 DEF Handed, OnString
        <5>2. Len(index') = Len(index) + 1
          <6>1. \A ref : Len(Append(index, ref)) = Len(index) + 1
            BY DEF TypeOK
          <6> QED
            BY <5>1, <6>1 DEF Add, AddFound, AddNew
        <5> QED
          BY <2>2, <4>1, <4>3, <5>1, <5>2 DEF Handed, Passed
      <4> QED
        BY <1>3, <4>2, <4>3 DEF Parsing
    <3>2. BetweenItems(k)'
      BY <2>2, <3>1, SamePlaces DEF Handed, BetweenItems
    <3>3. k \in 0 .. Len(items')
      BY <2>2, ItemsAre DEF Handed
    <3> QED
      BY <3>2, <3>3 DEF AtAPlace
  <2> QED
    BY <1>3, <2>1, <2>2, PlaceStep
<1> QED
  BY <1>1, <1>2, <1>3, Moves

(* What a step does to the strings: nothing, or it hands over the string of  *)
(* the next item, ends the reading, or resolves the names.                   *)
Finds(k) ==
    /\ phase = "search" /\ current_str = k - 1 /\ Find(StringOf(items[k]))
    /\ UNCHANGED <<phase, strings, document, names>>
Adds(k) ==
    /\ phase = "load" /\ Len(index) = k - 1 /\ Add(StringOf(items[k]))
    /\ UNCHANGED <<phase, searcher, document, names>>
Stops ==
    /\ Parsing /\ Finished /\ UNCHANGED <<searcher, strings, document, names>>
    /\ Passed(Len(items)) \/ (phase = "search" /\ NothingToFind)
LEMMA StepKinds ==
    ASSUME StringsInv, [Next]_vars
    PROVE  \/ UNCHANGED <<phase, searcher, strings, document, names>>
           \/ \E k \in 1 .. Len(items) : Finds(k) \/ Adds(k)
           \/ Stops
           \/ phase = "resolve" /\ (ResolveColumnNames \/ AtThrows)
<1> USE DEF StringsInv
<1>1. CASE UNCHANGED vars
  BY <1>1 DEF vars
<1>2. CASE ~Parsing /\ (ResolveColumnNames \/ AtThrows)
  BY <1>2 DEF ResolveColumnNames, AtThrows
<1>3. CASE Parsing /\ Next /\ UNCHANGED <<document, names>>
  <2>1. CASE AtAPlace' /\ UNCHANGED <<phase, searcher, strings>>
    BY <1>3, <2>1
  <2>2. CASE Finished /\ UNCHANGED <<searcher, strings>> /\ Passed(Len(items))
    BY <1>3, <2>2 DEF Stops
  <2>3. ASSUME NEW k \in 1 .. Len(items), Handed(k) PROVE Finds(k) \/ Adds(k) \/ Stops
    <3>1. CASE phase = "search"
      BY <1>3, <2>3, <3>1 DEF Handed, OnString, Passed, Finds, Stops
    <3>2. CASE phase = "load"
      BY <1>3, <2>3, <3>2 DEF Handed, OnString, Passed, Adds
    <3> QED
      BY <1>3, <3>1, <3>2 DEF Parsing
  <2> QED
    BY <1>3, <2>1, <2>2, <2>3, PlaceStep
<1> QED
  BY <1>1, <1>2, <1>3, Moves

(* A wanted string is remembered under the id that is next in the order.     *)
LEMMA FindStep ==
    ASSUME StringsInv, NEW k \in 1 .. Len(items), Finds(k)
    PROVE  Searched' /\ SearchStops'
<1> USE DEF StringsInv
<1>1. PICK N \in Nat : N = Len(ids)
  BY IdsFacts DEF Searched, TypeOK
<1>2. /\ \A i \in 1 .. N : ids[i] \in Nat /\ \E j \in DOMAIN header : ids[i] = header[j]
      /\ \A j, i \in 1 .. N : j < i => ids[j] < ids[i]
      /\ DOMAIN ids = 1 .. N
  BY <1>1, IdsFacts DEF Searched, TypeOK
<1>3. PICK c \in Nat, m \in Nat : c = current_str /\ m = current_idx /\ k = c + 1 /\ m < N
  BY <1>1, ItemsAre DEF Finds, Find, NothingToFind, Searched
<1>4. PICK w \in Nat : w = ids[m + 1] /\ m + 1 \in 1 .. N /\ w >= c
  <2>1. m + 1 \in 1 .. N /\ ~(m + 1 <= m)
    BY <1>1, <1>3
  <2>2. ids[m + 1] \in Nat /\ ~(ids[m + 1] < c)
    BY <1>2, <1>3, <2>1 DEF Searched
  <2> QED
    BY <2>1, <2>2
<1>5. PICK S : S = StringOf(items[c + 1])
  OBVIOUS
<1>6. /\ ids' = ids /\ items' = items /\ header' = header /\ phase' = "search"
      /\ current_str' = c + 1
      /\ current_idx' = IF w = c THEN m + 1 ELSE m
      /\ result' = IF w = c THEN [id \in DOMAIN result \cup {c} |-> IF id = c THEN S ELSE result[id]]
                   ELSE result
  BY <1>3, <1>4, <1>5 DEF Finds, Find, IsWanted, document
<1>7. PICK n \in Nat : n = Len(items) /\ c + 1 \in 1 .. n
  BY <1>3, ItemsAre
<1>8. \A i \in 1 .. N : i <= m <=> ids[i] < c
  BY <1>2, <1>3 DEF Searched
<1>9. \A i \in 1 .. N : i <= current_idx' <=> ids[i] < c + 1
  <2> SUFFICES ASSUME NEW i \in 1 .. N PROVE i <= current_idx' <=> ids[i] < c + 1
    OBVIOUS
  <2>1. PICK d \in Nat : d = ids[i]
    BY <1>2
  <2>2. CASE i <= m
    <3>1. d < c /\ i <= current_idx'
      BY <1>6, <1>8, <2>1, <2>2
    <3> QED
      BY <2>1, <3>1
  <2>3. CASE i = m + 1
    BY <1>4, <1>6, <2>1, <2>3
  <2>4. CASE i > m + 1
    <3>1. w < d
      BY <1>2, <1>4, <2>1, <2>4
    <3>2. ~(i <= current_idx')
      BY <1>6, <2>4
    <3> QED
      BY <1>4, <2>1, <3>1, <3>2
  <2> QED
    BY <2>2, <2>3, <2>4
<1>10. DOMAIN result = {ids[i] : i \in 1 .. m} /\ \A i \in 1 .. m : result[ids[i]] = StringOf(items[ids[i] + 1])
  BY <1>3 DEF Searched
<1>11. /\ DOMAIN result' = {ids[i] : i \in 1 .. current_idx'}
       /\ \A i \in 1 .. current_idx' : result'[ids[i]] = StringOf(items[ids[i] + 1])
  <2>1. CASE w = c
    <3>1. current_idx' = m + 1 /\ 1 .. m + 1 = 1 .. m \cup {m + 1}
      BY <1>6, <2>1
    <3>2. /\ DOMAIN result' = DOMAIN result \cup {c}
          /\ \A id \in DOMAIN result' : result'[id] = IF id = c THEN S ELSE result[id]
      BY <1>6, <2>1
    <3>3. DOMAIN result' = {ids[i] : i \in 1 .. m + 1}
      <4>1. {ids[i] : i \in 1 .. m + 1} = {ids[i] : i \in 1 .. m} \cup {ids[m + 1]}
        BY <3>1
      <4> QED
        BY <1>4, <1>10, <2>1, <3>2, <4>1
    <3>4. ASSUME NEW i \in 1 .. m + 1 PROVE result'[ids[i]] = StringOf(items[ids[i] + 1])
      <4>1. CASE i = m + 1
        BY <1>4, <1>5, <2>1, <3>2, <4>1
      <4>2. CASE i # m + 1
        <5>1. i \in 1 .. m /\ i \in 1 .. N
          BY <1>3, <4>2
        <5>2. ids[i] # c
          BY <1>2, <1>8, <5>1
        <5>3. ids[i] \in DOMAIN result
          BY <1>10, <5>1
        <5> QED
          BY <1>10, <3>2, <5>1, <5>2, <5>3
      <4> QED
        BY <4>1, <4>2
    <3> QED
      BY <3>1, <3>3, <3>4
  <2>2. CASE w # c
    BY <1>6, <1>10, <2>2
  <2> QED
    BY <2>1, <2>2
<1>12. current_idx' \in 0 .. N /\ current_str' \in 0 .. n
  BY <1>3, <1>6, <1>7
<1>13. Searched'
  <2>1. (ids = Ascending(Range(header)))'
    BY <1>6 DEF Searched
  <2>2. \A i \in DOMAIN ids' : i <= current_idx' <=> ids'[i] < current_str'
    BY <1>2, <1>6, <1>9
  <2> QED
    <3>1. (DOMAIN result = {ids[i] : i \in 1 .. current_idx})'
      BY <1>6, <1>11
    <3>2. (\A i \in 1 .. current_idx : result[ids[i]] = StringOf(items[ids[i] + 1]))'
      BY <1>6, <1>11
    <3>3. (current_idx \in 0 .. Len(ids) /\ current_str \in 0 .. Len(items))'
      BY <1>1, <1>6, <1>7, <1>12
    <3>4. phase' # "resolve"
      BY <1>6
    <3> QED
      BY <2>1, <2>2, <3>1, <3>2, <3>3, <3>4 DEF Searched
<1>14. SearchStops'
  <2>1. PICK j \in DOMAIN header : header[j] = w
    BY <1>2, <1>4
  <2> QED
    BY <1>4, <1>6, <2>1 DEF SearchStops
<1> QED
  BY <1>13, <1>14

LEMMA SearchedStep == StringsInv /\ [Next]_vars => Searched' /\ SearchStops'
<1> SUFFICES ASSUME StringsInv, [Next]_vars PROVE Searched' /\ SearchStops'
  OBVIOUS
<1> USE DEF StringsInv
<1>1. ASSUME UNCHANGED <<items, header, searcher>>,
             phase' = "resolve" => current_idx = Len(ids) \/ current_str = Len(items)
      PROVE  Searched' /\ SearchStops'
  BY <1>1 DEF Searched, SearchStops, searcher
<1>2. CASE UNCHANGED <<phase, searcher, strings, document, names>>
  BY <1>1, <1>2 DEF document, Searched
<1>3. ASSUME NEW k \in 1 .. Len(items), Finds(k) \/ Adds(k) PROVE Searched' /\ SearchStops'
  <2>1. CASE Finds(k)
    BY <2>1, FindStep
  <2>2. CASE Adds(k)
    BY <1>1, <2>2 DEF Adds, document
  <2> QED
    BY <1>3, <2>1, <2>2
<1>4. CASE Stops
  <2>1. phase' = "resolve" => phase = "search"
    BY <1>4 DEF Stops, Finished
  <2>2. Len(ids) \in Nat /\ (NothingToFind => current_idx = Len(ids))
    <3>1. Len(ids) \in Nat
      BY IdsFacts DEF Searched, TypeOK
    <3> QED
      BY <3>1 DEF Searched, NothingToFind
  <2> QED
    BY <1>1, <1>4, <2>1, <2>2 DEF Stops, Passed, document
<1>5. CASE phase = "resolve" /\ (ResolveColumnNames \/ AtThrows)
  <2>1. UNCHANGED <<items, header, searcher>> /\ phase' # "resolve"
    BY <1>5 DEF ResolveColumnNames, AtThrows, document
  <2> QED
    BY <1>1, <2>1
<1> QED
  BY <1>2, <1>3, <1>4, <1>5, StepKinds

(* A slot or key keeps its string: the arena only grows, and no slot points  *)
(* into the parser's buffer.                                                 *)
LEMMA StaysLasting ==
    ASSUME arena \in Seq(Seq(Chars)),
           arena' = arena \/ \E s \in Seq(Chars) : arena' = Append(arena, s),
           NEW ref, NEW str, Lasting(ref, str)
    PROVE  Lasting(ref, str)'
<1>1. PICK n \in Nat : n = Len(arena) /\ DOMAIN arena = 1 .. n
  BY LenProperties
<1>2. \A i \in 1 .. n : i \in DOMAIN arena' /\ arena'[i] = arena[i]
  <2>1. CASE arena' = arena
    BY <1>1, <2>1
  <2>2. ASSUME NEW s \in Seq(Chars), arena' = Append(arena, s)
        PROVE  \A i \in 1 .. n : i \in DOMAIN arena' /\ arena'[i] = arena[i]
    <3>1. /\ Append(arena, s) \in Seq(Seq(Chars)) /\ Len(Append(arena, s)) = n + 1
          /\ \A i \in 1 .. n : Append(arena, s)[i] = arena[i]
      BY <1>1, AppendProperties
    <3>2. DOMAIN Append(arena, s) = 1 .. n + 1
      BY <3>1, LenProperties
    <3> QED
      BY <2>2, <3>1, <3>2
  <2> QED
    BY <2>1, <2>2
<1>3. ref \in Refs /\ Pointee(ref) = str /\ (ref.at = "arena" => ref.slot \in DOMAIN arena)
  BY DEF Lasting
<1>4. CASE ref.at = "place"
  BY <1>3, <1>4 DEF Pointee, Lasting
<1>5. CASE ref.at = "arena"
  BY <1>1, <1>2, <1>3, <1>5 DEF Pointee, Lasting
<1>6. ref.at \in {"place", "arena"}
  BY <1>3 DEF Refs
<1> QED
  BY <1>4, <1>5, <1>6

(* Add gives the new string a slot that holds it.                            *)
LEMMA AddStep ==
    ASSUME StringsInv, NEW k \in 1 .. Len(items), Adds(k)
    PROVE  Stored'
<1> USE DEF StringsInv
<1>1. PICK str \in Seq(Chars) : str = StringOf(items[k]) /\ Add(str)
  BY StringsAreText DEF Adds
<1>2. PICK n \in Nat : n = Len(index) /\ k = n + 1 /\ DOMAIN index = 1 .. n
  <2>1. Len(index) \in Nat /\ DOMAIN index = 1 .. Len(index) /\ k \in Int
    BY LenProperties DEF TypeOK
  <2> QED
    BY <2>1 DEF Adds
<1>3. phase' = "load" /\ items' = items
  BY DEF Adds, document
<1>4. PICK ref : /\ index' = Append(index, ref) /\ Lasting(ref, str)'
                 /\ arena' = arena \/ arena' = Append(arena, str)
                 /\ DOMAIN table' = DOMAIN table \cup {str}
                 /\ table'[str].key = ref
                 /\ \A s \in DOMAIN table : s # str => table'[s] = table[s]
  <2>1. CASE AddFound(str)
    <3>1. PICK ref : ref = table[str].key /\ Lasting(ref, str) /\ str \in DOMAIN table
      BY <2>1 DEF AddFound, Stored
    <3>2. UNCHANGED <<table, arena>> /\ index' = Append(index, ref)
      BY <2>1, <3>1 DEF AddFound
    <3>3. Lasting(ref, str)'
      BY <3>1, <3>2, StaysLasting DEF TypeOK
    <3> QED
      BY <3>1, <3>2, <3>3
  <2>2. CASE AddNew(str)
    <3>1. PICK m \in Nat : m = Len(arena)
      BY LenProperties DEF TypeOK
    <3>2. PICK ref : ref = IF IsInlined(str) THEN InPlace(str) ELSE InArena(m + 1)
      OBVIOUS
    <3>3. /\ arena' = IF IsInlined(str) THEN arena ELSE Append(arena, str)
          /\ table' = [s \in DOMAIN table \cup {str} |->
                          IF s = str THEN [key |-> ref, val |-> Len(index)] ELSE table[s]]
          /\ index' = Append(index, ref)
      BY <2>2, <3>1, <3>2 DEF AddNew
    <3>4. Lasting(ref, str)'
      <4>1. CASE IsInlined(str)
        BY <3>2, <4>1 DEF Lasting, Refs, InPlace, Pointee
      <4>2. CASE ~IsInlined(str)
        <5>1. Append(arena, str) \in Seq(Seq(Chars)) /\ Len(Append(arena, str)) = m + 1
              /\ Append(arena, str)[m + 1] = str
          BY <3>1, AppendProperties DEF TypeOK
        <5>2. m + 1 \in DOMAIN arena' /\ arena'[m + 1] = str /\ m + 1 \in Nat \ {0}
          BY <3>3, <4>2, <5>1, LenProperties
        <5>3. ref = InArena(m + 1)
          BY <3>2, <4>2
        <5> QED
          BY <5>2, <5>3 DEF Lasting, Refs, InArena, Pointee
      <4> QED
        BY <4>1, <4>2
    <3> QED
      BY <3>3, <3>4
  <2> QED
    BY <1>1, <2>1, <2>2 DEF Add
<1>5. \A r, s : Lasting(r, s) => Lasting(r, s)'
  BY <1>4, StaysLasting DEF TypeOK
<1>6. ASSUME NEW i \in DOMAIN index' PROVE Lasting(index[i], StringOf(items[i]))'
  <2>1. ref \in Refs
    BY <1>4 DEF Lasting
  <2>2. /\ Len(index') = n + 1 /\ index' \in Seq(Refs) /\ index'[n + 1] = ref
        /\ \A j \in 1 .. n : index'[j] = index[j]
    BY <1>2, <1>4, <2>1, AppendProperties DEF TypeOK
  <2>3. i \in 1 .. n + 1
    BY <2>2, LenProperties
  <2>4. CASE i = n + 1
    BY <1>1, <1>2, <1>3, <1>4, <2>2, <2>4
  <2>5. CASE i # n + 1
    <3>1. i \in 1 .. n /\ Lasting(index[i], StringOf(items[i]))
      BY <1>2, <2>3, <2>5 DEF Stored
    <3>2. PICK r, s : r = index[i] /\ s = StringOf(items[i]) /\ Lasting(r, s)'
      BY <1>5, <3>1
    <3>3. r = index'[i] /\ s = StringOf(items'[i])
      BY <1>3, <2>2, <3>1, <3>2
    <3> QED
      BY <3>2, <3>3
  <2> QED
    BY <2>4, <2>5
<1>7. ASSUME NEW s \in DOMAIN table' PROVE Lasting(table[s].key, s)'
  <2>1. CASE s = str
    BY <1>4, <2>1
  <2>2. CASE s # str
    <3>1. s \in DOMAIN table /\ table'[s] = table[s]
      BY <1>4, <2>2
    <3>2. PICK r : r = table[s].key /\ Lasting(r, s)'
      BY <1>5, <3>1 DEF Stored
    <3> QED
      BY <3>1, <3>2
  <2> QED
    BY <2>1, <2>2
<1> QED
  BY <1>3, <1>6, <1>7 DEF Stored

LEMMA StoredStep == StringsInv /\ [Next]_vars => Stored'
<1> SUFFICES ASSUME StringsInv, [Next]_vars PROVE Stored'
  OBVIOUS
<1> USE DEF StringsInv
<1>1. ASSUME UNCHANGED <<items, strings>>,
             phase' \notin {"load", "done"} => index = << >>,
             phase' = "done" => Len(index) = Len(items)
      PROVE  Stored'
  <2>1. UNCHANGED <<table, index, arena>>
    BY <1>1 DEF strings
  <2>2. \A ref, str : Lasting(ref, str) => Lasting(ref, str)'
    BY <2>1, StaysLasting DEF TypeOK
  <2>3. ASSUME NEW i \in DOMAIN index' PROVE Lasting(index[i], StringOf(items[i]))'
    <3>1. PICK r, s : r = index[i] /\ s = StringOf(items[i]) /\ Lasting(r, s)'
      BY <2>1, <2>2 DEF Stored
    <3>2. r = index'[i] /\ s = StringOf(items'[i])
      BY <1>1, <2>1, <3>1
    <3> QED
      BY <3>1, <3>2
  <2>4. ASSUME NEW s \in DOMAIN table' PROVE Lasting(table[s].key, s)'
    <3>1. PICK r : r = table[s].key /\ Lasting(r, s)'
      BY <2>1, <2>2 DEF Stored
    <3> QED
      BY <2>1, <3>1
  <2> QED
    BY <1>1, <2>1, <2>3, <2>4 DEF Stored
<1>2. CASE UNCHANGED <<phase, searcher, strings, document, names>>
  BY <1>1, <1>2 DEF document, Stored
<1>3. ASSUME NEW k \in 1 .. Len(items), Finds(k) \/ Adds(k) PROVE Stored'
  <2>1. CASE Finds(k)
    BY <1>1, <2>1 DEF Finds, document, Stored
  <2>2. CASE Adds(k)
    BY <2>2, AddStep
  <2> QED
    BY <1>3, <2>1, <2>2
<1>4. CASE Stops
  <2>1. CASE phase = "search"
    BY <1>1, <1>4, <2>1 DEF Stops, Finished, document, Stored
  <2>2. CASE phase = "load"
    BY <1>1, <1>4, <2>2 DEF Stops, Finished, Passed, document
  <2> QED
    BY <1>4, <2>1, <2>2 DEF Stops, Parsing
<1>5. CASE phase = "resolve" /\ (ResolveColumnNames \/ AtThrows)
  <2>1. UNCHANGED <<items, strings>> /\ index = << >> /\ phase' \in {"load", "done", "failed"}
    BY <1>5 DEF ResolveColumnNames, AtThrows, document, Stored
  <2>2. phase' = "done" => Len(index) = Len(items)
    <3> SUFFICES ASSUME phase' = "done" PROVE Len(index) = Len(items)
      OBVIOUS
    <3>1. ~has_entry
      BY <1>5 DEF ResolveColumnNames, AtThrows
    <3>2. items = << >>
      BY <3>1 DEF TypeOK
    <3> QED
      BY <2>1, <3>2
  <2> QED
    BY <1>1, <2>1, <2>2
<1> QED
  BY <1>2, <1>3, <1>4, <1>5, StepKinds

-----------------------------------------------------------------------------
(* When the search is over, an id the header names has its string, unless    *)
(* the document ended before it.                                             *)
LEMMA NamesStep == StringsInv /\ [Next]_vars => NamesResolve'
<1> SUFFICES ASSUME StringsInv, [Next]_vars PROVE NamesResolve'
  OBVIOUS
<1> USE DEF StringsInv
<1>0. header \in Seq(Nat) /\ Len(header) \in Nat /\ DOMAIN header = 1 .. Len(header)
  BY LenProperties DEF TypeOK
<1>1. ASSUME UNCHANGED <<items, header, names>>,
             phase' \in {"load", "done"} => phase \in {"load", "done"},
             phase' = "failed" => phase = "failed"
      PROVE  NamesResolve'
  BY <1>1 DEF NamesResolve
<1>2. CASE UNCHANGED <<phase, searcher, strings, document, names>>
  BY <1>1, <1>2 DEF document
<1>3. ASSUME NEW k \in 1 .. Len(items), Finds(k) \/ Adds(k) PROVE NamesResolve'
  BY <1>1, <1>3 DEF Finds, Adds, document
<1>4. CASE Stops
  <2>1. UNCHANGED <<items, header, names>>
    BY <1>4 DEF Stops, document
  <2>2. CASE phase = "search"
    BY <1>1, <1>4, <2>1, <2>2 DEF Stops, Finished
  <2>3. CASE phase = "load"
    BY <1>1, <1>4, <2>1, <2>3 DEF Stops, Finished
  <2> QED
    BY <1>4, <2>2, <2>3 DEF Stops, Parsing
<1>5. PICK N \in Nat : /\ N = Len(ids) /\ DOMAIN ids = 1 .. N
                       /\ \A i \in 1 .. N : ids[i] \in Nat
                       /\ \A j \in DOMAIN header : \E i \in 1 .. N : ids[i] = header[j]
  BY <1>0, IdsFacts DEF Searched
<1>6. CASE phase = "resolve" /\ ResolveColumnNames
  <2>1. UNCHANGED <<items, header>> /\ phase' \in {"load", "done"}
        /\ names' = [i \in DOMAIN header |-> result[header[i]]]
    BY <1>6 DEF ResolveColumnNames, document
  <2>2. ASSUME NEW i \in DOMAIN header PROVE names'[i] = StringOf(items[header[i] + 1])
    <3>1. header[i] \in DOMAIN result
      BY <1>6 DEF ResolveColumnNames, AllFound, Range
    <3>2. PICK l \in 1 .. current_idx : header[i] = ids[l]
      BY <3>1 DEF Searched
    <3>3. result[ids[l]] = StringOf(items[ids[l] + 1])
      BY DEF Searched
    <3> QED
      BY <2>1, <3>2, <3>3
  <2>3. Len(names') = Len(header)
    <3>1. DOMAIN names' = 1 .. Len(header)
      BY <1>0, <2>1
    <3>2. PICK f : f = names' /\ f = [i \in 1 .. Len(header) |-> result[header[i]]]
      BY <1>0, <2>1
    <3>3. Len(f) = Len(header)
      BY <1>0, <3>2
    <3> QED
      BY <3>2, <3>3
  <2> QED
    BY <2>1, <2>2, <2>3 DEF NamesResolve
<1>7. CASE phase = "resolve" /\ AtThrows
  <2>1. UNCHANGED <<items, header>> /\ phase' = "failed" /\ ~AllFound
    BY <1>7 DEF AtThrows, document
  <2>2. PICK j \in DOMAIN header : header[j] \notin DOMAIN result
    BY <2>1 DEF AllFound, Range
  <2>3. PICK l \in 1 .. N : ids[l] = header[j]
    BY <1>5
  <2>4. PICK m \in Nat, c \in Nat : m = current_idx /\ c = current_str
    <3>1. Len(ids) \in Nat /\ Len(items) \in Nat
      BY <1>5, ItemsAre
    <3>2. current_idx \in 0 .. Len(ids) /\ current_str \in 0 .. Len(items)
      BY DEF Searched
    <3> QED
      BY <3>1, <3>2
  <2>5. l \notin 1 .. m
    BY <2>2, <2>3, <2>4 DEF Searched
  <2>6. ~(l <= m) /\ m # N
    BY <1>5, <2>3, <2>5
  <2>7. c = Len(items) /\ ~(ids[l] < c) /\ ids[l] \in Nat
    BY <1>5, <1>7, <2>4, <2>6 DEF Searched
  <2>8. header[j] >= Len(items)
    BY <2>3, <2>4, <2>7
  <2> QED
    BY <2>1, <2>8 DEF NamesResolve
<1> QED
  BY <1>2, <1>3, <1>4, <1>6, <1>7, StepKinds

-----------------------------------------------------------------------------
LEMMA StringsStep == StringsInv /\ [Next]_vars => StringsInv'
BY TypeStep, AtPlaceStep, SearchedStep, StoredStep, NamesStep DEF StringsInv

(* The parser is always at a place of the document, the search has found     *)
(* exactly what is behind it, and every slot holds the string of its item.   *)
THEOREM StringsAreInvariant == Spec => []StringsInv
BY StringsInit, StringsStep, PTL DEF Spec

(* Each header cell gets the string with its id, and Bind fails only when    *)
(* an id is not in the document (ResolveColumnNames and its searcher).       *)
THEOREM NamesAlwaysResolve == Spec => []NamesResolve
BY StringsAreInvariant, PTL DEF StringsInv

(* The search never looks behind the last string it wants (the early stop of *)
(* SharedStringSearcher::OnString).                                          *)
THEOREM SearchAlwaysStops == Spec => []SearchStops
BY StringsAreInvariant, PTL DEF StringsInv

(* At every moment of the load, position i of the table holds the i-th       *)
(* string of the document (SharedStringParser::OnString, StringTable::Add).  *)
THEOREM TableAlwaysFollowsDocument == Spec => []TableFollowsDocument
<1>1. StringsInv => TableFollowsDocument
  <2> SUFFICES ASSUME StringsInv PROVE TableFollowsDocument
    OBVIOUS
  <2>1. ASSUME NEW i \in DOMAIN index
        PROVE  /\ index[i].at = "arena" => index[i].slot \in DOMAIN arena
               /\ Get(i - 1) = StringOf(items[i])
    <3>1. Lasting(index[i], StringOf(items[i]))
      BY DEF StringsInv, Stored
    <3>2. i \in Int
      BY LenProperties DEF StringsInv, TypeOK
    <3>3. (i - 1) + 1 = i
      BY <3>2
    <3> QED
      BY <3>1, <3>3 DEF Lasting, Get
  <2> QED
    BY <2>1 DEF StringsInv, TypeOK, Stored, TableFollowsDocument
<1> QED
  BY <1>1, StringsAreInvariant, PTL

=============================================================================
