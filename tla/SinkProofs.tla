----------------------------- MODULE SinkProofs -----------------------------
(***************************************************************************)
(* What SinkProperties states, for any statement, query, chunks and        *)
(* workbook that SinkAssumption and its companions describe.               *)
(***************************************************************************)
EXTENDS SinkProperties, OperatorProofs, SequenceTheorems

-----------------------------------------------------------------------------
(* Rows of a list of chunks, and the column of a name, are folds.  Each of   *)
(* them exists because its recursion does (FoldExists).                      *)

LEMMA MaxFacts ==
    /\ \A n \in Nat : \A T \in SUBSET (1 .. n) : T # {} => Max(T) \in T
    /\ \A k \in Nat \ {0} : Max(1 .. k) = k
<1>1. ASSUME NEW n \in Nat, NEW T \in SUBSET (1 .. n), T # {} PROVE Max(T) \in T
  <2>0. IsFiniteSet(1 .. n) /\ T \in SUBSET Int
    BY FS_Interval
  <2>1. IsFiniteSet(T) /\ T \in SUBSET Int
    BY <2>0, FS_Subset
  <2>2. \E x \in T : \A y \in T : y <= x
    BY <1>1, <2>1, GreatestExists
  <2>3. \E x \in T : \A y \in T : x >= y
    BY <2>1, <2>2
  <2> QED
    BY <2>3 DEF Max
<1>2. ASSUME NEW k \in Nat \ {0} PROVE Max(1 .. k) = k
  <2>1. k \in 1 .. k /\ \A y \in 1 .. k : k >= y
    OBVIOUS
  <2>2. Max(1 .. k) \in 1 .. k /\ \A y \in 1 .. k : Max(1 .. k) >= y
    BY <2>1 DEF Max
  <2>3. Max(1 .. k) >= k /\ Max(1 .. k) <= k /\ Max(1 .. k) \in Int
    BY <2>1, <2>2
  <2> QED
    BY <2>3
<1> QED
  BY <1>1, <1>2

(* The fold, one chunk after the other.                                      *)
LEMMA RowsOfSteps ==
    ASSUME NEW C, \A c \in C : Rows(c) \in Nat, NEW s \in Seq(C)
    PROVE  \E h \in [0 .. Len(s) -> Nat] :
              /\ h[0] = 0 /\ \A k \in 1 .. Len(s) : h[k] = h[k - 1] + Rows(s[k])
              /\ RowsOf(s) = h[Len(s)]
<1>1. PICK m \in Nat : m = Len(s) /\ DOMAIN s = 1 .. m /\ \A k \in 1 .. m : Rows(s[k]) \in Nat
  BY LenProperties, ElementOfSeq
<1> DEFINE body(f, t) == IF t = {} THEN 0 ELSE f[t \ {Max(t)}] + Rows(s[Max(t)])
           iter == CHOOSE f : f = [t \in SUBSET DOMAIN s |-> body(f, t)]
<1>2. RowsOf(s) = iter[DOMAIN s]
  BY DEF RowsOf, FoldLeft, MapThenFoldSet
<1> DEFINE choose == [t \in SUBSET (1 .. m) |-> Max(t)]
           step == [x \in 1 .. m |-> [v \in Nat |-> v + Rows(s[x])]]
<1>3. PICK f \in [SUBSET (1 .. m) -> Nat] :
         /\ f[{}] = 0
         /\ \A t \in SUBSET (1 .. m) : t # {} => f[t] = step[choose[t]][f[t \ {choose[t]}]]
  <2>1. IsFiniteSet(1 .. m)
    BY FS_Interval
  <2>2. \A t \in SUBSET (1 .. m) : t # {} => choose[t] \in t
    BY MaxFacts
  <2>3. step \in [1 .. m -> [Nat -> Nat]]
    BY <1>1
  <2> HIDE DEF step, choose
  <2>4. IsFold(1 .. m, Nat, 0, choose, step)
    BY <2>1, <2>2, <2>3, FoldExists
  <2> QED
    BY <2>4 DEF IsFold
<1>4. ASSUME NEW t \in SUBSET (1 .. m) PROVE f[t] = body(f, t)
  <2>1. CASE t = {}
    BY <1>3, <2>1
  <2>2. CASE t # {}
    <3>1. Max(t) \in 1 .. m /\ choose[t] = Max(t) /\ t \ {Max(t)} \in SUBSET (1 .. m)
      BY <2>2, MaxFacts
    <3>2. f[t \ {Max(t)}] \in Nat
      BY <3>1
    <3> QED
      BY <1>3, <2>2, <3>1, <3>2
  <2> QED
    BY <2>1, <2>2
<1> HIDE DEF body, step, choose
<1>5. f = [t \in SUBSET DOMAIN s |-> body(f, t)]
  BY <1>1, <1>4
<1>6. iter = [t \in SUBSET DOMAIN s |-> body(iter, t)]
  BY <1>5, Zenon
<1> HIDE DEF iter
<1> DEFINE h == [k \in 0 .. m |-> iter[1 .. k]]
<1>7. h[0] = 0
  <2>1. 1 .. 0 = {} /\ {} \in SUBSET (1 .. m)
    OBVIOUS
  <2> QED
    BY <1>1, <1>6, <2>1 DEF body
<1>8. ASSUME NEW k \in 1 .. m PROVE h[k] = h[k - 1] + Rows(s[k])
  <2>8. k \in 1 .. k /\ k - 1 \in 0 .. m /\ k \in 0 .. m
    OBVIOUS
  <2>9. \A x \in 1 .. k : x \in 1 .. m
    OBVIOUS
  <2>0. 1 .. k \in SUBSET (1 .. m) /\ 1 .. k # {} /\ k - 1 \in 0 .. m /\ k \in 0 .. m
    BY <2>8, <2>9
  <2>1. (1 .. k) \ {k} = 1 .. k - 1
    OBVIOUS
  <2>2. iter[1 .. k] = body(iter, 1 .. k)
    BY <1>1, <1>6, <2>0
  <2>3. Max(1 .. k) = k
    BY MaxFacts
  <2>4. iter[1 .. k] = iter[1 .. k - 1] + Rows(s[k])
    BY <2>0, <2>1, <2>2, <2>3 DEF body
  <2> QED
    BY <2>0, <2>4
<1> DEFINE G == {k \in Nat : k <= m => h[k] \in Nat}
<1>9. \A k \in 0 .. m : h[k] \in Nat
  <2> HIDE DEF h
  <2>1. 0 \in G
    BY <1>7
  <2>2. ASSUME NEW k \in Nat, k \in G PROVE k + 1 \in G
    <3> SUFFICES ASSUME k + 1 <= m PROVE h[k + 1] \in Nat
      OBVIOUS
    <3>1. k + 1 \in 1 .. m /\ (k + 1) - 1 = k
      OBVIOUS
    <3>2. h[k + 1] = h[k] + Rows(s[k + 1])
      BY <1>8, <3>1
    <3> QED
      BY <1>1, <2>2, <3>1, <3>2
  <2>3. Nat \subseteq G
    <3> HIDE DEF G
    <3> QED
      BY <2>1, <2>2, NaturalInduction
  <2> QED
    BY <2>3
<1>10. h \in [0 .. m -> Nat] /\ h[m] = iter[DOMAIN s]
  BY <1>1, <1>9
<1> HIDE DEF h
<1> QED
  BY <1>1, <1>2, <1>7, <1>8, <1>10

(* No chunk has no rows, and a further chunk adds its own.                   *)
LEMMA RowsOfFacts ==
    ASSUME NEW C, \A c \in C : Rows(c) \in Nat
    PROVE  /\ RowsOf(<< >>) = 0
           /\ \A s \in Seq(C) : RowsOf(s) \in Nat
           /\ \A s \in Seq(C), c \in C : RowsOf(Append(s, c)) = RowsOf(s) + Rows(c)
<1>1. RowsOf(<< >>) = 0
  <2>1. << >> \in Seq(C) /\ Len(<< >>) = 0
    BY EmptySeq
  <2> QED
    BY <2>1, RowsOfSteps
<1>2. \A s \in Seq(C) : RowsOf(s) \in Nat
  <2> SUFFICES ASSUME NEW s \in Seq(C) PROVE RowsOf(s) \in Nat
    OBVIOUS
  <2>1. PICK h \in [0 .. Len(s) -> Nat] : RowsOf(s) = h[Len(s)]
    BY RowsOfSteps
  <2> QED
    BY <2>1, LenProperties
<1>3. ASSUME NEW s \in Seq(C), NEW c \in C
      PROVE  RowsOf(Append(s, c)) = RowsOf(s) + Rows(c)
  <2> DEFINE t == Append(s, c)
  <2>1. PICK m \in Nat : m = Len(s)
    BY LenProperties
  <2>2. t \in Seq(C) /\ Len(t) = m + 1 /\ t[m + 1] = c /\ \A k \in 1 .. m : t[k] = s[k]
    BY <2>1, AppendProperties
  <2> HIDE DEF t
  <2>3. PICK h \in [0 .. m -> Nat] : /\ h[0] = 0 /\ \A k \in 1 .. m : h[k] = h[k - 1] + Rows(s[k])
                                     /\ RowsOf(s) = h[m]
    BY <2>1, RowsOfSteps
  <2>4. PICK g \in [0 .. m + 1 -> Nat] :
              /\ g[0] = 0 /\ \A k \in 1 .. m + 1 : g[k] = g[k - 1] + Rows(t[k])
              /\ RowsOf(t) = g[m + 1]
    BY <2>2, RowsOfSteps
  <2> DEFINE G == {k \in Nat : k <= m => g[k] = h[k]}
  <2>5. 0 \in G
    BY <2>3, <2>4
  <2>6. ASSUME NEW k \in Nat, k \in G PROVE k + 1 \in G
    <3> SUFFICES ASSUME k + 1 <= m PROVE g[k + 1] = h[k + 1]
      OBVIOUS
    <3>1. k + 1 \in 1 .. m /\ k + 1 \in 1 .. m + 1 /\ (k + 1) - 1 = k
      OBVIOUS
    <3>2. g[k + 1] = g[k] + Rows(t[k + 1]) /\ h[k + 1] = h[k] + Rows(s[k + 1])
      BY <2>3, <2>4, <3>1
    <3> QED
      BY <2>2, <2>6, <3>1, <3>2
  <2>7. m \in G
    <3> HIDE DEF G
    <3> QED
      BY <2>5, <2>6, NaturalInduction
  <2>8. g[m + 1] = g[m] + Rows(c)
    <3>1. m + 1 \in 1 .. m + 1 /\ (m + 1) - 1 = m
      OBVIOUS
    <3> QED
      BY <2>2, <2>4, <3>1
  <2> QED
    BY <2>3, <2>4, <2>7, <2>8 DEF t
<1> QED
  BY <1>1, <1>2, <1>3

-----------------------------------------------------------------------------
(* A chunk has at most VectorSize rows.                                      *)
LEMMA ChunkFacts ==
    ASSUME NEW ts \in TypeLists
    PROVE  /\ 1 \in DOMAIN ts
           /\ \A chunk \in Chunks(ts) : Rows(chunk) \in Nat /\ Rows(chunk) <= VectorSize
<1>1. ts \in Seq(STRING) /\ ts # << >>
  BY ChunksAssumption
<1>2. 1 \in DOMAIN ts
  BY <1>1
<1>3. ASSUME NEW chunk \in Chunks(ts) PROVE Rows(chunk) \in Nat /\ Rows(chunk) <= VectorSize
  <2>1. IsVector(ts[1], chunk[1], Rows(chunk)) /\ Rows(chunk) <= VectorSize
    BY <1>2, ChunksAssumption
  <2>2. chunk[1].sel \in Seq(DOMAIN chunk[1].data)
    BY <2>1 DEF IsVector
  <2>3. Len(chunk[1].sel) \in Nat
    BY <2>2, LenProperties
  <2> QED
    BY <2>1, <2>3 DEF Rows
<1> QED
  BY <1>2, <1>3

(* Chunks never have more rows than the limit of a statement that has none.  *)
LEMMA RowsAreBounded ==
    ASSUME NEW ts \in TypeLists, NEW s \in Seq(Chunks(ts)), Len(s) <= MaxChunks
    PROVE  RowsOf(s) \in Nat /\ RowsOf(s) <= MaxChunks * VectorSize
<1> DEFINE C == Chunks(ts)
<1>1. \A c \in C : Rows(c) \in Nat /\ Rows(c) <= VectorSize
  BY ChunkFacts
<1> HIDE DEF C
<1>2. PICK m \in Nat : m = Len(s) /\ \A k \in 1 .. m : s[k] \in C
  BY LenProperties, ElementOfSeq DEF C
<1>3. PICK h \in [0 .. m -> Nat] :
         h[0] = 0 /\ (\A k \in 1 .. m : h[k] = h[k - 1] + Rows(s[k])) /\ RowsOf(s) = h[m]
  <2>1. s \in Seq(C)
    BY DEF C
  <2> QED
    BY <1>1, <1>2, <2>1, RowsOfSteps
<1>4. VectorSize \in Nat /\ MaxChunks \in Nat
  BY SinkAssumption
<1> DEFINE G == {k \in Nat : k <= m => h[k] <= k * VectorSize}
<1>5. 0 \in G
  BY <1>3, <1>4
<1>6. ASSUME NEW k \in Nat, k \in G PROVE k + 1 \in G
  <2> SUFFICES ASSUME k + 1 <= m PROVE h[k + 1] <= (k + 1) * VectorSize
    OBVIOUS
  <2>1. k + 1 \in 1 .. m /\ (k + 1) - 1 = k /\ k \in 0 .. m
    OBVIOUS
  <2>2. h[k + 1] = h[k] + Rows(s[k + 1]) /\ h[k] \in Nat /\ h[k] <= k * VectorSize
    BY <1>3, <1>6, <2>1
  <2>3. Rows(s[k + 1]) \in Nat /\ Rows(s[k + 1]) <= VectorSize
    BY <1>1, <1>2, <2>1
  <2>4. (k + 1) * VectorSize = k * VectorSize + VectorSize /\ k * VectorSize \in Nat
    BY <1>4
  <2> QED
    BY <1>4, <2>2, <2>3, <2>4
<1>7. m \in G
  <2> HIDE DEF G
  <2> QED
    BY <1>5, <1>6, NaturalInduction
<1>8. m * VectorSize <= MaxChunks * VectorSize
  <2>1. m <= MaxChunks
    BY <1>2
  <2> QED
    BY <1>4, <2>1
<1>9. h[m] \in Nat /\ h[m] <= m * VectorSize
  BY <1>7
<1>10. m * VectorSize \in Nat /\ MaxChunks * VectorSize \in Nat
  BY <1>4
<1> QED
  BY <1>3, <1>8, <1>9, <1>10

(* The rows that fit are the rows that do not exceed the option: a negative  *)
(* limit becomes one that nobody reaches.                                    *)
LEMMA LimitIsTheOption ==
    ASSUME options \in Options, ~Refused(options),
           NEW n \in Nat, n <= 1 + MaxChunks * VectorSize
    PROVE  Fits(n) <=> ~Exceeds(n)
<1>1. MaxCellRows \in Nat /\ VectorSize \in Nat /\ MaxChunks \in Nat
  BY SinkAssumption
<1>2. options.limit = Default \/ options.limit \in Int
  BY SinkAssumption DEF Refused
<1>3. CASE options.limit = Default
  BY <1>1, <1>3 DEF Fits, RowLimit, Exceeds
<1>4. CASE options.limit \in Int /\ options.limit # Default
  <2>1. PICK l \in Int : l = options.limit
    BY <1>4
  <2>2. PICK P \in Nat : P = 2 ^ IdxWidth
    BY WidthAssumption
  <2>3. l < P /\ (l < 0 => 1 + MaxChunks * VectorSize <= l + P)
    BY <2>1, <2>2, WidthAssumption
  <2>4. RowLimit(options) = l % P
    BY <1>4, <2>1, <2>2 DEF RowLimit
  <2>5. CASE l >= 0
    <3>1. l % P = l
      BY <2>3, <2>5
    <3>2. Exceeds(n) <=> n > l
      BY <1>4, <2>1, <2>5 DEF Exceeds
    <3> QED
      BY <2>4, <3>1, <3>2 DEF Fits
  <2>6. CASE l < 0
    <3>0. MaxChunks * VectorSize \in Nat
      BY <1>1
    <3>1. -P <= l
      BY <2>3, <2>6, <3>0
    <3>2. l % P = l + P
      BY <2>3, <2>6, <3>1
    <3>3. ~Exceeds(n)
      BY <1>4, <2>1, <2>6 DEF Exceeds
    <3>4. n <= l + P
      BY <2>3, <2>6, <3>0
    <3> QED
      BY <2>4, <3>2, <3>3, <3>4 DEF Fits
  <2> QED
    BY <2>5, <2>6
<1> QED
  BY <1>2, <1>3, <1>4

LEMMA ExceedsGrows ==
    ASSUME options \in Options, NEW m \in Nat, NEW n \in Nat, m <= n, Exceeds(m)
    PROVE  Exceeds(n)
BY SinkAssumption DEF Exceeds

-----------------------------------------------------------------------------
(* The parts of a file are known from the options and differ in their names. *)
LEMMA CopiedFacts ==
    ASSUME NEW o \in Options
    PROVE  /\ Copied(o) \in Seq(EntryNames)
           /\ \A j, k \in DOMAIN Copied(o) : j # k => Copied(o)[j] # Copied(o)[k]
           /\ \A k \in DOMAIN Copied(o) : /\ Copied(o)[k] \notin RewriteSet(o)
                                          /\ Copied(o)[k] \in Range(OldEntries)
           /\ \A i \in DOMAIN OldEntries :
                 OldEntries[i] \in RewriteSet(o) \/ \E k \in DOMAIN Copied(o) : Copied(o)[k] = OldEntries[i]
<1>1. PICK m \in Nat : m = Len(OldEntries) /\ DOMAIN OldEntries = 1 .. m
                       /\ \A i \in 1 .. m : OldEntries[i] \in STRING
  BY OldEntriesAssumption, LenProperties, ElementOfSeq
<1> DEFINE last(i) == \A j \in i + 1 .. m : OldEntries[j] # OldEntries[i]
           keep == {i \in 1 .. m : last(i) /\ OldEntries[i] \notin RewriteSet(o)}
           order == Ascending(keep)
           n == Cardinality(keep)
<1>2. keep \in SUBSET Int /\ IsFiniteSet(keep)
  <2>1. IsFiniteSet(1 .. m)
    BY FS_Interval
  <2> QED
    BY <2>1, FS_Subset
<1> HIDE DEF keep
<1>3. /\ n \in Nat /\ order \in Seq(keep) /\ DOMAIN order = 1 .. n
      /\ \A j, k \in 1 .. n : j < k => order[j] < order[k]
      /\ \A i \in keep : \E k \in 1 .. n : order[k] = i
  BY <1>2, AscendingFacts
<1>4. \A k \in 1 .. n : order[k] \in keep
  BY <1>3, ElementOfSeq
<1> HIDE DEF order, n
<1>5. Copied(o) = [k \in 1 .. n |-> OldEntries[order[k]]]
  <2>1. Copied(o) = [k \in DOMAIN order |-> OldEntries[order[k]]]
    BY <1>1 DEF Copied, order, keep
  <2> QED
    BY <1>3, <2>1
<1>6. \A i \in keep : /\ i \in 1 .. m /\ OldEntries[i] \notin RewriteSet(o)
                      /\ \A j \in 1 .. m : i < j => OldEntries[j] # OldEntries[i]
  BY DEF keep
<1>7. Copied(o) \in Seq(EntryNames)
  <2>1. \A k \in 1 .. n : order[k] \in DOMAIN OldEntries
    BY <1>1, <1>4, <1>6
  <2>2. \A k \in 1 .. n : OldEntries[order[k]] \in EntryNames
    BY <2>1 DEF EntryNames, Range
  <2> QED
    BY <1>3, <1>5, <2>2
<1>8. ASSUME NEW j \in 1 .. n, NEW k \in 1 .. n, j # k
      PROVE  Copied(o)[j] # Copied(o)[k]
  <2>1. j < k \/ k < j
    BY <1>3, <1>8
  <2>2. order[j] < order[k] \/ order[k] < order[j]
    BY <1>3, <2>1
  <2> QED
    BY <1>4, <1>5, <1>6, <2>2
<1>9. ASSUME NEW k \in 1 .. n
      PROVE  Copied(o)[k] \notin RewriteSet(o) /\ Copied(o)[k] \in Range(OldEntries)
  <2>1. order[k] \in DOMAIN OldEntries /\ OldEntries[order[k]] \notin RewriteSet(o)
    BY <1>1, <1>4, <1>6
  <2> QED
    BY <1>5, <2>1 DEF Range
<1>10. ASSUME NEW i \in 1 .. m, OldEntries[i] \notin RewriteSet(o)
       PROVE  \E k \in 1 .. n : Copied(o)[k] = OldEntries[i]
  <2> DEFINE same == {j \in 1 .. m : OldEntries[j] = OldEntries[i]}
  <2>1. same \in SUBSET Int /\ IsFiniteSet(same) /\ i \in same
    <3>1. IsFiniteSet(1 .. m)
      BY FS_Interval
    <3> QED
      BY <3>1, FS_Subset
  <2>2. PICK j \in same : \A x \in same : x <= j
    <3> HIDE DEF same
    <3> QED
      BY <2>1, GreatestExists
  <2>3. \A x \in j + 1 .. m : x \notin same /\ x \in 1 .. m
    BY <1>1, <2>2
  <2>4. j \in keep
    BY <1>10, <2>3 DEF keep
  <2>5. PICK k \in 1 .. n : order[k] = j
    BY <1>3, <2>4
  <2> QED
    BY <1>5, <2>5
<1> QED
  BY <1>1, <1>5, <1>7, <1>8, <1>9, <1>10

LEMMA MetadataFacts ==
    ASSUME NEW o \in Options
    PROVE  /\ Metadata(o) \in Seq(Written)
           /\ \A j, k \in DOMAIN Metadata(o) : j # k => Metadata(o)[j] # Metadata(o)[k]
           /\ \A k \in DOMAIN Metadata(o) : Metadata(o)[k] # OwnSheet(o)
           /\ IsAppend(o) \/ IsReplace(o) =>
                \A k \in DOMAIN Metadata(o) : Metadata(o)[k] \in RewriteSet(o)
           /\ IsAppend(o) \/ ~IsReplace(o) =>
                \A name \in Package : \E k \in DOMAIN Metadata(o) : Metadata(o)[k] = name
           /\ (IsAppend(o) \/ IsReplace(o)) /\ o.patch =>
                \E k \in DOMAIN Metadata(o) : Metadata(o)[k] = "styles"
<1>1. CASE ~(IsAppend(o) \/ IsReplace(o))
  <2> DEFINE s == <<"content_types", "package_rels", "workbook", "workbook_rels", "styles",
                    "shared_strings", "app", "core">>
  <2>1. Metadata(o) = s
    BY <1>1 DEF Metadata
  <2>2. s \in Seq(Written) /\ DOMAIN s = 1 .. 8
    BY DEF Written
  <2>3. /\ s[1] = "content_types" /\ s[2] = "package_rels" /\ s[3] = "workbook"
        /\ s[4] = "workbook_rels" /\ s[5] = "styles" /\ s[6] = "shared_strings"
        /\ s[7] = "app" /\ s[8] = "core"
    OBVIOUS
  <2> HIDE DEF s
  <2>4. OwnSheet(o) = "sheet1"
    BY <1>1 DEF OwnSheet
  <2>5. \A k \in 1 .. 8 : k \in {1, 2, 3, 4, 5, 6, 7, 8}
    OBVIOUS
  <2>6. \A k \in DOMAIN s : s[k] # OwnSheet(o)
    BY <2>2, <2>3, <2>4, <2>5
  <2>7. \A j, k \in DOMAIN s : j # k => s[j] # s[k]
    <3> SUFFICES ASSUME NEW j \in 1 .. 8, NEW k \in 1 .. 8, j # k PROVE s[j] # s[k]
      BY <2>2
    <3>1. j \in {1, 2, 3, 4, 5, 6, 7, 8} /\ k \in {1, 2, 3, 4, 5, 6, 7, 8}
      BY <2>5
    <3> QED
      BY <2>3, <3>1
  <2>8. \A name \in Package : \E k \in DOMAIN s : s[k] = name
    <3>1. 1 \in 1 .. 8 /\ 3 \in 1 .. 8 /\ 4 \in 1 .. 8
      OBVIOUS
    <3> QED
      BY <2>2, <2>3, <3>1 DEF Package
  <2> QED
    BY <1>1, <2>1, <2>2, <2>6, <2>7, <2>8
<1>2. CASE IsAppend(o)
  <2> DEFINE s == <<"content_types", "workbook", "workbook_rels">>
             t == IF o.patch THEN <<"styles">> ELSE << >>
             n == IF o.patch THEN 4 ELSE 3
  <2>1. Metadata(o) = s \o t
    BY <1>2 DEF Metadata
  <2>2. /\ s \in Seq(Written) /\ Len(s) = 3
        /\ s[1] = "content_types" /\ s[2] = "workbook" /\ s[3] = "workbook_rels"
    BY DEF Written
  <2>3. /\ t \in Seq(Written) /\ Len(t) = n - 3
        /\ o.patch => t[1] = "styles"
    <3>1. CASE o.patch
      <4>1. t = <<"styles">> /\ n = 4
        BY <3>1
      <4>2. /\ <<"styles">> \in Seq(Written) /\ Len(<<"styles">>) = 1
            /\ <<"styles">>[1] = "styles"
        BY DEF Written
      <4> HIDE DEF t, n
      <4> QED
        BY <4>1, <4>2
    <3>2. CASE ~o.patch
      <4>1. t = << >> /\ n = 3
        BY <3>2
      <4> QED
        BY <3>2, <4>1
    <3> QED
      BY <3>1, <3>2
  <2> HIDE DEF s, t
  <2>4. /\ Metadata(o) \in Seq(Written) /\ Len(Metadata(o)) = 3 + Len(t)
        /\ \A i \in 1 .. 3 : Metadata(o)[i] = s[i]
        /\ \A i \in 4 .. 3 + Len(t) : Metadata(o)[i] = t[i - 3]
    BY <2>1, <2>2, <2>3, ConcatProperties
  <2>5. n \in 3 .. 4 /\ Len(Metadata(o)) = n /\ (o.patch => n = 4)
    BY <2>3, <2>4
  <2>6. DOMAIN Metadata(o) = 1 .. n
    BY <2>4, <2>5, LenProperties
  <2>7. /\ Metadata(o)[1] = "content_types" /\ Metadata(o)[2] = "workbook"
        /\ Metadata(o)[3] = "workbook_rels" /\ (o.patch => Metadata(o)[4] = "styles")
    BY <2>2, <2>3, <2>4, <2>5
  <2>8. \A k \in DOMAIN Metadata(o) : k \in {1, 2, 3} \/ (o.patch /\ k = 4)
    <3>1. (o.patch /\ n = 4) \/ (~o.patch /\ n = 3)
      OBVIOUS
    <3>2. \A k \in 1 .. 4 : k \in {1, 2, 3} \/ k = 4
      OBVIOUS
    <3>3. \A k \in 1 .. 3 : k \in {1, 2, 3}
      OBVIOUS
    <3> HIDE DEF n
    <3> QED
      BY <2>6, <3>1, <3>2, <3>3
  <2>9. {1, 2, 3} \subseteq DOMAIN Metadata(o) /\ (o.patch => 4 \in DOMAIN Metadata(o))
    BY <2>5, <2>6
  <2>10. \A j, k \in DOMAIN Metadata(o) : j # k => Metadata(o)[j] # Metadata(o)[k]
    BY <2>7, <2>8
  <2> QED
    BY <1>2, <2>4, <2>7, <2>8, <2>9, <2>10 DEF Package, OwnSheet, RewriteSet
<1>3. CASE IsReplace(o)
  <2>0. ~IsAppend(o)
    BY <1>3 DEF IsAppend, IsReplace
  <2>1. Metadata(o) = << >> \o (IF o.patch THEN <<"styles">> ELSE << >>)
    BY <1>3, <2>0 DEF Metadata
  <2>2. Metadata(o) = IF o.patch THEN <<"styles">> ELSE << >>
    <3> DEFINE t == IF o.patch THEN <<"styles">> ELSE << >>
    <3>1. t = <<"styles">> \/ t = << >>
      OBVIOUS
    <3>2. <<"styles">> \in Seq(Written) /\ << >> \in Seq(Written)
      BY DEF Written
    <3> HIDE DEF t
    <3>3. t \in Seq(Written)
      BY <3>1, <3>2
    <3>4. Metadata(o) = << >> \o t
      BY <2>1 DEF t
    <3>5. << >> \o t = t
      BY <3>3, ConcatEmptySeq
    <3> QED
      BY <3>4, <3>5 DEF t
  <2>3. CASE o.patch
    <3>1. Metadata(o) = <<"styles">>
      BY <2>2, <2>3
    <3>2. DOMAIN Metadata(o) = {1} /\ Metadata(o)[1] = "styles" /\ Metadata(o) \in Seq(Written)
      BY <3>1 DEF Written
    <3>3. "styles" # OwnSheet(o) /\ "styles" \in RewriteSet(o)
      BY <2>0, <2>3 DEF OwnSheet, RewriteSet
    <3> QED
      BY <1>3, <2>0, <3>2, <3>3
  <2>4. CASE ~o.patch
    <3>1. Metadata(o) = << >>
      BY <2>2, <2>4
    <3> QED
      BY <1>3, <2>0, <2>4, <3>1
  <2> QED
    BY <2>3, <2>4
<1> QED
  BY <1>1, <1>2, <1>3

LEMMA PartsShape ==
    ASSUME NEW o \in Options
    PROVE  /\ Kept(o) \in Seq(EntryNames) /\ Len(Kept(o)) \in Nat
           /\ Metadata(o) \in Seq(EntryNames) /\ Len(Metadata(o)) \in Nat
           /\ Parts(o) \in Seq(EntryNames)
           /\ Len(Parts(o)) = Len(Kept(o)) + 1 + Len(Metadata(o))
           /\ \A i \in 1 .. Len(Kept(o)) : Parts(o)[i] = Kept(o)[i]
           /\ Parts(o)[Len(Kept(o)) + 1] = OwnSheet(o)
           /\ \A i \in 1 .. Len(Metadata(o)) : Parts(o)[Len(Kept(o)) + 1 + i] = Metadata(o)[i]
<1> DEFINE s == Kept(o)
           t == <<OwnSheet(o)>>
           u == Metadata(o)
<1>1. s \in Seq(EntryNames)
  BY CopiedFacts, EmptySeq DEF Kept
<1>2. u \in Seq(EntryNames)
  <2>1. u \in Seq(Written)
    BY MetadataFacts
  <2>2. Written \subseteq EntryNames
    BY DEF EntryNames
  <2> QED
    BY <2>1, <2>2
<1>3. t \in Seq(EntryNames) /\ Len(t) = 1 /\ t[1] = OwnSheet(o)
  BY DEF OwnSheet, EntryNames, Written
<1>4. Parts(o) = (s \o t) \o u
  BY DEF Parts
<1> HIDE DEF s, t, u
<1>5. PICK m \in Nat, n \in Nat : m = Len(s) /\ n = Len(u)
  BY <1>1, <1>2, LenProperties
<1>6. /\ s \o t \in Seq(EntryNames) /\ Len(s \o t) = m + 1
      /\ \A i \in 1 .. m : (s \o t)[i] = s[i]
      /\ (s \o t)[m + 1] = t[1]
  <2>1. /\ s \o t \in Seq(EntryNames) /\ Len(s \o t) = Len(s) + Len(t)
        /\ \A i \in 1 .. Len(s) + Len(t) : (s \o t)[i] = IF i <= Len(s) THEN s[i] ELSE t[i - Len(s)]
    BY <1>1, <1>3, ConcatProperties
  <2>2. m + 1 \in 1 .. m + 1 /\ (m + 1) - m = 1 /\ ~(m + 1 <= m)
    BY <1>5
  <2>3. \A i \in 1 .. m : i \in 1 .. m + 1 /\ i <= m
    BY <1>5
  <2> QED
    BY <1>3, <1>5, <2>1, <2>2, <2>3
<1>7. /\ Parts(o) \in Seq(EntryNames) /\ Len(Parts(o)) = m + 1 + n
      /\ \A i \in 1 .. m + 1 : Parts(o)[i] = (s \o t)[i]
      /\ \A i \in 1 .. n : Parts(o)[m + 1 + i] = u[i]
  <2> DEFINE v == s \o t
  <2>0. v \in Seq(EntryNames) /\ Len(v) = m + 1
    BY <1>6
  <2> HIDE DEF v
  <2>1. /\ v \o u \in Seq(EntryNames) /\ Len(v \o u) = Len(v) + Len(u)
        /\ \A i \in 1 .. Len(v) + Len(u) : (v \o u)[i] = IF i <= Len(v) THEN v[i] ELSE u[i - Len(v)]
    BY <1>2, <2>0, ConcatProperties
  <2>2. \A i \in 1 .. m + 1 : i \in 1 .. (m + 1) + n /\ i <= m + 1
    BY <1>5
  <2>3. \A i \in 1 .. n : /\ m + 1 + i \in 1 .. (m + 1) + n
                          /\ ~(m + 1 + i <= m + 1) /\ (m + 1 + i) - (m + 1) = i
    BY <1>5
  <2>4. Parts(o) = v \o u
    BY <1>4 DEF v
  <2>5. \A i \in 1 .. m + 1 : (v \o u)[i] = v[i]
    BY <1>5, <2>0, <2>1, <2>2
  <2>6. \A i \in 1 .. n : (v \o u)[m + 1 + i] = u[i]
    BY <1>5, <2>0, <2>1, <2>3
  <2> QED
    BY <1>5, <2>0, <2>1, <2>4, <2>5, <2>6 DEF v
<1>8. \A i \in 1 .. m : i \in 1 .. m + 1
  BY <1>5
<1>9. m + 1 \in 1 .. m + 1
  BY <1>5
<1> QED
  BY <1>1, <1>2, <1>3, <1>5, <1>6, <1>7, <1>8, <1>9 DEF s, u

LEMMA PartsDiffer ==
    ASSUME NEW o \in Options
    PROVE  \A j, k \in 1 .. Len(Parts(o)) : j # k => Parts(o)[j] # Parts(o)[k]
<1>1. PICK m \in Nat, n \in Nat : m = Len(Kept(o)) /\ n = Len(Metadata(o))
  BY PartsShape
<1>2. /\ Len(Parts(o)) = m + 1 + n
      /\ \A i \in 1 .. m : Parts(o)[i] = Kept(o)[i]
      /\ Parts(o)[m + 1] = OwnSheet(o)
      /\ \A i \in 1 .. n : Parts(o)[m + 1 + i] = Metadata(o)[i]
      /\ DOMAIN Metadata(o) = 1 .. n /\ DOMAIN Kept(o) = 1 .. m
  BY <1>1, PartsShape, LenProperties
<1>3. \A i \in 1 .. m : /\ IsAppend(o) \/ IsReplace(o)
                        /\ Kept(o)[i] \notin RewriteSet(o) /\ Kept(o)[i] \in Range(OldEntries)
                        /\ \A j \in 1 .. m : i # j => Kept(o)[i] # Kept(o)[j]
  <2>1. CASE IsAppend(o) \/ IsReplace(o)
    <3>1. Kept(o) = Copied(o)
      BY <2>1 DEF Kept
    <3> QED
      BY <1>2, <2>1, <3>1, CopiedFacts
  <2>2. CASE ~(IsAppend(o) \/ IsReplace(o))
    <3>1. Len(Kept(o)) = 0
      BY <2>2 DEF Kept
    <3> QED
      BY <1>1, <3>1
  <2> QED
    BY <2>1, <2>2
<1>4. \A i \in 1 .. m : Kept(o)[i] # OwnSheet(o)
  <2>1. ASSUME NEW i \in 1 .. m, Kept(o)[i] = OwnSheet(o) PROVE FALSE
    <3>1. ~IsAppend(o) => OwnSheet(o) \in RewriteSet(o)
      BY DEF RewriteSet
    <3>2. IsAppend(o) => OwnSheet(o) \notin Range(OldEntries)
      BY OldEntriesAssumption DEF OwnSheet
    <3> QED
      BY <1>3, <2>1, <3>1, <3>2
  <2> QED
    BY <2>1
<1>5. \A k \in 1 .. n : /\ Metadata(o)[k] # OwnSheet(o)
                        /\ IsAppend(o) \/ IsReplace(o) => Metadata(o)[k] \in RewriteSet(o)
                        /\ \A j \in 1 .. n : j # k => Metadata(o)[j] # Metadata(o)[k]
  BY <1>2, MetadataFacts
<1>6. \A i \in 1 .. m, k \in 1 .. n : Kept(o)[i] # Metadata(o)[k]
  BY <1>3, <1>5
<1>7. \A j \in 1 .. m + 1 + n : \/ j \in 1 .. m
                                \/ j = m + 1
                                \/ j - (m + 1) \in 1 .. n /\ m + 1 + (j - (m + 1)) = j
  OBVIOUS
<1>8. \A j \in 1 .. m + 1 + n : \/ j \in 1 .. m /\ Parts(o)[j] = Kept(o)[j]
                                \/ j = m + 1 /\ Parts(o)[j] = OwnSheet(o)
                                \/ \E k \in 1 .. n : j = m + 1 + k /\ Parts(o)[j] = Metadata(o)[k]
  <2> SUFFICES ASSUME NEW j \in 1 .. m + 1 + n
               PROVE  \/ j \in 1 .. m /\ Parts(o)[j] = Kept(o)[j]
                      \/ j = m + 1 /\ Parts(o)[j] = OwnSheet(o)
                      \/ \E k \in 1 .. n : j = m + 1 + k /\ Parts(o)[j] = Metadata(o)[k]
    OBVIOUS
  <2>1. CASE j \in 1 .. m
    BY <1>2, <2>1
  <2>2. CASE j = m + 1
    BY <1>2, <2>2
  <2>3. CASE j - (m + 1) \in 1 .. n /\ m + 1 + (j - (m + 1)) = j
    BY <1>2, <2>3
  <2> QED
    BY <1>7, <2>1, <2>2, <2>3
<1> SUFFICES ASSUME NEW j \in 1 .. m + 1 + n, NEW k \in 1 .. m + 1 + n, j # k
             PROVE  Parts(o)[j] # Parts(o)[k]
  BY <1>2
<1>9. CASE j \in 1 .. m /\ Parts(o)[j] = Kept(o)[j]
  BY <1>3, <1>4, <1>6, <1>8, <1>9
<1>10. CASE j = m + 1 /\ Parts(o)[j] = OwnSheet(o)
  BY <1>4, <1>5, <1>8, <1>10
<1>11. CASE \E i \in 1 .. n : j = m + 1 + i /\ Parts(o)[j] = Metadata(o)[i]
  BY <1>4, <1>5, <1>6, <1>8, <1>11
<1> QED
  BY <1>8, <1>9, <1>10, <1>11

LEMMA PartsHaveAll ==
    ASSUME NEW o \in Options
    PROVE  /\ \A name \in Package \cup {OwnSheet(o)} : \E k \in 1 .. Len(Parts(o)) : Parts(o)[k] = name
           /\ IsAppend(o) \/ IsReplace(o) =>
                \A i \in DOMAIN OldEntries : \E k \in 1 .. Len(Parts(o)) : Parts(o)[k] = OldEntries[i]
<1>1. PICK m \in Nat, n \in Nat : m = Len(Kept(o)) /\ n = Len(Metadata(o))
  BY PartsShape
<1>2. /\ Len(Parts(o)) = m + 1 + n
      /\ \A i \in 1 .. m : Parts(o)[i] = Kept(o)[i]
      /\ Parts(o)[m + 1] = OwnSheet(o)
      /\ \A i \in 1 .. n : Parts(o)[m + 1 + i] = Metadata(o)[i]
      /\ DOMAIN Metadata(o) = 1 .. n /\ DOMAIN Kept(o) = 1 .. m
  BY <1>1, PartsShape, LenProperties
<1> DEFINE Has(name) == \E k \in 1 .. m + 1 + n : Parts(o)[k] = name
<1>3. Has(OwnSheet(o)) /\ (\A i \in 1 .. m : Has(Kept(o)[i])) /\ (\A i \in 1 .. n : Has(Metadata(o)[i]))
  <2>1. m + 1 \in 1 .. m + 1 + n
    OBVIOUS
  <2>2. \A i \in 1 .. m : i \in 1 .. m + 1 + n
    OBVIOUS
  <2>3. \A i \in 1 .. n : m + 1 + i \in 1 .. m + 1 + n
    OBVIOUS
  <2> QED
    BY <1>2, <2>1, <2>2, <2>3
<1> HIDE DEF Has
<1>4. IsAppend(o) \/ ~IsReplace(o) => \A name \in Package : Has(name)
  BY <1>2, <1>3, MetadataFacts
<1>5. ASSUME IsAppend(o) \/ IsReplace(o), NEW i \in DOMAIN OldEntries PROVE Has(OldEntries[i])
  <2>1. CASE OldEntries[i] \notin RewriteSet(o)
    <3>1. Kept(o) = Copied(o)
      BY <1>5 DEF Kept
    <3> QED
      BY <1>2, <1>3, <1>5, <2>1, <3>1, CopiedFacts
  <2>2. CASE OldEntries[i] \in RewriteSet(o)
    <3>1. CASE OldEntries[i] = "styles" /\ o.patch
      BY <1>2, <1>3, <1>5, <3>1, MetadataFacts
    <3>2. CASE IsAppend(o) /\ OldEntries[i] \in Package
      BY <1>4, <3>2
    <3>3. CASE OldEntries[i] = OwnSheet(o)
      BY <1>3, <3>3
    <3> QED
      BY <2>2, <3>1, <3>2, <3>3 DEF RewriteSet
  <2> QED
    BY <2>1, <2>2
<1>6. IsReplace(o) => \A name \in Package : Has(name)
  <2> SUFFICES ASSUME IsReplace(o), NEW name \in Package PROVE Has(name)
    OBVIOUS
  <2>1. PICK i \in DOMAIN OldEntries : OldEntries[i] = name
    BY OldEntriesAssumption DEF Range
  <2> QED
    BY <1>5, <2>1
<1> QED
  BY <1>2, <1>3, <1>4, <1>5, <1>6 DEF Has

-----------------------------------------------------------------------------
LEMMA Concatenated ==
    ASSUME NEW s, IsSequence(s), NEW t, IsSequence(t)
    PROVE  /\ IsSequence(s \o t) /\ Len(s \o t) = Len(s) + Len(t)
           /\ \A i \in 1 .. Len(s) : (s \o t)[i] = s[i]
           /\ \A i \in 1 .. Len(t) : (s \o t)[Len(s) + i] = t[i]
<1> DEFINE S == {s[i] : i \in 1 .. Len(s)} \cup {t[i] : i \in 1 .. Len(t)}
<1>1. PICK m \in Nat, n \in Nat : m = Len(s) /\ n = Len(t)
  BY DEF IsSequence
<1>2. s \in Seq(S) /\ t \in Seq(S)
  <2>1. s = [i \in 1 .. m |-> s[i]] /\ t = [i \in 1 .. n |-> t[i]]
    BY <1>1 DEF IsSequence
  <2>2. (\A i \in 1 .. m : s[i] \in S) /\ (\A i \in 1 .. n : t[i] \in S)
    BY <1>1
  <2> HIDE DEF S
  <2>3. s \in [1 .. m -> S] /\ t \in [1 .. n -> S]
    BY <2>1, <2>2
  <2> QED
    BY <1>1, <2>3
<1> HIDE DEF S
<1>3. /\ s \o t \in Seq(S) /\ Len(s \o t) = m + n
      /\ \A i \in 1 .. m + n : (s \o t)[i] = IF i <= m THEN s[i] ELSE t[i - m]
  BY <1>1, <1>2, ConcatProperties
<1>4. \A i \in 1 .. m : i \in 1 .. m + n /\ i <= m
  OBVIOUS
<1>5. \A i \in 1 .. n : m + i \in 1 .. m + n /\ ~(m + i <= m) /\ (m + i) - m = i
  OBVIOUS
<1>6. s \o t = [i \in 1 .. m + n |-> (s \o t)[i]]
  BY <1>3, LenProperties
<1> QED
  BY <1>1, <1>3, <1>4, <1>5, <1>6 DEF IsSequence

LEMMA ListIsSequence ==
    ASSUME NEW n \in Nat, NEW f, f = [i \in 1 .. n |-> f[i]]
    PROVE  IsSequence(f) /\ Len(f) = n
BY DEF IsSequence

(* What Sink does with the rows of its chunk: all of them fit, or those up   *)
(* to the first one that is too many are written.                            *)
Added(chunk, upto) == [i \in 1 .. upto |-> SinkRow(chunk, nulls', i, Len(sheet) + i)]
LEMMA SinkFacts ==
    ASSUME TypeOK, ErrorsEnd, RowsCounted, NEW chunk \in Chunks(types), Sink(chunk)
    PROVE  /\ Len(sheet) = Given /\ Given \in Nat /\ Names \in Nat /\ Names <= 1
           /\ RowsOf(taken) \in Nat /\ RowsOf(taken) + Rows(chunk) = RowsOf(taken')
           /\ Given' = Given + Rows(chunk) /\ Rows(chunk) \in Nat
           /\ taken' \in Seq(Chunks(types)) /\ Len(taken') <= MaxChunks
           /\ nulls' = Marks(chunk) /\ error = "none"
           /\ \E upto \in 0 .. Rows(chunk) :
                 /\ sheet' = sheet \o Added(chunk, upto)
                 /\ \/ /\ upto = Rows(chunk) /\ ~Exceeds(Given + Rows(chunk))
                       /\ UNCHANGED <<pc, error>>
                    \/ /\ Exceeds(Given + Rows(chunk)) /\ pc' = "failed" /\ error' = "limit"
<1> DEFINE before == Len(sheet)
           excess == {i \in 1 .. Rows(chunk) : ~Fits(before + i)}
           upto   == IF excess = {} THEN Rows(chunk) ELSE Min(excess)
<1>1. /\ pc = "sink" /\ Len(taken) < MaxChunks /\ taken' = Append(taken, chunk)
      /\ nulls' = [c \in DOMAIN types |-> Execute(types[c], chunk[c], Reset(nulls)[c])]
      /\ sheet' = sheet \o [i \in 1 .. upto |-> SinkRow(chunk, nulls', i, before + i)]
      /\ IF excess = {} THEN UNCHANGED <<pc, error>> ELSE pc' = "failed" /\ error' = "limit"
      /\ UNCHANGED <<options, types>>
  BY DEF Sink, Throw
<1>2. /\ options \in Options /\ types \in TypeLists /\ taken \in Seq(Chunks(types))
      /\ DOMAIN nulls = DOMAIN types /\ ~Refused(options) /\ error = "none"
  BY <1>1 DEF TypeOK, ErrorsEnd
<1>3. before = Given /\ ~Exceeds(Given)
  BY <1>1 DEF RowsCounted
<1>4. Rows(chunk) \in Nat
  BY <1>2, ChunkFacts
<1>5. /\ taken' \in Seq(Chunks(types)) /\ Len(taken') = Len(taken) + 1 /\ Len(taken) \in Nat
  BY <1>1, <1>2, AppendProperties, LenProperties
<1>6. MaxChunks \in Nat /\ VectorSize \in Nat /\ MaxChunks * VectorSize \in Nat
  BY SinkAssumption
<1>7. Len(taken') <= MaxChunks
  BY <1>1, <1>5, <1>6
<1>8. RowsOf(taken) \in Nat /\ RowsOf(taken') = RowsOf(taken) + Rows(chunk)
  <2>1. \A c \in Chunks(types) : Rows(c) \in Nat
    BY <1>2, ChunkFacts
  <2> QED
    BY <1>1, <1>2, <2>1, RowsOfFacts
<1>9. RowsOf(taken') <= MaxChunks * VectorSize
  BY <1>2, <1>5, <1>7, RowsAreBounded
<1>10. Names \in Nat /\ Names <= 1 /\ Names' = Names
  <2>1. Names = 0 \/ Names = 1
    BY DEF Names
  <2>2. Names' = Names
    BY <1>1 DEF Names
  <2> QED
    BY <2>1, <2>2
<1>11. Given = Names + RowsOf(taken) /\ Given' = Names + RowsOf(taken')
  BY <1>10 DEF Given
<1>12. Given \in Nat /\ Given' = Given + Rows(chunk) /\ Given + Rows(chunk) <= 1 + MaxChunks * VectorSize
  BY <1>4, <1>6, <1>8, <1>9, <1>10, <1>11
<1>13. \A i \in 1 .. Rows(chunk) : before + i \in Nat /\ before + i <= 1 + MaxChunks * VectorSize
  BY <1>3, <1>4, <1>6, <1>12
<1>14. \A i \in 1 .. Rows(chunk) : Fits(before + i) <=> ~Exceeds(before + i)
  BY <1>2, <1>13, LimitIsTheOption
<1>15. nulls' = Marks(chunk)
  <2>1. \A c \in DOMAIN types : Reset(nulls)[c] = {}
    BY <1>2 DEF Reset
  <2> QED
    BY <1>1, <2>1 DEF Marks
<1>16. CASE excess = {}
  <2>1. upto = Rows(chunk)
    BY <1>16
  <2>2. ~Exceeds(Given + Rows(chunk))
    <3>1. CASE Rows(chunk) = 0
      BY <1>3, <1>12, <3>1
    <3>2. CASE Rows(chunk) # 0
      <4>1. Rows(chunk) \in 1 .. Rows(chunk)
        BY <1>4, <3>2
      <4>2. Fits(before + Rows(chunk))
        BY <1>16, <4>1
      <4> QED
        BY <1>3, <1>14, <4>1, <4>2
    <3> QED
      BY <3>1, <3>2
  <2>3. sheet' = sheet \o Added(chunk, Rows(chunk))
    BY <1>1, <2>1 DEF Added
  <2>4. UNCHANGED <<pc, error>>
    BY <1>1, <1>16
  <2>5. Rows(chunk) \in 0 .. Rows(chunk)
    BY <1>4
  <2> QED
    BY <1>2, <1>3, <1>4, <1>5, <1>7, <1>8, <1>10, <1>12, <1>15, <2>2, <2>3, <2>4, <2>5
<1>17. CASE excess # {}
  <2>1. upto \in excess
    <3>1. excess \in SUBSET Nat
      BY <1>4
    <3>2. \E x \in excess : \A y \in excess : x <= y
      BY <1>17, <3>1, LeastExists
    <3> HIDE DEF excess
    <3> QED
      BY <1>17, <3>2 DEF Min
  <2>2. upto \in 1 .. Rows(chunk) /\ ~Fits(before + upto)
    BY <2>1
  <2> HIDE DEF upto, excess
  <2>3. Exceeds(before + upto)
    BY <1>14, <2>2
  <2>4. before + upto \in Nat /\ before + upto <= Given + Rows(chunk) /\ Given + Rows(chunk) \in Nat
    BY <1>3, <1>4, <1>12, <2>2
  <2>5. Exceeds(Given + Rows(chunk))
    BY <1>2, <2>3, <2>4, ExceedsGrows
  <2>6. sheet' = sheet \o Added(chunk, upto)
    BY <1>1 DEF Added
  <2>7. pc' = "failed" /\ error' = "limit"
    BY <1>1, <1>17
  <2>8. upto \in 0 .. Rows(chunk)
    BY <1>4, <2>2
  <2> QED
    BY <1>2, <1>3, <1>4, <1>5, <1>7, <1>8, <1>10, <1>12, <1>15, <2>5, <2>6, <2>7, <2>8
<1> QED
  BY <1>16, <1>17

-----------------------------------------------------------------------------
(* The initial states.                                                       *)
LEMMA SinkInit == Init => SinkInv
<1> SUFFICES ASSUME Init PROVE SinkInv
  OBVIOUS
<1> USE DEF Init
<1>1. TypeOK
  <2>1. MaxChunks \in Nat /\ Len(<< >>) = 0
    BY SinkAssumption
  <2>2. IsSequence(<< >>)
    BY DEF IsSequence
  <2>3. taken \in Seq(Chunks(types)) /\ Len(taken) <= MaxChunks
    BY <2>1
  <2>4. entries \in Seq([name : EntryNames, whole : BOOLEAN]) /\ todo \in Seq(EntryNames)
    BY EmptySeq
  <2>5. DOMAIN nulls = DOMAIN types /\ options \in Options /\ types \in TypeLists /\ IsSequence(sheet)
    BY <2>2
  <2>6. /\ open \in Written \cup {NoEntry} /\ directory \in BOOLEAN /\ error = "none"
        /\ pc = "bind"
    OBVIOUS
  <2> QED
    BY <2>3, <2>4, <2>5, <2>6 DEF TypeOK
<1>2. ErrorsEnd
  BY DEF ErrorsEnd
<1>3. RowsCounted
  BY DEF RowsCounted
<1>4. Len(entries) = 0 /\ DOMAIN entries = {}
  OBVIOUS
<1>5. Len(Kept(options)) \in Nat /\ Len(Parts(options)) = Len(Kept(options)) + 1 + Len(Metadata(options))
      /\ Len(Metadata(options)) \in Nat
  BY PartsShape
<1>6. EntriesInOrder
  BY <1>4, <1>5 DEF EntriesInOrder
<1>7. SheetDone
  BY <1>4, <1>5 DEF SheetDone, OwnIx
<1>8. RowsAreSunk
  BY DEF RowsAreSunk
<1> QED
  BY <1>1, <1>2, <1>3, <1>6, <1>7, <1>8 DEF SinkInv

(* The type invariant.                                                       *)
LEMMA EntryAppended ==
    ASSUME TypeOK, NEW name \in EntryNames, NEW b \in BOOLEAN,
           entries' = Append(entries, [name |-> name, whole |-> b])
    PROVE  /\ entries' \in Seq([name : EntryNames, whole : BOOLEAN])
           /\ Len(entries) \in Nat /\ Len(entries') = Len(entries) + 1
           /\ DOMAIN entries' = 1 .. Len(entries) + 1 /\ DOMAIN entries = 1 .. Len(entries)
           /\ \A k \in 1 .. Len(entries) : entries'[k] = entries[k]
           /\ entries'[Len(entries) + 1] = [name |-> name, whole |-> b]
<1>1. entries \in Seq([name : EntryNames, whole : BOOLEAN])
  BY DEF TypeOK
<1>2. [name |-> name, whole |-> b] \in [name : EntryNames, whole : BOOLEAN]
  OBVIOUS
<1> QED
  BY <1>1, <1>2, AppendProperties, LenProperties

LEMMA ListOf ==
    ASSUME NEW S, NEW n \in Nat, NEW f \in [1 .. n -> S]
    PROVE  f \in Seq(S) /\ Len(f) = n
OBVIOUS

LEMMA EntryFinished ==
    ASSUME TypeOK, Len(entries) >= 1,
           entries' = [entries EXCEPT ![Len(entries)].whole = TRUE]
    PROVE  /\ entries' \in Seq([name : EntryNames, whole : BOOLEAN])
           /\ Len(entries) \in Nat /\ Len(entries') = Len(entries)
           /\ DOMAIN entries' = 1 .. Len(entries) /\ DOMAIN entries = 1 .. Len(entries)
           /\ \A k \in 1 .. Len(entries) :
                 /\ entries'[k].name = entries[k].name
                 /\ k # Len(entries) => entries'[k] = entries[k]
                 /\ k = Len(entries) => entries'[k].whole = TRUE
<1> DEFINE E == [name : EntryNames, whole : BOOLEAN]
<1>1. PICK n \in Nat : n = Len(entries)
  BY LenProperties DEF TypeOK
<1>2. entries \in Seq(E) /\ entries \in [1 .. n -> E]
  BY <1>1, LenProperties DEF TypeOK
<1>3. n \in 1 .. n
  BY <1>1
<1>4. entries' = [entries EXCEPT ![n] = [entries[n] EXCEPT !.whole = TRUE]]
  BY <1>1
<1>5. entries[n] \in E
  BY <1>2, <1>3
<1>6. [entries[n] EXCEPT !.whole = TRUE] \in E
  BY <1>5
<1>7. entries' \in [1 .. n -> E]
  BY <1>2, <1>3, <1>4, <1>6
<1>8. \A k \in 1 .. n : /\ entries'[k].name = entries[k].name
                        /\ k # n => entries'[k] = entries[k]
                        /\ k = n => entries'[k].whole = TRUE
  BY <1>2, <1>3, <1>4, <1>5
<1>9. entries' \in Seq(E) /\ Len(entries') = n
  <2> HIDE DEF E
  <2> QED
    BY <1>7, ListOf
<1> QED
  BY <1>1, <1>2, <1>7, <1>8, <1>9

LEMMA TodoFacts ==
    ASSUME TypeOK, todo # << >>
    PROVE  /\ Head(todo) = todo[1] /\ Head(todo) \in EntryNames /\ Tail(todo) \in Seq(EntryNames)
           /\ Len(todo) \in Nat /\ Len(todo) >= 1 /\ Len(Tail(todo)) = Len(todo) - 1
           /\ DOMAIN Tail(todo) = 1 .. Len(todo) - 1 /\ DOMAIN todo = 1 .. Len(todo)
           /\ \A i \in 1 .. Len(todo) - 1 : Tail(todo)[i] = todo[i + 1]
<1>1. todo \in Seq(EntryNames)
  BY DEF TypeOK
<1> QED
  BY <1>1, HeadTailProperties, LenProperties, EmptySeq

(* The part that is written next.                                            *)
LEMMA NextPart ==
    ASSUME TypeOK, EntriesInOrder, todo # << >>, pc \in {"metadata", "copy"}
    PROVE  /\ Head(todo) = Parts(options)[Len(entries) + 1]
           /\ pc = "metadata" => Head(todo) \in Written /\ Head(todo) # NoEntry
<1>1. Head(todo) = todo[1] /\ 1 \in DOMAIN todo /\ Len(todo) \in Nat /\ Len(todo) >= 1
  BY TodoFacts
<1>2. Head(todo) = Parts(options)[Len(entries) + 1]
  BY <1>1 DEF EntriesInOrder, TodoFollows
<1>3. ASSUME pc = "metadata" PROVE Head(todo) \in Written /\ Head(todo) # NoEntry
  <2>1. PICK m \in Nat, n \in Nat, k \in Nat :
           m = Len(Kept(options)) /\ n = Len(Metadata(options)) /\ k = Len(entries)
    BY PartsShape, LenProperties DEF TypeOK
  <2>2. k >= m + 1 /\ k + Len(todo) = m + 1 + n
    BY <1>3, <2>1, PartsShape DEF EntriesInOrder, OwnIx, TypeOK
  <2>3. (k + 1) - (m + 1) \in 1 .. n /\ m + 1 + ((k + 1) - (m + 1)) = k + 1
    BY <1>1, <2>2
  <2>4. Parts(options)[k + 1] = Metadata(options)[(k + 1) - (m + 1)]
    BY <2>1, <2>3, PartsShape DEF TypeOK
  <2>5. Metadata(options) \in Seq(Written)
    BY MetadataFacts DEF TypeOK
  <2>6. Parts(options)[k + 1] \in Written
    BY <2>1, <2>3, <2>4, <2>5, ElementOfSeq
  <2> QED
    BY <1>2, <2>1, <2>6 DEF Written, NoEntry
<1> QED
  BY <1>2, <1>3

LEMMA TypeStep == SinkInv /\ [Next]_vars => TypeOK'
<1> SUFFICES ASSUME SinkInv, [Next]_vars PROVE TypeOK'
  OBVIOUS
<1> USE DEF SinkInv
<1> DEFINE E == [name : EntryNames, whole : BOOLEAN]
<1>1. CASE Bind
  <2>1. UNCHANGED <<options, types, taken, nulls, sheet, entries, open, directory>>
    BY <1>1 DEF Bind, zip
  <2>2. pc' \in {"refused", "copy"} /\ error' \in {error, "option"}
    BY <1>1 DEF Bind, Go
  <2>3. todo' \in Seq(EntryNames)
    <3>1. todo' \in {todo, Copied(options), << >>}
      BY <1>1 DEF Bind
    <3> QED
      BY <3>1, CopiedFacts, EmptySeq DEF TypeOK
  <2> QED
    BY <2>1, <2>2, <2>3 DEF TypeOK
<1>2. CASE CopyEntry
  <2>1. /\ UNCHANGED <<options, types, taken, nulls, sheet, open, directory>>
        /\ todo # << >>
    BY <1>2 DEF CopyEntry
  <2>2. Head(todo) \in EntryNames /\ Tail(todo) \in Seq(EntryNames)
    BY <2>1, TodoFacts
  <2>3. CASE open # NoEntry
    <3>1. UNCHANGED <<entries, todo>> /\ pc' = "failed" /\ error' = "misuse"
      BY <1>2, <2>3 DEF CopyEntry, Throw
    <3>2. open = NoEntry
      BY <1>2 DEF CopyEntry, EntriesInOrder
    <3> QED
      BY <2>3, <3>2
  <2>4. CASE open = NoEntry
    <3>1. /\ entries' = Append(entries, [name |-> Head(todo), whole |-> TRUE])
          /\ todo' = Tail(todo) /\ UNCHANGED <<pc, error>>
      BY <1>2, <2>4 DEF CopyEntry
    <3>2. entries' \in Seq(E)
      BY <2>2, <3>1, EntryAppended
    <3> QED
      BY <2>1, <2>2, <3>1, <3>2 DEF TypeOK
  <2> QED
    BY <2>3, <2>4
<1>3. CASE BeginSheet
  <2>1. /\ UNCHANGED <<options, types, taken, nulls, sheet, directory, todo>>
        /\ BeginFile(OwnSheet(options), "header") /\ open = NoEntry
    BY <1>3 DEF BeginSheet, EntriesInOrder
  <2>2. OwnSheet(options) \in Written /\ OwnSheet(options) \in EntryNames
    BY DEF OwnSheet, Written, EntryNames
  <2>3. /\ entries' = Append(entries, [name |-> OwnSheet(options), whole |-> FALSE])
        /\ open' = OwnSheet(options) /\ pc' = "header" /\ UNCHANGED error
    BY <2>1 DEF BeginFile, Go
  <2>4. entries' \in Seq(E)
    BY <2>2, <2>3, EntryAppended
  <2> QED
    BY <2>1, <2>2, <2>3, <2>4 DEF TypeOK
<1>4. CASE WriteHeader
  <2>1. UNCHANGED <<options, types, taken, nulls, entries, open, directory, todo>>
    BY <1>4 DEF WriteHeader, zip
  <2>2. pc' \in {"sink", "failed"} /\ error' \in {error, "limit"}
    BY <1>4 DEF WriteHeader, Go, Throw
  <2>3. sheet' = sheet \/ sheet' = <<HeaderRow>>
    BY <1>4 DEF WriteHeader
  <2>4. IsSequence(<<HeaderRow>>)
    BY DEF IsSequence
  <2> QED
    BY <2>1, <2>2, <2>3, <2>4 DEF TypeOK
<1>5. ASSUME NEW chunk \in Chunks(types), Sink(chunk) PROVE TypeOK'
  <2>1. UNCHANGED <<options, types, entries, open, directory, todo>>
    BY <1>5 DEF Sink, zip
  <2>2. /\ taken' \in Seq(Chunks(types)) /\ Len(taken') <= MaxChunks
        /\ nulls' = Marks(chunk)
    BY <1>5, SinkFacts
  <2>3. PICK upto \in 0 .. Rows(chunk) :
           /\ sheet' = sheet \o Added(chunk, upto)
           /\ UNCHANGED <<pc, error>> \/ (pc' = "failed" /\ error' = "limit")
    BY <1>5, SinkFacts
  <2>4. IsSequence(Added(chunk, upto))
    <3>1. upto \in Nat
      BY <1>5, SinkFacts
    <3> QED
      BY <3>1, ListIsSequence DEF Added
  <2>5. IsSequence(sheet')
    BY <2>3, <2>4, Concatenated DEF TypeOK
  <2>6. DOMAIN nulls' = DOMAIN types
    BY <2>2 DEF Marks
  <2> QED
    BY <2>1, <2>2, <2>3, <2>5, <2>6 DEF TypeOK
<1>6. CASE EndSheet
  <2>1. /\ UNCHANGED <<options, types, taken, nulls, sheet, directory>>
        /\ EndFile("metadata") /\ todo' = Metadata(options)
        /\ open # NoEntry /\ Len(entries) = OwnIx
    BY <1>6 DEF EndSheet, EntriesInOrder
  <2>2. Metadata(options) \in Seq(EntryNames) /\ Len(Kept(options)) \in Nat
    BY PartsShape DEF TypeOK
  <2>3. /\ entries' = [entries EXCEPT ![Len(entries)].whole = TRUE]
        /\ open' = NoEntry /\ pc' = "metadata" /\ UNCHANGED error
    BY <2>1 DEF EndFile, Go
  <2>4. Len(entries) >= 1
    BY <2>1, <2>2 DEF OwnIx
  <2>5. entries' \in Seq(E)
    BY <2>3, <2>4, EntryFinished
  <2> QED
    BY <2>1, <2>2, <2>3, <2>5 DEF TypeOK
<1>7. CASE BeginPart
  <2>1. /\ UNCHANGED <<options, types, taken, nulls, sheet, directory, todo>>
        /\ BeginFile(Head(todo), "part") /\ open = NoEntry /\ todo # << >>
    BY <1>7 DEF BeginPart, EntriesInOrder
  <2>2. Head(todo) \in EntryNames
    BY <2>1, TodoFacts
  <2>3. /\ entries' = Append(entries, [name |-> Head(todo), whole |-> FALSE])
        /\ open' = Head(todo) /\ pc' = "part" /\ UNCHANGED error
    BY <2>1 DEF BeginFile, Go
  <2>4. entries' \in Seq(E)
    BY <2>2, <2>3, EntryAppended
  <2>5. Head(todo) \in Written
    BY <1>7, <2>1, NextPart DEF BeginPart
  <2> QED
    BY <2>1, <2>3, <2>4, <2>5 DEF TypeOK
<1>8. CASE EndPart
  <2>1. /\ UNCHANGED <<options, types, taken, nulls, sheet, directory>>
        /\ EndFile("metadata") /\ todo' = Tail(todo)
        /\ open # NoEntry /\ todo # << >> /\ Len(entries) >= OwnIx
    BY <1>8 DEF EndPart, EntriesInOrder
  <2>2. Tail(todo) \in Seq(EntryNames) /\ Len(Kept(options)) \in Nat
    BY <2>1, TodoFacts, PartsShape DEF TypeOK
  <2>3. /\ entries' = [entries EXCEPT ![Len(entries)].whole = TRUE]
        /\ open' = NoEntry /\ pc' = "metadata" /\ UNCHANGED error
    BY <2>1 DEF EndFile, Go
  <2>4. Len(entries) >= 1
    <3>1. Len(entries) \in Nat
      BY LenProperties DEF TypeOK
    <3> QED
      BY <2>1, <2>2, <3>1 DEF OwnIx
  <2>5. entries' \in Seq(E)
    BY <2>3, <2>4, EntryFinished
  <2> QED
    BY <2>1, <2>2, <2>3, <2>5 DEF TypeOK
<1>9. CASE Finish
  <2>1. /\ UNCHANGED <<options, types, taken, nulls, sheet, entries, open, directory, todo, error>>
        /\ pc' = "finished"
    BY <1>9 DEF Finish, zip, Go
  <2> QED
    BY <2>1 DEF TypeOK
<1>10. CASE WriteFails
  <2>1. /\ UNCHANGED <<options, types, taken, nulls, sheet, open, directory, todo>>
        /\ pc' = "failed" /\ error' = "io"
        /\ \/ UNCHANGED entries
           \/ /\ todo # << >>
              /\ entries' = Append(entries, [name |-> Head(todo), whole |-> FALSE])
    BY <1>10 DEF WriteFails, Throw
  <2>2. entries' \in Seq(E)
    BY <2>1, TodoFacts, EntryAppended DEF TypeOK
  <2> QED
    BY <2>1, <2>2 DEF TypeOK
<1>11. CASE DestroyWriter
  <2>1. /\ UNCHANGED <<options, types, taken, nulls, sheet, entries, todo, error>>
        /\ pc' \in {"done", "left"} /\ open' = NoEntry /\ directory' = TRUE
    BY <1>11 DEF DestroyWriter
  <2> QED
    BY <2>1 DEF TypeOK
<1>12. CASE DestroyWriterFails
  <2>1. /\ UNCHANGED <<options, types, taken, nulls, sheet, entries, open, directory, todo>>
        /\ pc' = "left" /\ error' = "io"
    BY <1>12 DEF DestroyWriterFails, zip
  <2> QED
    BY <2>1 DEF TypeOK
<1>13. CASE UNCHANGED vars
  <2>1. UNCHANGED <<options, types, taken, nulls, sheet, entries, open, directory, todo, pc, error>>
    BY <1>13 DEF vars
  <2> QED
    BY <2>1 DEF TypeOK
<1> QED
  BY <1>1, <1>2, <1>3, <1>4, <1>5, <1>6, <1>7, <1>8, <1>9, <1>10, <1>11, <1>12, <1>13
  DEF Next, Statement

LEMMA ErrorsStep == SinkInv /\ [Next]_vars => ErrorsEnd'
<1> SUFFICES ASSUME SinkInv, [Next]_vars PROVE ErrorsEnd'
  OBVIOUS
<1> USE DEF SinkInv
<1>1. CASE Bind
  <2>1. UNCHANGED <<options, directory>> /\ pc = "bind"
    BY <1>1 DEF Bind, zip
  <2>2. \/ Refused(options) /\ pc' = "refused" /\ error' = "option"
        \/ ~Refused(options) /\ pc' = "copy" /\ UNCHANGED error
    BY <1>1 DEF Bind, Go
  <2> QED
    BY <2>1, <2>2 DEF ErrorsEnd, Refused
<1>2. CASE CopyEntry
  <2>1. UNCHANGED <<options, directory>> /\ pc = "copy"
    BY <1>2 DEF CopyEntry
  <2>2. \/ pc' = "failed" /\ error' = "misuse"
        \/ UNCHANGED <<pc, error>>
    BY <1>2 DEF CopyEntry, Throw
  <2> QED
    BY <2>1, <2>2 DEF ErrorsEnd, Refused
<1>3. CASE BeginSheet
  <2>1. UNCHANGED <<options, directory>> /\ pc = "copy"
    BY <1>3 DEF BeginSheet
  <2>2. \/ pc' = "failed" /\ error' = "misuse"
        \/ pc' = "header" /\ UNCHANGED error
    BY <1>3 DEF BeginSheet, BeginFile, Throw, Go
  <2> QED
    BY <2>1, <2>2 DEF ErrorsEnd, Refused
<1>4. CASE WriteHeader
  <2>1. UNCHANGED <<options, directory>> /\ pc = "header"
    BY <1>4 DEF WriteHeader
  <2>2. \/ pc' = "failed" /\ error' = "limit"
        \/ pc' = "sink" /\ UNCHANGED error
    BY <1>4 DEF WriteHeader, Throw, Go
  <2> QED
    BY <2>1, <2>2 DEF ErrorsEnd, Refused
<1>5. ASSUME NEW chunk \in Chunks(types), Sink(chunk) PROVE ErrorsEnd'
  <2>1. UNCHANGED <<options, directory>> /\ pc = "sink"
    BY <1>5 DEF Sink
  <2>2. \/ pc' = "failed" /\ error' = "limit"
        \/ UNCHANGED <<pc, error>>
    BY <1>5, SinkFacts
  <2> QED
    BY <2>1, <2>2 DEF ErrorsEnd, Refused
<1>6. CASE EndSheet
  <2>1. UNCHANGED <<options, directory>> /\ pc = "sink"
    BY <1>6 DEF EndSheet
  <2>2. \/ pc' = "failed" /\ error' = "misuse"
        \/ pc' = "metadata" /\ UNCHANGED error
    BY <1>6 DEF EndSheet, EndFile, Throw, Go
  <2> QED
    BY <2>1, <2>2 DEF ErrorsEnd, Refused
<1>7. CASE BeginPart
  <2>1. UNCHANGED <<options, directory>> /\ pc = "metadata"
    BY <1>7 DEF BeginPart
  <2>2. \/ pc' = "failed" /\ error' = "misuse"
        \/ pc' = "part" /\ UNCHANGED error
    BY <1>7 DEF BeginPart, BeginFile, Throw, Go
  <2> QED
    BY <2>1, <2>2 DEF ErrorsEnd, Refused
<1>8. CASE EndPart
  <2>1. UNCHANGED <<options, directory>> /\ pc = "part"
    BY <1>8 DEF EndPart
  <2>2. \/ pc' = "failed" /\ error' = "misuse"
        \/ pc' = "metadata" /\ UNCHANGED error
    BY <1>8 DEF EndPart, EndFile, Throw, Go
  <2> QED
    BY <2>1, <2>2 DEF ErrorsEnd, Refused
<1>9. CASE Finish
  <2>1. UNCHANGED <<options, directory, error>> /\ pc = "metadata" /\ pc' = "finished"
    BY <1>9 DEF Finish, Go
  <2> QED
    BY <2>1 DEF ErrorsEnd, Refused
<1>10. CASE WriteFails
  <2>1. /\ UNCHANGED <<options, directory>> /\ pc' = "failed" /\ error' = "io"
        /\ pc \in {"copy", "header", "sink", "metadata", "part"}
    BY <1>10 DEF WriteFails, Throw
  <2> QED
    BY <2>1 DEF ErrorsEnd, Refused
<1>11. CASE DestroyWriter
  <2>1. /\ UNCHANGED <<options, error>> /\ pc \in {"finished", "failed"} /\ directory' = TRUE
        /\ pc' = IF pc = "finished" THEN "done" ELSE "left"
    BY <1>11 DEF DestroyWriter
  <2> QED
    BY <2>1 DEF ErrorsEnd, Refused
<1>12. CASE DestroyWriterFails
  <2>1. /\ UNCHANGED <<options, directory>> /\ pc \in {"finished", "failed"}
        /\ pc' = "left" /\ error' = "io"
    BY <1>12 DEF DestroyWriterFails
  <2> QED
    BY <2>1 DEF ErrorsEnd, Refused
<1>13. CASE UNCHANGED vars
  BY <1>13 DEF vars, ErrorsEnd, Refused
<1> QED
  BY <1>1, <1>2, <1>3, <1>4, <1>5, <1>6, <1>7, <1>8, <1>9, <1>10, <1>11, <1>12, <1>13
  DEF Next, Statement

(* The rows counted.                                                         *)
LEMMA RowsStep == SinkInv /\ [Next]_vars => RowsCounted'
<1> SUFFICES ASSUME SinkInv, [Next]_vars PROVE RowsCounted'
  OBVIOUS
<1> USE DEF SinkInv
<1>0. ASSUME UNCHANGED <<options, taken>>
      PROVE  Given' = Given /\ (Exceeds(Given)' <=> Exceeds(Given))
  <2>1. Given' = Given
    BY <1>0 DEF Given, Names
  <2> QED
    BY <1>0, <2>1 DEF Exceeds
<1>1. CASE Bind
  <2>1. UNCHANGED <<options, taken, sheet>> /\ pc = "bind"
    BY <1>1 DEF Bind
  <2>2. pc' \in {"refused", "copy"} /\ error' \in {error, "option"}
    BY <1>1 DEF Bind, Go
  <2> QED
    BY <1>0, <2>1, <2>2 DEF RowsCounted
<1>2. CASE CopyEntry
  <2>1. UNCHANGED <<options, taken, sheet>> /\ pc = "copy"
    BY <1>2 DEF CopyEntry
  <2>2. \/ pc' = "failed" /\ error' = "misuse"
        \/ UNCHANGED <<pc, error>>
    BY <1>2 DEF CopyEntry, Throw
  <2> QED
    BY <1>0, <2>1, <2>2 DEF RowsCounted
<1>3. CASE BeginSheet
  <2>1. UNCHANGED <<options, taken, sheet>> /\ pc = "copy"
    BY <1>3 DEF BeginSheet
  <2>2. \/ pc' = "failed" /\ error' = "misuse"
        \/ pc' = "header" /\ UNCHANGED error
    BY <1>3 DEF BeginSheet, BeginFile, Throw, Go
  <2> QED
    BY <1>0, <2>1, <2>2 DEF RowsCounted
<1>4. CASE WriteHeader
  <2>1. UNCHANGED <<options, taken>> /\ pc = "header" /\ taken = << >> /\ sheet = << >>
    BY <1>4 DEF WriteHeader, RowsCounted
  <2>2. RowsOf(taken) = 0
    BY <2>1, ChunkFacts, RowsOfFacts DEF TypeOK
  <2>3. options \in Options /\ ~Refused(options) /\ error = "none"
    BY <2>1 DEF TypeOK, ErrorsEnd
  <2>4. CASE Header(options)
    <3>1. Given = 1
      BY <2>2, <2>4 DEF Given, Names
    <3>2. sheet' = <<HeaderRow>> /\ Len(sheet') = 1
      BY <1>4, <2>4 DEF WriteHeader
    <3>3. Fits(1) <=> ~Exceeds(1)
      <4>1. MaxChunks * VectorSize \in Nat
        BY SinkAssumption
      <4> QED
        BY <2>3, <4>1, LimitIsTheOption
    <3>4. CASE Fits(1)
      <4>1. pc' = "sink" /\ UNCHANGED error
        BY <1>4, <2>4, <3>4 DEF WriteHeader, Go
      <4> QED
        BY <1>0, <2>1, <2>3, <3>1, <3>2, <3>3, <3>4, <4>1 DEF RowsCounted
    <3>5. CASE ~Fits(1)
      <4>1. pc' = "failed" /\ error' = "limit"
        BY <1>4, <2>4, <3>5 DEF WriteHeader, Throw
      <4> QED
        BY <1>0, <2>1, <2>3, <3>1, <3>2, <3>3, <3>5, <4>1 DEF RowsCounted
    <3> QED
      BY <3>4, <3>5
  <2>5. CASE ~Header(options)
    <3>1. Given = 0
      BY <2>2, <2>5 DEF Given, Names
    <3>2. sheet' = << >> /\ Len(sheet') = 0 /\ pc' = "sink" /\ UNCHANGED error
      BY <1>4, <2>1, <2>5 DEF WriteHeader, Go
    <3>3. ~Exceeds(0)
      BY SinkAssumption DEF Exceeds
    <3> QED
      BY <1>0, <2>1, <2>3, <3>1, <3>2, <3>3 DEF RowsCounted
  <2> QED
    BY <2>4, <2>5
<1>5. ASSUME NEW chunk \in Chunks(types), Sink(chunk) PROVE RowsCounted'
  <2>1. pc = "sink" /\ UNCHANGED options
    BY <1>5 DEF Sink
  <2>2. /\ Len(sheet) = Given /\ Given' = Given + Rows(chunk) /\ Rows(chunk) \in Nat
        /\ error = "none"
    BY <1>5, SinkFacts
  <2>3. PICK upto \in 0 .. Rows(chunk) :
           /\ sheet' = sheet \o Added(chunk, upto)
           /\ \/ /\ upto = Rows(chunk) /\ ~Exceeds(Given + Rows(chunk))
                 /\ UNCHANGED <<pc, error>>
              \/ /\ Exceeds(Given + Rows(chunk)) /\ pc' = "failed" /\ error' = "limit"
    BY <1>5, SinkFacts
  <2>4. Exceeds(Given)' <=> Exceeds(Given + Rows(chunk))
    BY <2>1, <2>2 DEF Exceeds
  <2>5. Len(sheet') = Len(sheet) + upto
    <3>1. upto \in Nat
      BY <2>2
    <3>2. IsSequence(Added(chunk, upto)) /\ Len(Added(chunk, upto)) = upto
      BY <3>1, ListIsSequence DEF Added
    <3> QED
      BY <2>3, <3>2, Concatenated DEF TypeOK
  <2>6. CASE /\ upto = Rows(chunk) /\ ~Exceeds(Given + Rows(chunk))
             /\ UNCHANGED <<pc, error>>
    BY <2>1, <2>2, <2>4, <2>5, <2>6 DEF RowsCounted
  <2>7. CASE Exceeds(Given + Rows(chunk)) /\ pc' = "failed" /\ error' = "limit"
    BY <2>4, <2>7 DEF RowsCounted
  <2> QED
    BY <2>3, <2>6, <2>7
<1>6. CASE EndSheet
  <2>1. UNCHANGED <<options, taken, sheet>> /\ pc = "sink"
    BY <1>6 DEF EndSheet
  <2>2. \/ pc' = "failed" /\ error' = "misuse"
        \/ pc' = "metadata" /\ UNCHANGED error
    BY <1>6 DEF EndSheet, EndFile, Throw, Go
  <2> QED
    BY <1>0, <2>1, <2>2 DEF RowsCounted
<1>7. CASE BeginPart
  <2>1. UNCHANGED <<options, taken, sheet>> /\ pc = "metadata"
    BY <1>7 DEF BeginPart
  <2>2. \/ pc' = "failed" /\ error' = "misuse"
        \/ pc' = "part" /\ UNCHANGED error
    BY <1>7 DEF BeginPart, BeginFile, Throw, Go
  <2> QED
    BY <1>0, <2>1, <2>2 DEF RowsCounted
<1>8. CASE EndPart
  <2>1. UNCHANGED <<options, taken, sheet>> /\ pc = "part"
    BY <1>8 DEF EndPart
  <2>2. \/ pc' = "failed" /\ error' = "misuse"
        \/ pc' = "metadata" /\ UNCHANGED error
    BY <1>8 DEF EndPart, EndFile, Throw, Go
  <2> QED
    BY <1>0, <2>1, <2>2 DEF RowsCounted
<1>9. CASE Finish
  <2>1. UNCHANGED <<options, taken, sheet, error>> /\ pc = "metadata" /\ pc' = "finished"
    BY <1>9 DEF Finish, Go
  <2> QED
    BY <1>0, <2>1 DEF RowsCounted
<1>10. CASE WriteFails
  <2>1. UNCHANGED <<options, taken, sheet>> /\ pc' = "failed" /\ error' = "io"
    BY <1>10 DEF WriteFails, Throw
  <2> QED
    BY <2>1 DEF RowsCounted
<1>11. CASE DestroyWriter
  <2>1. /\ UNCHANGED <<options, taken, sheet, error>> /\ pc \in {"finished", "failed"}
        /\ pc' = IF pc = "finished" THEN "done" ELSE "left"
    BY <1>11 DEF DestroyWriter
  <2> QED
    BY <1>0, <2>1 DEF RowsCounted
<1>12. CASE DestroyWriterFails
  <2>1. UNCHANGED <<options, taken, sheet>> /\ pc' = "left" /\ error' = "io"
    BY <1>12 DEF DestroyWriterFails
  <2> QED
    BY <2>1 DEF RowsCounted
<1>13. CASE UNCHANGED vars
  BY <1>0, <1>13 DEF vars, RowsCounted
<1> QED
  BY <1>1, <1>2, <1>3, <1>4, <1>5, <1>6, <1>7, <1>8, <1>9, <1>10, <1>11, <1>12, <1>13
  DEF Next, Statement

(* The entries in order.  A statement adds the part that is next, or it      *)
(* finishes the last one, or it leaves the entries alone.                    *)
InOrder ==
    /\ Len(entries) <= Len(Parts(options))
    /\ \A k \in DOMAIN entries : /\ entries[k].name = Parts(options)[k]
                                 /\ k < Len(entries) => entries[k].whole

LEMMA PartAdded ==
    ASSUME TypeOK, InOrder, AllWhole, UNCHANGED options,
           Len(entries) + 1 <= Len(Parts(options)),
           NEW b \in BOOLEAN, NEW name \in EntryNames, name = Parts(options)[Len(entries) + 1],
           entries' = Append(entries, [name |-> name, whole |-> b])
    PROVE  /\ InOrder' /\ Len(entries) \in Nat /\ Len(entries') = Len(entries) + 1
           /\ b => AllWhole'
           /\ entries'[Len(entries) + 1].whole = b
<1>1. PICK n \in Nat : n = Len(entries)
  BY LenProperties DEF TypeOK
<1>2. /\ Len(entries') = n + 1 /\ DOMAIN entries' = 1 .. n + 1 /\ DOMAIN entries = 1 .. n
      /\ \A k \in 1 .. n : entries'[k] = entries[k]
      /\ entries'[n + 1] = [name |-> name, whole |-> b]
  BY <1>1, EntryAppended
<1>3. \A k \in 1 .. n + 1 : k \in 1 .. n \/ k = n + 1
  BY <1>1
<1>4. \A k \in 1 .. n : entries'[k].name = Parts(options)[k] /\ entries'[k].whole
  <2>0. \A k \in DOMAIN entries : entries[k].name = Parts(options)[k]
    BY Zenon DEF InOrder
  <2>1. \A k \in 1 .. n : entries[k].name = Parts(options)[k]
    BY <1>2, <2>0
  <2>2. \A k \in 1 .. n : entries[k].whole
    BY <1>2 DEF AllWhole
  <2> QED
    BY <1>2, <2>1, <2>2
<1>5. entries'[n + 1].name = Parts(options)[n + 1] /\ entries'[n + 1].whole = b
  BY <1>1, <1>2
<1>6. ~(n + 1 < n + 1)
  BY <1>1
<1>7. InOrder'
  BY <1>1, <1>2, <1>3, <1>4, <1>5, <1>6 DEF InOrder
<1>8. b => AllWhole'
  BY <1>2, <1>3, <1>4, <1>5 DEF AllWhole
<1> QED
  BY <1>1, <1>2, <1>5, <1>7, <1>8

LEMMA PartFinished ==
    ASSUME TypeOK, InOrder, UNCHANGED options, Len(entries) >= 1,
           entries' = [entries EXCEPT ![Len(entries)].whole = TRUE]
    PROVE  InOrder' /\ AllWhole' /\ Len(entries) \in Nat /\ Len(entries') = Len(entries)
<1>1. PICK n \in Nat : n = Len(entries)
  BY LenProperties DEF TypeOK
<1>2. /\ Len(entries') = n /\ DOMAIN entries' = 1 .. n /\ DOMAIN entries = 1 .. n
      /\ \A k \in 1 .. n : /\ entries'[k].name = entries[k].name
                           /\ k # n => entries'[k] = entries[k]
                           /\ k = n => entries'[k].whole = TRUE
  BY <1>1, EntryFinished
<1>3. \A k \in 1 .. n : entries'[k].name = Parts(options)[k] /\ entries'[k].whole
  <2> SUFFICES ASSUME NEW k \in 1 .. n
               PROVE  entries'[k].name = Parts(options)[k] /\ entries'[k].whole
    OBVIOUS
  <2>1. entries'[k].name = Parts(options)[k]
    <3>0. \A i \in DOMAIN entries : entries[i].name = Parts(options)[i]
      BY Zenon DEF InOrder
    <3>1. entries[k].name = Parts(options)[k]
      BY <1>2, <3>0
    <3> QED
      BY <1>2, <3>1
  <2>2. CASE k = n
    BY <1>2, <2>1, <2>2
  <2>3. CASE k # n
    <3>1. k < n
      BY <2>3
    <3> QED
      BY <1>1, <1>2, <2>1, <2>3, <3>1 DEF InOrder
  <2> QED
    BY <2>2, <2>3
<1>4. InOrder'
  BY <1>1, <1>2, <1>3 DEF InOrder
<1>5. AllWhole'
  BY <1>2, <1>3 DEF AllWhole
<1> QED
  BY <1>1, <1>2, <1>4, <1>5

LEMMA EntriesStep == SinkInv /\ [Next]_vars => EntriesInOrder'
<1> SUFFICES ASSUME SinkInv, [Next]_vars PROVE EntriesInOrder'
  OBVIOUS
<1> USE DEF SinkInv
<1>a. PICK n \in Nat, m \in Nat, l \in Nat, t \in Nat :
         n = Len(entries) /\ m = Len(Kept(options)) /\ l = Len(Metadata(options)) /\ t = Len(todo)
  BY PartsShape, LenProperties DEF TypeOK
<1>b. /\ Len(Parts(options)) = m + 1 + l /\ OwnIx = m + 1
      /\ \A i \in 1 .. m : Parts(options)[i] = Kept(options)[i]
      /\ Parts(options)[m + 1] = OwnSheet(options)
      /\ \A i \in 1 .. l : Parts(options)[m + 1 + i] = Metadata(options)[i]
  BY <1>a, PartsShape DEF TypeOK, OwnIx
<1>c. InOrder /\ n <= m + 1 + l
  BY <1>a, <1>b DEF InOrder, EntriesInOrder
<1>d. ASSUME UNCHANGED options
      PROVE  Parts(options)' = Parts(options) /\ OwnIx' = OwnIx /\ Kept(options)' = Kept(options)
  BY <1>d DEF OwnIx
<1>e. ASSUME UNCHANGED <<options, entries>> PROVE InOrder' /\ (AllWhole' <=> AllWhole)
  BY <1>c, <1>d, <1>e DEF InOrder, AllWhole
<1>1. CASE Bind
  <2>1. UNCHANGED <<options, entries, open>> /\ open = NoEntry /\ entries = << >> /\ n = 0
    BY <1>1, <1>a DEF Bind, zip, EntriesInOrder
  <2>2. CASE pc' = "refused"
    BY <1>e, <2>1, <2>2 DEF EntriesInOrder, InOrder
  <2>3. CASE pc' = "copy" /\ ~Refused(options)
    <3>1. todo' = Kept(options)
      BY <1>1, <2>3 DEF Bind, Kept
    <3>2. DOMAIN todo' = 1 .. m
      BY <1>a, <3>1, PartsShape, LenProperties DEF TypeOK
    <3>3. TodoFollows(Len(entries))'
      <4>1. \A i \in 1 .. m : 0 + i = i
        OBVIOUS
      <4> QED
        BY <1>a, <1>b, <2>1, <3>1, <3>2, <4>1 DEF TodoFollows
    <3>4. AllWhole
      <4>1. DOMAIN entries = {}
        BY <2>1
      <4> QED
        BY <4>1 DEF AllWhole
    <3>5. Len(entries') + Len(todo') = Len(Kept(options))
      BY <1>a, <2>1, <3>1
    <3> QED
      BY <1>d, <1>e, <2>1, <2>3, <3>3, <3>4, <3>5 DEF EntriesInOrder, InOrder
  <2>4. pc' = "refused" \/ (pc' = "copy" /\ ~Refused(options))
    BY <1>1 DEF Bind, Go
  <2> QED
    BY <2>2, <2>3, <2>4
<1>2. CASE CopyEntry
  <2>1. /\ UNCHANGED <<options, open>> /\ pc = "copy" /\ todo # << >> /\ open = NoEntry
        /\ AllWhole /\ TodoFollows(Len(entries)) /\ n + t = m
    BY <1>2, <1>a DEF CopyEntry, EntriesInOrder
  <2>2. /\ entries' = Append(entries, [name |-> Head(todo), whole |-> TRUE])
        /\ todo' = Tail(todo) /\ UNCHANGED <<pc, error>>
    BY <1>2, <2>1 DEF CopyEntry
  <2>3. /\ Head(todo) = Parts(options)[n + 1] /\ Head(todo) \in EntryNames
        /\ t >= 1 /\ Len(Tail(todo)) = t - 1 /\ DOMAIN Tail(todo) = 1 .. t - 1
        /\ DOMAIN todo = 1 .. t
        /\ \A i \in 1 .. t - 1 : Tail(todo)[i] = todo[i + 1]
    BY <1>a, <2>1, TodoFacts, NextPart
  <2>4. n + 1 <= m + 1 + l
    BY <1>c, <2>1, <2>3
  <2>5. InOrder' /\ AllWhole' /\ Len(entries') = n + 1
    BY <1>a, <1>b, <1>c, <2>1, <2>2, <2>3, <2>4, PartAdded
  <2>6. TodoFollows(Len(entries))'
    <3>1. \A i \in 1 .. t - 1 : i + 1 \in 1 .. t /\ n + (i + 1) = (n + 1) + i
      OBVIOUS
    <3>2. \A i \in 1 .. t - 1 : Tail(todo)[i] = Parts(options)[(n + 1) + i]
      BY <1>a, <2>1, <2>3, <3>1 DEF TodoFollows
    <3> QED
      BY <1>d, <2>1, <2>2, <2>3, <2>5, <3>2 DEF TodoFollows
  <2>7. Len(entries') + Len(todo') = m
    <3>1. Len(entries') = n + 1 /\ Len(todo') = t - 1
      BY <2>2, <2>3, <2>5
    <3>2. (n + 1) + (t - 1) = m
      BY <2>1
    <3> QED
      BY <3>1, <3>2
  <2> QED
    BY <1>a, <1>d, <2>1, <2>2, <2>5, <2>6, <2>7 DEF EntriesInOrder, InOrder
<1>3. CASE BeginSheet
  <2>1. /\ UNCHANGED options /\ pc = "copy" /\ todo = << >> /\ open = NoEntry
        /\ AllWhole /\ n = m
    BY <1>3, <1>a DEF BeginSheet, EntriesInOrder
  <2>2. /\ entries' = Append(entries, [name |-> OwnSheet(options), whole |-> FALSE])
        /\ open' = OwnSheet(options) /\ pc' = "header"
    BY <1>3, <2>1 DEF BeginSheet, BeginFile, Go
  <2>3. OwnSheet(options) \in EntryNames /\ OwnSheet(options) # NoEntry
    BY DEF OwnSheet, EntryNames, Written, NoEntry
  <2>4. n + 1 <= m + 1 + l
    BY <2>1
  <2>5. InOrder' /\ Len(entries') = n + 1 /\ ~entries'[n + 1].whole
    BY <1>a, <1>b, <1>c, <2>1, <2>2, <2>3, <2>4, PartAdded
  <2> QED
    BY <1>b, <1>d, <2>1, <2>2, <2>3, <2>5 DEF EntriesInOrder, InOrder
<1>4. CASE WriteHeader
  <2>1. UNCHANGED <<options, entries, open, todo>> /\ pc = "header"
    BY <1>4 DEF WriteHeader, zip
  <2>2. pc' \in {"failed", "sink"}
    BY <1>4 DEF WriteHeader, Throw, Go
  <2> QED
    BY <1>d, <1>e, <2>1, <2>2 DEF EntriesInOrder, InOrder
<1>5. ASSUME NEW chunk \in Chunks(types), Sink(chunk) PROVE EntriesInOrder'
  <2>1. UNCHANGED <<options, entries, open, todo>> /\ pc = "sink"
    BY <1>5 DEF Sink, zip
  <2>2. pc' \in {"failed", "sink"}
    BY <1>5, <2>1, SinkFacts
  <2> QED
    BY <1>d, <1>e, <2>1, <2>2 DEF EntriesInOrder, InOrder
<1>6. CASE EndSheet
  <2>1. /\ UNCHANGED options /\ pc = "sink" /\ open # NoEntry /\ n = m + 1
        /\ todo' = Metadata(options)
    BY <1>6, <1>a, <1>b DEF EndSheet, EntriesInOrder
  <2>2. /\ entries' = [entries EXCEPT ![Len(entries)].whole = TRUE]
        /\ open' = NoEntry /\ pc' = "metadata"
    BY <1>6, <2>1 DEF EndSheet, EndFile, Go
  <2>3. n >= 1
    BY <2>1
  <2>4. InOrder' /\ AllWhole' /\ Len(entries') = n
    BY <1>a, <1>c, <2>1, <2>2, <2>3, PartFinished
  <2>5. DOMAIN todo' = 1 .. l /\ Len(todo') = l
    BY <1>a, <2>1, PartsShape, LenProperties DEF TypeOK
  <2>6. TodoFollows(Len(entries))'
    BY <1>b, <1>d, <2>1, <2>4, <2>5 DEF TodoFollows
  <2>7. Len(entries') + Len(todo') = m + 1 + l /\ Len(entries') >= m + 1
    BY <2>1, <2>4, <2>5
  <2> QED
    BY <1>b, <1>d, <2>1, <2>2, <2>4, <2>6, <2>7 DEF EntriesInOrder, InOrder
<1>7. CASE BeginPart
  <2>1. /\ UNCHANGED <<options, todo>> /\ pc = "metadata" /\ todo # << >> /\ open = NoEntry
        /\ AllWhole /\ TodoFollows(Len(entries)) /\ n + t = m + 1 + l /\ n >= m + 1
    BY <1>7, <1>a, <1>b DEF BeginPart, EntriesInOrder
  <2>2. /\ entries' = Append(entries, [name |-> Head(todo), whole |-> FALSE])
        /\ open' = Head(todo) /\ pc' = "part"
    BY <1>7, <2>1 DEF BeginPart, BeginFile, Go
  <2>3. /\ Head(todo) = Parts(options)[n + 1] /\ Head(todo) \in EntryNames
        /\ Head(todo) # NoEntry /\ t >= 1
    BY <1>a, <2>1, TodoFacts, NextPart
  <2>4. n + 1 <= m + 1 + l
    BY <2>1, <2>3
  <2>5. InOrder' /\ Len(entries') = n + 1
    BY <1>a, <1>b, <1>c, <2>1, <2>2, <2>3, <2>4, PartAdded
  <2>6. TodoFollows(Len(entries) - 1)'
    <3>1. (n + 1) - 1 = n
      OBVIOUS
    <3> QED
      BY <1>a, <1>d, <2>1, <2>5, <3>1 DEF TodoFollows
  <2>7. Len(entries') + Len(todo') = (m + 1 + l) + 1 /\ Len(entries') >= m + 1
    BY <1>a, <2>1, <2>5
  <2> QED
    BY <1>b, <1>d, <2>1, <2>2, <2>3, <2>5, <2>6, <2>7 DEF EntriesInOrder, InOrder
<1>8. CASE EndPart
  <2>1. /\ UNCHANGED options /\ pc = "part" /\ todo # << >> /\ open # NoEntry
        /\ TodoFollows(Len(entries) - 1) /\ n + t = (m + 1 + l) + 1 /\ n >= m + 1
        /\ todo' = Tail(todo)
    BY <1>8, <1>a, <1>b DEF EndPart, EntriesInOrder
  <2>2. /\ entries' = [entries EXCEPT ![Len(entries)].whole = TRUE]
        /\ open' = NoEntry /\ pc' = "metadata"
    BY <1>8, <2>1 DEF EndPart, EndFile, Go
  <2>3. n >= 1
    BY <2>1
  <2>4. InOrder' /\ AllWhole' /\ Len(entries') = n
    BY <1>a, <1>c, <2>1, <2>2, <2>3, PartFinished
  <2>5. /\ t >= 1 /\ Len(Tail(todo)) = t - 1 /\ DOMAIN Tail(todo) = 1 .. t - 1
        /\ DOMAIN todo = 1 .. t
        /\ \A i \in 1 .. t - 1 : Tail(todo)[i] = todo[i + 1]
    BY <1>a, <2>1, TodoFacts
  <2>6. TodoFollows(Len(entries))'
    <3>1. \A i \in 1 .. t - 1 : i + 1 \in 1 .. t /\ (n - 1) + (i + 1) = n + i
      OBVIOUS
    <3>2. \A i \in 1 .. t - 1 : Tail(todo)[i] = Parts(options)[n + i]
      BY <1>a, <2>1, <2>5, <3>1 DEF TodoFollows
    <3> QED
      BY <1>d, <2>1, <2>4, <2>5, <3>2 DEF TodoFollows
  <2>7. Len(entries') + Len(todo') = m + 1 + l
    BY <2>1, <2>4, <2>5
  <2> QED
    BY <1>b, <1>d, <2>1, <2>2, <2>4, <2>6, <2>7 DEF EntriesInOrder, InOrder
<1>9. CASE Finish
  <2>1. /\ UNCHANGED <<options, entries, open, todo>> /\ pc = "metadata" /\ pc' = "finished"
        /\ todo = << >>
    BY <1>9 DEF Finish, zip, Go
  <2>2. t = 0
    BY <1>a, <2>1
  <2>3. n = m + 1 + l /\ AllWhole
    BY <1>a, <1>b, <2>1, <2>2 DEF EntriesInOrder
  <2> QED
    BY <1>a, <1>b, <1>d, <1>e, <2>1, <2>3 DEF EntriesInOrder, InOrder
<1>10. CASE WriteFails
  <2>1. UNCHANGED <<options, open, todo>> /\ pc' = "failed"
    BY <1>10 DEF WriteFails, Throw
  <2>2. CASE UNCHANGED entries
    BY <1>e, <2>1, <2>2 DEF EntriesInOrder, InOrder
  <2>3. CASE /\ pc = "copy" /\ todo # << >>
             /\ entries' = Append(entries, [name |-> Head(todo), whole |-> FALSE])
    <3>1. /\ Head(todo) = Parts(options)[n + 1] /\ Head(todo) \in EntryNames /\ t >= 1
      BY <1>a, <2>3, TodoFacts, NextPart
    <3>2. AllWhole /\ n + t = m
      BY <1>a, <2>3 DEF EntriesInOrder
    <3>3. n + 1 <= m + 1 + l
      BY <3>1, <3>2
    <3>4. InOrder'
      BY <1>a, <1>b, <1>c, <2>1, <2>3, <3>1, <3>2, <3>3, PartAdded
    <3> QED
      BY <2>1, <3>4 DEF EntriesInOrder, InOrder
  <2> QED
    BY <1>10, <2>2, <2>3 DEF WriteFails
<1>11. CASE DestroyWriter
  <2>1. /\ UNCHANGED <<options, entries, todo>> /\ pc \in {"finished", "failed"}
        /\ pc' = IF pc = "finished" THEN "done" ELSE "left"
    BY <1>11 DEF DestroyWriter
  <2> QED
    BY <1>d, <1>e, <2>1 DEF EntriesInOrder, InOrder
<1>12. CASE DestroyWriterFails
  <2>1. UNCHANGED <<options, entries, todo>> /\ pc' = "left"
    BY <1>12 DEF DestroyWriterFails, zip
  <2> QED
    BY <1>e, <2>1 DEF EntriesInOrder, InOrder
<1>13. CASE UNCHANGED vars
  BY <1>d, <1>e, <1>13 DEF vars, EntriesInOrder, InOrder, TodoFollows
<1> QED
  BY <1>1, <1>2, <1>3, <1>4, <1>5, <1>6, <1>7, <1>8, <1>9, <1>10, <1>11, <1>12, <1>13
  DEF Next, Statement

(* The sheet's entry.  As long as the statement runs, the other parts of the *)
(* invariant tell; then it is as whole as it was when the error came.        *)
LEMMA SheetDoneStep == SinkInv /\ [Next]_vars => SheetDone'
<1> SUFFICES ASSUME SinkInv, [Next]_vars,
                    Len(entries') >= OwnIx', entries'[OwnIx'].whole
             PROVE  error' # "limit" /\ Len(sheet') = Given'
  BY DEF SheetDone
<1> USE DEF SinkInv
<1>1. TypeOK' /\ ErrorsEnd' /\ RowsCounted' /\ EntriesInOrder'
  BY TypeStep, ErrorsStep, RowsStep, EntriesStep
<1>2. PICK n \in Nat, m \in Nat, t \in Nat :
         /\ n = Len(entries') /\ m = Len(Kept(options')) /\ t = Len(todo')
         /\ OwnIx' = m + 1 /\ n >= m + 1
  <2>1. options' \in Options /\ entries' \in Seq([name : EntryNames, whole : BOOLEAN])
        /\ todo' \in Seq(EntryNames)
    BY <1>1 DEF TypeOK
  <2>2. Len(Kept(options')) \in Nat /\ Len(entries') \in Nat /\ Len(todo') \in Nat
    BY <2>1, PartsShape, LenProperties
  <2> QED
    BY <2>2 DEF OwnIx
<1>3. CASE pc' \in {"metadata", "part", "finished", "done"}
  <2>1. error' = "none"
    BY <1>1, <1>3 DEF ErrorsEnd
  <2> QED
    BY <1>1, <1>3, <2>1 DEF RowsCounted
<1>4. CASE pc' \in {"bind", "copy", "header", "sink"}
  <2>1. CASE pc' = "bind"
    <3>1. entries' = << >>
      BY <1>1, <2>1 DEF EntriesInOrder
    <3> QED
      BY <1>2, <3>1
  <2>2. CASE pc' = "copy"
    <3>1. n + t = m
      BY <1>1, <1>2, <2>2 DEF EntriesInOrder
    <3> QED
      BY <1>2, <3>1
  <2>3. CASE pc' \in {"header", "sink"}
    BY <1>1, <2>3 DEF EntriesInOrder
  <2> QED
    BY <1>4, <2>1, <2>2, <2>3
<1>5. CASE pc' \in {"refused", "failed", "left"}
  <2>1. CASE UNCHANGED <<options, taken, sheet, entries>> /\ error' \in {error, "io", "option", "misuse"}
    <3>1. OwnIx' = OwnIx /\ Given' = Given
      BY <2>1 DEF OwnIx, Given, Names
    <3>2. Len(entries) >= OwnIx /\ entries[OwnIx].whole
      BY <2>1, <3>1
    <3>3. error # "limit" /\ Len(sheet) = Given
      BY <3>2 DEF SheetDone
    <3> QED
      BY <2>1, <3>1, <3>3
  <2>2. CASE pc \in {"header", "sink"} /\ UNCHANGED <<options, entries>>
    <3>1. OwnIx' = OwnIx
      BY <2>2 DEF OwnIx
    <3> QED
      BY <2>2, <3>1 DEF EntriesInOrder
  <2>3. CASE WriteFails /\ ~UNCHANGED entries
    <3>1. /\ pc = "copy" /\ todo # << >> /\ UNCHANGED options
          /\ entries' = Append(entries, [name |-> Head(todo), whole |-> FALSE])
      BY <2>3 DEF WriteFails
    <3>2. Head(todo) \in EntryNames /\ Len(todo) \in Nat /\ Len(todo) >= 1
      BY <3>1, TodoFacts
    <3>3. Len(entries) \in Nat /\ Len(entries') = Len(entries) + 1
      BY <3>1, <3>2, EntryAppended
    <3>4. Len(entries) + Len(todo) = m
      BY <1>2, <3>1 DEF EntriesInOrder
    <3> QED
      BY <1>2, <3>2, <3>3, <3>4
  <2>4. CASE Bind
    BY <2>1, <2>4 DEF Bind, Go, zip
  <2>5. CASE CopyEntry
    <3>1. pc = "copy" /\ open = NoEntry
      BY <2>5 DEF CopyEntry, EntriesInOrder
    <3>2. pc' = "copy"
      BY <2>5, <3>1 DEF CopyEntry
    <3> QED
      BY <1>5, <3>2
  <2>6. CASE BeginSheet
    <3>1. pc = "copy" /\ open = NoEntry
      BY <2>6 DEF BeginSheet, EntriesInOrder
    <3>2. pc' = "header"
      BY <2>6, <3>1 DEF BeginSheet, BeginFile, Go
    <3> QED
      BY <1>5, <3>2
  <2>7. CASE WriteHeader
    BY <2>2, <2>7 DEF WriteHeader, zip
  <2>8. CASE \E chunk \in Chunks(types) : Sink(chunk)
    BY <2>2, <2>8 DEF Sink, zip
  <2>9. CASE EndSheet \/ EndPart
    <3>1. open # NoEntry
      BY <2>9 DEF EndSheet, EndPart, EntriesInOrder
    <3>2. pc' = "metadata"
      BY <2>9, <3>1 DEF EndSheet, EndPart, EndFile, Go
    <3> QED
      BY <1>5, <3>2
  <2>10. CASE BeginPart
    <3>1. open = NoEntry
      BY <2>10 DEF BeginPart, EntriesInOrder
    <3>2. pc' = "part"
      BY <2>10, <3>1 DEF BeginPart, BeginFile, Go
    <3> QED
      BY <1>5, <3>2
  <2>11. CASE Finish
    BY <1>5, <2>11 DEF Finish, Go
  <2>12. CASE WriteFails /\ UNCHANGED entries
    BY <2>1, <2>12 DEF WriteFails, Throw
  <2>13. CASE DestroyWriter
    BY <2>1, <2>13 DEF DestroyWriter
  <2>14. CASE DestroyWriterFails
    BY <2>1, <2>14 DEF DestroyWriterFails, zip
  <2>15. CASE UNCHANGED vars
    BY <2>1, <2>15 DEF vars
  <2> QED
    BY <2>3, <2>4, <2>5, <2>6, <2>7, <2>8, <2>9, <2>10, <2>11, <2>12, <2>13, <2>14, <2>15
    DEF Next, Statement
<1> QED
  BY <1>1, <1>3, <1>4, <1>5 DEF TypeOK

-----------------------------------------------------------------------------
(* The n-th row of the table is one row of one chunk.                        *)
LEMMA PrefixGrows ==
    ASSUME NEW C, NEW s \in Seq(C), NEW k \in Nat, k + 1 <= Len(s)
    PROVE  SubSeq(s, 1, k + 1) = Append(SubSeq(s, 1, k), s[k + 1])
<1>1. PICK m \in Nat : m = Len(s)
  BY LenProperties
<1> DEFINE p == SubSeq(s, 1, k)
           q == SubSeq(s, 1, k + 1)
<1>2. p \in Seq(C) /\ Len(p) = k /\ \A i \in 1 .. k : p[i] = s[i]
  <2>1. k <= m
    BY <1>1
  <2> QED
    BY <1>1, <2>1
<1>3. q \in Seq(C) /\ Len(q) = k + 1 /\ \A i \in 1 .. k + 1 : q[i] = s[i]
  BY <1>1
<1>4. s[k + 1] \in C
  <2>1. k + 1 \in 1 .. m
    BY <1>1
  <2> QED
    BY <1>1, <2>1, ElementOfSeq
<1> HIDE DEF p, q
<1>5. /\ Append(p, s[k + 1]) \in Seq(C) /\ Len(Append(p, s[k + 1])) = k + 1
      /\ \A i \in 1 .. k : Append(p, s[k + 1])[i] = p[i]
      /\ Append(p, s[k + 1])[k + 1] = s[k + 1]
  BY <1>2, <1>4, AppendProperties
<1>6. \A i \in 1 .. k + 1 : i \in 1 .. k \/ i = k + 1
  OBVIOUS
<1>7. \A i \in 1 .. k + 1 : Append(p, s[k + 1])[i] = q[i]
  BY <1>2, <1>3, <1>5, <1>6
<1>8. q = Append(p, s[k + 1])
  BY <1>3, <1>5, <1>7, SeqEqual
<1> QED
  BY <1>8 DEF p, q

LEMMA RowsOfPrefix ==
    ASSUME NEW C, \A c \in C : Rows(c) \in Nat, NEW s \in Seq(C)
    PROVE  \E h \in [0 .. Len(s) -> Nat] :
              /\ \A k \in 0 .. Len(s) : RowsOf(SubSeq(s, 1, k)) = h[k]
              /\ h[0] = 0 /\ \A k \in 1 .. Len(s) : h[k] = h[k - 1] + Rows(s[k])
              /\ RowsOf(s) = h[Len(s)]
              /\ \A j, k \in 0 .. Len(s) : j <= k => h[j] <= h[k]
<1>1. PICK m \in Nat : m = Len(s) /\ DOMAIN s = 1 .. m /\ \A k \in 1 .. m : s[k] \in C
  BY LenProperties, ElementOfSeq
<1>2. PICK h \in [0 .. m -> Nat] :
         h[0] = 0 /\ (\A k \in 1 .. m : h[k] = h[k - 1] + Rows(s[k])) /\ RowsOf(s) = h[m]
  BY <1>1, RowsOfSteps
<1> DEFINE G == {k \in Nat : k <= m => RowsOf(SubSeq(s, 1, k)) = h[k]}
<1>3. 0 \in G
  <2>1. SubSeq(s, 1, 0) = << >>
    OBVIOUS
  <2> QED
    BY <1>2, <2>1, RowsOfFacts
<1>4. ASSUME NEW k \in Nat, k \in G PROVE k + 1 \in G
  <2> SUFFICES ASSUME k + 1 <= m PROVE RowsOf(SubSeq(s, 1, k + 1)) = h[k + 1]
    OBVIOUS
  <2>1. k + 1 \in 1 .. m /\ (k + 1) - 1 = k /\ k <= m
    OBVIOUS
  <2>2. SubSeq(s, 1, k) \in Seq(C)
    BY <1>1, <2>1, SubSeqProperties
  <2>3. SubSeq(s, 1, k + 1) = Append(SubSeq(s, 1, k), s[k + 1])
    BY <1>1, <2>1, PrefixGrows
  <2>4. RowsOf(SubSeq(s, 1, k + 1)) = RowsOf(SubSeq(s, 1, k)) + Rows(s[k + 1])
    BY <1>1, <2>1, <2>2, <2>3, RowsOfFacts
  <2> QED
    BY <1>2, <1>4, <2>1, <2>4
<1>5. \A k \in 0 .. m : RowsOf(SubSeq(s, 1, k)) = h[k]
  <2> HIDE DEF G
  <2>1. Nat \subseteq G
    BY <1>3, <1>4, NaturalInduction
  <2> QED
    BY <2>1 DEF G
<1>6. ASSUME NEW j \in 0 .. m PROVE \A k \in 0 .. m : j <= k => h[j] <= h[k]
  <2> DEFINE H == {d \in Nat : j + d <= m => h[j] <= h[j + d]}
  <2>1. 0 \in H
    BY <1>2
  <2>2. ASSUME NEW d \in Nat, d \in H PROVE d + 1 \in H
    <3> SUFFICES ASSUME j + (d + 1) <= m PROVE h[j] <= h[j + (d + 1)]
      OBVIOUS
    <3>1. j + (d + 1) \in 1 .. m /\ (j + (d + 1)) - 1 = j + d /\ j + d \in 0 .. m
      OBVIOUS
    <3>2. h[j + (d + 1)] = h[j + d] + Rows(s[j + (d + 1)]) /\ Rows(s[j + (d + 1)]) \in Nat
      BY <1>1, <1>2, <3>1
    <3> QED
      BY <1>2, <2>2, <3>1, <3>2
  <2>3. Nat \subseteq H
    <3> HIDE DEF H
    <3> QED
      BY <2>1, <2>2, NaturalInduction
  <2>4. ASSUME NEW k \in 0 .. m, j <= k PROVE h[j] <= h[k]
    <3>1. k - j \in Nat /\ j + (k - j) = k
      BY <2>4
    <3> QED
      BY <2>3, <3>1
  <2> QED
    BY <2>4
<1> QED
  BY <1>1, <1>2, <1>5, <1>6

LEMMA TableRowFacts ==
    ASSUME NEW C, \A c \in C : Rows(c) \in Nat, NEW s \in Seq(C)
    PROVE  /\ \A k \in 1 .. Len(s) : \A i \in 1 .. Rows(s[k]) :
                 TableRow(s, RowsOf(SubSeq(s, 1, k - 1)) + i) = <<k, i>>
           /\ \A n \in 1 .. RowsOf(s) : \E k \in 1 .. Len(s) : \E i \in 1 .. Rows(s[k]) :
                 n = RowsOf(SubSeq(s, 1, k - 1)) + i
<1>1. PICK m \in Nat : m = Len(s) /\ DOMAIN s = 1 .. m /\ \A k \in 1 .. m : Rows(s[k]) \in Nat
  BY LenProperties, ElementOfSeq
<1>2. PICK h \in [0 .. m -> Nat] :
         /\ \A k \in 0 .. m : RowsOf(SubSeq(s, 1, k)) = h[k]
         /\ h[0] = 0 /\ \A k \in 1 .. m : h[k] = h[k - 1] + Rows(s[k])
         /\ RowsOf(s) = h[m]
         /\ \A j, k \in 0 .. m : j <= k => h[j] <= h[k]
  BY <1>1, RowsOfPrefix
<1>3. \A k \in 1 .. m : k - 1 \in 0 .. m /\ k \in 0 .. m /\ RowsOf(SubSeq(s, 1, k - 1)) = h[k - 1]
  <2>1. \A k \in 1 .. m : k - 1 \in 0 .. m /\ k \in 0 .. m
    OBVIOUS
  <2> QED
    BY <1>2, <2>1
<1>4. ASSUME NEW k \in 1 .. m, NEW i \in 1 .. Rows(s[k])
      PROVE  TableRow(s, RowsOf(SubSeq(s, 1, k - 1)) + i) = <<k, i>>
  <2> DEFINE n == h[k - 1] + i
             In(j) == RowsOf(SubSeq(s, 1, j - 1)) < n
                        /\ n <= RowsOf(SubSeq(s, 1, j - 1)) + Rows(s[j])
  <2>1. n \in Nat /\ h[k - 1] \in Nat /\ i \in Nat /\ h[k - 1] < n /\ n <= h[k]
    <3>1. h[k - 1] \in Nat /\ Rows(s[k]) \in Nat /\ h[k] = h[k - 1] + Rows(s[k])
      BY <1>1, <1>2, <1>3
    <3> QED
      BY <3>1
  <2>2. \A j \in 1 .. m : In(j) <=> h[j - 1] < n /\ n <= h[j]
    BY <1>1, <1>2, <1>3
  <2>3. In(k)
    BY <2>1, <2>2
  <2>4. ASSUME NEW j \in 1 .. m, In(j) PROVE j = k
    <3>1. h[j - 1] < n /\ n <= h[j] /\ h[j] \in Nat /\ h[j - 1] \in Nat /\ h[k] \in Nat
      BY <1>2, <1>3, <2>2, <2>4
    <3>2. CASE j < k
      <4>1. j <= k - 1 /\ j \in 0 .. m /\ k - 1 \in 0 .. m
        BY <3>2
      <4>2. h[j] <= h[k - 1]
        BY <1>2, <4>1
      <4> QED
        BY <2>1, <3>1, <4>2
    <3>3. CASE k < j
      <4>1. k <= j - 1 /\ k \in 0 .. m /\ j - 1 \in 0 .. m
        BY <3>3
      <4>2. h[k] <= h[j - 1]
        BY <1>2, <4>1
      <4> QED
        BY <2>1, <3>1, <4>2
    <3> QED
      BY <3>2, <3>3
  <2> HIDE DEF In
  <2>5. (CHOOSE j \in 1 .. m : In(j)) = k
    BY <2>3, <2>4
  <2> HIDE DEF n
  <2>6. TableRow(s, n) = <<k, n - RowsOf(SubSeq(s, 1, k - 1))>>
    BY <1>1, <2>5 DEF TableRow, In
  <2>7. n - h[k - 1] = i /\ n = RowsOf(SubSeq(s, 1, k - 1)) + i
    BY <1>3, <2>1 DEF n
  <2> QED
    BY <1>3, <2>6, <2>7
<1>5. ASSUME NEW n \in 1 .. RowsOf(s)
      PROVE  \E k \in 1 .. m : \E i \in 1 .. Rows(s[k]) : n = RowsOf(SubSeq(s, 1, k - 1)) + i
  <2> DEFINE K == {k \in Nat : k <= m /\ n <= h[k]}
  <2>1. m \in K
    BY <1>2
  <2>2. PICK k \in K : \A j \in K : k <= j
    <3>1. K \in SUBSET Nat /\ K # {}
      BY <2>1
    <3> HIDE DEF K
    <3> QED
      BY <3>1, LeastExists
  <2>3. k # 0
    BY <1>2, <2>2
  <2>4. k \in 1 .. m /\ n <= h[k]
    BY <2>2, <2>3
  <2>5. ~(n <= h[k - 1])
    <3>1. k - 1 \in Nat /\ k - 1 <= m /\ ~(k <= k - 1)
      BY <2>4
    <3> QED
      BY <2>2, <3>1
  <2>6. h[k - 1] \in Nat /\ h[k] = h[k - 1] + Rows(s[k]) /\ Rows(s[k]) \in Nat
    BY <1>1, <1>2, <1>3, <2>4
  <2>7. RowsOf(s) \in Nat
    BY <1>2
  <2>8. n - h[k - 1] \in 1 .. Rows(s[k]) /\ n = h[k - 1] + (n - h[k - 1])
    BY <2>4, <2>5, <2>6, <2>7
  <2> QED
    BY <1>3, <2>4, <2>8
<1> QED
  BY <1>1, <1>4, <1>5

(* Every row of the sheet is the one that Sink makes.                        *)
LEMMA SunkStep == SinkInv /\ [Next]_vars => RowsAreSunk'
<1> SUFFICES ASSUME SinkInv, [Next]_vars PROVE RowsAreSunk'
  OBVIOUS
<1> USE DEF SinkInv
<1>1. CASE UNCHANGED <<options, types, taken, sheet>>
  <2>1. Names' = Names /\ HeaderRow' = HeaderRow
    BY <1>1 DEF Names, HeaderRow
  <2>2. ASSUME NEW chunk, NEW i, NEW n
        PROVE  SinkRow(chunk, Marks(chunk), i, n)' = SinkRow(chunk, Marks(chunk), i, n)
    BY <1>1 DEF SinkRow, Marks
  <2> QED
    BY <1>1, <2>1, <2>2 DEF RowsAreSunk
<1>2. CASE WriteHeader
  <2>1. UNCHANGED <<options, types, taken>> /\ sheet = << >>
    BY <1>2 DEF WriteHeader, RowsCounted
  <2>2. CASE ~Header(options)
    <3>1. UNCHANGED sheet
      BY <1>2, <2>2 DEF WriteHeader
    <3> QED
      BY <1>1, <2>1, <3>1
  <2>3. CASE Header(options)
    <3>1. sheet' = <<HeaderRow>> /\ HeaderRow' = HeaderRow
      BY <1>2, <2>1, <2>3 DEF WriteHeader, HeaderRow
    <3>2. \A n \in DOMAIN sheet' : n = 1 /\ sheet'[n] = HeaderRow
      BY <3>1
    <3> QED
      BY <2>1, <2>3, <3>1, <3>2 DEF RowsAreSunk
  <2> QED
    BY <2>2, <2>3
<1>3. ASSUME NEW chunk \in Chunks(types), Sink(chunk) PROVE RowsAreSunk'
  <2>1. /\ UNCHANGED <<options, types>> /\ taken' = Append(taken, chunk)
        /\ types \in TypeLists /\ taken \in Seq(Chunks(types)) /\ IsSequence(sheet)
    BY <1>3 DEF Sink, TypeOK
  <2>2. /\ Len(sheet) = Given /\ Names \in Nat /\ RowsOf(taken) \in Nat
        /\ Given = Names + RowsOf(taken) /\ taken' \in Seq(Chunks(types))
        /\ nulls' = Marks(chunk) /\ Rows(chunk) \in Nat
    BY <1>3, SinkFacts DEF Given
  <2>3. PICK upto \in 0 .. Rows(chunk) : sheet' = sheet \o Added(chunk, upto)
    BY <1>3, SinkFacts
  <2>4. upto \in Nat /\ IsSequence(Added(chunk, upto)) /\ Len(Added(chunk, upto)) = upto
    <3>1. upto \in Nat
      BY <2>2
    <3> QED
      BY <3>1, ListIsSequence DEF Added
  <2>5. PICK l \in Nat : l = Len(sheet)
    BY <2>1 DEF IsSequence
  <2>6. /\ DOMAIN sheet' = 1 .. l + upto /\ DOMAIN sheet = 1 .. l
        /\ \A n \in 1 .. l : sheet'[n] = sheet[n]
        /\ \A i \in 1 .. upto : sheet'[l + i] = Added(chunk, upto)[i]
    <3>1. /\ IsSequence(sheet') /\ Len(sheet') = l + upto
          /\ \A n \in 1 .. l : sheet'[n] = sheet[n]
          /\ \A i \in 1 .. upto : sheet'[l + i] = Added(chunk, upto)[i]
      <4>1. PICK a : a = Added(chunk, upto)
        OBVIOUS
      <4>2. IsSequence(a) /\ Len(a) = upto
        BY <2>4, <4>1
      <4>3. /\ IsSequence(sheet \o a) /\ Len(sheet \o a) = l + upto
            /\ \A n \in 1 .. l : (sheet \o a)[n] = sheet[n]
            /\ \A i \in 1 .. upto : (sheet \o a)[l + i] = a[i]
        <5>1. PICK b : b = sheet
          OBVIOUS
        <5>2. IsSequence(b) /\ Len(b) = l
          BY <2>1, <2>5, <5>1
        <5>3. IsSequence(b \o a) /\ Len(b \o a) = Len(b) + Len(a)
          BY <4>2, <5>2, Concatenated
        <5>4. \A i \in 1 .. Len(b) : (b \o a)[i] = b[i]
          BY <4>2, <5>2, Concatenated
        <5>5. \A i \in 1 .. Len(a) : (b \o a)[Len(b) + i] = a[i]
          BY <4>2, <5>2, Concatenated
        <5>6. /\ IsSequence(b \o a) /\ Len(b \o a) = l + upto
              /\ \A i \in 1 .. l : (b \o a)[i] = b[i]
              /\ \A i \in 1 .. upto : (b \o a)[l + i] = a[i]
          BY <4>2, <5>2, <5>3, <5>4, <5>5
        <5> QED
          BY <5>1, <5>6
      <4> QED
        BY <2>3, <4>1, <4>3
    <3>2. DOMAIN sheet' = 1 .. l + upto /\ DOMAIN sheet = 1 .. l
      BY <2>1, <2>5, <3>1 DEF IsSequence
    <3> QED
      BY <3>1, <3>2
  <2>7. Names' = Names /\ HeaderRow' = HeaderRow /\ Header(options)' = Header(options)
    BY <2>1 DEF Names, HeaderRow
  <2>8. ASSUME NEW c, NEW i, NEW n
        PROVE  SinkRow(c, Marks(c), i, n)' = SinkRow(c, Marks(c), i, n)
    BY <2>1 DEF SinkRow, Marks
  <2>9. PICK k0 \in Nat : k0 = Len(taken)
    BY <2>1, LenProperties
  <2>10. /\ Len(taken') = k0 + 1 /\ taken'[k0 + 1] = chunk /\ DOMAIN taken' = 1 .. k0 + 1
         /\ DOMAIN taken = 1 .. k0 /\ \A k \in 1 .. k0 : taken'[k] = taken[k]
    BY <2>1, <2>2, <2>9, AppendProperties, LenProperties
  <2>11. \A c \in Chunks(types) : Rows(c) \in Nat
    BY <2>1, ChunkFacts
  <2>12. \A k \in 0 .. k0 : SubSeq(taken', 1, k) = SubSeq(taken, 1, k)
    <3> SUFFICES ASSUME NEW k \in 0 .. k0 PROVE SubSeq(taken', 1, k) = SubSeq(taken, 1, k)
      OBVIOUS
    <3>1. /\ SubSeq(taken', 1, k) = [i \in 1 .. k |-> taken'[i]]
          /\ SubSeq(taken, 1, k) = [i \in 1 .. k |-> taken[i]]
      OBVIOUS
    <3>2. \A i \in 1 .. k : i \in 1 .. k0
      OBVIOUS
    <3> QED
      BY <2>10, <3>1, <3>2
  <2>13. ASSUME NEW n \in 1 .. l, ~(Header(options) /\ n = 1)
         PROVE  /\ TableRow(taken', n - Names) = TableRow(taken, n - Names)
                /\ TableRow(taken, n - Names)[1] \in 1 .. k0
    <3>1. n - Names \in 1 .. RowsOf(taken)
      <4>1. Names = IF Header(options) THEN 1 ELSE 0
        BY DEF Names
      <4>2. n - Names >= 1
        BY <2>2, <2>13, <4>1
      <4> QED
        BY <2>2, <2>5, <4>2
    <3>2. PICK k \in 1 .. k0 : \E i \in 1 .. Rows(taken[k]) :
             n - Names = RowsOf(SubSeq(taken, 1, k - 1)) + i
      BY <2>1, <2>9, <2>11, <3>1, TableRowFacts
    <3>3. PICK i \in 1 .. Rows(taken[k]) : n - Names = RowsOf(SubSeq(taken, 1, k - 1)) + i
      BY <3>2
    <3>4. TableRow(taken, n - Names) = <<k, i>>
      BY <2>1, <2>9, <2>11, <3>3, TableRowFacts
    <3>5. k \in 1 .. k0 + 1 /\ k - 1 \in 0 .. k0 /\ taken'[k] = taken[k]
      BY <2>10
    <3>6. n - Names = RowsOf(SubSeq(taken', 1, k - 1)) + i /\ i \in 1 .. Rows(taken'[k])
      BY <2>12, <3>3, <3>5
    <3>7. TableRow(taken', RowsOf(SubSeq(taken', 1, k - 1)) + i) = <<k, i>>
      BY <2>2, <2>10, <2>11, <3>5, <3>6, TableRowFacts
    <3> QED
      BY <3>4, <3>6, <3>7
  <2>14. ASSUME NEW i \in 1 .. upto
         PROVE  /\ TableRow(taken', (l + i) - Names) = <<k0 + 1, i>>
                /\ i \in 1 .. Rows(chunk) /\ ~(Header(options) /\ l + i = 1)
                /\ sheet'[l + i] = SinkRow(chunk, Marks(chunk), i, l + i)
    <3>1. i \in 1 .. Rows(chunk)
      BY <2>2, <2>4
    <3>2. SubSeq(taken, 1, k0) = taken
      <4>1. SubSeq(taken, 1, Len(taken)) = taken
        BY <2>1, SubSeqFull
      <4> QED
        BY <2>9, <4>1
    <3>3. k0 + 1 \in 1 .. k0 + 1 /\ (k0 + 1) - 1 = k0 /\ k0 \in 0 .. k0
      BY <2>9
    <3>4. RowsOf(SubSeq(taken', 1, (k0 + 1) - 1)) = RowsOf(taken)
      BY <2>12, <3>2, <3>3
    <3>5. TableRow(taken', RowsOf(SubSeq(taken', 1, (k0 + 1) - 1)) + i) = <<k0 + 1, i>>
      BY <2>2, <2>10, <2>11, <3>1, <3>3, TableRowFacts
    <3>6. (l + i) - Names = RowsOf(taken) + i
      BY <2>2, <2>5
    <3>7. ~(Header(options) /\ l + i = 1)
      BY <2>2, <2>5 DEF Names
    <3>8. sheet'[l + i] = SinkRow(chunk, nulls', i, l + i)
      BY <2>5, <2>6 DEF Added
    <3> QED
      BY <2>2, <3>1, <3>4, <3>5, <3>6, <3>7, <3>8
  <2> SUFFICES ASSUME NEW n \in 1 .. l + upto
      PROVE  IF Header(options) /\ n = 1 THEN sheet'[n] = HeaderRow
             ELSE LET at == TableRow(taken', n - Names)
                  IN  /\ at[1] \in DOMAIN taken' /\ at[2] \in 1 .. Rows(taken'[at[1]])
                      /\ sheet'[n] = SinkRow(taken'[at[1]], Marks(taken'[at[1]]), at[2], n)
    <3>1. \A n \in 1 .. l + upto :
             IF Header(options) /\ n = 1 THEN sheet'[n] = HeaderRow
             ELSE LET at == TableRow(taken', n - Names)
                  IN  /\ at[1] \in DOMAIN taken' /\ at[2] \in 1 .. Rows(taken'[at[1]])
                      /\ sheet'[n] = SinkRow(taken'[at[1]], Marks(taken'[at[1]]), at[2], n)
      OBVIOUS
    <3> QED
      BY <2>6, <2>7, <2>8, <3>1 DEF RowsAreSunk
  <2>15. CASE n \in 1 .. l
    <3>1. CASE Header(options) /\ n = 1
      BY <2>6, <2>15, <3>1 DEF RowsAreSunk
    <3>2. CASE ~(Header(options) /\ n = 1)
      <4> DEFINE at == TableRow(taken, n - Names)
      <4>1. /\ at[1] \in 1 .. k0 /\ at[2] \in 1 .. Rows(taken[at[1]])
            /\ sheet[n] = SinkRow(taken[at[1]], Marks(taken[at[1]]), at[2], n)
        BY <2>6, <2>10, <2>15, <3>2 DEF RowsAreSunk
      <4>2. TableRow(taken', n - Names) = at
        BY <2>13, <2>15, <3>2
      <4>3. at[1] \in 1 .. k0 + 1 /\ taken'[at[1]] = taken[at[1]]
        BY <2>9, <2>10, <4>1
      <4> HIDE DEF at
      <4> QED
        BY <2>6, <2>10, <2>15, <3>2, <4>1, <4>2, <4>3
    <3> QED
      BY <3>1, <3>2
  <2>16. CASE n \notin 1 .. l
    <3>1. n - l \in 1 .. upto /\ l + (n - l) = n
      BY <2>4, <2>5, <2>16
    <3>2. /\ TableRow(taken', n - Names) = <<k0 + 1, n - l>>
          /\ n - l \in 1 .. Rows(chunk) /\ ~(Header(options) /\ n = 1)
          /\ sheet'[n] = SinkRow(chunk, Marks(chunk), n - l, n)
      BY <2>14, <3>1
    <3>3. k0 + 1 \in DOMAIN taken' /\ taken'[k0 + 1] = chunk
      BY <2>9, <2>10
    <3> QED
      BY <3>2, <3>3
  <2> QED
    BY <2>15, <2>16
<1>4. CASE \E chunk \in Chunks(types) : Sink(chunk)
  BY <1>3, <1>4
<1> QED
  BY <1>1, <1>2, <1>4 DEF Next, Statement, Bind, CopyEntry, BeginSheet, EndSheet, BeginPart, EndPart,
     Finish, DestroyWriter, WriteFails, DestroyWriterFails, vars

-----------------------------------------------------------------------------
(* The invariant of every COPY: what has been written so far is the prefix   *)
(* of the parts, the rows are counted and each is the one that Sink makes.   *)
THEOREM SinkIsInvariant == Spec => []SinkInv
<1>1. SinkInv /\ [Next]_vars => SinkInv'
  BY TypeStep, ErrorsStep, RowsStep, EntriesStep, SheetDoneStep, SunkStep DEF SinkInv
<1> QED
  BY SinkInit, <1>1, PTL DEF Spec

(* ParseCopyToOptions, EndRow: for any limit, also a negative one, a COPY    *)
(* fails for its row limit if and only if it is given more rows.             *)
THEOREM RowLimitIsKept == Spec => []RowLimitHolds
<1>1. SinkInv => RowLimitHolds
  <2> SUFFICES ASSUME SinkInv PROVE RowLimitHolds
    OBVIOUS
  <2>1. error = "limit" => Exceeds(Given)
    BY DEF SinkInv, RowsCounted
  <2>2. ASSUME InTable, error = "none" PROVE ~Exceeds(Given)
    <3>1. pc \in {"sink", "metadata", "part", "finished", "done"}
      BY <2>2 DEF SinkInv, TypeOK, ErrorsEnd, InTable
    <3> QED
      BY <3>1 DEF SinkInv, RowsCounted
  <2> QED
    BY <2>1, <2>2 DEF RowLimitHolds
<1> QED
  BY SinkIsInvariant, <1>1, PTL

(* ZipFileWriter, Finish, EmitMetadata: whatever failed on the way, a file   *)
(* that can be read holds the whole table and no entry twice, and after      *)
(* success it can be read and has every part of the old workbook.            *)
THEOREM ReadableIsAlwaysComplete == Spec => []ReadableIsComplete
<1>1. SinkInv => ReadableIsComplete
  <2> SUFFICES ASSUME SinkInv PROVE ReadableIsComplete
    OBVIOUS
  <2> USE DEF SinkInv
  <2>1. PICK n \in Nat, m \in Nat, l \in Nat :
           /\ n = Len(entries) /\ m = Len(Kept(options)) /\ l = Len(Parts(options))
           /\ OwnIx = m + 1 /\ m + 1 <= l
    <3>1. /\ options \in Options /\ entries \in Seq([name : EntryNames, whole : BOOLEAN])
      BY DEF TypeOK
    <3>2. PICK m \in Nat, k \in Nat :
             m = Len(Kept(options)) /\ k = Len(Metadata(options)) /\ Len(Parts(options)) = m + 1 + k
      BY <3>1, PartsShape
    <3>3. Len(entries) \in Nat
      BY <3>1, LenProperties
    <3> QED
      BY <3>2, <3>3 DEF OwnIx
  <2>2. DOMAIN entries = 1 .. n /\ n <= l
    BY <2>1, LenProperties DEF TypeOK, EntriesInOrder
  <2>3. \A k \in 1 .. n : entries[k].name = Parts(options)[k] /\ k \in 1 .. l
    <3>1. \A k \in DOMAIN entries : entries[k].name = Parts(options)[k]
      BY DEF EntriesInOrder
    <3>2. \A k \in 1 .. n : k \in 1 .. l
      BY <2>1, <2>2
    <3> QED
      BY <2>2, <3>1, <3>2
  <2>4. \A j, k \in 1 .. l : j # k => Parts(options)[j] # Parts(options)[k]
    BY <2>1, PartsDiffer DEF TypeOK
  <2>5. \A j, k \in DOMAIN entries : j # k => entries[j].name # entries[k].name
    BY <2>2, <2>3, <2>4
  <2>6. ASSUME CanRead PROVE error # "limit" /\ Len(sheet) = Given
    <3>1. PICK k \in DOMAIN entries : entries[k] = [name |-> OwnSheet(options), whole |-> TRUE]
      BY <2>6 DEF CanRead, Whole
    <3>2. k \in 1 .. n /\ entries[k].name = OwnSheet(options) /\ entries[k].whole = TRUE
      BY <2>2, <3>1
    <3>3. Parts(options)[m + 1] = OwnSheet(options) /\ m + 1 \in 1 .. l
      BY <2>1, PartsShape DEF TypeOK
    <3>4. k = m + 1
      BY <2>3, <2>4, <3>2, <3>3
    <3>5. Len(entries) >= OwnIx /\ entries[OwnIx].whole
      BY <2>1, <3>2, <3>4
    <3> QED
      BY <3>5 DEF SheetDone
  <2>7. ASSUME pc = "done" PROVE \A k \in 1 .. l : Whole(Parts(options)[k])
    <3>1. n = l /\ AllWhole
      BY <2>1, <2>7 DEF EntriesInOrder
    <3>2. ASSUME NEW k \in 1 .. l PROVE Whole(Parts(options)[k])
      <4>1. k \in DOMAIN entries /\ entries[k].whole /\ entries[k].name = Parts(options)[k]
        BY <2>2, <2>3, <3>1 DEF AllWhole
      <4>2. entries[k] \in [name : EntryNames, whole : BOOLEAN]
        BY <2>1, <2>2, <4>1, ElementOfSeq DEF TypeOK
      <4>3. entries[k] = [name |-> Parts(options)[k], whole |-> TRUE]
        BY <4>1, <4>2
      <4> QED
        BY <4>1, <4>3 DEF Whole
    <3> QED
      BY <3>2
  <2>8. ASSUME pc = "done" PROVE CanRead
    <3>1. directory
      BY <2>8 DEF ErrorsEnd
    <3>2. \A name \in Package \cup {OwnSheet(options)} : \E k \in 1 .. l : Parts(options)[k] = name
      BY <2>1, PartsHaveAll DEF TypeOK
    <3> QED
      BY <2>7, <2>8, <3>1, <3>2 DEF CanRead
  <2>9. ASSUME pc = "done", IsAppend(options) \/ IsReplace(options)
        PROVE  \A k \in DOMAIN OldEntries : Whole(OldEntries[k])
    <3>1. \A i \in DOMAIN OldEntries : \E k \in 1 .. l : Parts(options)[k] = OldEntries[i]
      BY <2>1, <2>9, PartsHaveAll DEF TypeOK
    <3> QED
      BY <2>7, <2>9, <3>1
  <2> QED
    BY <2>5, <2>6, <2>8, <2>9 DEF ReadableIsComplete
<1> QED
  BY SinkIsInvariant, <1>1, PTL

-----------------------------------------------------------------------------
(* The letters of a column, and the column of the letters.                   *)
LEMMA ColumnOfSteps ==
    ASSUME NEW s \in Seq(Nat)
    PROVE  \E h \in [0 .. Len(s) -> Nat] :
              /\ h[0] = 0 /\ \A k \in 1 .. Len(s) : h[k] = h[k - 1] * Letters + s[k] + 1
              /\ ColumnOf(s) = h[Len(s)]
<1>1. PICK m \in Nat : m = Len(s) /\ \A k \in 1 .. m : s[k] \in Nat
  BY LenProperties, ElementOfSeq
<1>2. PICK L \in Nat : L = Letters
  BY SinkAssumption
<1> DEFINE body(f, k) == IF k = 0 THEN 0 ELSE f[k - 1] * Letters + s[k] + 1
           col == CHOOSE f : f = [k \in 0 .. Len(s) |-> body(f, k)]
           step == [k \in 1 .. m |-> [v \in Nat |-> v * L + s[k] + 1]]
<1>3. ColumnOf(s) = col[Len(s)]
  BY DEF ColumnOf
<1>4. PICK f \in [0 .. m -> Nat] : f[0] = 0 /\ \A k \in 1 .. m : f[k] = step[k][f[k - 1]]
  <2>1. step \in [1 .. m -> [Nat -> Nat]]
    BY <1>1
  <2> HIDE DEF step
  <2>2. IsRun(m, Nat, 0, step)
    BY <2>1, RecursionExists
  <2> QED
    BY <2>2 DEF IsRun
<1>5. \A k \in 1 .. m : f[k] = f[k - 1] * L + s[k] + 1
  <2> SUFFICES ASSUME NEW k \in 1 .. m PROVE f[k] = f[k - 1] * L + s[k] + 1
    OBVIOUS
  <2>1. f[k - 1] \in Nat
    OBVIOUS
  <2> QED
    BY <1>4, <2>1
<1> HIDE DEF step
<1>6. f = [k \in 0 .. Len(s) |-> body(f, k)]
  <2>1. \A k \in 0 .. m : f[k] = body(f, k)
    <3> SUFFICES ASSUME NEW k \in 0 .. m PROVE f[k] = body(f, k)
      OBVIOUS
    <3>1. k = 0 \/ (k # 0 /\ k \in 1 .. m)
      OBVIOUS
    <3> QED
      BY <1>2, <1>4, <1>5, <3>1
  <2> HIDE DEF body
  <2> QED
    BY <1>1, <2>1
<1> HIDE DEF body
<1>7. col = [k \in 0 .. Len(s) |-> body(col, k)]
  BY <1>6, Zenon
<1> HIDE DEF col
<1>8. col[0] = 0 /\ \A k \in 1 .. m : col[k] = col[k - 1] * L + s[k] + 1
  <2>1. 0 \in 0 .. m /\ \A k \in 1 .. m : k \in 0 .. m /\ k # 0
    OBVIOUS
  <2>2. \A k \in 0 .. m : col[k] = body(col, k)
    BY <1>1, <1>7
  <2> QED
    BY <1>2, <2>1, <2>2 DEF body
<1> DEFINE G == {k \in Nat : k <= m => col[k] = f[k]}
<1>9. 0 \in G
  BY <1>4, <1>8
<1>10. ASSUME NEW k \in Nat, k \in G PROVE k + 1 \in G
  <2> SUFFICES ASSUME k + 1 <= m PROVE col[k + 1] = f[k + 1]
    OBVIOUS
  <2>1. k + 1 \in 1 .. m /\ (k + 1) - 1 = k /\ k <= m
    OBVIOUS
  <2>2. col[k] = f[k]
    BY <1>10, <2>1
  <2>3. col[k + 1] = col[k] * L + s[k + 1] + 1 /\ f[k + 1] = f[k] * L + s[k + 1] + 1
    BY <1>5, <1>8, <2>1
  <2> QED
    BY <2>2, <2>3
<1>11. m \in G
  <2> HIDE DEF G
  <2> QED
    BY <1>9, <1>10, NaturalInduction
<1>12. ColumnOf(s) = f[m]
  BY <1>1, <1>3, <1>11
<1> QED
  BY <1>1, <1>2, <1>4, <1>5, <1>12

LEMMA ColumnOfFacts ==
    /\ ColumnOf(<< >>) = 0
    /\ \A s \in Seq(Nat), d \in Nat : ColumnOf(Append(s, d)) = ColumnOf(s) * Letters + d + 1
    /\ \A s \in Seq(Nat) : ColumnOf(s) \in Nat
<1>1. ColumnOf(<< >>) = 0
  <2>1. << >> \in Seq(Nat) /\ Len(<< >>) = 0
    BY EmptySeq
  <2> QED
    BY <2>1, ColumnOfSteps
<1>2. ASSUME NEW s \in Seq(Nat), NEW d \in Nat
      PROVE  ColumnOf(Append(s, d)) = ColumnOf(s) * Letters + d + 1
  <2> DEFINE t == Append(s, d)
  <2>1. PICK m \in Nat : m = Len(s)
    BY LenProperties
  <2>2. t \in Seq(Nat) /\ Len(t) = m + 1 /\ t[m + 1] = d /\ \A k \in 1 .. m : t[k] = s[k]
    BY <2>1, AppendProperties
  <2> HIDE DEF t
  <2>3. PICK h \in [0 .. m -> Nat] :
           /\ h[0] = 0 /\ \A k \in 1 .. m : h[k] = h[k - 1] * Letters + s[k] + 1
           /\ ColumnOf(s) = h[m]
    BY <2>1, ColumnOfSteps
  <2>4. PICK g \in [0 .. m + 1 -> Nat] :
           /\ g[0] = 0 /\ \A k \in 1 .. m + 1 : g[k] = g[k - 1] * Letters + t[k] + 1
           /\ ColumnOf(t) = g[m + 1]
    BY <2>2, ColumnOfSteps
  <2> DEFINE G == {k \in Nat : k <= m => g[k] = h[k]}
  <2>5. 0 \in G
    BY <2>3, <2>4
  <2>6. ASSUME NEW k \in Nat, k \in G PROVE k + 1 \in G
    <3> SUFFICES ASSUME k + 1 <= m PROVE g[k + 1] = h[k + 1]
      OBVIOUS
    <3>1. k + 1 \in 1 .. m /\ k + 1 \in 1 .. m + 1 /\ (k + 1) - 1 = k /\ k <= m
      OBVIOUS
    <3>2. g[k] = h[k] /\ t[k + 1] = s[k + 1]
      BY <2>2, <2>6, <3>1
    <3>3. g[k + 1] = g[k] * Letters + t[k + 1] + 1 /\ h[k + 1] = h[k] * Letters + s[k + 1] + 1
      BY <2>3, <2>4, <3>1
    <3> QED
      BY <3>2, <3>3
  <2>7. m \in G
    <3> HIDE DEF G
    <3> QED
      BY <2>5, <2>6, NaturalInduction
  <2>8. g[m + 1] = g[m] * Letters + d + 1
    <3>1. m + 1 \in 1 .. m + 1 /\ (m + 1) - 1 = m
      OBVIOUS
    <3> QED
      BY <2>2, <2>4, <3>1
  <2> QED
    BY <2>3, <2>4, <2>7, <2>8 DEF t
<1>3. ASSUME NEW s \in Seq(Nat) PROVE ColumnOf(s) \in Nat
  <2>1. PICK h \in [0 .. Len(s) -> Nat] : ColumnOf(s) = h[Len(s)]
    BY ColumnOfSteps
  <2> QED
    BY <2>1, LenProperties
<1> QED
  BY <1>1, <1>2, <1>3

(* ColumnName is a function of every number because the one it is made from  *)
(* is smaller.                                                               *)
LEMMA QuotientSmaller ==
    ASSUME NEW n \in Nat \ {0}
    PROVE  /\ (n - 1) \div Letters \in Nat /\ (n - 1) \div Letters < n
           /\ ((n - 1) % Letters) \in Nat
           /\ n = ((n - 1) \div Letters) * Letters + ((n - 1) % Letters) + 1
<1>1. PICK L \in Nat \ {0} : L = Letters
  BY SinkAssumption
<1>2. PICK q \in Int, r \in 0 .. L - 1 :
         q = (n - 1) \div L /\ r = (n - 1) % L /\ n - 1 = q * L + r
  <2>1. n - 1 \in Int
    OBVIOUS
  <2> QED
    BY <2>1, DivisionFacts
<1>3. q >= 0
  <2> SUFFICES ASSUME q <= -1 PROVE FALSE
    OBVIOUS
  <2>1. q * L <= (-1) * L
    OBVIOUS
  <2>2. (-1) * L = -L /\ q * L \in Int
    OBVIOUS
  <2> QED
    BY <1>2, <2>1, <2>2
<1>4. q <= n - 1
  <2>1. q * 1 <= q * L
    BY <1>3
  <2>2. q * 1 = q /\ q * L \in Int
    OBVIOUS
  <2> QED
    BY <1>2, <2>1, <2>2
<1> QED
  BY <1>1, <1>2, <1>3, <1>4

NameOf(f, n) ==
    IF n = 0 THEN << >> ELSE Append(f[(n - 1) \div Letters], (n - 1) % Letters)
IsNaming(f, n) == f \in [0 .. n -> Seq(Nat)] /\ \A k \in 0 .. n : f[k] = NameOf(f, k)

LEMMA NamingExists == \A n \in Nat : \E f : IsNaming(f, n)
<1> DEFINE G == {n \in Nat : \E f : IsNaming(f, n)}
<1>1. 0 \in G
  <2> DEFINE f == [k \in 0 .. 0 |-> << >>]
  <2>1. f \in [0 .. 0 -> Seq(Nat)] /\ \A k \in 0 .. 0 : k = 0 /\ f[k] = << >>
    BY EmptySeq
  <2> HIDE DEF f
  <2>2. IsNaming(f, 0)
    BY <2>1 DEF IsNaming, NameOf
  <2> QED
    BY <2>2
<1>2. ASSUME NEW n \in Nat, n \in G PROVE n + 1 \in G
  <2>1. PICK f : IsNaming(f, n)
    BY <1>2
  <2>2. f \in [0 .. n -> Seq(Nat)] /\ \A k \in 0 .. n : f[k] = NameOf(f, k)
    BY <2>1 DEF IsNaming
  <2> DEFINE g == [k \in 0 .. n + 1 |-> NameOf(f, k)]
  <2>3. \A k \in 0 .. n + 1 : NameOf(f, k) \in Seq(Nat)
    <3> SUFFICES ASSUME NEW k \in 0 .. n + 1 PROVE NameOf(f, k) \in Seq(Nat)
      OBVIOUS
    <3>1. CASE k = 0
      BY <3>1, EmptySeq DEF NameOf
    <3>2. CASE k # 0
      <4>0. k \in Nat \ {0}
        BY <3>2
      <4>1. PICK q \in Nat, r \in Nat :
               q = (k - 1) \div Letters /\ r = (k - 1) % Letters /\ q < k
        BY <4>0, QuotientSmaller
      <4>2. f[q] \in Seq(Nat)
        BY <2>2, <4>1
      <4>3. NameOf(f, k) = Append(f[q], r)
        BY <3>2, <4>1 DEF NameOf
      <4> QED
        BY <4>1, <4>2, <4>3, AppendProperties
    <3> QED
      BY <3>1, <3>2
  <2>4. g \in [0 .. n + 1 -> Seq(Nat)] /\ \A k \in 0 .. n + 1 : g[k] = NameOf(f, k)
    BY <2>3
  <2> HIDE DEF g
  <2>5. \A k \in 0 .. n : g[k] = f[k]
    BY <2>2, <2>4
  <2>6. \A k \in 0 .. n + 1 : NameOf(g, k) = NameOf(f, k)
    <3> SUFFICES ASSUME NEW k \in 0 .. n + 1 PROVE NameOf(g, k) = NameOf(f, k)
      OBVIOUS
    <3>1. CASE k = 0
      BY <3>1 DEF NameOf
    <3>2. CASE k # 0
      <4>1. PICK q \in Nat : q = (k - 1) \div Letters /\ q < k
        BY <3>2, QuotientSmaller
      <4>2. g[q] = f[q]
        BY <2>5, <4>1
      <4> QED
        BY <3>2, <4>1, <4>2 DEF NameOf
    <3> QED
      BY <3>1, <3>2
  <2>7. IsNaming(g, n + 1)
    BY <2>4, <2>6 DEF IsNaming
  <2> QED
    BY <2>7
<1>3. Nat \subseteq G
  <2> HIDE DEF G
  <2> QED
    BY <1>1, <1>2, NaturalInduction
<1> QED
  BY <1>3

LEMMA NamingsAgree ==
    ASSUME NEW m \in Nat, NEW n \in Nat, m <= n, NEW f, IsNaming(f, m), NEW g, IsNaming(g, n)
    PROVE  f[m] = g[m]
<1> DEFINE T == {k \in Nat : k <= m /\ f[k] # g[k]}
<1>1. T = {}
  <2> SUFFICES ASSUME T # {} PROVE FALSE
    OBVIOUS
  <2>1. PICK k \in T : \A j \in T : k <= j
    <3>1. T \in SUBSET Nat
      OBVIOUS
    <3> HIDE DEF T
    <3> QED
      BY <3>1, LeastExists
  <2>2. k \in 0 .. m /\ k \in 0 .. n /\ f[k] # g[k] /\ k \in Nat
    BY <2>1
  <2>3. f[k] = NameOf(f, k) /\ g[k] = NameOf(g, k)
    BY <2>2 DEF IsNaming
  <2>4. CASE k = 0
    BY <2>2, <2>3, <2>4 DEF NameOf
  <2>5. CASE k # 0
    <3>1. PICK q \in Nat : q = (k - 1) \div Letters /\ q < k
      BY <2>2, <2>5, QuotientSmaller
    <3>2. f[q] = g[q]
      <4>1. q \notin T
        BY <2>1, <2>2, <3>1
      <4> QED
        BY <2>2, <3>1, <4>1
    <3> QED
      BY <2>2, <2>3, <2>5, <3>1, <3>2 DEF NameOf
  <2> QED
    BY <2>4, <2>5
<1> QED
  BY <1>1

LEMMA ColumnNameFacts ==
    \A n \in Nat : ColumnName[n] \in Seq(Nat) /\ ColumnName[n] = NameOf(ColumnName, n)
<1> DEFINE naming(n) == CHOOSE f : IsNaming(f, n)
           F == [n \in Nat |-> naming(n)[n]]
<1>1. \A n \in Nat : IsNaming(naming(n), n)
  BY NamingExists
<1> HIDE DEF naming
<1>2. ASSUME NEW n \in Nat PROVE F[n] = NameOf(F, n) /\ F[n] \in Seq(Nat)
  <2>1. F[n] = naming(n)[n] /\ IsNaming(naming(n), n)
    BY <1>1
  <2>2. F[n] = NameOf(naming(n), n) /\ F[n] \in Seq(Nat)
    BY <2>1 DEF IsNaming
  <2>3. CASE n = 0
    BY <2>2, <2>3 DEF NameOf
  <2>4. CASE n # 0
    <3>1. PICK q \in Nat : q = (n - 1) \div Letters /\ q < n
      BY <2>4, QuotientSmaller
    <3>2. naming(q)[q] = naming(n)[q]
      <4>1. q <= n /\ IsNaming(naming(q), q)
        BY <1>1, <3>1
      <4> QED
        BY <2>1, <4>1, NamingsAgree
    <3>3. F[q] = naming(n)[q]
      BY <3>1, <3>2
    <3> HIDE DEF F
    <3> QED
      BY <2>2, <2>4, <3>1, <3>3 DEF NameOf
  <2> QED
    BY <2>3, <2>4
<1> HIDE DEF F
<1> DEFINE C == CHOOSE f : f = [n \in Nat |-> NameOf(f, n)]
<1>3. F = [n \in Nat |-> NameOf(F, n)]
  <2>1. F = [n \in Nat |-> F[n]]
    BY DEF F
  <2> QED
    BY <1>2, <2>1
<1>4. C = [n \in Nat |-> NameOf(C, n)]
  BY <1>3, Zenon
<1>5. ColumnName = C
  BY Zenon DEF ColumnName, NameOf
<1> HIDE DEF C
<1>6. \A n \in Nat : C[n] = NameOf(C, n)
  BY <1>4
<1> DEFINE T == {k \in Nat : C[k] \notin Seq(Nat)}
<1>7. T = {}
  <2> SUFFICES ASSUME T # {} PROVE FALSE
    OBVIOUS
  <2>1. PICK k \in T : \A j \in T : k <= j
    <3>1. T \in SUBSET Nat
      OBVIOUS
    <3> HIDE DEF T
    <3> QED
      BY <3>1, LeastExists
  <2>2. k \in Nat /\ C[k] = NameOf(C, k) /\ C[k] \notin Seq(Nat)
    BY <1>6, <2>1
  <2>3. CASE k = 0
    BY <2>2, <2>3, EmptySeq DEF NameOf
  <2>4. CASE k # 0
    <3>1. PICK q \in Nat, r \in Nat :
             q = (k - 1) \div Letters /\ r = (k - 1) % Letters /\ q < k
      BY <2>2, <2>4, QuotientSmaller
    <3>2. C[q] \in Seq(Nat)
      BY <2>1, <2>2, <3>1
    <3>3. NameOf(C, k) = Append(C[q], r)
      BY <2>4, <3>1 DEF NameOf
    <3> QED
      BY <2>2, <3>1, <3>2, <3>3, AppendProperties
  <2> QED
    BY <2>3, <2>4
<1> QED
  BY <1>5, <1>6, <1>7

(* BeginSheet's letters name the column that XLSXCellPos reads.              *)
LEMMA ColumnReadsBack == \A n \in Nat : ColumnOf(ColumnName[n]) = n
<1> DEFINE T == {k \in Nat : ColumnOf(ColumnName[k]) # k}
<1>1. T = {}
  <2> SUFFICES ASSUME T # {} PROVE FALSE
    OBVIOUS
  <2>1. PICK k \in T : \A j \in T : k <= j
    <3>1. T \in SUBSET Nat
      OBVIOUS
    <3> HIDE DEF T
    <3> QED
      BY <3>1, LeastExists
  <2>2. k \in Nat /\ ColumnName[k] = NameOf(ColumnName, k) /\ ColumnOf(ColumnName[k]) # k
    BY <2>1, ColumnNameFacts
  <2>3. CASE k = 0
    BY <2>2, <2>3, ColumnOfFacts DEF NameOf
  <2>4. CASE k # 0
    <3>1. PICK q \in Nat, r \in Nat :
             q = (k - 1) \div Letters /\ r = (k - 1) % Letters /\ q < k /\ k = q * Letters + r + 1
      BY <2>2, <2>4, QuotientSmaller
    <3>2. ColumnOf(ColumnName[q]) = q /\ ColumnName[q] \in Seq(Nat)
      BY <2>1, <2>2, <3>1, ColumnNameFacts
    <3>3. ColumnName[k] = Append(ColumnName[q], r)
      BY <2>2, <2>4, <3>1 DEF NameOf
    <3>4. ColumnOf(ColumnName[k]) = q * Letters + r + 1
      BY <3>1, <3>2, <3>3, ColumnOfFacts
    <3> QED
      BY <2>2, <3>1, <3>4
  <2> QED
    BY <2>3, <2>4
<1> QED
  BY <1>1

-----------------------------------------------------------------------------
(* A value that is written as a serial is read back.                         *)
LEMMA NearestFacts ==
    /\ \A k \in Int : Nearest(k * TicksPerSecond) = k * TicksPerSecond
    /\ \A v \in Int : Nearest(v) \in Int
    /\ \A v \in 0 .. TicksPerDay : Nearest(v) \in 0 .. TicksPerDay
<1>1. PICK T \in Nat \ {0}, S \in Nat \ {0} :
         T = TicksPerSecond /\ S = SecondsPerDay /\ TicksPerDay = S * T
  BY SerialAssumption DEF TicksPerDay
<1>2. ASSUME NEW v \in Int
      PROVE  \E q \in Int, r \in 0 .. 2 * T - 1 : Nearest(v) = q * T /\ 2 * v + T = q * (2 * T) + r
  <2>1. 2 * v + T \in Int /\ 2 * T \in Nat \ {0}
    BY <1>1
  <2>2. PICK q \in Int, r \in 0 .. 2 * T - 1 :
           q = (2 * v + T) \div (2 * T) /\ 2 * v + T = q * (2 * T) + r
    BY <2>1, DivisionFacts
  <2>3. Nearest(v) = q * T
    BY <1>1, <2>2 DEF Nearest
  <2> QED
    BY <2>2, <2>3
<1>3. ASSUME NEW a \in Int, NEW b \in Int, a * T < b * T PROVE a < b
  <2> SUFFICES ASSUME b <= a PROVE FALSE
    OBVIOUS
  <2>1. b * T <= a * T
    OBVIOUS
  <2>2. a * T \in Int /\ b * T \in Int
    OBVIOUS
  <2> QED
    BY <1>3, <2>1, <2>2
<1>4. ASSUME NEW k \in Int PROVE Nearest(k * T) = k * T
  <2>1. PICK q \in Int, r \in 0 .. 2 * T - 1 :
           Nearest(k * T) = q * T /\ 2 * (k * T) + T = q * (2 * T) + r
    <3>1. PICK v \in Int : v = k * T
      OBVIOUS
    <3> QED
      BY <1>2, <3>1
  <2>2. q * (2 * T) = 2 * (q * T) /\ (k + 1) * T = k * T + T /\ (q + 1) * T = q * T + T
        /\ k * T \in Int /\ q * T \in Int
    BY <1>1
  <2>3. q * T < (k + 1) * T /\ k * T < (q + 1) * T
    BY <1>1, <2>1, <2>2
  <2>4. q < k + 1 /\ k < q + 1
    BY <1>3, <2>3
  <2>5. q = k
    BY <2>4
  <2> QED
    BY <2>1, <2>5
<1>5. ASSUME NEW v \in 0 .. S * T PROVE Nearest(v) \in 0 .. S * T
  <2>0. v \in Int /\ S * T \in Nat
    BY <1>1
  <2>1. PICK q \in Int, r \in 0 .. 2 * T - 1 :
           Nearest(v) = q * T /\ 2 * v + T = q * (2 * T) + r
    BY <1>2, <2>0
  <2>2. q * (2 * T) = 2 * (q * T) /\ (S + 1) * T = S * T + T /\ (q + 1) * T = q * T + T
        /\ q * T \in Int /\ 0 * T = 0
    BY <1>1
  <2>3. 0 * T < (q + 1) * T /\ q * T < (S + 1) * T
    BY <1>1, <2>0, <2>1, <2>2
  <2>4. 0 < q + 1 /\ q < S + 1
    BY <1>1, <1>3, <2>3
  <2>5. 0 <= q * T /\ q * T <= S * T
    BY <1>1, <2>4
  <2> QED
    BY <2>0, <2>1, <2>2, <2>5
<1>6. ASSUME NEW v \in Int PROVE Nearest(v) \in Int
  <2>1. PICK q \in Int : Nearest(v) = q * T
    BY <1>2
  <2> QED
    BY <1>1, <2>1
<1> QED
  BY <1>1, <1>4, <1>5, <1>6

LEMMA ExcelToEpochIsNear ==
    ASSUME NEW v \in Int
    PROVE  \E x \in {v, Nearest(v)} : /\ ExcelToEpoch(v) = x - Epoch
                                      /\ Near(x, v) /\ x \in Int
<1>1. Tolerance \in Nat \ {0} /\ Nearest(v) \in Int
  BY SerialAssumption, NearestFacts
<1>2. CASE Near(v, Nearest(v))
  <2>1. ExcelToEpoch(v) = Nearest(v) - Epoch
    BY <1>2 DEF ExcelToEpoch
  <2>2. Near(Nearest(v), v)
    BY <1>1, <1>2 DEF Near
  <2> QED
    BY <1>1, <2>1, <2>2
<1>3. CASE ~Near(v, Nearest(v))
  <2>1. ExcelToEpoch(v) = v - Epoch
    BY <1>3 DEF ExcelToEpoch
  <2>2. Near(v, v)
    BY <1>1 DEF Near
  <2> QED
    BY <2>1, <2>2
<1> QED
  BY <1>2, <1>3

LEMMA DateReadsBack ==
    ASSUME NEW v \in Int
    PROVE  FromSerial("DATE", ToSerial("DATE", v)) = v
<1>1. PICK T \in Nat \ {0}, S \in Nat \ {0}, D \in Nat, P \in Nat \ {0} :
         /\ T = TicksPerSecond /\ S = SecondsPerDay /\ D = DaysBetween
         /\ P = S * T /\ P = TicksPerDay /\ Epoch = D * P
  <2>1. SecondsPerDay * TicksPerSecond \in Nat \ {0}
    BY SerialAssumption
  <2> QED
    BY <2>1, SerialAssumption DEF TicksPerDay, Epoch
<1>2. PICK s \in Int : s = v * P + D * P /\ ToSerial("DATE", v) = s
  <2>1. ToSerial("DATE", v) = v * TicksPerDay + Epoch
    BY DEF ToSerial, Times, Timestamps
  <2> QED
    BY <1>1, <2>1
<1>3. s = ((v + D) * S) * T
  <2>1. s = (v + D) * P
    BY <1>2
  <2>2. (v + D) * (S * T) = ((v + D) * S) * T
    OBVIOUS
  <2> QED
    BY <1>1, <2>1, <2>2
<1>4. Nearest(s) = s
  <2>1. (v + D) * S \in Int
    BY <1>1
  <2> QED
    BY <1>1, <1>3, <2>1, NearestFacts
<1>5. ExcelToEpoch(s) = v * P
  <2>1. ExcelToEpoch(s) = s - D * P
    BY <1>1, <1>4 DEF ExcelToEpoch
  <2>2. v * P \in Int /\ D * P \in Int
    OBVIOUS
  <2> QED
    BY <1>2, <2>1, <2>2
<1>6. (v * P) \div P = v
  <2>1. v * P \in Int
    OBVIOUS
  <2>2. PICK q \in Int, r \in 0 .. P - 1 : q = (v * P) \div P /\ v * P = q * P + r
    BY <2>1, DivisionFacts
  <2>3. CASE q < v
    <3>1. (q + 1) * P <= v * P
      BY <2>3
    <3>2. (q + 1) * P = q * P + P /\ q * P \in Int
      OBVIOUS
    <3> QED
      BY <2>1, <2>2, <3>1, <3>2
  <2>4. CASE v < q
    <3>1. (v + 1) * P <= q * P
      BY <2>4
    <3>2. (v + 1) * P = v * P + P /\ q * P \in Int
      OBVIOUS
    <3> QED
      BY <2>1, <2>2, <3>1, <3>2
  <2> QED
    BY <2>2, <2>3, <2>4
<1>7. FromSerial("DATE", s) = ExcelToEpoch(s) \div TicksPerDay
  BY DEF FromSerial
<1> QED
  BY <1>1, <1>2, <1>5, <1>6, <1>7

LEMMA TimeReadsBack ==
    ASSUME NEW type \in Times, NEW v \in 0 .. TicksPerDay
    PROVE  LET read == FromSerial("TIME", ToSerial(type, v))
           IN  Near(read, v) \/ Near(read + TicksPerDay, v)
<1>1. PICK P \in Nat \ {0}, D \in Nat : P = TicksPerDay /\ Epoch = D * P
  <2>1. SecondsPerDay * TicksPerSecond \in Nat \ {0}
    BY SerialAssumption
  <2> QED
    BY <2>1, SerialAssumption DEF TicksPerDay, Epoch
<1>2. ToSerial(type, v) = v
  BY DEF ToSerial, Times, Timestamps
<1>3. v \in Int
  BY <1>1
<1>4. PICK x \in {v, Nearest(v)} : ExcelToEpoch(v) = x - Epoch /\ Near(x, v) /\ x \in Int
  BY <1>3, ExcelToEpochIsNear
<1>5. x \in 0 .. P
  BY <1>1, <1>4, NearestFacts
<1>6. PICK read \in Int : read = FromSerial("TIME", v) /\ read = (x - D * P) % P
  <2>1. x - D * P \in Int
    BY <1>1, <1>4
  <2>2. FromSerial("TIME", v) = (x - D * P) % P
    BY <1>1, <1>4 DEF FromSerial
  <2>3. (x - D * P) % P \in Int
    BY <2>1, DivisionFacts
  <2> QED
    BY <2>2, <2>3
<1>7. PICK q \in Int : read \in 0 .. P - 1 /\ x - D * P = q * P + read
  <2>1. PICK y \in Int : y = x - D * P
    BY <1>1, <1>4
  <2>2. y \div P \in Int /\ y % P \in 0 .. P - 1 /\ y = (y \div P) * P + (y % P)
    BY <2>1, DivisionFacts
  <2>3. read = y % P
    BY <1>6, <2>1
  <2> QED
    BY <2>1, <2>2, <2>3
<1>8. read = x \/ read + P = x
  <2>1. x = (q + D) * P + read
    <3>1. (q + D) * P = q * P + D * P /\ q * P \in Int /\ D * P \in Int
      OBVIOUS
    <3> QED
      BY <1>4, <1>7, <3>1
  <2>2. PICK k \in Int : k = q + D /\ x = k * P + read
    BY <2>1
  <2>3. CASE k <= -1
    <3>1. k * P <= (-1) * P /\ (-1) * P = -P /\ k * P \in Int
      BY <2>3
    <3> QED
      BY <1>1, <1>5, <1>7, <2>2, <3>1
  <2>4. CASE k >= 2
    <3>1. 2 * P <= k * P /\ k * P \in Int
      BY <2>4
    <3> QED
      BY <1>1, <1>5, <1>7, <2>2, <3>1
  <2>5. CASE k = 0
    BY <1>1, <1>7, <2>2, <2>5
  <2>6. CASE k = 1
    BY <1>1, <1>7, <2>2, <2>6
  <2> QED
    BY <2>2, <2>3, <2>4, <2>5, <2>6
<1> QED
  BY <1>1, <1>2, <1>4, <1>6, <1>8

LEMMA TimestampReadsBack ==
    ASSUME NEW type \in Timestamps, NEW v \in Int
    PROVE  Near(FromSerial("TIMESTAMP", ToSerial(type, v)), v)
<1>1. PICK E \in Int : E = Epoch
  BY SerialAssumption DEF Epoch, TicksPerDay
<1>2. ToSerial(type, v) = v + E
  BY <1>1 DEF ToSerial, Timestamps, Times
<1>3. v + E \in Int
  OBVIOUS
<1>4. PICK x \in Int : ExcelToEpoch(v + E) = x - E /\ Near(x, v + E)
  BY <1>1, <1>3, ExcelToEpochIsNear
<1>5. Near(x - E, v)
  BY <1>4, SerialAssumption DEF Near
<1>6. FromSerial("TIMESTAMP", v + E) = x - E
  BY <1>4 DEF FromSerial
<1> QED
  BY <1>2, <1>5, <1>6

-----------------------------------------------------------------------------
(* A cell reads back as the value in the type of its column.                 *)
LEMMA CellReadsBack ==
    ASSUME NEW type, NEW c, NEW row, NEW v \in Int,
           type \in Times => v \in 0 .. TicksPerDay
    PROVE  LET cell == Cell(type, c, row, v)
           IN  /\ cell.row = row /\ cell.column = ColumnName[c]
               /\ KindOf(cell) = KindOfType(type)
               /\ SameValue(KindOf(cell), FromSerial(KindOf(cell), cell.v), v)
<1> DEFINE cell == Cell(type, c, row, v)
<1>1. /\ cell.row = row /\ cell.column = ColumnName[c] /\ cell.t = CellType(type)
      /\ cell.s = StyleIndex(type) /\ cell.v = ToSerial(type, v)
  BY DEF Cell
<1> HIDE DEF cell
<1> USE DEF SameValue
<1>2. CASE type = "DATE"
  <2>1. KindOf(cell) = "DATE" /\ KindOfType(type) = "DATE"
    <3>1. KindOfType(type) = "DATE"
      BY <1>2 DEF KindOfType, Timestamps, Times, Numbers
    <3>2. CellType(type) = ""
      BY <1>2 DEF CellType, Timestamps, Times, Numbers
    <3>3. StyleIndex(type) = 1
      BY <1>2 DEF StyleIndex, Timestamps, Times, Numbers
    <3>4. CellXfs[1] = "DATE" /\ CellXfs[2] = "TIMESTAMP" /\ CellXfs[3] = "TIME" /\ CellXfs[4] = "TIMESTAMP"
      BY DEF CellXfs
    <3>5. KindOf(cell) = CellXfs[cell.s]
      <4>1. cell.t = "" /\ cell.s = StyleIndex(type)
        BY <1>1, <3>2
      <4>2. cell.t # "b" /\ cell.t # "inlineStr"
        BY <4>1, Zenon
      <4>3. cell.s # 0
        <5>1. StyleIndex(type) # 0
          BY <3>3
        <5> QED
          BY <4>1, <5>1, Zenon
      <4> QED
        BY <4>2, <4>3, Zenon DEF KindOf
    <3> QED
      BY <1>1, <3>1, <3>3, <3>4, <3>5
  <2> QED
    BY <1>1, <1>2, <2>1, DateReadsBack DEF cell
<1>3. CASE type \in Times
  <2>1. KindOf(cell) = "TIME" /\ KindOfType(type) = "TIME"
    <3>1. KindOfType(type) = "TIME"
      BY <1>3 DEF KindOfType, Timestamps, Times, Numbers
    <3>2. CellType(type) = ""
      BY <1>3 DEF CellType, Timestamps, Times, Numbers
    <3>3. StyleIndex(type) = 3
      BY <1>3 DEF StyleIndex, Timestamps, Times, Numbers
    <3>4. CellXfs[1] = "DATE" /\ CellXfs[2] = "TIMESTAMP" /\ CellXfs[3] = "TIME" /\ CellXfs[4] = "TIMESTAMP"
      BY DEF CellXfs
    <3>5. KindOf(cell) = CellXfs[cell.s]
      <4>1. cell.t = "" /\ cell.s = StyleIndex(type)
        BY <1>1, <3>2
      <4>2. cell.t # "b" /\ cell.t # "inlineStr"
        BY <4>1, Zenon
      <4>3. cell.s # 0
        <5>1. StyleIndex(type) # 0
          BY <3>3
        <5> QED
          BY <4>1, <5>1, Zenon
      <4> QED
        BY <4>2, <4>3, Zenon DEF KindOf
    <3> QED
      BY <1>1, <3>1, <3>3, <3>4, <3>5
  <2> QED
    BY <1>1, <1>3, <2>1, TimeReadsBack DEF cell
<1>4. CASE type \in Timestamps
  <2>1. KindOf(cell) = "TIMESTAMP" /\ KindOfType(type) = "TIMESTAMP"
    <3>1. KindOfType(type) = "TIMESTAMP"
      BY <1>4 DEF KindOfType, Timestamps, Times, Numbers
    <3>2. CellType(type) = ""
      BY <1>4 DEF CellType, Timestamps, Times, Numbers
    <3>3. StyleIndex(type) \in {2, 4}
      BY <1>4 DEF StyleIndex, Timestamps, Times, Numbers
    <3>4. CellXfs[1] = "DATE" /\ CellXfs[2] = "TIMESTAMP" /\ CellXfs[3] = "TIME" /\ CellXfs[4] = "TIMESTAMP"
      BY DEF CellXfs
    <3>5. KindOf(cell) = CellXfs[cell.s]
      <4>1. cell.t = "" /\ cell.s = StyleIndex(type)
        BY <1>1, <3>2
      <4>2. cell.t # "b" /\ cell.t # "inlineStr"
        BY <4>1, Zenon
      <4>3. cell.s # 0
        <5>1. StyleIndex(type) # 0
          BY <3>3
        <5> QED
          BY <4>1, <5>1, Zenon
      <4> QED
        BY <4>2, <4>3, Zenon DEF KindOf
    <3> QED
      BY <1>1, <3>1, <3>3, <3>4, <3>5
  <2> QED
    BY <1>1, <1>4, <2>1, TimestampReadsBack DEF cell
<1>5. CASE type \in Numbers
  <2>1. KindOf(cell) = "NUMBER" /\ KindOfType(type) = "NUMBER"
    BY <1>1, <1>5 DEF KindOf, KindOfType, CellType, StyleIndex, Timestamps, Times, Numbers
  <2>2. ToSerial(type, v) = v
    BY <1>5 DEF ToSerial, Timestamps, Times, Numbers
  <2>3. FromSerial("NUMBER", v) = v
    BY DEF FromSerial
  <2> QED
    BY <1>1, <2>1, <2>2, <2>3 DEF cell
<1>6. CASE type = "BOOLEAN"
  <2>1. KindOf(cell) = "BOOLEAN" /\ KindOfType(type) = "BOOLEAN"
    BY <1>1, <1>6 DEF KindOf, KindOfType, CellType, StyleIndex, Timestamps, Times, Numbers
  <2>2. ToSerial(type, v) = v
    BY <1>6 DEF ToSerial, Timestamps, Times
  <2>3. FromSerial("BOOLEAN", v) = v
    BY DEF FromSerial
  <2> QED
    BY <1>1, <2>1, <2>2, <2>3 DEF cell
<1>7. CASE ~(type \in {"DATE", "BOOLEAN"} \cup Times \cup Timestamps \cup Numbers)
  <2>1. KindOf(cell) = "VARCHAR" /\ KindOfType(type) = "VARCHAR"
    <3>1. KindOfType(type) = "VARCHAR"
      BY <1>7 DEF KindOfType
    <3>2. CellType(type) = "inlineStr"
      BY <1>7 DEF CellType
    <3> QED
      BY <1>1, <3>1, <3>2 DEF KindOf
  <2>2. ToSerial(type, v) = v
    BY <1>7 DEF ToSerial
  <2>3. FromSerial("VARCHAR", v) = v
    BY DEF FromSerial
  <2> QED
    BY <1>1, <2>1, <2>2, <2>3 DEF cell
<1> QED
  BY <1>2, <1>3, <1>4, <1>5, <1>6, <1>7

(* The mask of a cast column says of every row whether its value is NULL.    *)
LEMMA MaskIsValidity ==
    ASSUME NEW type, NEW n, NEW vec, IsVector(type, vec, n), NEW i \in 1 .. n
    PROVE  /\ IsValid(type, vec, Execute(type, vec, {}), i) <=> ValueAt(vec, i) # Null
           /\ ValueAt(vec, i) # Null =>
                 /\ ValueAt(vec, i) = vec.data[vec.sel[i]] /\ ValueAt(vec, i) \in Int
                 /\ type \in Times => ValueAt(vec, i) \in 0 .. TicksPerDay
<1>1. PICK m \in Nat : /\ m = Len(vec.data) /\ DOMAIN vec.data = 1 .. m
                       /\ \A j \in 1 .. m : vec.data[j] \in Int
  BY LenProperties, ElementOfSeq DEF IsVector
<1>2. DOMAIN vec.valid = 1 .. m /\ \A j \in 1 .. m : vec.valid[j] \in BOOLEAN
  BY <1>1, LenProperties, ElementOfSeq DEF IsVector
<1>3. DOMAIN vec.sel = 1 .. n /\ vec.sel[i] \in 1 .. m
  BY <1>1, LenProperties, ElementOfSeq DEF IsVector
<1>4. type \in Times => \A j \in 1 .. m : vec.data[j] \in 0 .. TicksPerDay
  BY <1>1, ElementOfSeq DEF IsVector
<1>5. Null \notin Int
  BY SinkAssumption
<1>6. ValueAt(vec, i) # Null <=> vec.valid[vec.sel[i]]
  BY <1>1, <1>2, <1>3, <1>5 DEF ValueAt
<1>7. IsValid(type, vec, Execute(type, vec, {}), i) <=> vec.valid[vec.sel[i]]
  <2> DEFINE rows == {x \in DOMAIN vec.sel : ~vec.valid[vec.sel[x]]}
  <2>1. CASE type = "VARCHAR"
    <3>1. IsValid(type, vec, Execute(type, vec, {}), i) = vec.valid[vec.sel[i]]
      BY <2>1, Zenon DEF IsValid
    <3> QED
      BY <3>1
  <2>2. CASE type # "VARCHAR" /\ vec.form = "constant"
    <3>1. m = 1
      BY <1>1, <2>2 DEF IsVector
    <3>2. vec.sel[i] = 1 /\ vec.valid[1] \in BOOLEAN
      BY <1>2, <1>3, <3>1
    <3>3. Execute(type, vec, {}) = IF vec.valid[1] THEN {} \ {1} ELSE {} \cup {1}
      BY <2>2 DEF Execute
    <3>4. IsValid(type, vec, Execute(type, vec, {}), i) <=> 1 \notin Execute(type, vec, {})
      BY <2>2 DEF IsValid
    <3> QED
      BY <3>2, <3>3, <3>4
  <2>3. CASE type # "VARCHAR" /\ vec.form # "constant"
    <3>1. IsValid(type, vec, Execute(type, vec, {}), i) <=> i \notin Execute(type, vec, {})
      BY <2>3 DEF IsValid
    <3>2. i \in rows <=> ~vec.valid[vec.sel[i]]
      BY <1>3
    <3>3. CASE vec.form = "flat"
      <4>1. Execute(type, vec, {}) =
               IF \A x \in DOMAIN vec.valid : vec.valid[x] THEN {} ELSE rows
        BY <2>3, <3>3 DEF Execute
      <4>2. CASE \A x \in DOMAIN vec.valid : vec.valid[x]
        BY <1>2, <1>3, <3>1, <4>1, <4>2
      <4>3. CASE ~\A x \in DOMAIN vec.valid : vec.valid[x]
        <5>1. Execute(type, vec, {}) = rows
          BY <4>1, <4>3
        <5> HIDE DEF rows
        <5> QED
          BY <3>1, <3>2, <5>1
      <4> QED
        BY <4>2, <4>3
    <3>4. CASE vec.form # "flat"
      <4>1. Execute(type, vec, {}) = {} \cup rows
        BY <2>3, <3>4 DEF Execute
      <4> HIDE DEF rows
      <4> QED
        BY <3>1, <3>2, <4>1
    <3> QED
      BY <3>3, <3>4
  <2> QED
    BY <2>1, <2>2, <2>3
<1>8. vec.valid[vec.sel[i]] => ValueAt(vec, i) = vec.data[vec.sel[i]]
  BY DEF ValueAt
<1> QED
  BY <1>1, <1>3, <1>4, <1>6, <1>7, <1>8

-----------------------------------------------------------------------------
(* When the cells of a row are for the columns of S, each once, a column of  *)
(* S is read from one cell and any other from none.                          *)
HasCells(row, N, S, order) ==
    /\ N \in Nat /\ S \in SUBSET Nat /\ order \in [1 .. N -> S]
    /\ \A j, k \in 1 .. N : order[j] = order[k] => j = k
    /\ \A c \in S : \E k \in 1 .. N : order[k] = c
    /\ DOMAIN row.cells = 1 .. N
    /\ \A k \in 1 .. N : row.cells[k].column = ColumnName[order[k]]
LEMMA CellsOfColumns ==
    ASSUME NEW row, NEW N, NEW S, NEW order, HasCells(row, N, S, order)
    PROVE  /\ \A k \in DOMAIN row.cells : ColumnOf(row.cells[k].column) = order[k]
           /\ \A c \in Nat \ S : HoldsNothing(row, c)
           /\ \A c \in S : \E k \in 1 .. N :
                 order[k] = c /\ CellsIn(row, c) = {k} /\ Cardinality(CellsIn(row, c)) = 1
<1>1. \A k \in 1 .. N : order[k] \in Nat /\ ColumnOf(row.cells[k].column) = order[k]
  BY ColumnReadsBack DEF HasCells
<1>2. \A c : CellsIn(row, c) = {k \in 1 .. N : order[k] = c}
  BY <1>1 DEF CellsIn, HasCells
<1>3. \A c \in Nat \ S : HoldsNothing(row, c)
  BY <1>2 DEF HoldsNothing, HasCells
<1>4. ASSUME NEW c \in S
      PROVE  \E k \in 1 .. N :
                order[k] = c /\ CellsIn(row, c) = {k} /\ Cardinality(CellsIn(row, c)) = 1
  <2>1. PICK k \in 1 .. N : order[k] = c
    BY DEF HasCells
  <2>2. CellsIn(row, c) = {k}
    BY <1>2, <2>1 DEF HasCells
  <2> QED
    BY <2>1, <2>2, FS_Singleton
<1> QED
  BY <1>1, <1>3, <1>4 DEF HasCells

LEMMA CellColumn ==
    ASSUME NEW type, NEW c, NEW n, NEW v PROVE Cell(type, c, n, v).column = ColumnName[c]
BY DEF Cell

(* Sink: of its row in the chunk a row has the values that are not NULL.     *)
LEMMA SinkRowHolds ==
    ASSUME types \in TypeLists, NEW chunk \in Chunks(types), NEW i \in 1 .. Rows(chunk),
           NEW n, NEW row, row = SinkRow(chunk, Marks(chunk), i, n)
    PROVE  /\ row.r = n
           /\ \A c \in DOMAIN types :
                 /\ ValueAt(chunk[c], i) = Null => HoldsNothing(row, c)
                 /\ ValueAt(chunk[c], i) # Null =>
                       HoldsValue(row, c, types[c], ValueAt(chunk[c], i))
           /\ \A k \in DOMAIN row.cells : ColumnOf(row.cells[k].column) \in DOMAIN types
<1> DEFINE filled == {c \in DOMAIN chunk : IsValid(types[c], chunk[c], Marks(chunk)[c], i)}
           order  == Ascending(filled)
           N == Cardinality(filled)
           value(c) == chunk[c].data[chunk[c].sel[i]]
<1>1. PICK m \in Nat : DOMAIN types = 1 .. m
  BY ChunksAssumption
<1>2. /\ DOMAIN chunk = DOMAIN types
      /\ \A c \in DOMAIN types : IsVector(types[c], chunk[c], Rows(chunk))
  BY ChunksAssumption
<1>3. filled \in SUBSET (1 .. m) /\ filled \in SUBSET Nat /\ filled \in SUBSET Int
  BY <1>1, <1>2
<1>4. IsFiniteSet(filled)
  <2>1. IsFiniteSet(1 .. m)
    BY FS_Interval
  <2> HIDE DEF filled
  <2> QED
    BY <1>3, <2>1, FS_Subset
<1>5. ASSUME NEW c \in DOMAIN types
      PROVE  /\ c \in filled <=> ValueAt(chunk[c], i) # Null
             /\ c \in filled =>
                   /\ ValueAt(chunk[c], i) = value(c) /\ value(c) \in Int
                   /\ types[c] \in Times => value(c) \in 0 .. TicksPerDay
  <2>1. Marks(chunk)[c] = Execute(types[c], chunk[c], {})
    BY DEF Marks
  <2>2. IsVector(types[c], chunk[c], Rows(chunk))
    BY <1>2
  <2>3. c \in filled <=> IsValid(types[c], chunk[c], Execute(types[c], chunk[c], {}), i)
    BY <1>2, <2>1
  <2> HIDE DEF filled
  <2> QED
    BY <2>2, <2>3, MaskIsValidity
<1>6. row = [r |-> n, cells |-> [k \in DOMAIN order |->
               Cell(types[order[k]], order[k], n, value(order[k]))]]
  BY DEF SinkRow
<1> HIDE DEF filled
<1>7. /\ N \in Nat /\ order \in [1 .. N -> filled] /\ DOMAIN order = 1 .. N
      /\ \A j, k \in 1 .. N : order[j] = order[k] => j = k
      /\ \A c \in filled : \E k \in 1 .. N : order[k] = c
  <2>1. /\ N \in Nat /\ Len(order) = N /\ order \in Seq(filled) /\ DOMAIN order = 1 .. N
        /\ \A j, k \in 1 .. N : j < k => order[j] < order[k]
        /\ \A c \in filled : \E k \in 1 .. N : order[k] = c
    BY <1>3, <1>4, AscendingFacts
  <2> HIDE DEF order, N
  <2>2. order \in [1 .. N -> filled]
    BY <2>1
  <2>3. ASSUME NEW j \in 1 .. N, NEW k \in 1 .. N, order[j] = order[k] PROVE j = k
    <3>1. order[j] \in Int /\ order[k] \in Int
      <4>1. order[j] \in filled /\ order[k] \in filled
        BY <2>2, <2>3, Zenon
      <4> QED
        BY <1>3, <4>1, Zenon
    <3>11. j \in Int /\ k \in Int
      BY <2>1
    <3>2. CASE j < k
      BY <2>1, <2>3, <3>1, <3>11, <3>2
    <3>3. CASE k < j
      BY <2>1, <2>3, <3>1, <3>11, <3>3
    <3> QED
      BY <3>11, <3>2, <3>3
  <2> QED
    BY <2>1, <2>2, <2>3
<1> HIDE DEF order, N
<1>8. /\ row.r = n /\ DOMAIN row.cells = 1 .. N
      /\ \A k \in 1 .. N : row.cells[k] = Cell(types[order[k]], order[k], n, value(order[k]))
  BY <1>6, <1>7
<1>9. \A k \in 1 .. N : row.cells[k].column = ColumnName[order[k]]
  BY <1>8, CellColumn
<1>10. /\ \A k \in DOMAIN row.cells : ColumnOf(row.cells[k].column) = order[k]
       /\ \A c \in Nat \ filled : HoldsNothing(row, c)
       /\ \A c \in filled : \E k \in 1 .. N :
             order[k] = c /\ CellsIn(row, c) = {k} /\ Cardinality(CellsIn(row, c)) = 1
  <2>1. HasCells(row, N, filled, order)
    BY <1>3, <1>7, <1>8, <1>9 DEF HasCells
  <2> QED
    BY <2>1, CellsOfColumns
<1>11. ASSUME NEW c \in DOMAIN types, ValueAt(chunk[c], i) = Null PROVE HoldsNothing(row, c)
  BY <1>1, <1>5, <1>10, <1>11
<1>12. ASSUME NEW c \in DOMAIN types, ValueAt(chunk[c], i) # Null
       PROVE  HoldsValue(row, c, types[c], ValueAt(chunk[c], i))
  <2>1. /\ c \in filled /\ ValueAt(chunk[c], i) = value(c) /\ value(c) \in Int
        /\ types[c] \in Times => value(c) \in 0 .. TicksPerDay
    BY <1>5, <1>12
  <2>2. PICK k \in 1 .. N :
           order[k] = c /\ CellsIn(row, c) = {k} /\ Cardinality(CellsIn(row, c)) = 1
    BY <1>10, <2>1
  <2>3. row.cells[k] = Cell(types[c], c, n, value(c))
    BY <1>8, <2>2
  <2> HIDE DEF value
  <2>4. LET cell == Cell(types[c], c, n, value(c))
        IN  /\ cell.row = n
            /\ KindOf(cell) = KindOfType(types[c])
            /\ SameValue(KindOf(cell), FromSerial(KindOf(cell), cell.v), value(c))
    BY <2>1, CellReadsBack
  <2> QED
    BY <1>8, <2>1, <2>2, <2>3, <2>4 DEF HoldsValue
<1>13. ASSUME NEW k \in DOMAIN row.cells PROVE ColumnOf(row.cells[k].column) \in DOMAIN types
  <2>1. ColumnOf(row.cells[k].column) = order[k] /\ k \in 1 .. N
    BY <1>8, <1>10
  <2>2. order[k] \in filled
    BY <1>7, <2>1, Zenon
  <2> QED
    BY <1>1, <1>3, <2>1, <2>2
<1> QED
  BY <1>8, <1>11, <1>12, <1>13

(* InitGlobal: the row of names has one in every column.                     *)
LEMMA HeaderRowHolds ==
    ASSUME types \in TypeLists
    PROVE  /\ HeaderRow.r = 1
           /\ \A c \in DOMAIN types : HoldsValue(HeaderRow, c, "VARCHAR", Title(c))
           /\ \A k \in DOMAIN HeaderRow.cells :
                 ColumnOf(HeaderRow.cells[k].column) \in DOMAIN types
<1>1. PICK m \in Nat : DOMAIN types = 1 .. m
  BY ChunksAssumption
<1>2. PICK row : row = HeaderRow
  OBVIOUS
<1>3. /\ row.r = 1 /\ DOMAIN row.cells = 1 .. m
      /\ \A c \in 1 .. m : row.cells[c] = Cell("VARCHAR", c, 1, Title(c))
  BY <1>1, <1>2 DEF HeaderRow
<1>4. \A c \in 1 .. m : row.cells[c].column = ColumnName[c]
  BY <1>3, CellColumn
<1>5. PICK order : order = [k \in 1 .. m |-> k]
  OBVIOUS
<1>6. /\ 1 .. m \in SUBSET Nat /\ order \in [1 .. m -> 1 .. m]
      /\ \A k \in 1 .. m : order[k] = k /\ row.cells[k].column = ColumnName[order[k]]
  BY <1>4, <1>5
<1>7. /\ \A k \in DOMAIN row.cells : ColumnOf(row.cells[k].column) = order[k]
      /\ \A c \in 1 .. m : \E k \in 1 .. m :
            order[k] = c /\ CellsIn(row, c) = {k} /\ Cardinality(CellsIn(row, c)) = 1
  <2>1. HasCells(row, m, 1 .. m, order)
    BY <1>3, <1>6 DEF HasCells
  <2> QED
    BY <2>1, CellsOfColumns
<1>8. ASSUME NEW c \in 1 .. m PROVE HoldsValue(row, c, "VARCHAR", Title(c))
  <2>1. PICK k \in 1 .. m :
           order[k] = c /\ CellsIn(row, c) = {k} /\ Cardinality(CellsIn(row, c)) = 1
    BY <1>7
  <2>2. row.cells[k] = Cell("VARCHAR", c, 1, Title(c))
    BY <1>3, <1>6, <2>1
  <2>3. Title(c) \in Int /\ "VARCHAR" \notin Times
    BY DEF Title, Times
  <2>4. LET cell == Cell("VARCHAR", c, 1, Title(c))
        IN  /\ cell.row = 1
            /\ KindOf(cell) = KindOfType("VARCHAR")
            /\ SameValue(KindOf(cell), FromSerial(KindOf(cell), cell.v), Title(c))
    BY <2>3, CellReadsBack
  <2> QED
    BY <1>3, <2>1, <2>2, <2>4 DEF HoldsValue
<1> QED
  BY <1>1, <1>2, <1>3, <1>6, <1>7, <1>8

(* Sink, Execute, EndRow: for any query, chunks and forms of vectors, every  *)
(* row of the sheet is the row of the table of its number, value by value.   *)
THEOREM SheetIsAlwaysTheTable == Spec => []SheetIsTable
<1>1. SinkInv => SheetIsTable
  <2> SUFFICES ASSUME SinkInv PROVE SheetIsTable
    OBVIOUS
  <2>1. types \in TypeLists /\ taken \in Seq(Chunks(types))
    BY DEF SinkInv, TypeOK
  <2>2. ASSUME InTable, error = "none" PROVE Len(sheet) = Given
    <3>1. pc \in {"sink", "metadata", "part", "finished", "done"}
      BY <2>2 DEF SinkInv, TypeOK, ErrorsEnd, InTable
    <3> QED
      BY <3>1 DEF SinkInv, RowsCounted
  <2>3. ASSUME NEW n \in DOMAIN sheet
        PROVE  /\ sheet[n].r = n
               /\ \A c \in DOMAIN types :
                     IF Header(options) /\ n = 1
                     THEN HoldsValue(sheet[n], c, "VARCHAR", Title(c))
                     ELSE LET at == TableRow(taken, n - Names)
                              value == ValueAt(taken[at[1]][c], at[2])
                          IN  IF value = Null THEN HoldsNothing(sheet[n], c)
                              ELSE HoldsValue(sheet[n], c, types[c], value)
               /\ \A k \in DOMAIN sheet[n].cells :
                     ColumnOf(sheet[n].cells[k].column) \in DOMAIN types
    <3>1. CASE Header(options) /\ n = 1
      <4>1. sheet[n] = HeaderRow
        BY <3>1 DEF SinkInv, RowsAreSunk
      <4> QED
        BY <2>1, <3>1, <4>1, HeaderRowHolds
    <3>2. CASE ~(Header(options) /\ n = 1)
      <4>1. PICK k, i : <<k, i>> = <<TableRow(taken, n - Names)[1], TableRow(taken, n - Names)[2]>>
        OBVIOUS
      <4>2. /\ k \in DOMAIN taken /\ i \in 1 .. Rows(taken[k])
            /\ sheet[n] = SinkRow(taken[k], Marks(taken[k]), i, n)
        BY <3>2, <4>1 DEF SinkInv, RowsAreSunk
      <4>3. PICK chunk, row : chunk \in Chunks(types) /\ chunk = taken[k] /\ row = sheet[n]
        BY <2>1, <4>2, ElementOfSeq, LenProperties
      <4>4. /\ row.r = n
            /\ \A c \in DOMAIN types :
                  /\ ValueAt(chunk[c], i) = Null => HoldsNothing(row, c)
                  /\ ValueAt(chunk[c], i) # Null =>
                        HoldsValue(row, c, types[c], ValueAt(chunk[c], i))
            /\ \A j \in DOMAIN row.cells : ColumnOf(row.cells[j].column) \in DOMAIN types
        BY <2>1, <4>2, <4>3, SinkRowHolds
      <4> QED
        BY <3>2, <4>1, <4>3, <4>4
    <3> QED
      BY <3>1, <3>2
  <2> QED
    BY <2>2, <2>3 DEF SheetIsTable
<1> QED
  BY SinkIsInvariant, <1>1, PTL

=============================================================================
