---------------------------- MODULE StylesProofs ----------------------------
(***************************************************************************)
(* What StylesProperties states, for stylesheets of any size and any       *)
(* number of appends and edits, from sound stylesheets (SoundAssumption).  *)
(*                                                                         *)
(* Reader and appender are recursive functions here: the list of styles    *)
(* grows one <xf> at a time, and ResolveStyles takes one needed code after *)
(* the other.  StylesAreTypes says what the first one returns; the second  *)
(* is followed step by step with Resolved, which says of the accumulator   *)
(* what StylesInv says of styles.xml.  RecursionExists provides that the   *)
(* functions are what their equations say.                                 *)
(***************************************************************************)
EXTENDS StylesProperties, OperatorProofs, SequenceTheorems

Formats == [id : Nat, code : Codes]
Types == {"TIMESTAMP", "DATE", "TIME", "DOUBLE"}

LEMMA FormatTyped ==
    ASSUME NEW fmts \in Seq(Formats)
    PROVE  /\ \E n \in Nat : n = Len(fmts) /\ DOMAIN fmts = 1 .. n
           /\ \A i \in DOMAIN fmts : fmts[i] \in Formats /\ fmts[i].id \in Nat /\ fmts[i].code \in Codes
<1>1. \A i \in DOMAIN fmts : fmts[i] \in Formats
  BY LenProperties, ElementOfSeq
<1> QED
  BY <1>1, LenProperties DEF Formats

LEMMA XfTyped ==
    ASSUME NEW xfs \in Seq(Nat)
    PROVE  /\ \E n \in Nat : n = Len(xfs) /\ DOMAIN xfs = 1 .. n
           /\ \A x \in DOMAIN xfs : xfs[x] \in Nat
BY LenProperties, ElementOfSeq

LEMMA SheetTyped ==
    ASSUME NEW sheet \in Stylesheets
    PROVE  sheet.num_fmts \in Seq(Formats) /\ sheet.cell_xfs \in Seq(Nat)
BY DEF Stylesheets, Formats

(* First of a set of positions that is not empty.                            *)
LEMMA FirstIsLeast ==
    ASSUME NEW T \in SUBSET Nat, T # {}
    PROVE  First(T) \in T /\ \A i \in T : First(T) <= i
BY LeastExists DEF First

-----------------------------------------------------------------------------
(* The reader.                                                               *)

TypeOf(sheet, id) == IF id < 164 THEN BuiltinType(id) ELSE FormatType(sheet, id)

LEMMA NeededCodes ==
    /\ DOMAIN Needed = 1 .. 5 /\ Len(Needed) = 5
    /\ \A k \in 1 .. 5 : Needed[k] \in Codes /\ Needed[k] # "none"
    /\ \A j, k \in 1 .. 5 : Needed[j] = Needed[k] => j = k
<1>1. /\ DOMAIN Needed = 1 .. 5 /\ Len(Needed) = 5
      /\ Needed[1] = "dd/mm/yy" /\ Needed[2] = "dd/mm/yyyy hh:mm:ss" /\ Needed[3] = "hh:mm:ss"
      /\ Needed[4] = "dd/mm/yyyy hh:mm:ss.000" /\ Needed[5] = "TRUE/FALSE"
  BY DEF Needed
<1>2. \A k \in 1 .. 5 : k = 1 \/ k = 2 \/ k = 3 \/ k = 4 \/ k = 5
  OBVIOUS
<1>3. \A k \in 1 .. 5 : Needed[k] \in Codes /\ Needed[k] # "none"
  BY <1>1, <1>2 DEF Codes
<1>4. \A j, k \in 1 .. 5 : Needed[j] = Needed[k] => j = k
  BY <1>1, <1>2
<1> QED
  BY <1>1, <1>3, <1>4

LEMMA CodeTyped == \A code : CodeType(code) \in Types
BY DEF CodeType, Types

LEMMA BuiltinTyped == \A id \in Nat : BuiltinType(id) \in Types
<1> SUFFICES ASSUME NEW id \in Nat PROVE BuiltinType(id) \in Types
  OBVIOUS
<1>1. CASE id \in 14 .. 17
  <2>1. id \notin 18 .. 21 /\ id # 22
    BY <1>1
  <2> QED
    BY <1>1, <2>1 DEF BuiltinType, Types
<1>2. CASE id \in 18 .. 21
  <2>1. id \notin 14 .. 17 /\ id # 22
    BY <1>2
  <2> QED
    BY <1>2, <2>1 DEF BuiltinType, Types
<1>3. CASE id = 22
  <2>1. id \notin 14 .. 17 /\ id \notin 18 .. 21
    BY <1>3
  <2> QED
    BY <1>3, <2>1 DEF BuiltinType, Types
<1>4. CASE id \notin 14 .. 17 /\ id \notin 18 .. 21 /\ id # 22
  BY <1>4 DEF BuiltinType, Types
<1> QED
  BY <1>1, <1>2, <1>3, <1>4

LEMMA TypeOfTyped ==
    ASSUME NEW sheet, NEW id \in Nat
    PROVE  TypeOf(sheet, id) \in Types
BY BuiltinTyped, CodeTyped DEF TypeOf, FormatType

(* Of a sound stylesheet the reader keeps a style for every <xf>, at the     *)
(* position of that <xf>.                                                    *)
LEMMA StylesAreTypes ==
    ASSUME NEW sheet \in Stylesheets, SoundStyles(sheet)
    PROVE  /\ Len(CellStyles(sheet)) = Len(sheet.cell_xfs)
           /\ \A x \in DOMAIN sheet.cell_xfs : CellStyles(sheet)[x] = TypeOf(sheet, sheet.cell_xfs[x])
<1> DEFINE xfs == sheet.cell_xfs
           n   == Len(xfs)
           body(f, k) ==
               IF k = 0 THEN << >>
               ELSE LET id == sheet.cell_xfs[k]
                    IN  CASE id < 164 -> Append(f[k - 1], BuiltinType(id))
                          [] id >= 164 /\ Registered(sheet, id) # {} -> Append(f[k - 1], FormatType(sheet, id))
                          [] OTHER -> f[k - 1]
           upto == CHOOSE f : f = [k \in 0 .. Len(sheet.cell_xfs) |-> body(f, k)]
<1>1. CellStyles(sheet) = upto[n]
  BY DEF CellStyles
<1>2. PICK m \in Nat : m = n /\ DOMAIN xfs = 1 .. m /\ \A x \in DOMAIN xfs : xfs[x] \in Nat
  BY SheetTyped, XfTyped
<1>3. \A x \in 1 .. m : xfs[x] > 163 => Registered(sheet, xfs[x]) # {}
  BY <1>2 DEF SoundStyles
<1>4. \A k \in 1 .. m : \A f : body(f, k) = Append(f[k - 1], TypeOf(sheet, xfs[k]))
  <2> SUFFICES ASSUME NEW k \in 1 .. m, NEW f
               PROVE  body(f, k) = Append(f[k - 1], TypeOf(sheet, xfs[k]))
    BY Zenon
  <2>1. xfs[k] \in Nat /\ k # 0
    BY <1>2
  <2>2. CASE xfs[k] < 164
    <3>1. ~(xfs[k] >= 164)
      BY <2>1, <2>2
    <3> QED
      BY <2>1, <2>2, <3>1 DEF TypeOf
  <2>3. CASE xfs[k] >= 164
    <3>1. ~(xfs[k] < 164) /\ Registered(sheet, xfs[k]) # {}
      BY <1>3, <2>1, <2>3
    <3> QED
      BY <2>1, <2>3, <3>1 DEF TypeOf
  <2> QED
    BY <2>1, <2>2, <2>3
<1>5. \A f : body(f, 0) = << >>
  OBVIOUS
<1> HIDE DEF body, n, xfs
<1> DEFINE S    == Seq(Types)
           step == [k \in 1 .. m |-> [s \in S |-> Append(s, TypeOf(sheet, xfs[k]))]]
<1>6. PICK f \in [0 .. m -> S] : f[0] = << >> /\ \A k \in 1 .. m : f[k] = step[k][f[k - 1]]
  <2>1. << >> \in S
    BY EmptySeq
  <2>2. step \in [1 .. m -> [S -> S]]
    <3> SUFFICES ASSUME NEW k \in 1 .. m, NEW s \in S PROVE Append(s, TypeOf(sheet, xfs[k])) \in S
      OBVIOUS
    <3>1. TypeOf(sheet, xfs[k]) \in Types
      BY <1>2, TypeOfTyped
    <3> QED
      BY <3>1, AppendProperties
  <2> HIDE DEF step, S
  <2>3. IsRun(m, S, << >>, step)
    BY <2>1, <2>2, RecursionExists, Zenon
  <2> QED
    BY <2>3 DEF IsRun
<1>7. f = [k \in 0 .. m |-> body(f, k)]
  <2>1. \A k \in 0 .. m : f[k] = body(f, k)
    <3> SUFFICES ASSUME NEW k \in 0 .. m PROVE f[k] = body(f, k)
      OBVIOUS
    <3>1. CASE k = 0
      BY <1>5, <1>6, <3>1
    <3>2. CASE k \in 1 .. m
      <4>1. f[k - 1] \in S
        BY <3>2
      <4>2. f[k] = Append(f[k - 1], TypeOf(sheet, xfs[k]))
        BY <1>6, <3>2, <4>1
      <4> QED
        BY <1>4, <3>2, <4>2, Zenon
    <3> QED
      BY <3>1, <3>2
  <2> QED
    BY <2>1
<1>8. upto = [k \in 0 .. m |-> body(upto, k)]
  <2>1. Len(sheet.cell_xfs) = m
    BY <1>2 DEF n, xfs
  <2> QED
    BY <1>7, <2>1, Zenon
<1> HIDE DEF upto
<1>9. upto[0] = << >> /\ \A k \in 1 .. m : upto[k] = Append(upto[k - 1], TypeOf(sheet, xfs[k]))
  <2>1. 0 \in 0 .. m /\ \A k \in 1 .. m : k \in 0 .. m
    OBVIOUS
  <2> QED
    BY <1>4, <1>5, <1>8, <2>1, Zenon
<1> DEFINE G == {k \in Nat : k <= m =>
                    /\ upto[k] \in Seq(Types) /\ Len(upto[k]) = k
                    /\ \A x \in 1 .. k : upto[k][x] = TypeOf(sheet, xfs[x])}
<1>10. 0 \in G
  <2>1. upto[0] \in Seq(Types) /\ Len(upto[0]) = 0
    BY <1>9
  <2>2. 1 .. 0 = {}
    OBVIOUS
  <2> QED
    BY <2>1, <2>2
<1>11. ASSUME NEW k \in Nat, k \in G PROVE k + 1 \in G
  <2> SUFFICES ASSUME k + 1 <= m
               PROVE  /\ upto[k + 1] \in Seq(Types) /\ Len(upto[k + 1]) = k + 1
                      /\ \A x \in 1 .. k + 1 : upto[k + 1][x] = TypeOf(sheet, xfs[x])
    OBVIOUS
  <2>1. /\ upto[k] \in Seq(Types) /\ Len(upto[k]) = k
        /\ \A x \in 1 .. k : upto[k][x] = TypeOf(sheet, xfs[x])
    BY <1>11
  <2>2. upto[k + 1] = Append(upto[k], TypeOf(sheet, xfs[k + 1]))
    <3>1. k + 1 \in 1 .. m /\ (k + 1) - 1 = k
      OBVIOUS
    <3> QED
      BY <1>9, <3>1, Zenon
  <2>3. TypeOf(sheet, xfs[k + 1]) \in Types
    <3>1. k + 1 \in 1 .. m
      OBVIOUS
    <3> QED
      BY <1>2, <3>1, TypeOfTyped
  <2>4. /\ upto[k + 1] \in Seq(Types) /\ Len(upto[k + 1]) = k + 1
        /\ \A x \in 1 .. k : upto[k + 1][x] = upto[k][x]
        /\ upto[k + 1][k + 1] = TypeOf(sheet, xfs[k + 1])
    BY <2>1, <2>2, <2>3, AppendProperties
  <2>5. \A x \in 1 .. k + 1 : x \in 1 .. k \/ x = k + 1
    OBVIOUS
  <2> QED
    BY <2>1, <2>4, <2>5
<1>12. m \in G
  <2> HIDE DEF G
  <2> QED
    BY <1>10, <1>11, NaturalInduction
<1> QED
  BY <1>1, <1>2, <1>12 DEF n, xfs

-----------------------------------------------------------------------------
(* Formats and styles that are added leave the others what they are.         *)

(* fmts goes on where old ends.                                              *)
Extends(new, old) == \A i \in DOMAIN old : i \in DOMAIN new /\ new[i] = old[i]

LEMMA AppendExtends ==
    ASSUME NEW S, NEW s \in Seq(S), NEW e \in S
    PROVE  /\ Append(s, e) \in Seq(S) /\ Extends(Append(s, e), s)
           /\ Len(Append(s, e)) = Len(s) + 1
           /\ Len(s) + 1 \in DOMAIN Append(s, e) /\ Append(s, e)[Len(s) + 1] = e
           /\ \A i \in DOMAIN Append(s, e) : i \in DOMAIN s \/ i = Len(s) + 1
<1> DEFINE t == Append(s, e)
<1>1. /\ t \in Seq(S) /\ Len(t) = Len(s) + 1
      /\ \A i \in 1 .. Len(s) : t[i] = s[i]
      /\ t[Len(s) + 1] = e
  BY AppendProperties
<1>2. DOMAIN s = 1 .. Len(s) /\ DOMAIN t = 1 .. Len(t) /\ Len(s) \in Nat
  BY <1>1, LenProperties
<1> HIDE DEF t
<1>3. PICK n \in Nat : n = Len(s)
  BY <1>2
<1>4. DOMAIN t = 1 .. n + 1 /\ DOMAIN s = 1 .. n
  BY <1>1, <1>2, <1>3
<1>5. /\ \A i \in 1 .. n : i \in 1 .. n + 1
      /\ \A i \in 1 .. n + 1 : i \in 1 .. n \/ i = n + 1
      /\ n + 1 \in 1 .. n + 1
  OBVIOUS
<1> QED
  BY <1>1, <1>3, <1>4, <1>5 DEF Extends, t

(* In a longer list the first format with a code stays the first.            *)
LEMMA FirstStays ==
    ASSUME NEW old \in Seq(Formats), NEW new \in Seq(Formats), Extends(new, old),
           NEW code, FormatsFor(old, code) # {}
    PROVE  /\ FormatsFor(new, code) # {}
           /\ First(FormatsFor(new, code)) = First(FormatsFor(old, code))
           /\ First(FormatsFor(old, code)) \in DOMAIN old
<1>1. PICK n \in Nat : DOMAIN old = 1 .. n
  BY FormatTyped
<1>2. PICK m \in Nat : DOMAIN new = 1 .. m
  BY FormatTyped
<1>3. FormatsFor(old, code) \in SUBSET Nat /\ FormatsFor(new, code) \in SUBSET Nat
  BY <1>1, <1>2 DEF FormatsFor
<1>4. FormatsFor(old, code) \subseteq FormatsFor(new, code)
  BY DEF FormatsFor, Extends
<1>5. /\ First(FormatsFor(old, code)) \in FormatsFor(old, code)
      /\ \A i \in FormatsFor(old, code) : First(FormatsFor(old, code)) <= i
      /\ First(FormatsFor(new, code)) \in FormatsFor(new, code)
      /\ \A i \in FormatsFor(new, code) : First(FormatsFor(new, code)) <= i
  BY <1>3, <1>4, FirstIsLeast
<1> DEFINE a == First(FormatsFor(old, code))
           b == First(FormatsFor(new, code))
<1> HIDE DEF a, b
<1>6. a \in 1 .. n /\ b \in Nat /\ b <= a /\ b >= 1
  <2>1. b \in 1 .. m
    BY <1>2, <1>5 DEF FormatsFor, b
  <2> QED
    BY <1>1, <1>4, <1>5, <2>1 DEF FormatsFor, a, b
<1>7. b \in DOMAIN old
  BY <1>1, <1>6
<1>8. b \in FormatsFor(old, code)
  BY <1>5, <1>7 DEF FormatsFor, Extends, b
<1>9. a <= b
  BY <1>5, <1>8 DEF a
<1>10. a = b
  BY <1>6, <1>9
<1> QED
  BY <1>1, <1>4, <1>6, <1>10 DEF a, b

(* A format under a custom id of its own is the one that is registered.      *)
LEMMA RegisteredFormat ==
    ASSUME NEW sheet, SoundStyles(sheet), sheet.num_fmts \in Seq(Formats),
           NEW i \in DOMAIN sheet.num_fmts, sheet.num_fmts[i].id > 163,
           sheet.num_fmts[i].code # "none"
    PROVE  /\ Registered(sheet, sheet.num_fmts[i].id) = {i}
           /\ FormatType(sheet, sheet.num_fmts[i].id) = CodeType(sheet.num_fmts[i].code)
           /\ TypeOf(sheet, sheet.num_fmts[i].id) = CodeType(sheet.num_fmts[i].code)
<1> DEFINE id == sheet.num_fmts[i].id
<1>1. Registered(sheet, id) = {i}
  BY DEF Registered, SoundStyles
<1>2. i \in Int /\ id \in Nat
  BY FormatTyped
<1>3. (CHOOSE j \in {i} : \A k \in {i} : j <= k) = i
  BY <1>2
<1>4. FormatType(sheet, id) = CodeType(sheet.num_fmts[i].code)
  BY <1>1, <1>3 DEF FormatType
<1>5. ~(id < 164)
  BY <1>2
<1> QED
  BY <1>1, <1>4, <1>5 DEF TypeOf

(* ReadType of a position within the list.                                   *)
LEMMA ReadsType ==
    ASSUME NEW sheet \in Stylesheets, SoundStyles(sheet), NEW x \in DOMAIN sheet.cell_xfs
    PROVE  ReadType(sheet, x - 1) = TypeOf(sheet, sheet.cell_xfs[x])
<1>1. PICK n \in Nat : n = Len(sheet.cell_xfs) /\ DOMAIN sheet.cell_xfs = 1 .. n
  BY SheetTyped, XfTyped
<1>2. Len(CellStyles(sheet)) = n /\ CellStyles(sheet)[x] = TypeOf(sheet, sheet.cell_xfs[x])
  BY <1>1, StylesAreTypes
<1>3. x - 1 < n /\ (x - 1) + 1 = x
  BY <1>1
<1> QED
  BY <1>2, <1>3 DEF ReadType

(* The type of a style stays when both lists of a sound stylesheet grow into *)
(* those of a sound one.                                                     *)
LEMMA TypeStays ==
    ASSUME NEW old \in Stylesheets, NEW new \in Stylesheets, SoundStyles(old), SoundStyles(new),
           Extends(new.num_fmts, old.num_fmts), Extends(new.cell_xfs, old.cell_xfs),
           NEW x \in DOMAIN old.cell_xfs
    PROVE  ReadType(new, x - 1) = ReadType(old, x - 1)
<1> DEFINE id == old.cell_xfs[x]
<1>1. /\ old.num_fmts \in Seq(Formats) /\ old.cell_xfs \in Seq(Nat)
      /\ new.num_fmts \in Seq(Formats) /\ new.cell_xfs \in Seq(Nat)
  BY SheetTyped
<1>2. x \in DOMAIN new.cell_xfs /\ new.cell_xfs[x] = id /\ id \in Nat
  BY <1>1, XfTyped DEF Extends
<1>3. TypeOf(new, id) = TypeOf(old, id)
  <2>1. CASE id < 164
    BY <2>1 DEF TypeOf
  <2>2. CASE id > 163
    <3>1. PICK i \in Registered(old, id) : TRUE
      BY <2>2 DEF SoundStyles
    <3>2. i \in DOMAIN old.num_fmts /\ old.num_fmts[i].id = id /\ old.num_fmts[i].code # "none"
      BY DEF Registered
    <3>3. i \in DOMAIN new.num_fmts /\ new.num_fmts[i] = old.num_fmts[i]
      BY <3>2 DEF Extends
    <3>4. TypeOf(old, id) = CodeType(old.num_fmts[i].code)
      BY <1>1, <2>2, <3>2, RegisteredFormat
    <3>5. TypeOf(new, id) = CodeType(new.num_fmts[i].code)
      BY <1>1, <2>2, <3>2, <3>3, RegisteredFormat
    <3> QED
      BY <3>3, <3>4, <3>5
  <2> QED
    BY <1>2, <2>1, <2>2
<1> QED
  BY <1>2, <1>3, ReadsType

(* HasStyle stays as well.                                                   *)
LEMMA HasStyleStays ==
    ASSUME NEW old \in Stylesheets, NEW new \in Stylesheets,
           Extends(new.num_fmts, old.num_fmts), Extends(new.cell_xfs, old.cell_xfs),
           NEW code, HasStyle(old.num_fmts, old.cell_xfs, code)
    PROVE  HasStyle(new.num_fmts, new.cell_xfs, code)
<1>1. old.num_fmts \in Seq(Formats) /\ new.num_fmts \in Seq(Formats)
  BY SheetTyped
<1> DEFINE f == First(FormatsFor(old.num_fmts, code))
<1>2. FormatsFor(new.num_fmts, code) # {} /\ First(FormatsFor(new.num_fmts, code)) = f /\ f \in DOMAIN old.num_fmts
  BY <1>1, FirstStays DEF HasStyle
<1>3. PICK x \in DOMAIN old.cell_xfs : old.cell_xfs[x] = old.num_fmts[f].id
  BY DEF HasStyle
<1>4. x \in DOMAIN new.cell_xfs /\ new.cell_xfs[x] = new.num_fmts[f].id
  BY <1>2, <1>3 DEF Extends
<1> QED
  BY <1>2, <1>4 DEF HasStyle

(* A format under an id that is free and custom keeps a stylesheet sound.    *)
LEMMA SoundWithFormat ==
    ASSUME NEW old, SoundStyles(old), old.num_fmts \in Seq(Formats),
           NEW fmt \in Formats, fmt.id > 163, fmt.code # "none",
           \A i \in DOMAIN old.num_fmts : old.num_fmts[i].id # fmt.id,
           NEW new, new.num_fmts = Append(old.num_fmts, fmt), new.cell_xfs = old.cell_xfs
    PROVE  SoundStyles(new) /\ Registered(new, fmt.id) # {}
<1> DEFINE n == Len(old.num_fmts)
<1>1. /\ Extends(new.num_fmts, old.num_fmts)
      /\ n + 1 \in DOMAIN new.num_fmts /\ new.num_fmts[n + 1] = fmt
      /\ \A i \in DOMAIN new.num_fmts : i \in DOMAIN old.num_fmts \/ i = n + 1
  BY AppendExtends
<1> HIDE DEF n
<1>2. \A i, j \in DOMAIN new.num_fmts : new.num_fmts[i].id = new.num_fmts[j].id => i = j
  BY <1>1 DEF SoundStyles, Extends
<1>3. \A i \in DOMAIN new.num_fmts, k \in DOMAIN Needed :
           new.num_fmts[i].code = Needed[k] => new.num_fmts[i].id > 163
  BY <1>1 DEF SoundStyles, Extends
<1>4. \A id : Registered(old, id) \subseteq Registered(new, id)
  BY <1>1 DEF Registered, Extends
<1>5. Registered(new, fmt.id) # {}
  BY <1>1 DEF Registered
<1>6. \A x \in DOMAIN new.cell_xfs : new.cell_xfs[x] > 163 => Registered(new, new.cell_xfs[x]) # {}
  BY <1>4 DEF SoundStyles
<1> QED
  BY <1>2, <1>3, <1>5, <1>6 DEF SoundStyles

(* So does a style for a format that is there.                               *)
LEMMA SoundWithXf ==
    ASSUME NEW old, SoundStyles(old), old.cell_xfs \in Seq(Nat),
           NEW id \in Nat, id > 163 => Registered(old, id) # {},
           NEW new, new.num_fmts = old.num_fmts, new.cell_xfs = Append(old.cell_xfs, id)
    PROVE  SoundStyles(new)
<1> DEFINE n == Len(old.cell_xfs)
<1>1. /\ Extends(new.cell_xfs, old.cell_xfs)
      /\ n + 1 \in DOMAIN new.cell_xfs /\ new.cell_xfs[n + 1] = id
      /\ \A x \in DOMAIN new.cell_xfs : x \in DOMAIN old.cell_xfs \/ x = n + 1
  BY AppendExtends
<1> HIDE DEF n
<1>2. \A j : Registered(new, j) = Registered(old, j)
  BY DEF Registered
<1>3. \A x \in DOMAIN new.cell_xfs : new.cell_xfs[x] > 163 => Registered(new, new.cell_xfs[x]) # {}
  BY <1>1, <1>2 DEF SoundStyles, Extends
<1> QED
  BY <1>3 DEF SoundStyles

-----------------------------------------------------------------------------
(* ResolveStyles, one needed code after the other.                           *)

Accs == [num_fmts : Seq(Formats), cell_xfs : Seq(Nat), next : Nat, id : Nat, indexes : Seq(Nat)]

LEMMA NextIsFree ==
    ASSUME NEW sheet \in Stylesheets
    PROVE  /\ NextCustomId(sheet) \in Nat /\ NextCustomId(sheet) > 163
           /\ \A i \in DOMAIN sheet.num_fmts : sheet.num_fmts[i].id < NextCustomId(sheet)
<1> DEFINE Ids == {sheet.num_fmts[i].id : i \in DOMAIN sheet.num_fmts}
           above == Ids \ (0 .. 164)
<1>1. /\ \E n \in Nat : DOMAIN sheet.num_fmts = 1 .. n
      /\ \A i \in DOMAIN sheet.num_fmts : sheet.num_fmts[i].id \in Nat
  BY SheetTyped, FormatTyped
<1>2. IsFiniteSet(Ids)
  <2> DEFINE f == [i \in DOMAIN sheet.num_fmts |-> sheet.num_fmts[i].id]
  <2>1. Ids = {f[i] : i \in DOMAIN sheet.num_fmts} /\ f = [i \in DOMAIN sheet.num_fmts |-> f[i]]
    OBVIOUS
  <2>2. IsFiniteSet(DOMAIN sheet.num_fmts)
    BY <1>1, FS_Interval
  <2> HIDE DEF f, Ids
  <2> QED
    BY <2>1, <2>2, ImageFinite
<1>3. Ids \in SUBSET Nat /\ \A i \in DOMAIN sheet.num_fmts : sheet.num_fmts[i].id \in Ids
  BY <1>1
<1>4. NextCustomId(sheet) = IF above = {} THEN 165
                            ELSE (CHOOSE id \in above : \A other \in above : other <= id) + 1
  BY DEF NextCustomId
<1> HIDE DEF Ids
<1>5. IsFiniteSet(above) /\ above \in SUBSET Int
  <2>1. above \in SUBSET Ids
    OBVIOUS
  <2> QED
    BY <1>2, <1>3, <2>1, FS_Subset
<1>6. \A id \in Ids : id <= 164 \/ id \in above
  BY <1>3
<1>7. \A id \in above : id > 164 /\ id \in Nat
  BY <1>3
<1> HIDE DEF above
<1>8. CASE above = {}
  <2>1. NextCustomId(sheet) = 165
    BY <1>4, <1>8
  <2>2. \A id \in Ids : id \in Nat /\ id <= 164
    BY <1>3, <1>6, <1>8
  <2>3. \A i \in DOMAIN sheet.num_fmts : sheet.num_fmts[i].id < 165
    <3>1. \A id \in Ids : id < 165
      BY <2>2
    <3> QED
      BY <1>3, <3>1
  <2> QED
    BY <2>1, <2>3
<1>9. CASE above # {}
  <2> DEFINE top == CHOOSE id \in above : \A other \in above : other <= id
  <2>1. \E id \in above : \A other \in above : other <= id
    BY <1>5, <1>9, GreatestExists
  <2>2. top \in above /\ \A other \in above : other <= top
    BY <2>1
  <2>3. NextCustomId(sheet) = top + 1
    BY <1>4, <1>9
  <2> HIDE DEF top
  <2>4. top \in Nat /\ top > 164
    BY <1>7, <2>2
  <2>5. \A id \in Ids : id < top + 1
    <3> SUFFICES ASSUME NEW id \in Ids PROVE id < top + 1
      OBVIOUS
    <3>1. id \in Nat /\ id <= top
      BY <1>3, <1>6, <2>2, <2>4
    <3> QED
      BY <2>4, <3>1
  <2>6. \A i \in DOMAIN sheet.num_fmts : sheet.num_fmts[i].id < top + 1
    BY <1>3, <2>5
  <2> QED
    BY <2>3, <2>4, <2>6
<1> QED
  BY <1>8, <1>9

LEMMA FormatEffect ==
    ASSUME NEW acc \in Accs, NEW code \in Codes
    PROVE  LET new   == ResolveFormat(acc, code)
               found == FormatsFor(acc.num_fmts, code)
           IN  /\ new \in Accs
               /\ new.cell_xfs = acc.cell_xfs /\ new.indexes = acc.indexes
               /\ found # {} => /\ First(found) \in DOMAIN acc.num_fmts
                                /\ acc.num_fmts[First(found)].code = code
                                /\ new.num_fmts = acc.num_fmts /\ new.next = acc.next
                                /\ new.id = acc.num_fmts[First(found)].id
               /\ found = {} => /\ new.num_fmts = Append(acc.num_fmts, [id |-> acc.next, code |-> code])
                                /\ new.next = acc.next + 1 /\ new.id = acc.next
<1> DEFINE found == FormatsFor(acc.num_fmts, code)
           new   == ResolveFormat(acc, code)
<1>1. /\ acc.num_fmts \in Seq(Formats) /\ acc.cell_xfs \in Seq(Nat) /\ acc.indexes \in Seq(Nat)
      /\ acc.next \in Nat /\ acc.id \in Nat
  BY DEF Accs
<1>2. found = {i \in DOMAIN acc.num_fmts : acc.num_fmts[i].code = code}
  BY DEF FormatsFor
<1>3. ASSUME found # {}
      PROVE  First(found) \in DOMAIN acc.num_fmts /\ acc.num_fmts[First(found)].code = code
  <2>1. found \in SUBSET Nat
    BY <1>1, <1>2, FormatTyped
  <2>2. First(found) \in found
    BY <1>3, <2>1, FirstIsLeast
  <2> QED
    BY <1>2, <2>2
<1>4. CASE found # {}
  <2>1. new = [acc EXCEPT !.id = acc.num_fmts[First(found)].id]
    BY <1>2, <1>4 DEF ResolveFormat
  <2>2. acc.num_fmts[First(found)].id \in Nat
    BY <1>1, <1>3, <1>4, FormatTyped
  <2> HIDE DEF found, new
  <2>3. /\ new \in Accs /\ new.num_fmts = acc.num_fmts /\ new.next = acc.next
        /\ new.cell_xfs = acc.cell_xfs /\ new.indexes = acc.indexes
        /\ new.id = acc.num_fmts[First(found)].id
    BY <2>1, <2>2 DEF Accs
  <2> QED
    BY <1>3, <1>4, <2>3 DEF found, new
<1>5. CASE found = {}
  <2> DEFINE fmt == [id |-> acc.next, code |-> code]
  <2>1. new = [acc EXCEPT !.id = acc.next, !.next = acc.next + 1, !.num_fmts = Append(acc.num_fmts, fmt)]
    BY <1>2, <1>5 DEF ResolveFormat
  <2>2. Append(acc.num_fmts, fmt) \in Seq(Formats)
    BY <1>1, AppendProperties DEF Formats
  <2> HIDE DEF found, new, fmt
  <2> DEFINE fmts == Append(acc.num_fmts, fmt)
  <2> HIDE DEF fmts
  <2>3. /\ new \in Accs /\ new.num_fmts = Append(acc.num_fmts, fmt) /\ new.next = acc.next + 1
        /\ new.cell_xfs = acc.cell_xfs /\ new.indexes = acc.indexes /\ new.id = acc.next
    <3>1. acc.next + 1 \in Nat /\ fmts \in Seq(Formats)
      BY <1>1, <2>2 DEF fmts
    <3>2. new = [acc EXCEPT !.id = acc.next, !.next = acc.next + 1, !.num_fmts = fmts]
      BY <2>1 DEF fmts
    <3>3. acc = [num_fmts |-> acc.num_fmts, cell_xfs |-> acc.cell_xfs, next |-> acc.next,
                 id |-> acc.id, indexes |-> acc.indexes]
      BY DEF Accs
    <3>4. new = [num_fmts |-> fmts, cell_xfs |-> acc.cell_xfs, next |-> acc.next + 1,
                 id |-> acc.next, indexes |-> acc.indexes]
      BY <3>2, <3>3
    <3> QED
      BY <1>1, <3>1, <3>4 DEF Accs, fmts
  <2> QED
    BY <1>5, <2>3 DEF found, new, fmt
<1> QED
  BY <1>4, <1>5

LEMMA XfEffect ==
    ASSUME NEW acc \in Accs
    PROVE  LET new   == ResolveXf(acc)
               found == {x \in DOMAIN acc.cell_xfs : acc.cell_xfs[x] = acc.id}
           IN  /\ new \in Accs /\ new.num_fmts = acc.num_fmts /\ new.next = acc.next
               /\ found # {} => /\ First(found) \in found
                                /\ new.cell_xfs = acc.cell_xfs
                                /\ new.indexes = Append(acc.indexes, First(found) - 1)
               /\ found = {} => /\ new.cell_xfs = Append(acc.cell_xfs, acc.id)
                                /\ new.indexes = Append(acc.indexes, Len(acc.cell_xfs))
<1> DEFINE found == {x \in DOMAIN acc.cell_xfs : acc.cell_xfs[x] = acc.id}
           new   == ResolveXf(acc)
<1>1. /\ acc.num_fmts \in Seq(Formats) /\ acc.cell_xfs \in Seq(Nat) /\ acc.indexes \in Seq(Nat)
      /\ acc.next \in Nat /\ acc.id \in Nat
  BY DEF Accs
<1>2. PICK n \in Nat : n = Len(acc.cell_xfs) /\ DOMAIN acc.cell_xfs = 1 .. n
  BY <1>1, XfTyped
<1>3. CASE found # {}
  <2>1. new = [acc EXCEPT !.indexes = Append(acc.indexes, First(found) - 1)]
    BY <1>3 DEF ResolveXf
  <2>2. found \in SUBSET Nat
    BY <1>2
  <2>3. First(found) \in found
    BY <1>3, <2>2, FirstIsLeast
  <2>4. First(found) - 1 \in Nat
    BY <1>2, <2>3
  <2>5. Append(acc.indexes, First(found) - 1) \in Seq(Nat)
    BY <1>1, <2>4, AppendProperties
  <2> HIDE DEF found, new
  <2>6. /\ new \in Accs /\ new.num_fmts = acc.num_fmts /\ new.next = acc.next
        /\ new.cell_xfs = acc.cell_xfs /\ new.indexes = Append(acc.indexes, First(found) - 1)
    BY <2>1, <2>5 DEF Accs
  <2> QED
    BY <1>3, <2>3, <2>6 DEF found, new
<1>4. CASE found = {}
  <2>1. new = [acc EXCEPT !.indexes = Append(acc.indexes, Len(acc.cell_xfs)),
                          !.cell_xfs = Append(acc.cell_xfs, acc.id)]
    BY <1>4 DEF ResolveXf
  <2>2. Append(acc.indexes, Len(acc.cell_xfs)) \in Seq(Nat) /\ Append(acc.cell_xfs, acc.id) \in Seq(Nat)
    BY <1>1, <1>2, AppendProperties
  <2> HIDE DEF found, new
  <2>3. /\ new \in Accs /\ new.num_fmts = acc.num_fmts /\ new.next = acc.next
        /\ new.cell_xfs = Append(acc.cell_xfs, acc.id)
        /\ new.indexes = Append(acc.indexes, Len(acc.cell_xfs))
    BY <2>1, <2>2 DEF Accs
  <2> QED
    BY <1>4, <2>3 DEF found, new
<1> QED
  BY <1>3, <1>4

(* What holds of the accumulator when k codes are resolved: it goes on where *)
(* the stylesheet ends, is sound, and for each of those codes has a style of *)
(* the first format with it, whose position is among the indexes.            *)
Resolved(sheet, acc, k) ==
    /\ acc \in Accs
    /\ Extends(acc.num_fmts, sheet.num_fmts) /\ Extends(acc.cell_xfs, sheet.cell_xfs)
    /\ acc.next > 163
    /\ \A i \in DOMAIN acc.num_fmts : acc.num_fmts[i].id < acc.next
    /\ SoundStyles(acc)
    /\ Len(acc.indexes) = k
    /\ \A j \in 1 .. k :
           /\ FormatsFor(acc.num_fmts, Needed[j]) # {}
           /\ acc.indexes[j] + 1 \in DOMAIN acc.cell_xfs
           /\ acc.cell_xfs[acc.indexes[j] + 1] =
                  acc.num_fmts[First(FormatsFor(acc.num_fmts, Needed[j]))].id

LEMMA ExtendsTwice ==
    ASSUME NEW a, NEW b, NEW c, Extends(b, a), Extends(c, b)
    PROVE  Extends(c, a)
BY DEF Extends

(* First the format, ...                                                     *)
LEMMA FormatStep ==
    ASSUME NEW sheet \in Stylesheets, NEW k \in 1 .. 5, NEW acc, Resolved(sheet, acc, k - 1)
    PROVE  LET mid == ResolveFormat(acc, Needed[k])
           IN  /\ Resolved(sheet, mid, k - 1)
               /\ FormatsFor(mid.num_fmts, Needed[k]) # {}
               /\ mid.id = mid.num_fmts[First(FormatsFor(mid.num_fmts, Needed[k]))].id
               /\ mid.id > 163 => Registered(mid, mid.id) # {}
<1> DEFINE code  == Needed[k]
           mid   == ResolveFormat(acc, code)
           found == FormatsFor(acc.num_fmts, code)
<1>0. code \in Codes /\ code # "none" /\ k \in DOMAIN Needed
  BY NeededCodes
<1>1. /\ acc \in Accs /\ acc.num_fmts \in Seq(Formats) /\ acc.cell_xfs \in Seq(Nat)
      /\ acc.next \in Nat /\ acc.next > 163
      /\ \A i \in DOMAIN acc.num_fmts : acc.num_fmts[i].id < acc.next
      /\ SoundStyles(acc)
  BY DEF Resolved, Accs
<1>2. /\ mid \in Accs
      /\ mid.cell_xfs = acc.cell_xfs /\ mid.indexes = acc.indexes
      /\ found # {} => /\ First(found) \in DOMAIN acc.num_fmts
                       /\ acc.num_fmts[First(found)].code = code
                       /\ mid.num_fmts = acc.num_fmts /\ mid.next = acc.next
                       /\ mid.id = acc.num_fmts[First(found)].id
      /\ found = {} => /\ mid.num_fmts = Append(acc.num_fmts, [id |-> acc.next, code |-> code])
                       /\ mid.next = acc.next + 1 /\ mid.id = acc.next
  BY <1>0, <1>1, FormatEffect
<1> HIDE DEF code, mid, found
<1>3. CASE found # {}
  <2>1. mid.num_fmts = acc.num_fmts /\ mid.next = acc.next
    BY <1>2, <1>3
  <2>2. Resolved(sheet, mid, k - 1)
    BY <1>2, <2>1 DEF Resolved, SoundStyles, Registered
  <2>3. mid.id > 163 => Registered(mid, mid.id) # {}
    BY <1>0, <1>1, <1>2, <1>3, <2>1 DEF Registered
  <2>4. FormatsFor(mid.num_fmts, code) # {} /\ mid.id = mid.num_fmts[First(FormatsFor(mid.num_fmts, code))].id
    BY <1>2, <1>3, <2>1 DEF found
  <2> QED
    BY <2>2, <2>3, <2>4 DEF mid, code
<1>4. CASE found = {}
  <2> DEFINE fmt == [id |-> acc.next, code |-> code]
             n   == Len(acc.num_fmts)
  <2>1. mid.num_fmts = Append(acc.num_fmts, fmt) /\ mid.next = acc.next + 1 /\ mid.id = acc.next
    BY <1>2, <1>4
  <2>2. fmt \in Formats /\ fmt.id = acc.next /\ fmt.code = code
    BY <1>0, <1>1 DEF Formats
  <2> HIDE DEF fmt
  <2>3. /\ Extends(mid.num_fmts, acc.num_fmts) /\ mid.num_fmts \in Seq(Formats)
        /\ n + 1 \in DOMAIN mid.num_fmts /\ mid.num_fmts[n + 1] = fmt
        /\ \A i \in DOMAIN mid.num_fmts : i \in DOMAIN acc.num_fmts \/ i = n + 1
    BY <1>1, <2>1, <2>2, AppendExtends
  <2> HIDE DEF n
  <2>4. \A i \in DOMAIN acc.num_fmts : acc.num_fmts[i].id # acc.next /\ acc.num_fmts[i].id \in Nat
    BY <1>1, FormatTyped
  <2>5. SoundStyles(mid) /\ Registered(mid, acc.next) # {}
    BY <1>0, <1>1, <1>2, <2>1, <2>2, <2>4, SoundWithFormat
  <2>6. \A i \in DOMAIN mid.num_fmts : mid.num_fmts[i].id < mid.next
    <3> SUFFICES ASSUME NEW i \in DOMAIN mid.num_fmts PROVE mid.num_fmts[i].id < mid.next
      OBVIOUS
    <3>1. CASE i \in DOMAIN acc.num_fmts
      <4>1. mid.num_fmts[i] = acc.num_fmts[i] /\ acc.num_fmts[i].id \in Nat /\ acc.num_fmts[i].id < acc.next
        BY <1>1, <2>3, <2>4, <3>1 DEF Extends
      <4> QED
        BY <1>1, <2>1, <4>1
    <3>2. CASE i = n + 1
      BY <1>1, <2>1, <2>2, <2>3, <3>2
    <3> QED
      BY <2>3, <3>1, <3>2
  <2>7. FormatsFor(mid.num_fmts, code) = {n + 1}
    <3>1. \A i \in DOMAIN acc.num_fmts : acc.num_fmts[i].code # code
      BY <1>4 DEF found, FormatsFor
    <3> QED
      BY <2>2, <2>3, <3>1 DEF FormatsFor, Extends
  <2>8. First({n + 1}) = n + 1
    <3>1. n + 1 \in Nat
      BY <2>3, FormatTyped
    <3> QED
      BY <3>1 DEF First
  <2>9. FormatsFor(mid.num_fmts, code) # {} /\ mid.id = mid.num_fmts[First(FormatsFor(mid.num_fmts, code))].id
    BY <2>1, <2>2, <2>3, <2>7, <2>8
  <2>10. ASSUME NEW j \in 1 .. k - 1
         PROVE  /\ FormatsFor(mid.num_fmts, Needed[j]) # {}
                /\ mid.indexes[j] + 1 \in DOMAIN mid.cell_xfs
                /\ mid.cell_xfs[mid.indexes[j] + 1] =
                       mid.num_fmts[First(FormatsFor(mid.num_fmts, Needed[j]))].id
    <3>1. /\ FormatsFor(acc.num_fmts, Needed[j]) # {}
          /\ acc.indexes[j] + 1 \in DOMAIN acc.cell_xfs
          /\ acc.cell_xfs[acc.indexes[j] + 1] =
                 acc.num_fmts[First(FormatsFor(acc.num_fmts, Needed[j]))].id
      BY DEF Resolved
    <3>2. /\ FormatsFor(mid.num_fmts, Needed[j]) # {}
          /\ First(FormatsFor(mid.num_fmts, Needed[j])) = First(FormatsFor(acc.num_fmts, Needed[j]))
          /\ First(FormatsFor(acc.num_fmts, Needed[j])) \in DOMAIN acc.num_fmts
      BY <1>1, <2>3, <3>1, FirstStays
    <3>3. mid.num_fmts[First(FormatsFor(acc.num_fmts, Needed[j]))]
              = acc.num_fmts[First(FormatsFor(acc.num_fmts, Needed[j]))]
      BY <2>3, <3>2 DEF Extends
    <3> QED
      BY <1>2, <3>1, <3>2, <3>3
  <2>11. Extends(mid.num_fmts, sheet.num_fmts) /\ Extends(mid.cell_xfs, sheet.cell_xfs)
    BY <1>2, <2>3, ExtendsTwice DEF Resolved
  <2>12. mid.next > 163
    BY <1>1, <2>1
  <2>13. Len(mid.indexes) = k - 1
    BY <1>2 DEF Resolved
  <2>14. Resolved(sheet, mid, k - 1)
    BY <1>2, <2>5, <2>6, <2>10, <2>11, <2>12, <2>13 DEF Resolved
  <2> QED
    BY <2>1, <2>5, <2>9, <2>14 DEF mid, code
<1> QED
  BY <1>3, <1>4

(* ... then the style.                                                       *)
LEMMA ResolveStep ==
    ASSUME NEW sheet \in Stylesheets, NEW k \in 1 .. 5, NEW acc, Resolved(sheet, acc, k - 1)
    PROVE  Resolved(sheet, ResolveXf(ResolveFormat(acc, Needed[k])), k)
<1> DEFINE mid   == ResolveFormat(acc, Needed[k])
           new   == ResolveXf(mid)
           found == {x \in DOMAIN mid.cell_xfs : mid.cell_xfs[x] = mid.id}
           want  == mid.num_fmts[First(FormatsFor(mid.num_fmts, Needed[k]))].id
<1>1. /\ Resolved(sheet, mid, k - 1)
      /\ FormatsFor(mid.num_fmts, Needed[k]) # {}
      /\ mid.id = want
      /\ mid.id > 163 => Registered(mid, mid.id) # {}
  BY FormatStep
<1> HIDE DEF mid
<1>2. /\ mid \in Accs /\ mid.cell_xfs \in Seq(Nat) /\ mid.indexes \in Seq(Nat)
      /\ mid.id \in Nat /\ SoundStyles(mid) /\ Len(mid.indexes) = k - 1
      /\ Extends(mid.num_fmts, sheet.num_fmts) /\ Extends(mid.cell_xfs, sheet.cell_xfs)
      /\ mid.next > 163 /\ \A i \in DOMAIN mid.num_fmts : mid.num_fmts[i].id < mid.next
  BY <1>1 DEF Resolved, Accs
<1>3. /\ new \in Accs /\ new.num_fmts = mid.num_fmts /\ new.next = mid.next
      /\ found # {} => /\ First(found) \in found
                       /\ new.cell_xfs = mid.cell_xfs
                       /\ new.indexes = Append(mid.indexes, First(found) - 1)
      /\ found = {} => /\ new.cell_xfs = Append(mid.cell_xfs, mid.id)
                       /\ new.indexes = Append(mid.indexes, Len(mid.cell_xfs))
  BY <1>2, XfEffect
<1>4. PICK n \in Nat : n = Len(mid.cell_xfs) /\ DOMAIN mid.cell_xfs = 1 .. n
  BY <1>2, XfTyped
<1> HIDE DEF new, found, want
<1>5. \E s \in Nat : /\ new.indexes = Append(mid.indexes, s)
                     /\ s + 1 \in DOMAIN new.cell_xfs /\ new.cell_xfs[s + 1] = want
                     /\ Extends(new.cell_xfs, mid.cell_xfs) /\ SoundStyles(new)
  <2>1. CASE found # {}
    <3>1. First(found) \in 1 .. n /\ mid.cell_xfs[First(found)] = want
      BY <1>1, <1>3, <1>4, <2>1 DEF found
    <3>2. First(found) - 1 \in Nat /\ (First(found) - 1) + 1 = First(found)
      BY <3>1
    <3>3. Extends(new.cell_xfs, mid.cell_xfs)
      BY <1>3, <2>1 DEF Extends
    <3>4. SoundStyles(new)
      BY <1>2, <1>3, <2>1 DEF SoundStyles, Registered
    <3>5. First(found) \in DOMAIN new.cell_xfs /\ new.cell_xfs[First(found)] = want
      BY <1>3, <1>4, <2>1, <3>1
    <3> QED
      BY <1>3, <2>1, <3>2, <3>3, <3>4, <3>5
  <2>2. CASE found = {}
    <3>1. /\ Extends(new.cell_xfs, mid.cell_xfs)
          /\ n + 1 \in DOMAIN new.cell_xfs /\ new.cell_xfs[n + 1] = mid.id
      <4>1. new.cell_xfs = Append(mid.cell_xfs, mid.id)
        BY <1>3, <2>2
      <4>2. /\ Extends(Append(mid.cell_xfs, mid.id), mid.cell_xfs)
            /\ Len(mid.cell_xfs) + 1 \in DOMAIN Append(mid.cell_xfs, mid.id)
            /\ Append(mid.cell_xfs, mid.id)[Len(mid.cell_xfs) + 1] = mid.id
        BY <1>2, AppendExtends
      <4> QED
        BY <1>4, <4>1, <4>2
    <3>2. SoundStyles(new)
      BY <1>1, <1>2, <1>3, <2>2, SoundWithXf
    <3> QED
      BY <1>1, <1>3, <1>4, <2>2, <3>1, <3>2
  <2> QED
    BY <2>1, <2>2
<1>6. PICK s \in Nat : /\ new.indexes = Append(mid.indexes, s)
                       /\ s + 1 \in DOMAIN new.cell_xfs /\ new.cell_xfs[s + 1] = want
                       /\ Extends(new.cell_xfs, mid.cell_xfs) /\ SoundStyles(new)
  BY <1>5
<1>7. /\ Len(new.indexes) = k
      /\ \A j \in 1 .. k - 1 : new.indexes[j] = mid.indexes[j]
      /\ new.indexes[k] = s
  <2>1. /\ Len(new.indexes) = Len(mid.indexes) + 1
        /\ \A j \in 1 .. Len(mid.indexes) : new.indexes[j] = mid.indexes[j]
        /\ new.indexes[Len(mid.indexes) + 1] = s
    BY <1>2, <1>6, AppendProperties
  <2>2. Len(mid.indexes) = k - 1 /\ (k - 1) + 1 = k
    BY <1>2
  <2> QED
    BY <2>1, <2>2
<1>8. ASSUME NEW j \in 1 .. k
      PROVE  /\ FormatsFor(new.num_fmts, Needed[j]) # {}
             /\ new.indexes[j] + 1 \in DOMAIN new.cell_xfs
             /\ new.cell_xfs[new.indexes[j] + 1] =
                    new.num_fmts[First(FormatsFor(new.num_fmts, Needed[j]))].id
  <2>1. CASE j = k
    BY <1>1, <1>3, <1>6, <1>7, <2>1 DEF want
  <2>2. CASE j \in 1 .. k - 1
    <3>1. /\ FormatsFor(mid.num_fmts, Needed[j]) # {}
          /\ mid.indexes[j] + 1 \in DOMAIN mid.cell_xfs
          /\ mid.cell_xfs[mid.indexes[j] + 1] =
                 mid.num_fmts[First(FormatsFor(mid.num_fmts, Needed[j]))].id
      BY <1>1, <2>2 DEF Resolved
    <3> QED
      BY <1>3, <1>6, <1>7, <2>2, <3>1 DEF Extends
  <2> QED
    BY <2>1, <2>2
<1>9. Extends(new.num_fmts, sheet.num_fmts) /\ Extends(new.cell_xfs, sheet.cell_xfs)
  BY <1>2, <1>3, <1>6, ExtendsTwice
<1> QED
  BY <1>2, <1>3, <1>6, <1>7, <1>8, <1>9 DEF Resolved, new, mid

(* The recursive function of ResolveStyles, step by step.                    *)
ResolveBase(sheet) == [num_fmts |-> sheet.num_fmts, cell_xfs |-> sheet.cell_xfs,
                       next |-> NextCustomId(sheet), id |-> 0, indexes |-> << >>]

LEMMA ResolveUnfolds ==
    ASSUME NEW sheet \in Stylesheets
    PROVE  \E u : /\ u[0] = ResolveBase(sheet)
                  /\ \A k \in 1 .. 5 : u[k] = ResolveXf(ResolveFormat(u[k - 1], Needed[k]))
                  /\ ResolveStyles(sheet) = u[5]
<1> DEFINE body(f, k) ==
               IF k = 0 THEN [num_fmts |-> sheet.num_fmts, cell_xfs |-> sheet.cell_xfs,
                              next |-> NextCustomId(sheet), id |-> 0, indexes |-> << >>]
               ELSE ResolveXf(ResolveFormat(f[k - 1], Needed[k]))
           upto == CHOOSE f : f = [k \in 0 .. Len(Needed) |-> body(f, k)]
<1>1. ResolveStyles(sheet) = upto[Len(Needed)]
  BY DEF ResolveStyles
<1>2. \A f : body(f, 0) = ResolveBase(sheet)
  BY DEF ResolveBase
<1>3. \A f : \A k \in 1 .. 5 : body(f, k) = ResolveXf(ResolveFormat(f[k - 1], Needed[k]))
  OBVIOUS
<1> HIDE DEF body
<1> DEFINE step == [k \in 1 .. 5 |-> [acc \in Accs |-> ResolveXf(ResolveFormat(acc, Needed[k]))]]
<1>4. PICK f \in [0 .. 5 -> Accs] : f[0] = ResolveBase(sheet) /\ \A k \in 1 .. 5 : f[k] = step[k][f[k - 1]]
  <2>1. ResolveBase(sheet) \in Accs
    BY SheetTyped, NextIsFree, EmptySeq DEF ResolveBase, Accs
  <2>2. step \in [1 .. 5 -> [Accs -> Accs]]
    <3> SUFFICES ASSUME NEW k \in 1 .. 5, NEW acc \in Accs
                 PROVE  ResolveXf(ResolveFormat(acc, Needed[k])) \in Accs
      OBVIOUS
    <3> QED
      BY NeededCodes, FormatEffect, XfEffect
  <2>3. 5 \in Nat
    OBVIOUS
  <2> HIDE DEF step
  <2>4. IsRun(5, Accs, ResolveBase(sheet), step)
    BY <2>1, <2>2, <2>3, RecursionExists, Zenon
  <2> QED
    BY <2>4 DEF IsRun
<1>5. f = [k \in 0 .. 5 |-> body(f, k)]
  <2>1. \A k \in 0 .. 5 : f[k] = body(f, k)
    <3> SUFFICES ASSUME NEW k \in 0 .. 5 PROVE f[k] = body(f, k)
      OBVIOUS
    <3>1. CASE k = 0
      BY <1>2, <1>4, <3>1
    <3>2. CASE k \in 1 .. 5
      <4>1. f[k - 1] \in Accs
        BY <3>2
      <4>2. f[k] = ResolveXf(ResolveFormat(f[k - 1], Needed[k]))
        BY <1>4, <3>2, <4>1
      <4> QED
        BY <1>3, <3>2, <4>2, Zenon
    <3> QED
      BY <3>1, <3>2
  <2> QED
    BY <2>1
<1>6. upto = [k \in 0 .. 5 |-> body(upto, k)]
  <2>1. Len(Needed) = 5
    BY NeededCodes
  <2> QED
    BY <1>5, <2>1, Zenon
<1> HIDE DEF upto
<1>7. upto[0] = ResolveBase(sheet) /\ \A k \in 1 .. 5 : upto[k] = ResolveXf(ResolveFormat(upto[k - 1], Needed[k]))
  <2>1. 0 \in 0 .. 5 /\ \A k \in 1 .. 5 : k \in 0 .. 5
    OBVIOUS
  <2> QED
    BY <1>2, <1>3, <1>6, <2>1, Zenon
<1>8. ResolveStyles(sheet) = upto[5]
  BY <1>1, NeededCodes, Zenon
<1> QED
  BY <1>7, <1>8

(* All five codes: the new sheet's styles, of a stylesheet of any producer.  *)
LEMMA ResolveStylesEffect ==
    ASSUME NEW sheet \in Stylesheets, SoundStyles(sheet)
    PROVE  Resolved(sheet, ResolveStyles(sheet), 5)
<1>1. PICK u : /\ u[0] = ResolveBase(sheet)
               /\ \A k \in 1 .. 5 : u[k] = ResolveXf(ResolveFormat(u[k - 1], Needed[k]))
               /\ ResolveStyles(sheet) = u[5]
  BY ResolveUnfolds
<1>2. Resolved(sheet, u[0], 0)
  <2>1. /\ u[0] \in Accs /\ u[0].num_fmts = sheet.num_fmts /\ u[0].cell_xfs = sheet.cell_xfs
        /\ u[0].next = NextCustomId(sheet) /\ Len(u[0].indexes) = 0
    BY <1>1, SheetTyped, NextIsFree, EmptySeq DEF ResolveBase, Accs
  <2>2. Extends(u[0].num_fmts, sheet.num_fmts) /\ Extends(u[0].cell_xfs, sheet.cell_xfs) /\ SoundStyles(u[0])
    BY <2>1 DEF Extends, SoundStyles, Registered
  <2>3. u[0].next > 163 /\ \A i \in DOMAIN u[0].num_fmts : u[0].num_fmts[i].id < u[0].next
    BY <2>1, NextIsFree
  <2>4. 1 .. 0 = {}
    OBVIOUS
  <2> QED
    BY <2>1, <2>2, <2>3, <2>4 DEF Resolved
<1>3. \A k \in 1 .. 5 : Resolved(sheet, u[k - 1], k - 1) => Resolved(sheet, u[k], k)
  BY <1>1, ResolveStep
<1>4. \A k \in 0 .. 4 : Resolved(sheet, u[k], k) => Resolved(sheet, u[k + 1], k + 1)
  <2> SUFFICES ASSUME NEW k \in 0 .. 4, Resolved(sheet, u[k], k) PROVE Resolved(sheet, u[k + 1], k + 1)
    OBVIOUS
  <2>1. k + 1 \in 1 .. 5 /\ (k + 1) - 1 = k
    OBVIOUS
  <2> QED
    BY <1>3, <2>1
<1> DEFINE G == {k \in Nat : k <= 5 => Resolved(sheet, u[k], k)}
<1>5. \A k \in Nat : k \in G => k + 1 \in G
  <2> SUFFICES ASSUME NEW k \in Nat, k \in G, k + 1 <= 5 PROVE Resolved(sheet, u[k + 1], k + 1)
    OBVIOUS
  <2>1. k \in 0 .. 4 /\ Resolved(sheet, u[k], k)
    OBVIOUS
  <2> QED
    BY <1>4, <2>1
<1>6. 5 \in G
  <2>1. 0 \in G
    BY <1>2
  <2> HIDE DEF G
  <2> QED
    BY <1>5, <2>1, NaturalInduction
<1> QED
  BY <1>1, <1>6

(* With a style of the first format for each code there is nothing to add.   *)
LEMMA NothingToPatch ==
    ASSUME NEW sheet \in Stylesheets,
           \A k \in 1 .. 5 : HasStyle(sheet.num_fmts, sheet.cell_xfs, Needed[k])
    PROVE  ~NeedsPatch(sheet)
<1>1. PICK u : /\ u[0] = ResolveBase(sheet)
               /\ \A k \in 1 .. 5 : u[k] = ResolveXf(ResolveFormat(u[k - 1], Needed[k]))
               /\ ResolveStyles(sheet) = u[5]
  BY ResolveUnfolds
<1> DEFINE Same(acc) == acc \in Accs /\ acc.num_fmts = sheet.num_fmts /\ acc.cell_xfs = sheet.cell_xfs
<1>2. Same(u[0])
  BY <1>1, SheetTyped, NextIsFree, EmptySeq DEF ResolveBase, Accs
<1>3. ASSUME NEW k \in 1 .. 5, NEW acc, Same(acc)
      PROVE  Same(ResolveXf(ResolveFormat(acc, Needed[k])))
  <2> DEFINE found == FormatsFor(acc.num_fmts, Needed[k])
             mid   == ResolveFormat(acc, Needed[k])
  <2>1. found # {} /\ \E x \in DOMAIN acc.cell_xfs : acc.cell_xfs[x] = acc.num_fmts[First(found)].id
    BY <1>3 DEF HasStyle
  <2>2. mid \in Accs /\ mid.num_fmts = acc.num_fmts /\ mid.cell_xfs = acc.cell_xfs
        /\ mid.id = acc.num_fmts[First(found)].id
    BY <1>3, <2>1, NeededCodes, FormatEffect
  <2> HIDE DEF mid, found
  <2>3. {x \in DOMAIN mid.cell_xfs : mid.cell_xfs[x] = mid.id} # {}
    BY <2>1, <2>2
  <2>4. Same(ResolveXf(mid))
    BY <1>3, <2>2, <2>3, XfEffect
  <2> QED
    BY <2>4 DEF mid
<1> HIDE DEF Same
<1>4. \A k \in 1 .. 5 : Same(u[k - 1]) => Same(u[k])
  BY <1>1, <1>3
<1> DEFINE G == {k \in Nat : k <= 5 => Same(u[k])}
<1>5. \A k \in Nat : k \in G => k + 1 \in G
  <2> SUFFICES ASSUME NEW k \in Nat, k \in G, k + 1 <= 5 PROVE Same(u[k + 1])
    OBVIOUS
  <2>1. k + 1 \in 1 .. 5 /\ (k + 1) - 1 = k /\ Same(u[k])
    OBVIOUS
  <2> QED
    BY <1>4, <2>1
<1>6. 5 \in G
  <2>1. 0 \in G
    BY <1>2
  <2> HIDE DEF G
  <2> QED
    BY <1>5, <2>1, NaturalInduction
<1>7. Same(ResolveStyles(sheet))
  BY <1>1, <1>6
<1> QED
  BY <1>7 DEF NeedsPatch, Same

(* HasStyle of every code, from what Resolved says, and the type every one   *)
(* of the indexes is read as.                                                *)
LEMMA WriteSheetEffect ==
    ASSUME NEW sheet \in Stylesheets, SoundStyles(sheet)
    PROVE  LET new     == IF NeedsPatch(sheet) THEN PatchStylesXml(sheet) ELSE sheet
               indexes == ResolveStyles(sheet).indexes
           IN  /\ new \in Stylesheets /\ SoundStyles(new)
               /\ Extends(new.num_fmts, sheet.num_fmts) /\ Extends(new.cell_xfs, sheet.cell_xfs)
               /\ \A k \in 1 .. 5 : /\ HasStyle(new.num_fmts, new.cell_xfs, Needed[k])
                                    /\ indexes[k] \in Nat /\ indexes[k] < Len(new.cell_xfs)
                                    /\ ReadType(new, indexes[k]) = CodeType(Needed[k])
<1> DEFINE acc     == ResolveStyles(sheet)
           new     == IF NeedsPatch(sheet) THEN PatchStylesXml(sheet) ELSE sheet
           indexes == acc.indexes
<1>1. Resolved(sheet, acc, 5)
  BY ResolveStylesEffect
<1>2. new = [num_fmts |-> acc.num_fmts, cell_xfs |-> acc.cell_xfs]
  <2>1. CASE NeedsPatch(sheet)
    BY <2>1 DEF PatchStylesXml
  <2>2. CASE ~NeedsPatch(sheet)
    <3>1. acc.num_fmts = sheet.num_fmts /\ acc.cell_xfs = sheet.cell_xfs
      BY <2>2 DEF NeedsPatch
    <3>2. sheet = [num_fmts |-> sheet.num_fmts, cell_xfs |-> sheet.cell_xfs]
      BY DEF Stylesheets
    <3> QED
      BY <2>2, <3>1, <3>2
  <2> QED
    BY <2>1, <2>2
<1> HIDE DEF new, acc
<1>3. /\ acc.num_fmts \in Seq(Formats) /\ acc.cell_xfs \in Seq(Nat) /\ indexes \in Seq(Nat)
      /\ new.num_fmts = acc.num_fmts /\ new.cell_xfs = acc.cell_xfs /\ Len(indexes) = 5
  BY <1>1, <1>2 DEF Resolved, Accs
<1>4. new \in Stylesheets
  BY <1>2, <1>3 DEF Stylesheets, Formats
<1>5. SoundStyles(new)
  <2>1. SoundStyles(acc) /\ \A id : Registered(new, id) = Registered(acc, id)
    BY <1>1, <1>3 DEF Resolved, Registered
  <2> QED
    BY <1>3, <2>1 DEF SoundStyles
<1>6. Extends(new.num_fmts, sheet.num_fmts) /\ Extends(new.cell_xfs, sheet.cell_xfs)
  BY <1>1, <1>3 DEF Resolved
<1>7. ASSUME NEW k \in 1 .. 5
      PROVE  /\ HasStyle(new.num_fmts, new.cell_xfs, Needed[k])
             /\ indexes[k] \in Nat /\ indexes[k] < Len(new.cell_xfs)
             /\ ReadType(new, indexes[k]) = CodeType(Needed[k])
  <2> DEFINE first == First(FormatsFor(new.num_fmts, Needed[k]))
             x     == indexes[k] + 1
  <2>1. /\ FormatsFor(new.num_fmts, Needed[k]) # {}
        /\ x \in DOMAIN new.cell_xfs /\ new.cell_xfs[x] = new.num_fmts[first].id
    BY <1>1, <1>3 DEF Resolved
  <2>2. first \in DOMAIN new.num_fmts /\ new.num_fmts[first].code = Needed[k]
    <3>1. FormatsFor(new.num_fmts, Needed[k]) \in SUBSET Nat
      BY <1>3, FormatTyped DEF FormatsFor
    <3>2. first \in FormatsFor(new.num_fmts, Needed[k])
      BY <2>1, <3>1, FirstIsLeast
    <3> QED
      BY <3>2 DEF FormatsFor
  <2>3. indexes[k] \in Nat
    BY <1>3, ElementOfSeq
  <2> HIDE DEF first
  <2>4. HasStyle(new.num_fmts, new.cell_xfs, Needed[k])
    BY <2>1 DEF HasStyle, first
  <2>5. indexes[k] < Len(new.cell_xfs)
    <3>1. PICK n \in Nat : n = Len(new.cell_xfs) /\ DOMAIN new.cell_xfs = 1 .. n
      BY <1>3, XfTyped
    <3> QED
      BY <2>1, <2>3, <3>1
  <2>6. new.num_fmts[first].id > 163 /\ new.num_fmts[first].code # "none"
    BY <1>5, <2>2, NeededCodes DEF SoundStyles
  <2>7. TypeOf(new, new.num_fmts[first].id) = CodeType(Needed[k])
    BY <1>3, <1>5, <2>2, <2>6, RegisteredFormat
  <2>8. ReadType(new, x - 1) = TypeOf(new, new.cell_xfs[x])
    BY <1>4, <1>5, <2>1, ReadsType
  <2>9. x - 1 = indexes[k]
    BY <2>3
  <2> HIDE DEF x
  <2> QED
    BY <2>1, <2>3, <2>4, <2>5, <2>7, <2>8, <2>9
<1> QED
  BY <1>4, <1>5, <1>6, <1>7 DEF new, acc

(* Another program's format and style.                                       *)
LEMMA OtherProgramEffect ==
    ASSUME NEW sheet \in Stylesheets, SoundStyles(sheet), NEW fmt \in Additions,
           \A i \in DOMAIN sheet.num_fmts : sheet.num_fmts[i].id # fmt.id,
           NEW new, new = [num_fmts |-> Append(sheet.num_fmts, fmt),
                           cell_xfs |-> Append(sheet.cell_xfs, fmt.id)]
    PROVE  /\ new \in Stylesheets /\ SoundStyles(new)
           /\ Extends(new.num_fmts, sheet.num_fmts) /\ Extends(new.cell_xfs, sheet.cell_xfs)
<1>1. fmt \in Formats /\ fmt.id \in Nat /\ fmt.id > 163 /\ fmt.code # "none"
  BY StylesAssumption, SoundAssumption DEF Formats
<1>2. sheet.num_fmts \in Seq(Formats) /\ sheet.cell_xfs \in Seq(Nat)
  BY SheetTyped
<1> DEFINE mid == [num_fmts |-> Append(sheet.num_fmts, fmt), cell_xfs |-> sheet.cell_xfs]
<1>3. mid.num_fmts = Append(sheet.num_fmts, fmt) /\ mid.cell_xfs = sheet.cell_xfs
  OBVIOUS
<1> HIDE DEF mid
<1>4. SoundStyles(mid) /\ Registered(mid, fmt.id) # {}
  BY <1>1, <1>2, <1>3, SoundWithFormat
<1>5. SoundStyles(new)
  BY <1>1, <1>2, <1>3, <1>4, SoundWithXf
<1>6. /\ new.num_fmts \in Seq(Formats) /\ new.cell_xfs \in Seq(Nat)
      /\ Extends(new.num_fmts, sheet.num_fmts) /\ Extends(new.cell_xfs, sheet.cell_xfs)
  BY <1>1, <1>2, AppendExtends
<1>7. new \in Stylesheets
  BY <1>6 DEF Stylesheets, Formats
<1> QED
  BY <1>5, <1>6, <1>7

(* What is written in a stylesheet keeps its place and type in one that goes *)
(* on where the first ends.                                                  *)
LEMMA CellStays ==
    ASSUME NEW old \in Stylesheets, NEW new \in Stylesheets, SoundStyles(old), SoundStyles(new),
           Extends(new.num_fmts, old.num_fmts), Extends(new.cell_xfs, old.cell_xfs),
           NEW s \in Nat, s < Len(old.cell_xfs)
    PROVE  s < Len(new.cell_xfs) /\ ReadType(new, s) = ReadType(old, s)
<1>1. PICK n \in Nat : n = Len(old.cell_xfs) /\ DOMAIN old.cell_xfs = 1 .. n
  BY SheetTyped, XfTyped
<1>2. PICK m \in Nat : m = Len(new.cell_xfs) /\ DOMAIN new.cell_xfs = 1 .. m
  BY SheetTyped, XfTyped
<1>3. s + 1 \in DOMAIN old.cell_xfs /\ (s + 1) - 1 = s
  BY <1>1
<1>4. s + 1 \in DOMAIN new.cell_xfs
  BY <1>3 DEF Extends
<1>5. s < m
  BY <1>2, <1>4
<1>6. ReadType(new, (s + 1) - 1) = ReadType(old, (s + 1) - 1)
  BY <1>3, TypeStays
<1> QED
  BY <1>2, <1>3, <1>5, <1>6

-----------------------------------------------------------------------------
LEMMA ListIsSeq ==
    ASSUME NEW S, NEW n \in Nat, NEW f, f \in [1 .. n -> S]
    PROVE  f \in Seq(S)
BY SeqDef

(* What the writer of a fresh workbook promises with its fixed indexes.      *)
LEMMA FreshIsSound ==
    /\ FreshStyles \in Stylesheets /\ SoundStyles(FreshStyles) /\ Len(FreshStyles.cell_xfs) = 6
    /\ \A k \in 1 .. 5 : /\ HasStyle(FreshStyles.num_fmts, FreshStyles.cell_xfs, Needed[k])
                         /\ FreshIndexes[k] = k
                         /\ ReadType(FreshStyles, k) = CodeType(Needed[k])
<1> DEFINE fmts == FreshStyles.num_fmts
           xfs  == FreshStyles.cell_xfs
<1>1. /\ fmts = [i \in 1 .. 6 |-> [id |-> 163 + i, code |-> IF i = 1 THEN "General" ELSE Needed[i - 1]]]
      /\ xfs = [i \in 1 .. 6 |-> 163 + i]
      /\ FreshStyles = [num_fmts |-> fmts, cell_xfs |-> xfs]
  BY DEF FreshStyles
<1> HIDE DEF fmts, xfs
<1>2. /\ DOMAIN fmts = 1 .. 6 /\ DOMAIN xfs = 1 .. 6
      /\ \A i \in 1 .. 6 : fmts[i].id = 163 + i /\ xfs[i] = 163 + i
      /\ fmts[1].code = "General"
  BY <1>1
<1>3. \A k \in 1 .. 5 : fmts[k + 1].code = Needed[k] /\ Needed[k] \in Codes
  <2> SUFFICES ASSUME NEW k \in 1 .. 5 PROVE fmts[k + 1].code = Needed[k] /\ Needed[k] \in Codes
    OBVIOUS
  <2>1. k + 1 \in 1 .. 6 /\ k + 1 # 1 /\ (k + 1) - 1 = k
    OBVIOUS
  <2> QED
    BY <1>1, <2>1, NeededCodes
<1>4. \A i \in 1 .. 6 : fmts[i] \in Formats
  <2> SUFFICES ASSUME NEW i \in 1 .. 6 PROVE fmts[i] \in Formats
    OBVIOUS
  <2>1. (IF i = 1 THEN "General" ELSE Needed[i - 1]) \in Codes
    <3>1. CASE i = 1
      BY <3>1 DEF Codes
    <3>2. CASE i # 1
      <4>1. i - 1 \in 1 .. 5
        BY <3>2
      <4> QED
        BY <3>2, <4>1, NeededCodes
    <3> QED
      BY <3>1, <3>2
  <2>2. 163 + i \in Nat
    OBVIOUS
  <2> QED
    BY <1>1, <2>1, <2>2 DEF Formats
<1>5. fmts \in Seq(Formats) /\ xfs \in Seq(Nat) /\ Len(xfs) = 6
  <2>1. \A i \in 1 .. 6 : xfs[i] \in Nat
    BY <1>2
  <2>2. fmts \in [1 .. 6 -> Formats] /\ xfs \in [1 .. 6 -> Nat]
    BY <1>1, <1>2, <1>4, <2>1
  <2>3. 6 \in Nat
    OBVIOUS
  <2>4. fmts \in Seq(Formats) /\ xfs \in Seq(Nat)
    BY <2>2, <2>3, ListIsSeq
  <2> QED
    BY <1>2, <2>4, LenProperties
<1>6. FreshStyles \in Stylesheets
  BY <1>1, <1>5 DEF Stylesheets, Formats
<1>7. SoundStyles(FreshStyles)
  <2>1. \A i, j \in DOMAIN fmts : fmts[i].id = fmts[j].id => i = j
    BY <1>2
  <2>2. \A i \in DOMAIN fmts : fmts[i].id > 163
    BY <1>2
  <2>3. ASSUME NEW x \in DOMAIN xfs PROVE Registered(FreshStyles, xfs[x]) # {}
    <3>1. x \in 1 .. 6 /\ fmts[x].id = xfs[x] /\ xfs[x] > 163
      BY <1>2
    <3>2. fmts[x].code # "none"
      <4>1. CASE x = 1
        BY <1>2, <4>1
      <4>2. CASE x # 1
        <5>1. x - 1 \in 1 .. 5 /\ (x - 1) + 1 = x
          BY <3>1, <4>2
        <5> QED
          BY <1>3, <5>1, NeededCodes
      <4> QED
        BY <4>1, <4>2
    <3> QED
      BY <1>1, <1>2, <3>1, <3>2 DEF Registered
  <2>4. FreshStyles.num_fmts = fmts /\ FreshStyles.cell_xfs = xfs
    BY <1>1
  <2> QED
    BY <2>1, <2>2, <2>3, <2>4 DEF SoundStyles
<1>8. ASSUME NEW k \in 1 .. 5
      PROVE  /\ HasStyle(fmts, xfs, Needed[k])
             /\ FreshIndexes[k] = k /\ ReadType(FreshStyles, k) = CodeType(Needed[k])
  <2>1. k + 1 \in 1 .. 6 /\ (k + 1) - 1 = k
    OBVIOUS
  <2>2. FormatsFor(fmts, Needed[k]) = {k + 1}
    <3>1. ASSUME NEW i \in 1 .. 6, fmts[i].code = Needed[k] PROVE i = k + 1
      <4>1. i # 1
        <5>1. Needed[k] # "General"
          <6>1. k = 1 \/ k = 2 \/ k = 3 \/ k = 4 \/ k = 5
            OBVIOUS
          <6>2. /\ Needed[1] # "General" /\ Needed[2] # "General" /\ Needed[3] # "General"
                /\ Needed[4] # "General" /\ Needed[5] # "General"
            BY DEF Needed
          <6> QED
            BY <6>1, <6>2
        <5> QED
          BY <1>2, <3>1, <5>1
      <4>2. i - 1 \in 1 .. 5 /\ (i - 1) + 1 = i
        BY <4>1
      <4>3. Needed[i - 1] = Needed[k]
        BY <1>3, <3>1, <4>2
      <4>4. i - 1 = k
        BY <4>2, <4>3, NeededCodes
      <4> QED
        BY <4>2, <4>4
    <3> QED
      BY <1>2, <1>3, <2>1, <3>1 DEF FormatsFor
  <2>3. First({k + 1}) = k + 1
    BY <2>1 DEF First
  <2>4. HasStyle(fmts, xfs, Needed[k])
    BY <1>2, <2>1, <2>2, <2>3 DEF HasStyle
  <2>5. FreshIndexes[k] = k
    <3>1. k = 1 \/ k = 2 \/ k = 3 \/ k = 4 \/ k = 5
      OBVIOUS
    <3> QED
      BY <3>1 DEF FreshIndexes
  <2>6. xfs[k + 1] = fmts[k + 1].id /\ fmts[k + 1].id > 163 /\ fmts[k + 1].code = Needed[k]
        /\ Needed[k] # "none"
    BY <1>2, <1>3, <2>1, NeededCodes
  <2>7. ReadType(FreshStyles, (k + 1) - 1) = TypeOf(FreshStyles, xfs[k + 1])
    BY <1>1, <1>2, <1>6, <1>7, <2>1, ReadsType
  <2>8. TypeOf(FreshStyles, fmts[k + 1].id) = CodeType(fmts[k + 1].code)
    <3> DEFINE i == k + 1
    <3>1. FreshStyles.num_fmts = fmts
      BY <1>1
    <3>2. i \in DOMAIN fmts /\ fmts[i].id > 163 /\ fmts[i].code # "none"
      BY <1>2, <2>1, <2>6
    <3> HIDE DEF i
    <3>3. TypeOf(FreshStyles, fmts[i].id) = CodeType(fmts[i].code)
      BY <1>5, <1>7, <3>1, <3>2, RegisteredFormat
    <3> QED
      BY <3>3 DEF i
  <2> QED
    BY <2>1, <2>4, <2>5, <2>6, <2>7, <2>8
<1> QED
  BY <1>1, <1>5, <1>6, <1>7, <1>8

-----------------------------------------------------------------------------
(* The theorems.                                                             *)

LEMMA WrittenCells ==
    ASSUME NEW indexes, NEW c
    PROVE  c \in Written(indexes) <=> \E k \in 1 .. 5 : c = [kind |-> k, s |-> indexes[k]]
BY NeededCodes DEF Written

LEMMA StylesInit == Init => StylesInv
<1> SUFFICES ASSUME Init PROVE StylesInv
  OBVIOUS
<1>1. CASE styles = FreshStyles /\ cells = Written(FreshIndexes)
  <2>1. styles \in Stylesheets /\ SoundStyles(styles) /\ Len(styles.cell_xfs) = 6
        /\ \A k \in 1 .. 5 : /\ HasStyle(styles.num_fmts, styles.cell_xfs, Needed[k])
                             /\ FreshIndexes[k] = k /\ ReadType(styles, k) = CodeType(Needed[k])
    BY <1>1, FreshIsSound
  <2>2. ASSUME NEW c \in cells
        PROVE  /\ c.kind \in DOMAIN Needed /\ c.s \in Nat /\ c.s < Len(styles.cell_xfs)
               /\ ReadType(styles, c.s) = CodeType(Needed[c.kind])
    <3>1. PICK k \in 1 .. 5 : c = [kind |-> k, s |-> FreshIndexes[k]]
      BY <1>1, WrittenCells
    <3>2. c.kind = k /\ c.s = k
      BY <2>1, <3>1
    <3> QED
      BY <2>1, <3>2, NeededCodes
  <2> QED
    BY <2>1, <2>2, NeededCodes DEF StylesInv
<1>2. CASE styles \in ThirdParty /\ cells = {}
  BY <1>2, StylesAssumption, SoundAssumption DEF StylesInv
<1> QED
  BY <1>1, <1>2 DEF Init

(* Both kinds of change go on where styles.xml ends and keep it sound.       *)
LEMMA StylesGoOn ==
    ASSUME StylesInv, Next
    PROVE  /\ styles \in Stylesheets /\ SoundStyles(styles)
           /\ styles' \in Stylesheets /\ SoundStyles(styles')
           /\ Extends(styles'.num_fmts, styles.num_fmts) /\ Extends(styles'.cell_xfs, styles.cell_xfs)
<1>0. styles \in Stylesheets /\ SoundStyles(styles)
  BY DEF StylesInv
<1>1. CASE WriteSheet
  <2>1. styles' = IF NeedsPatch(styles) THEN PatchStylesXml(styles) ELSE styles
    BY <1>1 DEF WriteSheet
  <2> QED
    BY <1>0, <2>1, WriteSheetEffect
<1>2. CASE OtherProgramAdds
  <2>1. PICK fmt \in Additions :
            /\ \A i \in DOMAIN styles.num_fmts : styles.num_fmts[i].id # fmt.id
            /\ styles' = [num_fmts |-> Append(styles.num_fmts, fmt),
                          cell_xfs |-> Append(styles.cell_xfs, fmt.id)]
    BY <1>2 DEF OtherProgramAdds
  <2> QED
    BY <1>0, <2>1, OtherProgramEffect
<1> QED
  BY <1>1, <1>2 DEF Next

LEMMA StylesStep == StylesInv /\ [Next]_vars => StylesInv'
<1> SUFFICES ASSUME StylesInv, [Next]_vars PROVE StylesInv'
  OBVIOUS
<1>1. CASE UNCHANGED vars
  BY <1>1 DEF vars, StylesInv
<1>2. CASE Next
  <2>1. /\ styles \in Stylesheets /\ SoundStyles(styles)
        /\ styles' \in Stylesheets /\ SoundStyles(styles')
        /\ Extends(styles'.num_fmts, styles.num_fmts) /\ Extends(styles'.cell_xfs, styles.cell_xfs)
    BY <1>2, StylesGoOn
  <2>2. ASSUME NEW c \in cells
        PROVE  /\ c.kind \in DOMAIN Needed /\ c.s \in Nat /\ c.s < Len(styles'.cell_xfs)
               /\ ReadType(styles', c.s) = CodeType(Needed[c.kind])
    <3>1. /\ c.kind \in DOMAIN Needed /\ c.s \in Nat /\ c.s < Len(styles.cell_xfs)
          /\ ReadType(styles, c.s) = CodeType(Needed[c.kind])
      BY DEF StylesInv
    <3>2. c.s < Len(styles'.cell_xfs) /\ ReadType(styles', c.s) = ReadType(styles, c.s)
      BY <2>1, <3>1, CellStays
    <3> QED
      BY <3>1, <3>2
  <2>3. CASE WriteSheet
    <3> DEFINE indexes == ResolveStyles(styles).indexes
    <3>1. \A k \in 1 .. 5 : /\ HasStyle(styles'.num_fmts, styles'.cell_xfs, Needed[k])
                            /\ indexes[k] \in Nat /\ indexes[k] < Len(styles'.cell_xfs)
                            /\ ReadType(styles', indexes[k]) = CodeType(Needed[k])
      <4>1. styles' = IF NeedsPatch(styles) THEN PatchStylesXml(styles) ELSE styles
        BY <2>3 DEF WriteSheet
      <4> QED
        BY <2>1, <4>1, WriteSheetEffect
    <3>2. cells' = cells \cup Written(indexes)
      BY <2>3 DEF WriteSheet
    <3> HIDE DEF indexes
    <3>3. ASSUME NEW c \in Written(indexes)
          PROVE  /\ c.kind \in DOMAIN Needed /\ c.s \in Nat /\ c.s < Len(styles'.cell_xfs)
                 /\ ReadType(styles', c.s) = CodeType(Needed[c.kind])
      <4>1. PICK k \in 1 .. 5 : c = [kind |-> k, s |-> indexes[k]]
        BY WrittenCells
      <4>2. c.kind = k /\ c.s = indexes[k]
        BY <4>1
      <4> QED
        BY <3>1, <4>2, NeededCodes
    <3> QED
      BY <2>1, <2>2, <3>1, <3>2, <3>3, NeededCodes DEF StylesInv
  <2>4. CASE OtherProgramAdds
    <3>1. cells' = cells
      BY <2>4 DEF OtherProgramAdds
    <3>2. cells # {} => \A k \in DOMAIN Needed : HasStyle(styles'.num_fmts, styles'.cell_xfs, Needed[k])
      BY <2>1, HasStyleStays DEF StylesInv
    <3> QED
      BY <2>1, <2>2, <3>1, <3>2 DEF StylesInv
  <2> QED
    BY <1>2, <2>3, <2>4 DEF Next
<1> QED
  BY <1>1, <1>2

LEMMA StylesInvHolds == Spec => []StylesInv
BY StylesInit, StylesStep, PTL DEF Spec

(* Every date, time and timestamp the extension has written is read back as  *)
(* what it is, however often the workbook is appended to and edited.         *)
THEOREM StylesCorrect == Spec => []CellsKeepTypes
<1>1. StylesInv => CellsKeepTypes
  BY DEF StylesInv, CellsKeepTypes, SoundStyles
<1> QED
  BY <1>1, StylesInvHolds, PTL

(* A workbook the extension has written to needs no further patch: what      *)
(* ResolveStyles looks for is there, so the second append adds nothing.      *)
THEOREM PatchedOnce == Spec => []Settled
<1>1. StylesInv => Settled
  BY NothingToPatch, NeededCodes DEF StylesInv, Settled
<1> QED
  BY <1>1, StylesInvHolds, PTL

(* No step moves a style or changes what it is read as.                      *)
THEOREM StylesKeepPlace == Spec => OldStylesStay
<1> DEFINE Stay == \A i \in DOMAIN styles.cell_xfs :
                       /\ i \in DOMAIN styles'.cell_xfs /\ styles'.cell_xfs[i] = styles.cell_xfs[i]
                       /\ ReadType(styles', i - 1) = ReadType(styles, i - 1)
<1>1. StylesInv /\ [Next]_vars => [Stay]_vars
  <2> SUFFICES ASSUME StylesInv, Next PROVE Stay
    OBVIOUS
  <2>1. /\ styles \in Stylesheets /\ SoundStyles(styles)
        /\ styles' \in Stylesheets /\ SoundStyles(styles')
        /\ Extends(styles'.num_fmts, styles.num_fmts) /\ Extends(styles'.cell_xfs, styles.cell_xfs)
    BY StylesGoOn
  <2>2. \A i \in DOMAIN styles.cell_xfs :
            i \in DOMAIN styles'.cell_xfs /\ styles'.cell_xfs[i] = styles.cell_xfs[i]
    BY <2>1 DEF Extends
  <2>3. \A i \in DOMAIN styles.cell_xfs : ReadType(styles', i - 1) = ReadType(styles, i - 1)
    BY <2>1, TypeStays
  <2> QED
    BY <2>2, <2>3
<1> QED
  BY <1>1, StylesInvHolds, PTL DEF Spec, OldStylesStay
=============================================================================
