----------------------------- MODULE SwapProofs -----------------------------
(***************************************************************************)
(* Proofs about WorkbookSwap for any number of COPYs and scans, with every *)
(* failure and any number of tries: what holds of COPYs that overlap in any*)
(* way, and what holds only of those that run one after the other.         *)
(***************************************************************************)
EXTENDS SwapProperties, SequenceTheorems, TLAPS

-----------------------------------------------------------------------------
(* Sequences that are known by their elements only.  The provers see the two *)
(* operators below as they are named, and so can match them.                 *)

Extended(s, e) == Append(s, e)
Written(s, k, e) == [s EXCEPT ![k] = e]

(* Append keeps a sequence one and disturbs no element (OpenFresh, CopyEntries). *)
LEMMA AppendInSequence ==
    ASSUME NEW s, IsSequence(s), NEW e
    PROVE  /\ IsSequence(Extended(s, e))
           /\ Len(Extended(s, e)) = Len(s) + 1
           /\ DOMAIN Extended(s, e) = 1 .. Len(s) + 1
           /\ \A i \in 1 .. Len(s) : Extended(s, e)[i] = s[i]
           /\ Extended(s, e)[Len(s) + 1] = e
<1> DEFINE t == Append(s, e)
<1> DEFINE S == {s[i] : i \in DOMAIN s} \cup {e}
<1>1. s \in Seq(S)
  BY DEF IsSequence
<1>2. /\ t \in Seq(S) /\ Len(s) \in Nat /\ Len(t) = Len(s) + 1
      /\ \A i \in 1 .. Len(s) : t[i] = s[i]
      /\ t[Len(s) + 1] = e
  BY <1>1
<1>3. DOMAIN t = 1 .. Len(s) + 1 /\ DOMAIN s = 1 .. Len(s)
  BY <1>1, <1>2
<1>4. t \in Seq({t[i] : i \in DOMAIN t})
  BY <1>2
<1> QED
  BY <1>2, <1>3, <1>4 DEF IsSequence, Extended

(* So does writing one element in place (OpenFresh, FinishFresh, FinishZip). *)
LEMMA ExceptInSequence ==
    ASSUME NEW s, IsSequence(s), NEW k \in 1 .. Len(s), NEW e
    PROVE  /\ IsSequence(Written(s, k, e))
           /\ Len(Written(s, k, e)) = Len(s)
           /\ DOMAIN Written(s, k, e) = 1 .. Len(s)
           /\ \A i \in 1 .. Len(s) : i # k => Written(s, k, e)[i] = s[i]
           /\ Written(s, k, e)[k] = e
<1> DEFINE t == [s EXCEPT ![k] = e]
<1> DEFINE S == {s[i] : i \in DOMAIN s} \cup {e}
<1>1. s \in Seq(S)
  BY DEF IsSequence
<1>2. Len(s) \in Nat /\ DOMAIN s = 1 .. Len(s) /\ DOMAIN t = 1 .. Len(s)
  BY <1>1
<1>3. t \in Seq(S)
  BY <1>1, <1>2
<1>4. Len(t) = Len(s) /\ t[k] = e /\ \A i \in 1 .. Len(s) : i # k => t[i] = s[i]
  BY <1>2, <1>3
<1>5. t \in Seq({t[i] : i \in DOMAIN t})
  <2> DEFINE R == {t[i] : i \in DOMAIN t}
  <2>1. t \in [1 .. Len(s) -> R]
    BY <1>2
  <2>2. \A i \in 1 .. Len(s) : t[i] \in R
    BY <1>2
  <2> HIDE DEF R
  <2>3. [i \in 1 .. Len(s) |-> t[i]] \in Seq(R)
    BY <2>2, <1>2
  <2>4. t = [i \in 1 .. Len(s) |-> t[i]]
    BY <2>1
  <2> QED
    BY <2>3, <2>4 DEF R
<1> QED
  BY <1>2, <1>4, <1>5 DEF IsSequence, Written

-----------------------------------------------------------------------------
(* SwapInv is inductive.                                                     *)

(* The names of the first workbook are names.                                *)
LEMMA BaseNames == Base \in Seq(Names)
<1>1. \A i \in DOMAIN Base : Base[i] \in Names
  BY DEF Names
<1>2. {Base[i] : i \in DOMAIN Base} \subseteq Names
  BY <1>1
<1> QED
  BY <1>2, SwapAssumption, SeqMonotonic

(* The initial state satisfies it.                                          *)
LEMMA InitSwapInv == Init => SwapInv
<1> SUFFICES ASSUME Init
             PROVE  SwapInv
  OBVIOUS
<1>1. /\ inode = <<FirstBook>> /\ Len(inode) = 1 /\ DOMAIN inode = {1}
      /\ inode[1] = FirstBook /\ FirstBook.whole = TRUE /\ FirstBook.sheets = Base
  BY DEF Init, FirstBook
<1>2. MaxAttempts \in Nat \ {0} /\ "dest" \notin Writers
  BY SwapAssumption
<1>3. TypeOK
  <2>1. path \in [Paths -> 0 .. Len(inode)] /\ out \in [Writers -> 0 .. Len(inode)]
    BY <1>1 DEF Init, Absent
  <2>2. \A i \in DOMAIN inode : inode[i].whole \in BOOLEAN /\ inode[i].sheets \in Seq(Names)
    BY <1>1, BaseNames
  <2>3. source \in [Writers -> Seq(Names)]
    BY EmptySeq DEF Init
  <2>4. /\ job \in [Writers -> Jobs] /\ attempts \in [Writers -> 0 .. MaxAttempts]
        /\ pc \in [Writers -> {"start", "fresh", "read_metadata", "copy_entries", "write_rows",
                               "remove", "move", "give_up", "finished", "done", "failed", "crashed"}]
    BY <1>2 DEF Init
  <2> QED
    BY <2>1, <2>2, <2>3, <2>4 DEF TypeOK
<1>4. InodesInSequence
  <2>1. {inode[i] : i \in DOMAIN inode} = {FirstBook}
    BY <1>1
  <2> QED
    BY <2>1, <1>1 DEF InodesInSequence, IsSequence
<1>5. OutOnceOpen /\ TempIsPrivate /\ TriesCounted
  BY DEF Init, OutOnceOpen, TempIsPrivate, TriesCounted
<1>6. TornIsFresh
  BY <1>1 DEF Init, TornIsFresh, Exists, At, Absent, Paths
<1> QED
  BY <1>3, <1>4, <1>5, <1>6 DEF SwapInv

(* Every step of every COPY keeps it: one step of the proof for each action, *)
(* and under it one for each part.                                           *)
LEMMA StepSwapInv ==
    ASSUME SwapInv, [Next]_vars
    PROVE  SwapInv'
<1>1. TypeOK /\ InodesInSequence /\ OutOnceOpen /\ TempIsPrivate /\ TriesCounted /\ TornIsFresh
  BY DEF SwapInv
<1>2. /\ MaxAttempts \in Nat \ {0} /\ "dest" \notin Writers
      /\ Len(inode) \in Nat /\ DOMAIN inode = 1 .. Len(inode) /\ Absent = 0
      /\ "dest" \in Paths /\ \A w \in Writers : w \in Paths \ {"dest"}
  BY <1>1, SwapAssumption DEF InodesInSequence, IsSequence, Absent, Paths
<1>11. ASSUME NEW w \in Writers, OpenFresh(w)
      PROVE  SwapInv'
  <2>0. \/ /\ Exists("dest") /\ path["dest"] \in 1 .. Len(inode) /\ path' = path
           /\ Len(inode') = Len(inode) /\ DOMAIN inode' = 1 .. Len(inode)
           /\ \A i \in 1 .. Len(inode) : i # path["dest"] => inode'[i] = inode[i]
           /\ inode'[path["dest"]] = Incomplete(w) /\ out' = [out EXCEPT ![w] = path["dest"]]
           /\ IsSequence(inode')
        \/ /\ ~Exists("dest") /\ path' = [path EXCEPT !["dest"] = Len(inode) + 1]
           /\ Len(inode') = Len(inode) + 1 /\ DOMAIN inode' = 1 .. Len(inode) + 1
           /\ \A i \in 1 .. Len(inode) : inode'[i] = inode[i]
           /\ inode'[Len(inode) + 1] = Incomplete(w) /\ out' = [out EXCEPT ![w] = Len(inode) + 1]
           /\ IsSequence(inode')
    <3>1. CASE Exists("dest")
      <4>1. path["dest"] \in 1 .. Len(inode)
        BY <1>1, <1>2, <3>1 DEF TypeOK, Exists
      <4>2. /\ inode' = [inode EXCEPT ![path["dest"]] = Incomplete(w)] /\ path' = path
            /\ out' = [out EXCEPT ![w] = path["dest"]]
        BY <1>11, <3>1 DEF OpenFresh
      <4>3. IsSequence(inode)
        BY <1>1 DEF InodesInSequence
      <4>4. /\ Len(inode') = Len(inode) /\ DOMAIN inode' = 1 .. Len(inode)
            /\ \A i \in 1 .. Len(inode) : i # path["dest"] => inode'[i] = inode[i]
            /\ inode'[path["dest"]] = Incomplete(w) /\ IsSequence(inode')
        <5>1. inode' = Written(inode, path["dest"], Incomplete(w))
          BY <4>2 DEF Written
        <5> QED
          BY <4>1, <4>3, <5>1, ExceptInSequence
      <4> QED
        BY <3>1, <4>1, <4>2, <4>4
    <3>2. CASE ~Exists("dest")
      <4>1. /\ inode' = Append(inode, Incomplete(w)) /\ path' = [path EXCEPT !["dest"] = Len(inode) + 1]
            /\ out' = [out EXCEPT ![w] = Len(inode) + 1]
        BY <1>11, <3>2 DEF OpenFresh
      <4>2. IsSequence(inode)
        BY <1>1 DEF InodesInSequence
      <4>3. /\ Len(inode') = Len(inode) + 1 /\ DOMAIN inode' = 1 .. Len(inode) + 1
            /\ \A i \in 1 .. Len(inode) : inode'[i] = inode[i]
            /\ inode'[Len(inode) + 1] = Incomplete(w) /\ IsSequence(inode')
        <5>1. inode' = Extended(inode, Incomplete(w))
          BY <4>1 DEF Extended
        <5> QED
          BY <4>2, <5>1, AppendInSequence
      <4> QED
        BY <3>2, <4>1, <4>3
    <3> QED
      BY <3>1, <3>2
  <2>1. TypeOK'
    <3>1. Incomplete(w).whole \in BOOLEAN /\ Incomplete(w).sheets \in Seq(Names)
      BY EmptySeq DEF Incomplete
    <3>2. path' \in [Paths -> 0 .. Len(inode')] /\ out' \in [Writers -> 0 .. Len(inode')]
      <4>1. CASE Exists("dest")
        <5>1. /\ path["dest"] \in 0 .. Len(inode) /\ path' = path /\ Len(inode') = Len(inode)
              /\ out' = [out EXCEPT ![w] = path["dest"]]
          BY <1>2, <2>0, <4>1
        <5> QED
          BY <1>1, <5>1 DEF TypeOK
      <4>2. CASE ~Exists("dest")
        <5>1. /\ path' = [path EXCEPT !["dest"] = Len(inode) + 1] /\ Len(inode') = Len(inode) + 1
              /\ out' = [out EXCEPT ![w] = Len(inode) + 1]
          BY <2>0, <4>2
        <5> QED
          BY <1>1, <1>2, <5>1 DEF TypeOK
      <4> QED
        BY <4>1, <4>2
    <3>3. \A i \in DOMAIN inode' : inode'[i].whole \in BOOLEAN /\ inode'[i].sheets \in Seq(Names)
      <4>1. ASSUME NEW i \in 1 .. Len(inode)
            PROVE  inode[i].whole \in BOOLEAN /\ inode[i].sheets \in Seq(Names)
        BY <1>1, <1>2 DEF TypeOK
      <4>2. CASE Exists("dest")
        <5>1. DOMAIN inode' = 1 .. Len(inode)
          BY <2>0, <4>2
        <5>2. ASSUME NEW i \in 1 .. Len(inode)
              PROVE  inode'[i].whole \in BOOLEAN /\ inode'[i].sheets \in Seq(Names)
          <6>1. inode'[i] = inode[i] \/ inode'[i] = Incomplete(w)
            BY <2>0, <4>2
          <6> QED
            BY <3>1, <4>1, <6>1
        <5> QED
          BY <5>1, <5>2
      <4>3. CASE ~Exists("dest")
        <5>1. DOMAIN inode' = 1 .. Len(inode) + 1
          BY <2>0, <4>3
        <5>2. ASSUME NEW i \in 1 .. Len(inode) + 1
              PROVE  inode'[i].whole \in BOOLEAN /\ inode'[i].sheets \in Seq(Names)
          <6>1. CASE i = Len(inode) + 1
            BY <2>0, <3>1, <4>3, <6>1
          <6>2. CASE i # Len(inode) + 1
            <7>1. i \in 1 .. Len(inode)
              BY <1>2, <6>2
            <7>2. inode'[i] = inode[i]
              BY <2>0, <4>3, <7>1
            <7> QED
              BY <4>1, <7>1, <7>2
          <6> QED
            BY <6>1, <6>2
        <5> QED
          BY <5>1, <5>2
      <4> QED
        BY <4>2, <4>3
    <3>4. /\ job' \in [Writers -> Jobs] /\ attempts' \in [Writers -> 0 .. MaxAttempts]
          /\ source' \in [Writers -> Seq(Names)]
      BY <1>1, <1>11 DEF OpenFresh, TypeOK
    <3>5. pc' \in [Writers -> {"start", "fresh", "read_metadata", "copy_entries", "write_rows",
                                  "remove", "move", "give_up", "finished", "done", "failed", "crashed"}]
      BY <1>1, <1>11 DEF OpenFresh, Goto, TypeOK
    <3> QED
      BY <3>2, <3>3, <3>4, <3>5 DEF TypeOK
  <2>2. InodesInSequence'
    BY <2>0 DEF InodesInSequence, IsSequence
  <2>3. OutOnceOpen'
    <3>1. out'[w] # Absent /\ \A v \in Writers : v # w => out'[v] = out[v]
      BY <1>1, <1>2, <2>0 DEF TypeOK, Exists
    <3> QED
      BY <1>1, <1>2, <1>11, <3>1 DEF OpenFresh, Goto, MayStart, OutOnceOpen, TypeOK
  <2>4. TempIsPrivate'
    BY <1>1, <1>2, <1>11, <2>0 DEF OpenFresh, Goto, MayStart, TempIsPrivate, TypeOK
  <2>5. TriesCounted'
    <3>1. \A v \in Writers : v # w => out'[v] = out[v]
      BY <1>1, <2>0 DEF TypeOK
    <3>2. /\ attempts' = attempts /\ pc'[w] = "fresh"
          /\ \A v \in Writers : v # w => pc'[v] = pc[v]
      BY <1>1, <1>11 DEF OpenFresh, Goto, TypeOK
    <3>3. ASSUME NEW v \in Writers
          PROVE  /\ pc'[v] = "write_rows" => attempts'[v] = 0
                 /\ pc'[v] \in {"remove", "move"} => attempts'[v] < MaxAttempts
                 /\ pc'[v] = "finished" => out'[v] # Absent
      <4>1. CASE v = w
        BY <3>2, <4>1
      <4>2. CASE v # w
        BY <1>1, <3>1, <3>2, <4>2 DEF TriesCounted
      <4> QED
        BY <4>1, <4>2
    <3> QED
      BY <3>3 DEF TriesCounted
  <2>6. TornIsFresh'
    <3>1. out'[w] = path'["dest"]
      BY <1>1, <1>2, <2>0 DEF TypeOK
    <3>2. source'[w] = << >> /\ pc'[w] = "fresh"
      BY <1>1, <1>11 DEF OpenFresh, MayStart, Goto, OutOnceOpen, TypeOK
    <3> QED
      BY <3>1, <3>2 DEF TornIsFresh
  <2> QED
    BY <2>1, <2>2, <2>3, <2>4, <2>5, <2>6 DEF SwapInv
<1>12. ASSUME NEW w \in Writers, OpenAppender(w)
      PROVE  SwapInv'
  <2>1. TypeOK'
    BY <1>1, <1>2, <1>12 DEF OpenAppender, Goto, UsesAppender, MayStart, Running, TypeOK
  <2>2. InodesInSequence'
    BY <1>1, <1>2, <1>12 DEF OpenAppender, Goto, UsesAppender, MayStart, Running, InodesInSequence
  <2>3. OutOnceOpen'
    BY <1>1, <1>2, <1>12 DEF OpenAppender, Goto, UsesAppender, MayStart, Running, OutOnceOpen, TypeOK
  <2>4. TempIsPrivate'
    BY <1>1, <1>2, <1>12 DEF OpenAppender, Goto, UsesAppender, MayStart, Running, TempIsPrivate, OutOnceOpen, TypeOK
  <2>5. TriesCounted'
    BY <1>1, <1>2, <1>12 DEF OpenAppender, Goto, UsesAppender, MayStart, Running, TriesCounted, OutOnceOpen, TypeOK
  <2>6. TornIsFresh'
    BY <1>1, <1>2, <1>12 DEF OpenAppender, Goto, UsesAppender, MayStart, Running, TornIsFresh, Exists, At, OutOnceOpen, TempIsPrivate, TriesCounted, TypeOK
  <2> QED
    BY <2>1, <2>2, <2>3, <2>4, <2>5, <2>6 DEF SwapInv
<1>13. ASSUME NEW w \in Writers, ReadMetadata(w)
      PROVE  SwapInv'
  <2>1. TypeOK'
    <3>1. path' \in [Paths -> 0 .. Len(inode')]
      BY <1>1, <1>2, <1>13 DEF ReadMetadata, TypeOK
    <3>2. \A i \in DOMAIN inode' : inode'[i].whole \in BOOLEAN /\ inode'[i].sheets \in Seq(Names)
      BY <1>1, <1>2, <1>13 DEF ReadMetadata, TypeOK, IsWhole, Exists, At
    <3>3. out' \in [Writers -> 0 .. Len(inode')] /\ source' \in [Writers -> Seq(Names)]
      BY <1>1, <1>2, <1>13 DEF ReadMetadata, TypeOK, IsWhole, Exists, At
    <3>4. job' \in [Writers -> Jobs] /\ attempts' \in [Writers -> 0 .. MaxAttempts]
      BY <1>1, <1>2, <1>13 DEF ReadMetadata, TypeOK, OutOnceOpen, TriesCounted
    <3>5. pc' \in [Writers -> {"start", "fresh", "read_metadata", "copy_entries", "write_rows",
                                  "remove", "move", "give_up", "finished", "done", "failed", "crashed"}]
      BY <1>1, <1>13 DEF ReadMetadata, Goto, TypeOK
    <3> QED
      BY <3>1, <3>2, <3>3, <3>4, <3>5 DEF TypeOK
  <2>2. InodesInSequence'
    BY <1>1, <1>2, <1>13 DEF ReadMetadata, Goto, InodesInSequence
  <2>3. OutOnceOpen'
    BY <1>1, <1>2, <1>13 DEF ReadMetadata, Goto, OutOnceOpen, TypeOK
  <2>4. TempIsPrivate'
    BY <1>1, <1>2, <1>13 DEF ReadMetadata, Goto, TempIsPrivate, OutOnceOpen, TypeOK
  <2>5. TriesCounted'
    BY <1>1, <1>2, <1>13 DEF ReadMetadata, Goto, TriesCounted, OutOnceOpen, TypeOK
  <2>6. TornIsFresh'
    BY <1>1, <1>2, <1>13 DEF ReadMetadata, Goto, TornIsFresh, Exists, At, OutOnceOpen, TempIsPrivate, TriesCounted, TypeOK
  <2> QED
    BY <2>1, <2>2, <2>3, <2>4, <2>5, <2>6 DEF SwapInv
<1>14. ASSUME NEW w \in Writers, RefuseSource(w)
      PROVE  SwapInv'
  <2>1. TypeOK'
    BY <1>1, <1>2, <1>14 DEF RefuseSource, Goto, TypeOK
  <2>2. InodesInSequence'
    BY <1>1, <1>2, <1>14 DEF RefuseSource, Goto, InodesInSequence
  <2>3. OutOnceOpen'
    BY <1>1, <1>2, <1>14 DEF RefuseSource, Goto, OutOnceOpen, TypeOK
  <2>4. TempIsPrivate'
    BY <1>1, <1>2, <1>14 DEF RefuseSource, Goto, TempIsPrivate, OutOnceOpen, TypeOK
  <2>5. TriesCounted'
    BY <1>1, <1>2, <1>14 DEF RefuseSource, Goto, TriesCounted, OutOnceOpen, TypeOK
  <2>6. TornIsFresh'
    BY <1>1, <1>2, <1>14 DEF RefuseSource, Goto, TornIsFresh, Exists, At, OutOnceOpen, TempIsPrivate, TriesCounted, TypeOK
  <2> QED
    BY <2>1, <2>2, <2>3, <2>4, <2>5, <2>6 DEF SwapInv
<1>15. ASSUME NEW w \in Writers, CopyEntries(w)
      PROVE  SwapInv'
  <2>0. /\ path' = [path EXCEPT ![w] = Len(inode) + 1] /\ out' = [out EXCEPT ![w] = Len(inode) + 1]
        /\ Len(inode') = Len(inode) + 1 /\ DOMAIN inode' = 1 .. Len(inode) + 1
        /\ \A i \in 1 .. Len(inode) : inode'[i] = inode[i]
        /\ inode'[Len(inode) + 1].whole = FALSE /\ inode'[Len(inode) + 1].sheets \in Seq(Names)
        /\ IsSequence(inode')
    <3>1. CASE IsWhole("dest")
      <4>1. At("dest").sheets \in Seq(Names)
        BY <1>1, <1>2, <3>1 DEF TypeOK, IsWhole, Exists, At
      <4>2. PICK parts :
              inode' = Append(inode, [whole |-> FALSE, by |-> w, sheets |-> At("dest").sheets, parts |-> parts])
        BY <1>15, <3>1 DEF CopyEntries
      <4>3. IsSequence(inode)
        BY <1>1 DEF InodesInSequence
      <4>4. /\ Len(inode') = Len(inode) + 1 /\ DOMAIN inode' = 1 .. Len(inode) + 1
            /\ \A i \in 1 .. Len(inode) : inode'[i] = inode[i]
            /\ inode'[Len(inode) + 1] = [whole |-> FALSE, by |-> w, sheets |-> At("dest").sheets, parts |-> parts]
            /\ IsSequence(inode')
        <5>1. inode' = Extended(inode, [whole |-> FALSE, by |-> w, sheets |-> At("dest").sheets, parts |-> parts])
          BY <4>2 DEF Extended
        <5> QED
          BY <4>3, <5>1, AppendInSequence
      <4> QED
        BY <1>15, <4>1, <4>4 DEF CopyEntries
    <3>2. CASE ~IsWhole("dest")
      <4>1. inode' = Append(inode, Incomplete(w))
        BY <1>15, <3>2 DEF CopyEntries
      <4>2. Incomplete(w).whole = FALSE /\ Incomplete(w).sheets \in Seq(Names)
        BY EmptySeq DEF Incomplete
      <4>3. IsSequence(inode)
        BY <1>1 DEF InodesInSequence
      <4>4. /\ Len(inode') = Len(inode) + 1 /\ DOMAIN inode' = 1 .. Len(inode) + 1
            /\ \A i \in 1 .. Len(inode) : inode'[i] = inode[i]
            /\ inode'[Len(inode) + 1] = Incomplete(w) /\ IsSequence(inode')
        <5>1. inode' = Extended(inode, Incomplete(w))
          BY <4>1 DEF Extended
        <5> QED
          BY <4>3, <5>1, AppendInSequence
      <4> QED
        BY <1>15, <4>2, <4>4 DEF CopyEntries
    <3> QED
      BY <3>1, <3>2
  <2>1. TypeOK'
    <3>1. path' \in [Paths -> 0 .. Len(inode')] /\ out' \in [Writers -> 0 .. Len(inode')]
      BY <1>1, <1>2, <2>0 DEF TypeOK
    <3>2. \A i \in DOMAIN inode' : inode'[i].whole \in BOOLEAN /\ inode'[i].sheets \in Seq(Names)
      <4>1. ASSUME NEW i \in 1 .. Len(inode) + 1
            PROVE  inode'[i].whole \in BOOLEAN /\ inode'[i].sheets \in Seq(Names)
        <5>1. CASE i = Len(inode) + 1
          BY <2>0, <5>1
        <5>2. CASE i # Len(inode) + 1
          <6>1. i \in 1 .. Len(inode)
            BY <1>2, <5>2
          <6>2. inode'[i] = inode[i]
            BY <2>0, <6>1
          <6>3. inode[i].whole \in BOOLEAN /\ inode[i].sheets \in Seq(Names)
            BY <1>1, <6>1, <1>2 DEF TypeOK
          <6> QED
            BY <6>2, <6>3
        <5> QED
          BY <5>1, <5>2
      <4> QED
        BY <2>0, <4>1
    <3>3. /\ job' \in [Writers -> Jobs] /\ attempts' \in [Writers -> 0 .. MaxAttempts]
          /\ source' \in [Writers -> Seq(Names)]
      BY <1>1, <1>15 DEF CopyEntries, TypeOK
    <3>4. pc' \in [Writers -> {"start", "fresh", "read_metadata", "copy_entries", "write_rows",
                                  "remove", "move", "give_up", "finished", "done", "failed", "crashed"}]
      BY <1>1, <1>15 DEF CopyEntries, Goto, TypeOK
    <3> QED
      BY <3>1, <3>2, <3>3, <3>4 DEF TypeOK
  <2>2. InodesInSequence'
    BY <2>0 DEF InodesInSequence, IsSequence
  <2>3. OutOnceOpen'
    BY <1>1, <1>2, <1>15 DEF CopyEntries, Goto, OutOnceOpen, TypeOK
  <2>4. TempIsPrivate'
    BY <1>1, <1>2, <1>15 DEF CopyEntries, Goto, TempIsPrivate, OutOnceOpen, TypeOK
  <2>5. TriesCounted'
    <3>1. \A v \in Writers : v # w => out'[v] = out[v]
      BY <1>1, <2>0 DEF TypeOK
    <3>2. attempts' = attempts /\ attempts[w] = 0 /\ pc'[w] \in {"write_rows", "failed"}
      BY <1>1, <1>15 DEF CopyEntries, Goto, OutOnceOpen, TypeOK
    <3>3. \A v \in Writers : v # w => pc'[v] = pc[v]
      BY <1>1, <1>15 DEF CopyEntries, Goto, TypeOK
    <3> QED
      BY <1>1, <3>1, <3>2, <3>3 DEF TriesCounted
  <2>6. TornIsFresh'
    <3>1. path'["dest"] = path["dest"] /\ (Exists("dest") => inode'[path["dest"]] = inode[path["dest"]])
      BY <1>1, <1>2, <2>0 DEF TypeOK, Exists
    <3>2. \A v \in Writers : v # w => out'[v] = out[v] /\ source'[v] = source[v] /\ pc'[v] = pc[v]
      BY <1>1, <1>15 DEF CopyEntries, Goto, TypeOK
    <3>3. pc[w] = "copy_entries"
      BY <1>15 DEF CopyEntries
    <3> QED
      BY <1>1, <3>1, <3>2, <3>3 DEF TornIsFresh, Exists, At
  <2> QED
    BY <2>1, <2>2, <2>3, <2>4, <2>5, <2>6 DEF SwapInv
<1>16. ASSUME NEW w \in Writers, InputThrows(w)
      PROVE  SwapInv'
  <2>1. TypeOK'
    BY <1>1, <1>2, <1>16 DEF InputThrows, Goto, TypeOK
  <2>2. InodesInSequence'
    BY <1>1, <1>2, <1>16 DEF InputThrows, Goto, InodesInSequence
  <2>3. OutOnceOpen'
    BY <1>1, <1>2, <1>16 DEF InputThrows, Goto, OutOnceOpen, TypeOK
  <2>4. TempIsPrivate'
    BY <1>1, <1>2, <1>16 DEF InputThrows, Goto, TempIsPrivate, OutOnceOpen, TypeOK
  <2>5. TriesCounted'
    BY <1>1, <1>2, <1>16 DEF InputThrows, Goto, TriesCounted, OutOnceOpen, TypeOK
  <2>6. TornIsFresh'
    BY <1>1, <1>2, <1>16 DEF InputThrows, Goto, TornIsFresh, Exists, At, OutOnceOpen, TempIsPrivate, TriesCounted, TypeOK
  <2> QED
    BY <2>1, <2>2, <2>3, <2>4, <2>5, <2>6 DEF SwapInv
<1>17. ASSUME NEW w \in Writers, FinishFresh(w)
      PROVE  SwapInv'
  <2>0. /\ out[w] \in 1 .. Len(inode) /\ path' = path /\ out' = out
        /\ Len(inode') = Len(inode) /\ DOMAIN inode' = 1 .. Len(inode)
        /\ \A i \in 1 .. Len(inode) : i # out[w] => inode'[i] = inode[i]
        /\ inode'[out[w]].whole \in BOOLEAN /\ inode'[out[w]].sheets \in Seq(Names)
        /\ inode'[out[w]].whole \/ inode'[out[w]].by = "several" \/ pc'[w] \in {"finished", "remove"}
        /\ IsSequence(inode')
    <3>1. out[w] \in 1 .. Len(inode)
      BY <1>1, <1>2, <1>17 DEF FinishFresh, TypeOK, OutOnceOpen, TempIsPrivate, TriesCounted
    <3>2. PICK book :
            /\ book.sheets \in Seq(Names) /\ book.whole \in BOOLEAN
            /\ book.whole \/ book.by = "several" \/ pc'[w] \in {"finished", "remove"}
            /\ inode' = [inode EXCEPT ![out[w]] = book]
      <4>1. job[w].name \in Names
        BY <1>1 DEF TypeOK, Names
      <4>2. <<job[w].name>> \in Seq(Names) /\ << >> \in Seq(Names)
        BY <4>1, EmptySeq
      <4>3. pc'[w] = "finished"
        BY <1>1, <1>17 DEF FinishFresh, Goto, TypeOK
      <4>4. CASE inode[out[w]].by = w
        BY <1>17, <4>2, <4>3, <4>4 DEF FinishFresh
      <4>5. CASE inode[out[w]].by # w
        BY <1>17, <4>2, <4>3, <4>5 DEF FinishFresh, Incomplete
      <4> QED
        BY <4>4, <4>5
    <3>3. path' = path /\ out' = out
      BY <1>17 DEF FinishFresh
    <3>4. IsSequence(inode)
      BY <1>1 DEF InodesInSequence
    <3>5. /\ Len(inode') = Len(inode) /\ DOMAIN inode' = 1 .. Len(inode)
          /\ \A i \in 1 .. Len(inode) : i # out[w] => inode'[i] = inode[i]
          /\ inode'[out[w]] = book /\ IsSequence(inode')
      <4>1. inode' = Written(inode, out[w], book)
        BY <3>2 DEF Written
      <4> QED
        BY <3>1, <3>4, <4>1, ExceptInSequence
    <3> QED
      BY <3>1, <3>2, <3>3, <3>5
  <2>1. TypeOK'
    <3>1. path' \in [Paths -> 0 .. Len(inode')] /\ out' \in [Writers -> 0 .. Len(inode')]
      BY <1>1, <2>0 DEF TypeOK
    <3>2. \A i \in DOMAIN inode' : inode'[i].whole \in BOOLEAN /\ inode'[i].sheets \in Seq(Names)
      BY <1>1, <1>2, <2>0 DEF TypeOK
    <3>3. /\ job' \in [Writers -> Jobs] /\ attempts' \in [Writers -> 0 .. MaxAttempts]
          /\ source' \in [Writers -> Seq(Names)]
      BY <1>1, <1>17 DEF FinishFresh, TypeOK
    <3>4. pc' \in [Writers -> {"start", "fresh", "read_metadata", "copy_entries", "write_rows",
                                  "remove", "move", "give_up", "finished", "done", "failed", "crashed"}]
      BY <1>1, <1>17 DEF FinishFresh, Goto, TypeOK
    <3> QED
      BY <3>1, <3>2, <3>3, <3>4 DEF TypeOK
  <2>2. InodesInSequence'
    BY <2>0 DEF InodesInSequence, IsSequence
  <2>3. OutOnceOpen'
    BY <1>1, <1>2, <1>17 DEF FinishFresh, Goto, OutOnceOpen, TypeOK
  <2>4. TempIsPrivate'
    BY <1>1, <1>2, <1>17 DEF FinishFresh, Goto, TempIsPrivate, OutOnceOpen, TypeOK
  <2>5. TriesCounted'
    BY <1>1, <1>2, <2>0, <1>17 DEF FinishFresh, Goto, TriesCounted, OutOnceOpen, TypeOK
  <2>6. TornIsFresh'
    <3>1. /\ pc[w] = "fresh" /\ pc'[w] = "finished" /\ source' = source
          /\ \A v \in Writers : v # w => pc'[v] = pc[v]
      BY <1>1, <1>17 DEF FinishFresh, Goto, TypeOK
    <3>2. CASE path["dest"] = out[w]
      BY <2>0, <3>1, <3>2 DEF TornIsFresh
    <3>3. CASE path["dest"] # out[w]
      <4>1. Exists("dest") => path["dest"] \in 1 .. Len(inode)
        BY <1>1, <1>2 DEF TypeOK, Exists
      <4>2. Exists("dest") => inode'[path["dest"]] = inode[path["dest"]]
        BY <2>0, <3>3, <4>1
      <4> QED
        BY <1>1, <2>0, <3>1, <3>3, <4>2 DEF TornIsFresh, Exists, At
    <3> QED
      BY <3>2, <3>3
  <2> QED
    BY <2>1, <2>2, <2>3, <2>4, <2>5, <2>6 DEF SwapInv
<1>18. ASSUME NEW w \in Writers, FinishZip(w)
      PROVE  SwapInv'
  <2>0. /\ out[w] \in 1 .. Len(inode) /\ path' = path /\ out' = out
        /\ Len(inode') = Len(inode) /\ DOMAIN inode' = 1 .. Len(inode)
        /\ \A i \in 1 .. Len(inode) : i # out[w] => inode'[i] = inode[i]
        /\ inode'[out[w]].whole \in BOOLEAN /\ inode'[out[w]].sheets \in Seq(Names)
        /\ inode'[out[w]].whole \/ inode'[out[w]].by = "several" \/ pc'[w] \in {"finished", "remove"}
        /\ IsSequence(inode')
    <3>1. out[w] \in 1 .. Len(inode)
      BY <1>1, <1>2, <1>18 DEF FinishZip, TypeOK, OutOnceOpen, TempIsPrivate, TriesCounted
    <3>2. PICK book :
            /\ book.sheets \in Seq(Names) /\ book.whole \in BOOLEAN
            /\ book.whole \/ book.by = "several" \/ pc'[w] \in {"finished", "remove"}
            /\ inode' = [inode EXCEPT ![out[w]] = book]
      <4>1. job[w].name \in Names
        BY <1>1 DEF TypeOK, Names
      <4>2. inode[out[w]].sheets \in Seq(Names) /\ source[w] \in Seq(Names)
        BY <1>1, <1>2, <3>1 DEF TypeOK
      <4>3. NewSheets(w, inode[out[w]].sheets) \in Seq(Names)
        BY <4>1, <4>2 DEF NewSheets
      <4>4. pc'[w] = "remove"
        BY <1>1, <1>18 DEF FinishZip, Goto, TypeOK
      <4> QED
        BY <1>18, <4>3, <4>4 DEF FinishZip
    <3>3. path' = path /\ out' = out
      BY <1>18 DEF FinishZip
    <3>4. IsSequence(inode)
      BY <1>1 DEF InodesInSequence
    <3>5. /\ Len(inode') = Len(inode) /\ DOMAIN inode' = 1 .. Len(inode)
          /\ \A i \in 1 .. Len(inode) : i # out[w] => inode'[i] = inode[i]
          /\ inode'[out[w]] = book /\ IsSequence(inode')
      <4>1. inode' = Written(inode, out[w], book)
        BY <3>2 DEF Written
      <4> QED
        BY <3>1, <3>4, <4>1, ExceptInSequence
    <3> QED
      BY <3>1, <3>2, <3>3, <3>5
  <2>1. TypeOK'
    <3>1. path' \in [Paths -> 0 .. Len(inode')] /\ out' \in [Writers -> 0 .. Len(inode')]
      BY <1>1, <2>0 DEF TypeOK
    <3>2. \A i \in DOMAIN inode' : inode'[i].whole \in BOOLEAN /\ inode'[i].sheets \in Seq(Names)
      BY <1>1, <1>2, <2>0 DEF TypeOK
    <3>3. /\ job' \in [Writers -> Jobs] /\ attempts' \in [Writers -> 0 .. MaxAttempts]
          /\ source' \in [Writers -> Seq(Names)]
      BY <1>1, <1>18 DEF FinishZip, TypeOK
    <3>4. pc' \in [Writers -> {"start", "fresh", "read_metadata", "copy_entries", "write_rows",
                                  "remove", "move", "give_up", "finished", "done", "failed", "crashed"}]
      BY <1>1, <1>18 DEF FinishZip, Goto, TypeOK
    <3> QED
      BY <3>1, <3>2, <3>3, <3>4 DEF TypeOK
  <2>2. InodesInSequence'
    BY <2>0 DEF InodesInSequence, IsSequence
  <2>3. OutOnceOpen'
    BY <1>1, <1>2, <1>18 DEF FinishZip, Goto, OutOnceOpen, TypeOK
  <2>4. TempIsPrivate'
    BY <1>1, <1>2, <1>18 DEF FinishZip, Goto, TempIsPrivate, OutOnceOpen, TypeOK
  <2>5. TriesCounted'
    BY <1>1, <1>2, <2>0, <1>18 DEF FinishZip, Goto, TriesCounted, OutOnceOpen, TypeOK
  <2>6. TornIsFresh'
    <3>1. /\ pc[w] = "write_rows" /\ pc'[w] = "remove" /\ source' = source
          /\ \A v \in Writers : v # w => pc'[v] = pc[v]
      BY <1>1, <1>18 DEF FinishZip, Goto, TypeOK
    <3>2. CASE path["dest"] = out[w]
      BY <1>1, <1>2, <3>1, <3>2 DEF TempIsPrivate
    <3>3. CASE path["dest"] # out[w]
      <4>1. Exists("dest") => path["dest"] \in 1 .. Len(inode)
        BY <1>1, <1>2 DEF TypeOK, Exists
      <4>2. Exists("dest") => inode'[path["dest"]] = inode[path["dest"]]
        BY <2>0, <3>3, <4>1
      <4> QED
        BY <1>1, <2>0, <3>1, <3>3, <4>2 DEF TornIsFresh, Exists, At
    <3> QED
      BY <3>2, <3>3
  <2> QED
    BY <2>1, <2>2, <2>3, <2>4, <2>5, <2>6 DEF SwapInv
<1>19. ASSUME NEW w \in Writers, RemoveDest(w)
      PROVE  SwapInv'
  <2>1. TypeOK'
    BY <1>1, <1>2, <1>19 DEF RemoveDest, Goto, TypeOK
  <2>2. InodesInSequence'
    BY <1>1, <1>2, <1>19 DEF RemoveDest, Goto, InodesInSequence
  <2>3. OutOnceOpen'
    BY <1>1, <1>2, <1>19 DEF RemoveDest, Goto, OutOnceOpen, TypeOK
  <2>4. TempIsPrivate'
    BY <1>1, <1>2, <1>19 DEF RemoveDest, Goto, TempIsPrivate, OutOnceOpen, TypeOK
  <2>5. TriesCounted'
    BY <1>1, <1>2, <1>19 DEF RemoveDest, Goto, TriesCounted, OutOnceOpen, TypeOK
  <2>6. TornIsFresh'
    BY <1>1, <1>2, <1>19 DEF RemoveDest, Goto, TornIsFresh, Exists, At, OutOnceOpen, TempIsPrivate, TriesCounted, TypeOK
  <2> QED
    BY <2>1, <2>2, <2>3, <2>4, <2>5, <2>6 DEF SwapInv
<1>20. ASSUME NEW w \in Writers, MoveTmp(w)
      PROVE  SwapInv'
  <2>0. /\ out[w] \in 1 .. Len(inode) /\ path' = [path EXCEPT !["dest"] = out[w], ![w] = Absent]
        /\ inode' = inode /\ out' = out /\ attempts' = attempts /\ source' = source /\ job' = job
        /\ pc' = [pc EXCEPT ![w] = "finished"] /\ pc[w] = "move"
    <3>1. out[w] \in 1 .. Len(inode)
      BY <1>1, <1>2, <1>20 DEF MoveTmp, TypeOK, TempIsPrivate
    <3> QED
      BY <1>20, <3>1 DEF MoveTmp, Goto
  <2>1. TypeOK'
    <3>1. path' \in [Paths -> 0 .. Len(inode')]
      <4>1. Absent \in 0 .. Len(inode) /\ out[w] \in 0 .. Len(inode)
        BY <1>2, <2>0
      <4>2. path \in [Paths -> 0 .. Len(inode)]
        BY <1>1 DEF TypeOK
      <4>3. path' \in [Paths -> 0 .. Len(inode)]
        BY <2>0, <4>1, <4>2
      <4> QED
        BY <2>0, <4>3
    <3> QED
      BY <1>1, <2>0, <3>1 DEF TypeOK
  <2>2. InodesInSequence'
    BY <1>1, <1>2, <1>20 DEF MoveTmp, Goto, InodesInSequence
  <2>3. OutOnceOpen'
    BY <1>1, <1>2, <1>20 DEF MoveTmp, Goto, OutOnceOpen, TypeOK
  <2>4. TempIsPrivate'
    BY <1>1, <1>2, <1>20 DEF MoveTmp, Goto, TempIsPrivate, OutOnceOpen, TypeOK
  <2>5. TriesCounted'
    BY <1>1, <1>2, <2>0 DEF TriesCounted, TypeOK
  <2>6. TornIsFresh'
    BY <1>1, <1>2, <2>0 DEF TornIsFresh, TypeOK
  <2> QED
    BY <2>1, <2>2, <2>3, <2>4, <2>5, <2>6 DEF SwapInv
<1>21. ASSUME NEW w \in Writers, RetryFsOp(w)
      PROVE  SwapInv'
  <2>1. TypeOK'
    <3>1. path' \in [Paths -> 0 .. Len(inode')]
      BY <1>1, <1>2, <1>21 DEF RetryFsOp, TypeOK
    <3>2. \A i \in DOMAIN inode' : inode'[i].whole \in BOOLEAN /\ inode'[i].sheets \in Seq(Names)
      BY <1>1, <1>2, <1>21 DEF RetryFsOp, TypeOK
    <3>3. out' \in [Writers -> 0 .. Len(inode')] /\ source' \in [Writers -> Seq(Names)]
      BY <1>1, <1>2, <1>21 DEF RetryFsOp, TypeOK
    <3>4. job' \in [Writers -> Jobs] /\ attempts' \in [Writers -> 0 .. MaxAttempts]
      BY <1>1, <1>2, <1>21 DEF RetryFsOp, TypeOK, OutOnceOpen, TriesCounted
    <3>5. pc' \in [Writers -> {"start", "fresh", "read_metadata", "copy_entries", "write_rows",
                                  "remove", "move", "give_up", "finished", "done", "failed", "crashed"}]
      BY <1>1, <1>21 DEF RetryFsOp, Goto, TypeOK
    <3> QED
      BY <3>1, <3>2, <3>3, <3>4, <3>5 DEF TypeOK
  <2>2. InodesInSequence'
    BY <1>1, <1>2, <1>21 DEF RetryFsOp, Goto, InodesInSequence
  <2>3. OutOnceOpen'
    BY <1>1, <1>2, <1>21 DEF RetryFsOp, Goto, OutOnceOpen, TypeOK
  <2>4. TempIsPrivate'
    BY <1>1, <1>2, <1>21 DEF RetryFsOp, Goto, TempIsPrivate, OutOnceOpen, TypeOK
  <2>5. TriesCounted'
    BY <1>1, <1>2, <1>21 DEF RetryFsOp, Goto, TriesCounted, OutOnceOpen, TypeOK
  <2>6. TornIsFresh'
    BY <1>1, <1>2, <1>21 DEF RetryFsOp, Goto, TornIsFresh, Exists, At, OutOnceOpen, TempIsPrivate, TriesCounted, TypeOK
  <2> QED
    BY <2>1, <2>2, <2>3, <2>4, <2>5, <2>6 DEF SwapInv
<1>22. ASSUME NEW w \in Writers, GiveUp(w)
      PROVE  SwapInv'
  <2>1. TypeOK'
    <3>1. path' \in [Paths -> 0 .. Len(inode')]
      <4>1. inode' = inode /\ (path' = path \/ path' = [path EXCEPT ![w] = Absent])
        BY <1>22 DEF GiveUp
      <4>2. Absent \in 0 .. Len(inode)
        BY <1>2
      <4>3. CASE path' = path
        BY <1>1, <4>1, <4>3 DEF TypeOK
      <4>4. CASE path' = [path EXCEPT ![w] = Absent]
        BY <1>1, <4>1, <4>2, <4>4 DEF TypeOK
      <4> QED
        BY <4>1, <4>3, <4>4
    <3>2. \A i \in DOMAIN inode' : inode'[i].whole \in BOOLEAN /\ inode'[i].sheets \in Seq(Names)
      BY <1>1, <1>2, <1>22 DEF GiveUp, TypeOK
    <3>3. out' \in [Writers -> 0 .. Len(inode')] /\ source' \in [Writers -> Seq(Names)]
      BY <1>1, <1>2, <1>22 DEF GiveUp, TypeOK
    <3>4. job' \in [Writers -> Jobs] /\ attempts' \in [Writers -> 0 .. MaxAttempts]
      BY <1>1, <1>2, <1>22 DEF GiveUp, TypeOK, OutOnceOpen, TriesCounted
    <3>5. pc' \in [Writers -> {"start", "fresh", "read_metadata", "copy_entries", "write_rows",
                                  "remove", "move", "give_up", "finished", "done", "failed", "crashed"}]
      BY <1>1, <1>22 DEF GiveUp, Goto, TypeOK
    <3> QED
      BY <3>1, <3>2, <3>3, <3>4, <3>5 DEF TypeOK
  <2>2. InodesInSequence'
    BY <1>1, <1>2, <1>22 DEF GiveUp, Goto, InodesInSequence
  <2>3. OutOnceOpen'
    BY <1>1, <1>2, <1>22 DEF GiveUp, Goto, OutOnceOpen, TypeOK
  <2>4. TempIsPrivate'
    BY <1>1, <1>2, <1>22 DEF GiveUp, Goto, TempIsPrivate, OutOnceOpen, TypeOK
  <2>5. TriesCounted'
    BY <1>1, <1>2, <1>22 DEF GiveUp, Goto, TriesCounted, OutOnceOpen, TypeOK
  <2>6. TornIsFresh'
    BY <1>1, <1>2, <1>22 DEF GiveUp, Goto, TornIsFresh, Exists, At, OutOnceOpen, TempIsPrivate, TriesCounted, TypeOK
  <2> QED
    BY <2>1, <2>2, <2>3, <2>4, <2>5, <2>6 DEF SwapInv
<1>23. ASSUME NEW w \in Writers, DestroyWriter(w)
      PROVE  SwapInv'
  <2>0. /\ out[w] \in 1 .. Len(inode) /\ path' = path /\ out' = out
        /\ Len(inode') = Len(inode) /\ DOMAIN inode' = 1 .. Len(inode)
        /\ \A i \in 1 .. Len(inode) : i # out[w] => inode'[i] = inode[i]
        /\ inode'[out[w]].whole \in BOOLEAN /\ inode'[out[w]].sheets \in Seq(Names)
        /\ inode'[out[w]].whole \/ inode'[out[w]].by = "several" \/ pc'[w] \in {"finished", "remove"}
        /\ IsSequence(inode')
    <3>1. out[w] \in 1 .. Len(inode)
      BY <1>1, <1>2, <1>23 DEF DestroyWriter, TypeOK, OutOnceOpen, TempIsPrivate, TriesCounted
    <3>2. PICK book :
            /\ book.sheets \in Seq(Names) /\ book.whole \in BOOLEAN
            /\ book.whole \/ book.by = "several" \/ pc'[w] \in {"finished", "remove"}
            /\ inode' = [inode EXCEPT ![out[w]] = book]
      <4>1. inode[out[w]].sheets \in Seq(Names) /\ << >> \in Seq(Names)
        BY <1>1, <1>2, <3>1, EmptySeq DEF TypeOK
      <4>2. CASE inode[out[w]].by = w
        BY <1>23, <4>1, <4>2 DEF DestroyWriter
      <4>3. CASE inode[out[w]].by # w
        BY <1>23, <4>1, <4>3 DEF DestroyWriter, Incomplete
      <4> QED
        BY <4>2, <4>3
    <3>3. path' = path /\ out' = out
      BY <1>23 DEF DestroyWriter
    <3>4. IsSequence(inode)
      BY <1>1 DEF InodesInSequence
    <3>5. /\ Len(inode') = Len(inode) /\ DOMAIN inode' = 1 .. Len(inode)
          /\ \A i \in 1 .. Len(inode) : i # out[w] => inode'[i] = inode[i]
          /\ inode'[out[w]] = book /\ IsSequence(inode')
      <4>1. inode' = Written(inode, out[w], book)
        BY <3>2 DEF Written
      <4> QED
        BY <3>1, <3>4, <4>1, ExceptInSequence
    <3> QED
      BY <3>1, <3>2, <3>3, <3>5
  <2>1. TypeOK'
    <3>1. path' \in [Paths -> 0 .. Len(inode')] /\ out' \in [Writers -> 0 .. Len(inode')]
      BY <1>1, <2>0 DEF TypeOK
    <3>2. \A i \in DOMAIN inode' : inode'[i].whole \in BOOLEAN /\ inode'[i].sheets \in Seq(Names)
      BY <1>1, <1>2, <2>0 DEF TypeOK
    <3>3. /\ job' \in [Writers -> Jobs] /\ attempts' \in [Writers -> 0 .. MaxAttempts]
          /\ source' \in [Writers -> Seq(Names)]
      BY <1>1, <1>23 DEF DestroyWriter, TypeOK
    <3>4. pc' \in [Writers -> {"start", "fresh", "read_metadata", "copy_entries", "write_rows",
                                  "remove", "move", "give_up", "finished", "done", "failed", "crashed"}]
      BY <1>1, <1>23 DEF DestroyWriter, Goto, TypeOK
    <3> QED
      BY <3>1, <3>2, <3>3, <3>4 DEF TypeOK
  <2>2. InodesInSequence'
    BY <2>0 DEF InodesInSequence, IsSequence
  <2>3. OutOnceOpen'
    BY <1>1, <1>2, <1>23 DEF DestroyWriter, Goto, OutOnceOpen, TypeOK
  <2>4. TempIsPrivate'
    BY <1>1, <1>2, <1>23 DEF DestroyWriter, Goto, TempIsPrivate, OutOnceOpen, TypeOK
  <2>5. TriesCounted'
    BY <1>1, <1>2, <2>0, <1>23 DEF DestroyWriter, Goto, TriesCounted, OutOnceOpen, TypeOK
  <2>6. TornIsFresh'
    <3>1. /\ pc[w] = "finished" /\ pc'[w] = "done" /\ source' = source
          /\ \A v \in Writers : v # w => pc'[v] = pc[v]
      BY <1>1, <1>23 DEF DestroyWriter, Goto, TypeOK
    <3>2. CASE path["dest"] = out[w]
      <4>1. inode'[out[w]].whole \/ inode'[out[w]].by = "several"
        BY <2>0, <3>1
      <4> QED
        BY <2>0, <3>2, <4>1 DEF TornIsFresh, Exists, At
    <3>3. CASE path["dest"] # out[w]
      <4>1. Exists("dest") => path["dest"] \in 1 .. Len(inode)
        BY <1>1, <1>2 DEF TypeOK, Exists
      <4>2. Exists("dest") => inode'[path["dest"]] = inode[path["dest"]]
        BY <2>0, <3>3, <4>1
      <4> QED
        BY <1>1, <2>0, <3>1, <3>3, <4>2 DEF TornIsFresh, Exists, At
    <3> QED
      BY <3>2, <3>3
  <2> QED
    BY <2>1, <2>2, <2>3, <2>4, <2>5, <2>6 DEF SwapInv
<1>30. ASSUME NEW r \in Readers, Bind(r) \/ InitGlobal(r)
      PROVE  SwapInv'
  <2>1. UNCHANGED <<job, path, inode, pc, source, out, attempts, published>>
    BY <1>30 DEF Bind, InitGlobal
  <2>2. TypeOK'
    BY <1>1, <1>30, <2>1 DEF Bind, InitGlobal, SwapInv, TypeOK
  <2>3. /\ InodesInSequence' /\ OutOnceOpen' /\ TempIsPrivate'
        /\ TriesCounted' /\ TornIsFresh'
    BY <1>1, <2>1 DEF SwapInv, InodesInSequence, OutOnceOpen,
                      TempIsPrivate, TriesCounted, TornIsFresh, Exists, At
  <2> QED
    BY <2>2, <2>3 DEF SwapInv
<1>31. ASSUME Crash
      PROVE  SwapInv'
  BY <1>1, <1>31 DEF Crash, Running, SwapInv, TypeOK, InodesInSequence, OutOnceOpen,
                     TempIsPrivate, TriesCounted, TornIsFresh, Exists, At
<1>32. ASSUME UNCHANGED vars
      PROVE  SwapInv'
  BY <1>1, <1>32 DEF vars, SwapInv, TypeOK, InodesInSequence, OutOnceOpen,
                     TempIsPrivate, TriesCounted, TornIsFresh, Exists, At
<1> QED
  BY <1>11, <1>12, <1>13, <1>14, <1>15, <1>16, <1>17, <1>18, <1>19, <1>20, <1>21, <1>22, <1>23, <1>30, <1>31, <1>32 DEF Next, Step

-----------------------------------------------------------------------------
(* Every variable of a COPY keeps its type; in particular no failed try goes *)
(* uncounted (RetryFsOp) and no name refers to a file that is not there.     *)
THEOREM SwapTypeCorrect == Spec => []TypeOK
<1>1. SwapInv => TypeOK
  BY DEF SwapInv
<1> QED
  BY <1>1, InitSwapInv, StepSwapInv, PTL DEF Spec

(* What append and replace rely on between two calls: the temporary file is  *)
(* private to its COPY until MoveFile (XLSXAppender's unique sibling path),  *)
(* and each try of a call is counted (RetryFsOp).                            *)
THEOREM SwapCorrect == Spec => []SwapInv
  BY InitSwapInv, StepSwapInv, PTL DEF Spec

(* The file under the workbook's name is complete, or the unfinished work of *)
(* a COPY that writes a fresh workbook, or was moved there by a COPY whose   *)
(* writer is not destroyed yet: append and replace show half a workbook only *)
(* after MoveFile, whichever call fails, wherever the process dies, and      *)
(* however many other COPYs to the same file they overlap with.              *)
THEOREM TornOnlyFresh == Spec => []TornOnlyByFresh
<1>1. SwapInv => TornOnlyByFresh
  <2> SUFFICES ASSUME SwapInv, Exists("dest"), ~At("dest").whole, At("dest").by # "several"
               PROVE  \E w \in Writers : Unfinished(w)
    BY DEF TornOnlyByFresh
  <2>1. PICK w \in Writers : /\ out[w] = path["dest"]
                             /\ \/ source[w] = << >> /\ pc[w] \in {"fresh", "failed"}
                                \/ pc[w] \in {"finished", "crashed"}
    BY DEF SwapInv, TornIsFresh
  <2>2. Unfinished(w)
    BY <2>1 DEF Unfinished, WroteFresh, Exists
  <2> QED
    BY <2>1, <2>2
<1> QED
  BY <1>1, InitSwapInv, StepSwapInv, PTL DEF Spec

-----------------------------------------------------------------------------
(* What each call changes, name by name and file by file.                    *)
LEMMA SwapFacts ==
    ASSUME SwapInv
    PROVE  /\ TypeOK /\ IsSequence(inode) /\ OutOnceOpen /\ TempIsPrivate /\ TriesCounted
           /\ MaxAttempts \in Nat \ {0} /\ Absent = 0 /\ Len(inode) \in Nat /\ DOMAIN inode = 1 .. Len(inode)
           /\ "dest" \notin Writers /\ "dest" \in Paths /\ \A w \in Writers : w \in Paths /\ w # "dest"
           /\ "several" \notin Writers /\ "base" \notin Writers
           /\ Paths = {"dest"} \cup Writers
           /\ \A p \in Paths : path[p] # Absent => path[p] \in DOMAIN inode
           /\ \A w \in Writers : out[w] # Absent => out[w] \in DOMAIN inode
<1>1. TypeOK /\ InodesInSequence /\ OutOnceOpen /\ TempIsPrivate /\ TriesCounted
  BY DEF SwapInv
<1>2. Len(inode) \in Nat /\ DOMAIN inode = 1 .. Len(inode) /\ IsSequence(inode)
  BY <1>1 DEF InodesInSequence, IsSequence
<1>3. \A p \in Paths : path[p] \in 0 .. Len(inode)
  BY <1>1 DEF TypeOK
<1>4. \A w \in Writers : out[w] \in 0 .. Len(inode)
  BY <1>1 DEF TypeOK
<1> QED
  BY <1>1, <1>2, <1>3, <1>4, SwapAssumption DEF Absent, Paths

LEMMA PcStep ==
    ASSUME TypeOK, NEW w \in Writers, NEW label, Goto(w, label)
    PROVE  pc'[w] = label /\ \A v \in Writers : v # w => pc'[v] = pc[v]
  BY DEF TypeOK, Goto

(* A new file, and one that is overwritten in place.                         *)
LEMMA NewFile ==
    ASSUME SwapInv, NEW e, inode' = Append(inode, e)
    PROVE  /\ Len(inode) + 1 \notin DOMAIN inode /\ Len(inode) + 1 # Absent
           /\ inode'[Len(inode) + 1] = e
           /\ \A i \in DOMAIN inode : inode'[i] = inode[i]
<1>1. IsSequence(inode) /\ Len(inode) \in Nat /\ DOMAIN inode = 1 .. Len(inode) /\ Absent = 0
  BY SwapFacts
<1>2. inode' = Extended(inode, e)
  BY DEF Extended
<1>3. /\ \A i \in 1 .. Len(inode) : inode'[i] = inode[i]
      /\ inode'[Len(inode) + 1] = e
  BY <1>1, <1>2, AppendInSequence
<1> QED
  BY <1>1, <1>3
LEMMA OldFile ==
    ASSUME SwapInv, NEW k \in DOMAIN inode, NEW e, inode' = [inode EXCEPT ![k] = e]
    PROVE  /\ inode'[k] = e /\ \A i \in DOMAIN inode : i # k => inode'[i] = inode[i]
           /\ DOMAIN inode' = DOMAIN inode
  OBVIOUS

LEMMA OpenFreshEffect ==
    ASSUME SwapInv, NEW w \in Writers, OpenFresh(w)
    PROVE  /\ UNCHANGED <<job, source, scan, published>>
           /\ pc[w] = "start" /\ pc'[w] = "fresh" /\ \A v \in Writers : v # w => pc'[v] = pc[v]
           /\ source[w] = << >>
           /\ path'["dest"] # Absent /\ path'["dest"] = out'[w] /\ inode'[out'[w]] = Incomplete(w)
           /\ path["dest"] # Absent => path'["dest"] = path["dest"]
           /\ path["dest"] = Absent => path'["dest"] \notin DOMAIN inode
           /\ \A v \in Writers : path'[v] = path[v]
           /\ \A v \in Writers : v # w => out'[v] = out[v]
           /\ \A i \in DOMAIN inode : i # path'["dest"] => inode'[i] = inode[i]
<1>1. /\ TypeOK /\ OutOnceOpen /\ "dest" \notin Writers /\ "dest" \in Paths
      /\ \A p \in Paths : path[p] # Absent => path[p] \in DOMAIN inode
  BY SwapFacts
<1>2. pc[w] = "start" /\ Goto(w, "fresh") /\ UNCHANGED <<job, source, scan, published>>
  BY DEF OpenFresh, MayStart
<1>3. source[w] = << >>
  BY <1>1, <1>2 DEF OutOnceOpen
<1>4. CASE Exists("dest")
  <2>1. /\ inode' = [inode EXCEPT ![path["dest"]] = Incomplete(w)] /\ path' = path
        /\ out' = [out EXCEPT ![w] = path["dest"]]
    BY <1>4 DEF OpenFresh
  <2>2. path["dest"] \in DOMAIN inode /\ path["dest"] # Absent
    BY <1>1, <1>4 DEF Exists
  <2>3. /\ inode'[path["dest"]] = Incomplete(w)
        /\ \A i \in DOMAIN inode : i # path["dest"] => inode'[i] = inode[i]
    BY <2>1, <2>2, OldFile
  <2>4. out'[w] = path["dest"] /\ \A v \in Writers : v # w => out'[v] = out[v]
    BY <1>1, <2>1 DEF TypeOK
  <2> QED
    BY <1>1, <1>2, <1>3, <2>1, <2>2, <2>3, <2>4, PcStep
<1>5. CASE ~Exists("dest")
  <2>1. /\ inode' = Append(inode, Incomplete(w)) /\ path' = [path EXCEPT !["dest"] = Len(inode) + 1]
        /\ out' = [out EXCEPT ![w] = Len(inode) + 1]
    BY <1>5 DEF OpenFresh
  <2>2. /\ Len(inode) + 1 \notin DOMAIN inode /\ Len(inode) + 1 # Absent
        /\ inode'[Len(inode) + 1] = Incomplete(w)
        /\ \A i \in DOMAIN inode : inode'[i] = inode[i]
    BY <2>1, NewFile
  <2>3. /\ out'[w] = Len(inode) + 1 /\ \A v \in Writers : v # w => out'[v] = out[v]
        /\ path'["dest"] = Len(inode) + 1 /\ \A v \in Writers : path'[v] = path[v]
    BY <1>1, <2>1 DEF TypeOK, Paths
  <2>4. path["dest"] = Absent
    BY <1>5 DEF Exists
  <2> QED
    BY <1>1, <1>2, <1>3, <2>2, <2>3, <2>4, PcStep
<1> QED
  BY <1>4, <1>5

LEMMA CopyEntriesEffect ==
    ASSUME SwapInv, NEW w \in Writers, CopyEntries(w)
    PROVE  /\ UNCHANGED <<job, source, scan, published>> /\ path'["dest"] = path["dest"]
           /\ pc[w] = "copy_entries" /\ \A v \in Writers : v # w => pc'[v] = pc[v]
           /\ out[w] = Absent
           /\ out'[w] # Absent /\ out'[w] \notin DOMAIN inode /\ path'[w] = out'[w]
           /\ \A v \in Writers : v # w => path'[v] = path[v] /\ out'[v] = out[v]
           /\ \A i \in DOMAIN inode : inode'[i] = inode[i]
           /\ IF IsWhole("dest")
              THEN /\ pc'[w] = "write_rows"
                   /\ inode'[out'[w]] =
                        [whole |-> FALSE, by |-> w, sheets |-> At("dest").sheets,
                         parts |-> [i \in DOMAIN At("dest").parts
                                          \ (IF job[w].mode = "replace" THEN {OwnPart(w)} ELSE {})
                                      |-> At("dest").parts[i]]]
              ELSE pc'[w] = "failed" /\ inode'[out'[w]] = Incomplete(w)
<1>1. /\ TypeOK /\ OutOnceOpen /\ "dest" \notin Writers /\ "dest" \in Paths /\ w \in Paths
      /\ \A v \in Writers : v \in Paths
  BY SwapFacts
<1>2. /\ pc[w] = "copy_entries" /\ UNCHANGED <<job, source, scan, published>>
      /\ out' = [out EXCEPT ![w] = Len(inode) + 1]
      /\ path' = [path EXCEPT ![w] = Len(inode) + 1]
  BY DEF CopyEntries
<1>3. /\ out'[w] = Len(inode) + 1 /\ path'[w] = Len(inode) + 1 /\ path'["dest"] = path["dest"]
      /\ \A v \in Writers : v # w => path'[v] = path[v] /\ out'[v] = out[v]
  BY <1>1, <1>2 DEF TypeOK
<1>4. out[w] = Absent
  BY <1>1, <1>2 DEF OutOnceOpen
<1>5. CASE IsWhole("dest")
  <2> DEFINE new == [whole |-> FALSE, by |-> w, sheets |-> At("dest").sheets,
                     parts |-> [i \in DOMAIN At("dest").parts
                                      \ (IF job[w].mode = "replace" THEN {OwnPart(w)} ELSE {})
                                  |-> At("dest").parts[i]]]
  <2>1. inode' = Append(inode, new) /\ Goto(w, "write_rows")
    BY <1>5 DEF CopyEntries
  <2> HIDE DEF new
  <2>2. /\ Len(inode) + 1 \notin DOMAIN inode /\ Len(inode) + 1 # Absent
        /\ inode'[Len(inode) + 1] = new
        /\ \A i \in DOMAIN inode : inode'[i] = inode[i]
    BY <2>1, NewFile
  <2>3. pc'[w] = "write_rows" /\ \A v \in Writers : v # w => pc'[v] = pc[v]
    BY <1>1, <2>1, PcStep
  <2> QED
    BY <1>2, <1>3, <1>4, <1>5, <2>2, <2>3 DEF new
<1>6. CASE ~IsWhole("dest")
  <2>1. inode' = Append(inode, Incomplete(w)) /\ Goto(w, "failed")
    BY <1>6 DEF CopyEntries
  <2>2. /\ Len(inode) + 1 \notin DOMAIN inode /\ Len(inode) + 1 # Absent
        /\ inode'[Len(inode) + 1] = Incomplete(w)
        /\ \A i \in DOMAIN inode : inode'[i] = inode[i]
    BY <2>1, NewFile
  <2>3. pc'[w] = "failed" /\ \A v \in Writers : v # w => pc'[v] = pc[v]
    BY <1>1, <2>1, PcStep
  <2> QED
    BY <1>2, <1>3, <1>4, <1>6, <2>2, <2>3
<1> QED
  BY <1>5, <1>6

(* The writes in place go to the writer's own file.                          *)
LEMMA WriteEffect ==
    ASSUME SwapInv, NEW w \in Writers, FinishFresh(w) \/ FinishZip(w) \/ DestroyWriter(w)
    PROVE  /\ UNCHANGED <<job, path, source, out, scan>>
           /\ out[w] # Absent /\ out[w] \in DOMAIN inode
           /\ \A i \in DOMAIN inode : i # out[w] => inode'[i] = inode[i]
           /\ \A v \in Writers : v # w => pc'[v] = pc[v]
           /\ FinishFresh(w) =>
                /\ pc[w] = "fresh" /\ pc'[w] = "finished" /\ published' = published
                /\ inode'[out[w]] = IF inode[out[w]].by = w
                     THEN [whole |-> FALSE, by |-> w, sheets |-> <<job[w].name>>,
                           parts |-> <<Datum(job[w].name, w)>>]
                     ELSE Incomplete("several")
           /\ FinishZip(w) =>
                /\ pc[w] = "write_rows" /\ pc'[w] = "remove" /\ published' = published
                /\ inode'[out[w]] =
                     [whole |-> FALSE, by |-> w, sheets |-> NewSheets(w, inode[out[w]].sheets),
                      parts |-> [i \in DOMAIN inode[out[w]].parts \cup {OwnPart(w)} |->
                                   IF i = OwnPart(w) THEN Datum(job[w].name, w)
                                   ELSE inode[out[w]].parts[i]]]
           /\ DestroyWriter(w) =>
                /\ pc[w] = "finished" /\ pc'[w] = "done"
                /\ inode'[out[w]] = IF inode[out[w]].by = w
                     THEN [whole |-> TRUE, by |-> w, sheets |-> inode[out[w]].sheets,
                           parts |-> inode[out[w]].parts]
                     ELSE Incomplete("several")
                /\ published' = IF inode[out[w]].by = w /\ path["dest"] = out[w]
                                THEN Append(published, inode'[out[w]]) ELSE published
<1>1. TypeOK /\ OutOnceOpen /\ TempIsPrivate /\ TriesCounted
  BY SwapFacts
<1>2. pc[w] \in {"fresh", "write_rows", "finished"} /\ UNCHANGED <<job, path, source, out, scan>>
  BY DEF FinishFresh, FinishZip, DestroyWriter
<1>3. out[w] # Absent /\ out[w] \in DOMAIN inode
  BY <1>1, <1>2, SwapFacts DEF OutOnceOpen, TempIsPrivate, TriesCounted
<1>4. CASE FinishFresh(w)
  <2> DEFINE new == IF inode[out[w]].by = w
                    THEN [whole |-> FALSE, by |-> w, sheets |-> <<job[w].name>>,
                          parts |-> <<Datum(job[w].name, w)>>]
                    ELSE Incomplete("several")
  <2>1. /\ pc[w] = "fresh" /\ Goto(w, "finished") /\ published' = published
        /\ inode' = [inode EXCEPT ![out[w]] = new]
    BY <1>4 DEF FinishFresh
  <2>2. ~FinishZip(w) /\ ~DestroyWriter(w)
    BY <2>1 DEF FinishZip, DestroyWriter
  <2> HIDE DEF new
  <2>3. inode'[out[w]] = new /\ \A i \in DOMAIN inode : i # out[w] => inode'[i] = inode[i]
    BY <1>3, <2>1, OldFile
  <2>4. pc'[w] = "finished" /\ \A v \in Writers : v # w => pc'[v] = pc[v]
    BY <1>1, <2>1, PcStep
  <2> QED
    BY <1>2, <1>3, <2>1, <2>2, <2>3, <2>4 DEF new
<1>5. CASE FinishZip(w)
  <2> DEFINE new == [whole |-> FALSE, by |-> w, sheets |-> NewSheets(w, inode[out[w]].sheets),
                     parts |-> [i \in DOMAIN inode[out[w]].parts \cup {OwnPart(w)} |->
                                  IF i = OwnPart(w) THEN Datum(job[w].name, w)
                                  ELSE inode[out[w]].parts[i]]]
  <2>1. /\ pc[w] = "write_rows" /\ Goto(w, "remove") /\ published' = published
        /\ inode' = [inode EXCEPT ![out[w]] = new]
    BY <1>5 DEF FinishZip
  <2>2. ~FinishFresh(w) /\ ~DestroyWriter(w)
    BY <2>1 DEF FinishFresh, DestroyWriter
  <2> HIDE DEF new
  <2>3. inode'[out[w]] = new /\ \A i \in DOMAIN inode : i # out[w] => inode'[i] = inode[i]
    BY <1>3, <2>1, OldFile
  <2>4. pc'[w] = "remove" /\ \A v \in Writers : v # w => pc'[v] = pc[v]
    BY <1>1, <2>1, PcStep
  <2> QED
    BY <1>2, <1>3, <2>1, <2>2, <2>3, <2>4 DEF new
<1>6. CASE DestroyWriter(w)
  <2> DEFINE book == [whole |-> TRUE, by |-> w, sheets |-> inode[out[w]].sheets,
                      parts |-> inode[out[w]].parts]
             new  == IF inode[out[w]].by = w THEN book ELSE Incomplete("several")
  <2>1. /\ pc[w] = "finished" /\ Goto(w, "done")
        /\ inode' = [inode EXCEPT ![out[w]] = new]
        /\ published' = IF inode[out[w]].by = w /\ path["dest"] = out[w]
                        THEN Append(published, book) ELSE published
    BY <1>6 DEF DestroyWriter
  <2>2. ~FinishFresh(w) /\ ~FinishZip(w)
    BY <2>1 DEF FinishFresh, FinishZip
  <2> HIDE DEF book
  <2>3. inode'[out[w]] = new /\ \A i \in DOMAIN inode : i # out[w] => inode'[i] = inode[i]
    BY <1>3, <2>1, OldFile
  <2>4. pc'[w] = "done" /\ \A v \in Writers : v # w => pc'[v] = pc[v]
    BY <1>1, <2>1, PcStep
  <2> QED
    BY <1>2, <1>3, <2>1, <2>2, <2>3, <2>4 DEF book
<1> QED
  BY <1>4, <1>5, <1>6

(* The calls that move nothing but names, and those that move nothing.       *)
LEMMA NameEffect ==
    ASSUME SwapInv, NEW w \in Writers, RemoveDest(w) \/ MoveTmp(w) \/ GiveUp(w)
    PROVE  /\ UNCHANGED <<job, inode, source, out, scan, published>>
           /\ out[w] # Absent
           /\ \A v \in Writers : v # w => pc'[v] = pc[v] /\ path'[v] = path[v]
           /\ RemoveDest(w) =>
                /\ pc[w] = "remove" /\ pc'[w] = "move"
                /\ path'["dest"] = Absent /\ path'[w] = path[w]
           /\ MoveTmp(w) =>
                /\ pc[w] = "move" /\ pc'[w] = "finished"
                /\ path'["dest"] = out[w] /\ path'[w] = Absent
           /\ GiveUp(w) =>
                /\ pc[w] = "give_up" /\ pc'[w] = "failed"
                /\ path'["dest"] = path["dest"] /\ path'[w] \in {path[w], Absent}
<1>1. /\ TypeOK /\ TempIsPrivate /\ "dest" \notin Writers /\ "dest" \in Paths /\ w \in Paths
      /\ \A v \in Writers : v \in Paths /\ v # "dest"
  BY SwapFacts
<1>2. /\ pc[w] \in {"remove", "move", "give_up"}
      /\ UNCHANGED <<job, inode, source, out, scan, published>>
  BY DEF RemoveDest, MoveTmp, GiveUp
<1>3. out[w] # Absent
  BY <1>1, <1>2 DEF TempIsPrivate
<1>4. CASE RemoveDest(w)
  <2>1. pc[w] = "remove" /\ Goto(w, "move") /\ path' = [path EXCEPT !["dest"] = Absent]
    BY <1>4 DEF RemoveDest
  <2>2. ~MoveTmp(w) /\ ~GiveUp(w)
    BY <2>1 DEF MoveTmp, GiveUp
  <2>3. path'["dest"] = Absent /\ \A v \in Writers : path'[v] = path[v]
    BY <1>1, <2>1 DEF TypeOK
  <2> QED
    BY <1>1, <1>2, <1>3, <2>1, <2>2, <2>3, PcStep
<1>5. CASE MoveTmp(w)
  <2>1. pc[w] = "move" /\ Goto(w, "finished") /\ path' = [path EXCEPT !["dest"] = out[w], ![w] = Absent]
    BY <1>5 DEF MoveTmp
  <2>2. ~RemoveDest(w) /\ ~GiveUp(w)
    BY <2>1 DEF RemoveDest, GiveUp
  <2>3. path'["dest"] = out[w] /\ path'[w] = Absent /\ \A v \in Writers : v # w => path'[v] = path[v]
    BY <1>1, <2>1 DEF TypeOK
  <2> QED
    BY <1>1, <1>2, <1>3, <2>1, <2>2, <2>3, PcStep
<1>6. CASE GiveUp(w)
  <2>1. pc[w] = "give_up" /\ Goto(w, "failed") /\ (path' = [path EXCEPT ![w] = Absent] \/ path' = path)
    BY <1>6 DEF GiveUp
  <2>2. ~RemoveDest(w) /\ ~MoveTmp(w)
    BY <2>1 DEF RemoveDest, MoveTmp
  <2>3. /\ path'["dest"] = path["dest"] /\ path'[w] \in {path[w], Absent}
        /\ \A v \in Writers : v # w => path'[v] = path[v]
    BY <1>1, <2>1 DEF TypeOK
  <2> QED
    BY <1>1, <1>2, <1>3, <2>1, <2>2, <2>3, PcStep
<1> QED
  BY <1>4, <1>5, <1>6

LEMMA OtherEffect ==
    ASSUME SwapInv, NEW w \in Writers,
           OpenAppender(w) \/ ReadMetadata(w) \/ RefuseSource(w) \/ InputThrows(w) \/ RetryFsOp(w)
    PROVE  /\ UNCHANGED <<job, path, inode, out, scan, published>>
           /\ \A v \in Writers : v # w => pc'[v] = pc[v] /\ source'[v] = source[v]
           /\ \/ pc[w] = "start" /\ pc'[w] = "read_metadata" /\ source' = source /\ MayStart(w)
              \/ /\ pc[w] = "read_metadata" /\ pc'[w] = "copy_entries" /\ out[w] = Absent
                 /\ IsWhole("dest") /\ source'[w] = At("dest").sheets /\ Accepts(w, source'[w])
              \/ pc[w] \in {"read_metadata", "fresh", "write_rows"} /\ pc'[w] = "failed" /\ source' = source
              \/ pc[w] \in {"remove", "move"} /\ pc'[w] \in {pc[w], "give_up"} /\ source' = source
<1>1. TypeOK /\ OutOnceOpen
  BY SwapFacts
<1>2. UNCHANGED <<job, path, inode, out, scan, published>>
  BY DEF OpenAppender, ReadMetadata, RefuseSource, InputThrows, RetryFsOp
<1>3. CASE OpenAppender(w)
  <2>1. pc[w] = "start" /\ Goto(w, "read_metadata") /\ source' = source /\ MayStart(w)
    BY <1>3 DEF OpenAppender, MayStart
  <2> QED
    BY <1>1, <1>2, <2>1, PcStep
<1>4. CASE ReadMetadata(w)
  <2>1. /\ pc[w] = "read_metadata" /\ Goto(w, "copy_entries") /\ IsWhole("dest")
        /\ source' = [source EXCEPT ![w] = At("dest").sheets] /\ Accepts(w, At("dest").sheets)
    BY <1>4 DEF ReadMetadata
  <2>2. source'[w] = At("dest").sheets /\ \A v \in Writers : v # w => source'[v] = source[v]
    BY <1>1, <2>1 DEF TypeOK
  <2>3. out[w] = Absent
    BY <1>1, <2>1 DEF OutOnceOpen
  <2> QED
    BY <1>1, <1>2, <2>1, <2>2, <2>3, PcStep
<1>5. CASE RefuseSource(w) \/ InputThrows(w)
  <2>1. /\ pc[w] \in {"read_metadata", "fresh", "write_rows"} /\ Goto(w, "failed") /\ source' = source
    BY <1>5 DEF RefuseSource, InputThrows
  <2> QED
    BY <1>1, <1>2, <2>1, PcStep
<1>6. CASE RetryFsOp(w)
  <2>1. /\ pc[w] \in {"remove", "move"} /\ source' = source
        /\ Goto(w, IF attempts[w] + 1 < MaxAttempts THEN pc[w] ELSE "give_up")
    BY <1>6 DEF RetryFsOp
  <2>2. /\ pc'[w] = IF attempts[w] + 1 < MaxAttempts THEN pc[w] ELSE "give_up"
        /\ \A v \in Writers : v # w => pc'[v] = pc[v]
    BY <1>1, <2>1, PcStep
  <2> QED
    BY <1>2, <2>1, <2>2
<1> QED
  BY <1>3, <1>4, <1>5, <1>6

(* A statement that wrote the workbook afresh has done so for good.          *)
LEMMA FreshRemains ==
    ASSUME SwapInv, [Next]_vars, NEW w \in Writers, WroteFresh(w)
    PROVE  WroteFresh(w)'
<1>1. out[w] # Absent /\ source[w] = << >>
  BY DEF WroteFresh
<1>2. SUFFICES out'[w] # Absent /\ source'[w] = << >>
  BY DEF WroteFresh, Absent
<1>3. CASE UNCHANGED <<out, source>>
  BY <1>1, <1>3
<1>4. ASSUME NEW v \in Writers, OpenFresh(v)
      PROVE  out'[w] # Absent /\ source'[w] = << >>
  BY <1>1, <1>4, OpenFreshEffect
<1>5. ASSUME NEW v \in Writers, CopyEntries(v)
      PROVE  out'[w] # Absent /\ source'[w] = << >>
  BY <1>1, <1>5, CopyEntriesEffect
<1>6. ASSUME NEW v \in Writers, FinishFresh(v) \/ FinishZip(v) \/ DestroyWriter(v)
                                \/ RemoveDest(v) \/ MoveTmp(v) \/ GiveUp(v)
      PROVE  out'[w] # Absent /\ source'[w] = << >>
  BY <1>1, <1>6, WriteEffect, NameEffect
<1>7. ASSUME NEW v \in Writers,
             OpenAppender(v) \/ ReadMetadata(v) \/ RefuseSource(v) \/ InputThrows(v) \/ RetryFsOp(v)
      PROVE  out'[w] # Absent /\ source'[w] = << >>
  BY <1>1, <1>7, OtherEffect
<1> QED
  BY <1>3, <1>4, <1>5, <1>6, <1>7 DEF Next, Step, Bind, InitGlobal, Crash, vars

LEMMA NoFreshBefore ==
    ASSUME SwapInv, [Next]_vars, NoFresh'
    PROVE  NoFresh
  BY FreshRemains DEF NoFresh

(* The last of a sequence that a workbook is appended to is that workbook.   *)
LEMMA PublishedLast ==
    ASSUME IsSequence(published), NEW book, published' = Append(published, book)
    PROVE  IsSequence(published') /\ published' # << >> /\ Latest' = book
<1>1. published' = Extended(published, book)
  BY DEF Extended
<1>2. /\ IsSequence(published') /\ Len(published') = Len(published) + 1
      /\ DOMAIN published' = 1 .. Len(published) + 1
      /\ published'[Len(published) + 1] = book
  BY <1>1, AppendInSequence
<1>3. Len(published) \in Nat
  BY DEF IsSequence
<1>4. 1 \in DOMAIN published'
  BY <1>2, <1>3
<1>5. published' # << >>
  BY <1>4
<1>6. Latest' = book
  BY <1>2 DEF Latest
<1> QED
  BY <1>2, <1>5, <1>6

-----------------------------------------------------------------------------
(* Outside the swap the workbook published last stays where it is.           *)
LEMMA InitKeepInv == Init => KeepInv
<1> SUFFICES ASSUME Init PROVE KeepInv
  OBVIOUS
<1>1. SwapInv
  BY InitSwapInv
<1>2. /\ inode[1] = FirstBook /\ FirstBook.whole = TRUE
      /\ path["dest"] = IF Base # << >> THEN 1 ELSE Absent
      /\ published = IF Base # << >> THEN <<FirstBook>> ELSE << >>
      /\ \A w \in Writers : out[w] = Absent
  BY DEF Init, FirstBook, Paths
<1>3. IsSequence(published)
  <2>1. CASE Base # << >>
    <3>1. published = <<FirstBook>> /\ {published[i] : i \in DOMAIN published} = {FirstBook}
      BY <1>2, <2>1
    <3> QED
      BY <3>1 DEF IsSequence
  <2>2. CASE Base = << >>
    <3>1. published = << >>
      BY <1>2, <2>2
    <3>2. << >> \in Seq({published[i] : i \in DOMAIN published})
      BY EmptySeq
    <3> QED
      BY <3>1, <3>2 DEF IsSequence
  <2> QED
    BY <2>1, <2>2
<1>4. OutIsOwn
  BY <1>2 DEF OutIsOwn
<1>5. LatestInPlace
  <2>1. CASE Base # << >>
    <3>1. published = <<FirstBook>> /\ published # << >> /\ Latest = FirstBook
      BY <1>2, <2>1 DEF Latest
    <3>2. IsWhole("dest") /\ At("dest") = FirstBook
      BY <1>2, <2>1 DEF IsWhole, At, Exists, Absent
    <3> QED
      BY <3>1, <3>2 DEF LatestInPlace
  <2>2. CASE Base = << >>
    BY <1>2, <2>2 DEF LatestInPlace, Exists
  <2> QED
    BY <2>1, <2>2
<1> QED
  BY <1>1, <1>3, <1>4, <1>5 DEF KeepInv

LEMMA StepKeepInv ==
    ASSUME KeepInv, [Next]_vars
    PROVE  KeepInv'
<1>1. SwapInv /\ IsSequence(published) /\ OutIsOwn /\ LatestInPlace
  BY DEF KeepInv
<1>2. SwapInv'
  BY <1>1, StepSwapInv
<1>3. IsSequence(published)'
  <2>1. CASE published' = published
    BY <1>1, <2>1 DEF IsSequence
  <2>2. ASSUME NEW w \in Writers, DestroyWriter(w) PROVE IsSequence(published')
    <3>1. published' = published \/ published' = Append(published, inode'[out[w]])
      BY <1>1, <2>2, WriteEffect
    <3>2. CASE published' = published
      BY <1>1, <3>2
    <3>3. CASE published' = Append(published, inode'[out[w]])
      BY <1>1, <3>3, PublishedLast
    <3> QED
      BY <3>1, <3>2, <3>3
  <2> QED
    BY <2>1, <2>2 DEF Next, Step, OpenFresh, OpenAppender, ReadMetadata, RefuseSource, CopyEntries,
       InputThrows, FinishFresh, FinishZip, RemoveDest, MoveTmp, RetryFsOp, GiveUp, Bind, InitGlobal,
       Crash, vars
<1>4. ASSUME NoFresh' PROVE NoFresh
  BY <1>1, <1>4, NoFreshBefore
<1>5. SUFFICES ASSUME NoFresh'
               PROVE  /\ \A w \in Writers : out'[w] # Absent => inode'[out'[w]].by = w
                      /\ \/ published' = << >> /\ path'["dest"] = Absent
                         \/ /\ published' # << >> /\ path'["dest"] # Absent /\ inode'[path'["dest"]].whole
                            /\ inode'[path'["dest"]].sheets = Latest'.sheets
                         \/ \E w \in Writers : Swapping(w)'
  BY <1>2, <1>3 DEF KeepInv, OutIsOwn, LatestInPlace, IsWhole, Exists, At, Absent
<1>6. /\ NoFresh /\ \A w \in Writers : out[w] # Absent => inode[out[w]].by = w
      /\ \/ published = << >> /\ path["dest"] = Absent
         \/ /\ published # << >> /\ path["dest"] # Absent /\ inode[path["dest"]].whole
            /\ inode[path["dest"]].sheets = Latest.sheets
         \/ \E w \in Writers : Swapping(w)
  BY <1>1, <1>4, <1>5 DEF OutIsOwn, LatestInPlace, IsWhole, Exists, At
<1>7. /\ TypeOK /\ TempIsPrivate /\ OutOnceOpen /\ TriesCounted /\ "dest" \in Paths /\ "dest" \notin Writers
      /\ \A p \in Paths : path[p] # Absent => path[p] \in DOMAIN inode
      /\ \A w \in Writers : out[w] # Absent => out[w] \in DOMAIN inode
  BY <1>1, SwapFacts
<1>8. \A w \in Writers : out'[w] = Absent \/ source'[w] # << >>
  BY <1>5 DEF NoFresh, WroteFresh, Absent
<1> DEFINE Goal == /\ \A w \in Writers : out'[w] # Absent => inode'[out'[w]].by = w
                   /\ \/ published' = << >> /\ path'["dest"] = Absent
                      \/ /\ published' # << >> /\ path'["dest"] # Absent /\ inode'[path'["dest"]].whole
                         /\ inode'[path'["dest"]].sheets = Latest'.sheets
                      \/ \E w \in Writers : Swapping(w)'
<1>10. ASSUME NEW v \in Writers, OpenFresh(v) PROVE Goal
  BY <1>1, <1>8, <1>10, OpenFreshEffect
<1>11. ASSUME NEW v \in Writers, CopyEntries(v) PROVE Goal
  <2>0. inode'[out'[v]].by = v
    <3>1. CASE IsWhole("dest")
      <4>1. inode'[out'[v]] =
              [whole |-> FALSE, by |-> v, sheets |-> At("dest").sheets,
               parts |-> [i \in DOMAIN At("dest").parts
                                \ (IF job[v].mode = "replace" THEN {OwnPart(v)} ELSE {})
                            |-> At("dest").parts[i]]]
        BY <1>1, <1>11, <3>1, CopyEntriesEffect
      <4> QED
        BY <4>1
    <3>2. CASE ~IsWhole("dest")
      <4>1. inode'[out'[v]] = Incomplete(v)
        BY <1>1, <1>11, <3>2, CopyEntriesEffect
      <4> QED
        BY <4>1 DEF Incomplete
    <3> QED
      BY <3>1, <3>2
  <2>1. /\ UNCHANGED <<source, published>> /\ path'["dest"] = path["dest"]
        /\ pc[v] = "copy_entries" /\ \A u \in Writers : u # v => pc'[u] = pc[u]
        /\ out[v] = Absent /\ inode'[out'[v]].by = v
        /\ \A u \in Writers : u # v => out'[u] = out[u]
        /\ \A i \in DOMAIN inode : inode'[i] = inode[i]
    BY <1>1, <1>11, <2>0, CopyEntriesEffect
  <2>2. \A u \in Writers : Swapping(u) => u # v
    BY <2>1 DEF Swapping
  <2>3. \A u \in Writers : Swapping(u) => Swapping(u)'
    BY <2>1, <2>2 DEF Swapping, Absent
  <2>4. Latest' = Latest
    BY <2>1 DEF Latest
  <2>5. path["dest"] # Absent => inode'[path'["dest"]] = inode[path["dest"]]
    BY <1>7, <2>1
  <2>6. \A u \in Writers : out'[u] # Absent => inode'[out'[u]].by = u
    BY <1>6, <1>7, <2>1
  <2> QED
    BY <1>6, <2>1, <2>3, <2>4, <2>5, <2>6
<1>12. ASSUME NEW v \in Writers, FinishFresh(v) PROVE Goal
  <2>1. pc[v] = "fresh"
    BY <1>12 DEF FinishFresh
  <2>2. WroteFresh(v)
    BY <1>7, <2>1 DEF OutOnceOpen, WroteFresh
  <2> QED
    BY <1>6, <2>2 DEF NoFresh
<1>13. ASSUME NEW v \in Writers, FinishZip(v) PROVE Goal
  <2>0. inode'[out[v]].by = v
    <3>1. inode'[out[v]] =
            [whole |-> FALSE, by |-> v, sheets |-> NewSheets(v, inode[out[v]].sheets),
             parts |-> [i \in DOMAIN inode[out[v]].parts \cup {OwnPart(v)} |->
                          IF i = OwnPart(v) THEN Datum(job[v].name, v) ELSE inode[out[v]].parts[i]]]
      BY <1>1, <1>13, WriteEffect
    <3> QED
      BY <3>1
  <2>1. /\ UNCHANGED <<source, published, path, out>> /\ inode'[out[v]].by = v
        /\ pc[v] = "write_rows" /\ \A u \in Writers : u # v => pc'[u] = pc[u]
        /\ \A i \in DOMAIN inode : i # out[v] => inode'[i] = inode[i]
    BY <1>1, <1>13, <2>0, WriteEffect
  <2>2. \A u \in Writers : Swapping(u) => u # v
    BY <2>1 DEF Swapping
  <2>3. \A u \in Writers : Swapping(u) => Swapping(u)'
    BY <2>1, <2>2 DEF Swapping, Absent
  <2>4. Latest' = Latest
    BY <2>1 DEF Latest
  <2>5. path["dest"] # Absent => inode'[path'["dest"]] = inode[path["dest"]]
    BY <1>7, <2>1 DEF TempIsPrivate
  <2>6. \A u \in Writers : out'[u] # Absent => inode'[out'[u]].by = u
    BY <1>6, <1>7, <2>1
  <2> QED
    BY <1>6, <2>1, <2>3, <2>4, <2>5, <2>6
<1>14. ASSUME NEW v \in Writers, DestroyWriter(v) PROVE Goal
  <2>1. /\ UNCHANGED <<source, path, out>> /\ out[v] # Absent
        /\ pc[v] = "finished" /\ \A u \in Writers : u # v => pc'[u] = pc[u]
        /\ \A i \in DOMAIN inode : i # out[v] => inode'[i] = inode[i]
        /\ inode[out[v]].by = v
    BY <1>1, <1>6, <1>14, WriteEffect
  <2>2. /\ inode'[out[v]].whole /\ inode'[out[v]].by = v
        /\ published' = IF path["dest"] = out[v] THEN Append(published, inode'[out[v]]) ELSE published
    <3>1. inode'[out[v]] = [whole |-> TRUE, by |-> v, sheets |-> inode[out[v]].sheets,
                            parts |-> inode[out[v]].parts]
      BY <1>1, <1>14, <2>1, WriteEffect
    <3>2. published' = IF path["dest"] = out[v] THEN Append(published, inode'[out[v]]) ELSE published
      BY <1>1, <1>14, <2>1, WriteEffect
    <3> QED
      BY <3>1, <3>2
  <2>3. \A u \in Writers : out'[u] # Absent => inode'[out'[u]].by = u
    BY <1>6, <1>7, <2>1, <2>2
  <2>4. CASE path["dest"] = out[v]
    <3>1. published' # << >> /\ Latest' = inode'[out[v]]
      BY <1>1, <2>2, <2>4, PublishedLast
    <3> QED
      BY <2>1, <2>2, <2>3, <2>4, <3>1
  <2>5. CASE path["dest"] # out[v]
    <3>1. published' = published /\ Latest' = Latest
      BY <2>2, <2>5 DEF Latest
    <3>2. path["dest"] # Absent => inode'[path'["dest"]] = inode[path["dest"]]
      BY <1>7, <2>1, <2>5
    <3>3. \A u \in Writers : Swapping(u) => u # v
      BY <2>1, <2>5 DEF Swapping
    <3>4. \A u \in Writers : Swapping(u) => Swapping(u)'
      BY <2>1, <3>3 DEF Swapping, Absent
    <3> QED
      BY <1>6, <2>1, <2>3, <3>1, <3>2, <3>4
  <2> QED
    BY <2>4, <2>5
<1>15. ASSUME NEW v \in Writers, RemoveDest(v) \/ MoveTmp(v) PROVE Goal
  <2>1. /\ UNCHANGED <<source, inode, out, published>> /\ out[v] # Absent
        /\ \/ pc'[v] = "move" /\ path'["dest"] = Absent
           \/ pc'[v] = "finished" /\ path'["dest"] = out[v]
    BY <1>1, <1>15, NameEffect
  <2>2. source'[v] # << >>
    BY <1>8, <2>1
  <2>3. Swapping(v)'
    BY <2>1, <2>2 DEF Swapping, Absent
  <2> QED
    BY <1>6, <2>1, <2>3
<1>16. ASSUME NEW v \in Writers, GiveUp(v) PROVE Goal
  <2>1. /\ UNCHANGED <<source, inode, out, published>> /\ path'["dest"] = path["dest"]
        /\ pc[v] = "give_up" /\ pc'[v] = "failed" /\ \A u \in Writers : u # v => pc'[u] = pc[u]
    BY <1>1, <1>16, NameEffect
  <2>2. \A u \in Writers : Swapping(u) => Swapping(u)'
    BY <2>1 DEF Swapping, Absent
  <2> QED
    BY <1>6, <2>1, <2>2 DEF Latest
<1>17. ASSUME NEW v \in Writers,
             OpenAppender(v) \/ ReadMetadata(v) \/ RefuseSource(v) \/ InputThrows(v) \/ RetryFsOp(v)
       PROVE  Goal
  <2>1. /\ UNCHANGED <<path, inode, out, published>>
        /\ \A u \in Writers : u # v => pc'[u] = pc[u] /\ source'[u] = source[u]
        /\ \/ pc[v] \in {"start", "read_metadata", "fresh", "write_rows"}
           \/ pc[v] \in {"remove", "move"} /\ pc'[v] \in {pc[v], "give_up"} /\ source' = source
    BY <1>1, <1>17, OtherEffect
  <2>2. \A u \in Writers : Swapping(u) => Swapping(u)'
    BY <2>1 DEF Swapping, Absent
  <2> QED
    BY <1>6, <2>1, <2>2 DEF Latest
<1>18. ASSUME Crash PROVE Goal
  <2>1. /\ UNCHANGED <<path, inode, out, published, source>>
        /\ \A u \in Writers : pc'[u] = IF Running(u) THEN "crashed" ELSE pc[u]
    BY <1>18 DEF Crash
  <2>2. \A u \in Writers : Swapping(u) => Swapping(u)'
    BY <2>1 DEF Swapping, Absent, Running
  <2> QED
    BY <1>6, <2>1, <2>2 DEF Latest
<1>19. ASSUME NEW r \in Readers, Bind(r) \/ InitGlobal(r) PROVE Goal
  <2>1. UNCHANGED <<path, inode, out, published, source, pc>>
    BY <1>19 DEF Bind, InitGlobal
  <2>2. \A u \in Writers : Swapping(u) => Swapping(u)'
    BY <2>1 DEF Swapping, Absent
  <2> QED
    BY <1>6, <2>1, <2>2 DEF Latest
<1>20. ASSUME UNCHANGED vars PROVE Goal
  <2>1. UNCHANGED <<path, inode, out, published, source, pc>>
    BY <1>20 DEF vars
  <2>2. \A u \in Writers : Swapping(u) => Swapping(u)'
    BY <2>1 DEF Swapping, Absent
  <2> QED
    BY <1>6, <2>1, <2>2 DEF Latest
<1> HIDE DEF Goal
<1>21. Goal
  BY <1>10, <1>11, <1>12, <1>13, <1>14, <1>15, <1>16, <1>17, <1>18, <1>19, <1>20 DEF Next, Step
<1> QED
  BY <1>21 DEF Goal

(* For any number of overlapping COPYs: nobody writes into the workbook that *)
(* was published last, and only a swap takes it away (XLSXAppender::Finish). *)
THEOREM KeepCorrect == Spec => []KeepInv
<1>1. KeepInv /\ [Next]_vars => KeepInv'
  BY StepKeepInv
<1> QED
  BY <1>1, InitKeepInv, PTL DEF Spec

(* Whatever fails and whoever else writes, the sheets published last are in  *)
(* a complete workbook on the disk, except between RemoveFile and the        *)
(* destruction of a writer, or after a COPY has written the file afresh.     *)
THEOREM PublishedIsKept == Spec => []KeptOrReady
<1>1. KeepInv => KeptOrReady
  <2> SUFFICES ASSUME KeepInv, published # << >>, NoFresh
               PROVE  BookIsKept \/ \E w \in Writers : InSwapWindow(w)
    BY DEF KeptOrReady, NoFresh
  <2>1. \/ IsWhole("dest") /\ At("dest").sheets = Latest.sheets
        \/ \E w \in Writers : Swapping(w)
    BY DEF KeepInv, LatestInPlace
  <2>2. CASE IsWhole("dest") /\ At("dest").sheets = Latest.sheets
    <3>1. "dest" \in Paths
      BY DEF Paths
    <3>2. HasAll(At("dest"), Latest.sheets)
      BY <2>2 DEF HasAll, Holds
    <3> QED
      BY <2>2, <3>1, <3>2 DEF BookIsKept, Latest
  <2>3. CASE \E w \in Writers : Swapping(w)
    BY <2>3 DEF Swapping, InSwapWindow
  <2> QED
    BY <2>1, <2>2, <2>3
<1>2. KeepInv /\ [Next]_vars => KeepInv'
  BY StepKeepInv
<1> QED
  BY <1>1, <1>2, InitKeepInv, PTL DEF Spec

-----------------------------------------------------------------------------
(* COPYs that run one after the other.                                       *)
LEMMA InitSerialInv == Init => SerialInv
<1> SUFFICES ASSUME Init PROVE SerialInv
  OBVIOUS
<1>1. SwapInv /\ IsSequence(published)
  BY InitSwapInv, InitKeepInv DEF KeepInv
<1>2. /\ inode[1] = FirstBook
      /\ path["dest"] = IF Base # << >> THEN 1 ELSE Absent
      /\ published = IF Base # << >> THEN <<FirstBook>> ELSE << >>
      /\ \A w \in Writers : pc[w] = "start"
      /\ \A w \in Writers : path[w] = Absent
  BY SwapAssumption DEF Init, Paths
<1>3. /\ FirstBook.whole = TRUE /\ FirstBook.sheets = Base
      /\ FirstBook.parts = [i \in DOMAIN Base |-> Datum(Base[i], "base")]
  BY DEF FirstBook
<1>4. CurrentIsLatest
  <2>1. CASE Base # << >>
    <3>1. published # << >> /\ Latest = FirstBook
      BY <1>2, <2>1 DEF Latest
    <3>2. Latest.sheets # << >> /\ Latest.sheets \in Seq(Names) /\ Consistent(Latest)
      BY <1>3, <2>1, <3>1, BaseNames DEF Consistent, Datum
    <3>3. At("dest") = Latest
      BY <1>2, <2>1, <3>1 DEF At
    <3> QED
      BY <3>1, <3>2, <3>3 DEF CurrentIsLatest
  <2>2. CASE Base = << >>
    BY <1>2, <2>2 DEF CurrentIsLatest, IsWhole, Exists
  <2> QED
    BY <2>1, <2>2
<1>5. OneAtATime /\ TempIsNoBook /\ WorkOfWriter
  BY <1>2 DEF OneAtATime, Active, TempIsNoBook, WorkOfWriter, Exists
<1>6. ScanTyped /\ ScansFollow
  BY DEF Init, ScanTyped, ScansFollow
<1> QED
  BY <1>1, <1>4, <1>5, <1>6 DEF SerialInv

(* While one COPY takes a step no other one is on its way.                   *)
LEMMA OthersAreIdle ==
    ASSUME ~Overlap, SerialInv, NEW w \in Writers, Step(w)
    PROVE  /\ Active(w) \/ (pc[w] = "start" /\ MayStart(w))
           /\ \A v \in Writers : v # w => ~Active(v) /\ pc'[v] = pc[v]
           /\ OneAtATime'
<1>1. SwapInv /\ OneAtATime
  BY DEF SerialInv
<1>2. \A v \in Writers : v # w => pc'[v] = pc[v]
  BY <1>1, OpenFreshEffect, CopyEntriesEffect, WriteEffect, NameEffect, OtherEffect DEF Step
<1>3. Active(w) \/ (pc[w] = "start" /\ MayStart(w))
  BY DEF Step, OpenFresh, OpenAppender, ReadMetadata, RefuseSource, CopyEntries, InputThrows,
         FinishFresh, FinishZip, RemoveDest, MoveTmp, RetryFsOp, GiveUp, DestroyWriter, MayStart,
         Active, Running
<1>4. \A v \in Writers : v # w => ~Active(v)
  BY <1>1, <1>3 DEF OneAtATime, MayStart, Active
<1>5. \A v \in Writers : v # w => ~Active(v)'
  BY <1>2, <1>4 DEF Active, Running
<1>6. OneAtATime'
  BY <1>5 DEF OneAtATime
<1> QED
  BY <1>2, <1>3, <1>4, <1>6

(* So what is true of the work of the one that moves is true of all.         *)
WorkOf(w) ==
    /\ pc[w] = "copy_entries" => ReadLatest(w) /\ IsWhole("dest")
    /\ pc[w] = "write_rows" => ReadLatest(w) /\ CopyOfLatest(w)
    /\ pc[w] \in {"remove", "move", "give_up"} => ReadLatest(w) /\ BookOfAppender(w)
    /\ pc[w] = "finished" =>
         IF source[w] = << >> THEN BookOfFresh(w) ELSE ReadLatest(w) /\ BookOfAppender(w)
    /\ pc[w] \in {"fresh", "finished"} => path["dest"] = out[w]
    /\ pc[w] \in {"fresh", "write_rows", "remove", "move", "give_up", "finished"} =>
         inode[out[w]].by = w /\ ~inode[out[w]].whole

LEMMA WorkOfOne ==
    ASSUME ~Overlap, SerialInv, NEW w \in Writers, Step(w), WorkOf(w)'
    PROVE  WorkOfWriter'
<1>1. ASSUME NEW v \in Writers PROVE WorkOf(v)'
  <2>1. CASE v = w
    BY <2>1
  <2>2. CASE v # w
    <3>1. ~Active(v) /\ pc'[v] = pc[v]
      BY <2>2, OthersAreIdle
    <3>2. pc'[v] \notin {"copy_entries", "write_rows", "remove", "move", "give_up", "finished", "fresh"}
      BY <3>1 DEF Active, Running
    <3> QED
      BY <3>2 DEF WorkOf
  <2> QED
    BY <2>1, <2>2
<1> QED
  BY <1>1 DEF WorkOf, WorkOfWriter

(* The part a COPY writes is the one its sheet is listed at.                 *)
LEMMA OwnPartFacts ==
    ASSUME SerialInv, NEW w \in Writers, ReadLatest(w)
    PROVE  /\ source[w] \in Seq(Names) /\ source[w] # << >>
           /\ job[w].mode = "replace" =>
                OwnPart(w) \in DOMAIN source[w] /\ source[w][OwnPart(w)] = job[w].name
           /\ job[w].mode # "replace" => OwnPart(w) = Len(source[w]) + 1
<1>1. source[w] = Latest.sheets /\ published # << >> /\ Accepts(w, source[w])
  BY DEF ReadLatest
<1>2. source[w] \in Seq(Names) /\ source[w] # << >>
  BY <1>1 DEF SerialInv, CurrentIsLatest
<1>3. ASSUME job[w].mode = "replace"
      PROVE  OwnPart(w) \in DOMAIN source[w] /\ source[w][OwnPart(w)] = job[w].name
  <2>1. \E i \in DOMAIN source[w] : source[w][i] = job[w].name
    BY <1>1, <1>3 DEF Accepts, Holds
  <2> QED
    BY <1>3, <2>1 DEF OwnPart, PositionOf
<1> QED
  BY <1>2, <1>3 DEF OwnPart

LEMMA SerialFacts ==
    ASSUME SerialInv
    PROVE  /\ SwapInv /\ CurrentIsLatest /\ TempIsNoBook /\ ScansFollow /\ ScanTyped
           /\ \A w \in Writers : WorkOf(w)
  BY DEF SerialInv, WorkOfWriter, WorkOf

(* Writing the workbook afresh, in place.                                    *)
LEMMA SerialOpenFresh ==
    ASSUME ~Overlap, SerialInv, NEW w \in Writers, OpenFresh(w)
    PROVE  CurrentIsLatest' /\ TempIsNoBook' /\ WorkOf(w)' /\ ScansFollow'
<1>1. /\ UNCHANGED <<job, source, scan, published>>
      /\ pc[w] = "start" /\ pc'[w] = "fresh" /\ \A v \in Writers : v # w => pc'[v] = pc[v]
      /\ source[w] = << >>
      /\ path'["dest"] # Absent /\ path'["dest"] = out'[w] /\ inode'[out'[w]] = Incomplete(w)
      /\ path["dest"] # Absent => path'["dest"] = path["dest"]
      /\ path["dest"] = Absent => path'["dest"] \notin DOMAIN inode
      /\ \A v \in Writers : path'[v] = path[v]
      /\ \A v \in Writers : v # w => out'[v] = out[v]
      /\ \A i \in DOMAIN inode : i # path'["dest"] => inode'[i] = inode[i]
  BY SerialFacts, OpenFreshEffect
<1>2. inode'[out'[w]].by = w /\ ~inode'[out'[w]].whole
  BY <1>1 DEF Incomplete
<1>3. CurrentIsLatest'
  <2>1. Latest' = Latest
    BY <1>1 DEF Latest
  <2>2. ~IsWhole("dest")'
    BY <1>1, <1>2 DEF IsWhole, At
  <2> QED
    BY <1>1, <2>1, <2>2, SerialFacts DEF CurrentIsLatest, Consistent
<1>4. ASSUME NEW v \in Writers, path'[v] # Absent
      PROVE  /\ path'[v] = out'[v] /\ path'[v] # path'["dest"]
             /\ inode'[path'[v]].by = v /\ ~inode'[path'[v]].whole
  <2>1. path[v] # Absent /\ path[v] \in DOMAIN inode
    BY <1>1, <1>4, SerialFacts, SwapFacts
  <2>2. path[v] = out[v] /\ path[v] # path["dest"] /\ inode[path[v]].by = v /\ ~inode[path[v]].whole
    BY <2>1, SerialFacts DEF TempIsNoBook, Exists, At
  <2>3. out[w] = Absent
    BY <1>1, SerialFacts, SwapFacts DEF OutOnceOpen
  <2>4. v # w
    BY <2>1, <2>2, <2>3
  <2>5. path[v] # path'["dest"]
    BY <1>1, <2>1, <2>2
  <2> QED
    BY <1>1, <2>1, <2>2, <2>4, <2>5
<1>5. TempIsNoBook'
  BY <1>4 DEF TempIsNoBook, Exists, At, Absent
<1>6. WorkOf(w)'
  BY <1>1, <1>2 DEF WorkOf
<1>7. ScansFollow'
  <2>1. WroteFresh(w)'
    BY <1>1 DEF WroteFresh, Absent
  <2> QED
    BY <2>1 DEF ScansFollow, NoFresh
<1> QED
  BY <1>3, <1>5, <1>6, <1>7

(* Nothing published changes, nor the file under the workbook's name, if it  *)
(* is complete, nor a temporary one.                                         *)
LEMMA SerialFrame ==
    ASSUME SerialInv, [Next]_vars, published' = published, scan' = scan
    PROVE  /\ Latest' = Latest
           /\ (IsWhole("dest")' => IsWhole("dest") /\ At("dest")' = At("dest")) => CurrentIsLatest'
           /\ ScansFollow'
<1>1. Latest' = Latest
  BY DEF Latest
<1>2. ScansFollow'
  <2>1. NoFresh' => NoFresh
    BY SerialFacts, NoFreshBefore
  <2> QED
    BY <1>1, <2>1, SerialFacts DEF ScansFollow
<1>3. (IsWhole("dest")' => IsWhole("dest") /\ At("dest")' = At("dest")) => CurrentIsLatest'
  BY <1>1, SerialFacts DEF CurrentIsLatest, Consistent
<1> QED
  BY <1>1, <1>2, <1>3

LEMMA SerialCopyEntries ==
    ASSUME ~Overlap, SerialInv, NEW w \in Writers, CopyEntries(w)
    PROVE  CurrentIsLatest' /\ TempIsNoBook' /\ WorkOf(w)' /\ ScansFollow'
<1>0. pc[w] = "copy_entries" /\ ReadLatest(w) /\ IsWhole("dest")
  BY SerialFacts DEF WorkOf, CopyEntries
<1> DEFINE copied == [i \in DOMAIN At("dest").parts
                              \ (IF job[w].mode = "replace" THEN {OwnPart(w)} ELSE {})
                        |-> At("dest").parts[i]]
<1>1. /\ UNCHANGED <<job, source, scan, published>> /\ path'["dest"] = path["dest"]
      /\ pc'[w] = "write_rows"
      /\ out'[w] # Absent /\ out'[w] \notin DOMAIN inode /\ path'[w] = out'[w]
      /\ \A v \in Writers : v # w => path'[v] = path[v] /\ out'[v] = out[v]
      /\ \A i \in DOMAIN inode : inode'[i] = inode[i]
  BY <1>0, SerialFacts, CopyEntriesEffect
<1>2. inode'[out'[w]] = [whole |-> FALSE, by |-> w, sheets |-> At("dest").sheets, parts |-> copied]
  BY <1>0, SerialFacts, CopyEntriesEffect
<1>3. /\ inode'[out'[w]].whole = FALSE /\ inode'[out'[w]].by = w
      /\ inode'[out'[w]].sheets = At("dest").sheets /\ inode'[out'[w]].parts = copied
  <2> HIDE DEF copied
  <2> QED
    BY <1>2
<1>4. [Next]_vars
  BY DEF Next, Step
<1>5. At("dest") = Latest /\ Consistent(Latest) /\ path["dest"] \in DOMAIN inode
  BY <1>0, SerialFacts, SwapFacts DEF CurrentIsLatest, IsWhole, Exists
<1>6. CurrentIsLatest' /\ ScansFollow' /\ Latest' = Latest
  <2>1. IsWhole("dest")' => IsWhole("dest") /\ At("dest")' = At("dest")
    BY <1>0, <1>1, <1>5 DEF At
  <2> QED
    BY <1>1, <1>4, <2>1, SerialFrame
<1>7. ASSUME NEW v \in Writers, path'[v] # Absent
      PROVE  /\ path'[v] = out'[v] /\ path'[v] # path'["dest"]
             /\ inode'[path'[v]].by = v /\ ~inode'[path'[v]].whole
  <2>1. CASE v = w
    BY <1>1, <1>3, <1>5, <2>1
  <2>2. CASE v # w
    <3>1. path[v] # Absent /\ path[v] \in DOMAIN inode
      BY <1>1, <1>7, <2>2, SerialFacts, SwapFacts
    <3>2. path[v] = out[v] /\ path[v] # path["dest"] /\ inode[path[v]].by = v /\ ~inode[path[v]].whole
      BY <3>1, SerialFacts DEF TempIsNoBook, Exists, At
    <3> QED
      BY <1>1, <2>2, <3>1, <3>2
  <2> QED
    BY <2>1, <2>2
<1>8. TempIsNoBook'
  BY <1>7 DEF TempIsNoBook, Exists, At, Absent
<1>9. OwnPart(w)' = OwnPart(w)
  BY <1>1 DEF OwnPart
<1>10. ReadLatest(w)'
  BY <1>0, <1>1, <1>6 DEF ReadLatest, Accepts
<1>11. CopyOfLatest(w)'
  <2>1. source[w] = Latest.sheets
    BY <1>0 DEF ReadLatest
  <2>2. ASSUME NEW i \in DOMAIN source[w], ~(job[w].mode = "replace" /\ i = OwnPart(w))
        PROVE  i \in DOMAIN copied /\ copied[i] = Latest.parts[i]
    <3>1. i \in DOMAIN Latest.parts
      BY <1>5, <2>1 DEF Consistent
    <3> QED
      BY <1>5, <2>2, <3>1
  <2>3. inode'[out'[w]].sheets = source'[w]
    BY <1>1, <1>3, <1>5, <2>1
  <2> HIDE DEF copied
  <2> QED
    BY <1>1, <1>3, <1>6, <1>9, <2>2, <2>3 DEF CopyOfLatest
<1>12. WorkOf(w)'
  BY <1>1, <1>3, <1>10, <1>11 DEF WorkOf
<1> QED
  BY <1>6, <1>8, <1>12

LEMMA SerialFinishFresh ==
    ASSUME ~Overlap, SerialInv, NEW w \in Writers, FinishFresh(w)
    PROVE  CurrentIsLatest' /\ TempIsNoBook' /\ WorkOf(w)' /\ ScansFollow'
<1>1. /\ pc[w] = "fresh" /\ path["dest"] = out[w] /\ inode[out[w]].by = w /\ source[w] = << >>
  BY SerialFacts, SwapFacts DEF FinishFresh, WorkOf, OutOnceOpen
<1>2. /\ UNCHANGED <<job, path, source, out, scan, published>>
      /\ out[w] # Absent /\ out[w] \in DOMAIN inode
      /\ \A i \in DOMAIN inode : i # out[w] => inode'[i] = inode[i]
      /\ pc'[w] = "finished"
      /\ inode'[out[w]] = [whole |-> FALSE, by |-> w, sheets |-> <<job[w].name>>,
                           parts |-> <<Datum(job[w].name, w)>>]
  BY <1>1, SerialFacts, WriteEffect
<1>3. [Next]_vars
  BY DEF Next, Step
<1>4. ~IsWhole("dest")'
  BY <1>1, <1>2 DEF IsWhole, At
<1>5. CurrentIsLatest' /\ ScansFollow'
  BY <1>2, <1>3, <1>4, SerialFrame
<1>6. ASSUME NEW v \in Writers, path'[v] # Absent
      PROVE  /\ path'[v] = out'[v] /\ path'[v] # path'["dest"]
             /\ inode'[path'[v]].by = v /\ ~inode'[path'[v]].whole
  <2>1. path[v] # Absent /\ path[v] \in DOMAIN inode
    BY <1>2, <1>6, SerialFacts, SwapFacts
  <2>2. path[v] = out[v] /\ path[v] # path["dest"] /\ inode[path[v]].by = v /\ ~inode[path[v]].whole
    BY <2>1, SerialFacts DEF TempIsNoBook, Exists, At
  <2> QED
    BY <1>1, <1>2, <2>1, <2>2
<1>7. TempIsNoBook'
  BY <1>6 DEF TempIsNoBook, Exists, At, Absent
<1>8. BookOfFresh(w)'
  BY <1>2 DEF BookOfFresh, Datum
<1>9. WorkOf(w)'
  BY <1>1, <1>2, <1>8 DEF WorkOf
<1> QED
  BY <1>5, <1>7, <1>9

LEMMA SerialFinishZip ==
    ASSUME ~Overlap, SerialInv, NEW w \in Writers, FinishZip(w)
    PROVE  CurrentIsLatest' /\ TempIsNoBook' /\ WorkOf(w)' /\ ScansFollow'
<1>1. pc[w] = "write_rows" /\ ReadLatest(w) /\ CopyOfLatest(w)
  BY SerialFacts DEF FinishZip, WorkOf
<1> DEFINE sheets == NewSheets(w, inode[out[w]].sheets)
           parts  == [i \in DOMAIN inode[out[w]].parts \cup {OwnPart(w)} |->
                        IF i = OwnPart(w) THEN Datum(job[w].name, w) ELSE inode[out[w]].parts[i]]
<1>2. /\ UNCHANGED <<job, path, source, out, scan, published>>
      /\ out[w] # Absent /\ out[w] \in DOMAIN inode
      /\ \A i \in DOMAIN inode : i # out[w] => inode'[i] = inode[i]
      /\ pc'[w] = "remove"
  BY <1>1, SerialFacts, WriteEffect
<1>3. inode'[out[w]] = [whole |-> FALSE, by |-> w, sheets |-> sheets, parts |-> parts]
  BY SerialFacts, WriteEffect
<1>4. /\ inode'[out[w]].whole = FALSE /\ inode'[out[w]].by = w
      /\ inode'[out[w]].sheets = sheets /\ inode'[out[w]].parts = parts
  <2> HIDE DEF sheets, parts
  <2> QED
    BY <1>3
<1>5. [Next]_vars
  BY DEF Next, Step
<1>6. \A p \in Paths : p # w => path[p] # out[w]
  BY <1>1, SerialFacts, SwapFacts DEF TempIsPrivate
<1>7. CurrentIsLatest' /\ ScansFollow' /\ Latest' = Latest
  <2>1. path["dest"] # out[w]
    BY <1>6, SerialFacts, SwapFacts
  <2>2. path["dest"] # Absent => inode'[path["dest"]] = inode[path["dest"]]
    BY <1>2, <2>1, SerialFacts, SwapFacts
  <2>3. IsWhole("dest")' => IsWhole("dest") /\ At("dest")' = At("dest")
    BY <1>2, <2>2 DEF IsWhole, Exists, At, Absent
  <2> QED
    BY <1>2, <1>5, <2>3, SerialFrame
<1>8. ASSUME NEW v \in Writers, path'[v] # Absent
      PROVE  /\ path'[v] = out'[v] /\ path'[v] # path'["dest"]
             /\ inode'[path'[v]].by = v /\ ~inode'[path'[v]].whole
  <2>1. path[v] # Absent /\ path[v] \in DOMAIN inode /\ v \in Paths
    BY <1>2, <1>8, SerialFacts, SwapFacts
  <2>2. path[v] = out[v] /\ path[v] # path["dest"] /\ inode[path[v]].by = v /\ ~inode[path[v]].whole
    BY <2>1, SerialFacts DEF TempIsNoBook, Exists, At
  <2>3. CASE v = w
    BY <1>2, <1>4, <2>2, <2>3
  <2>4. CASE v # w
    BY <1>2, <1>6, <2>1, <2>2, <2>4
  <2> QED
    BY <2>3, <2>4
<1>9. TempIsNoBook'
  BY <1>8 DEF TempIsNoBook, Exists, At, Absent
<1>10. OwnPart(w)' = OwnPart(w) /\ ReadLatest(w)'
  BY <1>1, <1>2, <1>7 DEF OwnPart, ReadLatest, Accepts
<1>11. /\ source[w] \in Seq(Names)
       /\ inode[out[w]].sheets = source[w]
       /\ \A i \in DOMAIN source[w] :
            (job[w].mode = "replace" /\ i = OwnPart(w))
              \/ (i \in DOMAIN inode[out[w]].parts /\ inode[out[w]].parts[i] = Latest.parts[i])
  BY <1>1, OwnPartFacts DEF CopyOfLatest
<1>12. sheets = IF job[w].mode = "replace" THEN source[w] ELSE Append(source[w], job[w].name)
  BY <1>11 DEF NewSheets
<1>13. ASSUME NEW i \in DOMAIN sheets
       PROVE  i \in DOMAIN parts /\ parts[i] = IF i = OwnPart(w) THEN Datum(job[w].name, w) ELSE Latest.parts[i]
  <2>1. CASE i = OwnPart(w)
    BY <2>1
  <2>2. CASE i # OwnPart(w)
    <3>1. i \in DOMAIN source[w]
      <4>1. CASE job[w].mode = "replace"
        BY <1>12, <1>13, <4>1
      <4>2. CASE job[w].mode # "replace"
        <5>1. OwnPart(w) = Len(source[w]) + 1
          BY <1>1, <4>2, OwnPartFacts
        <5>2. i \in 1 .. Len(source[w]) + 1
          BY <1>11, <1>12, <1>13, <4>2, AppendProperties
        <5> QED
          BY <1>11, <2>2, <5>1, <5>2
      <4> QED
        BY <4>1, <4>2
    <3> QED
      BY <1>11, <2>2, <3>1
  <2> QED
    BY <2>1, <2>2
<1>14. BookOfAppender(w)'
  <2> HIDE DEF sheets, parts
  <2> QED
    BY <1>2, <1>4, <1>7, <1>10, <1>12, <1>13 DEF BookOfAppender, Datum
<1>15. WorkOf(w)'
  BY <1>2, <1>4, <1>10, <1>14 DEF WorkOf
<1> QED
  BY <1>7, <1>9, <1>15

LEMMA SerialNames ==
    ASSUME ~Overlap, SerialInv, NEW w \in Writers, RemoveDest(w) \/ MoveTmp(w) \/ GiveUp(w)
    PROVE  CurrentIsLatest' /\ TempIsNoBook' /\ WorkOf(w)' /\ ScansFollow'
<1>1. /\ UNCHANGED <<job, inode, source, out, scan, published>>
      /\ \A v \in Writers : v # w => path'[v] = path[v]
      /\ path'[w] \in {path[w], Absent}
      /\ \/ pc[w] = "remove" /\ pc'[w] = "move" /\ path'["dest"] = Absent
         \/ pc[w] = "move" /\ pc'[w] = "finished" /\ path'["dest"] = out[w] /\ path'[w] = Absent
         \/ pc[w] = "give_up" /\ pc'[w] = "failed" /\ path'["dest"] = path["dest"]
  BY SerialFacts, NameEffect
<1>2. /\ ReadLatest(w) /\ BookOfAppender(w) /\ inode[out[w]].by = w /\ ~inode[out[w]].whole
      /\ \A p \in Paths : p # w => path[p] # out[w]
  BY <1>1, SerialFacts, SwapFacts DEF WorkOf, TempIsPrivate
<1>3. [Next]_vars
  BY DEF Next, Step, RemoveDest, MoveTmp, GiveUp
<1>4. IsWhole("dest")' => IsWhole("dest") /\ At("dest")' = At("dest")
  BY <1>1, <1>2 DEF IsWhole, Exists, At, Absent
<1>5. CurrentIsLatest' /\ ScansFollow' /\ Latest' = Latest
  BY <1>1, <1>3, <1>4, SerialFrame
<1>6. ASSUME NEW v \in Writers, path'[v] # Absent
      PROVE  /\ path'[v] = out'[v] /\ path'[v] # path'["dest"]
             /\ inode'[path'[v]].by = v /\ ~inode'[path'[v]].whole
  <2>1. path'[v] = path[v] /\ v \in Paths
    BY <1>1, <1>6, SerialFacts, SwapFacts
  <2>2. path[v] = out[v] /\ path[v] # path["dest"] /\ inode[path[v]].by = v /\ ~inode[path[v]].whole
    BY <1>6, <2>1, SerialFacts DEF TempIsNoBook, Exists, At
  <2>3. path[v] # path'["dest"]
    <3>1. CASE path'["dest"] = Absent
      BY <1>6, <2>1, <3>1
    <3>2. CASE path'["dest"] = out[w] /\ path'[w] = Absent
      BY <1>2, <1>6, <2>1, <3>2
    <3>3. CASE path'["dest"] = path["dest"]
      BY <2>2, <3>3
    <3> QED
      BY <1>1, <3>1, <3>2, <3>3
  <2> QED
    BY <1>1, <2>1, <2>2, <2>3
<1>7. TempIsNoBook'
  BY <1>6 DEF TempIsNoBook, Exists, At, Absent
<1>8. ReadLatest(w)'
  BY <1>1, <1>2, <1>5 DEF ReadLatest, Accepts
<1>9. BookOfAppender(w)'
  <2>1. OwnPart(w)' = OwnPart(w)
    BY <1>1 DEF OwnPart
  <2> QED
    BY <1>1, <1>2, <1>5, <2>1 DEF BookOfAppender, Datum
<1>10. source[w] # << >>
  BY <1>2, OwnPartFacts
<1>11. WorkOf(w)'
  BY <1>1, <1>2, <1>8, <1>9, <1>10 DEF WorkOf
<1> QED
  BY <1>5, <1>7, <1>11

LEMMA SerialOther ==
    ASSUME ~Overlap, SerialInv, NEW w \in Writers,
           OpenAppender(w) \/ ReadMetadata(w) \/ RefuseSource(w) \/ InputThrows(w) \/ RetryFsOp(w)
    PROVE  CurrentIsLatest' /\ TempIsNoBook' /\ WorkOf(w)' /\ ScansFollow'
<1>1. /\ UNCHANGED <<job, path, inode, out, scan, published>>
      /\ \/ pc'[w] \in {"read_metadata", "failed"}
         \/ /\ pc[w] = "read_metadata" /\ pc'[w] = "copy_entries"
            /\ IsWhole("dest") /\ source'[w] = At("dest").sheets /\ Accepts(w, source'[w])
         \/ pc[w] \in {"remove", "move"} /\ pc'[w] \in {pc[w], "give_up"} /\ source' = source
  BY SerialFacts, OtherEffect
<1>2. [Next]_vars
  BY DEF Next, Step
<1>3. CurrentIsLatest' /\ ScansFollow' /\ Latest' = Latest
  BY <1>1, <1>2, SerialFrame DEF IsWhole, Exists, At
<1>4. TempIsNoBook'
  BY <1>1, SerialFacts DEF TempIsNoBook, Exists, At
<1>5. CASE pc'[w] \in {"read_metadata", "failed"}
  <2>1. pc'[w] \notin {"copy_entries", "write_rows", "remove", "move", "give_up", "finished", "fresh"}
    BY <1>5
  <2>2. WorkOf(w)'
    BY <2>1 DEF WorkOf
  <2> QED
    BY <1>3, <1>4, <2>2
<1>6. CASE /\ pc[w] = "read_metadata" /\ pc'[w] = "copy_entries"
           /\ IsWhole("dest") /\ source'[w] = At("dest").sheets /\ Accepts(w, source'[w])
  <2>1. published # << >> /\ At("dest") = Latest
    BY <1>6, SerialFacts DEF CurrentIsLatest
  <2>2. ReadLatest(w)' /\ IsWhole("dest")'
    BY <1>1, <1>3, <1>6, <2>1 DEF ReadLatest, Accepts, IsWhole, Exists, At
  <2>3. pc'[w] = "copy_entries"
    BY <1>6
  <2>4. WorkOf(w)'
    BY <2>2, <2>3 DEF WorkOf
  <2> QED
    BY <1>3, <1>4, <2>4
<1>7. CASE pc[w] \in {"remove", "move"} /\ pc'[w] \in {pc[w], "give_up"} /\ source' = source
  <2>1. ReadLatest(w) /\ BookOfAppender(w) /\ inode[out[w]].by = w /\ ~inode[out[w]].whole
    BY <1>7, SerialFacts DEF WorkOf
  <2>2. ReadLatest(w)'
    BY <1>1, <1>3, <1>7, <2>1 DEF ReadLatest, Accepts
  <2>3. OwnPart(w)' = OwnPart(w)
    BY <1>1, <1>7 DEF OwnPart
  <2>4. BookOfAppender(w)'
    BY <1>1, <1>3, <1>7, <2>1, <2>3 DEF BookOfAppender, Datum
  <2>5. pc'[w] \in {"remove", "move", "give_up"}
    BY <1>7
  <2>6. inode'[out'[w]].by = w /\ ~inode'[out'[w]].whole
    BY <1>1, <2>1
  <2>7. WorkOf(w)'
    BY <2>2, <2>4, <2>5, <2>6 DEF WorkOf
  <2> QED
    BY <1>3, <1>4, <2>7
<1> QED
  BY <1>1, <1>3, <1>4, <1>5, <1>6, <1>7

(* What is published when the writer is destroyed.                           *)
LEMMA PublishedBook ==
    ASSUME ~Overlap, SerialInv, NEW w \in Writers, DestroyWriter(w)
    PROVE  /\ UNCHANGED <<job, path, source, out, scan>>
           /\ pc'[w] = "done" /\ path["dest"] = out[w] /\ out[w] # Absent /\ out[w] \in DOMAIN inode
           /\ \A i \in DOMAIN inode : i # out[w] => inode'[i] = inode[i]
           /\ published' # << >> /\ Latest' = inode'[out[w]]
           /\ inode'[out[w]].sheets = inode[out[w]].sheets /\ inode'[out[w]].parts = inode[out[w]].parts
           /\ IF source[w] = << >> THEN BookOfFresh(w) ELSE ReadLatest(w) /\ BookOfAppender(w)
<1>1. /\ inode[out[w]].by = w /\ path["dest"] = out[w]
      /\ IF source[w] = << >> THEN BookOfFresh(w) ELSE ReadLatest(w) /\ BookOfAppender(w)
  BY SerialFacts DEF DestroyWriter, WorkOf
<1>2. /\ UNCHANGED <<job, path, source, out, scan>>
      /\ pc'[w] = "done" /\ out[w] # Absent /\ out[w] \in DOMAIN inode
      /\ \A i \in DOMAIN inode : i # out[w] => inode'[i] = inode[i]
      /\ published' = Append(published, inode'[out[w]])
  BY <1>1, SerialFacts, WriteEffect
<1>3. inode'[out[w]] = [whole |-> TRUE, by |-> w, sheets |-> inode[out[w]].sheets,
                        parts |-> inode[out[w]].parts]
  BY <1>1, SerialFacts, WriteEffect
<1>4. published' # << >> /\ Latest' = inode'[out[w]]
  <2>1. IsSequence(published)
    BY DEF SerialInv
  <2> QED
    BY <1>2, <2>1, PublishedLast
<1> QED
  BY <1>1, <1>2, <1>3, <1>4

LEMMA SerialDestroyWriter ==
    ASSUME ~Overlap, SerialInv, NEW w \in Writers, DestroyWriter(w)
    PROVE  CurrentIsLatest' /\ TempIsNoBook' /\ WorkOf(w)' /\ ScansFollow'
<1> DEFINE book == inode[out[w]]
<1>1. /\ UNCHANGED <<job, path, source, out, scan>>
      /\ pc'[w] = "done" /\ path["dest"] = out[w] /\ out[w] # Absent /\ out[w] \in DOMAIN inode
      /\ \A i \in DOMAIN inode : i # out[w] => inode'[i] = inode[i]
      /\ published' # << >> /\ Latest' = inode'[out[w]]
      /\ Latest'.sheets = book.sheets /\ Latest'.parts = book.parts
      /\ IF source[w] = << >> THEN BookOfFresh(w) ELSE ReadLatest(w) /\ BookOfAppender(w)
  BY PublishedBook
<1>2. ASSUME source[w] = << >>
      PROVE  /\ book.sheets # << >> /\ ScansFollow'
             /\ \A i \in DOMAIN book.sheets :
                  i \in DOMAIN book.parts /\ book.parts[i].name = book.sheets[i]
  <2>1. book.sheets = <<job[w].name>> /\ book.parts = <<Datum(job[w].name, w)>>
    BY <1>1, <1>2 DEF BookOfFresh
  <2>2. book.sheets # << >>
    BY <2>1
  <2>3. \A i \in DOMAIN book.sheets : i \in DOMAIN book.parts /\ book.parts[i].name = book.sheets[i]
    BY <2>1 DEF Datum
  <2>4. ScansFollow'
    <3>1. WroteFresh(w)'
      BY <1>1, <1>2 DEF WroteFresh, Absent
    <3> QED
      BY <3>1 DEF ScansFollow, NoFresh
  <2> QED
    BY <2>2, <2>3, <2>4
<1>3. ASSUME source[w] # << >>
      PROVE  /\ book.sheets # << >> /\ ScansFollow'
             /\ \A i \in DOMAIN book.sheets :
                  i \in DOMAIN book.parts /\ book.parts[i].name = book.sheets[i]
  <2>1. /\ ReadLatest(w)
        /\ book.sheets = IF job[w].mode = "replace" THEN source[w] ELSE Append(source[w], job[w].name)
        /\ \A i \in DOMAIN book.sheets :
             /\ i \in DOMAIN book.parts
             /\ book.parts[i] = IF i = OwnPart(w) THEN Datum(job[w].name, w) ELSE Latest.parts[i]
    BY <1>1, <1>3 DEF BookOfAppender
  <2>2. source[w] = Latest.sheets /\ Consistent(Latest) /\ source[w] \in Seq(Names)
    BY <2>1, OwnPartFacts, SerialFacts DEF ReadLatest, CurrentIsLatest
  <2>3. job[w].name \in Names
    BY SerialFacts, SwapFacts DEF TypeOK, Names
  <2>4. /\ book.sheets \in Seq(Names) /\ book.sheets # << >>
        /\ \A i \in DOMAIN source[w] : i \in DOMAIN book.sheets /\ book.sheets[i] = source[w][i]
        /\ \A i \in DOMAIN book.sheets :
             IF i = OwnPart(w) THEN book.sheets[i] = job[w].name
             ELSE i \in DOMAIN source[w] /\ book.sheets[i] = source[w][i]
    <3>1. CASE job[w].mode = "replace"
      <4>1. book.sheets = source[w]
        BY <2>1, <3>1
      <4>2. source[w][OwnPart(w)] = job[w].name
        BY <2>1, <3>1, OwnPartFacts
      <4> HIDE DEF book
      <4> QED
        BY <1>3, <2>2, <4>1, <4>2
    <3>2. CASE job[w].mode # "replace"
      <4>1. book.sheets = Append(source[w], job[w].name) /\ OwnPart(w) = Len(source[w]) + 1
        BY <2>1, <3>2, OwnPartFacts
      <4> HIDE DEF book
      <4>2. /\ book.sheets \in Seq(Names) /\ book.sheets # << >>
            /\ Len(book.sheets) = Len(source[w]) + 1 /\ Len(source[w]) \in Nat
            /\ \A i \in 1 .. Len(source[w]) : book.sheets[i] = source[w][i]
            /\ book.sheets[Len(source[w]) + 1] = job[w].name
        BY <2>2, <2>3, <4>1, AppendProperties
      <4>3. DOMAIN source[w] = 1 .. Len(source[w]) /\ DOMAIN book.sheets = 1 .. Len(source[w]) + 1
        BY <2>2, <4>2
      <4> QED
        BY <4>1, <4>2, <4>3
    <3> QED
      BY <3>1, <3>2
  <2>5. ASSUME NEW i \in DOMAIN book.sheets
        PROVE  i \in DOMAIN book.parts /\ book.parts[i].name = book.sheets[i]
    <3>1. CASE i = OwnPart(w)
      BY <2>1, <2>4, <3>1 DEF Datum
    <3>2. CASE i # OwnPart(w)
      <4>1. i \in DOMAIN source[w] /\ book.sheets[i] = source[w][i]
        BY <2>4, <3>2
      <4>2. Latest.parts[i].name = source[w][i]
        BY <2>2, <4>1 DEF Consistent
      <4>3. i \in DOMAIN book.parts /\ book.parts[i] = Latest.parts[i]
        BY <2>1, <3>2
      <4> QED
        BY <4>1, <4>2, <4>3
    <3> QED
      BY <3>1, <3>2
  <2>6. ScansFollow'
    <3> SUFFICES ASSUME NoFresh', NEW r \in Readers
                 PROVE  /\ scan'[r].state \notin {"no_such_sheet", "read_other"}
                        /\ scan'[r].state = "bound" =>
                             /\ published' # << >>
                             /\ scan'[r].part \in DOMAIN Latest'.sheets
                             /\ Latest'.sheets[scan'[r].part] = scan'[r].name
      BY DEF ScansFollow
    <3>1. [Next]_vars
      BY DEF Next, Step
    <3>2. NoFresh
      BY <3>1, SerialFacts, NoFreshBefore
    <3>3. /\ scan[r].state \notin {"no_such_sheet", "read_other"}
          /\ scan[r].state = "bound" => /\ scan[r].part \in DOMAIN Latest.sheets
                                        /\ Latest.sheets[scan[r].part] = scan[r].name
      BY <3>2, SerialFacts DEF ScansFollow
    <3> HIDE DEF book
    <3> QED
      BY <1>1, <2>2, <2>4, <3>3
  <2> HIDE DEF book
  <2> QED
    BY <2>4, <2>5, <2>6
<1>4. /\ published' # << >> /\ Latest'.sheets # << >> /\ Latest'.sheets \in Seq(Names) /\ Consistent(Latest')
      /\ ScansFollow'
  <2>1. book.sheets \in Seq(Names)
    BY <1>1, SerialFacts, SwapFacts DEF TypeOK
  <2> HIDE DEF book
  <2> QED
    BY <1>1, <1>2, <1>3, <2>1 DEF Consistent
<1>5. At("dest")' = Latest'
  BY <1>1 DEF At
<1>6. CurrentIsLatest'
  BY <1>4, <1>5 DEF CurrentIsLatest, Consistent
<1>7. ASSUME NEW v \in Writers, path'[v] # Absent
      PROVE  /\ path'[v] = out'[v] /\ path'[v] # path'["dest"]
             /\ inode'[path'[v]].by = v /\ ~inode'[path'[v]].whole
  <2>1. path[v] # Absent /\ path[v] \in DOMAIN inode
    BY <1>1, <1>7, SerialFacts, SwapFacts
  <2>2. path[v] = out[v] /\ path[v] # path["dest"] /\ inode[path[v]].by = v /\ ~inode[path[v]].whole
    BY <2>1, SerialFacts DEF TempIsNoBook, Exists, At
  <2> QED
    BY <1>1, <2>1, <2>2
<1>8. TempIsNoBook'
  BY <1>7 DEF TempIsNoBook, Exists, At, Absent
<1>9. WorkOf(w)'
  BY <1>1 DEF WorkOf
<1> QED
  BY <1>4, <1>6, <1>8, <1>9

(* Scans.                                                                    *)
LEMMA SerialScan ==
    ASSUME SerialInv, NEW r \in Readers, Bind(r) \/ InitGlobal(r)
    PROVE  ScanTyped' /\ ScansFollow'
<1>1. /\ UNCHANGED <<job, path, inode, pc, source, out, attempts, published>>
  BY DEF Bind, InitGlobal
<1>2. Latest' = Latest /\ (NoFresh' <=> NoFresh)
  BY <1>1 DEF Latest, NoFresh, WroteFresh
<1>3. /\ ScanTyped /\ ScansFollow /\ CurrentIsLatest
  BY SerialFacts
<1>4. CASE Bind(r)
  <2>1. PICK i \in DOMAIN At("dest").sheets :
          scan' = [scan EXCEPT ![r] = [state |-> "bound", part |-> i, name |-> At("dest").sheets[i]]]
    BY <1>4 DEF Bind
  <2>2. published # << >> /\ At("dest") = Latest /\ Latest.sheets \in Seq(Names)
    BY <1>3, <1>4 DEF Bind, CurrentIsLatest
  <2>3. i \in Nat /\ i \in DOMAIN Latest.sheets /\ Latest.sheets[i] \in Names
    BY <2>1, <2>2
  <2>4. scan' = [scan EXCEPT ![r] = [state |-> "bound", part |-> i, name |-> Latest.sheets[i]]]
    BY <2>1, <2>2
  <2>5. ScanTyped'
    BY <1>3, <2>3, <2>4 DEF ScanTyped
  <2>6. /\ scan'[r] = [state |-> "bound", part |-> i, name |-> Latest.sheets[i]]
        /\ \A q \in Readers : q # r => scan'[q] = scan[q]
    BY <1>3, <2>4 DEF ScanTyped
  <2>7. ScansFollow'
    BY <1>1, <1>2, <1>3, <2>2, <2>3, <2>6 DEF ScansFollow
  <2> QED
    BY <2>5, <2>7
<1>5. CASE InitGlobal(r)
  <2> DEFINE outcome == IF ~IsWhole("dest") THEN "cannot_open"
                        ELSE IF scan[r].part \notin DOMAIN At("dest").parts THEN "no_such_sheet"
                        ELSE IF At("dest").parts[scan[r].part].name = scan[r].name THEN "read" ELSE "read_other"
  <2>1. scan[r].state = "bound" /\ scan' = [scan EXCEPT ![r].state = outcome]
    BY <1>5 DEF InitGlobal
  <2>2. outcome \in {"cannot_open", "no_such_sheet", "read", "read_other"}
    OBVIOUS
  <2>3. ASSUME NoFresh PROVE outcome \in {"cannot_open", "read"}
    <3>1. /\ scan[r].part \in DOMAIN Latest.sheets /\ Latest.sheets[scan[r].part] = scan[r].name
      BY <1>3, <2>1, <2>3 DEF ScansFollow
    <3>2. IsWhole("dest") => At("dest") = Latest /\ Consistent(Latest)
      BY <1>3 DEF CurrentIsLatest
    <3> QED
      BY <3>1, <3>2 DEF Consistent
  <2> HIDE DEF outcome
  <2>4. ScanTyped'
    BY <1>3, <2>1, <2>2 DEF ScanTyped
  <2>5. scan'[r].state = outcome /\ \A q \in Readers : q # r => scan'[q] = scan[q]
    BY <1>3, <2>1 DEF ScanTyped
  <2>6. ScansFollow'
    BY <1>1, <1>2, <1>3, <2>2, <2>3, <2>5 DEF ScansFollow
  <2> QED
    BY <2>4, <2>6
<1> QED
  BY <1>4, <1>5

LEMMA SerialStillness ==
    ASSUME SerialInv, UNCHANGED <<job, path, inode, source, out, published>>,
           \A w \in Writers : pc'[w] = pc[w] \/ pc'[w] = "crashed"
    PROVE  OneAtATime' /\ CurrentIsLatest' /\ TempIsNoBook' /\ WorkOfWriter'
<1>1. Latest' = Latest
  BY DEF Latest
<1>2. OneAtATime' /\ TempIsNoBook'
  BY DEF SerialInv, OneAtATime, Active, Running, TempIsNoBook, Exists, At
<1>3. CurrentIsLatest'
  BY <1>1, SerialFacts DEF CurrentIsLatest, Consistent, IsWhole, Exists, At
<1>4. ASSUME NEW w \in Writers PROVE WorkOf(w)'
  <2>1. CASE pc'[w] = "crashed"
    BY <2>1 DEF WorkOf
  <2>2. CASE pc'[w] = pc[w]
    <3>1. WorkOf(w)
      BY SerialFacts
    <3>2. (ReadLatest(w) => ReadLatest(w)') /\ OwnPart(w)' = OwnPart(w)
      BY <1>1 DEF ReadLatest, Accepts, OwnPart
    <3>3. CopyOfLatest(w) => CopyOfLatest(w)'
      BY <1>1, <3>2 DEF CopyOfLatest
    <3>4. BookOfAppender(w) => BookOfAppender(w)'
      BY <1>1, <3>2 DEF BookOfAppender, Datum
    <3>5. BookOfFresh(w) => BookOfFresh(w)'
      BY DEF BookOfFresh, Datum
    <3>6. IsWhole("dest") => IsWhole("dest")'
      BY DEF IsWhole, Exists, At
    <3> QED
      BY <2>2, <3>1, <3>2, <3>3, <3>4, <3>5, <3>6 DEF WorkOf
  <2> QED
    BY <2>1, <2>2
<1> QED
  BY <1>2, <1>3, <1>4 DEF WorkOfWriter, WorkOf

LEMMA StepSerialInv ==
    ASSUME ~Overlap, SerialInv, [Next]_vars
    PROVE  SerialInv'
<1>1. SwapInv' /\ IsSequence(published)'
  <2>1. SwapInv /\ IsSequence(published)
    BY DEF SerialInv
  <2>2. SwapInv'
    BY <2>1, StepSwapInv
  <2>3. CASE published' = published
    BY <2>1, <2>2, <2>3 DEF IsSequence
  <2>4. CASE \E w \in Writers : DestroyWriter(w)
    <3>1. PICK w \in Writers : DestroyWriter(w)
      BY <2>4
    <3>2. published' = published \/ published' = Append(published, inode'[out[w]])
      BY <2>1, <3>1, WriteEffect
    <3>3. IsSequence(published')
      BY <2>1, <3>2, PublishedLast
    <3> QED
      BY <2>2, <3>3
  <2> QED
    BY <2>3, <2>4 DEF Next, Step, OpenFresh, OpenAppender, ReadMetadata, RefuseSource, CopyEntries,
       InputThrows, FinishFresh, FinishZip, RemoveDest, MoveTmp, RetryFsOp, GiveUp, Bind, InitGlobal,
       Crash, vars
<1>2. ASSUME NEW w \in Writers, Step(w) PROVE SerialInv'
  <2>1. CurrentIsLatest' /\ TempIsNoBook' /\ WorkOf(w)' /\ ScansFollow'
    BY <1>2, SerialOpenFresh, SerialCopyEntries, SerialFinishFresh, SerialFinishZip, SerialNames,
       SerialOther, SerialDestroyWriter DEF Step
  <2>2. WorkOfWriter'
    BY <1>2, <2>1, WorkOfOne
  <2>3. OneAtATime'
    BY <1>2, OthersAreIdle
  <2>4. ScanTyped'
    <3>1. scan' = scan
      BY <1>2, SerialFacts, OpenFreshEffect, CopyEntriesEffect, WriteEffect, NameEffect, OtherEffect
         DEF Step
    <3> QED
      BY <3>1, SerialFacts DEF ScanTyped
  <2> QED
    BY <1>1, <2>1, <2>2, <2>3, <2>4 DEF SerialInv
<1>3. ASSUME NEW r \in Readers, Bind(r) \/ InitGlobal(r) PROVE SerialInv'
  <2>1. UNCHANGED <<job, path, inode, pc, source, out, published>>
    BY <1>3 DEF Bind, InitGlobal
  <2>2. OneAtATime' /\ CurrentIsLatest' /\ TempIsNoBook' /\ WorkOfWriter'
    BY <2>1, SerialStillness
  <2> QED
    BY <1>1, <1>3, <2>2, SerialScan DEF SerialInv
<1>4. ASSUME Crash PROVE SerialInv'
  <2>1. /\ UNCHANGED <<job, path, inode, source, out, published>>
        /\ \A w \in Writers : pc'[w] = pc[w] \/ pc'[w] = "crashed"
        /\ scan' = [r \in Readers |-> [scan[r] EXCEPT !.state = "over"]]
    BY <1>4 DEF Crash
  <2>2. OneAtATime' /\ CurrentIsLatest' /\ TempIsNoBook' /\ WorkOfWriter'
    BY <2>1, SerialStillness
  <2>3. ScanTyped'
    BY <2>1, SerialFacts DEF ScanTyped
  <2>4. \A r \in Readers : scan'[r].state = "over"
    BY <2>1, SerialFacts DEF ScanTyped
  <2> QED
    BY <1>1, <2>2, <2>3, <2>4 DEF SerialInv, ScansFollow
<1>5. ASSUME UNCHANGED vars PROVE SerialInv'
  <2>1. UNCHANGED <<job, path, inode, pc, source, out, published, scan>>
    BY <1>5 DEF vars
  <2>2. OneAtATime' /\ CurrentIsLatest' /\ TempIsNoBook' /\ WorkOfWriter'
    BY <2>1, SerialStillness
  <2>3. ScanTyped' /\ ScansFollow'
    BY <2>1, SerialFacts DEF ScanTyped, ScansFollow, Latest, NoFresh, WroteFresh
  <2> QED
    BY <1>1, <2>2, <2>3 DEF SerialInv
<1> QED
  BY <1>2, <1>3, <1>4, <1>5 DEF Next

-----------------------------------------------------------------------------
(* COPYs that run one after the other leave no workbook whose list names a   *)
(* sheet it does not have, whichever of them fails, and wherever one dies.   *)
THEOREM SerialBooksAreConsistent ==
    ASSUME ~Overlap PROVE Spec => []WholeIsConsistent
<1>1. SerialInv => WholeIsConsistent
  <2> SUFFICES ASSUME SerialInv, NEW p \in Paths, IsWhole(p) PROVE Consistent(At(p))
    BY DEF WholeIsConsistent
  <2>1. CASE p = "dest"
    BY <2>1, SerialFacts DEF CurrentIsLatest
  <2>2. CASE p \in Writers
    BY <2>2, SerialFacts DEF TempIsNoBook, IsWhole
  <2> QED
    BY <2>1, <2>2 DEF Paths
<1>2. SerialInv /\ [Next]_vars => SerialInv'
  BY StepSerialInv
<1> QED
  BY <1>1, <1>2, InitSerialInv, PTL DEF Spec

(* A scan reads the sheet it was bound to although the file was replaced in  *)
(* between, by any number of COPYs in mode append or replace.                *)
THEOREM BoundSheetIsAlwaysRead ==
    ASSUME ~Overlap PROVE Spec => []BoundSheetIsRead
<1>1. SerialInv => BoundSheetIsRead
  BY SerialFacts DEF ScansFollow, NoFresh, BoundSheetIsRead
<1>2. SerialInv /\ [Next]_vars => SerialInv'
  BY StepSerialInv
<1> QED
  BY <1>1, <1>2, InitSerialInv, PTL DEF Spec

-----------------------------------------------------------------------------
(* COPYs that run one after the other implement SheetDirectory.              *)

LEMMA BookOfLatest ==
    Book = IF published = << >> THEN << >>
           ELSE [i \in DOMAIN Latest.sheets |->
                   [name |-> Latest.sheets[i], table |-> Latest.parts[i].by]]
  BY DEF Book, Latest

LEMMA SamePublished ==
    ASSUME published' = published PROVE Book' = Book
  BY DEF Book

LEMMA InitDirectory == Init => Directory!Init
<1> SUFFICES ASSUME Init PROVE Book \in Seq([name : Names, table : Writers \cup {"base"}])
  BY DEF Directory!Init
<1>1. published = IF Base # << >> THEN <<FirstBook>> ELSE << >>
  BY DEF Init
<1>2. CASE Base = << >>
  <2>1. Book = << >>
    BY <1>1, <1>2 DEF Book
  <2> QED
    BY <2>1, EmptySeq
<1>3. CASE Base # << >>
  <2>1. published # << >> /\ published[Len(published)] = FirstBook
    BY <1>1, <1>3
  <2>2. Book = [i \in DOMAIN Base |-> [name |-> Base[i], table |-> "base"]]
    BY <2>1 DEF Book, FirstBook, Datum
  <2>3. Base \in Seq(Names)
    BY BaseNames
  <2>4. PICK n \in Nat : DOMAIN Base = 1 .. n
    BY <2>3
  <2>5. \A i \in 1 .. n : Base[i] \in Names
    BY <2>3, <2>4
  <2>6. Book = [i \in 1 .. n |-> [name |-> Base[i], table |-> "base"]]
    BY <2>2, <2>4
  <2> QED
    BY <2>5, <2>6
<1> QED
  BY <1>2, <1>3

(* Only the destruction of a writer publishes.                               *)
LEMMA StepDirectory ==
    ASSUME ~Overlap, SerialInv, [Next]_vars
    PROVE  Directory!Next \/ Book' = Book
<1>1. CASE published' = published
  BY <1>1, SamePublished
<1>2. ASSUME NEW w \in Writers, DestroyWriter(w) PROVE Directory!Next
  <2> DEFINE new == inode[out[w]]
             name == job[w].name
  <2>1. /\ UNCHANGED <<job, source>>
        /\ published' # << >> /\ Latest'.sheets = new.sheets /\ Latest'.parts = new.parts
        /\ IF source[w] = << >> THEN BookOfFresh(w) ELSE ReadLatest(w) /\ BookOfAppender(w)
    BY <1>2, PublishedBook
  <2>2. Book' = [i \in DOMAIN new.sheets |-> [name |-> new.sheets[i], table |-> new.parts[i].by]]
    <3>1. Book' = [i \in DOMAIN Latest'.sheets |->
                     [name |-> Latest'.sheets[i], table |-> Latest'.parts[i].by]]
      BY <2>1 DEF Book, Latest
    <3> HIDE DEF new
    <3> QED
      BY <2>1, <3>1
  <2>3. name \in Names /\ w \in Writers \cup {"base"}
    BY SerialFacts, SwapFacts DEF TypeOK, Names
  <2>4. CASE source[w] = << >>
    <3>1. new.sheets = <<name>> /\ new.parts = <<Datum(name, w)>>
      BY <2>1, <2>4 DEF BookOfFresh
    <3> HIDE DEF new, name
    <3>2. Book' = <<[name |-> name, table |-> w]>>
      BY <2>2, <3>1 DEF Datum
    <3> QED
      BY <2>3, <3>2 DEF Directory!Next, Directory!Create
  <2>5. CASE source[w] # << >>
    <3>1. /\ ReadLatest(w)
          /\ new.sheets = IF job[w].mode = "replace" THEN source[w] ELSE Append(source[w], name)
          /\ \A i \in DOMAIN new.sheets :
               new.parts[i] = IF i = OwnPart(w) THEN Datum(name, w) ELSE Latest.parts[i]
      BY <2>1, <2>5 DEF BookOfAppender
    <3>2. /\ source[w] = Latest.sheets /\ published # << >> /\ source[w] \in Seq(Names)
          /\ \A i \in DOMAIN source[w] : source[w][i] \in Names
          /\ Accepts(w, source[w])
      BY <3>1, OwnPartFacts DEF ReadLatest
    <3>3. Book = [i \in DOMAIN source[w] |-> [name |-> source[w][i], table |-> Latest.parts[i].by]]
      BY <3>2 DEF Book, Latest
    <3> HIDE DEF new
    <3>4. CASE job[w].mode = "replace"
      <4>1. OwnPart(w) \in DOMAIN source[w] /\ source[w][OwnPart(w)] = name
        BY <3>1, <3>4, OwnPartFacts
      <4>2. new.sheets = source[w]
        BY <3>1, <3>4
      <4>3. Book' = [Book EXCEPT ![OwnPart(w)].table = w]
        <5> DEFINE k == OwnPart(w)
        <5>1. ASSUME NEW i \in DOMAIN source[w]
              PROVE  [name |-> source[w][i], table |-> new.parts[i].by]
                       = IF i = k THEN [Book[k] EXCEPT !.table = w] ELSE Book[i]
          <6>1. CASE i = k
            <7>1. new.parts[i].by = w
              <8>1. new.parts[i] = Datum(job[w].name, w)
                BY <3>1, <4>2, <6>1
              <8> QED
                BY <8>1 DEF Datum
            <7>2. Book[k] = [name |-> source[w][k], table |-> Latest.parts[k].by]
              BY <3>3, <4>1
            <7> HIDE DEF k
            <7> QED
              BY <6>1, <7>1, <7>2
          <6>2. CASE i # k
            BY <3>1, <3>3, <4>2, <6>2
          <6> QED
            BY <6>1, <6>2
        <5>2. Book' = [i \in DOMAIN source[w] |-> [name |-> source[w][i], table |-> new.parts[i].by]]
          BY <2>2, <4>2
        <5>3. DOMAIN Book = DOMAIN source[w]
          BY <3>3
        <5> HIDE DEF k
        <5>4. Book' = [i \in DOMAIN Book |-> IF i = k THEN [Book[k] EXCEPT !.table = w] ELSE Book[i]]
          BY <5>1, <5>2, <5>3
        <5>5. Book' = [Book EXCEPT ![k].table = w]
          BY <3>3, <5>4
        <5> QED
          BY <5>5 DEF k
      <4>4. OwnPart(w) \in DOMAIN Book /\ Book[OwnPart(w)].name = name
        BY <3>3, <4>1
      <4> HIDE DEF name
      <4>5. Directory!ReplaceSheet(name, w)
        BY <4>3, <4>4 DEF Directory!ReplaceSheet
      <4> QED
        BY <2>3, <4>5 DEF Directory!Next
    <3>5. CASE job[w].mode # "replace"
      <4>1. OwnPart(w) = Len(source[w]) + 1 /\ new.sheets = Append(source[w], name)
        BY <3>1, <3>5, OwnPartFacts
      <4>2. \A i \in DOMAIN source[w] : source[w][i] # name
        BY <3>2, <3>5 DEF Accepts, Holds
      <4> HIDE DEF name
      <4>3. PICK n \in Nat : n = Len(source[w]) /\ DOMAIN source[w] = 1 .. n
        BY <3>2
      <4>4. /\ DOMAIN new.sheets = 1 .. n + 1
            /\ \A i \in 1 .. n : new.sheets[i] = source[w][i]
            /\ new.sheets[n + 1] = name
        BY <2>3, <3>2, <4>1, <4>3, AppendProperties
      <4> DEFINE S == [name : Names, table : {Latest.parts[i].by : i \in DOMAIN source[w]} \cup {w}]
                 e == [name |-> name, table |-> w]
      <4>5. Book \in Seq(S) /\ Len(Book) = n /\ e \in S
        <5>1. \A i \in 1 .. n : [name |-> source[w][i], table |-> Latest.parts[i].by] \in S
          BY <3>2, <4>3
        <5>2. Book = [i \in 1 .. n |-> [name |-> source[w][i], table |-> Latest.parts[i].by]]
          BY <3>3, <4>3
        <5>3. e \in S
          BY <2>3
        <5> HIDE DEF S, e
        <5> QED
          BY <5>1, <5>2, <5>3
      <4>6. Book' = [i \in 1 .. n + 1 |-> IF i = n + 1 THEN e ELSE Book[i]]
        <5>1. ASSUME NEW i \in 1 .. n + 1
              PROVE  [name |-> new.sheets[i], table |-> new.parts[i].by]
                       = IF i = n + 1 THEN e ELSE Book[i]
          <6>1. CASE i = n + 1
            <7>1. new.parts[i] = Datum(name, w) /\ new.sheets[i] = name
              BY <3>1, <4>1, <4>3, <4>4, <6>1 DEF name
            <7> QED
              BY <6>1, <7>1 DEF Datum
          <6>2. CASE i # n + 1
            <7>1. i \in 1 .. n
              BY <6>2
            <7>2. new.parts[i] = Latest.parts[i] /\ new.sheets[i] = source[w][i]
              BY <3>1, <4>1, <4>3, <4>4, <6>2, <7>1
            <7>3. Book[i] = [name |-> source[w][i], table |-> Latest.parts[i].by]
              BY <3>3, <4>3, <7>1
            <7> QED
              BY <6>2, <7>2, <7>3
          <6> QED
            BY <6>1, <6>2
        <5>2. Book' = [i \in 1 .. n + 1 |-> [name |-> new.sheets[i], table |-> new.parts[i].by]]
          BY <2>2, <4>4
        <5> HIDE DEF e
        <5> QED
          BY <5>1, <5>2
      <4>7. Book' = Append(Book, e)
        <5> HIDE DEF S, e
        <5> DEFINE longer == Append(Book, e)
        <5>1. /\ longer \in Seq(S) /\ Len(longer) = n + 1 /\ longer[n + 1] = e
              /\ \A i \in 1 .. n : longer[i] = Book[i]
          BY <4>5, AppendProperties
        <5>2. longer = [i \in 1 .. n + 1 |-> longer[i]]
          <6> HIDE DEF longer
          <6> QED
            BY <5>1
        <5>3. ASSUME NEW i \in 1 .. n + 1 PROVE longer[i] = IF i = n + 1 THEN e ELSE Book[i]
          <6> HIDE DEF longer
          <6>1. CASE i = n + 1
            BY <5>1, <6>1
          <6>2. CASE i # n + 1
            BY <5>1, <6>2
          <6> QED
            BY <6>1, <6>2
        <5> HIDE DEF longer
        <5>4. longer = [i \in 1 .. n + 1 |-> IF i = n + 1 THEN e ELSE Book[i]]
          BY <5>2, <5>3
        <5> QED
          BY <4>6, <5>4 DEF longer
      <4>8. ~Directory!Taken(name)
        <5>1. \A i \in DOMAIN Book : Book[i].name = source[w][i] /\ i \in DOMAIN source[w]
          BY <3>3
        <5> QED
          BY <2>3, <3>2, <4>2, <5>1 DEF Directory!Taken
      <4>9. Directory!AppendSheet(name, w)
        BY <4>7, <4>8 DEF Directory!AppendSheet
      <4> QED
        BY <2>3, <4>9 DEF Directory!Next
    <3> QED
      BY <3>4, <3>5
  <2> QED
    BY <2>4, <2>5
<1> QED
  BY <1>1, <1>2 DEF Next, Step, OpenFresh, OpenAppender, ReadMetadata, RefuseSource, CopyEntries,
     InputThrows, FinishFresh, FinishZip, RemoveDest, MoveTmp, RetryFsOp, GiveUp, Bind, InitGlobal,
     Crash, vars

(* What COPYs publish one after the other is what SheetDirectory allows, and *)
(* every failure, and the death of the process, changes nothing of it.       *)
THEOREM SwapImplementsDirectory ==
    ASSUME ~Overlap PROVE Spec => KeepsDirectory
<1>1. SerialInv /\ [Next]_vars => SerialInv'
  BY StepSerialInv
<1>2. SerialInv /\ [Next]_vars => [Directory!Next]_Book
  BY StepDirectory
<1>3. Init => Directory!Init
  BY InitDirectory
<1> QED
  BY <1>1, <1>2, <1>3, InitSerialInv, PTL DEF Spec, KeepsDirectory, Directory!Spec
=============================================================================
