--------------------------- MODULE OutputScanProofs ---------------------------
(***************************************************************************)
(* The proofs about OutputScan: for every prompt, every size of the head,  *)
(* of the tail, of a limit and of what is kept back, every output, and     *)
(* however the reads cut it.                                               *)
(*                                                                         *)
(* What is stripped so far, Got, is what has gone to the buffer and what is*)
(* kept back; the buffer holds the first HeadSize bytes of the former and  *)
(* the last TailSize of the rest; and either nothing has gone to the buffer*)
(* or what is kept back is long enough for a prompt whose last byte comes  *)
(* (Behind). That needs that an escape sequence which a read cuts is put   *)
(* together again when its half was kept back (Resume), and that a scan    *)
(* which goes on from what is kept back ends in the prompt when the output *)
(* does (PromptArrives).                                                   *)
(***************************************************************************)
EXTENDS OutputScan, SelectionProofs, TLAPS

\* The length and the bytes of the pieces s[:n], s[n:] and s[-n:].
LEMMA FirstPiece ==
  ASSUME NEW Byte, NEW s \in Seq(Byte), NEW n \in Nat
  PROVE  /\ First(s, n) \in Seq(Byte)
         /\ Len(First(s, n)) = IF n < Len(s) THEN n ELSE Len(s)
         /\ \A i \in 1..Len(First(s, n)) : First(s, n)[i] = s[i]
<1>1. CASE n < Len(s)
  <2>1. First(s, n) = SubSeq(s, 1, n)
    BY <1>1 DEF First
  <2> QED
    BY <1>1, <2>1
<1>2. CASE ~(n < Len(s))
  <2>1. First(s, n) = SubSeq(s, 1, Len(s))
    BY <1>2 DEF First
  <2> QED
    BY <1>2, <2>1
<1> QED
  BY <1>1, <1>2

LEMMA ButPiece ==
  ASSUME NEW Byte, NEW s \in Seq(Byte), NEW n \in Nat
  PROVE  /\ But(s, n) \in Seq(Byte)
         /\ Len(But(s, n)) = IF n < Len(s) THEN Len(s) - n ELSE 0
         /\ \A i \in 1..Len(But(s, n)) : But(s, n)[i] = s[n + i]
<1>1. CASE n < Len(s)
  BY <1>1 DEF But
<1>2. CASE ~(n < Len(s))
  BY <1>2 DEF But
<1> QED
  BY <1>1, <1>2

LEMMA LastPiece ==
  ASSUME NEW Byte, NEW s \in Seq(Byte), NEW n \in Nat
  PROVE  /\ LastOf(s, n) \in Seq(Byte)
         /\ Len(LastOf(s, n)) = IF n < Len(s) THEN n ELSE Len(s)
         /\ \A i \in 1..Len(LastOf(s, n)) : LastOf(s, n)[i] = s[Len(s) - Len(LastOf(s, n)) + i]
<1>1. CASE n < Len(s)
  <2>1. LastOf(s, n) = SubSeq(s, Len(s) - n + 1, Len(s))
    BY <1>1 DEF LastOf
  <2> QED
    BY <1>1, <2>1
<1>2. CASE ~(n < Len(s))
  <2>1. LastOf(s, n) = s
    <3>1. LastOf(s, n) = SubSeq(s, 1, Len(s))
      BY <1>2 DEF LastOf
    <3> QED
      BY <3>1, SubSeqFull
  <2> QED
    BY <1>2, <2>1
<1> QED
  BY <1>1, <1>2

\* The pieces that a text is cut into make up the text.
LEMMA Joined ==
  ASSUME NEW Byte, NEW s \in Seq(Byte), NEW n \in Nat
  PROVE  /\ First(s, n) \o But(s, n) = s
         /\ n <= Len(s) => First(s, Len(s) - n) \o LastOf(s, n) = s
         /\ Len(s) <= n => First(s, n) = s /\ LastOf(s, n) = s /\ But(s, n) = <<>>
<1>0. SubSeq(s, 1, Len(s)) = s
  BY SubSeqFull
<1>1. CASE n < Len(s)
  <2>1. First(s, n) = SubSeq(s, 1, n) /\ But(s, n) = SubSeq(s, n + 1, Len(s))
    BY <1>1 DEF First, But
  <2>2. First(s, n) \o But(s, n) = s
    <3>1. 1 \in 1..(Len(s) + 1) /\ n \in (1 - 1)..Len(s) /\ Len(s) \in n..Len(s)
      BY <1>1
    <3>2. SubSeq(s, 1, n) \o SubSeq(s, n + 1, Len(s)) = SubSeq(s, 1, Len(s))
      BY <3>1, ConcatAdjacentSubSeq, Zenon
    <3> QED
      BY <1>0, <2>1, <3>2
  <2>3. First(s, Len(s) - n) \o LastOf(s, n) = s
    <3>1. 1 \in 1..(Len(s) + 1) /\ Len(s) - n \in (1 - 1)..Len(s) /\ Len(s) \in (Len(s) - n)..Len(s)
      BY <1>1
    <3>2. SubSeq(s, 1, Len(s) - n) \o SubSeq(s, (Len(s) - n) + 1, Len(s)) = SubSeq(s, 1, Len(s))
      BY <3>1, ConcatAdjacentSubSeq, Zenon
    <3>3. First(s, Len(s) - n) = SubSeq(s, 1, Len(s) - n)
      BY <1>1 DEF First
    <3>4. LastOf(s, n) = SubSeq(s, (Len(s) - n) + 1, Len(s))
      BY <1>1 DEF LastOf
    <3> QED
      BY <1>0, <3>2, <3>3, <3>4
  <2>4. ~(Len(s) <= n)
    BY <1>1
  <2> QED
    BY <2>2, <2>3, <2>4
<1>2. CASE ~(n < Len(s))
  <2>1. First(s, n) = s /\ LastOf(s, n) = s
    BY <1>0, <1>2 DEF First, LastOf
  <2>2. But(s, n) = <<>>
    BY <1>2 DEF But
  <2>3. s \o <<>> = s
    BY ConcatEmptySeq
  <2>4. n <= Len(s) => First(s, Len(s) - n) \o LastOf(s, n) = s
    <3> SUFFICES ASSUME n <= Len(s) PROVE First(s, Len(s) - n) \o LastOf(s, n) = s
      OBVIOUS
    <3>1. Len(s) - n = 0
      BY <1>2
    <3>2. First(s, 0) = <<>>
      BY DEF First
    <3>3. <<>> \o s = s
      BY ConcatEmptySeq
    <3> QED
      BY <2>1, <3>1, <3>2, <3>3
  <2> QED
    BY <2>1, <2>2, <2>3, <2>4
<1> QED
  BY <1>1, <1>2

LEMMA Concat ==
  ASSUME NEW Byte, NEW s \in Seq(Byte), NEW t \in Seq(Byte)
  PROVE  /\ s \o t \in Seq(Byte) /\ Len(s \o t) = Len(s) + Len(t)
         /\ Len(s) \in Nat /\ Len(t) \in Nat
         /\ \A i \in 1..Len(s) : (s \o t)[i] = s[i]
         /\ \A i \in 1..Len(t) : (s \o t)[Len(s) + i] = t[i]
OBVIOUS

LEMMA Retyped ==
  ASSUME NEW A, NEW B, NEW s \in Seq(A), \A i \in 1..Len(s) : s[i] \in B
  PROVE  s \in Seq(B)
<1>1. Len(s) \in Nat /\ s = [i \in 1..Len(s) |-> s[i]]
  OBVIOUS
<1> QED
  BY <1>1

LEMMA Assoc ==
  ASSUME NEW Byte, NEW s \in Seq(Byte), NEW t \in Seq(Byte), NEW u \in Seq(Byte)
  PROVE  (s \o t) \o u = s \o (t \o u)
BY ConcatAssociative

LEMMA Cancel ==
  ASSUME NEW Byte, NEW s \in Seq(Byte), NEW t \in Seq(Byte), NEW u \in Seq(Byte), s \o t = s \o u
  PROVE  t = u
BY ConcatSimplifications

\* A text that came in two, cut where they meet.
LEMMA CutAtJoin ==
  ASSUME NEW Byte, NEW s \in Seq(Byte), NEW t \in Seq(Byte)
  PROVE  First(s \o t, Len(s)) = s /\ But(s \o t, Len(s)) = t /\ LastOf(s \o t, Len(t)) = t
<1> DEFINE u == s \o t  a == First(u, Len(s))
<1>1. /\ u \in Seq(Byte) /\ Len(u) = Len(s) + Len(t) /\ Len(s) \in Nat /\ Len(t) \in Nat
      /\ \A i \in 1..Len(s) : u[i] = s[i]
  BY Concat
<1>2. u = s \o t
  OBVIOUS
<1> HIDE DEF u
<1>3. a = s
  <2>1. /\ a \in Seq(Byte) /\ Len(a) = IF Len(s) < Len(u) THEN Len(s) ELSE Len(u)
        /\ \A i \in 1..Len(a) : a[i] = u[i]
    BY <1>1, FirstPiece
  <2> HIDE DEF a
  <2>2. Len(a) = Len(s)
    BY <1>1, <2>1
  <2>3. \A i \in 1..Len(a) : a[i] = s[i]
    BY <1>1, <2>1, <2>2
  <2> QED
    BY <2>1, <2>2, <2>3, SeqEqual
<1>4. But(u, Len(s)) = t
  <2>1. a \o But(u, Len(s)) = u /\ But(u, Len(s)) \in Seq(Byte)
    BY <1>1, Joined, ButPiece
  <2> HIDE DEF a
  <2>2. s \o But(u, Len(s)) = s \o t
    BY <1>2, <1>3, <2>1
  <2> QED
    BY <2>1, <2>2, Cancel
<1>5. LastOf(u, Len(t)) = t
  <2>1. Len(t) <= Len(u) /\ Len(u) - Len(t) = Len(s)
    BY <1>1
  <2>2. First(u, Len(u) - Len(t)) \o LastOf(u, Len(t)) = u
    BY <1>1, <2>1, Joined
  <2>3. s \o LastOf(u, Len(t)) = s \o t
    BY <1>2, <1>3, <2>1, <2>2
  <2>4. LastOf(u, Len(t)) \in Seq(Byte)
    BY <1>1, LastPiece
  <2> QED
    BY <2>3, <2>4, Cancel
<1> QED
  BY <1>3, <1>4, <1>5 DEF u

\* What is first and what is last in a text does not depend on what is beyond.
LEMMA CutWithin ==
  ASSUME NEW Byte, NEW s \in Seq(Byte), NEW t \in Seq(Byte), NEW n \in Nat
  PROVE  /\ n <= Len(s) => First(s \o t, n) = First(s, n) /\ But(s \o t, n) = But(s, n) \o t
         /\ n <= Len(t) => LastOf(s \o t, n) = LastOf(t, n)
<1>1. ASSUME n <= Len(s)
      PROVE  First(s \o t, n) = First(s, n) /\ But(s \o t, n) = But(s, n) \o t
  <2> DEFINE f == First(s, n)  b == But(s, n)
  <2>1. f \in Seq(Byte) /\ b \in Seq(Byte) /\ f \o b = s
    BY FirstPiece, ButPiece, Joined
  <2>2. Len(f) = n
    BY <1>1, FirstPiece
  <2> HIDE DEF f, b
  <2>3. s \o t = f \o (b \o t) /\ b \o t \in Seq(Byte)
    <3>1. (f \o b) \o t = f \o (b \o t)
      <4>1. f \in Seq(Byte) /\ b \in Seq(Byte)
        BY <2>1
      <4> QED
        BY <4>1, Assoc
    <3> QED
      BY <2>1, <3>1, Concat
  <2>4. First(f \o (b \o t), Len(f)) = f /\ But(f \o (b \o t), Len(f)) = b \o t
    BY <2>1, <2>3, CutAtJoin
  <2> QED
    BY <2>2, <2>3, <2>4 DEF f, b
<1>2. ASSUME n <= Len(t) PROVE LastOf(s \o t, n) = LastOf(t, n)
  <2> DEFINE f == First(t, Len(t) - n)  l == LastOf(t, n)
  <2>1. Len(t) - n \in Nat
    BY <1>2
  <2>2. f \in Seq(Byte) /\ l \in Seq(Byte) /\ f \o l = t
    BY <1>2, <2>1, FirstPiece, LastPiece, Joined
  <2>3. Len(l) = n
    BY <1>2, LastPiece
  <2> HIDE DEF f, l
  <2>4. s \o t = (s \o f) \o l /\ s \o f \in Seq(Byte)
    <3>1. (s \o f) \o l = s \o (f \o l)
      <4>1. f \in Seq(Byte) /\ l \in Seq(Byte)
        BY <2>2
      <4> QED
        BY <4>1, Assoc
    <3> QED
      BY <2>2, <3>1, Concat
  <2>5. LastOf((s \o f) \o l, Len(l)) = l
    BY <2>2, <2>4, CutAtJoin
  <2> QED
    BY <2>3, <2>4, <2>5 DEF l
<1> QED
  BY <1>1, <1>2

\* Taking a piece of a text that came in two.
LEMMA CutConcat ==
  ASSUME NEW Byte, NEW s \in Seq(Byte), NEW t \in Seq(Byte), NEW n \in Nat
  PROVE  /\ First(s \o t, n) = First(s, n) \o First(t, n - Len(First(s, n)))
         /\ But(s \o t, n) = But(s, n) \o But(t, n - Len(First(s, n)))
<1>1. CASE n <= Len(s)
  <2>1. Len(First(s, n)) = n
    BY <1>1, FirstPiece
  <2>2. n - Len(First(s, n)) = 0
    BY <2>1
  <2>3. First(t, 0) = <<>> /\ But(t, 0) = t
    BY SubSeqFull DEF First, But
  <2>4. First(s, n) \o <<>> = First(s, n)
    BY FirstPiece, ConcatEmptySeq
  <2> QED
    <3>1. First(s \o t, n) = First(s, n) /\ But(s \o t, n) = But(s, n) \o t
      BY <1>1, CutWithin
    <3> QED
      BY <2>2, <2>3, <2>4, <3>1
<1>2. CASE ~(n <= Len(s))
  <2> DEFINE k == n - Len(s)  f == First(t, k)  b == But(t, k)
  <2>1. k \in Nat /\ Len(s) <= n
    BY <1>2
  <2>2. First(s, n) = s /\ But(s, n) = <<>>
    BY <2>1, Joined
  <2>3. f \in Seq(Byte) /\ b \in Seq(Byte) /\ f \o b = t /\ Len(f) = IF k < Len(t) THEN k ELSE Len(t)
    BY <2>1, FirstPiece, ButPiece, Joined
  <2>4. k < Len(t) \/ Len(t) <= k
    BY <2>1
  <2>5. First(s \o t, n) = s \o f /\ But(s \o t, n) = b
    <3>1. CASE k < Len(t)
      <4> HIDE DEF f, b
      <4>1. s \o t = (s \o f) \o b /\ s \o f \in Seq(Byte) /\ Len(s \o f) = Len(s) + Len(f)
        <5>1. (s \o f) \o b = s \o (f \o b)
          <6>1. f \in Seq(Byte) /\ b \in Seq(Byte)
            BY <2>3
          <6> QED
            BY <6>1, Assoc
        <5> QED
          BY <2>3, <5>1, Concat
      <4>2. Len(s \o f) = n
        BY <2>1, <2>3, <3>1, <4>1
      <4>3. First((s \o f) \o b, Len(s \o f)) = s \o f /\ But((s \o f) \o b, Len(s \o f)) = b
        BY <2>3, <4>1, CutAtJoin
      <4> QED
        BY <4>1, <4>2, <4>3
    <3>2. CASE Len(t) <= k
      <4>1. f = t /\ b = <<>>
        BY <2>1, <3>2, Joined
      <4>2. s \o t \in Seq(Byte) /\ Len(s \o t) <= n
        BY <1>2, <3>2, Concat
      <4>3. First(s \o t, n) = s \o t /\ But(s \o t, n) = <<>>
        BY <4>2, Joined
      <4> QED
        BY <4>1, <4>3
    <3> QED
      BY <2>4, <3>1, <3>2
  <2>6. <<>> \o b = b
    BY <2>3, ConcatEmptySeq
  <2> QED
    BY <2>2, <2>5, <2>6
<1> QED
  BY <1>1, <1>2

\* A tail that takes a text as it comes keeps the last of the whole.
LEMMA LastOfConcat ==
  ASSUME NEW Byte, NEW s \in Seq(Byte), NEW t \in Seq(Byte), NEW n \in Nat
  PROVE  LastOf(LastOf(s, n) \o t, n) = LastOf(s \o t, n)
<1>1. CASE Len(s) <= n
  BY <1>1, Joined
<1>2. CASE ~(Len(s) <= n)
  <2> DEFINE f == First(s, Len(s) - n)  l == LastOf(s, n)
  <2>1. Len(s) - n \in Nat /\ n <= Len(s)
    BY <1>2
  <2>2. f \in Seq(Byte) /\ l \in Seq(Byte) /\ f \o l = s
    BY <2>1, FirstPiece, LastPiece, Joined
  <2>3. Len(l) = n
    BY <1>2, LastPiece
  <2> HIDE DEF f, l
  <2>4. s \o t = f \o (l \o t) /\ l \o t \in Seq(Byte) /\ n <= Len(l \o t)
    <3>1. (f \o l) \o t = f \o (l \o t)
      <4>1. f \in Seq(Byte) /\ l \in Seq(Byte)
        BY <2>2
      <4> QED
        BY <4>1, Assoc
    <3> QED
      BY <2>2, <2>3, <3>1, Concat
  <2>5. LastOf(f \o (l \o t), n) = LastOf(l \o t, n)
    BY <2>2, <2>4, CutWithin
  <2> QED
    BY <2>4, <2>5 DEF l
<1> QED
  BY <1>1, <1>2

-----------------------------------------------------------------------------
(* Stripping. *)

\* An escape sequence that begins in s and ends in t.
Seam(s, t) == s # <<>> /\ t # <<>> /\ s[Len(s)] = "e" /\ t[1] = "m"

\* Nothing in them looks like an escape sequence or a carriage return.
Clean == Bytes \ {"e", "m", "r"}

\* A prompt is clean, and none of its bytes is what a command prints.
LEMMA PromptType ==
  /\ Prompt \in Seq(Bytes) /\ Prompt \in Seq(Clean) /\ PromptLen \in Nat /\ 2 <= PromptLen
  /\ \A i \in 1..PromptLen : Prompt[i] \notin Plain
  /\ "" \notin Bytes /\ Plain \subseteq Bytes
<1>1. Prompt \in Seq(STRING) /\ PromptLen \in Nat /\ 2 <= PromptLen /\ PromptLen = Len(Prompt)
  BY ScanAssumption DEF PromptLen
<1>2. \A i \in 1..PromptLen : Prompt[i] \notin Plain /\ Prompt[i] # ""
  BY ScanAssumption
<1>3. \A i \in 1..PromptLen : Prompt[i] \in Clean /\ Prompt[i] \in Bytes
  BY <1>2 DEF Clean, Bytes, Plain
<1>4. Prompt \in Seq(Bytes) /\ Prompt \in Seq(Clean)
  BY <1>1, <1>3
<1>5. "" \notin Bytes /\ Plain \subseteq Bytes
  BY <1>2 DEF Bytes, Plain
<1> QED
  BY <1>1, <1>2, <1>4, <1>5

LEMMA ReplacedType ==
  ASSUME NEW B \in SUBSET Bytes, NEW s \in Seq(B)
  PROVE  /\ Replaced(s) \in Seq((B \cup {"n", ""}) \ {"r"}) /\ Len(Replaced(s)) = Len(s)
         /\ \A i \in 1..Len(s) : Replaced(s)[i] =
              IF InEscape(s, i) THEN "" ELSE IF s[i] = "r" THEN "n" ELSE s[i]
<1> DEFINE C == (B \cup {"n", ""}) \ {"r"}
<1>1. \A i \in 1..Len(s) :
        (IF InEscape(s, i) THEN "" ELSE IF s[i] = "r" THEN "n" ELSE s[i]) \in C
  <2> SUFFICES ASSUME NEW i \in 1..Len(s)
               PROVE  (IF InEscape(s, i) THEN "" ELSE IF s[i] = "r" THEN "n" ELSE s[i]) \in C
    OBVIOUS
  <2>1. s[i] \in B
    OBVIOUS
  <2> QED
    BY <2>1
<1> HIDE DEF C
<1>2. Replaced(s) = [i \in 1..Len(s) |->
                       IF InEscape(s, i) THEN "" ELSE IF s[i] = "r" THEN "n" ELSE s[i]]
  BY DEF Replaced
<1>3. Replaced(s) \in [1..Len(s) -> C] /\ Len(s) \in Nat
  <2>1. Replaced(s) \in [1..Len(s) -> C]
    BY <1>1, <1>2, Zenon
  <2> QED
    BY <2>1
<1>4. Replaced(s) \in Seq(C) /\ Len(Replaced(s)) = Len(s)
  BY <1>3
<1>5. \A i \in 1..Len(s) : Replaced(s)[i] =
        IF InEscape(s, i) THEN "" ELSE IF s[i] = "r" THEN "n" ELSE s[i]
  BY <1>2
<1> QED
  BY <1>4, <1>5 DEF C

LEMMA StrippedType ==
  ASSUME NEW B \in SUBSET Bytes, NEW s \in Seq(B)
  PROVE  Stripped(s) \in Seq((B \cup {"n"}) \ {"r"}) /\ Stripped(s) \in Seq(Bytes)
<1> DEFINE C == (B \cup {"n", ""}) \ {"r"}  D == (B \cup {"n"}) \ {"r"}
<1>1. Selected(Replaced(s), Bytes) \in Seq(C \cap Bytes)
  <2>1. Replaced(s) \in Seq(C)
    BY ReplacedType
  <2> HIDE DEF C
  <2> QED
    BY <2>1, SelectedType
<1>2. C \cap Bytes \subseteq D /\ C \cap Bytes \subseteq Bytes
  BY PromptType
<1> HIDE DEF C, D
<1>3. Selected(Replaced(s), Bytes) \in Seq(D)
  BY <1>1, <1>2, SeqMonotonic
<1>4. Selected(Replaced(s), Bytes) \in Seq(Bytes)
  BY <1>1, <1>2, SeqMonotonic
<1> QED
  BY <1>3, <1>4 DEF Stripped, D

LEMMA StrippedBytes == \A s \in Seq(Bytes) : Stripped(s) \in Seq(Bytes)
<1>1. Bytes \in SUBSET Bytes
  OBVIOUS
<1> QED
  BY <1>1, StrippedType

\* Text that does not meet within an escape sequence is stripped piece by piece.
LEMMA StrippedConcat ==
  ASSUME NEW s \in Seq(Bytes), NEW t \in Seq(Bytes), ~Seam(s, t)
  PROVE  Stripped(s \o t) = Stripped(s) \o Stripped(t)
<1> DEFINE C == (Bytes \cup {"n", ""}) \ {"r"}
           u == s \o t  a == Replaced(u)  b == Replaced(s) \o Replaced(t)
<1>1. /\ u \in Seq(Bytes) /\ Len(u) = Len(s) + Len(t) /\ Len(s) \in Nat /\ Len(t) \in Nat
      /\ \A i \in 1..Len(s) : u[i] = s[i]
      /\ \A i \in 1..Len(t) : u[Len(s) + i] = t[i]
  BY Concat
<1> HIDE DEF u
<1>2. Bytes \in SUBSET Bytes
  OBVIOUS
<1>3. /\ a \in Seq(C) /\ Len(a) = Len(u)
      /\ \A i \in 1..Len(u) : a[i] =
           IF InEscape(u, i) THEN "" ELSE IF u[i] = "r" THEN "n" ELSE u[i]
  BY <1>1, <1>2, ReplacedType
<1>4. /\ Replaced(s) \in Seq(C) /\ Len(Replaced(s)) = Len(s)
      /\ \A i \in 1..Len(s) : Replaced(s)[i] =
           IF InEscape(s, i) THEN "" ELSE IF s[i] = "r" THEN "n" ELSE s[i]
  BY <1>2, ReplacedType
<1>5. /\ Replaced(t) \in Seq(C) /\ Len(Replaced(t)) = Len(t)
      /\ \A i \in 1..Len(t) : Replaced(t)[i] =
           IF InEscape(t, i) THEN "" ELSE IF t[i] = "r" THEN "n" ELSE t[i]
  BY <1>2, ReplacedType
<1> HIDE DEF C
<1>6. /\ b \in Seq(C) /\ Len(b) = Len(s) + Len(t)
      /\ \A i \in 1..Len(s) : b[i] = Replaced(s)[i]
      /\ \A i \in 1..Len(t) : b[Len(s) + i] = Replaced(t)[i]
  <2>1. /\ b \in Seq(C) /\ Len(b) = Len(Replaced(s)) + Len(Replaced(t))
        /\ \A i \in 1..Len(Replaced(s)) : b[i] = Replaced(s)[i]
        /\ \A i \in 1..Len(Replaced(t)) : b[Len(Replaced(s)) + i] = Replaced(t)[i]
    <3>1. Replaced(s) \in Seq(C) /\ Replaced(t) \in Seq(C)
      BY <1>4, <1>5
    <3> QED
      BY <3>1, Concat
  <2> HIDE DEF b
  <2> QED
    BY <1>4, <1>5, <2>1
<1> HIDE DEF a, b
<1>7. ASSUME NEW i \in 1..Len(s) PROVE InEscape(u, i) <=> InEscape(s, i)
  <2>1. CASE i < Len(s)
    <3>1. i \in 1..Len(s) /\ i + 1 \in 1..Len(s) /\ (i > 1 => i - 1 \in 1..Len(s)) /\ i < Len(u)
      BY <1>1, <2>1
    <3> QED
      BY <1>1, <2>1, <3>1 DEF InEscape
  <2>2. CASE i = Len(s)
    <3>1. s # <<>> /\ (i > 1 => i - 1 \in 1..Len(s)) /\ ~(i < Len(s))
      BY <1>1, <2>2
    <3>2. i < Len(u) => t # <<>> /\ u[i + 1] = t[1]
      <4> SUFFICES ASSUME i < Len(u) PROVE t # <<>> /\ u[i + 1] = t[1]
        OBVIOUS
      <4>1. 1 \in 1..Len(t)
        BY <1>1, <2>2
      <4>2. u[Len(s) + 1] = t[1]
        BY <1>1, <4>1
      <4> QED
        BY <2>2, <4>1, <4>2
    <3>3. i < Len(u) => ~(s[i] = "e" /\ u[i + 1] = "m")
      BY <2>2, <3>1, <3>2 DEF Seam
    <3>4. u[i] = s[i] /\ (i > 1 => u[i - 1] = s[i - 1])
      BY <1>1, <3>1
    <3> QED
      BY <3>1, <3>3, <3>4 DEF InEscape
  <2> QED
    BY <2>1, <2>2
<1>8. ASSUME NEW i \in 1..Len(t) PROVE InEscape(u, Len(s) + i) <=> InEscape(t, i)
  <2> DEFINE j == Len(s) + i
  <2>1. /\ j \in Nat /\ (i < Len(t) <=> j < Len(u)) /\ u[j] = t[i]
    BY <1>1
  <2>2. i < Len(t) => u[j + 1] = t[i + 1]
    <3> SUFFICES ASSUME i < Len(t) PROVE u[j + 1] = t[i + 1]
      OBVIOUS
    <3>1. i + 1 \in 1..Len(t) /\ j + 1 = Len(s) + (i + 1)
      BY <1>1
    <3> QED
      BY <1>1, <3>1
  <2>3. CASE i > 1
    <3>1. i - 1 \in 1..Len(t) /\ j - 1 = Len(s) + (i - 1) /\ j > 1
      BY <1>1, <2>3
    <3>2. u[j - 1] = t[i - 1]
      BY <1>1, <3>1
    <3> HIDE DEF j
    <3> QED
      BY <2>1, <2>2, <2>3, <3>1, <3>2 DEF InEscape
  <2>4. CASE i = 1
    <3>1. ~(j > 1 /\ u[j - 1] = "e" /\ u[j] = "m")
      <4> SUFFICES ASSUME j > 1, u[j - 1] = "e", u[j] = "m" PROVE FALSE
        OBVIOUS
      <4>1. Len(s) \in 1..Len(s) /\ j - 1 = Len(s) /\ s # <<>> /\ t # <<>>
        BY <1>1, <2>4
      <4> QED
        BY <1>1, <2>1, <2>4, <4>1 DEF Seam
    <3>2. ~(i > 1) /\ 1 = i
      BY <2>4
    <3> HIDE DEF j
    <3> QED
      <4>1. InEscape(u, j) <=> j < Len(u) /\ u[j] = "e" /\ u[j + 1] = "m"
        BY <3>1 DEF InEscape
      <4>2. InEscape(t, i) <=> i < Len(t) /\ t[i] = "e" /\ t[i + 1] = "m"
        BY <3>2 DEF InEscape
      <4> QED
        BY <2>1, <2>2, <4>1, <4>2 DEF j
  <2> QED
    BY <2>3, <2>4
<1>12. Len(a) = Len(u) /\ Len(a) = Len(b) /\ Len(u) = Len(s) + Len(t) /\ Len(s) \in Nat /\ Len(t) \in Nat
  BY <1>1, <1>3, <1>6
<1>9. ASSUME NEW i \in 1..Len(a) PROVE a[i] = b[i]
  <2>1. CASE i <= Len(s)
    <3>1. i \in 1..Len(s) /\ i \in 1..Len(u)
      BY <1>12, <2>1
    <3> QED
      BY <1>1, <1>3, <1>4, <1>6, <1>7, <3>1
  <2>2. CASE i > Len(s)
    <3>1. i - Len(s) \in 1..Len(t) /\ i \in 1..Len(u) /\ Len(s) + (i - Len(s)) = i
      <4>1. i \in Nat /\ i <= Len(s) + Len(t) /\ Len(s) \in Nat /\ Len(t) \in Nat
        <5>1. Len(a) = Len(s) + Len(t) /\ Len(s) \in Nat /\ Len(t) \in Nat
          BY <1>12, Zenon
        <5>2. Len(a) \in Nat
          BY <5>1
        <5> QED
          BY <5>1, <5>2
      <4>2. i \in 1..Len(u)
        BY <1>12
      <4> HIDE DEF a, b
      <4>3. i - Len(s) \in 1..Len(t)
        BY <2>2, <4>1
      <4>4. Len(s) + (i - Len(s)) = i
        BY <4>1
      <4> QED
        BY <4>2, <4>3, <4>4
    <3> DEFINE k == i - Len(s)
    <3>2. a[i] = IF InEscape(u, i) THEN "" ELSE IF u[i] = "r" THEN "n" ELSE u[i]
      BY <1>3, <3>1
    <3>3. b[i] = Replaced(t)[k] /\ u[i] = t[k] /\ (InEscape(u, i) <=> InEscape(t, k))
      BY <1>1, <1>6, <1>8, <3>1
    <3>4. Replaced(t)[k] = IF InEscape(t, k) THEN "" ELSE IF t[k] = "r" THEN "n" ELSE t[k]
      BY <1>5, <3>1
    <3> HIDE DEF k
    <3> QED
      BY <3>2, <3>3, <3>4
  <2> QED
    BY <2>1, <2>2, <1>12
<1>10. a = b
  <2>1. a \in Seq(C) /\ b \in Seq(C)
    BY <1>3, <1>6
  <2> QED
    BY <1>9, <1>12, <2>1, SeqEqual
<1>11. Selected(b, Bytes) = Selected(Replaced(s), Bytes) \o Selected(Replaced(t), Bytes)
  <2>1. Replaced(s) \in Seq(C) /\ Replaced(t) \in Seq(C)
    BY <1>4, <1>5
  <2> QED
    BY <2>1, SelectedConcat DEF b
<1> QED
  BY <1>10, <1>11 DEF Stripped, a, u

LEMMA StrippedEmpty == Stripped(<<>>) = <<>>
<1>1. <<>> \in Seq(Bytes) /\ Bytes \in SUBSET Bytes /\ Len(<<>>) = 0
  OBVIOUS
<1>2. Replaced(<<>>) \in Seq((Bytes \cup {"n", ""}) \ {"r"}) /\ Len(Replaced(<<>>)) = 0
  BY <1>1, ReplacedType
<1>3. Replaced(<<>>) = <<>>
  BY <1>2, EmptySeq
<1> QED
  BY <1>3, SelectedEmpty DEF Stripped

\* Bytes without escape sequences or carriage returns stay as they are.
LEMMA StrippedClean ==
  ASSUME NEW s \in Seq(Bytes), \A i \in 1..Len(s) : ~InEscape(s, i) /\ s[i] # "r"
  PROVE  Stripped(s) = s
<1>1. /\ Replaced(s) \in Seq((Bytes \cup {"n", ""}) \ {"r"}) /\ Len(Replaced(s)) = Len(s)
      /\ \A i \in 1..Len(s) : Replaced(s)[i] =
           IF InEscape(s, i) THEN "" ELSE IF s[i] = "r" THEN "n" ELSE s[i]
  <2>1. Bytes \in SUBSET Bytes
    OBVIOUS
  <2> QED
    BY <2>1, ReplacedType
<1> DEFINE C == Bytes \cup {"n", ""}
<1>2. Replaced(s) \in Seq(C) /\ s \in Seq(C)
  <2>1. (Bytes \cup {"n", ""}) \ {"r"} \subseteq C /\ Bytes \subseteq C
    OBVIOUS
  <2> HIDE DEF C
  <2> QED
    BY <1>1, <2>1, SeqMonotonic
<1>3. \A i \in 1..Len(Replaced(s)) : Replaced(s)[i] = s[i]
  BY <1>1
<1> HIDE DEF C
<1>4. Replaced(s) = s
  BY <1>1, <1>2, <1>3, SeqEqual
<1>5. \A i \in 1..Len(s) : s[i] \in Bytes
  OBVIOUS
<1>6. Selected(s, Bytes) = s
  BY <1>2, <1>5, SelectedAll
<1> QED
  BY <1>4, <1>6 DEF Stripped

LEMMA StrippedIsClean ==
  ASSUME NEW s \in Seq(Clean)
  PROVE  Stripped(s) = s /\ s \in Seq(Bytes)
<1>1. s \in Seq(Bytes)
  BY SeqMonotonic DEF Clean
<1>2. ASSUME NEW i \in 1..Len(s) PROVE ~InEscape(s, i) /\ s[i] # "r"
  <2>1. s[i] \in Clean /\ (i < Len(s) => s[i + 1] \in Clean)
    OBVIOUS
  <2> QED
    BY <2>1 DEF InEscape, Clean
<1> QED
  BY <1>1, <1>2, StrippedClean

\* A whole escape sequence goes.
LEMMA StrippedEscape ==
  ASSUME NEW s \in Seq(Bytes), NEW t \in Seq(Bytes)
  PROVE  Stripped(s \o (<<"e", "m">> \o t)) = Stripped(s) \o Stripped(t)
<1> DEFINE esc == <<"e", "m">>  u == esc \o t
<1>1. esc \in Seq(Bytes) /\ Len(esc) = 2 /\ esc[1] = "e" /\ esc[2] = "m"
  <2>1. "e" \in Bytes /\ "m" \in Bytes
    BY PromptType DEF Plain
  <2> QED
    BY <2>1
<1> HIDE DEF esc
<1>2. u \in Seq(Bytes) /\ u # <<>> /\ u[1] = "e"
  <2>1. /\ u \in Seq(Bytes) /\ Len(u) = Len(esc) + Len(t) /\ Len(t) \in Nat
        /\ \A i \in 1..Len(esc) : u[i] = esc[i]
    BY <1>1, Concat
  <2> HIDE DEF u
  <2>2. 1 \in 1..Len(esc) /\ Len(u) # 0
    BY <1>1, <2>1
  <2> QED
    BY <1>1, <2>1, <2>2
<1>3. Stripped(s \o u) = Stripped(s) \o Stripped(u)
  <2> HIDE DEF u
  <2>1. ~Seam(s, u)
    BY <1>2 DEF Seam
  <2> QED
    BY <1>2, <2>1, StrippedConcat
<1>4. Stripped(u) = Stripped(esc) \o Stripped(t)
  <2>1. ~Seam(esc, t)
    BY <1>1 DEF Seam
  <2> QED
    BY <1>1, <2>1, StrippedConcat
<1>5. Stripped(esc) = <<>>
  <2>1. /\ Replaced(esc) \in Seq((Bytes \cup {"n", ""}) \ {"r"}) /\ Len(Replaced(esc)) = Len(esc)
        /\ \A i \in 1..Len(esc) : Replaced(esc)[i] =
             IF InEscape(esc, i) THEN "" ELSE IF esc[i] = "r" THEN "n" ELSE esc[i]
    <3>1. Bytes \in SUBSET Bytes
      OBVIOUS
    <3> QED
      BY <1>1, <3>1, ReplacedType
  <2>2. \A i \in 1..Len(esc) : i = 1 \/ i = 2
    BY <1>1
  <2>3. InEscape(esc, 1) /\ InEscape(esc, 2)
    BY <1>1 DEF InEscape
  <2>4. \A i \in 1..Len(Replaced(esc)) : Replaced(esc)[i] \notin Bytes
    BY <2>1, <2>2, <2>3, PromptType
  <2> QED
    BY <2>1, <2>4, SelectedNone DEF Stripped
<1>6. Stripped(t) \in Seq(Bytes)
  <2>1. Bytes \in SUBSET Bytes
    OBVIOUS
  <2> QED
    BY <2>1, StrippedType
<1>7. <<>> \o Stripped(t) = Stripped(t)
  BY <1>6, ConcatEmptySeq
<1> QED
  BY <1>3, <1>4, <1>5, <1>7 DEF u, esc

\* A clean text, in a place of its own, goes through as it is.
LEMMA StrippedTail ==
  ASSUME NEW s \in Seq(Bytes), NEW p \in Seq(Clean)
  PROVE  Stripped(s \o p) = Stripped(s) \o p
<1>1. p \in Seq(Bytes) /\ Stripped(p) = p
  BY StrippedIsClean
<1>2. p # <<>> => p[1] # "m"
  <2> SUFFICES ASSUME p # <<>> PROVE p[1] # "m"
    OBVIOUS
  <2>1. 1 \in 1..Len(p)
    BY EmptySeq
  <2>2. p[1] \in Clean
    BY <2>1
  <2> QED
    BY <2>2 DEF Clean
<1>3. ~Seam(s, p)
  BY <1>2 DEF Seam
<1>4. Stripped(s \o p) = Stripped(s) \o Stripped(p)
  BY <1>1, <1>3, StrippedConcat
<1> QED
  BY <1>1, <1>4

\* Escape sequences come in their two halves, and the last may be cut.
Paired(s) ==
  \A i \in 1..Len(s) : /\ s[i] = "e" /\ i < Len(s) => s[i + 1] = "m"
                       /\ s[i] = "m" => i > 1 /\ s[i - 1] = "e"

EndsInEscape(s) == s # <<>> /\ s[Len(s)] = "e"

\* What was read of such a text is such a text, and the rest begins with a second half or not.
LEMMA PairedPrefix ==
  ASSUME NEW s \in Seq(Bytes), NEW t \in Seq(Bytes), Paired(s \o t)
  PROVE  /\ Paired(s)
         /\ EndsInEscape(s) /\ t # <<>> => t[1] = "m"
         /\ ~EndsInEscape(s) /\ t # <<>> => t[1] # "m"
<1> DEFINE u == s \o t
<1>1. /\ u \in Seq(Bytes) /\ Len(u) = Len(s) + Len(t) /\ Len(s) \in Nat /\ Len(t) \in Nat
      /\ \A i \in 1..Len(s) : u[i] = s[i]
      /\ \A i \in 1..Len(t) : u[Len(s) + i] = t[i]
  BY Concat
<1>2. Paired(u)
  OBVIOUS
<1> HIDE DEF u
<1>3. Paired(s)
  <2> SUFFICES ASSUME NEW i \in 1..Len(s)
               PROVE  /\ s[i] = "e" /\ i < Len(s) => s[i + 1] = "m"
                      /\ s[i] = "m" => i > 1 /\ s[i - 1] = "e"
    BY DEF Paired
  <2>1. i \in 1..Len(u) /\ (i < Len(s) => i + 1 \in 1..Len(s) /\ i < Len(u))
    BY <1>1
  <2>2. /\ u[i] = "e" /\ i < Len(u) => u[i + 1] = "m"
        /\ u[i] = "m" => i > 1 /\ u[i - 1] = "e"
    BY <1>2, <2>1 DEF Paired
  <2>3. i > 1 => i - 1 \in 1..Len(s)
    BY <1>1
  <2> QED
    BY <1>1, <2>1, <2>2, <2>3
<1>4. t # <<>> => 1 \in 1..Len(t) /\ Len(s) + 1 \in 1..Len(u) /\ u[Len(s) + 1] = t[1]
  <2> SUFFICES ASSUME t # <<>>
               PROVE  1 \in 1..Len(t) /\ Len(s) + 1 \in 1..Len(u) /\ u[Len(s) + 1] = t[1]
    OBVIOUS
  <2>1. Len(t) >= 1
    BY <1>1, EmptySeq
  <2>2. 1 \in 1..Len(t)
    BY <1>1, <2>1
  <2> QED
    BY <1>1, <2>1, <2>2
<1>5. s # <<>> => Len(s) \in 1..Len(s) /\ u[Len(s)] = s[Len(s)]
  <2> SUFFICES ASSUME s # <<>> PROVE Len(s) \in 1..Len(s) /\ u[Len(s)] = s[Len(s)]
    OBVIOUS
  <2>1. Len(s) >= 1
    BY <1>1, EmptySeq
  <2> QED
    BY <1>1, <2>1
<1>6. ASSUME EndsInEscape(s), t # <<>> PROVE t[1] = "m"
  <2>1. Len(s) \in 1..Len(u) /\ Len(s) < Len(u) /\ u[Len(s)] = "e"
    BY <1>1, <1>4, <1>5, <1>6 DEF EndsInEscape
  <2> QED
    BY <1>2, <1>4, <1>6, <2>1 DEF Paired
<1>7. ASSUME ~EndsInEscape(s), t # <<>>, t[1] = "m" PROVE FALSE
  <2> DEFINE j == Len(s) + 1
  <2>1. j \in 1..Len(u) /\ u[j] = "m" /\ j - 1 = Len(s)
    BY <1>1, <1>4, <1>7
  <2> HIDE DEF j
  <2>2. j > 1 /\ u[j - 1] = "e"
    BY <1>2, <2>1 DEF Paired
  <2>3. Len(s) # 0
    BY <1>1, <2>1, <2>2
  <2>4. s # <<>>
    BY <2>3
  <2> QED
    BY <1>5, <1>7, <2>1, <2>2, <2>4 DEF EndsInEscape
<1> QED
  BY <1>3, <1>6, <1>7

\* With no sequence left in halves nothing of an escape sequence is left.
LEMMA WholeIsClean ==
  ASSUME NEW s \in Seq(Bytes), Paired(s), ~EndsInEscape(s)
  PROVE  Stripped(s) \in Seq(Clean)
<1> DEFINE C == Clean \cup {""}
<1>1. /\ Replaced(s) \in Seq((Bytes \cup {"n", ""}) \ {"r"}) /\ Len(Replaced(s)) = Len(s)
      /\ \A i \in 1..Len(s) : Replaced(s)[i] =
           IF InEscape(s, i) THEN "" ELSE IF s[i] = "r" THEN "n" ELSE s[i]
  <2>1. Bytes \in SUBSET Bytes
    OBVIOUS
  <2> QED
    BY <2>1, ReplacedType
<1>2. ASSUME NEW i \in 1..Len(s) PROVE Replaced(s)[i] \in C
  <2>1. s[i] \in Bytes /\ "n" \in Clean
    <3>1. "n" \in Bytes
      BY PromptType DEF Plain
    <3> QED
      BY <3>1 DEF Clean
  <2>2. s[i] = "e" => InEscape(s, i)
    <3> SUFFICES ASSUME s[i] = "e" PROVE InEscape(s, i)
      OBVIOUS
    <3>1. i < Len(s)
      BY DEF EndsInEscape
    <3> QED
      BY <3>1 DEF Paired, InEscape
  <2>3. s[i] = "m" => InEscape(s, i)
    BY DEF Paired, InEscape
  <2> QED
    BY <1>1, <2>1, <2>2, <2>3 DEF Clean
<1> HIDE DEF C
<1>3. Replaced(s) \in Seq(C)
  <2>1. \A i \in 1..Len(Replaced(s)) : Replaced(s)[i] \in C
    BY <1>1, <1>2
  <2> QED
    BY <1>1, <2>1, Retyped
<1>4. Selected(Replaced(s), Bytes) \in Seq(C \cap Bytes)
  BY <1>3, SelectedType
<1>5. C \cap Bytes \subseteq Clean
  BY PromptType DEF C, Clean
<1> QED
  BY <1>4, <1>5, SeqMonotonic DEF Stripped

LEMMA LastSplit ==
  ASSUME NEW Byte, NEW s \in Seq(Byte), s # <<>>
  PROVE  \E t \in Seq(Byte) : s = t \o <<s[Len(s)]>> /\ s[Len(s)] \in Byte
<1>1. PICK t \in Seq(Byte), e \in Byte : s = Append(t, e)
  BY SequenceEmptyOrAppend
<1>2. s[Len(s)] = e /\ s = t \o <<e>>
  BY <1>1
<1> QED
  BY <1>2

LEMMA FirstSplit ==
  ASSUME NEW Byte, NEW s \in Seq(Byte), s # <<>>
  PROVE  \E t \in Seq(Byte) : s = <<s[1]>> \o t
<1>1. Len(s) >= 1 /\ Len(s) \in Nat
  BY EmptySeq
<1>2. First(s, 1) = <<s[1]>>
  <2>1. First(s, 1) = SubSeq(s, 1, 1)
    BY <1>1 DEF First
  <2> QED
    BY <1>1, <2>1
<1>3. First(s, 1) \o But(s, 1) = s /\ But(s, 1) \in Seq(Byte)
  BY Joined, ButPiece
<1> QED
  BY <1>2, <1>3

LEMMA BytesAssoc == \A s, t, u \in Seq(Bytes) : (s \o t) \o u = s \o (t \o u)
BY ConcatAssociative

LEMMA LastUnique ==
  ASSUME NEW s \in Seq(Bytes), NEW t \in Seq(Bytes), NEW e \in Bytes, NEW f \in Bytes,
         Append(s, e) = Append(t, f)
  PROVE  s = t /\ e = f
BY AppendInjective

\* The two halves of an escape sequence go together.
LEMMA HalvesMeet ==
  ASSUME NEW w \in Seq(Bytes), NEW t \in Seq(Bytes)
  PROVE  Stripped((w \o <<"e">>) \o (<<"m">> \o t)) = Stripped(w) \o Stripped(t)
<1> DEFINE half == <<"e">>  rest == <<"m">>
<1>1. half \in Seq(Bytes) /\ rest \in Seq(Bytes) /\ "m" \in Bytes
  <2>1. "e" \in Bytes /\ "m" \in Bytes
    BY PromptType DEF Plain
  <2> QED
    BY <2>1
<1>2. half \o rest = <<"e", "m">>
  <2>1. Append(half, "m") = <<"e", "m">>
    <3> DEFINE a == Append(half, "m")  b == <<"e", "m">>
    <3>1. /\ a \in Seq(Bytes) /\ b \in Seq(Bytes) /\ Len(a) = 2 /\ Len(b) = 2
          /\ a[1] = "e" /\ a[2] = "m" /\ b[1] = "e" /\ b[2] = "m"
      BY <1>1
    <3> HIDE DEF a, b
    <3>2. \A i \in 1..Len(a) : i = 1 \/ i = 2
      BY <3>1
    <3>3. \A i \in 1..Len(a) : a[i] = b[i]
      BY <3>1, <3>2
    <3>4. a = b
      BY <3>1, <3>3, SeqEqual
    <3> QED
      BY <3>4 DEF a, b
  <2>2. Append(half, "m") = half \o <<"m">>
    BY <1>1, AppendIsConcat
  <2> QED
    BY <2>1, <2>2
<1> HIDE DEF half, rest
<1>3. rest \o t \in Seq(Bytes)
  BY <1>1, Concat
<1>4. (w \o half) \o (rest \o t) = w \o (half \o (rest \o t))
  BY <1>1, <1>3, BytesAssoc, Zenon
<1>5. (half \o rest) \o t = half \o (rest \o t)
  BY <1>1, BytesAssoc, Zenon
<1>6. Stripped(w \o ((half \o rest) \o t)) = Stripped(w) \o Stripped(t)
  BY <1>2, StrippedEscape
<1> QED
  BY <1>4, <1>5, <1>6 DEF half, rest

\* Half an escape sequence stays, until the rest is there.
LEMMA HalfKept ==
  ASSUME NEW w \in Seq(Bytes)
  PROVE  Stripped(w \o <<"e">>) = Stripped(w) \o <<"e">>
<1> DEFINE half == <<"e">>
<1>1. half \in Seq(Bytes) /\ half[1] = "e" /\ Len(half) = 1
  <2>1. "e" \in Bytes
    BY PromptType DEF Plain
  <2> QED
    BY <2>1
<1> HIDE DEF half
<1>2. ~Seam(w, half)
  BY <1>1 DEF Seam
<1>3. Stripped(half) = half
  <2>1. \A i \in 1..Len(half) : i = 1
    BY <1>1
  <2>2. ~InEscape(half, 1) /\ half[1] # "r"
    BY <1>1 DEF InEscape
  <2> QED
    BY <1>1, <2>1, <2>2, StrippedClean
<1>4. Stripped(w \o half) = Stripped(w) \o Stripped(half)
  BY <1>1, <1>2, StrippedConcat
<1> QED
  BY <1>3, <1>4 DEF half

\* How much of a text that ends in half an escape sequence may yet go.
Slack(s) == IF EndsInEscape(s) THEN 1 ELSE 0

LEMMA SlackOf ==
  ASSUME NEW s \in Seq(Bytes), NEW t \in Seq(Bytes)
  PROVE  /\ t # <<>> => Slack(s \o t) = Slack(t)
         /\ Slack(t) <= Len(Stripped(t)) /\ Slack(t) \in Nat /\ Len(Stripped(t)) \in Nat
<1>1. ASSUME t # <<>> PROVE Slack(s \o t) = Slack(t)
  <2> DEFINE u == s \o t
  <2>1. /\ u \in Seq(Bytes) /\ Len(u) = Len(s) + Len(t) /\ Len(s) \in Nat /\ Len(t) \in Nat
        /\ \A i \in 1..Len(t) : u[Len(s) + i] = t[i]
    BY Concat
  <2>2. Len(t) \in 1..Len(t)
    BY <1>1, EmptySeq
  <2> HIDE DEF u
  <2>3. u[Len(u)] = t[Len(t)] /\ u # <<>>
    BY <2>1, <2>2
  <2>4. Slack(u) = Slack(t)
    BY <1>1, <2>3 DEF Slack, EndsInEscape
  <2> QED
    BY <2>4 DEF u
<1>2. Stripped(t) \in Seq(Bytes)
  BY StrippedBytes
<1>3. ASSUME EndsInEscape(t) PROVE Len(Stripped(t)) >= 1
  <2>1. PICK w \in Seq(Bytes) : t = w \o <<"e">>
    BY <1>3, LastSplit DEF EndsInEscape
  <2> DEFINE z == Stripped(w)
  <2>2. z \in Seq(Bytes) /\ Stripped(t) = z \o <<"e">>
    BY <2>1, HalfKept, StrippedBytes
  <2> HIDE DEF z
  <2>3. Len(z \o <<"e">>) = Len(z) + 1 /\ Len(z) \in Nat
    BY <2>2
  <2> QED
    BY <2>2, <2>3
<1> QED
  BY <1>1, <1>2, <1>3 DEF Slack

\* z in two pieces.
Pieces(z, d, c) == d \in Seq(Bytes) /\ c \in Seq(Bytes) /\ z = d \o c

\* What is kept back when a text ends in half an escape sequence: the half, or everything was stored.
LEMMA LastKept ==
  ASSUME NEW z, NEW d, NEW c
  PROVE  z \in Seq(Bytes) /\ Pieces(z \o <<"e">>, d, c)
           => \/ c = <<>> /\ d # <<>>
              \/ \E b : Pieces(z, d, b) /\ c = b \o <<"e">>
<1>0. SUFFICES ASSUME z \in Seq(Bytes), d \in Seq(Bytes), c \in Seq(Bytes), z \o <<"e">> = d \o c
               PROVE  \/ c = <<>> /\ d # <<>>
                      \/ \E b : Pieces(z, d, b) /\ c = b \o <<"e">>
  BY DEF Pieces
<1>1. z \o <<"e">> = Append(z, "e") /\ "e" \in Bytes
  <2>1. "e" \in Bytes /\ z \in Seq(Bytes)
    BY <1>0, PromptType DEF Plain
  <2> QED
    BY <2>1
<1>2. CASE c = <<>>
  <2>1. d \o c = d
    BY <1>0, <1>2
  <2>2. Append(z, "e") # <<>>
    BY <1>0, <1>1
  <2> QED
    BY <1>0, <1>1, <1>2, <2>1, <2>2
<1>3. CASE c # <<>>
  <2>1. PICK b, e : b \in Seq(Bytes) /\ e \in Bytes /\ c = Append(b, e)
    BY <1>0, <1>3, SequenceEmptyOrAppend
  <2> DEFINE v == d \o b
  <2>2. v \in Seq(Bytes) /\ d \o Append(b, e) = Append(v, e)
    <3>1. d \in Seq(Bytes)
      BY <1>0
    <3>2. b \in Seq(Bytes) /\ e \in Bytes
      BY <2>1
    <3> QED
      BY <3>1, <3>2
  <2> HIDE DEF v
  <2>3. Append(z, "e") = Append(v, e)
    BY <1>0, <1>1, <2>1, <2>2
  <2>4. z = v /\ e = "e"
    BY <1>0, <1>1, <2>1, <2>2, <2>3, LastUnique
  <2>5. b \o <<"e">> = Append(b, "e")
    BY <1>1, <2>1
  <2>6. c = b \o <<"e">>
    BY <2>1, <2>4, <2>5
  <2>7. Pieces(z, d, b)
    BY <1>0, <2>1, <2>4 DEF v, Pieces
  <2> QED
    BY <2>6, <2>7
<1> QED
  BY <1>2, <1>3

\* What is kept back of a clean text stays as it is, and what comes after goes behind it.
Clear(z, t, d, c) == Stripped(c) = c /\ z \o Stripped(t) = d \o (c \o Stripped(t))

LEMMA ResumeClean ==
  ASSUME NEW z, NEW t, NEW d, NEW c
  PROVE  t \in Seq(Bytes) /\ z \in Seq(Clean) /\ Pieces(z, d, c) => Clear(z, t, d, c)
<1>0. SUFFICES ASSUME t \in Seq(Bytes), d \in Seq(Bytes), c \in Seq(Bytes),
                      z = d \o c, z \in Seq(Clean)
               PROVE  Stripped(c) = c /\ z \o Stripped(t) = d \o (c \o Stripped(t))
  BY DEF Pieces, Clear
<1>1. \A i \in 1..Len(c) : c[i] \in Clean
  <2> DEFINE u == d \o c
  <2>1. \A i \in 1..Len(c) : u[Len(d) + i] = c[i] /\ Len(d) + i \in 1..Len(u)
    <3>1. d \in Seq(Bytes) /\ c \in Seq(Bytes)
      BY <1>0
    <3> QED
      BY <3>1
  <2>2. u \in Seq(Clean)
    BY <1>0
  <2> HIDE DEF u
  <2>3. \A j \in 1..Len(u) : u[j] \in Clean
    BY <2>2
  <2> QED
    BY <2>1, <2>3
<1>2. c \in Seq(Clean)
  <2>1. c \in Seq(Bytes)
    BY <1>0
  <2> QED
    BY <1>1, <2>1, Retyped
<1>3. Stripped(c) = c
  BY <1>2, StrippedIsClean
<1>4. (d \o c) \o Stripped(t) = d \o (c \o Stripped(t))
  <2> DEFINE x == Stripped(t)
  <2>1. x \in Seq(Bytes)
    BY <1>0, StrippedBytes
  <2>2. d \in Seq(Bytes) /\ c \in Seq(Bytes)
    BY <1>0
  <2> HIDE DEF x
  <2>3. (d \o c) \o x = d \o (c \o x)
    BY <2>1, <2>2, BytesAssoc, Zenon
  <2> QED
    BY <2>3 DEF x
<1>5. z = d \o c
  BY <1>0
<1> QED
  BY <1>3, <1>4, <1>5, Zenon

\* Resumed between the halves of an escape sequence.
LEMMA ResumeHalf ==
  ASSUME NEW w, NEW t, NEW d, NEW c
  PROVE  /\ w \in Seq(Bytes) /\ t \in Seq(Bytes)
         /\ Stripped(w) \in Seq(Clean) /\ Pieces(Stripped(w), d, c)
      => /\ Stripped((w \o <<"e">>) \o (<<"m">> \o t)) = d \o Stripped((c \o <<"e">>) \o (<<"m">> \o t))
         /\ Stripped((c \o <<"e">>) \o (<<"m">> \o t)) = c \o Stripped(t)
<1>0. SUFFICES ASSUME w \in Seq(Bytes), t \in Seq(Bytes),
                      Stripped(w) \in Seq(Clean), Pieces(Stripped(w), d, c)
               PROVE  /\ Stripped((w \o <<"e">>) \o (<<"m">> \o t))
                           = d \o Stripped((c \o <<"e">>) \o (<<"m">> \o t))
                      /\ Stripped((c \o <<"e">>) \o (<<"m">> \o t)) = c \o Stripped(t)
  OBVIOUS
<1>1. Stripped(c) = c /\ Stripped(w) \o Stripped(t) = d \o (c \o Stripped(t))
  <2>1. Clear(Stripped(w), t, d, c)
    BY <1>0, ResumeClean
  <2> QED
    BY <2>1 DEF Clear
<1>2. w \in Seq(Bytes) /\ t \in Seq(Bytes) /\ c \in Seq(Bytes)
  BY <1>0 DEF Pieces
<1>3. Stripped((w \o <<"e">>) \o (<<"m">> \o t)) = Stripped(w) \o Stripped(t)
  BY <1>2, HalvesMeet, Zenon
<1>4. Stripped((c \o <<"e">>) \o (<<"m">> \o t)) = Stripped(c) \o Stripped(t)
  BY <1>2, HalvesMeet, Zenon
<1> QED
  BY <1>1, <1>3, <1>4, Zenon

\* What was kept back, scanned again with what comes next, is what the whole text has
\* from there on.
Resumed(s, t, d, c) ==
  /\ Pieces(Stripped(s \o t), d, Stripped(c \o t))
  /\ ~EndsInEscape(s) => Stripped(c \o t) = c \o Stripped(t)
  /\ Len(Stripped(c \o t)) + Slack(s) >= Len(c) + Slack(s \o t)

\* A scan that goes on from what the last one kept back gives what one scan of all would, when it
\* kept something back or nothing was stored; and it is no shorter, but for half an escape sequence.
LEMMA Resume ==
  ASSUME NEW s, NEW t, NEW d, NEW c
  PROVE  /\ s \in Seq(Bytes) /\ t \in Seq(Bytes) /\ t # <<>> /\ Paired(s \o t)
         /\ Pieces(Stripped(s), d, c) /\ (c = <<>> => d = <<>>)
      => Resumed(s, t, d, c)
<1>0. SUFFICES ASSUME s \in Seq(Bytes), t \in Seq(Bytes), t # <<>>, Paired(s \o t),
                      Pieces(Stripped(s), d, c), c = <<>> => d = <<>>
               PROVE  /\ Stripped(s \o t) = d \o Stripped(c \o t)
                      /\ ~EndsInEscape(s) => Stripped(c \o t) = c \o Stripped(t)
                      /\ Len(Stripped(c \o t)) + Slack(s) >= Len(c) + Slack(s \o t)
  <2>1. Pieces(Stripped(s), d, c) /\ t \in Seq(Bytes) =>
          d \in Seq(Bytes) /\ c \in Seq(Bytes) /\ Stripped(c \o t) \in Seq(Bytes)
    BY Concat, StrippedBytes DEF Pieces
  <2> QED
    BY <2>1 DEF Resumed, Pieces
<1>T. s \in Seq(Bytes) /\ t \in Seq(Bytes) /\ d \in Seq(Bytes) /\ c \in Seq(Bytes) /\ t # <<>>
  BY <1>0 DEF Pieces
<1>1. /\ Paired(s)
      /\ EndsInEscape(s) => t[1] = "m"
      /\ ~EndsInEscape(s) => t[1] # "m"
  BY <1>0, PairedPrefix
<1>2. CASE ~EndsInEscape(s)
  <2>1. ~Seam(s, t)
    BY <1>1, <1>2 DEF Seam
  <2>2. ~Seam(c, t)
    BY <1>1, <1>2 DEF Seam
  <2>3. Stripped(s \o t) = Stripped(s) \o Stripped(t)
    BY <1>T, <2>1, StrippedConcat, Zenon
  <2>4. Stripped(c \o t) = Stripped(c) \o Stripped(t)
    BY <1>T, <2>2, StrippedConcat, Zenon
  <2>5. Stripped(s) \in Seq(Clean)
    BY <1>T, <1>1, <1>2, WholeIsClean, Zenon
  <2>7. Stripped(c) = c /\ Stripped(s) \o Stripped(t) = d \o (c \o Stripped(t))
    <3>1. Clear(Stripped(s), t, d, c)
      BY <1>0, <2>5, ResumeClean
    <3> QED
      BY <3>1 DEF Clear
  <2>8. Stripped(s \o t) = d \o Stripped(c \o t) /\ Stripped(c \o t) = c \o Stripped(t)
    BY <2>3, <2>4, <2>7, Zenon
  <2>9. Len(Stripped(c \o t)) + Slack(s) >= Len(c) + Slack(s \o t)
    <3> DEFINE z == Stripped(t)
    <3>1. z \in Seq(Bytes) /\ c \in Seq(Bytes)
      BY <1>T, StrippedBytes
    <3>2. Slack(s \o t) = Slack(t) /\ Slack(t) <= Len(z) /\ Slack(t) \in Nat
      BY <1>T, SlackOf
    <3>3. Slack(s) = 0
      BY <1>2 DEF Slack
    <3> HIDE DEF z
    <3>4. Len(c \o z) = Len(c) + Len(z) /\ Len(c) \in Nat /\ Len(z) \in Nat
      BY <3>1
    <3>5. Stripped(c \o t) = c \o z
      BY <2>8 DEF z
    <3> QED
      BY <3>2, <3>3, <3>4, <3>5
  <2> QED
    BY <2>8, <2>9
<1>3. CASE EndsInEscape(s)
  <2>1. PICK w : w \in Seq(Bytes) /\ s = w \o <<"e">>
    <3>1. s # <<>> /\ s[Len(s)] = "e"
      BY <1>3 DEF EndsInEscape
    <3> QED
      BY <1>T, <3>1, LastSplit, Zenon
  <2>2. PICK v : v \in Seq(Bytes) /\ t = <<"m">> \o v
    <3>1. t[1] = "m"
      BY <1>1, <1>3
    <3>2. \E v \in Seq(Bytes) : t = <<t[1]>> \o v
      BY <1>T, FirstSplit, Zenon
    <3> QED
      BY <3>1, <3>2
  <2>3. <<"e">> \in Seq(Bytes) /\ <<"e">> # <<>> /\ <<"e">>[1] = "e" /\ "e" \in Bytes
    <3>1. "e" \in Bytes
      BY PromptType DEF Plain
    <3> QED
      BY <3>1
  <2>4. Paired(w) /\ ~EndsInEscape(w)
    <3>1. Paired(w \o <<"e">>) /\ w \in Seq(Bytes)
      BY <1>1, <2>1
    <3>2. Paired(w) /\ (EndsInEscape(w) => <<"e">>[1] = "m")
      BY <2>3, <3>1, PairedPrefix
    <3> QED
      BY <2>3, <3>2
  <2>5. Stripped(s) = Stripped(w) \o <<"e">>
    BY <2>1, HalfKept
  <2>6. Stripped(w) \in Seq(Bytes) /\ Stripped(w) \in Seq(Clean) /\ w \in Seq(Bytes)
    BY <2>1, <2>4, StrippedBytes, WholeIsClean, Zenon
  <2>7. PICK b : Pieces(Stripped(w), d, b) /\ c = b \o <<"e">>
    <3>1. Pieces(Stripped(w) \o <<"e">>, d, c)
      BY <1>0, <2>5
    <3>2. ~(c = <<>> /\ d # <<>>)
      BY <1>0
    <3> QED
      BY <2>6, <3>1, <3>2, LastKept
  <2>8. /\ Stripped((w \o <<"e">>) \o (<<"m">> \o v)) = d \o Stripped((b \o <<"e">>) \o (<<"m">> \o v))
        /\ Stripped((b \o <<"e">>) \o (<<"m">> \o v)) = b \o Stripped(v)
    BY <2>2, <2>6, <2>7, ResumeHalf
  <2>9. Stripped(s \o t) = d \o Stripped(c \o t) /\ Stripped(c \o t) = b \o Stripped(v)
    BY <2>1, <2>2, <2>7, <2>8, Zenon
  <2>10. Len(Stripped(c \o t)) + Slack(s) >= Len(c) + Slack(s \o t)
    <3> DEFINE z == Stripped(v)
    <3>1. z \in Seq(Bytes) /\ b \in Seq(Bytes) /\ v \in Seq(Bytes)
      BY <2>2, <2>7, StrippedBytes DEF Pieces
    <3>2. Slack(t) <= Len(z)
      <4>1. <<"m">> \in Seq(Bytes) /\ ~EndsInEscape(<<"m">>)
        <5>1. "m" \in Bytes
          BY PromptType DEF Plain
        <5> QED
          BY <5>1 DEF EndsInEscape
      <4>2. CASE v = <<>>
        <5>1. t = <<"m">>
          BY <2>2, <4>1, <4>2, ConcatEmptySeq
        <5> QED
          BY <3>1, <4>1, <5>1 DEF Slack
      <4>3. CASE v # <<>>
        <5>1. Slack(<<"m">> \o v) = Slack(v) /\ Slack(v) <= Len(z)
          BY <3>1, <4>1, <4>3, SlackOf
        <5> QED
          BY <2>2, <5>1
      <4> QED
        BY <4>2, <4>3
    <3>3. Slack(s \o t) = Slack(t) /\ Slack(t) \in Nat
      BY <1>T, SlackOf
    <3>4. Slack(s) = 1
      BY <1>3 DEF Slack
    <3> HIDE DEF z
    <3>5. Len(b \o z) = Len(b) + Len(z) /\ Len(b) \in Nat /\ Len(z) \in Nat
      BY <3>1
    <3>6. Len(b \o <<"e">>) = Len(b) + 1
      <4>1. b \in Seq(Bytes)
        BY <3>1
      <4> QED
        BY <2>3, <4>1
    <3>7. Stripped(c \o t) = b \o z /\ c = b \o <<"e">>
      BY <2>7, <2>9 DEF z
    <3> QED
      BY <3>2, <3>3, <3>4, <3>5, <3>6, <3>7
  <2> QED
    BY <1>3, <2>9, <2>10
<1> QED
  BY <1>2, <1>3

\* The least and the greatest of a set of positions.
LEMMA LowestIs ==
  ASSUME NEW S \in SUBSET Nat, S # {}
  PROVE  Lowest(S) \in S /\ \A j \in S : Lowest(S) <= j
<1>1. \E i \in S : \A j \in S : i <= j
  <2> SUFFICES ASSUME ~ \E i \in S : \A j \in S : i <= j PROVE FALSE
    OBVIOUS
  <2> DEFINE T == {n \in Nat : \A k \in 0..n : k \notin S}
  <2>1. 0 \in T
    <3>1. \A j \in S : 0 <= j
      OBVIOUS
    <3>2. 0 \notin S
      BY <3>1
    <3> QED
      BY <3>2
  <2>2. ASSUME NEW n \in Nat, n \in T PROVE n + 1 \in T
    <3>1. \A j \in S : n + 1 <= j
      BY <2>2
    <3>2. n + 1 \notin S
      BY <3>1
    <3> QED
      BY <2>2, <3>2
  <2>3. Nat \subseteq T
    <3> HIDE DEF T
    <3> QED
      BY <2>1, <2>2, Induction
  <2>4. PICK i \in S : TRUE
    OBVIOUS
  <2> QED
    BY <2>3, <2>4
<1> QED
  BY <1>1 DEF Lowest

LEMMA LowestOf ==
  ASSUME NEW S \in SUBSET Nat, NEW i \in S, \A j \in S : i <= j
  PROVE  Lowest(S) = i
<1>1. S # {}
  OBVIOUS
<1>2. Lowest(S) \in S /\ Lowest(S) <= i
  BY <1>1, LowestIs
<1>3. i <= Lowest(S) /\ Lowest(S) \in Nat /\ i \in Nat
  BY <1>2
<1> QED
  BY <1>2, <1>3

LEMMA HighestIs ==
  ASSUME NEW n \in Nat, NEW S \in SUBSET (0..n), S # {}
  PROVE  Highest(S) \in S /\ \A j \in S : j <= Highest(S)
<1> DEFINE R == {n - i : i \in S}  m == Lowest(R)
<1>0. \A i \in S : i \in Nat /\ i <= n /\ n - i \in Nat
  OBVIOUS
<1>1. R \in SUBSET Nat /\ R # {}
  BY <1>0
<1>2. m \in R /\ \A j \in R : m <= j
  <2> HIDE DEF R
  <2> QED
    BY <1>1, LowestIs
<1>3. PICK i \in S : m = n - i
  BY <1>2
<1>4. \A j \in S : j <= i
  <2> SUFFICES ASSUME NEW j \in S PROVE j <= i
    OBVIOUS
  <2>1. n - j \in R
    OBVIOUS
  <2>2. n - i <= n - j
    BY <1>2, <1>3, <2>1
  <2> QED
    BY <1>0, <2>2
<1>5. \E k \in S : \A j \in S : j <= k
  BY <1>4
<1> QED
  BY <1>5 DEF Highest

LEMMA HighestOf ==
  ASSUME NEW n \in Nat, NEW S \in SUBSET (0..n), NEW i \in S, \A j \in S : j <= i
  PROVE  Highest(S) = i
<1>1. S # {}
  OBVIOUS
<1>2. Highest(S) \in S /\ i <= Highest(S)
  BY <1>1, HighestIs
<1>3. Highest(S) <= i /\ Highest(S) \in 0..n /\ i \in 0..n
  BY <1>2
<1> QED
  BY <1>2, <1>3

-----------------------------------------------------------------------------
(* Newlines around a text. *)

LEMMA StartCut ==
  ASSUME NEW Byte, NEW s \in Seq(Byte)
  PROVE  \E k \in 0..Len(s) : WithoutStart(s) = But(s, k)
<1> DEFINE A == {i \in 0..Len(s) : i = Len(s) \/ s[i + 1] # "n"}
<1>1. A \in SUBSET Nat /\ Len(s) \in A /\ A \subseteq 0..Len(s)
  OBVIOUS
<1>2. WithoutStart(s) = But(s, Lowest(A))
  BY DEF WithoutStart
<1> HIDE DEF A
<1>3. Lowest(A) \in A
  BY <1>1, LowestIs
<1> QED
  BY <1>1, <1>2, <1>3

LEMMA EndCut ==
  ASSUME NEW Byte, NEW s \in Seq(Byte)
  PROVE  /\ \E k \in 0..Len(s) : WithoutEnd(s) = First(s, k)
         /\ s # <<>> /\ s[Len(s)] # "n" => WithoutEnd(s) = s
<1> DEFINE B == {i \in 0..Len(s) : i = 0 \/ s[i] # "n"}
<1>1. B \in SUBSET (0..Len(s)) /\ 0 \in B /\ Len(s) \in Nat
  OBVIOUS
<1>2. WithoutEnd(s) = First(s, Highest(B))
  BY DEF WithoutEnd
<1>3. s # <<>> /\ s[Len(s)] # "n" => Len(s) \in B
  OBVIOUS
<1> HIDE DEF B
<1>4. Highest(B) \in B
  BY <1>1, HighestIs
<1>5. ASSUME s # <<>> /\ s[Len(s)] # "n" PROVE WithoutEnd(s) = s
  <2>1. \A j \in B : j <= Len(s)
    BY <1>1
  <2>2. Highest(B) = Len(s)
    BY <1>1, <1>3, <1>5, <2>1, HighestOf
  <2> QED
    BY <1>2, <2>2, Joined
<1> QED
  BY <1>1, <1>2, <1>4, <1>5

\* What lstrip and rstrip leave begins with the first byte that is no newline and ends with the
\* last.
LEMMA Trimmed ==
  ASSUME NEW Byte, NEW s \in Seq(Byte)
  PROVE  LET core == {i \in DOMAIN s : s[i] # "n"} IN
           WithoutEnd(WithoutStart(s)) =
             IF core = {} THEN <<>> ELSE SubSeq(s, Lowest(core), Highest(core))
<1> DEFINE core == {i \in DOMAIN s : s[i] # "n"}
           A == {i \in 0..Len(s) : i = Len(s) \/ s[i + 1] # "n"}
<1>1. WithoutStart(s) = But(s, Lowest(A)) /\ A \in SUBSET Nat /\ Len(s) \in A /\ Len(s) \in Nat
  BY DEF WithoutStart
<1>2. core \in SUBSET Nat /\ core \in SUBSET (0..Len(s)) /\ core = {i \in 1..Len(s) : s[i] # "n"}
  OBVIOUS
<1>3. CASE core = {}
  <2>1. \A j \in A : Len(s) <= j
    <3> SUFFICES ASSUME NEW j \in A, j < Len(s) PROVE FALSE
      BY <1>1
    <3>1. j + 1 \in core
      OBVIOUS
    <3> QED
      BY <1>3, <3>1
  <2> HIDE DEF A, core
  <2>2. Lowest(A) = Len(s)
    BY <1>1, <2>1, LowestOf
  <2>3. WithoutStart(s) = <<>>
    BY <1>1, <2>2, Joined
  <2>4. WithoutEnd(<<>>) = <<>>
    <3>1. <<>> \in Seq(Byte) /\ Len(<<>>) = 0
      OBVIOUS
    <3>2. PICK k \in 0..0 : WithoutEnd(<<>>) = First(<<>>, k)
      BY <3>1, EndCut
    <3>3. First(<<>>, 0) = <<>>
      BY <3>1 DEF First
    <3> QED
      BY <3>2, <3>3
  <2> QED
    BY <1>3, <2>3, <2>4 DEF core
<1>4. CASE core # {}
  <2> DEFINE from == Lowest(core)  to == Highest(core)
             w == WithoutStart(s)
             B == {i \in 0..Len(w) : i = 0 \/ w[i] # "n"}
  <2>1. from \in core /\ (\A j \in core : from <= j) /\ to \in core /\ (\A j \in core : j <= to)
    <3> HIDE DEF core
    <3> QED
      BY <1>1, <1>2, <1>4, LowestIs, HighestIs
  <2>2. from \in 1..Len(s) /\ to \in 1..Len(s) /\ from <= to /\ s[from] # "n" /\ s[to] # "n"
    BY <2>1
  <2>3. from - 1 \in A /\ \A j \in A : from - 1 <= j
    <3> HIDE DEF from, to
    <3>1. from - 1 \in A
      BY <2>2
    <3>2. ASSUME NEW j \in A, j < from - 1 PROVE FALSE
      <4>1. j + 1 \in core
        BY <2>2, <3>2
      <4> QED
        BY <2>1, <2>2, <3>2, <4>1
    <3> QED
      BY <2>2, <3>1, <3>2
  <2> HIDE DEF A, from, to
  <2>4. Lowest(A) = from - 1
    BY <1>1, <2>3, LowestOf
  <2>5. w = But(s, from - 1) /\ from - 1 \in Nat
    BY <1>1, <2>2, <2>4
  <2>6. w \in Seq(Byte) /\ Len(w) = Len(s) - (from - 1) /\ \A i \in 1..Len(w) : w[i] = s[(from - 1) + i]
    <3>1. from - 1 < Len(s)
      BY <1>1, <2>2
    <3> QED
      BY <2>5, <3>1, ButPiece
  <2> HIDE DEF w
  <2>7. B \in SUBSET (0..Len(w)) /\ to - (from - 1) \in B
    <3>1. to - (from - 1) \in 1..Len(w) /\ (from - 1) + (to - (from - 1)) = to
      BY <1>1, <2>2, <2>6
    <3> QED
      BY <2>2, <2>6, <3>1
  <2>8. \A j \in B : j <= to - (from - 1)
    <3> SUFFICES ASSUME NEW j \in B, j > to - (from - 1) PROVE FALSE
      BY <2>2, <2>6
    <3>1. j \in 1..Len(w) /\ w[j] # "n"
      BY <2>2, <2>6
    <3>2. (from - 1) + j \in core
      BY <1>1, <2>2, <2>6, <3>1
    <3> QED
      BY <2>1, <2>2, <3>1, <3>2
  <2>9. WithoutEnd(w) = First(w, Highest(B))
    BY DEF WithoutEnd
  <2> HIDE DEF B
  <2>10. Highest(B) = to - (from - 1)
    <3>1. Len(w) \in Nat
      BY <2>6
    <3> QED
      BY <2>7, <2>8, <3>1, HighestOf
  <2> DEFINE f == First(w, to - (from - 1))  g == SubSeq(s, from, to)
  <2>11. /\ f \in Seq(Byte) /\ Len(f) = to - (from - 1)
         /\ \A i \in 1..Len(f) : f[i] = w[i]
    <3>1. to - (from - 1) \in Nat /\ to - (from - 1) <= Len(w)
      BY <1>1, <2>2, <2>6
    <3>2. /\ f \in Seq(Byte)
          /\ Len(f) = IF to - (from - 1) < Len(w) THEN to - (from - 1) ELSE Len(w)
          /\ \A i \in 1..Len(f) : f[i] = w[i]
      BY <2>6, <3>1, FirstPiece
    <3> QED
      BY <2>6, <3>1, <3>2
  <2>12. g \in Seq(Byte) /\ Len(g) = to - (from - 1) /\ \A i \in 1..Len(g) : g[i] = s[(from - 1) + i]
    <3>1. g \in Seq(Byte) /\ Len(g) = to - from + 1 /\ \A i \in 1..(to - from + 1) : g[i] = s[from + i - 1]
      BY <2>2
    <3> HIDE DEF g
    <3>2. \A i \in 1..(to - from + 1) : from + i - 1 = (from - 1) + i
      BY <2>2
    <3>3. to - from + 1 = to - (from - 1)
      BY <2>2
    <3> QED
      BY <3>1, <3>2, <3>3
  <2> HIDE DEF f, g
  <2>13. Len(f) <= Len(w)
    BY <1>1, <2>2, <2>6, <2>11
  <2>14. f = g
    <3>1. \A i \in 1..Len(f) : f[i] = g[i]
      <4>1. \A i \in 1..Len(f) : i \in 1..Len(w) /\ i \in 1..Len(g)
        BY <2>6, <2>11, <2>12, <2>13
      <4> QED
        BY <2>6, <2>11, <2>12, <4>1
    <3> QED
      BY <2>11, <2>12, <3>1, SeqEqual
  <2> QED
    BY <1>4, <2>9, <2>10, <2>14 DEF f, g, w, from, to
<1> HIDE DEF core
<1> QED
  BY <1>3, <1>4 DEF core
-----------------------------------------------------------------------------
(* The buffer. *)

\* A head h and a tail t that have taken in d.
Holds(h, t, done, d) ==
  /\ h = First(d, HeadSize) /\ t = LastOf(But(d, HeadSize), TailSize)
  /\ done => Len(d) >= HeadSize

Buffered(d) == Holds(head, tail, head_done, d)

LEMMA Sizes ==
  /\ Keep \in Nat /\ HeadSize \in Nat /\ TailSize \in Nat /\ MaxUnits \in Nat /\ PromptLen \in Nat
  /\ MaxOutput \in Nat /\ 2 <= PromptLen /\ PromptLen <= Keep
BY ScanAssumption

LEMMA HoldsType ==
  ASSUME NEW h, NEW t, NEW done, NEW d \in Seq(Bytes), Holds(h, t, done, d)
  PROVE  /\ h \in Seq(Bytes) /\ t \in Seq(Bytes)
         /\ Len(h) <= HeadSize /\ Len(t) <= TailSize
<1>1. h = First(d, HeadSize) /\ t = LastOf(But(d, HeadSize), TailSize)
  BY DEF Holds
<1>2. h \in Seq(Bytes) /\ Len(h) = IF HeadSize < Len(d) THEN HeadSize ELSE Len(d)
  BY <1>1, FirstPiece, Sizes
<1> DEFINE b == But(d, HeadSize)
<1>3. b \in Seq(Bytes)
  BY ButPiece, Sizes
<1> HIDE DEF b
<1>4. LastOf(b, TailSize) \in Seq(Bytes) /\ Len(LastOf(b, TailSize)) = IF TailSize < Len(b) THEN TailSize ELSE Len(b)
  BY <1>3, LastPiece, Sizes
<1>5. Len(b) \in Nat /\ Len(d) \in Nat
  BY <1>3
<1> QED
  BY <1>1, <1>2, <1>4, <1>5, Sizes DEF b

LEMMA HoldsNothing == Holds(<<>>, <<>>, FALSE, <<>>)
<1>1. <<>> \in Seq(Bytes) /\ Len(<<>>) = 0 /\ Len(<<>>) <= HeadSize /\ Len(<<>>) <= TailSize
  BY Sizes
<1>2. First(<<>>, HeadSize) = <<>> /\ But(<<>>, HeadSize) = <<>> /\ LastOf(<<>>, TailSize) = <<>>
  BY <1>1, Joined, Sizes, Zenon
<1> QED
  BY <1>2 DEF Holds

LEMMA ClearHolds == ClearBuffer => Holds(head', tail', head_done', <<>>)
BY HoldsNothing DEF ClearBuffer

LEMMA KeepHolds ==
  ASSUME NEW d, Buffered(d), UNCHANGED buffer
  PROVE  Holds(head', tail', head_done', d)
BY DEF Buffered, buffer

\* _store_output takes in what it is given.
LEMMA StoreHolds ==
  ASSUME NEW d \in Seq(Bytes), NEW x \in Seq(Bytes), Buffered(d), head_done \in BOOLEAN, Store(x)
  PROVE  Holds(head', tail', head_done', d \o x) /\ head_done' \in BOOLEAN
<1> DEFINE room == HeadSize - Len(head)  b == But(d, HeadSize)  u == d \o x
<1>1. head = First(d, HeadSize) /\ tail = LastOf(b, TailSize) /\ (head_done => Len(d) >= HeadSize)
  BY DEF Buffered, Holds
<1>2. Len(head) = (IF HeadSize < Len(d) THEN HeadSize ELSE Len(d)) /\ Len(d) \in Nat /\ Len(x) \in Nat
  BY <1>1, FirstPiece, Sizes
<1>3. u \in Seq(Bytes) /\ Len(u) = Len(d) + Len(x)
  BY Concat
<1>4. room \in Nat /\ Len(head) \in Nat
  BY <1>2, Sizes
<1>5. b \in Seq(Bytes)
  BY ButPiece, Sizes
<1>6. First(u, HeadSize) = head \o First(x, room) /\ But(u, HeadSize) = b \o But(x, room)
  BY <1>1, CutConcat, Sizes
<1>7. CASE x = <<>>
  <2>1. u = d
    BY <1>7, ConcatEmptySeq
  <2>2. UNCHANGED <<head, tail, head_done>>
    BY <1>7 DEF Store, buffer
  <2>3. Holds(head', tail', head_done', d)
    BY <2>2 DEF Buffered
  <2> HIDE DEF u
  <2> QED
    BY <2>1, <2>2, <2>3 DEF u
<1>8. CASE x # <<>> /\ head_done
  <2>1. HeadSize <= Len(d)
    BY <1>1, <1>2, <1>8, Sizes
  <2>2. First(u, HeadSize) = First(d, HeadSize) /\ But(u, HeadSize) = b \o x
    BY <2>1, CutWithin, Sizes
  <2>3. tail' = LastOf(tail \o x, TailSize) /\ head' = head /\ head_done' = head_done
    BY <1>8 DEF Store
  <2>4. tail' = LastOf(b \o x, TailSize)
    <3> HIDE DEF b
    <3>1. LastOf(LastOf(b, TailSize) \o x, TailSize) = LastOf(b \o x, TailSize)
      BY <1>5, LastOfConcat, Sizes
    <3> QED
      BY <1>1, <2>3, <3>1
  <2>5. Len(u) >= HeadSize
    BY <1>2, <1>3, <2>1, Sizes
  <2> HIDE DEF u, b
  <2>6. head' = First(u, HeadSize) /\ tail' = LastOf(But(u, HeadSize), TailSize)
    BY <1>1, <2>2, <2>3, <2>4
  <2>7. Holds(head', tail', head_done', u)
    BY <2>5, <2>6 DEF Holds
  <2> QED
    BY <2>3, <2>7 DEF u
<1>9. CASE x # <<>> /\ ~head_done
  <2>1. /\ head' = head \o First(x, room)
        /\ head_done' = (Len(x) > room \/ room = 0)
        /\ tail' = LastOf(tail \o But(x, room), TailSize)
    BY <1>9 DEF Store
  <2>2. But(x, room) \in Seq(Bytes)
    BY <1>4, ButPiece
  <2>3. tail' = LastOf(b \o But(x, room), TailSize)
    <3> DEFINE y == But(x, room)
    <3>1. y \in Seq(Bytes) /\ tail' = LastOf(tail \o y, TailSize)
      BY <2>1, <2>2
    <3> HIDE DEF b, y
    <3>2. LastOf(LastOf(b, TailSize) \o y, TailSize) = LastOf(b \o y, TailSize)
      BY <1>5, <3>1, LastOfConcat, Sizes
    <3> QED
      BY <1>1, <3>1, <3>2 DEF y
  <2>4. head_done' => Len(u) >= HeadSize
    <3>1. Len(head) \in Nat /\ Len(d) \in Nat /\ Len(x) \in Nat /\ Len(head) <= Len(d) /\ HeadSize \in Nat
      BY <1>2, <1>4, Sizes
    <3>2. Len(u) = Len(d) + Len(x)
      BY <1>3
    <3> HIDE DEF u
    <3>3. Len(x) > HeadSize - Len(head) => Len(u) >= HeadSize
      BY <3>1, <3>2
    <3>4. HeadSize - Len(head) = 0 => Len(u) >= HeadSize
      BY <3>1, <3>2
    <3> QED
      BY <2>1, <3>3, <3>4
  <2>5. head' = First(u, HeadSize) /\ tail' = LastOf(But(u, HeadSize), TailSize)
    BY <1>6, <2>1, <2>3
  <2> HIDE DEF u
  <2>6. Holds(head', tail', head_done', u)
    BY <2>4, <2>5 DEF Holds
  <2> QED
    BY <2>1, <2>6 DEF u
<1> QED
  BY <1>7, <1>8, <1>9

\* What is in the buffer is what an answer may show of what it has taken in.
LEMMA Raw ==
  ASSUME NEW d \in Seq(Bytes), Buffered(d)
  PROVE  head \o tail =
           IF Len(d) <= HeadSize + TailSize THEN d ELSE First(d, HeadSize) \o LastOf(d, TailSize)
<1> DEFINE b == But(d, HeadSize)
<1>1. head = First(d, HeadSize) /\ tail = LastOf(b, TailSize)
  BY DEF Buffered, Holds
<1>2. b \in Seq(Bytes) /\ Len(b) = (IF HeadSize < Len(d) THEN Len(d) - HeadSize ELSE 0) /\ Len(d) \in Nat
  BY ButPiece, Sizes
<1>3. First(d, HeadSize) \o b = d /\ First(d, HeadSize) \in Seq(Bytes)
  BY Joined, FirstPiece, Sizes
<1> HIDE DEF b
<1>4. CASE Len(d) <= HeadSize + TailSize
  <2>1. Len(b) <= TailSize
    BY <1>2, <1>4, Sizes
  <2>2. LastOf(b, TailSize) = b
    BY <1>2, <2>1, Joined, Sizes
  <2> QED
    BY <1>1, <1>3, <1>4, <2>2
<1>5. CASE ~(Len(d) <= HeadSize + TailSize)
  <2>1. TailSize <= Len(b)
    BY <1>2, <1>5, Sizes
  <2>2. LastOf(First(d, HeadSize) \o b, TailSize) = LastOf(b, TailSize)
    <3> DEFINE f == First(d, HeadSize)
    <3>1. f \in Seq(Bytes) /\ TailSize \in Nat
      BY <1>3, Sizes
    <3> HIDE DEF f
    <3>2. LastOf(f \o b, TailSize) = LastOf(b, TailSize)
      BY <1>2, <2>1, <3>1, CutWithin
    <3> QED
      BY <3>2 DEF f
  <2> QED
    BY <1>1, <1>3, <1>5, <2>2
<1> QED
  BY <1>4, <1>5

\* An answer shows of d what Shown says, once the buffer has taken d in.
LEMMA Viewed ==
  ASSUME NEW d \in Seq(Bytes), NEW command \in Seq(Bytes), Buffered(d)
  PROVE  View(command) = Shown(d, command) /\ View(command) \in Seq(Bytes)
<1> DEFINE raw  == head \o tail
           said == command \o <<"n">>
           full == IF command # <<>> /\ IsPrefix(said, raw) THEN But(raw, Len(said)) ELSE raw
           core == {i \in DOMAIN full : full[i] # "n"}
           part == SubSeq(full, Lowest(core), Highest(core))
<1>1. raw = IF Len(d) <= HeadSize + TailSize THEN d ELSE First(d, HeadSize) \o LastOf(d, TailSize)
  BY Raw
<1>2. raw \in Seq(Bytes)
  <2>1. head \in Seq(Bytes) /\ tail \in Seq(Bytes)
    BY HoldsType DEF Buffered
  <2> QED
    BY <2>1, Concat
<1>3. Len(said) \in Nat
  <2>1. "n" \in Bytes
    BY PromptType DEF Plain
  <2> QED
    BY <2>1
<1>4. View(command) = LastOf(WithoutEnd(WithoutStart(full)), MaxOutput)
  BY DEF View
<1>5. Shown(d, command) = IF core = {} THEN <<>> ELSE LastOf(part, MaxOutput)
  BY <1>1 DEF Shown
<1> HIDE DEF raw, said
<1>6. full \in Seq(Bytes)
  BY <1>2, <1>3, ButPiece
<1> HIDE DEF full
<1>7. WithoutEnd(WithoutStart(full)) = IF core = {} THEN <<>> ELSE part
  BY <1>6, Trimmed
<1>8. LastOf(<<>>, MaxOutput) = <<>>
  BY Sizes DEF LastOf
<1>9. View(command) \in Seq(Bytes)
  <2>1. PICK k \in 0..Len(full) : WithoutStart(full) = But(full, k)
    BY <1>6, StartCut
  <2> DEFINE w == But(full, k)
  <2>2. w \in Seq(Bytes)
    BY <1>6, ButPiece
  <2> HIDE DEF w
  <2>3. PICK l \in 0..Len(w) : WithoutEnd(w) = First(w, l)
    BY <2>2, EndCut
  <2>4. WithoutEnd(w) \in Seq(Bytes)
    BY <2>2, <2>3, FirstPiece
  <2>5. LastOf(WithoutEnd(w), MaxOutput) \in Seq(Bytes)
    BY <2>4, LastPiece, Sizes
  <2> QED
    BY <1>4, <2>1, <2>5 DEF w
<1> HIDE DEF core, part
<1> QED
  BY <1>4, <1>5, <1>7, <1>8, <1>9
-----------------------------------------------------------------------------
(* What the shell prints. *)

Said == {"a", "b", "r", "n", "e", "m"}

\* Texts with whole escape sequences.
Texts == {s \in Seq(Bytes) : Paired(s) /\ ~EndsInEscape(s)}

LEMMA TextsConcat ==
  ASSUME NEW s \in Texts, NEW t \in Texts
  PROVE  s \o t \in Texts
<1> DEFINE u == s \o t
<1>0. s \in Seq(Bytes) /\ t \in Seq(Bytes) /\ Paired(s) /\ Paired(t) /\ ~EndsInEscape(s) /\ ~EndsInEscape(t)
  BY DEF Texts
<1>1. /\ u \in Seq(Bytes) /\ Len(u) = Len(s) + Len(t) /\ Len(s) \in Nat /\ Len(t) \in Nat
      /\ \A i \in 1..Len(s) : u[i] = s[i]
      /\ \A i \in 1..Len(t) : u[Len(s) + i] = t[i]
  BY <1>0, Concat
<1> HIDE DEF u
<1>2. \A j \in 1..Len(u) : j \in 1..Len(s) \/ \E i \in 1..Len(t) : j = Len(s) + i
  <2> SUFFICES ASSUME NEW j \in 1..Len(u), ~(j \in 1..Len(s))
               PROVE  \E i \in 1..Len(t) : j = Len(s) + i
    OBVIOUS
  <2>1. j - Len(s) \in 1..Len(t) /\ j = Len(s) + (j - Len(s))
    BY <1>1
  <2> QED
    BY <2>1
<1>3. t # <<>> => t[1] # "m"
  <2> SUFFICES ASSUME t # <<>>, t[1] = "m" PROVE FALSE
    OBVIOUS
  <2>1. 1 \in 1..Len(t)
    BY <1>0, EmptySeq
  <2> QED
    BY <1>0, <2>1 DEF Paired
<1>4. s # <<>> => s[Len(s)] # "e"
  BY <1>0 DEF EndsInEscape
<1>5. ASSUME NEW j \in 1..Len(u), u[j] = "e", j < Len(u) PROVE u[j + 1] = "m"
  <2>1. CASE j \in 1..Len(s)
    <3>1. j # Len(s)
      <4>1. s # <<>>
        BY <1>1, <2>1
      <4> QED
        BY <1>1, <1>4, <1>5, <2>1, <4>1
    <3>2. j < Len(s) /\ j + 1 \in 1..Len(s)
      BY <1>1, <2>1, <3>1
    <3> QED
      BY <1>0, <1>1, <1>5, <2>1, <3>2 DEF Paired
  <2>2. ASSUME NEW i \in 1..Len(t), j = Len(s) + i PROVE u[j + 1] = "m"
    <3>1. i < Len(t) /\ i + 1 \in 1..Len(t) /\ j + 1 = Len(s) + (i + 1)
      BY <1>1, <1>5, <2>2
    <3>2. t[i] = "e"
      BY <1>1, <1>5, <2>2
    <3>3. t[i + 1] = "m"
      BY <1>0, <3>1, <3>2 DEF Paired
    <3> QED
      BY <1>1, <3>1, <3>3
  <2> QED
    BY <1>2, <2>1, <2>2
<1>6. ASSUME NEW j \in 1..Len(u), u[j] = "m" PROVE j > 1 /\ u[j - 1] = "e"
  <2>1. CASE j \in 1..Len(s)
    <3>1. s[j] = "m"
      BY <1>1, <1>6, <2>1
    <3>2. j > 1 /\ s[j - 1] = "e"
      BY <1>0, <2>1, <3>1 DEF Paired
    <3>3. j - 1 \in 1..Len(s)
      BY <1>1, <2>1, <3>2
    <3> QED
      BY <1>1, <3>2, <3>3
  <2>2. ASSUME NEW i \in 1..Len(t), j = Len(s) + i PROVE j > 1 /\ u[j - 1] = "e"
    <3>1. t[i] = "m"
      BY <1>1, <1>6, <2>2
    <3>2. i > 1 /\ t[i - 1] = "e"
      BY <1>0, <3>1 DEF Paired
    <3>3. i - 1 \in 1..Len(t) /\ j - 1 = Len(s) + (i - 1) /\ j > 1
      BY <1>1, <2>2, <3>2
    <3> QED
      BY <1>1, <3>2, <3>3
  <2> QED
    BY <1>2, <2>1, <2>2
<1>7. Paired(u)
  BY <1>5, <1>6 DEF Paired
<1>8. ~EndsInEscape(u)
  <2> SUFFICES ASSUME u # <<>>, u[Len(u)] = "e" PROVE FALSE
    BY DEF EndsInEscape
  <2>1. CASE t = <<>>
    <3>1. Len(t) = 0
      BY <2>1
    <3>2. Len(u) = Len(s) /\ Len(u) # 0
      BY <1>1, <3>1, EmptySeq
    <3>3. s # <<>> /\ Len(s) \in 1..Len(s)
      BY <1>1, <3>2
    <3> QED
      BY <1>1, <1>4, <3>2, <3>3
  <2>2. CASE t # <<>>
    <3>1. Len(t) \in 1..Len(t)
      BY <1>0, <2>2, EmptySeq
    <3>2. t[Len(t)] = "e"
      BY <1>1, <3>1
    <3> QED
      BY <1>0, <2>2, <3>2 DEF EndsInEscape
  <2> QED
    BY <2>1, <2>2
<1>9. u \in Texts
  BY <1>1, <1>7, <1>8 DEF Texts
<1> QED
  BY <1>9 DEF u

LEMMA Short ==
  /\ <<>> \in Texts
  /\ \A x \in Plain \ {"e", "m"} : <<x>> \in Texts
  /\ <<"e", "m">> \in Texts
<1>1. <<>> \in Texts
  BY DEF Texts, Paired, EndsInEscape
<1>2. ASSUME NEW x \in Plain \ {"e", "m"} PROVE <<x>> \in Texts
  <2> DEFINE s == <<x>>
  <2>1. s \in Seq(Bytes) /\ Len(s) = 1 /\ s[1] = x /\ x # "e" /\ x # "m"
    <3>1. x \in Bytes
      BY PromptType
    <3> QED
      BY <3>1
  <2> HIDE DEF s
  <2>2. \A i \in 1..Len(s) : i = 1
    BY <2>1
  <2>3. Paired(s) /\ ~EndsInEscape(s)
    BY <2>1, <2>2 DEF Paired, EndsInEscape
  <2> QED
    BY <2>1, <2>3 DEF Texts, s
<1>3. <<"e", "m">> \in Texts
  <2> DEFINE s == <<"e", "m">>
  <2>1. s \in Seq(Bytes) /\ Len(s) = 2 /\ s[1] = "e" /\ s[2] = "m"
    <3>1. "e" \in Bytes /\ "m" \in Bytes
      BY PromptType DEF Plain
    <3> QED
      BY <3>1
  <2> HIDE DEF s
  <2>2. \A i \in 1..Len(s) : i = 1 \/ i = 2
    BY <2>1
  <2>3. Paired(s) /\ ~EndsInEscape(s)
    BY <2>1, <2>2 DEF Paired, EndsInEscape
  <2> QED
    BY <2>1, <2>3 DEF Texts, s
<1> QED
  BY <1>1, <1>2, <1>3

\* What FlattenSeq unfolds to.
Flattens(f, seqs, n) ==
  f = [i \in 1..n |-> IF i = 1 THEN seqs[i] ELSE f[i - 1] \o seqs[i]]

LEMMA FlattensExists ==
  ASSUME NEW seqs
  PROVE  \A n \in Nat : \E f : Flattens(f, seqs, n)
<1> DEFINE S == {n \in Nat : \E f : Flattens(f, seqs, n)}
<1>1. 0 \in S
  <2>1. Flattens([i \in 1..0 |-> <<>>], seqs, 0)
    BY DEF Flattens
  <2> QED
    BY <2>1
<1>2. ASSUME NEW n \in Nat, n \in S PROVE n + 1 \in S
  <2>1. PICK f : Flattens(f, seqs, n)
    BY <1>2
  <2> DEFINE g == [i \in 1..(n + 1) |->
                     IF i <= n THEN f[i] ELSE IF i = 1 THEN seqs[i] ELSE f[i - 1] \o seqs[i]]
  <2>2. \A i \in 1..n : g[i] = f[i]
    OBVIOUS
  <2>3. ASSUME NEW i \in 1..(n + 1)
        PROVE  g[i] = IF i = 1 THEN seqs[i] ELSE g[i - 1] \o seqs[i]
    <3>1. CASE i \in 1..n
      <4>1. f[i] = IF i = 1 THEN seqs[i] ELSE f[i - 1] \o seqs[i]
        BY <2>1, <3>1 DEF Flattens
      <4>2. g[i] = f[i] /\ (i # 1 => i - 1 \in 1..n /\ g[i - 1] = f[i - 1])
        BY <2>2, <3>1
      <4> HIDE DEF g
      <4> QED
        BY <4>1, <4>2
    <3>2. CASE i = n + 1
      <4>1. g[i] = IF i = 1 THEN seqs[i] ELSE f[i - 1] \o seqs[i]
        BY <3>2
      <4>2. i # 1 => i - 1 \in 1..n /\ g[i - 1] = f[i - 1]
        BY <2>2, <3>2
      <4> HIDE DEF g
      <4> QED
        BY <4>1, <4>2
    <3> QED
      BY <3>1, <3>2
  <2>4. Flattens(g, seqs, n + 1)
    BY <2>3 DEF Flattens
  <2> QED
    BY <2>4
<1> HIDE DEF S
<1>3. Nat \subseteq S
  BY <1>1, <1>2, Induction
<1> QED
  BY <1>3 DEF S

\* What a command prints is such a text, without the mark and the prompt.
LEMMA OutputsAreTexts ==
  ASSUME NEW max \in Nat, NEW out \in Outputs(max)
  PROVE  out \in Texts /\ out \in Seq(Said)
<1>1. PICK u \in BoundedSeq(Units, max) : out = FlattenSeq(u)
  BY DEF Outputs
<1>2. PICK n \in 0..max : u \in [1..n -> Units]
  BY DEF BoundedSeq, SeqOf
<1>3. Len(u) = n
  BY <1>2
<1>4. ASSUME NEW v \in Units PROVE v \in Texts /\ v \in Seq(Said)
  <2>1. \A x \in {"a", "b", "r", "n"} : <<x>> \in Texts /\ <<x>> \in Seq(Said)
    <3> SUFFICES ASSUME NEW x \in {"a", "b", "r", "n"} PROVE <<x>> \in Texts /\ <<x>> \in Seq(Said)
      OBVIOUS
    <3>1. x \in Plain \ {"e", "m"} /\ x \in Said
      BY DEF Plain, Said
    <3>2. <<x>> \in Texts
      BY <3>1, Short
    <3> QED
      BY <3>1, <3>2
  <2>2. <<"e", "m">> \in Texts /\ <<"e", "m">> \in Seq(Said)
    BY Short DEF Said
  <2> QED
    BY <2>1, <2>2 DEF Units
<1>5. CASE n = 0
  <2>1. out = u /\ u = <<>>
    BY <1>1, <1>2, <1>3, <1>5 DEF FlattenSeq
  <2>2. <<>> \in Seq(Said)
    OBVIOUS
  <2> QED
    BY <2>1, <2>2, Short
<1>6. CASE n # 0
  <2> DEFINE f == CHOOSE f : Flattens(f, u, n)
  <2>1. Flattens(f, u, n)
    BY FlattensExists
  <2>2. out = f[n]
    BY <1>1, <1>3, <1>6 DEF FlattenSeq, Flattens
  <2> HIDE DEF f
  <2> DEFINE S == {k \in Nat : k \in 1..n => f[k] \in Texts /\ f[k] \in Seq(Said)}
  <2>3. 0 \in S
    OBVIOUS
  <2>4. ASSUME NEW k \in Nat, k \in S PROVE k + 1 \in S
    <3> SUFFICES ASSUME k + 1 \in 1..n PROVE f[k + 1] \in Texts /\ f[k + 1] \in Seq(Said)
      OBVIOUS
    <3>1. u[k + 1] \in Units
      BY <1>2
    <3>2. u[k + 1] \in Texts /\ u[k + 1] \in Seq(Said)
      BY <1>4, <3>1
    <3>3. f[k + 1] = IF k + 1 = 1 THEN u[k + 1] ELSE f[(k + 1) - 1] \o u[k + 1]
      BY <2>1 DEF Flattens
    <3>4. CASE k = 0
      BY <3>2, <3>3, <3>4
    <3>5. CASE k # 0
      <4>1. k \in 1..n /\ (k + 1) - 1 = k /\ k + 1 # 1
        BY <3>5
      <4>2. f[k] \in Texts /\ f[k] \in Seq(Said) /\ f[k + 1] = f[k] \o u[k + 1]
        BY <2>4, <3>3, <4>1
      <4> DEFINE x == f[k]  y == u[k + 1]
      <4>3. x \in Texts /\ y \in Texts /\ x \in Seq(Said) /\ y \in Seq(Said) /\ f[k + 1] = x \o y
        BY <3>2, <4>2
      <4> HIDE DEF x, y
      <4>4. x \o y \in Texts
        BY <4>3, TextsConcat
      <4>5. x \o y \in Seq(Said)
        BY <4>3, Concat
      <4> QED
        BY <4>3, <4>4, <4>5
    <3> QED
      BY <3>4, <3>5
  <2>5. Nat \subseteq S
    <3> HIDE DEF S
    <3> QED
      BY <2>3, <2>4, Induction
  <2>6. n \in Nat /\ n \in 1..n
    BY <1>2, <1>6
  <2>7. f[n] \in Texts /\ f[n] \in Seq(Said)
    BY <2>5, <2>6
  <2> QED
    BY <2>2, <2>7
<1> QED
  BY <1>5, <1>6
-----------------------------------------------------------------------------
(* Where the prompt is. *)

\* The piece that ends a prompt, and the bytes that come before it.
Final == Prompt[PromptLen]
Before == Bytes \ {Final}

LEMMA BeforeType ==
  /\ Plain \subseteq Before /\ Before \subseteq Bytes /\ Final \in Bytes /\ Final # "n"
  /\ Plain \subseteq Bytes
<1>1. PromptLen \in 1..PromptLen
  <2>1. PromptLen \in Nat /\ 2 <= PromptLen
    BY PromptType
  <2> QED
    BY <2>1
<1>2. Final \in Bytes /\ Final \notin Plain
  BY <1>1, PromptType DEF Final, Bytes
<1> QED
  BY <1>2 DEF Before, Bytes, Plain

\* Without the last piece there is no prompt.
LEMMA NoPrompt ==
  ASSUME NEW s \in Seq(Before)
  PROVE  Places(s, Prompt) = {}
<1> SUFFICES ASSUME NEW i \in Places(s, Prompt) PROVE FALSE
  OBVIOUS
<1>1. /\ i \in 1..(Len(s) - PromptLen + 1) /\ SubSeq(s, i, i + PromptLen - 1) = Prompt
      /\ PromptLen \in Nat /\ 2 <= PromptLen
  BY PromptType DEF Places, PromptLen
<1>2. i \in Nat /\ i >= 1 /\ i + PromptLen - 1 \in 1..Len(s)
  BY <1>1
<1>3. SubSeq(s, i, i + PromptLen - 1)[PromptLen] = s[i + PromptLen - 1]
  <2> DEFINE j == i + PromptLen - 1
  <2>1. /\ i \in 1..Len(s) /\ j \in 1..Len(s) /\ PromptLen = j - i + 1 /\ PromptLen \in 1..(j - i + 1)
        /\ i + PromptLen - 1 = j
    BY <1>1, <1>2
  <2>2. SubSeq(s, i, j)[PromptLen] = s[i + PromptLen - 1]
    <3> HIDE DEF j
    <3> QED
      BY <2>1
  <2> QED
    BY <2>2
<1>4. s[i + PromptLen - 1] = Final
  BY <1>1, <1>3 DEF Final
<1>5. s[i + PromptLen - 1] \in Before
  BY <1>2
<1> QED
  BY <1>4, <1>5 DEF Before

\* A text begins in another where it was put.
LEMMA PlaceAt ==
  ASSUME NEW x \in Seq(Bytes), NEW t \in Seq(Bytes), NEW z \in Seq(Bytes)
  PROVE  Len(x) + 1 \in Places(x \o (t \o z), t)
<1> DEFINE u == x \o (t \o z)  g == SubSeq(u, Len(x) + 1, Len(x) + Len(t))
<1>1. /\ u \in Seq(Bytes) /\ Len(u) = Len(x) + (Len(t) + Len(z))
      /\ Len(x) \in Nat /\ Len(t) \in Nat /\ Len(z) \in Nat
      /\ \A i \in 1..Len(t) : u[Len(x) + i] = t[i]
  <2> DEFINE v == t \o z
  <2>1. /\ v \in Seq(Bytes) /\ Len(v) = Len(t) + Len(z) /\ \A i \in 1..Len(t) : v[i] = t[i]
        /\ Len(t) \in Nat /\ Len(z) \in Nat
    BY Concat
  <2> HIDE DEF v
  <2>2. /\ x \o v \in Seq(Bytes) /\ Len(x \o v) = Len(x) + Len(v) /\ Len(x) \in Nat
        /\ \A i \in 1..Len(v) : (x \o v)[Len(x) + i] = v[i]
    <3>1. v \in Seq(Bytes)
      BY <2>1
    <3> QED
      BY <3>1, Concat
  <2>3. \A i \in 1..Len(t) : i \in 1..Len(v)
    BY <2>1
  <2>4. \A i \in 1..Len(t) : (x \o v)[Len(x) + i] = t[i]
    BY <2>1, <2>2, <2>3
  <2> QED
    BY <2>1, <2>2, <2>4 DEF v
<1> HIDE DEF u
<1>2. g \in Seq(Bytes) /\ Len(g) = Len(t) /\ \A i \in 1..Len(g) : g[i] = u[Len(x) + i]
  <2> DEFINE w == But(First(u, Len(x) + Len(t)), Len(x))
  <2>1. Len(x) + 1 \in Nat /\ Len(x) + Len(t) <= Len(u) /\ Len(x) + 1 >= 1
    BY <1>1
  <2>2. g \in Seq(Bytes)
    BY <1>1, <2>1
  <2>3. Len(g) = Len(t)
    BY <1>1, <2>1
  <2>4. \A i \in 1..Len(t) : g[i] = u[(Len(x) + 1) + i - 1] /\ (Len(x) + 1) + i - 1 = Len(x) + i
    BY <1>1, <2>1
  <2> HIDE DEF g
  <2> QED
    BY <2>2, <2>3, <2>4
<1> HIDE DEF g
<1>3. g = t
  BY <1>1, <1>2, SeqEqual
<1>4. Len(x) + 1 \in 1..(Len(u) - Len(t) + 1) /\ (Len(x) + 1) + Len(t) - 1 = Len(x) + Len(t)
  BY <1>1
<1> QED
  BY <1>3, <1>4 DEF Places, g, u

\* There is one prompt where one ends a text that has none.
LEMMA PromptPlace ==
  ASSUME NEW x \in Seq(Before)
  PROVE  Places(x \o Prompt, Prompt) = {Len(x) + 1} /\ Lowest(Places(x \o Prompt, Prompt)) = Len(x) + 1
<1> DEFINE u == x \o Prompt
<1>0. x \in Seq(Bytes) /\ Prompt \in Seq(Bytes) /\ Len(Prompt) = PromptLen /\ PromptLen \in Nat /\ 2 <= PromptLen
  BY BeforeType, PromptType, SeqMonotonic DEF PromptLen
<1>1. Len(x) + 1 \in Places(u, Prompt)
  <2>1. Len(x) + 1 \in Places(x \o (Prompt \o <<>>), Prompt)
    BY <1>0, PlaceAt, EmptySeq
  <2>2. Prompt \o <<>> = Prompt
    BY <1>0, ConcatEmptySeq
  <2> QED
    BY <2>1, <2>2
<1>2. /\ u \in Seq(Bytes) /\ Len(u) = Len(x) + PromptLen /\ Len(x) \in Nat
      /\ \A i \in 1..Len(x) : u[i] = x[i]
      /\ \A i \in 1..PromptLen : u[Len(x) + i] = Prompt[i]
  <2>1. Prompt \in Seq(Bytes) /\ x \in Seq(Bytes)
    BY <1>0
  <2>2. /\ u \in Seq(Bytes) /\ Len(u) = Len(x) + Len(Prompt) /\ Len(x) \in Nat
        /\ \A i \in 1..Len(x) : u[i] = x[i]
        /\ \A i \in 1..Len(Prompt) : u[Len(x) + i] = Prompt[i]
    BY <2>1, Concat
  <2> QED
    BY <1>0, <2>2
<1>3. ASSUME NEW i \in Places(u, Prompt) PROVE i = Len(x) + 1
  <2> DEFINE j == i + PromptLen - 1
  <2> HIDE DEF u
  <2>1. i \in 1..(Len(u) - PromptLen + 1) /\ SubSeq(u, i, j) = Prompt
    BY <1>0, <1>3 DEF Places
  <2>2. i \in 1..Len(u) /\ j \in 1..Len(u) /\ PromptLen \in 1..(j - i + 1) /\ i + PromptLen - 1 = j
    BY <1>0, <1>2, <2>1
  <2>3. u[j] = Final
    <3> HIDE DEF j
    <3>1. SubSeq(u, i, j)[PromptLen] = u[i + PromptLen - 1]
      BY <1>2, <2>2
    <3> QED
      BY <2>1, <2>2, <3>1 DEF Final
  <2>4. ~(j \in 1..Len(x))
    <3> SUFFICES ASSUME j \in 1..Len(x) PROVE FALSE
      OBVIOUS
    <3>1. u[j] = x[j] /\ x[j] \in Before
      BY <1>2
    <3> QED
      BY <2>3, <3>1 DEF Before
  <2>5. j - Len(x) \in 1..PromptLen /\ Len(x) + (j - Len(x)) = j
    BY <1>0, <1>2, <2>2, <2>4
  <2>6. Prompt[j - Len(x)] = Prompt[PromptLen]
    BY <1>2, <2>3, <2>5 DEF Final
  <2>7. j - Len(x) = PromptLen
    <3>1. PromptLen \in 1..PromptLen
      BY <1>0
    <3>2. \A k, l \in 1..PromptLen : k # l => Prompt[k] # Prompt[l]
      BY ScanAssumption
    <3> HIDE DEF j
    <3> QED
      BY <2>5, <2>6, <3>1, <3>2
  <2> QED
    BY <1>0, <1>2, <2>2, <2>7
<1>4. Places(u, Prompt) = {Len(x) + 1}
  BY <1>1, <1>3
<1>5. Lowest({Len(x) + 1}) = Len(x) + 1
  BY <1>2, LowestOf
<1> QED
  BY <1>4, <1>5

\* Nor do the texts around it change.
LEMMA StrippedMiddle ==
  ASSUME NEW s \in Seq(Bytes), NEW p \in Seq(Clean), p # <<>>, NEW z \in Seq(Bytes)
  PROVE  Stripped(s \o (p \o z)) = Stripped(s) \o (p \o Stripped(z))
<1>1. p \in Seq(Bytes) /\ Stripped(p) = p
  BY StrippedIsClean
<1>2. p[1] # "m" /\ p[Len(p)] # "e"
  <2>1. 1 \in 1..Len(p) /\ Len(p) \in 1..Len(p)
    BY EmptySeq
  <2>2. p[1] \in Clean /\ p[Len(p)] \in Clean
    BY <2>1
  <2> QED
    BY <2>2 DEF Clean
<1>3. ~Seam(p, z)
  BY <1>2 DEF Seam
<1>4. Stripped(p \o z) = p \o Stripped(z)
  BY <1>1, <1>3, StrippedConcat
<1> DEFINE v == p \o z
<1>5. v \in Seq(Bytes) /\ v # <<>> /\ v[1] # "m"
  <2>1. 1 \in 1..Len(p)
    BY EmptySeq
  <2>2. v \in Seq(Bytes) /\ Len(v) = Len(p) + Len(z) /\ v[1] = p[1] /\ Len(z) \in Nat
    BY <1>1, <2>1, Concat
  <2> HIDE DEF v
  <2>3. Len(v) # 0
    BY <2>1, <2>2
  <2> QED
    BY <1>2, <2>2, <2>3
<1> HIDE DEF v
<1>6. ~Seam(s, v)
  BY <1>5 DEF Seam
<1>7. Stripped(s \o v) = Stripped(s) \o Stripped(v)
  BY <1>5, <1>6, StrippedConcat
<1> QED
  BY <1>4, <1>7 DEF v

-----------------------------------------------------------------------------
(* One step of the scanner. *)

LEMMA PromptIsText == Prompt \in Texts /\ Prompt # <<>> /\ Len(Prompt) = PromptLen /\ Prompt[Len(Prompt)] = Final
<1>1. Prompt \in Seq(Bytes) /\ Prompt \in Seq(Clean) /\ Len(Prompt) = PromptLen /\ PromptLen \in Nat /\ 2 <= PromptLen
  BY PromptType DEF PromptLen
<1>2. \A i \in 1..Len(Prompt) : Prompt[i] # "e" /\ Prompt[i] # "m"
  <2>1. \A i \in 1..Len(Prompt) : Prompt[i] \in Clean
    BY <1>1
  <2> QED
    BY <2>1 DEF Clean
<1>3. Len(Prompt) \in 1..Len(Prompt)
  BY <1>1
<1>4. Paired(Prompt) /\ ~EndsInEscape(Prompt)
  BY <1>2, <1>3 DEF Paired, EndsInEscape
<1>5. Prompt # <<>>
  BY <1>1
<1> QED
  BY <1>1, <1>4, <1>5 DEF Texts, Final

\* Of two ways to cut a text, one is within the other.
LEMMA Overlap ==
  ASSUME NEW z, NEW u, NEW v, NEW a, NEW b
  PROVE  Pieces(z, u, v) /\ Pieces(z, a, b) /\ Len(u) <= Len(a)
           => \E x : Pieces(a, u, x) /\ Pieces(v, x, b)
<1>0. SUFFICES ASSUME Pieces(z, u, v), Pieces(z, a, b), Len(u) <= Len(a)
               PROVE  \E x : Pieces(a, u, x) /\ Pieces(v, x, b)
  OBVIOUS
<1>1. /\ u \in Seq(Bytes) /\ v \in Seq(Bytes) /\ a \in Seq(Bytes) /\ b \in Seq(Bytes)
      /\ z = u \o v /\ z = a \o b /\ Len(u) <= Len(a)
  BY <1>0 DEF Pieces
<1>2. Len(u) \in Nat
  BY <1>1
<1> DEFINE x == But(a, Len(u))
<1>3. x \in Seq(Bytes) /\ First(a, Len(u)) \o x = a
  <2>1. a \in Seq(Bytes)
    BY <1>1
  <2> QED
    BY <1>2, <2>1, Joined, ButPiece
<1>4. First(u \o v, Len(u)) = u
  <2>1. u \in Seq(Bytes) /\ v \in Seq(Bytes)
    BY <1>1
  <2> QED
    BY <2>1, CutAtJoin
<1>5. First(a \o b, Len(u)) = First(a, Len(u))
  <2>1. a \in Seq(Bytes) /\ b \in Seq(Bytes) /\ Len(u) <= Len(a)
    BY <1>1
  <2> QED
    BY <1>2, <2>1, CutWithin
<1> HIDE DEF x
<1>6. a = u \o x
  <2>1. u \o v = a \o b
    BY <1>1
  <2> QED
    BY <1>3, <1>4, <1>5, <2>1
<1>7. u \in Seq(Bytes) /\ x \in Seq(Bytes) /\ b \in Seq(Bytes) /\ v \in Seq(Bytes)
  BY <1>1, <1>3
<1>8. (u \o x) \o b = u \o (x \o b)
  BY <1>7, BytesAssoc, Zenon
<1> DEFINE y == x \o b
<1>9. y \in Seq(Bytes)
  BY <1>7, Concat
<1>10. u \o v = u \o y
  BY <1>1, <1>6, <1>8
<1> HIDE DEF y
<1>11. v = y
  BY <1>7, <1>9, <1>10, Cancel
<1> QED
  BY <1>6, <1>7, <1>11 DEF Pieces, y

\* What is kept back is enough for a prompt, or nothing has gone to the buffer.
Lags(s, d, c) == d = <<>> \/ Keep + Slack(s) <= Len(c) + 1

LEMMA LagsPieces ==
  ASSUME NEW s, NEW d, NEW c
  PROVE  Lags(s, d, c) /\ Pieces(Stripped(s), d, c) => (c = <<>> => d = <<>>)
<1>0. SUFFICES ASSUME Lags(s, d, c), c = <<>>, d # <<>> PROVE FALSE
  OBVIOUS
<1>1. Len(c) = 0 /\ Keep + Slack(s) <= Len(c) + 1
  BY <1>0 DEF Lags
<1>2. Slack(s) \in Nat /\ Keep \in Nat /\ 2 <= Keep
  BY Sizes DEF Slack
<1> QED
  BY <1>1, <1>2

\* A scan that ends in the prompt, and before it what is not in the buffer yet.
Arrives(txt, d, w) == \E x : Pieces(Stripped(txt), d, x) /\ w = x \o Prompt

\* The read that has the end of the prompt finds it whole after what was not stored yet.
LEMMA PromptArrives ==
  ASSUME NEW txt, NEW s, NEW t, NEW d, NEW c
  PROVE  /\ txt \in Texts /\ txt \o Prompt = s \o t /\ t # <<>>
         /\ s \in Seq(Bytes) /\ t \in Seq(Bytes) /\ Pieces(Stripped(s), d, c) /\ Lags(s, d, c)
      => Arrives(txt, d, Stripped(c \o t))
<1>0. SUFFICES ASSUME txt \in Texts, txt \o Prompt = s \o t, t # <<>>,
                      s \in Seq(Bytes), t \in Seq(Bytes), Pieces(Stripped(s), d, c), Lags(s, d, c)
               PROVE  Arrives(txt, d, Stripped(c \o t))
  OBVIOUS
<1> DEFINE y == Stripped(txt)  w == Stripped(c \o t)  z == Stripped(s \o t)
<1>1. txt \in Seq(Bytes) /\ d \in Seq(Bytes) /\ c \in Seq(Bytes) /\ Prompt \in Seq(Bytes)
  BY <1>0, PromptType DEF Texts, Pieces
<1>2. Paired(s \o t)
  <2>1. txt \o Prompt \in Texts
    BY <1>0, PromptIsText, TextsConcat
  <2> QED
    BY <1>0, <2>1 DEF Texts
<1>3. c = <<>> => d = <<>>
  BY <1>0, LagsPieces
<1>4. z = d \o w /\ (~EndsInEscape(s) => w = c \o Stripped(t))
  <2>1. s \in Seq(Bytes) /\ t \in Seq(Bytes) /\ t # <<>> /\ Pieces(Stripped(s), d, c)
    BY <1>0
  <2>2. Resumed(s, t, d, c)
    BY <1>2, <1>3, <2>1, Resume
  <2> QED
    BY <2>2 DEF Resumed, Pieces
<1>5. z = y \o Prompt
  BY <1>0, <1>1, PromptType, StrippedTail
<1>6. y \in Seq(Bytes) /\ w \in Seq(Bytes)
  <2>1. c \o t \in Seq(Bytes)
    BY <1>0, <1>1, Concat
  <2> QED
    BY <1>1, <2>1, StrippedBytes
<1>7. Pieces(z, d, w) /\ Pieces(z, y, Prompt)
  BY <1>1, <1>4, <1>5, <1>6 DEF Pieces
<1>8. PICK t1 : t1 \in Seq(Bytes) /\ t = t1 \o <<Final>>
  <2>1. t[Len(t)] = Final
    <3> DEFINE a == txt \o Prompt  b == s \o t
    <3>1. /\ a \in Seq(Bytes) /\ Len(a) = Len(txt) + Len(Prompt) /\ Len(txt) \in Nat
          /\ \A i \in 1..Len(Prompt) : a[Len(txt) + i] = Prompt[i]
      BY <1>1, Concat
    <3>2. /\ Len(b) = Len(s) + Len(t) /\ Len(s) \in Nat /\ Len(t) \in Nat
          /\ \A i \in 1..Len(t) : b[Len(s) + i] = t[i]
      BY <1>0, Concat
    <3>3. Len(Prompt) \in 1..Len(Prompt) /\ Prompt[Len(Prompt)] = Final
      BY <1>1, PromptIsText, EmptySeq
    <3>4. Len(t) \in 1..Len(t)
      BY <1>0, <3>2, EmptySeq
    <3>5. a = b
      BY <1>0
    <3> HIDE DEF a, b
    <3>6. a[Len(a)] = Final
      BY <3>1, <3>3
    <3>7. b[Len(b)] = t[Len(t)]
      BY <3>2, <3>4
    <3> QED
      BY <3>5, <3>6, <3>7
  <2>2. \E t1 \in Seq(Bytes) : t = t1 \o <<t[Len(t)]>> /\ t[Len(t)] \in Bytes
    BY <1>0, LastSplit
  <2> QED
    BY <2>1, <2>2
<1>9. <<Final>> \in Seq(Clean) /\ <<Final>> \in Seq(Bytes) /\ <<Final>> # <<>> /\ <<Final>>[1] # "m"
  <2>1. Final \in Clean /\ Final \in Bytes
    <3>1. Prompt \in Seq(Clean) /\ Len(Prompt) \in 1..Len(Prompt) /\ Prompt[Len(Prompt)] = Final
      <4>1. Len(Prompt) = PromptLen /\ PromptLen \in Nat /\ 2 <= PromptLen /\ Prompt \in Seq(Clean)
        BY PromptType, PromptIsText
      <4> QED
        BY <4>1, PromptIsText
    <3>2. Final \in Clean
      BY <3>1
    <3> QED
      BY <3>2 DEF Clean
  <2> QED
    BY <2>1 DEF Clean
<1>10. d # <<>> => Keep <= Len(w)
  <2> SUFFICES ASSUME d # <<>> PROVE Keep <= Len(w)
    OBVIOUS
  <2>1. Keep + Slack(s) <= Len(c) + 1 /\ Len(c) \in Nat /\ Keep \in Nat
    BY <1>0, <1>1, Sizes DEF Lags
  <2>2. CASE t1 = <<>>
    <3>1. t = <<Final>>
      BY <1>8, <1>9, <2>2, ConcatEmptySeq
    <3>2. t[1] # "m"
      BY <1>9, <3>1
    <3>3. ~EndsInEscape(s)
      BY <1>0, <1>2, <3>2, PairedPrefix
    <3>4. Stripped(t) = <<Final>>
      BY <1>9, <3>1, StrippedIsClean
    <3>5. w = c \o <<Final>>
      BY <1>4, <3>3, <3>4
    <3> HIDE DEF w
    <3>6. Len(c \o <<Final>>) = Len(c) + 1
      <4>1. c \in Seq(Bytes) /\ <<Final>> \in Seq(Bytes) /\ Len(<<Final>>) = 1
        BY <1>1, <1>9
      <4> QED
        BY <4>1, Concat
    <3>7. Slack(s) \in Nat
      BY DEF Slack
    <3> QED
      BY <2>1, <3>5, <3>6, <3>7
  <2>3. CASE t1 # <<>>
    <3>1. (s \o t1) \o <<Final>> = s \o t /\ (c \o t1) \o <<Final>> = c \o t
      <4>1. s \in Seq(Bytes) /\ c \in Seq(Bytes) /\ t1 \in Seq(Bytes)
        BY <1>0, <1>1, <1>8
      <4>2. (s \o t1) \o <<Final>> = s \o (t1 \o <<Final>>)
        BY <1>9, <4>1, BytesAssoc, Zenon
      <4>3. (c \o t1) \o <<Final>> = c \o (t1 \o <<Final>>)
        BY <1>9, <4>1, BytesAssoc, Zenon
      <4> QED
        BY <1>8, <4>2, <4>3, Zenon
    <3>2. s \o t1 \in Seq(Bytes) /\ c \o t1 \in Seq(Bytes)
      BY <1>0, <1>1, <1>8, Concat
    <3>3. Paired(s \o t1)
      <4> DEFINE a == s \o t1
      <4>1. a \in Seq(Bytes) /\ Paired(a \o <<Final>>)
        BY <1>2, <3>1, <3>2
      <4> HIDE DEF a
      <4>2. Paired(a)
        BY <1>9, <4>1, PairedPrefix
      <4> QED
        BY <4>2 DEF a
    <3>4. Len(Stripped(c \o t1)) + Slack(s) >= Len(c) + Slack(s \o t1)
      <4>1. Resumed(s, t1, d, c)
        BY <1>0, <1>3, <1>8, <2>3, <3>3, Resume
      <4> QED
        BY <4>1 DEF Resumed
    <3> DEFINE v == Stripped(c \o t1)
    <3>5. v \in Seq(Bytes)
      BY <3>2, StrippedBytes
    <3>6. w = v \o <<Final>>
      <4> DEFINE a == c \o t1
      <4>1. a \in Seq(Bytes)
        BY <3>2
      <4> HIDE DEF a
      <4>2. Stripped(a \o <<Final>>) = Stripped(a) \o <<Final>>
        BY <1>9, <4>1, StrippedTail
      <4> QED
        BY <3>1, <4>2 DEF a
    <3>7. Len(v) + Slack(s) >= Len(c) + Slack(s \o t1) /\ Slack(s) \in Nat /\ Slack(s \o t1) \in Nat
      BY <3>4 DEF Slack
    <3> HIDE DEF v, w
    <3>8. Len(v \o <<Final>>) = Len(v) + 1 /\ Len(v) \in Nat
      <4>1. Len(<<Final>>) = 1
        BY <1>9
      <4> QED
        BY <1>9, <3>5, <4>1, Concat
    <3> QED
      BY <2>1, <3>6, <3>7, <3>8
  <2> QED
    BY <2>2, <2>3
<1>11. Len(d) <= Len(y)
  <2>1. Len(z) = Len(d) + Len(w) /\ Len(d) \in Nat /\ Len(w) \in Nat
    <3> HIDE DEF z, w
    <3>1. d \in Seq(Bytes) /\ w \in Seq(Bytes) /\ z = d \o w
      BY <1>7 DEF Pieces
    <3> QED
      BY <3>1, Concat
  <2>2. Len(z) = Len(y) + PromptLen /\ Len(y) \in Nat
    <3> HIDE DEF z, y
    <3>1. y \in Seq(Bytes) /\ Prompt \in Seq(Bytes) /\ z = y \o Prompt /\ Len(Prompt) = PromptLen
      BY <1>7, PromptIsText DEF Pieces
    <3> QED
      BY <3>1, Concat
  <2> HIDE DEF y, z, w
  <2>3. CASE d = <<>>
    BY <2>2, <2>3
  <2>4. CASE d # <<>>
    BY <1>10, <2>1, <2>2, <2>4, Sizes
  <2> QED
    BY <2>3, <2>4
<1> HIDE DEF y, z, w
<1>12. \E x : Pieces(y, d, x) /\ Pieces(w, x, Prompt)
  BY <1>7, <1>11, Overlap
<1> QED
  BY <1>12 DEF Pieces, Arrives, y, w

\* What of a scanned text is not kept back.
Passed(w) == First(w, Len(w) - Len(LastOf(w, Keep)))

LEMMA KeptBack ==
  ASSUME NEW w \in Seq(Bytes)
  PROVE  /\ Passed(w) \in Seq(Bytes) /\ LastOf(w, Keep) \in Seq(Bytes)
         /\ Passed(w) \o LastOf(w, Keep) = w
         /\ Len(LastOf(w, Keep)) = IF Keep < Len(w) THEN Keep ELSE Len(w)
         /\ Len(w) <= Keep => Passed(w) = <<>>
<1> DEFINE k == LastOf(w, Keep)
<1>1. /\ k \in Seq(Bytes) /\ Len(k) = (IF Keep < Len(w) THEN Keep ELSE Len(w))
      /\ Len(w) \in Nat /\ Keep \in Nat
  BY LastPiece, Sizes
<1>2. CASE Len(w) <= Keep
  <2>1. k = w
    BY <1>1, <1>2, Joined
  <2>2. Passed(w) = <<>>
    <3>1. Len(w) - Len(k) = 0
      BY <1>1, <1>2
    <3>2. First(w, 0) = <<>>
      BY <1>1 DEF First
    <3> QED
      BY <3>1, <3>2 DEF Passed
  <2>3. <<>> \o w = w
    BY ConcatEmptySeq
  <2> QED
    BY <1>1, <2>1, <2>2, <2>3, EmptySeq
<1>3. CASE Keep < Len(w)
  <2>1. Passed(w) = First(w, Len(w) - Keep) /\ Len(w) - Keep \in Nat
    BY <1>1, <1>3 DEF Passed
  <2>2. First(w, Len(w) - Keep) \in Seq(Bytes) /\ First(w, Len(w) - Keep) \o k = w
    <3>1. First(w, Len(w) - Keep) \in Seq(Bytes)
      BY <2>1, FirstPiece
    <3>2. Keep <= Len(w)
      BY <1>1, <1>3
    <3>3. First(w, Len(w) - Keep) \o k = w
      BY <1>1, <3>2, Joined
    <3> QED
      BY <3>1, <3>3
  <2>3. ~(Len(w) <= Keep)
    BY <1>1, <1>3
  <2> QED
    BY <1>1, <2>1, <2>2, <2>3
<1> QED
  BY <1>1, <1>2, <1>3

\* A scan without the end of a prompt keeps the last Keep bytes back.
LEMMA OutputWithout ==
  ASSUME NEW str \in Seq(Before), ScanOutput(str)
  PROVE  Store(Passed(str)) /\ carry' = LastOf(str, Keep) /\ UNCHANGED <<event, state, after>>
<1> DEFINE content == IF WithoutEnd(str) = <<>> THEN str ELSE WithoutEnd(str)
<1>1. content \in Seq(Before)
  <2>1. PICK k \in 0..Len(str) : WithoutEnd(str) = First(str, k)
    BY EndCut
  <2>2. First(str, k) \in Seq(Before)
    BY FirstPiece
  <2> QED
    BY <2>1, <2>2
<1> HIDE DEF content
<1>2. Places(content, Prompt) = {}
  BY <1>1, NoPrompt
<1> QED
  BY <1>2 DEF ScanOutput, content, Passed

LEMMA AfterPrompt ==
  ASSUME NEW x \in Seq(Before)
  PROVE  LET u == x \o Prompt IN
           /\ u \in Seq(Bytes) /\ u # <<>> /\ u[Len(u)] = Final
           /\ \A i \in DOMAIN u : u[i] = "n" => i < Len(x) + 1
           /\ First(u, Len(x)) = x
<1> DEFINE u == x \o Prompt
<1>1. x \in Seq(Bytes) /\ Prompt \in Seq(Bytes)
  BY BeforeType, PromptType, SeqMonotonic
<1>2. /\ u \in Seq(Bytes) /\ Len(u) = Len(x) + Len(Prompt) /\ Len(x) \in Nat /\ Len(Prompt) \in Nat
      /\ \A i \in 1..Len(x) : u[i] = x[i]
      /\ \A i \in 1..Len(Prompt) : u[Len(x) + i] = Prompt[i]
  BY <1>1, Concat
<1>3. First(u, Len(x)) = x
  BY <1>1, CutAtJoin
<1> HIDE DEF u
<1>4. Len(Prompt) = PromptLen /\ PromptLen \in Nat /\ 2 <= PromptLen /\ Prompt[Len(Prompt)] = Final
  BY PromptType, PromptIsText
<1>5. u # <<>> /\ u[Len(u)] = Final
  BY <1>2, <1>4
<1>6. ASSUME NEW i \in DOMAIN u, u[i] = "n", ~(i < Len(x) + 1) PROVE FALSE
  <2>1. i \in 1..Len(u)
    BY <1>2
  <2>2. i - Len(x) \in 1..Len(Prompt) /\ Len(x) + (i - Len(x)) = i
    BY <1>2, <1>6, <2>1
  <2>3. Prompt[i - Len(x)] = "n"
    BY <1>2, <1>6, <2>2
  <2>4. Prompt[i - Len(x)] \notin Plain
    BY <1>4, <2>2, PromptType
  <2> QED
    BY <2>3, <2>4 DEF Plain
<1> QED
  BY <1>2, <1>3, <1>5, <1>6 DEF u

\* A scan with a prompt at its end stores what is before it, and sets the event.
LEMMA OutputWith ==
  ASSUME NEW x \in Seq(Before), ScanOutput(x \o Prompt)
  PROVE  Store(x) /\ event' = TRUE /\ carry' = <<>> /\ UNCHANGED <<state, after>>
<1> DEFINE u == x \o Prompt
           content == IF WithoutEnd(u) = <<>> THEN u ELSE WithoutEnd(u)
           newlines == {i \in DOMAIN content : content[i] = "n"}
           prompts == {i \in Places(content, Prompt) : \A j \in newlines : j < i}
<1>1. /\ u \in Seq(Bytes) /\ u # <<>> /\ u[Len(u)] = Final
      /\ \A i \in DOMAIN u : u[i] = "n" => i < Len(x) + 1
      /\ First(u, Len(x)) = x
  BY AfterPrompt
<1>2. Places(u, Prompt) = {Len(x) + 1}
  BY PromptPlace
<1>3. \/ /\ prompts # {}
         /\ Store(First(content, Lowest(prompts) - 1)) /\ event' = TRUE /\ carry' = <<>>
      \/ /\ prompts = {}
         /\ Store(First(u, Len(u) - Len(LastOf(u, Keep))))
         /\ carry' = LastOf(u, Keep) /\ UNCHANGED event
  BY DEF ScanOutput
<1>4. UNCHANGED <<state, after>>
  BY DEF ScanOutput
<1> HIDE DEF u
<1>5. content = u
  <2>1. WithoutEnd(u) = u
    BY <1>1, BeforeType, EndCut
  <2> QED
    BY <2>1
<1> HIDE DEF content
<1>6. prompts = {Len(x) + 1}
  BY <1>1, <1>2, <1>5
<1>7. Lowest({Len(x) + 1}) = Len(x) + 1 /\ (Len(x) + 1) - 1 = Len(x)
  BY LowestOf
<1>8. First(content, Lowest(prompts) - 1) = x
  BY <1>1, <1>5, <1>6, <1>7
<1> HIDE DEF prompts
<1> QED
  BY <1>3, <1>4, <1>6, <1>8

LEMMA MarksOf ==
  ASSUME NEW str \in Seq(Bytes), Places(str, SetupOk) # {}
  PROVE  Lowest(Places(str, SetupOk)) + 1 \in Nat
<1>1. Places(str, SetupOk) \in SUBSET Nat
  BY DEF Places
<1> QED
  BY <1>1, LowestIs

\* Without the end of a prompt start-up goes on.
LEMMA InitWithout ==
  ASSUME NEW str \in Seq(Before), ScanInit(str), after \in BOOLEAN, carry \in Seq(Before)
  PROVE  /\ state' = "init" /\ event' = event /\ carry' \in Seq(Before)
         /\ after' = (after \/ Places(str, SetupOk) # {})
         /\ ~after' => carry' = <<>>
         /\ ClearBuffer \/ UNCHANGED buffer
<1> DEFINE marks == Places(str, SetupOk)
<1>1. Places(str, Prompt) = {}
  BY NoPrompt
<1>2. marks # {} => WithoutStart(But(str, Lowest(marks) + 1)) \in Seq(Before)
  <2> SUFFICES ASSUME marks # {} PROVE WithoutStart(But(str, Lowest(marks) + 1)) \in Seq(Before)
    OBVIOUS
  <2>1. Lowest(marks) + 1 \in Nat
    BY BeforeType, SeqMonotonic, MarksOf
  <2> HIDE DEF marks
  <2> DEFINE w == But(str, Lowest(marks) + 1)
  <2>2. w \in Seq(Before)
    BY <2>1, ButPiece
  <2> HIDE DEF w
  <2>3. PICK k \in 0..Len(w) : WithoutStart(w) = But(w, k)
    BY <2>2, StartCut
  <2>4. But(w, k) \in Seq(Before)
    BY <2>2, ButPiece
  <2> QED
    BY <2>3, <2>4 DEF w
<1>3. /\ state' = "init"
      /\ after' = (after \/ marks # {})
      /\ carry' = IF marks # {} THEN WithoutStart(But(str, Lowest(marks) + 1))
                  ELSE IF after THEN carry ELSE <<>>
      /\ IF marks # {} THEN ClearBuffer ELSE UNCHANGED buffer
      /\ UNCHANGED event
  BY <1>1 DEF ScanInit
<1>4. <<>> \in Seq(Before)
  OBVIOUS
<1> HIDE DEF marks
<1> QED
  BY <1>2, <1>3, <1>4 DEF marks

\* With it, start-up ends or is stuck; when it ends nothing is left.
LEMMA InitWith ==
  ASSUME NEW z \in Seq(Before), ScanInit(z \o <<Final>>), after \in BOOLEAN, carry \in Seq(Bytes)
  PROVE  /\ event' = event /\ after' \in BOOLEAN /\ carry' \in Seq(Bytes)
         /\ ClearBuffer \/ UNCHANGED buffer
         /\ (state' = "ready" /\ carry' = <<>>) \/ state' = "init"
         /\ (after \/ Places(z \o <<Final>>, SetupOk) # {}) /\ Places(z \o <<Final>>, Prompt) # {}
              => state' = "ready"
<1> DEFINE u == z \o <<Final>>  marks == Places(u, SetupOk)  prompts == Places(u, Prompt)
           found == (after \/ marks # {}) /\ prompts # {}
           rest == But(u, Lowest(prompts) + PromptLen - 1)
<1>1. /\ u \in Seq(Bytes) /\ Len(u) = Len(z) + 1 /\ Len(z) \in Nat
      /\ \A i \in 1..Len(z) : u[i] = z[i]
  <2>1. z \in Seq(Bytes) /\ Final \in Bytes
    BY BeforeType, SeqMonotonic
  <2> QED
    BY <2>1
<1>2. /\ state' = IF found THEN "ready" ELSE "init"
      /\ after' = IF found THEN FALSE ELSE (after \/ marks # {})
      /\ carry' = IF found THEN rest
                  ELSE IF marks # {} THEN WithoutStart(But(u, Lowest(marks) + 1))
                  ELSE IF after THEN carry ELSE <<>>
      /\ IF found \/ marks # {} THEN ClearBuffer ELSE UNCHANGED buffer
      /\ UNCHANGED event
  BY DEF ScanInit
<1> HIDE DEF u
<1>3. prompts # {} => rest = <<>>
  <2> SUFFICES ASSUME prompts # {} PROVE rest = <<>>
    OBVIOUS
  <2>1. prompts \in SUBSET Nat
    BY DEF Places
  <2> DEFINE i == Lowest(prompts)  j == i + PromptLen - 1
  <2>2. i \in prompts
    <3> HIDE DEF prompts
    <3> QED
      BY <2>1, LowestIs
  <2> HIDE DEF i
  <2>3. i \in 1..(Len(u) - PromptLen + 1) /\ SubSeq(u, i, j) = Prompt /\ PromptLen \in Nat /\ 2 <= PromptLen
    <3>1. Len(Prompt) = PromptLen /\ PromptLen \in Nat /\ 2 <= PromptLen
      BY PromptType, PromptIsText
    <3> QED
      BY <2>2, <3>1 DEF Places
  <2>4. i \in 1..Len(u) /\ j \in 1..Len(u) /\ PromptLen \in 1..(j - i + 1) /\ i + PromptLen - 1 = j
    BY <1>1, <2>3
  <2>5. u[j] = Final
    <3> HIDE DEF j
    <3>1. SubSeq(u, i, j)[PromptLen] = u[i + PromptLen - 1]
      BY <1>1, <2>4
    <3> QED
      BY <2>3, <2>4, <3>1 DEF Final
  <2>6. ~(j \in 1..Len(z))
    <3> SUFFICES ASSUME j \in 1..Len(z) PROVE FALSE
      OBVIOUS
    <3>1. u[j] = z[j] /\ z[j] \in Before
      BY <1>1
    <3> QED
      BY <2>5, <3>1 DEF Before
  <2>7. j = Len(u)
    BY <1>1, <2>4, <2>6
  <2>8. But(u, Len(u)) = <<>>
    BY <1>1, Joined
  <2> QED
    BY <2>7, <2>8 DEF i
<1>4. marks # {} => WithoutStart(But(u, Lowest(marks) + 1)) \in Seq(Bytes)
  <2> SUFFICES ASSUME marks # {} PROVE WithoutStart(But(u, Lowest(marks) + 1)) \in Seq(Bytes)
    OBVIOUS
  <2>1. Lowest(marks) + 1 \in Nat
    BY <1>1, MarksOf
  <2> HIDE DEF marks
  <2> DEFINE w == But(u, Lowest(marks) + 1)
  <2>2. w \in Seq(Bytes)
    BY <1>1, <2>1, ButPiece
  <2> HIDE DEF w
  <2>3. PICK k \in 0..Len(w) : WithoutStart(w) = But(w, k)
    BY <2>2, StartCut
  <2>4. But(w, k) \in Seq(Bytes)
    BY <2>2, ButPiece
  <2> QED
    BY <2>3, <2>4 DEF w
<1>5. <<>> \in Seq(Bytes)
  OBVIOUS
<1> HIDE DEF marks, prompts, rest
<1>6. found => state' = "ready" /\ carry' = <<>> /\ after' = FALSE /\ ClearBuffer
  BY <1>2, <1>3
<1>7. ~found => /\ state' = "init" /\ carry' \in Seq(Bytes) /\ after' \in BOOLEAN
                /\ ClearBuffer \/ UNCHANGED buffer
  BY <1>2, <1>4, <1>5
<1> QED
  BY <1>2, <1>5, <1>6, <1>7 DEF marks, prompts, u

\* What has been read, scanned; and what of it has gone to the buffer.
Got == Stripped(First(Printed, read))
Behind(d) ==
  /\ Pieces(Got, d, carry) /\ Buffered(d) /\ Lags(First(Printed, read), d, carry)

\* What the shell prints has whole escape sequences, but for the last when the shell has ended.
TextInv == text \in Seq(Plain) /\ Paired(text) /\ (alive => ~EndsInEscape(text))

\* In start-up nothing is stored; unless all was read and the mark was missed, no prompt is kept
\* back.
StartInv ==
  state = "init" => /\ alive /\ ~event /\ answer.kind = "none" /\ Buffered(<<>>)
                    /\ read = Len(Printed) \/ carry \in Seq(Before)

\* A ready session has read all, and kept nothing back.
ReadyInv == state = "ready" => alive /\ read = Len(Printed) /\ carry = <<>>

\* While a command runs the event is set with the last byte of its prompt, and everything is in
\* the buffer then.
WaitInv ==
  state = "waiting" => /\ answer.kind = "none" /\ (event <=> alive /\ read = Len(Printed))
                       /\ ~event => \E d \in Seq(Bytes) : Behind(d)
                       /\ event => carry = <<>> /\ Buffered(Stripped(text))

\* So it is when the shell has ended, until the answer is made.
EndInv ==
  state = "terminated" => /\ ~alive /\ event /\ answer.kind \in {"none", "terminated"}
                          /\ answer.kind = "none" => Buffered(Stripped(text))

AnswerInv ==
  /\ answer.kind = "ready" => answer.shown = Shown(Stripped(text), Command)
  /\ answer.kind = "terminated" => answer.shown = Shown(Stripped(text), <<>>)

Inv == TypeOK /\ TextInv /\ StartInv /\ ReadyInv /\ WaitInv /\ EndInv /\ AnswerInv

\* The type invariant, with the parts that the provers need one by one.
LEMMA TypeParts ==
  TypeOK <=>
    /\ state \in {"init", "ready", "waiting", "terminated"}
    /\ after \in BOOLEAN /\ head_done \in BOOLEAN /\ event \in BOOLEAN /\ alive \in BOOLEAN
    /\ carry \in Seq(Bytes) /\ head \in Seq(Bytes) /\ tail \in Seq(Bytes) /\ text \in Seq(Bytes)
    /\ answer.shown \in Seq(Bytes)
    /\ Len(carry) <= Keep \/ state \in {"init", "ready"}
    /\ Len(head) <= HeadSize /\ Len(tail) <= TailSize /\ read \in 0..Len(Printed)
    /\ answer.kind \in {"none", "ready", "terminated"}
BY DEF TypeOK

LEMMA PrintedType ==
  ASSUME TextInv, text \in Seq(Bytes), alive \in BOOLEAN
  PROVE  /\ Printed \in Seq(Bytes) /\ Paired(Printed) /\ Len(Printed) \in Nat /\ Len(text) \in Nat
         /\ alive => /\ text \in Texts /\ Printed = text \o Prompt
                     /\ Len(Printed) = Len(text) + PromptLen
         /\ ~alive => Printed = text
<1>1. CASE alive
  <2>1. text \in Texts /\ Printed = text \o Prompt
    BY <1>1 DEF TextInv, Texts, Printed
  <2>2. text \o Prompt \in Texts
    BY <2>1, PromptIsText, TextsConcat
  <2>3. Printed \in Seq(Bytes) /\ Paired(Printed)
    BY <2>1, <2>2 DEF Texts
  <2>4. Len(text \o Prompt) = Len(text) + Len(Prompt) /\ Len(Prompt) = PromptLen /\ Len(text) \in Nat
    <3>1. Prompt \in Seq(Bytes) /\ Len(Prompt) = PromptLen
      BY PromptType, PromptIsText
    <3> QED
      BY <3>1, Concat
  <2>5. Len(Printed) \in Nat
    BY <2>3
  <2> QED
    BY <1>1, <2>1, <2>3, <2>4, <2>5
<1>2. CASE ~alive
  <2>1. Printed = text
    BY <1>2 DEF Printed
  <2> QED
    BY <1>2, <2>1 DEF TextInv
<1> QED
  BY <1>1, <1>2

\* What a read takes: t, after s.
LEMMA Taken ==
  ASSUME NEW P \in Seq(Bytes), NEW m \in 0..Len(P), NEW n \in (m + 1)..Len(P)
  PROVE  LET s == First(P, m)  t == SubSeq(P, m + 1, n) IN
           /\ s \in Seq(Bytes) /\ t \in Seq(Bytes) /\ t # <<>> /\ s \o t = First(P, n)
           /\ Len(s) = m /\ Len(t) = n - m
           /\ First(P, n) \in Seq(Bytes) /\ First(P, n) \o But(P, n) = P /\ But(P, n) \in Seq(Bytes)
           /\ First(P, Len(P)) = P
<1> DEFINE s == First(P, m)  t == SubSeq(P, m + 1, n)
<1>1. Len(P) \in Nat /\ m \in Nat /\ n \in Nat /\ m < n /\ n <= Len(P) /\ m < Len(P)
  OBVIOUS
<1>2. s = SubSeq(P, 1, m) /\ s \in Seq(Bytes) /\ Len(s) = m
  <2>1. s = SubSeq(P, 1, m)
    BY <1>1 DEF First
  <2> QED
    BY <1>1, <2>1, FirstPiece
<1>3. t \in Seq(Bytes) /\ Len(t) = n - m
  <2>1. m + 1 \in 1..Len(P) /\ n \in 1..Len(P)
    BY <1>1
  <2> QED
    BY <1>1, <2>1
<1>4. First(P, n) = SubSeq(P, 1, n)
  <2>1. CASE n < Len(P)
    BY <2>1 DEF First
  <2>2. CASE n = Len(P)
    BY <2>2 DEF First
  <2> QED
    BY <1>1, <2>1, <2>2
<1>5. s \o t = First(P, n)
  <2>1. 1 \in 1..(Len(P) + 1) /\ m \in (1 - 1)..Len(P) /\ n \in m..Len(P)
    BY <1>1
  <2>2. SubSeq(P, 1, m) \o SubSeq(P, m + 1, n) = SubSeq(P, 1, n)
    BY <2>1, ConcatAdjacentSubSeq, Zenon
  <2> QED
    BY <1>2, <1>4, <2>2
<1>6. First(P, n) \in Seq(Bytes) /\ But(P, n) \in Seq(Bytes) /\ First(P, n) \o But(P, n) = P
  BY <1>1, FirstPiece, ButPiece, Joined
<1>7. First(P, Len(P)) = P
  BY <1>1, Joined
<1>8. t # <<>>
  BY <1>1, <1>3
<1> HIDE DEF s, t
<1> QED
  BY <1>2, <1>3, <1>5, <1>6, <1>7, <1>8 DEF s, t

\* Before the last byte of the prompt is read, nothing that was read has it.
LEMMA EarlyIsBefore ==
  ASSUME TextInv, text \in Seq(Bytes), alive \in BOOLEAN, NEW n \in 0..Len(Printed),
         ~alive \/ n < Len(Printed)
  PROVE  First(Printed, n) \in Seq(Before)
<1>1. text \in Seq(Before)
  BY BeforeType, SeqMonotonic DEF TextInv
<1>2. Printed \in Seq(Bytes) /\ Len(Printed) \in Nat /\ Len(text) \in Nat
  BY PrintedType
<1>3. CASE ~alive
  <2>1. Printed = text
    BY <1>3, PrintedType
  <2> QED
    BY <1>1, <2>1, FirstPiece
<1>4. CASE alive
  <2>1. Printed = text \o Prompt /\ Len(Prompt) = PromptLen /\ Prompt \in Seq(Bytes) /\ PromptLen \in Nat
    BY <1>4, PrintedType, PromptIsText, PromptType
  <2>2. /\ Len(Printed) = Len(text) + Len(Prompt)
        /\ \A i \in 1..Len(text) : Printed[i] = text[i]
        /\ \A i \in 1..Len(Prompt) : Printed[Len(text) + i] = Prompt[i]
    <3>1. text \in Seq(Bytes) /\ Prompt \in Seq(Bytes)
      BY <2>1
    <3>2. /\ Len(text \o Prompt) = Len(text) + Len(Prompt)
          /\ \A i \in 1..Len(text) : (text \o Prompt)[i] = text[i]
          /\ \A i \in 1..Len(Prompt) : (text \o Prompt)[Len(text) + i] = Prompt[i]
      BY <3>1, Concat
    <3> QED
      BY <2>1, <3>2, Zenon
  <2>3. n < Len(Printed) /\ n \in Nat
    BY <1>4
  <2>4. ASSUME NEW i \in 1..n PROVE Printed[i] \in Before
    <3>1. CASE i \in 1..Len(text)
      BY <1>1, <2>2, <3>1
    <3>2. CASE ~(i \in 1..Len(text))
      <4> DEFINE k == i - Len(text)
      <4>1. k \in 1..PromptLen /\ k # PromptLen /\ Len(text) + k = i /\ PromptLen \in 1..PromptLen
        BY <1>2, <2>1, <2>2, <2>3, <3>2
      <4>2. Printed[i] = Prompt[k]
        BY <2>1, <2>2, <4>1
      <4>3. Prompt[k] # Final
        <5> HIDE DEF k
        <5> QED
          BY <4>1, ScanAssumption DEF Final
      <4>4. Prompt[k] \in Bytes
        BY <2>1, <4>1
      <4> QED
        BY <4>2, <4>3, <4>4 DEF Before
    <3> QED
      BY <3>1, <3>2
  <2> DEFINE f == First(Printed, n)
  <2>5. f \in Seq(Bytes) /\ Len(f) = n /\ \A i \in 1..Len(f) : f[i] = Printed[i]
    BY <1>2, <2>3, FirstPiece
  <2> HIDE DEF f
  <2>6. \A i \in 1..Len(f) : f[i] \in Before
    BY <2>4, <2>5
  <2>7. f \in Seq(Before)
    BY <2>5, <2>6, Retyped
  <2> QED
    BY <2>7 DEF f
<1> QED
  BY <1>3, <1>4

LEMMA StrippedBefore == \A s \in Seq(Before) : Stripped(s) \in Seq(Before)
<1>1. Before \in SUBSET Bytes
  BY BeforeType
<1>2. (Before \cup {"n"}) \ {"r"} \subseteq Before
  BY BeforeType DEF Plain
<1> QED
  BY <1>1, <1>2, StrippedType, SeqMonotonic

\* A read without the prompt: what is kept back still lags behind what was read.
LEMMA KeptOn ==
  ASSUME NEW s, NEW t, NEW d, NEW c
  PROVE  /\ s \in Seq(Bytes) /\ t \in Seq(Bytes) /\ t # <<>> /\ Paired(s \o t)
         /\ Pieces(Stripped(s), d, c) /\ Lags(s, d, c)
      => LET w == Stripped(c \o t) IN
           /\ w \in Seq(Bytes) /\ d \in Seq(Bytes)
           /\ Pieces(Stripped(s \o t), d \o Passed(w), LastOf(w, Keep))
           /\ Lags(s \o t, d \o Passed(w), LastOf(w, Keep))
<1> DEFINE w == Stripped(c \o t)  p == Passed(w)  k == LastOf(w, Keep)
<1>0. SUFFICES ASSUME s \in Seq(Bytes), t \in Seq(Bytes), t # <<>>, Paired(s \o t),
                      Pieces(Stripped(s), d, c), Lags(s, d, c)
               PROVE  /\ w \in Seq(Bytes) /\ d \in Seq(Bytes)
                      /\ Pieces(Stripped(s \o t), d \o p, k) /\ Lags(s \o t, d \o p, k)
  OBVIOUS
<1>1. Resumed(s, t, d, c)
  <2>1. c = <<>> => d = <<>>
    BY <1>0, LagsPieces
  <2> QED
    BY <1>0, <2>1, Resume
<1>2. /\ Pieces(Stripped(s \o t), d, w) /\ Len(w) + Slack(s) >= Len(c) + Slack(s \o t)
  BY <1>1 DEF Resumed
<1>3. d \in Seq(Bytes) /\ w \in Seq(Bytes) /\ Stripped(s \o t) = d \o w /\ c \in Seq(Bytes)
  BY <1>0, <1>2 DEF Pieces
<1>4. w \in Seq(Bytes)
  BY <1>3
<1> HIDE DEF w
<1>5. /\ p \in Seq(Bytes) /\ k \in Seq(Bytes) /\ p \o k = w
      /\ Len(k) = IF Keep < Len(w) THEN Keep ELSE Len(w)
      /\ Len(w) <= Keep => p = <<>>
  BY <1>4, KeptBack
<1> HIDE DEF p, k
<1>6. Pieces(Stripped(s \o t), d \o p, k)
  <2>1. d \in Seq(Bytes) /\ p \in Seq(Bytes) /\ k \in Seq(Bytes)
    BY <1>3, <1>5
  <2>2. (d \o p) \o k = d \o (p \o k)
    BY <2>1, BytesAssoc, Zenon
  <2>3. d \o p \in Seq(Bytes)
    BY <2>1, Concat
  <2> QED
    BY <1>3, <1>5, <2>1, <2>2, <2>3 DEF Pieces
<1>7. Lags(s \o t, d \o p, k)
  <2>1. /\ Slack(s) \in {0, 1} /\ Slack(s \o t) \in {0, 1} /\ Keep \in Nat
        /\ Len(w) \in Nat /\ Len(c) \in Nat
    BY <1>3, Sizes DEF Slack
  <2>2. CASE Keep < Len(w)
    <3>1. Len(k) = Keep
      BY <1>5, <2>2
    <3> QED
      BY <2>1, <3>1 DEF Lags
  <2>3. CASE ~(Keep < Len(w))
    <3>1. p = <<>> /\ Len(k) = Len(w)
      BY <1>5, <2>1, <2>3
    <3>2. d \o p = d
      BY <1>3, <3>1
    <3>3. CASE d = <<>>
      BY <3>2, <3>3 DEF Lags
    <3>4. CASE d # <<>>
      <4>1. Keep + Slack(s) <= Len(c) + 1
        BY <1>0, <3>4 DEF Lags
      <4>2. Keep + Slack(s \o t) <= Len(w) + 1
        BY <1>2, <2>1, <4>1
      <4> QED
        BY <3>1, <4>2 DEF Lags
    <3> QED
      BY <3>3, <3>4
  <2> QED
    BY <2>2, <2>3
<1> QED
  BY <1>3, <1>6, <1>7

\* The shell prints nothing else while its text and its life are left alone.
LEMMA TextKept ==
  ASSUME TextInv, UNCHANGED shell
  PROVE  TextInv' /\ Printed' = Printed /\ text' = text /\ alive' = alive
<1>1. text' = text /\ alive' = alive
  BY DEF shell
<1> QED
  BY <1>1 DEF TextInv, Printed

\* The mark and a line end are two bytes each.
LEMMA PairTexts ==
  ASSUME NEW x \in Plain \ {"e", "m"}, NEW y \in Plain \ {"e", "m"}
  PROVE  <<x, y>> \in Texts /\ <<x>> \o <<y>> = <<x, y>>
<1>1. <<x>> \o <<y>> \in Texts
  BY Short, TextsConcat
<1>2. <<x>> \o <<y>> = <<x, y>>
  <2> DEFINE u == <<x>> \o <<y>>  v == <<x, y>>
  <2>1. <<x>> \in Seq(Plain) /\ <<y>> \in Seq(Plain) /\ Len(<<x>>) = 1 /\ Len(<<y>>) = 1
    OBVIOUS
  <2>2. u \in Seq(Plain) /\ Len(u) = 2 /\ u[1] = <<x>>[1] /\ u[1 + 1] = <<y>>[1]
    BY <2>1, Concat
  <2>3. v \in Seq(Plain) /\ Len(v) = 2 /\ v[1] = x /\ v[2] = y
    OBVIOUS
  <2>4. u[1] = x /\ u[2] = y
    BY <2>2
  <2> HIDE DEF u, v
  <2>5. \A i \in 1..Len(u) : i = 1 \/ i = 2
    BY <2>2
  <2>6. \A i \in 1..Len(u) : u[i] = v[i]
    BY <2>3, <2>4, <2>5
  <2>7. u = v
    BY <2>2, <2>3, <2>6, SeqEqual
  <2> QED
    BY <2>7 DEF u, v
<1> QED
  BY <1>1, <1>2

LEMMA InitStep == Init => Inv
<1> SUFFICES ASSUME Init PROVE Inv
  OBVIOUS
<1>1. PICK echo \in Outputs(1), banner \in Outputs(1), rest \in Outputs(1) :
         text = banner \o echo \o SetupOk \o <<"r", "n">> \o rest
  BY DEF Init
<1>2. /\ echo \in Texts /\ echo \in Seq(Said) /\ banner \in Texts /\ banner \in Seq(Said)
      /\ rest \in Texts /\ rest \in Seq(Said)
  BY <1>1, OutputsAreTexts
<1>3. SetupOk \in Texts /\ <<"r", "n">> \in Texts
  <2>1. {"s", "t", "r", "n"} \subseteq Plain \ {"e", "m"}
    BY DEF Plain
  <2> QED
    BY <2>1, PairTexts DEF SetupOk
<1>4. text \in Texts
  <2>1. banner \o echo \in Texts
    BY <1>2, TextsConcat
  <2>2. banner \o echo \o SetupOk \in Texts
    BY <1>3, <2>1, TextsConcat
  <2>3. banner \o echo \o SetupOk \o <<"r", "n">> \in Texts
    BY <1>3, <2>2, TextsConcat
  <2> QED
    BY <1>1, <1>2, <2>3, TextsConcat
<1>5. text \in Seq(Plain)
  <2>1. Said \subseteq Plain
    BY DEF Said, Plain
  <2>2. echo \in Seq(Plain) /\ banner \in Seq(Plain) /\ rest \in Seq(Plain)
    BY <1>2, <2>1, SeqMonotonic
  <2>3. SetupOk \in Seq(Plain) /\ <<"r", "n">> \in Seq(Plain)
    BY DEF SetupOk, Plain
  <2>4. banner \o echo \in Seq(Plain)
    BY <2>2
  <2>5. banner \o echo \o SetupOk \in Seq(Plain)
    BY <2>3, <2>4
  <2>6. banner \o echo \o SetupOk \o <<"r", "n">> \in Seq(Plain)
    BY <2>3, <2>5
  <2> QED
    BY <1>1, <2>2, <2>6
<1>6. TextInv /\ text \in Seq(Bytes)
  BY <1>4, <1>5 DEF TextInv, Texts
<1>7. /\ state = "init" /\ after = FALSE /\ carry = <<>> /\ event = FALSE /\ read = 0 /\ alive = TRUE
      /\ head = <<>> /\ tail = <<>> /\ head_done = FALSE
      /\ answer.kind = "none" /\ answer.shown = <<>>
  BY DEF Init, NoAnswer
<1>8. Len(Printed) \in Nat
  BY <1>6, <1>7, PrintedType
<1>9. TypeOK
  <2>1. <<>> \in Seq(Bytes) /\ Len(<<>>) = 0
    OBVIOUS
  <2>2. 0 <= HeadSize /\ 0 <= TailSize /\ read \in 0..Len(Printed)
    BY <1>7, <1>8, Sizes
  <2> QED
    BY <1>6, <1>7, <2>1, <2>2, TypeParts
<1>10. Buffered(<<>>)
  BY <1>7, HoldsNothing DEF Buffered
<1>11. StartInv
  <2>1. carry \in Seq(Before)
    BY <1>7
  <2> QED
    BY <1>7, <1>10, <2>1 DEF StartInv
<1>12. ReadyInv /\ WaitInv /\ EndInv /\ AnswerInv
  BY <1>7 DEF ReadyInv, WaitInv, EndInv, AnswerInv
<1> QED
  BY <1>6, <1>9, <1>11, <1>12 DEF Inv

LEMMA PieceBefore ==
  ASSUME NEW z, NEW d, NEW c
  PROVE  z \in Seq(Before) /\ Pieces(z, d, c) => c \in Seq(Before)
<1>0. SUFFICES ASSUME z \in Seq(Before), Pieces(z, d, c) PROVE c \in Seq(Before)
  OBVIOUS
<1>1. d \in Seq(Bytes) /\ c \in Seq(Bytes)
  BY <1>0 DEF Pieces
<1>2. Len(d) \in Nat /\ Len(c) \in Nat /\ Len(d \o c) = Len(d) + Len(c)
      /\ \A i \in 1..Len(c) : (d \o c)[Len(d) + i] = c[i]
  BY <1>1, Concat
<1>3. z = d \o c
  BY <1>0 DEF Pieces
<1>4. ASSUME NEW i \in 1..Len(c) PROVE c[i] \in Before
  <2>1. Len(d) + i \in 1..Len(z)
    BY <1>2, <1>3
  <2>2. z[Len(d) + i] \in Before
    BY <1>0, <2>1
  <2> QED
    BY <1>2, <1>3, <2>2
<1> QED
  BY <1>1, <1>4, Retyped

\* The next buffer, and with it the types of head and tail.
LEMMA NextBuffer ==
  ASSUME NEW d \in Seq(Bytes), Holds(head', tail', head_done', d)
  PROVE  /\ Buffered(d)' /\ head' \in Seq(Bytes) /\ tail' \in Seq(Bytes)
         /\ Len(head') <= HeadSize /\ Len(tail') <= TailSize
<1>1. Buffered(d)'
  BY DEF Buffered
<1> QED
  BY <1>1, HoldsType

\* The same of what the shell prints.
LEMMA ReadPieces ==
  ASSUME TextInv, text \in Seq(Bytes), alive \in BOOLEAN, NEW n \in (read + 1)..Len(Printed),
         read \in 0..Len(Printed), read < Len(Printed)
  PROVE  LET s == First(Printed, read)  t == SubSeq(Printed, read + 1, n) IN
           /\ s \in Seq(Bytes) /\ t \in Seq(Bytes) /\ t # <<>> /\ s \o t = First(Printed, n)
           /\ Paired(s \o t) /\ n \in 0..Len(Printed) /\ First(Printed, Len(Printed)) = Printed
<1>1. Printed \in Seq(Bytes) /\ Paired(Printed) /\ Len(Printed) \in Nat
  BY PrintedType
<1> DEFINE P == Printed  s == First(P, read)  t == SubSeq(P, read + 1, n)
<1>2. P \in Seq(Bytes) /\ Paired(P) /\ Len(P) \in Nat /\ read \in 0..Len(P) /\ n \in (read + 1)..Len(P)
  BY <1>1
<1> HIDE DEF P
<1>3. /\ s \in Seq(Bytes) /\ t \in Seq(Bytes) /\ t # <<>> /\ s \o t = First(P, n)
      /\ First(P, n) \in Seq(Bytes) /\ First(P, n) \o But(P, n) = P /\ But(P, n) \in Seq(Bytes)
      /\ First(P, Len(P)) = P
  BY <1>2, Taken
<1>4. Paired(First(P, n))
  <2>1. Paired(First(P, n) \o But(P, n))
    BY <1>2, <1>3
  <2> QED
    BY <1>3, <2>1, PairedPrefix
<1>5. n \in 0..Len(P)
  BY <1>2
<1> HIDE DEF s, t
<1>6. s \in Seq(Bytes) /\ t \in Seq(Bytes) /\ t # <<>> /\ s \o t = First(P, n) /\ Paired(s \o t)
  BY <1>3, <1>4
<1> QED
  BY <1>3, <1>5, <1>6 DEF P, s, t

LEMMA ReadWaiting ==
  ASSUME Inv, Read, state = "waiting"
  PROVE  Inv'
<1>1. TypeOK /\ TextInv /\ WaitInv /\ AnswerInv
  BY DEF Inv
<1>2. /\ after \in BOOLEAN /\ head_done \in BOOLEAN /\ event \in BOOLEAN /\ alive \in BOOLEAN
      /\ text \in Seq(Bytes) /\ answer.shown \in Seq(Bytes) /\ read \in 0..Len(Printed)
      /\ answer.kind \in {"none", "ready", "terminated"} /\ answer.kind = "none"
  BY <1>1, TypeParts DEF WaitInv
<1>3. /\ read < Len(Printed) /\ UNCHANGED shell /\ UNCHANGED answer
  BY DEF Read
<1>4. PICK n \in (read + 1)..Len(Printed) :
        /\ read' = n /\ ScanOutput(Stripped(carry \o SubSeq(Printed, read + 1, n)))
  BY DEF Read
<1>5. Printed' = Printed /\ text' = text /\ alive' = alive /\ TextInv'
  BY <1>1, <1>3, TextKept
<1>6. Len(Printed) \in Nat /\ read \in Nat
  BY <1>1, <1>2, PrintedType
<1>7. ~event
  BY <1>1, <1>3, <1>6 DEF WaitInv
<1>8. PICK d \in Seq(Bytes) : Behind(d)
  BY <1>1, <1>7 DEF WaitInv
<1> DEFINE s == First(Printed, read)  t == SubSeq(Printed, read + 1, n)  u == First(Printed, n)
           w == Stripped(carry \o t)
<1>9. /\ s \in Seq(Bytes) /\ t \in Seq(Bytes) /\ t # <<>> /\ s \o t = u
      /\ Paired(s \o t) /\ n \in 0..Len(Printed) /\ First(Printed, Len(Printed)) = Printed
  BY <1>1, <1>2, <1>3, ReadPieces
<1>10. Pieces(Stripped(s), d, carry) /\ Buffered(d) /\ Lags(s, d, carry)
  BY <1>8 DEF Behind, Got
<1>11. ScanOutput(w)
  BY <1>4
<1>12. First(Printed', read') = u /\ Got' = Stripped(u)
  BY <1>4, <1>5 DEF Got
<1> HIDE DEF s, t, u, w
<1>13. CASE alive /\ n = Len(Printed)
  <2>1. text \in Texts /\ u = text \o Prompt
    BY <1>1, <1>2, <1>9, <1>13, PrintedType DEF u
  <2>2. PICK x : Pieces(Stripped(text), d, x) /\ w = x \o Prompt
    <3>1. text \o Prompt = s \o t
      BY <1>9, <2>1
    <3>2. Arrives(text, d, Stripped(carry \o t))
      BY <1>9, <1>10, <2>1, <3>1, PromptArrives
    <3> QED
      BY <3>2 DEF w, Arrives
  <2>3. x \in Seq(Before)
    <3>1. text \in Seq(Before)
      BY <1>1, BeforeType, SeqMonotonic DEF TextInv
    <3>2. Stripped(text) \in Seq(Before)
      BY <3>1, StrippedBefore
    <3> QED
      BY <2>2, <3>2, PieceBefore
  <2>4. Store(x) /\ event' = TRUE /\ carry' = <<>> /\ UNCHANGED <<state, after>>
    <3>1. ScanOutput(x \o Prompt)
      BY <1>11, <2>2
    <3> QED
      BY <2>3, <3>1, OutputWith
  <2>5. d \in Seq(Bytes) /\ x \in Seq(Bytes) /\ Stripped(text) = d \o x /\ Stripped(text) \in Seq(Bytes)
    BY <1>2, <2>2, StrippedBytes DEF Pieces
  <2>6. Holds(head', tail', head_done', Stripped(text)) /\ head_done' \in BOOLEAN
    BY <1>2, <1>10, <2>4, <2>5, StoreHolds
  <2>7. /\ Buffered(Stripped(text))' /\ head' \in Seq(Bytes) /\ tail' \in Seq(Bytes)
        /\ Len(head') <= HeadSize /\ Len(tail') <= TailSize
    <3>1. /\ Buffered(Stripped(text)') /\ TRUE <=> Buffered(Stripped(text)')
      OBVIOUS
    <3>2. \A z \in Seq(Bytes) : Holds(head', tail', head_done', z) =>
             /\ Buffered(z)' /\ head' \in Seq(Bytes) /\ tail' \in Seq(Bytes)
             /\ Len(head') <= HeadSize /\ Len(tail') <= TailSize
      BY NextBuffer
    <3>3. Holds(head', tail', head_done', Stripped(text'))
      BY <1>5, <2>6
    <3> QED
      BY <2>5, <2>6, <3>2, <3>3 DEF Buffered
  <2>8. TypeOK'
    <3>1. Len(carry') <= Keep /\ carry' \in Seq(Bytes)
      BY <2>4, Sizes
    <3>2. state' = "waiting" /\ after' \in BOOLEAN /\ event' \in BOOLEAN /\ alive' \in BOOLEAN
      BY <1>2, <1>5, <2>4
    <3>3. text' \in Seq(Bytes) /\ answer' = answer /\ read' \in 0..Len(Printed')
      BY <1>2, <1>3, <1>4, <1>5, <1>9
    <3> QED
      BY <1>2, <2>6, <2>7, <3>1, <3>2, <3>3 DEF TypeOK
  <2>9. WaitInv'
    BY <1>2, <1>3, <1>4, <1>5, <1>13, <2>4, <2>7 DEF WaitInv
  <2> QED
    BY <1>1, <1>2, <1>3, <1>5, <2>4, <2>8, <2>9
       DEF Inv, StartInv, ReadyInv, EndInv, AnswerInv
<1>14. CASE ~(alive /\ n = Len(Printed))
  <2>0. PICK e : e = d \o Passed(w)
    OBVIOUS
  <2>1. /\ w \in Seq(Bytes) /\ Pieces(Stripped(u), d, w)
        /\ Pieces(Stripped(u), e, LastOf(w, Keep)) /\ Lags(u, e, LastOf(w, Keep))
    <3>1. /\ w \in Seq(Bytes)
          /\ Pieces(Stripped(s \o t), e, LastOf(w, Keep)) /\ Lags(s \o t, e, LastOf(w, Keep))
      BY <1>9, <1>10, <2>0, KeptOn DEF w
    <3>2. Pieces(Stripped(s \o t), d, w)
      <4>1. carry = <<>> => d = <<>>
        BY <1>10, LagsPieces
      <4> QED
        BY <1>9, <1>10, <4>1, Resume DEF w, Resumed
    <3> QED
      BY <1>9, <3>1, <3>2
  <2>2. w \in Seq(Before)
    <3>1. u \in Seq(Before)
      <4>1. ~alive \/ n < Len(Printed)
        BY <1>6, <1>9, <1>14
      <4> QED
        BY <1>1, <1>2, <1>9, <4>1, EarlyIsBefore DEF u
    <3>2. Stripped(u) \in Seq(Before)
      BY <3>1, StrippedBefore
    <3> QED
      BY <2>1, <3>2, PieceBefore
  <2>3. Store(Passed(w)) /\ carry' = LastOf(w, Keep) /\ UNCHANGED <<event, state, after>>
    BY <1>11, <2>2, OutputWithout
  <2>4. /\ Passed(w) \in Seq(Bytes) /\ LastOf(w, Keep) \in Seq(Bytes) /\ Len(LastOf(w, Keep)) <= Keep
    <3>1. Len(w) \in Nat /\ Keep \in Nat
      BY <2>1, Sizes
    <3> QED
      BY <2>1, <3>1, KeptBack
  <2>5. e \in Seq(Bytes)
    BY <2>1 DEF Pieces
  <2>6. Holds(head', tail', head_done', e) /\ head_done' \in BOOLEAN
    BY <1>2, <1>10, <2>0, <2>3, <2>4, StoreHolds
  <2>7. /\ Holds(head', tail', head_done', e) /\ head' \in Seq(Bytes) /\ tail' \in Seq(Bytes)
        /\ Len(head') <= HeadSize /\ Len(tail') <= TailSize
    BY <2>5, <2>6, HoldsType
  <2>8. Behind(e)'
    <3>1. Pieces(Got', e, carry')
      BY <1>12, <2>1, <2>3
    <3>2. Buffered(e)'
      BY <2>7 DEF Buffered
    <3>3. Lags(First(Printed', read'), e, carry')
      BY <1>12, <2>1, <2>3
    <3> QED
      BY <3>1, <3>2, <3>3 DEF Behind
  <2>9. TypeOK'
    <3>1. Len(carry') <= Keep /\ carry' \in Seq(Bytes)
      BY <2>3, <2>4
    <3>2. state' = "waiting" /\ after' \in BOOLEAN /\ event' \in BOOLEAN /\ alive' \in BOOLEAN
      BY <1>2, <1>5, <2>3
    <3>3. text' \in Seq(Bytes) /\ answer' = answer /\ read' \in 0..Len(Printed')
      BY <1>2, <1>3, <1>4, <1>5, <1>9
    <3> QED
      BY <1>2, <2>6, <2>7, <3>1, <3>2, <3>3 DEF TypeOK
  <2>10. WaitInv'
    <3>1. ~event' /\ ~(alive' /\ read' = Len(Printed'))
      BY <1>4, <1>5, <1>7, <1>14, <2>3
    <3>2. answer'.kind = "none"
      BY <1>2, <1>3
    <3>3. \E f \in Seq(Bytes) : Behind(f)'
      BY <2>5, <2>8
    <3> QED
      BY <3>1, <3>2, <3>3 DEF WaitInv
  <2> QED
    BY <1>1, <1>2, <1>3, <1>5, <2>3, <2>9, <2>10
       DEF Inv, StartInv, ReadyInv, EndInv, AnswerInv
<1> QED
  BY <1>13, <1>14

\* A read of the start-up: the last byte of the prompt ends it, and no byte before it.
LEMMA LastRead ==
  ASSUME TextInv, text \in Seq(Bytes), alive, NEW s \in Seq(Bytes), NEW t \in Seq(Bytes),
         t # <<>>, s \o t = Printed
  PROVE  \E t1 \in Seq(Before) : t = t1 \o <<Final>>
<1>1. /\ Printed \in Seq(Bytes) /\ Len(Printed) \in Nat /\ Len(text) \in Nat
      /\ Printed = text \o Prompt /\ Len(Printed) = Len(text) + PromptLen
  BY PrintedType
<1>2. PICK t1 \in Seq(Bytes) : t = t1 \o <<t[Len(t)]>> /\ t[Len(t)] \in Bytes
  BY LastSplit
<1>3. /\ Len(s) \in Nat /\ Len(t) \in Nat /\ Len(Printed) = Len(s) + Len(t)
      /\ \A i \in 1..Len(t) : Printed[Len(s) + i] = t[i]
  <2>1. /\ Len(s) \in Nat /\ Len(t) \in Nat /\ Len(s \o t) = Len(s) + Len(t)
        /\ \A i \in 1..Len(t) : (s \o t)[Len(s) + i] = t[i]
    BY Concat
  <2> QED
    BY <2>1
<1>4. Len(t1) \in Nat /\ Len(t) = Len(t1) + 1 /\ \A i \in 1..Len(t1) : t[i] = t1[i]
  <2> DEFINE b == t[Len(t)]
  <2>1. t1 \in Seq(Bytes) /\ <<b>> \in Seq(Bytes) /\ Len(<<b>>) = 1
    BY <1>2
  <2>2. t = t1 \o <<b>>
    BY <1>2
  <2> HIDE DEF b
  <2>3. /\ Len(t1) \in Nat /\ Len(t1 \o <<b>>) = Len(t1) + Len(<<b>>)
        /\ \A i \in 1..Len(t1) : (t1 \o <<b>>)[i] = t1[i]
    BY <2>1, Concat
  <2> QED
    BY <2>1, <2>2, <2>3
<1>5. t[Len(t)] = Final
  <2>1. Prompt \in Seq(Bytes) /\ text \in Seq(Bytes) /\ Len(Prompt) = PromptLen /\ PromptLen \in 1..PromptLen
    <3>1. Prompt \in Seq(Bytes) /\ Len(Prompt) = PromptLen /\ PromptLen \in Nat /\ 2 <= PromptLen
      BY PromptIsText, PromptType
    <3> QED
      BY <3>1
  <2>2. \A i \in 1..Len(Prompt) : (text \o Prompt)[Len(text) + i] = Prompt[i]
    BY <2>1, Concat
  <2>3. Printed[Len(Printed)] = Final
    BY <1>1, <2>1, <2>2 DEF Final
  <2>4. Printed[Len(s) + Len(t)] = t[Len(t)]
    BY <1>3, <1>4
  <2> QED
    BY <1>3, <2>3, <2>4
<1>6. \A i \in 1..Len(t1) : t1[i] \in Before
  <2> DEFINE m == Len(Printed) - 1  f == First(Printed, m)
  <2>1. m \in 0..Len(Printed) /\ m < Len(Printed) /\ m \in Nat
    BY <1>1, <1>3, <1>4
  <2>2. f \in Seq(Before)
    <3> HIDE DEF m
    <3> QED
      BY <2>1, EarlyIsBefore
  <2>3. Len(f) = m /\ \A i \in 1..Len(f) : f[i] = Printed[i]
    <3> HIDE DEF m
    <3> QED
      BY <1>1, <2>1, FirstPiece
  <2> HIDE DEF f
  <2> TAKE i \in 1..Len(t1)
  <2>4. Len(s) + i \in 1..Len(f) /\ i \in 1..Len(t)
    BY <1>3, <1>4, <2>3
  <2>5. t1[i] = t[i] /\ t[i] = Printed[Len(s) + i] /\ Printed[Len(s) + i] = f[Len(s) + i]
    BY <1>3, <1>4, <2>3, <2>4
  <2>6. f[Len(s) + i] \in Before
    BY <2>2, <2>4
  <2> QED
    BY <2>5, <2>6
<1>7. t1 \in Seq(Before)
  BY <1>6, Retyped
<1> QED
  BY <1>2, <1>5, <1>7

LEMMA FinalIsClean == Final \in Clean /\ Final \in Bytes /\ <<Final>> \in Seq(Clean) /\ <<Final>> \in Seq(Bytes)
<1>1. Final \in Clean
  <2>1. Prompt \in Seq(Clean) /\ Len(Prompt) = PromptLen /\ PromptLen \in 1..Len(Prompt)
    <3>1. Prompt \in Seq(Clean) /\ Len(Prompt) = PromptLen /\ PromptLen \in Nat /\ 2 <= PromptLen
      BY PromptType, PromptIsText
    <3> QED
      BY <3>1
  <2> QED
    BY <2>1 DEF Final
<1> QED
  BY <1>1 DEF Clean

\* A scan of the start-up, before or with the end of the prompt.
LEMMA ReadStartingSplit ==
  ASSUME Inv, Read, state = "init"
  PROVE  /\ state' \in {"init", "ready"} /\ event' = event /\ after' \in BOOLEAN
         /\ carry' \in Seq(Bytes)
         /\ ClearBuffer \/ UNCHANGED buffer
         /\ read' \in 0..Len(Printed)
         /\ state' = "ready" => carry' = <<>> /\ read' = Len(Printed)
         /\ read' = Len(Printed) \/ carry' \in Seq(Before)
<1>1. TypeOK /\ TextInv /\ StartInv
  BY DEF Inv
<1>2. /\ after \in BOOLEAN /\ alive \in BOOLEAN /\ text \in Seq(Bytes) /\ carry \in Seq(Bytes)
      /\ read \in 0..Len(Printed)
  BY <1>1, TypeParts
<1>3. read < Len(Printed) /\ alive
  BY <1>1 DEF Read, StartInv
<1>4. PICK n \in (read + 1)..Len(Printed) :
        /\ read' = n /\ ScanInit(Stripped(carry \o SubSeq(Printed, read + 1, n)))
  BY DEF Read
<1>5. Len(Printed) \in Nat /\ read \in Nat
  BY <1>1, <1>2, PrintedType
<1>6. carry \in Seq(Before)
  BY <1>1, <1>3, <1>5 DEF StartInv
<1> DEFINE s == First(Printed, read)  t == SubSeq(Printed, read + 1, n)  u == First(Printed, n)
           w == Stripped(carry \o t)
<1>7. /\ s \in Seq(Bytes) /\ t \in Seq(Bytes) /\ t # <<>> /\ s \o t = u
      /\ n \in 0..Len(Printed) /\ First(Printed, Len(Printed)) = Printed
  BY <1>1, <1>2, <1>3, ReadPieces
<1>8. ScanInit(w)
  BY <1>4
<1> HIDE DEF s, t, u, w
<1>9. CASE n < Len(Printed)
  <2>1. u \in Seq(Before)
    BY <1>1, <1>2, <1>7, <1>9, EarlyIsBefore DEF u
  <2>2. t \in Seq(Before)
    <3>1. Pieces(u, s, t)
      BY <1>7 DEF Pieces
    <3> QED
      BY <2>1, <3>1, PieceBefore
  <2>3. w \in Seq(Before)
    <3>1. carry \o t \in Seq(Before)
      BY <1>6, <2>2
    <3> QED
      BY <3>1, StrippedBefore DEF w
  <2>4. /\ state' = "init" /\ event' = event /\ carry' \in Seq(Before)
        /\ after' = (after \/ Places(w, SetupOk) # {})
        /\ ClearBuffer \/ UNCHANGED buffer
    BY <1>2, <1>6, <1>8, <2>3, InitWithout
  <2>5. after' \in BOOLEAN
    BY <1>2, <2>4
  <2>6. carry' \in Seq(Bytes)
    BY <2>4, BeforeType, SeqMonotonic
  <2> QED
    BY <1>4, <1>7, <2>4, <2>5, <2>6
<1>10. CASE n = Len(Printed)
  <2>1. s \o t = Printed
    BY <1>7, <1>10 DEF u
  <2>2. PICK t1 \in Seq(Before) : t = t1 \o <<Final>>
    BY <1>1, <1>2, <1>3, <1>7, <2>1, LastRead
  <2>3. carry \o t1 \in Seq(Before)
    BY <1>6
  <2>4. carry \in Seq(Bytes) /\ t1 \in Seq(Bytes) /\ carry \o t1 \in Seq(Bytes)
    BY <1>2, <2>2, <2>3, BeforeType, SeqMonotonic
  <2>5. carry \o t = (carry \o t1) \o <<Final>>
    BY <2>2, <2>4, FinalIsClean, BytesAssoc, Zenon
  <2>6. PICK z : z = Stripped(carry \o t1)
    OBVIOUS
  <2>7. w = z \o <<Final>> /\ z \in Seq(Before)
    BY <2>3, <2>4, <2>5, <2>6, FinalIsClean, StrippedTail, StrippedBefore DEF w
  <2>8. /\ event' = event /\ after' \in BOOLEAN /\ carry' \in Seq(Bytes)
        /\ ClearBuffer \/ UNCHANGED buffer
        /\ (state' = "ready" /\ carry' = <<>>) \/ state' = "init"
    <3>1. ScanInit(z \o <<Final>>)
      BY <1>8, <2>7
    <3> QED
      BY <1>2, <2>7, <3>1, InitWith
  <2> QED
    BY <1>4, <1>7, <1>10, <2>8
<1> QED
  BY <1>5, <1>7, <1>9, <1>10

\* A buffer that is cleared or kept while it is empty.
LEMMA StillEmpty ==
  ASSUME Buffered(<<>>), head_done \in BOOLEAN, ClearBuffer \/ UNCHANGED buffer
  PROVE  /\ Holds(head', tail', head_done', <<>>) /\ head_done' \in BOOLEAN
         /\ head' \in Seq(Bytes) /\ tail' \in Seq(Bytes)
         /\ Len(head') <= HeadSize /\ Len(tail') <= TailSize
<1>1. Holds(head', tail', head_done', <<>>)
  BY ClearHolds, KeepHolds
<1>2. head_done' \in BOOLEAN
  BY DEF ClearBuffer, buffer
<1>3. <<>> \in Seq(Bytes)
  OBVIOUS
<1> QED
  BY <1>1, <1>2, <1>3, HoldsType

LEMMA ReadStarting ==
  ASSUME Inv, Read, state = "init"
  PROVE  Inv'
<1>1. TypeOK /\ TextInv /\ StartInv
  BY DEF Inv
<1>2. /\ head_done \in BOOLEAN /\ text \in Seq(Bytes) /\ alive
      /\ ~event /\ event \in BOOLEAN /\ answer.kind = "none" /\ answer.shown \in Seq(Bytes) /\ Buffered(<<>>)
  BY <1>1, TypeParts DEF StartInv
<1>3. UNCHANGED shell /\ UNCHANGED answer
  BY DEF Read
<1>4. Printed' = Printed /\ text' = text /\ alive' = alive /\ TextInv'
  BY <1>1, <1>3, TextKept
<1>5. /\ state' \in {"init", "ready"} /\ event' = event /\ after' \in BOOLEAN
      /\ carry' \in Seq(Bytes)
      /\ ClearBuffer \/ UNCHANGED buffer
      /\ read' \in 0..Len(Printed)
      /\ state' = "ready" => carry' = <<>> /\ read' = Len(Printed)
      /\ read' = Len(Printed) \/ carry' \in Seq(Before)
  BY ReadStartingSplit
<1>6. /\ Holds(head', tail', head_done', <<>>) /\ head_done' \in BOOLEAN
      /\ head' \in Seq(Bytes) /\ tail' \in Seq(Bytes)
      /\ Len(head') <= HeadSize /\ Len(tail') <= TailSize
  BY <1>2, <1>5, StillEmpty
<1>7. Buffered(<<>>)'
  BY <1>6 DEF Buffered
<1>8. TypeOK'
  <2>1. alive \in BOOLEAN /\ answer' = answer
    BY <1>1, <1>3, TypeParts
  <2>2. /\ text' \in Seq(Bytes) /\ answer'.shown \in Seq(Bytes) /\ alive' \in BOOLEAN
        /\ answer'.kind \in {"none", "ready", "terminated"} /\ read' \in 0..Len(Printed')
    BY <1>2, <1>4, <1>5, <2>1
  <2>3. /\ state' \in {"init", "ready"} /\ event' \in BOOLEAN
    BY <1>2, <1>5
  <2>4. state' \in {"init", "ready", "waiting", "terminated"}
    BY <2>3
  <2> QED
    BY <1>5, <1>6, <2>2, <2>3, <2>4 DEF TypeOK
<1>9. StartInv'
  BY <1>2, <1>3, <1>4, <1>5, <1>7 DEF StartInv
<1>10. ReadyInv'
  BY <1>2, <1>4, <1>5 DEF ReadyInv
<1>11. WaitInv' /\ EndInv' /\ AnswerInv'
  BY <1>2, <1>3, <1>5 DEF WaitInv, EndInv, AnswerInv
<1> QED
  BY <1>4, <1>8, <1>9, <1>10, <1>11 DEF Inv

LEMMA ReadStep ==
  ASSUME Inv, Read
  PROVE  Inv'
<1>1. state \in {"init", "ready", "waiting"} /\ read < Len(Printed)
  BY TypeParts DEF Read, Inv
<1>2. state # "ready"
  <2>1. Len(Printed) \in Nat
    BY PrintedType, TypeParts DEF Inv
  <2> QED
    BY <1>1, <2>1 DEF Inv, ReadyInv
<1> QED
  BY <1>1, <1>2, ReadStarting, ReadWaiting

\* What is kept back when the shell has ended.
LEMMA EndOfFileStep ==
  ASSUME Inv, EndOfFile
  PROVE  Inv'
<1>1. TypeOK /\ TextInv /\ WaitInv /\ AnswerInv
  BY DEF Inv
<1>2. /\ state \in {"init", "ready", "waiting", "terminated"} /\ after \in BOOLEAN /\ head_done \in BOOLEAN
      /\ alive \in BOOLEAN /\ text \in Seq(Bytes) /\ carry \in Seq(Bytes) /\ answer.shown \in Seq(Bytes)
      /\ read \in 0..Len(Printed)
  BY <1>1, TypeParts
<1>3. /\ ~alive /\ read = Len(Printed) /\ Store(carry) /\ state' = "terminated" /\ event' = TRUE
      /\ after' = after /\ carry' = carry /\ UNCHANGED shell /\ read' = read /\ answer' = answer
  BY DEF EndOfFile
<1>4. state = "waiting" /\ answer.kind = "none" /\ ~event
  BY <1>1, <1>2, <1>3 DEF EndOfFile, Inv, StartInv, ReadyInv, WaitInv
<1>5. Len(carry) <= Keep
  BY <1>1, <1>4, TypeParts
<1>6. PICK d \in Seq(Bytes) : Behind(d)
  BY <1>1, <1>4 DEF WaitInv
<1>7. Printed = text /\ First(text, Len(text)) = text
  <2>1. Len(text) \in Nat /\ Len(text) <= Len(text)
    BY <1>2
  <2> QED
    BY <1>2, <1>3, <2>1, Joined DEF Printed
<1>8. Stripped(text) = d \o carry /\ Stripped(text) \in Seq(Bytes)
  BY <1>2, <1>3, <1>6, <1>7, StrippedBytes DEF Behind, Got, Pieces
<1>9. Holds(head', tail', head_done', Stripped(text)) /\ head_done' \in BOOLEAN
  BY <1>2, <1>3, <1>6, <1>8, StoreHolds DEF Behind
<1>10. head' \in Seq(Bytes) /\ tail' \in Seq(Bytes) /\ Len(head') <= HeadSize /\ Len(tail') <= TailSize
  BY <1>8, <1>9, HoldsType
<1>11. Printed' = Printed /\ text' = text /\ alive' = alive /\ TextInv'
  BY <1>1, <1>3, TextKept
<1>12. TypeOK'
  BY <1>1, <1>2, <1>3, <1>4, <1>5, <1>9, <1>10, <1>11, TypeParts DEF TypeOK
<1>13. EndInv'
  BY <1>3, <1>4, <1>9, <1>11 DEF EndInv, Buffered
<1>14. StartInv' /\ ReadyInv' /\ WaitInv' /\ AnswerInv'
  BY <1>3, <1>4 DEF StartInv, ReadyInv, WaitInv, AnswerInv
<1> QED
  BY <1>11, <1>12, <1>13, <1>14 DEF Inv

\* What a shell prints for a command.
LEMMA EchoesAreTexts == \A echo \in Echoes : echo \in Texts /\ echo \in Seq(Plain)
<1>1. <<"c">> \in Texts /\ <<"c">> \in Seq(Plain)
  BY Short DEF Plain
<1>2. <<"r", "n">> \in Texts /\ <<"r", "n">> \in Seq(Plain)
  <2>1. {"r", "n"} \subseteq Plain \ {"e", "m"}
    BY DEF Plain
  <2>2. <<"r", "n">> \in Texts
    BY <2>1, PairTexts
  <2>3. <<"r", "n">> \in Seq(Plain)
    BY <2>1
  <2> QED
    BY <2>2, <2>3
<1>3. Command \o <<"r", "n">> \in Texts /\ Command \o <<"r", "n">> \in Seq(Plain)
  BY <1>1, <1>2, TextsConcat DEF Command
<1>4. <<>> \in Texts /\ <<>> \in Seq(Plain)
  BY Short
<1> QED
  BY <1>3, <1>4 DEF Echoes

LEMMA SendStep ==
  ASSUME Inv, Send
  PROVE  Inv'
<1>1. TypeOK /\ ReadyInv
  BY DEF Inv
<1>2. /\ state = "ready" /\ alive /\ state' = "waiting" /\ ClearBuffer /\ event' = FALSE
      /\ read' = 0 /\ answer' = NoAnswer /\ after' = after /\ carry' = carry /\ alive' = alive
  BY DEF Send
<1>3. PICK echo \in Echoes, out \in Outputs(MaxUnits) : text' = echo \o out
  BY DEF Send
<1>4. after \in BOOLEAN /\ carry = <<>>
  BY <1>1, <1>2, TypeParts DEF ReadyInv
<1>5. text' \in Texts /\ text' \in Seq(Plain)
  <2>1. echo \in Texts /\ echo \in Seq(Plain)
    BY EchoesAreTexts
  <2>2. out \in Texts /\ out \in Seq(Said)
    BY Sizes, OutputsAreTexts
  <2>3. Said \subseteq Plain
    BY DEF Said, Plain
  <2>4. out \in Seq(Plain)
    BY <2>2, <2>3, SeqMonotonic
  <2>5. echo \o out \in Texts
    BY <2>1, <2>2, TextsConcat
  <2>6. echo \o out \in Seq(Plain)
    BY <2>1, <2>4
  <2> QED
    BY <1>3, <2>5, <2>6
<1>6. TextInv' /\ text' \in Seq(Bytes)
  BY <1>5 DEF TextInv, Texts
<1>7. /\ Printed' = text' \o Prompt /\ Printed' \in Seq(Bytes)
      /\ Len(Printed') \in Nat /\ 0 < Len(Printed')
  <2>1. Prompt \in Seq(Bytes) /\ Len(Prompt) = PromptLen /\ PromptLen \in Nat /\ 2 <= PromptLen
    BY PromptIsText, PromptType
  <2>2. Printed' = text' \o Prompt
    BY <1>2 DEF Printed
  <2>3. /\ text' \o Prompt \in Seq(Bytes) /\ Len(text' \o Prompt) = Len(text') + Len(Prompt)
        /\ Len(text') \in Nat
    BY <1>6, <2>1, Concat
  <2> QED
    BY <2>1, <2>2, <2>3
<1>8. Holds(head', tail', head_done', <<>>) /\ head_done' \in BOOLEAN
  BY <1>2, ClearHolds DEF ClearBuffer
<1>9. head' \in Seq(Bytes) /\ tail' \in Seq(Bytes) /\ Len(head') <= HeadSize /\ Len(tail') <= TailSize
  <2>1. <<>> \in Seq(Bytes)
    OBVIOUS
  <2> QED
    BY <1>8, <2>1, HoldsType
<1>10. TypeOK'
  <2>1. Len(carry') <= Keep /\ carry' \in Seq(Bytes)
    BY <1>2, <1>4, Sizes
  <2>2. /\ read' \in 0..Len(Printed') /\ answer'.kind = "none" /\ answer'.shown \in Seq(Bytes)
    BY <1>2, <1>7 DEF NoAnswer
  <2>3. /\ event' \in BOOLEAN /\ alive' \in BOOLEAN /\ after' \in BOOLEAN
        /\ state' \in {"init", "ready", "waiting", "terminated"}
    BY <1>2, <1>4
  <2>4. answer'.kind \in {"none", "ready", "terminated"}
    BY <2>2
  <2> QED
    BY <1>6, <1>8, <1>9, <2>1, <2>2, <2>3, <2>4 DEF TypeOK
<1>11. Behind(<<>>)'
  <2>1. First(Printed', read') = <<>>
    <3>1. First(Printed', 0) \in Seq(Bytes) /\ Len(First(Printed', 0)) = 0
      BY <1>7, FirstPiece
    <3> QED
      BY <1>2, <3>1
  <2>2. Got' = <<>>
    BY <2>1, StrippedEmpty DEF Got
  <2>3. Pieces(Got', <<>>, carry')
    BY <1>2, <1>4, <2>2 DEF Pieces
  <2>4. Lags(First(Printed', read'), <<>>, carry')
    BY DEF Lags
  <2>5. Buffered(<<>>)'
    BY <1>8 DEF Buffered
  <2> QED
    BY <2>3, <2>4, <2>5 DEF Behind
<1>12. WaitInv'
  <2>1. <<>> \in Seq(Bytes)
    OBVIOUS
  <2>2. \E d \in Seq(Bytes) : Behind(d)'
    BY <1>11, <2>1
  <2>3. answer'.kind = "none" /\ ~event' /\ read' # Len(Printed')
    BY <1>2, <1>7 DEF NoAnswer
  <2> QED
    BY <2>2, <2>3 DEF WaitInv
<1>13. StartInv' /\ ReadyInv' /\ EndInv' /\ AnswerInv'
  BY <1>2 DEF StartInv, ReadyInv, EndInv, AnswerInv, NoAnswer
<1> QED
  BY <1>6, <1>10, <1>12, <1>13 DEF Inv

LEMMA CommandType == Command \in Seq(Bytes) /\ <<>> \in Seq(Bytes)
<1>1. "c" \in Bytes
  BY PromptType DEF Plain
<1> QED
  BY <1>1 DEF Command

\* What an answer is made of.
LEMMA ReturnStep ==
  ASSUME Inv, Return
  PROVE  Inv'
<1>1. TypeOK /\ TextInv /\ WaitInv /\ EndInv
  BY DEF Inv
<1>2. /\ state \in {"init", "ready", "waiting", "terminated"} /\ after \in BOOLEAN /\ event \in BOOLEAN
      /\ alive \in BOOLEAN /\ text \in Seq(Bytes) /\ carry \in Seq(Bytes) /\ read \in 0..Len(Printed)
  BY <1>1, TypeParts
<1>3. /\ event /\ answer.kind = "none" /\ ClearBuffer /\ UNCHANGED shell
      /\ after' = after /\ carry' = carry /\ event' = event /\ read' = read
  BY DEF Return
<1>4. Printed' = Printed /\ text' = text /\ alive' = alive /\ TextInv'
  BY <1>1, <1>3, TextKept
<1>5. Holds(head', tail', head_done', <<>>) /\ head_done' \in BOOLEAN
  BY <1>3, ClearHolds DEF ClearBuffer
<1>6. head' \in Seq(Bytes) /\ tail' \in Seq(Bytes) /\ Len(head') <= HeadSize /\ Len(tail') <= TailSize
  <2>1. <<>> \in Seq(Bytes)
    OBVIOUS
  <2> QED
    BY <1>5, <2>1, HoldsType
<1>7. Stripped(text) \in Seq(Bytes)
  BY <1>2, StrippedBytes
<1>8. CASE state = "waiting"
  <2>1. state' = "ready" /\ answer' = [kind |-> "ready", shown |-> View(Command)]
    BY <1>8 DEF Return
  <2>2. alive /\ read = Len(Printed) /\ carry = <<>> /\ Buffered(Stripped(text))
    BY <1>1, <1>3, <1>8 DEF WaitInv
  <2>3. View(Command) = Shown(Stripped(text), Command) /\ View(Command) \in Seq(Bytes)
    BY <1>7, <2>2, CommandType, Viewed
  <2>4. answer'.kind = "ready" /\ answer'.shown = Shown(Stripped(text), Command) /\ answer'.shown \in Seq(Bytes)
    BY <2>1, <2>3
  <2>5. TypeOK'
    BY <1>2, <1>3, <1>4, <1>5, <1>6, <2>1, <2>4 DEF TypeOK
  <2>6. AnswerInv'
    BY <1>4, <2>4 DEF AnswerInv
  <2>7. ReadyInv' /\ StartInv' /\ WaitInv' /\ EndInv'
    BY <1>3, <1>4, <2>1, <2>2 DEF ReadyInv, StartInv, WaitInv, EndInv
  <2> QED
    BY <1>4, <2>5, <2>6, <2>7 DEF Inv
<1>9. CASE state = "terminated"
  <2>1. state' = state /\ answer' = [kind |-> "terminated", shown |-> View(<<>>)]
    BY <1>9 DEF Return
  <2>2. ~alive /\ Buffered(Stripped(text))
    BY <1>1, <1>3, <1>9 DEF EndInv
  <2>3. View(<<>>) = Shown(Stripped(text), <<>>) /\ View(<<>>) \in Seq(Bytes)
    BY <1>7, <2>2, CommandType, Viewed
  <2>4. answer'.kind = "terminated" /\ answer'.shown = Shown(Stripped(text), <<>>) /\ answer'.shown \in Seq(Bytes)
    BY <2>1, <2>3
  <2>5. Len(carry) <= Keep
    BY <1>1, <1>9, TypeParts
  <2>6. TypeOK'
    BY <1>2, <1>3, <1>4, <1>5, <1>6, <1>9, <2>1, <2>4, <2>5 DEF TypeOK
  <2>7. AnswerInv'
    BY <1>4, <2>4 DEF AnswerInv
  <2>8. ReadyInv' /\ StartInv' /\ WaitInv' /\ EndInv'
    BY <1>3, <1>4, <1>9, <2>1, <2>2, <2>4 DEF ReadyInv, StartInv, WaitInv, EndInv
  <2> QED
    BY <1>4, <2>6, <2>7, <2>8 DEF Inv
<1> QED
  BY <1>8, <1>9 DEF Return

\* What was read before the shell ended is still the beginning of what it printed.
LEMMA ExitStep ==
  ASSUME Inv, Exit
  PROVE  Inv'
<1>1. TypeOK /\ TextInv /\ WaitInv
  BY DEF Inv
<1>2. /\ state = "waiting" /\ alive /\ read <= Len(text) /\ ~alive'
      /\ alive' \in BOOLEAN /\ UNCHANGED buffer
      /\ state' = state /\ after' = after /\ carry' = carry /\ event' = event /\ read' = read
      /\ answer' = answer
  BY DEF Exit
<1>3. PICK n \in read..Len(text) : text' = First(text, n)
  BY DEF Exit
<1>4. /\ text \in Seq(Bytes) /\ text \in Seq(Plain) /\ Paired(text) /\ read \in 0..Len(Printed)
      /\ alive \in BOOLEAN /\ answer.kind = "none"
  BY <1>1, <1>2, TypeParts DEF TextInv, WaitInv
<1>5. /\ Printed = text \o Prompt /\ Len(Printed) = Len(text) + PromptLen /\ Len(text) \in Nat
      /\ PromptLen \in Nat /\ 2 <= PromptLen
  BY <1>1, <1>2, <1>4, PrintedType, PromptType
<1>6. ~event /\ read \in Nat /\ n \in Nat /\ n <= Len(text) /\ read <= n
  BY <1>1, <1>2, <1>4, <1>5 DEF WaitInv
<1>7. PICK d \in Seq(Bytes) : Behind(d)
  BY <1>1, <1>2, <1>6 DEF WaitInv
<1>8. text' \in Seq(Bytes) /\ text' \in Seq(Plain) /\ Paired(text') /\ Len(text') = n
  <2>1. /\ First(text, n) \in Seq(Plain) /\ First(text, n) \in Seq(Bytes) /\ Len(First(text, n)) = n
        /\ But(text, n) \in Seq(Bytes) /\ First(text, n) \o But(text, n) = text
    <3>1. /\ First(text, n) \in Seq(Plain)
          /\ Len(First(text, n)) = IF n < Len(text) THEN n ELSE Len(text)
      BY <1>4, <1>6, FirstPiece
    <3>2. /\ First(text, n) \in Seq(Bytes) /\ But(text, n) \in Seq(Bytes)
          /\ First(text, n) \o But(text, n) = text
      BY <1>4, <1>6, FirstPiece, ButPiece, Joined
    <3> QED
      BY <1>5, <1>6, <3>1, <3>2
  <2>2. Paired(First(text, n))
    <3>1. Paired(First(text, n) \o But(text, n))
      BY <1>4, <2>1
    <3> QED
      BY <2>1, <3>1, PairedPrefix
  <2> QED
    BY <1>3, <2>1, <2>2
<1>9. Printed' = text'
  BY <1>2 DEF Printed
<1>10. First(Printed', read') = First(Printed, read)
  <2>1. First(text \o Prompt, read) = First(text, read)
    BY <1>2, <1>4, <1>6, PromptType, CutWithin
  <2>2. First(First(text, n), read) = First(text, read)
    <3>1. /\ First(text, n) \in Seq(Bytes) /\ But(text, n) \in Seq(Bytes)
          /\ First(text, n) \o But(text, n) = text
      BY <1>4, <1>6, FirstPiece, ButPiece, Joined
    <3>2. read <= Len(First(text, n))
      BY <1>3, <1>6, <1>8
    <3>3. First(First(text, n) \o But(text, n), read) = First(First(text, n), read)
      BY <1>6, <3>1, <3>2, CutWithin
    <3> QED
      BY <3>1, <3>3
  <2> QED
    BY <1>2, <1>3, <1>5, <1>9, <2>1, <2>2
<1>11. Behind(d)'
  <2>1. Pieces(Got', d, carry')
    BY <1>2, <1>7, <1>10 DEF Behind, Got
  <2>2. Buffered(d)'
    BY <1>2, <1>7, KeepHolds DEF Behind, Buffered
  <2>3. Lags(First(Printed', read'), d, carry')
    BY <1>2, <1>7, <1>10 DEF Behind
  <2> QED
    BY <2>1, <2>2, <2>3 DEF Behind
<1>12. TextInv'
  BY <1>2, <1>8 DEF TextInv
<1>13. TypeOK'
  <2>1. /\ head' = head /\ tail' = tail /\ head_done' = head_done
    BY <1>2 DEF buffer
  <2>2. read' \in 0..Len(Printed')
    BY <1>2, <1>6, <1>8, <1>9
  <2>3. /\ after \in BOOLEAN /\ head_done \in BOOLEAN /\ event \in BOOLEAN
        /\ carry \in Seq(Bytes) /\ head \in Seq(Bytes) /\ tail \in Seq(Bytes)
        /\ answer.shown \in Seq(Bytes) /\ Len(carry) <= Keep
        /\ Len(head) <= HeadSize /\ Len(tail) <= TailSize
    BY <1>1, <1>2, TypeParts
  <2> QED
    BY <1>2, <1>4, <1>8, <2>1, <2>2, <2>3 DEF TypeOK
<1>14. WaitInv'
  <2>1. \E f \in Seq(Bytes) : Behind(f)'
    BY <1>11
  <2> QED
    BY <1>2, <1>4, <1>6, <2>1 DEF WaitInv
<1>15. StartInv' /\ ReadyInv' /\ EndInv' /\ AnswerInv'
  BY <1>2, <1>4 DEF StartInv, ReadyInv, EndInv, AnswerInv
<1> QED
  BY <1>12, <1>13, <1>14, <1>15 DEF Inv

LEMMA NextStep == Inv /\ [Next]_vars => Inv'
<1> SUFFICES ASSUME Inv, [Next]_vars PROVE Inv'
  OBVIOUS
<1>1. CASE Read
  BY <1>1, ReadStep
<1>2. CASE EndOfFile
  BY <1>2, EndOfFileStep
<1>3. CASE Send
  BY <1>3, SendStep
<1>4. CASE Return
  BY <1>4, ReturnStep
<1>5. CASE Exit
  BY <1>5, ExitStep
<1>6. CASE UNCHANGED vars
  <2>1. /\ state' = state /\ after' = after /\ carry' = carry /\ head' = head /\ tail' = tail
        /\ head_done' = head_done /\ event' = event /\ text' = text /\ read' = read
        /\ alive' = alive /\ answer' = answer
    BY <1>6 DEF vars, buffer, shell
  <2>2. Printed' = Printed /\ Got' = Got /\ \A d : Buffered(d)' = Buffered(d) /\ Behind(d)' = Behind(d)
    BY <2>1 DEF Printed, Got, Buffered, Behind
  <2>3. TypeOK' = TypeOK /\ TextInv' = TextInv /\ AnswerInv' = AnswerInv
    BY <2>1, <2>2 DEF TypeOK, TextInv, AnswerInv
  <2>4. StartInv' = StartInv /\ ReadyInv' = ReadyInv
    BY <2>1, <2>2 DEF StartInv, ReadyInv
  <2>5. WaitInv' = WaitInv /\ EndInv' = EndInv
    BY <2>1, <2>2 DEF WaitInv, EndInv, Buffered
  <2> QED
    BY <2>3, <2>4, <2>5 DEF Inv
<1> QED
  BY <1>1, <1>2, <1>3, <1>4, <1>5, <1>6 DEF Next

\* The inductive invariant holds.
LEMMA InvHolds == Spec => []Inv
BY InitStep, NextStep, PTL DEF Spec

\* Whatever the reads and the lengths: the buffer, what is kept back and the answers are sequences of
\* bytes, within their bounds, and no more is read than was printed (_drain, _store_output).
THEOREM OutputTypeCorrect == Spec => []TypeOK
<1>1. Inv => TypeOK
  BY DEF Inv
<1> QED
  BY <1>1, InvHolds, PTL

\* However the reads cut what the command prints, its escape sequences and its prompt: an answer is
\* made of all of it, as if it had come in one piece, or of its first HEAD_SIZE and its last TAIL_SIZE
\* bytes; what a call sees meanwhile lags behind by what is kept back and no more (_drain,
\* _store_output, _get_buffered_output).
THEOREM AnswersAreExact == Spec => []OutputExact
<1>1. ASSUME Inv PROVE OutputExact
  <2>1. TypeOK /\ TextInv /\ WaitInv /\ AnswerInv
    BY <1>1 DEF Inv
  <2>2. /\ alive \in BOOLEAN /\ text \in Seq(Bytes) /\ carry \in Seq(Bytes) /\ read \in 0..Len(Printed)
    BY <2>1, TypeParts
  <2>3. Printed \in Seq(Bytes) /\ Len(Printed) \in Nat
    BY <2>1, <2>2, PrintedType
  <2>4. ASSUME state = "waiting", ~event
        PROVE  \E k \in 0..Keep :
                 LET got == Stripped(SubSeq(Printed, 1, read)) IN
                   View(Command) = Shown(First(got, Len(got) - k), Command)
    <3> DEFINE got == Stripped(SubSeq(Printed, 1, read))  k == Len(carry)
    <3>1. PICK d \in Seq(Bytes) : Behind(d)
      BY <2>1, <2>4 DEF WaitInv
    <3>2. First(Printed, read) = SubSeq(Printed, 1, read)
      <4>1. CASE read < Len(Printed)
        BY <4>1 DEF First
      <4>2. CASE ~(read < Len(Printed))
        <5>1. read = Len(Printed)
          BY <2>2, <2>3, <4>2
        <5> QED
          BY <4>2, <5>1 DEF First
      <4> QED
        BY <4>1, <4>2
    <3>3. got = d \o carry /\ Buffered(d)
      BY <3>1, <3>2 DEF Behind, Got, Pieces
    <3> HIDE DEF got
    <3>4. k \in 0..Keep
      <4>1. Len(carry) <= Keep
        BY <2>1, <2>4, TypeParts
      <4> QED
        BY <2>2, <4>1, Sizes
    <3>5. Len(got) = Len(d) + Len(carry) /\ Len(d) \in Nat /\ Len(carry) \in Nat
      BY <2>2, <3>3, Concat
    <3>6. First(got, Len(d)) = d
      <4>1. First(d \o carry, Len(d)) = d
        BY <2>2, CutAtJoin
      <4> QED
        BY <3>3, <4>1
    <3>7. Len(got) - k = Len(d)
      BY <3>5
    <3>8. View(Command) = Shown(d, Command)
      BY <3>3, CommandType, Viewed
    <3>9. View(Command) = Shown(First(got, Len(got) - k), Command)
      BY <3>6, <3>7, <3>8
    <3> QED
      BY <3>4, <3>9 DEF got
  <2> QED
    BY <2>1, <2>4 DEF OutputExact, AnswerInv
<1> QED
  BY <1>1, InvHolds, PTL

-----------------------------------------------------------------------------
(* The set-up. *)

\* Where the mark is in what the shell prints first, and how far the reads have come: before
\* it, with nothing kept back, or past it.
Split(pre, post) ==
  /\ pre \in Seq(Said) /\ post \in Seq(Said) /\ text = pre \o (SetupOk \o post)
  /\ \/ ~after /\ carry = <<>> /\ read <= Len(pre)
     \/ after /\ Len(pre) + 2 <= read
SetupInv ==
  state = "init" => read <= Len(text) /\ \E pre, post \in Seq(Said) : Split(pre, post)

LEMMA SetupOkType ==
  /\ SetupOk \in Seq(Bytes) /\ SetupOk \in Seq(Clean) /\ SetupOk # <<>> /\ Len(SetupOk) = 2
  /\ SetupOk[1] = "s" /\ SetupOk[2] = "t" /\ Said \subseteq Bytes /\ Said \subseteq Plain
<1>1. "s" \in Bytes /\ "t" \in Bytes /\ Plain \subseteq Bytes
  BY PromptType DEF Plain
<1>2. "s" \in Clean /\ "t" \in Clean
  BY <1>1 DEF Clean
<1> QED
  BY <1>1, <1>2 DEF SetupOk, Said, Plain

\* Nothing else that a shell prints has the mark.
LEMMA NoMark ==
  ASSUME NEW s \in Seq(Bytes), \A i \in 1..Len(s) : s[i] # "s"
  PROVE  Places(s, SetupOk) = {}
<1> SUFFICES ASSUME NEW i \in Places(s, SetupOk) PROVE FALSE
  OBVIOUS
<1>1. /\ i \in 1..(Len(s) - 2 + 1) /\ SubSeq(s, i, i + 2 - 1) = SetupOk
  BY SetupOkType DEF Places
<1>2. i \in 1..Len(s) /\ i + 1 \in 1..Len(s) /\ i + 2 - 1 = i + 1 /\ Len(s) \in Nat
  BY <1>1
<1>3. SubSeq(s, i, i + 1)[1] = s[i]
  BY <1>2
<1>4. SetupOk[1] = s[i]
  BY <1>1, <1>2, <1>3
<1> QED
  BY <1>2, <1>4, SetupOkType

LEMMA SaidStripped == \A s \in Seq(Said) : Stripped(s) \in Seq(Said)
<1>1. Said \in SUBSET Bytes
  BY SetupOkType
<1>2. (Said \cup {"n"}) \ {"r"} \subseteq Said
  BY DEF Said
<1> QED
  BY <1>1, <1>2, StrippedType, SeqMonotonic

LEMMA SaidHasNoMark == \A s \in Seq(Said) : Places(s, SetupOk) = {}
<1> SUFFICES ASSUME NEW s \in Seq(Said) PROVE Places(s, SetupOk) = {}
  OBVIOUS
<1>1. s \in Seq(Bytes)
  BY SetupOkType, SeqMonotonic
<1>2. \A i \in 1..Len(s) : s[i] # "s"
  BY DEF Said
<1> QED
  BY <1>1, <1>2, NoMark

LEMMA SetupInit == Init => SetupInv
<1> SUFFICES ASSUME Init PROVE SetupInv
  OBVIOUS
<1>1. PICK echo \in Outputs(1), banner \in Outputs(1), rest \in Outputs(1) :
         text = banner \o echo \o SetupOk \o <<"r", "n">> \o rest
  BY DEF Init
<1>2. /\ echo \in Seq(Said) /\ banner \in Seq(Said) /\ rest \in Seq(Said) /\ <<"r", "n">> \in Seq(Said)
  BY <1>1, OutputsAreTexts DEF Said
<1> DEFINE pre == banner \o echo  post == <<"r", "n">> \o rest
<1>3. pre \in Seq(Said) /\ post \in Seq(Said)
  BY <1>2
<1>4. text = pre \o (SetupOk \o post)
  <2>1. /\ pre \in Seq(Bytes) /\ rest \in Seq(Bytes) /\ <<"r", "n">> \in Seq(Bytes)
        /\ post \in Seq(Bytes) /\ SetupOk \in Seq(Bytes)
    BY <1>2, <1>3, SetupOkType, SeqMonotonic
  <2> DEFINE rn == <<"r", "n">>
  <2>2. rn \in Seq(Bytes) /\ pre \o SetupOk \in Seq(Bytes)
    BY <2>1
  <2>3. text = ((pre \o SetupOk) \o rn) \o rest
    BY <1>1
  <2>40. /\ pre \o SetupOk \in Seq(Bytes) /\ rn \in Seq(Bytes) /\ rest \in Seq(Bytes)
    BY <2>1, <2>2
  <2> HIDE DEF rn, pre, post
  <2>4. ((pre \o SetupOk) \o rn) \o rest = (pre \o SetupOk) \o (rn \o rest)
    BY <2>40, BytesAssoc, Zenon
  <2>5. (pre \o SetupOk) \o post = pre \o (SetupOk \o post)
    BY <2>1, BytesAssoc, Zenon
  <2>6. post = rn \o rest
    BY DEF rn, post
  <2> QED
    BY <2>3, <2>4, <2>5, <2>6
<1>5. /\ ~after /\ carry = <<>> /\ read = 0
  BY DEF Init
<1>6. Split(pre, post)
  <2>1. Len(pre) \in Nat
    BY <1>3
  <2> QED
    BY <1>3, <1>4, <1>5, <2>1 DEF Split
<1>7. read <= Len(text)
  <2>1. text \in Seq(Bytes)
    BY InitStep, TypeParts DEF Inv
  <2> QED
    BY <1>5, <2>1
<1> HIDE DEF pre, post
<1> QED
  BY <1>3, <1>6, <1>7 DEF SetupInv

LEMMA MarkAt ==
  ASSUME NEW p \in Seq(Bytes), NEW z \in Seq(Bytes)
  PROVE  LET P == p \o (SetupOk \o z) IN
           /\ P \in Seq(Bytes) /\ Len(P) = Len(p) + 2 + Len(z) /\ Len(p) \in Nat /\ Len(z) \in Nat
           /\ SubSeq(P, Len(p) + 1, Len(p) + 2) = SetupOk
           /\ \A i \in 1..Len(p) : P[i] = p[i]
<1> DEFINE a == SetupOk \o z  P == p \o a  m == SubSeq(P, Len(p) + 1, Len(p) + 2)
<1>1. /\ a \in Seq(Bytes) /\ Len(a) = 2 + Len(z) /\ Len(z) \in Nat
      /\ a[1] = SetupOk[1] /\ a[2] = SetupOk[2]
  <2>1. SetupOk \in Seq(Bytes) /\ Len(SetupOk) = 2
    BY SetupOkType
  <2>2. /\ SetupOk \o z \in Seq(Bytes) /\ Len(SetupOk \o z) = Len(SetupOk) + Len(z) /\ Len(z) \in Nat
        /\ \A i \in 1..Len(SetupOk) : (SetupOk \o z)[i] = SetupOk[i]
    BY <2>1, Concat
  <2> QED
    BY <2>1, <2>2
<1> HIDE DEF a
<1>2. /\ P \in Seq(Bytes) /\ Len(P) = Len(p) + Len(a) /\ Len(p) \in Nat
      /\ \A i \in 1..Len(p) : P[i] = p[i]
      /\ \A i \in 1..Len(a) : P[Len(p) + i] = a[i]
  <2>1. a \in Seq(Bytes) /\ p \in Seq(Bytes)
    BY <1>1
  <2> QED
    BY <2>1, Concat
<1> HIDE DEF P
<1>3. m \in Seq(Bytes) /\ Len(m) = 2 /\ m[1] = P[Len(p) + 1] /\ m[2] = P[Len(p) + 2]
  BY <1>1, <1>2
<1>4. m[1] = SetupOk[1] /\ m[2] = SetupOk[2]
  BY <1>1, <1>2, <1>3
<1> HIDE DEF m
<1>5. m = SetupOk
  <2>1. \A i \in 1..Len(m) : i = 1 \/ i = 2
    BY <1>3
  <2>2. \A i \in 1..Len(m) : m[i] = SetupOk[i]
    BY <1>4, <2>1
  <2> QED
    BY <1>3, <2>2, SetupOkType, SeqEqual
<1> QED
  BY <1>1, <1>2, <1>5 DEF P, a, m

\* A read from before the mark to behind it has the mark.
LEMMA MarkRead ==
  ASSUME NEW p \in Seq(Bytes), NEW z \in Seq(Bytes), NEW P, P = p \o (SetupOk \o z),
         NEW r \in 0..Len(p), NEW n \in (Len(p) + 2)..Len(P)
  PROVE  Places(Stripped(SubSeq(P, r + 1, n)), SetupOk) # {}
<1>1. /\ P \in Seq(Bytes) /\ Len(P) = Len(p) + 2 + Len(z) /\ Len(p) \in Nat /\ Len(z) \in Nat
      /\ SubSeq(P, Len(p) + 1, Len(p) + 2) = SetupOk
  BY MarkAt
<1> DEFINE b == SubSeq(P, r + 1, Len(p))  e == SubSeq(P, Len(p) + 3, n)
<1>2. b \in Seq(Bytes) /\ e \in Seq(Bytes)
  BY <1>1
<1>3. SubSeq(P, r + 1, n) = b \o (SetupOk \o e)
  <2>1. /\ r + 1 \in 1..(Len(P) + 1) /\ Len(p) \in ((r + 1) - 1)..Len(P) /\ n \in Len(p)..Len(P)
        /\ Len(p) + 1 \in 1..(Len(P) + 1) /\ Len(p) + 2 \in ((Len(p) + 1) - 1)..Len(P)
        /\ n \in (Len(p) + 2)..Len(P) /\ (Len(p) + 2) + 1 = Len(p) + 3
    BY <1>1
  <2>2. b \o SubSeq(P, Len(p) + 1, n) = SubSeq(P, r + 1, n)
    BY <1>1, <2>1, ConcatAdjacentSubSeq, Zenon
  <2>3. SubSeq(P, Len(p) + 1, Len(p) + 2) \o SubSeq(P, (Len(p) + 2) + 1, n) = SubSeq(P, Len(p) + 1, n)
    BY <1>1, <2>1, ConcatAdjacentSubSeq, Zenon
  <2> QED
    BY <1>1, <2>1, <2>2, <2>3
<1> HIDE DEF b, e
<1>4. Stripped(b \o (SetupOk \o e)) = Stripped(b) \o (SetupOk \o Stripped(e))
  BY <1>2, SetupOkType, StrippedMiddle
<1>5. Len(Stripped(b)) + 1 \in Places(Stripped(b) \o (SetupOk \o Stripped(e)), SetupOk)
  <2>1. Stripped(b) \in Seq(Bytes) /\ Stripped(e) \in Seq(Bytes) /\ SetupOk \in Seq(Bytes)
    BY <1>2, StrippedBytes, SetupOkType
  <2> QED
    BY <2>1, PlaceAt
<1> QED
  BY <1>3, <1>4, <1>5

\* A read that ends before the prompt does.
LEMMA EarlyScan ==
  ASSUME Inv, state = "init", read < Len(Printed),
         NEW n \in (read + 1)..Len(Printed), n < Len(Printed)
  PROVE  carry \in Seq(Before) /\ Stripped(carry \o SubSeq(Printed, read + 1, n)) \in Seq(Before)
<1>1. TypeOK /\ TextInv /\ StartInv
  BY DEF Inv
<1>2. alive \in BOOLEAN /\ text \in Seq(Bytes) /\ read \in 0..Len(Printed)
  BY <1>1, TypeParts
<1>3. Len(Printed) \in Nat /\ read \in Nat
  BY <1>1, <1>2, PrintedType
<1>4. carry \in Seq(Before)
  BY <1>1, <1>3 DEF StartInv
<1> DEFINE s == First(Printed, read)  t == SubSeq(Printed, read + 1, n)  u == First(Printed, n)
<1>5. s \in Seq(Bytes) /\ t \in Seq(Bytes) /\ s \o t = u /\ n \in 0..Len(Printed)
  BY <1>1, <1>2, ReadPieces
<1> HIDE DEF s, t, u
<1>6. u \in Seq(Before)
  BY <1>1, <1>2, <1>5, EarlyIsBefore DEF u
<1>7. t \in Seq(Before)
  <2>1. Pieces(u, s, t)
    BY <1>5 DEF Pieces
  <2> QED
    BY <1>6, <2>1, PieceBefore
<1>8. carry \o t \in Seq(Before)
  BY <1>4, <1>7
<1> QED
  BY <1>4, <1>8, StrippedBefore DEF t

\* Where the reads do not cut the mark or the first prompt, the mark is found by the read that has it.
LEMMA SetupRead ==
  ASSUME ~CutsInit, Inv, SetupInv, Read, state = "init"
  PROVE  SetupInv'
<1>1. TypeOK /\ TextInv /\ StartInv
  BY DEF Inv
<1>2. /\ alive \in BOOLEAN /\ text \in Seq(Bytes) /\ read \in 0..Len(Printed) /\ after \in BOOLEAN
      /\ carry \in Seq(Bytes)
  BY <1>1, TypeParts
<1>3. read < Len(Printed) /\ alive /\ UNCHANGED shell
  BY <1>1 DEF Read, StartInv
<1>4. PICK n \in (read + 1)..Len(Printed) :
        /\ ~Cut(n) /\ read' = n /\ ScanInit(Stripped(carry \o SubSeq(Printed, read + 1, n)))
  BY DEF Read
<1>5. PICK pre \in Seq(Said), post \in Seq(Said) : Split(pre, post)
  BY DEF SetupInv
<1>6. /\ Printed \in Seq(Bytes) /\ Len(Printed) \in Nat /\ read \in Nat /\ n \in Nat
      /\ Printed = text \o Prompt /\ Len(Printed) = Len(text) + PromptLen /\ Len(text) \in Nat
      /\ PromptLen \in Nat /\ 2 <= PromptLen /\ Prompt \in Seq(Bytes)
  <2>1. /\ Printed \in Seq(Bytes) /\ Len(Printed) \in Nat /\ Len(text) \in Nat
        /\ Printed = text \o Prompt /\ Len(Printed) = Len(text) + PromptLen
    BY <1>1, <1>2, <1>3, PrintedType
  <2>2. read \in Nat /\ n \in Nat
    BY <1>2, <2>1
  <2> QED
    BY <2>1, <2>2, PromptType
<1>7. pre \in Seq(Bytes) /\ post \in Seq(Bytes)
  BY SetupOkType, SeqMonotonic
<1>8. /\ text = pre \o (SetupOk \o post) /\ read <= Len(text)
      /\ \/ ~after /\ carry = <<>> /\ read <= Len(pre)
         \/ after /\ Len(pre) + 2 <= read
  BY <1>5 DEF Split, SetupInv
<1>9. PICK q : q \in Seq(Bytes) /\ Printed = pre \o (SetupOk \o q)
  <2> DEFINE a == SetupOk \o post
  <2>1. SetupOk \in Seq(Bytes) /\ a \in Seq(Bytes) /\ post \o Prompt \in Seq(Bytes) /\ Prompt \in Seq(Bytes)
    BY <1>6, <1>7, SetupOkType, Concat
  <2>2. (SetupOk \o post) \o Prompt = SetupOk \o (post \o Prompt)
    <3>1. SetupOk \in Seq(Bytes) /\ post \in Seq(Bytes) /\ Prompt \in Seq(Bytes)
      BY <1>7, <2>1
    <3> QED
      BY <3>1, BytesAssoc, Zenon
  <2> HIDE DEF a
  <2>3. (pre \o a) \o Prompt = pre \o (a \o Prompt)
    BY <1>7, <2>1, BytesAssoc, Zenon
  <2>4. Printed = pre \o (SetupOk \o (post \o Prompt))
    BY <1>6, <1>8, <2>2, <2>3 DEF a
  <2> QED
    BY <2>1, <2>4
<1>10. /\ Len(text) = Len(pre) + 2 + Len(post) /\ Len(pre) \in Nat /\ Len(post) \in Nat
       /\ SubSeq(text, Len(pre) + 1, Len(pre) + 2) = SetupOk
       /\ \A i \in 1..Len(pre) : Printed[i] = pre[i]
  BY <1>7, <1>8, <1>9, MarkAt
<1>11. n # Len(pre) + 1
  <2> SUFFICES ASSUME n = Len(pre) + 1 PROVE FALSE
    OBVIOUS
  <2>1. n < Len(text) /\ n > 0 /\ n + 1 = Len(pre) + 2
    BY <1>10
  <2>2. SubSeq(text, n, n + 1) = SetupOk
    BY <1>10, <2>1
  <2> QED
    BY <1>4, <2>1, <2>2 DEF Cut
<1>12. n <= Len(text) \/ n = Len(Printed)
  <2>1. ~(n > Len(text) /\ n < Len(Printed))
    BY <1>4 DEF Cut
  <2>2. n <= Len(Printed)
    BY <1>6
  <2>3. n \in Nat /\ Len(Printed) \in Nat /\ Len(text) \in Nat
    BY <1>6
  <2> QED
    BY <2>1, <2>2, <2>3
<1> DEFINE t == SubSeq(Printed, read + 1, n)  w == Stripped(carry \o t)
<1>13. ScanInit(w)
  BY <1>4
<1>14. t \in Seq(Bytes)
  BY <1>6
<1> HIDE DEF w, t
<1>15. text' = text /\ Printed' = Printed
  BY <1>3, <1>1, TextKept
<1>16. ~after => w = Stripped(t)
  <2>1. <<>> \o t = t
    BY <1>14
  <2> QED
    BY <1>8, <2>1 DEF w
<1>17. ASSUME ~after, Len(pre) + 2 <= n PROVE Places(w, SetupOk) # {}
  <2>1. read \in 0..Len(pre) /\ n \in (Len(pre) + 2)..Len(Printed)
    BY <1>6, <1>8, <1>10, <1>17
  <2>2. Places(Stripped(SubSeq(Printed, read + 1, n)), SetupOk) # {}
    BY <1>7, <1>9, <2>1, MarkRead
  <2> QED
    BY <1>16, <1>17, <2>2 DEF t
<1>18. CASE n <= Len(text)
  <2>1. n < Len(Printed)
    BY <1>6, <1>18
  <2>2. carry \in Seq(Before) /\ w \in Seq(Before)
    BY <1>3, <2>1, EarlyScan DEF w, t
  <2>3. /\ state' = "init" /\ after' = (after \/ Places(w, SetupOk) # {})
        /\ ~after' => carry' = <<>>
    BY <1>2, <1>13, <2>2, InitWithout
  <2>4. CASE n <= Len(pre)
    <3>1. ~after
      BY <1>6, <1>8, <1>10, <2>4
    <3>2. t \in Seq(Said)
      <4>1. Len(t) = n - read /\ \A i \in 1..Len(t) : t[i] = Printed[read + i]
        <5>1. read + 1 \in 1..Len(Printed) /\ n \in (read + 1)..Len(Printed) /\ n \in 1..Len(Printed)
          BY <1>6
        <5>2. Printed \in Seq(Bytes) /\ Len(Printed) \in Nat /\ read \in Nat /\ n \in Nat
          BY <1>6
        <5>3. t = SubSeq(Printed, read + 1, n)
          BY DEF t
        <5> QED
          BY <5>1, <5>2, <5>3
      <4>2. ASSUME NEW i \in 1..Len(t) PROVE t[i] \in Said
        <5>1. read + i \in 1..Len(pre)
          BY <1>6, <1>10, <2>4, <4>1
        <5> QED
          BY <1>10, <4>1, <5>1
      <4> QED
        BY <1>14, <4>2, Retyped
    <3>3. Places(w, SetupOk) = {}
      BY <1>16, <3>1, <3>2, SaidStripped, SaidHasNoMark
    <3>4. ~after' /\ carry' = <<>>
      <4>1. ~(after \/ Places(w, SetupOk) # {})
        BY <3>1, <3>3
      <4>2. ~after'
        BY <2>3, <4>1, Zenon
      <4> QED
        BY <2>3, <4>2
    <3>5. Split(pre, post)'
      BY <1>4, <1>8, <1>15, <2>4, <3>4 DEF Split
    <3> QED
      BY <1>4, <1>15, <1>18, <3>5 DEF SetupInv
  <2>5. CASE ~(n <= Len(pre))
    <3>1. Len(pre) + 2 <= n
      BY <1>6, <1>10, <1>11, <2>5
    <3>2. after'
      <4>1. after \/ Places(w, SetupOk) # {}
        BY <1>17, <3>1
      <4> QED
        BY <2>3, <4>1, Zenon
    <3>3. Split(pre, post)'
      BY <1>4, <1>8, <1>15, <3>1, <3>2 DEF Split
    <3> QED
      BY <1>4, <1>15, <1>18, <3>3 DEF SetupInv
  <2> QED
    BY <2>4, <2>5
<1>19. CASE n = Len(Printed)
  <2>1. after \/ Places(w, SetupOk) # {}
    <3>1. Len(pre) + 2 <= n
      BY <1>6, <1>10, <1>19
    <3> QED
      BY <1>17, <3>1
  <2>2. Places(w, Prompt) # {}
    <3> DEFINE b == But(text, read)  x == Stripped(carry \o b)
    <3>1. b \in Seq(Bytes) /\ t = b \o Prompt
      <4>1. First(Printed, read) \o t = Printed
        <5>1. /\ First(Printed, read) \o t = First(Printed, n) /\ First(Printed, Len(Printed)) = Printed
          BY <1>1, <1>2, <1>3, ReadPieces DEF t
        <5> QED
          BY <1>19, <5>1
      <4>2. But(Printed, read) = b \o Prompt /\ b \in Seq(Bytes)
        BY <1>2, <1>6, <1>8, CutWithin, ButPiece
      <4>3. t = But(Printed, read)
        BY <1>6, <1>19 DEF But, t
      <4> QED
        BY <4>2, <4>3
    <3> HIDE DEF b
    <3>2. carry \o t = (carry \o b) \o Prompt /\ carry \o b \in Seq(Bytes)
      <4>1. carry \in Seq(Bytes) /\ b \in Seq(Bytes) /\ Prompt \in Seq(Bytes)
        BY <1>2, <1>6, <3>1
      <4>2. (carry \o b) \o Prompt = carry \o (b \o Prompt)
        BY <4>1, BytesAssoc, Zenon
      <4> QED
        BY <3>1, <4>1, <4>2
    <3>3. w = x \o Prompt /\ x \in Seq(Bytes)
      BY <3>2, PromptType, StrippedTail, StrippedBytes DEF w
    <3> HIDE DEF x
    <3>4. Len(x) + 1 \in Places(x \o (Prompt \o <<>>), Prompt)
      <4>1. x \in Seq(Bytes) /\ Prompt \in Seq(Bytes) /\ <<>> \in Seq(Bytes)
        BY <1>6, <3>3
      <4> QED
        BY <4>1, PlaceAt
    <3>5. Prompt \o <<>> = Prompt
      BY <1>6
    <3> QED
      BY <3>3, <3>4, <3>5
  <2>3. state' = "ready"
    BY <1>13, <2>1, <2>2 DEF ScanInit
  <2> QED
    BY <2>3 DEF SetupInv
<1> QED
  BY <1>12, <1>18, <1>19

LEMMA SetupNext ==
  ASSUME ~CutsInit, Inv, SetupInv, [Next]_vars
  PROVE  SetupInv'
<1>1. CASE Read /\ state = "init"
  BY <1>1, SetupRead
<1>2. CASE Read /\ state # "init"
  <2>1. state' # "init"
    <3>1. ~(state = "init")
      BY <1>2
    <3>2. \E s : ScanOutput(s)
      BY <1>2, <3>1 DEF Read
    <3>3. state' = state
      BY <3>2 DEF ScanOutput
    <3> QED
      BY <1>2, <3>3
  <2> QED
    BY <2>1 DEF SetupInv
<1>3. CASE EndOfFile \/ Send \/ Return \/ Exit
  <2>1. state' # "init"
    BY <1>3 DEF EndOfFile, Send, Return, Exit
  <2> QED
    BY <2>1 DEF SetupInv
<1>4. CASE UNCHANGED vars
  <2>1. state' = state /\ after' = after /\ carry' = carry /\ read' = read /\ text' = text
    BY <1>4 DEF vars, shell
  <2>2. SetupInv' = SetupInv
    BY <2>1 DEF SetupInv, Split
  <2> QED
    BY <2>2
<1> QED
  BY <1>1, <1>2, <1>3, <1>4 DEF Next

\* Wherever the reads cut what the shell prints, for every prompt and every size of what is kept back
\* that has room for one: the session is ready, or the event set, when the last byte of the prompt
\* has been read and not before (_drain). As in the run, no read ends within SETUP_OK or the first
\* prompt: the scan of the start-up keeps nothing back for those.
THEOREM PromptIsSeen ==
  ASSUME ~CutsInit
  PROVE  Spec => []PromptSeen
<1>1. Init => Inv /\ SetupInv
  BY InitStep, SetupInit
<1>2. Inv /\ SetupInv /\ [Next]_vars => (Inv /\ SetupInv)'
  <2>1. Inv /\ [Next]_vars => Inv'
    BY NextStep
  <2>2. Inv /\ SetupInv /\ [Next]_vars => SetupInv'
    BY SetupNext
  <2> QED
    BY <2>1, <2>2
<1>3. Inv /\ SetupInv => PromptSeen
  <2> SUFFICES ASSUME Inv, SetupInv, alive PROVE (read = Len(Printed)) = (state = "ready" \/ event)
    BY DEF PromptSeen
  <2>1. /\ state \in {"init", "ready", "waiting", "terminated"} /\ event \in BOOLEAN
        /\ alive \in BOOLEAN /\ text \in Seq(Bytes) /\ read \in 0..Len(Printed) /\ TextInv
    BY TypeParts DEF Inv
  <2>2. /\ Len(Printed) = Len(text) + PromptLen /\ Len(text) \in Nat /\ PromptLen \in Nat
        /\ 2 <= PromptLen
    BY <2>1, PrintedType, PromptType
  <2>3. CASE state = "init"
    <3>1. ~event /\ read <= Len(text) /\ read \in Nat
      BY <2>1, <2>2, <2>3 DEF Inv, StartInv, SetupInv
    <3>2. read # Len(Printed)
      BY <2>2, <3>1
    <3> QED
      BY <2>3, <3>1, <3>2
  <2>4. CASE state = "ready"
    BY <2>4 DEF Inv, ReadyInv
  <2>5. CASE state = "waiting"
    <3>1. event <=> read = Len(Printed)
      BY <2>5 DEF Inv, WaitInv
    <3> QED
      BY <2>1, <2>5, <3>1
  <2>6. CASE state = "terminated"
    BY <2>6 DEF Inv, EndInv
  <2> QED
    BY <2>1, <2>3, <2>4, <2>5, <2>6
<1> QED
  BY <1>1, <1>2, <1>3, PTL DEF Spec
=============================================================================
