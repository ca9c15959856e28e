------------------------- MODULE FileQueriesProofs -------------------------
(***************************************************************************)
(* Proofs about FileQueries: the types, that the pages of a read leave out *)
(* no line, and that the pages of a search leave out no file.              *)
(***************************************************************************)
EXTENDS FileQueries, FiniteSetTheorems, TLAPS

\* A read in progress asks for the page after the one that was truncated, or is the
\* first of its sweep.
ReadInv ==
  task = "read" =>
    /\ sweep.from >= 1
    /\ pc # "idle" =>
         /\ call.offset >= 1 /\ call.end = call.offset + call.limit - 1
         /\ answer = NoAnswer
         /\ IF sweep.on THEN call.offset = sweep.next ELSE sweep.from = call.offset
    /\ answer.status # "ok" => answer.total = 0

\* Until wc has counted, the page holds every line of its window that ends in a newline.
PartInv ==
  task = "read" /\ pc = "wc" =>
    /\ \A n \in DOMAIN part : n >= call.offset
    /\ grown /\ whole =>
         \A n \in call.offset .. call.end :
           n <= Newlines(file) => n \in DOMAIN part /\ part[n] = file.lines[n]

\* What the agent has passed ends in a newline: appending to the file cannot change it.
CoverInv ==
  task = "read" /\ grown /\ whole =>
    \A n \in sweep.from .. Passed :
      n <= Newlines(file) /\ n \in DOMAIN seen /\ seen[n] = file.lines[n]

ReadsInv == TypeOK /\ ReadInv /\ PartInv /\ CoverInv

\* A search in progress goes on where the last listing was cut, and what is newer
\* than that has been shown.
SearchInv ==
  task = "search" =>
    /\ pc # "idle" =>
         /\ answer = NoAnswer
         /\ IF sweep.on THEN call.offset = sweep.next ELSE sweep.from = call.offset
    /\ kept /\ sweep.from = 0 /\ sweep.on =>
         \A f \in still : Rank(f) < sweep.next => f \in found

FindInv == TypeOK /\ SearchInv /\ FoundAll

-----------------------------------------------------------------------------
(* Files and their lines. *)

LEMMA Shape ==
  ASSUME NEW f, f \in Contents \cup {NoFile}
  PROVE  /\ Len(f.lines) \in Nat /\ DOMAIN f.lines = 1..Len(f.lines)
         /\ \A n \in 1..Len(f.lines) : f.lines[n] \in Texts \cup {Blank}
         /\ f.ended \in BOOLEAN
         /\ Newlines(f) \in 0..Len(f.lines)
         /\ Len(f.lines) - 1 <= Newlines(f)
<1>1. CASE f = NoFile
  BY <1>1 DEF NoFile, Newlines
<1>2. CASE f \in Contents
  <2>1. PICK n \in 0..MaxLines : f.lines \in [1..n -> Texts \cup {Blank}]
    BY <1>2 DEF Contents
  <2>2. n \in Nat
    BY QueryAssumption, <2>1
  <2>3. f.lines \in Seq(Texts \cup {Blank})
    BY <2>1, <2>2
  <2>4. Len(f.lines) = n
    BY <2>1, <2>2, <2>3
  <2>5. f.ended \in BOOLEAN
    BY <1>2 DEF Contents
  <2>6. f.lines # <<>> => Len(f.lines) # 0
    BY <2>3
  <2>7. Newlines(f) \in 0..Len(f.lines) /\ Len(f.lines) - 1 <= Newlines(f)
    BY <2>2, <2>3, <2>4, <2>6 DEF Newlines
  <2>. QED BY <2>1, <2>2, <2>4, <2>5, <2>7
<1>. QED BY <1>1, <1>2

LEMMA Counted ==
  ASSUME TypeOK
  PROVE  /\ Total \in Nat /\ Total <= Len(file.lines)
         /\ shell = "bash" => Total = Newlines(file)
<1>1. file \in Contents \cup {NoFile}
  BY DEF TypeOK
<1>. DEFINE S == {n \in DOMAIN file.lines : file.lines[n] # Blank}
<1>2. S \subseteq 1..Len(file.lines) /\ Len(file.lines) \in Nat /\ Newlines(file) \in 0..Len(file.lines)
  BY <1>1, Shape
<1>3. /\ IsFiniteSet(1..Len(file.lines))
      /\ Cardinality(1..Len(file.lines)) = Len(file.lines)
  <2>1. ASSUME NEW k \in Nat
        PROVE  IsFiniteSet(1..k) /\ Cardinality(1..k) = k
    <3>1. IsFiniteSet(1..k) /\ Cardinality(1..k) = IF 1 > k THEN 0 ELSE k - 1 + 1
      BY FS_Interval
    <3>. QED BY <3>1
  <2>. QED BY <1>2, <2>1
<1>4. Cardinality(S) \in Nat /\ Cardinality(S) <= Len(file.lines)
  BY <1>2, <1>3, FS_Subset, FS_CardinalityType
<1>. QED BY <1>2, <1>4 DEF Total

LEMMA PageTypes ==
  ASSUME file \in Contents \cup {NoFile}, call.offset \in Nat \ {0}, call.limit \in Nat \ {0}
  PROVE  /\ DOMAIN Page \subseteq Nat
         /\ \A n \in DOMAIN Page : n >= call.offset /\ Page[n] \in Texts \cup {Blank}
         /\ \A n \in call.offset .. (call.offset + call.limit - 1) :
              n \in 1..Newlines(file) => n \in DOMAIN Page /\ Page[n] = file.lines[n]
<1>1. /\ Len(file.lines) \in Nat
      /\ \A n \in 1..Len(file.lines) : file.lines[n] \in Texts \cup {Blank}
      /\ Newlines(file) \in 0..Len(file.lines)
  BY Shape
<1>. DEFINE last == Least(call.offset + call.limit - 1, Len(file.lines))
            cut == shell = "bash" /\ last <= Newlines(file)
            top == IF cut THEN last + 1 ELSE last
<1>2. last \in Nat /\ last <= Len(file.lines) /\ last <= call.offset + call.limit - 1
      /\ \A n \in Nat : n <= call.offset + call.limit - 1 /\ n <= Newlines(file) => n <= last
  BY <1>1 DEF Least
<1>3. CASE last < call.offset
  <2>1. Page = [n \in {call.offset} |-> Blank]
    BY <1>3 DEF Page
  <2>2. DOMAIN Page = {call.offset} /\ Page[call.offset] = Blank
    BY <2>1
  <2>. HIDE DEF last
  <2>3. \A n \in call.offset .. (call.offset + call.limit - 1) : ~(n \in 1..Newlines(file))
    BY <1>1, <1>2, <1>3
  <2>. QED BY <2>2, <2>3
<1>4. CASE ~(last < call.offset)
  <2>1. Page = [n \in call.offset .. top |-> IF n <= last THEN file.lines[n] ELSE Blank]
    BY <1>4 DEF Page
  <2>2. top \in Nat /\ last <= top
    BY <1>2
  <2>. HIDE DEF last, top
  <2>3. DOMAIN Page = call.offset .. top
    BY <2>1
  <2>4. \A n \in call.offset .. top : Page[n] = IF n <= last THEN file.lines[n] ELSE Blank
    BY <2>1
  <2>5. \A n \in call.offset .. top : n <= last => n \in 1..Len(file.lines)
    BY <1>1, <1>2, <2>2
  <2>6. \A n \in call.offset .. (call.offset + call.limit - 1) :
          n \in 1..Newlines(file) => n \in call.offset .. top /\ n <= last
    BY <1>1, <1>2, <2>2
  <2>7. DOMAIN Page \subseteq Nat /\ \A n \in DOMAIN Page : n >= call.offset
    BY <2>2, <2>3
  <2>. QED BY <1>1, <2>3, <2>4, <2>5, <2>6, <2>7
<1>. QED BY <1>3, <1>4

LEMMA Ranks ==
  ASSUME TypeOK, NEW f \in Files
  PROVE  /\ Rank(f) \in Nat
         /\ Cardinality(Present) \in Nat
         /\ f \in Present => Rank(f) < Cardinality(Present)
<1>. DEFINE S == {g \in Files : mtime[g] > mtime[f]}
<1>1. IsFiniteSet(Files) /\ mtime \in [Files -> Nat]
  BY QueryAssumption DEF TypeOK
<1>2. IsFiniteSet(Present) /\ IsFiniteSet(S) /\ S \subseteq Present
  BY <1>1, FS_Subset DEF Present
<1>3. Cardinality(Present) \in Nat /\ Cardinality(S) \in Nat
  BY <1>2, FS_CardinalityType
<1>4. ASSUME f \in Present PROVE Cardinality(S) < Cardinality(Present)
  <2>1. f \notin S /\ S # Present
    BY <1>1, <1>4 DEF Present
  <2>2. Cardinality(S) <= Cardinality(Present) /\ Cardinality(S) # Cardinality(Present)
    BY <1>2, <2>1, FS_Subset, Zenon
  <2>. QED BY <1>3, <2>2
<1>. QED BY <1>3, <1>4 DEF Rank

\* A file that is touched goes in front of the others: none of them comes nearer.
LEMMA RankGrows ==
  ASSUME TypeOK, NEW g \in Files, Touch(g), NEW f \in Files, f # g
  PROVE  Rank(f) \in Nat /\ (Rank(f))' \in Nat /\ Rank(f) <= (Rank(f))'
<1>. DEFINE S == {h \in Files : mtime[h] > mtime[f]}
            T == {h \in Files : mtime'[h] > mtime'[f]}
<1>1. IsFiniteSet(Files) /\ clock \in Nat /\ mtime \in [Files -> 0..clock]
  BY QueryAssumption DEF TypeOK
<1>2. mtime' = [mtime EXCEPT ![g] = clock + 1]
  BY DEF Touch
<1>3. mtime'[f] = mtime[f] /\ \A h \in Files : mtime'[h] >= mtime[h] /\ mtime'[h] \in Nat
  BY <1>1, <1>2
<1>4. \A h \in Files : mtime[h] \in Nat
  BY <1>1
<1>5. S \subseteq T /\ IsFiniteSet(T)
  BY <1>1, <1>3, <1>4, FS_Subset
<1>6. Cardinality(S) <= Cardinality(T)
  BY <1>5, FS_Subset
<1>7. Cardinality(S) \in Nat /\ Cardinality(T) \in Nat
  BY <1>5, FS_Subset, FS_CardinalityType
<1>. QED BY <1>6, <1>7 DEF Rank

-----------------------------------------------------------------------------
(* The types. *)

LEMMA InitTypes == Init => TypeOK
<1>. SUFFICES ASSUME Init PROVE TypeOK
  OBVIOUS
<1>1. IsFiniteSet(Files) /\ Cardinality(Files) \in Nat
  BY QueryAssumption, FS_CardinalityType
<1>2. mtime \in [Files -> 0..Cardinality(Files)]
  BY <1>1 DEF Init
<1>. QED BY <1>1, <1>2, QueryAssumption DEF Init, TypeOK, NoAnswer, NoSweep

LEMMA AskTypes ==
  ASSUME TypeOK, NEW offset \in Nat, Ask(offset)
  PROVE  /\ sweep' \in [on : BOOLEAN, from : Nat, next : Nat]
         /\ answer' \in [status : {"none", "ok", "not_found", "too_large", "image", "binary", "error"},
                         total : Nat, truncated : BOOLEAN]
         /\ DOMAIN seen' \subseteq Nat /\ \A n \in DOMAIN seen' : seen'[n] \in Texts \cup {Blank}
         /\ found' \subseteq Files /\ still' \subseteq Present
         /\ {grown', whole', kept'} \subseteq BOOLEAN
         /\ calls' \in 0..MaxCalls
         /\ UNCHANGED <<task, shell, disk, edits>>
<1>1. calls' \in 0..MaxCalls
  BY QueryAssumption DEF Ask, TypeOK
<1>2. CASE Continues(offset)
  BY <1>1, <1>2 DEF Ask, TypeOK, NoAnswer, ghosts
<1>3. CASE ~Continues(offset)
  <2>1. /\ sweep' = [on |-> FALSE, from |-> offset, next |-> offset]
        /\ seen' = <<>> /\ found' = {} /\ answer' = NoAnswer
    BY <1>3 DEF Ask
  <2>2. grown' = TRUE /\ whole' = TRUE /\ still' = Present /\ kept' = TRUE
    BY <1>3 DEF Ask
  <2>3. UNCHANGED <<task, shell, disk, edits>>
    BY DEF Ask
  <2>. QED BY <1>1, <2>1, <2>2, <2>3 DEF NoAnswer
<1>. QED BY <1>2, <1>3

LEMMA RefuseTypes ==
  ASSUME TypeOK, NEW status \in {"not_found", "too_large", "image", "binary"}, Refuse(status)
  PROVE  TypeOK'
BY DEF Refuse, Answer, TypeOK, disk, ghosts, Present

LEMMA StepTypes == TypeOK /\ [Next]_vars => TypeOK'
<1>. SUFFICES ASSUME TypeOK, [Next]_vars PROVE TypeOK'
  OBVIOUS
<1>1. ASSUME NEW o \in Offsets \cup {sweep.next}, NEW l \in Limits, Read(o, l)
      PROVE  TypeOK'
  <2>. DEFINE offset == Larger(1, o)
              limit == Bounded(l)
  <2>1. o \in Nat /\ l \in Nat
    BY QueryAssumption DEF TypeOK
  <2>2. offset \in Nat /\ offset >= 1 /\ limit \in Nat \ {0}
    BY <2>1, QueryAssumption DEF Larger, Least, Bounded
  <2>3. Ask(offset) /\ call' = [offset |-> offset, limit |-> limit, end |-> offset + limit - 1]
        /\ pc' = "stat" /\ part' = <<>> /\ task = "read"
    BY <1>1 DEF Read, EndLine
  <2>. HIDE DEF offset, limit
  <2>4. offset + limit - 1 \in Nat
    BY <2>2
  <2>5. PICK k \in Nat : k = offset + limit - 1
    BY <2>4
  <2>6. call' \in [offset : Nat, limit : Nat \ {0}, end : Nat]
    BY <2>2, <2>3, <2>5
  <2>7. DOMAIN part' \subseteq Nat /\ \A n \in DOMAIN part' : part'[n] \in Texts \cup {Blank}
    BY <2>3
  <2>8. pc' = "stat" /\ task = "read" /\ call'.offset >= 1
    BY <2>2, <2>3
  <2>9. UNCHANGED <<task, shell, file, mtime, clock, edits>> /\ still' \subseteq Present'
    BY <2>2, <2>3, AskTypes DEF disk, Present
  <2>. QED BY <2>2, <2>3, <2>6, <2>7, <2>8, <2>9, AskTypes DEF TypeOK
<1>2. ASSUME NEW o \in Offsets \cup {sweep.next}, NEW l \in Limits, Search(o, l)
      PROVE  TypeOK'
  <2>. DEFINE limit == Larger(1, l)
  <2>0. o \in Nat /\ l \in Nat
    BY QueryAssumption DEF TypeOK
  <2>1. o \in Nat /\ limit \in Nat \ {0}
    BY <2>0 DEF Larger
  <2>2. Ask(o) /\ call' = [offset |-> o, limit |-> limit, end |-> o + limit - 1]
        /\ pc' = "rg" /\ UNCHANGED part /\ task = "search"
    BY <1>2 DEF Search
  <2>. HIDE DEF limit
  <2>3. o + limit - 1 \in Nat
    BY <2>1
  <2>. QED BY <2>1, <2>2, <2>3, AskTypes DEF TypeOK, disk, Present
<1>3. CASE NotFound
  BY <1>3, RefuseTypes DEF NotFound
<1>4. CASE Stat
  <2>1. CASE Len(file.lines) > MaxSize
    BY <1>4, <2>1, RefuseTypes DEF Stat
  <2>2. CASE ~(Len(file.lines) > MaxSize)
    BY <1>4, <2>2 DEF Stat, TypeOK, disk, ghosts, Present
  <2>. QED BY <2>1, <2>2
<1>5. CASE NotText
  BY <1>5, RefuseTypes DEF NotText
<1>6. CASE Sed
  <2>1. file \in Contents \cup {NoFile} /\ call.offset \in Nat \ {0} /\ call.limit \in Nat \ {0}
    BY <1>6 DEF TypeOK, Sed
  <2>2. DOMAIN Page \subseteq Nat /\ \A n \in DOMAIN Page : Page[n] \in Texts \cup {Blank}
    BY <2>1, PageTypes
  <2>. QED BY <1>6, <2>2 DEF Sed, TypeOK, disk, ghosts, Present
<1>7. CASE Wc
  <2>1. Total \in Nat /\ call.end + 1 \in Nat
    BY Counted DEF TypeOK
  <2>2. /\ answer' = [status |-> "ok", total |-> Total, truncated |-> Total > call.end]
        /\ sweep' = [sweep EXCEPT !.on = Total > call.end, !.next = call.end + 1]
        /\ seen' = [n \in DOMAIN part \cup DOMAIN seen |-> IF n \in DOMAIN part THEN part[n] ELSE seen[n]]
        /\ pc' = "idle" /\ UNCHANGED <<task, shell, disk, call, part, found, ghosts, calls, edits>>
    BY <1>7 DEF Wc, Answer
  <2>3. PICK k \in Nat : k = Total
    BY <2>1
  <2>. DEFINE more == Total > call.end
  <2>4. more \in BOOLEAN
    OBVIOUS
  <2>5. answer' = [status |-> "ok", total |-> k, truncated |-> more]
    BY <2>2, <2>3
  <2>6. sweep' = [sweep EXCEPT !.on = more, !.next = call.end + 1]
    BY <2>2
  <2>. HIDE DEF more
  <2>7. sweep' \in [on : BOOLEAN, from : Nat, next : Nat]
    BY <2>1, <2>4, <2>6 DEF TypeOK
  <2>8. DOMAIN seen' \subseteq Nat /\ \A n \in DOMAIN seen' : seen'[n] \in Texts \cup {Blank}
    BY <2>2 DEF TypeOK
  <2>. QED BY <2>2, <2>3, <2>4, <2>5, <2>7, <2>8 DEF TypeOK, disk, ghosts, Present
<1>8. CASE List
  <2>. DEFINE more == Truncated(call.offset, call.limit)
              F == {f \in Present : Rank(f) \in call.offset .. (call.offset + call.limit - 1)}
  <2>1. call.offset + call.limit \in Nat /\ F \subseteq Files
    BY DEF TypeOK, Present
  <2>2. more \in BOOLEAN
    BY DEF Truncated
  <2>3. /\ answer' = [status |-> "ok", total |-> 0, truncated |-> more]
        /\ sweep' = [sweep EXCEPT !.on = more, !.next = call.offset + call.limit]
        /\ found' = found \cup F
        /\ pc' = "idle" /\ UNCHANGED <<task, shell, disk, call, part, seen, ghosts, calls, edits>>
    BY <1>8 DEF List, Answer
  <2>. HIDE DEF more, F
  <2>. QED BY <2>1, <2>2, <2>3 DEF TypeOK, disk, ghosts, Present
<1>9. CASE ListNothing
  <2>1. PICK status \in {"ok", "error"} : answer' = [status |-> status, total |-> 0, truncated |-> FALSE]
    BY <1>9 DEF ListNothing, Answer
  <2>2. /\ sweep' = [sweep EXCEPT !.on = FALSE] /\ kept' = FALSE /\ pc' = "idle"
        /\ UNCHANGED <<task, shell, disk, call, part, seen, found, grown, whole, still, calls, edits>>
    BY <1>9 DEF ListNothing
  <2>. QED BY <2>1, <2>2 DEF TypeOK, disk, Present
<1>10. ASSUME Edit PROVE edits' \in 0..MaxEdits /\ UNCHANGED <<task, shell, query>>
  BY <1>10, QueryAssumption DEF Edit, TypeOK
<1>11. CASE Grow
  BY <1>10, <1>11 DEF Grow, TypeOK, query, Present
<1>12. CASE Replace
  BY <1>10, <1>12 DEF Replace, TypeOK, query, Present
<1>13. ASSUME NEW f \in Files, Touch(f)
       PROVE  TypeOK'
  <2>1. /\ clock' = clock + 1 /\ mtime' = [mtime EXCEPT ![f] = clock + 1] /\ still' = still \ {f}
        /\ UNCHANGED <<file, grown, whole, kept>> /\ Edit
    BY <1>13 DEF Touch
  <2>2. clock \in Nat /\ mtime \in [Files -> 0..clock]
    BY DEF TypeOK
  <2>3. clock' \in Nat /\ mtime' \in [Files -> 0..clock'] /\ clock + 1 # 0
    BY <2>1, <2>2
  <2>4. \A g, h \in Files : mtime'[g] = mtime'[h] /\ g # h => mtime'[g] = 0
    BY <2>1, <2>2, <2>3 DEF TypeOK
  <2>5. still' \subseteq Present'
    BY <2>1, <2>2 DEF TypeOK, Present
  <2>. QED BY <1>10, <2>1, <2>3, <2>4, <2>5 DEF TypeOK, query
<1>14. ASSUME NEW f \in Files, Remove(f)
       PROVE  TypeOK'
  <2>1. /\ mtime' = [mtime EXCEPT ![f] = 0] /\ still' = still \ {f} /\ kept' = FALSE
        /\ UNCHANGED <<file, clock, grown, whole>> /\ Edit
    BY <1>14 DEF Remove
  <2>2. clock \in Nat /\ mtime \in [Files -> 0..clock]
    BY DEF TypeOK
  <2>3. mtime' \in [Files -> 0..clock']
    BY <2>1, <2>2
  <2>4. \A g, h \in Files : mtime'[g] = mtime'[h] /\ g # h => mtime'[g] = 0
    BY <2>1, <2>2 DEF TypeOK
  <2>5. still' \subseteq Present'
    BY <2>1, <2>2 DEF TypeOK, Present
  <2>. QED BY <1>10, <2>1, <2>3, <2>4, <2>5 DEF TypeOK, query
<1>15. CASE UNCHANGED vars
  BY <1>15 DEF TypeOK, vars, disk, query, ghosts, Present
<1>. QED
  BY <1>1, <1>2, <1>3, <1>4, <1>5, <1>6, <1>7, <1>8, <1>9, <1>11, <1>12, <1>13, <1>14, <1>15 DEF Next

\* The variables keep their types, and the times of the files stay apart, for every
\* bound.
THEOREM QueryTypeCorrect == Spec => []TypeOK
BY InitTypes, StepTypes, PTL DEF Spec

-----------------------------------------------------------------------------
(* Reads. *)

LEMMA InitReads == Init => ReadsInv
<1>. SUFFICES ASSUME Init PROVE ReadsInv
  OBVIOUS
<1>1. TypeOK
  BY InitTypes
<1>2. ReadInv /\ PartInv
  BY DEF Init, ReadInv, PartInv, NoSweep, NoAnswer
<1>3. CoverInv
  BY DEF Init, CoverInv, Passed, NoSweep, NoAnswer
<1>. QED BY <1>1, <1>2, <1>3 DEF ReadsInv

LEMMA RefuseReads ==
  ASSUME ReadsInv, task = "read", NEW status \in {"not_found", "too_large", "image", "binary"}, Refuse(status)
  PROVE  ReadInv' /\ PartInv' /\ CoverInv'
<1>1. /\ pc' = "idle" /\ answer' = [status |-> status, total |-> 0, truncated |-> FALSE]
      /\ sweep'.on = FALSE /\ sweep'.from = sweep.from
      /\ UNCHANGED <<task, shell, grown, whole>>
  BY DEF Refuse, Answer, ghosts, ReadsInv, TypeOK
<1>2. ReadInv' /\ PartInv'
  BY <1>1 DEF ReadInv, PartInv, ReadsInv
<1>3. sweep.from \in Nat /\ sweep.from >= 1
  BY DEF ReadsInv, ReadInv, TypeOK
<1>4. CoverInv'
  BY <1>1, <1>3 DEF CoverInv, Passed
<1>. QED BY <1>2, <1>4

LEMMA ReadReads ==
  ASSUME ReadsInv, NEW o \in Offsets \cup {sweep.next}, NEW l \in Limits, Read(o, l)
  PROVE  ReadInv' /\ PartInv' /\ CoverInv'
<1>. DEFINE offset == Larger(1, o)
            limit == Bounded(l)
<1>1. o \in Nat /\ l \in Nat
  BY QueryAssumption DEF ReadsInv, TypeOK
<1>2. offset \in Nat /\ offset >= 1 /\ limit \in Nat \ {0}
  BY <1>1, QueryAssumption DEF Larger, Least, Bounded
<1>3. Ask(offset) /\ call' = [offset |-> offset, limit |-> limit, end |-> offset + limit - 1]
      /\ pc' = "stat" /\ task = "read"
  BY DEF Read, EndLine
<1>. HIDE DEF offset, limit
<1>4. call'.offset = offset /\ call'.end = call'.offset + call'.limit - 1
  BY <1>3
<1>5. answer' = NoAnswer /\ UNCHANGED <<task, shell, file>>
  BY <1>3 DEF Ask, disk
<1>6. CASE Continues(offset)
  <2>1. UNCHANGED <<sweep, seen, grown, whole>> /\ sweep.on /\ offset = sweep.next
    BY <1>3, <1>6 DEF Ask, Continues, ghosts
  <2>2. ReadInv' /\ PartInv'
    BY <1>2, <1>3, <1>4, <1>5, <2>1 DEF ReadInv, PartInv, ReadsInv, NoAnswer
  <2>3. CoverInv'
    BY <1>5, <2>1 DEF CoverInv, Passed, ReadsInv, Newlines
  <2>. QED BY <2>2, <2>3
<1>7. CASE ~Continues(offset)
  <2>1. sweep' = [on |-> FALSE, from |-> offset, next |-> offset]
    BY <1>3, <1>7 DEF Ask
  <2>2. ReadInv' /\ PartInv'
    BY <1>2, <1>3, <1>4, <1>5, <2>1 DEF ReadInv, PartInv, NoAnswer
  <2>3. CoverInv'
    BY <1>2, <1>5, <2>1 DEF CoverInv, Passed, NoAnswer
  <2>. QED BY <2>2, <2>3
<1>. QED BY <1>6, <1>7

LEMMA SedReads ==
  ASSUME ReadsInv, task = "read", Sed
  PROVE  ReadInv' /\ PartInv' /\ CoverInv'
<1>1. /\ pc = "sed" /\ pc' = "wc" /\ part' = Page
      /\ UNCHANGED <<task, shell, file, call, answer, sweep, seen, grown, whole>>
  BY DEF Sed, disk, ghosts
<1>2. /\ file \in Contents \cup {NoFile} /\ call.offset \in Nat \ {0} /\ call.limit \in Nat \ {0}
      /\ call.end = call.offset + call.limit - 1
  BY <1>1 DEF ReadsInv, TypeOK, ReadInv
<1>3. Newlines(file) \in Nat
  BY <1>2, Shape
<1>4. ReadInv' /\ CoverInv'
  BY <1>1 DEF ReadsInv, ReadInv, CoverInv, Passed, Newlines
<1>5. \A n \in call.offset .. call.end : n <= Newlines(file) => n \in 1..Newlines(file)
  BY <1>2, <1>3
<1>6. \A n \in call.offset .. call.end : n <= Newlines(file) => n \in DOMAIN Page /\ Page[n] = file.lines[n]
  BY <1>2, <1>5, PageTypes
<1>7. \A n \in DOMAIN Page : n >= call.offset
  BY <1>2, PageTypes
<1>8. PartInv'
  BY <1>1, <1>6, <1>7 DEF PartInv, Newlines
<1>. QED BY <1>4, <1>8

LEMMA WcReads ==
  ASSUME ReadsInv, task = "read", Wc
  PROVE  ReadInv' /\ PartInv' /\ CoverInv'
<1>1. /\ answer' = [status |-> "ok", total |-> Total, truncated |-> Total > call.end]
      /\ sweep' = [sweep EXCEPT !.on = Total > call.end, !.next = call.end + 1]
      /\ seen' = [n \in DOMAIN part \cup DOMAIN seen |-> IF n \in DOMAIN part THEN part[n] ELSE seen[n]]
      /\ pc = "wc" /\ pc' = "idle" /\ UNCHANGED <<task, shell, file, call, part, grown, whole>>
  BY DEF Wc, Answer, disk, ghosts
<1>2. TypeOK /\ ReadInv /\ PartInv /\ CoverInv
  BY DEF ReadsInv
<1>3. Total \in Nat /\ Total <= Len(file.lines) /\ (shell = "bash" => Total = Newlines(file))
  BY <1>2, Counted
<1>4. /\ Len(file.lines) \in Nat /\ Newlines(file) \in Nat
      /\ Len(file.lines) - 1 <= Newlines(file)
  BY <1>2, Shape DEF TypeOK
<1>5. /\ sweep.from \in Nat /\ sweep.next \in Nat /\ call.end \in Nat /\ call.offset \in Nat
      /\ DOMAIN part \subseteq Nat /\ \A n \in DOMAIN part : n >= call.offset
      /\ IF sweep.on THEN call.offset = sweep.next ELSE sweep.from = call.offset
  BY <1>1, <1>2 DEF TypeOK, ReadInv, PartInv
<1>6. sweep'.on = (Total > call.end) /\ sweep'.next = call.end + 1 /\ sweep'.from = sweep.from
  BY <1>1, <1>2 DEF TypeOK
<1>7. ReadInv' /\ PartInv'
  BY <1>1, <1>2, <1>6 DEF ReadInv, PartInv
<1>8. ASSUME grown, whole, NEW n \in sweep.from .. Passed'
      PROVE  n <= Newlines(file) /\ n \in DOMAIN seen' /\ seen'[n] = file.lines[n]
  <2>1. Passed' = IF Total > call.end THEN call.end ELSE IF shell = "bash" THEN Total ELSE 0
    <3>1. answer'.total = Total /\ shell' = shell
      BY <1>1
    <3>2. Passed' = IF sweep'.on THEN sweep'.next - 1 ELSE IF shell = "bash" THEN Total ELSE 0
      BY <3>1 DEF Passed
    <3>3. CASE Total > call.end
      <4>1. sweep'.on
        BY <1>6, <3>3
      <4>2. sweep'.next = call.end + 1
        BY <1>6
      <4>3. sweep'.next - 1 = call.end
        BY <1>5, <4>2
      <4>. QED BY <3>2, <3>3, <4>1, <4>3
    <3>4. CASE ~(Total > call.end)
      BY <1>6, <3>2, <3>4
    <3>. QED BY <3>3, <3>4
  <2>2. n <= call.end /\ (n <= Newlines(file))
    BY <1>3, <1>4, <1>5, <2>1
  <2>3. CASE n >= call.offset
    <3>1. n \in DOMAIN part /\ part[n] = file.lines[n]
      BY <1>1, <1>2, <1>5, <1>8, <2>2, <2>3 DEF PartInv
    <3>. QED BY <1>1, <2>2, <3>1
  <2>4. CASE ~(n >= call.offset)
    <3>1. sweep.on /\ n \in sweep.from .. Passed
      BY <1>5, <2>4 DEF Passed
    <3>2. n \in DOMAIN seen /\ seen[n] = file.lines[n]
      BY <1>2, <1>8, <3>1 DEF CoverInv
    <3>3. n \notin DOMAIN part
      BY <1>5, <2>4
    <3>. QED BY <1>1, <2>2, <3>2, <3>3
  <2>. QED BY <2>3, <2>4
<1>9. CoverInv'
  BY <1>1, <1>6, <1>8 DEF CoverInv, Newlines
<1>. QED BY <1>7, <1>9

LEMMA GrowReads ==
  ASSUME ReadsInv, Grow
  PROVE  ReadInv' /\ PartInv' /\ CoverInv'
<1>1. /\ file' \in Contents /\ Newlines(file') >= Newlines(file)
      /\ \A n \in 1..Newlines(file) : file'.lines[n] = file.lines[n]
      /\ whole' = (whole /\ pc # "wc")
      /\ UNCHANGED <<task, shell, pc, call, part, answer, sweep, seen, grown>>
  BY DEF Grow, Edit, query
<1>2. Newlines(file) \in Nat /\ Newlines(file') \in Nat
  BY <1>1, Shape DEF ReadsInv, TypeOK
<1>3. ReadInv' /\ PartInv'
  BY <1>1 DEF ReadsInv, ReadInv, PartInv
<1>4. ASSUME task = "read", grown, whole, NEW n \in sweep.from .. Passed
      PROVE  n <= Newlines(file') /\ n \in DOMAIN seen /\ seen[n] = file'.lines[n]
  <2>1. n <= Newlines(file) /\ n \in DOMAIN seen /\ seen[n] = file.lines[n]
    BY <1>4 DEF ReadsInv, CoverInv
  <2>2. n \in Nat /\ n >= 1
    <3>1. sweep.from \in Nat /\ sweep.from >= 1 /\ Passed \in Int
      BY <1>4 DEF ReadsInv, TypeOK, ReadInv, Passed
    <3>. QED BY <3>1
  <2>. QED BY <1>1, <1>2, <2>1, <2>2
<1>5. Passed' = Passed /\ (Newlines(file))' = Newlines(file')
  BY <1>1 DEF Passed, Newlines
<1>6. CoverInv'
  BY <1>1, <1>4, <1>5 DEF CoverInv
<1>. QED BY <1>3, <1>6

LEMMA StepReads == ReadsInv /\ [Next]_vars => ReadsInv'
<1>. SUFFICES ASSUME ReadsInv, [Next]_vars PROVE ReadsInv'
  OBVIOUS
<1>1. TypeOK'
  BY StepTypes DEF ReadsInv
<1>2. CASE task # "read"
  <2>1. task' # "read"
    BY <1>2 DEF Next, vars, Read, Search, Ask, NotFound, Stat, Sed, Wc, NotText, Refuse, List,
      ListNothing, Grow, Replace, Touch, Remove, Edit
  <2>. QED BY <1>1, <2>1 DEF ReadsInv, ReadInv, PartInv, CoverInv
<1>3. CASE task = "read"
  <2>. SUFFICES ReadInv' /\ PartInv' /\ CoverInv'
    BY <1>1 DEF ReadsInv
  <2>1. ASSUME NEW o \in Offsets \cup {sweep.next}, NEW l \in Limits, Read(o, l) \/ Search(o, l)
        PROVE  ReadInv' /\ PartInv' /\ CoverInv'
    BY <1>3, <2>1, ReadReads DEF Search
  <2>2. CASE NotFound
    BY <1>3, <2>2, RefuseReads DEF NotFound
  <2>3. CASE Stat
    <3>1. CASE Len(file.lines) > MaxSize
      BY <1>3, <2>3, <3>1, RefuseReads DEF Stat
    <3>2. CASE ~(Len(file.lines) > MaxSize)
      <4>1. pc = "stat" /\ pc' = "sed" /\ UNCHANGED <<task, shell, file, call, part, answer, sweep, seen, grown, whole>>
        BY <2>3, <3>2 DEF Stat, disk, ghosts
      <4>. QED BY <4>1 DEF ReadsInv, ReadInv, PartInv, CoverInv, Passed, Newlines
    <3>. QED BY <3>1, <3>2
  <2>4. CASE Sed
    BY <1>3, <2>4, SedReads
  <2>5. CASE Wc
    BY <1>3, <2>5, WcReads
  <2>6. CASE NotText
    BY <1>3, <2>6, RefuseReads DEF NotText
  <2>7. CASE List \/ ListNothing
    BY <1>3, <2>7 DEF List, ListNothing, ReadsInv, TypeOK
  <2>8. CASE Grow
    BY <2>8, GrowReads
  <2>9. CASE Replace
    <3>1. grown' = FALSE /\ UNCHANGED <<task, shell, pc, call, part, answer, sweep>>
      BY <2>9 DEF Replace, Edit, query
    <3>. QED BY <3>1 DEF ReadsInv, ReadInv, PartInv, CoverInv
  <2>10. ASSUME NEW f \in Files, Touch(f) \/ Remove(f)
         PROVE  ReadInv' /\ PartInv' /\ CoverInv'
    BY <1>3, <2>10 DEF Touch, Remove
  <2>11. CASE UNCHANGED vars
    BY <2>11 DEF vars, disk, query, ghosts, ReadsInv, ReadInv, PartInv, CoverInv, Passed, Newlines
  <2>. QED
    BY <2>1, <2>2, <2>3, <2>4, <2>5, <2>6, <2>7, <2>8, <2>9, <2>10, <2>11 DEF Next
<1>. QED BY <1>2, <1>3

\* Whoever follows the hints of read is shown every line, for every file, window and
\* bound, however the file grows between the calls.
THEOREM PagesCoverTheFile == Spec => []PagesCover
<1>1. ReadsInv => PagesCover
  <2>. SUFFICES ASSUME ReadsInv, task = "read", grown, whole, NEW n \in sweep.from .. Passed
                PROVE  n \in DOMAIN seen /\ n \in DOMAIN file.lines /\ seen[n] = file.lines[n]
    BY DEF PagesCover
  <2>1. n <= Newlines(file) /\ n \in DOMAIN seen /\ seen[n] = file.lines[n]
    BY DEF ReadsInv, CoverInv
  <2>2. sweep.from \in Nat /\ sweep.from >= 1 /\ Passed \in Int
    BY DEF ReadsInv, TypeOK, ReadInv, Passed
  <2>3. Len(file.lines) \in Nat /\ DOMAIN file.lines = 1..Len(file.lines) /\ Newlines(file) \in 0..Len(file.lines)
    BY Shape DEF ReadsInv, TypeOK
  <2>. QED BY <2>1, <2>2, <2>3
<1>. QED BY <1>1, InitReads, StepReads, PTL DEF Spec

-----------------------------------------------------------------------------
(* Searches. *)

LEMMA InitFinds == Init => FindInv
BY InitTypes DEF Init, FindInv, SearchInv, FoundAll, NoSweep, NoAnswer

LEMMA ListFinds ==
  ASSUME FindInv, List
  PROVE  SearchInv' /\ FoundAll'
<1>. DEFINE more == Truncated(call.offset, call.limit)
            F == {f \in Present : Rank(f) \in call.offset .. (call.offset + call.limit - 1)}
<1>1. /\ pc = "rg" /\ pc' = "idle" /\ sweep' = [sweep EXCEPT !.on = more, !.next = call.offset + call.limit]
      /\ found' = found \cup F
      /\ UNCHANGED <<task, mtime, still, kept>>
  BY DEF List, disk, ghosts
<1>2. TypeOK /\ SearchInv
  BY DEF FindInv
<1>3. /\ call.offset \in Nat /\ call.limit \in Nat \ {0} /\ sweep.from \in Nat /\ sweep.next \in Nat
      /\ still \subseteq Present /\ Present \subseteq Files
  BY <1>2 DEF TypeOK, Present
<1>4. sweep'.on = more /\ sweep'.next = call.offset + call.limit /\ sweep'.from = sweep.from
  BY <1>1, <1>2 DEF TypeOK
<1>5. ASSUME task = "search", kept, sweep.from = 0, NEW f \in still, Rank(f) < call.offset + call.limit
      PROVE  f \in found'
  <2>1. f \in Files /\ f \in Present /\ Rank(f) \in Nat
    BY <1>2, <1>3, Ranks
  <2>2. CASE Rank(f) < call.offset
    <3>1. sweep.on /\ call.offset = sweep.next
      BY <1>1, <1>2, <1>3, <1>5, <2>1, <2>2 DEF SearchInv
    <3>. QED BY <1>1, <1>2, <1>5, <2>2, <3>1 DEF SearchInv
  <2>3. CASE ~(Rank(f) < call.offset)
    BY <1>1, <1>3, <1>5, <2>1, <2>3
  <2>. QED BY <2>2, <2>3
<1>6. ASSUME task = "search", kept, sweep.from = 0, ~more, NEW f \in still
      PROVE  f \in found'
  <2>1. f \in Files /\ f \in Present /\ Rank(f) \in Nat /\ Cardinality(Present) \in Nat
        /\ Rank(f) < Cardinality(Present)
    BY <1>2, <1>3, Ranks
  <2>2. Cardinality(Present) < call.offset + call.limit
    BY <1>3, <1>6, <2>1 DEF Truncated, Listed, Least
  <2>3. Rank(f) < call.offset + call.limit
    BY <1>3, <2>1, <2>2
  <2>. QED BY <1>5, <1>6, <2>3
<1>7. \A f : (Rank(f))' = Rank(f)
  BY <1>1 DEF Rank
<1>. HIDE DEF more, F
<1>8. SearchInv'
  BY <1>1, <1>4, <1>5, <1>7 DEF SearchInv
<1>9. FoundAll'
  BY <1>1, <1>4, <1>6 DEF FoundAll
<1>. QED BY <1>8, <1>9

LEMMA SearchFinds ==
  ASSUME FindInv, NEW o \in Offsets \cup {sweep.next}, NEW l \in Limits, Search(o, l)
  PROVE  SearchInv' /\ FoundAll'
<1>1. Ask(o) /\ call'.offset = o
  BY DEF Search
<1>2. answer' = NoAnswer /\ UNCHANGED <<task, mtime>>
  BY <1>1 DEF Ask, disk
<1>3. FoundAll'
  BY <1>2 DEF FoundAll, NoAnswer
<1>4. CASE Continues(o)
  <2>1. UNCHANGED <<sweep, found, still, kept>> /\ sweep.on /\ o = sweep.next
    BY <1>1, <1>4 DEF Ask, Continues, ghosts
  <2>. QED BY <1>1, <1>2, <1>3, <2>1 DEF FindInv, SearchInv, Rank
<1>5. CASE ~Continues(o)
  <2>1. sweep' = [on |-> FALSE, from |-> o, next |-> o]
    BY <1>1, <1>5 DEF Ask
  <2>. QED BY <1>1, <1>2, <1>3, <2>1 DEF SearchInv
<1>. QED BY <1>4, <1>5

LEMMA TouchFinds ==
  ASSUME FindInv, NEW g \in Files, Touch(g)
  PROVE  SearchInv' /\ FoundAll'
<1>1. still' = still \ {g} /\ UNCHANGED <<task, pc, call, answer, sweep, found, kept>>
  BY DEF Touch, Edit, query
<1>2. ASSUME NEW f \in still', (Rank(f))' < sweep.next
      PROVE  Rank(f) < sweep.next
  <2>1. TypeOK /\ f \in Files /\ f # g /\ sweep.next \in Nat
    BY <1>1 DEF FindInv, TypeOK, Present
  <2>. QED BY <1>2, <2>1, RankGrows
<1>. QED BY <1>1, <1>2 DEF FindInv, SearchInv, FoundAll

LEMMA StepFinds == FindInv /\ [Next]_vars => FindInv'
<1>. SUFFICES ASSUME FindInv, [Next]_vars PROVE FindInv'
  OBVIOUS
<1>1. TypeOK'
  BY StepTypes DEF FindInv
<1>2. CASE task # "search"
  <2>1. task' # "search"
    BY <1>2 DEF Next, vars, Read, Search, Ask, NotFound, Stat, Sed, Wc, NotText, Refuse, List,
      ListNothing, Grow, Replace, Touch, Remove, Edit
  <2>. QED BY <1>1, <2>1 DEF FindInv, SearchInv, FoundAll
<1>3. CASE task = "search"
  <2>. SUFFICES SearchInv' /\ FoundAll'
    BY <1>1 DEF FindInv
  <2>1. ASSUME NEW o \in Offsets \cup {sweep.next}, NEW l \in Limits, Read(o, l) \/ Search(o, l)
        PROVE  SearchInv' /\ FoundAll'
    BY <1>3, <2>1, SearchFinds DEF Read
  <2>2. CASE NotFound \/ Stat \/ Sed \/ Wc \/ NotText
    BY <1>3, <2>2 DEF NotFound, Stat, Sed, Wc, NotText, FindInv, TypeOK
  <2>3. CASE List
    BY <2>3, ListFinds
  <2>4. CASE ListNothing
    <3>1. pc' = "idle" /\ kept' = FALSE
      BY <2>4 DEF ListNothing
    <3>. QED BY <3>1 DEF SearchInv, FoundAll
  <2>5. CASE Grow \/ Replace
    BY <1>3, <2>5 DEF Grow, Replace
  <2>6. ASSUME NEW f \in Files, Touch(f)
        PROVE  SearchInv' /\ FoundAll'
    BY <2>6, TouchFinds
  <2>7. ASSUME NEW f \in Files, Remove(f)
        PROVE  SearchInv' /\ FoundAll'
    <3>1. kept' = FALSE /\ UNCHANGED <<task, pc, call, answer, sweep>>
      BY <2>7 DEF Remove, Edit, query
    <3>. QED BY <3>1 DEF FindInv, SearchInv, FoundAll
  <2>8. CASE UNCHANGED vars
    BY <2>8 DEF vars, disk, query, ghosts, FindInv, SearchInv, FoundAll, Rank
  <2>. QED
    BY <2>1, <2>2, <2>3, <2>4, <2>5, <2>6, <2>7, <2>8 DEF Next
<1>. QED BY <1>2, <1>3

\* Whoever pages through a search until it is not truncated is shown every file that
\* stood still, for every directory, window and bound.
THEOREM SearchFindsAll == Spec => []FoundAll
BY InitFinds, StepFinds, PTL DEF Spec, FindInv
=============================================================================
