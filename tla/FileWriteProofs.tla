--------------------------- MODULE FileWriteProofs ---------------------------
(***************************************************************************)
(* FileWrite for every bound, set of machines, file system and fault: what *)
(* an ok says of the file is true, and a torn file or a leftover is        *)
(* explained by an answer.  FileInv says what a script that still runs may *)
(* be: that of the call in progress, or one whose call has said that it    *)
(* did not see the end.                                                    *)
(***************************************************************************)
EXTENDS FileWrite, TLAPS

\* A call waits for the script of c.
Waits(c) == c = Cur /\ pc = "script"

\* want[c] is what c is to write.
Sent(c) == want[c].text = c /\ want[c].whole

\* Who has a script, and whose may still run.
ScriptInv ==
  /\ pc # "idle" => Cur \in Calls
  /\ pc = "verify" => script[Cur] = "done"
  /\ \A c \in Calls :
       /\ script[c] # "none" => c <= Len(answers) \/ (c = Cur /\ pc \in {"script", "verify"})
       /\ script[c] \in Running => Answered(c, {"write", "applied"}) \/ Waits(c)
       /\ script[c] = "stream" => Waits(c)

\* A script has the content of its own call.
WantInv ==
  /\ pc \in {"mkdir", "put", "verify"} => Sent(Cur)
  /\ \A c \in Calls : script[c] \in {"stream", "move", "copy", "clean"} => Sent(c)

\* Whose temporary files there are.
TempInv ==
  \A c \in Calls :
    /\ temps[c] # "none" => Answered(c, {"mkdir", "put", "write"}) \/ (c = Cur /\ pc \in {"put", "script"})
    /\ script[c] \in {"patch", "done"} => temps[c] = "none"

\* Who can have torn the file: a call that has not seen the end, or has not compared it.
TornInv ==
  disk # NoFile /\ ~disk.whole =>
    /\ disk.text \in Calls
    /\ \/ Answered(disk.text, {"write", "verify", "applied"})
       \/ disk.text = Cur /\ pc \in {"script", "verify"}

FileInv == TypeOK /\ ScriptInv /\ WantInv /\ TempInv /\ TornInv

-----------------------------------------------------------------------------
(* What an answer does, and the types. *)

\* A call that answers adds its answer at the end and leaves the others.
LEMMA AnswerGrows ==
  ASSUME TypeOK, NEW stage \in Stages, Answer(stage)
  PROVE  /\ answers' \in Seq(Stages) /\ Len(answers') = Len(answers) + 1
         /\ answers'[Cur] = stage /\ \A c \in 1..Len(answers) : answers'[c] = answers[c]
         /\ pc' = "idle" /\ Cur' = Cur + 1
BY DEF TypeOK, Answer, Cur

\* What is staged or prepared for writing is a content.
LEMMA ContentTypes ==
  ASSUME TypeOK, FileWriteAssumption
  PROVE  /\ NoFile \in Contents /\ Text \in Contents
         /\ Text.whole => disk.whole /\ Text.text = disk.text
         /\ \A c \in Calls : Staged(c) \in Contents /\ [want[c] EXCEPT !.whole = FALSE] \in Contents
         /\ \A c \in Calls, b \in BOOLEAN : [disk EXCEPT !.text = c, !.whole = b] \in Contents
         /\ \A c \in Calls : seen' \in Contents => WriteContent(c) \in Contents /\ PatchContent(c) \in Contents
<1> USE DEF TypeOK
<1>1. \A c \in Calls : c \in 0..(MaxCalls + MaxEdits) BY DEF Calls, FileWriteAssumption
<1>2. /\ "lf" \in Endings /\ "crlf" \in Endings
      /\ 0 \in 0..(MaxCalls + MaxEdits)
  BY DEF Endings, FileWriteAssumption
<1>3. NoFile \in Contents BY <1>2 DEF NoFile, Contents
<1>4. Text \in Contents /\ (Text.whole => disk.whole /\ Text.text = disk.text)
  <2>1. CASE backend = "docker" BY <2>1 DEF Text
  <2>2. CASE backend = "windows" BY <1>2, <1>3, <2>2 DEF Text, Contents
  <2>3. CASE backend = "ssh" BY <1>3, <2>3 DEF Text, NoFile
  <2> QED BY <2>1, <2>2, <2>3 DEF FileWriteAssumption
<1>5. ASSUME NEW c \in Calls
      PROVE  Staged(c) \in Contents /\ [want[c] EXCEPT !.whole = FALSE] \in Contents
  <2>1. want[c] \in Contents OBVIOUS
  <2>2. ASSUME NEW x \in Contents, NEW b \in BOOLEAN, NEW w \in BOOLEAN
        PROVE  [x EXCEPT !.whole = w, !.bom = b] \in Contents /\ [x EXCEPT !.whole = w] \in Contents
    BY DEF Contents
  <2>3. (temps[c] = "all") \in BOOLEAN /\ (want[c].bom \/ backend = "windows") \in BOOLEAN OBVIOUS
  <2>4. Staged(c) = [want[c] EXCEPT !.whole = (temps[c] = "all"), !.bom = (want[c].bom \/ backend = "windows")]
    BY <2>1 DEF Staged, Contents
  <2>5. [want[c] EXCEPT !.whole = (temps[c] = "all"), !.bom = (want[c].bom \/ backend = "windows")] \in Contents
    BY <2>1, <2>2, <2>3
  <2>6. [want[c] EXCEPT !.whole = FALSE] \in Contents BY <2>1, <2>2
  <2> QED BY <2>4, <2>5, <2>6
<1>6. ASSUME NEW c \in Calls, NEW b \in BOOLEAN
      PROVE  [disk EXCEPT !.text = c, !.whole = b] \in Contents
  BY <1>1 DEF Contents
<1>7. ASSUME NEW c \in Calls, seen' \in Contents
      PROVE  WriteContent(c) \in Contents /\ PatchContent(c) \in Contents
  <2>1. op.endings \in Endings /\ op.bom \in BOOLEAN BY DEF Args, Endings
  <2>2. seen'.bom \in BOOLEAN BY <1>7 DEF Contents
  <2>3. (op.bom \/ seen'.bom) \in BOOLEAN OBVIOUS
  <2>4. WriteContent(c) \in Contents BY <1>1, <1>2, <2>1, <2>3 DEF WriteContent, Contents
  <2>5. PatchContent(c) \in Contents BY <1>1, <1>7 DEF PatchContent, Contents
  <2> QED BY <2>4, <2>5
<1> QED BY <1>3, <1>4, <1>5, <1>6, <1>7

\* A step of a script is one of a script that runs, and goes to another state.
LEMMA ScriptTypes ==
  ASSUME TypeOK, NEW c \in Calls, NEW s \in Steps, NEW t \in Steps, Advance(c, s, t)
  PROVE  script' \in [Calls -> Steps] /\ script[c] = s /\ script'[c] = t
BY DEF TypeOK, Advance

LEMMA InitOK == FileWriteAssumption /\ Init => FileInv
<1> SUFFICES ASSUME FileWriteAssumption, Init PROVE FileInv OBVIOUS
<1>1. NoFile \in Contents BY DEF NoFile, Contents, Endings, FileWriteAssumption
<1>2. disk \in Contents /\ (disk # NoFile => disk.whole)
  <2>1. 0 \in 0..(MaxCalls + MaxEdits) BY DEF FileWriteAssumption
  <2> QED BY <1>1, <2>1 DEF Init, Contents
<1>3. op \in Args BY DEF Init, Args
<1>4. TypeOK BY <1>1, <1>2, <1>3 DEF Init, TypeOK, Pcs, Steps, Temps, FileWriteAssumption
<1>5. ScriptInv BY DEF Init, ScriptInv, Running
<1>6. WantInv /\ TempInv BY DEF Init, WantInv, TempInv
<1>7. TornInv BY <1>2 DEF TornInv
<1> QED BY <1>4, <1>5, <1>6, <1>7 DEF FileInv

-----------------------------------------------------------------------------
(* The types. *)

\* Every step keeps the types; what it needs to know is whose call it is.
LEMMA TypeStep ==
  ASSUME FileWriteAssumption, FileInv, [Next]_vars
  PROVE  TypeOK'
<1> USE DEF FileInv
<1>1. \A stage \in Stages : pc # "idle" \/ Cur \in Calls =>
        (Answer(stage) => answers' \in Seq(Stages) /\ Len(answers') <= MaxCalls /\ pc' \in Pcs)
  <2> SUFFICES ASSUME NEW stage \in Stages, Cur \in Calls, Answer(stage)
               PROVE  answers' \in Seq(Stages) /\ Len(answers') <= MaxCalls /\ pc' \in Pcs
    BY DEF ScriptInv
  <2> QED BY AnswerGrows DEF Calls, Cur, TypeOK, FileWriteAssumption, Pcs
<1>3. CASE Begin
  <2>1. Cur \in Calls BY <1>3 DEF Begin, Cur, Calls, TypeOK, FileWriteAssumption
  <2>2. answers' \in Seq(Stages) /\ Len(answers') <= MaxCalls /\ pc' \in Pcs
    BY <1>1, <1>3, <2>1 DEF Begin, Refused, Stages, Pcs, TypeOK
  <2>3. script' \in [Calls -> Steps] BY <1>3, <2>1 DEF Begin, TypeOK, Steps, Running
  <2> QED BY <1>3, <2>2, <2>3 DEF Begin, TypeOK
<1>4. CASE Probe
  <2>1. Cur \in Calls BY <1>4 DEF Probe, ScriptInv
  <2>2. seen' \in Contents BY <1>4, ContentTypes DEF Probe, Cat
  <2>3. want' \in [Calls -> Contents] BY <1>4, <2>1, <2>2, ContentTypes DEF Probe, TypeOK
  <2>4. answers' \in Seq(Stages) /\ Len(answers') <= MaxCalls /\ pc' \in Pcs
    BY <1>1, <1>4, <2>1 DEF Probe, Stages, Pcs, TypeOK
  <2> QED BY <1>4, <2>2, <2>3, <2>4 DEF Probe, TypeOK
<1>5. CASE Mkdir
  <2>1. Cur \in Calls BY <1>5 DEF Mkdir, ScriptInv
  <2>2. answers' \in Seq(Stages) /\ Len(answers') <= MaxCalls /\ pc' \in Pcs
    BY <1>1, <1>5, <2>1 DEF Mkdir, Stages, Pcs, TypeOK
  <2>3. script' \in [Calls -> Steps] /\ temps' \in [Calls -> Temps]
    BY <1>5, <2>1 DEF Mkdir, TypeOK, Steps, Running, Temps
  <2> QED BY <1>5, <2>2, <2>3 DEF Mkdir, TypeOK
<1>6. CASE Put
  <2>1. Cur \in Calls BY <1>6 DEF Put, ScriptInv
  <2>2. answers' \in Seq(Stages) /\ Len(answers') <= MaxCalls /\ pc' \in Pcs
    BY <1>1, <1>6, <2>1 DEF Put, Stages, Pcs, TypeOK
  <2>3. script' \in [Calls -> Steps] /\ temps' \in [Calls -> Temps]
    BY <1>6, <2>1 DEF Put, TypeOK, Steps, Running, Temps
  <2> QED BY <1>6, <2>2, <2>3 DEF Put, TypeOK
<1>7. CASE LoseReply
  <2>1. answers' \in Seq(Stages) /\ Len(answers') <= MaxCalls /\ pc' \in Pcs
    BY <1>1, <1>7 DEF LoseReply, Stages
  <2> QED BY <1>7, <2>1 DEF LoseReply, TypeOK
<1>8. CASE Verify
  <2>1. answers' \in Seq(Stages) /\ Len(answers') <= MaxCalls /\ pc' \in Pcs
    BY <1>1, <1>8 DEF Verify, Stages
  <2> QED BY <1>8, <2>1 DEF Verify, TypeOK
<1>9. CASE Edit
  <2>1. edits' \in 0..MaxEdits /\ MaxCalls + edits + 1 \in 0..(MaxCalls + MaxEdits)
    BY <1>9 DEF Edit, TypeOK, FileWriteAssumption
  <2>2. disk' \in Contents BY <1>9, <2>1 DEF Edit, Contents
  <2> QED BY <1>9, <2>1, <2>2 DEF Edit, TypeOK
<1>10. ASSUME NEW c \in Calls, Script(c) PROVE TypeOK'
  <2>1. ASSUME NEW s \in Steps, NEW t \in Steps, Advance(c, s, t)
        PROVE  script' \in [Calls -> Steps]
    BY <2>1, ScriptTypes
  <2>2. script' \in [Calls -> Steps]
    BY <1>10, <2>1 DEF Script, Stream, StreamFails, CutStream, Move, Copy, EndCopy, Clean, MoveFails, MoveUnnoticed,
      Die, Patch, Applied, Advance, TypeOK, Steps, Running
  <2>3. temps' \in [Calls -> Temps]
    BY <1>10 DEF Script, Stream, StreamFails, CutStream, Move, Copy, EndCopy, Clean, MoveFails, MoveUnnoticed,
      Die, Patch, Applied, TypeOK, Temps
  <2>4. disk' \in Contents
    BY <1>10, ContentTypes DEF Script, Stream, StreamFails, CutStream, Move, Copy, EndCopy, Clean, MoveFails,
      MoveUnnoticed, Die, Patch, Applied, TypeOK
  <2>5. answers' \in Seq(Stages) /\ Len(answers') <= MaxCalls /\ pc' \in Pcs
    BY <1>1, <1>10 DEF Script, Stream, StreamFails, CutStream, Move, Copy, EndCopy, Clean, MoveFails,
      MoveUnnoticed, Die, Patch, Applied, Failed, TypeOK, Stages, Pcs
  <2>6. UNCHANGED <<backend, op, want, seen, edits>>
    BY <1>10 DEF Script, Stream, StreamFails, CutStream, Move, Copy, EndCopy, Clean, MoveFails, MoveUnnoticed,
      Die, Patch, Applied
  <2> QED BY <2>2, <2>3, <2>4, <2>5, <2>6 DEF TypeOK
<1>11. CASE UNCHANGED vars BY <1>11 DEF vars, TypeOK
<1> QED BY <1>3, <1>4, <1>5, <1>6, <1>7, <1>8, <1>9, <1>10, <1>11 DEF Next

-----------------------------------------------------------------------------
(* The invariant, one part at a time. *)

\* The answers given so far stay.
LEMMA AnswersStay ==
  ASSUME FileWriteAssumption, FileInv, [Next]_vars
  PROVE  /\ Len(answers) <= Len(answers') /\ Len(answers) \in Nat /\ Len(answers') \in Nat
         /\ \A c \in 1..Len(answers) : answers'[c] = answers[c]
<1>1. \/ UNCHANGED answers
      \/ \E stage \in Stages : Answer(stage)
  BY DEF Next, vars, Begin, Refused, Probe, Mkdir, Put, LoseReply, Verify, Edit, Script, Stream, StreamFails, CutStream,
    Move, Copy, EndCopy, Clean, MoveFails, MoveUnnoticed, Die, Patch, Applied, Failed, Stages
<1> QED BY <1>1, AnswerGrows DEF FileInv, TypeOK

\* What an answer has to say when the script of its call runs on.
LEMMA ScriptAnswer ==
  ASSUME FileInv, NEW stage \in Stages, Answer(stage), Cur \in Calls,
         \A d \in Calls : script'[d] # "none" => script[d] # "none",
         \A d \in Calls : d # Cur /\ script'[d] \in Running => script[d] \in Running,
         script'[Cur] \in Running => stage \in {"write", "applied"},
         \A d \in Calls : script'[d] = "stream" => script[d] = "stream" /\ d # Cur
  PROVE  ScriptInv'
<1> USE DEF FileInv
<1>1. /\ Len(answers') = Len(answers) + 1 /\ Len(answers) \in Nat /\ answers'[Cur] = stage
      /\ \A d \in 1..Len(answers) : answers'[d] = answers[d]
      /\ pc' = "idle" /\ Cur = Len(answers) + 1 /\ Calls \subseteq Nat
  BY AnswerGrows DEF TypeOK, Cur, Calls
<1>2. ASSUME NEW d \in Calls
      PROVE  /\ script'[d] # "none" => d <= Len(answers')
             /\ script'[d] \in Running => Answered(d, {"write", "applied"})'
             /\ script'[d] # "stream"
  <2>1. script'[d] # "none" => d <= Len(answers') BY <1>1 DEF ScriptInv
  <2>2. CASE d = Cur BY <1>1, <2>2 DEF Answered
  <2>3. CASE d # Cur BY <1>1, <2>3 DEF ScriptInv, Answered, Waits
  <2>4. script'[d] # "stream" BY DEF ScriptInv, Waits
  <2> QED BY <2>1, <2>2, <2>3, <2>4
<1> QED BY <1>1, <1>2 DEF ScriptInv

\* A script is started for the call in progress, and runs on alone only after an answer
\* that says so.
LEMMA ScriptStep ==
  ASSUME FileWriteAssumption, FileInv, [Next]_vars
  PROVE  ScriptInv'
<1> USE DEF FileInv, Answered, Waits, Cur
<1>0. TypeOK /\ Len(answers) \in Nat BY DEF TypeOK
<1>1. CASE Begin
  <2>1. Cur \in Calls BY <1>1 DEF Begin, Calls, TypeOK, FileWriteAssumption
  <2>2. CASE Refused /\ UNCHANGED script
    <3>1. script[Cur] = "none" BY <1>0, <1>1, <2>1 DEF Begin, ScriptInv
    <3> QED BY <2>1, <2>2, <3>1, ScriptAnswer DEF Refused, Stages, Running
  <2>3. CASE pc' = "probe" /\ UNCHANGED <<script, answers>>
    BY <1>0, <1>1, <2>1, <2>3 DEF Begin, ScriptInv, Running, TypeOK
  <2>4. CASE pc' = "script" /\ UNCHANGED answers /\ script' = [script EXCEPT ![Cur] = "patch"]
    BY <1>0, <1>1, <2>1, <2>4 DEF Begin, ScriptInv, Running, TypeOK
  <2> QED BY <1>1, <2>2, <2>3, <2>4 DEF Begin
<1>2. CASE Probe
  <2>1. Cur \in Calls /\ script[Cur] = "none" BY <1>0, <1>2 DEF Probe, ScriptInv
  <2>2. CASE Answer("refused") BY <1>2, <2>1, <2>2, ScriptAnswer DEF Probe, Stages, Running
  <2>3. CASE UNCHANGED answers BY <1>0, <1>2, <2>1, <2>3 DEF Probe, ScriptInv, Answer, TypeOK, Running
  <2> QED BY <1>2, <2>2, <2>3 DEF Probe
<1>3. CASE Mkdir
  <2>1. Cur \in Calls /\ script[Cur] = "none" BY <1>0, <1>3 DEF Mkdir, ScriptInv
  <2>2. CASE Answer("mkdir") /\ UNCHANGED script
    BY <2>1, <2>2, ScriptAnswer DEF Stages, Running
  <2>3. CASE UNCHANGED answers /\ pc' # "idle" BY <1>0, <1>3, <2>1, <2>3 DEF Mkdir, ScriptInv, Answer, TypeOK, Running
  <2> QED BY <1>3, <2>2, <2>3 DEF Mkdir
<1>4. CASE Put
  <2>1. Cur \in Calls /\ script[Cur] = "none" BY <1>0, <1>4 DEF Put, ScriptInv
  <2>2. ASSUME NEW stage \in Stages, Answer(stage), UNCHANGED script PROVE ScriptInv'
    BY <2>1, <2>2, ScriptAnswer DEF Running
  <2>3. CASE UNCHANGED answers /\ pc' # "idle" BY <1>0, <1>4, <2>1, <2>3 DEF Put, ScriptInv, Answer, TypeOK, Running
  <2> QED BY <1>4, <2>2, <2>3 DEF Put, Stages
<1>5. CASE LoseReply
  <2>1. Cur \in Calls BY <1>5 DEF LoseReply, ScriptInv
  <2> QED BY <1>5, <2>1, ScriptAnswer DEF LoseReply, Stages
<1>6. CASE Verify
  <2>1. Cur \in Calls /\ script[Cur] = "done" BY <1>6 DEF Verify, ScriptInv
  <2> QED BY <1>6, <2>1, ScriptAnswer DEF Verify, Stages, Running
<1>7. CASE Edit BY <1>0, <1>7 DEF Edit, ScriptInv
<1>8. ASSUME NEW c \in Calls, Script(c) PROVE ScriptInv'
  <2>0. ASSUME Failed(c), NEW s \in {"failed", "dead"}, script[c] \in Running,
               script' = [script EXCEPT ![c] = s]
        PROVE  ScriptInv'
    <3>1. CASE pc = "script" /\ c = Cur
      BY <1>0, <2>0, <3>1, ScriptAnswer DEF Failed, Stages, Running, TypeOK
    <3>2. CASE ~(pc = "script" /\ c = Cur)
      BY <1>0, <2>0, <3>2 DEF Failed, ScriptInv, Running, TypeOK
    <3> QED BY <3>1, <3>2
  <2>1. CASE Stream(c) BY <1>0, <2>1 DEF Stream, Advance, ScriptInv, TypeOK, Running
  <2>1f. CASE StreamFails(c) BY <1>0, <2>1f DEF StreamFails, Advance, ScriptInv, TypeOK, Running
  <2>2. CASE CutStream(c)
    BY <1>0, <2>2, ScriptAnswer DEF CutStream, Advance, TypeOK, Running, Stages
  <2>3. CASE Move(c) BY <1>0, <2>3 DEF Move, Advance, ScriptInv, TypeOK, Running
  <2>4. CASE Copy(c) BY <1>0, <2>4 DEF Copy, Advance, ScriptInv, TypeOK, Running
  <2>5. CASE EndCopy(c) BY <1>0, <2>5 DEF EndCopy, Advance, ScriptInv, TypeOK, Running
  <2>6. CASE Clean(c) BY <1>0, <2>6 DEF Clean, Advance, ScriptInv, TypeOK, Running
  <2>7. CASE MoveFails(c) BY <2>0, <2>7 DEF MoveFails, Advance, Running
  <2>8. CASE MoveUnnoticed(c) BY <1>0, <2>8 DEF MoveUnnoticed, Advance, ScriptInv, TypeOK, Running
  <2>9. CASE Die(c) BY <2>0, <2>9 DEF Die
  <2>10. CASE Patch(c)
    <3>1. CASE Advance(c, "patch", "failed") /\ Failed(c) BY <2>0, <3>1 DEF Advance, Running
    <3>2. CASE Applied(c)
      <4>1. CASE pc = "script" /\ c = Cur
        BY <1>0, <3>2, <4>1, ScriptAnswer DEF Applied, Advance, Stages, Running, TypeOK
      <4>2. CASE ~(pc = "script" /\ c = Cur)
        BY <1>0, <3>2, <4>2 DEF Applied, Advance, ScriptInv, Running, TypeOK
      <4> QED BY <4>1, <4>2
    <3> QED BY <2>10, <3>1, <3>2 DEF Patch
  <2> QED BY <1>8, <2>1, <2>1f, <2>2, <2>3, <2>4, <2>5, <2>6, <2>7, <2>8, <2>9, <2>10 DEF Script
<1>9. CASE UNCHANGED vars BY <1>9 DEF vars, ScriptInv
<1> QED BY <1>1, <1>2, <1>3, <1>4, <1>5, <1>6, <1>7, <1>8, <1>9 DEF Next

\* What a script has to write is fixed before it starts.
LEMMA WantStep ==
  ASSUME FileWriteAssumption, FileInv, [Next]_vars
  PROVE  WantInv'
<1> USE AnswersStay DEF FileInv, Answered, Sent
<1>0. TypeOK /\ Len(answers) \in Nat BY DEF TypeOK
<1>1. CASE Begin
  <2>1. Cur \in Calls /\ script[Cur] = "none"
    BY <1>0, <1>1 DEF Begin, Cur, Calls, TypeOK, FileWriteAssumption, ScriptInv
  <2> QED BY <1>0, <1>1, <2>1 DEF Begin, Refused, Answer, WantInv, TypeOK
<1>2. CASE Probe
  <2>1. Cur \in Calls /\ script[Cur] = "none" BY <1>0, <1>2 DEF Probe, ScriptInv, Cur
  <2>2. WriteContent(Cur).text = Cur /\ WriteContent(Cur).whole BY DEF WriteContent
  <2>3. seen' \in Contents BY <1>2, ContentTypes DEF Probe, Cat
  <2>4. PatchContent(Cur).text = Cur /\ PatchContent(Cur).whole BY <2>3 DEF PatchContent, Contents
  <2>5. CASE Answer("refused") /\ UNCHANGED want
    BY <1>0, <1>2, <2>1, <2>5 DEF Probe, Answer, WantInv, TypeOK
  <2>6. CASE /\ pc' = "mkdir" /\ UNCHANGED answers
             /\ want' = [want EXCEPT ![Cur] =
                  IF op.kind = "write" THEN WriteContent(Cur) ELSE PatchContent(Cur)]
    <3>1. Cur' = Cur BY <2>6 DEF Cur
    <3>2. want'[Cur].text = Cur /\ want'[Cur].whole
      BY <1>0, <2>1, <2>2, <2>4, <2>6 DEF TypeOK
    <3>3. \A c \in Calls : c # Cur => want'[c] = want[c] BY <1>0, <2>1, <2>6 DEF TypeOK
    <3>4. UNCHANGED <<script, temps>> BY <1>2 DEF Probe
    <3> QED BY <2>1, <2>6, <3>1, <3>2, <3>3, <3>4 DEF WantInv
  <2> QED BY <1>2, <2>5, <2>6 DEF Probe
<1>3. CASE Mkdir
  <2>1. Cur \in Calls /\ script[Cur] = "none" BY <1>0, <1>3 DEF Mkdir, ScriptInv, Cur
  <2> QED BY <1>0, <1>3, <2>1 DEF Mkdir, Answer, WantInv, TypeOK, Cur
<1>4. CASE Put
  <2>1. Cur \in Calls /\ script[Cur] = "none" BY <1>0, <1>4 DEF Put, ScriptInv, Cur
  <2> QED BY <1>0, <1>4, <2>1 DEF Put, Answer, WantInv, TypeOK, Cur
<1>5. CASE LoseReply BY <1>0, <1>5 DEF LoseReply, Answer, WantInv
<1>6. CASE Verify BY <1>0, <1>6 DEF Verify, Answer, WantInv
<1>7. CASE Edit BY <1>0, <1>7 DEF Edit, WantInv, Cur
<1>8. ASSUME NEW c \in Calls, Script(c) PROVE WantInv'
  <2> USE <1>0 DEF WantInv, Advance, TypeOK
  <2>1. CASE Stream(c) BY <2>1 DEF Stream, Cur
  <2>1f. CASE StreamFails(c) BY <2>1f DEF StreamFails, Cur
  <2>2. CASE CutStream(c) BY <2>2, AnswerGrows DEF CutStream, Stages, Cur
  <2>3. CASE Move(c) BY <2>3 DEF Move, Cur
  <2>4. CASE Copy(c) BY <2>4 DEF Copy, Cur
  <2>5. CASE EndCopy(c) BY <2>5 DEF EndCopy, Cur
  <2>6. CASE Clean(c) BY <2>6 DEF Clean, Cur
  <2>7. CASE MoveFails(c) BY <2>7 DEF MoveFails, Failed, Answer, Cur
  <2>8. CASE MoveUnnoticed(c) BY <2>8 DEF MoveUnnoticed, Cur
  <2>9. CASE Die(c) BY <2>9 DEF Die, Failed, Answer, Cur
  <2>10. CASE Patch(c)
    <3>1. /\ (pc' = pc /\ UNCHANGED answers) \/ pc' = "idle"
          /\ \/ script' = [script EXCEPT ![c] = "done"]
             \/ script' = [script EXCEPT ![c] = "failed"]
          /\ UNCHANGED <<want, temps>>
      BY <2>10 DEF Patch, Applied, Failed, Answer
    <3> QED BY <3>1 DEF Cur
  <2> QED BY <1>8, <2>1, <2>1f, <2>2, <2>3, <2>4, <2>5, <2>6, <2>7, <2>8, <2>9, <2>10 DEF Script
<1>9. CASE UNCHANGED vars BY <1>9 DEF vars, WantInv, Cur
<1> QED BY <1>1, <1>2, <1>3, <1>4, <1>5, <1>6, <1>7, <1>8, <1>9 DEF Next

\* What is left of a call is explained by its answer or still in use.
LEMMA TempStep ==
  ASSUME FileWriteAssumption, FileInv, [Next]_vars
  PROVE  TempInv'
<1> USE AnswersStay DEF FileInv, Answered
<1>0. TypeOK /\ Len(answers) \in Nat BY DEF TypeOK
<1>1. CASE Begin
  <2>1. Cur \in Calls /\ script[Cur] = "none"
    BY <1>0, <1>1 DEF Begin, Cur, Calls, TypeOK, FileWriteAssumption, ScriptInv
  <2> QED BY <1>0, <1>1, <2>1 DEF Begin, Refused, Answer, TempInv, TypeOK, Cur
<1>2. CASE Probe BY <1>0, <1>2 DEF Probe, Answer, TempInv
<1>3. CASE Mkdir
  <2>1. Cur \in Calls /\ script[Cur] = "none" BY <1>0, <1>3 DEF Mkdir, ScriptInv, Cur
  <2>2. ASSUME Answer("mkdir"), UNCHANGED script,
               temps' \in {temps, [temps EXCEPT ![Cur] = "part"]}
        PROVE  TempInv'
    BY <1>0, <2>1, <2>2, AnswerGrows DEF TempInv, TypeOK, Stages, Cur
  <2>3. CASE UNCHANGED answers /\ pc' \in {"put", "script"}
    BY <1>0, <1>3, <2>1, <2>3 DEF Mkdir, Answer, TempInv, TypeOK, Cur
  <2> QED BY <1>3, <2>2, <2>3 DEF Mkdir
<1>4. CASE Put
  <2>1. Cur \in Calls /\ script[Cur] = "none" BY <1>0, <1>4 DEF Put, ScriptInv, Cur
  <2>2. ASSUME NEW stage \in {"put", "write"}, Answer(stage), UNCHANGED script,
               temps' \in {temps, [temps EXCEPT ![Cur] = "none"]}
        PROVE  TempInv'
    BY <1>0, <2>1, <2>2, AnswerGrows DEF TempInv, TypeOK, Stages, Cur
  <2>3. CASE UNCHANGED answers /\ pc' = "script"
    BY <1>0, <1>4, <2>1, <2>3 DEF Put, Answer, TempInv, TypeOK, Cur
  <2> QED BY <1>4, <2>2, <2>3 DEF Put
<1>5. CASE LoseReply
  <2>1. ASSUME NEW stage \in {"write", "applied"}, Answer(stage), stage = "applied" => script[Cur] = "patch"
        PROVE  TempInv'
    BY <1>0, <1>5, <2>1, AnswerGrows DEF LoseReply, TempInv, Stages, Cur
  <2> QED BY <1>5, <2>1 DEF LoseReply
<1>6. CASE Verify BY <1>0, <1>6 DEF Verify, Answer, TempInv
<1>7. CASE Edit BY <1>0, <1>7 DEF Edit, TempInv, Cur
<1>8. ASSUME NEW c \in Calls, Script(c) PROVE TempInv'
  <2>0. ASSUME Failed(c), NEW s \in {"failed", "dead"}, script[c] \in Running,
               script' = [script EXCEPT ![c] = s], temps' \in {temps, [temps EXCEPT ![c] = "none"]}
        PROVE  TempInv'
    <3>1. CASE pc = "script" /\ c = Cur
      BY <1>0, <2>0, <3>1, AnswerGrows DEF Failed, TempInv, Stages, Running, TypeOK, Cur
    <3>2. CASE ~(pc = "script" /\ c = Cur)
      BY <1>0, <2>0, <3>2 DEF Failed, TempInv, Running, TypeOK, Cur
    <3> QED BY <3>1, <3>2
  <2> USE <1>0 DEF TempInv, Advance, TypeOK
  <2>1. CASE Stream(c)
    <3>1. Waits(c) BY <2>1 DEF Stream, ScriptInv
    <3> QED BY <2>1, <3>1 DEF Stream, Waits, Cur
  <2>1f. CASE StreamFails(c)
    <3>1. Waits(c) BY <2>1f DEF StreamFails, ScriptInv
    <3> QED BY <2>1f, <3>1 DEF StreamFails, Waits, Cur
  <2>2. CASE CutStream(c) BY <2>2, AnswerGrows DEF CutStream, Stages, Cur
  <2>3. CASE Move(c) BY <2>3 DEF Move, Cur
  <2>4. CASE Copy(c) BY <2>4 DEF Copy, Cur
  <2>5. CASE EndCopy(c) BY <2>5 DEF EndCopy, Cur
  <2>6. CASE Clean(c) BY <2>6 DEF Clean, Cur
  <2>7. CASE MoveFails(c) BY <2>0, <2>7 DEF MoveFails, Running
  <2>8. CASE MoveUnnoticed(c) BY <2>8 DEF MoveUnnoticed, Cur
  <2>9. CASE Die(c) BY <2>0, <2>9 DEF Die
  <2>10. CASE Patch(c) BY <2>10, <2>0 DEF Patch, Applied, Failed, Answer, Cur, Running
  <2> QED BY <1>8, <2>1, <2>1f, <2>2, <2>3, <2>4, <2>5, <2>6, <2>7, <2>8, <2>9, <2>10 DEF Script
<1>9. CASE UNCHANGED vars BY <1>9 DEF vars, TempInv, Cur
<1> QED BY <1>1, <1>2, <1>3, <1>4, <1>5, <1>6, <1>7, <1>8, <1>9 DEF Next

\* Only a call that waits or is to compare, or one that said so, has left the file torn.
LEMMA TornStep ==
  ASSUME FileWriteAssumption, FileInv, [Next]_vars
  PROVE  TornInv'
<1> USE AnswersStay DEF FileInv, Answered, Waits
<1>0. TypeOK /\ Len(answers) \in Nat BY DEF TypeOK
\* An answer after the script has begun says that the write or the comparison failed,
\* unless the file is whole.
<1>a. ASSUME NEW stage \in Stages, Answer(stage), UNCHANGED disk, Cur \in Calls,
             \/ pc \notin {"script", "verify"}
             \/ stage \in {"write", "verify", "applied"}
             \/ disk.whole
      PROVE  TornInv'
  BY <1>0, <1>a, AnswerGrows DEF TornInv, Cur
<1>1. CASE Begin
  <2>1. Cur \in Calls /\ script[Cur] = "none"
    BY <1>0, <1>1 DEF Begin, Cur, Calls, TypeOK, FileWriteAssumption, ScriptInv
  <2>2. CASE Refused BY <1>1, <1>a, <2>1, <2>2 DEF Begin, Refused, Stages
  <2>3. CASE UNCHANGED answers
    BY <1>0, <1>1, <2>1, <2>3 DEF Begin, TornInv, TypeOK, Cur
  <2> QED BY <1>1, <2>2, <2>3 DEF Begin
<1>2. CASE Probe
  <2>1. Cur \in Calls /\ script[Cur] = "none" BY <1>0, <1>2 DEF Probe, ScriptInv, Cur
  <2> QED BY <1>0, <1>2, <1>a, <2>1 DEF Probe, TornInv, Stages, Cur
<1>3. CASE Mkdir
  <2>1. Cur \in Calls /\ script[Cur] = "none" BY <1>0, <1>3 DEF Mkdir, ScriptInv, Cur
  <2>2. CASE Answer("mkdir") BY <1>3, <1>a, <2>1, <2>2 DEF Mkdir, Stages
  <2>3. CASE UNCHANGED answers BY <1>0, <1>3, <2>1, <2>3 DEF Mkdir, TornInv, TypeOK, Cur
  <2> QED BY <1>3, <2>2, <2>3 DEF Mkdir
<1>4. CASE Put
  <2>1. Cur \in Calls /\ script[Cur] = "none" BY <1>0, <1>4 DEF Put, ScriptInv, Cur
  <2>2. ASSUME NEW stage \in Stages, Answer(stage) PROVE TornInv' BY <1>4, <1>a, <2>1, <2>2 DEF Put
  <2>3. CASE UNCHANGED answers BY <1>0, <1>4, <2>1, <2>3 DEF Put, TornInv, TypeOK, Cur
  <2> QED BY <1>4, <2>2, <2>3 DEF Put, Stages
<1>5. CASE LoseReply
  <2>1. Cur \in Calls BY <1>5 DEF LoseReply, ScriptInv
  <2> QED BY <1>5, <1>a, <2>1 DEF LoseReply, Stages
<1>6. CASE Verify
  <2>1. Cur \in Calls /\ Sent(Cur) BY <1>6 DEF Verify, ScriptInv, WantInv
  <2>2. PICK actual \in {Text, NoFile} : Answer(IF Persisted(actual) THEN "ok" ELSE "verify")
    BY <1>6 DEF Verify
  <2>3. Persisted(actual) => disk.whole
    <3>1. Persisted(actual) => actual.whole BY <2>1 DEF Persisted, Sent
    <3>2. actual.whole => actual = Text BY <2>2 DEF NoFile
    <3> QED BY <1>0, <3>1, <3>2, ContentTypes
  <2> QED BY <1>6, <1>a, <2>1, <2>2, <2>3 DEF Verify, Stages
<1>7. CASE Edit BY <1>7 DEF Edit, TornInv
<1>8. ASSUME NEW c \in Calls, Script(c) PROVE TornInv'
  <2>0. ASSUME Failed(c), UNCHANGED disk, script[c] \in Running, NEW s \in {"failed", "dead"},
               script' = [script EXCEPT ![c] = s]
        PROVE  TornInv'
    <3>1. CASE pc = "script" /\ c = Cur BY <2>0, <3>1, <1>a DEF Failed, Stages
    <3>2. CASE ~(pc = "script" /\ c = Cur)
      BY <1>0, <2>0, <3>2 DEF Failed, TornInv, TypeOK, Cur
    <3> QED BY <3>1, <3>2
  \* What a script puts in place is of a call that waits, or that has said that it failed.
  <2>s. ASSUME script[c] \in {"move", "copy"}, disk' = Staged(c), UNCHANGED <<pc, answers>>
        PROVE  TornInv'
    <3>1. want[c] \in Contents BY <1>0 DEF TypeOK
    <3>2. disk'.text = c BY <2>s, <3>1 DEF Staged, WantInv, Sent, Contents
    <3>3. Answered(c, {"write", "applied"}) \/ Waits(c) BY <2>s DEF ScriptInv, Running
    <3> QED BY <2>s, <3>2, <3>3 DEF TornInv, Cur
  <2> USE <1>0 DEF Advance
  <2>1. CASE Stream(c) BY <2>1 DEF Stream, TornInv, TypeOK, Cur
  <2>1f. CASE StreamFails(c) BY <2>1f DEF StreamFails, TornInv, TypeOK, Cur
  <2>2. CASE CutStream(c) BY <2>2, <1>a DEF CutStream, Stages
  <2>3. CASE Move(c) BY <2>3, <2>s DEF Move
  <2>4. CASE Copy(c)
    <3>1. Answered(c, {"write", "applied"}) \/ Waits(c) BY <2>4 DEF Copy, ScriptInv, Running
    <3>2. disk'.text = c
      <4>1. want[c] \in Contents BY DEF TypeOK
      <4> QED BY <2>4, <4>1 DEF Copy, WantInv, Sent, Contents
    <3> QED BY <2>4, <3>1, <3>2 DEF Copy, TornInv, Cur
  <2>5. CASE EndCopy(c) BY <2>5, <2>s DEF EndCopy
  <2>6. CASE Clean(c) BY <2>6 DEF Clean, TornInv, TypeOK, Cur
  <2>7. CASE MoveFails(c) BY <2>0, <2>7 DEF MoveFails, Running
  <2>8. CASE MoveUnnoticed(c) BY <2>8 DEF MoveUnnoticed, TornInv, TypeOK, Cur
  <2>9. CASE Die(c) BY <2>0, <2>9 DEF Die
  <2>10. CASE Patch(c)
    <3>1. Answered(c, {"write", "applied"}) \/ Waits(c) BY <2>10 DEF Patch, Applied, ScriptInv, Running
    <3>2. CASE UNCHANGED disk /\ Advance(c, "patch", "failed") /\ Failed(c) BY <2>0, <3>2 DEF Running
    <3>3. CASE disk # NoFile /\ disk' = [disk EXCEPT !.text = c, !.whole = TRUE]
      BY <3>3 DEF TornInv, TypeOK, Contents
    <3>5. CASE UNCHANGED disk /\ Applied(c)
      <4>1. CASE Waits(c) BY <3>5, <4>1, <1>a DEF Applied, Stages
      <4>2. CASE ~Waits(c) BY <3>5, <4>2 DEF Applied, TornInv, Cur
      <4> QED BY <4>1, <4>2
    <3>4. CASE disk # NoFile /\ disk' = [disk EXCEPT !.text = c, !.whole = FALSE] /\ Failed(c)
      <4>1. disk'.text = c BY <3>4 DEF TypeOK, Contents
      <4>2. CASE Waits(c) BY <3>4, <4>1, <4>2, AnswerGrows DEF Failed, TornInv, Stages, Cur
      <4>3. CASE ~Waits(c) BY <3>1, <3>4, <4>1, <4>3 DEF Failed, TornInv
      <4> QED BY <4>2, <4>3
    <3> QED BY <2>10, <3>2, <3>3, <3>4, <3>5 DEF Patch
  <2> QED BY <1>8, <2>1, <2>1f, <2>2, <2>3, <2>4, <2>5, <2>6, <2>7, <2>8, <2>9, <2>10 DEF Script
<1>9. CASE UNCHANGED vars BY <1>9 DEF vars, TornInv, Cur
<1> QED BY <1>1, <1>2, <1>3, <1>4, <1>5, <1>6, <1>7, <1>8, <1>9 DEF Next

-----------------------------------------------------------------------------
(* Endings and mark. *)

\* The endings and the mark of what the call in progress has read are those of x.
Keeps(x) == (seen.endings = "lf" \/ x.endings # "lf") /\ (seen.bom => x.bom)

\* What the call in progress is about to write keeps them, what it has put on the disk
\* does, and no file is of a call that has not come to its script.
KeepInv ==
  /\ pc = "script" => script[Cur] \in Running /\ (script[Cur] = "patch" <=> op.kind = "apply")
  /\ pc \in {"probe", "mkdir", "put", "verify"} => op.kind # "apply"
  /\ pc \in {"mkdir", "put", "script"} /\ op.kind # "apply" => Keeps(want[Cur])
  /\ disk.text \in Calls /\ disk.text > Len(answers) => disk.text = Cur /\ pc \in {"script", "verify"}
  /\ pc # "idle" /\ disk.text = Cur /\ op.kind # "apply" => Keeps(disk)
  /\ EndingsKept

\* An answer leaves no call in progress, and an ok comes after the second cat.
LEMMA KeepAnswer ==
  ASSUME TypeOK, KeepInv, NEW stage \in Stages, Answer(stage), Cur \in Calls,
         disk'.text \in Calls => disk'.text <= Cur,
         stage = "ok" => pc = "verify" /\ UNCHANGED <<disk, seen>>
  PROVE  KeepInv'
<1>1. /\ Len(answers) \in Nat /\ Len(answers') = Cur /\ pc' = "idle"
      /\ answers'[Cur] = stage /\ Calls \subseteq Nat
  BY AnswerGrows DEF TypeOK, Cur, Calls
<1>2. EndingsKept'
  BY <1>1 DEF EndingsKept, Answered, KeepInv, Keeps
<1> QED BY <1>1, <1>2 DEF KeepInv

\* A step of a script that ends no call: what it puts on the disk is its own call's.
LEMMA KeepScript ==
  ASSUME FileInv, KeepInv, NEW c \in Calls, script[c] \in Running, NEW to \in Steps,
         script' = [script EXCEPT ![c] = to], UNCHANGED <<answers, op, seen, want>>,
         \/ UNCHANGED pc /\ (Waits(c) => to \in Running \ {"patch"} /\ script[c] # "patch")
         \/ pc' = "verify" /\ Waits(c) /\ script[c] # "patch",
         \/ UNCHANGED disk
         \/ disk'.text = c /\ (Waits(c) => Keeps(disk'))
  PROVE  KeepInv'
<1>0. /\ TypeOK /\ Len(answers) \in Nat /\ Cur' = Cur /\ Calls \subseteq Nat
      /\ \A d \in Calls \ {c} : script'[d] = script[d]
      /\ script'[c] = to
  BY DEF FileInv, TypeOK, Cur, Calls
<1>1. Answered(c, {"write", "applied"}) \/ Waits(c) BY DEF FileInv, ScriptInv
<1>2. pc' = "script" => script'[Cur] \in Running /\ (script'[Cur] = "patch" <=> op.kind = "apply")
  <2> SUFFICES ASSUME pc' = "script"
               PROVE  script'[Cur] \in Running /\ (script'[Cur] = "patch" <=> op.kind = "apply")
    OBVIOUS
  <2>1. pc = "script" /\ Cur \in Calls BY DEF FileInv, ScriptInv
  <2>2. CASE c = Cur BY <1>0, <2>1, <2>2 DEF KeepInv, Waits
  <2>3. CASE c # Cur BY <1>0, <2>1, <2>3 DEF KeepInv
  <2> QED BY <2>2, <2>3
<1>3. pc' \in {"probe", "mkdir", "put", "verify"} => op.kind # "apply"
  BY DEF KeepInv, Waits
<1>4. pc' \in {"mkdir", "put", "script"} /\ op.kind # "apply" => Keeps(want[Cur])
  BY DEF KeepInv
<1>5. disk'.text \in Calls /\ disk'.text > Len(answers) => disk'.text = Cur /\ pc' \in {"script", "verify"}
  BY <1>0, <1>1 DEF KeepInv, Answered, Waits
<1>6. pc' # "idle" /\ disk'.text = Cur /\ op.kind # "apply" => Keeps(disk')
  BY <1>0, <1>1 DEF KeepInv, Answered, Waits, Cur
<1>7. EndingsKept'
  BY <1>0, <1>1 DEF KeepInv, EndingsKept, Answered, Waits
<1> QED BY <1>0, <1>2, <1>3, <1>4, <1>5, <1>6, <1>7 DEF KeepInv, Keeps

\* No file is of a call to come.
LEMMA TextBound ==
  ASSUME TypeOK, KeepInv, disk.text \in Calls
  PROVE  disk.text <= Cur
<1>1. Len(answers) \in Nat /\ disk.text \in Nat BY DEF TypeOK, Calls
<1>2. CASE disk.text > Len(answers) BY <1>1, <1>2 DEF KeepInv, Cur
<1>3. CASE ~(disk.text > Len(answers)) BY <1>1, <1>3 DEF Cur
<1> QED BY <1>2, <1>3

\* Every step of a script, by what it does to the call and to the disk.
LEMMA KeepRuns ==
  ASSUME FileWriteAssumption, FileInv, KeepInv, NEW c \in Calls, Script(c)
  PROVE  KeepInv'
<1>0. TypeOK /\ Len(answers) \in Nat /\ Calls \subseteq Nat BY DEF FileInv, TypeOK, Calls
<1> USE <1>0 DEF Advance
\* What ends badly: the call answers, or the script was nobody's.
<1>a. ASSUME Failed(c), script[c] \in Running, NEW to \in {"failed", "dead"},
             script' = [script EXCEPT ![c] = to], UNCHANGED <<op, seen, want>>,
             UNCHANGED disk \/ disk'.text = c
      PROVE  KeepInv'
  <2>1. CASE Waits(c)
    <3>1. disk'.text \in Calls => disk'.text <= Cur BY <1>a, <2>1, TextBound DEF Waits, Cur
    <3> QED BY <1>a, <2>1, <3>1, KeepAnswer DEF Failed, Waits, Stages
  <2>2. CASE ~Waits(c) BY <1>a, <2>2, KeepScript DEF Failed, Waits, Steps
  <2> QED BY <2>1, <2>2
\* What a script stages for the call that waits keeps endings and mark.
<1>b. ASSUME script[c] \in {"move", "copy"}, Waits(c)
      PROVE  Keeps(want[c]) /\ Keeps(Staged(c)) /\ Keeps([want[c] EXCEPT !.whole = FALSE])
  <2>1. want[c] \in Contents /\ Keeps(want[c]) BY <1>b DEF TypeOK, KeepInv, Waits
  <2> QED BY <2>1 DEF Keeps, Staged, Contents
<1>c. script[c] \in {"move", "copy"} => Staged(c).text = c /\ [want[c] EXCEPT !.whole = FALSE].text = c
  <2>1. want[c] \in Contents BY DEF TypeOK
  <2> QED BY <2>1 DEF FileInv, WantInv, Sent, Staged, Contents
<1>1. CASE Stream(c) BY <1>1, KeepScript DEF Stream, Running, Steps
<1>1f. CASE StreamFails(c) BY <1>1f, KeepScript DEF StreamFails, Running, Steps
<1>2. CASE CutStream(c)
  <2>1. disk'.text \in Calls => disk'.text <= Cur BY <1>2, TextBound DEF CutStream
  <2> QED BY <1>2, <2>1, KeepAnswer DEF CutStream, Stages
<1>3. CASE Move(c) BY <1>3, <1>b, <1>c, KeepScript DEF Move, Running, Steps, Keeps
<1>4. CASE Copy(c) BY <1>4, <1>b, <1>c, KeepScript DEF Copy, Running, Steps, Keeps
<1>5. CASE EndCopy(c) BY <1>5, <1>b, <1>c, KeepScript DEF EndCopy, Running, Steps, Keeps
<1>6. CASE Clean(c) BY <1>6, KeepScript DEF Clean, Running, Steps, Waits
<1>7. CASE MoveFails(c) BY <1>a, <1>7 DEF MoveFails, Running
<1>8. CASE MoveUnnoticed(c) BY <1>8, KeepScript DEF MoveUnnoticed, Running, Steps
<1>9. CASE Die(c) BY <1>a, <1>9 DEF Die
<1>10. CASE Patch(c)
  <2>1. disk # NoFile => /\ [disk EXCEPT !.text = c, !.whole = TRUE].text = c
                         /\ [disk EXCEPT !.text = c, !.whole = FALSE].text = c
    BY DEF TypeOK, Contents
  <2>2. CASE Advance(c, "patch", "failed") /\ Failed(c)
    BY <1>a, <1>10, <2>1, <2>2 DEF Patch, Applied, Running
  <2>3. CASE /\ Applied(c)
             /\ \/ UNCHANGED disk
                \/ disk # NoFile /\ disk' = [disk EXCEPT !.text = c, !.whole = TRUE]
    <3>1. CASE Waits(c)
      <4>1. disk'.text \in Calls => disk'.text <= Cur
        <5>1. CASE UNCHANGED disk BY <5>1, TextBound
        <5>2. CASE disk # NoFile /\ disk' = [disk EXCEPT !.text = c, !.whole = TRUE]
          BY <2>1, <3>1, <5>2 DEF Waits, Cur
        <5> QED BY <2>3, <5>1, <5>2
      <4> QED BY <2>3, <3>1, <4>1, KeepAnswer DEF Applied, Waits, Stages
    <3>2. CASE ~Waits(c)
      BY <1>10, <2>1, <2>3, <3>2, KeepScript DEF Patch, Applied, Waits, Steps, Running
    <3> QED BY <3>1, <3>2
  <2> QED BY <1>10, <2>2, <2>3 DEF Patch
<1> QED BY <1>1, <1>1f, <1>2, <1>3, <1>4, <1>5, <1>6, <1>7, <1>8, <1>9, <1>10 DEF Script

LEMMA KeepStep ==
  ASSUME FileWriteAssumption, FileInv, KeepInv, [Next]_vars
  PROVE  KeepInv'
<1>0. TypeOK /\ Len(answers) \in Nat /\ Calls \subseteq Nat BY DEF FileInv, TypeOK, Calls
<1>a. disk.text \in Calls => disk.text <= Cur BY <1>0, TextBound
<1>1. CASE Begin
  <2>1. Cur \in Calls BY <1>0, <1>1 DEF Begin, Cur, Calls, FileWriteAssumption
  <2>2. CASE Refused BY <1>0, <1>a, <1>1, <2>1, <2>2, KeepAnswer DEF Begin, Refused, Stages
  <2>3. CASE UNCHANGED answers /\ pc' # "idle"
    <3>1. Cur' = Cur /\ disk.text # Cur BY <1>0, <1>1, <2>1, <2>3 DEF Begin, KeepInv, Cur
    <3>2. disk.text \in Calls => ~(disk.text > Len(answers)) BY <1>0, <1>1, <3>1 DEF Begin, KeepInv
    <3>3. \/ op'.kind # "apply" /\ pc' = "probe"
          \/ op'.kind = "apply" /\ pc' = "script" /\ script'[Cur] = "patch"
      BY <1>0, <1>1, <2>1, <2>3 DEF Begin, Refused, Answer, TypeOK
    <3>4. EndingsKept' BY <2>3 DEF EndingsKept
    <3> QED BY <1>1, <2>3, <3>1, <3>2, <3>3, <3>4 DEF Begin, KeepInv, Running
  <2> QED BY <1>1, <2>2, <2>3 DEF Begin
<1>2. CASE Probe
  <2>1. Cur \in Calls BY <1>2 DEF Probe, FileInv, ScriptInv
  <2>2. CASE Answer("refused") BY <1>0, <1>a, <1>2, <2>1, <2>2, KeepAnswer DEF Probe, Stages
  <2>3. CASE /\ pc' = "mkdir" /\ UNCHANGED answers
             /\ want' = [want EXCEPT ![Cur] =
                  IF op.kind = "write" THEN WriteContent(Cur) ELSE PatchContent(Cur)]
    <3>1. Cur' = Cur /\ disk.text # Cur BY <1>0, <1>2, <2>1, <2>3 DEF Probe, KeepInv, Cur
    <3>2. disk.text \in Calls => ~(disk.text > Len(answers)) BY <1>0, <1>2, <3>1 DEF Probe, KeepInv
    <3>3. seen' \in Contents BY <1>0, <1>2, ContentTypes DEF Probe, Cat
    <3>4. want'[Cur] = IF op.kind = "write" THEN WriteContent(Cur) ELSE PatchContent(Cur)
      BY <1>0, <2>1, <2>3 DEF TypeOK
    <3>5. Keeps(want[Cur])'
      <4>1. /\ seen'.endings = "lf" \/ want'[Cur].endings # "lf"
            /\ seen'.bom => want'[Cur].bom
        BY <1>0, <3>3, <3>4 DEF WriteContent, PatchContent, Contents
      <4> QED BY <3>1, <4>1 DEF Keeps
    <3>6. EndingsKept' BY <2>3 DEF EndingsKept
    <3> QED BY <1>2, <2>3, <3>1, <3>2, <3>5, <3>6 DEF Probe, KeepInv
  <2> QED BY <1>2, <2>2, <2>3 DEF Probe
<1>3. ASSUME Mkdir \/ Put PROVE KeepInv'
  <2>1. Cur \in Calls /\ pc \in {"mkdir", "put"} BY <1>3 DEF Mkdir, Put, FileInv, ScriptInv
  <2>2. ASSUME NEW stage \in Stages \ {"ok"}, Answer(stage) PROVE KeepInv'
    BY <1>0, <1>a, <1>3, <2>1, <2>2, KeepAnswer DEF Mkdir, Put
  <2>3. CASE UNCHANGED answers /\ pc' # "idle"
    <3>1. Cur' = Cur /\ disk.text # Cur BY <1>0, <2>1, <2>3 DEF KeepInv, Cur
    <3>2. disk.text \in Calls => ~(disk.text > Len(answers)) BY <1>0, <2>1, <3>1 DEF KeepInv
    <3>3. /\ UNCHANGED <<disk, op, want, seen>> /\ op.kind # "apply" /\ Keeps(want[Cur])
          /\ \/ pc' = "put"
             \/ pc' = "script" /\ script'[Cur] \in {"stream", "move"}
      BY <1>0, <1>3, <2>1, <2>3 DEF Mkdir, Put, Answer, KeepInv, TypeOK
    <3>4. EndingsKept' BY <2>3 DEF EndingsKept
    <3> QED BY <2>3, <3>1, <3>2, <3>3, <3>4 DEF KeepInv, Keeps, Running
  <2> QED BY <1>3, <2>2, <2>3 DEF Mkdir, Put, Stages
<1>4. CASE LoseReply
  <2>1. Cur \in Calls BY <1>4 DEF LoseReply, FileInv, ScriptInv
  <2> QED BY <1>0, <1>a, <1>4, <2>1, KeepAnswer DEF LoseReply, Stages
<1>5. CASE Verify
  <2>1. Cur \in Calls BY <1>5 DEF Verify, FileInv, ScriptInv
  <2> QED BY <1>0, <1>a, <1>5, <2>1, KeepAnswer DEF Verify, Stages
\* Another program's text is none of the calls', so what is said of theirs is empty.
<1>6. CASE Edit
  <2>1. disk'.text = MaxCalls + edits + 1 /\ edits \in Nat /\ Len(answers) <= MaxCalls /\ MaxCalls \in Nat
    BY <1>0, <1>6 DEF Edit, TypeOK, FileWriteAssumption
  <2>2. disk'.text \notin Calls /\ disk'.text # Len(answers) BY <1>0, <2>1 DEF Calls
  <2>3. pc # "idle" => disk'.text # Cur BY <2>2 DEF FileInv, ScriptInv
  <2>4. EndingsKept' BY <1>6, <2>2 DEF Edit, EndingsKept
  <2> QED BY <1>6, <2>2, <2>3, <2>4 DEF Edit, KeepInv, Keeps, Cur
<1>7. ASSUME NEW c \in Calls, Script(c) PROVE KeepInv' BY <1>7, KeepRuns
<1>8. CASE UNCHANGED vars BY <1>8 DEF vars, KeepInv, Keeps, EndingsKept, Answered, Cur
<1> QED BY <1>1, <1>2, <1>3, <1>4, <1>5, <1>6, <1>7, <1>8 DEF Next

-----------------------------------------------------------------------------

\* FileInv is an invariant: its parts hold at first and every step keeps them.
THEOREM FileInvariant == Spec => []FileInv
<1>1. FileWriteAssumption BY FileWriteAssumption
<1>2. Init => FileInv BY <1>1, InitOK
<1>3. FileInv /\ [Next]_vars => FileInv'
  BY <1>1, TypeStep, ScriptStep, WantStep, TempStep, TornStep DEF FileInv
<1> QED BY <1>2, <1>3, PTL DEF Spec

\* The file, the scripts and the answers keep their types: in particular no call answers
\* twice, however late the end of its script comes.
THEOREM FileTypeCorrect == Spec => []TypeOK
<1>1. FileInv => TypeOK BY DEF FileInv
<1> QED BY <1>1, FileInvariant, PTL

\* A torn file is the work of a call that is under way or has answered that the write or
\* its verification failed; or of a patch that timed out and answered all the same that it
\* was applied.
THEOREM TornFileReported == Spec => []TornIsReported
<1>1. FileInv => TornIsReported
  BY DEF FileInv, TypeOK, TornInv, TornIsReported, Waits, Cur, Answered
<1> QED BY <1>1, FileInvariant, PTL

\* A leftover belongs to a call that answered that mkdir, put_archive or the script failed.
THEOREM LeftoversExplained == Spec => []LitterExplained
<1>1. FileInv => LitterExplained
  <2> SUFFICES ASSUME FileInv, NEW c \in 1..Len(answers), temps[c] # "none"
               PROVE  answers[c] \in {"mkdir", "put", "write"} /\ script[c] # "done"
    BY DEF LitterExplained
  <2>1. c \in Calls /\ Len(answers) \in Nat
    BY FileWriteAssumption DEF FileInv, TypeOK, Calls, FileWriteAssumption
  <2> QED BY <2>1 DEF FileInv, TempInv, Answered, Cur
<1> QED BY <1>1, FileInvariant, PTL

\* An ok is given only when the whole content of the call is on the disk: the second cat
\* is not fooled by what earlier scripts or other programs have put there.
THEOREM OkIsOnDisk == Spec => OkWasOnDisk
<1>1. FileInv /\ [Next]_vars =>
        [answers' # answers /\ answers'[Cur] = "ok" =>
           disk.text = Cur /\ disk.whole /\ script[Cur] = "done"]_vars
  <2> SUFFICES ASSUME FileInv, [Next]_vars, answers' # answers, answers'[Cur] = "ok"
               PROVE  disk.text = Cur /\ disk.whole /\ script[Cur] = "done"
    OBVIOUS
  <2>1. Verify \/ \E stage \in Stages \ {"ok"} : Answer(stage)
    BY DEF Next, vars, Begin, Refused, Probe, Mkdir, Put, LoseReply, Verify, Edit, Script, Stream,
      StreamFails, CutStream, Move, Copy, EndCopy, Clean, MoveFails, MoveUnnoticed, Die, Patch, Applied, Failed, Stages
  <2>2. Verify BY <2>1, AnswerGrows DEF FileInv
  <2>3. /\ Cur \in Calls /\ script[Cur] = "done" /\ Sent(Cur)
    BY <2>2 DEF Verify, FileInv, ScriptInv, WantInv
  <2>4. PICK actual \in {Text, NoFile} : Answer(IF Persisted(actual) THEN "ok" ELSE "verify")
    BY <2>2 DEF Verify
  <2>5. Persisted(actual) BY <2>4, AnswerGrows DEF FileInv, Stages
  <2>6. actual.text = Cur /\ actual.whole BY <2>3, <2>5 DEF Persisted, Sent
  <2>7. actual = Text BY <2>3, <2>4, <2>6 DEF NoFile
  <2> QED BY <2>3, <2>6, <2>7, ContentTypes, FileWriteAssumption DEF FileInv
<1> QED BY <1>1, FileInvariant, PTL DEF Spec, OkWasOnDisk

\* What an ok was given for has the endings and the mark of the file that the call read.
THEOREM OkKeepsEndings == Spec => []EndingsKept
<1>1. FileWriteAssumption BY FileWriteAssumption
<1>2. Init => KeepInv
  <2> SUFFICES ASSUME Init PROVE KeepInv OBVIOUS
  <2>0. 0 \notin Calls BY DEF Calls
  <2>1. disk.text = 0
    <3>1. disk = NoFile \/ disk \in [text : {0}, endings : Endings, bom : BOOLEAN, whole : {TRUE}]
      BY DEF Init
    <3>2. CASE disk = NoFile BY <3>2 DEF NoFile
    <3> QED BY <3>1, <3>2
  <2>2. EndingsKept BY DEF Init, EndingsKept, Answered
  <2> QED BY <2>0, <2>1, <2>2 DEF Init, KeepInv
<1>3. FileInv /\ KeepInv /\ [Next]_vars => KeepInv' BY <1>1, KeepStep
<1>4. KeepInv => EndingsKept BY DEF KeepInv
<1> QED BY <1>2, <1>3, <1>4, FileInvariant, PTL DEF Spec

=============================================================================
