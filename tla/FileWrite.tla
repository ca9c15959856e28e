------------------------------ MODULE FileWrite ------------------------------
(***************************************************************************)
(* One file of a machine under file_write and file_patch: the calls of     *)
(* FileOperations in file_operations.py, write_file of the two backends,   *)
(* and the script that bash or PowerShell has to run on the machine.       *)
(*                                                                         *)
(* The server runs one call at a time, but a script belongs to the         *)
(* machine: it may outlive the call that started it, run on beside later   *)
(* calls, and die half way.  The programs of the machine edit the file     *)
(* too.  A content is told apart by its author, its line endings, its      *)
(* byte order mark, and whether it is all that its author wrote.           *)
(*                                                                         *)
(* ssh joins the words of a command with spaces.  SSHBackend hands it bash,*)
(* -c and the command as three words, so that on a Linux target `bash -c`  *)
(* gets the first word of the command only, and the login shell runs what  *)
(* follows the first semicolon or pipe.                                    *)
(***************************************************************************)
EXTENDS Naturals, Sequences

CONSTANTS
  Backends,     \* what the machine may be: "docker", "ssh", or "windows" over ssh
  CrossDevice,  \* whether what is staged may lie on another file system than the file
  Faults,       \* what may go wrong, see below
  MaxCalls,     \* bound on the calls
  MaxEdits      \* bound on the edits of others

ASSUME FileWriteAssumption ==
  /\ Backends \subseteq {"docker", "ssh", "windows"} /\ CrossDevice \in BOOLEAN
  /\ MaxCalls \in Nat /\ MaxEdits \in Nat
     \* a command of the machine fails; a reply is lost or late; the ssh client ends in
     \* the middle of what it sends; a script is killed
  /\ Faults \subseteq {"command", "reply", "client", "death"}

VARIABLES
  backend,  \* the machine's
  disk,     \* the file
  pc,       \* where the call is
  op,       \* its tool: "write", "patch" (mode replace) or "apply" (mode patch), and
            \* the endings and mark of what it is to write
  want,     \* full_content or content_to_write of each call
  seen,     \* what its first cat returned
  script,   \* the remote script of each call
  temps,    \* the calls whose temporary file or directory exists, and if it is whole
  answers,  \* what the calls answered
  edits     \* edits of others

vars == <<backend, disk, pc, op, want, seen, script, temps, answers, edits>>

Calls == 1..MaxCalls
Endings == {"lf", "crlf", "mixed"}
Contents == [text : 0..(MaxCalls + MaxEdits), endings : Endings, bom : BOOLEAN, whole : BOOLEAN]
NoFile == [text |-> 0, endings |-> "lf", bom |-> FALSE, whole |-> FALSE]
Args == [kind : {"write"}, endings : {"lf", "crlf"}, bom : BOOLEAN]
          \cup [kind : {"patch", "apply"}, endings : {"lf"}, bom : {FALSE}]
\* "ok" is the one of write and _patch_replace, "applied" the one of _patch_apply.
Stages == {"ok", "applied", "refused", "mkdir", "put", "write", "verify"}
Pcs == {"idle", "probe", "mkdir", "put", "script", "verify"}
Running == {"stream", "move", "copy", "clean", "patch"}
Steps == Running \cup {"none", "done", "failed", "dead"}
Temps == {"none", "part", "all"}

\* The call in progress, or the next one.
Cur == Len(answers) + 1

Init ==
  /\ backend \in Backends
  /\ disk \in {NoFile} \cup [text : {0}, endings : Endings, bom : BOOLEAN, whole : {TRUE}]
  /\ pc = "idle" /\ op = [kind |-> "write", endings |-> "lf", bom |-> FALSE]
  /\ want = [c \in Calls |-> NoFile] /\ seen = NoFile
  /\ script = [c \in Calls |-> "none"] /\ temps = [c \in Calls |-> "none"]
  /\ answers = <<>> /\ edits = 0

Answer(stage) == answers' = Append(answers, stage) /\ pc' = "idle"

-----------------------------------------------------------------------------
(* The call: what it reads, and what it makes of that. *)

\* The linter of .json, .yaml and .toml refuses a write, or a patch is empty.
Refused == op'.kind # "patch" /\ Answer("refused")

\* A call comes in.  What is not refused reads the file first, but for a patch file,
\* which goes to patch -p0 as it is.
Begin ==
  /\ pc = "idle" /\ Cur <= MaxCalls
  /\ op' \in Args
  /\ \/ Refused /\ UNCHANGED script
     \/ op'.kind # "apply" /\ pc' = "probe" /\ UNCHANGED <<script, answers>>
     \/ /\ op'.kind = "apply" /\ pc' = "script" /\ UNCHANGED answers
        /\ script' = [script EXCEPT ![Cur] = "patch"]
  /\ UNCHANGED <<backend, disk, want, seen, temps, edits>>

\* Slip: write takes the content as it is.
WriteContent_AsGiven(c) ==
  [text |-> c, endings |-> op.endings, bom |-> op.bom, whole |-> TRUE]

\* What write sends: the argument, with CRLF endings if the file had one, and with its mark.
WriteContent(c) ==
  [text    |-> c,
   endings |-> IF seen'.endings = "lf" THEN op.endings ELSE "crlf",
   bom     |-> op.bom \/ seen'.bom,
   whole   |-> TRUE]

\* What _patch_replace sends: the text it read with one piece replaced, endings converted
\* in that piece only, and the mark as it was.
PatchContent(c) == [seen' EXCEPT !.text = c, !.whole = TRUE]

\* What cat prints.  Get-Content drops the mark and ends every line in CRLF.  Over ssh a
\* Linux machine runs `bash -c cat`, which has lost the path and finds its input empty.
Text ==
  CASE backend = "docker"  -> disk
    [] backend = "windows" -> IF disk = NoFile THEN NoFile
                              ELSE [disk EXCEPT !.endings = "crlf", !.bom = FALSE]
    [] backend = "ssh"     -> NoFile

\* What exec_oneoff brings back of the file: nothing if it fails or times out.
Cat(content) == content = Text \/ (Faults \cap {"command", "reply"} # {} /\ content = NoFile)

\* A cat that brings back nothing and did not fail: its exit code is 0, or None.
Blank == seen' = NoFile /\ (backend = "ssh" \/ (backend = "windows" /\ "reply" \in Faults))

\* The first cat.  write goes on without a file or with a failed cat; patch stops there,
\* and when old_string is not in what it read.  An empty old_string is in an empty text.
Probe ==
  /\ pc = "probe"
  /\ Cat(seen')
  /\ \/ /\ op.kind = "write" \/ seen' # NoFile \/ Blank
        /\ pc' = "mkdir" /\ UNCHANGED answers
        /\ want' = [want EXCEPT ![Cur] =
             IF op.kind = "write" THEN WriteContent(Cur) ELSE PatchContent(Cur)]
     \/ op.kind = "patch" /\ Answer("refused") /\ UNCHANGED want
  /\ UNCHANGED <<backend, disk, op, script, temps, edits>>

-----------------------------------------------------------------------------
(* write_file: the directories, the content, and the script. *)

\* The directory of the file; a mkdir that times out has exit code None, which counts as
\* done.  Docker makes a directory of its own too, and takes a reply that it cannot read
\* for a failure.  Over ssh `bash -c mkdir` has lost its operand and fails, unless the
\* path has no directory but /.  The script comes next, which in bash begins with the
\* temporary file, in PowerShell with reading all of its input.
Mkdir ==
  /\ pc = "mkdir"
  /\ \/ /\ backend # "docker" /\ pc' = "script"
        /\ script' = [script EXCEPT ![Cur] = "stream"]
        /\ temps' = [temps EXCEPT ![Cur] = IF backend = "ssh" THEN "part" ELSE "none"]
        /\ UNCHANGED answers
     \/ /\ backend = "docker" /\ pc' = "put"
        /\ temps' = [temps EXCEPT ![Cur] = "part"] /\ UNCHANGED <<script, answers>>
     \/ /\ backend = "ssh" \/ "command" \in Faults
        /\ Answer("mkdir") /\ UNCHANGED <<script, temps>>
     \/ /\ backend = "docker" /\ "reply" \in Faults
        /\ temps' = [temps EXCEPT ![Cur] = "part"] /\ Answer("mkdir") /\ UNCHANGED script
  /\ UNCHANGED <<backend, disk, op, want, seen, edits>>

\* put_archive, and the rm -rf when the daemon refuses it, whose result nobody looks at.
\* A client that gives up raises instead, and what it wrote stays.
Put ==
  /\ pc = "put"
  /\ \/ /\ pc' = "script" /\ script' = [script EXCEPT ![Cur] = "move"]
        /\ temps' = [temps EXCEPT ![Cur] = "all"] /\ UNCHANGED answers
     \/ /\ "command" \in Faults /\ Answer("put") /\ UNCHANGED script
        /\ temps' \in {temps, [temps EXCEPT ![Cur] = "none"]}
     \/ "reply" \in Faults /\ Answer("write") /\ UNCHANGED <<script, temps>>
  /\ UNCHANGED <<backend, disk, op, want, seen, edits>>

Advance(c, from, to) == script[c] = from /\ script' = [script EXCEPT ![c] = to]

\* cat > "$tmp" or WriteAllText took all of the content.
Stream(c) ==
  /\ Advance(c, "stream", "move") /\ temps' = [temps EXCEPT ![c] = "all"]
  /\ UNCHANGED <<backend, disk, pc, op, want, seen, answers, edits>>

\* They fail, at once or half way, and the script goes on: PowerShell does after an error,
\* and over ssh the set -e is in a shell of its own.
StreamFails(c) ==
  /\ "command" \in Faults /\ Advance(c, "stream", "move")
  /\ temps' \in {temps, [temps EXCEPT ![c] = "part"]}
  /\ UNCHANGED <<backend, disk, pc, op, want, seen, answers, edits>>

\* Slip: a stream that was cut counts as sent.
CutStream_Unseen(c) ==
  /\ "client" \in Faults /\ pc = "script" /\ c = Cur /\ Advance(c, "stream", "move")
  /\ temps' = [temps EXCEPT ![c] = "part"] /\ Answer("ok")
  /\ UNCHANGED <<backend, disk, op, want, seen, edits>>

\* The ssh client is killed after 60 seconds or loses its connection in the middle of
\* the content.  The script takes the end of its input for the end of the content.
CutStream(c) ==
  /\ "client" \in Faults /\ pc = "script" /\ c = Cur /\ Advance(c, "stream", "move")
  /\ temps' = [temps EXCEPT ![c] = "part"] /\ Answer("write")
  /\ UNCHANGED <<backend, disk, op, want, seen, edits>>

\* WriteAllText puts a mark before what it writes.
Staged(c) == [want[c] EXCEPT !.whole = temps[c] = "all", !.bom = @ \/ backend = "windows"]

\* mv -f, a rename unless the file systems differ, and Move-Item.
Move(c) ==
  /\ ~(backend = "docker" /\ CrossDevice) /\ temps[c] # "none"
  /\ Advance(c, "move", "clean") /\ disk' = Staged(c)
  /\ temps' = IF backend = "docker" THEN temps ELSE [temps EXCEPT ![c] = "none"]
  /\ UNCHANGED <<backend, pc, op, want, seen, answers, edits>>

\* Between file systems mv writes the target bit by bit.  Over ssh the directory of a path
\* that comes so far is / or none: mktemp makes a file in /tmp, or beside the target.
Copy(c) ==
  /\ backend # "windows" /\ CrossDevice
  /\ Advance(c, "move", "copy") /\ disk' = [want[c] EXCEPT !.whole = FALSE]
  /\ UNCHANGED <<backend, pc, op, want, seen, temps, answers, edits>>

EndCopy(c) ==
  /\ Advance(c, "copy", "clean") /\ disk' = Staged(c)
  /\ UNCHANGED <<backend, pc, op, want, seen, temps, answers, edits>>

\* Slip: the directory is left.
Clean_Keep(c) ==
  /\ Advance(c, "clean", "done")
  /\ pc' = IF pc = "script" /\ c = Cur THEN "verify" ELSE pc
  /\ UNCHANGED <<backend, disk, op, want, seen, temps, answers, edits>>

\* rm, and exit code 0 for the call if it still waits.
Clean(c) ==
  /\ Advance(c, "clean", "done") /\ temps' = [temps EXCEPT ![c] = "none"]
  /\ pc' = IF pc = "script" /\ c = Cur THEN "verify" ELSE pc
  /\ UNCHANGED <<backend, disk, op, want, seen, answers, edits>>

\* Slip: it answers without asking whether the call still waits.
Failed_Always(c) == Answer("write")

\* The answer of a script that ended badly, if the call still waits for it.
Failed(c) == IF pc = "script" /\ c = Cur THEN Answer("write") ELSE UNCHANGED <<pc, answers>>

\* A failed mv, also one that fails while it copies: the script of docker cleans up and
\* ends with its exit code.
MoveFails(c) ==
  /\ "command" \in Faults /\ backend = "docker"
  /\ \E from \in {"move", "copy"} : Advance(c, from, "failed")
  /\ temps' = [temps EXCEPT ![c] = "none"] /\ Failed(c)
  /\ UNCHANGED <<backend, disk, op, want, seen, edits>>

\* The others go on to the end, whose exit code is 0.
MoveUnnoticed(c) ==
  /\ "command" \in Faults /\ backend # "docker"
  /\ \E from \in {"move", "copy"} : Advance(c, from, "clean")
  /\ UNCHANGED <<backend, disk, pc, op, want, seen, temps, answers, edits>>

\* The script is killed where it is.
Die(c) ==
  /\ "death" \in Faults /\ script[c] \in Running /\ script' = [script EXCEPT ![c] = "dead"]
  /\ Failed(c)
  /\ UNCHANGED <<backend, disk, op, want, seen, temps, edits>>

\* The command of _patch_apply is over with exit code 0.
Applied(c) ==
  /\ Advance(c, "patch", "done")
  /\ IF pc = "script" /\ c = Cur THEN Answer("applied") ELSE UNCHANGED <<pc, answers>>

\* patch rewrites the file with all hunks, or with those that fit.  Over ssh `bash -c echo`
\* has lost the patch, and one without a hunk succeeds.
Patch(c) ==
  /\ \/ /\ backend # "ssh" /\ disk # NoFile /\ Applied(c)
        /\ disk' = [disk EXCEPT !.text = c, !.whole = TRUE]
     \/ backend = "ssh" /\ Applied(c) /\ UNCHANGED disk
     \/ /\ Advance(c, "patch", "failed") /\ Failed(c)
        /\ \/ UNCHANGED disk
           \/ /\ backend # "ssh" /\ disk # NoFile
              /\ disk' = [disk EXCEPT !.text = c, !.whole = FALSE]
  /\ UNCHANGED <<backend, op, want, seen, temps, edits>>

\* The call gives up on a script that has all of its input and runs on.  To _patch_apply
\* a command of the ssh backend that timed out, with exit code None, has succeeded.
LoseReply ==
  /\ "reply" \in Faults /\ pc = "script" /\ script[Cur] \in Running \ {"stream"}
  /\ Answer("write") \/ (script[Cur] = "patch" /\ backend # "docker" /\ Answer("applied"))
  /\ UNCHANGED <<backend, disk, op, want, seen, script, temps, edits>>

-----------------------------------------------------------------------------

\* Slip: nothing is compared.
Persisted_Unchecked(actual) == TRUE

\* write compares without endings and mark, patch with the endings it would expect of
\* a file that has one CRLF.
Persisted(actual) ==
  /\ actual.text = want[Cur].text /\ actual.whole = want[Cur].whole
  /\ op.kind = "patch" =>
       actual.endings = IF want[Cur].endings = "lf" THEN "lf" ELSE "crlf"

\* The second cat, and the answer of the call.
Verify ==
  /\ pc = "verify"
  /\ \E actual \in {Text, NoFile} : Cat(actual) /\ Answer(IF Persisted(actual) THEN "ok" ELSE "verify")
  /\ UNCHANGED <<backend, disk, op, want, seen, script, temps, edits>>

\* Somebody else writes the file.
Edit ==
  /\ edits < MaxEdits /\ edits' = edits + 1
  /\ disk' \in [text : {MaxCalls + edits + 1}, endings : Endings, bom : BOOLEAN, whole : {TRUE}]
  /\ UNCHANGED <<backend, pc, op, want, seen, script, temps, answers>>

Script(c) ==
  \/ Stream(c) \/ StreamFails(c) \/ CutStream(c) \/ Move(c) \/ Copy(c) \/ EndCopy(c) \/ Clean(c)
  \/ MoveFails(c) \/ MoveUnnoticed(c) \/ Die(c) \/ Patch(c)

Next ==
  \/ Begin \/ Probe \/ Mkdir \/ Put \/ LoseReply \/ Verify \/ Edit
  \/ \E c \in Calls : Script(c)

Spec == Init /\ [][Next]_vars

-----------------------------------------------------------------------------

TypeOK ==
  /\ backend \in Backends /\ disk \in Contents /\ pc \in Pcs /\ op \in Args
  /\ want \in [Calls -> Contents] /\ seen \in Contents
  /\ script \in [Calls -> Steps] /\ temps \in [Calls -> Temps]
  /\ answers \in Seq(Stages) /\ Len(answers) <= MaxCalls /\ edits \in 0..MaxEdits

Answered(c, stages) == c \in 1..Len(answers) /\ answers[c] \in stages

\* A file that holds a part of what a call sent is the work of a call that has not
\* answered, or has answered that the write or its verification failed: never of one that
\* answered ok.  Only _patch_apply may have claimed success, after a timeout.
TornIsReported ==
  disk # NoFile /\ ~disk.whole =>
    disk.text > Len(answers) \/ Answered(disk.text, {"write", "verify", "applied"})

\* An ok is given for what was on the disk at that moment, whatever earlier scripts and
\* other programs did since the script of the call was over.
OkWasOnDisk ==
  [][ answers' # answers /\ answers'[Cur] = "ok" =>
        disk.text = Cur /\ disk.whole /\ script[Cur] = "done" ]_vars

\* A write keeps the CRLF endings and the mark of the file that it read, and a patch
\* its endings and mark as they were: what it leaves on disk says so when it answers ok.
EndingsKept ==
  pc = "idle" /\ disk.text = Len(answers) /\ Answered(Len(answers), {"ok"}) =>
    /\ seen.endings = "lf" \/ disk.endings # "lf"
    /\ seen.bom => disk.bom

\* A temporary file or directory outlives its call only if the call answered that
\* mkdir, put_archive or the script went wrong, and no script of it came to its end.
LitterExplained ==
  \A c \in 1..Len(answers) : temps[c] # "none" =>
    answers[c] \in {"mkdir", "put", "write"} /\ script[c] # "done"

\* The file is at each moment the whole content that somebody wrote, as the module
\* comment and the README say of writes.
NeverTorn == disk # NoFile => disk.whole
=============================================================================
