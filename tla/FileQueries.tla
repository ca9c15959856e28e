---------------------------- MODULE FileQueries ----------------------------
(***************************************************************************)
(* What file_operations.py answers in pages: read, with the hint that      *)
(* names the next offset, and the search for files by name, with its       *)
(* truncated; as an agent pages through a file or a directory while other  *)
(* programs append to the file, replace it, and touch, make and remove     *)
(* files.                                                                  *)
(*                                                                         *)
(* A read is one script whose commands open the file anew, one after the   *)
(* other.  A search is one listing, newest first.                          *)
(***************************************************************************)
EXTENDS Naturals, Sequences, FiniteSets

CONSTANTS
  Texts,       \* texts of a line that is not empty
  Blank,       \* the text of a line that is
  Files,       \* files whose name matches the pattern
  MaxSize,     \* max_file_size, in lines
  MaxLimit,    \* max_read_limit
  Offsets,     \* offset of a call that starts anew
  Limits,      \* limit of a call
  MaxLines,    \* bound on the lines of the file
  MaxCalls,    \* bound on the calls
  MaxEdits     \* bound on the edits of other programs

ASSUME QueryAssumption ==
  /\ Blank \notin Texts /\ IsFiniteSet(Files)
  /\ Offsets \subseteq Nat /\ Limits \subseteq Nat
  /\ MaxLimit \in Nat \ {0}
  /\ MaxSize \in Nat /\ MaxLines \in Nat /\ MaxCalls \in Nat /\ MaxEdits \in Nat

VARIABLES
  task,    \* whether the agent reads or searches
  shell,   \* the shell of the machine
  file,    \* the file that is read
  mtime,   \* when each file of the directory was modified, 0 for one that is not there
  clock,   \* the last of these times
  pc,      \* the command of the script that is next, or "idle"
  call,    \* offset and limit of the call, and the last line of its page
  part,    \* what the script has printed: the texts by their line numbers
  answer,  \* status, total_lines and truncated of the last answer
  sweep,   \* the pages that the agent asks for one after the other
  seen,    \* the texts that these have shown, by line number
  found,   \* the files that these have shown
  grown,   \* whether the file has only been appended to meanwhile
  whole,   \* whether that happened between two printing commands of no script
  still,   \* the files of the sweep's beginning that nobody has touched
  kept,    \* whether no file was removed, and no search was cut off
  calls,   \* calls so far
  edits    \* edits so far

disk == <<file, mtime, clock>>
query == <<pc, call, part, answer, sweep, seen, found, calls>>
ghosts == <<grown, whole, still, kept>>
vars == <<task, shell, disk, query, ghosts, edits>>

\* ended: the last line has its newline.  An unended last line is not empty.
Contents == {f \in [lines : UNION {[1..n -> Texts \cup {Blank}] : n \in 0..MaxLines}, ended : BOOLEAN] :
               f.ended \/ (f.lines # <<>> /\ f.lines[Len(f.lines)] # Blank)}
NoFile == [lines |-> <<>>, ended |-> FALSE]
Gone == file = NoFile

\* Lines that end in a newline.
Newlines(f) == IF f.ended \/ f.lines = <<>> THEN Len(f.lines) ELSE Len(f.lines) - 1

NoAnswer == [status |-> "none", total |-> 0, truncated |-> FALSE]
NoSweep == [on |-> FALSE, from |-> 1, next |-> 1]
Present == {f \in Files : mtime[f] > 0}

Init ==
  /\ task \in {"read", "search"} /\ shell \in {"bash", "powershell"}
  /\ file \in IF task = "read" THEN Contents \cup {NoFile} ELSE {NoFile}
  /\ mtime \in IF task = "read" THEN {[f \in Files |-> 0]} ELSE [Files -> 0..Cardinality(Files)]
  /\ \A f, g \in Files : mtime[f] = mtime[g] /\ f # g => mtime[f] = 0
  /\ clock = Cardinality(Files)
  /\ pc = "idle" /\ call = [offset |-> 1, limit |-> 1, end |-> 1] /\ part = <<>>
  /\ answer = NoAnswer /\ sweep = NoSweep /\ seen = <<>> /\ found = {}
  /\ grown = TRUE /\ whole = TRUE /\ still = {} /\ kept = TRUE
  /\ calls = 0 /\ edits = 0

-----------------------------------------------------------------------------
(* The agent asks for the page after the one that was truncated, or starts *)
(* anew.                                                                   *)

Continues(offset) == sweep.on /\ offset = sweep.next

Ask(offset) ==
  /\ pc = "idle" /\ calls < MaxCalls /\ calls' = calls + 1
  /\ answer' = NoAnswer
  /\ IF Continues(offset)
     THEN UNCHANGED <<sweep, seen, found, ghosts>>
     ELSE /\ sweep' = [on |-> FALSE, from |-> offset, next |-> offset]
          /\ seen' = <<>> /\ found' = {}
          /\ grown' = TRUE /\ whole' = TRUE /\ still' = Present /\ kept' = TRUE
  /\ UNCHANGED <<task, shell, disk, edits>>

Answer(status, total, truncated) ==
  answer' = [status |-> status, total |-> total, truncated |-> truncated]

-----------------------------------------------------------------------------
(* read. *)

Larger(a, b) == IF a >= b THEN a ELSE b
Least(a, b) == IF a <= b THEN a ELSE b

\* Slip: a limit of 0 stays.
Bounded_NoFloor(limit) == Least(limit, MaxLimit)

\* The limit within its bounds.
Bounded(limit) == Larger(1, Least(limit, MaxLimit))

\* Slip: the last line is taken from the limit as it was asked for.
EndLine_Asked(offset, limit, asked) == offset + asked - 1

\* end_line of read, once the limit is within its bounds.
EndLine(offset, limit, asked) == offset + limit - 1

Read(o, l) ==
  LET offset == Larger(1, o)  limit == Bounded(l) IN
  /\ task = "read" /\ Ask(offset)
  /\ call' = [offset |-> offset, limit |-> limit, end |-> EndLine(offset, limit, l)]
  /\ pc' = "stat" /\ part' = <<>>

Refuse(status) ==
  /\ pc' = "idle" /\ Answer(status, 0, FALSE) /\ sweep' = [sweep EXCEPT !.on = FALSE]
  /\ UNCHANGED <<task, shell, disk, call, part, seen, found, ghosts, calls, edits>>

\* The file is not there or cannot be read, the answer does not parse, or the script
\* fails or is cut off.
NotFound == pc \in {"stat", "sed", "wc"} /\ Refuse("not_found")

\* The script looks whether the file is there, then at its size.
Stat ==
  /\ pc = "stat" /\ ~Gone
  /\ IF Len(file.lines) > MaxSize
     THEN Refuse("too_large")
     ELSE /\ pc' = "sed"
          /\ UNCHANGED <<task, shell, disk, call, part, answer, sweep, seen, found, ghosts, calls, edits>>

\* The lines of the page.  read splits what bash prints at every newline, so that an
\* empty line follows the last one that has its newline, and stands alone when there is
\* none.
Page ==
  LET last == Least(call.offset + call.limit - 1, Len(file.lines))
      cut == shell = "bash" /\ last <= Newlines(file) IN
  IF last < call.offset THEN [n \in {call.offset} |-> Blank] ELSE
  [n \in call.offset .. (IF cut THEN last + 1 ELSE last) |-> IF n <= last THEN file.lines[n] ELSE Blank]

Sed ==
  /\ pc = "sed" /\ pc' = "wc" /\ part' = Page
  /\ UNCHANGED <<task, shell, disk, call, answer, sweep, seen, found, ghosts, calls, edits>>

\* wc -l counts newlines; Measure-Object -Line counts the lines that are not empty.
Total == IF shell = "bash" THEN Newlines(file)
         ELSE Cardinality({n \in DOMAIN file.lines : file.lines[n] # Blank})

\* The count, and the answer with the hint to go on behind end_line.  Bash cannot count
\* a file that is gone, and PowerShell counts no lines.
Wc ==
  /\ pc = "wc" /\ (Gone => shell = "powershell")
  /\ pc' = "idle" /\ Answer("ok", Total, Total > call.end)
  /\ sweep' = [sweep EXCEPT !.on = Total > call.end, !.next = call.end + 1]
  /\ seen' = [n \in DOMAIN part \cup DOMAIN seen |-> IF n \in DOMAIN part THEN part[n] ELSE seen[n]]
  /\ UNCHANGED <<task, shell, disk, call, part, found, ghosts, calls, edits>>

\* An image by its name, or a binary file by its first bytes.
NotText == pc = "wc" /\ \E status \in {"image", "binary"} : Refuse(status)

-----------------------------------------------------------------------------
(* search for files by name. *)

Rank(f) == Cardinality({g \in Files : mtime[g] > mtime[f]})

\* head cuts the listing.
Listed(fetch) == Least(Cardinality(Present), fetch)

\* Slip: a listing that fills the page just so is taken for all of it.
Truncated_Beyond(offset, limit) == Listed(offset + limit) > offset + limit

\* truncated of _search_files: as many files were printed as were asked for.
Truncated(offset, limit) == Listed(offset + limit) >= offset + limit

Search(offset, l) ==
  LET limit == Larger(1, l) IN
  /\ task = "search" /\ Ask(offset)
  /\ call' = [offset |-> offset, limit |-> limit, end |-> offset + limit - 1]
  /\ pc' = "rg" /\ UNCHANGED part

List ==
  /\ pc = "rg" /\ pc' = "idle"
  /\ Answer("ok", 0, Truncated(call.offset, call.limit))
  /\ sweep' = [sweep EXCEPT !.on = Truncated(call.offset, call.limit),
                            !.next = call.offset + call.limit]
  /\ found' = found \cup {f \in Present : Rank(f) \in call.offset .. (call.offset + call.limit - 1)}
  /\ UNCHANGED <<task, shell, disk, call, part, seen, ghosts, calls, edits>>

\* A search that is cut off at its timeout, or that fails, has no results and is ok; one
\* whose output looks as if rg were missing is an error.
ListNothing ==
  /\ pc = "rg" /\ pc' = "idle" /\ \E status \in {"ok", "error"} : Answer(status, 0, FALSE)
  /\ sweep' = [sweep EXCEPT !.on = FALSE] /\ kept' = FALSE
  /\ UNCHANGED <<task, shell, disk, call, part, seen, found, grown, whole, still, calls, edits>>

-----------------------------------------------------------------------------
(* Other programs. *)

Edit ==
  /\ edits < MaxEdits /\ edits' = edits + 1
  /\ UNCHANGED <<task, shell, query>>

Grow ==
  /\ task = "read" /\ ~Gone /\ Edit
  /\ file' \in Contents /\ Newlines(file') >= Newlines(file) /\ Len(file'.lines) >= Len(file.lines)
  /\ \A n \in 1..Newlines(file) : file'.lines[n] = file.lines[n]
  /\ whole' = (whole /\ pc # "wc")
  /\ UNCHANGED <<mtime, clock, grown, still, kept>>

Replace ==
  /\ task = "read" /\ Edit
  /\ file' \in Contents \cup {NoFile} /\ grown' = FALSE
  /\ UNCHANGED <<mtime, clock, whole, still, kept>>

\* A file is written or made, and is the newest.
Touch(f) ==
  /\ task = "search" /\ Edit
  /\ clock' = clock + 1 /\ mtime' = [mtime EXCEPT ![f] = clock + 1] /\ still' = still \ {f}
  /\ UNCHANGED <<file, grown, whole, kept>>

Remove(f) ==
  /\ task = "search" /\ f \in Present /\ Edit
  /\ mtime' = [mtime EXCEPT ![f] = 0] /\ still' = still \ {f} /\ kept' = FALSE
  /\ UNCHANGED <<file, clock, grown, whole>>

-----------------------------------------------------------------------------
Next ==
  \/ \E o \in Offsets \cup {sweep.next}, l \in Limits : Read(o, l) \/ Search(o, l)
  \/ NotFound \/ Stat \/ Sed \/ Wc \/ NotText
  \/ List \/ ListNothing
  \/ Grow \/ Replace
  \/ \E f \in Files : Touch(f) \/ Remove(f)

Spec == Init /\ [][Next]_vars

-----------------------------------------------------------------------------
(* Properties. *)

\* The variables have their types, at most one file has each time, and none is of the
\* future.
TypeOK ==
  /\ task \in {"read", "search"} /\ shell \in {"bash", "powershell"}
  /\ file \in Contents \cup {NoFile}
  /\ clock \in Nat /\ mtime \in [Files -> 0..clock]
  /\ \A f, g \in Files : mtime[f] = mtime[g] /\ f # g => mtime[f] = 0
  /\ pc \in {"idle"} \cup (IF task = "read" THEN {"stat", "sed", "wc"} ELSE {"rg"})
  /\ call \in [offset : Nat, limit : Nat \ {0}, end : Nat] /\ (task = "read" => call.offset >= 1)
  /\ answer \in [status : {"none", "ok", "not_found", "too_large", "image", "binary", "error"},
                 total : Nat, truncated : BOOLEAN]
  /\ sweep \in [on : BOOLEAN, from : Nat, next : Nat]
  /\ DOMAIN part \subseteq Nat /\ \A n \in DOMAIN part : part[n] \in Texts \cup {Blank}
  /\ DOMAIN seen \subseteq Nat /\ \A n \in DOMAIN seen : seen[n] \in Texts \cup {Blank}
  /\ found \subseteq Files /\ still \subseteq Present
  /\ {grown, whole, kept} \subseteq BOOLEAN
  /\ calls \in 0..MaxCalls /\ edits \in 0..MaxEdits

\* An agent that goes on at the offset of each hint has been shown every line it has
\* passed, with the text that the line has, while the file only grows, and not between
\* sed and wc; and once read says on a machine with bash that the file has ended, every
\* line that the answer counts.  (read: the limits, end_line, truncated and hint;
\* file_read_command: sed and wc.)
Passed == IF sweep.on THEN sweep.next - 1 ELSE IF shell = "bash" THEN answer.total ELSE 0

PagesCover ==
  task = "read" /\ grown /\ whole =>
    \A n \in sweep.from .. Passed :
      n \in DOMAIN seen /\ n \in DOMAIN file.lines /\ seen[n] = file.lines[n]

\* An agent that has paged through the files until truncated was false has been shown
\* every file that was there at its first call and that nobody has touched, whatever
\* was written or made meanwhile, if nothing was removed. (_search_files: the newest
\* first, head by offset and limit, the slice, truncated.)
FoundAll ==
  task = "search" /\ kept /\ sweep.from = 0 /\ answer.status = "ok" /\ ~sweep.on => still \subseteq found
=============================================================================
