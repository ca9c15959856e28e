------------------------------ MODULE OutputScan ------------------------------
(***************************************************************************)
(* The bytes of a shell session: how _drain of shell_session.py takes what *)
(* the shell prints, in pieces that the system cuts where it likes, removes*)
(* the escape sequences, finds the start-up mark and the prompt, keeps the *)
(* head and the tail of the rest, and what an answer makes of them.        *)
(* ShellSession.tla has the threads and the states of a session; here a    *)
(* command's output is one text, and other programs that print between two *)
(* commands are left out.                                                  *)
(*                                                                         *)
(* A byte stands for a class of bytes: "a" and "b" are text, "r" and "n"   *)
(* the carriage return and the newline, "e" "m" the two halves of an escape*)
(* sequence, "c" the command, "s" "t" the halves of SETUP_OK; the pieces of*)
(* the prompt, <token>:<code>|, are bytes that nothing else has.           *)
(***************************************************************************)
EXTENDS Naturals, Sequences, SequencesExt, Selection

CONSTANTS
  Prompt,     \* the pieces of a prompt
  Keep,       \* what is kept back, len(token) + 16
  HeadSize,   \* HEAD_SIZE
  TailSize,   \* TAIL_SIZE
  MaxOutput,  \* max_output of a call
  CutsInit,   \* whether a read may end within SETUP_OK or the first prompt
  MaxUnits    \* bound on the output of a command

Plain == {"a", "b", "r", "n", "e", "m", "c", "s", "t"}
PromptLen == Len(Prompt)

ASSUME ScanAssumption ==
  /\ {PromptLen, Keep, HeadSize, TailSize, MaxUnits} \subseteq Nat /\ MaxOutput \in Nat \ {0}
  /\ 2 <= PromptLen /\ PromptLen <= Keep /\ CutsInit \in BOOLEAN
  /\ Prompt \in Seq(STRING) /\ \A i \in 1..PromptLen : Prompt[i] \notin Plain \cup {""}
  /\ \A i, j \in 1..PromptLen : i # j => Prompt[i] # Prompt[j]

VARIABLES
  state,      \* _state
  after,      \* _init_after_setup
  carry,      \* what _drain has kept back
  head,       \* _head
  tail,       \* _tail
  head_done,  \* _head_done
  event,      \* whether _prompt_event is set
  text,       \* what the shell prints before its next prompt
  read,       \* how much of that, and of the prompt, _drain has read
  alive,      \* whether the shell will print the prompt
  answer      \* the last answer

buffer == <<head, tail, head_done>>
shell == <<text, alive>>
vars == <<state, after, carry, buffer, event, shell, read, answer>>

Units == {<<"a">>, <<"b">>, <<"r">>, <<"n">>, <<"e", "m">>}
Outputs(max) == {FlattenSeq(u) : u \in BoundedSeq(Units, max)}
Command == <<"c">>
\* A terminal echoes the command, a pipe does not.
Echoes == {<<>>, Command \o <<"r", "n">>}
SetupOk == <<"s", "t">>
Printed == IF alive THEN text \o Prompt ELSE text
Bytes == Plain \cup {Prompt[i] : i \in 1..PromptLen}

NoAnswer == [kind |-> "none", shown |-> <<>>]

Init ==
  /\ state = "init" /\ after = FALSE /\ carry = <<>>
  /\ head = <<>> /\ tail = <<>> /\ head_done = FALSE /\ event = FALSE
  /\ \E echo, banner, rest \in Outputs(1) :
       text = banner \o echo \o SetupOk \o <<"r", "n">> \o rest
  /\ read = 0 /\ alive = TRUE /\ answer = NoAnswer

-----------------------------------------------------------------------------
(* Bytes. *)

\* Python's s[:n] and s[-n:].
First(s, n) == SubSeq(s, 1, IF n < Len(s) THEN n ELSE Len(s))
LastOf(s, n) == SubSeq(s, IF n < Len(s) THEN Len(s) - n + 1 ELSE 1, Len(s))
But(s, n) == SubSeq(s, n + 1, Len(s))

InEscape(s, i) ==
  \/ i < Len(s) /\ s[i] = "e" /\ s[i + 1] = "m"
  \/ i > 1 /\ s[i - 1] = "e" /\ s[i] = "m"

\* _strip_ansi: whole escape sequences go, a carriage return becomes a newline.
Replaced(s) ==
  [i \in 1..Len(s) |-> IF InEscape(s, i) THEN "" ELSE IF s[i] = "r" THEN "n" ELSE s[i]]
Stripped(s) == Selected(Replaced(s), Bytes)

\* Where t begins in s.
Places(s, t) == {i \in 1..(Len(s) - Len(t) + 1) : SubSeq(s, i, i + Len(t) - 1) = t}
Lowest(S) == CHOOSE i \in S : \A j \in S : i <= j
Highest(S) == CHOOSE i \in S : \A j \in S : j <= i

\* lstrip and rstrip of newlines.
WithoutStart(s) == But(s, Lowest({i \in 0..Len(s) : i = Len(s) \/ s[i + 1] # "n"}))
WithoutEnd(s) == First(s, Highest({i \in 0..Len(s) : i = 0 \/ s[i] # "n"}))

-----------------------------------------------------------------------------
(* The buffer. *)

ClearBuffer == head' = <<>> /\ tail' = <<>> /\ head_done' = FALSE

\* Slip: the head is done with the first piece.
Store_HeadOnce(data) ==
  IF data = <<>> THEN UNCHANGED buffer
  ELSE /\ head' = IF head_done THEN head ELSE First(data, HeadSize)
       /\ tail' = LastOf(tail \o (IF head_done THEN data ELSE But(data, HeadSize)), TailSize)
       /\ head_done' = TRUE

\* Slip: the room in the head is not what is left of it.
Store_FullRoom(data) ==
  IF data = <<>> THEN UNCHANGED buffer
  ELSE IF head_done THEN tail' = LastOf(tail \o data, TailSize) /\ UNCHANGED <<head, head_done>>
  ELSE /\ head' = head \o First(data, HeadSize)
       /\ head_done' = (Len(data) > HeadSize)
       /\ tail' = LastOf(tail \o But(data, HeadSize), TailSize)

\* _store_output.
Store(data) ==
  LET room == HeadSize - Len(head) IN
    IF data = <<>> THEN UNCHANGED buffer
    ELSE IF head_done THEN tail' = LastOf(tail \o data, TailSize) /\ UNCHANGED <<head, head_done>>
    ELSE /\ head' = head \o First(data, room)
         /\ head_done' = (Len(data) > room \/ room = 0)
         /\ tail' = LastOf(tail \o But(data, room), TailSize)

\* _get_buffered_output: without the echo and the newlines around, the last max_output.
View(command) ==
  LET raw  == head \o tail
      said == command \o <<"n">>
      full == IF command # <<>> /\ IsPrefix(said, raw) THEN But(raw, Len(said)) ELSE raw
  IN  LastOf(WithoutEnd(WithoutStart(full)), MaxOutput)

-----------------------------------------------------------------------------
(* _drain. *)

\* Within SETUP_OK or a prompt, where the piece that ends there has only a part of it.
Cut(n) ==
  \/ n > Len(text) /\ n < Len(Printed)
  \/ n < Len(text) /\ n > 0 /\ SubSeq(text, n, n + 1) = SetupOk

\* Start-up: the mark, then the prompt; what is kept back is only what followed the mark.
ScanInit(stripped) ==
  LET marks   == Places(stripped, SetupOk)
      prompts == Places(stripped, Prompt)
      found   == (after \/ marks # {}) /\ prompts # {}
      rest    == But(stripped, Lowest(prompts) + PromptLen - 1)
  IN  /\ state' = IF found THEN "ready" ELSE "init"
      /\ after' = IF found THEN FALSE ELSE (after \/ marks # {})
      /\ carry' = IF found THEN rest
                  ELSE IF marks # {} THEN WithoutStart(But(stripped, Lowest(marks) + 1))
                  ELSE IF after THEN carry ELSE <<>>
      /\ IF found \/ marks # {} THEN ClearBuffer ELSE UNCHANGED buffer
      /\ UNCHANGED event

\* Slip: nothing is kept back for the next piece.
ScanOutput_NoCarry(stripped) ==
  LET prompts == Places(stripped, Prompt) IN
    /\ IF prompts # {} THEN Store(First(stripped, Lowest(prompts) - 1)) /\ event' = TRUE
       ELSE Store(stripped) /\ UNCHANGED event
    /\ carry' = <<>> /\ UNCHANGED <<state, after>>

\* The prompt in the last line; what may be the beginning of one is kept back.
ScanOutput(stripped) ==
  LET content == IF WithoutEnd(stripped) = <<>> THEN stripped ELSE WithoutEnd(stripped)
      newlines == {i \in DOMAIN content : content[i] = "n"}
      prompts == {i \in Places(content, Prompt) : \A j \in newlines : j < i}
  IN  /\ \/ /\ prompts # {}
            /\ Store(First(content, Lowest(prompts) - 1)) /\ event' = TRUE /\ carry' = <<>>
         \/ /\ prompts = {}
            /\ Store(First(stripped, Len(stripped) - Len(LastOf(stripped, Keep))))
            /\ carry' = LastOf(stripped, Keep) /\ UNCHANGED event
      /\ UNCHANGED <<state, after>>

\* os.read returns some of what there is.
Read ==
  /\ state # "terminated" /\ read < Len(Printed)
  /\ \E n \in (read + 1)..Len(Printed) :
       /\ state = "init" /\ ~CutsInit => ~Cut(n)
       /\ read' = n
       /\ LET stripped == Stripped(carry \o SubSeq(Printed, read + 1, n))
          IN  IF state = "init" THEN ScanInit(stripped) ELSE ScanOutput(stripped)
  /\ UNCHANGED <<shell, answer>>

\* End of file, after all that was printed.
EndOfFile ==
  /\ state # "terminated" /\ ~alive /\ read = Len(Printed)
  /\ Store(carry) /\ state' = "terminated" /\ event' = TRUE
  /\ UNCHANGED <<after, carry, shell, read, answer>>

-----------------------------------------------------------------------------
(* The calls, and the shell. *)

\* send, and what the shell will print for it.
Send ==
  /\ state = "ready" /\ alive /\ state' = "waiting"
  /\ ClearBuffer /\ event' = FALSE
  /\ \E echo \in Echoes, out \in Outputs(MaxUnits) : text' = echo \o out
  /\ read' = 0 /\ answer' = NoAnswer
  /\ UNCHANGED <<after, carry, alive>>

\* The event is set: send returns, and clears the buffer.
Return ==
  /\ event /\ answer.kind = "none"
  /\ \/ /\ state = "waiting" /\ state' = "ready"
        /\ answer' = [kind |-> "ready", shown |-> View(Command)]
     \/ /\ state = "terminated" /\ UNCHANGED state
        /\ answer' = [kind |-> "terminated", shown |-> View(<<>>)]
  /\ ClearBuffer
  /\ UNCHANGED <<after, carry, event, shell, read>>

\* The shell ends, by the command or in the middle of it.
Exit ==
  /\ state = "waiting" /\ alive /\ read <= Len(text)
  /\ \E n \in read..Len(text) : text' = First(text, n)
  /\ alive' = FALSE
  /\ UNCHANGED <<state, after, carry, buffer, event, read, answer>>

Next == Read \/ EndOfFile \/ Send \/ Return \/ Exit

Spec == Init /\ [][Next]_vars

-----------------------------------------------------------------------------
(* Properties. *)

\* Every variable keeps its type, and the buffer and what is kept back their bounds.
TypeOK ==
  /\ state \in {"init", "ready", "waiting", "terminated"}
  /\ {after, head_done, event, alive} \subseteq BOOLEAN
  /\ \A s \in {carry, head, tail, text, answer.shown} : s \in Seq(Bytes)
  /\ Len(carry) <= Keep \/ state \in {"init", "ready"}
  /\ Len(head) <= HeadSize /\ Len(tail) <= TailSize /\ read \in 0..Len(Printed)
  /\ answer.kind \in {"none", "ready", "terminated"}

\* The drain thread notices the prompt wherever the reads cut it: once it has read all
\* that the shell printed the session is ready, or the event is set; and not before.
PromptSeen ==
  alive => (read = Len(Printed)) = (state = "ready" \/ event)

\* What of a text an answer may show: all of it, or its first HeadSize and its last TailSize
\* bytes, without the echo and the newlines around, and of that the last MaxOutput.
Shown(s, command) ==
  LET kept == IF Len(s) <= HeadSize + TailSize THEN s ELSE First(s, HeadSize) \o LastOf(s, TailSize)
      said == command \o <<"n">>
      full == IF command # <<>> /\ IsPrefix(said, kept) THEN But(kept, Len(said)) ELSE kept
      core == {i \in DOMAIN full : full[i] # "n"}
      from == Lowest(core)
      to   == Highest(core)
  IN  IF core = {} THEN <<>> ELSE LastOf(SubSeq(full, from, to), MaxOutput)

\* However the reads cut the output, its escape sequences and its prompt: the answer shows
\* what the command printed, as if it had come in one piece, and nothing of the prompt, of
\* the start-up or of the command before; what a call sees while the command runs lags
\* behind what was read by what is kept back and no more; nothing is held back when the
\* shell has ended.
OutputExact ==
  /\ answer.kind = "ready" => answer.shown = Shown(Stripped(text), Command)
  /\ answer.kind = "terminated" => answer.shown = Shown(Stripped(text), <<>>)
  /\ state = "waiting" /\ ~event => \E k \in 0..Keep :
       LET got == Stripped(SubSeq(Printed, 1, read)) IN
         View(Command) = Shown(First(got, Len(got) - k), Command)
===============================================================================
