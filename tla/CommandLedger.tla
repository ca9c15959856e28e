--------------------------- MODULE CommandLedger ---------------------------
(***************************************************************************)
(* What a shell session promises to the agent, without threads, prompts or *)
(* buffers: the diagram ready -> waiting -> ready of design-spec-v2.md as  *)
(* ShellSession.send and read realise it.  A session accepts one command   *)
(* at a time, the shell finishes it, and a ready answer with an exit code  *)
(* is given only for the command accepted last and only when it is         *)
(* finished.  A dead shell finishes nothing; it may still be sent commands *)
(* until its death is noticed, and is then answered without a code.        *)
(***************************************************************************)
EXTENDS Naturals

CONSTANT MaxCmds

VARIABLES
  phase,    \* "alive", "closing" once close() has begun, or "dead"
  sent,     \* commands accepted
  done,     \* commands the shell has finished
  waiting,  \* the last command is accepted and not yet known to be finished
  answer    \* <<command, code>> of a ready answer, <<>> for any other result

vars == <<phase, sent, done, waiting, answer>>

NoCode == MaxCmds + 1

Init == phase = "alive" /\ sent = 0 /\ done = 0 /\ waiting = FALSE /\ answer = <<>>

Accept ==
  /\ phase # "closing" /\ sent < MaxCmds /\ ~waiting
  /\ sent' = sent + 1
  /\ waiting' = (phase = "alive")
  /\ UNCHANGED <<phase, done, answer>>

Finish ==
  /\ phase # "dead" /\ done < sent
  /\ done' = done + 1
  /\ UNCHANGED <<phase, sent, waiting, answer>>

\* The prompt after the command has been seen.
Notice ==
  /\ waiting /\ done = sent
  /\ waiting' = FALSE
  /\ UNCHANGED <<phase, sent, done, answer>>

Answer ==
  /\ ~waiting
  /\ \/ done = sent /\ answer' = <<sent, sent>>
     \/ phase = "dead" /\ answer' = <<sent, NoCode>>
  /\ UNCHANGED <<phase, sent, done, waiting>>

\* A refusal, a timeout, or the news that the shell is gone.
NoAnswer == answer' = <<>> /\ UNCHANGED <<phase, sent, done, waiting>>

Close ==
  /\ phase = "alive"
  /\ phase' = "closing" /\ waiting' = FALSE
  /\ UNCHANGED <<sent, done, answer>>

Die ==
  /\ phase' = "dead" /\ waiting' = FALSE
  /\ UNCHANGED <<sent, done, answer>>

Next == Accept \/ Finish \/ Notice \/ Answer \/ NoAnswer \/ Close \/ Die

Spec == Init /\ [][Next]_vars
=============================================================================
