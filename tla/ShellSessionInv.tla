-------------------------- MODULE ShellSessionInv --------------------------
(***************************************************************************)
(* The inductive invariant behind the safety of ShellSession for an agent  *)
(* that writes no stdin (StdinKinds = {}) and a shell that boots in time   *)
(* (~SlowInit).  The argument is about where the prompt of the last        *)
(* command is: at any time it is at most in one place, on its way from the *)
(* shell over the terminal and the drain thread to _prompt_event; and      *)
(* whenever send() may write, it is nowhere on the way.  OutputInv adds    *)
(* where the output of that command is.                                    *)
(***************************************************************************)
EXTENDS ShellSession

Prompts(lines) == {i \in DOMAIN lines : lines[i].k = "prompt"}

\* Completes TypeOK to an inductive invariant: a send that has passed its guard
\* has a command number left, and the drain thread holds a chunk while it parses.
CountInv ==
  /\ spc \in {"start", "poll"} => n = 0
  /\ spc \in {"check_terminated", "check_init", "check_waiting", "clear_buffer",
              "clear_event", "clear_pending"} => n < MaxCmds
ChunkInv == chunk # <<>> <=> dpc \in {"parse", "set_pending"}
TypeInv  == TypeOK /\ CountInv /\ ChunkInv

\* The server is in the course of close(), or beyond it.
Closing == life = "closed" \/ spc = "close_kill"

\* No prompt is on its way, and none is to be expected.
Quiet ==
  /\ Prompts(pty) = {} /\ Prompts(chunk) = {}
  /\ dpc \notin {"set_pending", "set_event"}
  /\ alive => shell = "prompt" /\ stdin = <<>>

\* The positions of send and read that are reached only when Quiet holds.
QuietPcs == {"clear_buffer", "clear_event", "clear_pending", "set_waiting", "write",
             "woken", "set_ready", "take_ready", "return_ready",
             "take_terminated", "return_terminated", "read_return"}

\* The shell and its input: one line at most, and none while it works.
ShellInv ==
  /\ Len(stdin) <= 1
  /\ stdin # <<>> => shell \in {"boot", "prompt"}
  /\ alive /\ stdin # <<>> =>
       \/ shell = "boot" /\ Head(stdin) = [k |-> "setup", c |-> Other]
       \/ shell = "prompt" /\ Head(stdin) = [k |-> "cmd", c |-> n]

\* Who wrote what: every prompt belongs to the last command, and so does the
\* command the live shell works on, unless that is still to be written.
OwnerInv ==
  /\ \A i \in Prompts(pty) : pty[i].c = n
  /\ \A i \in Prompts(chunk) : chunk[i].c = n
  /\ alive => run = IF spc \in {"set_waiting", "write"} \/ (stdin # <<>> /\ shell = "prompt")
                    THEN n - 1 ELSE n
  /\ spc \in {"set_waiting", "write"} => n > 0
  /\ self.pending \in {n, NoCode}
  /\ self.pending = n => run = n /\ shell = "prompt"

\* A prompt is in one place only, and the shell that printed it sits at it.
PromptInv ==
  /\ \A i, j \in Prompts(pty) : i = j
  /\ Prompts(pty) # {} => Prompts(chunk) = {} /\ dpc \notin {"set_pending", "set_event", "set_ready"}
  /\ Prompts(pty) # {} \/ Prompts(chunk) # {} \/ dpc \in {"set_pending", "set_event", "set_ready"}
       => shell = "prompt" /\ stdin = <<>> /\ run = n

\* The drain thread: what it holds at each of its positions.
DrainInv ==
  /\ dpc = "set_pending" => Last(chunk).k = "prompt"
  /\ dpc = "set_ready" => self.state = "init"
  /\ dpc \in {"eof_state", "eof_event", "done"} =>
       ~alive /\ (life = "closed" \/ pty = <<>>)

\* The start-up: nothing but the setup happens before state leaves init.
InitInv ==
  /\ self.state = "init" => spc \in {"start", "poll"} /\ n = 0
  /\ spc = "start" =>
       self.state \in {"init", "terminated"} /\ shell = "boot" /\ stdin = <<>>
  /\ alive /\ shell \in {"boot", "setup"} => self.state = "init"
  /\ tpc \in {"off", "sleep", "done"}
  /\ life = "opening" => spc \notin {"idle", "read_state", "read_event", "read_return",
                                     "close_event", "closed"}
  /\ life = "closed" <=> spc \in {"close_event", "closed"}
  /\ life = "closed" => ~alive

\* When the prompt has arrived, or the session is in a state in which send() will
\* write, no other prompt is on its way.
QuietInv ==
  /\ ~Closing /\ (self.event \/ self.state \in {"ready", "terminated"}) => Quiet
  /\ spc \in QuietPcs => Quiet
  /\ alive /\ spc \in {"clear_pending", "set_waiting", "write"} => ~self.event
  /\ alive /\ spc = "write" => self.state = "waiting"

SafeInv == /\ ShellInv /\ OwnerInv /\ PromptInv /\ DrainInv /\ InitInv /\ QuietInv
           /\ AnswerMatchesCommand
IInv    == TypeInv /\ SafeInv

\* For the refinement of CommandLedger: a live shell whose prompt has been noticed
\* has left its exit code, neither a command that is about to be accepted nor a
\* ready answer finds the state waiting, and a published shell that is ready has
\* its event set.
NoticedInv ==
  /\ alive /\ (self.event \/ dpc = "set_event"
               \/ spc \in {"woken", "set_ready", "take_ready", "return_ready", "read_return"})
       => self.pending = n
  /\ alive /\ spc \in {"clear_buffer", "clear_event", "clear_pending",
                       "take_ready", "return_ready", "read_return"}
       => self.state # "waiting"
  /\ \/ spc \in {"woken", "set_ready", "take_ready", "return_ready", "read_return"}
     \/ spc = "verdict" /\ res.status = "ready"
     \/ life = "open" /\ self.state = "ready" /\ spc \notin {"clear_pending", "set_waiting"}
     => self.event
  /\ spc \in {"start", "poll"} => life = "opening"

\* For what becomes of output.  Where the text is that has left the shell and has
\* not reached the buffer, once the drain thread has looked at its last chunk.
Ended    == dpc \in {"eof_state", "eof_event", "done"}
OnTheWay == Owners(pty) \cup (IF dpc = "parse" THEN Owners(chunk) ELSE {})
                        \cup (IF Ended THEN {} ELSE carry)

\* Where send() is once it has accepted its command, and once it knows it is over.
OverPcs == {"woken", "set_ready", "take_ready", "return_ready",
            "take_terminated", "return_terminated"}
WaitPcs == {"written", "timed_out"} \cup OverPcs

\* A prompt follows the output of its command all the way to the drain thread.
IsOwn(line) == line.k \in {"out", "bg"} /\ line.c = run
OrderInv ==
  shell = "prompt" /\ run # Other =>
    /\ \A i \in DOMAIN pty : IsOwn(pty[i]) => \E j \in Prompts(pty) : j > i
    /\ \A i \in DOMAIN chunk : IsOwn(chunk[i]) =>
         Prompts(pty) # {} \/ \E j \in Prompts(chunk) : j > i
    /\ run \in carry => 
         Ended \/ Prompts(pty) # {} \/ (dpc = "parse" /\ Prompts(chunk) # {})

\* Text in the buffer or on its way is the last command's, or a background job's;
\* before a command starts the buffer holds nothing of the one before.
OnlyOwnInv ==
  /\ run <= n
  /\ shell \in {"boot", "setup"} => run = Other
  /\ spc \in {"set_waiting", "write"} => run < n
  /\ OnTheWay \cup self.buf \subseteq {run, Other}
  /\ spc = "return_ready" => out \subseteq {run, Other}
  /\ alive /\ (run # n \/ spc \in {"clear_event", "clear_pending"})
       => self.buf \subseteq {Other}

\* The whole output of the last command is on its way, buffered or handed out; and
\* when a shell that died in a command has set the event, nothing is on its way.
WholeInv ==
  /\ spc \in WaitPcs => n > 0
  /\ run = n /\ n > 0 /\ shell # "running" =>
       /\ spc \in {"return_ready", "return_terminated"} => n \in out
       /\ spc \notin {"clear_event", "clear_pending"} =>
            n \in self.buf \cup OnTheWay \cup (IF spc \in WaitPcs THEN {} ELSE seen)
  /\ ~Closing /\ (self.event \/ spc \in OverPcs) /\ Running => dpc = "done"

OutputInv == OrderInv /\ OnlyOwnInv /\ WholeInv /\ SendReturnsWholeOutput

\* The start-up again, for an agent that does write stdin: until the setup is written
\* the drain thread has nothing to read, and it makes the shell ready only while the
\* server still waits for that; the init timer never comes to kill.
BootInv ==
  /\ spc = "start" => shell = "boot" /\ stdin = <<>> /\ pty = <<>>
                      /\ dpc \notin {"parse", "set_ready"}
  /\ self.state = "init" => spc \in {"start", "poll"}
  /\ dpc = "set_ready" => self.state = "init"
  /\ tpc \in {"off", "sleep", "done"}

\* Where the server is when it has seen the shell terminated, or is about to; and a
\* terminated shell that no thread is about to give another state.
DeadPcs     == {"idle", "check_terminated", "read_state", "verdict", "close_state",
                "close_kill", "close_event", "closed"}
DeadForGood == self.state = "terminated" /\ spc \in DeadPcs /\ dpc # "set_ready"
=============================================================================
