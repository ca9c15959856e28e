---------------------------- MODULE ShellSession ----------------------------
(***************************************************************************)
(* One persistent shell: the class ShellSession of shell_session.py, from  *)
(* its constructor through the health check of ShellRegistry.open to the   *)
(* close of shell_remove.                                                  *)
(*                                                                         *)
(* Four actors share the attributes of the object:                         *)
(*   - the server thread, which runs every tool call.  The MCP handler     *)
(*     calls SandboxServer.call_tool without awaiting, so one event-loop   *)
(*     thread executes the calls one after the other and _lock is never    *)
(*     contended; it is not modelled;                                      *)
(*   - the drain thread and the init timer thread, which take no lock;     *)
(*   - the shell process behind the terminal.                              *)
(* A step is one access to an attribute that another actor reads or        *)
(* writes, so every interleaving of the threads is a behaviour.            *)
(*                                                                         *)
(* Text is abstracted to whose text it is: commands are numbered, buf is   *)
(* the set of commands whose output sits in _head/_tail, and the terminal  *)
(* carries whole lines.                                                    *)
(***************************************************************************)
EXTENDS Naturals, Sequences

CONSTANTS
  MaxCmds,        \* commands the agent sends, the health check included
  StdinKinds,     \* what write_stdin is called with: "ctrlc" and/or "line"
  MaxStdin,       \* bound on the number of write_stdin calls
  MaxBackground,  \* bound on lines that background jobs print at the prompt
  SlowInit,       \* whether the 10 s deadlines may pass while in init
  Crashes         \* whether the process may exit or its connection may drop

ASSUME ConstantsAssumption ==
  /\ MaxCmds \in Nat \ {0}
  /\ StdinKinds \subseteq {"ctrlc", "line"}
  /\ MaxStdin \in Nat
  /\ MaxBackground \in Nat
  /\ SlowInit \in BOOLEAN
  /\ Crashes \in BOOLEAN

VARIABLES
  self,         \* the attributes: state is _state, event _prompt_event.is_set(),
                \* pending whose exit code _pending_exit_code holds, buf the
                \* commands with output in _head/_tail, reason exit_reason
  spc,          \* where the server thread is
  life,         \* "opening" until the registry publishes the shell_id
  out,          \* the local variable output of send and read
  res,          \* the last result of send or read
  seen,         \* history: the commands whose output some result carried
  n,            \* number of the last command accepted by send
  writes,       \* write_stdin calls so far
  dpc,          \* where the drain thread is
  chunk,        \* the lines of the read the drain thread is working on
  carry,        \* the commands with bytes the drain thread holds back
  after_setup,  \* _init_after_setup
  tpc,          \* where the init timer thread is
  alive,        \* whether the process runs and its streams are connected
  shell,        \* what the shell process is doing, or was when it died
  run,          \* the command it runs or ran last
  stdin,        \* written to the terminal and not yet taken by the shell
  pty,          \* printed on the terminal and not yet read by the drain thread
  bgs           \* background lines so far

callVars  == <<life, out, res, seen, n, writes>>
drainVars == <<dpc, chunk, carry, after_setup>>
shellVars == <<alive, shell, run, stdin, pty, bgs>>
vars      == <<self, spc, callVars, drainVars, tpc, shellVars>>

-----------------------------------------------------------------------------

Cmds   == 1..MaxCmds
NoCode == MaxCmds + 1   \* the exit code None
Other  == 0             \* text that belongs to no command sent with send()
Owner  == Cmds \cup {Other}
Code   == Owner \cup {NoCode}

States  == {"init", "ready", "waiting", "terminated"}
Line    == [k : {"setup_ok", "out", "bg", "prompt"}, c : Owner]
Input   == [k : {"setup", "cmd", "ctrlc", "line"}, c : Owner]
Results == [op : {"none", "send", "read"}, status : States \cup {"none", "error"},
            cmd : Owner, code : Code, out : SUBSET Owner]
Session == [state : States, event : BOOLEAN, pending : Code, buf : SUBSET Owner,
            reason : {"unknown", "init_timeout", "broken_pipe", "exit", "signal"}]

Holds(lines, k) == \E i \in DOMAIN lines : lines[i].k = k
Owners(lines)   == {lines[i].c : i \in {j \in DOMAIN lines : lines[j].k \in {"out", "bg"}}}
Last(lines)     == lines[Len(lines)]
Front(lines)    == SubSeq(lines, 1, Len(lines) - 1)

\* Slip: the prompt has to end the line.
Found_AtEnd(lines) == {i \in DOMAIN lines : lines[i].k = "prompt" /\ i = Len(lines)}

\* The prompts that a search of the last line only finds.  A prompt ends without a newline,
\* so what a background job prints next continues its line.
Found(lines) ==
  {i \in DOMAIN lines : /\ lines[i].k = "prompt"
                        /\ i = Len(lines) \/ (i + 1 = Len(lines) /\ Last(lines).k = "bg")}

Init ==
  /\ self = [state |-> "init", event |-> FALSE, pending |-> NoCode, buf |-> {},
             reason |-> "unknown"]
  /\ spc = "start" /\ life = "opening" /\ out = {} /\ seen = {} /\ n = 0
  /\ res = [op |-> "none", status |-> "none", cmd |-> Other, code |-> NoCode,
            out |-> {}]
  /\ writes = 0
  /\ dpc = "read" /\ chunk = <<>> /\ carry = {} /\ after_setup = FALSE
  /\ tpc = "off"
  /\ alive = TRUE /\ shell = "boot" /\ run = Other
  /\ stdin = <<>> /\ pty = <<>> /\ bgs = 0

-----------------------------------------------------------------------------
(* The server thread.  Its frames for the drain thread, and for the timer  *)
(* and the process where a step leaves them alone, are added by Server.    *)

\* _process.stdin.write and flush.  Once the process or its connection is gone
\* they raise BrokenPipeError or OSError, or the bytes still vanish in a pipe
\* or a socket whose other end has just closed.
WriteOK(input) ==
  /\ stdin' = IF alive THEN Append(stdin, input) ELSE stdin
  /\ UNCHANGED <<alive, shell, run, pty, bgs>>
WriteFails == ~alive /\ UNCHANGED shellVars

Step(from, to, attrs) ==
  /\ spc = from /\ spc' = to
  /\ self' = attrs
  /\ UNCHANGED callVars

\* The result goes to the health check, or through the tool call to the agent.
Return(from, op, status, code, o, attrs) ==
  /\ spc = from
  /\ spc' = IF life = "opening" THEN "verdict" ELSE "idle"
  /\ res' = [op |-> op, status |-> status, cmd |-> n, code |-> code, out |-> o]
  /\ seen' = seen \cup o
  /\ out' = {}
  /\ self' = attrs
  /\ UNCHANGED <<life, n, writes>>

TakeOutput(from, to) ==
  /\ spc = from /\ spc' = to
  /\ out' = self.buf
  /\ UNCHANGED <<self, life, res, seen, n, writes>>

\* _start: the drain thread runs; write the prompt setup, start the timer.
StartSetup ==
  \/ /\ Step("start", "poll", self)
     /\ WriteOK([k |-> "setup", c |-> Other])
     /\ tpc' = "sleep"
  \/ /\ Step("start", "poll", [self EXCEPT !.state = "terminated"])
     /\ WriteFails
     /\ UNCHANGED tpc

\* wait_until_ready: left when the state is no longer init, or at the deadline.
WaitUntilReady ==
  /\ self.state # "init" \/ SlowInit
  /\ Step("poll", "check_terminated", self)

\* The agent sends its next command to an open shell.
BeginSend ==
  /\ life = "open" /\ n < MaxCmds
  /\ Step("idle", "check_terminated", self)

\* The tests of _state at the head of send() are three reads of it.
Check(at, bad, next) ==
  IF self.state = bad
  THEN Return(at, "send", "error", NoCode, {}, self)
  ELSE Step(at, next, self)

\* Slip: a busy shell is not refused.
SendChecks_NoWaiting == \/ Check("check_terminated", "terminated", "check_init")
                        \/ Check("check_init", "init", "check_waiting")
                        \/ Step("check_waiting", "clear_buffer", self)

SendChecks == \/ Check("check_terminated", "terminated", "check_init")
              \/ Check("check_init", "init", "check_waiting")
              \/ Check("check_waiting", "waiting", "clear_buffer")

\* Slips: what the last command left in an attribute is not reset.
SendClearBuffer_Kept == Step("clear_buffer", "clear_event", self)
SendClearEvent_Kept  == Step("clear_event", "clear_pending", self)
SendClearPending_Kept ==
  /\ spc = "clear_pending" /\ spc' = "set_waiting"
  /\ n' = n + 1
  /\ UNCHANGED <<self, life, out, res, seen, writes>>

SendClearBuffer == Step("clear_buffer", "clear_event", [self EXCEPT !.buf = {}])

SendClearEvent ==
  Step("clear_event", "clear_pending", [self EXCEPT !.event = FALSE])

\* _pending_exit_code = None; _last_command = command
SendClearPending ==
  /\ spc = "clear_pending" /\ spc' = "set_waiting"
  /\ self' = [self EXCEPT !.pending = NoCode]
  /\ n' = n + 1
  /\ UNCHANGED <<life, out, res, seen, writes>>

SendSetWaiting ==
  Step("set_waiting", "write", [self EXCEPT !.state = "waiting"])

\* Slip: the reason is assigned to the state.
SendWrite_Swapped ==
  \/ /\ Step("write", "written", self)
     /\ WriteOK([k |-> "cmd", c |-> n])
  \/ /\ Return("write", "send", "terminated", NoCode, {},
               [self EXCEPT !.state = "broken_pipe", !.reason = "terminated"])
     /\ WriteFails

SendWrite ==
  \/ /\ Step("write", "written", self)
     /\ WriteOK([k |-> "cmd", c |-> n])
  \/ /\ Return("write", "send", "terminated", NoCode, {},
               [self EXCEPT !.state = "terminated", !.reason = "broken_pipe"])
     /\ WriteFails

\* wait=False returns at once; the health check always waits.
SendNoWait ==
  /\ life = "open"
  /\ Return("written", "send", "waiting", NoCode, {}, self)

\* Slip: the wait has no timeout.
SendWait_Forever == self.event /\ Step("written", "woken", self)

\* The tool's schema asks for an integer as timeout; None, outside it, would wait for ever.
SendWait ==
  \/ ~self.event /\ Step("written", "timed_out", self)
  \/ self.event /\ Step("written", "woken", self)

\* Slip: a timeout makes the shell ready again.
SendTimedOut_Ready ==
  Return("timed_out", "send", "waiting", NoCode, self.buf, [self EXCEPT !.state = "ready"])

\* Slip: a timeout resets the event, as a new command does.
SendTimedOut_Resets ==
  Return("timed_out", "send", "waiting", NoCode, self.buf, [self EXCEPT !.event = FALSE])

SendTimedOut == Return("timed_out", "send", "waiting", NoCode, self.buf, self)

\* The test of _state after the wait, outside the lock.
SendWoken ==
  Step("woken", IF self.state = "terminated" THEN "take_terminated" ELSE "set_ready",
       self)

SendSetReady ==
  Step("set_ready", "take_ready", [self EXCEPT !.state = "ready"])

\* _get_buffered_output, then _clear_buffer and the result; a ready answer
\* reads _pending_exit_code last.
SendFinish ==
  \/ TakeOutput("take_terminated", "return_terminated")
  \/ TakeOutput("take_ready", "return_ready")
  \/ Return("return_terminated", "send", "terminated", NoCode, out,
            [self EXCEPT !.buf = {}])
  \/ Return("return_ready", "send", "ready", self.pending, out,
            [self EXCEPT !.buf = {}])

\* The end of _health_check: a shell that is terminated or did not answer
\* ready is closed and never published.
HealthVerdict ==
  /\ spc = "verdict"
  /\ IF self.state # "terminated" /\ res.status = "ready"
     THEN spc' = "idle" /\ life' = "open"
     ELSE spc' = "close_state" /\ UNCHANGED life
  /\ UNCHANGED <<self, out, res, seen, n, writes>>

\* read(): the output is taken before _state and _prompt_event are looked at.
ReadTakeOutput == life = "open" /\ TakeOutput("idle", "read_state")

\* Slip: read() of a dead shell goes on to look at the event.
ReadState_Unchecked == Step("read_state", "read_event", self)

\* The test for init is not repeated: a published shell has left it for good.
ReadState ==
  IF self.state = "terminated"
  THEN Return("read_state", "read", "terminated", NoCode, out, self)
  ELSE Step("read_state", "read_event", self)

ReadEvent ==
  IF self.event
  THEN Step("read_event", "read_return", [self EXCEPT !.state = "ready"])
  ELSE Return("read_event", "read", self.state, NoCode, out, self)

ReadReturn == Return("read_return", "read", "ready", self.pending, out, self)

\* write_stdin(): no lock; refused only when the shell is terminated.
WriteStdin ==
  /\ spc = "idle" /\ life = "open" /\ writes < MaxStdin
  /\ self.state # "terminated"
  /\ \E k \in StdinKinds :
       \/ WriteOK([k |-> k, c |-> Other]) /\ UNCHANGED self
       \/ WriteFails /\ self' = [self EXCEPT !.state = "terminated"]
  /\ writes' = writes + 1
  /\ UNCHANGED <<spc, life, out, res, seen, n>>

\* close(): shell_remove, or the registry refusing an unhealthy shell.
CloseState ==
  \/ /\ life = "open"
     /\ Step("idle", "close_kill", [self EXCEPT !.state = "terminated"])
  \/ Step("close_state", "close_kill", [self EXCEPT !.state = "terminated"])

\* Kill the process and close both streams: a read of the drain thread fails.
CloseKill ==
  /\ spc = "close_kill" /\ spc' = "close_event"
  /\ life' = "closed"
  /\ alive' = FALSE
  /\ UNCHANGED <<self, out, res, seen, n, writes, shell, run, stdin, pty, bgs>>

CloseEvent == Step("close_event", "closed", [self EXCEPT !.event = TRUE])

Send == \/ BeginSend \/ SendChecks \/ SendClearBuffer \/ SendClearEvent
        \/ SendClearPending \/ SendSetWaiting \/ SendNoWait \/ SendWait
        \/ SendTimedOut \/ SendWoken \/ SendSetReady \/ SendFinish
Read == ReadTakeOutput \/ ReadState \/ ReadEvent \/ ReadReturn

Server ==
  /\ \/ StartSetup
     \/ (SendWrite \/ WriteStdin \/ CloseKill) /\ UNCHANGED tpc
     \/ (WaitUntilReady \/ HealthVerdict \/ Send \/ Read \/ CloseState \/ CloseEvent)
        /\ UNCHANGED <<tpc, shellVars>>
  /\ UNCHANGED drainVars

-----------------------------------------------------------------------------
(* The drain thread.                                                       *)

\* os.read returns any non-empty prefix of what the terminal holds.
DrainRead ==
  /\ dpc = "read" /\ life # "closed"
  /\ \E k \in 1..Len(pty) :
       /\ chunk' = SubSeq(pty, 1, k)
       /\ pty' = SubSeq(pty, k + 1, Len(pty))
  /\ dpc' = "parse"
  /\ UNCHANGED <<self, carry, after_setup, alive, shell, run, stdin, bgs>>

\* The branch on _state = init: look for SETUP_OK, then for a prompt anywhere.
DrainInit ==
  /\ dpc = "parse" /\ self.state = "init"
  /\ after_setup' = (after_setup \/ Holds(chunk, "setup_ok"))
  /\ self' = IF Holds(chunk, "setup_ok") THEN [self EXCEPT !.buf = {}] ELSE self
  /\ dpc' = IF after_setup' /\ Holds(chunk, "prompt") THEN "set_ready" ELSE "read"
  /\ chunk' = <<>>
  /\ UNCHANGED <<carry, shellVars>>

DrainSetReady ==
  /\ dpc = "set_ready" /\ dpc' = "read"
  /\ self' = [self EXCEPT !.buf = {}, !.state = "ready"]
  /\ after_setup' = FALSE
  /\ UNCHANGED <<chunk, carry, shellVars>>

\* Only the last line is searched for a prompt; what follows it there is dropped.
DrainPrompt ==
  /\ dpc = "parse" /\ self.state # "init"
  /\ \E i \in Found(chunk) :
       /\ chunk' = SubSeq(chunk, 1, i)
       /\ self' = [self EXCEPT !.buf = @ \cup carry \cup Owners(chunk')]
  /\ carry' = {}
  /\ dpc' = "set_pending"
  /\ UNCHANGED <<after_setup, shellVars>>

\* Without one, all but the last bytes is stored; these wait for the next read.
DrainStore ==
  /\ dpc = "parse" /\ self.state # "init" /\ Found(chunk) = {}
  /\ self' = [self EXCEPT !.buf = @ \cup carry \cup Owners(Front(chunk))]
  /\ carry' = Owners(<<Last(chunk)>>)
  /\ chunk' = <<>>
  /\ dpc' = "read"
  /\ UNCHANGED <<after_setup, shellVars>>

DrainSetPending ==
  /\ dpc = "set_pending" /\ dpc' = "set_event"
  /\ self' = [self EXCEPT !.pending = Last(chunk).c]
  /\ chunk' = <<>>
  /\ UNCHANGED <<carry, after_setup, shellVars>>

DrainSetEvent ==
  /\ \/ dpc = "set_event" /\ dpc' = "read"
     \/ dpc = "eof_event" /\ dpc' = "done"
  /\ self' = [self EXCEPT !.event = TRUE]
  /\ UNCHANGED <<chunk, carry, after_setup, shellVars>>

\* Slip: the bytes held back are dropped at the end of file.
DrainEof_DropsCarry ==
  /\ dpc = "read" /\ dpc' = "eof_state"
  /\ (~alive /\ pty = <<>>) \/ life = "closed"
  /\ \E r \in {self.reason, "exit", "signal"} : self' = [self EXCEPT !.reason = r]
  /\ UNCHANGED <<chunk, carry, after_setup, shellVars>>

\* End of file, or the stream was closed under the read.  poll() may still answer None, and
\* then exit_reason keeps its value; that of a container shell asks the daemon and may raise,
\* and then the thread ends here.
DrainEof ==
  /\ dpc = "read"
  /\ (~alive /\ pty = <<>>) \/ life = "closed"
  /\ \/ \E r \in {self.reason, "exit", "signal"} :
          self' = [self EXCEPT !.buf = @ \cup carry, !.reason = r] /\ dpc' = "eof_state"
     \/ self' = [self EXCEPT !.buf = @ \cup carry] /\ dpc' = "done"
  /\ UNCHANGED <<chunk, carry, after_setup, shellVars>>

DrainSetTerminated ==
  /\ dpc = "eof_state" /\ dpc' = "eof_event"
  /\ self' = [self EXCEPT !.state = "terminated"]
  /\ UNCHANGED <<chunk, carry, after_setup, shellVars>>

Drain ==
  /\ \/ DrainRead \/ DrainInit \/ DrainSetReady \/ DrainPrompt \/ DrainStore
     \/ DrainSetPending \/ DrainSetEvent \/ DrainEof \/ DrainSetTerminated
  /\ UNCHANGED <<spc, callVars, tpc>>

-----------------------------------------------------------------------------
(* The init timer thread: _init_timeout_kill.                              *)

TimerStep(from, to, attrs) ==
  /\ tpc = from /\ tpc' = to
  /\ self' = attrs
  /\ UNCHANGED shellVars

TimerCheck ==
  /\ SlowInit \/ self.state # "init"
  /\ TimerStep("sleep", IF self.state = "init" THEN "set_reason" ELSE "done", self)

TimerExpire ==
  \/ TimerStep("set_reason", "set_state", [self EXCEPT !.reason = "init_timeout"])
  \/ TimerStep("set_state", "set_event", [self EXCEPT !.state = "terminated"])
  \/ TimerStep("set_event", "kill", [self EXCEPT !.event = TRUE])

TimerKill ==
  /\ tpc = "kill" /\ tpc' = "done"
  /\ alive' = FALSE
  /\ UNCHANGED <<self, shell, run, stdin, pty, bgs>>

Timer ==
  /\ TimerCheck \/ TimerExpire \/ TimerKill
  /\ UNCHANGED <<spc, callVars, drainVars>>

-----------------------------------------------------------------------------
(* The shell process.                                                      *)

Takes(k) == stdin # <<>> /\ Head(stdin).k = k /\ stdin' = Tail(stdin)
Prints(k, c) == pty' = Append(pty, [k |-> k, c |-> c])
Running == shell \in {"running", "printed"}

\* The setup line prints SETUP_OK, then comes the new prompt.
ShellSetup ==
  \/ /\ shell = "boot" /\ shell' = "setup"
     /\ Takes("setup")
     /\ Prints("setup_ok", Other)
     /\ UNCHANGED <<run, bgs>>
  \/ /\ shell = "setup" /\ shell' = "prompt"
     /\ Prints("prompt", Other)
     /\ UNCHANGED <<run, stdin, bgs>>

\* At its prompt the shell takes a line, however it was written.
ShellTake ==
  /\ shell = "prompt" /\ shell' = "running"
  /\ Takes("cmd") \/ Takes("line")
  /\ run' = Head(stdin).c
  /\ UNCHANGED <<pty, bgs>>

ShellPrint ==
  /\ shell = "running" /\ shell' = "printed"
  /\ Prints("out", run)
  /\ UNCHANGED <<run, stdin, bgs>>

ShellFinish ==
  /\ shell = "printed" /\ shell' = "prompt"
  /\ Prints("prompt", run)
  /\ UNCHANGED <<run, stdin, bgs>>

\* Ctrl-C ends a running command; at the prompt it prints another prompt.
ShellCtrlC ==
  /\ Running \/ shell = "prompt"
  /\ shell' = "prompt"
  /\ Takes("ctrlc")
  /\ Prints("prompt", IF Running THEN run ELSE Other)
  /\ UNCHANGED <<run, bgs>>

\* The running program reads the line that write_stdin fed it.
ShellFeed ==
  /\ Running
  /\ Takes("line")
  /\ UNCHANGED <<shell, run, pty, bgs>>

\* A job that an earlier command started with & prints while the shell sits at its
\* prompt; the health check's command starts none.
ShellBackground ==
  /\ shell = "prompt" /\ run > 1 /\ bgs < MaxBackground
  /\ Prints("bg", Other)
  /\ bgs' = bgs + 1
  /\ UNCHANGED <<shell, run, stdin>>

\* exit, a signal, or the connection to the remote process dropping.
ShellDies ==
  /\ Crashes
  /\ alive' = FALSE
  /\ UNCHANGED <<shell, run, stdin, pty, bgs>>

ShellWork == /\ alive /\ UNCHANGED alive
             /\ ShellSetup \/ ShellTake \/ ShellPrint \/ ShellFinish
             /\ UNCHANGED <<self, spc, callVars, drainVars, tpc>>
Shell == \/ ShellWork
         \/ /\ alive
            /\ \/ (ShellCtrlC \/ ShellFeed \/ ShellBackground) /\ UNCHANGED alive
               \/ ShellDies
            /\ UNCHANGED <<self, spc, callVars, drainVars, tpc>>

-----------------------------------------------------------------------------

Next == Server \/ Drain \/ Timer \/ Shell

Spec == Init /\ [][Next]_vars

\* The threads keep running, and a call that has begun is carried on; the next
\* call of the agent, its stdin and the death of the process are never owed.
\* The shell owes nothing either: it may hang while it boots or while a command runs.
Fairness == /\ WF_vars(Drain)
            /\ WF_vars(Timer)
            /\ WF_vars(spc # "idle" /\ Server)

FairSpec == Spec /\ Fairness

-----------------------------------------------------------------------------

SPcs == {"start", "poll", "check_terminated", "check_init", "check_waiting",
         "clear_buffer", "clear_event", "clear_pending", "set_waiting", "write",
         "written", "timed_out", "woken", "set_ready", "take_ready",
         "return_ready", "take_terminated", "return_terminated", "verdict",
         "idle", "read_state", "read_event", "read_return",
         "close_state", "close_kill", "close_event", "closed"}
DPcs == {"read", "parse", "set_ready", "set_pending", "set_event", "eof_state",
         "eof_event", "done"}
TPcs == {"off", "sleep", "set_reason", "set_state", "set_event", "kill", "done"}

SelfType  == self \in Session
CallType  == /\ spc \in SPcs /\ life \in {"opening", "open", "closed"}
             /\ out \subseteq Owner /\ seen \subseteq Owner /\ res \in Results
             /\ n \in 0..MaxCmds /\ writes \in 0..MaxStdin
DrainType == /\ dpc \in DPcs /\ chunk \in Seq(Line) /\ carry \subseteq Owner
             /\ tpc \in TPcs
ShellType == /\ shell \in {"boot", "setup", "prompt", "running", "printed"}
             /\ run \in Owner /\ stdin \in Seq(Input) /\ pty \in Seq(Line)
             /\ bgs \in 0..MaxBackground
FlagType  == alive \in BOOLEAN /\ after_setup \in BOOLEAN

\* The attributes and the thread positions keep the values the code gives them.
TypeOK == SelfType /\ CallType /\ DrainType /\ ShellType /\ FlagType

\* send() lets no second command into a shell that has not finished the first:
\* at most one is queued or running.  The refusal on _state = waiting relies on
\* nobody leaving waiting before the command's own prompt.
SingleInFlight ==
  alive => \A i, j \in DOMAIN stdin :
             stdin[i].k = "cmd" /\ stdin[j].k = "cmd" => i = j /\ ~Running

\* A ready answer, of send or of read, carries the exit code of the command it
\* is about, or none; never the code of another command.
AnswerMatchesCommand ==
  res.status = "ready" => res.code \in {res.cmd, NoCode}

\* The ready answer of send(wait=True) holds the whole output of its command and,
\* background lines aside, of no other: the drain thread stores before it sets the
\* event, and send clears the buffer before it writes.
SendReturnsWholeOutput ==
  res.op = "send" /\ res.status = "ready" /\ res.code = res.cmd
    => res.out \ {Other} = {res.cmd}

\* Between two calls, ready means that the live shell sits at its prompt.
ReadyMeansAtPrompt ==
  self.state = "ready" /\ spc = "idle" /\ alive => ~Running /\ stdin = <<>>

\* The last output survives the shell: once the drain thread has ended, what the
\* last command printed before the death is in the buffer or was handed out.
LastOutputPreserved ==
  dpc = "done" /\ spc = "idle" /\ run = n /\ n > 0 /\ shell # "running"
    => n \in self.buf \cup seen

\* A shell that an agent can see terminated between two calls never comes back.
TerminatedOnceSeen ==
  [](self.state = "terminated" /\ spc = "idle" => [](self.state = "terminated"))

\* A finished command is noticed, although a line of a background job may follow its
\* prompt: _drain searches the last line, which is still the prompt's.  Two lines hide it.
CompletionNoticed ==
  shell = "prompt" /\ run = n /\ n > 0
    ~> self.event \/ self.state = "terminated" \/ run # n \/ shell # "prompt" \/ bgs > 1

\* Every call comes to its end, also when the shell hangs while it boots or while
\* it runs a command: the server has one thread for all tool calls.
CallReturns == spc \notin {"idle", "closed"} ~> spc \in {"idle", "closed"}

\* The session seen from outside: text, threads and terminal are left out.
Ledger == INSTANCE CommandLedger WITH
  phase   <- IF ~alive THEN "dead" ELSE IF spc = "close_kill" THEN "closing" ELSE "alive",
  sent    <- n,
  done    <- IF Running THEN run - 1 ELSE run,
  waiting <- alive /\ (self.state = "waiting" \/ spc = "set_waiting"),
  answer  <- IF res.status = "ready" THEN <<res.cmd, res.code>> ELSE <<>>

\* The session keeps the promises of CommandLedger: one command at a time, and
\* an exit code only for a command that the shell has finished.
ImplementsLedger == Ledger!Spec
=============================================================================
