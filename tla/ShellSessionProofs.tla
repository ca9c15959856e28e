------------------------- MODULE ShellSessionProofs -------------------------
(***************************************************************************)
(* Proofs about ShellSession: type correctness for all constants; for a    *)
(* shell that boots in time, that termination is for good; and, without    *)
(* stdin writes, for every number of commands and background lines and     *)
(* with crashes, the safety of the protocol (IInv), what becomes of the    *)
(* output (OutputInv), and that the session implements CommandLedger.      *)
(***************************************************************************)
EXTENDS ShellSessionInv, TLAPS

LEMMA Assumptions ==
  /\ MaxCmds \in Nat \ {0} /\ MaxStdin \in Nat /\ MaxBackground \in Nat
  /\ StdinKinds \subseteq {"ctrlc", "line"}
  BY ConstantsAssumption DEF ConstantsAssumption

USE Assumptions DEF Cmds, NoCode, Other, Owner, Code, States

-----------------------------------------------------------------------------
(* Types.                                                                  *)

LEMMA TypeInit == Init => TypeInv
<1> SUFFICES ASSUME Init PROVE TypeInv
  OBVIOUS
<1> USE DEF Init
<1>1. SelfType
  BY DEF SelfType, Session
<1>2. CallType
  <2>1. res \in Results
    BY DEF Results
  <2>2. spc \in SPcs /\ n \in 0..MaxCmds /\ writes \in 0..MaxStdin
    BY DEF SPcs
  <2>3. out \subseteq Owner /\ seen \subseteq Owner
    OBVIOUS
  <2> QED
    BY <2>1, <2>2, <2>3 DEF CallType
<1>3. DrainType
  <2>1. dpc \in DPcs /\ tpc \in TPcs /\ carry \subseteq Owner
    BY DEF DPcs, TPcs
  <2>2. chunk \in Seq(Line)
    OBVIOUS
  <2> QED
    BY <2>1, <2>2 DEF DrainType
<1>4. ShellType
  <2>1. stdin \in Seq(Input) /\ pty \in Seq(Line)
    OBVIOUS
  <2> QED
    BY <2>1 DEF ShellType
<1>5. CountInv /\ ChunkInv
  BY DEF CountInv, ChunkInv
<1>6. FlagType
  BY DEF FlagType
<1> QED
  BY <1>1, <1>2, <1>3, <1>4, <1>5, <1>6 DEF TypeInv, TypeOK

\* A step of a call, and its return, keep the types of what they assign.
LEMMA StepType ==
  ASSUME NEW from \in SPcs, NEW to \in SPcs, NEW attrs \in Session,
         CallType, Step(from, to, attrs)
  PROVE  CallType'
  BY DEF CallType, Step, callVars

LEMMA ReturnType ==
  ASSUME NEW from, NEW op \in {"send", "read"},
         NEW status \in States \cup {"error"}, NEW code \in Code,
         NEW o \in SUBSET Owner, NEW attrs,
         CallType, Return(from, op, status, code, o, attrs)
  PROVE  CallType'
<1>1. res' \in Results
  BY DEF CallType, Return, Results
<1>2. spc' \in SPcs
  BY DEF Return, SPcs
<1> QED
  BY <1>1, <1>2 DEF CallType, Return

LEMMA WriteType ==
  ASSUME NEW k \in {"setup", "cmd", "ctrlc", "line"}, NEW c \in Owner,
         ShellType, WriteOK([k |-> k, c |-> c])
  PROVE  ShellType'
<1>1. [k |-> k, c |-> c] \in Input
  BY DEF Input
<1>2. stdin' \in Seq(Input)
  BY <1>1 DEF ShellType, WriteOK
<1> QED
  BY <1>2 DEF ShellType, WriteOK

LEMMA PrintType ==
  ASSUME NEW k \in {"setup_ok", "out", "bg", "prompt"}, NEW c \in Owner,
         pty \in Seq(Line), Prints(k, c)
  PROVE  pty' \in Seq(Line)
<1>1. [k |-> k, c |-> c] \in Line
  BY DEF Line
<1> QED
  BY <1>1 DEF Prints

LEMMA ServerType == TypeInv /\ Server => TypeInv'
<1> SUFFICES ASSUME TypeInv, Server PROVE TypeInv'
  OBVIOUS
<1> USE DEF TypeInv, TypeOK
<1>1. (SelfType /\ CountInv)'
  <2> USE DEF SelfType, CallType, CountInv, Session, SPcs, callVars
  <2>1. CASE StartSetup
    BY <2>1 DEF StartSetup, Step
  <2>2. CASE SendWrite
    BY <2>2 DEF SendWrite, Step, Return
  <2>3. CASE WriteStdin
    BY <2>3 DEF WriteStdin
  <2>4. CASE CloseKill \/ HealthVerdict
    BY <2>4 DEF CloseKill, HealthVerdict
  <2>5. CASE WaitUntilReady \/ BeginSend
    BY <2>5 DEF WaitUntilReady, BeginSend, Step
  <2>11. CASE CloseState \/ CloseEvent
    BY <2>11 DEF CloseState, CloseEvent, Step
  <2>6. CASE SendChecks
    BY <2>6 DEF SendChecks, Check, Step, Return
  <2>7. CASE SendClearBuffer \/ SendClearEvent \/ SendClearPending \/ SendSetWaiting
    BY <2>7 DEF SendClearBuffer, SendClearEvent, SendClearPending, SendSetWaiting, Step
  <2>8. CASE SendNoWait \/ SendWait \/ SendTimedOut \/ SendWoken \/ SendSetReady
    BY <2>8 DEF SendNoWait, SendWait, SendTimedOut, SendWoken, SendSetReady, Step, Return
  <2>9. CASE SendFinish
    BY <2>9 DEF SendFinish, TakeOutput, Return
  <2>10. CASE Read
    BY <2>10 DEF Read, ReadTakeOutput, ReadState, ReadEvent, ReadReturn, TakeOutput,
                 Step, Return
  <2> QED
    BY <2>1, <2>2, <2>3, <2>4, <2>5, <2>6, <2>7, <2>8, <2>9, <2>10, <2>11
    DEF Server, Send
<1>2. CallType'
  <2>0. /\ self \in Session /\ self.buf \in SUBSET Owner /\ self.pending \in Code
        /\ self.state \in States /\ out \in SUBSET Owner /\ NoCode \in Code
        /\ {} \in SUBSET Owner
    BY DEF SelfType, CallType, Session
  <2> USE <2>0
  <2>1. CASE StartSetup \/ WaitUntilReady \/ BeginSend \/ CloseState \/ CloseEvent
    BY <2>1 DEF StartSetup, WaitUntilReady, BeginSend, CloseState, CloseEvent, Step,
                CallType, SPcs, callVars
  <2>2. CASE SendWrite
    <3>1. CASE Step("write", "written", self)
      BY <3>1 DEF Step, CallType, SPcs, callVars
    <3>2. CASE Return("write", "send", "terminated", NoCode, {},
                      [self EXCEPT !.state = "terminated", !.reason = "broken_pipe"])
      BY <3>2, ReturnType
    <3> QED
      BY <2>2, <3>1, <3>2 DEF SendWrite
  <2>3. CASE WriteStdin \/ CloseKill \/ HealthVerdict
    BY <2>3 DEF WriteStdin, CloseKill, HealthVerdict, CallType, SPcs
  <2>4. CASE SendChecks
    <3>1. ASSUME NEW from, NEW bad, NEW to \in SPcs, Check(from, bad, to)
          PROVE  CallType'
      <4>1. CASE Return(from, "send", "error", NoCode, {}, self)
        BY <4>1, ReturnType
      <4>2. CASE Step(from, to, self)
        BY <4>2 DEF Step, CallType, SPcs, callVars
      <4> QED
        BY <3>1, <4>1, <4>2 DEF Check
    <3> QED
      BY <2>4, <3>1 DEF SendChecks, SPcs
  <2>5. CASE SendClearBuffer \/ SendClearEvent \/ SendClearPending \/ SendSetWaiting
    BY <2>5 DEF SendClearBuffer, SendClearEvent, SendClearPending, SendSetWaiting, Step,
                CallType, CountInv, SPcs, callVars
  <2>6. CASE SendNoWait \/ SendTimedOut
    BY <2>6, ReturnType DEF SendNoWait, SendTimedOut
  <2>7. CASE SendWait \/ SendWoken \/ SendSetReady
    BY <2>7 DEF SendWait, SendWoken, SendSetReady, Step, CallType, SPcs, callVars
  <2>8. CASE SendFinish
    <3>1. CASE TakeOutput("take_terminated", "return_terminated")
               \/ TakeOutput("take_ready", "return_ready")
      BY <3>1 DEF TakeOutput, CallType, SPcs
    <3>2. CASE \/ Return("return_terminated", "send", "terminated", NoCode, out,
                         [self EXCEPT !.buf = {}])
               \/ Return("return_ready", "send", "ready", self.pending, out,
                         [self EXCEPT !.buf = {}])
      BY <3>2, ReturnType
    <3> QED
      BY <2>8, <3>1, <3>2 DEF SendFinish
  <2>9. CASE ReadTakeOutput
    BY <2>9 DEF ReadTakeOutput, TakeOutput, CallType, SPcs
  <2>10. CASE ReadState \/ ReadEvent \/ ReadReturn
    <3>1. CASE \/ Step("read_state", "read_event", self)
               \/ Step("read_event", "read_return", [self EXCEPT !.state = "ready"])
      BY <3>1 DEF Step, CallType, SPcs, callVars
    <3>2. CASE \/ Return("read_state", "read", "terminated", NoCode, out, self)
               \/ Return("read_event", "read", self.state, NoCode, out, self)
               \/ Return("read_return", "read", "ready", self.pending, out, self)
      BY <3>2, ReturnType
    <3> QED
      BY <2>10, <3>1, <3>2 DEF ReadState, ReadEvent, ReadReturn
  <2> QED
    BY <2>1, <2>2, <2>3, <2>4, <2>5, <2>6, <2>7, <2>8, <2>9, <2>10 DEF Server, Send, Read
<1>3. DrainType' /\ ChunkInv'
  BY DEF Server, StartSetup, drainVars, DrainType, ChunkInv, TPcs
<1>4. ShellType'
  <2>1. CASE StartSetup
    BY <2>1, WriteType DEF StartSetup, WriteFails, ShellType, shellVars
  <2>2. CASE SendWrite
    BY <2>2, WriteType DEF SendWrite, WriteFails, ShellType, CallType, shellVars
  <2>3. CASE WriteStdin
    BY <2>3, WriteType DEF WriteStdin, WriteFails, ShellType, shellVars
  <2>4. CASE CloseKill
    BY <2>4 DEF CloseKill, ShellType
  <2>5. CASE UNCHANGED shellVars
    BY <2>5 DEF ShellType, shellVars
  <2> QED
    BY <2>1, <2>2, <2>3, <2>4, <2>5 DEF Server
<1>5. FlagType'
  BY DEF Server, StartSetup, SendWrite, WriteStdin, WriteOK, WriteFails, CloseKill,
         drainVars, shellVars, FlagType
<1> QED
  BY <1>1, <1>2, <1>3, <1>4, <1>5

\* What the drain thread reads off the terminal are lines.
LEMMA LineType ==
  ASSUME NEW s \in Seq(Line), s # <<>>
  PROVE  /\ Last(s) \in Line /\ Last(s).c \in Owner
         /\ Owners(s) \subseteq Owner /\ Owners(Front(s)) \subseteq Owner
         /\ Owners(<<Last(s)>>) \subseteq Owner
<1>1. ASSUME NEW t \in Seq(Line), NEW o \in Owners(t) PROVE o \in Owner
  <2>1. PICK i \in DOMAIN t : o = t[i].c
    BY <1>1 DEF Owners
  <2>2. t[i] \in Line
    BY <2>1
  <2> QED
    BY <2>1, <2>2 DEF Line
<1>2. Last(s) \in Line /\ <<Last(s)>> \in Seq(Line) /\ Front(s) \in Seq(Line)
  BY DEF Last, Front
<1>3. Last(s).c \in Owner
  BY <1>2 DEF Line
<1> QED
  BY <1>1, <1>2, <1>3

\* What is left of a chunk once a prompt on its last line was found ends in that prompt.
Trim(s, i, t) ==
  /\ i \in DOMAIN s /\ s[i].k = "prompt"
  /\ t \in Seq(Line) /\ t # <<>> /\ DOMAIN t = 1..i
  /\ \A j \in 1..i : j \in DOMAIN s /\ t[j] = s[j]
  /\ \A j \in DOMAIN s : j \in 1..i \/ j = Len(s)
  /\ Last(t) = s[i]

LEMMA Trimmed ==
  ASSUME NEW s \in Seq(Line), NEW i \in Found(s)
  PROVE  Trim(s, i, SubSeq(s, 1, i))
<1> DEFINE t == SubSeq(s, 1, i)
<1>1. i \in 1..Len(s) /\ s[i].k = "prompt" /\ (i = Len(s) \/ i + 1 = Len(s)) /\ Len(s) \in Nat
  BY DEF Found
<1>2. t \in Seq(Line) /\ Len(t) = i /\ \A j \in 1..i : t[j] = s[j]
  BY <1>1
<1> QED
  BY <1>1, <1>2 DEF Last, Trim

LEMMA DrainTypes == TypeInv /\ Drain => TypeInv'
<1> SUFFICES ASSUME TypeInv, Drain PROVE TypeInv'
  OBVIOUS
<1> USE DEF TypeInv, TypeOK
<1>1. CallType' /\ CountInv'
  BY DEF Drain, callVars, CallType, CountInv
<1>2. SelfType' /\ DrainType' /\ ChunkInv' /\ ShellType'
  <2> USE DEF SelfType, DrainType, Session, DPcs, ChunkInv, ShellType, shellVars, Drain
  <2>1. CASE DrainRead
    <3>1. PICK k \in 1..Len(pty) : /\ chunk' = SubSeq(pty, 1, k)
                                   /\ pty' = SubSeq(pty, k + 1, Len(pty))
      BY <2>1 DEF DrainRead
    <3>2. chunk' \in Seq(Line) /\ chunk' # <<>> /\ pty' \in Seq(Line)
      BY <3>1, SMTT(30)
    <3>3. /\ dpc' = "parse" /\ carry' = carry /\ tpc' = tpc /\ self' = self
          /\ UNCHANGED <<shell, run, stdin, bgs>>
      BY <2>1 DEF DrainRead
    <3>4. ShellType'
      BY <3>2, <3>3
    <3> QED
      BY <3>2, <3>3, <3>4
  <2>2. CASE DrainInit
    <3>1. self' \in Session
      BY <2>2 DEF DrainInit
    <3> QED
      BY <2>2, <3>1 DEF DrainInit
  <2>3. CASE DrainSetReady \/ DrainSetEvent \/ DrainSetTerminated
    BY <2>3 DEF DrainSetReady, DrainSetEvent, DrainSetTerminated
  <2>4. CASE DrainPrompt \/ DrainStore \/ DrainSetPending
    <3>1. chunk # <<>>
      BY <2>4 DEF DrainPrompt, DrainStore, DrainSetPending
    <3>2. /\ Last(chunk).c \in Owner /\ Owners(chunk) \subseteq Owner
          /\ Owners(Front(chunk)) \subseteq Owner
          /\ Owners(<<Last(chunk)>>) \subseteq Owner
      BY <3>1, LineType
    <3>3. CASE DrainPrompt
      <4>1. PICK i \in Found(chunk) :
              /\ chunk' = SubSeq(chunk, 1, i)
              /\ self' = [self EXCEPT !.buf = @ \cup carry \cup Owners(chunk')]
        BY <3>3 DEF DrainPrompt
      <4>2. chunk' \in Seq(Line) /\ chunk' # <<>>
        BY <4>1, Trimmed DEF Trim
      <4>3. Owners(chunk') \subseteq Owner
        BY <4>2, LineType
      <4>4. self' \in Session
        BY <4>1, <4>3
      <4>5. /\ dpc' = "set_pending" /\ carry' = {} /\ tpc' = tpc
            /\ UNCHANGED <<pty, shell, run, stdin, bgs>>
        BY <3>3 DEF DrainPrompt
      <4> QED
        BY <4>2, <4>4, <4>5
    <3>4. CASE DrainStore
      <4>1. self' \in Session
        BY <3>2, <3>4 DEF DrainStore
      <4>2. carry' \subseteq Owner /\ chunk' = <<>> /\ dpc' = "read"
        BY <3>2, <3>4 DEF DrainStore
      <4>3. ShellType' /\ tpc' = tpc
        BY <3>4 DEF DrainStore
      <4> QED
        BY <4>1, <4>2, <4>3
    <3>5. CASE DrainSetPending
      BY <3>1, <3>2, <3>5, SMTT(30) DEF DrainSetPending
    <3> QED
      BY <2>4, <3>3, <3>4, <3>5
  <2>5. CASE DrainEof
    <3>1. \/ \E r \in {self.reason, "exit", "signal"} :
               self' = [self EXCEPT !.buf = @ \cup carry, !.reason = r]
          \/ self' = [self EXCEPT !.buf = @ \cup carry]
      BY <2>5 DEF DrainEof
    <3>2. carry \subseteq Owner /\ self \in Session
      OBVIOUS
    <3>3. self' \in Session
      <4>1. CASE self' = [self EXCEPT !.buf = @ \cup carry]
        BY <3>2, <4>1
      <4>2. ASSUME NEW r \in {self.reason, "exit", "signal"},
                   self' = [self EXCEPT !.buf = @ \cup carry, !.reason = r]
            PROVE  self' \in Session
        BY <3>2, <4>2
      <4> QED
        BY <3>1, <4>1, <4>2
    <3> QED
      BY <2>5, <3>3 DEF DrainEof
  <2> QED
    BY <2>1, <2>2, <2>3, <2>4, <2>5
<1>3. FlagType'
  BY DEF Drain, DrainRead, DrainInit, DrainSetReady, DrainPrompt, DrainStore,
         DrainSetPending, DrainSetEvent, DrainEof, DrainSetTerminated, Holds,
         shellVars, FlagType
<1> QED
  BY <1>1, <1>2, <1>3

LEMMA TimerType == TypeInv /\ Timer => TypeInv'
<1> SUFFICES ASSUME TypeInv, Timer PROVE TypeInv'
  OBVIOUS
<1> USE DEF TypeInv, TypeOK, Timer
<1>1. CallType' /\ CountInv' /\ ChunkInv'
  BY DEF callVars, drainVars, CallType, CountInv, ChunkInv
<1>3. FlagType'
  BY DEF TimerCheck, TimerExpire, TimerStep, TimerKill, drainVars, shellVars, FlagType
<1>2. SelfType' /\ DrainType' /\ ShellType'
  <2> USE DEF SelfType, Session, DrainType, drainVars, TPcs, ShellType, shellVars
  <2>1. CASE TimerCheck \/ TimerExpire
    BY <2>1 DEF TimerCheck, TimerExpire, TimerStep
  <2>2. CASE TimerKill
    BY <2>2 DEF TimerKill
  <2> QED
    BY <2>1, <2>2
<1> QED
  BY <1>1, <1>2, <1>3

LEMMA ShellTypes == TypeInv /\ Shell => TypeInv'
<1> SUFFICES ASSUME TypeInv, Shell PROVE TypeInv'
  OBVIOUS
<1> USE DEF TypeInv, TypeOK
<1>1. (SelfType /\ CallType /\ CountInv /\ DrainType /\ ChunkInv)'
  BY DEF Shell, ShellWork, callVars, drainVars, SelfType, CallType, CountInv, DrainType,
         ChunkInv
<1>3. FlagType'
  BY DEF Shell, ShellWork, ShellDies, drainVars, FlagType
<1>2. ShellType'
  <2> USE DEF ShellType
  <2>1. CASE ShellSetup
    <3>1. stdin' \in Seq(Input)
      <4>1. CASE Takes("setup")
        BY <4>1 DEF Takes
      <4> QED
        BY <2>1, <4>1 DEF ShellSetup
    <3>2. pty' \in Seq(Line)
      BY <2>1, PrintType DEF ShellSetup
    <3> QED
      BY <2>1, <3>1, <3>2 DEF ShellSetup
  <2>2. CASE ShellTake
    <3>1. stdin' \in Seq(Input) /\ Head(stdin) \in Input
      BY <2>2 DEF ShellTake, Takes
    <3>2. run' \in Owner
      BY <2>2, <3>1 DEF ShellTake, Input
    <3> QED
      BY <2>2, <3>1, <3>2 DEF ShellTake
  <2>3. CASE ShellPrint \/ ShellFinish \/ ShellBackground
    <3>1. pty' \in Seq(Line)
      BY <2>3, PrintType DEF ShellPrint, ShellFinish, ShellBackground
    <3> QED
      BY <2>3, <3>1 DEF ShellPrint, ShellFinish, ShellBackground
  <2>4. CASE ShellCtrlC \/ ShellFeed
    <3>1. stdin' \in Seq(Input)
      BY <2>4 DEF ShellCtrlC, ShellFeed, Takes
    <3>2. pty' \in Seq(Line)
      BY <2>4, PrintType DEF ShellCtrlC, ShellFeed
    <3> QED
      BY <2>4, <3>1, <3>2 DEF ShellCtrlC, ShellFeed
  <2>5. CASE ShellDies
    BY <2>5 DEF ShellDies
  <2> QED
    BY <2>1, <2>2, <2>3, <2>4, <2>5 DEF Shell, ShellWork
<1> QED
  BY <1>1, <1>2, <1>3

LEMMA TypeInductive == Spec => []TypeInv
<1>1. TypeInv /\ [Next]_vars => TypeInv'
  <2> SUFFICES ASSUME TypeInv, [Next]_vars PROVE TypeInv'
    OBVIOUS
  <2>1. CASE UNCHANGED vars
    BY <2>1 DEF vars, callVars, drainVars, shellVars, TypeInv, TypeOK, SelfType,
                CallType, DrainType, ShellType, FlagType, CountInv, ChunkInv
  <2> QED
    BY <2>1, ServerType, DrainTypes, TimerType, ShellTypes DEF Next
<1> QED
  BY <1>1, TypeInit, PTL DEF Spec

\* Every attribute, local variable and position of the four actors keeps its
\* type, and the counters their bounds, whatever the constants are.
THEOREM TypeCorrect == Spec => []TypeOK
<1>1. TypeInv => TypeOK
  BY DEF TypeInv
<1> QED
  BY <1>1, TypeInductive, PTL

-----------------------------------------------------------------------------
(* The safety invariant.                                                   *)

LEMMA SafeInit == Init => SafeInv
<1> SUFFICES ASSUME Init PROVE SafeInv
  OBVIOUS
<1> USE DEF Init
<1>1. Prompts(pty) = {} /\ Prompts(chunk) = {}
  BY DEF Prompts
<1>2. ShellInv /\ OwnerInv
  BY <1>1 DEF ShellInv, OwnerInv
<1>3. PromptInv /\ DrainInv
  BY <1>1 DEF PromptInv, DrainInv
<1>4. InitInv /\ QuietInv /\ AnswerMatchesCommand
  BY DEF InitInv, QuietInv, QuietPcs, AnswerMatchesCommand
<1> QED
  BY <1>2, <1>3, <1>4 DEF SafeInv

\* Steps of the server thread that reach neither the process nor the timer.
LEMMA ServerLocalSafe ==
  ASSUME TypeInv, SafeInv, StdinKinds = {}, SlowInit = FALSE,
         WaitUntilReady \/ HealthVerdict \/ Send \/ Read \/ CloseState \/ CloseEvent,
         UNCHANGED <<tpc, shellVars>>, UNCHANGED drainVars
  PROVE  SafeInv'
<1> USE DEF TypeInv, TypeOK, SelfType, CallType, DrainType, ShellType, FlagType,
        CountInv, ChunkInv, Session, SafeInv, ShellInv, OwnerInv, PromptInv, DrainInv,
        InitInv, QuietInv, AnswerMatchesCommand, Quiet, QuietPcs, Closing, Prompts,
        callVars, drainVars, shellVars
<1>1. CASE WaitUntilReady
  BY <1>1, SMTT(30) DEF WaitUntilReady, Step
<1>18. CASE HealthVerdict
  BY <1>18 DEF HealthVerdict
<1>2. CASE SendChecks
  <2>1. CASE Check("check_terminated", "terminated", "check_init")
    <3>1. CASE Return("check_terminated", "send", "error", NoCode, {}, self)
      BY <3>1 DEF Return
    <3>2. CASE Step("check_terminated", "check_init", self)
      BY <3>2 DEF Step
    <3> QED
      BY <2>1, <3>1, <3>2 DEF Check
  <2>2. CASE Check("check_init", "init", "check_waiting")
    <3>1. CASE Return("check_init", "send", "error", NoCode, {}, self)
      BY <3>1 DEF Return
    <3>2. CASE Step("check_init", "check_waiting", self)
      BY <3>2 DEF Step
    <3> QED
      BY <2>2, <3>1, <3>2 DEF Check
  <2>3. CASE Check("check_waiting", "waiting", "clear_buffer")
    <3>1. CASE Return("check_waiting", "send", "error", NoCode, {}, self)
      BY <3>1, SMTT(30) DEF Return
    <3>2. CASE self.state # "waiting" /\ Step("check_waiting", "clear_buffer", self)
      <4>1. Quiet
        BY <3>2 DEF Step
      <4> QED
        BY <3>2, <4>1 DEF Step
    <3> QED
      BY <2>3, <3>1, <3>2 DEF Check
  <2> QED
    BY <1>2, <2>1, <2>2, <2>3 DEF SendChecks
<1>16. CASE BeginSend
  BY <1>16 DEF BeginSend, Step
<1>3. CASE SendClearBuffer \/ SendClearEvent
  BY <1>3, SMTT(30) DEF SendClearBuffer, SendClearEvent, Step
<1>4. CASE SendClearPending
  <2>1. n' = n + 1 /\ n' # NoCode /\ self'.pending = NoCode
    BY <1>4 DEF SendClearPending
  <2>2. OwnerInv'
    BY <1>4, <2>1, SMTT(30) DEF SendClearPending
  <2>3. ShellInv' /\ PromptInv' /\ DrainInv'
    BY <1>4, <2>1 DEF SendClearPending
  <2>4. InitInv' /\ QuietInv' /\ AnswerMatchesCommand'
    BY <1>4, <2>1 DEF SendClearPending
  <2> QED
    BY <2>2, <2>3, <2>4
<1>5. CASE SendSetWaiting
  BY <1>5 DEF SendSetWaiting, Step
<1>6. CASE SendNoWait
  BY <1>6 DEF SendNoWait, Return
<1>17. CASE SendWait
  BY <1>17, SMTT(30) DEF SendWait, Step
<1>7. CASE SendTimedOut \/ SendWoken
  BY <1>7, SMTT(30) DEF SendTimedOut, SendWoken, Return, Step
<1>8. CASE SendSetReady
  BY <1>8 DEF SendSetReady, Step
<1>9. CASE SendFinish
  <2>1. ShellInv' /\ OwnerInv' /\ PromptInv' /\ DrainInv'
    BY <1>9, SMTT(30) DEF SendFinish, TakeOutput, Return
  <2>2. InitInv'
    BY <1>9 DEF SendFinish, TakeOutput, Return
  <2>3. QuietInv'
    BY <1>9 DEF SendFinish, TakeOutput, Return
  <2>4. AnswerMatchesCommand'
    BY <1>9 DEF SendFinish, TakeOutput, Return
  <2> QED
    BY <2>1, <2>2, <2>3, <2>4
<1>10. CASE ReadTakeOutput
  BY <1>10 DEF ReadTakeOutput, TakeOutput
<1>11. CASE ReadState
  <2>1. CASE Return("read_state", "read", "terminated", NoCode, out, self)
    BY <2>1, SMTT(30) DEF Return
  <2>2. CASE Step("read_state", "read_event", self)
    BY <2>2 DEF Step
  <2> QED
    BY <1>11, <2>1, <2>2 DEF ReadState
<1>12. CASE ReadEvent
  <2>1. CASE self.event
    <3>1. Step("read_event", "read_return", [self EXCEPT !.state = "ready"])
      BY <1>12, <2>1 DEF ReadEvent
    <3>2. spc = "read_event" /\ ~Closing /\ Quiet
      BY <2>1, <3>1 DEF Step
    <3> QED
      BY <3>1, <3>2 DEF Step
  <2>2. CASE ~self.event
    <3>1. Return("read_event", "read", self.state, NoCode, out, self)
      BY <1>12, <2>2 DEF ReadEvent
    <3> QED
      BY <3>1 DEF Return
  <2> QED
    BY <2>1, <2>2
<1>13. CASE ReadReturn
  BY <1>13 DEF ReadReturn, Return
<1>14. CASE CloseState
  <2>1. ShellInv' /\ OwnerInv'
    BY <1>14, SMTT(30) DEF CloseState, Step
  <2>2. PromptInv' /\ DrainInv'
    BY <1>14, SMTT(30) DEF CloseState, Step
  <2>3. InitInv' /\ QuietInv' /\ AnswerMatchesCommand'
    BY <1>14 DEF CloseState, Step
  <2> QED
    BY <2>1, <2>2, <2>3
<1>15. CASE CloseEvent
  BY <1>15 DEF CloseEvent, Step
<1> QED
  BY <1>1, <1>2, <1>3, <1>4, <1>5, <1>6, <1>7, <1>8, <1>9, <1>10, <1>11, <1>12, <1>13,
     <1>14, <1>15, <1>16, <1>17, <1>18 DEF Send, Read

LEMMA WriteEmpty ==
  ASSUME NEW input, WriteOK(input), alive => stdin = <<>>
  PROVE  stdin' = IF alive THEN <<input>> ELSE stdin
<1>1. CASE alive
  <2>1. stdin' = Append(<<>>, input)
    BY <1>1 DEF WriteOK
  <2> QED
    BY <1>1, <2>1
<1>2. CASE ~alive
  BY <1>2 DEF WriteOK
<1> QED
  BY <1>1, <1>2

LEMMA ServerSafe ==
  ASSUME TypeInv, SafeInv, StdinKinds = {}, SlowInit = FALSE, Server
  PROVE  SafeInv'
<1> USE DEF TypeInv, TypeOK, SelfType, CallType, DrainType, ShellType, FlagType,
        CountInv, ChunkInv, Session, SafeInv, ShellInv, OwnerInv, PromptInv, DrainInv,
        InitInv, QuietInv, AnswerMatchesCommand, Quiet, QuietPcs, Closing, Prompts,
        callVars, drainVars, shellVars
<1>0. UNCHANGED drainVars
  BY DEF Server
<1>1. CASE StartSetup
  <2>1. CASE Step("start", "poll", [self EXCEPT !.state = "terminated"]) /\ WriteFails
              /\ UNCHANGED tpc
    BY <1>0, <2>1 DEF Step, WriteFails
  <2>2. CASE Step("start", "poll", self) /\ WriteOK([k |-> "setup", c |-> Other])
              /\ tpc' = "sleep"
    <3>1. stdin = <<>> /\ shell = "boot" /\ n = 0
      BY <2>2 DEF Step
    <3>2. stdin' = IF alive THEN <<[k |-> "setup", c |-> Other]>> ELSE <<>>
      BY <2>2, <3>1, WriteEmpty
    <3>3. ShellInv' /\ OwnerInv' /\ PromptInv' /\ DrainInv'
      BY <1>0, <2>2, <3>1, <3>2 DEF Step, WriteOK
    <3>4. InitInv' /\ QuietInv' /\ AnswerMatchesCommand'
      BY <1>0, <2>2, <3>1, <3>2 DEF Step, WriteOK
    <3> QED
      BY <3>3, <3>4
  <2> QED
    BY <1>1, <2>1, <2>2 DEF StartSetup
<1>2. CASE SendWrite /\ UNCHANGED tpc
  <2>1. CASE WriteFails
    <3>1. Return("write", "send", "terminated", NoCode, {},
                 [self EXCEPT !.state = "terminated", !.reason = "broken_pipe"])
          \/ Step("write", "written", self)
      BY <1>2 DEF SendWrite
    <3>2. CASE Step("write", "written", self)
      BY <1>0, <1>2, <2>1, <3>2 DEF Step, WriteFails
    <3>3. CASE Return("write", "send", "terminated", NoCode, {},
                      [self EXCEPT !.state = "terminated", !.reason = "broken_pipe"])
      <4>1. ShellInv' /\ OwnerInv' /\ PromptInv' /\ DrainInv'
        BY <1>0, <1>2, <2>1, <3>3 DEF Return, WriteFails
      <4>2. InitInv' /\ QuietInv' /\ AnswerMatchesCommand'
        BY <1>0, <1>2, <2>1, <3>3 DEF Return, WriteFails
      <4> QED
        BY <4>1, <4>2
    <3> QED
      BY <3>1, <3>2, <3>3
  <2>2. CASE Step("write", "written", self) /\ WriteOK([k |-> "cmd", c |-> n])
    <3>1. Quiet /\ spc = "write" /\ spc' = "written"
      BY <2>2 DEF Step
    <3>2. stdin' = IF alive THEN <<[k |-> "cmd", c |-> n]>> ELSE stdin
      BY <2>2, <3>1, WriteEmpty
    <3>3. ShellInv' /\ OwnerInv' /\ PromptInv' /\ DrainInv'
      BY <1>0, <1>2, <2>2, <3>1, <3>2 DEF Step, WriteOK
    <3>4. InitInv' /\ QuietInv' /\ AnswerMatchesCommand'
      BY <1>0, <1>2, <2>2, <3>1, <3>2 DEF Step, WriteOK
    <3> QED
      BY <3>3, <3>4
  <2> QED
    BY <1>2, <2>1, <2>2 DEF SendWrite
<1>3. CASE WriteStdin
  BY <1>3 DEF WriteStdin
<1>4. CASE CloseKill /\ UNCHANGED tpc
  BY <1>0, <1>4 DEF CloseKill
<1>5. CASE /\ WaitUntilReady \/ HealthVerdict \/ Send \/ Read \/ CloseState \/ CloseEvent
           /\ UNCHANGED <<tpc, shellVars>>
  BY <1>0, <1>5, ServerLocalSafe
<1> QED
  BY <1>1, <1>2, <1>3, <1>4, <1>5 DEF Server

\* A read moves lines from the terminal to the drain thread: no prompt is lost,
\* doubled or moved to another owner.
LEMMA ReadPrompts ==
  ASSUME TypeInv, NEW k \in 1..Len(pty), chunk' = SubSeq(pty, 1, k),
         pty' = SubSeq(pty, k + 1, Len(pty))
  PROVE  /\ \A i \in Prompts(chunk)' : i \in Prompts(pty) /\ i <= k
                                      /\ chunk'[i].c = pty[i].c
         /\ \A i \in Prompts(pty)' : i + k \in Prompts(pty) /\ i \in Nat \ {0}
                                    /\ pty'[i].c = pty[i + k].c
<1>1. pty \in Seq(Line)
  BY DEF TypeInv, TypeOK, ShellType
<1>2. /\ Len(chunk') = k
      /\ \A i \in 1..k : chunk'[i] = pty[i]
  BY <1>1
<1>3. /\ Len(pty') = Len(pty) - k
      /\ \A i \in 1..(Len(pty) - k) : pty'[i] = pty[i + k]
  BY <1>1
<1>4. DOMAIN chunk' = 1..k /\ DOMAIN pty' = 1..(Len(pty) - k) /\ DOMAIN pty = 1..Len(pty)
  BY <1>1, <1>2, <1>3
<1>5. \A i \in Prompts(chunk)' : i \in Prompts(pty) /\ i <= k /\ chunk'[i].c = pty[i].c
  BY <1>2, <1>4 DEF Prompts
<1>6. \A i \in Prompts(pty)' : i + k \in Prompts(pty) /\ i \in Nat \ {0}
                              /\ pty'[i].c = pty[i + k].c
  <2> SUFFICES ASSUME NEW i \in Prompts(pty)'
               PROVE  i + k \in Prompts(pty) /\ i \in Nat \ {0} /\ pty'[i].c = pty[i + k].c
    OBVIOUS
  <2>1. i \in 1..(Len(pty) - k) /\ pty'[i].k = "prompt" /\ Len(pty) \in Nat
    BY <1>1, <1>4 DEF Prompts
  <2>2. i + k \in 1..Len(pty) /\ pty'[i] = pty[i + k]
    BY <1>3, <2>1
  <2> QED
    BY <1>4, <2>1, <2>2 DEF Prompts
<1> QED
  BY <1>5, <1>6

\* Printing anything but a prompt leaves the prompts on the terminal alone.
LEMMA PrintPrompts ==
  ASSUME TypeInv, NEW k \in {"setup_ok", "out", "bg"}, NEW c, Prints(k, c)
  PROVE  \A i : i \in Prompts(pty)' <=> i \in Prompts(pty) /\ pty'[i] = pty[i]
<1>1. pty \in Seq(Line)
  BY DEF TypeInv, TypeOK, ShellType
<1>2. /\ DOMAIN pty' = 1..(Len(pty) + 1) /\ DOMAIN pty = 1..Len(pty)
      /\ \A i \in 1..Len(pty) : pty'[i] = pty[i]
      /\ pty'[Len(pty) + 1].k = k
  BY <1>1 DEF Prints
<1> QED
  BY <1>1, <1>2 DEF Prompts

LEMMA DrainReadSafe ==
  ASSUME TypeInv, SafeInv, DrainRead, UNCHANGED <<spc, callVars, tpc>>
  PROVE  SafeInv'
<1>1. PICK k \in 1..Len(pty) : /\ chunk' = SubSeq(pty, 1, k)
                               /\ pty' = SubSeq(pty, k + 1, Len(pty))
  BY DEF DrainRead
<1>2. /\ \A i \in Prompts(chunk)' : i \in Prompts(pty) /\ i <= k
                                   /\ chunk'[i].c = pty[i].c
      /\ \A i \in Prompts(pty)' : i + k \in Prompts(pty) /\ i \in Nat \ {0}
                                 /\ pty'[i].c = pty[i + k].c
  BY <1>1, ReadPrompts
<1>3. /\ dpc = "read" /\ dpc' = "parse" /\ Prompts(chunk) = {}
      /\ UNCHANGED <<self, spc, life, n, res, tpc, alive, shell, run, stdin>>
  BY DEF DrainRead, callVars, TypeInv, ChunkInv, Prompts
<1>4. ShellInv' /\ InitInv' /\ AnswerMatchesCommand'
  BY <1>3 DEF SafeInv, ShellInv, InitInv, AnswerMatchesCommand
<1>5. OwnerInv'
  BY <1>2, <1>3 DEF SafeInv, OwnerInv
<1>6. PromptInv'
  <2>1. \A i, j \in Prompts(pty) : i = j
    BY DEF SafeInv, PromptInv
  <2>2. \A i, j \in Prompts(pty)' : i = j
    BY <1>2, <2>1
  <2>3. Prompts(pty)' # {} => Prompts(chunk)' = {}
    <3> SUFFICES ASSUME NEW i \in Prompts(pty)', NEW j \in Prompts(chunk)' PROVE FALSE
      OBVIOUS
    <3>1. i + k = j /\ j <= k /\ i \in Nat \ {0} /\ k \in Nat
      BY <1>2, <2>1
    <3> QED
      BY <3>1
  <2>4. Prompts(pty)' # {} \/ Prompts(chunk)' # {} => Prompts(pty) # {}
    BY <1>2
  <2> QED
    BY <1>3, <2>2, <2>3, <2>4 DEF SafeInv, PromptInv
<1>7. DrainInv'
  BY <1>3 DEF SafeInv, DrainInv
<1>8. QuietInv'
  <2>1. Quiet => Quiet'
    BY <1>2, <1>3 DEF Quiet
  <2> QED
    BY <1>3, <2>1 DEF SafeInv, QuietInv, Closing
<1> QED
  BY <1>4, <1>5, <1>6, <1>7, <1>8 DEF SafeInv

LEMMA DrainSafe ==
  ASSUME TypeInv, SafeInv, Drain
  PROVE  SafeInv'
<1> USE DEF TypeInv, TypeOK, SelfType, CallType, DrainType, ShellType, FlagType,
        CountInv, ChunkInv, Session, SafeInv, ShellInv, OwnerInv, PromptInv, DrainInv,
        InitInv, QuietInv, AnswerMatchesCommand, Quiet, QuietPcs, Closing, Prompts,
        callVars, drainVars, shellVars
<1>0. UNCHANGED <<spc, callVars, tpc>>
  BY DEF Drain
<1>1. CASE DrainRead
  BY <1>0, <1>1, DrainReadSafe
<1>2. CASE DrainInit
  <2>1. ShellInv' /\ OwnerInv' /\ DrainInv'
    BY <1>0, <1>2 DEF DrainInit, Holds
  <2>2. PromptInv'
    BY <1>0, <1>2, SMTT(30) DEF DrainInit, Holds
  <2>3. InitInv' /\ QuietInv' /\ AnswerMatchesCommand'
    BY <1>0, <1>2, SMTT(30) DEF DrainInit, Holds
  <2> QED
    BY <2>1, <2>2, <2>3
<1>3. CASE DrainSetReady
  BY <1>0, <1>3 DEF DrainSetReady
<1>4. CASE DrainPrompt
  <2>1. PICK i \in Found(chunk) :
          /\ chunk' = SubSeq(chunk, 1, i)
          /\ self' = [self EXCEPT !.buf = @ \cup carry \cup Owners(chunk')]
    BY <1>4 DEF DrainPrompt
  <2>2. /\ dpc = "parse" /\ dpc' = "set_pending" /\ self.state # "init"
        /\ self'.state = self.state /\ self'.event = self.event
        /\ self'.pending = self.pending
        /\ UNCHANGED <<after_setup, shellVars>>
    BY <1>4, <2>1 DEF DrainPrompt
  <2>3. /\ i \in Prompts(chunk) /\ Last(chunk').k = "prompt"
        /\ \A j \in Prompts(chunk') : j \in Prompts(chunk) /\ chunk'[j] = chunk[j]
    <3>1. /\ i \in DOMAIN chunk /\ chunk[i].k = "prompt" /\ DOMAIN chunk' = 1..i
          /\ \A j \in 1..i : j \in DOMAIN chunk /\ chunk'[j] = chunk[j]
          /\ Last(chunk') = chunk[i]
      <4>1. Trim(chunk, i, SubSeq(chunk, 1, i))
        <5>1. chunk \in Seq(Line)
          OBVIOUS
        <5> QED
          BY <2>1, <5>1, Trimmed
      <4> QED
        BY <2>1, <4>1 DEF Trim
    <3> QED
      BY <3>1
  <2>4. ShellInv' /\ OwnerInv' /\ PromptInv'
    BY <1>0, <2>2, <2>3
  <2>5. DrainInv'
    BY <1>0, <2>2, <2>3
  <2>6. InitInv' /\ QuietInv' /\ AnswerMatchesCommand'
    BY <1>0, <2>2, <2>3
  <2> QED
    BY <2>4, <2>5, <2>6
<1>5. CASE DrainStore
  BY <1>0, <1>5, SMTT(30) DEF DrainStore, Last
<1>6. CASE DrainSetPending
  BY <1>0, <1>6 DEF DrainSetPending, Last
<1>7. CASE DrainSetEvent
  BY <1>0, <1>7 DEF DrainSetEvent
<1>8. CASE DrainEof
  <2>1. /\ dpc = "read" /\ dpc' \in {"eof_state", "done"}
        /\ (~alive /\ pty = <<>>) \/ life = "closed"
        /\ self'.state = self.state /\ self'.event = self.event
        /\ self'.pending = self.pending
        /\ UNCHANGED <<chunk, carry, after_setup, shellVars>>
    BY <1>8 DEF DrainEof
  <2>2. ShellInv' /\ OwnerInv' /\ PromptInv'
    BY <1>0, <2>1
  <2>3. DrainInv'
    BY <1>0, <2>1
  <2>4. InitInv' /\ QuietInv' /\ AnswerMatchesCommand'
    BY <1>0, <2>1
  <2> QED
    BY <2>2, <2>3, <2>4
<1>9. CASE DrainSetTerminated
  BY <1>0, <1>9 DEF DrainSetTerminated
<1> QED
  BY <1>1, <1>2, <1>3, <1>4, <1>5, <1>6, <1>7, <1>8, <1>9 DEF Drain

LEMMA TimerSafe ==
  ASSUME TypeInv, SafeInv, SlowInit = FALSE, Timer
  PROVE  SafeInv'
<1> USE DEF TypeInv, TypeOK, SelfType, CallType, DrainType, ShellType, FlagType,
        CountInv, ChunkInv, Session, SafeInv, ShellInv, OwnerInv, PromptInv, DrainInv,
        InitInv, QuietInv, AnswerMatchesCommand, Quiet, QuietPcs, Closing, Prompts,
        callVars, drainVars, shellVars
<1> USE DEF Timer
<1>1. CASE TimerCheck
  BY <1>1 DEF TimerCheck, TimerStep
<1>2. CASE TimerExpire \/ TimerKill
  BY <1>2 DEF TimerExpire, TimerStep, TimerKill
<1> QED
  BY <1>1, <1>2

LEMMA ShellSafe ==
  ASSUME TypeInv, SafeInv, Shell
  PROVE  SafeInv'
<1> USE DEF TypeInv, TypeOK, SelfType, CallType, DrainType, ShellType, FlagType,
        CountInv, ChunkInv, Session, SafeInv, ShellInv, OwnerInv, PromptInv, DrainInv,
        InitInv, QuietInv, AnswerMatchesCommand, Quiet, QuietPcs, Closing, Prompts,
        callVars, drainVars, shellVars
<1>0. alive /\ UNCHANGED <<self, spc, callVars, drainVars, tpc>>
  BY DEF Shell, ShellWork
<1>1. CASE ShellSetup /\ UNCHANGED alive
  <2>1. CASE shell = "boot"
    <3>1. /\ shell' = "setup" /\ UNCHANGED <<run, alive>>
          /\ stdin # <<>> /\ stdin' = Tail(stdin) /\ Prints("setup_ok", Other)
      BY <1>1, <2>1 DEF ShellSetup, Takes
    <3>2. /\ Prompts(pty) = {} /\ Prompts(chunk) = {} /\ stdin' = <<>>
          /\ dpc \notin {"set_pending", "set_event", "set_ready"}
      BY <2>1, <3>1
    <3>3. Prompts(pty)' = {}
      BY <3>1, <3>2, PrintPrompts
    <3> HIDE DEF Prompts
    <3>4. ShellInv' /\ OwnerInv' /\ PromptInv' /\ DrainInv'
      BY <1>0, <2>1, <3>1, <3>2, <3>3
    <3>5. InitInv' /\ QuietInv' /\ AnswerMatchesCommand'
      BY <1>0, <2>1, <3>1, <3>2, <3>3
    <3> QED
      BY <3>4, <3>5
  <2>2. CASE shell = "setup"
    <3>1. /\ shell' = "prompt" /\ UNCHANGED <<run, stdin, alive>>
          /\ pty' = Append(pty, [k |-> "prompt", c |-> Other])
      BY <1>1, <2>2 DEF ShellSetup, Prints
    <3>2. /\ Prompts(pty) = {} /\ Prompts(chunk) = {} /\ n = 0 /\ run = 0
          /\ dpc \notin {"set_pending", "set_event", "set_ready"} /\ stdin = <<>>
          /\ self.state = "init" /\ ~self.event
      BY <1>0, <2>2
    <3>3. \A i \in Prompts(pty)' : i = Len(pty) + 1 /\ pty'[i].c = 0
      BY <3>1, <3>2
    <3>4. ShellInv' /\ OwnerInv' /\ DrainInv'
      BY <1>0, <2>2, <3>1, <3>2, <3>3
    <3>5. PromptInv'
      BY <1>0, <2>2, <3>1, <3>2, <3>3
    <3>6. InitInv' /\ QuietInv' /\ AnswerMatchesCommand'
      BY <1>0, <2>2, <3>1, <3>2, <3>3
    <3> QED
      BY <3>4, <3>5, <3>6
  <2> QED
    BY <1>1, <2>1, <2>2 DEF ShellSetup
<1>2. CASE ShellTake /\ UNCHANGED alive
  BY <1>0, <1>2 DEF ShellTake, Takes
<1>3. CASE ShellPrint /\ UNCHANGED alive
  BY <1>0, <1>3 DEF ShellPrint, Prints
<1>4. CASE ShellFinish /\ UNCHANGED alive
  BY <1>0, <1>4, SMTT(30) DEF ShellFinish, Prints
<1>5. CASE ShellCtrlC \/ ShellFeed
  BY <1>0, <1>5 DEF ShellCtrlC, ShellFeed, Takes
<1>6. CASE ShellBackground /\ UNCHANGED alive
  <2>1. /\ Prints("bg", Other) /\ shell = "prompt"
        /\ UNCHANGED <<shell, run, stdin, alive>>
    BY <1>6 DEF ShellBackground
  <2>2. \A i : i \in Prompts(pty)' <=> i \in Prompts(pty) /\ pty'[i] = pty[i]
    BY <2>1, PrintPrompts
  <2> HIDE DEF Prompts
  <2>3. ShellInv' /\ OwnerInv' /\ PromptInv'
    BY <1>0, <2>1, <2>2
  <2>4. DrainInv' /\ InitInv' /\ QuietInv' /\ AnswerMatchesCommand'
    BY <1>0, <2>1, <2>2
  <2> QED
    BY <2>3, <2>4
<1>7. CASE ShellDies
  BY <1>0, <1>7 DEF ShellDies
<1> QED
  BY <1>1, <1>2, <1>3, <1>4, <1>5, <1>6, <1>7 DEF Shell, ShellWork

\* IInv is inductive for an agent without stdin and a shell that boots in time.
LEMMA Inductive ==
  ASSUME StdinKinds = {}, SlowInit = FALSE
  PROVE  Spec => []IInv
<1>1. Init => IInv
  BY TypeInit, SafeInit DEF IInv
<1>2. IInv /\ [Next]_vars => IInv'
  <2> SUFFICES ASSUME IInv, [Next]_vars PROVE IInv'
    OBVIOUS
  <2>1. TypeInv /\ SafeInv
    BY DEF IInv
  <2>2. CASE Next
    BY <2>1, <2>2, ServerType, DrainTypes, TimerType, ShellTypes, ServerSafe, DrainSafe,
       TimerSafe, ShellSafe DEF Next, IInv
  <2>3. CASE UNCHANGED vars
    <3>1. TypeInv'
      BY <2>1, <2>3 DEF vars, callVars, drainVars, shellVars, TypeInv, TypeOK, SelfType,
                CallType, DrainType, ShellType, FlagType, CountInv, ChunkInv
    <3>2. SafeInv'
      BY <2>1, <2>3 DEF vars, callVars, drainVars, shellVars, SafeInv, ShellInv, OwnerInv,
                PromptInv, DrainInv, InitInv, QuietInv, AnswerMatchesCommand, Quiet,
                Closing, Prompts
    <3> QED
      BY <3>1, <3>2 DEF IInv
  <2> QED
    BY <2>2, <2>3
<1> QED
  BY <1>1, <1>2, PTL DEF Spec

\* Without stdin writes and with a shell that boots in time, send() never lets a
\* second command into a live shell that has not finished the first, however
\* many commands are sent and whenever the shell dies.
THEOREM OneCommandAtATime ==
  ASSUME StdinKinds = {}, SlowInit = FALSE
  PROVE  Spec => []SingleInFlight
<1>1. IInv => SingleInFlight
  BY DEF IInv, TypeInv, TypeOK, ShellType, SafeInv, ShellInv, SingleInFlight, Running
<1> QED
  BY <1>1, Inductive, PTL

\* Under the same assumptions a ready answer carries the exit code of its own
\* command or none.
THEOREM ReadyAnswerIsOwn ==
  ASSUME StdinKinds = {}, SlowInit = FALSE
  PROVE  Spec => []AnswerMatchesCommand
<1>1. IInv => AnswerMatchesCommand
  BY DEF IInv, SafeInv
<1> QED
  BY <1>1, Inductive, PTL

\* Under the same assumptions a session that says ready between two calls is at
\* its prompt, with nothing left to read.
THEOREM ReadyIsAtPrompt ==
  ASSUME StdinKinds = {}, SlowInit = FALSE
  PROVE  Spec => []ReadyMeansAtPrompt
<1>1. IInv => ReadyMeansAtPrompt
  BY DEF IInv, SafeInv, InitInv, QuietInv, Quiet, Closing, ReadyMeansAtPrompt, Running
<1> QED
  BY <1>1, Inductive, PTL

-----------------------------------------------------------------------------
(* The output of the last command.                                         *)

LEMMA OutputInit == Init => OutputInv
<1> SUFFICES ASSUME Init PROVE OutputInv
  OBVIOUS
<1> USE DEF Init
<1>1. Owners(<<>>) = {}
  BY DEF Owners
<1>2. OnTheWay = {}
  BY <1>1 DEF OnTheWay
<1> QED
  BY <1>2 DEF OutputInv, OrderInv, OnlyOwnInv, WholeInv, SendReturnsWholeOutput, WaitPcs,
              OverPcs, Running

\* While no prompt is on its way, neither is output of a command that is over.
LEMMA QuietOutput ==
  ASSUME IInv, OutputInv, Prompts(pty) = {}, Prompts(chunk) = {}, shell = "prompt", run # 0
  PROVE  run \notin OnTheWay
  BY DEF OutputInv, OrderInv, OnTheWay, Owners, IsOwn

\* When the drain thread has ended, nothing is on its way.
LEMMA DoneOutput ==
  ASSUME IInv, Ended, life # "closed"
  PROVE  OnTheWay = {}
<1>1. pty = <<>> /\ dpc # "parse"
  BY DEF IInv, SafeInv, DrainInv, Ended
<1>2. Owners(pty) = {}
  BY <1>1 DEF Owners
<1> QED
  BY <1>1, <1>2 DEF OnTheWay

\* Once send() knows that its command is over, all its output is in the buffer.
LEMMA OverOutput ==
  ASSUME IInv, OutputInv, spc \in OverPcs, run = n, shell # "running"
  PROVE  n > 0 /\ n \notin OnTheWay
<1>1. n > 0 /\ n \in Nat /\ life # "closed" /\ ~Closing /\ Quiet
  BY DEF IInv, TypeInv, TypeOK, CallType, SafeInv, InitInv, QuietInv, QuietPcs, OutputInv,
         WholeInv, WaitPcs, OverPcs, Closing
<1>2. shell \in {"prompt", "printed"}
  BY <1>1 DEF IInv, TypeInv, TypeOK, ShellType, OutputInv, OnlyOwnInv
<1>3. CASE shell = "prompt"
  BY <1>1, <1>3, QuietOutput DEF Quiet
<1>4. CASE shell = "printed"
  <2>1. Ended
    BY <1>1, <1>4 DEF OutputInv, WholeInv, Running, Ended
  <2> QED
    BY <1>1, <2>1, DoneOutput
<1> QED
  BY <1>1, <1>2, <1>3, <1>4

LEMMA ServerOutput ==
  ASSUME IInv, OutputInv, StdinKinds = {}, Server
  PROVE  OutputInv'
<1>1. UNCHANGED <<pty, run, shell, dpc, chunk, carry>> /\ (alive' => alive)
  <2>1. UNCHANGED drainVars
    BY DEF Server
  <2>2. CASE StartSetup \/ SendWrite \/ WriteStdin
    BY <2>1, <2>2 DEF StartSetup, SendWrite, WriteStdin, WriteOK, WriteFails, drainVars,
                      shellVars
  <2>3. CASE CloseKill
    BY <2>1, <2>3 DEF CloseKill, drainVars
  <2>4. CASE UNCHANGED shellVars
    BY <2>1, <2>4 DEF drainVars, shellVars
  <2> QED
    BY <2>2, <2>3, <2>4 DEF Server
<1>2. OnTheWay' = OnTheWay /\ (Ended' <=> Ended) /\ (Running' <=> Running)
  BY <1>1 DEF OnTheWay, Ended, Running, Owners
<1>3. OrderInv'
  BY <1>1, <1>2 DEF OutputInv, OrderInv, IsOwn, Prompts
<1>4. /\ self \in Session /\ n \in Nat /\ run \in Nat /\ out \subseteq Owner
      /\ n < NoCode /\ seen \subseteq Owner
      /\ self.pending = n => run = n /\ shell = "prompt"
  BY DEF IInv, TypeInv, TypeOK, SelfType, CallType, ShellType, SafeInv, OwnerInv
<1>5. /\ OnlyOwnInv /\ WholeInv /\ SendReturnsWholeOutput
      /\ spc \in OverPcs /\ run = n /\ shell # "running" => n > 0 /\ n \notin OnTheWay
  BY OverOutput DEF OutputInv
<1> HIDE DEF OnTheWay
<1> USE <1>1, <1>2, <1>4, <1>5 DEF OnlyOwnInv, WholeInv, SendReturnsWholeOutput, Session,
        OverPcs, WaitPcs, Closing, callVars, Step, Return, TakeOutput
<1>6. CASE StartSetup
  <2>1. self'.event = self.event /\ self'.buf = self.buf /\ spc' = "poll" /\ spc = "start"
        /\ UNCHANGED callVars
    BY <1>6 DEF StartSetup
  <2> QED
    BY <1>3, <2>1, SMTT(30) DEF OutputInv
<1>17. CASE WaitUntilReady \/ BeginSend
  BY <1>3, <1>17, SMTT(30) DEF WaitUntilReady, BeginSend, OutputInv
<1>18. CASE CloseEvent
  <2>1. life = "closed"
    BY <1>18 DEF CloseEvent, IInv, SafeInv, InitInv
  <2> QED
    BY <1>3, <1>18, <2>1 DEF CloseEvent, OutputInv
<1>7. CASE CloseState \/ CloseKill \/ HealthVerdict
  BY <1>3, <1>7, SMTT(30) DEF CloseState, CloseKill, HealthVerdict, OutputInv, IInv, SafeInv,
     InitInv
<1>8. CASE SendWrite
  <2>1. CASE Step("write", "written", self)
    BY <1>3, <2>1 DEF OutputInv
  <2>2. CASE Return("write", "send", "terminated", NoCode, {},
                    [self EXCEPT !.state = "terminated", !.reason = "broken_pipe"])
    BY <1>3, <2>2 DEF OutputInv
  <2> QED
    BY <1>8, <2>1, <2>2 DEF SendWrite
<1>9. CASE WriteStdin
  BY <1>9 DEF WriteStdin
<1>10. CASE SendChecks
  BY <1>3, <1>10, SMTT(30) DEF SendChecks, Check, OutputInv
<1>11. CASE SendClearBuffer \/ SendClearEvent \/ SendSetWaiting
  BY <1>3, <1>11, SMTT(30) DEF SendClearBuffer, SendClearEvent, SendSetWaiting, OutputInv
<1>12. CASE SendClearPending
  BY <1>3, <1>12, SMTT(30) DEF SendClearPending, OutputInv
<1>13. CASE SendNoWait \/ SendTimedOut
  BY <1>3, <1>13, SMTT(30) DEF SendNoWait, SendTimedOut, OutputInv
<1>14. CASE SendWait \/ SendWoken \/ SendSetReady
  BY <1>3, <1>14, SMTT(30) DEF SendWait, SendWoken, SendSetReady, OutputInv
<1>15. CASE SendFinish
  BY <1>3, <1>15, SMTT(30) DEF SendFinish, OutputInv
<1>16. CASE Read
  BY <1>3, <1>16, SMTT(30) DEF Read, ReadTakeOutput, ReadState, ReadEvent, ReadReturn,
     OutputInv
<1> QED
  BY <1>6, <1>7, <1>8, <1>9, <1>10, <1>11, <1>12, <1>13, <1>14, <1>15, <1>16,
     <1>17, <1>18
  DEF Server, Send

\* A read moves lines from the terminal to the drain thread, in their order.
LEMMA ReadLines ==
  ASSUME TypeInv, NEW k \in 1..Len(pty), chunk' = SubSeq(pty, 1, k),
         pty' = SubSeq(pty, k + 1, Len(pty))
  PROVE  /\ k \in Nat /\ DOMAIN pty \subseteq Nat /\ DOMAIN chunk' \subseteq Nat
         /\ \A i \in DOMAIN chunk' : i \in DOMAIN pty /\ i <= k /\ chunk'[i] = pty[i]
         /\ \A i \in DOMAIN pty' : i \in Nat /\ i + k \in DOMAIN pty /\ pty'[i] = pty[i + k]
         /\ \A i \in DOMAIN pty :
              \/ i <= k /\ i \in DOMAIN chunk' /\ chunk'[i] = pty[i]
              \/ i > k /\ i - k \in DOMAIN pty' /\ pty'[i - k] = pty[i]
<1>1. pty \in Seq(Line)
  BY DEF TypeInv, TypeOK, ShellType
<1>2. /\ DOMAIN chunk' = 1..k /\ DOMAIN pty' = 1..(Len(pty) - k) /\ DOMAIN pty = 1..Len(pty)
      /\ \A i \in 1..k : chunk'[i] = pty[i]
      /\ \A i \in 1..(Len(pty) - k) : pty'[i] = pty[i + k]
  BY <1>1
<1>3. Len(pty) \in Nat /\ k \in Nat /\ k <= Len(pty)
  BY <1>1
<1>4. \A i \in 1..k : i \in DOMAIN pty /\ i <= k /\ chunk'[i] = pty[i]
  BY <1>2, <1>3
<1>5. \A i \in 1..(Len(pty) - k) : i \in Nat /\ i + k \in DOMAIN pty /\ pty'[i] = pty[i + k]
  BY <1>2, <1>3
<1>6. \A i \in 1..Len(pty) :
        \/ i <= k /\ i \in DOMAIN chunk' /\ chunk'[i] = pty[i]
        \/ i > k /\ i - k \in DOMAIN pty' /\ pty'[i - k] = pty[i]
  <2> SUFFICES ASSUME NEW i \in 1..Len(pty), i > k
               PROVE  i - k \in DOMAIN pty' /\ pty'[i - k] = pty[i]
    BY <1>2, <1>3
  <2>1. i - k \in 1..(Len(pty) - k) /\ (i - k) + k = i
    BY <1>3
  <2> QED
    BY <1>2, <2>1
<1> QED
  BY <1>2, <1>3, <1>4, <1>5, <1>6

LEMMA DrainReadOutput ==
  ASSUME IInv, OutputInv, DrainRead, UNCHANGED <<spc, callVars, tpc>>
  PROVE  OutputInv'
<1>1. PICK k \in 1..Len(pty) : /\ chunk' = SubSeq(pty, 1, k)
                               /\ pty' = SubSeq(pty, k + 1, Len(pty))
  BY DEF DrainRead
<1>2. /\ k \in Nat /\ DOMAIN pty \subseteq Nat /\ DOMAIN chunk' \subseteq Nat
      /\ \A i \in DOMAIN chunk' : i \in DOMAIN pty /\ i <= k /\ chunk'[i] = pty[i]
      /\ \A i \in DOMAIN pty' : i \in Nat /\ i + k \in DOMAIN pty /\ pty'[i] = pty[i + k]
      /\ \A i \in DOMAIN pty :
           \/ i <= k /\ i \in DOMAIN chunk' /\ chunk'[i] = pty[i]
           \/ i > k /\ i - k \in DOMAIN pty' /\ pty'[i - k] = pty[i]
  BY <1>1, ReadLines DEF IInv
<1>3. /\ dpc = "read" /\ dpc' = "parse"
      /\ UNCHANGED <<self, spc, life, n, res, out, seen, carry, alive, shell, run, stdin>>
  BY DEF DrainRead, callVars
<1>4. OnTheWay' = OnTheWay
  <2>1. Owners(pty) = Owners(chunk') \cup Owners(pty')
    BY <1>2 DEF Owners
  <2> QED
    BY <1>3, <2>1 DEF OnTheWay, Ended, Owners
<1>5. OrderInv'
  <2> SUFFICES ASSUME shell = "prompt", run # Other PROVE OrderInv'
    BY <1>3 DEF OrderInv
  <2>1. \A i \in DOMAIN pty : IsOwn(pty[i]) => \E j \in Prompts(pty) : j > i
    BY DEF OutputInv, OrderInv
  <2>2. Prompts(pty) # {} => Prompts(pty)' # {} \/ Prompts(chunk)' # {}
    BY <1>2 DEF Prompts
  <2>3. ASSUME NEW i \in DOMAIN pty', pty'[i].k \in {"out", "bg"}, pty'[i].c = run'
        PROVE  \E j \in Prompts(pty)' : j > i
    <3>1. i \in Nat /\ i + k \in DOMAIN pty /\ pty'[i] = pty[i + k] /\ IsOwn(pty[i + k])
      BY <1>2, <1>3, <2>3 DEF IsOwn
    <3>2. PICK j \in Prompts(pty) : j > i + k
      BY <2>1, <3>1
    <3>3. j \in Nat /\ j > k /\ j - k \in DOMAIN pty' /\ pty'[j - k] = pty[j] /\ j - k > i
      BY <1>2, <3>1, <3>2 DEF Prompts
    <3> QED
      BY <3>2, <3>3 DEF Prompts
  <2>4. ASSUME NEW i \in DOMAIN chunk', chunk'[i].k \in {"out", "bg"}, chunk'[i].c = run'
        PROVE  Prompts(pty)' # {} \/ \E j \in Prompts(chunk)' : j > i
    <3>1. i \in DOMAIN pty /\ IsOwn(pty[i])
      BY <1>2, <1>3, <2>4 DEF IsOwn
    <3>2. PICK j \in Prompts(pty) : j > i
      BY <2>1, <3>1
    <3> QED
      BY <1>2, <3>2 DEF Prompts
  <2>5. run \in carry => Prompts(pty) # {}
    BY <1>3 DEF OutputInv, OrderInv, Ended
  <2>6. (\A i \in DOMAIN pty : IsOwn(pty[i]) => \E j \in Prompts(pty) : j > i)'
    BY <2>3 DEF IsOwn
  <2>7. (\A i \in DOMAIN chunk : IsOwn(chunk[i]) =>
           Prompts(pty) # {} \/ \E j \in Prompts(chunk) : j > i)'
    BY <2>4 DEF IsOwn
  <2>8. run' \in carry' => Prompts(pty)' # {} \/ (dpc' = "parse" /\ Prompts(chunk)' # {})
    <3>1. run' = run /\ carry' = carry /\ dpc' = "parse"
      BY <1>3
    <3> QED
      BY <3>1, <2>2, <2>5
  <2> QED
    BY <2>6, <2>7, <2>8 DEF OrderInv
<1>6. OnlyOwnInv' /\ SendReturnsWholeOutput'
  BY <1>3, <1>4 DEF OutputInv, OnlyOwnInv, SendReturnsWholeOutput
<1>7. WholeInv'
  BY <1>3, <1>4 DEF OutputInv, WholeInv, WaitPcs, OverPcs, Closing, Running
<1> QED
  BY <1>5, <1>6, <1>7 DEF OutputInv

\* The drain thread looks at a chunk: all lines but the last, and the last.
LEMMA ChunkLines ==
  ASSUME IInv, chunk # <<>>
  PROVE  /\ Owners(chunk) = Owners(Front(chunk)) \cup Owners(<<Last(chunk)>>)
         /\ Len(chunk) \in DOMAIN chunk /\ Last(chunk) = chunk[Len(chunk)]
         /\ \A i \in DOMAIN chunk : i <= Len(chunk) /\ i \in Nat
         /\ Len(chunk) \in Nat
<1>1. chunk \in Seq(Line) /\ Len(chunk) \in Nat \ {0} /\ DOMAIN chunk = 1..Len(chunk)
  BY DEF IInv, TypeInv, TypeOK, DrainType
<1>2. /\ DOMAIN Front(chunk) = 1..(Len(chunk) - 1)
      /\ \A i \in 1..(Len(chunk) - 1) : Front(chunk)[i] = chunk[i]
  BY <1>1 DEF Front
<1>3. DOMAIN <<Last(chunk)>> = {1} /\ <<Last(chunk)>>[1] = chunk[Len(chunk)]
  BY DEF Last
<1>4. ASSUME NEW m \in Nat \ {0} PROVE 1..m = 1..(m - 1) \cup {m}
  OBVIOUS
<1>5. DOMAIN chunk = DOMAIN Front(chunk) \cup {Len(chunk)}
  BY <1>1, <1>2, <1>4
<1>6. \A i \in DOMAIN Front(chunk) : Front(chunk)[i] = chunk[i]
  BY <1>2
<1>7. Owners(chunk) = Owners(Front(chunk)) \cup Owners(<<Last(chunk)>>)
  <2>1. Owners(chunk) = Owners(Front(chunk)) \cup
          {chunk[i].c : i \in {j \in {Len(chunk)} : chunk[j].k \in {"out", "bg"}}}
    BY <1>5, <1>6 DEF Owners
  <2>2. Owners(<<Last(chunk)>>) =
          {chunk[Len(chunk)].c : i \in {j \in {1} : Last(chunk).k \in {"out", "bg"}}}
    BY <1>3 DEF Owners, Last
  <2> QED
    BY <2>1, <2>2 DEF Last
<1> QED
  BY <1>1, <1>7 DEF Last

LEMMA DrainOutput ==
  ASSUME IInv, OutputInv, Drain
  PROVE  OutputInv'
<1>0. /\ UNCHANGED <<spc, callVars, tpc>>
      /\ self \in Session /\ n \in Nat /\ run \in Nat /\ run <= n
      /\ self.state = "init" => n = 0 /\ run = 0
  BY DEF Drain, IInv, TypeInv, TypeOK, SelfType, CallType, ShellType, SafeInv, InitInv,
         OutputInv, OnlyOwnInv
<1>1. CASE DrainRead
  BY <1>0, <1>1, DrainReadOutput
<1>10. Owners(<<>>) = {} /\ Prompts(<<>>) = {}
  BY DEF Owners, Prompts
<1>2. CASE DrainInit \/ DrainSetReady
  <2>1. /\ self.state = "init" /\ self'.event = self.event /\ self'.buf \subseteq self.buf
        /\ dpc \in {"parse", "set_ready"} /\ dpc' \in {"read", "set_ready"}
        /\ UNCHANGED <<carry, shellVars>>
    BY <1>0, <1>2 DEF DrainInit, DrainSetReady, Session, IInv, SafeInv, DrainInv
  <2>2. OnTheWay' \subseteq OnTheWay
    BY <2>1 DEF OnTheWay, Ended, Owners, shellVars
  <2>3. OrderInv' /\ SendReturnsWholeOutput'
    BY <1>0, <2>1 DEF OrderInv, SendReturnsWholeOutput, callVars, shellVars, OutputInv
  <2>4. OnlyOwnInv' /\ WholeInv'
    BY <1>0, <2>1, <2>2 DEF OnlyOwnInv, WholeInv, callVars, shellVars, OutputInv, Closing,
       Running, WaitPcs, OverPcs
  <2> QED
    BY <2>3, <2>4 DEF OutputInv
<1>3. CASE DrainPrompt
  <2>1. PICK i \in Found(chunk) :
          /\ chunk' = SubSeq(chunk, 1, i)
          /\ self' = [self EXCEPT !.buf = @ \cup carry \cup Owners(chunk')]
    BY <1>3 DEF DrainPrompt
  <2>2. /\ dpc = "parse" /\ dpc' = "set_pending" /\ carry' = {}
        /\ self'.event = self.event /\ self'.buf = self.buf \cup carry \cup Owners(chunk')
        /\ UNCHANGED shellVars
    BY <1>0, <1>3, <2>1 DEF DrainPrompt, Session
  <2>3. /\ i \in DOMAIN chunk /\ chunk[i].k = "prompt"
        /\ DOMAIN chunk' = 1..i /\ \A j \in 1..i : j \in DOMAIN chunk /\ chunk'[j] = chunk[j]
        /\ \A j \in DOMAIN chunk : j \in 1..i \/ j = Len(chunk)
        /\ i \in Nat /\ Len(chunk) \in Nat /\ \A j \in DOMAIN chunk : j <= Len(chunk) /\ j \in Nat
    <3>1. chunk \in Seq(Line)
      BY DEF IInv, TypeInv, TypeOK, DrainType
    <3>2. /\ i \in DOMAIN chunk /\ chunk[i].k = "prompt"
          /\ DOMAIN chunk' = 1..i /\ \A j \in 1..i : j \in DOMAIN chunk /\ chunk'[j] = chunk[j]
          /\ \A j \in DOMAIN chunk : j \in 1..i \/ j = Len(chunk)
      <4>1. Trim(chunk, i, SubSeq(chunk, 1, i))
        BY <2>1, <3>1, Trimmed
      <4> QED
        BY <2>1, <4>1 DEF Trim
    <3>3. Len(chunk) \in Nat /\ DOMAIN chunk = 1..Len(chunk)
      BY <3>1
    <3> QED
      BY <3>2, <3>3
  <2>4. Prompts(pty) = {} /\ run = n /\ shell = "prompt" /\ spc \notin {"clear_event", "clear_pending"}
    <3>1. i \in Prompts(chunk)
      BY <2>3 DEF Prompts
    <3> QED
      BY <3>1 DEF IInv, SafeInv, PromptInv, QuietInv, QuietPcs, Quiet
  <2>5. Owners(chunk') \subseteq Owners(chunk)
    BY <2>3 DEF Owners
  <2>6. run # Other => Owners(chunk) \subseteq Owners(chunk') \cup {Other}
    <3> SUFFICES ASSUME run # Other, NEW j \in DOMAIN chunk, chunk[j].k \in {"out", "bg"},
                        chunk[j].c # Other
                 PROVE  chunk[j].c \in Owners(chunk')
      BY DEF Owners
    <3>1. chunk[j].c = run /\ IsOwn(chunk[j])
      BY <2>2 DEF IsOwn, OutputInv, OnlyOwnInv, OnTheWay, Owners
    <3>2. PICK m \in Prompts(chunk) : m > j
      BY <2>4, <3>1 DEF OutputInv, OrderInv
    <3>3. j \in 1..i
      BY <2>3, <3>2 DEF Prompts
    <3> QED
      BY <2>3, <3>3 DEF Owners
  <2>7. /\ OnTheWay' \cup self'.buf \subseteq OnTheWay \cup self.buf
        /\ n > 0 => (n \in OnTheWay \cup self.buf => n \in OnTheWay' \cup self'.buf)
    <3>1. OnTheWay' = Owners(pty)
      BY <2>2 DEF OnTheWay, Ended, shellVars, Owners
    <3>2. OnTheWay = Owners(pty) \cup Owners(chunk) \cup carry
      BY <2>2 DEF OnTheWay, Ended
    <3> QED
      BY <1>0, <2>2, <2>4, <2>5, <2>6, <3>1, <3>2 DEF Other
  <2>8. OrderInv'
    <3>1. UNCHANGED <<pty, shell, run>> /\ Prompts(pty)' = Prompts(pty) /\ carry' = {}
      BY <2>2 DEF shellVars, Prompts
    <3>2. ASSUME NEW j \in DOMAIN chunk', IsOwn(chunk'[j])
          PROVE  \E m \in Prompts(chunk') : m > j
      <4>1. i \in Prompts(chunk') /\ j # i /\ j \in 1..i
        BY <2>3, <3>2 DEF Prompts, IsOwn
      <4> QED
        BY <2>3, <4>1
    <3>3. (\A j \in DOMAIN pty : IsOwn(pty[j]) => \E m \in Prompts(pty) : m > j)'
            <=> \A j \in DOMAIN pty : IsOwn(pty[j]) => \E m \in Prompts(pty) : m > j
      BY <3>1 DEF IsOwn
    <3>4. (\A j \in DOMAIN chunk : IsOwn(chunk[j]) =>
             Prompts(pty) # {} \/ \E m \in Prompts(chunk) : m > j)'
      BY <3>1, <3>2 DEF IsOwn, Prompts
    <3> QED
      BY <3>1, <3>3, <3>4 DEF OutputInv, OrderInv
  <2>9. OnlyOwnInv' /\ SendReturnsWholeOutput'
    BY <1>0, <2>2, <2>4, <2>7 DEF OutputInv, OnlyOwnInv, SendReturnsWholeOutput, callVars,
       shellVars
  <2>10. WholeInv'
    BY <1>0, <2>2, <2>4, <2>7 DEF OutputInv, WholeInv, callVars, shellVars, Closing, Running,
       WaitPcs, OverPcs
  <2> QED
    BY <2>8, <2>9, <2>10 DEF OutputInv
<1>4. CASE DrainStore
  <2>1. /\ dpc = "parse" /\ chunk # <<>>
        /\ dpc' = "read" /\ carry' = Owners(<<Last(chunk)>>) /\ self'.event = self.event
        /\ self'.buf = self.buf \cup carry \cup Owners(Front(chunk))
        /\ chunk' = <<>> /\ UNCHANGED shellVars
    BY <1>0, <1>4 DEF DrainStore, Session, IInv, TypeInv, ChunkInv
  <2>2. OnTheWay' \cup self'.buf = OnTheWay \cup self.buf
    BY <2>1, ChunkLines DEF OnTheWay, Ended, Owners, shellVars
  <2>3. OrderInv'
    <3>1. ASSUME shell = "prompt", run # Other, run \in carry' PROVE Prompts(pty) # {}
      <4>1. IsOwn(chunk[Len(chunk)])
        BY <2>1, <3>1, ChunkLines DEF Owners, IsOwn
      <4>2. \A j \in Prompts(chunk) : ~(j > Len(chunk))
        BY <2>1, ChunkLines DEF Prompts
      <4> QED
        BY <2>1, <3>1, <4>1, <4>2, ChunkLines DEF OutputInv, OrderInv
    <3>2. /\ UNCHANGED <<pty, shell, run>> /\ Prompts(pty)' = Prompts(pty)
          /\ DOMAIN chunk' = {}
      BY <2>1 DEF shellVars, Prompts
    <3>3. (\A i \in DOMAIN pty : IsOwn(pty[i]) => \E j \in Prompts(pty) : j > i)'
            <=> \A i \in DOMAIN pty : IsOwn(pty[i]) => \E j \in Prompts(pty) : j > i
      BY <3>2 DEF IsOwn
    <3>4. (\A i \in DOMAIN chunk : IsOwn(chunk[i]) =>
             Prompts(pty) # {} \/ \E j \in Prompts(chunk) : j > i)'
      BY <3>2
    <3> QED
      BY <3>1, <3>2, <3>3, <3>4 DEF OutputInv, OrderInv
  <2>4. alive /\ (run # n \/ spc \in {"clear_event", "clear_pending"})
          => OnTheWay \subseteq {Other}
    <3> SUFFICES ASSUME alive, run # n \/ spc \in {"clear_event", "clear_pending"}
                 PROVE  OnTheWay \subseteq {Other}
      OBVIOUS
    <3>1. shell = "prompt" /\ Prompts(pty) = {} /\ Prompts(chunk) = {}
      BY DEF IInv, SafeInv, OwnerInv, PromptInv, QuietInv, QuietPcs, Quiet
    <3>2. run # 0 => run \notin OnTheWay
      BY <3>1, QuietOutput
    <3> QED
      BY <3>2 DEF OutputInv, OnlyOwnInv
  <2>5. OnlyOwnInv' /\ SendReturnsWholeOutput'
    <3>1. self'.buf \subseteq self.buf \cup OnTheWay
      BY <2>2
    <3> QED
      BY <1>0, <2>1, <2>2, <2>4, <3>1 DEF OutputInv, OnlyOwnInv, SendReturnsWholeOutput,
         callVars, shellVars
  <2>6. WholeInv'
    BY <1>0, <2>1, <2>2 DEF OutputInv, WholeInv, callVars, shellVars, Closing, Running,
       WaitPcs, OverPcs
  <2> QED
    BY <2>3, <2>5, <2>6 DEF OutputInv
<1>5. CASE DrainSetPending
  <2>1. /\ dpc = "set_pending" /\ dpc' = "set_event" /\ chunk' = <<>>
        /\ self'.event = self.event /\ self'.buf = self.buf
        /\ UNCHANGED <<carry, shellVars>>
    BY <1>0, <1>5 DEF DrainSetPending, Session
  <2>2. Prompts(pty) = {}
    BY <2>1 DEF IInv, SafeInv, PromptInv
  <2>3. OnTheWay' = OnTheWay
    BY <2>1 DEF OnTheWay, Ended, Owners, shellVars
  <2>4. OrderInv'
    BY <1>10, <2>1, <2>2 DEF OutputInv, OrderInv, shellVars, IsOwn, Prompts, Ended
  <2>5. OnlyOwnInv' /\ SendReturnsWholeOutput'
    BY <1>0, <2>1, <2>3 DEF OutputInv, OnlyOwnInv, SendReturnsWholeOutput, callVars, shellVars
  <2>6. WholeInv'
    BY <1>0, <2>1, <2>3 DEF OutputInv, WholeInv, callVars, shellVars, Closing, Running,
       WaitPcs, OverPcs
  <2> QED
    BY <2>4, <2>5, <2>6 DEF OutputInv
<1>6. CASE DrainSetEvent \/ DrainSetTerminated
  <2>1. /\ \/ dpc = "set_event" /\ dpc' = "read"
           \/ dpc = "eof_event" /\ dpc' = "done"
           \/ dpc = "eof_state" /\ dpc' = "eof_event" /\ self'.event = self.event
        /\ self'.buf = self.buf
        /\ UNCHANGED <<chunk, carry, shellVars>>
    BY <1>0, <1>6 DEF DrainSetEvent, DrainSetTerminated, Session
  <2>2. dpc = "set_event" => shell = "prompt"
    BY DEF IInv, SafeInv, PromptInv
  <2>3. OnTheWay' = OnTheWay
    BY <2>1 DEF OnTheWay, Ended, Owners, shellVars
  <2>4. OrderInv'
    BY <2>1 DEF OutputInv, OrderInv, shellVars, IsOwn, Prompts, Ended
  <2>5. OnlyOwnInv' /\ SendReturnsWholeOutput'
    BY <1>0, <2>1, <2>3 DEF OutputInv, OnlyOwnInv, SendReturnsWholeOutput, callVars, shellVars
  <2>6. WholeInv'
    BY <1>0, <2>1, <2>2, <2>3 DEF OutputInv, WholeInv, callVars, shellVars, Closing, Running,
       WaitPcs, OverPcs
  <2> QED
    BY <2>4, <2>5, <2>6 DEF OutputInv
<1>7. CASE DrainEof
  <2>1. /\ dpc = "read" /\ dpc' \in {"eof_state", "done"} /\ ~alive
        /\ self'.buf = self.buf \cup carry /\ self'.event = self.event
        /\ UNCHANGED <<chunk, carry, shellVars>>
    BY <1>0, <1>7 DEF DrainEof, Session, IInv, SafeInv, InitInv
  <2>2. OnTheWay' \cup self'.buf = OnTheWay \cup self.buf
    BY <2>1 DEF OnTheWay, Ended, Owners, shellVars
  <2>3. OrderInv'
    BY <2>1 DEF OutputInv, OrderInv, shellVars, IsOwn, Prompts, Ended
  <2>4. OnlyOwnInv' /\ SendReturnsWholeOutput'
    BY <1>0, <2>1, <2>2 DEF OutputInv, OnlyOwnInv, SendReturnsWholeOutput, callVars, shellVars
  <2>5. WholeInv'
    BY <1>0, <2>1, <2>2 DEF OutputInv, WholeInv, callVars, shellVars, Closing, Running,
       WaitPcs, OverPcs
  <2> QED
    BY <2>3, <2>4, <2>5 DEF OutputInv
<1> QED
  BY <1>1, <1>2, <1>3, <1>4, <1>5, <1>6, <1>7 DEF Drain

\* A printed line comes after all others on the terminal.
LEMMA PrintLines ==
  ASSUME TypeInv, NEW k \in {"setup_ok", "out", "bg", "prompt"}, NEW c, Prints(k, c)
  PROVE  /\ Owners(pty') = Owners(pty) \cup (IF k \in {"out", "bg"} THEN {c} ELSE {})
         /\ Len(pty) \in Nat /\ DOMAIN pty' = DOMAIN pty \cup {Len(pty) + 1}
         /\ pty'[Len(pty) + 1] = [k |-> k, c |-> c]
         /\ \A i \in DOMAIN pty : i \in Nat /\ i < Len(pty) + 1 /\ pty'[i] = pty[i]
<1>1. pty \in Seq(Line)
  BY DEF TypeInv, TypeOK, ShellType
<1>2. /\ DOMAIN pty' = 1..(Len(pty) + 1) /\ DOMAIN pty = 1..Len(pty) /\ Len(pty) \in Nat
      /\ \A i \in 1..Len(pty) : pty'[i] = pty[i]
      /\ pty'[Len(pty) + 1] = [k |-> k, c |-> c]
  BY <1>1 DEF Prints
<1>3. ASSUME NEW m \in Nat PROVE 1..(m + 1) = 1..m \cup {m + 1}
  OBVIOUS
<1>4. DOMAIN pty' = DOMAIN pty \cup {Len(pty) + 1}
  BY <1>2, <1>3
<1>5. Owners(pty') = Owners(pty) \cup (IF k \in {"out", "bg"} THEN {c} ELSE {})
  BY <1>2, <1>4 DEF Owners
<1> QED
  BY <1>2, <1>4, <1>5

LEMMA ShellOutput ==
  ASSUME IInv, OutputInv, StdinKinds = {}, Shell
  PROVE  OutputInv'
<1>0. /\ alive /\ UNCHANGED <<self, spc, callVars, drainVars, tpc>>
      /\ n \in Nat /\ run \in Nat /\ run <= n
      /\ spc \in OverPcs \cup {"clear_event", "clear_pending"} =>
           shell = "prompt" /\ stdin = <<>>
  BY DEF Shell, ShellWork, IInv, TypeInv, TypeOK, CallType, ShellType, SafeInv, QuietInv,
         QuietPcs, Quiet, OverPcs, OutputInv, OnlyOwnInv
<1>1. CASE ShellSetup \/ ShellPrint \/ ShellFinish \/ ShellBackground
  <2>1. PICK k \in {"setup_ok", "out", "bg", "prompt"}, c \in {run, Other} :
          /\ Prints(k, c)
          /\ \/ shell = "boot" /\ shell' = "setup" /\ k = "setup_ok"
             \/ shell = "setup" /\ shell' = "prompt" /\ k = "prompt"
             \/ shell = "running" /\ shell' = "printed" /\ k = "out" /\ c = run
             \/ shell = "printed" /\ shell' = "prompt" /\ k = "prompt"
             \/ shell = "prompt" /\ shell' = "prompt" /\ k = "bg" /\ c = Other
    BY <1>1 DEF ShellSetup, ShellPrint, ShellFinish, ShellBackground
  <2>2. run' = run /\ alive \in BOOLEAN
    BY <1>0, <1>1 DEF ShellSetup, ShellPrint, ShellFinish, ShellBackground
  <2>3. OnTheWay' = OnTheWay \cup (IF k \in {"out", "bg"} THEN {c} ELSE {})
    <3>1. Owners(pty') = Owners(pty) \cup (IF k \in {"out", "bg"} THEN {c} ELSE {})
      BY <2>1, PrintLines DEF IInv
    <3>2. Owners(pty)' = Owners(pty') /\ Owners(chunk)' = Owners(chunk) /\ dpc' = dpc
          /\ carry' = carry
      BY <1>0 DEF Owners, drainVars
    <3> QED
      BY <3>1, <3>2 DEF OnTheWay, Ended
  <2>4. OrderInv'
    <3> SUFFICES ASSUME shell' = "prompt", run # Other PROVE OrderInv'
      BY <2>2 DEF OrderInv
    <3> USE <1>0 DEF drainVars
    <3>1. /\ Len(pty) \in Nat /\ DOMAIN pty' = DOMAIN pty \cup {Len(pty) + 1}
          /\ pty'[Len(pty) + 1] = [k |-> k, c |-> c]
          /\ \A i \in DOMAIN pty : i \in Nat /\ i < Len(pty) + 1 /\ pty'[i] = pty[i]
      BY <2>1, PrintLines DEF IInv
    <3>2. Prompts(chunk)' = Prompts(chunk) /\ (Ended' <=> Ended)
      BY DEF Prompts, Ended
    <3>3. \A j \in Prompts(pty) : j \in Prompts(pty)'
      BY <3>1 DEF Prompts
    <3>4. CASE k = "prompt"
      <4>1. Len(pty) + 1 \in Prompts(pty)'
        BY <3>1, <3>4 DEF Prompts
      <4>2. ASSUME NEW i \in DOMAIN pty', pty'[i].k # "prompt" PROVE Len(pty) + 1 > i
        BY <3>1, <3>4, <4>2
      <4> QED
        BY <2>2, <3>2, <4>1, <4>2 DEF OrderInv, IsOwn
    <3>5. CASE k = "bg"
      <4>1. shell = "prompt" /\ c = Other
        BY <2>1, <3>5
      <4>2. ASSUME NEW i \in DOMAIN pty', pty'[i].k \in {"out", "bg"}, pty'[i].c = run
            PROVE  \E j \in Prompts(pty)' : j > i
        <5>1. i \in DOMAIN pty /\ IsOwn(pty[i])
          BY <3>1, <4>1, <4>2 DEF IsOwn
        <5> QED
          BY <3>3, <4>1, <5>1 DEF OutputInv, OrderInv
      <4>3. (\A i \in DOMAIN pty : IsOwn(pty[i]) => \E j \in Prompts(pty) : j > i)'
        BY <2>2, <4>2 DEF IsOwn
      <4>4. (\A i \in DOMAIN chunk : IsOwn(chunk[i]) =>
               Prompts(pty) # {} \/ \E j \in Prompts(chunk) : j > i)'
        BY <2>2, <3>2, <3>3, <4>1 DEF OutputInv, OrderInv, IsOwn
      <4> QED
        BY <2>2, <3>2, <3>3, <4>1, <4>3, <4>4 DEF OutputInv, OrderInv
    <3> QED
      BY <2>1, <3>4, <3>5
  <2>5. OnlyOwnInv' /\ SendReturnsWholeOutput'
    <3>1. shell' \in {"boot", "setup"} => run = Other
      BY <2>1 DEF OutputInv, OnlyOwnInv
    <3> QED
      BY <1>0, <2>1, <2>2, <2>3, <3>1 DEF OutputInv, OnlyOwnInv,
         SendReturnsWholeOutput, callVars
  <2>6. WholeInv'
    <3>1. (Running' => Running) /\ (shell' # "running")
      BY <2>1 DEF Running
    <3>2. run = n /\ n > 0 => n \in OnTheWay' \/ shell # "running"
      BY <2>1, <2>3
    <3> QED
      BY <1>0, <2>1, <2>2, <2>3, <3>1, <3>2 DEF OutputInv, WholeInv, callVars, drainVars,
         Closing, WaitPcs, OverPcs
  <2> QED
    BY <2>4, <2>5, <2>6 DEF OutputInv
<1>2. CASE ShellTake
  <2>1. /\ shell = "prompt" /\ shell' = "running" /\ stdin # <<>>
        /\ run = n - 1 /\ run' = n /\ UNCHANGED <<pty>>
    BY <1>0, <1>2 DEF ShellTake, Takes, IInv, SafeInv, ShellInv, OwnerInv
  <2>2. Prompts(pty) = {} /\ Prompts(chunk) = {}
    BY <2>1 DEF IInv, SafeInv, PromptInv
  <2>3. OnTheWay' = OnTheWay
    BY <1>0, <2>1 DEF OnTheWay, Ended, drainVars, Owners
  <2>4. OnTheWay \cup self.buf \subseteq {Other}
    <3>1. run # n
      BY <1>0, <2>1
    <3> QED
      BY <1>0, <2>1, <2>2, <3>1, QuietOutput DEF OutputInv, OnlyOwnInv
  <2>5. ~Closing => ~self.event
    BY <1>0, <2>1 DEF IInv, SafeInv, QuietInv, Quiet
  <2>6. OrderInv' /\ SendReturnsWholeOutput'
    BY <1>0, <2>1 DEF OutputInv, OrderInv, SendReturnsWholeOutput, callVars
  <2>7. OnlyOwnInv'
    <3>1. spc \notin {"set_waiting", "write"}
      BY <1>0, <2>1 DEF IInv, SafeInv, QuietInv, QuietPcs, Quiet
    <3> QED
      BY <1>0, <2>1, <2>3, <2>4, <3>1 DEF OutputInv, OnlyOwnInv, OverPcs, callVars
  <2>8. WholeInv'
    BY <1>0, <2>1, <2>5 DEF OutputInv, WholeInv, callVars, drainVars, Closing, WaitPcs,
       OverPcs, Running
  <2> QED
    BY <2>6, <2>7, <2>8 DEF OutputInv
<1>3. CASE ShellDies
  <2>1. ~alive' /\ UNCHANGED <<shell, run, stdin, pty, bgs>>
    BY <1>3 DEF ShellDies
  <2>2. OnTheWay' = OnTheWay /\ OrderInv'
    BY <1>0, <2>1 DEF OnTheWay, Ended, drainVars, Owners, OutputInv, OrderInv, Prompts, IsOwn
  <2>3. OnlyOwnInv' /\ SendReturnsWholeOutput'
    BY <1>0, <2>1, <2>2 DEF OutputInv, OnlyOwnInv, SendReturnsWholeOutput, callVars
  <2>4. WholeInv'
    BY <1>0, <2>1, <2>2 DEF OutputInv, WholeInv, callVars, drainVars, Closing, WaitPcs,
       OverPcs, Running
  <2> QED
    BY <2>2, <2>3, <2>4 DEF OutputInv
<1>4. ~ShellCtrlC /\ ~ShellFeed
  <2>1. stdin # <<>> => Head(stdin).k \in {"setup", "cmd"}
    BY <1>0 DEF IInv, SafeInv, ShellInv
  <2> QED
    BY <2>1 DEF ShellCtrlC, ShellFeed, Takes
<1> QED
  BY <1>1, <1>2, <1>3, <1>4 DEF Shell, ShellWork

LEMMA TimerOutput ==
  ASSUME IInv, OutputInv, Timer
  PROVE  OutputInv'
<1>1. UNCHANGED <<self, spc, callVars, drainVars, shellVars>>
  BY DEF Timer, TimerCheck, TimerExpire, TimerStep, TimerKill, IInv, SafeInv, InitInv
<1>2. OnTheWay' = OnTheWay
  BY <1>1 DEF OnTheWay, Ended, Owners, drainVars, shellVars
<1> QED
  BY <1>1, <1>2 DEF OutputInv, OrderInv, OnlyOwnInv, WholeInv, SendReturnsWholeOutput,
     callVars, drainVars, shellVars, Prompts, IsOwn, Ended, Closing, Running

LEMMA OutputInductive ==
  ASSUME StdinKinds = {}, SlowInit = FALSE
  PROVE  Spec => [](IInv /\ OutputInv)
<1>1. IInv /\ OutputInv /\ [Next]_vars => OutputInv'
  <2> SUFFICES ASSUME IInv, OutputInv, [Next]_vars PROVE OutputInv'
    OBVIOUS
  <2>1. CASE UNCHANGED vars
    <3>1. OnTheWay' = OnTheWay
      BY <2>1 DEF OnTheWay, Ended, Owners, vars, drainVars, shellVars
    <3> QED
      BY <2>1, <3>1 DEF OutputInv, OrderInv, OnlyOwnInv, WholeInv, SendReturnsWholeOutput,
         vars, callVars, drainVars, shellVars, Prompts, IsOwn, Ended, Closing, Running
  <2> QED
    BY <2>1, ServerOutput, DrainOutput, TimerOutput, ShellOutput DEF Next
<1> QED
  BY <1>1, OutputInit, Inductive, PTL DEF Spec

\* Without stdin writes and with a shell that boots in time, the ready answer of
\* send(wait=True) holds the whole output of its command and, background lines aside,
\* of no other, however the terminal cuts it into chunks and whenever the shell dies.
THEOREM ReadyAnswerIsWhole ==
  ASSUME StdinKinds = {}, SlowInit = FALSE
  PROVE  Spec => []SendReturnsWholeOutput
<1>1. OutputInv => SendReturnsWholeOutput
  BY DEF OutputInv
<1> QED
  BY <1>1, OutputInductive, PTL

\* Under the same assumptions the output of a command the shell died in is not lost:
\* when the drain thread has ended it is in the buffer or was handed out.
THEOREM LastOutputSurvives ==
  ASSUME StdinKinds = {}, SlowInit = FALSE
  PROVE  Spec => []LastOutputPreserved
<1>1. IInv /\ OutputInv => LastOutputPreserved
  <2> SUFFICES ASSUME IInv, OutputInv, dpc = "done", spc = "idle", run = n, n > 0,
                      shell # "running"
               PROVE  n \in self.buf \cup seen
    BY DEF LastOutputPreserved
  <2>1. OnTheWay = {}
    BY DoneOutput DEF Ended, IInv, SafeInv, InitInv
  <2> QED
    BY <2>1 DEF OutputInv, WholeInv, WaitPcs, OverPcs
<1> QED
  BY <1>1, OutputInductive, PTL

-----------------------------------------------------------------------------
(* Termination is for good, also for an agent that writes stdin.           *)

LEMMA BootInductive ==
  ASSUME SlowInit = FALSE
  PROVE  Spec => [](TypeInv /\ BootInv)
<1>1. Init => BootInv
  BY DEF Init, BootInv
<1>2. TypeInv /\ BootInv /\ [Next]_vars => BootInv'
  <2> SUFFICES ASSUME TypeInv, BootInv, [Next]_vars PROVE BootInv'
    OBVIOUS
  <2>0. self \in Session
    BY DEF TypeInv, TypeOK, SelfType
  <2> USE DEF Session
  <2>1. CASE Server
    <3> USE DEF BootInv, Step, Return, TakeOutput, callVars, shellVars, drainVars
    <3>0. UNCHANGED drainVars
      BY <2>1 DEF Server
    <3>1. CASE StartSetup
      BY <2>0, <3>0, <3>1 DEF StartSetup, WriteOK, WriteFails
    <3>2. CASE (SendWrite \/ WriteStdin \/ CloseKill) /\ UNCHANGED tpc
      BY <2>0, <3>0, <3>2 DEF SendWrite, WriteStdin, CloseKill, WriteOK, WriteFails
    <3>3. CASE /\ WaitUntilReady \/ HealthVerdict \/ Send \/ Read \/ CloseState \/ CloseEvent
               /\ UNCHANGED <<tpc, shellVars>>
      <4>1. CASE WaitUntilReady \/ HealthVerdict \/ CloseState \/ CloseEvent
        BY <2>0, <3>0, <3>3, <4>1 DEF WaitUntilReady, HealthVerdict, CloseState, CloseEvent
      <4>2. CASE Read
        BY <2>0, <3>0, <3>3, <4>2 DEF Read, ReadTakeOutput, ReadState, ReadEvent, ReadReturn
      <4>3. CASE Send
        BY <2>0, <3>0, <3>3, <4>3 DEF Send, BeginSend, SendChecks, Check, SendClearBuffer,
           SendClearEvent, SendClearPending, SendSetWaiting, SendNoWait, SendWait,
           SendTimedOut, SendWoken, SendSetReady, SendFinish
      <4> QED
        BY <3>3, <4>1, <4>2, <4>3
    <3> QED
      BY <2>1, <3>1, <3>2, <3>3 DEF Server
  <2>2. CASE Drain
    <3>0. UNCHANGED <<spc, callVars, tpc>>
      BY <2>2 DEF Drain
    <3>1. CASE DrainRead
      BY <3>0, <3>1 DEF DrainRead, BootInv
    <3>2. CASE DrainInit \/ DrainSetReady \/ DrainPrompt \/ DrainStore
      BY <2>0, <3>0, <3>2 DEF DrainInit, DrainSetReady, DrainPrompt, DrainStore, BootInv, shellVars
    <3>3. CASE DrainSetPending \/ DrainSetEvent \/ DrainEof \/ DrainSetTerminated
      BY <2>0, <3>0, <3>3 DEF DrainSetPending, DrainSetEvent, DrainEof, DrainSetTerminated,
         BootInv, shellVars
    <3> QED
      BY <2>2, <3>1, <3>2, <3>3 DEF Drain
  <2>3. CASE Timer
    BY <2>3 DEF Timer, TimerCheck, TimerExpire, TimerStep, TimerKill, BootInv, drainVars, shellVars
  <2>4. CASE Shell
    <3>1. UNCHANGED <<self, spc, callVars, drainVars, tpc>>
      BY <2>4 DEF Shell, ShellWork
    <3>2. spc = "start" => UNCHANGED <<shell, stdin, pty>>
      BY <2>4 DEF Shell, ShellWork, ShellSetup, ShellTake, ShellPrint, ShellFinish, ShellCtrlC,
         ShellFeed, ShellBackground, ShellDies, Takes, Running, BootInv
    <3> QED
      BY <3>1, <3>2 DEF BootInv, drainVars
  <2>5. CASE UNCHANGED vars
    BY <2>5 DEF BootInv, vars, drainVars, shellVars
  <2> QED
    BY <2>1, <2>2, <2>3, <2>4, <2>5 DEF Next
<1> QED
  BY <1>1, <1>2, TypeInductive, PTL DEF Spec

LEMMA DeadStays ==
  ASSUME TypeInv, BootInv, SlowInit = FALSE, DeadForGood, [Next]_vars
  PROVE  DeadForGood'
<1>0. self \in Session
  BY DEF TypeInv, TypeOK, SelfType
<1> USE <1>0 DEF Session, DeadForGood, DeadPcs
<1>1. CASE Server
  <2> USE DEF Step, Return, TakeOutput, drainVars
  <2>1. CASE StartSetup \/ SendWrite \/ WriteStdin \/ CloseKill
    BY <1>1, <2>1 DEF Server, StartSetup, SendWrite, WriteStdin, CloseKill
  <2>2. CASE WaitUntilReady \/ HealthVerdict \/ CloseState \/ CloseEvent
    BY <1>1, <2>2 DEF Server, WaitUntilReady, HealthVerdict, CloseState, CloseEvent
  <2>3. CASE Read
    BY <1>1, <2>3 DEF Server, Read, ReadTakeOutput, ReadState, ReadEvent, ReadReturn
  <2>4. CASE Send
    BY <1>1, <2>4 DEF Server, Send, BeginSend, SendChecks, Check, SendClearBuffer,
       SendClearEvent, SendClearPending, SendSetWaiting, SendNoWait, SendWait,
       SendTimedOut, SendWoken, SendSetReady, SendFinish
  <2> QED
    BY <1>1, <2>1, <2>2, <2>3, <2>4 DEF Server
<1>2. CASE Drain
  BY <1>2 DEF Drain, DrainRead, DrainInit, DrainSetReady, DrainPrompt, DrainStore,
     DrainSetPending, DrainSetEvent, DrainEof, DrainSetTerminated
<1>3. CASE Timer
  BY <1>3 DEF Timer, TimerCheck, TimerExpire, TimerStep, TimerKill, drainVars
<1>4. CASE Shell
  BY <1>4 DEF Shell, ShellWork, drainVars
<1> QED
  BY <1>1, <1>2, <1>3, <1>4 DEF Next, vars, drainVars

\* With a shell that boots in time, and whatever the agent writes to stdin, a shell
\* that was terminated between two calls stays terminated: no thread that still runs,
\* and no call that is refused, gives it another state.
THEOREM TerminatedForGood ==
  ASSUME SlowInit = FALSE
  PROVE  Spec => TerminatedOnceSeen
<1>1. BootInv /\ self.state = "terminated" /\ spc = "idle" => DeadForGood
  BY DEF BootInv, DeadForGood, DeadPcs
<1>2. TypeInv /\ BootInv /\ DeadForGood /\ [Next]_vars => DeadForGood'
  BY DeadStays
<1>3. DeadForGood => self.state = "terminated"
  BY DEF DeadForGood
<1> QED
  BY <1>1, <1>2, <1>3, BootInductive, PTL DEF Spec, TerminatedOnceSeen

-----------------------------------------------------------------------------
(* ShellSession implements CommandLedger, with the mapping of Ledger.      *)

RefInv == IInv /\ NoticedInv

LEMMA NoticedInit == Init => NoticedInv
  BY DEF Init, NoticedInv

LEMMA ServerNoticed ==
  ASSUME RefInv, StdinKinds = {}, Server PROVE NoticedInv'
<1> USE DEF NoticedInv
<1>1. /\ NoticedInv /\ UNCHANGED drainVars /\ self \in Session /\ n \in Nat
      /\ alive /\ spc = "clear_pending" => ~self.event /\ dpc # "set_event"
      /\ ~alive => ~alive'
  BY DEF RefInv, IInv, TypeInv, TypeOK, SelfType, CallType, SafeInv, QuietInv, QuietPcs,
         Quiet, Server, WriteOK, WriteFails, SendWrite, WriteStdin, CloseKill, shellVars,
         StartSetup
<1> USE <1>1 DEF Session, drainVars, callVars, shellVars, Step, Return, TakeOutput
<1>2. CASE StartSetup
  BY <1>2, SMTT(30) DEF StartSetup, WriteOK, WriteFails
<1>3. CASE SendWrite
  <2>1. CASE Step("write", "written", self)
    BY <1>3, <2>1 DEF SendWrite, WriteOK, WriteFails
  <2>2. CASE Return("write", "send", "terminated", NoCode, {},
                    [self EXCEPT !.state = "terminated", !.reason = "broken_pipe"])
             /\ WriteFails
    BY <2>2 DEF WriteFails
  <2> QED
    BY <1>3, <2>1, <2>2 DEF SendWrite
<1>4. CASE WriteStdin
  BY <1>4 DEF WriteStdin
<1>5. CASE CloseKill
  BY <1>5 DEF CloseKill
<1>6. CASE (WaitUntilReady \/ HealthVerdict \/ CloseState \/ CloseEvent) /\ UNCHANGED shellVars
  <2>1. CASE CloseState \/ CloseEvent
    BY <1>6, <2>1 DEF CloseState, CloseEvent, RefInv, IInv, SafeInv, InitInv
  <2> QED
    BY <1>6, <2>1 DEF WaitUntilReady, HealthVerdict
<1>7. CASE Read /\ UNCHANGED shellVars
  <2>1. CASE ReadTakeOutput
    BY <1>7, <2>1 DEF ReadTakeOutput
  <2>2. CASE ReadState
    BY <1>7, <2>2, SMTT(30) DEF ReadState
  <2>3. CASE ReadEvent
    <3>1. spc = "read_event" => life = "open"
      BY DEF RefInv, IInv, SafeInv, InitInv, TypeInv, TypeOK, CallType
    <3> QED
      BY <1>7, <2>3, <3>1, SMTT(30) DEF ReadEvent
  <2>4. CASE ReadReturn
    BY <1>7, <2>4 DEF ReadReturn
  <2> QED
    BY <1>7, <2>1, <2>2, <2>3, <2>4 DEF Read
<1>8. CASE Send /\ UNCHANGED shellVars
  <2>1. CASE SendChecks
    BY <1>8, <2>1, SMTT(30) DEF SendChecks, Check
  <2>2. CASE SendClearPending
    BY <1>8, <2>2 DEF SendClearPending
  <2>3. CASE BeginSend \/ SendClearBuffer \/ SendClearEvent \/ SendSetWaiting
    BY <1>8, <2>3, SMTT(30) DEF BeginSend, SendClearBuffer, SendClearEvent, SendSetWaiting
  <2>4. CASE SendNoWait \/ SendWait \/ SendTimedOut \/ SendWoken \/ SendSetReady
    BY <1>8, <2>4, SMTT(30) DEF SendNoWait, SendWait, SendTimedOut, SendWoken, SendSetReady
  <2>5. CASE SendFinish
    BY <1>8, <2>5, SMTT(30) DEF SendFinish
  <2> QED
    BY <1>8, <2>1, <2>2, <2>3, <2>4, <2>5 DEF Send
<1> QED
  BY <1>2, <1>3, <1>4, <1>5, <1>6, <1>7, <1>8 DEF Server

LEMMA DrainNoticed ==
  ASSUME RefInv, Drain PROVE NoticedInv'
<1>1. /\ NoticedInv /\ UNCHANGED <<spc, callVars, tpc, alive>> /\ self \in Session
      /\ dpc = "eof_event" => ~alive
      /\ dpc = "set_ready" => life = "opening"
  BY DEF NoticedInv, InitInv, RefInv, IInv, TypeInv, TypeOK, SelfType, SafeInv, DrainInv, Drain, DrainRead,
         DrainInit, DrainSetReady, DrainPrompt, DrainStore, DrainSetPending, DrainSetEvent,
         DrainEof, DrainSetTerminated, shellVars
<1>2. dpc = "set_pending" => Last(chunk).c = n
  <2> SUFFICES ASSUME dpc = "set_pending" PROVE Last(chunk).c = n
    OBVIOUS
  <2>1. chunk \in Seq(Line) /\ chunk # <<>> /\ Last(chunk).k = "prompt"
    BY DEF RefInv, IInv, TypeInv, TypeOK, DrainType, ChunkInv, SafeInv, DrainInv
  <2>2. Len(chunk) \in Prompts(chunk)
    BY <2>1 DEF Prompts, Last
  <2> QED
    BY <2>2 DEF RefInv, IInv, SafeInv, OwnerInv, Last
<1> USE <1>1, <1>2 DEF Session, NoticedInv, callVars
<1>3. CASE DrainRead \/ DrainInit \/ DrainPrompt \/ DrainStore
  BY <1>3 DEF DrainRead, DrainInit, DrainPrompt, DrainStore
<1>6. CASE DrainSetReady
  BY <1>6 DEF DrainSetReady
<1>4. CASE DrainSetPending \/ DrainSetEvent
  BY <1>4 DEF DrainSetPending, DrainSetEvent
<1>5. CASE DrainEof \/ DrainSetTerminated
  BY <1>5 DEF DrainEof, DrainSetTerminated
<1> QED
  BY <1>3, <1>4, <1>5, <1>6 DEF Drain

LEMMA OthersNoticed ==
  ASSUME RefInv, Timer \/ Shell PROVE NoticedInv'
<1>1. NoticedInv /\ UNCHANGED <<spc, callVars, drainVars>> /\ (~alive => ~alive')
  BY DEF RefInv, Timer, TimerCheck, TimerExpire, TimerKill, TimerStep, Shell, ShellWork,
         ShellDies, shellVars
<1>2. UNCHANGED self
  BY DEF RefInv, IInv, SafeInv, InitInv, Timer, TimerCheck, TimerExpire, TimerKill,
         TimerStep, Shell, ShellWork
<1> QED
  BY <1>1, <1>2 DEF NoticedInv, callVars, drainVars

\* NoticedInv is an invariant, relative to the inductive invariant of the session.
LEMMA Refinable ==
  ASSUME StdinKinds = {}, SlowInit = FALSE
  PROVE  Spec => []RefInv
<1>1. Init => NoticedInv
  BY NoticedInit
<1>2. IInv /\ NoticedInv /\ [Next]_vars => NoticedInv'
  <2> SUFFICES ASSUME RefInv, [Next]_vars PROVE NoticedInv'
    BY DEF RefInv
  <2>1. CASE UNCHANGED vars
    BY <2>1 DEF RefInv, NoticedInv, vars, callVars, drainVars, shellVars
  <2> QED
    BY <2>1, ServerNoticed, DrainNoticed, OthersNoticed DEF Next
<1> QED
  BY <1>1, <1>2, Inductive, PTL DEF Spec, RefInv

-----------------------------------------------------------------------------
(* Every step of the session is a step of the ledger or leaves it alone.   *)

\* What the ledger sees of a step.
Busy == alive /\ (self.state = "waiting" \/ spc = "set_waiting")

Same == UNCHANGED <<n, run, alive>> /\ Running' = Running
Kept == (Busy' <=> Busy) /\ (spc = "close_kill" <=> spc' = "close_kill")

LEMMA Unseen ==
  ASSUME Same, Kept, res' = res PROVE UNCHANGED Ledger!vars
  BY DEF Same, Kept, Ledger!vars, Busy

\* A result that is not ready.
LEMMA Unanswered ==
  ASSUME Same, Kept, res'.status # "ready" PROVE Ledger!NoAnswer
  BY DEF Same, Kept, Ledger!NoAnswer, Busy

\* A ready answer, given when no command is outstanding.
LEMMA Answered ==
  ASSUME RefInv, Same, Kept, ~Busy,
         res'.status = "ready", res'.cmd = n, res'.code = self.pending,
         spc \in {"return_ready", "read_return"}
  PROVE  Ledger!Answer
<1>1. /\ alive => self.pending = n
      /\ self.pending \in {n, NoCode}
      /\ self.pending = n => run = n /\ ~Running
  BY DEF RefInv, NoticedInv, IInv, SafeInv, OwnerInv, Running
<1>2. CASE self.pending = n
  BY <1>1, <1>2 DEF Ledger!Answer, Same, Kept, Busy
<1>3. CASE self.pending = NoCode /\ ~alive
  <2>1. <<n, self.pending>> = <<n, Ledger!NoCode>>
    BY <1>3 DEF Ledger!NoCode
  <2> QED
    BY <1>3, <2>1 DEF Ledger!Answer, Same, Kept, Busy
<1> QED
  BY <1>1, <1>2, <1>3

LEMMA RefInit == Init => Ledger!Init
<1> SUFFICES ASSUME Init PROVE Ledger!Init
  OBVIOUS
<1>1. alive /\ spc = "start" /\ n = 0 /\ run = 0 /\ shell = "boot"
  BY DEF Init
<1>2. self.state = "init" /\ res.status = "none"
  BY DEF Init
<1> QED
  BY <1>1, <1>2 DEF Ledger!Init, Running

LEMMA ServerRef ==
  ASSUME RefInv, StdinKinds = {}, Server PROVE [Ledger!Next]_(Ledger!vars)
<1>0. self \in Session /\ n \in Nat /\ UNCHANGED drainVars
  BY DEF RefInv, IInv, TypeInv, TypeOK, SelfType, CallType, Server
<1> USE <1>0 DEF Session, Step, Return, TakeOutput, callVars, shellVars, Running
<1>1. ASSUME Same, Kept, res' = res PROVE [Ledger!Next]_(Ledger!vars)
  BY <1>1, Unseen
<1>2. ASSUME Same, Kept, res'.status # "ready" PROVE [Ledger!Next]_(Ledger!vars)
  BY <1>2, Unanswered DEF Ledger!Next
<1>3. CASE StartSetup
  BY <1>1, <1>3 DEF StartSetup, WriteOK, WriteFails, Same, Kept, Busy
<1>4. CASE SendWrite
  <2>1. Same
    BY <1>4 DEF SendWrite, WriteOK, WriteFails, Same
  <2>2. CASE Step("write", "written", self)
    BY <1>1, <2>1, <2>2 DEF Same, Kept, Busy
  <2>3. CASE WriteFails /\ Return("write", "send", "terminated", NoCode, {},
                 [self EXCEPT !.state = "terminated", !.reason = "broken_pipe"])
    BY <1>2, <2>1, <2>3 DEF Kept, Busy, WriteFails
  <2> QED
    BY <1>4, <2>2, <2>3 DEF SendWrite
<1>5. CASE WriteStdin
  BY <1>5 DEF WriteStdin
<1>6. CASE CloseKill
  BY <1>6 DEF CloseKill, Ledger!Next, Ledger!Die
<1>7. CASE (WaitUntilReady \/ HealthVerdict \/ CloseEvent) /\ UNCHANGED shellVars
  BY <1>7, <1>1 DEF WaitUntilReady, HealthVerdict, CloseEvent, Same, Kept, Busy
<1>8. CASE CloseState /\ UNCHANGED shellVars
  <2>1. CASE alive
    BY <1>8, <2>1 DEF CloseState, Ledger!Next, Ledger!Close
  <2>2. CASE ~alive
    BY <1>8, <2>2 DEF CloseState, Ledger!vars
  <2> QED
    BY <2>1, <2>2
<1>9. CASE Read /\ UNCHANGED shellVars
  <2> USE DEF Same, Kept, Busy
  <2>1. CASE ReadTakeOutput
    BY <1>1, <1>9, <2>1 DEF ReadTakeOutput
  <2>2. CASE ReadState
    BY <1>1, <1>2, <1>9, <2>2 DEF ReadState
  <2>3. CASE ReadEvent /\ self.event
    <3>1. Step("read_event", "read_return", [self EXCEPT !.state = "ready"]) /\ res' = res
      BY <2>3 DEF ReadEvent
    <3>2. spc = "read_event" /\ ~Closing
      BY <3>1 DEF RefInv, IInv, SafeInv, InitInv, Closing
    <3>3. alive => ~Running /\ run = n
      BY <2>3, <3>2 DEF RefInv, IInv, SafeInv, QuietInv, OwnerInv, Quiet
    <3>4. CASE Busy
      BY <1>9, <3>1, <3>3, <3>4 DEF Ledger!Next, Ledger!Notice
    <3>5. CASE ~Busy
      BY <1>1, <1>9, <3>1, <3>5
    <3> QED
      BY <3>4, <3>5
  <2>4. CASE ReadEvent /\ ~self.event
    <3>1. self.state # "ready" /\ Return("read_event", "read", self.state, NoCode, out, self)
      BY <2>4 DEF ReadEvent, Return, RefInv, NoticedInv, IInv, SafeInv, InitInv, TypeInv,
                  TypeOK, CallType
    <3> QED
      BY <1>2, <1>9, <3>1
  <2>5. CASE ReadReturn
    BY <1>9, <2>5, Answered DEF ReadReturn, RefInv, NoticedInv, Ledger!Next
  <2> QED
    BY <1>9, <2>1, <2>2, <2>3, <2>4, <2>5 DEF Read
<1>10. CASE Send /\ UNCHANGED shellVars
  <2> USE DEF Same, Kept, Busy
  <2>1. CASE BeginSend \/ SendClearBuffer \/ SendClearEvent \/ SendSetWaiting
    BY <1>1, <1>10, <2>1 DEF BeginSend, SendClearBuffer, SendClearEvent, SendSetWaiting
  <2>2. CASE SendChecks
    BY <1>1, <1>2, <1>10, <2>2 DEF SendChecks, Check
  <2>3. CASE SendClearPending
    <3>1. n < MaxCmds /\ (alive => ~Busy)
      BY <2>3 DEF SendClearPending, RefInv, NoticedInv, IInv, TypeInv, CountInv
    <3> QED
      BY <1>10, <2>3, <3>1 DEF SendClearPending, Ledger!Next, Ledger!Accept
  <2>4. CASE SendNoWait \/ SendTimedOut
    BY <1>2, <1>10, <2>4 DEF SendNoWait, SendTimedOut
  <2>5. CASE SendWait \/ SendWoken
    BY <1>1, <1>10, <2>5 DEF SendWait, SendWoken
  <2>6. CASE SendSetReady
    <3>1. alive => ~Running /\ run = n
      BY <2>6 DEF SendSetReady, RefInv, IInv, SafeInv, QuietInv, QuietPcs, OwnerInv, Quiet
    <3>2. CASE Busy
      BY <1>10, <2>6, <3>1, <3>2 DEF SendSetReady, Ledger!Next, Ledger!Notice
    <3>3. CASE ~Busy
      BY <1>1, <1>10, <2>6, <3>3 DEF SendSetReady
    <3> QED
      BY <3>2, <3>3
  <2>7. CASE SendFinish
    <3>1. CASE TakeOutput("take_terminated", "return_terminated")
               \/ TakeOutput("take_ready", "return_ready")
      BY <1>1, <1>10, <3>1
    <3>2. CASE Return("return_terminated", "send", "terminated", NoCode, out,
                      [self EXCEPT !.buf = {}])
      BY <1>2, <1>10, <3>2
    <3>3. CASE Return("return_ready", "send", "ready", self.pending, out,
                      [self EXCEPT !.buf = {}])
      BY <1>10, <3>3, Answered DEF RefInv, NoticedInv, Ledger!Next
    <3> QED
      BY <2>7, <3>1, <3>2, <3>3 DEF SendFinish
  <2> QED
    BY <1>10, <2>1, <2>2, <2>3, <2>4, <2>5, <2>6, <2>7 DEF Send
<1> QED
  BY <1>3, <1>4, <1>5, <1>6, <1>7, <1>8, <1>9, <1>10 DEF Server

LEMMA DrainRef ==
  ASSUME RefInv, Drain PROVE UNCHANGED Ledger!vars
<1>1. /\ UNCHANGED <<spc, callVars, shell, run, alive>>
      /\ alive /\ self'.state # self.state => self.state = "init" /\ self'.state = "ready"
  <2>1. UNCHANGED <<spc, callVars, shell, run, alive>>
    BY DEF Drain, DrainRead, DrainInit, DrainSetReady, DrainPrompt, DrainStore,
           DrainSetPending, DrainSetEvent, DrainEof, DrainSetTerminated, shellVars
  <2> USE DEF RefInv, IInv, SafeInv, DrainInv, TypeInv, TypeOK, SelfType, Session
  <2>2. CASE DrainRead \/ DrainPrompt \/ DrainStore \/ DrainSetPending
    BY <2>1, <2>2 DEF DrainRead, DrainPrompt, DrainStore, DrainSetPending
  <2>3. CASE DrainInit \/ DrainSetReady
    BY <2>1, <2>3 DEF DrainInit, DrainSetReady
  <2>4. CASE DrainSetEvent \/ DrainEof \/ DrainSetTerminated
    BY <2>1, <2>4 DEF DrainSetEvent, DrainEof, DrainSetTerminated
  <2> QED
    BY <2>1, <2>2, <2>3, <2>4 DEF Drain
<1>2. Same /\ Kept /\ res' = res
  BY <1>1 DEF Same, Kept, Busy, Running, callVars
<1> QED
  BY <1>2, Unseen

LEMMA TimerRef ==
  ASSUME RefInv, Timer PROVE UNCHANGED Ledger!vars
<1>1. UNCHANGED <<self, spc, callVars, shell, run, alive>>
  BY DEF RefInv, IInv, SafeInv, InitInv, Timer, TimerCheck, TimerExpire, TimerKill,
         TimerStep, shellVars
<1> QED
  BY <1>1, Unseen DEF Same, Kept, Busy, Running, callVars

LEMMA ShellRef ==
  ASSUME RefInv, Shell PROVE [Ledger!Next]_(Ledger!vars)
<1>1. n \in Nat /\ run \in Nat /\ alive /\ UNCHANGED <<self, spc, callVars>>
  BY DEF RefInv, IInv, TypeInv, TypeOK, CallType, ShellType, Shell, ShellWork
<1>2. Kept \/ ~alive'
  BY <1>1 DEF Kept, Busy
<1>3. CASE ShellDies
  BY <1>1, <1>3 DEF ShellDies, Ledger!Next, Ledger!Die, Running, callVars
<1>4. CASE ShellTake /\ UNCHANGED alive
  <2>1. /\ shell = "prompt" /\ shell' = "running"
        /\ stdin # <<>> /\ run' = Head(stdin).c
    BY <1>4 DEF ShellTake, Takes
  <2>2. run = n - 1 /\ run' = n
    BY <1>1, <2>1 DEF RefInv, IInv, SafeInv, ShellInv, OwnerInv
  <2> QED
    BY <1>1, <1>4, <2>1, <2>2 DEF Running, Ledger!vars, callVars
<1>5. CASE ShellFinish /\ UNCHANGED alive
  <2>1. shell = "printed" /\ shell' = "prompt" /\ run' = run
    BY <1>5 DEF ShellFinish
  <2>2. run = n
    BY <1>1, <2>1 DEF RefInv, IInv, SafeInv, ShellInv, OwnerInv, QuietInv, QuietPcs, Quiet
  <2> QED
    BY <1>1, <1>5, <2>1, <2>2 DEF Running, Ledger!Next, Ledger!Finish, callVars
<1>6. CASE (ShellSetup \/ ShellPrint \/ ShellBackground) /\ UNCHANGED alive
  <2>1. UNCHANGED run /\ Running' = Running
    BY <1>6 DEF ShellSetup, ShellPrint, ShellBackground, Running
  <2> QED
    BY <1>1, <1>6, <2>1, Unseen DEF Same, Kept, Busy, callVars
<1>7. ~ShellCtrlC /\ ~ShellFeed
  <2>1. stdin # <<>> => Head(stdin).k \in {"setup", "cmd"}
    BY <1>1 DEF RefInv, IInv, SafeInv, ShellInv
  <2> QED
    BY <2>1 DEF ShellCtrlC, ShellFeed, Takes
<1> QED
  BY <1>3, <1>4, <1>5, <1>6, <1>7 DEF Shell, ShellWork

\* Without stdin writes and with a shell that boots in time, a session keeps the
\* promises of CommandLedger: one command at a time, and a ready answer with an exit
\* code only for the command sent last, after the shell has finished it.
THEOREM SessionImplementsLedger ==
  ASSUME StdinKinds = {}, SlowInit = FALSE
  PROVE  Spec => ImplementsLedger
<1>1. RefInv /\ [Next]_vars => [Ledger!Next]_(Ledger!vars)
  <2> SUFFICES ASSUME RefInv, [Next]_vars PROVE [Ledger!Next]_(Ledger!vars)
    OBVIOUS
  <2>1. CASE UNCHANGED vars
    <3>1. Same /\ Kept /\ res' = res
      BY <2>1 DEF vars, callVars, shellVars, Same, Kept, Busy, Running
    <3> QED
      BY <3>1, Unseen
  <2> QED
    BY <2>1, ServerRef, DrainRef, TimerRef, ShellRef DEF Next
<1> QED
  BY <1>1, RefInit, Refinable, PTL DEF Spec, ImplementsLedger, Ledger!Spec
=============================================================================
