----------------------------- MODULE DockerExec -----------------------------
(***************************************************************************)
(* The process of a shell in a container: DockerExecProcess of             *)
(* docker_backend.py, which dresses the socket of a docker exec as a Popen *)
(* object.  A demultiplexing thread copies the socket to the stdout pipe,  *)
(* a second thread copies the stdin pipe to the socket, and kill() takes   *)
(* both down.                                                              *)
(*                                                                         *)
(* The daemon sends the terminal's bytes as they are, or, to an exec       *)
(* without a terminal, frames with an 8-byte header (stream type, three    *)
(* zeros, size).  The loop decides at the first byte of a piece which it   *)
(* has before it; a terminal may print that byte too.  The constructor     *)
(* always asks for a terminal (docker_backend.py:259): the frames are      *)
(* there for the half of the loop that is about them.  The socket hands    *)
(* the bytes out in pieces of any length.                                  *)
(***************************************************************************)
EXTENDS Naturals, Sequences, Selection

CONSTANTS
  Streams,     \* how the daemon sends output: "raw", "framed"
  MaxBytes,    \* bound on the bytes of raw output
  Controls,    \* the places of raw output where a control character 1 or 2 may stand
  MaxFrames,   \* bound on the frames
  MaxPayload,  \* bound on the payload of a frame
  MaxWrites    \* bound on the writes to stdin

ASSUME DockerExecAssumption ==
  /\ Streams \subseteq {"raw", "framed"}
  /\ MaxBytes \in 0..200 /\ MaxFrames \in Nat /\ MaxPayload \in 0..200 /\ MaxWrites \in Nat
  /\ Controls \subseteq Nat

VARIABLES
  stream,   \* how this exec's output is sent
  sent,     \* raw bytes or frames sent so far
  wire,     \* sent by the daemon, not yet read from the socket
  ended,    \* whether the shell has ended and the daemon has closed its side
  demux,    \* where _demux_loop is
  rest,     \* combined[offset:]
  carry,    \* the variable of that name
  pipe,     \* what was written to the stdout pipe
  got,      \* history: the bytes read from the socket
  clipped,  \* history: whether the loop let go of part of a header
  plain,    \* history: whether every piece so far was at least as long as a header and
            \* did not begin like one
  feeder,   \* where _stdin_loop is
  stdin,    \* number of writes in the stdin pipe
  writes,   \* writes so far
  kill      \* how far kill() has come

demuxVars == <<demux, rest, carry, pipe, got, clipped, plain>>
stdinVars == <<feeder, stdin, writes>>
daemonVars == <<stream, sent, wire, ended>>
vars == <<daemonVars, demuxVars, stdinVars, kill>>

-----------------------------------------------------------------------------

Header == 8

\* A byte and whether it is output, as against header or stderr.
Byte == [v : 0..255, out : BOOLEAN]

Output == {b \in Byte : b.out}

Kept(bytes) == Selected(bytes, Output)
Drop(bytes, k) == SubSeq(bytes, k + 1, Len(bytes))

Framed(bytes) == bytes[1].v \in {1, 2}
Size(bytes) == ((bytes[5].v * 256 + bytes[6].v) * 256 + bytes[7].v) * 256 + bytes[8].v

Incomplete(bytes) == Header + Size(bytes) > Len(bytes)

Init ==
  /\ stream \in Streams /\ sent = 0 /\ wire = <<>> /\ ended = FALSE
  /\ demux = "read" /\ rest = <<>> /\ carry = <<>> /\ pipe = <<>>
  /\ got = <<>> /\ clipped = FALSE /\ plain = TRUE
  /\ feeder = "read" /\ stdin = 0 /\ writes = 0
  /\ kill = "no"

-----------------------------------------------------------------------------
\* The daemon.  A byte of a terminal is told apart by its place, unless it is one of the
\* control characters that the loop takes for a frame's type.

SendRaw ==
  /\ stream = "raw" /\ sent < MaxBytes
  /\ \E v \in {32 + sent} \cup (IF sent \in Controls THEN {1, 2} ELSE {}) :
       wire' = Append(wire, [v |-> v, out |-> TRUE])

\* A frame on the wire, of stdout (type 1) or stderr.
Frame(type, size) ==
  [i \in 1..(Header + size) |->
     IF i > Header THEN [v |-> 32 + i, out |-> type = 1]
     ELSE [v |-> IF i = 1 THEN type ELSE IF i = Header THEN size ELSE 0, out |-> FALSE]]

SendFrame ==
  /\ stream = "framed" /\ sent < MaxFrames
  /\ \E type \in {1, 2}, size \in 0..MaxPayload : wire' = wire \o Frame(type, size)

Daemon ==
  /\ ~ended
  /\ \/ (SendRaw \/ SendFrame) /\ sent' = sent + 1 /\ UNCHANGED ended
     \/ ended' = TRUE /\ UNCHANGED <<sent, wire>>
  /\ UNCHANGED <<stream, demuxVars, stdinVars, kill>>

-----------------------------------------------------------------------------
\* _demux_loop.

\* Slip: the bytes held back are forgotten.
Combined_NoCarry(data) == data

Combined(data) == carry \o data

\* sock.read(4096) returns what has arrived, or the first part of it.
DemuxRead ==
  /\ demux = "read" /\ demux' = "frame"
  /\ \E k \in 1..Len(wire) :
       LET data == SubSeq(wire, 1, k)
       IN  /\ rest' = Combined(data) /\ wire' = Drop(wire, k) /\ got' = got \o data
           /\ plain' = (plain /\ k >= Header /\ ~Framed(data))
  /\ carry' = <<>>
  /\ UNCHANGED <<pipe, clipped>>

\* Slip: what the socket returned is not looked at.
DemuxNoBytes_Unchecked ==
  /\ demux = "read" /\ demux' = "frame"
  /\ rest' = Append(carry, [v |-> 256, out |-> FALSE])
  /\ UNCHANGED <<carry, pipe, got, clipped, plain, wire>>

\* Not bytes, or none: the loop is left.
DemuxNoBytes ==
  /\ demux = "read" /\ demux' = "done"
  /\ UNCHANGED <<rest, carry, pipe, got, clipped, plain, wire>>

\* Slip: the read has no timeout.
DemuxTimeout_Never == FALSE /\ DemuxNoBytes

\* The end of the stream; 300 s without a byte, also of a shell that lives; a read
\* that begins after kill() has closed the socket (one under way is not woken).
DemuxEof == ended /\ wire = <<>> /\ DemuxNoBytes

DemuxTimeout == wire = <<>> /\ DemuxNoBytes

DemuxClosed == kill \in {"wait", "returned"} /\ DemuxNoBytes

\* os.write, with what follows it; without a reader it raises and the thread ends.
WriteOut(bytes, rest1, next) ==
  \/ /\ kill \in {"no", "stdout"}
     /\ pipe' = pipe \o bytes /\ rest' = rest1 /\ demux' = next
  \/ /\ kill \notin {"no", "stdout"}
     /\ demux' = "done" /\ UNCHANGED <<pipe, rest>>

HasHeader == demux = "frame" /\ Len(rest) >= Header

\* Slip: a header is skipped that raw output does not have.
DemuxRaw_AfterHeader ==
  /\ HasHeader /\ ~Framed(rest)
  /\ WriteOut(Drop(rest, Header), <<>>, "read")
  /\ UNCHANGED <<carry, got, clipped, plain, wire>>

\* Not a stream type: the rest of the chunk is raw output.
DemuxRaw ==
  /\ HasHeader /\ ~Framed(rest)
  /\ WriteOut(rest, <<>>, "read")
  /\ UNCHANGED <<carry, got, clipped, plain, wire>>

DemuxFrame ==
  /\ HasHeader /\ Framed(rest) /\ ~Incomplete(rest)
  /\ LET end == Header + Size(rest)
     IN  IF rest[1].v = 1
         THEN WriteOut(SubSeq(rest, Header + 1, end), Drop(rest, end), "frame")
         ELSE rest' = Drop(rest, end) /\ UNCHANGED <<demux, pipe>>
  /\ UNCHANGED <<carry, got, clipped, plain, wire>>

DemuxPartial ==
  /\ HasHeader /\ Framed(rest) /\ Incomplete(rest)
  /\ demux' = "read" /\ carry' = rest /\ rest' = <<>>
  /\ UNCHANGED <<pipe, got, clipped, plain, wire>>

\* Fewer than 8 bytes are left: the inner loop ends and they are not carried on.
DemuxShort ==
  /\ demux = "frame" /\ Len(rest) < Header
  /\ demux' = "read" /\ rest' = <<>>
  /\ clipped' = (clipped \/ rest # <<>>)
  /\ UNCHANGED <<carry, pipe, got, plain, wire>>

DemuxLoop ==
  /\ \/ DemuxRead \/ DemuxEof \/ DemuxTimeout
     \/ DemuxRaw \/ DemuxFrame \/ DemuxPartial \/ DemuxShort
  /\ UNCHANGED <<stream, sent, ended, stdinVars, kill>>

Demux == DemuxLoop \/ (DemuxClosed /\ UNCHANGED <<stream, sent, ended, stdinVars, kill>>)

-----------------------------------------------------------------------------
\* The stdin pipe and _stdin_loop.

\* A write of ShellSession; a pipe without a reader breaks and changes nothing.
Write ==
  /\ kill = "no" /\ feeder # "done" /\ writes < MaxWrites
  /\ stdin' = stdin + 1 /\ writes' = writes + 1
  /\ UNCHANGED <<feeder, daemonVars, demuxVars, kill>>

\* sendall, or its failure, which ends the thread: the connection is gone, or has not
\* taken the bytes for 300 s.
FeederSend ==
  /\ feeder = "read" /\ stdin > 0
  /\ stdin' = 0
  /\ feeder' \in {"read", "done"}

FeederEof == feeder = "read" /\ stdin = 0 /\ kill # "no" /\ feeder' = "done" /\ UNCHANGED stdin

Feeder ==
  /\ FeederSend \/ FeederEof
  /\ UNCHANGED <<writes, daemonVars, demuxVars, kill>>

-----------------------------------------------------------------------------
\* kill(): stdin, stdout, the socket, then at most 2 s for the demultiplexer.  The
\* second close of each pipe end finds a closed descriptor.

Kill(from, to) == kill = from /\ kill' = to

KillStep ==
  /\ \/ Kill("no", "stdout") \/ Kill("stdout", "socket") \/ Kill("socket", "wait")
     \/ Kill("wait", "returned")
  /\ UNCHANGED <<daemonVars, demuxVars, stdinVars>>

-----------------------------------------------------------------------------

Next == Daemon \/ Demux \/ Write \/ Feeder \/ KillStep

Spec == Init /\ [][Next]_vars

\* Both threads run on and a kill() that has begun is carried on; nothing is owed by
\* the daemon, the agent or the one who kills.
FairSpec ==
  /\ Spec /\ WF_vars(DemuxLoop) /\ WF_vars(Feeder) /\ WF_vars(kill # "no" /\ KillStep)

-----------------------------------------------------------------------------

\* The loop keeps bytes, and the threads and kill() are where the code can be.
TypeOK ==
  /\ stream \in {"raw", "framed"} /\ sent \in Nat /\ wire \in Seq(Byte) /\ ended \in BOOLEAN
  /\ demux \in {"read", "frame", "done"}
  /\ rest \in Seq(Byte) /\ carry \in Seq(Byte) /\ pipe \in Seq(Byte)
  /\ got \in Seq(Byte) /\ clipped \in BOOLEAN /\ plain \in BOOLEAN
  /\ feeder \in {"read", "done"} /\ writes \in 0..MaxWrites /\ stdin \in 0..writes
  /\ kill \in {"no", "stdout", "socket", "wait", "returned"}

\* What is carried on to the next read begins with what looks like the whole header of a
\* frame and is not yet all of its payload: a frame is never held back once it has
\* arrived, nor cut in two.
CarryIsPartialFrame ==
  carry # <<>> => /\ Len(carry) >= Header /\ carry[1].v \in {1, 2}
                 /\ Len(carry) < Header + Size(carry)

\* Of frames, the pipe holds the output among the bytes read, in order, without a header
\* and without stderr, as long as no piece ends within a header.
CleanOutput ==
  stream = "framed" /\ demux = "read" /\ ~clipped => pipe \o Kept(carry) = Kept(got)

\* Raw output is passed on as it was read and in its order, piece after piece, for as
\* long as no piece is shorter than a header or begins like one: what is in the pipe and
\* what the loop still holds is all that the socket returned.
RawOutput == stream = "raw" /\ plain /\ demux # "done" => pipe \o rest = got

\* kill() comes back, and both threads end, whatever the daemon does.
KillEnds == kill # "no" ~> kill = "returned" /\ demux = "done" /\ feeder = "done"
=============================================================================
