----------------------------- MODULE BackendProofs -----------------------------
(***************************************************************************)
(* Proofs about the two backends.                                          *)
(*                                                                         *)
(* DockerExec: its types, what the demultiplexer carries from one read to  *)
(* the next, that raw output goes through it unchanged in pieces that do   *)
(* not look like a frame, and that of framed output the pipe gets what is  *)
(* stdout and nothing else.                                                *)
(*                                                                         *)
(* SSHMaster, for every set of targets and every number of directories:    *)
(* its invariant adds to the properties of the module that directories are *)
(* numbered in the order they are made, so that a new one is nobody's.     *)
(***************************************************************************)
EXTENDS DockerExec, SSHMaster, SelectionProofs, TLAPS

-----------------------------------------------------------------------------
(* DockerExec. *)

\* As long as the pieces of raw output do not look like frames, nothing is held back, and
\* a piece is seen for what it is.
RawInv ==
  stream = "raw" /\ plain =>
    /\ carry = <<>>
    /\ demux = "read" => rest = <<>>
    /\ demux = "frame" => Len(rest) >= Header /\ ~Framed(rest)
    /\ RawOutput

DInv == TypeOK /\ CarryIsPartialFrame /\ RawInv

\* A frame begins after the first b bytes, with a payload of this size: the header is
\* not output, the payload is if the type says stdout.
FrameAt(bytes, b, size) ==
  /\ b + Header + size <= Len(bytes)
  /\ bytes[b + 1].v \in {1, 2} /\ bytes[b + Header].v = size
  /\ \A i \in 5..7 : bytes[b + i].v = 0
  /\ \A i \in 1..Header : ~bytes[b + i].out
  /\ \A i \in 1..size : bytes[b + Header + i].out = (bytes[b + 1].v = 1)

\* The bytes are frames one after the other: bounds are the places where one may begin.
Frames(bytes, bounds) ==
  /\ bounds \subseteq 0..Len(bytes) /\ 0 \in bounds
  /\ \A b \in bounds : b = Len(bytes)
       \/ \E size \in Nat : FrameAt(bytes, b, size) /\ b + Header + size \in bounds
Framing(bytes) == \E bounds : Frames(bytes, bounds)

\* Of a framed stream, what the loop holds and what is on its way are frames.
FrameInv ==
  stream = "framed" /\ ~clipped =>
    /\ demux = "read" => Framing(carry \o wire)
    /\ demux = "frame" => Framing(rest \o wire)

\* The loop holds bytes in one variable only, and what it has read of the output is in
\* the pipe or held.
FlowInv ==
  /\ demux = "read" => rest = <<>>
  /\ demux = "frame" => carry = <<>>
  /\ stream = "framed" /\ demux = "frame" /\ ~clipped => pipe \o Kept(rest) = Kept(got)
  /\ CleanOutput

-----------------------------------------------------------------------------
\* Sequences of bytes.

\* The first k bytes and the others are sequences of bytes.
LEMMA CutType ==
  ASSUME NEW s \in Seq(Byte), NEW k \in 0..Len(s)
  PROVE  SubSeq(s, 1, k) \in Seq(Byte) /\ Drop(s, k) \in Seq(Byte)
BY DEF Drop

\* The size in a header is a natural number.
LEMMA SizeType ==
  ASSUME NEW s \in Seq(Byte), Len(s) >= Header
  PROVE  Size(s) \in Nat
<1>1. s[5] \in Byte /\ s[6] \in Byte /\ s[7] \in Byte /\ s[8] \in Byte
  BY DEF Header
<1>2. \A b \in Byte : b.v \in Nat
  <2> SUFFICES ASSUME NEW b \in Byte PROVE b.v \in Nat
    OBVIOUS
  <2>1. b.v \in 0..255
    BY Zenon DEF Byte
  <2>2. 0..255 \subseteq Nat
    OBVIOUS
  <2> QED
    BY <2>1, <2>2, Zenon
<1> DEFINE b1 == s[5].v  b2 == s[6].v  b3 == s[7].v  b4 == s[8].v
<1>3. b1 \in Nat /\ b2 \in Nat /\ b3 \in Nat /\ b4 \in Nat
  BY <1>1, <1>2
<1>4. Size(s) = ((b1 * 256 + b2) * 256 + b3) * 256 + b4
  BY DEF Size
<1> HIDE DEF b1, b2, b3, b4
<1> QED
  BY <1>3, <1>4

-----------------------------------------------------------------------------
\* Output and frames.

LEMMA ByteConcat ==
  ASSUME NEW s \in Seq(Byte), NEW t \in Seq(Byte), NEW u \in Seq(Byte)
  PROVE  (s \o t) \o u = s \o (t \o u) /\ s \o t \in Seq(Byte)
BY ConcatAssociative

LEMMA KeptConcat ==
  ASSUME NEW s \in Seq(Byte), NEW t \in Seq(Byte)
  PROVE  Kept(s \o t) = Kept(s) \o Kept(t)
BY SelectedConcat DEF Kept

LEMMA KeptType == ASSUME NEW s \in Seq(Byte) PROVE Kept(s) \in Seq(Byte)
<1>1. Kept(s) \in Seq(Byte \cap Output)
  BY SelectedType DEF Kept
<1> QED
  BY <1>1

LEMMA KeptAll ==
  ASSUME NEW s \in Seq(Byte), \A i \in 1..Len(s) : s[i].out
  PROVE  Kept(s) = s
<1>1. \A i \in 1..Len(s) : s[i] \in Output
  BY DEF Output
<1> QED
  BY <1>1, SelectedAll DEF Kept

LEMMA KeptNone ==
  ASSUME NEW s \in Seq(Byte), \A i \in 1..Len(s) : ~s[i].out
  PROVE  Kept(s) = <<>>
<1>1. \A i \in 1..Len(s) : s[i] \notin Output
  BY DEF Output
<1> QED
  BY <1>1, SelectedNone DEF Kept

\* A frame is one wherever its bytes are.
LEMMA FrameMoved ==
  ASSUME NEW s, NEW t, NEW b \in Nat, NEW c \in Nat, NEW size \in Nat,
         FrameAt(s, b, size), c + Header + size <= Len(t),
         \A i \in 1..(Header + size) : t[c + i] = s[b + i]
  PROVE  FrameAt(t, c, size)
<1>1. \A i \in 1..Header : i \in 1..(Header + size)
  BY DEF Header
<1>2. \A i \in 1..Header : t[c + i] = s[b + i]
  BY <1>1
<1>3. ASSUME NEW i \in 1..size PROVE t[c + Header + i] = s[b + Header + i]
  <2>1. Header + i \in 1..(Header + size)
    BY DEF Header
  <2>2. c + (Header + i) = c + Header + i /\ b + (Header + i) = b + Header + i
    BY DEF Header
  <2> QED
    BY <2>1, <2>2
<1>4. 1 \in 1..Header /\ 5..7 \subseteq 1..Header /\ Header \in 1..Header
  BY DEF Header
<1> QED
  BY <1>2, <1>3, <1>4 DEF FrameAt

\* A frame that follows frames.
LEMMA FrameAdded ==
  ASSUME NEW s \in Seq(Byte), NEW t \in Seq(Byte), NEW size \in Nat, Framing(s),
         Len(t) = Header + size, FrameAt(t, 0, size)
  PROVE  Framing(s \o t)
<1>1. PICK bounds : Frames(s, bounds)
  BY DEF Framing
<1> DEFINE u == s \o t  m == Len(s)
<1>2. /\ m \in Nat /\ Len(u) = m + Header + size /\ Header \in Nat
      /\ \A i \in 1..m : u[i] = s[i]
      /\ \A i \in 1..(Header + size) : u[m + i] = t[i]
  BY DEF Header
<1> HIDE DEF u
<1>3. FrameAt(u, m, size)
  <2>1. m + Header + size <= Len(u) /\ \A i \in 1..(Header + size) : u[m + i] = t[0 + i]
    BY <1>2
  <2> QED
    BY <1>2, <2>1, FrameMoved
<1>4. ASSUME NEW b \in bounds, b # m
      PROVE  \E n \in Nat : FrameAt(u, b, n) /\ b + Header + n \in bounds
  <2>1. PICK n \in Nat : FrameAt(s, b, n) /\ b + Header + n \in bounds
    BY <1>1, <1>4 DEF Frames
  <2>2. b \in Nat
    BY <1>1 DEF Frames
  <2>3. FrameAt(u, b, n)
    <3>1. b + Header + n <= m
      BY <2>1 DEF FrameAt
    <3>2. b + Header + n <= Len(u)
      BY <1>2, <2>2, <3>1 DEF Header
    <3>3. \A i \in 1..(Header + n) : b + i \in 1..m
      BY <1>2, <2>2, <3>1 DEF Header
    <3> QED
      BY <1>2, <2>1, <2>2, <3>2, <3>3, FrameMoved
  <2> QED
    BY <2>1, <2>3
<1>5. Frames(u, bounds \cup {Len(u)})
  <2>1. bounds \cup {Len(u)} \subseteq 0..Len(u) /\ 0 \in bounds
    <3>1. m <= Len(u) /\ Len(u) \in Nat
      BY <1>2 DEF Header
    <3>2. bounds \subseteq 0..m /\ 0 \in bounds
      BY <1>1 DEF Frames
    <3>3. \A b \in bounds : b \in 0..Len(u)
      BY <1>2, <3>1, <3>2
    <3>4. Len(u) \in 0..Len(u)
      BY <3>1
    <3> QED
      BY <3>2, <3>3, <3>4
  <2>2. m + Header + size = Len(u)
    BY <1>2
  <2> QED
    BY <1>3, <1>4, <2>1, <2>2 DEF Frames
<1> QED
  BY <1>5 DEF Framing, u

\* Frames without the first.
LEMMA FrameDropped ==
  ASSUME NEW s \in Seq(Byte), NEW size \in Nat, NEW bounds, Frames(s, bounds),
         Header + size \in bounds
  PROVE  Framing(Drop(s, Header + size))
<1> DEFINE e == Header + size  t == Drop(s, e)
           rest1 == {b \in 0..Len(t) : b + e \in bounds}
<1>1. e \in Nat /\ e <= Len(s) /\ Len(s) \in Nat
  BY DEF Header, Frames
<1>2. Len(t) = Len(s) - e /\ \A i \in 1..(Len(s) - e) : t[i] = s[e + i]
  BY <1>1 DEF Drop
<1> HIDE DEF e, t
<1>3. 0 \in rest1
  BY <1>1, <1>2 DEF e
<1>4. ASSUME NEW b \in rest1, b # Len(t)
      PROVE  \E n \in Nat : FrameAt(t, b, n) /\ b + Header + n \in rest1
  <2>0. b \in Nat /\ b + e # Len(s) /\ b + e \in bounds
    BY <1>1, <1>2, <1>4
  <2>1. PICK n \in Nat : FrameAt(s, b + e, n) /\ b + e + Header + n \in bounds
    BY <2>0 DEF Frames
  <2>2. b + e + Header + n <= Len(s)
    BY <2>1 DEF FrameAt
  <2>3. b + Header + n <= Len(t)
    BY <1>1, <1>2, <2>0, <2>2 DEF Header
  <2>4. FrameAt(t, b, n)
    <3>1. ASSUME NEW i \in 1..(Header + n) PROVE t[b + i] = s[b + e + i]
      <4>1. b + i \in 1..(Len(s) - e) /\ e + (b + i) = b + e + i
        BY <1>1, <1>2, <2>0, <2>2 DEF Header
      <4> QED
        BY <1>2, <4>1
    <3> QED
      BY <1>1, <2>0, <2>1, <2>3, <3>1, FrameMoved
  <2>5. b + Header + n \in rest1
    BY <1>1, <1>2, <2>0, <2>1, <2>2 DEF Header
  <2> QED
    BY <2>4, <2>5
<1>5. Frames(t, rest1)
  BY <1>3, <1>4 DEF Frames
<1> QED
  BY <1>5 DEF Framing, t, e

\* What the daemon sends as a frame is one.
LEMMA FrameSent ==
  ASSUME NEW type \in {1, 2}, NEW size \in 0..MaxPayload
  PROVE  /\ Frame(type, size) \in Seq(Byte) /\ Len(Frame(type, size)) = Header + size
         /\ FrameAt(Frame(type, size), 0, size)
<1> DEFINE t == Frame(type, size)
<1>1. size \in Nat /\ size <= 200 /\ Header \in Nat /\ Header + size \in Nat
  BY DockerExecAssumption DEF Header
<1>2. t \in Seq(Byte) /\ Len(t) = Header + size
  <2>1. ASSUME NEW i \in 1..(Header + size) PROVE t[i] \in Byte
    <3>1. CASE i > Header
      <4>1. 32 + i \in 0..255
        BY <1>1, <3>1 DEF Header
      <4> QED
        BY <3>1, <4>1 DEF Byte, Frame
    <3>2. CASE ~(i > Header)
      <4>1. (IF i = 1 THEN type ELSE IF i = Header THEN size ELSE 0) \in 0..255
        BY <1>1 DEF Header
      <4> QED
        BY <3>2, <4>1 DEF Byte, Frame
    <3> QED
      BY <3>1, <3>2
  <2>2. DOMAIN t = 1..(Header + size) /\ t = [i \in 1..(Header + size) |-> t[i]]
    BY DEF Frame
  <2> HIDE DEF t
  <2> QED
    BY <1>1, <2>1, <2>2
<1>3. t[1].v = type /\ t[Header].v = size /\ \A i \in 5..7 : t[i].v = 0
  BY <1>1 DEF Header, Frame
<1>4. \A i \in 1..Header : ~t[i].out
  BY <1>1 DEF Header, Frame
<1>5. ASSUME NEW i \in 1..size PROVE t[Header + i].out = (type = 1)
  <2>1. Header + i \in 1..(Header + size) /\ Header + i > Header
    BY <1>1 DEF Header
  <2> QED
    BY <2>1 DEF Frame
<1> HIDE DEF t
<1>6. /\ 0 + Header + size <= Len(t) /\ 0 + 1 = 1 /\ 0 + Header = Header
      /\ \A i \in 1..Header : 0 + i = i
  BY <1>1, <1>2 DEF Header
<1>7. 5..7 \subseteq 1..Header
  BY DEF Header
<1>8. FrameAt(t, 0, size)
  BY <1>3, <1>4, <1>5, <1>6, <1>7 DEF FrameAt
<1> QED
  BY <1>2, <1>8 DEF t

-----------------------------------------------------------------------------

LEMMA InitInv == Init => DInv
<1> SUFFICES ASSUME Init PROVE DInv
  OBVIOUS
<1>1. TypeOK
  <2>1. stream \in {"raw", "framed"}
    BY DockerExecAssumption DEF Init
  <2>2. wire \in Seq(Byte) /\ rest \in Seq(Byte) /\ carry \in Seq(Byte) /\ pipe \in Seq(Byte)
        /\ got \in Seq(Byte)
    BY DEF Init
  <2>3. sent \in Nat /\ writes \in 0..MaxWrites /\ stdin \in 0..writes
    BY DockerExecAssumption DEF Init
  <2>4. ended \in BOOLEAN /\ clipped \in BOOLEAN
    BY DEF Init
  <2> QED
    BY <2>1, <2>2, <2>3, <2>4 DEF Init, TypeOK
<1>2. CarryIsPartialFrame
  BY DEF Init, CarryIsPartialFrame
<1>3. RawInv
  BY DEF Init, RawInv, RawOutput
<1> QED
  BY <1>1, <1>2, <1>3 DEF DInv

\* The daemon only adds to the wire.
LEMMA DaemonInv == DInv /\ Daemon => DInv'
<1> SUFFICES ASSUME DInv, Daemon PROVE DInv'
  OBVIOUS
<1> USE DEF DInv
<1>1. wire' \in Seq(Byte)
  <2>1. CASE SendRaw
    <3>1. PICK v \in {32 + sent, 1, 2} : wire' = Append(wire, [v |-> v, out |-> TRUE])
      BY <2>1 DEF SendRaw
    <3>2. [v |-> v, out |-> TRUE] \in Byte
      BY <2>1, DockerExecAssumption DEF SendRaw, TypeOK, Byte
    <3> QED
      BY <3>1, <3>2 DEF TypeOK
  <2>2. CASE SendFrame
    <3>1. PICK type \in {1, 2}, size \in 0..MaxPayload : wire' = wire \o Frame(type, size)
      BY <2>2 DEF SendFrame
    <3>2. wire' \in Seq(Byte)
      BY <3>1, FrameSent DEF TypeOK
    <3> QED
      BY <2>2, <3>2 DEF SendFrame
  <2>3. CASE UNCHANGED wire
    BY <2>3 DEF TypeOK
  <2> QED
    BY <2>1, <2>2, <2>3 DEF Daemon
<1>2. TypeOK'
  <2>1. ended' \in BOOLEAN
    BY DEF Daemon, TypeOK
  <2>2. sent' \in Nat
    BY DEF Daemon, TypeOK
  <2> QED
    BY <1>1, <2>1, <2>2 DEF Daemon, TypeOK, demuxVars, stdinVars
<1>3. CarryIsPartialFrame'
  BY DEF Daemon, CarryIsPartialFrame, demuxVars, Size
<1>4. RawInv'
  BY DEF Daemon, RawInv, RawOutput, demuxVars, Framed
<1> QED
  BY <1>2, <1>3, <1>4

-----------------------------------------------------------------------------
\* The demultiplexer.

\* A write to the pipe appends it whole, or the loop is over.
LEMMA WriteOutTypes ==
  ASSUME NEW bytes \in Seq(Byte), NEW rest1 \in Seq(Byte), NEW next \in {"read", "frame"},
         TypeOK, WriteOut(bytes, rest1, next)
  PROVE  /\ pipe' \in Seq(Byte) /\ rest' \in Seq(Byte) /\ demux' \in {"read", "frame", "done"}
         /\ \/ pipe' = pipe \o bytes /\ rest' = rest1 /\ demux' = next
            \/ demux' = "done" /\ pipe' = pipe /\ rest' = rest
<1>1. pipe \o bytes \in Seq(Byte)
  BY DEF TypeOK
<1> QED
  BY <1>1 DEF WriteOut, TypeOK

LEMMA DemuxReadInv == DInv /\ DemuxRead /\ UNCHANGED <<stream, sent, ended, stdinVars, kill>> => DInv'
<1> SUFFICES ASSUME DInv, DemuxRead, UNCHANGED <<stream, sent, ended, stdinVars, kill>>
             PROVE  DInv'
  OBVIOUS
<1> USE DEF DInv
<1>1. PICK k \in 1..Len(wire) :
        /\ rest' = carry \o SubSeq(wire, 1, k)
        /\ wire' = Drop(wire, k)
        /\ got' = got \o SubSeq(wire, 1, k)
        /\ plain' = (plain /\ k >= Header /\ ~Framed(SubSeq(wire, 1, k)))
  BY DEF DemuxRead, Combined
<1>2. wire \in Seq(Byte) /\ k \in 0..Len(wire)
  BY DEF TypeOK
<1> DEFINE data == SubSeq(wire, 1, k)
<1>3. data \in Seq(Byte) /\ wire' \in Seq(Byte)
  BY <1>1, <1>2, CutType
<1>4. Len(data) = k /\ plain' = (plain /\ k >= Header /\ ~Framed(data))
  BY <1>1, <1>2
<1> HIDE DEF data
<1>5. rest' = carry \o data /\ got' = got \o data
  BY <1>1 DEF data
<1>6. \A s, t \in Seq(Byte) : s \o t \in Seq(Byte)
  OBVIOUS
<1>7. rest' \in Seq(Byte) /\ got' \in Seq(Byte)
  BY <1>3, <1>5, <1>6 DEF TypeOK
<1>8. TypeOK'
  BY <1>3, <1>4, <1>7 DEF TypeOK, DemuxRead, stdinVars
<1>9. CarryIsPartialFrame'
  BY DEF DemuxRead, CarryIsPartialFrame
<1>10. RawInv'
  <2> SUFFICES ASSUME stream = "raw", plain, k >= Header, ~Framed(data) PROVE RawInv'
    BY <1>4 DEF RawInv
  <2>1. carry = <<>> /\ rest = <<>> /\ demux = "read" /\ demux' = "frame" /\ carry' = <<>>
    BY DEF RawInv, DemuxRead
  <2>2. rest' = data
    BY <1>3, <1>5, <2>1
  <2>3. pipe = got
    BY <2>1 DEF RawInv, RawOutput, TypeOK
  <2>4. RawOutput'
    BY <1>5, <2>2, <2>3 DEF RawOutput, DemuxRead
  <2>5. Len(rest') >= Header /\ ~Framed(rest')
    BY <1>4, <2>2
  <2> QED
    BY <2>1, <2>4, <2>5 DEF RawInv, Framed
<1> QED
  BY <1>8, <1>9, <1>10

LEMMA DemuxNoBytesInv ==
  DInv /\ DemuxNoBytes /\ UNCHANGED <<stream, sent, ended, stdinVars, kill>> => DInv'
<1> SUFFICES ASSUME DInv, DemuxNoBytes, UNCHANGED <<stream, sent, ended, stdinVars, kill>>
             PROVE  DInv'
  OBVIOUS
<1> USE DEF DInv
<1>1. TypeOK'
  BY DEF TypeOK, DemuxNoBytes, stdinVars
<1>2. CarryIsPartialFrame'
  BY DEF CarryIsPartialFrame, DemuxNoBytes, Size
<1>3. RawInv'
  BY DEF RawInv, RawOutput, DemuxNoBytes
<1> QED
  BY <1>1, <1>2, <1>3

LEMMA DemuxRawInv == DInv /\ DemuxRaw /\ UNCHANGED <<stream, sent, ended, stdinVars, kill>> => DInv'
<1> SUFFICES ASSUME DInv, DemuxRaw, UNCHANGED <<stream, sent, ended, stdinVars, kill>>
             PROVE  DInv'
  OBVIOUS
<1> USE DEF DInv
<1>1. rest \in Seq(Byte) /\ <<>> \in Seq(Byte)
  BY DEF TypeOK
<1>2. /\ pipe' \in Seq(Byte) /\ rest' \in Seq(Byte) /\ demux' \in {"read", "frame", "done"}
      /\ \/ pipe' = pipe \o rest /\ rest' = <<>> /\ demux' = "read"
         \/ demux' = "done" /\ pipe' = pipe /\ rest' = rest
  BY <1>1, WriteOutTypes DEF DemuxRaw
<1>3. TypeOK'
  BY <1>2 DEF TypeOK, DemuxRaw, stdinVars
<1>4. CarryIsPartialFrame'
  BY DEF CarryIsPartialFrame, DemuxRaw, Size
<1>5. RawInv'
  <2> SUFFICES ASSUME stream = "raw", plain PROVE RawInv'
    BY DEF RawInv, DemuxRaw
  <2>1. carry' = <<>>
    BY DEF RawInv, DemuxRaw
  <2>2. demux' # "frame" /\ (demux' = "read" => rest' = <<>>)
    BY <1>2
  <2>3. RawOutput'
    <3> SUFFICES ASSUME demux' # "done" PROVE pipe' \o rest' = got
      BY DEF RawOutput, DemuxRaw
    <3>1. pipe \o rest = got
      BY DEF RawInv, RawOutput, DemuxRaw, HasHeader
    <3>2. pipe' = pipe \o rest /\ rest' = <<>>
      BY <1>2
    <3>3. pipe' \o <<>> = pipe'
      BY <1>2
    <3> QED
      BY <3>1, <3>2, <3>3
  <2> QED
    BY <2>1, <2>2, <2>3 DEF RawInv
<1> QED
  BY <1>3, <1>4, <1>5

\* A frame is within what was read, so that cutting it off leaves a sequence.
LEMMA DemuxFrameInv ==
  DInv /\ DemuxFrame /\ UNCHANGED <<stream, sent, ended, stdinVars, kill>> => DInv'
<1> SUFFICES ASSUME DInv, DemuxFrame, UNCHANGED <<stream, sent, ended, stdinVars, kill>>
             PROVE  DInv'
  OBVIOUS
<1> USE DEF DInv
<1> DEFINE end == Header + Size(rest)
<1>1. rest \in Seq(Byte) /\ Len(rest) >= Header /\ demux = "frame"
  BY DEF TypeOK, DemuxFrame, HasHeader
<1>2. end \in Nat /\ end >= Header
  BY <1>1, SizeType DEF Header
<1>3. end \in 0..Len(rest)
  BY <1>1, <1>2 DEF DemuxFrame, Incomplete
<1>4. \/ WriteOut(SubSeq(rest, Header + 1, end), Drop(rest, end), "frame")
      \/ rest' = Drop(rest, end) /\ UNCHANGED <<demux, pipe>>
  BY DEF DemuxFrame
<1> HIDE DEF end
<1>5. Drop(rest, end) \in Seq(Byte) /\ SubSeq(rest, Header + 1, end) \in Seq(Byte)
  <2>1. SubSeq(rest, Header + 1, end) \in Seq(Byte)
    BY <1>1, <1>2, <1>3 DEF Header
  <2> QED
    BY <1>1, <1>3, <2>1, CutType
<1>6. pipe' \in Seq(Byte) /\ rest' \in Seq(Byte) /\ demux' \in {"read", "frame", "done"}
  <2>1. CASE WriteOut(SubSeq(rest, Header + 1, end), Drop(rest, end), "frame")
    BY <1>5, <2>1, WriteOutTypes
  <2>2. CASE rest' = Drop(rest, end) /\ UNCHANGED <<demux, pipe>>
    BY <1>5, <2>2 DEF TypeOK
  <2> QED
    BY <1>4, <2>1, <2>2
<1>7. TypeOK'
  BY <1>6 DEF TypeOK, DemuxFrame, stdinVars
<1>8. CarryIsPartialFrame'
  BY DEF CarryIsPartialFrame, DemuxFrame, Size
<1>9. RawInv'
  <2>1. ~(stream = "raw" /\ plain)
    BY <1>1 DEF RawInv, DemuxFrame
  <2> QED
    BY <2>1 DEF RawInv, DemuxFrame
<1> QED
  BY <1>7, <1>8, <1>9

LEMMA DemuxPartialInv ==
  DInv /\ DemuxPartial /\ UNCHANGED <<stream, sent, ended, stdinVars, kill>> => DInv'
<1> SUFFICES ASSUME DInv, DemuxPartial, UNCHANGED <<stream, sent, ended, stdinVars, kill>>
             PROVE  DInv'
  OBVIOUS
<1> USE DEF DInv
<1>1. rest \in Seq(Byte) /\ Len(rest) >= Header
  BY DEF TypeOK, DemuxPartial, HasHeader
<1>2. TypeOK'
  BY DEF TypeOK, DemuxPartial, stdinVars
<1>3. CarryIsPartialFrame'
  <2>1. carry' = rest /\ rest[1].v \in {1, 2} /\ Header + Size(rest) > Len(rest)
    BY DEF DemuxPartial, Framed, Incomplete
  <2>2. Size(rest) \in Nat /\ Len(rest) \in Nat
    BY <1>1, SizeType
  <2>3. Len(rest) < Header + Size(rest)
    BY <2>1, <2>2 DEF Header
  <2> QED
    BY <1>1, <2>1, <2>3 DEF CarryIsPartialFrame, Size
<1>4. RawInv'
  <2>1. ~(stream = "raw" /\ plain)
    BY DEF RawInv, DemuxPartial, HasHeader
  <2> QED
    BY <2>1 DEF RawInv, DemuxPartial
<1> QED
  BY <1>2, <1>3, <1>4

LEMMA DemuxShortInv ==
  DInv /\ DemuxShort /\ UNCHANGED <<stream, sent, ended, stdinVars, kill>> => DInv'
<1> SUFFICES ASSUME DInv, DemuxShort, UNCHANGED <<stream, sent, ended, stdinVars, kill>>
             PROVE  DInv'
  OBVIOUS
<1> USE DEF DInv
<1>1. clipped' \in BOOLEAN
  BY DEF DemuxShort, TypeOK
<1>2. TypeOK'
  BY <1>1 DEF TypeOK, DemuxShort, stdinVars
<1>3. CarryIsPartialFrame'
  BY DEF CarryIsPartialFrame, DemuxShort, Size
<1>4. RawInv'
  <2>1. ~(stream = "raw" /\ plain)
    BY DEF RawInv, DemuxShort, TypeOK, Header
  <2> QED
    BY <2>1 DEF RawInv, DemuxShort
<1> QED
  BY <1>2, <1>3, <1>4

-----------------------------------------------------------------------------
\* The other actions leave the output alone.

LEMMA StdinAndKillInv == DInv /\ (Write \/ Feeder \/ KillStep) => DInv'
<1> SUFFICES ASSUME DInv, Write \/ Feeder \/ KillStep PROVE DInv'
  OBVIOUS
<1> USE DEF DInv
<1>1. UNCHANGED <<daemonVars, demuxVars>>
  BY DEF Write, Feeder, KillStep
<1>2. feeder' \in {"read", "done"} /\ writes' \in 0..MaxWrites /\ stdin' \in 0..writes'
  <2>1. CASE Write
    BY <2>1, DockerExecAssumption DEF Write, TypeOK
  <2>2. CASE Feeder
    BY <2>2, DockerExecAssumption DEF Feeder, FeederSend, FeederEof, TypeOK
  <2>3. CASE KillStep
    BY <2>3 DEF KillStep, stdinVars, TypeOK
  <2> QED
    BY <2>1, <2>2, <2>3
<1>3. kill' \in {"no", "stdout", "socket", "wait", "returned"}
  BY DEF Write, Feeder, KillStep, Kill, TypeOK
<1>4. TypeOK'
  BY <1>1, <1>2, <1>3 DEF TypeOK, daemonVars, demuxVars
<1>5. CarryIsPartialFrame'
  BY <1>1 DEF CarryIsPartialFrame, demuxVars, Size
<1>6. RawInv'
  BY <1>1 DEF RawInv, RawOutput, Framed, daemonVars, demuxVars
<1> QED
  BY <1>4, <1>5, <1>6

\* Every step keeps the invariant.
LEMMA NextInv == DInv /\ [Next]_vars => DInv'
<1> SUFFICES ASSUME DInv, [Next]_vars PROVE DInv'
  OBVIOUS
<1>1. CASE Daemon
  BY <1>1, DaemonInv
<1>2. CASE Demux
  BY <1>2, DemuxReadInv, DemuxNoBytesInv, DemuxRawInv, DemuxFrameInv, DemuxPartialInv, DemuxShortInv
     DEF Demux, DemuxLoop, DemuxEof, DemuxTimeout, DemuxClosed
<1>3. CASE Write \/ Feeder \/ KillStep
  BY <1>3, StdinAndKillInv
<1>4. CASE UNCHANGED vars
  <2>1. TypeOK'
    BY <1>4 DEF DInv, TypeOK, vars, daemonVars, demuxVars, stdinVars
  <2>2. CarryIsPartialFrame'
    BY <1>4 DEF DInv, CarryIsPartialFrame, Size, vars, demuxVars
  <2>3. RawInv'
    BY <1>4 DEF DInv, RawInv, RawOutput, Framed, vars, daemonVars, demuxVars
  <2> QED
    BY <2>1, <2>2, <2>3 DEF DInv
<1> QED
  BY <1>1, <1>2, <1>3, <1>4 DEF Next

THEOREM ExecInvariant == Spec => []DInv
<1> QED
  BY InitInv, NextInv, PTL DEF Spec

\* Every variable of the exec process keeps its type, whatever pieces the socket
\* hands out and whenever kill() comes.
THEOREM ExecTypeCorrect == Spec => []TypeOK
<1>1. DInv => TypeOK
  BY DEF DInv
<1> QED
  BY <1>1, ExecInvariant, PTL

\* _demux_loop never carries less than a header, nor a frame that is complete.
THEOREM CarryIsAFrame == Spec => []CarryIsPartialFrame
<1>1. DInv => CarryIsPartialFrame
  BY DEF DInv
<1> QED
  BY <1>1, ExecInvariant, PTL

\* A terminal's output goes through _demux_loop in order and unchanged, piece after piece,
\* as long as no piece of it is shorter than a header or begins with one of the control
\* characters 1 and 2.
THEOREM RawGoesThrough == Spec => []RawOutput
<1>1. DInv => RawOutput
  BY DEF DInv, RawInv, RawOutput
<1> QED
  BY <1>1, ExecInvariant, PTL

-----------------------------------------------------------------------------
\* What becomes of the output.

LEMMA OutputStart == Init => FlowInv /\ FrameInv
<1> SUFFICES ASSUME Init PROVE FlowInv /\ FrameInv
  OBVIOUS
<1>1. Kept(<<>>) = <<>>
  BY SelectedEmpty DEF Kept
<1>2. FlowInv
  BY <1>1 DEF Init, FlowInv, CleanOutput
<1>3. Frames(<<>>, {0})
  BY DEF Frames
<1>4. FrameInv
  BY <1>3 DEF Init, FrameInv, Framing
<1> QED
  BY <1>2, <1>4

\* The daemon adds a frame to frames.
LEMMA DaemonOutput ==
  ASSUME DInv, FlowInv, FrameInv, Daemon
  PROVE  FlowInv' /\ FrameInv'
<1>1. UNCHANGED <<stream, demuxVars>>
  BY DEF Daemon
<1>2. FlowInv'
  BY <1>1 DEF FlowInv, CleanOutput, demuxVars
<1>3. CASE SendFrame
  <2>1. PICK type \in {1, 2}, size \in 0..MaxPayload : wire' = wire \o Frame(type, size)
    BY <1>3 DEF SendFrame
  <2> DEFINE t == Frame(type, size)
  <2>2. size \in Nat /\ t \in Seq(Byte) /\ Len(t) = Header + size /\ FrameAt(t, 0, size)
    BY FrameSent
  <2>3. wire' = wire \o t
    BY <2>1
  <2> HIDE DEF t
  <2>4. ASSUME NEW s \in Seq(Byte), Framing(s \o wire) PROVE Framing(s \o wire')
    <3>1. wire \in Seq(Byte) /\ t \in Seq(Byte)
      BY <2>2 DEF DInv, TypeOK
    <3>2. (s \o wire) \o t = s \o (wire \o t) /\ s \o wire \in Seq(Byte)
      BY <3>1, ByteConcat, Zenon
    <3> QED
      BY <2>2, <2>3, <2>4, <3>2, FrameAdded
  <2> QED
    BY <1>1, <1>2, <2>4 DEF FrameInv, demuxVars, DInv, TypeOK
<1>4. CASE ~SendFrame
  <2>1. stream = "framed" => UNCHANGED wire
    BY <1>4 DEF Daemon, SendRaw
  <2> QED
    BY <1>1, <1>2, <2>1 DEF FrameInv, demuxVars
<1> QED
  BY <1>3, <1>4

\* A read moves bytes from the wire behind those held back.
LEMMA DemuxReadOutput ==
  ASSUME DInv, FlowInv, FrameInv, DemuxRead, UNCHANGED stream
  PROVE  FlowInv' /\ FrameInv'
<1>1. PICK k \in 1..Len(wire) :
        /\ rest' = carry \o SubSeq(wire, 1, k)
        /\ wire' = Drop(wire, k)
        /\ got' = got \o SubSeq(wire, 1, k)
  BY DEF DemuxRead, Combined
<1>2. /\ wire \in Seq(Byte) /\ k \in 0..Len(wire) /\ carry \in Seq(Byte) /\ got \in Seq(Byte)
      /\ pipe \in Seq(Byte)
  BY DEF DInv, TypeOK
<1> DEFINE data == SubSeq(wire, 1, k)
<1> DEFINE left == Drop(wire, k)
<1>3. data \in Seq(Byte) /\ left \in Seq(Byte) /\ data \o left = wire
  <2>1. data \in Seq(Byte) /\ left \in Seq(Byte)
    BY <1>2, CutType
  <2>2. data \o left = wire
    BY <1>2 DEF Drop
  <2> QED
    BY <2>1, <2>2
<1>4. rest' = carry \o data /\ got' = got \o data /\ wire' = left
  BY <1>1
<1> HIDE DEF data, left
<1>5. rest' \o wire' = carry \o wire
  <2>1. (carry \o data) \o left = carry \o (data \o left)
    <3>1. carry \in Seq(Byte) /\ data \in Seq(Byte) /\ left \in Seq(Byte)
      BY <1>2, <1>3
    <3> QED
      BY <3>1, ByteConcat, Zenon
  <2> QED
    BY <1>3, <1>4, <2>1
<1>6. FrameInv'
  BY <1>5 DEF FrameInv, DemuxRead
<1>7. stream = "framed" /\ ~clipped => pipe \o Kept(rest') = Kept(got')
  <2>1. Kept(rest') = Kept(carry) \o Kept(data) /\ Kept(got') = Kept(got) \o Kept(data)
    BY <1>2, <1>3, <1>4, KeptConcat
  <2>2. pipe \o (Kept(carry) \o Kept(data)) = (pipe \o Kept(carry)) \o Kept(data)
    <3>1. Kept(carry) \in Seq(Byte) /\ Kept(data) \in Seq(Byte)
      BY <1>2, <1>3, KeptType
    <3> QED
      BY <1>2, <3>1, ByteConcat
  <2> QED
    BY <2>1, <2>2 DEF FlowInv, CleanOutput, DemuxRead
<1> QED
  BY <1>6, <1>7 DEF FlowInv, CleanOutput, DemuxRead

LEMMA DropConcat ==
  ASSUME NEW s \in Seq(Byte), NEW t \in Seq(Byte), NEW k \in 0..Len(s)
  PROVE  Drop(s \o t, k) = Drop(s, k) \o t
<1> DEFINE u == s \o t  a == Drop(u, k)  b == Drop(s, k)  c == b \o t
<1>1. /\ u \in Seq(Byte) /\ Len(u) = Len(s) + Len(t) /\ k \in 0..Len(u)
      /\ \A i \in 1..Len(u) : u[i] = IF i <= Len(s) THEN s[i] ELSE t[i - Len(s)]
  OBVIOUS
<1> HIDE DEF u
<1>2. /\ a \in Seq(Byte) /\ Len(a) = Len(u) - k /\ \A i \in 1..Len(a) : a[i] = u[k + i]
  BY <1>1 DEF Drop
<1>3. /\ b \in Seq(Byte) /\ Len(b) = Len(s) - k /\ \A i \in 1..Len(b) : b[i] = s[k + i]
  BY DEF Drop
<1> HIDE DEF a, b
<1>4. /\ c \in Seq(Byte) /\ Len(c) = Len(b) + Len(t)
      /\ \A i \in 1..Len(c) : c[i] = IF i <= Len(b) THEN b[i] ELSE t[i - Len(b)]
  <2>1. b \o t \in Seq(Byte) /\ Len(b \o t) = Len(b) + Len(t)
    BY <1>3, ConcatProperties, Zenon
  <2>2. \A i \in 1..(Len(b) + Len(t)) : (b \o t)[i] = IF i <= Len(b) THEN b[i] ELSE t[i - Len(b)]
    BY <1>3, ConcatProperties, Zenon
  <2> QED
    BY <2>1, <2>2
<1> HIDE DEF c
<1>5. Len(a) = Len(c)
  BY <1>1, <1>2, <1>3, <1>4
<1>6. ASSUME NEW i \in 1..Len(a) PROVE a[i] = c[i]
  <2>1. k + i \in 1..Len(u) /\ (k + i <= Len(s) <=> i <= Len(b))
        /\ (k + i) - Len(s) = i - Len(b)
    BY <1>1, <1>2, <1>3
  <2>2. a[i] = IF i <= Len(b) THEN s[k + i] ELSE t[i - Len(b)]
    BY <1>1, <1>2, <2>1
  <2>3. i <= Len(b) => i \in 1..Len(b)
    BY <1>3
  <2> QED
    BY <1>3, <1>4, <1>5, <2>2, <2>3
<1>7. a = c
  BY <1>2, <1>4, <1>5, <1>6, SeqEqual
<1> QED
  BY <1>7 DEF a, b, c, u

\* The first frame of what is held, when all of it is there.
LEMMA FirstFrame ==
  ASSUME NEW r \in Seq(Byte), NEW w \in Seq(Byte), Framing(r \o w), Len(r) >= Header,
         Header + Size(r) <= Len(r)
  PROVE  LET end == Header + Size(r)
             payload == SubSeq(r, Header + 1, end)
         IN  /\ Kept(r) = (IF r[1].v = 1 THEN payload ELSE <<>>) \o Kept(Drop(r, end))
             /\ Framing(Drop(r, end) \o w)
<1>1. PICK bounds : Frames(r \o w, bounds)
  BY DEF Framing
<1>2. PICK size \in Nat : FrameAt(r \o w, 0, size) /\ 0 + Header + size \in bounds
  <2>1. 0 # Len(r \o w)
    BY DEF Header
  <2> QED
    BY <1>1, <2>1 DEF Frames
<1>3. \A i \in 1..Len(r) : (r \o w)[i] = r[i]
  OBVIOUS
<1>4. Size(r) = size
  <2>1. r[5].v = 0 /\ r[6].v = 0 /\ r[7].v = 0 /\ r[8].v = size
    BY <1>2, <1>3 DEF FrameAt, Header
  <2> QED
    BY <2>1 DEF Size
<1> DEFINE end == Header + size
           head == SubSeq(r, 1, Header)
           payload == SubSeq(r, Header + 1, end)
           tail == Drop(r, end)
<1>5. /\ end \in 0..Len(r) /\ Header \in Nat /\ Header <= end
  BY <1>4 DEF Header
<1>6. head \in Seq(Byte) /\ payload \in Seq(Byte) /\ tail \in Seq(Byte)
  BY <1>5 DEF Drop, Header
<1>7. Len(head) = Header /\ Len(payload) = size
      /\ (\A i \in 1..Header : head[i] = r[i])
      /\ (\A i \in 1..size : payload[i] = r[Header + i])
  BY <1>5 DEF Header
<1>8. r = (head \o payload) \o tail
  <2>1. /\ 1 \in 1..(Len(r) + 1) /\ Header \in (1 - 1)..Len(r) /\ end \in Header..Len(r)
        /\ end \in (1 - 1)..Len(r) /\ Len(r) \in end..Len(r)
    BY <1>5 DEF Header
  <2>2. head \o payload = SubSeq(r, 1, end)
    BY <2>1, ConcatAdjacentSubSeq
  <2>3. SubSeq(r, 1, end) \o tail = SubSeq(r, 1, Len(r))
    BY <2>1, ConcatAdjacentSubSeq DEF Drop
  <2>4. SubSeq(r, 1, Len(r)) = r
    BY SubSeqFull
  <2> QED
    BY <2>2, <2>3, <2>4
<1>9. \A i \in 1..Header : ~head[i].out
  BY <1>2, <1>3, <1>7 DEF FrameAt, Header
<1>10. \A i \in 1..size : payload[i].out = (r[1].v = 1)
  <2>1. ASSUME NEW i \in 1..size PROVE payload[i].out = (r[1].v = 1)
    <3>1. Header + i \in 1..Len(r) /\ 0 + Header + i = Header + i /\ 1 \in 1..Len(r)
      BY <1>5 DEF Header
    <3>2. (r \o w)[0 + Header + i].out = ((r \o w)[0 + 1].v = 1)
      BY <1>2 DEF FrameAt
    <3>3. (r \o w)[0 + Header + i] = r[Header + i] /\ (r \o w)[0 + 1] = r[1]
      BY <1>3, <3>1
    <3>4. payload[i] = r[Header + i]
      BY <1>7
    <3> HIDE DEF payload
    <3> QED
      BY <3>2, <3>3, <3>4
  <2> QED
    BY <2>1
<1> HIDE DEF end, head, payload, tail
<1>11. Kept(head) = <<>>
  BY <1>6, <1>7, <1>9, KeptNone
<1>12. Kept(payload) = IF r[1].v = 1 THEN payload ELSE <<>>
  BY <1>6, <1>7, <1>10, KeptAll, KeptNone
<1>13. Kept(r) = Kept(payload) \o Kept(tail)
  <2>1. head \o payload \in Seq(Byte)
    BY <1>6
  <2>2. Kept(r) = (Kept(head) \o Kept(payload)) \o Kept(tail)
    BY <1>6, <1>8, <2>1, KeptConcat
  <2>3. <<>> \o Kept(payload) = Kept(payload)
    BY <1>6, KeptType
  <2> QED
    BY <1>11, <2>2, <2>3
<1>14. Framing(tail \o w)
  <2>1. r \o w \in Seq(Byte) /\ 0 + Header + size = Header + size
    BY DEF Header
  <2>2. Framing(Drop(r \o w, Header + size))
    BY <1>1, <1>2, <2>1, FrameDropped
  <2>3. Drop(r \o w, end) = Drop(r, end) \o w
    BY <1>5, DropConcat
  <2> QED
    BY <2>2, <2>3 DEF end, tail
<1> QED
  BY <1>4, <1>12, <1>13, <1>14 DEF end, payload, tail

\* A frame goes to the pipe if it is output, and is forgotten if not.
LEMMA DemuxWritesOutput ==
  ASSUME DInv, FlowInv, FrameInv, DemuxRaw \/ DemuxFrame, UNCHANGED stream
  PROVE  FlowInv' /\ FrameInv'
<1>1. /\ rest \in Seq(Byte) /\ wire \in Seq(Byte) /\ pipe \in Seq(Byte) /\ carry = <<>>
      /\ demux = "frame" /\ Len(rest) >= Header /\ UNCHANGED <<carry, got, clipped, wire>>
      /\ stream \in {"raw", "framed"}
  BY DEF DInv, TypeOK, FlowInv, DemuxRaw, DemuxFrame, HasHeader
<1>2. stream = "framed" /\ ~clipped => pipe \o Kept(rest) = Kept(got)
  BY <1>1 DEF FlowInv
<1>4. CASE demux' = "done"
  BY <1>4 DEF FlowInv, FrameInv, CleanOutput
<1>5. CASE DemuxRaw /\ demux' # "done"
  <2>1. demux' = "read" /\ pipe' = pipe \o rest /\ rest' = <<>>
    BY <1>5 DEF DemuxRaw, WriteOut
  <2>2. stream = "raw" \/ clipped
    <3> SUFFICES ASSUME stream = "framed", ~clipped PROVE FALSE
      BY <1>1
    <3>1. Framing(rest \o wire)
      BY <1>1 DEF FrameInv
    <3>2. 0 # Len(rest \o wire) /\ (rest \o wire)[0 + 1] = rest[1]
      BY <1>1 DEF Header
    <3>3. rest[1].v \in {1, 2}
      BY <3>1, <3>2 DEF Framing, Frames, FrameAt
    <3> QED
      BY <1>5, <3>3 DEF DemuxRaw, Framed
  <2>4. FlowInv'
    BY <1>1, <2>1, <2>2 DEF FlowInv, CleanOutput
  <2>5. FrameInv'
    BY <1>1, <2>1, <2>2 DEF FrameInv
  <2> QED
    BY <2>4, <2>5
<1>6. CASE DemuxFrame /\ demux' # "done"
  <2> DEFINE end == Header + Size(rest)
             payload == SubSeq(rest, Header + 1, end)
             tail == Drop(rest, end)
  <2>1. /\ rest' = tail /\ demux' = "frame"
        /\ pipe' = IF rest[1].v = 1 THEN pipe \o payload ELSE pipe
    BY <1>1, <1>6 DEF DemuxFrame, WriteOut
  <2> SUFFICES ASSUME stream = "framed", ~clipped PROVE FlowInv' /\ FrameInv'
    BY <1>1, <2>1 DEF FlowInv, FrameInv, CleanOutput
  <2>3. end \in Nat /\ Header <= end /\ end <= Len(rest)
    BY <1>1, <1>6, SizeType DEF DemuxFrame, Incomplete, Header
  <2>4. payload \in Seq(Byte) /\ tail \in Seq(Byte)
    BY <1>1, <2>3 DEF Drop, Header
  <2>5. /\ Kept(rest) = (IF rest[1].v = 1 THEN payload ELSE <<>>) \o Kept(tail)
        /\ Framing(tail \o wire)
    <3>1. Framing(rest \o wire)
      BY <1>1 DEF FrameInv
    <3>2. Header + Size(rest) <= Len(rest)
      BY <2>3
    <3> QED
      BY <1>1, <3>1, <3>2, FirstFrame
  <2> HIDE DEF end, payload, tail
  <2>6. pipe' \o Kept(tail) = pipe \o Kept(rest)
    <3>1. Kept(tail) \in Seq(Byte)
      BY <2>4, KeptType
    <3>2. CASE rest[1].v = 1
      <4>1. (pipe \o payload) \o Kept(tail) = pipe \o (payload \o Kept(tail))
        <5>1. pipe \in Seq(Byte) /\ payload \in Seq(Byte)
          BY <1>1, <2>4
        <5> QED
          BY <3>1, <5>1, ByteConcat, Zenon
      <4> QED
        BY <2>1, <2>5, <3>2, <4>1
    <3>3. CASE rest[1].v # 1
      <4>1. <<>> \o Kept(tail) = Kept(tail)
        BY <3>1, ConcatEmptySeq, Zenon
      <4> QED
        BY <2>1, <2>5, <3>3, <4>1
    <3> QED
      BY <3>2, <3>3
  <2> QED
    BY <1>1, <1>2, <2>1, <2>5, <2>6 DEF FlowInv, FrameInv, CleanOutput
<1> QED
  BY <1>4, <1>5, <1>6

\* What is held back is held; fewer than eight bytes are let go only by clipping.
LEMMA DemuxKeepsOutput ==
  ASSUME DInv, FlowInv, FrameInv, UNCHANGED stream, DemuxPartial \/ DemuxShort \/ DemuxNoBytes
  PROVE  FlowInv' /\ FrameInv'
<1>1. CASE DemuxPartial
  BY <1>1 DEF DemuxPartial, HasHeader, FlowInv, FrameInv, CleanOutput
<1>2. CASE DemuxShort
  <2>1. clipped' \/ (~clipped /\ rest = <<>> /\ carry = <<>>)
    BY <1>2 DEF DemuxShort, FlowInv
  <2> QED
    BY <1>2, <2>1 DEF DemuxShort, FlowInv, FrameInv, CleanOutput
<1>3. CASE DemuxNoBytes
  BY <1>3 DEF DemuxNoBytes, FlowInv, FrameInv, CleanOutput
<1> QED
  BY <1>1, <1>2, <1>3

\* _demux_loop, for frames of both types, however the socket cuts them into pieces: as long as no piece ends within a header, what is in the pipe and held
\* back is the output among the bytes read, in order, without headers and without stderr.
THEOREM OutputIsClean == Spec => []CleanOutput
<1> DEFINE OutInv == FlowInv /\ FrameInv
<1>1. Init => OutInv
  BY OutputStart
<1>2. DInv /\ OutInv /\ [Next]_vars => OutInv'
  <2> SUFFICES ASSUME DInv, FlowInv, FrameInv, [Next]_vars PROVE FlowInv' /\ FrameInv'
    OBVIOUS
  <2>1. CASE Daemon
    BY <2>1, DaemonOutput
  <2>2. CASE Demux
    <3>1. UNCHANGED stream
      BY <2>2 DEF Demux, DemuxLoop
    <3> QED
      BY <2>2, <3>1, DemuxReadOutput, DemuxWritesOutput, DemuxKeepsOutput
         DEF Demux, DemuxLoop, DemuxEof, DemuxTimeout, DemuxClosed
  <2>3. CASE Write \/ Feeder \/ KillStep \/ UNCHANGED vars
    <3>1. UNCHANGED <<stream, wire, demuxVars>>
      BY <2>3 DEF Write, Feeder, KillStep, vars, daemonVars
    <3> QED
      BY <3>1 DEF FlowInv, FrameInv, CleanOutput, demuxVars
  <2> QED
    BY <2>1, <2>2, <2>3 DEF Next
<1>3. OutInv => CleanOutput
  BY DEF FlowInv
<1> HIDE DEF OutInv
<1> QED
  BY <1>1, <1>2, <1>3, ExecInvariant, PTL DEF Spec

-----------------------------------------------------------------------------
(* SSHMaster. *)

\* Only directories that were made exist, hold a master or are in use.
Numbered ==
  /\ dirs \subseteq 1..made /\ masters \subseteq 1..made

MastersInv == MastersType /\ Numbered /\ SocketsExist /\ SocketsApart /\ LiveSocketReaped

\* What a call of create makes: nothing for a connected name, whose socket exists, and
\* otherwise one directory per call of _socket_path.
LEMMA MakeDirsEffect ==
  ASSUME MastersType, Numbered, SocketsExist, NEW t \in Targets, NEW calls \in Nat \ {0},
         MakeDirs(t, calls)
  PROVE  /\ Connected(t) => dirs' = dirs /\ made' = made
         /\ ~Connected(t) => /\ dirs' = dirs \cup (made + 1)..(made + calls)
                             /\ made' = made + calls
         /\ made' \in 0..MaxDirs
<1> DEFINE new == {SocketPath(t, k) : k \in 1..calls} \ dirs
<1>1. made \in Nat /\ MaxDirs \in Nat
  BY SSHMasterAssumption DEF MastersType
<1>2. CASE Connected(t)
  <2>1. new = {}
    BY <1>2 DEF SocketPath, SocketsExist
  <2> QED
    BY <1>1, <1>2, <2>1 DEF MakeDirs, MastersType
<1>3. CASE ~Connected(t)
  <2>1. {SocketPath(t, k) : k \in 1..calls} = (made + 1)..(made + calls)
    <3>1. ASSUME NEW d \in (made + 1)..(made + calls)
          PROVE  d \in {SocketPath(t, k) : k \in 1..calls}
      <4>1. d - made \in 1..calls /\ d = made + (d - made)
        BY <1>1
      <4> QED
        BY <4>1, <1>3 DEF SocketPath
    <3>2. ASSUME NEW k \in 1..calls
          PROVE  SocketPath(t, k) \in (made + 1)..(made + calls)
      BY <1>1, <1>3 DEF SocketPath
    <3> QED
      BY <3>1, <3>2
  <2>2. \A d \in (made + 1)..(made + calls) : d \notin dirs
    BY <1>1 DEF Numbered
  <2>3. new = (made + 1)..(made + calls) /\ made + 1 \in new
    BY <1>1, <2>1, <2>2
  <2> QED
    BY <1>1, <1>3, <2>3 DEF MakeDirs
<1> QED
  BY <1>2, <1>3

\* A create of a name without a state gives it directories that nobody has, one of
\* a name with a state puts the master where the state says.
LEMMA CreateEffect ==
  ASSUME MastersInv, NEW t \in Targets, Create(t)
  PROVE  /\ Connected(t) =>
              /\ dirs' = dirs /\ made' = made
              /\ masters' = masters \cup {targets[t].socket}
              /\ targets' = [targets EXCEPT ![t] =
                   [socket |-> targets[t].socket, socket_dir |-> targets[t].socket]]
         /\ ~Connected(t) =>
              \E a, b \in Dirs :
                /\ made + 1 < a /\ a < b /\ b <= made'
                /\ made < made' /\ made' <= MaxDirs
                /\ dirs' = dirs \cup (made + 1)..made'
                /\ masters' = masters \cup {made + 1}
                /\ targets' = [targets EXCEPT ![t] = [socket |-> a, socket_dir |-> b]]
<1> DEFINE probe == IF t \in Windows THEN 1 ELSE 0
<1>1. made \in Nat /\ MaxDirs \in Nat /\ probe \in 0..1 /\ 3 + probe \in Nat \ {0}
  BY SSHMasterAssumption DEF MastersInv, MastersType
<1>2. MakeDirs(t, 3 + probe)
  BY DEF Create
<1>3. /\ Connected(t) => dirs' = dirs /\ made' = made
      /\ ~Connected(t) => /\ dirs' = dirs \cup (made + 1)..(made + (3 + probe))
                          /\ made' = made + (3 + probe)
      /\ made' \in 0..MaxDirs
  BY <1>1, <1>2, MakeDirsEffect DEF MastersInv
<1>4. CASE Connected(t)
  BY <1>3, <1>4 DEF Create, SocketPath, SocketDir
<1>5. CASE ~Connected(t)
  <2> DEFINE a == made + (2 + probe)
             b == made + (3 + probe)
  <2>1. /\ made + 1 < a /\ a < b /\ b <= made' /\ made < made' /\ made' <= MaxDirs
        /\ a \in Dirs /\ b \in Dirs
    BY <1>1, <1>3, <1>5 DEF Dirs
  <2>2. /\ dirs' = dirs \cup (made + 1)..made'
        /\ masters' = masters \cup {made + 1}
        /\ targets' = [targets EXCEPT ![t] = [socket |-> a, socket_dir |-> b]]
    BY <1>3, <1>5 DEF Create, SocketPath, SocketDir
  <2> QED
    BY <1>5, <2>1, <2>2
<1> QED
  BY <1>4, <1>5

LEMMA MastersInitInv == MastersInit => MastersInv
BY SSHMasterAssumption
   DEF MastersInit, MastersInv, MastersType, Numbered, SocketsExist, SocketsApart,
       LiveSocketReaped, Connected, NoState

LEMMA CreateInv ==
  ASSUME MastersInv, NEW t \in Targets, Create(t)
  PROVE  MastersInv'
<1> USE DEF MastersInv, MastersType, Numbered, Connected, NoState, Dirs
<1>1. made \in Nat /\ MaxDirs \in Nat
  BY SSHMasterAssumption
<1>2. CASE Connected(t)
  <2>1. /\ dirs' = dirs /\ made' = made
        /\ masters' = masters \cup {targets[t].socket}
        /\ targets' = [targets EXCEPT ![t] =
             [socket |-> targets[t].socket, socket_dir |-> targets[t].socket]]
    BY <1>2, CreateEffect
  <2>2. targets[t].socket \in dirs /\ targets[t].socket \in Dirs
    BY <1>2 DEF SocketsExist
  <2>3. MastersType' /\ Numbered'
    BY <2>1, <2>2
  <2>4. SocketsExist' /\ SocketsApart'
    BY <2>1, <2>2, <1>2 DEF SocketsExist, SocketsApart
  <2>5. LiveSocketReaped'
    <3>1. ASSUME NEW u \in Targets, u # t, targets[u].socket \in masters'
          PROVE  targets[u].socket \in masters
      <4>1. CASE Connected(u)
        BY <2>1, <1>2, <3>1, <4>1 DEF SocketsApart
      <4>2. CASE ~Connected(u)
        BY <2>1, <2>2, <1>1, <3>1, <4>2
      <4> QED
        BY <4>1, <4>2
    <3> QED
      BY <2>1, <3>1 DEF LiveSocketReaped
  <2> QED
    BY <2>3, <2>4, <2>5
<1>3. CASE ~Connected(t)
  <2>1. PICK a, b \in Dirs :
          /\ made + 1 < a /\ a < b /\ b <= made'
          /\ made < made' /\ made' <= MaxDirs
          /\ dirs' = dirs \cup (made + 1)..made'
          /\ masters' = masters \cup {made + 1}
          /\ targets' = [targets EXCEPT ![t] = [socket |-> a, socket_dir |-> b]]
    BY <1>3, CreateEffect
  <2>2. made' \in Nat
    BY <1>1, <1>3, MakeDirsEffect DEF Create
  <2>3. MastersType' /\ Numbered'
    BY <1>1, <2>1, <2>2
  <2>4. SocketsExist'
    BY <1>1, <2>1, <2>2 DEF SocketsExist
  <2>5. SocketsApart'
    BY <1>1, <2>1, <2>2 DEF SocketsApart, SocketsExist
  <2>6. LiveSocketReaped'
    <3>1. ASSUME NEW u \in Targets, targets[u].socket = made + 1
          PROVE  FALSE
      BY <3>1, <1>1 DEF SocketsExist
    <3> QED
      BY <1>1, <2>1, <3>1 DEF LiveSocketReaped
  <2> QED
    BY <2>3, <2>4, <2>5, <2>6
<1> QED
  BY <1>2, <1>3

LEMMA CreateFailsInv ==
  ASSUME MastersInv, NEW t \in Targets, CreateFails(t)
  PROVE  MastersInv'
<1>1. /\ dirs \subseteq dirs' /\ dirs' \subseteq 1..made' /\ made <= made'
      /\ made' \in 0..MaxDirs
  <2>1. made \in Nat /\ MaxDirs \in Nat /\ 1 \in Nat \ {0}
    BY SSHMasterAssumption DEF MastersInv, MastersType
  <2>2. MakeDirs(t, 1)
    BY DEF CreateFails
  <2>3. /\ Connected(t) => dirs' = dirs /\ made' = made
        /\ ~Connected(t) => dirs' = dirs \cup (made + 1)..(made + 1) /\ made' = made + 1
        /\ made' \in 0..MaxDirs
    BY <2>1, <2>2, MakeDirsEffect DEF MastersInv
  <2>4. dirs \subseteq 1..made
    BY DEF MastersInv, Numbered
  <2>5. made <= made' /\ dirs \subseteq dirs'
    BY <2>1, <2>3 DEF Connected
  <2>6. ASSUME NEW d \in dirs' PROVE d \in 1..made'
    <3>1. d \in dirs \/ (d \in (made + 1)..(made + 1) /\ made' = made + 1)
      BY <2>3 DEF Connected
    <3> QED
      BY <2>1, <2>3, <2>4, <2>5, <3>1
  <2> QED
    BY <2>3, <2>5, <2>6
<1>2. made \in Nat /\ MaxDirs \in Nat
  BY SSHMasterAssumption DEF MastersInv, MastersType
<1> QED
  BY <1>1, <1>2
     DEF CreateFails, MastersInv, MastersType, Numbered, SocketsExist, SocketsApart,
         LiveSocketReaped, Connected, Dirs

\* The directory that goes belongs to the name alone.
LEMMA RemoveInv ==
  ASSUME MastersInv, NEW t \in Targets, Remove(t)
  PROVE  MastersInv'
<1> USE DEF MastersInv, MastersType, Numbered, Connected, NoState, Dirs, Remove
<1>1. made \in Nat /\ MaxDirs \in Nat
  BY SSHMasterAssumption
<1>2. MastersType' /\ Numbered' /\ SocketsApart'
  BY <1>1 DEF SocketsApart
<1>3. SocketsExist'
  BY DEF SocketsExist, SocketsApart
<1>4. LiveSocketReaped'
  BY DEF LiveSocketReaped
<1> QED
  BY <1>2, <1>3, <1>4

LEMMA MastersNextInv == MastersInv /\ [MastersNext]_masterVars => MastersInv'
<1> SUFFICES ASSUME MastersInv, [MastersNext]_masterVars PROVE MastersInv'
  OBVIOUS
<1>1. ASSUME NEW t \in Targets, Connect(t) \/ EnsureAlive(t) PROVE MastersInv'
  BY <1>1, CreateInv, CreateFailsInv DEF Connect, EnsureAlive
<1>2. ASSUME NEW t \in Targets, Remove(t) PROVE MastersInv'
  BY <1>2, RemoveInv
<1>3. ASSUME NEW d \in masters, MasterDies(d) PROVE MastersInv'
  BY <1>3 DEF MasterDies, MastersInv, MastersType, Numbered, SocketsExist, SocketsApart,
              LiveSocketReaped,
              Connected
<1>4. CASE UNCHANGED masterVars
  BY <1>4 DEF masterVars, MastersInv, MastersType, Numbered, SocketsExist, SocketsApart,
              LiveSocketReaped, Connected
<1> QED
  BY <1>1, <1>2, <1>3, <1>4 DEF MastersNext

LEMMA MastersInvHolds == MastersSpec => []MastersInv
BY MastersInitInv, MastersNextInv, PTL DEF MastersSpec

\* _targets, the directories and the masters keep their types.
THEOREM SSHTypeCorrect == MastersSpec => []MastersType
<1>1. MastersInv => MastersType
  BY DEF MastersInv
<1> QED
  BY <1>1, MastersInvHolds, PTL

\* The directories of a connected name exist: no remove and no failed create of any
\* name takes them away.
THEOREM ConnectedHaveDirs == MastersSpec => []SocketsExist
<1>1. MastersInv => SocketsExist
  BY DEF MastersInv
<1> QED
  BY <1>1, MastersInvHolds, PTL

\* No two names share a socket or a directory that remove deletes.
THEOREM NamesApart == MastersSpec => []SocketsApart
<1>1. MastersInv => SocketsApart
  BY DEF MastersInv
<1> QED
  BY <1>1, MastersInvHolds, PTL

\* A connected name has its paths to itself for as long as it is connected.
THEOREM SocketsAreOwn == MastersSpec => []SocketsOwn
<1>1. SocketsExist /\ SocketsApart => SocketsOwn
  BY DEF SocketsOwn
<1> QED
  BY <1>1, ConnectedHaveDirs, NamesApart, PTL

\* A name on whose socket a master has answered is cleaned up by remove.
THEOREM ReconnectedIsReaped == MastersSpec => []LiveSocketReaped
<1>1. MastersInv => LiveSocketReaped
  BY DEF MastersInv
<1> QED
  BY <1>1, MastersInvHolds, PTL

\* A reconnection leaves the control path of a name as the open shells know it.
THEOREM ReconnectKeepsSocket == MastersSpec => SocketStable
<1>1. ASSUME MastersInv, [MastersNext]_masterVars
      PROVE  [\A t \in Targets :
                Connected(t) /\ Connected(t)' => targets'[t].socket = targets[t].socket]_masterVars
  <2>1. ASSUME NEW u \in Targets, Create(u)
        PROVE  \A t \in Targets :
                 Connected(t) /\ Connected(t)' => targets'[t].socket = targets[t].socket
    BY <1>1, <2>1, CreateEffect DEF MastersInv, MastersType, Connected
  <2>2. ASSUME NEW u \in Targets, Remove(u)
        PROVE  \A t \in Targets :
                 Connected(t) /\ Connected(t)' => targets'[t].socket = targets[t].socket
    BY <1>1, <2>2 DEF MastersInv, MastersType, Remove, Connected
  <2>3. CASE UNCHANGED targets
    BY <2>3
  <2> QED
    BY <1>1, <2>1, <2>2, <2>3 DEF MastersNext, Connect, EnsureAlive, CreateFails, MasterDies, masterVars
<1> QED
  BY <1>1, MastersInvHolds, PTL DEF MastersSpec, SocketStable
=============================================================================
