------------------------------ MODULE SSHMaster ------------------------------
(***************************************************************************)
(* The control masters of SSHBackend in ssh_backend.py: the temporary      *)
(* directories that hold their sockets, what _targets says of them, and    *)
(* which of the sockets a master listens on.  Masters die on their own, by *)
(* a dropped connection or after 300 idle seconds.                         *)
(*                                                                         *)
(* A call is one step: the server runs one tool call at a time.  A socket  *)
(* is named by its directory, a directory by its number.                   *)
(***************************************************************************)
EXTENDS Naturals

CONSTANTS
  Targets,   \* the names that connect may be given
  Windows,   \* those whose os_type is windows, which are probed for an encoding
  Unstable,  \* whether connections fail and masters die
  MaxDirs    \* bound on the directories made in one run of the server

ASSUME SSHMasterAssumption ==
  /\ Windows \subseteq Targets /\ Unstable \in BOOLEAN /\ MaxDirs \in Nat

VARIABLES
  targets,  \* _targets: socket and socket_dir of the connected names
  dirs,     \* the directories that exist
  masters,  \* those with a master listening on their socket
  made      \* directories made so far

masterVars == <<targets, dirs, masters, made>>

Dirs == 1..MaxDirs
NoState == [socket |-> 0, socket_dir |-> 0]
Connected(t) == targets[t] # NoState

MastersInit ==
  /\ targets = [t \in Targets |-> NoState]
  /\ dirs = {} /\ masters = {} /\ made = 0

-----------------------------------------------------------------------------

\* Slip: the directory has a fixed name.
SocketPath_Fixed(t, k) == 1

\* Slip: every call of _socket_path makes a directory.
SocketPath_Fresh(t, k) == made + k

\* The k-th call of _socket_path(t) in a create: the socket of the name's state, or
\* that of a new directory while it has none.
SocketPath(t, k) == IF Connected(t) THEN targets[t].socket ELSE made + k

\* What these calls leave behind.
MakeDirs(t, calls) ==
  LET new == {SocketPath(t, k) : k \in 1..calls} \ dirs
  IN  /\ dirs' = dirs \cup new
      /\ made' = IF new = {} THEN made ELSE made + calls
      /\ made' <= MaxDirs

\* Slip: socket_dir is what an earlier create found.
SocketDir_Kept(t, k) == IF Connected(t) THEN targets[t].socket_dir ELSE SocketPath(t, k)

\* Slip: the directory is not recorded.
SocketDir_None(t, k) == 0

\* _socket_dir asks _socket_path once more.
SocketDir(t, k) == SocketPath(t, k)

\* create: a master on the first path, for a Windows target a probe over the second,
\* then socket and socket_dir from one call each.
Create(t) ==
  LET probe == IF t \in Windows THEN 1 ELSE 0
  IN  /\ MakeDirs(t, 3 + probe)
      /\ masters' = masters \cup {SocketPath(t, 1)}
      /\ targets' = [targets EXCEPT ![t] =
           [socket |-> SocketPath(t, 2 + probe), socket_dir |-> SocketDir(t, 3 + probe)]]

\* ssh fails or times out: the directory stays and the state is what it was.
CreateFails(t) ==
  /\ Unstable
  /\ MakeDirs(t, 1)
  /\ UNCHANGED <<targets, masters>>

Connect(t) == Create(t) \/ CreateFails(t)

\* open_shell and exec_oneoff: _ensure_alive creates the master anew when nobody
\* answers on the socket of the state.
EnsureAlive(t) ==
  /\ Connected(t) /\ targets[t].socket \notin masters
  /\ Create(t) \/ CreateFails(t)

\* Slip: the state of the name is not popped.
Remove_StateStays(t) ==
  /\ Connected(t)
  /\ masters' = masters \ {targets[t].socket, targets[t].socket_dir}
  /\ dirs' = dirs \ {targets[t].socket_dir}
  /\ UNCHANGED <<targets, made>>

\* remove: ssh -O exit on the state's socket, which may fail, then the directory and
\* the sockets in it.
Remove(t) ==
  /\ Connected(t)
  /\ \/ masters' = masters \ {targets[t].socket, targets[t].socket_dir}
     \/ Unstable /\ masters' = masters \ {targets[t].socket_dir}
  /\ dirs' = dirs \ {targets[t].socket_dir}
  /\ targets' = [targets EXCEPT ![t] = NoState]
  /\ UNCHANGED made

MasterDies(d) ==
  /\ Unstable
  /\ masters' = masters \ {d}
  /\ UNCHANGED <<targets, dirs, made>>

MastersNext ==
  \/ \E t \in Targets : Connect(t) \/ EnsureAlive(t) \/ Remove(t)
  \/ \E d \in masters : MasterDies(d)

MastersSpec == MastersInit /\ [][MastersNext]_masterVars

-----------------------------------------------------------------------------

\* A state holds the socket and the directory of its own connection, both made here.
MastersType ==
  /\ targets \in [Targets -> [socket : Dirs, socket_dir : Dirs] \cup {NoState}]
  /\ dirs \subseteq Dirs /\ masters \subseteq Dirs /\ made \in 0..MaxDirs

\* ssh finds the directory of the control path it is given: no cleanup takes the
\* directory of a name that is still connected, its own or another's.
SocketsExist ==
  \A t \in Targets : Connected(t) => {targets[t].socket, targets[t].socket_dir} \subseteq dirs

\* Names share neither a socket nor a directory that remove deletes.
SocketsApart ==
  \A s, t \in Targets : s # t /\ Connected(s) /\ Connected(t) =>
    {targets[s].socket, targets[s].socket_dir} \cap {targets[t].socket, targets[t].socket_dir} = {}

\* The paths of a connected name are there and its own, whatever the others do.
SocketsOwn == SocketsExist /\ SocketsApart

\* A reconnection keeps the control path that the open shells were started with.
SocketStable ==
  [][\A t \in Targets : Connected(t) /\ Connected(t)' => targets'[t].socket = targets[t].socket]_masterVars

\* Once a master answers on the socket of a name, close will delete that socket's
\* directory: only the directories of the first create are left behind.
LiveSocketReaped ==
  \A t \in Targets : targets[t].socket \in masters => targets[t].socket_dir = targets[t].socket
=============================================================================
