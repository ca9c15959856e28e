--------------------------- MODULE SandboxServer ---------------------------
(***************************************************************************)
(* The server's view of its machines and shells: SandboxServer with its    *)
(* TargetRegistry and ShellRegistry, the handlers of SandboxEnv that change*)
(* them, and what DockerBackend and SSHBackend keep beside them.  The      *)
(* docker daemon and the SSH connections outlive, or do not outlive, the   *)
(* server; containers exit and vanish, the server crashes and boots again. *)
(*                                                                         *)
(* A tool call is one step: call_tool runs to its end on the one thread of *)
(* the event loop, and what containers and connections do during a call    *)
(* appears as the call's outcomes or as a step before or after it.  Within *)
(* start-up the reconciliation and the provisioning are separate steps.    *)
(* A session is abstracted to whether its process lives; ShellSession.tla  *)
(* is about the session itself.                                            *)
(***************************************************************************)
EXTENDS Naturals, Sequences, SequencesExt

CONSTANTS
  Names,          \* names of machines
  Containers,     \* the names that the agent passes to docker_run
  Targets,        \* the names of [ssh.targets.*] in the configuration
  Oses,           \* the operating systems of the images: linux, windows
  DefaultName,    \* [default_machine] name, None when it is not enabled
  DefaultBackend, \* [default_machine] backend
  None,
  MaxShells,      \* bound on the shells opened in one life of the server
  Faults          \* what may go wrong, see below

ASSUME ServerAssumption ==
  /\ IsFiniteSet(Names) /\ Containers \subseteq Names /\ Targets \subseteq Names
  /\ Oses \subseteq {"linux", "windows"}
  /\ None \notin Names
  /\ DefaultName \in Containers \cup Targets \cup {None}
  /\ DefaultBackend \in {"docker", "ssh"}
  /\ DefaultBackend = "docker" => DefaultName \in Containers \cup {None}
  /\ MaxShells \in Nat
     \* the daemon refuses a request or cannot be reached; a container exits or is
     \* removed behind the server's back; the server dies; an ssh command fails or
     \* a master connection drops; an image's Os field cannot be read
  /\ Faults \subseteq {"daemon", "exit", "vanish", "crash", "ssh", "detect"}

VARIABLES
  server,         \* "down", "booting" after docker_ps ran at start-up, or "up"
  machines,       \* TargetRegistry._machines: backend and info.status
  order,          \* the insertion order of the keys of _machines
  default,        \* TargetRegistry._default
  shells,         \* ShellRegistry._shells: the machine an entry names, the backend
                  \* its session was opened on, whether its process lives
  default_shells, \* ShellRegistry._default_shells, 0 for no entry
  opened,         \* shells opened so far; the k-th has the id k
  provider,       \* DockerBackend._provider: the os a provider is for
  targets,        \* the keys of SSHBackend._targets
  containers      \* the daemon's containers: state and os of the image

directory == <<machines, order, default>>
sessions == <<shells, default_shells, opened>>
vars == <<server, directory, sessions, provider, targets, containers>>

Shells == 1..MaxShells
NoMachine == [backend |-> "none", status |-> "none"]
NoShell == [machine |-> None, on |-> "none", alive |-> FALSE]
NoContainer == [state |-> "none", os |-> "none"]

Registered(n) == machines[n] # NoMachine
\* docker ps without -a.
Managed_RunningOnly == {n \in Containers : containers[n].state = "running"}

\* A listing that is not filtered by what the daemon still has.
Managed_Cached == Containers

Managed == {n \in Containers : containers[n] # NoContainer}

Init ==
  /\ server = "down"
  /\ machines = [n \in Names |-> NoMachine] /\ order = <<>> /\ default = None
  /\ shells = [s \in Shells |-> NoShell]
  /\ default_shells = [n \in Names |-> 0] /\ opened = 0
  /\ provider = [n \in Containers |-> "none"] /\ targets = {}
  /\ containers = [n \in Containers |-> NoContainer]

-----------------------------------------------------------------------------
\* TargetRegistry.

\* _machines[name] = ...: an entry that is overwritten keeps its place in the dict.
Record(n, backend, status) ==
  /\ machines' = [machines EXCEPT ![n] = [backend |-> backend, status |-> status]]
  /\ order' = IF Registered(n) THEN order ELSE Append(order, n)

\* Slip: the machine that came last is the default.
register_TakesOver(n, backend, status) == Record(n, backend, status) /\ default' = n

register(n, backend, status) ==
  /\ Record(n, backend, status)
  /\ default' = IF default = None THEN n ELSE default

\* adopt for every container that docker_ps lists, in the daemon's order.
AdoptAll(listed) ==
  LET new == {n \in listed : ~Registered(n)}
  IN  \E found \in SetToSeqs(new) :
        /\ machines' = [n \in Names |-> IF n \in new
             THEN [backend |-> "docker", status |-> containers[n].state] ELSE machines[n]]
        /\ order' = order \o found
        /\ default' = IF default = None /\ new # {} THEN found[1] ELSE default

Position(n) == CHOOSE i \in DOMAIN order : order[i] = n

\* The default is not looked at.
unregister_DefaultStays(n) ==
  /\ machines' = [machines EXCEPT ![n] = NoMachine]
  /\ order' = RemoveAt(order, Position(n))
  /\ UNCHANGED default

unregister(n) ==
  /\ machines' = [machines EXCEPT ![n] = NoMachine]
  /\ order' = RemoveAt(order, Position(n))
  /\ default' = IF default # n THEN default ELSE IF order' = <<>> THEN None ELSE Head(order')

-----------------------------------------------------------------------------
\* ShellRegistry.

\* open: a session that passed its health check gets an id.
open(n, backend) ==
  /\ opened < MaxShells
  /\ opened' = opened + 1
  /\ shells' = [shells EXCEPT ![opened + 1] = [machine |-> n, on |-> backend, alive |-> TRUE]]

\* A dead default shell is replaced by the next shell_exec.
HasDefault_Alive(n) == default_shells[n] # 0 /\ shells[default_shells[n]].alive

HasDefault(n) == default_shells[n] # 0 /\ shells[default_shells[n]] # NoShell

\* get_or_create_default where there is something to create.  A default that is
\* dead is a default.
create_default(n, backend) ==
  /\ ~HasDefault(n)
  /\ open(n, backend)
  /\ default_shells' = [default_shells EXCEPT ![n] = opened + 1]

\* close: the entry goes, and the default of the machine it names if it was that.
close(s) ==
  /\ shells' = [shells EXCEPT ![s] = NoShell]
  /\ default_shells' = [n \in Names |->
       IF n = shells[s].machine /\ default_shells[n] = s THEN 0 ELSE default_shells[n]]
  /\ UNCHANGED opened

close_all_for_machine(n) ==
  /\ shells' = [s \in Shells |-> IF shells[s].machine = n THEN NoShell ELSE shells[s]]
  /\ default_shells' = [default_shells EXCEPT ![n] =
       IF \E s \in Shells : shells[s].machine = n /\ @ = s THEN 0 ELSE @]
  /\ UNCHANGED opened

\* The processes of the shells of a container or a connection end with it.
Dying(backend, n) ==
  [s \in Shells |-> IF shells[s].on = backend /\ shells[s].machine = n
                    THEN [shells[s] EXCEPT !.alive = FALSE] ELSE shells[s]]

-----------------------------------------------------------------------------
\* DockerBackend and SSHBackend.

\* containers.run that is refused, at once or after the container was made.
Refused(n) ==
  /\ "daemon" \in Faults
  /\ \/ UNCHANGED containers
     \/ \E os \in Oses : containers' = [containers EXCEPT ![n] = [state |-> "exited", os |-> os]]

\* containers.run on a free name; a provider is chosen only when it succeeds.
CreateFresh(n, status) ==
  /\ containers[n] = NoContainer
  /\ \/ status = "error" /\ Refused(n) /\ UNCHANGED provider
     \/ /\ status = "running"
        /\ \E os \in Oses :
             /\ containers' = [containers EXCEPT ![n] = [state |-> "running", os |-> os]]
             /\ \/ provider' = [provider EXCEPT ![n] = os]
                \/ "detect" \in Faults /\ provider' = [provider EXCEPT ![n] = "linux"]

\* _reattach_existing after a 409: the container is started if need be, and may be
\* gone or exit at once.
Reattach(n, status) ==
  /\ containers[n] # NoContainer
  /\ \/ status = "running" /\ containers' = [containers EXCEPT ![n].state = "running"]
     \/ /\ status = "error" /\ containers[n].state = "exited"
        /\ "daemon" \in Faults \/ "exit" \in Faults
        /\ UNCHANGED containers
     \/ /\ status = "error" /\ "vanish" \in Faults
        /\ containers' = [containers EXCEPT ![n] = NoContainer]
  /\ UNCHANGED provider

\* A reattached container that vanished takes its shells with it.
docker_create(n, status) ==
  /\ CreateFresh(n, status) \/ Reattach(n, status)
  /\ shells' = IF containers'[n].state = "running" THEN shells ELSE Dying("docker", n)
  /\ UNCHANGED <<default_shells, opened, targets>>

\* A failed connection leaves what an earlier one of the same name recorded.
ssh_create(n, status) ==
  /\ \/ status = "running" /\ targets' = targets \cup {n}
     \/ status = "error" /\ "ssh" \in Faults /\ UNCHANGED targets
  /\ UNCHANGED <<provider, containers>>

\* What open_shell and the health check need.  The default is the Linux provider;
\* with the wrong one the container has no such shell.
EffectiveProvider(n) == IF provider[n] = "none" THEN "linux" ELSE provider[n]
CanOpenDocker(n) == containers[n].state = "running" /\ EffectiveProvider(n) = containers[n].os
CanOpen(n) == IF machines[n].backend = "docker" THEN CanOpenDocker(n) ELSE n \in targets

docker_remove_container(n) ==
  \/ containers' = [containers EXCEPT ![n] = NoContainer]
  \/ "daemon" \in Faults /\ UNCHANGED containers

-----------------------------------------------------------------------------
\* The tool calls that change the registries.

IsDocker(n) == machines[n].backend = "docker"

\* An exception of the docker client leaves everything as it was: no step.
DockerRun(n) ==
  /\ server = "up"
  /\ \E status \in {"running", "error"} : docker_create(n, status) /\ register(n, "docker", status)
  /\ UNCHANGED server

DockerPs ==
  /\ server = "up" /\ AdoptAll(Managed)
  /\ UNCHANGED <<server, sessions, provider, targets, containers>>

\* The entry keeps the status it was registered with.
DockerStop(n) ==
  /\ server = "up" /\ IsDocker(n)
  /\ close_all_for_machine(n)
  /\ \/ containers[n].state = "running" /\ containers' = [containers EXCEPT ![n].state = "exited"]
     \/ (containers[n].state # "running" \/ "daemon" \in Faults) /\ UNCHANGED containers
  /\ UNCHANGED <<server, directory, provider, targets>>

DockerStart(n) ==
  /\ server = "up" /\ IsDocker(n) /\ containers[n].state = "exited"
  /\ containers' = [containers EXCEPT ![n].state = "running"]
  /\ UNCHANGED <<server, directory, sessions, provider, targets>>

\* The shells die and stay registered.
DockerRestart(n) ==
  /\ server = "up" /\ IsDocker(n) /\ containers[n] # NoContainer
  /\ \/ containers' = [containers EXCEPT ![n].state = "running"]
     \/ "exit" \in Faults /\ containers' = [containers EXCEPT ![n].state = "exited"]
  /\ shells' = Dying("docker", n)
  /\ UNCHANGED <<server, directory, default_shells, opened, provider, targets>>

\* The backend reports a refusal in its result and the machine is unregistered all
\* the same; only an exception of the client comes between.
DockerRemove(n) ==
  /\ server = "up" /\ IsDocker(n)
  /\ close_all_for_machine(n)
  /\ \/ docker_remove_container(n) /\ unregister(n)
     \/ "daemon" \in Faults /\ UNCHANGED <<containers, directory>>
  /\ UNCHANGED <<server, provider, targets>>

\* register, then get_or_create_default if the connection stands.
Connect(n) ==
  /\ server = "up"
  /\ \E status \in {"running", "error"} :
       /\ ssh_create(n, status) /\ register(n, "ssh", status)
       /\ \/ status = "running" /\ create_default(n, "ssh")
          \/ (status = "error" \/ HasDefault(n) \/ "ssh" \in Faults) /\ UNCHANGED sessions
  /\ UNCHANGED server

Close(n) ==
  /\ server = "up" /\ Registered(n)
  /\ close_all_for_machine(n)
  /\ \/ IsDocker(n) /\ docker_remove_container(n) /\ UNCHANGED targets
     \/ ~IsDocker(n) /\ targets' = targets \ {n} /\ UNCHANGED containers
  /\ unregister(n)
  /\ UNCHANGED <<server, provider>>

ShellNew(n) ==
  /\ server = "up" /\ Registered(n) /\ CanOpen(n)
  /\ open(n, machines[n].backend)
  /\ UNCHANGED <<server, directory, default_shells, provider, targets, containers>>

\* shell_exec without a shell_id on a machine without a default shell.
ShellExec(n) ==
  /\ server = "up" /\ Registered(n) /\ CanOpen(n)
  /\ create_default(n, machines[n].backend)
  /\ UNCHANGED <<server, directory, provider, targets, containers>>

ShellRemove(s) ==
  /\ server = "up" /\ shells[s] # NoShell
  /\ close(s)
  /\ UNCHANGED <<server, directory, provider, targets, containers>>

DefaultSetMachine(n) ==
  /\ server = "up" /\ Registered(n)
  /\ default' = n
  /\ UNCHANGED <<server, machines, order, sessions, provider, targets, containers>>

DefaultSetShell(s) ==
  /\ server = "up" /\ shells[s] # NoShell
  /\ default_shells' = [default_shells EXCEPT ![shells[s].machine] = s]
  /\ UNCHANGED <<server, directory, shells, opened, provider, targets, containers>>

-----------------------------------------------------------------------------
\* Start-up and the end of the process.

\* docker_ps; a daemon that does not answer is tolerated.
Boot ==
  /\ server = "down" /\ server' = "booting"
  /\ \/ AdoptAll(Managed)
     \/ "daemon" \in Faults /\ UNCHANGED directory
  /\ UNCHANGED <<sessions, provider, targets, containers>>

\* What lives in the memory of the process.
Forget ==
  /\ machines' = [n \in Names |-> NoMachine] /\ order' = <<>> /\ default' = None
  /\ shells' = [s \in Shells |-> NoShell]
  /\ default_shells' = [n \in Names |-> 0] /\ opened' = 0
  /\ provider' = [n \in Containers |-> "none"] /\ targets' = {}
  /\ server' = "down"

\* _provision_default_machine.  A failure ends the process; an exception of the
\* docker client does so too.
Provision ==
  /\ server = "booting"
  /\ \/ /\ DefaultName = None /\ server' = "up"
        /\ UNCHANGED <<directory, sessions, provider, targets, containers>>
     \/ /\ DefaultName # None /\ Registered(DefaultName)
        /\ default' = DefaultName /\ server' = "up"
        /\ UNCHANGED <<machines, order, sessions, provider, targets, containers>>
     \/ /\ DefaultName # None /\ ~Registered(DefaultName)
        /\ \/ /\ DefaultBackend = "docker" /\ DefaultName \in Containers
              /\ docker_create(DefaultName, "running")
           \/ /\ DefaultBackend = "ssh" /\ DefaultName \in Targets
              /\ ssh_create(DefaultName, "running") /\ UNCHANGED sessions
        /\ Record(DefaultName, DefaultBackend, "running")
        /\ default' = DefaultName /\ server' = "up"
     \/ /\ DefaultName # None /\ ~Registered(DefaultName)
        /\ \/ DefaultBackend = "docker" /\ Faults \cap {"daemon", "exit"} # {}
             /\ UNCHANGED containers
           \/ DefaultBackend = "docker" /\ containers[DefaultName] = NoContainer
             /\ Refused(DefaultName)
           \/ DefaultBackend = "ssh" /\ (DefaultName \notin Targets \/ "ssh" \in Faults)
             /\ UNCHANGED containers
        /\ Forget

Crash ==
  /\ "crash" \in Faults /\ server # "down"
  /\ Forget /\ UNCHANGED containers

-----------------------------------------------------------------------------
\* The daemon and the network on their own.

ContainerExits(n) ==
  /\ "exit" \in Faults /\ containers[n].state = "running"
  /\ containers' = [containers EXCEPT ![n].state = "exited"]
  /\ shells' = Dying("docker", n)
  /\ UNCHANGED <<server, directory, default_shells, opened, provider, targets>>

ContainerVanishes(n) ==
  /\ "vanish" \in Faults /\ containers[n] # NoContainer
  /\ containers' = [containers EXCEPT ![n] = NoContainer]
  /\ shells' = Dying("docker", n)
  /\ UNCHANGED <<server, directory, default_shells, opened, provider, targets>>

\* open_shell reconnects a dropped master, so only the shells show the drop.
MasterDrops(n) ==
  /\ "ssh" \in Faults /\ n \in targets
  /\ shells' = Dying("ssh", n)
  /\ UNCHANGED <<server, directory, default_shells, opened, provider, targets, containers>>

\* The agent types exit, or the shell is killed.
ShellEnds(s) ==
  /\ shells[s].alive
  /\ shells' = [shells EXCEPT ![s].alive = FALSE]
  /\ UNCHANGED <<server, directory, default_shells, opened, provider, targets, containers>>

EnvStep ==
  \/ \E n \in Containers : ContainerExits(n) \/ ContainerVanishes(n)
  \/ \E n \in Targets : MasterDrops(n)
  \/ \E s \in Shells : ShellEnds(s)

MachineCall ==
  \/ DockerPs
  \/ \E n \in Containers : DockerRun(n) \/ DockerStop(n) \/ DockerStart(n)
                             \/ DockerRestart(n) \/ DockerRemove(n)
  \/ \E n \in Targets : Connect(n)
  \/ \E n \in Names : Close(n) \/ DefaultSetMachine(n)

ShellCall ==
  \/ \E n \in Names : ShellNew(n) \/ ShellExec(n)
  \/ \E s \in Shells : ShellRemove(s) \/ DefaultSetShell(s)

Next == Boot \/ Provision \/ Crash \/ MachineCall \/ ShellCall \/ EnvStep

Spec == Init /\ [][Next]_vars

-----------------------------------------------------------------------------
\* Correctness.

\* The registries and what the backends keep hold the values the code gives them.
TypeOK ==
  /\ server \in {"down", "booting", "up"}
  /\ machines \in [Names -> [backend : {"docker", "ssh"}, status : {"running", "exited", "error"}]
                             \cup {NoMachine}]
  /\ order \in Seq(Names)
  /\ default \in Names \cup {None}
  /\ shells \in [Shells -> [machine : Names, on : {"docker", "ssh"}, alive : BOOLEAN] \cup {NoShell}]
  /\ default_shells \in [Names -> 0..MaxShells]
  /\ opened \in 0..MaxShells
  /\ provider \in [Containers -> {"none", "linux", "windows"}]
  /\ targets \subseteq Targets
  /\ containers \in [Containers -> [state : {"running", "exited"}, os : Oses] \cup {NoContainer}]

\* The insertion order lists the registered machines, each once.
OrderListsMachines ==
  /\ \A i \in DOMAIN order : Registered(order[i])
  /\ \A n \in Names : Registered(n) => \E i \in DOMAIN order : order[i] = n
  /\ \A i, j \in DOMAIN order : order[i] = order[j] => i = j

\* A call without a machine that finds one finds a registered one.  Whether another
\* machine takes the place of a default that is unregistered is left open here.
DefaultMachineRegistered == default # None => Registered(default)

\* No shell outlives the entry of its machine, whichever call dropped the machine.
ShellsHaveMachines == \A s \in Shells : shells[s] # NoShell => Registered(shells[s].machine)

\* A call without a shell_id reaches a shell of the machine it names.
DefaultShellsOwn ==
  \A n \in Names : default_shells[n] # 0 => shells[default_shells[n]].machine = n

\* Ids are not given twice: what is above the counter has never been a shell.
IdsAreFresh == \A s \in Shells : s > opened => shells[s] = NoShell

\* The registries agree with each other and with themselves, after any sequence of
\* registrations, removals, failures and restarts.
RegistryInv ==
  /\ OrderListsMachines
  /\ DefaultMachineRegistered
  /\ ShellsHaveMachines
  /\ DefaultShellsOwn
  /\ IdsAreFresh

\* A shell, dead or alive, leaves the registry and stops being the default only by a
\* call of the agent that says so: dead shells can still be read.
DeadShellsKept ==
  [][/\ \A s \in Shells : shells[s] # NoShell /\ shells'[s] = NoShell =>
          \/ ShellRemove(s) \/ Close(shells[s].machine) \/ server' = "down"
          \/ \E n \in Containers : n = shells[s].machine /\ (DockerStop(n) \/ DockerRemove(n))
     /\ \A n \in Names : default_shells[n] # 0 /\ default_shells'[n] \notin {0, default_shells[n]} =>
          DefaultSetShell(default_shells'[n])]_vars

\* What the agent sees of the two registries is the directory that ShellDirectory promises:
\* no call, failure, death of a container or restart changes it in another way.
Directory == INSTANCE ShellDirectory WITH
  machines <- {n \in Names : Registered(n)},
  home <- [s \in Shells |-> shells[s].machine],
  primary <- default_shells,
  issued <- opened

ImplementsDirectory == Directory!Spec

\* While the daemon answers, the server knows every container it has made, also
\* those that an earlier life of the server made.
ContainersKnown ==
  server = "up" => \A n \in Containers : containers[n] # NoContainer => Registered(n)
=============================================================================
