---------------------------- MODULE ServerProofs ----------------------------
(***************************************************************************)
(* Proofs about SandboxServer: the machine registry and the shell registry *)
(* stay consistent with each other and within themselves, for every set of *)
(* machines, every bound and every combination of faults.                  *)
(*                                                                         *)
(* The directory of machines and the sessions are two halves of the        *)
(* invariant, DirOK and SessOK; each operator of the two registries        *)
(* preserves its half and says which machines, or which shells, may go.    *)
(* What joins the halves, ShellsHaveMachines, follows from those bounds.   *)
(* With the invariant every step is one of ShellDirectory, or a stutter.   *)
(***************************************************************************)
EXTENDS SandboxServer, FiniteSetTheorems, SequenceTheorems, TLAPS

LEMMA ServerFacts ==
  /\ IsFiniteSet(Names) /\ Containers \subseteq Names /\ Targets \subseteq Names
  /\ None \notin Names /\ MaxShells \in Nat
  /\ Oses \subseteq {"linux", "windows"}
  /\ DefaultName \in Containers \cup Targets \cup {None}
  /\ DefaultBackend \in {"docker", "ssh"}
  /\ DefaultBackend = "docker" => DefaultName \in Containers \cup {None}
  BY ServerAssumption DEF ServerAssumption

USE ServerFacts

Machine == [backend : {"docker", "ssh"}, status : {"running", "exited", "error"}]
Shell == [machine : Names, on : {"docker", "ssh"}, alive : BOOLEAN]

\* There is a default machine unless there is none at all, and it is registered.
DefaultInv == DefaultMachineRegistered /\ (default = None => \A n \in Names : ~Registered(n))

\* The directory of machines.
DirOK ==
  /\ machines \in [Names -> Machine \cup {NoMachine}]
  /\ order \in Seq(Names)
  /\ default \in Names \cup {None}
  /\ OrderListsMachines
  /\ DefaultInv

\* The sessions.
SessOK ==
  /\ shells \in [Shells -> Shell \cup {NoShell}]
  /\ default_shells \in [Names -> 0..MaxShells]
  /\ opened \in 0..MaxShells
  /\ DefaultShellsOwn
  /\ IdsAreFresh

\* The backends and the daemon.
WorldOK ==
  /\ server \in {"down", "booting", "up"}
  /\ provider \in [Containers -> {"none", "linux", "windows"}]
  /\ targets \subseteq Targets
  /\ containers \in [Containers -> [state : {"running", "exited"}, os : Oses] \cup {NoContainer}]

Inv == DirOK /\ SessOK /\ WorldOK /\ ShellsHaveMachines

\* Every machine but those of S stays registered.
KeepsMachinesBut(S) == \A n \in Names \ S : Registered(n) => Registered(n)'

\* A shell of the next state was there with the same machine, or is one of a machine of S.
ShellsFrom(S) ==
  \A s \in Shells : shells'[s] # NoShell =>
    \/ shells'[s].machine \in S
    \/ shells[s] # NoShell /\ shells'[s].machine = shells[s].machine

LEMMA InvMeaning == Inv => TypeOK /\ RegistryInv
BY DEF DefaultInv, Inv, DirOK, SessOK, WorldOK, TypeOK, RegistryInv, Machine, Shell

\* A record that has its type is not the record that stands for no entry.
LEMMA RealEntries ==
  /\ \A m \in Machine : m # NoMachine
  /\ \A s \in Shell : s # NoShell /\ s.machine \in Names
  /\ NoShell.machine \notin Names
BY DEF Machine, Shell, NoMachine, NoShell

-----------------------------------------------------------------------------
(* The machine registry.                                                   *)

\* _machines[name] = ... with a default that is registered afterwards.
LEMMA RecordKeeps ==
  ASSUME DirOK, NEW n \in Names, NEW b \in {"docker", "ssh"},
         NEW st \in {"running", "exited", "error"}, Record(n, b, st),
         default' \in {default, n}, default' # None
  PROVE  DirOK' /\ KeepsMachinesBut({}) /\ Registered(n)'
<1>1. [backend |-> b, status |-> st] \in Machine
  BY DEF Machine
<1>2. machines' \in [Names -> Machine \cup {NoMachine}]
  BY <1>1 DEF DirOK, Record
<1>3. Registered(n)' /\ \A m \in Names : Registered(m)' <=> (m = n \/ Registered(m))
  BY <1>1, RealEntries DEF DirOK, Record, Registered
<1>4. order' \in Seq(Names)
  BY DEF DirOK, Record
<1>5. OrderListsMachines'
  <2>1. CASE Registered(n)
    BY <2>1, <1>3 DEF DirOK, Record, OrderListsMachines
  <2>2. CASE ~Registered(n)
    <3>1. /\ DOMAIN order = 1..Len(order) /\ Len(order) \in Nat
          /\ DOMAIN order' = 1..(Len(order) + 1)
          /\ order'[Len(order) + 1] = n
          /\ \A i \in DOMAIN order : order'[i] = order[i] /\ order[i] \in Names
      BY <2>2 DEF DirOK, Record
    <3>2. \A i \in DOMAIN order : Registered(order[i]) /\ order[i] # n
      BY <2>2, <3>1 DEF DirOK, OrderListsMachines
    <3>3. \A i \in DOMAIN order' : i \in DOMAIN order \/ i = Len(order) + 1
      BY <3>1
    <3>4. \A i \in DOMAIN order' : machines'[order'[i]] # NoMachine
      BY <3>1, <3>2, <3>3, <1>3 DEF Registered
    <3>5. \A m \in Names : Registered(m)' => \E i \in DOMAIN order' : order'[i] = m
      BY <3>1, <1>3 DEF DirOK, OrderListsMachines
    <3>6. \A i, j \in DOMAIN order' : order'[i] = order'[j] => i = j
      BY <3>1, <3>2, <3>3 DEF DirOK, OrderListsMachines
    <3> QED
      BY <3>4, <3>5, <3>6 DEF OrderListsMachines, Registered
  <2> QED
    BY <2>1, <2>2
<1>6. default' \in Names /\ Registered(default)'
  BY <1>3 DEF DirOK, DefaultInv, DefaultMachineRegistered, Registered
<1> QED
  BY <1>2, <1>3, <1>4, <1>5, <1>6 DEF DirOK, DefaultInv, DefaultMachineRegistered, KeepsMachinesBut

LEMMA RegisterKeeps ==
  ASSUME DirOK, NEW n \in Names, NEW b \in {"docker", "ssh"},
         NEW st \in {"running", "error"}, register(n, b, st)
  PROVE  DirOK' /\ KeepsMachinesBut({})
BY RecordKeeps DEF register, DirOK

\* A listing of a finite set names each of its members, once.
LEMMA ListingComplete ==
  ASSUME NEW S, IsFiniteSet(S), NEW f \in SetToSeqs(S)
  PROVE  /\ f \in Seq(S)
         /\ \A x \in S : \E i \in DOMAIN f : f[i] = x
         /\ \A i, j \in DOMAIN f : f[i] = f[j] => i = j
<1>1. Cardinality(S) \in Nat
  BY FS_CardinalityType
<1>2. f \in [1..Cardinality(S) -> S] /\ DOMAIN f = 1..Cardinality(S)
  BY DEF SetToSeqs
<1>3. f \in Injection(1..Cardinality(S), S)
  BY <1>2 DEF SetToSeqs, Injection, IsInjective
<1>4. IsFiniteSet(1..Cardinality(S)) /\ Cardinality(1..Cardinality(S)) = Cardinality(S)
  BY <1>1, FS_Interval
<1>5. f \in Surjection(1..Cardinality(S), S)
  BY <1>3, <1>4, FS_Injection
<1> QED
  BY <1>1, <1>2, <1>3, <1>5 DEF Surjection, Injection, IsInjective

LEMMA AdoptKeeps ==
  ASSUME DirOK, WorldOK, NEW S \in SUBSET Managed, AdoptAll(S)
  PROVE  DirOK' /\ KeepsMachinesBut({})
<1> DEFINE new == {n \in S : ~Registered(n)}
<1>1. new \subseteq Names /\ new \subseteq Containers /\ IsFiniteSet(new)
  BY FS_Subset DEF Managed
<1>2. PICK found \in SetToSeqs(new) :
        /\ machines' = [n \in Names |-> IF n \in new
             THEN [backend |-> "docker", status |-> containers[n].state] ELSE machines[n]]
        /\ order' = order \o found
        /\ default' = IF default = None /\ new # {} THEN found[1] ELSE default
  BY DEF AdoptAll
<1> HIDE DEF new
<1>3. /\ found \in Seq(new)
      /\ \A x \in new : \E i \in DOMAIN found : found[i] = x
      /\ \A i, j \in DOMAIN found : found[i] = found[j] => i = j
  BY <1>1, ListingComplete
<1>4. \A n \in new : [backend |-> "docker", status |-> containers[n].state] \in Machine
  BY DEF new, Managed, WorldOK, Machine
<1>5. machines' \in [Names -> Machine \cup {NoMachine}]
  BY <1>2, <1>4 DEF DirOK
<1>6. \A m \in Names : Registered(m)' <=> (m \in new \/ Registered(m))
  BY <1>1, <1>2, <1>4, RealEntries DEF Registered
<1>7. \A m \in new : ~Registered(m)
  BY DEF new
<1>8. found \in Seq(Names) /\ order \in Seq(Names)
  BY <1>1, <1>3 DEF DirOK
<1>9. order' \in Seq(Names)
  BY <1>2, <1>8
<1>10. /\ DOMAIN order = 1..Len(order) /\ DOMAIN found = 1..Len(found)
       /\ Len(order) \in Nat /\ Len(found) \in Nat
       /\ DOMAIN order' = 1..(Len(order) + Len(found))
       /\ \A i \in 1..Len(order) : order'[i] = order[i] /\ order[i] \in Names
       /\ \A i \in 1..Len(found) : order'[Len(order) + i] = found[i] /\ found[i] \in new
  BY <1>2, <1>3, <1>8, ConcatProperties
<1>11. \A i \in DOMAIN order' : \/ i \in 1..Len(order) /\ order'[i] = order[i]
                                \/ \E k \in 1..Len(found) : i = Len(order) + k /\ order'[i] = found[k]
  <2> TAKE i \in DOMAIN order'
  <2>1. CASE i <= Len(order)
    BY <2>1, <1>10
  <2>2. CASE i > Len(order)
    <3>1. i - Len(order) \in 1..Len(found) /\ i = Len(order) + (i - Len(order))
      BY <2>2, <1>10
    <3> QED
      BY <3>1, <1>10
  <2> QED
    BY <2>1, <2>2, <1>10
<1>12. \A i \in 1..Len(order) : Registered(order[i])
  BY <1>10 DEF DirOK, OrderListsMachines
<1>13. OrderListsMachines'
  <2>1. \A i \in DOMAIN order' : machines'[order'[i]] # NoMachine
    BY <1>1, <1>6, <1>10, <1>11, <1>12 DEF Registered
  <2>2. \A m \in Names : Registered(m)' => \E i \in DOMAIN order' : order'[i] = m
    <3> SUFFICES ASSUME NEW m \in Names, Registered(m)'
                 PROVE  \E i \in DOMAIN order' : order'[i] = m
      OBVIOUS
    <3>1. CASE m \in new
      <4>1. PICK k \in 1..Len(found) : found[k] = m
        BY <3>1, <1>3, <1>10
      <4>2. Len(order) + k \in DOMAIN order' /\ order'[Len(order) + k] = m
        BY <4>1, <1>10
      <4> QED
        BY <4>2
    <3>2. CASE Registered(m)
      <4>1. PICK k \in 1..Len(order) : order[k] = m
        BY <3>2, <1>10 DEF DirOK, OrderListsMachines
      <4>2. k \in DOMAIN order' /\ order'[k] = m
        BY <4>1, <1>10
      <4> QED
        BY <4>2
    <3> QED
      BY <3>1, <3>2, <1>6
  <2>3. ASSUME NEW i \in DOMAIN order', NEW j \in DOMAIN order', order'[i] = order'[j]
        PROVE  i = j
    <3>1. CASE i \in 1..Len(order) /\ order'[i] = order[i]
      <4>1. order'[j] \notin new
        BY <2>3, <3>1, <1>7, <1>12
      <4>2. j \in 1..Len(order) /\ order'[j] = order[j]
        BY <4>1, <1>10, <1>11
      <4> QED
        BY <2>3, <3>1, <4>2, <1>10 DEF DirOK, OrderListsMachines
    <3>2. CASE \E k \in 1..Len(found) : i = Len(order) + k /\ order'[i] = found[k]
      <4>1. PICK k \in 1..Len(found) : i = Len(order) + k /\ order'[i] = found[k]
        BY <3>2
      <4>2. order'[j] \in new
        BY <2>3, <4>1, <1>10
      <4>3. PICK l \in 1..Len(found) : j = Len(order) + l /\ order'[j] = found[l]
        BY <4>2, <1>7, <1>11, <1>12
      <4>4. k = l
        BY <2>3, <4>1, <4>3, <1>3, <1>10
      <4> QED
        BY <4>1, <4>3, <4>4
    <3> QED
      BY <3>1, <3>2, <1>11
  <2> QED
    BY <2>1, <2>2, <2>3 DEF OrderListsMachines, Registered
<1>14. default' \in Names \cup {None} /\ DefaultInv'
  <2>1. CASE default = None /\ new # {}
    <3>1. 1 \in 1..Len(found)
      BY <2>1, <1>3, <1>10
    <3>2. default' \in new /\ default' \in Names
      BY <2>1, <3>1, <1>1, <1>2, <1>10
    <3> QED
      BY <3>2, <1>6 DEF DefaultInv, DefaultMachineRegistered, Registered
  <2>2. CASE default = None /\ new = {}
    BY <2>2, <1>2, <1>6 DEF DirOK, DefaultInv, DefaultMachineRegistered, Registered
  <2>3. CASE default # None
    BY <2>3, <1>2, <1>6 DEF DirOK, DefaultInv, DefaultMachineRegistered, Registered
  <2> QED
    BY <2>1, <2>2, <2>3
<1> QED
  BY <1>5, <1>6, <1>9, <1>13, <1>14 DEF DirOK, KeepsMachinesBut

LEMMA UnregisterKeeps ==
  ASSUME DirOK, NEW n \in Names, Registered(n), unregister(n)
  PROVE  DirOK' /\ KeepsMachinesBut({n})
<1> DEFINE p == Position(n)
<1>1. p \in DOMAIN order /\ order[p] = n
  BY DEF Position, DirOK, OrderListsMachines
<1> HIDE DEF p
<1>2. /\ DOMAIN order = 1..Len(order) /\ Len(order) \in Nat
      /\ \A i \in 1..Len(order) : order[i] \in Names
  BY DEF DirOK
<1>3. order' = SubSeq(order, 1, p-1) \o SubSeq(order, p+1, Len(order))
  BY DEF unregister, RemoveAt, p
<1> DEFINE l == SubSeq(order, 1, p-1)  r == SubSeq(order, p+1, Len(order))
<1>4. /\ l \in Seq(Names) /\ Len(l) = p-1 /\ \A i \in 1..(p-1) : l[i] = order[i]
  BY <1>1, <1>2, SubSeqProperties DEF DirOK
<1>5. /\ r \in Seq(Names) /\ Len(r) = Len(order) - p
      /\ \A i \in 1..(Len(order) - p) : r[i] = order[p+i]
  <2>1. p+1 \in 1..(Len(order)+1) /\ Len(order) \in (p+1-1)..Len(order)
    BY <1>1, <1>2
  <2>2. CASE p < Len(order)
    BY <2>1, <2>2, <1>1, <1>2, SubSeqProperties DEF DirOK
  <2>3. CASE p = Len(order)
    BY <2>3, <1>1, <1>2, SubSeqEmpty DEF DirOK
  <2> QED
    BY <2>2, <2>3, <1>1, <1>2
<1>6. /\ order' \in Seq(Names) /\ DOMAIN order' = 1..(Len(order) - 1) /\ Len(order') = Len(order) - 1
      /\ \A i \in 1..(p-1) : order'[i] = order[i]
      /\ \A i \in p..(Len(order) - 1) : order'[i] = order[i+1]
  <2> HIDE DEF l, r
  <2>1. order' = l \o r
    BY <1>3 DEF l, r
  <2>2. order' \in Seq(Names) /\ Len(order') = Len(l) + Len(r)
        /\ \A i \in 1..(Len(l) + Len(r)) :
             order'[i] = IF i <= Len(l) THEN l[i] ELSE r[i - Len(l)]
    <3>1. l \in Seq(Names) /\ r \in Seq(Names)
      BY <1>4, <1>5
    <3> QED
      BY ONLY <2>1, <3>1, ConcatProperties
  <2>3. \A i \in p..(Len(order) - 1) : order'[i] = r[i - (p-1)] /\ i - (p-1) \in 1..(Len(order) - p)
    BY <2>2, <1>1, <1>2, <1>4, <1>5
  <2>4. \A i \in p..(Len(order) - 1) : order'[i] = order[i+1]
    <3> TAKE i \in p..(Len(order) - 1)
    <3>1. r[i - (p-1)] = order[p + (i - (p-1))]
      BY <2>3, <1>5
    <3>2. p + (i - (p-1)) = i + 1
      BY <1>1, <1>2
    <3> QED
      BY <3>1, <3>2, <2>3
  <2> QED
    BY <2>2, <2>4, <1>1, <1>2, <1>4, <1>5
<1> HIDE DEF l, r
<1> DEFINE old(i) == IF i < p THEN i ELSE i + 1
<1>7. \A i \in DOMAIN order' : old(i) \in DOMAIN order /\ old(i) # p /\ order'[i] = order[old(i)]
  BY <1>1, <1>2, <1>6
<1>8. \A k \in DOMAIN order : k # p => \E i \in DOMAIN order' : old(i) = k
  <2> SUFFICES ASSUME NEW k \in DOMAIN order, k # p
               PROVE  \E i \in DOMAIN order' : old(i) = k
    OBVIOUS
  <2>1. CASE k < p
    BY <2>1, <1>1, <1>2, <1>6
  <2>2. CASE k > p
    <3>1. k - 1 \in DOMAIN order' /\ old(k - 1) = k
      BY <2>2, <1>1, <1>2, <1>6
    <3> QED
      BY <3>1
  <2> QED
    BY <2>1, <2>2, <1>1, <1>2
<1>9. \A m \in Names : machines'[m] # NoMachine <=> (m # n /\ Registered(m))
  BY DEF unregister, DirOK, Registered
<1>10. \A i \in DOMAIN order' : order'[i] # n /\ Registered(order'[i]) /\ order'[i] \in Names
  BY <1>1, <1>2, <1>7 DEF DirOK, OrderListsMachines
<1>11. OrderListsMachines'
  <2>1. \A i \in DOMAIN order' : machines'[order'[i]] # NoMachine
    BY <1>9, <1>10
  <2>2. \A m \in Names : Registered(m)' => \E i \in DOMAIN order' : order'[i] = m
    <3> SUFFICES ASSUME NEW m \in Names, Registered(m)'
                 PROVE  \E i \in DOMAIN order' : order'[i] = m
      OBVIOUS
    <3>1. PICK k \in DOMAIN order : order[k] = m
      BY <1>9 DEF DirOK, OrderListsMachines, Registered
    <3>2. k # p
      BY <3>1, <1>1, <1>9 DEF Registered
    <3>3. PICK i \in DOMAIN order' : old(i) = k
      BY <3>2, <1>8
    <3> QED
      BY <3>1, <3>3, <1>7
  <2>3. ASSUME NEW i \in DOMAIN order', NEW j \in DOMAIN order', order'[i] = order'[j]
        PROVE  i = j
    <3>1. old(i) = old(j)
      <4> HIDE DEF old
      <4> QED
        BY <2>3, <1>7 DEF DirOK, OrderListsMachines
    <3> QED
      BY <3>1, <1>1, <1>2, <1>6
  <2> QED
    BY <2>1, <2>2, <2>3 DEF OrderListsMachines, Registered
<1> HIDE DEF old
<1>12. default' \in Names \cup {None} /\ DefaultInv'
  <2>1. CASE default # n
    <3>1. default' = default
      BY <2>1 DEF unregister
    <3> QED
      BY <2>1, <3>1, <1>9 DEF DirOK, DefaultInv, DefaultMachineRegistered, Registered
  <2>2. CASE default = n /\ order' = <<>>
    <3>1. default' = None /\ DOMAIN order' = {}
      BY <2>2 DEF unregister
    <3>2. \A m \in Names : ~Registered(m)'
      BY <3>1, <1>11 DEF OrderListsMachines, Registered
    <3> QED
      BY <3>1, <3>2 DEF DefaultInv, DefaultMachineRegistered, Registered
  <2>3. CASE default = n /\ order' # <<>>
    <3>1. 1 \in DOMAIN order'
      BY <2>3, <1>6
    <3>2. default' = order'[1]
      BY <2>3, <1>6 DEF unregister
    <3> QED
      BY <3>1, <3>2, <1>9, <1>10 DEF DefaultInv, DefaultMachineRegistered, Registered
  <2> QED
    BY <2>1, <2>2, <2>3
<1>13. machines' \in [Names -> Machine \cup {NoMachine}]
  BY DEF unregister, DirOK
<1> QED
  BY <1>6, <1>9, <1>11, <1>12, <1>13 DEF DirOK, KeepsMachinesBut, Registered

-----------------------------------------------------------------------------
(* The shell registry.                                                     *)

LEMMA OpenKeeps ==
  ASSUME SessOK, NEW n \in Names, NEW b \in {"docker", "ssh"}, open(n, b)
  PROVE  /\ shells' \in [Shells -> Shell \cup {NoShell}]
         /\ opened' \in 0..MaxShells /\ IdsAreFresh'
         /\ shells'[opened'].machine = n /\ opened' \in Shells
         /\ \A s \in Shells : s # opened' => shells'[s] = shells[s]
         /\ ShellsFrom({n})
<1>1. opened' \in Shells /\ opened' = opened + 1
  BY DEF SessOK, open, Shells
<1>2. [machine |-> n, on |-> b, alive |-> TRUE] \in Shell
  BY DEF Shell
<1>3. /\ shells' \in [Shells -> Shell \cup {NoShell}]
      /\ shells'[opened'].machine = n
      /\ \A s \in Shells : s # opened' => shells'[s] = shells[s]
  BY <1>1, <1>2 DEF SessOK, open
<1>4. IdsAreFresh'
  BY <1>1, <1>3 DEF SessOK, IdsAreFresh, Shells
<1>5. ShellsFrom({n})
  BY <1>3 DEF ShellsFrom
<1> QED
  BY <1>1, <1>3, <1>4, <1>5 DEF SessOK, open, Shells

LEMMA ShellNewKeeps ==
  ASSUME SessOK, NEW n \in Names, NEW b \in {"docker", "ssh"}, open(n, b), UNCHANGED default_shells
  PROVE  SessOK' /\ ShellsFrom({n})
<1>1. DefaultShellsOwn'
  <2> SUFFICES ASSUME NEW m \in Names, default_shells[m] # 0
               PROVE  shells'[default_shells[m]].machine = m
    BY DEF DefaultShellsOwn
  <2>1. default_shells[m] \in Shells /\ shells[default_shells[m]].machine = m
    BY DEF SessOK, DefaultShellsOwn, Shells
  <2>2. shells[default_shells[m]] # NoShell
    BY <2>1, RealEntries
  <2>3. default_shells[m] # opened'
    BY <2>1, <2>2 DEF SessOK, IdsAreFresh, open, Shells
  <2> QED
    BY <2>1, <2>3, OpenKeeps
<1> QED
  BY <1>1, OpenKeeps DEF SessOK

LEMMA CreateDefaultKeeps ==
  ASSUME SessOK, NEW n \in Names, NEW b \in {"docker", "ssh"}, create_default(n, b)
  PROVE  SessOK' /\ ShellsFrom({n})
<1>1. open(n, b) /\ default_shells' = [default_shells EXCEPT ![n] = opened']
  BY DEF create_default, open
<1>2. opened' \in Shells /\ opened' \in 0..MaxShells
  BY <1>1, OpenKeeps
<1>3. default_shells' \in [Names -> 0..MaxShells]
  BY <1>1, <1>2 DEF SessOK
<1>4. DefaultShellsOwn'
  <2> SUFFICES ASSUME NEW m \in Names, default_shells'[m] # 0
               PROVE  shells'[default_shells'[m]].machine = m
    BY DEF DefaultShellsOwn
  <2>1. CASE m = n
    BY <2>1, <1>1, OpenKeeps DEF SessOK
  <2>2. CASE m # n
    <3>1. default_shells'[m] = default_shells[m] /\ default_shells[m] \in Shells
          /\ shells[default_shells[m]].machine = m
      BY <2>2, <1>1 DEF SessOK, DefaultShellsOwn, Shells
    <3>2. shells[default_shells[m]] # NoShell
      BY <3>1, RealEntries
    <3>3. default_shells[m] # opened'
      BY <3>1, <3>2, <1>1 DEF SessOK, IdsAreFresh, open, Shells
    <3> QED
      BY <3>1, <3>3, <1>1, OpenKeeps
  <2> QED
    BY <2>1, <2>2
<1> QED
  BY <1>1, <1>3, <1>4, OpenKeeps DEF SessOK

LEMMA CloseKeeps ==
  ASSUME SessOK, NEW s \in Shells, shells[s] # NoShell, close(s)
  PROVE  SessOK' /\ ShellsFrom({})
<1>1. shells' \in [Shells -> Shell \cup {NoShell}]
  BY DEF SessOK, close
<1>2. default_shells' \in [Names -> 0..MaxShells]
  BY DEF SessOK, close
<1>3. \A r \in Shells : shells'[r] = IF r = s THEN NoShell ELSE shells[r]
  BY DEF SessOK, close
<1>4. DefaultShellsOwn'
  <2> SUFFICES ASSUME NEW m \in Names, default_shells'[m] # 0
               PROVE  shells'[default_shells'[m]].machine = m
    BY DEF DefaultShellsOwn
  <2>1. default_shells'[m] = default_shells[m] /\ ~(m = shells[s].machine /\ default_shells[m] = s)
    BY DEF close
  <2>2. default_shells[m] \in Shells /\ shells[default_shells[m]].machine = m
    BY <2>1 DEF SessOK, DefaultShellsOwn, Shells
  <2> QED
    BY <2>1, <2>2, <1>3
<1>5. IdsAreFresh' /\ ShellsFrom({})
  BY <1>3 DEF SessOK, IdsAreFresh, ShellsFrom, close
<1> QED
  BY <1>1, <1>2, <1>4, <1>5 DEF SessOK, close

LEMMA CloseAllKeeps ==
  ASSUME SessOK, NEW n \in Names, close_all_for_machine(n)
  PROVE  /\ SessOK' /\ ShellsFrom({})
         /\ \A s \in Shells : shells'[s] # NoShell => shells'[s].machine # n
<1>1. /\ shells' \in [Shells -> Shell \cup {NoShell}]
      /\ \A s \in Shells : shells'[s] = IF shells[s].machine = n THEN NoShell ELSE shells[s]
  BY DEF SessOK, close_all_for_machine
<1>2. default_shells' \in [Names -> 0..MaxShells]
  BY DEF SessOK, close_all_for_machine
<1>3. DefaultShellsOwn'
  <2> SUFFICES ASSUME NEW m \in Names, default_shells'[m] # 0
               PROVE  shells'[default_shells'[m]].machine = m
    BY DEF DefaultShellsOwn
  <2>1. CASE m = n
    <3>1. default_shells[n] # 0 /\ \A s \in Shells : ~(shells[s].machine = n /\ default_shells[n] = s)
      BY <2>1 DEF close_all_for_machine, SessOK
    <3> QED
      BY <3>1 DEF SessOK, DefaultShellsOwn, Shells
  <2>2. CASE m # n
    <3>1. default_shells'[m] = default_shells[m]
      BY <2>2 DEF close_all_for_machine, SessOK
    <3>2. default_shells[m] \in Shells /\ shells[default_shells[m]].machine = m
      BY <3>1 DEF SessOK, DefaultShellsOwn, Shells
    <3> QED
      BY <2>2, <3>1, <3>2, <1>1
  <2> QED
    BY <2>1, <2>2
<1>4. IdsAreFresh'
  BY <1>1 DEF SessOK, IdsAreFresh, close_all_for_machine
<1>5. ShellsFrom({}) /\ \A s \in Shells : shells'[s] # NoShell => shells'[s].machine # n
  BY <1>1 DEF ShellsFrom
<1> QED
  BY <1>1, <1>2, <1>3, <1>4, <1>5 DEF SessOK, close_all_for_machine

\* A step that changes nothing of the shells but which processes live.
LEMMA DyingKeeps ==
  ASSUME SessOK, NEW b, NEW n, b \in {"docker", "ssh"}, shells' = Dying(b, n),
         UNCHANGED <<default_shells, opened>>
  PROVE  SessOK' /\ ShellsFrom({})
<1>1. \A s \in Shells : shells[s].on = b => shells[s] \in Shell
  BY DEF SessOK, NoShell
<1>2. \A x \in Shell : [x EXCEPT !.alive = FALSE] \in Shell /\ [x EXCEPT !.alive = FALSE].machine = x.machine
  BY DEF Shell
<1>3. shells' \in [Shells -> Shell \cup {NoShell}]
  BY <1>1, <1>2 DEF SessOK, Dying
<1>4. \A s \in Shells : shells'[s].machine = shells[s].machine /\ (shells'[s] = NoShell <=> shells[s] = NoShell)
  BY <1>1, <1>2, RealEntries DEF SessOK, Dying
<1>5. DefaultShellsOwn'
  BY <1>4 DEF SessOK, DefaultShellsOwn, Shells
<1>6. IdsAreFresh' /\ ShellsFrom({})
  BY <1>4 DEF SessOK, IdsAreFresh, ShellsFrom
<1> QED
  BY <1>3, <1>5, <1>6 DEF SessOK

-----------------------------------------------------------------------------
(* What the backends and the daemon do, and the two halves together.       *)

LEMMA SameDirectory == DirOK /\ UNCHANGED directory => DirOK' /\ KeepsMachinesBut({})
BY DEF DirOK, directory, OrderListsMachines, DefaultInv, DefaultMachineRegistered, KeepsMachinesBut, Registered

LEMMA SameSessions == SessOK /\ UNCHANGED sessions => SessOK' /\ ShellsFrom({})
BY DEF SessOK, sessions, DefaultShellsOwn, IdsAreFresh, ShellsFrom

\* The halves fit if the machines that may go have no shells left and the machines
\* that may get shells are registered.
LEMMA HalvesFit ==
  ASSUME Inv, DirOK', SessOK', WorldOK', NEW S, NEW T, ShellsFrom(S), KeepsMachinesBut(T),
         \A n \in S : Registered(n)',
         \A s \in Shells : shells'[s] # NoShell => shells'[s].machine \notin T
  PROVE  Inv'
<1>1. ASSUME NEW s \in Shells, shells'[s] # NoShell
      PROVE  machines'[shells'[s].machine] # NoMachine
  <2>1. CASE shells'[s].machine \in S
    BY <2>1 DEF Registered
  <2>2. CASE shells[s] # NoShell /\ shells'[s].machine = shells[s].machine
    <3>1. shells[s].machine \in Names /\ Registered(shells[s].machine)
      BY <2>2, RealEntries DEF Inv, SessOK, ShellsHaveMachines
    <3> QED
      BY <1>1, <2>2, <3>1 DEF KeepsMachinesBut, Registered
  <2> QED
    BY <1>1, <2>1, <2>2 DEF ShellsFrom
<1> QED
  BY <1>1 DEF Inv, ShellsHaveMachines, Registered

LEMMA ManagedContainers ==
  WorldOK => \A n \in Managed : n \in Containers /\ containers[n].state \in {"running", "exited"}
                               /\ containers[n].os \in Oses
BY DEF WorldOK, Managed

LEMMA RefusedKeeps ==
  ASSUME WorldOK, NEW n \in Containers, Refused(n), UNCHANGED <<provider, targets>>, server' \in {"down", "up"}
  PROVE  WorldOK'
BY DEF WorldOK, Refused

LEMMA DockerCreateKeeps ==
  ASSUME WorldOK, SessOK, NEW n \in Containers, NEW st \in {"running", "error"},
         docker_create(n, st), server' \in {"down", "up"}
  PROVE  WorldOK' /\ SessOK' /\ ShellsFrom({})
<1>1. WorldOK'
  <2>1. CASE CreateFresh(n, st)
    <3>1. CASE Refused(n) /\ UNCHANGED provider
      BY <3>1, RefusedKeeps DEF docker_create
    <3>2. CASE \E os \in Oses :
                /\ containers' = [containers EXCEPT ![n] = [state |-> "running", os |-> os]]
                /\ provider' \in {[provider EXCEPT ![n] = os], [provider EXCEPT ![n] = "linux"]}
      BY <3>2 DEF WorldOK, docker_create
    <3> QED
      BY <2>1, <3>1, <3>2 DEF CreateFresh
  <2>2. CASE Reattach(n, st)
    <3>1. n \in Managed
      BY <2>2 DEF Reattach, Managed
    <3>2. [containers[n] EXCEPT !.state = "running"] \in [state : {"running", "exited"}, os : Oses]
      BY <3>1 DEF WorldOK, Managed
    <3>3. containers' \in {containers, [containers EXCEPT ![n] = NoContainer],
                           [containers EXCEPT ![n] = [containers[n] EXCEPT !.state = "running"]]}
      BY <2>2 DEF Reattach
    <3> QED
      BY <2>2, <3>2, <3>3 DEF WorldOK, Reattach, docker_create
  <2> QED
    BY <2>1, <2>2 DEF docker_create
<1>2. CASE shells' = shells
  BY <1>1, <1>2, SameSessions DEF docker_create, sessions
<1>3. CASE shells' = Dying("docker", n)
  BY <1>1, <1>3, DyingKeeps DEF docker_create
<1> QED
  BY <1>2, <1>3 DEF docker_create

LEMMA SshCreateKeeps ==
  ASSUME WorldOK, NEW n \in Targets, NEW st, ssh_create(n, st), server' \in {"down", "up"}
  PROVE  WorldOK'
BY DEF WorldOK, ssh_create

LEMMA RemoveContainerKeeps ==
  ASSUME WorldOK, NEW n \in Names, docker_remove_container(n),
         UNCHANGED <<server, provider, targets>>
  PROVE  WorldOK'
BY DEF WorldOK, docker_remove_container

\* The container is started, stopped or gone.
LEMMA ContainerKeeps ==
  ASSUME WorldOK, NEW n \in Containers, containers[n] # NoContainer, NEW st \in {"running", "exited"},
         \/ containers' = [containers EXCEPT ![n].state = st]
         \/ containers' = [containers EXCEPT ![n] = NoContainer],
         UNCHANGED <<server, provider, targets>>
  PROVE  WorldOK'
<1>1. [containers[n] EXCEPT !.state = st] \in [state : {"running", "exited"}, os : Oses]
  BY DEF WorldOK
<1>2. containers' \in {[containers EXCEPT ![n] = [containers[n] EXCEPT !.state = st]],
                       [containers EXCEPT ![n] = NoContainer]}
  OBVIOUS
<1> QED
  BY <1>1, <1>2 DEF WorldOK

LEMMA InvInit == Init => Inv
<1> SUFFICES ASSUME Init PROVE Inv
  OBVIOUS
<1>1. DirOK
  BY DEF Init, DirOK, OrderListsMachines, DefaultInv, DefaultMachineRegistered, Registered
<1>2. SessOK
  BY DEF Init, SessOK, DefaultShellsOwn, IdsAreFresh
<1>3. WorldOK
  BY DEF Init, WorldOK
<1>4. ShellsHaveMachines
  BY DEF Init, ShellsHaveMachines
<1> QED
  BY <1>1, <1>2, <1>3, <1>4 DEF Inv

LEMMA ForgetKeeps ==
  ASSUME Forget, \/ UNCHANGED containers
                 \/ \E n \in Containers : Refused(n), WorldOK
  PROVE  Inv'
<1>1. DirOK'
  BY DEF Forget, DirOK, OrderListsMachines, DefaultInv, DefaultMachineRegistered, Registered
<1>2. SessOK'
  BY DEF Forget, SessOK, DefaultShellsOwn, IdsAreFresh
<1>3. containers' \in [Containers -> [state : {"running", "exited"}, os : Oses] \cup {NoContainer}]
  BY DEF WorldOK, Refused
<1>4. WorldOK'
  BY <1>3 DEF Forget, WorldOK
<1>5. ShellsHaveMachines'
  BY DEF Forget, ShellsHaveMachines
<1> QED
  BY <1>1, <1>2, <1>4, <1>5 DEF Inv

-----------------------------------------------------------------------------
(* The steps.                                                              *)

LEMMA MachineCallKeeps == ASSUME Inv, MachineCall PROVE Inv'
<1> USE DEF Inv
<1>1. CASE DockerPs
  <2>1. DirOK' /\ KeepsMachinesBut({})
    BY <1>1, AdoptKeeps DEF DockerPs
  <2>2. SessOK' /\ ShellsFrom({}) /\ WorldOK'
    BY <1>1, SameSessions DEF DockerPs, WorldOK
  <2> QED
    BY <2>1, <2>2, HalvesFit
<1>2. ASSUME NEW n \in Containers, DockerRun(n) PROVE Inv'
  <2>1. PICK st \in {"running", "error"} : docker_create(n, st) /\ register(n, "docker", st)
    BY <1>2 DEF DockerRun
  <2>2. DirOK' /\ KeepsMachinesBut({})
    BY <2>1, RegisterKeeps
  <2>3. WorldOK' /\ SessOK' /\ ShellsFrom({})
    BY <1>2, <2>1, DockerCreateKeeps DEF DockerRun
  <2> QED
    BY <2>2, <2>3, HalvesFit
<1>3. ASSUME NEW n \in Containers, DockerStop(n) PROVE Inv'
  <2>1. DirOK' /\ KeepsMachinesBut({})
    BY <1>3, SameDirectory DEF DockerStop
  <2>2. SessOK' /\ ShellsFrom({})
    BY <1>3, CloseAllKeeps DEF DockerStop
  <2>3. CASE UNCHANGED containers
    <3>1. WorldOK'
      BY <1>3, <2>3 DEF DockerStop, WorldOK
    <3> QED
      BY <2>1, <2>2, <3>1, HalvesFit
  <2>4. CASE containers[n].state = "running" /\ containers' = [containers EXCEPT ![n].state = "exited"]
    <3>1. WorldOK'
      <4>1. containers[n] # NoContainer /\ UNCHANGED <<server, provider, targets>>
        BY <1>3, <2>4 DEF DockerStop, NoContainer
      <4> QED
        BY <2>4, <4>1, ContainerKeeps
    <3> QED
      BY <2>1, <2>2, <3>1, HalvesFit
  <2> QED
    BY <1>3, <2>3, <2>4 DEF DockerStop
<1>4. ASSUME NEW n \in Containers, DockerStart(n) PROVE Inv'
  <2>1. DirOK' /\ KeepsMachinesBut({}) /\ SessOK' /\ ShellsFrom({})
    BY <1>4, SameDirectory, SameSessions DEF DockerStart
  <2>2. WorldOK'
    <3>1. containers[n] # NoContainer /\ containers' = [containers EXCEPT ![n].state = "running"]
          /\ UNCHANGED <<server, provider, targets>>
      BY <1>4 DEF DockerStart, NoContainer
    <3> QED
      BY <3>1, ContainerKeeps
  <2> QED
    BY <2>1, <2>2, HalvesFit
<1>5. ASSUME NEW n \in Containers, DockerRestart(n) PROVE Inv'
  <2>1. DirOK' /\ KeepsMachinesBut({}) /\ SessOK' /\ ShellsFrom({})
    BY <1>5, SameDirectory, DyingKeeps DEF DockerRestart
  <2>2. WorldOK'
    BY <1>5, ContainerKeeps DEF DockerRestart
  <2> QED
    BY <2>1, <2>2, HalvesFit
<1>6. ASSUME NEW n \in Containers, DockerRemove(n) PROVE Inv'
  <2>1. /\ SessOK' /\ ShellsFrom({})
        /\ \A s \in Shells : shells'[s] # NoShell => shells'[s].machine # n
    BY <1>6, CloseAllKeeps DEF DockerRemove
  <2>2. CASE docker_remove_container(n) /\ unregister(n)
    <3>1. Registered(n)
      BY <1>6 DEF DockerRemove, IsDocker, Registered, NoMachine
    <3>2. DirOK' /\ KeepsMachinesBut({n})
      BY <2>2, <3>1, UnregisterKeeps
    <3>3. WorldOK'
      BY <1>6, <2>2, RemoveContainerKeeps DEF DockerRemove
    <3> QED
      BY <2>1, <3>2, <3>3, HalvesFit
  <2>3. CASE UNCHANGED <<containers, directory>>
    <3>1. DirOK' /\ KeepsMachinesBut({}) /\ WorldOK'
      BY <1>6, <2>3, SameDirectory DEF DockerRemove, WorldOK
    <3> QED
      BY <2>1, <3>1, HalvesFit
  <2> QED
    BY <1>6, <2>2, <2>3 DEF DockerRemove
<1>7. ASSUME NEW n \in Targets, Connect(n) PROVE Inv'
  <2>1. PICK st \in {"running", "error"} :
          /\ ssh_create(n, st) /\ register(n, "ssh", st)
          /\ create_default(n, "ssh") \/ UNCHANGED sessions
    BY <1>7 DEF Connect
  <2>2. DirOK' /\ KeepsMachinesBut({}) /\ Registered(n)'
    <3>1. default' \in {default, n} /\ default' # None
      BY <2>1 DEF register
    <3> QED
      BY <2>1, <3>1, RecordKeeps DEF register
  <2>3. SessOK' /\ ShellsFrom({n})
    BY <2>1, CreateDefaultKeeps, SameSessions DEF ShellsFrom
  <2>4. WorldOK'
    BY <1>7, <2>1, SshCreateKeeps DEF Connect
  <2> QED
    BY <2>2, <2>3, <2>4, HalvesFit
<1>8. ASSUME NEW n \in Names, Close(n) PROVE Inv'
  <2>1. /\ SessOK' /\ ShellsFrom({})
        /\ \A s \in Shells : shells'[s] # NoShell => shells'[s].machine # n
    BY <1>8, CloseAllKeeps DEF Close
  <2>2. DirOK' /\ KeepsMachinesBut({n})
    BY <1>8, UnregisterKeeps DEF Close
  <2>3. WorldOK'
    BY <1>8, RemoveContainerKeeps DEF Close, WorldOK
  <2> QED
    BY <2>1, <2>2, <2>3, HalvesFit
<1>9. ASSUME NEW n \in Names, DefaultSetMachine(n) PROVE Inv'
  <2>1. DirOK' /\ KeepsMachinesBut({})
    BY <1>9 DEF DefaultSetMachine, DirOK, OrderListsMachines, DefaultInv, DefaultMachineRegistered,
                KeepsMachinesBut, Registered
  <2>2. SessOK' /\ ShellsFrom({}) /\ WorldOK'
    BY <1>9, SameSessions DEF DefaultSetMachine, WorldOK
  <2> QED
    BY <2>1, <2>2, HalvesFit
<1> QED
  BY <1>1, <1>2, <1>3, <1>4, <1>5, <1>6, <1>7, <1>8, <1>9 DEF MachineCall

LEMMA ShellCallKeeps == ASSUME Inv, ShellCall PROVE Inv'
<1> USE DEF Inv
<1>1. ASSUME NEW n \in Names, ShellNew(n) \/ ShellExec(n) PROVE Inv'
  <2>1. machines[n].backend \in {"docker", "ssh"} /\ Registered(n)
    <3>1. Registered(n) /\ machines[n] \in Machine
      BY <1>1 DEF ShellNew, ShellExec, DirOK, Registered
    <3> QED
      BY <3>1 DEF Machine
  <2>2. DirOK' /\ KeepsMachinesBut({}) /\ WorldOK'
    BY <1>1, SameDirectory DEF ShellNew, ShellExec, WorldOK
  <2>3. SessOK' /\ ShellsFrom({n})
    BY <1>1, <2>1, ShellNewKeeps, CreateDefaultKeeps DEF ShellNew, ShellExec
  <2>4. Registered(n)'
    BY <2>1, <2>2 DEF KeepsMachinesBut
  <2> QED
    BY <2>2, <2>3, <2>4, HalvesFit
<1>2. ASSUME NEW s \in Shells, ShellRemove(s) PROVE Inv'
  <2>1. DirOK' /\ KeepsMachinesBut({}) /\ WorldOK'
    BY <1>2, SameDirectory DEF ShellRemove, WorldOK
  <2>2. SessOK' /\ ShellsFrom({})
    BY <1>2, CloseKeeps DEF ShellRemove
  <2> QED
    BY <2>1, <2>2, HalvesFit
<1>3. ASSUME NEW s \in Shells, DefaultSetShell(s) PROVE Inv'
  <2>1. DirOK' /\ KeepsMachinesBut({}) /\ WorldOK'
    BY <1>3, SameDirectory DEF DefaultSetShell, WorldOK
  <2>2. shells[s].machine \in Names /\ s \in 0..MaxShells
    BY <1>3, RealEntries DEF DefaultSetShell, SessOK, Shells
  <2>3. SessOK' /\ ShellsFrom({})
    BY <1>3, <2>2 DEF DefaultSetShell, SessOK, DefaultShellsOwn, IdsAreFresh, ShellsFrom
  <2> QED
    BY <2>1, <2>3, HalvesFit
<1> QED
  BY <1>1, <1>2, <1>3 DEF ShellCall

LEMMA EnvStepKeeps == ASSUME Inv, EnvStep PROVE Inv'
<1> USE DEF Inv
<1>1. ASSUME NEW n \in Containers, ContainerExits(n) \/ ContainerVanishes(n) PROVE Inv'
  <2>1. DirOK' /\ KeepsMachinesBut({}) /\ SessOK' /\ ShellsFrom({})
    BY <1>1, SameDirectory, DyingKeeps DEF ContainerExits, ContainerVanishes
  <2>2. WorldOK'
    BY <1>1, ContainerKeeps DEF ContainerExits, ContainerVanishes, NoContainer
  <2> QED
    BY <2>1, <2>2, HalvesFit
<1>2. ASSUME NEW n \in Targets, MasterDrops(n) PROVE Inv'
  <2>1. DirOK' /\ KeepsMachinesBut({}) /\ SessOK' /\ ShellsFrom({}) /\ WorldOK'
    BY <1>2, SameDirectory, DyingKeeps DEF MasterDrops, WorldOK
  <2> QED
    BY <2>1, HalvesFit
<1>3. ASSUME NEW s \in Shells, ShellEnds(s) PROVE Inv'
  <2>1. DirOK' /\ KeepsMachinesBut({}) /\ WorldOK'
    BY <1>3, SameDirectory DEF ShellEnds, WorldOK
  <2>2. shells[s] \in Shell
    BY <1>3 DEF ShellEnds, SessOK, NoShell
  <2>3. /\ [shells[s] EXCEPT !.alive = FALSE] \in Shell
        /\ [shells[s] EXCEPT !.alive = FALSE].machine = shells[s].machine
    BY <2>2 DEF Shell
  <2>4. /\ shells' \in [Shells -> Shell \cup {NoShell}]
        /\ \A r \in Shells : /\ shells'[r].machine = shells[r].machine
                             /\ shells'[r] = NoShell <=> shells[r] = NoShell
    BY <1>3, <2>2, <2>3, RealEntries DEF ShellEnds, SessOK
  <2>5. SessOK' /\ ShellsFrom({})
    BY <1>3, <2>4 DEF ShellEnds, SessOK, DefaultShellsOwn, IdsAreFresh, ShellsFrom, Shells
  <2> QED
    BY <2>1, <2>5, HalvesFit
<1> QED
  BY <1>1, <1>2, <1>3 DEF EnvStep

LEMMA BootKeeps == ASSUME Inv, Boot PROVE Inv'
<1> USE DEF Inv
<1>1. DirOK' /\ KeepsMachinesBut({})
  BY AdoptKeeps, SameDirectory DEF Boot
<1>2. SessOK' /\ ShellsFrom({}) /\ WorldOK'
  BY SameSessions DEF Boot, WorldOK
<1> QED
  BY <1>1, <1>2, HalvesFit

LEMMA ProvisionKeeps == ASSUME Inv, Provision PROVE Inv'
<1> USE DEF Inv
<1>1. CASE DefaultName = None /\ server' = "up"
           /\ UNCHANGED <<directory, sessions, provider, targets, containers>>
  <2>1. DirOK' /\ KeepsMachinesBut({}) /\ SessOK' /\ ShellsFrom({}) /\ WorldOK'
    BY <1>1, SameDirectory, SameSessions DEF WorldOK
  <2> QED
    BY <2>1, HalvesFit
<1>2. CASE DefaultName # None /\ Registered(DefaultName) /\ default' = DefaultName /\ server' = "up"
           /\ UNCHANGED <<machines, order, sessions, provider, targets, containers>>
  <2>1. DefaultName \in Names
    BY <1>2
  <2>2. DirOK' /\ KeepsMachinesBut({})
    BY <1>2, <2>1 DEF DirOK, OrderListsMachines, DefaultInv, DefaultMachineRegistered, KeepsMachinesBut, Registered
  <2>3. SessOK' /\ ShellsFrom({}) /\ WorldOK'
    BY <1>2, SameSessions DEF WorldOK
  <2> QED
    BY <2>2, <2>3, HalvesFit
<1>3. CASE /\ DefaultName # None
           /\ \/ DefaultBackend = "docker" /\ DefaultName \in Containers
                /\ docker_create(DefaultName, "running")
              \/ DefaultBackend = "ssh" /\ DefaultName \in Targets
                /\ ssh_create(DefaultName, "running") /\ UNCHANGED sessions
           /\ Record(DefaultName, DefaultBackend, "running")
           /\ default' = DefaultName /\ server' = "up"
  <2>1. DirOK' /\ KeepsMachinesBut({})
    BY <1>3, RecordKeeps
  <2>2. WorldOK' /\ SessOK' /\ ShellsFrom({})
    BY <1>3, DockerCreateKeeps, SshCreateKeeps, SameSessions
  <2> QED
    BY <2>1, <2>2, HalvesFit
<1>4. CASE Forget /\ DefaultName # None
           /\ \/ UNCHANGED containers
              \/ DefaultBackend = "docker" /\ Refused(DefaultName)
  <2>1. DefaultBackend = "docker" => DefaultName \in Containers
    BY <1>4
  <2> QED
    BY <1>4, <2>1, ForgetKeeps
<1> QED
  BY <1>1, <1>2, <1>3, <1>4 DEF Provision

LEMMA InvNext == Inv /\ [Next]_vars => Inv'
<1> SUFFICES ASSUME Inv, [Next]_vars PROVE Inv'
  OBVIOUS
<1>1. CASE Boot
  BY <1>1, BootKeeps
<1>2. CASE Provision
  BY <1>2, ProvisionKeeps
<1>3. CASE Crash
  BY <1>3, ForgetKeeps DEF Crash, Inv
<1>4. CASE MachineCall
  BY <1>4, MachineCallKeeps
<1>5. CASE ShellCall
  BY <1>5, ShellCallKeeps
<1>6. CASE EnvStep
  BY <1>6, EnvStepKeeps
<1>7. CASE UNCHANGED vars
  <2>1. DirOK' /\ KeepsMachinesBut({}) /\ SessOK' /\ ShellsFrom({}) /\ WorldOK'
    BY <1>7, SameDirectory, SameSessions DEF vars, Inv, WorldOK
  <2> QED
    BY <2>1, HalvesFit
<1> QED
  BY <1>1, <1>2, <1>3, <1>4, <1>5, <1>6, <1>7 DEF Next

LEMMA SpecInv == Spec => []Inv
<1>1. Init => Inv
  BY InvInit
<1>2. Inv /\ [Next]_vars => Inv'
  BY InvNext
<1> QED
  BY <1>1, <1>2, PTL DEF Spec

-----------------------------------------------------------------------------
(* What may become of a shell in a step.                                   *)

KeepsShells == \A s \in Shells : shells[s] # NoShell => shells'[s] # NoShell
KeepsDefaults == \A n \in Names : default_shells[n] # 0 => default_shells'[n] \in {0, default_shells[n]}

\* The formula of DeadShellsKept.
ShellGoesBy(s) ==
  \/ ShellRemove(s) \/ Close(shells[s].machine) \/ server' = "down"
  \/ \E n \in Containers : n = shells[s].machine /\ (DockerStop(n) \/ DockerRemove(n))
ShellsKept ==
  /\ \A s \in Shells : shells[s] # NoShell /\ shells'[s] = NoShell => ShellGoesBy(s)
  /\ \A n \in Names : default_shells[n] # 0 /\ default_shells'[n] \notin {0, default_shells[n]} =>
       DefaultSetShell(default_shells'[n])

LEMMA KeptIsKept == KeepsShells /\ KeepsDefaults => ShellsKept
BY DEF KeepsShells, KeepsDefaults, ShellsKept

LEMMA QuietKeeps == UNCHANGED sessions => KeepsShells /\ KeepsDefaults
BY DEF sessions, KeepsShells, KeepsDefaults

LEMMA OpenKeepsShells ==
  ASSUME SessOK, NEW n \in Names, NEW b \in {"docker", "ssh"}, open(n, b)
  PROVE  KeepsShells
<1>1. shells[opened'] = NoShell \/ opened' \notin Shells
  BY DEF SessOK, IdsAreFresh, open
<1> QED
  BY <1>1, OpenKeeps DEF KeepsShells

LEMMA CreateDefaultKeepsDefaults ==
  ASSUME SessOK, NEW n \in Names, NEW b, create_default(n, b)
  PROVE  KeepsDefaults
<1>1. default_shells[n] = 0
  <2> SUFFICES ASSUME default_shells[n] # 0 PROVE FALSE
    OBVIOUS
  <2>1. default_shells[n] \in Shells /\ shells[default_shells[n]].machine = n
    BY DEF SessOK, DefaultShellsOwn, Shells
  <2>2. shells[default_shells[n]] # NoShell
    BY <2>1, RealEntries
  <2> QED
    BY <2>2 DEF create_default, HasDefault
<1> QED
  BY <1>1 DEF create_default, KeepsDefaults, SessOK

LEMMA DyingKeepsShells ==
  ASSUME SessOK, NEW b \in {"docker", "ssh"}, NEW n, shells' = Dying(b, n), UNCHANGED default_shells
  PROVE  KeepsShells /\ KeepsDefaults
<1>1. \A s \in Shells : shells[s].on = b => shells[s] \in Shell
  BY DEF SessOK, NoShell
<1>2. \A x \in Shell : [x EXCEPT !.alive = FALSE] \in Shell
  BY DEF Shell
<1> QED
  BY <1>1, <1>2, RealEntries DEF SessOK, Dying, KeepsShells, KeepsDefaults

\* The calls that close the shells of a machine close no others.
LEMMA CloseAllKept ==
  ASSUME SessOK, NEW n \in Names, close_all_for_machine(n),
         \A s \in Shells : shells[s].machine = n => ShellGoesBy(s)
  PROVE  ShellsKept
<1>1. \A s \in Shells : shells[s] # NoShell /\ shells'[s] = NoShell => shells[s].machine = n
  BY DEF SessOK, close_all_for_machine
<1>2. KeepsDefaults
  BY DEF SessOK, close_all_for_machine, KeepsDefaults
<1> QED
  BY <1>1, <1>2 DEF ShellsKept, KeepsDefaults

LEMMA StepKeepsShells == Inv /\ Next => ShellsKept
<1> SUFFICES ASSUME Inv, Next PROVE ShellsKept
  OBVIOUS
<1> USE DEF Inv
<1>1. CASE UNCHANGED sessions
  BY <1>1, QuietKeeps, KeptIsKept
<1>2. CASE Forget
  <2>1. server' = "down" /\ KeepsDefaults
    BY <1>2 DEF Forget, KeepsDefaults
  <2> QED
    BY <2>1 DEF ShellsKept, ShellGoesBy, KeepsDefaults
<1>3. ASSUME NEW n \in Containers, NEW st, docker_create(n, st) PROVE ShellsKept
  <2>1. shells' = shells \/ shells' = Dying("docker", n)
    BY <1>3 DEF docker_create
  <2> QED
    BY <1>3, <2>1, QuietKeeps, DyingKeepsShells, KeptIsKept DEF docker_create, sessions
<1>4. CASE Boot \/ Provision \/ Crash
  BY <1>1, <1>2, <1>3, <1>4 DEF Boot, Provision, Crash, sessions
<1>5. CASE MachineCall
  <2>1. ASSUME NEW n \in Containers, DockerRun(n) PROVE ShellsKept
    BY <1>3, <2>1 DEF DockerRun
  <2>2. ASSUME NEW n \in Containers, DockerStop(n) \/ DockerRemove(n) PROVE ShellsKept
    <3>1. close_all_for_machine(n) /\ \A s \in Shells : shells[s].machine = n => ShellGoesBy(s)
      BY <2>2 DEF DockerStop, DockerRemove, ShellGoesBy
    <3> QED
      BY <3>1, CloseAllKept
  <2>3. ASSUME NEW n \in Containers, DockerRestart(n) PROVE ShellsKept
    BY <2>3, DyingKeepsShells, KeptIsKept DEF DockerRestart
  <2>4. ASSUME NEW n \in Targets, Connect(n) PROVE ShellsKept
    <3>1. CASE create_default(n, "ssh")
      BY <3>1, OpenKeepsShells, CreateDefaultKeepsDefaults, KeptIsKept DEF create_default
    <3> QED
      BY <1>1, <2>4, <3>1 DEF Connect
  <2>5. ASSUME NEW n \in Names, Close(n) PROVE ShellsKept
    <3>1. close_all_for_machine(n) /\ \A s \in Shells : shells[s].machine = n => ShellGoesBy(s)
      BY <2>5 DEF Close, ShellGoesBy
    <3> QED
      BY <3>1, CloseAllKept
  <2>6. ASSUME NEW n \in Names, DefaultSetMachine(n) PROVE ShellsKept
    BY <1>1, <2>6 DEF DefaultSetMachine
  <2>7. ASSUME NEW n \in Containers, DockerStart(n) PROVE ShellsKept
    BY <1>1, <2>7 DEF DockerStart
  <2>8. CASE DockerPs
    BY <1>1, <2>8 DEF DockerPs
  <2> QED
    BY <1>5, <2>1, <2>2, <2>3, <2>4, <2>5, <2>6, <2>7, <2>8 DEF MachineCall
<1>6. CASE ShellCall
  <2>1. ASSUME NEW n \in Names, ShellNew(n) \/ ShellExec(n) PROVE ShellsKept
    <3>1. machines[n].backend \in {"docker", "ssh"}
      <4>1. machines[n] \in Machine
        BY <2>1 DEF ShellNew, ShellExec, DirOK, Registered
      <4> QED
        BY <4>1 DEF Machine
    <3>2. open(n, machines[n].backend)
      BY <2>1 DEF ShellNew, ShellExec, create_default
    <3>3. KeepsDefaults
      BY <2>1, CreateDefaultKeepsDefaults DEF ShellNew, ShellExec, KeepsDefaults
    <3> QED
      BY <3>1, <3>2, <3>3, OpenKeepsShells, KeptIsKept
  <2>2. ASSUME NEW s \in Shells, ShellRemove(s) PROVE ShellsKept
    <3>1. \A r \in Shells : shells[r] # NoShell /\ shells'[r] = NoShell => r = s
      BY <2>2 DEF ShellRemove, close, SessOK
    <3>2. KeepsDefaults
      BY <2>2 DEF ShellRemove, close, KeepsDefaults
    <3> QED
      BY <2>2, <3>1, <3>2 DEF ShellsKept, ShellGoesBy, KeepsDefaults
  <2>3. ASSUME NEW s \in Shells, DefaultSetShell(s) PROVE ShellsKept
    <3>1. UNCHANGED shells
      BY <2>3 DEF DefaultSetShell
    <3>2. \A n \in Names : default_shells'[n] \in {s, default_shells[n]}
      BY <2>3 DEF DefaultSetShell, SessOK
    <3> QED
      BY <2>3, <3>1, <3>2 DEF ShellsKept
  <2> QED
    BY <1>6, <2>1, <2>2, <2>3 DEF ShellCall
<1>7. CASE EnvStep
  <2>1. ASSUME NEW n \in Containers, ContainerExits(n) \/ ContainerVanishes(n) PROVE ShellsKept
    BY <2>1, DyingKeepsShells, KeptIsKept DEF ContainerExits, ContainerVanishes
  <2>2. ASSUME NEW n \in Targets, MasterDrops(n) PROVE ShellsKept
    BY <2>2, DyingKeepsShells, KeptIsKept DEF MasterDrops
  <2>3. ASSUME NEW s \in Shells, ShellEnds(s) PROVE ShellsKept
    <3>1. shells[s] \in Shell
      BY <2>3 DEF ShellEnds, SessOK, NoShell
    <3>2. [shells[s] EXCEPT !.alive = FALSE] \in Shell
      BY <3>1 DEF Shell
    <3>3. KeepsShells /\ KeepsDefaults
      BY <2>3, <3>2, RealEntries DEF ShellEnds, SessOK, KeepsShells, KeepsDefaults
    <3> QED
      BY <3>3, KeptIsKept
  <2> QED
    BY <1>7, <2>1, <2>2, <2>3 DEF EnvStep
<1> QED
  BY <1>4, <1>5, <1>6, <1>7 DEF Next

-----------------------------------------------------------------------------
(* What the server knows of the containers, as long as the daemon answers   *)
(* and no name is on both backends: without the first a container is        *)
(* refused or missed, without the second close(n) of an ssh entry leaves    *)
(* the container of the same name behind.                                   *)

KnownInv ==
  /\ server # "down" => \A n \in Containers : containers[n] # NoContainer => Registered(n)
  /\ \A n \in Containers : Registered(n) => IsDocker(n)

\* What is registered is not forgotten, and no container is new.
LEMMA KnownStays ==
  ASSUME KnownInv, UNCHANGED machines, server' = "down" \/ server # "down",
         \A n \in Containers : containers'[n] # NoContainer => containers[n] # NoContainer
  PROVE  KnownInv'
BY DEF KnownInv, Registered, IsDocker

\* The machine of a call is registered, those of others are as they were.
LEMMA KnownRegisters ==
  ASSUME KnownInv, DirOK, server # "down", NEW n \in Names, NEW b \in {"docker", "ssh"},
         NEW st \in {"running", "exited", "error"}, Record(n, b, st),
         n \in Containers => b = "docker",
         \A m \in Containers \ {n} : containers'[m] = containers[m]
  PROVE  KnownInv'
<1>1. /\ machines'[n] = [backend |-> b, status |-> st]
      /\ \A m \in Names \ {n} : machines'[m] = machines[m]
  BY DEF DirOK, Record
<1>2. [backend |-> b, status |-> st] # NoMachine BY RealEntries DEF Machine
<1> QED BY <1>1, <1>2 DEF KnownInv, Registered, IsDocker

\* A machine that goes takes its container with it.
LEMMA KnownDrops ==
  ASSUME KnownInv, DirOK, NEW n \in Names, unregister(n), server' = server,
         n \in Containers => containers'[n] = NoContainer,
         \A m \in Containers \ {n} : containers'[m] = containers[m]
  PROVE  KnownInv'
<1>1. machines'[n] = NoMachine /\ \A m \in Names \ {n} : machines'[m] = machines[m]
  BY DEF DirOK, unregister
<1> QED BY <1>1 DEF KnownInv, Registered, IsDocker

\* Every container that is listed is registered afterwards.
LEMMA KnownAdopts ==
  ASSUME \A n \in Containers : Registered(n) => IsDocker(n), DirOK, WorldOK, AdoptAll(Managed),
         UNCHANGED containers
  PROVE  KnownInv'
<1>1. \A n \in Names : machines'[n] = IF n \in Managed /\ ~Registered(n)
        THEN [backend |-> "docker", status |-> containers[n].state] ELSE machines[n]
  BY DEF AdoptAll, Managed
<1>2. ASSUME NEW n \in Containers, containers[n] # NoContainer
      PROVE  [backend |-> "docker", status |-> containers[n].state] # NoMachine
  <2>1. "docker" # "none" OBVIOUS
  <2> QED BY <2>1 DEF NoMachine
<1>3. ASSUME NEW n \in Containers, containers'[n] # NoContainer PROVE Registered(n)'
  <2>1. n \in Names /\ n \in Managed BY <1>3 DEF Managed
  <2> QED BY <1>1, <1>2, <1>3, <2>1 DEF Registered
<1>4. ASSUME NEW n \in Containers, Registered(n)' PROVE IsDocker(n)'
  <2>1. n \in Names OBVIOUS
  <2>2. CASE n \in Managed /\ ~Registered(n)
    <3>1. machines'[n] = [backend |-> "docker", status |-> containers[n].state]
      BY <1>1, <2>1, <2>2
    <3> QED BY <3>1 DEF IsDocker
  <2>3. CASE ~(n \in Managed /\ ~Registered(n))
    <3>1. machines'[n] = machines[n] BY <1>1, <2>1, <2>3
    <3> QED BY <1>4, <3>1 DEF Registered, IsDocker
  <2> QED BY <2>2, <2>3
<1> QED BY <1>3, <1>4 DEF KnownInv

LEMMA KnownNext ==
  ASSUME Inv, KnownInv, "daemon" \notin Faults, Containers \cap Targets = {}, [Next]_vars
  PROVE  KnownInv'
<1> USE DEF Inv
<1>1. ASSUME Forget PROVE KnownInv'
  <2>1. server' = "down" /\ \A n \in Names : machines'[n] = NoMachine BY <1>1 DEF Forget
  <2> QED BY <2>1 DEF KnownInv, Registered
<1>2. ASSUME NEW n \in Containers, NEW st, docker_create(n, st)
      PROVE  \A m \in Containers \ {n} : containers'[m] = containers[m]
  BY <1>2 DEF docker_create, CreateFresh, Refused, Reattach, WorldOK
<1>3. CASE Boot
  <2>1. AdoptAll(Managed) /\ UNCHANGED containers BY <1>3 DEF Boot
  <2> QED BY <2>1, KnownAdopts DEF KnownInv
<1>4. CASE Provision
  <2>1. CASE UNCHANGED <<machines, containers>> BY <1>4, <2>1, KnownStays DEF Provision
  <2>2. CASE Forget BY <1>1, <2>2
  <2>3. CASE /\ DefaultName # None
             /\ \/ DefaultBackend = "docker" /\ docker_create(DefaultName, "running")
                \/ DefaultBackend = "ssh" /\ DefaultName \in Targets /\ UNCHANGED containers
             /\ Record(DefaultName, DefaultBackend, "running")
    <3>1. DefaultName \in Names /\ (DefaultName \in Containers => DefaultBackend = "docker")
      BY <2>3
    <3>2. \A m \in Containers \ {DefaultName} : containers'[m] = containers[m] BY <1>2, <2>3
    <3>3. server # "down" BY <1>4 DEF Provision
    <3> QED BY <2>3, <3>1, <3>2, <3>3, KnownRegisters
  <2> QED BY <1>4, <2>1, <2>2, <2>3 DEF Provision, directory, ssh_create
<1>5. CASE Crash BY <1>1, <1>5 DEF Crash
<1>6. CASE MachineCall
  <2>1. CASE DockerPs BY <2>1, KnownAdopts DEF DockerPs, KnownInv
  <2>2. ASSUME NEW n \in Containers, DockerRun(n) PROVE KnownInv'
    BY <1>2, <2>2, KnownRegisters DEF DockerRun, register
  <2>3. ASSUME NEW n \in Containers, DockerStop(n) \/ DockerStart(n) \/ DockerRestart(n) PROVE KnownInv'
    <3>1. \A m \in Containers : containers'[m] # NoContainer => containers[m] # NoContainer
      BY <2>3 DEF DockerStop, DockerStart, DockerRestart, WorldOK, NoContainer
    <3>2. UNCHANGED <<machines, server>> BY <2>3 DEF DockerStop, DockerStart, DockerRestart, directory
    <3> QED BY <2>3, <3>1, <3>2, KnownStays DEF DockerStop, DockerStart, DockerRestart
  <2>4. ASSUME NEW n \in Containers, DockerRemove(n) PROVE KnownInv'
    BY <2>4, KnownDrops DEF DockerRemove, docker_remove_container, WorldOK
  <2>5. ASSUME NEW n \in Targets, Connect(n) PROVE KnownInv'
    BY <2>5, KnownRegisters DEF Connect, register, ssh_create
  \* An entry of a container's name is docker's, so that its container goes too.
  <2>6. ASSUME NEW n \in Names, Close(n) PROVE KnownInv'
    <3>1. n \in Containers => IsDocker(n) BY <2>6 DEF Close, KnownInv
    <3>2. CASE IsDocker(n) /\ docker_remove_container(n)
      BY <2>6, <3>2, KnownDrops DEF Close, docker_remove_container, WorldOK
    <3>3. CASE ~IsDocker(n) /\ UNCHANGED containers BY <2>6, <3>1, <3>3, KnownDrops DEF Close
    <3> QED BY <2>6, <3>2, <3>3 DEF Close
  <2>7. ASSUME NEW n \in Names, DefaultSetMachine(n) PROVE KnownInv'
    BY <2>7, KnownStays DEF DefaultSetMachine
  <2> QED BY <1>6, <2>1, <2>2, <2>3, <2>4, <2>5, <2>6, <2>7 DEF MachineCall
<1>7. CASE ShellCall
  BY <1>7, KnownStays DEF ShellCall, ShellNew, ShellExec, ShellRemove, DefaultSetShell, directory
<1>8. CASE EnvStep
  <2>1. \A m \in Containers : containers'[m] # NoContainer => containers[m] # NoContainer
    BY <1>8 DEF EnvStep, ContainerExits, ContainerVanishes, MasterDrops, ShellEnds, WorldOK, NoContainer
  <2> QED
    BY <1>8, <2>1, KnownStays DEF EnvStep, ContainerExits, ContainerVanishes, MasterDrops, ShellEnds, directory
<1>9. CASE UNCHANGED vars BY <1>9, KnownStays DEF vars, directory
<1> QED BY <1>3, <1>4, <1>5, <1>6, <1>7, <1>8, <1>9 DEF Next

-----------------------------------------------------------------------------
(* The theorems.                                                           *)

\* The registries, the backends' tables and the containers keep their types: the
\* attributes of TargetRegistry, ShellRegistry, DockerBackend and SSHBackend.
THEOREM ServerTypeCorrect == Spec => []TypeOK
<1>1. Inv => TypeOK
  BY InvMeaning
<1> QED
  BY <1>1, SpecInv, PTL

\* The two registries are consistent, whatever fails: TargetRegistry's dict order and
\* default, ShellRegistry's entries, defaults and ids.
THEOREM RegistriesConsistent == Spec => []RegistryInv
<1>1. Inv => RegistryInv
  BY InvMeaning
<1> QED
  BY <1>1, SpecInv, PTL

\* TargetRegistry._default names no machine that is gone: resolve_machine(None) answers
\* with a registered machine or with an error.
THEOREM DefaultMachineAlwaysRegistered == Spec => []DefaultMachineRegistered
<1>1. Inv => DefaultMachineRegistered
  BY InvMeaning DEF RegistryInv
<1> QED
  BY <1>1, SpecInv, PTL

\* Whichever call drops a machine closes its shells first: no entry of
\* ShellRegistry._shells names a machine that TargetRegistry does not know.
THEOREM NoShellWithoutMachine == Spec => []ShellsHaveMachines
<1>1. Inv => ShellsHaveMachines
  BY DEF Inv
<1> QED
  BY <1>1, SpecInv, PTL

\* get_or_create_default returns a shell of the machine it was asked for.
THEOREM DefaultShellOfItsMachine == Spec => []DefaultShellsOwn
<1>1. Inv => DefaultShellsOwn
  BY DEF Inv, SessOK
<1> QED
  BY <1>1, SpecInv, PTL

\* A shell stays in ShellRegistry, and the default of its machine, until a call that is
\* meant to end it: shell_remove, docker_stop, docker_remove, close or default_set.
THEOREM DeadShellsStay == Spec => DeadShellsKept
<1>1. Inv /\ [Next]_vars => [ShellsKept]_vars
  BY StepKeepsShells
<1>2. Spec => [][ShellsKept]_vars
  BY <1>1, SpecInv, PTL DEF Spec
<1>3. ShellsKept <=>
        /\ \A s \in Shells : shells[s] # NoShell /\ shells'[s] = NoShell =>
             \/ ShellRemove(s) \/ Close(shells[s].machine) \/ server' = "down"
             \/ \E n \in Containers : n = shells[s].machine /\ (DockerStop(n) \/ DockerRemove(n))
        /\ \A n \in Names : default_shells[n] # 0 /\ default_shells'[n] \notin {0, default_shells[n]} =>
             DefaultSetShell(default_shells'[n])
  BY DEF ShellsKept, ShellGoesBy
<1> QED
  BY <1>2, <1>3, PTL DEF DeadShellsKept

\* Start-up's docker_ps finds what an earlier life of the server made, and no call loses
\* a container: as long as the daemon answers, every container has its entry.
THEOREM ContainersStayKnown ==
  ASSUME "daemon" \notin Faults, Containers \cap Targets = {}
  PROVE  Spec => []ContainersKnown
<1>1. Init => KnownInv BY DEF Init, KnownInv, Registered
<1>2. Inv /\ KnownInv /\ [Next]_vars => KnownInv' BY KnownNext
<1>3. KnownInv => ContainersKnown BY DEF KnownInv, ContainersKnown
<1> QED BY <1>1, <1>2, <1>3, SpecInv, PTL DEF Spec

-----------------------------------------------------------------------------
(* The registries implement ShellDirectory: what each operator of them does there.         *)

Listed == {n \in Names : Registered(n)}

\* The machines that a call leaves, with the default among them.
LEMMA KnownFits ==
  ASSUME DirOK, DirOK', NEW now, Listed' = now,
         default # None /\ default \in now => default' = default
  PROVE  Directory!Known(now)
<1>1. \A n \in Names : n \in now <=> Registered(n)'
  BY DEF Listed
<1>2. now \subseteq Names
  BY DEF Listed
<1>3. default \in now => default' = default
  BY <1>2
<1>4. default' = None => now = {}
  BY <1>1, <1>2 DEF DirOK, DefaultInv, DefaultMachineRegistered, Registered
<1>5. default' # None => default' \in now
  BY <1>1 DEF DirOK, DefaultInv, DefaultMachineRegistered, Registered
<1>6. default' \in IF default \in now THEN {default}
                   ELSE IF Listed = {} /\ now # {} THEN now
                   ELSE now \cup {None}
  BY <1>3, <1>4, <1>5
<1> QED
  BY <1>6 DEF Directory!Known, Listed

LEMMA SessionsFit ==
  ASSUME \A s \in Shells : shells'[s].machine = shells[s].machine, UNCHANGED <<default_shells, opened>>
  PROVE  UNCHANGED Directory!sessions
BY DEF Directory!sessions

\* Death takes no shell from its machine.
LEMMA DyingFits ==
  ASSUME SessOK, NEW b, NEW n, shells' \in {shells, Dying(b, n)}
  PROVE  \A s \in Shells : shells'[s].machine = shells[s].machine
BY DEF SessOK, Dying, Shell, NoShell

LEMMA OpensFits ==
  ASSUME SessOK, NEW n \in Names, NEW b \in {"docker", "ssh"}, open(n, b)
  PROVE  Directory!Opens(n)
<1>1. /\ opened < MaxShells /\ opened' = opened + 1 /\ opened' \in Shells
      /\ shells'[opened'].machine = n
      /\ \A s \in Shells : s # opened' => shells'[s] = shells[s]
  BY OpenKeeps DEF open
<1>2. [s \in Shells |-> shells'[s].machine]
        = [[s \in Shells |-> shells[s].machine] EXCEPT ![opened + 1] = n]
  BY <1>1
<1> QED
  BY <1>1, <1>2 DEF Directory!Opens

LEMMA PrimaryFits ==
  ASSUME SessOK, NEW n \in Names, NEW b \in {"docker", "ssh"}, create_default(n, b)
  PROVE  Directory!OpensPrimary(n)
<1>1. default_shells[n] = 0
  BY RealEntries DEF create_default, HasDefault, SessOK, DefaultShellsOwn, Shells
<1> QED
  BY <1>1, OpensFits DEF create_default, Directory!OpensPrimary

LEMMA EvictedFits ==
  ASSUME SessOK, NEW n \in Names, close_all_for_machine(n)
  PROVE  Directory!Evicted(n)
<1>1. [s \in Shells |-> shells'[s].machine]
        = [s \in 1..MaxShells |-> IF [r \in Shells |-> shells[r].machine][s] = n THEN None
                                  ELSE [r \in Shells |-> shells[r].machine][s]]
  BY DEF close_all_for_machine, NoShell, Shells
<1>2. default_shells' = [default_shells EXCEPT ![n] = 0]
  <2>1. default_shells[n] # 0 =>
          default_shells[n] \in Shells /\ shells[default_shells[n]].machine = n
    BY DEF SessOK, DefaultShellsOwn, Shells
  <2>2. (IF \E s \in Shells : shells[s].machine = n /\ default_shells[n] = s THEN 0
         ELSE default_shells[n]) = 0
    BY <2>1
  <2> QED
    BY <2>2 DEF close_all_for_machine
<1> QED
  BY <1>1, <1>2 DEF Directory!Evicted, close_all_for_machine

LEMMA DropFits ==
  ASSUME SessOK, NEW s \in Shells, shells[s] # NoShell, close(s), UNCHANGED directory
  PROVE  Directory!Drop(s)
<1>1. shells[s].machine \in Names /\ s # 0
  BY RealEntries DEF SessOK, Shells
<1>2. [r \in Shells |-> shells'[r].machine] = [[r \in Shells |-> shells[r].machine] EXCEPT ![s] = None]
  BY DEF close, SessOK, NoShell
<1>3. default_shells' = [n \in Names |-> IF default_shells[n] = s THEN 0 ELSE default_shells[n]]
  <2>1. \A n \in Names : default_shells[n] = s => n = shells[s].machine
    BY <1>1 DEF SessOK, DefaultShellsOwn
  <2> QED
    BY <2>1 DEF close
<1>4. UNCHANGED Listed
  BY DEF directory, Listed, Registered
<1>5. [r \in Shells |-> shells[r].machine][s] # None
  BY <1>1
<1> QED
  BY <1>2, <1>3, <1>4, <1>5 DEF Directory!Drop, close, directory, Listed

\* Machines that are registered again or first.
LEMMA EnrolFits ==
  ASSUME DirOK, DirOK', NEW new, new \subseteq Names,
         \A n \in Names : Registered(n)' <=> n \in new \/ Registered(n),
         default # None => default' = default
  PROVE  Directory!Known({n \in Names : Registered(n)} \cup new)
<1>1. Listed' = Listed \cup new
  BY DEF Listed
<1> QED
  BY <1>1, KnownFits DEF Listed

LEMMA RegisterFits ==
  ASSUME DirOK, NEW n \in Names, NEW b \in {"docker", "ssh"},
         NEW st \in {"running", "error"}, register(n, b, st)
  PROVE  Directory!Known({m \in Names : Registered(m)} \cup {n})
<1>1. DirOK'
  BY RegisterKeeps
<1>2. [backend |-> b, status |-> st] # NoMachine
  BY RealEntries DEF Machine
<1>3. \A m \in Names : Registered(m)' <=> m \in {n} \/ Registered(m)
  BY <1>2 DEF DirOK, register, Record, Registered
<1> QED
  BY <1>1, <1>3, EnrolFits DEF register

LEMMA AdoptFits ==
  ASSUME DirOK, WorldOK, AdoptAll(Managed)
  PROVE  \E new \in SUBSET Names : Directory!Known({m \in Names : Registered(m)} \cup new)
<1>1. DirOK'
  BY AdoptKeeps, ManagedContainers
<1> DEFINE new == {n \in Managed : ~Registered(n)}
<1>2. new \subseteq Names
  <2>1. \A n \in Managed : n \in Names
    BY DEF Managed
  <2> QED
    BY <2>1
<1>3. /\ \A n \in Names : machines'[n] = IF n \in new
             THEN [backend |-> "docker", status |-> containers[n].state] ELSE machines[n]
      /\ default # None => default' = default
  BY DEF AdoptAll
<1>4. \A n \in new : [backend |-> "docker", status |-> containers[n].state] # NoMachine
  BY DEF NoMachine
<1>5. \A n \in Names : Registered(n)' <=> n \in new \/ Registered(n)
  BY <1>3, <1>4 DEF Registered
<1> HIDE DEF new
<1> QED
  BY <1>1, <1>2, <1>3, <1>5, EnrolFits

LEMMA UnregisterFits ==
  ASSUME DirOK, NEW n \in Names, Registered(n), unregister(n)
  PROVE  Directory!Known({m \in Names : Registered(m)} \ {n})
<1>1. DirOK'
  BY UnregisterKeeps
<1>2. Listed' = Listed \ {n}
  BY DEF Listed, unregister, Registered, DirOK
<1>3. default # n => default' = default
  BY DEF unregister
<1> QED
  BY <1>1, <1>2, <1>3, KnownFits DEF Listed

\* A call that maps to a step of one machine, or of one shell.
LEMMA MachineCallFits == ASSUME Inv, MachineCall PROVE [Directory!Next]_(Directory!vars)
<1> USE DEF Inv
<1>1. ASSUME NEW new \in SUBSET Names, Directory!Known({m \in Names : Registered(m)} \cup new),
             UNCHANGED Directory!sessions
      PROVE  Directory!Next
  BY <1>1 DEF Directory!Next, Directory!Enrol
<1>2. ASSUME UNCHANGED directory, UNCHANGED Directory!sessions PROVE UNCHANGED Directory!vars
  BY <1>2 DEF directory, Directory!vars, Registered
<1>3. CASE DockerPs
  BY <1>1, <1>3, AdoptFits, SessionsFit DEF DockerPs, sessions
<1>4. ASSUME NEW n \in Containers, DockerRun(n) PROVE Directory!Next
  <2>1. PICK st \in {"running", "error"} : docker_create(n, st) /\ register(n, "docker", st)
    BY <1>4 DEF DockerRun
  <2>2. UNCHANGED Directory!sessions
    BY <2>1, DyingFits, SessionsFit DEF docker_create
  <2>3. Directory!Known({m \in Names : Registered(m)} \cup {n})
    BY <2>1, RegisterFits
  <2> QED
    BY <1>1, <2>2, <2>3
<1>5. ASSUME NEW n \in Containers, IsDocker(n), close_all_for_machine(n), UNCHANGED directory
      PROVE  Directory!Next
  <2>1. Registered(n)
    BY <1>5 DEF IsDocker, Registered, NoMachine
  <2>2. Directory!Evict(n)
    BY <1>5, <2>1, EvictedFits DEF Directory!Evict, directory, Registered
  <2> QED
    BY <2>2 DEF Directory!Next
<1>6. ASSUME NEW n \in Names, Registered(n), close_all_for_machine(n), unregister(n)
      PROVE  Directory!Next
  <2>1. Directory!Dismiss(n)
    BY <1>6, EvictedFits, UnregisterFits DEF Directory!Dismiss
  <2> QED
    BY <2>1 DEF Directory!Next
<1>7. ASSUME NEW n \in Containers, DockerStop(n) PROVE Directory!Next
  BY <1>5, <1>7 DEF DockerStop
<1>8. ASSUME NEW n \in Containers, DockerStart(n) PROVE UNCHANGED Directory!vars
  BY <1>2, <1>8, SessionsFit DEF DockerStart, sessions
<1>9. ASSUME NEW n \in Containers, DockerRestart(n) PROVE UNCHANGED Directory!vars
  BY <1>2, <1>9, DyingFits, SessionsFit DEF DockerRestart
<1>10. ASSUME NEW n \in Containers, DockerRemove(n) PROVE Directory!Next
  <2>1. Registered(n) /\ IsDocker(n) /\ close_all_for_machine(n)
    BY <1>10 DEF DockerRemove, IsDocker, Registered, NoMachine
  <2> QED
    BY <1>5, <1>6, <1>10, <2>1 DEF DockerRemove
<1>11. ASSUME NEW n \in Targets, Connect(n) PROVE Directory!Next
  <2>1. PICK st \in {"running", "error"} :
          /\ register(n, "ssh", st)
          /\ create_default(n, "ssh") \/ UNCHANGED sessions
    BY <1>11 DEF Connect
  <2>2. Directory!Known({m \in Names : Registered(m)} \cup {n})
    BY <2>1, RegisterFits
  <2>3. CASE create_default(n, "ssh")
    BY <2>2, <2>3, PrimaryFits DEF Directory!Next, Directory!Connect
  <2>4. CASE UNCHANGED sessions
    BY <1>1, <2>2, <2>4, SessionsFit DEF sessions
  <2> QED
    BY <2>1, <2>3, <2>4
<1>12. ASSUME NEW n \in Names, Close(n) PROVE Directory!Next
  BY <1>6, <1>12 DEF Close
<1>13. ASSUME NEW n \in Names, DefaultSetMachine(n) PROVE Directory!Next
  <2>1. UNCHANGED Directory!sessions
    BY <1>13, SessionsFit DEF DefaultSetMachine, sessions
  <2>2. {m \in Names : Registered(m)} = {m \in Names : Registered(m)} \cup {n}
    BY <1>13 DEF DefaultSetMachine
  <2>3. Directory!Appoint(n)
    BY <1>13, <2>1, <2>2 DEF DefaultSetMachine, Directory!Appoint, Registered
  <2> QED
    BY <2>3 DEF Directory!Next
<1> QED
  BY <1>3, <1>4, <1>7, <1>8, <1>9, <1>10, <1>11, <1>12, <1>13 DEF MachineCall

LEMMA ShellCallFits == ASSUME Inv, ShellCall PROVE Directory!Next
<1> USE DEF Inv
<1>1. ASSUME NEW n \in Names, ShellNew(n) \/ ShellExec(n) PROVE Directory!Next
  <2>1. machines[n].backend \in {"docker", "ssh"} /\ Registered(n)
    <3>1. Registered(n) /\ machines[n] \in Machine
      BY <1>1 DEF ShellNew, ShellExec, DirOK, Registered
    <3> QED
      BY <3>1 DEF Machine
  <2>2. UNCHANGED directory
    BY <1>1 DEF ShellNew, ShellExec
  <2>3. CASE ShellNew(n)
    <3>1. Directory!Open(n)
      BY <2>1, <2>2, <2>3, OpensFits DEF ShellNew, Directory!Open, directory, Registered
    <3> QED
      BY <3>1 DEF Directory!Next
  <2>4. CASE ShellExec(n)
    <3>1. Directory!OpenPrimary(n)
      BY <2>1, <2>2, <2>4, PrimaryFits DEF ShellExec, Directory!OpenPrimary, directory, Registered
    <3> QED
      BY <3>1 DEF Directory!Next
  <2> QED
    BY <1>1, <2>3, <2>4
<1>2. ASSUME NEW s \in Shells, ShellRemove(s) PROVE Directory!Next
  BY <1>2, DropFits DEF ShellRemove, Directory!Next, Shells
<1>3. ASSUME NEW s \in Shells, DefaultSetShell(s) PROVE Directory!Next
  <2>1. shells[s].machine \in Names
    BY <1>3, RealEntries DEF DefaultSetShell, SessOK
  <2>2. Directory!Prefer(s)
    BY <1>3, <2>1 DEF DefaultSetShell, Directory!Prefer, directory, Registered
  <2> QED
    BY <2>2 DEF Directory!Next, Shells
<1> QED
  BY <1>1, <1>2, <1>3 DEF ShellCall

LEMMA EnvStepFits == ASSUME Inv, EnvStep PROVE UNCHANGED Directory!vars
<1> USE DEF Inv
<1>1. UNCHANGED directory /\ UNCHANGED <<default_shells, opened>>
  BY DEF EnvStep, ContainerExits, ContainerVanishes, MasterDrops, ShellEnds
<1>2. \A s \in Shells : shells'[s].machine = shells[s].machine
  <2>1. CASE \E s \in Shells : ShellEnds(s)
    BY <2>1 DEF ShellEnds, SessOK, Shell, NoShell
  <2> QED
    BY <2>1, DyingFits DEF EnvStep, ContainerExits, ContainerVanishes, MasterDrops
<1> QED
  BY <1>1, <1>2, SessionsFit DEF directory, Directory!vars, Registered

LEMMA ForgetFits == ASSUME Forget PROVE Directory!Next
<1>1. {n \in Names : Registered(n)}' = {}
  BY DEF Forget, Registered
<1>2. [s \in Shells |-> shells[s].machine]' = [s \in 1..MaxShells |-> None]
  BY DEF Forget, NoShell, Shells
<1> QED
  BY <1>1, <1>2 DEF Forget, Directory!Next, Directory!Forget

\* There are no shells before the server is up.
NoneBefore == server # "up" => opened = 0

LEMMA NoneBeforeNext == ASSUME NoneBefore, [Next]_vars PROVE NoneBefore'
BY DEF NoneBefore, Next, Boot, Provision, Crash, Forget, MachineCall, ShellCall, EnvStep, DockerPs,
   DockerRun, DockerStop, DockerStart, DockerRestart, DockerRemove, Connect, Close,
   DefaultSetMachine, ShellNew, ShellExec, ShellRemove, DefaultSetShell, ContainerExits,
   ContainerVanishes, MasterDrops, ShellEnds, sessions, vars, docker_create, ssh_create

LEMMA ProvisionFits == ASSUME Inv, NoneBefore, Provision PROVE [Directory!Next]_(Directory!vars)
<1> USE DEF Inv
<1>1. opened = 0
  BY DEF Provision, NoneBefore
<1>2. CASE UNCHANGED <<directory, sessions>>
  BY <1>2, SessionsFit DEF directory, sessions, Directory!vars, Registered
<1>3. ASSUME DefaultName # None, default' = DefaultName, UNCHANGED Directory!sessions,
             \A n \in Names : Registered(n)' <=> n = DefaultName \/ Registered(n)
      PROVE  Directory!Next
  <2>1. DefaultName \in Names
    BY <1>3
  <2>2. {n \in Names : Registered(n)}' = {n \in Names : Registered(n)} \cup {DefaultName}
    BY <1>3, <2>1
  <2>3. Directory!Appoint(DefaultName)
    BY <1>1, <1>3, <2>2 DEF Directory!Appoint
  <2> QED
    BY <2>1, <2>3 DEF Directory!Next
<1>4. CASE DefaultName # None /\ Registered(DefaultName) /\ default' = DefaultName
           /\ UNCHANGED <<machines, sessions>>
  BY <1>3, <1>4, SessionsFit DEF sessions, Registered
<1>5. CASE /\ DefaultName # None
           /\ \/ DefaultBackend = "docker" /\ DefaultName \in Containers
                /\ docker_create(DefaultName, "running")
              \/ DefaultBackend = "ssh" /\ UNCHANGED sessions
           /\ Record(DefaultName, DefaultBackend, "running")
           /\ default' = DefaultName
  <2>1. UNCHANGED Directory!sessions
    BY <1>5, DyingFits, SessionsFit DEF docker_create, sessions
  <2>2. [backend |-> DefaultBackend, status |-> "running"] # NoMachine
    BY DEF NoMachine
  <2>3. \A n \in Names : Registered(n)' <=> n = DefaultName \/ Registered(n)
    BY <1>5, <2>2 DEF DirOK, Record, Registered
  <2> QED
    BY <1>3, <1>5, <2>1, <2>3
<1>6. CASE Forget
  BY <1>6, ForgetFits
<1> QED
  BY <1>2, <1>4, <1>5, <1>6 DEF Provision

LEMMA DirectoryInit == Init => Directory!Init
<1> SUFFICES ASSUME Init PROVE Directory!Init
  OBVIOUS
<1>1. {n \in Names : Registered(n)} = {}
  BY DEF Init, Registered
<1>2. [s \in Shells |-> shells[s].machine] = [s \in 1..MaxShells |-> None]
  BY DEF Init, NoShell, Shells
<1> QED
  BY <1>1, <1>2 DEF Init, Directory!Init

\* The registries of the server are the directory that ShellDirectory promises, through
\* every call, failure, death of a container and restart.
THEOREM ServerImplementsDirectory == Spec => ImplementsDirectory
<1>1. Init => NoneBefore /\ Directory!Init
  BY DirectoryInit DEF Init, NoneBefore
<1>2. NoneBefore /\ [Next]_vars => NoneBefore'
  BY NoneBeforeNext
<1>3. Inv /\ NoneBefore /\ [Next]_vars => [Directory!Next]_(Directory!vars)
  <2> SUFFICES ASSUME Inv, NoneBefore, [Next]_vars PROVE [Directory!Next]_(Directory!vars)
    OBVIOUS
  <2>1. CASE Boot
    <3>1. UNCHANGED Directory!sessions
      BY <2>1, SessionsFit DEF Boot, sessions
    <3>2. CASE AdoptAll(Managed)
      BY <3>1, <3>2, AdoptFits DEF Inv, Directory!Next, Directory!Enrol
    <3>3. CASE UNCHANGED directory
      BY <3>1, <3>3 DEF directory, Directory!vars, Registered
    <3> QED
      BY <2>1, <3>2, <3>3 DEF Boot
  <2>2. CASE Provision
    BY <2>2, ProvisionFits
  <2>3. CASE Crash
    BY <2>3, ForgetFits DEF Crash
  <2>4. CASE MachineCall
    BY <2>4, MachineCallFits
  <2>5. CASE ShellCall
    BY <2>5, ShellCallFits
  <2>6. CASE EnvStep
    BY <2>6, EnvStepFits
  <2>7. CASE UNCHANGED vars
    BY <2>7, SessionsFit DEF vars, directory, sessions, Directory!vars, Registered
  <2> QED
    BY <2>1, <2>2, <2>3, <2>4, <2>5, <2>6, <2>7 DEF Next
<1> QED
  BY <1>1, <1>2, <1>3, SpecInv, PTL DEF Spec, ImplementsDirectory, Directory!Spec
=============================================================================
