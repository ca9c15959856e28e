---------------------------- MODULE ShellDirectory ----------------------------
(***************************************************************************)
(* What the server promises to the agent about machines and shells, without*)
(* containers, connections or failures.  A shell belongs to one machine    *)
(* from its opening to its end, its id is never given again, and it goes   *)
(* by itself, with all the others of its machine, or with everything.  The *)
(* first machine is the default, and remains it until it goes or the agent *)
(* says otherwise; who is the default after it has gone is left open.  The *)
(* default shell of a machine is one of its own, until it goes itself.     *)
(***************************************************************************)
EXTENDS Naturals

CONSTANTS Names, None, MaxShells

VARIABLES
  machines,  \* the machines that the agent may name
  default,   \* the one it means when it names none
  home,      \* the machine of a shell, None for what is no shell
  primary,   \* the shell it means when it names only the machine, or 0
  issued     \* shells opened so far

sessions == <<home, primary, issued>>
vars == <<machines, default, sessions>>

Init ==
  /\ machines = {} /\ default = None
  /\ home = [s \in 1..MaxShells |-> None] /\ primary = [n \in Names |-> 0] /\ issued = 0

\* These are the machines from now on.
Known(now) ==
  /\ machines' = now
  /\ default' \in IF default \in now THEN {default}
                 ELSE IF machines = {} /\ now # {} THEN now
                 ELSE now \cup {None}

Opens(n) == issued < MaxShells /\ issued' = issued + 1 /\ home' = [home EXCEPT ![issued + 1] = n]

OpensPrimary(n) ==
  /\ primary[n] = 0 /\ Opens(n)
  /\ primary' = [primary EXCEPT ![n] = issued + 1]

Evicted(n) ==
  /\ home' = [s \in 1..MaxShells |-> IF home[s] = n THEN None ELSE home[s]]
  /\ primary' = [primary EXCEPT ![n] = 0] /\ UNCHANGED issued

Enrol == (\E new \in SUBSET Names : Known(machines \cup new)) /\ UNCHANGED sessions

\* With a first shell, unless there is a default one.
Connect(n) == Known(machines \cup {n}) /\ OpensPrimary(n)

\* The agent's choice, or that of the operator before there are shells.
Appoint(n) ==
  /\ n \in machines \/ issued = 0
  /\ machines' = machines \cup {n} /\ default' = n /\ UNCHANGED sessions

Dismiss(n) == n \in machines /\ Known(machines \ {n}) /\ Evicted(n)

Evict(n) == n \in machines /\ Evicted(n) /\ UNCHANGED <<machines, default>>

Open(n) == n \in machines /\ Opens(n) /\ UNCHANGED <<machines, default, primary>>

OpenPrimary(n) == n \in machines /\ OpensPrimary(n) /\ UNCHANGED <<machines, default>>

Drop(s) ==
  /\ home[s] # None /\ home' = [home EXCEPT ![s] = None]
  /\ primary' = [n \in Names |-> IF primary[n] = s THEN 0 ELSE primary[n]]
  /\ UNCHANGED <<machines, default, issued>>

Prefer(s) ==
  /\ home[s] # None /\ primary' = [primary EXCEPT ![home[s]] = s]
  /\ UNCHANGED <<machines, default, home, issued>>

Forget ==
  /\ machines' = {} /\ default' = None
  /\ home' = [s \in 1..MaxShells |-> None] /\ primary' = [n \in Names |-> 0] /\ issued' = 0

Next ==
  \/ Enrol \/ Forget
  \/ \E n \in Names : Connect(n) \/ Appoint(n) \/ Dismiss(n) \/ Evict(n) \/ Open(n) \/ OpenPrimary(n)
  \/ \E s \in 1..MaxShells : Drop(s) \/ Prefer(s)

Spec == Init /\ [][Next]_vars
===============================================================================
