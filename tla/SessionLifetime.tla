-------------------------- MODULE SessionLifetime --------------------------
(***************************************************************************)
(* What the lifetime protocol of a session promises, without sockets,      *)
(* goroutines or timers. A lease is one registration of one command. The   *)
(* session counts the leases it has admitted; a command holds its lease    *)
(* from the moment it is told so until it is over.                         *)
(***************************************************************************)
CONSTANT Lease

VARIABLES phase,    \* opening, serving, closing or closed
          forced,   \* the shutdown was committed for another reason than idleness
          members,  \* leases counted by the session
          holders   \* leases held by commands

lifetimeVars == <<phase, forced, members, holders>>

TypeOK ==
  /\ phase \in {"opening", "serving", "closing", "closed"}
  /\ forced \in BOOLEAN
  /\ members \in SUBSET Lease
  /\ holders \in SUBSET Lease

Init == phase = "opening" /\ forced = FALSE /\ members = {} /\ holders = {}

Open == phase = "opening" /\ phase' = "serving" /\ UNCHANGED <<forced, members, holders>>

FailToOpen ==
  phase = "opening" /\ phase' = "closed" /\ UNCHANGED <<forced, members, holders>>

Admit(l) ==
  /\ phase = "serving"
  /\ members' = members \union {l}
  /\ UNCHANGED <<phase, forced, holders>>

\* A forced shutdown may overtake the message that grants a lease, an idle
\* one may not.
Grant(l) ==
  /\ l \in members \/ forced
  /\ holders' = holders \union {l}
  /\ UNCHANGED <<phase, forced, members>>

Leave(l) ==
  /\ holders' = holders \ {l}
  /\ UNCHANGED <<phase, forced, members>>

\* A serving session forgets only leases nobody holds.
Forget(l) ==
  /\ l \notin holders \/ forced
  /\ members' = members \ {l}
  /\ UNCHANGED <<phase, forced, holders>>

IdleStop ==
  /\ phase = "serving" /\ members = {}
  /\ phase' = "closing"
  /\ UNCHANGED <<forced, members, holders>>

ForceStop ==
  /\ phase = "serving"
  /\ phase' = "closing" /\ forced' = TRUE
  /\ UNCHANGED <<members, holders>>

Close ==
  /\ phase = "closing" /\ members = {}
  /\ phase' = "closed"
  /\ UNCHANGED <<forced, members, holders>>

Next ==
  \/ Open \/ FailToOpen \/ IdleStop \/ ForceStop \/ Close
  \/ \E l \in Lease : Admit(l) \/ Grant(l) \/ Leave(l) \/ Forget(l)

Spec == Init /\ [][Next]_lifetimeVars

\* Unless a shutdown is forced, every command that holds its lease is counted,
\* hence none is left when an idle session closes.
HoldersAreMembers == forced \/ holders \subseteq members
=============================================================================
