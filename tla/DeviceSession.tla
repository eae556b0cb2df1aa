---------------------------- MODULE DeviceSession ----------------------------
(***************************************************************************)
(* What a command may take for granted about the device it talks to: it    *)
(* is given one device once, nobody else talks to that device meanwhile,   *)
(* and it keeps it until it ends.                                          *)
(***************************************************************************)
CONSTANTS Procs, Devices, Nobody

VARIABLES
  user,    \* the process that talks to each device
  served   \* the processes that have been given one

vars == <<user, served>>

Init == user = [d \in Devices |-> Nobody] /\ served = {}

Acquire(p, d) ==
  /\ p \notin served
  /\ user[d] = Nobody
  /\ user' = [user EXCEPT ![d] = p]
  /\ served' = served \cup {p}

Release(d) ==
  /\ user[d] # Nobody
  /\ user' = [user EXCEPT ![d] = Nobody]
  /\ UNCHANGED served

Next == \E d \in Devices : Release(d) \/ \E p \in Procs : Acquire(p, d)

Spec == Init /\ [][Next]_vars
=============================================================================
