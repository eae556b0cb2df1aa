--------------------------- MODULE ProviderSelect ---------------------------
(***************************************************************************)
(* How a command comes by its device (getCryptoProvider, promiseTimeout):  *)
(* it tries a Ledger and a Trezor at once, takes the first that answers,   *)
(* and gives up when both fail or after five seconds.  Nothing is ever     *)
(* cancelled: the attempt that lost goes on and may still open a device,   *)
(* the timer still fires, and what is open stays open until the process    *)
(* exits.                                                                  *)
(*                                                                         *)
(* Each action is one callback of the event loop with the promise jobs it  *)
(* sets off, which run before the next callback does.  There is one device *)
(* of each kind; processes that want it exclude one another (external).    *)
(***************************************************************************)
CONSTANTS
  Procs,    \* commands that need a device
  Nobody    \* no process, no provider

Providers == {"ledger", "trezor"}

ASSUME NobodyIsNone == Nobody \notin Procs \cup Providers

VARIABLES
  pc,        \* where each command is
  attempt,   \* what became of each attempt of a process
  timer,     \* its timer
  provider   \* the provider the command works with

vars == <<pc, attempt, timer, provider>>

Alive == {"selecting", "working"}

Init ==
  /\ pc = [p \in Procs |-> "idle"]
  /\ attempt = [p \in Procs |-> [v \in Providers |-> "none"]]
  /\ timer = [p \in Procs |-> "off"]
  /\ provider = [p \in Procs |-> Nobody]

\* Mutant: the timer is started when an attempt has failed, not before.
BeginUntimed(p) ==
  /\ pc[p] = "idle"
  /\ pc' = [pc EXCEPT ![p] = "selecting"]
  /\ attempt' = [attempt EXCEPT ![p] = [v \in Providers |-> "pending"]]
  /\ UNCHANGED <<timer, provider>>

\* The attempts start before the timer does; neither blocks.
Begin(p) ==
  /\ pc[p] = "idle"
  /\ pc' = [pc EXCEPT ![p] = "selecting"]
  /\ attempt' = [attempt EXCEPT ![p] = [v \in Providers |-> "pending"]]
  /\ timer' = [timer EXCEPT ![p] = "on"]
  /\ UNCHANGED provider

\* process.exit: every transport is closed, pending callbacks are dropped.
Exit(p, how) ==
  /\ pc' = [pc EXCEPT ![p] = how]
  /\ attempt' = [attempt EXCEPT ![p] = [v \in Providers |-> "closed"]]
  /\ timer' = [timer EXCEPT ![p] = "off"]
  /\ provider' = [provider EXCEPT ![p] = Nobody]

OpenElsewhere(p, v) == \E q \in Procs \ {p} : attempt[q][v] = "open"

Opens(p, v) ==
  /\ attempt[p][v] = "pending"
  /\ ~OpenElsewhere(p, v)
  /\ attempt' = [attempt EXCEPT ![p][v] = "open"]
  /\ UNCHANGED timer

\* Mutant: the answer that comes last is taken.
LastAnswer(p, v) ==
  /\ Opens(p, v)
  /\ pc' = [pc EXCEPT ![p] = "working"]
  /\ provider' = [provider EXCEPT ![p] = v]

\* The first answer settles Promise.any and the race; a later one only keeps its device.
Answer(p, v) ==
  /\ Opens(p, v)
  /\ IF pc[p] = "selecting"
       THEN /\ pc' = [pc EXCEPT ![p] = "working"]
            /\ provider' = [provider EXCEPT ![p] = v]
       ELSE UNCHANGED <<pc, provider>>

\* Promise.any rejects when the last attempt does.
Fail(p, v) ==
  /\ attempt[p][v] = "pending"
  /\ IF \A w \in Providers \ {v} : attempt[p][w] = "failed"
       THEN Exit(p, "failed")
       ELSE /\ attempt' = [attempt EXCEPT ![p][v] = "failed"]
            /\ UNCHANGED <<pc, timer, provider>>

\* Mutant: the timer ends the command whenever it fires.
TimeoutAnyway(p) ==
  /\ timer[p] = "on"
  /\ Exit(p, "failed")

\* Mutant: the timer waits for an attempt to fail first.
TimeoutPatient(p) ==
  /\ timer[p] = "on"
  /\ \E v \in Providers : attempt[p][v] # "pending"
  /\ IF pc[p] = "selecting"
       THEN Exit(p, "failed")
       ELSE /\ timer' = [timer EXCEPT ![p] = "off"]
            /\ UNCHANGED <<pc, attempt, provider>>

\* The timer rejects the race, unless the race is decided.
Timeout(p) ==
  /\ timer[p] = "on"
  /\ IF pc[p] = "selecting"
       THEN Exit(p, "failed")
       ELSE /\ timer' = [timer EXCEPT ![p] = "off"]
            /\ UNCHANGED <<pc, attempt, provider>>

\* The command runs to its end, or throws.
Finish(p) ==
  /\ pc[p] = "working"
  /\ Exit(p, "done")

Die(p) ==
  /\ pc[p] \in Alive
  /\ Exit(p, IF pc[p] = "working" THEN "dead" ELSE "failed")

Next ==
  \E p \in Procs :
    \/ Begin(p) \/ Timeout(p) \/ Finish(p) \/ Die(p)
    \/ \E v \in Providers : Answer(p, v) \/ Fail(p, v)

Spec == Init /\ [][Next]_vars

\* Timers fire; devices need neither answer nor fail, and users may take forever.
FairSpec == Spec /\ \A p \in Procs : WF_vars(Timeout(p))

-----------------------------------------------------------------------------

TypeOK ==
  /\ pc \in [Procs -> {"idle", "done", "failed", "dead"} \cup Alive]
  /\ attempt \in
       [Procs -> [Providers -> {"none", "pending", "open", "failed", "closed"}]]
  /\ timer \in [Procs -> {"off", "on"}]
  /\ provider \in [Procs -> Providers \cup {Nobody}]
  /\ \A p \in Procs :
       /\ pc[p] = "selecting" => timer[p] = "on" /\ provider[p] = Nobody
       /\ pc[p] = "working" <=> provider[p] # Nobody
       /\ provider[p] # Nobody => attempt[p][provider[p]] = "open"

\* A command that gives up on finding a device holds none at that moment: an answer is
\* never lost to the timer or to the failure of the other attempt.
GivesUpEmptyHanded ==
  [][\A p \in Procs :
       pc[p] \in Alive /\ pc'[p] = "failed" =>
         \A v \in Providers : attempt[p][v] # "open"]_vars

\* Seen from the commands: one device each, once, exclusively, until the end; late
\* answers and the late timer change nothing.
Users(v) == {p \in Procs : provider[p] = v}
User == [v \in Providers |-> IF Users(v) # {} THEN CHOOSE p \in Users(v) : TRUE ELSE Nobody]
Served == {p \in Procs : pc[p] \in {"working", "done", "dead"}}
Session == INSTANCE DeviceSession
             WITH Devices <- Providers, user <- User, served <- Served
ImplementsSession == Session!Spec

\* A command that looks for a device finds one or gives up, even if the devices never
\* say a word.
SelectionEnds ==
  \A p \in Procs : pc[p] = "selecting" ~> pc[p] # "selecting"
=============================================================================
