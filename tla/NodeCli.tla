------------------------------ MODULE NodeCli ------------------------------
(***************************************************************************)
(* The node commands together with the search for their device: OpCert     *)
(* takes "connect to a free device, or give up" as one step, here it is    *)
(* what ProviderSelect makes of it.  Attempts, timer and command share the *)
(* event loop of their process: while a command already writes its files,  *)
(* the attempt that lost may open the other device, or fail, and the timer *)
(* fires.  There is one Ledger and one Trezor; a device that a process     *)
(* opened and does not use is closed to the others all the same.           *)
(***************************************************************************)
EXTENDS Sequences

CONSTANTS
  Runs,        \* invocations of the CLI
  Nobody,      \* no run, no device
  Files,       \* see OpCert
  Paths, ColdPaths, Seeds, Seed, KeyGenJobs, IssueJobs, MayDie

VARIABLES
  fs, pc, job, idx, open, keys, buf, log,   \* see OpCert
  sel, attempt, timer,                      \* see ProviderSelect; sel is its pc
  provider                                  \* the device of each run, in both

vars == <<fs, pc, job, idx, open, keys, buf, log, sel, attempt, timer, provider>>

Select == INSTANCE ProviderSelect WITH Procs <- Runs, pc <- sel

Node == INSTANCE OpCert
          WITH Devices <- {"ledger", "trezor"}, Ledgers <- {"ledger"},
               NoDevice <- Nobody, dev <- provider

ASSUME NodeCliConstants ==
  /\ Nobody \notin Runs \cup {"ledger", "trezor"}
  /\ ColdPaths \subseteq Paths
  /\ Seed \in [{"ledger", "trezor"} -> Seeds]
  /\ KeyGenJobs \subseteq Node!KeyGenCommandLines
  /\ IssueJobs \subseteq
       [cmd: {"issue"}, hws: SUBSET Files, counter: Files, out: Files]
  /\ MayDie \in BOOLEAN

Init == Node!Init /\ Select!Init

\* The command line is parsed before any device is sought.
Start(r) ==
  /\ Node!StartKeyGen(r) \/ Node!StartIssue(r)
  /\ IF pc'[r] = "wait" THEN Select!Begin(r) ELSE UNCHANGED <<sel, attempt, timer>>

FirstPoint(r) == IF job[r].cmd = "keygen" THEN "loop" ELSE "read"

\* Mutant: every answer starts the command.
AnswerRestarts(r, v) ==
  /\ Select!Answer(r, v)
  /\ pc' = [pc EXCEPT ![r] = FirstPoint(r)]
  /\ UNCHANGED <<fs, job, idx, open, keys, buf, log>>

\* The first answer starts the command; a later one does not concern it.
Answer(r, v) ==
  /\ Select!Answer(r, v)
  /\ pc' = [pc EXCEPT ![r] = IF sel[r] = "selecting" THEN FirstPoint(r) ELSE @]
  /\ UNCHANGED <<fs, job, idx, open, keys, buf, log>>

\* An attempt that fails, or the timer, ends the command only if it ends the search.
EndsSearch(r) ==
  /\ IF sel'[r] = "failed" THEN Node!Exit(r, "failed") ELSE UNCHANGED <<pc, open>>
  /\ UNCHANGED <<fs, job, idx, keys, buf, log>>

Fail(r, v) == Select!Fail(r, v) /\ EndsSearch(r)

\* Mutant: the late timer ends the command.
TimeoutLate(r) ==
  /\ Select!Timeout(r)
  /\ pc' = [pc EXCEPT ![r] = "failed"]
  /\ UNCHANGED <<fs, job, idx, open, keys, buf, log>>

Timeout(r) == Select!Timeout(r) /\ EndsSearch(r)

\* A step of the command; the one that ends it exits the process.
Step(r) ==
  /\ Node!Truncate(r) \/ Node!KeyGenStep(r) \/ Node!IssueStep(r)
  /\ IF pc'[r] \in {"done", "failed"} THEN Select!Finish(r)
     ELSE UNCHANGED <<sel, attempt, timer>>

Die(r) ==
  /\ MayDie
  /\ Select!Die(r)
  /\ Node!Exit(r, "failed")
  /\ UNCHANGED <<fs, job, idx, keys, buf, log>>

Next ==
  \E r \in Runs :
    \/ Start(r) \/ Timeout(r) \/ Step(r) \/ Die(r)
    \/ \E v \in Select!Providers : Answer(r, v) \/ Fail(r, v)

Spec == Init /\ [][Next]_vars

\* The timer fires and a command with a device goes on.  Nothing is said of the devices:
\* neither attempt need ever end.
FairSpec == Spec /\ \A r \in Runs : WF_vars(Timeout(r)) /\ WF_vars(Step(r))

-----------------------------------------------------------------------------

\* The search and the command of a run are at the same point of its life.
Coupled ==
  \A r \in Runs :
    /\ pc[r] = "idle" => sel[r] = "idle"
    /\ pc[r] = "wait" <=> sel[r] = "selecting"
    /\ pc[r] \in Node!Holding <=> sel[r] = "working"

\* Both components are well typed, and agree on where each run is.
TypeOK == Node!TypeOK /\ Select!TypeOK /\ Coupled

\* What getCryptoProvider and the event loop do is, for the node commands, the one step
\* OpCert takes it for: a free device or none, once, kept to the end, whatever
\* the other attempt and the timer do meanwhile.
ImplementsNode == Node!Spec

\* Every command gets on as OpCert assumes: one that waits for a device works with one or
\* gives up, although no attempt need ever end and late answers keep devices busy.
ImplementsFairness == Node!Fairness
=============================================================================
