------------------------------- MODULE OpCert -------------------------------
(***************************************************************************)
(* The two "node" commands of cardano-hw-cli and the files they share:     *)
(*   node key-gen        writes, per path, a signing file, a verification  *)
(*                       key file and an issue counter file at number 0;   *)
(*   node issue-op-cert  reads an issue counter, lets the device sign an   *)
(*                       operational certificate with that number, writes  *)
(*                       the certificate, then writes the counter back     *)
(*                       incremented.                                      *)
(* A run is one invocation of the CLI, i.e. one operating-system process.  *)
(* Nothing locks the files: the only thing runs exclude one another from   *)
(* is the session with a device, which is held until the process exits.    *)
(*                                                                         *)
(* Abstractions.  A public key is the pair <<seed of the device, path>>.   *)
(* KES keys and periods are left out: they pass through unchanged.         *)
(* writeFileSync is two steps, truncate (the file is Torn) and fill, and a *)
(* process may die between any two steps.                                  *)
(***************************************************************************)
EXTENDS Naturals, Sequences

CONSTANTS
  Runs,        \* invocations of the CLI
  Files,       \* file names
  Paths,       \* derivation paths a user may type
  ColdPaths,   \* those classified as PATH_POOL_COLD_KEY
  Devices,     \* device sessions that can be open at the same time
  NoDevice,    \* the mark of a run that holds none
  Ledgers,     \* the devices that can sign operational certificates
  Seeds,       \* wallet seeds
  Seed,        \* the seed each device holds
  KeyGenJobs,  \* command lines of node key-gen
  IssueJobs,   \* command lines of node issue-op-cert
  MayDie       \* whether processes are killed, I/O fails, the user rejects

Keys == Seeds \X Paths

KeyGenEntry == [path: Paths, hws: Files, vkey: Files, counter: Files]

\* The paths and the three lists of files are arguments of their own: entries pairs them
\* up, and uneven says that they are not of one length.
KeyGenCommandLines ==
  [cmd: {"keygen"}, entries: Seq(KeyGenEntry), uneven: BOOLEAN]

ASSUME OpCertConstants ==
  /\ ColdPaths \subseteq Paths
  /\ Ledgers \subseteq Devices
  /\ NoDevice \notin Devices
  /\ Seed \in [Devices -> Seeds]
  /\ KeyGenJobs \subseteq KeyGenCommandLines
  /\ IssueJobs \subseteq
       [cmd: {"issue"}, hws: SUBSET Files, counter: Files, out: Files]
  /\ MayDie \in BOOLEAN

VARIABLES
  fs,     \* content of each file
  pc,     \* where each run is
  job,    \* its parsed command line
  dev,    \* the device session it holds
  idx,    \* node key-gen: index of the path it is at
  open,   \* whether it has truncated the file it is writing
  keys,   \* issue-op-cert: the keys of the signing files given, parsed at startup
  buf,    \* issue-op-cert: the issue counter in memory
  log     \* history: certificates published per counter file since its reset

vars == <<fs, pc, job, dev, idx, open, keys, buf, log>>

NoJob == [cmd |-> "none"]
NoCounter == [key |-> "none"]

None == [kind |-> "none"]      \* no such file
Torn == [kind |-> "torn"]      \* truncated or partly written: not JSON
HwsFile(k) == [kind |-> "hws", key |-> k]
VKeyFile(k) == [kind |-> "vkey", key |-> k]
CounterFile(c) == [kind |-> "counter", key |-> c.key, num |-> c.num]
\* The signature is the key that made it; it verifies when that is the cold key.
CertFile(c, k) == [kind |-> "cert", key |-> c.key, num |-> c.num, signer |-> k]

Content ==
  {None, Torn}
    \cup [kind: {"hws", "vkey"}, key: Keys]
    \cup [kind: {"counter"}, key: Keys, num: Nat]
    \cup [kind: {"cert"}, key: Keys, num: Nat, signer: Keys]

Counter == [key: Keys, num: Nat]

\* The points at which a run holds a device session.
KeyGenPoints == {"loop", "hws", "vkey", "ctr"}
IssuePoints == {"read", "sign", "cert", "bump"}
Holding == KeyGenPoints \cup IssuePoints
Points == {"idle", "wait", "done", "failed"} \cup Holding

Init ==
  /\ fs = [f \in Files |-> None]
  /\ pc = [r \in Runs |-> "idle"]
  /\ job = [r \in Runs |-> NoJob]
  /\ dev = [r \in Runs |-> NoDevice]
  /\ idx = [r \in Runs |-> 1]
  /\ open = [r \in Runs |-> FALSE]
  /\ keys = [r \in Runs |-> {}]
  /\ buf = [r \in Runs |-> NoCounter]
  /\ log = [f \in Files |-> << >>]

(***************************************************************************)
(* Process start and end.                                                  *)
(***************************************************************************)

StartKeyGen(r) ==
  /\ pc[r] = "idle"
  /\ \E j \in KeyGenJobs : job' = [job EXCEPT ![r] = j]
  /\ pc' = [pc EXCEPT ![r] = "wait"]
  /\ UNCHANGED <<fs, dev, idx, open, keys, buf, log>>

\* The signing files are parsed while the command line is, before any device
\* is connected; a file that is not a signing file ends the run.
StartIssue(r) ==
  /\ pc[r] = "idle"
  /\ \E j \in IssueJobs :
       /\ job' = [job EXCEPT ![r] = j]
       /\ IF \A f \in j.hws : fs[f].kind = "hws"
            THEN /\ keys' = [keys EXCEPT ![r] = {fs[f].key : f \in j.hws}]
                 /\ pc' = [pc EXCEPT ![r] = "wait"]
            ELSE /\ pc' = [pc EXCEPT ![r] = "failed"]
                 /\ UNCHANGED keys
  /\ UNCHANGED <<fs, dev, idx, open, buf, log>>

Free(d) == \A q \in Runs : dev[q] # d

\* Mutant: a second process may open a device that is in use.
ConnectShared(r) ==
  /\ pc[r] = "wait"
  /\ \E d \in Devices : dev' = [dev EXCEPT ![r] = d]
  /\ pc' = [pc EXCEPT ![r] = IF job[r].cmd = "keygen" THEN "loop" ELSE "read"]
  /\ UNCHANGED <<fs, job, idx, open, keys, buf, log>>

\* getCryptoProvider: the first device that answers, else the 5 s timeout.
Connect(r) ==
  /\ pc[r] = "wait"
  /\ \E d \in Devices :
       /\ Free(d)
       /\ dev' = [dev EXCEPT ![r] = d]
  /\ pc' = [pc EXCEPT ![r] = IF job[r].cmd = "keygen" THEN "loop" ELSE "read"]
  /\ UNCHANGED <<fs, job, idx, open, keys, buf, log>>

\* Mutant: the device session outlives the command.
ExitKeepingDevice(r, code) ==
  /\ pc' = [pc EXCEPT ![r] = code]
  /\ dev' = dev
  /\ open' = [open EXCEPT ![r] = FALSE]

Exit(r, code) ==
  /\ pc' = [pc EXCEPT ![r] = code]
  /\ dev' = [dev EXCEPT ![r] = NoDevice]
  /\ open' = [open EXCEPT ![r] = FALSE]

ConnectTimeout(r) ==
  /\ pc[r] = "wait"
  /\ Exit(r, "failed")
  /\ UNCHANGED <<fs, job, idx, keys, buf, log>>

\* A kill, a write that fails, a device that is unplugged or a user who rejects.
Die(r) ==
  /\ MayDie
  /\ pc[r] \in Holding
  /\ Exit(r, "failed")
  /\ UNCHANGED <<fs, job, idx, keys, buf, log>>

(***************************************************************************)
(* Writing a file: truncate, then fill.                                    *)
(***************************************************************************)

Entry(r) == job[r].entries[idx[r]]

Target(r) ==
  CASE pc[r] = "hws" -> Entry(r).hws
    [] pc[r] = "vkey" -> Entry(r).vkey
    [] pc[r] = "ctr" -> Entry(r).counter
    [] pc[r] = "cert" -> job[r].out
    [] pc[r] = "bump" -> job[r].counter

Truncate(r) ==
  /\ pc[r] \in {"hws", "vkey", "ctr", "cert", "bump"}
  /\ ~open[r]
  /\ fs' = [fs EXCEPT ![Target(r)] = Torn]
  /\ open' = [open EXCEPT ![r] = TRUE]
  /\ UNCHANGED <<pc, job, dev, idx, keys, buf, log>>

Fill(r, point, content) ==
  /\ pc[r] = point
  /\ open[r]
  /\ fs' = [fs EXCEPT ![Target(r)] = content]

(***************************************************************************)
(* node key-gen                                                            *)
(***************************************************************************)

ExportedKey(r) == <<Seed[dev[r]], Entry(r).path>>

ExportKey(r) ==
  /\ pc[r] = "loop"
  /\ ~job[r].uneven
  /\ idx[r] \in DOMAIN job[r].entries
  /\ Entry(r).path \in ColdPaths
  /\ pc' = [pc EXCEPT ![r] = "hws"]
  /\ UNCHANGED <<fs, job, dev, idx, open, keys, buf, log>>

\* Lists of different lengths throw at once, a path of another class after the files of
\* the earlier paths are written.
InvalidInputs(r) ==
  /\ pc[r] = "loop"
  /\ job[r].uneven \/ (idx[r] \in DOMAIN job[r].entries /\ Entry(r).path \notin ColdPaths)
  /\ Exit(r, "failed")
  /\ UNCHANGED <<fs, job, idx, keys, buf, log>>

FillHws(r) ==
  /\ Fill(r, "hws", HwsFile(ExportedKey(r)))
  /\ pc' = [pc EXCEPT ![r] = "vkey"]
  /\ open' = [open EXCEPT ![r] = FALSE]
  /\ UNCHANGED <<job, dev, idx, keys, buf, log>>

FillVKey(r) ==
  /\ Fill(r, "vkey", VKeyFile(ExportedKey(r)))
  /\ pc' = [pc EXCEPT ![r] = "ctr"]
  /\ open' = [open EXCEPT ![r] = FALSE]
  /\ UNCHANGED <<job, dev, idx, keys, buf, log>>

\* Mutant: counts from one.
FillCounterFromOne(r) ==
  /\ Fill(r, "ctr", CounterFile([key |-> ExportedKey(r), num |-> 1]))
  /\ pc' = [pc EXCEPT ![r] = "loop"]
  /\ open' = [open EXCEPT ![r] = FALSE]
  /\ idx' = [idx EXCEPT ![r] = @ + 1]
  /\ log' = [log EXCEPT ![Target(r)] = << >>]
  /\ UNCHANGED <<job, dev, keys, buf>>

\* Mutant: the loop does not move on to the next path.
FillCounterNoAdvance(r) ==
  /\ Fill(r, "ctr", CounterFile([key |-> ExportedKey(r), num |-> 0]))
  /\ pc' = [pc EXCEPT ![r] = "loop"]
  /\ open' = [open EXCEPT ![r] = FALSE]
  /\ log' = [log EXCEPT ![Target(r)] = << >>]
  /\ UNCHANGED <<job, dev, idx, keys, buf>>

\* The counter file is overwritten at number 0, whatever it held.
FillCounter(r) ==
  /\ Fill(r, "ctr", CounterFile([key |-> ExportedKey(r), num |-> 0]))
  /\ pc' = [pc EXCEPT ![r] = "loop"]
  /\ open' = [open EXCEPT ![r] = FALSE]
  /\ idx' = [idx EXCEPT ![r] = @ + 1]
  /\ log' = [log EXCEPT ![Target(r)] = << >>]
  /\ UNCHANGED <<job, dev, keys, buf>>

FinishKeyGen(r) ==
  /\ pc[r] = "loop"
  /\ ~job[r].uneven
  /\ idx[r] \notin DOMAIN job[r].entries
  /\ Exit(r, "done")
  /\ UNCHANGED <<fs, job, idx, keys, buf, log>>

(***************************************************************************)
(* node issue-op-cert                                                      *)
(***************************************************************************)

ReadCounter(r) ==
  /\ pc[r] = "read"
  /\ fs[job[r].counter].kind = "counter"
  /\ buf' = [buf EXCEPT ![r] = [key |-> fs[job[r].counter].key,
                                num |-> fs[job[r].counter].num]]
  /\ pc' = [pc EXCEPT ![r] = "sign"]
  /\ UNCHANGED <<fs, job, dev, idx, open, keys, log>>

BadCounter(r) ==
  /\ pc[r] = "read"
  /\ fs[job[r].counter].kind # "counter"
  /\ Exit(r, "failed")
  /\ UNCHANGED <<fs, job, idx, keys, buf, log>>

\* Mutant: the first signing file, whatever the counter's key.
AnySigningKey(r) == CHOOSE k \in keys[r] : TRUE

\* findSigningPathForKey: the signing file that holds the counter's cold key.
SigningKey(r) == CHOOSE k \in keys[r] : k = buf[r].key

\* Mutant: the counter file is incremented before the certificate is written.
SignAndBump(r) ==
  /\ pc[r] = "sign"
  /\ dev[r] \in Ledgers
  /\ buf[r].key \in keys[r]
  /\ fs' = [fs EXCEPT ![job[r].counter] = CounterFile([buf[r] EXCEPT !.num = @ + 1])]
  /\ pc' = [pc EXCEPT ![r] = "cert"]
  /\ UNCHANGED <<job, dev, idx, open, keys, buf, log>>

Sign(r) ==
  /\ pc[r] = "sign"
  /\ dev[r] \in Ledgers
  /\ buf[r].key \in keys[r]
  /\ pc' = [pc EXCEPT ![r] = "cert"]
  /\ UNCHANGED <<fs, job, dev, idx, open, keys, buf, log>>

\* A Trezor does not support the call; no signing file has the counter's key.
CannotSign(r) ==
  /\ pc[r] = "sign"
  /\ dev[r] \notin Ledgers \/ buf[r].key \notin keys[r]
  /\ Exit(r, "failed")
  /\ UNCHANGED <<fs, job, idx, keys, buf, log>>

FillCert(r) ==
  /\ Fill(r, "cert", CertFile(buf[r], <<Seed[dev[r]], SigningKey(r)[2]>>))
  /\ log' = [log EXCEPT ![job[r].counter] =
               Append(@, [num |-> buf[r].num, run |-> r])]
  /\ pc' = [pc EXCEPT ![r] = "bump"]
  /\ open' = [open EXCEPT ![r] = FALSE]
  /\ UNCHANGED <<job, dev, idx, keys, buf>>

\* Mutant: the counter is written back as it was read.
WriteBackCounter(r) ==
  /\ Fill(r, "bump", CounterFile(buf[r]))
  /\ Exit(r, "done")
  /\ UNCHANGED <<job, idx, keys, buf, log>>

BumpCounter(r) ==
  /\ Fill(r, "bump", CounterFile([buf[r] EXCEPT !.num = @ + 1]))
  /\ Exit(r, "done")
  /\ UNCHANGED <<job, idx, keys, buf, log>>

-----------------------------------------------------------------------------

KeyGenStep(r) ==
  ExportKey(r) \/ InvalidInputs(r) \/ FillHws(r) \/ FillVKey(r) \/ FillCounter(r)
    \/ FinishKeyGen(r)

IssueStep(r) ==
  ReadCounter(r) \/ BadCounter(r) \/ Sign(r) \/ CannotSign(r) \/ FillCert(r)
    \/ BumpCounter(r)

Work(r) == Connect(r) \/ ConnectTimeout(r) \/ Truncate(r) \/ KeyGenStep(r) \/ IssueStep(r)

Next == \E r \in Runs : StartKeyGen(r) \/ StartIssue(r) \/ Work(r) \/ Die(r)

Spec == Init /\ [][Next]_vars

\* A started process goes on, the user answers the device, the timer fires;
\* nobody has to start a run and nothing has to fail.
Fairness == \A r \in Runs : WF_vars(Work(r))

FairSpec == Spec /\ Fairness

-----------------------------------------------------------------------------

TypeOK ==
  /\ fs \in [Files -> Content]
  /\ pc \in [Runs -> Points]
  /\ job \in [Runs -> KeyGenJobs \cup IssueJobs \cup {NoJob}]
  /\ dev \in [Runs -> Devices \cup {NoDevice}]
  /\ idx \in [Runs -> Nat \ {0}]
  /\ open \in [Runs -> BOOLEAN]
  /\ keys \in [Runs -> SUBSET Keys]
  /\ buf \in [Runs -> Counter \cup {NoCounter}]
  /\ log \in [Files -> Seq([num: Nat, run: Runs])]
  /\ \A r \in Runs :
       /\ pc[r] \in KeyGenPoints => job[r] \in KeyGenJobs
       /\ pc[r] \in IssuePoints => job[r] \in IssueJobs
       /\ pc[r] \in {"hws", "vkey", "ctr"} => idx[r] \in DOMAIN job[r].entries
       /\ pc[r] = "wait" => job[r] # NoJob
       /\ pc[r] \in IssuePoints \ {"read"} => buf[r] \in Counter
       /\ pc[r] = "cert" => buf[r].key \in keys[r]
       /\ pc[r] \in Holding <=> dev[r] # NoDevice

-----------------------------------------------------------------------------
(***************************************************************************)
(* Safety, for one device session at a time.                               *)
(***************************************************************************)

\* The numbers the chain accepts next after the certificates of a counter file.
NextNumbers(f) ==
  IF log[f] = << >> THEN {0}
  ELSE LET last == log[f][Len(log[f])].num IN {last, last + 1}

\* A counter file never skips a number: what it holds is the number of the last
\* certificate published from it or the one after (createSignedOperationalCertificate
\* reads, publishes and bumps in an order that a crash cannot turn into a gap).
CounterTracksLog ==
  \A f \in Files : fs[f].kind = "counter" => fs[f].num \in NextNumbers(f)

\* A number is published again only if the run that published it first did not
\* get to exit with success: an exit code 0 of issue-op-cert consumes the number.
NumberConsumed ==
  \A f \in Files : \A i, j \in DOMAIN log[f] :
    i < j /\ log[f][i].num = log[f][j].num => pc[log[f][i].run] # "done"

\* A certificate is signed at the derivation path of its own cold key, although
\* the user names the signing files and the counter file independently.
SignedAtColdPath ==
  \A f \in Files : fs[f].kind = "cert" => fs[f].signer[2] = fs[f].key[2]

\* When issue-op-cert exits with success, its out file holds the certificate (unless
\* it was also named as the counter file) and the counter file the next number.
SuccessLeavesBothFiles ==
  [][\A r \in Runs :
       pc[r] = "bump" /\ pc'[r] = "done" =>
         /\ fs'[job[r].counter] = CounterFile([buf[r] EXCEPT !.num = @ + 1])
         /\ job[r].out # job[r].counter =>
              /\ fs'[job[r].out].kind = "cert"
              /\ fs'[job[r].out].num = buf[r].num
              /\ fs'[job[r].out].key = buf[r].key]_vars

\* The abstract promise: the published issue numbers follow the chain rule.
Numbers(f) == [i \in DOMAIN log[f] |-> log[f][i].num]
Ledger == INSTANCE IssueLedger
            WITH Counters <- Files, published <- [f \in Files |-> Numbers(f)]
PublishesInOrder == Ledger!Spec

(***************************************************************************)
(* What fileWriter.ts:269 writes into every counter file: "Next            *)
(* certificate issue number: N".                                           *)
(***************************************************************************)

\* While no run is active the number in a counter file has not been issued from it.
NextNumberUnissued ==
  (\A r \in Runs : pc[r] \in {"idle", "done", "failed"}) =>
    \A f \in Files : fs[f].kind = "counter" =>
      \A i \in DOMAIN log[f] : log[f][i].num # fs[f].num

(***************************************************************************)
(* Liveness.                                                               *)
(***************************************************************************)

\* Every started run ends: no two runs wait for one another, the one that finds no
\* free device gives up after the timeout of getCryptoProvider.
RunsEnd == \A r \in Runs : pc[r] = "wait" ~> pc[r] \in {"done", "failed"}
=============================================================================
