------------------------------ MODULE TxWitness ------------------------------
(***************************************************************************)
(* One run of "transaction witness" (CommandExecutor.createTxWitnesses):   *)
(* check the transaction, decide the signing mode, check it against the    *)
(* signing files, prepare the request, let the device sign, compare the    *)
(* transaction hash, turn the device's witnesses into one output per       *)
(* signing file and write them.                                            *)
(*                                                                         *)
(* A transaction hash is the body it is the hash of.  A witness file is    *)
(* its public key, the key that signed and the body it signed.             *)
(***************************************************************************)
EXTENDS SignRequest

CONSTANTS
  Files,       \* out files
  DeviceSeed,  \* the seed of the device, under the derivation type of the call
  Jobs         \* command lines, with the transaction and the files they name

\* validateTx of the interop library (external): the errors it finds.
TxErrors == {"none", "fixable", "unfixable"}

CommandLines ==
  [body: Bodies, errors: TxErrors, network: Networks, files: Seq(Keys),
   change: Seq(Keys), outFiles: Seq(Files)]

ASSUME TxWitnessConstants ==
  /\ DeviceSeed \in Seeds
  /\ Jobs \subseteq CommandLines

VARIABLES
  pc,        \* where the run is
  job,       \* its parsed command line
  provider,  \* the device that answered first
  witnesses, \* the paths the device signed at
  outputs,   \* the witness files to write
  idx,       \* the signing file to match, or the witness file to write, next
  open,      \* whether it is truncated
  fs         \* the out files

vars == <<pc, job, provider, witnesses, outputs, idx, open, fs>>

NoJob == [job |-> "none"]
NoProvider == "none"
Untouched == [file |-> "untouched"]
Torn == [file |-> "torn"]

Witnesses == [path: Paths, public: Keys, signer: Keys, body: Bodies]

Body == job.body
Mode == DetermineSigningMode(Body, job.files)
TheRequest == Request(provider, Body, job.files, job.change, Mode)

Init ==
  /\ pc = "start"
  /\ job = NoJob
  /\ provider = NoProvider
  /\ witnesses = {}
  /\ outputs = << >>
  /\ idx = 1
  /\ open = FALSE
  /\ fs = [f \in Files |-> Untouched]

\* Mutant: the first out file is opened at once.
ParseAndOpen ==
  /\ pc = "start"
  /\ job' \in Jobs
  /\ pc' = "connect"
  /\ fs' = [fs EXCEPT ![Head(job'.outFiles)] = Torn]
  /\ UNCHANGED <<provider, witnesses, outputs, idx, open>>

\* The arguments, the files they name included, are parsed before any device is sought.
Parse ==
  /\ pc = "start"
  /\ job' \in Jobs
  /\ pc' = "connect"
  /\ UNCHANGED <<provider, witnesses, outputs, idx, open, fs>>

Connect ==
  /\ pc = "connect"
  /\ provider' \in Providers
  /\ pc' = "check"
  /\ UNCHANGED <<job, witnesses, outputs, idx, open, fs>>

NoDevice ==
  /\ pc = "connect"
  /\ pc' = "failed"
  /\ UNCHANGED <<job, provider, witnesses, outputs, idx, open, fs>>

\* validateTxBeforeWitnessing, determineSigningMode, validateWitnessing.
Accepted ==
  /\ job.errors = "none"
  /\ ValidateWitnessing(job.network, Body, job.files, Mode)

Check ==
  /\ pc = "check"
  /\ pc' = IF Accepted THEN "prepare" ELSE "failed"
  /\ UNCHANGED <<job, provider, witnesses, outputs, idx, open, fs>>

Prepare ==
  /\ pc = "prepare"
  /\ pc' = IF RequestOk(provider, Body, job.files, job.change, Mode)
             THEN "device" ELSE "failed"
  /\ UNCHANGED <<job, provider, witnesses, outputs, idx, open, fs>>

\* The device library or the user refuses.
Refuse ==
  /\ pc = "device"
  /\ pc' = "failed"
  /\ UNCHANGED <<job, provider, witnesses, outputs, idx, open, fs>>

\* Mutant: any hash the device answers with will do.
SignUnchecked ==
  /\ pc = "device"
  /\ WellFormed(TheRequest)
  /\ \E ps \in SUBSET MaySign(TheRequest) :
       /\ MustSign(TheRequest) \subseteq ps
       /\ witnesses' = ps
  /\ pc' = "collect"
  /\ UNCHANGED <<job, provider, outputs, idx, open, fs>>

\* The device signs, and the hash it computed is the hash of the transaction.
Sign ==
  /\ pc = "device"
  /\ WellFormed(TheRequest)
  /\ BodySigned(DeviceSeed, TheRequest) = Body
  /\ \E ps \in SUBSET MaySign(TheRequest) :
       /\ MustSign(TheRequest) \subseteq ps
       /\ witnesses' = ps
  /\ pc' = "collect"
  /\ UNCHANGED <<job, provider, outputs, idx, open, fs>>

HashMismatch ==
  /\ pc = "device"
  /\ WellFormed(TheRequest)
  /\ BodySigned(DeviceSeed, TheRequest) # Body
  /\ pc' = "failed"
  /\ UNCHANGED <<job, provider, witnesses, outputs, idx, open, fs>>

-----------------------------------------------------------------------------
(* From the device's witnesses to the out files *)

AllFound == \A p \in witnesses : FileFound(provider, DeviceSeed, p, job.files)

Witness(path) ==
  [path |-> path,
   public |-> PublicKey(provider, DeviceSeed, path, job.files),
   signer |-> <<DeviceSeed, path>>,
   body |-> BodySigned(DeviceSeed, TheRequest)]

\* createWitnesses throws when a witness has no signing file.
CreateWitnesses ==
  /\ pc = "collect"
  /\ pc' = IF AllFound THEN "match" ELSE "failed"
  /\ UNCHANGED <<job, provider, witnesses, outputs, idx, open, fs>>

\* The loop over the signing files, in command line order: one whose path has no
\* witness yields no output.
Match ==
  /\ pc = "match"
  /\ idx \in DOMAIN job.files
  /\ LET path == PathOf(job.files[idx])
     IN outputs' = IF path \in witnesses THEN Append(outputs, Witness(path)) ELSE outputs
  /\ idx' = idx + 1
  /\ UNCHANGED <<pc, job, provider, witnesses, open, fs>>

\* Mutant: too few out files are noticed once they are used up.
MatchedUncounted ==
  /\ pc = "match"
  /\ idx \notin DOMAIN job.files
  /\ pc' = "write"
  /\ idx' = 1
  /\ UNCHANGED <<job, provider, witnesses, outputs, open, fs>>

\* Too few out files: nothing is written, although the device has signed.
Matched ==
  /\ pc = "match"
  /\ idx \notin DOMAIN job.files
  /\ pc' = IF Len(outputs) <= Len(job.outFiles) THEN "write" ELSE "failed"
  /\ idx' = 1
  /\ UNCHANGED <<job, provider, witnesses, outputs, open, fs>>

Truncate ==
  /\ pc = "write"
  /\ ~open
  /\ idx \in DOMAIN outputs
  /\ fs' = [fs EXCEPT ![job.outFiles[idx]] = Torn]
  /\ open' = TRUE
  /\ UNCHANGED <<pc, job, provider, witnesses, outputs, idx>>

\* An out file that cannot be opened, or only filled in part, ends the run with an error.
WriteFails ==
  /\ pc = "write"
  /\ idx \in DOMAIN outputs
  /\ pc' = "writeFailed"
  /\ UNCHANGED <<job, provider, witnesses, outputs, idx, open, fs>>

\* Mutant: the next output goes to the out file.
FillNext ==
  /\ pc = "write"
  /\ open
  /\ fs' = [fs EXCEPT ![job.outFiles[idx]] = outputs[(idx % Len(outputs)) + 1]]
  /\ open' = FALSE
  /\ idx' = idx + 1
  /\ UNCHANGED <<pc, job, provider, witnesses, outputs>>

Fill ==
  /\ pc = "write"
  /\ open
  /\ fs' = [fs EXCEPT ![job.outFiles[idx]] = outputs[idx]]
  /\ open' = FALSE
  /\ idx' = idx + 1
  /\ UNCHANGED <<pc, job, provider, witnesses, outputs>>

\* Superfluous out files are left alone.
Finish ==
  /\ pc = "write"
  /\ ~open
  /\ idx \notin DOMAIN outputs
  /\ pc' = "done"
  /\ UNCHANGED <<job, provider, witnesses, outputs, idx, open, fs>>

Die ==
  /\ pc \in {"connect", "check", "prepare", "device", "collect", "match", "write"}
  /\ pc' = "dead"
  /\ UNCHANGED <<job, provider, witnesses, outputs, idx, open, fs>>

Next ==
  \/ Parse \/ Connect \/ NoDevice \/ Check \/ Prepare \/ Refuse \/ Sign
  \/ HashMismatch \/ CreateWitnesses \/ Match \/ Matched \/ Truncate \/ WriteFails
  \/ Fill \/ Finish \/ Die

Spec == Init /\ [][Next]_vars

-----------------------------------------------------------------------------

TypeOK ==
  /\ pc \in {"start", "connect", "check", "prepare", "device", "collect", "match",
              "write", "writeFailed", "done", "failed", "dead"}
  /\ job \in CommandLines \cup {NoJob}
  /\ provider \in Providers \cup {NoProvider}
  /\ witnesses \subseteq Paths
  /\ outputs \in Seq(Witnesses)
  /\ idx \in Nat \ {0}
  /\ open \in BOOLEAN
  /\ fs \in [Files -> Witnesses \cup {Untouched, Torn}]
  /\ pc \notin {"start"} => job # NoJob
  /\ pc \notin {"start", "connect", "failed", "dead"} => provider # NoProvider
  /\ pc \in {"write", "writeFailed", "done"} => Len(outputs) <= Len(job.outFiles)
  /\ open => pc \in {"write", "writeFailed", "dead"} /\ idx \in DOMAIN outputs

Written == {c \in {fs[f] : f \in Files} : c \notin {Untouched, Torn}}

Spending == {"Payment", "Mint", "MultiSig"}

\* Each witness written signs the very transaction of the tx file: a path is derived
\* from the device's seed, the files may be another wallet's, and the comparison of
\* hashes in ledgerSignTx and trezorSignTx stops whatever does not fit.
SignedBodyIsTxBody == \A w \in Written : w.body = Body

\* A witness whose public key is not the one that signed can only come from a Ledger,
\* which is asked for paths and answers with paths, and only at the path of a payment,
\* mint or multisig file, which the transaction hash does not tie down, or where two
\* files given name one path.
WitnessesVerify ==
  \A w \in Written :
    w.public # w.signer =>
      /\ provider = "ledger"
      /\ \/ \E k \in OfType(job.files, Spending) : PathOf(k) = w.path
         \/ \E k1, k2 \in Elements(job.files) :
              k1 # k2 /\ PathOf(k1) = w.path /\ PathOf(k2) = w.path

\* Signing a pool registration, an owner signs alone, as one of the owners it lists;
\* payment and cold keys never sign along (docs/pool-registration.md).
PoolOwnerSignsAlone ==
  \A w \in Written :
    PoolRegistrations(Body) # {} /\ TypeOf(w.signer) = "Stake" =>
      /\ \A v \in Written : v.path = w.path
      /\ \A i \in PoolRegistrations(Body) :
           w.signer \in Elements(Body.certificates[i].owners)

RegisteredOwners ==
  UNION {Elements(Body.certificates[i].owners) : i \in PoolRegistrations(Body)}

\* The stake keys whose use the chain wants signed: a bare registration of a key is not.
StakeKeysUsed ==
  {c \in Elements(Body.withdrawals) : c # Script}
    \cup {c.credential : c \in {x \in Elements(Body.certificates) :
            x.type \in {"STAKE_DEREGISTRATION", "STAKE_DELEGATION"} /\ x.credential # Script}}

PoolKeysUsed ==
  {c.operator : c \in {x \in Elements(Body.certificates) :
     x.type \in {"POOL_RETIREMENT"} \cup
       IF Mode = "OPERATOR" THEN {"POOL_REGISTRATION"} ELSE {}}}

\* The keys a finished run must have witnessed: those of the payment, mint and multisig
\* files given, those of the stake files given that the transaction names as pool owner,
\* as required signer or where it uses a stake key, and the pool's own key.  Outside Plutus
\* transactions a stake key that is used must come with its file.  What remains of
\* the files given does not sign: CIP-36 voting keys, and a cold key that the
\* transaction names as no pool's, be it a required signer.
KeysToWitness ==
  OfType(job.files, Spending)
    \cup ((StakeKeysUsed \cup RegisteredOwners \cup Body.requiredSigners)
             \cap OfType(job.files, {"Stake"}))
    \cup (IF Mode = "PLUTUS" THEN {} ELSE StakeKeysUsed)
    \cup PoolKeysUsed

DistinctOutFiles ==
  \A i, j \in DOMAIN job.outFiles : job.outFiles[i] = job.outFiles[j] => i = j

\* A run that ends with success has written a witness for every key there is to witness
\* (KeysToWitness): the owner's of the pool registrations it signs as OWNER included, and
\* then it is one of the owners of each of them that has signed.
SuccessSignsEverything ==
  pc = "done" /\ DistinctOutFiles =>
    /\ \A k \in KeysToWitness : \E w \in Written : w.path = PathOf(k)
    /\ Mode = "OWNER" =>
         \A i \in PoolRegistrations(Body) :
           \E w \in Written : w.signer \in Elements(Body.certificates[i].owners)

\* An error before the first out file is opened leaves all as they were, and wherever a
\* run ends, in an error, a crash or success, no file but the one it was writing is torn.
\* After a success the i-th out file holds the witness of the i-th signing file, as
\* long as all before it have one: a file that yields none (a stake file of a
\* registration) shifts the rest.
OutFilesAllOrNothing ==
  /\ pc = "failed" => \A f \in Files : fs[f] = Untouched
  /\ \A f \in Files : fs[f] = Torn => open /\ f = job.outFiles[idx]
  /\ pc = "done" /\ DistinctOutFiles =>
       \A i \in DOMAIN job.files :
         (\A j \in 1 .. i : PathOf(job.files[j]) \in witnesses) =>
           /\ fs[job.outFiles[i]] \in Written
           /\ fs[job.outFiles[i]].path = PathOf(job.files[i])

\* Whatever a Trezor is asked to sign, a Ledger would have been asked for with the same
\* command line, at the same paths: the device that answers first makes no difference.
ProvidersAgree ==
  pc = "prepare" /\ RequestOk("trezor", Body, job.files, job.change, Mode) =>
    LET trezor == Request("trezor", Body, job.files, job.change, Mode)
        ledger == Request("ledger", Body, job.files, job.change, Mode)
    IN /\ RequestOk("ledger", Body, job.files, job.change, Mode)
       /\ WellFormed(ledger)
       /\ MustSign(ledger) = MustSign(trezor)
       /\ MaySign(ledger) = MaySign(trezor)

\* Once the user has confirmed on the device, its witnesses find their signing files
\* (createWitnesses does not throw), unless a Trezor was given another wallet's file.
SignaturesKept ==
  pc = "collect" =>
    \/ AllFound
    \/ provider = "trezor" /\ \E k \in Elements(job.files) : k[1] # DeviceSeed

OwnFiles == \A k \in Elements(job.files \o job.change) : k[1] = DeviceSeed

\* prepareRelays drops a relay port that is 0.
NamesPortZero ==
  \E i \in PoolRegistrations(Body) : 0 \in Body.certificates[i].relayPorts

\* With files of the connected wallet only, the transaction the user is shown is the one
\* in the tx file: no confirmation on the device ends in "hash mismatch", no key
\* and no input index is lost on the way through the request.  A relay port of a pool
\* registration can be lost, if it is 0.
OwnFilesNeverMismatch ==
  pc = "device" /\ OwnFiles /\ ~NamesPortZero /\ WellFormed(TheRequest) =>
    BodySigned(DeviceSeed, TheRequest) = Body
=============================================================================
