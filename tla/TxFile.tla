------------------------------- MODULE TxFile -------------------------------
(***************************************************************************)
(* The life of a transaction file between cardano-cli, which builds,       *)
(* signs and assembles, and the commands of cardano-hw-cli: transaction    *)
(* validate, transform and witness (transaction/transactionValidation.ts). *)
(* Commands run as processes of their own: each reads its transaction file *)
(* while it parses its command line and knows it from memory only; files   *)
(* may change under it, writing truncates first, and processes may die.    *)
(*                                                                         *)
(* A transaction is its content (a model value), how its body and the rest *)
(* of it are encoded, and the key witnesses in it.  A witness signs a      *)
(* content in one encoding.  What device, keys and signing mode do to a    *)
(* witness run is in TxWitness; here the run signs or fails.               *)
(***************************************************************************)
EXTENDS Naturals

CONSTANTS
  Runs,          \* invocations of cardano-hw-cli
  TxFiles,       \* files named as transaction files
  WitnessFiles,  \* files named for witnesses
  Contents,      \* what transactions say
  MaxCli         \* bound: how many steps cardano-cli takes

ASSUME TxFileConstants == TxFiles \cap WitnessFiles = {} /\ MaxCli \in Nat

VARIABLES
  fs,      \* the files
  pc,      \* where each run is
  job,     \* its command line
  buf,     \* the transaction it parsed
  exit,    \* its exit code
  cli      \* steps cardano-cli has taken

vars == <<fs, pc, job, buf, exit, cli>>

Files == TxFiles \cup WitnessFiles

None == [kind |-> "none"]
Torn == [kind |-> "torn"]

\* Encodings: canonical per CIP-21; off in a way transformTx can undo; or beyond it.
Encodings == {"canonical", "fixable", "unfixable"}

Witness == [kind: {"witness"}, signer: {"hw", "cli"}, content: Contents, body: Encodings]
Tx == [kind: {"tx"}, content: Contents, body: Encodings, rest: {"canonical", "fixable"},
       vkeys: SUBSET Witness]

Sign(signer, tx) ==
  [kind |-> "witness", signer |-> signer, content |-> tx.content, body |-> tx.body]

\* A witness verifies in a transaction with the very bytes it signed.
Fits(w, tx) == w.content = tx.content /\ w.body = tx.body

Jobs ==
  [cmd: {"validate"}, tx: TxFiles]
    \cup [cmd: {"transform"}, tx: TxFiles, out: TxFiles]
    \cup [cmd: {"witness"}, tx: TxFiles, out: WitnessFiles]

NoJob == [cmd |-> "none"]

ExitCodes == 0 .. 3
Running == 99

Init ==
  /\ fs = [f \in Files |-> None]
  /\ pc = [r \in Runs |-> "idle"]
  /\ job = [r \in Runs |-> NoJob]
  /\ buf = [r \in Runs |-> None]
  /\ exit = [r \in Runs |-> Running]
  /\ cli = 0

-----------------------------------------------------------------------------
(* cardano-cli (external) *)

CliStep == cli < MaxCli /\ cli' = cli + 1 /\ UNCHANGED <<pc, job, buf, exit>>

Build(f) ==
  /\ CliStep
  /\ \E c \in Contents, b \in Encodings, rest \in {"canonical", "fixable"} :
       fs' = [fs EXCEPT ![f] = [kind |-> "tx", content |-> c, body |-> b,
                                rest |-> rest, vkeys |-> {}]]

CliWitness(f, w) ==
  /\ CliStep
  /\ fs[f].kind = "tx"
  /\ fs' = [fs EXCEPT ![w] = Sign("cli", fs[f])]

Assemble(f, ws, out) ==
  /\ CliStep
  /\ fs[f].kind = "tx"
  /\ \A w \in ws : fs[w].kind = "witness"
  /\ \E rest \in {"canonical", "fixable"} :
       fs' = [fs EXCEPT ![out] =
                [fs[f] EXCEPT !.vkeys = @ \cup {fs[w] : w \in ws}, !.rest = rest]]

-----------------------------------------------------------------------------
(* The interop library (external) *)

ContainsUnfixable(tx) == tx.body = "unfixable"
ContainsFixable(tx) == tx.body = "fixable" \/ tx.rest = "fixable"
Transformed(tx) == [tx EXCEPT !.body = "canonical", !.rest = "canonical"]

-----------------------------------------------------------------------------
(* cardano-hw-cli *)

Exit(r, code) ==
  /\ pc' = [pc EXCEPT ![r] = "ended"]
  /\ exit' = [exit EXCEPT ![r] = code]

\* Mutant: the file is not checked to be a transaction.
StartUnparsed(r) ==
  /\ pc[r] = "idle"
  /\ \E j \in Jobs :
       /\ job' = [job EXCEPT ![r] = j]
       /\ buf' = [buf EXCEPT ![r] = fs[j.tx]]
       /\ pc' = [pc EXCEPT ![r] = j.cmd]
  /\ UNCHANGED <<fs, cli, exit>>

\* parseTxFile: a file that is no transaction ends the run.
Start(r) ==
  /\ pc[r] = "idle"
  /\ \E j \in Jobs :
       /\ job' = [job EXCEPT ![r] = j]
       /\ IF fs[j.tx].kind = "tx"
            THEN /\ buf' = [buf EXCEPT ![r] = fs[j.tx]]
                 /\ pc' = [pc EXCEPT ![r] = j.cmd]
                 /\ UNCHANGED exit
            ELSE Exit(r, 1) /\ UNCHANGED buf
  /\ UNCHANGED <<fs, cli>>

Validate(r) ==
  /\ pc[r] = "validate"
  /\ Exit(r, IF ContainsUnfixable(buf[r]) THEN 2
             ELSE IF ContainsFixable(buf[r]) THEN 3 ELSE 0)
  /\ UNCHANGED <<fs, job, buf, cli>>

ContainsVKeyWitnesses(tx) == tx.vkeys # {}

\* Mutant: a signed transaction is transformed all the same.
TransformsAnyway(tx) == ~ContainsUnfixable(tx)

\* transformTx refuses what it cannot repair, and repairs nothing that is signed.
Transforms(tx) ==
  /\ ~ContainsUnfixable(tx)
  /\ ~(ContainsFixable(tx) /\ ContainsVKeyWitnesses(Transformed(tx)))

Transform(r) ==
  /\ pc[r] = "transform"
  /\ Transforms(buf[r])
  /\ pc' = [pc EXCEPT ![r] = "truncate"]
  /\ UNCHANGED <<fs, job, buf, exit, cli>>

RefuseTransform(r) ==
  /\ pc[r] = "transform"
  /\ ~Transforms(buf[r])
  /\ Exit(r, 1)
  /\ UNCHANGED <<fs, job, buf, cli>>

\* Mutant: only what cannot be repaired is kept from the device.
WitnessesFixable(tx) == ~ContainsUnfixable(tx)

\* validateTxBeforeWitnessing
Witnesses(tx) == ~ContainsUnfixable(tx) /\ ~ContainsFixable(tx)

\* The device takes its time; the run holds the transaction it parsed.
DeviceSigns(r) ==
  /\ pc[r] = "witness"
  /\ Witnesses(buf[r])
  /\ pc' = [pc EXCEPT ![r] = "truncate"]
  /\ UNCHANGED <<fs, job, buf, exit, cli>>

\* Refused by the validation, the checks of TxWitness, the device or the user.
RefuseWitness(r) ==
  /\ pc[r] = "witness"
  /\ Exit(r, 1)
  /\ UNCHANGED <<fs, job, buf, cli>>

Truncate(r) ==
  /\ pc[r] = "truncate"
  /\ fs' = [fs EXCEPT ![job[r].out] = Torn]
  /\ pc' = [pc EXCEPT ![r] = "fill"]
  /\ UNCHANGED <<job, buf, exit, cli>>

Fill(r) ==
  /\ pc[r] = "fill"
  /\ fs' = [fs EXCEPT ![job[r].out] =
              IF job[r].cmd = "witness" THEN Sign("hw", buf[r]) ELSE Transformed(buf[r])]
  /\ Exit(r, 0)
  /\ UNCHANGED <<job, buf, cli>>

Die(r) ==
  /\ pc[r] \notin {"idle", "ended"}
  /\ pc' = [pc EXCEPT ![r] = "ended"]
  /\ UNCHANGED <<fs, job, buf, exit, cli>>

-----------------------------------------------------------------------------

CliNext ==
  \/ \E f \in TxFiles : Build(f)
  \/ \E f \in TxFiles, w \in WitnessFiles : CliWitness(f, w)
  \/ \E f, out \in TxFiles, ws \in SUBSET WitnessFiles : Assemble(f, ws, out)

RunNext(r) ==
  Start(r) \/ Validate(r) \/ Transform(r) \/ RefuseTransform(r) \/ DeviceSigns(r)
    \/ RefuseWitness(r) \/ Truncate(r) \/ Fill(r) \/ Die(r)

Next == CliNext \/ \E r \in Runs : RunNext(r)

Spec == Init /\ [][Next]_vars

-----------------------------------------------------------------------------

TypeOK ==
  /\ fs \in [Files -> Tx \cup Witness \cup {None, Torn}]
  /\ pc \in [Runs -> {"idle", "validate", "transform", "witness", "truncate", "fill",
                      "ended"}]
  /\ job \in [Runs -> Jobs \cup {NoJob}]
  /\ buf \in [Runs -> Tx \cup {None}]
  /\ exit \in [Runs -> ExitCodes \cup {Running}]
  /\ cli \in 0 .. MaxCli
  /\ \A f \in Files : fs[f].kind = "tx" => f \in TxFiles
  /\ \A r \in Runs : pc[r] \notin {"idle", "ended"} => buf[r] # None

\* transform is not destructive (README: "Tries to non-destructively transform the tx
\* file"): a witness that verifies in the transaction it read is in the file it
\* writes and verifies there, however the files changed in between.
TransformKeepsWitnesses ==
  [][\A r \in Runs :
       (pc[r] = "fill" /\ exit'[r] = 0 /\ job[r].cmd = "transform")
         => LET written == fs'[job[r].out]
            IN \A w \in buf[r].vkeys :
                 Fits(w, buf[r]) =>
                   written.kind = "tx" /\ w \in written.vkeys /\ Fits(w, written)]_vars

\* A hardware witness can always be put to use: it fits any file of its transaction
\* that is canonical, such as those transform writes, however often and in
\* whatever order the files are rebuilt, transformed and assembled.
HwWitnessFits ==
  \A f \in TxFiles : \A w \in WitnessFiles :
    (/\ fs[f].kind = "tx" /\ fs[w].kind = "witness"
     /\ fs[w].signer = "hw" /\ fs[w].content = fs[f].content
     /\ fs[f].body = "canonical")
      => Fits(fs[w], fs[f])

(***************************************************************************)
(* README.md:53: exit code "3 transaction contains validation errors that  *)
(* can be fixed by running transaction transform".                         *)
(***************************************************************************)
ExitCodeThreeIsFixable ==
  \A r, q \in Runs :
    exit[r] = 3 /\ job[q].cmd = "transform" /\ buf[q] = buf[r] => exit[q] # 1
=============================================================================
