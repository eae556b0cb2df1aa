# cardano-hw-cli: formal model

TLA+ modules, TLC configurations and TLAPS proofs about cardano-hw-cli 1.14.0, a
command line tool that lets a Ledger or a Trezor sign what cardano-cli builds. Paths
below are relative to `src/src/` unless they start with `src/`.

Contents: [the system](#1-the-system), [plan](#2-plan), [modules](#3-modules),
[runs](#4-runs-and-what-they-show), [fairness](#5-fairness), [proofs](#6-proofs),
[findings](#7-findings), [limits](#8-what-is-not-modelled).

## 1. The system

A command is one operating-system process: it parses its command line and the files it
names (`command-parser/`), for most commands finds a device (`getCryptoProvider`), prepares
a request, waits for the user at the device, checks the answer and writes files
(`commandExecutor.ts`, `fileWriter.ts`). It keeps nothing between commands but files; nothing
locks these. cardano-cli, editors and other commands of the tool change them meanwhile.

| Component | State it keeps | Operations | Interacts with | What is hard | What makes it correct |
|---|---|---|---|---|---|
| Dispatch and exit codes (`index.ts`, `errors.ts`) | exit code | `executeCommand` | all commands; process exit closes transports and drops callbacks | commands before and after the device is found; a promise that never settles | a command ends; its exit code tells what happened |
| Command line parsing (`command-parser/`) | the files read, in memory | `parse*` | file system | files are read before the user takes minutes | what is parsed is what is signed |
| Device selection (`commandExecutor.ts:46-68`) | two attempts, a timer | `getCryptoProvider`, `promiseTimeout` | Ledger and Trezor libraries, other commands | first answer wins, nothing is cancelled, a late answer, a timer that fires anyway | one device per command, exclusively; the search ends |
| Signing files (`crypto-providers/util.ts`, `witnessingValidation.ts`) | none | `filterSigningFiles`, `find*`, `determineSigningMode`, `validateWitnessing`, `getAddressParameters` | request preparation | the signing mode is guessed; files repeat and belong to other wallets; change files | the mode fits the transaction and an owner does not sign as operator |
| Requests (`ledgerCryptoProvider.ts`, `trezorCryptoProvider.ts`) | none | `ledgerSignTx`, `trezorSignTx`, `prepare*`, `createWitnesses` | device libraries | two copies of the same logic; keys by path are derived again from another seed; answers by path or by public key | the device signs this transaction, with the right keys, and answers are matched |
| Transaction witness (`commandExecutor.ts:130-180`) | witnesses in memory, out files | `createTxWitnesses` | all of the above | positional matching; failure after the user confirmed; partial output | an error leaves files alone, success signs everything |
| Transaction files (`transaction/`) | the transaction file | `validateTx`, `transformTx`, `validateTxBeforeWitnessing` | cardano-cli | order of witnessing, transforming and assembling; in-place rewriting | no witness is invalidated |
| Node commands (`commandExecutor.ts:182-244`, `opCert/`) | cold signing file, issue counter | `node key-gen`, `node issue-op-cert` | files shared by runs | read, confirm, write, write back, with crashes and other runs between | issue numbers follow the chain's rule |
| Address commands (`commandExecutor.ts:77-116`) | key files | `address key-gen`, `key verification-key`, `address show` | files shared by runs | all signing files before the first verification key; labels may throw while writing; files are read back by other commands | what is written can be read back; one verification key file per key |
| CIP-36 registration (`commandExecutor.ts:246-295`) | none | `vote registration-metadata` | device | lists paired by position; 64 bit numbers in doubles; two encodings of one registration | the signature covers what is written |
| Native scripts (`parsers.ts:288-367`, providers) | none | `transaction policyid` | device | recursion; two copies of the conversion; nothing is compared | the policy id printed is the file's |
| Path classes and labels (`util.ts:86-132`, `fileWriter.ts:105-208`) | none | `classifyPath`, `bip32PathLabel`, `getHwSigningFileType` | all key commands | classes overlap, some throw; labels are prefixes of each other | what is written is what the parser expects |

`PROJECT.json` lists the hazards of this code at their lines, with the property that
would catch each, or the reason none does yet.

## 2. Plan

Done, in this order:

1. `OpCert`, `IssueLedger`, `OpCertProofs` - the only persistent state that is read,
   changed and written back.
2. `SigningFiles`, `SignRequest`, `TxWitness`, with their proofs - the reason the tool
   exists.
3. `TxFile`, `TxFileProofs` - the transaction across commands and cardano-cli.
4. `ProviderSelect`, `DeviceSession`, `ProviderSelectProofs` - the only concurrency
   inside a process, and what `OpCert` takes for granted of a device.
5. `HwPaths`, `KeyGen`, `KeyGenProofs` - paths, their classes and labels, and the files
   that every other command reads.
6. `VoteRegistration`, `VoteRegistrationProofs` - the other command in which a device
   signs what it has rebuilt itself.
7. `NodeCli`, `NodeCliProofs` - `OpCert` composed with `ProviderSelect`: whether the search
   for a device is what `OpCert` takes it for.
8. `NativeScript`, `NativeScriptProofs` - parsing and both providers' forms of a script,
   against a reference definition of its policy id. The code recurses; the module does not,
   which is what makes it provable.

Left, of little weight: the composition of the other commands with `ProviderSelect` (they
would be used as `OpCert` is in `NodeCli`, and share no file that is written back),
`address show`, and the version commands. Theorems still worth proving: a bound on the steps
of a whole command in `NodeCli`, with its search, and of the runs of `TxFile`.

## 3. Modules

Keys are pairs `<<wallet seed, derivation path>>`, and the hash of a key is the key: what
matters is whether two keys are the same and who can derive them. A hash of a transaction
is its body.

### OpCert, IssueLedger (MCOpCert, OpCertProofs)

| TLA+ | Code |
|---|---|
| `fs`, `None`, `Torn` | files; `writeFileSync` truncates, then fills (`fileWriter.ts:65`) |
| `StartIssue` | the signing files are parsed before a device is sought |
| `Connect`, `ConnectTimeout`, `Exit` | `getCryptoProvider`; a device is held until `process.exit` |
| `ExportKey`, `InvalidInputs`, `FillHws`, `FillVKey`, `FillCounter` | `createNodeSigningKeyFiles`: lists of different lengths (`uneven`) throw before anything is written, the class of a path is checked inside the loop |
| `ReadCounter`, `BadCounter` | `parseOpCertIssueCounterFile`, first thing in the command, after the device is open |
| `Sign`, `CannotSign` | `signOperationalCertificate`: only a Ledger, only with the signing file of the counter's key |
| `FillCert`, `BumpCounter` | the certificate is written, then the counter, incremented |
| `Die` | a kill, an I/O error, a rejection by the user |
| `log` | history: the certificates written per counter file since key-gen reset it |

KES keys, periods and the signature itself are left out: they pass through unchanged. The
signature is the key that made it. Counters are not bounded; with three runs
they cannot get far.

`IssueLedger` is the abstract specification: numbers published from one counter file are
acceptable to the chain (the last one or the next). The refinement maps the log to the
numbers published.

### SigningFiles, SignRequest, TxWitness (MCTxWitness, TxWitnessProofs)

`SigningFiles` and `SignRequest` are the pure part: which files are of a type, the
signing mode, the checks of each mode, and the request that either provider makes.
A request is the body with each key replaced by how it is handed over (`ByPath`,
`ByHash`, or `Undefined`, which `preparePoolKey` may return). `BodySigned` is the
transaction the device rebuilds from it: it derives each path from its own seed.
`MustSign` and `MaySign` are the paths the device signs at (a stake registration may
or may not be witnessed, depending on the device and its version). These four are external.

`TxWitness` is one run of `createTxWitnesses`:

| TLA+ | Code |
|---|---|
| `Parse`, `Connect`, `NoDevice` | the arguments with their files, then the device |
| `Check` | `validateTxBeforeWitnessing`, `determineSigningMode`, `validateWitnessing` |
| `Prepare` | everything in `ledgerSignTx`/`trezorSignTx` that throws before the device is called |
| `Sign`, `HashMismatch`, `Refuse` | the call, and the comparison of the device's transaction hash with the file's |
| `CreateWitnesses` | `createWitnesses` of the provider: by path on the Ledger, by public key on the Trezor |
| `Match`, `Matched` | the loop over the signing files and the count of out files |
| `Truncate`, `Fill`, `Finish` | `write` for each output, in order |
| `WriteFails`, `Die` | an I/O error while a file is written, which ends the run with its error exit; a kill |

Input indexes are numbers, since both providers convert them from 64 bit integers to
doubles: `Double` is that conversion around `MaxSafe`, and `RequestOk` has the check
before it. Relays are represented by their ports, of which `RelayPorts` drops 0, as both
providers do (`port ? Number(port) : undefined`); an address of no known type (`INVALID`)
makes `getAddressType` throw. Abstractions: the network of an address and amounts, tokens,
datums and metadata are not represented (both providers carry them over, and the comparison of hashes covers
them); Byron witnesses differ from others only in fields that follow from the path.

### TxFile (MCTxFile, TxFileProofs)

Transaction and witness files over which cardano-cli (`Build`, `CliWitness`, `Assemble`) and
runs of validate, transform and witness step in any order. A run parses its transaction
once (`Start`) and then knows it from memory. Encoding is what matters of a
transaction: canonical, repairable, or not; a witness fits a transaction with the
very bytes it signed. `MaxCli` bounds the steps of cardano-cli.

### ProviderSelect, DeviceSession (MCProviderSelect, ProviderSelectProofs)

Commands that look for a device at the same time. Each action is one callback of the
event loop with the promise jobs it sets off: these run before the next callback.
`Promise.any` over two attempts, a race with a timer, nothing cancelled, `process.exit`.
That a device is open to one process at a time is the operating system's doing
(external, `OpenElsewhere`). `DeviceSession` is what the rest of the code takes for granted:
one device, once, exclusively, to the end. The refinement maps to it the
provider each working command has; devices that were opened late and are used by nobody
do not show.

### HwPaths, KeyGen (MCKeyGen, KeyGenProofs)

`HwPaths` is pure: `ClassifyPath` clause by clause, the labels and types of key files, what
`parseFileTypeMagic` expects of them, and paths as text, which hardens and softens elements.
It says what `Type` of `SigningFiles` and `ColdPaths` of `OpCert` stand for.

| TLA+ (`KeyGen`) | Code |
|---|---|
| `StartKeyGen`, `StartVerificationKey` | parsing; key verification-key reads the signing file here, long before it writes |
| `Connect`, `ConnectTimeout`, `Exit` | `getCryptoProvider`, also for key verification-key, which does not use the device |
| `BadInputs`, `Export` | `validateKeyGenInputs`, `getXPubKeys` |
| `NotLabelled` | `bip32PathLabel` throws while the output is constructed, before its file is opened |
| `FillSigningFile`, `NextPass`, `FillVerificationKey`, `Finish` | the two loops of `createSigningKeyFile` |
| `FillDerived` | `createVerificationKeyFile` |

Files may hold anything at first (`InitialFiles`), such as account keys of other tools.

### VoteRegistration (MCVoteRegistration, VoteRegistrationProofs)

One run of `createCIP36RegistrationMetadata`, over `SignRequest`'s view of addresses and keys.
`VoteRequest` is what goes to the device, `DeviceRegistration` (external) what it signs,
`TheRegistration` what the tool encodes and writes: three versions of one registration,
from the same command line (`TheDelegations` pairs keys and weights). `Compare` is the
comparison of hashes. Vote keys are texts and files of several shapes, given by four options.

### NodeCli (MCNodeCli, NodeCliProofs)

`OpCert` and `ProviderSelect` over the same processes, by INSTANCE: `Start` begins the search,
the answer that ends it starts the command, and the end of either ends the other. What the
event loop still does in a process - the losing attempt, the timer - interleaves with the
command's file operations. `ImplementsNode` and `ImplementsFairness` say that
the whole is an `OpCert` with one Ledger and one Trezor, in steps and in progress.

### NativeScript (MCNativeScript, NativeScriptProofs)

One run of `createTxPolicyId`. Numbers of the file may lie between integers, which
`isCorrectNumber` lets through: `BigInt` then throws for a slot, and a count is left to the
device's library, which is taken to refuse it (`NodeWellFormed`, external). A script is a
function from positions to nodes (`IsScript`):
the root is at `<< >>`, the i-th script of the list at p is at p with i appended. The code's
recursion is a `.map` over each list, which moves no node and converts each by itself, so a
conversion of scripts here is one of nodes, done at every position.

| TLA+ | Code |
|---|---|
| `ScriptType`, `NodeOk`, `ScriptOk`, `ParsedNode`, `ParsedScript` | `nativeScriptTypeMap`, `parseNativeScriptData` |
| `LedgerNode`, `TrezorNode`, with `...Script` | `nativeScriptToLedgerTypes`, `nativeScriptToTrezorTypes`, in their field names |
| `LedgerNodeHash`, `TrezorNodeHash`, with `...Hash` | what the devices make of them (external) |
| `NodeId`, `PolicyId` | the reference: what cardano-cli reads in the file |

## 4. Runs and what they show

| Run | Question | Bounds, and why they are enough |
|---|---|---|
| `op_cert` | Do counters survive interleaved runs and crashes, with one device? | Three runs: one that resets or creates, two that issue, so a number can be read by one run while another may be publishing it, and a third can repeat after a crash. Seven files: two keys with their files and one out file; one command line names a counter file for an out file, another a signing file for a counter, so every overwriting the code allows occurs; one has lists of different lengths. |
| `op_cert_crash` | Is the "next" number in a counter file unissued, with crashes? | As above. Violated, see findings. |
| `op_cert_two_sessions` | The same without crashes and with two devices | Four runs of one key: one creates, two race, one more. Violated, see findings. |
| `tx_witness` | What is signed, by which keys, and what is written? | 24 bodies with every kind of certificate, owners of either wallet, a relay port 0, withdrawals, required signers, minting and Plutus, 10 more with change outputs; all lists of one or two, and many of three, of eleven signing files of every type from two wallets; repeated out files and too few of them. Three files are needed for one type of file to matter to the position of two others; pools have two owners. Every combination is an initial choice of `Parse`, so nothing hides behind a schedule. |
| `tx_file` | Do witnesses survive transform, and can they be used? | Two runs and three steps of cardano-cli: build, witness, assemble is the shortest way to a signed transaction; two files so that in-place and copying both occur; two contents. |
| `tx_file_exit_code` | Does exit code 3 mean that transform helps? | One content. Violated, see findings. |
| `provider_select` | Is a device given once, exclusively, and does the search end? | Three commands, two devices: both may be taken and a third goes without. |
| `key_gen` | Can what is written be read, and which files does a failure leave? | Three runs, so that a file is exported, derived and overwritten; every labelled class of path, one without a label, paths of no class; bulk exports of two, which is what it takes for the two loops to be out of step; a file named twice, a missing file, a foreign account key. One device, which a run holds until it exits: sharing it (`ConnectShared`) breaks `SuccessLeavesPairs`. `HardenedThreshold` is 2000, above every purpose. |
| `vote_registration` | Is what is written what was signed and asked for? | Numbers up to, at and above `MaxSafe` (4), an odd one among them; two keys, for pairing; all kinds of addresses, one of them of no known type, with files of two wallets; each option with each shape of text. One run: it shares nothing but its out file. |
| `vote_key_docs` | Does the documented command line work? | As above. Violated, see findings. |
| `node_cli` | Is `OpCert` with the real search for a device still `OpCert`? | Two runs, one Ledger and one Trezor: each run can hold either device or, through a late attempt, both, so the other one waits, gives up or dies meanwhile. One and two keys, a command line that is refused halfway. |
| `native_script` | Is the printed policy id that of the file? | All nodes alone, in pairs under `all` and `any`, and under two levels with `atLeast`: enough for each kind of node to be below each kind of list and beside each other. Numbers below zero, up to, at and above `MaxSafe` (7), one of them no double, and one with a fraction; files of two wallets; nodes that are malformed in each way. |

Each property is explained where it is defined. Each was checked against at least
one mutant of the code (`PROJECT.json`, "mutants"; mutated definitions are marked in the
modules): counting from one, dropping the comparison of hashes, a timer that fires
regardless.

`CHECK_DEADLOCK FALSE` is set in every run because commands end and nobody has to start
another.

## 5. Fairness

- `OpCert`: weak fairness of `Work(r)` for every run. A started process goes on, its files
  are written, the user answers the device (a rejection is `Die`), the timer of
  getCryptoProvider fires. Nobody has to start a run, nothing has to fail: `Die` is not
  fair. `RunsEnd` then says that no run waits for another one, holding the only device.
- `ProviderSelect`: weak fairness of `Timeout(p)` only. Devices need neither answer nor
  fail. `SelectionEnds` rests on the timer alone, which the event loop always runs since
  neither attempt blocks it.
- `NodeCli`: weak fairness of `Timeout(r)` and `Step(r)`: the timer, and the command once it has
  a device. Attempts need not end. That this is enough for `OpCert`'s fairness,
  under which its `RunsEnd` was checked, is `ImplementsFairness`.
- `TxWitness`, `TxFile`, `KeyGen`, `VoteRegistration` and `NativeScript` state no liveness.

Half of termination is a safety property, and that half is proved, without fairness:
`BoundedCommands` of `OpCertProofs` and `KeyGenProofs` and `BoundedCommand` of
`TxWitnessProofs` give each run a number of steps that its command line fixes, of which
every step of the run uses up at least one, whatever other runs do. What fairness adds is
that a run takes its next step.

## 6. Proofs

Checked by TLAPS for every value of the constants. Assumptions are those in the modules
(`OpCertConstants`, `SigningFilesConstants`, `TxWitnessConstants`, `TxFileConstants`,
`NobodyIsNone`, `HardenedAbovePurposes`, `KeyGenConstants`,
`VoteRegistrationConstants`, `NodeCliConstants`, `NativeScriptConstants`): typing of the
constants, that marks are different from what they mark, and in `NativeScript` that
`MaxSafe` is 3 modulo 4, as 2^53 - 1 is: the double above it is then above it too.

**OpCert.** `CounterTracksLog`, `NumberConsumed`, `SuccessLeavesBothFiles` and the
refinement `PublishesInOrder`, for any number of runs and devices, of every behaviour in
which runs that hold devices at the same time write different files (`[]Apart`). The
finding `op_cert_two_sessions` shows that the code is not safe without that. Nothing is asked
of what a run reads, nor of runs that follow each other or die. With one device `Apart`
holds of itself (`OneDeviceKeepsApart`), so that one device is enough, whatever files are
named (`OneDeviceSuffices`). Properties alone
are not inductive, as a run carries the counter in memory across the user's confirmation. `IInv`
adds: while a run signs, what it holds is the next number
of the file, unless the file has been overwritten by something else (`ReadIsCurrent`);
after publishing, its certificate is the last (`PublishedLast`) and in place
(`CertInPlace`); log entries belong to their runs (`LogEntries`); nothing at or below a
number consumed by a successful run is still around, in file or memory (`ConsumedBelow`).
`TypeOK`, `SignedAtColdPath` and `BoundedCommands` (three files per path, at most
7 * paths + 2 steps for key-gen and 7 for issue-op-cert) need no assumption on files or devices.

**SignRequest.** Two facts carry the rest. `SignedIsRebuilt`: if the device's hash fits, each
part of the request is rebuilt to that part of the body. `AskedKeys`: a path that the
device is asked for is that of a signing file, and unless that is a payment, mint or
multisig file, the key it signs with is in the files, since the body would not have been rebuilt
otherwise. `SameRequests` is the agreement of the providers.
`OwnFilesRebuild` is the converse of the first: with files of the connected wallet, each part
of the request is rebuilt to that part of the body, because whatever is handed over by path
is the key of a file, and whatever is a number has been checked to be exact.

**TxWitness.** All properties of the run. `Approved` is what is known once the
device has signed; `OutputsSigned` and `FilesFromOutputs` follow it into the files;
`Unwritten` says when files are untouched, and `TornIsOpen` that a torn file is the one
being written. `SuccessIsComplete` starts from a definition of the keys that a transaction
needs of the files given (`KeysToWitness`: credentials of certificates and withdrawals,
required signers, registered owners or the pool key, spending, mint and multisig keys) that
mentions neither witness paths nor requests; that each of these is asked for is shown mode
by mode (`RequiredSignersAsked`, `OwnerInFiles`, `OwedKey`), that its witness gets a file by the
invariant of the loops (`KeysAreWritten`). The loops over signing files and out files have an
invariant of their own (`Loops`: `MatchedUpTo`, `WrittenUpTo`), with the files written
so far distinct from the next if out files are. `BoundedCommand` follows from the same:
a run takes at most 3 * signing files + 7 steps.

**TxFile.** `HwWitnessFits` and `TransformKeepsWitnesses`. Files change under a run at any
time, so nothing about files is inductive except what is written to them:
`CheckedBeforeWriting` (the run has checked what it holds) and `HwSignsCanonical`.
`ExitCodesPredict` is what `src/README.md:49-53` promises of the exit codes of validate, as
far as it is true: what a run that holds the same transaction, now or later, does with it. Its
invariant `Deserved` is the exit code that each command and each transaction deserve.

**ProviderSelect.** `GivesUpEmptyHanded` and the refinement of `DeviceSession`. `IInv` says which
callbacks can still be outstanding (`CallbacksOfLiving`), that whoever selects has no
device open (`SelectingEmptyHanded`), and that a device is open once (`Exclusive`).

**KeyGen.** All five properties. The lemmas of `HwPaths` come first: text and path are
inverse (`PathsReadBack`), no path fits two clauses of `classifyPath` (`ClausesApart`), and of every
labelled class the type that is written is one that
the parser accepts (`SigningFileReadable`). `SigningFilesReadBack` and
`OneVerificationKeyPerKey` hold for any number of devices, since they are about single
writes (`FilesOK`). `SigningFilesFirst` and `SuccessLeavesPairs` are about whole loops
that other runs could disturb: they assume `[]Apart`, as in `OpCert`, and rest on the invariant of the
passes (`HwsWritten`, `VKeyWritten`), a file being disturbed only by a run that names it.
`OneDeviceSuffices` again. `BoundedCommands`: at most 4 * paths + 4 steps, 3 for a derivation.

**VoteRegistration.** All three properties. `Phases` says what is known of `signed` at each
point; `RebuiltOwn` is that the device's registration is the tool's if the files are the
wallet's own. `DevicesRegisterTheSame`: what a Trezor can be asked for, a Ledger can, and both
make the same registration of it. `DelegationsByPlace` pairs keys and weights, with the 1 that a
single key gets.

**NodeCli.** `NodeImplemented`: every step of the whole is a step or a stutter of `OpCert`, and
`WholeSignsAtColdPath` carries one of its theorems over. The inductive invariant takes
`ProviderSelect`'s, types, and `Coupled`, which says where search and command of a run
meet: a late answer or timer finds the command past "wait", and leaves it alone.
`WholeIssuesInOrder` carries over the rest: all that the whole needs is that a run with the Ledger
and one with the Trezor at the same time write different files (`BothDevicesApart`). That two
runs never work with the same device is now derived from the search (`WorksWithOpened`),
where `OpCert` takes it for granted.

**NativeScript.** `PolicyIdIsScripts`, for scripts of any depth and width. Either
conversion, followed by the hash of its device, is the script in the file with the keys that have
signing files replaced by the connected wallet's (`ScriptAnswered`), which is proved node by node
over the six kinds that parse; `SafeIsExact` says that a number which was checked after
JSON.parse is the number in the file, and `OnlyWholeNumbers` that nothing is printed for one
with a fraction. `ProvidersAgree` is that of the
two copies of the conversion, and what is printed is the policy id of the file just when
nothing was replaced by another key.

Only model-checked: the liveness properties `RunsEnd`, `SelectionEnds` and
`ImplementsFairness` (out of this prover's reach),
and the counterexamples of the violation runs.

## 7. Findings

- `op_cert_crash`: the certificate is written before the counter. A run that dies between
  leaves a file that says "Next certificate issue number: N" (`fileWriter.ts:269`) when N has
  been issued. `CounterTracksLog` shows that it is never worse than that: numbers are
  repeated, never skipped.
- `op_cert_two_sessions`: without any failure, with two device sessions open at a time (two Ledgers
  with the same seed), nothing keeps two runs from reading the same number; the slower
  writes back an old counter. The lock is the device, not the file
  (`OneDeviceKeepsApart`), and it protects only as far as there is one: otherwise it is up to
  the user that concurrent runs write different files.
- `tx_file_exit_code`: `src/README.md:53` says that exit code 3 of validate can be repaired by
  transform; transform refuses if the transaction holds key witnesses
  (`transactionValidation.ts:88`). `TransformKeepsWitnesses` shows why it should.
  The rest of what the README says of exit codes holds (`ExitCodesPredict`).
- `vote_key_docs`: `src/docs/cip36-registration-example.md:52` names the key that `jcli` wrote, which is
  bech32 text, with `--vote-public-key-file`, an option that reads JSON key files
  (`parsers.ts:243`): the command ends before a device is sought.
  `--vote-public-key-jcli` reads such a file.

Not a divergence from any document, but worth knowing: `NativeScript` shows that with a signing
file of another wallet `transaction policyid` prints, without an error, the policy id of another
script than the one in the file (`PolicyIdIsScripts` is an equivalence). The commands that
sign notice such files by the comparison of hashes; this one compares nothing.

## 8. What is not modelled

- `address show`: it prints the address of a file and has the device show one it derives
  from paths. The user compares the two, the tool nothing; there is no state.
- What becomes of the issue count when node key-gen is run over a counter file, when one name is
  given for two out files, or when a file is rebuilt by others between being read and being
  overwritten: the code neither prevents these nor promises anything about them. The models
  allow them; properties name them as exceptions (see the notes of the hazards).
- Fractions of numbers too large for a double to keep them.
- The version commands and help; which of several errors is reported.
- Text: formatting, CBOR, bech32, dates, networks as text, the shape of command lines
  (argparse). Where text decides something it is there: elements of paths, labels of types,
  junk behind a key hash.
- Amounts, token bundles, datums, metadata, KES periods: both providers carry them over, and
  the comparison of transaction hashes covers them.
- The passphrase listener of `initTrezorConnect` (`trezorCryptoProvider.ts:109`): it throws
  outside of any promise, and what becomes of that is up to a library.
- The device applications, their libraries, the interop library and cardano-cli, other than
  through what the code relies on (external definitions).
- Packaging and release scripts.
