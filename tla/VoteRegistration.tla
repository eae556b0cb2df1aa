-------------------------- MODULE VoteRegistration --------------------------
(***************************************************************************)
(* One run of "vote registration-metadata"                                 *)
(* (CommandExecutor.createCIP36RegistrationMetadata): the vote keys and    *)
(* weights of the command line become a CIP-36 registration, which the     *)
(* device signs as the auxiliary data of a dummy transaction.              *)
(*                                                                         *)
(* The device rebuilds the registration from numbers and paths; the tool   *)
(* writes its own, with the device's signature, once the hash of its own   *)
(* is the hash the device signed.  A hash is the registration it is of.    *)
(* The nonce and the network pass through unchanged and are left out, and  *)
(* so are negative numbers, which the devices' libraries do not take.      *)
(***************************************************************************)
EXTENDS SignRequest

CONSTANTS
  VoteKeys,    \* vote public keys
  ByronPaths,  \* the paths of Byron spending keys
  Commands     \* command lines, with the files they name

\* Vote keys are given in four ways; each way reads some kinds of text or file.
VoteKeyOptions == {"jcli", "string", "hwsfile", "file"}
VoteKeyTexts == {"bech32", "vkey", "extendedVKey", "hwsfile", "otherJson"}
VoteKeyArgs == [option: VoteKeyOptions, text: VoteKeyTexts, key: VoteKeys]

CommandLines ==
  [voteKeys: Seq(VoteKeyArgs), weights: Seq(Nat), stake: Keys, payment: Seq(Keys),
   address: Addresses, purpose: Nat]     \* no purpose is Catalyst's, 0

ASSUME VoteRegistrationConstants ==
  /\ ByronPaths \subseteq Paths
  /\ Commands \subseteq CommandLines
  /\ \A c \in Commands : c.address.kind = "REWARD_KEY" => c.address.payment = NoKey

VARIABLES
  provider,  \* the device that answered
  seed,      \* its seed, under the derivation type of the call
  cmd,       \* the command line
  pc,        \* where the run is
  signed,    \* the registration that the device signed
  out        \* the out file

vars == <<provider, seed, cmd, pc, signed, out>>

Delegations == Seq([key: VoteKeys, weight: Nat])
Registrations == [delegations: Delegations, stake: Keys, address: Addresses, purpose: Nat]

Nothing == [kind |-> "nothing"]
Untouched == [kind |-> "untouched"]
Torn == [kind |-> "torn"]
MetadataFiles == [kind: {"metadata"}, data: Registrations, signatureOf: Registrations]

Init ==
  /\ provider \in Providers
  /\ seed \in Seeds
  /\ cmd \in Commands
  /\ pc = "parse"
  /\ signed = Nothing
  /\ out = Untouched

Goto(point) == pc' = point /\ UNCHANGED <<provider, seed, cmd>>

-----------------------------------------------------------------------------
(* Parsing *)

TextsRead(option) ==
  CASE option \in {"jcli", "string"} -> {"bech32"}
    [] option = "hwsfile" -> {"hwsfile"}
    [] option = "file" -> {"vkey", "extendedVKey"}

VoteKeysReadable ==
  \A i \in DOMAIN cmd.voteKeys : cmd.voteKeys[i].text \in TextsRead(cmd.voteKeys[i].option)

Parse ==
  /\ pc = "parse"
  /\ Goto(IF VoteKeysReadable THEN "prepare" ELSE "unparsed")
  /\ UNCHANGED <<signed, out>>

-----------------------------------------------------------------------------
(* Preparing the request *)

\* The stake file need not be repeated among the files of the payment address.
AddressFiles == Append(cmd.payment, cmd.stake)

NonByron(files) == \A k \in Elements(files) : PathOf(k) \notin ByronPaths

SingleKey == Len(cmd.voteKeys) = 1 /\ cmd.weights = << >>

\* Without any vote key the list is undefined, and taking its length throws.
DelegationsOk ==
  SingleKey \/ (cmd.voteKeys # << >> /\ Len(cmd.voteKeys) = Len(cmd.weights))

TheDelegations ==
  [i \in DOMAIN cmd.voteKeys |->
     [key |-> cmd.voteKeys[i].key, weight |-> IF SingleKey THEN 1 ELSE cmd.weights[i]]]

IsOwnAddress == IsChange(cmd.address, AddressFiles, "ORDINARY")

\* Mutant: any weight is turned into a number.
PreparableAnyWeight ==
  /\ NonByron(AddressFiles)
  /\ DelegationsOk
  /\ cmd.address.kind # "INVALID"
  /\ IsOwnAddress => cmd.address.kind \in {"BASE_KEY_KEY", "REWARD_KEY"}
  /\ provider = "trezor" => cmd.purpose <= MaxSafe

\* The kind of the address is looked at by both providers, as there is a stake file at least.
Preparable ==
  /\ NonByron(AddressFiles)
  /\ DelegationsOk
  /\ cmd.address.kind # "INVALID"
  /\ \A i \in DOMAIN TheDelegations : TheDelegations[i].weight <= MaxSafe
  /\ IsOwnAddress => cmd.address.kind \in {"BASE_KEY_KEY", "REWARD_KEY"}
  /\ provider = "trezor" => cmd.purpose <= MaxSafe

\* An own address is given by its paths; a reward address has no payment path.
PaymentDestination ==
  LET Part(key) == PathIf(IsOwnAddress /\ key # NoKey, key)
  IN [kind |-> cmd.address.kind, payment |-> Part(cmd.address.payment),
      stake |-> Part(cmd.address.stake)]

VoteRequest ==
  [delegations |-> [i \in DOMAIN TheDelegations |->
                      [key |-> TheDelegations[i].key,
                       weight |-> Double(TheDelegations[i].weight)]],
   stake |-> ByPath(cmd.stake),
   address |-> PaymentDestination,
   purpose |-> IF provider = "trezor" THEN Double(cmd.purpose) ELSE cmd.purpose]

Prepare ==
  /\ pc = "prepare"
  /\ Goto(IF Preparable THEN "sign" ELSE "failed")
  /\ UNCHANGED <<signed, out>>

-----------------------------------------------------------------------------
(* The device, and the comparison *)

\* What the device makes of the request (external).
DeviceRegistration ==
  [delegations |-> VoteRequest.delegations, stake |-> Derive(seed, VoteRequest.stake),
   address |-> DeriveAddress(seed, VoteRequest.address), purpose |-> VoteRequest.purpose]

Sign ==
  /\ pc = "sign"
  /\ signed' = DeviceRegistration
  /\ Goto("compare")
  /\ UNCHANGED out

\* The user or the device refuses, or the answer lacks the hash or the signature.
Refuse ==
  /\ pc = "sign"
  /\ Goto("failed")
  /\ UNCHANGED <<signed, out>>

\* formatCIP36RegistrationMetaData, with the numbers as they were given.
TheRegistration ==
  [delegations |-> TheDelegations, stake |-> cmd.stake, address |-> cmd.address,
   purpose |-> cmd.purpose]

\* Mutant: the hash is not compared.
CompareNothing ==
  /\ pc = "compare"
  /\ Goto("write")
  /\ UNCHANGED <<signed, out>>

Compare ==
  /\ pc = "compare"
  /\ Goto(IF signed = TheRegistration THEN "write" ELSE "mismatch")
  /\ UNCHANGED <<signed, out>>

Truncate ==
  /\ pc = "write"
  /\ out' = Torn
  /\ Goto("fill")
  /\ UNCHANGED signed

\* Mutant: the file is closed without its content.
FillNothing ==
  /\ pc = "fill"
  /\ Goto("done")
  /\ UNCHANGED <<signed, out>>

Fill ==
  /\ pc = "fill"
  /\ out' = [kind |-> "metadata", data |-> TheRegistration, signatureOf |-> signed]
  /\ Goto("done")
  /\ UNCHANGED signed

Die ==
  /\ pc \in {"prepare", "sign", "compare", "write", "fill"}
  /\ Goto("dead")
  /\ UNCHANGED <<signed, out>>

Next ==
  \/ Parse \/ Prepare \/ Sign \/ Refuse \/ Compare \/ Truncate \/ Fill \/ Die

Spec == Init /\ [][Next]_vars

-----------------------------------------------------------------------------

TypeOK ==
  /\ provider \in Providers
  /\ seed \in Seeds
  /\ cmd \in Commands
  /\ pc \in {"parse", "unparsed", "prepare", "sign", "compare", "mismatch", "write", "fill",
              "done", "failed", "dead"}
  /\ signed \in Registrations \cup {Nothing}
  /\ out \in MetadataFiles \cup {Untouched, Torn}
  /\ pc \in {"compare", "mismatch", "write", "fill", "done"} => signed # Nothing
  /\ out = Torn => pc \in {"fill", "dead"}

\* The weight that belongs to the i-th key of the command line; a single key needs none.
WeightAt(i) == IF i \in DOMAIN cmd.weights THEN cmd.weights[i] ELSE 1

\* The metadata file holds what the command line says, its purpose, its address, and its
\* keys, each with its own weight and none more or less, and the signature in it is the
\* stake key's and covers exactly that: numbers that were rounded on the way and files of
\* another wallet are found out by the hash.  A run that ends with an error leaves the file
\* alone.
RegistrationIsSigned ==
  /\ out.kind = "metadata" =>
       /\ out.signatureOf = out.data
       /\ out.data.stake = <<seed, PathOf(cmd.stake)>> /\ out.data.stake = cmd.stake
       /\ out.data.address = cmd.address /\ out.data.purpose = cmd.purpose
       /\ Len(out.data.delegations) = Len(cmd.voteKeys)
       /\ Len(cmd.weights) \in {0, Len(cmd.voteKeys)}
       /\ \A i \in DOMAIN cmd.voteKeys :
            out.data.delegations[i] = [key |-> cmd.voteKeys[i].key, weight |-> WeightAt(i)]
  /\ pc \in {"unparsed", "failed", "mismatch"} => out = Untouched

\* With signing files of the connected wallet, whatever the user has confirmed on the
\* device is not thrown away: the device is never asked for something that it would
\* rebuild in another way.
OwnFilesNeverMismatch ==
  (\A k \in Elements(AddressFiles) : k[1] = seed) => pc # "mismatch"

\* docs/cip36-registration-example.md: the vote key that jcli wrote is named with
\* --vote-public-key-file.
DocumentedVoteKeyParses ==
  (\A i \in DOMAIN cmd.voteKeys :
     cmd.voteKeys[i].option = "file" /\ cmd.voteKeys[i].text = "bech32")
  => pc # "unparsed"
=============================================================================
