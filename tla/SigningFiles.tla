---------------------------- MODULE SigningFiles ----------------------------
(***************************************************************************)
(* What "transaction witness" makes of a transaction body and of the       *)
(* signing files named on its command line, before it talks to the device: *)
(* the signing mode, and whether body and files fit together               *)
(* (crypto-providers/util.ts, crypto-providers/witnessingValidation.ts).   *)
(*                                                                         *)
(* A public key is the pair <<wallet seed, derivation path>>; a key hash   *)
(* is the key.  key-gen writes type, path and key of a signing file        *)
(* together, so a signing file is its key, and its type is the path's.     *)
(* Files arrive in the order of the command line and may repeat.           *)
(***************************************************************************)
EXTENDS Naturals, Sequences

CONSTANTS
  Seeds,       \* wallet seeds
  Paths,       \* derivation paths
  Type,        \* the signing file type of a path
  Script,      \* any script hash credential
  NoKey,       \* "no such part" of an address
  MaxSafe      \* Number.MAX_SAFE_INTEGER

Keys == Seeds \X Paths
Credentials == Keys \cup {Script}

FileTypes == {"Payment", "Stake", "PoolCold", "Mint", "MultiSig", "CIP36Voting"}

ASSUME SigningFilesConstants ==
  /\ Type \in [Paths -> FileTypes]
  /\ Script \notin Keys
  /\ NoKey \notin Keys
  /\ MaxSafe \in Nat

Modes == {"ORDINARY", "OWNER", "OPERATOR", "MULTISIG", "PLUTUS"}

StakeCertTypes == {"STAKE_REGISTRATION", "STAKE_DEREGISTRATION", "STAKE_DELEGATION"}

Certificates ==
  [type: StakeCertTypes, credential: Credentials]
    \cup [type: {"POOL_REGISTRATION"}, operator: Keys, owners: Seq(Keys),
          rewardAccount: Credentials, relayPorts: SUBSET Nat]
    \cup [type: {"POOL_RETIREMENT"}, operator: Keys]
    \cup [type: {"OTHER"}]

\* INVALID is an address whose first byte is of no known type: getAddressType throws.
AddressKinds == {"BYRON", "BASE_KEY_KEY", "ENTERPRISE_KEY", "REWARD_KEY", "OTHER", "INVALID"}
Addresses ==
  [kind: {"BASE_KEY_KEY"}, payment: Keys, stake: Keys]
    \cup [kind: {"BYRON", "ENTERPRISE_KEY"}, payment: Keys, stake: {NoKey}]
    \cup [kind: {"REWARD_KEY"}, payment: {NoKey}, stake: Keys]
    \cup [kind: {"OTHER", "INVALID"}, payment: {NoKey}, stake: {NoKey}]

Networks == {"mainnet", "testnet"}
Absent == "absent"

Bodies ==
  [inputs: Seq(Nat),         \* the index of each input, reference and collateral ones too
   outputs: Seq(Addresses), certificates: Seq(Certificates),
   withdrawals: Seq(Credentials), requiredSigners: SUBSET Keys,
   mint: BOOLEAN, collateralInputs: BOOLEAN, networkId: Networks \cup {Absent}]

Elements(s) == {s[i] : i \in DOMAIN s}

\* Number(n) of a BigInt: between MaxSafe and twice that, odd numbers go to the multiple
\* of four next to them.
Double(n) == IF n <= MaxSafe \/ n % 2 = 0 THEN n ELSE 4 * ((n + 1) \div 4)

-----------------------------------------------------------------------------
(* Selecting signing files *)

PathOf(key) == key[2]
TypeOf(key) == Type[key[2]]

\* filterSigningFiles: the files of one of the given types.
OfType(files, types) == {k \in Elements(files) : TypeOf(k) \in types}

Has(files, type) == OfType(files, {type}) # {}

\* More than one argument of a type, even if it is the same file twice.
Repeats(files, type) ==
  \E i, j \in DOMAIN files : i # j /\ TypeOf(files[i]) = type /\ TypeOf(files[j]) = type

One(files, type) == Has(files, type) /\ ~Repeats(files, type)

-----------------------------------------------------------------------------
(* The signing mode *)

PoolRegistrations(body) ==
  {i \in DOMAIN body.certificates : body.certificates[i].type = "POOL_REGISTRATION"}

FirstPoolRegistration(body) ==
  body.certificates[CHOOSE i \in PoolRegistrations(body) :
                      \A j \in PoolRegistrations(body) : i <= j]

\* Mutant: a pool registration needs no mode of its own.
NoPoolModes(body, files) ==
  IF body.collateralInputs THEN "PLUTUS"
  ELSE IF Has(files, "MultiSig") THEN "MULTISIG"
  ELSE "ORDINARY"

DetermineSigningMode(body, files) ==
  IF PoolRegistrations(body) # {} THEN
    IF FirstPoolRegistration(body).operator \in Elements(files) \/ Has(files, "Payment")
      THEN "OPERATOR"
      ELSE "OWNER"
  ELSE IF body.collateralInputs THEN "PLUTUS"
  ELSE IF Has(files, "MultiSig") THEN "MULTISIG"
  ELSE "ORDINARY"

-----------------------------------------------------------------------------
(* Do the body and the signing files fit together? *)

Retires(body) ==
  \E i \in DOMAIN body.certificates : body.certificates[i].type = "POOL_RETIREMENT"

OrdinaryWitnesses(body, files) ==
  /\ Has(files, "PoolCold") => Retires(body)
  /\ Has(files, "Mint") => body.mint
  /\ ~Has(files, "MultiSig")

\* Exactly one stake file tells which owner signs, and nothing else does.
PoolOwnerWitnesses(body, files) ==
  /\ OfType(files, {"Payment", "PoolCold", "Mint", "MultiSig"}) = {}
  /\ One(files, "Stake")

PoolOperatorWitnesses(body, files) ==
  /\ OfType(files, {"Stake", "Mint", "MultiSig"}) = {}
  /\ One(files, "PoolCold")

MultisigWitnesses(body, files) ==
  /\ OfType(files, {"Payment", "Stake", "PoolCold"}) = {}
  /\ Has(files, "Mint") => body.mint

PlutusWitnesses(body, files) == ~Has(files, "PoolCold")

\* validateWitnessing: the network first, then the rules of the mode.
ValidateWitnessing(network, body, files, mode) ==
  /\ body.networkId \in {Absent, network}
  /\ CASE mode = "ORDINARY" -> OrdinaryWitnesses(body, files)
       [] mode = "OWNER" -> PoolOwnerWitnesses(body, files)
       [] mode = "OPERATOR" -> PoolOperatorWitnesses(body, files)
       [] mode = "MULTISIG" -> MultisigWitnesses(body, files)
       [] mode = "PLUTUS" -> PlutusWitnesses(body, files)

-----------------------------------------------------------------------------
(* Addresses of outputs that the change files can rebuild *)

\* getAddressParameters: {} when the files do not yield the address (then it is
\* shown as a third party's), else the paths to rebuild it from.
AddressParameters(files, address) ==
  LET payment == OfType(files, {"Payment"})
      stake == OfType(files, {"Stake"})
      matches ==
        CASE address.kind \in {"BYRON", "ENTERPRISE_KEY"} -> address.payment \in payment
          [] address.kind = "BASE_KEY_KEY" ->
               address.payment \in payment /\ address.stake \in stake
          [] address.kind = "REWARD_KEY" -> address.stake \in stake
          [] OTHER -> FALSE
  IN IF matches THEN {address} ELSE {}

AreAddressParamsAllowed(mode) == mode \in {"ORDINARY", "PLUTUS"}
=============================================================================
