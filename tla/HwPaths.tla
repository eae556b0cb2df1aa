------------------------------- MODULE HwPaths -------------------------------
(***************************************************************************)
(* Derivation paths: how they are typed and written to signing files, what *)
(* class they are of, and which types the class gives to the key files     *)
(* (crypto-providers/util.ts, command-parser/parsers.ts, fileWriter.ts).   *)
(*                                                                         *)
(* The type of a key file is a label and a flavour ("ShelleyEd25519" and   *)
(* so on); its description follows from the class like the type and is     *)
(* left out.  A path element as text is its digits and whether an H        *)
(* follows them.                                                           *)
(***************************************************************************)
EXTENDS Integers, Sequences

CONSTANT HardenedThreshold   \* 2^31 in the code

\* The purposes and the coin type are below the threshold.
ASSUME HardenedAbovePurposes ==
  HardenedThreshold \in Nat /\ HardenedThreshold > 1855

Elements(s) == {s[i] : i \in DOMAIN s}

H(n) == n + HardenedThreshold
IsHardened(element) == element >= HardenedThreshold

BIP32Paths == Seq(Int)
PathTexts == Seq([digits: Int, hardened: BOOLEAN])

-----------------------------------------------------------------------------
(* Text *)

ParseBIP32Path(text) ==
  [i \in DOMAIN text |-> IF text[i].hardened THEN H(text[i].digits) ELSE text[i].digits]

\* Mutant: the threshold itself is printed as it is.
PathOutputOffByOne(path) ==
  [i \in DOMAIN path |->
     IF path[i] > HardenedThreshold
       THEN [digits |-> path[i] - HardenedThreshold, hardened |-> TRUE]
       ELSE [digits |-> path[i] % HardenedThreshold, hardened |-> FALSE]]

ConstructBIP32PathOutput(path) ==
  [i \in DOMAIN path |->
     IF IsHardened(path[i])
       THEN [digits |-> path[i] - HardenedThreshold, hardened |-> TRUE]
       ELSE [digits |-> path[i], hardened |-> FALSE]]

-----------------------------------------------------------------------------
(* Classes *)

PathTypes ==
  {"ACCOUNT", "SPENDING_BYRON", "SPENDING_SHELLEY", "STAKING", "ACCOUNT_MULTISIG",
   "SPENDING_MULTISIG", "STAKING_MULTISIG", "MINTING", "POOL_COLD", "CVOTE_ACCOUNT",
   "CVOTE", "INVALID"}

\* Accounts are not checked to be hardened where the code does not.
ClassifyPath(path) ==
  LET length == Len(path)
      Purpose(n) == path[1] = H(n)
  IN IF length < 3 \/ path[2] # H(1815) THEN "INVALID" ELSE
     CASE length = 3 /\ (Purpose(44) \/ Purpose(1852)) -> "ACCOUNT"
       [] length = 3 /\ Purpose(1854) -> "ACCOUNT_MULTISIG"
       [] length = 3 /\ Purpose(1855) /\ IsHardened(path[3]) -> "MINTING"
       [] length = 3 /\ Purpose(1694) /\ IsHardened(path[3]) -> "CVOTE_ACCOUNT"
       [] length = 4 /\ Purpose(1853) /\ path[3] = H(0) /\ IsHardened(path[4]) -> "POOL_COLD"
       [] length = 5 /\ Purpose(44) /\ path[4] \in {0, 1} -> "SPENDING_BYRON"
       [] length = 5 /\ Purpose(1852) /\ path[4] \in {0, 1} -> "SPENDING_SHELLEY"
       [] length = 5 /\ Purpose(1852) /\ path[4] = 2 /\ path[5] = 0 -> "STAKING"
       [] length = 5 /\ Purpose(1854) /\ path[4] = 0 -> "SPENDING_MULTISIG"
       [] length = 5 /\ Purpose(1854) /\ path[4] = 2 -> "STAKING_MULTISIG"
       [] length = 5 /\ Purpose(1694) /\ IsHardened(path[3]) /\ path[4] = 0 -> "CVOTE"
       [] OTHER -> "INVALID"

-----------------------------------------------------------------------------
(* Labels and types of key files *)

Labels == {"Payment", "Stake", "StakePool", "CIP36Vote"}
Flavours == {"ShelleyEd25519", "ByronEd25519Bip32", "Ed25519"}

\* The classes that bip32PathLabel knows; for any other it throws.
Labelled ==
  {"SPENDING_BYRON", "SPENDING_SHELLEY", "SPENDING_MULTISIG", "MINTING", "STAKING",
   "STAKING_MULTISIG", "POOL_COLD", "CVOTE"}

HasLabel(path) == ClassifyPath(path) \in Labelled

PathLabel(class) ==
  CASE class \in {"STAKING", "STAKING_MULTISIG"} -> "Stake"
    [] class = "POOL_COLD" -> "StakePool"
    [] class = "CVOTE" -> "CIP36Vote"
    [] OTHER -> "Payment"

VerificationKeyType(path) ==
  LET class == ClassifyPath(path)
  IN [label |-> PathLabel(class),
      flavour |-> CASE class \in {"POOL_COLD", "CVOTE"} -> "Ed25519"
                    [] class = "SPENDING_BYRON" -> "ByronEd25519Bip32"
                    [] OTHER -> "ShelleyEd25519"]

HwSigningFileType(path) ==
  LET class == ClassifyPath(path)
  IN [label |-> PathLabel(class),
      flavour |-> CASE class = "CVOTE" -> "Ed25519"
                    [] class = "SPENDING_BYRON" -> "ByronEd25519Bip32"
                    [] OTHER -> "ShelleyEd25519"]

-----------------------------------------------------------------------------
(* What is made of the type when a signing file is read *)

HwSigningTypes == {"Payment", "Stake", "PoolCold", "Mint", "MultiSig", "CIP36Voting"}

\* startsWith: the label of cold keys starts with that of stake keys.
StartsWith(label, prefix) == label = prefix \/ (label = "StakePool" /\ prefix = "Stake")

\* The label parseFileTypeMagic asks for, and the type it returns.
ExpectedLabel(class) ==
  CASE class \in {"STAKING", "STAKING_MULTISIG"} -> "Stake"
    [] class = "POOL_COLD" -> "StakePool"
    [] class \in {"CVOTE_ACCOUNT", "CVOTE"} -> "CIP36Vote"
    [] OTHER -> "Payment"

HwSigningType(class) ==
  CASE class \in {"ACCOUNT_MULTISIG", "SPENDING_MULTISIG", "STAKING_MULTISIG"} -> "MultiSig"
    [] class \in {"ACCOUNT", "SPENDING_BYRON", "SPENDING_SHELLEY"} -> "Payment"
    [] class = "STAKING" -> "Stake"
    [] class = "MINTING" -> "Mint"
    [] class = "POOL_COLD" -> "PoolCold"
    [] class \in {"CVOTE_ACCOUNT", "CVOTE"} -> "CIP36Voting"

FileTypeMagicOk(type, class) ==
  class # "INVALID" /\ StartsWith(type.label, ExpectedLabel(class))
=============================================================================
