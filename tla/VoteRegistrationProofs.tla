------------------------ MODULE VoteRegistrationProofs ------------------------
(***************************************************************************)
(* Proofs about VoteRegistration, for any command line, device and wallet. *)
(*                                                                         *)
(* A request that has passed the checks says the same as the registration  *)
(* except for keys that are handed over as paths (Rebuilt); with files of  *)
(* the connected wallet it says the same altogether (RebuiltOwn).  What is *)
(* written has passed the comparison, and the comparison is an equality.   *)
(***************************************************************************)
EXTENDS VoteRegistration, TLAPS

\* What is known of the run at each point.
Phases ==
  /\ pc \in {"sign", "compare", "mismatch", "write", "fill", "done"} => Preparable
  /\ pc \in {"compare", "mismatch", "write", "fill", "done"} => signed = DeviceRegistration
  /\ pc \in {"write", "fill", "done"} => signed = TheRegistration
  /\ pc = "mismatch" => signed # TheRegistration
  /\ pc \in {"parse", "unparsed", "prepare", "sign", "compare", "mismatch", "write", "failed"}
       => out = Untouched
  /\ out.kind = "metadata" =>
       Preparable /\ signed = TheRegistration /\ signed = DeviceRegistration
         /\ out.data = TheRegistration /\ out.signatureOf = signed

IInv == TypeOK /\ Phases

-----------------------------------------------------------------------------
(* Command lines and requests *)

\* The parts of a command line.
LEMMA CommandTyped ==
  ASSUME cmd \in Commands
  PROVE  /\ cmd.voteKeys \in Seq(VoteKeyArgs) /\ cmd.weights \in Seq(Nat)
         /\ cmd.stake \in Keys /\ cmd.payment \in Seq(Keys)
         /\ cmd.address \in Addresses /\ cmd.purpose \in Nat
         /\ cmd.address.kind = "REWARD_KEY" => cmd.address.payment = NoKey
<1>1. cmd \in CommandLines
  BY VoteRegistrationConstants
<1> QED
  BY <1>1, VoteRegistrationConstants DEF CommandLines

\* The parts of an address.
LEMMA AddressTyped ==
  ASSUME NEW address \in Addresses
  PROVE  /\ address.kind \in AddressKinds
         /\ address.payment \in Keys \cup {NoKey} /\ address.stake \in Keys \cup {NoKey}
         /\ address = [kind |-> address.kind, payment |-> address.payment,
                       stake |-> address.stake]
BY DEF Addresses, AddressKinds

\* Each vote key has a weight.
LEMMA DelegationsTyped ==
  ASSUME cmd \in Commands, DelegationsOk
  PROVE  /\ TheDelegations \in Delegations
         /\ DOMAIN TheDelegations = DOMAIN cmd.voteKeys
         /\ \A i \in DOMAIN cmd.voteKeys :
              /\ TheDelegations[i] = [key |-> cmd.voteKeys[i].key,
                                      weight |-> IF SingleKey THEN 1 ELSE cmd.weights[i]]
              /\ cmd.voteKeys[i].key \in VoteKeys
              /\ (IF SingleKey THEN 1 ELSE cmd.weights[i]) \in Nat
<1> DEFINE n == Len(cmd.voteKeys)
           Weight(i) == IF SingleKey THEN 1 ELSE cmd.weights[i]
<1>1. n \in Nat /\ DOMAIN cmd.voteKeys = 1..n
      /\ \A i \in 1..n : cmd.voteKeys[i] \in VoteKeyArgs
  BY CommandTyped
<1>2. \A i \in 1..n : cmd.voteKeys[i].key \in VoteKeys
  BY <1>1 DEF VoteKeyArgs
<1>3. ASSUME NEW i \in 1..n PROVE Weight(i) \in Nat
  <2>1. CASE SingleKey
    BY <2>1
  <2>2. CASE ~SingleKey
    <3>1. n = Len(cmd.weights)
      BY <2>2 DEF DelegationsOk
    <3> QED
      BY <2>2, <3>1, CommandTyped
  <2> QED
    BY <2>1, <2>2
<1>4. TheDelegations = [i \in 1..n |-> [key |-> cmd.voteKeys[i].key, weight |-> Weight(i)]]
  BY <1>1 DEF TheDelegations
<1>5. TheDelegations \in [1..n -> [key: VoteKeys, weight: Nat]]
  BY <1>2, <1>3, <1>4
<1>6. TheDelegations \in Delegations
  <2> DEFINE S == [key: VoteKeys, weight: Nat]
  <2>1. TheDelegations \in [1..n -> S] /\ n \in Nat
    BY <1>1, <1>5
  <2> HIDE DEF S
  <2>2. TheDelegations \in Seq(S)
    BY <2>1
  <2> QED
    BY <2>2 DEF Delegations, S
<1> QED
  BY <1>1, <1>2, <1>3, <1>4, <1>6

\* Each vote key has the weight at its place.
LEMMA DelegationsByPlace ==
  ASSUME cmd \in Commands, DelegationsOk
  PROVE  /\ Len(TheDelegations) = Len(cmd.voteKeys)
         /\ Len(cmd.weights) \in {0, Len(cmd.voteKeys)}
         /\ \A i \in DOMAIN cmd.voteKeys :
              TheDelegations[i] = [key |-> cmd.voteKeys[i].key, weight |-> WeightAt(i)]
<1> DEFINE n == Len(cmd.voteKeys)
<1>1. /\ n \in Nat /\ DOMAIN cmd.voteKeys = 1..n
      /\ Len(cmd.weights) \in Nat /\ DOMAIN cmd.weights = 1..Len(cmd.weights)
  BY CommandTyped
<1>2. Len(TheDelegations) = n
  <2>1. TheDelegations \in Seq([key: VoteKeys, weight: Nat])
        /\ DOMAIN TheDelegations = DOMAIN cmd.voteKeys
    BY DelegationsTyped DEF Delegations
  <2>2. DOMAIN TheDelegations = 1..Len(TheDelegations) /\ Len(TheDelegations) \in Nat
    BY <2>1
  <2> QED
    BY <1>1, <2>1, <2>2
<1>3. CASE SingleKey
  <2>1. Len(cmd.weights) = 0 /\ \A i \in DOMAIN cmd.voteKeys : WeightAt(i) = 1
    BY <1>1, <1>3 DEF SingleKey, WeightAt
  <2> QED
    BY <1>2, <1>3, <2>1, DelegationsTyped
<1>4. CASE ~SingleKey
  <2>1. n = Len(cmd.weights) /\ \A i \in DOMAIN cmd.voteKeys : WeightAt(i) = cmd.weights[i]
    BY <1>1, <1>4 DEF DelegationsOk, WeightAt
  <2> QED
    BY <1>2, <1>4, <2>1, DelegationsTyped
<1> QED
  BY <1>3, <1>4

\* Numbers that have passed the checks are not rounded.
LEMMA NotRounded ==
  ASSUME cmd \in Commands, Preparable
  PROVE  /\ VoteRequest.delegations = TheDelegations
         /\ VoteRequest.purpose = cmd.purpose
         /\ VoteRequest.stake = ByPath(cmd.stake)
         /\ VoteRequest.address = PaymentDestination
<1>1. DelegationsOk
  BY DEF Preparable
<1>2. ASSUME NEW i \in DOMAIN TheDelegations
      PROVE  [key |-> TheDelegations[i].key, weight |-> Double(TheDelegations[i].weight)]
               = TheDelegations[i]
  <2>0. PICK k, w : TheDelegations[i] = [key |-> k, weight |-> w]
    BY <1>1, DelegationsTyped
  <2>1. TheDelegations[i] = [key |-> TheDelegations[i].key,
                             weight |-> TheDelegations[i].weight]
    BY <2>0
  <2>2. Double(TheDelegations[i].weight) = TheDelegations[i].weight
    BY DEF Preparable, Double
  <2> QED
    BY <2>1, <2>2
<1>3. TheDelegations = [i \in DOMAIN TheDelegations |-> TheDelegations[i]]
  BY DEF TheDelegations
<1>4. provider = "trezor" => Double(cmd.purpose) = cmd.purpose
  BY DEF Preparable, Double
<1>5. VoteRequest.delegations =
        [i \in DOMAIN TheDelegations |->
           [key |-> TheDelegations[i].key, weight |-> Double(TheDelegations[i].weight)]]
  BY DEF VoteRequest
<1>6. VoteRequest.delegations = TheDelegations
  BY <1>2, <1>3, <1>5
<1> QED
  BY <1>4, <1>6 DEF VoteRequest

\* The key that the device has at a path, and the key of a hash.
LEMMA Derived ==
  ASSUME NEW key \in Keys
  PROVE  /\ Derive(seed, ByPath(key)) = <<seed, PathOf(key)>>
         /\ Derive(seed, ByHash(key)) = key
         /\ seed \in Seeds => <<seed, PathOf(key)>> \in Keys
BY DEF Derive, ByPath, ByHash, PathOf, Keys

\* Also "no such part" is handed over as it is.
LEMMA DerivedNoKey == Derive(seed, ByHash(NoKey)) = NoKey
BY DEF Derive, ByHash

\* The device derives both parts of an address.
LEMMA AddressDerived ==
  ASSUME NEW kind, NEW p, NEW s
  PROVE  DeriveAddress(seed, [kind |-> kind, payment |-> p, stake |-> s]) =
           [kind |-> kind, payment |-> Derive(seed, p), stake |-> Derive(seed, s)]
BY DEF DeriveAddress

\* The registration the device rebuilds: numbers and vote keys as they were given, the
\* stake key from its own seed.
LEMMA Rebuilt ==
  ASSUME cmd \in Commands, seed \in Seeds, Preparable
  PROVE  /\ DeviceRegistration \in Registrations
         /\ DeviceRegistration =
              [delegations |-> TheDelegations, stake |-> <<seed, PathOf(cmd.stake)>>,
               address |-> DeriveAddress(seed, PaymentDestination), purpose |-> cmd.purpose]
<1>1. TheDelegations \in Delegations
  BY DelegationsTyped DEF Preparable
<1>2. cmd.stake \in Keys /\ cmd.purpose \in Nat /\ cmd.address \in Addresses
  BY CommandTyped
<1>3. Derive(seed, ByPath(cmd.stake)) = <<seed, PathOf(cmd.stake)>>
      /\ <<seed, PathOf(cmd.stake)>> \in Keys
  BY <1>2, Derived
<1>4. VoteRequest = [delegations |-> TheDelegations, stake |-> ByPath(cmd.stake),
                     address |-> PaymentDestination, purpose |-> cmd.purpose]
  BY NotRounded DEF VoteRequest
<1>5. DeviceRegistration =
        [delegations |-> TheDelegations, stake |-> <<seed, PathOf(cmd.stake)>>,
         address |-> DeriveAddress(seed, PaymentDestination), purpose |-> cmd.purpose]
  BY <1>3, <1>4 DEF DeviceRegistration
<1>6. DeriveAddress(seed, PaymentDestination) \in Addresses
  <2> DEFINE a == cmd.address
             Part(key) == Derive(seed, PathIf(IsOwnAddress /\ key # NoKey, key))
  <2>0. \A key \in Keys : Derive(seed, ByPath(key)) \in Keys /\ Derive(seed, ByHash(key)) = key
    BY Derived
  <2>1. /\ \A key \in Keys : Part(key) \in Keys
        /\ Part(NoKey) = NoKey
    BY <2>0, DerivedNoKey DEF PathIf
  <2>2. DeriveAddress(seed, PaymentDestination) =
          [kind |-> a.kind, payment |-> Part(a.payment), stake |-> Part(a.stake)]
    BY AddressDerived DEF PaymentDestination
  <2> QED
    BY <1>2, <2>1, <2>2 DEF Addresses
<1> QED
  BY <1>1, <1>2, <1>3, <1>5, <1>6 DEF Registrations

OwnFiles == \A k \in Elements(AddressFiles) : k[1] = seed

\* With files of the connected wallet the device rebuilds what the tool will write.
LEMMA RebuiltOwn ==
  ASSUME cmd \in Commands, seed \in Seeds, Preparable, OwnFiles
  PROVE  DeviceRegistration = TheRegistration
<1>1. cmd.stake \in Keys /\ cmd.payment \in Seq(Keys) /\ cmd.address \in Addresses
      /\ (cmd.address.kind = "REWARD_KEY" => cmd.address.payment = NoKey)
  BY CommandTyped
<1>2. cmd.stake \in Elements(AddressFiles)
  <2>1. AddressFiles[Len(cmd.payment) + 1] = cmd.stake
        /\ Len(cmd.payment) + 1 \in DOMAIN AddressFiles
    BY <1>1 DEF AddressFiles
  <2> QED
    BY <2>1 DEF Elements
<1>3. ASSUME NEW k \in Keys, k \in Elements(AddressFiles) PROVE <<seed, PathOf(k)>> = k
  BY <1>3 DEF OwnFiles, Keys, PathOf
<1>4. DeriveAddress(seed, PaymentDestination) = cmd.address
  <2> DEFINE a == cmd.address
             Part(key) == Derive(seed, PathIf(IsOwnAddress /\ key # NoKey, key))
  <2>1. DeriveAddress(seed, PaymentDestination) =
          [kind |-> a.kind, payment |-> Part(a.payment), stake |-> Part(a.stake)]
    BY AddressDerived DEF PaymentDestination
  <2>2. NoKey \notin Keys
    BY SigningFilesConstants
  <2>3. ASSUME NEW key \in Keys \cup {NoKey},
               IsOwnAddress => key = NoKey \/ key \in Elements(AddressFiles)
        PROVE  Part(key) = key
    <3>1. CASE IsOwnAddress /\ key # NoKey
      BY <1>3, <2>3, <3>1, Derived DEF PathIf
    <3>2. CASE ~(IsOwnAddress /\ key # NoKey)
      BY <3>2, <2>3, Derived, DerivedNoKey DEF PathIf
    <3> QED
      BY <3>1, <3>2
  <2>4. IsOwnAddress =>
          /\ a.payment = NoKey \/ a.payment \in Elements(AddressFiles)
          /\ a.stake \in Elements(AddressFiles)
    <3> SUFFICES ASSUME IsOwnAddress
                 PROVE  /\ a.payment = NoKey \/ a.payment \in Elements(AddressFiles)
                        /\ a.stake \in Elements(AddressFiles)
      OBVIOUS
    <3>1. AddressParameters(AddressFiles, a) # {}
      BY DEF IsOwnAddress, IsChange
    <3>2. a.kind \in {"BASE_KEY_KEY", "REWARD_KEY"}
      BY DEF Preparable
    <3>3. CASE a.kind = "BASE_KEY_KEY"
      BY <3>1, <3>3 DEF AddressParameters, OfType
    <3>4. CASE a.kind = "REWARD_KEY"
      BY <1>1, <3>1, <3>4 DEF AddressParameters, OfType
    <3> QED
      BY <3>2, <3>3, <3>4
  <2>5. Part(a.payment) = a.payment /\ Part(a.stake) = a.stake
    BY <1>1, <2>3, <2>4, AddressTyped
  <2> QED
    BY <1>1, <2>1, <2>5, AddressTyped
<1>5. <<seed, PathOf(cmd.stake)>> = cmd.stake
  BY <1>1, <1>2, <1>3
<1> QED
  BY <1>4, <1>5, Rebuilt DEF TheRegistration

-----------------------------------------------------------------------------
(* The run *)

\* What is written is typed.
LEMMA RegistrationTyped ==
  ASSUME cmd \in Commands, Preparable
  PROVE  TheRegistration \in Registrations
BY CommandTyped, DelegationsTyped DEF TheRegistration, Registrations, Preparable

\* The facts about requests do not change with the progress of the run.
SameCommand == provider' = provider /\ seed' = seed /\ cmd' = cmd

\* What is prepared stays prepared.
LEMMA CommandKept ==
  ASSUME SameCommand
  PROVE  /\ Preparable' = Preparable
         /\ DeviceRegistration' = DeviceRegistration
         /\ TheRegistration' = TheRegistration
BY DEF SameCommand, Preparable, DeviceRegistration, TheRegistration, VoteRequest,
   PaymentDestination, IsOwnAddress, AddressFiles, TheDelegations, DelegationsOk, SingleKey

\* The invariant holds at the start.
LEMMA InvInit == Init => IInv
BY DEF Init, IInv, TypeOK, Phases, Untouched, Nothing, Torn

\* Every step keeps the invariant.
LEMMA InvStep == IInv /\ [Next]_vars => IInv'
<1> SUFFICES ASSUME IInv, [Next]_vars PROVE IInv'
  OBVIOUS
<1> USE DEF IInv
<1>1. SameCommand
  BY DEF SameCommand, Next, vars, Parse, Prepare, Sign, Refuse, Compare, Truncate, Fill, Die,
     Goto
<1>2. /\ Preparable' = Preparable
      /\ DeviceRegistration' = DeviceRegistration
      /\ TheRegistration' = TheRegistration
  BY <1>1, CommandKept
<1>3. cmd \in Commands /\ seed \in Seeds /\ provider \in Providers
  BY DEF TypeOK
<1>4. Untouched.kind # "metadata" /\ Torn.kind # "metadata" /\ Untouched # Torn
  BY DEF Untouched, Torn
<1> USE <1>1, <1>2 DEF SameCommand
<1>5. CASE Parse
  <2>1. pc = "parse" /\ pc' \in {"prepare", "unparsed"} /\ signed' = signed /\ out' = out
    BY <1>5 DEF Parse, Goto
  <2> QED
    BY <1>4, <2>1 DEF TypeOK, Phases
<1>6. CASE Prepare
  <2>1. /\ pc = "prepare" /\ signed' = signed /\ out' = out
        /\ (pc' = "sign" /\ Preparable) \/ pc' = "failed"
    BY <1>6 DEF Prepare, Goto
  <2> QED
    BY <1>4, <2>1 DEF TypeOK, Phases
<1>7. CASE Sign
  <2>1. pc = "sign" /\ pc' = "compare" /\ signed' = DeviceRegistration /\ out' = out
    BY <1>7 DEF Sign, Goto
  <2>2. Preparable
    BY <2>1 DEF Phases
  <2>3. DeviceRegistration \in Registrations /\ DeviceRegistration # Nothing
    BY <1>3, <2>2, Rebuilt DEF Registrations, Nothing
  <2> QED
    BY <1>4, <2>1, <2>2, <2>3 DEF TypeOK, Phases
<1>8. CASE Refuse
  <2>1. pc = "sign" /\ pc' = "failed" /\ signed' = signed /\ out' = out
    BY <1>8 DEF Refuse, Goto
  <2> QED
    BY <1>4, <2>1 DEF TypeOK, Phases
<1>9. CASE Compare
  <2>1. /\ pc = "compare" /\ signed' = signed /\ out' = out
        /\ \/ pc' = "write" /\ signed = TheRegistration
           \/ pc' = "mismatch" /\ signed # TheRegistration
    BY <1>9 DEF Compare, Goto
  <2> QED
    BY <1>4, <2>1 DEF TypeOK, Phases
<1>10. CASE Truncate
  <2>1. pc = "write" /\ pc' = "fill" /\ signed' = signed /\ out' = Torn
    BY <1>10 DEF Truncate, Goto
  <2> QED
    BY <1>4, <2>1 DEF TypeOK, Phases
<1>11. CASE Fill
  <2>1. /\ pc = "fill" /\ pc' = "done" /\ signed' = signed
        /\ out' = [kind |-> "metadata", data |-> TheRegistration, signatureOf |-> signed]
    BY <1>11 DEF Fill, Goto
  <2>2. Preparable /\ signed = DeviceRegistration /\ signed = TheRegistration
    BY <2>1 DEF Phases
  <2>3. TheRegistration \in Registrations
    BY <1>3, <2>2, RegistrationTyped
  <2>4. out' \in MetadataFiles /\ out' # Torn
    BY <2>1, <2>2, <2>3 DEF MetadataFiles, Torn
  <2>5. out'.kind = "metadata" /\ out'.data = TheRegistration /\ out'.signatureOf = signed
    BY <2>1
  <2>6. TypeOK'
    BY <2>1, <2>4 DEF TypeOK
  <2>7. Phases'
    BY <2>1, <2>2, <2>5 DEF Phases
  <2> QED
    BY <2>6, <2>7
<1>12. CASE Die
  <2>1. /\ pc \in {"prepare", "sign", "compare", "write", "fill"} /\ pc' = "dead"
        /\ signed' = signed /\ out' = out
    BY <1>12 DEF Die, Goto
  <2> QED
    BY <1>4, <2>1 DEF TypeOK, Phases
<1>13. CASE UNCHANGED vars
  BY <1>13 DEF vars, TypeOK, Phases
<1> HIDE DEF IInv
<1> QED
  BY <1>5, <1>6, <1>7, <1>8, <1>9, <1>10, <1>11, <1>12, <1>13 DEF Next

\* What the device has signed and the comparison has let through is the command line's.
LEMMA InvSigned == IInv => RegistrationIsSigned
<1> SUFFICES ASSUME IInv PROVE RegistrationIsSigned
  OBVIOUS
<1>1. cmd \in Commands /\ seed \in Seeds
  BY DEF IInv, TypeOK
<1>2. CASE out.kind = "metadata"
  <2>1. /\ Preparable /\ out.data = TheRegistration /\ out.signatureOf = TheRegistration
        /\ TheRegistration = DeviceRegistration
    BY <1>2 DEF IInv, Phases
  <2>2. /\ out.data.stake = cmd.stake /\ out.data.address = cmd.address
        /\ out.data.purpose = cmd.purpose
        /\ out.data.delegations = TheDelegations
    BY <2>1 DEF TheRegistration
  <2>3. DeviceRegistration.stake = <<seed, PathOf(cmd.stake)>>
    BY <1>1, <2>1, Rebuilt
  <2>4. /\ Len(TheDelegations) = Len(cmd.voteKeys)
        /\ Len(cmd.weights) \in {0, Len(cmd.voteKeys)}
        /\ \A i \in DOMAIN cmd.voteKeys :
             TheDelegations[i] = [key |-> cmd.voteKeys[i].key, weight |-> WeightAt(i)]
    BY <1>1, <2>1, DelegationsByPlace DEF Preparable
  <2>5. out # Untouched
    BY <1>2 DEF Untouched
  <2>6. pc \notin {"unparsed", "failed", "mismatch"}
    BY <2>5 DEF IInv, Phases
  <2> QED
    BY <2>1, <2>2, <2>3, <2>4, <2>6 DEF RegistrationIsSigned
<1>3. CASE out.kind # "metadata"
  BY <1>3 DEF IInv, Phases, RegistrationIsSigned
<1> QED
  BY <1>2, <1>3

\* With own files there is nothing to find for the comparison.
LEMMA InvOwn == IInv => OwnFilesNeverMismatch
<1> SUFFICES ASSUME IInv, OwnFiles, pc = "mismatch" PROVE FALSE
  BY DEF OwnFilesNeverMismatch, OwnFiles
<1>1. cmd \in Commands /\ seed \in Seeds /\ Preparable
      /\ signed = DeviceRegistration /\ signed # TheRegistration
  BY DEF IInv, TypeOK, Phases
<1> QED
  BY <1>1, RebuiltOwn

\* Types, and that the out file is opened only after the device has signed.
THEOREM TypeCorrect == Spec => []TypeOK
<1>1. IInv => TypeOK
  BY DEF IInv
<1> QED
  BY <1>1, InvInit, InvStep, PTL DEF Spec

\* A metadata file holds the registration of the command line, and the signature in it is
\* the stake key's over exactly that.
THEOREM WrittenIsSigned == Spec => []RegistrationIsSigned
<1> QED
  BY InvInit, InvStep, InvSigned, PTL DEF Spec

\* With files of the connected wallet the hashes never differ.
THEOREM NoMismatchWithOwnFiles == Spec => []OwnFilesNeverMismatch
<1> QED
  BY InvInit, InvStep, InvOwn, PTL DEF Spec
-----------------------------------------------------------------------------
(* Both devices *)

\* What can be prepared for a Trezor can be prepared for a Ledger, and on the same seed the two
\* sign the same registration (signCIP36RegistrationMetaData of both providers): which
\* device answers first makes no difference.  The converse fails, as only a Trezor's purpose
\* has to fit a double.
THEOREM DevicesRegisterTheSame ==
  ASSUME cmd \in Commands, Preparable, provider = "trezor",
         provider' = "ledger", UNCHANGED <<cmd, seed>>
  PROVE  Preparable' /\ UNCHANGED DeviceRegistration
<1>1. Preparable'
  BY DEF Preparable, DelegationsOk, SingleKey, TheDelegations, IsOwnAddress, AddressFiles
<1>2. UNCHANGED <<TheDelegations, PaymentDestination>>
  BY DEF TheDelegations, SingleKey, PaymentDestination, IsOwnAddress, AddressFiles
<1>3. VoteRequest.purpose = cmd.purpose
  BY NotRounded
<1>4. VoteRequest'.purpose = cmd.purpose
  BY DEF VoteRequest
<1>5. /\ VoteRequest'.delegations = VoteRequest.delegations
      /\ VoteRequest'.stake = VoteRequest.stake
      /\ VoteRequest'.address = VoteRequest.address
  BY <1>2 DEF VoteRequest
<1> QED
  BY <1>1, <1>3, <1>4, <1>5 DEF DeviceRegistration
=============================================================================
