---------------------------- MODULE SignRequest -----------------------------
(***************************************************************************)
(* What the two crypto providers ask their device to sign, and what they   *)
(* make of its witnesses (ledgerCryptoProvider.ts and                      *)
(* trezorCryptoProvider.ts).  A request is the body with each key replaced *)
(* by the way it is handed over: as a path, which the device derives from  *)
(* its own seed, or as a hash.  The device signs the body it rebuilds.     *)
(***************************************************************************)
EXTENDS SigningFiles

Providers == {"ledger", "trezor"}

ByPath(key) == [by |-> "path", path |-> PathOf(key)]
ByHash(key) == [by |-> "hash", hash |-> key]
Undefined == [by |-> "undefined"]

PathIf(cond, key) == IF cond THEN ByPath(key) ELSE ByHash(key)

-----------------------------------------------------------------------------
(* Preparing the parts of a request *)

\* prepareDestination: an output the user need not check is given by its paths.
IsChange(address, change, mode) ==
  AddressParameters(change, address) # {} /\ AreAddressParamsAllowed(mode)

\* The Trezor is given an encoded address, the Ledger its bytes: with no change files,
\* those of an address of no known type as well.
DestinationOk(provider, address, change, mode) ==
  /\ address.kind = "INVALID" => provider = "ledger" /\ change = << >>
  /\ IsChange(address, change, mode) => address.payment # NoKey

Destination(address, change, mode) ==
  LET own == IsChange(address, change, mode)
  IN [kind |-> address.kind,
      payment |-> PathIf(own, address.payment),
      stake |-> PathIf(own /\ address.stake # NoKey, address.stake)]

\* _prepareStakeCredential: a path if there is a file for it; a bare key hash is for
\* Plutus transactions only.
CredentialOk(credential, stake, mode) ==
  credential \in stake \cup {Script} \/ mode = "PLUTUS"

StakeCredential(credential, stake) == PathIf(credential \in stake, credential)

OwnersByPath(provider, owners, stake, mode) ==
  {i \in DOMAIN owners : owners[i] \in stake /\ (provider = "trezor" \/ mode = "OWNER")}

PoolOwnersOk(provider, owners, stake, mode) ==
  LET byPath == OwnersByPath(provider, owners, stake, mode)
  IN /\ provider = "trezor" \/ mode = "OWNER" => byPath # {}
     /\ \A i, j \in byPath : i = j

\* Mutant: the owner who signs is named by hash like the others.
PoolOwnersHashed(provider, owners, stake, mode) ==
  [i \in DOMAIN owners |-> ByHash(owners[i])]

PoolOwners(provider, owners, stake, mode) ==
  [i \in DOMAIN owners |->
     PathIf(i \in OwnersByPath(provider, owners, stake, mode), owners[i])]

\* preparePoolKey: as OPERATOR, the path is whatever the search for it returned.
PoolKey(provider, operator, files, mode) ==
  IF provider = "trezor" \/ mode = "OWNER" THEN ByHash(operator)
  ELSE IF operator \in files THEN ByPath(operator) ELSE Undefined

RewardAccount(provider, account, stake) ==
  PathIf(provider = "ledger" /\ account \in stake, account)

\* prepareRelays: a port that is 0 is taken for a missing one.
RelayPorts(ports) == ports \ {0}

\* Mutant: the Trezor is given payment files, too.
CertificateFilesPaying(provider, files) ==
  OfType(files, IF provider = "ledger" THEN {"Stake", "PoolCold"} ELSE {"Stake", "Payment"})

\* prepareCertificate.  The Ledger looks for keys among stake and cold files, the
\* Trezor, which has no pool retirement, among stake files.
CertificateFiles(provider, files) ==
  OfType(files, IF provider = "ledger" THEN {"Stake", "PoolCold"} ELSE {"Stake"})

CertificateOk(provider, cert, files, mode) ==
  LET given == CertificateFiles(provider, files)
  IN CASE cert.type \in StakeCertTypes -> CredentialOk(cert.credential, given, mode)
       [] cert.type = "POOL_REGISTRATION" ->
            /\ provider = "ledger" => mode \in {"OWNER", "OPERATOR"}
            /\ PoolOwnersOk(provider, cert.owners, given, mode)
       [] cert.type = "POOL_RETIREMENT" -> provider = "ledger" /\ cert.operator \in given
       [] OTHER -> FALSE

Certificate(provider, cert, files, mode) ==
  LET given == CertificateFiles(provider, files)
  IN CASE cert.type \in StakeCertTypes ->
            [cert EXCEPT !.credential = StakeCredential(@, given)]
       [] cert.type = "POOL_REGISTRATION" ->
            [cert EXCEPT
               !.operator = PoolKey(provider, @, given, mode),
               !.owners = PoolOwners(provider, @, given, mode),
               !.rewardAccount = RewardAccount(provider, @, OfType(files, {"Stake"})),
               !.relayPorts = RelayPorts(@)]
       [] OTHER -> [cert EXCEPT !.operator = ByPath(@)]

RequiredSigner(key, files) ==
  PathIf(key \in OfType(files, {"Payment", "Stake", "Mint", "MultiSig"}), key)

\* Every input is signed for by naming its path as an additional witness.
AdditionalWitnessRequests(files) ==
  {PathOf(k) : k \in OfType(files, {"Payment", "Mint", "MultiSig"})}

-----------------------------------------------------------------------------
(* ledgerSignTx, trezorSignTx up to the call of the device *)

\* Mutant: an input index is converted unseen.
RequestOkAnyIndex(provider, body, files, change, mode) ==
  /\ \A i \in DOMAIN body.outputs : DestinationOk(provider, body.outputs[i], change, mode)
  /\ \A i \in DOMAIN body.certificates :
       CertificateOk(provider, body.certificates[i], files, mode)
  /\ \A i \in DOMAIN body.withdrawals :
       CredentialOk(body.withdrawals[i], OfType(files, {"Stake"}), mode)
  /\ provider = "trezor" => mode # "OPERATOR"

RequestOk(provider, body, files, change, mode) ==
  /\ \A i \in DOMAIN body.inputs : body.inputs[i] <= MaxSafe
  /\ \A i \in DOMAIN body.outputs : DestinationOk(provider, body.outputs[i], change, mode)
  /\ \A i \in DOMAIN body.certificates :
       CertificateOk(provider, body.certificates[i], files, mode)
  /\ \A i \in DOMAIN body.withdrawals :
       CredentialOk(body.withdrawals[i], OfType(files, {"Stake"}), mode)
  /\ provider = "trezor" => mode # "OPERATOR"

\* Mutant: the keys of change outputs are asked for as well.
RequestWithChange(provider, body, files, change, mode) ==
  [body |->
     [body EXCEPT
        !.inputs = [i \in DOMAIN @ |-> Double(@[i])],
        !.outputs = [i \in DOMAIN @ |-> Destination(@[i], change, mode)],
        !.certificates = [i \in DOMAIN @ |-> Certificate(provider, @[i], files, mode)],
        !.withdrawals = [i \in DOMAIN @ |-> StakeCredential(@[i], OfType(files, {"Stake"}))],
        !.requiredSigners = {RequiredSigner(k, files) : k \in @}],
   additional |-> AdditionalWitnessRequests(files \o change)]

Request(provider, body, files, change, mode) ==
  [body |->
     [body EXCEPT
        !.inputs = [i \in DOMAIN @ |-> Double(@[i])],
        !.outputs = [i \in DOMAIN @ |-> Destination(@[i], change, mode)],
        !.certificates = [i \in DOMAIN @ |-> Certificate(provider, @[i], files, mode)],
        !.withdrawals = [i \in DOMAIN @ |-> StakeCredential(@[i], OfType(files, {"Stake"}))],
        !.requiredSigners = {RequiredSigner(k, files) : k \in @}],
   additional |-> AdditionalWitnessRequests(files)]

-----------------------------------------------------------------------------
(* The device (external) *)

\* The ways the keys of a certificate are handed over.
KeysHandedOver(cert) ==
  CASE cert.type \in StakeCertTypes -> {cert.credential}
    [] cert.type = "POOL_REGISTRATION" -> {cert.operator} \cup Elements(cert.owners)
    [] OTHER -> {cert.operator}

PathsIn(items) == {h.path : h \in {x \in items : x.by = "path"}}

\* A stake registration may go without a witness of the stake key.
MustSign(request) ==
  request.additional
    \cup PathsIn(Elements(request.body.withdrawals))
    \cup PathsIn(request.body.requiredSigners)
    \cup UNION {PathsIn(KeysHandedOver(c)) :
                  c \in {x \in Elements(request.body.certificates) :
                           x.type # "STAKE_REGISTRATION"}}

MaySign(request) ==
  MustSign(request)
    \cup UNION {PathsIn(KeysHandedOver(c)) : c \in Elements(request.body.certificates)}

\* A request with an undefined path is refused by the device's library.
WellFormed(request) ==
  \A c \in Elements(request.body.certificates) : Undefined \notin KeysHandedOver(c)

\* The body the device rebuilds, deriving each path from its own seed.
Derive(seed, item) ==
  CASE item.by = "path" -> <<seed, item.path>>
    [] item.by = "hash" -> item.hash

DeriveAddress(seed, address) ==
  [kind |-> address.kind,
   payment |-> Derive(seed, address.payment), stake |-> Derive(seed, address.stake)]

DeriveCertificate(seed, cert) ==
  CASE cert.type \in StakeCertTypes -> [cert EXCEPT !.credential = Derive(seed, @)]
    [] cert.type = "POOL_REGISTRATION" ->
         [cert EXCEPT !.operator = Derive(seed, @),
                      !.owners = [i \in DOMAIN @ |-> Derive(seed, @[i])],
                      !.rewardAccount = Derive(seed, @)]
    [] OTHER -> [cert EXCEPT !.operator = Derive(seed, @)]

BodySigned(seed, request) ==
  [request.body EXCEPT
     !.outputs = [i \in DOMAIN @ |-> DeriveAddress(seed, @[i])],
     !.certificates = [i \in DOMAIN @ |-> DeriveCertificate(seed, @[i])],
     !.withdrawals = [i \in DOMAIN @ |-> Derive(seed, @[i])],
     !.requiredSigners = {Derive(seed, x) : x \in @}]

-----------------------------------------------------------------------------
(* createWitnesses *)

\* The Ledger answers with paths, the Trezor with public keys.
FileFound(provider, seed, path, files) ==
  IF provider = "ledger"
    THEN \E k \in Elements(files) : PathOf(k) = path
    ELSE <<seed, path>> \in Elements(files)

FirstAt(path, files) ==
  files[CHOOSE i \in DOMAIN files :
          /\ PathOf(files[i]) = path
          /\ \A j \in DOMAIN files : PathOf(files[j]) = path => i <= j]

\* Mutant: the public key is taken from the file found by path on both devices.
KeyOfFile(provider, seed, path, files) == FirstAt(path, files)

\* The public key put into the witness: the file's for a Ledger, the device's own
\* for a Trezor.
PublicKey(provider, seed, path, files) ==
  IF provider = "ledger" THEN FirstAt(path, files) ELSE <<seed, path>>
=============================================================================
